------------------------------- MODULE Clock -------------------------------
(***************************************************************************)
(* The time line of a match: the periods of Metadata.periods, linked by    *)
(* Metadata.__post_init__, and the values of class Time.                   *)
(*                                                                         *)
(* A timestamp is a number of ticks since the kick-off of its period.      *)
(* Nothing bounds it by the duration of the period: providers report       *)
(* events after the final whistle they report.                             *)
(*                                                                         *)
(* Kickoff is not in the code.  It is the number of ticks played before    *)
(* the period starts; the properties are stated on it.                     *)
(***************************************************************************)
EXTENDS Integers

CONSTANTS
    NumPeriods, \* len(metadata.periods); periods are 1..NumPeriods
    Duration,   \* Duration[p]: Period.duration
    Kickoff     \* Kickoff[p]: sum of the durations of the periods before p

ASSUME ClockAssumption ==
    /\ NumPeriods \in Nat \ {0}
    /\ Duration \in [1..NumPeriods -> Nat]
    /\ Kickoff \in [1..NumPeriods -> Nat]
    /\ Kickoff[1] = 0
    /\ \A p \in 1..NumPeriods : p > 1 => Kickoff[p] = Kickoff[p-1] + Duration[p-1]

Period == 1..NumPeriods

Time == [period : Period, timestamp : Nat]

At(p, ts) == [period |-> p, timestamp |-> ts]

\* period.prev_period and period.next_period are set
HasPrev(p) == p > 1
HasNext(p) == p < NumPeriods

\* Time.__lt__, and its closure as SortedDict's bisect_right uses it
Before(s, t) ==
    \/ s.period < t.period
    \/ s.period = t.period /\ s.timestamp < t.timestamp

NotAfter(s, t) == ~Before(t, s)

StartOfMatch == At(1, 0)

EndOfMatch == At(NumPeriods, Duration[NumPeriods])

\* Time.__sub__(Time), as a value; MatchTime has it step by step.  The loop adds
\* the durations of the periods in between.
MinusTime(s, t) ==
    LET between(p, q) == Kickoff[q] - Kickoff[p]
    IN  IF s.period >= t.period
        THEN s.timestamp + between(t.period, s.period) - t.timestamp
        ELSE -(t.timestamp + between(s.period, t.period) - s.timestamp)

\* Ticks of play before t: the scale on which every operation is judged
Ticks(t) == Kickoff[t.period] + t.timestamp

TotalTicks == Kickoff[NumPeriods] + Duration[NumPeriods]

\* t lies between the kick-off and the final whistle of its period
InPeriod(t) == t.timestamp <= Duration[t.period]

============================================================================
