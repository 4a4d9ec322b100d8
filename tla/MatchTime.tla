----------------------------- MODULE MatchTime -----------------------------
(***************************************************************************)
(* The arithmetic of class Time, one loop iteration per step:              *)
(*   sub   Time - timedelta   walks back over period.prev_period           *)
(*   add   Time + timedelta   walks forward over period.next_period        *)
(*   diff  Time - Time        walks from the later period to the earlier   *)
(* period, timestamp and rest are the locals of the loops: current_period, *)
(* current_timestamp (diff in the third loop) and what is left of other.   *)
(***************************************************************************)
EXTENDS Clock

CONSTANTS
    Stamps,  \* timestamps a Time may carry
    Deltas   \* timedeltas to add or subtract

ASSUME InputAssumption == Stamps \subseteq Nat /\ Deltas \subseteq Nat

VARIABLES
    pc,        \* "idle", the name of the running loop, or "done"
    self,      \* the Time the operation was called on
    other,     \* the timedelta of sub and add
    target,    \* the other Time of diff, exchanged with self when it is later
    sign,      \* -1 when diff exchanged its arguments
    period, timestamp, rest,
    op,        \* the operation that returned
    moment,    \* result of sub and add
    delta      \* result of diff

vars == <<pc, self, other, target, sign, period, timestamp, rest, op, moment, delta>>

Input == {At(p, ts) : p \in Period, ts \in Stamps}

Init ==
    /\ pc = "idle"
    /\ self = StartOfMatch /\ target = StartOfMatch
    /\ other = 0 /\ sign = 1
    /\ period = 1 /\ timestamp = 0 /\ rest = 0
    /\ op = "none" /\ moment = StartOfMatch /\ delta = 0

Ready == pc \in {"idle", "done"}

\* The result of the previous call is gone, and so are its locals.
NoResult == op' = "none" /\ moment' = StartOfMatch /\ delta' = 0

CallSub(t, d) ==
    /\ Ready
    /\ pc' = "sub" /\ self' = t /\ other' = d
    /\ period' = t.period /\ timestamp' = t.timestamp /\ rest' = d
    /\ target' = StartOfMatch /\ sign' = 1
    /\ NoResult

CallAdd(t, d) ==
    /\ Ready
    /\ pc' = "add" /\ self' = t /\ other' = d
    /\ period' = t.period /\ timestamp' = t.timestamp /\ rest' = d
    /\ target' = StartOfMatch /\ sign' = 1
    /\ NoResult

\* -other.__sub__(self) when other lies in a later period
CallDiff(t, u) ==
    /\ Ready
    /\ pc' = "diff" /\ rest' = 0
    /\ \/ t.period >= u.period /\ self' = t /\ target' = u /\ sign' = 1
       \/ t.period < u.period /\ self' = u /\ target' = t /\ sign' = -1
    /\ period' = self'.period /\ timestamp' = self'.timestamp
    /\ other' = 0
    /\ NoResult

Return(name, t, d) ==
    /\ pc' = "done" /\ op' = name /\ moment' = t /\ delta' = d
    /\ UNCHANGED <<self, other, target, sign, period, timestamp, rest>>

\* Fault: steps back with the duration of the period it leaves
StepBackSameDuration ==
    /\ pc = "sub" /\ rest > timestamp /\ HasPrev(period)
    /\ rest' = rest - timestamp
    /\ period' = period - 1
    /\ timestamp' = Duration[period]
    /\ UNCHANGED <<pc, self, other, target, sign, op, moment, delta>>

\* Fault: consumes the timestamp and stays in the period
StepBackStays ==
    /\ pc = "sub" /\ rest > timestamp /\ HasPrev(period)
    /\ rest' = rest - timestamp
    /\ UNCHANGED <<pc, self, other, target, sign, period, timestamp, op, moment, delta>>

\* while other > current_timestamp, and a period to go back to
StepBack ==
    /\ pc = "sub" /\ rest > timestamp /\ HasPrev(period)
    /\ rest' = rest - timestamp
    /\ period' = period - 1
    /\ timestamp' = Duration[period - 1]
    /\ UNCHANGED <<pc, self, other, target, sign, op, moment, delta>>

SubReturn ==
    /\ pc = "sub" /\ rest <= timestamp
    /\ Return("sub", At(period, timestamp - rest), 0)

\* Fault: the result is not clamped at the kick-off
SubBeforeStartNegative ==
    /\ pc = "sub" /\ rest > timestamp /\ ~HasPrev(period)
    /\ Return("sub", At(period, timestamp - rest), 0)

SubBeforeStart ==
    /\ pc = "sub" /\ rest > timestamp /\ ~HasPrev(period)
    /\ Return("sub", At(period, 0), 0)

\* Fault: leaves the period on reaching its end instead of on passing it
StepForwardAtEnd ==
    /\ pc = "add" /\ timestamp + rest >= Duration[period] /\ HasNext(period)
    /\ rest' = rest - (Duration[period] - timestamp)
    /\ period' = period + 1
    /\ timestamp' = 0
    /\ UNCHANGED <<pc, self, other, target, sign, op, moment, delta>>

\* while current_timestamp + other > current_period.duration
StepForward ==
    /\ pc = "add" /\ timestamp + rest > Duration[period] /\ HasNext(period)
    /\ rest' = rest - (Duration[period] - timestamp)
    /\ period' = period + 1
    /\ timestamp' = 0
    /\ UNCHANGED <<pc, self, other, target, sign, op, moment, delta>>

AddReturn ==
    /\ pc = "add" /\ timestamp + rest <= Duration[period]
    /\ Return("add", At(period, timestamp + rest), 0)

AddAfterEnd ==
    /\ pc = "add" /\ timestamp + rest > Duration[period] /\ ~HasNext(period)
    /\ Return("add", At(period, Duration[period]), 0)

\* while current_period > other.period: diff += current_period.duration
StepDiff ==
    /\ pc = "diff" /\ period > target.period
    /\ period' = period - 1
    /\ timestamp' = timestamp + Duration[period - 1]
    /\ UNCHANGED <<pc, self, other, target, sign, rest, op, moment, delta>>

DiffReturn ==
    /\ pc = "diff" /\ period <= target.period
    /\ Return("diff", self, sign * (timestamp - target.timestamp))

Loop ==
    \/ StepBack \/ SubReturn \/ SubBeforeStart
    \/ StepForward \/ AddReturn \/ AddAfterEnd
    \/ StepDiff \/ DiffReturn

Next ==
    \/ \E t \in Input, d \in Deltas : CallSub(t, d) \/ CallAdd(t, d)
    \/ \E t, u \in Input : CallDiff(t, u)
    \/ Loop

Spec == Init /\ [][Next]_vars

\* A called function runs: nothing in these loops waits.
FairSpec == Spec /\ WF_vars(Loop)

----------------------------------------------------------------------------

TypeOK ==
    /\ pc \in {"idle", "sub", "add", "diff", "done"}
    /\ op \in {"none", "sub", "add", "diff"}
    /\ self \in Time /\ target \in Time /\ moment \in Time
    /\ other \in Nat /\ rest \in Int /\ delta \in Int /\ sign \in {1, -1}
    /\ period \in Period /\ timestamp \in Nat

\* Every loop keeps its promise half-way: what it has walked plus what it has
\* left is the instant asked for.  (domain/models/time.py, the three loops)
LoopConserves ==
    /\ pc = "sub" => /\ Kickoff[period] + timestamp - rest = Ticks(self) - other
                     /\ rest >= 0
    /\ pc = "add" => /\ Kickoff[period] + timestamp + rest = Ticks(self) + other
                     /\ rest >= 0
    /\ pc = "diff" => /\ period >= target.period
                      /\ Kickoff[period] + timestamp = Ticks(self)

\* Going back or forward by a timedelta moves the match clock by exactly that
\* much, whatever periods lie between, and stops at the ends of the match;
\* subtracting two Times gives the play between them, negative when the first
\* is the earlier.
ResultExact ==
    pc = "done" =>
        /\ op = "sub" => \/ Ticks(moment) = Ticks(self) - other
                         \/ moment = StartOfMatch /\ other > Ticks(self)
        /\ op = "add" => \/ Ticks(moment) = Ticks(self) + other
                         \/ moment = EndOfMatch /\ Ticks(self) + other > TotalTicks
        /\ op = "diff" => delta = sign * (Ticks(self) - Ticks(target))

\* The last instant of a period and the kick-off of the next are the same
\* instant but different Times, hence different keys of a TimeContainer.
\* Which of the two an operation returns is fixed: a Time that moved back to
\* another period is never its final whistle, one that moved forward never a
\* kick-off, and neither lies outside its period.
BoundaryRepresentation ==
    (pc = "done" /\ op \in {"sub", "add"} /\ moment.period # self.period) =>
        /\ InPeriod(moment)
        /\ op = "sub" => moment.timestamp < Duration[moment.period] \/ moment = StartOfMatch
        /\ op = "add" => moment.timestamp > 0 \/ moment = EndOfMatch

\* Each loop ends: the walk over the linked periods runs out of links.
LoopEnds == pc \in {"sub", "add", "diff"} ~> pc = "done"

============================================================================
