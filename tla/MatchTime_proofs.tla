-------------------------- MODULE MatchTime_proofs --------------------------
(***************************************************************************)
(* The arithmetic of Time is exact for every list of periods.  The proofs  *)
(* use that Kickoff accumulates Duration and nothing else about them: any  *)
(* number of periods, of any length, empty ones included.                  *)
(***************************************************************************)
EXTENDS MatchTime, TLAPS

\* Once a loop has changed period, the Time it holds is the final whistle
\* (walking back) or the kick-off (walking forward) of the period it is in,
\* and something is still to be consumed.
LoopAtBoundary ==
    /\ (pc = "sub" /\ period # self.period) => timestamp = Duration[period] /\ rest > 0
    /\ (pc = "add" /\ period # self.period) => timestamp = 0 /\ rest > 0

IInv ==
    /\ TypeOK
    /\ LoopConserves
    /\ LoopAtBoundary
    /\ ResultExact
    /\ BoundaryRepresentation

LEMMA ConstantsTyped ==
    /\ NumPeriods \in Nat /\ NumPeriods > 0
    /\ \A p \in Period : p \in Nat /\ Duration[p] \in Nat /\ Kickoff[p] \in Nat
    /\ 1 \in Period /\ NumPeriods \in Period
    /\ StartOfMatch \in Time /\ EndOfMatch \in Time
    /\ Input \subseteq Time
    /\ \A d \in Deltas : d \in Nat
BY ClockAssumption, InputAssumption
   DEF Period, StartOfMatch, EndOfMatch, At, Time, Input

LEMMA TicksTyped == \A t \in Time : Ticks(t) \in Nat
<1>. SUFFICES ASSUME NEW t \in Time PROVE Ticks(t) \in Nat
  OBVIOUS
<1>1. t.period \in Period /\ t.timestamp \in Nat
  BY DEF Time
<1>2. Kickoff[t.period] \in Nat
  BY <1>1, ConstantsTyped
<1>. QED
  BY <1>1, <1>2 DEF Ticks

\* One period earlier, the kick-off is earlier by that period's duration.
LEMMA KickoffStep ==
    ASSUME NEW p \in Period, p > 1
    PROVE  /\ p - 1 \in Period
           /\ Kickoff[p] = Kickoff[p - 1] + Duration[p - 1]
BY ClockAssumption DEF Period

LEMMA InitIInv == Init => IInv
<1>. SUFFICES ASSUME Init PROVE IInv
  OBVIOUS
<1>1. TypeOK
  BY ConstantsTyped DEF Init, TypeOK
<1>. QED
  BY <1>1 DEF Init, IInv, LoopConserves, LoopAtBoundary, ResultExact, BoundaryRepresentation

LEMMA NextIInv == IInv /\ [Next]_vars => IInv'
<1>. SUFFICES ASSUME IInv, [Next]_vars PROVE IInv'
  OBVIOUS
<1>. USE ConstantsTyped DEF IInv
<1>1. ASSUME NEW t \in Input, NEW d \in Deltas, CallSub(t, d) PROVE IInv'
  <2>1. t \in Time /\ d \in Nat /\ t.period \in Period /\ t.timestamp \in Nat
    BY DEF Time
  <2>2. TypeOK'
    BY <1>1, <2>1 DEF CallSub, NoResult, TypeOK
  <2>3. LoopConserves'
    <3>1. pc' = "sub" /\ self' = t /\ other' = d
          /\ period' = t.period /\ timestamp' = t.timestamp /\ rest' = d
      BY <1>1 DEF CallSub
    <3>2. Kickoff[t.period] + t.timestamp - d = (Kickoff[t.period] + t.timestamp) - d
      <4>1. Kickoff[t.period] \in Nat
        BY <2>1
      <4>. QED
        BY <4>1, <2>1
    <3>. QED
      BY <3>1, <3>2, <2>1 DEF LoopConserves, Ticks
  <2>. QED
    BY <1>1, <2>2, <2>3 DEF CallSub, LoopAtBoundary, ResultExact, BoundaryRepresentation
<1>2. ASSUME NEW t \in Input, NEW d \in Deltas, CallAdd(t, d) PROVE IInv'
  <2>1. t \in Time /\ d \in Nat /\ t.period \in Period /\ t.timestamp \in Nat
    BY DEF Time
  <2>2. TypeOK'
    BY <1>2, <2>1 DEF CallAdd, NoResult, TypeOK
  <2>3. LoopConserves'
    BY <1>2, <2>1 DEF CallAdd, LoopConserves, Ticks
  <2>. QED
    BY <1>2, <2>2, <2>3 DEF CallAdd, LoopAtBoundary, ResultExact, BoundaryRepresentation
<1>3. ASSUME NEW t \in Input, NEW u \in Input, CallDiff(t, u) PROVE IInv'
  <2>1. /\ t \in Time /\ t.period \in Period /\ t.timestamp \in Nat
        /\ u \in Time /\ u.period \in Period /\ u.timestamp \in Nat
    BY DEF Time
  <2>2. TypeOK'
    BY <1>3, <2>1 DEF CallDiff, NoResult, TypeOK
  <2>3. LoopConserves'
    <3>1. pc' = "diff" /\ period' = self'.period /\ timestamp' = self'.timestamp
      BY <1>3 DEF CallDiff
    <3>2. self'.period >= target'.period
      BY <1>3, <2>1 DEF CallDiff, Period
    <3>. QED
      BY <3>1, <3>2 DEF LoopConserves, Ticks
  <2>. QED
    BY <1>3, <2>2, <2>3 DEF CallDiff, LoopAtBoundary, ResultExact, BoundaryRepresentation
<1>4. CASE StepBack
  <2>1. period > 1 /\ period - 1 \in Period /\ rest > timestamp
        /\ Kickoff[period] = Kickoff[period - 1] + Duration[period - 1]
    BY <1>4, KickoffStep DEF StepBack, HasPrev, TypeOK
  <2>2. TypeOK'
    BY <1>4, <2>1 DEF StepBack, TypeOK
  <2>3. LoopConserves'
    BY <1>4, <2>1, <2>2 DEF StepBack, LoopConserves, TypeOK, Ticks, Time
  <2>. QED
    BY <1>4, <2>1, <2>2, <2>3
       DEF StepBack, LoopAtBoundary, ResultExact, BoundaryRepresentation, TypeOK
<1>5. CASE StepForward
  <2>1. period + 1 \in Period /\ timestamp + rest > Duration[period]
        /\ Kickoff[period + 1] = Kickoff[period] + Duration[period]
    <3>1. period + 1 \in Period /\ period + 1 > 1 /\ (period + 1) - 1 = period
      BY <1>5, ClockAssumption DEF StepForward, HasNext, TypeOK, Period
    <3>. QED
      BY <3>1, <1>5, KickoffStep DEF StepForward
  <2>2. TypeOK'
    BY <1>5, <2>1 DEF StepForward, TypeOK
  <2>3. LoopConserves'
    BY <1>5, <2>1, <2>2 DEF StepForward, LoopConserves, TypeOK, Ticks, Time
  <2>. QED
    BY <1>5, <2>1, <2>2, <2>3
       DEF StepForward, LoopAtBoundary, ResultExact, BoundaryRepresentation, TypeOK
<1>6. CASE StepDiff
  <2>1. period > 1 /\ period - 1 \in Period /\ period > target.period
        /\ Kickoff[period] = Kickoff[period - 1] + Duration[period - 1]
    BY <1>6, KickoffStep, ClockAssumption DEF StepDiff, TypeOK, Time, Period
  <2>2. TypeOK'
    BY <1>6, <2>1 DEF StepDiff, TypeOK
  <2>3. LoopConserves'
    BY <1>6, <2>1, <2>2 DEF StepDiff, LoopConserves, TypeOK, Ticks, Time, Period
  <2>. QED
    BY <1>6, <2>2, <2>3 DEF StepDiff, LoopAtBoundary, ResultExact, BoundaryRepresentation
<1>7. CASE SubReturn
  <2>1. /\ pc = "sub" /\ rest <= timestamp /\ rest >= 0
        /\ Ticks(self) - other = Kickoff[period] + (timestamp - rest)
        /\ timestamp - rest \in Nat
    BY <1>7 DEF SubReturn, LoopConserves, TypeOK, Ticks, Time
  <2>2. At(period, timestamp - rest) \in Time
    BY <2>1 DEF At, Time, TypeOK
  <2>3. TypeOK'
    BY <1>7, <2>2 DEF SubReturn, Return, TypeOK
  <2>4. ResultExact'
    BY <1>7, <2>1 DEF SubReturn, Return, ResultExact, Ticks, At
  <2>5. BoundaryRepresentation'
    BY <1>7, <2>1 DEF SubReturn, Return, BoundaryRepresentation, LoopAtBoundary, InPeriod,
                      At, TypeOK
  <2>. QED
    BY <1>7, <2>3, <2>4, <2>5 DEF SubReturn, Return, LoopConserves, LoopAtBoundary
<1>8. CASE SubBeforeStart
  <2>1. pc = "sub" /\ period = 1 /\ At(period, 0) = StartOfMatch
    BY <1>8 DEF SubBeforeStart, HasPrev, TypeOK, Period, StartOfMatch
  <2>2. other > Ticks(self)
    <3>1. Ticks(self) \in Nat /\ Kickoff[1] = 0
      BY TicksTyped, ClockAssumption DEF TypeOK
    <3>2. Kickoff[1] + timestamp - rest = Ticks(self) - other /\ rest > timestamp
      BY <1>8, <2>1 DEF SubBeforeStart, LoopConserves
    <3>. QED
      BY <3>1, <3>2 DEF TypeOK
  <2>3. TypeOK'
    BY <1>8, <2>1 DEF SubBeforeStart, Return, TypeOK
  <2>4. ResultExact'
    BY <1>8, <2>1, <2>2 DEF SubBeforeStart, Return, ResultExact, Ticks
  <2>5. BoundaryRepresentation'
    BY <1>8, <2>1 DEF SubBeforeStart, Return, BoundaryRepresentation, InPeriod, StartOfMatch, At
  <2>. QED
    BY <1>8, <2>3, <2>4, <2>5 DEF SubBeforeStart, Return, LoopConserves, LoopAtBoundary
<1>9. CASE AddReturn
  <2>1. /\ pc = "add" /\ timestamp + rest <= Duration[period] /\ rest >= 0
        /\ Ticks(self) + other = Kickoff[period] + (timestamp + rest)
        /\ timestamp + rest \in Nat
    BY <1>9 DEF AddReturn, LoopConserves, TypeOK, Ticks, Time
  <2>2. At(period, timestamp + rest) \in Time
    BY <2>1 DEF At, Time, TypeOK
  <2>3. TypeOK'
    BY <1>9, <2>2 DEF AddReturn, Return, TypeOK
  <2>4. ResultExact'
    BY <1>9, <2>1 DEF AddReturn, Return, ResultExact, Ticks, At
  <2>5. BoundaryRepresentation'
    BY <1>9, <2>1 DEF AddReturn, Return, BoundaryRepresentation, LoopAtBoundary, InPeriod,
                      At, TypeOK
  <2>. QED
    BY <1>9, <2>3, <2>4, <2>5 DEF AddReturn, Return, LoopConserves, LoopAtBoundary
<1>10. CASE AddAfterEnd
  <2>1. pc = "add" /\ period = NumPeriods /\ At(period, Duration[period]) = EndOfMatch
    BY <1>10 DEF AddAfterEnd, HasNext, TypeOK, Period, EndOfMatch
  <2>2. Ticks(self) + other > TotalTicks
    BY <1>10, <2>1 DEF AddAfterEnd, LoopConserves, TypeOK, Ticks, Time, TotalTicks
  <2>3. TypeOK'
    BY <1>10, <2>1 DEF AddAfterEnd, Return, TypeOK
  <2>4. ResultExact'
    BY <1>10, <2>1, <2>2 DEF AddAfterEnd, Return, ResultExact, Ticks, TotalTicks
  <2>5. BoundaryRepresentation'
    BY <1>10, <2>1 DEF AddAfterEnd, Return, BoundaryRepresentation, InPeriod, EndOfMatch, At
  <2>. QED
    BY <1>10, <2>3, <2>4, <2>5 DEF AddAfterEnd, Return, LoopConserves, LoopAtBoundary
<1>11. CASE DiffReturn
  <2>1. /\ pc = "diff" /\ period = target.period
        /\ Ticks(self) - Ticks(target) = timestamp - target.timestamp
        /\ timestamp - target.timestamp \in Int
    BY <1>11 DEF DiffReturn, LoopConserves, TypeOK, Ticks, Time, Period
  <2>2. sign * (timestamp - target.timestamp) \in Int
    BY <2>1 DEF TypeOK
  <2>3. TypeOK'
    BY <1>11, <2>2 DEF DiffReturn, Return, TypeOK
  <2>4. ResultExact'
    BY <1>11, <2>1 DEF DiffReturn, Return, ResultExact, Ticks
  <2>. QED
    BY <1>11, <2>3, <2>4 DEF DiffReturn, Return, LoopConserves, LoopAtBoundary,
                             BoundaryRepresentation
<1>12. CASE UNCHANGED vars
  BY <1>12 DEF vars, TypeOK, LoopConserves, LoopAtBoundary, ResultExact,
               BoundaryRepresentation, Ticks, InPeriod
<1>. QED
  BY <1>1, <1>2, <1>3, <1>4, <1>5, <1>6, <1>7, <1>8, <1>9, <1>10, <1>11, <1>12
  DEF Next, Loop

\* The invariant holds in every reachable state.
LEMMA Invariant == Spec => []IInv
BY InitIInv, NextIInv, PTL DEF Spec

\* Every variable of the arithmetic has its type; in particular what sub and
\* add return is a Time of an existing period with a non-negative timestamp.
THEOREM TypeCorrect == Spec => []TypeOK
BY Invariant, PTL DEF IInv

\* Time +/- timedelta and Time - Time are exact on the match clock.
THEOREM ArithmeticExact == Spec => []ResultExact
BY Invariant, PTL DEF IInv

\* Which representation of a period boundary an operation returns is fixed.
THEOREM BoundaryFixed == Spec => []BoundaryRepresentation
BY Invariant, PTL DEF IInv

\* At every iteration of the three loops, what was walked plus what is left is
\* the instant asked for.
THEOREM LoopsConserve == Spec => []LoopConserves
BY Invariant, PTL DEF IInv

----------------------------------------------------------------------------
\* How many periods the running loop may still look at, the present one included.
Remaining ==
    CASE pc = "sub"  -> period
      [] pc = "diff" -> period
      [] pc = "add"  -> NumPeriods + 1 - period
      [] OTHER       -> 0

\* Every iteration of a loop leaves fewer periods to look at, and a loop has at
\* least one: so none of the three runs for ever over the linked periods, the
\* part of their termination that needs no fairness.
THEOREM LoopsDescend == Spec => [][Loop => Remaining' < Remaining /\ Remaining' \in Nat]_vars
<1>1. IInv /\ [Next]_vars => [Loop => Remaining' < Remaining /\ Remaining' \in Nat]_vars
  <2> SUFFICES ASSUME IInv, [Next]_vars, Loop
               PROVE  Remaining' < Remaining /\ Remaining' \in Nat
    BY DEF IInv
  <2>1. TypeOK /\ TypeOK'
    BY NextIInv DEF IInv
  <2>2. NumPeriods \in Nat /\ period \in 1..NumPeriods /\ period' \in 1..NumPeriods
    BY <2>1, ClockAssumption DEF TypeOK, Period
  <2>3. Remaining' \in Nat
    BY <2>1, <2>2 DEF TypeOK, Remaining
  <2>4. CASE StepBack \/ StepDiff
    BY <2>2, <2>4 DEF StepBack, StepDiff, Remaining
  <2>5. CASE StepForward
    BY <2>2, <2>5 DEF StepForward, Remaining
  <2>6. CASE SubReturn \/ SubBeforeStart \/ AddReturn \/ AddAfterEnd \/ DiffReturn
    BY <2>2, <2>6 DEF SubReturn, SubBeforeStart, AddReturn, AddAfterEnd, DiffReturn, Return,
                      Remaining
  <2> QED BY <2>3, <2>4, <2>5, <2>6 DEF Loop
<1> QED BY <1>1, Invariant, PTL DEF Spec

=============================================================================
