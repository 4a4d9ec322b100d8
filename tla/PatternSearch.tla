---------------------------- MODULE PatternSearch ----------------------------
(***************************************************************************)
(* What pattern/event.py `search` promises, with no graph and no automaton: *)
(* period by period and start by start, the longest run of consecutive     *)
(* events of the period that the pattern accepts is reported, if there is  *)
(* one.                                                                    *)
(***************************************************************************)
EXTENDS PatternAst

CONSTANT Expressions, Datasets

VARIABLES expr,      \* the pattern
          groups,    \* the events of each period, in order of period
          at,        \* <<group, start>> about to be tried
          found      \* the matches reported so far

vars == <<expr, groups, at, found>>

\* events_per_period: the events of each period, the periods in order.
ByPeriod(dataset) ==
    LET ids == SetToSortSeq({dataset[i].period : i \in DOMAIN dataset}, <)
    IN  [k \in DOMAIN ids |->
            SelectSeq(dataset, LAMBDA event : event.period = ids[k])]

Rest(g, cursor) == SubSeq(g[cursor[1]], cursor[2], Len(g[cursor[1]]))
Following(g, cursor) ==
    IF cursor[2] < Len(g[cursor[1]]) THEN <<cursor[1], cursor[2] + 1>>
                                     ELSE <<cursor[1] + 1, 1>>

\* The lengths of the non-empty runs of events the pattern accepts.
Lengths(e, w) == {p[1] : p \in ParsesFrom(e, w)} \ {0}
Longest(e, w) == CHOOSE n \in Lengths(e, w) : \A m \in Lengths(e, w) : m <= n

Init == expr \in Expressions /\ groups = <<>> /\ at = <<1, 1>> /\ found = <<>>

Start(dataset) ==
    /\ groups = <<>> /\ groups' = ByPeriod(dataset)
    /\ UNCHANGED <<expr, at, found>>

Try ==
    /\ at[1] <= Len(groups)
    /\ LET w == Rest(groups, at)
       IN  found' = IF Lengths(expr, w) = {} THEN found
                    ELSE Append(found, <<at[1], at[2], Longest(expr, w)>>)
    /\ at' = Following(groups, at)
    /\ UNCHANGED <<expr, groups>>

Next == (\E dataset \in Datasets : Start(dataset)) \/ Try

Spec == Init /\ [][Next]_vars
=============================================================================
