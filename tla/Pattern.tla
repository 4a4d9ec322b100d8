------------------------------- MODULE Pattern -------------------------------
(***************************************************************************)
(* Pattern matching over events: ast_to_graph turns the pattern into a     *)
(* graph (regexp.py 26-290), and `search` runs RegExp.match from every     *)
(* event of every period (event.py 125-160, regexp.py 293-652).            *)
(*                                                                         *)
(* The graph is the sequence of its edges in the order networkx holds them *)
(* (adding an edge that exists updates its data in place), because the     *)
(* code iterates predecessors and successors in that order.  The order in  *)
(* which unexplored nodes leave the set `explore` is a hash order: any.    *)
(***************************************************************************)
EXTENDS PatternAst, TLC

CONSTANT Expressions, Datasets

VARIABLES
    expr,     \* the pattern, after root.copy()
    graph,    \* edges [from, to, data]
    round,    \* nodes of the current `for node in [*explore]` still to do
    later,    \* nodes added to `explore` during this round
    groups,   \* events_per_period
    at,       \* <<group, start>> of the match being tried
    stacks,   \* the explorers after each consumed token
    found,    \* the matches reported
    raised    \* the exception that ended the search, or NoName

vars == <<expr, graph, round, later, groups, at, stacks, found, raised>>
built == <<expr, graph, round, later>>

_Initial  == <<0>>
_Terminal == <<3>>

----
(***************************************************************************)
(* networkx.DiGraph.                                                       *)
(***************************************************************************)
NoData == <<>>
Get(data, key) == IF key \in DOMAIN data THEN data[key] ELSE <<>>

DataOf(g, u, v) ==
    LET here == {i \in DOMAIN g : g[i].from = u /\ g[i].to = v}
    IN  IF here = {} THEN NoData ELSE g[CHOOSE i \in here : TRUE].data

Edge(u, v, data) == [from |-> u, to |-> v, data |-> data]
Joins(x, y) == x.from = y.from /\ x.to = y.to
\* add_edge for each of a sequence of different edges.
AddEdges(g, new) ==
    [i \in DOMAIN g |->
        LET same == {k \in DOMAIN new : Joins(new[k], g[i])}
        IN  IF same = {} THEN g[i]
            ELSE [g[i] EXCEPT !.data = new[CHOOSE k \in same : TRUE].data @@ @]]
    \o SelectSeq(new, LAMBDA x : \A i \in DOMAIN g : ~Joins(x, g[i]))
Predecessors(g, n) ==
    LET into == SelectSeq(g, LAMBDA x : x.to = n) IN [i \in DOMAIN into |-> into[i].from]
Successors(g, n) ==
    LET out == SelectSeq(g, LAMBDA x : x.from = n) IN [i \in DOMAIN out |-> out[i].to]
RemoveNode(g, n) == SelectSeq(g, LAMBDA x : x.from # n /\ x.to # n)

----
(***************************************************************************)
(* ast_to_graph: one operator per _explore_* function.                     *)
(***************************************************************************)
Enter(g, n, child) ==
    LET preds == Predecessors(g, n)
    IN  AddEdges(g, [i \in DOMAIN preds |-> Edge(preds[i], child, DataOf(g, preds[i], n))])
Leave(g, n, child) ==
    LET succs == Successors(g, n)
    IN  AddEdges(g, [i \in DOMAIN succs |-> Edge(child, succs[i], DataOf(g, n, succs[i]))])

StartMark(data, n) == "start" :> Append(Get(data, "start"), n) @@ data
\* Fault: the stop of the inner capture after that of the outer one.
StopMarkLast(data, n) == "stop" :> Append(Get(data, "stop"), n) @@ data
StopMark(data, n) == "stop" :> (<<n>> \o Get(data, "stop")) @@ data

\* The edges around the node are marked in place, then copied to the child;
\* an edge of the node to itself gets both marks.
ExploreCapture(g, n, child) ==
    LET started == [i \in DOMAIN g |->
            IF g[i].to # n THEN g[i]
            ELSE [g[i] EXCEPT !.data = StartMark(@, n)]]
        entered == Enter(started, n, child)
        stopped == [i \in DOMAIN entered |->
            IF entered[i].from # n THEN entered[i]
            ELSE [entered[i] EXCEPT !.data = StopMark(@, n)]]
    IN  Leave(stopped, n, child)

\* How many leading captures are opened and closed by the same edge.
Cancelled(starts, stops) ==
    CHOOSE k \in 0..Len(starts) :
        /\ k <= Len(stops) /\ \A i \in 1..k : starts[i] = stops[i]
        /\ ~(k < Len(starts) /\ k < Len(stops) /\ starts[k + 1] = stops[k + 1])

Merged(data1, data2) ==
    LET joined == [key \in DOMAIN data1 \cup DOMAIN data2 |->
                      Get(data1, key) \o Get(data2, key)]
        starts == Get(joined, "start")
        stops  == Get(joined, "stop")
        cancel == Cancelled(starts, stops)
    IN  IF cancel = 0 THEN joined
        ELSE "start" :> SubSeq(starts, cancel + 1, Len(starts))
             @@ "stop" :> SubSeq(stops, 1, Len(stops) - cancel)

\* product(predecessors, successors): both are read before any edge is added,
\* the data of an edge only when its turn comes.
RECURSIVE CrossConnectAll(_, _, _)
CrossConnectAll(g, n, pairs) ==
    IF pairs = <<>> THEN g
    ELSE LET p == pairs[1][1]
             s == pairs[1][2]
             new == Edge(p, s, Merged(DataOf(g, p, n), DataOf(g, n, s)))
         IN  CrossConnectAll(AddEdges(g, <<new>>), n, Tail(pairs))
CrossConnect(g, n) ==
    LET preds == Predecessors(g, n)
        succs == Successors(g, n)
        width == Len(succs)
    IN  CrossConnectAll(g, n,
            [k \in 1..(Len(preds) * width) |->
                <<preds[((k - 1) \div width) + 1], succs[((k - 1) % width) + 1]>>])

ExploreNode(g, n) ==
    LET e     == At(expr, n)
        left  == Append(n, 1)
        right == Append(n, 2)
        Around(h) == Leave(Enter(h, n, left), n, left)
    IN  CASE e.op = "final" -> g
          [] e.op = "concatenation" ->
               RemoveNode(Leave(AddEdges(Enter(g, n, left), <<Edge(left, right, NoData)>>),
                                n, right), n)
          [] e.op = "alternation" ->
               RemoveNode(Leave(Leave(Enter(Enter(g, n, left), n, right),
                                      n, left), n, right), n)
          [] e.op = "maybe" -> RemoveNode(Around(CrossConnect(g, n)), n)
          [] e.op = "any" ->
               RemoveNode(Around(CrossConnect(AddEdges(g, <<Edge(left, left, NoData)>>), n)), n)
          [] e.op = "capture" -> RemoveNode(ExploreCapture(g, n, left), n)

Unexplored(n) ==
    LET e == At(expr, n)
    IN  IF e.op = "final" THEN {}
        ELSE {Append(n, 1)} \cup (IF Binary(e) THEN {Append(n, 2)} ELSE {})

\* Fault: the node stays in the set of nodes to explore.
ExploreAgain(n) ==
    /\ n \in round
    /\ graph' = ExploreNode(graph, n)
    /\ later' = later \cup Unexplored(n)
    /\ UNCHANGED <<expr, round, groups, at, stacks, found, raised>>

Explore(n) ==
    /\ n \in round
    /\ graph' = ExploreNode(graph, n)
    /\ LET rest == round \ {n}
           todo == later \cup Unexplored(n)
       IN  IF rest = {} THEN round' = todo /\ later' = {}
                        ELSE round' = rest /\ later' = todo
    /\ UNCHANGED <<expr, groups, at, stacks, found, raised>>

----
(***************************************************************************)
(* _Match: the tree of captures, flattened to a function from the path of  *)
(* names to the positions of its trail.  A capture opened again replaces   *)
(* the earlier one, with everything inside it: `capture not in             *)
(* stick.children` looks a Capture up among names, and never finds it.     *)
(***************************************************************************)
Names(stack) == [i \in DOMAIN stack |-> At(expr, stack[i]).name]

StopOne(m, c) ==
    IF m.stack = <<>> \/ Last(m.stack) # c THEN [m EXCEPT !.ok = FALSE]
    ELSE [m EXCEPT !.stack = Front(@)]
\* Fault: the items of an earlier turn stay in the capture.
StartOneKeeps(m, c) ==
    LET stack == Append(m.stack, c)
        path  == Names(stack)
    IN  [m EXCEPT !.stack = stack,
                  !.caps = EnvWith(@, path, IF path \in DOMAIN @ THEN @[path] ELSE <<>>)]
StartOne(m, c) ==
    LET stack == Append(m.stack, c)
    IN  [m EXCEPT !.stack = stack, !.caps = EnvWith(@, Names(stack), <<>>)]
AppendItem(m, pos) ==
    LET open == {Names(SubSeq(m.stack, 1, k)) : k \in DOMAIN m.stack}
    IN  [m EXCEPT !.caps = [q \in DOMAIN @ |-> IF q \in open THEN Append(@[q], pos)
                                                             ELSE @[q]]]

\* _make_match: [ok, stack, caps]; ok is FALSE when stop() raises.
MakeMatch(trail) ==
    LET Item(m, i) ==
            LET stopped == FoldLeft(StopOne, m, Get(trail[i], "stop"))
                started == FoldLeft(StartOne, stopped, Get(trail[i], "start"))
            IN  IF m.ok /\ stopped.ok THEN AppendItem(started, i)
                                      ELSE [m EXCEPT !.ok = FALSE]
    IN  FoldLeft(Item, [ok |-> TRUE, stack |-> <<>>, caps |-> <<>>],
                 [i \in DOMAIN trail |-> i])

----
(***************************************************************************)
(* Explorer.advance and WithCaptureMatcher.match.                          *)
(***************************************************************************)
Tokens == SubSeq(groups[at[1]], at[2], Len(groups[at[1]]))

Explorer(node, trail) == [node |-> node, trail |-> trail]
Reaches(explorer) ==
    {s \in Range(Successors(graph, explorer.node)) : s # _Terminal}
PossibleTrail(explorer, s) ==
    Append(explorer.trail, DataOf(graph, explorer.node, s))

\* captures[name] is the first item of a trail, None for the token at hand.
FirstItem(caps, name) ==
    LET named == {p \in DOMAIN caps : Last(p) = name}
    IN  IF named = {} THEN 0 ELSE Head(caps[CHOOSE p \in named : TRUE])

MatcherOutcome(s, trail, pos) ==
    LET f == At(expr, s)
        m == MakeMatch(trail)
        Refers(name) == FirstItem(m.caps, name)
        Bad(name)    == name # NoName /\ Refers(name) \notin 1..(pos - 1)
    IN  CASE ~m.ok                               -> "unbalanced"
          [] m.ok /\ Tokens[pos].type \notin f.types -> "no"
          [] m.ok /\ Tokens[pos].type \in f.types /\ (Bad(f.same) \/ Bad(f.differs))
                                                 -> "missing"
          [] OTHER ->
               IF /\ f.same # NoName => Tokens[Refers(f.same)].team = Tokens[pos].team
                  /\ f.differs # NoName =>
                         Tokens[Refers(f.differs)].team # Tokens[pos].team
               THEN "yes" ELSE "no"

\* The explorers that advance over the token, without duplicates.
Steps == IF stacks = <<>> THEN {Explorer(_Initial, <<>>)} ELSE Last(stacks)
Tried == {<<x, s>> \in Steps \X UNION {Reaches(x) : x \in Steps} : s \in Reaches(x)}
OutcomeOf(t) ==
    MatcherOutcome(t[2], PossibleTrail(t[1], t[2]), Len(stacks) + 1)
Advanced ==
    {Explorer(t[2], PossibleTrail(t[1], t[2])) : t \in {u \in Tried : OutcomeOf(u) = "yes"}}

----
(***************************************************************************)
(* RegExp.match(consume_all=False) inside _search, and search itself.      *)
(***************************************************************************)
Searching ==
    /\ round = {} /\ groups # <<>> /\ raised = NoName
    /\ at[1] <= Len(groups)

More   == Len(stacks) < Len(Tokens)
Errors == {OutcomeOf(t) : t \in Tried} \cap {"unbalanced", "missing"}

\* One turn of `for token in seq`.
AdvanceToken ==
    /\ Searching
    /\ More
    /\ Errors = {}
    /\ Advanced # {}
    /\ stacks' = Append(stacks, Advanced)
    /\ UNCHANGED <<built, groups, at, found, raised>>

\* A matcher raises: so does the search.
Raise ==
    /\ Searching
    /\ More
    /\ raised' \in Errors
    /\ UNCHANGED <<built, groups, at, stacks, found>>

CanTerminate(x) == _Terminal \in Range(Successors(graph, x.node))

Terminating(stack) == {x.trail : x \in {y \in stack : CanTerminate(y)}}
\* Fault: the first stack with an explorer that may stop.
TerminalTrailsShortest ==
    LET ends == {k \in DOMAIN stacks : Terminating(stacks[k]) # {}}
    IN  IF ends = {} THEN {}
        ELSE Terminating(stacks[CHOOSE k \in ends : \A j \in ends : j >= k])

\* The last stack with an explorer that may stop; none when there is none.
TerminalTrails ==
    LET ends == {k \in DOMAIN stacks : Terminating(stacks[k]) # {}}
    IN  IF ends = {} THEN {}
        ELSE Terminating(stacks[CHOOSE k \in ends : \A j \in ends : j <= k])

\* Trails sort by their data, item by item; two captures compare by address.
SortedBefore(data1, data2) ==
    LET Keys(d) == SetToSortSeq(DOMAIN d, LAMBDA a, b : a = "start" /\ b = "stop")
        k1 == Keys(data1)
        k2 == Keys(data2)
    IN  \/ k1 = <<>> /\ k2 # <<>>
        \/ k1 # <<>> /\ k2 # <<>> /\ k1[1] = "start" /\ k2[1] = "stop"
        \/ k1 # <<>> /\ k2 # <<>> /\ k1[1] = k2[1]
           /\ \/ data1[k1[1]] # data2[k1[1]] /\ IsPrefix(data1[k1[1]], data2[k1[1]])
              \/ data1[k1[1]] = data2[k1[1]] /\ Len(k1) < Len(k2)
SortsFirst(t1, t2) ==
    \E i \in DOMAIN t1 : /\ \A j \in 1..(i - 1) : t1[j] = t2[j]
                         /\ t1[i] # t2[i] /\ SortedBefore(t1[i], t2[i])

\* matches[0]: a trail that nothing sorts before.
FirstTrails == {t \in TerminalTrails : ~\E u \in TerminalTrails : SortsFirst(u, t)}

Following ==
    IF at[2] < Len(groups[at[1]]) THEN <<at[1], at[2] + 1>> ELSE <<at[1] + 1, 1>>

\* The end of RegExp.match: every terminal trail is made a match, the first
\* is reported.
Conclude ==
    /\ Searching
    /\ More => Errors = {} /\ Advanced = {}
    /\ at' = Following
    /\ stacks' = <<>>
    /\ \/ TerminalTrails = {} /\ UNCHANGED found
       \/ \E t \in FirstTrails :
             found' = Append(found, [group |-> at[1], start |-> at[2], size |-> Len(t),
                                     caps |-> MakeMatch(t).caps])
    /\ UNCHANGED <<built, groups, raised>>

\* search: the pattern is compiled, then the events are grouped by period.
ByPeriod(dataset) ==
    LET ids == SetToSortSeq({dataset[i].period : i \in DOMAIN dataset}, <)
    IN  [k \in DOMAIN ids |->
            SelectSeq(dataset, LAMBDA event : event.period = ids[k])]
Group(dataset) ==
    /\ round = {} /\ groups = <<>>
    /\ groups' = ByPeriod(dataset)
    /\ UNCHANGED <<built, at, stacks, found, raised>>

Init ==
    /\ expr \in Expressions
    /\ graph = <<Edge(_Initial, <<>>, NoData), Edge(<<>>, _Terminal, NoData)>>
    /\ round = {<<>>} /\ later = {}
    /\ groups = <<>> /\ at = <<1, 1>> /\ stacks = <<>> /\ found = <<>>
    /\ raised = NoName

Ended == groups # <<>> /\ (at[1] > Len(groups) \/ raised # NoName)
Stop  == Ended /\ UNCHANGED vars

Next ==
    \/ \E n \in round : Explore(n)
    \/ \E dataset \in Datasets : Group(dataset)
    \/ AdvanceToken
    \/ Raise
    \/ Conclude
    \/ Stop

Spec == Init /\ [][Next]_vars

----
(***************************************************************************)
(* Properties.                                                             *)
(***************************************************************************)

\* The shape of the state: the graph joins nodes of the pattern, nothing is
\* matched before the graph is finished, and a match lies inside its period.
TypeOK ==
    /\ \A i, j \in DOMAIN graph :
           graph[i].from = graph[j].from /\ graph[i].to = graph[j].to => i = j
    /\ later # {} => round # {}
    /\ groups # <<>> => round = {} /\ later = {}
    /\ \A i \in DOMAIN found :
           found[i].start + found[i].size <= Len(groups[found[i].group]) + 1
    /\ raised \in {NoName, "unbalanced", "missing"}

\* No match makes _Match.stop fail: a capture is only stopped while it is the
\* innermost one open.  Holds while no capture surrounds something that may be
\* empty; the cancel logic of _cross_connect is what it depends on.
StopsInnermost == raised # "unbalanced"

\* The captures of a reported match are those of one way to read the matched
\* events with the pattern, a repeated capture standing for its last turn.
CapturesAreAReading ==
    \A i \in DOMAIN found :
        LET m == found[i]
            w == SubSeq(groups[m.group], m.start, m.start + m.size - 1)
        IN  \E p \in ParsesFrom(expr, w) :
                /\ p[1] = m.size
                /\ DOMAIN p[2] = DOMAIN m.caps
                /\ \A q \in DOMAIN m.caps :
                       m.caps[q] = [k \in 1..(p[2][q][2] - p[2][q][1] + 1) |->
                                       p[2][q][1] + k - 1]

\* Whatever order the nodes are explored in, the search reports what the
\* pattern means: period by period, from every event, the longest accepted run.
\* It is a step-by-step refinement of PatternSearch.
Abstract == INSTANCE PatternSearch WITH
    found <- [i \in DOMAIN found |-> <<found[i].group, found[i].start, found[i].size>>]
SearchesThePattern == Abstract!Spec

\* Compiling and searching end: every step that changes anything leaves less to
\* do, in the order compile, remaining starts, tokens of this start.
RECURSIVE NodesUnder(_)
NodesUnder(e) ==
    1 + (IF e.op = "final" THEN 0
         ELSE NodesUnder(e.left) + (IF Binary(e) THEN NodesUnder(e.right) ELSE 0))
Uncompiled == FoldSet(LAMBDA n, sum : sum + NodesUnder(At(expr, n)), 0, round \cup later)
Starts ==
    IF groups = <<>> \/ at[1] > Len(groups) THEN 0
    ELSE FoldLeft(LAMBDA sum, g : sum + Len(g), 0, SubSeq(groups, at[1], Len(groups)))
         - at[2] + 1
LessToDo ==
    \/ Uncompiled' < Uncompiled
    \/ Uncompiled' = Uncompiled /\ groups = <<>> /\ groups' # <<>>
    \/ groups' = groups /\ Starts' < Starts
    \/ groups' = groups /\ at' = at /\ Len(stacks') > Len(stacks) /\ Len(stacks') <= Len(Tokens)
    \/ raised = NoName /\ raised' # NoName
Progress == [][LessToDo]_vars
=============================================================================
