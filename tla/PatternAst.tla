----------------------------- MODULE PatternAst -----------------------------
(***************************************************************************)
(* The syntax of event patterns (domain/services/matchers/pattern/regexp/  *)
(* ast.py and the match_* helpers of pattern/event.py), and the meaning    *)
(* that syntax is documented to have.                                      *)
(*                                                                         *)
(* An expression is a tree of records [op, ...].  A node of the compiled   *)
(* graph is known by its PATH in the tree (1 for a left child or the only  *)
(* child, 2 for a right one): RegExp.from_ast copies the whole tree before *)
(* it builds the graph, so a subtree used twice is two nodes.              *)
(*                                                                         *)
(* A token is an event, reduced to its [type, team].  A matcher accepts    *)
(* some event types and may compare the event's team with the team of the  *)
(* first event of a capture (same_as, not_same_as).                        *)
(***************************************************************************)
EXTENDS Naturals, Sequences, FiniteSets, SequencesExt

NoName == "-"

(***************************************************************************)
(* The constructors.  Final holds a WithCaptureMatcher, the only matcher   *)
(* match_generic builds.                                                   *)
(***************************************************************************)
Final(types, same, differs) ==
    [op |-> "final", types |-> types, same |-> same, differs |-> differs]
MatchGeneric(types)         == Final(types, NoName, NoName)
SameAs(types, name)         == Final(types, name, NoName)
NotSameAs(types, name)      == Final(types, NoName, name)
Concatenation(l, r)         == [op |-> "concatenation", left |-> l, right |-> r]
Alternation(l, r)           == [op |-> "alternation", left |-> l, right |-> r]
Maybe(e)                    == [op |-> "maybe", left |-> e]
AnyNumber(e)                == [op |-> "any", left |-> e]
Capture(e, name)            == [op |-> "capture", left |-> e, name |-> name]

\* Node.__mul__: e * n, e * slice(lo, None) and e * slice(lo, hi).
Reduce(parts) ==
    FoldLeft(LAMBDA a, b : Concatenation(a, b), Head(parts), Tail(parts))
Repeat(e, n)  == Reduce([k \in 1..n |-> e])
First(e, lo)  == IF lo > 0 THEN <<Repeat(e, lo)>> ELSE <<>>
AtLeast(e, lo)     == Reduce(Append(First(e, lo), AnyNumber(e)))
Between(e, lo, hi) == Reduce(First(e, lo) \o [k \in 1..(hi - lo) |-> Maybe(e)])

\* The node at a path.
RECURSIVE At(_, _)
At(e, path) ==
    IF path = <<>> THEN e
    ELSE At(IF path[1] = 1 THEN e.left ELSE e.right, Tail(path))

Binary(e) == e.op \in {"concatenation", "alternation"}

----
(***************************************************************************)
(* What a pattern means, written over the tree and knowing nothing of the  *)
(* graph.  Parses(e, w, i, open, env) is the set of <<j, env2>> such that  *)
(* e may consume tokens i+1 .. j of w.  env maps the path of names of a    *)
(* capture to the positions <<from, to>> of its last opening (to = 0 while *)
(* it is open); opening a capture again forgets what was inside it.        *)
(***************************************************************************)
IsUnder(path, prefix) == Len(path) >= Len(prefix) /\ SubSeq(path, 1, Len(prefix)) = prefix
EnvWith(env, path, span) ==
    [q \in {p \in DOMAIN env : ~IsUnder(p, path)} \cup {path} |->
        IF q = path THEN span ELSE env[q]]

\* The position a name of a capture refers to.
Referred(env, name) ==
    LET named == {p \in DOMAIN env : Last(p) = name}
    IN  IF named = {} THEN 0 ELSE env[CHOOSE p \in named : TRUE][1]

Accepts(f, w, i, env) ==
    /\ w[i].type \in f.types
    /\ f.same # NoName =>
           LET r == Referred(env, f.same) IN r \in 1..(i - 1) /\ w[r].team = w[i].team
    /\ f.differs # NoName =>
           LET r == Referred(env, f.differs) IN r \in 1..(i - 1) /\ w[r].team # w[i].team

RECURSIVE Parses(_, _, _, _, _), Star(_, _, _, _)
Parses(e, w, i, open, env) ==
    CASE e.op = "final" ->
            IF i < Len(w) /\ Accepts(e, w, i + 1, env) THEN {<<i + 1, env>>} ELSE {}
      [] e.op = "concatenation" ->
            UNION {Parses(e.right, w, p[1], open, p[2]) :
                       p \in Parses(e.left, w, i, open, env)}
      [] e.op = "alternation" ->
            Parses(e.left, w, i, open, env) \cup Parses(e.right, w, i, open, env)
      [] e.op = "maybe" -> {<<i, env>>} \cup Parses(e.left, w, i, open, env)
      [] e.op = "any"   -> Star(e.left, w, {<<i, env>>}, open)
      [] e.op = "capture" ->
            LET path == Append(open, e.name)
            IN  {<<p[1], IF p[1] = i THEN env
                         ELSE [p[2] EXCEPT ![path] = <<i + 1, p[1]>>]>> :
                    p \in Parses(e.left, w, i, path, EnvWith(env, path, <<i + 1, 0>>))}
Star(e, w, reached, open) ==
    LET next == UNION {{q \in Parses(e, w, p[1], open, p[2]) : q[1] > p[1]} :
                           p \in reached}
    IN  IF next \subseteq reached THEN reached
                                  ELSE Star(e, w, reached \cup next, open)

NoEnv == <<>>
ParsesFrom(e, w) == Parses(e, w, 0, <<>>, NoEnv)

\* An expression that also accepts no token at all.
RECURSIVE Nullable(_)
Nullable(e) ==
    CASE e.op = "final"         -> FALSE
      [] e.op = "concatenation" -> Nullable(e.left) /\ Nullable(e.right)
      [] e.op = "alternation"   -> Nullable(e.left) \/ Nullable(e.right)
      [] e.op \in {"maybe", "any"} -> TRUE
      [] e.op = "capture"       -> Nullable(e.left)

Children(e) ==
    CASE e.op = "final" -> {}
      [] Binary(e)      -> {e.left, e.right}
      [] e.op \in {"maybe", "any", "capture"} -> {e.left}
RECURSIVE Subexpressions(_)
Subexpressions(e) == {e} \cup UNION {Subexpressions(c) : c \in Children(e)}

\* No capture is put around something that may be empty.
SolidCaptures(e) ==
    \A c \in Subexpressions(e) : c.op = "capture" => ~Nullable(c.left)

\* No loop holds a capture and something that may be empty.
CapturesApart(e) ==
    \A c \in Subexpressions(e) : c.op = "any" =>
        LET body == Subexpressions(c.left)
        IN  (\E d \in body : d.op = "capture") => ~\E d \in body : Nullable(d)
=============================================================================
