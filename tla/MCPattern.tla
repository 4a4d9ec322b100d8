------------------------------ MODULE MCPattern ------------------------------
(***************************************************************************)
(* Small instances of Pattern.  Events are passes and shots of two teams,  *)
(* at most MaxEvents of them, in one period or split over two.             *)
(***************************************************************************)
EXTENDS Pattern

CONSTANTS MaxEvents, Shapes

Passes == MatchGeneric({"pass"})
Shots  == MatchGeneric({"shot"})
Anys   == MatchGeneric({"pass", "shot"})

Finals == {Passes, Shots, Anys}
Unary(S) == {Maybe(e) : e \in S} \cup {AnyNumber(e) : e \in S}
Joined(S, T) == {Concatenation(a, b) : a \in S, b \in T}
                    \cup {Alternation(a, b) : a \in S, b \in T}

Small == {Passes, Shots} \cup Unary({Passes}) \cup {Capture(Passes, "x"), Capture(Anys, "x")}
Pairs == Joined(Small, Small)

\* Loops around loops, options, captures and sequences; the slices of __mul__.
Nested ==
    Unary(Unary({Passes, Capture(Passes, "x")}))
    \cup Unary(Joined({Passes, Maybe(Passes), Capture(Passes, "x")}, {Shots, Capture(Shots, "y")}))
    \cup {Capture(e, "z") : e \in Joined({Passes, Capture(Passes, "x")}, Unary({Shots}) \cup {Shots})}
    \cup {AtLeast(Capture(Passes, "x"), 1), Between(Alternation(Passes, Shots), 2, 3),
          Between(Concatenation(Passes, Shots), 0, 1), Repeat(Alternation(Passes, Shots), 2),
          Concatenation(Between(Passes, 0, 2), Capture(Shots, "x")),
          Concatenation(Capture(Concatenation(Passes, Capture(Shots, "x")), "z"), Shots)}

\* The shape of examples/pattern_matching/ball_recovery.py: a pass, one or more
\* passes of the other team, and a group that may be missing.
Recovery(tail) ==
    Concatenation(Capture(Passes, "last"),
        Concatenation(AtLeast(NotSameAs({"pass"}, "last"), 1), tail))
Referring ==
    { Recovery(Between(Capture(SameAs({"pass"}, "last"), "success"), 0, 1)),
      Recovery(Capture(Concatenation(Capture(SameAs({"pass"}, "last"), "recover"),
                                     SameAs({"pass", "shot"}, "recover")), "success")),
      AnyNumber(Concatenation(Capture(Passes, "x"), SameAs({"pass", "shot"}, "x"))),
      \* a reference to a group that may be missing: the search may raise
      Concatenation(Maybe(Capture(Passes, "x")), SameAs({"shot"}, "x")) }

\* Captures around something that may be empty, next to another capture.
Hollow ==
    { Concatenation(Capture(Passes, "y"), Concatenation(Capture(Between(Passes, 0, 1), "x"), Shots)),
      Concatenation(Capture(Capture(Maybe(Passes), "x"), "y"), Shots) }

\* A loop around a capture and something that may be empty.
Loops ==
    { AnyNumber(Concatenation(Capture(Passes, "x"), Maybe(Shots))),
      AnyNumber(Concatenation(Maybe(Shots), Capture(Passes, "x"))) }

ASSUME Shapes \in {"solid", "hollow", "loops"}
MCExpressions ==
    CASE Shapes = "solid"  -> {e \in Pairs \cup Nested \cup Referring :
                                  SolidCaptures(e) /\ CapturesApart(e)}
      [] Shapes = "hollow" -> Hollow
      [] Shapes = "loops"  -> Loops

Events == [type : {"pass", "shot"}, team : {"home", "away"}, period : {1}]
OneTeam(dataset) == \A i \in DOMAIN dataset : dataset[i].team = "home"
MCDatasets ==
    LET sizes == 1..MaxEvents
        Whole == UNION {[1..n -> Events] : n \in sizes}
        Plain == {d \in Whole : OneTeam(d) \/ \A i \in DOMAIN d : d[i].type = "pass"}
        Split(d, k) == [i \in DOMAIN d |-> [d[i] EXCEPT !.period = IF i > k THEN 2 ELSE 1]]
    IN  {Split(d, k) : d \in Plain, k \in {2, MaxEvents}}
=============================================================================
