------------------------------ MODULE MetricaEvents ------------------------------
(***************************************************************************)
(* Event data of Metrica (metrica/json_deserializer.py).                   *)
(*                                                                         *)
(* type is the type of a raw event (a pass is filed under its outcome),    *)
(* tags its subtypes.  ends is its end: the time there, and whether the    *)
(* first coordinate is known and not zero.  meta.periods comes from the    *)
(* metadata.                                                               *)
(***************************************************************************)
EXTENDS EventModel

MsPassTypes == {"PASS", "BALL LOST", "BALL OUT", "OFFSIDE"}
MsNoOwner   == {"CHALLENGE", "CARD"}

\* A set piece is an item of its own and becomes a qualifier of the next one.
MsQualifiers(raw, previous) ==
    (IF previous.type = "SET PIECE"
     THEN FirstQualifier(<<<<"CORNER KICK", SetPiece("CORNER_KICK")>>, <<"FREE KICK", SetPiece("FREE_KICK")>>,
                           <<"PENALTY", SetPiece("PENALTY")>>, <<"THROW IN", SetPiece("THROW_IN")>>,
                           <<"KICK OFF", SetPiece("KICK_OFF")>>>>, previous.tags)
     ELSE FirstQualifier(<<<<"GOAL KICK", SetPiece("GOAL_KICK")>>>>, raw.tags))
    \o FirstQualifier(<<<<"HEAD", Body("HEAD")>>>>, raw.tags)

MsPassResult(raw) ==
    CASE raw.type = "PASS" -> "COMPLETE"
      [] raw.type = "BALL OUT" -> "OUT"
      [] raw.type = "BALL LOST" -> IF "OFFSIDE" \in raw.tags THEN "OFFSIDE" ELSE "INCOMPLETE"
MsPass(g, raw, previous) ==
    [Build(g, "PASS", MsPassResult(raw), MsQualifiers(raw, previous))
        EXCEPT !.receiver = IF raw.type = "PASS" THEN raw.to ELSE NoValue]
MsShotResult(raw) ==
    First(<<<<"OFF TARGET", "OFF_TARGET">>, <<"SAVED", "SAVED">>, <<"POST", "POST">>,
            <<"BLOCKED", "BLOCKED">>, <<"GOAL", "GOAL">>>>, raw.tags)
MsEvent(g, raw, previous) ==
    CASE raw.type \in MsPassTypes -> MsPass(g, raw, previous)
      [] raw.type = "SHOT" -> Build(g, "SHOT", MsShotResult(raw), MsQualifiers(raw, previous))
      [] raw.type \notin MsPassTypes \cup {"SHOT"} /\ "DRIBBLE" \in raw.tags ->
             Build(g, "TAKE_ON", IF "WON" \in raw.tags THEN "COMPLETE" ELSE "INCOMPLETE", <<>>)
      [] OTHER ->
             CASE raw.type = "CARRY"      -> Build(g, "CARRY", "COMPLETE", <<>>)
               [] raw.type = "RECOVERY"   -> Plain(g, "RECOVERY")
               [] raw.type = "FAULT"      -> Plain(g, "FOUL_COMMITTED")
               [] OTHER                   -> Plain(g, "GENERIC")
\* A ball out, at the end of a pass that went out, under the id of the pass.
MsBallOut(event, raw, start) ==
    IF event.result # "OUT" \/ ~raw.ends.known THEN <<>>
    ELSE <<BallOut([event EXCEPT !.time = raw.ends.time - start, !.receiver = NoValue])>>

MsFailure(raw, previous) ==
    CASE raw.team \notin {Home, Away} -> "unknown team"
      [] raw.team \in {Home, Away} /\ raw.type = "OFFSIDE" -> "unknown pass outcome"
      [] raw.team \in {Home, Away} /\ raw.type = "SHOT" /\ MsShotResult(raw) = NoValue ->
             "unknown shot outcome"
      [] OTHER -> IF raw.type \in MsPassTypes \cup {"SHOT"} /\ previous = Absent
                  THEN "no event before the first" ELSE NotRaised
StartMetricaEvents(meta) == [Start(<<>>) EXCEPT !.periods = meta.periods]
ReadMetricaEvent(loop, feed, i) ==
    LET raw      == feed[i]
        previous == ItemAt(feed, i - 1)
        start    == loop.periods[raw.period].start
        g        == [Generic(raw) EXCEPT !.time = raw.time - start,
                                         !.owner = IF raw.type \in MsNoOwner THEN Nobody ELSE raw.team]
        event    == MsEvent(g, raw, previous)
    IN  IF MsFailure(raw, previous) # NotRaised THEN Fail(loop, MsFailure(raw, previous))
        ELSE IF raw.type = "SET PIECE" THEN loop
        ELSE Emit(loop, <<event>> \o MsBallOut(event, raw, start))
FinishMetricaEvents(loop) == loop
=============================================================================
