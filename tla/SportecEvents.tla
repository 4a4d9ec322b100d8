------------------------------ MODULE SportecEvents ------------------------------
(***************************************************************************)
(* Event data of Sportec (sportec/deserializer.py).                        *)
(*                                                                         *)
(* An item is a chain of XML elements.  type is the name of the innermost  *)
(* one, kind the set piece among the others, tags their attributes, time   *)
(* its date and decided the date of the set piece's decision.  The period  *)
(* is not in the item: it is the number of kick-offs with a GameSection    *)
(* so far.  Of a foul, owner and to are the team and player who fouled.    *)
(***************************************************************************)
EXTENDS EventModel

SportecShots == {"ShotWide", "SavedShot", "BlockedShot", "ShotWoodWork", "OtherShot",
                 "SuccessfulShot", "OwnGoal"}
SportecPasses == {"Pass", "Cross"}
SportecShotResult(name) ==
    CASE name = "ShotWide"       -> "OFF_TARGET"
      [] name = "SavedShot"      -> "SAVED"
      [] name = "BlockedShot"    -> "BLOCKED"
      [] name = "ShotWoodWork"   -> "POST"
      [] name = "SuccessfulShot" -> "GOAL"
      [] name = "OwnGoal"        -> "OWN_GOAL"
      [] name = "OtherShot"      -> NoResult
SportecQualifiers(raw) ==
    FirstQualifier(<<<<"ThrowIn", SetPiece("THROW_IN")>>, <<"GoalKick", SetPiece("GOAL_KICK")>>,
                     <<"Penalty", SetPiece("PENALTY")>>, <<"CornerKick", SetPiece("CORNER_KICK")>>,
                     <<"KickOff", SetPiece("KICK_OFF")>>, <<"FreeKick", SetPiece("FREE_KICK")>>>>,
                   {raw.kind})
    \o FirstQualifier(<<<<"head", Body("HEAD")>>, <<"leftLeg", Body("LEFT_FOOT")>>,
                        <<"rightLeg", Body("RIGHT_FOOT")>>>>, raw.tags)
SportecCardType(colour) ==
    CASE colour = "yellow" -> "FIRST_YELLOW" [] colour = "yellowRed" -> "SECOND_YELLOW" [] colour = "red" -> "RED"

SportecPass(g, raw) ==
    IF raw.outcome \in {"successfullyCompleted", "successful"}
    THEN [Build(g, "PASS", "COMPLETE", SportecQualifiers(raw)) EXCEPT !.receiver = raw.to]
    ELSE Build(g, "PASS", "INCOMPLETE", SportecQualifiers(raw))
SportecEvent(g, raw) ==
    CASE raw.type \in SportecShots  -> Build(g, "SHOT", SportecShotResult(raw.type), SportecQualifiers(raw))
      [] raw.type \in SportecPasses -> SportecPass(g, raw)
      [] raw.type = "BallClaiming"  -> Plain(g, "RECOVERY")
      [] raw.type = "Substitution"  -> [Plain(g, "SUBSTITUTION") EXCEPT !.receiver = raw.to]
      [] raw.type = "Caution"       -> Build(g, "CARD", SportecCardType(raw.outcome), <<>>)
      [] raw.type = "Foul"          -> [Plain(g, "FOUL_COMMITTED") EXCEPT !.team = raw.owner, !.player = raw.to]
      [] OTHER                      -> Plain(g, "GENERIC")

\* A throw-in, goal kick or corner tells that the ball went out: the pass before
\* it gets that result and a ball out is delivered at the time of the decision.
Restarts(event) ==
    event.type = "PASS" /\ ValueOf(event, "SetPiece") \in {"THROW_IN", "GOAL_KICK", "CORNER_KICK"}
LastPassOut(events) ==
    IF events[Len(events)].type # "PASS" THEN events
    ELSE [events EXCEPT ![Len(events)].result = "OUT"]
SportecBallOut(g, raw, last, start) ==
    [BallOut(Called(g, "-ball-out")) EXCEPT
        !.time = raw.decided - start, !.team = last.team, !.player = last.player]
AfterRestart(events, g, raw, start) ==
    Append(LastPassOut(events), SportecBallOut(g, raw, events[Len(events)], start))

SportecKickOff(raw) == raw.kind = "KickOff" /\ "GameSection" \in raw.tags
StartSportecEvents == Start(0)
ReadSportecEvent(loop, raw) ==
    LET kickOff == SportecKickOff(raw)
        period  == IF kickOff THEN loop.carry + 1 ELSE loop.carry
        opened  == IF kickOff THEN [loop EXCEPT !.carry = period,
                                                !.periods = (period :> Span(raw.time, raw.time)) @@ @]
                   ELSE loop
        start   == opened.periods[period].start
        g       == [Generic(raw) EXCEPT !.period = period, !.time = raw.time - start]
        event   == SportecEvent(g, raw)
    IN  CASE raw.type = "FinalWhistle" -> [loop EXCEPT !.periods[period].end = raw.time]
          [] raw.type # "FinalWhistle" /\ period = 0 -> loop
          [] OTHER ->
              IF ~Restarts(event) THEN Emit(opened, <<event>>)
              ELSE IF opened.events = <<>> THEN Fail(loop, "no event before the restart")
              ELSE [opened EXCEPT !.events = Append(AfterRestart(@, g, raw, start), event)]
FinishSportecEvents(loop) == IF loop.carry = 0 THEN Fail(loop, "no kick-off") ELSE loop
=============================================================================
