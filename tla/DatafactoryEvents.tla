---------------------------- MODULE DatafactoryEvents ----------------------------
(***************************************************************************)
(* Event data of DataFactory (datafactory/deserializer.py).                *)
(*                                                                         *)
(* kind is the class an item is filed under, type its type, to the id of   *)
(* recvId.  time is the clock of the match and owner the team on whose     *)
(* sheet the player is, for items without a team.  meta has the status     *)
(* updates, in the order they are filed.                                   *)
(***************************************************************************)
EXTENDS EventModel

DfPassKinds == {"pass", "throwIn", "corner"}
DfCardKinds == {"yellowCard", "redCard"}
DfOutTypes  == {"throw-in", "corner kick", "goal kick"}
DfGoalTypes == {"goal", "own goal", "header goal", "free kick goal", "penalty goal"}
DfPenalties == {"penalty goal", "penalty saved", "penalty off target", "penalty post"}
DfFreeKickFouls == {"foul", "hand"}
DfNotInPlay == DfCardKinds \cup {"substitution", "penaltyShootout"}

\* Periods come from the status updates; one that ends was to have started.
DfStatus(loop, status) ==
    CASE loop.raised # NotRaised -> loop
      [] loop.raised = NotRaised /\ status.type = "start" ->
             [loop EXCEPT !.periods = (status.half :> Span(status.time, status.time)) @@ @]
      [] OTHER -> IF status.half \in DOMAIN loop.periods THEN [loop EXCEPT !.periods[status.half].end = status.time]
                  ELSE Fail(loop, "missing start event for period")
StartDatafactory(meta) == FoldLeft(DfStatus, Start(Absent), meta.statuses)

\* Goals are listed as shots too.  The classes are merged by half, clock and id.
DfBefore(r, s) ==
    \/ r.period < s.period
    \/ r.period = s.period /\ r.time < s.time
    \/ r.period = s.period /\ r.time = s.time /\ r.id < s.id
DatafactoryFeed(feed) == SortSeq(SelectSeq(feed, LAMBDA raw : raw.kind # "goal"), DfBefore)

DfTeam(raw) == IF raw.team = Nobody THEN raw.owner ELSE raw.team
DfQualifiers(raw, previous) ==
    FirstQualifier(<<<<"throw-in", SetPiece("THROW_IN")>>, <<"corner kick", SetPiece("CORNER_KICK")>>,
                     <<"header goal", Body("HEAD")>>>>, {raw.type})
    \o (IF raw.type \in DfPenalties THEN <<SetPiece("PENALTY")>> ELSE <<>>)
    \o (IF previous.type = "goal kick" /\ previous.player = raw.player
        THEN <<SetPiece("GOAL_KICK")>> ELSE <<>>)
    \o (IF raw.type = "free kick goal" \/ previous.type \in DfFreeKickFouls
        THEN <<SetPiece("FREE_KICK")>> ELSE <<>>)
    \o (IF previous.type \in DfGoalTypes \cup {"absent"} THEN <<SetPiece("KICK_OFF")>> ELSE <<>>)

\* _parse_pass.  A throw-in or corner reached the player who has the ball next:
\* a team mate, or the man an opponent fouls.
DfDeduced(raw, next) ==
    IF raw.to # NoValue \/ raw.type \notin {"throw-in", "corner kick"} \/ next = Absent THEN NoValue
    ELSE IF next.team # raw.team THEN (IF next.type = "foul" THEN next.to ELSE NoValue)
    ELSE next.player
DfPassResult(raw, next) ==
    CASE next.type = "offside" -> "OFFSIDE"
      [] next.type # "offside" /\ raw.type = "pass correct" -> "COMPLETE"
      [] OTHER -> IF next.type \in DfOutTypes THEN "OUT" ELSE "INCOMPLETE"
DfPass(g, raw, previous, next) ==
    LET deduced == DfDeduced(raw, next)
    IN  [Build(g, "PASS", IF deduced = NoValue THEN DfPassResult(raw, next) ELSE "COMPLETE",
               DfQualifiers(raw, previous))
            EXCEPT !.receiver = IF deduced = NoValue THEN raw.to ELSE deduced]
DfShotResult(type) ==
    CASE type \in DfGoalTypes -> "GOAL"
      [] type \in {"off target", "penalty off target"} -> "OFF_TARGET"
      [] type \in {"post", "penalty post"} -> "POST"
      [] type \in {"saved", "penalty saved"} -> "SAVED"
DfCardType(type) ==
    CASE type = "yellow" -> "FIRST_YELLOW" [] type = "double yellow" -> "SECOND_YELLOW" [] type = "red" -> "RED"

DfEvent(g, raw, previous, next) ==
    CASE raw.kind \in DfPassKinds -> DfPass(g, raw, previous, next)
      [] raw.kind = "shot"     -> Build(g, "SHOT", DfShotResult(raw.type), DfQualifiers(raw, previous))
      [] raw.kind = "stealing" -> Plain(g, "RECOVERY")
      [] raw.kind = "foul"     -> [Plain(g, "FOUL_COMMITTED") EXCEPT
                                      !.owner = IF g.team = Away THEN Home ELSE Away]
      [] raw.kind \in DfCardKinds -> Build(g, "CARD", DfCardType(raw.type), <<>>)
      [] raw.kind = "substitution" -> [Plain(g, "SUBSTITUTION") EXCEPT !.receiver = raw.to]
      [] OTHER -> Plain(g, "GENERIC")

\* A restart says that the ball was out: a ball out under the id of the restart
\* precedes it.  previous is the last ball in play of the half.
ReadDatafactory(loop, feed, i) ==
    LET raw      == feed[i]
        previous == IF loop.carry # Absent /\ loop.carry.period # raw.period THEN Absent ELSE loop.carry
        g        == [Generic(raw) EXCEPT !.team = DfTeam(raw), !.owner = DfTeam(raw),
                                         !.time = raw.time - FixedStart[raw.period]]
        event    == DfEvent(g, raw, previous, ItemAt(feed, i + 1))
        out      == IF raw.type \in DfOutTypes THEN <<BallOut(g)>> ELSE <<>>
    IN  IF raw.period \notin DOMAIN loop.periods THEN loop
        ELSE [Emit(loop, out \o <<event>>) EXCEPT
                 !.carry = IF raw.kind \in DfNotInPlay THEN previous ELSE raw]
FinishDatafactory(loop) == loop
=============================================================================
