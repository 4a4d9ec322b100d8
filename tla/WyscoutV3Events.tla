---------------------------- MODULE WyscoutV3Events ----------------------------
(***************************************************************************)
(* Event data of Wyscout, version 3 (wyscout/deserializer_v3.py).          *)
(*                                                                         *)
(* type is the primary type of a raw event, tags its secondary types and   *)
(* the flags of its dictionaries, outcome whether a pass is accurate, kind *)
(* the height of a pass or the body part of a shot.  owner is the team in  *)
(* possession.  Every event also says, as formations, how both teams play. *)
(* time is the clock of the match.                                         *)
(***************************************************************************)
EXTENDS EventModel

V3Counter(raw) ==
    <<IF raw.owner # Nobody /\ "counterattack" \in raw.tags THEN CounterAttack ELSE NoCounterAttack>>
V3OfficialFormation(formation) == IF formation = "ten men" THEN "UNKNOWN" ELSE formation

V3ShotResult(raw) ==
    IF raw.type = "own_goal" THEN "OWN_GOAL"
    ELSE LET told == First(<<<<"isGoal", "GOAL">>, <<"onTarget", "SAVED">>, <<"bc", "BLOCKED">>>>, raw.tags)
         IN  IF told = NoValue THEN "OFF_TARGET" ELSE told
V3ShotBody(raw) ==
    IF raw.type = "own_goal" THEN <<>>
    ELSE FirstQualifier(<<<<"head_or_other", Body("HEAD")>>, <<"left_foot", Body("LEFT_FOOT")>>,
                          <<"right_foot", Body("RIGHT_FOOT")>>>>, {raw.kind})

V3PassQualifiers(raw) ==
    V3Counter(raw)
    \o AllQualifiers(<<<<"cross", PassQ("CROSS")>>, <<"hand_pass", PassQ("HAND_PASS")>>,
                       <<"head_pass", PassQ("HEAD_PASS")>>, <<"smart_pass", PassQ("SMART_PASS")>>,
                       <<"shot_assist", PassQ("SHOT_ASSIST")>>, <<"assist", PassQ("ASSIST")>>,
                       <<"through_pass", PassQ("THROUGH_BALL")>>>>, raw.tags)
    \o FirstQualifier(<<<<"high", PassQ("HIGH_PASS")>>>>, {raw.kind})
V3PassResult(raw, next) ==
    CASE next.type = "offside" -> "OFFSIDE"
      [] next.type = "game_interruption" /\ "ball_out" \in next.tags -> "OUT"
      [] OTHER -> CASE raw.outcome = "accurate" -> "COMPLETE"
                    [] raw.outcome = "inaccurate" -> "INCOMPLETE"
                    [] OTHER -> NoResult
\* _parse_pass.  The receiver of an accurate pass stays one when the next event
\* says that it was offside or went out.
V3Pass(g, raw, next, quals) ==
    [Build(g, "PASS", V3PassResult(raw, next), quals)
        EXCEPT !.receiver = IF raw.outcome = "accurate" THEN raw.to ELSE NoValue]

\* _parse_set_piece: its qualifiers replace those of the pass or the shot.
V3ShotSetPiece(raw) ==
    \/ raw.type = "penalty"
    \/ raw.type = "free_kick" /\ "free_kick_shot" \in raw.tags
    \/ raw.type = "corner" /\ "shot" \in raw.tags
V3SetPieces == {"throw_in", "goal_kick", "free_kick", "corner", "penalty"}
V3SetPieceQualifiers(raw) ==
    V3Counter(raw)
    \o AllQualifiers(<<<<"goal_kick", SetPiece("GOAL_KICK")>>, <<"throw_in", SetPiece("THROW_IN")>>,
                       <<"throw_in", PassQ("HAND_PASS")>>, <<"free_kick", SetPiece("FREE_KICK")>>,
                       <<"corner", SetPiece("CORNER_KICK")>>, <<"penalty", SetPiece("PENALTY")>>>>,
                     {raw.type})

\* Who won a duel: the possession kept or recovered, or the first touch.
V3Attacked(raw) == "offensive_duel" \in raw.tags
V3Defended(raw) == "defensive_duel" \in raw.tags
V3Jumped(raw)   == "aerial_duel" \in raw.tags
V3TakeOnResult(raw) ==
    LET Told(flag) == IF flag \in raw.tags THEN "COMPLETE" ELSE "INCOMPLETE"
    IN  IF V3Attacked(raw) THEN Told("keptPossession")
        ELSE IF V3Defended(raw) THEN Told("recoveredPossession")
        ELSE IF V3Jumped(raw) THEN Told("firstTouch") ELSE NoResult
V3DuelResult(raw) ==
    IF \/ V3Attacked(raw) /\ "keptPossession" \in raw.tags
       \/ V3Defended(raw) /\ "recoveredPossession" \in raw.tags
       \/ V3Jumped(raw) /\ "firstTouch" \in raw.tags
    THEN "WON" ELSE "LOST"
V3DuelQualifiers(raw) ==
    CASE "ground_duel" \in raw.tags -> <<DuelQ("GROUND")>>
      [] "ground_duel" \notin raw.tags /\ V3Jumped(raw) -> <<DuelQ("LOOSE_BALL"), DuelQ("AERIAL")>>
      [] OTHER ->
             FirstQualifier(<<<<"loose_ball_duel", DuelQ("GROUND")>>, <<"sliding_tackle", DuelQ("GROUND")>>>>,
                            raw.tags)
             \o AllQualifiers(<<<<"loose_ball_duel", DuelQ("LOOSE_BALL")>>,
                                <<"sliding_tackle", DuelQ("SLIDING_TACKLE")>>>>, raw.tags)
V3Duel(g, raw) ==
    IF "dribble" \in raw.tags THEN Build(g, "TAKE_ON", V3TakeOnResult(raw), V3Counter(raw))
    ELSE Build(g, "DUEL", V3DuelResult(raw), V3Counter(raw) \o V3DuelQualifiers(raw))

V3InterceptionResult(raw, next) ==
    IF next = Absent THEN "SUCCESS"
    ELSE IF next.type = "game_interruption" /\ "ball_out" \in next.tags THEN "OUT"
    ELSE IF \/ "loss" \in raw.tags
            \/ "pass" \in raw.tags /\ raw.outcome = "inaccurate"
            \/ next.owner # Nobody /\ raw.team # next.owner
    THEN "LOST" ELSE "SUCCESS"

\* The event an item becomes, or the last event again: an infraction that is
\* neither a foul nor a card builds nothing and the variable keeps its value.
V3Nothing == Absent
V3Punished == {"foul", "yellow_card", "red_card"}
V3CardType(raw) == IF "yellow_card" \in raw.tags THEN "FIRST_YELLOW" ELSE "RED"
V3Infraction(g, raw) ==
    IF "foul" \in raw.tags THEN Build(g, "FOUL_COMMITTED", NoResult, V3Counter(raw))
    ELSE Build(g, "CARD", V3CardType(raw), V3Counter(raw))
V3Event(g, raw, next, kickOff, last) ==
    CASE raw.type \in {"shot", "own_goal"} ->
             Build(g, "SHOT", V3ShotResult(raw), V3Counter(raw) \o V3ShotBody(raw))
      [] raw.type = "pass" ->
             V3Pass(g, raw, next, V3PassQualifiers(raw)
                                  \o (IF kickOff THEN <<SetPiece("KICK_OFF")>> ELSE <<>>))
      [] raw.type = "duel" -> V3Duel(g, raw)
      [] raw.type = "clearance" -> Build(g, "CLEARANCE", NoResult, V3Counter(raw))
      [] raw.type = "interception" ->
             Build(g, "INTERCEPTION", V3InterceptionResult(raw, next), V3Counter(raw))
      [] raw.type = "shot_against" /\ "save" \in raw.tags ->
             Build(g, "GOALKEEPER", NoResult, V3Counter(raw) \o <<Keeper("SAVE"), Keeper("REFLEX")>>)
      [] raw.type \in V3SetPieces ->
             IF V3ShotSetPiece(raw) THEN Build(g, "SHOT", V3ShotResult(raw), V3SetPieceQualifiers(raw))
             ELSE V3Pass(g, raw, next, V3SetPieceQualifiers(raw))
      [] raw.type = "infraction" -> IF V3Punished \cap raw.tags = {} THEN last ELSE V3Infraction(g, raw)
      [] OTHER -> IF "carry" \in raw.tags THEN Build(g, "CARRY", "COMPLETE", V3Counter(raw))
                  ELSE Build(g, "GENERIC", NoResult, V3Counter(raw))

\* identify_synthetic_formation_change_event: the next event shows a team in
\* another formation.
V3FormationChanges(g, raw, next) ==
    IF next = Absent THEN <<>>
    ELSE LET Changed(k) == V3OfficialFormation(raw.formations[k]) # V3OfficialFormation(next.formations[k])
             Change(team) == [Plain(Called(g, IF team = Home THEN "synthetic-home-" ELSE "synthetic-away-"),
                                    "FORMATION_CHANGE") EXCEPT !.team = team, !.player = NoValue]
         IN  (IF Changed(1) THEN <<Change(Home)>> ELSE <<>>)
             \o (IF Changed(2) THEN <<Change(Away)>> ELSE <<>>)

\* create_periods looks a period up by its number, not by its place.
V3PeriodMissing(feed) ==
    LET ids == {feed[i].period : i \in DOMAIN feed}
    IN  \E p \in ids : p > Cardinality({q \in ids : q <= p})
V3Timestamp(raw) == raw.time - FixedStart[raw.period]

StartWyscoutV3 == Start([kickOff |-> FALSE, last |-> V3Nothing])
ReadWyscoutV3(loop, feed, i) ==
    LET raw     == feed[i]
        next    == ItemAt(feed, i + 1)
        kickOff == \/ loop.carry.kickOff
                   \/ i = 1 \/ raw.period # feed[i - 1].period
                   \/ "conceded_goal" \in raw.tags
        g       == [Generic(raw) EXCEPT !.owner = raw.owner, !.state = "unknown", !.time = V3Timestamp(raw)]
        event   == V3Event(g, raw, next, kickOff, loop.carry.last)
        changes == IF raw.type = "infraction" /\ V3Punished \cap raw.tags # {} THEN <<>>
                   ELSE V3FormationChanges(g, raw, next)
    IN  IF V3PeriodMissing(feed) THEN Fail(loop, "period index out of range")
        ELSE [loop EXCEPT
                !.events = @ \o (IF event = V3Nothing THEN <<>> ELSE <<event>>) \o changes,
                !.carry  = [kickOff |-> kickOff /\ raw.type # "pass",
                            last |-> IF changes = <<>> THEN event ELSE changes[Len(changes)]]]
FinishWyscoutV3(loop, feed) ==
    [loop EXCEPT !.periods =
        PeriodsOf([i \in DOMAIN feed |-> [feed[i] EXCEPT !.time = V3Timestamp(feed[i])]])]
=============================================================================
