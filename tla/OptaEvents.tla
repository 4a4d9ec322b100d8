------------------------------- MODULE OptaEvents -------------------------------
(***************************************************************************)
(* Event data of Opta and Stats Perform (serializers/event/statsperform),  *)
(* whichever of their feeds it comes in.                                   *)
(*                                                                         *)
(* type is the name of the type_id, outcome 0 or 1, tags the qualifiers,   *)
(* time the date of the event and actual the date of qualifier 374.  meta  *)
(* has the periods as the metadata feed knows them; NoDate is None.        *)
(***************************************************************************)
EXTENDS EventModel

NoDate == -1
DeletedEvents == {"DELETED_EVENT"}
BallOutEventTypes == {"BALL_OUT", "CORNER_AWARDED"}
DuelEventTypes    == {"TACKLE", "AERIAL", "50_50"}
KeeperEventTypes  == {"SAVE", "CLAIM", "PUNCH", "KEEPER_PICK_UP", "SMOTHER"}
ShotEventTypes    == {"SHOT_MISS", "SHOT_POST", "SHOT_SAVED", "SHOT_GOAL"}
BallOwningEvents  == {"PASS", "OFFSIDE_PASS", "TAKE_ON", "RECOVERY", "BALL_TOUCH"} \cup ShotEventTypes
DeadBallEvents    == BallOutEventTypes \cup
    {"SHOT_GOAL", "FOUL_COMMITTED", "CARD", "START_DELAY", "END_DELAY", "OFFSIDE_PROVOKED"}

\* _get_event_qualifiers and _get_pass_qualifiers.
OptaSetPiece(raw) ==
    FirstQualifier(<<<<"CORNER_KICK", SetPiece("CORNER_KICK")>>, <<"FREE_KICK", SetPiece("FREE_KICK")>>,
                     <<"FREE_KICK_SHOT", SetPiece("FREE_KICK")>>, <<"PENALTY", SetPiece("PENALTY")>>,
                     <<"THROW_IN", SetPiece("THROW_IN")>>, <<"KICK_OFF", SetPiece("KICK_OFF")>>,
                     <<"GOAL_KICK", SetPiece("GOAL_KICK")>>>>, raw.tags)
OptaBody(raw) ==
    FirstQualifier(<<<<"HEAD_PASS", Body("HEAD")>>, <<"HEAD", Body("HEAD")>>, <<"FLICK_ON", Body("HEAD")>>,
                     <<"LEFT_FOOT", Body("LEFT_FOOT")>>, <<"RIGHT_FOOT", Body("RIGHT_FOOT")>>,
                     <<"OTHER_BODYPART", Body("OTHER")>>>>, raw.tags)
OptaCardType(raw) ==
    First(<<<<"RED_CARD", "RED">>, <<"FIRST_YELLOW_CARD", "FIRST_YELLOW">>,
            <<"SECOND_YELLOW_CARD", "SECOND_YELLOW">>>>, raw.tags)
OptaQualifiers(raw) ==
    OptaSetPiece(raw) \o OptaBody(raw)
    \o (IF OptaCardType(raw) = NoValue THEN <<>> ELSE <<CardQ(OptaCardType(raw))>>)
    \o FirstQualifier(<<<<"COUNTER_ATTACK", CounterAttack>>>>, raw.tags)
OptaPassQualifiers(raw) ==
    AllQualifiers(<<<<"CROSS", PassQ("CROSS")>>, <<"LONG_BALL", PassQ("LONG_BALL")>>,
                    <<"CHIPPED_BALL", PassQ("CHIPPED_PASS")>>, <<"THROUGH_BALL", PassQ("THROUGH_BALL")>>,
                    <<"LAUNCH", PassQ("LAUNCH")>>, <<"FLICK_ON", PassQ("FLICK_ON")>>,
                    <<"ASSIST_2ND", PassQ("ASSIST_2ND")>>, <<"SHOT_ASSIST", PassQ("SHOT_ASSIST")>>,
                    <<"GOAL_ASSIST", PassQ("ASSIST")>>>>, raw.tags)
    \o OptaQualifiers(raw)

\* _parse_pass: who received the ball is read off the event after a complete
\* pass (or after a challenge of it), and a deflected pass that a team mate gets
\* counts as complete.
Receipt(raw, next, after) ==
    LET Theirs(item) == item.type \in BallOwningEvents /\ item.team = raw.team
    IN  CASE Theirs(next) -> next
          [] next.type = "CHALLENGE" /\ Theirs(after) -> after
          [] OTHER -> Absent
Deflected(raw, next, after) ==
    /\ next.type = "BALL_TOUCH" /\ next.outcome = 1
    /\ after # Absent /\ after.team = raw.team
OptaPass(g, raw, next, after) ==
    LET receipt == IF raw.outcome = 1 THEN Receipt(raw, next, after) ELSE Absent
    IN  [Build(g, "PASS",
               IF raw.outcome = 1 \/ Deflected(raw, next, after) THEN "COMPLETE" ELSE "INCOMPLETE",
               OptaPassQualifiers(raw))
            EXCEPT !.receiver = IF receipt = Absent THEN NoValue ELSE receipt.player]

OptaShotResult(raw) ==
    CASE raw.type = "SHOT_GOAL" -> IF "OWN_GOAL" \in raw.tags THEN "OWN_GOAL" ELSE "GOAL"
      [] raw.type # "SHOT_GOAL" /\ "BLOCKED" \in raw.tags -> "BLOCKED"
      [] OTHER -> IF raw.type = "SHOT_SAVED" THEN "SAVED" ELSE "OFF_TARGET"
OptaInterceptionResult(raw, next) ==
    CASE next.type \in BallOutEventTypes -> "OUT"
      [] next.type \in BallOwningEvents -> IF next.team = raw.team THEN "SUCCESS" ELSE "LOST"
      [] OTHER -> "SUCCESS"
OptaDuelQualifiers(raw) ==
    CASE raw.type = "TACKLE" -> <<DuelQ("GROUND")>>
      [] raw.type = "AERIAL" -> <<DuelQ("LOOSE_BALL"), DuelQ("AERIAL")>>
      [] raw.type = "50_50"  -> <<DuelQ("LOOSE_BALL"), DuelQ("GROUND")>>
KeeperActionAsNamed(type) == type
KeeperAction(type) == IF type = "KEEPER_PICK_UP" THEN "PICK_UP" ELSE type

OptaEvent(g, raw, next, after) ==
    CASE raw.type = "PASS" -> OptaPass(g, raw, next, after)
      [] raw.type = "OFFSIDE_PASS" -> Build(g, "PASS", "OFFSIDE", OptaPassQualifiers(raw))
      [] raw.type = "TAKE_ON" ->
             Build(g, "TAKE_ON", IF raw.outcome = 1 THEN "COMPLETE" ELSE "INCOMPLETE", <<>>)
      [] raw.type \in ShotEventTypes -> Build(g, "SHOT", OptaShotResult(raw), OptaQualifiers(raw))
      [] raw.type = "RECOVERY" -> Plain(g, "RECOVERY")
      [] raw.type = "CLEARANCE" -> Build(g, "CLEARANCE", NoResult, OptaQualifiers(raw))
      [] raw.type \in DuelEventTypes ->
             Build(g, "DUEL", IF raw.outcome = 1 THEN "WON" ELSE "LOST",
                   OptaQualifiers(raw) \o OptaDuelQualifiers(raw))
      [] raw.type \in {"INTERCEPTION", "BLOCKED_PASS"} ->
             Build(g, "INTERCEPTION", OptaInterceptionResult(raw, next), OptaQualifiers(raw))
      [] raw.type \in KeeperEventTypes ->
             IF "DEFENDER_BLOCK" \in raw.tags THEN Plain(g, "GENERIC")
             ELSE Build(g, "GOALKEEPER", NoResult, OptaQualifiers(raw) \o <<Keeper(KeeperAction(raw.type))>>)
      [] raw.type = "BALL_TOUCH" /\ raw.outcome = 0 -> Plain(g, "MISCONTROL")
      [] raw.type = "FOUL_COMMITTED" /\ raw.outcome = 0 -> Plain(g, "FOUL_COMMITTED")
      [] raw.type \in BallOutEventTypes -> Plain(g, "BALL_OUT")
      [] raw.type = "FORMATION_CHANGE" -> Plain(g, "FORMATION_CHANGE")
      [] raw.type = "PLAYER_OFF" ->
             [Plain(g, "SUBSTITUTION") EXCEPT
                 !.receiver = IF next.type = "PLAYER_ON" THEN next.player ELSE NoValue]
      [] raw.type = "CARD" ->
             Build(g, "CARD", IF OptaCardType(raw) = NoValue THEN NoResult ELSE OptaCardType(raw), <<>>)
      [] OTHER -> Plain(g, "GENERIC")

\* The timestamp: of a goal the moment of the shot, of a change before the
\* kick-off of the period the kick-off.
OptaTimestampOfFeed(raw, start) ==
    (IF raw.type = "SHOT_GOAL" /\ "ACTUAL_TIME" \in raw.tags THEN raw.actual ELSE raw.time) - start
OptaTimestamp(raw, start) ==
    CASE raw.type = "SHOT_GOAL" /\ "ACTUAL_TIME" \in raw.tags -> raw.actual - start
      [] raw.type \in {"FORMATION_CHANGE", "PLAYER_OFF"} -> IF raw.time < start THEN 0 ELSE raw.time - start
      [] OTHER -> raw.time - start

StartOpta(meta) == [Start(Nobody) EXCEPT !.periods = meta.periods]
OptaFeed(feed) == SelectSeq(feed, LAMBDA raw : raw.type \notin DeletedEvents)
ReadOpta(loop, feed, i) ==
    LET raw   == feed[i]
        next  == ItemAt(feed, i + 1)
        known == raw.period \in DOMAIN loop.periods
        owner == IF raw.type \in BallOwningEvents THEN raw.team ELSE loop.carry
        g     == [Generic(raw) EXCEPT
                     !.owner = owner,
                     !.state = IF raw.type \in DeadBallEvents THEN "DEAD" ELSE "ALIVE",
                     !.time  = OptaTimestamp(raw, loop.periods[raw.period].start)]
    IN  CASE raw.team \notin {Home, Away} -> Fail(loop, "unknown team")
          [] raw.team \in {Home, Away} /\ ~known -> loop
          [] OTHER ->
              CASE raw.type = "START_PERIOD" -> [loop EXCEPT !.periods[raw.period].start = raw.time]
                [] raw.type = "END_PERIOD"   -> [loop EXCEPT !.periods[raw.period].end = raw.time]
                [] raw.type = "PLAYER_ON"    -> loop
                [] OTHER ->
                    IF loop.periods[raw.period].start = NoDate THEN loop
                    ELSE IF raw.type = "PLAYER_OFF" /\ next = Absent THEN Fail(loop, "no event after player off")
                    ELSE [Emit(loop, <<OptaEvent(g, raw, next, ItemAt(feed, i + 2))>>)
                             EXCEPT !.carry = owner]
FinishOpta(loop) == loop
=============================================================================
