---------------------------- MODULE WyscoutV2Events ----------------------------
(***************************************************************************)
(* Event data of Wyscout, version 2 (wyscout/deserializer_v2.py).          *)
(*                                                                         *)
(* type is the eventId of a raw event, kind its subEventId and tags its    *)
(* tags; POST, OFF_TARGET and ON_GOAL stand for any zone of theirs.  What  *)
(* an event means may depend on the next one.                              *)
(***************************************************************************)
EXTENDS EventModel

V2Counter(raw) == <<IF "COUNTER_ATTACK" \in raw.tags THEN CounterAttack ELSE NoCounterAttack>>
V2Body(raw) ==
    FirstQualifier(<<<<"LEFT_FOOT", Body("LEFT_FOOT")>>, <<"RIGHT_FOOT", Body("RIGHT_FOOT")>>,
                     <<"HEAD_BODY", Body("HEAD_OTHER")>>>>, raw.tags)
V2CardType(raw) ==
    First(<<<<"RED", "RED">>, <<"YELLOW", "FIRST_YELLOW">>, <<"SECOND_YELLOW", "SECOND_YELLOW">>>>,
          raw.tags)
OrNoResult(value) == IF value = NoValue THEN NoResult ELSE value
GoesOut(next) == next.type = "INTERRUPTION" /\ next.kind = "BALL_OUT"    \* next may be Absent

\* _parse_shot: the goalkeeper's reaction is a qualifier of the shot.
V2ShotResult(raw) ==
    OrNoResult(First(<<<<"GOAL", "GOAL">>, <<"BLOCKED", "BLOCKED">>, <<"POST", "POST">>,
                       <<"OFF_TARGET", "OFF_TARGET">>, <<"ON_GOAL", "SAVED">>>>, raw.tags))
V2Shot(g, raw, next, setPiece) ==
    Build(g, "SHOT", V2ShotResult(raw),
          V2Counter(raw) \o V2Body(raw)
          \o (IF next.type # "SAVE" THEN <<>>
              ELSE FirstQualifier(<<<<"REFLEXES", Keeper("REFLEX")>>,
                                    <<"SAVE_ATTEMPT", Keeper("SAVE_ATTEMPT")>>>>, {next.kind}))
          \o setPiece)

\* _parse_pass: offside and out of play are told by the next event.
V2PassKinds(raw) ==
    CASE raw.kind = "HAND" -> <<PassQ("HAND_PASS"), Body("KEEPER_ARM")>>
      [] raw.kind = "HEAD" -> <<PassQ("HEAD_PASS"), Body("HEAD")>>
      [] OTHER -> FirstQualifier(<<<<"CROSS", PassQ("CROSS")>>, <<"HIGH", PassQ("HIGH_PASS")>>,
                                   <<"LAUNCH", PassQ("LAUNCH")>>, <<"SIMPLE", PassQ("SIMPLE_PASS")>>,
                                   <<"SMART", PassQ("SMART_PASS")>>>>, {raw.kind})
                  \o V2Body(raw)
V2PassResult(raw, next) ==
    CASE next.type = "OFFSIDE" -> "OFFSIDE"
      [] GoesOut(next) -> "OUT"
      [] OTHER -> OrNoResult(First(<<<<"ACCURATE", "COMPLETE">>, <<"NOT_ACCURATE", "INCOMPLETE">>>>,
                                   raw.tags))
V2Pass(g, raw, next, setPiece) ==
    Build(g, "PASS", V2PassResult(raw, next),
          V2Counter(raw) \o V2PassKinds(raw)
          \o AllQualifiers(<<<<"HIGH", PassQ("HIGH_PASS")>>, <<"THROUGH", PassQ("THROUGH_BALL")>>,
                             <<"ASSIST", PassQ("ASSIST")>>>>, raw.tags)
          \o setPiece)

\* _parse_set_piece; free kicks of other kinds yield no event.
V2SetPiece(kind) ==
    CASE kind = "THROW_IN" -> <<SetPiece("THROW_IN"), PassQ("HAND_PASS")>>
      [] OTHER -> FirstQualifier(<<<<"GOAL_KICK", SetPiece("GOAL_KICK")>>,
                                   <<"FREE_KICK", SetPiece("FREE_KICK")>>,
                                   <<"FREE_KICK_CROSS", SetPiece("FREE_KICK")>>,
                                   <<"CORNER", SetPiece("CORNER_KICK")>>,
                                   <<"FREE_KICK_SHOT", SetPiece("FREE_KICK")>>,
                                   <<"PENALTY", SetPiece("PENALTY")>>>>, {kind})
V2PassTypes == {"CORNER", "FREE_KICK", "FREE_KICK_CROSS", "GOAL_KICK", "THROW_IN"}
V2ShotTypes == {"FREE_KICK_SHOT", "PENALTY"}

V2Duel(g, raw) ==
    Build(g, "DUEL",
          OrNoResult(First(<<<<"WON", "WON">>, <<"LOST", "LOST">>, <<"NEUTRAL", "NEUTRAL">>>>, raw.tags)),
          V2Counter(raw)
          \o (CASE raw.kind = "AERIAL" -> <<DuelQ("LOOSE_BALL"), DuelQ("AERIAL")>>
                [] raw.kind \in {"GROUND_ATTACKING", "GROUND_DEFENDING"} -> <<DuelQ("GROUND")>>
                [] raw.kind = "GROUND_LOOSE_BALL" -> <<DuelQ("LOOSE_BALL"), DuelQ("GROUND")>>
                [] OTHER -> <<>>)
          \o FirstQualifier(<<<<"SLIDING_TACKLE", DuelQ("SLIDING_TACKLE")>>>>, raw.tags))
V2Save(g, raw) ==
    Build(g, "GOALKEEPER", NoResult,
          V2Counter(raw) \o <<Keeper(IF "GOAL" \in raw.tags THEN "SAVE_ATTEMPT" ELSE "SAVE")>>
          \o FirstQualifier(<<<<"REFLEXES", Keeper("REFLEX")>>>>, {raw.kind}))
V2Fouls(g, raw) ==
    LET card  == V2CardType(raw)
        foul  == Build(g, "FOUL_COMMITTED", NoResult,
                       V2Counter(raw) \o (IF card = NoValue THEN <<>> ELSE <<CardQ(card)>>))
    IN  IF card = NoValue THEN <<foul>>
        ELSE <<foul, Build(Called(g, "card-"), "CARD", card, V2Counter(raw))>>
\* "others on the ball": clearances, missed balls, and all else is a recovery.
V2OtherType(raw) ==
    CASE raw.kind = "CLEARANCE" -> "CLEARANCE"
      [] raw.kind = "TOUCH" /\ "MISSED_BALL" \in raw.tags -> "MISCONTROL"
      [] OTHER -> "RECOVERY"

V2NewEvents(g, raw, next) ==
    LET plain(type) == <<Build(g, type, NoResult, V2Counter(raw))>>
    IN  CASE raw.type = "SHOT"           -> <<V2Shot(g, raw, next, <<>>)>>
          [] raw.type = "PASS"           -> <<V2Pass(g, raw, next, <<>>)>>
          [] raw.type = "FOUL"           -> V2Fouls(g, raw)
          [] raw.type = "INTERRUPTION"   -> plain("BALL_OUT")
          [] raw.type = "SAVE"           -> <<V2Save(g, raw)>>
          [] raw.type = "FREE_KICK" /\ raw.kind \in V2PassTypes ->
                 <<V2Pass(g, raw, next, V2SetPiece(raw.kind))>>
          [] raw.type = "FREE_KICK" /\ raw.kind \in V2ShotTypes ->
                 <<V2Shot(g, raw, next, V2SetPiece(raw.kind))>>
          [] raw.type = "OTHERS_ON_BALL" -> plain(V2OtherType(raw))
          [] raw.type = "DUEL"           -> <<V2Duel(g, raw)>>
          [] raw.type = "OFFSIDE" -> <<>>
          [] raw.type = "FREE_KICK" /\ raw.kind \notin V2PassTypes \cup V2ShotTypes -> <<>>
          [] OTHER                       -> plain("GENERIC")

\* The INTERCEPTION tag: a duel becomes the interception and replaces the event
\* delivered before it too, a touch becomes it, a pass or clearance follows it.
V2InterceptionResult(raw, next) ==
    LET lost == IF raw.type = "PASS" THEN "NOT_ACCURATE" \in raw.tags
                ELSE next.type \in {"PASS", "SHOT"} /\ raw.team # next.team
    IN  CASE next.type \in {"absent", "INTERRUPTION"} -> IF GoesOut(next) THEN "OUT" ELSE "SUCCESS"
          [] OTHER -> IF lost THEN "LOST" ELSE "SUCCESS"
V2Intercepted(g, raw, next, new) ==
    LET made == Build(g, "INTERCEPTION", V2InterceptionResult(raw, next), V2Counter(raw))
        Type == IF new = <<>> THEN "none" ELSE new[1].type
    IN  CASE Type \in {"DUEL", "RECOVERY", "MISCONTROL"} -> <<made>>
          [] Type \in {"PASS", "CLEARANCE"} -> <<Called(made, "interception-")>> \o new
          [] OTHER -> new
V2Kept(events, raw, new) ==
    IF "INTERCEPTION" \in raw.tags /\ new # <<>> /\ new[1].type = "DUEL" /\ events # <<>>
    THEN Front(events) ELSE events

\* The Period is replaced, not updated, once its end is known: of the events of a
\* period only the last one refers to the Period that has an end.
V2RefersToEnd(raw, next) == IF next = Absent THEN TRUE ELSE next.period # raw.period
\* The periods are numbered 1H and 2H; E1, E2 and P are no numbers.
V2Unreadable(item) == item # Absent /\ item.period > 2
V2NeedsNext(raw) ==
    raw.type = "SHOT" \/ (raw.type = "FREE_KICK" /\ raw.kind \in V2ShotTypes)
StartWyscoutV2 == Start(<<>>)
ReadWyscoutV2(loop, feed, i) ==
    LET raw  == feed[i]
        next == ItemAt(feed, i + 1)
        g    == [Generic(raw) EXCEPT !.state = "unknown", !.ended = V2RefersToEnd(raw, next)]
        new  == V2NewEvents(g, raw, next)
    IN  IF V2Unreadable(raw) \/ V2Unreadable(next) THEN Fail(loop, "period is not a number")
        ELSE IF V2NeedsNext(raw) /\ next = Absent THEN Fail(loop, "a shot needs a next event")
        ELSE [loop EXCEPT
                !.events = V2Kept(@, raw, new) \o
                           (IF "INTERCEPTION" \in raw.tags THEN V2Intercepted(g, raw, next, new) ELSE new)]
FinishWyscoutV2(loop, feed) == [loop EXCEPT !.periods = PeriodsOf(feed)]
=============================================================================
