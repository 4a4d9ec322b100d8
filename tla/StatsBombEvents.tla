---------------------------- MODULE StatsBombEvents ----------------------------
(***************************************************************************)
(* Event data of StatsBomb (serializers/event/statsbomb).                  *)
(*                                                                         *)
(* A raw event has, besides what Generic takes: its type, its outcome (of  *)
(* the dictionary named after the type; "" when there is none), kind (the  *)
(* "type" of that dictionary), owner, the flags of it and its dictionary   *)
(* as tags, and related, the places of its related events in the feed.     *)
(***************************************************************************)
EXTENDS EventModel

Missing == ""    \* no outcome

\* The outcomes each event type maps (SHOT raises for any other).
PassOutcome(outcome) ==
    CASE outcome = Missing -> "COMPLETE"
      [] outcome \in {"OUT", "INJURY_CLEARANCE"} -> "OUT"
      [] outcome \in {"INCOMPLETE", "OFFSIDE"} -> outcome
      [] OTHER -> NoResult
ShotOutcome(outcome) ==
    CASE outcome \in {"OFF_TARGET", "OFF_WAYWARD"} -> "OFF_TARGET"
      [] outcome \in {"SAVED", "SAVED_OFF_TARGET", "SAVED_TO_POST"} -> "SAVED"
      [] OTHER -> outcome
OutOutcomes == {"LOST_OUT", "SUCCESS_OUT"}
InterceptionOutcome(outcome) ==
    CASE outcome \in OutOutcomes -> "OUT"
      [] outcome \in {"WON", "SUCCESS", "SUCCESS_IN_PLAY"} -> "SUCCESS"
      [] outcome \in {"LOST", "LOST_IN_PLAY"} -> "LOST"
WonDuels == {"WON", "SUCCESS", "SUCCESS_IN_PLAY", "SUCCESS_OUT"}
WonFiftyFifties == {"WON", "SUCCESS_TO_TEAM"}

BodyPartQualifiers(raw) == SetToSeq({Body(part) : part \in BodyPart \cap raw.tags})
PassQualifiers(raw) ==
    AllQualifiers(<<<<"cross", PassQ("CROSS")>>, <<"through ball", PassQ("THROUGH_BALL")>>,
                    <<"switch", PassQ("SWITCH_OF_PLAY")>>, <<"high", PassQ("HIGH_PASS")>>,
                    <<"over 35 yards", PassQ("LONG_BALL")>>, <<"HEAD", PassQ("HEAD_PASS")>>,
                    <<"KEEPER_ARM", PassQ("HAND_PASS")>>, <<"shot_assist", PassQ("SHOT_ASSIST")>>,
                    <<"goal_assist", PassQ("ASSIST")>>, <<"goal_assist", PassQ("SHOT_ASSIST")>>>>,
                  raw.tags)
SetPieceQualifiers(raw) == IF raw.kind \in SetPieceType THEN <<SetPiece(raw.kind)>> ELSE <<>>

\* SetRefs: related events that are not in the feed are None.
Related(feed, raw, type) ==
    SelectSeq(raw.related, LAMBDA i : i \in DOMAIN feed /\ feed[i].type = type)
Has(feed, raw, type) == Related(feed, raw, type) # <<>>
FirstRelated(feed, raw, type) == feed[Related(feed, raw, type)[1]]

\* _create_events of each event class.
PassEvents(g, raw) ==
    LET pass == [Build(g, "PASS", PassOutcome(raw.outcome),
                       PassQualifiers(raw) \o SetPieceQualifiers(raw) \o BodyPartQualifiers(raw))
                     EXCEPT !.receiver = IF raw.outcome = Missing THEN raw.to ELSE NoValue]
    IN  IF raw.kind = "ONE_TOUCH_INTERCEPTION"
        THEN <<Build(Called(g, "interception-"), "INTERCEPTION", "SUCCESS", <<>>), pass>>
        ELSE <<pass>>
DribbleResult(feed, raw) ==
    IF raw.outcome # "INCOMPLETE" THEN "COMPLETE"
    ELSE IF \E i \in Range(Related(feed, raw, "DUEL")) : feed[i].outcome \in OutOutcomes
    THEN "OUT" ELSE "INCOMPLETE"
DuelEvent(g, raw) ==
    Build(g, "DUEL",
          IF raw.kind # "AERIAL_LOST" /\ raw.outcome \in WonDuels THEN "WON" ELSE "LOST",
          IF raw.kind = "AERIAL_LOST" THEN <<DuelQ("LOOSE_BALL"), DuelQ("AERIAL")>>
          ELSE <<DuelQ("GROUND")>>)
SaveTypes == {"SHOT_SAVED", "PENALTY_SAVED_TO_POST", "SAVED_TO_POST", "SHOT_SAVED_OFF_TARGET",
              "SHOT_SAVED_TO_POST"}
GoalkeeperEvent(g, raw) ==
    LET body     == BodyPartQualifiers(raw)
        With(S)  == \E part \in S : body = <<Body(part)>>
        hands    == With({"LEFT_HAND", "RIGHT_HAND", "BOTH_HANDS"})
        headFoot == With({"LEFT_FOOT", "RIGHT_FOOT", "HEAD"})
        Did(action) == Build(g, "GOALKEEPER", NoResult, <<Keeper(action)>> \o body)
        cleared  == raw.outcome \in {"CLEAR", "SUCCESS"}
    IN  CASE raw.kind \in SaveTypes    -> Did("SAVE")
          [] raw.kind = "SMOTHER"      -> Did("SMOTHER")
          [] raw.kind = "PUNCH"        -> Did("PUNCH")
          [] raw.kind = "COLLECTED"    -> Did("CLAIM")
          [] raw.kind = "KEEPER_SWEEPER" /\ raw.outcome = "CLAIM" ->
                 IF hands \/ body = <<>> THEN Did("PICK_UP")
                 ELSE Build(g, "RECOVERY", NoResult, body)
          [] raw.kind = "KEEPER_SWEEPER" /\ cleared ->
                 IF headFoot THEN Build(g, "CLEARANCE", NoResult, body) ELSE Did("SAVE")
          [] OTHER -> Plain(g, "GENERIC")
Carded(raw) == raw.kind \in CardType
FoulOrCard(g, raw) ==
    IF Carded(raw) THEN <<Build(g, "CARD", raw.kind, <<>>)>> ELSE <<Plain(g, "FOUL_COMMITTED")>>
FoulEvents(g, raw) ==
    IF Carded(raw)
    THEN <<Build(g, "FOUL_COMMITTED", NoResult, <<CardQ(raw.kind)>>), Build(g, "CARD", raw.kind, <<>>)>>
    ELSE <<Plain(g, "FOUL_COMMITTED")>>
BehaviourEvent(g, raw) == IF Carded(raw) THEN Build(g, "CARD", raw.kind, <<>>) ELSE Plain(g, "GENERIC")
RecoveryEvent(g, raw) ==
    IF "recovery_failure" \in raw.tags THEN Build(g, "DUEL", "LOST", <<DuelQ("LOOSE_BALL")>>)
    ELSE Plain(g, "RECOVERY")

\* event_decoder: the classes, and a generic event for every other type.
BaseEvents(feed, g, raw) ==
    CASE raw.type = "PASS"             -> PassEvents(g, raw)
      [] raw.type = "SHOT"             -> <<Build(g, "SHOT", ShotOutcome(raw.outcome),
                                                  SetPieceQualifiers(raw) \o BodyPartQualifiers(raw))>>
      [] raw.type = "INTERCEPTION"     -> <<Build(g, "INTERCEPTION", InterceptionOutcome(raw.outcome), <<>>)>>
      [] raw.type = "OWN_GOAL_FOR"     -> <<>>
      [] raw.type = "OWN_GOAL_AGAINST" -> <<Build(g, "SHOT", "OWN_GOAL", <<>>)>>
      [] raw.type = "CLEARANCE"        -> <<Build(g, "CLEARANCE", NoResult, BodyPartQualifiers(raw))>>
      [] raw.type = "DRIBBLE"          -> <<Build(g, "TAKE_ON", DribbleResult(feed, raw), <<>>)>>
      [] raw.type = "CARRY"            -> <<Build(g, "CARRY", "COMPLETE", <<>>)>>
      [] raw.type = "DUEL"             -> <<DuelEvent(g, raw)>>
      [] raw.type = "FIFTY_FIFTY"      ->
             <<Build(g, "DUEL", IF raw.outcome \in WonFiftyFifties THEN "WON" ELSE "LOST",
                     <<DuelQ("LOOSE_BALL"), DuelQ("GROUND")>>)>>
      [] raw.type = "GOALKEEPER"       -> <<GoalkeeperEvent(g, raw)>>
      [] raw.type = "BAD_BEHAVIOUR"    -> <<BehaviourEvent(g, raw)>>
      [] raw.type = "FOUL_COMMITTED"   -> FoulEvents(g, raw)
      [] raw.type = "BALL_RECOVERY"    -> <<RecoveryEvent(g, raw)>>
      [] raw.type = "TACTICAL_SHIFT"   -> <<Plain(g, "FORMATION_CHANGE")>>
      [] raw.type \in {"MISCONTROL", "SUBSTITUTION", "PLAYER_ON", "PLAYER_OFF", "PRESSURE"} ->
             <<Plain(g, raw.type)>>
      [] OTHER -> <<Plain(g, "GENERIC")>>

\* Whether the ball went out, and that this event is the one that says so: the
\* receipt for a pass that has one, the keeper for a shot he faced.
WentOut(raw, outcomes) == "out" \in raw.tags \/ raw.outcome \in outcomes
CreatesBallOutTwice(feed, raw) ==    \* the pass tells it although its receipt does
    CASE raw.type = "PASS" -> WentOut(raw, {"OUT"})
      [] raw.type = "BALL_RECEIPT" ->
             Has(feed, raw, "PASS") /\ WentOut(FirstRelated(feed, raw, "PASS"), {"OUT"})
      [] OTHER -> WentOut(raw, {})
CreatesBallOut(feed, raw) ==
    CASE raw.type = "PASS" -> WentOut(raw, {"OUT"}) /\ ~Has(feed, raw, "BALL_RECEIPT")
      [] raw.type = "BALL_RECEIPT" ->
             Has(feed, raw, "PASS") /\ WentOut(FirstRelated(feed, raw, "PASS"), {"OUT"})
      [] raw.type = "SHOT" -> WentOut(raw, {"OFF_TARGET"}) /\ ~Has(feed, raw, "GOALKEEPER")
      [] raw.type = "GOALKEEPER" ->
             \/ WentOut(raw, {"TOUCHED_OUT", "SUCCESS_OUT", "LOST_OUT"})
             \/ Has(feed, raw, "SHOT") /\ WentOut(FirstRelated(feed, raw, "SHOT"), {"OFF_TARGET"})
      [] raw.type \in {"INTERCEPTION", "DUEL"} -> WentOut(raw, OutOutcomes)
      [] OTHER -> WentOut(raw, {})
BallOutEvents(feed, g, raw) ==
    IF CreatesBallOut(feed, raw) THEN <<BallOut(Called(g, "out-"))>> ELSE <<>>

AerialTypes == {"SHOT", "CLEARANCE", "MISCONTROL", "PASS"}
AerialWonEvents(g, raw) ==
    IF raw.type \in AerialTypes /\ "aerial_won" \in raw.tags
    THEN <<Build(Called(g, "duel-"), "DUEL", "WON", <<DuelQ("LOOSE_BALL"), DuelQ("AERIAL")>>)>>
    ELSE <<>>

\* EVENT.deserialize: qualifiers are added to the finished events, then the
\* order is duel, event, ball out.
Adding(events, condition, qualifier) ==
    IF condition THEN [k \in DOMAIN events |-> [events[k] EXCEPT !.quals = Append(@, qualifier)]]
    ELSE events
StatsBombEvent(feed, raw) ==
    LET g       == [Generic(raw) EXCEPT !.owner = raw.owner]
        played  == Adding(AerialWonEvents(g, raw) \o BaseEvents(feed, g, raw),
                          "under_pressure" \in raw.tags, UnderPressure)
    IN  Adding(played \o BallOutEvents(feed, g, raw), "counter" \in raw.tags, CounterAttack)

\* SUBSTITUTION is the one handler that refuses what it cannot resolve.
UnknownReplacement(raw) == raw.type = "SUBSTITUTION" /\ raw.to = NoValue
StartStatsBomb == Start(<<>>)
ReadStatsBomb(loop, feed, i) ==
    IF UnknownReplacement(feed[i]) THEN Fail(loop, "could not find replacement player")
    ELSE Emit(loop, StatsBombEvent(feed, feed[i]))

\* create_periods: a period starts when the one before it ended and lasts until
\* its "Half End" event.
Halves(feed, type) == {feed[i].period : i \in {j \in DOMAIN feed : feed[j].type = type}}
FinishStatsBomb(loop, feed) ==
    IF Cardinality(Halves(feed, "HALF_START")) # Cardinality(Halves(feed, "HALF_END"))
    THEN Fail(loop, "failed to determine start and end time of periods")
    ELSE [loop EXCEPT !.periods = PeriodsOf(SelectSeq(feed, LAMBDA raw : raw.type = "HALF_END"))]
=============================================================================
