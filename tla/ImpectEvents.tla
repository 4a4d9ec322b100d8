------------------------------ MODULE ImpectEvents ------------------------------
(***************************************************************************)
(* Event data of Impect (serializers/event/impect).                        *)
(*                                                                         *)
(* type is the actionType of a raw event, kind its action ("" when there   *)
(* is none), outcome SUCCESS or FAIL, to the receiver of a pass or the     *)
(* opponent in a duel, tags the body part, the dictionaries it has (pass,  *)
(* shot, the type of a duel) and what they say.  The clock shows time, or  *)
(* in stoppage time the end of the period and added on top of it (added is *)
(* 0 otherwise).  meta.substitutions has the records of both squads.       *)
(***************************************************************************)
EXTENDS EventModel

\* parse_timestamp reads the period off the clock.
ImpectPeriod(clock) ==
    LET past == {k \in 2..4 : clock.time > FixedStart[k] \/ (clock.time = FixedStart[k] /\ clock.added = 0)}
    IN  1 + Cardinality(past)
ImpectTimestamp(clock) == clock.time + clock.added - FixedStart[ImpectPeriod(clock)]
\* parse_cumulative_timestamp: from the start of the match, but in the stoppage
\* time of extra time from the end of normal time.
CumulativeTimestamp(clock) ==
    clock.time + clock.added - (IF clock.added > 0 /\ clock.time > FixedStart[3] THEN FixedStart[3] ELSE 0)

ImpectBody(raw) ==
    FirstQualifier(<<<<"FOOT_LEFT", Body("LEFT_FOOT")>>, <<"FOOT_RIGHT", Body("RIGHT_FOOT")>>,
                     <<"FOOT", Body("RIGHT_FOOT")>>, <<"HEAD", Body("HEAD")>>,
                     <<"BODY", Body("OTHER")>>, <<"HAND", Body("KEEPER_ARM")>>>>, raw.tags)
ImpectPassKinds(raw) ==
    AllQualifiers(<<<<"LOW_CROSS", PassQ("CROSS")>>, <<"HIGH_CROSS", PassQ("CROSS")>>,
                    <<"HIGH_CROSS", PassQ("HIGH_PASS")>>, <<"SHORT_AERIAL_PASS", PassQ("CHIPPED_PASS")>>,
                    <<"CHIPPED_PASS", PassQ("CHIPPED_PASS")>>, <<"HEAD", PassQ("HEAD_PASS")>>,
                    <<"HAND", PassQ("HAND_PASS")>>>>, raw.tags \cup {raw.kind})
\* create_pass_props, and the set piece of the class.
ImpectPass(g, raw, setPiece) ==
    [Build(g, "PASS", IF raw.outcome = "SUCCESS" THEN "COMPLETE" ELSE "INCOMPLETE",
           ImpectPassKinds(raw) \o ImpectBody(raw) \o setPiece)
        EXCEPT !.receiver = IF "TEAMMATE" \in raw.tags THEN raw.to ELSE NoValue]

\* parse_shot_end_coordinates: without a target point even a goal is off target.
TargetResult(raw) ==
    CASE "target" \notin raw.tags -> "OFF_TARGET"
      [] "target" \in raw.tags /\ raw.outcome = "SUCCESS" -> "GOAL"
      [] OTHER -> IF "woodwork" \in raw.tags THEN "POST"
                  ELSE IF "on goal" \in raw.tags THEN "SAVED" ELSE "OFF_TARGET"
ImpectShot(g, raw) ==
    Build(g, "SHOT", IF raw.kind = "BLOCK" /\ TargetResult(raw) # "GOAL" THEN "BLOCKED" ELSE TargetResult(raw),
          ImpectBody(raw) \o FirstQualifier(<<<<"PENALTY_KICK", SetPiece("PENALTY")>>,
                                              <<"DIRECT_FREE_KICK", SetPiece("FREE_KICK")>>>>, {raw.kind}))
FreeKick(g, raw) ==
    IF "pass" \in raw.tags THEN ImpectPass(g, raw, <<SetPiece("FREE_KICK")>>)
    ELSE Build(g, "SHOT", TargetResult(raw), ImpectBody(raw) \o <<SetPiece("FREE_KICK")>>)

\* Duels are delivered twice, for the winner and for the opponent.
Loser(g, raw, affix, quals) ==
    [Build(Called(g, raw.to \o affix), "DUEL", "LOST", quals)
        EXCEPT !.team = Opponent(g.team), !.player = raw.to]
Regain(g, raw) ==
    LET type  == First(<<<<"AERIAL_DUEL", "AERIAL">>, <<"GROUND_DUEL", "GROUND">>>>, raw.tags)
        quals == <<DuelQ("LOOSE_BALL"), DuelQ(type)>>
    IN  (IF type = NoValue THEN <<>>
         ELSE <<Build(Called(g, g.player \o "-aerial-duel-"), "DUEL", "WON", quals),
                Loser(g, raw, "-aerial-duel-", quals)>>)
        \o <<Build(g, "RECOVERY", NoResult, ImpectBody(raw))>>
GroundDuel(g, raw) ==
    <<Build(g, "DUEL", "WON", ImpectBody(raw) \o <<DuelQ("GROUND")>>),
      Loser(g, raw, "-ground-duel-", <<DuelQ("GROUND")>>)>>

ImpectSetPiece(type) ==
    CASE type = "PASS" -> <<>>
      [] type = "CORNER" -> <<SetPiece("CORNER_KICK")>>
      [] type \in {"KICK_OFF", "THROW_IN", "GOAL_KICK"} -> <<SetPiece(type)>>
ImpectCards == {"YELLOW_CARD", "SECOND_YELLOW_CARD", "RED_CARD"}
ImpectCard(type) ==
    CASE type = "YELLOW_CARD" -> "FIRST_YELLOW" [] type = "SECOND_YELLOW_CARD" -> "SECOND_YELLOW"
      [] type = "RED_CARD" -> "RED"

\* event_decoder and the _create_events of its classes.
ImpectCreated(g, raw) ==
    LET With(type, result, quals) == <<Build(g, type, result, ImpectBody(raw) \o quals)>>
    IN  CASE raw.type \in {"PASS", "KICK_OFF", "THROW_IN", "GOAL_KICK", "CORNER"} ->
                 <<ImpectPass(g, raw, ImpectSetPiece(raw.type))>>
          [] raw.type = "FREE_KICK"         -> <<FreeKick(g, raw)>>
          [] raw.type = "DRIBBLE"           ->
                 With("CARRY", IF raw.outcome = "SUCCESS" THEN "COMPLETE" ELSE "INCOMPLETE", <<>>)
          [] raw.type = "SHOT"              -> <<ImpectShot(g, raw)>>
          [] raw.type = "OWN_GOAL"          -> With("SHOT", "OWN_GOAL", <<>>)
          [] raw.type = "LOOSE_BALL_REGAIN" -> Regain(g, raw)
          [] raw.type = "GROUND_DUEL"       -> GroundDuel(g, raw)
          [] raw.type = "INTERCEPTION"      -> With("INTERCEPTION", "SUCCESS", <<>>)
          [] raw.type = "CLEARANCE"         -> With("CLEARANCE", NoResult, <<>>)
          [] raw.type = "GK_CATCH"          -> With("GOALKEEPER", NoResult, <<Keeper("CLAIM")>>)
          [] raw.type = "GK_SAVE"           -> With("GOALKEEPER", NoResult, <<Keeper("SAVE")>>)
          [] raw.type = "OUT"               -> <<BallOut(g)>>
          [] raw.type = "FOUL"              -> <<Plain(g, "FOUL_COMMITTED")>>
          [] raw.type \in ImpectCards       -> <<Build(g, "CARD", ImpectCard(raw.type), <<>>)>>
          [] OTHER                          -> <<Plain(g, "GENERIC")>>

\* Pressure is added to every event that was made; the two duels of a regain
\* share one list of qualifiers, so each of them gets it twice.
UnderPressureFor(event, raw) ==
    IF "pressure" \notin raw.tags THEN <<>>
    ELSE IF raw.type = "LOOSE_BALL_REGAIN" /\ event.type = "DUEL" THEN <<UnderPressure, UnderPressure>>
    ELSE <<UnderPressure>>
ImpectDeserialized(raw) ==
    LET made == ImpectCreated([Generic(raw) EXCEPT !.owner = raw.owner, !.time = ImpectTimestamp(raw)], raw)
    IN  [k \in DOMAIN made |-> [made[k] EXCEPT !.quals = @ \o UnderPressureFor(made[k], raw)]]

StartImpect(feed) ==
    [Start(<<>>) EXCEPT
        !.periods = PeriodsOf([i \in DOMAIN feed |-> [feed[i] EXCEPT !.time = CumulativeTimestamp(feed[i])]])]
ReadImpect(loop, feed, i) ==
    LET raw == feed[i]
    IN  IF {raw.team, raw.owner} \subseteq {Home, Away, Nobody}
        THEN IF raw.type = "FREE_KICK" /\ raw.tags \cap {"pass", "shot"} = {}
             THEN Fail(loop, "free kick is neither a pass nor a shot")
             ELSE Emit(loop, ImpectDeserialized(raw))
        ELSE Fail(loop, "unknown team")

\* mark_events_as_assists: the nearer of the two events before a shot that is a
\* pass of the same team assisted it.
AssistOf(events, shot) ==
    LET passes == {k \in DOMAIN events \cap {shot - 1, shot - 2} :
                     events[k].type = "PASS" /\ events[k].team = events[shot].team}
    IN  IF events[shot].type # "SHOT" \/ passes = {} THEN 0
        ELSE IF shot - 1 \in passes THEN shot - 1 ELSE shot - 2
AssistQualifiers(events, k, shot) ==
    IF shot \notin DOMAIN events THEN <<>>
    ELSE IF AssistOf(events, shot) # k THEN <<>>
    ELSE <<PassQ("SHOT_ASSIST")>> \o (IF events[shot].result = "GOAL" THEN <<PassQ("ASSIST")>> ELSE <<>>)
WithAssists(events) ==
    [k \in DOMAIN events |->
        [events[k] EXCEPT !.quals = @ \o AssistQualifiers(events, k, k + 1)
                                      \o AssistQualifiers(events, k, k + 2)]]

\* parse_substitutions: an out and the first in of the team in the same period
\* within the window are a substitution, an out without an in is a player off.
\* The first out of a player who was sent off is passed over.
SubWindow == 1    \* 30 seconds
Earlier(a, b) == a.period < b.period \/ (a.period = b.period /\ a.time < b.time)
SubRecords(records, kind) ==
    LET chosen == SelectSeq(records, LAMBDA record : record.kind = kind)
    IN  SortSeq([k \in DOMAIN chosen |-> [player |-> chosen[k].player,
                    period |-> ImpectPeriod(chosen[k]), time |-> ImpectTimestamp(chosen[k])]], Earlier)
Matches(in, out) ==
    in.period = out.period /\ in.time - out.time \in (0 - SubWindow)..SubWindow
SubEvent(team, record) ==
    [Generic([id |-> 0, team |-> team, player |-> record.player, period |-> record.period, time |-> record.time])
        EXCEPT !.state = "DEAD"]
Substituted(team, out, in) ==
    [Plain(SubEvent(team, in), "SUBSTITUTION") EXCEPT
        !.id = <<0, "substitution-" \o out.player \o "-" \o in.player>>,
        !.player = out.player, !.receiver = in.player]
WentOff(team, out) == Plain(Called(SubEvent(team, out), "player-off-" \o out.player), "PLAYER_OFF")
MatchOut(team, subs, out) ==
    LET fits == {k \in DOMAIN subs.ins : Matches(subs.ins[k], out)}
    IN  IF out.player \in subs.sentOff THEN [subs EXCEPT !.sentOff = @ \ {out.player}]
        ELSE IF fits = {} THEN [subs EXCEPT !.made = Append(@, WentOff(team, out))]
        ELSE LET k == CHOOSE j \in fits : \A l \in fits : j <= l
             IN  [subs EXCEPT !.made = Append(@, Substituted(team, out, subs.ins[k])),
                              !.ins = RemoveAt(@, k)]
MatchTeam(subs, team, records) ==
    FoldLeft(LAMBDA acc, out : MatchOut(team, acc, out),
             [subs EXCEPT !.ins = SubRecords(records, "in")], SubRecords(records, "out"))
SentOff(events) ==
    {events[k].player : k \in {j \in DOMAIN events :
        events[j].type = "CARD" /\ events[j].result \in {"RED", "SECOND_YELLOW"}}}
ImpectSubstitutions(events, substitutions) ==
    MatchTeam(MatchTeam([ins |-> <<>>, sentOff |-> SentOff(events), made |-> <<>>],
                        Home, substitutions[1]), Away, substitutions[2]).made
\* insert: before the first event that is not earlier.
InsertByTime(events, event) ==
    InsertAt(events, 1 + Cardinality({k \in DOMAIN events : Earlier(events[k], event)}), event)

FinishImpect(loop, meta) ==
    LET unknown == {r \in Range(meta.substitutions[1] \o meta.substitutions[2]) :
                      r.kind # "moved" /\ ImpectPeriod(r) > Cardinality(DOMAIN loop.periods)}
    IN  IF unknown # {} THEN Fail(loop, "period index out of range")
        ELSE [loop EXCEPT !.events =
                 LET played == WithAssists(@)
                 IN  FoldLeft(InsertByTime, played, ImpectSubstitutions(played, meta.substitutions))]
=============================================================================
