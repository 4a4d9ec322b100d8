------------------------------- MODULE MCEvents -------------------------------
(***************************************************************************)
(* Small feeds for every reader of event data.  A feed is a first half of  *)
(* two of the plays below, in any combination, and a second half of one    *)
(* pass; its items are numbered and on the clock.                          *)
(***************************************************************************)
EXTENDS Events

Raw(type, team, more) ==
    more @@ [type |-> type, team |-> team, player |-> team \o "1", to |-> team \o "2", owner |-> team,
             outcome |-> "", kind |-> "", tags |-> {}, related |-> <<>>]
Just(type, team)        == Raw(type, team, <<>>)
Sub(type, team, kind)   == Raw(type, team, [kind |-> kind])
Out_(type, team, outcome) == Raw(type, team, [outcome |-> outcome])
Tagged(type, team, tags) == Raw(type, team, [tags |-> tags])

\* Items of half p, of which the first has number from + 1, at start on the clock.
Numbered(p, items, from, start) ==
    [k \in DOMAIN items |->
        [items[k] EXCEPT !.related = [r \in DOMAIN @ |-> from + k + @[r]]]
        @@ [id |-> from + k, period |-> p, time |-> start + 2 * k]]
Match(first, second, starts) ==
    Numbered(1, first, 0, starts[1]) \o Numbered(2, second, Len(first), starts[2])
Sources(reader, metas, plays, Feed(_)) ==
    {[reader |-> reader, meta |-> meta, feed |-> Feed(p \o q)] : meta \in metas, p \in plays, q \in plays}
NoMeta == {<<>>}
InHalf == <<0, 0>>
Dates  == <<1000, 2000>>

----
Rel(type, team, outcome, to) == Raw(type, team, [outcome |-> outcome, related |-> <<to>>])
StatsBombPlays == {
    \* a pass out, told by its receipt; one that has none; one of an injury
    <<Rel("PASS", Home, "OUT", 1), Rel("BALL_RECEIPT", Home, "INCOMPLETE", -1), Sub("PASS", Away, "THROW_IN")>>,
    <<Raw("PASS", Home, [outcome |-> "OUT", related |-> <<1>>, tags |-> {"aerial_won", "HEAD"}]),
      Just("PRESSURE", Away), Sub("PASS", Away, "THROW_IN")>>,
    <<Out_("PASS", Home, "INJURY_CLEARANCE"), Sub("PASS", Away, "ONE_TOUCH_INTERCEPTION")>>,
    \* a take-on out, told by the duel; duels of all kinds
    <<Rel("DRIBBLE", Home, "INCOMPLETE", 1), Rel("DUEL", Away, "LOST_OUT", -1), Out_("FIFTY_FIFTY", Home, "WON")>>,
    <<Rel("DRIBBLE", Home, "INCOMPLETE", 1), Rel("DUEL", Away, "WON", -1),
      Raw("DUEL", Home, [kind |-> "AERIAL_LOST", tags |-> {"under_pressure"}])>>,
    <<Out_("INTERCEPTION", Home, "SUCCESS_OUT"), Sub("PASS", Away, "THROW_IN"), Out_("INTERCEPTION", Home, "LOST_IN_PLAY")>>,
    \* shots and keepers
    <<Rel("SHOT", Home, "OFF_TARGET", 1), Raw("GOALKEEPER", Away, [kind |-> "SHOT_FACED", related |-> <<-1>>]),
      Sub("PASS", Away, "GOAL_KICK")>>,
    <<Raw("SHOT", Home, [outcome |-> "OFF_WAYWARD", tags |-> {"counter", "aerial_won"}]),
      Rel("SHOT", Home, "SAVED_TO_POST", 1),
      Raw("GOALKEEPER", Away, [kind |-> "SHOT_SAVED", outcome |-> "TOUCHED_OUT", related |-> <<-1>>])>>,
    <<Raw("GOALKEEPER", Away, [kind |-> "KEEPER_SWEEPER", outcome |-> "CLAIM", tags |-> {"LEFT_FOOT"}]),
      Raw("GOALKEEPER", Away, [kind |-> "KEEPER_SWEEPER", outcome |-> "CLEAR", tags |-> {"HEAD"}]),
      Sub("GOALKEEPER", Away, "PUNCH")>>,
    \* fouls and cards, changes, own goals, recoveries
    <<Sub("FOUL_COMMITTED", Home, "SECOND_YELLOW"), Sub("BAD_BEHAVIOUR", Away, "RED"), Just("TACTICAL_SHIFT", Home)>>,
    <<Just("SUBSTITUTION", Home), Just("PLAYER_OFF", Away), Just("OWN_GOAL_AGAINST", Home), Just("OWN_GOAL_FOR", Away)>>,
    <<Tagged("CLEARANCE", Home, {"out", "aerial_won", "under_pressure", "counter", "HEAD"}),
      Tagged("BALL_RECOVERY", Away, {"recovery_failure"}), Just("CARRY", Home)>>,
    <<Raw("SUBSTITUTION", Home, [to |-> NoValue])>>}
StatsBombFeed(items) ==
    Match(<<Just("HALF_START", Home)>> \o items \o <<Just("HALF_END", Home)>>,
          <<Just("HALF_START", Home), Just("PASS", Home), Just("HALF_END", Home)>>, InHalf)

----
BallOutV2(team) == Sub("INTERRUPTION", team, "BALL_OUT")
WyscoutV2Plays == {
    <<Sub("PASS", Home, "SIMPLE"), BallOutV2(Home), Sub("FREE_KICK", Away, "THROW_IN")>>,
    <<Raw("PASS", Home, [kind |-> "HEAD", tags |-> {"ACCURATE", "ASSIST", "COUNTER_ATTACK"}]),
      Tagged("SHOT", Home, {"ON_GOAL", "LEFT_FOOT"}), Sub("SAVE", Away, "REFLEXES")>>,
    <<Tagged("PASS", Home, {"NOT_ACCURATE"}), Raw("PASS", Away, [kind |-> "CROSS", tags |-> {"INTERCEPTION", "ACCURATE"}]),
      Just("OFFSIDE", Home)>>,
    <<Raw("DUEL", Home, [kind |-> "GROUND_ATTACKING", tags |-> {"LOST"}]),
      Raw("DUEL", Away, [kind |-> "GROUND_DEFENDING", tags |-> {"WON", "INTERCEPTION", "SLIDING_TACKLE"}]),
      Tagged("PASS", Away, {"ACCURATE"})>>,
    <<Raw("OTHERS_ON_BALL", Home, [kind |-> "TOUCH", tags |-> {"INTERCEPTION"}]), BallOutV2(Home)>>,
    <<Raw("OTHERS_ON_BALL", Home, [kind |-> "CLEARANCE", tags |-> {"INTERCEPTION"}]), BallOutV2(Home),
      Raw("FREE_KICK", Away, [kind |-> "CORNER", tags |-> {"NOT_ACCURATE"}])>>,
    <<Tagged("FOUL", Home, {"SECOND_YELLOW"}), Raw("FREE_KICK", Away, [kind |-> "PENALTY", tags |-> {"GOAL"}]),
      Just("ANOTHER", Home)>>}
WyscoutV2Feed(items) == Match(items, <<Tagged("PASS", Home, {"ACCURATE"})>>, InHalf)
\* A feed that ends with a shot, and one that reaches extra time.
WyscoutV2Broken ==
    {[reader |-> "wyscout v2", meta |-> <<>>, feed |-> feed] :
        feed \in {WyscoutV2Feed(<<>>) \o Numbered(2, <<Tagged("SHOT", Home, {"GOAL"})>>, 9, 8),
                  WyscoutV2Feed(<<>>) \o Numbered(3, <<Tagged("PASS", Away, {"ACCURATE"})>>, 9, 0)}}

Formations(home, away) == [formations |-> <<home, away>>]
Plain_ == Formations("4-4-2", "4-3-3")
InFormation(items) ==
    [k \in DOMAIN items |-> items[k] @@ [formations |-> IF \E j \in 1..k : items[j].type = "shift"
                                         THEN <<"4-4-2", "ten men">> ELSE <<"4-4-2", "4-3-3">>]]
OutcomeV3(type, team, outcome) == Raw(type, team, [outcome |-> outcome])
WyscoutV3Plays == {
    <<OutcomeV3("pass", Home, "inaccurate"), Tagged("game_interruption", Home, {"ball_out"}),
      OutcomeV3("throw_in", Away, "accurate")>>,
    <<Raw("pass", Home, [outcome |-> "accurate", kind |-> "high", tags |-> {"cross", "counterattack"}]),
      Raw("shot", Home, [kind |-> "head_or_other", tags |-> {"isGoal"}]), Tagged("shot_against", Away, {"save", "conceded_goal"})>>,
    <<Tagged("duel", Home, {"offensive_duel", "ground_duel", "dribble", "keptPossession"}),
      Tagged("duel", Away, {"defensive_duel", "sliding_tackle"}), Tagged("touch", Away, {"carry"})>>,
    <<Tagged("interception", Home, {"loss"}), Tagged("infraction", Away, {"foul", "yellow_card"}),
      Tagged("penalty", Home, {"onTarget"})>>,
    <<Just("shift", Home), Tagged("infraction", Away, {"yellow_card"}), Just("clearance", Home), Just("own_goal", Away)>>,
    <<Tagged("infraction", Away, {"red_card"}), Just("shift", Home)>>,
    <<Just("infraction", Away), OutcomeV3("goal_kick", Home, "accurate"), Just("offside", Home)>>}
WyscoutV3Feed(items) ==
    Match(InFormation(items), InFormation(<<OutcomeV3("pass", Home, "accurate")>>), FixedStart)
\* A shootout that follows a match without extra time.
WyscoutV3Broken ==
    {[reader |-> "wyscout v3", meta |-> <<>>,
      feed |-> WyscoutV3Feed(<<>>) \o Numbered(5, InFormation(<<Tagged("penalty", Home, {"isGoal"})>>), 9, FixedStart[5])]}

----
\* Of Opta; a half starts and ends once for each team.
Opta(type, team, outcome, tags) ==
    Raw(type, team, [outcome |-> outcome, tags |-> tags, actual |-> 0])
Teams(type) == <<Opta(type, Home, 1, {}), Opta(type, Away, 1, {})>>
OptaPlays == {
    <<Opta("PASS", Home, 0, {"LONG_BALL"}), Opta("BALL_OUT", Home, 0, {}), Opta("BALL_OUT", Away, 1, {}),
      Opta("PASS", Away, 1, {"THROW_IN"})>>,
    <<Opta("PASS", Home, 1, {"HEAD_PASS", "KICK_OFF"}), Opta("CHALLENGE", Away, 0, {}),
      Opta("TAKE_ON", Home, 1, {}), Opta("TACKLE", Away, 0, {})>>,
    <<Opta("PASS", Home, 0, {}), Opta("BALL_TOUCH", Away, 1, {}), Opta("RECOVERY", Home, 1, {})>>,
    <<Opta("PASS", Home, 0, {}), Opta("INTERCEPTION", Away, 1, {}), Opta("CORNER_AWARDED", Away, 0, {}),
      Opta("CORNER_AWARDED", Home, 1, {})>>,
    <<Opta("BLOCKED_PASS", Away, 1, {}), Opta("CLEARANCE", Home, 1, {"HEAD"}), Opta("OFFSIDE_PASS", Away, 1, {"GOAL_ASSIST"})>>,
    <<Opta("SHOT_SAVED", Home, 1, {"COUNTER_ATTACK"}), Opta("SAVE", Away, 1, {}), Opta("KEEPER_PICK_UP", Away, 1, {}),
      Opta("SAVE", Away, 1, {"DEFENDER_BLOCK"})>>,
    <<Raw("SHOT_GOAL", Home, [outcome |-> 1, tags |-> {"ACTUAL_TIME"}, actual |-> 1]), Opta("DELETED_EVENT", Home, 1, {})>>,
    <<Opta("FOUL_COMMITTED", Home, 0, {}), Opta("CARD", Home, 1, {"SECOND_YELLOW_CARD"}),
      Opta("PLAYER_OFF", Home, 1, {}), Opta("PLAYER_ON", Home, 1, {})>>,
    <<Opta("AERIAL", Home, 1, {}), Opta("AERIAL", Away, 0, {}), Opta("CARD", Away, 1, {}), Opta("SHOT_MISS", Home, 1, {})>>}
OptaFeedOf(items) ==
    LET dated == Match(Teams("START_PERIOD") \o items \o Teams("END_PERIOD"),
                       \* a change in the break is filed under the second half
                       <<Opta("FORMATION_CHANGE", Home, 1, {}), Opta("PLAYER_OFF", Away, 1, {}), Opta("PLAYER_ON", Away, 1, {})>>
                       \o Teams("START_PERIOD") \o <<Opta("PASS", Home, 1, {})>> \o Teams("END_PERIOD"), Dates)
        known == [k \in DOMAIN dated |-> [dated[k] EXCEPT !.actual = dated[k].time - 1]]
        \* both teams start and end at one time
        PairTime(k) == IF k > 1 /\ known[k - 1].type = known[k].type /\ known[k].type \in {"START_PERIOD", "END_PERIOD"}
                       THEN known[k - 1].time ELSE known[k].time
    IN  <<Opta("TEAM_SET_UP", Home, 1, {}) @@ [id |-> 0, period |-> 16, time |-> 0]>>
        \o [k \in DOMAIN known |-> [known[k] EXCEPT !.time = PairTime(k)]]
KickOffAt2 == 2000 + 8
OptaMetas ==
    {[periods |-> (1 :> Span(1002, 1100)) @@ (2 :> Span(start, 2100))] : start \in {NoDate, KickOffAt2}}

----
\* Of Sportec; decided is the time the ball went out, before the restart.
Xml(type, team, kind, outcome) == Raw(type, team, [kind |-> kind, outcome |-> outcome])
Starts == Raw("Pass", Home, [kind |-> "KickOff", outcome |-> "successful", tags |-> {"GameSection"}])
SportecPlays == {
    <<Xml("Pass", Home, "", "unsuccessful"), Xml("Pass", Away, "ThrowIn", "successfullyCompleted")>>,
    <<Just("TacklingGame", Home), Xml("Cross", Home, "CornerKick", "unsuccessful"), Just("BallClaiming", Away)>>,
    <<Tagged("ShotWide", Home, {"head"}), Xml("Pass", Away, "GoalKick", "successful"), Just("SavedShot", Away)>>,
    <<Just("Foul", Home), Out_("Caution", Home, "yellowRed"), Sub("SuccessfulShot", Away, "Penalty"), Sub("Pass", Home, "KickOff")>>,
    <<Just("Substitution", Away), Just("OtherShot", Home), Just("OwnGoal", Home), Sub("Pass", Home, "FreeKick")>>}
SportecFeed(items) ==
    LET dated == Match(<<Just("Warmup", Home), Starts>> \o items \o <<Just("FinalWhistle", Home)>>,
                       <<Starts, Xml("Pass", Home, "", "successful"), Just("FinalWhistle", Home)>>, Dates)
    IN  [k \in DOMAIN dated |-> dated[k] @@ [decided |-> dated[k].time - 1]]
\* Badly begun: a restart before anything else, and no kick-off at all.
SportecBroken ==
    {[reader |-> "sportec", meta |-> <<>>,
      feed |-> [k \in 1..2 |-> feed[k] @@ [id |-> k, period |-> 0, time |-> k, decided |-> k]]] :
        feed \in {<<[Starts EXCEPT !.kind = "ThrowIn"], Starts>>,
                  <<Raw("Pass", Home, [kind |-> "Other", outcome |-> "successful"]), Just("FinalWhistleOf", Home)>>}}

----
Df(kind, type, team) == Raw(type, team, [kind |-> kind, to |-> NoValue])
DatafactoryPlays == {
    <<Df("pass", "pass incorrect", Home), Df("throwIn", "throw-in", Away), Df("pass", "pass correct", Away)>>,
    <<Df("pass", "pass incorrect", Home), Df("pass", "goal kick", Away), Df("pass", "pass incorrect", Away),
      Df("offside", "offside", Home)>>,
    <<Df("corner", "corner kick", Home), Raw("foul", Away, [kind |-> "foul", to |-> "home3"]),
      Df("yellowCard", "double yellow", Away), Df("pass", "pass correct", Home)>>,
    <<Df("shot", "penalty goal", Home), Df("goal", "penalty goal", Home), Df("pass", "pass correct", Away),
      Df("stealing", "stealing", Home)>>,
    <<Raw("substitution", Home, [kind |-> "substitution"]), Raw("saved", Away, [kind |-> "shot", team |-> Nobody]),
      Df("throwIn", "throw-in", Home)>>}
DatafactoryFeedOf(items) == Match(items, <<Df("pass", "pass correct", Home)>>, FixedStart)
StatusAt(type, half, time) == [type |-> type, half |-> half, time |-> time]
DatafactoryMetas ==
    {[statuses |-> <<StatusAt("start", 1, 1000), StatusAt("end", 1, 1096), StatusAt("start", 2, 1130), StatusAt("end", 2, 1230)>>],
     [statuses |-> <<StatusAt("end", 1, 1096)>>]}

----
Im(type, team, outcome, tags) == Raw(type, team, [outcome |-> outcome, tags |-> tags])
ImpectPlays == {
    <<Im("KICK_OFF", Home, "SUCCESS", {"FOOT", "pass", "TEAMMATE"}),
      Raw("PASS", Home, [outcome |-> "SUCCESS", kind |-> "HIGH_CROSS", tags |-> {"HEAD", "pass", "pressure"}]),
      Im("DRIBBLE", Home, "FAIL", {"FOOT"}), Im("SHOT", Home, "SUCCESS", {"FOOT_LEFT", "shot", "target"})>>,
    <<Im("LOOSE_BALL_REGAIN", Away, "", {"HEAD", "AERIAL_DUEL", "pressure"}), Im("GROUND_DUEL", Home, "", {"FOOT"}),
      Im("OUT", Home, "", {}), Im("THROW_IN", Away, "FAIL", {"HAND", "pass"})>>,
    <<Im("FREE_KICK", Away, "FAIL", {"FOOT_RIGHT", "shot", "target", "woodwork"}), Im("GK_SAVE", Home, "", {"HAND"}),
      Raw("SHOT", Away, [outcome |-> "FAIL", kind |-> "BLOCK", tags |-> {"BODY", "shot"}]), Im("INTERCEPTION", Home, "", {"BODY"})>>,
    <<Im("FOUL", Away, "", {}), Im("RED_CARD", Away, "", {}), Im("FREE_KICK", Home, "SUCCESS", {"FOOT", "pass", "TEAMMATE"}),
      Im("OWN_GOAL", Away, "", {"HEAD"})>>,
    <<Raw("FINAL_WHISTLE", Nobody, [owner |-> Nobody]), Im("CLEARANCE", Home, "", {"HEAD"}), Im("FREE_KICK", Home, "", {})>>}
ImpectFeed(items) ==
    LET played == Match(items, <<Im("PASS", Home, "SUCCESS", {"FOOT", "pass"})>>, FixedStart)
    IN  [k \in DOMAIN played |-> played[k] @@ [added |-> 0]]
        \o <<Just("NO_VIDEO", Home) @@ [id |-> Len(played) + 1, period |-> 2, time |-> 180, added |-> 4]>>
Change(player, kind, time) == [player |-> player, kind |-> kind, time |-> time, added |-> 0]
\* One change and one man off in the second half; the change of a sent-off
\* player; the last record names a period that is never played.
ImpectMetas ==
    {[substitutions |-> <<home, <<Change("away1", "out", 92), Change("away7", "moved", 92)>>>>] :
        home \in {<<Change("home1", "out", 5), Change("home7", "in", 6), Change("home2", "out", 93), Change("home8", "in", 96)>>,
                  <<Change("home2", "out", 6), Change("home1", "out", 5), Change("home8", "in", 6), Change("home7", "in", 5)>>,
                  <<Change("home1", "out", 220)>>}}

----
Ms(type, team, tags) == Raw(type, team, [tags |-> tags, ends |-> [known |-> TRUE, time |-> 0]])
MetricaPlays == {
    <<Ms("BALL OUT", Home, {}), Ms("SET PIECE", Away, {"THROW IN"}), Ms("PASS", Away, {"HEAD"})>>,
    <<Raw("BALL OUT", Home, [ends |-> [known |-> FALSE, time |-> 0]]), Ms("SET PIECE", Away, {"CORNER KICK"}),
      Ms("SHOT", Away, {"SAVED"})>>,
    <<Ms("RECOVERY", Home, {"INTERCEPTION"}), Ms("CHALLENGE", Home, {"DRIBBLE", "WON"}), Ms("CARRY", Home, {}),
      Ms("BALL LOST", Home, {"OFFSIDE"})>>,
    <<Ms("FAULT", Home, {}), Ms("CARD", Home, {"YELLOW"}), Ms("BALL LOST", Away, {"GOAL KICK"}), Ms("SHOT", Home, {"OFF TARGET"})>>,
    <<Ms("SHOT", Home, {}), Ms("PASS", Home, {})>>,
    <<Ms("PASS", Home, {}), Ms("OFFSIDE", Home, {})>>}
MetricaFeed(items) ==
    LET timed == Match(<<Ms("SET PIECE", Home, {"KICK OFF"})>> \o items, <<Ms("PASS", Home, {})>>, Dates)
    IN  [k \in DOMAIN timed |-> [timed[k] EXCEPT !.ends.time = timed[k].time + 1]]
MetricaMetas == {[periods |-> (1 :> Span(1000, 1100)) @@ (2 :> Span(2000, 2100))]}

----
MCInputs ==
    Sources("statsbomb", NoMeta, StatsBombPlays, StatsBombFeed)
    \cup Sources("wyscout v2", NoMeta, WyscoutV2Plays, WyscoutV2Feed) \cup WyscoutV2Broken
    \cup Sources("wyscout v3", NoMeta, WyscoutV3Plays, WyscoutV3Feed) \cup WyscoutV3Broken
    \cup Sources("opta", OptaMetas, OptaPlays, OptaFeedOf)
    \cup Sources("sportec", NoMeta, SportecPlays, SportecFeed) \cup SportecBroken
    \cup Sources("datafactory", DatafactoryMetas, DatafactoryPlays, DatafactoryFeedOf)
    \cup Sources("impect", ImpectMetas, ImpectPlays, ImpectFeed)
    \cup Sources("metrica", MetricaMetas, MetricaPlays, MetricaFeed)
    \cup Sources("metrica", MetricaMetas, MetricaPlays, LAMBDA items : Tail(MetricaFeed(items)))

\* Codes of everything, of the goals, and of passes and shots.
MCTypes == {{}, {"PASS", "SHOT"}}
MCSelectors == {<<>>, <<"SHOT", "GOAL">>}
=============================================================================
