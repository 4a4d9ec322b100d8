------------------------------ MODULE MCTracking ------------------------------
(***************************************************************************)
(* Small feeds for every reader, each read with every choice of options.   *)
(* A feed is consistent: ids, clocks and periods are of one match.         *)
(***************************************************************************)
EXTENDS Tracking

AllOptions == {Options(limit, rate, alive) :
                  limit \in 0..2, rate \in {<<1, 1>>, <<1, 2>>, <<2, 3>>}, alive \in BOOLEAN}

H1 == Player(Home, 1)
A1 == Player(Away, 1)
A7 == Player(Away, 7)     \* on the pitch, on no team sheet
Sheet == {H1, A1}
\* The home team is at x, with or without the player nobody expects.
On(x) == {Seen(H1, x), Seen(A1, -x)}
OnWithUnknown(x) == On(x) \cup {Seen(A7, -x)}
Dead(alive, i) == i \notin alive

Given(reader, metas, feeds) ==
    {[reader |-> reader, meta |-> meta, feed |-> feed, opt |-> opt] :
        meta \in metas, feed \in feeds, opt \in AllOptions}
\* For the readers that find the periods in the frames.
Whole(reader, metas, feeds) ==
    {[reader |-> reader, meta |-> [whole |-> feed] @@ meta, feed |-> feed, opt |-> opt] :
        meta \in metas, feed \in feeds, opt \in AllOptions}

\* Four frames of play in two periods, with a frame between them.
Gap   == 1 :> <<1, 2>> @@ 2 :> <<4, 5>> @@ 3 :> <<0, 0>>
\* The periods share a frame.
Touch == 1 :> <<1, 3>> @@ 2 :> <<3, 5>>
TracabTracks(x, stranger) ==
    {[team |-> 1, number |-> 1, x |-> x], [team |-> 0, number |-> stranger, x |-> -x],
     [team |-> 3, number |-> 1, x |-> 0]}
TracabFeeds ==
    {[i \in 1..5 |-> [id |-> i, tracks |-> TracabTracks(x, IF i = 2 THEN stranger ELSE 1),
                      owner |-> IF i = 1 THEN "A" ELSE "H",
                      status |-> IF Dead(alive, i) THEN "dead" ELSE "alive"]] :
        x \in {-1, 1}, stranger \in {1, 7}, alive \in {{}, {1, 2, 5}, {2, 3, 4}}}
TracabMetas ==
    {[format |-> format, frames |-> frames, phases |-> phases, home_gk_left |-> left, roster |-> Sheet] :
        format \in {"json", "flat"}, frames \in {"dat", "json"}, phases \in {Gap, Touch},
        left \in {"true", "absent"}}
    \cup {[format |-> "hierarchical", frames |-> "dat", phases |-> Gap,
           home_gk_left |-> "false", roster |-> Sheet]}

Rec(what, player, x) == [what |-> what, player |-> player, x |-> x]
Anonymous(ground) == Player(ground, 0)
\* A frame of no period, then two of each half.  An excerpt of a match has its
\* second half from later on: its clock is past what the two frames last.
SkillCornerFeeds ==
    {<<[id |-> 0, period |-> NoPeriod, clock |-> -1, records |-> <<>>, owner |-> Nobody]>>
     \o [i \in 1..4 |->
          [id |-> i, period |-> IF i <= 2 THEN 1 ELSE 2,
           clock |-> IF i <= 2 THEN i - 1 ELSE Half + later + i - 3,
           records |-> IF i = empty THEN <<>>
                       ELSE <<Rec("player", H1, 1), Rec("player", A1, IF i = 3 THEN 0 ELSE -1)>>
                            \o (IF i = odd THEN <<Rec(what, Anonymous(Away), -1)>> ELSE <<>>)
                            \o <<Rec("ball", H1, 0)>>,
           owner |-> IF Dead(alive, i) THEN Nobody ELSE Home]] :
        empty \in {0, 1, 2}, odd \in {0, 3}, what \in {"anonymous", "stray", "referee"},
        alive \in {{1, 2, 3, 4}, {2, 4}}, later \in {0, 2}}
SkillCornerMetas ==
    {[version |-> version, include_empty |-> include, roster |-> Sheet] :
        version \in {"V2", "V3"}, include \in BOOLEAN}

SecondSpectrumFeeds ==
    {[i \in 1..5 |->
        [id |-> 9 + i, period |-> IF i <= 3 THEN 1 ELSE 2, clock |-> IF i <= 3 THEN i - 1 ELSE i - 4,
         tracks |-> IF i = stranger THEN OnWithUnknown(x) ELSE On(x), ball |-> i # 2,
         live |-> ~Dead(alive, i), touch |-> IF i = 3 THEN Away ELSE Home]] :
        x \in {-1, 1}, stranger \in {0, 1, 4}, alive \in {{1, 2, 3, 4, 5}, {2, 5}}}
SecondSpectrumMetas ==
    {[phases |-> <<[id |-> 1, start |-> 10, end |-> 12], [id |-> 2, start |-> 13, end |-> last],
                   [id |-> 3, start |-> 0, end |-> 0]>>, roster |-> roster] :
        last \in {14, 15}, roster \in {Sheet, {}}}

\* Two frames of each half and of the first half of extra time, in which the
\* home team may start on the other side; or an excerpt, as of SkillCorner.
PffPeriod(i) == <<1, 1, NoPeriod, 2, 2, 3, 3, 5>>[i]
PffElapsed(i) == <<0, 1, 0, 0, 1, 0, 1, 0>>[i]
PffSide(i, extra) == IF i <= 2 THEN 1 ELSE IF i <= 5 THEN -1 ELSE extra
PffFeeds ==
    {[i \in 1..8 |->
        [id |-> i, period |-> PffPeriod(i),
         elapsed |-> PffElapsed(i) + IF PffPeriod(i) = 2 THEN later ELSE 0,
         event |-> CASE i = 1 -> "kick-off" [] i = out -> "out" [] i = in -> "on-the-ball"
                     [] i = 4 -> "substitution" [] OTHER -> "none",
         home_ball |-> CASE i = in -> Away [] i = 4 -> "null" [] OTHER -> Home,
         tracks |-> OnWithUnknown(PffSide(i, extra)), ball |-> i # 5]] :
        out \in {2, 3, 5}, in \in {3, 6}, extra \in {-1, 1}, later \in {0, 2}}
PffMetas == {[roster |-> Sheet]}

SignalityFeeds ==
    {[i \in 1..6 |->
        LET first == i <= 3
            k     == IF first THEN i - 1 ELSE i - 4
        IN  [idx |-> k, period |-> IF first THEN 1 ELSE 2, time |-> k,
             utc |-> IF first THEN 100 + k ELSE 200 + k,
             tracks |-> IF i \in nobody THEN {} ELSE OnWithUnknown(x), ball |-> TRUE,
             owner |-> IF i = 2 THEN Nobody ELSE Home,
             state |-> IF i \in {3, last} THEN "end" ELSE IF i = 2 THEN "paused" ELSE "running"]] :
        x \in {-1, 1}, nobody \in SUBSET {2, 3, 5}, last \in {5, 6}}
SignalityMetas == {[roster |-> Sheet]}

CsvLine(i, ground, x) ==
    [period |-> IF i <= 3 THEN 1 ELSE 2, id |-> i,
     tracks |-> {s \in On(x) : s.player.ground = ground}, ball |-> i # 2]
MetricaCsvFeeds ==
    {[i \in 1..5 |->
        [home |-> IF i > home THEN Absent ELSE CsvLine(i, Home, x),
         away |-> IF i > away THEN Absent
                  ELSE IF i = mixed THEN [CsvLine(i, Away, x) EXCEPT !.id = 9]
                  ELSE CsvLine(i, Away, x)]] :
        x \in {-1, 1}, home \in {2, 5}, away \in {0, 4, 5}, mixed \in {0, 3}}
MetricaCsvMetas == {[roster |-> Sheet]}

EptsFeeds ==
    {[i \in 1..5 |-> [id |-> i, spec |-> IF i <= switch THEN 1 ELSE 2,
                      tracks |-> IF i = 2 THEN {} ELSE On(x)]] :
        x \in {-1, 1}, switch \in {2, 3, 5}}
EptsMetas ==
    {[roster |-> Sheet, periods |-> 1 :> Span(1, 2) @@ 2 :> Span(second, 5), specs |-> specs,
      fits |-> fits, orientation |-> orientation] :
        second \in {2, 4}, specs \in {<<5>>, <<4>>, <<2, 5>>, <<3, 5>>}, fits \in BOOLEAN,
        orientation \in {"home_away", "not_set"}}
\* The lines change their format where the metadata say, whether the last line
\* of a format is sampled or not.
EptsInputs ==
    {source \in Given("metrica epts", EptsMetas, EptsFeeds) :
        \A i \in 1..5 : source.feed[i].spec =
            IF Len(source.meta.specs) = 2 /\ i > source.meta.specs[1] THEN 2 ELSE 1}

StatsPerformFeeds ==
    {[i \in 1..5 |->
        [id |-> i, period |-> IF i <= 3 THEN 1 ELSE 2, time |-> IF i <= 3 THEN i - 1 ELSE i - 4,
         in_play |-> ~Dead(alive, i),
         tracks |-> IF i = nobody THEN {[side |-> 2, number |-> 1, x |-> 1]}
                    ELSE {[side |-> 3, number |-> 1, x |-> x], [side |-> 4, number |-> 1, x |-> -x],
                          [side |-> IF i = odd THEN 5 ELSE 1, number |-> i, x |-> -x]},
         ball |-> i # 4]] :
        x \in {-1, 1}, alive \in {{1, 2, 3, 4, 5}, {2, 5}}, nobody \in {0, 1, 5}, odd \in {0, 5}}
StatsPerformMetas ==
    {[roster |-> roster, periods |-> 1 :> Span(0, 2) @@ 2 :> Span(10, 12)] : roster \in {{}, Sheet}}

Body(player, tick, x, role) == [player |-> player, tick |-> tick, x |-> x, role |-> role]
HawkEyeMinute(segment, minute, balls, lost, x, in_sync) ==
    [segment |-> segment, minute |-> minute, balls |-> balls,
     people |-> {Body(H1, tick, x, "Goalkeeper") : tick \in 0..(Ticks - 1)}
                \cup {Body(A1, tick, -x, "Outfielder") : tick \in (0..(Ticks - 1)) \ lost}
                \cup {Body(A7, 0, 1, "Referee")},
     segments |-> IF segment = 1 THEN 1 :> Span(0, 2 * Ticks)
                  ELSE 1 :> Span(0, 9) @@ 2 :> Span(0, 2 * Ticks),
     roster |-> IF segment = 1 THEN {H1, A1} ELSE {H1}, in_sync |-> in_sync]
\* The files of the minutes may come in any order.
HawkEyeFeeds ==
    {LET minutes == <<HawkEyeMinute(1, 0, balls, lost, x, TRUE), HawkEyeMinute(1, 1, {1}, {}, x, TRUE),
                      HawkEyeMinute(2, 45, balls, lost, -x, in_sync)>>
     IN  [i \in 1..3 |-> minutes[order[i]]] :
        balls \in SUBSET (0..(Ticks - 1)), lost \in SUBSET {0}, x \in {-1, 1}, in_sync \in BOOLEAN,
        order \in {<<1, 2, 3>>, <<2, 1, 3>>, <<3, 1, 2>>}}
HawkEyeMetas == {[roster |-> {}]}

\* The ball before the players or behind them, from the first frame or from a
\* later one; a player who comes on; a referee.
Row(n, x, alive) ==
    [n |-> n, x |-> x, status |-> IF n \in alive THEN 1 ELSE 0, possession |-> 1 + (n % 2)]
Rows(n, m, x, alive) == [k \in 1..(m - n + 1) |-> Row(n + k - 1, x, alive)]
FrameSet(period, object, rows) == [period |-> period, object |-> object, rows |-> rows]
Referee == Player("referee", 1)
SportecFeeds ==
    {LET ball    == <<FrameSet(1, Ball, Rows(kickoff, 3, 0, alive))>>
         players == <<FrameSet(1, H1, Rows(1, 3, x, alive)), FrameSet(1, A1, Rows(on, 3, -x, alive)),
                      FrameSet(1, Referee, Rows(1, 3, 0, alive))>>
     IN  (IF last THEN players \o ball ELSE ball \o players)
         \o <<FrameSet(2, Ball, Rows(5, 6, 0, alive)), FrameSet(2, A7, Rows(5, 6, x, alive)),
              FrameSet(2, H1, Rows(5, 6, -x, alive))>> :
        x \in {-1, 1}, on \in {1, 2}, kickoff \in {1, 2}, last \in BOOLEAN,
        alive \in {{}, {1, 2, 3, 5, 6}, {2, 3, 6}}}
SportecMetas ==
    {[roster |-> Sheet, periods |-> 1 :> Span(1, 3) @@ 2 :> Span(5, 6), officials |-> {Referee}]}

MCInputs ==
    Given("tracab", TracabMetas, TracabFeeds)
    \cup Whole("skillcorner", SkillCornerMetas, SkillCornerFeeds)
    \cup Given("second spectrum", SecondSpectrumMetas, SecondSpectrumFeeds)
    \cup Whole("pff", PffMetas, PffFeeds)
    \cup Whole("signality", SignalityMetas, SignalityFeeds)
    \cup Given("metrica csv", MetricaCsvMetas, MetricaCsvFeeds)
    \cup EptsInputs
    \cup Given("statsperform", StatsPerformMetas, StatsPerformFeeds)
    \cup Given("hawkeye", HawkEyeMetas, HawkEyeFeeds)
    \cup Given("sportec", SportecMetas, SportecFeeds)
=============================================================================
