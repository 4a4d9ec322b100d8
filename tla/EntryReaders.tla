------------------------------ MODULE EntryReaders ------------------------------
(***************************************************************************)
(* The readers of tracking data whose feed holds no whole frames: the      *)
(* frames of Hawk-Eye and Sportec are collected entry by entry, in one     *)
(* dictionary for the whole feed, and made or sampled after it.            *)
(***************************************************************************)
EXTENDS TrackingReader

----------------------------------------------------------------------------
(***************************************************************************)
(* Hawk-Eye (infra/serializers/tracking/hawkeye/deserializer.py): a ball   *)
(* feed and a player feed for every minute of play.                        *)
(*                                                                         *)
(* raw: one minute, [segment, minute (from 0, over the match), balls (the  *)
(* ticks with a ball), people (of [player, tick, x, role]), segments (id   *)
(* -> span), roster, in_sync].                                             *)
(***************************************************************************)

CONSTANT Ticks     \* frames of a minute

\* carry: parsed_frames, a function from frame id to frame.
StartHawkEye == Start(<<>>, {}, [parsed |-> <<>>])

\* The minute of the match at which a segment starts.
MinuteStart(segment) ==
    CASE segment = 1 -> 0 [] segment = 2 -> 45 [] segment = 3 -> 90
      [] segment = 4 -> 105 [] OTHER -> 120

FrameId(raw, tick) == raw.minute * Ticks + tick
TimeOf(raw, tick) == (raw.minute - MinuteStart(raw.segment)) * Ticks + tick
\* A frame for a tick, with the ball or without.
TickFrame(raw, tick, ball, players) ==
    Frame(FrameId(raw, tick), raw.segment, TimeOf(raw, tick), players, ball, Nobody, Unknown)

\* The ball makes a frame of its own, in place of what has the same id.
WithBalls(parsed, raw) ==
    Over([id \in {FrameId(raw, tick) : tick \in raw.balls} |->
              TickFrame(raw, CHOOSE tick \in raw.balls : FrameId(raw, tick) = id, TRUE, {})],
         parsed)

OnField(raw) == {p \in raw.people : p.role \in {"Outfielder", "Goalkeeper"}}
\* Players join the frame that is there, or make one without a ball.
WithPlayers(parsed, raw) ==
    [id \in DOMAIN parsed \cup {FrameId(raw, p.tick) : p \in OnField(raw)} |->
        LET here == {p \in OnField(raw) : FrameId(raw, p.tick) = id}
            tracks == {Seen(p.player, p.x) : p \in here}
        IN  IF id \in DOMAIN parsed
            THEN [parsed[id] EXCEPT
                     !.players = {s \in @ : s.player \notin PlayersOf(tracks)} \cup tracks]
            ELSE TickFrame(raw, (CHOOSE p \in here : TRUE).tick, FALSE, tracks)]

\* A value of a later feed is added, none is overwritten.
Announced(loop, raw) == [Enrol(loop, raw.roster) EXCEPT !.periods = Over(@, raw.segments)]

ReadHawkEye(loop, opt, raw) ==
    LET known  == Announced(loop, raw)
        parsed == WithPlayers(WithBalls(loop.carry.parsed, raw), raw)
        next   == Carry(known, [parsed |-> parsed])
    IN  IF raw.segment \notin DOMAIN known.periods THEN Fail(known, "unknown period")
        ELSE IF ~raw.in_sync THEN Fail(known, "not in sync")
        ELSE IF \E p \in OnField(raw) : p.player \notin known.roster
        THEN Fail(known, "unknown player")
        ELSE BreakIf(next, PlainLimit(opt, Cardinality(DOMAIN parsed)))

\* After the feeds: by frame id; the id is sampled and not a counter, the
\* limit is compared with the place among all ids.
FinishHawkEye(loop, opt) ==
    LET parsed == loop.carry.parsed
        ids    == Ascending(DOMAIN parsed)
        kept   == {i \in DOMAIN ids : Sampled(opt, ids[i])}
        Reached(i) == opt.limit # 0 /\ (i - 1) * opt.rate[1] + opt.rate[2] >= opt.limit * opt.rate[2]
        until  == {i \in kept : \A j \in kept : j < i => ~Reached(j)}
        places == Ascending(until)
    IN  OrientByFirstFrame([loop EXCEPT
            !.frames = [k \in DOMAIN places |-> parsed[ids[places[k]]]]])

----------------------------------------------------------------------------
(***************************************************************************)
(* Sportec (infra/serializers/tracking/sportec/deserializer.py).  The file *)
(* groups the frames by period and object; they are collected in one pass  *)
(* over it, or in two (the ball, then the others) for only_alive.          *)
(*                                                                         *)
(* meta: [roster, periods, officials].  raw: a frameset [period, object    *)
(* (Ball, a player or an official), rows (a sequence of [n, x, status,     *)
(* possession])]; what the loop goes over has the pass besides.            *)
(***************************************************************************)

Ball == Player("ball", 0)

\* carry.rows: <<period, frame id, object>> -> row; carry.count: rows of each
\* object.
StartSportec(meta) == Start(meta.periods, meta.roster, [rows |-> <<>>, count |-> <<>>])

\* The passes over the file, and a frameset in one of them.
Passes(opt) == IF opt.only_alive THEN <<1, 2>> ELSE <<0>>

InPass(raw, pass) ==
    [pass |-> pass, period |-> raw.period, object |-> raw.object, rows |-> raw.rows]

RowsOf(carry, object) == IF object \in DOMAIN carry.count THEN carry.count[object] ELSE 0
\* check_limit, with int(limit / sample_rate).
ObjectDone(opt, carry, object) ==
    opt.limit # 0
    /\ RowsOf(carry, object) >= (opt.limit * opt.rate[2]) \div opt.rate[1]
SkipFrameSet(opt, meta, carry, raw) ==
    \/ raw.pass = 1 /\ raw.object # Ball
    \/ raw.pass = 2 /\ raw.object = Ball
    \/ raw.pass # 1 /\ raw.object \in meta.officials
    \/ ObjectDone(opt, carry, raw.object)
\* Fault: the players are collected from all the rows.
SkipFrameOfBall(opt, carry, raw, row) ==
    opt.only_alive /\ raw.object = Ball /\ row.status # 1
\* check_only_alive.
SkipFrame(opt, carry, raw, row) ==
    opt.only_alive /\ IF raw.object = Ball THEN row.status # 1
                      ELSE <<raw.period, row.n, Ball>> \notin DOMAIN carry.rows

\* One Frame element; the set ends with the row that reaches the limit.
CollectRow(opt, raw, carry, row) ==
    LET counted == Put(carry.count, raw.object, RowsOf(carry, raw.object) + 1)
        ended   == RowsOf(carry, raw.object) > 0 /\ ObjectDone(opt, carry, raw.object)
    IN  IF ended \/ SkipFrame(opt, carry, raw, row) THEN carry
        ELSE [rows |-> Put(carry.rows, <<raw.period, row.n, raw.object>>, row),
              count |-> counted]

ReadSportec(loop, opt, meta, raw) ==
    IF SkipFrameSet(opt, meta, loop.carry, raw) THEN loop
    ELSE Carry(loop, FoldLeft(LAMBDA carry, row : CollectRow(opt, raw, carry, row),
                              loop.carry, raw.rows))

\* After the passes: the frames that have a ball; a player the metadata does
\* not list is left out.
SportecFrame(loop, period, n) ==
    LET rows == loop.carry.rows
        ball == rows[<<period, n, Ball>>]
        here == {k \in DOMAIN rows : k[1] = period /\ k[2] = n /\ k[3] \in loop.roster}
    IN  Frame(n, period, n - loop.periods[period].start,
              {Seen(k[3], rows[k].x) : k \in here}, TRUE,
              IF ball.possession = 1 THEN Home ELSE Away,
              IF ball.status = 1 THEN "alive" ELSE "dead")

\* The place among the collected frames is sampled, those without a ball
\* included.
FramesOfPeriod(loop, opt, period) ==
    LET rows == loop.carry.rows
        ids  == Ascending({k[2] : k \in {r \in DOMAIN rows : r[1] = period}})
        kept == {i \in DOMAIN ids :
                    /\ <<period, ids[i], Ball>> \in DOMAIN rows
                    /\ opt.only_alive => rows[<<period, ids[i], Ball>>].status = 1
                    /\ Sampled(opt, i - 1)}
        places == Ascending(kept)
    IN  [k \in DOMAIN places |-> SportecFrame(loop, period, ids[places[k]])]

FinishSportec(loop, opt) ==
    LET ids    == Ascending(DOMAIN loop.periods)
        frames == FoldLeft(LAMBDA all, id : all \o FramesOfPeriod(loop, opt, id), <<>>, ids)
    IN  OrientByFirstFrame([loop EXCEPT
            !.frames = IF PlainLimit(opt, Len(frames)) THEN SubSeq(frames, 1, opt.limit)
                       ELSE frames])
=================================================================================
