------------------------------ MODULE FrameReaders ------------------------------
(***************************************************************************)
(* The readers of tracking data whose feed holds one whole frame per       *)
(* entry: Second Spectrum, Signality, StatsPerform, PFF, TRACAB and the    *)
(* two formats of Metrica.                                                 *)
(***************************************************************************)
EXTENDS TrackingReader

----------------------------------------------------------------------------
(***************************************************************************)
(* Second Spectrum (infra/serializers/tracking/secondspectrum.py).         *)
(*                                                                         *)
(* meta: [phases (a sequence of [id, start, end]), roster].  raw: [id,     *)
(* period, clock, tracks, ball, live, touch].                              *)
(***************************************************************************)

Played(meta) == SelectSeq(meta.phases, LAMBDA p : p.start # 0 \/ p.end # 0)
SecondSpectrumPeriods(meta) ==
    LET played == Played(meta)
    IN  [id \in {played[k].id : k \in DOMAIN played} |->
            LET k == CHOOSE j \in DOMAIN played : played[j].id = id
            IN  Span(played[k].start, played[k].end)]
\* The roster is empty without additional metadata.
StartSecondSpectrum(meta) == Start(SecondSpectrumPeriods(meta), meta.roster, NoPeriod)

FrameFromFrameData(meta, raw) ==
    Frame(raw.id, Played(meta)[raw.period].id, raw.clock, raw.tracks, raw.ball,
          IF raw.touch = Home THEN Home ELSE Away, IF raw.live THEN "alive" ELSE "dead")

\* Fault: players that are not known stay outside the team.
ReadSecondSpectrumOnly(loop, opt, meta, raw) ==
    LET next == Emit(loop, FrameFromFrameData(meta, raw))
    IN  IF (opt.only_alive /\ ~raw.live) THEN loop
        ELSE IF ~Sampled(opt, loop.n) THEN Counted(loop)
        ELSE Counted(BreakIf(next, PlainLimit(opt, Len(next.frames))))
\* The period of a frame is an index in the list of periods that were played;
\* players that are not known are added to their team.
ReadSecondSpectrum(loop, opt, meta, raw) ==
    LET next == Emit(Enrol(loop, PlayersOf(raw.tracks)), FrameFromFrameData(meta, raw))
    IN  IF opt.only_alive /\ ~raw.live THEN loop
        ELSE IF ~Sampled(opt, loop.n) THEN Counted(loop)
        ELSE IF raw.period > Len(Played(meta)) THEN Fail(loop, "unknown period")
        ELSE Counted(BreakIf(next, PlainLimit(opt, Len(next.frames))))

FinishSecondSpectrum(loop) == OrientByFirstFrame(loop)

----------------------------------------------------------------------------
(***************************************************************************)
(* Signality (infra/serializers/tracking/signality.py): one feed per       *)
(* period, here one after the other.                                       *)
(*                                                                         *)
(* meta: [roster, whole].  raw: [idx, period, time, utc, tracks, ball,     *)
(* owner, state ("running", "paused" or "end")].                           *)
(***************************************************************************)

FeedOf(feed, id) == {i \in DOMAIN feed : feed[i].period = id}
FirstOf(feed, id) == feed[Min(FeedOf(feed, id))]
LastOf(feed, id)  == feed[Max(FeedOf(feed, id))]
\* __get_periods: the utc time of the kick-off and of the last frame.
SignalityPeriods(feed) ==
    [id \in {feed[i].period : i \in DOMAIN feed} |->
        Span(FirstOf(feed, id).utc - FirstOf(feed, id).time, LastOf(feed, id).utc)]
NotEnded(feed) == \E i \in DOMAIN feed : LastOf(feed, feed[i].period).state # "end"

StartSignality(meta) ==
    LET loop == Start(SignalityPeriods(meta.whole), meta.roster, [period |-> NoPeriod])
    IN  IF NotEnded(meta.whole) THEN Fail(loop, "not ended") ELSE loop

\* The indices of the second period go on from those of the first.
FrameIdOffset(meta, period) ==
    IF period = 1 THEN 0 ELSE LastOf(meta.whole, 1).idx + 1

\* _get_frame_data.
SignalityFrame(loop, meta, raw) ==
    Frame(FrameIdOffset(meta, raw.period) + raw.idx, raw.period, raw.time,
          KnownTracks(raw.tracks, loop.roster), raw.ball, raw.owner,
          IF raw.state = "running" THEN "alive" ELSE "dead")

\* _load_frames: the counter starts again in each period, and the limit is
\* compared with it.
ReadSignality(loop, opt, meta, raw) ==
    LET here  == IF raw.period = loop.carry.period THEN loop
                 ELSE [Carry(loop, [period |-> raw.period]) EXCEPT !.n = 0]
        frame == SignalityFrame(here, meta, raw)
        next  == IF Sampled(opt, here.n) /\ frame.players # {} /\ frame.time > 0
                 THEN Emit(here, frame) ELSE here
    IN  IF raw.period > 2 THEN Fail(loop, "unknown period")
        ELSE BreakIf(Counted(next), PlainLimit(opt, next.n + 1))

FinishSignality(loop) == OrientByFirstPeriod(loop)

----------------------------------------------------------------------------
(***************************************************************************)
(* StatsPerform MA25 (infra/serializers/tracking/statsperform.py).         *)
(*                                                                         *)
(* meta: [roster, periods].  raw: [id, period, time, in_play, tracks (of   *)
(* [side, number, x]), ball].                                              *)
(***************************************************************************)

StartStatsPerform(meta) == Start(meta.periods, meta.roster, NoPeriod)

\* 0 and 1 are field players, 3 and 4 goalkeepers, 2 referees.
SideOf(side) == IF side \in {0, 3} THEN Home ELSE Away
SidesUnknown(raw) == \E t \in raw.tracks : t.side \notin 0..4
SideTracks(raw) ==
    {Seen(Player(SideOf(t.side), t.number), t.x) : t \in {u \in raw.tracks : u.side # 2}}

StatsPerformFrame(raw) ==
    Frame(raw.id, raw.period, raw.time, SideTracks(raw), raw.ball, Nobody,
          IF raw.in_play THEN "alive" ELSE "dead")

\* The period of a line is looked up before the sampling; a frame is dropped
\* after it was made, with the players it added.
ReadStatsPerform(loop, opt, raw) ==
    LET seen == Enrol(loop, PlayersOf(SideTracks(raw)))
        drop == SideTracks(raw) = {} \/ (opt.only_alive /\ ~raw.in_play)
        next == Emit(seen, StatsPerformFrame(raw))
    IN  IF raw.period \notin DOMAIN loop.periods THEN Fail(loop, "unknown period")
        ELSE IF ~Sampled(opt, loop.n) THEN Counted(loop)
        ELSE IF SidesUnknown(raw) THEN Fail(loop, "unknown side")
        ELSE IF drop THEN Counted(seen)
        ELSE Counted(BreakIf(next, PlainLimit(opt, Len(next.frames))))

FinishStatsPerform(loop) == OrientByFirstFrame(loop)

----------------------------------------------------------------------------
(***************************************************************************)
(* PFF (infra/serializers/tracking/pff.py).  Whether the ball is in play   *)
(* and who owns it is told by the events on some frames, and is carried    *)
(* from frame to frame by the reader.                                      *)
(*                                                                         *)
(* meta: [roster, whole].  raw: [id, period (NoPeriod for null), elapsed,  *)
(* event ("none" or a GameEventType), home_ball ("null", Home or Away),    *)
(* tracks (x = 0 without coordinates), ball].                              *)
(***************************************************************************)

BallOut == {"out", "end"}
BallIn  == {"kick-off", "on-the-ball"}

\* __get_periods.
PffPeriods(feed) ==
    [id \in {feed[i].period : i \in DOMAIN feed} \ {NoPeriod} |->
        Span(FirstOf(feed, id).id, LastOf(feed, id).id)]

\* The frames of extra time are collected apart.
StartPff(meta) ==
    Start(PffPeriods(meta.whole), meta.roster,
          [state |-> "dead", owner |-> Nobody, extra |-> <<>>, made |-> 0])

\* The effect of an event on the ball, before anything is skipped.
AfterEvent(ball, raw) ==
    [ball EXCEPT
        !.state = CASE raw.event \in BallOut -> "dead"
                    [] raw.event \in BallIn  -> "alive"
                    [] OTHER                 -> @,
        !.owner = IF raw.event # "none" /\ raw.home_ball # "null" THEN raw.home_ball ELSE @]

\* _get_frame_data: players the roster does not know are ignored.
PffFrame(loop, raw) ==
    LET seen == {s \in KnownTracks(raw.tracks, loop.roster) : s.x # 0}
    IN  Frame(raw.id, raw.period, raw.elapsed, seen, raw.ball, loop.carry.owner,
              loop.carry.state)

\* Periods other than 1 to 4 count for the limit but are in neither list.
Collect(loop, frame) ==
    LET made == [loop EXCEPT !.carry.made = @ + 1]
    IN  CASE frame.period \in {1, 2} -> Emit(made, frame)
          [] frame.period \in {3, 4} -> [made EXCEPT !.carry.extra = Append(@, frame)]
          [] OTHER                   -> made

\* Fault: only the frames that are delivered are listened to.
ReadPffDelivered(loop, opt, raw) ==
    LET heard == Carry(loop, AfterEvent(loop.carry, raw))
        next  == Collect(heard, PffFrame(heard, raw))
    IN  IF raw.period = NoPeriod \/ ~Sampled(opt, loop.n) THEN Counted(loop)
        ELSE IF opt.only_alive /\ heard.carry.state = "dead" THEN heard
        ELSE Counted(BreakIf(next, PlainLimit(opt, next.carry.made)))
ReadPff(loop, opt, raw) ==
    LET heard == Carry(loop, AfterEvent(loop.carry, raw))
        next  == Collect(heard, PffFrame(heard, raw))
    IN  IF opt.only_alive /\ heard.carry.state = "dead" THEN heard
        ELSE IF raw.period = NoPeriod \/ ~Sampled(opt, loop.n) THEN Counted(heard)
        ELSE Counted(BreakIf(next, PlainLimit(opt, next.carry.made)))

Mirrored(frame) == [frame EXCEPT !.players = {Seen(s.player, 0 - s.x) : s \in @}]
\* Fault: extra time is put before the rest.
FinishPffExtraFirst(loop) ==
    IF FramesIn(loop.frames, 1) = <<>> THEN Fail(loop, "no first frame")
    ELSE [OrientByFirstFrame(loop) EXCEPT !.frames = loop.carry.extra \o @]
\* After the loop: extra time is turned round when the home team starts it in
\* the other direction than the match, and put behind the rest.
FinishPff(loop) ==
    LET extra == loop.carry.extra
        start == FramesIn(loop.frames, 1)
        again == FramesIn(extra, 3)
        turn  == AttackingDirection(start[1]) # AttackingDirection(again[1])
    IN  IF start = <<>> \/ (extra # <<>> /\ again = <<>>) THEN Fail(loop, "no first frame")
        ELSE [OrientByFirstFrame(loop) EXCEPT
                 !.frames = @ \o [k \in DOMAIN extra |->
                                     IF turn THEN Mirrored(extra[k]) ELSE extra[k]]]

----------------------------------------------------------------------------
(***************************************************************************)
(* TRACAB: three formats of metadata and two of frames                     *)
(* (infra/serializers/tracking/tracab).                                    *)
(*                                                                         *)
(* meta: [format, frames ("dat" or "json"), phases (id -> <<start, end>>,  *)
(* <<0, 0>> when not played), home_gk_left ("true", "false", "absent"),    *)
(* roster].  raw: [id, tracks (of [team, number, x]), owner, status].      *)
(***************************************************************************)

\* The JSON parser reads phases 1 to 4, the flat XML parser 1 to 5, the
\* hierarchical one what the file lists.
PhaseIds(meta) ==
    DOMAIN meta.phases \cap
        CASE meta.format = "json"         -> 1..4
          [] meta.format = "flat"         -> 1..5
          [] meta.format = "hierarchical" -> DOMAIN meta.phases
\* create_period: a phase that starts and ends at frame 0 was not played.
TracabPeriods(meta) ==
    [id \in {p \in PhaseIds(meta) : meta.phases[p] # <<0, 0>>} |->
        Span(meta.phases[id][1], meta.phases[id][2])]

\* The flat XML parser looks for an attribute where the file has an element.
TracabOrientation(meta, frames) ==
    CASE meta.format # "json" \/ meta.home_gk_left = "absent" ->
             FirstFrameOrientation(frames)
      [] meta.format = "json" /\ meta.home_gk_left = "true"   -> "home_away"
      [] meta.format = "json" /\ meta.home_gk_left = "false"  -> "away_home"

StartTracab(meta) == Start(TracabPeriods(meta), meta.roster, NoPeriod)

GroundOf(team) == IF team = 1 THEN Home ELSE Away
OnPitch(raw) == {track \in raw.tracks : track.team \in {0, 1}}
Tracked(raw) ==
    {Seen(Player(GroundOf(t.team), t.number), t.x) : t \in OnPitch(raw)}
UnknownTeam(raw) == \E t \in raw.tracks : t.team \notin {-1, 0, 1, 3, 4}

OwnerOf(raw) == CASE raw.owner = "H" -> Home [] raw.owner = "A" -> Away

\* _parse_frame.  Only the DAT parser makes the players it does not know.
ParseTracab(loop, meta, raw, period) ==
    LET tracks  == Tracked(raw)
        unknown == PlayersOf(tracks) \ loop.roster
        time    == raw.id - loop.periods[period].start
    IN  IF UnknownTeam(raw) \/ (meta.frames = "json" /\ unknown # {})
        THEN Fail(loop, "unknown player")
        ELSE IF raw.owner \notin {"H", "A"} \/ raw.status \notin {"alive", "dead"}
        THEN Fail(loop, "unknown ball")
        ELSE Emit(Enrol(loop, unknown),
                  Frame(raw.id, period, time, tracks, TRUE, OwnerOf(raw), raw.status))

\* One period that contains the frame.  Having parsed the frame for one period
\* the JSON parser has overwritten it, and fails when it parses it again.
TracabInPeriod(loop, opt, meta, raw, period) ==
    LET parsed == \E k \in DOMAIN loop.frames : loop.frames[k].id = raw.id
        next   == IF meta.frames = "json" /\ parsed THEN Fail(loop, "parsed twice")
                  ELSE ParseTracab(loop, meta, raw, period)
    IN  IF Ended(loop) THEN loop
        ELSE IF ~Sampled(opt, loop.n) THEN Counted(loop)
        ELSE IF next.raised # NotRaised THEN next
        ELSE Counted(BreakIf(next, ScaledLimit(opt, Len(next.frames))))

NotAlive(meta, raw) ==
    IF meta.frames = "json" THEN raw.status = "dead" ELSE raw.status # "alive"
\* extract_frames: every period that contains the frame yields it; a frame in
\* none is not counted.
ReadTracab(loop, opt, meta, raw) ==
    LET within == {p \in DOMAIN loop.periods : Covers(loop.periods[p], raw.id)}
    IN  IF opt.only_alive /\ NotAlive(meta, raw) THEN loop
        ELSE FoldLeft(LAMBDA l, p : TracabInPeriod(l, opt, meta, raw, p),
                      loop, Ascending(within))

FinishTracab(loop, meta) == Oriented(loop, TracabOrientation(meta, loop.frames))

----------------------------------------------------------------------------
(***************************************************************************)
(* The two formats of Metrica tracking: CSV, a file for each team          *)
(* (infra/serializers/tracking/metrica_csv.py), and EPTS                   *)
(* (infra/serializers/tracking/metrica_epts).                              *)
(*                                                                         *)
(* CSV raw: [home, away], the lines at one place of the two files, each    *)
(* [period, id, tracks, ball] or "absent" past the end of the file.  EPTS  *)
(* meta: [roster, periods, specs (a sequence of end frames), fits (whether *)
(* a line has all that an earlier format looks for)]; raw: [id, spec (the  *)
(* format of the line), tracks].                                           *)
(***************************************************************************)

Absent == [period |-> NoPeriod]

StartMetricaCsv(meta) == Start(<<>>, meta.roster, NoPeriod)

\* Fault: the end of a period is not moved.
PeriodsAfterOpening(periods, line) ==
    IF line.period \in DOMAIN periods THEN periods
    ELSE Put(periods, line.period, Span(line.id - 1, line.id))
\* A line opens its period or moves the end of it.
PeriodsAfter(periods, line) ==
    Put(periods, line.period,
        Span(IF line.period \in DOMAIN periods THEN periods[line.period].start
             ELSE line.id - 1, line.id))

\* __validate_partials.
Mismatch(raw) == raw.home.id # raw.away.id \/ raw.home.ball # raw.away.ball

CsvFrame(loop, raw) ==
    Frame(raw.home.id, raw.home.period,
          raw.home.id - loop.periods[raw.home.period].start,
          raw.home.tracks \cup raw.away.tracks, raw.home.ball, Nobody, Unknown)

\* The home file is read first; zip stops with the file that ends first.  The
\* number of frames is incremented before one is added to it.
ReadMetricaCsv(loop, opt, raw) ==
    LET opened == [loop EXCEPT !.periods = PeriodsAfter(@, raw.home)]
        next   == Emit(opened, CsvFrame(opened, raw))
    IN  IF raw.home = Absent THEN Break(loop)
        ELSE IF ~Sampled(opt, loop.n) THEN Counted(opened)
        ELSE IF raw.away = Absent THEN Break(opened)
        ELSE IF Mismatch(raw) THEN Fail(opened, "mismatch")
        ELSE Counted(BreakIf(next, ScaledLimit(opt, Len(next.frames) + 1)))

\* The teams are taken from the first frame.
FinishMetricaCsv(loop) ==
    IF loop.frames = <<>> THEN Fail(loop, "no frames") ELSE OrientByFirstFrame(loop)

----
\* carry: the format in use, an index of the specifications.
StartMetricaEpts(meta) == Start(meta.periods, meta.roster, 1)

\* The first period, in order, that contains the frame.
PeriodAt(periods, t) ==
    LET within == {id \in DOMAIN periods : Covers(periods[id], t)}
    IN  IF within = {} THEN NoPeriod
        ELSE CHOOSE id \in within : \A other \in within : id <= other

EptsFrame(loop, raw) ==
    LET period == PeriodAt(loop.periods, raw.id)
    IN  Frame(raw.id, period,
              IF period = NoPeriod THEN raw.id ELSE raw.id - loop.periods[period].start,
              raw.tracks, TRUE, Nobody, Unknown)

\* read_raw_data: the format changes at its end frame or behind it, with the
\* first line that is sampled there; when the line is behind it, it is not
\* delivered, and is searched with the format before.
ReadMetricaEpts(loop, opt, meta, raw) ==
    LET end  == meta.specs[loop.carry]
        next == IF raw.id <= end THEN Emit(loop, EptsFrame(loop, raw)) ELSE loop
    IN  IF ~Sampled(opt, loop.n) THEN Counted(loop)
        ELSE IF raw.spec # loop.carry /\ ~meta.fits THEN Fail(loop, "no match")
        ELSE IF raw.id <= end /\ PlainLimit(opt, Len(next.frames)) THEN Break(next)
        ELSE IF raw.id < end THEN Counted(next)
        ELSE IF loop.carry = Len(meta.specs) THEN Break(next)
        ELSE Counted(Carry(next, loop.carry + 1))

\* The orientation is read from the metadata.
FinishMetricaEpts(loop, meta) == Oriented(loop, meta.orientation)

==============================================================================
