-------------------------- MODULE SkillCornerReader --------------------------
(***************************************************************************)
(* SkillCorner, data versions V2 and V3                                    *)
(* (infra/serializers/tracking/skillcorner.py).                            *)
(*                                                                         *)
(* meta: [version, include_empty, roster, whole (the feed: the periods are *)
(* found in it)].  raw: [id, period (NoPeriod for null), clock (-1 for     *)
(* null), records (a sequence of [what, player, x]), owner].  `what` is    *)
(* "ball", "referee", "player" (known by its object), "anonymous" (known   *)
(* by a track and a group) or "stray" (an object with a group of its own,  *)
(* or one that is nobody's).                                               *)
(***************************************************************************)
EXTENDS TrackingReader

CONSTANT Half     \* frames of half a match, 45 minutes

Timed(feed, period) == {i \in DOMAIN feed : feed[i].period = period /\ feed[i].clock # -1}
\* __get_periods: from the first to the last frame that has a time.
SkillCornerPeriods(feed) ==
    LET ids == {feed[i].period : i \in DOMAIN feed} \ {NoPeriod}
    IN  [id \in {p \in ids : Timed(feed, p) # {}} |->
            Span(feed[Min(Timed(feed, id))].id, feed[Max(Timed(feed, id))].id)]

StartSkillCorner(meta) == Start(SkillCornerPeriods(meta.whole), meta.roster, NoPeriod)

\* _calc_frame_time: the clock runs on from 0, 45, 90, 105, 120 minutes.
ClockStart(period) ==
    CASE period = 1 -> 0
      [] period = 2 -> Half
      [] period = 3 -> 2 * Half
      [] period = 4 -> 2 * Half + (Half \div 3)
      [] period = 5 -> 2 * Half + 2 * (Half \div 3)

RecordKinds == {"ball", "referee", "player", "anonymous", "stray"}
\* One record of a V2 frame.  Nothing assigns `player` for a stray object: it
\* is the player of the record before, or an unbound variable.
ReadRecord(seen, record) ==
    CASE record.what \in {"ball", "referee"} -> seen
      [] record.what \in {"player", "anonymous"} ->
             [seen EXCEPT !.last = <<record.player>>, !.at = Put(@, record.player, record.x)]
      [] record.what = "stray" ->
             IF seen.last = <<>> THEN [seen EXCEPT !.ok = FALSE]
             ELSE [seen EXCEPT !.at = Put(@, seen.last[1], record.x)]

HasBall(records) == \E k \in DOMAIN records : records[k].what = "ball"
TracksOf(at) == {Seen(player, at[player]) : player \in DOMAIN at}

\* _get_frame_data_v2: [ok, tracks].
FrameDataV2(loop, raw) ==
    LET seen == FoldLeft(ReadRecord, [ok |-> TRUE, last |-> <<>>, at |-> <<>>], raw.records)
    IN  [ok |-> seen.ok, tracks |-> TracksOf(seen.at)]
\* _get_frame_data_v3: players are looked up in the teams, those without
\* coordinates (x = 0) are left out.
FrameDataV3(loop, raw) ==
    LET players == {raw.records[k] : k \in {j \in DOMAIN raw.records : raw.records[j].what # "ball"}}
    IN  [ok     |-> \A r \in players : r.player \in loop.roster,
         tracks |-> {Seen(r.player, r.x) : r \in {q \in players : q.x # 0}}]

IsEmpty(meta, raw) ==
    IF meta.version = "V2" THEN raw.records = <<>>
    ELSE \A k \in DOMAIN raw.records : raw.records[k].what = "ball"
StateOf(raw) == IF raw.owner = Nobody THEN "dead" ELSE "alive"

GetFrameData(loop, meta, raw) ==
    LET data == IF meta.version = "V2" THEN FrameDataV2(loop, raw) ELSE FrameDataV3(loop, raw)
    IN  IF raw.clock = -1 \/ raw.period \notin 1..5 THEN Fail(loop, "no time")
        ELSE IF ~data.ok \/ raw.period \notin DOMAIN loop.periods
        THEN Fail(loop, "unknown player")
        ELSE Emit(loop, Frame(raw.id, raw.period, raw.clock - ClockStart(raw.period),
                              data.tracks, HasBall(raw.records), raw.owner, StateOf(raw)))

\* Frames of no period are not counted; the limit is compared with one frame
\* more than there are.
ReadSkillCorner(loop, opt, meta, raw) ==
    LET dropped == \/ ~Sampled(opt, loop.n)
                   \/ IsEmpty(meta, raw) /\ ~meta.include_empty
                   \/ opt.only_alive /\ StateOf(raw) = "dead"
        next    == GetFrameData(loop, meta, raw)
    IN  IF raw.period = NoPeriod THEN loop
        ELSE IF dropped THEN Counted(loop)
        ELSE IF next.raised # NotRaised THEN next
        ELSE Counted(BreakIf(next, ScaledLimit(opt, Len(next.frames) + 1)))

FinishSkillCorner(loop) == OrientByFirstPeriod(loop)
=============================================================================
