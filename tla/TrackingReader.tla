---------------------------- MODULE TrackingReader ----------------------------
(***************************************************************************)
(* What the readers of tracking data share                                 *)
(* (infra/serializers/tracking/deserializer.py, domain/services).          *)
(*                                                                         *)
(* A reader takes raw items from a feed, one at a time, and its loop is a  *)
(* record: the counter the sampling looks at, the periods it knows, the    *)
(* frames made so far, the players of the two teams, whatever the reader   *)
(* carries from one item to the next, and how the loop ended.  Each reader *)
(* is a module with an operator Read<Name>(loop, opt, meta, raw) for one   *)
(* turn of the loop and one for the code after it.                         *)
(*                                                                         *)
(* Time is counted in frames of the frame rate.  A player is               *)
(* [ground, number]; of coordinates only the side of the pitch matters:    *)
(* x is -1 or 1.                                                           *)
(***************************************************************************)
EXTENDS Integers, Sequences, FiniteSets, SequencesExt, TLC

Home == "home"
Away == "away"
Nobody == "nobody"     \* no ball owning team
Unknown == "unknown"   \* no ball state
NotRaised == "-"
NoPeriod == 0

\* TrackingDataDeserializer.__init__: limit 0 is no limit, and sample_rate is
\* the fraction rate[1] / rate[2].
Options(limit, rate, only_alive) ==
    [limit |-> limit, rate |-> rate, only_alive |-> only_alive]
NoOptions == Options(0, <<1, 1>>, FALSE)

\* n % (1 / sample_rate) == 0, for any fraction.
Sampled(opt, n) == (n * opt.rate[1]) % opt.rate[2] = 0
\* limit and count >= limit / sample_rate.
ScaledLimit(opt, count) ==
    opt.limit # 0 /\ count * opt.rate[1] >= opt.limit * opt.rate[2]
PlainLimit(opt, count) == opt.limit # 0 /\ count >= opt.limit

Span(start, end) == [start |-> start, end |-> end]
Covers(span, t) == span.start <= t /\ t <= span.end
Duration(span) == span.end - span.start

Player(ground, number) == [ground |-> ground, number |-> number]
Seen(player, x) == [player |-> player, x |-> x]
PlayersOf(tracks) == {seen.player : seen \in tracks}
KnownTracks(tracks, roster) == {seen \in tracks : seen.player \in roster}
\* create_frame; `period` is the id of the period.
Frame(id, period, time, players, ball, owner, state) ==
    [id |-> id, period |-> period, time |-> time, players |-> players,
     ball |-> ball, owner |-> owner, state |-> state]

\* d[key] = value, and d followed by what another dictionary has besides.
Put(d, key, value) == [k \in DOMAIN d \cup {key} |-> IF k = key THEN value ELSE d[k]]
Over(d, other) ==
    [k \in DOMAIN d \cup DOMAIN other |-> IF k \in DOMAIN d THEN d[k] ELSE other[k]]

\* sorted(S): the numbers of a finite set, the least first.
Ascending(S) ==
    [k \in 1..Cardinality(S) |-> CHOOSE x \in S : Cardinality({y \in S : y < x}) = k - 1]

Start(periods, roster, carry) ==
    [n |-> 0, frames |-> <<>>, periods |-> periods, roster |-> roster,
     carry |-> carry, stopped |-> FALSE, raised |-> NotRaised, orientation |-> "not_set"]
Ended(loop) == loop.stopped \/ loop.raised # NotRaised

Counted(loop)          == [loop EXCEPT !.n = @ + 1]
Emit(loop, frame)      == [loop EXCEPT !.frames = Append(@, frame)]
Fail(loop, error)      == [loop EXCEPT !.raised = error]
Break(loop)            == [loop EXCEPT !.stopped = TRUE]
BreakIf(loop, reached) == IF reached THEN Break(loop) ELSE loop
Enrol(loop, players)   == [loop EXCEPT !.roster = @ \cup players]
Carry(loop, carry)     == [loop EXCEPT !.carry = carry]
Oriented(loop, orientation) == [loop EXCEPT !.orientation = orientation]

----
(***************************************************************************)
(* Which way the home team plays, from where the players are.              *)
(***************************************************************************)
SumOfX(players) == FoldSet(LAMBDA seen, sum : sum + seen.x, 0, players)
Of(frame, ground) == {seen \in frame.players : seen.player.ground = ground}
AtLeastOne(k) == IF k = 0 THEN 1 ELSE k

\* attacking_direction_from_frame; the average over nobody is 0.
AttackingDirection(frame) ==
    LET home == Of(frame, Home)
        away == Of(frame, Away)
    IN  IF SumOfX(home) * AtLeastOne(Cardinality(away))
            < SumOfX(away) * AtLeastOne(Cardinality(home))
        THEN "ltr" ELSE "rtl"

FramesIn(frames, id) == SelectSeq(frames, LAMBDA f : f.period = id)

\* attacking_directions_from_multi_frames, for one period: the most common
\* direction, the first one met among equals.
CommonDirection(frames, id) ==
    LET seen == FramesIn(frames, id)
        directions == [i \in DOMAIN seen |->
            IF seen[i].players = {} THEN "not_set" ELSE AttackingDirection(seen[i])]
        Count(d) == Cardinality({i \in DOMAIN directions : directions[i] = d})
        most == {i \in DOMAIN directions :
                    \A j \in DOMAIN directions : Count(directions[j]) <= Count(directions[i])}
    IN  IF seen = <<>> THEN "not_set"
        ELSE directions[CHOOSE i \in most : \A j \in most : i <= j]

OrientationOf(direction) ==
    CASE direction = "ltr"     -> "home_away"
      [] direction = "rtl"     -> "away_home"
      [] direction = "not_set" -> "not_set"

\* The first frame of the first period decides; without one, not_set.
FirstFrameOrientation(frames) ==
    LET first == FramesIn(frames, 1)
    IN  IF first = <<>> THEN "not_set" ELSE OrientationOf(AttackingDirection(first[1]))
OrientByFirstFrame(loop) == Oriented(loop, FirstFrameOrientation(loop.frames))
\* attacking_directions[1], a KeyError when there is no first period.
OrientByFirstPeriod(loop) ==
    IF 1 \notin DOMAIN loop.periods THEN Fail(loop, "no first period")
    ELSE Oriented(loop, OrientationOf(CommonDirection(loop.frames, 1)))
=============================================================================
