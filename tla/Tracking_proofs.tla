---------------------------- MODULE Tracking_proofs ----------------------------
(***************************************************************************)
(* Proofs about the readers of tracking data, for every feed and every     *)
(* choice of options.                                                      *)
(*                                                                         *)
(* The ball of a PFF frame is in play, and belongs to a team, as the       *)
(* events up to it say.  The invariant is that the reader carries what the *)
(* events among all the frames read so far say, whatever became of those   *)
(* frames, and that every frame in its two lists is the one its place in   *)
(* the feed gives.                                                         *)
(*                                                                         *)
(* A player who is on a frame is a player of one of the teams.  The        *)
(* invariant, Closure, speaks besides of what a reader carries, since      *)
(* three of them deliver their frames after the loop, and of the players   *)
(* of the metadata, since three look up nobody.  A turn is one of a few    *)
(* shapes (Skips, Adds); the folds inside a turn, over periods, records    *)
(* and rows, are taken through by instances of FoldInduction.              *)
(*                                                                         *)
(* Frames come in the order of the match.  The invariant, Timely, says of  *)
(* each frame which item it tells of (Told): a reader that makes a frame   *)
(* from an item has one that Advances on those before.  Two readers keep   *)
(* no frames but places for them (Placed), and sort them in the end.       *)
(*                                                                         *)
(* A frame lies in its period.  The invariant, Spanned, says of each       *)
(* reader where its periods come from: most know them before the loop,     *)
(* Metrica CSV opens and extends them with the lines it reads (Opened),    *)
(* and Hawk-Eye has the period of a minute before it makes its frames.     *)
(***************************************************************************)
EXTENDS Tracking, FiniteLemmas, SequenceTheorems, TLAPS

LoopFields == {"n", "frames", "periods", "roster", "carry", "stopped", "raised", "orientation"}
CarryFields == {"state", "owner", "extra", "made"}
FrameFields == {"id", "period", "time", "players", "ball", "owner", "state"}
----------------------------------------------------------------------------
\* Sequences

\* A sequence with one element more.
LEMMA AppendIs ==
    ASSUME NEW frames, IsSeq(frames), NEW f
    PROVE  /\ IsSeq(Append(frames, f))
           /\ Len(frames) \in Nat /\ DOMAIN frames = 1..Len(frames)
           /\ DOMAIN Append(frames, f) = 1..(Len(frames) + 1)
           /\ \A k \in DOMAIN frames : Append(frames, f)[k] = frames[k]
           /\ Append(frames, f)[Len(frames) + 1] = f
<1> DEFINE T == {frames[k] : k \in DOMAIN frames} \cup {f}
           g == Append(frames, f)
<1>1. frames \in Seq(T) /\ f \in T
  <2>1. frames \in [1..Len(frames) -> {frames[k] : k \in DOMAIN frames}] /\ Len(frames) \in Nat
    BY LenProperties DEF IsSeq
  <2>2. frames \in [1..Len(frames) -> T]
    BY <2>1
  <2> QED BY <2>1, <2>2, SeqDef
<1> HIDE DEF T
<1>2. /\ g \in Seq(T) /\ Len(g) = Len(frames) + 1 /\ g[Len(frames) + 1] = f
      /\ \A k \in 1..Len(frames) : g[k] = frames[k]
  BY <1>1, AppendProperties
<1>3. Len(frames) \in Nat /\ DOMAIN frames = 1..Len(frames) /\ DOMAIN g = 1..Len(g)
  BY <1>1, <1>2, LenProperties
<1> HIDE DEF g
<1>4. g \in [1..Len(g) -> {g[k] : k \in DOMAIN g}] /\ Len(g) \in Nat
  <2>1. g \in [1..Len(g) -> T]
    BY <1>2, LenProperties
  <2> QED BY <1>2, <1>3, <2>1
<1>5. IsSeq(g)
  BY <1>4, SeqDef DEF IsSeq
<1> QED BY <1>2, <1>3, <1>5 DEF g

\* Two sequences one after the other.
LEMMA ConcatIs ==
    ASSUME NEW s, NEW t, IsSeq(s), IsSeq(t)
    PROVE  /\ IsSeq(s \o t)
           /\ Len(s) \in Nat /\ DOMAIN s = 1..Len(s) /\ Len(t) \in Nat /\ DOMAIN t = 1..Len(t)
           /\ DOMAIN (s \o t) = 1..(Len(s) + Len(t))
           /\ \A k \in 1..Len(s) : (s \o t)[k] = s[k]
           /\ \A k \in 1..Len(t) : (s \o t)[Len(s) + k] = t[k]
<1> DEFINE T == {s[k] : k \in DOMAIN s} \cup {t[k] : k \in DOMAIN t}
           u == s \o t
<1>1. s \in Seq(T) /\ t \in Seq(T)
  <2>1. s \in [1..Len(s) -> {s[k] : k \in DOMAIN s}] /\ Len(s) \in Nat
    BY LenProperties DEF IsSeq
  <2>2. t \in [1..Len(t) -> {t[k] : k \in DOMAIN t}] /\ Len(t) \in Nat
    BY LenProperties DEF IsSeq
  <2>3. s \in [1..Len(s) -> T] /\ t \in [1..Len(t) -> T]
    BY <2>1, <2>2
  <2> HIDE DEF T
  <2> QED BY <2>1, <2>2, <2>3, SeqDef
<1> HIDE DEF T
<1>2. /\ u \in Seq(T) /\ Len(u) = Len(s) + Len(t)
      /\ \A k \in 1..(Len(s) + Len(t)) : u[k] = IF k <= Len(s) THEN s[k] ELSE t[k - Len(s)]
  BY <1>1, ConcatProperties
<1>3. /\ Len(s) \in Nat /\ DOMAIN s = 1..Len(s) /\ Len(t) \in Nat /\ DOMAIN t = 1..Len(t)
      /\ DOMAIN u = 1..Len(u)
  BY <1>1, <1>2, LenProperties
<1> HIDE DEF u
<1>4. u \in [1..Len(u) -> {u[k] : k \in DOMAIN u}] /\ Len(u) \in Nat
  <2>1. u \in [1..Len(u) -> T]
    BY <1>2, LenProperties
  <2> QED BY <1>2, <1>3, <2>1
<1>5. IsSeq(u)
  BY <1>4, SeqDef DEF IsSeq
<1>6. ASSUME NEW k \in 1..Len(s) PROVE u[k] = s[k]
  <2>1. k \in 1..(Len(s) + Len(t)) /\ k <= Len(s)
    BY <1>3
  <2> QED BY <1>2, <2>1
<1>7. ASSUME NEW k \in 1..Len(t) PROVE u[Len(s) + k] = t[k]
  <2>1. Len(s) + k \in 1..(Len(s) + Len(t)) /\ ~(Len(s) + k <= Len(s)) /\ (Len(s) + k) - Len(s) = k
    BY <1>3
  <2> QED BY <1>2, <2>1
<1> QED BY <1>2, <1>3, <1>5, <1>6, <1>7 DEF u

\* A function over the first n numbers is a sequence.
LEMMA IntervalSeq ==
    ASSUME NEW s, NEW n \in Nat, s = [k \in 1..n |-> s[k]]
    PROVE  IsSeq(s) /\ DOMAIN s = 1..n /\ Len(s) = n
<1>1. s \in [1..n -> {s[k] : k \in DOMAIN s}]
  OBVIOUS
<1>2. IsSeq(s)
  BY <1>1, SeqDef DEF IsSeq
<1> QED BY <1>1, <1>2, LenProperties DEF IsSeq

\* A sequence is a function over its places.
LEMMA SeqIs ==
    ASSUME NEW s, IsSeq(s)
    PROVE  Len(s) \in Nat /\ DOMAIN s = 1..Len(s) /\ s = [k \in 1..Len(s) |-> s[k]]
BY LenProperties DEF IsSeq

\* The empty sequence.
LEMMA EmptyIs == IsSeq(<<>>) /\ DOMAIN <<>> = {}
<1>1. <<>> = [k \in 1..0 |-> <<>>[k]] /\ DOMAIN <<>> = {}
  OBVIOUS
<1> QED BY <1>1, IntervalSeq

----------------------------------------------------------------------------
\* Sorted sets

\* A finite set of images.
LEMMA ImageFinite ==
    ASSUME NEW S, IsFiniteSet(S), NEW f
    PROVE  IsFiniteSet({f[x] : x \in S})
<1> DEFINE T == {f[x] : x \in S}
           g == [x \in S |-> f[x]]
<1>1. g \in Surjection(S, T)
  BY DEF Surjection
<1> HIDE DEF T, g
<1>2. IsFiniteSet(T)
  BY <1>1, FS_Surjection
<1> QED BY <1>2 DEF T

Lower(S, x) == {y \in S : y < x}

\* Every place of a finite set of numbers is taken by one of them.
LEMMA PlaceTaken ==
    ASSUME NEW S \in SUBSET Int, IsFiniteSet(S), NEW k \in 1..Cardinality(S)
    PROVE  \E x \in S : Cardinality(Lower(S, x)) = k - 1
<1> DEFINE n == Cardinality(S)
           rank == [x \in S |-> Cardinality(Lower(S, x))]
<1>1. n \in Nat
  BY FS_CardinalityType
<1>2. ASSUME NEW x \in S PROVE rank[x] \in 0..(n - 1)
  <2>1. Lower(S, x) \in SUBSET S /\ x \notin Lower(S, x)
    BY DEF Lower
  <2>2. IsFiniteSet(Lower(S, x)) /\ rank[x] <= n /\ rank[x] # n
    BY <2>1, FS_Subset
  <2>3. rank[x] \in Nat
    BY <2>2, FS_CardinalityType
  <2> HIDE DEF rank, n
  <2> QED BY <1>1, <2>2, <2>3
<1>3. ASSUME NEW x \in S, NEW y \in S, x < y PROVE rank[x] # rank[y]
  <2>1. /\ Lower(S, x) \in SUBSET Lower(S, y) /\ Lower(S, y) \in SUBSET S
        /\ x \in Lower(S, y) /\ x \notin Lower(S, x)
    <3>1. x \in Int /\ ~(x < x) /\ \A z \in S : z < x => z < y
      <4>1. x \in Int /\ y \in Int /\ \A z \in S : z \in Int
        OBVIOUS
      <4> HIDE DEF rank
      <4> QED BY <1>3, <4>1
    <3> HIDE DEF rank
    <3> QED BY <1>3, <3>1 DEF Lower
  <2>2. IsFiniteSet(Lower(S, y))
    BY <2>1, FS_Subset
  <2>3. Cardinality(Lower(S, y)) # Cardinality(Lower(S, x))
    BY <2>1, <2>2, FS_Subset
  <2> QED BY <2>3
<1>4. rank \in Injection(S, 0..(n - 1))
  <2>1. rank \in [S -> 0..(n - 1)]
    BY <1>2
  <2>2. ASSUME NEW x \in S, NEW y \in S, rank[x] = rank[y] PROVE x = y
    <3>1. x \in Int /\ y \in Int /\ (x < y \/ y < x \/ x = y)
      OBVIOUS
    <3> HIDE DEF rank
    <3> QED BY <3>1, <1>3, <2>2
  <2> HIDE DEF rank, n
  <2> QED BY <2>1, <2>2 DEF Injection, IsInjective
<1>5. IsFiniteSet(0..(n - 1)) /\ Cardinality(0..(n - 1)) = n
  <2> HIDE DEF n
  <2>1. 0 \in Int /\ n - 1 \in Int
    BY <1>1
  <2>2. IsFiniteSet(0..(n - 1)) /\ Cardinality(0..(n - 1)) = IF 0 > n - 1 THEN 0 ELSE (n - 1) - 0 + 1
    BY <2>1, FS_Interval
  <2> QED BY <1>1, <2>2
<1>6. rank \in Surjection(S, 0..(n - 1))
  <2> HIDE DEF rank
  <2> QED BY <1>4, <1>5, FS_Injection
<1>7. k - 1 \in 0..(n - 1)
  <2> HIDE DEF rank
  <2> QED BY <1>1
<1>8. PICK x \in S : rank[x] = k - 1
  <2> HIDE DEF rank, n
  <2> QED BY <1>6, <1>7 DEF Surjection
<1> QED BY <1>8

\* The element at a place of a sorted set has as many below it as there are
\* places before.
LEMMA AscendingAt ==
    ASSUME NEW S \in SUBSET Int, IsFiniteSet(S), NEW k \in 1..Cardinality(S)
    PROVE  Ascending(S)[k] \in S /\ Cardinality(Lower(S, Ascending(S)[k])) = k - 1
<1>1. \E x \in S : Cardinality({y \in S : y < x}) = k - 1
  BY PlaceTaken DEF Lower
<1> QED BY <1>1 DEF Ascending, Lower

\* A finite set sorted is a sequence of its elements, each greater than those
\* before it.
LEMMA AscendingIs ==
    ASSUME NEW S \in SUBSET Int, IsFiniteSet(S)
    PROVE  /\ Ascending(S) \in Seq(S)
           /\ DOMAIN Ascending(S) = 1..Cardinality(S) /\ Cardinality(S) \in Nat
           /\ \A j, k \in 1..Cardinality(S) : j < k => Ascending(S)[j] < Ascending(S)[k]
<1>1. Cardinality(S) \in Nat
  BY FS_CardinalityType
<1>2. Ascending(S) = [k \in 1..Cardinality(S) |-> Ascending(S)[k]]
  <2> DEFINE place(k) == CHOOSE x \in S : Cardinality({y \in S : y < x}) = k - 1
  <2>1. Ascending(S) = [k \in 1..Cardinality(S) |-> place(k)]
    BY DEF Ascending
  <2> HIDE DEF place
  <2> QED BY <2>1
<1>3. Ascending(S) \in [1..Cardinality(S) -> S]
  BY <1>2, AscendingAt
<1>4. ASSUME NEW j \in 1..Cardinality(S), NEW k \in 1..Cardinality(S), j < k
      PROVE  Ascending(S)[j] < Ascending(S)[k]
  <2>1. PICK x \in S, y \in S : /\ x = Ascending(S)[j] /\ Cardinality(Lower(S, x)) = j - 1
                                /\ y = Ascending(S)[k] /\ Cardinality(Lower(S, y)) = k - 1
    BY AscendingAt
  <2>2. ASSUME ~(x < y) PROVE FALSE
    <3>1. Lower(S, y) \in SUBSET Lower(S, x) /\ Lower(S, x) \in SUBSET S
      <4>1. x \in Int /\ y \in Int /\ \A z \in S : z \in Int /\ (z < y => z < x)
        BY <2>2
      <4> QED BY <4>1 DEF Lower
    <3>2. IsFiniteSet(Lower(S, x))
      BY <3>1, FS_Subset
    <3>3. Cardinality(Lower(S, y)) <= Cardinality(Lower(S, x))
      BY <3>1, <3>2, FS_Subset
    <3> QED BY <1>1, <1>4, <2>1, <3>3
  <2> QED BY <2>1, <2>2
<1>5. Ascending(S) \in Seq(S)
  BY <1>1, <1>3, SeqDef
<1> QED BY <1>1, <1>2, <1>4, <1>5

----------------------------------------------------------------------------
(***************************************************************************)
(* The ball of PFF                                                         *)
(***************************************************************************)

\* The frame made of item i.
MadeOf(source, i) ==
    LET raw == source.feed[i]
    IN  Frame(raw.id, raw.period, raw.elapsed,
              {s \in KnownTracks(raw.tracks, source.meta.roster) : s.x # 0}, raw.ball,
              BallOwner(source.feed, i), BallState(source.feed, i))
Made(source) == {MadeOf(source, i) : i \in 1..Len(source.feed)}
Delivered(source) == Made(source) \cup {Mirrored(f) : f \in Made(source)}

\* The loop of the reader after i items.
Heard(l, source, i) ==
    /\ l = [field \in LoopFields |-> l[field]]
    /\ l.carry = [field \in CarryFields |-> l.carry[field]]
    /\ l.carry.state = BallState(source.feed, i)
    /\ l.carry.owner = BallOwner(source.feed, i)
    /\ l.roster = source.meta.roster
    /\ l.frames \in Seq(Made(source))
    /\ l.carry.extra \in Seq(Made(source))

PffInv ==
    /\ input \in Inputs
    /\ at \in Nat
    /\ input.reader = "pff" =>
           IF done THEN loop.raised = NotRaised => loop.frames \in Seq(Delivered(input))
           ELSE Heard(loop, input, at)

----------------------------------------------------------------------------
\* The latest event

\* Of places up to i the greatest is the latest.
LEMMA LatestIs ==
    ASSUME NEW i \in Nat, NEW S \in SUBSET (1..i), NEW j \in S, \A k \in S : k <= j
    PROVE  Latest(S) = j
<1>1. j \in Nat /\ \A k \in S : k \in Nat
  OBVIOUS
<1>2. \A k \in S : (\A m \in S : m <= k) => k = j
  BY <1>1
<1> QED BY <1>2 DEF Latest

\* An event about the state of the ball replaces what the earlier ones said.
LEMMA StateAfterEvent ==
    ASSUME NEW feed, NEW i \in Nat
    PROVE  BallState(feed, i + 1) =
               CASE feed[i + 1].event \in BallOut -> "dead"
                 [] feed[i + 1].event \in BallIn  -> "alive"
                 [] OTHER                         -> BallState(feed, i)
<1> DEFINE called == feed[i + 1].event \in BallOut \cup BallIn
<1>1. CASE called
  <2>1. i + 1 \in Calls(feed, i + 1) /\ Calls(feed, i + 1) \in SUBSET (1..(i + 1))
    BY <1>1 DEF Calls
  <2>2. Latest(Calls(feed, i + 1)) = i + 1
    <3>1. \A k \in Calls(feed, i + 1) : k <= i + 1
      BY <2>1
    <3>2. i + 1 \in Nat
      OBVIOUS
    <3> QED BY <2>1, <3>1, <3>2, LatestIs
  <2> QED BY <1>1, <2>1, <2>2 DEF BallState, BallIn, BallOut
<1>2. CASE ~called
  <2>1. Calls(feed, i + 1) = Calls(feed, i)
    BY <1>2 DEF Calls
  <2> QED BY <1>2, <2>1 DEF BallState
<1> QED BY <1>1, <1>2

\* An event that names a team gives it the ball.
LEMMA OwnerAfterEvent ==
    ASSUME NEW feed, NEW i \in Nat
    PROVE  BallOwner(feed, i + 1) =
               IF feed[i + 1].event # "none" /\ feed[i + 1].home_ball # "null"
               THEN feed[i + 1].home_ball ELSE BallOwner(feed, i)
<1> DEFINE claimed == feed[i + 1].event # "none" /\ feed[i + 1].home_ball # "null"
<1>1. CASE claimed
  <2>1. i + 1 \in Claims(feed, i + 1) /\ Claims(feed, i + 1) \in SUBSET (1..(i + 1))
    BY <1>1 DEF Claims
  <2>2. Latest(Claims(feed, i + 1)) = i + 1
    <3>1. \A k \in Claims(feed, i + 1) : k <= i + 1
      BY <2>1
    <3>2. i + 1 \in Nat
      OBVIOUS
    <3> QED BY <2>1, <3>1, <3>2, LatestIs
  <2> QED BY <1>1, <2>1, <2>2 DEF BallOwner
<1>2. CASE ~claimed
  <2>1. Claims(feed, i + 1) = Claims(feed, i)
    BY <1>2 DEF Claims
  <2> QED BY <1>2, <2>1 DEF BallOwner
<1> QED BY <1>1, <1>2

----------------------------------------------------------------------------
\* The reader

\* Before the first item nothing was said: the ball is dead and nobody's.
LEMMA StartHeard ==
    ASSUME NEW source
    PROVE  Heard(StartPff(source.meta), source, 0)
<1>1. Calls(source.feed, 0) = {} /\ Claims(source.feed, 0) = {}
  BY DEF Calls, Claims
<1>2. BallState(source.feed, 0) = "dead" /\ BallOwner(source.feed, 0) = Nobody
  BY <1>1 DEF BallState, BallOwner
<1> DEFINE start == [state |-> "dead", owner |-> Nobody, extra |-> <<>>, made |-> 0]
           l == Start(PffPeriods(source.meta.whole), source.meta.roster, start)
<1>3. /\ l.carry = start /\ l.frames = <<>> /\ l.roster = source.meta.roster
      /\ l = [field \in LoopFields |-> l[field]]
  BY DEF Start, LoopFields
<1>4. start = [field \in CarryFields |-> start[field]]
  BY DEF CarryFields
<1>5. <<>> \in Seq(Made(source))
  OBVIOUS
<1> QED BY <1>2, <1>3, <1>4, <1>5 DEF Heard, StartPff

\* An event changes the state and the owner, and nothing else the reader carries.
LEMMA AfterEventIs ==
    ASSUME NEW ball, ball = [field \in CarryFields |-> ball[field]], NEW raw
    PROVE  LET after == AfterEvent(ball, raw)
           IN  /\ after = [field \in CarryFields |-> after[field]]
               /\ after.extra = ball.extra
               /\ after.state = CASE raw.event \in BallOut -> "dead"
                                  [] raw.event \in BallIn  -> "alive"
                                  [] OTHER                 -> ball.state
               /\ after.owner = IF raw.event # "none" /\ raw.home_ball # "null"
                                THEN raw.home_ball ELSE ball.owner
<1> DEFINE state == CASE raw.event \in BallOut -> "dead"
                      [] raw.event \in BallIn  -> "alive"
                      [] OTHER                 -> ball.state
           owner == IF raw.event # "none" /\ raw.home_ball # "null"
                    THEN raw.home_ball ELSE ball.owner
           after == [ball EXCEPT !.state = state, !.owner = owner]
<1>1. AfterEvent(ball, raw) = after
  BY DEF AfterEvent
<1> HIDE DEF state, owner
<1>2. /\ after = [field \in CarryFields |-> after[field]]
      /\ after.extra = ball.extra /\ after.state = state /\ after.owner = owner
  BY DEF CarryFields
<1> QED BY <1>1, <1>2 DEF state, owner

\* A turn of the loop listens to the event before it skips, samples or emits.
LEMMA ReadHeard ==
    ASSUME NEW l, NEW source, NEW opt, NEW i \in Nat, i < Len(source.feed),
           IsSeq(source.feed),
           Heard(l, source, i)
    PROVE  Heard(ReadPff(l, opt, source.feed[i + 1]), source, i + 1)
<1> DEFINE raw   == source.feed[i + 1]
           heard == Carry(l, AfterEvent(l.carry, raw))
           frame == PffFrame(heard, raw)
           made  == [heard EXCEPT !.carry.made = @ + 1]
           next  == Collect(heard, frame)
<1>1. Heard(heard, source, i + 1)
  <2> DEFINE c == AfterEvent(l.carry, raw)
  <2>1. /\ c = [field \in CarryFields |-> c[field]]
        /\ c.extra = l.carry.extra
        /\ c.state = CASE raw.event \in BallOut -> "dead"
                       [] raw.event \in BallIn  -> "alive"
                       [] OTHER                 -> l.carry.state
        /\ c.owner = IF raw.event # "none" /\ raw.home_ball # "null"
                     THEN raw.home_ball ELSE l.carry.owner
    BY AfterEventIs DEF Heard
  <2>2. c.state = BallState(source.feed, i + 1) /\ c.owner = BallOwner(source.feed, i + 1)
    BY <2>1, StateAfterEvent, OwnerAfterEvent DEF Heard
  <2> HIDE DEF c
  <2>3. /\ heard = [field \in LoopFields |-> heard[field]]
        /\ heard.carry = c /\ heard.roster = l.roster /\ heard.frames = l.frames
    BY DEF Heard, Carry, LoopFields, c
  <2> QED BY <2>1, <2>2, <2>3 DEF Heard
<1> HIDE DEF heard
<1>2. frame \in Made(source)
  <2>1. i + 1 \in 1..Len(source.feed)
    BY SeqIs
  <2>2. frame = MadeOf(source, i + 1)
    BY <1>1 DEF MadeOf, PffFrame, Heard, KnownTracks
  <2> QED BY <2>1, <2>2 DEF Made
<1> HIDE DEF frame
<1>3. Heard(next, source, i + 1)
  <2>1. Heard(made, source, i + 1)
    BY <1>1 DEF Heard, LoopFields, CarryFields
  <2> HIDE DEF made
  <2>2. Heard(Emit(made, frame), source, i + 1)
    BY <1>2, <2>1, AppendProperties DEF Emit, Heard, LoopFields
  <2>3. Heard([made EXCEPT !.carry.extra = Append(@, frame)], source, i + 1)
    BY <1>2, <2>1, AppendProperties DEF Heard, LoopFields, CarryFields
  <2> QED BY <2>1, <2>2, <2>3 DEF Collect, made
<1> HIDE DEF next
<1>4. ASSUME NEW m, Heard(m, source, i + 1), NEW reached \in BOOLEAN
      PROVE  Heard(Counted(m), source, i + 1) /\ Heard(BreakIf(m, reached), source, i + 1)
  BY <1>4 DEF Heard, Counted, BreakIf, Break, LoopFields
<1> QED BY <1>1, <1>3, <1>4 DEF ReadPff, heard, next, frame, PlainLimit

\* After the loop extra time, as it is or turned round, follows the rest.
LEMMA FinishDelivers ==
    ASSUME NEW l, NEW source, NEW i, Heard(l, source, i), FinishPff(l).raised = NotRaised
    PROVE  FinishPff(l).frames \in Seq(Delivered(source))
<1> DEFINE turn  == AttackingDirection(FramesIn(l.frames, 1)[1])
                        # AttackingDirection(FramesIn(l.carry.extra, 3)[1])
           extra == [k \in DOMAIN l.carry.extra |->
                        IF turn THEN Mirrored(l.carry.extra[k]) ELSE l.carry.extra[k]]
           o     == OrientByFirstFrame(l)
<1>1. Fail(l, "no first frame").raised # NotRaised
  BY DEF Heard, Fail, LoopFields, NotRaised
<1>2. FinishPff(l) = [o EXCEPT !.frames = @ \o extra]
  BY <1>1 DEF FinishPff
<1>3. o.frames = l.frames /\ "frames" \in DOMAIN o
  BY DEF Heard, OrientByFirstFrame, Oriented, LoopFields
<1>4. l.frames \in Seq(Delivered(source))
  BY SeqDef DEF Heard, Delivered
<1>5. extra \in Seq(Delivered(source))
  <2>1. /\ l.carry.extra \in [1..Len(l.carry.extra) -> Made(source)]
        /\ Len(l.carry.extra) \in Nat
    BY LenProperties DEF Heard
  <2>2. extra \in [1..Len(l.carry.extra) -> Delivered(source)]
    BY <2>1 DEF Delivered
  <2> QED BY <2>1, <2>2, SeqDef
<1> HIDE DEF o, extra
<1>6. FinishPff(l).frames = l.frames \o extra
  BY <1>2, <1>3
<1> QED BY <1>4, <1>5, <1>6, ConcatProperties

----------------------------------------------------------------------------
\* The invariant

\* It holds before the first item.
LEMMA InitPff == Init => PffInv
<1> SUFFICES ASSUME Init PROVE PffInv
  OBVIOUS
<1>1. input.reader = "pff" => Heard(loop, input, at)
  BY StartHeard DEF Init, Begin
<1> QED BY <1>1 DEF PffInv, Init

\* Every step keeps it.
LEMMA NextPff == PffInv /\ [Next]_vars => PffInv'
<1> SUFFICES ASSUME PffInv, [Next]_vars PROVE PffInv'
  OBVIOUS
<1> USE DEF PffInv
<1>1. ASSUME NEW reader, Read(reader) PROVE PffInv'
  <2>1. input' = input /\ ~done /\ ~done' /\ at' = at + 1
    BY <1>1 DEF Read, More
  <2>2. ASSUME input.reader = "pff" PROVE Heard(loop', input, at + 1)
    <3>1. Script(input, input.opt) = input.feed
      BY <2>2 DEF Script
    <3>2. at < Len(input.feed) /\ loop' = ReadPff(loop, input.opt, input.feed[at + 1])
      BY <1>1, <2>2, <3>1 DEF Read, More, Handle
    <3> QED BY <2>1, <2>2, <3>2, ReadHeard, TrackingAssumption
  <2> QED BY <2>1, <2>2
<1>2. ASSUME Finish PROVE PffInv'
  <2>1. input' = input /\ at' = at /\ ~done /\ done'
    BY <1>2 DEF Finish
  <2>2. ASSUME input.reader = "pff", loop'.raised = NotRaised
        PROVE  loop'.frames \in Seq(Delivered(input))
    <3>1. loop.raised = NotRaised /\ loop' = FinishPff(loop)
      BY <1>2, <2>2 DEF Finish, Closed
    <3> QED BY <2>1, <2>2, <3>1, FinishDelivers
  <2> QED BY <2>1, <2>2
<1>3. CASE UNCHANGED vars
  BY <1>3 DEF vars
<1> QED BY <1>1, <1>2, <1>3 DEF Next, Stop, ReadTracabLine, ReadSkillCornerFrame,
      ReadSecondSpectrumLine, ReadPffFrame, ReadSignalityFrame, ReadMetricaCsvLines,
      ReadMetricaEptsLine, ReadStatsPerformLine, ReadHawkEyeMinute, ReadSportecFrameSet

\* A delivered frame says of the ball what the events up to it say; turning it
\* round changes only the players.
LEMMA DeliveredFollows ==
    ASSUME NEW source, NEW f \in Delivered(source), IsSeq(source.feed)
    PROVE  \E i \in DOMAIN source.feed :
               /\ f.id = source.feed[i].id
               /\ f.state = BallState(source.feed, i)
               /\ f.owner = BallOwner(source.feed, i)
<1>1. PICK i \in 1..Len(source.feed) :
          f = MadeOf(source, i) \/ f = Mirrored(MadeOf(source, i))
  BY DEF Delivered, Made
<1>2. i \in DOMAIN source.feed
  BY <1>1, SeqIs
<1> DEFINE made == MadeOf(source, i)
<1>3. /\ "id" \in DOMAIN made /\ made.id = source.feed[i].id
      /\ made.state = BallState(source.feed, i) /\ made.owner = BallOwner(source.feed, i)
  BY DEF MadeOf, Frame
<1>4. \A k \in {"id", "state", "owner"} : k \in DOMAIN made
  BY DEF MadeOf, Frame
<1> HIDE DEF made
<1>5. /\ Mirrored(made).id = made.id
      /\ Mirrored(made).state = made.state /\ Mirrored(made).owner = made.owner
  BY <1>4 DEF Mirrored
<1>6. f = made \/ f = Mirrored(made)
  BY <1>1 DEF made
<1> QED BY <1>2, <1>3, <1>5, <1>6

\* The ball of every delivered PFF frame is in play, and belongs to a team, as
\* the last event about it says (pff.py), for every feed and all options.
THEOREM BallFollows == Spec => []BallFollowsEvents
<1>1. PffInv => BallFollowsEvents
  <2> SUFFICES ASSUME PffInv, Loaded, input.reader = "pff", NEW f \in Frames
               PROVE  \E i \in DOMAIN input.feed :
                          /\ f.id = input.feed[i].id
                          /\ f.state = BallState(input.feed, i)
                          /\ f.owner = BallOwner(input.feed, i)
    BY DEF BallFollowsEvents
  <2>1. loop.frames \in Seq(Delivered(input)) /\ input \in Inputs
    BY DEF PffInv, Loaded
  <2>2. f \in Delivered(input)
    BY <2>1, ElementOfSeq, LenProperties DEF Frames
  <2> QED BY <2>1, <2>2, DeliveredFollows, TrackingAssumption
<1> QED BY <1>1, InitPff, NextPff, PTL DEF Spec

----------------------------------------------------------------------------
(***************************************************************************)
(* The players of a frame                                                  *)
(***************************************************************************)

----------------------------------------------------------------------------
\* One turn of a reader

Shape(l) == l = [field \in LoopFields |-> l[field]] /\ IsSeq(l.frames)

\* m is l but for the counter, how the loop ends and what the reader carries.
Skips(l, m) ==
    /\ Shape(m) /\ m.frames = l.frames /\ m.roster = l.roster /\ m.periods = l.periods
\* m has one frame more, and the players of it.
Adds(l, m, frame, players) ==
    /\ Shape(m) /\ m.frames = Append(l.frames, frame)
    /\ m.roster = l.roster \cup players /\ m.periods = l.periods

\* What a turn of a loop does without a frame.
LEMMA Turns ==
    ASSUME NEW l, Shape(l)
    PROVE  /\ \A m : Skips(l, m) => Skips(l, Counted(m)) /\ Counted(m).carry = m.carry
           /\ \A m, error : Skips(l, m) => Skips(l, Fail(m, error)) /\ Fail(m, error).carry = m.carry
           /\ \A m, b : Skips(l, m) => Skips(l, BreakIf(m, b)) /\ BreakIf(m, b).carry = m.carry
           /\ \A m : Skips(l, m) => Skips(l, Break(m)) /\ Break(m).carry = m.carry
           /\ \A m, c : Skips(l, m) => Skips(l, Carry(m, c)) /\ Carry(m, c).carry = c
           /\ \A m, o : Skips(l, m) => Skips(l, Oriented(m, o)) /\ Oriented(m, o).carry = m.carry
           /\ Skips(l, l)
<1>1. ASSUME NEW m, Skips(l, m), NEW error, NEW b, NEW c, NEW o
      PROVE  /\ Skips(l, Counted(m)) /\ Counted(m).carry = m.carry
             /\ Skips(l, Fail(m, error)) /\ Fail(m, error).carry = m.carry
             /\ Skips(l, Break(m)) /\ Break(m).carry = m.carry
             /\ Skips(l, BreakIf(m, b)) /\ BreakIf(m, b).carry = m.carry
             /\ Skips(l, Carry(m, c)) /\ Carry(m, c).carry = c
             /\ Skips(l, Oriented(m, o)) /\ Oriented(m, o).carry = m.carry
  <2>1. Skips(l, Counted(m)) /\ Counted(m).carry = m.carry
    BY <1>1 DEF Skips, Shape, Counted, LoopFields
  <2>2. Skips(l, Fail(m, error)) /\ Fail(m, error).carry = m.carry
    BY <1>1 DEF Skips, Shape, Fail, LoopFields
  <2>3. Skips(l, Break(m)) /\ Break(m).carry = m.carry
    BY <1>1 DEF Skips, Shape, Break, LoopFields
  <2>4. Skips(l, BreakIf(m, b)) /\ BreakIf(m, b).carry = m.carry
    BY <1>1, <2>3 DEF BreakIf
  <2>5. Skips(l, Carry(m, c)) /\ Carry(m, c).carry = c
    BY <1>1 DEF Skips, Shape, Carry, LoopFields
  <2>6. Skips(l, Oriented(m, o)) /\ Oriented(m, o).carry = m.carry
    BY <1>1 DEF Skips, Shape, Oriented, LoopFields
  <2> QED BY <2>1, <2>2, <2>3, <2>4, <2>5, <2>6
<1>2. Skips(l, l)
  BY DEF Skips
<1> QED BY <1>1, <1>2

\* What it does with one.
LEMMA Additions ==
    ASSUME NEW l, Shape(l), NEW f, NEW P
    PROVE  /\ Adds(l, Emit(Enrol(l, P), f), f, P) /\ Emit(Enrol(l, P), f).carry = l.carry
           /\ Adds(l, Emit(l, f), f, {}) /\ Emit(l, f).carry = l.carry
           /\ Skips(l, l)
           /\ \A m : Adds(l, m, f, P) => Adds(l, Counted(m), f, P) /\ Counted(m).carry = m.carry
           /\ \A m, b : Adds(l, m, f, P) => Adds(l, BreakIf(m, b), f, P) /\ BreakIf(m, b).carry = m.carry
           /\ \A m, c : Adds(l, m, f, P) => Adds(l, Carry(m, c), f, P) /\ Carry(m, c).carry = c
<1>1. Adds(l, Emit(l, f), f, {}) /\ Emit(l, f).carry = l.carry
  BY AppendIs DEF Adds, Emit, Shape, LoopFields
<1>2. Adds(l, Emit(Enrol(l, P), f), f, P) /\ Emit(Enrol(l, P), f).carry = l.carry
  BY AppendIs DEF Adds, Emit, Enrol, Shape, LoopFields
<1>3. ASSUME NEW m, Adds(l, m, f, P), NEW b, NEW c
      PROVE  /\ Adds(l, Counted(m), f, P) /\ Counted(m).carry = m.carry
             /\ Adds(l, BreakIf(m, b), f, P) /\ BreakIf(m, b).carry = m.carry
             /\ Adds(l, Carry(m, c), f, P) /\ Carry(m, c).carry = c
  <2>1. Adds(l, Counted(m), f, P) /\ Counted(m).carry = m.carry
    BY <1>3 DEF Adds, Shape, Counted, LoopFields
  <2>2. Adds(l, Break(m), f, P) /\ Break(m).carry = m.carry
    BY <1>3 DEF Adds, Shape, Break, LoopFields
  <2>3. Adds(l, BreakIf(m, b), f, P) /\ BreakIf(m, b).carry = m.carry
    BY <1>3, <2>2 DEF BreakIf
  <2>4. Adds(l, Carry(m, c), f, P) /\ Carry(m, c).carry = c
    BY <1>3 DEF Adds, Shape, Carry, LoopFields
  <2> QED BY <2>1, <2>3, <2>4
<1> QED BY <1>1, <1>2, <1>3 DEF Skips

\* The frame counted, and the limit looked at.
LEMMA AddedCounted ==
    ASSUME NEW l, NEW m, NEW f, NEW P, Adds(l, m, f, P), NEW b
    PROVE  LET c == Counted(BreakIf(m, b)) IN Adds(l, c, f, P) /\ c.carry = m.carry
<1> DEFINE c == BreakIf(m, b)
<1>1. Adds(l, Break(m), f, P) /\ Break(m).carry = m.carry
  BY DEF Adds, Shape, Break, LoopFields
<1>2. Adds(l, c, f, P) /\ c.carry = m.carry
  BY <1>1 DEF BreakIf
<1> HIDE DEF c
<1>3. Adds(l, Counted(c), f, P) /\ Counted(c).carry = c.carry
  BY <1>2 DEF Adds, Shape, Counted, LoopFields
<1> QED BY <1>2, <1>3 DEF c

\* Second Spectrum adds a frame with the players it enrols.
LEMMA SecondSpectrumTurn ==
    ASSUME NEW l, Shape(l), NEW opt, NEW meta, NEW raw
    PROVE  LET m == ReadSecondSpectrum(l, opt, meta, raw)
           IN  \/ Skips(l, m)
               \/ /\ Adds(l, m, FrameFromFrameData(meta, raw), PlayersOf(raw.tracks))
                  /\ ~(raw.period > Len(Played(meta)))
  BY Turns, Additions DEF ReadSecondSpectrum

\* SkillCorner adds a frame of a period it knows, from objects it could resolve.
LEMMA SkillCornerTurn ==
    ASSUME NEW l, Shape(l), NEW opt, NEW meta, NEW raw
    PROVE  LET m    == ReadSkillCorner(l, opt, meta, raw)
               data == IF meta.version = "V2" THEN FrameDataV2(l, raw) ELSE FrameDataV3(l, raw)
               f    == Frame(raw.id, raw.period, raw.clock - ClockStart(raw.period),
                             data.tracks, HasBall(raw.records), raw.owner, StateOf(raw))
           IN  \/ Skips(l, m)
               \/ /\ Adds(l, m, f, {}) /\ data.ok
                  /\ raw.clock # -1 /\ raw.period \in 1..5 /\ raw.period \in DOMAIN l.periods
<1> DEFINE data == IF meta.version = "V2" THEN FrameDataV2(l, raw) ELSE FrameDataV3(l, raw)
           f    == Frame(raw.id, raw.period, raw.clock - ClockStart(raw.period),
                         data.tracks, HasBall(raw.records), raw.owner, StateOf(raw))
           next == GetFrameData(l, meta, raw)
<1>1. CASE raw.clock = -1 \/ raw.period \notin 1..5 \/ ~data.ok \/ raw.period \notin DOMAIN l.periods
  <2>1. Skips(l, next)
    BY <1>1, Turns DEF GetFrameData
  <2> HIDE DEF next
  <2> QED BY <2>1, Turns DEF ReadSkillCorner, next
<1>2. CASE ~(raw.clock = -1 \/ raw.period \notin 1..5 \/ ~data.ok \/ raw.period \notin DOMAIN l.periods)
  <2>1. next = Emit(l, f)
    BY <1>2 DEF GetFrameData
  <2> HIDE DEF next, f
  <2>2. Adds(l, next, f, {})
    BY <2>1, Additions
  <2>3. next.raised = l.raised
    BY <2>1 DEF Emit, Shape, LoopFields
  <2> QED BY <1>2, <2>2, <2>3, Turns, Additions DEF ReadSkillCorner, next, f
<1> QED BY <1>1, <1>2

\* Signality adds a frame of players that are known.
LEMMA SignalityTurn ==
    ASSUME NEW l, Shape(l), NEW opt, NEW meta, NEW raw
    PROVE  LET m == ReadSignality(l, opt, meta, raw)
           IN  \/ Skips(l, m)
               \/ /\ Adds(l, m, SignalityFrame(l, meta, raw), {})
                  /\ ~(raw.period > 2) /\ raw.time > 0
<1> DEFINE here  == IF raw.period = l.carry.period THEN l
                    ELSE [Carry(l, [period |-> raw.period]) EXCEPT !.n = 0]
           frame == SignalityFrame(here, meta, raw)
           next  == IF Sampled(opt, here.n) /\ frame.players # {} /\ frame.time > 0
                    THEN Emit(here, frame) ELSE here
<1>1. Skips(l, here)
  BY DEF Skips, Shape, Carry, LoopFields
<1> HIDE DEF here
<1>2. frame = SignalityFrame(l, meta, raw) /\ frame.time = raw.time
  BY <1>1 DEF SignalityFrame, Skips, Frame
<1> HIDE DEF frame
<1>3. Adds(l, Emit(here, frame), frame, {})
  BY <1>1, AppendIs DEF Adds, Skips, Emit, Shape, LoopFields
<1>4. Skips(l, next) \/ (Adds(l, next, frame, {}) /\ raw.time > 0)
  BY <1>1, <1>2, <1>3
<1> HIDE DEF next
<1>5. ReadSignality(l, opt, meta, raw) = IF raw.period > 2 THEN Fail(l, "unknown period")
          ELSE BreakIf(Counted(next), PlainLimit(opt, next.n + 1))
  BY DEF ReadSignality, here, frame, next
<1>6. Skips(l, Fail(l, "unknown period"))
  BY Turns
<1>7. ASSUME NEW b
      PROVE  \/ Skips(l, BreakIf(Counted(next), b))
             \/ Adds(l, BreakIf(Counted(next), b), frame, {}) /\ raw.time > 0
  <2>1. CASE Skips(l, next)
    BY <2>1, Turns
  <2>2. CASE Adds(l, next, frame, {}) /\ raw.time > 0
    BY <2>2, Additions
  <2> QED BY <1>4, <2>1, <2>2
<1> QED BY <1>2, <1>5, <1>6, <1>7

\* StatsPerform enrols the players of a frame, also when it drops it.
LEMMA StatsPerformTurn ==
    ASSUME NEW l, Shape(l), NEW opt, NEW raw
    PROVE  LET m == ReadStatsPerform(l, opt, raw)
           IN  \/ Skips(l, m)
               \/ Adds(l, m, StatsPerformFrame(raw), PlayersOf(SideTracks(raw)))
                  /\ raw.period \in DOMAIN l.periods
               \/ /\ Shape(m) /\ m.frames = l.frames /\ m.periods = l.periods
                  /\ m.roster = l.roster \cup PlayersOf(SideTracks(raw))
<1> DEFINE seen == Enrol(l, PlayersOf(SideTracks(raw)))
<1>1. /\ Shape(Counted(seen)) /\ Counted(seen).frames = l.frames /\ Counted(seen).periods = l.periods
      /\ Counted(seen).roster = l.roster \cup PlayersOf(SideTracks(raw))
  BY DEF Shape, Counted, Enrol, LoopFields
<1> QED BY <1>1, Turns, Additions DEF ReadStatsPerform

\* Metrica CSV first opens or extends a period.
LEMMA MetricaCsvTurn ==
    ASSUME NEW l, Shape(l), NEW opt, NEW raw
    PROVE  LET m      == ReadMetricaCsv(l, opt, raw)
               opened == [l EXCEPT !.periods = PeriodsAfter(@, raw.home)]
           IN  \/ raw.home = Absent /\ Skips(l, m)
               \/ raw.home # Absent /\ Skips(opened, m)
               \/ raw.home # Absent /\ raw.away # Absent /\ Adds(opened, m, CsvFrame(opened, raw), {})
<1> DEFINE opened == [l EXCEPT !.periods = PeriodsAfter(@, raw.home)]
<1>1. Shape(opened)
  BY DEF Shape, LoopFields
<1> HIDE DEF opened
<1> QED BY <1>1, Turns, Additions DEF ReadMetricaCsv, opened

\* Metrica EPTS adds the frame as the line has it.
LEMMA MetricaEptsTurn ==
    ASSUME NEW l, Shape(l), NEW opt, NEW meta, NEW raw
    PROVE  LET m == ReadMetricaEpts(l, opt, meta, raw)
           IN  Skips(l, m) \/ Adds(l, m, EptsFrame(l, raw), {})
<1> DEFINE end  == meta.specs[l.carry]
           next == IF raw.id <= end THEN Emit(l, EptsFrame(l, raw)) ELSE l
<1>1. Skips(l, next) \/ Adds(l, next, EptsFrame(l, raw), {})
  BY Additions
<1> HIDE DEF next
<1>2. ASSUME NEW c
      PROVE  \A m \in {Break(next), Counted(next), Counted(Carry(next, c))} :
                 Skips(l, m) \/ Adds(l, m, EptsFrame(l, raw), {})
  <2>1. Break(next) = BreakIf(next, TRUE)
    BY DEF BreakIf
  <2>2. CASE Skips(l, next)
    BY <2>2, Turns
  <2>3. CASE Adds(l, next, EptsFrame(l, raw), {})
    BY <2>1, <2>3, Additions
  <2> QED BY <1>1, <2>2, <2>3
<1> QED BY <1>2, Turns DEF ReadMetricaEpts, next

PffCarry(carry) == carry = [field \in CarryFields |-> carry[field]] /\ IsSeq(carry.extra)
\* The frame an item gives, with what the events before it and its own say.
PffFrameOf(l, raw) == PffFrame(Carry(l, AfterEvent(l.carry, raw)), raw)

\* PFF adds a frame to one of its lists, or to none.
LEMMA PffTurn ==
    ASSUME NEW l, Shape(l), PffCarry(l.carry), NEW opt, NEW raw
    PROVE  LET m == ReadPff(l, opt, raw)
               f == PffFrameOf(l, raw)
           IN  /\ PffCarry(m.carry)
               /\ \/ Skips(l, m) /\ m.carry.extra = l.carry.extra
                  \/ raw.period \in {1, 2} /\ Adds(l, m, f, {}) /\ m.carry.extra = l.carry.extra
                  \/ /\ raw.period \in {3, 4} /\ Skips(l, m)
                     /\ m.carry.extra = Append(l.carry.extra, f)
<1> DEFINE heard == Carry(l, AfterEvent(l.carry, raw))
           f     == PffFrame(heard, raw)
           made  == [heard EXCEPT !.carry.made = @ + 1]
           kept  == [made EXCEPT !.carry.extra = Append(@, f)]
           next  == Collect(heard, f)
           After(m) == /\ PffCarry(m.carry)
                       /\ \/ Skips(l, m) /\ m.carry.extra = l.carry.extra
                          \/ /\ raw.period \in {1, 2} /\ Adds(l, m, f, {})
                             /\ m.carry.extra = l.carry.extra
                          \/ /\ raw.period \in {3, 4} /\ Skips(l, m)
                             /\ m.carry.extra = Append(l.carry.extra, f)
<1>1. Skips(l, heard) /\ PffCarry(heard.carry) /\ heard.carry.extra = l.carry.extra
  <2> DEFINE state == CASE raw.event \in BallOut -> "dead"
                        [] raw.event \in BallIn  -> "alive"
                        [] OTHER                 -> l.carry.state
             owner == IF raw.event # "none" /\ raw.home_ball # "null"
                      THEN raw.home_ball ELSE l.carry.owner
             c     == [l.carry EXCEPT !.state = state, !.owner = owner]
  <2>1. AfterEvent(l.carry, raw) = c
    BY DEF AfterEvent
  <2> HIDE DEF state, owner
  <2>2. PffCarry(c) /\ c.extra = l.carry.extra
    BY DEF PffCarry, CarryFields
  <2> HIDE DEF c
  <2> QED BY <2>1, <2>2, Turns DEF heard
<1>2. f.period = raw.period
  BY DEF PffFrame, Frame
<1> HIDE DEF heard, f
<1>3. Skips(l, made) /\ PffCarry(made.carry) /\ made.carry.extra = l.carry.extra
  BY <1>1 DEF Skips, Shape, PffCarry, LoopFields, CarryFields
<1> HIDE DEF made
<1>4. Adds(l, Emit(made, f), f, {}) /\ Emit(made, f).carry = made.carry
  BY <1>3, AppendIs DEF Adds, Skips, Emit, Shape, LoopFields
<1>5. Skips(l, kept) /\ PffCarry(kept.carry) /\ kept.carry.extra = Append(l.carry.extra, f)
  BY <1>3, AppendIs DEF Skips, Shape, PffCarry, LoopFields, CarryFields
<1> HIDE DEF kept
<1>6. After(next)
  <2>1. next = CASE f.period \in {1, 2} -> Emit(made, f)
                 [] f.period \in {3, 4} -> kept
                 [] OTHER               -> made
    BY DEF Collect, made, kept
  <2> QED BY <1>2, <1>3, <1>4, <1>5, <2>1
<1> HIDE DEF next
<1>7. After(heard) /\ After(Counted(heard))
  BY <1>1, Turns
<1>8. ASSUME NEW b PROVE After(Counted(BreakIf(next, b)))
  <2>1. CASE Skips(l, next)
    <3>1. /\ Skips(l, Counted(BreakIf(next, b)))
          /\ Counted(BreakIf(next, b)).carry = next.carry
      BY <2>1, Turns
    <3> QED BY <1>6, <2>1, <3>1
  <2>2. CASE ~Skips(l, next)
    <3>1. Adds(l, next, f, {})
      BY <1>6, <2>2
    <3>2. Adds(l, Counted(BreakIf(next, b)), f, {}) /\ Counted(BreakIf(next, b)).carry = next.carry
      BY <3>1, AddedCounted
    <3> QED BY <1>6, <2>2, <3>2
  <2> QED BY <2>1, <2>2
<1>9. ReadPff(l, opt, raw) =
          IF opt.only_alive /\ heard.carry.state = "dead" THEN heard
          ELSE IF raw.period = NoPeriod \/ ~Sampled(opt, l.n) THEN Counted(heard)
          ELSE Counted(BreakIf(next, PlainLimit(opt, next.carry.made)))
  BY DEF ReadPff, heard, next, f
<1>10. After(ReadPff(l, opt, raw))
  <2> HIDE DEF After
  <2> QED BY <1>7, <1>8, <1>9
<1> QED BY <1>10 DEF PffFrameOf, f, heard

TracabFrame(l, raw, p) ==
    Frame(raw.id, p, raw.id - l.periods[p].start, Tracked(raw), TRUE, OwnerOf(raw), raw.status)

\* TRACAB, for one period that contains the frame.
LEMMA TracabTurn ==
    ASSUME NEW l, Shape(l), NEW opt, NEW meta, NEW raw, NEW p
    PROVE  LET m == TracabInPeriod(l, opt, meta, raw, p)
           IN  \/ Skips(l, m)
               \/ Adds(l, m, TracabFrame(l, raw, p), PlayersOf(Tracked(raw)) \ l.roster)
<1> DEFINE f    == TracabFrame(l, raw, p)
           P    == PlayersOf(Tracked(raw)) \ l.roster
           parsed == \E k \in DOMAIN l.frames : l.frames[k].id = raw.id
           next == IF meta.frames = "json" /\ parsed THEN Fail(l, "parsed twice")
                   ELSE ParseTracab(l, meta, raw, p)
<1>1. Skips(l, next) \/ Adds(l, next, f, P)
  BY Turns, Additions DEF ParseTracab, TracabFrame
<1>2. TracabInPeriod(l, opt, meta, raw, p) =
          IF Ended(l) THEN l
          ELSE IF ~Sampled(opt, l.n) THEN Counted(l)
          ELSE IF next.raised # NotRaised THEN next
          ELSE Counted(BreakIf(next, ScaledLimit(opt, Len(next.frames))))
  BY DEF TracabInPeriod
<1> HIDE DEF next, f, P
<1>3. ASSUME NEW b
      PROVE  \/ Skips(l, Counted(BreakIf(next, b)))
             \/ Adds(l, Counted(BreakIf(next, b)), f, P)
  <2>1. CASE Skips(l, next)
    BY <2>1, Turns
  <2>2. CASE Adds(l, next, f, P)
    BY <2>2, Additions
  <2> QED BY <1>1, <2>1, <2>2
<1> QED BY <1>1, <1>2, <1>3, Turns DEF f, P

\* Hawk-Eye adds no frame before the end, and collects players it knows.
LEMMA HawkEyeTurn ==
    ASSUME NEW l, Shape(l), NEW opt, NEW raw
    PROVE  LET m == ReadHawkEye(l, opt, raw)
           IN  /\ Shape(m) /\ m.frames = l.frames /\ m.roster = l.roster \cup raw.roster
               /\ m.periods = Over(l.periods, raw.segments)
               /\ \/ m.carry = l.carry
                  \/ /\ m.carry = [parsed |-> WithPlayers(WithBalls(l.carry.parsed, raw), raw)]
                     /\ raw.segment \in DOMAIN m.periods
                     /\ \A p \in OnField(raw) : p.player \in m.roster
<1> DEFINE known == Announced(l, raw)
<1>1. /\ Shape(known) /\ known.frames = l.frames /\ known.roster = l.roster \cup raw.roster
      /\ known.periods = Over(l.periods, raw.segments) /\ known.carry = l.carry
  BY DEF Announced, Enrol, Shape, LoopFields
<1> DEFINE parsed == WithPlayers(WithBalls(l.carry.parsed, raw), raw)
           next   == Carry(known, [parsed |-> parsed])
<1>2. ReadHawkEye(l, opt, raw) =
          IF raw.segment \notin DOMAIN known.periods THEN Fail(known, "unknown period")
          ELSE IF ~raw.in_sync THEN Fail(known, "not in sync")
          ELSE IF \E p \in OnField(raw) : p.player \notin known.roster
          THEN Fail(known, "unknown player")
          ELSE BreakIf(next, PlainLimit(opt, Cardinality(DOMAIN parsed)))
  BY DEF ReadHawkEye
<1> HIDE DEF known, parsed
<1>3. \A b : Skips(known, BreakIf(next, b)) /\ BreakIf(next, b).carry = [parsed |-> parsed]
  BY <1>1, Turns
<1>4. \A e : Skips(known, Fail(known, e)) /\ Fail(known, e).carry = l.carry
  BY <1>1, Turns
<1> HIDE DEF next
<1> QED BY <1>1, <1>2, <1>3, <1>4 DEF Skips, parsed

Collecting(c, carry, row) == CollectRow(c.opt, c.raw, carry, row)
RowsKept(c, k, carry) == IsFiniteSet(DOMAIN carry.rows)
Collection == INSTANCE FoldInduction WITH Step <- Collecting, Holds <- RowsKept

\* Sportec adds no frame before the end, and collects rows.
LEMMA SportecTurn ==
    ASSUME NEW l, Shape(l), NEW c, NEW meta
    PROVE  LET m == ReadSportec(l, c.opt, meta, c.raw)
           IN  /\ Skips(l, m)
               /\ \/ m.carry = l.carry
                  \/ m.carry = Collection!Fold(c, l.carry, c.raw.rows)
<1>1. ReadSportec(l, c.opt, meta, c.raw) =
          IF SkipFrameSet(c.opt, meta, l.carry, c.raw) THEN l
          ELSE Carry(l, Collection!Fold(c, l.carry, c.raw.rows))
  BY DEF ReadSportec, Collection!Fold, Collecting, FoldLeft, MapThenFoldSet, Max, Collection!Last
<1> QED BY <1>1, Turns

----------------------------------------------------------------------------
\* Frames of known players

Known(players, roster) == \A s \in players : s.player \in roster \/ s.player.number = 0
AllKnown(frames, roster) == \A k \in DOMAIN frames : Known(frames[k].players, roster)

ParsedKnown(carry, roster) ==
    LET parsed == carry.parsed
    IN  /\ carry = [parsed |-> parsed]
        /\ parsed = [id \in DOMAIN parsed |-> parsed[id]]
        /\ IsFiniteSet(DOMAIN parsed) /\ DOMAIN parsed \subseteq Int
        /\ \A id \in DOMAIN parsed : /\ parsed[id] = [x \in FrameFields |-> parsed[id][x]]
                                     /\ Known(parsed[id].players, roster)

\* A frame of known players more.
LEMMA AddsKnown ==
    ASSUME NEW l, NEW m, NEW f, NEW P, Shape(l), AllKnown(l.frames, l.roster),
           Adds(l, m, f, P), Known(f.players, m.roster)
    PROVE  AllKnown(m.frames, m.roster) /\ Shape(m) /\ l.roster \subseteq m.roster
<1>1. l.roster \subseteq m.roster /\ m.frames = Append(l.frames, f) /\ Shape(m)
  BY DEF Adds
<1>2. ASSUME NEW k \in DOMAIN m.frames PROVE Known(m.frames[k].players, m.roster)
  <2>1. /\ Len(l.frames) \in Nat /\ DOMAIN l.frames = 1..Len(l.frames)
        /\ DOMAIN m.frames = 1..(Len(l.frames) + 1)
        /\ \A j \in DOMAIN l.frames : m.frames[j] = l.frames[j]
        /\ m.frames[Len(l.frames) + 1] = f
    BY <1>1, AppendIs DEF Shape
  <2>2. CASE k = Len(l.frames) + 1
    BY <2>1, <2>2
  <2>3. CASE k # Len(l.frames) + 1
    <3>1. k \in DOMAIN l.frames
      BY <2>1, <2>3
    <3>2. m.frames[k] = l.frames[k] /\ Known(l.frames[k].players, l.roster)
      BY <2>1, <3>1 DEF AllKnown
    <3> QED BY <1>1, <3>2 DEF Known
  <2> QED BY <2>2, <2>3
<1> QED BY <1>1, <1>2 DEF AllKnown

\* Players that are known stay known.
LEMMA KnownGrows ==
    ASSUME NEW frames, NEW roster, NEW grown, roster \subseteq grown, AllKnown(frames, roster)
    PROVE  AllKnown(frames, grown)
BY DEF AllKnown, Known

\* Frames of known players, and more of them.
LEMMA ConcatKnown ==
    ASSUME NEW s, NEW t, NEW roster, IsSeq(s), IsSeq(t), AllKnown(s, roster), AllKnown(t, roster)
    PROVE  IsSeq(s \o t) /\ AllKnown(s \o t, roster)
<1> DEFINE u == s \o t
<1>1. /\ Len(s) \in Nat /\ DOMAIN s = 1..Len(s)
      /\ Len(t) \in Nat /\ DOMAIN t = 1..Len(t)
      /\ DOMAIN u = 1..(Len(s) + Len(t)) /\ IsSeq(u)
      /\ \A k \in 1..Len(s) : u[k] = s[k]
      /\ \A k \in 1..Len(t) : u[Len(s) + k] = t[k]
  BY ConcatIs
<1> HIDE DEF u
<1>2. ASSUME NEW j \in DOMAIN u PROVE Known(u[j].players, roster)
  <2>1. CASE j \in 1..Len(s)
    BY <1>1, <2>1 DEF AllKnown
  <2>2. CASE j \notin 1..Len(s)
    <3>1. j - Len(s) \in 1..Len(t) /\ Len(s) + (j - Len(s)) = j
      BY <1>1, <2>2
    <3>2. u[j] = t[j - Len(s)] /\ j - Len(s) \in DOMAIN t
      BY <1>1, <3>1
    <3> QED BY <3>2 DEF AllKnown
  <2> QED BY <2>1, <2>2
<1> QED BY <1>1, <1>2 DEF AllKnown, u

\* What a reader that names its players itself enrols, it knows.
LEMMA PlayersKnown ==
    ASSUME NEW tracks, NEW roster
    PROVE  /\ Known(tracks, roster \cup PlayersOf(tracks))
           /\ Known(tracks, roster \cup (PlayersOf(tracks) \ roster))
           /\ Known(KnownTracks(tracks, roster), roster)
           /\ \A some : some \subseteq KnownTracks(tracks, roster) => Known(some, roster)
           /\ PlayersOf(tracks) \subseteq roster => Known(tracks, roster)
BY DEF Known, PlayersOf, KnownTracks

----------------------------------------------------------------------------
\* One record after the other of a SkillCorner frame

RecordRead(roster, seen, record) == ReadRecord(seen, record)
RecordsKnown(roster, k, seen) ==
    LET named(player) == player \in roster \/ player.number = 0
    IN  /\ seen = [x \in {"ok", "last", "at"} |-> seen[x]]
        /\ \A player \in DOMAIN seen.at : named(player)
        /\ seen.last # <<>> => named(seen.last[1])
Records == INSTANCE FoldInduction WITH Step <- RecordRead, Holds <- RecordsKnown

\* A record adds a player that is known, or anonymous, or one it had before.
LEMMA RecordKnown ==
    ASSUME NEW roster, NEW k \in Nat, NEW seen, RecordsKnown(roster, k - 1, seen), NEW record,
           record.what \in RecordKinds,
           record.what = "player" => record.player \in roster,
           record.what = "anonymous" => record.player.number = 0
    PROVE  RecordsKnown(roster, k, ReadRecord(seen, record))
<1> DEFINE named(player) == player \in roster \/ player.number = 0
<1>1. CASE record.what \in {"player", "anonymous"}
  <2> DEFINE here == Put(seen.at, record.player, record.x)
  <2>1. DOMAIN here = {record.player} \cup DOMAIN seen.at
    BY DEF Put
  <2> HIDE DEF here
  <2> DEFINE next == [seen EXCEPT !.last = <<record.player>>, !.at = here]
  <2>2. named(record.player)
    BY <1>1
  <2>3. next.at = here /\ next.last = <<record.player>> /\ next = [x \in {"ok", "last", "at"} |-> next[x]]
    BY DEF RecordsKnown
  <2>4. ReadRecord(seen, record) = next
    BY <1>1 DEF ReadRecord, here
  <2>5. next.last[1] = record.player
    BY <2>3
  <2> HIDE DEF next
  <2> QED BY <2>1, <2>2, <2>3, <2>4, <2>5 DEF RecordsKnown
<1>2. CASE record.what = "stray"
  <2>1. CASE seen.last = <<>>
    <3> DEFINE next == [seen EXCEPT !.ok = FALSE]
    <3>1. ReadRecord(seen, record) = next
      BY <1>2, <2>1 DEF ReadRecord
    <3>2. next.at = seen.at /\ next.last = seen.last /\ next = [x \in {"ok", "last", "at"} |-> next[x]]
      BY DEF RecordsKnown
    <3> HIDE DEF next
    <3> QED BY <3>1, <3>2 DEF RecordsKnown
  <2>2. CASE seen.last # <<>>
    <3> DEFINE here == Put(seen.at, seen.last[1], record.x)
               next == [seen EXCEPT !.at = here]
    <3>1. ReadRecord(seen, record) = next
      BY <1>2, <2>2 DEF ReadRecord
    <3>2. DOMAIN here = {seen.last[1]} \cup DOMAIN seen.at
      BY DEF Put
    <3> HIDE DEF here
    <3>3. next.at = here /\ next.last = seen.last /\ next = [x \in {"ok", "last", "at"} |-> next[x]]
      BY DEF RecordsKnown
    <3> HIDE DEF next
    <3> QED BY <2>2, <3>1, <3>2, <3>3 DEF RecordsKnown
  <2> QED BY <2>1, <2>2
<1>3. CASE record.what \in {"ball", "referee"}
  BY <1>3 DEF ReadRecord, RecordsKnown
<1> QED BY <1>1, <1>2, <1>3 DEF RecordKinds

----------------------------------------------------------------------------
\* The items a reader goes over

ScriptStep(c, items, pass) == items \o [k \in DOMAIN c.feed |-> InPass(c.feed[k], pass)]
ItemsOfFeed(c, n, items) ==
    /\ IsSeq(items)
    /\ \A j \in DOMAIN items : \E k \in DOMAIN c.feed : \E pass : items[j] = InPass(c.feed[k], pass)
Scripted == INSTANCE FoldInduction WITH Step <- ScriptStep, Holds <- ItemsOfFeed

\* Sportec goes over the framesets of its feed, once or twice.
LEMMA SportecScript ==
    ASSUME NEW source, source.reader = "sportec", IsSeq(source.feed), NEW opt
    PROVE  ItemsOfFeed(source, 0, Script(source, opt))
<1> DEFINE n == IF opt.only_alive THEN 2 ELSE 1
<1>1. DOMAIN Passes(opt) = 1..n /\ n \in Nat
  <2>1. DOMAIN <<1, 2>> = 1..2 /\ DOMAIN <<0>> = 1..1
    OBVIOUS
  <2>2. CASE opt.only_alive
    BY <2>1, <2>2 DEF Passes
  <2>3. CASE ~opt.only_alive
    BY <2>1, <2>3 DEF Passes
  <2> QED BY <2>2, <2>3
<1>2. Script(source, opt) = Scripted!Fold(source, <<>>, Passes(opt))
  BY DEF Script, Scripted!Fold, ScriptStep, FoldLeft, MapThenFoldSet, Max, Scripted!Last
<1>3. ItemsOfFeed(source, 0, <<>>)
  <2>1. <<>> = [k \in 1..0 |-> <<>>[k]] /\ DOMAIN <<>> = {}
    OBVIOUS
  <2> QED BY <2>1, IntervalSeq DEF ItemsOfFeed
<1>4. ASSUME NEW k \in 1..n, NEW items, ItemsOfFeed(source, k - 1, items)
      PROVE  ItemsOfFeed(source, k, ScriptStep(source, items, Passes(opt)[k]))
  <2> DEFINE more == [j \in DOMAIN source.feed |-> InPass(source.feed[j], Passes(opt)[k])]
  <2>1. IsSeq(more) /\ DOMAIN more = DOMAIN source.feed
    <3>1. Len(source.feed) \in Nat /\ DOMAIN source.feed = 1..Len(source.feed)
      BY SeqIs
    <3>2. more = [j \in 1..Len(source.feed) |-> more[j]]
      BY <3>1
    <3> HIDE DEF more
    <3> QED BY <3>1, <3>2, IntervalSeq
  <2>2. \A j \in DOMAIN more : more[j] = InPass(source.feed[j], Passes(opt)[k])
    OBVIOUS
  <2> HIDE DEF more
  <2>3. ASSUME NEW j \in DOMAIN (items \o more)
        PROVE  \E i \in DOMAIN source.feed : \E pass : (items \o more)[j] = InPass(source.feed[i], pass)
    <3>1. /\ Len(items) \in Nat /\ DOMAIN items = 1..Len(items)
          /\ Len(more) \in Nat /\ DOMAIN more = 1..Len(more)
          /\ DOMAIN (items \o more) = 1..(Len(items) + Len(more))
          /\ \A i \in 1..Len(items) : (items \o more)[i] = items[i]
          /\ \A i \in 1..Len(more) : (items \o more)[Len(items) + i] = more[i]
      BY <1>4, <2>1, ConcatIs DEF ItemsOfFeed
    <3>2. CASE j \in 1..Len(items)
      BY <1>4, <3>1, <3>2 DEF ItemsOfFeed
    <3>3. CASE j \notin 1..Len(items)
      <4>1. j - Len(items) \in 1..Len(more) /\ Len(items) + (j - Len(items)) = j
        BY <3>1, <3>3
      <4>2. (items \o more)[j] = more[j - Len(items)] /\ j - Len(items) \in DOMAIN more
        BY <3>1, <4>1
      <4> QED BY <2>1, <2>2, <4>2
    <3> QED BY <3>2, <3>3
  <2>4. IsSeq(items \o more)
    BY <1>4, <2>1, ConcatIs DEF ItemsOfFeed
  <2> QED BY <2>3, <2>4 DEF ItemsOfFeed, ScriptStep, more
<1>5. ItemsOfFeed(source, n, Scripted!Fold(source, <<>>, Passes(opt)))
  <2> HIDE DEF n
  <2> QED BY <1>1, <1>3, <1>4, Scripted!FoldHolds
<1> QED BY <1>2, <1>5 DEF ItemsOfFeed

\* The other readers go over the items of their feed.
LEMMA OtherScript ==
    ASSUME NEW source, source.reader # "sportec", NEW opt
    PROVE  Script(source, opt) = source.feed
BY DEF Script

----------------------------------------------------------------------------
\* What is known is kept

\* What holds of the loop of every reader after each turn: the frames are of
\* known players, the players of the metadata stay known, and what a reader
\* carries or has collected names known players as well.
ExtraKnown(extra, roster) ==
    \A k \in DOMAIN extra : "players" \in DOMAIN extra[k] /\ Known(extra[k].players, roster)
Closure(l, source) ==
    /\ Shape(l) /\ AllKnown(l.frames, l.roster)
    /\ source.reader \in {"skillcorner", "metrica csv", "metrica epts"} =>
           source.meta.roster \subseteq l.roster
    /\ source.reader = "tracab" => l.periods = TracabPeriods(source.meta)
    /\ source.reader = "pff" => PffCarry(l.carry) /\ ExtraKnown(l.carry.extra, l.roster)
    /\ source.reader = "hawkeye" => ParsedKnown(l.carry, l.roster)
    /\ source.reader = "sportec" =>
           l.periods = source.meta.periods /\ IsFiniteSet(DOMAIN l.carry.rows)

\* Closure is kept by a turn without a frame.
LEMMA SkipsClosed ==
    ASSUME NEW source, NEW l, Closure(l, source), NEW m, Skips(l, m),
           source.reader \in {"pff", "hawkeye", "sportec"} => m.carry = l.carry
    PROVE  Closure(m, source)
BY DEF Closure, Skips

\* It is kept by a frame of known players.
LEMMA AddsClosed ==
    ASSUME NEW source, source.reader \notin {"pff", "hawkeye", "sportec"},
           NEW l, Closure(l, source), NEW m, NEW f, NEW P, Adds(l, m, f, P),
           Known(f.players, m.roster)
    PROVE  Closure(m, source)
<1>1. AllKnown(m.frames, m.roster) /\ Shape(m) /\ l.roster \subseteq m.roster
  BY AddsKnown DEF Closure
<1>2. m.periods = l.periods
  BY DEF Adds
<1> QED BY <1>1, <1>2 DEF Closure

\* The players of a frame are those it is made of.
LEMMA FramePlayers ==
    \A id, period, time, players, ball, owner, state :
        Frame(id, period, time, players, ball, owner, state).players = players
BY DEF Frame

\* Second Spectrum enrols whom it delivers.
LEMMA SecondSpectrumClosed ==
    ASSUME NEW source, source.reader = "second spectrum", NEW l, Closure(l, source),
           NEW opt, NEW raw
    PROVE  Closure(ReadSecondSpectrum(l, opt, source.meta, raw), source)
<1> DEFINE m == ReadSecondSpectrum(l, opt, source.meta, raw)
           f == FrameFromFrameData(source.meta, raw)
<1>1. Skips(l, m) \/ Adds(l, m, f, PlayersOf(raw.tracks))
  BY SecondSpectrumTurn DEF Closure
<1>2. ASSUME Adds(l, m, f, PlayersOf(raw.tracks)) PROVE Known(f.players, m.roster)
  <2>1. f.players = raw.tracks
    BY DEF FrameFromFrameData, Frame
  <2> QED BY <1>2, <2>1, PlayersKnown DEF Adds
<1> HIDE DEF m, f
<1> QED BY <1>1, <1>2, SkipsClosed, AddsClosed DEF m

\* Signality delivers whom it knows.
LEMMA SignalityClosed ==
    ASSUME NEW source, source.reader = "signality", NEW l, Closure(l, source), NEW opt, NEW raw
    PROVE  Closure(ReadSignality(l, opt, source.meta, raw), source)
<1> DEFINE m == ReadSignality(l, opt, source.meta, raw)
           f == SignalityFrame(l, source.meta, raw)
<1>1. Skips(l, m) \/ Adds(l, m, f, {})
  BY SignalityTurn DEF Closure
<1>2. ASSUME Adds(l, m, f, {}) PROVE Known(f.players, m.roster)
  <2>1. f.players = KnownTracks(raw.tracks, l.roster)
    BY DEF SignalityFrame, Frame
  <2>2. m.roster = l.roster
    BY <1>2 DEF Adds
  <2> QED BY <2>1, <2>2, PlayersKnown
<1> HIDE DEF m, f
<1> QED BY <1>1, <1>2, SkipsClosed, AddsClosed DEF m

\* StatsPerform enrols whom it delivers.
LEMMA StatsPerformClosed ==
    ASSUME NEW source, source.reader = "statsperform", NEW l, Closure(l, source), NEW opt, NEW raw
    PROVE  Closure(ReadStatsPerform(l, opt, raw), source)
<1> DEFINE m == ReadStatsPerform(l, opt, raw)
           f == StatsPerformFrame(raw)
           P == PlayersOf(SideTracks(raw))
<1>1. \/ Skips(l, m)
      \/ Adds(l, m, f, P)
      \/ Shape(m) /\ m.frames = l.frames /\ m.periods = l.periods /\ m.roster = l.roster \cup P
  BY StatsPerformTurn DEF Closure
<1>2. ASSUME Adds(l, m, f, P) PROVE Known(f.players, m.roster)
  <2>1. f.players = SideTracks(raw)
    BY DEF StatsPerformFrame, Frame
  <2> QED BY <1>2, <2>1, PlayersKnown DEF Adds
<1> HIDE DEF m, f, P
<1>3. ASSUME Shape(m), m.frames = l.frames, m.roster = l.roster \cup P PROVE Closure(m, source)
  BY <1>3, KnownGrows DEF Closure
<1> QED BY <1>1, <1>2, <1>3, SkipsClosed, AddsClosed DEF m

\* The columns of EPTS are players of the metadata.
LEMMA MetricaEptsClosed ==
    ASSUME NEW source, source.reader = "metrica epts", NEW l, Closure(l, source), NEW opt,
           NEW raw, PlayersOf(raw.tracks) \subseteq source.meta.roster
    PROVE  Closure(ReadMetricaEpts(l, opt, source.meta, raw), source)
<1> DEFINE m == ReadMetricaEpts(l, opt, source.meta, raw)
           f == EptsFrame(l, raw)
<1>1. Skips(l, m) \/ Adds(l, m, f, {})
  BY MetricaEptsTurn DEF Closure
<1>2. ASSUME Adds(l, m, f, {}) PROVE Known(f.players, m.roster)
  <2>1. f.players = raw.tracks
    BY DEF EptsFrame, Frame
  <2>2. PlayersOf(raw.tracks) \subseteq m.roster
    BY <1>2 DEF Adds, Closure
  <2> QED BY <2>1, <2>2, PlayersKnown
<1> HIDE DEF m, f
<1> QED BY <1>1, <1>2, SkipsClosed, AddsClosed DEF m

\* So are those of the two files.
LEMMA MetricaCsvClosed ==
    ASSUME NEW source, source.reader = "metrica csv", NEW l, Closure(l, source), NEW opt,
           NEW raw, NamesKnown(source, raw)
    PROVE  Closure(ReadMetricaCsv(l, opt, raw), source)
<1> DEFINE m      == ReadMetricaCsv(l, opt, raw)
           opened == [l EXCEPT !.periods = PeriodsAfter(@, raw.home)]
           f      == CsvFrame(opened, raw)
<1>1. \/ Skips(l, m) \/ Skips(opened, m)
      \/ raw.home # Absent /\ raw.away # Absent /\ Adds(opened, m, f, {})
  BY MetricaCsvTurn DEF Closure
<1>2. Closure(opened, source)
  BY DEF Closure, Shape, LoopFields
<1>3. ASSUME raw.home # Absent, raw.away # Absent, Adds(opened, m, f, {})
      PROVE  Known(f.players, m.roster)
  <2>1. f.players = raw.home.tracks \cup raw.away.tracks
    BY DEF CsvFrame, Frame
  <2>2. PlayersOf(raw.home.tracks \cup raw.away.tracks) \subseteq m.roster
    <3>1. /\ PlayersOf(raw.home.tracks) \subseteq source.meta.roster
          /\ PlayersOf(raw.away.tracks) \subseteq source.meta.roster
      BY <1>3 DEF NamesKnown
    <3>2. source.meta.roster \subseteq m.roster
      BY <1>2, <1>3 DEF Adds, Closure
    <3> QED BY <3>1, <3>2 DEF PlayersOf
  <2> QED BY <2>1, <2>2, PlayersKnown
<1> HIDE DEF m, f, opened
<1> QED BY <1>1, <1>2, <1>3, SkipsClosed, AddsClosed DEF m

\* The objects of SkillCorner are looked up, or players already.
LEMMA SkillCornerClosed ==
    ASSUME NEW source, source.reader = "skillcorner", NEW l, Closure(l, source), NEW opt,
           NEW raw, NamesKnown(source, raw), IsSeq(raw.records),
           \A k \in DOMAIN raw.records : raw.records[k].what \in RecordKinds
    PROVE  Closure(ReadSkillCorner(l, opt, source.meta, raw), source)
<1> DEFINE m    == ReadSkillCorner(l, opt, source.meta, raw)
           data == IF source.meta.version = "V2" THEN FrameDataV2(l, raw) ELSE FrameDataV3(l, raw)
           f    == Frame(raw.id, raw.period, raw.clock - ClockStart(raw.period),
                         data.tracks, HasBall(raw.records), raw.owner, StateOf(raw))
<1>1. Skips(l, m) \/ (Adds(l, m, f, {}) /\ data.ok)
  BY SkillCornerTurn DEF Closure
<1>2. f.players = data.tracks
  BY FramePlayers
<1>3. ASSUME source.meta.version = "V2" PROVE Known(data.tracks, l.roster)
  <2> DEFINE seen == Records!Fold(l.roster, [ok |-> TRUE, last |-> <<>>, at |-> <<>>], raw.records)
  <2>1. data = [ok |-> seen.ok, tracks |-> TracksOf(seen.at)]
    BY <1>3 DEF FrameDataV2, Records!Fold, RecordRead, FoldLeft, MapThenFoldSet, Max, Records!Last
  <2>2. Len(raw.records) \in Nat /\ DOMAIN raw.records = 1..Len(raw.records)
    BY SeqIs
  <2>3. RecordsKnown(l.roster, 0, [ok |-> TRUE, last |-> <<>>, at |-> <<>>])
    BY DEF RecordsKnown
  <2>4. ASSUME NEW k \in 1..Len(raw.records), NEW s, RecordsKnown(l.roster, k - 1, s)
        PROVE  RecordsKnown(l.roster, k, RecordRead(l.roster, s, raw.records[k]))
    <3>1. /\ raw.records[k].what = "player" => raw.records[k].player \in l.roster
          /\ raw.records[k].what = "anonymous" => raw.records[k].player.number = 0
          /\ raw.records[k].what \in RecordKinds
      BY <1>3, <2>2, <2>4 DEF NamesKnown, Closure
    <3> QED BY <2>2, <2>4, <3>1, RecordKnown DEF RecordRead
  <2>5. RecordsKnown(l.roster, Len(raw.records), seen)
    BY <2>2, <2>3, <2>4, Records!FoldHolds
  <2> HIDE DEF seen
  <2>6. data.tracks = TracksOf(seen.at)
    BY <2>1
  <2> QED BY <2>5, <2>6 DEF RecordsKnown, Known, TracksOf, Seen
<1>4. ASSUME source.meta.version # "V2", data.ok PROVE Known(data.tracks, l.roster)
  BY <1>4 DEF FrameDataV3, Known, Seen
<1> HIDE DEF m, f, data
<1>5. ASSUME Adds(l, m, f, {}), data.ok PROVE Known(f.players, m.roster)
  <2>1. m.roster = l.roster
    BY <1>5 DEF Adds
  <2> QED BY <1>2, <1>3, <1>4, <1>5, <2>1
<1> QED BY <1>1, <1>5, SkipsClosed, AddsClosed DEF m

\* What closure says of the reader of PFF.
LEMMA PffClosure ==
    ASSUME NEW source, source.reader = "pff", NEW m, Shape(m), AllKnown(m.frames, m.roster),
           PffCarry(m.carry), ExtraKnown(m.carry.extra, m.roster)
    PROVE  Closure(m, source)
<1>1. source.reader \notin {"skillcorner", "metrica csv", "metrica epts", "tracab", "hawkeye", "sportec"}
  OBVIOUS
<1> QED BY <1>1 DEF Closure

\* PFF delivers whom it knows, also in extra time.
LEMMA PffClosed ==
    ASSUME NEW source, source.reader = "pff", NEW l, Closure(l, source), NEW opt, NEW raw
    PROVE  Closure(ReadPff(l, opt, raw), source)
<1> DEFINE m == ReadPff(l, opt, raw)
           f == PffFrameOf(l, raw)
<1>1. /\ PffCarry(m.carry)
      /\ \/ Skips(l, m) /\ m.carry.extra = l.carry.extra
         \/ Adds(l, m, f, {}) /\ m.carry.extra = l.carry.extra
         \/ Skips(l, m) /\ m.carry.extra = Append(l.carry.extra, f)
  BY PffTurn DEF Closure
<1>2. Known(f.players, l.roster)
  <2>1. Carry(l, AfterEvent(l.carry, raw)).roster = l.roster
    BY DEF Closure, Shape, Carry, LoopFields
  <2>2. f.players \subseteq KnownTracks(raw.tracks, l.roster)
    BY <2>1 DEF PffFrameOf, PffFrame, Frame
  <2> QED BY <2>2, PlayersKnown
<1>6. "players" \in DOMAIN f
  BY DEF PffFrameOf, PffFrame, Frame
<1> HIDE DEF m, f
<1>0. Shape(l) /\ AllKnown(l.frames, l.roster) /\ ExtraKnown(l.carry.extra, l.roster)
  BY DEF Closure
<1>3. ASSUME Skips(l, m) /\ m.carry.extra = l.carry.extra
      PROVE  Closure(m, source)
  BY <1>0, <1>1, <1>3, PffClosure DEF Skips
<1>4. ASSUME Adds(l, m, f, {}) /\ m.carry.extra = l.carry.extra
      PROVE  Closure(m, source)
  <2>1. m.roster = l.roster /\ m.periods = l.periods
    BY <1>4 DEF Adds
  <2>2. AllKnown(m.frames, m.roster) /\ Shape(m)
    BY <1>0, <1>2, <1>4, <2>1, AddsKnown
  <2> QED BY <1>0, <1>1, <1>4, <2>1, <2>2, PffClosure
<1>5. ASSUME Skips(l, m) /\ m.carry.extra = Append(l.carry.extra, f)
      PROVE  Closure(m, source)
  <2>1. ExtraKnown(Append(l.carry.extra, f), l.roster)
    <3>1. IsSeq(l.carry.extra) /\ ExtraKnown(l.carry.extra, l.roster)
      BY DEF Closure, PffCarry
    <3> DEFINE g == Append(l.carry.extra, f)
               n == Len(l.carry.extra)
    <3>2. /\ n \in Nat /\ DOMAIN l.carry.extra = 1..n /\ DOMAIN g = 1..(n + 1)
          /\ \A k \in 1..n : g[k] = l.carry.extra[k]
          /\ g[n + 1] = f
      BY <3>1, AppendIs
    <3> HIDE DEF g, n
    <3>3. ASSUME NEW k \in DOMAIN g
          PROVE  "players" \in DOMAIN g[k] /\ Known(g[k].players, l.roster)
      <4>1. k \in 1..n \/ k = n + 1
        BY <3>2
      <4> QED BY <1>2, <1>6, <3>1, <3>2, <4>1 DEF ExtraKnown
    <3> QED BY <3>3 DEF ExtraKnown, g
  <2> QED BY <1>0, <1>1, <1>5, <2>1, PffClosure DEF Skips
<1> QED BY <1>1, <1>3, <1>4, <1>5 DEF m

\* A period of TRACAB after the other that contains the frame.
TracabStep(c, l, p) == TracabInPeriod(l, c.source.opt, c.source.meta, c.raw, p)
TracabKept(c, k, l) == Closure(l, c.source)
Yielding == INSTANCE FoldInduction WITH Step <- TracabStep, Holds <- TracabKept

\* TRACAB reads a frame once for every period that contains it.
LEMMA TracabYields ==
    ASSUME NEW c, NEW l
    PROVE  ReadTracab(l, c.source.opt, c.source.meta, c.raw) =
               IF c.source.opt.only_alive /\ NotAlive(c.source.meta, c.raw) THEN l
               ELSE Yielding!Fold(c, l, Ascending({p \in DOMAIN l.periods :
                                                      Covers(l.periods[p], c.raw.id)}))
BY DEF ReadTracab, Yielding!Fold, TracabStep, FoldLeft, MapThenFoldSet, Max, Yielding!Last

\* The periods of TRACAB are phases of its metadata.
LEMMA TracabPeriodsFinite ==
    ASSUME NEW meta, IsFiniteSet(DOMAIN meta.phases)
    PROVE  IsFiniteSet(DOMAIN TracabPeriods(meta)) /\ DOMAIN TracabPeriods(meta) \subseteq DOMAIN meta.phases
<1>1. DOMAIN TracabPeriods(meta) \in SUBSET (DOMAIN meta.phases)
  BY DEF TracabPeriods, PhaseIds
<1> QED BY <1>1, FS_Subset

\* TRACAB enrols whom it does not know, or raises.
LEMMA TracabClosed ==
    ASSUME NEW source, source.reader = "tracab", FiniteNumbers(DOMAIN source.meta.phases),
           NEW l, Closure(l, source), NEW raw
    PROVE  Closure(ReadTracab(l, source.opt, source.meta, raw), source)
<1> DEFINE c      == [source |-> source, raw |-> raw]
           within == {p \in DOMAIN l.periods : Covers(l.periods[p], raw.id)}
<1>1. l.periods = TracabPeriods(source.meta)
  BY DEF Closure
<1>2. within \in SUBSET Int /\ IsFiniteSet(within)
  <2>1. within \in SUBSET (DOMAIN l.periods)
    OBVIOUS
  <2> HIDE DEF within
  <2> QED BY <1>1, <2>1, TracabPeriodsFinite, FS_Subset DEF FiniteNumbers
<1>3. DOMAIN Ascending(within) = 1..Cardinality(within) /\ Cardinality(within) \in Nat
  <2> HIDE DEF within
  <2> QED BY <1>2, AscendingIs
<1>4. c.source = source /\ c.raw = raw
  OBVIOUS
<1> HIDE DEF c
<1>5. ReadTracab(l, source.opt, source.meta, raw) =
          IF source.opt.only_alive /\ NotAlive(source.meta, raw) THEN l
          ELSE Yielding!Fold(c, l, Ascending(within))
  BY <1>4, TracabYields
<1> HIDE DEF within
<1>6. ASSUME NEW k, NEW m, TracabKept(c, k - 1, m), NEW p
      PROVE  TracabKept(c, k, TracabStep(c, m, p))
  <2>1. Closure(m, source) /\ Shape(m)
    BY <1>4, <1>6 DEF TracabKept, Closure
  <2> DEFINE n == TracabInPeriod(m, source.opt, source.meta, raw, p)
             f == TracabFrame(m, raw, p)
             P == PlayersOf(Tracked(raw)) \ m.roster
  <2>2. Skips(m, n) \/ Adds(m, n, f, P)
    BY <2>1, TracabTurn
  <2>3. ASSUME Adds(m, n, f, P) PROVE Known(f.players, n.roster)
    <3>1. f.players = Tracked(raw)
      BY DEF TracabFrame, Frame
    <3> QED BY <2>3, <3>1, PlayersKnown DEF Adds
  <2>4. TracabStep(c, m, p) = n
    BY <1>4 DEF TracabStep
  <2> HIDE DEF n, f, P
  <2> QED BY <1>4, <2>1, <2>2, <2>3, <2>4, SkipsClosed, AddsClosed DEF TracabKept
<1>7. TracabKept(c, 0, l)
  BY <1>4 DEF TracabKept
<1>8. TracabKept(c, Cardinality(within), Yielding!Fold(c, l, Ascending(within)))
  BY <1>3, <1>6, <1>7, Yielding!FoldHolds
<1> QED BY <1>4, <1>5, <1>8 DEF TracabKept

\* The frames of a minute of Hawk-Eye are numbers, finitely many.
LEMMA HawkEyeFrames ==
    ASSUME NEW raw, raw.minute \in Nat, IsFiniteSet(raw.balls), raw.balls \subseteq Nat,
           IsFiniteSet(raw.people), \A p \in raw.people : p.tick \in Nat
    PROVE  /\ IsFiniteSet({FrameId(raw, tick) : tick \in raw.balls})
           /\ {FrameId(raw, tick) : tick \in raw.balls} \subseteq Int
           /\ IsFiniteSet({FrameId(raw, p.tick) : p \in OnField(raw)})
           /\ {FrameId(raw, p.tick) : p \in OnField(raw)} \subseteq Int
<1>1. \A t \in Nat : FrameId(raw, t) \in Int
  <2>1. Ticks \in Nat
    BY FeedAssumption
  <2> QED BY <2>1 DEF FrameId
<1>2. IsFiniteSet(OnField(raw)) /\ OnField(raw) \subseteq raw.people
  BY FS_Subset DEF OnField
<1>3. IsFiniteSet({FrameId(raw, tick) : tick \in raw.balls})
  <2> DEFINE f == [t \in raw.balls |-> FrameId(raw, t)]
  <2>1. {f[t] : t \in raw.balls} = {FrameId(raw, tick) : tick \in raw.balls}
    OBVIOUS
  <2> HIDE DEF f
  <2>2. IsFiniteSet({f[t] : t \in raw.balls})
    BY ImageFinite
  <2> QED BY <2>1, <2>2
<1>4. IsFiniteSet({FrameId(raw, p.tick) : p \in OnField(raw)})
  <2> DEFINE S == OnField(raw)
             f == [p \in S |-> FrameId(raw, p.tick)]
  <2>1. {f[t] : t \in S} = {FrameId(raw, p.tick) : p \in S}
    OBVIOUS
  <2> HIDE DEF f
  <2>2. IsFiniteSet({f[t] : t \in S})
    BY <1>2, ImageFinite
  <2> QED BY <2>1, <2>2
<1> QED BY <1>1, <1>2, <1>3, <1>4

\* The frame of a tick is a frame of its players.
LEMMA TickFrameIs ==
    ASSUME NEW raw, NEW tick, NEW ball, NEW players
    PROVE  LET f == TickFrame(raw, tick, ball, players)
           IN  f = [x \in FrameFields |-> f[x]] /\ f.players = players
BY DEF TickFrame, Frame, FrameFields

\* Hawk-Eye raises when it meets a player it does not know.
LEMMA HawkEyeClosed ==
    ASSUME NEW source, source.reader = "hawkeye", NEW l, Closure(l, source), NEW opt, NEW raw,
           raw.minute \in Nat, IsFiniteSet(raw.balls), raw.balls \subseteq Nat,
           IsFiniteSet(raw.people), \A p \in raw.people : p.tick \in Nat
    PROVE  Closure(ReadHawkEye(l, opt, raw), source)
<1> DEFINE m == ReadHawkEye(l, opt, raw)
           parsed == l.carry.parsed
           balls  == {FrameId(raw, tick) : tick \in raw.balls}
           bodies == {FrameId(raw, p.tick) : p \in OnField(raw)}
           rolled == WithBalls(parsed, raw)
           next   == WithPlayers(rolled, raw)
<1>1. /\ Shape(m) /\ m.frames = l.frames /\ m.roster = l.roster \cup raw.roster
      /\ \/ m.carry = l.carry
         \/ /\ m.carry = [parsed |-> next]
            /\ \A p \in OnField(raw) : p.player \in m.roster
  BY HawkEyeTurn DEF Closure
<1>2. ParsedKnown(l.carry, m.roster) /\ AllKnown(m.frames, m.roster)
  BY <1>1 DEF Closure, ParsedKnown, AllKnown, Known
<1>3. IsFiniteSet(balls) /\ balls \subseteq Int /\ IsFiniteSet(bodies) /\ bodies \subseteq Int
  BY HawkEyeFrames
<1>5. ParsedKnown([parsed |-> rolled], m.roster)
  <2> DEFINE made(id) == TickFrame(raw, CHOOSE tick \in raw.balls : FrameId(raw, tick) = id, TRUE, {})
             mine == [id \in balls |-> made(id)]
  <2>1. rolled = Over(mine, parsed)
    BY DEF WithBalls
  <2>6. \A id : made(id) = [x \in FrameFields |-> made(id)[x]] /\ made(id).players = {}
    <3> SUFFICES ASSUME NEW id
                 PROVE  made(id) = [x \in FrameFields |-> made(id)[x]] /\ made(id).players = {}
      OBVIOUS
    <3> DEFINE t == CHOOSE tick \in raw.balls : FrameId(raw, tick) = id
               ball == TRUE
    <3>1. made(id) = TickFrame(raw, t, ball, {})
      OBVIOUS
    <3> HIDE DEF made, t, ball
    <3> QED BY <3>1, TickFrameIs
  <2> HIDE DEF made
  <2>2. \A id \in balls : mine[id] = [x \in FrameFields |-> mine[id][x]] /\ mine[id].players = {}
    BY <2>6
  <2>3. DOMAIN mine = balls
    OBVIOUS
  <2> HIDE DEF mine, balls, rolled, parsed
  <2>4. /\ rolled = [id \in DOMAIN rolled |-> rolled[id]] /\ DOMAIN rolled = balls \cup DOMAIN parsed
        /\ \A id \in DOMAIN rolled : rolled[id] = IF id \in balls THEN mine[id] ELSE parsed[id]
    BY <2>1, <2>3 DEF Over
  <2>5. IsFiniteSet(DOMAIN rolled) /\ DOMAIN rolled \subseteq Int
    <3>1. IsFiniteSet(DOMAIN parsed) /\ DOMAIN parsed \subseteq Int
      BY <1>2 DEF ParsedKnown, parsed
    <3>2. IsFiniteSet(balls \cup DOMAIN parsed)
      BY <1>3, <3>1, FS_Union
    <3> QED BY <1>3, <2>4, <3>1, <3>2
  <2>7. ASSUME NEW id \in DOMAIN rolled
        PROVE  rolled[id] = [x \in FrameFields |-> rolled[id][x]] /\ Known(rolled[id].players, m.roster)
    <3>1. CASE id \in balls
      <4>1. rolled[id] = mine[id]
        BY <2>4, <3>1
      <4> QED BY <2>2, <3>1, <4>1 DEF Known
    <3>2. CASE id \notin balls
      <4>1. rolled[id] = parsed[id] /\ id \in DOMAIN parsed
        BY <2>4, <3>2
      <4> QED BY <1>2, <4>1 DEF ParsedKnown, parsed
    <3> QED BY <3>1, <3>2
  <2>8. [parsed |-> rolled].parsed = rolled
    OBVIOUS
  <2> QED BY <2>4, <2>5, <2>7, <2>8 DEF ParsedKnown
<1>6. ASSUME m.carry = [parsed |-> next], \A p \in OnField(raw) : p.player \in m.roster
      PROVE  ParsedKnown(m.carry, m.roster)
  <2> DEFINE here(id) == {p \in OnField(raw) : FrameId(raw, p.tick) = id}
             tracks(id) == {Seen(p.player, p.x) : p \in here(id)}
             frame(id) == IF id \in DOMAIN rolled
                          THEN [rolled[id] EXCEPT
                                   !.players = {s \in @ : s.player \notin PlayersOf(tracks(id))}
                                               \cup tracks(id)]
                          ELSE TickFrame(raw, (CHOOSE p \in here(id) : TRUE).tick, FALSE, tracks(id))
  <2>1. next = [id \in DOMAIN rolled \cup bodies |-> frame(id)]
    BY DEF WithPlayers
  <2>2. \A id : Known(tracks(id), m.roster)
    BY <1>6 DEF Known, Seen
  <2> HIDE DEF tracks, rolled
  <2>3. ASSUME NEW id \in DOMAIN rolled \cup bodies
        PROVE  frame(id) = [x \in FrameFields |-> frame(id)[x]] /\ Known(frame(id).players, m.roster)
    <3>1. CASE id \notin DOMAIN rolled
      <4> DEFINE t    == (CHOOSE p \in here(id) : TRUE).tick
                 ball == FALSE
      <4>1. frame(id) = TickFrame(raw, t, ball, tracks(id))
        BY <3>1
      <4> HIDE DEF frame, t, ball
      <4>2. frame(id) = [x \in FrameFields |-> frame(id)[x]] /\ frame(id).players = tracks(id)
        BY <4>1, TickFrameIs
      <4> QED BY <2>2, <4>2
    <3>2. CASE id \in DOMAIN rolled
      <4>1. rolled[id] = [x \in FrameFields |-> rolled[id][x]] /\ Known(rolled[id].players, m.roster)
        BY <1>5, <3>2 DEF ParsedKnown
      <4> DEFINE all == {s \in rolled[id].players : s.player \notin PlayersOf(tracks(id))} \cup tracks(id)
      <4>2. Known(all, m.roster)
        BY <2>2, <4>1 DEF Known
      <4> HIDE DEF all
      <4>3. frame(id) = [rolled[id] EXCEPT !.players = all]
        BY <3>2 DEF all
      <4> QED BY <4>1, <4>2, <4>3 DEF FrameFields
    <3> QED BY <3>1, <3>2
  <2> HIDE DEF frame, next, bodies
  <2>4. /\ next = [id \in DOMAIN next |-> next[id]] /\ DOMAIN next = DOMAIN rolled \cup bodies
        /\ \A id \in DOMAIN next : next[id] = frame(id)
    BY <2>1
  <2>5. IsFiniteSet(DOMAIN next) /\ DOMAIN next \subseteq Int
    <3>1. IsFiniteSet(DOMAIN rolled) /\ DOMAIN rolled \subseteq Int
      BY <1>5 DEF ParsedKnown
    <3>2. IsFiniteSet(DOMAIN rolled \cup bodies)
      BY <1>3, <3>1, FS_Union
    <3> QED BY <1>3, <2>4, <3>1, <3>2
  <2>6. m.carry.parsed = next
    BY <1>6
  <2> HIDE DEF m
  <2> QED BY <1>6, <2>3, <2>4, <2>5, <2>6 DEF ParsedKnown
<1> HIDE DEF m, next, balls, bodies, rolled
<1>7. ParsedKnown(m.carry, m.roster)
  BY <1>1, <1>2, <1>6
<1>8. source.reader \notin {"skillcorner", "metrica csv", "metrica epts", "tracab", "pff", "sportec"}
  OBVIOUS
<1> QED BY <1>1, <1>2, <1>7, <1>8 DEF Closure, m

\* Sportec only collects.
LEMMA SportecClosed ==
    ASSUME NEW source, source.reader = "sportec", NEW l, Closure(l, source), NEW opt, NEW raw,
           IsSeq(raw.rows)
    PROVE  Closure(ReadSportec(l, opt, source.meta, raw), source)
<1> DEFINE c == [opt |-> opt, raw |-> raw]
           m == ReadSportec(l, opt, source.meta, raw)
           rows == Collection!Fold(c, l.carry, raw.rows)
<1>1. c.opt = opt /\ c.raw = raw
  OBVIOUS
<1> HIDE DEF c
<1>2. Skips(l, m) /\ (m.carry = l.carry \/ m.carry = rows)
  BY <1>1, SportecTurn DEF Closure
<1>3. Len(raw.rows) \in Nat /\ DOMAIN raw.rows = 1..Len(raw.rows)
  BY SeqIs
<1>4. RowsKept(c, 0, l.carry)
  BY DEF RowsKept, Closure
<1>5. ASSUME NEW k, NEW carry, RowsKept(c, k - 1, carry), NEW row
      PROVE  RowsKept(c, k, Collecting(c, carry, row))
  <2>1. IsFiniteSet(DOMAIN carry.rows)
    BY <1>5 DEF RowsKept
  <2>2. ASSUME NEW key, NEW value PROVE IsFiniteSet(DOMAIN Put(carry.rows, key, value))
    <3>1. DOMAIN Put(carry.rows, key, value) = DOMAIN carry.rows \cup {key}
      BY DEF Put
    <3> QED BY <2>1, <3>1, FS_AddElement
  <2> QED BY <2>1, <2>2 DEF RowsKept, Collecting, CollectRow
<1>6. RowsKept(c, Len(raw.rows), rows)
  <2> HIDE DEF m
  <2> QED BY <1>3, <1>4, <1>5, Collection!FoldHolds
<1>7. IsFiniteSet(DOMAIN m.carry.rows)
  <2> HIDE DEF m, rows
  <2> QED BY <1>2, <1>6 DEF RowsKept, Closure
<1>8. source.reader \notin {"skillcorner", "metrica csv", "metrica epts", "tracab", "pff", "hawkeye"}
  OBVIOUS
<1> HIDE DEF m
<1> QED BY <1>2, <1>7, <1>8 DEF Closure, Skips, m

----------------------------------------------------------------------------
\* How the loops start

\* A loop starts without a frame.
LEMMA Starts ==
    ASSUME NEW periods, NEW roster, NEW carry
    PROVE  LET l == Start(periods, roster, carry)
           IN  /\ Shape(l) /\ l.frames = <<>> /\ l.periods = periods /\ l.roster = roster
               /\ l.carry = carry /\ \A any : AllKnown(l.frames, any)
BY EmptyIs DEF Start, Shape, LoopFields, AllKnown

\* What closure says of the readers that carry no players.
LEMMA PlainClosure ==
    ASSUME NEW source, source.reader \notin {"tracab", "pff", "hawkeye", "sportec"},
           NEW l, Shape(l), AllKnown(l.frames, l.roster), l.roster = source.meta.roster
    PROVE  Closure(l, source)
BY DEF Closure

\* Closure holds when the reader starts.
LEMMA BeginClosed ==
    ASSUME NEW source, WellFormed(source)
    PROVE  Closure(Begin(source), source)
<1> DEFINE m == Begin(source)
<1>1. CASE source.reader = "tracab"
  <2>1. m = Start(TracabPeriods(source.meta), source.meta.roster, NoPeriod)
    BY <1>1 DEF Begin, StartTracab
  <2> HIDE DEF m
  <2> QED BY <1>1, <2>1, Starts DEF Closure, m
<1>2. CASE source.reader = "skillcorner"
  <2>1. m = Start(SkillCornerPeriods(source.meta.whole), source.meta.roster, NoPeriod)
    BY <1>2 DEF Begin, StartSkillCorner
  <2> HIDE DEF m
  <2> QED BY <1>2, <2>1, Starts, PlainClosure DEF m
<1>3. CASE source.reader = "second spectrum"
  <2>1. m = Start(SecondSpectrumPeriods(source.meta), source.meta.roster, NoPeriod)
    BY <1>3 DEF Begin, StartSecondSpectrum
  <2> HIDE DEF m
  <2>2. source.reader \notin {"tracab", "pff", "hawkeye", "sportec"}
    BY <1>3
  <2>3. Shape(m) /\ AllKnown(m.frames, m.roster) /\ m.roster = source.meta.roster
    BY <2>1, Starts
  <2> QED BY <2>2, <2>3, PlainClosure DEF m
<1>4. CASE source.reader = "pff"
  <2> DEFINE c == [state |-> "dead", owner |-> Nobody, extra |-> <<>>, made |-> 0]
  <2>1. m = Start(PffPeriods(source.meta.whole), source.meta.roster, c)
    BY <1>4 DEF Begin, StartPff
  <2>2. PffCarry(c) /\ \A any : ExtraKnown(c.extra, any)
    BY EmptyIs DEF PffCarry, CarryFields, ExtraKnown
  <2> HIDE DEF m, c
  <2> QED BY <1>4, <2>1, <2>2, Starts, PffClosure DEF m
<1>5. CASE source.reader = "signality"
  <2> DEFINE l == Start(SignalityPeriods(source.meta.whole), source.meta.roster, [period |-> NoPeriod])
  <2>1. m = IF NotEnded(source.meta.whole) THEN Fail(l, "not ended") ELSE l
    BY <1>5 DEF Begin, StartSignality
  <2>2. Shape(l) /\ AllKnown(l.frames, l.roster)
    BY Starts
  <2> HIDE DEF m, l
  <2>3. Closure(l, source)
    BY <1>5, <2>2 DEF Closure
  <2>4. Skips(l, m)
    BY <2>1, <2>2, Turns
  <2> QED BY <1>5, <2>3, <2>4, SkipsClosed DEF m
<1>6. CASE source.reader = "metrica csv"
  <2>1. m = Start(<<>>, source.meta.roster, NoPeriod)
    BY <1>6 DEF Begin, StartMetricaCsv
  <2> HIDE DEF m
  <2>2. source.reader \notin {"tracab", "pff", "hawkeye", "sportec"}
    BY <1>6
  <2>3. Shape(m) /\ AllKnown(m.frames, m.roster) /\ m.roster = source.meta.roster
    BY <2>1, Starts
  <2> QED BY <2>2, <2>3, PlainClosure DEF m
<1>7. CASE source.reader = "metrica epts"
  <2>1. m = Start(source.meta.periods, source.meta.roster, 1)
    BY <1>7 DEF Begin, StartMetricaEpts
  <2> HIDE DEF m
  <2>2. source.reader \notin {"tracab", "pff", "hawkeye", "sportec"}
    BY <1>7
  <2>3. Shape(m) /\ AllKnown(m.frames, m.roster) /\ m.roster = source.meta.roster
    BY <2>1, Starts
  <2> QED BY <2>2, <2>3, PlainClosure DEF m
<1>8. CASE source.reader = "statsperform"
  <2>1. m = Start(source.meta.periods, source.meta.roster, NoPeriod)
    BY <1>8 DEF Begin, StartStatsPerform
  <2> HIDE DEF m
  <2> QED BY <1>8, <2>1, Starts, PlainClosure DEF m
<1>9. CASE source.reader = "hawkeye"
  <2> DEFINE c == [parsed |-> <<>>]
  <2>1. m = Start(<<>>, {}, c)
    BY <1>9 DEF Begin, StartHawkEye
  <2>2. \A any : ParsedKnown(c, any)
    <3>1. <<>> = [id \in DOMAIN <<>> |-> <<>>[id]] /\ DOMAIN <<>> = {} /\ c.parsed = <<>>
      BY EmptyIs
    <3> QED BY <3>1, FS_EmptySet DEF ParsedKnown
  <2> HIDE DEF m, c
  <2> QED BY <1>9, <2>1, <2>2, Starts DEF Closure, m
<1>10. CASE source.reader = "sportec"
  <2> DEFINE c == [rows |-> <<>>, count |-> <<>>]
  <2>1. m = Start(source.meta.periods, source.meta.roster, c)
    BY <1>10 DEF Begin, StartSportec
  <2>2. IsFiniteSet(DOMAIN c.rows)
    BY EmptyIs, FS_EmptySet
  <2> HIDE DEF m, c
  <2> QED BY <1>10, <2>1, <2>2, Starts DEF Closure, m
<1> QED BY <1>1, <1>2, <1>3, <1>4, <1>5, <1>6, <1>7, <1>8, <1>9, <1>10 DEF WellFormed, Readers

----------------------------------------------------------------------------
\* How they end

\* Orienting a dataset, or giving it up, leaves its frames, players and periods.
LEMMA OrientedKeeps ==
    ASSUME NEW l, Shape(l)
    PROVE  LET Keeps(m) == /\ m.frames = l.frames /\ m.roster = l.roster
                           /\ m.periods = l.periods
           IN  /\ \A o : Keeps(Oriented(l, o))
               /\ \A e : Keeps(Fail(l, e))
               /\ Keeps(OrientByFirstFrame(l))
               /\ Keeps(OrientByFirstPeriod(l))
<1> DEFINE Keeps(m) == m.frames = l.frames /\ m.roster = l.roster /\ m.periods = l.periods
<1>1. \A o : Keeps(Oriented(l, o))
  BY Turns DEF Skips
<1>2. \A e : Keeps(Fail(l, e))
  BY Turns DEF Skips
<1>3. Keeps(OrientByFirstFrame(l))
  BY <1>1 DEF OrientByFirstFrame
<1>4. Keeps(OrientByFirstPeriod(l))
  BY <1>1, <1>2 DEF OrientByFirstPeriod
<1> QED BY <1>1, <1>2, <1>3, <1>4

\* Extra time of PFF is put behind the rest.
LEMMA PffFinished ==
    ASSUME NEW source, source.reader = "pff", NEW l, Closure(l, source)
    PROVE  LET m == FinishPff(l) IN AllKnown(m.frames, m.roster)
<1> DEFINE extra == l.carry.extra
           turn  == AttackingDirection(FramesIn(l.frames, 1)[1])
                      # AttackingDirection(FramesIn(extra, 3)[1])
           after == [k \in DOMAIN extra |-> IF turn THEN Mirrored(extra[k]) ELSE extra[k]]
           o == OrientByFirstFrame(l)
           m == [o EXCEPT !.frames = @ \o after]
<1>1. FinishPff(l) = IF FramesIn(l.frames, 1) = <<>> \/ (extra # <<>> /\ FramesIn(extra, 3) = <<>>)
                     THEN Fail(l, "no first frame") ELSE m
  BY DEF FinishPff
<1>2. Shape(l) /\ AllKnown(l.frames, l.roster) /\ IsSeq(extra) /\ ExtraKnown(extra, l.roster)
  BY DEF Closure, PffCarry
<1> HIDE DEF turn
<1>3. /\ IsSeq(after) /\ DOMAIN after = DOMAIN extra
      /\ \A k \in DOMAIN extra : Known(after[k].players, l.roster)
  <2>1. ASSUME NEW k \in DOMAIN extra PROVE Known(after[k].players, l.roster)
    <3>1. "players" \in DOMAIN extra[k] /\ Known(extra[k].players, l.roster)
      BY <1>2 DEF ExtraKnown
    <3> DEFINE other == {Seen(s.player, 0 - s.x) : s \in extra[k].players}
    <3>2. Known(other, l.roster)
      BY <3>1 DEF Known, Seen
    <3>3. Mirrored(extra[k]).players = other
      BY <3>1 DEF Mirrored
    <3> QED BY <3>1, <3>2, <3>3
  <2>2. DOMAIN after = 1..Len(extra) /\ Len(extra) \in Nat
    BY <1>2, SeqIs
  <2>3. after = [k \in 1..Len(extra) |-> after[k]] /\ DOMAIN after = DOMAIN extra
    BY <2>2
  <2> HIDE DEF after
  <2> QED BY <2>1, <2>2, <2>3, IntervalSeq
<1> HIDE DEF after
<1>4. Skips(l, o)
  BY <1>2, Turns DEF OrientByFirstFrame
<1> HIDE DEF o
<1>5. m.frames = l.frames \o after /\ m.roster = l.roster
  BY <1>4 DEF Skips, Shape, LoopFields
<1>6. AllKnown(l.frames \o after, l.roster)
  <2> DEFINE u == l.frames \o after
  <2>1. /\ Len(l.frames) \in Nat /\ DOMAIN l.frames = 1..Len(l.frames)
        /\ Len(after) \in Nat /\ DOMAIN after = 1..Len(after)
        /\ DOMAIN u = 1..(Len(l.frames) + Len(after))
        /\ \A k \in 1..Len(l.frames) : u[k] = l.frames[k]
        /\ \A k \in 1..Len(after) : u[Len(l.frames) + k] = after[k]
    BY <1>2, <1>3, ConcatIs DEF Shape
  <2> HIDE DEF u, extra
  <2>2. ASSUME NEW j \in DOMAIN u PROVE Known(u[j].players, l.roster)
    <3>1. CASE j \in 1..Len(l.frames)
      BY <1>2, <2>1, <3>1 DEF AllKnown
    <3>2. CASE j \notin 1..Len(l.frames)
      <4>1. j - Len(l.frames) \in 1..Len(after) /\ Len(l.frames) + (j - Len(l.frames)) = j
        BY <2>1, <3>2
      <4> QED BY <1>3, <2>1, <4>1
    <3> QED BY <3>1, <3>2
  <2> QED BY <2>2 DEF AllKnown, u
<1> HIDE DEF m
<1>7. LET f == Fail(l, "no first frame") IN AllKnown(f.frames, f.roster)
  BY <1>2, OrientedKeeps
<1> QED BY <1>1, <1>5, <1>6, <1>7

\* Hawk-Eye delivers what it collected, as far as the limit.
LEMMA HawkEyeFinished ==
    ASSUME NEW source, source.reader = "hawkeye", NEW l, Closure(l, source), NEW opt
    PROVE  LET m == FinishHawkEye(l, opt) IN AllKnown(m.frames, m.roster)
<1> DEFINE parsed == l.carry.parsed
           ids    == Ascending(DOMAIN parsed)
           kept   == {i \in DOMAIN ids : Sampled(opt, ids[i])}
           Reached(i) == opt.limit # 0 /\ (i - 1) * opt.rate[1] + opt.rate[2] >= opt.limit * opt.rate[2]
           until  == {i \in kept : \A j \in kept : j < i => ~Reached(j)}
           places == Ascending(until)
           frames == [k \in DOMAIN places |-> parsed[ids[places[k]]]]
           last   == [l EXCEPT !.frames = frames]
<1>1. FinishHawkEye(l, opt) = OrientByFirstFrame(last)
  BY DEF FinishHawkEye
<1>2. ParsedKnown(l.carry, l.roster) /\ Shape(l)
  BY DEF Closure
<1>3. /\ DOMAIN ids = 1..Cardinality(DOMAIN parsed) /\ Cardinality(DOMAIN parsed) \in Nat
      /\ \A j \in DOMAIN ids : ids[j] \in DOMAIN parsed
  <2>1. DOMAIN parsed \in SUBSET Int /\ IsFiniteSet(DOMAIN parsed)
    BY <1>2 DEF ParsedKnown
  <2> HIDE DEF parsed
  <2> QED BY <2>1, AscendingIs, AscendingAt
<1>4. until \in SUBSET Int /\ IsFiniteSet(until) /\ until \subseteq DOMAIN ids
  <2> HIDE DEF ids, Reached
  <2>1. until \in SUBSET (1..Cardinality(DOMAIN parsed))
    BY <1>3
  <2>2. IsFiniteSet(1..Cardinality(DOMAIN parsed))
    BY <1>3, FS_Interval
  <2> HIDE DEF until, parsed
  <2>3. IsFiniteSet(until)
    BY <2>1, <2>2, FS_Subset
  <2> QED BY <1>3, <2>1, <2>3
<1>5. /\ DOMAIN places = 1..Cardinality(until) /\ Cardinality(until) \in Nat
      /\ \A j \in DOMAIN places : places[j] \in until
  <2> HIDE DEF until
  <2> QED BY <1>4, AscendingIs, AscendingAt
<1> HIDE DEF until, ids, places
<1>6. IsSeq(frames) /\ DOMAIN frames = DOMAIN places
  <2>1. frames = [k \in 1..Cardinality(until) |-> frames[k]]
    BY <1>5
  <2> HIDE DEF frames
  <2> QED BY <1>5, <2>1, IntervalSeq
<1>7. AllKnown(frames, l.roster)
  <2>1. ASSUME NEW k \in DOMAIN places PROVE Known(frames[k].players, l.roster)
    <3>1. places[k] \in until
      BY <1>5
    <3>2. ids[places[k]] \in DOMAIN parsed
      BY <1>3, <1>4, <3>1
    <3> HIDE DEF parsed
    <3>3. frames[k] = parsed[ids[places[k]]]
      OBVIOUS
    <3> QED BY <1>2, <3>2, <3>3 DEF ParsedKnown, parsed
  <2> HIDE DEF frames
  <2> QED BY <1>6, <2>1 DEF AllKnown
<1> HIDE DEF frames
<1>8. Shape(last) /\ last.frames = frames /\ last.roster = l.roster
  BY <1>2, <1>6 DEF Shape, LoopFields
<1> HIDE DEF last
<1> QED BY <1>1, <1>7, <1>8, OrientedKeeps

\* What Sportec delivers of a period, put behind that of the ones before.
PeriodStep(c, all, id) == all \o FramesOfPeriod(c.l, c.opt, id)
PeriodsKnown(c, k, all) == IsSeq(all) /\ AllKnown(all, c.l.roster)
Gathering == INSTANCE FoldInduction WITH Step <- PeriodStep, Holds <- PeriodsKnown

\* Sportec leaves out whom the metadata does not list.
LEMMA PeriodFramesKnown ==
    ASSUME NEW l, IsFiniteSet(DOMAIN l.carry.rows), NEW opt, NEW period
    PROVE  LET frames == FramesOfPeriod(l, opt, period) IN IsSeq(frames) /\ AllKnown(frames, l.roster)
<1> DEFINE rows == l.carry.rows
           mine == {r \in DOMAIN rows : r[1] = period}
           numbers == {k[2] : k \in mine}
           ids  == Ascending(numbers)
           kept == {i \in DOMAIN ids :
                       /\ <<period, ids[i], Ball>> \in DOMAIN rows
                       /\ opt.only_alive => rows[<<period, ids[i], Ball>>].status = 1
                       /\ Sampled(opt, i - 1)}
           places == Ascending(kept)
           frames == [k \in DOMAIN places |-> SportecFrame(l, period, ids[places[k]])]
<1>1. FramesOfPeriod(l, opt, period) = frames
  BY DEF FramesOfPeriod
<1>2. IsFiniteSet(numbers)
  <2>1. mine \in SUBSET (DOMAIN rows) /\ IsFiniteSet(DOMAIN rows)
    OBVIOUS
  <2>2. IsFiniteSet(mine)
    <3> HIDE DEF mine, rows
    <3> QED BY <2>1, FS_Subset
  <2> DEFINE f == [k \in mine |-> k[2]]
  <2>3. {f[k] : k \in mine} = numbers
    OBVIOUS
  <2> HIDE DEF f, mine, numbers
  <2> QED BY <2>2, <2>3, ImageFinite
<1>3. DOMAIN ids = 1..Cardinality(numbers) /\ Cardinality(numbers) \in Nat
  <2> HIDE DEF numbers
  <2> QED BY <1>2, FS_CardinalityType DEF Ascending
<1>4. kept \in SUBSET Int /\ IsFiniteSet(kept)
  <2> HIDE DEF ids, numbers
  <2>1. kept \in SUBSET (1..Cardinality(numbers))
    BY <1>3
  <2>2. IsFiniteSet(1..Cardinality(numbers)) /\ 1..Cardinality(numbers) \subseteq Int
    BY <1>3, FS_Interval
  <2> HIDE DEF kept
  <2>3. IsFiniteSet(kept)
    BY <2>1, <2>2, FS_Subset
  <2> QED BY <2>1, <2>2, <2>3
<1>5. DOMAIN places = 1..Cardinality(kept) /\ Cardinality(kept) \in Nat
  <2> HIDE DEF kept
  <2> QED BY <1>4, AscendingIs
<1> HIDE DEF places, kept, ids, numbers, rows, mine
<1>6. ASSUME NEW n PROVE Known(SportecFrame(l, period, n).players, l.roster)
  BY DEF SportecFrame, Frame, Known, Seen
<1>7. IsSeq(frames) /\ DOMAIN frames = DOMAIN places
  <2>1. frames = [k \in 1..Cardinality(kept) |-> frames[k]]
    BY <1>5
  <2> HIDE DEF frames
  <2> QED BY <1>5, <2>1, IntervalSeq
<1>8. \A k \in DOMAIN places : Known(frames[k].players, l.roster)
  BY <1>6
<1> HIDE DEF frames
<1> QED BY <1>1, <1>7, <1>8 DEF AllKnown

\* Sportec delivers one period after the other.
LEMMA SportecFinished ==
    ASSUME NEW source, source.reader = "sportec", WellFormed(source), NEW l, Closure(l, source),
           NEW opt, opt.limit \in Nat
    PROVE  LET m == FinishSportec(l, opt) IN AllKnown(m.frames, m.roster)
<1> DEFINE c    == [l |-> l, opt |-> opt]
           ids  == Ascending(DOMAIN l.periods)
           all  == Gathering!Fold(c, <<>>, ids)
           some == IF PlainLimit(opt, Len(all)) THEN SubSeq(all, 1, opt.limit) ELSE all
           last == [l EXCEPT !.frames = some]
<1>1. c.l = l /\ c.opt = opt
  OBVIOUS
<1>2. Shape(l) /\ l.periods = source.meta.periods /\ IsFiniteSet(DOMAIN l.carry.rows)
  BY DEF Closure
<1>3. DOMAIN ids = 1..Cardinality(DOMAIN l.periods) /\ Cardinality(DOMAIN l.periods) \in Nat
  <2>1. DOMAIN l.periods \in SUBSET Int /\ IsFiniteSet(DOMAIN l.periods)
    BY <1>2 DEF WellFormed, FiniteNumbers
  <2> QED BY <2>1, AscendingIs
<1> HIDE DEF c
<1>4. FinishSportec(l, opt) = OrientByFirstFrame(last)
  BY <1>1 DEF FinishSportec, Gathering!Fold, PeriodStep, FoldLeft, MapThenFoldSet, Max, Gathering!Last
<1> HIDE DEF ids
<1>5. ASSUME NEW k, NEW before, PeriodsKnown(c, k - 1, before), NEW id
      PROVE  PeriodsKnown(c, k, PeriodStep(c, before, id))
  <2> DEFINE more == FramesOfPeriod(l, opt, id)
  <2>1. IsSeq(more) /\ AllKnown(more, l.roster)
    BY <1>2, PeriodFramesKnown
  <2>2. PeriodStep(c, before, id) = before \o more
    BY <1>1 DEF PeriodStep
  <2> HIDE DEF more
  <2> QED BY <1>1, <1>5, <2>1, <2>2, ConcatKnown DEF PeriodsKnown
<1>6. PeriodsKnown(c, 0, <<>>)
  BY EmptyIs DEF PeriodsKnown, AllKnown
<1>7. PeriodsKnown(c, Cardinality(DOMAIN l.periods), all)
  <2> HIDE DEF last
  <2> QED BY <1>3, <1>5, <1>6, Gathering!FoldHolds
<1> HIDE DEF all
<1>8. IsSeq(all) /\ AllKnown(all, l.roster)
  BY <1>1, <1>7 DEF PeriodsKnown
<1>9. IsSeq(some) /\ AllKnown(some, l.roster)
  <2>1. CASE ~PlainLimit(opt, Len(all))
    BY <1>8, <2>1
  <2>2. CASE PlainLimit(opt, Len(all))
    <3> DEFINE S == {all[k] : k \in DOMAIN all}
               t == SubSeq(all, 1, opt.limit)
    <3>1. Len(all) \in Nat /\ DOMAIN all = 1..Len(all) /\ opt.limit <= Len(all) /\ opt.limit # 0
      BY <1>8, <2>2, SeqIs DEF PlainLimit
    <3>2. \A k \in 1..opt.limit : k \in DOMAIN all /\ all[k] \in S
      BY <3>1
    <3> HIDE DEF S
    <3>3. /\ t \in Seq(S) /\ Len(t) = opt.limit
          /\ \A k \in 1..opt.limit : t[k] = all[k]
      <4>1. /\ t \in Seq(S) /\ Len(t) = IF 1 <= opt.limit THEN opt.limit - 1 + 1 ELSE 0
            /\ \A k \in 1..(opt.limit - 1 + 1) : t[k] = all[1 + k - 1]
        BY <3>2, SubSeqProperties
      <4>2. 1 <= opt.limit /\ opt.limit - 1 + 1 = opt.limit /\ \A k \in 1..opt.limit : 1 + k - 1 = k
        BY <3>1
      <4> HIDE DEF t
      <4> QED BY <4>1, <4>2
    <3> HIDE DEF t
    <3>4. DOMAIN t = 1..opt.limit /\ t = [k \in 1..opt.limit |-> t[k]]
      BY <3>3, LenProperties
    <3>5. IsSeq(t)
      BY <3>4, IntervalSeq
    <3>6. AllKnown(t, l.roster)
      BY <1>8, <3>2, <3>3, <3>4 DEF AllKnown
    <3> QED BY <2>2, <3>5, <3>6 DEF t
  <2> QED BY <2>1, <2>2
<1> HIDE DEF some
<1>10. Shape(last) /\ last.frames = some /\ last.roster = l.roster
  BY <1>2, <1>9 DEF Shape, LoopFields
<1> HIDE DEF last
<1> QED BY <1>4, <1>9, <1>10, OrientedKeeps

----------------------------------------------------------------------------
\* The loop as a whole

\* An item of the loop is an item of the feed.
LEMMA ItemRead ==
    ASSUME NEW source \in Inputs, NEW k \in Nat, k < Len(Script(source, source.opt))
    PROVE  LET raw == Script(source, source.opt)[k + 1]
           IN  IF source.reader = "sportec" THEN IsSeq(raw.rows)
               ELSE \E i \in DOMAIN source.feed : raw = source.feed[i]
<1> DEFINE script == Script(source, source.opt)
<1>1. IsSeq(source.feed) /\ WellFormed(source)
  BY TrackingAssumption, FeedAssumption
<1>2. CASE source.reader = "sportec"
  <2>1. ItemsOfFeed(source, 0, script)
    BY <1>1, <1>2, SportecScript
  <2> HIDE DEF script
  <2>2. k + 1 \in DOMAIN script
    BY <2>1, SeqIs DEF ItemsOfFeed, script
  <2>3. PICK i \in DOMAIN source.feed : \E pass : script[k + 1] = InPass(source.feed[i], pass)
    BY <2>1, <2>2 DEF ItemsOfFeed
  <2>4. script[k + 1].rows = source.feed[i].rows
    BY <2>3 DEF InPass
  <2> QED BY <1>1, <1>2, <2>4 DEF WellFormed, script
<1>3. CASE source.reader # "sportec"
  <2>1. script = source.feed
    BY <1>3, OtherScript
  <2> HIDE DEF script
  <2>2. k + 1 \in DOMAIN source.feed
    BY <1>1, <2>1, SeqIs DEF script
  <2> QED BY <1>3, <2>1, <2>2 DEF script
<1> QED BY <1>2, <1>3

\* Every turn of every reader keeps closure.
LEMMA TurnClosed ==
    ASSUME NEW source \in Inputs, NEW k \in Nat, k < Len(Script(source, source.opt)),
           NEW l, Closure(l, source)
    PROVE  Closure(Handle(source, source.opt, l, Script(source, source.opt)[k + 1]), source)
<1> DEFINE raw == Script(source, source.opt)[k + 1]
           opt == source.opt
           m   == Handle(source, opt, l, raw)
<1>1. WellFormed(source) /\ \A i \in DOMAIN source.feed : NamesKnown(source, source.feed[i])
  BY FeedAssumption
<1>2. IF source.reader = "sportec" THEN IsSeq(raw.rows)
      ELSE \E i \in DOMAIN source.feed : raw = source.feed[i]
  BY ItemRead
<1> HIDE DEF raw, opt
<1>3. source.reader # "sportec" => NamesKnown(source, raw)
  BY <1>1, <1>2
<1>4. CASE source.reader = "tracab"
  <2>1. m = ReadTracab(l, opt, source.meta, raw)
    BY <1>4 DEF Handle
  <2> HIDE DEF m
  <2>2. FiniteNumbers(DOMAIN source.meta.phases)
    BY <1>1, <1>4 DEF WellFormed
  <2> QED BY <1>4, <2>1, <2>2, TracabClosed DEF m, raw, opt
<1>5. CASE source.reader = "skillcorner"
  <2>1. m = ReadSkillCorner(l, opt, source.meta, raw)
    BY <1>5 DEF Handle
  <2> HIDE DEF m
  <2>2. IsSeq(raw.records) /\ \A j \in DOMAIN raw.records : raw.records[j].what \in RecordKinds
    BY <1>1, <1>2, <1>5 DEF WellFormed
  <2>3. NamesKnown(source, raw)
    BY <1>3, <1>5
  <2> QED BY <1>5, <2>1, <2>2, <2>3, SkillCornerClosed DEF m, raw, opt
<1>6. CASE source.reader = "second spectrum"
  <2>1. m = ReadSecondSpectrum(l, opt, source.meta, raw)
    BY <1>6 DEF Handle
  <2> HIDE DEF m
  <2> QED BY <1>6, <2>1, SecondSpectrumClosed DEF m, raw, opt
<1>7. CASE source.reader = "pff"
  <2>1. m = ReadPff(l, opt, raw)
    BY <1>7 DEF Handle
  <2> HIDE DEF m
  <2> QED BY <1>7, <2>1, PffClosed DEF m, raw, opt
<1>8. CASE source.reader = "signality"
  <2>1. m = ReadSignality(l, opt, source.meta, raw)
    BY <1>8 DEF Handle
  <2> HIDE DEF m
  <2> QED BY <1>8, <2>1, SignalityClosed DEF m, raw, opt
<1>9. CASE source.reader = "metrica csv"
  <2>1. m = ReadMetricaCsv(l, opt, raw)
    BY <1>9 DEF Handle
  <2> HIDE DEF m
  <2>2. NamesKnown(source, raw)
    BY <1>3, <1>9
  <2> QED BY <1>9, <2>1, <2>2, MetricaCsvClosed DEF m, raw, opt
<1>10. CASE source.reader = "metrica epts"
  <2>1. m = ReadMetricaEpts(l, opt, source.meta, raw)
    BY <1>10 DEF Handle
  <2> HIDE DEF m
  <2>2. PlayersOf(raw.tracks) \subseteq source.meta.roster
    BY <1>3, <1>10 DEF NamesKnown
  <2> QED BY <1>10, <2>1, <2>2, MetricaEptsClosed DEF m, raw, opt
<1>11. CASE source.reader = "statsperform"
  <2>1. m = ReadStatsPerform(l, opt, raw)
    BY <1>11 DEF Handle
  <2> HIDE DEF m
  <2> QED BY <1>11, <2>1, StatsPerformClosed DEF m, raw, opt
<1>12. CASE source.reader = "hawkeye"
  <2>1. m = ReadHawkEye(l, opt, raw)
    BY <1>12 DEF Handle
  <2> HIDE DEF m
  <2>2. /\ raw.minute \in Nat /\ IsFiniteSet(raw.balls) /\ raw.balls \subseteq Nat
        /\ IsFiniteSet(raw.people) /\ \A p \in raw.people : p.tick \in Nat
    BY <1>1, <1>2, <1>12 DEF WellFormed
  <2> QED BY <1>12, <2>1, <2>2, HawkEyeClosed DEF m, raw, opt
<1>13. CASE source.reader = "sportec"
  <2>1. m = ReadSportec(l, opt, source.meta, raw)
    BY <1>13 DEF Handle
  <2> HIDE DEF m
  <2> QED BY <1>2, <1>13, <2>1, SportecClosed DEF m, raw, opt
<1> QED BY <1>1, <1>4, <1>5, <1>6, <1>7, <1>8, <1>9, <1>10, <1>11, <1>12, <1>13
    DEF WellFormed, Readers

\* What is delivered in the end is of known players.
LEMMA FinishKnown ==
    ASSUME NEW source, WellFormed(source), NEW l, Closure(l, source)
    PROVE  LET m == Closed(source, source.opt, l) IN AllKnown(m.frames, m.roster)
<1> DEFINE opt  == source.opt
           m    == Closed(source, opt, l)
           Goal == AllKnown(m.frames, m.roster)
           Kept(k) == k.frames = l.frames /\ k.roster = l.roster
<1>1. Shape(l) /\ AllKnown(l.frames, l.roster)
  BY DEF Closure
<1>2. Kept(m) => Goal
  BY <1>1
<1>3. /\ \A o : Kept(Oriented(l, o))
      /\ \A e : Kept(Fail(l, e))
      /\ Kept(OrientByFirstFrame(l)) /\ Kept(OrientByFirstPeriod(l))
  BY <1>1, OrientedKeeps
<1> HIDE DEF opt, Kept
<1>4. Kept(l)
  BY DEF Kept
<1>5. CASE l.raised # NotRaised
  <2>1. m = l
    BY <1>5 DEF Closed
  <2> HIDE DEF m
  <2> QED BY <1>1, <2>1 DEF m, opt
<1>6. ASSUME l.raised = NotRaised PROVE Goal
  <2>1. CASE source.reader = "tracab"
    BY <1>2, <1>3, <1>6, <2>1 DEF Closed, FinishTracab
  <2>2. CASE source.reader = "skillcorner"
    BY <1>2, <1>3, <1>6, <2>2 DEF Closed, FinishSkillCorner
  <2>3. CASE source.reader = "second spectrum"
    BY <1>2, <1>3, <1>6, <2>3 DEF Closed, FinishSecondSpectrum
  <2>4. CASE source.reader = "pff"
    <3>1. m = FinishPff(l)
      BY <1>6, <2>4 DEF Closed
    <3> HIDE DEF m
    <3> QED BY <2>4, <3>1, PffFinished
  <2>5. CASE source.reader = "signality"
    BY <1>2, <1>3, <1>6, <2>5 DEF Closed, FinishSignality
  <2>6. CASE source.reader = "metrica csv"
    BY <1>2, <1>3, <1>6, <2>6 DEF Closed, FinishMetricaCsv
  <2>7. CASE source.reader = "metrica epts"
    BY <1>2, <1>3, <1>6, <2>7 DEF Closed, FinishMetricaEpts
  <2>8. CASE source.reader = "statsperform"
    BY <1>2, <1>3, <1>6, <2>8 DEF Closed, FinishStatsPerform
  <2>9. CASE source.reader = "hawkeye"
    <3>1. m = FinishHawkEye(l, opt)
      BY <1>6, <2>9 DEF Closed
    <3> HIDE DEF m
    <3> QED BY <2>9, <3>1, HawkEyeFinished
  <2>10. CASE source.reader = "sportec"
    <3>1. m = FinishSportec(l, opt) /\ opt.limit \in Nat
      BY <1>6, <2>10 DEF Closed, WellFormed, opt
    <3> HIDE DEF m
    <3> QED BY <2>10, <3>1, SportecFinished
  <2> HIDE DEF Goal, m
  <2>11. source.reader \in Readers
    BY DEF WellFormed
  <2> QED BY <2>1, <2>2, <2>3, <2>4, <2>5, <2>6, <2>7, <2>8, <2>9, <2>10, <2>11 DEF Readers
<1> QED BY <1>5, <1>6 DEF m, opt

RosterInv ==
    /\ input \in Inputs /\ at \in Nat
    /\ IF done THEN AllKnown(loop.frames, loop.roster) ELSE Closure(loop, input)

\* Closure holds before every turn, and its conclusion after the last.
LEMMA RosterInvInductive ==
    /\ Init => RosterInv
    /\ RosterInv /\ [Next]_vars => RosterInv'
<1>1. ASSUME Init PROVE RosterInv
  <2>1. input \in Inputs /\ at = 0 /\ done = FALSE /\ loop = Begin(input) /\ WellFormed(input)
    BY <1>1, FeedAssumption DEF Init
  <2> QED BY <2>1, BeginClosed DEF RosterInv
<1>2. ASSUME RosterInv, [Next]_vars PROVE RosterInv'
  <2>1. ASSUME NEW reader, Read(reader) PROVE RosterInv'
    <3>1. /\ ~done /\ at < Len(Script(input, input.opt)) /\ input \in Inputs /\ at \in Nat
          /\ Closure(loop, input)
          /\ loop' = Handle(input, input.opt, loop, Script(input, input.opt)[at + 1])
          /\ at' = at + 1 /\ input' = input /\ done' = done
      BY <1>2, <2>1 DEF Read, More, RosterInv
    <3>2. Closure(loop', input)
      BY <3>1, TurnClosed
    <3> QED BY <3>1, <3>2 DEF RosterInv
  <2>2. CASE Finish
    <3>1. /\ Closure(loop, input) /\ input \in Inputs /\ WellFormed(input)
          /\ loop' = Closed(input, input.opt, loop)
          /\ done' = TRUE /\ at' = at /\ input' = input
      BY <1>2, <2>2, FeedAssumption DEF Finish, RosterInv
    <3>2. AllKnown(loop'.frames, loop'.roster)
      BY <3>1, FinishKnown
    <3> QED BY <1>2, <3>1, <3>2 DEF RosterInv
  <2>3. CASE UNCHANGED vars
    BY <1>2, <2>3 DEF RosterInv, vars
  <2> QED BY <1>2, <2>1, <2>2, <2>3
      DEF Next, ReadTracabLine, ReadSkillCornerFrame, ReadSecondSpectrumLine, ReadPffFrame,
          ReadSignalityFrame, ReadMetricaCsvLines, ReadMetricaEptsLine, ReadStatsPerformLine,
          ReadHawkEyeMinute, ReadSportecFrameSet, Stop
<1> QED BY <1>1, <1>2

\* Whatever the feed and the options, a player on a delivered frame is a player
\* of one of the teams, or one of the anonymous players of SkillCorner.
THEOREM RosterIsClosed == Spec => []RosterClosed
<1>1. RosterInv => RosterClosed
  <2> SUFFICES ASSUME RosterInv, done,
                      NEW f \in Frames, NEW s \in f.players
               PROVE  \/ s.player \in loop.roster
                      \/ s.player \in {p.player : p \in {r \in UNION {g.players : g \in Frames} :
                                                            r.player.number = 0}}
    BY DEF RosterClosed, Loaded, PlayersOf
  <2>1. s.player \in loop.roster \/ s.player.number = 0
    BY DEF RosterInv, AllKnown, Known, Frames
  <2> QED BY <2>1
<1> QED BY <1>1, RosterInvInductive, PTL DEF Spec

----------------------------------------------------------------------------
(***************************************************************************)
(* The order of the frames                                                 *)
(***************************************************************************)
----------------------------------------------------------------------------
\* What the items tell

\* What an item of the feed tells of a frame that is made of it.
Tells(source, periods, raw, f) ==
    CASE source.reader = "skillcorner" ->
             /\ raw.clock # -1 /\ raw.period \in 1..5
             /\ f.period = raw.period /\ f.time = raw.clock - ClockStart(raw.period)
      [] source.reader = "second spectrum" ->
             /\ raw.period \in DOMAIN Played(source.meta)
             /\ f.period = Played(source.meta)[raw.period].id /\ f.time = raw.clock
      [] source.reader \in {"signality", "statsperform"} ->
             f.period = raw.period /\ f.time = raw.time
      [] source.reader = "pff" ->
             raw.period # NoPeriod /\ f.period = raw.period /\ f.time = raw.elapsed
      [] source.reader = "metrica csv" ->
             /\ raw.home # Absent
             /\ f.period = raw.home.period /\ f.period \in DOMAIN periods
             /\ periods[f.period].start \in Int
             /\ f.time = raw.home.id - periods[f.period].start
      [] source.reader = "metrica epts" ->
             /\ f.id = raw.id /\ f.period = PeriodAt(source.meta.periods, raw.id)
             /\ f.period # NoPeriod => f.time = raw.id - source.meta.periods[f.period].start
      [] source.reader = "tracab" ->
             /\ f.period \in DOMAIN TracabPeriods(source.meta)
             /\ Covers(TracabPeriods(source.meta)[f.period], raw.id)
             /\ f.time = raw.id - TracabPeriods(source.meta)[f.period].start

Framewise == Readers \ {"hawkeye", "sportec"}

\* What is told by two items comes in the order of the items.
LEMMA ClocksAgree ==
    ASSUME NEW source \in Inputs, source.reader \in Framewise,
           NEW i \in DOMAIN source.feed, NEW j \in DOMAIN source.feed, i < j,
           Shown(source, source.feed[i]), Shown(source, source.feed[j])
    PROVE  LET s == Clock(source, source.feed[i])
               t == Clock(source, source.feed[j])
           IN  s \in Int \X Int /\ t \in Int \X Int /\ Earlier(s, t)
<1>1. source.reader \notin {"hawkeye", "sportec"}
  BY DEF Framewise
<1>2. ClockRuns(source)
  BY ClockAssumption
<1> QED BY <1>1, <1>2 DEF ClockRuns

\* A frame of a later period, or later in it.
LEMMA LaterFrame ==
    ASSUME NEW p, NEW q, NEW x \in Int, NEW y \in Int, p < q \/ (p = q /\ x < y),
           NEW c \in Int, NEW d, p = q => c = d,
           NEW f, f.period = p, f.time = x - c, NEW g, g.period = q, g.time = y - d
    PROVE  Precedes(f, g)
<1>1. CASE p < q
  BY <1>1 DEF Precedes
<1>2. CASE p = q /\ x < y
  <2>1. f.time < g.time
    BY <1>2
  <2> QED BY <1>2, <2>1 DEF Precedes
<1> QED BY <1>1, <1>2

\* The clock of SkillCorner starts each period at a number of frames.
LEMMA ClockStarts == \A p \in 1..5 : ClockStart(p) \in Int
<1>1. Half \in Int /\ Half \div 3 \in Int
  BY ClockAssumption
<1>2. /\ ClockStart(1) \in Int /\ ClockStart(2) \in Int /\ ClockStart(3) \in Int
      /\ ClockStart(4) \in Int /\ ClockStart(5) \in Int
  BY <1>1 DEF ClockStart
<1>3. \A p \in 1..5 : p = 1 \/ p = 2 \/ p = 3 \/ p = 4 \/ p = 5
  OBVIOUS
<1> QED BY <1>2, <1>3

\* SkillCorner, Second Spectrum, Signality, StatsPerform, PFF: the frame has the
\* clock of the item.
LEMMA ClockedAdvance ==
    ASSUME NEW source \in Inputs,
           source.reader \in {"skillcorner", "second spectrum", "signality", "statsperform", "pff"},
           NEW i \in DOMAIN source.feed, NEW j \in DOMAIN source.feed, i < j, NEW periods,
           NEW f, Tells(source, periods, source.feed[i], f),
           NEW g, Tells(source, periods, source.feed[j], g)
    PROVE  Precedes(f, g)
<1> DEFINE a == source.feed[i]
           b == source.feed[j]
<1>1. source.reader \in Framewise
  BY DEF Framewise, Readers
<1>2. CASE source.reader = "skillcorner"
  <2>1. Shown(source, a) /\ Shown(source, b)
    BY <1>2 DEF Tells, Shown, NoPeriod
  <2>2. Earlier(<<a.period, a.clock>>, <<b.period, b.clock>>) /\ a.clock \in Int /\ b.clock \in Int
    BY <1>1, <1>2, <2>1, ClocksAgree DEF Clock
  <2>3. \A p \in 1..5 : ClockStart(p) \in Int
    BY ClockStarts
  <2>4. /\ a.period \in 1..5 /\ b.period \in 1..5
        /\ f.period = a.period /\ f.time = a.clock - ClockStart(a.period)
        /\ g.period = b.period /\ g.time = b.clock - ClockStart(b.period)
    BY <1>2 DEF Tells
  <2>5. a.period < b.period \/ (a.period = b.period /\ a.clock < b.clock)
    BY <2>2 DEF Earlier
  <2> HIDE DEF a, b
  <2> QED BY <2>2, <2>3, <2>4, <2>5, LaterFrame
<1>3. CASE source.reader = "second spectrum"
  <2> DEFINE played == Played(source.meta)
  <2>1. Shown(source, a) /\ Shown(source, b)
    BY <1>3 DEF Shown
  <2>2. /\ Earlier(<<a.period, a.clock>>, <<b.period, b.clock>>)
        /\ a.clock \in Int /\ b.clock \in Int
    BY <1>1, <1>3, <2>1, ClocksAgree DEF Clock
  <2>3. /\ a.period \in DOMAIN played /\ f.period = played[a.period].id /\ f.time = a.clock
        /\ b.period \in DOMAIN played /\ g.period = played[b.period].id /\ g.time = b.clock
    BY <1>3 DEF Tells
  <2>4. \A k, m \in DOMAIN played : k < m => played[k].id < played[m].id
    BY <1>3, ClockAssumption DEF ClockRuns
  <2> HIDE DEF a, b, played
  <2> QED BY <2>2, <2>3, <2>4 DEF Earlier, Precedes
<1>4. CASE source.reader \in {"signality", "statsperform"}
  <2>1. Shown(source, a) /\ Shown(source, b)
    BY <1>4 DEF Shown
  <2>2. Earlier(<<a.period, a.time>>, <<b.period, b.time>>)
    BY <1>1, <1>4, <2>1, ClocksAgree DEF Clock
  <2>3. f.period = a.period /\ f.time = a.time /\ g.period = b.period /\ g.time = b.time
    BY <1>4 DEF Tells
  <2> HIDE DEF a, b
  <2> QED BY <2>2, <2>3 DEF Earlier, Precedes
<1>5. CASE source.reader = "pff"
  <2>1. Shown(source, a) /\ Shown(source, b)
    BY <1>5 DEF Tells, Shown
  <2>2. Earlier(<<a.period, a.elapsed>>, <<b.period, b.elapsed>>)
    BY <1>1, <1>5, <2>1, ClocksAgree DEF Clock
  <2>3. f.period = a.period /\ f.time = a.elapsed /\ g.period = b.period /\ g.time = b.elapsed
    BY <1>5 DEF Tells
  <2> HIDE DEF a, b
  <2> QED BY <2>2, <2>3 DEF Earlier, Precedes
<1> QED BY <1>2, <1>3, <1>4, <1>5

\* A least element, as PeriodAt chooses it.
LEMMA PeriodAtIs ==
    ASSUME NEW periods, FiniteNumbers(DOMAIN periods), NEW t, PeriodAt(periods, t) # NoPeriod
    PROVE  LET p == PeriodAt(periods, t)
           IN  /\ p \in DOMAIN periods /\ Covers(periods[p], t)
               /\ \A q \in DOMAIN periods : Covers(periods[q], t) => p <= q
<1> DEFINE within == {id \in DOMAIN periods : Covers(periods[id], t)}
<1>1. within \in SUBSET Int /\ IsFiniteSet(within) /\ within # {}
  <2>1. within \in SUBSET (DOMAIN periods)
    OBVIOUS
  <2>2. within # {}
    BY DEF PeriodAt
  <2> HIDE DEF within
  <2> QED BY <2>1, <2>2, FS_Subset DEF FiniteNumbers
<1>2. PeriodAt(periods, t) = CHOOSE id \in within : \A other \in within : id <= other
  BY <1>1 DEF PeriodAt
<1>3. \E id \in within : \A other \in within : id <= other
  <2> HIDE DEF within
  <2>1. within \in SUBSET Int /\ within # {}
    BY <1>1
  <2>2. PICK k \in 1..Cardinality(within) : k = 1
    <3>1. Cardinality(within) \in Nat /\ Cardinality(within) # 0
      BY <1>1, FS_CardinalityType, FS_EmptySet
    <3> QED BY <3>1
  <2>3. PICK id \in within : Cardinality(Lower(within, id)) = 0
    BY <1>1, <2>2, PlaceTaken
  <2>4. Lower(within, id) \in SUBSET within /\ IsFiniteSet(Lower(within, id))
    <3>1. Lower(within, id) \in SUBSET within
      BY DEF Lower
    <3> QED BY <1>1, <3>1, FS_Subset
  <2>5. Lower(within, id) = {}
    BY <2>3, <2>4, FS_EmptySet
  <2>6. \A other \in within : id <= other
    <3>1. \A other \in within : ~(other < id)
      BY <2>5 DEF Lower
    <3> QED BY <2>1, <3>1
  <2> QED BY <2>6
<1>4. /\ PeriodAt(periods, t) \in within
      /\ \A other \in within : PeriodAt(periods, t) <= other
  <2> HIDE DEF within
  <2> QED BY <1>2, <1>3
<1> QED BY <1>4

\* Frames numbered through the match, each in the first period that contains it.
LEMMA NumberedFrames ==
    ASSUME NEW known, FiniteNumbers(DOMAIN known),
           \A p \in DOMAIN known : known[p].start \in Int /\ known[p].end \in Int,
           \A p, q \in DOMAIN known : p < q => known[p].start <= known[q].start,
           NEW x \in Int, NEW y \in Int, x < y,
           NEW f, f.id = x, f.period = PeriodAt(known, x),
           f.period # NoPeriod => f.time = x - known[f.period].start,
           NEW g, g.id = y, g.period = PeriodAt(known, y),
           g.period # NoPeriod => g.time = y - known[g.period].start
    PROVE  Precedes(f, g)
<1>1. CASE NoPeriod \in {f.period, g.period}
  BY <1>1 DEF Precedes
<1>2. CASE NoPeriod \notin {f.period, g.period}
  <2>1. /\ f.period \in DOMAIN known /\ Covers(known[f.period], x)
        /\ \A q \in DOMAIN known : Covers(known[q], x) => f.period <= q
    BY <1>2, PeriodAtIs
  <2>2. g.period \in DOMAIN known /\ Covers(known[g.period], y)
    BY <1>2, PeriodAtIs
  <2>3. f.period \in Int /\ g.period \in Int
    BY <2>1, <2>2 DEF FiniteNumbers
  <2>4. ASSUME g.period < f.period PROVE FALSE
    <3>1. ~Covers(known[g.period], x)
      BY <2>1, <2>2, <2>3, <2>4
    <3>2. known[g.period].start <= known[f.period].start
      BY <2>1, <2>2, <2>4
    <3>3. known[f.period].start <= x /\ y <= known[g.period].end
      BY <2>1, <2>2 DEF Covers
    <3>4. /\ known[f.period].start \in Int /\ known[g.period].start \in Int
          /\ known[g.period].end \in Int
      BY <2>1, <2>2
    <3> QED BY <3>1, <3>2, <3>3, <3>4 DEF Covers
  <2>5. f.period < g.period \/ f.period = g.period
    BY <2>3, <2>4
  <2>6. known[f.period].start \in Int
    BY <2>1
  <2> QED BY <1>2, <2>5, <2>6, LaterFrame
<1> QED BY <1>1, <1>2

\* An earlier number is a smaller one.
LEMMA EarlierNumber ==
    ASSUME NEW x \in Int, NEW y \in Int, Earlier(<<1, x>>, <<1, y>>)
    PROVE  x < y
BY DEF Earlier

\* Metrica EPTS.
LEMMA EptsAdvance ==
    ASSUME NEW source \in Inputs, source.reader = "metrica epts",
           NEW i \in DOMAIN source.feed, NEW j \in DOMAIN source.feed, i < j, NEW periods,
           NEW f, Tells(source, periods, source.feed[i], f),
           NEW g, Tells(source, periods, source.feed[j], g)
    PROVE  Precedes(f, g)
<1>1. Shown(source, source.feed[i]) /\ Shown(source, source.feed[j]) /\ source.reader \in Framewise
  BY DEF Shown, Framewise, Readers
<1>2. /\ Earlier(<<1, source.feed[i].id>>, <<1, source.feed[j].id>>)
      /\ source.feed[i].id \in Int /\ source.feed[j].id \in Int
  BY <1>1, ClocksAgree DEF Clock
<1>3. source.feed[i].id < source.feed[j].id
  BY <1>2, EarlierNumber
<1>4. /\ FiniteNumbers(DOMAIN source.meta.periods)
      /\ \A p \in DOMAIN source.meta.periods :
             source.meta.periods[p].start \in Int /\ source.meta.periods[p].end \in Int
      /\ \A p, q \in DOMAIN source.meta.periods :
             p < q => source.meta.periods[p].start <= source.meta.periods[q].start
  BY ClockAssumption DEF ClockRuns
<1>5. /\ f.id = source.feed[i].id /\ f.period = PeriodAt(source.meta.periods, source.feed[i].id)
      /\ f.period # NoPeriod => f.time = source.feed[i].id - source.meta.periods[f.period].start
      /\ g.id = source.feed[j].id /\ g.period = PeriodAt(source.meta.periods, source.feed[j].id)
      /\ g.period # NoPeriod => g.time = source.feed[j].id - source.meta.periods[g.period].start
  BY DEF Tells
<1> QED BY <1>2, <1>3, <1>4, <1>5, NumberedFrames

\* TRACAB: in every period that contains it, and these hardly overlap.
LEMMA TracabAdvance ==
    ASSUME NEW source \in Inputs, source.reader = "tracab",
           NEW i \in DOMAIN source.feed, NEW j \in DOMAIN source.feed, i < j, NEW periods,
           NEW f, Tells(source, periods, source.feed[i], f),
           NEW g, Tells(source, periods, source.feed[j], g)
    PROVE  Precedes(f, g)
<1> DEFINE a == source.feed[i]
           b == source.feed[j]
           known == TracabPeriods(source.meta)
<1>1. Shown(source, a) /\ Shown(source, b) /\ source.reader \in Framewise
  BY DEF Shown, Framewise, Readers
<1>2. Earlier(<<1, a.id>>, <<1, b.id>>) /\ a.id \in Int /\ b.id \in Int
  BY <1>1, ClocksAgree DEF Clock
<1>3. a.id < b.id
  BY <1>2 DEF Earlier
<1>4. /\ \A p \in DOMAIN known : known[p].start \in Int /\ known[p].end \in Int
      /\ \A p, q \in DOMAIN known : p < q => known[p].end <= known[q].start
  BY ClockAssumption DEF ClockRuns
<1>5. /\ f.period \in DOMAIN known /\ Covers(known[f.period], a.id)
      /\ f.time = a.id - known[f.period].start
      /\ g.period \in DOMAIN known /\ Covers(known[g.period], b.id)
      /\ g.time = b.id - known[g.period].start
  BY DEF Tells
<1>6. f.period \in Int /\ g.period \in Int
  <2>1. DOMAIN known \subseteq DOMAIN source.meta.phases
    BY DEF TracabPeriods, PhaseIds
  <2>2. FiniteNumbers(DOMAIN source.meta.phases)
    BY FeedAssumption DEF WellFormed
  <2> QED BY <1>5, <2>1, <2>2 DEF FiniteNumbers
<1> HIDE DEF a, b, known
<1>7. ASSUME g.period < f.period PROVE FALSE
  <2>1. known[g.period].end <= known[f.period].start
    BY <1>4, <1>5, <1>7
  <2>2. known[f.period].start <= a.id /\ b.id <= known[g.period].end
    BY <1>5 DEF Covers
  <2>3. known[f.period].start \in Int /\ known[g.period].end \in Int
    BY <1>4, <1>5
  <2> QED BY <1>2, <1>3, <2>1, <2>2, <2>3
<1>8. f.period < g.period \/ f.period = g.period
  BY <1>6, <1>7
<1>9. known[f.period].start \in Int
  BY <1>4, <1>5
<1> QED BY <1>2, <1>3, <1>5, <1>8, <1>9, LaterFrame

\* Metrica CSV: in the period of the home line, counted from where it opened.
LEMMA CsvAdvance ==
    ASSUME NEW source \in Inputs, source.reader = "metrica csv",
           NEW i \in DOMAIN source.feed, NEW j \in DOMAIN source.feed, i < j, NEW periods,
           NEW f, Tells(source, periods, source.feed[i], f),
           NEW g, Tells(source, periods, source.feed[j], g)
    PROVE  Precedes(f, g)
<1> DEFINE a == source.feed[i]
           b == source.feed[j]
<1>1. Shown(source, a) /\ Shown(source, b) /\ source.reader \in Framewise
  BY DEF Shown, Framewise, Readers, Tells
<1>2. /\ Earlier(<<a.home.period, a.home.id>>, <<b.home.period, b.home.id>>)
      /\ a.home.id \in Int /\ b.home.id \in Int
  BY <1>1, ClocksAgree DEF Clock
<1>3. a.home.period < b.home.period \/ (a.home.period = b.home.period /\ a.home.id < b.home.id)
  BY <1>2 DEF Earlier
<1>4. /\ f.period = a.home.period /\ f.time = a.home.id - periods[f.period].start
      /\ g.period = b.home.period /\ g.time = b.home.id - periods[g.period].start
      /\ periods[f.period].start \in Int
  BY DEF Tells
<1> HIDE DEF a, b
<1> QED BY <1>2, <1>3, <1>4, LaterFrame

\* A frame of a later item comes after one of an earlier item.
LEMMA Advances ==
    ASSUME NEW source \in Inputs, source.reader \in Framewise,
           NEW i \in DOMAIN source.feed, NEW j \in DOMAIN source.feed, i < j, NEW periods,
           NEW f, Tells(source, periods, source.feed[i], f),
           NEW g, Tells(source, periods, source.feed[j], g)
    PROVE  Precedes(f, g)
<1>1. CASE source.reader = "tracab"
  BY <1>1, TracabAdvance
<1>2. CASE source.reader = "metrica csv"
  BY <1>2, CsvAdvance
<1>3. CASE source.reader = "metrica epts"
  BY <1>3, EptsAdvance
<1>4. CASE source.reader \in {"skillcorner", "second spectrum", "signality", "statsperform", "pff"}
  BY <1>4, ClockedAdvance
<1> QED BY <1>1, <1>2, <1>3, <1>4 DEF Framewise, Readers

----------------------------------------------------------------------------
\* One frame after the other

Rising(frames) == \A j, k \in DOMAIN frames : j < k => Precedes(frames[j], frames[k])
\* The frames are in order, and each is one that an item told, of the first n.
Told(source, periods, frames, n) ==
    /\ IsSeq(frames) /\ Rising(frames)
    /\ \A k \in DOMAIN frames : \E i \in DOMAIN source.feed :
           i <= n /\ Tells(source, periods, source.feed[i], frames[k])

\* A frame after those of a rising sequence.
LEMMA RisesOn ==
    ASSUME NEW frames, IsSeq(frames), Rising(frames), NEW f,
           \A k \in DOMAIN frames : Precedes(frames[k], f)
    PROVE  IsSeq(Append(frames, f)) /\ Rising(Append(frames, f))
<1> DEFINE g == Append(frames, f)
           n == Len(frames)
<1>1. /\ IsSeq(g) /\ n \in Nat /\ DOMAIN frames = 1..n /\ DOMAIN g = 1..(n + 1)
      /\ \A k \in 1..n : g[k] = frames[k]
      /\ g[n + 1] = f
  BY AppendIs
<1> HIDE DEF g, n
<1>2. ASSUME NEW j \in DOMAIN g, NEW k \in DOMAIN g, j < k PROVE Precedes(g[j], g[k])
  <2>1. j \in 1..n
    BY <1>1, <1>2
  <2>2. CASE k = n + 1
    BY <1>1, <2>1, <2>2
  <2>3. CASE k # n + 1
    <3>1. k \in 1..n
      BY <1>1, <2>3
    <3> QED BY <1>1, <1>2, <2>1, <3>1 DEF Rising
  <2> QED BY <2>2, <2>3
<1> QED BY <1>1, <1>2 DEF Rising, g

\* A player feed has a frame of its own minute, on the clock of its segment.
Placed(source, id, f) ==
    /\ f = [x \in FrameFields |-> f[x]]
    /\ \E i \in DOMAIN source.feed : \E tick \in 0..(Ticks - 1) :
           LET raw == source.feed[i]
           IN  /\ id = FrameId(raw, tick) /\ f.period = raw.segment
               /\ f.time = TimeOf(raw, tick)

\* A row of Sportec is kept by the period and the number it has in the file.
Numbered(source, key) ==
    \E i \in DOMAIN source.feed : \E k \in DOMAIN source.feed[i].rows :
        key[1] = source.feed[i].period /\ key[2] = source.feed[i].rows[k].n

\* The loop after n items.
Timely(l, source, n) ==
    /\ source.reader \in Framewise => Told(source, l.periods, l.frames, n)
    /\ source.reader = "metrica csv" => \A p \in DOMAIN l.periods : l.periods[p].start \in Int
    /\ source.reader = "metrica epts" => l.periods = source.meta.periods
    /\ source.reader = "pff" =>
           /\ Told(source, l.periods, l.carry.extra, n)
           /\ \A k \in DOMAIN l.frames : l.frames[k].period \in {1, 2}
           /\ \A k \in DOMAIN l.carry.extra : /\ l.carry.extra[k].period \in {3, 4}
                                             /\ FrameFields \subseteq DOMAIN l.carry.extra[k]
    /\ source.reader = "hawkeye" =>
           /\ l.frames = <<>>
           /\ \A id \in DOMAIN l.carry.parsed : Placed(source, id, l.carry.parsed[id])
    /\ source.reader = "sportec" =>
           /\ l.frames = <<>>
           /\ \A key \in DOMAIN l.carry.rows : Numbered(source, key)

\* The items of a feed are numbered.
LEMMA FeedIs ==
    ASSUME NEW source \in Inputs
    PROVE  Len(source.feed) \in Nat /\ DOMAIN source.feed = 1..Len(source.feed)
BY TrackingAssumption, SeqIs

\* What the first n items tell, more of them tell.
LEMMA ToldOn ==
    ASSUME NEW source \in Inputs, NEW periods, NEW frames, NEW n \in Nat,
           Told(source, periods, frames, n)
    PROVE  Told(source, periods, frames, n + 1)
<1>1. \A i \in DOMAIN source.feed : i <= n => i <= n + 1
  BY FeedIs
<1> QED BY <1>1 DEF Told

\* A frame of the next item comes after those of the items before.
LEMMA ToldMore ==
    ASSUME NEW source \in Inputs, source.reader \in Framewise, NEW periods, NEW frames,
           NEW n \in Nat, n + 1 \in DOMAIN source.feed, Told(source, periods, frames, n),
           NEW f, Tells(source, periods, source.feed[n + 1], f)
    PROVE  Told(source, periods, Append(frames, f), n + 1)
<1> DEFINE g == Append(frames, f)
           j == n + 1
<1>1. \A i \in DOMAIN source.feed : i <= n => i < j /\ i <= j
  BY FeedIs
<1>2. IsSeq(frames) /\ Rising(frames)
  BY DEF Told
<1>3. ASSUME NEW k \in DOMAIN frames PROVE Precedes(frames[k], f)
  <2>1. PICK i \in DOMAIN source.feed : i <= n /\ Tells(source, periods, source.feed[i], frames[k])
    BY DEF Told
  <2>2. i < j /\ j \in DOMAIN source.feed /\ Tells(source, periods, source.feed[j], f)
    BY <1>1, <2>1
  <2> HIDE DEF j
  <2> QED BY <2>1, <2>2, Advances
<1>4. IsSeq(g) /\ Rising(g)
  BY <1>2, <1>3, RisesOn
<1>5. /\ DOMAIN g = 1..(Len(frames) + 1) /\ DOMAIN frames = 1..Len(frames) /\ Len(frames) \in Nat
      /\ \A k \in DOMAIN frames : g[k] = frames[k]
      /\ g[Len(frames) + 1] = f
  BY <1>2, AppendIs
<1> HIDE DEF g
<1>6. ASSUME NEW k \in DOMAIN g
      PROVE  \E i \in DOMAIN source.feed : i <= j /\ Tells(source, periods, source.feed[i], g[k])
  <2>1. CASE k = Len(frames) + 1
    <3>1. j \in DOMAIN source.feed /\ j <= j /\ Tells(source, periods, source.feed[j], g[k])
      BY <1>5, <2>1
    <3> QED BY <3>1
  <2>2. CASE k # Len(frames) + 1
    <3>1. k \in DOMAIN frames /\ g[k] = frames[k]
      BY <1>5, <2>2
    <3>2. PICK i \in DOMAIN source.feed : i <= n /\ Tells(source, periods, source.feed[i], frames[k])
      BY <3>1 DEF Told
    <3>3. i <= j
      BY <1>1, <3>2
    <3> HIDE DEF j
    <3> QED BY <3>1, <3>2, <3>3
  <2> QED BY <2>1, <2>2
<1> QED BY <1>4, <1>6 DEF Told, g

\* The readers that carry nothing about time from item to item.
Plain == {"skillcorner", "second spectrum", "signality", "statsperform"}

\* What is timely of them.
LEMMA PlainTimely ==
    ASSUME NEW source, source.reader \in Plain \cup {"tracab"}, NEW l, NEW n,
           Told(source, l.periods, l.frames, n)
    PROVE  Timely(l, source, n)
BY DEF Timely, Plain

\* They keep time, skipping an item or adding what it tells.
LEMMA PlainTurn ==
    ASSUME NEW source \in Inputs, source.reader \in Plain, NEW l, NEW m, NEW n \in Nat,
           n + 1 \in DOMAIN source.feed, Timely(l, source, n),
           NEW f, NEW P,
           \/ Shape(m) /\ m.frames = l.frames /\ m.periods = l.periods
           \/ Adds(l, m, f, P) /\ Tells(source, l.periods, source.feed[n + 1], f)
    PROVE  Timely(m, source, n + 1)
<1>1. source.reader \in Framewise /\ Told(source, l.periods, l.frames, n)
  BY DEF Timely, Plain, Framewise, Readers
<1>2. CASE m.frames = l.frames /\ m.periods = l.periods
  <2>1. Told(source, m.periods, m.frames, n + 1)
    BY <1>1, <1>2, ToldOn
  <2> QED BY <2>1, PlainTimely
<1>3. CASE Adds(l, m, f, P) /\ Tells(source, l.periods, source.feed[n + 1], f)
  <2>1. m.frames = Append(l.frames, f) /\ m.periods = l.periods
    BY <1>3 DEF Adds
  <2>2. Told(source, m.periods, m.frames, n + 1)
    BY <1>1, <1>3, <2>1, ToldMore
  <2> QED BY <2>2, PlainTimely
<1> QED BY <1>2, <1>3

\* SkillCorner.
LEMMA SkillCornerTimely ==
    ASSUME NEW source \in Inputs, source.reader = "skillcorner", NEW l, Shape(l), NEW n \in Nat,
           n + 1 \in DOMAIN source.feed, Timely(l, source, n), NEW opt
    PROVE  Timely(ReadSkillCorner(l, opt, source.meta, source.feed[n + 1]), source, n + 1)
<1> DEFINE raw  == source.feed[n + 1]
           m    == ReadSkillCorner(l, opt, source.meta, raw)
           data == IF source.meta.version = "V2" THEN FrameDataV2(l, raw) ELSE FrameDataV3(l, raw)
           f    == Frame(raw.id, raw.period, raw.clock - ClockStart(raw.period),
                         data.tracks, HasBall(raw.records), raw.owner, StateOf(raw))
<1>1. \/ Skips(l, m)
      \/ Adds(l, m, f, {}) /\ raw.clock # -1 /\ raw.period \in 1..5
  BY SkillCornerTurn
<1>2. f.period = raw.period /\ f.time = raw.clock - ClockStart(raw.period)
  BY DEF Frame
<1> HIDE DEF m, f
<1>3. raw.clock # -1 /\ raw.period \in 1..5 => Tells(source, l.periods, raw, f)
  <2> HIDE DEF raw
  <2> QED BY <1>2 DEF Tells
<1>4. source.reader \in Plain
  BY DEF Plain
<1> QED BY <1>1, <1>3, <1>4, PlainTurn DEF Skips, m

\* A number that is not past the end of a sequence is a place in it.
LEMMA PlaceIn == ASSUME NEW p \in Int, p >= 1, NEW n \in Nat, ~(p > n) PROVE p \in 1..n
OBVIOUS

\* Second Spectrum.
LEMMA SecondSpectrumTimely ==
    ASSUME NEW source \in Inputs, source.reader = "second spectrum", NEW l, Shape(l),
           NEW n \in Nat, n + 1 \in DOMAIN source.feed, Timely(l, source, n), NEW opt
    PROVE  Timely(ReadSecondSpectrum(l, opt, source.meta, source.feed[n + 1]), source, n + 1)
<1> DEFINE raw == source.feed[n + 1]
           m   == ReadSecondSpectrum(l, opt, source.meta, raw)
           f   == FrameFromFrameData(source.meta, raw)
           played == Played(source.meta)
<1>1. Skips(l, m) \/ (Adds(l, m, f, PlayersOf(raw.tracks)) /\ ~(raw.period > Len(played)))
  BY SecondSpectrumTurn
<1>2. f.period = played[raw.period].id /\ f.time = raw.clock
  BY DEF FrameFromFrameData, Frame
<1>3. raw.period \in Int
  <2>1. Shown(source, raw)
    BY DEF Shown
  <2>2. source.reader \notin {"hawkeye", "sportec"} /\ ClockRuns(source)
    BY ClockAssumption
  <2>3. Clock(source, raw) \in Int \X Int
    BY <2>1, <2>2 DEF ClockRuns
  <2> QED BY <2>3 DEF Clock
<1>4. raw.period >= 1 /\ IsSeq(played)
  <2>1. ClockRuns(source)
    BY ClockAssumption
  <2>2. /\ \A i \in DOMAIN source.feed : source.feed[i].period >= 1
        /\ IsSeq(Played(source.meta))
    BY <2>1 DEF ClockRuns
  <2> QED BY <2>2
<1>5. ~(raw.period > Len(played)) => raw.period \in DOMAIN played
  <2>1. Len(played) \in Nat /\ DOMAIN played = 1..Len(played)
    BY <1>4, SeqIs
  <2> HIDE DEF raw, played
  <2>2. ~(raw.period > Len(played)) => raw.period \in 1..Len(played)
    BY <1>3, <1>4, <2>1, PlaceIn
  <2> QED BY <2>1, <2>2
<1> HIDE DEF m, f
<1>6. ~(raw.period > Len(played)) => Tells(source, l.periods, raw, f)
  <2> HIDE DEF raw
  <2> QED BY <1>2, <1>5 DEF Tells
<1>7. source.reader \in Plain
  BY DEF Plain
<1> QED BY <1>1, <1>6, <1>7, PlainTurn DEF Skips, m

\* Signality.
LEMMA SignalityTimely ==
    ASSUME NEW source \in Inputs, source.reader = "signality", NEW l, Shape(l),
           NEW n \in Nat, n + 1 \in DOMAIN source.feed, Timely(l, source, n), NEW opt
    PROVE  Timely(ReadSignality(l, opt, source.meta, source.feed[n + 1]), source, n + 1)
<1> DEFINE raw == source.feed[n + 1]
           m   == ReadSignality(l, opt, source.meta, raw)
           f   == SignalityFrame(l, source.meta, raw)
<1>1. Skips(l, m) \/ Adds(l, m, f, {})
  BY SignalityTurn
<1>2. f.period = raw.period /\ f.time = raw.time
  BY DEF SignalityFrame, Frame
<1> HIDE DEF m, f
<1>3. Tells(source, l.periods, raw, f)
  <2> HIDE DEF raw
  <2> QED BY <1>2 DEF Tells
<1>4. source.reader \in Plain
  BY DEF Plain
<1> QED BY <1>1, <1>3, <1>4, PlainTurn DEF Skips, m

\* StatsPerform.
LEMMA StatsPerformTimely ==
    ASSUME NEW source \in Inputs, source.reader = "statsperform", NEW l, Shape(l),
           NEW n \in Nat, n + 1 \in DOMAIN source.feed, Timely(l, source, n), NEW opt
    PROVE  Timely(ReadStatsPerform(l, opt, source.feed[n + 1]), source, n + 1)
<1> DEFINE raw == source.feed[n + 1]
           m   == ReadStatsPerform(l, opt, raw)
           f   == StatsPerformFrame(raw)
           P   == PlayersOf(SideTracks(raw))
<1>1. \/ Shape(m) /\ m.frames = l.frames /\ m.periods = l.periods
      \/ Adds(l, m, f, P)
  BY StatsPerformTurn DEF Skips
<1>2. f.period = raw.period /\ f.time = raw.time
  BY DEF StatsPerformFrame, Frame
<1> HIDE DEF m, f, P
<1>3. Tells(source, l.periods, raw, f)
  <2> HIDE DEF raw
  <2> QED BY <1>2 DEF Tells
<1>4. source.reader \in Plain
  BY DEF Plain
<1> QED BY <1>1, <1>3, <1>4, PlainTurn DEF m

\* Metrica EPTS.
LEMMA EptsTimely ==
    ASSUME NEW source \in Inputs, source.reader = "metrica epts", NEW l, Shape(l),
           NEW n \in Nat, n + 1 \in DOMAIN source.feed, Timely(l, source, n), NEW opt
    PROVE  Timely(ReadMetricaEpts(l, opt, source.meta, source.feed[n + 1]), source, n + 1)
<1> DEFINE raw == source.feed[n + 1]
           m   == ReadMetricaEpts(l, opt, source.meta, raw)
           f   == EptsFrame(l, raw)
<1>1. Skips(l, m) \/ Adds(l, m, f, {})
  BY MetricaEptsTurn
<1>2. source.reader \in Framewise
  BY DEF Framewise, Readers
<1>3. Told(source, l.periods, l.frames, n) /\ l.periods = source.meta.periods
  BY <1>2 DEF Timely
<1> HIDE DEF m, raw
<1>4. Tells(source, l.periods, raw, f)
  <2>1. /\ f.id = raw.id /\ f.period = PeriodAt(l.periods, raw.id)
        /\ f.period # NoPeriod => f.time = raw.id - l.periods[f.period].start
    BY DEF EptsFrame, Frame
  <2> HIDE DEF f
  <2> QED BY <1>3, <2>1 DEF Tells
<1> HIDE DEF f
<1>5. m.periods = l.periods /\ Told(source, m.periods, m.frames, n + 1)
  <2>1. CASE Skips(l, m)
    BY <1>3, <2>1, ToldOn DEF Skips
  <2>2. CASE Adds(l, m, f, {})
    BY <1>2, <1>3, <1>4, <2>2, ToldMore DEF Adds, raw
  <2> QED BY <1>1, <2>1, <2>2
<1>6. Timely(m, source, n + 1)
  BY <1>3, <1>5 DEF Timely
<1> QED BY <1>6 DEF m, raw

\* The number before a number.
LEMMA BeforeIs == \A x \in Int : x - 1 \in Int
OBVIOUS

\* Metrica CSV: the start of a period stays, also when its end moves.
LEMMA CsvTimely ==
    ASSUME NEW source \in Inputs, source.reader = "metrica csv", NEW l, Shape(l),
           NEW n \in Nat, n + 1 \in DOMAIN source.feed, Timely(l, source, n), NEW opt
    PROVE  Timely(ReadMetricaCsv(l, opt, source.feed[n + 1]), source, n + 1)
<1> DEFINE raw    == source.feed[n + 1]
           m      == ReadMetricaCsv(l, opt, raw)
           opened == [l EXCEPT !.periods = PeriodsAfter(@, raw.home)]
           f      == CsvFrame(opened, raw)
           after  == PeriodsAfter(l.periods, raw.home)
<1>1. \/ raw.home = Absent /\ Skips(l, m)
      \/ raw.home # Absent /\ (Skips(opened, m) \/ Adds(opened, m, f, {}))
  BY MetricaCsvTurn
<1>2. source.reader \in Framewise
  BY DEF Framewise, Readers
<1>3. Told(source, l.periods, l.frames, n) /\ \A p \in DOMAIN l.periods : l.periods[p].start \in Int
  BY <1>2 DEF Timely
<1>4. opened.periods = after /\ opened.frames = l.frames
  BY DEF Shape, LoopFields
<1>5. ASSUME raw.home # Absent PROVE raw.home.id \in Int
  <2>1. Shown(source, raw)
    BY <1>5 DEF Shown
  <2>2. source.reader \notin {"hawkeye", "sportec"} /\ ClockRuns(source)
    BY ClockAssumption
  <2>3. Clock(source, raw) \in Int \X Int
    BY <2>1, <2>2 DEF ClockRuns
  <2> QED BY <2>3 DEF Clock
<1> HIDE DEF m, raw, opened
<1>6. /\ DOMAIN after = DOMAIN l.periods \cup {raw.home.period}
      /\ \A p \in DOMAIN l.periods : after[p].start = l.periods[p].start
      /\ raw.home.period \notin DOMAIN l.periods => after[raw.home.period].start = raw.home.id - 1
  BY <1>3 DEF PeriodsAfter, Put, Span
<1> HIDE DEF after
<1>7. ASSUME raw.home # Absent, NEW p \in DOMAIN after PROVE after[p].start \in Int
  <2> DEFINE first == raw.home.id - 1
  <2>1. first \in Int
    <3>1. raw.home.id \in Int
      BY <1>5, <1>7
    <3> QED BY <3>1, BeforeIs
  <2> HIDE DEF first
  <2>2. p \in DOMAIN l.periods \/ p = raw.home.period
    BY <1>6, <1>7
  <2>3. raw.home.period \notin DOMAIN l.periods => after[raw.home.period].start = first
    BY <1>6 DEF first
  <2> QED BY <1>3, <1>6, <2>1, <2>2, <2>3
<1>8. ASSUME NEW item, NEW g, Tells(source, l.periods, item, g)
      PROVE  Tells(source, after, item, g)
  BY <1>6, <1>8 DEF Tells
<1>9. Told(source, after, l.frames, n)
  BY <1>3, <1>8 DEF Told
<1>10. ASSUME raw.home # Absent PROVE Tells(source, after, raw, f)
  <2>1. f.period = raw.home.period /\ f.time = raw.home.id - opened.periods[raw.home.period].start
    BY DEF CsvFrame, Frame
  <2> HIDE DEF f
  <2>2. f.period \in DOMAIN after /\ after[f.period].start \in Int
    BY <1>6, <1>7, <1>10, <2>1
  <2> QED BY <1>4, <1>10, <2>1, <2>2 DEF Tells
<1> HIDE DEF f
<1>11. Told(source, m.periods, m.frames, n + 1) /\ \A p \in DOMAIN m.periods : m.periods[p].start \in Int
  <2>1. CASE raw.home = Absent /\ Skips(l, m)
    BY <1>3, <2>1, ToldOn DEF Skips
  <2>2. CASE raw.home # Absent /\ Skips(opened, m)
    <3>1. m.frames = l.frames /\ m.periods = after
      BY <1>4, <2>2 DEF Skips
    <3> QED BY <1>7, <1>9, <2>2, <3>1, ToldOn
  <2>3. CASE raw.home # Absent /\ Adds(opened, m, f, {})
    <3>1. m.frames = Append(l.frames, f) /\ m.periods = after
      BY <1>4, <2>3 DEF Adds
    <3> QED BY <1>2, <1>7, <1>9, <1>10, <2>3, <3>1, ToldMore DEF raw
  <2> QED BY <1>1, <2>1, <2>2, <2>3
<1>12. Timely(m, source, n + 1)
  BY <1>11 DEF Timely
<1> QED BY <1>12 DEF m, raw

\* PFF: the frames of extra time have a list of their own.
LEMMA PffTimely ==
    ASSUME NEW source \in Inputs, source.reader = "pff", NEW l, Shape(l), PffCarry(l.carry),
           NEW n \in Nat, n + 1 \in DOMAIN source.feed, Timely(l, source, n), NEW opt
    PROVE  Timely(ReadPff(l, opt, source.feed[n + 1]), source, n + 1)
<1> DEFINE raw == source.feed[n + 1]
           m   == ReadPff(l, opt, raw)
           f   == PffFrameOf(l, raw)
<1>1. \/ Skips(l, m) /\ m.carry.extra = l.carry.extra
      \/ raw.period \in {1, 2} /\ Adds(l, m, f, {}) /\ m.carry.extra = l.carry.extra
      \/ raw.period \in {3, 4} /\ Skips(l, m) /\ m.carry.extra = Append(l.carry.extra, f)
  BY PffTurn
<1>2. source.reader \in Framewise
  BY DEF Framewise, Readers
<1>3. /\ Told(source, l.periods, l.frames, n) /\ Told(source, l.periods, l.carry.extra, n)
      /\ \A k \in DOMAIN l.frames : l.frames[k].period \in {1, 2}
      /\ \A k \in DOMAIN l.carry.extra : /\ l.carry.extra[k].period \in {3, 4}
                                        /\ FrameFields \subseteq DOMAIN l.carry.extra[k]
  BY <1>2 DEF Timely
<1>4. f.period = raw.period /\ f.time = raw.elapsed /\ FrameFields \subseteq DOMAIN f
  BY DEF PffFrameOf, PffFrame, Frame, FrameFields
<1> HIDE DEF m, f
<1>5. raw.period \in {1, 2, 3, 4} => Tells(source, l.periods, raw, f)
  <2> HIDE DEF raw
  <2> QED BY <1>4 DEF Tells, NoPeriod
<1> DEFINE old == l.frames
           extra == l.carry.extra
<1>6. ASSUME NEW frames, IsSeq(frames), NEW k \in DOMAIN Append(frames, f)
      PROVE  (k \in DOMAIN frames /\ Append(frames, f)[k] = frames[k]) \/ Append(frames, f)[k] = f
  <2>1. /\ Len(frames) \in Nat /\ DOMAIN frames = 1..Len(frames)
        /\ DOMAIN Append(frames, f) = 1..(Len(frames) + 1)
        /\ \A j \in DOMAIN frames : Append(frames, f)[j] = frames[j]
        /\ Append(frames, f)[Len(frames) + 1] = f
    BY <1>6, AppendIs
  <2> QED BY <2>1
<1>7. /\ Told(source, m.periods, m.frames, n + 1) /\ Told(source, m.periods, m.carry.extra, n + 1)
      /\ \A k \in DOMAIN m.frames : m.frames[k].period \in {1, 2}
      /\ \A k \in DOMAIN m.carry.extra : /\ m.carry.extra[k].period \in {3, 4}
                                        /\ FrameFields \subseteq DOMAIN m.carry.extra[k]
  <2>1. CASE Skips(l, m) /\ m.carry.extra = l.carry.extra
    BY <1>3, <2>1, ToldOn DEF Skips
  <2>2. CASE raw.period \in {1, 2} /\ Adds(l, m, f, {}) /\ m.carry.extra = l.carry.extra
    <3>1. m.frames = Append(l.frames, f) /\ m.periods = l.periods
      BY <2>2 DEF Adds
    <3>2. Told(source, m.periods, m.frames, n + 1)
      BY <1>2, <1>3, <1>5, <2>2, <3>1, ToldMore
    <3>3. \A k \in DOMAIN m.frames : m.frames[k].period \in {1, 2}
      BY <1>3, <1>4, <1>6, <2>2, <3>1 DEF Told
    <3> QED BY <1>3, <2>2, <3>1, <3>2, <3>3, ToldOn
  <2>3. CASE raw.period \in {3, 4} /\ Skips(l, m) /\ m.carry.extra = Append(l.carry.extra, f)
    <3>1. m.frames = l.frames /\ m.periods = l.periods
      BY <2>3 DEF Skips
    <3>2. Told(source, m.periods, m.carry.extra, n + 1)
      BY <1>2, <1>3, <1>5, <2>3, <3>1, ToldMore
    <3>3. \A k \in DOMAIN m.carry.extra : /\ m.carry.extra[k].period \in {3, 4}
                                          /\ FrameFields \subseteq DOMAIN m.carry.extra[k]
      BY <1>3, <1>4, <1>6, <2>3, <3>1 DEF Told
    <3> QED BY <1>3, <2>3, <3>1, <3>2, <3>3, ToldOn
  <2> QED BY <1>1, <2>1, <2>2, <2>3
<1>8. Timely(m, source, n + 1)
  BY <1>7 DEF Timely
<1> QED BY <1>8 DEF m

\* Of the periods that contain an item of TRACAB, in order, those it was read for.
OnTrack(c, k, l) ==
    /\ Shape(l) /\ l.periods = TracabPeriods(c.source.meta) /\ Rising(l.frames)
    /\ \A j \in DOMAIN l.frames : \E i \in DOMAIN c.source.feed :
           /\ Tells(c.source, l.periods, c.source.feed[i], l.frames[j])
           /\ i <= c.n \/ (i = c.n + 1 /\ \E q \in 1..k : l.frames[j].period = c.ids[q])
Clocking == INSTANCE FoldInduction WITH Step <- TracabStep, Holds <- OnTrack

\* The fold over the periods of an item keeps what each step keeps.
LEMMA TracabClocks ==
    ASSUME NEW c, NEW l
    PROVE  ReadTracab(l, c.source.opt, c.source.meta, c.raw) =
               IF c.source.opt.only_alive /\ NotAlive(c.source.meta, c.raw) THEN l
               ELSE Clocking!Fold(c, l, Ascending({p \in DOMAIN l.periods :
                                                      Covers(l.periods[p], c.raw.id)}))
BY DEF ReadTracab, Clocking!Fold, TracabStep, FoldLeft, MapThenFoldSet, Max, Clocking!Last

\* An item of TRACAB in one period more.
LEMMA TracabSteps ==
    ASSUME NEW c, c.source \in Inputs, c.source.reader = "tracab", c.n \in Nat,
           c.n + 1 \in DOMAIN c.source.feed, c.raw = c.source.feed[c.n + 1],
           NEW size \in Nat, NEW k \in 1..size, NEW l, OnTrack(c, k - 1, l),
           \A j \in 1..size : /\ c.ids[j] \in DOMAIN TracabPeriods(c.source.meta)
                              /\ Covers(TracabPeriods(c.source.meta)[c.ids[j]], c.raw.id),
           \A i, j \in 1..size : i < j => c.ids[i] < c.ids[j]
    PROVE  OnTrack(c, k, TracabStep(c, l, c.ids[k]))
<1> DEFINE source == c.source
           p == c.ids[k]
           m == TracabInPeriod(l, source.opt, source.meta, c.raw, p)
           f == TracabFrame(l, c.raw, p)
           here == c.n + 1
           P == PlayersOf(Tracked(c.raw)) \ l.roster
<1>1. TracabStep(c, l, p) = m
  BY DEF TracabStep
<1>2. Shape(l) /\ l.periods = TracabPeriods(source.meta) /\ Rising(l.frames)
  BY DEF OnTrack
<1>3. Skips(l, m) \/ Adds(l, m, f, P)
  BY <1>2, TracabTurn
<1>4. source.reader \in Framewise
  BY DEF Framewise, Readers
<1>5. Tells(source, l.periods, source.feed[here], f) /\ f.period = p
  <2>1. f.period = p /\ f.time = c.raw.id - l.periods[p].start
    BY DEF TracabFrame, Frame
  <2> HIDE DEF f, here
  <2>2. p \in DOMAIN l.periods /\ Covers(l.periods[p], c.raw.id)
    BY <1>2
  <2>3. c.raw = source.feed[here]
    BY DEF here
  <2> HIDE DEF source, p
  <2>4. source.reader = "tracab"
    BY DEF source
  <2> QED BY <1>2, <2>1, <2>2, <2>3, <2>4 DEF Tells
<1>6. /\ \A q \in 1..(k - 1) : q \in 1..k /\ c.ids[q] < p
      /\ k \in 1..k
  <2>1. \A q \in 1..(k - 1) : q \in 1..size /\ q < k /\ q \in 1..k
    OBVIOUS
  <2> QED BY <2>1
<1> HIDE DEF m, f, P
<1>7. ASSUME NEW j \in DOMAIN l.frames
      PROVE  \E i \in DOMAIN source.feed :
                 /\ Tells(source, l.periods, source.feed[i], l.frames[j])
                 /\ i <= c.n \/ (i = here /\ \E q \in 1..(k - 1) : l.frames[j].period = c.ids[q])
  BY DEF OnTrack
<1> HIDE DEF source, p
<1>8. CASE Skips(l, m)
  <2>1. Shape(m) /\ m.frames = l.frames /\ m.periods = l.periods
    BY <1>8 DEF Skips
  <2> HIDE DEF here
  <2>2. ASSUME NEW j \in DOMAIN l.frames
        PROVE  \E i \in DOMAIN source.feed :
                   /\ Tells(source, l.periods, source.feed[i], l.frames[j])
                   /\ i <= c.n \/ (i = here /\ \E q \in 1..k : l.frames[j].period = c.ids[q])
    BY <1>6, <1>7
  <2> QED BY <1>1, <1>2, <2>1, <2>2 DEF OnTrack, here, source, p
<1>9. CASE Adds(l, m, f, P)
  <2>1. Shape(m) /\ m.frames = Append(l.frames, f) /\ m.periods = l.periods
    BY <1>9 DEF Adds
  <2>2. here \in DOMAIN source.feed /\ \A i \in DOMAIN source.feed : i <= c.n => i < here
    <3>1. source \in Inputs /\ here \in DOMAIN source.feed
      BY DEF source
    <3>2. DOMAIN source.feed = 1..Len(source.feed) /\ Len(source.feed) \in Nat
      BY <3>1, FeedIs
    <3> QED BY <3>1, <3>2
  <2> HIDE DEF here
  <2>3. ASSUME NEW j \in DOMAIN l.frames PROVE Precedes(l.frames[j], f)
    <3>1. PICK i \in DOMAIN source.feed :
              /\ Tells(source, l.periods, source.feed[i], l.frames[j])
              /\ i <= c.n \/ (i = here /\ \E q \in 1..(k - 1) : l.frames[j].period = c.ids[q])
      BY <1>7
    <3>2. CASE i <= c.n
      <4>1. i < here /\ source \in Inputs
        BY <2>2, <3>2 DEF source
      <4> QED BY <1>4, <1>5, <2>2, <3>1, <4>1, Advances
    <3>3. CASE \E q \in 1..(k - 1) : l.frames[j].period = c.ids[q]
      <4>1. l.frames[j].period < f.period
        BY <1>5, <1>6, <3>3
      <4> QED BY <4>1 DEF Precedes
    <3> QED BY <3>1, <3>2, <3>3
  <2>4. IsSeq(l.frames)
    BY <1>2 DEF Shape
  <2>5. Rising(m.frames)
    BY <1>2, <2>1, <2>3, <2>4, RisesOn
  <2>6. /\ DOMAIN m.frames = 1..(Len(l.frames) + 1) /\ DOMAIN l.frames = 1..Len(l.frames)
        /\ Len(l.frames) \in Nat
        /\ \A j \in DOMAIN l.frames : m.frames[j] = l.frames[j]
        /\ m.frames[Len(l.frames) + 1] = f
    BY <2>1, <2>4, AppendIs
  <2>7. \A j \in DOMAIN m.frames : j \in DOMAIN l.frames \/ m.frames[j] = f
    BY <2>6
  <2>8. ASSUME NEW j \in DOMAIN m.frames
        PROVE  \E i \in DOMAIN source.feed :
                   /\ Tells(source, l.periods, source.feed[i], m.frames[j])
                   /\ i <= c.n \/ (i = here /\ \E q \in 1..k : m.frames[j].period = c.ids[q])
    <3>1. CASE j \in DOMAIN l.frames
      <4>1. m.frames[j] = l.frames[j]
        BY <2>6, <3>1
      <4> QED BY <1>6, <1>7, <3>1, <4>1
    <3>2. CASE m.frames[j] = f
      <4>1. here \in DOMAIN source.feed /\ f.period = c.ids[k]
        BY <1>5, <2>2 DEF p
      <4> QED BY <1>5, <1>6, <3>2, <4>1
    <3> QED BY <2>7, <3>1, <3>2
  <2> QED BY <1>1, <1>2, <2>1, <2>5, <2>8 DEF OnTrack, here, source, p
<1> QED BY <1>3, <1>8, <1>9

\* TRACAB.
LEMMA TracabTimely ==
    ASSUME NEW source \in Inputs, source.reader = "tracab", NEW l, Closure(l, source),
           NEW n \in Nat, n + 1 \in DOMAIN source.feed, Timely(l, source, n)
    PROVE  Timely(ReadTracab(l, source.opt, source.meta, source.feed[n + 1]), source, n + 1)
<1> DEFINE raw    == source.feed[n + 1]
           within == {p \in DOMAIN l.periods : Covers(l.periods[p], raw.id)}
           c      == [source |-> source, raw |-> raw, n |-> n, ids |-> Ascending(within)]
           m      == ReadTracab(l, source.opt, source.meta, raw)
           size   == Cardinality(within)
<1>1. l.periods = TracabPeriods(source.meta) /\ Shape(l)
  BY DEF Closure
<1>2. within \in SUBSET Int /\ IsFiniteSet(within)
  <2>1. within \in SUBSET (DOMAIN l.periods)
    OBVIOUS
  <2>2. FiniteNumbers(DOMAIN source.meta.phases)
    BY FeedAssumption DEF WellFormed
  <2> HIDE DEF within
  <2> QED BY <1>1, <2>1, <2>2, TracabPeriodsFinite, FS_Subset DEF FiniteNumbers
<1>3. source.reader \in Framewise /\ Told(source, l.periods, l.frames, n)
  BY DEF Timely, Framewise, Readers
<1>4. /\ size \in Nat /\ DOMAIN Ascending(within) = 1..size
      /\ \A j \in 1..size : Ascending(within)[j] \in within
      /\ \A i, j \in 1..size : i < j => Ascending(within)[i] < Ascending(within)[j]
  <2> HIDE DEF within
  <2> QED BY <1>2, AscendingIs, AscendingAt
<1>5. \A p \in within : /\ p \in DOMAIN TracabPeriods(source.meta)
                        /\ Covers(TracabPeriods(source.meta)[p], raw.id)
  BY <1>1
<1>6. c.source = source /\ c.raw = raw /\ c.n = n /\ c.ids = Ascending(within)
  OBVIOUS
<1> HIDE DEF c
<1>7. m = IF source.opt.only_alive /\ NotAlive(source.meta, raw) THEN l
          ELSE Clocking!Fold(c, l, Ascending(within))
  BY <1>6, TracabClocks
<1> HIDE DEF m, within, size
<1>8. ASSUME NEW k \in 1..size, NEW h, OnTrack(c, k - 1, h)
      PROVE  OnTrack(c, k, TracabStep(c, h, Ascending(within)[k]))
  BY <1>4, <1>5, <1>6, <1>8, TracabSteps
<1>9. OnTrack(c, 0, l)
  <2>1. Rising(l.frames)
    BY <1>3 DEF Told
  <2>2. ASSUME NEW j \in DOMAIN l.frames
        PROVE  \E i \in DOMAIN source.feed :
                   Tells(source, l.periods, source.feed[i], l.frames[j]) /\ i <= n
    BY <1>3 DEF Told
  <2> QED BY <1>1, <1>6, <2>1, <2>2 DEF OnTrack
<1>10. OnTrack(c, size, Clocking!Fold(c, l, Ascending(within)))
  BY <1>4, <1>8, <1>9, Clocking!FoldHolds
<1>11. ASSUME NEW h, OnTrack(c, size, h) PROVE Told(source, h.periods, h.frames, n + 1)
  <2>1. \A i \in DOMAIN source.feed : i <= n => i <= n + 1
    BY FeedIs
  <2>2. n + 1 <= n + 1
    OBVIOUS
  <2>3. IsSeq(h.frames) /\ Rising(h.frames)
    BY <1>11 DEF OnTrack, Shape
  <2>4. ASSUME NEW j \in DOMAIN h.frames
        PROVE  \E i \in DOMAIN source.feed :
                   i <= n + 1 /\ Tells(source, h.periods, source.feed[i], h.frames[j])
    BY <1>6, <1>11, <2>1, <2>2 DEF OnTrack
  <2> QED BY <2>3, <2>4 DEF Told
<1>12. Told(source, m.periods, m.frames, n + 1)
  <2>1. CASE m = l
    BY <1>3, <2>1, ToldOn
  <2>2. CASE m # l
    BY <1>7, <1>10, <1>11, <2>2
  <2> QED BY <2>1, <2>2
<1> QED BY <1>12, PlainTimely DEF m

----------------------------------------------------------------------------
\* In order at the end

\* The frames of one sequence before those of another.
LEMMA RisesTogether ==
    ASSUME NEW s, NEW t, IsSeq(s), IsSeq(t), Rising(s), Rising(t),
           \A j \in DOMAIN s, k \in DOMAIN t : Precedes(s[j], t[k])
    PROVE  IsSeq(s \o t) /\ Rising(s \o t)
<1> DEFINE u == s \o t
<1>1. /\ Len(s) \in Nat /\ DOMAIN s = 1..Len(s)
      /\ Len(t) \in Nat /\ DOMAIN t = 1..Len(t)
      /\ DOMAIN u = 1..(Len(s) + Len(t)) /\ IsSeq(u)
      /\ \A k \in 1..Len(s) : u[k] = s[k]
      /\ \A k \in 1..Len(t) : u[Len(s) + k] = t[k]
  BY ConcatIs
<1> HIDE DEF u
<1>2. ASSUME NEW j \in DOMAIN u, NEW k \in DOMAIN u, j < k PROVE Precedes(u[j], u[k])
  <2>1. CASE k \in 1..Len(s)
    <3>1. j \in 1..Len(s)
      BY <1>1, <1>2, <2>1
    <3> QED BY <1>1, <1>2, <2>1, <3>1 DEF Rising
  <2>2. CASE k \notin 1..Len(s)
    <3>1. k - Len(s) \in 1..Len(t) /\ Len(s) + (k - Len(s)) = k
      BY <1>1, <2>2
    <3>2. u[k] = t[k - Len(s)] /\ k - Len(s) \in DOMAIN t
      BY <1>1, <3>1
    <3>3. CASE j \in 1..Len(s)
      BY <1>1, <3>2, <3>3
    <3>4. CASE j \notin 1..Len(s)
      <4>1. j - Len(s) \in 1..Len(t) /\ Len(s) + (j - Len(s)) = j /\ j - Len(s) < k - Len(s)
        BY <1>1, <1>2, <3>4
      <4>2. u[j] = t[j - Len(s)] /\ j - Len(s) \in DOMAIN t
        BY <1>1, <4>1
      <4> QED BY <3>2, <4>1, <4>2 DEF Rising
    <3> QED BY <3>3, <3>4
  <2> QED BY <2>1, <2>2
<1> QED BY <1>1, <1>2 DEF Rising, u

\* Turned round, a frame is as late as it was.
LEMMA MirroredKeeps ==
    ASSUME NEW f, FrameFields \subseteq DOMAIN f
    PROVE  Mirrored(f).period = f.period /\ Mirrored(f).time = f.time /\ Mirrored(f).id = f.id
<1> DEFINE other == {Seen(s.player, 0 - s.x) : s \in f.players}
<1>1. Mirrored(f) = [f EXCEPT !.players = other]
  BY DEF Mirrored
<1> HIDE DEF other
<1> QED BY <1>1 DEF FrameFields

\* f has the moment of one of the frames.
Among(frames, f) == \E k \in DOMAIN frames : f.period = frames[k].period /\ f.time = frames[k].time

\* Extra time of PFF follows the match.
LEMMA PffOrdered ==
    ASSUME NEW source, source.reader = "pff", NEW l, Closure(l, source),
           NEW n, Timely(l, source, n)
    PROVE  LET m == FinishPff(l)
           IN  /\ Rising(m.frames) /\ m.periods = l.periods
               /\ \A k \in DOMAIN m.frames : \/ Among(l.frames, m.frames[k])
                                              \/ Among(l.carry.extra, m.frames[k])
<1> DEFINE extra == l.carry.extra
           turn  == AttackingDirection(FramesIn(l.frames, 1)[1])
                      # AttackingDirection(FramesIn(extra, 3)[1])
           after == [k \in DOMAIN extra |-> IF turn THEN Mirrored(extra[k]) ELSE extra[k]]
           o == OrientByFirstFrame(l)
           m == [o EXCEPT !.frames = @ \o after]
<1>1. FinishPff(l) = IF FramesIn(l.frames, 1) = <<>> \/ (extra # <<>> /\ FramesIn(extra, 3) = <<>>)
                     THEN Fail(l, "no first frame") ELSE m
  BY DEF FinishPff
<1>2. /\ Shape(l) /\ IsSeq(extra)
      /\ Rising(l.frames) /\ Rising(extra)
      /\ \A k \in DOMAIN l.frames : l.frames[k].period \in {1, 2}
      /\ \A k \in DOMAIN extra : extra[k].period \in {3, 4} /\ FrameFields \subseteq DOMAIN extra[k]
  BY DEF Closure, PffCarry, Timely, Told, Framewise, Readers
<1> HIDE DEF turn
<1>3. /\ IsSeq(after) /\ DOMAIN after = DOMAIN extra
      /\ \A k \in DOMAIN extra : /\ after[k].period = extra[k].period
                                 /\ after[k].time = extra[k].time /\ after[k].id = extra[k].id
  <2>1. ASSUME NEW k \in DOMAIN extra
        PROVE  /\ after[k].period = extra[k].period
               /\ after[k].time = extra[k].time /\ after[k].id = extra[k].id
    <3>1. /\ Mirrored(extra[k]).period = extra[k].period
          /\ Mirrored(extra[k]).time = extra[k].time /\ Mirrored(extra[k]).id = extra[k].id
      BY <1>2, MirroredKeeps
    <3>2. after[k] \in {Mirrored(extra[k]), extra[k]}
      OBVIOUS
    <3> HIDE DEF after
    <3> QED BY <3>1, <3>2
  <2>2. DOMAIN after = 1..Len(extra) /\ Len(extra) \in Nat
    BY <1>2, SeqIs
  <2>3. after = [k \in 1..Len(extra) |-> after[k]] /\ DOMAIN after = DOMAIN extra
    BY <2>2
  <2> HIDE DEF after
  <2> QED BY <2>1, <2>2, <2>3, IntervalSeq
<1> HIDE DEF after
<1>4. Rising(after)
  BY <1>2, <1>3 DEF Rising, Precedes
<1>5. ASSUME NEW j \in DOMAIN l.frames, NEW k \in DOMAIN after
      PROVE  Precedes(l.frames[j], after[k])
  <2>1. l.frames[j].period \in {1, 2} /\ after[k].period \in {3, 4}
    BY <1>2, <1>3
  <2> QED BY <2>1 DEF Precedes
<1>6. Rising(l.frames \o after)
  BY <1>2, <1>3, <1>4, <1>5, RisesTogether DEF Shape
<1>7. Skips(l, o)
  BY <1>2, Turns DEF OrientByFirstFrame
<1> HIDE DEF o
<1>8. m.frames = l.frames \o after /\ m.periods = l.periods
  BY <1>7 DEF Skips, Shape, LoopFields
<1>9. \A k \in DOMAIN (l.frames \o after) : \/ Among(l.frames, (l.frames \o after)[k])
                                            \/ Among(extra, (l.frames \o after)[k])
  <2> DEFINE u == l.frames \o after
  <2>1. /\ Len(l.frames) \in Nat /\ DOMAIN l.frames = 1..Len(l.frames)
        /\ Len(after) \in Nat /\ DOMAIN after = 1..Len(after)
        /\ DOMAIN u = 1..(Len(l.frames) + Len(after))
        /\ \A k \in 1..Len(l.frames) : u[k] = l.frames[k]
        /\ \A k \in 1..Len(after) : u[Len(l.frames) + k] = after[k]
    BY <1>2, <1>3, ConcatIs DEF Shape
  <2> HIDE DEF u, extra, m
  <2>2. ASSUME NEW j \in DOMAIN u PROVE Among(l.frames, u[j]) \/ Among(extra, u[j])
    <3>1. CASE j \in 1..Len(l.frames)
      BY <2>1, <3>1 DEF Among
    <3>2. CASE j \notin 1..Len(l.frames)
      <4>1. j - Len(l.frames) \in 1..Len(after) /\ Len(l.frames) + (j - Len(l.frames)) = j
        BY <2>1, <3>2
      <4>2. u[j] = after[j - Len(l.frames)] /\ j - Len(l.frames) \in DOMAIN extra
        BY <1>3, <2>1, <4>1
      <4> QED BY <1>3, <4>2 DEF Among
    <3> QED BY <3>1, <3>2
  <2> QED BY <2>2 DEF u
<1> HIDE DEF m
<1>10. Fail(l, "no first frame").frames = l.frames /\ Fail(l, "no first frame").periods = l.periods
  BY <1>2, OrientedKeeps
<1>11. \A k \in DOMAIN l.frames : Among(l.frames, l.frames[k])
  BY DEF Among
<1> QED BY <1>1, <1>2, <1>6, <1>8, <1>9, <1>10, <1>11

\* Of two ticks in different minutes, the later has the later minute.
LEMMA MinutesInOrder ==
    ASSUME NEW ticks \in Nat, NEW a \in Nat, NEW b \in Nat,
           NEW s \in 0..(ticks - 1), NEW t \in 0..(ticks - 1), a * ticks + s < b * ticks + t
    PROVE  a <= b
<1>1. ASSUME b + 1 <= a PROVE FALSE
  <2>1. (b + 1) * ticks <= a * ticks
    BY <1>1
  <2>2. (b + 1) * ticks = b * ticks + ticks
    OBVIOUS
  <2>3. b * ticks \in Int /\ a * ticks \in Int /\ s \in Int /\ t \in Int /\ 0 <= s /\ t < ticks
    OBVIOUS
  <2> QED BY <2>1, <2>2, <2>3
<1> QED BY <1>1

\* The time of a tick is its number less that of the start of the segment.
LEMMA TickTime ==
    ASSUME NEW ticks \in Nat, NEW a \in Nat, NEW s \in 0..(ticks - 1), NEW m \in Int
    PROVE  /\ (a - m) * ticks + s = (a * ticks + s) - m * ticks
           /\ a * ticks + s \in Int /\ m * ticks \in Int
<1>1. (a - m) * ticks = a * ticks - m * ticks /\ a * ticks \in Int /\ m * ticks \in Int
  OBVIOUS
<1> QED BY <1>1

\* Every segment starts at a minute of the match.
LEMMA MinuteStartIs == \A segment \in Int : MinuteStart(segment) \in Int
BY DEF MinuteStart

\* A frame of a later number comes later.
LEMMA PlacedInOrder ==
    ASSUME NEW source \in Inputs, source.reader = "hawkeye",
           NEW x, NEW y, x < y, NEW f, Placed(source, x, f), NEW g, Placed(source, y, g)
    PROVE  Precedes(f, g)
<1>1. PICK i \in DOMAIN source.feed, s \in 0..(Ticks - 1) :
          /\ x = FrameId(source.feed[i], s) /\ f.period = source.feed[i].segment
          /\ f.time = TimeOf(source.feed[i], s)
  BY DEF Placed
<1>2. PICK j \in DOMAIN source.feed, t \in 0..(Ticks - 1) :
          /\ y = FrameId(source.feed[j], t) /\ g.period = source.feed[j].segment
          /\ g.time = TimeOf(source.feed[j], t)
  BY DEF Placed
<1> DEFINE a == source.feed[i].minute
           b == source.feed[j].minute
           p == source.feed[i].segment
           q == source.feed[j].segment
<1>3. a \in Nat /\ b \in Nat /\ Ticks \in Nat
  BY FeedAssumption DEF WellFormed
<1>4. p \in Int /\ q \in Int /\ (a <= b => p <= q)
  <2>1. ClockRuns(source)
    BY ClockAssumption
  <2> QED BY <2>1 DEF ClockRuns
<1>5. /\ x = a * Ticks + s /\ f.period = p /\ f.time = (a - MinuteStart(p)) * Ticks + s
      /\ y = b * Ticks + t /\ g.period = q /\ g.time = (b - MinuteStart(q)) * Ticks + t
  BY <1>1, <1>2 DEF FrameId, TimeOf
<1> HIDE DEF a, b, p, q
<1>6. a <= b
  BY <1>3, <1>5, MinutesInOrder
<1> DEFINE c == MinuteStart(p) * Ticks
           d == MinuteStart(q) * Ticks
<1>7. MinuteStart(p) \in Int /\ MinuteStart(q) \in Int
  BY <1>4, MinuteStartIs
<1>8. /\ f.time = x - c /\ x \in Int /\ c \in Int
      /\ g.time = y - d /\ y \in Int /\ d \in Int
  BY <1>3, <1>5, <1>7, TickTime
<1>9. p = q => c = d
  OBVIOUS
<1> HIDE DEF c, d
<1>10. p < q \/ p = q
  BY <1>4, <1>6
<1> QED BY <1>5, <1>8, <1>9, <1>10, LaterFrame

\* A frame of a tick is placed.
LEMMA TickPlaced ==
    ASSUME NEW source, NEW i \in DOMAIN source.feed, NEW tick \in 0..(Ticks - 1),
           NEW ball, NEW players
    PROVE  Placed(source, FrameId(source.feed[i], tick),
                  TickFrame(source.feed[i], tick, ball, players))
BY DEF Placed, TickFrame, Frame, FrameFields

\* Hawk-Eye collects placed frames.
LEMMA HawkEyeTimely ==
    ASSUME NEW source \in Inputs, source.reader = "hawkeye", NEW l, Shape(l), NEW n,
           Timely(l, source, n), NEW i \in DOMAIN source.feed, NEW opt, NEW after
    PROVE  Timely(ReadHawkEye(l, opt, source.feed[i]), source, after)
<1> DEFINE raw == source.feed[i]
           m == ReadHawkEye(l, opt, raw)
           parsed == l.carry.parsed
           balls  == {FrameId(raw, tick) : tick \in raw.balls}
           bodies == {FrameId(raw, p.tick) : p \in OnField(raw)}
           rolled == WithBalls(parsed, raw)
           next   == WithPlayers(rolled, raw)
<1>1. /\ m.frames = l.frames
      /\ m.carry = l.carry \/ m.carry = [parsed |-> next]
  BY HawkEyeTurn
<1>2. l.frames = <<>> /\ \A id \in DOMAIN parsed : Placed(source, id, parsed[id])
  BY DEF Timely
<1>3. raw.balls \subseteq 0..(Ticks - 1) /\ \A p \in raw.people : p.tick \in 0..(Ticks - 1)
  <2>1. ClockRuns(source)
    BY ClockAssumption
  <2> QED BY <2>1 DEF ClockRuns
<1>4. \A id \in DOMAIN rolled : Placed(source, id, rolled[id])
  <2> DEFINE tick(id) == CHOOSE t \in raw.balls : FrameId(raw, t) = id
             ball == TRUE
             none == {}
             made(id) == TickFrame(raw, tick(id), ball, none)
             mine == [id \in balls |-> made(id)]
  <2>1. rolled = Over(mine, parsed)
    BY DEF WithBalls
  <2>2. \A id \in balls : tick(id) \in raw.balls /\ FrameId(raw, tick(id)) = id
    OBVIOUS
  <2> HIDE DEF ball, none, tick, balls
  <2>3. ASSUME NEW id \in balls PROVE Placed(source, id, made(id))
    <3>1. tick(id) \in 0..(Ticks - 1) /\ FrameId(raw, tick(id)) = id
      BY <1>3, <2>2
    <3> QED BY <3>1, TickPlaced
  <2> HIDE DEF made
  <2>4. DOMAIN mine = balls /\ \A id \in balls : mine[id] = made(id)
    OBVIOUS
  <2> HIDE DEF mine, rolled, parsed
  <2>5. /\ DOMAIN rolled = balls \cup DOMAIN parsed
        /\ \A id \in DOMAIN rolled : rolled[id] = IF id \in balls THEN mine[id] ELSE parsed[id]
    BY <2>1, <2>4 DEF Over
  <2> QED BY <1>2, <2>3, <2>4, <2>5
<1>5. \A id \in DOMAIN next : Placed(source, id, next[id])
  <2> DEFINE here(id) == {p \in OnField(raw) : FrameId(raw, p.tick) = id}
             tracks(id) == {Seen(p.player, p.x) : p \in here(id)}
             all(id) == {s \in rolled[id].players : s.player \notin PlayersOf(tracks(id))}
                            \cup tracks(id)
             frame(id) == IF id \in DOMAIN rolled
                          THEN [rolled[id] EXCEPT
                                   !.players = {s \in @ : s.player \notin PlayersOf(tracks(id))}
                                               \cup tracks(id)]
                          ELSE TickFrame(raw, (CHOOSE p \in here(id) : TRUE).tick, FALSE, tracks(id))
  <2>1. next = [id \in DOMAIN rolled \cup bodies |-> frame(id)]
    BY DEF WithPlayers
  <2> HIDE DEF rolled
  <2>2. ASSUME NEW id \in DOMAIN rolled PROVE Placed(source, id, frame(id))
    <3>1. frame(id) = [rolled[id] EXCEPT !.players = all(id)]
      BY <2>2
    <3> HIDE DEF all, frame
    <3>2. Placed(source, id, rolled[id])
      BY <1>4, <2>2
    <3>3. /\ frame(id) = [x \in FrameFields |-> frame(id)[x]]
          /\ frame(id).period = rolled[id].period /\ frame(id).time = rolled[id].time
      BY <3>1, <3>2 DEF Placed, FrameFields
    <3> QED BY <3>2, <3>3 DEF Placed
  <2>3. ASSUME NEW id \in bodies, id \notin DOMAIN rolled PROVE Placed(source, id, frame(id))
    <3> DEFINE p == CHOOSE p \in here(id) : TRUE
               ball == FALSE
    <3>1. frame(id) = TickFrame(raw, p.tick, ball, tracks(id))
      BY <2>3
    <3>2. p \in here(id)
      <4>1. here(id) # {}
        BY <2>3
      <4> HIDE DEF here
      <4> QED BY <4>1
    <3>3. p \in raw.people /\ FrameId(raw, p.tick) = id
      BY <3>2 DEF OnField
    <3> HIDE DEF frame, p, ball, tracks
    <3>4. p.tick \in 0..(Ticks - 1)
      BY <1>3, <3>3
    <3> QED BY <3>1, <3>3, <3>4, TickPlaced
  <2> HIDE DEF frame, next, bodies
  <2> QED BY <2>1, <2>2, <2>3
<1> HIDE DEF m, next
<1>6. m.carry.parsed = next => \A id \in DOMAIN m.carry.parsed : Placed(source, id, m.carry.parsed[id])
  BY <1>5
<1>7. m.carry = [parsed |-> next] => m.carry.parsed = next
  OBVIOUS
<1>8. /\ m.frames = <<>>
      /\ \A id \in DOMAIN m.carry.parsed : Placed(source, id, m.carry.parsed[id])
  BY <1>1, <1>2, <1>6, <1>7
<1>9. source.reader \notin Framewise /\ source.reader \notin {"metrica csv", "metrica epts", "pff", "sportec"}
  BY DEF Framewise
<1>10. Timely(m, source, after)
  BY <1>8, <1>9 DEF Timely
<1> QED BY <1>10 DEF m

\* It delivers them by their numbers.
LEMMA HawkEyeOrdered ==
    ASSUME NEW source \in Inputs, source.reader = "hawkeye", NEW l, Closure(l, source),
           NEW n, Timely(l, source, n), NEW opt
    PROVE  LET m == FinishHawkEye(l, opt)
           IN  /\ Rising(m.frames) /\ m.periods = l.periods
               /\ \A k \in DOMAIN m.frames :
                      \E id \in DOMAIN l.carry.parsed : m.frames[k] = l.carry.parsed[id]
<1> DEFINE parsed == l.carry.parsed
           ids    == Ascending(DOMAIN parsed)
           kept   == {i \in DOMAIN ids : Sampled(opt, ids[i])}
           Reached(i) == opt.limit # 0 /\ (i - 1) * opt.rate[1] + opt.rate[2] >= opt.limit * opt.rate[2]
           until  == {i \in kept : \A j \in kept : j < i => ~Reached(j)}
           places == Ascending(until)
           frames == [k \in DOMAIN places |-> parsed[ids[places[k]]]]
           last   == [l EXCEPT !.frames = frames]
<1>1. FinishHawkEye(l, opt) = OrientByFirstFrame(last)
  BY DEF FinishHawkEye
<1>2. ParsedKnown(l.carry, l.roster) /\ Shape(l)
  BY DEF Closure
<1>3. \A id \in DOMAIN parsed : Placed(source, id, parsed[id])
  BY DEF Timely
<1>4. /\ DOMAIN ids = 1..Cardinality(DOMAIN parsed) /\ Cardinality(DOMAIN parsed) \in Nat
      /\ \A j \in DOMAIN ids : ids[j] \in DOMAIN parsed
      /\ \A j, k \in DOMAIN ids : j < k => ids[j] < ids[k]
  <2>1. DOMAIN parsed \in SUBSET Int /\ IsFiniteSet(DOMAIN parsed)
    BY <1>2 DEF ParsedKnown
  <2> HIDE DEF parsed
  <2> QED BY <2>1, AscendingIs, AscendingAt
<1>5. until \in SUBSET Int /\ IsFiniteSet(until) /\ until \subseteq DOMAIN ids
  <2> HIDE DEF ids, Reached
  <2>1. until \in SUBSET (1..Cardinality(DOMAIN parsed))
    BY <1>4
  <2>2. IsFiniteSet(1..Cardinality(DOMAIN parsed))
    BY <1>4, FS_Interval
  <2> HIDE DEF until, parsed
  <2>3. IsFiniteSet(until)
    BY <2>1, <2>2, FS_Subset
  <2> QED BY <1>4, <2>1, <2>3
<1>6. /\ DOMAIN places = 1..Cardinality(until) /\ Cardinality(until) \in Nat
      /\ \A j \in DOMAIN places : places[j] \in until
      /\ \A j, k \in DOMAIN places : j < k => places[j] < places[k]
  <2> HIDE DEF until
  <2> QED BY <1>5, AscendingIs, AscendingAt
<1> HIDE DEF until, ids, places, parsed
<1>7. IsSeq(frames) /\ DOMAIN frames = DOMAIN places
  <2>1. frames = [k \in 1..Cardinality(until) |-> frames[k]]
    BY <1>6
  <2> HIDE DEF frames
  <2> QED BY <1>6, <2>1, IntervalSeq
<1>8. Rising(frames)
  <2>1. ASSUME NEW j \in DOMAIN places, NEW k \in DOMAIN places, j < k
        PROVE  Precedes(frames[j], frames[k])
    <3>1. /\ places[j] \in DOMAIN ids /\ places[k] \in DOMAIN ids /\ places[j] < places[k]
      BY <1>5, <1>6, <2>1
    <3>2. /\ ids[places[j]] \in DOMAIN parsed /\ ids[places[k]] \in DOMAIN parsed
          /\ ids[places[j]] < ids[places[k]]
      BY <1>4, <3>1
    <3>3. frames[j] = parsed[ids[places[j]]] /\ frames[k] = parsed[ids[places[k]]]
      OBVIOUS
    <3> HIDE DEF frames
    <3> QED BY <1>3, <3>2, <3>3, PlacedInOrder
  <2> HIDE DEF frames
  <2> QED BY <1>7, <2>1 DEF Rising
<1>9. \A k \in DOMAIN frames : \E id \in DOMAIN parsed : frames[k] = parsed[id]
  <2>1. \A k \in DOMAIN places : frames[k] = parsed[ids[places[k]]] /\ ids[places[k]] \in DOMAIN parsed
    BY <1>4, <1>5, <1>6
  <2> HIDE DEF frames
  <2> QED BY <1>7, <2>1
<1> HIDE DEF frames
<1>10. Shape(last) /\ last.frames = frames /\ last.periods = l.periods
  BY <1>2, <1>7 DEF Shape, LoopFields
<1> HIDE DEF last
<1>11. OrientByFirstFrame(last).frames = frames /\ OrientByFirstFrame(last).periods = l.periods
  BY <1>10, OrientedKeeps
<1> QED BY <1>1, <1>8, <1>9, <1>11 DEF parsed

\* The rows collected so far are kept by the numbers they have.
RowsNumbered(c, k, carry) == \A key \in DOMAIN carry.rows : Numbered(c.source, key)
Numbering == INSTANCE FoldInduction WITH Step <- Collecting, Holds <- RowsNumbered

\* Sportec collects numbered rows.
LEMMA SportecTimely ==
    ASSUME NEW source \in Inputs, source.reader = "sportec", NEW l, Shape(l), NEW n,
           Timely(l, source, n), NEW opt, NEW raw, IsSeq(raw.rows),
           NEW i \in DOMAIN source.feed, raw.period = source.feed[i].period,
           raw.rows = source.feed[i].rows, NEW after
    PROVE  Timely(ReadSportec(l, opt, source.meta, raw), source, after)
<1> DEFINE c == [opt |-> opt, raw |-> raw, source |-> source]
           m == ReadSportec(l, opt, source.meta, raw)
           rows == Numbering!Fold(c, l.carry, raw.rows)
<1>1. c.opt = opt /\ c.raw = raw /\ c.source = source
  OBVIOUS
<1> HIDE DEF c
<1>2. ReadSportec(l, c.opt, source.meta, c.raw) =
          IF SkipFrameSet(c.opt, source.meta, l.carry, c.raw) THEN l
          ELSE Carry(l, Numbering!Fold(c, l.carry, c.raw.rows))
  BY DEF ReadSportec, Numbering!Fold, Collecting, FoldLeft, MapThenFoldSet, Max, Numbering!Last
<1> HIDE DEF rows
<1>3. m = l \/ m = Carry(l, rows)
  BY <1>1, <1>2 DEF rows
<1> HIDE DEF m
<1>4. Skips(l, m) /\ (m.carry = l.carry \/ m.carry = rows)
  BY <1>3, Turns
<1>5. l.frames = <<>> /\ RowsNumbered(c, 0, l.carry)
  BY <1>1 DEF Timely, RowsNumbered
<1>6. Len(raw.rows) \in Nat /\ DOMAIN raw.rows = 1..Len(raw.rows)
  BY SeqIs
<1>7. ASSUME NEW k \in 1..Len(raw.rows), NEW carry, RowsNumbered(c, k - 1, carry)
      PROVE  RowsNumbered(c, k, Collecting(c, carry, raw.rows[k]))
  <2> DEFINE row == raw.rows[k]
             key == <<raw.period, row.n, raw.object>>
             more == Put(carry.rows, key, row)
  <2>1. \E j \in DOMAIN source.feed[i].rows : row.n = source.feed[i].rows[j].n
    BY <1>6
  <2> HIDE DEF row
  <2>2. key[1] = source.feed[i].period /\ key[2] = row.n
    OBVIOUS
  <2> HIDE DEF key
  <2>3. DOMAIN more = DOMAIN carry.rows \cup {key}
    BY DEF Put
  <2>4. Numbered(source, key)
    BY <2>1, <2>2 DEF Numbered
  <2>5. \A other \in DOMAIN more : Numbered(source, other)
    BY <1>1, <1>7, <2>3, <2>4 DEF RowsNumbered
  <2> HIDE DEF more
  <2>6. \/ Collecting(c, carry, row) = carry
        \/ Collecting(c, carry, row).rows = more
    BY <1>1 DEF Collecting, CollectRow, more, key
  <2>7. RowsNumbered(c, k, Collecting(c, carry, row))
    BY <1>1, <1>7, <2>5, <2>6 DEF RowsNumbered
  <2> QED BY <2>7 DEF row
<1>8. RowsNumbered(c, Len(raw.rows), rows)
  BY <1>5, <1>6, <1>7, Numbering!FoldHolds DEF rows
<1>9. m.frames = <<>> /\ \A key \in DOMAIN m.carry.rows : Numbered(source, key)
  BY <1>1, <1>4, <1>5, <1>8 DEF RowsNumbered, Skips
<1>10. source.reader \notin Framewise /\ source.reader \notin {"metrica csv", "metrica epts", "pff", "hawkeye"}
  BY DEF Framewise
<1>11. Timely(m, source, after)
  BY <1>9, <1>10 DEF Timely
<1> QED BY <1>11 DEF m

\* A frame tells of a row that was kept.
OfRow(l, f) ==
    \E key \in DOMAIN l.carry.rows :
        key[1] \in DOMAIN l.periods /\ f.period = key[1] /\ f.time = key[2] - l.periods[key[1]].start

\* What it delivers of a period is in order.
LEMMA PeriodFramesOrdered ==
    ASSUME NEW l, IsFiniteSet(DOMAIN l.carry.rows), \A key \in DOMAIN l.carry.rows : key[2] \in Int,
           NEW opt, NEW period \in DOMAIN l.periods, l.periods[period].start \in Int
    PROVE  LET frames == FramesOfPeriod(l, opt, period)
           IN  /\ IsSeq(frames) /\ Rising(frames)
               /\ \A k \in DOMAIN frames : frames[k].period = period /\ OfRow(l, frames[k])
<1> DEFINE rows == l.carry.rows
           mine == {r \in DOMAIN rows : r[1] = period}
           numbers == {k[2] : k \in mine}
           ids  == Ascending(numbers)
           kept == {i \in DOMAIN ids :
                       /\ <<period, ids[i], Ball>> \in DOMAIN rows
                       /\ opt.only_alive => rows[<<period, ids[i], Ball>>].status = 1
                       /\ Sampled(opt, i - 1)}
           places == Ascending(kept)
           frames == [k \in DOMAIN places |-> SportecFrame(l, period, ids[places[k]])]
<1>1. FramesOfPeriod(l, opt, period) = frames
  BY DEF FramesOfPeriod
<1>2. numbers \in SUBSET Int /\ IsFiniteSet(numbers)
  <2>1. mine \in SUBSET (DOMAIN rows) /\ IsFiniteSet(DOMAIN rows)
    OBVIOUS
  <2>2. IsFiniteSet(mine)
    <3> HIDE DEF mine, rows
    <3> QED BY <2>1, FS_Subset
  <2> DEFINE f == [k \in mine |-> k[2]]
  <2>3. {f[k] : k \in mine} = numbers /\ numbers \in SUBSET Int
    OBVIOUS
  <2> HIDE DEF f, mine, numbers
  <2> QED BY <2>2, <2>3, ImageFinite
<1>3. /\ DOMAIN ids = 1..Cardinality(numbers) /\ Cardinality(numbers) \in Nat
      /\ \A j \in DOMAIN ids : ids[j] \in Int
      /\ \A j, k \in DOMAIN ids : j < k => ids[j] < ids[k]
  <2> HIDE DEF numbers
  <2> QED BY <1>2, AscendingIs, AscendingAt
<1>4. kept \in SUBSET Int /\ IsFiniteSet(kept) /\ kept \subseteq DOMAIN ids
  <2> HIDE DEF ids, numbers
  <2>1. kept \in SUBSET (1..Cardinality(numbers))
    BY <1>3
  <2>2. IsFiniteSet(1..Cardinality(numbers)) /\ 1..Cardinality(numbers) \subseteq Int
    BY <1>3, FS_Interval
  <2> HIDE DEF kept
  <2>3. IsFiniteSet(kept)
    BY <2>1, <2>2, FS_Subset
  <2> QED BY <1>3, <2>1, <2>2, <2>3
<1>5. /\ DOMAIN places = 1..Cardinality(kept) /\ Cardinality(kept) \in Nat
      /\ \A j \in DOMAIN places : places[j] \in kept
      /\ \A j, k \in DOMAIN places : j < k => places[j] < places[k]
  <2> HIDE DEF kept
  <2> QED BY <1>4, AscendingIs, AscendingAt
<1>6. \A k \in DOMAIN places : \E key \in DOMAIN rows : key[1] = period /\ key[2] = ids[places[k]]
  <2>1. ASSUME NEW k \in DOMAIN places PROVE ids[places[k]] \in numbers
    <3>1. places[k] \in 1..Cardinality(numbers)
      BY <1>3, <1>4, <1>5
    <3> HIDE DEF numbers, places
    <3> QED BY <1>2, <3>1, AscendingAt
  <2> HIDE DEF places, ids, kept
  <2> QED BY <2>1
<1> HIDE DEF places, kept, ids, numbers, rows, mine
<1>7. IsSeq(frames) /\ DOMAIN frames = DOMAIN places
  <2>1. frames = [k \in 1..Cardinality(kept) |-> frames[k]]
    BY <1>5
  <2> HIDE DEF frames
  <2> QED BY <1>5, <2>1, IntervalSeq
<1>8. \A n : /\ SportecFrame(l, period, n).period = period
             /\ SportecFrame(l, period, n).time = n - l.periods[period].start
  BY DEF SportecFrame, Frame
<1>9. \A k \in DOMAIN places : /\ frames[k].period = period
                               /\ frames[k].time = ids[places[k]] - l.periods[period].start
  BY <1>8
<1> HIDE DEF frames
<1>10. \A k \in DOMAIN frames : OfRow(l, frames[k])
  BY <1>6, <1>7, <1>9 DEF OfRow, rows
<1>11. ASSUME NEW j \in DOMAIN frames, NEW k \in DOMAIN frames, j < k
      PROVE  Precedes(frames[j], frames[k])
  <2> DEFINE x == ids[places[j]]
             y == ids[places[k]]
             c == l.periods[period].start
  <2>1. places[j] \in DOMAIN ids /\ places[k] \in DOMAIN ids /\ places[j] < places[k]
    BY <1>4, <1>5, <1>7, <1>11
  <2>2. x \in Int /\ y \in Int /\ x < y /\ c \in Int
    BY <1>3, <2>1
  <2>3. /\ frames[j].period = period /\ frames[j].time = x - c
        /\ frames[k].period = period /\ frames[k].time = y - c
    BY <1>7, <1>9
  <2> HIDE DEF x, y, c
  <2> QED BY <2>2, <2>3, LaterFrame
<1> QED BY <1>1, <1>7, <1>9, <1>10, <1>11 DEF Rising

\* The frames of the first k periods, one period after the other.
PeriodsInOrder(c, k, all) ==
    /\ IsSeq(all) /\ Rising(all)
    /\ \A j \in DOMAIN all : OfRow(c.l, all[j]) /\ \E q \in 1..k : all[j].period = c.ids[q]
Ordering == INSTANCE FoldInduction WITH Step <- PeriodStep, Holds <- PeriodsInOrder

\* The places before one of a sequence are places of it.
LEMMA PlacesBefore ==
    ASSUME NEW size \in Nat, NEW k \in 1..size
    PROVE  k \in 1..k /\ \A q \in 1..(k - 1) : q \in 1..k /\ q \in 1..size /\ q < k
OBVIOUS

\* Sportec delivers its frames in order, period after period.
LEMMA SportecOrdered ==
    ASSUME NEW source \in Inputs, source.reader = "sportec", NEW l, Closure(l, source),
           NEW n, Timely(l, source, n), NEW opt, opt.limit \in Nat
    PROVE  LET m == FinishSportec(l, opt)
           IN  /\ Rising(m.frames) /\ m.periods = l.periods
               /\ \A k \in DOMAIN m.frames : OfRow(l, m.frames[k])
<1> DEFINE ids  == Ascending(DOMAIN l.periods)
           c    == [l |-> l, opt |-> opt, ids |-> ids]
           all  == Ordering!Fold(c, <<>>, ids)
           some == IF PlainLimit(opt, Len(all)) THEN SubSeq(all, 1, opt.limit) ELSE all
           last == [l EXCEPT !.frames = some]
           size == Cardinality(DOMAIN l.periods)
<1>1. c.l = l /\ c.opt = opt /\ c.ids = ids
  OBVIOUS
<1>2. /\ Shape(l) /\ l.periods = source.meta.periods /\ IsFiniteSet(DOMAIN l.carry.rows)
      /\ \A key \in DOMAIN l.carry.rows : key[2] \in Int
  <2>1. ClockRuns(source) /\ \A key \in DOMAIN l.carry.rows : Numbered(source, key)
    BY ClockAssumption DEF Timely
  <2>2. \A key \in DOMAIN l.carry.rows : key[2] \in Int
    BY <2>1 DEF Numbered, ClockRuns
  <2> QED BY <2>2 DEF Closure
<1>3. /\ DOMAIN ids = 1..size /\ size \in Nat
      /\ \A k \in 1..size : ids[k] \in DOMAIN l.periods
      /\ \A j, k \in 1..size : j < k => ids[j] < ids[k]
  <2>1. DOMAIN l.periods \in SUBSET Int /\ IsFiniteSet(DOMAIN l.periods)
    BY <1>2, FeedAssumption DEF WellFormed, FiniteNumbers
  <2> QED BY <2>1, AscendingIs, AscendingAt
<1>4. \A p \in DOMAIN l.periods : l.periods[p].start \in Int
  <2>1. ClockRuns(source)
    BY ClockAssumption
  <2> QED BY <1>2, <2>1 DEF ClockRuns
<1> HIDE DEF c
<1>5. FinishSportec(l, opt) = OrientByFirstFrame(last)
  BY <1>1 DEF FinishSportec, Ordering!Fold, PeriodStep, FoldLeft, MapThenFoldSet, Max, Ordering!Last
<1> HIDE DEF ids, size
<1>6. ASSUME NEW k \in 1..size, NEW before, PeriodsInOrder(c, k - 1, before)
      PROVE  PeriodsInOrder(c, k, PeriodStep(c, before, ids[k]))
  <2> DEFINE id == ids[k]
             more == FramesOfPeriod(l, opt, id)
             u == before \o more
  <2>1. /\ IsSeq(more) /\ Rising(more)
        /\ \A j \in DOMAIN more : more[j].period = id /\ OfRow(l, more[j])
    <3>1. id \in DOMAIN l.periods /\ l.periods[id].start \in Int
      BY <1>3, <1>4
    <3> QED BY <1>2, <3>1, PeriodFramesOrdered
  <2>2. PeriodStep(c, before, id) = u
    BY <1>1 DEF PeriodStep
  <2> HIDE DEF more
  <2>3. k \in 1..k /\ \A q \in 1..(k - 1) : q \in 1..k /\ q \in 1..size /\ q < k
    BY <1>3, PlacesBefore
  <2>4. ASSUME NEW j \in DOMAIN before
        PROVE  /\ before[j].period < id /\ OfRow(l, before[j])
               /\ \E q \in 1..k : before[j].period = ids[q]
    <3>1. PICK q \in 1..(k - 1) : OfRow(l, before[j]) /\ before[j].period = ids[q]
      BY <1>1, <1>6 DEF PeriodsInOrder
    <3>2. ids[q] < id
      BY <1>3, <2>3
    <3> QED BY <2>3, <3>1, <3>2
  <2>5. IsSeq(u) /\ Rising(u)
    <3>1. \A i \in DOMAIN before, j \in DOMAIN more : Precedes(before[i], more[j])
      BY <2>1, <2>4 DEF Precedes
    <3> QED BY <1>6, <2>1, <3>1, RisesTogether DEF PeriodsInOrder
  <2>6. ASSUME NEW j \in DOMAIN u PROVE OfRow(l, u[j]) /\ \E q \in 1..k : u[j].period = ids[q]
    <3>1. /\ Len(before) \in Nat /\ DOMAIN before = 1..Len(before)
          /\ Len(more) \in Nat /\ DOMAIN more = 1..Len(more)
          /\ DOMAIN u = 1..(Len(before) + Len(more))
          /\ \A i \in 1..Len(before) : u[i] = before[i]
          /\ \A i \in 1..Len(more) : u[Len(before) + i] = more[i]
      BY <1>6, <2>1, ConcatIs DEF PeriodsInOrder
    <3> HIDE DEF u
    <3>2. CASE j \in 1..Len(before)
      BY <2>4, <3>1, <3>2
    <3>3. CASE j \notin 1..Len(before)
      <4>1. j - Len(before) \in 1..Len(more) /\ Len(before) + (j - Len(before)) = j
        BY <3>1, <3>3
      <4>2. u[j] = more[j - Len(before)] /\ j - Len(before) \in DOMAIN more
        BY <3>1, <4>1
      <4>3. u[j].period = id /\ OfRow(l, u[j])
        BY <2>1, <4>2
      <4> QED BY <2>3, <4>3
    <3> QED BY <3>2, <3>3
  <2> HIDE DEF u, id
  <2>7. PeriodsInOrder(c, k, u)
    BY <1>1, <2>5, <2>6 DEF PeriodsInOrder
  <2> QED BY <2>2, <2>7 DEF id
<1>7. PeriodsInOrder(c, 0, <<>>)
  BY EmptyIs DEF PeriodsInOrder, Rising
<1>8. PeriodsInOrder(c, size, all)
  <2> HIDE DEF last
  <2> QED BY <1>3, <1>6, <1>7, Ordering!FoldHolds
<1> HIDE DEF all
<1>9. IsSeq(all) /\ Rising(all) /\ \A k \in DOMAIN all : OfRow(l, all[k])
  BY <1>1, <1>8 DEF PeriodsInOrder
<1>10. IsSeq(some) /\ Rising(some) /\ \A k \in DOMAIN some : OfRow(l, some[k])
  <2>1. CASE ~PlainLimit(opt, Len(all))
    BY <1>9, <2>1
  <2>2. CASE PlainLimit(opt, Len(all))
    <3> DEFINE S == {all[k] : k \in DOMAIN all}
               t == SubSeq(all, 1, opt.limit)
    <3>1. Len(all) \in Nat /\ DOMAIN all = 1..Len(all) /\ opt.limit <= Len(all) /\ opt.limit # 0
      BY <1>9, <2>2, SeqIs DEF PlainLimit
    <3>2. \A k \in 1..opt.limit : k \in DOMAIN all /\ all[k] \in S
      BY <3>1
    <3> HIDE DEF S
    <3>3. /\ t \in Seq(S) /\ Len(t) = opt.limit
          /\ \A k \in 1..opt.limit : t[k] = all[k]
      <4>1. /\ t \in Seq(S) /\ Len(t) = IF 1 <= opt.limit THEN opt.limit - 1 + 1 ELSE 0
            /\ \A k \in 1..(opt.limit - 1 + 1) : t[k] = all[1 + k - 1]
        BY <3>2, SubSeqProperties
      <4>2. 1 <= opt.limit /\ opt.limit - 1 + 1 = opt.limit /\ \A k \in 1..opt.limit : 1 + k - 1 = k
        BY <3>1
      <4> HIDE DEF t
      <4> QED BY <4>1, <4>2
    <3> HIDE DEF t
    <3>4. DOMAIN t = 1..opt.limit /\ t = [k \in 1..opt.limit |-> t[k]]
      BY <3>3, LenProperties
    <3>5. IsSeq(t)
      BY <3>4, IntervalSeq
    <3>6. Rising(t) /\ \A k \in DOMAIN t : OfRow(l, t[k])
      BY <1>9, <3>2, <3>3, <3>4 DEF Rising
    <3> QED BY <2>2, <3>5, <3>6 DEF t
  <2> QED BY <2>1, <2>2
<1> HIDE DEF some
<1>11. Shape(last) /\ last.frames = some /\ last.periods = l.periods
  BY <1>2, <1>10 DEF Shape, LoopFields
<1> HIDE DEF last
<1>12. OrientByFirstFrame(last).frames = some /\ OrientByFirstFrame(last).periods = l.periods
  BY <1>11, OrientedKeeps
<1> QED BY <1>5, <1>10, <1>12

\* A loop starts without a frame.
LEMMA NothingTold == \A source, periods, n : Told(source, periods, <<>>, n)
BY EmptyIs DEF Told, Rising

\* Every reader starts its loop in time, with no item read.
LEMMA BeginTimely ==
    ASSUME NEW source, WellFormed(source)
    PROVE  Timely(Begin(source), source, 0)
<1> DEFINE m == Begin(source)
<1>1. CASE source.reader \in Plain \cup {"tracab"}
  <2>1. m.frames = <<>>
    <3>1. CASE source.reader = "signality"
      <4> DEFINE l == Start(SignalityPeriods(source.meta.whole), source.meta.roster, [period |-> NoPeriod])
      <4>1. m = IF NotEnded(source.meta.whole) THEN Fail(l, "not ended") ELSE l
        BY <3>1 DEF Begin, StartSignality
      <4>2. Shape(l) /\ l.frames = <<>>
        BY Starts
      <4> HIDE DEF m, l
      <4> QED BY <4>1, <4>2, OrientedKeeps
    <3>2. CASE source.reader = "tracab"
      BY <3>2, Starts DEF Begin, StartTracab
    <3>3. CASE source.reader = "skillcorner"
      BY <3>3, Starts DEF Begin, StartSkillCorner
    <3>4. CASE source.reader = "second spectrum"
      <4>1. m = Start(SecondSpectrumPeriods(source.meta), source.meta.roster, NoPeriod)
        BY <3>4 DEF Begin, StartSecondSpectrum
      <4> HIDE DEF m
      <4> QED BY <4>1, Starts
    <3>5. CASE source.reader = "statsperform"
      BY <3>5, Starts DEF Begin, StartStatsPerform
    <3> HIDE DEF m
    <3> QED BY <1>1, <3>1, <3>2, <3>3, <3>4, <3>5 DEF Plain
  <2>2. Told(source, m.periods, m.frames, 0)
    BY <2>1, NothingTold
  <2> HIDE DEF m
  <2> QED BY <1>1, <2>2, PlainTimely DEF m
<1>2. CASE source.reader = "pff"
  <2> DEFINE c == [state |-> "dead", owner |-> Nobody, extra |-> <<>>, made |-> 0]
  <2>1. m = Start(PffPeriods(source.meta.whole), source.meta.roster, c)
    BY <1>2 DEF Begin, StartPff
  <2>2. c.extra = <<>>
    OBVIOUS
  <2> HIDE DEF m, c
  <2>3. m.frames = <<>> /\ m.carry.extra = <<>>
    BY <2>1, <2>2, Starts
  <2>4. Timely(m, source, 0)
    BY <1>2, <2>3, NothingTold, EmptyIs DEF Timely
  <2> QED BY <2>4 DEF m
<1>3. CASE source.reader = "metrica csv"
  <2>1. m = Start(<<>>, source.meta.roster, NoPeriod)
    BY <1>3 DEF Begin, StartMetricaCsv
  <2> HIDE DEF m
  <2>2. m.frames = <<>> /\ m.periods = <<>>
    BY <2>1, Starts
  <2>3. Timely(m, source, 0)
    BY <1>3, <2>2, NothingTold, EmptyIs DEF Timely
  <2> QED BY <2>3 DEF m
<1>4. CASE source.reader = "metrica epts"
  <2>1. m = Start(source.meta.periods, source.meta.roster, 1)
    BY <1>4 DEF Begin, StartMetricaEpts
  <2> HIDE DEF m
  <2>2. m.frames = <<>> /\ m.periods = source.meta.periods
    BY <2>1, Starts
  <2>3. Timely(m, source, 0)
    BY <1>4, <2>2, NothingTold DEF Timely
  <2> QED BY <2>3 DEF m
<1>5. CASE source.reader = "hawkeye"
  <2> DEFINE c == [parsed |-> <<>>]
  <2>1. m = Start(<<>>, {}, c)
    BY <1>5 DEF Begin, StartHawkEye
  <2>2. c.parsed = <<>>
    OBVIOUS
  <2> HIDE DEF m, c
  <2>3. m.frames = <<>> /\ m.carry.parsed = <<>>
    BY <2>1, <2>2, Starts
  <2>4. Timely(m, source, 0)
    BY <1>5, <2>3, EmptyIs DEF Timely, Framewise
  <2> QED BY <2>4 DEF m
<1>6. CASE source.reader = "sportec"
  <2> DEFINE c == [rows |-> <<>>, count |-> <<>>]
  <2>1. m = Start(source.meta.periods, source.meta.roster, c)
    BY <1>6 DEF Begin, StartSportec
  <2>2. c.rows = <<>>
    OBVIOUS
  <2> HIDE DEF m, c
  <2>3. m.frames = <<>> /\ m.carry.rows = <<>>
    BY <2>1, <2>2, Starts
  <2>4. Timely(m, source, 0)
    BY <1>6, <2>3, EmptyIs DEF Timely, Framewise
  <2> QED BY <2>4 DEF m
<1> QED BY <1>1, <1>2, <1>3, <1>4, <1>5, <1>6 DEF WellFormed, Readers, Plain

\* In each pass a frameset of Sportec is one of the file.
LEMMA RowsRead ==
    ASSUME NEW source \in Inputs, source.reader = "sportec", NEW k \in Nat,
           k < Len(Script(source, source.opt))
    PROVE  LET raw == Script(source, source.opt)[k + 1]
           IN  \E i \in DOMAIN source.feed :
                   /\ raw.period = source.feed[i].period /\ raw.rows = source.feed[i].rows
                   /\ IsSeq(raw.rows)
<1> DEFINE script == Script(source, source.opt)
<1>1. IsSeq(source.feed) /\ WellFormed(source)
  BY TrackingAssumption, FeedAssumption
<1>2. ItemsOfFeed(source, 0, script)
  BY <1>1, SportecScript
<1> HIDE DEF script
<1>3. k + 1 \in DOMAIN script
  BY <1>2, SeqIs DEF ItemsOfFeed, script
<1>4. PICK i \in DOMAIN source.feed : \E pass : script[k + 1] = InPass(source.feed[i], pass)
  BY <1>2, <1>3 DEF ItemsOfFeed
<1>5. script[k + 1].period = source.feed[i].period /\ script[k + 1].rows = source.feed[i].rows
  BY <1>4 DEF InPass
<1>6. IsSeq(source.feed[i].rows)
  BY <1>1 DEF WellFormed
<1> QED BY <1>5, <1>6 DEF script

\* Every turn of every reader keeps time.
LEMMA TurnTimely ==
    ASSUME NEW source \in Inputs, NEW n \in Nat, n < Len(Script(source, source.opt)),
           NEW l, Closure(l, source), Timely(l, source, n)
    PROVE  Timely(Handle(source, source.opt, l, Script(source, source.opt)[n + 1]), source, n + 1)
<1> DEFINE raw == Script(source, source.opt)[n + 1]
           opt == source.opt
           m   == Handle(source, opt, l, raw)
<1>1. source.reader \in Readers /\ Shape(l)
  BY FeedAssumption DEF WellFormed, Closure
<1>2. ASSUME source.reader # "sportec" PROVE n + 1 \in DOMAIN source.feed /\ raw = source.feed[n + 1]
  <2>1. Script(source, source.opt) = source.feed
    BY <1>2, OtherScript
  <2>2. n < Len(source.feed) /\ Len(source.feed) \in Nat /\ DOMAIN source.feed = 1..Len(source.feed)
    BY <2>1, FeedIs
  <2> QED BY <2>1, <2>2
<1> HIDE DEF raw, opt
<1>3. CASE source.reader = "tracab"
  <2>1. m = ReadTracab(l, opt, source.meta, raw) /\ n + 1 \in DOMAIN source.feed /\ raw = source.feed[n + 1]
    BY <1>2, <1>3 DEF Handle
  <2> HIDE DEF m
  <2> QED BY <1>3, <2>1, TracabTimely DEF m, raw, opt
<1>4. CASE source.reader = "skillcorner"
  <2>1. m = ReadSkillCorner(l, opt, source.meta, raw) /\ n + 1 \in DOMAIN source.feed /\ raw = source.feed[n + 1]
    BY <1>2, <1>4 DEF Handle
  <2> HIDE DEF m
  <2> QED BY <1>1, <1>4, <2>1, SkillCornerTimely DEF m, raw, opt
<1>5. CASE source.reader = "second spectrum"
  <2>1. m = ReadSecondSpectrum(l, opt, source.meta, raw) /\ n + 1 \in DOMAIN source.feed /\ raw = source.feed[n + 1]
    BY <1>2, <1>5 DEF Handle
  <2> HIDE DEF m
  <2> QED BY <1>1, <1>5, <2>1, SecondSpectrumTimely DEF m, raw, opt
<1>6. CASE source.reader = "pff"
  <2>1. m = ReadPff(l, opt, raw) /\ n + 1 \in DOMAIN source.feed /\ raw = source.feed[n + 1]
    BY <1>2, <1>6 DEF Handle
  <2>2. PffCarry(l.carry)
    BY <1>6 DEF Closure
  <2> HIDE DEF m
  <2> QED BY <1>1, <1>6, <2>1, <2>2, PffTimely DEF m, raw, opt
<1>7. CASE source.reader = "signality"
  <2>1. m = ReadSignality(l, opt, source.meta, raw) /\ n + 1 \in DOMAIN source.feed /\ raw = source.feed[n + 1]
    BY <1>2, <1>7 DEF Handle
  <2> HIDE DEF m
  <2> QED BY <1>1, <1>7, <2>1, SignalityTimely DEF m, raw, opt
<1>8. CASE source.reader = "metrica csv"
  <2>1. m = ReadMetricaCsv(l, opt, raw) /\ n + 1 \in DOMAIN source.feed /\ raw = source.feed[n + 1]
    BY <1>2, <1>8 DEF Handle
  <2> HIDE DEF m
  <2> QED BY <1>1, <1>8, <2>1, CsvTimely DEF m, raw, opt
<1>9. CASE source.reader = "metrica epts"
  <2>1. m = ReadMetricaEpts(l, opt, source.meta, raw) /\ n + 1 \in DOMAIN source.feed /\ raw = source.feed[n + 1]
    BY <1>2, <1>9 DEF Handle
  <2> HIDE DEF m
  <2> QED BY <1>1, <1>9, <2>1, EptsTimely DEF m, raw, opt
<1>10. CASE source.reader = "statsperform"
  <2>1. m = ReadStatsPerform(l, opt, raw) /\ n + 1 \in DOMAIN source.feed /\ raw = source.feed[n + 1]
    BY <1>2, <1>10 DEF Handle
  <2> HIDE DEF m
  <2> QED BY <1>1, <1>10, <2>1, StatsPerformTimely DEF m, raw, opt
<1>11. CASE source.reader = "hawkeye"
  <2>1. m = ReadHawkEye(l, opt, raw) /\ n + 1 \in DOMAIN source.feed /\ raw = source.feed[n + 1]
    BY <1>2, <1>11 DEF Handle
  <2> HIDE DEF m
  <2> QED BY <1>1, <1>11, <2>1, HawkEyeTimely DEF m, raw, opt
<1>12. CASE source.reader = "sportec"
  <2>1. m = ReadSportec(l, opt, source.meta, raw)
    BY <1>12 DEF Handle
  <2> HIDE DEF m
  <2>2. \E i \in DOMAIN source.feed : /\ raw.period = source.feed[i].period
                                        /\ raw.rows = source.feed[i].rows /\ IsSeq(raw.rows)
    BY <1>12, RowsRead DEF raw
  <2> QED BY <1>1, <1>12, <2>1, <2>2, SportecTimely DEF m, raw, opt
<1> QED BY <1>1, <1>3, <1>4, <1>5, <1>6, <1>7, <1>8, <1>9, <1>10, <1>11, <1>12 DEF Readers

\* What is delivered in the end is in order.
LEMMA FinishOrdered ==
    ASSUME NEW source \in Inputs, NEW l, Closure(l, source), NEW n, Timely(l, source, n)
    PROVE  Rising(Closed(source, source.opt, l).frames)
<1> DEFINE opt  == source.opt
           m    == Closed(source, opt, l)
           Goal == Rising(m.frames)
<1>1. Shape(l) /\ source.reader \in Readers /\ opt.limit \in Nat
  BY FeedAssumption DEF Closure, WellFormed
<1>2. Rising(l.frames)
  <2>1. CASE source.reader \in Framewise
    BY <2>1 DEF Timely, Told
  <2>2. CASE source.reader \notin Framewise
    <3>1. l.frames = <<>>
      BY <1>1, <2>2 DEF Timely, Framewise
    <3> QED BY <3>1, EmptyIs DEF Rising
  <2> QED BY <2>1, <2>2
<1>3. /\ \A o : Oriented(l, o).frames = l.frames
      /\ \A e : Fail(l, e).frames = l.frames
      /\ OrientByFirstFrame(l).frames = l.frames /\ OrientByFirstPeriod(l).frames = l.frames
  BY <1>1, OrientedKeeps
<1> HIDE DEF opt
<1>4. m.frames = l.frames => Goal
  BY <1>2
<1>5. CASE l.raised # NotRaised
  <2>1. m = l
    BY <1>5 DEF Closed
  <2> QED BY <1>2, <2>1 DEF opt
<1>6. ASSUME l.raised = NotRaised PROVE Goal
  <2>1. CASE source.reader = "tracab"
    BY <1>3, <1>4, <1>6, <2>1 DEF Closed, FinishTracab
  <2>2. CASE source.reader = "skillcorner"
    BY <1>3, <1>4, <1>6, <2>2 DEF Closed, FinishSkillCorner
  <2>3. CASE source.reader = "second spectrum"
    BY <1>3, <1>4, <1>6, <2>3 DEF Closed, FinishSecondSpectrum
  <2>4. CASE source.reader = "pff"
    <3>1. m = FinishPff(l)
      BY <1>6, <2>4 DEF Closed
    <3> HIDE DEF m
    <3> QED BY <2>4, <3>1, PffOrdered
  <2>5. CASE source.reader = "signality"
    BY <1>3, <1>4, <1>6, <2>5 DEF Closed, FinishSignality
  <2>6. CASE source.reader = "metrica csv"
    BY <1>3, <1>4, <1>6, <2>6 DEF Closed, FinishMetricaCsv
  <2>7. CASE source.reader = "metrica epts"
    BY <1>3, <1>4, <1>6, <2>7 DEF Closed, FinishMetricaEpts
  <2>8. CASE source.reader = "statsperform"
    BY <1>3, <1>4, <1>6, <2>8 DEF Closed, FinishStatsPerform
  <2>9. CASE source.reader = "hawkeye"
    <3>1. m = FinishHawkEye(l, opt)
      BY <1>6, <2>9 DEF Closed
    <3> HIDE DEF m
    <3> QED BY <2>9, <3>1, HawkEyeOrdered
  <2>10. CASE source.reader = "sportec"
    <3>1. m = FinishSportec(l, opt)
      BY <1>6, <2>10 DEF Closed
    <3> HIDE DEF m
    <3> QED BY <1>1, <2>10, <3>1, SportecOrdered
  <2> HIDE DEF Goal, m
  <2> QED BY <1>1, <2>1, <2>2, <2>3, <2>4, <2>5, <2>6, <2>7, <2>8, <2>9, <2>10 DEF Readers
<1> QED BY <1>5, <1>6 DEF m, opt

\* In time before the end of the loop, in order after it.
OrderedInv ==
    /\ RosterInv
    /\ IF done THEN Rising(loop.frames) ELSE Timely(loop, input, at)

\* The loop keeps time before every turn, and delivers in order after the last.
LEMMA OrderedInvInductive ==
    /\ Init => OrderedInv
    /\ OrderedInv /\ [Next]_vars => OrderedInv'
<1>1. ASSUME Init PROVE OrderedInv
  <2>1. RosterInv
    BY <1>1, RosterInvInductive
  <2>2. input \in Inputs /\ at = 0 /\ done = FALSE /\ loop = Begin(input) /\ WellFormed(input)
    BY <1>1, FeedAssumption DEF Init
  <2>3. Timely(loop, input, at)
    BY <2>2, BeginTimely
  <2> QED BY <2>1, <2>2, <2>3 DEF OrderedInv
<1>2. ASSUME OrderedInv, [Next]_vars PROVE OrderedInv'
  <2>1. RosterInv /\ RosterInv'
    BY <1>2, RosterInvInductive DEF OrderedInv
  <2>2. ASSUME NEW reader, Read(reader) PROVE OrderedInv'
    <3>1. /\ ~done /\ at < Len(Script(input, input.opt)) /\ input \in Inputs /\ at \in Nat
          /\ Closure(loop, input) /\ Timely(loop, input, at)
          /\ loop' = Handle(input, input.opt, loop, Script(input, input.opt)[at + 1])
          /\ at' = at + 1 /\ input' = input /\ done' = done
      BY <1>2, <2>2 DEF Read, More, OrderedInv, RosterInv
    <3>2. Timely(loop', input, at + 1)
      BY <3>1, TurnTimely
    <3> QED BY <2>1, <3>1, <3>2 DEF OrderedInv
  <2>3. CASE Finish
    <3>1. /\ ~done /\ Closure(loop, input) /\ Timely(loop, input, at) /\ input \in Inputs
          /\ loop' = Closed(input, input.opt, loop) /\ done' = TRUE
      BY <1>2, <2>3 DEF Finish, OrderedInv, RosterInv
    <3>2. Rising(loop'.frames)
      BY <3>1, FinishOrdered
    <3> QED BY <2>1, <3>1, <3>2 DEF OrderedInv
  <2>4. CASE UNCHANGED vars
    BY <1>2, <2>1, <2>4 DEF OrderedInv, vars
  <2> QED BY <1>2, <2>2, <2>3, <2>4
      DEF Next, ReadTracabLine, ReadSkillCornerFrame, ReadSecondSpectrumLine, ReadPffFrame,
          ReadSignalityFrame, ReadMetricaCsvLines, ReadMetricaEptsLine, ReadStatsPerformLine,
          ReadHawkEyeMinute, ReadSportecFrameSet, Stop
<1> QED BY <1>1, <1>2

\* When the clock of a feed runs on, the frames come in the order of the match
\* at every moment of every reader, whatever is sampled, skipped, collected by
\* object or put behind the rest.
THEOREM FramesInOrder == Spec => []InOrder
<1>1. OrderedInv => InOrder
  <2> SUFFICES ASSUME OrderedInv PROVE InOrder
    OBVIOUS
  <2>1. CASE done
    BY <2>1 DEF OrderedInv, Rising, InOrder
  <2>2. CASE ~done
    <3>1. Timely(loop, input, at) /\ input.reader \in Readers
      BY <2>2, FeedAssumption DEF OrderedInv, RosterInv, WellFormed
    <3>2. CASE input.reader \in Framewise
      BY <3>1, <3>2 DEF Timely, Told, Rising, InOrder
    <3>3. CASE input.reader \notin Framewise
      <4>1. loop.frames = <<>>
        BY <3>1, <3>3 DEF Timely, Framewise
      <4> QED BY <4>1, EmptyIs DEF InOrder
    <3> QED BY <3>2, <3>3
  <2> QED BY <2>1, <2>2
<1> QED BY <1>1, OrderedInvInductive, PTL DEF Spec

----------------------------------------------------------------------------
(***************************************************************************)
(* The periods of the frames                                               *)
(***************************************************************************)

\* A frame has a period the reader knows, if it has one, and lies in it where
\* time and periods are measured by the same numbers.
Fits(source, periods, f) ==
    f.period # NoPeriod =>
        /\ f.period \in DOMAIN periods
        /\ source.reader \in ByNumber => f.time \in 0..Duration(periods[f.period])
AllFit(source, periods, frames) == \A k \in DOMAIN frames : Fits(source, periods, frames[k])

----------------------------------------------------------------------------
\* What the frames of a reader fit

\* SkillCorner: an item that makes a frame has a time, so its period has one.
LEMMA SkillCornerFits ==
    ASSUME NEW source \in Inputs, source.reader = "skillcorner", NEW i \in DOMAIN source.feed,
           NEW periods, NEW f, Tells(source, periods, source.feed[i], f)
    PROVE  Fits(source, SkillCornerPeriods(source.meta.whole), f)
<1> DEFINE feed == source.feed
           p    == feed[i].period
<1>1. feed[i].clock # -1 /\ p \in 1..5 /\ f.period = p
  BY DEF Tells
<1>2. i \in Timed(feed, p) /\ p # NoPeriod
  BY <1>1 DEF Timed, NoPeriod
<1>3. source.meta.whole = feed
  BY FeedAssumption DEF WellFormed, PeriodsInFeed
<1>4. p \in DOMAIN SkillCornerPeriods(feed)
  BY <1>2 DEF SkillCornerPeriods
<1> QED BY <1>1, <1>3, <1>4 DEF Fits, ByNumber

\* PFF: the item itself is one of its period.
LEMMA PffFits ==
    ASSUME NEW source \in Inputs, source.reader = "pff", NEW i \in DOMAIN source.feed,
           NEW periods, NEW f, Tells(source, periods, source.feed[i], f)
    PROVE  Fits(source, PffPeriods(source.meta.whole), f)
<1>1. source.feed[i].period # NoPeriod /\ f.period = source.feed[i].period
  BY DEF Tells
<1>2. source.meta.whole = source.feed
  BY FeedAssumption DEF WellFormed, PeriodsInFeed
<1>3. f.period \in DOMAIN PffPeriods(source.feed)
  BY <1>1 DEF PffPeriods
<1> QED BY <1>2, <1>3 DEF Fits, ByNumber

\* Signality: the same.
LEMMA SignalityFits ==
    ASSUME NEW source \in Inputs, source.reader = "signality", NEW i \in DOMAIN source.feed,
           NEW periods, NEW f, Tells(source, periods, source.feed[i], f)
    PROVE  Fits(source, SignalityPeriods(source.meta.whole), f)
<1>1. f.period = source.feed[i].period
  BY DEF Tells
<1>2. source.meta.whole = source.feed
  BY FeedAssumption DEF WellFormed, PeriodsInFeed
<1>3. f.period \in DOMAIN SignalityPeriods(source.feed)
  BY <1>1 DEF SignalityPeriods
<1> QED BY <1>2, <1>3 DEF Fits, ByNumber

\* Second Spectrum: the period is one of the list of those played.
LEMMA SecondSpectrumFits ==
    ASSUME NEW source \in Inputs, source.reader = "second spectrum", NEW i \in DOMAIN source.feed,
           NEW periods, NEW f, Tells(source, periods, source.feed[i], f)
    PROVE  Fits(source, SecondSpectrumPeriods(source.meta), f)
<1> DEFINE played == Played(source.meta)
           k      == source.feed[i].period
<1>1. k \in DOMAIN played /\ f.period = played[k].id
  BY DEF Tells
<1>2. f.period \in {played[j].id : j \in DOMAIN played}
  BY <1>1
<1>3. f.period \in DOMAIN SecondSpectrumPeriods(source.meta)
  BY <1>2 DEF SecondSpectrumPeriods
<1> QED BY <1>3 DEF Fits, ByNumber

\* How far into a span a number in it is.
LEMMA Inside ==
    ASSUME NEW start \in Int, NEW end \in Int, NEW x \in Int, start <= x, x <= end
    PROVE  x - start \in 0..(end - start)
OBVIOUS

\* TRACAB: a frame is in the period that contains its number.
LEMMA TracabFits ==
    ASSUME NEW source \in Inputs, source.reader = "tracab", NEW i \in DOMAIN source.feed,
           NEW periods, NEW f, Tells(source, periods, source.feed[i], f)
    PROVE  Fits(source, TracabPeriods(source.meta), f)
<1> DEFINE raw   == source.feed[i]
           known == TracabPeriods(source.meta)
           start == known[f.period].start
           end   == known[f.period].end
<1>1. /\ f.period \in DOMAIN known /\ start <= raw.id /\ raw.id <= end
      /\ f.time = raw.id - start
  BY DEF Tells, Covers
<1>2. ClockRuns(source) /\ Shown(source, raw)
  BY ClockAssumption DEF Shown
<1>3. raw.id \in Int
  <2>1. Clock(source, raw) \in Int \X Int
    BY <1>2 DEF ClockRuns
  <2> QED BY <2>1 DEF Clock
<1> HIDE DEF known
<1>4. start \in Int /\ end \in Int
  BY <1>1, <1>2 DEF ClockRuns, known
<1> HIDE DEF start, end
<1>5. f.time \in 0..(end - start)
  BY <1>1, <1>3, <1>4, Inside
<1> QED BY <1>1, <1>5 DEF Fits, Duration, start, end, known

\* EPTS: a frame is in the first period that contains its number, or in none.
LEMMA EptsFits ==
    ASSUME NEW source \in Inputs, source.reader = "metrica epts", NEW i \in DOMAIN source.feed,
           NEW periods, NEW f, Tells(source, periods, source.feed[i], f)
    PROVE  Fits(source, source.meta.periods, f)
<1> DEFINE raw   == source.feed[i]
           known == source.meta.periods
           start == known[f.period].start
           end   == known[f.period].end
<1> SUFFICES ASSUME f.period # NoPeriod PROVE f.period \in DOMAIN known /\ f.time \in 0..Duration(known[f.period])
  BY DEF Fits
<1>1. f.period = PeriodAt(known, raw.id) /\ f.time = raw.id - start
  BY DEF Tells
<1>2. ClockRuns(source) /\ Shown(source, raw)
  BY ClockAssumption DEF Shown
<1>3. raw.id \in Int
  <2>1. Clock(source, raw) \in Int \X Int
    BY <1>2 DEF ClockRuns
  <2> QED BY <2>1 DEF Clock
<1>4. /\ FiniteNumbers(DOMAIN known)
      /\ \A p \in DOMAIN known : known[p].start \in Int /\ known[p].end \in Int
  BY <1>2 DEF ClockRuns
<1> HIDE DEF known
<1>5. f.period \in DOMAIN known /\ start <= raw.id /\ raw.id <= end
  <2>1. PeriodAt(known, raw.id) # NoPeriod
    BY <1>1
  <2>2. f.period \in DOMAIN known /\ Covers(known[f.period], raw.id)
    BY <1>1, <1>4, <2>1, PeriodAtIs
  <2> QED BY <2>2 DEF Covers
<1>6. start \in Int /\ end \in Int
  BY <1>4, <1>5
<1> HIDE DEF start, end
<1>7. f.time \in 0..(end - start)
  BY <1>1, <1>3, <1>5, <1>6, Inside
<1> QED BY <1>5, <1>7 DEF Duration, start, end

----------------------------------------------------------------------------
\* The periods of Metrica CSV

\* The lines of the home team among the first n items.
Lines(source, n) ==
    {source.feed[i].home : i \in {k \in DOMAIN source.feed : k <= n /\ Shown(source, source.feed[k])}}
\* A line is in its period.
Within(periods, line) ==
    /\ line.period \in DOMAIN periods
    /\ periods[line.period].start < line.id /\ line.id <= periods[line.period].end
\* Every line is in its period, and a period has a line.
Opened(periods, lines) ==
    /\ \A line \in lines : Within(periods, line)
    /\ \A p \in DOMAIN periods :
           /\ periods[p].start \in Int /\ periods[p].end \in Int
           /\ \E line \in lines : line.period = p

\* What the loop knows of the periods after n items.
Spanned(l, source, n) ==
    /\ source.reader \in Plain \cup {"pff"} => l.periods = Begin(source).periods
    /\ source.reader = "statsperform" =>
           \A k \in DOMAIN l.frames : l.frames[k].period \in DOMAIN l.periods
    /\ source.reader = "metrica csv" => Opened(l.periods, Lines(source, n))
    /\ source.reader = "hawkeye" =>
           \A id \in DOMAIN l.carry.parsed : l.carry.parsed[id].period \in DOMAIN l.periods

\* What is known of numbers.
LEMMA NumbersAre ==
    /\ \A x, y \in Int : x < y => x <= y
    /\ \A x \in Int : x <= x
OBVIOUS

\* An item before the last one read.
LEMMA ItemBefore ==
    ASSUME NEW source \in Inputs, NEW n \in Nat, NEW last, last = n + 1
    PROVE  /\ last <= last
           /\ \A i \in DOMAIN source.feed : i <= n => i < last
           /\ \A i \in DOMAIN source.feed : i <= last <=> (i <= n \/ i = last)
<1>1. \A i \in DOMAIN source.feed : i \in Int
  BY FeedIs
<1> QED BY <1>1

\* A line has a number and a period.
LEMMA CsvLine ==
    ASSUME NEW source \in Inputs, source.reader = "metrica csv", NEW i \in DOMAIN source.feed,
           Shown(source, source.feed[i])
    PROVE  LET line == source.feed[i].home
           IN  /\ line.id \in Int /\ line.period \in Int
               /\ Clock(source, source.feed[i]) = <<line.period, line.id>>
<1>1. ClockRuns(source)
  BY ClockAssumption
<1>2. Clock(source, source.feed[i]) \in Int \X Int
  BY <1>1 DEF ClockRuns
<1> QED BY <1>2 DEF Clock

\* Of two moments of a period the later has the greater number.
LEMMA SamePeriod ==
    ASSUME NEW p \in Int, NEW x \in Int, NEW y \in Int, Earlier(<<p, x>>, <<p, y>>)
    PROVE  x < y
BY DEF Earlier

\* A line of a period that is read later has a greater number.
LEMMA CsvLater ==
    ASSUME NEW source \in Inputs, source.reader = "metrica csv",
           NEW i \in DOMAIN source.feed, NEW j \in DOMAIN source.feed, i < j,
           Shown(source, source.feed[i]), Shown(source, source.feed[j]),
           source.feed[i].home.period = source.feed[j].home.period
    PROVE  source.feed[i].home.id < source.feed[j].home.id
<1>1. source.reader \in Framewise
  BY DEF Framewise, Readers
<1>2. Earlier(Clock(source, source.feed[i]), Clock(source, source.feed[j]))
  BY <1>1, ClocksAgree
<1> QED BY <1>2, CsvLine, SamePeriod

\* A frame of Metrica CSV is in the period as it is known by then and later.
LEMMA CsvFits ==
    ASSUME NEW source \in Inputs, source.reader = "metrica csv", NEW n, NEW periods,
           Opened(periods, Lines(source, n)), NEW i \in DOMAIN source.feed, i <= n,
           NEW f, Tells(source, periods, source.feed[i], f)
    PROVE  Fits(source, periods, f)
<1> DEFINE line  == source.feed[i].home
           start == periods[line.period].start
           end   == periods[line.period].end
<1>1. line # Absent /\ f.period = line.period /\ f.time = line.id - start
  BY DEF Tells
<1>2. /\ line.period \in DOMAIN periods /\ start < line.id /\ line.id <= end
      /\ start \in Int /\ end \in Int
  <2>1. line \in Lines(source, n)
    BY <1>1 DEF Lines, Shown
  <2>2. \A other \in Lines(source, n) : Within(periods, other)
    BY DEF Opened
  <2> QED BY <2>1, <2>2 DEF Within, Opened
<1>3. line.id \in Int
  BY <1>1, CsvLine DEF Shown
<1> HIDE DEF start, end, line
<1>4. start <= line.id
  BY <1>2, <1>3, NumbersAre
<1>5. f.time \in 0..(end - start)
  BY <1>1, <1>2, <1>3, <1>4, Inside
<1> QED BY <1>1, <1>2, <1>5 DEF Fits, Duration, start, end

\* A line opens its period, or moves the end of it past itself.
LEMMA LineOpens ==
    ASSUME NEW periods, NEW lines, Opened(periods, lines), \A other \in lines : other.id \in Int,
           NEW line, line.id \in Int,
           \A other \in lines : other.period = line.period => other.id < line.id
    PROVE  Opened(PeriodsAfter(periods, line), lines \cup {line})
<1> DEFINE p     == line.period
           after == PeriodsAfter(periods, line)
           all   == lines \cup {line}
<1>1. line \in all /\ \A other \in lines : other \in all
  OBVIOUS
<1>2. /\ DOMAIN after = DOMAIN periods \cup {p}
      /\ after[p].start = IF p \in DOMAIN periods THEN periods[p].start ELSE line.id - 1
      /\ after[p].end = line.id
      /\ \A q \in DOMAIN periods : q # p => after[q] = periods[q]
  BY DEF PeriodsAfter, Put, Span
<1> HIDE DEF after
<1>3. ASSUME p \in DOMAIN periods PROVE periods[p].start \in Int /\ periods[p].start < line.id
  <2>1. PICK other \in lines : other.period = p
    BY <1>3 DEF Opened
  <2>2. other.id < line.id /\ other.id \in Int
    BY <2>1
  <2>3. periods[p].start \in Int /\ periods[p].start < other.id
    BY <1>3, <2>1 DEF Opened, Within
  <2> HIDE DEF p
  <2> QED BY <2>2, <2>3
<1>4. after[p].start \in Int /\ after[p].start < line.id /\ after[p].end = line.id
  <2> DEFINE s == after[p].start
             x == line.id
  <2>1. CASE p \in DOMAIN periods
    <3>1. s = periods[p].start
      BY <1>2, <2>1
    <3> QED BY <1>2, <1>3, <2>1, <3>1
  <2>2. CASE p \notin DOMAIN periods
    <3>1. s = x - 1 /\ x \in Int
      BY <1>2, <2>2
    <3> HIDE DEF s, x
    <3>2. s \in Int /\ s < x
      BY <3>1
    <3> QED BY <1>2, <3>2 DEF s, x
  <2> QED BY <2>1, <2>2
<1>5. Within(after, line)
  <2>1. line.id <= line.id
    OBVIOUS
  <2> QED BY <1>2, <1>4, <2>1 DEF Within
<1>6. ASSUME NEW other \in lines PROVE Within(after, other)
  <2>1. /\ other.period \in DOMAIN periods /\ periods[other.period].start < other.id
        /\ other.id <= periods[other.period].end
    BY DEF Opened, Within
  <2>2. CASE other.period = p
    <3>1. other.id < line.id /\ other.id \in Int
      BY <2>2
    <3>2. after[p].start = periods[p].start
      BY <1>2, <2>1, <2>2
    <3>3. other.id <= line.id
      BY <3>1
    <3> HIDE DEF p
    <3> QED BY <1>2, <2>1, <2>2, <3>2, <3>3 DEF Within
  <2>3. CASE other.period # p
    <3>1. after[other.period] = periods[other.period]
      BY <1>2, <2>1, <2>3
    <3> QED BY <1>2, <2>1, <3>1 DEF Within
  <2> QED BY <2>2, <2>3
<1>7. ASSUME NEW q \in DOMAIN after
      PROVE  after[q].start \in Int /\ after[q].end \in Int /\ \E other \in all : other.period = q
  <2>1. CASE q = p
    BY <1>1, <1>4, <2>1
  <2>2. CASE q # p
    <3>1. q \in DOMAIN periods /\ after[q] = periods[q]
      BY <1>2, <2>2
    <3>2. /\ periods[q].start \in Int /\ periods[q].end \in Int
          /\ \E other \in lines : other.period = q
      BY <3>1 DEF Opened
    <3> QED BY <1>1, <3>1, <3>2
  <2> QED BY <2>1, <2>2
<1>8. \A other \in all : Within(after, other)
  BY <1>5, <1>6
<1> HIDE DEF all
<1> QED BY <1>7, <1>8 DEF Opened, after, all

\* The next item adds its line, if it has one.
LEMMA LinesOn ==
    ASSUME NEW source \in Inputs, NEW n \in Nat, NEW last \in DOMAIN source.feed, last = n + 1
    PROVE  Lines(source, last) = IF Shown(source, source.feed[last])
                                 THEN Lines(source, n) \cup {source.feed[last].home}
                                 ELSE Lines(source, n)
<1> DEFINE home(i) == source.feed[i].home
           until(k) == {i \in DOMAIN source.feed : i <= k /\ Shown(source, source.feed[i])}
<1>1. last <= last /\ \A i \in DOMAIN source.feed : i <= last <=> i <= n \/ i = last
  BY ItemBefore
<1>2. until(last) = IF Shown(source, source.feed[last]) THEN until(n) \cup {last} ELSE until(n)
  BY <1>1
<1>3. \A k : Lines(source, k) = {home(i) : i \in until(k)}
  BY DEF Lines
<1> HIDE DEF until
<1>4. {home(i) : i \in until(n) \cup {last}} = {home(i) : i \in until(n)} \cup {home(last)}
  OBVIOUS
<1> QED BY <1>2, <1>3, <1>4

\* So the periods of Metrica CSV are open for the lines that were read.
LEMMA CsvOpens ==
    ASSUME NEW source \in Inputs, source.reader = "metrica csv", NEW n \in Nat,
           NEW last \in DOMAIN source.feed, last = n + 1, NEW periods,
           Opened(periods, Lines(source, n))
    PROVE  Opened(IF Shown(source, source.feed[last])
                  THEN PeriodsAfter(periods, source.feed[last].home) ELSE periods,
                  Lines(source, last))
<1> DEFINE line  == source.feed[last].home
           lines == Lines(source, n)
<1>1. Lines(source, last) = IF Shown(source, source.feed[last]) THEN lines \cup {line} ELSE lines
  BY LinesOn
<1>2. ASSUME Shown(source, source.feed[last])
      PROVE  Opened(PeriodsAfter(periods, line), Lines(source, last))
  <2>1. line.id \in Int
    BY <1>2, CsvLine
  <2>2. ASSUME NEW other \in lines
        PROVE  other.id \in Int /\ (other.period = line.period => other.id < line.id)
    <3>1. PICK i \in DOMAIN source.feed : /\ i <= n /\ Shown(source, source.feed[i])
                                          /\ other = source.feed[i].home
      BY DEF Lines
    <3>2. i < last
      BY <3>1, ItemBefore
    <3>3. other.id \in Int
      BY <3>1, CsvLine
    <3>4. other.period = line.period => other.id < line.id
      BY <1>2, <3>1, <3>2, CsvLater
    <3> QED BY <3>3, <3>4
  <2> HIDE DEF line, lines
  <2>3. Opened(PeriodsAfter(periods, line), lines \cup {line})
    BY <2>1, <2>2, LineOpens DEF lines
  <2> QED BY <1>1, <1>2, <2>3
<1>3. CASE ~Shown(source, source.feed[last])
  BY <1>1, <1>3
<1> QED BY <1>2, <1>3

----------------------------------------------------------------------------
\* What is known of the periods in the loop

\* The readers that know their periods before the loop, and those of which
\* Closure and Timely say enough.
Foretold == {"skillcorner", "second spectrum", "signality", "pff"}
Unwatched == {"tracab", "metrica epts", "sportec"}

\* The periods of the first stay.
LEMMA SpansStay ==
    ASSUME NEW source, source.reader \in Foretold,
           NEW l, NEW m, NEW n, NEW k, Spanned(l, source, n), m.periods = l.periods
    PROVE  Spanned(m, source, k)
BY DEF Spanned, Plain, Foretold

\* Nothing need be known of the others'.
LEMMA SpansFree ==
    ASSUME NEW source, source.reader \in Unwatched, NEW l, NEW n
    PROVE  Spanned(l, source, n)
BY DEF Spanned, Plain, Unwatched

\* StatsPerform fails on an item whose period it does not know.
LEMMA StatsPerformSpanned ==
    ASSUME NEW source, source.reader = "statsperform", NEW l, Shape(l), NEW opt, NEW raw,
           NEW n, NEW k, Spanned(l, source, n)
    PROVE  Spanned(ReadStatsPerform(l, opt, raw), source, k)
<1> DEFINE m == ReadStatsPerform(l, opt, raw)
           f == StatsPerformFrame(raw)
           P == PlayersOf(SideTracks(raw))
<1>1. \/ m.frames = l.frames /\ m.periods = l.periods
      \/ Adds(l, m, f, P) /\ raw.period \in DOMAIN l.periods
  BY StatsPerformTurn DEF Skips
<1>2. f.period = raw.period
  BY DEF StatsPerformFrame, Frame
<1> HIDE DEF m, f, P
<1>3. /\ l.periods = Begin(source).periods
      /\ \A j \in DOMAIN l.frames : l.frames[j].period \in DOMAIN l.periods
  BY DEF Spanned, Plain
<1>4. /\ m.periods = l.periods
      /\ \A j \in DOMAIN m.frames : m.frames[j].period \in DOMAIN m.periods
  <2>1. CASE m.frames = l.frames /\ m.periods = l.periods
    BY <1>3, <2>1
  <2>2. CASE Adds(l, m, f, P) /\ raw.period \in DOMAIN l.periods
    <3>1. m.frames = Append(l.frames, f) /\ m.periods = l.periods /\ IsSeq(l.frames)
      BY <2>2 DEF Adds, Shape
    <3>2. /\ Len(l.frames) \in Nat /\ DOMAIN l.frames = 1..Len(l.frames)
          /\ DOMAIN m.frames = 1..(Len(l.frames) + 1)
          /\ \A j \in DOMAIN l.frames : m.frames[j] = l.frames[j]
          /\ m.frames[Len(l.frames) + 1] = f
      BY <3>1, AppendIs
    <3>3. \A j \in DOMAIN m.frames : j \in DOMAIN l.frames \/ m.frames[j] = f
      BY <3>2
    <3> QED BY <1>2, <1>3, <2>2, <3>1, <3>2, <3>3
  <2> QED BY <1>1, <2>1, <2>2
<1>5. Spanned(m, source, k)
  BY <1>3, <1>4 DEF Spanned, Plain
<1> QED BY <1>5 DEF m

\* Metrica CSV opens and extends its periods with the lines of the home team.
LEMMA CsvSpanned ==
    ASSUME NEW source \in Inputs, source.reader = "metrica csv", NEW l, Shape(l), NEW opt,
           NEW n \in Nat, NEW last \in DOMAIN source.feed, last = n + 1, Spanned(l, source, n)
    PROVE  Spanned(ReadMetricaCsv(l, opt, source.feed[last]), source, last)
<1> DEFINE raw    == source.feed[last]
           m      == ReadMetricaCsv(l, opt, raw)
           after  == PeriodsAfter(l.periods, raw.home)
           opened == [l EXCEPT !.periods = PeriodsAfter(@, raw.home)]
<1>1. opened.periods = after
  BY DEF Shape, LoopFields
<1>2. \/ raw.home = Absent /\ Skips(l, m)
      \/ raw.home # Absent /\ (Skips(opened, m) \/ Adds(opened, m, CsvFrame(opened, raw), {}))
  BY MetricaCsvTurn
<1>3. Shown(source, raw) <=> raw.home # Absent
  BY DEF Shown
<1> HIDE DEF m, opened, after
<1>4. m.periods = IF Shown(source, raw) THEN after ELSE l.periods
  BY <1>1, <1>2, <1>3 DEF Skips, Adds
<1>5. Opened(l.periods, Lines(source, n))
  BY DEF Spanned
<1>6. Opened(IF Shown(source, source.feed[last])
             THEN PeriodsAfter(l.periods, source.feed[last].home) ELSE l.periods,
             Lines(source, last))
  BY <1>5, CsvOpens
<1>7. Opened(m.periods, Lines(source, last))
  BY <1>4, <1>6 DEF after
<1> HIDE DEF raw
<1>8. Spanned(m, source, last)
  BY <1>7 DEF Spanned, Plain
<1> QED BY <1>8 DEF m, raw

\* A minute of Hawk-Eye makes frames of its segment.
LEMMA MinutePeriods ==
    ASSUME NEW parsed, NEW raw, NEW S, raw.segment \in S,
           \A id \in DOMAIN parsed : /\ parsed[id] = [x \in FrameFields |-> parsed[id][x]]
                                     /\ parsed[id].period \in S
    PROVE  LET next == WithPlayers(WithBalls(parsed, raw), raw)
           IN  \A id \in DOMAIN next : next[id].period \in S
<1> DEFINE balls  == {FrameId(raw, tick) : tick \in raw.balls}
           bodies == {FrameId(raw, p.tick) : p \in OnField(raw)}
           rolled == WithBalls(parsed, raw)
           next   == WithPlayers(rolled, raw)
           Fine(f) == f = [x \in FrameFields |-> f[x]] /\ f.period \in S
<1>1. \A tick, ball, players : Fine(TickFrame(raw, tick, ball, players))
  BY DEF TickFrame, Frame, FrameFields
<1>2. ASSUME NEW f, Fine(f), NEW other PROVE Fine([f EXCEPT !.players = other])
  BY <1>2 DEF FrameFields
<1>3. \A id \in DOMAIN parsed : Fine(parsed[id])
  OBVIOUS
<1> HIDE DEF Fine
<1>4. \A id \in DOMAIN rolled : Fine(rolled[id])
  <2> DEFINE tick(id) == CHOOSE t \in raw.balls : FrameId(raw, t) = id
             ball == TRUE
             none == {}
             made(id) == TickFrame(raw, tick(id), ball, none)
             mine == [id \in balls |-> made(id)]
  <2>1. rolled = Over(mine, parsed)
    BY DEF WithBalls
  <2> HIDE DEF ball, none, tick, balls
  <2>2. \A id \in balls : Fine(made(id))
    BY <1>1
  <2> HIDE DEF made
  <2>3. DOMAIN mine = balls /\ \A id \in balls : mine[id] = made(id)
    OBVIOUS
  <2> HIDE DEF mine, rolled
  <2>4. /\ DOMAIN rolled = balls \cup DOMAIN parsed
        /\ \A id \in DOMAIN rolled : rolled[id] = IF id \in balls THEN mine[id] ELSE parsed[id]
    BY <2>1, <2>3 DEF Over
  <2> QED BY <1>3, <2>2, <2>3, <2>4
<1>5. \A id \in DOMAIN next : Fine(next[id])
  <2> DEFINE here(id) == {p \in OnField(raw) : FrameId(raw, p.tick) = id}
             tracks(id) == {Seen(p.player, p.x) : p \in here(id)}
             all(id) == {s \in rolled[id].players : s.player \notin PlayersOf(tracks(id))}
                            \cup tracks(id)
             frame(id) == IF id \in DOMAIN rolled
                          THEN [rolled[id] EXCEPT
                                   !.players = {s \in @ : s.player \notin PlayersOf(tracks(id))}
                                               \cup tracks(id)]
                          ELSE TickFrame(raw, (CHOOSE p \in here(id) : TRUE).tick, FALSE, tracks(id))
  <2>1. next = [id \in DOMAIN rolled \cup bodies |-> frame(id)]
    BY DEF WithPlayers
  <2> HIDE DEF rolled
  <2>2. ASSUME NEW id \in DOMAIN rolled PROVE Fine(frame(id))
    <3>1. frame(id) = [rolled[id] EXCEPT !.players = all(id)]
      BY <2>2
    <3> HIDE DEF all, frame
    <3> QED BY <1>2, <1>4, <2>2, <3>1
  <2>3. ASSUME NEW id, id \notin DOMAIN rolled PROVE Fine(frame(id))
    <3> DEFINE p == CHOOSE p \in here(id) : TRUE
               ball == FALSE
    <3>1. frame(id) = TickFrame(raw, p.tick, ball, tracks(id))
      BY <2>3
    <3> HIDE DEF frame, p, ball, tracks
    <3> QED BY <1>1, <3>1
  <2> HIDE DEF frame, next, bodies
  <2> QED BY <2>1, <2>2, <2>3
<1> QED BY <1>5 DEF Fine, next, rolled

\* Hawk-Eye makes no frame of a minute before it knows its period.
LEMMA HawkEyeSpanned ==
    ASSUME NEW source \in Inputs, source.reader = "hawkeye", NEW l, Shape(l), NEW opt,
           NEW i \in DOMAIN source.feed, NEW n, NEW k, Timely(l, source, n), Spanned(l, source, n)
    PROVE  Spanned(ReadHawkEye(l, opt, source.feed[i]), source, k)
<1> DEFINE raw    == source.feed[i]
           m      == ReadHawkEye(l, opt, raw)
           parsed == l.carry.parsed
           next   == WithPlayers(WithBalls(parsed, raw), raw)
<1>1. /\ m.periods = Over(l.periods, raw.segments)
      /\ \/ m.carry = l.carry
         \/ m.carry = [parsed |-> next] /\ raw.segment \in DOMAIN m.periods
  BY HawkEyeTurn
<1>2. \A id \in DOMAIN parsed : parsed[id].period \in DOMAIN l.periods
  BY DEF Spanned
<1> HIDE DEF m
<1>3. DOMAIN m.periods = DOMAIN l.periods \cup DOMAIN raw.segments
  BY <1>1 DEF Over
<1>4. \A id \in DOMAIN parsed : parsed[id] = [x \in FrameFields |-> parsed[id][x]]
  <2>1. \A id \in DOMAIN parsed : Placed(source, id, parsed[id])
    BY DEF Timely
  <2> QED BY <2>1 DEF Placed
<1>5. raw.segment \in DOMAIN m.periods => \A id \in DOMAIN next : next[id].period \in DOMAIN m.periods
  <2> DEFINE S == DOMAIN m.periods
  <2>1. \A id \in DOMAIN parsed : parsed[id].period \in S
    BY <1>2, <1>3
  <2> HIDE DEF S, raw, parsed
  <2> QED BY <1>4, <2>1, MinutePeriods DEF S
<1> HIDE DEF next, raw
<1>6. m.carry = [parsed |-> next] => m.carry.parsed = next
  OBVIOUS
<1>7. \A id \in DOMAIN m.carry.parsed : m.carry.parsed[id].period \in DOMAIN m.periods
  <2>1. CASE m.carry = l.carry
    BY <1>2, <1>3, <2>1
  <2>2. CASE m.carry = [parsed |-> next] /\ raw.segment \in DOMAIN m.periods
    BY <1>5, <1>6, <2>2
  <2> QED BY <1>1, <2>1, <2>2
<1>8. Spanned(m, source, k)
  BY <1>7 DEF Spanned, Plain
<1> QED BY <1>8 DEF m, raw

\* The periods the readers begin with.
LEMMA BeginPeriods ==
    ASSUME NEW source
    PROVE  /\ source.reader = "skillcorner" =>
                  Begin(source).periods = SkillCornerPeriods(source.meta.whole)
           /\ source.reader = "second spectrum" =>
                  Begin(source).periods = SecondSpectrumPeriods(source.meta)
           /\ source.reader = "pff" => Begin(source).periods = PffPeriods(source.meta.whole)
           /\ source.reader = "signality" =>
                  Begin(source).periods = SignalityPeriods(source.meta.whole)
<1> DEFINE m == Begin(source)
<1>1. CASE source.reader = "skillcorner"
  <2>1. m = Start(SkillCornerPeriods(source.meta.whole), source.meta.roster, NoPeriod)
    BY <1>1 DEF Begin, StartSkillCorner
  <2> HIDE DEF m
  <2>2. m.periods = SkillCornerPeriods(source.meta.whole)
    BY <2>1, Starts
  <2> QED BY <1>1, <2>2 DEF m
<1>2. CASE source.reader = "second spectrum"
  <2>1. m = Start(SecondSpectrumPeriods(source.meta), source.meta.roster, NoPeriod)
    BY <1>2 DEF Begin, StartSecondSpectrum
  <2> HIDE DEF m
  <2>2. m.periods = SecondSpectrumPeriods(source.meta)
    BY <2>1, Starts
  <2> QED BY <1>2, <2>2 DEF m
<1>3. CASE source.reader = "pff"
  <2> DEFINE c == [state |-> "dead", owner |-> Nobody, extra |-> <<>>, made |-> 0]
  <2>1. m = Start(PffPeriods(source.meta.whole), source.meta.roster, c)
    BY <1>3 DEF Begin, StartPff
  <2> HIDE DEF m, c
  <2>2. m.periods = PffPeriods(source.meta.whole)
    BY <2>1, Starts
  <2> QED BY <1>3, <2>2 DEF m
<1>4. CASE source.reader = "signality"
  <2> DEFINE c == [period |-> NoPeriod]
             l == Start(SignalityPeriods(source.meta.whole), source.meta.roster, c)
  <2>1. m = IF NotEnded(source.meta.whole) THEN Fail(l, "not ended") ELSE l
    BY <1>4 DEF Begin, StartSignality
  <2> HIDE DEF m, c
  <2>2. Shape(l) /\ l.periods = SignalityPeriods(source.meta.whole)
    BY Starts
  <2> HIDE DEF l
  <2>3. m.periods = SignalityPeriods(source.meta.whole)
    BY <2>1, <2>2, OrientedKeeps
  <2> QED BY <1>4, <2>3 DEF m
<1> QED BY <1>1, <1>2, <1>3, <1>4

\* What is known of them before an item is read.
LEMMA BeginSpanned ==
    ASSUME NEW source \in Inputs
    PROVE  Spanned(Begin(source), source, 0)
<1> DEFINE m == Begin(source)
<1>1. source.reader \in Readers
  BY FeedAssumption DEF WellFormed
<1>2. CASE source.reader \in Unwatched
  <2> HIDE DEF m
  <2>1. Spanned(m, source, 0)
    BY <1>2, SpansFree
  <2> QED BY <2>1 DEF m
<1>3. CASE source.reader \in Foretold
  BY <1>3 DEF Spanned, Foretold, Plain
<1>4. CASE source.reader = "statsperform"
  <2>1. m = Start(source.meta.periods, source.meta.roster, NoPeriod)
    BY <1>4 DEF Begin, StartStatsPerform
  <2>2. m.frames = <<>>
    <3> HIDE DEF m
    <3> QED BY <2>1, Starts
  <2> HIDE DEF m
  <2>3. \A k \in DOMAIN m.frames : m.frames[k].period \in DOMAIN m.periods
    BY <2>2, EmptyIs
  <2> QED BY <1>4, <2>3 DEF Spanned, m
<1>5. CASE source.reader = "metrica csv"
  <2>1. m = Start(<<>>, source.meta.roster, NoPeriod)
    BY <1>5 DEF Begin, StartMetricaCsv
  <2> HIDE DEF m
  <2>2. m.periods = <<>>
    BY <2>1, Starts
  <2>3. Lines(source, 0) = {}
    <3>1. \A i \in DOMAIN source.feed : ~(i <= 0)
      BY FeedIs
    <3> QED BY <3>1 DEF Lines
  <2>4. Opened(m.periods, Lines(source, 0))
    BY <2>2, <2>3, EmptyIs DEF Opened
  <2>5. Spanned(m, source, 0)
    BY <1>5, <2>4 DEF Spanned, Plain
  <2> QED BY <2>5 DEF m
<1>6. CASE source.reader = "hawkeye"
  <2> DEFINE c == [parsed |-> <<>>]
  <2>1. m = Start(<<>>, {}, c)
    BY <1>6 DEF Begin, StartHawkEye
  <2>2. c.parsed = <<>>
    OBVIOUS
  <2> HIDE DEF m, c
  <2>3. m.periods = <<>> /\ m.carry.parsed = <<>>
    BY <2>1, <2>2, Starts
  <2>4. Spanned(m, source, 0)
    BY <1>6, <2>3, EmptyIs DEF Spanned, Plain
  <2> QED BY <2>4 DEF m
<1> QED BY <1>1, <1>2, <1>3, <1>4, <1>5, <1>6 DEF Readers, Unwatched, Foretold

\* Every turn of every reader keeps what is known of the periods.
LEMMA TurnSpanned ==
    ASSUME NEW source \in Inputs, NEW n \in Nat, n < Len(Script(source, source.opt)),
           NEW l, Closure(l, source), Timely(l, source, n), Spanned(l, source, n)
    PROVE  Spanned(Handle(source, source.opt, l, Script(source, source.opt)[n + 1]), source, n + 1)
<1> DEFINE raw == Script(source, source.opt)[n + 1]
           opt == source.opt
           m   == Handle(source, opt, l, raw)
<1>1. source.reader \in Readers /\ Shape(l)
  BY FeedAssumption DEF WellFormed, Closure
<1>2. ASSUME source.reader # "sportec" PROVE n + 1 \in DOMAIN source.feed /\ raw = source.feed[n + 1]
  <2>1. Script(source, source.opt) = source.feed
    BY <1>2, OtherScript
  <2>2. n < Len(source.feed) /\ Len(source.feed) \in Nat /\ DOMAIN source.feed = 1..Len(source.feed)
    BY <2>1, FeedIs
  <2> QED BY <2>1, <2>2
<1> HIDE DEF raw, opt
<1>3. CASE source.reader \in Unwatched
  <2> HIDE DEF m
  <2>1. Spanned(m, source, n + 1)
    BY <1>3, SpansFree
  <2> QED BY <2>1 DEF m, raw, opt
<1>4. CASE source.reader \in Foretold
  <2>1. m.periods = l.periods
    <3>1. CASE source.reader = "skillcorner"
      <4>1. m = ReadSkillCorner(l, opt, source.meta, raw)
        BY <3>1 DEF Handle
      <4> HIDE DEF m
      <4> QED BY <1>1, <4>1, SkillCornerTurn DEF Skips, Adds
    <3>2. CASE source.reader = "second spectrum"
      <4>1. m = ReadSecondSpectrum(l, opt, source.meta, raw)
        BY <3>2 DEF Handle
      <4> HIDE DEF m
      <4> QED BY <1>1, <4>1, SecondSpectrumTurn DEF Skips, Adds
    <3>3. CASE source.reader = "signality"
      <4>1. m = ReadSignality(l, opt, source.meta, raw)
        BY <3>3 DEF Handle
      <4> HIDE DEF m
      <4> QED BY <1>1, <4>1, SignalityTurn DEF Skips, Adds
    <3>4. CASE source.reader = "pff"
      <4>1. m = ReadPff(l, opt, raw) /\ PffCarry(l.carry)
        BY <3>4 DEF Handle, Closure
      <4> HIDE DEF m
      <4> QED BY <1>1, <4>1, PffTurn DEF Skips, Adds
    <3> QED BY <1>4, <3>1, <3>2, <3>3, <3>4 DEF Foretold
  <2> HIDE DEF m
  <2>2. Spanned(m, source, n + 1)
    BY <1>4, <2>1, SpansStay
  <2> QED BY <2>2 DEF m, raw, opt
<1>5. CASE source.reader = "statsperform"
  <2>1. m = ReadStatsPerform(l, opt, raw)
    BY <1>5 DEF Handle
  <2> HIDE DEF m
  <2> QED BY <1>1, <1>5, <2>1, StatsPerformSpanned DEF m, raw, opt
<1>6. CASE source.reader = "metrica csv"
  <2>1. m = ReadMetricaCsv(l, opt, raw) /\ n + 1 \in DOMAIN source.feed /\ raw = source.feed[n + 1]
    BY <1>2, <1>6 DEF Handle
  <2> HIDE DEF m
  <2> QED BY <1>1, <1>6, <2>1, CsvSpanned DEF m, raw, opt
<1>7. CASE source.reader = "hawkeye"
  <2>1. m = ReadHawkEye(l, opt, raw) /\ n + 1 \in DOMAIN source.feed /\ raw = source.feed[n + 1]
    BY <1>2, <1>7 DEF Handle
  <2> HIDE DEF m
  <2> QED BY <1>1, <1>7, <2>1, HawkEyeSpanned DEF m, raw, opt
<1> QED BY <1>1, <1>3, <1>4, <1>5, <1>6, <1>7 DEF Readers, Unwatched, Foretold

----------------------------------------------------------------------------
\* All frames in their periods

\* A frame that an item told is in its period, for what is known of it.
LEMMA ToldFits ==
    ASSUME NEW source \in Inputs, source.reader \in Framewise, NEW l, Closure(l, source), NEW n,
           Timely(l, source, n), Spanned(l, source, n), NEW frames,
           Told(source, l.periods, frames, n), NEW k \in DOMAIN frames,
           source.reader = "statsperform" => frames[k].period \in DOMAIN l.periods
    PROVE  Fits(source, l.periods, frames[k])
<1> DEFINE f == frames[k]
<1>1. PICK i \in DOMAIN source.feed : i <= n /\ Tells(source, l.periods, source.feed[i], f)
  BY DEF Told
<1> HIDE DEF f
<1>2. ASSUME source.reader \in Plain \cup {"pff"} PROVE l.periods = Begin(source).periods
  BY <1>2 DEF Spanned
<1>3. CASE source.reader = "tracab"
  <2>1. l.periods = TracabPeriods(source.meta)
    BY <1>3 DEF Closure
  <2> QED BY <1>1, <1>3, <2>1, TracabFits DEF f
<1>4. CASE source.reader = "skillcorner"
  <2>1. l.periods = SkillCornerPeriods(source.meta.whole)
    BY <1>2, <1>4, BeginPeriods DEF Plain
  <2> QED BY <1>1, <1>4, <2>1, SkillCornerFits DEF f
<1>5. CASE source.reader = "second spectrum"
  <2>1. l.periods = SecondSpectrumPeriods(source.meta)
    BY <1>2, <1>5, BeginPeriods DEF Plain
  <2> QED BY <1>1, <1>5, <2>1, SecondSpectrumFits DEF f
<1>6. CASE source.reader = "pff"
  <2>1. l.periods = PffPeriods(source.meta.whole)
    BY <1>2, <1>6, BeginPeriods DEF Plain
  <2> QED BY <1>1, <1>6, <2>1, PffFits DEF f
<1>7. CASE source.reader = "signality"
  <2>1. l.periods = SignalityPeriods(source.meta.whole)
    BY <1>2, <1>7, BeginPeriods DEF Plain
  <2> QED BY <1>1, <1>7, <2>1, SignalityFits DEF f
<1>8. CASE source.reader = "metrica csv"
  <2>1. Opened(l.periods, Lines(source, n))
    BY <1>8 DEF Spanned
  <2> QED BY <1>1, <1>8, <2>1, CsvFits DEF f
<1>9. CASE source.reader = "metrica epts"
  <2>1. l.periods = source.meta.periods
    BY <1>9 DEF Timely
  <2> QED BY <1>1, <1>9, <2>1, EptsFits DEF f
<1>10. CASE source.reader = "statsperform"
  BY <1>10 DEF Fits, ByNumber, f
<1> QED BY <1>3, <1>4, <1>5, <1>6, <1>7, <1>8, <1>9, <1>10 DEF Framewise, Readers

\* A frame of Sportec is in the period it was collected for.
LEMMA SportecFits ==
    ASSUME NEW source, source.reader = "sportec", NEW l, l.periods = source.meta.periods,
           NEW f, OfRow(l, f)
    PROVE  Fits(source, l.periods, f)
BY DEF OfRow, Fits, ByNumber

\* All that is delivered in the end is in its period.
LEMMA FinishFits ==
    ASSUME NEW source \in Inputs, NEW l, Closure(l, source), NEW n, Timely(l, source, n),
           Spanned(l, source, n)
    PROVE  LET m == Closed(source, source.opt, l) IN AllFit(source, m.periods, m.frames)
<1> DEFINE opt  == source.opt
           m    == Closed(source, opt, l)
           Goal == AllFit(source, m.periods, m.frames)
           Same == m.frames = l.frames /\ m.periods = l.periods
<1>1. Shape(l) /\ source.reader \in Readers /\ opt.limit \in Nat
  BY FeedAssumption DEF Closure, WellFormed
<1>2. AllFit(source, l.periods, l.frames)
  <2>1. CASE source.reader \in Framewise
    <3>1. Told(source, l.periods, l.frames, n)
      BY <2>1 DEF Timely
    <3>2. source.reader = "statsperform" =>
              \A k \in DOMAIN l.frames : l.frames[k].period \in DOMAIN l.periods
      BY DEF Spanned
    <3> QED BY <2>1, <3>1, <3>2, ToldFits DEF AllFit
  <2>2. CASE source.reader \notin Framewise
    <3>1. l.frames = <<>>
      BY <1>1, <2>2 DEF Timely, Framewise
    <3> QED BY <3>1, EmptyIs DEF AllFit
  <2> QED BY <2>1, <2>2
<1>3. LET Keeps(o) == o.frames = l.frames /\ o.periods = l.periods
      IN  /\ \A o : Keeps(Oriented(l, o))
          /\ \A e : Keeps(Fail(l, e))
          /\ Keeps(OrientByFirstFrame(l)) /\ Keeps(OrientByFirstPeriod(l))
  BY <1>1, OrientedKeeps
<1> HIDE DEF opt
<1>4. Same => Goal
  <2> HIDE DEF m
  <2> QED BY <1>2
<1>5. CASE l.raised # NotRaised
  <2>1. m = l
    BY <1>5 DEF Closed
  <2> QED BY <1>2, <2>1 DEF opt
<1>6. ASSUME l.raised = NotRaised PROVE Goal
  <2>1. CASE source.reader \in Framewise \ {"pff"}
    <3> SUFFICES Same
      BY <1>4
    <3>1. CASE source.reader = "tracab"
      BY <1>3, <1>6, <3>1 DEF Closed, FinishTracab
    <3>2. CASE source.reader = "skillcorner"
      BY <1>3, <1>6, <3>2 DEF Closed, FinishSkillCorner
    <3>3. CASE source.reader = "second spectrum"
      BY <1>3, <1>6, <3>3 DEF Closed, FinishSecondSpectrum
    <3>4. CASE source.reader = "signality"
      BY <1>3, <1>6, <3>4 DEF Closed, FinishSignality
    <3>5. CASE source.reader = "metrica csv"
      BY <1>3, <1>6, <3>5 DEF Closed, FinishMetricaCsv
    <3>6. CASE source.reader = "metrica epts"
      BY <1>3, <1>6, <3>6 DEF Closed, FinishMetricaEpts
    <3>7. CASE source.reader = "statsperform"
      BY <1>3, <1>6, <3>7 DEF Closed, FinishStatsPerform
    <3> HIDE DEF Same, m
    <3> QED BY <2>1, <3>1, <3>2, <3>3, <3>4, <3>5, <3>6, <3>7 DEF Framewise, Readers
  <2>2. CASE source.reader = "pff"
    <3>1. m = FinishPff(l)
      BY <1>6, <2>2 DEF Closed
    <3> HIDE DEF m
    <3>2. /\ m.periods = l.periods
          /\ \A k \in DOMAIN m.frames : \/ Among(l.frames, m.frames[k])
                                         \/ Among(l.carry.extra, m.frames[k])
      BY <2>2, <3>1, PffOrdered
    <3>3. Told(source, l.periods, l.carry.extra, n)
      BY <2>2 DEF Timely
    <3>4. source.reader \in Framewise
      BY <2>2 DEF Framewise, Readers
    <3>5. AllFit(source, l.periods, l.carry.extra)
      BY <2>2, <3>3, <3>4, ToldFits DEF AllFit
    <3>6. ASSUME NEW frames, AllFit(source, l.periods, frames), NEW f, Among(frames, f)
          PROVE  Fits(source, l.periods, f)
      BY <3>6 DEF AllFit, Among, Fits
    <3> QED BY <1>2, <3>2, <3>5, <3>6 DEF AllFit
  <2>3. CASE source.reader = "hawkeye"
    <3>1. m = FinishHawkEye(l, opt)
      BY <1>6, <2>3 DEF Closed
    <3> HIDE DEF m
    <3>2. /\ m.periods = l.periods
          /\ \A k \in DOMAIN m.frames : \E id \in DOMAIN l.carry.parsed : m.frames[k] = l.carry.parsed[id]
      BY <2>3, <3>1, HawkEyeOrdered
    <3>3. \A id \in DOMAIN l.carry.parsed : l.carry.parsed[id].period \in DOMAIN l.periods
      BY <2>3 DEF Spanned
    <3>4. \A id \in DOMAIN l.carry.parsed : Fits(source, l.periods, l.carry.parsed[id])
      BY <2>3, <3>3 DEF Fits, ByNumber
    <3> QED BY <3>2, <3>4 DEF AllFit
  <2>4. CASE source.reader = "sportec"
    <3>1. m = FinishSportec(l, opt)
      BY <1>6, <2>4 DEF Closed
    <3> HIDE DEF m
    <3>2. m.periods = l.periods /\ \A k \in DOMAIN m.frames : OfRow(l, m.frames[k])
      BY <1>1, <2>4, <3>1, SportecOrdered
    <3>3. l.periods = source.meta.periods
      BY <2>4 DEF Closure
    <3> QED BY <2>4, <3>2, <3>3, SportecFits DEF AllFit
  <2> HIDE DEF Goal, m
  <2> QED BY <1>1, <2>1, <2>2, <2>3, <2>4 DEF Framewise
<1> QED BY <1>5, <1>6 DEF m, opt

\* What is known of the periods before the end of the loop, and what is
\* delivered after it.
SpanInv ==
    /\ OrderedInv
    /\ IF done THEN AllFit(input, loop.periods, loop.frames) ELSE Spanned(loop, input, at)

\* The loop keeps to the periods before every turn, and delivers in them.
LEMMA SpanInvInductive ==
    /\ Init => SpanInv
    /\ SpanInv /\ [Next]_vars => SpanInv'
<1>1. ASSUME Init PROVE SpanInv
  <2>1. OrderedInv
    BY <1>1, OrderedInvInductive
  <2>2. input \in Inputs /\ at = 0 /\ done = FALSE /\ loop = Begin(input)
    BY <1>1 DEF Init
  <2>3. Spanned(loop, input, at)
    BY <2>2, BeginSpanned
  <2> QED BY <2>1, <2>2, <2>3 DEF SpanInv
<1>2. ASSUME SpanInv, [Next]_vars PROVE SpanInv'
  <2>1. OrderedInv /\ OrderedInv'
    BY <1>2, OrderedInvInductive DEF SpanInv
  <2>2. ASSUME NEW reader, Read(reader) PROVE SpanInv'
    <3>1. /\ ~done /\ at < Len(Script(input, input.opt)) /\ input \in Inputs /\ at \in Nat
          /\ Closure(loop, input) /\ Timely(loop, input, at) /\ Spanned(loop, input, at)
          /\ loop' = Handle(input, input.opt, loop, Script(input, input.opt)[at + 1])
          /\ at' = at + 1 /\ input' = input /\ done' = done
      BY <1>2, <2>2 DEF Read, More, SpanInv, OrderedInv, RosterInv
    <3>2. Spanned(loop', input, at + 1)
      BY <3>1, TurnSpanned
    <3> QED BY <2>1, <3>1, <3>2 DEF SpanInv
  <2>3. CASE Finish
    <3>1. /\ ~done /\ Closure(loop, input) /\ Timely(loop, input, at) /\ input \in Inputs
          /\ Spanned(loop, input, at) /\ loop' = Closed(input, input.opt, loop) /\ done' = TRUE
          /\ input' = input
      BY <1>2, <2>3 DEF Finish, SpanInv, OrderedInv, RosterInv
    <3>2. AllFit(input, loop'.periods, loop'.frames)
      BY <3>1, FinishFits
    <3> QED BY <2>1, <3>1, <3>2 DEF SpanInv
  <2>4. CASE UNCHANGED vars
    BY <1>2, <2>1, <2>4 DEF SpanInv, vars
  <2> QED BY <1>2, <2>2, <2>3, <2>4
      DEF Next, ReadTracabLine, ReadSkillCornerFrame, ReadSecondSpectrumLine, ReadPffFrame,
          ReadSignalityFrame, ReadMetricaCsvLines, ReadMetricaEptsLine, ReadStatsPerformLine,
          ReadHawkEyeMinute, ReadSportecFrameSet, Stop
<1> QED BY <1>1, <1>2

\* Every frame is of a period the reader knows, and of TRACAB and the two
\* formats of Metrica, which measure time and periods by the numbers of the
\* frames, it lies in its period: also where periods touch or overlap, and
\* while Metrica CSV still opens and extends them.
THEOREM FramesInPeriod == Spec => []InPeriod
<1>1. SpanInv => InPeriod
  BY DEF SpanInv, AllFit, Fits, InPeriod, Loaded, Frames
<1> QED BY <1>1, SpanInvInductive, PTL DEF Spec
==============================================================================
