------------------------------- MODULE Tracking -------------------------------
(***************************************************************************)
(* Loading tracking data: a reader, its feed and the options of the user.  *)
(* One action per reader, a turn of its loop; Finish is the code after the *)
(* loop.                                                                   *)
(***************************************************************************)
EXTENDS SkillCornerReader, FrameReaders, EntryReaders

CONSTANT Inputs    \* records [reader, meta, feed, opt]

IsSeq(items) == items \in Seq({items[i] : i \in DOMAIN items})
ASSUME TrackingAssumption == \A source \in Inputs : IsSeq(source.feed)

\* A feed holds finitely many things, each of a kind its format has.  Three
\* readers look for the periods in the whole feed before they read it.
PeriodsInFeed == {"skillcorner", "pff", "signality"}
Readers == {"tracab", "skillcorner", "second spectrum", "pff", "signality", "metrica csv",
            "metrica epts", "statsperform", "hawkeye", "sportec"}
FiniteNumbers(S) == IsFiniteSet(S) /\ S \subseteq Int
WellFormed(source) ==
    LET feed == source.feed
    IN  /\ source.reader \in Readers
        /\ source.opt.limit \in Nat
        /\ source.reader \in PeriodsInFeed => source.meta.whole = feed
        /\ source.reader = "tracab" => FiniteNumbers(DOMAIN source.meta.phases)
        /\ source.reader = "skillcorner" =>
               \A i \in DOMAIN feed :
                   LET records == feed[i].records
                   IN  IsSeq(records) /\ \A k \in DOMAIN records : records[k].what \in RecordKinds
        /\ source.reader = "hawkeye" =>
               \A i \in DOMAIN feed :
                   /\ feed[i].minute \in Nat
                   /\ IsFiniteSet(feed[i].balls) /\ feed[i].balls \subseteq Nat
                   /\ IsFiniteSet(feed[i].people) /\ \A p \in feed[i].people : p.tick \in Nat
        /\ source.reader = "sportec" =>
               /\ FiniteNumbers(DOMAIN source.meta.periods)
               /\ \A i \in DOMAIN feed : IsSeq(feed[i].rows)

\* Whom an item names where the reader does not look him up: an object of a
\* SkillCorner V2 record is a player of a team and a track is nobody's, and
\* the columns of Metrica are the players of the metadata.
NamesKnown(source, raw) ==
    CASE source.reader = "skillcorner" /\ source.meta.version = "V2" ->
             \A k \in DOMAIN raw.records :
                 LET record == raw.records[k]
                 IN  /\ record.what = "player" => record.player \in source.meta.roster
                     /\ record.what = "anonymous" => record.player.number = 0
      [] source.reader = "metrica csv" ->
             \A line \in {raw.home, raw.away} :
                 line # Absent => PlayersOf(line.tracks) \subseteq source.meta.roster
      [] source.reader = "metrica epts" -> PlayersOf(raw.tracks) \subseteq source.meta.roster
      [] OTHER -> TRUE

ASSUME FeedAssumption ==
    /\ Ticks \in Nat
    /\ \A source \in Inputs :
           /\ WellFormed(source)
           /\ \A i \in DOMAIN source.feed : NamesKnown(source, source.feed[i])

\* What an item says of its period and of the time in it, if it says so.  TRACAB
\* and EPTS number the frames through the match.
Shown(source, raw) ==
    CASE source.reader = "skillcorner" -> raw.period # NoPeriod /\ raw.clock # -1
      [] source.reader = "pff"         -> raw.period # NoPeriod
      [] source.reader = "metrica csv" -> raw.home # Absent
      [] OTHER                         -> TRUE
Clock(source, raw) ==
    CASE source.reader \in {"skillcorner", "second spectrum"} -> <<raw.period, raw.clock>>
      [] source.reader \in {"signality", "statsperform"}     -> <<raw.period, raw.time>>
      [] source.reader = "pff"                               -> <<raw.period, raw.elapsed>>
      [] source.reader = "metrica csv"                       -> <<raw.home.period, raw.home.id>>
      [] source.reader \in {"tracab", "metrica epts"}        -> <<1, raw.id>>
Earlier(s, t) == s[1] < t[1] \/ (s[1] = t[1] /\ s[2] < t[2])

\* The clock of a feed runs on, and the periods of the metadata follow each
\* other.  The minutes of Hawk-Eye may come in any order; the framesets of
\* Sportec have none.
ClockRuns(source) ==
    LET feed  == source.feed
        meta  == source.meta
        shown == {i \in DOMAIN feed : Shown(source, feed[i])}
    IN  /\ source.reader \notin {"hawkeye", "sportec"} =>
               /\ \A i \in shown : Clock(source, feed[i]) \in Int \X Int
               /\ \A i, j \in shown :
                      i < j => Earlier(Clock(source, feed[i]), Clock(source, feed[j]))
        /\ source.reader = "tracab" =>
               LET periods == TracabPeriods(meta)
               IN  /\ \A p \in DOMAIN periods :
                          periods[p].start \in Int /\ periods[p].end \in Int
                   /\ \A p, q \in DOMAIN periods : p < q => periods[p].end <= periods[q].start
        /\ source.reader = "second spectrum" =>
               /\ IsSeq(Played(meta))
               /\ \A k \in DOMAIN Played(meta) : Played(meta)[k].id \in Int
               /\ \A j, k \in DOMAIN Played(meta) : j < k => Played(meta)[j].id < Played(meta)[k].id
               /\ \A i \in DOMAIN feed : feed[i].period >= 1
        /\ source.reader = "metrica epts" =>
               /\ FiniteNumbers(DOMAIN meta.periods)
               /\ \A p \in DOMAIN meta.periods :
                      meta.periods[p].start \in Int /\ meta.periods[p].end \in Int
               /\ \A p, q \in DOMAIN meta.periods :
                      p < q => meta.periods[p].start <= meta.periods[q].start
        /\ source.reader = "hawkeye" =>
               /\ \A i \in DOMAIN feed :
                      /\ feed[i].segment \in Int
                      /\ feed[i].balls \subseteq 0..(Ticks - 1)
                      /\ \A p \in feed[i].people : p.tick \in 0..(Ticks - 1)
               /\ \A i, j \in DOMAIN feed :
                      feed[i].minute <= feed[j].minute => feed[i].segment <= feed[j].segment
        /\ source.reader = "sportec" =>
               /\ \A p \in DOMAIN meta.periods : meta.periods[p].start \in Int
               /\ \A i \in DOMAIN feed : \A k \in DOMAIN feed[i].rows : feed[i].rows[k].n \in Int

ASSUME ClockAssumption == Half \in Nat /\ \A source \in Inputs : ClockRuns(source)

VARIABLES input,   \* what is loaded
          at,      \* how many items of the feed were read
          loop,    \* the loop of the reader
          done     \* the dataset was returned, or the reader raised
vars == <<input, at, loop, done>>

\* The items the loop goes over: Sportec reads its file once per pass.
Script(source, opt) ==
    IF source.reader # "sportec" THEN source.feed
    ELSE FoldLeft(LAMBDA items, pass : items \o
                      [k \in DOMAIN source.feed |-> InPass(source.feed[k], pass)],
                  <<>>, Passes(opt))

Begin(source) ==
    CASE source.reader = "tracab"          -> StartTracab(source.meta)
      [] source.reader = "skillcorner"     -> StartSkillCorner(source.meta)
      [] source.reader = "second spectrum" -> StartSecondSpectrum(source.meta)
      [] source.reader = "pff"             -> StartPff(source.meta)
      [] source.reader = "signality"       -> StartSignality(source.meta)
      [] source.reader = "metrica csv"     -> StartMetricaCsv(source.meta)
      [] source.reader = "metrica epts"    -> StartMetricaEpts(source.meta)
      [] source.reader = "statsperform"    -> StartStatsPerform(source.meta)
      [] source.reader = "hawkeye"         -> StartHawkEye
      [] source.reader = "sportec"         -> StartSportec(source.meta)

Handle(source, opt, l, raw) ==
    CASE source.reader = "tracab"          -> ReadTracab(l, opt, source.meta, raw)
      [] source.reader = "skillcorner"     -> ReadSkillCorner(l, opt, source.meta, raw)
      [] source.reader = "second spectrum" -> ReadSecondSpectrum(l, opt, source.meta, raw)
      [] source.reader = "pff"             -> ReadPff(l, opt, raw)
      [] source.reader = "signality"       -> ReadSignality(l, opt, source.meta, raw)
      [] source.reader = "metrica csv"     -> ReadMetricaCsv(l, opt, raw)
      [] source.reader = "metrica epts"    -> ReadMetricaEpts(l, opt, source.meta, raw)
      [] source.reader = "statsperform"    -> ReadStatsPerform(l, opt, raw)
      [] source.reader = "hawkeye"         -> ReadHawkEye(l, opt, raw)
      [] source.reader = "sportec"         -> ReadSportec(l, opt, source.meta, raw)

Closed(source, opt, l) ==
    IF l.raised # NotRaised THEN l
    ELSE CASE source.reader = "tracab"          -> FinishTracab(l, source.meta)
           [] source.reader = "skillcorner"     -> FinishSkillCorner(l)
           [] source.reader = "second spectrum" -> FinishSecondSpectrum(l)
           [] source.reader = "pff"             -> FinishPff(l)
           [] source.reader = "signality"       -> FinishSignality(l)
           [] source.reader = "metrica csv"     -> FinishMetricaCsv(l)
           [] source.reader = "metrica epts"    -> FinishMetricaEpts(l, source.meta)
           [] source.reader = "statsperform"    -> FinishStatsPerform(l)
           [] source.reader = "hawkeye"         -> FinishHawkEye(l, opt)
           [] source.reader = "sportec"         -> FinishSportec(l, opt)

Init ==
    /\ input \in Inputs
    /\ at = 0
    /\ loop = Begin(input)
    /\ done = FALSE

More == ~done /\ ~Ended(loop) /\ at < Len(Script(input, input.opt))
Read(reader) ==
    /\ input.reader = reader
    /\ More
    /\ loop' = Handle(input, input.opt, loop, Script(input, input.opt)[at + 1])
    /\ at' = at + 1
    /\ UNCHANGED <<input, done>>

ReadTracabLine        == Read("tracab")
ReadSkillCornerFrame  == Read("skillcorner")
ReadSecondSpectrumLine == Read("second spectrum")
ReadPffFrame          == Read("pff")
ReadSignalityFrame    == Read("signality")
ReadMetricaCsvLines   == Read("metrica csv")
ReadMetricaEptsLine   == Read("metrica epts")
ReadStatsPerformLine  == Read("statsperform")
ReadHawkEyeMinute     == Read("hawkeye")
ReadSportecFrameSet   == Read("sportec")

Finish ==
    /\ ~done /\ ~More
    /\ loop' = Closed(input, input.opt, loop)
    /\ done' = TRUE
    /\ UNCHANGED <<input, at>>
Stop == done /\ UNCHANGED vars

Next ==
    \/ ReadTracabLine \/ ReadSkillCornerFrame \/ ReadSecondSpectrumLine \/ ReadPffFrame
    \/ ReadSignalityFrame \/ ReadMetricaCsvLines \/ ReadMetricaEptsLine
    \/ ReadStatsPerformLine \/ ReadHawkEyeMinute \/ ReadSportecFrameSet
    \/ Finish \/ Stop

Spec == Init /\ [][Next]_vars

----
(***************************************************************************)
(* Properties.                                                             *)
(***************************************************************************)
Frames == {loop.frames[k] : k \in DOMAIN loop.frames}
Loaded == done /\ loop.raised = NotRaised

\* The shape of what is loaded: a frame has each player once, on one side of
\* the pitch, and a ball state and owner the domain knows.  (An item that lies
\* in two periods is counted twice.)
TypeOK ==
    /\ loop.n \in 0..(2 * at)
    /\ \A f \in Frames :
           /\ f.state \in {"alive", "dead", Unknown}
           /\ f.owner \in {Home, Away, Nobody}
           /\ \A s, t \in f.players : s.player = t.player => s = t
    /\ loop.orientation \in {"home_away", "away_home", "not_set"}

\* The readers that take the time of a frame from its number and the numbers
\* at which its period starts and ends.
ByNumber == {"tracab", "metrica csv", "metrica epts"}

\* A frame that has a period has one the reader knows; and where the reader
\* measures time and periods by the same numbers it lies inside it, neither
\* before its start nor later than it is long (Frame.time depends on it), also
\* when periods touch or overlap and while the end of one still moves.  The
\* other readers deliver the times of the feed, which nobody compares with the
\* periods: an excerpt of a match may have a second half of two frames whose
\* clock is far into the half, as in tests/test_skillcorner.py:225-239 and
\* tests/test_pff.py:148-164.
InPeriod ==
    Loaded => \A f \in Frames : f.period # NoPeriod =>
        /\ f.period \in DOMAIN loop.periods
        /\ input.reader \in ByNumber => f.time \in 0..Duration(loop.periods[f.period])

\* The frames come in the order of the match and no moment comes twice, what
\* ever is sampled, skipped, mirrored or collected apart.
Precedes(f, g) ==
    \/ f.period < g.period
    \/ f.period = g.period /\ f.time < g.time
    \/ NoPeriod \in {f.period, g.period} /\ f.id < g.id
InOrder ==
    \A j, k \in DOMAIN loop.frames : j < k => Precedes(loop.frames[j], loop.frames[k])

\* A player who is on a frame is a player of one of the teams: readers that
\* meet a player they do not know either ignore him or enrol him.  (Not the
\* anonymous players of SkillCorner V2, which no team ever has.)
RosterClosed ==
    LET anonymous == {s.player : s \in {r \in UNION {f.players : f \in Frames} :
                                            r.player.number = 0}}
    IN  Loaded => UNION {PlayersOf(f.players) : f \in Frames} \subseteq loop.roster \cup anonymous

\* The dataset the same feed gives without options.
Complete(source) ==
    Closed(source, NoOptions,
           FoldLeft(LAMBDA l, raw : IF Ended(l) THEN l ELSE Handle(source, NoOptions, l, raw),
                    Begin(source), Script(source, NoOptions)))

\* An EPTS feed whose format changes behind a line that is not sampled: the next
\* line that is read meets a format made for the lines before it.
FormatMissed(source) ==
    /\ source.reader = "metrica epts" /\ ~source.meta.fits
    /\ \E s \in 1..(Len(source.meta.specs) - 1) : \A i \in DOMAIN source.feed :
           source.feed[i].id = source.meta.specs[s] => ~Sampled(source.opt, i - 1)

\* A Sportec feed that has a player in a frame without the ball, read with a
\* limit.  The rows of each object are counted by themselves, so that those of
\* the player and those of the ball may be spent on different frames.
CountedApart(source) ==
    LET feed == source.feed
        WithBall(period, n) == \E j \in DOMAIN feed :
            /\ feed[j].object = Ball /\ feed[j].period = period
            /\ \E h \in DOMAIN feed[j].rows : feed[j].rows[h].n = n
    IN  /\ source.reader = "sportec" /\ source.opt.limit # 0 /\ ~source.opt.only_alive
        /\ \E i \in DOMAIN feed : \E k \in DOMAIN feed[i].rows :
               /\ feed[i].object \in source.meta.roster
               /\ ~WithBall(feed[i].period, feed[i].rows[k].n)

\* The options only select.  Reading the same feed with limit, sample_rate or
\* only_alive gives frames of the complete dataset, each exactly as it is
\* there, and does not fail where the complete read succeeds.  The code breaks
\* this in two places, and each is left out by its exact condition and no more:
\* EPTS fails when the last line of a format is not sampled (FormatMissed),
\* and Sportec delivers frames without some of their players (CountedApart).
OnlySelects ==
    done =>
        LET complete == Complete(input)
            Selected(f, g) ==
                \/ f = g
                \/ /\ CountedApart(input)
                   /\ f.players \subseteq g.players /\ f = [g EXCEPT !.players = f.players]
        IN  complete.raised = NotRaised =>
                /\ \/ loop.raised \in {NotRaised, "no first frame", "no frames"}
                   \/ loop.raised = "no match" /\ FormatMissed(input)
                /\ \A f \in Frames : \E k \in DOMAIN complete.frames :
                       Selected(f, complete.frames[k])

\* What the events on the first i frames of a PFF feed say of the ball.
Latest(S) == CHOOSE i \in S : \A j \in S : j <= i
Calls(feed, i) == {j \in 1..i : feed[j].event \in BallOut \cup BallIn}
Claims(feed, i) == {j \in 1..i : feed[j].event # "none" /\ feed[j].home_ball # "null"}
BallState(feed, i) ==
    IF Calls(feed, i) # {} /\ feed[Latest(Calls(feed, i))].event \in BallIn
    THEN "alive" ELSE "dead"
BallOwner(feed, i) ==
    IF Claims(feed, i) = {} THEN Nobody ELSE feed[Latest(Claims(feed, i))].home_ball

\* The ball of a PFF frame is in play, and belongs to a team, as the last event
\* about it up to that frame says, also when that frame was not delivered.
BallFollowsEvents ==
    (Loaded /\ input.reader = "pff") =>
        \A f \in Frames : \E i \in DOMAIN input.feed :
            /\ f.id = input.feed[i].id
            /\ f.state = BallState(input.feed, i)
            /\ f.owner = BallOwner(input.feed, i)
=============================================================================
