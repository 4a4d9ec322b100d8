--------------------------- MODULE Positions_proofs ---------------------------
(***************************************************************************)
(* Player positions and formations, for matches of any length, any squads  *)
(* and any datasets derived from them.                                     *)
(***************************************************************************)
EXTENDS Positions, FiniteLemmas, SequenceTheorems

----------------------------------------------------------------------------
\* The order of times.

\* Times at which something can be recorded.
Moments == EventTimes \cup {StartOfMatch}

LEMMA TimeTyped ==
    ASSUME NEW t \in Time
    PROVE  /\ t.period \in Period /\ t.period \in Nat /\ t.timestamp \in Nat
           /\ t = [period |-> t.period, timestamp |-> t.timestamp]
           /\ Kickoff[t.period] \in Nat /\ Duration[t.period] \in Nat
           /\ Ticks(t) = Kickoff[t.period] + t.timestamp
<1>1. t.period \in Period /\ t.timestamp \in Nat
      /\ t = [period |-> t.period, timestamp |-> t.timestamp]
  BY DEF Time
<1>2. Kickoff[t.period] \in Nat /\ Duration[t.period] \in Nat /\ t.period \in Nat
  BY <1>1, ClockAssumption DEF Period
<1> QED BY <1>1, <1>2 DEF Ticks

LEMMA MomentsAreTimes ==
    ASSUME NEW t \in Moments
    PROVE  t \in Time
BY ClockAssumption, PositionsAssumption DEF Moments, StartOfMatch, At, Time, Period

\* No event comes after the final whistle of its period.
EventsInPeriods == \A t \in EventTimes : InPeriod(t)

LEMMA MomentsInPeriods ==
    ASSUME EventsInPeriods, NEW t \in Moments
    PROVE  t.timestamp <= Duration[t.period]
<1>1. StartOfMatch.timestamp = 0 /\ StartOfMatch.period = 1 /\ Duration[1] \in Nat
  BY ClockAssumption DEF StartOfMatch, At
<1> QED BY <1>1 DEF Moments, EventsInPeriods, InPeriod

LEMMA TimesOrdered ==
    ASSUME NEW s \in Time, NEW t \in Time
    PROVE  /\ Before(s, t) \/ s = t \/ Before(t, s)
           /\ Before(s, t) => s # t /\ ~Before(t, s)
           /\ \A u \in Time : /\ Before(s, t) /\ Before(t, u) => Before(s, u)
                              /\ Before(s, t) /\ NotAfter(t, u) => Before(s, u)
                              /\ NotAfter(s, t) /\ Before(t, u) => Before(s, u)
                              /\ NotAfter(s, t) /\ NotAfter(t, u) => NotAfter(s, u)
<1>1. \A u \in Time : u.period \in Nat /\ u.timestamp \in Nat
  BY TimeTyped
<1>2. s.period = t.period /\ s.timestamp = t.timestamp => s = t
  BY TimeTyped
<1> QED BY <1>1, <1>2 DEF Before, NotAfter

\* The periods follow each other: kick-off after the final whistle before.
LEMMA KickoffAfter ==
    ASSUME NEW p \in Period, NEW q \in Period, p < q
    PROVE  Kickoff[p] + Duration[p] <= Kickoff[q]
<1> DEFINE wrong == {r \in Period : p < r /\ ~ (Kickoff[p] + Duration[p] <= Kickoff[r])}
<1>1. \A r \in Period : r \in Nat /\ Kickoff[r] \in Nat /\ Duration[r] \in Nat
  BY ClockAssumption DEF Period
<1>2. wrong \in SUBSET Nat /\ IsFiniteSet(wrong)
  <2>1. IsFiniteSet(1..NumPeriods)
    BY ClockAssumption, FS_Interval
  <2> QED BY <1>1, <2>1, FS_Subset DEF Period
<1>3. ASSUME wrong # {} PROVE FALSE
  <2>1. PICK r \in wrong : \A g \in wrong : g >= r
    <3> HIDE DEF wrong
    <3> QED BY <1>2, <1>3, LeastExists
  <2>2. r \in Period /\ r - 1 \in Period /\ p <= r - 1 /\ r > 1 /\ ~ (r - 1 >= r)
    <3>1. r \in Period /\ p < r
      BY <2>1
    <3> QED BY <3>1, ClockAssumption DEF Period
  <2>3. Kickoff[r] = Kickoff[r - 1] + Duration[r - 1]
    BY <2>2, ClockAssumption DEF Period
  <2>4. p = r - 1 \/ Kickoff[p] + Duration[p] <= Kickoff[r - 1]
    BY <1>1, <2>1, <2>2
  <2> QED BY <1>1, <2>1, <2>2, <2>3, <2>4
<1> QED BY <1>3

\* Of two times inside their periods the later has the more ticks before it.
LEMMA TicksFollowOrder ==
    ASSUME EventsInPeriods, NEW s \in Moments, NEW t \in Moments, NotAfter(s, t)
    PROVE  Ticks(s) <= Ticks(t)
<1>1. s \in Time /\ t \in Time /\ s.timestamp <= Duration[s.period]
  BY MomentsAreTimes, MomentsInPeriods
<1>2. /\ s.period \in Period /\ t.period \in Period /\ s.period \in Nat /\ t.period \in Nat
      /\ s.timestamp \in Nat /\ t.timestamp \in Nat
      /\ Kickoff[s.period] \in Nat /\ Kickoff[t.period] \in Nat /\ Duration[s.period] \in Nat
      /\ Ticks(s) = Kickoff[s.period] + s.timestamp /\ Ticks(t) = Kickoff[t.period] + t.timestamp
  BY <1>1, TimeTyped
<1>3. CASE s.period < t.period
  BY <1>1, <1>2, <1>3, KickoffAfter
<1>4. CASE s.period = t.period
  BY <1>2, <1>4 DEF NotAfter, Before
<1> QED BY <1>2, <1>3, <1>4 DEF NotAfter, Before

LEMMA MinusTicks ==
    ASSUME NEW s \in Time, NEW t \in Time
    PROVE  MinusTime(s, t) = Ticks(s) - Ticks(t)
<1>1. /\ s.period \in Nat /\ t.period \in Nat /\ s.timestamp \in Nat /\ t.timestamp \in Nat
      /\ Kickoff[s.period] \in Nat /\ Kickoff[t.period] \in Nat
      /\ Ticks(s) = Kickoff[s.period] + s.timestamp /\ Ticks(t) = Kickoff[t.period] + t.timestamp
  BY TimeTyped
<1> QED BY <1>1 DEF MinusTime

\* A finite set of times has a last one.
LEMMA LastExists ==
    ASSUME NEW S \in SUBSET Time, IsFiniteSet(S), S # {}
    PROVE  \E t \in S : \A u \in S : NotAfter(u, t)
<1> DEFINE periods == {u.period : u \in S}
<1>1. \A u \in S : u.period \in Nat /\ u.timestamp \in Nat
  BY TimeTyped
<1>2. periods \in SUBSET Nat /\ IsFiniteSet(periods) /\ periods # {}
  <2>1. periods \subseteq 1..NumPeriods
    BY TimeTyped DEF Period
  <2>2. IsFiniteSet(1..NumPeriods)
    BY ClockAssumption, FS_Interval
  <2>3. IsFiniteSet(periods)
    BY <2>1, <2>2, FS_Subset
  <2>4. periods \in SUBSET Nat /\ periods # {}
    BY <1>1
  <2> QED BY <2>3, <2>4
<1>3. PICK p \in periods : \A q \in periods : q <= p
  <2> HIDE DEF periods
  <2> QED BY <1>2, GreatestExists
<1> DEFINE within == {u \in S : u.period = p}
           stamps == {u.timestamp : u \in within}
<1>4. stamps \in SUBSET Nat /\ IsFiniteSet(stamps) /\ stamps # {}
  <2>1. IsFiniteSet(within) /\ within # {}
    BY FS_Subset
  <2> DEFINE f == [u \in within |-> u.timestamp]
  <2>2. f \in Surjection(within, stamps)
    BY DEF Surjection
  <2>3. IsFiniteSet(stamps)
    BY <2>1, <2>2, FS_Surjection
  <2> QED BY <1>1, <2>1, <2>3
<1>5. PICK x \in stamps : \A y \in stamps : y <= x
  <2> HIDE DEF stamps
  <2> QED BY <1>4, GreatestExists
<1>6. PICK t \in within : t.timestamp = x
  OBVIOUS
<1>7. ASSUME NEW u \in S PROVE NotAfter(u, t)
  <2>1. u.period <= p /\ t.period = p /\ p \in Nat
    BY <1>2, <1>3
  <2>2. u.period = p => u.timestamp <= t.timestamp
    BY <1>5, <1>6
  <2> QED BY <1>1, <2>1, <2>2 DEF NotAfter, Before
<1> QED BY <1>7

----------------------------------------------------------------------------
\* TimeContainers.

IsTimeContainer(c) ==
    /\ IsFiniteSet(DOMAIN c) /\ DOMAIN c \subseteq Moments
    /\ DOMAIN c = {} => c = Empty

LEMMA EmptyIs == DOMAIN Empty = {} /\ IsTimeContainer(Empty)
<1>1. DOMAIN Empty = {}
  BY DEF Empty
<1> QED BY <1>1, FS_EmptySet DEF IsTimeContainer

LEMMA LastIsLast ==
    ASSUME NEW c, IsTimeContainer(c), c # Empty
    PROVE  LastTime(c) \in DOMAIN c /\ \A u \in DOMAIN c : NotAfter(u, LastTime(c))
<1>1. DOMAIN c \in SUBSET Time /\ IsFiniteSet(DOMAIN c) /\ DOMAIN c # {}
  BY MomentsAreTimes DEF IsTimeContainer
<1>2. PICK t \in DOMAIN c : \A u \in DOMAIN c : NotAfter(u, t)
  BY <1>1, LastExists
<1> QED BY <1>2 DEF LastTime

\* value_at: the item of the last key up to a time.
LEMMA ValueAtIs ==
    ASSUME NEW c, IsTimeContainer(c), NEW t \in Time, NEW u \in DOMAIN c, NotAfter(u, t),
           \A w \in DOMAIN c : NotAfter(w, t) => NotAfter(w, u)
    PROVE  ValueAt(c, t) = c[u]
<1> DEFINE until == {w \in DOMAIN c : NotAfter(w, t)}
           last == CHOOSE x \in until : \A w \in until : NotAfter(w, x)
<1>1. u \in until /\ \A w \in until : NotAfter(w, u)
  OBVIOUS
<1>2. ValueAt(c, t) = c[last]
  BY <1>1 DEF ValueAt
<1>3. until \subseteq Time
  BY MomentsAreTimes DEF IsTimeContainer
<1> HIDE DEF until
<1>4. last \in until /\ \A w \in until : NotAfter(w, last)
  BY <1>1
<1>5. last = u
  BY <1>1, <1>3, <1>4, TimesOrdered DEF NotAfter
<1> QED BY <1>2, <1>5

LEMMA ValueAtNone ==
    ASSUME NEW c, NEW t, \A u \in DOMAIN c : Before(t, u)
    PROVE  ValueAt(c, t) = NotFound
<1>1. {u \in DOMAIN c : NotAfter(u, t)} = {}
  BY DEF NotAfter
<1> QED BY <1>1 DEF ValueAt

LEMMA KeyAt ==
    ASSUME NEW c, IsTimeContainer(c), NEW t \in Time
    PROVE  \/ \A u \in DOMAIN c : Before(t, u)
           \/ \E u \in DOMAIN c : /\ NotAfter(u, t)
                                  /\ \A w \in DOMAIN c : NotAfter(w, t) => NotAfter(w, u)
<1> DEFINE until == {w \in DOMAIN c : NotAfter(w, t)}
<1>1. until \in SUBSET Time /\ IsFiniteSet(until)
  BY MomentsAreTimes, FS_Subset DEF IsTimeContainer
<1>2. CASE until = {}
  BY <1>2 DEF NotAfter
<1>3. CASE until # {}
  <2>1. \E u \in until : \A w \in until : NotAfter(w, u)
    <3> HIDE DEF until
    <3> QED BY <1>1, <1>3, LastExists
  <2> QED BY <2>1
<1> QED BY <1>2, <1>3

\* Putting an item changes no value before its time.
LEMMA PutKeeps ==
    ASSUME NEW c, IsTimeContainer(c), NEW u \in Moments, NEW item
    PROVE  /\ IsTimeContainer(Put(c, u, item)) /\ Put(c, u, item) # Empty
           /\ \A t \in Time : Before(t, u) => ValueAt(Put(c, u, item), t) = ValueAt(c, t)
<1> DEFINE d == Put(c, u, item)
<1>1. DOMAIN d = DOMAIN c \cup {u} /\ \A w \in DOMAIN c : w # u => d[w] = c[w]
  BY DEF Put
<1>2. u \in Time /\ DOMAIN c \subseteq Time
  BY MomentsAreTimes DEF IsTimeContainer
<1>3. IsTimeContainer(d) /\ d # Empty
  BY <1>1, EmptyIs, FS_AddElement DEF IsTimeContainer
<1> HIDE DEF d
<1>4. ASSUME NEW t \in Time, Before(t, u) PROVE ValueAt(d, t) = ValueAt(c, t)
  <2>1. \A w \in DOMAIN d : NotAfter(w, t) <=> w \in DOMAIN c /\ NotAfter(w, t) /\ w # u
    BY <1>1, <1>2, <1>4, TimesOrdered DEF NotAfter
  <2>2. CASE \A w \in DOMAIN c : Before(t, w)
    <3>1. \A w \in DOMAIN d : Before(t, w)
      BY <1>1, <1>4, <2>2
    <3> QED BY <2>2, <3>1, ValueAtNone
  <2>3. ASSUME NEW v \in DOMAIN c, NotAfter(v, t),
               \A w \in DOMAIN c : NotAfter(w, t) => NotAfter(w, v)
        PROVE  ValueAt(d, t) = ValueAt(c, t)
    <3>1. ValueAt(c, t) = c[v]
      BY <2>3, ValueAtIs
    <3>2. v \in DOMAIN d /\ v # u /\ d[v] = c[v]
      BY <1>1, <2>1, <2>3
    <3>3. \A w \in DOMAIN d : NotAfter(w, t) => NotAfter(w, v)
      BY <2>1, <2>3
    <3>4. ValueAt(d, t) = d[v]
      BY <1>3, <2>3, <3>2, <3>3, ValueAtIs
    <3> QED BY <3>1, <3>2, <3>4
  <2> QED BY <2>2, <2>3, KeyAt
<1> QED BY <1>3, <1>4 DEF d

----------------------------------------------------------------------------
\* The state of a match and of a session.

EventOk(e) ==
    /\ e.time \in EventTimes
    /\ e.type = "formation_change" => e.team \in Teams /\ e.formation_type \in FormationTypes

\* Events are in the order of their times, and a dataset keeps their order.
EventsOrdered ==
    /\ \E S : events \in Seq(S) /\ \A e \in S : EventOk(e)
    /\ \A j, k \in DOMAIN events : j < k => NotAfter(events[j].time, events[k].time)

RecordsOrdered ==
    /\ records \in Seq(DOMAIN events)
    /\ \A j, k \in DOMAIN records : j < k => records[j] < records[k]
    /\ ~loaded => records = <<>>
    /\ done \in 0..Len(records)

ContainersKept ==
    /\ DOMAIN positions = Players /\ \A p \in Players : IsTimeContainer(positions[p])
    /\ DOMAIN formations = Teams /\ \A team \in Teams : IsTimeContainer(formations[team])

Shape == EventsOrdered /\ RecordsOrdered /\ ContainersKept

LEMMA RecordTyped ==
    ASSUME Shape, NEW k \in 1..Len(records)
    PROVE  /\ records[k] \in DOMAIN events /\ Evs[k] = events[records[k]]
           /\ EventOk(Evs[k]) /\ Evs[k].time \in Moments
<1>1. records[k] \in DOMAIN events /\ Evs[k] = events[records[k]]
  BY DEF Shape, RecordsOrdered, Evs
<1>2. \A j \in DOMAIN events : EventOk(events[j])
  BY DEF Shape, EventsOrdered
<1> QED BY <1>1, <1>2 DEF EventOk, Moments

\* A substitution puts items at its own time, and nothing else.
LEMMA SubstitutionPuts ==
    ASSUME NEW pos, DOMAIN pos = Players, NEW e, NEW p \in Players
    PROVE  LET new == AfterSubstitution(pos, e)
           IN  /\ DOMAIN new = Players
               /\ \/ new[p] = pos[p]
                  \/ \E i : new[p] = Put(pos[p], e.time, i)
                  \/ \E i, j : new[p] = Put(Put(pos[p], e.time, i), e.time, j)
BY DEF AfterSubstitution

LEMMA FormationChangePuts ==
    ASSUME NEW pos, DOMAIN pos = Players, NEW e, NEW p \in Players
    PROVE  LET new  == AfterFormationChange(pos, e)
               last == LastTime(pos[p])
           IN  /\ DOMAIN new = Players
               /\ \/ new[p] = pos[p]
                  \/ pos[p] # Empty /\ p \in DOMAIN e.player_positions
                     /\ new[p] = Put(pos[p],
                                     IF MinusTime(e.time, last) < Leeway THEN last ELSE e.time,
                                     e.player_positions[p])
BY DEF AfterFormationChange

\* Whatever the event, containers stay containers.
LEMMA UpdateKeeps ==
    ASSUME ContainersKept, NEW e, EventOk(e), UpdateWith(e)
    PROVE  ContainersKept'
<1>1. e.time \in Moments
  BY DEF EventOk, Moments
<1>2. ASSUME NEW p \in Players PROVE IsTimeContainer(positions[p]) /\ DOMAIN positions = Players
  BY DEF ContainersKept
<1>3. CASE e.type = "substitution"
  <2>1. positions' = AfterSubstitution(positions, e) /\ UNCHANGED formations
    BY <1>3 DEF UpdateWith
  <2>2. ASSUME NEW p \in Players PROVE IsTimeContainer(positions'[p])
    <3>1. \A i : IsTimeContainer(Put(positions[p], e.time, i))
      BY <1>1, <1>2, PutKeeps
    <3>2. \A i, j : IsTimeContainer(Put(Put(positions[p], e.time, i), e.time, j))
      BY <1>1, <3>1, PutKeeps
    <3> QED BY <1>2, <2>1, <3>1, <3>2, SubstitutionPuts
  <2>3. DOMAIN positions' = Players
    BY <2>1 DEF AfterSubstitution, ContainersKept
  <2> QED BY <2>1, <2>2, <2>3 DEF ContainersKept
<1>4. CASE e.type = "formation_change"
  <2>1. positions' = AfterFormationChange(positions, e) /\ formations' = NewFormation(formations, e)
    BY <1>4 DEF UpdateWith
  <2>2. ASSUME NEW p \in Players PROVE IsTimeContainer(positions'[p])
    <3>1. positions[p] # Empty => LastTime(positions[p]) \in Moments
      BY <1>2, LastIsLast DEF IsTimeContainer
    <3>2. \A u \in Moments : \A i : IsTimeContainer(Put(positions[p], u, i))
      BY <1>2, PutKeeps
    <3> QED BY <1>1, <1>2, <2>1, <3>1, <3>2, FormationChangePuts
  <2>3. DOMAIN positions' = Players
    BY <2>1 DEF AfterFormationChange
  <2>4. /\ DOMAIN formations = Teams /\ \A team \in Teams : IsTimeContainer(formations[team])
    BY DEF ContainersKept
  <2>5. \A i : \A team \in Teams : IsTimeContainer(Put(formations[team], e.time, i))
    BY <1>1, <2>4, PutKeeps
  <2>6. DOMAIN formations' = Teams /\ \A team \in Teams : IsTimeContainer(formations'[team])
    BY <2>1, <2>4, <2>5 DEF NewFormation
  <2> QED BY <2>2, <2>3, <2>6 DEF ContainersKept
<1>5. CASE e.type \notin {"substitution", "formation_change"}
  BY <1>5 DEF UpdateWith, ContainersKept
<1> QED BY <1>3, <1>4, <1>5

\* A dataset holds the events chosen, in the order of the match.
LEMMA ConstructKeeps ==
    ASSUME EventsOrdered, NEW S \in SUBSET DOMAIN events, Construct(S), loaded'
    PROVE  /\ Shape' /\ Len(records') = Cardinality(S) /\ Len(records') \in Nat
           /\ records' \in [1..Len(records') -> S]
<1>1. events' = events /\ done' = 0
      /\ positions' = InitialPositions /\ formations' = [team \in Teams |-> Empty]
  BY DEF Construct, ResetPositions, ResetFormations
<1>2. EventsOrdered'
  BY <1>1 DEF EventsOrdered
<1>3. Cardinality(S) \in Nat
  <2>1. DOMAIN events = 1..Len(events) /\ Len(events) \in Nat
    BY DEF EventsOrdered
  <2>2. IsFiniteSet(DOMAIN events)
    BY <2>1, FS_Interval
  <2> QED BY <2>2, FS_Subset, FS_CardinalityType
<1>4. PICK n \in Nat : n = Cardinality(S)
  BY <1>3
<1>5. PICK s \in [1..n -> S] : s = records'
  BY <1>4 DEF Construct
<1>6. s \in Seq(S) /\ Len(s) = n /\ s \in Seq(DOMAIN events)
  OBVIOUS
<1>7. \A j, k \in DOMAIN records' : j < k => records'[j] < records'[k]
  BY DEF Construct
<1>8. RecordsOrdered'
  BY <1>1, <1>5, <1>6, <1>7 DEF RecordsOrdered
<1>9. ContainersKept'
  <2>1. DOMAIN positions' = Players /\ DOMAIN formations' = Teams
    BY <1>1 DEF InitialPositions
  <2>2. \A item : IsTimeContainer(Put(Empty, StartOfMatch, item))
    BY EmptyIs, PutKeeps DEF Moments
  <2>3. \A p \in Players : IsTimeContainer(positions'[p])
    BY <1>1, <2>2, EmptyIs DEF InitialPositions
  <2>4. \A team \in Teams : IsTimeContainer(formations'[team])
    BY <1>1, EmptyIs
  <2> QED BY <2>1, <2>3, <2>4 DEF ContainersKept
<1> QED BY <1>2, <1>4, <1>5, <1>6, <1>8, <1>9 DEF Shape

LEMMA EmitKeeps ==
    ASSUME Shape, NEW e, EventOk(e), Emit(e)
    PROVE  Shape'
<1>1. PICK S : events \in Seq(S) /\ \A f \in S : EventOk(f)
  BY DEF Shape, EventsOrdered
<1>2. events' = Append(events, e) /\ UNCHANGED <<loaded, records, done, positions, formations>>
      /\ ~loaded
  BY DEF Emit
<1>3. events \in Seq(S \cup {e}) /\ e \in S \cup {e}
  BY <1>1
<1>4. events' \in Seq(S \cup {e}) /\ Len(events') = Len(events) + 1
      /\ events'[Len(events) + 1] = e /\ \A k \in 1..Len(events) : events'[k] = events[k]
  BY <1>2, <1>3
<1>5. ASSUME NEW j \in DOMAIN events', NEW k \in DOMAIN events', j < k
      PROVE  NotAfter(events'[j].time, events'[k].time)
  <2>1. j \in 1..Len(events) /\ (k \in 1..Len(events) \/ k = Len(events) + 1)
    BY <1>3, <1>4, <1>5
  <2>2. \A i \in 1..Len(events) : NotAfter(events[i].time, e.time)
    BY <1>1 DEF Emit, MayOccur
  <2>3. \A h, i \in 1..Len(events) : h < i => NotAfter(events[h].time, events[i].time)
    BY <1>1 DEF Shape, EventsOrdered
  <2> QED BY <1>4, <1>5, <2>1, <2>2, <2>3
<1>6. EventsOrdered'
  <2>1. \A f \in S \cup {e} : EventOk(f)
    BY <1>1
  <2>2. \E R : events' \in Seq(R) /\ \A f \in R : EventOk(f)
    BY <1>4, <2>1
  <2> QED BY <1>5, <2>2 DEF EventsOrdered
<1>7. RecordsOrdered'
  BY <1>2 DEF Shape, RecordsOrdered
<1>8. ContainersKept'
  BY <1>2 DEF Shape, ContainersKept
<1> QED BY <1>6, <1>7, <1>8 DEF Shape

\* The events of a match are what the provider may send.
LEMMA MatchEvents ==
    ASSUME Substitution \/ FormationChange \/ RedCard \/ PlayerOff \/ PlayerOn
    PROVE  \E e : EventOk(e) /\ Emit(e)
<1>1. CASE Substitution
  <2>1. PICK p, r, pos, t :
            /\ t \in EventTimes
            /\ Emit([type |-> "substitution", time |-> t, player |-> p,
                     replacement_player |-> r, position |-> pos])
    BY <1>1 DEF Substitution
  <2> QED BY <2>1 DEF EventOk
<1>2. CASE FormationChange
  <2>1. PICK team, f, t, pos :
            /\ team \in Teams /\ f \in FormationTypes /\ t \in EventTimes
            /\ Emit([type |-> "formation_change", time |-> t, team |-> team,
                     formation_type |-> f, player_positions |-> pos])
    BY <1>2 DEF FormationChange
  <2> QED BY <2>1 DEF EventOk
<1>3. CASE RedCard
  BY <1>3 DEF RedCard, EventOk
<1>4. CASE PlayerOff
  BY <1>4 DEF PlayerOff, EventOk
<1>5. CASE PlayerOn
  BY <1>5 DEF PlayerOn, EventOk
<1> QED BY <1>1, <1>2, <1>3, <1>4, <1>5

LEMMA UpdateReads ==
    ASSUME Shape, Update
    PROVE  /\ done + 1 \in 1..Len(records) /\ done' = done + 1 /\ done \in Nat
           /\ EventOk(Evs[done + 1]) /\ UpdateWith(Evs[done + 1])
           /\ UNCHANGED <<events, loaded, records, seen>> /\ Evs' = Evs /\ loaded
<1>1. done + 1 \in 1..Len(records) /\ done \in Nat
  BY DEF Update, Shape, RecordsOrdered
<1>2. EventOk(Evs[done + 1]) /\ Evs[done + 1] = events[records[done + 1]]
  BY <1>1, RecordTyped
<1> QED BY <1>1, <1>2 DEF Update, Evs

LEMMA ShapeInit == Init => Shape
<1> SUFFICES ASSUME Init PROVE Shape
  OBVIOUS
<1>1. EventsOrdered
  <2>1. events \in Seq({}) /\ \A e \in {} : EventOk(e)
    BY DEF Init
  <2>2. DOMAIN events = {}
    BY DEF Init
  <2> QED BY <2>1, <2>2 DEF EventsOrdered
<1>2. RecordsOrdered
  BY DEF Init, RecordsOrdered
<1>3. ContainersKept
  BY EmptyIs DEF Init, ContainersKept
<1> QED BY <1>1, <1>2, <1>3 DEF Shape

LEMMA ShapeNext ==
    ASSUME Shape, [Next]_vars
    PROVE  Shape'
<1>1. CASE Substitution \/ FormationChange \/ RedCard \/ PlayerOff \/ PlayerOn
  BY <1>1, MatchEvents, EmitKeeps
<1>2. CASE Load
  <2>1. Construct(DOMAIN events) /\ loaded' /\ EventsOrdered /\ DOMAIN events \in SUBSET DOMAIN events
    BY <1>2 DEF Load, Shape
  <2> QED BY <2>1, ConstructKeeps
<1>3. CASE Derive
  <2>1. PICK S \in SUBSET DOMAIN events : Construct(S) /\ loaded'
    BY <1>3 DEF Derive, Ready
  <2> QED BY <2>1, ConstructKeeps DEF Shape
<1>4. CASE Update
  <2>1. done + 1 \in 1..Len(records) /\ EventOk(Evs[done + 1]) /\ UpdateWith(Evs[done + 1])
        /\ UNCHANGED <<events, loaded, records>> /\ done' = done + 1
    BY <1>4, UpdateReads
  <2>2. ContainersKept'
    BY <2>1, UpdateKeeps DEF Shape
  <2>3. EventsOrdered' /\ RecordsOrdered'
    BY <2>1 DEF Shape, EventsOrdered, RecordsOrdered
  <2> QED BY <2>2, <2>3 DEF Shape
<1>5. CASE UNCHANGED vars
  BY <1>5 DEF vars, Shape, EventsOrdered, RecordsOrdered, ContainersKept
<1> QED BY <1>1, <1>2, <1>3, <1>4, <1>5 DEF Next

----------------------------------------------------------------------------
\* The history of positions.

LEMMA UpdateKeepsHistory ==
    ASSUME EventsInPeriods, Shape, NEW e, EventOk(e), UpdateWith(e),
           NEW p \in Players, NEW t \in Moments, MinusTime(e.time, t) >= Leeway
    PROVE  ValueAt(positions'[p], t) = ValueAt(positions[p], t)
<1>1. e.time \in Moments /\ e.time \in Time /\ t \in Time
  BY MomentsAreTimes DEF EventOk, Moments
<1>2. IsTimeContainer(positions[p]) /\ DOMAIN positions = Players
  BY DEF Shape, ContainersKept
<1>3. /\ Ticks(e.time) \in Nat /\ Ticks(t) \in Nat /\ Leeway \in Nat /\ Leeway > 0
      /\ Ticks(e.time) - Ticks(t) >= Leeway
  <2>1. MinusTime(e.time, t) = Ticks(e.time) - Ticks(t)
    BY <1>1, MinusTicks
  <2>2. \A s \in Time : Ticks(s) \in Nat
    <3>1. ASSUME NEW s \in Time PROVE Ticks(s) \in Nat
      BY TimeTyped
    <3> QED BY <3>1
  <2> QED BY <1>1, <2>1, <2>2, PositionsAssumption
<1>4. Before(t, e.time)
  BY <1>1, <1>3, TicksFollowOrder DEF NotAfter
<1>5. CASE e.type = "substitution"
  <2>1. positions' = AfterSubstitution(positions, e)
    BY <1>5 DEF UpdateWith
  <2>2. \A i : /\ IsTimeContainer(Put(positions[p], e.time, i))
               /\ ValueAt(Put(positions[p], e.time, i), t) = ValueAt(positions[p], t)
    BY <1>1, <1>2, <1>4, PutKeeps
  <2>3. \A i, j : ValueAt(Put(Put(positions[p], e.time, i), e.time, j), t) =
                      ValueAt(positions[p], t)
    <3>1. ASSUME NEW i, NEW j
          PROVE  ValueAt(Put(Put(positions[p], e.time, i), e.time, j), t) =
                     ValueAt(positions[p], t)
      <4>1. IsTimeContainer(Put(positions[p], e.time, i))
        BY <2>2
      <4>2. ValueAt(Put(Put(positions[p], e.time, i), e.time, j), t) =
                ValueAt(Put(positions[p], e.time, i), t)
        BY <1>1, <1>4, <4>1, PutKeeps
      <4> QED BY <2>2, <4>2
    <3> QED BY <3>1
  <2> QED BY <1>2, <2>1, <2>2, <2>3, SubstitutionPuts
<1>6. CASE e.type = "formation_change"
  <2> DEFINE last == LastTime(positions[p])
             key == IF MinusTime(e.time, last) < Leeway THEN last ELSE e.time
  <2>1. positions' = AfterFormationChange(positions, e)
    BY <1>6 DEF UpdateWith
  <2>2. CASE positions'[p] = positions[p]
    BY <2>2
  <2>3. ASSUME positions[p] # Empty
        PROVE  key \in Moments /\ Before(t, key)
    <3>1. last \in Moments /\ last \in Time
      <4>1. last \in DOMAIN positions[p]
        BY <1>2, <2>3, LastIsLast
      <4> QED BY <1>2, <4>1, MomentsAreTimes DEF IsTimeContainer
    <3> HIDE DEF last
    <3>2. CASE MinusTime(e.time, last) < Leeway
      <4>1. Ticks(e.time) - Ticks(last) < Leeway /\ Ticks(last) \in Nat
        BY <1>1, <3>1, <3>2, MinusTicks, TimeTyped
      <4>2. ~ (Ticks(last) <= Ticks(t))
        BY <1>3, <4>1
      <4>3. Before(t, last)
        BY <3>1, <4>2, TicksFollowOrder DEF NotAfter
      <4> QED BY <3>1, <3>2, <4>3
    <3>3. CASE ~ (MinusTime(e.time, last) < Leeway)
      BY <1>1, <1>4, <3>3
    <3> QED BY <3>2, <3>3
  <2>4. ASSUME positions[p] # Empty
        PROVE  \A i : ValueAt(Put(positions[p], key, i), t) = ValueAt(positions[p], t)
    <3> HIDE DEF key
    <3> QED BY <1>1, <1>2, <2>3, <2>4, PutKeeps
  <2>5. \/ positions'[p] = positions[p]
        \/ positions[p] # Empty /\ positions'[p] = Put(positions[p], key, e.player_positions[p])
    BY <1>2, <2>1, FormationChangePuts
  <2> HIDE DEF key, last
  <2> QED BY <2>4, <2>5
<1>7. CASE e.type \notin {"substitution", "formation_change"}
  BY <1>7 DEF UpdateWith
<1> QED BY <1>5, <1>6, <1>7

\* An event changes no position held a leeway or more before it: neither the
\* substitution nor the formation change that corrects the last position.  Times
\* after a final whistle are excluded: the leeway is measured in ticks, on which
\* they come after the next kick-off, and the order of keys is another.
\* (_update_formations_and_positions)
THEOREM HistoryIsStable == ASSUME EventsInPeriods PROVE Spec => HistoryStable
<1>1. Init => Shape
  BY ShapeInit
<1>2. Shape /\ [Next]_vars => Shape'
  BY ShapeNext
<1>3. ASSUME Shape, Next, NEW p \in Players, NEW t \in Moments,
             done' = done + 1, MinusTime(Evs[done + 1].time, t) >= Leeway
      PROVE  ValueAt(positions'[p], t) = ValueAt(positions[p], t)
  <2>1. done \in Nat
    BY <1>3 DEF Shape, RecordsOrdered
  <2>2. CASE Update
    <3>1. EventOk(Evs[done + 1]) /\ UpdateWith(Evs[done + 1])
      BY <1>3, <2>2, UpdateReads
    <3> QED BY <1>3, <3>1, UpdateKeepsHistory
  <2>3. CASE Load \/ Derive
    <3>1. done' = 0
      BY <2>3 DEF Load, Derive, Construct
    <3> QED BY <1>3, <2>1, <3>1
  <2>4. CASE Substitution \/ FormationChange \/ RedCard \/ PlayerOff \/ PlayerOn
    <3>1. done' = done
      BY <2>4, MatchEvents DEF Emit
    <3> QED BY <1>3, <2>1, <3>1
  <2> QED BY <1>3, <2>2, <2>3, <2>4 DEF Next
<1>4. Shape /\ [Next]_vars =>
        [\A p \in Players, t \in EventTimes \cup {StartOfMatch} :
             (done' = done + 1 /\ MinusTime(Evs[done + 1].time, t) >= Leeway) =>
                 ValueAt(positions'[p], t) = ValueAt(positions[p], t)]_vars
  BY <1>3 DEF Moments
<1> QED BY <1>1, <1>2, <1>4, PTL DEF Spec, HistoryStable

----------------------------------------------------------------------------
\* Rebuilding.

\* Numbers that ascend from 1 to n without a gap are in their places.
LEMMA AscendingIsIdentity ==
    ASSUME NEW n \in Nat, NEW f \in [1..n -> 1..n],
           \A j, k \in 1..n : j < k => f[j] < f[k]
    PROVE  \A k \in 1..n : f[k] = k
<1> DEFINE low  == {k \in 1..n : f[k] < k}
           high == {k \in 1..n : f[k] > k}
<1>1. low \in SUBSET Nat /\ high \in SUBSET Nat /\ IsFiniteSet(low) /\ IsFiniteSet(high)
  <2>1. IsFiniteSet(1..n)
    BY FS_Interval
  <2> QED BY <2>1, FS_Subset
<1>2. ASSUME low # {} PROVE FALSE
  <2>1. PICK k \in low : \A g \in low : g >= k
    <3> HIDE DEF low
    <3> QED BY <1>1, <1>2, LeastExists
  <2>2. f[k] \in low /\ f[k] < k
    BY <2>1
  <2> QED BY <2>1, <2>2
<1>3. ASSUME high # {} PROVE FALSE
  <2>1. PICK k \in high : \A g \in high : g <= k
    <3> HIDE DEF high
    <3> QED BY <1>1, <1>3, GreatestExists
  <2>2. f[k] \in high /\ f[k] > k
    BY <2>1
  <2> QED BY <2>1, <2>2
<1>4. \A k \in 1..n : ~(f[k] < k) /\ ~(f[k] > k)
  BY <1>2, <1>3
<1> QED BY <1>4

\* A dataset with as many records as there are events holds them all.
LEMMA AllRecords ==
    ASSUME Shape, Len(records) = Len(events)
    PROVE  \A k \in 1..Len(events) : records[k] = k /\ Evs[k] = events[k]
<1>1. Len(events) \in Nat /\ DOMAIN events = 1..Len(events)
  BY DEF Shape, EventsOrdered
<1>2. PICK n \in Nat : n = Len(events)
  BY <1>1
<1>3. PICK f \in [1..n -> 1..n] : f = records
  BY <1>1, <1>2 DEF Shape, RecordsOrdered
<1>4. \A j, k \in 1..n : j < k => f[j] < f[k]
  BY <1>3 DEF Shape, RecordsOrdered
<1>5. \A k \in 1..n : records[k] = k
  BY <1>3, <1>4, AscendingIsIdentity
<1> QED BY <1>2, <1>3, <1>5 DEF Evs

\* The body of the loop as a function.
PositionsAfter(pos, e) ==
    CASE e.type = "substitution"     -> AfterSubstitution(pos, e)
      [] e.type = "formation_change" -> AfterFormationChange(pos, e)
      [] OTHER                       -> pos

FormationsAfter(form, e) ==
    IF e.type = "formation_change" THEN NewFormation(form, e) ELSE form

LEMMA UpdateIsFunction ==
    ASSUME NEW e, UpdateWith(e)
    PROVE  positions' = PositionsAfter(positions, e) /\ formations' = FormationsAfter(formations, e)
BY DEF UpdateWith, PositionsAfter, FormationsAfter

\* P and F are the containers before and after each of the first n events.
Replay(P, F, evs, n) ==
    /\ P[0] = InitialPositions /\ F[0] = [team \in Teams |-> Empty]
    /\ \A k \in 1..n : /\ P[k] = PositionsAfter(P[k-1], evs[k])
                       /\ F[k] = FormationsAfter(F[k-1], evs[k])

\* What a replay gives depends on nothing but the events.
LEMMA ReplayUnique ==
    ASSUME NEW n \in Nat, NEW evs, NEW P, NEW F, NEW Q, NEW G,
           Replay(P, F, evs, n), Replay(Q, G, evs, n)
    PROVE  P[n] = Q[n] /\ F[n] = G[n]
<1> DEFINE differ == {k \in 0..n : ~(P[k] = Q[k] /\ F[k] = G[k])}
<1>1. differ \in SUBSET Nat /\ IsFiniteSet(differ)
  <2>1. IsFiniteSet(0..n)
    BY FS_Interval
  <2> QED BY <2>1, FS_Subset
<1>2. ASSUME differ # {} PROVE FALSE
  <2>1. PICK k \in differ : \A g \in differ : g >= k
    <3> HIDE DEF differ
    <3> QED BY <1>1, <1>2, LeastExists
  <2>2. k # 0
    BY <2>1 DEF Replay
  <2>3. k \in 1..n /\ k - 1 \in 0..n /\ ~ (k - 1 >= k)
    BY <2>1, <2>2
  <2>4. P[k-1] = Q[k-1] /\ F[k-1] = G[k-1]
    BY <2>1, <2>3
  <2> QED BY <2>1, <2>3, <2>4 DEF Replay
<1>3. n \in 0..n
  OBVIOUS
<1> QED BY <1>2, <1>3

\* The containers are a replay of the events of the dataset, what was seen is
\* one of all the events, and until then the dataset is the loaded one.
ReplaysTo(evs, n, pos, form) ==
    \E P, F : Replay(P, F, evs, n) /\ P[n] = pos /\ F[n] = form

Replayed ==
    /\ loaded => ReplaysTo(Evs, done, positions, formations)
    /\ seen # <<>> =>
           \E pos, form : seen = <<pos, form>> /\ ReplaysTo(events, Len(events), pos, form)
    /\ loaded /\ seen = <<>> => Len(records) = Len(events)
    /\ ~loaded => seen = <<>>

LEMMA ReplayStart ==
    ASSUME NEW S, Construct(S)
    PROVE  ReplaysTo(Evs, done, positions, formations)'
<1> DEFINE P == [k \in 0..0 |-> InitialPositions]
           F == [k \in 0..0 |-> [team \in Teams |-> Empty]]
<1>1. /\ done' = 0 /\ positions' = InitialPositions
      /\ formations' = [team \in Teams |-> Empty]
  BY DEF Construct, ResetPositions, ResetFormations
<1>2. Replay(P, F, Evs', 0)
  BY DEF Replay
<1>3. P[0] = InitialPositions /\ F[0] = [team \in Teams |-> Empty]
  OBVIOUS
<1> QED BY <1>1, <1>2, <1>3 DEF ReplaysTo

LEMMA ReplayUpdate ==
    ASSUME Shape, Replayed, Update
    PROVE  ReplaysTo(Evs, done, positions, formations)'
<1>1. /\ done' = done + 1 /\ done \in Nat /\ Evs' = Evs /\ loaded
      /\ positions' = PositionsAfter(positions, Evs[done + 1])
      /\ formations' = FormationsAfter(formations, Evs[done + 1])
  BY UpdateReads, UpdateIsFunction
<1>2. PICK P, F : Replay(P, F, Evs, done) /\ P[done] = positions /\ F[done] = formations
  BY <1>1 DEF Replayed, ReplaysTo
<1> DEFINE Q == [k \in 0..(done + 1) |-> IF k <= done THEN P[k] ELSE positions']
           G == [k \in 0..(done + 1) |-> IF k <= done THEN F[k] ELSE formations']
<1>3. /\ Q[done + 1] = positions' /\ G[done + 1] = formations'
      /\ \A k \in 0..done : Q[k] = P[k] /\ G[k] = F[k]
  BY <1>1
<1> HIDE DEF Q, G
<1>4. ASSUME NEW k \in 1..(done + 1)
      PROVE  /\ Q[k] = PositionsAfter(Q[k-1], Evs[k])
             /\ G[k] = FormationsAfter(G[k-1], Evs[k])
  <2>1. CASE k \in 1..done
    <3>1. k \in 0..done /\ k - 1 \in 0..done
      BY <1>1, <2>1
    <3> QED BY <1>2, <1>3, <2>1, <3>1 DEF Replay
  <2>2. CASE k = done + 1
    <3>1. k - 1 = done /\ done \in 0..done
      BY <1>1, <2>2
    <3> QED BY <1>1, <1>2, <1>3, <2>2, <3>1
  <2> QED BY <1>1, <2>1, <2>2
<1>5. Q[0] = InitialPositions /\ G[0] = [team \in Teams |-> Empty]
  BY <1>1, <1>2, <1>3 DEF Replay
<1>6. Replay(Q, G, Evs, done + 1)
  BY <1>4, <1>5 DEF Replay
<1> QED BY <1>1, <1>3, <1>6 DEF ReplaysTo

\* Of a dataset of all the events the replay is one of the events.
LEMMA ReplayOfAll ==
    ASSUME Shape, Replayed, Ready, Len(records) = Len(events)
    PROVE  ReplaysTo(events, Len(events), positions, formations)
<1>1. PICK P, F : Replay(P, F, Evs, done) /\ P[done] = positions /\ F[done] = formations
  BY DEF Replayed, ReplaysTo, Ready
<1>2. done = Len(events) /\ \A k \in 1..done : Evs[k] = events[k]
  BY AllRecords DEF Ready
<1>3. Replay(P, F, events, done)
  BY <1>1, <1>2 DEF Replay
<1> QED BY <1>1, <1>2, <1>3 DEF ReplaysTo

LEMMA ReplayedNext ==
    ASSUME Shape, Replayed, [Next]_vars
    PROVE  Replayed'
<1>1. CASE Substitution \/ FormationChange \/ RedCard \/ PlayerOff \/ PlayerOn
  <2>1. ~loaded /\ loaded' = loaded /\ seen' = seen
    BY <1>1, MatchEvents DEF Emit
  <2> QED BY <2>1 DEF Replayed
<1>2. CASE Load
  <2>1. Construct(DOMAIN events) /\ loaded' /\ EventsOrdered /\ DOMAIN events \in SUBSET DOMAIN events
        /\ events' = events /\ seen' = <<>>
    BY <1>2 DEF Load, Shape, Construct, Replayed
  <2>2. Len(records') = Cardinality(DOMAIN events)
    BY <2>1, ConstructKeeps
  <2>3. Cardinality(DOMAIN events) = Len(events)
    <3>1. DOMAIN events = 1..Len(events) /\ Len(events) \in Nat
      BY DEF Shape, EventsOrdered
    <3>2. PICK n \in Nat : n = Len(events)
      BY <3>1
    <3>3. Cardinality(1..n) = n
      BY FS_Interval
    <3> QED BY <3>1, <3>2, <3>3
  <2> QED BY <2>1, <2>2, <2>3, ReplayStart DEF Replayed
<1>3. CASE Derive
  <2>1. PICK S \in SUBSET DOMAIN events : Construct(S) /\ loaded' /\ loaded /\ Ready
            /\ seen' = IF seen = <<>> THEN <<positions, formations>> ELSE seen
    BY <1>3 DEF Derive, Ready
  <2>2. events' = events
    BY <2>1 DEF Construct
  <2>3. seen' # <<>>
    BY <2>1
  <2>4. \E pos, form : seen' = <<pos, form>> /\ ReplaysTo(events, Len(events), pos, form)
    <3>1. CASE seen = <<>>
      <4>1. ReplaysTo(events, Len(events), positions, formations)
        BY <2>1, <3>1, ReplayOfAll DEF Replayed
      <4> QED BY <2>1, <3>1, <4>1
    <3>2. CASE seen # <<>>
      BY <2>1, <3>2 DEF Replayed
    <3> QED BY <3>1, <3>2
  <2> QED BY <2>1, <2>2, <2>3, <2>4, ReplayStart DEF Replayed
<1>4. CASE Update
  <2>1. UNCHANGED <<events, loaded, records, seen>> /\ loaded
    BY <1>4, UpdateReads
  <2> QED BY <1>4, <2>1, ReplayUpdate DEF Replayed
<1>5. CASE UNCHANGED vars
  <2>1. UNCHANGED <<events, loaded, records, done, positions, formations, seen>> /\ Evs' = Evs
    BY <1>5 DEF vars, Evs
  <2> QED BY <2>1 DEF Replayed
<1> QED BY <1>1, <1>2, <1>3, <1>4, <1>5 DEF Next

\* However datasets are derived in between, building one over all the events
\* gives positions and formations what the loaded dataset showed: the
\* containers are emptied first, and filling them depends on the events alone.
\* (Dataset.__post_init__, _init_player_positions)
THEOREM RebuildingIsSame == Spec => []RebuildSame
<1>1. Init => Shape /\ Replayed
  <2>1. Init => Replayed
    BY DEF Init, Replayed
  <2> QED BY <2>1, ShapeInit
<1>2. Shape /\ Replayed /\ [Next]_vars => Shape' /\ Replayed'
  BY ShapeNext, ReplayedNext
<1>3. Shape /\ Replayed => RebuildSame
  <2> SUFFICES ASSUME Shape, Replayed, Ready, seen # <<>>, Len(records) = Len(events)
               PROVE  seen = <<positions, formations>>
    BY DEF RebuildSame
  <2>1. PICK P, F : /\ Replay(P, F, events, Len(events))
                    /\ P[Len(events)] = positions /\ F[Len(events)] = formations
    BY ReplayOfAll DEF ReplaysTo
  <2>2. PICK Q, G : /\ Replay(Q, G, events, Len(events))
                    /\ seen = <<Q[Len(events)], G[Len(events)]>>
    BY DEF Replayed, ReplaysTo
  <2>3. Len(events) \in Nat
    BY DEF Shape, EventsOrdered
  <2>4. P[Len(events)] = Q[Len(events)] /\ F[Len(events)] = G[Len(events)]
    BY <2>1, <2>2, <2>3, ReplayUnique
  <2> QED BY <2>1, <2>2, <2>4
<1> QED BY <1>1, <1>2, <1>3, PTL DEF Spec

----------------------------------------------------------------------------
\* The formation over time.

\* The formation after an event, as the state builder computes it.
FormationAfter(team, current, e) ==
    IF e.type = "formation_change" /\ e.team = team THEN e.formation_type ELSE current

\* The state builder formation is the fold of FormationAfter over the events.
LEMMA FormationEquation ==
    ASSUME NEW n \in Nat, NEW evs, Len(evs) = n, NEW team
    PROVE  /\ Formation(evs, team)[0] = StartingFormation[team]
           /\ \A k \in 1..n :
                  Formation(evs, team)[k] = FormationAfter(team, Formation(evs, team)[k-1], evs[k])
<1> DEFINE A == {StartingFormation[team]} \cup {evs[k].formation_type : k \in 1..n}
           step == [k \in 1..n |-> [x \in A |-> FormationAfter(team, x, evs[k])]]
           Solves(f) == f = [k \in 0..n |-> IF k = 0 THEN StartingFormation[team]
                                            ELSE IF evs[k].type = "formation_change" /\ evs[k].team = team
                                                 THEN evs[k].formation_type ELSE f[k-1]]
<1>1. step \in [1..n -> [A -> A]] /\ StartingFormation[team] \in A
  BY DEF FormationAfter
<1>2. PICK f \in [0..n -> A] : IsRecursive(f, n, StartingFormation[team], step)
  <2> HIDE DEF A, step
  <2> QED BY <1>1, RecursionExists
<1>3. Solves(f)
  <2>1. ASSUME NEW k \in 1..n PROVE f[k] = FormationAfter(team, f[k-1], evs[k])
    <3>1. k - 1 \in 0..n
      OBVIOUS
    <3> HIDE DEF A
    <3>2. \A x \in A : step[k][x] = FormationAfter(team, x, evs[k])
      OBVIOUS
    <3>3. f[k-1] \in A /\ f[k] = step[k][f[k-1]]
      BY <1>2, <3>1 DEF IsRecursive
    <3> HIDE DEF step
    <3> QED BY <3>2, <3>3
  <2>2. \A k \in 0..n : k = 0 \/ k \in 1..n
    OBVIOUS
  <2> HIDE DEF A, step
  <2> QED BY <1>2, <2>1, <2>2 DEF FormationAfter, IsRecursive
<1>4. Formation(evs, team) = CHOOSE g : Solves(g)
  BY DEF Formation
<1>5. Solves(Formation(evs, team))
  <2> HIDE DEF Solves
  <2> QED BY <1>3, <1>4
<1>6. 0 \in 0..n /\ \A k \in 1..n : k \in 0..n /\ k # 0
  OBVIOUS
<1> HIDE DEF A, step
<1> QED BY <1>5, <1>6 DEF FormationAfter

\* The formations after the first done events date from those events.
FormationsDated ==
    \A team \in Teams : \A u \in DOMAIN formations[team] :
        /\ \E k \in 1..done : u = Evs[k].time
        /\ formations[team][u] \in FormationTypes

\* Of the first n events those up to time t are the first c.
UpTo(c, t, n) ==
    /\ \A k \in 1..c : NotAfter(Evs[k].time, t)
    /\ \A k \in 1..n : k > c => Before(t, Evs[k].time)

LEMMA EvsIs ==
    ASSUME Shape
    PROVE  /\ Len(Evs) = Len(records) /\ Len(records) \in Nat
           /\ \A j, k \in 1..Len(records) : j <= k => NotAfter(Evs[j].time, Evs[k].time)
<1>1. Len(records) \in Nat /\ DOMAIN records = 1..Len(records)
  BY DEF Shape, RecordsOrdered
<1>2. PICK n \in Nat : n = Len(records)
  BY <1>1
<1>3. Len(Evs) = n
  <2>1. Evs = [k \in 1..n |-> events[records[k]]]
    BY <1>1, <1>2 DEF Evs
  <2> QED BY <2>1
<1>4. ASSUME NEW j \in 1..Len(records), NEW k \in 1..Len(records), j <= k
      PROVE  NotAfter(Evs[j].time, Evs[k].time)
  <2>1. Evs[j] = events[records[j]] /\ Evs[k] = events[records[k]]
        /\ records[j] \in DOMAIN events /\ records[k] \in DOMAIN events /\ Evs[j].time \in Time
    BY RecordTyped, MomentsAreTimes
  <2>2. CASE j < k
    <3>1. records[j] < records[k]
      BY <1>1, <2>2 DEF Shape, RecordsOrdered
    <3> QED BY <2>1, <3>1 DEF Shape, EventsOrdered
  <2>3. CASE j = k
    BY <2>1, <2>3, TimesOrdered DEF NotAfter
  <2> QED BY <1>2, <1>4, <2>2, <2>3
<1> QED BY <1>1, <1>2, <1>3, <1>4

\* After the last item, a container shows that item.
LEMMA ValueAtLast ==
    ASSUME NEW c, IsTimeContainer(c), c # Empty, NEW t \in Time,
           NotAfter(LastTime(c), t)
    PROVE  ValueAt(c, t) = LastItem(c)
<1>1. LastTime(c) \in DOMAIN c /\ \A u \in DOMAIN c : NotAfter(u, LastTime(c))
  BY LastIsLast
<1> QED BY <1>1, ValueAtIs DEF LastItem

\* From its time on, an item put last is shown.
LEMMA PutShows ==
    ASSUME NEW c, IsTimeContainer(c), NEW u \in Moments, NEW item, NEW t \in Time,
           NotAfter(u, t), \A w \in DOMAIN c : NotAfter(w, u)
    PROVE  ValueAt(Put(c, u, item), t) = item
<1>1. u \in DOMAIN Put(c, u, item) /\ Put(c, u, item)[u] = item
      /\ \A w \in DOMAIN Put(c, u, item) : w = u \/ w \in DOMAIN c
  BY DEF Put
<1>2. IsTimeContainer(Put(c, u, item)) /\ u \in Time
  BY PutKeeps, MomentsAreTimes
<1>3. NotAfter(u, u)
  BY <1>2, TimesOrdered DEF NotAfter
<1> HIDE DEF IsTimeContainer
<1> QED BY <1>1, <1>2, <1>3, ValueAtIs

LEMMA StartFirst ==
    ASSUME NEW t \in Time
    PROVE  NotAfter(StartOfMatch, t)
<1>1. t.period \in 1..NumPeriods /\ t.timestamp \in Nat
  BY TimeTyped DEF Period
<1> QED BY <1>1, ClockAssumption DEF NotAfter, Before, StartOfMatch, At

\* The times of the first done events are up to the time of the next one.
LEMMA NextIsLast ==
    ASSUME Shape, done + 1 \in 1..Len(records), NEW t \in Time, NotAfter(Evs[done + 1].time, t)
    PROVE  /\ \A k \in 1..done : /\ NotAfter(Evs[k].time, Evs[done + 1].time)
                                 /\ NotAfter(Evs[k].time, t)
           /\ \A c \in 0..(done + 1) : UpTo(c, t, done + 1) => c = done + 1
           /\ UpTo(done, t, done)
<1>1. done \in Nat /\ Len(records) \in Nat /\ \A k \in 1..done : k \in 1..Len(records) /\ k <= done + 1
  BY EvsIs DEF Shape, RecordsOrdered
<1>2. \A k \in 1..Len(records) : Evs[k].time \in Time
  <2>1. ASSUME NEW k \in 1..Len(records) PROVE Evs[k].time \in Time
    BY RecordTyped, MomentsAreTimes
  <2> QED BY <2>1
<1>3. \A k \in 1..done : NotAfter(Evs[k].time, Evs[done + 1].time)
  BY <1>1, EvsIs
<1>4. \A k \in 1..done : NotAfter(Evs[k].time, t)
  BY <1>1, <1>2, <1>3, TimesOrdered
<1>5. ASSUME NEW c \in 0..(done + 1), UpTo(c, t, done + 1), c # done + 1 PROVE FALSE
  <2>1. done + 1 \in 1..(done + 1) /\ done + 1 > c
    BY <1>1, <1>5
  <2> QED BY <1>5, <2>1 DEF UpTo, NotAfter
<1>6. UpTo(done, t, done)
  <2>1. \A k \in 1..done : ~(k > done)
    BY <1>1
  <2> QED BY <1>4, <2>1 DEF UpTo
<1> QED BY <1>3, <1>4, <1>5, <1>6

LEMMA NextIsLater ==
    ASSUME Shape, done + 1 \in 1..Len(records), NEW t \in Time, ~NotAfter(Evs[done + 1].time, t)
    PROVE  \A c \in 0..(done + 1) : UpTo(c, t, done + 1) => c \in 0..done /\ UpTo(c, t, done)
<1>1. done \in Nat
  BY DEF Shape, RecordsOrdered
<1>2. ASSUME NEW c \in 0..(done + 1), UpTo(c, t, done + 1)
      PROVE  c \in 0..done /\ UpTo(c, t, done)
  <2>1. c # done + 1
    BY <1>1, <1>2 DEF UpTo
  <2>2. \A k \in 1..done : k \in 1..(done + 1)
    BY <1>1
  <2> QED BY <1>1, <1>2, <2>1, <2>2 DEF UpTo
<1> QED BY <1>2

\* The formation team.formations shows at a time.
ShownFormation(team, t) ==
    LET item == ValueAt(formations[team], t)
    IN  IF item = NotFound THEN StartingFormation[team] ELSE item

\* After the first done events, what team.formations shows at any time is the
\* formation of the state builder after the events up to that time.
FormationsTell ==
    loaded => \A team \in Teams, t \in Time : \A c \in 0..done :
                  UpTo(c, t, done) => ShownFormation(team, t) = Formation(Evs, team)[c]

\* At a time after all its items a team shows its last formation.
LEMMA ShownLast ==
    ASSUME Shape, FormationsDated, NEW team \in Teams, NEW t \in Time,
           \A k \in 1..done : NotAfter(Evs[k].time, t)
    PROVE  ShownFormation(team, t) = IF formations[team] # Empty THEN LastItem(formations[team])
                                     ELSE StartingFormation[team]
<1>1. IsTimeContainer(formations[team])
  BY DEF Shape, ContainersKept
<1>2. CASE formations[team] = Empty
  <2>1. ValueAt(formations[team], t) = NotFound
    BY <1>2, EmptyIs, ValueAtNone
  <2> QED BY <1>2, <2>1 DEF ShownFormation
<1>3. CASE formations[team] # Empty
  <2>1. LastTime(formations[team]) \in DOMAIN formations[team]
    BY <1>1, <1>3, LastIsLast
  <2>2. NotAfter(LastTime(formations[team]), t)
    BY <2>1 DEF FormationsDated
  <2>3. ValueAt(formations[team], t) = LastItem(formations[team])
    BY <1>1, <1>3, <2>2, ValueAtLast
  <2>4. LastItem(formations[team]) \in FormationTypes
    BY <2>1 DEF FormationsDated, LastItem
  <2> QED BY <1>3, <2>3, <2>4, PositionsAssumption DEF ShownFormation
<1> QED BY <1>2, <1>3

LEMMA FormationsDatedNext ==
    ASSUME Shape, FormationsDated, [Next]_vars
    PROVE  FormationsDated'
<1>1. CASE Substitution \/ FormationChange \/ RedCard \/ PlayerOff \/ PlayerOn
  <2>1. ~loaded /\ UNCHANGED <<records, done, formations>>
    BY <1>1, MatchEvents DEF Emit
  <2>2. done = 0 /\ done' = 0 /\ 1..0 = {}
    BY <2>1 DEF Shape, RecordsOrdered
  <2> QED BY <2>1, <2>2 DEF FormationsDated
<1>2. CASE Load \/ Derive
  <2>1. formations' = [team \in Teams |-> Empty]
    BY <1>2 DEF Load, Derive, Construct, ResetFormations
  <2> QED BY <2>1, EmptyIs DEF FormationsDated
<1>3. CASE Update
  <2>1. /\ done + 1 \in 1..Len(records) /\ done' = done + 1 /\ done \in Nat
        /\ EventOk(Evs[done + 1]) /\ UpdateWith(Evs[done + 1]) /\ Evs' = Evs
    BY <1>3, UpdateReads
  <2>2. PICK e : e = Evs[done + 1]
    OBVIOUS
  <2>3. DOMAIN formations = Teams
    BY DEF Shape, ContainersKept
  <2>4. ASSUME NEW team \in Teams, NEW u \in DOMAIN formations'[team]
        PROVE  (\E k \in 1..(done + 1) : u = Evs[k].time) /\ formations'[team][u] \in FormationTypes
    <3>1. CASE formations'[team] = formations[team]
      <4>1. \A k \in 1..done : k \in 1..(done + 1)
        BY <2>1
      <4> QED BY <2>4, <3>1, <4>1 DEF FormationsDated
    <3>2. CASE formations'[team] # formations[team]
      <4>1. /\ e.type = "formation_change" /\ e.team = team
            /\ formations' = NewFormation(formations, e)
        BY <2>1, <2>2, <2>3, <3>2 DEF UpdateWith, NewFormation
      <4>2. formations'[team] = Put(formations[team], e.time, e.formation_type)
        BY <2>3, <3>2, <4>1 DEF NewFormation
      <4>3. e.formation_type \in FormationTypes
        BY <2>1, <2>2, <4>1 DEF EventOk
      <4>4. u \in DOMAIN formations[team] \/ u = e.time
        BY <2>4, <4>2 DEF Put
      <4>5. formations'[team][u] = IF u = e.time THEN e.formation_type ELSE formations[team][u]
        BY <2>4, <4>2, <4>4 DEF Put
      <4>6. CASE u = e.time
        <5>1. done + 1 \in 1..(done + 1)
          BY <2>1
        <5> QED BY <2>2, <4>3, <4>5, <4>6, <5>1
      <4>7. CASE u # e.time
        <5>1. \A k \in 1..done : k \in 1..(done + 1)
          BY <2>1
        <5> QED BY <4>4, <4>5, <4>7, <5>1 DEF FormationsDated
      <4> QED BY <4>6, <4>7
    <3> QED BY <3>1, <3>2
  <2> QED BY <2>1, <2>4 DEF FormationsDated
<1>4. CASE UNCHANGED vars
  <2>1. UNCHANGED <<events, records, done, formations>> /\ Evs' = Evs
    BY <1>4 DEF vars, Evs
  <2> QED BY <2>1 DEF FormationsDated
<1> QED BY <1>1, <1>2, <1>3, <1>4 DEF Next

\* One record further the formations still tell what the state builder does.
LEMMA FormationsTellUpdate ==
    ASSUME Shape, FormationsDated, FormationsTell, Update
    PROVE  FormationsTell'
<1>1. /\ done + 1 \in 1..Len(records) /\ done' = done + 1 /\ done \in Nat /\ Evs' = Evs
      /\ EventOk(Evs[done + 1]) /\ UpdateWith(Evs[done + 1]) /\ loaded
  BY UpdateReads
<1>2. PICK e : e = Evs[done + 1]
  OBVIOUS
<1>3. e.time \in EventTimes /\ e.time \in Moments /\ e.time \in Time
  BY <1>1, <1>2, PositionsAssumption DEF EventOk, Moments
<1>4. ASSUME NEW team \in Teams, NEW t \in Time, NEW c \in 0..(done + 1), UpTo(c, t, done + 1)
      PROVE  ShownFormation(team, t)' = Formation(Evs, team)[c]
  <2>1. IsTimeContainer(formations[team]) /\ DOMAIN formations = Teams
    BY DEF Shape, ContainersKept
  <2>2. \/ formations'[team] = formations[team]
        \/ formations'[team] = Put(formations[team], e.time, e.formation_type)
    BY <1>1, <1>2, <2>1 DEF UpdateWith, NewFormation
  <2>3. CASE ~NotAfter(e.time, t)
    <3>1. c \in 0..done /\ UpTo(c, t, done)
      BY <1>1, <1>2, <1>4, <2>3, NextIsLater
    <3>2. ValueAt(formations'[team], t) = ValueAt(formations[team], t)
      BY <1>3, <2>1, <2>2, <2>3, PutKeeps DEF NotAfter
    <3> QED BY <1>1, <3>1, <3>2 DEF FormationsTell, ShownFormation
  <2>4. CASE NotAfter(e.time, t)
    <3>1. /\ c = done + 1 /\ UpTo(done, t, done)
          /\ \A k \in 1..done : NotAfter(Evs[k].time, e.time) /\ NotAfter(Evs[k].time, t)
      BY <1>1, <1>2, <1>4, <2>4, NextIsLast
    <3> DEFINE before == Formation(Evs, team)[done]
               last   == IF formations[team] # Empty THEN LastItem(formations[team])
                         ELSE StartingFormation[team]
    <3>2. last = before
      <4>1. done \in 0..done
        BY <1>1
      <4>2. ShownFormation(team, t) = last
        BY <3>1, ShownLast
      <4> QED BY <1>1, <3>1, <4>1, <4>2 DEF FormationsTell
    <3>3. Formation(Evs, team)[c] = FormationAfter(team, before, e)
      <4>1. PICK n \in Nat : n = Len(records) /\ Len(Evs) = n
        BY EvsIs
      <4>2. done + 1 \in 1..n /\ (done + 1) - 1 = done
        BY <1>1, <4>1
      <4> QED BY <1>2, <3>1, <4>1, <4>2, FormationEquation
    <3>4. CASE e.type = "formation_change" /\ e.team = team /\ e.formation_type # last
      <4>1. formations'[team] = Put(formations[team], e.time, e.formation_type)
        BY <1>1, <1>2, <2>1, <3>4 DEF UpdateWith, NewFormation
      <4>2. \A w \in DOMAIN formations[team] : NotAfter(w, e.time)
        BY <3>1 DEF FormationsDated
      <4>3. ValueAt(formations'[team], t) = e.formation_type
        BY <1>3, <2>1, <2>4, <4>1, <4>2, PutShows
      <4>4. e.formation_type # NotFound
        BY <1>1, <1>2, <3>4, PositionsAssumption DEF EventOk
      <4> QED BY <3>3, <3>4, <4>3, <4>4 DEF ShownFormation, FormationAfter
    <3>5. CASE ~(e.type = "formation_change" /\ e.team = team /\ e.formation_type # last)
      <4>1. formations'[team] = formations[team]
        BY <1>1, <1>2, <2>1, <3>5 DEF UpdateWith, NewFormation
      <4>2. FormationAfter(team, before, e) = last
        BY <3>2, <3>5 DEF FormationAfter
      <4>3. ShownFormation(team, t) = last
        BY <3>1, ShownLast
      <4>4. ShownFormation(team, t)' = ShownFormation(team, t)
        BY <4>1 DEF ShownFormation
      <4> QED BY <3>3, <4>2, <4>3, <4>4
    <3> QED BY <3>4, <3>5
  <2> QED BY <2>3, <2>4
<1>5. ASSUME NEW team \in Teams, NEW t \in Time, NEW c \in 0..done', UpTo(c, t, done)'
      PROVE  ShownFormation(team, t)' = Formation(Evs', team)[c]
  <2>1. c \in 0..(done + 1) /\ UpTo(c, t, done + 1)
    BY <1>1, <1>5 DEF UpTo
  <2> QED BY <1>1, <1>4, <2>1
<1> QED BY <1>5 DEF FormationsTell

LEMMA FormationsTellNext ==
    ASSUME Shape, FormationsDated, FormationsTell, [Next]_vars
    PROVE  FormationsTell'
<1>1. CASE Substitution \/ FormationChange \/ RedCard \/ PlayerOff \/ PlayerOn
  <2>1. ~loaded /\ loaded' = loaded
    BY <1>1, MatchEvents DEF Emit
  <2> QED BY <2>1 DEF FormationsTell
<1>2. CASE Load \/ Derive
  <2>1. Shape' /\ done' = 0 /\ formations' = [team \in Teams |-> Empty]
    BY <1>2, ShapeNext DEF Load, Derive, Construct, ResetFormations
  <2>2. PICK evs, n : evs = Evs' /\ n \in Nat /\ Len(evs) = n
    <3>1. PICK n \in Nat : n = Len(records') /\ DOMAIN records' = 1..n
      BY <2>1 DEF Shape, RecordsOrdered
    <3>2. Evs' = [k \in 1..n |-> events'[records'[k]]]
      BY <3>1 DEF Evs
    <3>3. Len(Evs') = n
      BY <3>2
    <3> QED BY <3>3
  <2>3. ASSUME NEW team \in Teams, NEW t \in Time
        PROVE  ShownFormation(team, t)' = Formation(evs, team)[0]
    <3>1. ValueAt(formations'[team], t) = NotFound
      BY <2>1, EmptyIs, ValueAtNone
    <3>2. Formation(evs, team)[0] = StartingFormation[team]
      BY <2>2, FormationEquation
    <3> QED BY <3>1, <3>2 DEF ShownFormation
  <2>4. 0..0 = {0}
    OBVIOUS
  <2> QED BY <2>1, <2>2, <2>3, <2>4 DEF FormationsTell
<1>3. CASE Update
  BY <1>3, FormationsTellUpdate
<1>4. CASE UNCHANGED vars
  <2>1. UNCHANGED <<events, loaded, records, done, formations>> /\ Evs' = Evs
    BY <1>4 DEF vars, Evs
  <2> QED BY <2>1 DEF FormationsTell, ShownFormation, UpTo
<1> QED BY <1>1, <1>2, <1>3, <1>4 DEF Next

\* The events up to a time are the first ones of the dataset.
LEMMA CountUntilIs ==
    ASSUME Shape, NEW t \in Time
    PROVE  CountUntil(t) \in 0..Len(records) /\ UpTo(CountUntil(t), t, Len(records))
<1>1. PICK n \in Nat : n = Len(records) /\ DOMAIN records = 1..n
  BY DEF Shape, RecordsOrdered
<1>2. PICK S : S = {k \in 1..n : NotAfter(Evs[k].time, t)} /\ CountUntil(t) = Cardinality(S)
  BY <1>1 DEF CountUntil
<1>3. \A k \in 1..n : Evs[k].time \in Time
  <2>1. ASSUME NEW k \in 1..n PROVE Evs[k].time \in Time
    BY <1>1, RecordTyped, MomentsAreTimes
  <2> QED BY <2>1
<1>4. S \in SUBSET (1..n) /\ \A k \in S : \A j \in 1..n : j < k => j \in S
  <2>1. ASSUME NEW k \in S, NEW j \in 1..n, j < k PROVE j \in S
    <3>1. k \in 1..n /\ NotAfter(Evs[k].time, t) /\ NotAfter(Evs[j].time, Evs[k].time)
      BY <1>1, <1>2, <2>1, EvsIs
    <3> QED BY <1>2, <1>3, <3>1, TimesOrdered
  <2> QED BY <1>2, <2>1
<1>5. PICK c \in 0..n : c = Cardinality(S) /\ S = 1..c
  BY <1>4, PrefixIsInterval
<1>6. \A k \in 1..n : k > c => Before(t, Evs[k].time)
  BY <1>2, <1>5 DEF NotAfter
<1>7. \A k \in 1..c : NotAfter(Evs[k].time, t)
  BY <1>2, <1>5
<1> QED BY <1>1, <1>2, <1>5, <1>6, <1>7 DEF UpTo

\* Two parts of the code keep a team's formation: Team.formations by time and
\* the state builder formation event by event.  For whichever events a dataset
\* holds they agree at every time: a change to the current formation, which
\* adds no item, is no change for the other either.
\* (_update_formations_and_positions, FormationStateBuilder)
THEOREM FormationsAgree == Spec => []FormationAgree
<1>1. Init => Shape /\ FormationsDated /\ FormationsTell
  <2>1. Init => FormationsDated /\ FormationsTell
    BY EmptyIs DEF Init, FormationsDated, FormationsTell
  <2> QED BY <2>1, ShapeInit
<1>2. Shape /\ FormationsDated /\ FormationsTell /\ [Next]_vars =>
          Shape' /\ FormationsDated' /\ FormationsTell'
  BY ShapeNext, FormationsDatedNext, FormationsTellNext
<1>3. Shape /\ FormationsTell => FormationAgree
  <2> SUFFICES ASSUME Shape, FormationsTell, Ready, NEW t \in EventTimes, NEW team \in Teams
               PROVE  ShownFormation(team, t) = Formation(Evs, team)[CountUntil(t)]
    BY DEF FormationAgree, ShownFormation
  <2>1. t \in Time
    BY PositionsAssumption
  <2>2. CountUntil(t) \in 0..done /\ UpTo(CountUntil(t), t, done)
    BY <2>1, CountUntilIs DEF Ready
  <2> QED BY <2>1, <2>2 DEF FormationsTell, Ready
<1> QED BY <1>1, <1>2, <1>3, PTL DEF Spec

----------------------------------------------------------------------------
\* The lineup, and what the rules of a match say of it.

\* The state builder lineup is the fold of LineupAfter over the events.
LEMMA LineupEquation ==
    ASSUME NEW n \in Nat, NEW evs, Len(evs) = n
    PROVE  /\ Lineup(evs)[0] = Starters
           /\ \A k \in 1..n : Lineup(evs)[k] = LineupAfter(Lineup(evs)[k-1], evs[k])
<1> DEFINE All == Starters \cup {evs[k].player : k \in 1..n}
                           \cup {evs[k].replacement_player : k \in 1..n}
           A == SUBSET All
           step == [k \in 1..n |-> [x \in A |-> LineupAfter(x, evs[k])]]
           Solves(f) == f = [k \in 0..n |-> IF k = 0 THEN Starters
                                            ELSE LineupAfter(f[k-1], evs[k])]
<1>1. step \in [1..n -> [A -> A]] /\ Starters \in A
  <2>1. ASSUME NEW k \in 1..n, NEW x \in A PROVE LineupAfter(x, evs[k]) \in A
    <3>1. evs[k].player \in All /\ evs[k].replacement_player \in All
      OBVIOUS
    <3> HIDE DEF All
    <3> QED BY <3>1 DEF LineupAfter
  <2> HIDE DEF A
  <2>2. step \in [1..n -> [A -> A]]
    BY <2>1
  <2>3. Starters \in A
    BY DEF A
  <2> QED BY <2>2, <2>3
<1>2. PICK f \in [0..n -> A] : IsRecursive(f, n, Starters, step)
  <2> HIDE DEF A, step
  <2> QED BY <1>1, RecursionExists
<1>3. Solves(f)
  <2> HIDE DEF A
  <2>1. ASSUME NEW k \in 1..n PROVE f[k] = LineupAfter(f[k-1], evs[k])
    <3>1. k - 1 \in 0..n
      OBVIOUS
    <3>2. \A x \in A : step[k][x] = LineupAfter(x, evs[k])
      OBVIOUS
    <3>3. f[k-1] \in A /\ f[k] = step[k][f[k-1]]
      BY <1>2, <3>1 DEF IsRecursive
    <3> HIDE DEF step
    <3> QED BY <3>2, <3>3
  <2>2. \A k \in 0..n : k = 0 \/ k \in 1..n
    OBVIOUS
  <2> HIDE DEF step
  <2> QED BY <1>2, <2>1, <2>2 DEF IsRecursive
<1>4. Lineup(evs) = CHOOSE g : Solves(g)
  BY DEF Lineup
<1>5. Solves(Lineup(evs))
  <2> HIDE DEF Solves
  <2> QED BY <1>3, <1>4
<1>6. 0 \in 0..n /\ \A k \in 1..n : k \in 0..n /\ k # 0
  OBVIOUS
<1> HIDE DEF All, A, step
<1> QED BY <1>5, <1>6

\* The lineup after an event depends on no later event.
LEMMA LineupPrefix ==
    ASSUME NEW n \in Nat, NEW m \in Nat, NEW evs, NEW more, Len(evs) = n, Len(more) = m, n <= m,
           \A k \in 1..n : more[k] = evs[k]
    PROVE  Lineup(more)[n] = Lineup(evs)[n]
<1> DEFINE differ == {k \in 0..n : Lineup(more)[k] # Lineup(evs)[k]}
<1>1. differ \in SUBSET Nat /\ IsFiniteSet(differ)
  <2>1. IsFiniteSet(0..n)
    BY FS_Interval
  <2> QED BY <2>1, FS_Subset
<1>2. ASSUME differ # {} PROVE FALSE
  <2>1. PICK k \in differ : \A g \in differ : g >= k
    <3> HIDE DEF differ
    <3> QED BY <1>1, <1>2, LeastExists
  <2>2. k # 0
    BY <2>1, LineupEquation
  <2>3. k \in 1..n /\ k \in 1..m /\ k - 1 \in 0..n /\ ~(k - 1 >= k)
    BY <2>1, <2>2
  <2>4. Lineup(more)[k-1] = Lineup(evs)[k-1] /\ more[k] = evs[k]
    BY <2>1, <2>3
  <2>5. /\ Lineup(evs)[k] = LineupAfter(Lineup(evs)[k-1], evs[k])
        /\ Lineup(more)[k] = LineupAfter(Lineup(more)[k-1], more[k])
    BY <2>3, LineupEquation
  <2> QED BY <2>1, <2>4, <2>5
<1>3. n \in 0..n
  OBVIOUS
<1> QED BY <1>2, <1>3

IsSubstituted(e, p) == e.type = "substitution" /\ e.player = p

\* What the events of a match say of players.
PlayersOk(e) ==
    /\ e.type = "substitution" =>
           /\ e.player \in Players /\ e.replacement_player \in Players \cup {None}
           /\ e.replacement_player # e.player
           /\ e.position \in PositionTypes \cup {None}
    /\ e.type = "formation_change" =>
           \A p \in DOMAIN e.player_positions : e.player_positions[p] \in PositionTypes

\* An event of a player who has not been replaced.
Absent(e, p) ==
    /\ ~IsSubstituted(e, p)
    /\ e.type = "formation_change" => p \notin DOMAIN e.player_positions

\* A player who is replaced has been in the match and does not come back.
MatchRules ==
    /\ \A k \in DOMAIN events : PlayersOk(events[k])
    /\ \A j, k \in DOMAIN events : \A p \in Players :
           j < k /\ IsSubstituted(events[j], p) => Absent(events[k], p)
    /\ \A k \in DOMAIN events : \A p \in Players :
           IsSubstituted(events[k], p) => p \in Used /\ p \notin OnPitch
    /\ OnPitch \subseteq Used /\ Used \subseteq Players \cup {None}

\* An event that occurs is the last of the match, and the next lineup its work.
LEMMA EmitOccurs ==
    ASSUME Shape, NEW e, Emit(e)
    PROVE  /\ Len(events) \in Nat /\ DOMAIN events = 1..Len(events)
           /\ DOMAIN events' = DOMAIN events \cup {Len(events) + 1}
           /\ events'[Len(events) + 1] = e
           /\ \A k \in DOMAIN events : k < Len(events) + 1 /\ events'[k] = events[k]
           /\ OnPitch' = LineupAfter(OnPitch, e) \ {None}
           /\ Used' = Used \cup (IF e.type = "substitution" THEN {e.replacement_player} ELSE {})
<1>1. PICK S : events \in Seq(S)
  BY DEF Shape, EventsOrdered
<1>2. PICK n \in Nat : n = Len(events) /\ DOMAIN events = 1..n
  BY <1>1
<1>3. PICK more : more = Append(events, e) /\ events' = more
  BY DEF Emit
<1>4. /\ Len(more) = n + 1 /\ more[n + 1] = e /\ \A k \in 1..n : more[k] = events[k]
      /\ DOMAIN more = 1..(n + 1)
  <2>1. events \in Seq(S \cup {e}) /\ e \in S \cup {e}
    BY <1>1
  <2> QED BY <1>2, <1>3, <2>1, AppendProperties
<1>5. 1..(n + 1) = 1..n \cup {n + 1} /\ \A k \in 1..n : k < n + 1
  OBVIOUS
<1>6. OnPitch' = LineupAfter(OnPitch, e) \ {None}
  <2>1. Lineup(more)[n] = Lineup(events)[n]
    BY <1>2, <1>4, LineupPrefix
  <2>2. Lineup(more)[n + 1] = LineupAfter(Lineup(more)[n], more[n + 1])
    <3>1. n + 1 \in Nat /\ n + 1 \in 1..(n + 1) /\ (n + 1) - 1 = n
      OBVIOUS
    <3>2. \A k \in 1..(n + 1) : Lineup(more)[k] = LineupAfter(Lineup(more)[k-1], more[k])
      BY <1>4, <3>1, LineupEquation
    <3> QED BY <3>1, <3>2
  <2>3. OnPitch' = LineupAfter(Lineup(events)[n], e) \ {None}
    BY <1>3, <1>4, <2>1, <2>2 DEF OnPitch
  <2>4. \A X : LineupAfter(X \ {None}, e) \ {None} = LineupAfter(X, e) \ {None}
    BY DEF LineupAfter
  <2> QED BY <1>2, <2>3, <2>4 DEF OnPitch
<1>7. Used' = Used \cup (IF e.type = "substitution" THEN {e.replacement_player} ELSE {})
  <2>1. Used' = Starters \cup {more[k].replacement_player :
                                  k \in {j \in 1..(n + 1) : more[j].type = "substitution"}}
    BY <1>3, <1>4 DEF Used
  <2>2. Used = Starters \cup {events[k].replacement_player :
                                 k \in {j \in 1..n : events[j].type = "substitution"}}
    BY <1>2 DEF Used
  <2> QED BY <1>4, <1>5, <2>1, <2>2
<1> QED BY <1>2, <1>3, <1>4, <1>5, <1>6, <1>7

\* The rules hold of one more event of a player who has not been replaced.
LEMMA RulesKept ==
    ASSUME Shape, MatchRules, NEW e, Emit(e), PlayersOk(e),
           \A k \in DOMAIN events : \A p \in Players :
               IsSubstituted(events[k], p) => Absent(e, p) /\ p \notin OnPitch',
           \A p \in Players : IsSubstituted(e, p) => p \in Used' /\ p \notin OnPitch',
           OnPitch' \subseteq Used', Used' \subseteq Players \cup {None}
    PROVE  MatchRules'
<1>1. PICK n : /\ n \in Nat /\ DOMAIN events = 1..n
               /\ DOMAIN events' = DOMAIN events \cup {n + 1} /\ events'[n + 1] = e
               /\ \A k \in DOMAIN events : events'[k] = events[k]
               /\ Used \subseteq Used'
  BY EmitOccurs
<1>2. \A k \in DOMAIN events' : PlayersOk(events'[k])
  BY <1>1 DEF MatchRules
<1>3. ASSUME NEW j \in DOMAIN events', NEW k \in DOMAIN events', NEW p \in Players,
             j < k, IsSubstituted(events'[j], p)
      PROVE  Absent(events'[k], p)
  <2>1. j \in DOMAIN events
    BY <1>1, <1>3
  <2>2. CASE k \in DOMAIN events
    BY <1>1, <1>3, <2>1, <2>2 DEF MatchRules
  <2>3. CASE k = n + 1
    BY <1>1, <1>3, <2>1, <2>3
  <2> QED BY <1>1, <2>2, <2>3
<1>4. ASSUME NEW k \in DOMAIN events', NEW p \in Players, IsSubstituted(events'[k], p)
      PROVE  p \in Used' /\ p \notin OnPitch'
  <2>1. CASE k \in DOMAIN events
    BY <1>1, <1>4, <2>1 DEF MatchRules
  <2>2. CASE k = n + 1
    BY <1>1, <1>4, <2>2
  <2> QED BY <1>1, <2>1, <2>2
<1> QED BY <1>2, <1>3, <1>4 DEF MatchRules

\* A player who has been replaced is not one who is away.
LEMMA PlayersHere ==
    ASSUME MatchRules, NEW p \in OnPitch \cup Away
    PROVE  /\ p \in Players /\ p \in Used
           /\ \A k \in DOMAIN events : ~IsSubstituted(events[k], p)
<1>1. p \in Used /\ p # None
  BY DEF MatchRules, Away, OnPitch
<1>2. p \in Players
  BY <1>1 DEF MatchRules
<1>3. ASSUME NEW k \in DOMAIN events, IsSubstituted(events[k], p) PROVE FALSE
  <2>1. p \notin OnPitch
    BY <1>2, <1>3 DEF MatchRules
  <2> QED BY <1>3, <2>1 DEF Away, IsSubstituted
<1> QED BY <1>1, <1>2, <1>3

LEMMA RulesOfMatch ==
    ASSUME Shape, MatchRules, Substitution \/ FormationChange \/ RedCard \/ PlayerOff \/ PlayerOn
    PROVE  MatchRules'
<1>1. /\ \A k \in DOMAIN events : \A p \in Players :
             IsSubstituted(events[k], p) => p \in Used /\ p \notin OnPitch
      /\ OnPitch \subseteq Used /\ Used \subseteq Players \cup {None} /\ None \notin OnPitch
  BY DEF MatchRules, OnPitch
<1>2. CASE Substitution
  <2>1. PICK p, r, pos, t :
            /\ p \in OnPitch \cup Away /\ r \in Players \cup {None} /\ pos \in GivenPositions
            /\ r # None => r \notin Used
            /\ Emit([type |-> "substitution", time |-> t, player |-> p,
                     replacement_player |-> r, position |-> pos])
    BY <1>2 DEF Substitution
  <2>2. PICK e : e = [type |-> "substitution", time |-> t, player |-> p,
                      replacement_player |-> r, position |-> pos]
    OBVIOUS
  <2>3. /\ e.type = "substitution" /\ e.player = p /\ e.replacement_player = r
        /\ e.position = pos /\ Emit(e)
    BY <2>1, <2>2
  <2>4. p \in Players /\ p \in Used /\ \A k \in DOMAIN events : ~IsSubstituted(events[k], p)
    BY <2>1, PlayersHere
  <2>5. p # r /\ p # None
    BY <2>1, <2>4, PositionsAssumption
  <2>6. Used' = Used \cup {r} /\ OnPitch' = ((OnPitch \ {p}) \cup {r}) \ {None}
    BY <2>3, EmitOccurs DEF LineupAfter
  <2>7. PlayersOk(e)
    BY <2>1, <2>3, <2>4, <2>5, PositionsAssumption DEF PlayersOk
  <2>8. \A k \in DOMAIN events : \A q \in Players :
            IsSubstituted(events[k], q) => Absent(e, q) /\ q \notin OnPitch'
    BY <1>1, <2>1, <2>3, <2>4, <2>6 DEF Absent, IsSubstituted
  <2>9. \A q \in Players : IsSubstituted(e, q) => q \in Used' /\ q \notin OnPitch'
    BY <2>3, <2>4, <2>5, <2>6 DEF IsSubstituted
  <2>10. OnPitch' \subseteq Used' /\ Used' \subseteq Players \cup {None}
    BY <1>1, <2>1, <2>6
  <2> QED BY <2>3, <2>7, <2>8, <2>9, <2>10, RulesKept
<1>3. CASE FormationChange
  <2>1. PICK team, f, t, P, pos :
            /\ P = {} \/ P \subseteq OnPitch
            /\ pos \in [P -> PositionTypes \ {Unknown}]
            /\ Emit([type |-> "formation_change", time |-> t, team |-> team,
                     formation_type |-> f, player_positions |-> pos])
    <3>1. PICK team \in Teams, f \in FormationTypes, t \in EventTimes :
              \E P \in {{}, {p \in OnPitch : TeamOf[p] = team}} :
                  \E pos \in [P -> PositionTypes \ {Unknown}] :
                      Emit([type |-> "formation_change", time |-> t, team |-> team,
                            formation_type |-> f, player_positions |-> pos])
      BY <1>3 DEF FormationChange
    <3>2. PICK P \in {{}, {p \in OnPitch : TeamOf[p] = team}} :
                  \E pos \in [P -> PositionTypes \ {Unknown}] :
                      Emit([type |-> "formation_change", time |-> t, team |-> team,
                            formation_type |-> f, player_positions |-> pos])
      BY <3>1
    <3>3. P = {} \/ P \subseteq OnPitch
      BY <3>2
    <3> QED BY <3>2, <3>3
  <2>2. PICK e : e = [type |-> "formation_change", time |-> t, team |-> team,
                      formation_type |-> f, player_positions |-> pos]
    OBVIOUS
  <2>3. e.type = "formation_change" /\ e.player_positions = pos /\ DOMAIN pos = P /\ Emit(e)
    BY <2>1, <2>2
  <2>4. Used' = Used /\ OnPitch' = OnPitch
    BY <1>1, <2>3, EmitOccurs DEF LineupAfter
  <2>5. PlayersOk(e)
    BY <2>1, <2>3 DEF PlayersOk
  <2>6. \A k \in DOMAIN events : \A q \in Players :
            IsSubstituted(events[k], q) => Absent(e, q) /\ q \notin OnPitch'
    BY <1>1, <2>1, <2>3, <2>4 DEF Absent, IsSubstituted
  <2>7. \A q \in Players : IsSubstituted(e, q) => q \in Used' /\ q \notin OnPitch'
    BY <2>3 DEF IsSubstituted
  <2> QED BY <1>1, <2>3, <2>4, <2>5, <2>6, <2>7, RulesKept
<1>4. CASE RedCard \/ PlayerOff \/ PlayerOn
  <2>1. PICK p, t, type : /\ \/ type = "red_card" \/ type = "player_off"
                             \/ type = "player_on" /\ p \in Away
                          /\ Emit([type |-> type, time |-> t, player |-> p])
    <3>1. CASE RedCard
      BY <3>1 DEF RedCard
    <3>2. CASE PlayerOff
      BY <3>2 DEF PlayerOff
    <3>3. CASE PlayerOn
      BY <3>3 DEF PlayerOn
    <3> QED BY <1>4, <3>1, <3>2, <3>3
  <2>2. PICK e : e = [type |-> type, time |-> t, player |-> p]
    OBVIOUS
  <2>3. e.type = type /\ e.player = p /\ Emit(e)
    BY <2>1, <2>2
  <2>4. Used' = Used
    BY <2>1, <2>3, EmitOccurs
  <2>5. PlayersOk(e) /\ \A q : Absent(e, q) /\ ~IsSubstituted(e, q)
    BY <2>1, <2>3 DEF PlayersOk, Absent, IsSubstituted
  <2>6. \A q \in OnPitch' : q \in OnPitch \/ (q = p /\ p \in Away)
    BY <2>1, <2>3, EmitOccurs DEF LineupAfter
  <2>7. OnPitch' \subseteq Used'
    BY <1>1, <2>4, <2>6 DEF Away
  <2>8. \A k \in DOMAIN events : \A q \in Players : IsSubstituted(events[k], q) => q \notin OnPitch'
    BY <1>1, <2>6, PlayersHere
  <2> QED BY <1>1, <2>3, <2>4, <2>5, <2>7, <2>8, RulesKept
<1> QED BY <1>2, <1>3, <1>4

LEMMA MatchRulesNext ==
    ASSUME Shape, MatchRules, [Next]_vars
    PROVE  MatchRules'
<1>1. CASE events' = events
  BY <1>1 DEF MatchRules, OnPitch, Used
<1>2. CASE Substitution \/ FormationChange \/ RedCard \/ PlayerOff \/ PlayerOn
  BY <1>2, RulesOfMatch
<1> QED BY <1>1, <1>2 DEF Next, Load, Derive, Construct, Update, vars

LEMMA MatchRulesInit == Init => MatchRules
<1> SUFFICES ASSUME Init PROVE MatchRules
  OBVIOUS
<1>1. events = <<>> /\ Len(events) = 0 /\ DOMAIN events = {}
  BY DEF Init
<1>2. Lineup(events)[0] = Starters
  BY <1>1, LineupEquation
<1>3. Used = Starters
  BY <1>1 DEF Used
<1>4. OnPitch \subseteq Starters
  BY <1>1, <1>2 DEF OnPitch
<1> QED BY <1>1, <1>3, <1>4, PositionsAssumption DEF MatchRules

----------------------------------------------------------------------------
\* The players on the pitch over time.

\* The positions after the first done events date from the kick-off and those
\* events, and only a player replaced in them has no position at the end.
PositionsDated ==
    \A p \in Players :
        /\ \A u \in DOMAIN positions[p] :
               /\ u = StartOfMatch \/ \E k \in 1..done : u = Evs[k].time
               /\ positions[p][u] \in PositionTypes \cup {None}
        /\ positions[p] # Empty /\ LastItem(positions[p]) = None =>
               \E k \in 1..done : IsSubstituted(Evs[k], p)

LEMMA RulesOfRecords ==
    ASSUME Shape, MatchRules
    PROVE  /\ \A k \in 1..Len(records) : PlayersOk(Evs[k])
           /\ \A j, k \in 1..Len(records) : \A p \in Players :
                  j < k /\ IsSubstituted(Evs[j], p) => Absent(Evs[k], p)
<1>1. \A k \in 1..Len(records) : records[k] \in DOMAIN events /\ Evs[k] = events[records[k]]
  BY RecordTyped
<1>2. \A j, k \in 1..Len(records) : j < k => records[j] < records[k]
  BY DEF Shape, RecordsOrdered
<1> QED BY <1>1, <1>2 DEF MatchRules

LEMMA PutLast ==
    ASSUME NEW c, IsTimeContainer(c), NEW u \in Moments, NEW item, \A w \in DOMAIN c : NotAfter(w, u)
    PROVE  LastItem(Put(c, u, item)) = item
<1>1. IsTimeContainer(Put(c, u, item)) /\ Put(c, u, item) # Empty
  BY PutKeeps
<1>2. DOMAIN Put(c, u, item) = DOMAIN c \cup {u} /\ Put(c, u, item)[u] = item
  BY DEF Put
<1>3. PICK last : /\ last = LastTime(Put(c, u, item)) /\ last \in DOMAIN c \cup {u}
                  /\ \A w \in DOMAIN c \cup {u} : NotAfter(w, last)
  BY <1>1, <1>2, LastIsLast
<1>4. last = u
  <2>1. last \in Time /\ u \in Time
    BY <1>3, MomentsAreTimes DEF IsTimeContainer
  <2>2. NotAfter(u, last) /\ (last = u \/ NotAfter(last, u))
    BY <1>3
  <2> QED BY <2>1, <2>2, TimesOrdered DEF NotAfter
<1> QED BY <1>2, <1>3, <1>4 DEF LastItem

\* What the next event puts for a player, and at which time.
PutsNothing(p, e) ==
    /\ positions'[p] = positions[p]
    /\ e.type = "substitution" =>
           p # e.replacement_player /\ (p = e.player => e.replacement_player = None)

PutsReplacement(p, e) ==
    /\ e.type = "substitution" /\ e.replacement_player = p
    /\ \E i \in PositionTypes : positions'[p] = Put(positions[p], e.time, i)

PutsReplaced(p, e) ==
    /\ e.type = "substitution" /\ e.player = p /\ e.replacement_player # None
    /\ e.replacement_player # p
    /\ positions'[p] = Put(positions[p], e.time, None)

PutsPosition(p, e) ==
    /\ e.type = "formation_change"
    /\ positions[p] # Empty /\ LastItem(positions[p]) \in PositionTypes
    /\ \E i \in PositionTypes, u \in {e.time, LastTime(positions[p])} :
           positions'[p] = Put(positions[p], u, i)

LEMMA EventPuts ==
    ASSUME Shape, MatchRules, PositionsDated, Update, NEW p \in Players
    PROVE  LET e == Evs[done + 1]
           IN  \/ PutsNothing(p, e) \/ PutsReplacement(p, e)
               \/ PutsReplaced(p, e) \/ PutsPosition(p, e)
<1>1. /\ done + 1 \in 1..Len(records) /\ done \in Nat /\ UpdateWith(Evs[done + 1])
  BY UpdateReads
<1>2. PICK e : e = Evs[done + 1]
  OBVIOUS
<1>3. /\ PlayersOk(e)
      /\ \A q \in Players : (\E k \in 1..done : IsSubstituted(Evs[k], q)) => Absent(e, q)
  <2>1. \A k \in 1..done : k \in 1..Len(records) /\ k < done + 1
    BY <1>1 DEF Shape, RecordsOrdered
  <2> QED BY <1>1, <1>2, <2>1, RulesOfRecords
<1>4. ASSUME NEW q \in Players, positions[q] # Empty, ~Absent(e, q)
      PROVE  LastItem(positions[q]) \in PositionTypes
  <2>1. LastTime(positions[q]) \in DOMAIN positions[q]
    BY <1>4, LastIsLast DEF Shape, ContainersKept
  <2>2. LastItem(positions[q]) \in PositionTypes \cup {None}
    BY <2>1 DEF PositionsDated, LastItem
  <2>3. LastItem(positions[q]) # None
    BY <1>3, <1>4 DEF PositionsDated
  <2> QED BY <2>2, <2>3
<1>5. DOMAIN positions = Players
  BY DEF Shape, ContainersKept
<1>6. CASE e.type = "substitution"
  <2>1. positions' = AfterSubstitution(positions, e)
    BY <1>1, <1>2, <1>6 DEF UpdateWith
  <2>2. /\ e.player \in Players /\ e.replacement_player \in Players \cup {None}
        /\ e.replacement_player # e.player /\ e.position \in PositionTypes \cup {None}
        /\ ~Absent(e, e.player)
    BY <1>3, <1>6 DEF PlayersOk, Absent, IsSubstituted
  <2>3. CASE e.replacement_player = None
    <3>1. positions' = positions /\ p # None
      BY <2>1, <2>3, PositionsAssumption DEF AfterSubstitution
    <3> QED BY <1>2, <2>3, <3>1 DEF PutsNothing
  <2>4. CASE e.replacement_player # None
    <3> DEFINE item == IF e.position # None THEN e.position
                       ELSE IF positions[e.player] = Empty THEN Unknown
                       ELSE LastItem(positions[e.player])
    <3>1. item \in PositionTypes
      BY <1>4, <2>2, PositionsAssumption
    <3>2. positions' = [positions EXCEPT ![e.replacement_player] = Put(@, e.time, item),
                                         ![e.player] = Put(@, e.time, None)]
      BY <2>1, <2>4 DEF AfterSubstitution
    <3> HIDE DEF item
    <3>3. CASE p = e.replacement_player
      <4>1. positions'[p] = Put(positions[p], e.time, item)
        BY <1>5, <2>2, <3>2, <3>3
      <4> QED BY <1>2, <1>6, <3>1, <3>3, <4>1 DEF PutsReplacement
    <3>4. CASE p = e.player
      <4>1. positions'[p] = Put(positions[p], e.time, None)
        BY <1>5, <2>2, <3>2, <3>4
      <4> QED BY <1>2, <1>6, <2>2, <2>4, <3>4, <4>1 DEF PutsReplaced
    <3>5. CASE p # e.player /\ p # e.replacement_player
      <4>1. positions'[p] = positions[p]
        BY <1>5, <2>2, <3>2, <3>5
      <4> QED BY <1>2, <3>5, <4>1 DEF PutsNothing
    <3> QED BY <3>3, <3>4, <3>5
  <2> QED BY <2>3, <2>4
<1>7. CASE e.type = "formation_change"
  <2>1. positions' = AfterFormationChange(positions, e)
    BY <1>1, <1>2, <1>7 DEF UpdateWith
  <2>2. CASE positions'[p] = positions[p]
    BY <1>2, <1>7, <2>2 DEF PutsNothing
  <2>3. CASE positions'[p] # positions[p]
    <3>1. PICK u \in {e.time, LastTime(positions[p])} :
              /\ positions[p] # Empty /\ p \in DOMAIN e.player_positions
              /\ positions'[p] = Put(positions[p], u, e.player_positions[p])
      BY <1>5, <2>1, <2>3, FormationChangePuts
    <3>2. e.player_positions[p] \in PositionTypes /\ ~Absent(e, p)
      BY <1>3, <1>7, <3>1 DEF PlayersOk, Absent
    <3> QED BY <1>2, <1>4, <1>7, <3>1, <3>2 DEF PutsPosition
  <2> QED BY <2>2, <2>3
<1>8. CASE e.type \notin {"substitution", "formation_change"}
  <2>1. positions' = positions
    BY <1>1, <1>2, <1>8 DEF UpdateWith
  <2> QED BY <1>2, <1>8, <2>1 DEF PutsNothing
<1> QED BY <1>6, <1>7, <1>8

\* The items of a player are up to the time of the next event, and to any time
\* after it.
LEMMA DatedUpTo ==
    ASSUME Shape, PositionsDated, NEW p \in Players, NEW t \in Time,
           \A k \in 1..done : NotAfter(Evs[k].time, t)
    PROVE  \A w \in DOMAIN positions[p] : NotAfter(w, t)
BY StartFirst DEF PositionsDated

LEMMA PositionsDatedUpdate ==
    ASSUME Shape, MatchRules, PositionsDated, Update
    PROVE  PositionsDated'
<1>1. /\ done + 1 \in 1..Len(records) /\ done' = done + 1 /\ done \in Nat /\ Evs' = Evs
      /\ EventOk(Evs[done + 1])
  BY UpdateReads
<1>2. PICK e : e = Evs[done + 1]
  OBVIOUS
<1>3. e.time \in Moments /\ e.time \in Time
  BY <1>1, <1>2, MomentsAreTimes DEF EventOk, Moments
<1>4. \A k \in 1..done : NotAfter(Evs[k].time, e.time) /\ k \in 1..(done + 1)
  <2>1. NotAfter(e.time, e.time)
    BY <1>3, TimesOrdered DEF NotAfter
  <2> QED BY <1>1, <1>2, <1>3, <2>1, NextIsLast
<1>5. done + 1 \in 1..(done + 1)
  BY <1>1
<1>6. ASSUME NEW p \in Players
      PROVE  /\ \A u \in DOMAIN positions'[p] :
                    /\ u = StartOfMatch \/ \E k \in 1..(done + 1) : u = Evs[k].time
                    /\ positions'[p][u] \in PositionTypes \cup {None}
             /\ positions'[p] # Empty /\ LastItem(positions'[p]) = None =>
                    \E k \in 1..(done + 1) : IsSubstituted(Evs[k], p)
  <2> DEFINE Dated(u) == u = StartOfMatch \/ \E k \in 1..(done + 1) : u = Evs[k].time
  <2>1. /\ \A u \in DOMAIN positions[p] : Dated(u) /\ positions[p][u] \in PositionTypes \cup {None}
        /\ Dated(e.time)
    BY <1>2, <1>4, <1>5 DEF PositionsDated
  <2>2. IsTimeContainer(positions[p])
    BY DEF Shape, ContainersKept
  <2>3. \A w \in DOMAIN positions[p] : NotAfter(w, e.time)
    BY <1>3, <1>4, DatedUpTo
  <2>4. positions[p] # Empty =>
            /\ LastTime(positions[p]) \in DOMAIN positions[p]
            /\ \A w \in DOMAIN positions[p] : NotAfter(w, LastTime(positions[p]))
            /\ LastTime(positions[p]) \in Moments
    BY <2>2, LastIsLast DEF IsTimeContainer
  <2>5. CASE PutsNothing(p, e)
    BY <1>4, <2>1, <2>5 DEF PutsNothing, PositionsDated
  <2>6. ASSUME NEW u, NEW i \in PositionTypes \cup {None}, positions'[p] = Put(positions[p], u, i),
               u = e.time \/ (u = LastTime(positions[p]) /\ positions[p] # Empty),
               i = None => IsSubstituted(e, p)
        PROVE  /\ \A w \in DOMAIN positions'[p] : Dated(w) /\ positions'[p][w] \in PositionTypes \cup {None}
               /\ LastItem(positions'[p]) = None => \E k \in 1..(done + 1) : IsSubstituted(Evs[k], p)
    <3>1. Dated(u) /\ u \in Moments /\ \A w \in DOMAIN positions[p] : NotAfter(w, u)
      BY <1>3, <2>1, <2>3, <2>4, <2>6
    <3>2. LastItem(positions'[p]) = i
      BY <2>2, <2>6, <3>1, PutLast
    <3> HIDE DEF Dated
    <3>3. \A w \in DOMAIN positions'[p] : Dated(w) /\ positions'[p][w] \in PositionTypes \cup {None}
      BY <2>1, <2>6, <3>1 DEF Put
    <3> QED BY <1>2, <1>5, <2>6, <3>2, <3>3
  <2> HIDE DEF Dated
  <2>7. CASE PutsReplacement(p, e)
    <3>1. PICK i \in PositionTypes : positions'[p] = Put(positions[p], e.time, i)
      BY <2>7 DEF PutsReplacement
    <3> QED BY <2>6, <3>1, PositionsAssumption DEF Dated
  <2>8. CASE PutsReplaced(p, e)
    BY <2>6, <2>8 DEF PutsReplaced, IsSubstituted, Dated
  <2>9. CASE PutsPosition(p, e)
    <3>1. PICK i \in PositionTypes, u \in {e.time, LastTime(positions[p])} :
              positions'[p] = Put(positions[p], u, i) /\ positions[p] # Empty
      BY <2>9 DEF PutsPosition
    <3> QED BY <2>6, <3>1, PositionsAssumption DEF Dated
  <2> QED BY <1>2, <2>5, <2>7, <2>8, <2>9, EventPuts
<1> QED BY <1>1, <1>6 DEF PositionsDated

LEMMA PositionsDatedNext ==
    ASSUME Shape, MatchRules, PositionsDated, [Next]_vars
    PROVE  PositionsDated'
<1>1. CASE Substitution \/ FormationChange \/ RedCard \/ PlayerOff \/ PlayerOn
  <2>1. ~loaded /\ UNCHANGED <<records, done, positions>>
    BY <1>1, MatchEvents DEF Emit
  <2>2. done = 0 /\ done' = 0 /\ 1..0 = {}
    BY <2>1 DEF Shape, RecordsOrdered
  <2> QED BY <2>1, <2>2 DEF PositionsDated
<1>2. CASE Load \/ Derive
  <2>1. positions' = InitialPositions /\ done' = 0
    BY <1>2 DEF Load, Derive, Construct, ResetPositions
  <2>2. ASSUME NEW p \in Starters PROVE LastItem(positions'[p]) \in PositionTypes
    <3>1. LastItem(Put(Empty, StartOfMatch, StartingPosition[p])) = StartingPosition[p]
      BY EmptyIs, PutLast DEF Moments
    <3>2. p \in Players /\ StartingPosition[p] \in PositionTypes
      BY PositionsAssumption
    <3> QED BY <2>1, <3>1, <3>2 DEF InitialPositions
  <2>3. ASSUME NEW p \in Players, NEW u \in DOMAIN positions'[p]
        PROVE  u = StartOfMatch /\ positions'[p][u] \in PositionTypes
    <3>1. p \in Starters
      BY <2>1, <2>3, EmptyIs DEF InitialPositions
    <3>2. positions'[p] = Put(Empty, StartOfMatch, StartingPosition[p])
      BY <2>1, <3>1 DEF InitialPositions
    <3>3. u = StartOfMatch /\ positions'[p][u] = StartingPosition[p]
      BY <2>3, <3>2, EmptyIs DEF Put
    <3> QED BY <3>1, <3>3, PositionsAssumption
  <2>4. \A p \in Players : positions'[p] # Empty => p \in Starters
    BY <2>1 DEF InitialPositions
  <2> QED BY <2>1, <2>2, <2>3, <2>4, PositionsAssumption DEF PositionsDated
<1>3. CASE Update
  BY <1>3, PositionsDatedUpdate
<1>4. CASE UNCHANGED vars
  <2>1. UNCHANGED <<events, records, done, positions>> /\ Evs' = Evs
    BY <1>4 DEF vars, Evs
  <2> QED BY <2>1 DEF PositionsDated
<1> QED BY <1>1, <1>2, <1>3, <1>4 DEF Next

\* The players whose events, of the first c, positions ignore.
IgnoredIn(c) ==
    {Evs[k].player : k \in {j \in 1..c :
        \/ Evs[j].type \in {"red_card", "player_off", "player_on"}
        \/ Evs[j].type = "substitution" /\ Evs[j].replacement_player = None}}

\* After the first done events, the players who have a position at any time
\* are those in the lineup after the events up to that time.
PositionsTell ==
    loaded => \A p \in Players, t \in Time : \A c \in 0..done :
                  UpTo(c, t, done) /\ p \notin IgnoredIn(c) =>
                      (HasPosition(p, t) <=> p \in Lineup(Evs)[c])

\* A time before the next event: the event may correct a position held then,
\* but neither gives nor takes one.
LEMMA EarlierKept ==
    ASSUME Shape, MatchRules, PositionsDated, Update, NEW p \in Players, NEW t \in Time,
           Before(t, Evs[done + 1].time)
    PROVE  HasPosition(p, t)' <=> HasPosition(p, t)
<1>1. EventOk(Evs[done + 1]) /\ IsTimeContainer(positions[p])
  BY UpdateReads DEF Shape, ContainersKept
<1>2. PICK e : e = Evs[done + 1] /\ e.time \in Moments
  BY <1>1 DEF EventOk, Moments
<1>3. CASE positions'[p] = positions[p]
  BY <1>3 DEF HasPosition
<1>4. CASE \E i : positions'[p] = Put(positions[p], e.time, i)
  <2>1. ValueAt(positions'[p], t) = ValueAt(positions[p], t)
    BY <1>1, <1>2, <1>4, PutKeeps
  <2> QED BY <2>1 DEF HasPosition
<1>5. CASE PutsPosition(p, e)
  <2>1. PICK i \in PositionTypes, u \in {e.time, LastTime(positions[p])} :
            /\ positions'[p] = Put(positions[p], u, i)
            /\ positions[p] # Empty /\ LastItem(positions[p]) \in PositionTypes
    BY <1>5 DEF PutsPosition
  <2>2. /\ \A w \in DOMAIN positions[p] : NotAfter(w, LastTime(positions[p]))
        /\ LastTime(positions[p]) \in Moments
    BY <1>1, <2>1, LastIsLast DEF IsTimeContainer
  <2>3. CASE u = e.time
    BY <1>4, <2>1, <2>3
  <2>4. CASE u = LastTime(positions[p]) /\ Before(t, u)
    <3>1. ValueAt(positions'[p], t) = ValueAt(positions[p], t)
      BY <1>1, <2>1, <2>2, <2>4, PutKeeps
    <3> QED BY <3>1 DEF HasPosition
  <2>5. CASE u = LastTime(positions[p]) /\ NotAfter(u, t)
    <3>1. ValueAt(positions[p], t) = LastItem(positions[p])
      BY <1>1, <2>1, <2>5, ValueAtLast
    <3>2. ValueAt(positions'[p], t) = i
      BY <1>1, <2>1, <2>2, <2>5, PutShows
    <3> QED BY <2>1, <3>1, <3>2, PositionsAssumption DEF HasPosition
  <2> QED BY <2>1, <2>3, <2>4, <2>5 DEF NotAfter
<1> QED BY <1>2, <1>3, <1>4, <1>5, EventPuts DEF PutsNothing, PutsReplacement, PutsReplaced

\* A time from the next event on: the event gives and takes positions as it
\* does places in the lineup.
LEMMA LaterFollows ==
    ASSUME Shape, MatchRules, PositionsDated, Update, NEW p \in Players, NEW t \in Time,
           NotAfter(Evs[done + 1].time, t), p \notin IgnoredIn(done + 1), NEW lineup,
           HasPosition(p, t) <=> p \in lineup
    PROVE  HasPosition(p, t)' <=> p \in LineupAfter(lineup, Evs[done + 1])
<1>1. /\ EventOk(Evs[done + 1]) /\ IsTimeContainer(positions[p])
      /\ done + 1 \in 1..Len(records) /\ done \in Nat
  BY UpdateReads DEF Shape, ContainersKept
<1>2. PICK e : e = Evs[done + 1] /\ e.time \in Moments /\ e.time \in Time
  BY <1>1, MomentsAreTimes DEF EventOk, Moments
<1>3. /\ \A w \in DOMAIN positions[p] : NotAfter(w, e.time)
      /\ \A w \in DOMAIN positions[p] : NotAfter(w, t)
  <2>1. NotAfter(e.time, e.time)
    BY <1>2, TimesOrdered DEF NotAfter
  <2>2. \A k \in 1..done : NotAfter(Evs[k].time, e.time) /\ NotAfter(Evs[k].time, t)
    BY <1>1, <1>2, <2>1, NextIsLast
  <2> QED BY <1>2, <2>2, DatedUpTo
<1>4. /\ ~(e.type \in {"red_card", "player_off", "player_on"} /\ e.player = p)
      /\ ~(e.type = "substitution" /\ e.replacement_player = None /\ e.player = p)
  <2>1. done + 1 \in 1..(done + 1)
    BY <1>1
  <2> QED BY <1>2, <2>1 DEF IgnoredIn
<1>5. p # None /\ None \notin PositionTypes /\ NotFound \notin PositionTypes
  BY PositionsAssumption
<1>6. CASE PutsNothing(p, e)
  <2>1. HasPosition(p, t)' <=> HasPosition(p, t)
    BY <1>6 DEF HasPosition, PutsNothing
  <2>2. p \in LineupAfter(lineup, e) <=> p \in lineup
    BY <1>4, <1>6 DEF PutsNothing, LineupAfter
  <2> QED BY <1>2, <2>1, <2>2
<1>7. CASE PutsReplacement(p, e)
  <2>1. PICK i \in PositionTypes : positions'[p] = Put(positions[p], e.time, i)
    BY <1>7 DEF PutsReplacement
  <2>2. ValueAt(positions'[p], t) = i
    BY <1>1, <1>2, <1>3, <2>1, PutShows
  <2>3. p \in LineupAfter(lineup, e)
    BY <1>7 DEF PutsReplacement, LineupAfter
  <2> QED BY <1>2, <1>5, <2>2, <2>3 DEF HasPosition
<1>8. CASE PutsReplaced(p, e)
  <2>1. ValueAt(positions'[p], t) = None
    BY <1>1, <1>2, <1>3, <1>8, PutShows DEF PutsReplaced
  <2>2. p \notin LineupAfter(lineup, e)
    BY <1>8 DEF PutsReplaced, LineupAfter
  <2> QED BY <1>2, <2>1, <2>2 DEF HasPosition
<1>9. CASE PutsPosition(p, e)
  <2>1. PICK i \in PositionTypes, u \in {e.time, LastTime(positions[p])} :
            /\ positions'[p] = Put(positions[p], u, i)
            /\ positions[p] # Empty /\ LastItem(positions[p]) \in PositionTypes
    BY <1>9 DEF PutsPosition
  <2>2. LastTime(positions[p]) \in DOMAIN positions[p]
        /\ \A w \in DOMAIN positions[p] : NotAfter(w, LastTime(positions[p]))
    BY <1>1, <2>1, LastIsLast
  <2>3. ValueAt(positions[p], t) = LastItem(positions[p])
    BY <1>1, <1>3, <2>1, <2>2, ValueAtLast
  <2>4. u \in Moments /\ NotAfter(u, t) /\ \A w \in DOMAIN positions[p] : NotAfter(w, u)
    BY <1>1, <1>2, <1>3, <2>1, <2>2 DEF IsTimeContainer
  <2>5. ValueAt(positions'[p], t) = i
    BY <1>1, <2>1, <2>4, PutShows
  <2>6. LineupAfter(lineup, e) = lineup
    BY <1>9 DEF PutsPosition, LineupAfter
  <2> QED BY <1>2, <1>5, <2>1, <2>3, <2>5, <2>6 DEF HasPosition
<1> QED BY <1>2, <1>6, <1>7, <1>8, <1>9, EventPuts

LEMMA PositionsTellUpdate ==
    ASSUME Shape, MatchRules, PositionsDated, PositionsTell, Update
    PROVE  PositionsTell'
<1>1. /\ done + 1 \in 1..Len(records) /\ done' = done + 1 /\ done \in Nat /\ Evs' = Evs /\ loaded
  BY UpdateReads
<1>2. ASSUME NEW p \in Players, NEW t \in Time, NEW c \in 0..done', UpTo(c, t, done)',
             p \notin IgnoredIn(c)'
      PROVE  HasPosition(p, t)' <=> p \in Lineup(Evs')[c]
  <2>1. c \in 0..(done + 1) /\ UpTo(c, t, done + 1) /\ p \notin IgnoredIn(c)
    BY <1>1, <1>2 DEF UpTo, IgnoredIn
  <2>2. CASE ~NotAfter(Evs[done + 1].time, t)
    <3>1. c \in 0..done /\ UpTo(c, t, done)
      BY <1>1, <2>1, <2>2, NextIsLater
    <3>2. HasPosition(p, t)' <=> HasPosition(p, t)
      BY <2>2, EarlierKept DEF NotAfter
    <3> QED BY <1>1, <2>1, <3>1, <3>2 DEF PositionsTell
  <2>3. CASE NotAfter(Evs[done + 1].time, t)
    <3>1. c = done + 1 /\ UpTo(done, t, done)
      BY <1>1, <2>1, <2>3, NextIsLast
    <3>2. p \notin IgnoredIn(done) /\ done \in 0..done
      <4>1. \A k \in 1..done : k \in 1..(done + 1)
        BY <1>1
      <4> QED BY <1>1, <2>1, <3>1, <4>1 DEF IgnoredIn
    <3>3. HasPosition(p, t) <=> p \in Lineup(Evs)[done]
      BY <1>1, <3>1, <3>2 DEF PositionsTell
    <3>4. PICK lineup : lineup = Lineup(Evs)[done]
      OBVIOUS
    <3>5. HasPosition(p, t)' <=> p \in LineupAfter(lineup, Evs[done + 1])
      BY <2>1, <2>3, <3>1, <3>3, <3>4, LaterFollows
    <3>6. Lineup(Evs)[done + 1] = LineupAfter(Lineup(Evs)[done], Evs[done + 1])
      <4>1. PICK n \in Nat : n = Len(records) /\ Len(Evs) = n
        BY EvsIs
      <4>2. done + 1 \in 1..n /\ (done + 1) - 1 = done
        BY <1>1, <4>1
      <4> QED BY <4>1, <4>2, LineupEquation
    <3> QED BY <1>1, <3>1, <3>4, <3>5, <3>6
  <2> QED BY <2>2, <2>3
<1> QED BY <1>2 DEF PositionsTell

LEMMA PositionsTellNext ==
    ASSUME Shape, MatchRules, PositionsDated, PositionsTell, [Next]_vars
    PROVE  PositionsTell'
<1>1. CASE Substitution \/ FormationChange \/ RedCard \/ PlayerOff \/ PlayerOn
  <2>1. ~loaded /\ loaded' = loaded
    BY <1>1, MatchEvents DEF Emit
  <2> QED BY <2>1 DEF PositionsTell
<1>2. CASE Load \/ Derive
  <2>1. Shape' /\ done' = 0 /\ positions' = InitialPositions
    BY <1>2, ShapeNext DEF Load, Derive, Construct, ResetPositions
  <2>2. PICK evs, n : evs = Evs' /\ n \in Nat /\ Len(evs) = n
    <3>1. PICK n \in Nat : n = Len(records') /\ DOMAIN records' = 1..n
      BY <2>1 DEF Shape, RecordsOrdered
    <3>2. Evs' = [k \in 1..n |-> events'[records'[k]]]
      BY <3>1 DEF Evs
    <3>3. Len(Evs') = n
      BY <3>2
    <3> QED BY <3>3
  <2>3. ASSUME NEW p \in Players, NEW t \in Time
        PROVE  HasPosition(p, t)' <=> p \in Lineup(evs)[0]
    <3>1. Lineup(evs)[0] = Starters
      BY <2>2, LineupEquation
    <3>2. CASE p \in Starters
      <4>1. positions'[p] = Put(Empty, StartOfMatch, StartingPosition[p])
        BY <2>1, <3>2 DEF InitialPositions
      <4>2. ValueAt(positions'[p], t) = StartingPosition[p]
        BY <4>1, EmptyIs, StartFirst, PutShows DEF Moments
      <4> QED BY <3>1, <3>2, <4>2, PositionsAssumption DEF HasPosition
    <3>3. CASE p \notin Starters
      <4>1. positions'[p] = Empty
        BY <2>1, <3>3 DEF InitialPositions
      <4>2. ValueAt(positions'[p], t) = NotFound
        BY <4>1, EmptyIs, ValueAtNone
      <4> QED BY <3>1, <3>3, <4>2 DEF HasPosition
    <3> QED BY <3>2, <3>3
  <2>4. 0..0 = {0}
    OBVIOUS
  <2> QED BY <2>1, <2>2, <2>3, <2>4 DEF PositionsTell
<1>3. CASE Update
  BY <1>3, PositionsTellUpdate
<1>4. CASE UNCHANGED vars
  <2>1. UNCHANGED <<events, loaded, records, done, positions>> /\ Evs' = Evs
    BY <1>4 DEF vars, Evs
  <2> QED BY <2>1 DEF PositionsTell, HasPosition, UpTo, IgnoredIn
<1> QED BY <1>1, <1>2, <1>3, <1>4 DEF Next

\* Two parts of the code keep the players on the pitch: Player.positions by
\* time and the state builder lineup event by event.  For every match the rules
\* allow, and whichever of its events a dataset holds, they agree at every time
\* on every player but those whose cards, absences and substitutions without a
\* replacement positions ignore: a position corrected within the leeway neither
\* brings a replaced player back nor takes one off.
\* (_update_formations_and_positions, LineupStateBuilder)
THEOREM LineupsAgree == Spec => []OnPitchAgree
<1> DEFINE Inv == Shape /\ MatchRules /\ PositionsDated /\ PositionsTell
<1>1. Init => Inv
  <2>1. Init => PositionsDated /\ PositionsTell
    BY EmptyIs DEF Init, PositionsDated, PositionsTell
  <2> QED BY <2>1, ShapeInit, MatchRulesInit
<1>2. Inv /\ [Next]_vars => Inv'
  BY ShapeNext, MatchRulesNext, PositionsDatedNext, PositionsTellNext
<1>3. Inv => OnPitchAgree
  <2> SUFFICES ASSUME Shape, PositionsTell, Ready, NEW t \in EventTimes,
                      NEW p \in Players \ Ignored(t)
               PROVE  HasPosition(p, t) <=> p \in Lineup(Evs)[CountUntil(t)]
    BY DEF OnPitchAgree
  <2>1. t \in Time
    BY PositionsAssumption
  <2>2. CountUntil(t) \in 0..done /\ UpTo(CountUntil(t), t, done)
    BY <2>1, CountUntilIs DEF Ready
  <2>3. p \notin IgnoredIn(CountUntil(t))
    BY DEF Ignored, IgnoredIn
  <2> QED BY <2>1, <2>2, <2>3 DEF PositionsTell, Ready
<1> QED BY <1>1, <1>2, <1>3, PTL DEF Spec

\* Containers hold positions, formations and departures at times of the match,
\* and the loop stays within the records.
THEOREM PositionsTypes == Spec => []TypeOK
<1> DEFINE Inv == Shape /\ MatchRules /\ PositionsDated /\ FormationsDated /\ loaded \in BOOLEAN
<1>1. Init => Inv
  <2>1. Init => PositionsDated /\ FormationsDated /\ loaded \in BOOLEAN
    BY EmptyIs DEF Init, PositionsDated, FormationsDated
  <2> QED BY <2>1, ShapeInit, MatchRulesInit
<1>2. Inv /\ [Next]_vars => Inv'
  <2>1. Shape /\ loaded \in BOOLEAN /\ [Next]_vars => loaded' \in BOOLEAN
    <3>1. Shape /\ (Substitution \/ FormationChange \/ RedCard \/ PlayerOff \/ PlayerOn) =>
              loaded' = loaded
      BY MatchEvents DEF Emit
    <3> QED BY <3>1 DEF Next, Load, Derive, Update, vars
  <2> QED BY <2>1, ShapeNext, MatchRulesNext, PositionsDatedNext, FormationsDatedNext
<1>3. Inv => TypeOK
  <2> SUFFICES ASSUME Inv PROVE TypeOK
    OBVIOUS
  <2>1. \A k \in DOMAIN events : events[k].time \in EventTimes
    <3>1. \A k \in DOMAIN events : EventOk(events[k])
      BY DEF Shape, EventsOrdered
    <3> QED BY <3>1 DEF EventOk
  <2>2. \A u \in Moments : u \in Time
    BY MomentsAreTimes
  <2>3. \A p \in Players : IsContainer(positions[p], PositionTypes \cup {None})
    BY <2>2 DEF IsContainer, PositionsDated, Shape, ContainersKept, IsTimeContainer
  <2>4. \A team \in Teams : IsContainer(formations[team], FormationTypes)
    BY <2>2 DEF IsContainer, FormationsDated, Shape, ContainersKept, IsTimeContainer
  <2> QED BY <2>1, <2>3, <2>4 DEF TypeOK, Shape, RecordsOrdered
<1> QED BY <1>1, <1>2, <1>3, PTL DEF Spec

----------------------------------------------------------------------------
\* Minutes played.

\* A finite set of times has a first one.
LEMMA FirstExists ==
    ASSUME NEW S \in SUBSET Time, IsFiniteSet(S), S # {}
    PROVE  \E t \in S : \A u \in S : NotAfter(t, u)
<1> DEFINE periods == {u.period : u \in S}
<1>1. \A u \in S : u.period \in Nat /\ u.timestamp \in Nat
  BY TimeTyped
<1>2. periods \in SUBSET Nat /\ IsFiniteSet(periods) /\ periods # {}
  <2>1. periods \subseteq 1..NumPeriods
    BY TimeTyped DEF Period
  <2>2. IsFiniteSet(1..NumPeriods)
    BY ClockAssumption, FS_Interval
  <2>3. IsFiniteSet(periods)
    BY <2>1, <2>2, FS_Subset
  <2>4. periods \in SUBSET Nat /\ periods # {}
    BY <1>1
  <2> QED BY <2>3, <2>4
<1>3. PICK p \in periods : \A q \in periods : q >= p
  <2> HIDE DEF periods
  <2> QED BY <1>2, LeastExists
<1> DEFINE within == {u \in S : u.period = p}
           stamps == {u.timestamp : u \in within}
<1>4. stamps \in SUBSET Nat /\ IsFiniteSet(stamps) /\ stamps # {}
  <2>1. IsFiniteSet(within) /\ within # {}
    BY FS_Subset
  <2> DEFINE f == [u \in within |-> u.timestamp]
  <2>2. f \in Surjection(within, stamps)
    BY DEF Surjection
  <2>3. IsFiniteSet(stamps)
    BY <2>1, <2>2, FS_Surjection
  <2> QED BY <1>1, <2>1, <2>3
<1>5. PICK x \in stamps : \A y \in stamps : y >= x
  <2> HIDE DEF stamps
  <2> QED BY <1>4, LeastExists
<1>6. PICK t \in within : t.timestamp = x
  OBVIOUS
<1>7. ASSUME NEW u \in S PROVE NotAfter(t, u)
  <2>1. u.period >= p /\ t.period = p /\ p \in Nat
    BY <1>2, <1>3
  <2>2. u.period = p => u.timestamp >= t.timestamp
    BY <1>5, <1>6
  <2> QED BY <1>1, <2>1, <2>2 DEF NotAfter, Before
<1> QED BY <1>7

\* The first of a set of times is one of them, and the only first.
FirstIn(K) == CHOOSE t \in K : \A u \in K : NotAfter(t, u)

LEMMA FirstInIs ==
    ASSUME NEW K \in SUBSET Time, IsFiniteSet(K), K # {}
    PROVE  /\ FirstIn(K) \in K /\ \A u \in K : NotAfter(FirstIn(K), u)
           /\ \A t \in K : (\A u \in K : NotAfter(t, u)) => t = FirstIn(K)
<1>1. PICK t \in K : \A u \in K : NotAfter(t, u)
  BY FirstExists
<1>2. FirstIn(K) \in K /\ \A u \in K : NotAfter(FirstIn(K), u)
  BY <1>1 DEF FirstIn
<1> QED BY <1>2, TimesOrdered DEF NotAfter

\* The end of the range that starts at t, among keys K.
NextIn(K, t) == LET later == {u \in K : Before(t, u)}
                IN  IF later = {} THEN EndOfMatch ELSE FirstIn(later)

LEMMA TicksTyped ==
    /\ \A t \in Time : Ticks(t) \in Nat
    /\ EndOfMatch \in Time /\ Ticks(EndOfMatch) = TotalTicks /\ TotalTicks \in Nat
    /\ StartOfMatch \in Time /\ Ticks(StartOfMatch) = 0
<1>1. ASSUME NEW t \in Time PROVE Ticks(t) \in Nat
  BY TimeTyped
<1>2. EndOfMatch \in Time /\ Ticks(EndOfMatch) = TotalTicks
  <2>1. NumPeriods \in Period /\ Duration[NumPeriods] \in Nat
    BY ClockAssumption DEF Period
  <2> QED BY <2>1 DEF EndOfMatch, At, Time, Ticks, TotalTicks
<1>3. StartOfMatch \in Time /\ Ticks(StartOfMatch) = 0
  <2>1. 1 \in Period /\ Kickoff[1] = 0
    BY ClockAssumption DEF Period
  <2> QED BY <2>1 DEF StartOfMatch, At, Time, Ticks
<1> QED BY <1>1, <1>2, <1>3

LEMMA NextInTyped ==
    ASSUME NEW K \in SUBSET Time, IsFiniteSet(K), NEW t \in Time
    PROVE  NextIn(K, t) \in Time
<1> DEFINE later == {u \in K : Before(t, u)}
<1>1. later \in SUBSET Time /\ IsFiniteSet(later) /\ later \subseteq K
  BY FS_Subset
<1>2. later # {} => FirstIn(later) \in Time
  <2> HIDE DEF later
  <2> QED BY <1>1, FirstInIs
<1> QED BY <1>2, TicksTyped DEF NextIn

\* The ticks from each key to the next one.
Gaps(K) == [t \in K |-> Ticks(NextIn(K, t)) - Ticks(t)]

LEMMA GapsTyped ==
    ASSUME NEW K \in SUBSET Time, IsFiniteSet(K)
    PROVE  \A t \in K : Gaps(K)[t] \in Int
<1>1. ASSUME NEW t \in K PROVE Gaps(K)[t] \in Int
  <2>1. NextIn(K, t) \in Time /\ t \in Time
    BY NextInTyped
  <2> QED BY <2>1, TicksTyped DEF Gaps
<1> QED BY <1>1

\* Together they make the time from the first key to the end of the match.
LEMMA GapsAddUp ==
    ASSUME NEW K \in SUBSET Time, IsFiniteSet(K), K # {}
    PROVE  Total(Gaps(K), K) = TotalTicks - Ticks(FirstIn(K))
<1> DEFINE wrong == {L \in SUBSET K : L # {} /\ Total(Gaps(L), L) # TotalTicks - Ticks(FirstIn(L))}
<1>1. ASSUME wrong # {} PROVE FALSE
  <2>1. \A L \in wrong : IsFiniteSet(L)
    BY FS_Subset
  <2>2. PICK L \in wrong : \A M \in wrong : Cardinality(M) >= Cardinality(L)
    <3> HIDE DEF wrong
    <3> QED BY <1>1, <2>1, SmallestExists
  <2>3. L \in SUBSET Time /\ L # {} /\ IsFiniteSet(L)
    BY <2>1
  <2>4. PICK f : /\ f = FirstIn(L) /\ f \in L /\ f \in Time /\ \A u \in L : NotAfter(f, u)
    BY <2>3, FirstInIs
  <2>5. PICK M : M = L \ {f}
    OBVIOUS
  <2>6. M \in SUBSET Time /\ M \in SUBSET K /\ IsFiniteSet(M) /\ M \notin wrong
    <3>1. Cardinality(L) \in Nat /\ Cardinality(M) = Cardinality(L) - 1 /\ IsFiniteSet(M)
      BY <2>3, <2>4, <2>5, SmallerWithout
    <3>2. ~ (Cardinality(M) >= Cardinality(L))
      BY <3>1
    <3>3. M \notin wrong
      <4> HIDE DEF wrong
      <4> QED BY <2>2, <3>2
    <3> QED BY <2>3, <2>5, <3>1, <3>3
  <2>7. {u \in L : Before(f, u)} = M
    <3>1. \A u \in L : Before(f, u) <=> u # f
      BY <2>3, <2>4, TimesOrdered DEF NotAfter
    <3> QED BY <2>5, <3>1
  <2>8. Total(Gaps(L), L) = Gaps(L)[f] + Total(Gaps(L), M) /\ Total(Gaps(L), M) \in Int
    BY <2>3, <2>4, <2>5, GapsTyped, TotalWithout
  <2>9. Total(Gaps(L), M) = Total(Gaps(M), M)
    <3>1. ASSUME NEW t \in M PROVE Gaps(L)[t] = Gaps(M)[t]
      <4>1. {u \in L : Before(t, u)} = {u \in M : Before(t, u)}
        BY <2>3, <2>4, <2>5, TimesOrdered DEF NotAfter
      <4>2. t \in L
        BY <2>5
      <4> QED BY <4>1, <4>2 DEF Gaps, NextIn
    <3>2. \A t \in M : Gaps(M)[t] \in Int
      BY <2>6, GapsTyped
    <3> QED BY <2>6, <3>1, <3>2, TotalSame
  <2>10. Ticks(f) \in Nat /\ TotalTicks \in Nat
    BY <2>4, TicksTyped
  <2>11. CASE M = {}
    <3>1. Total(Gaps(M), M) = 0
      BY <2>11, TotalEmpty
    <3>2. Gaps(L)[f] = TotalTicks - Ticks(f)
      BY <2>4, <2>7, <2>11, TicksTyped DEF Gaps, NextIn
    <3> QED BY <2>2, <2>4, <2>8, <2>9, <2>10, <3>1, <3>2
  <2>12. CASE M # {}
    <3>1. Total(Gaps(M), M) = TotalTicks - Ticks(FirstIn(M))
      BY <2>6, <2>12
    <3>2. FirstIn(M) \in Time
      BY <2>6, <2>12, FirstInIs
    <3>3. Gaps(L)[f] = Ticks(FirstIn(M)) - Ticks(f)
      BY <2>4, <2>7, <2>12 DEF Gaps, NextIn
    <3>4. Ticks(FirstIn(M)) \in Nat
      BY <3>2, TicksTyped
    <3> QED BY <2>2, <2>4, <2>8, <2>9, <2>10, <3>1, <3>3, <3>4
  <2> QED BY <2>11, <2>12
<1> QED BY <1>1

LEMMA KeysTyped ==
    ASSUME NEW c, IsTimeContainer(c)
    PROVE  DOMAIN c \in SUBSET Time /\ IsFiniteSet(DOMAIN c)
BY MomentsAreTimes DEF IsTimeContainer

LEMMA FirstIsFirst ==
    ASSUME NEW c, IsTimeContainer(c), c # Empty
    PROVE  /\ FirstTime(c) = FirstIn(DOMAIN c)
           /\ FirstTime(c) \in DOMAIN c /\ FirstTime(c) \in Time
           /\ \A u \in DOMAIN c : NotAfter(FirstTime(c), u)
<1>1. DOMAIN c \in SUBSET Time /\ IsFiniteSet(DOMAIN c) /\ DOMAIN c # {}
  BY KeysTyped DEF IsTimeContainer
<1>2. FirstTime(c) = FirstIn(DOMAIN c)
  BY DEF FirstTime, FirstIn
<1> QED BY <1>1, <1>2, FirstInIs

\* The ticks a container says were played: from its first item to the last one
\* if that takes the player off, or else to the end of the match.
EndOf(c) == IF LastItem(c) = None THEN LastTime(c) ELSE EndOfMatch

Played(c) == IF c = Empty THEN 0 ELSE Ticks(EndOf(c)) - Ticks(FirstTime(c))

LEMMA PlayedTyped ==
    ASSUME NEW c, IsTimeContainer(c)
    PROVE  /\ Played(c) \in Int
           /\ c # Empty => EndOf(c) \in Time /\ FirstTime(c) \in Time /\ LastTime(c) \in Time
<1>1. c # Empty => EndOf(c) \in Time /\ FirstTime(c) \in Time /\ LastTime(c) \in Time
  BY KeysTyped, LastIsLast, FirstIsFirst, TicksTyped DEF EndOf
<1> QED BY <1>1, TicksTyped DEF Played

LEMMA MinutesIs ==
    ASSUME NEW c, IsTimeContainer(c)
    PROVE  Minutes(c) = Played(c)
<1>1. CASE c = Empty
  BY <1>1, EmptyIs DEF Minutes, Played, RangeStarts
<1>2. CASE c # Empty
  <2>1. EndOf(c) \in Time /\ FirstTime(c) \in Time /\ LastTime(c) \in Time
    BY <1>2, PlayedTyped
  <2>2. Played(c) = MinusTime(EndOf(c), FirstTime(c))
    BY <1>2, <2>1, MinusTicks DEF Played
  <2>3. LastTime(c) \in DOMAIN c /\ FirstTime(c) \in DOMAIN c /\ DOMAIN c # {}
    BY <1>2, LastIsLast, FirstIsFirst
  <2>4. CASE RangeStarts(c) # {}
    BY <2>2, <2>4 DEF Minutes, EndOf
  <2>5. CASE RangeStarts(c) = {}
    <3>1. LastItem(c) = None /\ FirstTime(c) = LastTime(c)
      BY <2>3, <2>5 DEF RangeStarts
    <3>2. Played(c) = Ticks(LastTime(c)) - Ticks(LastTime(c)) /\ Ticks(LastTime(c)) \in Nat
      BY <1>2, <2>1, <3>1, TicksTyped DEF Played, EndOf
    <3> QED BY <2>5, <3>2 DEF Minutes
  <2> QED BY <2>4, <2>5
<1> QED BY <1>1, <1>2

\* Position by position the same time is played: the ranges follow each other.
LEMMA MinutesPerPositionIs ==
    ASSUME NEW c, IsTimeContainer(c)
    PROVE  MinutesPerPosition(c) = Played(c)
<1> DEFINE K == DOMAIN c
           S == RangeStarts(c)
           f == Gaps(K)
           Solves(h) == h = [s \in SUBSET S |-> IF s = {} THEN 0
                             ELSE MinusTime(RangeEnd(c, Pick(s)), Pick(s)) + h[s \ {Pick(s)}]]
<1>1. K \in SUBSET Time /\ IsFiniteSet(K) /\ S \subseteq K /\ IsFiniteSet(S)
  <2>1. S \subseteq K
    BY DEF RangeStarts
  <2> QED BY <2>1, KeysTyped, FS_Subset
<1>2. \A t \in K : f[t] \in Int
  BY <1>1, GapsTyped
<1>3. ASSUME NEW t \in K PROVE f[t] = MinusTime(RangeEnd(c, t), t)
  <2>1. RangeEnd(c, t) = NextIn(K, t)
    BY DEF RangeEnd, NextIn, FirstIn
  <2>2. NextIn(K, t) \in Time /\ t \in Time
    BY <1>1, NextInTyped
  <2> QED BY <2>1, <2>2, MinusTicks DEF Gaps
<1>4. MinutesPerPosition(c) = (CHOOSE h : Solves(h))[S]
  BY DEF MinutesPerPosition, MapThenSumSet, MapThenFoldSet, Pick
<1>5. \A s \in SUBSET S : s # {} => Pick(s) \in K /\ f[Pick(s)] = MinusTime(RangeEnd(c, Pick(s)), Pick(s))
  BY <1>1, <1>3 DEF Pick
<1> HIDE DEF f, K, S
<1>6. MinutesPerPosition(c) = Total(f, S)
  <2>1. PICK g \in [SUBSET S -> Int] : Sums(g, f, S)
    BY <1>1, <1>2, SumsExist
  <2>2. Solves(g)
    BY <1>5, <2>1 DEF Sums
  <2>3. PICK h : h = (CHOOSE k : Solves(k)) /\ Solves(h)
    <3> HIDE DEF Solves
    <3> QED BY <2>2
  <2>4. Sums(h, f, S)
    <3>1. ASSUME NEW s \in SUBSET S
          PROVE  h[s] = IF s = {} THEN 0
                        ELSE MinusTime(RangeEnd(c, Pick(s)), Pick(s)) + h[s \ {Pick(s)}]
      BY <2>3
    <3> HIDE DEF Solves
    <3> QED BY <1>5, <3>1 DEF Sums
  <2> HIDE DEF Solves
  <2> QED BY <1>1, <1>2, <1>4, <2>3, <2>4, SumIsTotal
<1>7. CASE c = Empty
  <2>1. S = {}
    BY <1>7, EmptyIs DEF S, RangeStarts
  <2> QED BY <1>6, <1>7, <2>1, TotalEmpty DEF Played
<1>8. CASE c # Empty
  <2>1. /\ K # {} /\ FirstTime(c) = FirstIn(K)
        /\ LastTime(c) \in K /\ \A u \in K : NotAfter(u, LastTime(c))
    BY <1>8, LastIsLast, FirstIsFirst DEF K
  <2>2. Total(f, K) = TotalTicks - Ticks(FirstTime(c))
    BY <1>1, <2>1, GapsAddUp DEF f
  <2>3. FirstTime(c) \in Time /\ LastTime(c) \in Time
    BY <1>8, PlayedTyped
  <2>4. /\ Ticks(FirstTime(c)) \in Nat /\ Ticks(LastTime(c)) \in Nat /\ TotalTicks \in Nat
        /\ Ticks(EndOfMatch) = TotalTicks
    BY <2>3, TicksTyped
  <2>5. CASE LastItem(c) # None
    <3>1. S = K
      BY <2>5 DEF S, K, RangeStarts
    <3> QED BY <1>6, <1>8, <2>2, <2>4, <2>5, <3>1 DEF Played, EndOf
  <2>6. CASE LastItem(c) = None
    <3>1. S = K \ {LastTime(c)}
      BY <2>1, <2>6 DEF S, K, RangeStarts
    <3>2. Total(f, K) = f[LastTime(c)] + Total(f, S) /\ Total(f, S) \in Int
      BY <1>1, <1>2, <2>1, <3>1, TotalWithout
    <3>3. f[LastTime(c)] = TotalTicks - Ticks(LastTime(c))
      <4>1. {u \in K : Before(LastTime(c), u)} = {}
        BY <2>1 DEF NotAfter
      <4> QED BY <2>1, <2>4, <4>1 DEF f, Gaps, NextIn
    <3>4. Played(c) = Ticks(LastTime(c)) - Ticks(FirstTime(c))
      BY <1>8, <2>6 DEF Played, EndOf
    <3>5. PICK a, b, m, x : /\ a = Ticks(FirstTime(c)) /\ b = Ticks(LastTime(c)) /\ m = TotalTicks
                            /\ x = Total(f, S) /\ a \in Nat /\ b \in Nat /\ m \in Nat /\ x \in Int
      BY <2>4, <3>2
    <3>6. m - a = (m - b) + x
      BY <2>2, <3>2, <3>3, <3>5
    <3>7. x = b - a
      BY <3>5, <3>6
    <3> QED BY <1>6, <3>4, <3>5, <3>7
  <2> QED BY <2>5, <2>6
<1> QED BY <1>7, <1>8

\* What is put at the end changes the last key and, but for the first item,
\* not the first.
LEMMA PutEnds ==
    ASSUME NEW c, IsTimeContainer(c), NEW u \in Moments, NEW item, \A w \in DOMAIN c : NotAfter(w, u)
    PROVE  LET d == Put(c, u, item)
           IN  /\ IsTimeContainer(d) /\ d # Empty /\ LastItem(d) = item /\ LastTime(d) = u
               /\ FirstTime(d) = IF c = Empty THEN u ELSE FirstTime(c)
<1>1. PICK d : d = Put(c, u, item)
  OBVIOUS
<1>2. IsTimeContainer(d) /\ d # Empty /\ LastItem(d) = item /\ DOMAIN d = DOMAIN c \cup {u}
  <2>1. IsTimeContainer(Put(c, u, item)) /\ Put(c, u, item) # Empty
    BY PutKeeps
  <2>2. LastItem(Put(c, u, item)) = item
    BY PutLast
  <2>3. DOMAIN Put(c, u, item) = DOMAIN c \cup {u}
    BY DEF Put
  <2> QED BY <1>1, <2>1, <2>2, <2>3
<1>3. /\ DOMAIN d \in SUBSET Time /\ IsFiniteSet(DOMAIN d) /\ DOMAIN d # {}
      /\ DOMAIN c \in SUBSET Time /\ u \in Time
  BY <1>2, KeysTyped, MomentsAreTimes
<1>4. LastTime(d) = u
  <2>1. LastTime(d) \in DOMAIN d /\ NotAfter(u, LastTime(d))
    BY <1>2, LastIsLast
  <2>2. LastTime(d) = u \/ NotAfter(LastTime(d), u)
    BY <1>2, <2>1
  <2> QED BY <1>3, <2>1, <2>2, TimesOrdered DEF NotAfter
<1>5. FirstTime(d) = FirstIn(DOMAIN d)
  BY <1>2, FirstIsFirst
<1>6. NotAfter(u, u)
  BY <1>3, TimesOrdered DEF NotAfter
<1>7. CASE c = Empty
  <2>1. u \in DOMAIN d /\ \A w \in DOMAIN d : NotAfter(u, w)
    BY <1>2, <1>6, <1>7, EmptyIs
  <2> QED BY <1>1, <1>2, <1>3, <1>4, <1>5, <1>7, <2>1, FirstInIs
<1>8. CASE c # Empty
  <2>1. FirstTime(c) \in DOMAIN c /\ \A w \in DOMAIN c : NotAfter(FirstTime(c), w)
    BY <1>8, FirstIsFirst
  <2>2. FirstTime(c) \in DOMAIN d /\ \A w \in DOMAIN d : NotAfter(FirstTime(c), w)
    BY <1>2, <2>1
  <2> QED BY <1>1, <1>2, <1>3, <1>4, <1>5, <1>8, <2>2, FirstInIs
<1> QED BY <1>7, <1>8

\* How long a player whose container ends with item has played.
LEMMA PlayedIs ==
    ASSUME NEW c, IsTimeContainer(c), c # Empty
    PROVE  Played(c) = (IF LastItem(c) = None THEN Ticks(LastTime(c)) ELSE TotalTicks)
                       - Ticks(FirstTime(c))
BY TicksTyped DEF Played, EndOf

----------------------------------------------------------------------------
\* Who comes on, and who goes off.

Brings(e, p) == e.type = "substitution" /\ e.replacement_player = p

\* p starts or is brought on by one of the first n events.
Enters(p, n) == p \in Starters \/ \E j \in 1..n : Brings(events[j], p)

\* The first n events do not bring p on at time t.
NotOnAt(p, n, t) ==
    /\ p \in Starters => t # StartOfMatch
    /\ \A j \in 1..n : Brings(events[j], p) => events[j].time # t

\* A substitution takes off a player who has come on, at another time, and
\* brings on a player of his team who has not.
Substitutes(k) ==
    LET e == events[k]
    IN  e.type = "substitution" =>
            /\ Enters(e.player, k - 1) /\ NotOnAt(e.player, k - 1, e.time)
            /\ e.replacement_player # None =>
                   /\ ~Enters(e.replacement_player, k - 1)
                   /\ TeamOf[e.replacement_player] = TeamOf[e.player]

SubstitutionRules == \A k \in DOMAIN events : Substitutes(k)

LEMMA SubstitutionRulesNext ==
    ASSUME Shape, MatchRules, SubstitutionRules, [Next]_vars
    PROVE  SubstitutionRules'
<1>1. CASE events' = events
  BY <1>1 DEF SubstitutionRules, Substitutes, Enters, NotOnAt
<1>2. ASSUME NEW e, Emit(e),
             e.type = "substitution" =>
                 /\ e.player \in Used /\ e.player # None /\ ~CameOnAt(e.player, e.time)
                 /\ e.replacement_player # None =>
                        /\ e.replacement_player \notin Used
                        /\ TeamOf[e.replacement_player] = TeamOf[e.player]
      PROVE  SubstitutionRules'
  <2>1. PICK n : /\ n \in Nat /\ n = Len(events) /\ DOMAIN events = 1..n
                 /\ DOMAIN events' = DOMAIN events \cup {n + 1} /\ events'[n + 1] = e
                 /\ \A k \in DOMAIN events : events'[k] = events[k]
    BY <1>2, EmitOccurs
  <2>2. ASSUME NEW k \in DOMAIN events' PROVE k - 1 \in Nat /\ 1..(k - 1) \subseteq DOMAIN events
    BY <2>1
  <2>3. ASSUME NEW k \in DOMAIN events PROVE Substitutes(k)'
    <3>1. events'[k] = events[k] /\ \A j \in 1..(k - 1) : events'[j] = events[j]
      BY <2>1, <2>2
    <3>2. \A p : Enters(p, k - 1)' <=> Enters(p, k - 1)
      BY <3>1 DEF Enters
    <3>3. \A p, t : NotOnAt(p, k - 1, t)' <=> NotOnAt(p, k - 1, t)
      BY <3>1 DEF NotOnAt
    <3>4. Substitutes(k)
      BY DEF SubstitutionRules
    <3> QED BY <3>1, <3>2, <3>3, <3>4 DEF Substitutes
  <2>4. \A p : Enters(p, n)' <=> p \in Used
    BY <2>1 DEF Enters, Brings, Used
  <2>5. \A p, t : ~CameOnAt(p, t) => NotOnAt(p, n, t)'
    BY <2>1 DEF NotOnAt, CameOnAt, Brings
  <2>6. (n + 1) - 1 = n
    BY <2>1
  <2>7. Substitutes(n + 1)'
    BY <1>2, <2>1, <2>4, <2>5, <2>6 DEF Substitutes
  <2> QED BY <2>1, <2>3, <2>7 DEF SubstitutionRules
<1>3. CASE Substitution
  <2>1. PICK p, r, pos, t :
            /\ p \in OnPitch \cup Away
            /\ r # None => r \notin Used /\ TeamOf[r] = TeamOf[p]
            /\ ~CameOnAt(p, t)
            /\ Emit([type |-> "substitution", time |-> t, player |-> p,
                     replacement_player |-> r, position |-> pos])
    BY <1>3 DEF Substitution
  <2>2. PICK e : e = [type |-> "substitution", time |-> t, player |-> p,
                      replacement_player |-> r, position |-> pos]
    OBVIOUS
  <2>3. e.time = t /\ e.player = p /\ e.replacement_player = r /\ Emit(e)
    BY <2>1, <2>2
  <2>4. p \in Players /\ p \in Used
    BY <2>1, PlayersHere
  <2> QED BY <1>2, <2>1, <2>3, <2>4, PositionsAssumption
<1>4. CASE FormationChange
  <2>1. PICK team, f, t, pos :
            Emit([type |-> "formation_change", time |-> t, team |-> team,
                  formation_type |-> f, player_positions |-> pos])
    BY <1>4 DEF FormationChange
  <2> QED BY <1>2, <2>1
<1>5. CASE RedCard \/ PlayerOff \/ PlayerOn
  <2>1. PICK p, t, type : /\ type \in {"red_card", "player_off", "player_on"}
                          /\ Emit([type |-> type, time |-> t, player |-> p])
    <3>1. CASE RedCard
      BY <3>1 DEF RedCard
    <3>2. CASE PlayerOff
      BY <3>2 DEF PlayerOff
    <3>3. CASE PlayerOn
      BY <3>3 DEF PlayerOn
    <3> QED BY <1>5, <3>1, <3>2, <3>3
  <2> QED BY <1>2, <2>1
<1> QED BY <1>1, <1>3, <1>4, <1>5 DEF Next, Load, Derive, Construct, Update, vars

----------------------------------------------------------------------------
\* The minutes of a team.

Squad(team) == {p \in Players : TeamOf[p] = team}

\* A player who has come on, and no other, has positions since he did.  Being
\* taken off comes at another time than coming on.
EnteredAt(p) ==
    /\ positions[p] = Empty <=> ~Enters(p, done)
    /\ positions[p] # Empty =>
           /\ \/ p \in Starters /\ FirstTime(positions[p]) = StartOfMatch
              \/ \E j \in 1..done : /\ Brings(events[j], p)
                                    /\ FirstTime(positions[p]) = events[j].time
           /\ LastItem(positions[p]) = None => LastTime(positions[p]) # FirstTime(positions[p])

TicksOf(pos, team) == [p \in Squad(team) |-> Played(pos[p])]

FullTime(team) == Cardinality({p \in Starters : TeamOf[p] = team}) * TotalTicks

\* In a dataset over all the events, after any number of them.
MinutesHeld ==
    loaded /\ Len(records) = Len(events) =>
        /\ \A p \in Players : EnteredAt(p)
        /\ \A team \in Teams : Total(TicksOf(positions, team), Squad(team)) = FullTime(team)

LEMMA SquadFinite ==
    ASSUME NEW team
    PROVE  IsFiniteSet(Squad(team)) /\ Squad(team) \subseteq Players
<1>1. Squad(team) \subseteq Players
  BY DEF Squad
<1> QED BY <1>1, PositionsAssumption, FS_Subset

\* The starters have the whole match before them.
LEMMA MinutesAtStart ==
    ASSUME NEW S, Construct(S)
    PROVE  MinutesHeld'
<1>1. positions' = InitialPositions /\ done' = 0 /\ 1..0 = {}
  BY DEF Construct, ResetPositions
<1>2. ASSUME NEW p \in Players
      PROVE  /\ EnteredAt(p)' /\ IsTimeContainer(positions'[p])
             /\ Played(positions'[p]) = IF p \in Starters THEN TotalTicks ELSE 0
  <2>1. CASE p \notin Starters
    <3>1. positions'[p] = Empty
      BY <1>1, <2>1 DEF InitialPositions
    <3> QED BY <1>1, <2>1, <3>1, EmptyIs DEF EnteredAt, Enters, Played
  <2>2. CASE p \in Starters
    <3>1. PICK i, c : /\ i = StartingPosition[p] /\ c = Put(Empty, StartOfMatch, i)
                      /\ positions'[p] = c /\ i # None
      BY <1>1, <2>2, PositionsAssumption DEF InitialPositions
    <3>2. StartOfMatch \in Moments /\ \A w \in DOMAIN Empty : NotAfter(w, StartOfMatch)
      BY EmptyIs DEF Moments
    <3>3. /\ IsTimeContainer(c) /\ c # Empty /\ LastItem(c) = i
          /\ FirstTime(c) = StartOfMatch
      BY <3>1, <3>2, EmptyIs, PutEnds
    <3>4. Played(c) = TotalTicks
      BY <3>1, <3>3, PlayedIs, TicksTyped
    <3> QED BY <1>1, <2>2, <3>1, <3>3, <3>4 DEF EnteredAt, Enters
  <2> QED BY <2>1, <2>2
<1>3. ASSUME NEW team \in Teams
      PROVE  Total(TicksOf(positions', team), Squad(team)) = FullTime(team)
  <2>1. PICK f : f = TicksOf(positions', team)
    OBVIOUS
  <2>2. PICK T \in SUBSET Squad(team) : T = {p \in Starters : TeamOf[p] = team}
    <3>1. {p \in Starters : TeamOf[p] = team} \in SUBSET Squad(team)
      BY PositionsAssumption DEF Squad
    <3> QED BY <3>1
  <2>3. \A p \in Squad(team) : f[p] = IF p \in T THEN TotalTicks ELSE 0
    BY <1>2, <2>1, <2>2 DEF Squad, TicksOf
  <2>4. IsFiniteSet(Squad(team)) /\ TotalTicks \in Int
    BY SquadFinite, TicksTyped
  <2> QED BY <2>1, <2>2, <2>3, <2>4, TotalConstant DEF FullTime
<1> QED BY <1>2, <1>3 DEF MinutesHeld

\* What an event changes of a player's minutes: the time left goes to the
\* player who comes on.
Changes(p, e) ==
    \/ /\ Played(positions'[p]) = Played(positions[p])
       /\ e.type = "substitution" =>
              p # e.replacement_player /\ (p = e.player => e.replacement_player = None)
    \/ /\ e.type = "substitution" /\ e.replacement_player = p
       /\ Played(positions[p]) = 0 /\ Played(positions'[p]) = TotalTicks - Ticks(e.time)
    \/ /\ e.type = "substitution" /\ e.player = p /\ e.replacement_player # None
       /\ e.replacement_player # p
       /\ Played(positions[p]) = (TotalTicks - Ticks(e.time)) + Played(positions'[p])

LEMMA EventChanges ==
    ASSUME Shape, MatchRules, SubstitutionRules, PositionsDated, MinutesHeld, Update,
           Len(records) = Len(events), NEW p \in Players
    PROVE  EnteredAt(p)' /\ Changes(p, Evs[done + 1])
<1>1. /\ done + 1 \in 1..Len(records) /\ done' = done + 1 /\ done \in Nat /\ events' = events
      /\ loaded /\ EventOk(Evs[done + 1])
  BY UpdateReads
<1>2. PICK e, n : /\ e = Evs[done + 1] /\ n = done + 1 /\ done' = n
                  /\ e = events[n] /\ n \in DOMAIN events
  BY <1>1, AllRecords DEF Shape, EventsOrdered
<1>3. PICK c, d : c = positions[p] /\ d = positions'[p] /\ IsTimeContainer(c)
  BY DEF Shape, ContainersKept
<1>4. e.time \in Moments /\ e.time \in Time /\ Ticks(e.time) \in Nat /\ TotalTicks \in Nat
  BY <1>1, <1>2, MomentsAreTimes, TicksTyped DEF EventOk, Moments
<1>5. \A w \in DOMAIN c : NotAfter(w, e.time)
  <2>1. \A k \in 1..done : NotAfter(Evs[k].time, e.time)
    <3>1. NotAfter(e.time, e.time)
      BY <1>4, TimesOrdered DEF NotAfter
    <3> QED BY <1>1, <1>2, <1>4, <3>1, NextIsLast
  <2> QED BY <1>3, <1>4, <2>1, DatedUpTo
<1>6. EnteredAt(p)
  BY <1>1 DEF MinutesHeld
<1>7. Enters(p, n)' <=> Enters(p, done) \/ Brings(e, p)
  <2>1. 1..n = 1..done \cup {n}
    BY <1>1, <1>2
  <2> QED BY <1>1, <1>2, <2>1 DEF Enters
<1>8. Substitutes(n) /\ n - 1 = done
  BY <1>1, <1>2 DEF SubstitutionRules
<1>9. c # Empty => /\ Ticks(FirstTime(c)) \in Nat /\ LastTime(c) \in Moments
                   /\ \A w \in DOMAIN c : NotAfter(w, LastTime(c))
  BY <1>3, PlayedTyped, TicksTyped, LastIsLast DEF IsTimeContainer
<1>10. ASSUME c # Empty, d # Empty, FirstTime(d) = FirstTime(c), ~Brings(e, p),
              LastItem(d) = None => LastTime(d) # FirstTime(d)
       PROVE  EnteredAt(p)'
  <2>1. \/ p \in Starters /\ FirstTime(d) = StartOfMatch
        \/ \E j \in 1..n : Brings(events[j], p) /\ FirstTime(d) = events[j].time
    <3>1. \A j \in 1..done : j \in 1..n
      BY <1>1, <1>2
    <3> QED BY <1>3, <1>6, <1>10, <3>1 DEF EnteredAt
  <2>2. Enters(p, n)'
    BY <1>3, <1>6, <1>7, <1>10 DEF EnteredAt
  <2> QED BY <1>1, <1>2, <1>3, <1>10, <2>1, <2>2 DEF EnteredAt
<1>11. CASE PutsNothing(p, e)
  <2>1. d = c /\ ~Brings(e, p)
    BY <1>3, <1>11 DEF PutsNothing, Brings
  <2>2. EnteredAt(p)'
    <3>1. CASE c = Empty
      BY <1>1, <1>2, <1>3, <1>6, <1>7, <2>1, <3>1 DEF EnteredAt
    <3>2. CASE c # Empty
      BY <1>3, <1>6, <1>10, <2>1, <3>2 DEF EnteredAt
    <3> QED BY <3>1, <3>2
  <2> QED BY <1>2, <1>3, <1>11, <2>1, <2>2 DEF PutsNothing, Changes
<1>12. CASE PutsReplacement(p, e)
  <2>1. PICK i \in PositionTypes : d = Put(c, e.time, i)
    BY <1>3, <1>12 DEF PutsReplacement
  <2>2. i # None /\ p # None /\ Brings(e, p)
    BY <1>12, PositionsAssumption DEF PutsReplacement, Brings
  <2>3. ~Enters(p, done)
    BY <1>2, <1>8, <2>2 DEF Substitutes, Brings
  <2>4. c = Empty
    BY <1>3, <1>6, <2>3 DEF EnteredAt
  <2>5. d # Empty /\ LastItem(d) = i /\ FirstTime(d) = e.time /\ IsTimeContainer(d)
    BY <1>3, <1>4, <1>5, <2>1, <2>4, PutEnds
  <2>6. EnteredAt(p)'
    <3>1. n \in 1..n
      BY <1>1, <1>2
    <3>2. \E j \in 1..n : Brings(events[j], p) /\ FirstTime(d) = events[j].time
      BY <1>2, <2>2, <2>5, <3>1
    <3> QED BY <1>1, <1>2, <1>3, <1>7, <2>2, <2>5, <3>2 DEF EnteredAt
  <2>7. Played(c) = 0 /\ Played(d) = TotalTicks - Ticks(e.time)
    BY <2>2, <2>4, <2>5, PlayedIs DEF Played
  <2> QED BY <1>2, <1>3, <2>2, <2>6, <2>7 DEF Changes, Brings
<1>13. CASE PutsReplaced(p, e)
  <2>1. /\ e.type = "substitution" /\ e.player = p /\ e.replacement_player # None
        /\ e.replacement_player # p /\ d = Put(c, e.time, None) /\ ~Brings(e, p)
    BY <1>3, <1>13 DEF PutsReplaced, Brings
  <2>2. Enters(p, done) /\ NotOnAt(p, done, e.time)
    BY <1>2, <1>8, <2>1 DEF Substitutes
  <2>3. c # Empty
    BY <1>3, <1>6, <2>2 DEF EnteredAt
  <2>4. /\ d # Empty /\ LastItem(d) = None /\ LastTime(d) = e.time
        /\ FirstTime(d) = FirstTime(c) /\ IsTimeContainer(d)
    BY <1>3, <1>4, <1>5, <2>1, <2>3, PutEnds
  <2>5. FirstTime(c) # e.time
    BY <1>3, <1>6, <2>2, <2>3 DEF EnteredAt, NotOnAt
  <2>6. LastItem(c) # None
    <3>1. ASSUME LastItem(c) = None PROVE FALSE
      <4>1. PICK k \in 1..done : IsSubstituted(Evs[k], p)
        BY <1>3, <2>3, <3>1 DEF PositionsDated
      <4>2. k \in 1..Len(records) /\ k < done + 1
        BY <1>1, <4>1 DEF Shape, RecordsOrdered
      <4>3. Absent(e, p)
        BY <1>1, <1>2, <4>1, <4>2, RulesOfRecords
      <4> QED BY <2>1, <4>3 DEF Absent, IsSubstituted
    <3> QED BY <3>1
  <2>7. Played(c) = TotalTicks - Ticks(FirstTime(c)) /\ Played(d) = Ticks(e.time) - Ticks(FirstTime(c))
    BY <1>3, <2>3, <2>4, <2>6, PlayedIs
  <2>8. Played(c) = (TotalTicks - Ticks(e.time)) + Played(d)
    BY <1>4, <1>9, <2>3, <2>7
  <2>9. EnteredAt(p)'
    BY <1>10, <2>1, <2>3, <2>4, <2>5
  <2> QED BY <1>2, <1>3, <2>1, <2>8, <2>9 DEF Changes
<1>14. CASE PutsPosition(p, e)
  <2>1. PICK i \in PositionTypes, u \in {e.time, LastTime(c)} : d = Put(c, u, i)
    BY <1>3, <1>14 DEF PutsPosition
  <2>2. /\ e.type = "formation_change" /\ c # Empty /\ LastItem(c) # None /\ i # None
        /\ ~Brings(e, p)
    BY <1>3, <1>14, PositionsAssumption DEF PutsPosition, Brings
  <2>3. u \in Moments /\ \A w \in DOMAIN c : NotAfter(w, u)
    BY <1>4, <1>5, <1>9, <2>1, <2>2
  <2>4. d # Empty /\ LastItem(d) = i /\ FirstTime(d) = FirstTime(c) /\ IsTimeContainer(d)
    BY <1>3, <2>1, <2>2, <2>3, PutEnds
  <2>5. Played(d) = Played(c)
    BY <1>3, <2>2, <2>4, PlayedIs
  <2>6. EnteredAt(p)'
    BY <1>10, <2>2, <2>4
  <2> QED BY <1>2, <1>3, <2>2, <2>5, <2>6 DEF Changes
<1> QED BY <1>2, <1>11, <1>12, <1>13, <1>14, EventPuts

\* What a player loses a team mate gains.
LEMMA MinutesUpdate ==
    ASSUME Shape, MatchRules, SubstitutionRules, PositionsDated, MinutesHeld, Update
    PROVE  MinutesHeld'
<1> SUFFICES ASSUME Len(records) = Len(events) PROVE MinutesHeld'
  BY UpdateReads DEF MinutesHeld
<1>1. /\ done + 1 \in 1..Len(records) /\ done \in Nat /\ loaded /\ EventOk(Evs[done + 1])
      /\ \A p \in Players : EnteredAt(p)' /\ Changes(p, Evs[done + 1])
  BY UpdateReads, EventChanges
<1>2. PICK e : e = Evs[done + 1] /\ e = events[done + 1] /\ done + 1 \in DOMAIN events
  BY <1>1, AllRecords DEF Shape, EventsOrdered
<1>3. PlayersOk(e) /\ Substitutes(done + 1)
  BY <1>2 DEF MatchRules, SubstitutionRules
<1>4. Ticks(e.time) \in Nat /\ TotalTicks \in Nat
  <2>1. e.time \in Time
    BY <1>1, <1>2, MomentsAreTimes DEF EventOk, Moments
  <2> QED BY <2>1, TicksTyped
<1>5. \A p \in Players : IsTimeContainer(positions[p]) /\ IsTimeContainer(positions'[p])
  <2>1. Shape'
    BY ShapeNext DEF Next
  <2> QED BY <2>1 DEF Shape, ContainersKept
<1>6. ASSUME NEW team \in Teams
      PROVE  Total(TicksOf(positions', team), Squad(team)) = FullTime(team)
  <2>1. Total(TicksOf(positions, team), Squad(team)) = FullTime(team)
    BY <1>1 DEF MinutesHeld
  <2>2. PICK S : S = Squad(team) /\ IsFiniteSet(S) /\ S \subseteq Players
    BY SquadFinite
  <2>3. PICK f, g : /\ f = TicksOf(positions, team) /\ g = TicksOf(positions', team)
                    /\ \A p \in S : /\ f[p] = Played(positions[p]) /\ f[p] \in Int
                                    /\ g[p] = Played(positions'[p]) /\ g[p] \in Int
    <3>1. \A p \in S : /\ TicksOf(positions, team)[p] = Played(positions[p])
                       /\ TicksOf(positions', team)[p] = Played(positions'[p])
                       /\ Played(positions[p]) \in Int /\ Played(positions'[p]) \in Int
      BY <1>5, <2>2, PlayedTyped DEF TicksOf
    <3> QED BY <3>1
  <2>4. \A p \in S : Changes(p, e)
    BY <1>1, <1>2, <2>2
  <2>5. CASE \A p \in S : f[p] = g[p]
    BY <2>1, <2>2, <2>3, <2>5, TotalSame
  <2>6. ASSUME NEW q \in S, f[q] # g[q] PROVE Total(g, S) = Total(f, S)
    <3>1. PICK p, r : /\ e.type = "substitution" /\ p = e.player /\ r = e.replacement_player
                      /\ r # None /\ (q = p \/ q = r)
      BY <1>3, <2>2, <2>3, <2>4, <2>6, PositionsAssumption DEF Changes
    <3>2. p \in Players /\ r \in Players /\ p # r /\ TeamOf[r] = TeamOf[p]
      BY <1>2, <1>3, <3>1 DEF PlayersOk, Substitutes
    <3>3. p \in S /\ r \in S
      BY <2>2, <3>1, <3>2 DEF Squad
    <3>4. f[r] = 0 /\ g[r] = TotalTicks - Ticks(e.time)
      BY <2>3, <2>4, <3>1, <3>2, <3>3 DEF Changes
    <3>5. f[p] = (TotalTicks - Ticks(e.time)) + g[p]
      BY <2>3, <2>4, <3>1, <3>2, <3>3 DEF Changes
    <3>6. \A x \in S : x # p /\ x # r => f[x] = g[x]
      BY <2>3, <2>4, <3>1 DEF Changes
    <3>7. f[p] + f[r] = g[p] + g[r]
      BY <1>4, <2>3, <3>3, <3>4, <3>5
    <3>8. \A x \in S : f[x] \in Int /\ g[x] \in Int
      BY <2>3
    <3> QED BY <2>2, <3>2, <3>3, <3>6, <3>7, <3>8, TotalMoved
  <2> QED BY <2>1, <2>2, <2>3, <2>5, <2>6
<1> QED BY <1>1, <1>6 DEF MinutesHeld

LEMMA MinutesHeldNext ==
    ASSUME Shape, MatchRules, SubstitutionRules, PositionsDated, MinutesHeld, [Next]_vars
    PROVE  MinutesHeld'
<1>1. CASE Substitution \/ FormationChange \/ RedCard \/ PlayerOff \/ PlayerOn
  <2>1. loaded' = loaded /\ ~loaded
    BY <1>1, MatchEvents DEF Emit
  <2> QED BY <2>1 DEF MinutesHeld
<1>2. CASE Load \/ Derive
  <2>1. \E S : Construct(S)
    BY <1>2 DEF Load, Derive
  <2> QED BY <2>1, MinutesAtStart
<1>3. CASE Update
  BY <1>3, MinutesUpdate
<1>4. CASE UNCHANGED vars
  <2>1. UNCHANGED <<events, loaded, records, done, positions>>
    BY <1>4 DEF vars
  <2> QED BY <2>1 DEF MinutesHeld, EnteredAt, Enters
<1> QED BY <1>1, <1>2, <1>3, <1>4 DEF Next

\* The aggregator's sums are those of the ticks played.
LEMMA MinutesOfSquad ==
    ASSUME NEW team, NEW pos, \A p \in Players : IsTimeContainer(pos[p])
    PROVE  /\ MapThenSumSet(LAMBDA p : Minutes(pos[p]), Squad(team)) =
                  Total(TicksOf(pos, team), Squad(team))
           /\ MapThenSumSet(LAMBDA p : MinutesPerPosition(pos[p]), Squad(team)) =
                  Total(TicksOf(pos, team), Squad(team))
<1>1. PICK S : S = Squad(team) /\ IsFiniteSet(S) /\ S \subseteq Players
  BY SquadFinite
<1>2. PICK f : f = TicksOf(pos, team) /\ \A p \in S : f[p] = Played(pos[p]) /\ f[p] \in Int
  <2>1. \A p \in S : TicksOf(pos, team)[p] = Played(pos[p]) /\ Played(pos[p]) \in Int
    BY <1>1, PlayedTyped DEF TicksOf
  <2> QED BY <2>1
<1>3. \A p \in S : Minutes(pos[p]) = f[p] /\ MinutesPerPosition(pos[p]) = f[p]
  BY <1>1, <1>2, MinutesIs, MinutesPerPositionIs
<1>4. \A s \in SUBSET S : s # {} => Pick(s) \in S
  BY DEF Pick
<1>5. PICK g \in [SUBSET S -> Int] : Sums(g, f, S)
  BY <1>1, <1>2, SumsExist
<1>6. MapThenSumSet(LAMBDA p : Minutes(pos[p]), S) = Total(f, S)
  <2> DEFINE Solves(h) == h = [s \in SUBSET S |-> IF s = {} THEN 0
                               ELSE Minutes(pos[Pick(s)]) + h[s \ {Pick(s)}]]
  <2>1. MapThenSumSet(LAMBDA p : Minutes(pos[p]), S) = (CHOOSE h : Solves(h))[S]
    BY DEF MapThenSumSet, MapThenFoldSet, Pick
  <2>2. Solves(g)
    BY <1>3, <1>4, <1>5 DEF Sums
  <2>3. PICK h : h = (CHOOSE k : Solves(k)) /\ Solves(h)
    <3> HIDE DEF Solves
    <3> QED BY <2>2
  <2>4. Sums(h, f, S)
    <3>1. ASSUME NEW s \in SUBSET S
          PROVE  h[s] = IF s = {} THEN 0 ELSE Minutes(pos[Pick(s)]) + h[s \ {Pick(s)}]
      BY <2>3
    <3> HIDE DEF Solves
    <3> QED BY <1>3, <1>4, <3>1 DEF Sums
  <2> HIDE DEF Solves
  <2> QED BY <1>1, <1>2, <2>1, <2>3, <2>4, SumIsTotal
<1>7. MapThenSumSet(LAMBDA p : MinutesPerPosition(pos[p]), S) = Total(f, S)
  <2> DEFINE Solves(h) == h = [s \in SUBSET S |-> IF s = {} THEN 0
                               ELSE MinutesPerPosition(pos[Pick(s)]) + h[s \ {Pick(s)}]]
  <2>1. MapThenSumSet(LAMBDA p : MinutesPerPosition(pos[p]), S) = (CHOOSE h : Solves(h))[S]
    BY DEF MapThenSumSet, MapThenFoldSet, Pick
  <2>2. Solves(g)
    BY <1>3, <1>4, <1>5 DEF Sums
  <2>3. PICK h : h = (CHOOSE k : Solves(k)) /\ Solves(h)
    <3> HIDE DEF Solves
    <3> QED BY <2>2
  <2>4. Sums(h, f, S)
    <3>1. ASSUME NEW s \in SUBSET S
          PROVE  h[s] = IF s = {} THEN 0 ELSE MinutesPerPosition(pos[Pick(s)]) + h[s \ {Pick(s)}]
      BY <2>3
    <3> HIDE DEF Solves
    <3> QED BY <1>3, <1>4, <3>1 DEF Sums
  <2> HIDE DEF Solves
  <2> QED BY <1>1, <1>2, <2>1, <2>3, <2>4, SumIsTotal
<1> QED BY <1>1, <1>2, <1>6, <1>7

\* Over all the events of a match, MinutesPlayedAggregator gives each team
\* nobody of which went off unreplaced the length of the match for each of its
\* starters, in total and position by position, whatever the substitutions and
\* the formations; and TimeContainer.ranges does not fail.
THEOREM MinutesAreConserved == Spec => []MinutesConserved
<1> DEFINE Inv == Shape /\ MatchRules /\ SubstitutionRules /\ PositionsDated /\ MinutesHeld
<1>1. Init => Inv
  <2>1. Init => PositionsDated
    BY EmptyIs DEF Init, PositionsDated
  <2>2. Init => SubstitutionRules /\ MinutesHeld
    BY DEF Init, SubstitutionRules, MinutesHeld
  <2> QED BY <2>1, <2>2, ShapeInit, MatchRulesInit
<1>2. Inv /\ [Next]_vars => Inv'
  BY ShapeNext, MatchRulesNext, SubstitutionRulesNext, PositionsDatedNext, MinutesHeldNext
<1>3. Inv => MinutesConserved
  <2> SUFFICES ASSUME Inv, loaded, Len(records) = Len(events) PROVE MinutesConserved
    BY DEF MinutesConserved, Ready
  <2>1. \A p \in Players : IsTimeContainer(positions[p]) /\ EnteredAt(p)
    BY DEF Shape, ContainersKept, MinutesHeld
  <2>2. ASSUME NEW p \in Players PROVE ~RangesRaise(positions[p])
    <3>1. ASSUME RangesRaise(positions[p]) PROVE FALSE
      <4>1. Cardinality(DOMAIN positions[p]) = 1 /\ LastItem(positions[p]) = None
        BY <3>1 DEF RangesRaise
      <4>2. PICK u : DOMAIN positions[p] = {u}
        BY <2>1, <4>1, FS_Singleton DEF IsTimeContainer
      <4>3. positions[p] # Empty
        BY <4>2, EmptyIs
      <4>4. FirstTime(positions[p]) = u /\ LastTime(positions[p]) = u
        BY <2>1, <4>2, <4>3, FirstIsFirst, LastIsLast
      <4> QED BY <2>1, <4>1, <4>3, <4>4 DEF EnteredAt
    <3> QED BY <3>1
  <2>3. ASSUME NEW team \in Teams
        PROVE  /\ MapThenSumSet(LAMBDA p : Minutes(positions[p]), Squad(team)) = FullTime(team)
               /\ MapThenSumSet(LAMBDA p : MinutesPerPosition(positions[p]), Squad(team))
                      = FullTime(team)
    <3>1. Total(TicksOf(positions, team), Squad(team)) = FullTime(team)
      BY DEF MinutesHeld
    <3> QED BY <2>1, <3>1, MinutesOfSquad
  <2> QED BY <2>2, <2>3 DEF MinutesConserved, Squad, FullTime
<1> QED BY <1>1, <1>2, <1>3, PTL DEF Spec

=================================================================================
