----------------------------- MODULE Positions -----------------------------
(***************************************************************************)
(* Player positions and team formations over time.                         *)
(*                                                                         *)
(* Player.positions and Team.formations are TimeContainers that live in    *)
(* the metadata, which a dataset shares with every dataset derived from    *)
(* it.  Each Dataset.__post_init__ empties and refills them from its own   *)
(* records: a loop over the records, here one step per record.             *)
(*                                                                         *)
(* Match actions produce the events of a possible match, with the players  *)
(* on the pitch as the rules allow; session actions build datasets from    *)
(* them.  A TimeContainer is a function from its keys to its items.        *)
(***************************************************************************)
EXTENDS Clock, Sequences, FiniteSetsExt

CONSTANTS
    Players,
    Teams,
    TeamOf,            \* player.team
    Starters,          \* players with player.starting
    PositionTypes,     \* includes Unknown
    StartingPosition,  \* player.starting_position
    FormationTypes,
    StartingFormation, \* team.starting_formation, or None
    Unknown,           \* PositionType.Unknown
    None,
    NotFound,          \* the KeyError of value_at
    GivenPositions,    \* event.position of substitutions
    Leeway,            \* max_leeway, 60 seconds
    EventTimes,        \* times of events
    MaxEvents          \* bound on the events of a match

ASSUME PositionsAssumption ==
    /\ TeamOf \in [Players -> Teams]
    /\ Starters \subseteq Players
    /\ IsFiniteSet(Players)
    /\ Unknown \in PositionTypes
    /\ StartingPosition \in [Starters -> PositionTypes]
    /\ StartingFormation \in [Teams -> FormationTypes \cup {None}]
    /\ None \notin PositionTypes /\ None \notin FormationTypes /\ None \notin Players
    /\ NotFound \notin PositionTypes \cup FormationTypes \cup {None}
    /\ GivenPositions \subseteq PositionTypes \cup {None}
    /\ Leeway \in Nat \ {0} /\ MaxEvents \in Nat
    /\ EventTimes \subseteq Time

VARIABLES
    events,     \* the events of the match, in feed order
    loaded,     \* the first dataset has been built
    records,    \* numbers of the events in the dataset built last
    done,       \* how many of them _update_formations_and_positions has seen
    positions,  \* player.positions
    formations, \* team.formations
    seen        \* positions and formations of the loaded dataset, as they were
                \* before the first dataset was derived; <<>> until then

vars == <<events, loaded, records, done, positions, formations, seen>>

----------------------------------------------------------------------------
\* TimeContainer

Empty == <<>>

Put(c, t, item) == [u \in DOMAIN c \cup {t} |-> IF u = t THEN item ELSE c[u]]

LastTime(c) == CHOOSE t \in DOMAIN c : \A u \in DOMAIN c : NotAfter(u, t)

FirstTime(c) == CHOOSE t \in DOMAIN c : \A u \in DOMAIN c : NotAfter(t, u)

LastItem(c) == c[LastTime(c)]

ValueAt(c, t) ==
    LET until == {u \in DOMAIN c : NotAfter(u, t)}
    IN  IF until = {} THEN NotFound
        ELSE c[CHOOSE u \in until : \A w \in until : NotAfter(w, u)]

\* the ValueError of ranges: a lone item that ends a range nobody started
RangesRaise(c) == Cardinality(DOMAIN c) = 1 /\ LastItem(c) = None

\* where the range that starts at key t ends
RangeEnd(c, t) ==
    LET later == {u \in DOMAIN c : Before(t, u)}
    IN  IF later = {} THEN EndOfMatch
        ELSE CHOOSE u \in later : \A w \in later : NotAfter(u, w)

\* the keys that start a range: an item that is None at the end starts none
RangeStarts(c) ==
    IF DOMAIN c # {} /\ LastItem(c) = None THEN DOMAIN c \ {LastTime(c)} ELSE DOMAIN c

\* MinutesPlayedAggregator: the first start to the last end, and by position
Minutes(c) ==
    IF RangeStarts(c) = {} THEN 0
    ELSE LET end == IF LastItem(c) = None THEN LastTime(c) ELSE EndOfMatch
         IN  MinusTime(end, FirstTime(c))

MinutesPerPosition(c) ==
    MapThenSumSet(LAMBDA t : MinusTime(RangeEnd(c, t), t), RangeStarts(c))

----------------------------------------------------------------------------
\* The state builders lineup and formation, which read the same events

LineupAfter(state, e) ==
    CASE e.type = "substitution" -> (state \ {e.player}) \cup {e.replacement_player}
      [] e.type \in {"red_card", "player_off"} -> state \ {e.player}
      [] e.type = "player_on" -> state \cup {e.player}
      [] OTHER -> state

\* the lineup after each of the events evs
Lineup(evs) ==
    LET state[n \in 0..Len(evs)] == IF n = 0 THEN Starters ELSE LineupAfter(state[n-1], evs[n])
    IN  state

Formation(evs, team) ==
    LET state[n \in 0..Len(evs)] ==
            IF n = 0 THEN StartingFormation[team]
            ELSE IF evs[n].type = "formation_change" /\ evs[n].team = team
                 THEN evs[n].formation_type ELSE state[n-1]
    IN  state

----------------------------------------------------------------------------
\* A match: each event is one the rules and the providers allow.

OnPitch == Lineup(events)[Len(events)] \ {None}

\* players who have been on the pitch, or are
Used == Starters \cup {events[k].replacement_player :
                          k \in {j \in DOMAIN events : events[j].type = "substitution"}}

SentOff == {events[k].player : k \in {j \in DOMAIN events : events[j].type = "red_card"}}

\* players outside the lineup who have not been replaced
Away == {p \in Used \ {None} : /\ p \notin OnPitch
                               /\ \A k \in DOMAIN events :
                                     events[k].type = "substitution" => events[k].player # p}

\* not yet happened: events are in the order of their times
MayOccur(t) == \A k \in DOMAIN events : NotAfter(events[k].time, t)

Emit(e) == /\ ~loaded /\ Len(events) < MaxEvents
           /\ MayOccur(e.time)
           /\ events' = Append(events, e)
           /\ UNCHANGED <<loaded, records, done, positions, formations, seen>>

\* a player is not replaced at the very time he came on
CameOnAt(p, t) ==
    \/ p \in Starters /\ t = StartOfMatch
    \/ \E k \in DOMAIN events : /\ events[k].type = "substitution"
                                /\ events[k].replacement_player = p
                                /\ events[k].time = t

Substitution ==
    \E p \in OnPitch \cup (Away \ SentOff), r \in Players \cup {None},
       pos \in GivenPositions, t \in EventTimes :
        /\ r # None => r \notin Used /\ TeamOf[r] = TeamOf[p]
        /\ ~CameOnAt(p, t)
        /\ Emit([type |-> "substitution", time |-> t, player |-> p,
                 replacement_player |-> r, position |-> pos])

\* the positions announced are those of the team's players on the pitch
FormationChange ==
    \E team \in Teams, f \in FormationTypes, t \in EventTimes :
        \E P \in {{}, {p \in OnPitch : TeamOf[p] = team}} :
            \E pos \in [P -> PositionTypes \ {Unknown}] :
                Emit([type |-> "formation_change", time |-> t, team |-> team,
                      formation_type |-> f, player_positions |-> pos])

RedCard == \E p \in OnPitch, t \in EventTimes :
               Emit([type |-> "red_card", time |-> t, player |-> p])

PlayerOff == \E p \in OnPitch, t \in EventTimes :
                 Emit([type |-> "player_off", time |-> t, player |-> p])

PlayerOn == \E p \in Away \ SentOff, t \in EventTimes :
                Emit([type |-> "player_on", time |-> t, player |-> p])

----------------------------------------------------------------------------
\* A session: building datasets

\* _init_player_positions
InitialPositions ==
    [p \in Players |-> IF p \in Starters THEN Put(Empty, StartOfMatch, StartingPosition[p])
                       ELSE Empty]

\* Fault: positions are set without emptying the containers
ResetPositionsNot(pos) ==
    [p \in Players |-> IF p \in Starters THEN Put(pos[p], StartOfMatch, StartingPosition[p])
                       ELSE pos[p]]

ResetPositions(pos) == InitialPositions

ResetFormations(form) == [team \in Teams |-> Empty]

\* A dataset over the events numbered by S: the deserializer's first one, or
\* one that filter, map, transform or add_state derives with the same metadata.
Construct(S) ==
    /\ records' \in [1..Cardinality(S) -> S]
    /\ \A j, k \in DOMAIN records' : j < k => records'[j] < records'[k]
    /\ done' = 0
    /\ positions' = ResetPositions(positions)
    /\ formations' = ResetFormations(formations)
    /\ UNCHANGED events

Ready == loaded /\ done = Len(records)

Load == ~loaded /\ loaded' = TRUE /\ Construct(DOMAIN events) /\ UNCHANGED seen

Derive ==
    \E S \in SUBSET DOMAIN events :
        /\ Ready
        /\ Construct(S)
        /\ seen' = IF seen = <<>> THEN <<positions, formations>> ELSE seen
        /\ UNCHANGED loaded

\* Fault: the substituted player keeps his position
AfterSubstitutionBothOn(pos, e) ==
    IF e.replacement_player = None THEN pos
    ELSE [pos EXCEPT ![e.replacement_player] = Put(@, e.time, LastItem(pos[e.player]))]

\* Fault: the player is taken off before his position is read
AfterSubstitutionOffFirst(pos, e) ==
    IF e.replacement_player = None THEN pos
    ELSE [pos EXCEPT ![e.player] = Put(@, e.time, None),
                     ![e.replacement_player] =
                         Put(@, e.time, IF e.position # None THEN e.position ELSE None)]

\* a substitution without a replacement only warns
AfterSubstitution(pos, e) ==
    LET out == pos[e.player]
        item == IF e.position # None THEN e.position
                ELSE IF out = Empty THEN Unknown
                ELSE LastItem(out)
    IN  IF e.replacement_player = None THEN pos
        ELSE [pos EXCEPT ![e.replacement_player] = Put(@, e.time, item),
                         ![e.player] = Put(@, e.time, None)]

\* Fault: the time of the last item is used however long ago it is
AfterFormationChangeRetroactive(pos, e) ==
    [p \in Players |->
        IF \/ p \notin DOMAIN e.player_positions
           \/ pos[p] = Empty
           \/ LastItem(pos[p]) = e.player_positions[p]
        THEN pos[p]
        ELSE Put(pos[p], LastTime(pos[p]), e.player_positions[p])]

\* A position announced within the leeway of the player's last item replaces
\* that item.
AfterFormationChange(pos, e) ==
    [p \in Players |->
        IF \/ p \notin DOMAIN e.player_positions
           \/ pos[p] = Empty
           \/ LastItem(pos[p]) = e.player_positions[p]
        THEN pos[p]
        ELSE Put(pos[p],
                 IF MinusTime(e.time, LastTime(pos[p])) < Leeway THEN LastTime(pos[p]) ELSE e.time,
                 e.player_positions[p])]

\* Fault: compares with the starting formation only
NewFormationFromStart(form, e) ==
    IF e.formation_type = StartingFormation[e.team] THEN form
    ELSE [form EXCEPT ![e.team] = Put(@, e.time, e.formation_type)]

NewFormation(form, e) ==
    LET items == form[e.team]
        current == IF items # Empty THEN LastItem(items) ELSE StartingFormation[e.team]
    IN  IF e.formation_type = current THEN form
        ELSE [form EXCEPT ![e.team] = Put(@, e.time, e.formation_type)]

\* the body of the loop of _update_formations_and_positions
UpdateWith(e) ==
    CASE e.type = "substitution" ->
            positions' = AfterSubstitution(positions, e) /\ UNCHANGED formations
      [] e.type = "formation_change" ->
            /\ positions' = AfterFormationChange(positions, e)
            /\ formations' = NewFormation(formations, e)
      [] OTHER -> UNCHANGED <<positions, formations>>

Update ==
    /\ loaded /\ done < Len(records)
    /\ done' = done + 1
    /\ UpdateWith(events[records[done + 1]])
    /\ UNCHANGED <<events, loaded, records, seen>>

Init ==
    /\ events = <<>> /\ loaded = FALSE /\ records = <<>> /\ done = 0
    /\ positions = [p \in Players |-> Empty]
    /\ formations = [team \in Teams |-> Empty]
    /\ seen = <<>>

Next ==
    \/ Substitution \/ FormationChange \/ RedCard \/ PlayerOff \/ PlayerOn
    \/ Load \/ Derive \/ Update

Spec == Init /\ [][Next]_vars

----------------------------------------------------------------------------

IsContainer(c, S) == DOMAIN c \subseteq Time /\ \A t \in DOMAIN c : c[t] \in S

TypeOK ==
    /\ \A k \in DOMAIN events : events[k].time \in EventTimes
    /\ loaded \in BOOLEAN
    /\ records \in Seq(DOMAIN events)
    /\ done \in 0..Len(records)
    /\ \A p \in Players : IsContainer(positions[p], PositionTypes \cup {None})
    /\ \A team \in Teams : IsContainer(formations[team], FormationTypes)

\* the events of the dataset built last, and how many are not after t
Evs == [k \in DOMAIN records |-> events[records[k]]]

CountUntil(t) == Cardinality({k \in DOMAIN records : NotAfter(Evs[k].time, t)})

HasPosition(p, t) == ValueAt(positions[p], t) \notin {NotFound, None}

\* Positions ignore cards, players off and on, and players nobody replaced.
Ignored(t) ==
    {Evs[k].player : k \in {j \in 1..CountUntil(t) :
        \/ Evs[j].type \in {"red_card", "player_off", "player_on"}
        \/ Evs[j].type = "substitution" /\ Evs[j].replacement_player = None}}

\* Two parts of the code keep the players on the pitch: the state builder
\* lineup, event by event, and player.positions, by time.  For whichever
\* events a dataset holds they agree at every time, except on the players
\* whose events positions ignore.
OnPitchAgree ==
    Ready => \A t \in EventTimes : \A p \in Players \ Ignored(t) :
                 HasPosition(p, t) <=> p \in Lineup(Evs)[CountUntil(t)]

\* team.formations at a time, or the starting formation before its first
\* item, is the formation the state builder formation attaches to the events
\* that follow that time.
FormationAgree ==
    Ready => \A t \in EventTimes, team \in Teams :
                 LET item == ValueAt(formations[team], t)
                 IN  Formation(Evs, team)[CountUntil(t)] =
                         IF item = NotFound THEN StartingFormation[team] ELSE item

\* Players who went off and were not replaced at that moment: shown a red card,
\* off for a while, or substituted by nobody.
LeftUnreplaced ==
    {events[k].player : k \in {j \in DOMAIN events :
        \/ events[j].type \in {"red_card", "player_off"}
        \/ events[j].type = "substitution" /\ events[j].replacement_player = None}}

\* Over all the events of a match, the minutes played of a team nobody of
\* which went off unreplaced add up to the length of the match for each of its
\* starters, in total and by position; and the aggregator fails for no player
\* of any team.  The other teams are left out: positions ignore such events,
\* so the sums count minutes of players who were off the pitch, and
\* docs/user-guide/concepts/positions/index.md:154 says otherwise ("a player's
\* position will be `None` if not on the pitch").
MinutesConserved ==
    (Ready /\ Len(records) = Len(events)) =>
        /\ \A p \in Players : ~RangesRaise(positions[p])
        /\ \A team \in Teams \ {TeamOf[p] : p \in LeftUnreplaced} :
              LET all == Cardinality({p \in Starters : TeamOf[p] = team}) * TotalTicks
                  squad == {p \in Players : TeamOf[p] = team}
              IN  /\ MapThenSumSet(LAMBDA p : Minutes(positions[p]), squad) = all
                  /\ MapThenSumSet(LAMBDA p : MinutesPerPosition(positions[p]), squad) = all

\* However datasets are derived in between, building one over all the events
\* gives positions and formations what the loaded dataset showed.
RebuildSame ==
    (Ready /\ seen # <<>> /\ Len(records) = Len(events)) => seen = <<positions, formations>>

\* An event changes no position held a leeway or more before it, if no event
\* comes after the reported end of its period.
HistoryStable ==
    [][\A p \in Players, t \in EventTimes \cup {StartOfMatch} :
           (done' = done + 1 /\ MinusTime(Evs[done + 1].time, t) >= Leeway) =>
               ValueAt(positions'[p], t) = ValueAt(positions[p], t)]_vars

\* "`filter`: return a new dataset" (docs/user-guide/querying-data/selections/
\* index.md:12): the loaded dataset still shows the positions it showed.
FilterLeavesLoaded == (Ready /\ seen # <<>>) => seen = <<positions, formations>>


============================================================================
