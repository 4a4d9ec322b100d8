------------------------------ MODULE AddState ------------------------------
(***************************************************************************)
(* add_state with the builders score and sequence: one pass over the       *)
(* events of a dataset that attaches to each event the state before it,    *)
(* then the post processing of the sequence builder.                       *)
(*                                                                         *)
(* A dataset holds some of the events of a feed.  The sequence builder     *)
(* looks ahead through event.next_record, which in a filtered dataset is   *)
(* the next event of the feed, and in the result of add_state, whose       *)
(* events are new objects, the next event of the dataset.                  *)
(***************************************************************************)
EXTENDS Integers, Sequences, FiniteSets

CONSTANTS
    Teams,     \* the two teams
    None,
    MaxEvents, \* bound on the events of a feed
    MaxFilter  \* bound on the events of a feed that is filtered

ASSUME AddStateAssumption ==
    /\ \E home, away \in Teams : home # away /\ Teams = {home, away}
    /\ None \notin Teams /\ None \notin Nat
    /\ MaxEvents \in Nat /\ MaxFilter \in Nat

VARIABLES
    feed,     \* the events of the feed
    records,  \* numbers of the events of the dataset, ascending
    linked,   \* the events of the dataset are linked to each other
    pc,       \* "feed", "ready", "loop", "post" or "done"
    at,       \* events processed by the running loop
    score,    \* state["score"]: goals per team
    sequence, \* state["sequence"]
    attached, \* the states attached to the events of the dataset so far
    mapping,  \* sequence_id_mapping
    current   \* current_sequence_id

vars == <<feed, records, linked, pc, at, score, sequence, attached, mapping, current>>

\* What the builders distinguish.  "possess": is_possessing_event; "set_piece":
\* one with a SetPieceQualifier; "win": is_ball_winning_defensive_action;
\* "shot", "goal", "own_goal": ShotEvent by result; "stop": BallOutEvent and
\* FoulCommittedEvent; "off_ball": EXCLUDED_OFF_BALL_EVENTS; "other": the rest.
Kind == {"possess", "set_piece", "win", "shot", "goal", "own_goal", "stop", "off_ball", "other"}

Event == [kind : Kind, team : Teams]

Sequence == [id : Nat \cup {None}, team : Teams \cup {None}]

NoSequence == [id |-> None, team |-> None]

Opponent(team) == CHOOSE other \in Teams : other # team

----------------------------------------------------------------------------

EventAt(k) == feed[records[k]]

IsPossessing(e) == e.kind \in {"possess", "set_piece"}

\* event.next_record
HasNext(k) == IF linked THEN k < Len(records) ELSE records[k] < Len(feed)

NextOf(k) == IF linked THEN EventAt(k + 1) ELSE feed[records[k] + 1]

CanOpen(k) ==
    \/ IsPossessing(EventAt(k))
    \/ /\ EventAt(k).kind = "win"
       /\ HasNext(k)
       /\ NextOf(k).team = EventAt(k).team
       /\ IsPossessing(NextOf(k))

\* should_open_sequence with a state
Opens(k, state) ==
    CanOpen(k) /\ (state.team # EventAt(k).team \/ EventAt(k).kind = "set_piece")

\* CLOSE_SEQUENCE
Closes(e) == e.kind \in {"shot", "goal", "own_goal", "stop"}

\* Fault: an own goal counts for the team that scored it
ScoreAfterOwnGoalFor(state, e) ==
    IF e.kind \in {"goal", "own_goal"} THEN [state EXCEPT ![e.team] = @ + 1] ELSE state

\* ScoreStateBuilder.reduce_after
ScoreAfter(state, e) ==
    CASE e.kind = "goal" -> [state EXCEPT ![e.team] = @ + 1]
      [] e.kind = "own_goal" -> [state EXCEPT ![Opponent(e.team)] = @ + 1]
      [] OTHER -> state

\* SequenceStateBuilder.initial_state: the team that opens the first sequence
InitialSequence ==
    LET opening == {k \in DOMAIN records : CanOpen(k)}
    IN  [id |-> 0,
         team |-> IF opening = {} THEN None
                  ELSE EventAt(CHOOSE k \in opening : \A j \in opening : k <= j).team]

\* Fault: the sequence keeps its number
SequenceBeforeSameId(state, k) ==
    IF Opens(k, state) THEN [id |-> state.id, team |-> EventAt(k).team] ELSE state

SequenceBefore(state, k) ==
    IF Opens(k, state) THEN [id |-> state.id + 1, team |-> EventAt(k).team] ELSE state

\* Fault: the ball going out of play leaves the team in possession
SequenceAfterKeepsTeam(state, e) ==
    IF Closes(e) THEN [state EXCEPT !.id = @ + 1] ELSE state

SequenceAfter(state, e) ==
    IF Closes(e) THEN [id |-> state.id + 1, team |-> None] ELSE state

----------------------------------------------------------------------------

Emit(e) ==
    /\ pc = "feed" /\ Len(feed) < MaxEvents
    /\ feed' = Append(feed, e)
    /\ UNCHANGED <<records, linked, pc, at, score, sequence, attached, mapping, current>>

\* the dataset of all the events
Load ==
    /\ pc = "feed"
    /\ pc' = "ready"
    /\ records' = [k \in DOMAIN feed |-> k]
    /\ linked' = TRUE
    /\ UNCHANGED <<feed, at, score, sequence, attached, mapping, current>>

\* Dataset.filter of the loaded dataset: the events kept stay in their order
\* and keep their links
Filter(keep) ==
    /\ pc = "ready" /\ linked /\ Len(feed) <= MaxFilter
    /\ keep # DOMAIN feed
    /\ records' \in [1..Cardinality(keep) -> keep]
    /\ \A j, k \in DOMAIN records' : j < k => records'[j] < records'[k]
    /\ linked' = FALSE
    /\ UNCHANGED <<feed, pc, at, score, sequence, attached, mapping, current>>

Begin ==
    /\ pc \in {"ready", "done"}
    /\ pc' = "loop" /\ at' = 0 /\ attached' = <<>>
    /\ score' = [team \in Teams |-> 0]
    /\ sequence' = InitialSequence
    /\ mapping' = <<>> /\ current' = 1
    /\ UNCHANGED <<feed, records, linked>>

\* one iteration: reduce_before, attach, reduce_after
Step ==
    /\ pc = "loop" /\ at < Len(records)
    /\ LET k == at + 1
           before == SequenceBefore(sequence, k)
       IN  /\ at' = k
           /\ attached' = Append(attached, [score |-> score, sequence |-> before])
           /\ sequence' = SequenceAfter(before, EventAt(k))
           /\ score' = ScoreAfter(score, EventAt(k))
    /\ UNCHANGED <<feed, records, linked, pc, mapping, current>>

EndLoop ==
    /\ pc = "loop" /\ at = Len(records)
    /\ pc' = "post" /\ at' = 0
    /\ UNCHANGED <<feed, records, linked, score, sequence, attached, mapping, current>>

\* Fault: every event in a sequence takes a new number
RenumberAlways(id) == current

\* Fault: the numbers of the builder are kept
RenumberNot(id) == id + 1

\* sequence_id_mapping.setdefault(sequence_id, current_sequence_id)
Renumber(id) == IF id \in DOMAIN mapping THEN mapping[id] ELSE current

\* one iteration of post_process
PostProcess ==
    /\ pc = "post" /\ at < Len(records)
    /\ LET k == at + 1
           seq == attached[k].sequence
           new == Renumber(seq.id)
       IN  /\ at' = k
           /\ IF EventAt(k).kind = "off_ball" \/ seq.team = None
              THEN /\ attached' = [attached EXCEPT ![k].sequence = NoSequence]
                   /\ UNCHANGED <<mapping, current>>
              ELSE /\ mapping' = [id \in DOMAIN mapping \cup {seq.id} |->
                                      IF id = seq.id THEN new ELSE mapping[id]]
                   /\ current' = IF new = current THEN current + 1 ELSE current
                   /\ attached' = [attached EXCEPT ![k].sequence.id = new]
    /\ UNCHANGED <<feed, records, linked, pc, score, sequence>>

\* replace(dataset, records=events): the new events are linked
Return ==
    /\ pc = "post" /\ at = Len(records)
    /\ pc' = "done" /\ linked' = TRUE
    /\ UNCHANGED <<feed, records, at, score, sequence, attached, mapping, current>>

Init ==
    /\ feed = <<>> /\ records = <<>> /\ linked = TRUE
    /\ pc = "feed" /\ at = 0
    /\ score = [team \in Teams |-> 0] /\ sequence = [id |-> 0, team |-> None]
    /\ attached = <<>> /\ mapping = <<>> /\ current = 1

Next ==
    \/ \E e \in Event : Emit(e)
    \/ Load
    \/ \E keep \in SUBSET DOMAIN feed : Filter(keep)
    \/ Begin \/ Step \/ EndLoop \/ PostProcess \/ Return

Spec == Init /\ [][Next]_vars

----------------------------------------------------------------------------

State == [score : [Teams -> Nat], sequence : Sequence]

TypeOK ==
    /\ feed \in Seq(Event)
    /\ records \in Seq(1..Len(feed))
    /\ linked \in BOOLEAN
    /\ pc \in {"feed", "ready", "loop", "post", "done"}
    /\ at \in 0..Len(records)
    /\ score \in [Teams -> Nat]
    /\ sequence \in [id : Nat, team : Teams \cup {None}]
    /\ attached \in Seq(State)
    /\ \A id \in DOMAIN mapping : mapping[id] \in 1..(current - 1)
    /\ current \in Nat \ {0}

\* the events before the k-th of the dataset that count for team
GoalsBefore(k, team) ==
    {j \in 1..(k-1) :
        \/ EventAt(j).kind = "goal" /\ EventAt(j).team = team
        \/ EventAt(j).kind = "own_goal" /\ EventAt(j).team # team}

\* The score attached to an event is the number of goals for each team before
\* it: the goal itself does not count yet, and an own goal counts for the
\* other team.  (add_state, ScoreStateBuilder)
ScoreExact ==
    \A k \in DOMAIN attached, team \in Teams :
        attached[k].score[team] = Cardinality(GoalsBefore(k, team))

\* The team in control when the k-th event happens, from the whole past: that
\* of the latest event able to open a sequence unless play stopped since, and
\* before the first of those the team that will open.
Control(k) ==
    LET stopped(a, b) == \E j \in a..b : Closes(EventAt(j))
        openers == {j \in 1..k : CanOpen(j) /\ ~stopped(j, k - 1)}
    IN  IF openers # {} THEN EventAt(CHOOSE j \in openers : \A i \in openers : i <= j).team
        ELSE IF stopped(1, k - 1) THEN None
        ELSE InitialSequence.team

\* The events are ready, and still have the links the builders followed.
Processed == pc = "post" /\ at = Len(records)

\* Every event but the off-ball ones carries the team in control, in a dataset
\* of all the events as well as in a filtered one.  (SequenceStateBuilder)
PossessionExact ==
    Processed =>
        \A k \in DOMAIN attached :
            LET seq == attached[k].sequence
            IN  /\ seq.team = IF EventAt(k).kind = "off_ball" THEN None ELSE Control(k)
                /\ seq.id = None <=> seq.team = None

\* Two events have the same sequence number exactly when, from the one to the
\* other, play does not stop, control does not change and no set piece is
\* taken, whatever off-ball events lie between.  (reduce_before, post_process)
SequenceSplit ==
    Processed =>
        \A j, k \in DOMAIN attached :
            (j < k /\ attached[j].sequence # NoSequence /\ attached[k].sequence # NoSequence) =>
                (attached[j].sequence.id = attached[k].sequence.id <=>
                    \A b \in j..(k-1) : /\ ~Closes(EventAt(b))
                                       /\ Control(b) = Control(b + 1)
                                       /\ EventAt(b + 1).kind # "set_piece")

\* The sequences of any dataset, filtered or not, are numbered 1, 2, 3, ... in
\* the order of their first events, and a number never returns after the next
\* one.  (post_process)
SequencesNumbered ==
    Processed =>
        LET numbered == {k \in DOMAIN attached : attached[k].sequence.id # None}
            id(k) == attached[k].sequence.id
        IN  \A k \in numbered :
                LET before == {j \in numbered : j < k}
                IN  IF before = {} THEN id(k) = 1
                    ELSE \E j \in before : /\ \A i \in before : i <= j
                                           /\ id(k) \in {id(j), id(j) + 1}

============================================================================
