--------------------------- MODULE AddState_proofs ---------------------------
(***************************************************************************)
(* What add_state attaches, for feeds of any length, any two teams and any *)
(* filter: the exact score, the team in control, where sequences change    *)
(* and how they are numbered.                                              *)
(***************************************************************************)
EXTENDS AddState, FiniteLemmas, SequenceTheorems

----------------------------------------------------------------------------
\* The events that still carry the number the builder gave them.
Raw == IF pc = "loop" THEN 1..at ELSE (at + 1)..Len(records)

\* The events post processed so far, and those of them in a sequence.
Done     == 1..at
Numbered == {k \in Done : attached[k].sequence # NoSequence}

Number(k) == attached[k].sequence.id

\* From the j-th event to the k-th nothing ends a sequence.
Continues(j, k) ==
    \A b \in j..(k-1) : /\ ~Closes(EventAt(b))
                        /\ Control(b) = Control(b + 1)
                        /\ EventAt(b + 1).kind # "set_piece"

\* The team in control after the k-th event.
Held(k) ==
    IF k = 0 THEN InitialSequence.team
    ELSE IF Closes(EventAt(k)) THEN None ELSE Control(k)

Typed ==
    /\ TypeOK
    /\ pc = "feed" => records = <<>>
    /\ pc \in {"feed", "ready"} => at = 0 /\ attached = <<>>
    /\ pc = "loop" => Len(attached) = at /\ mapping = <<>> /\ current = 1
    /\ pc \in {"post", "done"} => Len(attached) = Len(records)

\* The running score is exact for the next event.
ScoreCounts ==
    pc = "loop" => \A team \in Teams : score[team] = Cardinality(GoalsBefore(at + 1, team))

\* Before post processing an event carries the team in control, after it only
\* when it is not an off-ball event.
TeamsHeld ==
    /\ pc = "loop" => sequence.team = Held(at)
    /\ pc \in {"loop", "post"} =>
           \A k \in Raw : Number(k) \in Nat /\ attached[k].sequence.team = Control(k)
    /\ pc = "post" =>
           \A k \in Done :
               LET seq == attached[k].sequence
               IN  /\ seq.team = IF EventAt(k).kind = "off_ball" THEN None ELSE Control(k)
                   /\ seq.id = None <=> seq.team = None

\* The builder's numbers never decrease, and grow where a sequence ends.
RawSplit ==
    /\ pc \in {"loop", "post"} =>
           \A j, k \in Raw : j < k => /\ Number(j) <= Number(k)
                                      /\ Number(j) = Number(k) <=> Continues(j, k)
    /\ pc = "loop" /\ at > 0 =>
           sequence.id = IF Closes(EventAt(at)) THEN Number(at) + 1 ELSE Number(at)

\* The mapping relates the new numbers to those of the builder that are left.
MappingTells ==
    pc = "post" =>
        /\ \A a, b \in DOMAIN mapping : mapping[a] = mapping[b] => a = b
        /\ \A id \in DOMAIN mapping : id \in Nat /\ \A k \in Raw : id <= Number(k)
        /\ \A k \in Raw : Number(k) \in DOMAIN mapping => mapping[Number(k)] = current - 1
        /\ \A j \in Numbered, k \in Raw :
               Continues(j, k) <=>
                   (Number(k) \in DOMAIN mapping /\ mapping[Number(k)] = Number(j))

\* Events post processed: split where sequences end, numbered 1, 2, 3, ...
NumberedSplit ==
    pc = "post" =>
        /\ \A j \in Numbered : Number(j) \in 1..(current - 1)
        /\ \A j, k \in Numbered : j < k => (Number(j) = Number(k) <=> Continues(j, k))

NumberedOn ==
    pc = "post" =>
        /\ IF Numbered = {} THEN current = 1
           ELSE \E j \in Numbered : Number(j) = current - 1 /\ \A i \in Numbered : i <= j
        /\ \A k \in Numbered :
               LET before == {j \in Numbered : j < k}
               IN  IF before = {} THEN Number(k) = 1
                   ELSE \E j \in before : /\ \A i \in before : i <= j
                                          /\ Number(k) \in {Number(j), Number(j) + 1}

AddStateInv ==
    /\ Typed /\ ScoreExact /\ ScoreCounts /\ TeamsHeld
    /\ RawSplit /\ MappingTells /\ NumberedSplit /\ NumberedOn

----------------------------------------------------------------------------
\* The operators of the model.

\* There is exactly one other team.
LEMMA OtherTeam ==
    ASSUME NEW team \in Teams
    PROVE  /\ Opponent(team) \in Teams
           /\ \A other \in Teams : other # team <=> other = Opponent(team)
BY AddStateAssumption DEF Opponent

\* What is said of an event depends on the feed and the dataset alone.
LEMMA SameDataset ==
    ASSUME UNCHANGED <<feed, records, linked>>
    PROVE  /\ InitialSequence' = InitialSequence
           /\ \A k : /\ EventAt(k)' = EventAt(k)
                     /\ CanOpen(k)' = CanOpen(k)
                     /\ Control(k)' = Control(k)
                     /\ Held(k)' = Held(k)
                     /\ \A j : Continues(j, k)' = Continues(j, k)
                     /\ \A team : GoalsBefore(k, team)' = GoalsBefore(k, team)
<1>1. ASSUME NEW k PROVE EventAt(k)' = EventAt(k)
  BY DEF EventAt
<1>2. ASSUME NEW k PROVE CanOpen(k)' = CanOpen(k)
  BY DEF CanOpen, EventAt, HasNext, NextOf, IsPossessing
<1>3. InitialSequence' = InitialSequence
  BY DEF InitialSequence, CanOpen, EventAt, HasNext, NextOf, IsPossessing
<1>4. ASSUME NEW k PROVE Control(k)' = Control(k)
  <2> DEFINE stopped(a, b) == \E j \in a..b : Closes(EventAt(j))
             openers == {j \in 1..k : CanOpen(j) /\ ~stopped(j, k - 1)}
             latest == CHOOSE j \in openers : \A i \in openers : i <= j
  <2>1. \A a, b : stopped(a, b)' = stopped(a, b)
    BY <1>1 DEF Closes
  <2>2. openers' = openers
    BY <1>2, <2>1
  <2> HIDE DEF openers
  <2>3. latest' = latest
    BY <2>2
  <2>4. Control(k) = IF openers # {} THEN EventAt(latest).team
                     ELSE IF stopped(1, k - 1) THEN None ELSE InitialSequence.team
    BY DEF Control, openers
  <2>5. Control(k)' = IF openers' # {} THEN EventAt(latest)'.team
                      ELSE IF stopped(1, k - 1)' THEN None ELSE InitialSequence'.team
    BY DEF Control, openers
  <2>6. EventAt(latest)' = EventAt(latest)
    BY <2>3 DEF EventAt
  <2> HIDE DEF latest, stopped
  <2> QED BY <1>3, <2>1, <2>2, <2>4, <2>5, <2>6
<1>5. ASSUME NEW k PROVE Held(k)' = Held(k)
  BY <1>1, <1>3, <1>4 DEF Held, Closes
<1>6. ASSUME NEW k, NEW j PROVE Continues(j, k)' = Continues(j, k)
  BY <1>1, <1>4 DEF Continues, Closes
<1>7. ASSUME NEW k, NEW team PROVE GoalsBefore(k, team)' = GoalsBefore(k, team)
  BY <1>1 DEF GoalsBefore
<1> QED BY <1>1, <1>2, <1>3, <1>4, <1>5, <1>6, <1>7

\* An event able to open a sequence takes control, any other leaves it where
\* the events before it left it.
LEMMA ControlAfter ==
    ASSUME NEW k \in Nat \ {0}
    PROVE  Control(k) = IF CanOpen(k) THEN EventAt(k).team ELSE Held(k - 1)
<1> DEFINE stopped(a, b) == \E j \in a..b : Closes(EventAt(j))
           openers(n) == {j \in 1..n : CanOpen(j) /\ ~stopped(j, n - 1)}
           latest(n) == CHOOSE j \in openers(n) : \A i \in openers(n) : i <= j
<1>1. \A n : Control(n) = IF openers(n) # {} THEN EventAt(latest(n)).team
                          ELSE IF stopped(1, n - 1) THEN None ELSE InitialSequence.team
  BY DEF Control
<1>2. CASE CanOpen(k)
  <2>1. k \in openers(k) /\ \A i \in openers(k) : i \in Nat /\ i <= k
    BY <1>2
  <2> HIDE DEF openers
  <2>2. latest(k) = k
    BY <2>1
  <2> QED BY <1>1, <1>2, <2>1, <2>2
<1>3. CASE ~ CanOpen(k) /\ k = 1
  <2>1. openers(1) = {} /\ ~ stopped(1, 0)
    BY <1>3
  <2> QED BY <1>1, <1>3, <2>1 DEF Held
<1>4. CASE ~ CanOpen(k) /\ k # 1 /\ Closes(EventAt(k - 1))
  <2>1. openers(k) = {} /\ stopped(1, k - 1)
    BY <1>4
  <2> QED BY <1>1, <1>4, <2>1 DEF Held
<1>5. CASE ~ CanOpen(k) /\ k # 1 /\ ~ Closes(EventAt(k - 1))
  <2>1. \A a \in 1..(k-1) : stopped(a, k - 1) <=> stopped(a, k - 2)
    BY <1>5
  <2>2. openers(k) = openers(k - 1)
    BY <1>5, <2>1
  <2>3. stopped(1, k - 1) <=> stopped(1, k - 2)
    BY <1>5, <2>1
  <2> HIDE DEF openers, stopped
  <2>4. Control(k) = Control(k - 1)
    BY <1>1, <2>2, <2>3
  <2> QED BY <1>5, <2>4 DEF Held
<1> QED BY <1>2, <1>3, <1>4, <1>5

\* No sequence ends from j to l when none ends from j to k and from k to l.
LEMMA ContinuesThrough ==
    ASSUME NEW j \in Nat, NEW k \in Nat, NEW l \in Nat, j <= k, k <= l
    PROVE  Continues(j, l) <=> Continues(j, k) /\ Continues(k, l)
<1>1. j..(l-1) = (j..(k-1)) \cup (k..(l-1))
  OBVIOUS
<1> QED BY <1>1 DEF Continues

\* A sequence goes on to the next event unless the builder takes a new number.
LEMMA ContinuesOn ==
    ASSUME NEW k \in Nat \ {0}
    PROVE  Continues(k, k + 1) <=>
               /\ ~Closes(EventAt(k))
               /\ ~ /\ CanOpen(k + 1)
                    /\ \/ Control(k) # EventAt(k + 1).team
                       \/ EventAt(k + 1).kind = "set_piece"
<1>1. k..(k + 1 - 1) = {k}
  OBVIOUS
<1>2. Control(k + 1) = IF CanOpen(k + 1) THEN EventAt(k + 1).team ELSE Held(k)
  BY ControlAfter
<1>3. EventAt(k + 1).kind = "set_piece" => CanOpen(k + 1)
  BY DEF CanOpen, IsPossessing
<1> QED BY <1>1, <1>2, <1>3 DEF Continues, Held

\* One more event counts for a team or does not.
LEMMA GoalsCounted ==
    ASSUME NEW k \in Nat \ {0}, NEW team \in Teams
    PROVE  /\ Cardinality(GoalsBefore(k, team)) \in Nat
           /\ Cardinality(GoalsBefore(k + 1, team)) =
                  Cardinality(GoalsBefore(k, team)) +
                      IF \/ EventAt(k).kind = "goal" /\ EventAt(k).team = team
                         \/ EventAt(k).kind = "own_goal" /\ EventAt(k).team # team
                      THEN 1 ELSE 0
<1> DEFINE counts == \/ EventAt(k).kind = "goal" /\ EventAt(k).team = team
                     \/ EventAt(k).kind = "own_goal" /\ EventAt(k).team # team
<1>1. IsFiniteSet(GoalsBefore(k, team))
  <2>1. GoalsBefore(k, team) \subseteq 1..(k-1)
    BY DEF GoalsBefore
  <2>2. IsFiniteSet(1..(k-1))
    BY FS_Interval
  <2> QED BY <2>1, <2>2, FS_Subset
<1>2. k \notin GoalsBefore(k, team)
  BY DEF GoalsBefore
<1>3. GoalsBefore(k + 1, team) = GoalsBefore(k, team) \cup (IF counts THEN {k} ELSE {})
  <2>1. 1..(k + 1 - 1) = (1..(k-1)) \cup {k}
    OBVIOUS
  <2> QED BY <2>1 DEF GoalsBefore
<1> HIDE DEF counts
<1>4. Cardinality(GoalsBefore(k, team)) \in Nat
  BY <1>1, FS_CardinalityType
<1>5. CASE counts
  <2>1. Cardinality(GoalsBefore(k, team) \cup {k}) = Cardinality(GoalsBefore(k, team)) + 1
    BY <1>1, <1>2, FS_AddElement
  <2> QED BY <1>3, <1>4, <1>5, <2>1 DEF counts
<1>6. CASE ~counts
  <2>1. GoalsBefore(k + 1, team) = GoalsBefore(k, team)
    BY <1>3, <1>6
  <2> QED BY <1>4, <1>6, <2>1 DEF counts
<1> QED BY <1>5, <1>6

----------------------------------------------------------------------------
\* Types.  The dataset holds events of the feed, and one state per event.

LEMMA EventTyped ==
    ASSUME TypeOK, NEW k \in 1..Len(records)
    PROVE  records[k] \in 1..Len(feed) /\ EventAt(k) \in Event /\ EventAt(k).team \in Teams
<1>1. records[k] \in 1..Len(feed)
  BY DEF TypeOK
<1>2. feed[records[k]] \in Event
  BY <1>1 DEF TypeOK
<1> QED BY <1>1, <1>2 DEF EventAt, Event

LEMMA FunctionIsSeq ==
    ASSUME NEW S, NEW n \in Nat, NEW s \in [1..n -> S]
    PROVE  s \in Seq(S) /\ Len(s) = n
OBVIOUS

\* The builder starts with the team of the first event able to open a sequence.
LEMMA InitialSequenceTyped ==
    ASSUME TypeOK
    PROVE  /\ InitialSequence \in [id : Nat, team : Teams \cup {None}]
           /\ InitialSequence.id = 0
<1> DEFINE opening == {k \in DOMAIN records : CanOpen(k)}
           first == CHOOSE k \in opening : \A j \in opening : k <= j
           team == IF opening = {} THEN None ELSE EventAt(first).team
<1>1. DOMAIN records = 1..Len(records) /\ Len(records) \in Nat
  BY DEF TypeOK
<1>2. InitialSequence = [id |-> 0, team |-> team]
  BY DEF InitialSequence
<1>3. team \in Teams \cup {None}
  <2>1. opening \in SUBSET Nat /\ opening \subseteq 1..Len(records)
    BY <1>1
  <2>2. IsFiniteSet(opening)
    <3>1. IsFiniteSet(1..Len(records))
      BY <1>1, FS_Interval
    <3> QED BY <2>1, <3>1, FS_Subset
  <2> HIDE DEF opening
  <2>3. CASE opening # {}
    <3>1. PICK f \in opening : \A g \in opening : g >= f
      BY <2>1, <2>2, <2>3, LeastExists
    <3>2. \A g \in opening : f <= g
      BY <2>1, <3>1
    <3>3. first \in opening
      BY <3>2
    <3> HIDE DEF first
    <3> QED BY <2>1, <2>3, <3>3, EventTyped
  <2> QED BY <2>3
<1> HIDE DEF team
<1> QED BY <1>2, <1>3

LEMMA ScoreAfterTyped ==
    ASSUME NEW state \in [Teams -> Nat], NEW e \in Event
    PROVE  ScoreAfter(state, e) \in [Teams -> Nat]
<1>1. e.team \in Teams /\ Opponent(e.team) \in Teams
  BY OtherTeam DEF Event
<1> QED BY <1>1 DEF ScoreAfter

\* A filter keeps some of the events of the feed.
LEMMA FilterTyped ==
    ASSUME Typed, NEW keep \in SUBSET DOMAIN feed, Filter(keep)
    PROVE  records' \in Seq(1..Len(feed)) /\ Len(records') \in Nat
<1>1. keep \subseteq 1..Len(feed) /\ records' \in [1..Cardinality(keep) -> keep]
  BY DEF Filter, Typed, TypeOK
<1>2. Cardinality(keep) \in Nat
  <2>1. IsFiniteSet(1..Len(feed))
    BY FS_Interval DEF Typed, TypeOK
  <2> QED BY <1>1, <2>1, FS_Subset, FS_CardinalityType
<1>3. PICK n \in Nat : n = Cardinality(keep)
  BY <1>2
<1>4. PICK s \in [1..n -> 1..Len(feed)] : s = records'
  BY <1>1, <1>3
<1>5. s \in Seq(1..Len(feed)) /\ Len(s) = n
  BY FunctionIsSeq
<1> QED BY <1>4, <1>5

LEMMA TypedInit == Init => Typed
BY DEF Init, Typed, TypeOK

LEMMA TypedNext ==
    ASSUME Typed, [Next]_vars
    PROVE  Typed'
<1> USE DEF Typed, TypeOK
<1>1. ASSUME NEW e \in Event, Emit(e) PROVE Typed'
  BY <1>1 DEF Emit
<1>2. CASE Load
  BY <1>2 DEF Load
<1>3. ASSUME NEW keep \in SUBSET DOMAIN feed, Filter(keep) PROVE Typed'
  <2>2. records' \in Seq(1..Len(feed)) /\ Len(records') \in Nat
    BY <1>3, FilterTyped
  <2>3. pc = "ready" /\ linked' \in BOOLEAN
        /\ UNCHANGED <<feed, pc, at, score, sequence, attached, mapping, current>>
    BY <1>3 DEF Filter
  <2> QED BY <2>2, <2>3
<1>4. CASE Begin
  BY <1>4, InitialSequenceTyped DEF Begin
<1>5. CASE Step
  <2> DEFINE before == SequenceBefore(sequence, at + 1)
             state == [score |-> score, sequence |-> before]
  <2>1. EventAt(at + 1) \in Event /\ EventAt(at + 1).team \in Teams
    BY <1>5, EventTyped DEF Step
  <2>2. before \in [id : Nat, team : Teams \cup {None}]
    BY <2>1 DEF SequenceBefore
  <2>3. SequenceAfter(before, EventAt(at + 1)) \in [id : Nat, team : Teams \cup {None}]
    BY <2>2 DEF SequenceAfter
  <2>4. ScoreAfter(score, EventAt(at + 1)) \in [Teams -> Nat]
    BY <2>1, ScoreAfterTyped
  <2>5. state \in State
    BY <2>2 DEF State, Sequence
  <2>6. attached' = Append(attached, state) /\ at' = at + 1 /\ at < Len(records)
    BY <1>5 DEF Step
  <2>7. sequence' \in [id : Nat, team : Teams \cup {None}] /\ score' \in [Teams -> Nat]
    BY <1>5, <2>3, <2>4 DEF Step
  <2>8. UNCHANGED <<feed, records, linked, pc, mapping, current>> /\ pc = "loop"
    BY <1>5 DEF Step
  <2> HIDE DEF state
  <2> QED BY <2>5, <2>6, <2>7, <2>8
<1>6. CASE EndLoop
  BY <1>6 DEF EndLoop
<1>7. CASE PostProcess
  <2> DEFINE k == at + 1
             seq == attached[k].sequence
             new == Renumber(seq.id)
  <2>1. at < Len(records) /\ k \in 1..Len(attached) /\ pc = "post" /\ at' = k
        /\ UNCHANGED <<feed, records, linked, pc, score, sequence>>
    BY <1>7 DEF PostProcess
  <2>2. attached[k] \in State /\ attached[k].score \in [Teams -> Nat] /\ seq \in Sequence
    <3>1. attached[k] \in State
      BY <2>1
    <3> QED BY <3>1 DEF State
  <2>3. CASE EventAt(k).kind = "off_ball" \/ seq.team = None
    <3>1. attached' = [attached EXCEPT ![k].sequence = NoSequence] /\ UNCHANGED <<mapping, current>>
      BY <1>7, <2>3 DEF PostProcess
    <3>2. [attached[k] EXCEPT !.sequence = NoSequence] \in State
      BY <2>2 DEF State, Sequence, NoSequence
    <3>3. attached' \in Seq(State) /\ Len(attached') = Len(attached)
      BY <2>1, <3>1, <3>2
    <3> QED BY <2>1, <3>1, <3>3
  <2>4. CASE ~ (EventAt(k).kind = "off_ball" \/ seq.team = None)
    <3>1. /\ mapping' = [id \in DOMAIN mapping \cup {seq.id} |->
                             IF id = seq.id THEN new ELSE mapping[id]]
          /\ current' = IF new = current THEN current + 1 ELSE current
          /\ attached' = [attached EXCEPT ![k].sequence.id = new]
      BY <1>7, <2>4 DEF PostProcess
    <3>2. new \in 1..current /\ new \in Nat
      BY DEF Renumber
    <3> HIDE DEF new
    <3>3. [attached[k] EXCEPT !.sequence.id = new] \in State
      BY <2>2, <3>2 DEF State, Sequence
    <3>4. attached' \in Seq(State) /\ Len(attached') = Len(attached)
      BY <2>1, <3>1, <3>3
    <3>5. /\ current' \in Nat \ {0}
          /\ \A id \in DOMAIN mapping' : mapping'[id] \in 1..(current' - 1)
      BY <3>1, <3>2
    <3> QED BY <2>1, <3>4, <3>5
  <2> QED BY <2>3, <2>4
<1>8. CASE Return
  BY <1>8 DEF Return
<1>9. CASE UNCHANGED vars
  BY <1>9 DEF vars, State
<1> QED BY <1>1, <1>2, <1>3, <1>4, <1>5, <1>6, <1>7, <1>8, <1>9 DEF Next

\* What an iteration of post_process does to the states.
LEMMA PostProcessed ==
    ASSUME Typed, PostProcess
    PROVE  /\ DOMAIN attached' = DOMAIN attached /\ DOMAIN attached = 1..Len(records)
           /\ at + 1 \in DOMAIN attached
           /\ \A k \in DOMAIN attached :
                  /\ attached'[k].score = attached[k].score
                  /\ k # at + 1 => attached'[k] = attached[k]
           /\ LET seq == attached[at + 1].sequence
              IN  attached'[at + 1].sequence =
                      IF EventAt(at + 1).kind = "off_ball" \/ seq.team = None THEN NoSequence
                      ELSE [id |-> Renumber(seq.id), team |-> seq.team]
<1> DEFINE k == at + 1
           seq == attached[k].sequence
           new == Renumber(seq.id)
<1>1. /\ DOMAIN attached = 1..Len(records) /\ k \in DOMAIN attached
      /\ attached[k] \in State
  BY DEF PostProcess, Typed, TypeOK
<1>2. attached[k] = [score |-> attached[k].score, sequence |-> seq]
      /\ seq = [id |-> seq.id, team |-> seq.team]
  BY <1>1 DEF State, Sequence
<1> HIDE DEF k, new
<1>3. CASE EventAt(k).kind = "off_ball" \/ seq.team = None
  <2>1. attached' = [attached EXCEPT ![k].sequence = NoSequence]
    BY <1>3 DEF PostProcess, k
  <2> QED BY <1>1, <1>2, <1>3, <2>1 DEF k
<1>4. CASE ~ (EventAt(k).kind = "off_ball" \/ seq.team = None)
  <2>1. attached' = [attached EXCEPT ![k].sequence.id = new]
    BY <1>4 DEF PostProcess, k, new
  <2>2. attached'[k].score = attached[k].score
        /\ attached'[k].sequence = [id |-> new, team |-> seq.team]
    BY <1>1, <1>2, <2>1
  <2>3. DOMAIN attached' = DOMAIN attached
        /\ \A j \in DOMAIN attached : j # k => attached'[j] = attached[j]
    BY <2>1
  <2> QED BY <1>1, <1>4, <2>2, <2>3 DEF k, new
<1> QED BY <1>3, <1>4

----------------------------------------------------------------------------
\* The score.

\* reduce_after counts exactly the goals that GoalsBefore counts.
LEMMA ScoreAfterCounts ==
    ASSUME NEW state \in [Teams -> Nat], NEW e \in Event, NEW team \in Teams
    PROVE  ScoreAfter(state, e)[team] =
               state[team] + IF \/ e.kind = "goal" /\ e.team = team
                                \/ e.kind = "own_goal" /\ e.team # team
                             THEN 1 ELSE 0
<1>1. e.team \in Teams /\ Opponent(e.team) \in Teams
      /\ (team # e.team <=> team = Opponent(e.team))
  BY OtherTeam DEF Event
<1> QED BY <1>1 DEF ScoreAfter

LEMMA ScoreStep ==
    ASSUME Typed, Typed', ScoreExact, ScoreCounts, Step
    PROVE  ScoreExact' /\ ScoreCounts'
<1>1. UNCHANGED <<feed, records, linked, pc>> /\ pc = "loop" /\ at < Len(records)
  BY DEF Step
<1>2. EventAt(at + 1) \in Event /\ at \in Nat /\ score \in [Teams -> Nat]
  BY <1>1, EventTyped DEF Typed, TypeOK
<1>3. \A k, team : GoalsBefore(k, team)' = GoalsBefore(k, team)
  BY <1>1, SameDataset
<1>4. at' = at + 1 /\ score' = ScoreAfter(score, EventAt(at + 1))
  BY DEF Step
<1>5. ScoreCounts'
  <2>1. ASSUME NEW team \in Teams
        PROVE  score'[team] = Cardinality(GoalsBefore(at + 1 + 1, team))
    <3>1. score[team] = Cardinality(GoalsBefore(at + 1, team))
      BY <1>1 DEF ScoreCounts
    <3>2. Cardinality(GoalsBefore(at + 1 + 1, team)) =
              Cardinality(GoalsBefore(at + 1, team)) +
                  IF \/ EventAt(at + 1).kind = "goal" /\ EventAt(at + 1).team = team
                     \/ EventAt(at + 1).kind = "own_goal" /\ EventAt(at + 1).team # team
                  THEN 1 ELSE 0
      <4>1. at + 1 \in Nat \ {0}
        BY <1>2
      <4> QED BY <4>1, GoalsCounted
    <3>3. score'[team] =
              score[team] +
                  IF \/ EventAt(at + 1).kind = "goal" /\ EventAt(at + 1).team = team
                     \/ EventAt(at + 1).kind = "own_goal" /\ EventAt(at + 1).team # team
                  THEN 1 ELSE 0
      BY <1>2, <1>4, ScoreAfterCounts
    <3> QED BY <3>1, <3>2, <3>3
  <2> QED BY <1>3, <1>4, <2>1 DEF ScoreCounts
<1>6. ScoreExact'
  <2> DEFINE state == [score |-> score, sequence |-> SequenceBefore(sequence, at + 1)]
  <2>1. attached' = Append(attached, state) /\ state.score = score
    BY DEF Step
  <2>2. attached \in Seq(State) /\ Len(attached) = at
    BY <1>1 DEF Typed, TypeOK
  <2> HIDE DEF state
  <2>3. /\ DOMAIN attached' = 1..(at + 1)
        /\ attached'[at + 1] = state
        /\ \A k \in 1..at : attached'[k] = attached[k]
    BY <1>2, <2>1, <2>2
  <2>4. ASSUME NEW k \in DOMAIN attached', NEW team \in Teams
        PROVE  attached'[k].score[team] = Cardinality(GoalsBefore(k, team))
    <3>1. CASE k \in 1..at
      <4>1. k \in DOMAIN attached
        BY <2>2, <3>1
      <4> QED BY <2>3, <3>1, <4>1 DEF ScoreExact
    <3>2. CASE k = at + 1
      <4>1. score[team] = Cardinality(GoalsBefore(at + 1, team))
        BY <1>1 DEF ScoreCounts
      <4> QED BY <2>1, <2>3, <3>2, <4>1
    <3> QED BY <1>2, <2>3, <3>1, <3>2
  <2> QED BY <1>3, <2>4 DEF ScoreExact
<1> QED BY <1>5, <1>6

\* Post processing leaves the scores alone.
LEMMA ScorePostProcess ==
    ASSUME Typed, ScoreExact, PostProcess
    PROVE  ScoreExact'
<1>1. \A k, team : GoalsBefore(k, team)' = GoalsBefore(k, team)
  BY SameDataset DEF PostProcess
<1>2. DOMAIN attached' = DOMAIN attached
      /\ \A k \in DOMAIN attached : attached'[k].score = attached[k].score
  BY PostProcessed
<1> QED BY <1>1, <1>2 DEF ScoreExact

LEMMA ScoreNext ==
    ASSUME Typed, Typed', ScoreExact, ScoreCounts, [Next]_vars
    PROVE  ScoreExact' /\ ScoreCounts'
<1>1. ASSUME NEW e \in Event, Emit(e) PROVE ScoreExact' /\ ScoreCounts'
  <2>1. attached' = <<>> /\ pc' = "feed"
    BY <1>1 DEF Emit, Typed
  <2> QED BY <2>1 DEF ScoreExact, ScoreCounts
<1>2. CASE Load
  <2>1. attached' = <<>> /\ pc' = "ready"
    BY <1>2 DEF Load, Typed
  <2> QED BY <2>1 DEF ScoreExact, ScoreCounts
<1>3. ASSUME NEW keep \in SUBSET DOMAIN feed, Filter(keep) PROVE ScoreExact' /\ ScoreCounts'
  <2>1. attached' = <<>> /\ pc' = "ready"
    BY <1>3 DEF Filter, Typed
  <2> QED BY <2>1 DEF ScoreExact, ScoreCounts
<1>4. CASE Begin
  <2>1. attached' = <<>> /\ at' = 0 /\ score' = [team \in Teams |-> 0]
    BY <1>4 DEF Begin
  <2>2. \A team : GoalsBefore(at + 1, team)' = {}
    BY <2>1 DEF GoalsBefore
  <2>3. Cardinality({}) = 0 /\ \A team \in Teams : score'[team] = 0
    BY <2>1, FS_EmptySet
  <2>4. ScoreCounts'
    BY <2>2, <2>3 DEF ScoreCounts
  <2> QED BY <2>1, <2>4 DEF ScoreExact
<1>5. CASE Step
  BY <1>5, ScoreStep
<1>6. CASE EndLoop
  <2>1. UNCHANGED <<feed, records, linked, attached>> /\ pc' = "post"
    BY <1>6 DEF EndLoop
  <2> QED BY <2>1, SameDataset DEF ScoreExact, ScoreCounts
<1>7. CASE PostProcess
  <2>1. pc' = "post"
    BY <1>7 DEF PostProcess
  <2> QED BY <1>7, <2>1, ScorePostProcess DEF ScoreCounts
<1>8. CASE Return
  <2>1. UNCHANGED <<feed, records, attached>> /\ pc' = "done"
    BY <1>8 DEF Return
  <2>2. \A k, team : GoalsBefore(k, team)' = GoalsBefore(k, team)
    BY <2>1 DEF GoalsBefore, EventAt
  <2> QED BY <2>1, <2>2 DEF ScoreExact, ScoreCounts
<1>9. CASE UNCHANGED vars
  <2>1. UNCHANGED <<feed, records, linked, attached, pc, at, score>>
    BY <1>9 DEF vars
  <2> QED BY <2>1, SameDataset DEF ScoreExact, ScoreCounts
<1> QED BY <1>1, <1>2, <1>3, <1>4, <1>5, <1>6, <1>7, <1>8, <1>9 DEF Next

----------------------------------------------------------------------------
\* The team in control.

\* What an iteration of add_state does to the states and to the sequence.
LEMMA Stepped ==
    ASSUME Typed, Step
    PROVE  /\ UNCHANGED <<feed, records, linked, pc, mapping, current>>
           /\ pc = "loop" /\ at \in Nat /\ at < Len(records) /\ at' = at + 1
           /\ \A k \in 1..at : attached'[k] = attached[k]
           /\ LET opens  == Opens(at + 1, sequence)
                  closes == Closes(EventAt(at + 1))
                  new    == attached'[at + 1].sequence
              IN  /\ new.id = IF opens THEN sequence.id + 1 ELSE sequence.id
                  /\ new.team = IF opens THEN EventAt(at + 1).team ELSE sequence.team
                  /\ sequence'.id = IF closes THEN new.id + 1 ELSE new.id
                  /\ sequence'.team = IF closes THEN None ELSE new.team
                  /\ sequence.id \in Nat /\ new.id \in Nat
<1> DEFINE before == SequenceBefore(sequence, at + 1)
           state == [score |-> score, sequence |-> before]
<1>1. /\ UNCHANGED <<feed, records, linked, pc, mapping, current>>
      /\ pc = "loop" /\ at \in Nat /\ at < Len(records) /\ at' = at + 1
  BY DEF Step, Typed, TypeOK
<1>2. /\ before.id = IF Opens(at + 1, sequence) THEN sequence.id + 1 ELSE sequence.id
      /\ before.team = IF Opens(at + 1, sequence) THEN EventAt(at + 1).team ELSE sequence.team
      /\ sequence.id \in Nat
  BY DEF SequenceBefore, Typed, TypeOK
<1>3. attached' = Append(attached, state) /\ sequence' = SequenceAfter(before, EventAt(at + 1))
  BY DEF Step
<1>4. state.sequence = before
  OBVIOUS
<1>5. attached \in Seq(State) /\ Len(attached) = at
  BY <1>1 DEF Typed, TypeOK
<1> HIDE DEF before, state
<1>6. attached'[at + 1] = state /\ \A k \in 1..at : attached'[k] = attached[k]
  BY <1>1, <1>3, <1>5
<1>7. /\ sequence'.id = IF Closes(EventAt(at + 1)) THEN before.id + 1 ELSE before.id
      /\ sequence'.team = IF Closes(EventAt(at + 1)) THEN None ELSE before.team
  BY <1>3 DEF SequenceAfter
<1>8. before.id \in Nat
  BY <1>2
<1> QED BY <1>1, <1>2, <1>4, <1>6, <1>7, <1>8

LEMMA TeamsStep ==
    ASSUME Typed, TeamsHeld, Step
    PROVE  TeamsHeld'
<1> DEFINE new == attached'[at + 1].sequence
<1>1. /\ UNCHANGED <<feed, records, linked, pc>>
      /\ pc = "loop" /\ at \in Nat /\ at' = at + 1
      /\ \A k \in 1..at : attached'[k] = attached[k]
      /\ new.team = IF Opens(at + 1, sequence) THEN EventAt(at + 1).team ELSE sequence.team
      /\ sequence'.team = IF Closes(EventAt(at + 1)) THEN None ELSE new.team
      /\ new.id \in Nat
  BY Stepped
<1>2. \A k : Control(k)' = Control(k) /\ Held(k)' = Held(k)
  BY <1>1, SameDataset
<1> HIDE DEF new
<1>3. new.team = Control(at + 1)
  <2>1. Control(at + 1) = IF CanOpen(at + 1) THEN EventAt(at + 1).team ELSE Held(at)
    <3>1. PICK n \in Nat \ {0} : n = at + 1 /\ n - 1 = at
      BY <1>1
    <3>2. Control(n) = IF CanOpen(n) THEN EventAt(n).team ELSE Held(n - 1)
      BY ControlAfter
    <3> QED BY <3>1, <3>2
  <2>2. sequence.team = Held(at)
    BY <1>1 DEF TeamsHeld
  <2> QED BY <1>1, <2>1, <2>2 DEF Opens
<1>4. sequence'.team = Held(at + 1)
  BY <1>1, <1>3 DEF Held
<1>5. Raw' = 1..(at + 1)
  BY <1>1 DEF Raw
<1>6. ASSUME NEW k \in 1..(at + 1)
      PROVE  attached'[k].sequence.id \in Nat /\ attached'[k].sequence.team = Control(k)
  <2>1. CASE k \in 1..at
    BY <1>1, <2>1 DEF TeamsHeld, Raw, Number
  <2>2. CASE k = at + 1
    BY <1>1, <1>3, <2>2 DEF new
  <2> QED BY <1>1, <2>1, <2>2
<1> QED BY <1>1, <1>2, <1>4, <1>5, <1>6 DEF TeamsHeld, Number

LEMMA TeamsPostProcess ==
    ASSUME Typed, TeamsHeld, PostProcess
    PROVE  TeamsHeld'
<1> DEFINE old == attached[at + 1].sequence
           new == attached'[at + 1].sequence
<1>1. /\ UNCHANGED <<feed, records, linked, pc>> /\ at' = at + 1
      /\ pc = "post" /\ at \in Nat /\ at < Len(records) /\ Len(records) \in Nat
  BY DEF PostProcess, Typed, TypeOK
<1>2. /\ DOMAIN attached = 1..Len(records)
      /\ \A k \in DOMAIN attached : k # at + 1 => attached'[k] = attached[k]
      /\ new = IF EventAt(at + 1).kind = "off_ball" \/ old.team = None THEN NoSequence
               ELSE [id |-> Renumber(old.id), team |-> old.team]
  BY PostProcessed
<1>3. Raw = (at + 1)..Len(records) /\ Raw' = (at + 2)..Len(records)
      /\ Done = 1..at /\ Done' = 1..(at + 1)
  BY <1>1 DEF Raw, Done
<1>4. \A k : EventAt(k)' = EventAt(k) /\ Control(k)' = Control(k)
  BY <1>1, SameDataset
<1>5. old.team = Control(at + 1)
  BY <1>1, <1>3 DEF TeamsHeld
<1>6. Renumber(old.id) # None
  BY AddStateAssumption DEF Renumber, Typed, TypeOK
<1> HIDE DEF old, new
<1>7. /\ new.team = IF EventAt(at + 1).kind = "off_ball" THEN None ELSE Control(at + 1)
      /\ new.id = None <=> new.team = None
  BY <1>2, <1>5, <1>6 DEF NoSequence
<1>8. ASSUME NEW k \in 1..(at + 1)
      PROVE  LET seq == attached'[k].sequence
             IN  /\ seq.team = IF EventAt(k).kind = "off_ball" THEN None ELSE Control(k)
                 /\ seq.id = None <=> seq.team = None
  <2>1. CASE k \in 1..at
    <3>1. attached'[k] = attached[k]
      BY <1>1, <1>2, <2>1
    <3> QED BY <1>1, <1>3, <2>1, <3>1 DEF TeamsHeld
  <2>2. CASE k = at + 1
    BY <1>7, <2>2 DEF new
  <2> QED BY <1>1, <2>1, <2>2
<1>9. ASSUME NEW k \in (at + 2)..Len(records)
      PROVE  attached'[k].sequence.id \in Nat /\ attached'[k].sequence.team = Control(k)
  <2>1. attached'[k] = attached[k] /\ k \in Raw
    BY <1>1, <1>2, <1>3
  <2> QED BY <1>1, <2>1 DEF TeamsHeld, Number
<1> QED BY <1>1, <1>3, <1>4, <1>8, <1>9 DEF TeamsHeld, Number

LEMMA TeamsNext ==
    ASSUME Typed, Typed', TeamsHeld, [Next]_vars
    PROVE  TeamsHeld'
<1>1. ASSUME NEW e \in Event, Emit(e) PROVE TeamsHeld'
  BY <1>1 DEF Emit, TeamsHeld
<1>2. CASE Load
  BY <1>2 DEF Load, TeamsHeld
<1>3. ASSUME NEW keep \in SUBSET DOMAIN feed, Filter(keep) PROVE TeamsHeld'
  BY <1>3 DEF Filter, TeamsHeld
<1>4. CASE Begin
  <2>1. UNCHANGED <<feed, records, linked>> /\ pc' = "loop" /\ at' = 0
        /\ sequence' = InitialSequence
    BY <1>4 DEF Begin
  <2>2. Held(0)' = InitialSequence.team /\ Raw' = {}
    BY <2>1, SameDataset DEF Held, Raw
  <2> QED BY <2>1, <2>2 DEF TeamsHeld
<1>5. CASE Step
  BY <1>5, TeamsStep
<1>6. CASE EndLoop
  <2>1. UNCHANGED <<feed, records, linked, attached>> /\ pc = "loop" /\ pc' = "post"
        /\ at = Len(records) /\ at' = 0
    BY <1>6 DEF EndLoop
  <2>2. Raw' = Raw /\ Done' = {}
    BY <2>1 DEF Raw, Done
  <2>3. \A k : Control(k)' = Control(k) /\ Number(k)' = Number(k)
    BY <2>1, SameDataset DEF Number
  <2> QED BY <2>1, <2>2, <2>3 DEF TeamsHeld
<1>7. CASE PostProcess
  BY <1>7, TeamsPostProcess
<1>8. CASE Return
  BY <1>8 DEF Return, TeamsHeld
<1>9. CASE UNCHANGED vars
  <2>1. UNCHANGED <<feed, records, linked, attached, pc, at, sequence>>
    BY <1>9 DEF vars
  <2>2. \A k : /\ Control(k)' = Control(k) /\ Held(k)' = Held(k)
               /\ EventAt(k)' = EventAt(k) /\ Number(k)' = Number(k)
    BY <2>1, SameDataset DEF Number
  <2>3. Raw' = Raw /\ Done' = Done
    BY <2>1 DEF Raw, Done
  <2> QED BY <2>1, <2>2, <2>3 DEF TeamsHeld
<1> QED BY <1>1, <1>2, <1>3, <1>4, <1>5, <1>6, <1>7, <1>8, <1>9 DEF Next

----------------------------------------------------------------------------
\* The builder's numbers.

LEMMA ContinuesHere ==
    ASSUME NEW k \in Nat
    PROVE  Continues(k, k)
<1>1. k..(k-1) = {}
  OBVIOUS
<1> QED BY <1>1 DEF Continues

LEMMA RawSplitStep ==
    ASSUME Typed, TeamsHeld, RawSplit, Step
    PROVE  RawSplit'
<1> DEFINE new == attached'[at + 1].sequence
           closes(k) == Closes(EventAt(k))
<1>1. /\ UNCHANGED <<feed, records, linked, pc>>
      /\ pc = "loop" /\ at \in Nat /\ at' = at + 1
      /\ \A k \in 1..at : attached'[k] = attached[k]
  BY Stepped
<1>2. /\ new.id = IF Opens(at + 1, sequence) THEN sequence.id + 1 ELSE sequence.id
      /\ sequence'.id = IF closes(at + 1) THEN new.id + 1 ELSE new.id
      /\ sequence.id \in Nat /\ new.id \in Nat
  BY Stepped
<1>3. \A j, k : Continues(j, k)' = Continues(j, k) /\ EventAt(k)' = EventAt(k)
  BY <1>1, SameDataset
<1>4. Raw = 1..at /\ Raw' = 1..(at + 1)
  BY <1>1 DEF Raw
<1>5. /\ \A k \in 1..at : Number(k)' = Number(k) /\ Number(k) \in Nat
      /\ \A k : k = at + 1 => Number(k)' = new.id
  <2>1. \A k : Number(k)' = attached'[k].sequence.id
    BY DEF Number
  <2>2. \A k \in 1..at : Number(k) \in Nat
    BY <1>1, <1>4 DEF TeamsHeld
  <2>3. \A k \in 1..at : Number(k)' = Number(k)
    BY <1>1, <2>1 DEF Number
  <2>4. \A k : k = at + 1 => Number(k)' = new.id
    BY <2>1
  <2> QED BY <2>2, <2>3, <2>4
<1> HIDE DEF new
<1>6. ASSUME NEW j \in 1..at
      PROVE  Number(j) <= new.id /\ (Number(j) = new.id <=> Continues(j, at + 1))
  <2>1. at \in Nat \ {0} /\ at \in 1..at
    BY <1>1
  <2>2. Number(j) <= Number(at) /\ (Number(j) = Number(at) <=> Continues(j, at))
    <3>1. CASE j = at
      BY <1>5, <2>1, <3>1, ContinuesHere
    <3>2. CASE j < at
      BY <1>1, <1>4, <2>1, <3>2 DEF RawSplit
    <3> QED BY <1>1, <3>1, <3>2
  <2>3. sequence.id = IF closes(at) THEN Number(at) + 1 ELSE Number(at)
    BY <1>1, <2>1 DEF RawSplit
  <2>4. Continues(at, at + 1) <=> ~closes(at) /\ ~Opens(at + 1, sequence)
    <3>1. Continues(at, at + 1) <=>
              /\ ~Closes(EventAt(at))
              /\ ~ /\ CanOpen(at + 1)
                   /\ \/ Control(at) # EventAt(at + 1).team
                      \/ EventAt(at + 1).kind = "set_piece"
      BY <2>1, ContinuesOn
    <3>2. ~Closes(EventAt(at)) => sequence.team = Control(at)
      BY <1>1, <2>1 DEF TeamsHeld, Held
    <3> QED BY <3>1, <3>2 DEF Opens
  <2>5. Continues(j, at + 1) <=> Continues(j, at) /\ Continues(at, at + 1)
    BY <1>1, ContinuesThrough
  <2> HIDE DEF closes
  <2>6. Number(j) \in Nat /\ Number(at) \in Nat
    BY <1>5, <2>1
  <2> QED BY <1>2, <2>2, <2>3, <2>4, <2>5, <2>6
<1>7. ASSUME NEW j \in Raw', NEW k \in Raw', j < k
      PROVE  /\ Number(j)' <= Number(k)'
             /\ Number(j)' = Number(k)' <=> Continues(j, k)
  <2>1. j \in 1..at /\ (k \in 1..at \/ k = at + 1)
    BY <1>1, <1>4, <1>7
  <2>2. CASE k \in 1..at
    BY <1>1, <1>4, <1>5, <1>7, <2>1, <2>2 DEF RawSplit
  <2>3. CASE k = at + 1
    BY <1>5, <1>6, <2>1, <2>3
  <2> QED BY <2>1, <2>2, <2>3
<1>8. (sequence.id)' = IF Closes(EventAt(at))' THEN Number(at)' + 1 ELSE Number(at)'
  BY <1>1, <1>2 DEF Closes, EventAt, Number, new
<1> QED BY <1>3, <1>7, <1>8 DEF RawSplit

LEMMA RawSplitNext ==
    ASSUME Typed, Typed', TeamsHeld, RawSplit, [Next]_vars
    PROVE  RawSplit'
<1>1. ASSUME NEW e \in Event, Emit(e) PROVE RawSplit'
  BY <1>1 DEF Emit, RawSplit
<1>2. CASE Load
  BY <1>2 DEF Load, RawSplit
<1>3. ASSUME NEW keep \in SUBSET DOMAIN feed, Filter(keep) PROVE RawSplit'
  BY <1>3 DEF Filter, RawSplit
<1>4. CASE Begin
  <2>1. pc' = "loop" /\ at' = 0
    BY <1>4 DEF Begin
  <2>2. Raw' = {}
    BY <2>1 DEF Raw
  <2> QED BY <2>1, <2>2 DEF RawSplit
<1>5. CASE Step
  BY <1>5, RawSplitStep
<1>6. CASE EndLoop
  <2>1. UNCHANGED <<feed, records, linked, attached>> /\ pc = "loop" /\ pc' = "post"
        /\ at = Len(records) /\ at' = 0
    BY <1>6 DEF EndLoop
  <2>2. Raw' = Raw
    BY <2>1 DEF Raw
  <2>3. \A j, k : Continues(j, k)' = Continues(j, k) /\ Number(k)' = Number(k)
    BY <2>1, SameDataset DEF Number
  <2> QED BY <2>1, <2>2, <2>3 DEF RawSplit
<1>7. CASE PostProcess
  <2>1. /\ UNCHANGED <<feed, records, linked, pc>> /\ at' = at + 1
        /\ pc = "post" /\ at \in Nat /\ Len(records) \in Nat
    BY <1>7 DEF PostProcess, Typed, TypeOK
  <2>2. Raw' \subseteq Raw \ {at + 1} /\ Raw \subseteq 1..Len(records)
    BY <2>1 DEF Raw
  <2>3. \A k \in 1..Len(records) : k # at + 1 => attached'[k] = attached[k]
    BY <1>7, PostProcessed
  <2>4. \A k \in Raw' : Number(k)' = Number(k)
    BY <2>2, <2>3 DEF Number
  <2>5. \A j, k : Continues(j, k)' = Continues(j, k)
    BY <2>1, SameDataset
  <2> QED BY <2>1, <2>2, <2>4, <2>5 DEF RawSplit
<1>8. CASE Return
  BY <1>8 DEF Return, RawSplit
<1>9. CASE UNCHANGED vars
  <2>1. UNCHANGED <<feed, records, linked, attached, pc, at, sequence>>
    BY <1>9 DEF vars
  <2>2. \A j, k : /\ Continues(j, k)' = Continues(j, k)
                  /\ EventAt(k)' = EventAt(k) /\ Number(k)' = Number(k)
    BY <2>1, SameDataset DEF Number
  <2>3. Raw' = Raw
    BY <2>1 DEF Raw
  <2> QED BY <2>1, <2>2, <2>3 DEF RawSplit, Closes
<1> QED BY <1>1, <1>2, <1>3, <1>4, <1>5, <1>6, <1>7, <1>8, <1>9 DEF Next

----------------------------------------------------------------------------
\* The numbers after post processing.

\* One iteration of post_process, on the event n: out of every sequence, in a
\* sequence met before, or in a new one.
LEMMA Renumbered ==
    ASSUME Typed, TeamsHeld, RawSplit, MappingTells, PostProcess,
           NEW n \in Nat, n = at + 1
    PROVE  /\ UNCHANGED <<feed, records, linked, pc>> /\ pc = "post" /\ at' = n
           /\ n \in Raw /\ Raw' = Raw \ {n} /\ \A k \in Raw' : n < k
           /\ n \notin Numbered /\ \A j \in Numbered : j \in 1..at /\ j < n
           /\ \A k \in Numbered \cup Raw' : Number(k)' = Number(k)
           /\ \/ Numbered' = Numbered /\ UNCHANGED <<mapping, current>>
              \/ /\ Numbered' = Numbered \cup {n}
                 /\ Number(n) \in DOMAIN mapping
                 /\ Number(n)' = mapping[Number(n)] /\ Number(n)' = current - 1
                 /\ DOMAIN mapping' = DOMAIN mapping
                 /\ \A id \in DOMAIN mapping : mapping'[id] = mapping[id]
                 /\ current' = current
              \/ /\ Numbered' = Numbered \cup {n}
                 /\ Number(n) \notin DOMAIN mapping
                 /\ Number(n)' = current
                 /\ DOMAIN mapping' = DOMAIN mapping \cup {Number(n)}
                 /\ \A id \in DOMAIN mapping : mapping'[id] = mapping[id]
                 /\ mapping'[Number(n)] = current
                 /\ current' = current + 1
<1> DEFINE seq == attached[n].sequence
           out == EventAt(n).kind = "off_ball" \/ seq.team = None
<1>1. /\ UNCHANGED <<feed, records, linked, pc>> /\ at' = n
      /\ pc = "post" /\ at \in Nat /\ at < Len(records) /\ Len(records) \in Nat
  BY DEF PostProcess, Typed, TypeOK
<1>2. /\ Raw = n..Len(records) /\ Raw' = (n + 1)..Len(records)
      /\ Done = 1..at /\ Done' = 1..n
  BY <1>1 DEF Raw, Done
<1>3. /\ DOMAIN attached = 1..Len(records)
      /\ \A k \in DOMAIN attached : k # n => attached'[k] = attached[k]
      /\ attached'[n].sequence =
             IF out THEN NoSequence ELSE [id |-> Renumber(seq.id), team |-> seq.team]
  BY PostProcessed
<1>4. /\ n \in Raw /\ Raw' = Raw \ {n} /\ \A k \in Raw' : n < k
      /\ n \notin Numbered /\ \A j \in Numbered : j \in 1..at /\ j < n
  BY <1>1, <1>2 DEF Numbered
<1>5. \A k : k \in 1..Len(records) /\ k # n => attached'[k] = attached[k]
  BY <1>3
<1>6. \A k \in Numbered \cup Raw' : Number(k)' = Number(k)
  BY <1>1, <1>2, <1>4, <1>5 DEF Number
<1>7. Numbered' = Numbered \cup (IF attached'[n].sequence # NoSequence THEN {n} ELSE {})
  <2>1. Numbered' = {k \in 1..n : attached'[k].sequence # NoSequence}
    BY <1>2 DEF Numbered
  <2>2. Numbered = {k \in 1..at : attached[k].sequence # NoSequence}
    BY <1>2 DEF Numbered
  <2>3. 1..n = (1..at) \cup {n} /\ \A k \in 1..at : attached'[k] = attached[k]
    BY <1>1, <1>5
  <2> QED BY <2>1, <2>2, <2>3
<1>8. CASE out
  <2>1. UNCHANGED <<mapping, current>>
    BY <1>8 DEF PostProcess
  <2> QED BY <1>1, <1>3, <1>4, <1>6, <1>7, <1>8, <2>1
<1>9. CASE ~out
  <2> DEFINE new == Renumber(seq.id)
  <2>1. /\ mapping' = [id \in DOMAIN mapping \cup {seq.id} |->
                          IF id = seq.id THEN new ELSE mapping[id]]
        /\ current' = IF new = current THEN current + 1 ELSE current
    BY <1>9 DEF PostProcess
  <2>2. attached'[n].sequence = [id |-> new, team |-> seq.team] /\ seq.id = Number(n)
    BY <1>3, <1>9 DEF Number
  <2>3. Numbered' = Numbered \cup {n} /\ Number(n)' = new
    BY <1>7, <1>9, <2>2 DEF NoSequence, Number
  <2>4. current \in Nat \ {0} /\ \A id \in DOMAIN mapping : mapping[id] \in 1..(current - 1)
    BY DEF Typed, TypeOK
  <2>5. CASE Number(n) \in DOMAIN mapping
    <3>1. new = mapping[Number(n)] /\ new = current - 1
      BY <1>1, <1>4, <2>2, <2>5 DEF Renumber, MappingTells
    <3> HIDE DEF new, seq
    <3>2. /\ current' = current /\ DOMAIN mapping' = DOMAIN mapping
          /\ \A id \in DOMAIN mapping : mapping'[id] = mapping[id]
      <4>1. current # current - 1
        BY <2>4
      <4>2. current' = current
        BY <2>1, <3>1, <4>1
      <4>3. DOMAIN mapping' = DOMAIN mapping
        BY <2>1, <2>2, <2>5
      <4> QED BY <2>1, <2>2, <3>1, <4>2, <4>3
    <3> QED BY <1>1, <1>4, <1>6, <2>3, <2>5, <3>1, <3>2
  <2>6. CASE Number(n) \notin DOMAIN mapping
    <3>1. new = current
      BY <2>2, <2>6 DEF Renumber
    <3> HIDE DEF new, seq
    <3>2. /\ current' = current + 1 /\ DOMAIN mapping' = DOMAIN mapping \cup {Number(n)}
          /\ \A id \in DOMAIN mapping : mapping'[id] = mapping[id]
          /\ mapping'[Number(n)] = current
      BY <2>1, <2>2, <2>6, <3>1
    <3> QED BY <1>1, <1>4, <1>6, <2>3, <2>6, <3>1, <3>2
  <2> QED BY <2>5, <2>6
<1> QED BY <1>8, <1>9

\* The numbers stay in step with the builder's when the event n takes one.
LEMMA MappingPostProcess ==
    ASSUME Typed, TeamsHeld, RawSplit, MappingTells, NumberedSplit, PostProcess
    PROVE  MappingTells' /\ NumberedSplit'
<1>1. PICK n \in Nat : n = at + 1
  BY DEF Typed, TypeOK
<1> DEFINE Old == Number(n)
           Met(k) == Number(k) \in DOMAIN mapping
<1>2. /\ UNCHANGED <<feed, records, linked, pc>> /\ pc = "post" /\ at' = n
      /\ n \in Raw /\ Raw' = Raw \ {n} /\ \A k \in Raw' : n < k
      /\ n \notin Numbered /\ \A j \in Numbered : j \in 1..at /\ j < n
      /\ \A k \in Numbered \cup Raw' : Number(k)' = Number(k)
  BY <1>1, Renumbered
<1>3. \A j, k : Continues(j, k)' = Continues(j, k)
  BY <1>2, SameDataset
<1>4. /\ current \in Nat \ {0}
      /\ \A id \in DOMAIN mapping : mapping[id] \in 1..(current - 1)
      /\ \A k \in Raw : Number(k) \in Nat /\ k \in Nat
      /\ Raw' \subseteq Raw
  BY <1>2 DEF Typed, TypeOK, TeamsHeld, Raw
<1>5. /\ \A a, b \in DOMAIN mapping : mapping[a] = mapping[b] => a = b
      /\ \A id \in DOMAIN mapping : id \in Nat /\ \A k \in Raw : id <= Number(k)
      /\ \A k \in Raw : Met(k) => mapping[Number(k)] = current - 1
      /\ \A j \in Numbered, k \in Raw :
             Continues(j, k) <=> Met(k) /\ mapping[Number(k)] = Number(j)
      /\ \A j \in Numbered : Number(j) \in 1..(current - 1)
      /\ \A j, k \in Numbered : j < k => (Number(j) = Number(k) <=> Continues(j, k))
  BY <1>2 DEF MappingTells, NumberedSplit
<1>6. \A k \in Raw' : Old <= Number(k) /\ (Old = Number(k) <=> Continues(n, k))
  BY <1>2, <1>4 DEF RawSplit
<1>7. ASSUME NEW j \in Numbered, NEW k \in Raw'
      PROVE  Continues(j, k) <=> Continues(j, n) /\ Continues(n, k)
  <2>1. j \in Nat /\ k \in Nat /\ j <= n /\ n <= k
    BY <1>2, <1>4
  <2> QED BY <2>1, ContinuesThrough
<1>8. CASE Numbered' = Numbered /\ UNCHANGED <<mapping, current>>
  <2>1. NumberedSplit'
    BY <1>2, <1>3, <1>5, <1>8 DEF NumberedSplit
  <2>2. MappingTells'
    BY <1>2, <1>3, <1>4, <1>5, <1>8 DEF MappingTells
  <2> QED BY <2>1, <2>2
<1>9. CASE /\ Numbered' = Numbered \cup {n} /\ Met(n)
           /\ Number(n)' = mapping[Old] /\ Number(n)' = current - 1
           /\ DOMAIN mapping' = DOMAIN mapping
           /\ \A id \in DOMAIN mapping : mapping'[id] = mapping[id]
           /\ current' = current
  <2>1. \A j \in Numbered : Number(j) = Number(n)' <=> Continues(j, n)
    BY <1>2, <1>5, <1>9
  <2>2. \A k \in Raw' : (Met(k) /\ mapping[Number(k)] = Number(n)') <=> Continues(n, k)
    <3>1. \A k \in Raw' : (Met(k) /\ mapping[Number(k)] = mapping[Old]) <=> Number(k) = Old
      BY <1>4, <1>5, <1>9
    <3> QED BY <1>6, <1>9, <3>1
  <2>3. NumberedSplit'
    <3>1. Number(n)' \in 1..(current - 1)
      BY <1>4, <1>9
    <3>2. \A j \in Numbered' : Number(j)' \in 1..(current' - 1)
      BY <1>2, <1>5, <1>9, <3>1
    <3>3. ASSUME NEW j \in Numbered', NEW k \in Numbered', j < k
          PROVE  Number(j)' = Number(k)' <=> Continues(j, k)
      <4>1. j \in Numbered /\ (k \in Numbered \/ k = n)
        BY <1>2, <1>9, <3>3
      <4> QED BY <1>2, <1>5, <2>1, <3>3, <4>1
    <3> QED BY <1>3, <3>2, <3>3 DEF NumberedSplit
  <2>4. MappingTells'
    <3>1. \A a, b \in DOMAIN mapping' : mapping'[a] = mapping'[b] => a = b
      BY <1>5, <1>9
    <3>2. \A id \in DOMAIN mapping' : id \in Nat /\ \A k \in Raw' : id <= Number(k)'
      BY <1>2, <1>4, <1>5, <1>9
    <3>3. \A k \in Raw' : Number(k)' \in DOMAIN mapping' => mapping'[Number(k)'] = current' - 1
      BY <1>2, <1>4, <1>5, <1>9
    <3>4. \A j \in Numbered', k \in Raw' :
              Continues(j, k) <=>
                  (Number(k)' \in DOMAIN mapping' /\ mapping'[Number(k)'] = Number(j)')
      BY <1>2, <1>4, <1>5, <1>9, <2>2
    <3> QED BY <1>3, <3>1, <3>2, <3>3, <3>4 DEF MappingTells
  <2> QED BY <2>3, <2>4
<1>10. CASE /\ Numbered' = Numbered \cup {n} /\ ~Met(n)
            /\ Number(n)' = current
            /\ DOMAIN mapping' = DOMAIN mapping \cup {Old}
            /\ \A id \in DOMAIN mapping : mapping'[id] = mapping[id]
            /\ mapping'[Old] = current
            /\ current' = current + 1
  <2>1. \A j \in Numbered : Number(j) # Number(n)' /\ ~Continues(j, n)
    <3>1. \A j \in Numbered : Number(j) # current
      BY <1>4, <1>5
    <3> QED BY <1>2, <1>5, <1>10, <3>1
  <2>2. \A k \in Raw' : ~Met(k)
    <3>1. \A k \in Raw' : Met(k) => Number(k) <= Old
      BY <1>2, <1>5
    <3>2. \A k \in Raw' : Met(k) => Number(k) = Old
      BY <1>2, <1>4, <1>6, <3>1
    <3> QED BY <1>10, <3>2
  <2>3. NumberedSplit'
    <3>1. \A j \in Numbered' : Number(j)' \in 1..(current' - 1)
      <4>1. \A j \in Numbered : Number(j) \in 1..current
        BY <1>4, <1>5
      <4>2. Number(n)' \in 1..current /\ current' - 1 = current
        BY <1>4, <1>10
      <4> QED BY <1>2, <1>10, <4>1, <4>2
    <3>2. ASSUME NEW j \in Numbered', NEW k \in Numbered', j < k
          PROVE  Number(j)' = Number(k)' <=> Continues(j, k)
      <4>1. j \in Numbered /\ (k \in Numbered \/ k = n)
        BY <1>2, <1>10, <3>2
      <4> QED BY <1>2, <1>5, <2>1, <3>2, <4>1
    <3> QED BY <1>3, <3>1, <3>2 DEF NumberedSplit
  <2>4. MappingTells'
    <3>1. \A a, b \in DOMAIN mapping' : mapping'[a] = mapping'[b] => a = b
      <4>1. \A a \in DOMAIN mapping : mapping[a] # current
        BY <1>4
      <4> QED BY <1>5, <1>10, <4>1
    <3>2. \A id \in DOMAIN mapping' : id \in Nat /\ \A k \in Raw' : id <= Number(k)'
      <4>1. Old \in Nat /\ \A k \in Raw' : Old <= Number(k)
        BY <1>2, <1>4, <1>6
      <4> QED BY <1>2, <1>4, <1>5, <1>10, <4>1
    <3>3. ASSUME NEW k \in Raw'
          PROVE  Number(k)' \in DOMAIN mapping' <=> Number(k) = Old
      BY <1>2, <1>10, <2>2
    <3>4. \A k \in Raw' : Number(k)' \in DOMAIN mapping' => mapping'[Number(k)'] = current' - 1
      <4>1. current' - 1 = current
        BY <1>4, <1>10
      <4> QED BY <1>2, <1>10, <3>3, <4>1
    <3>5. ASSUME NEW j \in Numbered', NEW k \in Raw'
          PROVE  Continues(j, k) <=>
                     (Number(k)' \in DOMAIN mapping' /\ mapping'[Number(k)'] = Number(j)')
      <4>1. CASE j \in Numbered
        <5>1. ~Continues(j, k)
          BY <1>7, <2>1, <4>1
        <5>2. Number(k) = Old => mapping'[Number(k)'] # Number(j)'
          BY <1>2, <1>10, <2>1, <4>1
        <5> QED BY <3>3, <5>1, <5>2
      <4>2. CASE j = n
        BY <1>2, <1>6, <1>10, <3>3, <4>2
      <4> QED BY <1>10, <4>1, <4>2
    <3> QED BY <1>3, <3>1, <3>2, <3>4, <3>5 DEF MappingTells
  <2> QED BY <2>3, <2>4
<1> QED BY <1>1, <1>8, <1>9, <1>10, Renumbered

\* The event n takes the number of the last sequence or the next one.
LEMMA NumberedPostProcess ==
    ASSUME Typed, TeamsHeld, RawSplit, MappingTells, NumberedSplit, NumberedOn, PostProcess
    PROVE  NumberedOn'
<1>1. PICK n \in Nat : n = at + 1
  BY DEF Typed, TypeOK
<1>2. /\ pc' = "post"
      /\ n \notin Numbered /\ \A j \in Numbered : j \in 1..at /\ j < n
      /\ \A k \in Numbered : Number(k)' = Number(k)
  BY <1>1, Renumbered
<1>3. /\ current \in Nat \ {0}
      /\ \A id \in DOMAIN mapping : mapping[id] \in 1..(current - 1)
  BY DEF Typed, TypeOK
<1>4. /\ IF Numbered = {} THEN current = 1
         ELSE \E j \in Numbered : Number(j) = current - 1 /\ \A i \in Numbered : i <= j
      /\ \A k \in Numbered :
             LET before == {j \in Numbered : j < k}
             IN  IF before = {} THEN Number(k) = 1
                 ELSE \E j \in before : /\ \A i \in before : i <= j
                                        /\ Number(k) \in {Number(j), Number(j) + 1}
  BY Renumbered, <1>1 DEF NumberedOn
<1>5. CASE Numbered' = Numbered /\ UNCHANGED current
  BY <1>2, <1>4, <1>5 DEF NumberedOn
<1>6. CASE /\ Numbered' = Numbered \cup {n}
           /\ \/ Number(n)' = current - 1 /\ current' = current /\ current # 1
              \/ Number(n)' = current /\ current' = current + 1
  <2>1. Number(n)' = current' - 1 /\ \A i \in Numbered' : i <= n
    <3>1. n <= n /\ \A i \in Numbered : i <= n
      BY <1>2
    <3> QED BY <1>3, <1>6, <3>1
  <2>2. ASSUME NEW k \in Numbered'
        PROVE  LET before == {j \in Numbered' : j < k}
               IN  IF before = {} THEN Number(k)' = 1
                   ELSE \E j \in before : /\ \A i \in before : i <= j
                                          /\ Number(k)' \in {Number(j)', Number(j)' + 1}
    <3>1. CASE k \in Numbered
      <4>1. ~ (n < k)
        BY <1>2, <3>1
      <4>2. {j \in Numbered' : j < k} = {j \in Numbered : j < k}
        BY <1>6, <4>1
      <4> QED BY <1>2, <1>4, <3>1, <4>2
    <3>2. CASE k = n
      <4>1. {j \in Numbered' : j < n} = Numbered
        BY <1>2, <1>6
      <4>2. CASE Numbered = {}
        <5>1. current = 1
          BY <1>4, <4>2
        <5>2. Number(n)' = 1
          BY <1>6, <5>1
        <5> QED BY <3>2, <4>1, <4>2, <5>2
      <4>3. CASE Numbered # {}
        <5>1. PICK j \in Numbered : Number(j) = current - 1 /\ \A i \in Numbered : i <= j
          BY <1>4, <4>3
        <5>2. Number(j)' = current - 1
          BY <1>2, <5>1
        <5>3. Number(n)' \in {current - 1, current - 1 + 1}
          BY <1>3, <1>6
        <5> QED BY <3>2, <4>1, <4>3, <5>1, <5>2, <5>3
      <4> QED BY <4>2, <4>3
    <3> QED BY <1>6, <3>1, <3>2
  <2>3. n \in Numbered'
    BY <1>6
  <2> QED BY <2>1, <2>2, <2>3 DEF NumberedOn
<1>7. CASE Number(n) \in DOMAIN mapping
  <2>1. current # 1
    BY <1>3, <1>7
  <2> QED BY <1>1, <1>5, <1>6, <1>7, <2>1, Renumbered
<1>8. CASE Number(n) \notin DOMAIN mapping
  BY <1>1, <1>5, <1>6, <1>8, Renumbered
<1> QED BY <1>7, <1>8

LEMMA NumbersNext ==
    ASSUME AddStateInv, [Next]_vars
    PROVE  MappingTells' /\ NumberedSplit' /\ NumberedOn'
<1> USE DEF AddStateInv
<1>1. ASSUME NEW e \in Event, Emit(e) PROVE MappingTells' /\ NumberedSplit' /\ NumberedOn'
  BY <1>1 DEF Emit, MappingTells, NumberedSplit, NumberedOn
<1>2. CASE Load
  BY <1>2 DEF Load, MappingTells, NumberedSplit, NumberedOn
<1>3. ASSUME NEW keep \in SUBSET DOMAIN feed, Filter(keep)
      PROVE  MappingTells' /\ NumberedSplit' /\ NumberedOn'
  BY <1>3 DEF Filter, MappingTells, NumberedSplit, NumberedOn
<1>4. CASE Begin
  BY <1>4 DEF Begin, MappingTells, NumberedSplit, NumberedOn
<1>5. CASE Step
  BY <1>5 DEF Step, MappingTells, NumberedSplit, NumberedOn
<1>6. CASE EndLoop
  <2>1. at' = 0 /\ mapping' = <<>> /\ current' = 1
    BY <1>6 DEF EndLoop, Typed
  <2>2. Numbered' = {} /\ DOMAIN mapping' = {}
    BY <2>1 DEF Numbered, Done
  <2> QED BY <2>1, <2>2 DEF MappingTells, NumberedSplit, NumberedOn
<1>7. CASE PostProcess
  BY <1>7, MappingPostProcess, NumberedPostProcess
<1>8. CASE Return
  BY <1>8 DEF Return, MappingTells, NumberedSplit, NumberedOn
<1>9. CASE UNCHANGED vars
  <2>1. UNCHANGED <<feed, records, linked, attached, pc, at, mapping, current>>
    BY <1>9 DEF vars
  <2>2. \A j, k : Continues(j, k)' = Continues(j, k) /\ Number(k)' = Number(k)
    BY <2>1, SameDataset DEF Number
  <2>3. Raw' = Raw /\ Numbered' = Numbered
    BY <2>1 DEF Raw, Numbered, Done
  <2> QED BY <2>1, <2>2, <2>3 DEF MappingTells, NumberedSplit, NumberedOn
<1> QED BY <1>1, <1>2, <1>3, <1>4, <1>5, <1>6, <1>7, <1>8, <1>9 DEF Next

----------------------------------------------------------------------------
\* The theorems.

LEMMA InvInit == Init => AddStateInv
<1> SUFFICES ASSUME Init PROVE AddStateInv
  OBVIOUS
<1>1. pc = "feed" /\ attached = <<>>
  BY DEF Init
<1> QED BY <1>1, TypedInit
        DEF AddStateInv, ScoreExact, ScoreCounts, TeamsHeld, RawSplit, MappingTells,
            NumberedSplit, NumberedOn

LEMMA InvNext == AddStateInv /\ [Next]_vars => AddStateInv'
<1> SUFFICES ASSUME AddStateInv, [Next]_vars PROVE AddStateInv'
  OBVIOUS
<1>1. Typed /\ ScoreExact /\ ScoreCounts /\ TeamsHeld /\ RawSplit
  BY DEF AddStateInv
<1>2. Typed'
  BY <1>1, TypedNext
<1>3. ScoreExact' /\ ScoreCounts' /\ TeamsHeld' /\ RawSplit'
  BY <1>1, <1>2, ScoreNext, TeamsNext, RawSplitNext
<1>4. MappingTells' /\ NumberedSplit' /\ NumberedOn'
  BY NumbersNext
<1> QED BY <1>2, <1>3, <1>4 DEF AddStateInv

\* What is processed is split and numbered as the properties say.
LEMMA InvImplies ==
    ASSUME AddStateInv
    PROVE  ScoreExact /\ PossessionExact /\ SequenceSplit /\ SequencesNumbered
<1>1. ScoreExact
  BY DEF AddStateInv
<1>2. ASSUME Processed PROVE DOMAIN attached = Done /\ pc = "post"
  BY <1>2 DEF Processed, Done, AddStateInv, Typed, TypeOK
<1>3. PossessionExact
  BY <1>2 DEF PossessionExact, AddStateInv, TeamsHeld
<1>4. SequenceSplit
  <2>1. ASSUME Processed, NEW j \in Done, NEW k \in Done, j < k,
               attached[j].sequence # NoSequence, attached[k].sequence # NoSequence
        PROVE  Number(j) = Number(k) <=> Continues(j, k)
    BY <1>2, <2>1 DEF AddStateInv, NumberedSplit, Numbered
  <2> QED BY <1>2, <2>1 DEF SequenceSplit, Continues, Number
<1>5. SequencesNumbered
  <2>1. ASSUME Processed
        PROVE  {k \in DOMAIN attached : attached[k].sequence.id # None} = Numbered
    <3>1. ASSUME NEW k \in Done
          PROVE  attached[k].sequence.id # None <=> attached[k].sequence # NoSequence
      <4>1. attached[k].sequence.id = None <=> attached[k].sequence.team = None
        BY <1>2, <2>1 DEF AddStateInv, TeamsHeld
      <4>2. attached[k] \in State
        BY <1>2, <2>1 DEF AddStateInv, Typed, TypeOK
      <4>3. attached[k].sequence \in Sequence
        BY <4>2 DEF State
      <4> QED BY <4>1, <4>3 DEF Sequence, NoSequence
    <3> QED BY <1>2, <2>1, <3>1 DEF Numbered
  <2>2. Processed => NumberedOn /\ pc = "post"
    BY <1>2 DEF AddStateInv
  <2> QED BY <2>1, <2>2 DEF SequencesNumbered, NumberedOn, Number
<1> QED BY <1>1, <1>3, <1>4, <1>5

LEMMA InvAlways == Spec => []AddStateInv
  BY InvInit, InvNext, PTL DEF Spec

\* Whatever the feed and the filter, the score attached to an event is exactly
\* the number of goals of each team before it.  (add_state, ScoreStateBuilder)
THEOREM ScoresAreExact == Spec => []ScoreExact
<1>1. AddStateInv => ScoreExact
  BY InvImplies
<1> QED BY <1>1, InvAlways, PTL

\* Every event but the off-ball ones carries the team in control, computed
\* from the whole past.  (SequenceStateBuilder)
THEOREM PossessionIsExact == Spec => []PossessionExact
<1>1. AddStateInv => PossessionExact
  BY InvImplies
<1> QED BY <1>1, InvAlways, PTL

\* Two events have the same number exactly when nothing ends the sequence from
\* the one to the other.  (reduce_before, reduce_after, post_process)
THEOREM SequencesAreSplit == Spec => []SequenceSplit
<1>1. AddStateInv => SequenceSplit
  BY InvImplies
<1> QED BY <1>1, InvAlways, PTL

\* The sequences are numbered 1, 2, 3, ... in the order of the events, and no
\* number comes back.  (post_process)
THEOREM SequencesAreNumbered == Spec => []SequencesNumbered
<1>1. AddStateInv => SequencesNumbered
  BY InvImplies
<1> QED BY <1>1, InvAlways, PTL

\* The states are well formed, and one is attached to each event processed.
THEOREM AddStateTypes == Spec => []TypeOK
<1>1. AddStateInv => TypeOK
  BY DEF AddStateInv, Typed
<1> QED BY <1>1, InvAlways, PTL

=================================================================================
