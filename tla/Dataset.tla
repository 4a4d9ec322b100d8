------------------------------ MODULE Dataset ------------------------------
(***************************************************************************)
(* Datasets that share record objects.                                     *)
(*                                                                         *)
(* A deserializer builds a dataset; filter, map (and add_state, which maps *)
(* replace over every record) and transform build further datasets from    *)
(* it.  They copy some record objects and hand on the others, so a record  *)
(* is an object of the heap, with the references set_refs gave it when it  *)
(* was first put in a dataset.                                             *)
(*                                                                         *)
(* Coordinates are abstracted to the frame of reference they are expressed *)
(* in: the coordinate system, and the direction the home team attacks in.  *)
(* Every operation keeps the order of the records, so a list of records is *)
(* a function from the numbers of its source records to objects, and the   *)
(* list is that function in ascending order.                               *)
(***************************************************************************)
EXTENDS Integers, Sequences, FiniteSets

CONSTANTS
    Sources,        \* numbers of the records a provider's feed may hold
    Feeds,          \* the sets of records one feed may consist of
    PeriodOf,       \* record.period.id
    OwnerOf,        \* ground of record.ball_owning_team, or None
    TeamOf,         \* ground of event.team; None for a frame of tracking data
    HasFreezeFrame, \* the records that carry a freeze frame
    None,
    Garbled,        \* what converting from the wrong coordinate system gives
    Orientations,   \* orientations a feed may have or a caller ask for
    Axes,           \* origin and vertical orientation of a coordinate system
    Dims,           \* pitch dimensions
    MaxDatasets     \* bound on the datasets of a session

Grounds == {"home", "away"}
Directions == {"ltr", "rtl"}
CoordinateSystem == [axes : Axes, dims : Dims]

ASSUME DatasetAssumption ==
    /\ Sources \subseteq Nat \ {0}
    /\ IsFiniteSet(Sources)
    /\ Feeds \subseteq SUBSET Sources
    /\ PeriodOf \in [Sources -> 1..5]
    /\ OwnerOf \in [Sources -> Grounds \cup {None}]
    /\ TeamOf \in [Sources -> Grounds \cup {None}]
    /\ HasFreezeFrame \subseteq Sources
    /\ None \notin Grounds /\ None \notin Axes /\ None \notin Dims
    /\ None \notin Nat /\ None \notin Orientations
    /\ None \notin CoordinateSystem
    /\ Garbled \notin CoordinateSystem
    /\ MaxDatasets \in Nat

VARIABLES
    heap,      \* the record objects; <<n, e>> is the copy of source record e
               \* made for dataset n
    datasets,  \* the datasets built so far
    failed     \* the record on which the last transform raised, or None

vars == <<heap, datasets, failed>>

Id == (1..MaxDatasets) \X Sources

View == [dir : Directions, cs : CoordinateSystem \cup {Garbled}]

Record == [dir : Directions, cs : CoordinateSystem \cup {Garbled},
           freeze_frame : View \cup {None},
           dataset : 0..MaxDatasets,            \* 0: no attribute yet
           prev_record : Id \cup {None}, next_record : Id \cup {None}]

----------------------------------------------------------------------------
\* AttackingDirection.from_orientation

Opposite(dir) == IF dir = "ltr" THEN "rtl" ELSE "ltr"

HomeAwayDirection(period) == IF period \in {1, 3} THEN "ltr" ELSE "rtl"

GroundDirection(ground) == IF ground = "home" THEN "ltr" ELSE "rtl"

\* The direction of the home team, or None where from_orientation raises: no
\* direction is set, the period is a shootout, or the team is unknown.
FromOrientation(o, period, owner, team) ==
    CASE o = "static-home-away" -> "ltr"
      [] o = "static-away-home" -> "rtl"
      [] o = "home-away" /\ period # 5 -> HomeAwayDirection(period)
      [] o = "away-home" /\ period # 5 -> Opposite(HomeAwayDirection(period))
      [] o = "ball-owning-team" /\ owner # None -> GroundDirection(owner)
      [] o = "action-executing-team" /\ team # None -> GroundDirection(team)
      [] OTHER -> None

\* record.attacking_direction, read through the dataset the record refers to.
\* An Event passes its team, a Frame has none.
AttackingDirection(x) ==
    FromOrientation(datasets[heap[x].dataset].orientation,
                    PeriodOf[x[2]], OwnerOf[x[2]], TeamOf[x[2]])

----------------------------------------------------------------------------
\* Dataset.__post_init__: DataRecord.set_refs on every record of the list

Before(S, e) == {f \in S : f < e}
After(S, e) == {f \in S : f > e}

PrevIn(recs, e) ==
    IF Before(DOMAIN recs, e) = {} THEN None
    ELSE recs[CHOOSE f \in Before(DOMAIN recs, e) : \A g \in Before(DOMAIN recs, e) : g <= f]

NextIn(recs, e) ==
    IF After(DOMAIN recs, e) = {} THEN None
    ELSE recs[CHOOSE f \in After(DOMAIN recs, e) : \A g \in After(DOMAIN recs, e) : g >= f]

\* Fault: the early return of set_refs is missing
SetRefsAlways(r, n, recs, e) ==
    [r EXCEPT !.dataset = n, !.prev_record = PrevIn(recs, e), !.next_record = NextIn(recs, e)]

\* Fault: prev and next exchanged
SetRefsSwapped(r, n, recs, e) ==
    IF r.dataset # 0 THEN r
    ELSE [r EXCEPT !.dataset = n, !.prev_record = NextIn(recs, e), !.next_record = PrevIn(recs, e)]

\* Fault: the early return spares the dataset only, the links follow the filter
SetRefsRelinks(r, n, recs, e) ==
    [r EXCEPT !.dataset = IF r.dataset # 0 THEN r.dataset ELSE n,
              !.prev_record = PrevIn(recs, e), !.next_record = NextIn(recs, e)]

\* a record that already has a dataset keeps its references
SetRefs(r, n, recs, e) ==
    IF r.dataset # 0 THEN r
    ELSE [r EXCEPT !.dataset = n, !.prev_record = PrevIn(recs, e), !.next_record = NextIn(recs, e)]

\* A new dataset over recs; fresh gives the objects made for it.
Construct(recs, fresh, orientation, cs, owned) ==
    LET n == Len(datasets) + 1
        known == [x \in DOMAIN heap \cup DOMAIN fresh |->
                      IF x \in DOMAIN fresh THEN fresh[x] ELSE heap[x]]
        listed == {recs[e] : e \in DOMAIN recs}
    IN  /\ n <= MaxDatasets
        /\ heap' = [x \in DOMAIN known |->
                        IF x \in listed THEN SetRefs(known[x], n, recs, x[2]) ELSE known[x]]
        /\ datasets' = Append(datasets,
                              [records |-> recs, orientation |-> orientation, cs |-> cs,
                               owned |-> owned])

NewId(e) == <<Len(datasets) + 1, e>>

\* Fault: the copy comes with the references of the original
UnlinkedKeeps(r) == r

\* dataclasses.replace: a new object without references
Unlinked(r) == [r EXCEPT !.dataset = 0, !.prev_record = None, !.next_record = None]

----------------------------------------------------------------------------
\* A deserializer builds the events of a feed and the first dataset.  A
\* direction that the orientation does not define is whatever the feed has.

Undirected(e, o) == FromOrientation(o, PeriodOf[e], OwnerOf[e],
                        IF TeamOf[e] = None THEN OwnerOf[e] ELSE TeamOf[e]) = None

FeedDirections(S, o) ==
    {d \in [S -> Directions] :
        \A e \in S : \/ Undirected(e, o)
                     \/ d[e] = FromOrientation(o, PeriodOf[e], OwnerOf[e],
                                   IF TeamOf[e] = None THEN OwnerOf[e] ELSE TeamOf[e])}

Load(S, o, cs, dirs) ==
    /\ datasets = <<>>
    /\ LET recs == [e \in S |-> NewId(e)]
           loaded(e) == [dir |-> dirs[e], cs |-> cs,
                         freeze_frame |-> IF e \in HasFreezeFrame
                                          THEN [dir |-> dirs[e], cs |-> cs] ELSE None,
                         dataset |-> 0, prev_record |-> None, next_record |-> None]
           fresh == [x \in {recs[e] : e \in S} |-> loaded(x[2])]
       IN  Construct(recs, fresh, o, cs, \E e \in S : OwnerOf[e] # None)
    /\ failed' = None

\* Dataset.filter: find_all hands on the objects that match
Filter(n, keep) ==
    LET ds == datasets[n]
    IN  /\ Construct([e \in keep |-> ds.records[e]], <<>>, ds.orientation, ds.cs, ds.owned)
        /\ UNCHANGED failed

\* Dataset.map: the mapper replaces the records of changed and returns the
\* others as they are.  add_state replaces all of them.
Map(n, changed) ==
    LET ds == datasets[n]
        recs == [e \in DOMAIN ds.records |-> IF e \in changed THEN NewId(e) ELSE ds.records[e]]
        fresh == [x \in {NewId(e) : e \in changed} |-> Unlinked(heap[ds.records[x[2]]])]
    IN  /\ Construct(recs, fresh, ds.orientation, ds.cs, ds.owned)
        /\ UNCHANGED failed

----------------------------------------------------------------------------
\* DatasetTransformer

\* Fault: the coordinate system for new dimensions is built without the axes
TargetCsNoAxes(from, toDims, toCs) ==
    IF toDims # None THEN [axes |-> None, dims |-> toDims]
    ELSE IF toCs # None THEN toCs
    ELSE from

\* The target of transform_dataset: pitch dimensions are looked at first, and
\* a coordinate system given with them is dropped.
TargetCs(from, toDims, toCs) ==
    IF toDims # None THEN [axes |-> from.axes, dims |-> toDims]
    ELSE IF toCs # None THEN toCs
    ELSE from

\* Fault: the action executing team does not default to the ball owning team
ExecutingTeamStrict(team, owner) == team

ExecutingTeam(team, owner) == IF team = None THEN owner ELSE team

\* the orientations differ and from_orientation raises for one of them
FlipRaises(from, to, period, owner, team) ==
    /\ from # to
    /\ \/ FromOrientation(from, period, owner, ExecutingTeam(team, owner)) = None
       \/ FromOrientation(to, period, owner, ExecutingTeam(team, owner)) = None

NeedsFlip(from, to, period, owner, team) ==
    /\ from # to
    /\ FromOrientation(from, period, owner, ExecutingTeam(team, owner))
         # FromOrientation(to, period, owner, ExecutingTeam(team, owner))

ConvertCs(cs, from, to) ==
    IF from = to THEN cs ELSE IF cs = from THEN to ELSE Garbled

FlipDir(dir, flip) == IF flip THEN Opposite(dir) ELSE dir

\* Fault: the freeze frame is converted but never flipped
TransformFreezeFrameUnflipped(view, e, ds, o, cs) ==
    IF view = None THEN None
    ELSE [dir |-> view.dir, cs |-> ConvertCs(view.cs, ds.cs, cs)]

\* transform_frame on a freeze frame, which carries the ball owning team of
\* its event and no action executing team
TransformFreezeFrame(view, e, ds, o, cs) ==
    IF view = None THEN None
    ELSE [dir |-> FlipDir(view.dir, NeedsFlip(ds.orientation, o, PeriodOf[e], OwnerOf[e], None)),
          cs |-> ConvertCs(view.cs, ds.cs, cs)]

\* Fault: an event is flipped for the ball owning team, as a frame is
RecordFlipsByOwner(e, ds, o) == NeedsFlip(ds.orientation, o, PeriodOf[e], OwnerOf[e], None)

RecordFlips(e, ds, o) == NeedsFlip(ds.orientation, o, PeriodOf[e], OwnerOf[e], TeamOf[e])

\* transform_event (or transform_frame) fails on the record
Raises(e, r, ds, o) ==
    \/ FlipRaises(ds.orientation, o, PeriodOf[e], OwnerOf[e], TeamOf[e])
    \/ r.freeze_frame # None /\ FlipRaises(ds.orientation, o, PeriodOf[e], OwnerOf[e], None)

\* the record is rebuilt; otherwise the object itself goes into the result
Rebuilt(e, ds, o, cs) == ds.cs # cs \/ RecordFlips(e, ds, o)

\* The transformed record.  A rebuilt one has no references yet; one that is
\* handed on has its freeze frame assigned in place.
Transformed(e, r, ds, o, cs) ==
    LET moved == [r EXCEPT !.dir = FlipDir(r.dir, RecordFlips(e, ds, o)),
                           !.cs = ConvertCs(r.cs, ds.cs, cs),
                           !.freeze_frame = TransformFreezeFrame(r.freeze_frame, e, ds, o, cs)]
    IN  IF Rebuilt(e, ds, o, cs) THEN Unlinked(moved) ELSE moved

\* ValueError without the flag BALL_OWNING_TEAM, before any record is looked
\* at; nothing is checked when no orientation is asked for
TransformAllowed(ds, toO) == toO # "ball-owning-team" \/ ds.owned

\* Every record is transformed and the new dataset is built.
Transform(n, o, cs) ==
    LET ds == datasets[n]
        S == DOMAIN ds.records
        old(e) == heap[ds.records[e]]
        rebuilt == {e \in S : Rebuilt(e, ds, o, cs)}
        recs == [e \in S |-> IF e \in rebuilt THEN NewId(e) ELSE ds.records[e]]
        fresh == [x \in {recs[e] : e \in S} |-> Transformed(x[2], old(x[2]), ds, o, cs)]
    IN  /\ \A e \in S : ~Raises(e, old(e), ds, o)
        /\ Construct(recs, fresh, o, cs, ds.owned)
        /\ failed' = None

\* A record raises.  No dataset is built, but the freeze frames of the records
\* before it that are handed on have been assigned.
TransformFails(n, o, cs) ==
    LET ds == datasets[n]
        S == DOMAIN ds.records
        old(e) == heap[ds.records[e]]
        raising == {e \in S : Raises(e, old(e), ds, o)}
        touched == {e \in S : ~Rebuilt(e, ds, o, cs) /\ \A f \in raising : e < f}
    IN  /\ raising # {}
        /\ heap' = [x \in DOMAIN heap |->
                        IF \E e \in touched : x = ds.records[e]
                        THEN Transformed(x[2], heap[x], ds, o, cs) ELSE heap[x]]
        /\ failed' = CHOOSE e \in raising : \A f \in raising : e <= f
        /\ UNCHANGED datasets

\* transform() with any combination of targets but none at all
TransformCall(n) ==
    \E toO \in Orientations \cup {None}, toDims \in Dims \cup {None},
       toCs \in CoordinateSystem \cup {None} :
        /\ <<toO, toDims, toCs>> # <<None, None, None>>
        /\ TransformAllowed(datasets[n], toO)
        /\ LET o == IF toO = None THEN datasets[n].orientation ELSE toO
               cs == TargetCs(datasets[n].cs, toDims, toCs)
           IN  Transform(n, o, cs) \/ TransformFails(n, o, cs)

----------------------------------------------------------------------------

Init == heap = <<>> /\ datasets = <<>> /\ failed = None

Next ==
    \/ \E S \in Feeds, o \in Orientations, cs \in CoordinateSystem :
           \E dirs \in FeedDirections(S, o) : Load(S, o, cs, dirs)
    \/ \E n \in DOMAIN datasets :
           \/ \E keep \in SUBSET DOMAIN datasets[n].records : Filter(n, keep)
           \/ \E changed \in SUBSET DOMAIN datasets[n].records : Map(n, changed)
           \/ TransformCall(n)

Spec == Init /\ [][Next]_vars

----------------------------------------------------------------------------

\* The direction in which record e must be expressed in a dataset of
\* orientation o, or None where the orientation leaves it open
DirectionIn(o, e) ==
    FromOrientation(o, PeriodOf[e], OwnerOf[e], ExecutingTeam(TeamOf[e], OwnerOf[e]))

\* object x is expressed in the coordinate system and orientation of ds
SameFrame(x, ds) ==
    /\ heap[x].cs = ds.cs
    /\ DirectionIn(ds.orientation, x[2]) \in {None, heap[x].dir}

TypeOK ==
    /\ DOMAIN heap \subseteq Id
    /\ \A x \in DOMAIN heap : heap[x] \in Record
    /\ DOMAIN datasets \subseteq 1..MaxDatasets
    /\ \A n \in DOMAIN datasets :
           /\ datasets[n].orientation \in Orientations /\ datasets[n].cs \in CoordinateSystem
           /\ datasets[n].owned \in BOOLEAN
           /\ DOMAIN datasets[n].records \subseteq Sources
           /\ \A e \in DOMAIN datasets[n].records : datasets[n].records[e] \in DOMAIN heap
    /\ failed \in Sources \cup {None}

\* Every record of every dataset ever built, the shared objects included, has
\* its coordinates in the coordinate system and orientation that the metadata
\* of that dataset announces, after any session of filters, maps and
\* transforms in any order.  (transform_event, transform_frame, metadata)
DatasetCoherent ==
    \A n \in DOMAIN datasets : \A e \in DOMAIN datasets[n].records :
        SameFrame(datasets[n].records[e], datasets[n])

\* A record handed on to a transformed dataset still refers to the dataset it
\* came from, whose orientation is another one.  The attacking direction read
\* through that old reference is nevertheless that of its coordinates.
\* (DataRecord.set_refs, attacking_direction)
RefDirection ==
    \A x \in DOMAIN heap :
        heap[x].dataset # 0 => AttackingDirection(x) \in {None, heap[x].dir}

\* A record lies in the dataset it refers to, and its links are its
\* neighbours there, whatever subsets of that dataset were built since.
\* (DataRecord.set_refs)
OwnChain ==
    \A x \in DOMAIN heap :
        LET recs == datasets[heap[x].dataset].records
        IN  /\ heap[x].dataset # 0
            /\ x[2] \in DOMAIN recs /\ recs[x[2]] = x
            /\ heap[x].prev_record = PrevIn(recs, x[2])
            /\ heap[x].next_record = NextIn(recs, x[2])

\* The loops of prev and next end: a link leads strictly backward or forward
\* in the feed, through records of this dataset or older ones.
\* (DataRecord.prev, DataRecord.next)
LinksAdvance ==
    \A x \in DOMAIN heap :
        LET p == heap[x].prev_record
            q == heap[x].next_record
        IN  /\ p # None => p[2] < x[2] /\ heap[p].dataset <= heap[x].dataset
            /\ q # None => q[2] > x[2] /\ heap[q].dataset <= heap[x].dataset

\* An event of the team in possession and its freeze frame are expressed in
\* the same frame of reference.  (transform_event)
FreezeFrameCoherent ==
    \A x \in DOMAIN heap :
        (heap[x].freeze_frame # None /\ TeamOf[x[2]] = OwnerOf[x[2]]) =>
            heap[x].freeze_frame = [dir |-> heap[x].dir, cs |-> heap[x].cs]

\* Building a dataset, or failing to, changes no record of another: not its
\* coordinates, not its references and, where the team in possession acts, not
\* the freeze frame that transform_event assigns.
RecordsImmutable ==
    [][\A x \in DOMAIN heap :
           /\ x \in DOMAIN heap'
           /\ \/ heap'[x] = heap[x]
              \/ /\ TeamOf[x[2]] # OwnerOf[x[2]]
                 /\ heap'[x] = [heap[x] EXCEPT !.freeze_frame = heap'[x].freeze_frame]]_vars

\* "A snapshot with the location of other players at the time of the event"
\* (domain/models/event.py:705), in the coordinates of the event.
FreezeFrameAgrees ==
    \A x \in DOMAIN heap :
        heap[x].freeze_frame # None => heap[x].freeze_frame.dir = heap[x].dir

\* "This period is ignored in orientation transforms" (domain/models/common.py:388):
\* a transform never fails on a record of the shootout.
ShootoutIgnored == failed # None => PeriodOf[failed] # 5

\* "next_record: The next record in the dataset" (domain/models/common.py:1515):
\* whoever walks two records on from a record made for a dataset reads
\* coordinates in the frame of reference of that dataset.
NextInFrame ==
    \A x \in DOMAIN heap :
        LET y == heap[x].next_record
        IN  (y # None /\ heap[y].next_record # None) =>
                SameFrame(heap[y].next_record, datasets[heap[x].dataset])

============================================================================
