--------------------------- MODULE Dataset_proofs ---------------------------
(***************************************************************************)
(* Proofs that, whatever the feed and however long the session:            *)
(*                                                                         *)
(* - every record of every dataset is expressed in the coordinate system   *)
(*   and orientation of that dataset.  The invariant says what keeps the   *)
(*   shared objects apart: an object bears the number of a dataset already *)
(*   built, so that a new one is fresh, and a list holds for each source   *)
(*   record an object made from it.                                        *)
(*                                                                         *)
(* - building a dataset, or failing to, changes no record of another       *)
(*   dataset, although they share objects, and the references of a record  *)
(*   stay those of the dataset it was made for.  Two facts protect a       *)
(*   shared object: it already refers to a dataset, so set_refs leaves it  *)
(*   alone; and transform_event hands it on only when the event needs no   *)
(*   change, and then a freeze frame of the team in possession needs none  *)
(*   either.                                                               *)
(***************************************************************************)
EXTENDS Dataset, FiniteLemmas

Fields == {"dir", "cs", "freeze_frame", "dataset", "prev_record", "next_record"}

\* r has the fields of a record; what its links hold does not matter here
Framed(r) ==
    /\ r = [f \in Fields |-> r[f]]
    /\ r.dir \in Directions
    /\ r.cs \in CoordinateSystem

HeapInv ==
    /\ heap = [x \in DOMAIN heap |-> heap[x]]
    /\ \A x \in DOMAIN heap : /\ x \in (Nat \ {0}) \X Sources
                              /\ x[1] <= Len(datasets)
                              /\ Framed(heap[x])

Listed(ds) ==
    /\ ds.cs \in CoordinateSystem
    /\ DOMAIN ds.records \subseteq Sources
    /\ \A e \in DOMAIN ds.records : /\ ds.records[e] \in DOMAIN heap
                                    /\ ds.records[e][2] = e

DatasetsInv ==
    /\ datasets \in Seq({datasets[n] : n \in DOMAIN datasets})
    /\ \A n \in DOMAIN datasets : Listed(datasets[n])

IInv == HeapInv /\ DatasetsInv /\ DatasetCoherent

----------------------------------------------------------------------------
\* Directions

\* A direction is that of the home team or unknown.
LEMMA FromOrientationTyped ==
    ASSUME NEW o, NEW period, NEW owner, NEW team
    PROVE  FromOrientation(o, period, owner, team) \in Directions \cup {None}
BY DEF FromOrientation, HomeAwayDirection, GroundDirection, Opposite, Directions

\* Flipping a record that does not raise gives it the direction of the target
\* orientation.
LEMMA FlipRight ==
    ASSUME NEW from, NEW to, NEW e, NEW dir \in Directions,
           ~FlipRaises(from, to, PeriodOf[e], OwnerOf[e], TeamOf[e]),
           DirectionIn(from, e) \in {None, dir}
    PROVE  DirectionIn(to, e) \in
               {None, FlipDir(dir, NeedsFlip(from, to, PeriodOf[e], OwnerOf[e], TeamOf[e]))}
<1>1. CASE from = to
  BY <1>1 DEF NeedsFlip, FlipDir
<1>2. CASE from # to
  <2>1. DirectionIn(from, e) = dir /\ DirectionIn(to, e) # None
    BY <1>2 DEF FlipRaises, DirectionIn
  <2>2. DirectionIn(to, e) \in Directions
    BY <2>1, FromOrientationTyped DEF DirectionIn
  <2>3. NeedsFlip(from, to, PeriodOf[e], OwnerOf[e], TeamOf[e]) <=> DirectionIn(to, e) # dir
    BY <1>2, <2>1 DEF NeedsFlip, DirectionIn
  <2>4. DirectionIn(to, e) = FlipDir(dir, DirectionIn(to, e) # dir)
    BY <2>2 DEF FlipDir, Opposite, Directions
  <2> QED BY <2>3, <2>4 DEF FlipDir
<1> QED BY <1>1, <1>2

LEMMA FlipTyped ==
    ASSUME NEW dir \in Directions, NEW flip \in BOOLEAN
    PROVE  FlipDir(dir, flip) \in Directions
BY DEF FlipDir, Opposite, Directions

----------------------------------------------------------------------------
\* Records

\* set_refs changes references only.
LEMMA SetRefsFrame ==
    ASSUME NEW r, Framed(r), NEW n, NEW recs, NEW e
    PROVE  /\ Framed(SetRefs(r, n, recs, e))
           /\ SetRefs(r, n, recs, e).dir = r.dir
           /\ SetRefs(r, n, recs, e).cs = r.cs
<1> DEFINE p == PrevIn(recs, e)
           q == NextIn(recs, e)
           s == [r EXCEPT !.dataset = n, !.prev_record = p, !.next_record = q]
<1> HIDE DEF p, q
<1>1. s = [f \in Fields |-> s[f]] /\ s.dir = r.dir /\ s.cs = r.cs
  BY DEF Framed, Fields
<1>2. SetRefs(r, n, recs, e) = r \/ SetRefs(r, n, recs, e) = s
  BY DEF SetRefs, p, q
<1> HIDE DEF s
<1> QED BY <1>1, <1>2 DEF Framed

\* replace makes a copy without references.
LEMMA UnlinkedFrame ==
    ASSUME NEW r, Framed(r)
    PROVE  Framed(Unlinked(r)) /\ Unlinked(r).dir = r.dir /\ Unlinked(r).cs = r.cs
BY DEF Framed, Unlinked, Fields

\* What the transformer makes of a record of its source dataset.
LEMMA TransformedFrame ==
    ASSUME NEW e, NEW r, Framed(r), NEW ds, NEW o, NEW cs \in CoordinateSystem,
           ds.cs \in CoordinateSystem, r.cs = ds.cs
    PROVE  /\ Framed(Transformed(e, r, ds, o, cs))
           /\ Transformed(e, r, ds, o, cs).dir = FlipDir(r.dir, RecordFlips(e, ds, o))
           /\ Transformed(e, r, ds, o, cs).cs = cs
           /\ ~Rebuilt(e, ds, o, cs) => /\ Transformed(e, r, ds, o, cs).dir = r.dir
                                        /\ Transformed(e, r, ds, o, cs).cs = r.cs
<1> DEFINE d == FlipDir(r.dir, RecordFlips(e, ds, o))
           c == ConvertCs(r.cs, ds.cs, cs)
           v == TransformFreezeFrame(r.freeze_frame, e, ds, o, cs)
           moved == [r EXCEPT !.dir = d, !.cs = c, !.freeze_frame = v]
<1>1. d \in Directions
  <2>1. RecordFlips(e, ds, o) \in BOOLEAN
    BY DEF RecordFlips, NeedsFlip
  <2> QED BY <2>1, FlipTyped DEF Framed
<1>2. c = cs
  BY DEF ConvertCs
<1>3. ~Rebuilt(e, ds, o, cs) => d = r.dir /\ c = r.cs
  BY <1>2 DEF Rebuilt, FlipDir
<1> HIDE DEF d, c, v
<1>4. Framed(moved) /\ moved.dir = d /\ moved.cs = cs
  BY <1>1, <1>2 DEF Framed, Fields
<1>5. Transformed(e, r, ds, o, cs) = moved \/ Transformed(e, r, ds, o, cs) = Unlinked(moved)
  BY DEF Transformed, d, c, v
<1> HIDE DEF moved
<1>6. /\ Framed(Transformed(e, r, ds, o, cs))
      /\ Transformed(e, r, ds, o, cs).dir = d
      /\ Transformed(e, r, ds, o, cs).cs = cs
  BY <1>4, <1>5, UnlinkedFrame
<1> QED BY <1>2, <1>3, <1>6 DEF d

----------------------------------------------------------------------------
\* Building a dataset

\* What a call of Construct needs: every listed object is an old one or a
\* fresh one, made from the record it is listed for and expressed in the frame
\* of reference of the new dataset; a fresh version of an old object is
\* expressed as the old one is.
Buildable(recs, fresh, o, cs) ==
    /\ cs \in CoordinateSystem
    /\ DOMAIN recs \subseteq Sources
    /\ \A e \in DOMAIN recs : /\ recs[e] \in DOMAIN heap \cup DOMAIN fresh
                             /\ recs[e][2] = e
    /\ \A x \in DOMAIN fresh :
           /\ Framed(fresh[x])
           /\ x \in DOMAIN heap => fresh[x].dir = heap[x].dir /\ fresh[x].cs = heap[x].cs
           /\ x \notin DOMAIN heap => /\ x \in (Nat \ {0}) \X Sources
                                      /\ x[1] = Len(datasets) + 1
    /\ \A e \in DOMAIN recs :
           LET r == IF recs[e] \in DOMAIN fresh THEN fresh[recs[e]] ELSE heap[recs[e]]
           IN  r.cs = cs /\ DirectionIn(o, e) \in {None, r.dir}

LEMMA ConstructKeeps ==
    ASSUME IInv, NEW recs, NEW fresh, NEW o, NEW cs, NEW owned,
           Buildable(recs, fresh, o, cs),
           Construct(recs, fresh, o, cs, owned)
    PROVE  IInv'
<1> DEFINE n == Len(datasets) + 1
           dom == DOMAIN heap \cup DOMAIN fresh
           known == [x \in dom |-> IF x \in DOMAIN fresh THEN fresh[x] ELSE heap[x]]
           listed == {recs[e] : e \in DOMAIN recs}
           made == [records |-> recs, orientation |-> o, cs |-> cs, owned |-> owned]
<1>1. /\ heap' = [x \in DOMAIN known |->
                     IF x \in listed THEN SetRefs(known[x], n, recs, x[2]) ELSE known[x]]
      /\ datasets' = Append(datasets, made)
  BY DEF Construct
<1>2. DOMAIN heap' = dom
  BY <1>1
<1>3. \A x \in dom : Framed(known[x])
  BY DEF IInv, HeapInv, Buildable
<1>4. \A x \in dom : /\ Framed(heap'[x])
                     /\ heap'[x].dir = known[x].dir
                     /\ heap'[x].cs = known[x].cs
  <2> SUFFICES ASSUME NEW x \in dom
               PROVE  /\ Framed(heap'[x])
                      /\ heap'[x].dir = known[x].dir
                      /\ heap'[x].cs = known[x].cs
    OBVIOUS
  <2>1. Framed(known[x])
    BY <1>3
  <2> HIDE DEF known, n, listed
  <2>2. heap'[x] = SetRefs(known[x], n, recs, x[2]) \/ heap'[x] = known[x]
    BY <1>1 DEF known
  <2> QED BY <2>1, <2>2, SetRefsFrame
<1>5. \A x \in DOMAIN heap : heap'[x].dir = heap[x].dir /\ heap'[x].cs = heap[x].cs
  BY <1>4 DEF Buildable
<1>6. /\ Len(datasets) \in Nat /\ Len(datasets') = n
      /\ DOMAIN datasets = 1..Len(datasets) /\ DOMAIN datasets' = 1..n
      /\ \A k \in DOMAIN datasets : datasets'[k] = datasets[k]
      /\ datasets'[n] = made
  <2> DEFINE S == {datasets[k] : k \in DOMAIN datasets} \cup {made}
  <2>1. datasets \in Seq(S) /\ made \in S
    BY DEF IInv, DatasetsInv
  <2> HIDE DEF S, made
  <2> QED BY <1>1, <2>1
<1> HIDE DEF n
<1>7. datasets' \in Seq({datasets'[k] : k \in DOMAIN datasets'})
  <2>1. datasets' = [k \in 1..n |-> datasets'[k]]
    <3> DEFINE S == {datasets[k] : k \in DOMAIN datasets} \cup {made}
    <3>1. datasets \in Seq(S) /\ made \in S
      BY DEF IInv, DatasetsInv
    <3> HIDE DEF S, made
    <3>2. datasets' \in Seq(S)
      BY <1>1, <3>1
    <3> QED BY <3>2, <1>6
  <2> QED BY <2>1, <1>6 DEF n
<1>8. \A x \in dom : x \in (Nat \ {0}) \X Sources /\ x[1] <= n
  BY <1>6 DEF IInv, HeapInv, Buildable, n
<1>9. HeapInv'
  <2>1. heap' = [x \in DOMAIN heap' |-> heap'[x]]
    BY <1>1
  <2> QED BY <2>1, <1>2, <1>4, <1>6, <1>8 DEF HeapInv, Framed
<1>10. Listed(made)'
  BY <1>2 DEF Listed, Buildable
<1>11. \A k \in DOMAIN datasets : Listed(datasets[k])'
  <2> SUFFICES ASSUME NEW k \in DOMAIN datasets
               PROVE  Listed(datasets[k])'
    OBVIOUS
  <2>1. datasets'[k] = datasets[k] /\ Listed(datasets[k])
    BY <1>6 DEF IInv, DatasetsInv
  <2> QED BY <2>1, <1>2 DEF Listed
<1>12. \A e \in DOMAIN recs : heap'[recs[e]].cs = cs /\ DirectionIn(o, e) \in {None, heap'[recs[e]].dir}
  BY <1>4 DEF Buildable
<1>13. DatasetCoherent'
  <2> SUFFICES ASSUME NEW k \in DOMAIN datasets', NEW e \in DOMAIN datasets'[k].records
               PROVE  SameFrame(datasets[k].records[e], datasets[k])'
    BY DEF DatasetCoherent
  <2>1. CASE k = n
    <3>1. datasets'[k] = made
      BY <1>6, <2>1
    <3>2. recs[e][2] = e /\ e \in DOMAIN recs
      BY <3>1 DEF Buildable
    <3> QED BY <3>1, <3>2, <1>12 DEF SameFrame, DirectionIn
  <2>2. CASE k # n
    <3>1. k \in DOMAIN datasets /\ datasets'[k] = datasets[k]
      BY <1>6, <2>2 DEF n
    <3>2. SameFrame(datasets[k].records[e], datasets[k]) /\ datasets[k].records[e] \in DOMAIN heap
      BY <3>1 DEF IInv, DatasetCoherent, DatasetsInv, Listed
    <3> QED BY <3>1, <3>2, <1>5 DEF SameFrame, DirectionIn
  <2> QED BY <2>1, <2>2
<1>14. DatasetsInv'
  <2> SUFFICES ASSUME NEW k \in DOMAIN datasets'
               PROVE  Listed(datasets[k])'
    BY <1>7 DEF DatasetsInv
  <2>1. CASE k = n
    BY <1>6, <1>10, <2>1 DEF Listed
  <2>2. CASE k # n
    <3>1. k \in DOMAIN datasets
      BY <1>6, <2>2 DEF n
    <3> QED BY <3>1, <1>11
  <2> QED BY <2>1, <2>2
<1> QED BY <1>9, <1>13, <1>14 DEF IInv

----------------------------------------------------------------------------
\* The actions

LEMMA InitIInv == Init => IInv
BY DEF Init, IInv, HeapInv, DatasetsInv, DatasetCoherent

\* An object made for the next dataset is not in the heap yet.
LEMMA NewIdFresh ==
    ASSUME IInv, NEW e \in Sources
    PROVE  /\ NewId(e) \notin DOMAIN heap
           /\ NewId(e) \in (Nat \ {0}) \X Sources
           /\ NewId(e)[1] = Len(datasets) + 1
           /\ NewId(e)[2] = e
<1>1. Len(datasets) \in Nat
  BY DEF IInv, DatasetsInv
<1> QED BY <1>1 DEF IInv, HeapInv, NewId

LEMMA LoadKeeps ==
    ASSUME IInv, NEW S \in SUBSET Sources, NEW o, NEW cs \in CoordinateSystem,
           NEW dirs \in FeedDirections(S, o), Load(S, o, cs, dirs)
    PROVE  IInv'
<1> DEFINE recs == [e \in S |-> NewId(e)]
           frame(e) == IF e \in HasFreezeFrame THEN [dir |-> dirs[e], cs |-> cs] ELSE None
           loaded(e) == [dir |-> dirs[e], cs |-> cs, freeze_frame |-> frame(e),
                         dataset |-> 0, prev_record |-> None, next_record |-> None]
           fresh == [x \in {recs[e] : e \in S} |-> loaded(x[2])]
           owned == \E e \in S : OwnerOf[e] # None
<1>1. Construct(recs, fresh, o, cs, owned)
  BY DEF Load
<1>2. \A e \in S : /\ dirs[e] \in Directions
                   /\ DirectionIn(o, e) \in {None, dirs[e]}
  BY DEF FeedDirections, Undirected, DirectionIn, ExecutingTeam
<1>3. \A e \in S : /\ recs[e] \notin DOMAIN heap
                   /\ recs[e] \in (Nat \ {0}) \X Sources
                   /\ recs[e][1] = Len(datasets) + 1
                   /\ recs[e][2] = e
  BY NewIdFresh
<1> HIDE DEF recs
<1>4. \A e \in S : Framed(loaded(e)) /\ loaded(e).dir = dirs[e] /\ loaded(e).cs = cs
  <2> SUFFICES ASSUME NEW e \in S
               PROVE  Framed(loaded(e)) /\ loaded(e).dir = dirs[e] /\ loaded(e).cs = cs
    OBVIOUS
  <2> HIDE DEF frame
  <2> QED BY <1>2 DEF Framed, Fields
<1>5. DOMAIN recs = S
  BY DEF recs
<1> HIDE DEF loaded
<1>6. \A e \in S : recs[e] \in DOMAIN fresh /\ fresh[recs[e]] = loaded(e)
  BY <1>3
<1>7. \A x \in DOMAIN fresh : \E e \in S : x = recs[e]
  OBVIOUS
<1> HIDE DEF fresh
<1>8. Buildable(recs, fresh, o, cs)
  BY <1>2, <1>3, <1>4, <1>5, <1>6, <1>7 DEF Buildable
<1> HIDE DEF owned
<1> QED BY <1>1, <1>8, ConstructKeeps

LEMMA FilterKeeps ==
    ASSUME IInv, NEW n \in DOMAIN datasets,
           NEW keep \in SUBSET DOMAIN datasets[n].records, Filter(n, keep)
    PROVE  IInv'
<1> DEFINE ds == datasets[n]
           recs == [e \in keep |-> ds.records[e]]
<1>1. Construct(recs, <<>>, ds.orientation, ds.cs, ds.owned)
  BY DEF Filter
<1>2. Listed(ds) /\ \A e \in keep : SameFrame(ds.records[e], ds)
  BY DEF IInv, DatasetsInv, DatasetCoherent
<1>3. \A e \in keep : /\ recs[e] \in DOMAIN heap
                      /\ recs[e][2] = e
                      /\ heap[recs[e]].cs = ds.cs
                      /\ DirectionIn(ds.orientation, e) \in {None, heap[recs[e]].dir}
  BY <1>2 DEF Listed, SameFrame
<1>4. DOMAIN recs = keep /\ keep \subseteq Sources /\ ds.cs \in CoordinateSystem
  BY <1>2 DEF Listed
<1>5. DOMAIN <<>> = {}
  OBVIOUS
<1> HIDE DEF recs, ds
<1>6. Buildable(recs, <<>>, ds.orientation, ds.cs)
  BY <1>3, <1>4, <1>5 DEF Buildable
<1> QED BY <1>1, <1>6, ConstructKeeps

LEMMA MapKeeps ==
    ASSUME IInv, NEW n \in DOMAIN datasets,
           NEW changed \in SUBSET DOMAIN datasets[n].records, Map(n, changed)
    PROVE  IInv'
<1> DEFINE ds == datasets[n]
           S == DOMAIN ds.records
           recs == [e \in S |-> IF e \in changed THEN NewId(e) ELSE ds.records[e]]
           fresh == [x \in {NewId(e) : e \in changed} |-> Unlinked(heap[ds.records[x[2]]])]
<1>1. Construct(recs, fresh, ds.orientation, ds.cs, ds.owned)
  BY DEF Map
<1>2. Listed(ds) /\ \A e \in S : SameFrame(ds.records[e], ds)
  BY DEF IInv, DatasetsInv, DatasetCoherent
<1>3. \A e \in S : /\ e \in Sources
                   /\ ds.records[e] \in DOMAIN heap
                   /\ ds.records[e][2] = e
                   /\ Framed(heap[ds.records[e]])
                   /\ heap[ds.records[e]].cs = ds.cs
                   /\ DirectionIn(ds.orientation, e) \in {None, heap[ds.records[e]].dir}
  BY <1>2 DEF IInv, HeapInv, Listed, SameFrame
<1>4. ds.cs \in CoordinateSystem
  BY <1>2 DEF Listed
<1> HIDE DEF ds
<1>5. \A e \in S : /\ NewId(e) \notin DOMAIN heap
                   /\ NewId(e) \in (Nat \ {0}) \X Sources
                   /\ NewId(e)[1] = Len(datasets) + 1
                   /\ NewId(e)[2] = e
  BY <1>3, NewIdFresh
<1>6. DOMAIN recs = S
  OBVIOUS
<1>7. \A e \in S : recs[e] = IF e \in changed THEN NewId(e) ELSE ds.records[e]
  OBVIOUS
<1>8. \A e \in changed : /\ NewId(e) \in DOMAIN fresh
                         /\ fresh[NewId(e)] = Unlinked(heap[ds.records[e]])
  BY <1>5 DEF ds
<1>9. \A x \in DOMAIN fresh : \E e \in changed : x = NewId(e)
  OBVIOUS
<1>10. \A e \in S : /\ Framed(Unlinked(heap[ds.records[e]]))
                    /\ Unlinked(heap[ds.records[e]]).dir = heap[ds.records[e]].dir
                    /\ Unlinked(heap[ds.records[e]]).cs = ds.cs
  BY <1>3, UnlinkedFrame
<1>11. changed \subseteq S
  BY DEF ds
<1> HIDE DEF recs, fresh, S
<1>12. Buildable(recs, fresh, ds.orientation, ds.cs)
  <2>1. \A x \in DOMAIN fresh : Framed(fresh[x]) /\ x \notin DOMAIN heap
                                /\ x \in (Nat \ {0}) \X Sources /\ x[1] = Len(datasets) + 1
    BY <1>5, <1>8, <1>9, <1>10, <1>11
  <2>2. \A e \in S : recs[e] \in DOMAIN heap \cup DOMAIN fresh /\ recs[e][2] = e
    BY <1>3, <1>5, <1>7, <1>8
  <2>3. ASSUME NEW e \in S
        PROVE  LET r == IF recs[e] \in DOMAIN fresh THEN fresh[recs[e]] ELSE heap[recs[e]]
               IN  r.cs = ds.cs /\ DirectionIn(ds.orientation, e) \in {None, r.dir}
    <3>1. CASE e \in changed
      BY <3>1, <1>3, <1>7, <1>8, <1>10
    <3>2. CASE e \notin changed
      <4>1. recs[e] = ds.records[e] /\ recs[e] \notin DOMAIN fresh
        BY <3>2, <1>3, <1>7, <2>1
      <4> QED BY <4>1, <1>3
    <3> QED BY <3>1, <3>2
  <2> QED BY <1>3, <1>4, <1>6, <2>1, <2>2, <2>3 DEF Buildable
<1> QED BY <1>1, <1>12, ConstructKeeps

\* Whatever becomes of a transform, the record it makes of one that does not
\* raise is expressed in the target, and one that is handed on keeps its frame.
LEMMA TransformedRight ==
    ASSUME IInv, NEW n \in DOMAIN datasets, NEW o, NEW cs \in CoordinateSystem,
           NEW e \in DOMAIN datasets[n].records
    PROVE  LET ds == datasets[n]
               r == heap[ds.records[e]]
               t == Transformed(e, r, ds, o, cs)
           IN  /\ e \in Sources /\ ds.records[e] \in DOMAIN heap /\ ds.records[e][2] = e
               /\ Framed(t) /\ t.cs = cs
               /\ ~Raises(e, r, ds, o) => DirectionIn(o, e) \in {None, t.dir}
               /\ ~Rebuilt(e, ds, o, cs) => t.dir = r.dir /\ t.cs = r.cs
<1> DEFINE ds == datasets[n]
           r == heap[ds.records[e]]
           t == Transformed(e, r, ds, o, cs)
<1>1. Listed(ds) /\ SameFrame(ds.records[e], ds)
  BY DEF IInv, DatasetsInv, DatasetCoherent
<1>2. e \in Sources /\ ds.records[e] \in DOMAIN heap /\ ds.records[e][2] = e
  BY <1>1 DEF Listed
<1>3. /\ Framed(r) /\ r.cs = ds.cs /\ ds.cs \in CoordinateSystem
      /\ DirectionIn(ds.orientation, e) \in {None, r.dir}
  BY <1>1, <1>2 DEF IInv, HeapInv, Listed, SameFrame
<1> HIDE DEF ds, r
<1>4. /\ Framed(t) /\ t.cs = cs
      /\ t.dir = FlipDir(r.dir, RecordFlips(e, ds, o))
      /\ ~Rebuilt(e, ds, o, cs) => t.dir = r.dir /\ t.cs = r.cs
  BY <1>3, TransformedFrame
<1>5. ~Raises(e, r, ds, o) => DirectionIn(o, e) \in {None, t.dir}
  <2> SUFFICES ASSUME ~Raises(e, r, ds, o) PROVE DirectionIn(o, e) \in {None, t.dir}
    OBVIOUS
  <2>1. ~FlipRaises(ds.orientation, o, PeriodOf[e], OwnerOf[e], TeamOf[e])
    BY DEF Raises
  <2>2. r.dir \in Directions
    BY <1>3 DEF Framed
  <2> QED BY <1>3, <1>4, <2>1, <2>2, FlipRight DEF RecordFlips
<1> QED BY <1>2, <1>4, <1>5 DEF ds, r

LEMMA TransformKeeps ==
    ASSUME IInv, NEW n \in DOMAIN datasets, NEW o, NEW cs \in CoordinateSystem,
           Transform(n, o, cs)
    PROVE  IInv'
<1> DEFINE ds == datasets[n]
           S == DOMAIN ds.records
           old(e) == heap[ds.records[e]]
           rebuilt == {e \in S : Rebuilt(e, ds, o, cs)}
           recs == [e \in S |-> IF e \in rebuilt THEN NewId(e) ELSE ds.records[e]]
           fresh == [x \in {recs[e] : e \in S} |-> Transformed(x[2], old(x[2]), ds, o, cs)]
           t(e) == Transformed(e, old(e), ds, o, cs)
<1>1. Construct(recs, fresh, o, cs, ds.owned)
  BY DEF Transform
<1>2. \A e \in S : ~Raises(e, old(e), ds, o)
  BY DEF Transform
<1>3. \A e \in S : /\ e \in Sources /\ ds.records[e] \in DOMAIN heap /\ ds.records[e][2] = e
                   /\ Framed(t(e)) /\ t(e).cs = cs
                   /\ DirectionIn(o, e) \in {None, t(e).dir}
                   /\ e \notin rebuilt => t(e).dir = old(e).dir /\ t(e).cs = old(e).cs
  BY <1>2, TransformedRight
<1>4. \A e \in S : recs[e] = IF e \in rebuilt THEN NewId(e) ELSE ds.records[e]
  OBVIOUS
<1>5. \A e \in S : /\ NewId(e) \notin DOMAIN heap
                   /\ NewId(e) \in (Nat \ {0}) \X Sources
                   /\ NewId(e)[1] = Len(datasets) + 1
                   /\ NewId(e)[2] = e
  BY <1>3, NewIdFresh
<1>6. DOMAIN recs = S
  OBVIOUS
<1> HIDE DEF recs
<1>7. \A e \in S : recs[e][2] = e
  BY <1>3, <1>4, <1>5
<1>8. \A e \in S : recs[e] \in DOMAIN fresh /\ fresh[recs[e]] = t(e)
  BY <1>7
<1>9. \A x \in DOMAIN fresh : \E e \in S : x = recs[e]
  OBVIOUS
<1> HIDE DEF fresh, t
<1>10. ASSUME NEW x \in DOMAIN fresh
       PROVE  /\ Framed(fresh[x])
              /\ x \in DOMAIN heap => fresh[x].dir = heap[x].dir /\ fresh[x].cs = heap[x].cs
              /\ x \notin DOMAIN heap => /\ x \in (Nat \ {0}) \X Sources
                                         /\ x[1] = Len(datasets) + 1
  <2>1. PICK e \in S : x = recs[e]
    BY <1>9
  <2>2. Framed(fresh[x]) /\ fresh[x] = t(e)
    BY <2>1, <1>3, <1>8
  <2>3. CASE e \in rebuilt
    BY <2>1, <2>2, <2>3, <1>4, <1>5
  <2>4. CASE e \notin rebuilt
    BY <2>1, <2>2, <2>4, <1>3, <1>4
  <2> QED BY <2>3, <2>4
<1>11. \A e \in S : /\ recs[e] \in DOMAIN fresh
                    /\ fresh[recs[e]].cs = cs
                    /\ DirectionIn(o, e) \in {None, fresh[recs[e]].dir}
  BY <1>3, <1>8
<1>12. S \subseteq Sources
  BY <1>3
<1> HIDE DEF S, ds
<1>13. Buildable(recs, fresh, o, cs)
  BY <1>6, <1>7, <1>10, <1>11, <1>12 DEF Buildable
<1> QED BY <1>1, <1>13, ConstructKeeps

LEMMA TransformFailsKeeps ==
    ASSUME IInv, NEW n \in DOMAIN datasets, NEW o, NEW cs \in CoordinateSystem,
           TransformFails(n, o, cs)
    PROVE  IInv'
<1> DEFINE ds == datasets[n]
           S == DOMAIN ds.records
           raising == {e \in S : Raises(e, heap[ds.records[e]], ds, o)}
           touched == {e \in S : ~Rebuilt(e, ds, o, cs) /\ \A f \in raising : e < f}
           t(x) == Transformed(x[2], heap[x], ds, o, cs)
<1>1. /\ heap' = [x \in DOMAIN heap |->
                     IF \E e \in touched : x = ds.records[e] THEN t(x) ELSE heap[x]]
      /\ datasets' = datasets
  BY DEF TransformFails
<1>2. DOMAIN heap' = DOMAIN heap
  BY <1>1
<1>3. ASSUME NEW x \in DOMAIN heap
      PROVE  /\ Framed(heap'[x])
             /\ heap'[x].dir = heap[x].dir
             /\ heap'[x].cs = heap[x].cs
  <2>1. CASE \E e \in touched : x = ds.records[e]
    <3>1. PICK e \in touched : x = ds.records[e]
      BY <2>1
    <3>2. e \in S /\ ~Rebuilt(e, ds, o, cs)
      OBVIOUS
    <3>3. x[2] = e /\ Framed(t(x)) /\ t(x).dir = heap[x].dir /\ t(x).cs = heap[x].cs
      BY <3>1, <3>2, TransformedRight
    <3>4. heap'[x] = t(x)
      BY <1>1, <2>1
    <3> QED BY <3>3, <3>4
  <2>2. CASE ~\E e \in touched : x = ds.records[e]
    <3>1. heap'[x] = heap[x]
      BY <1>1, <2>2
    <3> QED BY <3>1 DEF IInv, HeapInv
  <2> QED BY <2>1, <2>2
<1>4. heap' = [x \in DOMAIN heap' |-> heap'[x]]
  BY <1>1
<1> HIDE DEF ds, t, touched
<1>5. HeapInv'
  BY <1>1, <1>2, <1>3, <1>4 DEF IInv, HeapInv, Framed
<1>6. DatasetsInv'
  BY <1>1, <1>2 DEF IInv, DatasetsInv, Listed
<1>7. DatasetCoherent'
  BY <1>1, <1>3 DEF IInv, DatasetsInv, Listed, DatasetCoherent, SameFrame, DirectionIn
<1> QED BY <1>5, <1>6, <1>7 DEF IInv

LEMMA TransformCallKeeps ==
    ASSUME IInv, NEW n \in DOMAIN datasets, TransformCall(n)
    PROVE  IInv'
<1>1. datasets[n].cs \in CoordinateSystem
  BY DEF IInv, DatasetsInv, Listed
<1>2. PICK toO \in Orientations \cup {None}, toDims \in Dims \cup {None},
           toCs \in CoordinateSystem \cup {None} :
          LET o == IF toO = None THEN datasets[n].orientation ELSE toO
              cs == TargetCs(datasets[n].cs, toDims, toCs)
          IN  Transform(n, o, cs) \/ TransformFails(n, o, cs)
  BY DEF TransformCall
<1>3. TargetCs(datasets[n].cs, toDims, toCs) \in CoordinateSystem
  BY <1>1 DEF TargetCs, CoordinateSystem
<1> QED BY <1>2, <1>3, TransformKeeps, TransformFailsKeeps

----------------------------------------------------------------------------

LEMMA NextKeeps == IInv /\ [Next]_vars => IInv'
<1> SUFFICES ASSUME IInv, [Next]_vars PROVE IInv'
  OBVIOUS
<1>1. ASSUME NEW S \in Feeds, NEW o \in Orientations, NEW cs \in CoordinateSystem,
             NEW dirs \in FeedDirections(S, o), Load(S, o, cs, dirs)
      PROVE  IInv'
  BY <1>1, DatasetAssumption, LoadKeeps DEF DatasetAssumption
<1>2. ASSUME NEW n \in DOMAIN datasets, NEW keep \in SUBSET DOMAIN datasets[n].records,
             Filter(n, keep)
      PROVE  IInv'
  BY <1>2, FilterKeeps
<1>3. ASSUME NEW n \in DOMAIN datasets, NEW changed \in SUBSET DOMAIN datasets[n].records,
             Map(n, changed)
      PROVE  IInv'
  BY <1>3, MapKeeps
<1>4. ASSUME NEW n \in DOMAIN datasets, TransformCall(n)
      PROVE  IInv'
  BY <1>4, TransformCallKeeps
<1>5. CASE UNCHANGED vars
  BY <1>5 DEF vars, IInv, HeapInv, DatasetsInv, Listed, Framed, DatasetCoherent, SameFrame,
              DirectionIn
<1> QED BY <1>1, <1>2, <1>3, <1>4, <1>5 DEF Next

LEMMA Invariant == Spec => []IInv
<1>1. IInv /\ [Next]_vars => IInv'
  BY NextKeeps
<1> QED BY InitIInv, <1>1, PTL DEF Spec

\* Every record of every dataset, shared objects included, is expressed in the
\* coordinate system and orientation of that dataset, for every feed, every
\* set of orientations and coordinate systems, and sessions of any length.
THEOREM Coherent == Spec => []DatasetCoherent
<1>1. IInv => DatasetCoherent
  BY DEF IInv
<1> QED BY <1>1, Invariant, PTL

----------------------------------------------------------------------------
\* Shared objects

\* The freeze frame of the record r made from source e is missing or a view,
\* in the frame of reference of r when e is of the team in possession.
Viewed(e, r) ==
    \/ r.freeze_frame = None
    \/ /\ r.freeze_frame \in View
       /\ TeamOf[e] = OwnerOf[e] => r.freeze_frame = [dir |-> r.dir, cs |-> r.cs]

Settled == \A x \in DOMAIN heap : heap[x].dataset # 0 /\ Viewed(x[2], heap[x])

\* What may become of the object x: nothing, but for the freeze frame of an
\* event by a team that is not in possession.
Kept(x, r, s) ==
    \/ s = r
    \/ TeamOf[x[2]] # OwnerOf[x[2]] /\ s = [r EXCEPT !.freeze_frame = s.freeze_frame]

AllKept == \A x \in DOMAIN heap : x \in DOMAIN heap' /\ Kept(x, heap[x], heap'[x])

\* The datasets stay, and one may follow them.
Grown ==
    /\ \A n \in DOMAIN datasets : n \in DOMAIN datasets' /\ datasets'[n] = datasets[n]
    /\ \A n \in DOMAIN datasets' : n \notin DOMAIN datasets => n = Len(datasets) + 1

\* A new object lies in the dataset that follows and has its references there.
NewLinked ==
    LET n == Len(datasets) + 1
        recs == datasets'[n].records
    IN  \A x \in DOMAIN heap' : x \notin DOMAIN heap =>
            /\ n \in DOMAIN datasets'
            /\ x[2] \in DOMAIN recs /\ recs[x[2]] = x
            /\ heap'[x].dataset = n
            /\ heap'[x].prev_record = PrevIn(recs, x[2])
            /\ heap'[x].next_record = NextIn(recs, x[2])

\* What every step does to the session.
Extended == AllKept /\ Grown /\ NewLinked

----------------------------------------------------------------------------
\* Records

\* A record without references gets those of its place in the list, and keeps
\* its freeze frame; one with references keeps all it has.
LEMMA SetRefsKeeps ==
    ASSUME NEW r, Framed(r), NEW n \in Nat \ {0}, NEW recs, NEW e
    PROVE  /\ SetRefs(r, n, recs, e).dataset # 0
           /\ SetRefs(r, n, recs, e).freeze_frame = r.freeze_frame
           /\ r.dataset # 0 => SetRefs(r, n, recs, e) = r
           /\ r.dataset = 0 => /\ SetRefs(r, n, recs, e).dataset = n
                               /\ SetRefs(r, n, recs, e).prev_record = PrevIn(recs, e)
                               /\ SetRefs(r, n, recs, e).next_record = NextIn(recs, e)
<1> DEFINE p == PrevIn(recs, e)
           q == NextIn(recs, e)
           s == [r EXCEPT !.dataset = n, !.prev_record = p, !.next_record = q]
<1> HIDE DEF p, q
<1>1. /\ s.dataset = n /\ s.freeze_frame = r.freeze_frame
      /\ s.prev_record = p /\ s.next_record = q
  BY DEF Framed, Fields
<1>2. SetRefs(r, n, recs, e) = IF r.dataset # 0 THEN r ELSE s
  BY DEF SetRefs, p, q
<1> HIDE DEF s
<1> QED BY <1>1, <1>2 DEF p, q

\* The freeze frame of a copy is that of the original.
LEMMA UnlinkedViewed ==
    ASSUME NEW e, NEW r, Framed(r), Viewed(e, r)
    PROVE  Viewed(e, Unlinked(r)) /\ Unlinked(r).dataset = 0
<1>1. /\ Unlinked(r).freeze_frame = r.freeze_frame /\ Unlinked(r).dataset = 0
      /\ Unlinked(r).dir = r.dir /\ Unlinked(r).cs = r.cs
  BY DEF Unlinked, Framed, Fields
<1> QED BY <1>1 DEF Viewed

\* An event of the team in possession and its freeze frame are flipped together,
\* so the transformed freeze frame is a view again, the event's own.
LEMMA TransformedViewed ==
    ASSUME NEW e, NEW r, Framed(r), Viewed(e, r), NEW ds, NEW o, NEW cs \in CoordinateSystem,
           r.cs = ds.cs
    PROVE  /\ Viewed(e, Transformed(e, r, ds, o, cs))
           /\ Rebuilt(e, ds, o, cs) => Transformed(e, r, ds, o, cs).dataset = 0
<1> DEFINE d == FlipDir(r.dir, RecordFlips(e, ds, o))
           c == ConvertCs(r.cs, ds.cs, cs)
           v == TransformFreezeFrame(r.freeze_frame, e, ds, o, cs)
           moved == [r EXCEPT !.dir = d, !.cs = c, !.freeze_frame = v]
           byOwner == NeedsFlip(ds.orientation, o, PeriodOf[e], OwnerOf[e], None)
<1>1. RecordFlips(e, ds, o) \in BOOLEAN /\ byOwner \in BOOLEAN
  BY DEF RecordFlips, NeedsFlip
<1>2. TeamOf[e] = OwnerOf[e] => byOwner = RecordFlips(e, ds, o)
  BY DEF RecordFlips, NeedsFlip, ExecutingTeam
<1>3. v = IF r.freeze_frame = None THEN None
          ELSE [dir |-> FlipDir(r.freeze_frame.dir, byOwner),
                cs |-> ConvertCs(r.freeze_frame.cs, ds.cs, cs)]
  BY DEF TransformFreezeFrame
<1> HIDE DEF byOwner, v
<1>4. v = None \/ v \in View
  <2> SUFFICES ASSUME r.freeze_frame # None PROVE v \in View
    BY <1>3
  <2>1. r.freeze_frame \in View
    BY DEF Viewed
  <2>2. r.freeze_frame.dir \in Directions /\ r.freeze_frame.cs \in CoordinateSystem \cup {Garbled}
    BY <2>1 DEF View
  <2>3. FlipDir(r.freeze_frame.dir, byOwner) \in Directions
    BY <1>1, <2>2, FlipTyped
  <2>4. ConvertCs(r.freeze_frame.cs, ds.cs, cs) \in CoordinateSystem \cup {Garbled}
    BY <2>2 DEF ConvertCs
  <2> QED BY <1>3, <2>3, <2>4 DEF View
<1>5. TeamOf[e] = OwnerOf[e] => v = None \/ v = [dir |-> d, cs |-> c]
  <2> SUFFICES ASSUME TeamOf[e] = OwnerOf[e], r.freeze_frame # None
               PROVE  v = [dir |-> d, cs |-> c]
    BY <1>3
  <2>1. r.freeze_frame = [dir |-> r.dir, cs |-> r.cs]
    BY DEF Viewed
  <2>2. r.freeze_frame.dir = r.dir /\ r.freeze_frame.cs = r.cs
    BY <2>1
  <2> QED BY <1>2, <1>3, <2>2
<1> HIDE DEF d, c
<1>6. /\ moved.freeze_frame = v /\ moved.dir = d /\ moved.cs = c
      /\ Unlinked(moved).freeze_frame = v /\ Unlinked(moved).dir = d /\ Unlinked(moved).cs = c
      /\ Unlinked(moved).dataset = 0
  BY DEF Framed, Fields, Unlinked
<1>7. Transformed(e, r, ds, o, cs) = IF Rebuilt(e, ds, o, cs) THEN Unlinked(moved) ELSE moved
  BY DEF Transformed, d, c, v
<1> HIDE DEF moved
<1> QED BY <1>4, <1>5, <1>6, <1>7 DEF Viewed

\* A record that is handed on is kept.
LEMMA HandedOn ==
    ASSUME NEW x, NEW r, Framed(r), Viewed(x[2], r), NEW ds, NEW o, NEW cs,
           r.cs = ds.cs, ~Rebuilt(x[2], ds, o, cs)
    PROVE  /\ Kept(x, r, Transformed(x[2], r, ds, o, cs))
           /\ Transformed(x[2], r, ds, o, cs).dataset = r.dataset
<1> DEFINE e == x[2]
           v == TransformFreezeFrame(r.freeze_frame, e, ds, o, cs)
           s == [r EXCEPT !.freeze_frame = v]
<1>1. ~RecordFlips(e, ds, o) /\ ds.cs = cs
  BY DEF Rebuilt
<1>2. TeamOf[e] = OwnerOf[e] => v = r.freeze_frame
  <2>1. TeamOf[e] = OwnerOf[e] =>
            ~NeedsFlip(ds.orientation, o, PeriodOf[e], OwnerOf[e], None)
    BY <1>1 DEF RecordFlips, NeedsFlip, ExecutingTeam
  <2> QED BY <1>1, <2>1 DEF TransformFreezeFrame, FlipDir, ConvertCs, Viewed, View
<1> HIDE DEF v
<1>3. Transformed(e, r, ds, o, cs) = s
  <2>1. FlipDir(r.dir, RecordFlips(e, ds, o)) = r.dir /\ ConvertCs(r.cs, ds.cs, cs) = r.cs
    BY <1>1 DEF FlipDir, ConvertCs
  <2>2. [r EXCEPT !.dir = r.dir, !.cs = r.cs, !.freeze_frame = v] = s
    BY DEF Framed, Fields
  <2> QED BY <2>1, <2>2 DEF Transformed, v
<1>4. s.freeze_frame = v /\ s.dataset = r.dataset /\ (v = r.freeze_frame => s = r)
  BY DEF Framed, Fields
<1> HIDE DEF s
<1>5. s = [r EXCEPT !.freeze_frame = s.freeze_frame]
  BY <1>4 DEF s
<1> QED BY <1>2, <1>3, <1>4, <1>5 DEF Kept

----------------------------------------------------------------------------
\* Building a dataset

LEMMA ConstructShares ==
    ASSUME IInv, Settled, NEW recs, NEW fresh, NEW o, NEW cs, NEW owned,
           Construct(recs, fresh, o, cs, owned),
           \A e \in DOMAIN recs : recs[e][2] = e,
           \A x \in DOMAIN fresh : /\ \E e \in DOMAIN recs : x = recs[e]
                                   /\ Framed(fresh[x]) /\ Viewed(x[2], fresh[x])
                                   /\ x \in DOMAIN heap => /\ fresh[x].dataset # 0
                                                           /\ Kept(x, heap[x], fresh[x])
                                   /\ x \notin DOMAIN heap => fresh[x].dataset = 0
    PROVE  Settled' /\ Extended
<1> DEFINE n == Len(datasets) + 1
           dom == DOMAIN heap \cup DOMAIN fresh
           known == [x \in dom |-> IF x \in DOMAIN fresh THEN fresh[x] ELSE heap[x]]
           listed == {recs[e] : e \in DOMAIN recs}
           made == [records |-> recs, orientation |-> o, cs |-> cs, owned |-> owned]
<1>1. /\ heap' = [x \in DOMAIN known |->
                     IF x \in listed THEN SetRefs(known[x], n, recs, x[2]) ELSE known[x]]
      /\ datasets' = Append(datasets, made)
  BY DEF Construct
<1>2. n \in Nat \ {0}
  BY DEF IInv, DatasetsInv
<1>3. \A x \in dom : Framed(known[x]) /\ Viewed(x[2], known[x])
  BY DEF IInv, HeapInv, Settled
<1>4. \A x \in DOMAIN heap : known[x].dataset # 0 /\ Kept(x, heap[x], known[x])
  BY DEF Settled, Kept
<1>5. \A x \in dom : x \notin DOMAIN heap =>
          x[2] \in DOMAIN recs /\ recs[x[2]] = x /\ x \in listed /\ known[x].dataset = 0
  OBVIOUS
<1>6. DOMAIN heap' = dom
  BY <1>1
<1>7. Grown /\ n \in DOMAIN datasets' /\ datasets'[n].records = recs
  <2> DEFINE S == {datasets[k] : k \in DOMAIN datasets} \cup {made}
  <2>1. datasets \in Seq(S) /\ made \in S
    BY DEF IInv, DatasetsInv
  <2>2. made.records = recs
    OBVIOUS
  <2> HIDE DEF S, made
  <2> QED BY <1>1, <2>1, <2>2 DEF Grown
<1> HIDE DEF known, listed, made
<1>8. ASSUME NEW x \in dom
      PROVE  /\ heap'[x].dataset # 0
             /\ Viewed(x[2], heap'[x])
             /\ x \in DOMAIN heap => heap'[x] = known[x]
             /\ x \notin DOMAIN heap => /\ heap'[x].dataset = n
                                        /\ heap'[x].prev_record = PrevIn(recs, x[2])
                                        /\ heap'[x].next_record = NextIn(recs, x[2])
  <2> DEFINE s == SetRefs(known[x], n, recs, x[2])
  <2>1. Framed(known[x])
    BY <1>3
  <2> HIDE DEF n
  <2>2. /\ s.dataset # 0
        /\ s.freeze_frame = known[x].freeze_frame
        /\ known[x].dataset # 0 => s = known[x]
        /\ known[x].dataset = 0 => /\ s.dataset = n
                                   /\ s.prev_record = PrevIn(recs, x[2])
                                   /\ s.next_record = NextIn(recs, x[2])
    BY <1>2, <2>1, SetRefsKeeps
  <2>3. s.dir = known[x].dir /\ s.cs = known[x].cs
    BY <2>1, SetRefsFrame
  <2>4. heap'[x] = IF x \in listed THEN s ELSE known[x]
    BY <1>1 DEF known
  <2> HIDE DEF s
  <2>5. Viewed(x[2], heap'[x])
    BY <2>2, <2>3, <2>4, <1>3 DEF Viewed
  <2> QED BY <2>2, <2>4, <2>5, <1>4, <1>5
<1>9. Settled'
  BY <1>6, <1>8 DEF Settled, Viewed
<1>10. AllKept
  BY <1>4, <1>6, <1>8 DEF AllKept
<1>11. NewLinked
  BY <1>5, <1>6, <1>7, <1>8 DEF NewLinked
<1> QED BY <1>7, <1>9, <1>10, <1>11 DEF Extended

----------------------------------------------------------------------------
\* The actions

LEMMA LoadShares ==
    ASSUME IInv, Settled, NEW S \in SUBSET Sources, NEW o, NEW cs \in CoordinateSystem,
           NEW dirs \in FeedDirections(S, o), Load(S, o, cs, dirs)
    PROVE  Settled' /\ Extended
<1> DEFINE recs == [e \in S |-> NewId(e)]
           frame(e) == IF e \in HasFreezeFrame THEN [dir |-> dirs[e], cs |-> cs] ELSE None
           loaded(e) == [dir |-> dirs[e], cs |-> cs, freeze_frame |-> frame(e),
                         dataset |-> 0, prev_record |-> None, next_record |-> None]
           fresh == [x \in {recs[e] : e \in S} |-> loaded(x[2])]
           owned == \E e \in S : OwnerOf[e] # None
<1>1. Construct(recs, fresh, o, cs, owned)
  BY DEF Load
<1>2. \A e \in S : dirs[e] \in Directions
  BY DEF FeedDirections
<1>3. \A e \in S : \/ frame(e) = None
                   \/ frame(e) \in View /\ frame(e) = [dir |-> dirs[e], cs |-> cs]
  <2>1. \A e \in S : [dir |-> dirs[e], cs |-> cs] \in View
    BY <1>2 DEF View
  <2>2. \A e \in S : frame(e) = None \/ frame(e) = [dir |-> dirs[e], cs |-> cs]
    OBVIOUS
  <2> HIDE DEF frame
  <2> QED BY <2>1, <2>2
<1>4. \A e \in S : recs[e] \notin DOMAIN heap /\ recs[e][2] = e
  BY NewIdFresh
<1> HIDE DEF recs, frame
<1>5. \A e \in S : Framed(loaded(e)) /\ Viewed(e, loaded(e)) /\ loaded(e).dataset = 0
  BY <1>2, <1>3 DEF Framed, Fields, Viewed
<1>6. DOMAIN recs = S
  BY DEF recs
<1> HIDE DEF loaded
<1>7. \A e \in S : recs[e] \in DOMAIN fresh /\ fresh[recs[e]] = loaded(e)
  BY <1>4
<1>8. \A x \in DOMAIN fresh : \E e \in S : x = recs[e]
  OBVIOUS
<1> HIDE DEF fresh, owned
<1>9. \A x \in DOMAIN fresh : /\ \E e \in DOMAIN recs : x = recs[e]
                              /\ Framed(fresh[x]) /\ Viewed(x[2], fresh[x])
                              /\ x \notin DOMAIN heap /\ fresh[x].dataset = 0
  BY <1>4, <1>5, <1>6, <1>7, <1>8
<1>10. \A e \in DOMAIN recs : recs[e][2] = e
  BY <1>4, <1>6
<1> QED BY <1>1, <1>9, <1>10, ConstructShares

LEMMA FilterShares ==
    ASSUME IInv, Settled, NEW n \in DOMAIN datasets,
           NEW keep \in SUBSET DOMAIN datasets[n].records, Filter(n, keep)
    PROVE  Settled' /\ Extended
<1> DEFINE ds == datasets[n]
           recs == [e \in keep |-> ds.records[e]]
<1>1. Construct(recs, <<>>, ds.orientation, ds.cs, ds.owned)
  BY DEF Filter
<1>2. DOMAIN <<>> = {}
  OBVIOUS
<1>3. \A e \in DOMAIN recs : recs[e][2] = e
  BY DEF IInv, DatasetsInv, Listed
<1> HIDE DEF recs, ds
<1> QED BY <1>1, <1>2, <1>3, ConstructShares

LEMMA MapShares ==
    ASSUME IInv, Settled, NEW n \in DOMAIN datasets,
           NEW changed \in SUBSET DOMAIN datasets[n].records, Map(n, changed)
    PROVE  Settled' /\ Extended
<1> DEFINE ds == datasets[n]
           S == DOMAIN ds.records
           recs == [e \in S |-> IF e \in changed THEN NewId(e) ELSE ds.records[e]]
           fresh == [x \in {NewId(e) : e \in changed} |-> Unlinked(heap[ds.records[x[2]]])]
<1>1. Construct(recs, fresh, ds.orientation, ds.cs, ds.owned)
  BY DEF Map
<1>2. \A e \in S : /\ e \in Sources /\ ds.records[e][2] = e
                   /\ Framed(heap[ds.records[e]]) /\ Viewed(e, heap[ds.records[e]])
  BY DEF IInv, HeapInv, DatasetsInv, Listed, Settled
<1>3. \A e \in changed : /\ e \in S
                         /\ recs[e] = NewId(e)
                         /\ NewId(e) \notin DOMAIN heap /\ NewId(e)[2] = e
  BY <1>2, NewIdFresh
<1>4. \A e \in changed : fresh[NewId(e)] = Unlinked(heap[ds.records[e]])
  BY <1>3
<1>5. \A x \in DOMAIN fresh : \E e \in changed : x = NewId(e)
  OBVIOUS
<1>6. DOMAIN recs = S /\ \A e \in S : recs[e][2] = e
  BY <1>2, <1>3
<1> HIDE DEF ds, recs, fresh
<1>7. ASSUME NEW e \in changed
      PROVE  /\ Framed(Unlinked(heap[ds.records[e]]))
             /\ Viewed(e, Unlinked(heap[ds.records[e]]))
             /\ Unlinked(heap[ds.records[e]]).dataset = 0
  BY <1>2, <1>3, UnlinkedFrame, UnlinkedViewed
<1>8. \A x \in DOMAIN fresh : /\ \E e \in DOMAIN recs : x = recs[e]
                              /\ Framed(fresh[x]) /\ Viewed(x[2], fresh[x])
                              /\ x \notin DOMAIN heap /\ fresh[x].dataset = 0
  BY <1>3, <1>4, <1>5, <1>6, <1>7
<1> QED BY <1>1, <1>6, <1>8, ConstructShares

LEMMA TransformShares ==
    ASSUME IInv, Settled, NEW n \in DOMAIN datasets, NEW o, NEW cs \in CoordinateSystem,
           Transform(n, o, cs)
    PROVE  Settled' /\ Extended
<1> DEFINE ds == datasets[n]
           S == DOMAIN ds.records
           old(e) == heap[ds.records[e]]
           rebuilt == {e \in S : Rebuilt(e, ds, o, cs)}
           recs == [e \in S |-> IF e \in rebuilt THEN NewId(e) ELSE ds.records[e]]
           fresh == [x \in {recs[e] : e \in S} |-> Transformed(x[2], old(x[2]), ds, o, cs)]
           t(e) == Transformed(e, old(e), ds, o, cs)
<1>1. Construct(recs, fresh, o, cs, ds.owned)
  BY DEF Transform
<1>2. \A e \in S : /\ e \in Sources
                   /\ ds.records[e] \in DOMAIN heap /\ ds.records[e][2] = e
                   /\ Framed(old(e)) /\ Viewed(e, old(e))
                   /\ old(e).dataset # 0 /\ old(e).cs = ds.cs
  BY DEF IInv, HeapInv, DatasetsInv, Listed, DatasetCoherent, SameFrame, Settled
<1>3. \A e \in S : Framed(t(e))
  BY TransformedRight
<1>4. \A e \in S : Viewed(e, t(e)) /\ (e \in rebuilt => t(e).dataset = 0)
  BY <1>2, TransformedViewed
<1>5. \A e \in S \ rebuilt : Kept(ds.records[e], old(e), t(e)) /\ t(e).dataset = old(e).dataset
  <2> SUFFICES ASSUME NEW e \in S, e \notin rebuilt
               PROVE  Kept(ds.records[e], old(e), t(e)) /\ t(e).dataset = old(e).dataset
    OBVIOUS
  <2> DEFINE x == ds.records[e]
             r == heap[x]
  <2>1. x[2] = e /\ ~Rebuilt(x[2], ds, o, cs) /\ Framed(r) /\ Viewed(x[2], r) /\ r.cs = ds.cs
    BY <1>2
  <2> HIDE DEF ds, rebuilt, x, r
  <2>2. /\ Kept(x, r, Transformed(x[2], r, ds, o, cs))
        /\ Transformed(x[2], r, ds, o, cs).dataset = r.dataset
    BY <2>1, HandedOn
  <2>3. Transformed(x[2], r, ds, o, cs) = t(e) /\ r = old(e)
    BY <2>1 DEF x, r
  <2> HIDE DEF t, old
  <2> QED BY <2>2, <2>3 DEF x
<1>6. \A e \in S : recs[e] = IF e \in rebuilt THEN NewId(e) ELSE ds.records[e]
  OBVIOUS
<1>7. \A e \in S : NewId(e) \notin DOMAIN heap /\ NewId(e)[2] = e
  BY <1>2, NewIdFresh
<1>8. DOMAIN recs = S /\ \A e \in S : recs[e][2] = e
  BY <1>2, <1>7
<1> HIDE DEF recs
<1>9. \A e \in S : fresh[recs[e]] = t(e)
  BY <1>2, <1>6, <1>7
<1>10. \A x \in DOMAIN fresh : \E e \in S : x = recs[e]
  OBVIOUS
<1> HIDE DEF fresh, t
<1>11. ASSUME NEW x \in DOMAIN fresh
       PROVE  /\ \E e \in DOMAIN recs : x = recs[e]
              /\ Framed(fresh[x]) /\ Viewed(x[2], fresh[x])
              /\ x \in DOMAIN heap => /\ fresh[x].dataset # 0
                                      /\ Kept(x, heap[x], fresh[x])
              /\ x \notin DOMAIN heap => fresh[x].dataset = 0
  <2>1. PICK e \in S : x = recs[e]
    BY <1>10
  <2>2. fresh[x] = t(e) /\ Framed(fresh[x]) /\ Viewed(x[2], fresh[x])
    BY <2>1, <1>3, <1>4, <1>8, <1>9
  <2>3. CASE e \in rebuilt
    BY <2>1, <2>2, <2>3, <1>4, <1>6, <1>7, <1>8
  <2>4. CASE e \notin rebuilt
    BY <2>1, <2>2, <2>4, <1>2, <1>5, <1>6, <1>8
  <2> QED BY <2>3, <2>4
<1> HIDE DEF ds, S
<1> QED BY <1>1, <1>8, <1>11, ConstructShares

LEMMA TransformFailsShares ==
    ASSUME IInv, Settled, NEW n \in DOMAIN datasets, NEW o, NEW cs \in CoordinateSystem,
           TransformFails(n, o, cs)
    PROVE  Settled' /\ Extended
<1> DEFINE ds == datasets[n]
           S == DOMAIN ds.records
           raising == {e \in S : Raises(e, heap[ds.records[e]], ds, o)}
           touched == {e \in S : ~Rebuilt(e, ds, o, cs) /\ \A f \in raising : e < f}
           t(x) == Transformed(x[2], heap[x], ds, o, cs)
<1>1. /\ heap' = [x \in DOMAIN heap |->
                     IF \E e \in touched : x = ds.records[e] THEN t(x) ELSE heap[x]]
      /\ datasets' = datasets
  BY DEF TransformFails
<1>2. DOMAIN heap' = DOMAIN heap
  BY <1>1
<1>3. \A x \in DOMAIN heap : Framed(heap[x]) /\ Viewed(x[2], heap[x]) /\ heap[x].dataset # 0
  BY DEF IInv, HeapInv, Settled
<1>4. \A e \in S : /\ ds.records[e] \in DOMAIN heap /\ ds.records[e][2] = e
                   /\ heap[ds.records[e]].cs = ds.cs
  BY DEF IInv, DatasetsInv, Listed, DatasetCoherent, SameFrame
<1>5. ASSUME NEW x \in DOMAIN heap
      PROVE  heap'[x].dataset # 0 /\ Viewed(x[2], heap'[x]) /\ Kept(x, heap[x], heap'[x])
  <2>1. CASE \E e \in touched : x = ds.records[e]
    <3>1. PICK e \in touched : x = ds.records[e]
      BY <2>1
    <3>2. x[2] = e /\ heap[x].cs = ds.cs /\ ~Rebuilt(e, ds, o, cs)
      BY <3>1, <1>4
    <3>3. heap'[x] = t(x)
      BY <1>1, <2>1
    <3> HIDE DEF ds, touched
    <3>4. Kept(x, heap[x], t(x)) /\ t(x).dataset = heap[x].dataset
      BY <3>2, <1>3, HandedOn
    <3>5. Viewed(x[2], t(x))
      BY <3>2, <1>3, TransformedViewed
    <3> QED BY <3>3, <3>4, <3>5, <1>3
  <2>2. CASE ~\E e \in touched : x = ds.records[e]
    <3>1. heap'[x] = heap[x]
      BY <1>1, <2>2
    <3> QED BY <3>1, <1>3 DEF Kept
  <2> QED BY <2>1, <2>2
<1>6. Grown /\ NewLinked
  BY <1>1, <1>2 DEF Grown, NewLinked
<1> QED BY <1>2, <1>5, <1>6 DEF Settled, Viewed, AllKept, Extended

----------------------------------------------------------------------------

LEMMA NextShares ==
    ASSUME IInv, Settled, [Next]_vars
    PROVE  Settled' /\ Extended
<1>1. ASSUME NEW S \in Feeds, NEW o \in Orientations, NEW cs \in CoordinateSystem,
             NEW dirs \in FeedDirections(S, o), Load(S, o, cs, dirs)
      PROVE  Settled' /\ Extended
  BY <1>1, DatasetAssumption, LoadShares DEF DatasetAssumption
<1>2. ASSUME NEW n \in DOMAIN datasets, NEW keep \in SUBSET DOMAIN datasets[n].records,
             Filter(n, keep)
      PROVE  Settled' /\ Extended
  BY <1>2, FilterShares
<1>3. ASSUME NEW n \in DOMAIN datasets, NEW changed \in SUBSET DOMAIN datasets[n].records,
             Map(n, changed)
      PROVE  Settled' /\ Extended
  BY <1>3, MapShares
<1>4. ASSUME NEW n \in DOMAIN datasets, TransformCall(n)
      PROVE  Settled' /\ Extended
  <2>1. PICK toO \in Orientations \cup {None}, toDims \in Dims \cup {None},
             toCs \in CoordinateSystem \cup {None} :
            LET o == IF toO = None THEN datasets[n].orientation ELSE toO
                cs == TargetCs(datasets[n].cs, toDims, toCs)
            IN  Transform(n, o, cs) \/ TransformFails(n, o, cs)
    BY <1>4 DEF TransformCall
  <2>2. TargetCs(datasets[n].cs, toDims, toCs) \in CoordinateSystem
    BY DEF IInv, DatasetsInv, Listed, TargetCs, CoordinateSystem
  <2> QED BY <2>1, <2>2, TransformShares, TransformFailsShares
<1>5. CASE UNCHANGED vars
  BY <1>5 DEF vars, Settled, Viewed, Extended, AllKept, Kept, Grown, NewLinked
<1> QED BY <1>1, <1>2, <1>3, <1>4, <1>5 DEF Next

LEMMA AlwaysSettled == Spec => []Settled
<1>1. Init => Settled
  BY DEF Init, Settled
<1>2. IInv /\ Settled /\ [Next]_vars => Settled'
  BY NextShares
<1> QED BY Invariant, <1>1, <1>2, PTL DEF Spec

\* No operation changes a record of a dataset built before: not its coordinates,
\* not its references and, where the team in possession acts, not the freeze
\* frame that transform_event assigns in place; for every feed and session.
THEOREM Immutable == Spec => RecordsImmutable
<1>1. IInv /\ Settled /\ [Next]_vars =>
          [\A x \in DOMAIN heap :
              /\ x \in DOMAIN heap'
              /\ \/ heap'[x] = heap[x]
                 \/ /\ TeamOf[x[2]] # OwnerOf[x[2]]
                    /\ heap'[x] = [heap[x] EXCEPT !.freeze_frame = heap'[x].freeze_frame]]_vars
  BY NextShares DEF Extended, AllKept, Kept
<1> QED BY Invariant, AlwaysSettled, <1>1, PTL DEF Spec, RecordsImmutable

\* An event of the team in possession and its freeze frame stay in the same
\* frame of reference, also where transform_event assigns the freeze frame in
\* place to an event that other datasets hold.
THEOREM FreezeFramesCoherent == Spec => []FreezeFrameCoherent
<1>1. Settled => FreezeFrameCoherent
  BY DEF Settled, Viewed, FreezeFrameCoherent
<1> QED BY <1>1, AlwaysSettled, PTL

----------------------------------------------------------------------------
\* The references of a record

\* The neighbours of a record in a list are members of the list, and lie
\* strictly before and after it in the feed.
LEMMA Neighbours ==
    ASSUME NEW recs, DOMAIN recs \subseteq Sources, NEW e \in Sources
    PROVE  /\ \/ PrevIn(recs, e) = None
              \/ \E f \in DOMAIN recs : f < e /\ PrevIn(recs, e) = recs[f]
           /\ \/ NextIn(recs, e) = None
              \/ \E f \in DOMAIN recs : f > e /\ NextIn(recs, e) = recs[f]
<1> DEFINE B == Before(DOMAIN recs, e)
           A == After(DOMAIN recs, e)
<1>1. /\ B \in SUBSET Nat /\ IsFiniteSet(B)
      /\ A \in SUBSET Nat /\ IsFiniteSet(A)
  <2>1. B \in SUBSET Sources /\ A \in SUBSET Sources
    BY DEF Before, After
  <2> QED BY <2>1, DatasetAssumption, FS_Subset DEF DatasetAssumption
<1>2. /\ \A f \in B : f \in DOMAIN recs /\ f < e
      /\ \A f \in A : f \in DOMAIN recs /\ f > e
  BY DEF Before, After
<1>3. PrevIn(recs, e) = IF B = {} THEN None
                        ELSE recs[CHOOSE f \in B : \A g \in B : g <= f]
  BY DEF PrevIn
<1>4. NextIn(recs, e) = IF A = {} THEN None
                        ELSE recs[CHOOSE f \in A : \A g \in A : g >= f]
  BY DEF NextIn
<1> HIDE DEF A, B
<1>5. B # {} => \E f \in B : f = CHOOSE h \in B : \A g \in B : g <= h
  BY <1>1, GreatestExists
<1>6. A # {} => \E f \in A : f = CHOOSE h \in A : \A g \in A : g >= h
  BY <1>1, LeastExists
<1> QED BY <1>2, <1>3, <1>4, <1>5, <1>6

\* A record refers to a dataset that exists, and a dataset holds no record made
\* for a later one.
Owned ==
    /\ \A x \in DOMAIN heap : heap[x].dataset \in DOMAIN datasets
    /\ \A n \in DOMAIN datasets : \A e \in DOMAIN datasets[n].records :
           heap[datasets[n].records[e]].dataset <= n

ChainInv == Owned /\ OwnChain

LEMMA NextChains ==
    ASSUME IInv, Settled, ChainInv, [Next]_vars
    PROVE  ChainInv'
<1> DEFINE n == Len(datasets) + 1
<1>1. AllKept /\ Grown /\ NewLinked
  BY NextShares DEF Extended
<1>2. DatasetsInv /\ DatasetsInv'
  BY NextKeeps DEF IInv
<1>3. Len(datasets) \in Nat /\ DOMAIN datasets = 1..Len(datasets)
  BY <1>2 DEF DatasetsInv
<1>4. ASSUME NEW x \in DOMAIN heap
      PROVE  /\ heap'[x].dataset = heap[x].dataset
             /\ heap'[x].prev_record = heap[x].prev_record
             /\ heap'[x].next_record = heap[x].next_record
  <2>1. Framed(heap[x]) /\ Kept(x, heap[x], heap'[x])
    BY <1>1 DEF AllKept, IInv, HeapInv
  <2> DEFINE v == heap'[x].freeze_frame
             s == [heap[x] EXCEPT !.freeze_frame = v]
  <2> HIDE DEF v
  <2>2. /\ s.dataset = heap[x].dataset
        /\ s.prev_record = heap[x].prev_record
        /\ s.next_record = heap[x].next_record
    BY <2>1 DEF Framed, Fields
  <2> QED BY <2>1, <2>2 DEF Kept, v
<1>5. ASSUME NEW x \in DOMAIN heap'
      PROVE  /\ heap'[x].dataset \in DOMAIN datasets'
             /\ heap'[x].dataset # 0
             /\ LET recs == datasets'[heap'[x].dataset].records
                IN  /\ x[2] \in DOMAIN recs /\ recs[x[2]] = x
                    /\ heap'[x].prev_record = PrevIn(recs, x[2])
                    /\ heap'[x].next_record = NextIn(recs, x[2])
             /\ heap'[x].dataset <= n
             /\ x \in DOMAIN heap => heap'[x].dataset < n
  <2>1. CASE x \in DOMAIN heap
    <3>1. heap[x].dataset \in DOMAIN datasets
      BY <2>1 DEF ChainInv, Owned
    <3>2. datasets'[heap[x].dataset] = datasets[heap[x].dataset]
      BY <1>1, <3>1 DEF Grown
    <3> QED BY <2>1, <3>1, <3>2, <1>1, <1>3, <1>4 DEF ChainInv, OwnChain, Grown
  <2>2. CASE x \notin DOMAIN heap
    BY <2>2, <1>1, <1>3 DEF NewLinked
  <2> QED BY <2>1, <2>2
<1>6. ASSUME NEW k \in DOMAIN datasets', NEW e \in DOMAIN datasets'[k].records
      PROVE  heap'[datasets'[k].records[e]].dataset <= k
  <2>1. CASE k \in DOMAIN datasets
    <3>1. datasets'[k] = datasets[k] /\ datasets[k].records[e] \in DOMAIN heap
      BY <2>1, <1>1, <1>2 DEF Grown, DatasetsInv, Listed
    <3> QED BY <2>1, <3>1, <1>4 DEF ChainInv, Owned
  <2>2. CASE k \notin DOMAIN datasets
    <3>1. k = n
      BY <2>2, <1>1 DEF Grown
    <3>2. datasets'[k].records[e] \in DOMAIN heap'
      BY <1>2 DEF DatasetsInv, Listed
    <3> QED BY <3>1, <3>2, <1>5
  <2> QED BY <2>1, <2>2
<1> QED BY <1>5, <1>6 DEF ChainInv, Owned, OwnChain

LEMMA AlwaysChained == Spec => []ChainInv
<1>1. Init => ChainInv
  BY DEF Init, ChainInv, Owned, OwnChain
<1>2. IInv /\ Settled /\ ChainInv /\ [Next]_vars => ChainInv'
  BY NextChains
<1> QED BY Invariant, AlwaysSettled, <1>1, <1>2, PTL DEF Spec

\* The references of a record are those of the dataset it was made for, of
\* which it is a record, however many filters, maps and transforms handed it on.
THEOREM ReferencesOwn == Spec => []OwnChain
BY AlwaysChained, PTL DEF ChainInv

\* Following prev or next from any record goes strictly backward or forward in
\* the feed and never into a later dataset, so the loops over them end.
THEOREM LinksLeadOn == Spec => []LinksAdvance
<1>1. IInv /\ ChainInv => LinksAdvance
  <2> SUFFICES ASSUME IInv, ChainInv, NEW x \in DOMAIN heap
               PROVE  LET p == heap[x].prev_record
                          q == heap[x].next_record
                      IN  /\ p # None => p[2] < x[2] /\ heap[p].dataset <= heap[x].dataset
                          /\ q # None => q[2] > x[2] /\ heap[q].dataset <= heap[x].dataset
    BY DEF LinksAdvance
  <2> DEFINE n == heap[x].dataset
             recs == datasets[n].records
  <2>1. /\ n \in DOMAIN datasets
        /\ x[2] \in DOMAIN recs
        /\ heap[x].prev_record = PrevIn(recs, x[2])
        /\ heap[x].next_record = NextIn(recs, x[2])
    BY DEF ChainInv, Owned, OwnChain
  <2>2. /\ DOMAIN recs \subseteq Sources
        /\ \A f \in DOMAIN recs : recs[f][2] = f /\ heap[recs[f]].dataset <= n
    BY <2>1 DEF IInv, DatasetsInv, Listed, ChainInv, Owned
  <2> HIDE DEF n, recs
  <2>3. /\ \/ PrevIn(recs, x[2]) = None
           \/ \E f \in DOMAIN recs : f < x[2] /\ PrevIn(recs, x[2]) = recs[f]
        /\ \/ NextIn(recs, x[2]) = None
           \/ \E f \in DOMAIN recs : f > x[2] /\ NextIn(recs, x[2]) = recs[f]
    BY <2>1, <2>2, Neighbours
  <2> QED BY <2>1, <2>2, <2>3 DEF n
<1> QED BY <1>1, Invariant, AlwaysChained, PTL

\* The attacking direction, which is read through the dataset a record refers
\* to and not through the one it was found in, is that of its coordinates.
THEOREM DirectionOfCoordinates == Spec => []RefDirection
<1>1. IInv /\ ChainInv => RefDirection
  <2> SUFFICES ASSUME IInv, ChainInv, NEW x \in DOMAIN heap
               PROVE  AttackingDirection(x) \in {None, heap[x].dir}
    BY DEF RefDirection
  <2> DEFINE ds == datasets[heap[x].dataset]
  <2>1. heap[x].dataset \in DOMAIN datasets /\ x[2] \in DOMAIN ds.records /\ ds.records[x[2]] = x
    BY DEF ChainInv, Owned, OwnChain
  <2>2. DirectionIn(ds.orientation, x[2]) \in {None, heap[x].dir}
    BY <2>1 DEF IInv, DatasetCoherent, SameFrame
  <2>3. AttackingDirection(x) \in {None, DirectionIn(ds.orientation, x[2])}
    BY DEF AttackingDirection, DirectionIn, ExecutingTeam, FromOrientation
  <2> QED BY <2>2, <2>3
<1> QED BY <1>1, Invariant, AlwaysChained, PTL

----------------------------------------------------------------------------
\* Types

\* What a dataset announces, and what a failed transform reports.
Announced ==
    /\ Len(datasets) <= MaxDatasets
    /\ \A n \in DOMAIN datasets : /\ datasets[n].orientation \in Orientations
                                 /\ datasets[n].owned \in BOOLEAN
    /\ failed \in Sources \cup {None}

LEMMA ConstructAnnounces ==
    ASSUME IInv, Announced, NEW recs, NEW fresh, NEW o \in Orientations, NEW cs,
           NEW owned \in BOOLEAN, Construct(recs, fresh, o, cs, owned),
           failed' \in Sources \cup {None}
    PROVE  Announced'
<1> DEFINE made == [records |-> recs, orientation |-> o, cs |-> cs, owned |-> owned]
           S == {datasets[k] : k \in DOMAIN datasets} \cup {made}
<1>1. datasets' = Append(datasets, made) /\ Len(datasets) + 1 <= MaxDatasets
  BY DEF Construct
<1>2. datasets \in Seq(S) /\ made \in S
  BY DEF IInv, DatasetsInv
<1>3. made.orientation = o /\ made.owned = owned
  OBVIOUS
<1> HIDE DEF S, made
<1>4. /\ Len(datasets') = Len(datasets) + 1
      /\ \A n \in DOMAIN datasets' : \/ n \in DOMAIN datasets /\ datasets'[n] = datasets[n]
                                    \/ datasets'[n] = made
  BY <1>1, <1>2
<1> QED BY <1>1, <1>3, <1>4 DEF Announced

LEMMA TransformFailsAnnounces ==
    ASSUME IInv, Announced, NEW n \in DOMAIN datasets, NEW o, NEW cs,
           TransformFails(n, o, cs)
    PROVE  Announced'
<1> DEFINE ds == datasets[n]
           raising == {e \in DOMAIN ds.records : Raises(e, heap[ds.records[e]], ds, o)}
<1>1. /\ raising # {} /\ datasets' = datasets
      /\ failed' = CHOOSE e \in raising : \A f \in raising : e <= f
  BY DEF TransformFails
<1>2. raising \in SUBSET Sources
  BY DEF IInv, DatasetsInv, Listed
<1>3. raising \in SUBSET Nat /\ IsFiniteSet(raising)
  BY <1>2, DatasetAssumption, FS_Subset DEF DatasetAssumption
<1> HIDE DEF raising
<1>4. PICK e \in raising : \A f \in raising : f >= e
  BY <1>1, <1>3, LeastExists
<1>5. \A f \in raising : e <= f
  BY <1>3, <1>4
<1>6. failed' \in raising
  BY <1>1, <1>5
<1> QED BY <1>1, <1>2, <1>6 DEF Announced

LEMMA NextAnnounces ==
    ASSUME IInv, Announced, [Next]_vars
    PROVE  Announced'
<1>1. ASSUME NEW S \in Feeds, NEW o \in Orientations, NEW cs \in CoordinateSystem,
             NEW dirs \in FeedDirections(S, o), Load(S, o, cs, dirs)
      PROVE  Announced'
  <2>1. (\E e \in S : OwnerOf[e] # None) \in BOOLEAN
    OBVIOUS
  <2>2. \E recs, fresh : Construct(recs, fresh, o, cs, \E e \in S : OwnerOf[e] # None)
    BY <1>1 DEF Load
  <2>3. failed' = None
    BY <1>1 DEF Load
  <2> QED BY <2>1, <2>2, <2>3, ConstructAnnounces
<1>2. ASSUME NEW n \in DOMAIN datasets, NEW keep \in SUBSET DOMAIN datasets[n].records,
             Filter(n, keep)
      PROVE  Announced'
  BY <1>2, ConstructAnnounces DEF Filter, Announced
<1>3. ASSUME NEW n \in DOMAIN datasets, NEW changed \in SUBSET DOMAIN datasets[n].records,
             Map(n, changed)
      PROVE  Announced'
  BY <1>3, ConstructAnnounces DEF Map, Announced
<1>4. ASSUME NEW n \in DOMAIN datasets, TransformCall(n)
      PROVE  Announced'
  <2>1. PICK o, cs : /\ o \in Orientations
                     /\ Transform(n, o, cs) \/ TransformFails(n, o, cs)
    BY <1>4 DEF TransformCall, Announced
  <2>2. CASE Transform(n, o, cs)
    <3>1. failed' = None /\ \E recs, fresh : Construct(recs, fresh, o, cs, datasets[n].owned)
      BY <2>2 DEF Transform
    <3>2. datasets[n].owned \in BOOLEAN /\ o \in Orientations
      BY <2>1 DEF Announced
    <3> QED BY <3>1, <3>2, ConstructAnnounces
  <2> QED BY <2>1, <2>2, TransformFailsAnnounces
<1>5. CASE UNCHANGED vars
  BY <1>5 DEF vars, Announced
<1> QED BY <1>1, <1>2, <1>3, <1>4, <1>5 DEF Next

LEMMA AlwaysAnnounced == Spec => []Announced
<1>1. Init => Announced
  BY DatasetAssumption DEF Init, Announced, DatasetAssumption
<1>2. IInv /\ Announced /\ [Next]_vars => Announced'
  BY NextAnnounces
<1> QED BY Invariant, <1>1, <1>2, PTL DEF Spec

\* Every variable has its type: the links of a record are records of this
\* session or missing, the dataset it refers to exists, a freeze frame is a
\* view, and a failed transform names a record of the feed.
THEOREM DatasetTypes == Spec => []TypeOK
<1>1. IInv /\ Settled /\ ChainInv /\ Announced => TypeOK
  <2> SUFFICES ASSUME IInv, Settled, ChainInv, Announced PROVE TypeOK
    OBVIOUS
  <2>1. /\ Len(datasets) \in Nat /\ MaxDatasets \in Nat
        /\ DOMAIN datasets = 1..Len(datasets)
        /\ DOMAIN datasets \subseteq 1..MaxDatasets
    BY DatasetAssumption DEF DatasetAssumption, IInv, DatasetsInv, Announced
  <2>2. \A x \in DOMAIN heap : x \in Id
    BY <2>1 DEF IInv, HeapInv, Id, Announced
  <2>3. ASSUME NEW x \in DOMAIN heap
        PROVE  heap[x] \in Record
    <3> DEFINE r == heap[x]
               n == r.dataset
               recs == datasets[n].records
    <3>1. Framed(r) /\ Viewed(x[2], r)
      BY DEF IInv, HeapInv, Settled
    <3>2. /\ n \in DOMAIN datasets
          /\ x[2] \in DOMAIN recs
          /\ r.prev_record = PrevIn(recs, x[2])
          /\ r.next_record = NextIn(recs, x[2])
      BY DEF ChainInv, Owned, OwnChain
    <3>3. DOMAIN recs \subseteq Sources /\ \A f \in DOMAIN recs : recs[f] \in Id
      BY <2>2, <3>2 DEF IInv, DatasetsInv, Listed
    <3> HIDE DEF recs
    <3>4. r.prev_record \in Id \cup {None} /\ r.next_record \in Id \cup {None}
      BY <3>2, <3>3, Neighbours
    <3>5. n \in 0..MaxDatasets
      BY <2>1, <3>2
    <3> HIDE DEF r
    <3>6. r = [dir |-> r.dir, cs |-> r.cs, freeze_frame |-> r.freeze_frame, dataset |-> r.dataset,
               prev_record |-> r.prev_record, next_record |-> r.next_record]
      BY <3>1 DEF Framed, Fields
    <3>7. /\ r.dir \in Directions /\ r.cs \in CoordinateSystem \cup {Garbled}
          /\ r.freeze_frame \in View \cup {None}
      BY <3>1 DEF Framed, Viewed
    <3>8. r \in Record
      BY <3>4, <3>5, <3>6, <3>7 DEF Record
    <3> QED BY <3>8 DEF r
  <2>4. \A n \in DOMAIN datasets :
           /\ datasets[n].orientation \in Orientations /\ datasets[n].cs \in CoordinateSystem
           /\ datasets[n].owned \in BOOLEAN
           /\ DOMAIN datasets[n].records \subseteq Sources
           /\ \A e \in DOMAIN datasets[n].records : datasets[n].records[e] \in DOMAIN heap
    BY DEF Announced, IInv, DatasetsInv, Listed
  <2> QED BY <2>1, <2>2, <2>3, <2>4 DEF TypeOK, Announced
<1> QED BY <1>1, Invariant, AlwaysSettled, AlwaysChained, AlwaysAnnounced, PTL

============================================================================
