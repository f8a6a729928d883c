-------------------------- MODULE RelationsProofs --------------------------
(***************************************************************************)
(* Theorems about Relations, for any edges, ids and Controllers, and for   *)
(* batches and a room of any size.                                         *)
(*                                                                         *)
(* IInv is inductive.  It tells the relations of the disk apart in those   *)
(* the holder of the lock adds, `ids', and those that stand (Standing):    *)
(* what is added takes no more than the room left and meets no standing    *)
(* relation of its edge that the request does not retract (Admitted), and  *)
(* no write or removal of the request's own files changes what stands.     *)
(***************************************************************************)
EXTENDS Relations, SequenceTheorems, FiniteSetTheorems, TLAPS

\* The relations of an edge that stand apart from what a request adds: they
\* were active when it began, and none else was.
Standing(d, r, ids, e) ==
  {id \in Known(d) \ ToSet(ids) :
     /\ d[Relation(id)] = e
     /\ id \notin Retracted(d) \/ id \in ToSet(r.retract)}

\* A request that writes the relations `ids' for its additions and retracts
\* none of them.
Planned(d, r, ids) ==
  /\ IsInjective(ids) /\ IsInjective(r.add) /\ IsInjective(r.retract)
  /\ ToSet(ids) \cap ToSet(r.retract) = {}
  /\ ToSet(ids) \cap Retracted(d) = {}
  /\ ToSet(r.retract) \subseteq Known(d)
  /\ Retracted(d) \subseteq Known(d)
  /\ \A n \in DOMAIN r.add :
       ids[n] \in Known(d) => d[Relation(ids[n])] = r.add[n]

\* What a request was admitted for, with the edges then registered and those
\* whose re-registration was cut.
Admitted(d, r, ids, registered, cuts) ==
  /\ Cardinality(Known(d) \ ToSet(ids)) + Len(r.add) <= MaxRelations
  /\ registered = {e \in Edge : Standing(d, r, ids, e) # {}}
  /\ \A e \in Edge \ cuts : \A i, j \in Standing(d, r, ids, e) : i = j
  /\ \A n \in DOMAIN r.add :
       Standing(d, r, ids, r.add[n]) \subseteq ToSet(r.retract)

\* The files of the first k writes are there, and no others of the request.
At(d, r, ids, k) ==
  /\ \A n \in DOMAIN r.add : ids[n] \in Known(d) <=> n <= k
  /\ \A m \in DOMAIN r.retract :
       r.retract[m] \in Retracted(d) <=> Len(r.add) + m <= k

Running ==
  run # None =>
    /\ \E ids \in [DOMAIN run.request.add -> Id] :
         /\ run.writes = Writes(run.request, ids)
         /\ Planned(disk, run.request, ids)
         /\ Admitted(disk, run.request, ids, run.registered, cut)
         /\ ~run.unnoted => At(disk, run.request, ids, run.noted)
    /\ run.unnoted => run.undoing /\ Reregistered \subseteq cut

Waiting ==
  \A p \in Process : asked[p] # None => IsInjective(asked[p].retract)

\* Between two requests an edge has one active relation.
Resting ==
  run = None =>
    \A e \in Edge \ cut : \A i, j \in Active(disk, e) : i = j

IInv == TypeOK /\ StaysWritable /\ Running /\ Waiting /\ Resting

Disk == [Path -> Edge \cup {"retracted", Absent}]

Written(d, d2, path, c) == d2 = [d EXCEPT ![path] = c]

-----------------------------------------------------------------------------
(* Requests and their writes *)

LEMMA BatchIsSeq ==
  ASSUME NEW S, NEW s \in Batch(S)
  PROVE  s \in Seq(S) /\ Len(s) \in Nat /\ DOMAIN s = 1 .. Len(s)
<1>1. PICK n \in 0 .. MaxBatch : s \in [1 .. n -> S]
  BY DEF Batch
<1>2. n \in Nat
  BY <1>1, BoundsAssumption
<1>3. s \in Seq(S)
  BY <1>1, <1>2, IsASeq
<1> QED
  BY <1>3, LenProperties

LEMMA Shift ==
  ASSUME NEW a \in Nat, NEW b \in Nat, NEW m \in 1 .. b
  PROVE  /\ a + m \in 1 .. a + b /\ a + m <= a + b
         /\ ~(a + m <= a) /\ (a + m) - a = m
  OBVIOUS

LEMMA WritesAre ==
  ASSUME NEW r \in Request, NEW ids \in [DOMAIN r.add -> Id]
  PROVE  /\ Writes(r, ids) \in Seq(Write)
         /\ Len(r.add) \in Nat /\ DOMAIN r.add = 1 .. Len(r.add)
         /\ Len(r.retract) \in Nat /\ DOMAIN r.retract = 1 .. Len(r.retract)
         /\ Len(Writes(r, ids)) = Len(r.add) + Len(r.retract)
         /\ \A k \in 1 .. Len(r.add) :
              Writes(r, ids)[k] = [path |-> Relation(ids[k]), content |-> r.add[k]]
         /\ \A m \in 1 .. Len(r.retract) :
              Writes(r, ids)[Len(r.add) + m] =
                [path |-> Retraction(r.retract[m]), content |-> "retracted"]
<1> DEFINE a == Additions(r, ids)
           b == Retractions(r)
<1>1. r.add \in Batch(Edge) /\ r.retract \in Batch(Id)
  BY DEF Request
<1>2. r.add \in Seq(Edge) /\ Len(r.add) \in Nat /\ DOMAIN r.add = 1 .. Len(r.add)
  BY <1>1, BatchIsSeq
<1>3. /\ r.retract \in Seq(Id) /\ Len(r.retract) \in Nat
      /\ DOMAIN r.retract = 1 .. Len(r.retract)
  BY <1>1, BatchIsSeq
<1>4. a \in [1 .. Len(r.add) -> Write]
  BY <1>2, LenProperties, ElementOfSeq DEF Additions, Write, Path
<1>5. b \in [1 .. Len(r.retract) -> Write]
  BY <1>3, LenProperties, ElementOfSeq DEF Retractions, Write, Path
<1>6. a \in Seq(Write) /\ Len(a) = Len(r.add)
  BY <1>2, <1>4, IsASeq, LenProperties
<1>7. b \in Seq(Write) /\ Len(b) = Len(r.retract)
  BY <1>3, <1>5, IsASeq, LenProperties
<1> HIDE DEF a, b
<1>8. /\ a \o b \in Seq(Write) /\ Len(a \o b) = Len(a) + Len(b)
      /\ \A i \in 1 .. Len(a) + Len(b) :
           (a \o b)[i] = IF i <= Len(a) THEN a[i] ELSE b[i - Len(a)]
  BY <1>6, <1>7, ConcatProperties
<1>9. ASSUME NEW k \in 1 .. Len(r.add)
      PROVE  (a \o b)[k] = [path |-> Relation(ids[k]), content |-> r.add[k]]
  <2>1. a[k] = [path |-> Relation(ids[k]), content |-> r.add[k]]
    BY <1>2 DEF a, Additions
  <2> QED
    BY <2>1, <1>2, <1>3, <1>6, <1>7, <1>8
<1>10. ASSUME NEW m \in 1 .. Len(r.retract)
       PROVE  (a \o b)[Len(r.add) + m] =
                [path |-> Retraction(r.retract[m]), content |-> "retracted"]
  <2>1. b[m] = [path |-> Retraction(r.retract[m]), content |-> "retracted"]
    BY <1>3 DEF b, Retractions
  <2>2. (a \o b)[Len(r.add) + m] = b[m]
    <3> DEFINE i == Len(r.add) + m
    <3>1. Len(r.add) \in Nat /\ Len(r.retract) \in Nat
      BY <1>2, <1>3
    <3>2. i \in 1 .. Len(r.add) + Len(r.retract) /\ ~(i <= Len(r.add))
      BY <3>1, Shift
    <3>3. i - Len(r.add) = m
      BY <3>1, Shift
    <3> HIDE DEF i
    <3>4. (a \o b)[i] = b[m]
      BY <3>2, <3>3, <1>6, <1>7, <1>8
    <3> QED
      BY <3>4 DEF i
  <2> QED
    BY <2>1, <2>2
<1>11. Writes(r, ids) = a \o b
  BY DEF a, b, Writes
<1> QED
  BY <1>2, <1>3, <1>6, <1>7, <1>8, <1>9, <1>10, <1>11

-----------------------------------------------------------------------------
(* What one file changes *)

LEMMA RelationFile ==
  ASSUME NEW d \in Disk, NEW id \in Id, NEW c \in Edge \cup {Absent},
         NEW d2, Written(d, d2, Relation(id), c)
  PROVE  /\ d2 \in Disk
         /\ Known(d2) = IF c = Absent THEN Known(d) \ {id}
                                      ELSE Known(d) \cup {id}
         /\ Retracted(d2) = Retracted(d)
         /\ d2[Relation(id)] = c
         /\ \A j \in Id \ {id} : d2[Relation(j)] = d[Relation(j)]
<1>1. d2 \in Disk
  BY DEF Disk, Written
<1>2. /\ d2[Relation(id)] = c
      /\ \A j \in Id \ {id} : d2[Relation(j)] = d[Relation(j)]
      /\ \A j \in Id : d2[Retraction(j)] = d[Retraction(j)]
  BY DEF Disk, Path, Relation, Retraction, Written
<1>3. Known(d2) = IF c = Absent THEN Known(d) \ {id} ELSE Known(d) \cup {id}
  BY <1>2 DEF Known
<1>4. Retracted(d2) = Retracted(d)
  BY <1>2 DEF Retracted
<1> QED
  BY <1>1, <1>2, <1>3, <1>4

LEMMA RetractionFile ==
  ASSUME NEW d \in Disk, NEW id \in Id, NEW c \in {"retracted", Absent},
         NEW d2, Written(d, d2, Retraction(id), c)
  PROVE  /\ d2 \in Disk
         /\ Retracted(d2) = IF c = Absent THEN Retracted(d) \ {id}
                                          ELSE Retracted(d) \cup {id}
         /\ Known(d2) = Known(d)
         /\ \A j \in Id : d2[Relation(j)] = d[Relation(j)]
<1>1. d2 \in Disk
  BY DEF Disk, Written
<1>2. /\ d2[Retraction(id)] = c
      /\ \A j \in Id \ {id} : d2[Retraction(j)] = d[Retraction(j)]
      /\ \A j \in Id : d2[Relation(j)] = d[Relation(j)]
  BY DEF Disk, Path, Relation, Retraction, Written
<1>3. Retracted(d2) = IF c = Absent THEN Retracted(d) \ {id}
                                    ELSE Retracted(d) \cup {id}
  BY <1>2 DEF Retracted
<1>4. Known(d2) = Known(d)
  BY <1>2 DEF Known
<1> QED
  BY <1>1, <1>2, <1>3, <1>4

\* A relation the request adds, written or removed, changes nothing that stands.
LEMMA AdditionKeeps ==
  ASSUME NEW d \in Disk, NEW r \in Request, NEW ids \in [DOMAIN r.add -> Id],
         NEW n \in DOMAIN r.add, NEW c \in {r.add[n], Absent},
         NEW d2, Written(d, d2, Relation(ids[n]), c),
         Planned(d, r, ids)
  PROVE  /\ d2 \in Disk
         /\ Planned(d2, r, ids)
         /\ Known(d2) \ ToSet(ids) = Known(d) \ ToSet(ids)
         /\ \A e : Standing(d2, r, ids, e) = Standing(d, r, ids, e)
<1> DEFINE id == ids[n]
<1>1. /\ id \in Id /\ id \in ToSet(ids)
      /\ Written(d, d2, Relation(id), c)
  BY DEF ToSet
<1>2. c \in Edge \cup {Absent}
  <2>1. r.add \in Batch(Edge)
    BY DEF Request
  <2> QED
    BY <2>1, BatchIsSeq, ElementOfSeq
<1> HIDE DEF id
<1>3. /\ d2 \in Disk
      /\ Known(d2) = IF c = Absent THEN Known(d) \ {id}
                                   ELSE Known(d) \cup {id}
      /\ Retracted(d2) = Retracted(d)
      /\ d2[Relation(id)] = c
      /\ \A j \in Id \ {id} : d2[Relation(j)] = d[Relation(j)]
  BY <1>1, <1>2, RelationFile
<1>4. Known(d2) \ ToSet(ids) = Known(d) \ ToSet(ids)
  BY <1>1, <1>3
<1>5. ASSUME NEW e
      PROVE  Standing(d2, r, ids, e) = Standing(d, r, ids, e)
  <2>1. \A j \in Known(d) \ ToSet(ids) : d2[Relation(j)] = d[Relation(j)]
    BY <1>1, <1>3 DEF Known
  <2> QED
    BY <1>3, <1>4, <2>1 DEF Standing
<1>6. Planned(d2, r, ids)
  <2>1. ToSet(r.retract) \subseteq Known(d2) /\ Retracted(d2) \subseteq Known(d2)
    BY <1>1, <1>3 DEF Planned
  <2>2. ASSUME NEW k \in DOMAIN r.add, ids[k] \in Known(d2)
        PROVE  d2[Relation(ids[k])] = r.add[k]
    <3>1. CASE ids[k] = id
      <4>1. k = n /\ c # Absent
        BY <1>3, <2>2, <3>1 DEF Planned, IsInjective, id
      <4>2. c = r.add[k]
        BY <4>1
      <4> QED
        BY <1>3, <3>1, <4>2
    <3>2. CASE ids[k] # id
      BY <1>3, <2>2, <3>2 DEF Planned
    <3> QED
      BY <3>1, <3>2
  <2> QED
    BY <1>3, <2>1, <2>2 DEF Planned
<1> QED
  BY <1>3, <1>4, <1>5, <1>6

\* Nor does a retraction of the request, written or removed.
LEMMA RetractionKeeps ==
  ASSUME NEW d \in Disk, NEW r \in Request, NEW ids \in [DOMAIN r.add -> Id],
         NEW m \in DOMAIN r.retract, NEW c \in {"retracted", Absent},
         NEW d2, Written(d, d2, Retraction(r.retract[m]), c),
         Planned(d, r, ids)
  PROVE  /\ d2 \in Disk
         /\ Planned(d2, r, ids)
         /\ Known(d2) \ ToSet(ids) = Known(d) \ ToSet(ids)
         /\ \A e : Standing(d2, r, ids, e) = Standing(d, r, ids, e)
<1> DEFINE id == r.retract[m]
<1>1. /\ id \in Id /\ id \in ToSet(r.retract)
      /\ Written(d, d2, Retraction(id), c)
  <2>1. r.retract \in Batch(Id)
    BY DEF Request
  <2> QED
    BY <2>1, BatchIsSeq, ElementOfSeq DEF ToSet
<1> HIDE DEF id
<1>2. /\ d2 \in Disk
      /\ Retracted(d2) = IF c = Absent THEN Retracted(d) \ {id}
                                       ELSE Retracted(d) \cup {id}
      /\ Known(d2) = Known(d)
      /\ \A j \in Id : d2[Relation(j)] = d[Relation(j)]
  BY <1>1, RetractionFile
<1>3. ASSUME NEW e
      PROVE  Standing(d2, r, ids, e) = Standing(d, r, ids, e)
  <2>1. \A j \in Known(d) : d2[Relation(j)] = d[Relation(j)]
    BY <1>2 DEF Known
  <2>2. \A j \in Known(d) : (j \notin Retracted(d2) \/ j \in ToSet(r.retract))
                        <=> (j \notin Retracted(d) \/ j \in ToSet(r.retract))
    BY <1>1, <1>2
  <2> QED
    BY <1>2, <2>1, <2>2 DEF Standing
<1>4. Planned(d2, r, ids)
  <2>1. /\ ToSet(ids) \cap Retracted(d2) = {}
        /\ ToSet(r.retract) \subseteq Known(d2)
        /\ Retracted(d2) \subseteq Known(d2)
    BY <1>1, <1>2 DEF Planned
  <2>2. \A n \in DOMAIN r.add :
          ids[n] \in Known(d2) => d2[Relation(ids[n])] = r.add[n]
    BY <1>2 DEF Planned
  <2> QED
    BY <2>1, <2>2 DEF Planned
<1> QED
  BY <1>2, <1>3, <1>4 DEF id

\* Which file a write is of.
LEMMA EachWrite ==
  ASSUME NEW r \in Request, NEW ids \in [DOMAIN r.add -> Id],
         NEW k \in 1 .. Len(Writes(r, ids))
  PROVE  \/ /\ k \in DOMAIN r.add /\ k <= Len(r.add) /\ r.add[k] # Absent
            /\ Writes(r, ids)[k] = [path |-> Relation(ids[k]), content |-> r.add[k]]
         \/ \E m \in DOMAIN r.retract :
              /\ k = Len(r.add) + m
              /\ Writes(r, ids)[k] =
                   [path |-> Retraction(r.retract[m]), content |-> "retracted"]
<1> DEFINE a == Len(r.add)
           b == Len(r.retract)
           w == Writes(r, ids)
<1>1. /\ a \in Nat /\ DOMAIN r.add = 1 .. a
      /\ b \in Nat /\ DOMAIN r.retract = 1 .. b
      /\ Len(w) = a + b
      /\ \A n \in 1 .. a : w[n] = [path |-> Relation(ids[n]), content |-> r.add[n]]
      /\ \A m \in 1 .. b : w[a + m] =
           [path |-> Retraction(r.retract[m]), content |-> "retracted"]
  BY WritesAre
<1>2. \A n \in DOMAIN r.add : r.add[n] # Absent
  <2>1. r.add \in Batch(Edge)
    BY DEF Request
  <2> QED
    BY <2>1, BatchIsSeq, ElementOfSeq, AbsentAssumption
<1> HIDE DEF a, b, w
<1>3. CASE k <= a
  <2>1. k \in 1 .. a
    BY <1>1, <1>3 DEF w
  <2> QED
    BY <1>1, <1>2, <1>3, <2>1 DEF a, w
<1>4. CASE ~(k <= a)
  <2>1. k \in 1 .. a + b
    BY <1>1 DEF w
  <2>2. PICK m \in 1 .. b : k = a + m
    <3>1. k - a \in 1 .. b /\ k = a + (k - a)
      BY <1>1, <1>4, <2>1
    <3> QED
      BY <3>1
  <2> QED
    BY <1>1, <2>2 DEF a, w
<1> QED
  BY <1>3, <1>4

LEMMA NextWritten ==
  ASSUME NEW d \in Disk, NEW r \in Request, NEW ids \in [DOMAIN r.add -> Id],
         NEW k \in Nat, k < Len(Writes(r, ids)), NEW j, j = k + 1,
         NEW d2, Written(d, d2, Writes(r, ids)[j].path, Writes(r, ids)[j].content),
         Planned(d, r, ids), At(d, r, ids, k)
  PROVE  /\ d2 \in Disk
         /\ Planned(d2, r, ids)
         /\ Known(d2) \ ToSet(ids) = Known(d) \ ToSet(ids)
         /\ \A e : Standing(d2, r, ids, e) = Standing(d, r, ids, e)
         /\ At(d2, r, ids, j)
<1>1. /\ Len(r.add) \in Nat /\ DOMAIN r.add = 1 .. Len(r.add)
      /\ Len(r.retract) \in Nat /\ DOMAIN r.retract = 1 .. Len(r.retract)
      /\ Len(Writes(r, ids)) \in Nat
  BY WritesAre, LenProperties
<1>2. j \in 1 .. Len(Writes(r, ids)) /\ \A n \in Nat : n <= j <=> n <= k \/ n = j
  BY <1>1
<1>3. r.add \in Batch(Edge) /\ r.retract \in Batch(Id)
  BY DEF Request
<1>5. CASE /\ j \in DOMAIN r.add /\ j <= Len(r.add) /\ r.add[j] # Absent
           /\ Writes(r, ids)[j] = [path |-> Relation(ids[j]), content |-> r.add[j]]
  <2>1. Written(d, d2, Relation(ids[j]), r.add[j])
    BY <1>5
  <2>2. /\ d2 \in Disk /\ Planned(d2, r, ids)
        /\ Known(d2) \ ToSet(ids) = Known(d) \ ToSet(ids)
        /\ \A e : Standing(d2, r, ids, e) = Standing(d, r, ids, e)
    BY <2>1, <1>5, AdditionKeeps
  <2>3. /\ Known(d2) = Known(d) \cup {ids[j]}
        /\ Retracted(d2) = Retracted(d)
    <3>1. r.add[j] \in Edge \cup {Absent} /\ ids[j] \in Id
      BY <1>3, <1>5, BatchIsSeq, ElementOfSeq
    <3> QED
      BY <2>1, <3>1, <1>5, RelationFile
  <2>4. \A n \in DOMAIN r.add : ids[n] \in Known(d2) <=> n <= j
    <3>1. \A n \in DOMAIN r.add : ids[n] = ids[j] => n = j
      BY <1>5 DEF Planned, IsInjective
    <3> QED
      BY <1>1, <1>2, <2>3, <3>1 DEF At
  <2>5. \A m \in DOMAIN r.retract :
          r.retract[m] \in Retracted(d2) <=> Len(r.add) + m <= j
    <3>1. \A m \in DOMAIN r.retract : Len(r.add) + m \in Nat /\ Len(r.add) + m # j
      BY <1>1, <1>5
    <3> QED
      BY <1>2, <2>3, <3>1 DEF At
  <2> QED
    BY <2>2, <2>4, <2>5 DEF At
<1>6. ASSUME NEW m \in DOMAIN r.retract, j = Len(r.add) + m,
             Writes(r, ids)[j] =
               [path |-> Retraction(r.retract[m]), content |-> "retracted"]
      PROVE  /\ d2 \in Disk
             /\ Planned(d2, r, ids)
             /\ Known(d2) \ ToSet(ids) = Known(d) \ ToSet(ids)
             /\ \A e : Standing(d2, r, ids, e) = Standing(d, r, ids, e)
             /\ At(d2, r, ids, j)
  <2>1. Written(d, d2, Retraction(r.retract[m]), "retracted")
    BY <1>6
  <2>2. /\ d2 \in Disk /\ Planned(d2, r, ids)
        /\ Known(d2) \ ToSet(ids) = Known(d) \ ToSet(ids)
        /\ \A e : Standing(d2, r, ids, e) = Standing(d, r, ids, e)
    BY <2>1, RetractionKeeps
  <2>3. /\ Known(d2) = Known(d)
        /\ Retracted(d2) = Retracted(d) \cup {r.retract[m]}
    <3>1. r.retract[m] \in Id
      BY <1>3, BatchIsSeq, ElementOfSeq
    <3> QED
      BY <2>1, <3>1, RetractionFile, AbsentAssumption
  <2>4. \A n \in DOMAIN r.add : ids[n] \in Known(d2) <=> n <= j
    <3>1. \A n \in DOMAIN r.add : n \in Nat /\ n # j
      BY <1>1, <1>6
    <3> QED
      BY <1>2, <2>3, <3>1 DEF At
  <2>5. \A l \in DOMAIN r.retract :
          r.retract[l] \in Retracted(d2) <=> Len(r.add) + l <= j
    <3>1. \A l \in DOMAIN r.retract : r.retract[l] = r.retract[m] <=> l = m
      BY <1>6 DEF Planned, IsInjective
    <3>2. \A l \in DOMAIN r.retract :
            Len(r.add) + l \in Nat /\ (Len(r.add) + l = j <=> l = m)
      BY <1>1, <1>6
    <3> QED
      BY <1>2, <2>3, <3>1, <3>2 DEF At
  <2> QED
    BY <2>2, <2>4, <2>5 DEF At
<1> QED
  BY <1>2, <1>5, <1>6, EachWrite

LEMMA LastRemoved ==
  ASSUME NEW d \in Disk, NEW r \in Request, NEW ids \in [DOMAIN r.add -> Id],
         NEW j \in 1 .. Len(Writes(r, ids)),
         NEW d2, Written(d, d2, Writes(r, ids)[j].path, Absent),
         Planned(d, r, ids)
  PROVE  /\ d2 \in Disk
         /\ Planned(d2, r, ids)
         /\ Known(d2) \ ToSet(ids) = Known(d) \ ToSet(ids)
         /\ \A e : Standing(d2, r, ids, e) = Standing(d, r, ids, e)
         /\ At(d, r, ids, j) => At(d2, r, ids, j - 1)
<1> DEFINE k == j - 1
<1>1. /\ Len(r.add) \in Nat /\ DOMAIN r.add = 1 .. Len(r.add)
      /\ Len(r.retract) \in Nat /\ DOMAIN r.retract = 1 .. Len(r.retract)
      /\ Len(Writes(r, ids)) \in Nat
  BY WritesAre, LenProperties
<1>2. \A n \in Nat : n <= k <=> n <= j /\ n # j
  BY <1>1
<1>3. r.add \in Batch(Edge) /\ r.retract \in Batch(Id)
  BY DEF Request
<1> HIDE DEF k
<1>5. CASE /\ j \in DOMAIN r.add /\ j <= Len(r.add) /\ r.add[j] # Absent
           /\ Writes(r, ids)[j] = [path |-> Relation(ids[j]), content |-> r.add[j]]
  <2>1. Written(d, d2, Relation(ids[j]), Absent)
    BY <1>5
  <2>2. /\ d2 \in Disk /\ Planned(d2, r, ids)
        /\ Known(d2) \ ToSet(ids) = Known(d) \ ToSet(ids)
        /\ \A e : Standing(d2, r, ids, e) = Standing(d, r, ids, e)
    BY <2>1, <1>5, AdditionKeeps
  <2>3. /\ Known(d2) = Known(d) \ {ids[j]}
        /\ Retracted(d2) = Retracted(d)
    <3>1. ids[j] \in Id
      BY <1>5
    <3> QED
      BY <2>1, <3>1, RelationFile
  <2>4. SUFFICES ASSUME At(d, r, ids, j)
                 PROVE  At(d2, r, ids, k)
    BY <2>2 DEF k
  <2>5. \A n \in DOMAIN r.add : ids[n] \in Known(d2) <=> n <= k
    <3>1. \A n \in DOMAIN r.add : ids[n] = ids[j] <=> n = j
      BY <1>5 DEF Planned, IsInjective
    <3> QED
      BY <1>1, <1>2, <2>3, <2>4, <3>1 DEF At
  <2>6. \A m \in DOMAIN r.retract :
          r.retract[m] \in Retracted(d2) <=> Len(r.add) + m <= k
    <3>1. \A m \in DOMAIN r.retract : Len(r.add) + m \in Nat /\ Len(r.add) + m # j
      BY <1>1, <1>5
    <3> QED
      BY <1>2, <2>3, <2>4, <3>1 DEF At
  <2> QED
    BY <2>5, <2>6 DEF At
<1>6. ASSUME NEW m \in DOMAIN r.retract, j = Len(r.add) + m,
             Writes(r, ids)[j] =
               [path |-> Retraction(r.retract[m]), content |-> "retracted"]
      PROVE  /\ d2 \in Disk
             /\ Planned(d2, r, ids)
             /\ Known(d2) \ ToSet(ids) = Known(d) \ ToSet(ids)
             /\ \A e : Standing(d2, r, ids, e) = Standing(d, r, ids, e)
             /\ At(d, r, ids, j) => At(d2, r, ids, k)
  <2>1. Written(d, d2, Retraction(r.retract[m]), Absent)
    BY <1>6
  <2>2. /\ d2 \in Disk /\ Planned(d2, r, ids)
        /\ Known(d2) \ ToSet(ids) = Known(d) \ ToSet(ids)
        /\ \A e : Standing(d2, r, ids, e) = Standing(d, r, ids, e)
    BY <2>1, RetractionKeeps
  <2>3. /\ Known(d2) = Known(d)
        /\ Retracted(d2) = Retracted(d) \ {r.retract[m]}
    <3>1. r.retract[m] \in Id
      BY <1>3, BatchIsSeq, ElementOfSeq
    <3> QED
      BY <2>1, <3>1, RetractionFile
  <2>4. SUFFICES ASSUME At(d, r, ids, j)
                 PROVE  At(d2, r, ids, k)
    BY <2>2
  <2>5. \A n \in DOMAIN r.add : ids[n] \in Known(d2) <=> n <= k
    <3>1. \A n \in DOMAIN r.add : n \in Nat /\ n # j
      BY <1>1, <1>6
    <3> QED
      BY <1>2, <2>3, <2>4, <3>1 DEF At
  <2>6. \A l \in DOMAIN r.retract :
          r.retract[l] \in Retracted(d2) <=> Len(r.add) + l <= k
    <3>1. \A l \in DOMAIN r.retract : r.retract[l] = r.retract[m] <=> l = m
      BY <1>6 DEF Planned, IsInjective
    <3>2. \A l \in DOMAIN r.retract :
            Len(r.add) + l \in Nat /\ (Len(r.add) + l = j <=> l = m)
      BY <1>1, <1>6
    <3> QED
      BY <1>2, <2>3, <2>4, <3>1, <3>2 DEF At
  <2> QED
    BY <2>5, <2>6 DEF At
<1> QED
  BY <1>5, <1>6, EachWrite DEF k

-----------------------------------------------------------------------------
(* What the disk holds while a request writes *)

\* What a request adds fits into the room it was admitted for.
LEMMA Fits ==
  ASSUME NEW d \in Disk, NEW r \in Request, NEW ids \in [DOMAIN r.add -> Id],
         NEW registered, NEW cuts,
         Planned(d, r, ids), Admitted(d, r, ids, registered, cuts)
  PROVE  ~SideInvalid(d)
<1> DEFINE T == ToSet(ids)
           apart == Known(d) \ T
<1>1. Len(r.add) \in Nat /\ DOMAIN r.add = 1 .. Len(r.add)
  BY WritesAre
<1>2. IsFiniteSet(DOMAIN r.add) /\ Cardinality(DOMAIN r.add) = Len(r.add)
  BY <1>1, FS_Interval
<1>3. ids \in Surjection(DOMAIN r.add, T)
  BY DEF Surjection, ToSet
<1>4. IsFiniteSet(T) /\ Cardinality(T) <= Len(r.add)
  BY <1>2, <1>3, FS_Surjection
<1>5. IsFiniteSet(Known(d)) /\ IsFiniteSet(apart)
  <2>1. Known(d) \in SUBSET Id /\ apart \in SUBSET Id
    BY DEF Known
  <2> QED
    BY <2>1, FS_Subset, BoundsAssumption
<1>6. Cardinality(Known(d)) <= Cardinality(apart) + Cardinality(T)
  <2>1. /\ IsFiniteSet(apart \cup T)
        /\ Cardinality(apart \cup T) = Cardinality(apart) + Cardinality(T)
                                         - Cardinality(apart \cap T)
    BY <1>4, <1>5, FS_Union
  <2>2. Cardinality(Known(d)) <= Cardinality(apart \cup T)
    BY <2>1, FS_Subset
  <2>3. apart \cap T = {}
    OBVIOUS
  <2>4. Cardinality(apart \cap T) = 0
    BY <2>3, FS_EmptySet
  <2>5. /\ Cardinality(apart) \in Nat /\ Cardinality(T) \in Nat
        /\ Cardinality(apart \cup T) \in Nat /\ Cardinality(Known(d)) \in Nat
    BY <1>4, <1>5, <2>1, FS_CardinalityType
  <2> HIDE DEF T, apart
  <2> QED
    BY <2>1, <2>2, <2>4, <2>5
<1>7. Cardinality(apart) + Len(r.add) <= MaxRelations /\ MaxRelations \in Nat
  BY BoundsAssumption DEF Admitted
<1>8. /\ Cardinality(apart) \in Nat /\ Cardinality(T) \in Nat
      /\ Cardinality(Known(d)) \in Nat
  BY <1>4, <1>5, FS_CardinalityType
<1> HIDE DEF T, apart
<1>9. Cardinality(Known(d)) <= MaxRelations
  BY <1>1, <1>4, <1>6, <1>7, <1>8
<1>10. ~(Cardinality(Known(d)) > MaxRelations)
  BY <1>7, <1>8, <1>9
<1> QED
  BY <1>10 DEF SideInvalid, Planned

\* An active relation stands, or is one the request adds for the edge.
LEMMA ActiveIsKnown ==
  ASSUME NEW d, NEW r \in Request, NEW ids \in [DOMAIN r.add -> Id],
         NEW e, Planned(d, r, ids), NEW i \in Active(d, e)
  PROVE  \/ i \in Standing(d, r, ids, e)
         \/ \E n \in DOMAIN r.add : i = ids[n] /\ r.add[n] = e
<1>1. i \in Known(d) /\ i \notin Retracted(d) /\ d[Relation(i)] = e
  BY DEF Active
<1>2. CASE i \in ToSet(ids)
  BY <1>1, <1>2 DEF ToSet, Planned
<1>3. CASE i \notin ToSet(ids)
  BY <1>1, <1>3 DEF Standing
<1> QED
  BY <1>2, <1>3

\* An edge that the request does not register anew has one active relation.
LEMMA OneElsewhere ==
  ASSUME NEW d, NEW r \in Request, NEW ids \in [DOMAIN r.add -> Id],
         NEW registered, NEW cuts, NEW e \in Edge \ cuts,
         Planned(d, r, ids), Admitted(d, r, ids, registered, cuts),
         e \notin ToSet(r.add) \cap registered
  PROVE  \A i, j \in Active(d, e) : i = j
<1>1. CASE e \notin ToSet(r.add)
  <2>1. Active(d, e) \subseteq Standing(d, r, ids, e)
    BY <1>1, ActiveIsKnown DEF ToSet
  <2> QED
    BY <2>1 DEF Admitted
<1>2. CASE e \notin registered
  <2>1. Standing(d, r, ids, e) = {}
    BY <1>2 DEF Admitted
  <2>2. \A i \in Active(d, e) : \E n \in DOMAIN r.add : i = ids[n] /\ r.add[n] = e
    BY <2>1, ActiveIsKnown
  <2> QED
    BY <2>2 DEF Planned, IsInjective
<1> QED
  BY <1>1, <1>2

\* When all of its files are there, or none, every edge has one.
LEMMA OneAtEnd ==
  ASSUME NEW d \in Disk, NEW r \in Request, NEW ids \in [DOMAIN r.add -> Id],
         NEW registered, NEW cuts, NEW e \in Edge \ cuts,
         Planned(d, r, ids), Admitted(d, r, ids, registered, cuts),
         NEW k \in {0, Len(Writes(r, ids))}, At(d, r, ids, k)
  PROVE  \A i, j \in Active(d, e) : i = j
<1>1. /\ Len(r.add) \in Nat /\ DOMAIN r.add = 1 .. Len(r.add)
      /\ Len(r.retract) \in Nat /\ DOMAIN r.retract = 1 .. Len(r.retract)
      /\ Len(Writes(r, ids)) = Len(r.add) + Len(r.retract)
  BY WritesAre
<1>2. CASE k = 0
  <2>1. \A n \in DOMAIN r.add : ids[n] \notin Known(d)
    BY <1>1, <1>2 DEF At
  <2>2. Active(d, e) \subseteq Standing(d, r, ids, e)
    BY <2>1, ActiveIsKnown DEF Active
  <2> QED
    BY <2>2 DEF Admitted
<1>3. CASE k = Len(Writes(r, ids))
  <2>1. ToSet(r.retract) \subseteq Retracted(d)
    <3>1. \A m \in DOMAIN r.retract : Len(r.add) + m <= k
      <4> TAKE m \in DOMAIN r.retract
      <4>1. Len(r.add) + m <= Len(r.add) + Len(r.retract)
        BY <1>1, Shift
      <4> QED
        BY <1>1, <1>3, <4>1
    <3> QED
      BY <3>1 DEF At, ToSet
  <2>2. CASE e \in ToSet(r.add)
    <3>1. Standing(d, r, ids, e) \subseteq Retracted(d)
      BY <2>1, <2>2 DEF Admitted, ToSet
    <3>2. \A i \in Active(d, e) :
            \E n \in DOMAIN r.add : i = ids[n] /\ r.add[n] = e
      BY <3>1, ActiveIsKnown DEF Active
    <3> QED
      BY <3>2 DEF Planned, IsInjective
  <2>3. CASE e \notin ToSet(r.add)
    BY <2>3, OneElsewhere
  <2> QED
    BY <2>2, <2>3
<1> QED
  BY <1>2, <1>3

\* An edge the request registers anew has an active relation, whatever number
\* of its files are there.
LEMMA Reachable ==
  ASSUME NEW d \in Disk, NEW r \in Request, NEW ids \in [DOMAIN r.add -> Id],
         NEW registered, NEW cuts, NEW e \in ToSet(r.add) \cap registered,
         Planned(d, r, ids), Admitted(d, r, ids, registered, cuts),
         NEW k \in Nat, At(d, r, ids, k)
  PROVE  Active(d, e) # {}
<1>1. /\ Len(r.add) \in Nat /\ DOMAIN r.add = 1 .. Len(r.add)
      /\ Len(r.retract) \in Nat /\ DOMAIN r.retract = 1 .. Len(r.retract)
  BY WritesAre
<1>2. CASE k >= Len(r.add)
  <2>1. PICK n \in DOMAIN r.add : r.add[n] = e
    BY DEF ToSet
  <2>2. ids[n] \in Known(d)
    BY <1>1, <1>2 DEF At
  <2>3. d[Relation(ids[n])] = e /\ ids[n] \notin Retracted(d)
    BY <2>1, <2>2 DEF Planned, ToSet
  <2> QED
    BY <2>2, <2>3 DEF Active
<1>3. CASE ~(k >= Len(r.add))
  <2>1. \A m \in DOMAIN r.retract : r.retract[m] \notin Retracted(d)
    BY <1>1, <1>3 DEF At
  <2>2. PICK i \in Standing(d, r, ids, e) : TRUE
    BY DEF Admitted
  <2>3. i \in Known(d) /\ d[Relation(i)] = e /\ i \notin Retracted(d)
    BY <2>1, <2>2 DEF Standing, ToSet
  <2> QED
    BY <2>3 DEF Active
<1> QED
  BY <1>2, <1>3

-----------------------------------------------------------------------------
(* IInv is inductive *)

LEMMA InitInv ==
  Init => IInv
<1> SUFFICES ASSUME Init
             PROVE  IInv
  OBVIOUS
<1>1. PICK old \in [Id -> Edge \cup {Absent}] :
        /\ \A i, j \in Id : i # j /\ old[i] = old[j] => old[i] = Absent
        /\ disk = [path \in Path |->
             IF path[1] = "relation" THEN old[path[2]] ELSE Absent]
  BY DEF Init
<1>2. \A path \in Path :
        \/ \E id \in Id : path = Relation(id) /\ disk[path] = old[id]
        \/ disk[path] = Absent
  BY <1>1 DEF Path, Relation, Retraction
<1>3. \A id \in Id : disk[Relation(id)] = old[id]
  BY <1>1 DEF Path, Relation
<1>4. TypeOK
  <2>1. disk \in [Path -> Edge \cup {"retracted", Absent}]
    BY <1>1, <1>2
  <2>2. 0 \in 0 .. MaxAsks
    BY BoundsAssumption
  <2> QED
    BY <2>1, <2>2 DEF Init, TypeOK
<1>5. Resting
  BY <1>1, <1>3, AbsentAssumption DEF Resting, Active, Known
<1>6. StaysWritable /\ Running /\ Waiting
  BY DEF Init, StaysWritable, Running, Waiting
<1> QED
  BY <1>4, <1>5, <1>6 DEF IInv

\* What TypeOK says of the request that holds the lock.
LEMMA HolderType ==
  ASSUME TypeOK, run # None
  PROVE  /\ run \in Run /\ run.request \in Request /\ disk \in Disk
         /\ run.noted \in Nat /\ run.noted <= Len(run.writes)
         /\ Len(run.writes) \in Nat
<1>1. run \in Run /\ disk \in Disk /\ run.noted \in 0 .. Len(run.writes)
  BY DEF TypeOK, Disk
<1>2. run.request \in Request /\ run.writes \in Seq(Write)
  BY <1>1 DEF Run
<1> QED
  BY <1>1, <1>2, LenProperties

LEMMA AskKeeps ==
  ASSUME IInv, NEW p \in Process, Ask(p)
  PROVE  IInv'
<1>1. PICK r \in Request :
        IsInjective(r.retract) /\ asked' = [asked EXCEPT ![p] = r]
  BY DEF Ask
<1>2. asks' \in 0 .. MaxAsks
  BY BoundsAssumption DEF IInv, TypeOK, Ask
<1>3. TypeOK'
  BY <1>1, <1>2 DEF IInv, TypeOK, Ask
<1>4. Waiting'
  BY <1>1 DEF IInv, TypeOK, Waiting
<1>5. StaysWritable' /\ Running' /\ Resting'
  BY DEF IInv, Ask, StaysWritable, Running, Reregistered, Resting
<1> QED
  BY <1>3, <1>4, <1>5 DEF IInv

LEMMA RefuseKeeps ==
  ASSUME IInv, NEW p \in Process, Refuse(p)
  PROVE  IInv'
<1>1. TypeOK'
  BY DEF IInv, TypeOK, Refuse
<1>2. Waiting'
  BY DEF IInv, TypeOK, Waiting, Refuse
<1>3. StaysWritable' /\ Running' /\ Resting'
  BY DEF IInv, Refuse, StaysWritable, Running, Reregistered, Resting
<1> QED
  BY <1>1, <1>2, <1>3 DEF IInv

LEMMA BeginKeeps ==
  ASSUME IInv, NEW p \in Process, Begin(p)
  PROVE  IInv'
<1> DEFINE r == asked[p]
<1>1. /\ r \in Request /\ run = None /\ Admits(r) /\ IsInjective(r.retract)
      /\ disk \in Disk
  BY DEF IInv, TypeOK, Waiting, Begin, Disk
<1>2. PICK ids \in [DOMAIN r.add -> Id \ Known(disk)] :
        /\ IsInjective(ids)
        /\ run' = [request |-> r, writes |-> Writes(r, ids),
                   noted |-> 0, undoing |-> FALSE, unnoted |-> FALSE,
                   registered |-> {e \in Edge : Active(disk, e) # {}}]
  BY DEF Begin
<1>3. asked' = [asked EXCEPT ![p] = None] /\ UNCHANGED <<disk, asks, cut>>
  BY DEF Begin
<1> HIDE DEF r
<1>4. ids \in [DOMAIN r.add -> Id] /\ ToSet(ids) \cap Known(disk) = {}
  BY <1>2 DEF ToSet
<1>5. Retracted(disk) \subseteq Known(disk)
  BY <1>1 DEF Admits, SideInvalid
<1>6. Planned(disk, r, ids)
  BY <1>1, <1>2, <1>4, <1>5 DEF Planned, Admits, ToSet
<1>7. \A e : Standing(disk, r, ids, e) = Active(disk, e)
  BY <1>1, <1>4 DEF Standing, Active, Admits
<1>8. Admitted(disk, r, ids, run'.registered, cut)
  <2>1. Known(disk) \ ToSet(ids) = Known(disk)
    BY <1>4
  <2>2. Cardinality(Known(disk) \ ToSet(ids)) + Len(r.add) <= MaxRelations
    BY <1>1, <2>1 DEF Admits
  <2>3. run'.registered = {e \in Edge : Standing(disk, r, ids, e) # {}}
    BY <1>2, <1>7
  <2>4. \A e \in Edge \ cut : \A i, j \in Standing(disk, r, ids, e) : i = j
    BY <1>1, <1>7 DEF IInv, Resting
  <2>5. \A n \in DOMAIN r.add :
          Standing(disk, r, ids, r.add[n]) \subseteq ToSet(r.retract)
    BY <1>1, <1>7 DEF Admits, ToSet
  <2> QED
    BY <2>2, <2>3, <2>4, <2>5 DEF Admitted
<1>9. /\ Writes(r, ids) \in Seq(Write) /\ Len(Writes(r, ids)) \in Nat
      /\ Len(r.add) \in Nat /\ DOMAIN r.add = 1 .. Len(r.add)
      /\ Len(r.retract) \in Nat /\ DOMAIN r.retract = 1 .. Len(r.retract)
  BY <1>1, <1>4, WritesAre, LenProperties
<1>10. At(disk, r, ids, 0)
  <2>1. \A n \in DOMAIN r.add : ids[n] \notin Known(disk) /\ ~(n <= 0)
    BY <1>4, <1>9 DEF ToSet
  <2>2. \A m \in DOMAIN r.retract :
          r.retract[m] \notin Retracted(disk) /\ ~(Len(r.add) + m <= 0)
    BY <1>1, <1>9 DEF Admits, ToSet
  <2> QED
    BY <2>1, <2>2 DEF At
<1>11. run' \in Run
  BY <1>1, <1>2, <1>9 DEF Run
<1>12. run' # None
  BY <1>11, NoneAssumption
<1>13. TypeOK'
  BY <1>2, <1>3, <1>9, <1>11 DEF IInv, TypeOK
<1>14. Running'
  BY <1>2, <1>3, <1>4, <1>6, <1>8, <1>10 DEF Running
<1>15. Waiting'
  BY <1>3 DEF IInv, TypeOK, Waiting
<1>16. StaysWritable' /\ Resting'
  BY <1>3, <1>12 DEF IInv, StaysWritable, Resting
<1> QED
  BY <1>13, <1>14, <1>15, <1>16 DEF IInv

\* The holder and the relations it adds, as Running has them.
LEMMA Holder ==
  ASSUME IInv, run # None
  PROVE  \E ids \in [DOMAIN run.request.add -> Id] :
           /\ run.writes = Writes(run.request, ids)
           /\ Planned(disk, run.request, ids)
           /\ Admitted(disk, run.request, ids, run.registered, cut)
           /\ ~run.unnoted => At(disk, run.request, ids, run.noted)
  BY DEF IInv, Running

\* What was admitted stays so while nothing that stands changes.
LEMMA AdmittedKeeps ==
  ASSUME NEW d, NEW d2, NEW r, NEW ids, NEW registered, NEW cuts, NEW cuts2,
         Admitted(d, r, ids, registered, cuts), cuts \subseteq cuts2,
         Known(d2) \ ToSet(ids) = Known(d) \ ToSet(ids),
         \A e : Standing(d2, r, ids, e) = Standing(d, r, ids, e)
  PROVE  Admitted(d2, r, ids, registered, cuts2)
  BY DEF Admitted

\* A write, noted or not.
LEMMA ApplyKeeps ==
  ASSUME IInv, Apply \/ ApplyUnnoted
  PROVE  IInv'
<1> DEFINE r == run.request
<1>1. /\ run # None /\ ~run.undoing /\ run.noted < Len(run.writes)
      /\ ~run.unnoted
      /\ disk' = [disk EXCEPT ![NextWrite.path] = NextWrite.content]
      /\ asked' = asked /\ asks' = asks /\ cut \subseteq cut'
  BY DEF IInv, Running, Apply, ApplyUnnoted, Applying
<1>2. /\ run \in Run /\ r \in Request /\ disk \in Disk
      /\ run.noted \in Nat /\ Len(run.writes) \in Nat
  BY <1>1, HolderType DEF IInv
<1>3. PICK ids \in [DOMAIN r.add -> Id] :
        /\ run.writes = Writes(r, ids) /\ Planned(disk, r, ids)
        /\ Admitted(disk, r, ids, run.registered, cut)
        /\ At(disk, r, ids, run.noted)
  BY <1>1, Holder
<1> DEFINE next == run.noted + 1
<1>4. Written(disk, disk', Writes(r, ids)[next].path, Writes(r, ids)[next].content)
  BY <1>1, <1>3 DEF Written, NextWrite
<1>5. /\ disk' \in Disk /\ Planned(disk', r, ids)
      /\ Known(disk') \ ToSet(ids) = Known(disk) \ ToSet(ids)
      /\ \A e : Standing(disk', r, ids, e) = Standing(disk, r, ids, e)
      /\ At(disk', r, ids, next)
  <2>1. /\ r \in Request /\ disk \in Disk /\ run.noted \in Nat
        /\ run.noted < Len(Writes(r, ids)) /\ next = run.noted + 1
        /\ Planned(disk, r, ids) /\ At(disk, r, ids, run.noted)
    BY <1>1, <1>2, <1>3
  <2>2. next \in Nat
    BY <2>1
  <2> HIDE DEF r, next
  <2> QED
    BY <1>4, <2>1, <2>2, NextWritten
<1>6. Admitted(disk', r, ids, run.registered, cut')
  BY <1>1, <1>3, <1>5, AdmittedKeeps
<1>7. /\ run' \in Run /\ run'.request = r /\ run'.writes = run.writes
      /\ run'.registered = run.registered /\ run'.noted \in 0 .. Len(run.writes)
      /\ \/ run'.noted = run.noted + 1 /\ ~run'.unnoted
         \/ run'.unnoted /\ run'.undoing /\ cut' = cut \cup Reregistered
  <2>1. CASE Apply
    <3>1. run' = [run EXCEPT !.noted = @ + 1]
      BY <2>1 DEF Apply
    <3>2. run.noted + 1 \in 0 .. Len(run.writes) /\ run.noted + 1 \in Nat
      BY <1>1, <1>2
    <3> QED
      BY <1>1, <1>2, <3>1, <3>2 DEF Run
  <2>2. CASE ApplyUnnoted
    <3>1. /\ run' = [run EXCEPT !.undoing = TRUE, !.unnoted = TRUE]
          /\ cut' = cut \cup Reregistered
      BY <2>2 DEF ApplyUnnoted
    <3>2. run.noted \in 0 .. Len(run.writes)
      BY <1>1, <1>2
    <3> QED
      BY <1>2, <3>1, <3>2 DEF Run
  <2> QED
    BY <2>1, <2>2
<1>8. run' # None
  BY <1>7, NoneAssumption
<1>9. TypeOK'
  <2>1. cut' \subseteq Edge
    BY <1>2 DEF IInv, TypeOK, Apply, ApplyUnnoted, Reregistered, Run
  <2> QED
    BY <1>1, <1>5, <1>7, <2>1 DEF IInv, TypeOK, Disk
<1>10. Running'
  <2>1. Reregistered' = Reregistered
    BY <1>7 DEF Reregistered
  <2>2. run'.unnoted => run'.undoing /\ Reregistered' \subseteq cut'
    BY <1>7, <2>1
  <2> QED
    BY <1>3, <1>5, <1>6, <1>7, <2>2 DEF Running
<1>11. StaysWritable'
  <2> HIDE DEF r
  <2> QED
    BY <1>2, <1>3, <1>5, <1>6, Fits DEF StaysWritable
<1>12. Waiting' /\ Resting'
  BY <1>1, <1>8 DEF IInv, Waiting, Resting
<1> QED
  BY <1>9, <1>10, <1>11, <1>12 DEF IInv

LEMMA ApplyFailsKeeps ==
  ASSUME IInv, ApplyFails
  PROVE  IInv'
<1>1. /\ run # None /\ run' = [run EXCEPT !.undoing = TRUE] /\ ~run.unnoted
      /\ UNCHANGED <<disk, asked, asks, cut>>
  BY DEF IInv, Running, ApplyFails, Applying
<1>2. run \in Run /\ run.noted \in 0 .. Len(run.writes)
  BY <1>1 DEF IInv, TypeOK
<1>3. /\ run' \in Run /\ run'.request = run.request /\ run'.writes = run.writes
      /\ run'.registered = run.registered /\ run'.noted = run.noted
      /\ run'.unnoted = run.unnoted
  BY <1>1, <1>2 DEF Run
<1>4. run' # None
  BY <1>3, NoneAssumption
<1>5. TypeOK'
  BY <1>1, <1>2, <1>3 DEF IInv, TypeOK
<1>6. Running'
  BY <1>1, <1>3 DEF IInv, Running
<1>7. StaysWritable' /\ Waiting' /\ Resting'
  BY <1>1, <1>4 DEF IInv, StaysWritable, Waiting, Resting
<1> QED
  BY <1>5, <1>6, <1>7 DEF IInv

LEMMA UndoKeeps ==
  ASSUME IInv, Undo
  PROVE  IInv'
<1> DEFINE r == run.request
<1>1. /\ run # None /\ run.undoing /\ run.noted > 0
      /\ disk' = [disk EXCEPT ![run.writes[run.noted].path] = Absent]
      /\ run' = [run EXCEPT !.noted = @ - 1]
      /\ UNCHANGED <<asked, asks, cut>>
  BY DEF Undo
<1>2. /\ run \in Run /\ r \in Request /\ disk \in Disk
      /\ run.noted \in Nat /\ run.noted <= Len(run.writes)
      /\ Len(run.writes) \in Nat
  BY <1>1, HolderType DEF IInv
<1>3. PICK ids \in [DOMAIN r.add -> Id] :
        /\ run.writes = Writes(r, ids) /\ Planned(disk, r, ids)
        /\ Admitted(disk, r, ids, run.registered, cut)
        /\ ~run.unnoted => At(disk, r, ids, run.noted)
  BY <1>1, Holder
<1>4. /\ run.noted \in 1 .. Len(Writes(r, ids))
      /\ Written(disk, disk', Writes(r, ids)[run.noted].path, Absent)
  BY <1>1, <1>2, <1>3 DEF Written
<1>5. /\ disk' \in Disk /\ Planned(disk', r, ids)
      /\ Known(disk') \ ToSet(ids) = Known(disk) \ ToSet(ids)
      /\ \A e : Standing(disk', r, ids, e) = Standing(disk, r, ids, e)
      /\ ~run.unnoted => At(disk', r, ids, run.noted - 1)
  <2> HIDE DEF r
  <2> QED
    BY <1>2, <1>3, <1>4, LastRemoved
<1>6. Admitted(disk', r, ids, run.registered, cut')
  BY <1>1, <1>3, <1>5, AdmittedKeeps
<1>7. /\ run' \in Run /\ run'.request = r /\ run'.writes = run.writes
      /\ run'.registered = run.registered /\ run'.noted = run.noted - 1
      /\ run'.noted \in 0 .. Len(run.writes)
      /\ run'.unnoted = run.unnoted /\ run'.undoing = run.undoing
  <2>1. run.noted - 1 \in 0 .. Len(run.writes) /\ run.noted - 1 \in Nat
    BY <1>1, <1>2
  <2> QED
    BY <1>1, <1>2, <2>1 DEF Run
<1>8. run' # None
  BY <1>7, NoneAssumption
<1>9. TypeOK'
  BY <1>1, <1>5, <1>7 DEF IInv, TypeOK, Disk
<1>10. Running'
  <2>1. run'.unnoted => run'.undoing /\ Reregistered' \subseteq cut'
    BY <1>1, <1>7 DEF IInv, Running, Reregistered
  <2> QED
    BY <1>3, <1>5, <1>6, <1>7, <2>1 DEF Running
<1>11. StaysWritable'
  <2> HIDE DEF r
  <2> QED
    BY <1>2, <1>3, <1>5, <1>6, Fits DEF StaysWritable
<1>12. Waiting' /\ Resting'
  BY <1>1, <1>8 DEF IInv, Waiting, Resting
<1> QED
  BY <1>9, <1>10, <1>11, <1>12 DEF IInv

LEMMA EndKeeps ==
  ASSUME IInv, End
  PROVE  IInv'
<1> DEFINE r == run.request
<1>1. /\ run # None /\ run' = None /\ UNCHANGED <<disk, asked, asks, cut>>
      /\ run.noted = IF run.undoing THEN 0 ELSE Len(run.writes)
  BY DEF End
<1>2. r \in Request /\ disk \in Disk
  BY <1>1, HolderType DEF IInv
<1>3. PICK ids \in [DOMAIN r.add -> Id] :
        /\ run.writes = Writes(r, ids) /\ Planned(disk, r, ids)
        /\ Admitted(disk, r, ids, run.registered, cut)
        /\ ~run.unnoted => At(disk, r, ids, run.noted)
  BY <1>1, Holder
<1>4. Resting'
  <2> SUFFICES ASSUME NEW e \in Edge \ cut
               PROVE  \A i, j \in Active(disk, e) : i = j
    BY <1>1 DEF Resting
  <2>1. CASE e \notin Reregistered
    <3>1. e \notin ToSet(r.add) \cap run.registered
      BY <2>1 DEF Reregistered
    <3> HIDE DEF r
    <3> QED
      BY <1>2, <1>3, <3>1, OneElsewhere
  <2>2. CASE e \in Reregistered
    <3>1. ~run.unnoted
      BY <1>1, <2>2 DEF IInv, Running
    <3>2. run.noted \in {0, Len(Writes(r, ids))} /\ At(disk, r, ids, run.noted)
      BY <1>1, <1>3, <3>1
    <3> HIDE DEF r
    <3> QED
      BY <1>2, <1>3, <3>2, OneAtEnd
  <2> QED
    BY <2>1, <2>2
<1>5. TypeOK' /\ StaysWritable' /\ Running' /\ Waiting'
  BY <1>1 DEF IInv, TypeOK, StaysWritable, Running, Waiting
<1> QED
  BY <1>4, <1>5 DEF IInv

LEMMA DieKeeps ==
  ASSUME IInv, Die
  PROVE  IInv'
<1> DEFINE r == run.request
<1>1. /\ run # None /\ run' = None /\ UNCHANGED <<disk, asked, asks>>
      /\ cut' = cut \cup Reregistered
  BY DEF Die
<1>2. r \in Request /\ disk \in Disk /\ run \in Run
  BY <1>1, HolderType DEF IInv
<1>3. PICK ids \in [DOMAIN r.add -> Id] :
        /\ Planned(disk, r, ids)
        /\ Admitted(disk, r, ids, run.registered, cut)
  BY <1>1, Holder
<1>4. Resting'
  <2> SUFFICES ASSUME NEW e \in Edge \ (cut \cup Reregistered)
               PROVE  \A i, j \in Active(disk, e) : i = j
    BY <1>1 DEF Resting
  <2>1. e \in Edge \ cut /\ e \notin ToSet(r.add) \cap run.registered
    BY DEF Reregistered
  <2> HIDE DEF r
  <2> QED
    BY <1>2, <1>3, <2>1, OneElsewhere
<1>5. TypeOK'
  BY <1>1, <1>2 DEF IInv, TypeOK, Reregistered, Run
<1>6. StaysWritable' /\ Running' /\ Waiting'
  BY <1>1 DEF IInv, StaysWritable, Running, Waiting
<1> QED
  BY <1>4, <1>5, <1>6 DEF IInv

LEMMA StutterKeeps ==
  ASSUME IInv, UNCHANGED vars
  PROVE  IInv'
<1>1. UNCHANGED <<disk, asked, run, asks, cut>>
  BY DEF vars
<1> QED
  BY <1>1 DEF IInv, TypeOK, StaysWritable, Running, Reregistered, Waiting, Resting

LEMMA NextKeeps ==
  ASSUME IInv, [Next]_vars
  PROVE  IInv'
<1>1. CASE \E p \in Process : Ask(p) \/ Begin(p) \/ Refuse(p)
  BY <1>1, AskKeeps, BeginKeeps, RefuseKeeps
<1>2. CASE Apply \/ ApplyUnnoted
  BY <1>2, ApplyKeeps
<1>3. CASE ApplyFails
  BY <1>3, ApplyFailsKeeps
<1>4. CASE Undo
  BY <1>4, UndoKeeps
<1>5. CASE End
  BY <1>5, EndKeeps
<1>6. CASE Die
  BY <1>6, DieKeeps
<1>7. CASE UNCHANGED vars
  BY <1>7, StutterKeeps
<1> QED
  BY <1>1, <1>2, <1>3, <1>4, <1>5, <1>6, <1>7 DEF Next

LEMMA IInvHolds ==
  Spec => []IInv
<1>1. Init => IInv
  BY InitInv
<1>2. IInv /\ [Next]_vars => IInv'
  BY NextKeeps
<1> QED
  BY <1>1, <1>2, PTL DEF Spec

-----------------------------------------------------------------------------
(* The theorems *)

\* Every state has the files, requests and holder that TypeOK says.
THEOREM RelationsAreTyped ==
  Spec => []TypeOK
<1>1. IInv => TypeOK
  BY DEF IInv
<1> QED
  BY <1>1, IInvHolds, PTL

\* However many Controllers relate, of batches of any size, and wherever they
\* fail and die, the loader never finds a retraction without its relation, nor
\* more relations than it admits.
THEOREM NamespaceStaysWritable ==
  Spec => []StaysWritable
<1>1. IInv => StaysWritable
  BY DEF IInv
<1> QED
  BY <1>1, IInvHolds, PTL

\* For any edges, two relations of one are active only while it is
\* re-registered, or when that was killed or lost a note.
THEOREM NoDuplicateEdge ==
  Spec => []AtMostOneRelation
<1>1. IInv => AtMostOneRelation
  <2> SUFFICES ASSUME IInv, NEW e \in Edge, e \notin cut,
                      ~(run # None /\ e \in Reregistered)
               PROVE  ~(Cardinality(Active(disk, e)) > 1)
    BY DEF AtMostOneRelation
  <2>1. \A i, j \in Active(disk, e) : i = j
    <3>1. CASE run = None
      BY <3>1 DEF IInv, Resting
    <3>2. CASE run # None
      <4> DEFINE r == run.request
      <4>1. r \in Request
        BY <3>2, HolderType DEF IInv
      <4>2. PICK ids \in [DOMAIN r.add -> Id] :
              /\ Planned(disk, r, ids)
              /\ Admitted(disk, r, ids, run.registered, cut)
        BY <3>2, Holder
      <4>3. e \notin ToSet(r.add) \cap run.registered
        BY <3>2 DEF Reregistered
      <4> HIDE DEF r
      <4> QED
        BY <4>1, <4>2, <4>3, OneElsewhere
    <3> QED
      BY <3>1, <3>2
  <2>2. CASE Active(disk, e) = {}
    <3>1. Cardinality(Active(disk, e)) = 0
      BY <2>2, FS_EmptySet
    <3> QED
      BY <3>1
  <2>3. CASE Active(disk, e) # {}
    <3>1. PICK i : Active(disk, e) = {i}
      BY <2>1, <2>3
    <3>2. Cardinality(Active(disk, e)) = 1
      BY <3>1, FS_Singleton
    <3> QED
      BY <3>2
  <2> QED
    BY <2>2, <2>3
<1> QED
  BY <1>1, IInvHolds, PTL

\* A request of any size that re-registers an edge leaves it with an active
\* relation after every one of its writes, and of the removals that undo them.
THEOREM NeverUnregistered ==
  Spec => EdgeStaysRegistered
<1> DEFINE Stays == run # None /\ ~run.unnoted =>
             \A e \in Reregistered : Active(disk, e) # {} => Active(disk', e) # {}
<1>1. IInv /\ [Next]_vars => [Stays]_vars
  <2> SUFFICES ASSUME IInv, [Next]_vars, run # None, ~run.unnoted,
                      NEW e \in Reregistered, Active(disk, e) # {}
               PROVE  Active(disk', e) # {}
    OBVIOUS
  <2> DEFINE r == run.request
  <2>1. /\ r \in Request /\ disk \in Disk /\ run.noted \in Nat
        /\ run.noted <= Len(run.writes) /\ Len(run.writes) \in Nat
    BY HolderType DEF IInv
  <2>2. PICK ids \in [DOMAIN r.add -> Id] :
          /\ run.writes = Writes(r, ids) /\ Planned(disk, r, ids)
          /\ Admitted(disk, r, ids, run.registered, cut)
          /\ At(disk, r, ids, run.noted)
    BY Holder
  <2>3. e \in ToSet(r.add) \cap run.registered
    BY DEF Reregistered
  <2>4. ASSUME NEW d \in Disk, NEW k \in Nat,
               Planned(d, r, ids), At(d, r, ids, k),
               Known(d) \ ToSet(ids) = Known(disk) \ ToSet(ids),
               \A x : Standing(d, r, ids, x) = Standing(disk, r, ids, x)
        PROVE  Active(d, e) # {}
    <3>1. Admitted(d, r, ids, run.registered, cut)
      BY <2>2, <2>4, AdmittedKeeps
    <3> HIDE DEF r
    <3> QED
      BY <2>1, <2>2, <2>3, <2>4, <3>1, Reachable
  <2>5. CASE Apply \/ ApplyUnnoted
    <3> DEFINE next == run.noted + 1
    <3>1. /\ run.noted < Len(Writes(r, ids)) /\ next \in Nat /\ next = run.noted + 1
          /\ Written(disk, disk', Writes(r, ids)[next].path,
                     Writes(r, ids)[next].content)
      BY <2>1, <2>2, <2>5 DEF Apply, ApplyUnnoted, Applying, NextWrite, Written
    <3> HIDE DEF r, next
    <3>2. /\ disk' \in Disk /\ Planned(disk', r, ids)
          /\ Known(disk') \ ToSet(ids) = Known(disk) \ ToSet(ids)
          /\ \A x : Standing(disk', r, ids, x) = Standing(disk, r, ids, x)
          /\ At(disk', r, ids, next)
      BY <2>1, <2>2, <3>1, NextWritten
    <3> QED
      BY <2>4, <3>1, <3>2
  <2>6. CASE Undo
    <3>1. /\ run.noted \in 1 .. Len(Writes(r, ids)) /\ run.noted - 1 \in Nat
          /\ Written(disk, disk', Writes(r, ids)[run.noted].path, Absent)
      BY <2>1, <2>2, <2>6 DEF Undo, Written
    <3> HIDE DEF r
    <3>2. /\ disk' \in Disk /\ Planned(disk', r, ids)
          /\ Known(disk') \ ToSet(ids) = Known(disk) \ ToSet(ids)
          /\ \A x : Standing(disk', r, ids, x) = Standing(disk, r, ids, x)
          /\ At(disk', r, ids, run.noted - 1)
      BY <2>1, <2>2, <3>1, LastRemoved
    <3> QED
      BY <2>4, <3>1, <3>2
  <2>7. CASE UNCHANGED disk
    BY <2>7
  <2>8. Apply \/ ApplyUnnoted \/ Undo \/ UNCHANGED disk
    BY DEF Next, Ask, Begin, Refuse, ApplyFails, End, Die, vars
  <2> QED
    BY <2>5, <2>6, <2>7, <2>8
<1> QED
  BY <1>1, IInvHolds, PTL DEF Spec, EdgeStaysRegistered
=============================================================================
