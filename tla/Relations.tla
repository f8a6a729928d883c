----------------------------- MODULE Relations -----------------------------
(***************************************************************************)
(* The purpose relations of the project identity: one immutable file per   *)
(* relation and one per retraction, under .thaliris/identity/relations.    *)
(*                                                                         *)
(* identity-relate adds and retracts in one request, under the repository  *)
(* lock.  It writes file after file by _apply_with_backup (DurableWrites): *)
(* the additions first, in the order asked for, and then the retractions.  *)
(* Re-registering an edge at a newer version is an addition of the edge    *)
(* with the retraction of the relation that held it.                       *)
(***************************************************************************)
EXTENDS Naturals, Sequences, FiniteSets, SequencesExt

CONSTANTS
  Edge,          \* <from, rel, to> triples that pass the input checks
  Id,            \* ids of relations
  Process,       \* Controllers that relate
  Absent,        \* content of a path that names no file
  None,
  MaxBatch,      \* additions, and retractions, of one request (64)
  MaxRelations,  \* MAX_RELATIONS, retracted ones included
  MaxAsks        \* bound: requests submitted

ASSUME BoundsAssumption ==
  /\ {MaxBatch, MaxRelations, MaxAsks} \subseteq Nat
  /\ IsFiniteSet(Id) /\ Cardinality(Id) >= MaxRelations
ASSUME AbsentAssumption == Absent \notin Edge \cup {"retracted"}

Relation(id) == <<"relation", id>>
Retraction(id) == <<"retraction", id>>
Path == {Relation(id) : id \in Id} \cup {Retraction(id) : id \in Id}

Batch(S) == UNION {[1 .. n -> S] : n \in 0 .. MaxBatch}
Request == [add : Batch(Edge), retract : Batch(Id)]

\* What the holder of the lock has in hand: its request as a list of writes, the
\* number of those it has noted, whether it undoes them, whether an interrupt
\* kept one from being noted; and, a history, the edges registered when it began.
Write == [path : Path, content : Edge \cup {"retracted"}]
Run ==
  [request : Request, writes : Seq(Write), noted : Nat, undoing : BOOLEAN,
   unnoted : BOOLEAN, registered : SUBSET Edge]

ASSUME NoneAssumption == None \notin Run

VARIABLES
  disk,   \* the content of each file: an edge, "retracted" or Absent
  asked,  \* the request each process has submitted, or None
  run,    \* the request that holds the lock and writes, or None
  asks,   \* number of requests submitted
  cut     \* history: edges whose re-registration was killed or lost a note

vars == <<disk, asked, run, asks, cut>>

-----------------------------------------------------------------------------
(* _scan and _load_side_records, for the relations *)

Known(d) == {id \in Id : d[Relation(id)] # Absent}
Retracted(d) == {id \in Id : d[Retraction(id)] # Absent}

\* active_relations, for one edge.
Active(d, e) == {id \in Known(d) \ Retracted(d) : d[Relation(id)] = e}

\* Scope "side_records": a retraction without its relation, or too many files.
SideInvalid(d) ==
  ~(Retracted(d) \subseteq Known(d)) \/ Cardinality(Known(d)) > MaxRelations

TypeOK ==
  /\ disk \in [Path -> Edge \cup {"retracted", Absent}]
  /\ asked \in [Process -> Request \cup {None}]
  /\ run \in Run \cup {None}
  /\ run # None => run.noted \in 0 .. Len(run.writes)
  /\ asks \in 0 .. MaxAsks
  /\ cut \subseteq Edge

\* Some edges registered earlier, each by one relation.
Init ==
  /\ \E old \in [Id -> Edge \cup {Absent}] :
       /\ \A i, j \in Id : i # j /\ old[i] = old[j] => old[i] = Absent
       /\ disk = [path \in Path |->
            IF path[1] = "relation" THEN old[path[2]] ELSE Absent]
       /\ ~SideInvalid(disk)
  /\ asked = [p \in Process |-> None]
  /\ run = None
  /\ asks = 0
  /\ cut = {}

-----------------------------------------------------------------------------
(* identity-relate *)

\* A Controller that has read the relations asks for a change of them.
Ask(p) ==
  /\ asked[p] = None /\ asks < MaxAsks
  /\ \E r \in Request :
       /\ r.add # <<>> \/ r.retract # <<>>
       /\ IsInjective(r.retract)
       /\ ToSet(r.retract) \subseteq Known(disk)
       /\ asked' = [asked EXCEPT ![p] = r]
  /\ asks' = asks + 1
  /\ UNCHANGED <<disk, run, cut>>

\* Mutant: the room left is counted over the active relations.
AdmitsActive(r) ==
  /\ ~SideInvalid(disk)
  /\ ToSet(r.retract) \subseteq Known(disk) \ Retracted(disk)
  /\ Cardinality(Known(disk) \ Retracted(disk)) + Len(r.add) <= MaxRelations
  /\ Cardinality(Known(disk)) + Len(r.add) <= Cardinality(Id)
  /\ IsInjective(r.add)
  /\ \A e \in ToSet(r.add) : Active(disk, e) \subseteq ToSet(r.retract)

\* Mutant: the edges on disk are looked at, those of the request are not.
AdmitsRepeated(r) ==
  /\ ~SideInvalid(disk)
  /\ ToSet(r.retract) \subseteq Known(disk) \ Retracted(disk)
  /\ Cardinality(Known(disk)) + Len(r.add) <= MaxRelations
  /\ \A e \in ToSet(r.add) : Active(disk, e) \subseteq ToSet(r.retract)

\* What is retracted is there and was not retracted, there is room, and no
\* added edge has an active relation, the request's own additions counted and
\* its own retractions not.
Admits(r) ==
  /\ ~SideInvalid(disk)
  /\ ToSet(r.retract) \subseteq Known(disk) \ Retracted(disk)
  /\ Cardinality(Known(disk)) + Len(r.add) <= MaxRelations
  /\ IsInjective(r.add)
  /\ \A e \in ToSet(r.add) : Active(disk, e) \subseteq ToSet(r.retract)

Additions(r, ids) ==
  [i \in DOMAIN r.add |-> [path |-> Relation(ids[i]), content |-> r.add[i]]]
Retractions(r) ==
  [i \in DOMAIN r.retract |->
     [path |-> Retraction(r.retract[i]), content |-> "retracted"]]

\* Mutant: the retractions are written first.
WritesRetractingFirst(r, ids) == Retractions(r) \o Additions(r, ids)

Writes(r, ids) == Additions(r, ids) \o Retractions(r)

\* Under the lock: the load, the checks, the new ids and the backup.
Begin(p) ==
  /\ asked[p] # None /\ run = None
  /\ Admits(asked[p])
  /\ \E ids \in [DOMAIN asked[p].add -> Id \ Known(disk)] :
       /\ IsInjective(ids)
       /\ run' = [request |-> asked[p], writes |-> Writes(asked[p], ids),
                  noted |-> 0, undoing |-> FALSE, unnoted |-> FALSE,
                  registered |-> {e \in Edge : Active(disk, e) # {}}]
  /\ asked' = [asked EXCEPT ![p] = None]
  /\ UNCHANGED <<disk, asks, cut>>

\* A refusal, for these checks, for the task's or for a ref that does not
\* resolve; or the caller gives up.
Refuse(p) ==
  /\ asked[p] # None
  /\ asked' = [asked EXCEPT ![p] = None]
  /\ UNCHANGED <<disk, run, asks, cut>>

\* The edges the request registers anew.
Reregistered == ToSet(run.request.add) \cap run.registered

Applying == run # None /\ ~run.undoing /\ run.noted < Len(run.writes)
NextWrite == run.writes[run.noted + 1]

Apply ==
  /\ Applying
  /\ disk' = [disk EXCEPT ![NextWrite.path] = NextWrite.content]
  /\ run' = [run EXCEPT !.noted = @ + 1]
  /\ UNCHANGED <<asked, asks, cut>>

\* An interrupt between a write and its note.
ApplyUnnoted ==
  /\ Applying
  /\ disk' = [disk EXCEPT ![NextWrite.path] = NextWrite.content]
  /\ run' = [run EXCEPT !.undoing = TRUE, !.unnoted = TRUE]
  /\ cut' = cut \cup Reregistered
  /\ UNCHANGED <<asked, asks>>

ApplyFails ==
  /\ Applying
  /\ run' = [run EXCEPT !.undoing = TRUE]
  /\ UNCHANGED <<disk, asked, asks, cut>>

\* The noted writes are undone from the last to the first; every one of them
\* made a new file, which no other command of Core touches meanwhile.
Undo ==
  /\ run # None /\ run.undoing /\ run.noted > 0
  /\ disk' = [disk EXCEPT ![run.writes[run.noted].path] = Absent]
  /\ run' = [run EXCEPT !.noted = @ - 1]
  /\ UNCHANGED <<asked, asks, cut>>

End ==
  /\ run # None
  /\ run.noted = IF run.undoing THEN 0 ELSE Len(run.writes)
  /\ run' = None
  /\ UNCHANGED <<disk, asked, asks, cut>>

\* The process is killed, or its undo raises.
Die ==
  /\ run # None
  /\ run' = None
  /\ cut' = cut \cup Reregistered
  /\ UNCHANGED <<disk, asked, asks>>

Next ==
  \/ \E p \in Process : Ask(p) \/ Begin(p) \/ Refuse(p)
  \/ Apply \/ ApplyUnnoted \/ ApplyFails \/ Undo \/ End \/ Die

Spec == Init /\ [][Next]_vars

-----------------------------------------------------------------------------

\* An edge is re-registered by one request (project identity document, under
\* identity-relate) and is never without an active relation meanwhile, nor
\* after the request failed or was killed at any point, a kill of its undo
\* included.  An interrupt between a retraction and its note is the exception.
EdgeStaysRegistered ==
  [][run # None /\ ~run.unnoted =>
       \A e \in Reregistered : Active(disk, e) # {} => Active(disk', e) # {}]_vars

\* "Duplicate active edges are rejected": however two Controllers' requests
\* and their failures follow each other, one edge has two active relations
\* only while it is re-registered, or when that was killed or lost a note.
AtMostOneRelation ==
  \A e \in Edge :
    Cardinality(Active(disk, e)) > 1 =>
      e \in cut \/ (run # None /\ e \in Reregistered)

\* What requests leave behind, complete or not, is never what the loader
\* reports as INVALID: every later request would be refused, the one that
\* could retract the leftover included.
StaysWritable == ~SideInvalid(disk)
=============================================================================
