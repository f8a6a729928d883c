------------------------ MODULE IdentityBasisProofs ------------------------
(***************************************************************************)
(* Theorems about IdentityBasis, for any processes, worktrees, versions    *)
(* and number of notes.                                                    *)
(*                                                                         *)
(* IInv is inductive.  The lock makes a number that was found free stay    *)
(* free until its file is created (NewIdIsFresh) and a note that is being  *)
(* filled unreadable (Filling).  Offers return their lines after the lock  *)
(* was released, in any order; that no two return the same number rests on *)
(* lastShown being an upper bound of all numbers shown or still to be      *)
(* returned, and on the latter being different (Bounded).                  *)
(***************************************************************************)
EXTENDS IdentityBasis, FiniteSetTheorems, WellFoundedInduction, TLAPS

Filling ==
  \A p \in Process :
    /\ pc[p] # "idle" => job[p] # None
    /\ pc[p] \in {"create", "open"} =>
         job[p].op \in {"note", "retract"} /\ target[p] \in Number
    /\ pc[p] = "open" /\ job[p].op = "note" => notes[target[p]] \notin Nat
    /\ pc[p] = "shown" => job[p].op = "offer" /\ target[p] \in Number

Bounded ==
  ~forgotten =>
    /\ lastShown # Damaged =>
         /\ \A n \in shown : n <= lastShown
         /\ \A p \in Process : pc[p] = "shown" => target[p] <= lastShown
    /\ \A p \in Process :
         pc[p] = "shown" =>
           /\ target[p] \notin shown
           /\ \A q \in Process : pc[q] = "shown" /\ target[q] = target[p] => q = p

IInv == TypeOK /\ Filling /\ NewIdIsFresh /\ Bounded

-----------------------------------------------------------------------------
(* The highest number of a bounded set *)

\* A finite set of naturals has a greatest element: the one with the fewest
\* elements above it.
LEMMA GreatestExists ==
  ASSUME NEW k \in Nat, NEW S, S \subseteq 0 .. k, S # {}
  PROVE  \E x \in S : \A y \in S : x >= y
<1> DEFINE above(x) == {y \in S : y >= x}
           F == FiniteSubsetsOf(S)
           T == {U \in F : \E x \in S : U = above(x)}
<1>1. IsFiniteSet(S)
  <2>1. IsFiniteSet(0 .. k)
    BY FS_Interval
  <2> QED
    BY <2>1, FS_Subset
<1>2. \A x \in S : above(x) \in T
  <2> TAKE x \in S
  <2>1. above(x) \in SUBSET S
    OBVIOUS
  <2>2. IsFiniteSet(above(x))
    BY <1>1, <2>1, FS_Subset
  <2> QED
    BY <2>1, <2>2 DEF FiniteSubsetsOf
<1>3. T # {} /\ T \subseteq F
  BY <1>2
<1>4. PICK U \in T : \A V \in T : <<V, U>> \notin StrictSubsetOrdering(S)
  BY <1>3, FS_StrictSubsetOrderingWellFounded, WFMin
<1>5. PICK x \in S : U = above(x)
  BY <1>4
<1>6. ASSUME NEW y \in S
      PROVE  x >= y
  <2> SUFFICES ASSUME ~(x >= y)
               PROVE  FALSE
    OBVIOUS
  <2>1. x \in Nat /\ y \in Nat /\ y > x
    OBVIOUS
  <2>2. above(y) \subseteq above(x) /\ x \in above(x) /\ x \notin above(y)
    <3>1. \A z \in S : z \in Nat
      OBVIOUS
    <3>2. \A z \in S : z >= y => z >= x
      BY <2>1, <3>1
    <3>3. above(y) \subseteq above(x)
      BY ONLY <3>2
    <3>4. x \in above(x) /\ x \notin above(y)
      BY ONLY x \in S, <2>1
    <3> QED
      BY ONLY <3>3, <3>4
  <2>3. <<above(y), above(x)>> \in StrictSubsetOrdering(S)
    BY <2>2 DEF StrictSubsetOrdering
  <2>4. above(y) \in T
    BY <1>2
  <2>5. <<above(y), U>> \in StrictSubsetOrdering(S)
    BY <1>5, <2>3
  <2> QED
    BY ONLY <1>4, <2>4, <2>5
<1> QED
  BY <1>6

LEMMA MaxOf ==
  ASSUME NEW k \in Nat, NEW S, S \subseteq 0 .. k, S # {}
  PROVE  Max(S) \in S /\ \A y \in S : Max(S) >= y
  BY GreatestExists DEF Max

\* No file, of a note or of a retraction, has a number above the highest.
LEMMA HighestIsBound ==
  /\ Highest \in 0 .. MaxNote
  /\ \A n \in Number :
       n > Highest => notes[n] = Absent /\ retractions[n] = Absent
<1> DEFINE S == {n \in Number : notes[n] # Absent \/ retractions[n] # Absent} \cup {0}
<1>1. MaxNote \in Nat
  BY BoundsAssumption
<1>2. S \subseteq 0 .. MaxNote /\ S # {}
  BY <1>1 DEF Number
<1>3. Max(S) \in S /\ \A y \in S : Max(S) >= y
  BY <1>1, <1>2, MaxOf
<1>4. Highest = Max(S)
  BY DEF Highest
<1> HIDE DEF S
<1>5. Highest \in 0 .. MaxNote
  BY <1>2, <1>3, <1>4
<1>6. ASSUME NEW n \in Number, n > Highest
      PROVE  n \notin S
  BY <1>1, <1>3, <1>4, <1>5, <1>6 DEF Number
<1> QED
  BY <1>5, <1>6 DEF S

LEMMA HighestPending ==
  ASSUME NEW v, Pending(v) # {}
  PROVE  Max(Pending(v)) \in Number /\ Max(Pending(v)) \in 0 .. MaxNote
<1>1. MaxNote \in Nat /\ Pending(v) \subseteq Number /\ Number \subseteq 0 .. MaxNote
  BY BoundsAssumption DEF Pending, Readable, Number
<1> QED
  BY <1>1, MaxOf

-----------------------------------------------------------------------------
(* Types, and what a process creates *)

LEMMA Jobs ==
  ASSUME NEW j \in Job
  PROVE  /\ j.op \in {"note", "retract", "offer"}
         /\ j.op \in {"note", "offer"} => j.version \in 0 .. MaxVersion
         /\ j.op = "retract" => j.note \in Number
  BY DEF Job

LEMMA Asked ==
  ASSUME TypeOK, NEW p \in Process
  PROVE  /\ [op |-> "note", version |-> identity[Of[p]].version] \in Job
         /\ [op |-> "offer", version |-> identity[Of[p]].version] \in Job
         /\ \A n \in Number : [op |-> "retract", note |-> n] \in Job
<1>1. identity[Of[p]] \in Identity
  BY OfAssumption DEF TypeOK
<1>2. identity[Of[p]].version \in 0 .. MaxVersion
  BY <1>1 DEF Identity
<1> QED
  BY <1>2 DEF Job

\* Who is between choosing a number and having its file holds the lock.
LEMMA Exclusion ==
  ASSUME TypeOK, NEW p \in Process, NEW q \in Process,
         pc[p] \in {"locked", "create", "open"}, pc[q] \in {"locked", "create", "open"}
  PROVE  p = q
  BY DEF TypeOK

\* What Put writes where, and that it leaves everything else.
LEMMA PutTypes ==
  ASSUME TypeOK, Filling, NEW p \in Process, pc[p] \in {"create", "open"},
         NEW whole \in BOOLEAN, Put(p, whole)
  PROVE  /\ notes' \in [Number -> 0 .. MaxVersion \cup {Absent, Damaged}]
         /\ retractions' \in [Number -> {"retracted", Absent, Damaged}]
         /\ lastShown' = lastShown
<1>1. job[p] \in Job /\ target[p] \in Number
  BY DEF TypeOK, Filling
<1>2. job[p].op = "note" => job[p].version \in 0 .. MaxVersion
  BY <1>1, Jobs
<1> QED
  BY <1>1, <1>2 DEF TypeOK, Put

LEMMA EndTypes ==
  ASSUME TypeOK, NEW p \in Process, End(p)
  PROVE  /\ lock' \in {None} \cup {q \in Process : job'[q] # None}
         /\ job' \in [Process -> Job \cup {None}]
         /\ pc' \in [Process -> {"idle", "asked", "locked", "create", "open", "shown"}]
         /\ target' \in [Process -> 0 .. MaxNote]
         /\ \A q \in Process : pc'[q] \in {"locked", "create", "open"} => lock' = q
         /\ pc'[p] = "idle"
         /\ \A q \in Process \ {p} :
              pc'[q] = pc[q] /\ job'[q] = job[q] /\ target'[q] = target[q]
<1>1. MaxNote \in Nat
  BY BoundsAssumption
<1>2. 0 \in 0 .. MaxNote
  BY <1>1
<1>3. /\ job' \in [Process -> Job \cup {None}]
      /\ target' \in [Process -> 0 .. MaxNote]
  BY <1>2 DEF TypeOK, End
<1>4. pc' \in [Process -> {"idle", "asked", "locked", "create", "open", "shown"}]
  BY DEF TypeOK, End, Goto
<1>5. /\ pc'[p] = "idle"
      /\ \A q \in Process \ {p} :
           pc'[q] = pc[q] /\ job'[q] = job[q] /\ target'[q] = target[q]
  BY DEF TypeOK, End, Goto
<1>6. lock' \in {None} \cup {q \in Process : job'[q] # None}
  BY <1>5, MarksAssumption DEF TypeOK, End
<1>7. \A q \in Process : pc'[q] \in {"locked", "create", "open"} => lock' = q
  BY <1>5, MarksAssumption DEF TypeOK, End
<1> QED
  BY <1>3, <1>4, <1>5, <1>6, <1>7

LEMMA TypeStep ==
  ASSUME TypeOK, Filling, [Next]_vars
  PROVE  TypeOK'
<1>0. MaxNote \in Nat /\ MaxChanges \in Nat /\ MaxEdits \in Nat
  BY BoundsAssumption
<1> USE DEF Goto, files, world
<1>1. ASSUME NEW p \in Process, AskNote(p) \/ AskOffer(p)
      PROVE  TypeOK'
  <2>1. PICK j \in Job : job' = [job EXCEPT ![p] = j]
    BY <1>1, Asked DEF AskNote, AskOffer
  <2>2. /\ pc' = [pc EXCEPT ![p] = "asked"]
        /\ UNCHANGED <<notes, retractions, lastShown, lock, target, shown, identity,
                       changes, edits, forgotten>>
    BY <1>1 DEF AskNote, AskOffer
  <2> QED
    BY <2>1, <2>2, NoneAssumption DEF TypeOK
<1>2. ASSUME NEW p \in Process, Take(p)
      PROVE  TypeOK'
  BY <1>2, MarksAssumption DEF TypeOK, Filling, Take
<1>3. ASSUME NEW p \in Process, ChooseNote(p)
      PROVE  TypeOK'
  <2>1. Highest + 1 \in 0 .. MaxNote
    BY <1>0, <1>3, HighestIsBound DEF ChooseNote
  <2> QED
    BY <1>3, <2>1 DEF TypeOK, ChooseNote
<1>4. ASSUME NEW p \in Process, ChooseRetraction(p)
      PROVE  TypeOK'
  BY <1>0, <1>4 DEF TypeOK, ChooseRetraction, Readable, Number
<1>5. ASSUME NEW p \in Process, Link(p)
      PROVE  TypeOK'
  BY <1>5, PutTypes, EndTypes DEF TypeOK, Link
<1>6. ASSUME NEW p \in Process, Open(p)
      PROVE  TypeOK'
  BY <1>6, PutTypes DEF TypeOK, Open
<1>7. ASSUME NEW p \in Process, Fill(p)
      PROVE  TypeOK'
  BY <1>7, PutTypes, EndTypes DEF TypeOK, Fill
<1>8. ASSUME NEW p \in Process, FillFails(p)
      PROVE  TypeOK'
  BY <1>8, EndTypes DEF TypeOK, FillFails, Remove
<1>9. ASSUME NEW p \in Process, Show(p)
      PROVE  TypeOK'
  <2>1. Max(Pending(job[p].version)) \in 0 .. MaxNote
    BY <1>9, HighestPending DEF Show
  <2> QED
    BY <1>9, <2>1, MarksAssumption DEF TypeOK, Show
<1>10. ASSUME NEW p \in Process, Return(p)
       PROVE  TypeOK'
  <2>1. target[p] \in Number
    BY <1>10 DEF Filling, Return
  <2> QED
    BY <1>10, <2>1, EndTypes DEF TypeOK, Return
<1>11. ASSUME NEW p \in Process, Stop(p)
       PROVE  TypeOK'
  BY <1>11, EndTypes DEF TypeOK, Stop
<1>12. CASE IdentityChanges
  BY <1>0, <1>12 DEF TypeOK, IdentityChanges
<1>13. CASE Edit
  <2>1. /\ notes' \in [Number -> 0 .. MaxVersion \cup {Absent, Damaged}]
        /\ retractions' \in [Number -> {"retracted", Absent, Damaged}]
    BY <1>13 DEF TypeOK, Edit
  <2>2. 0 \in 0 .. MaxNote
    BY <1>0
  <2>3. lastShown' \in 0 .. MaxNote \cup {Damaged} /\ forgotten' \in BOOLEAN
    BY <1>13, <2>2 DEF TypeOK, Edit
  <2>4. edits' \in 0 .. MaxEdits
    BY <1>0, <1>13 DEF TypeOK, Edit
  <2>5. UNCHANGED <<lock, job, pc, target, shown, identity, changes>>
    BY <1>13 DEF Edit
  <2> QED
    BY <2>1, <2>3, <2>4, <2>5 DEF TypeOK
<1>14. CASE UNCHANGED vars
  BY <1>14 DEF TypeOK, vars
<1> QED
  BY <1>1, <1>2, <1>3, <1>4, <1>5, <1>6, <1>7, <1>8, <1>9, <1>10, <1>11,
     <1>12, <1>13, <1>14 DEF Next

-----------------------------------------------------------------------------
(* What a process is about to create or to return *)

\* A step that ends p, and leaves the files of the others' numbers alone,
\* keeps Filling and NewIdIsFresh.
LEMMA EndStep ==
  ASSUME TypeOK, Filling, NewIdIsFresh, NEW p \in Process, End(p),
         \/ UNCHANGED <<notes, retractions>>
         \/ pc[p] \in {"create", "open"}
  PROVE  Filling' /\ NewIdIsFresh'
<1>1. /\ pc'[p] = "idle"
      /\ \A q \in Process \ {p} :
           pc'[q] = pc[q] /\ job'[q] = job[q] /\ target'[q] = target[q]
  BY EndTypes
<1>2. CASE UNCHANGED <<notes, retractions>>
  <2>1. Filling'
    BY <1>1, <1>2 DEF Filling
  <2>2. NewIdIsFresh'
    BY <1>1, <1>2 DEF NewIdIsFresh
  <2> QED
    BY <2>1, <2>2
<1>3. CASE pc[p] \in {"create", "open"}
  <2>1. \A q \in Process : pc'[q] \notin {"create", "open"}
    BY <1>1, <1>3, Exclusion
  <2>2. Filling'
    BY <1>1, <2>1 DEF Filling
  <2>3. NewIdIsFresh'
    BY <2>1 DEF NewIdIsFresh
  <2> QED
    BY <2>2, <2>3
<1> QED
  BY <1>2, <1>3

LEMMA FillingStep ==
  ASSUME TypeOK, Filling, NewIdIsFresh, [Next]_vars
  PROVE  Filling' /\ NewIdIsFresh'
<1> USE DEF Goto, files, world
<1>1. ASSUME NEW p \in Process, AskNote(p) \/ AskOffer(p)
      PROVE  Filling' /\ NewIdIsFresh'
  <2>1. PICK j \in Job : job' = [job EXCEPT ![p] = j]
    BY <1>1, Asked DEF AskNote, AskOffer
  <2>2. /\ pc' = [pc EXCEPT ![p] = "asked"]
        /\ UNCHANGED <<notes, retractions, target>>
    BY <1>1 DEF AskNote, AskOffer
  <2>3. /\ job'[p] # None /\ pc'[p] = "asked"
        /\ \A q \in Process \ {p} : job'[q] = job[q] /\ pc'[q] = pc[q]
    BY <2>1, <2>2, NoneAssumption DEF TypeOK
  <2>4. Filling'
    BY <2>2, <2>3 DEF Filling
  <2>5. NewIdIsFresh'
    BY <2>2, <2>3 DEF NewIdIsFresh
  <2> QED
    BY <2>4, <2>5
<1>2. ASSUME NEW p \in Process, Take(p)
      PROVE  Filling' /\ NewIdIsFresh'
  <2>1. Filling'
    BY <1>2 DEF TypeOK, Filling, Take
  <2>2. NewIdIsFresh'
    BY <1>2 DEF TypeOK, NewIdIsFresh, Take
  <2> QED
    BY <2>1, <2>2
<1>3. ASSUME NEW p \in Process, ChooseNote(p)
      PROVE  Filling' /\ NewIdIsFresh'
  <2> DEFINE n == Highest + 1
  <2>1. n \in Number /\ notes[n] = Absent /\ retractions[n] = Absent
    BY <1>3, HighestIsBound, BoundsAssumption DEF ChooseNote, Number
  <2> HIDE DEF n
  <2>2. /\ target' = [target EXCEPT ![p] = n] /\ pc' = [pc EXCEPT ![p] = "create"]
        /\ job[p].op = "note" /\ pc[p] = "locked"
        /\ UNCHANGED <<notes, retractions, job>>
    BY <1>3 DEF ChooseNote, n
  <2>3. /\ target'[p] = n /\ pc'[p] = "create"
        /\ \A q \in Process \ {p} : target'[q] = target[q] /\ pc'[q] = pc[q]
    BY <2>2 DEF TypeOK
  <2>4. Filling'
    BY <2>1, <2>2, <2>3 DEF Filling
  <2>5. NewIdIsFresh'
    BY <2>1, <2>2, <2>3 DEF NewIdIsFresh
  <2> QED
    BY <2>4, <2>5
<1>4. ASSUME NEW p \in Process, ChooseRetraction(p)
      PROVE  Filling' /\ NewIdIsFresh'
  <2>1. /\ target'[p] \in Number /\ pc'[p] = "create" /\ job[p].op = "retract"
        /\ pc[p] = "locked" /\ UNCHANGED <<notes, retractions, job>>
        /\ \A q \in Process \ {p} : target'[q] = target[q] /\ pc'[q] = pc[q]
    BY <1>4 DEF TypeOK, ChooseRetraction, Readable
  <2>2. Filling'
    BY <2>1 DEF Filling
  <2>3. NewIdIsFresh'
    BY <2>1 DEF NewIdIsFresh
  <2> QED
    BY <2>2, <2>3
<1>5. ASSUME NEW p \in Process, Link(p) \/ Fill(p) \/ FillFails(p)
      PROVE  Filling' /\ NewIdIsFresh'
  BY <1>5, EndStep DEF Link, Fill, FillFails
<1>6. ASSUME NEW p \in Process, Open(p)
      PROVE  Filling' /\ NewIdIsFresh'
  <2>1. /\ pc[p] = "create" /\ pc'[p] = "open" /\ UNCHANGED <<job, target>>
        /\ \A q \in Process \ {p} : pc'[q] = pc[q]
    BY <1>6 DEF TypeOK, Open
  <2>2. \A q \in Process \ {p} : pc'[q] \notin {"create", "open"}
    BY <2>1, Exclusion
  <2>3. job[p].op = "note" => notes'[target[p]] = Damaged
    BY <1>6, <2>1 DEF TypeOK, Filling, Open, Put
  <2>4. Filling'
    BY <2>1, <2>2, <2>3, MarksAssumption DEF Filling
  <2>5. NewIdIsFresh'
    BY <2>1, <2>2 DEF NewIdIsFresh
  <2> QED
    BY <2>4, <2>5
<1>7. ASSUME NEW p \in Process, Show(p)
      PROVE  Filling' /\ NewIdIsFresh'
  <2>1. Max(Pending(job[p].version)) \in Number
    BY <1>7, HighestPending DEF Show
  <2>2. /\ target'[p] \in Number /\ pc'[p] = "shown" /\ job[p].op = "offer"
        /\ pc[p] = "locked" /\ UNCHANGED <<notes, retractions, job>>
        /\ \A q \in Process \ {p} : target'[q] = target[q] /\ pc'[q] = pc[q]
    BY <1>7, <2>1 DEF TypeOK, Show
  <2>3. Filling'
    BY <2>2 DEF Filling
  <2>4. NewIdIsFresh'
    BY <2>2 DEF NewIdIsFresh
  <2> QED
    BY <2>3, <2>4
<1>8. ASSUME NEW p \in Process, Return(p) \/ Stop(p)
      PROVE  Filling' /\ NewIdIsFresh'
  BY <1>8, EndStep DEF Return, Stop
<1>9. CASE IdentityChanges
  <2>1. UNCHANGED <<notes, retractions, job, pc, target>>
    BY <1>9 DEF IdentityChanges
  <2> QED
    BY <2>1 DEF Filling, NewIdIsFresh
<1>10. CASE Edit
  <2>1. UNCHANGED <<job, pc, target>>
    BY <1>10 DEF Edit
  <2>2. \A n \in Number : notes'[n] # notes[n] => notes[n] # Absent /\ notes'[n] \notin Nat
    BY <1>10, MarksAssumption DEF TypeOK, Edit
  <2>3. \A n \in Number : retractions'[n] # retractions[n] => retractions[n] # Absent
    BY <1>10 DEF TypeOK, Edit
  <2>4. Filling'
    BY <2>1, <2>2 DEF Filling
  <2>5. NewIdIsFresh'
    BY <2>1, <2>2, <2>3 DEF Filling, NewIdIsFresh
  <2> QED
    BY <2>4, <2>5
<1>11. CASE UNCHANGED vars
  BY <1>11 DEF Filling, NewIdIsFresh, vars
<1> QED
  BY <1>1, <1>2, <1>3, <1>4, <1>5, <1>6, <1>7, <1>8, <1>9, <1>10, <1>11 DEF Next

-----------------------------------------------------------------------------
(* The numbers of offers *)

LEMMA BoundedStep ==
  ASSUME TypeOK, Filling, Bounded, [Next]_vars
  PROVE  Bounded'
<1> USE DEF Goto, files, world
<1>1. ASSUME \A q \in Process :
               pc'[q] = "shown" => pc[q] = "shown" /\ target'[q] = target[q],
             UNCHANGED <<lastShown, shown, forgotten>>
      PROVE  Bounded'
  BY <1>1 DEF Bounded
<1>2. ASSUME NEW p \in Process, AskNote(p) \/ AskOffer(p) \/ Take(p) \/ Open(p)
      PROVE  Bounded'
  <2>1. /\ \E s \in {"asked", "locked", "open"} : pc' = [pc EXCEPT ![p] = s]
        /\ UNCHANGED <<lastShown, target, shown, forgotten>>
    BY <1>2 DEF AskNote, AskOffer, Take, Open, Put
  <2> QED
    BY <1>1, <2>1 DEF TypeOK
<1>3. ASSUME NEW p \in Process, ChooseNote(p) \/ ChooseRetraction(p)
      PROVE  Bounded'
  <2>1. /\ pc' = [pc EXCEPT ![p] = "create"]
        /\ \E n : target' = [target EXCEPT ![p] = n]
        /\ UNCHANGED <<lastShown, shown, forgotten>>
    BY <1>3 DEF ChooseNote, ChooseRetraction
  <2> QED
    BY <1>1, <2>1 DEF TypeOK
<1>4. ASSUME NEW p \in Process, Link(p) \/ Fill(p) \/ FillFails(p) \/ Stop(p)
      PROVE  Bounded'
  <2>1. End(p) /\ UNCHANGED <<lastShown, shown, forgotten>>
    BY <1>4 DEF Link, Fill, FillFails, Stop, Put, Remove
  <2> QED
    BY <1>1, <2>1, EndTypes
<1>5. ASSUME NEW p \in Process, Show(p)
      PROVE  Bounded'
  <2> DEFINE n == Max(Pending(job[p].version))
  <2>1. n \in Number
    BY <1>5, HighestPending DEF Show
  <2>2. /\ lastShown # Damaged /\ n > lastShown /\ lastShown' = n
        /\ target' = [target EXCEPT ![p] = n] /\ pc' = [pc EXCEPT ![p] = "shown"]
        /\ pc[p] = "locked" /\ UNCHANGED <<shown, forgotten>>
    BY <1>5 DEF Show
  <2> HIDE DEF n
  <2>3. /\ target'[p] = n
        /\ \A q \in Process \ {p} : target'[q] = target[q] /\ pc'[q] = pc[q]
    BY <2>2 DEF TypeOK
  <2>4. SUFFICES ASSUME ~forgotten
                 PROVE  Bounded'
    BY <2>2 DEF Bounded
  <2>5. /\ \A m \in shown : m < n /\ m \in Nat
        /\ \A q \in Process \ {p} : pc'[q] = "shown" => target'[q] < n
    <3>1. n \in Nat /\ lastShown \in Nat
      BY <2>1, <2>2 DEF TypeOK, Number
    <3>2. \A m \in shown : m <= lastShown /\ m \in Nat
      BY <2>2, <2>4 DEF TypeOK, Bounded, Number
    <3>3. \A q \in Process : target[q] \in Nat
      BY DEF TypeOK
    <3>4. \A q \in Process \ {p} : pc'[q] = "shown" => target'[q] <= lastShown
      BY <2>2, <2>3, <2>4 DEF Bounded
    <3> QED
      BY <2>2, <2>3, <3>1, <3>2, <3>3, <3>4
  <2>6. n \in Nat /\ n <= n /\ \A m : m < n => m # n
    BY <2>1 DEF Number
  <2>7. \A q \in Process : target'[q] \in Nat
    BY <2>1, <2>3 DEF TypeOK, Number
  <2>8. /\ \A m \in shown : m <= n
        /\ \A q \in Process : pc'[q] = "shown" => target'[q] <= n
    BY <2>3, <2>5, <2>6, <2>7
  <2>9. \A q \in Process : pc'[q] = "shown" => target'[q] \notin shown
    BY <2>2, <2>3, <2>4, <2>5, <2>6 DEF Bounded
  <2>10. \A q, r \in Process :
           pc'[q] = "shown" /\ pc'[r] = "shown" /\ target'[r] = target'[q] => r = q
    BY <2>2, <2>3, <2>4, <2>5, <2>6 DEF Bounded
  <2> QED
    BY <2>2, <2>8, <2>9, <2>10 DEF Bounded
<1>6. ASSUME NEW p \in Process, Return(p)
      PROVE  Bounded'
  <2>1. /\ pc[p] = "shown" /\ shown' = shown \cup {target[p]} /\ End(p)
        /\ UNCHANGED <<lastShown, forgotten>>
    BY <1>6 DEF Return
  <2>2. \A q \in Process : pc'[q] = "shown" =>
          pc[q] = "shown" /\ q # p /\ target'[q] = target[q]
    BY <2>1, EndTypes
  <2> QED
    BY <2>1, <2>2 DEF Bounded
<1>7. CASE IdentityChanges
  BY <1>7 DEF Bounded, IdentityChanges
<1>8. CASE Edit
  <2>1. UNCHANGED <<pc, target, shown>>
    BY <1>8 DEF Edit
  <2>2. ~forgotten' => ~forgotten /\ lastShown' \in {lastShown, Damaged}
    BY <1>8 DEF Edit
  <2> QED
    BY <2>1, <2>2 DEF Bounded
<1>9. CASE UNCHANGED vars
  BY <1>9 DEF Bounded, vars
<1> QED
  BY <1>2, <1>3, <1>4, <1>5, <1>6, <1>7, <1>8, <1>9 DEF Next

-----------------------------------------------------------------------------

LEMMA Initially == Init => IInv
<1> SUFFICES ASSUME Init
             PROVE  IInv
  OBVIOUS
<1>0. {MaxNote, MaxVersion, MaxChanges, MaxEdits} \subseteq Nat
  BY BoundsAssumption
<1>1. 0 \in 0 .. MaxNote /\ 0 \in 0 .. MaxChanges /\ 0 \in 0 .. MaxEdits
  BY <1>0
<1>2. [version |-> 0, settled |-> TRUE] \in Identity
  BY <1>0 DEF Identity
<1>3. TypeOK
  BY <1>1, <1>2 DEF Init, TypeOK
<1>4. Filling /\ NewIdIsFresh /\ Bounded
  BY DEF Init, Filling, NewIdIsFresh, Bounded
<1> QED
  BY <1>3, <1>4 DEF IInv

LEMMA IInvHolds == Spec => []IInv
<1>1. IInv /\ [Next]_vars => IInv'
  BY TypeStep, FillingStep, BoundedStep DEF IInv
<1> QED
  BY <1>1, Initially, PTL DEF Spec

\* Types, and who holds the lock.
THEOREM TypeCorrect == Spec => []TypeOK
  BY IInvHolds, PTL DEF IInv

\* _next_note_id returns an id no file has, and until the file is created no
\* other command makes one with it.
THEOREM FreshIds == Spec => []NewIdIsFresh
  BY IInvHolds, PTL DEF IInv

\* No two lines are returned for one note, whatever the number of sessions,
\* worktrees, notes, crashes and edits.
THEOREM OfferedOnce == Spec => OfferedAtMostOnce
<1> DEFINE A == \A p \in Process :
                  pc[p] = "shown" /\ shown' # shown =>
                    forgotten \/ target[p] \notin shown
<1>1. IInv => A
  BY DEF IInv, Bounded
<1> QED
  BY <1>1, IInvHolds, PTL DEF OfferedAtMostOnce

\* A note that is not pending for a version stays so, whatever the commands do
\* and wherever they are killed; only an edit by hand, or removing a retraction
\* that could not be written, brings it back.
THEOREM WithdrawnForGood == Spec => WithdrawnStaysWithdrawn
<1> DEFINE A == \A n \in Readable, v \in 0 .. MaxVersion :
                  /\ n \notin Pending(v) /\ edits' = edits
                  /\ ~ \E p \in Process : FillFails(p) /\ target[p] = n
                  => n \notin Pending(v)'
<1>1. IInv /\ [Next]_vars => A
  <2> SUFFICES ASSUME IInv, [Next]_vars, edits' = edits,
                      NEW n \in Readable, NEW v \in 0 .. MaxVersion, n \notin Pending(v),
                      ~ \E p \in Process : FillFails(p) /\ target[p] = n
               PROVE  n \notin Pending(v)'
    OBVIOUS
  <2>1. n \in Number /\ notes[n] \in Nat
    BY DEF Readable
  <2>2. SUFFICES /\ notes'[n] = notes[n]
                 /\ retractions[n] # Absent => retractions'[n] # Absent
    BY <2>1 DEF Pending, Readable
  <2>3. CASE UNCHANGED <<notes, retractions>>
    BY <2>3
  <2>4. ASSUME NEW p \in Process, Link(p) \/ Open(p) \/ Fill(p)
        PROVE  /\ notes'[n] = notes[n]
               /\ retractions[n] # Absent => retractions'[n] # Absent
    <3>1. PICK whole \in BOOLEAN : Put(p, whole)
      BY <2>4 DEF Link, Open, Fill
    <3>2. job[p].op = "note" => target[p] # n
      BY <2>1, <2>4, MarksAssumption
         DEF IInv, Filling, NewIdIsFresh, Link, Open, Fill
    <3> QED
      BY <2>1, <3>1, <3>2, MarksAssumption DEF IInv, TypeOK, Put
  <2>5. ASSUME NEW p \in Process, FillFails(p)
        PROVE  /\ notes'[n] = notes[n]
               /\ retractions[n] # Absent => retractions'[n] # Absent
    <3>1. target[p] # n
      BY <2>5
    <3> QED
      BY <2>1, <2>5, <3>1 DEF IInv, TypeOK, FillFails, Remove
  <2>6. CASE Edit
    BY <2>6 DEF IInv, TypeOK, Edit
  <2> QED
    BY <2>3, <2>4, <2>5, <2>6
       DEF Next, vars, files, AskNote, AskOffer, Take, ChooseNote,
           ChooseRetraction, Show, Return, Stop, IdentityChanges
<1> QED
  BY <1>1, IInvHolds, PTL DEF Spec, WithdrawnStaysWithdrawn
=============================================================================
