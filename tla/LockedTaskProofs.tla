-------------------------- MODULE LockedTaskProofs --------------------------
(***************************************************************************)
(* Theorems about LockedTask, for any number of processes and any commands.*)
(*                                                                         *)
(* TypeOK /\ LockInv is inductive: the lock is what makes a process's view *)
(* of the ledger current when it replaces it.  Everything else follows     *)
(* from it one step at a time; liveness is left to TLC.                    *)
(***************************************************************************)
EXTENDS LockedTask, SequenceTheorems, TLAPS

\* What is proved of the task as one atomic ledger, said of the file; nobody
\* reads pages here.
Facts == INSTANCE TaskLedgerProofs WITH ledger <- file, pass <- None

\* The instance has its own copy of the ledger's operators; they are the same
\* operators, and what it assumes holds.
LEMMA SameTypes ==
  /\ Facts!LedgerType = LedgerType
  /\ Facts!Command = Command
  /\ Facts!NewRecord = NewRecord
  /\ Facts!TaskRecord = TaskRecord
BY Zenon
   DEF Facts!LedgerType, LedgerType, Facts!Command, Command, Facts!NewRecord, NewRecord,
       Facts!TaskRecord, TaskRecord, Facts!Source, Source, Facts!Artifact, Artifact,
       Facts!Result, Result, Facts!Requirement, Requirement, Facts!Handoff, Handoff,
       Facts!Observation, Observation, Facts!Judgment, Judgment, Facts!Outcome, Outcome

LEMMA SameCommands ==
  ASSUME NEW s, NEW c
  PROVE  /\ Facts!After(s, c) = After(s, c)
         /\ Facts!Stamped(s, c) = Stamped(s, c)
BY Zenon
   DEF Facts!After, After, Facts!Stamped, Stamped, Facts!Updated, Updated,
       Facts!Registered, Registered, Facts!Observed, Observed, Facts!Judged, Judged,
       Facts!ArtifactRegistered, ArtifactRegistered,
       Facts!VerificationRecorded, VerificationRecorded, Facts!Closed, Closed

LEMMA SameExtension ==
  ASSUME NEW s, NEW t
  PROVE  /\ Facts!Extends(s, t) <=> Extends(s, t)
         /\ Facts!ObjectIds(s) = ObjectIds(s)
BY Zenon
   DEF Facts!Extends, Extends, Facts!Lists, Lists, Facts!IsPrefix, IsPrefix,
       Facts!ObjectIds, ObjectIds, Facts!IdsOf, IdsOf

LEMMA SameCapacity ==
  /\ Commands \subseteq Facts!Command
  /\ \A work \in Work : Facts!WithinCapacity(Facts!BlankLedger(work))
<1>1. \A s : Facts!WithinCapacity(s) <=> WithinCapacity(s)
  BY Zenon
     DEF Facts!WithinCapacity, WithinCapacity, Facts!Size, Size, Facts!Digits, Digits,
         Facts!IsPowerOfRadix, IsPowerOfRadix, Facts!Cardinality, Cardinality
<1>2. \A work : Facts!BlankLedger(work) = BlankLedger(work)
  BY DEF Facts!BlankLedger, BlankLedger
<1> QED
  BY <1>1, <1>2, SameTypes, CapacityAssumption, CommandsAssumption

LEMMA StampedRecords ==
  ASSUME NEW s \in LedgerType, NEW records \in Seq(NewRecord)
  PROVE  [i \in DOMAIN records |-> Stamped(s, records[i])] \in Seq(TaskRecord)
BY BoundsAssumption, NoneAssumption, SameCapacity,
   Facts!StampedRecords, SameTypes, SameCommands DEF Facts!StampedRecords

LEMMA LedgerFields ==
  ASSUME NEW s \in LedgerType
  PROVE  /\ s.revision \in Nat \ {0} /\ s.revision + 1 \in Nat \ {0}
         /\ s.work \in Work
         /\ s.evidence_refs \in Seq(Source)
         /\ s.records \in Seq(TaskRecord)
         /\ s.artifact_refs \in Seq(Artifact)
         /\ s.verification_results \in Seq(Result)
         /\ s.requirements \in Seq(Requirement)
         /\ s.handoffs \in Seq(Handoff)
         /\ s.observations \in Seq(Observation)
         /\ s.judgments \in Seq(Judgment)
BY DEF LedgerType

LEMMA AfterLedger ==
  ASSUME NEW s \in LedgerType, NEW c \in Command
  PROVE  /\ After(s, c) \in LedgerType
         /\ After(s, c).revision = s.revision + 1
         /\ Extends(s, After(s, c))
BY BoundsAssumption, NoneAssumption, SameCapacity,
   Facts!AfterLedger, SameTypes, SameCommands, SameExtension DEF Facts!AfterLedger

LEMMA ExtendsReflexive ==
  ASSUME NEW s \in LedgerType
  PROVE  Extends(s, s)
BY BoundsAssumption, NoneAssumption, SameCapacity,
   Facts!ExtendsReflexive, SameTypes, SameExtension DEF Facts!ExtendsReflexive, Facts!Extends

LEMMA ExtendsTransitive ==
  ASSUME NEW r \in LedgerType, NEW s \in LedgerType, NEW t \in LedgerType,
         Extends(r, s), Extends(s, t)
  PROVE  Extends(r, t)
BY BoundsAssumption, NoneAssumption, SameCapacity,
   Facts!ExtendsTransitive, SameTypes, SameExtension DEF Facts!ExtendsTransitive

LEMMA ExtendsKeepsIds ==
  ASSUME NEW s \in LedgerType, NEW t \in LedgerType, Extends(s, t)
  PROVE  ObjectIds(s) \subseteq ObjectIds(t)
BY BoundsAssumption, NoneAssumption, SameCapacity,
   Facts!ExtendsKeepsIds, SameTypes, SameExtension DEF Facts!ExtendsKeepsIds

LEMMA BlankIsLedger ==
  ASSUME NEW work \in Work
  PROVE  BlankLedger(work) \in LedgerType
BY DEF BlankLedger, LedgerType

LEMMA InitInv == Init => TypeOK /\ LockInv
<1> SUFFICES ASSUME Init
             PROVE  TypeOK /\ LockInv
  OBVIOUS
<1>1. TypeOK
  <2>1. file \in LedgerType
    BY BlankIsLedger DEF Init
  <2> QED
    BY <2>1 DEF Init, TypeOK, JobType, NoJob
<1>2. LockInv
  BY ProcessAssumption DEF Init, LockInv, HolderKnows, Holding
<1> QED
  BY <1>1, <1>2

LEMMA IdsAreIds ==
  ASSUME NEW S, \A x \in S : x.id \in Id, NEW list \in Seq(S)
  PROVE  IdsOf(list) \subseteq Id
<1>1. \A i \in DOMAIN list : list[i] \in S
  OBVIOUS
<1> QED
  BY <1>1 DEF IdsOf

\* The ids a command adds are ids.
LEMMA AddedAreIds ==
  ASSUME NEW c \in Command
  PROVE  AddedIds(c) \subseteq Id
<1>1. /\ \A list \in Seq(Source) : IdsOf(list) \subseteq Id
      /\ \A list \in Seq(NewRecord) : IdsOf(list) \subseteq Id
      /\ \A list \in Seq(Requirement) : IdsOf(list) \subseteq Id
      /\ \A list \in Seq(Handoff) : IdsOf(list) \subseteq Id
      /\ \A list \in Seq(Observation) : IdsOf(list) \subseteq Id
      /\ \A list \in Seq(Judgment) : IdsOf(list) \subseteq Id
  <2>1. /\ \A x \in Source : x.id \in Id
        /\ \A x \in NewRecord : x.id \in Id
        /\ \A x \in Requirement : x.id \in Id
        /\ \A x \in Handoff : x.id \in Id
        /\ \A x \in Observation : x.id \in Id
        /\ \A x \in Judgment : x.id \in Id
    BY DEF Source, NewRecord, Requirement, Handoff, Observation, Judgment
  <2> QED
    BY <2>1, IdsAreIds
<1>2. CASE c.op = "update"
  <2>1. c.evidence_refs \in Seq(Source) /\ c.records \in Seq(NewRecord)
    BY <1>2 DEF Command
  <2>2. AddedIds(c) = IdsOf(c.evidence_refs) \cup IdsOf(c.records)
    BY <1>2 DEF AddedIds
  <2> QED
    BY <1>1, <2>1, <2>2
<1>3. CASE c.op = "register"
  <2>1. c.requirements \in Seq(Requirement) /\ c.handoffs \in Seq(Handoff)
    BY <1>3 DEF Command
  <2>2. AddedIds(c) = IdsOf(c.requirements) \cup IdsOf(c.handoffs)
    BY <1>3 DEF AddedIds
  <2> QED
    BY <1>1, <2>1, <2>2
<1>4. CASE c.op = "observe"
  <2>1. c.evidence_refs \in Seq(Source) /\ c.observations \in Seq(Observation)
    BY <1>4 DEF Command
  <2>2. AddedIds(c) = IdsOf(c.evidence_refs) \cup IdsOf(c.observations)
    BY <1>4 DEF AddedIds
  <2> QED
    BY <1>1, <2>1, <2>2
<1>5. CASE c.op = "judge"
  <2>1. c.judgments \in Seq(Judgment)
    BY <1>5 DEF Command
  <2>2. AddedIds(c) = IdsOf(c.judgments)
    BY <1>5 DEF AddedIds
  <2> QED
    BY <1>1, <2>1, <2>2
<1>6. CASE c.op = "artifact"
  <2>1. AddedIds(c) = {c.artifact.id}
    BY <1>6 DEF AddedIds
  <2> QED
    BY <1>6, <2>1 DEF Command, Artifact
<1>7. CASE c.op = "verify"
  <2>1. AddedIds(c) = {c.result.id}
    BY <1>7 DEF AddedIds
  <2> QED
    BY <1>7, <2>1 DEF Command, Result
<1>8. CASE c.op = "close"
  BY <1>8 DEF AddedIds
<1> QED
  BY <1>2, <1>3, <1>4, <1>5, <1>6, <1>7, <1>8 DEF Command

-----------------------------------------------------------------------------

\* Leaving the critical section keeps types, whichever way it is left.
LEMMA LeaveTypes ==
  ASSUME TypeOK, NEW p \in Process, Leave(p)
  PROVE  /\ holder' \in Process \cup {None}
         /\ pc' \in [Process -> {"idle", "waiting"} \cup Holding]
         /\ job' \in [Process -> JobType]
         /\ view' \in [Process -> LedgerType \cup {None}]
         /\ staged' \in [Process -> LedgerType \cup {None}]
BY DEF TypeOK, Leave, NoJob, JobType

LEMMA NextTypes == TypeOK /\ LockInv /\ [Next]_vars => TypeOK'
<1> SUFFICES ASSUME TypeOK, LockInv, [Next]_vars
             PROVE  TypeOK'
  OBVIOUS
<1>1. ASSUME NEW p \in Process, Read(p)
      PROVE  TypeOK'
  BY <1>1, LedgerFields DEF Read, TypeOK
<1>2. ASSUME NEW p \in Process, NEW c \in CommandsOf[p], Submit(p, c)
      PROVE  TypeOK'
  <2>1. c \in Commands
    BY CommandsAssumption
  <2>2. [cmd |-> c, base |-> IF Unconditional(c) THEN None ELSE told[p]] \in JobType
    BY <2>1 DEF TypeOK, JobType
  <2> QED
    BY <1>2, <2>2 DEF Submit, TypeOK
<1>3. ASSUME NEW p \in Process, Acquire(p)
      PROVE  TypeOK'
  BY <1>3 DEF Acquire, TypeOK, Holding
<1>4. ASSUME NEW p \in Process, Load(p)
      PROVE  TypeOK'
  BY <1>4 DEF Load, TypeOK, Holding
<1>5. ASSUME NEW p \in Process, Refuse(p)
      PROVE  TypeOK'
  <2>1. view[p] = file
    BY <1>5 DEF Refuse, LockInv, HolderKnows
  <2>2. told' \in [Process -> Nat \cup {None}]
    BY <1>5, <2>1, LedgerFields DEF Refuse, TypeOK
  <2> QED
    BY <1>5, <2>2, LeaveTypes DEF Refuse, TypeOK
<1>6. ASSUME NEW p \in Process, Stage(p)
      PROVE  TypeOK'
  <2>1. view[p] \in LedgerType /\ job[p].cmd \in Command
    BY <1>6, CommandsAssumption DEF Stage, LockInv, HolderKnows, TypeOK, Holding
  <2>2. After(view[p], job[p].cmd) \in LedgerType
    BY <2>1, AfterLedger
  <2> QED
    BY <1>6, <2>2 DEF Stage, TypeOK, Holding
<1>7. ASSUME NEW p \in Process, Replace(p)
      PROVE  TypeOK'
  <2>1. view[p] \in LedgerType /\ job[p].cmd \in Command
    BY <1>7, CommandsAssumption DEF Replace, LockInv, HolderKnows, Holding
  <2>2. staged[p] \in LedgerType
    BY <1>7, <2>1, AfterLedger DEF Replace, LockInv, HolderKnows
  <2> QED
    BY <1>7, <2>2 DEF Replace, TypeOK, Holding
<1>8. ASSUME NEW p \in Process, Acknowledge(p)
      PROVE  TypeOK'
  <2>1. staged[p] = file
    BY <1>8 DEF Acknowledge, LockInv, HolderKnows
  <2>2. told' \in [Process -> Nat \cup {None}]
    BY <1>8, <2>1, LedgerFields DEF Acknowledge, TypeOK
  <2>3. seen' \in [Process -> LedgerType \cup {None}]
    BY <1>8, <2>1 DEF Acknowledge, TypeOK
  <2>4. AddedIds(job[p].cmd) \subseteq Id
    BY <1>8, CommandsAssumption, AddedAreIds
       DEF Acknowledge, LockInv, HolderKnows, Holding
  <2> QED
    BY <1>8, <2>2, <2>3, <2>4, LeaveTypes DEF Acknowledge, TypeOK
<1>9. ASSUME NEW p \in Process, Fail(p)
      PROVE  TypeOK'
  BY <1>9, LeaveTypes DEF Fail, TypeOK
<1>10. ASSUME NEW p \in Process, Crash(p)
       PROVE  TypeOK'
  BY <1>10 DEF Crash, TypeOK, NoJob, JobType
<1>11. CASE UNCHANGED vars
  BY <1>11 DEF vars, TypeOK
<1> QED
  BY <1>1, <1>2, <1>3, <1>4, <1>5, <1>6, <1>7, <1>8, <1>9, <1>10, <1>11
     DEF Next, Step

-----------------------------------------------------------------------------

\* A process that is not in the critical section is not disturbed by what
\* another one does there.
LEMMA OthersUnmoved ==
  ASSUME LockInv, NEW p \in Process, NEW q \in Process, q # p,
         \/ holder = p /\ holder' \in {p, None}
         \/ holder = None /\ holder' = p,
         pc'[q] = pc[q], job'[q] = job[q]
  PROVE  HolderKnows(q)'
<1>1. holder # q /\ holder' # q
  BY ProcessAssumption
<1>2. pc[q] \notin Holding
  BY <1>1 DEF LockInv, HolderKnows
<1> QED
  BY <1>1, <1>2 DEF LockInv, HolderKnows, Holding

LEMMA NextLockInv == TypeOK /\ LockInv /\ [Next]_vars => LockInv'
<1> SUFFICES ASSUME TypeOK, LockInv, [Next]_vars
             PROVE  LockInv'
  OBVIOUS
<1>0. /\ pc \in [Process -> {"idle", "waiting"} \cup Holding]
      /\ job \in [Process -> JobType]
      /\ view \in [Process -> LedgerType \cup {None}]
      /\ staged \in [Process -> LedgerType \cup {None}]
      /\ file \in LedgerType
  BY DEF TypeOK
<1>1. ASSUME NEW p \in Process, Read(p)
      PROVE  LockInv'
  BY <1>1 DEF Read, LockInv, HolderKnows
<1>2. ASSUME NEW p \in Process, NEW c \in CommandsOf[p], Submit(p, c)
      PROVE  LockInv'
  <2>1. c \in Commands
    BY CommandsAssumption
  <2>2. HolderKnows(p)'
    BY <1>0, <1>2, <2>1 DEF Submit, LockInv, HolderKnows, Holding
  <2>3. \A q \in Process \ {p} : HolderKnows(q)'
    BY <1>0, <1>2 DEF Submit, LockInv, HolderKnows
  <2> QED
    BY <2>2, <2>3 DEF LockInv
<1>3. ASSUME NEW p \in Process, Acquire(p)
      PROVE  LockInv'
  <2>1. HolderKnows(p)'
    BY <1>0, <1>3 DEF Acquire, LockInv, HolderKnows, Holding
  <2>2. \A q \in Process \ {p} : HolderKnows(q)'
    BY <1>0, <1>3, OthersUnmoved DEF Acquire
  <2> QED
    BY <2>1, <2>2 DEF LockInv
<1>4. ASSUME NEW p \in Process, Load(p)
      PROVE  LockInv'
  <2>1. holder = p
    BY <1>4 DEF Load, LockInv, HolderKnows, Holding
  <2>2. HolderKnows(p)'
    BY <1>0, <1>4 DEF Load, LockInv, HolderKnows, Holding
  <2>3. \A q \in Process \ {p} : HolderKnows(q)'
    BY <1>0, <1>4, <2>1, OthersUnmoved DEF Load
  <2> QED
    BY <2>2, <2>3 DEF LockInv
<1>5. ASSUME NEW p \in Process, holder = p, Leave(p)
      PROVE  LockInv'
  <2>1. HolderKnows(p)'
    BY <1>0, <1>5, ProcessAssumption DEF Leave, HolderKnows, Holding
  <2>2. \A q \in Process \ {p} : HolderKnows(q)'
    BY <1>0, <1>5, OthersUnmoved DEF Leave
  <2> QED
    BY <2>1, <2>2 DEF LockInv
<1>6. ASSUME NEW p \in Process, Refuse(p)
      PROVE  LockInv'
  BY <1>5, <1>6 DEF Refuse, LockInv, HolderKnows, Holding
<1>7. ASSUME NEW p \in Process, Stage(p)
      PROVE  LockInv'
  <2>1. holder = p /\ view[p] = file /\ job[p].cmd \in Commands
    BY <1>7 DEF Stage, LockInv, HolderKnows, Holding
  <2>2. HolderKnows(p)'
    BY <1>0, <1>7, <2>1 DEF Stage, HolderKnows, Holding
  <2>3. \A q \in Process \ {p} : HolderKnows(q)'
    BY <1>0, <1>7, <2>1, OthersUnmoved DEF Stage
  <2> QED
    BY <2>2, <2>3 DEF LockInv
<1>8. ASSUME NEW p \in Process, Replace(p)
      PROVE  LockInv'
  <2>1. /\ holder = p /\ job[p].cmd \in Commands
        /\ view[p] \in LedgerType
        /\ Admits(view[p], job[p].cmd, job[p].base)
        /\ staged[p] = After(view[p], job[p].cmd)
    BY <1>8 DEF Replace, LockInv, HolderKnows, Holding
  <2>2. HolderKnows(p)'
    BY <1>0, <1>8, <2>1 DEF Replace, HolderKnows, Holding
  <2>3. \A q \in Process \ {p} : HolderKnows(q)'
    BY <1>0, <1>8, <2>1, OthersUnmoved DEF Replace
  <2> QED
    BY <2>2, <2>3 DEF LockInv
<1>9. ASSUME NEW p \in Process, Acknowledge(p)
      PROVE  LockInv'
  BY <1>5, <1>9 DEF Acknowledge, LockInv, HolderKnows, Holding
<1>10. ASSUME NEW p \in Process, Fail(p)
       PROVE  LockInv'
  BY <1>5, <1>10 DEF Fail, LockInv, HolderKnows, Holding
<1>11. ASSUME NEW p \in Process, Crash(p)
       PROVE  LockInv'
  <2>1. HolderKnows(p)'
    BY <1>0, <1>11, ProcessAssumption DEF Crash, LockInv, HolderKnows, Holding
  <2>2. \A q \in Process \ {p} : HolderKnows(q)'
    <3> SUFFICES ASSUME NEW q \in Process \ {p}
                 PROVE  HolderKnows(q)'
      OBVIOUS
    <3>1. (holder' = q) <=> (holder = q)
      BY <1>11, ProcessAssumption DEF Crash
    <3>2. /\ pc'[q] = pc[q] /\ job'[q] = job[q] /\ view'[q] = view[q]
          /\ staged'[q] = staged[q] /\ file' = file
      BY <1>0, <1>11 DEF Crash
    <3>3. HolderKnows(q)
      BY DEF LockInv
    <3> QED
      BY <3>1, <3>2, <3>3 DEF HolderKnows
  <2> QED
    BY <2>1, <2>2 DEF LockInv
<1>12. CASE UNCHANGED vars
  BY <1>12 DEF vars, LockInv, HolderKnows
<1> QED
  BY <1>1, <1>2, <1>3, <1>4, <1>6, <1>7, <1>8, <1>9, <1>10, <1>11, <1>12
     DEF Next, Step

\* Types, and mutual exclusion with a current view: a process that checked
\* the ledger under the lock replaces exactly what it checked (LockInv).
THEOREM LockCorrect == Spec => [](TypeOK /\ LockInv)
<1>1. TypeOK /\ LockInv /\ [Next]_vars => (TypeOK /\ LockInv)'
  BY NextTypes, NextLockInv
<1> QED
  BY <1>1, InitInv, PTL DEF Spec

-----------------------------------------------------------------------------

\* How the file can change: only by the command of the process that holds
\* the lock, applied to the file as it is.
LEMMA FileSteps ==
  ASSUME TypeOK, LockInv, [Next]_vars
  PROVE  \/ file' = file
         \/ \E p \in Process :
              /\ Replace(p)
              /\ job[p].cmd \in Commands
              /\ Admits(file, job[p].cmd, job[p].base)
              /\ file' = After(file, job[p].cmd)
<1>1. ASSUME NEW p \in Process, Replace(p)
      PROVE  /\ job[p].cmd \in Commands
             /\ Admits(file, job[p].cmd, job[p].base)
             /\ file' = After(file, job[p].cmd)
  BY <1>1 DEF Replace, LockInv, HolderKnows, Holding
<1>2. ASSUME NEW p \in Process,
             \/ Read(p) \/ (\E c \in CommandsOf[p] : Submit(p, c)) \/ Acquire(p)
             \/ Load(p) \/ Refuse(p) \/ Stage(p) \/ Acknowledge(p)
             \/ Fail(p) \/ Crash(p)
      PROVE  file' = file
  BY <1>2 DEF Read, Submit, Acquire, Load, Refuse, Stage, Acknowledge, Fail, Crash
<1>3. CASE UNCHANGED vars
  BY <1>3 DEF vars
<1> QED
  BY <1>1, <1>2, <1>3 DEF Next, Step

\* The file only grows, and a change of it is one revision.
LEMMA FileGrows ==
  ASSUME TypeOK, LockInv, [Next]_vars, file' # file
  PROVE  /\ file' \in LedgerType
         /\ file'.revision = file.revision + 1
         /\ Extends(file, file')
BY FileSteps, AfterLedger, CommandsAssumption DEF TypeOK

\* The objects of a command are in the ledger it was applied to.
LEMMA ConcatKeepsIds ==
  ASSUME NEW S, NEW a \in Seq(S), NEW b \in Seq(S)
  PROVE  IdsOf(b) \subseteq IdsOf(a \o b)
<1> SUFFICES ASSUME NEW i \in DOMAIN b
             PROVE  b[i].id \in IdsOf(a \o b)
  BY DEF IdsOf
<1>1. /\ a \o b \in Seq(S)
      /\ Len(a \o b) = Len(a) + Len(b)
      /\ \A k \in 1 .. Len(a) + Len(b) :
           (a \o b)[k] = IF k <= Len(a) THEN a[k] ELSE b[k - Len(a)]
  BY ConcatProperties
<1>2. /\ Len(a) \in Nat /\ Len(b) \in Nat /\ i \in 1 .. Len(b)
      /\ DOMAIN (a \o b) = 1 .. Len(a) + Len(b)
  BY <1>1
<1>3. Len(a) + i \in DOMAIN (a \o b) /\ (a \o b)[Len(a) + i] = b[i]
  BY <1>1, <1>2
<1> QED
  BY <1>3 DEF IdsOf

LEMMA StampingKeepsIds ==
  ASSUME NEW s \in LedgerType, NEW records \in Seq(NewRecord)
  PROVE  IdsOf([i \in DOMAIN records |-> Stamped(s, records[i])]) = IdsOf(records)
<1>1. \A i \in DOMAIN records : records[i] \in NewRecord
  OBVIOUS
<1>2. \A i \in DOMAIN records : Stamped(s, records[i]).id = records[i].id
  BY <1>1 DEF Stamped, NewRecord
<1> QED
  BY <1>2 DEF IdsOf

LEMMA AddedAreThere ==
  ASSUME NEW s \in LedgerType, NEW c \in Command
  PROVE  AddedIds(c) \subseteq ObjectIds(After(s, c))
<1> DEFINE t == After(s, c)
<1>0. ASSUME NEW f \in Lists
      PROVE  IdsOf(t[f]) \subseteq ObjectIds(t)
  BY DEF ObjectIds
<1>1. CASE c.op = "update"
  <2> DEFINE records == [i \in DOMAIN c.records |-> Stamped(s, c.records[i])]
  <2>1. c.evidence_refs \in Seq(Source) /\ c.records \in Seq(NewRecord)
    BY <1>1 DEF Command
  <2>2. records \in Seq(TaskRecord) /\ IdsOf(records) = IdsOf(c.records)
    BY <2>1, StampedRecords, StampingKeepsIds
  <2>3. t = Updated(s, c)
    BY <1>1 DEF After
  <2>4. /\ t.evidence_refs = s.evidence_refs \o c.evidence_refs
        /\ t.records = s.records \o records
    BY <2>3 DEF Updated, LedgerType
  <2> HIDE DEF records
  <2>5. /\ IdsOf(c.evidence_refs) \subseteq IdsOf(t["evidence_refs"])
        /\ IdsOf(c.records) \subseteq IdsOf(t["records"])
    <3>1. IdsOf(c.evidence_refs) \subseteq IdsOf(s.evidence_refs \o c.evidence_refs)
      BY <2>1, LedgerFields, ConcatKeepsIds
    <3>2. IdsOf(records) \subseteq IdsOf(s.records \o records)
      BY <2>2, LedgerFields, ConcatKeepsIds
    <3> QED
      BY <2>2, <2>4, <3>1, <3>2
  <2>6. AddedIds(c) = IdsOf(c.evidence_refs) \cup IdsOf(c.records)
    BY <1>1 DEF AddedIds
  <2>7. "evidence_refs" \in Lists /\ "records" \in Lists
    BY DEF Lists
  <2> QED
    BY <1>0, <2>5, <2>6, <2>7
<1>2. CASE c.op = "register"
  <2>1. c.requirements \in Seq(Requirement) /\ c.handoffs \in Seq(Handoff)
    BY <1>2 DEF Command
  <2>2. t = Registered(s, c)
    BY <1>2 DEF After
  <2>3. /\ t.requirements = s.requirements \o c.requirements
        /\ t.handoffs = s.handoffs \o c.handoffs
    BY <2>2 DEF Registered, LedgerType
  <2>4. /\ IdsOf(c.requirements) \subseteq IdsOf(t["requirements"])
        /\ IdsOf(c.handoffs) \subseteq IdsOf(t["handoffs"])
    BY <2>1, <2>3, LedgerFields, ConcatKeepsIds
  <2>5. AddedIds(c) = IdsOf(c.requirements) \cup IdsOf(c.handoffs)
    BY <1>2 DEF AddedIds
  <2>6. "requirements" \in Lists /\ "handoffs" \in Lists
    BY DEF Lists
  <2> QED
    BY <1>0, <2>4, <2>5, <2>6
<1>3. CASE c.op = "observe"
  <2>1. c.evidence_refs \in Seq(Source) /\ c.observations \in Seq(Observation)
    BY <1>3 DEF Command
  <2>2. t = Observed(s, c)
    BY <1>3 DEF After
  <2>3. /\ t.evidence_refs = s.evidence_refs \o c.evidence_refs
        /\ t.observations = s.observations \o c.observations
    BY <2>2 DEF Observed, LedgerType
  <2>4. /\ IdsOf(c.evidence_refs) \subseteq IdsOf(t["evidence_refs"])
        /\ IdsOf(c.observations) \subseteq IdsOf(t["observations"])
    BY <2>1, <2>3, LedgerFields, ConcatKeepsIds
  <2>5. AddedIds(c) = IdsOf(c.evidence_refs) \cup IdsOf(c.observations)
    BY <1>3 DEF AddedIds
  <2>6. "evidence_refs" \in Lists /\ "observations" \in Lists
    BY DEF Lists
  <2> QED
    BY <1>0, <2>4, <2>5, <2>6
<1>4. CASE c.op = "judge"
  <2>1. c.judgments \in Seq(Judgment)
    BY <1>4 DEF Command
  <2>2. t = Judged(s, c)
    BY <1>4 DEF After
  <2>3. t.judgments = s.judgments \o c.judgments
    BY <2>2 DEF Judged, LedgerType
  <2>4. IdsOf(c.judgments) \subseteq IdsOf(t["judgments"])
    BY <2>1, <2>3, LedgerFields, ConcatKeepsIds
  <2>5. AddedIds(c) = IdsOf(c.judgments)
    BY <1>4 DEF AddedIds
  <2>6. "judgments" \in Lists
    BY DEF Lists
  <2> QED
    BY <1>0, <2>4, <2>5, <2>6
<1>5. CASE c.op = "artifact"
  <2>1. c.artifact \in Artifact
    BY <1>5 DEF Command
  <2>2. t = ArtifactRegistered(s, c)
    BY <1>5 DEF After
  <2>3. t.artifact_refs = Append(s.artifact_refs, c.artifact)
    BY <2>2 DEF ArtifactRegistered, LedgerType
  <2>4. c.artifact.id \in IdsOf(t["artifact_refs"])
    <3>1. s.artifact_refs \in Seq(Artifact)
      BY LedgerFields
    <3>2. /\ Len(s.artifact_refs) + 1 \in DOMAIN t.artifact_refs
          /\ t.artifact_refs[Len(s.artifact_refs) + 1] = c.artifact
      BY <2>1, <2>3, <3>1, AppendProperties
    <3> QED
      BY <3>2 DEF IdsOf
  <2>5. AddedIds(c) = {c.artifact.id}
    BY <1>5 DEF AddedIds
  <2>6. "artifact_refs" \in Lists
    BY DEF Lists
  <2> QED
    BY <1>0, <2>4, <2>5, <2>6
<1>6. CASE c.op = "verify"
  <2>1. c.result \in Result
    BY <1>6 DEF Command
  <2>2. t = VerificationRecorded(s, c)
    BY <1>6 DEF After
  <2>3. t.verification_results = Append(s.verification_results, c.result)
    BY <2>2 DEF VerificationRecorded, LedgerType
  <2>4. c.result.id \in IdsOf(t["verification_results"])
    <3>1. s.verification_results \in Seq(Result)
      BY LedgerFields
    <3>2. /\ Len(s.verification_results) + 1 \in DOMAIN t.verification_results
          /\ t.verification_results[Len(s.verification_results) + 1] = c.result
      BY <2>1, <2>3, <3>1, AppendProperties
    <3> QED
      BY <3>2 DEF IdsOf
  <2>5. AddedIds(c) = {c.result.id}
    BY <1>6 DEF AddedIds
  <2>6. "verification_results" \in Lists
    BY DEF Lists
  <2> QED
    BY <1>0, <2>4, <2>5, <2>6
<1>7. CASE c.op = "close"
  BY <1>7 DEF AddedIds
<1> QED
  BY <1>1, <1>2, <1>3, <1>4, <1>5, <1>6, <1>7 DEF Command

\* What was acknowledged stays in the ledger (NoLostUpdate).
THEOREM NothingLost == Spec => []NoLostUpdate
<1>1. Init => NoLostUpdate
  BY DEF Init, NoLostUpdate
<1>2. ASSUME TypeOK, LockInv, NoLostUpdate, [Next]_vars
      PROVE  NoLostUpdate'
  <2>1. ObjectIds(file) \subseteq ObjectIds(file')
    <3>1. CASE file' = file
      BY <3>1
    <3>2. CASE file' # file
      BY <1>2, <3>2, FileGrows, ExtendsKeepsIds DEF TypeOK
    <3> QED
      BY <3>1, <3>2
  <2>2. ASSUME NEW p \in Process, Acknowledge(p)
        PROVE  kept' \subseteq ObjectIds(file')
    <3>1. /\ job[p].cmd \in Command /\ view[p] \in LedgerType
          /\ file = After(view[p], job[p].cmd)
      BY <1>2, <2>2, CommandsAssumption
         DEF Acknowledge, LockInv, HolderKnows, Holding
    <3>2. AddedIds(job[p].cmd) \subseteq ObjectIds(file)
      BY <3>1, AddedAreThere
    <3> QED
      BY <1>2, <2>1, <2>2, <3>2 DEF Acknowledge, NoLostUpdate
  <2>3. CASE \A p \in Process : ~Acknowledge(p)
    <3>1. kept' = kept
      BY <1>2, <2>3 DEF Next, Step, Read, Submit, Acquire, Load, Refuse, Stage,
                         Replace, Fail, Crash, vars
    <3> QED
      BY <1>2, <2>1, <3>1 DEF NoLostUpdate
  <2> QED
    BY <2>2, <2>3 DEF NoLostUpdate
<1> QED
  BY <1>1, <1>2, LockCorrect, PTL DEF Spec

\* A revision number names one content (RevisionNamesContent): the check of
\* the number alone is a check of the whole ledger the caller saw.
THEOREM NumberIsContent == Spec => []RevisionNamesContent
<1> DEFINE Known(p) == seen[p] # None =>
                         /\ seen[p].revision <= file.revision
                         /\ Extends(seen[p], file)
                         /\ seen[p].revision = file.revision => seen[p] = file
<1>1. Init => RevisionNamesContent
  BY DEF Init, RevisionNamesContent
<1>2. ASSUME TypeOK, LockInv, RevisionNamesContent, [Next]_vars
      PROVE  RevisionNamesContent'
  <2> SUFFICES ASSUME NEW q \in Process
               PROVE  Known(q)'
    BY DEF RevisionNamesContent
  <2>1. /\ file \in LedgerType /\ Known(q)
        /\ seen[q] \in LedgerType \cup {None}
        /\ file.revision \in Nat /\ file.revision <= file.revision
        /\ Extends(file, file)
    BY <1>2, LedgerFields, ExtendsReflexive DEF TypeOK, RevisionNamesContent, Extends
  <2>2. CASE file' = file
    <3>1. seen'[q] \in {seen[q], file, None}
      <4>1. ASSUME NEW p \in Process, Read(p)
            PROVE  seen'[q] \in {seen[q], file}
        BY <1>2, <4>1 DEF Read, TypeOK
      <4>2. ASSUME NEW p \in Process, Acknowledge(p)
            PROVE  seen'[q] \in {seen[q], file}
        <5>1. staged[p] = file
          BY <1>2, <4>2 DEF Acknowledge, LockInv, HolderKnows
        <5> QED
          BY <1>2, <4>2, <5>1 DEF Acknowledge, TypeOK
      <4>3. ASSUME NEW p \in Process, Crash(p)
            PROVE  seen'[q] \in {seen[q], None}
        BY <1>2, <4>3 DEF Crash, TypeOK
      <4>4. ASSUME \A p \in Process : ~Read(p) /\ ~Acknowledge(p) /\ ~Crash(p)
            PROVE  seen' = seen
        BY <1>2, <4>4 DEF Next, Step, Submit, Acquire, Load, Refuse, Stage,
                           Replace, Fail, vars
      <4> QED
        BY <4>1, <4>2, <4>3, <4>4
    <3> QED
      BY <2>1, <2>2, <3>1
  <2>3. CASE file' # file
    <3>1. /\ file' \in LedgerType
          /\ file'.revision = file.revision + 1
          /\ Extends(file, file')
      BY <1>2, <2>3, FileGrows
    <3>2. seen' = seen
      BY <1>2, <2>3, FileSteps DEF Replace
    <3>3. ASSUME seen[q] # None
          PROVE  /\ seen[q].revision <= file'.revision
                 /\ seen[q].revision # file'.revision
                 /\ Extends(seen[q], file')
      <4>1. /\ seen[q] \in LedgerType
            /\ seen[q].revision \in Nat
            /\ seen[q].revision <= file.revision
            /\ Extends(seen[q], file)
        BY <2>1, <3>3, LedgerFields
      <4>2. Extends(seen[q], file')
        BY <2>1, <3>1, <4>1, ExtendsTransitive
      <4> QED
        BY <2>1, <3>1, <4>1, <4>2
    <3> QED
      BY <3>2, <3>3
  <2> QED
    BY <2>2, <2>3
<1> QED
  BY <1>1, <1>2, LockCorrect, PTL DEF Spec

\* A write with a base revision replaces that very revision (StrictCAS).
THEOREM CompareAndSet == Spec => StrictCAS
<1> DEFINE Step0 == \A p \in Process :
             pc[p] = "staged" /\ pc'[p] = "replaced" /\ job[p].base # None
               => file.revision = job[p].base /\ file'.revision = job[p].base + 1
<1>1. ASSUME TypeOK, LockInv, Next
      PROVE  Step0
  <2> SUFFICES ASSUME NEW q \in Process,
                      pc[q] = "staged", pc'[q] = "replaced", job[q].base # None
               PROVE  file.revision = job[q].base /\ file'.revision = job[q].base + 1
    OBVIOUS
  <2>1. pc \in [Process -> {"idle", "waiting"} \cup Holding]
    BY <1>1 DEF TypeOK
  <2>2. Replace(q)
    <3>1. ASSUME NEW p \in Process,
                 \/ Read(p) \/ (\E c \in CommandsOf[p] : Submit(p, c)) \/ Acquire(p)
                 \/ Load(p) \/ Refuse(p) \/ Stage(p) \/ Acknowledge(p)
                 \/ Fail(p) \/ Crash(p)
          PROVE  FALSE
      BY <2>1, <3>1 DEF Read, Submit, Acquire, Load, Refuse, Stage,
                        Acknowledge, Fail, Crash, Leave
    <3>2. ASSUME NEW p \in Process, Replace(p)
          PROVE  p = q
      BY <2>1, <3>2 DEF Replace
    <3> QED
      BY <1>1, <3>1, <3>2 DEF Next, Step
  <2>3. /\ file \in LedgerType /\ job[q].cmd \in Command
        /\ Admits(file, job[q].cmd, job[q].base)
        /\ file' = After(file, job[q].cmd)
    BY <1>1, <2>2, CommandsAssumption
       DEF Replace, LockInv, HolderKnows, Holding, TypeOK
  <2>4. file.revision = job[q].base
    BY <2>3 DEF Admits, RevisionMatches
  <2> QED
    BY <2>3, <2>4, AfterLedger
<1>2. TypeOK /\ LockInv /\ [Next]_vars => [Step0]_vars
  BY <1>1
<1> QED
  BY <1>2, LockCorrect, PTL DEF Spec, StrictCAS

-----------------------------------------------------------------------------

\* The instance Abstract has its own copy of the ledger's operators; they
\* are the same operators, since none of them mentions the variable.
LEMMA SameLedger ==
  /\ \A work : Abstract!BlankLedger(work) = BlankLedger(work)
  /\ \A c : Abstract!Unconditional(c) <=> Unconditional(c)
  /\ \A s, c : /\ Abstract!Updated(s, c) = Updated(s, c)
               /\ Abstract!Registered(s, c) = Registered(s, c)
               /\ Abstract!Observed(s, c) = Observed(s, c)
               /\ Abstract!Judged(s, c) = Judged(s, c)
               /\ Abstract!ArtifactRegistered(s, c) = ArtifactRegistered(s, c)
               /\ Abstract!VerificationRecorded(s, c) = VerificationRecorded(s, c)
  /\ \A s : Abstract!Closed(s) = Closed(s)
<1>1. \A work : Abstract!BlankLedger(work) = BlankLedger(work)
  BY DEF Abstract!BlankLedger, BlankLedger
<1>2. \A c : Abstract!Unconditional(c) <=> Unconditional(c)
  BY DEF Abstract!Unconditional, Unconditional
<1>3. \A s, c : Abstract!Updated(s, c) = Updated(s, c)
  BY DEF Abstract!Updated, Updated, Abstract!Stamped, Stamped
<1>4. \A s, c : Abstract!Registered(s, c) = Registered(s, c)
  BY DEF Abstract!Registered, Registered
<1>5. \A s, c : Abstract!Observed(s, c) = Observed(s, c)
  BY DEF Abstract!Observed, Observed
<1>6. \A s, c : Abstract!Judged(s, c) = Judged(s, c)
  BY DEF Abstract!Judged, Judged
<1>7. \A s, c : Abstract!ArtifactRegistered(s, c) = ArtifactRegistered(s, c)
  BY DEF Abstract!ArtifactRegistered, ArtifactRegistered
<1>8. \A s, c : Abstract!VerificationRecorded(s, c) = VerificationRecorded(s, c)
  BY DEF Abstract!VerificationRecorded, VerificationRecorded
<1>9. \A s : Abstract!Closed(s) = Closed(s)
  BY DEF Abstract!Closed, Closed
<1> QED
  BY <1>1, <1>2, <1>3, <1>4, <1>5, <1>6, <1>7, <1>8, <1>9

LEMMA SameAdmission ==
  ASSUME NEW s, NEW c, NEW base
  PROVE  Abstract!Admits(s, c, base) <=> Admits(s, c, base)
<1>1. \A t : Abstract!UniqueIds(t) <=> UniqueIds(t)
  BY DEF Abstract!UniqueIds, UniqueIds, Abstract!IdsOf, IdsOf, Abstract!Lists, Lists
<1>2. \A t : Abstract!SourcesResolve(t) <=> SourcesResolve(t)
  BY DEF Abstract!SourcesResolve, SourcesResolve, Abstract!IdsOf, IdsOf
<1>3. \A t : Abstract!SupersessionResolves(t) <=> SupersessionResolves(t)
  BY DEF Abstract!SupersessionResolves, SupersessionResolves,
         Abstract!IdsOf, IdsOf, Abstract!Before, Before
<1>4. \A t : Abstract!HandoffsValid(t) <=> HandoffsValid(t)
  BY DEF Abstract!HandoffsValid, HandoffsValid, Abstract!IdsOf, IdsOf
<1>5. \A t : Abstract!ObservationsValid(t) <=> ObservationsValid(t)
  BY DEF Abstract!ObservationsValid, ObservationsValid, Abstract!IdsOf, IdsOf
<1>6. \A t : Abstract!JudgmentsValid(t) <=> JudgmentsValid(t)
  BY DEF Abstract!JudgmentsValid, JudgmentsValid, Abstract!IdsOf, IdsOf
<1>7. \A t : Abstract!WithinCapacity(t) <=> WithinCapacity(t)
  <2>1. ASSUME NEW n
        PROVE  Abstract!Digits(n) = Digits(n)
    <3>1. \A x : Abstract!IsPowerOfRadix(x) <=> IsPowerOfRadix(x)
      BY DEF Abstract!IsPowerOfRadix, IsPowerOfRadix
    <3>2. {x \in 1 .. n : Abstract!IsPowerOfRadix(x)} = {x \in 1 .. n : IsPowerOfRadix(x)}
      BY <3>1
    <3>3. \A set : Abstract!Cardinality(set) = Cardinality(set)
      BY Zenon DEF Abstract!Cardinality, Cardinality
    <3> QED
      BY <3>2, <3>3 DEF Abstract!Digits, Digits
  <2> QED
    BY <2>1 DEF Abstract!WithinCapacity, WithinCapacity, Abstract!Size, Size
<1>8. \A t : Abstract!Valid(t) <=> Valid(t)
  BY <1>1, <1>2, <1>3, <1>4, <1>5, <1>6, <1>7 DEF Abstract!Valid, Valid
<1>9. Abstract!WellRequested(s, c) <=> WellRequested(s, c)
  BY DEF Abstract!WellRequested, WellRequested, Abstract!IdsOf, IdsOf,
         Abstract!Before, Before
<1>10. Abstract!RevisionMatches(s, base) <=> RevisionMatches(s, base)
  BY DEF Abstract!RevisionMatches, RevisionMatches
<1>11. Abstract!After(s, c) = After(s, c)
  BY SameLedger DEF Abstract!After, After
<1> QED
  BY <1>8, <1>9, <1>10, <1>11 DEF Abstract!Admits, Admits

\* Every step of the processes is a step of one atomic ledger or leaves the
\* file alone (ImplementsTaskLedger).
THEOREM Implementation == Spec => ImplementsTaskLedger
<1>1. Init => Abstract!Init
  BY SameLedger DEF Init, Abstract!Init
<1>2. ASSUME TypeOK, LockInv, [Next]_vars, file' # file
      PROVE  Abstract!Next
  <2>1. PICK p \in Process : /\ job[p].cmd \in Commands
                             /\ Admits(file, job[p].cmd, job[p].base)
                             /\ file' = After(file, job[p].cmd)
    BY <1>2, FileSteps
  <2> DEFINE c == job[p].cmd
  <2>2. c \in Command
    BY <2>1, CommandsAssumption
  <2>3. Admits(file, c, IF Unconditional(c) THEN None ELSE file.revision)
    <3>1. file.revision # None
      BY <1>2, LedgerFields, NoneAssumption DEF TypeOK
    <3> QED
      BY <2>1, <3>1 DEF Admits, RevisionMatches
  <2> HIDE DEF c
  <2>4. Abstract!Accepted(c)
    BY <2>3, SameAdmission, SameLedger DEF Abstract!Accepted
  <2>5. c.op \in {"update", "register", "observe", "judge", "artifact", "verify", "close"}
    BY <2>2 DEF Command
  <2>6. file' = After(file, c)
    BY <2>1 DEF c
  <2>7. ASSUME \/ Abstract!TaskUpdate(c) \/ Abstract!EvidenceRegister(c)
               \/ Abstract!TaskObserve(c) \/ Abstract!TaskJudge(c)
               \/ Abstract!TaskArtifact(c) \/ Abstract!RecordVerification(c)
               \/ Abstract!TaskClose(c)
        PROVE  Abstract!Next
    BY <2>1, <2>7 DEF Abstract!Next, Abstract!Do, c
  <2>8. CASE c.op = "update"
    <3>1. Abstract!TaskUpdate(c)
      BY <2>4, <2>6, <2>8, SameLedger DEF After, Abstract!TaskUpdate
    <3> QED
      BY <2>7, <3>1
  <2>9. CASE c.op = "register"
    <3>1. Abstract!EvidenceRegister(c)
      BY <2>4, <2>6, <2>9, SameLedger DEF After, Abstract!EvidenceRegister
    <3> QED
      BY <2>7, <3>1
  <2>10. CASE c.op = "observe"
    <3>1. Abstract!TaskObserve(c)
      BY <2>4, <2>6, <2>10, SameLedger DEF After, Abstract!TaskObserve
    <3> QED
      BY <2>7, <3>1
  <2>11. CASE c.op = "judge"
    <3>1. Abstract!TaskJudge(c)
      BY <2>4, <2>6, <2>11, SameLedger DEF After, Abstract!TaskJudge
    <3> QED
      BY <2>7, <3>1
  <2>12. CASE c.op = "artifact"
    <3>1. Abstract!TaskArtifact(c)
      BY <2>4, <2>6, <2>12, SameLedger DEF After, Abstract!TaskArtifact
    <3> QED
      BY <2>7, <3>1
  <2>13. CASE c.op = "verify"
    <3>1. Abstract!RecordVerification(c)
      BY <2>4, <2>6, <2>13, SameLedger DEF After, Abstract!RecordVerification
    <3> QED
      BY <2>7, <3>1
  <2>14. CASE c.op = "close"
    <3>1. Abstract!TaskClose(c)
      BY <2>4, <2>6, <2>14, SameLedger DEF After, Abstract!TaskClose
    <3> QED
      BY <2>7, <3>1
  <2> QED
    BY <2>5, <2>8, <2>9, <2>10, <2>11, <2>12, <2>13, <2>14
<1>3. TypeOK /\ LockInv /\ [Next]_vars => [Abstract!Next]_file
  BY <1>2
<1> QED
  BY <1>1, <1>3, LockCorrect, PTL DEF Spec, ImplementsTaskLedger, Abstract!Spec

-----------------------------------------------------------------------------
(* What is proved of the atomic ledger holds of the file.                   *)

\* Init and Next of the two instances are the same formulas.
LEMMA SameTask == (Facts!Init <=> Abstract!Init) /\ (Facts!Next <=> Abstract!Next)
<1>1. \A s : Facts!Valid(s) <=> Abstract!Valid(s)
  BY Zenon
     DEF Facts!Valid, Abstract!Valid, Facts!UniqueIds, Abstract!UniqueIds,
         Facts!SourcesResolve, Abstract!SourcesResolve,
         Facts!SupersessionResolves, Abstract!SupersessionResolves,
         Facts!HandoffsValid, Abstract!HandoffsValid,
         Facts!ObservationsValid, Abstract!ObservationsValid,
         Facts!JudgmentsValid, Abstract!JudgmentsValid,
         Facts!IdsOf, Abstract!IdsOf, Facts!Lists, Abstract!Lists,
         Facts!Before, Abstract!Before,
         Facts!WithinCapacity, Abstract!WithinCapacity, Facts!Size, Abstract!Size,
         Facts!Digits, Abstract!Digits, Facts!IsPowerOfRadix, Abstract!IsPowerOfRadix,
         Facts!Cardinality, Abstract!Cardinality
<1>2. \A s, c : /\ Facts!Updated(s, c) = Abstract!Updated(s, c)
                /\ Facts!Registered(s, c) = Abstract!Registered(s, c)
                /\ Facts!Observed(s, c) = Abstract!Observed(s, c)
                /\ Facts!Judged(s, c) = Abstract!Judged(s, c)
                /\ Facts!ArtifactRegistered(s, c) = Abstract!ArtifactRegistered(s, c)
                /\ Facts!VerificationRecorded(s, c) = Abstract!VerificationRecorded(s, c)
                /\ Facts!Closed(s) = Abstract!Closed(s)
                /\ Facts!WellRequested(s, c) <=> Abstract!WellRequested(s, c)
  BY Zenon
     DEF Facts!Stamped, Abstract!Stamped,
         Facts!Updated, Abstract!Updated, Facts!Registered, Abstract!Registered,
         Facts!Observed, Abstract!Observed, Facts!Judged, Abstract!Judged,
         Facts!ArtifactRegistered, Abstract!ArtifactRegistered,
         Facts!VerificationRecorded, Abstract!VerificationRecorded,
         Facts!Closed, Abstract!Closed, Facts!WellRequested, Abstract!WellRequested,
         Facts!IdsOf, Abstract!IdsOf, Facts!Before, Abstract!Before
<1>3. \A c : Facts!Accepted(c) <=> Abstract!Accepted(c)
  <2>1. \A s, c : Facts!After(s, c) = Abstract!After(s, c)
    BY SameCommands, SameLedger, Zenon DEF Abstract!After, After
  <2> QED
    BY <1>1, <1>2, <2>1, Zenon
       DEF Facts!Accepted, Abstract!Accepted, Facts!Admits, Abstract!Admits,
           Facts!RevisionMatches, Abstract!RevisionMatches,
           Facts!Unconditional, Abstract!Unconditional
<1>4. \A c : Facts!Do(c) <=> Abstract!Do(c)
  BY <1>2, <1>3
     DEF Facts!Do, Abstract!Do, Facts!TaskUpdate, Abstract!TaskUpdate,
         Facts!EvidenceRegister, Abstract!EvidenceRegister,
         Facts!TaskObserve, Abstract!TaskObserve, Facts!TaskJudge, Abstract!TaskJudge,
         Facts!TaskArtifact, Abstract!TaskArtifact,
         Facts!RecordVerification, Abstract!RecordVerification,
         Facts!TaskClose, Abstract!TaskClose
<1>5. Facts!Init <=> Abstract!Init
  BY Zenon DEF Facts!Init, Abstract!Init, Facts!BlankLedger, Abstract!BlankLedger
<1>6. Facts!Next <=> Abstract!Next
  BY <1>4 DEF Facts!Next, Abstract!Next
<1> QED
  BY <1>5, <1>6

LEMMA FileIsATask == Spec => Facts!Spec
<1>1. [Abstract!Next]_file => [Facts!Next]_file
  BY SameTask
<1> QED
  BY <1>1, SameTask, Implementation, PTL DEF ImplementsTaskLedger, Abstract!Spec, Facts!Spec

\* Whatever processes, crashes and failed writes do, the ledger file is always one
\* the loader accepts, its last bad judgment of a requirement is unresolved or
\* followed by a good one, its observations stay within the scope delegated to
\* them, and it can be closed however full it is.
THEOREM FileIsSound ==
  Spec => [](/\ Facts!TypeOK /\ Facts!NoBadNewsWithoutGoodNews
             /\ Facts!ScopeNeverWidens /\ Facts!FullLedgerStillCloses)
<1>1. Facts!Spec => [](/\ Facts!TypeOK /\ Facts!NoBadNewsWithoutGoodNews
                       /\ Facts!ScopeNeverWidens /\ Facts!FullLedgerStillCloses)
  BY BoundsAssumption, NoneAssumption, SameCapacity, Facts!TypeCorrect,
     Facts!GoodNewsIsLast, Facts!ScopeOnlyNarrows, Facts!ClosingAlwaysFits, PTL
     DEF Facts!TypeCorrect, Facts!GoodNewsIsLast, Facts!ScopeOnlyNarrows,
         Facts!ClosingAlwaysFits
<1> QED
  BY <1>1, FileIsATask, PTL

\* Whatever processes, crashes and failed writes do, a bad judgment leaves the
\* unresolved ones, and an observation edge the pending ones, only by a replacement
\* of the file that appends the judgment answering it.
THEOREM FileKeepsOpenEvidence ==
  Spec => Facts!BadNewsNeedsAnAnswer /\ Facts!PendingNeedsAJudgment
<1>1. Facts!Spec => Facts!BadNewsNeedsAnAnswer /\ Facts!PendingNeedsAJudgment
  BY BoundsAssumption, NoneAssumption, SameCapacity, Facts!BadNewsIsAnswered,
     Facts!PendingIsJudged, PTL
     DEF Facts!BadNewsIsAnswered, Facts!PendingIsJudged
<1> QED
  BY <1>1, FileIsATask, PTL
=============================================================================
