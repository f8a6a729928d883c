----------------------------- MODULE LockedTask -----------------------------
(***************************************************************************)
(* One task ledger shared by concurrent processes: Controllers, and child  *)
(* Agents that only observe.  Every command of core.py that writes the     *)
(* ledger runs                                                             *)
(*                                                                         *)
(*     with _lock(root):                 Acquire                           *)
(*         state = _load_state(root)     Load                              *)
(*         check_revision, validate      Refuse | Stage                    *)
(*         mkstemp, write, fsync         Stage                             *)
(*         os.replace                    Replace                           *)
(*     return _task_ack(state)           Acknowledge                       *)
(*                                                                         *)
(* Reads (task-get, task-status) take no lock.  An exception before        *)
(* os.replace unlinks the temporary file and leaves the ledger alone; a    *)
(* process may also be killed at any point, and the operating system then  *)
(* drops its lock.                                                         *)
(*                                                                         *)
(* File contents, not file names, are what the ledger's readers see, so    *)
(* the temporary file is the value staged by the process that wrote it.    *)
(***************************************************************************)
EXTENDS Evidence

CONSTANTS
  Process,      \* processes that address this task
  Commands,     \* the commands they may submit
  CommandsOf    \* those each of them may submit

ASSUME CommandsAssumption ==
  /\ Commands \subseteq Command
  /\ CommandsOf \in [Process -> SUBSET Commands]

ASSUME ProcessAssumption == None \notin Process

VARIABLES
  file,    \* content of state.json
  holder,  \* process holding the exclusive lock on context.lock, or None
  pc,      \* where each process is in its command
  job,     \* the command a process is running and its --base-revision
  view,    \* the ledger a process loaded under the lock, or None
  staged,  \* content of the process's fsynced temporary file, or None
  told,    \* the last revision a reply gave the process, or None
  seen,    \* history: the last ledger a reply showed the process in full
  kept     \* history: ids of objects whose write was acknowledged

vars == <<file, holder, pc, job, view, staged, told, seen, kept>>

NoJob == [cmd |-> None, base |-> None]

Init ==
  /\ \E work \in Work : file = BlankLedger(work)
  /\ holder = None
  /\ pc = [p \in Process |-> "idle"]
  /\ job = [p \in Process |-> NoJob]
  /\ view = [p \in Process |-> None]
  /\ staged = [p \in Process |-> None]
  /\ told = [p \in Process |-> None]
  /\ seen = [p \in Process |-> None]
  /\ kept = {}

\* Ids of the objects a command adds to the ledger.
AddedIds(c) ==
  CASE c.op = "update"   -> IdsOf(c.evidence_refs) \cup IdsOf(c.records)
    [] c.op = "register" -> IdsOf(c.requirements) \cup IdsOf(c.handoffs)
    [] c.op = "observe"  -> IdsOf(c.evidence_refs) \cup IdsOf(c.observations)
    [] c.op = "judge"    -> IdsOf(c.judgments)
    [] c.op = "artifact" -> {c.artifact.id}
    [] c.op = "verify"   -> {c.result.id}
    [] c.op = "close"    -> {}

\* Leaving `with _lock(root)', however the block ends.
Leave(p) ==
  /\ holder' = None
  /\ pc' = [pc EXCEPT ![p] = "idle"]
  /\ job' = [job EXCEPT ![p] = NoJob]
  /\ view' = [view EXCEPT ![p] = None]
  /\ staged' = [staged EXCEPT ![p] = None]

-----------------------------------------------------------------------------

\* task_get, task_status: load without the lock, whoever is writing.
Read(p) ==
  /\ pc[p] = "idle"
  /\ told' = [told EXCEPT ![p] = file.revision]
  /\ seen' = [seen EXCEPT ![p] = file]
  /\ UNCHANGED <<file, holder, pc, job, view, staged, kept>>

\* A command is run with the revision its caller last learned.
Submit(p, c) ==
  /\ pc[p] = "idle"
  /\ Unconditional(c) \/ told[p] # None
  /\ pc' = [pc EXCEPT ![p] = "waiting"]
  /\ job' = [job EXCEPT ![p] =
               [cmd |-> c, base |-> IF Unconditional(c) THEN None ELSE told[p]]]
  /\ UNCHANGED <<file, holder, view, staged, told, seen, kept>>

\* Mutant: the lock is taken whoever holds it.
AcquireShared(p) ==
  /\ pc[p] = "waiting"
  /\ holder' = p
  /\ pc' = [pc EXCEPT ![p] = "locked"]
  /\ UNCHANGED <<file, job, view, staged, told, seen, kept>>

\* flock(LOCK_EX) without a timeout.
Acquire(p) ==
  /\ pc[p] = "waiting"
  /\ holder = None
  /\ holder' = p
  /\ pc' = [pc EXCEPT ![p] = "locked"]
  /\ UNCHANGED <<file, job, view, staged, told, seen, kept>>

\* Mutant: a process that has read the ledger before works on that copy.
LoadCached(p) ==
  /\ pc[p] = "locked"
  /\ view' = [view EXCEPT ![p] = IF seen[p] = None THEN file ELSE seen[p]]
  /\ pc' = [pc EXCEPT ![p] = "loaded"]
  /\ UNCHANGED <<file, holder, job, staged, told, seen, kept>>

Load(p) ==
  /\ pc[p] = "locked"
  /\ view' = [view EXCEPT ![p] = file]
  /\ pc' = [pc EXCEPT ![p] = "loaded"]
  /\ UNCHANGED <<file, holder, job, staged, told, seen, kept>>

\* Mutant: an early return that forgets the lock.
RefuseLocked(p) ==
  /\ pc[p] = "loaded"
  /\ ~Admits(view[p], job[p].cmd, job[p].base)
  /\ pc' = [pc EXCEPT ![p] = "idle"]
  /\ job' = [job EXCEPT ![p] = NoJob]
  /\ view' = [view EXCEPT ![p] = None]
  /\ UNCHANGED <<file, holder, staged, told, seen, kept>>

\* TASK_NOT_ACTIVE, TASK_REVISION_CONFLICT or an invalid command.  Only the
\* conflict names the current revision, for the caller to retry with.
Refuse(p) ==
  /\ pc[p] = "loaded"
  /\ ~Admits(view[p], job[p].cmd, job[p].base)
  /\ told' = IF view[p].status = "ACTIVE" /\ ~RevisionMatches(view[p], job[p].base)
             THEN [told EXCEPT ![p] = view[p].revision]
             ELSE told
  /\ Leave(p)
  /\ UNCHANGED <<file, seen, kept>>

Stage(p) ==
  /\ pc[p] = "loaded"
  /\ Admits(view[p], job[p].cmd, job[p].base)
  /\ staged' = [staged EXCEPT ![p] = After(view[p], job[p].cmd)]
  /\ pc' = [pc EXCEPT ![p] = "staged"]
  /\ UNCHANGED <<file, holder, job, view, told, seen, kept>>

\* os.replace: readers see the old content or the new one, nothing else.
Replace(p) ==
  /\ pc[p] = "staged"
  /\ file' = staged[p]
  /\ pc' = [pc EXCEPT ![p] = "replaced"]
  /\ UNCHANGED <<holder, job, view, staged, told, seen, kept>>

\* The acknowledgement carries the new revision.  The caller knows the whole
\* new content only if it knew the one its command was applied to.
Acknowledge(p) ==
  /\ pc[p] = "replaced"
  /\ told' = [told EXCEPT ![p] = staged[p].revision]
  /\ seen' = IF seen[p] = view[p] THEN [seen EXCEPT ![p] = staged[p]] ELSE seen
  /\ kept' = kept \cup AddedIds(job[p].cmd)
  /\ Leave(p)
  /\ UNCHANGED file

\* An exception (no space, interrupt) before the replacement.
Fail(p) ==
  /\ pc[p] \in {"locked", "loaded", "staged"}
  /\ Leave(p)
  /\ UNCHANGED <<file, told, seen, kept>>

\* The process is killed and started again: it has lost what it knew.
Crash(p) ==
  /\ pc[p] # "idle"
  /\ holder' = IF holder = p THEN None ELSE holder
  /\ pc' = [pc EXCEPT ![p] = "idle"]
  /\ job' = [job EXCEPT ![p] = NoJob]
  /\ view' = [view EXCEPT ![p] = None]
  /\ staged' = [staged EXCEPT ![p] = None]
  /\ told' = [told EXCEPT ![p] = None]
  /\ seen' = [seen EXCEPT ![p] = None]
  /\ UNCHANGED <<file, kept>>

Step(p) ==
  \/ Acquire(p) \/ Load(p) \/ Refuse(p) \/ Stage(p) \/ Replace(p)
  \/ Acknowledge(p)

Next ==
  \E p \in Process :
    \/ Read(p)
    \/ \E c \in CommandsOf[p] : Submit(p, c)
    \/ Step(p)
    \/ Fail(p)
    \/ Crash(p)

Spec == Init /\ [][Next]_vars

\* Processes run on until they are killed, and a process blocked in flock is
\* served while the lock keeps being released (flock queues its waiters).
\* Nothing forces a process to submit a command, to fail or to crash.
Fairness ==
  \A p \in Process : WF_vars(Step(p)) /\ SF_vars(Acquire(p))

FairSpec == Spec /\ Fairness

-----------------------------------------------------------------------------
Holding == {"locked", "loaded", "staged", "replaced"}

JobType == [cmd : Commands \cup {None}, base : Nat \cup {None}]

TypeOK ==
  /\ file \in LedgerType
  /\ holder \in Process \cup {None}
  /\ pc \in [Process -> {"idle", "waiting"} \cup Holding]
  /\ job \in [Process -> JobType]
  /\ view \in [Process -> LedgerType \cup {None}]
  /\ staged \in [Process -> LedgerType \cup {None}]
  /\ told \in [Process -> Nat \cup {None}]
  /\ seen \in [Process -> LedgerType \cup {None}]
  /\ kept \subseteq Id

\* Who holds the lock, and what it knows: the view is the file until the
\* replacement, the staged content is the file after it.
HolderKnows(p) ==
  /\ holder = p <=> pc[p] \in Holding
  /\ pc[p] \in Holding => job[p].cmd \in Commands
  /\ pc[p] \in {"loaded", "staged"} => view[p] = file
  /\ pc[p] \in {"staged", "replaced"} =>
       /\ view[p] \in LedgerType
       /\ Admits(view[p], job[p].cmd, job[p].base)
       /\ staged[p] = After(view[p], job[p].cmd)
  /\ pc[p] = "replaced" => file = staged[p]
  /\ pc[p] = "waiting" => job[p].cmd \in Commands

\* Mutual exclusion from the load to the acknowledgement, so that what a
\* process checked is still there when it replaces it.
LockInv == \A p \in Process : HolderKnows(p)

\* An acknowledged write is never lost: whatever a Controller or a child was
\* told is recorded stays in the ledger through any later write of another
\* process, conflict, failure or crash.
NoLostUpdate == kept \subseteq ObjectIds(file)

\* Compare-and-set is on the revision number alone; it is sound because a
\* revision number names one content.  Whatever a process saw is a prefix of
\* what is there now, and is all of it when the numbers agree.
RevisionNamesContent ==
  \A p \in Process : seen[p] # None =>
    /\ seen[p].revision <= file.revision
    /\ Extends(seen[p], file)
    /\ seen[p].revision = file.revision => seen[p] = file

\* A write carrying a base revision replaces exactly that revision: nothing
\* was written between the reply that named it and the replacement.
StrictCAS ==
  [][\A p \in Process :
       pc[p] = "staged" /\ pc'[p] = "replaced" /\ job[p].base # None
         => file.revision = job[p].base /\ file'.revision = job[p].base + 1]_vars

\* The processes together behave as one ledger that takes commands one at a
\* time: lock, views, temporary files, failures and crashes do not show.
Abstract == INSTANCE TaskLedger WITH ledger <- file
ImplementsTaskLedger == Abstract!Spec

\* Every submitted command comes to an end, written or refused, whatever the
\* other processes do: no lock is left behind by a refusal, a failure or a
\* killed process.
EveryCommandEnds ==
  \A p \in Process : pc[p] = "waiting" ~> pc[p] = "idle"
=============================================================================
