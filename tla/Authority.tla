----------------------------- MODULE Authority -----------------------------
(***************************************************************************)
(* The authority anchor of one task: a record outside the repository with  *)
(* the task's contract, and with the digests and the bytes of the ledger   *)
(* and of the protected files.  Adapters establish it, check it before a   *)
(* command, checkpoint it after one, switch its execution mode, and        *)
(* recover the repository to it.                                           *)
(*                                                                         *)
(* An adapter's command is                                                 *)
(*                                                                         *)
(*     store.check()                    Begin                              *)
(*     core.task_update(...)            Mutate                             *)
(*     store.checkpoint()               Reread, Digest, Bytes, Status,     *)
(*                                      Write                              *)
(*                                                                         *)
(* Only the ledger command in the middle takes the repository lock, unless *)
(* the adapter owns a locked transaction (_append_continuity_state) and    *)
(* checkpoints inside it.  switch_mode and recover hold the lock           *)
(* throughout.  establish and checkpoint never take it.                    *)
(*                                                                         *)
(* The contract is its execution mode; a digest is the bytes themselves.   *)
(***************************************************************************)
EXTENDS Integers, FiniteSets

CONSTANTS
  Process,      \* adapter processes
  OpsOf,        \* the operations each of them runs
  Locked,       \* those whose commands are locked transactions
  Protected,    \* the protected files
  Ledger,       \* the ledger's file
  Modes,        \* execution modes
  None,
  Absent,
  MaxWrites,    \* bound: contents Core writes to the ledger
  MaxTampers,   \* bound: edits made outside Core
  MaxLog        \* bound: mode switches and recoveries

Op == {"establish", "observe", "update", "close", "abandon", "switch", "recover"}

ASSUME OpsAssumption == OpsOf \in [Process -> SUBSET Op] /\ Locked \subseteq Process
ASSUME NamesAssumption == Ledger \notin Protected /\ None \notin Process
ASSUME BoundsAssumption ==
  MaxWrites \in Nat \ {0} /\ MaxTampers \in Nat /\ MaxLog \in Nat

File == Protected \cup {Ledger}

\* A ledger file: which write made it, on top of which, and what it says.
State == [write : 0..MaxWrites, on : 0..MaxWrites, revision : 1..MaxWrites,
          status : {"ACTIVE", "DONE"}, ours : BOOLEAN]
Setting == [edited : BOOLEAN]
Bytes == State \cup Setting \cup {Absent}

\* The contents of all files: ledgers where the ledger is, and only there.
Files ==
  {f \in [File -> Bytes] :
     f[Ledger] \notin Setting /\ \A name \in Protected : f[name] \notin State}

Started == [write |-> 1, on |-> 0, revision |-> 1, status |-> "ACTIVE", ours |-> TRUE]
Foreign == [Started EXCEPT !.write = 0, !.ours = FALSE]

Anchor ==
  [status : {"ACTIVE", "DONE", "ABANDONED"}, mode : Modes,
   digest : Files, snapshot : Files, log : 0..MaxLog]

\* An operation as its caller asked for it: the anchor's digest and the
\* ledger it had read, and the mode it selected.
Job == [op : Op, expected : Anchor \cup {None}, base : Bytes, mode : Modes]

ASSUME AbsentAssumption == Absent \notin State \cup Setting
ASSUME NoneAssumption == None \notin Anchor \cup Job

VARIABLES
  files,    \* the repository's files
  anchor,   \* the anchor file, or None
  lock,     \* process holding the repository lock, or None
  job,      \* what each process runs, or None
  pc,       \* where it is in it
  mine,     \* the anchor record it is building, or None
  todo,     \* files a recovery has yet to restore
  archive,  \* bytes saved by recoveries
  writes,   \* the ledger contents Core has written, in number
  tampers,  \* number of edits outside Core
  dirty     \* history: one of them hit after an operation was decided on

vars == <<files, anchor, lock, job, pc, mine, todo, archive, writes, tampers, dirty>>

Steps == {"idle", "asked", "checked", "reread", "digest", "bytes",
          "status", "write", "rewrite", "archive", "restore", "adapter", "verify"}

TypeOK ==
  /\ files \in Files
  /\ anchor \in Anchor \cup {None}
  /\ lock \in {None} \cup {p \in Process : job[p] # None}
  /\ job \in [Process -> Job \cup {None}]
  /\ pc \in [Process -> Steps]
  /\ \A p \in Process : (pc[p] = "idle") = (job[p] = None)
  /\ mine \in [Process -> Anchor \cup {None}]
  /\ todo \subseteq File
  /\ archive \subseteq Bytes
  /\ writes \in 1..MaxWrites
  /\ tampers \in 0..MaxTampers
  /\ dirty \in BOOLEAN

\* task_start has run and nothing is anchored yet.
Init ==
  /\ files \in {[f \in File |-> IF f = Ledger THEN Started ELSE c] :
                  c \in {[edited |-> FALSE], Absent}}
  /\ anchor = None
  /\ lock = None
  /\ job = [p \in Process |-> None]
  /\ pc = [p \in Process |-> "idle"]
  /\ mine = [p \in Process |-> None]
  /\ todo = {}
  /\ archive = {}
  /\ writes = 1
  /\ tampers = 0
  /\ dirty = FALSE

-----------------------------------------------------------------------------

Goto(p, step) == pc' = [pc EXCEPT ![p] = step]
Mine(p, record) == mine' = [mine EXCEPT ![p] = record]
Runs(p, ops) == job[p] # None /\ job[p].op \in ops

Active(state) == state \in State /\ state.ours /\ state.status = "ACTIVE"

Anchored == anchor # None /\ anchor.status = "ACTIVE"

\* AuthorityStore.check passes and returns the record of an ACTIVE anchor.
Checks ==
  /\ Anchored
  /\ \A f \in File : files[f] = anchor.digest[f]
  /\ Active(files[Ledger])

\* Or it passes because a retired anchor's ledger is the one it retired with.
Settled ==
  /\ anchor # None /\ ~Anchored
  /\ files[Ledger] = anchor.digest[Ledger]

\* The operation ends, by return or by an exception; a lock is released.
End(p) ==
  /\ Goto(p, "idle")
  /\ job' = [job EXCEPT ![p] = None]
  /\ mine' = [mine EXCEPT ![p] = None]
  /\ lock' = IF lock = p THEN None ELSE lock
  /\ todo' = IF lock = p THEN {} ELSE todo

\* A caller decides on an operation, on the anchor and the ledger it reads.
Ask(p) ==
  /\ pc[p] = "idle"
  /\ \E op \in OpsOf[p], mode \in Modes :
       /\ op # "switch" => mode = CHOOSE m \in Modes : TRUE
       /\ job' = [job EXCEPT ![p] =
            [op |-> op,
             expected |-> IF op \in {"switch", "recover"} THEN anchor ELSE None,
             base |-> IF op \in {"update", "close", "switch"}
                        THEN files[Ledger] ELSE Absent,
             mode |-> mode]]
  /\ Goto(p, "asked")
  /\ UNCHANGED <<files, anchor, lock, mine, todo, archive, writes, tampers, dirty>>

-----------------------------------------------------------------------------
(* establish *)

\* The ledger is this task's and ACTIVE, and nothing was ever anchored.
Establish(p) ==
  /\ pc[p] = "asked" /\ Runs(p, {"establish"})
  /\ Active(files[Ledger])
  /\ anchor = None
  /\ Mine(p, [status |-> "ACTIVE", mode |-> job[p].mode, digest |-> files,
              snapshot |-> files, log |-> 0])
  /\ Goto(p, "digest")
  /\ UNCHANGED <<files, anchor, lock, job, todo, archive, writes, tampers, dirty>>

-----------------------------------------------------------------------------
(* check; a ledger command; checkpoint *)

Commands == {"observe", "update", "close"}
Checkpoints == Commands \cup {"abandon"}

\* Mutant: the adapter does not check before its command.
BeginUnchecked(p) ==
  /\ pc[p] = "asked" /\ Runs(p, Commands)
  /\ anchor # None
  /\ p \in Locked => lock = None
  /\ lock' = IF p \in Locked THEN p ELSE lock
  /\ Goto(p, "checked")
  /\ UNCHANGED <<files, anchor, job, mine, todo, archive, writes, tampers, dirty>>

Begin(p) ==
  /\ pc[p] = "asked" /\ Runs(p, Commands)
  /\ p \in Locked => lock = None
  /\ Checks
  /\ lock' = IF p \in Locked THEN p ELSE lock
  /\ Goto(p, "checked")
  /\ UNCHANGED <<files, anchor, job, mine, todo, archive, writes, tampers, dirty>>

\* The content a Core write leaves: one more revision of what it loaded.
Rewritten(state, status) ==
  [write |-> writes + 1, on |-> state.write, revision |-> state.revision + 1,
   status |-> status, ours |-> TRUE]

\* A ledger command: load, check_revision unless it only observes, replace.
Mutate(p) ==
  /\ pc[p] = "checked"
  /\ lock \in {None, p} /\ (p \in Locked => lock = p)
  /\ LET state == files[Ledger]
         status == IF job[p].op = "close" THEN "DONE" ELSE "ACTIVE"
     IN  /\ Active(state)
         /\ job[p].op # "observe" =>
              job[p].base \in State /\ job[p].base.revision = state.revision
         /\ writes < MaxWrites
         /\ files' = [files EXCEPT ![Ledger] = Rewritten(state, status)]
  /\ writes' = writes + 1
  /\ Goto(p, "reread")
  /\ UNCHANGED <<anchor, lock, job, mine, todo, archive, tampers, dirty>>

\* The adapter deletes the ledger, as a checked command: it abandons an ACTIVE
\* task, or clears away one that is DONE.
Abandon(p) ==
  /\ pc[p] = "asked" /\ Runs(p, {"abandon"})
  /\ lock = None
  /\ Checks \/ Settled
  /\ files' = [files EXCEPT ![Ledger] = Absent]
  /\ Goto(p, "reread")
  /\ UNCHANGED <<anchor, lock, job, mine, todo, archive, writes, tampers, dirty>>

\* Mutant: checkpoint takes a retired anchor too.
RereadAny(p) ==
  /\ pc[p] = "reread"
  /\ anchor # None
  /\ Mine(p, anchor)
  /\ Goto(p, "digest")
  /\ UNCHANGED <<files, anchor, lock, job, todo, archive, writes, tampers, dirty>>

\* checkpoint reads the anchor, and has nothing to do unless it is ACTIVE.
Reread(p) ==
  /\ pc[p] = "reread"
  /\ Anchored
  /\ Mine(p, anchor)
  /\ Goto(p, "digest")
  /\ UNCHANGED <<files, anchor, lock, job, todo, archive, writes, tampers, dirty>>

RereadInactive(p) ==
  /\ pc[p] = "reread"
  /\ ~Anchored
  /\ End(p)
  /\ UNCHANGED <<files, anchor, archive, writes, tampers, dirty>>

\* Its digests: all of them for establish, else the ledger's.
Taken(p) == IF job[p].op = "establish" THEN File ELSE {Ledger}
With(f, taken) == [name \in File |-> IF name \in taken THEN files[name] ELSE f[name]]

Digest(p) ==
  /\ pc[p] = "digest"
  /\ Mine(p, [mine[p] EXCEPT !.digest = With(@, Taken(p))])
  /\ Goto(p, "bytes")
  /\ UNCHANGED <<files, anchor, lock, job, todo, archive, writes, tampers, dirty>>

\* Mutant: checkpoint keeps the snapshot of the ledger it had.
ReadNoBytes(p) ==
  /\ pc[p] = "bytes"
  /\ Goto(p, IF job[p].op \in Checkpoints THEN "status" ELSE "write")
  /\ UNCHANGED <<files, anchor, lock, job, mine, todo, archive, writes, tampers, dirty>>

\* The bytes are read again.  For checkpoint a ledger whose digest was ABSENT
\* has none; a ledger missing by now raises.
ReadBytes(p) ==
  /\ pc[p] = "bytes"
  /\ LET gone == job[p].op \in Checkpoints /\ mine[p].digest[Ledger] = Absent
     IN  /\ job[p].op = "establish" \/ gone \/ files[Ledger] # Absent
         /\ Mine(p, [mine[p] EXCEPT !.snapshot =
              IF gone THEN [@ EXCEPT ![Ledger] = Absent] ELSE With(@, Taken(p))])
  /\ Goto(p, IF job[p].op \in Checkpoints THEN "status" ELSE "write")
  /\ UNCHANGED <<files, anchor, lock, job, todo, archive, writes, tampers, dirty>>

\* Its status, from the ledger as it is by then: it must be this task's.
Status(p) ==
  /\ pc[p] = "status"
  /\ IF mine[p].digest[Ledger] = Absent
       THEN Mine(p, [mine[p] EXCEPT !.status = "ABANDONED"])
       ELSE /\ files[Ledger] \in State /\ files[Ledger].ours
            /\ Mine(p, [mine[p] EXCEPT !.status = files[Ledger].status])
  /\ Goto(p, "write")
  /\ UNCHANGED <<files, anchor, lock, job, todo, archive, writes, tampers, dirty>>

\* The anchor is replaced, whatever it holds by now.
Write(p) ==
  /\ pc[p] = "write"
  /\ anchor' = mine[p]
  /\ End(p)
  /\ UNCHANGED <<files, archive, writes, tampers, dirty>>

-----------------------------------------------------------------------------
(* switch_mode *)

\* Mutant: the decision is compared with the ledger's revision alone.
SwitchUncompared(p) ==
  /\ pc[p] = "asked" /\ Runs(p, {"switch"})
  /\ lock = None
  /\ Checks
  /\ job[p].base \in State /\ job[p].base.revision = files[Ledger].revision
  /\ anchor.log < MaxLog
  /\ lock' = p
  /\ Mine(p, [anchor EXCEPT !.mode = job[p].mode, !.log = @ + 1])
  /\ Goto(p, "rewrite")
  /\ UNCHANGED <<files, anchor, job, todo, archive, writes, tampers, dirty>>

\* Under the lock: the anchor is the one the decision was made on, the
\* repository matches it, and the ledger's revision is the caller's.
Switch(p) ==
  /\ pc[p] = "asked" /\ Runs(p, {"switch"})
  /\ lock = None
  /\ job[p].expected = anchor
  /\ Checks
  /\ job[p].base \in State /\ job[p].base.revision = files[Ledger].revision
  /\ anchor.log < MaxLog
  /\ lock' = p
  /\ Mine(p, [anchor EXCEPT !.mode = job[p].mode, !.log = @ + 1])
  /\ Goto(p, "rewrite")
  /\ UNCHANGED <<files, anchor, job, todo, archive, writes, tampers, dirty>>

\* The ledger first (from the state loaded by the previous step), and then
\* the anchor, by the steps of checkpoint.
Rewrite(p) ==
  /\ pc[p] = "rewrite"
  /\ writes < MaxWrites
  /\ files' = [files EXCEPT ![Ledger] = Rewritten(mine[p].digest[Ledger], "ACTIVE")]
  /\ writes' = writes + 1
  /\ Goto(p, "digest")
  /\ UNCHANGED <<anchor, lock, job, mine, todo, archive, tampers, dirty>>

-----------------------------------------------------------------------------
(* recover *)

Recover(p) ==
  /\ pc[p] = "asked" /\ Runs(p, {"recover"})
  /\ lock = None
  /\ job[p].expected = anchor
  /\ Anchored
  /\ anchor.log < MaxLog
  /\ lock' = p
  /\ Mine(p, [anchor EXCEPT !.log = @ + 1])
  /\ Goto(p, "archive")
  /\ UNCHANGED <<files, anchor, job, todo, archive, writes, tampers, dirty>>

\* Mutant: only the protected files are archived.
ArchiveProtected(p) ==
  /\ pc[p] = "archive"
  /\ archive' = archive \cup ({files[f] : f \in Protected} \ {Absent})
  /\ todo' = File
  /\ Goto(p, "restore")
  /\ UNCHANGED <<files, anchor, lock, job, mine, writes, tampers, dirty>>

\* Every file that exists is archived before any is touched.
Archive(p) ==
  /\ pc[p] = "archive"
  /\ archive' = archive \cup ({files[f] : f \in File} \ {Absent})
  /\ todo' = File
  /\ Goto(p, "restore")
  /\ UNCHANGED <<files, anchor, lock, job, mine, writes, tampers, dirty>>

Restore(p) ==
  /\ pc[p] = "restore"
  /\ \E f \in todo :
       /\ files' = [files EXCEPT ![f] = mine[p].snapshot[f]]
       /\ todo' = todo \ {f}
       /\ Goto(p, IF todo' = {} THEN "adapter" ELSE "restore")
  /\ UNCHANGED <<anchor, lock, job, mine, archive, writes, tampers, dirty>>

\* The adapter restores its own evidence, and the anchor is written last.
Record(p) ==
  /\ pc[p] = "adapter"
  /\ anchor' = mine[p]
  /\ Goto(p, "verify")
  /\ UNCHANGED <<files, lock, job, mine, todo, archive, writes, tampers, dirty>>

\* The final check, whose failure is reported.
Verify(p) ==
  /\ pc[p] = "verify"
  /\ End(p)
  /\ UNCHANGED <<files, anchor, archive, writes, tampers, dirty>>

-----------------------------------------------------------------------------

\* A refusal, an exception or a kill: the operation stops where it is.
Stop(p) ==
  /\ pc[p] # "idle"
  /\ End(p)
  /\ UNCHANGED <<files, anchor, archive, writes, tampers, dirty>>

\* Someone edits, deletes or puts back a file of the repository.
Tamper ==
  /\ tampers < MaxTampers
  /\ tampers' = tampers + 1
  /\ \E f \in File :
       \E c \in (IF f = Ledger THEN {Foreign, Started, Absent} ELSE {[edited |-> TRUE]}) :
         c # files[f] /\ files' = [files EXCEPT ![f] = c]
  /\ dirty' = (dirty \/ \E p \in Process : pc[p] # "idle")
  /\ UNCHANGED <<anchor, lock, job, pc, mine, todo, archive, writes>>

Next ==
  \/ \E p \in Process :
       \/ Ask(p) \/ Establish(p)
       \/ Begin(p) \/ Mutate(p) \/ Abandon(p)
       \/ Reread(p) \/ RereadInactive(p)
       \/ Digest(p) \/ ReadBytes(p) \/ Status(p) \/ Write(p)
       \/ Switch(p) \/ Rewrite(p)
       \/ Recover(p) \/ Archive(p) \/ Restore(p) \/ Record(p) \/ Verify(p)
       \/ Stop(p)
  \/ Tamper

Spec == Init /\ [][Next]_vars
-----------------------------------------------------------------------------

\* Recovery can succeed: the digests an ACTIVE anchor will be checked against
\* are those of the bytes it would restore, and its ledger is this task's and
\* ACTIVE.  So it is after every checkpoint, switch, recovery and crash,
\* unless a file was edited between the decision on an operation and its end.
AnchorIsRestorable ==
  Anchored /\ ~dirty =>
    anchor.digest = anchor.snapshot /\ Active(anchor.snapshot[Ledger])

\* checkpoint retires an anchor for good: a DONE or ABANDONED anchor is never
\* written again.
RetiredStaysRetired ==
  [][anchor # None /\ ~Anchored /\ ~dirty => anchor' = anchor]_vars

\* The claim made for checkpoint (task authority document): it never
\* reactivates a retired anchor.
NeverReactivated ==
  [][anchor # None /\ ~Anchored => anchor'.status # "ACTIVE"]_vars

\* No content slips in unchecked: a newly anchored ledger was written by Core
\* on top of the one anchored before it.
AnchorFollowsLedger ==
  [][anchor # None /\ ~dirty =>
       LET old == anchor.snapshot[Ledger]
           new == anchor'.snapshot[Ledger]
       IN  new \in {old, Absent} \/ (new \in State /\ new.on = old.write)]_vars

\* The contract's mode changes only by a decision made on the very anchor it
\* replaces; a stale decision never changes a newer contract.
SwitchIsCurrent ==
  [][anchor # None /\ ~dirty /\ anchor'.mode # anchor.mode =>
       \E p \in Process :
         /\ Runs(p, {"switch"})
         /\ job[p].expected = anchor
         /\ job[p].mode = anchor'.mode]_vars

\* Recovery destroys nothing: the bytes it replaces, committed but not yet
\* anchored ledgers included, are in its archive, unless they were edited
\* after it was made.
RecoveryArchives ==
  [][\A f \in File :
       todo # {} /\ tampers' = tampers /\ files'[f] # files[f]
         => dirty \/ files[f] \in archive \cup {Absent}]_vars

\* The claim made for writes with a base revision (routing protocol): a stale
\* write is refused.  A write is stale if the ledger its caller read is not
\* the one it replaces.
StaleWriteRefused ==
  [][\A p \in Process :
       Runs(p, {"update", "close"}) /\ pc[p] = "checked" /\ pc'[p] = "reread"
         => files[Ledger] = job[p].base]_vars
=============================================================================
