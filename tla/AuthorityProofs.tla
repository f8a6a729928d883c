-------------------------- MODULE AuthorityProofs --------------------------
(***************************************************************************)
(* Theorems about Authority, for any processes, files, modes and bounds.   *)
(*                                                                         *)
(* Orderly holds of any processes: who runs what at which step, who holds  *)
(* the lock, which ledgers exist, and that a recovery archives what it     *)
(* replaces.  The theorems about the anchor are of a repository with one   *)
(* Controller (SingleController, a condition on the constants), where      *)
(* commands without the lock, retirements and recoveries are one process's *)
(* and nobody edits a file under an operation.  Their invariant            *)
(* (Undisturbed) is that at most one process is past its check at a time,  *)
(* that the record it builds agrees with the files and the anchor it read, *)
(* and that a revision read by a command without the lock is still the     *)
(* ledger's, or the command's revision check will refuse.                  *)
(***************************************************************************)
EXTENDS Authority, TLAPS

Underway(p) == pc[p] \notin {"idle", "asked"}

\* p holds the lock from its check to its end.
TakesLock(p) ==
  \/ Runs(p, {"switch", "recover"})
  \/ p \in Locked /\ Runs(p, Commands)

Builds == {"rewrite", "digest", "bytes", "status", "write"}
Recovers == {"archive", "restore", "adapter", "verify"}

\* What a process may be running at a step.
Fitting(p, step) ==
  /\ step = "checked" => Runs(p, Commands)
  /\ step \in {"reread", "status"} => Runs(p, Checkpoints)
  /\ step \in {"digest", "bytes", "write"} =>
       Runs(p, Checkpoints \cup {"establish", "switch"})
  /\ step = "rewrite" => Runs(p, {"switch"})
  /\ step \in Recovers => Runs(p, {"recover"})

RunsAt(p) ==
  /\ Fitting(p, pc[p])
  /\ job[p] # None => job[p].op \in OpsOf[p]
  /\ pc[p] \in Builds \cup Recovers => mine[p] # None
  /\ pc[p] = "rewrite" => mine[p].digest[Ledger] \in State

Locking ==
  /\ \A p \in Process :
       /\ RunsAt(p)
       /\ lock = p => Underway(p)
       /\ Underway(p) /\ TakesLock(p) => lock = p
  /\ todo # {} => \E p \in Process : lock = p /\ pc[p] = "restore"

\* Bytes that are a ledger were written by one of the writes so far.
Counted(bytes) ==
  bytes \in State => bytes.write <= writes /\ bytes.revision <= writes

Vouched(record) ==
  record # None =>
    Counted(record.digest[Ledger]) /\ Counted(record.snapshot[Ledger])

Numbered ==
  /\ Counted(files[Ledger]) /\ Vouched(anchor)
  /\ \A p \in Process : Vouched(mine[p])

-----------------------------------------------------------------------------
(* Records and files *)

LEMMA Contents ==
  /\ Started \in State /\ Foreign \in State /\ ~Foreign.ours
  /\ \A c \in {Started, Foreign} : c.write <= 1 /\ c.revision <= 1
  /\ \A b \in BOOLEAN : [edited |-> b] \in Setting
  /\ Absent \notin State /\ Absent \notin Setting /\ Absent \in Bytes
  /\ State \subseteq Bytes /\ Setting \subseteq Bytes
<1>1. MaxWrites \in Nat /\ 1 <= MaxWrites
  BY BoundsAssumption
<1>2. 0 \in 0 .. MaxWrites /\ 1 \in 0 .. MaxWrites /\ 1 \in 1 .. MaxWrites
  BY <1>1
<1>3. Started \in State
  BY <1>2 DEF Started, State
<1>4. Foreign \in State /\ ~Foreign.ours
  BY <1>2 DEF Foreign, Started, State
<1>5. \A c \in {Started, Foreign} : c.write <= 1 /\ c.revision <= 1
  <2>1. Started.write = 1 /\ Started.revision = 1
    BY DEF Started
  <2>2. Foreign.write = 0 /\ Foreign.revision = 1
    BY DEF Foreign, Started
  <2> QED
    BY <2>1, <2>2
<1> QED
  BY <1>3, <1>4, <1>5, AbsentAssumption DEF Setting, Bytes

\* A ledger is no setting.
LEMMA Apart == State \cap Setting = {}
<1> SUFFICES ASSUME NEW b \in State, b \in Setting
             PROVE  FALSE
  OBVIOUS
<1>1. DOMAIN b = {"edited"}
  BY DEF Setting
<1>2. DOMAIN b = {"write", "on", "revision", "status", "ours"}
  BY DEF State
<1> QED
  BY <1>1, <1>2

LEMMA Put ==
  ASSUME NEW f \in Files, NEW name \in File, NEW c \in Bytes,
         IF name = Ledger THEN c \notin Setting ELSE c \notin State
  PROVE  [f EXCEPT ![name] = c] \in Files
  BY NamesAssumption DEF Files, File

LEMMA WithTypes ==
  ASSUME files \in Files, NEW f \in Files, NEW taken \in SUBSET File
  PROVE  /\ With(f, taken) \in Files
         /\ \A name \in taken : With(f, taken)[name] = files[name]
         /\ \A name \in File \ taken : With(f, taken)[name] = f[name]
  BY NamesAssumption DEF With, Files, File

LEMMA Fields ==
  ASSUME NEW r \in Anchor
  PROVE  /\ r.status \in {"ACTIVE", "DONE", "ABANDONED"} /\ r.mode \in Modes
         /\ r.digest \in Files /\ r.snapshot \in Files /\ r.log \in 0 .. MaxLog
  BY DEF Anchor

LEMMA SetDigest ==
  ASSUME NEW r \in Anchor, NEW d \in Files
  PROVE  /\ [r EXCEPT !.digest = d] \in Anchor
         /\ [r EXCEPT !.digest = d].digest = d
         /\ [r EXCEPT !.digest = d].snapshot = r.snapshot
         /\ [r EXCEPT !.digest = d].status = r.status
         /\ [r EXCEPT !.digest = d].mode = r.mode
  BY DEF Anchor

LEMMA SetSnapshot ==
  ASSUME NEW r \in Anchor, NEW d \in Files
  PROVE  /\ [r EXCEPT !.snapshot = d] \in Anchor
         /\ [r EXCEPT !.snapshot = d].digest = r.digest
         /\ [r EXCEPT !.snapshot = d].snapshot = d
         /\ [r EXCEPT !.snapshot = d].status = r.status
         /\ [r EXCEPT !.snapshot = d].mode = r.mode
  BY DEF Anchor

LEMMA SetStatus ==
  ASSUME NEW r \in Anchor, NEW s \in {"ACTIVE", "DONE", "ABANDONED"}
  PROVE  /\ [r EXCEPT !.status = s] \in Anchor
         /\ [r EXCEPT !.status = s].digest = r.digest
         /\ [r EXCEPT !.status = s].snapshot = r.snapshot
         /\ [r EXCEPT !.status = s].status = s
         /\ [r EXCEPT !.status = s].mode = r.mode
  BY DEF Anchor

LEMMA SetLog ==
  ASSUME NEW r \in Anchor, r.log < MaxLog
  PROVE  [r EXCEPT !.log = @ + 1] \in Anchor
<1>1. r.log + 1 \in 0 .. MaxLog
  BY BoundsAssumption DEF Anchor
<1> QED
  BY <1>1 DEF Anchor

LEMMA SetMode ==
  ASSUME NEW r \in Anchor, r.log < MaxLog, NEW m \in Modes
  PROVE  /\ [r EXCEPT !.mode = m, !.log = @ + 1] \in Anchor
         /\ [r EXCEPT !.mode = m, !.log = @ + 1].digest = r.digest
         /\ [r EXCEPT !.mode = m, !.log = @ + 1].snapshot = r.snapshot
         /\ [r EXCEPT !.mode = m, !.log = @ + 1].status = r.status
         /\ [r EXCEPT !.mode = m, !.log = @ + 1].mode = m
<1>1. r.log + 1 \in 0 .. MaxLog
  BY BoundsAssumption DEF Anchor
<1> QED
  BY <1>1 DEF Anchor

LEMMA RewrittenTypes ==
  ASSUME NEW state \in State, NEW status \in {"ACTIVE", "DONE"}, Counted(state),
         writes \in 1 .. MaxWrites, writes < MaxWrites
  PROVE  /\ Rewritten(state, status) \in State
         /\ Rewritten(state, status).write = writes + 1
         /\ Rewritten(state, status).on = state.write
         /\ Rewritten(state, status).revision = state.revision + 1
         /\ Rewritten(state, status).status = status
         /\ Rewritten(state, status).ours
         /\ state.write \in Nat /\ state.revision \in Nat
<1>1. MaxWrites \in Nat /\ writes \in Nat
  BY BoundsAssumption
<1>2. /\ state.write \in 0 .. MaxWrites /\ state.revision \in 1 .. MaxWrites
      /\ state.write <= writes /\ state.revision <= writes
  BY DEF Counted, State
<1>3. /\ writes + 1 \in 0 .. MaxWrites /\ state.revision + 1 \in 1 .. MaxWrites
      /\ state.write \in 0 .. MaxWrites
  BY <1>1, <1>2
<1> QED
  BY <1>1, <1>2, <1>3 DEF Rewritten, State

-----------------------------------------------------------------------------
(* Steps of one process *)

LEMMA EndEffect ==
  ASSUME TypeOK, NEW p \in Process, End(p)
  PROVE  /\ lock' \in {None} \cup {q \in Process : job'[q] # None}
         /\ job' \in [Process -> Job \cup {None}]
         /\ pc' \in [Process -> Steps]
         /\ mine' \in [Process -> Anchor \cup {None}]
         /\ \A q \in Process : (pc'[q] = "idle") = (job'[q] = None)
         /\ todo' \subseteq todo
         /\ pc'[p] = "idle" /\ job'[p] = None /\ mine'[p] = None /\ lock' # p
         /\ \A q \in Process \ {p} :
              /\ pc'[q] = pc[q] /\ job'[q] = job[q] /\ mine'[q] = mine[q]
              /\ (lock' = q) = (lock = q)
         /\ todo' # {} => lock # p /\ lock' = lock
<1>1. /\ pc'[p] = "idle" /\ job'[p] = None /\ mine'[p] = None
      /\ \A q \in Process \ {p} :
           pc'[q] = pc[q] /\ job'[q] = job[q] /\ mine'[q] = mine[q]
      /\ job' \in [Process -> Job \cup {None}]
      /\ pc' \in [Process -> Steps]
      /\ mine' \in [Process -> Anchor \cup {None}]
  BY DEF TypeOK, End, Goto, Steps
<1>2. /\ lock' # p /\ \A q \in Process \ {p} : (lock' = q) = (lock = q)
      /\ lock' \in {None} \cup {q \in Process : job'[q] # None}
  BY <1>1, NamesAssumption DEF TypeOK, End
<1>3. \A q \in Process : (pc'[q] = "idle") = (job'[q] = None)
  BY <1>1 DEF TypeOK
<1>4. todo' \subseteq todo /\ (todo' # {} => lock # p /\ lock' = lock)
  BY DEF End
<1> QED
  BY <1>1, <1>2, <1>3, <1>4

LEMMA GotoEffect ==
  ASSUME TypeOK, NEW p \in Process, NEW s \in Steps, Goto(p, s)
  PROVE  /\ pc' \in [Process -> Steps] /\ pc'[p] = s
         /\ \A q \in Process \ {p} : pc'[q] = pc[q]
  BY DEF TypeOK, Goto, Steps

LEMMA MineEffect ==
  ASSUME TypeOK, NEW p \in Process, NEW r \in Anchor, Mine(p, r)
  PROVE  /\ mine' \in [Process -> Anchor \cup {None}]
         /\ mine'[p] = r /\ r # None
         /\ \A q \in Process \ {p} : mine'[q] = mine[q]
  BY NoneAssumption DEF TypeOK, Mine

\* What an operation that is under way, or asked for, is.
LEMMA JobTypes ==
  ASSUME TypeOK, NEW p \in Process, pc[p] # "idle"
  PROVE  /\ job[p] \in Job /\ job[p] # None
         /\ job[p].op \in Op /\ job[p].mode \in Modes /\ job[p].base \in Bytes
<1>1. job[p] \in Job
  BY DEF TypeOK
<1> QED
  BY <1>1, NoneAssumption DEF Job

LEMMA AskEffect ==
  ASSUME TypeOK, NEW p \in Process, Ask(p)
  PROVE  \E j \in Job :
           /\ job' = [job EXCEPT ![p] = j]
           /\ j.op \in OpsOf[p]
           /\ j.op \in {"update", "close"} => j.base = files[Ledger]
<1>1. PICK op \in OpsOf[p], mode \in Modes : job' = [job EXCEPT ![p] =
        [op |-> op,
         expected |-> IF op \in {"switch", "recover"} THEN anchor ELSE None,
         base |-> IF op \in {"update", "close", "switch"}
                    THEN files[Ledger] ELSE Absent,
         mode |-> mode]]
  BY DEF Ask
<1> DEFINE expected == IF op \in {"switch", "recover"} THEN anchor ELSE None
           base == IF op \in {"update", "close", "switch"}
                     THEN files[Ledger] ELSE Absent
           j == [op |-> op, expected |-> expected, base |-> base, mode |-> mode]
<1>2. op \in Op /\ expected \in Anchor \cup {None}
  BY OpsAssumption DEF TypeOK
<1>3. base \in Bytes
  BY DEF TypeOK, Files, File, Bytes
<1>4. job' = [job EXCEPT ![p] = j]
  BY <1>1
<1>5. op \in {"update", "close"} => base = files[Ledger]
  OBVIOUS
<1> HIDE DEF expected, base
<1>6. j \in Job
  BY <1>2, <1>3 DEF Job
<1> QED
  BY <1>4, <1>5, <1>6

\* The steps by which a record is built.

LEMMA EstablishEffect ==
  ASSUME TypeOK, NEW p \in Process, Establish(p)
  PROVE  \E r \in Anchor :
           /\ Mine(p, r)
           /\ r.digest = files /\ r.snapshot = files /\ r.status = "ACTIVE"
<1> DEFINE r == [status |-> "ACTIVE", mode |-> job[p].mode, digest |-> files,
                 snapshot |-> files, log |-> 0]
<1>1. job[p].mode \in Modes
  BY JobTypes DEF Establish
<1>2. 0 \in 0 .. MaxLog /\ files \in Files
  BY BoundsAssumption DEF TypeOK
<1>3. r \in Anchor
  BY <1>1, <1>2 DEF Anchor
<1> QED
  BY <1>3 DEF Establish

LEMMA DigestEffect ==
  ASSUME TypeOK, Locking, NEW p \in Process, Digest(p)
  PROVE  \E r \in Anchor :
           /\ Mine(p, r)
           /\ r.digest = With(mine[p].digest, Taken(p))
           /\ r.snapshot = mine[p].snapshot
           /\ r.status = mine[p].status /\ r.mode = mine[p].mode
<1>1. mine[p] \in Anchor
  BY DEF TypeOK, Locking, RunsAt, Digest, Builds
<1>2. With(mine[p].digest, Taken(p)) \in Files
  BY <1>1, Fields, WithTypes DEF TypeOK, Taken, File
<1>3. Mine(p, [mine[p] EXCEPT !.digest = With(mine[p].digest, Taken(p))])
  BY DEF Digest
<1> QED
  BY <1>1, <1>2, <1>3, SetDigest

LEMMA ReadBytesEffect ==
  ASSUME TypeOK, Locking, NEW p \in Process, ReadBytes(p)
  PROVE  \E r \in Anchor, d \in Files :
           /\ Mine(p, r)
           /\ d = IF job[p].op \in Checkpoints /\ mine[p].digest[Ledger] = Absent
                    THEN [mine[p].snapshot EXCEPT ![Ledger] = Absent]
                    ELSE With(mine[p].snapshot, Taken(p))
           /\ r.snapshot = d /\ r.digest = mine[p].digest
           /\ r.status = mine[p].status /\ r.mode = mine[p].mode
<1> DEFINE d == IF job[p].op \in Checkpoints /\ mine[p].digest[Ledger] = Absent
                    THEN [mine[p].snapshot EXCEPT ![Ledger] = Absent]
                    ELSE With(mine[p].snapshot, Taken(p))
<1>1. mine[p] \in Anchor
  BY DEF TypeOK, Locking, RunsAt, ReadBytes, Builds
<1>2. With(mine[p].snapshot, Taken(p)) \in Files
  BY <1>1, Fields, WithTypes DEF TypeOK, Taken, File
<1>3. [mine[p].snapshot EXCEPT ![Ledger] = Absent] \in Files
  BY <1>1, Fields, Put, Contents DEF File
<1>4. d \in Files
  BY <1>2, <1>3
<1>5. Mine(p, [mine[p] EXCEPT !.snapshot = d])
  BY DEF ReadBytes
<1> HIDE DEF d
<1>6. [mine[p] EXCEPT !.snapshot = d] \in Anchor
  BY <1>1, <1>4, SetSnapshot
<1>7. /\ [mine[p] EXCEPT !.snapshot = d].snapshot = d
      /\ [mine[p] EXCEPT !.snapshot = d].digest = mine[p].digest
      /\ [mine[p] EXCEPT !.snapshot = d].status = mine[p].status
      /\ [mine[p] EXCEPT !.snapshot = d].mode = mine[p].mode
  BY <1>1, <1>4, SetSnapshot
<1> QED
  BY <1>4, <1>5, <1>6, <1>7 DEF d

LEMMA StatusEffect ==
  ASSUME TypeOK, Locking, NEW p \in Process, Status(p)
  PROVE  \E r \in Anchor :
           /\ Mine(p, r)
           /\ r.digest = mine[p].digest /\ r.snapshot = mine[p].snapshot
           /\ r.mode = mine[p].mode
           /\ IF mine[p].digest[Ledger] = Absent THEN r.status = "ABANDONED"
                ELSE files[Ledger] \in State /\ r.status = files[Ledger].status
<1>1. mine[p] \in Anchor
  BY DEF TypeOK, Locking, RunsAt, Status, Builds
<1>2. CASE mine[p].digest[Ledger] = Absent
  BY <1>1, <1>2, SetStatus DEF Status
<1>3. CASE mine[p].digest[Ledger] # Absent
  <2>1. files[Ledger] \in State
    BY <1>3 DEF Status
  <2>2. files[Ledger].status \in {"ACTIVE", "DONE", "ABANDONED"}
    BY <2>1 DEF State
  <2> QED
    BY <1>1, <1>3, <2>1, <2>2, SetStatus DEF Status
<1> QED
  BY <1>2, <1>3

LEMMA SwitchEffect ==
  ASSUME TypeOK, NEW p \in Process, Switch(p)
  PROVE  /\ anchor \in Anchor
         /\ \E r \in Anchor :
              /\ Mine(p, r)
              /\ r.digest = anchor.digest /\ r.snapshot = anchor.snapshot
              /\ r.status = anchor.status /\ r.mode = job[p].mode
<1>1. anchor \in Anchor /\ anchor.log < MaxLog
  BY DEF TypeOK, Switch, Checks, Anchored
<1>2. job[p].mode \in Modes
  BY JobTypes DEF Switch
<1>3. Mine(p, [anchor EXCEPT !.mode = job[p].mode, !.log = @ + 1])
  BY DEF Switch
<1> QED
  BY <1>1, <1>2, <1>3, SetMode

LEMMA RecoverEffect ==
  ASSUME TypeOK, NEW p \in Process, Recover(p)
  PROVE  /\ anchor \in Anchor
         /\ \E r \in Anchor :
              /\ Mine(p, r)
              /\ r.digest = anchor.digest /\ r.snapshot = anchor.snapshot
              /\ r.status = anchor.status /\ r.mode = anchor.mode
<1>1. anchor \in Anchor /\ anchor.log < MaxLog
  BY DEF TypeOK, Recover, Anchored
<1>2. [anchor EXCEPT !.log = @ + 1] \in Anchor
  BY <1>1, SetLog
<1> QED
  BY <1>1, <1>2 DEF Recover, Anchor

\* The steps that change a file.

LEMMA MutateEffect ==
  ASSUME TypeOK, Numbered, NEW p \in Process, Mutate(p)
  PROVE  /\ Active(files[Ledger]) /\ writes' = writes + 1
         /\ writes' \in 1 .. MaxWrites
         /\ \E new \in State :
              /\ files' = [files EXCEPT ![Ledger] = new]
              /\ files' \in Files /\ files'[Ledger] = new
              /\ new.write = writes + 1 /\ new.on = files[Ledger].write /\ new.ours
              /\ new.revision = files[Ledger].revision + 1
<1> DEFINE status == IF job[p].op = "close" THEN "DONE" ELSE "ACTIVE"
           new == Rewritten(files[Ledger], status)
<1>1. /\ Active(files[Ledger]) /\ files[Ledger] \in State
      /\ writes < MaxWrites /\ writes' = writes + 1
      /\ files' = [files EXCEPT ![Ledger] = new]
  BY DEF Mutate, Active
<1>2. writes \in 1 .. MaxWrites /\ Counted(files[Ledger])
  BY DEF TypeOK, Numbered
<1>3. writes' \in 1 .. MaxWrites
  BY <1>1, <1>2, BoundsAssumption
<1>4. /\ new \in State /\ new.write = writes + 1 /\ new.on = files[Ledger].write
      /\ new.revision = files[Ledger].revision + 1 /\ new.ours
  BY <1>1, <1>2, RewrittenTypes
<1> HIDE DEF new
<1>5. new \in Bytes /\ new \notin Setting
  BY <1>4, Apart, Contents
<1>6. [files EXCEPT ![Ledger] = new] \in Files
  BY <1>5, Put DEF TypeOK, File
<1>7. files'[Ledger] = new
  BY <1>1 DEF TypeOK, Files, File
<1> QED
  BY <1>1, <1>3, <1>4, <1>6, <1>7

LEMMA RewriteEffect ==
  ASSUME TypeOK, Locking, Numbered, NEW p \in Process, Rewrite(p)
  PROVE  /\ writes' = writes + 1 /\ writes' \in 1 .. MaxWrites
         /\ mine[p] \in Anchor /\ mine[p].digest[Ledger] \in State
         /\ \E new \in State :
              /\ files' = [files EXCEPT ![Ledger] = new]
              /\ files' \in Files /\ files'[Ledger] = new
              /\ new.write = writes + 1 /\ new.on = mine[p].digest[Ledger].write
              /\ new.revision = mine[p].digest[Ledger].revision + 1 /\ Active(new)
<1> DEFINE old == mine[p].digest[Ledger]
           new == Rewritten(old, "ACTIVE")
<1>1. /\ writes < MaxWrites /\ writes' = writes + 1
      /\ files' = [files EXCEPT ![Ledger] = new]
  BY DEF Rewrite
<1>2. mine[p] \in Anchor /\ old \in State /\ Counted(old)
  BY DEF TypeOK, Locking, RunsAt, Numbered, Vouched, Rewrite, Builds
<1>3. writes \in 1 .. MaxWrites
  BY DEF TypeOK
<1>4. writes' \in 1 .. MaxWrites
  BY <1>1, <1>3, BoundsAssumption
<1>5. /\ new \in State /\ new.write = writes + 1 /\ new.on = old.write
      /\ new.revision = old.revision + 1 /\ new.ours /\ new.status = "ACTIVE"
  BY <1>1, <1>2, <1>3, RewrittenTypes
<1> HIDE DEF new
<1>6. new \in Bytes /\ new \notin Setting
  BY <1>5, Apart, Contents
<1>7. [files EXCEPT ![Ledger] = new] \in Files
  BY <1>6, Put DEF TypeOK, File
<1>8. files'[Ledger] = new
  BY <1>1 DEF TypeOK, Files, File
<1> QED
  BY <1>1, <1>2, <1>4, <1>5, <1>7, <1>8 DEF Active

LEMMA AbandonEffect ==
  ASSUME TypeOK, NEW p \in Process, Abandon(p)
  PROVE  files' \in Files /\ files'[Ledger] = Absent
<1>1. [files EXCEPT ![Ledger] = Absent] \in Files
  BY Put, Contents DEF TypeOK, File
<1>2. files' = [files EXCEPT ![Ledger] = Absent]
  BY DEF Abandon
<1> QED
  BY <1>1, <1>2 DEF TypeOK, Files, File

LEMMA RestoreEffect ==
  ASSUME TypeOK, Locking, NEW p \in Process, Restore(p)
  PROVE  /\ mine[p] \in Anchor /\ files' \in Files
         /\ \E f \in todo :
              /\ files' = [files EXCEPT ![f] = mine[p].snapshot[f]]
              /\ todo' = todo \ {f}
         /\ \E s \in {"restore", "adapter"} : Goto(p, s) /\ (todo' # {} => s = "restore")
<1>1. mine[p] \in Anchor
  BY DEF TypeOK, Locking, RunsAt, Restore, Recovers
<1>2. PICK f \in todo : /\ files' = [files EXCEPT ![f] = mine[p].snapshot[f]]
                        /\ todo' = todo \ {f}
                        /\ Goto(p, IF todo' = {} THEN "adapter" ELSE "restore")
  BY DEF Restore
<1>3. f \in File /\ files \in Files /\ mine[p].snapshot \in Files
  BY <1>1, Fields DEF TypeOK
<1>4. /\ mine[p].snapshot[f] \in Bytes
      /\ IF f = Ledger THEN mine[p].snapshot[f] \notin Setting
           ELSE mine[p].snapshot[f] \notin State
  BY <1>3 DEF Files, File
<1>5. [files EXCEPT ![f] = mine[p].snapshot[f]] \in Files
  BY <1>3, <1>4, Put
<1> QED
  BY <1>1, <1>2, <1>5

LEMMA TamperEffect ==
  ASSUME TypeOK, Tamper
  PROVE  /\ files' \in Files /\ dirty' \in BOOLEAN
         /\ files'[Ledger] \in {files[Ledger], Foreign, Started, Absent}
         /\ ~dirty' => ~dirty /\ \A p \in Process : pc[p] = "idle"
<1>1. PICK f \in File :
        \E c \in IF f = Ledger THEN {Foreign, Started, Absent} ELSE {[edited |-> TRUE]} :
          files' = [files EXCEPT ![f] = c]
  BY DEF Tamper
<1>2. PICK c \in IF f = Ledger THEN {Foreign, Started, Absent} ELSE {[edited |-> TRUE]} :
        files' = [files EXCEPT ![f] = c]
  BY <1>1
<1>3. c \in Bytes /\ IF f = Ledger THEN c \notin Setting ELSE c \notin State
  BY <1>2, Apart, Contents
<1>4. [files EXCEPT ![f] = c] \in Files
  BY <1>1, <1>3, Put DEF TypeOK
<1>5. files'[Ledger] \in {files[Ledger], Foreign, Started, Absent}
  BY <1>2 DEF TypeOK, Files, File
<1>6. dirty' \in BOOLEAN /\ (~dirty' => ~dirty /\ \A p \in Process : pc[p] = "idle")
  BY DEF TypeOK, Tamper
<1> QED
  BY <1>2, <1>4, <1>5, <1>6

-----------------------------------------------------------------------------

LEMMA TypeStep ==
  ASSUME TypeOK, Locking, Numbered, [Next]_vars
  PROVE  TypeOK'
<1>1. ASSUME NEW p \in Process, Ask(p)
      PROVE  TypeOK'
  <2>1. PICK j \in Job : job' = [job EXCEPT ![p] = j]
    BY <1>1, AskEffect
  <2>2. j # None
    BY NoneAssumption
  <2>3. /\ Goto(p, "asked")
        /\ UNCHANGED <<files, anchor, lock, mine, todo, archive, writes, tampers, dirty>>
    BY <1>1 DEF Ask
  <2>4. pc' \in [Process -> Steps] /\ pc'[p] = "asked"
        /\ \A q \in Process \ {p} : pc'[q] = pc[q]
    BY <2>3, GotoEffect DEF Steps
  <2> QED
    BY <2>1, <2>2, <2>3, <2>4 DEF TypeOK
<1>2. ASSUME NEW p \in Process, pc[p] # "idle", NEW s \in Steps \ {"idle"}, Goto(p, s),
             lock' \in {lock, p}, job' = job
      PROVE  /\ pc' \in [Process -> Steps]
             /\ \A q \in Process : (pc'[q] = "idle") = (job'[q] = None)
             /\ lock' \in {None} \cup {q \in Process : job'[q] # None}
  BY <1>2, GotoEffect, JobTypes DEF TypeOK
<1>3. ASSUME NEW p \in Process,
             \/ Establish(p) \/ Digest(p) \/ ReadBytes(p) \/ Status(p)
             \/ Switch(p) \/ Recover(p)
      PROVE  TypeOK'
  <2>1. PICK r \in Anchor : Mine(p, r)
    BY <1>3, EstablishEffect, DigestEffect, ReadBytesEffect, StatusEffect,
       SwitchEffect, RecoverEffect
  <2>2. mine' \in [Process -> Anchor \cup {None}]
    BY <2>1, MineEffect
  <2>3. PICK s \in Steps \ {"idle"} : Goto(p, s)
    BY <1>3 DEF Establish, Digest, ReadBytes, Status, Switch, Recover, Steps
  <2>4. /\ pc[p] # "idle" /\ lock' \in {lock, p}
        /\ UNCHANGED <<files, anchor, job, todo, archive, writes, tampers, dirty>>
    BY <1>3 DEF Establish, Digest, ReadBytes, Status, Switch, Recover
  <2> QED
    BY <1>2, <2>2, <2>3, <2>4 DEF TypeOK
<1>4. ASSUME NEW p \in Process, Begin(p)
      PROVE  TypeOK'
  <2>1. /\ pc[p] # "idle" /\ lock' \in {lock, p} /\ Goto(p, "checked")
        /\ UNCHANGED <<files, anchor, job, mine, todo, archive, writes, tampers, dirty>>
    BY <1>4 DEF Begin
  <2> QED
    BY <1>2, <2>1 DEF TypeOK, Steps
<1>5. ASSUME NEW p \in Process, Reread(p)
      PROVE  TypeOK'
  <2>1. /\ pc[p] # "idle" /\ Goto(p, "digest") /\ anchor \in Anchor /\ Mine(p, anchor)
        /\ UNCHANGED <<files, anchor, lock, job, todo, archive, writes, tampers, dirty>>
    BY <1>5 DEF Reread, Anchored, TypeOK
  <2>2. mine' \in [Process -> Anchor \cup {None}]
    BY <2>1, MineEffect
  <2> QED
    BY <1>2, <2>1, <2>2 DEF TypeOK, Steps
<1>6. ASSUME NEW p \in Process, Mutate(p) \/ Rewrite(p) \/ Abandon(p)
      PROVE  TypeOK'
  <2>1. files' \in Files /\ writes' \in 1 .. MaxWrites
    BY <1>6, MutateEffect, RewriteEffect, AbandonEffect DEF TypeOK, Abandon
  <2>2. PICK s \in Steps \ {"idle"} : Goto(p, s)
    BY <1>6 DEF Mutate, Rewrite, Abandon, Steps
  <2>3. /\ pc[p] # "idle"
        /\ UNCHANGED <<anchor, lock, job, mine, todo, archive, tampers, dirty>>
    BY <1>6 DEF Mutate, Rewrite, Abandon
  <2> QED
    BY <1>2, <2>1, <2>2, <2>3 DEF TypeOK
<1>7. ASSUME NEW p \in Process,
             RereadInactive(p) \/ Write(p) \/ Verify(p) \/ Stop(p)
      PROVE  TypeOK'
  <2>1. End(p) /\ UNCHANGED <<files, archive, writes, tampers, dirty>>
    BY <1>7 DEF RereadInactive, Write, Verify, Stop
  <2>2. anchor' \in Anchor \cup {None}
    BY <1>7 DEF TypeOK, RereadInactive, Write, Verify, Stop
  <2> QED
    BY <2>1, <2>2, EndEffect DEF TypeOK
<1>8. ASSUME NEW p \in Process, Archive(p)
      PROVE  TypeOK'
  <2>1. archive' \subseteq Bytes
    BY <1>8 DEF TypeOK, Archive, Files
  <2>2. /\ pc[p] # "idle" /\ Goto(p, "restore") /\ todo' = File
        /\ UNCHANGED <<files, anchor, lock, job, mine, writes, tampers, dirty>>
    BY <1>8 DEF Archive
  <2> QED
    BY <1>2, <2>1, <2>2 DEF TypeOK, Steps
<1>9. ASSUME NEW p \in Process, Restore(p)
      PROVE  TypeOK'
  <2>1. files' \in Files /\ todo' \subseteq File
    BY <1>9, RestoreEffect DEF TypeOK
  <2>2. PICK s \in Steps \ {"idle"} : Goto(p, s)
    BY <1>9, RestoreEffect DEF Steps
  <2>3. /\ pc[p] # "idle"
        /\ UNCHANGED <<anchor, lock, job, mine, archive, writes, tampers, dirty>>
    BY <1>9 DEF Restore
  <2> QED
    BY <1>2, <2>1, <2>2, <2>3 DEF TypeOK
<1>10. ASSUME NEW p \in Process, Record(p)
       PROVE  TypeOK'
  <2>1. /\ pc[p] # "idle" /\ Goto(p, "verify") /\ anchor' = mine[p]
        /\ UNCHANGED <<files, lock, job, mine, todo, archive, writes, tampers, dirty>>
    BY <1>10 DEF Record
  <2> QED
    BY <1>2, <2>1 DEF TypeOK, Steps
<1>11. CASE Tamper
  <2>1. files' \in Files /\ dirty' \in BOOLEAN
    BY <1>11, TamperEffect
  <2>2. tampers' \in 0 .. MaxTampers
    BY <1>11, BoundsAssumption DEF TypeOK, Tamper
  <2>3. UNCHANGED <<anchor, lock, job, pc, mine, todo, archive, writes>>
    BY <1>11 DEF Tamper
  <2> QED
    BY <2>1, <2>2, <2>3 DEF TypeOK
<1>12. CASE UNCHANGED vars
  BY <1>12 DEF TypeOK, vars
<1> QED
  BY <1>1, <1>3, <1>4, <1>5, <1>6, <1>7, <1>8, <1>9, <1>10, <1>11, <1>12 DEF Next

-----------------------------------------------------------------------------
(* Who holds the lock *)

\* What p leaves alone, in any step of its own.
Others(p) ==
  \A q \in Process \ {p} :
    /\ pc'[q] = pc[q] /\ job'[q] = job[q] /\ mine'[q] = mine[q]
    /\ (lock' = q) = (lock = q)

LEMMA LockingKept ==
  ASSUME Locking, NEW p \in Process, Others(p),
         RunsAt(p)', (lock = p => Underway(p))', (Underway(p) /\ TakesLock(p) => lock = p)',
         todo' # {} =>
           \/ todo # {} /\ pc[p] # "restore"
           \/ lock' = p /\ pc'[p] = "restore"
  PROVE  Locking'
<1>1. ASSUME NEW q \in Process \ {p}
      PROVE  /\ RunsAt(q)' /\ (lock = q => Underway(q))'
             /\ (Underway(q) /\ TakesLock(q) => lock = q)'
  BY DEF Locking, Others, RunsAt, Fitting, Underway, TakesLock, Runs
<1>2. todo' # {} => \E q \in Process : lock' = q /\ pc'[q] = "restore"
  BY DEF Locking, Others
<1> QED
  BY <1>1, <1>2 DEF Locking

\* In a step that goes on, p keeps what it runs.
LEMMA LockingGoto ==
  ASSUME TypeOK, Locking, NEW p \in Process, NEW s \in Steps \ {"idle", "asked"},
         Goto(p, s), pc[p] # "idle", UNCHANGED job,
         lock' = lock \/ (lock = None /\ lock' = p),
         \A q \in Process \ {p} : mine'[q] = mine[q],
         Fitting(p, s),
         s \in Builds \cup Recovers => mine'[p] # None,
         s = "rewrite" => mine'[p].digest[Ledger] \in State,
         TakesLock(p) => lock' = p,
         todo' # {} =>
           \/ todo # {} /\ pc[p] # "restore"
           \/ lock' = p /\ s = "restore"
  PROVE  Locking'
<1>1. pc'[p] = s /\ \A q \in Process \ {p} : pc'[q] = pc[q]
  BY GotoEffect
<1>2. Others(p)
  BY <1>1, NamesAssumption DEF Others
<1>3. job[p].op \in OpsOf[p]
  BY JobTypes DEF Locking, RunsAt
<1>4. RunsAt(p)'
  BY <1>1, <1>3 DEF RunsAt, Fitting, Runs, Builds, Recovers
<1>5. (lock = p => Underway(p))' /\ (Underway(p) /\ TakesLock(p) => lock = p)'
  BY <1>1 DEF Underway, TakesLock, Runs
<1> QED
  BY <1>1, <1>2, <1>4, <1>5, LockingKept

LEMMA LockingStep ==
  ASSUME TypeOK, Locking, Numbered, [Next]_vars
  PROVE  Locking'
<1>1. ASSUME NEW p \in Process, Ask(p)
      PROVE  Locking'
  <2>1. PICK j \in Job : job' = [job EXCEPT ![p] = j] /\ j.op \in OpsOf[p]
    BY <1>1, AskEffect
  <2>2. /\ pc[p] = "idle" /\ Goto(p, "asked") /\ UNCHANGED <<lock, mine, todo>>
    BY <1>1 DEF Ask
  <2>3. pc'[p] = "asked" /\ \A q \in Process \ {p} : pc'[q] = pc[q]
    BY <2>2, GotoEffect DEF Steps
  <2>4. job'[p] = j /\ \A q \in Process \ {p} : job'[q] = job[q]
    BY <2>1 DEF TypeOK
  <2>5. Others(p)
    BY <2>2, <2>3, <2>4 DEF Others
  <2>6. RunsAt(p)'
    BY <2>1, <2>3, <2>4 DEF RunsAt, Fitting, Builds, Recovers
  <2>7. lock # p
    BY <2>2 DEF Locking, Underway
  <2> QED
    BY <2>2, <2>3, <2>5, <2>6, <2>7, LockingKept DEF Underway
<1>2. ASSUME NEW p \in Process, Establish(p)
      PROVE  Locking'
  <2>1. \E r \in Anchor : Mine(p, r)
    BY <1>2, EstablishEffect
  <2>2. mine'[p] # None /\ \A q \in Process \ {p} : mine'[q] = mine[q]
    BY <2>1, MineEffect
  <2>3. /\ pc[p] = "asked" /\ Runs(p, {"establish"}) /\ Goto(p, "digest")
        /\ UNCHANGED <<lock, job, todo>>
    BY <1>2 DEF Establish
  <2>4. Fitting(p, "digest") /\ ~TakesLock(p)
    BY <2>3 DEF Fitting, Recovers, Runs, TakesLock, Commands
  <2> QED
    BY <2>2, <2>3, <2>4, LockingGoto DEF Steps, Builds, Recovers
<1>3. ASSUME NEW p \in Process, Begin(p)
      PROVE  Locking'
  <2>1. /\ pc[p] = "asked" /\ Runs(p, Commands) /\ Goto(p, "checked")
        /\ IF p \in Locked THEN lock = None /\ lock' = p ELSE lock' = lock
        /\ UNCHANGED <<job, mine, todo>>
    BY <1>3 DEF Begin
  <2>2. Fitting(p, "checked") /\ (TakesLock(p) => lock' = p)
    BY <2>1 DEF Fitting, Recovers, Runs, TakesLock, Commands
  <2> QED
    BY <2>1, <2>2, LockingGoto DEF Steps, Builds, Recovers
<1>4. ASSUME NEW p \in Process, Mutate(p)
      PROVE  Locking'
  <2>1. /\ pc[p] = "checked" /\ Goto(p, "reread") /\ UNCHANGED <<lock, job, mine, todo>>
    BY <1>4 DEF Mutate
  <2>2. Runs(p, Commands) /\ (TakesLock(p) => lock = p)
    BY <2>1 DEF Locking, RunsAt, Fitting, Underway
  <2>3. Fitting(p, "reread")
    BY <2>2 DEF Fitting, Recovers, Runs, Checkpoints
  <2> QED
    BY <2>1, <2>2, <2>3, LockingGoto DEF Steps, Builds, Recovers
<1>5. ASSUME NEW p \in Process, Abandon(p)
      PROVE  Locking'
  <2>1. /\ pc[p] = "asked" /\ Runs(p, {"abandon"}) /\ Goto(p, "reread")
        /\ UNCHANGED <<lock, job, mine, todo>>
    BY <1>5 DEF Abandon
  <2>2. Fitting(p, "reread") /\ ~TakesLock(p)
    BY <2>1 DEF Fitting, Recovers, Runs, TakesLock, Checkpoints, Commands
  <2> QED
    BY <2>1, <2>2, LockingGoto DEF Steps, Builds, Recovers
<1>6. ASSUME NEW p \in Process, Reread(p) \/ Digest(p) \/ ReadBytes(p) \/ Status(p)
      PROVE  Locking'
  <2>1. \E r \in Anchor : Mine(p, r)
    BY <1>6, DigestEffect, ReadBytesEffect, StatusEffect DEF TypeOK, Reread, Anchored
  <2>2. mine'[p] # None /\ \A q \in Process \ {p} : mine'[q] = mine[q]
    BY <2>1, MineEffect
  <2>3. /\ pc[p] \in {"reread", "digest", "bytes", "status"}
        /\ UNCHANGED <<lock, job, todo>>
    BY <1>6 DEF Reread, Digest, ReadBytes, Status
  <2>4. PICK s \in {"digest", "bytes", "status", "write"} :
          /\ Goto(p, s)
          /\ s = "status" => Runs(p, Checkpoints)
    BY <1>6, <2>3
       DEF Reread, Digest, ReadBytes, Status, Locking, RunsAt, Fitting, Runs
  <2>5. Runs(p, Checkpoints \cup {"establish", "switch"}) /\ (TakesLock(p) => lock = p)
    BY <2>3 DEF Locking, RunsAt, Fitting, Underway, Runs
  <2>6. Fitting(p, s)
    BY <2>4, <2>5 DEF Fitting, Recovers
  <2>7. s \in Steps \ {"idle", "asked", "rewrite"} /\ pc[p] # "restore"
    BY <2>3 DEF Steps
  <2> QED
    BY <2>2, <2>3, <2>4, <2>5, <2>6, <2>7, LockingGoto
<1>7. ASSUME NEW p \in Process,
             RereadInactive(p) \/ Write(p) \/ Verify(p) \/ Stop(p)
      PROVE  Locking'
  <2>1. End(p)
    BY <1>7 DEF RereadInactive, Write, Verify, Stop
  <2>2. /\ pc'[p] = "idle" /\ job'[p] = None /\ lock' # p
        /\ \A q \in Process \ {p} :
              /\ pc'[q] = pc[q] /\ job'[q] = job[q] /\ mine'[q] = mine[q]
              /\ (lock' = q) = (lock = q)
        /\ todo' \subseteq todo /\ (todo' # {} => lock # p)
    BY <2>1, EndEffect
  <2>3. Others(p) /\ RunsAt(p)'
    BY <2>2 DEF Others, RunsAt, Fitting, Builds, Recovers
  <2>4. todo' # {} => todo # {} /\ pc[p] # "restore"
    BY <2>2 DEF Locking, RunsAt, Fitting, Runs, TakesLock, Underway, Recovers
  <2> QED
    BY <2>2, <2>3, <2>4, LockingKept DEF Underway
<1>8. ASSUME NEW p \in Process, Switch(p)
      PROVE  Locking'
  <2>1. PICK r \in Anchor : Mine(p, r) /\ r.digest = anchor.digest
    BY <1>8, SwitchEffect
  <2>2. mine'[p] = r /\ r # None /\ \A q \in Process \ {p} : mine'[q] = mine[q]
    BY <2>1, MineEffect
  <2>3. /\ pc[p] = "asked" /\ Runs(p, {"switch"}) /\ Goto(p, "rewrite")
        /\ lock = None /\ lock' = p /\ Checks /\ UNCHANGED <<job, todo>>
    BY <1>8 DEF Switch
  <2>4. mine'[p].digest[Ledger] \in State
    BY <2>1, <2>2, <2>3 DEF Checks, Active, File
  <2>5. Fitting(p, "rewrite")
    BY <2>3 DEF Fitting, Recovers
  <2> QED
    BY <2>2, <2>3, <2>4, <2>5, LockingGoto DEF Steps
<1>9. ASSUME NEW p \in Process, Rewrite(p)
      PROVE  Locking'
  <2>1. /\ pc[p] = "rewrite" /\ Goto(p, "digest") /\ UNCHANGED <<lock, job, mine, todo>>
    BY <1>9 DEF Rewrite
  <2>2. /\ Runs(p, {"switch"}) /\ mine[p] # None
        /\ TakesLock(p) => lock = p
    BY <2>1 DEF Locking, RunsAt, Fitting, Underway, Builds
  <2>3. Fitting(p, "digest")
    BY <2>2 DEF Fitting, Recovers, Runs
  <2> QED
    BY <2>1, <2>2, <2>3, LockingGoto DEF Steps
<1>10. ASSUME NEW p \in Process, Recover(p)
       PROVE  Locking'
  <2>1. \E r \in Anchor : Mine(p, r)
    BY <1>10, RecoverEffect
  <2>2. mine'[p] # None /\ \A q \in Process \ {p} : mine'[q] = mine[q]
    BY <2>1, MineEffect
  <2>3. /\ pc[p] = "asked" /\ Runs(p, {"recover"}) /\ Goto(p, "archive")
        /\ lock = None /\ lock' = p /\ UNCHANGED <<job, todo>>
    BY <1>10 DEF Recover
  <2>4. Fitting(p, "archive")
    BY <2>3 DEF Fitting, Recovers
  <2> QED
    BY <2>2, <2>3, <2>4, LockingGoto DEF Steps
<1>11. ASSUME NEW p \in Process, Archive(p) \/ Restore(p) \/ Record(p)
       PROVE  Locking'
  <2>1. pc[p] \in Recovers /\ UNCHANGED <<lock, job, mine>>
    BY <1>11 DEF Archive, Restore, Record, Recovers
  <2>2. Runs(p, {"recover"}) /\ mine[p] # None /\ lock = p
    BY <2>1 DEF Locking, RunsAt, Fitting, Underway, TakesLock, Runs, Recovers
  <2>3. PICK s \in {"restore", "adapter", "verify"} :
          /\ Goto(p, s)
          /\ todo' # {} => s = "restore" \/ (todo # {} /\ pc[p] # "restore")
    BY <1>11, RestoreEffect DEF Archive, Record
  <2>4. s \in Steps \ {"idle", "asked", "rewrite"} /\ Fitting(p, s)
    BY <2>2 DEF Steps, Fitting
  <2>5. pc[p] # "idle"
    BY <2>1 DEF Recovers
  <2> QED
    BY <2>1, <2>2, <2>3, <2>4, <2>5, LockingGoto
<1>12. CASE Tamper
  <2>1. UNCHANGED <<lock, job, pc, mine, todo>>
    BY <1>12 DEF Tamper
  <2> QED
    BY <2>1 DEF Locking, RunsAt, Fitting, Underway, TakesLock, Runs
<1>13. CASE UNCHANGED vars
  BY <1>13 DEF Locking, RunsAt, Fitting, Underway, TakesLock, Runs, vars
<1> QED
  BY <1>1, <1>2, <1>3, <1>4, <1>5, <1>6, <1>7, <1>8, <1>9, <1>10, <1>11,
     <1>12, <1>13 DEF Next

-----------------------------------------------------------------------------
(* Writes are numbered *)

LEMMA NumberedStep ==
  ASSUME TypeOK, Locking, Numbered, [Next]_vars
  PROVE  Numbered'
<1>0. writes \in Nat /\ 1 <= writes
  BY BoundsAssumption DEF TypeOK
<1>1. ASSUME writes' \in {writes, writes + 1}, NEW b, Counted(b)
      PROVE  Counted(b)'
  <2>1. \A n \in Nat : n <= writes => n <= writes'
    BY <1>0, <1>1
  <2>2. b \in State => b.write \in Nat /\ b.revision \in Nat
    BY BoundsAssumption DEF State
  <2> QED
    BY <1>1, <2>1, <2>2 DEF Counted
<1>2. ASSUME writes' \in {writes, writes + 1}, NEW record, Vouched(record)
      PROVE  Vouched(record)'
  BY <1>1, <1>2 DEF Vouched
<1>3. ASSUME UNCHANGED <<files, anchor, writes>>,
             \A p \in Process : mine'[p] = mine[p] \/ Vouched(mine'[p])
      PROVE  Numbered'
  BY <1>3 DEF Numbered, Vouched, Counted
<1>4. ASSUME NEW p \in Process,
             \/ Establish(p) \/ Reread(p) \/ Digest(p) \/ ReadBytes(p) \/ Status(p)
             \/ Switch(p) \/ Recover(p)
      PROVE  Numbered'
  <2>1. UNCHANGED <<files, anchor, writes>>
    BY <1>4 DEF Establish, Reread, Digest, ReadBytes, Status, Switch, Recover
  <2>2. Counted(files[Ledger]) /\ Vouched(anchor) /\ Vouched(mine[p])
    BY DEF Numbered
  <2>3. \E r \in Anchor : Mine(p, r) /\ Vouched(r)
    <3>1. CASE Establish(p)
      BY <2>2, <3>1, EstablishEffect DEF Vouched
    <3>2. CASE Reread(p)
      BY <2>2, <3>2 DEF TypeOK, Reread, Anchored
    <3>3. CASE Digest(p)
      <4>1. PICK r \in Anchor : /\ Mine(p, r)
                                /\ r.digest = With(mine[p].digest, Taken(p))
                                /\ r.snapshot = mine[p].snapshot
        BY <3>3, DigestEffect
      <4>2. mine[p] \in Anchor /\ mine[p] # None
        BY <3>3 DEF TypeOK, Locking, RunsAt, Digest, Builds
      <4>3. r.digest[Ledger] = files[Ledger]
        BY <4>1, <4>2, Fields, WithTypes DEF TypeOK, Taken, File
      <4> QED
        BY <2>2, <4>1, <4>2, <4>3 DEF Vouched
    <3>4. CASE ReadBytes(p)
      <4>1. PICK r \in Anchor, d \in Files :
              /\ Mine(p, r)
              /\ d = IF job[p].op \in Checkpoints /\ mine[p].digest[Ledger] = Absent
                       THEN [mine[p].snapshot EXCEPT ![Ledger] = Absent]
                       ELSE With(mine[p].snapshot, Taken(p))
              /\ r.snapshot = d /\ r.digest = mine[p].digest
        BY <3>4, ReadBytesEffect
      <4>2. mine[p] \in Anchor /\ mine[p] # None
        BY <3>4 DEF TypeOK, Locking, RunsAt, ReadBytes, Builds
      <4>3. mine[p].snapshot \in Files
        BY <4>2, Fields
      <4>4. With(mine[p].snapshot, Taken(p))[Ledger] = files[Ledger]
        BY <4>3, WithTypes DEF TypeOK, Taken, File
      <4>5. [mine[p].snapshot EXCEPT ![Ledger] = Absent][Ledger] = Absent
        BY <4>3 DEF Files, File
      <4>6. d[Ledger] \in {files[Ledger], Absent}
        BY <4>1, <4>4, <4>5
      <4> QED
        BY <2>2, <4>1, <4>2, <4>6, Contents DEF Vouched, Counted
    <3>5. CASE Status(p)
      <4>1. mine[p] # None
        BY <3>5 DEF Locking, RunsAt, Status, Builds
      <4> QED
        BY <2>2, <3>5, <4>1, StatusEffect DEF Vouched
    <3>6. CASE Switch(p)
      BY <2>2, <3>6, SwitchEffect, NoneAssumption DEF Vouched
    <3>7. CASE Recover(p)
      BY <2>2, <3>7, RecoverEffect, NoneAssumption DEF Vouched
    <3> QED
      BY <1>4, <3>1, <3>2, <3>3, <3>4, <3>5, <3>6, <3>7
  <2>4. PICK r \in Anchor : Mine(p, r) /\ Vouched(r)
    BY <2>3
  <2>5. mine'[p] = r /\ \A q \in Process \ {p} : mine'[q] = mine[q]
    BY <2>4, MineEffect
  <2> QED
    BY <1>3, <2>1, <2>4, <2>5
<1>5. ASSUME NEW p \in Process, Mutate(p) \/ Rewrite(p) \/ Abandon(p)
      PROVE  Numbered'
  <2>1. UNCHANGED <<anchor, mine>> /\ writes' \in {writes, writes + 1}
    BY <1>5 DEF Mutate, Rewrite, Abandon
  <2>2. Counted(files[Ledger])'
    <3>1. CASE Abandon(p)
      BY <3>1, AbandonEffect, Contents DEF Counted
    <3>2. ASSUME writes' = writes + 1, files'[Ledger].write = writes + 1,
                 NEW old \in State, Counted(old),
                 files'[Ledger].revision = old.revision + 1
          PROVE  Counted(files[Ledger])'
      <4>1. old.revision \in Nat /\ old.revision <= writes
        BY <3>2, BoundsAssumption DEF State, Counted
      <4> QED
        BY <1>0, <3>2, <4>1 DEF Counted
    <3>3. CASE Mutate(p)
      BY <3>2, <3>3, MutateEffect DEF Numbered, Active
    <3>4. CASE Rewrite(p)
      <4>1. mine[p] # None
        BY <3>4 DEF Locking, RunsAt, Rewrite, Builds
      <4>2. Counted(mine[p].digest[Ledger])
        BY <4>1 DEF Numbered, Vouched
      <4> QED
        BY <3>2, <3>4, <4>2, RewriteEffect
    <3> QED
      BY <1>5, <3>1, <3>3, <3>4
  <2>3. Vouched(anchor)' /\ \A q \in Process : Vouched(mine[q])'
    BY <1>2, <2>1 DEF Numbered, Vouched
  <2> QED
    BY <2>2, <2>3 DEF Numbered
<1>6. ASSUME NEW p \in Process,
             \/ RereadInactive(p) \/ Write(p) \/ Verify(p) \/ Stop(p) \/ Record(p)
      PROVE  Numbered'
  <2>1. /\ \A q \in Process : mine'[q] \in {mine[q], None}
        /\ UNCHANGED <<files, writes>>
    BY <1>6, EndEffect DEF RereadInactive, Write, Verify, Stop, Record
  <2>2. anchor' \in {anchor, mine[p]}
    BY <1>6 DEF RereadInactive, Write, Verify, Stop, Record
  <2>3. Vouched(anchor)' /\ \A q \in Process : Vouched(mine[q])'
    BY <1>2, <2>1, <2>2 DEF Numbered, Vouched, Counted
  <2> QED
    BY <2>1, <2>3 DEF Numbered, Counted
<1>7. ASSUME NEW p \in Process, Restore(p)
      PROVE  Numbered'
  <2>1. PICK f \in File : files' = [files EXCEPT ![f] = mine[p].snapshot[f]]
    BY <1>7, RestoreEffect DEF TypeOK
  <2>2. mine[p] # None /\ UNCHANGED <<anchor, mine, writes>>
    BY <1>7 DEF Locking, RunsAt, Restore, Recovers
  <2>3. files'[Ledger] \in {files[Ledger], mine[p].snapshot[Ledger]}
    BY <2>1 DEF TypeOK, Files, File
  <2>4. Counted(files[Ledger]) /\ Counted(mine[p].snapshot[Ledger])
    BY <2>2 DEF Numbered, Vouched
  <2>5. Counted(files[Ledger])'
    BY <2>2, <2>3, <2>4 DEF Counted
  <2> QED
    BY <2>2, <2>5 DEF Numbered, Vouched, Counted
<1>8. CASE Tamper
  <2>1. files'[Ledger] \in {files[Ledger], Foreign, Started, Absent}
    BY <1>8, TamperEffect
  <2>2. UNCHANGED <<anchor, mine, writes>>
    BY <1>8 DEF Tamper
  <2>3. \A c \in {Started, Foreign} : c.write <= writes /\ c.revision <= writes
    <3>1. \A c \in {Started, Foreign} :
            c.write \in Nat /\ c.revision \in Nat /\ c.write <= 1 /\ c.revision <= 1
      BY Contents, BoundsAssumption DEF State
    <3> QED
      BY <1>0, <3>1
  <2>4. Counted(files[Ledger])'
    BY <2>1, <2>2, <2>3, Contents DEF Numbered, Counted
  <2> QED
    BY <2>2, <2>4 DEF Numbered, Vouched, Counted
<1>9. ASSUME NEW p \in Process, Ask(p) \/ Begin(p) \/ Archive(p)
      PROVE  Numbered'
  <2>1. UNCHANGED <<files, anchor, mine, writes>>
    BY <1>9 DEF Ask, Begin, Archive
  <2> QED
    BY <2>1 DEF Numbered, Vouched, Counted
<1>10. CASE UNCHANGED vars
  BY <1>10 DEF Numbered, Vouched, Counted, vars
<1> QED
  BY <1>4, <1>5, <1>6, <1>7, <1>8, <1>9, <1>10 DEF Next

-----------------------------------------------------------------------------
(* What a recovery has still to restore is in its archive *)

Archived == ~dirty => \A f \in todo : files[f] \in archive \cup {Absent}

\* Nobody else writes a file while a recovery restores them.
LEMMA OnlyRestores ==
  ASSUME TypeOK, Locking, NEW p \in Process, Mutate(p) \/ Rewrite(p) \/ Abandon(p)
  PROVE  todo = {}
<1> SUFFICES ASSUME todo # {}
             PROVE  FALSE
  OBVIOUS
<1>1. PICK q \in Process : lock = q /\ pc[q] = "restore"
  BY DEF Locking
<1>2. lock \in {None, p} /\ pc[p] # "restore"
  BY DEF Mutate, Rewrite, Abandon, Locking, RunsAt, Fitting, Runs, TakesLock, Underway
<1> QED
  BY <1>1, <1>2, NamesAssumption

LEMMA ArchivedStep ==
  ASSUME TypeOK, Locking, Archived, [Next]_vars
  PROVE  Archived'
<1>1. ASSUME todo' \subseteq todo, UNCHANGED <<files, archive, dirty>>
      PROVE  Archived'
  BY <1>1 DEF Archived
<1>2. ASSUME NEW p \in Process, Mutate(p) \/ Rewrite(p) \/ Abandon(p)
      PROVE  Archived'
  BY <1>2, OnlyRestores DEF Archived, Mutate, Rewrite, Abandon
<1>3. ASSUME NEW p \in Process,
             RereadInactive(p) \/ Write(p) \/ Verify(p) \/ Stop(p)
      PROVE  Archived'
  <2>1. End(p) /\ UNCHANGED <<files, archive, dirty>>
    BY <1>3 DEF RereadInactive, Write, Verify, Stop
  <2> QED
    BY <1>1, <2>1, EndEffect
<1>4. ASSUME NEW p \in Process, Archive(p)
      PROVE  Archived'
  BY <1>4 DEF Archived, Archive
<1>5. ASSUME NEW p \in Process, Restore(p)
      PROVE  Archived'
  <2>1. PICK f \in todo : /\ files' = [files EXCEPT ![f] = mine[p].snapshot[f]]
                          /\ todo' = todo \ {f}
    BY <1>5, RestoreEffect
  <2>2. UNCHANGED <<archive, dirty>>
    BY <1>5 DEF Restore
  <2>3. \A name \in todo' : files'[name] = files[name]
    BY <2>1 DEF TypeOK, Files
  <2> QED
    BY <2>1, <2>2, <2>3 DEF Archived
<1>6. CASE Tamper
  <2>1. ~dirty' => \A p \in Process : pc[p] = "idle"
    BY <1>6, TamperEffect
  <2>2. ~dirty' => todo = {}
    BY <2>1 DEF Locking
  <2>3. todo' = todo
    BY <1>6 DEF Tamper
  <2> QED
    BY <2>2, <2>3 DEF Archived
<1>7. ASSUME NEW p \in Process,
             \/ Ask(p) \/ Begin(p) \/ Establish(p) \/ Reread(p) \/ Digest(p)
             \/ ReadBytes(p) \/ Status(p) \/ Switch(p) \/ Recover(p) \/ Record(p)
      PROVE  Archived'
  BY <1>1, <1>7
     DEF Ask, Begin, Establish, Reread, Digest, ReadBytes, Status, Switch,
         Recover, Record
<1>8. CASE UNCHANGED vars
  BY <1>1, <1>8 DEF vars
<1> QED
  BY <1>2, <1>3, <1>4, <1>5, <1>6, <1>7, <1>8 DEF Next

-----------------------------------------------------------------------------

Orderly == TypeOK /\ Locking /\ Numbered /\ Archived

LEMMA OrderlyAtFirst == Init => Orderly
<1> SUFFICES ASSUME Init
             PROVE  Orderly
  OBVIOUS
<1>1. MaxWrites \in Nat /\ 1 <= MaxWrites /\ MaxTampers \in Nat
  BY BoundsAssumption
<1>2. files \in Files /\ files[Ledger] = Started
  <2>1. PICK c \in {[edited |-> FALSE], Absent} :
          files = [f \in File |-> IF f = Ledger THEN Started ELSE c]
    BY DEF Init
  <2>2. c \in Bytes /\ c \notin State
    BY Contents, Apart
  <2>3. Started \in Bytes /\ Started \notin Setting
    BY Contents, Apart
  <2> QED
    BY <2>1, <2>2, <2>3, NamesAssumption DEF Files, File
<1>3. 1 \in 1 .. MaxWrites /\ 0 \in 0 .. MaxTampers
  BY <1>1
<1>4. TypeOK
  BY <1>2, <1>3 DEF Init, TypeOK, Steps
<1>5. Locking
  BY NamesAssumption
     DEF Init, Locking, RunsAt, Fitting, Underway, Builds, Recovers
<1>6. Numbered
  BY <1>2 DEF Init, Numbered, Vouched, Counted, Started
<1> QED
  BY <1>4, <1>5, <1>6 DEF Init, Orderly, Archived

LEMMA OrderlyHolds == Spec => []Orderly
<1>1. Orderly /\ [Next]_vars => Orderly'
  BY TypeStep, LockingStep, NumberedStep, ArchivedStep DEF Orderly
<1> QED
  BY <1>1, OrderlyAtFirst, PTL DEF Spec

\* Types of every variable; in particular a ledger is only ever where the
\* ledger is, also after a recovery.
THEOREM TypeCorrect == Spec => []TypeOK
  BY OrderlyHolds, PTL DEF Orderly

\* What recover replaces is in its archive, the bytes of a ledger that was
\* never anchored included, whatever else runs.
THEOREM RecoveryLosesNothing == Spec => RecoveryArchives
<1> DEFINE A == \A f \in File :
                  todo # {} /\ tampers' = tampers /\ files'[f] # files[f]
                    => dirty \/ files[f] \in archive \cup {Absent}
<1>1. Orderly /\ [Next]_vars => A
  <2> SUFFICES ASSUME Orderly, [Next]_vars, NEW f \in File, todo # {},
                      tampers' = tampers, files'[f] # files[f], ~dirty
               PROVE  files[f] \in archive \cup {Absent}
    OBVIOUS
  <2>1. ASSUME NEW p \in Process, Restore(p)
        PROVE  files[f] \in archive \cup {Absent}
    <3>1. PICK g \in todo : files' = [files EXCEPT ![g] = mine[p].snapshot[g]]
      BY <2>1, RestoreEffect DEF Orderly
    <3>2. f = g
      BY <3>1 DEF Orderly, TypeOK, Files
    <3> QED
      BY <3>1, <3>2 DEF Orderly, Archived
  <2>2. ASSUME NEW p \in Process, Mutate(p) \/ Rewrite(p) \/ Abandon(p)
        PROVE  FALSE
    BY <2>2, OnlyRestores DEF Orderly
  <2>3. ~Tamper
    BY DEF Orderly, TypeOK, Tamper
  <2> QED
    BY <2>1, <2>2, <2>3
       DEF Next, vars, Ask, Establish, Begin, Reread, RereadInactive, Digest,
           ReadBytes, Status, Write, Switch, Recover, Archive, Record, Verify, Stop
<1> QED
  BY <1>1, OrderlyHolds, PTL DEF Spec, RecoveryArchives

-----------------------------------------------------------------------------
(* One Controller *)

\* One process, the Controller, runs what does not hold the lock throughout,
\* and recoveries; it names the revision it read.  The others work in locked
\* transactions, or switch.
SingleController ==
  /\ \A p \in Process : "observe" \in OpsOf[p] => p \in Locked
  /\ \E lead \in Process : \A p \in Process \ {lead} :
       OpsOf[p] \subseteq {"switch"} \cup (IF p \in Locked THEN Commands ELSE {})

Leads(p) ==
  \/ Runs(p, {"establish", "abandon", "recover"})
  \/ p \notin Locked /\ Runs(p, Commands)

\* p is where nobody else may change the files or the anchor.
Busy(p) ==
  \/ pc[p] \notin {"idle", "asked", "checked"}
  \/ pc[p] = "checked" /\ p \in Locked

Exclusive == \A p, q \in Process : Busy(p) /\ Busy(q) => p = q

\* The ledger a recovery would restore.
Kept == anchor.snapshot[Ledger]

Restorable ==
  anchor # None =>
    /\ anchor.digest = anchor.snapshot
    /\ Anchored => Active(Kept)

Establishing(p) ==
  Runs(p, {"establish"}) =>
    /\ anchor = None /\ Active(files[Ledger])
    /\ mine[p].digest = files /\ mine[p].snapshot = files
    /\ mine[p].status = "ACTIVE"

\* The ledger was written on top of the one anchored.
Follows ==
  /\ Anchored /\ files[Ledger] \in State /\ files[Ledger].ours
  /\ files[Ledger].on = Kept.write /\ files[Ledger] # Kept

Replacing(p) ==
  /\ pc[p] \in {"checked", "rewrite"} => Checks
  /\ /\ pc[p] \in {"reread", "digest", "bytes", "status", "write"}
     /\ ~Runs(p, {"establish"})
     => files[Ledger] = Absent \/ Follows

\* How far the record is built that replaces the anchor.
Building(p) ==
  pc[p] \in Builds /\ ~Runs(p, {"establish"}) =>
    /\ Anchored
    /\ \A f \in Protected :
         mine[p].digest[f] = anchor.digest[f] /\ mine[p].snapshot[f] = anchor.digest[f]
    /\ pc[p] = "rewrite" => mine[p].digest = anchor.digest
    /\ pc[p] \in {"bytes", "status", "write"} => mine[p].digest[Ledger] = files[Ledger]
    /\ pc[p] \in {"status", "write"} => mine[p].snapshot[Ledger] = files[Ledger]
    /\ pc[p] = "write" =>
         mine[p].status = IF files[Ledger] = Absent THEN "ABANDONED"
                            ELSE files[Ledger].status
    /\ Runs(p, Checkpoints) => mine[p].mode = anchor.mode

Switching(p) ==
  Runs(p, {"switch"}) =>
    /\ job[p].expected = anchor
    /\ mine[p].mode = job[p].mode /\ mine[p].status = "ACTIVE"
    /\ pc[p] # "rewrite" => Active(files[Ledger])

Recovering(p) ==
  pc[p] \in Recovers =>
    /\ Anchored
    /\ mine[p].digest = anchor.digest /\ mine[p].snapshot = anchor.snapshot
    /\ mine[p].status = anchor.status /\ mine[p].mode = anchor.mode

Knows(p) ==
  /\ Underway(p) /\ ~Runs(p, {"establish"}) => anchor # None
  /\ Busy(p) =>
       Establishing(p) /\ Replacing(p) /\ Building(p) /\ Switching(p) /\ Recovering(p)

\* What a command without the lock can rely on: the ledger has not gone back
\* behind the one it read, and unless it is still the anchored one, its revision
\* is higher.
Current(p) ==
  Runs(p, {"update", "close"}) /\ p \notin Locked /\ job[p].base \in State =>
    /\ pc[p] \in {"asked", "checked"} =>
         files[Ledger] \in State /\ files[Ledger].revision >= job[p].base.revision
    /\ pc[p] = "checked" =>
         \/ Anchored /\ files[Ledger] = Kept
         \/ files[Ledger].revision > job[p].base.revision

Undisturbed ==
  ~dirty => /\ Exclusive /\ Restorable
            /\ \A p \in Process : Knows(p) /\ Current(p)

LEMMA OneLead ==
  ASSUME Orderly, SingleController, NEW p \in Process, NEW q \in Process, p # q, Leads(p)
  PROVE  /\ ~Leads(q)
         /\ Underway(q) => lock = q
<1>1. PICK lead \in Process : \A r \in Process \ {lead} :
        OpsOf[r] \subseteq {"switch"} \cup (IF r \in Locked THEN Commands ELSE {})
  BY DEF SingleController
<1>2. \A r \in Process \ {lead} :
        job[r] # None => Runs(r, {"switch"}) \/ (r \in Locked /\ Runs(r, Commands))
  BY <1>1 DEF Orderly, Locking, RunsAt, Runs
<1>3. \A r \in Process \ {lead} : ~Leads(r)
  BY <1>2 DEF Leads, Runs, Commands
<1>4. q # lead
  BY <1>3
<1>5. Underway(q) => job[q] # None
  BY JobTypes DEF Orderly, Underway
<1>6. Underway(q) => TakesLock(q)
  BY <1>2, <1>4, <1>5 DEF TakesLock, Runs
<1> QED
  BY <1>3, <1>4, <1>6 DEF Orderly, Locking

\* p enters where nobody else may be: nobody is.
LEMMA Entering ==
  ASSUME Orderly, SingleController, Undisturbed, ~dirty, NEW p \in Process,
         \/ Busy(p)
         \/ Leads(p) /\ lock \in {None, p}
         \/ lock = None /\ Checks
         \/ Leads(p) /\ anchor = None
  PROVE  \A q \in Process \ {p} : ~Busy(q)
<1> SUFFICES ASSUME NEW q \in Process \ {p}, Busy(q)
             PROVE  FALSE
  OBVIOUS
<1>1. CASE Busy(p)
  BY <1>1 DEF Undisturbed, Exclusive
<1>2. CASE Leads(p) /\ lock \in {None, p}
  <2>1. Underway(q)
    BY DEF Busy, Underway
  <2> QED
    BY <1>2, <2>1, OneLead, NamesAssumption
<1>3. CASE lock = None /\ Checks
  <2>1. ~TakesLock(q)
    BY <1>3, NamesAssumption DEF Orderly, Locking, Busy, Underway
  <2>2. pc[q] \in {"reread", "digest", "bytes", "status", "write"}
    BY <2>1 DEF Orderly, TypeOK, Steps, Locking, RunsAt, Fitting, Recovers, Busy,
                TakesLock, Runs
  <2>3. Establishing(q) /\ Replacing(q) /\ Restorable
    BY DEF Undisturbed, Knows
  <2>4. ~Runs(q, {"establish"})
    BY <1>3, <2>3 DEF Establishing, Checks, Anchored
  <2>5. files[Ledger] = Absent \/ Follows
    BY <2>2, <2>3, <2>4 DEF Replacing
  <2>6. files[Ledger] = Kept /\ files[Ledger] \in State
    BY <1>3, <2>3 DEF Checks, Anchored, Active, Restorable, Kept, File
  <2> QED
    BY <2>5, <2>6, AbsentAssumption DEF Follows
<1>4. CASE Leads(p) /\ anchor = None
  <2>1. ~Leads(q)
    BY <1>4, OneLead
  <2>2. ~Runs(q, {"establish"})
    BY <2>1 DEF Leads, Runs
  <2> QED
    BY <1>4, <2>2 DEF Undisturbed, Knows, Busy, Underway
<1> QED
  BY <1>1, <1>2, <1>3, <1>4

-----------------------------------------------------------------------------
(* Steps that keep Undisturbed *)

\* A step of p that changes neither files nor the anchor.
LEMMA QuietStep ==
  ASSUME Orderly, SingleController, Undisturbed, NEW p \in Process, Others(p),
         UNCHANGED <<files, anchor, dirty>>,
         ~dirty => /\ Busy(p)' => \A q \in Process \ {p} : ~Busy(q)
                   /\ Knows(p)' /\ Current(p)'
  PROVE  Undisturbed'
<1> SUFFICES ASSUME ~dirty
             PROVE  (Exclusive /\ Restorable /\ \A q \in Process : Knows(q) /\ Current(q))'
  BY DEF Undisturbed
<1>1. \A q \in Process \ {p} : Busy(q)' = Busy(q)
  BY DEF Others, Busy
<1>2. Exclusive'
  BY <1>1 DEF Undisturbed, Exclusive
<1>3. Restorable'
  BY DEF Undisturbed, Restorable, Anchored, Kept
<1>4. ASSUME NEW q \in Process \ {p}
      PROVE  Knows(q)'
  <2>1. Knows(q) /\ pc'[q] = pc[q] /\ job'[q] = job[q] /\ mine'[q] = mine[q]
    BY DEF Undisturbed, Others
  <2>2. Runs(q, {"establish"})' = Runs(q, {"establish"}) /\ Underway(q)' = Underway(q)
    BY <2>1 DEF Runs, Underway
  <2>3. Establishing(q) => Establishing(q)'
    BY <2>1, <2>2 DEF Establishing
  <2>4. Replacing(q) => Replacing(q)'
    BY <2>1, <2>2 DEF Replacing, Checks, Anchored, Follows, Kept
  <2>5. Building(q) => Building(q)'
    BY <2>1, <2>2 DEF Building, Anchored, Runs
  <2>6. Switching(q) => Switching(q)'
    BY <2>1 DEF Switching, Runs
  <2>7. Recovering(q) => Recovering(q)'
    BY <2>1 DEF Recovering, Anchored
  <2> QED
    BY <1>1, <2>1, <2>2, <2>3, <2>4, <2>5, <2>6, <2>7 DEF Knows
<1>5. ASSUME NEW q \in Process \ {p}
      PROVE  Current(q)'
  <2>1. Current(q) /\ pc'[q] = pc[q] /\ job'[q] = job[q]
    BY DEF Undisturbed, Others
  <2> QED
    BY <2>1 DEF Current, Runs, Anchored, Kept
<1> QED
  BY <1>2, <1>3, <1>4, <1>5

\* A step of p, while nobody else is busy, that changes a file or the anchor.
LEMMA LoudStep ==
  ASSUME Orderly, SingleController, Undisturbed, NEW p \in Process, Others(p),
         UNCHANGED dirty,
         ~dirty => /\ \A q \in Process \ {p} : ~Busy(q)
                   /\ anchor' # None /\ Restorable'
                   /\ Knows(p)' /\ Current(p)'
                   /\ \A q \in Process \ {p} : Current(q)'
  PROVE  Undisturbed'
<1> SUFFICES ASSUME ~dirty
             PROVE  (Exclusive /\ Restorable /\ \A q \in Process : Knows(q) /\ Current(q))'
  BY DEF Undisturbed
<1>1. \A q \in Process \ {p} : ~Busy(q)'
  BY DEF Others, Busy
<1>2. Exclusive'
  BY <1>1 DEF Exclusive
<1>3. ASSUME NEW q \in Process \ {p}
      PROVE  Knows(q)'
  BY <1>1 DEF Knows
<1> QED
  BY <1>2, <1>3

\* A higher revision leaves what the others know.
LEMMA CurrentGrows ==
  ASSUME Orderly, Undisturbed, ~dirty, NEW q \in Process,
         pc'[q] = pc[q], job'[q] = job[q],
         files[Ledger] \in State, files'[Ledger] \in State,
         files'[Ledger].revision = files[Ledger].revision + 1
  PROVE  Current(q)'
<1>1. files[Ledger].revision \in Nat
  BY BoundsAssumption DEF State
<1>2. job[q].base \in State => job[q].base.revision \in Nat
  BY BoundsAssumption DEF State
<1>3. Current(q)
  BY DEF Undisturbed
<1>4. \A a, b \in Nat : a >= b => a + 1 >= b /\ a + 1 > b
  OBVIOUS
<1>5. job[q].base \in State /\ files[Ledger].revision >= job[q].base.revision =>
        /\ files'[Ledger].revision >= job[q].base.revision
        /\ files'[Ledger].revision > job[q].base.revision
  BY <1>1, <1>2, <1>4
<1>6. Runs(q, {"update", "close"})' = Runs(q, {"update", "close"})
  BY DEF Runs
<1> QED
  BY <1>3, <1>5, <1>6 DEF Current

LEMMA OthersLeft ==
  ASSUME TypeOK, Locking, NEW p \in Process,
         \/ Ask(p) \/ Establish(p) \/ Begin(p) \/ Mutate(p) \/ Abandon(p)
         \/ Reread(p) \/ RereadInactive(p) \/ Digest(p) \/ ReadBytes(p)
         \/ Status(p) \/ Write(p) \/ Switch(p) \/ Rewrite(p)
         \/ Recover(p) \/ Archive(p) \/ Restore(p) \/ Record(p) \/ Verify(p)
         \/ Stop(p)
  PROVE  Others(p)
<1>1. ASSUME NEW s \in Steps, Goto(p, s), NEW j, job' = [job EXCEPT ![p] = j],
             NEW r, mine' = [mine EXCEPT ![p] = r],
             lock' = lock \/ (lock = None /\ lock' = p)
      PROVE  Others(p)
  BY <1>1, GotoEffect, NamesAssumption DEF Others, TypeOK
<1>2. job = [job EXCEPT ![p] = job[p]] /\ mine = [mine EXCEPT ![p] = mine[p]]
  BY DEF TypeOK
<1>3. ASSUME NEW s \in Steps, Goto(p, s), UNCHANGED job,
             mine' = mine \/ \E r : Mine(p, r),
             lock' = lock \/ (lock = None /\ lock' = p)
      PROVE  Others(p)
  BY <1>1, <1>2, <1>3 DEF Mine
<1>4. CASE Ask(p)
  BY <1>1, <1>2, <1>4, AskEffect DEF Ask, Steps
<1>5. CASE Establish(p) \/ Begin(p) \/ Mutate(p) \/ Abandon(p) \/ Reread(p)
  <2>1. PICK s \in Steps : Goto(p, s)
    BY <1>5 DEF Establish, Begin, Mutate, Abandon, Reread, Steps
  <2>2. /\ UNCHANGED job /\ (mine' = mine \/ \E r : Mine(p, r))
        /\ lock' = lock \/ (lock = None /\ lock' = p)
    BY <1>5 DEF Establish, Begin, Mutate, Abandon, Reread
  <2> QED
    BY <1>3, <2>1, <2>2
<1>6. CASE Digest(p) \/ ReadBytes(p) \/ Status(p)
  <2>1. PICK s \in Steps : Goto(p, s)
    BY <1>6 DEF Digest, ReadBytes, Status, Steps
  <2>2. \E r \in Anchor : Mine(p, r)
    BY <1>6, DigestEffect, ReadBytesEffect, StatusEffect
  <2>3. UNCHANGED <<job, lock>>
    BY <1>6 DEF Digest, ReadBytes, Status
  <2> QED
    BY <1>3, <2>1, <2>2, <2>3
<1>7. CASE Switch(p) \/ Rewrite(p) \/ Recover(p) \/ Archive(p) \/ Record(p)
  <2>1. PICK s \in Steps : Goto(p, s)
    BY <1>7 DEF Switch, Rewrite, Recover, Archive, Record, Steps
  <2>2. /\ UNCHANGED job /\ (mine' = mine \/ \E r : Mine(p, r))
        /\ lock' = lock \/ (lock = None /\ lock' = p)
    BY <1>7 DEF Switch, Rewrite, Recover, Archive, Record
  <2> QED
    BY <1>3, <2>1, <2>2
<1>8. CASE Restore(p)
  <2>1. PICK s \in Steps : Goto(p, s)
    BY <1>8, RestoreEffect DEF Steps
  <2>2. UNCHANGED <<job, mine, lock>>
    BY <1>8 DEF Restore
  <2> QED
    BY <1>3, <2>1, <2>2
<1>9. CASE RereadInactive(p) \/ Write(p) \/ Verify(p) \/ Stop(p)
  <2>1. End(p)
    BY <1>9 DEF RereadInactive, Write, Verify, Stop
  <2> QED
    BY <2>1, EndEffect DEF Others
<1> QED
  BY <1>4, <1>5, <1>6, <1>7, <1>8, <1>9

\* The end of an operation that changes nothing more.
LEMMA EndKeeps ==
  ASSUME Orderly, SingleController, Undisturbed, NEW p \in Process,
         RereadInactive(p) \/ Verify(p) \/ Stop(p)
  PROVE  Undisturbed'
<1>1. End(p) /\ UNCHANGED <<files, anchor, dirty>>
  BY DEF RereadInactive, Verify, Stop
<1>2. Others(p)
  BY OthersLeft DEF Orderly
<1>3. pc'[p] = "idle"
  BY <1>1, EndEffect DEF Orderly
<1>4. Knows(p)' /\ Current(p)' /\ ~Busy(p)'
  BY <1>3 DEF Knows, Current, Busy, Underway
<1> QED
  BY <1>1, <1>2, <1>4, QuietStep

LEMMA AskKeeps ==
  ASSUME Orderly, SingleController, Undisturbed, NEW p \in Process, Ask(p)
  PROVE  Undisturbed'
<1>1. PICK j \in Job : /\ job' = [job EXCEPT ![p] = j]
                       /\ j.op \in {"update", "close"} => j.base = files[Ledger]
  BY AskEffect DEF Orderly
<1>2. Goto(p, "asked") /\ UNCHANGED <<files, anchor, dirty>>
  BY DEF Ask
<1>3. pc'[p] = "asked" /\ job'[p] = j
  BY <1>1, <1>2, GotoEffect DEF Orderly, TypeOK, Steps
<1>4. Knows(p)' /\ ~Busy(p)'
  BY <1>3 DEF Knows, Busy, Underway
<1>5. Current(p)'
  <2>1. files[Ledger] \in State => files[Ledger].revision >= files[Ledger].revision
    BY BoundsAssumption DEF State
  <2> QED
    BY <1>1, <1>2, <1>3, <2>1 DEF Current, Runs
<1> QED
  BY <1>2, <1>4, <1>5, OthersLeft, QuietStep DEF Orderly

LEMMA EstablishKeeps ==
  ASSUME Orderly, SingleController, Undisturbed, NEW p \in Process, Establish(p)
  PROVE  Undisturbed'
<1>1. PICK r \in Anchor : /\ Mine(p, r)
                          /\ r.digest = files /\ r.snapshot = files
                          /\ r.status = "ACTIVE"
  BY EstablishEffect DEF Orderly
<1>2. /\ Runs(p, {"establish"}) /\ Active(files[Ledger]) /\ anchor = None
      /\ Goto(p, "digest") /\ UNCHANGED <<files, anchor, job, dirty>>
  BY DEF Establish
<1>3. pc'[p] = "digest" /\ mine'[p] = r
  BY <1>1, <1>2, GotoEffect, MineEffect DEF Orderly, Steps
<1>4. Runs(p, {"establish"})'
  BY <1>2 DEF Runs
<1>5. Establishing(p)'
  BY <1>1, <1>2, <1>3 DEF Establishing, Active
<1>6. Replacing(p)' /\ Building(p)' /\ Recovering(p)'
  BY <1>3, <1>4 DEF Replacing, Building, Recovering, Recovers
<1>7. Switching(p)'
  BY <1>4 DEF Switching, Runs
<1>8. Knows(p)' /\ Current(p)'
  BY <1>3, <1>4, <1>5, <1>6, <1>7 DEF Knows, Current
<1>9. ~dirty => \A q \in Process \ {p} : ~Busy(q)
  BY <1>2, Entering DEF Leads, Runs
<1> QED
  BY <1>2, <1>8, <1>9, OthersLeft, QuietStep DEF Orderly

LEMMA BeginKeeps ==
  ASSUME Orderly, SingleController, Undisturbed, NEW p \in Process, Begin(p)
  PROVE  Undisturbed'
<1>1. /\ pc[p] = "asked" /\ Runs(p, Commands) /\ Checks
      /\ p \in Locked => lock = None
      /\ Goto(p, "checked") /\ UNCHANGED <<files, anchor, job, mine, dirty>>
  BY DEF Begin
<1>2. pc'[p] = "checked"
  BY <1>1, GotoEffect DEF Orderly, Steps
<1>3. Runs(p, Commands)' /\ ~Runs(p, {"establish"})' /\ ~Runs(p, {"switch"})'
  BY <1>1 DEF Runs, Commands
<1>4. Checks' /\ anchor' # None
  BY <1>1 DEF Checks, Anchored
<1>5. Knows(p)'
  <2>1. Establishing(p)' /\ Switching(p)'
    BY <1>3 DEF Establishing, Switching
  <2>2. Replacing(p)' /\ Building(p)' /\ Recovering(p)'
    BY <1>2, <1>4 DEF Replacing, Building, Builds, Recovering, Recovers
  <2> QED
    BY <1>4, <2>1, <2>2 DEF Knows
<1>6. ASSUME ~dirty
      PROVE  Current(p)'
  <2>1. files[Ledger] = Kept /\ Anchored
    BY <1>1, <1>6 DEF Checks, Undisturbed, Restorable, Anchored, Kept, File
  <2>2. Current(p)
    BY <1>6 DEF Undisturbed
  <2>3. /\ Runs(p, {"update", "close"})' = Runs(p, {"update", "close"})
        /\ Anchored' /\ files'[Ledger] = Kept'
    BY <1>1, <2>1 DEF Runs, Anchored, Kept
  <2> QED
    BY <1>1, <1>2, <2>2, <2>3 DEF Current
<1>7. ~dirty /\ Busy(p)' => \A q \in Process \ {p} : ~Busy(q)
  BY <1>1, <1>2, Entering DEF Busy
<1> QED
  BY <1>1, <1>5, <1>6, <1>7, OthersLeft, QuietStep DEF Orderly

LEMMA MutateKeeps ==
  ASSUME Orderly, SingleController, Undisturbed, NEW p \in Process, Mutate(p)
  PROVE  Undisturbed'
<1>1. /\ pc[p] = "checked" /\ lock \in {None, p} /\ Goto(p, "reread")
      /\ job[p].op # "observe" =>
           /\ job[p].base \in State
           /\ job[p].base.revision = files[Ledger].revision
      /\ UNCHANGED <<anchor, job, mine, dirty>>
  BY DEF Mutate
<1>2. PICK new \in State :
        /\ files' = [files EXCEPT ![Ledger] = new]
        /\ files' \in Files /\ files'[Ledger] = new
        /\ new.write = writes + 1 /\ new.on = files[Ledger].write /\ new.ours
        /\ new.revision = files[Ledger].revision + 1
  BY MutateEffect DEF Orderly
<1>3. Active(files[Ledger]) /\ files[Ledger] \in State
  BY MutateEffect DEF Orderly, Active
<1>4. pc'[p] = "reread"
  BY <1>1, GotoEffect DEF Orderly, Steps
<1>5. Runs(p, Commands)
  BY <1>1 DEF Orderly, Locking, RunsAt, Fitting
<1> SUFFICES ASSUME ~dirty
             PROVE  Undisturbed'
  BY <1>1 DEF Undisturbed
<1>6. \A q \in Process \ {p} : ~Busy(q)
  BY <1>1, <1>5, Entering DEF Busy, Leads
<1>7. Anchored /\ files[Ledger] = Kept
  <2>1. CASE p \in Locked
    <3>1. Checks
      BY <1>1, <2>1 DEF Undisturbed, Knows, Busy, Replacing
    <3> QED
      BY <3>1 DEF Checks, Undisturbed, Restorable, Anchored, Kept, File
  <2>2. CASE p \notin Locked
    <3>1. job[p].op # "observe"
      BY <1>5, <2>2 DEF Orderly, Locking, RunsAt, SingleController, Runs
    <3>2. Runs(p, {"update", "close"})
      BY <1>5, <3>1 DEF Runs, Commands
    <3>3. files[Ledger].revision \in Nat
      BY <1>3, BoundsAssumption DEF State
    <3>4. ~(files[Ledger].revision > job[p].base.revision)
      BY <1>1, <3>1, <3>3
    <3> QED
      BY <1>1, <2>2, <3>1, <3>2, <3>4 DEF Undisturbed, Current
  <2> QED
    BY <2>1, <2>2
<1>8. new # Kept
  <2>1. files[Ledger].write \in Nat /\ files[Ledger].write <= writes
    BY <1>3, BoundsAssumption DEF Orderly, Numbered, Counted, State
  <2>2. writes \in Nat
    BY BoundsAssumption DEF Orderly, TypeOK
  <2>3. new.write # files[Ledger].write
    BY <1>2, <2>1, <2>2
  <2> QED
    BY <1>7, <2>3
<1>9. Follows' /\ anchor' # None
  BY <1>1, <1>2, <1>7, <1>8 DEF Follows, Kept, Anchored
<1>10. Restorable'
  BY <1>1 DEF Undisturbed, Restorable, Anchored, Kept
<1>11. Knows(p)' /\ Current(p)'
  <2>1. ~Runs(p, {"establish"})' /\ ~Runs(p, {"switch"})'
    BY <1>1, <1>5 DEF Runs, Commands
  <2>2. Establishing(p)' /\ Switching(p)'
    BY <2>1 DEF Establishing, Switching
  <2>3. Replacing(p)' /\ Building(p)' /\ Recovering(p)'
    BY <1>4, <1>9 DEF Replacing, Building, Builds, Recovering, Recovers
  <2> QED
    BY <1>4, <1>9, <2>2, <2>3 DEF Knows, Current
<1>12. Others(p)
  BY OthersLeft DEF Orderly
<1>13. \A q \in Process \ {p} : Current(q)'
  BY <1>2, <1>3, <1>12, CurrentGrows DEF Others
<1> QED
  BY <1>1, <1>6, <1>9, <1>10, <1>11, <1>12, <1>13, LoudStep

LEMMA AbandonKeeps ==
  ASSUME Orderly, SingleController, Undisturbed, NEW p \in Process, Abandon(p)
  PROVE  Undisturbed'
<1>1. /\ Runs(p, {"abandon"}) /\ lock = None /\ anchor # None
      /\ Goto(p, "reread") /\ UNCHANGED <<anchor, job, mine, dirty>>
  BY DEF Abandon, Checks, Settled, Anchored
<1>2. files'[Ledger] = Absent
  BY AbandonEffect DEF Orderly
<1>3. pc'[p] = "reread"
  BY <1>1, GotoEffect DEF Orderly, Steps
<1>4. Leads(p)
  BY <1>1 DEF Leads, Runs
<1>5. ~dirty => \A q \in Process \ {p} : ~Busy(q)
  BY <1>1, <1>4, Entering
<1>6. ~dirty => Restorable'
  BY <1>1 DEF Undisturbed, Restorable, Anchored, Kept
<1>7. Knows(p)' /\ Current(p)'
  <2>1. ~Runs(p, {"establish"})' /\ ~Runs(p, {"switch"})'
    BY <1>1 DEF Runs
  <2>2. Establishing(p)' /\ Switching(p)'
    BY <2>1 DEF Establishing, Switching
  <2>3. Replacing(p)' /\ Building(p)' /\ Recovering(p)'
    BY <1>2, <1>3 DEF Replacing, Building, Builds, Recovering, Recovers
  <2> QED
    BY <1>1, <1>3, <2>2, <2>3 DEF Knows, Current
<1>8. Others(p)
  BY OthersLeft DEF Orderly
<1>9. \A q \in Process \ {p} : Current(q)'
  <2>1. \A q \in Process \ {p} : ~Leads(q) /\ job'[q] = job[q]
    BY <1>4, <1>8, OneLead DEF Others
  <2> QED
    BY <2>1 DEF Current, Leads, Runs, Commands
<1> QED
  BY <1>1, <1>5, <1>6, <1>7, <1>8, <1>9, LoudStep

LEMMA RereadKeeps ==
  ASSUME Orderly, SingleController, Undisturbed, NEW p \in Process, Reread(p)
  PROVE  Undisturbed'
<1>1. /\ pc[p] = "reread" /\ Anchored /\ anchor \in Anchor /\ Mine(p, anchor)
      /\ Goto(p, "digest") /\ UNCHANGED <<files, anchor, job, dirty>>
  BY DEF Orderly, TypeOK, Reread, Anchored
<1>2. pc'[p] = "digest" /\ mine'[p] = anchor
  BY <1>1, GotoEffect, MineEffect DEF Orderly, Steps
<1>3. Runs(p, Checkpoints)
  BY <1>1 DEF Orderly, Locking, RunsAt, Fitting
<1>4. ~Runs(p, {"establish"}) /\ ~Runs(p, {"establish"})' /\ ~Runs(p, {"switch"})'
  BY <1>1, <1>3 DEF Runs, Checkpoints, Commands
<1>5. Busy(p)
  BY <1>1 DEF Busy
<1>6. ASSUME ~dirty
      PROVE  Knows(p)'
  <2>1. files[Ledger] = Absent \/ Follows
    BY <1>1, <1>4, <1>5, <1>6 DEF Undisturbed, Knows, Replacing
  <2>2. Replacing(p)'
    BY <1>1, <1>2, <2>1 DEF Replacing, Follows, Anchored, Kept
  <2>3. anchor.digest = anchor.snapshot
    BY <1>1, <1>6 DEF Undisturbed, Restorable, Anchored
  <2>4. Building(p)'
    BY <1>1, <1>2, <2>3 DEF Building, Anchored
  <2>5. Establishing(p)' /\ Switching(p)' /\ Recovering(p)'
    BY <1>2, <1>4 DEF Establishing, Switching, Recovering, Recovers
  <2> QED
    BY <1>1, <2>2, <2>4, <2>5 DEF Knows, Anchored
<1>7. ~dirty => \A q \in Process \ {p} : ~Busy(q)
  BY <1>5, Entering
<1>8. Current(p)'
  BY <1>2 DEF Current
<1> QED
  BY <1>1, <1>6, <1>7, <1>8, OthersLeft, QuietStep DEF Orderly

\* The steps that build a record go on from what p knows.
LEMMA BuildKeeps ==
  ASSUME Orderly, SingleController, Undisturbed, NEW p \in Process,
         Digest(p) \/ ReadBytes(p) \/ Status(p)
  PROVE  Undisturbed'
<1>1. /\ pc[p] \in {"digest", "bytes", "status"}
      /\ UNCHANGED <<files, anchor, job, dirty>>
      /\ mine[p] \in Anchor
  BY DEF Orderly, TypeOK, Locking, RunsAt, Digest, ReadBytes, Status, Builds
<1>2. PICK s \in {"bytes", "status", "write"} :
        /\ Goto(p, s)
        /\ pc[p] = "digest" => s = "bytes"
        /\ pc[p] = "bytes" => s = IF job[p].op \in Checkpoints THEN "status" ELSE "write"
        /\ pc[p] = "status" => s = "write"
  BY DEF Digest, ReadBytes, Status
<1>3. PICK r \in Anchor :
          /\ Mine(p, r) /\ r.mode = mine[p].mode
          /\ pc[p] = "digest" =>
               /\ r.digest = With(mine[p].digest, Taken(p))
               /\ r.snapshot = mine[p].snapshot /\ r.status = mine[p].status
          /\ pc[p] = "bytes" =>
               /\ r.digest = mine[p].digest /\ r.status = mine[p].status
               /\ r.snapshot = IF job[p].op \in Checkpoints /\ mine[p].digest[Ledger] = Absent
                                 THEN [mine[p].snapshot EXCEPT ![Ledger] = Absent]
                                 ELSE With(mine[p].snapshot, Taken(p))
          /\ pc[p] = "status" =>
               /\ r.digest = mine[p].digest /\ r.snapshot = mine[p].snapshot
               /\ IF mine[p].digest[Ledger] = Absent THEN r.status = "ABANDONED"
                    ELSE files[Ledger] \in State /\ r.status = files[Ledger].status
  <2>1. CASE Digest(p)
    BY <2>1, DigestEffect DEF Orderly, Digest
  <2>2. CASE ReadBytes(p)
    BY <2>2, ReadBytesEffect DEF Orderly, ReadBytes
  <2>3. CASE Status(p)
    BY <2>3, StatusEffect DEF Orderly, Status
  <2> QED
    BY <2>1, <2>2, <2>3
<1>4. pc'[p] = s /\ mine'[p] = r
  BY <1>2, <1>3, GotoEffect, MineEffect DEF Orderly, Steps
<1>5. Busy(p) /\ Busy(p)' /\ pc[p] \in Builds /\ s \notin Recovers
  BY <1>1, <1>2, <1>4 DEF Busy, Builds, Recovers
<1>6. /\ Runs(p, {"establish"})' = Runs(p, {"establish"})
      /\ Runs(p, {"switch"})' = Runs(p, {"switch"})
      /\ Runs(p, Checkpoints)' = Runs(p, Checkpoints)
  BY <1>1 DEF Runs
<1>7. /\ files \in Files /\ mine[p].digest \in Files /\ mine[p].snapshot \in Files
      /\ r.snapshot \in Files
  BY <1>1, Fields DEF Orderly, TypeOK
<1>8. Runs(p, {"establish"}) \/ Runs(p, {"switch"}) \/ Runs(p, Checkpoints)
  BY <1>1 DEF Orderly, Locking, RunsAt, Fitting, Runs
<1>9. Checkpoints \cap {"establish", "switch"} = {}
  BY DEF Checkpoints, Commands
<1>10. CASE Runs(p, {"establish"})
  <2>1. pc[p] # "status" /\ job[p].op = "establish" /\ job[p].op \notin Checkpoints
    BY <1>9, <1>10 DEF Orderly, Locking, RunsAt, Fitting, Runs
  <2>2. Taken(p) = File
    BY <2>1 DEF Taken
  <2>3. With(mine[p].digest, Taken(p)) = files /\ With(mine[p].snapshot, Taken(p)) = files
    BY <1>7, <2>2, NamesAssumption DEF With, Files
  <2>4. ASSUME ~dirty
        PROVE  Knows(p)'
    <3>1. Establishing(p)
      BY <1>5, <2>4 DEF Undisturbed, Knows
    <3>2. Establishing(p)'
      BY <1>1, <1>3, <1>4, <1>10, <2>1, <2>3, <3>1 DEF Establishing
    <3>3. Replacing(p)' /\ Building(p)' /\ Recovering(p)' /\ Switching(p)'
      BY <1>2, <1>4, <1>6, <1>10, <2>1, <1>5
         DEF Replacing, Building, Recovering, Switching, Runs
    <3> QED
      BY <1>6, <1>10, <3>2, <3>3 DEF Knows
  <2>5. Current(p)'
    BY <1>2, <1>4 DEF Current
  <2>6. ~dirty => \A q \in Process \ {p} : ~Busy(q)
    BY <1>5, Entering
  <2> QED
    BY <1>1, <2>4, <2>5, <2>6, OthersLeft, QuietStep DEF Orderly
<1>11. CASE ~Runs(p, {"establish"})
  <2>1. Taken(p) = {Ledger}
    BY <1>8, <1>11 DEF Taken, Runs
  <2>2. /\ With(mine[p].digest, Taken(p))[Ledger] = files[Ledger]
        /\ With(mine[p].snapshot, Taken(p))[Ledger] = files[Ledger]
        /\ \A f \in Protected :
             /\ With(mine[p].digest, Taken(p))[f] = mine[p].digest[f]
             /\ With(mine[p].snapshot, Taken(p))[f] = mine[p].snapshot[f]
    BY <1>7, <2>1, NamesAssumption DEF With, File
  <2>3. /\ [mine[p].snapshot EXCEPT ![Ledger] = Absent][Ledger] = Absent
        /\ \A f \in Protected :
             [mine[p].snapshot EXCEPT ![Ledger] = Absent][f] = mine[p].snapshot[f]
    BY <1>7, NamesAssumption DEF Files, File
  <2>4. ASSUME ~dirty
        PROVE  Knows(p)'
    <3>1. Replacing(p) /\ Building(p) /\ Switching(p) /\ anchor # None
      BY <1>5, <1>11, <2>4 DEF Undisturbed, Knows, Busy, Underway
    <3>2. Anchored /\ (files[Ledger] = Absent \/ Follows)
      BY <1>1, <1>5, <1>11, <3>1 DEF Building, Replacing
    <3>3. Replacing(p)' /\ Establishing(p)' /\ Recovering(p)'
      BY <1>1, <1>2, <1>4, <1>5, <1>6, <1>11, <3>2
         DEF Replacing, Establishing, Recovering, Follows, Anchored, Kept
    <3>4. Switching(p)'
      <4>1. SUFFICES ASSUME Runs(p, {"switch"})
                     PROVE  Switching(p)'
        BY <1>6 DEF Switching
      <4>2. pc[p] # "status"
        BY <1>9, <4>1 DEF Orderly, Locking, RunsAt, Fitting, Runs
      <4>3. r.status = mine[p].status /\ r.mode = mine[p].mode
        BY <1>1, <1>3, <4>2
      <4>4. /\ job[p].expected = anchor
            /\ mine[p].mode = job[p].mode /\ mine[p].status = "ACTIVE"
            /\ Active(files[Ledger])
        BY <1>1, <3>1, <4>1 DEF Switching
      <4> QED
        BY <1>1, <1>4, <4>3, <4>4 DEF Switching, Active
    <3>5. \A f \in Protected : r.digest[f] = anchor.digest[f] /\ r.snapshot[f] = anchor.digest[f]
      <4>1. \A f \in Protected : /\ mine[p].digest[f] = anchor.digest[f]
                                 /\ mine[p].snapshot[f] = anchor.digest[f]
        BY <1>5, <1>11, <3>1 DEF Building
      <4> QED
        BY <1>1, <1>3, <2>2, <2>3, <4>1
    <3>6. r.digest[Ledger] = files[Ledger]
      <4>1. pc[p] \in {"bytes", "status"} => mine[p].digest[Ledger] = files[Ledger]
        BY <1>5, <1>11, <3>1 DEF Building
      <4> QED
        BY <1>1, <1>3, <2>2, <4>1
    <3>7. s \in {"status", "write"} => r.snapshot[Ledger] = files[Ledger]
      <4>1. /\ pc[p] = "status" => mine[p].snapshot[Ledger] = files[Ledger]
            /\ pc[p] = "bytes" => mine[p].digest[Ledger] = files[Ledger]
        BY <1>5, <1>11, <3>1 DEF Building
      <4>2. pc[p] \in {"bytes", "status"} \/ s = "bytes"
        BY <1>1, <1>2
      <4>3. CASE pc[p] = "bytes"
        <5>1. r.snapshot[Ledger] = IF job[p].op \in Checkpoints /\ files[Ledger] = Absent
                                     THEN Absent ELSE files[Ledger]
          BY <1>3, <2>2, <2>3, <4>1, <4>3
        <5> QED
          BY <5>1
      <4>4. CASE pc[p] = "status"
        BY <1>3, <4>1, <4>4
      <4> QED
        BY <4>2, <4>3, <4>4
    <3>8. s = "write" => r.status = IF files[Ledger] = Absent THEN "ABANDONED"
                                      ELSE files[Ledger].status
      <4>1. CASE pc[p] = "status"
        <5>1. mine[p].digest[Ledger] = files[Ledger]
          BY <1>5, <1>11, <3>1, <4>1 DEF Building
        <5> QED
          BY <1>3, <4>1, <5>1
      <4>2. CASE pc[p] = "bytes" /\ s = "write"
        <5>1. Runs(p, {"switch"})
          BY <1>2, <1>8, <1>11, <4>2 DEF Runs
        <5>2. mine[p].status = "ACTIVE" /\ Active(files[Ledger])
          BY <3>1, <4>2, <5>1 DEF Switching
        <5> QED
          BY <1>3, <4>2, <5>2, AbsentAssumption DEF Active
      <4> QED
        BY <1>1, <1>2, <4>1, <4>2
    <3>9. Building(p)'
      <4>1. Runs(p, Checkpoints) => r.mode = anchor.mode
        BY <1>3, <1>5, <1>11, <3>1 DEF Building
      <4> QED
        BY <1>1, <1>2, <1>4, <1>6, <3>2, <3>5, <3>6, <3>7, <3>8, <4>1
           DEF Building, Anchored
    <3> QED
      BY <1>1, <3>1, <3>3, <3>4, <3>9 DEF Knows
  <2>5. Current(p)'
    BY <1>2, <1>4 DEF Current
  <2>6. ~dirty => \A q \in Process \ {p} : ~Busy(q)
    BY <1>5, Entering
  <2> QED
    BY <1>1, <2>4, <2>5, <2>6, OthersLeft, QuietStep DEF Orderly
<1> QED
  BY <1>10, <1>11

\* What Write makes of the anchor.
LEMMA Written ==
  ASSUME Orderly, Undisturbed, ~dirty, NEW p \in Process, Write(p)
  PROVE  /\ mine[p] \in Anchor /\ mine[p].digest = mine[p].snapshot
         /\ anchor = None \/ Anchored
         /\ anchor # None => files[Ledger] # Kept
         /\ anchor # None =>
              /\ mine[p].snapshot[Ledger] = Absent \/ Follows
              /\ mine[p].snapshot[Ledger] = files[Ledger]
              /\ \/ Runs(p, Checkpoints) /\ mine[p].mode = anchor.mode
                 \/ /\ Runs(p, {"switch"}) /\ job[p].expected = anchor
                    /\ job[p].mode = mine[p].mode
         /\ mine[p].status = "ACTIVE" => Active(mine[p].snapshot[Ledger])
<1>1. pc[p] = "write" /\ mine[p] \in Anchor
  BY DEF Orderly, TypeOK, Locking, RunsAt, Write, Builds
<1>2. mine[p].digest \in Files /\ mine[p].snapshot \in Files
  BY <1>1, Fields
<1>3. Busy(p) /\ pc[p] \in Builds
  BY <1>1 DEF Busy, Builds
<1>4. /\ Establishing(p) /\ Replacing(p) /\ Building(p) /\ Switching(p) /\ Restorable
      /\ ~Runs(p, {"establish"}) => anchor # None
  BY <1>3 DEF Undisturbed, Knows, Busy, Underway
<1>5. CASE Runs(p, {"establish"})
  BY <1>1, <1>4, <1>5 DEF Establishing
<1>6. CASE ~Runs(p, {"establish"})
  <2>1. Anchored /\ (files[Ledger] = Absent \/ Follows)
    BY <1>1, <1>3, <1>4, <1>6 DEF Building, Replacing
  <2>2. /\ \A f \in Protected : mine[p].digest[f] = mine[p].snapshot[f]
        /\ mine[p].digest[Ledger] = files[Ledger]
        /\ mine[p].snapshot[Ledger] = files[Ledger]
        /\ mine[p].status = IF files[Ledger] = Absent THEN "ABANDONED"
                              ELSE files[Ledger].status
        /\ Runs(p, Checkpoints) => mine[p].mode = anchor.mode
    BY <1>1, <1>3, <1>4, <1>6 DEF Building
  <2>3. mine[p].digest = mine[p].snapshot
    BY <1>2, <2>2 DEF Files, File
  <2>4. files[Ledger] # Kept
    BY <1>4, <2>1, AbsentAssumption DEF Anchored, Restorable, Active, Follows
  <2>5. mine[p].status = "ACTIVE" => Active(mine[p].snapshot[Ledger])
    BY <2>1, <2>2 DEF Follows, Active
  <2>6. Runs(p, Checkpoints) \/ Runs(p, {"switch"})
    BY <1>1, <1>6 DEF Orderly, Locking, RunsAt, Fitting, Runs
  <2> QED
    BY <1>1, <1>4, <2>1, <2>2, <2>3, <2>4, <2>5, <2>6 DEF Switching
<1> QED
  BY <1>5, <1>6

LEMMA WriteKeeps ==
  ASSUME Orderly, SingleController, Undisturbed, NEW p \in Process, Write(p)
  PROVE  Undisturbed'
<1>1. /\ pc[p] = "write" /\ anchor' = mine[p] /\ End(p)
      /\ UNCHANGED <<files, dirty>>
  BY DEF Write
<1>2. pc'[p] = "idle"
  BY <1>1, EndEffect DEF Orderly
<1>3. Others(p)
  BY OthersLeft DEF Orderly
<1> SUFFICES ASSUME ~dirty
             PROVE  Undisturbed'
  BY <1>1 DEF Undisturbed
<1>4. \A q \in Process \ {p} : ~Busy(q)
  BY <1>1, Entering DEF Busy
<1>5. Restorable' /\ anchor' # None
  BY <1>1, Written, NoneAssumption DEF Restorable, Anchored, Kept, Active
<1>6. Knows(p)' /\ Current(p)'
  BY <1>2 DEF Knows, Current, Busy, Underway
<1>7. ASSUME NEW q \in Process \ {p}
      PROVE  Current(q)'
  <2>1. Current(q) /\ pc'[q] = pc[q] /\ job'[q] = job[q]
    BY <1>3 DEF Undisturbed, Others
  <2>2. ~(Anchored /\ files[Ledger] = Kept)
    BY Written DEF Anchored
  <2> QED
    BY <1>1, <2>1, <2>2 DEF Current, Runs
<1> QED
  BY <1>1, <1>3, <1>4, <1>5, <1>6, <1>7, LoudStep

LEMMA SwitchKeeps ==
  ASSUME Orderly, SingleController, Undisturbed, NEW p \in Process, Switch(p)
  PROVE  Undisturbed'
<1>1. PICK r \in Anchor :
        /\ Mine(p, r)
        /\ r.digest = anchor.digest /\ r.snapshot = anchor.snapshot
        /\ r.status = anchor.status /\ r.mode = job[p].mode
  BY SwitchEffect DEF Orderly
<1>2. /\ pc[p] = "asked" /\ Runs(p, {"switch"}) /\ lock = None /\ Checks
      /\ job[p].expected = anchor /\ Goto(p, "rewrite")
      /\ UNCHANGED <<files, anchor, job, dirty>>
  BY DEF Switch
<1>3. pc'[p] = "rewrite" /\ mine'[p] = r
  BY <1>1, <1>2, GotoEffect, MineEffect DEF Orderly, Steps
<1>4. Runs(p, {"switch"})' /\ ~Runs(p, {"establish"})' /\ ~Runs(p, Checkpoints)'
  BY <1>2 DEF Runs, Checkpoints, Commands
<1>5. ~dirty => Knows(p)'
  <2>1. Checks' /\ Anchored
    BY <1>2 DEF Checks, Anchored
  <2>2. ~dirty => anchor.digest = anchor.snapshot
    BY <2>1 DEF Undisturbed, Restorable, Anchored
  <2>3. Replacing(p)' /\ Recovering(p)' /\ Establishing(p)'
    BY <1>3, <1>4, <2>1 DEF Replacing, Recovering, Recovers, Establishing
  <2>4. Switching(p)'
    BY <1>1, <1>2, <1>3, <2>1 DEF Switching, Anchored
  <2>5. ~dirty => Building(p)'
    BY <1>1, <1>2, <1>3, <1>4, <2>1, <2>2 DEF Building, Anchored
  <2> QED
    BY <1>2, <2>1, <2>3, <2>4, <2>5 DEF Knows, Anchored
<1>6. ~dirty => \A q \in Process \ {p} : ~Busy(q)
  BY <1>2, Entering
<1>7. Current(p)'
  BY <1>3 DEF Current
<1> QED
  BY <1>2, <1>5, <1>6, <1>7, OthersLeft, QuietStep DEF Orderly

LEMMA RewriteKeeps ==
  ASSUME Orderly, SingleController, Undisturbed, NEW p \in Process, Rewrite(p)
  PROVE  Undisturbed'
<1>1. PICK new \in State :
        /\ files' = [files EXCEPT ![Ledger] = new]
        /\ files' \in Files /\ files'[Ledger] = new
        /\ new.write = writes + 1 /\ new.on = mine[p].digest[Ledger].write
        /\ new.revision = mine[p].digest[Ledger].revision + 1 /\ Active(new)
  BY RewriteEffect DEF Orderly
<1>2. /\ pc[p] = "rewrite" /\ Goto(p, "digest")
      /\ UNCHANGED <<anchor, job, mine, dirty>>
  BY DEF Rewrite
<1>3. pc'[p] = "digest"
  BY <1>2, GotoEffect DEF Orderly, Steps
<1>4. Runs(p, {"switch"}) /\ ~Runs(p, {"establish"}) /\ Busy(p)
  BY <1>2 DEF Orderly, Locking, RunsAt, Fitting, Runs, Busy
<1>5. Others(p)
  BY OthersLeft DEF Orderly
<1> SUFFICES ASSUME ~dirty
             PROVE  Undisturbed'
  BY <1>2 DEF Undisturbed
<1>6. Replacing(p) /\ Building(p) /\ Switching(p) /\ Restorable
  BY <1>4 DEF Undisturbed, Knows
<1>7. Checks /\ mine[p].digest = anchor.digest
  BY <1>2, <1>4, <1>6 DEF Replacing, Building, Builds
<1>8. files[Ledger] = Kept /\ mine[p].digest[Ledger] = files[Ledger]
      /\ files[Ledger] \in State /\ Anchored
  BY <1>6, <1>7 DEF Checks, Anchored, Active, Restorable, Kept, File
<1>9. new # Kept
  <2>1. files[Ledger].write \in Nat /\ files[Ledger].write <= writes
    BY <1>8, BoundsAssumption DEF Orderly, Numbered, Counted, State
  <2>2. writes \in Nat
    BY BoundsAssumption DEF Orderly, TypeOK
  <2> QED
    BY <1>1, <1>8, <2>1, <2>2
<1>10. Follows' /\ anchor' # None
  BY <1>1, <1>2, <1>8, <1>9 DEF Follows, Kept, Anchored, Active
<1>11. Restorable'
  BY <1>2, <1>6 DEF Restorable, Anchored, Kept
<1>12. Knows(p)'
  <2>1. Establishing(p)' /\ Recovering(p)' /\ Replacing(p)'
    BY <1>2, <1>3, <1>4, <1>10 DEF Establishing, Recovering, Recovers, Replacing, Runs
  <2>2. Building(p)'
    BY <1>2, <1>3, <1>4, <1>6, <1>8 DEF Building, Builds, Anchored, Runs
  <2>3. Switching(p)'
    BY <1>1, <1>2, <1>6 DEF Switching, Runs, Active
  <2> QED
    BY <1>10, <2>1, <2>2, <2>3 DEF Knows
<1>13. Current(p)'
  BY <1>3 DEF Current
<1>14. \A q \in Process \ {p} : ~Busy(q)
  BY <1>4, Entering
<1>15. \A q \in Process \ {p} : Current(q)'
  BY <1>1, <1>5, <1>8, CurrentGrows DEF Others
<1> QED
  BY <1>2, <1>5, <1>10, <1>11, <1>12, <1>13, <1>14, <1>15, LoudStep

\* While the Controller runs, nobody else runs a command without the lock.
LEMMA LeadAlone ==
  ASSUME Orderly, SingleController, NEW p \in Process, Leads(p), Others(p)
  PROVE  \A q \in Process \ {p} : Current(q)'
<1> SUFFICES ASSUME NEW q \in Process \ {p}
             PROVE  Current(q)'
  OBVIOUS
<1>1. ~Leads(q) /\ job'[q] = job[q]
  BY OneLead DEF Others
<1> QED
  BY <1>1 DEF Current, Leads, Runs, Commands

LEMMA RecoverKeeps ==
  ASSUME Orderly, SingleController, Undisturbed, NEW p \in Process, Recover(p)
  PROVE  Undisturbed'
<1>1. PICK r \in Anchor :
        /\ Mine(p, r)
        /\ r.digest = anchor.digest /\ r.snapshot = anchor.snapshot
        /\ r.status = anchor.status /\ r.mode = anchor.mode
  BY RecoverEffect DEF Orderly
<1>2. /\ Runs(p, {"recover"}) /\ lock = None /\ Anchored /\ Goto(p, "archive")
      /\ UNCHANGED <<files, anchor, job, dirty>>
  BY DEF Recover
<1>3. pc'[p] = "archive" /\ mine'[p] = r
  BY <1>1, <1>2, GotoEffect, MineEffect DEF Orderly, Steps
<1>4. /\ Runs(p, {"recover"})' /\ ~Runs(p, {"establish"})' /\ ~Runs(p, {"switch"})'
      /\ Leads(p)
  BY <1>2 DEF Runs, Leads
<1>5. Knows(p)'
  <2>1. Recovering(p)'
    BY <1>1, <1>2, <1>3 DEF Recovering, Anchored
  <2>2. Establishing(p)' /\ Replacing(p)' /\ Building(p)' /\ Switching(p)'
    BY <1>3, <1>4 DEF Establishing, Replacing, Building, Builds, Switching
  <2> QED
    BY <1>2, <2>1, <2>2 DEF Knows, Anchored
<1>6. ~dirty => \A q \in Process \ {p} : ~Busy(q)
  BY <1>2, <1>4, Entering
<1>7. Current(p)'
  BY <1>3 DEF Current
<1> QED
  BY <1>2, <1>5, <1>6, <1>7, OthersLeft, QuietStep DEF Orderly

LEMMA ArchiveKeeps ==
  ASSUME Orderly, SingleController, Undisturbed, NEW p \in Process, Archive(p)
  PROVE  Undisturbed'
<1>1. /\ pc[p] = "archive" /\ Goto(p, "restore")
      /\ UNCHANGED <<files, anchor, job, mine, dirty>>
  BY DEF Archive
<1>2. pc'[p] = "restore"
  BY <1>1, GotoEffect DEF Orderly, Steps
<1>3. Busy(p) /\ Runs(p, {"recover"}) /\ Underway(p)
  BY <1>1 DEF Busy, Underway, Orderly, Locking, RunsAt, Fitting, Recovers
<1>4. ~dirty => Knows(p)'
  <2>1. ~Runs(p, {"establish"})' /\ ~Runs(p, {"switch"})' /\ ~Runs(p, {"establish"})
    BY <1>1, <1>3 DEF Runs
  <2>2. Establishing(p)' /\ Replacing(p)' /\ Building(p)' /\ Switching(p)'
    BY <1>2, <2>1 DEF Establishing, Replacing, Building, Builds, Switching
  <2>3. ~dirty => Recovering(p)'
    BY <1>1, <1>3 DEF Undisturbed, Knows, Recovering, Recovers, Anchored
  <2>4. ~dirty => anchor' # None
    BY <1>1, <1>3, <2>1 DEF Undisturbed, Knows
  <2> QED
    BY <2>2, <2>3, <2>4 DEF Knows
<1>5. ~dirty => \A q \in Process \ {p} : ~Busy(q)
  BY <1>3, Entering
<1>6. Current(p)'
  BY <1>2 DEF Current
<1> QED
  BY <1>1, <1>4, <1>5, <1>6, OthersLeft, QuietStep DEF Orderly

LEMMA RestoreKeeps ==
  ASSUME Orderly, SingleController, Undisturbed, NEW p \in Process, Restore(p)
  PROVE  Undisturbed'
<1>1. pc[p] = "restore" /\ UNCHANGED <<anchor, job, mine, dirty>>
  BY DEF Restore
<1>2. PICK s \in {"restore", "adapter"} : Goto(p, s)
  BY RestoreEffect DEF Orderly
<1>3. pc'[p] = s
  BY <1>2, GotoEffect DEF Orderly, Steps
<1>4. Busy(p) /\ Runs(p, {"recover"}) /\ Leads(p) /\ Underway(p)
  BY <1>1 DEF Busy, Underway, Orderly, Locking, RunsAt, Fitting, Recovers, Leads, Runs
<1>5. ~Runs(p, {"establish"})' /\ ~Runs(p, {"switch"})' /\ ~Runs(p, {"establish"})
  BY <1>1, <1>4 DEF Runs
<1>6. Establishing(p)' /\ Replacing(p)' /\ Building(p)' /\ Switching(p)' /\ Current(p)'
  BY <1>3, <1>5 DEF Establishing, Replacing, Building, Builds, Switching, Current
<1>7. ~dirty => /\ Recovering(p)' /\ anchor' # None /\ Restorable'
                /\ \A q \in Process \ {p} : ~Busy(q)
  <2>1. ~dirty => Recovering(p) /\ anchor # None /\ Restorable
    BY <1>4, <1>5 DEF Undisturbed, Knows
  <2>2. ~dirty => Recovering(p)'
    BY <1>1, <2>1 DEF Recovering, Recovers, Anchored
  <2>3. ~dirty => Restorable'
    BY <1>1, <2>1 DEF Restorable, Anchored, Kept
  <2> QED
    BY <1>1, <1>4, <2>1, <2>2, <2>3, Entering
<1>8. Others(p)
  BY OthersLeft DEF Orderly
<1> QED
  BY <1>1, <1>4, <1>6, <1>7, <1>8, LeadAlone, LoudStep DEF Knows

\* What Record makes of the anchor.
LEMMA Recorded ==
  ASSUME Orderly, Undisturbed, ~dirty, NEW p \in Process, Record(p)
  PROVE  /\ mine[p] \in Anchor /\ anchor # None /\ Anchored
         /\ mine[p].digest = anchor.digest /\ mine[p].snapshot = anchor.snapshot
         /\ mine[p].status = anchor.status /\ mine[p].mode = anchor.mode
         /\ Restorable
<1>1. pc[p] = "adapter" /\ mine[p] \in Anchor
  BY DEF Orderly, TypeOK, Locking, RunsAt, Record, Recovers
<1>2. Recovering(p) /\ Restorable
  BY <1>1 DEF Undisturbed, Knows, Busy
<1> QED
  BY <1>1, <1>2 DEF Recovering, Recovers, Anchored

LEMMA RecordKeeps ==
  ASSUME Orderly, SingleController, Undisturbed, NEW p \in Process, Record(p)
  PROVE  Undisturbed'
<1>1. /\ pc[p] = "adapter" /\ anchor' = mine[p] /\ Goto(p, "verify")
      /\ UNCHANGED <<files, job, mine, dirty>>
  BY DEF Record
<1>2. pc'[p] = "verify"
  BY <1>1, GotoEffect DEF Orderly, Steps
<1>3. Busy(p) /\ Runs(p, {"recover"}) /\ Leads(p)
  BY <1>1 DEF Busy, Orderly, Locking, RunsAt, Fitting, Recovers, Leads, Runs
<1>4. ~Runs(p, {"establish"})' /\ ~Runs(p, {"switch"})'
  BY <1>1, <1>3 DEF Runs
<1>5. Establishing(p)' /\ Replacing(p)' /\ Building(p)' /\ Switching(p)' /\ Current(p)'
  BY <1>2, <1>4 DEF Establishing, Replacing, Building, Builds, Switching, Current
<1>6. ~dirty => /\ Recovering(p)' /\ anchor' # None /\ Restorable'
                /\ \A q \in Process \ {p} : ~Busy(q)
  <2>1. ~dirty => anchor' # None /\ Anchored'
    BY <1>1, Recorded, NoneAssumption DEF Anchored
  <2>2. ~dirty => Restorable'
    BY <1>1, Recorded DEF Restorable, Anchored, Kept
  <2>3. ~dirty => Recovering(p)'
    BY <1>1, <2>1 DEF Recovering
  <2> QED
    BY <1>3, <2>1, <2>2, <2>3, Entering
<1>7. Others(p)
  BY OthersLeft DEF Orderly
<1> QED
  BY <1>1, <1>3, <1>5, <1>6, <1>7, LeadAlone, LoudStep DEF Knows

\* An edit made while no operation is decided on: nobody knows anything yet.
LEMMA TamperKeeps ==
  ASSUME Orderly, Undisturbed, Tamper
  PROVE  Undisturbed'
<1> SUFFICES ASSUME ~dirty'
             PROVE  (Exclusive /\ Restorable /\ \A q \in Process : Knows(q) /\ Current(q))'
  BY DEF Undisturbed
<1>1. ~dirty /\ \A p \in Process : pc'[p] = "idle"
  BY TamperEffect DEF Orderly, Tamper
<1>2. Restorable'
  BY <1>1 DEF Undisturbed, Restorable, Anchored, Kept, Tamper
<1> QED
  BY <1>1, <1>2 DEF Exclusive, Knows, Current, Busy, Underway

LEMMA UndisturbedStep ==
  ASSUME Orderly, SingleController, Undisturbed, [Next]_vars
  PROVE  Undisturbed'
<1>1. CASE UNCHANGED vars
  <2>1. Exclusive' = Exclusive /\ Restorable' = Restorable
    BY <1>1 DEF vars, Exclusive, Busy, Restorable, Anchored, Kept, Active
  <2>2. ASSUME NEW p \in Process
        PROVE  Knows(p)' = Knows(p) /\ Current(p)' = Current(p)
    <3>1. Current(p)' = Current(p)
      BY <1>1 DEF vars, Current, Runs, Anchored, Kept
    <3>2. Establishing(p)' = Establishing(p) /\ Recovering(p)' = Recovering(p)
          /\ Switching(p)' = Switching(p)
      BY <1>1 DEF vars, Establishing, Recovering, Switching, Runs, Anchored, Active
    <3>3. Replacing(p)' = Replacing(p)
      BY <1>1 DEF vars, Replacing, Runs, Checks, Anchored, Follows, Kept, Active
    <3>4. Building(p)' = Building(p)
      BY <1>1 DEF vars, Building, Runs, Anchored
    <3> QED
      BY <1>1, <3>1, <3>2, <3>3, <3>4 DEF vars, Knows, Busy, Underway, Runs
  <2> QED
    BY <1>1, <2>1, <2>2 DEF vars, Undisturbed
<1>2. CASE Tamper
  BY <1>2, TamperKeeps
<1>3. ASSUME NEW p \in Process,
             \/ Ask(p) \/ Establish(p) \/ Begin(p) \/ Mutate(p) \/ Abandon(p)
             \/ Reread(p) \/ Write(p) \/ Switch(p) \/ Rewrite(p)
      PROVE  Undisturbed'
  BY <1>3, AskKeeps, EstablishKeeps, BeginKeeps, MutateKeeps, AbandonKeeps,
     RereadKeeps, WriteKeeps, SwitchKeeps, RewriteKeeps
<1>4. ASSUME NEW p \in Process,
             \/ RereadInactive(p) \/ Digest(p) \/ ReadBytes(p) \/ Status(p)
             \/ Recover(p) \/ Archive(p) \/ Restore(p) \/ Record(p) \/ Verify(p)
             \/ Stop(p)
      PROVE  Undisturbed'
  BY <1>4, EndKeeps, BuildKeeps, RecoverKeeps, ArchiveKeeps, RestoreKeeps, RecordKeeps
<1> QED
  BY <1>1, <1>2, <1>3, <1>4 DEF Next

LEMMA UndisturbedHolds ==
  ASSUME SingleController
  PROVE  Spec => [](Orderly /\ Undisturbed)
<1>1. Init => Undisturbed
  <2> SUFFICES ASSUME Init
               PROVE  Exclusive /\ Restorable /\ \A q \in Process : Knows(q) /\ Current(q)
    BY DEF Undisturbed
  <2>1. anchor = None /\ \A p \in Process : pc[p] = "idle"
    BY DEF Init
  <2> QED
    BY <2>1 DEF Exclusive, Restorable, Knows, Current, Busy, Underway
<1>2. Orderly /\ Undisturbed /\ [Next]_vars => Undisturbed'
  BY UndisturbedStep
<1> QED
  BY <1>1, <1>2, OrderlyHolds, PTL DEF Spec

-----------------------------------------------------------------------------

\* With one Controller, an ACTIVE anchor can always be recovered to: checkpoint
\* reads digest, bytes and status of the ledger one after the other, and in a
\* repository nobody edits they are those of one ledger.
THEOREM RecoveryIsPossible ==
  ASSUME SingleController
  PROVE  Spec => []AnchorIsRestorable
<1>1. Undisturbed => AnchorIsRestorable
  BY DEF Undisturbed, Restorable, AnchorIsRestorable, Anchored, Kept
<1> QED
  BY <1>1, UndisturbedHolds, PTL

\* The anchor changes by these steps only.
LEMMA AnchorMoves ==
  ASSUME [Next]_vars, anchor' # anchor
  PROVE  \E p \in Process : (Write(p) \/ Record(p)) /\ anchor' = mine[p]
<1>1. ASSUME Tamper
      PROVE  FALSE
  BY <1>1 DEF Tamper
<1>2. ASSUME NEW p \in Process,
             \/ Ask(p) \/ Establish(p) \/ Begin(p) \/ Mutate(p) \/ Abandon(p)
             \/ Reread(p) \/ RereadInactive(p) \/ Digest(p) \/ ReadBytes(p)
             \/ Status(p) \/ Switch(p) \/ Rewrite(p) \/ Recover(p) \/ Archive(p)
             \/ Restore(p) \/ Verify(p) \/ Stop(p)
      PROVE  FALSE
  BY <1>2 DEF Ask, Establish, Begin, Mutate, Abandon, Reread, RereadInactive, Digest,
              ReadBytes, Status, Switch, Rewrite, Recover, Archive, Restore, Verify, Stop
<1> QED
  BY <1>1, <1>2 DEF Next, vars, Write, Record

\* With one Controller, what replaces the anchor of an undisturbed repository.
LEMMA Replaced ==
  ASSUME Orderly, Undisturbed, ~dirty, [Next]_vars, anchor # None, anchor' # anchor
  PROVE  /\ Anchored
         /\ \/ anchor'.snapshot[Ledger] \in {Kept, Absent}
            \/ /\ anchor'.snapshot[Ledger] \in State
               /\ anchor'.snapshot[Ledger].on = Kept.write
         /\ anchor'.mode # anchor.mode =>
              \E p \in Process : /\ Runs(p, {"switch"}) /\ job[p].expected = anchor
                                 /\ job[p].mode = anchor'.mode
<1>1. PICK p \in Process : (Write(p) \/ Record(p)) /\ anchor' = mine[p]
  BY AnchorMoves
<1>2. CASE Write(p)
  BY <1>1, <1>2, Written DEF Follows
<1>3. CASE Record(p)
  BY <1>1, <1>3, Recorded DEF Kept
<1> QED
  BY <1>1, <1>2, <1>3

\* With one Controller, a DONE or ABANDONED anchor is never written again: who
\* replaces an anchor has read it ACTIVE, and nobody retires it in between.
THEOREM RetirementIsFinal ==
  ASSUME SingleController
  PROVE  Spec => RetiredStaysRetired
<1>1. Orderly /\ Undisturbed /\ [Next]_vars
        => (anchor # None /\ ~Anchored /\ ~dirty => anchor' = anchor)
  BY Replaced
<1>2. Orderly /\ Undisturbed /\ [Next]_vars
        => [anchor # None /\ ~Anchored /\ ~dirty => anchor' = anchor]_vars
  BY <1>1
<1> QED
  BY <1>2, UndisturbedHolds, PTL DEF Spec, RetiredStaysRetired

\* With one Controller, the ledger that becomes the anchored one was written on
\* top of the one anchored before it: no command's ledger is skipped, and none
\* is anchored that Core did not write.
THEOREM NothingSlipsIn ==
  ASSUME SingleController
  PROVE  Spec => AnchorFollowsLedger
<1> DEFINE Follow ==
      anchor # None /\ ~dirty =>
        LET old == anchor.snapshot[Ledger]
            new == anchor'.snapshot[Ledger]
        IN  new \in {old, Absent} \/ (new \in State /\ new.on = old.write)
<1>1. Orderly /\ Undisturbed /\ [Next]_vars => Follow
  BY Replaced DEF Kept
<1>2. Orderly /\ Undisturbed /\ [Next]_vars => [Follow]_vars
  BY <1>1
<1> QED
  BY <1>2, UndisturbedHolds, PTL DEF Spec, AnchorFollowsLedger

\* With one Controller, the mode of an anchored contract changes only by a
\* switch that was decided on that very anchor.
THEOREM StaleDecisionsFail ==
  ASSUME SingleController
  PROVE  Spec => SwitchIsCurrent
<1> DEFINE Decided ==
      anchor # None /\ ~dirty /\ anchor'.mode # anchor.mode =>
        \E p \in Process :
          /\ Runs(p, {"switch"})
          /\ job[p].expected = anchor
          /\ job[p].mode = anchor'.mode
<1>1. Orderly /\ Undisturbed /\ [Next]_vars => Decided
  BY Replaced
<1>2. Orderly /\ Undisturbed /\ [Next]_vars => [Decided]_vars
  BY <1>1
<1> QED
  BY <1>2, UndisturbedHolds, PTL DEF Spec, SwitchIsCurrent
=============================================================================
