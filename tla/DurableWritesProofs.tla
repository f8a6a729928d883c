------------------------ MODULE DurableWritesProofs ------------------------
(***************************************************************************)
(* Theorems about DurableWrites, for any paths, contents, link structure,  *)
(* processes, starts and requests.                                         *)
(*                                                                         *)
(* IInv is inductive.  What makes a backup useful is that it names exactly *)
(* the paths and the bytes the holder is about to write (Saved), that each *)
(* path of the mutation holds its old bytes, or the new ones once they are *)
(* noted (Progress), and that no backup but an identity's names a file of  *)
(* the identity (Apart).  What the holder decided under the lock stays     *)
(* true of every path it has not written yet (Meant, Restoring).           *)
(*                                                                         *)
(* The check of INDEX files writes nothing, so all this holds next to it;  *)
(* CheckInv is inductive next to IInv.  What a check has not met yet it    *)
(* still has to read, or somebody changed it (Covering), and while nothing *)
(* changes it is at the files that are reached only (Exact).               *)
(***************************************************************************)
EXTENDS IndexCheck, SequenceTheorems, FiniteSetTheorems, TLAPS

\* What waits or runs to maintain or promote documents is a maintenance, and a
\* rollback names a backup there is.
Requests ==
  \A p \in Process :
    request[p] # None =>
      /\ request[p].action \in {"maintain", "promote"} =>
           IsMaintenance(request[p].plan)
      /\ request[p].action = "rollback" => request[p].backup \in 1 .. Len(backups)

\* The identity's files are in its own backups and mutations only.
Apart ==
  /\ \A i \in 1 .. Len(backups) :
       backups[i].action # "identity" =>
         DOMAIN backups[i].changes \cap History = {}
  /\ step \in {"save", "apply", "undo"} /\ request[holder].action # "identity" =>
       DOMAIN plan \cap History = {}

\* The newest backup is the one of the mutation that writes or undoes.
Saved ==
  step \in {"apply", "undo"} =>
    /\ backups # <<>>
    /\ DOMAIN Noted = DOMAIN plan
    /\ \A path \in DOMAIN plan : Noted[path].written = plan[path]

\* A path of the mutation holds its new bytes when it is noted and its old ones
\* when it is not, unless somebody edited it or an interrupt hit it.
Progress ==
  /\ step \in {"apply", "undo"} =>
       /\ meddled.saved \subseteq meddled.checked
       /\ \A path \in DOMAIN plan :
            \/ disk[path] = IF path \in Range(applied) THEN plan[path]
                                                      ELSE Noted[path].old
            \/ path \in meddled.saved \cup meddled.unnoted
  /\ step \in {"check", "save", "apply"} => meddled.unnoted = {}
  /\ step \in {"free", "check", "save"} => applied = <<>>

\* Each path is noted once, and after all those of a lower rank.
Ordered ==
  /\ \A i, j \in DOMAIN applied : applied[i] = applied[j] => i = j
  /\ step \in {"apply", "undo"} =>
       \A j \in DOMAIN applied, path \in DOMAIN plan :
         Rank(path) < Rank(applied[j]) =>
           \E i \in DOMAIN applied : i < j /\ applied[i] = path

\* The links of the INDEX file a mutation is to write have their targets, in
\* the mutation or outside it.
Linked ==
  step \in {"save", "apply", "undo"} /\ request[holder].action \in {"promote", "maintain"} =>
    /\ IsMaintenance(plan)
    /\ \A path \in DOMAIN plan \cap Index :
         \A target \in Links[plan[path]] :
           IF target \in DOMAIN plan THEN plan[target] # Absent
           ELSE disk[target] # Absent \/ target \in meddled.checked

\* What is still to be written replaces bytes the caller meant.
Meant ==
  step \in {"save", "apply"} =>
    \A path \in Unapplied :
      disk[path] \in MayReplace(request[holder], path) \/ path \in meddled.checked

\* A rollback that writes has every path of its backup restored, or yet to be
\* restored.
Restoring ==
  step \in {"save", "apply"} /\ request[holder].action = "rollback" =>
    LET changes == backups[request[holder].backup].changes
    IN  /\ DOMAIN plan \subseteq DOMAIN changes
        /\ \A path \in DOMAIN plan : plan[path] = changes[path].old
        /\ \A path \in DOMAIN changes :
             \/ path \in Unapplied
             \/ disk[path] = changes[path].old
             \/ path \in meddled.checked

IInv ==
  /\ TypeOK /\ Requests /\ Apart /\ Saved /\ Progress /\ Ordered
  /\ Linked /\ Meant /\ Restoring /\ NewestBackupApplies

\* What a check of INDEX files is: each file it has read, once, and those it is
\* still to read.
Checking ==
  check # None =>
    /\ check = [roots |-> check.roots, pending |-> check.pending,
                checked |-> check.checked, errors |-> check.errors,
                changed |-> check.changed]
    /\ check.roots \in SUBSET Index
    /\ check.pending \in Seq(Index) /\ check.checked \in Seq(Index)
    /\ IsInjective(check.checked)

Known == Range(check.checked) \cup Range(check.pending)

\* A check misses no root and no link of a file it has read, unless the root or
\* one of the two files changed.
Covering ==
  check # None =>
    /\ \A r \in check.roots \ check.changed : disk[r] # Absent => r \in Known
    /\ \A p \in Range(check.checked) \ check.changed, t \in Index \ check.changed :
         Leads(p, t) => t \in Known

Missing(r) == r \in check.roots /\ disk[r] = Absent

\* While nothing changes a check reads what is reached and nothing else, and
\* reports what is wrong with it and the roots that are not there.
Exact ==
  check # None /\ check.changed = {} =>
    /\ \A p \in Range(check.checked) : p \in Reached(check.roots, Path)
    /\ \A p \in Range(check.pending) : p \in Reached(check.roots, Path) \/ Missing(p)
    /\ \A e \in check.errors :
         \/ \E p \in Range(check.checked) : e \in Wrong(p)
         \/ \E r \in Index : Missing(r) /\ e = <<r, r>>
    /\ \A p \in Range(check.checked) : Wrong(p) \subseteq check.errors
    /\ \A r \in Index :
         Missing(r) => <<r, r>> \in check.errors \/ r \in Range(check.pending)

-----------------------------------------------------------------------------
(* Sequences, plans and backups *)

LEMMA LastAndFront ==
  ASSUME NEW S, NEW s \in Seq(S), s # <<>>
  PROVE  Last(s) \in S /\ Front(s) \in Seq(S)
<1>1. Len(s) \in Nat \ {0} /\ s \in [1 .. Len(s) -> S]
  BY EmptySeq, LenProperties
<1>2. Last(s) \in S
  BY <1>1 DEF Last
<1>3. Front(s) \in Seq(S)
  BY <1>1, SubSeqProperties DEF Front
<1> QED
  BY <1>2, <1>3

LEMMA FrontOf ==
  ASSUME NEW S, NEW s \in Seq(S), s # <<>>
  PROVE  /\ Range(s) = Range(Front(s)) \cup {Last(s)}
         /\ Len(s) \in Nat \ {0} /\ s[Len(s)] = Last(s)
         /\ DOMAIN s = 1 .. Len(s) /\ DOMAIN Front(s) = 1 .. Len(s) - 1
         /\ \A i \in DOMAIN Front(s) : Front(s)[i] = s[i]
<1> DEFINE t == Front(s)
<1>1. Len(s) \in Nat \ {0} /\ DOMAIN s = 1 .. Len(s)
  BY EmptySeq, LenProperties
<1>2. /\ DOMAIN t = 1 .. Len(s) - 1
      /\ \A i \in 1 .. Len(s) - 1 : t[i] = s[i]
  BY <1>1, SubSeqProperties DEF Front
<1>3. Last(s) = s[Len(s)] /\ 1 .. Len(s) = (1 .. Len(s) - 1) \cup {Len(s)}
  BY <1>1 DEF Last
<1> QED
  BY <1>1, <1>2, <1>3 DEF Range

LEMMA Appended ==
  ASSUME NEW S, NEW s \in Seq(S), NEW e \in S
  PROVE  /\ Append(s, e) \in Seq(S)
         /\ Append(s, e) # <<>>
         /\ Last(Append(s, e)) = e
         /\ Range(Append(s, e)) = Range(s) \cup {e}
         /\ Len(Append(s, e)) = Len(s) + 1
         /\ \A i \in 1 .. Len(s) : Append(s, e)[i] = s[i]
<1> DEFINE t == Append(s, e)
<1>1. /\ t \in Seq(S) /\ t # <<>> /\ Len(t) = Len(s) + 1
      /\ \A i \in 1 .. Len(s) : t[i] = s[i]
      /\ t[Len(s) + 1] = e
  BY AppendProperties
<1>2. DOMAIN s = 1 .. Len(s) /\ DOMAIN t = 1 .. Len(t) /\ Len(s) \in Nat
  BY <1>1, LenProperties
<1>3. Last(t) = e
  BY <1>1 DEF Last
<1>4. Range(t) = Range(s) \cup {e}
  BY <1>1, <1>2 DEF Range
<1> QED
  BY <1>1, <1>3, <1>4

LEMMA PlanType ==
  ASSUME NEW f \in Plan
  PROVE  DOMAIN f \subseteq Path /\ f \in [DOMAIN f -> Bytes]
BY DEF Plan

LEMMA IsPlan ==
  ASSUME NEW D \in SUBSET Path, NEW f \in [D -> Bytes]
  PROVE  f \in Plan
BY DEF Plan

LEMMA EmptyPlan ==
  <<>> \in Plan /\ DOMAIN <<>> = {} /\ Range(<<>>) = {} /\ \A S : <<>> \in Seq(S)
<1>1. <<>> \in Seq(Bytes) /\ Len(<<>>) = 0
  BY EmptySeq
<1>2. <<>> \in [1 .. 0 -> Bytes] /\ 1 .. 0 = {}
  BY <1>1, LenProperties
<1>3. DOMAIN <<>> = {}
  BY <1>1, <1>2, LenProperties
<1> QED
  BY <1>2, <1>3, IsPlan, EmptySeq DEF Range

LEMMA BackupType ==
  ASSUME NEW b \in Backup
  PROVE  /\ DOMAIN b.changes \subseteq Path
         /\ b.changes \in [DOMAIN b.changes -> Change]
BY DEF Backup

LEMMA IsBackup ==
  ASSUME NEW D \in SUBSET Path, NEW f \in [D -> Change],
         NEW a \in {"maintain", "promote", "identity", "init", "uninstall", "rollback"}
  PROVE  [action |-> a, changes |-> f] \in Backup
BY DEF Backup

LEMMA RequestType ==
  ASSUME NEW r \in Request
  PROVE  /\ r.action \in {"maintain", "promote", "identity", "init", "uninstall", "rollback"}
         /\ r.action \in {"maintain", "promote", "identity"} => r.plan \in Plan
         /\ r.action = "rollback" => r.backup \in Nat \ {0}
BY DEF Request

LEMMA SeenIsPlan ==
  ASSUME TypeOK, NEW D \in SUBSET Path
  PROVE  Seen(D) \in Plan
<1>1. Seen(D) \in [D -> Bytes]
  BY DEF TypeOK, Seen
<1> QED
  BY <1>1, IsPlan

\* The holder runs a request.
LEMMA HolderAsks ==
  ASSUME TypeOK, holder # None
  PROVE  /\ holder \in Process
         /\ request[holder] # None
         /\ request[holder] \in Request
BY DEF TypeOK

LEMMA Holding ==
  ASSUME TypeOK, step # "free"
  PROVE  holder # None
BY DEF TypeOK

\* A rollback restores a backup of paths.
LEMMA RollbackPaths ==
  ASSUME TypeOK, Requests, step # "free", request[holder].action = "rollback"
  PROVE  DOMAIN backups[request[holder].backup].changes \subseteq Path
<1>1. request[holder].backup \in 1 .. Len(backups)
  BY Holding, HolderAsks DEF Requests
<1>2. backups[request[holder].backup] \in Backup
  BY <1>1 DEF TypeOK
<1> QED
  BY <1>2, BackupType

\* What a mutation writes links files, not files of the identity.
LEMMA LinkedPaths ==
  ASSUME TypeOK, NEW path \in DOMAIN plan, plan[path] # Absent
  PROVE  Links[plan[path]] \subseteq Path
<1>1. plan[path] \in Content
  BY PlanType DEF TypeOK, Bytes
<1> QED
  BY <1>1, ContentAssumption DEF Path

LEMMA LinksStay ==
  ASSUME TypeOK, Linked, step \in {"save", "apply", "undo"},
         UNCHANGED <<holder, request, plan>>,
         \A q \in Path \ DOMAIN plan :
           disk'[q] = disk[q] \/ q \in meddled'.checked,
         meddled.checked \subseteq meddled'.checked
  PROVE  Linked'
<1> SUFFICES ASSUME request[holder].action \in {"promote", "maintain"}
             PROVE  Linked'
  BY DEF Linked
<1>1. IsMaintenance(plan)
  BY DEF Linked
<1>2. ASSUME NEW path \in DOMAIN plan \cap Index, NEW target \in Links[plan[path]]
      PROVE  IF target \in DOMAIN plan THEN plan[target] # Absent
             ELSE disk'[target] # Absent \/ target \in meddled'.checked
  <2>1. target \in Path
    BY <1>1, LinkedPaths DEF IsMaintenance
  <2>2. IF target \in DOMAIN plan THEN plan[target] # Absent
        ELSE disk[target] # Absent \/ target \in meddled.checked
    BY DEF Linked
  <2> QED
    BY <2>1, <2>2
<1> QED
  BY <1>1, <1>2 DEF Linked, IsMaintenance

LEMMA PlannedIsPlan ==
  ASSUME TypeOK, Requests, holder # None
  PROVE  Planned(request[holder]) \in Plan
<1> DEFINE r == request[holder]
<1>1. holder \in Process /\ r # None /\ r \in Request
  BY HolderAsks
<1>2. CASE r.action = "rollback"
  <2> DEFINE b == backups[r.backup]
             applicable == {path \in DOMAIN b.changes :
                              /\ disk[path] # b.changes[path].old
                              /\ disk[path] = b.changes[path].written}
  <2>1. r.backup \in 1 .. Len(backups)
    BY <1>1, <1>2 DEF Requests
  <2>2. b \in Backup
    BY <2>1 DEF TypeOK
  <2>3. DOMAIN b.changes \subseteq Path /\ b.changes \in [DOMAIN b.changes -> Change]
    BY <2>2, BackupType
  <2>4. [path \in applicable |-> b.changes[path].old] \in [applicable -> Bytes]
    BY <2>3 DEF Change
  <2>5. Restoration(b) \in Plan
    BY <2>3, <2>4, IsPlan DEF Restoration
  <2> QED
    BY <1>2, <2>5 DEF Planned
<1>3. CASE r.action = "init"
  <2> DEFINE D == {q \in Root : disk[q] = Absent}
  <2>1. D \in SUBSET Path /\ [path \in D |-> Template] \in [D -> Bytes]
    BY PathsAssumption, ContentAssumption DEF Path, Bytes
  <2> QED
    BY <1>3, <2>1, IsPlan DEF Planned
<1>4. CASE r.action = "uninstall"
  <2> DEFINE D == {q \in Root : disk[q] = Template}
  <2>1. D \in SUBSET Path /\ [path \in D |-> Absent] \in [D -> Bytes]
    BY PathsAssumption DEF Path, Bytes
  <2> QED
    BY <1>4, <2>1, IsPlan DEF Planned
<1>5. CASE r.action \in {"maintain", "promote", "identity"}
  BY <1>1, <1>5, RequestType DEF Planned
<1> QED
  BY <1>1, <1>2, <1>3, <1>4, <1>5, RequestType

\* What each kind of request is to leave, and what that replaces.
LEMMA PlannedPaths ==
  ASSUME TypeOK, Requests, Apart, holder # None,
         Admits(request[holder]), request[holder].action # "identity"
  PROVE  DOMAIN Planned(request[holder]) \cap History = {}
<1> DEFINE r == request[holder]
<1>1. holder \in Process /\ r # None /\ r \in Request
  BY HolderAsks
<1>2. CASE r.action = "rollback"
  <2>1. r.backup \in 1 .. Len(backups)
    BY <1>1, <1>2 DEF Requests
  <2>2. RollbackAdmits(r)
    BY <1>2 DEF Admits
  <2>3. DOMAIN backups[r.backup].changes \cap History = {}
    BY <2>1, <2>2 DEF Apart, RollbackAdmits
  <2>4. DOMAIN Restoration(backups[r.backup]) \subseteq DOMAIN backups[r.backup].changes
    BY DEF Restoration
  <2>5. Planned(r) = Restoration(backups[r.backup])
    BY <1>2 DEF Planned
  <2> QED
    BY <2>3, <2>4, <2>5
<1>3. CASE r.action = "init"
  BY <1>3, PathsAssumption DEF Planned
<1>4. CASE r.action = "uninstall"
  BY <1>4, PathsAssumption DEF Planned
<1>5. CASE r.action \in {"maintain", "promote"}
  <2>1. Planned(r) = r.plan
    BY <1>5 DEF Planned
  <2>2. DOMAIN r.plan \subseteq Doc \cup Index
    BY <1>1, <1>5 DEF Requests, IsMaintenance
  <2> QED
    BY <2>1, <2>2, PathsAssumption
<1> QED
  BY <1>1, <1>2, <1>3, <1>4, <1>5, RequestType

LEMMA PlannedReplaces ==
  ASSUME TypeOK, Requests, holder # None, Admits(request[holder]),
         NEW path \in DOMAIN Planned(request[holder])
  PROVE  disk[path] \in MayReplace(request[holder], path)
<1> DEFINE r == request[holder]
<1>1. holder \in Process /\ r # None /\ r \in Request
  BY HolderAsks
<1>2. CASE r.action = "rollback"
  <2>1. Planned(r) = Restoration(backups[r.backup])
    BY <1>2 DEF Planned
  <2>2. disk[path] = backups[r.backup].changes[path].written
    BY <2>1 DEF Restoration
  <2> QED
    BY <1>2, <2>2 DEF MayReplace
<1>3. CASE r.action = "init"
  BY <1>3 DEF Planned, MayReplace
<1>4. CASE r.action = "uninstall"
  BY <1>4 DEF Planned, MayReplace
<1>5. CASE r.action = "maintain"
  <2>1. Planned(r) = r.plan /\ MaintainAdmits(r)
    BY <1>5 DEF Planned, Admits
  <2>2. disk[path] = r.base[path]
    BY <2>1 DEF MaintainAdmits
  <2> QED
    BY <1>5, <2>2 DEF MayReplace
<1>6. CASE r.action = "promote"
  <2>1. Planned(r) = r.plan /\ PromoteAdmits(r)
    BY <1>6 DEF Planned, Admits
  <2>2. path \in Doc \cup Index
    BY <1>1, <1>6, <2>1 DEF Requests, IsMaintenance
  <2>3. IF path \in Index THEN disk[path] = r.base[path] ELSE disk[path] = Absent
    BY <2>1, <2>2 DEF PromoteAdmits
  <2> QED
    BY <1>6, <2>3 DEF MayReplace
<1>7. CASE r.action = "identity"
  <2>1. Planned(r) = r.plan /\ r.plan \in Plan
    BY <1>1, <1>7, RequestType DEF Planned
  <2>2. path \in Path
    BY <2>1, PlanType
  <2>3. disk[path] \in Bytes
    BY <2>2 DEF TypeOK
  <2> QED
    BY <1>7, <2>3 DEF MayReplace
<1> QED
  BY <1>1, <1>2, <1>3, <1>4, <1>5, <1>6, <1>7, RequestType

-----------------------------------------------------------------------------
(* One lemma for each kind of step: IInv is kept *)

\* Leaving `with _lock(root)'.
LEMMA LeaveKeeps ==
  ASSUME IInv, holder # None, Leave, UNCHANGED <<disk, backups, edits, meddled>>
  PROVE  IInv'
<1>1. TypeOK'
  <2>1. request' \in [Process -> Request \cup {None}]
    BY DEF IInv, TypeOK, Leave
  <2>2. plan' \in Plan /\ applied' \in Seq(DOMAIN plan')
    BY EmptyPlan DEF Leave
  <2> QED
    BY <2>1, <2>2 DEF IInv, TypeOK, Leave
<1>2. Requests'
  BY DEF IInv, TypeOK, Requests, Leave
<1>3. Apart'
  BY DEF IInv, Apart, Leave
<1>4. Saved' /\ Progress' /\ Ordered' /\ Linked' /\ Meant' /\ Restoring'
  BY EmptyPlan DEF Saved, Progress, Ordered, Linked, Meant, Restoring, Leave
<1>5. NewestBackupApplies'
  BY DEF IInv, NewestBackupApplies, Guarded
<1> QED
  BY <1>1, <1>2, <1>3, <1>4, <1>5 DEF IInv

\* A caller joins those who wait for the lock.
LEMMA WaitKeeps ==
  ASSUME IInv, NEW p \in Process, NEW r \in Request, request[p] = None,
         request' = [request EXCEPT ![p] = r],
         r.action \in {"maintain", "promote"} => IsMaintenance(r.plan),
         r.action = "rollback" => r.backup \in 1 .. Len(backups),
         UNCHANGED <<disk, backups, holder, step, plan, applied, edits, meddled>>
  PROVE  IInv'
<1>1. TypeOK'
  BY DEF IInv, TypeOK
<1>2. Requests'
  BY DEF IInv, TypeOK, Requests
<1>3. step # "free" => holder \in Process /\ request'[holder] = request[holder]
  BY Holding, HolderAsks DEF IInv, TypeOK
<1>4. Apart'
  BY <1>3 DEF IInv, Apart
<1>5. Saved' /\ Progress'
  BY DEF IInv, Saved, Progress, Noted
<1>6. Meant' /\ Linked'
  BY <1>3 DEF IInv, Meant, Linked, MayReplace, Unapplied
<1>7. Restoring'
  BY <1>3 DEF IInv, Restoring, Unapplied
<1>8. NewestBackupApplies'
  BY DEF IInv, NewestBackupApplies, Guarded
<1>9. Ordered'
  BY <1>3 DEF IInv, Ordered, Rank
<1> QED
  BY <1>1, <1>2, <1>4, <1>5, <1>6, <1>7, <1>8, <1>9 DEF IInv

LEMMA TakeKeeps ==
  ASSUME IInv, NEW p \in Process, Take(p)
  PROVE  IInv'
<1>1. /\ meddled' = [checked |-> {}, saved |-> meddled.saved, unnoted |-> {}]
      /\ holder = None /\ holder' = p /\ request[p] # None
      /\ step = "free" /\ step' = "check"
      /\ UNCHANGED <<disk, backups, request, plan, applied, edits>>
  BY DEF IInv, TypeOK, Take, Quiet
<1>2. TypeOK'
  BY <1>1, NoneAssumption DEF IInv, TypeOK
<1>3. Requests' /\ Apart'
  BY <1>1 DEF IInv, Requests, Apart
<1>4. Saved' /\ Linked' /\ Meant' /\ Restoring'
  BY <1>1 DEF Saved, Linked, Meant, Restoring
<1>5. Progress' /\ Ordered'
  BY <1>1 DEF IInv, Progress, Ordered
<1>6. NewestBackupApplies'
  BY <1>1 DEF IInv, NewestBackupApplies, Guarded
<1> QED
  BY <1>2, <1>3, <1>4, <1>5, <1>6 DEF IInv

LEMMA CheckKeeps ==
  ASSUME IInv, Check
  PROVE  IInv'
<1> DEFINE r == request[holder]
<1>1. /\ TypeOK /\ Requests /\ Apart /\ holder # None
      /\ step = "check" /\ step' = "save" /\ plan' = Planned(r) /\ Admits(r)
      /\ UNCHANGED <<disk, backups, request, holder, applied, edits, meddled>>
  BY Holding DEF IInv, Check
<1>2. applied = <<>> /\ Range(applied) = {}
  BY <1>1, EmptyPlan DEF IInv, Progress
<1>3. TypeOK'
  BY <1>1, <1>2, PlannedIsPlan, EmptyPlan DEF TypeOK
<1>4. Requests'
  BY <1>1 DEF Requests
<1>5. Apart'
  BY <1>1, PlannedPaths DEF Apart
<1>6. Saved' /\ NewestBackupApplies' /\ Progress' /\ Ordered'
  BY <1>1 DEF IInv, Saved, NewestBackupApplies, Progress, Ordered, Guarded
<1>7. Meant'
  <2>1. ASSUME NEW path \in DOMAIN plan'
        PROVE  disk'[path] \in MayReplace(r, path)'
    <3>1. disk[path] \in MayReplace(r, path)
      BY <1>1, PlannedReplaces
    <3> QED
      BY <1>1, <3>1 DEF MayReplace
  <2> QED
    BY <2>1 DEF Meant, Unapplied
<1>8. Restoring'
  <2> SUFFICES ASSUME r.action = "rollback"
               PROVE  Restoring'
    BY <1>1 DEF Restoring
  <2> DEFINE changes == backups[r.backup].changes
  <2>1. plan' = Restoration(backups[r.backup]) /\ RollbackAdmits(r)
    BY <1>1 DEF Planned, Admits
  <2>2. /\ DOMAIN plan' \subseteq DOMAIN changes
        /\ \A path \in DOMAIN plan' : plan'[path] = changes[path].old
    BY <2>1 DEF Restoration
  <2>3. ASSUME NEW path \in DOMAIN changes, path \notin DOMAIN plan'
        PROVE  disk[path] = changes[path].old
    BY <2>1, <2>3 DEF Restoration, RollbackAdmits, Guarded
  <2> QED
    BY <1>1, <1>2, <2>2, <2>3 DEF Restoring, Unapplied
<1>9. Linked'
  <2> SUFFICES ASSUME r.action \in {"promote", "maintain"}
               PROVE  Linked'
    BY <1>1 DEF Linked
  <2>1. plan' = r.plan /\ IsMaintenance(r.plan)
    BY <1>1, HolderAsks DEF Requests, Planned
  <2>2. LinksChecked(r.plan, DOMAIN r.plan \cap Index)
    BY <1>1 DEF Admits, MaintainAdmits, PromoteAdmits, LinksChecked
  <2> QED
    BY <1>1, <2>1, <2>2 DEF Linked, LinksChecked, IsMaintenance
<1> QED
  BY <1>3, <1>4, <1>5, <1>6, <1>7, <1>8, <1>9 DEF IInv

LEMMA SaveKeeps ==
  ASSUME IInv, Save
  PROVE  IInv'
<1> DEFINE changes == [path \in DOMAIN plan |->
                         [old |-> disk[path], written |-> plan[path]]]
           backup == [action |-> request[holder].action, changes |-> changes]
<1>1. /\ TypeOK /\ holder # None
      /\ holder \in Process /\ request[holder] # None /\ request[holder] \in Request
      /\ step = "save" /\ step' = "apply" /\ backups' = Append(backups, backup)
      /\ meddled' = [meddled EXCEPT !.saved = {}]
      /\ UNCHANGED <<disk, request, holder, plan, applied, edits>>
  BY Holding, HolderAsks DEF IInv, Save
<1>2. DOMAIN plan \subseteq Path /\ plan \in [DOMAIN plan -> Bytes]
  BY <1>1, PlanType DEF TypeOK
<1>3. backup \in Backup
  <2>1. changes \in [DOMAIN plan -> Change]
    BY <1>1, <1>2 DEF TypeOK, Change
  <2> QED
    BY <1>1, <1>2, <2>1, IsBackup, RequestType
<1>4. /\ backups' \in Seq(Backup) /\ backups' # <<>> /\ Last(backups') = backup
      /\ Len(backups') = Len(backups) + 1 /\ Len(backups) \in Nat
      /\ backups'[Len(backups) + 1] = backup
      /\ \A i \in 1 .. Len(backups) : backups'[i] = backups[i]
  BY <1>1, <1>3, Appended, AppendProperties, LenProperties DEF TypeOK
<1>5. applied = <<>> /\ DOMAIN applied = {} /\ Range(applied) = {}
  BY <1>1, EmptyPlan DEF IInv, Progress
<1>6. TypeOK'
  BY <1>1, <1>4 DEF TypeOK
<1>7. Requests'
  BY <1>1, <1>4 DEF IInv, Requests
<1>8. Apart'
  <2>1. backup.action # "identity" => DOMAIN changes \cap History = {}
    BY <1>1 DEF IInv, Apart
  <2>2. ASSUME NEW i \in 1 .. Len(backups')
        PROVE  i \in 1 .. Len(backups) \/ backups'[i] = backup
    BY <1>4
  <2> QED
    BY <1>1, <1>4, <2>1, <2>2 DEF IInv, Apart
<1>9. Noted' = changes
  BY <1>4 DEF Noted
<1>10. Saved'
  BY <1>1, <1>4, <1>9 DEF Saved
<1>11. Progress' /\ Ordered' /\ Linked'
  <2>1. /\ meddled'.saved = {} /\ meddled'.checked = meddled.checked
        /\ meddled'.unnoted = meddled.unnoted
    BY <1>1 DEF TypeOK
  <2>2. Progress'
    BY <1>1, <1>5, <1>9, <2>1 DEF IInv, Progress
  <2>3. Ordered' /\ Linked'
    BY <1>1, <1>5, <2>1 DEF IInv, Ordered, Linked
  <2> QED
    BY <2>2, <2>3
<1>12. Meant'
  <2>1. ASSUME NEW path
        PROVE  MayReplace(request[holder], path)' = MayReplace(request[holder], path)
    <3>1. request[holder].action = "rollback" =>
            backups'[request[holder].backup] = backups[request[holder].backup]
      BY <1>1, <1>4 DEF IInv, Requests
    <3> QED
      BY <1>1, <3>1 DEF MayReplace
  <2>2. meddled'.checked = meddled.checked
    BY <1>1 DEF TypeOK
  <2> QED
    BY <1>1, <2>1, <2>2 DEF IInv, Meant, Unapplied
<1>13. Restoring'
  <2>1. request[holder].action = "rollback" =>
          backups'[request[holder].backup] = backups[request[holder].backup]
    BY <1>1, <1>4 DEF IInv, Requests
  <2>2. meddled'.checked = meddled.checked
    BY <1>1 DEF TypeOK
  <2> QED
    BY <1>1, <2>1, <2>2 DEF IInv, Restoring, Unapplied
<1>14. NewestBackupApplies'
  BY <1>1, <1>4 DEF NewestBackupApplies, Guarded
<1> QED
  BY <1>6, <1>7, <1>8, <1>10, <1>11, <1>12, <1>13, <1>14 DEF IInv

\* The path of the next write, and what it changes but for its note.
LEMMA Writing ==
  ASSUME IInv, step = "apply", NEW path \in NextPaths
  PROVE  /\ path \in Unapplied /\ path \in DOMAIN plan /\ DOMAIN plan \subseteq Path
         /\ plan[path] \in Bytes /\ holder \in Process /\ backups # <<>>
         /\ DOMAIN Noted = DOMAIN plan /\ Noted[path].written = plan[path]
         /\ [disk EXCEPT ![path] = plan[path]] \in [Path -> Bytes]
<1>1. path \in Unapplied
  BY DEF NextPaths
<1>2. path \in DOMAIN plan
  BY <1>1 DEF Unapplied
<1>3. DOMAIN plan \subseteq Path /\ plan[path] \in Bytes
  BY <1>2, PlanType DEF IInv, TypeOK
<1>4. holder \in Process
  BY Holding, HolderAsks DEF IInv, TypeOK
<1>5. /\ backups # <<>> /\ DOMAIN Noted = DOMAIN plan
      /\ Noted[path].written = plan[path]
  BY <1>2 DEF IInv, Saved
<1>6. [disk EXCEPT ![path] = plan[path]] \in [Path -> Bytes]
  BY <1>3 DEF IInv, TypeOK
<1> QED
  BY <1>1, <1>2, <1>3, <1>4, <1>5, <1>6

LEMMA ApplyKeeps ==
  ASSUME IInv, Apply
  PROVE  IInv'
<1>1. PICK path \in NextPaths :
        /\ disk' = [disk EXCEPT ![path] = plan[path]]
        /\ applied' = Append(applied, path)
  BY DEF Apply
<1>2. /\ TypeOK /\ step = "apply"
      /\ UNCHANGED <<backups, request, holder, step, plan, edits, meddled>>
  BY DEF IInv, Apply
<1>3. /\ path \in Unapplied /\ path \in DOMAIN plan /\ DOMAIN plan \subseteq Path
      /\ plan[path] \in Bytes /\ backups # <<>>
      /\ DOMAIN Noted = DOMAIN plan /\ Noted[path].written = plan[path]
      /\ disk' \in [Path -> Bytes]
  BY <1>1, <1>2, Writing
<1>4. /\ applied' \in Seq(DOMAIN plan)
      /\ Range(applied') = Range(applied) \cup {path}
      /\ DOMAIN applied' = DOMAIN applied \cup {Len(applied) + 1}
      /\ DOMAIN applied = 1 .. Len(applied) /\ Len(applied) \in Nat
      /\ applied'[Len(applied) + 1] = path
      /\ \A i \in DOMAIN applied : applied'[i] = applied[i]
  BY <1>1, <1>2, <1>3, Appended, AppendProperties, LenProperties DEF TypeOK
<1>5. /\ disk'[path] = plan[path]
      /\ \A q \in Path \ {path} : disk'[q] = disk[q]
  BY <1>1, <1>2, <1>3 DEF TypeOK
<1>6. TypeOK'
  BY <1>2, <1>3, <1>4 DEF TypeOK
<1>7. Requests' /\ Apart' /\ Saved'
  BY <1>2 DEF IInv, Requests, Apart, Saved, Noted
<1>8. Progress'
  BY <1>2, <1>3, <1>4, <1>5 DEF IInv, Progress, Noted
<1>13. Ordered'
  <2>1. path \notin Range(applied)
    BY <1>3 DEF Unapplied
  <2>2. \A i, j \in DOMAIN applied' : applied'[i] = applied'[j] => i = j
    BY <1>4, <2>1 DEF IInv, Ordered, Range
  <2>3. \A q : Rank(q)' = Rank(q)
    BY <1>2 DEF Rank
  <2>4. ASSUME NEW j \in DOMAIN applied', NEW q \in DOMAIN plan,
               Rank(q) < Rank(applied'[j])
        PROVE  \E i \in DOMAIN applied' : i < j /\ applied'[i] = q
    <3>1. CASE j \in DOMAIN applied
      BY <1>2, <1>4, <2>4, <3>1 DEF IInv, Ordered
    <3>2. CASE j = Len(applied) + 1
      <4>1. Rank(q) < Rank(path)
        BY <1>4, <2>4, <3>2
      <4>2. q \notin Unapplied
        BY <4>1 DEF NextPaths, Rank
      <4>3. PICK i \in DOMAIN applied : applied[i] = q
        BY <4>2 DEF Unapplied, Range
      <4> QED
        BY <1>4, <3>2, <4>3
    <3> QED
      BY <1>4, <3>1, <3>2
  <2> QED
    BY <1>2, <2>2, <2>3, <2>4 DEF Ordered
<1>14. Linked'
  BY <1>2, <1>3, <1>5, LinksStay DEF IInv
<1>9. Unapplied' = Unapplied \ {path}
  BY <1>2, <1>4 DEF Unapplied
<1>10. Meant'
  <2>1. ASSUME NEW q
        PROVE  MayReplace(request[holder], q)' = MayReplace(request[holder], q)
    BY <1>2 DEF MayReplace
  <2>2. Unapplied \subseteq Path
    BY <1>3 DEF Unapplied
  <2> QED
    BY <1>2, <1>5, <1>9, <2>1, <2>2 DEF IInv, Meant
<1>11. Restoring'
  <2> SUFFICES ASSUME request[holder].action = "rollback"
               PROVE  Restoring'
    BY <1>2 DEF Restoring
  <2> DEFINE changes == backups[request[holder].backup].changes
  <2>1. DOMAIN changes \subseteq Path
    BY <1>2, RollbackPaths DEF IInv
  <2>2. /\ DOMAIN plan \subseteq DOMAIN changes
        /\ \A q \in DOMAIN plan : plan[q] = changes[q].old
        /\ \A q \in DOMAIN changes :
             q \in Unapplied \/ disk[q] = changes[q].old \/ q \in meddled.checked
    BY <1>2 DEF IInv, Restoring
  <2>3. ASSUME NEW q \in DOMAIN changes
        PROVE  q \in Unapplied' \/ disk'[q] = changes[q].old \/ q \in meddled.checked
    BY <1>3, <1>5, <1>9, <2>1, <2>2
  <2> QED
    BY <1>2, <2>2, <2>3 DEF Restoring
<1>12. NewestBackupApplies'
  <2>1. \A q \in DOMAIN Noted : disk'[q] \in {disk[q], Noted[q].written}
    BY <1>3, <1>5
  <2> QED
    BY <1>2, <2>1 DEF IInv, NewestBackupApplies, Guarded, Noted
<1> QED
  BY <1>6, <1>7, <1>8, <1>10, <1>11, <1>12, <1>13, <1>14 DEF IInv

LEMMA ApplyUnnotedKeeps ==
  ASSUME IInv, ApplyUnnoted
  PROVE  IInv'
<1>1. PICK path \in NextPaths :
        /\ disk' = [disk EXCEPT ![path] = plan[path]]
        /\ meddled' = [meddled EXCEPT !.unnoted = {path}]
  BY DEF ApplyUnnoted
<1>2. /\ TypeOK /\ step = "apply" /\ step' = "undo" /\ holder # None
      /\ UNCHANGED <<backups, request, holder, plan, applied, edits>>
  BY Holding DEF IInv, ApplyUnnoted
<1>3. /\ path \in DOMAIN plan /\ DOMAIN plan \subseteq Path
      /\ plan[path] \in Bytes /\ backups # <<>>
      /\ DOMAIN Noted = DOMAIN plan /\ Noted[path].written = plan[path]
      /\ disk' \in [Path -> Bytes]
  BY <1>1, <1>2, Writing
<1>4. /\ disk'[path] = plan[path]
      /\ \A q \in Path \ {path} : disk'[q] = disk[q]
      /\ meddled'.saved = meddled.saved /\ meddled'.unnoted = {path}
      /\ meddled'.checked = meddled.checked
  BY <1>1, <1>2, <1>3 DEF TypeOK
<1>5. TypeOK'
  <2>1. meddled' \in [checked : SUBSET Path, saved : SUBSET Path, unnoted : SUBSET Path]
    BY <1>1, <1>2, <1>3 DEF TypeOK
  <2> QED
    BY <1>2, <1>3, <2>1 DEF TypeOK
<1>6. Requests' /\ Apart' /\ Saved'
  BY <1>2 DEF IInv, Requests, Apart, Saved, Noted
<1>7. Progress'
  BY <1>2, <1>3, <1>4 DEF IInv, Progress, Noted
<1>8. Meant' /\ Restoring'
  BY <1>2 DEF Meant, Restoring
<1>9. NewestBackupApplies'
  <2>1. \A q \in DOMAIN Noted : disk'[q] \in {disk[q], Noted[q].written}
    BY <1>3, <1>4
  <2> QED
    BY <1>2, <1>4, <2>1 DEF IInv, NewestBackupApplies, Guarded, Noted
<1>10. Ordered'
  BY <1>2 DEF IInv, Ordered, Rank
<1>11. Linked'
  BY <1>2, <1>3, <1>4, LinksStay DEF IInv
<1> QED
  BY <1>5, <1>6, <1>7, <1>8, <1>9, <1>10, <1>11 DEF IInv

LEMMA ApplyFailsKeeps ==
  ASSUME IInv, ApplyFails
  PROVE  IInv'
<1>1. /\ TypeOK /\ step = "apply" /\ step' = "undo" /\ holder # None
      /\ UNCHANGED <<disk, backups, request, holder, plan, applied, edits, meddled>>
  BY Holding DEF IInv, ApplyFails
<1>2. TypeOK' /\ Requests' /\ Apart'
  BY <1>1 DEF IInv, TypeOK, Requests, Apart
<1>3. Saved' /\ Progress' /\ Ordered' /\ Linked'
  BY <1>1 DEF IInv, Saved, Progress, Noted, Ordered, Rank, Linked
<1>4. Meant' /\ Restoring'
  BY <1>1 DEF Meant, Restoring
<1>5. NewestBackupApplies'
  BY <1>1 DEF IInv, NewestBackupApplies, Guarded
<1> QED
  BY <1>2, <1>3, <1>4, <1>5 DEF IInv

LEMMA UndoKeeps ==
  ASSUME IInv, Undo
  PROVE  IInv'
<1> DEFINE path == Last(applied)
           change == Last(backups).changes[path]
<1>1. /\ TypeOK /\ step = "undo" /\ applied # <<>>
      /\ disk' = IF disk[path] = change.written
                   THEN [disk EXCEPT ![path] = change.old] ELSE disk
      /\ applied' = Front(applied)
      /\ UNCHANGED <<backups, request, holder, step, plan, edits, meddled>>
  BY DEF IInv, Undo
<1>2. /\ DOMAIN plan \subseteq Path /\ path \in DOMAIN plan
      /\ applied' \in Seq(DOMAIN plan)
  BY <1>1, PlanType, LastAndFront DEF TypeOK
<1>3. /\ Range(applied) = Range(applied') \cup {path}
      /\ Len(applied) \in Nat \ {0} /\ applied[Len(applied)] = path
      /\ DOMAIN applied = 1 .. Len(applied)
      /\ DOMAIN applied' = 1 .. Len(applied) - 1
      /\ \A i \in DOMAIN applied' : applied'[i] = applied[i]
  BY <1>1, FrontOf DEF TypeOK
<1>13. path \notin Range(applied')
  <2>1. \A i \in DOMAIN applied' : i \in DOMAIN applied /\ i # Len(applied)
    BY <1>3
  <2> QED
    BY <1>3, <2>1 DEF IInv, Ordered, Range
<1>4. /\ backups # <<>> /\ DOMAIN Noted = DOMAIN plan
      /\ \A q \in DOMAIN plan : Noted[q].written = plan[q]
      /\ change = Noted[path]
  BY <1>1 DEF IInv, Saved, Noted
<1>5. change.old \in Bytes
  <2>1. Last(backups) \in Backup
    BY <1>1, <1>4, LastAndFront DEF TypeOK
  <2>2. change \in Change
    BY <1>2, <1>4, <2>1, BackupType DEF Noted
  <2> QED
    BY <2>2 DEF Change
<1>6. disk' \in [Path -> Bytes]
  BY <1>1, <1>2, <1>5 DEF TypeOK
<1>7. /\ disk'[path] = IF disk[path] = plan[path] THEN Noted[path].old ELSE disk[path]
      /\ \A q \in Path \ {path} : disk'[q] = disk[q]
  BY <1>1, <1>2, <1>4 DEF TypeOK
<1>8. TypeOK'
  BY <1>1, <1>2, <1>6 DEF TypeOK
<1>9. Requests' /\ Apart' /\ Saved'
  BY <1>1 DEF IInv, Requests, Apart, Saved, Noted
<1>10. Progress'
  <2>1. ASSUME NEW q \in DOMAIN plan, q \notin meddled.saved \cup meddled.unnoted
        PROVE  disk'[q] = IF q \in Range(applied') THEN plan[q] ELSE Noted[q].old
    <3>1. disk[q] = IF q \in Range(applied) THEN plan[q] ELSE Noted[q].old
      BY <1>1, <2>1 DEF IInv, Progress
    <3>2. CASE q = path
      BY <1>3, <1>7, <1>13, <3>1, <3>2
    <3>3. CASE q # path
      BY <1>2, <1>3, <1>7, <3>1, <3>3
    <3> QED
      BY <3>2, <3>3
  <2> QED
    BY <1>1, <2>1 DEF IInv, Progress, Noted
<1>14. Ordered'
  <2>1. \A i, j \in DOMAIN applied' : applied'[i] = applied'[j] => i = j
    BY <1>3 DEF IInv, Ordered
  <2>2. \A q : Rank(q)' = Rank(q)
    BY <1>1 DEF Rank
  <2>3. ASSUME NEW j \in DOMAIN applied', NEW q \in DOMAIN plan,
               Rank(q) < Rank(applied'[j])
        PROVE  \E i \in DOMAIN applied' : i < j /\ applied'[i] = q
    <3>1. j \in DOMAIN applied /\ Rank(q) < Rank(applied[j])
      BY <1>3, <2>3
    <3>2. PICK i \in DOMAIN applied : i < j /\ applied[i] = q
      BY <1>1, <3>1 DEF IInv, Ordered
    <3> QED
      BY <1>3, <3>2
  <2> QED
    BY <1>1, <2>1, <2>2, <2>3 DEF Ordered
<1>15. Linked'
  BY <1>1, <1>2, <1>7, LinksStay DEF IInv
<1>11. Meant' /\ Restoring'
  BY <1>1 DEF Meant, Restoring
<1>12. NewestBackupApplies'
  <2>1. \A q \in DOMAIN Noted : disk'[q] = disk[q] \/ disk'[q] = Noted[q].old
    BY <1>2, <1>4, <1>7
  <2> QED
    BY <1>1, <2>1 DEF IInv, NewestBackupApplies, Guarded, Noted
<1> QED
  BY <1>8, <1>9, <1>10, <1>11, <1>12, <1>14, <1>15 DEF IInv

LEMMA EditKeeps ==
  ASSUME IInv, Edit
  PROVE  IInv'
<1>1. PICK path \in Path, c \in Bytes :
        /\ disk' = [disk EXCEPT ![path] = c]
        /\ meddled' = [meddled EXCEPT !.checked = @ \cup {path},
                                      !.saved = @ \cup {path}]
  BY DEF Edit
<1>2. /\ TypeOK /\ edits' \in 0 .. MaxEdits
      /\ UNCHANGED <<backups, request, holder, step, plan, applied>>
  BY BoundsAssumption DEF IInv, TypeOK, Edit
<1>3. /\ \A q \in Path \ {path} : disk'[q] = disk[q]
      /\ meddled'.checked = meddled.checked \cup {path}
      /\ meddled'.saved = meddled.saved \cup {path}
      /\ meddled'.unnoted = meddled.unnoted
  BY <1>1, <1>2 DEF TypeOK
<1>4. TypeOK'
  <2>1. meddled' \in [checked : SUBSET Path, saved : SUBSET Path, unnoted : SUBSET Path]
    BY <1>1, <1>2 DEF TypeOK
  <2>2. disk' \in [Path -> Bytes]
    BY <1>1, <1>2 DEF TypeOK
  <2> QED
    BY <1>2, <2>1, <2>2 DEF TypeOK
<1>5. Requests' /\ Apart' /\ Saved'
  BY <1>2 DEF IInv, Requests, Apart, Saved, Noted
<1>6. DOMAIN plan \subseteq Path
  BY <1>2, PlanType DEF TypeOK
<1>7. Progress'
  BY <1>2, <1>3, <1>6 DEF IInv, Progress, Noted
<1>8. Meant'
  <2>1. ASSUME NEW q
        PROVE  MayReplace(request[holder], q)' = MayReplace(request[holder], q)
    BY <1>2 DEF MayReplace
  <2> QED
    BY <1>2, <1>3, <1>6, <2>1 DEF IInv, Meant, Unapplied
<1>9. Restoring'
  <2> SUFFICES ASSUME step \in {"save", "apply"}, request[holder].action = "rollback"
               PROVE  Restoring'
    BY <1>2 DEF Restoring
  <2> DEFINE changes == backups[request[holder].backup].changes
  <2>1. DOMAIN changes \subseteq Path
    BY <1>2, RollbackPaths DEF IInv
  <2> QED
    BY <1>2, <1>3, <2>1 DEF IInv, Restoring, Unapplied
<1>10. NewestBackupApplies'
  <2> SUFFICES ASSUME backups # <<>>, NEW q \in DOMAIN Noted,
                      q \in Guarded(Last(backups))'
               PROVE  q \in meddled'.saved
    BY <1>2 DEF NewestBackupApplies, Guarded, Noted
  <2>1. Last(backups) \in Backup
    BY <1>2, LastAndFront DEF TypeOK
  <2>2. q \in Path
    BY <2>1, BackupType DEF Noted
  <2> QED
    BY <1>2, <1>3, <2>2 DEF IInv, NewestBackupApplies, Guarded
<1>11. Ordered'
  BY <1>2 DEF IInv, Ordered, Rank
<1>12. Linked'
  <2>1. step \notin {"save", "apply", "undo"} => Linked'
    BY <1>2 DEF Linked
  <2> QED
    BY <1>2, <1>3, <2>1, LinksStay DEF IInv
<1> QED
  BY <1>4, <1>5, <1>7, <1>8, <1>9, <1>10, <1>11, <1>12 DEF IInv

-----------------------------------------------------------------------------
(* The theorems *)

LEMMA Starting == Init => IInv
<1> SUFFICES ASSUME Init
             PROVE  IInv
  OBVIOUS
<1>1. TypeOK
  BY EmptyPlan, StartsAssumption, BoundsAssumption DEF Init, TypeOK, Quiet
<1>2. Requests /\ Saved /\ Progress /\ Ordered /\ Linked /\ Meant /\ Restoring
  BY EmptyPlan
     DEF Init, Requests, Saved, Progress, Ordered, Linked, Meant, Restoring
<1>3. Apart /\ NewestBackupApplies
  <2>1. Len(backups) = 0
    BY EmptySeq DEF Init
  <2> QED
    BY <2>1 DEF Init, Apart, NewestBackupApplies
<1> QED
  BY <1>1, <1>2, <1>3 DEF IInv

LEMMA EveryStepKeeps == IInv /\ [Next]_vars => IInv'
<1> SUFFICES ASSUME IInv, [Next]_vars
             PROVE  IInv'
  OBVIOUS
<1>1. ASSUME NEW p \in Process, Submit(p)
      PROVE  IInv'
  <2>1. PICK action \in {"maintain", "promote", "identity"}, f \in Asked :
          /\ action \in {"maintain", "promote"} => IsMaintenance(f)
          /\ request' = [request EXCEPT
               ![p] = [action |-> action, plan |-> f, base |-> Seen(DOMAIN f)]]
    BY <1>1 DEF Submit, IsPromotion
  <2> DEFINE r == [action |-> action, plan |-> f, base |-> Seen(DOMAIN f)]
  <2>2. f \in Plan /\ Seen(DOMAIN f) \in Plan
    BY AskedAssumption, PlanType, SeenIsPlan DEF IInv
  <2>3. r \in Request
    BY <2>2 DEF Request
  <2> QED
    BY <1>1, <2>1, <2>3, WaitKeeps DEF Submit
<1>2. ASSUME NEW p \in Process, SubmitRollback(p)
      PROVE  IInv'
  <2>1. PICK i \in 1 .. Len(backups) :
          request' = [request EXCEPT ![p] = [action |-> "rollback", backup |-> i]]
    BY <1>2 DEF SubmitRollback
  <2>2. [action |-> "rollback", backup |-> i] \in Request
    BY LenProperties DEF IInv, TypeOK, Request
  <2> QED
    BY <1>2, <2>1, <2>2, WaitKeeps DEF SubmitRollback
<1>3. ASSUME NEW p \in Process, SubmitSetup(p)
      PROVE  IInv'
  <2>1. PICK action \in {"init", "uninstall"} :
          request' = [request EXCEPT ![p] = [action |-> action]]
    BY <1>3 DEF SubmitSetup
  <2>2. [action |-> action] \in Request
    BY DEF Request
  <2> QED
    BY <1>3, <2>1, <2>2, WaitKeeps DEF SubmitSetup
<1>4. ASSUME NEW p \in Process, Take(p)
      PROVE  IInv'
  BY <1>4, TakeKeeps
<1>5. CASE Check
  BY <1>5, CheckKeeps
<1>6. CASE Save
  BY <1>6, SaveKeeps
<1>7. CASE Apply
  BY <1>7, ApplyKeeps
<1>8. CASE ApplyUnnoted
  BY <1>8, ApplyUnnotedKeeps
<1>9. CASE ApplyFails
  BY <1>9, ApplyFailsKeeps
<1>10. CASE Undo
  BY <1>10, UndoKeeps
<1>11. CASE CheckEnds \/ ApplyDone \/ UndoDone \/ Die
  <2>1. holder # None
    BY <1>11, Holding DEF IInv, CheckEnds, ApplyDone, UndoDone, Die
  <2>2. Leave /\ UNCHANGED <<disk, backups, edits, meddled>>
    BY <1>11 DEF CheckEnds, ApplyDone, UndoDone, Die
  <2> QED
    BY <2>1, <2>2, LeaveKeeps
<1>12. CASE Edit
  BY <1>12, EditKeeps
<1>13. CASE UNCHANGED vars
  <2>1. TypeOK' /\ Requests' /\ Apart'
    BY <1>13 DEF IInv, vars, TypeOK, Requests, Apart
  <2>2. Saved' /\ Progress' /\ NewestBackupApplies'
    BY <1>13 DEF IInv, vars, Saved, Progress, Noted, NewestBackupApplies, Guarded
  <2>3. Meant' /\ Restoring'
    BY <1>13 DEF IInv, vars, Meant, Restoring, Unapplied, MayReplace
  <2>4. Ordered' /\ Linked'
    BY <1>13 DEF IInv, vars, Ordered, Rank, Linked
  <2> QED
    BY <2>1, <2>2, <2>3, <2>4 DEF IInv
<1> QED
  BY <1>1, <1>2, <1>3, <1>4, <1>5, <1>6, <1>7, <1>8, <1>9, <1>10, <1>11, <1>12,
     <1>13 DEF Next

LEMMA Inductive == Spec => []IInv
  BY Starting, EveryStepKeeps, PTL DEF Spec

\* A mutation that was killed, or whose undo failed, leaves nothing that a
\* rollback of its backup would refuse, but for what was edited since
\* (NewestBackupApplies).
THEOREM KilledCanBeTakenBack == Spec => []NewestBackupApplies
<1>1. IInv => NewestBackupApplies
  BY DEF IInv
<1> QED
  BY <1>1, Inductive, PTL

\* Core changes only what the holder's mutation names, and each path once.
LEMMA Touched ==
  ASSUME IInv, [Next]_vars, edits' = edits, NEW path \in Path, disk'[path] # disk[path]
  PROVE  /\ path \in DOMAIN plan /\ step \in {"apply", "undo"}
         /\ step = "apply" => path \in Unapplied
<1>1. TypeOK /\ disk' # disk
  BY DEF IInv
<1>2. Apply \/ ApplyUnnoted \/ Undo
  <2>1. ~Edit
    <3>1. Edit => edits' = edits + 1
      BY DEF Edit
    <3>2. edits \in Nat
      BY <1>1, BoundsAssumption DEF TypeOK
    <3> QED
      BY <3>1, <3>2
  <2> QED
    BY <1>1, <2>1 DEF Next, vars, Submit, SubmitRollback, SubmitSetup, Take, Check,
       CheckEnds, Save, ApplyFails, ApplyDone, UndoDone, Die
<1>3. CASE Apply \/ ApplyUnnoted
  <2>1. PICK q \in NextPaths : step = "apply" /\ disk' = [disk EXCEPT ![q] = plan[q]]
    BY <1>3 DEF Apply, ApplyUnnoted
  <2>2. path = q
    BY <1>1, <2>1 DEF TypeOK
  <2> QED
    BY <2>1, <2>2, Writing
<1>4. CASE Undo
  <2>1. step = "undo" /\ applied # <<>>
    BY <1>4 DEF Undo
  <2>2. Last(applied) \in DOMAIN plan
    BY <1>1, <2>1, LastAndFront DEF TypeOK
  <2>3. path = Last(applied)
    <3>1. \/ disk' = disk
          \/ disk' = [disk EXCEPT ![Last(applied)] =
                         Last(backups).changes[Last(applied)].old]
      BY <1>4 DEF Undo
    <3> QED
      BY <1>1, <3>1 DEF TypeOK
  <2> QED
    BY <2>1, <2>2, <2>3
<1> QED
  BY <1>2, <1>3, <1>4

\* What a write or a delete replaces is in the mutation's backup, unless it
\* was edited since the backup was saved (ReplacedIsKept).
THEOREM BytesAreKept == Spec => ReplacedIsKept
<1> DEFINE Kept ==
      \A path \in Path :
        step = "apply" /\ edits' = edits /\ disk'[path] # disk[path]
          => \/ path \in DOMAIN Noted /\ Noted[path].old = disk[path]
             \/ path \in meddled.saved
<1>1. IInv /\ [Next]_vars => [Kept]_vars
  <2> SUFFICES ASSUME IInv, [Next]_vars, NEW path \in Path,
                      step = "apply", edits' = edits, disk'[path] # disk[path]
               PROVE  \/ path \in DOMAIN Noted /\ Noted[path].old = disk[path]
                      \/ path \in meddled.saved
    OBVIOUS
  <2>1. path \in DOMAIN plan /\ path \in Unapplied
    BY Touched
  <2>2. path \in DOMAIN Noted
    BY <2>1 DEF IInv, Saved
  <2>3. path \notin Range(applied) /\ meddled.unnoted = {}
    BY <2>1 DEF IInv, Progress, Unapplied
  <2> QED
    BY <2>1, <2>2, <2>3 DEF IInv, Progress
<1> QED
  BY <1>1, Inductive, PTL DEF Spec, ReplacedIsKept

\* However many callers queue for the lock, what a mutation replaces is what
\* its own caller meant, unless it was edited while the mutation ran
\* (ReplacesWhatItMeant).
THEOREM CallersMeanWhatTheyReplace == Spec => ReplacesWhatItMeant
<1> DEFINE Meaning ==
      \A path \in Path :
        step = "apply" /\ edits' = edits /\ disk'[path] # disk[path]
          => \/ disk[path] \in MayReplace(request[holder], path)
             \/ path \in meddled.checked
<1>1. IInv /\ [Next]_vars => [Meaning]_vars
  <2> SUFFICES ASSUME IInv, [Next]_vars, NEW path \in Path,
                      step = "apply", edits' = edits, disk'[path] # disk[path]
               PROVE  \/ disk[path] \in MayReplace(request[holder], path)
                      \/ path \in meddled.checked
    OBVIOUS
  <2>1. path \in Unapplied
    BY Touched
  <2> QED
    BY <2>1 DEF IInv, Meant
<1> QED
  BY <1>1, Inductive, PTL DEF Spec, ReplacesWhatItMeant

\* A mutation undone to the end leaves every path as its backup found it, but
\* for edits since and for an interrupt before a write was noted
\* (FailureRestores).
THEOREM FailedIsUndone == Spec => FailureRestores
<1> DEFINE Restores ==
      step = "undo" /\ applied = <<>> /\ disk' = disk
        => \A path \in DOMAIN Noted \ (meddled.saved \cup meddled.unnoted) :
             disk[path] = Noted[path].old
<1>1. IInv => Restores
  <2> SUFFICES ASSUME IInv, step = "undo", applied = <<>>,
                      NEW path \in DOMAIN Noted,
                      path \notin meddled.saved \cup meddled.unnoted
               PROVE  disk[path] = Noted[path].old
    OBVIOUS
  <2>1. path \in DOMAIN plan
    BY DEF IInv, Saved
  <2>2. Range(applied) = {}
    BY EmptyPlan DEF Range
  <2> QED
    BY <2>1, <2>2 DEF IInv, Progress
<1>2. IInv /\ [Next]_vars => [Restores]_vars
  BY <1>1
<1> QED
  BY <1>2, Inductive, PTL DEF Spec, FailureRestores

\* A rollback that ends well leaves every path of its backup restored, unless
\* it was edited meanwhile (RollbackRestores).
THEOREM RollbackIsWhole == Spec => RollbackRestores
<1> DEFINE Whole ==
      step = "apply" /\ Unapplied = {} /\ step' = "free"
        /\ request[holder].action = "rollback"
        => LET changes == backups[request[holder].backup].changes
           IN  \A path \in DOMAIN changes \ meddled.checked :
                 disk[path] = changes[path].old
<1>1. IInv => Whole
  BY DEF IInv, Restoring
<1>2. IInv /\ [Next]_vars => [Whole]_vars
  BY <1>1
<1> QED
  BY <1>2, Inductive, PTL DEF Spec, RollbackRestores

\* Only the identity's own commands, and their undo, change its files
\* (HistoryIsNotReplayed).
THEOREM HistoryIsLeftAlone == Spec => HistoryIsNotReplayed
<1> DEFINE Alone ==
      \A path \in History :
        edits' = edits /\ disk'[path] # disk[path]
          => request[holder].action = "identity"
<1>1. IInv /\ [Next]_vars => [Alone]_vars
  <2> SUFFICES ASSUME IInv, [Next]_vars, NEW path \in History,
                      edits' = edits, disk'[path] # disk[path]
               PROVE  request[holder].action = "identity"
    OBVIOUS
  <2>1. path \in DOMAIN plan /\ step \in {"apply", "undo"}
    BY Touched DEF Path
  <2> QED
    BY <2>1 DEF IInv, Apart
<1> QED
  BY <1>1, Inductive, PTL DEF Spec, HistoryIsNotReplayed

\* No link of the INDEX file that task-promote or document-maintain writes
\* loses its target between two writes, nor while they are undone (LinksLead).
THEOREM LinksNeverDangle == Spec => []LinksLead
<1>1. IInv => LinksLead
  <2> SUFFICES ASSUME IInv, step \in {"apply", "undo"},
                      request[holder].action \in {"promote", "maintain"},
                      NEW path \in DOMAIN plan \cap Index, disk[path] # Absent,
                      NEW target \in Links[disk[path]],
                      disk[target] = Absent,
                      path \notin meddled.checked \cup meddled.unnoted,
                      target \notin meddled.checked \cup meddled.unnoted
               PROVE  /\ disk[path] = Noted[path].old
                      /\ target \in DOMAIN Noted => Noted[target].old = Absent
    BY DEF LinksLead
  <2>1. /\ IsMaintenance(plan) /\ plan[path] # Absent
        /\ DOMAIN Noted = DOMAIN plan
    BY DEF IInv, Linked, Saved, IsMaintenance
  <2>2. \A q \in DOMAIN plan :
          q \in {path, target} =>
            disk[q] = IF q \in Range(applied) THEN plan[q] ELSE Noted[q].old
    BY DEF IInv, Progress
  <2>3. \A q \in DOMAIN plan :
          Rank(q) = IF plan[q] = Absent THEN 2 ELSE IF q = path THEN 1 ELSE 0
    BY <2>1, PathsAssumption DEF Rank, IsMaintenance
  \* A noted path follows all paths of a lower rank.
  <2>4. \A q, p \in DOMAIN plan :
          p \in Range(applied) /\ Rank(q) < Rank(p) => q \in Range(applied)
    BY DEF IInv, Ordered, Range
  <2>5. path \notin Range(applied)
    <3> SUFFICES ASSUME path \in Range(applied)
                 PROVE  FALSE
      OBVIOUS
    <3>1. target \in Links[plan[path]]
      BY <2>2
    <3>2. target \in DOMAIN plan /\ plan[target] # Absent
      BY <3>1 DEF IInv, Linked
    <3>3. target \in Range(applied)
      BY <2>3, <2>4, <3>2
    <3> QED
      BY <2>2, <3>2, <3>3
  <2>6. disk[path] = Noted[path].old
    BY <2>2, <2>5
  <2>7. ASSUME target \in DOMAIN plan
        PROVE  Noted[target].old = Absent
    <3>1. CASE target \in Range(applied)
      <4>1. plan[target] = Absent
        BY <2>2, <2>7, <3>1
      <4>2. Rank(path) < Rank(target)
        BY <2>1, <2>3, <2>7, <4>1
      <4> QED
        BY <2>4, <2>5, <2>7, <3>1, <4>2
    <3>2. CASE target \notin Range(applied)
      BY <2>2, <2>7, <3>2
    <3> QED
      BY <3>1, <3>2
  <2> QED
    BY <2>1, <2>6, <2>7
<1> QED
  BY <1>1, Inductive, PTL
-----------------------------------------------------------------------------
(* The check of INDEX files *)

\* The sequence of a finite set has its elements and no others.
LEMMA InSequence ==
  ASSUME NEW S \in SUBSET Index
  PROVE  SetToSeq(S) \in Seq(S) /\ Range(SetToSeq(S)) = S
<1> DEFINE n == Cardinality(S)
           f == SetToSeq(S)
<1>1. IsFiniteSet(S)
  BY IndexAssumption, FS_Subset
<1>2. n \in Nat /\ ExistsBijection(1 .. n, S)
  BY <1>1, FS_CardinalityType
<1>3. \E g \in [1 .. n -> S] : IsInjective(g)
  BY <1>2 DEF ExistsBijection, Bijection, Injection
<1>4. f \in [1 .. n -> S] /\ IsInjective(f)
  BY <1>3 DEF SetToSeq
<1>5. f \in Seq(S)
  BY <1>2, <1>4, SeqDef
<1>6. f \in Injection(1 .. n, S)
  BY <1>4 DEF Injection
<1>7. Cardinality(1 .. n) = n
  BY <1>2, FS_Interval
<1>8. f \in Surjection(1 .. n, S)
  BY <1>1, <1>6, <1>7, FS_Injection
<1>9. Range(f) = S
  BY <1>4, <1>8 DEF Surjection, Range
<1> QED
  BY <1>5, <1>9

LEMMA Joined ==
  ASSUME NEW S, NEW s \in Seq(S), NEW t \in Seq(S)
  PROVE  s \o t \in Seq(S) /\ Range(s \o t) = Range(s) \cup Range(t)
<1>1. /\ s \o t \in Seq(S) /\ Len(s \o t) = Len(s) + Len(t)
      /\ \A i \in 1 .. Len(s) + Len(t) :
           (s \o t)[i] = IF i <= Len(s) THEN s[i] ELSE t[i - Len(s)]
  BY ConcatProperties
<1>2. /\ DOMAIN s = 1 .. Len(s) /\ DOMAIN t = 1 .. Len(t)
      /\ DOMAIN (s \o t) = 1 .. Len(s) + Len(t)
      /\ Len(s) \in Nat /\ Len(t) \in Nat
  BY <1>1, LenProperties
<1>3. \A i \in 1 .. Len(s) : i \in 1 .. Len(s) + Len(t) /\ (s \o t)[i] = s[i]
  BY <1>1, <1>2
<1>4. \A i \in 1 .. Len(t) :
        Len(s) + i \in 1 .. Len(s) + Len(t) /\ (s \o t)[Len(s) + i] = t[i]
  BY <1>1, <1>2
<1>5. \A i \in 1 .. Len(s) + Len(t) :
        \/ i \in 1 .. Len(s) /\ (s \o t)[i] = s[i]
        \/ i - Len(s) \in 1 .. Len(t) /\ (s \o t)[i] = t[i - Len(s)]
  BY <1>1, <1>2
<1>6. Range(s) \cup Range(t) \subseteq Range(s \o t)
  BY <1>2, <1>3, <1>4 DEF Range
<1>7. Range(s \o t) \subseteq Range(s) \cup Range(t)
  BY <1>2, <1>5 DEF Range
<1> QED
  BY <1>1, <1>6, <1>7

\* The roots that are there are reached, and so is what a reached file leads to.
LEMMA ReachedFacts ==
  ASSUME NEW roots \in SUBSET Index
  PROVE  /\ \A r \in roots : disk[r] # Absent => r \in Reached(roots, Path)
         /\ \A p \in Reached(roots, Path), t \in Index :
              Leads(p, t) => t \in Reached(roots, Path)
         /\ \A p \in Reached(roots, Path) : p \in Index /\ disk[p] # Absent
<1>1. Index \subseteq Path
  BY DEF Path
<1>2. ASSUME NEW p \in Reached(roots, Path), NEW t \in Index, Leads(p, t)
      PROVE  t \in Reached(roots, Path)
  <2> DEFINE Shut(S) ==
        roots \subseteq S /\ \A q \in S \cap Path, u \in Index : Leads(q, u) => u \in S
  <2>1. disk[t] # Absent
    BY <1>2 DEF Leads
  <2>2. ASSUME NEW S \in SUBSET Index, Shut(S)
        PROVE  t \in S
    <3>1. p \in S
      BY <2>2 DEF Reached
    <3> QED
      BY <1>1, <1>2, <2>2, <3>1
  <2> QED
    BY <2>1, <2>2 DEF Reached
<1> QED
  BY <1>2 DEF Reached

\* What is reached lies in every set with the roots that is closed under links.
LEMMA ReachedWithin ==
  ASSUME NEW roots, NEW through, NEW S \in SUBSET Index, roots \subseteq S,
         \A p \in S \cap through, t \in Index : Leads(p, t) => t \in S
  PROVE  Reached(roots, through) \subseteq S
  BY DEF Reached
CheckInv == Checking /\ Covering /\ Exact

\* While no file changes, what is reached, led to and wrong stays the same.
LEMMA SameFiles ==
  ASSUME disk' = disk
  PROVE  /\ \A p, t : Leads(p, t)' <=> Leads(p, t)
         /\ \A p : Wrong(p)' = Wrong(p) /\ Followed(p)' = Followed(p)
         /\ \A roots, through : Reached(roots, through)' = Reached(roots, through)
<1>1. \A p, t : Leads(p, t)' <=> Leads(p, t)
  BY DEF Leads
<1>2. \A roots, through : Reached(roots, through)' = Reached(roots, through)
  BY <1>1 DEF Reached
<1> QED
  BY <1>1, <1>2 DEF Wrong, Followed

LEMMA StartKeeps ==
  ASSUME CheckInv, StartCheck
  PROVE  CheckInv'
<1>1. PICK roots \in SUBSET Index :
        check' = [Idle EXCEPT !.roots = roots, !.pending = SetToSeq(roots)]
  BY DEF StartCheck
<1>2. /\ check' = [roots |-> roots, pending |-> SetToSeq(roots), checked |-> <<>>,
                   errors |-> {}, changed |-> {}]
      /\ disk' = disk
  BY <1>1 DEF Idle, StartCheck, vars
<1>3. SetToSeq(roots) \in Seq(Index) /\ Range(SetToSeq(roots)) = roots
  <2>1. SetToSeq(roots) \in Seq(roots) /\ Range(SetToSeq(roots)) = roots
    BY InSequence
  <2> QED
    BY <2>1, SeqDef
<1>4. <<>> \in Seq(Index) /\ Range(<<>>) = {} /\ IsInjective(<<>>)
  BY EmptySeq DEF Range, IsInjective
<1>5. /\ check'.roots = roots /\ Range(check'.pending) = roots
      /\ Range(check'.checked) = {} /\ check'.errors = {} /\ check'.changed = {}
  BY <1>2, <1>3, <1>4
<1>6. Checking'
  BY <1>2, <1>3, <1>4 DEF Checking
<1>7. Covering'
  BY <1>5 DEF Covering, Known
<1>8. Exact'
  <2>1. \A p \in roots : p \in Reached(roots, Path)' \/ Missing(p)'
    BY <1>2, <1>5, ReachedFacts, SameFiles DEF Missing
  <2>2. \A r : Missing(r)' => r \in roots
    BY <1>5 DEF Missing
  <2> QED
    BY <1>5, <2>1, <2>2 DEF Exact
<1> QED
  BY <1>6, <1>7, <1>8 DEF CheckInv

\* Taking a file from the end of those to be read.
LEMMA Popping ==
  ASSUME Checking, check # None, check.pending # <<>>
  PROVE  /\ Popped \in Index /\ Front(check.pending) \in Seq(Index)
         /\ Range(check.pending) = Range(Front(check.pending)) \cup {Popped}
  BY LastAndFront, FrontOf DEF Checking, Popped

LEMMA MissingKeeps ==
  ASSUME CheckInv, VisitMissing
  PROVE  CheckInv'
<1> DEFINE P == Popped
           new == Front(check.pending)
<1>1. /\ check # None /\ check.pending # <<>> /\ disk[P] = Absent /\ disk' = disk
      /\ check' = [check EXCEPT !.pending = new, !.errors = @ \cup {<<P, P>>}]
  BY DEF VisitMissing, vars
<1>2. /\ P \in Index /\ new \in Seq(Index)
      /\ Range(check.pending) = Range(new) \cup {P}
  BY <1>1, Popping DEF CheckInv
<1>3. /\ check' = [roots |-> check.roots, pending |-> new, checked |-> check.checked,
                   errors |-> check.errors \cup {<<P, P>>}, changed |-> check.changed]
      /\ check'.roots = check.roots /\ check'.pending = new
      /\ check'.checked = check.checked /\ check'.changed = check.changed
      /\ check'.errors = check.errors \cup {<<P, P>>}
  BY <1>1 DEF CheckInv, Checking
<1> HIDE DEF P, new
<1>4. \A r : Missing(r)' <=> Missing(r)
  BY <1>1, <1>3 DEF Missing
<1>5. \A p, t : Leads(p, t) => t # P
  BY <1>1 DEF Leads
<1>6. Checking'
  BY <1>1, <1>2, <1>3 DEF CheckInv, Checking
<1>7. Covering'
  <2>1. \A p, t : Leads(p, t)' <=> Leads(p, t)
    BY <1>1, SameFiles
  <2>2. Known = Known' \cup {P}
    BY <1>2, <1>3 DEF Known
  <2> QED
    BY <1>1, <1>3, <1>5, <2>1, <2>2 DEF CheckInv, Covering
<1>8. Exact'
  <2> SUFFICES ASSUME check.changed = {}
               PROVE  Exact'
    BY <1>3 DEF Exact
  <2>1. /\ Reached(check.roots, Path)' = Reached(check.roots, Path)
        /\ \A p : Wrong(p)' = Wrong(p)
    BY <1>1, <1>3, SameFiles
  <2>2. Missing(P)
    BY <1>1, <1>2, ReachedFacts DEF CheckInv, Checking, Exact
  <2> QED
    BY <1>1, <1>2, <1>3, <1>4, <2>1, <2>2 DEF CheckInv, Exact
<1> QED
  BY <1>6, <1>7, <1>8 DEF CheckInv

LEMMA AgainKeeps ==
  ASSUME CheckInv, VisitAgain
  PROVE  CheckInv'
<1> DEFINE P == Popped
           new == Front(check.pending)
<1>1. /\ check # None /\ check.pending # <<>> /\ disk[P] # Absent /\ disk' = disk
      /\ P \in Range(check.checked) /\ check' = [check EXCEPT !.pending = new]
  BY DEF VisitAgain, vars
<1>2. /\ P \in Index /\ new \in Seq(Index)
      /\ Range(check.pending) = Range(new) \cup {P}
  BY <1>1, Popping DEF CheckInv
<1>3. /\ check' = [roots |-> check.roots, pending |-> new, checked |-> check.checked,
                   errors |-> check.errors, changed |-> check.changed]
      /\ check'.roots = check.roots /\ check'.pending = new
      /\ check'.checked = check.checked /\ check'.changed = check.changed
      /\ check'.errors = check.errors
  BY <1>1 DEF CheckInv, Checking
<1> HIDE DEF P, new
<1>4. \A r : Missing(r)' <=> Missing(r)
  BY <1>1, <1>3 DEF Missing
<1>5. \A r : Missing(r) => r # P
  BY <1>1 DEF Missing
<1>6. Checking'
  BY <1>1, <1>2, <1>3 DEF CheckInv, Checking
<1>7. Covering'
  <2>1. \A p, t : Leads(p, t)' <=> Leads(p, t)
    BY <1>1, SameFiles
  <2>2. Known' = Known
    BY <1>1, <1>2, <1>3 DEF Known
  <2> QED
    BY <1>1, <1>3, <2>1, <2>2 DEF CheckInv, Covering
<1>8. Exact'
  <2>1. /\ Reached(check.roots, Path)' = Reached(check.roots, Path)
        /\ \A p : Wrong(p)' = Wrong(p)
    BY <1>1, <1>3, SameFiles
  <2> QED
    BY <1>1, <1>2, <1>3, <1>4, <1>5, <2>1 DEF CheckInv, Exact
<1> QED
  BY <1>6, <1>7, <1>8 DEF CheckInv
\* What an INDEX file leads on to.
LEMMA FollowedIsLed ==
  ASSUME NEW p \in Index, disk[p] # Absent
  PROVE  /\ Followed(p) \subseteq Index
         /\ \A t \in Index : t \in Followed(p) <=> Leads(p, t)
  BY DEF Followed, Leads

LEMMA VisitKeeps ==
  ASSUME CheckInv, Visit
  PROVE  CheckInv'
<1> DEFINE P == Popped
           rest == Front(check.pending)
           new == rest \o SetToSeq(Followed(P))
           read == Append(check.checked, P)
<1>1. /\ check # None /\ check.pending # <<>> /\ disk[P] # Absent /\ disk' = disk
      /\ P \notin Range(check.checked)
      /\ check' = [check EXCEPT !.checked = read, !.errors = @ \cup Wrong(P),
                                !.pending = new]
  BY DEF Visit, vars
<1>2. /\ P \in Index /\ rest \in Seq(Index)
      /\ Range(check.pending) = Range(rest) \cup {P}
  BY <1>1, Popping DEF CheckInv
<1>3. /\ Followed(P) \in SUBSET Index
      /\ \A t \in Index : t \in Followed(P) <=> Leads(P, t)
  BY <1>1, <1>2, FollowedIsLed
<1>4. new \in Seq(Index) /\ Range(new) = Range(rest) \cup Followed(P)
  <2>1. SetToSeq(Followed(P)) \in Seq(Followed(P)) /\ Range(SetToSeq(Followed(P))) = Followed(P)
    BY <1>3, InSequence
  <2>2. SetToSeq(Followed(P)) \in Seq(Index)
    BY <1>3, <2>1, SeqDef
  <2> QED
    BY <1>2, <2>1, <2>2, Joined
<1>5. check.checked \in Seq(Index) /\ IsInjective(check.checked)
  BY <1>1 DEF CheckInv, Checking
<1>6. read \in Seq(Index) /\ Range(read) = Range(check.checked) \cup {P}
  BY <1>2, <1>5, Appended
<1>7. IsInjective(read)
  <2>1. /\ DOMAIN check.checked = 1 .. Len(check.checked) /\ Len(check.checked) \in Nat
        /\ DOMAIN read = 1 .. Len(check.checked) + 1
        /\ \A i \in 1 .. Len(check.checked) : read[i] = check.checked[i]
        /\ read[Len(check.checked) + 1] = P
    BY <1>2, <1>5, AppendProperties, LenProperties
  <2>2. \A i \in DOMAIN read : i \in DOMAIN check.checked \/ i = Len(check.checked) + 1
    BY <2>1
  <2>3. \A i \in DOMAIN check.checked : check.checked[i] # P
    BY <1>1 DEF Range
  <2> QED
    BY <1>5, <2>1, <2>2, <2>3 DEF IsInjective
<1>8. /\ check' = [roots |-> check.roots, pending |-> new, checked |-> read,
                   errors |-> check.errors \cup Wrong(P), changed |-> check.changed]
      /\ check'.roots = check.roots /\ check'.pending = new
      /\ check'.checked = read /\ check'.changed = check.changed
      /\ check'.errors = check.errors \cup Wrong(P)
  BY <1>1 DEF CheckInv, Checking
<1> HIDE DEF P, rest, new, read
<1>9. \A r : Missing(r)' <=> Missing(r)
  BY <1>1, <1>8 DEF Missing
<1>10. Checking'
  BY <1>1, <1>4, <1>6, <1>7, <1>8 DEF CheckInv, Checking
<1>11. Covering'
  <2>1. \A p, t : Leads(p, t)' <=> Leads(p, t)
    BY <1>1, SameFiles
  <2>2. Known' = Known \cup Followed(P) \cup {P}
    BY <1>2, <1>4, <1>6, <1>8 DEF Known
  <2> QED
    BY <1>1, <1>3, <1>6, <1>8, <2>1, <2>2 DEF CheckInv, Covering
<1>12. Exact'
  <2> SUFFICES ASSUME check.changed = {}
               PROVE  Exact'
    BY <1>8 DEF Exact
  <2>1. /\ Reached(check.roots, Path)' = Reached(check.roots, Path)
        /\ \A p : Wrong(p)' = Wrong(p)
    BY <1>1, <1>8, SameFiles
  <2>2. P \in Reached(check.roots, Path)
    BY <1>1, <1>2 DEF CheckInv, Exact, Missing
  <2>3. Followed(P) \subseteq Reached(check.roots, Path)
    BY <1>1, <1>3, <2>2, ReachedFacts DEF CheckInv, Checking
  <2>4. \A r : Missing(r) => r # P
    BY <1>1 DEF Missing
  <2>5. /\ \A p \in Range(read) : p \in Reached(check.roots, Path)
        /\ \A p \in Range(new) : p \in Reached(check.roots, Path) \/ Missing(p)
    BY <1>1, <1>2, <1>4, <1>6, <2>2, <2>3 DEF CheckInv, Exact
  <2>6. \A e \in check'.errors :
          \/ \E p \in Range(read) : e \in Wrong(p)
          \/ \E r \in Index : Missing(r) /\ e = <<r, r>>
    BY <1>1, <1>6, <1>8 DEF CheckInv, Exact
  <2>7. \A p \in Range(read) : Wrong(p) \subseteq check'.errors
    BY <1>1, <1>6, <1>8 DEF CheckInv, Exact
  <2>8. \A r \in Index : Missing(r) => <<r, r>> \in check'.errors \/ r \in Range(new)
    BY <1>1, <1>2, <1>4, <1>8, <2>4 DEF CheckInv, Exact
  <2> QED
    BY <1>8, <1>9, <2>1, <2>5, <2>6, <2>7, <2>8 DEF Exact
<1> QED
  BY <1>10, <1>11, <1>12 DEF CheckInv

LEMMA FollowKeeps ==
  ASSUME CheckInv, TypeOK, TypeOK', Follow
  PROVE  CheckInv'
<1>1. CASE check' = check /\ disk' = disk
  <2>1. /\ \A p, t : Leads(p, t)' <=> Leads(p, t)
        /\ \A p : Wrong(p)' = Wrong(p)
        /\ Reached(check.roots, Path)' = Reached(check.roots, Path)
    BY <1>1, SameFiles
  <2>2. Known' = Known /\ \A r : Missing(r)' <=> Missing(r)
    BY <1>1 DEF Known, Missing
  <2> QED
    BY <1>1, <2>1, <2>2 DEF CheckInv, Checking, Covering, Exact
<1>2. CASE check' = None
  BY <1>2 DEF CheckInv, Checking, Covering, Exact
<1>3. CASE check' = Idle
  <2>1. <<>> \in Seq(Index) /\ Range(<<>>) = {} /\ IsInjective(<<>>)
    BY EmptySeq DEF Range, IsInjective
  <2>2. \A r : ~Missing(r)'
    BY <1>3 DEF Missing, Idle
  <2> QED
    BY <1>3, <2>1, <2>2 DEF CheckInv, Checking, Covering, Exact, Idle
<1>4. ASSUME check # None, disk' # disk,
             check' = [check EXCEPT !.changed = @ \cup {p \in Path : disk'[p] # disk[p]}]
      PROVE  CheckInv'
  <2> DEFINE more == check.changed \cup {p \in Path : disk'[p] # disk[p]}
  <2>1. /\ check' = [roots |-> check.roots, pending |-> check.pending,
                     checked |-> check.checked, errors |-> check.errors, changed |-> more]
        /\ check'.roots = check.roots /\ check'.pending = check.pending
        /\ check'.checked = check.checked /\ check'.changed = more
    BY <1>4 DEF CheckInv, Checking
  <2>2. \E p \in Path : disk'[p] # disk[p]
    BY <1>4 DEF TypeOK
  <2>3. \A p \in Path : p \notin more => disk'[p] = disk[p] /\ p \notin check.changed
    OBVIOUS
  <2>4. more # {}
    BY <2>2
  <2> HIDE DEF more
  <2>5. /\ check.roots \subseteq Path /\ Index \subseteq Path
        /\ Range(check.checked) \subseteq Path
    <3>1. check.checked \in Seq(Index) /\ check.roots \subseteq Index
      BY <1>4 DEF CheckInv, Checking
    <3>2. Range(check.checked) \subseteq Index
      BY <3>1, LenProperties DEF Range
    <3> QED
      BY <3>1, <3>2 DEF Path
  <2>6. Known' = Known
    BY <2>1 DEF Known
  <2>7. \A p, t \in Path : p \notin more /\ t \notin more => (Leads(p, t)' <=> Leads(p, t))
    BY <2>3 DEF Leads
  <2>8. Covering'
    BY <1>4, <2>1, <2>3, <2>5, <2>6, <2>7 DEF CheckInv, Covering
  <2>9. Checking'
    BY <1>4, <2>1 DEF CheckInv, Checking
  <2>10. Exact'
    BY <2>1, <2>4 DEF Exact
  <2> QED
    BY <2>8, <2>9, <2>10 DEF CheckInv
<1> QED
  BY <1>1, <1>2, <1>3, <1>4 DEF Follow
\* What a check that has nothing left to read has found.
LEMMA Found ==
  ASSUME CheckInv
  PROVE  CheckIsExact
<1> DEFINE checked == Range(check.checked)
           reached == Reached(check.roots, Path \ check.changed)
           absent == {r \in check.roots : disk[r] = Absent}
<1> SUFFICES ASSUME check # None, check.pending = <<>>
             PROVE  /\ IsInjective(check.checked)
                    /\ reached \ check.changed \subseteq checked
                    /\ check.changed = {} =>
                         /\ checked = reached
                         /\ check.errors = (UNION {Wrong(p) : p \in reached})
                                             \cup {<<r, r>> : r \in absent}
  BY DEF CheckIsExact
<1>1. /\ check.roots \subseteq Index /\ check.checked \in Seq(Index)
      /\ IsInjective(check.checked)
  BY DEF CheckInv, Checking
<1>2. Range(check.pending) = {} /\ checked \subseteq Index
  BY <1>1, EmptySeq, LenProperties DEF Range
<1>3. Known = checked
  BY <1>2 DEF Known
<1>4. reached \ check.changed \subseteq checked
  <2> DEFINE S == Index \cap (checked \cup check.changed \cup absent)
  <2>1. check.roots \subseteq S
    BY <1>1, <1>3 DEF CheckInv, Covering
  <2>2. ASSUME NEW p \in S \cap (Path \ check.changed), NEW t \in Index, Leads(p, t)
        PROVE  t \in S
    <3>1. p \in checked \ check.changed
      BY <2>2 DEF Leads
    <3> QED
      BY <1>3, <2>2, <3>1 DEF CheckInv, Covering
  <2>3. reached \subseteq S
    <3>1. S \in SUBSET Index
      OBVIOUS
    <3> HIDE DEF S
    <3> QED
      BY <2>1, <2>2, <3>1, ReachedWithin
  <2>4. \A p \in reached : disk[p] # Absent
    BY DEF Reached
  <2> QED
    BY <2>3, <2>4
<1>5. ASSUME check.changed = {}
      PROVE  /\ checked = reached
             /\ check.errors = (UNION {Wrong(p) : p \in reached})
                                 \cup {<<r, r>> : r \in absent}
  <2>1. reached = Reached(check.roots, Path)
    BY <1>5
  <2>2. checked = reached
    BY <1>4, <1>5, <2>1 DEF CheckInv, Exact
  <2>3. /\ \A e \in check.errors :
             \/ \E p \in checked : e \in Wrong(p)
             \/ \E r \in Index : Missing(r) /\ e = <<r, r>>
        /\ \A p \in checked : Wrong(p) \subseteq check.errors
        /\ \A r \in Index : Missing(r) => <<r, r>> \in check.errors
    BY <1>2, <1>5 DEF CheckInv, Exact
  <2>4. \A r : r \in absent <=> r \in Index /\ Missing(r)
    BY <1>1 DEF Missing
  <2> HIDE DEF checked, reached, absent
  <2>5. \A e : e \in check.errors <=>
          (\E p \in reached : e \in Wrong(p)) \/ (\E r \in absent : e = <<r, r>>)
    BY <2>2, <2>3, <2>4
  <2>6. check.errors = (UNION {Wrong(p) : p \in reached}) \cup {<<r, r>> : r \in absent}
    BY <2>5
  <2> QED
    BY <2>2, <2>6
<1> QED
  BY <1>1, <1>4, <1>5

\* A check writes nothing, so whatever holds of the mutations holds next to it.
LEMMA ChecksWriteNothing == CheckSpec => Spec
<1>1. CheckInit => Init
  BY DEF CheckInit
<1>2. [CheckedNext]_<<vars, check>> => [Next]_vars
  BY DEF CheckedNext, StartCheck, VisitMissing, VisitAgain, Visit
<1> QED
  BY <1>1, <1>2, PTL DEF CheckSpec, Spec

\* However INDEX files link each other and whatever changes meanwhile, a check
\* reads each of them at most once and misses none that unchanged links of
\* unchanged files lead to; and while nothing changes it reports exactly what is
\* wrong with those that are reached (CheckIsExact).
THEOREM ChecksAreExact == CheckSpec => []CheckIsExact
<1>1. CheckInit => IInv /\ CheckInv
  <2> SUFFICES ASSUME CheckInit
               PROVE  CheckInv
    BY Starting DEF CheckInit
  <2>1. <<>> \in Seq(Index) /\ Range(<<>>) = {} /\ IsInjective(<<>>)
    BY EmptySeq DEF Range, IsInjective
  <2>2. check \in {Idle, None}
    BY DEF CheckInit
  <2>3. CASE check = None
    BY <2>3 DEF CheckInv, Checking, Covering, Exact
  <2>4. CASE check = Idle
    <3>1. \A r : ~Missing(r)
      BY <2>4 DEF Missing, Idle
    <3> QED
      BY <2>1, <2>4, <3>1 DEF CheckInv, Checking, Covering, Exact, Idle
  <2> QED
    BY <2>2, <2>3, <2>4
<1>2. IInv /\ CheckInv /\ [CheckedNext]_<<vars, check>> => IInv' /\ CheckInv'
  <2> SUFFICES ASSUME IInv, CheckInv, [CheckedNext]_<<vars, check>>
               PROVE  IInv' /\ CheckInv'
    OBVIOUS
  <2>1. [Next]_vars
    BY DEF CheckedNext, StartCheck, VisitMissing, VisitAgain, Visit
  <2>2. IInv'
    BY <2>1, EveryStepKeeps
  <2>3. TypeOK /\ TypeOK'
    BY <2>2 DEF IInv
  <2>4. CASE UNCHANGED <<vars, check>>
    <3>1. disk' = disk /\ check' = check
      BY <2>4 DEF vars
    <3>2. /\ \A p, t : Leads(p, t)' <=> Leads(p, t)
          /\ \A p : Wrong(p)' = Wrong(p)
          /\ Reached(check.roots, Path)' = Reached(check.roots, Path)
      BY <3>1, SameFiles
    <3>3. Known' = Known /\ \A r : Missing(r)' <=> Missing(r)
      BY <3>1 DEF Known, Missing
    <3> QED
      BY <2>2, <3>1, <3>2, <3>3 DEF CheckInv, Checking, Covering, Exact
  <2>5. CASE Next /\ Follow
    BY <2>2, <2>3, <2>5, FollowKeeps
  <2> QED
    BY <2>2, <2>4, <2>5, StartKeeps, MissingKeeps, AgainKeeps, VisitKeeps DEF CheckedNext
<1>3. CheckInv => CheckIsExact
  BY Found
<1> QED
  BY <1>1, <1>2, <1>3, PTL DEF CheckSpec
=============================================================================
