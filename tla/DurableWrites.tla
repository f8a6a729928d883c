--------------------------- MODULE DurableWrites ---------------------------
(***************************************************************************)
(* Mutations of the repository's durable files: documents and INDEX files  *)
(* of project memory, and the files of the project identity.  Each one     *)
(* runs under the repository lock, checks what it replaces, saves a backup *)
(* that names the old and the new bytes of every path, and then writes     *)
(* path after path.  A failure undoes the writes that were noted; a killed *)
(* process leaves the backup, which rollback can apply later.              *)
(*                                                                         *)
(* Editors (people, Agents, git) change the files without the lock.        *)
(* Bytes stand for their SHA-256, which is assumed to be injective.        *)
(***************************************************************************)
EXTENDS Naturals, Sequences, FiniteSets, SequencesExt

CONSTANTS
  Doc,         \* paths of Markdown documents
  Index,       \* paths of INDEX.md files
  Root,        \* the INDEX files init generates
  History,     \* paths under the project identity's namespace
  Content,     \* what a file may hold
  Template,    \* the content init gives an INDEX file
  Links,       \* durable paths that a Markdown content links
  Absent,      \* content of a path that names no file
  Process,     \* processes that mutate durable files
  None,
  Starts,      \* what the files may hold at first
  Asked,       \* the mutations callers ask for
  MaxBackups,  \* bound: backups saved
  MaxEdits     \* bound: edits made without the lock

ASSUME PathsAssumption ==
  /\ Doc \cap Index = {} /\ Doc \cap History = {} /\ Index \cap History = {}
  /\ Root \subseteq Index
ASSUME ContentAssumption ==
  /\ Template \in Content /\ Absent \notin Content
  /\ Links \in [Content -> SUBSET (Doc \cup Index)] /\ Links[Template] = {}
ASSUME NoneAssumption == None \notin Process
ASSUME BoundsAssumption ==
  MaxBackups \in Nat /\ MaxEdits \in Nat

Path == Doc \cup Index \cup History
Bytes == Content \cup {Absent}

\* What to leave at each path of a mutation; Absent stands for a delete.
Plan == UNION {[D -> Bytes] : D \in SUBSET Path}
Change == [old : Bytes, written : Bytes]
Backup ==
  [action : {"maintain", "promote", "identity", "init", "uninstall", "rollback"},
   changes : UNION {[D -> Change] : D \in SUBSET Path}]

\* What a caller asks for, and the bytes it had read when it decided.
Request ==
  [action : {"maintain", "promote", "identity"}, plan : Plan, base : Plan]
    \cup [action : {"rollback"}, backup : Nat \ {0}]
    \cup [action : {"init", "uninstall"}]

ASSUME StartsAssumption ==
  /\ Starts \subseteq [Path -> Bytes]
  /\ \A start \in Starts, path \in Root : start[path] # Absent
ASSUME AskedAssumption == Asked \subseteq Plan

VARIABLES
  disk,      \* bytes at each path
  backups,   \* records under .context/backups, oldest first
  request,   \* what each process runs, or None
  holder,    \* process holding the repository lock, or None
  step,      \* where the holder is in its mutation
  plan,      \* what the holder is to leave at each path
  applied,   \* paths whose write the holder has noted, in order
  edits,     \* number of edits so far
  meddled    \* history: paths edited since the last check, since the last
             \* backup, and the path written without being noted

vars == <<disk, backups, request, holder, step, plan, applied, edits, meddled>>

Quiet == [checked |-> {}, saved |-> {}, unnoted |-> {}]

TypeOK ==
  /\ disk \in [Path -> Bytes]
  /\ backups \in Seq(Backup)
  /\ request \in [Process -> Request \cup {None}]
  /\ holder \in Process \cup {None}
  /\ step \in {"free", "check", "save", "apply", "undo"}
  /\ (step = "free") = (holder = None)
  /\ holder # None => request[holder] # None
  /\ plan \in Plan
  /\ applied \in Seq(DOMAIN plan)
  /\ edits \in 0..MaxEdits
  /\ meddled \in [checked : SUBSET Path, saved : SUBSET Path, unnoted : SUBSET Path]

Init ==
  /\ disk \in Starts
  /\ backups = <<>>
  /\ request = [p \in Process |-> None]
  /\ holder = None
  /\ step = "free"
  /\ plan = <<>>
  /\ applied = <<>>
  /\ edits = 0
  /\ meddled = Quiet

-----------------------------------------------------------------------------

Seen(paths) == [path \in paths |-> disk[path]]

\* document-maintain writes and deletes documents and replaces an INDEX file.
IsMaintenance(f) ==
  /\ DOMAIN f \subseteq Doc \cup Index
  /\ \A path \in DOMAIN f \cap Index : f[path] # Absent
  /\ \A path, q \in DOMAIN f \cap Index : path = q

\* task-promote creates documents and may replace an INDEX file with them.
IsPromotion(f) ==
  /\ IsMaintenance(f)
  /\ DOMAIN f \cap Doc # {}
  /\ \A path \in DOMAIN f : f[path] # Absent

\* The identity's own commands write their files and never delete one.
IsIdentityChange(f) ==
  /\ DOMAIN f \subseteq History
  /\ \A path \in DOMAIN f : f[path] # Absent

\* A caller reads the files and then submits a mutation of them.
Submit(p) ==
  /\ request[p] = None
  /\ \E action \in {"maintain", "promote", "identity"}, f \in Asked :
       /\ CASE action = "maintain" -> IsMaintenance(f)
            [] action = "promote"  -> IsPromotion(f)
            [] action = "identity" -> IsIdentityChange(f)
       /\ request' = [request EXCEPT
            ![p] = [action |-> action, plan |-> f, base |-> Seen(DOMAIN f)]]
  /\ UNCHANGED <<disk, backups, holder, step, plan, applied, edits, meddled>>

SubmitRollback(p) ==
  /\ request[p] = None
  /\ \E i \in 1..Len(backups) :
       request' = [request EXCEPT ![p] = [action |-> "rollback", backup |-> i]]
  /\ UNCHANGED <<disk, backups, holder, step, plan, applied, edits, meddled>>

\* init and task-start create the INDEX files that are missing; uninstall
\* deletes those nobody changed.
SubmitSetup(p) ==
  /\ request[p] = None
  /\ \E action \in {"init", "uninstall"} :
       request' = [request EXCEPT ![p] = [action |-> action]]
  /\ UNCHANGED <<disk, backups, holder, step, plan, applied, edits, meddled>>

\* with _lock(root)
Take(p) ==
  /\ request[p] # None
  /\ holder = None
  /\ holder' = p
  /\ step' = "check"
  /\ meddled' = [Quiet EXCEPT !.saved = meddled.saved]
  /\ UNCHANGED <<disk, backups, request, plan, applied, edits>>

\* Leaving `with _lock(root)', by return, by an exception or by being killed.
Leave ==
  /\ request' = [request EXCEPT ![holder] = None]
  /\ holder' = None
  /\ step' = "free"
  /\ plan' = <<>>
  /\ applied' = <<>>

-----------------------------------------------------------------------------

\* The paths of a backup that hold neither its old nor its new bytes.
Guarded(b) ==
  {path \in DOMAIN b.changes :
     disk[path] \notin {b.changes[path].old, b.changes[path].written}}

\* The paths a rollback is to restore, with their bytes.
Restoration(b) ==
  LET applicable == {path \in DOMAIN b.changes :
                       /\ disk[path] # b.changes[path].old
                       /\ disk[path] = b.changes[path].written}
  IN  [path \in applicable |-> b.changes[path].old]

\* Every link of the contents written to `paths' names a file that is there
\* or that the plan writes, and none that it deletes.  Nobody looks at the
\* links of the files the plan does not write.
LinksChecked(f, paths) ==
  \A path \in paths :
    f[path] # Absent =>
      \A target \in Links[f[path]] :
        IF target \in DOMAIN f THEN f[target] # Absent ELSE disk[target] # Absent

\* The bytes the caller had read are still there, a delete or an INDEX
\* replacement finds a file, and the links hold.
MaintainAdmits(r) ==
  /\ \A path \in DOMAIN r.plan :
       /\ r.base[path] = disk[path]
       /\ r.plan[path] = Absent \/ path \in Index => disk[path] # Absent
  /\ LinksChecked(r.plan, DOMAIN r.plan)

\* Mutant: a promoted document may replace one that exists.
PromoteOverwrites(r) ==
  \A path \in DOMAIN r.plan \cap Index :
    disk[path] # Absent /\ r.base[path] = disk[path]

\* A promoted document is new; the INDEX file is the one the caller read.
PromoteAdmits(r) ==
  /\ \A path \in DOMAIN r.plan \cap Doc : disk[path] = Absent
  /\ \A path \in DOMAIN r.plan \cap Index :
       disk[path] # Absent /\ r.base[path] = disk[path]
  /\ LinksChecked(r.plan, DOMAIN r.plan \cap Index)

\* Mutant: rollback applies whatever the backup's action is.
RollbackAdmitsIdentity(r) == Guarded(backups[r.backup]) = {}

\* Mutant: the files that have moved on are left out of the rollback.
RollbackAdmitsPartly(r) == backups[r.backup].action # "identity"

\* Identity backups are refused, and so is one whose files have moved on.
RollbackAdmits(r) ==
  /\ backups[r.backup].action # "identity"
  /\ Guarded(backups[r.backup]) = {}

Admits(r) ==
  CASE r.action = "maintain" -> MaintainAdmits(r)
    [] r.action = "promote"  -> PromoteAdmits(r)
    [] r.action = "rollback" -> RollbackAdmits(r)
    [] OTHER                 -> TRUE

\* What the mutation is to leave on disk, decided under the lock.
Planned(r) ==
  CASE r.action = "rollback"  -> Restoration(backups[r.backup])
    [] r.action = "init"      ->
         [path \in {q \in Root : disk[q] = Absent} |-> Template]
    [] r.action = "uninstall" ->
         [path \in {q \in Root : disk[q] = Template} |-> Absent]
    [] OTHER                  -> r.plan

Check ==
  /\ step = "check"
  /\ Admits(request[holder])
  /\ DOMAIN Planned(request[holder]) # {}
  /\ plan' = Planned(request[holder])
  /\ step' = "save"
  /\ UNCHANGED <<disk, backups, request, holder, applied, edits, meddled>>

\* Refused, for these checks or for one on its content or on the task's
\* revision; or nothing is left to do.
CheckEnds ==
  /\ step = "check"
  /\ Leave
  /\ UNCHANGED <<disk, backups, edits, meddled>>

-----------------------------------------------------------------------------

\* Mutant: only files that exist are put in the backup.
SaveExisting ==
  /\ step = "save"
  /\ Len(backups) < MaxBackups
  /\ backups' = Append(backups,
       [action |-> request[holder].action,
        changes |-> [path \in {q \in DOMAIN plan : disk[q] # Absent} |->
                       [old |-> disk[path], written |-> plan[path]]]])
  /\ step' = "apply"
  /\ meddled' = [meddled EXCEPT !.saved = {}]
  /\ UNCHANGED <<disk, request, holder, plan, applied, edits>>

\* Mutant: the backup keeps the bytes the caller had read.
SaveBase ==
  /\ step = "save"
  /\ Len(backups) < MaxBackups
  /\ backups' = Append(backups,
       [action |-> request[holder].action,
        changes |-> [path \in DOMAIN plan |->
          [old |-> IF request[holder].action \in {"maintain", "promote", "identity"}
                     THEN request[holder].base[path] ELSE disk[path],
           written |-> plan[path]]]])
  /\ step' = "apply"
  /\ meddled' = [meddled EXCEPT !.saved = {}]
  /\ UNCHANGED <<disk, request, holder, plan, applied, edits>>

\* The backup is on disk before the first write.
Save ==
  /\ step = "save"
  /\ Len(backups) < MaxBackups
  /\ backups' = Append(backups,
       [action |-> request[holder].action,
        changes |-> [path \in DOMAIN plan |->
                       [old |-> disk[path], written |-> plan[path]]]])
  /\ step' = "apply"
  /\ meddled' = [meddled EXCEPT !.saved = {}]
  /\ UNCHANGED <<disk, request, holder, plan, applied, edits>>

Unapplied == DOMAIN plan \ Range(applied)

\* Mutant: document-maintain writes its INDEX file first.
NextPathsIndexFirst ==
  LET early(path) == path \in Index /\ plan[path] # Absent
  IN  {path \in Unapplied :
         ~early(path) => \A q \in Unapplied : ~early(q) /\
           (plan[path] = Absent => plan[q] = Absent)}

\* Deletes follow the writes, and the INDEX file of a mutation follows its
\* documents.  A rollback writes in the order of the paths' names.
Rank(path) ==
  IF plan[path] = Absent THEN 2
  ELSE IF path \in Index /\ request[holder].action # "rollback" THEN 1 ELSE 0

NextPaths == {path \in Unapplied : \A q \in Unapplied : Rank(path) <= Rank(q)}

\* A write replaces whatever is there; unlink needs a file.
Possible(path) == plan[path] = Absent => disk[path] # Absent

Apply ==
  /\ step = "apply"
  /\ \E path \in NextPaths :
       /\ Possible(path)
       /\ disk' = [disk EXCEPT ![path] = plan[path]]
       /\ applied' = Append(applied, path)
  /\ UNCHANGED <<backups, request, holder, step, plan, edits, meddled>>

\* An interrupt between the write of a path and noting it.
ApplyUnnoted ==
  /\ step = "apply"
  /\ \E path \in NextPaths :
       /\ Possible(path)
       /\ disk' = [disk EXCEPT ![path] = plan[path]]
       /\ meddled' = [meddled EXCEPT !.unnoted = {path}]
  /\ step' = "undo"
  /\ UNCHANGED <<backups, request, holder, plan, applied, edits>>

\* A write or an unlink raises and leaves its path alone.
ApplyFails ==
  /\ step = "apply"
  /\ Unapplied # {}
  /\ step' = "undo"
  /\ UNCHANGED <<disk, backups, request, holder, plan, applied, edits, meddled>>

ApplyDone ==
  /\ step = "apply"
  /\ Unapplied = {}
  /\ Leave
  /\ UNCHANGED <<disk, backups, edits, meddled>>

\* Mutant: the undo leaves in place the files the mutation created.
UndoExisting ==
  /\ step = "undo"
  /\ applied # <<>>
  /\ LET path == Last(applied)
         change == Last(backups).changes[path]
     IN  disk' = IF disk[path] = change.written /\ change.old # Absent
                   THEN [disk EXCEPT ![path] = change.old] ELSE disk
  /\ applied' = Front(applied)
  /\ UNCHANGED <<backups, request, holder, step, plan, edits, meddled>>

\* The last noted path gets its old bytes back, unless it no longer holds
\* what was written there, which is reported as a conflict.
Undo ==
  /\ step = "undo"
  /\ applied # <<>>
  /\ LET path == Last(applied)
         change == Last(backups).changes[path]
     IN  disk' = IF disk[path] = change.written
                   THEN [disk EXCEPT ![path] = change.old] ELSE disk
  /\ applied' = Front(applied)
  /\ UNCHANGED <<backups, request, holder, step, plan, edits, meddled>>

UndoDone ==
  /\ step = "undo"
  /\ applied = <<>>
  /\ Leave
  /\ UNCHANGED <<disk, backups, edits, meddled>>

\* Saving the backup raises, undoing raises, or the process is killed.
Die ==
  /\ holder # None
  /\ Leave
  /\ UNCHANGED <<disk, backups, edits, meddled>>

\* Someone edits, creates or deletes a file, whatever Core is doing.
Edit ==
  /\ edits < MaxEdits
  /\ edits' = edits + 1
  /\ \E path \in Path, c \in Bytes :
       /\ c # disk[path]
       /\ disk' = [disk EXCEPT ![path] = c]
       /\ meddled' = [meddled EXCEPT !.checked = @ \cup {path},
                                     !.saved = @ \cup {path}]
  /\ UNCHANGED <<backups, request, holder, step, plan, applied>>

Next ==
  \/ \E p \in Process : Submit(p) \/ SubmitRollback(p) \/ SubmitSetup(p) \/ Take(p)
  \/ Check \/ CheckEnds \/ Save
  \/ Apply \/ ApplyUnnoted \/ ApplyFails \/ ApplyDone
  \/ Undo \/ UndoDone \/ Die
  \/ Edit

Spec == Init /\ [][Next]_vars
-----------------------------------------------------------------------------

Noted == Last(backups).changes

\* A mutation that was killed, or whose undo failed, can still be taken back:
\* until the next mutation saves a backup, every path of the newest backup
\* holds its old or its new bytes, so rollback does not refuse it, unless
\* someone edited that path since the backup was saved.
NewestBackupApplies ==
  backups # <<>> => Guarded(Last(backups)) \subseteq meddled.saved

\* task-promote and document-maintain leave no link of the INDEX file they
\* write without its target, at any point where they may be killed, fail or
\* be undone: new documents are on disk before the INDEX file that links them,
\* and deleted ones are there until it no longer does.  A link may miss its
\* target where it already did in the bytes that were replaced, where either
\* file was edited meanwhile, and where an interrupt hit a delete before it
\* was noted.
LinksLead ==
  step \in {"apply", "undo"} /\ request[holder].action \in {"promote", "maintain"} =>
    \A path \in DOMAIN plan \cap Index :
      disk[path] # Absent =>
        \A target \in Links[disk[path]] :
          \/ disk[target] # Absent
          \/ {path, target} \cap (meddled.checked \cup meddled.unnoted) # {}
          \/ /\ disk[path] = Noted[path].old
             /\ target \in DOMAIN Noted => Noted[target].old = Absent

\* No mutation destroys bytes that are not kept: whatever a write or a delete
\* replaces is in the mutation's backup, an edit made between the check and
\* the backup included.  Only an edit made after the backup is lost.
ReplacedIsKept ==
  [][\A path \in Path :
       step = "apply" /\ edits' = edits /\ disk'[path] # disk[path]
         => \/ path \in DOMAIN Noted /\ Noted[path].old = disk[path]
            \/ path \in meddled.saved]_vars

\* The bytes a mutation may replace: those its caller read, none for a
\* promoted or a generated file, and those the backup says were written.
MayReplace(r, path) ==
  CASE r.action = "maintain"  -> {r.base[path]}
    [] r.action = "promote"   -> IF path \in Index THEN {r.base[path]} ELSE {Absent}
    [] r.action = "identity"  -> Bytes
    [] r.action = "init"      -> {Absent}
    [] r.action = "uninstall" -> {Template}
    [] r.action = "rollback"  -> {backups[r.backup].changes[path].written}

\* Mutations and rollbacks of several callers, queueing for the lock, never
\* replace bytes their own caller did not mean: other mutations in between
\* make them refuse.  Only an edit made while they run can be replaced.
ReplacesWhatItMeant ==
  [][\A path \in Path :
       step = "apply" /\ edits' = edits /\ disk'[path] # disk[path]
         => \/ disk[path] \in MayReplace(request[holder], path)
            \/ path \in meddled.checked]_vars

\* A mutation that fails and is undone to the end leaves every path as its
\* backup found it, but for a path edited since and the path an interrupt
\* kept from being noted.
FailureRestores ==
  [][step = "undo" /\ applied = <<>> /\ disk' = disk
       => \A path \in DOMAIN Noted \ (meddled.saved \cup meddled.unnoted) :
            disk[path] = Noted[path].old]_vars

\* A rollback is all or nothing: one that ends well leaves every path of its
\* backup, those it did not need to touch included, with the bytes recorded as
\* old, unless the path was edited while the rollback ran.
RollbackRestores ==
  [][step = "apply" /\ Unapplied = {} /\ step' = "free"
       /\ request[holder].action = "rollback"
       => LET changes == backups[request[holder].backup].changes
          IN  \A path \in DOMAIN changes \ meddled.checked :
                disk[path] = changes[path].old]_vars

\* The identity's files are never replayed backwards by a rollback: outside
\* the identity's own commands Core leaves them alone.
HistoryIsNotReplayed ==
  [][\A path \in History :
       edits' = edits /\ disk'[path] # disk[path]
         => request[holder].action = "identity"]_vars
=============================================================================
