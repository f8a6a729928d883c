--------------------------- MODULE IdentityBasis ---------------------------
(***************************************************************************)
(* Basis notes of one project, kept on one machine outside the repository: *)
(* notes and their retractions, which are never rewritten, and the number  *)
(* of the last note an offer was shown for.  All worktrees of the project  *)
(* share them; each worktree has an identity of its own.                   *)
(*                                                                         *)
(* A command first looks at the identity and then runs under the project's *)
(* lock, which is not the repository's.  A file is created by a hard link  *)
(* or, where there are none, by opening it exclusively and then writing    *)
(* it; cut short, that leaves a damaged file.                              *)
(*                                                                         *)
(* A note is the version it was made under.                                *)
(***************************************************************************)
EXTENDS Naturals, FiniteSets, FiniteSetsExt

CONSTANTS
  Process,
  Worktree,
  Of,           \* the worktree of each process
  None,
  Absent,
  Damaged,
  MaxNote,      \* MAX_NOTE_NUMBER
  MaxVersion,   \* bound: versions of an identity
  MaxChanges,   \* bound: changes of identities
  MaxEdits      \* bound: files deleted or damaged by hand

ASSUME OfAssumption == Of \in [Process -> Worktree]
ASSUME BoundsAssumption ==
  {MaxNote, MaxVersion, MaxChanges, MaxEdits} \subseteq Nat
ASSUME MarksAssumption ==
  /\ {Absent, Damaged} \cap (Nat \cup {"retracted"}) = {} /\ Absent # Damaged
  /\ None \notin Process

Number == 1 .. MaxNote

\* The identity as _load reports it: settled is ABSENT or CURRENT; otherwise it
\* was changed by hand, or is INVALID and then has version 0.
Identity == [version : 0 .. MaxVersion, settled : BOOLEAN]

Job == [op : {"note", "offer"}, version : 0 .. MaxVersion]
  \cup [op : {"retract"}, note : Number]

ASSUME NoneAssumption == None \notin Job

VARIABLES
  notes,        \* N-000k.json: the version it was made under, or no such file
  retractions,  \* N-000k.retraction.json: whole, damaged or no such file
  lastShown,    \* offer-state.json; 0 if there is none
  identity,     \* of each worktree
  lock,         \* process holding the project's lock, or None
  job,          \* what each process runs, or None
  pc,           \* where it is in it
  target,       \* the number of the note it creates, retracts or shows
  changes, edits,
  shown,        \* history: the numbers lines were returned for
  forgotten     \* history: offer-state.json was deleted by hand

files == <<notes, retractions, lastShown>>
world == <<identity, changes, edits, forgotten>>
vars == <<files, lock, job, pc, target, shown, world>>

TypeOK ==
  /\ notes \in [Number -> 0 .. MaxVersion \cup {Absent, Damaged}]
  /\ retractions \in [Number -> {"retracted", Absent, Damaged}]
  /\ lastShown \in 0 .. MaxNote \cup {Damaged}
  /\ identity \in [Worktree -> Identity]
  /\ lock \in {None} \cup {p \in Process : job[p] # None}
  /\ job \in [Process -> Job \cup {None}]
  /\ pc \in [Process -> {"idle", "asked", "locked", "create", "open", "shown"}]
  /\ target \in [Process -> 0 .. MaxNote]
  /\ \A p \in Process : pc[p] \in {"locked", "create", "open"} => lock = p
  /\ changes \in 0 .. MaxChanges /\ edits \in 0 .. MaxEdits
  /\ shown \subseteq Number
  /\ forgotten \in BOOLEAN

Init ==
  /\ notes = [n \in Number |-> Absent]
  /\ retractions = [n \in Number |-> Absent]
  /\ lastShown = 0
  /\ identity = [w \in Worktree |-> [version |-> 0, settled |-> TRUE]]
  /\ lock = None
  /\ job = [p \in Process |-> None]
  /\ pc = [p \in Process |-> "idle"]
  /\ target = [p \in Process |-> 0]
  /\ changes = 0
  /\ edits = 0
  /\ shown = {}
  /\ forgotten = FALSE

-----------------------------------------------------------------------------
(* _load_basis *)

Readable == {n \in Number : notes[n] \in Nat}

\* Mutant: only notes that can be read count.
HighestReadable == Max(Readable \cup {0})

\* Every file counts, damaged ones and retractions without a note included.
Highest ==
  Max({n \in Number : notes[n] # Absent \/ retractions[n] # Absent} \cup {0})

\* A retraction that cannot be read counts as one.
Pending(version) ==
  {n \in Readable : retractions[n] = Absent /\ notes[n] >= version}

-----------------------------------------------------------------------------

Goto(p, step) == pc' = [pc EXCEPT ![p] = step]

\* The identity is read before the lock; so is, for an offer, the preference,
\* which may prevent any of them.
AskNote(p) ==
  /\ pc[p] = "idle"
  /\ \/ job' = [job EXCEPT ![p] =
          [op |-> "note", version |-> identity[Of[p]].version]]
     \/ \E n \in Number : job' = [job EXCEPT ![p] =
          [op |-> "retract", note |-> n]]
  /\ Goto(p, "asked")
  /\ UNCHANGED <<files, lock, target, shown, world>>

AskOffer(p) ==
  /\ pc[p] = "idle"
  /\ identity[Of[p]].settled
  /\ job' = [job EXCEPT ![p] =
       [op |-> "offer", version |-> identity[Of[p]].version]]
  /\ Goto(p, "asked")
  /\ UNCHANGED <<files, lock, target, shown, world>>

Take(p) ==
  /\ pc[p] = "asked" /\ lock = None
  /\ lock' = p
  /\ Goto(p, "locked")
  /\ UNCHANGED <<files, job, target, shown, world>>

\* The command ends, by return, by an exception or by being killed.
End(p) ==
  /\ job' = [job EXCEPT ![p] = None]
  /\ target' = [target EXCEPT ![p] = 0]
  /\ lock' = IF lock = p THEN None ELSE lock
  /\ Goto(p, "idle")

ChooseNote(p) ==
  /\ pc[p] = "locked" /\ job[p].op = "note"
  /\ Highest < MaxNote
  /\ target' = [target EXCEPT ![p] = Highest + 1]
  /\ Goto(p, "create")
  /\ UNCHANGED <<files, lock, job, shown, world>>

\* The note can be read, and so far no retraction of it can.
ChooseRetraction(p) ==
  /\ pc[p] = "locked" /\ job[p].op = "retract"
  /\ job[p].note \in Readable
  /\ retractions[job[p].note] # "retracted"
  /\ target' = [target EXCEPT ![p] = job[p].note]
  /\ Goto(p, "create")
  /\ UNCHANGED <<files, lock, job, shown, world>>

Free(p) ==
  IF job[p].op = "note" THEN notes[target[p]] = Absent
    ELSE retractions[target[p]] = Absent

\* The file a process creates gets a content.
Put(p, whole) ==
  IF job[p].op = "note"
    THEN /\ notes' = [notes EXCEPT
              ![target[p]] = IF whole THEN job[p].version ELSE Damaged]
         /\ UNCHANGED <<retractions, lastShown>>
    ELSE /\ retractions' = [retractions EXCEPT
              ![target[p]] = IF whole THEN "retracted" ELSE Damaged]
         /\ UNCHANGED <<notes, lastShown>>

Link(p) ==
  /\ pc[p] = "create" /\ Free(p)
  /\ Put(p, TRUE)
  /\ End(p)
  /\ UNCHANGED <<shown, world>>

\* Without hard links: O_EXCL ...
Open(p) ==
  /\ pc[p] = "create" /\ Free(p)
  /\ Put(p, FALSE)
  /\ Goto(p, "open")
  /\ UNCHANGED <<lock, job, target, shown, world>>

\* ... and the content.
Fill(p) ==
  /\ pc[p] = "open"
  /\ Put(p, TRUE)
  /\ End(p)
  /\ UNCHANGED <<shown, world>>

Remove(p) ==
  /\ IF job[p].op = "note"
       THEN /\ notes' = [notes EXCEPT ![target[p]] = Absent]
            /\ UNCHANGED retractions
       ELSE /\ retractions' = [retractions EXCEPT ![target[p]] = Absent]
            /\ UNCHANGED notes
  /\ UNCHANGED lastShown

\* An exception while it is written removes the file.
FillFails(p) ==
  /\ pc[p] = "open"
  /\ Remove(p)
  /\ End(p)
  /\ UNCHANGED <<shown, world>>

\* Mutant: what was shown last is compared by its own number only.
ShowAgain(p) ==
  /\ pc[p] = "locked" /\ job[p].op = "offer"
  /\ Pending(job[p].version) # {}
  /\ lastShown # Damaged /\ Max(Pending(job[p].version)) # lastShown
  /\ lastShown' = Max(Pending(job[p].version))
  /\ target' = [target EXCEPT ![p] = lastShown']
  /\ lock' = None
  /\ Goto(p, "shown")
  /\ UNCHANGED <<notes, retractions, job, shown, world>>

\* The highest pending note is recorded as shown, unless one as high was.
Show(p) ==
  /\ pc[p] = "locked" /\ job[p].op = "offer"
  /\ Pending(job[p].version) # {}
  /\ lastShown # Damaged /\ Max(Pending(job[p].version)) > lastShown
  /\ lastShown' = Max(Pending(job[p].version))
  /\ target' = [target EXCEPT ![p] = lastShown']
  /\ lock' = None
  /\ Goto(p, "shown")
  /\ UNCHANGED <<notes, retractions, job, shown, world>>

\* The line is returned, after the lock was released.
Return(p) ==
  /\ pc[p] = "shown"
  /\ shown' = shown \cup {target[p]}
  /\ End(p)
  /\ UNCHANGED <<files, world>>

\* Mutant: a file that could not be created is removed, whoever created it.
StopRemoving(p) ==
  /\ pc[p] # "idle"
  /\ IF pc[p] = "create" THEN Remove(p) ELSE UNCHANGED files
  /\ End(p)
  /\ UNCHANGED <<shown, world>>

\* A refusal, an exception before a file is opened, or a kill: the command
\* stops where it is, between opening a file and filling it too.
Stop(p) ==
  /\ pc[p] # "idle"
  /\ End(p)
  /\ UNCHANGED <<files, shown, world>>

-----------------------------------------------------------------------------

\* Amendments, checkouts and edits change the identity of a worktree.
IdentityChanges ==
  /\ changes < MaxChanges
  /\ changes' = changes + 1
  /\ \E w \in Worktree, i \in Identity : identity' = [identity EXCEPT ![w] = i]
  /\ UNCHANGED <<files, lock, job, pc, target, shown, edits, forgotten>>

\* Someone deletes or damages a file by hand.
Edit ==
  /\ edits < MaxEdits
  /\ edits' = edits + 1
  /\ \E c \in {Absent, Damaged} :
       \/ \E n \in Number :
            /\ notes[n] # Absent
            /\ notes' = [notes EXCEPT ![n] = c]
            /\ UNCHANGED <<retractions, lastShown, forgotten>>
       \/ \E n \in Number :
            /\ retractions[n] # Absent
            /\ retractions' = [retractions EXCEPT ![n] = c]
            /\ UNCHANGED <<notes, lastShown, forgotten>>
       \/ /\ lastShown # 0
          /\ lastShown' = IF c = Absent THEN 0 ELSE Damaged
          /\ forgotten' = (forgotten \/ c = Absent)
          /\ UNCHANGED <<notes, retractions>>
  /\ UNCHANGED <<lock, job, pc, target, shown, identity, changes>>

Next ==
  \/ \E p \in Process :
       \/ AskNote(p) \/ AskOffer(p) \/ Take(p)
       \/ ChooseNote(p) \/ ChooseRetraction(p)
       \/ Link(p) \/ Open(p) \/ Fill(p) \/ FillFails(p)
       \/ Show(p) \/ Return(p)
       \/ Stop(p)
  \/ IdentityChanges \/ Edit

Spec == Init /\ [][Next]_vars

-----------------------------------------------------------------------------

\* Each new piece of user basis surfaces at most once across all sessions,
\* closes and worktrees: no two lines are returned for one note, whatever the
\* order in which sessions record and return, and whatever crashes, versions
\* and deleted notes lie in between; only if the record of it was deleted.
OfferedAtMostOnce ==
  [][\A p \in Process :
       pc[p] = "shown" /\ shown' # shown =>
         forgotten \/ target[p] \notin shown]_vars

\* The id of a new note is a fresh one: no damaged file left by a crash makes
\* the command fail, and no retraction of an earlier note makes the new one
\* withdrawn from the start.
NewIdIsFresh ==
  \A p \in Process :
    pc[p] = "create" /\ job[p].op = "note" =>
      notes[target[p]] = Absent /\ retractions[target[p]] = Absent

\* A note that has been withdrawn, or overtaken by an amendment, is never
\* pending again for the same version, even where its retraction was cut short
\* and tried again; unless creating the retraction failed, or someone deleted
\* it.
WithdrawnStaysWithdrawn ==
  [][\A n \in Readable, v \in 0 .. MaxVersion :
       /\ n \notin Pending(v) /\ edits' = edits
       /\ ~ \E p \in Process : FillFails(p) /\ target[p] = n
       => n \notin Pending(v)']_vars
=============================================================================
