# Thaliris Core in TLA+

Thaliris Core is a small Python program (`src/src/thaliris/`) that coding
Agents and their Controllers call to keep *durable* project state in files of a
repository: one ledger per task, Markdown project memory, an amendable project
identity, and, outside the repository, an authority anchor per task.  There is
no daemon.  Every call is a process of its own; calls of several Agents
interleave, fail, are interrupted and are killed, and people and git edit the
same files without telling Core.  This directory models that state, checks it
with TLC and proves part of it with TLAPS.

Contents: 1 system and components, 2 how components interact, 3 hazards,
4 modules and their correspondence to the code, 5 runs, bounds and what they
show, 6 fairness, 7 proofs, 8 divergences found, 9 limits, 10 plan.

## 1. Components

| component | code | state | operations | what makes it correct |
|---|---|---|---|---|
| Task ledger | `core.py` 739-1290, 1635-2052 | `.context/tasks/<id>/state.json`: eight append-only lists (sources, records, artifacts, results, requirements, handoffs, observations, judgments), a routing value, `revision`, `status` | task-start, task-update, task-evidence-register, task-observe, task-judge, task-artifact, task-record-verification, task-close; task-get/-show/-status read | every content is one the loader accepts; history only grows; a revision names one content; delegation never widens; a full ledger can still be closed |
| Open evidence and its paging | `core.py` 1484-1580, 1855-1932 | none: derived from the ledger on every reply; readers keep the offset of the next page | `_continuity_open`, `evidence_summary`, the page of the full task-status view | a repair or unknown judgment is re-presented until it is answered; an observation is pending for each of its requirements until judged for it; paging shows all that stays open |
| Repository lock, atomic replacement | `core.py` 167-215, 995-1030, 1635-1717 | `.context/context.lock`, temporary files | `_lock`, `_load_state`, `_atomic_write` | no acknowledged write is lost; compare-and-set; no command waits for ever |
| Durable files, backups, rollback | `core.py` 217-253, 341-366, 2055-2275 | documents and INDEX files, `.context/backups/*.json` | `_apply_with_backup` (document-maintain, task-promote, init, task-start, uninstall, identity commands), rollback | what is replaced is kept; a failed mutation is undone; a killed one can be rolled back; nobody's newer bytes are replaced; a written INDEX file's links have their targets at every moment |
| Installation | `core.py` 50-66, 283-333, 369-408 | `.gitignore` block, template files, private files | init, uninstall | init completes whatever was left; user content survives |
| Task authority | `authority.py` | the anchor file and a recovery archive, outside the repository | establish, check, checkpoint, switch_mode, recover | the anchor can be restored, follows the ledger and stays retired |
| Project identity | `identity.py` | `.project-identity/`: `IDENTITY.md`, `ledger.json`, `versions/`, `amendments/`, `challenges/`, `relations/` | identity-amend, identity-challenge (open, dismiss), identity-relate; status/get/trace read | recorded history is never overwritten; the chain stays readable after any crash; resolutions are final; an edge has one active relation, and keeps it while it is re-registered |
| Identity basis | `identity_basis.py` | immutable notes and their retractions, the last note an offer was shown for, preferences, all under `THALIRIS_HOME` | identity-note, identity-suggest, identity-offer | a note id is never reused; an offer is made at most once per note; a note is pending for the version it was made under |
| Project memory retrieval | `core.py` 2288-2427, `markdown.py` | none | durable_index_check, milestone_check, catalog; index, document-get | the INDEX check ends, reads every reachable INDEX file once and reports what is wrong with it |
| Worktree observation | `core.py` | none | stale, surface, candidate | bounded, read-only answers |
| Command line | `cli.py`, `errors.py`, `models.py` | none | argument parsing, JSON envelopes | - |

`PROJECT.json` lists the same components with their status.

## 2. How they interact

* **One lock.**  Every command of Core that writes in the repository runs
  inside `with _lock(root)`, an exclusive `flock` on one file, without a
  timeout.  The operating system drops it when its process dies.  (The identity
  basis, outside the repository, has a lock of its own.)
* **Files are the only shared state.**  One file is replaced atomically
  (`_atomic_write`: temporary file, fsync, `os.replace`); several are written
  one after the other.  Readers take no lock.
* **Compare-and-set.**  Callers pass the `revision` they know; task-observe,
  made for child Agents, does not.  Identity amendments also name the version
  and the `IDENTITY.md` they replace.
* **Callbacks.**  `_append_continuity` takes a function that computes the new
  ledger from the one loaded under the lock; recover takes the adapter's own
  `restore`.
* **The anchor is outside.**  Adapters wrap a ledger command between
  `store.check()` and `store.checkpoint()`.  Neither takes the lock unless the
  adapter owns a locked transaction.

## 3. What is hard

`PROJECT.json` lists each hazard at its line with the properties that would
catch it.  They fall into five groups: interleavings under compare-and-set
(lost updates, a revision that names two contents); reads without the lock
(ledger replies, the pages of open evidence, the INDEX check, the identity's
load, checkpoint); several writes cut short by
a failure, an interrupt *between a write and its note*, or a kill; stale
decisions (rollback of an old backup, a mode decision on a replaced anchor, an
amendment of an edited text); and long sequences of legal calls that hide bad
news, widen delegation or reach a content the loader refuses.

## 4. Modules

```
Ledger            contents, validation, what each command makes of a content
  Evidence        open evidence of a content
    TaskLedger    ABSTRACT: one variable, one action per command
      EvidencePages   a reader of the pages, beside the commands
    LockedTask    processes, lock, load / check / stage / replace, crashes;
                  refines TaskLedger (INSTANCE ... WITH ledger <- file)
DurableWrites     several files, backup, undo, rollback, links
  IndexCheck      the unlocked INDEX check, beside those mutations
Installation      init and uninstall
Authority         anchor, checkpoint, switch_mode, recover
Identity          amendments, challenges, unlocked loads
Relations         relations of the identity, write by write
IdentityBasis     notes, retractions, offers
TaskLedgerProofs (EvidencePages too), LockedTaskProofs,
DurableWritesProofs (IndexCheck too), InstallationProofs, AuthorityProofs,
IdentityProofs, RelationsProofs, IdentityBasisProofs   theorems
MC*               instances for TLC
```

Definitions named "... Mutant" in a comment are deliberate faults of the
operator they stand before; no specification uses them.  They are how we know
that each property can fail.

**Ledger** has no variables.  `Valid` is `_validate_state`; `Admits(s, c, base)`
is load, status check, `check_revision` and the validation of the result;
`Updated`, `Registered`, `Observed`, `Judged`, `ArtifactRegistered`,
`VerificationRecorded`, `Closed` are what each command computes.  Ids stay in
one namespace, as in the code; texts, digests and timestamps are left out, as
no command branches on them.  `Size` keeps the two things that decide whether a
ledger still fits: its objects and the number of digits of the revision.
`work` stands for the three fields task-update replaces as a whole.

**Evidence** is `_continuity_open`: pending edges and unresolved judgments.  The
latest judgments it also returns decide nothing and are left out.

**EvidencePages** puts a reader beside the commands of TaskLedger.  `Open` is
the set of entries and `Precedes` the order in which `evidence_summary` lists
them (of an observation's requirements, which are a set here, some fixed order);
an entry's `Position` counts those up to it.  `FirstPage` and `NextPage` are two
replies, each one consistent read of the ledger file, and only `next_offset`
connects them.  A page holds any number of entries but none only when nothing is
left: labels have at most 64 characters, so that the first entry of a page
always fits its byte budget, in the full view as well.  `shown`, `kept` and
`answered` are histories of the pass.

**TaskLedger** is what the component promises: a valid ledger, one accepted
command per step.  A refused command is not a step.

**LockedTask** cuts a command where another process can get in between:
`Acquire`, `Load`, `Refuse` or `Stage`, `Replace`, `Acknowledge`, with `Fail` (an
exception before `os.replace`) and `Crash` anywhere.  `Read` is task-show,
task-get and task-status.  `told` is what a process was told of the revision; a
refusal tells it only where the code does (a revision conflict).  `seen` and
`kept` are history variables.

**DurableWrites** is `_apply_with_backup` path by path: `Check`, `Save` (the
backup, before the first write), `Apply`, `ApplyUnnoted` (an interrupt between
lines 231 and 232), `ApplyFails`, `Undo`, `Die`, and `rollback`.  Each mutation
that goes through it is a request with its own admission rule; document-maintain
and task-promote decide on bytes they read before the lock.  Each content has
the links its Markdown holds; `LinksChecked` is the check of the links of what
the mutation writes (document-maintain: every file; task-promote: its INDEX
file), and `Rank` the order of the writes: documents, INDEX file, deletes.  Parsing
and size checks may refuse any request (`CheckEnds`).  `Edit` is everyone who does
not take the lock.

**IndexCheck** is the walk of `durable_index_check` over INDEX files, one iteration
of its loop a step (`VisitMissing`, `VisitAgain`, `Visit`), while the mutations and
the editor of DurableWrites change the files.  milestone_check is the walk from one
root.  Directory links, links out of the memory and symlinks are left out.

**Installation** treats one locked run of init or uninstall as a step of which
any part of the writes may land.

**Authority** has one action per read and write of `checkpoint`, `switch_mode`
and `recover`, because those reads are not protected by a lock.  `write` and
`on` identify ledger contents where a revision number no longer does.  A
digest is the bytes, and the contract is its execution mode.

**Identity** models the files of the project identity except relations.
`AmendWrites` is the order of the writes (snapshot, `IDENTITY.md`, record,
ledger, mirrors); `ChainInvalid` and `SideInvalid` are the two scopes of INVALID
that `_load` reports; `ReadNames`, `ReadLedger`, `ReadVersion`, `ReadSide` are the
same load without the lock.  The load, the checks and the backup are one step
here (`Begin`): they run under the lock, and DurableWrites splits them.

**Relations** models the other part of that directory: a file per relation and
per retraction.  One request adds and retracts under the lock (`Begin` or `Refuse`),
its `Writes` are all additions and then all retractions, and `Apply`,
`ApplyUnnoted`, `ApplyFails`, `Undo` and `Die` are `_apply_with_backup` again, without the
backup: `rollback` refuses those of the identity.  `SideInvalid` is the loader's
view of what is left.  Endpoints, versions and reasons are checks on the
input alone and are left out.

**IdentityBasis** has the notes, the retractions and `offer-state.json` of one
project, shared by all its worktrees under a lock of their own, while the
identity of each worktree changes (Identity says how; here it just changes).
The identity is read before the lock is taken (`AskNote`, `AskOffer`), the files
under it.  `Link`, or `Open` and `Fill`, is `_write_json_new`; a `Stop` between
the last two leaves a damaged file.  `Show` records an offer, `Return` gives it to
the user.  A note is reduced to the identity version it carries.  Whether a
preference turns offers off is left open at `AskOffer`.

## 5. Runs

| run | instance | what it shows |
|---|---|---|
| `ledger` (107 k states) | three plans of commands over one ledger: 3 handoffs in a chain, 2 observations and 3 judgments that answer each other in every way; every kind of object, ids that clash, a ledger at its byte and entry bounds; and a reader of the pages while 3 observations and 3 judgments arrive | `TypeOK` (each content is one the loader accepts); bad news stays until answered (`BadNewsNeedsAnAnswer`, `NoBadNewsWithoutGoodNews`), `PendingNeedsAJudgment`, `ScopeNeverWidens`; `FullLedgerStillCloses`; `NothingOpenIsSkipped`, `OpenIsPresented` |
| `race` (85 k) | two Controllers and a child Agent: a registration, an observation, a repair judgment and a close, retried in any order over failures and crashes, under fair scheduling | `NoLostUpdate`, `RevisionNamesContent`, `StrictCAS`, refinement of `TaskLedger`, and `EveryCommandEnds` |
| `durable` (6 M) | two scenes: two callers, a document, the INDEX that links it, an identity file, two backups, one edit; and a check of INDEX files that link each other, beside one maintenance and one edit | `NewestBackupApplies`, `LinksLead`, `ReplacedIsKept`, `ReplacesWhatItMeant`, `FailureRestores`, `RollbackRestores`, `HistoryIsNotReplayed`; `CheckIsExact` |
| `install` (2 k) | two processes and an unlimited user | `InitCompletes`, `UserContentSurvives` |
| `authority` (7.4 M) | a Controller running everything, a second process in locked transactions, one edit | `AnchorIsRestorable`, `RetiredStaysRetired`, `AnchorFollowsLedger`, `SwitchIsCurrent`, `RecoveryArchives` |
| `identity` (2.7 M) | two Controllers, up to three versions, two challenges, two mutations, one edit, one unlocked reader | `ChainStaysReadable`, `SideRecordsAgree`, `HistoryIsKept`, `ResolutionIsFinal`, `ReplacesWhatItNamed`, `ReadersAreNotAlarmed` |
| `relations` (233 k) | two Controllers, two edges, room for three relations, three requests of up to two additions and two retractions | `AtMostOneRelation`, `StaysWritable`, `EdgeStaysRegistered` |
| `basis` (1 M) | two sessions in two worktrees, two notes, one change of identity, one file deleted or damaged by hand | `NewIdIsFresh`, `OfferedAtMostOnce`, `WithdrawnStaysWithdrawn` |
| `markers`, `unlocked`, `stale`, `commit` | small | the four divergences of section 8 |

**Bounds and why they are enough.**
`StateMax`, `ArtifactMax`, `ResultMax` are the program's own limits made small,
so that they are reached; `Radix` 2 in `ledger` makes the revision gain
digits within the run, the close of a full ledger included (the code's radix is
10, and the proofs hold for any).  The three plans of `ledger` are apart because
each asks its own question: together they would only multiply.  There are
three judgments because a hidden judgment needs two others: one to answer it
and one to answer the answer.  Two callers suffice for a stale base, since a
third one looks like the second to it.  `MaxBackups` 2 gives a rollback of a
backup that is not the newest.  The scenes of `durable` are apart for the same
reason: INDEX files that link each other in cycles and through a broken one need
contents of their own, and nested INDEX files are made by hand only, as no
mutation creates one.  `MaxEdits` and `MaxTampers` 1 are there because
each property exempts the file edited, and a second edit only widens the
exemption.  `MaxWrites` 3 in `authority` allows a start, a command and another
command or a switch over a recovered ledger.  `MaxVersions` 3 is the code's
`MAX_VERSIONS`, reached because a run may start with `MaxStart` 2 versions
recorded; `MaxAsks` 2 is one interrupted mutation and what comes after it.
`MaxRelations` 3 leaves room for one re-registration of one of two edges, so
that the next one meets the limit; `MaxAsks` 3 is an edge registered, its
re-registration cut short, and what comes after it.
In `basis` two notes tell the highest from the highest that can be read, and one
change makes the two worktrees disagree about what is pending; the run also
passes with two changes, and with two edits.
Symmetry is declared over judgments, texts and processes only where no
definition chooses among them; `race`, which checks liveness, has none.

**What the exemptions mean.**  Several properties speak about what Core can
answer for: `meddled` (DurableWrites), `dirty` (Authority), `harm` (Identity) and
`forgotten` (IdentityBasis) are history variables that record exactly which file
was edited and when (`dirty`: while some process was between its check and the
end of its operation), or which interrupt fell at the one place Core cannot make good, and every property names
the narrow exception it takes.  In Identity a reader is followed as long as it
overlaps at most one commit and no undo, and a ledger set back by hand by exactly
one version makes the last version look like the remnant of an interrupted
amendment, which `HistoryIsKept` states as it is.  `LinksLead` speaks of the INDEX
file a mutation writes: document-maintain and task-promote check the links of what
they write only, so a document deleted without its INDEX file, a rollback and an
edit may leave a link without its target, which `CheckIsExact` then reports.  An
interrupt between a delete and its note is exempt too: the undo does not bring
that document back.

**What paging promises.**  Observations and judgments that are added move no
open entry to an earlier offset, but an answer to an entry on a page already read
moves all later ones back by one.  So a pass may skip as many entries as were
answered on the pages behind it (`NothingOpenIsSkipped` bounds them by that), and
a pass that starts again shows them (`OpenIsPresented`).  Each reply gives
the first page anew, and open evidence is re-presented before each judgment.

**What a kill leaves of a re-registered edge.**  Additions come first, so the edge
stays registered, twice: until the older relation is retracted by another
request, which the code admits.  Asking for the same re-registration again is
refused as a duplicate unless it retracts both.  `cut` records those edges and
`AtMostOneRelation` exempts them.

**Deadlock** is checked in every run except those whose cfg says otherwise:
a ledger that is DONE, or full, admits no command (`ledger`), and the requests
of `relations` are used up.

## 6. Fairness

Two runs assume any, for one property each.  In `race`, for `EveryCommandEnds`:
`WF(Step(p))`: a process that is not killed runs on.
`SF(Acquire(p))`: `flock` queues its waiters, so a process blocked in it is served
when the lock keeps being released.  Nothing forces a submission, a failure
or a crash.  The lock has no timeout, so these two are also what a user of
the program relies on.

In `ledger`, for `OpenIsPresented`: `Reading`, weak fairness of the reader's next page.
A reader that stops reading sees nothing; that open evidence is re-presented
before the Controller's next judgment is the documented part of the adapters
(`README.en.md`), and every ledger reply carries its first page.
No command is forced, and none needs to be held back: the limits on a ledger
leave room for finitely many of them, so some pass runs undisturbed.

## 7. Proofs

About 11700 obligations, for any processes, ids, commands, bounds and radix, and
any files, contents and links between them, and any edges, ids and batches.

*Assumptions*: the bounds are naturals, `Radix >= 2`, `None` is none of the
other values and an absent file has no content, commands are well formed
(`CommandsAssumption`); documents, INDEX
files and the identity's files are apart, contents link memory only, and init's
INDEX files are there at first; there are finitely many ids, and enough of them,
and finitely many INDEX files and challenges.  TLC evaluates them in each run.
Four theorems of AuthorityProofs have `SingleController` as a hypothesis: one
process, the Controller, runs what does not hold the lock throughout, and
recoveries, and the others work in locked transactions or switch the mode.  That
is how the documents have Core used and what the constants of `authority` are;
`unlocked` shows that without it retirement is not final.

* `TaskLedgerProofs`: `TypeCorrect`, `AppendOnly`, `BadNewsIsAnswered`,
  `PendingIsJudged`, `GoodNewsIsLast`, `ScopeOnlyNarrows`,
  `ClosingAlwaysFits`, `PagesMissNothing`.  Its lemmas say what each command
  makes of a typed ledger (typed again, every list extended, one more revision),
  and that `Extends` is a preorder under which ids stay.  `TypeOK` is inductive because `Admits`
  validates the result.  The action properties follow from what a step may
  append (`StepExtends`, `KeptJudgments`, `KeptObservations`).
  `NoBadNewsWithoutGoodNews` is proved for every typed ledger from `Valid` (a
  judgment names earlier ones of its own requirement only): the last bad
  judgment of a requirement is either open or answered by a later judgment,
  which is not bad because it would then be the last one.  `ScopeNeverWidens` is
  proved without following chains: `Ancestry` is the least set with an
  observation's handoff that is closed under parents, and the handoffs that
  include the observation's requirements are such a set.  `FullLedgerStillCloses`
  holds for any radix of at least 2: "DONE" is two bytes shorter than "ACTIVE", and
  a revision that grows by one gains one digit at most (`NextDigits`).
  `PagesMissNothing` is of the commands with a reader beside them, for pages of
  any size, and has an invariant of its own, `PassInv`: a pass has missed, of the
  entries at positions up to its offset, at most as many as were answered
  there, and none of those can be open again.  A page keeps it because it
  shows the positions it passes.  A command keeps it by counting: what was open
  keeps its order (`PrecedesIsAnOrder`, `OpenAfterStep`), so the entries that stay
  open before the offset precede those that move there, and the offset leaves
  those no more room than the answered ones gave up (`OnlyAnswersMakeRoom`).
* `LockedTaskProofs`: `LockCorrect`, `NothingLost`, `NumberIsContent`,
  `CompareAndSet`, `Implementation`.  The inductive invariant is `TypeOK` and
  `LockInv`, that is `HolderKnows(p)` for every process: it holds the lock
  exactly in the four steps between `Acquire` and `Leave`, its view is the file
  until it replaces it, what it staged is `After(view, command)`, and the file is
  what it staged once it has.  Mutual exclusion alone is not enough:
  `Replace` maps to an abstract step only because the view that `Stage` checked
  is still the file.  `NothingLost` and `NumberIsContent` then follow from
  `Extends(file, file')` at each `Replace`.  `Implementation` maps `Replace` to
  the abstract command and every other step to a stutter.  So the file has what
  `TaskLedgerProofs` proves of one atomic ledger: `FileIsSound` and
  `FileKeepsOpenEvidence` cite its theorems, by an instance of that module
  over `file`, and the lemmas about commands come from there as well.

* `DurableWritesProofs`: all properties that `durable` checks, seven of
  DurableWrites and one of IndexCheck: `KilledCanBeTakenBack`, `BytesAreKept`, `CallersMeanWhatTheyReplace`,
  `FailedIsUndone`, `RollbackIsWhole`, `HistoryIsLeftAlone`, `LinksNeverDangle`.
  None of them is inductive: they follow from `IInv`.  The newest backup
  names exactly the holder's paths and what it writes there (`Saved`); a path
  holds its new bytes when it is noted and its old ones when it is not, but for
  edits and the unnoted path (`Progress`), so an undo that reaches the first note
  has restored everything; paths are noted once and in the order of their ranks
  (`Ordered`), which an undo, as it takes back the last one, keeps, so the INDEX
  file's links lead or follow their documents at every point of both; and what
  `Check` decided under the lock stays true of the paths still to be written
  (`Meant`, `Linked`, `Restoring`).  `Apart` keeps identity files out of every
  backup that rollback admits.  One lemma for each kind of step shows that it
  keeps `IInv`; the theorems then look at one state or one step.
  `ChecksAreExact` is of the specification with a check beside all that, which
  implements the one without (`ChecksWriteNothing`).  Its invariant `CheckInv`
  says that each file linked by a file read is read, still to be read, or was
  changed since it was read (`Covering`), and that while nothing changes only
  reached files are read and what is reported is what is wrong with them
  (`Exact`).

* `RelationsProofs`: `NamespaceStaysWritable`, `NoDuplicateEdge`,
  `NeverUnregistered`, and `RelationsAreTyped`.  Its `IInv` tells the relations
  the holder adds from those that stand apart from them (`Standing`).  No write
  or removal of the holder's files changes what stands, so what `Admits` found
  stays true (`Admitted`): there is room for all it adds, and no standing relation
  of an added edge but those it retracts.  Without an unnoted write the disk
  has the files of the first `noted` writes and no others (`At`), and as the
  additions come first, a re-registered edge has its new relation, or its old one
  is not retracted yet.  Between requests an edge that was never cut has one
  relation (`Resting`).

* `AuthorityProofs`: `TypeCorrect` and `RecoveryLosesNothing` for any processes,
  from `Orderly`: who may be at which step, and what holds the lock there.
  `RecoveryIsPossible`, `RetirementIsFinal`, `NothingSlipsIn` and
  `StaleDecisionsFail` for one Controller, from `Undisturbed`.  Without edits under
  an operation (`~dirty`) at most one process is past its check (`Exclusive`),
  though the Controller holds no lock there; so the record it builds, read field
  by field, agrees with the files it was read from (`Knows`), the anchor it is
  about to replace is the one it read (`Current`), and the anchored ledger is
  still there or can be restored (`Restorable`).  A first attempt failed: an
  edit could slip in between the decision on an operation and its first read
  without being counted as `dirty`, and TLC confirmed it with one more write than
  the run has.  `dirty` now covers the whole operation.

* `IdentityProofs`: all six properties that `identity` checks, and `TypeCorrect`.
  They share a base: `Planned`, that what a mutation writes, and in which order,
  fits the chain it found; and `Written`, that the disk holds the first writes of
  it and not the others, but for edits and an unnoted write.  With it
  `ResolvedForGood` follows: every write of a mutation rests on a chain that lets
  it resolve what it resolves.  Each other theorem adds an invariant: `Named`, that
  `IDENTITY.md` is the one the caller named until it is replaced
  (`ReplacesNamedOnly`); `Sound`, that the versions of the chain have their
  files, also half way through a mutation or its undo (`ReadableChain`);
  `Reaches`, that a chain once founded keeps its first version
  (`CommittedIsKept`); `Siding`, that mirrors say what the chain says, or what
  the mutation is about to make it say (`MirrorsAgree`); and `Watching`, that
  what a reader saw of a version is still what is there (`ReadersSeeNoAlarm`).

* `IdentityBasisProofs`: `FreshIds`, `OfferedOnce`, `WithdrawnForGood`,
  `TypeCorrect`.  The lock keeps a free number free until its file is created
  (`Filling`).  Offers are returned after the lock was released, in any order:
  that no two have the same number rests on `Bounded`, that `lastShown` is at
  least every number shown or about to be returned, and that the latter differ
  from each other and from those shown.

* `InstallationProofs`: `InitIsComplete`, `UserContentIsKept`, `TypeCorrect`.
  Types are all the invariant there is: each command plans again from the files
  it finds, whatever an interrupted one left (`Landed`, `ManagedFile`,
  `StrippedFile`).

*Model-checked only*: `EveryCommandEnds` and `OpenIsPresented`, which are
liveness.  Every invariant and every action property of a passing run is a theorem.

## 8. Divergences between code and documents

1. `markers`: uninstall creates the lock file before it finds the markers of
   `.gitignore` damaged, which a comment says must not happen (`core.py:371`).
   For the same reason it never removes its block.
2. `unlocked`: two processes that follow the documented check / command /
   checkpoint sequence can leave an ACTIVE anchor over a DONE one
   (`authority.py:204-216`).
3. `stale`: recovery sets the ledger's revision back, and a write whose caller
   read another content of that number is then accepted (`authority.py:302`).
4. `commit`: an interrupt exactly between the replacement of the identity's
   ledger and the line that notes it makes the undo remove the files of the
   version just committed (`core.py:231-232`); the identity is then INVALID
   until a file is restored from the backup.

## 9. Limits

* One task; task selection only chooses which `state.json` a command addresses.
* `Authority` starts commands only once an anchor exists: establish runs before
  children are dispatched.  recover and switch_mode are not in LockedTask, whose
  theorems are about the ledger's own commands; recovery does set the revision
  back (`stale`).
* Limits on one field of a command (64 references, batch sizes, label formats)
  are abstracted: they refuse a command and change nothing.
* SHA-256 is injective.  fsync and `os.replace` are taken at their word: loss of
  power that reorders directory entries is not modelled.
* Windows' lock is the same as flock here.
* The pages of open evidence hold whole entries of unknown size; `changes_since`,
  a hint that promises no exactness, is left out.
* The identity's traces, dependents and reference resolution are single reads and
  left out.
* Not modelled: schema promotion (one value lifted in memory), worktree
  observation, document-get and the bounds of the answers (read-only, without
  state), the command line, the benchmarks.
* IdentityBasis: preferences are one open choice, session files are not pruned,
  and the limit on the number of notes is the limit on their ids.  A note can
  carry the version before an amendment that was made while it waited for the
  lock, and is then never offered; nothing documents that it should be.

## 10. Plan

Done, in this order: Ledger and TaskLedger; LockedTask and its refinement;
the proofs of both; DurableWrites; Installation; Authority; Identity;
IdentityBasis; Relations; EvidencePages; links and IndexCheck; the proofs of
DurableWrites, Relations, IdentityBasis, Authority, Identity, IndexCheck, of
the scope of delegation, of closing a full ledger, of EvidencePages and of
Installation.

Next, by importance:

1. *Composition*: DurableWrites as the abstract store of the files of Identity and
   Relations, with a refinement from their `Begin` / `Apply` / `Undo` to it; the
   recovery of Authority over LockedTask.
2. *Preferences* of IdentityBasis as files of their own, if they come to decide
   more than whether an offer is made.
