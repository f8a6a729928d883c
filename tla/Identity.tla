------------------------------ MODULE Identity ------------------------------
(***************************************************************************)
(* The project identity: IDENTITY.md, the chain of its recorded versions   *)
(* in ledger.json, the snapshot and the amendment record of each version,  *)
(* and the challenges with the mirrors of their resolutions.               *)
(*                                                                         *)
(* identity-amend and identity-challenge run under the repository lock:    *)
(* they load and check the namespace, and then write file after file by    *)
(* _apply_with_backup (DurableWrites), where an amendment's ledger is its  *)
(* commit point.  A failure undoes the noted writes, an interrupt may fall *)
(* between a write and its note, and a kill leaves what was written.       *)
(* Reads take no lock and see the files one after the other.               *)
(*                                                                         *)
(* A text stands for its canonical SHA-256.  An amendment record is what   *)
(* it resolves, with a stamp that tells two attempts apart.                *)
(***************************************************************************)
EXTENDS Naturals, Sequences, SequencesExt

CONSTANTS
  Text,         \* texts of an identity
  Challenge,    \* ids of challenges
  Process,      \* Controllers that mutate the identity
  Absent,       \* content of a path that names no file
  None,
  MaxVersions,  \* MAX_VERSIONS
  MaxStart,     \* bound: versions recorded before the first step
  MaxAsks,      \* bound: mutations asked for
  MaxEdits      \* bound: edits made without Core

ASSUME BoundsAssumption ==
  /\ MaxVersions \in Nat \ {0} /\ MaxStart \in 0 .. MaxVersions
  /\ MaxAsks \in Nat /\ MaxEdits \in Nat

Number == 1 .. MaxVersions + 1

Baseline == <<"IDENTITY", 0>>
LedgerFile == <<"ledger", 0>>
Version(n) == <<"version", n>>
Amendment(n) == <<"amendment", n>>
Opened(c) == <<"challenge", c>>
Mirror(c) == <<"mirror", c>>

Chained == {Version(n) : n \in Number} \cup {Amendment(n) : n \in Number}
Side == {Opened(c) : c \in Challenge} \cup {Mirror(c) : c \in Challenge}
Path == {Baseline, LedgerFile} \cup Chained \cup Side

AmendmentRecord == [resolves : SUBSET Challenge, stamp : 0 .. MaxAsks]
Entry == [text : Text, record : AmendmentRecord]

\* A mirror cites the amendment that resolves the challenge; 0 is a dismissal.
Resolution == [by : {0} \cup Number]

ASSUME ChallengeAssumption == IsFiniteSet(Challenge)
ASSUME AbsentAssumption ==
  Absent \notin Text \cup {"open"} \cup AmendmentRecord \cup Resolution \cup Seq(Entry)

Request ==
       [op : {"amend"}, text : Text, resolves : SUBSET Challenge,
        version : 0 .. MaxVersions, baseline : Text \cup {Absent},
        stamp : 1 .. MaxAsks]
  \cup [op : {"challenge", "dismiss"}, challenge : Challenge]

VARIABLES
  disk,    \* the content of each file of the namespace
  asked,   \* the mutation each process has asked for, or None
  run,     \* the mutation that holds the lock and writes, or None
  reader,  \* a read in progress that is still followed, or None
  asks,    \* number of mutations asked for
  edits,   \* number of edits made without Core
  chain,   \* history: the chain as Core last left it
  harm     \* history: what happened that Core cannot make good

vars == <<disk, asked, run, reader, asks, edits, chain, harm>>

\* What a file may hold.
Fits(path, content) ==
  \/ content = Absent
  \/ path[1] \in {"IDENTITY", "version"} /\ content \in Text
  \/ path[1] = "ledger" /\ content \in Seq(Entry) /\ Len(content) \in 1 .. MaxVersions
  \/ path[1] = "amendment" /\ content \in AmendmentRecord
  \/ path[1] = "challenge" /\ content = "open"
  \/ path[1] = "mirror" /\ content \in Resolution

TypeOK ==
  /\ disk = [path \in Path |-> disk[path]]
  /\ \A path \in Path : Fits(path, disk[path])
  /\ asked \in [Process -> Request \cup {None}]
  /\ run # None =>
       /\ \A i \in DOMAIN run.writes :
            Fits(run.writes[i].path, run.writes[i].content)
       /\ run.noted \in 0 .. Len(run.writes)
  /\ reader # None =>
       /\ reader.at \in {"ledger", "version", "side", "done"}
       /\ reader.next \in Number
       /\ Fits(LedgerFile, reader.ledger)
  /\ asks \in 0 .. MaxAsks /\ edits \in 0 .. MaxEdits
  /\ harm \subseteq {"ledger set back", "commit unnoted", "mirror unnoted"}

\* Some versions recorded earlier, perhaps none, with challenges still open,
\* and IDENTITY.md as recorded or, without a version, perhaps hand-written.
Init ==
  /\ \E n \in 0 .. MaxStart, open \in SUBSET Challenge :
       \E texts \in [0 .. n -> Text \cup {Absent}] :
         /\ n = 0 => open = {}
         /\ n > 0 => texts[0] = Absent
         /\ \A k \in 1 .. n : texts[k] \notin {Absent, texts[k - 1]}
         /\ chain = [k \in 1 .. n |->
              [text |-> texts[k], record |-> [resolves |-> {}, stamp |-> 0]]]
         /\ disk = [path \in Path |->
              CASE path = Baseline -> texts[n]
                [] path = LedgerFile -> IF n = 0 THEN Absent ELSE chain
                [] path \in {Version(k) : k \in 1 .. n} -> chain[path[2]].text
                [] path \in {Amendment(k) : k \in 1 .. n} -> chain[path[2]].record
                [] path \in {Opened(c) : c \in open} -> "open"
                [] OTHER -> Absent]
  /\ asked = [p \in Process |-> None]
  /\ run = None
  /\ reader = None
  /\ asks = 0
  /\ edits = 0
  /\ harm = {}

-----------------------------------------------------------------------------
(* _load                                                                   *)

Recorded(d) == IF d[LedgerFile] = Absent THEN <<>> ELSE d[LedgerFile]

\* _history_files: the names the missing-ledger rule looks at.
History(d) ==
  {path \in Chained \cup {Mirror(c) : c \in Challenge} : d[path] # Absent}

\* Mutant: without a ledger there is no identity, whatever is on disk.
MisnumberedLoose(ledger, listed) ==
  LET n == IF ledger = Absent THEN 0 ELSE Len(ledger)
  IN  n > 0 /\ \E path \in listed \cap Chained : path[2] > n + 1

\* Recorded history without a ledger, or files beyond the next version.
Misnumbered(ledger, listed) ==
  LET n == IF ledger = Absent THEN 0 ELSE Len(ledger)
  IN  IF n = 0 THEN listed # {}
      ELSE \E path \in listed \cap Chained : path[2] > n + 1

\* A snapshot or a record that is not the one in the chain.
Unvouched(d, entry, k) ==
  d[Version(k)] # entry.text \/ d[Amendment(k)] # entry.record

\* Scope "chain", for a load under the lock.
ChainInvalid(d) ==
  \/ Misnumbered(d[LedgerFile], History(d))
  \/ \E k \in DOMAIN Recorded(d) : Unvouched(d, Recorded(d)[k], k)

\* The amendments of the chain that list a challenge.
Amending(d, c) ==
  {n \in DOMAIN Recorded(d) : c \in Recorded(d)[n].record.resolves}

Dismissed(d, c) == d[Mirror(c)] = [by |-> 0]

\* Mutant: a mirror may only cite an amendment of the chain.
SideInvalidStrict(d) ==
  \E c \in Challenge :
    LET mirror == d[Mirror(c)]
    IN  \/ d[Opened(c)] = Absent /\ (mirror # Absent \/ Amending(d, c) # {})
        \/ Dismissed(d, c) /\ Amending(d, c) # {}
        \/ mirror \notin {Absent, [by |-> 0]} /\ mirror.by \notin Amending(d, c)

\* Scope "side_records": a resolution without its challenge, a dismissal the
\* chain contradicts, or a mirror citing an amendment that does not list its
\* challenge or lies beyond the next one.
SideInvalid(d) ==
  \E c \in Challenge :
    LET mirror == d[Mirror(c)]
    IN  \/ d[Opened(c)] = Absent /\ (mirror # Absent \/ Amending(d, c) # {})
        \/ Dismissed(d, c) /\ Amending(d, c) # {}
        \/ /\ mirror \notin {Absent, [by |-> 0]}
           /\ mirror.by \notin Amending(d, c) \cup {Len(Recorded(d)) + 1}

\* _require_writable, for a load under the lock.
Writable(d) == ~ChainInvalid(d) /\ ~SideInvalid(d)

\* Mutant: a challenge is resolved once its mirror is there.
IsOpenByMirror(d, c) == d[Opened(c)] # Absent /\ d[Mirror(c)] = Absent

\* `amended' is decided by the chain alone; only a dismissal by its file.
IsOpen(d, c) ==
  d[Opened(c)] # Absent /\ Amending(d, c) = {} /\ ~Dismissed(d, c)

-----------------------------------------------------------------------------
(* Mutations *)

\* A Controller reads the identity and asks for an amendment of it.
AskAmend(p) ==
  /\ asked[p] = None /\ asks < MaxAsks
  /\ \E text \in Text, resolves \in SUBSET Challenge :
       asked' = [asked EXCEPT ![p] =
         [op |-> "amend", text |-> text, resolves |-> resolves,
          version |-> Len(Recorded(disk)), baseline |-> disk[Baseline],
          stamp |-> asks + 1]]
  /\ asks' = asks + 1
  /\ UNCHANGED <<disk, run, reader, edits, chain, harm>>

AskChallenge(p) ==
  /\ asked[p] = None /\ asks < MaxAsks
  /\ \E op \in {"challenge", "dismiss"}, c \in Challenge :
       asked' = [asked EXCEPT ![p] = [op |-> op, challenge |-> c]]
  /\ asks' = asks + 1
  /\ UNCHANGED <<disk, run, reader, edits, chain, harm>>

\* Mutant: the caller need not name the IDENTITY.md it replaces.
AmendAdmitsAnyBase(r) ==
  LET n == Len(Recorded(disk))
  IN  /\ r.version = n
      /\ n < MaxVersions
      /\ n > 0 => r.text # Recorded(disk)[n].text
      /\ \A c \in r.resolves : IsOpen(disk, c)

\* Mutant: any challenge may be resolved.
AmendAdmitsResolved(r) ==
  LET n == Len(Recorded(disk))
  IN  /\ r.version = n /\ r.baseline = disk[Baseline]
      /\ n < MaxVersions
      /\ n > 0 => r.text # Recorded(disk)[n].text
      /\ \A c \in r.resolves : disk[Opened(c)] # Absent

\* The version and the IDENTITY.md the caller named are the ones there, the
\* text is a new one, and it resolves open challenges only.
AmendAdmits(r) ==
  LET n == Len(Recorded(disk))
  IN  /\ r.version = n /\ r.baseline = disk[Baseline]
      /\ n < MaxVersions
      /\ n > 0 => r.text # Recorded(disk)[n].text
      /\ \A c \in r.resolves : IsOpen(disk, c)

\* A challenge needs a version to challenge, and its id is a new one.
Admits(r) ==
  /\ Writable(disk)
  /\ CASE r.op = "amend"     -> AmendAdmits(r)
       [] r.op = "challenge" -> /\ Recorded(disk) # <<>>
                                /\ disk[Opened(r.challenge)] = Absent
       [] r.op = "dismiss"   -> IsOpen(disk, r.challenge)

Put(path, content) == [path |-> path, content |-> content]

NewRecord(r) == [resolves |-> r.resolves, stamp |-> r.stamp]

NewLedger(r) ==
  Put(LedgerFile, Append(Recorded(disk), [text |-> r.text, record |-> NewRecord(r)]))

NewMirrors(r, n) ==
  LET order == SetToSeq(r.resolves)
  IN  [i \in DOMAIN order |-> Put(Mirror(order[i]), [by |-> n])]

\* Mutant: the amendment record is written after the ledger.
AmendWritesLate(r) ==
  LET n == Len(Recorded(disk)) + 1
  IN  <<Put(Version(n), r.text), Put(Baseline, r.text), NewLedger(r),
        Put(Amendment(n), NewRecord(r))>> \o NewMirrors(r, n)

\* The snapshot, IDENTITY.md and the record, then the ledger, which commits
\* them, and then the mirrors.
AmendWrites(r) ==
  LET n == Len(Recorded(disk)) + 1
  IN  <<Put(Version(n), r.text), Put(Baseline, r.text),
        Put(Amendment(n), NewRecord(r)), NewLedger(r)>> \o NewMirrors(r, n)

Writes(r) ==
  CASE r.op = "amend"     -> AmendWrites(r)
    [] r.op = "challenge" -> <<Put(Opened(r.challenge), "open")>>
    [] r.op = "dismiss"   -> <<Put(Mirror(r.challenge), [by |-> 0])>>

\* Under the lock: the load, the checks and the backup of what is replaced.
Begin(p) ==
  /\ asked[p] # None /\ run = None
  /\ Admits(asked[p])
  /\ LET writes == Writes(asked[p])
     IN  run' = [request |-> asked[p], writes |-> writes,
                 old |-> [i \in DOMAIN writes |-> disk[writes[i].path]],
                 noted |-> 0, undoing |-> FALSE, edited |-> FALSE]
  /\ asked' = [asked EXCEPT ![p] = None]
  /\ UNCHANGED <<disk, reader, asks, edits, chain, harm>>

\* A refusal, for these checks or the task's; or the caller gives up.
Refuse(p) ==
  /\ asked[p] # None
  /\ asked' = [asked EXCEPT ![p] = None]
  /\ UNCHANGED <<disk, run, reader, asks, edits, chain, harm>>

\* A read is followed as long as it overlaps one commit at most, no undo, and
\* no state a mutation would refuse.
Watch(commits, undoes) ==
  reader' =
    IF reader = None THEN None
    ELSE IF undoes \/ ~Writable(disk') \/ (commits /\ reader.committed) THEN None
    ELSE [reader EXCEPT !.committed = @ \/ commits]

\* Every change of a file by Core goes with the chain it leaves.
Leaves(path, content) ==
  /\ disk' = [disk EXCEPT ![path] = content]
  /\ chain' = IF path = LedgerFile THEN Recorded(disk') ELSE chain

NextWrite == run.writes[run.noted + 1]

Apply ==
  /\ run # None /\ ~run.undoing /\ run.noted < Len(run.writes)
  /\ Leaves(NextWrite.path, NextWrite.content)
  /\ run' = [run EXCEPT !.noted = @ + 1]
  /\ Watch(NextWrite.path = LedgerFile, FALSE)
  /\ UNCHANGED <<asked, asks, edits, harm>>

\* An interrupt between a write and its note.
ApplyUnnoted ==
  /\ run # None /\ ~run.undoing /\ run.noted < Len(run.writes)
  /\ Leaves(NextWrite.path, NextWrite.content)
  /\ run' = [run EXCEPT !.undoing = TRUE]
  /\ harm' = harm \cup (CASE NextWrite.path = LedgerFile -> {"commit unnoted"}
                          [] NextWrite.path[1] = "mirror" -> {"mirror unnoted"}
                          [] OTHER -> {})
  /\ Watch(NextWrite.path = LedgerFile, FALSE)
  /\ UNCHANGED <<asked, asks, edits>>

ApplyFails ==
  /\ run # None /\ ~run.undoing /\ run.noted < Len(run.writes)
  /\ run' = [run EXCEPT !.undoing = TRUE]
  /\ UNCHANGED <<disk, asked, reader, asks, edits, chain, harm>>

\* The noted writes are undone from the last to the first, unless the file
\* no longer holds what was written.
Undo ==
  /\ run # None /\ run.undoing /\ run.noted > 0
  /\ LET write == run.writes[run.noted]
     IN  IF disk[write.path] = write.content
           THEN Leaves(write.path, run.old[run.noted])
           ELSE UNCHANGED <<disk, chain>>
  /\ run' = [run EXCEPT !.noted = @ - 1]
  /\ Watch(FALSE, TRUE)
  /\ UNCHANGED <<asked, asks, edits, harm>>

\* The mutation is complete, or undone.
End ==
  /\ run # None
  /\ run.noted = IF run.undoing THEN 0 ELSE Len(run.writes)
  /\ run' = None
  /\ UNCHANGED <<disk, asked, reader, asks, edits, chain, harm>>

\* The process is killed, or its undo raises.
Die ==
  /\ run # None
  /\ run' = None
  /\ UNCHANGED <<disk, asked, reader, asks, edits, chain, harm>>

-----------------------------------------------------------------------------
(* identity-status, identity-get: _load without the lock *)

\* The names of the history files ...
ReadNames ==
  /\ reader = None
  /\ reader' =
       IF ~Writable(disk) THEN None
       ELSE [at |-> "ledger", next |-> 1, listed |-> History(disk),
             ledger |-> Absent, invalid |-> FALSE, committed |-> FALSE]
  /\ UNCHANGED <<disk, asked, run, asks, edits, chain, harm>>

\* A read that finds something INVALID looks no further.
Reads(invalid, ledger, at, next) ==
  reader' = [reader EXCEPT
    !.at = IF invalid THEN "done" ELSE at, !.next = next, !.listed = {},
    !.ledger = IF invalid THEN Absent ELSE ledger, !.invalid = invalid]

\* ... the ledger ...
ReadLedger ==
  /\ reader # None /\ reader.at = "ledger"
  /\ Reads(Misnumbered(disk[LedgerFile], reader.listed), disk[LedgerFile],
           IF disk[LedgerFile] = Absent THEN "side" ELSE "version", 1)
  /\ UNCHANGED <<disk, asked, run, asks, edits, chain, harm>>

\* ... the snapshot and the record of a version, in one step, version after
\* version ...
ReadVersion ==
  /\ reader # None /\ reader.at = "version"
  /\ LET k == reader.next
     IN  Reads(Unvouched(disk, reader.ledger[k], k), reader.ledger,
               IF k = Len(reader.ledger) THEN "side" ELSE "version", k + 1)
  /\ UNCHANGED <<disk, asked, run, asks, edits, chain, harm>>

\* ... and the challenges with their mirrors, in one step.
ReadSide ==
  /\ reader # None /\ reader.at = "side"
  /\ Reads(SideInvalid([disk EXCEPT ![LedgerFile] = reader.ledger]), Absent, "done", 1)
  /\ UNCHANGED <<disk, asked, run, asks, edits, chain, harm>>

ReadEnds ==
  /\ reader # None /\ reader.at = "done"
  /\ reader' = None
  /\ UNCHANGED <<disk, asked, run, asks, edits, chain, harm>>

-----------------------------------------------------------------------------
(* Edits without Core *)

\* Someone writes or deletes IDENTITY.md by hand.
EditBaseline ==
  /\ edits < MaxEdits
  /\ edits' = edits + 1
  /\ \E text \in Text \cup {Absent} :
       text # disk[Baseline] /\ disk' = [disk EXCEPT ![Baseline] = text]
  /\ run' = IF run = None THEN None ELSE [run EXCEPT !.edited = TRUE]
  /\ Watch(FALSE, FALSE)
  /\ UNCHANGED <<asked, asks, chain, harm>>

\* The ledger is lost, or an older one is restored.
SetBack ==
  /\ edits < MaxEdits
  /\ edits' = edits + 1
  /\ \E n \in 0 .. Len(Recorded(disk)) - 1 :
       disk' = [disk EXCEPT ![LedgerFile] =
                  IF n = 0 THEN Absent ELSE SubSeq(disk[LedgerFile], 1, n)]
  /\ harm' = harm \cup {"ledger set back"}
  /\ Watch(FALSE, TRUE)
  /\ UNCHANGED <<asked, run, asks, chain>>

Next ==
  \/ \E p \in Process : AskAmend(p) \/ AskChallenge(p) \/ Begin(p) \/ Refuse(p)
  \/ Apply \/ ApplyUnnoted \/ ApplyFails \/ Undo \/ End \/ Die
  \/ ReadNames \/ ReadLedger \/ ReadVersion \/ ReadSide \/ ReadEnds
  \/ EditBaseline \/ SetBack

Spec == Init /\ [][Next]_vars

-----------------------------------------------------------------------------

\* An interrupted amendment is recoverable: wherever a mutation failed, was
\* interrupted or was killed, the recorded chain can be read and amended.  It
\* cannot only while the first version is not recorded yet, when the ledger
\* was set back by hand, or when an interrupt fell exactly between the commit
\* and its note.
ChainStaysReadable ==
  ChainInvalid(disk) =>
    chain = <<>> \/ {"ledger set back", "commit unnoted"} \cap harm # {}

\* The claim without the last exception (project identity document, under
\* "Interrupted amendments are recoverable"): the ledger is the commit point.
InterruptedIsRecoverable ==
  chain # <<>> /\ edits = 0 => ~ChainInvalid(disk)

\* The mirrors never come to contradict the chain, so that mutations are not
\* refused for good: not by a crash between the commit and a mirror, by the
\* undo of an amendment, or by a dismissal that follows either.
SideRecordsAgree ==
  SideInvalid(disk) => {"ledger set back", "mirror unnoted"} \cap harm # {}

\* Committed history is never overwritten or removed, by an amendment, a retry
\* or an undo, even when the ledger is lost and the identity looks absent.  A
\* ledger set back by exactly one version makes the last one look like a
\* remnant; an undo that missed the commit removes what it committed.
HistoryIsKept ==
  [][\A n \in DOMAIN chain, path \in Chained :
       /\ run # None /\ edits' = edits
       /\ path[2] = n /\ disk[path] # Absent /\ disk'[path] # disk[path]
       => \/ "commit unnoted" \in harm
          \/ n > 1 /\ "ledger set back" \in harm /\ run.request.version = n - 1]_vars

\* A resolution is final: a challenge that is amended or dismissed is neither
\* reopened nor resolved another way, unless its amendment is undone.
ResolutionIsFinal ==
  [][\A c \in Challenge :
       /\ disk[Opened(c)] # Absent /\ ~IsOpen(disk, c)
       /\ edits' = edits
       /\ run # None => ~run.undoing
       => /\ Amending(disk', c) = Amending(disk, c)
          /\ Dismissed(disk', c) = Dismissed(disk, c)]_vars

\* Lower-level work does not silently redefine the identity, and neither does
\* Core: an amendment replaces the IDENTITY.md its caller had named, so what
\* someone wrote by hand is not lost unless it is written while the amendment
\* runs.
ReplacesWhatItNamed ==
  [][run # None /\ edits' = edits /\ disk'[Baseline] # disk[Baseline]
         => run.undoing \/ run.edited \/ disk[Baseline] = run.request.baseline]_vars

\* Reads take no lock, and the order of the writes and of the reads makes up
\* for it: a read that overlaps one commit reports nothing INVALID.  One may if
\* it overlaps two, an undo, or the recording of the first version.
ReadersAreNotAlarmed ==
  reader # None => ~reader.invalid
=============================================================================
