--------------------------- MODULE IdentityProofs ---------------------------
(***************************************************************************)
(* Proofs about the project identity, for any number of processes, texts   *)
(* and challenges, any MAX_VERSIONS and any number of edits.               *)
(*                                                                         *)
(* Every theorem rests on the same base: TypeOK; Planned, the writes a     *)
(* mutation goes through, in their order; and Written, what of them is on  *)
(* disk at each point of it.  A mutation begins as Planned says because    *)
(* the ledger it finds under the lock is as Written says.  Each theorem    *)
(* then adds one invariant of its own:                                     *)
(*                                                                         *)
(*   ReplacesWhatItNamed   Named     IDENTITY.md until it is replaced      *)
(*   ResolutionIsFinal     --        the base is enough                    *)
(*   ChainStaysReadable    Sound     chain and files, while Unharmed       *)
(*   HistoryIsKept         Reaches   the first version, while Noted        *)
(*   SideRecordsAgree      Siding    chain and mirrors, while Mirrored     *)
(*   ReadersAreNotAlarmed  Watching  what a read saw and what is there     *)
(*                                                                         *)
(* Each of these is kept step by step: one lemma for the beginning of a    *)
(* mutation, one for a write, one for the undo of one, and one that puts   *)
(* them together with the steps that change nothing it speaks of.          *)
(***************************************************************************)
EXTENDS Identity, SequenceTheorems, FiniteSetTheorems, TLAPS

\* An amendment runs, and records the version after the one it found.
Amends == run # None /\ run.request.op = "amend"
NewNumber == run.request.version + 1

\* The chain a ledger file holds; the one an amendment found, and the one it
\* writes.
Rec(content) == IF content = Absent THEN <<>> ELSE content
Before == Rec(run.old[4])
After == run.writes[4].content

\* The amendments of a chain that list a challenge.
AmendedIn(ledger, c) == {n \in DOMAIN ledger : c \in ledger[n].record.resolves}

\* s is how t starts.
Starts(s, t) == Len(s) <= Len(t) /\ \A i \in 1 .. Len(s) : s[i] = t[i]

\* No challenge is amended twice.
Once(ledger) ==
  \A c \in Challenge : \A i, j \in AmendedIn(ledger, c) : i = j

\* What an amendment writes: the snapshot, IDENTITY.md, the record, the ledger
\* it found with one entry more, and the mirrors of what it resolves, which no
\* amendment of that ledger had resolved.
AmendPlan ==
  /\ NewNumber \in 1 .. MaxVersions
  /\ Len(run.writes) >= 4
  /\ run.writes[1] = Put(Version(NewNumber), run.request.text)
  /\ run.writes[2] = Put(Baseline, run.request.text)
  /\ run.writes[3] = Put(Amendment(NewNumber), NewRecord(run.request))
  /\ run.writes[4] =
       Put(LedgerFile,
           Append(Before, [text |-> run.request.text, record |-> NewRecord(run.request)]))
  /\ \A i \in 5 .. Len(run.writes) :
       \E c \in run.request.resolves : run.writes[i] = Put(Mirror(c), [by |-> NewNumber])
  /\ Before \in Seq(Entry) /\ Len(Before) = run.request.version /\ Once(Before)
  /\ \A c \in run.request.resolves : AmendedIn(Before, c) = {}

\* A mutation writes what its request says, and holds what it replaces.
Planned ==
  run # None =>
    /\ run = [request |-> run.request, writes |-> run.writes, old |-> run.old,
              noted |-> run.noted, undoing |-> run.undoing, edited |-> run.edited]
    /\ run.request \in Request
    /\ Len(run.writes) \in Nat /\ DOMAIN run.writes = 1 .. Len(run.writes)
    /\ run.noted \in 0 .. Len(run.writes)
    /\ run.undoing \in BOOLEAN /\ run.edited \in BOOLEAN
    /\ run.undoing => run.noted < Len(run.writes)
    /\ \A i \in 1 .. Len(run.writes) : Fits(run.writes[i].path, run.old[i])
    /\ run.request.op = "amend" => AmendPlan
    /\ run.request.op = "challenge" =>
         /\ Len(run.writes) = 1 /\ run.old[1] = Absent
         /\ run.writes[1] = Put(Opened(run.request.challenge), "open")
    /\ run.request.op = "dismiss" =>
         /\ Len(run.writes) = 1
         /\ run.writes[1] = Put(Mirror(run.request.challenge), [by |-> 0])

\* What a mutation has noted is on disk, and until its commit the chain and the
\* dismissals are those it was decided by; a ledger may have been set back, but
\* then it is still a start of the chain it found.
Written ==
  /\ Once(Recorded(disk))
  /\ Amends =>
       /\ run.noted >= 1 => disk[Version(NewNumber)] = run.request.text
       /\ run.noted >= 3 => disk[Amendment(NewNumber)] = NewRecord(run.request)
       /\ ~run.undoing => \A c \in run.request.resolves : ~Dismissed(disk, c)
       /\ ~run.undoing /\ run.noted < 4 =>
            /\ Starts(Recorded(disk), Before)
            /\ \A c \in Challenge : Dismissed(disk, c) => AmendedIn(Before, c) = {}
  /\ run # None /\ run.request.op = "dismiss" /\ ~run.undoing /\ run.noted = 0 =>
       Amending(disk, run.request.challenge) = {} /\ ~Dismissed(disk, run.request.challenge)

\* Until it replaces it, an amendment finds the IDENTITY.md its caller named.
Named ==
  Amends /\ ~run.undoing /\ run.noted <= 1 /\ ~run.edited =>
    disk[Baseline] = run.request.baseline

SomeOpened == \E c \in Challenge : disk[Opened(c)] # Absent

FirstThere == disk[Version(1)] # Absent

\* The first version: while an amendment records it there is no chain.
Opening ==
  /\ run.old[1] = Absent /\ run.old[3] = Absent
  /\ ~SomeOpened /\ run.request.resolves = {}
  /\ run.noted <= 3 => chain = <<>>

\* There is no chain, no challenge and no mutation of either without the
\* first version.
Founded ==
  /\ chain # <<>> \/ SomeOpened => FirstThere
  /\ run # None /\ run.request.op = "challenge" => FirstThere
  /\ Amends /\ run.request.version > 0 => FirstThere
  /\ Amends /\ ~(run.request.version > 0) => Opening

Noted == "commit unnoted" \notin harm

Reaches == Noted => Founded

\* The chain is the one in the ledger, its files are there and are its own,
\* and nothing lies beyond the next version.
Tidy ==
  /\ chain = Recorded(disk)
  /\ \A k \in DOMAIN chain : ~Unvouched(disk, chain[k], k)
  /\ \A path \in Chained : disk[path] # Absent => path[2] <= Len(chain) + 1

\* An amendment's ledger is the old one before its commit and the new one after
\* it, and nothing lies beyond the version it records.
Placed ==
  /\ disk[LedgerFile] = IF run.noted >= 4 THEN After ELSE run.old[4]
  /\ \A path \in Chained : disk[path] # Absent => path[2] <= NewNumber

\* The ledger was not set back, and no interrupt fell between a commit and its
\* note.
Unharmed == "ledger set back" \notin harm /\ "commit unnoted" \notin harm

Sound == Unharmed => Tidy /\ (Amends => Placed)

\* Every resolution has its challenge, a dismissal no amendment, and a mirror
\* cites an amendment of the chain that lists the challenge.
Agreeing(d) ==
  \A c \in Challenge :
    LET mirror == d[Mirror(c)]
    IN  /\ d[Opened(c)] = Absent => mirror = Absent /\ Amending(d, c) = {}
        /\ Dismissed(d, c) => Amending(d, c) = {}
        /\ mirror \notin {Absent, [by |-> 0]} => mirror.by \in Amending(d, c)

\* An amendment writes the mirrors of the challenges it resolves after its
\* commit, and has noted those that are there.
AmendSide ==
  /\ run.noted >= 4 => disk[LedgerFile] = After
  /\ ~run.undoing /\ run.noted < 4 => disk[LedgerFile] = run.old[4]
  /\ \A c \in run.request.resolves :
       /\ disk[Opened(c)] # Absent
       /\ disk[Mirror(c)] # Absent =>
            \E i \in 5 .. run.noted : run.writes[i].path = Mirror(c)
  /\ \A i \in 5 .. Len(run.writes) : run.old[i] = Absent

\* A new challenge has no resolution, and one to be dismissed no amendment.
ChallengeSide ==
  /\ disk[Mirror(run.request.challenge)] = Absent
  /\ Amending(disk, run.request.challenge) = {}

DismissSide ==
  /\ disk[Opened(run.request.challenge)] # Absent
  /\ Amending(disk, run.request.challenge) = {}

Mirrored == "ledger set back" \notin harm /\ "mirror unnoted" \notin harm

Siding ==
  Mirrored =>
    /\ Agreeing(disk)
    /\ Amends => AmendSide
    /\ run # None /\ run.request.op = "challenge" => ChallengeSide
    /\ run # None /\ run.request.op = "dismiss" => DismissSide

\* A read that checks versions holds a ledger with the version it checks next.
Reading ==
  reader # None =>
    /\ reader = [at |-> reader.at, next |-> reader.next, listed |-> reader.listed,
                 ledger |-> reader.ledger, invalid |-> reader.invalid,
                 committed |-> reader.committed]
    /\ reader.at = "version" => reader.ledger # Absent /\ reader.next \in DOMAIN reader.ledger

\* A read that has the ledger is at most one commit behind, and knows of one
\* exactly if it has overlapped it.
Seen == Rec(reader.ledger)

InStep ==
  /\ Starts(Seen, Recorded(disk)) /\ Len(Recorded(disk)) <= Len(Seen) + 1
  /\ ~reader.committed => Seen = Recorded(disk)
  /\ \A c \in Challenge :
       disk[Mirror(c)] # Absent => disk[Mirror(c)].by <= Len(Seen) + 1

\* While a read is followed, a load under the lock would find nothing INVALID;
\* the names the read saw suit the ledger it is about to read, and what it has
\* read suits what is there; and if it overlapped a commit and an amendment is
\* past its own, the ledger is the one that amendment leaves.
Watching ==
  reader # None =>
    /\ Writable(disk) /\ ~reader.invalid
    /\ reader.at = "ledger" => ~Misnumbered(disk[LedgerFile], reader.listed)
    /\ reader.at \in {"version", "side"} => InStep
    /\ Amends /\ ~run.undoing /\ run.noted >= 4 /\ reader.committed =>
         Recorded(disk) = After

-----------------------------------------------------------------------------
(* Files and their contents *)

LEMMA Numbers == /\ MaxVersions \in Nat /\ MaxAsks \in Nat
                 /\ Number \subseteq Nat /\ 1 \in Number /\ 0 \notin Number
                 /\ \A n \in 1 .. MaxVersions : n \in Number /\ n + 1 \in Number
  BY BoundsAssumption DEF Number

\* The paths of different files differ.
LEMMA PathsDiffer ==
  /\ Baseline # LedgerFile
  /\ \A n : /\ Version(n) \notin {Baseline, LedgerFile}
            /\ Amendment(n) \notin {Baseline, LedgerFile}
            /\ Opened(n) \notin {Baseline, LedgerFile}
            /\ Mirror(n) \notin {Baseline, LedgerFile}
  /\ \A n, k : /\ Version(n) # Amendment(k) /\ Version(n) # Opened(k)
               /\ Version(n) # Mirror(k) /\ Amendment(n) # Opened(k)
               /\ Amendment(n) # Mirror(k) /\ Opened(n) # Mirror(k)
               /\ Version(n) = Version(k) => n = k
               /\ Amendment(n) = Amendment(k) => n = k
               /\ Opened(n) = Opened(k) => n = k
               /\ Mirror(n) = Mirror(k) => n = k
  BY DEF Baseline, LedgerFile, Version, Amendment, Opened, Mirror

LEMMA PathTypes ==
  /\ Baseline \in Path /\ LedgerFile \in Path
  /\ \A n \in Number : {Version(n), Amendment(n)} \subseteq Path \cap Chained
  /\ \A c \in Challenge : {Opened(c), Mirror(c)} \subseteq Path
  /\ \A path \in Chained : /\ path \in Path /\ path[2] \in Number
                           /\ path \in {Version(path[2]), Amendment(path[2])}
  /\ \A n \in Number : Version(n)[2] = n /\ Amendment(n)[2] = n
<1>1. \A n \in Number : Version(n)[2] = n /\ Amendment(n)[2] = n
  BY DEF Version, Amendment
<1>2. \A path \in Chained : \E n \in Number : path \in {Version(n), Amendment(n)}
  BY DEF Chained
<1> QED
  BY <1>1, <1>2 DEF Path, Chained, Side

\* What a file of each kind may hold.
LEMMA FitsAt ==
  /\ \A x : Fits(Baseline, x) <=> x \in Text \cup {Absent}
  /\ \A x : Fits(LedgerFile, x) <=>
              x = Absent \/ (x \in Seq(Entry) /\ Len(x) \in 1 .. MaxVersions)
  /\ \A n, x : Fits(Version(n), x) <=> x \in Text \cup {Absent}
  /\ \A n, x : Fits(Amendment(n), x) <=> x \in AmendmentRecord \cup {Absent}
  /\ \A c, x : Fits(Opened(c), x) <=> x \in {"open", Absent}
  /\ \A c, x : Fits(Mirror(c), x) <=> x \in Resolution \cup {Absent}
  BY DEF Fits, Baseline, LedgerFile, Version, Amendment, Opened, Mirror

LEMMA NotAbsent ==
  /\ Absent \notin Text /\ Absent # "open" /\ Absent \notin AmendmentRecord
  /\ Absent \notin Resolution /\ Absent \notin Seq(Entry)
  BY AbsentAssumption

LEMMA Resolutions ==
  /\ \A n \in {0} \cup Number : [by |-> n] \in Resolution /\ [by |-> n].by = n
  /\ \A r \in Resolution : r.by \in {0} \cup Number /\ r = [by |-> r.by]
  BY DEF Resolution

LEMMA Records ==
  ASSUME TypeOK, NEW d, d = disk
  PROVE  /\ Recorded(d) \in Seq(Entry) /\ Len(Recorded(d)) \in 0 .. MaxVersions
         /\ Recorded(d) = <<>> <=> d[LedgerFile] = Absent
         /\ Len(Recorded(d)) = 0 <=> d[LedgerFile] = Absent
         /\ DOMAIN Recorded(d) = 1 .. Len(Recorded(d))
         /\ Recorded(d) = Rec(d[LedgerFile])
<1>1. Fits(LedgerFile, d[LedgerFile])
  BY PathTypes DEF TypeOK
<1>2. d[LedgerFile] = Absent
      \/ (d[LedgerFile] \in Seq(Entry) /\ Len(d[LedgerFile]) \in 1 .. MaxVersions)
  BY <1>1, FitsAt
<1>3. <<>> \in Seq(Entry) /\ Len(<<>>) = 0
  BY EmptySeq
<1>4. CASE d[LedgerFile] = Absent
  BY <1>3, <1>4, Numbers DEF Recorded, Rec
<1>5. CASE d[LedgerFile] # Absent
  <2>1. Recorded(d) = d[LedgerFile] /\ Rec(d[LedgerFile]) = d[LedgerFile]
    BY <1>5 DEF Recorded, Rec
  <2> QED
    BY <1>2, <1>3, <1>5, <2>1, Numbers, LenProperties
<1> QED
  BY <1>4, <1>5

\* The chain of a ledger file.
LEMMA RecOf ==
  ASSUME NEW x, Fits(LedgerFile, x)
  PROVE  /\ Rec(x) \in Seq(Entry) /\ Len(Rec(x)) \in 0 .. MaxVersions
         /\ x # Absent => Rec(x) = x /\ Len(x) > 0
         /\ x = Absent => Rec(x) = <<>> /\ Len(Rec(x)) = 0
<1>1. <<>> \in Seq(Entry) /\ Len(<<>>) = 0
  BY EmptySeq
<1> QED
  BY <1>1, FitsAt, Numbers DEF Rec

-----------------------------------------------------------------------------
(* Chains *)

LEMMA StartsFacts ==
  ASSUME NEW s \in Seq(Entry), NEW t \in Seq(Entry), Starts(s, t)
  PROVE  /\ \A c : AmendedIn(s, c) \subseteq AmendedIn(t, c)
         /\ \A c : \A n \in AmendedIn(t, c) : n <= Len(s) => n \in AmendedIn(s, c)
         /\ Len(s) = Len(t) => s = t
<1>1. /\ DOMAIN s = 1 .. Len(s) /\ DOMAIN t = 1 .. Len(t)
      /\ Len(s) \in Nat /\ Len(t) \in Nat
  BY LenProperties
<1>2. \A i \in 1 .. Len(s) : i \in 1 .. Len(t) /\ s[i] = t[i]
  BY <1>1 DEF Starts
<1>3. Len(s) = Len(t) => s = t
  BY <1>2, SeqEqual
<1>4. \A c : AmendedIn(s, c) \subseteq AmendedIn(t, c)
  BY <1>1, <1>2 DEF AmendedIn
<1>5. ASSUME NEW c, NEW n \in AmendedIn(t, c), n <= Len(s)
      PROVE  n \in AmendedIn(s, c)
  <2>1. n \in 1 .. Len(s)
    BY <1>1, <1>5 DEF AmendedIn
  <2> QED
    BY <1>1, <1>2, <1>5, <2>1 DEF AmendedIn
<1> QED
  BY <1>3, <1>4, <1>5

LEMMA StartsSelf ==
  ASSUME NEW s \in Seq(Entry)
  PROVE  Starts(s, s) /\ Starts(<<>>, s)
  BY EmptySeq, LenProperties DEF Starts

LEMMA StartsTrans ==
  ASSUME NEW s \in Seq(Entry), NEW t \in Seq(Entry), NEW u \in Seq(Entry),
         Starts(s, t), Starts(t, u)
  PROVE  Starts(s, u)
  BY LenProperties DEF Starts

LEMMA Appended ==
  ASSUME NEW s \in Seq(Entry), NEW e \in Entry
  PROVE  /\ Append(s, e) \in Seq(Entry) /\ Len(Append(s, e)) = Len(s) + 1
         /\ Starts(s, Append(s, e))
         /\ Append(s, e)[Len(s) + 1] = e
         /\ \A c : AmendedIn(Append(s, e), c) =
              AmendedIn(s, c) \cup (IF c \in e.record.resolves THEN {Len(s) + 1} ELSE {})
<1> DEFINE t == Append(s, e)
<1>1. /\ t \in Seq(Entry) /\ Len(t) = Len(s) + 1
      /\ \A i \in 1 .. Len(s) : t[i] = s[i]
      /\ t[Len(s) + 1] = e
  BY AppendProperties
<1> HIDE DEF t
<1>2. /\ DOMAIN s = 1 .. Len(s) /\ DOMAIN t = 1 .. Len(t) /\ Len(s) \in Nat
  BY <1>1, LenProperties
<1>3. Starts(s, t)
  BY <1>1, <1>2 DEF Starts
<1>4. 1 .. Len(t) = (1 .. Len(s)) \cup {Len(s) + 1} /\ Len(s) + 1 \notin 1 .. Len(s)
  BY <1>1, <1>2
<1>5. \A c : AmendedIn(t, c) =
              AmendedIn(s, c) \cup (IF c \in e.record.resolves THEN {Len(s) + 1} ELSE {})
  BY <1>1, <1>2, <1>4 DEF AmendedIn
<1> QED
  BY <1>1, <1>3, <1>5 DEF t

LEMMA OnceKept ==
  ASSUME NEW s \in Seq(Entry), NEW t \in Seq(Entry), Starts(s, t), Once(t)
  PROVE  Once(s)
  BY StartsFacts DEF Once

LEMMA OnceGrows ==
  ASSUME NEW s \in Seq(Entry), NEW e \in Entry, Once(s),
         \A c \in e.record.resolves : AmendedIn(s, c) = {}
  PROVE  Once(Append(s, e))
<1>1. \A c : AmendedIn(Append(s, e), c) =
        AmendedIn(s, c) \cup (IF c \in e.record.resolves THEN {Len(s) + 1} ELSE {})
  BY Appended
<1> QED
  BY <1>1 DEF Once

-----------------------------------------------------------------------------
(* Mutations *)

LEMMA RequestTypes ==
  ASSUME NEW r \in Request
  PROVE  /\ r.op \in {"amend", "challenge", "dismiss"}
         /\ r.op = "amend" =>
              /\ r.text \in Text /\ r.resolves \in SUBSET Challenge
              /\ r.version \in 0 .. MaxVersions
              /\ NewRecord(r) \in AmendmentRecord /\ NewRecord(r).resolves = r.resolves
              /\ [text |-> r.text, record |-> NewRecord(r)] \in Entry
         /\ r.op # "amend" => r.challenge \in Challenge
<1>1. r.op \in {"amend", "challenge", "dismiss"}
  BY DEF Request
<1>2. ASSUME r.op = "amend"
      PROVE  /\ r.text \in Text /\ r.resolves \in SUBSET Challenge
             /\ r.version \in 0 .. MaxVersions /\ r.stamp \in 1 .. MaxAsks
  BY <1>2 DEF Request
<1>3. ASSUME r.op = "amend"
      PROVE  /\ NewRecord(r) \in AmendmentRecord /\ NewRecord(r).resolves = r.resolves
             /\ [text |-> r.text, record |-> NewRecord(r)] \in Entry
  <2>1. NewRecord(r) \in AmendmentRecord /\ NewRecord(r).resolves = r.resolves
    BY <1>2, <1>3, Numbers DEF NewRecord, AmendmentRecord
  <2> QED
    BY <1>2, <1>3, <2>1 DEF Entry
<1>4. r.op # "amend" => r.challenge \in Challenge
  BY DEF Request
<1> QED
  BY <1>1, <1>2, <1>3, <1>4

\* What an amendment leaves in the ledger.
LEMMA AfterFacts ==
  ASSUME Planned, Amends
  PROVE  /\ run.request \in Request /\ AmendPlan
         /\ Before \in Seq(Entry) /\ Len(Before) = run.request.version
         /\ NewNumber \in Number /\ NewNumber \in 1 .. MaxVersions
         /\ After \in Seq(Entry) /\ Len(After) = NewNumber /\ Fits(LedgerFile, After)
         /\ After # Absent /\ Rec(After) = After
         /\ Starts(Before, After) /\ Once(After)
         /\ After[NewNumber].text = run.request.text
         /\ After[NewNumber].record = NewRecord(run.request)
         /\ \A c : AmendedIn(After, c) =
              AmendedIn(Before, c) \cup
                (IF c \in run.request.resolves THEN {NewNumber} ELSE {})
<1> DEFINE e == [text |-> run.request.text, record |-> NewRecord(run.request)]
<1>1. run.request \in Request /\ AmendPlan
  BY DEF Planned, Amends
<1>2. e \in Entry /\ e.record.resolves = run.request.resolves
  BY <1>1, RequestTypes DEF Amends
<1>3. /\ Before \in Seq(Entry) /\ Len(Before) = run.request.version /\ Once(Before)
      /\ NewNumber \in 1 .. MaxVersions /\ After = Append(Before, e)
      /\ \A c \in run.request.resolves : AmendedIn(Before, c) = {}
  BY <1>1 DEF AmendPlan, After, Put
<1>4. e.text = run.request.text /\ e.record = NewRecord(run.request)
  OBVIOUS
<1> HIDE DEF e
<1>5. /\ After \in Seq(Entry) /\ Len(After) = NewNumber /\ Starts(Before, After)
      /\ After[NewNumber] = e
      /\ \A c : AmendedIn(After, c) =
           AmendedIn(Before, c) \cup (IF c \in e.record.resolves THEN {NewNumber} ELSE {})
  BY <1>2, <1>3, Appended DEF NewNumber
<1>6. Once(After)
  BY <1>2, <1>3, OnceGrows
<1>7. Fits(LedgerFile, After) /\ After # Absent
  BY <1>3, <1>5, FitsAt, NotAbsent
<1> QED
  BY <1>1, <1>2, <1>3, <1>4, <1>5, <1>6, <1>7, Numbers DEF Rec

\* The files a mutation writes, one after the other.
LEMMA PlanKinds ==
  ASSUME Planned, run # None, NEW i \in 1 .. Len(run.writes)
  PROVE  LET w == run.writes[i]
             Is(path, content) == w.path = path /\ w.content = content
         IN  \/ Amends /\ i = 1 /\ Is(Version(NewNumber), run.request.text)
             \/ Amends /\ i = 2 /\ Is(Baseline, run.request.text)
             \/ Amends /\ i = 3 /\ Is(Amendment(NewNumber), NewRecord(run.request))
             \/ Amends /\ i = 4 /\ Is(LedgerFile, After)
             \/ /\ Amends /\ i >= 5
                /\ \E c \in run.request.resolves : Is(Mirror(c), [by |-> NewNumber])
             \/ /\ run.request.op = "challenge" /\ i = 1
                /\ Is(Opened(run.request.challenge), "open")
             \/ /\ run.request.op = "dismiss" /\ i = 1
                /\ Is(Mirror(run.request.challenge), [by |-> 0])
<1>1. run.request.op \in {"amend", "challenge", "dismiss"} /\ Len(run.writes) \in Nat
  BY RequestTypes DEF Planned
<1>2. CASE run.request.op = "amend"
  <2>1. AmendPlan /\ Amends
    BY <1>2 DEF Planned, Amends
  <2>2. i = 1 \/ i = 2 \/ i = 3 \/ i = 4 \/ i \in 5 .. Len(run.writes)
    BY <1>1
  <2>3. \A path, content : Put(path, content).path = path /\ Put(path, content).content = content
    BY DEF Put
  <2>4. /\ run.writes[1].path = Version(NewNumber) /\ run.writes[1].content = run.request.text
        /\ run.writes[2].path = Baseline /\ run.writes[2].content = run.request.text
        /\ run.writes[3].path = Amendment(NewNumber)
        /\ run.writes[3].content = NewRecord(run.request)
        /\ run.writes[4].path = LedgerFile /\ run.writes[4].content = After
    BY <2>1, <2>3 DEF AmendPlan, After
  <2>5. i \in 5 .. Len(run.writes) =>
          \E c \in run.request.resolves :
            run.writes[i].path = Mirror(c) /\ run.writes[i].content = [by |-> NewNumber]
    BY <2>1, <2>3 DEF AmendPlan
  <2> QED
    BY <2>1, <2>2, <2>4, <2>5
<1>3. CASE run.request.op # "amend"
  BY <1>1, <1>3 DEF Planned, Put
<1> QED
  BY <1>2, <1>3

LEMMA PlanTypes ==
  ASSUME Planned, run # None, NEW i \in 1 .. Len(run.writes)
  PROVE  /\ run.writes[i].path \in Path
         /\ Fits(run.writes[i].path, run.writes[i].content)
         /\ Fits(run.writes[i].path, run.old[i])
         /\ run.writes[i].path[1] = "mirror" => \E c : run.writes[i].path = Mirror(c)
<1>1. Fits(run.writes[i].path, run.old[i]) /\ run.request \in Request
  BY DEF Planned
<1>2. /\ Version(NewNumber)[1] # "mirror" /\ Baseline[1] # "mirror"
      /\ Amendment(NewNumber)[1] # "mirror" /\ LedgerFile[1] # "mirror"
      /\ Opened(run.request.challenge)[1] # "mirror"
  BY DEF Version, Baseline, Amendment, LedgerFile, Opened
<1>3. CASE Amends
  <2>1. /\ NewNumber \in Number /\ Fits(LedgerFile, After)
        /\ run.request.text \in Text /\ run.request.resolves \subseteq Challenge
        /\ NewRecord(run.request) \in AmendmentRecord
        /\ [by |-> NewNumber] \in Resolution
    BY <1>1, <1>3, AfterFacts, RequestTypes, Resolutions DEF Amends
  <2> QED
    BY <1>1, <1>2, <1>3, <2>1, PlanKinds, PathTypes, FitsAt DEF Amends
<1>4. CASE ~Amends
  <2>1. run.request.challenge \in Challenge /\ [by |-> 0] \in Resolution
    BY <1>1, <1>4, RequestTypes, Resolutions DEF Amends
  <2> QED
    BY <1>1, <1>2, <1>4, <2>1, PlanKinds, PathTypes, FitsAt
<1> QED
  BY <1>3, <1>4

-----------------------------------------------------------------------------
(* Steps *)

LEMMA ChangeEffect ==
  ASSUME TypeOK, NEW path \in Path, NEW content, Fits(path, content),
         disk' = [disk EXCEPT ![path] = content]
  PROVE  /\ disk' = [q \in Path |-> disk'[q]] /\ \A q \in Path : Fits(q, disk'[q])
         /\ disk'[path] = content
         /\ \A q \in Path : q # path => disk'[q] = disk[q]
  BY DEF TypeOK

SameMutation ==
  /\ run'.request = run.request /\ run'.writes = run.writes /\ run'.old = run.old
  /\ run' = [request |-> run'.request, writes |-> run'.writes, old |-> run'.old,
             noted |-> run'.noted, undoing |-> run'.undoing, edited |-> run'.edited]

LEMMA RunSet ==
  ASSUME Planned, run # None, NEW n, NEW b
  PROVE  /\ run' = [run EXCEPT !.noted = n] =>
              SameMutation /\ run'.noted = n /\ run'.undoing = run.undoing
              /\ run'.edited = run.edited
         /\ run' = [run EXCEPT !.undoing = b] =>
              SameMutation /\ run'.noted = run.noted /\ run'.undoing = b
              /\ run'.edited = run.edited
         /\ run' = [run EXCEPT !.edited = b] =>
              SameMutation /\ run'.noted = run.noted /\ run'.undoing = run.undoing
              /\ run'.edited = b
  BY DEF Planned, SameMutation

\* A write, noted or not.
LEMMA WriteEffect ==
  ASSUME TypeOK, Planned, Apply \/ ApplyUnnoted,
         NEW i, i = run.noted + 1, NEW w, w = run.writes[i]
  PROVE  /\ run # None /\ ~run.undoing /\ i \in 1 .. Len(run.writes)
         /\ disk' = [q \in Path |-> disk'[q]] /\ \A q \in Path : Fits(q, disk'[q])
         /\ w.path \in Path /\ disk'[w.path] = w.content
         /\ \A q \in Path : q # w.path => disk'[q] = disk[q]
         /\ chain' = IF w.path = LedgerFile THEN Recorded(disk') ELSE chain
         /\ SameMutation /\ run'.edited = run.edited
         /\ run'.noted = (IF Apply THEN i ELSE run.noted)
         /\ run'.undoing <=> ~Apply
<1>1. /\ run # None /\ ~run.undoing /\ run.noted < Len(run.writes)
      /\ Leaves(w.path, w.content)
      /\ \/ Apply /\ run' = [run EXCEPT !.noted = @ + 1]
         \/ ApplyUnnoted /\ run' = [run EXCEPT !.undoing = TRUE]
  BY DEF Apply, ApplyUnnoted, NextWrite
<1>2. i \in 1 .. Len(run.writes)
  BY <1>1 DEF Planned
<1>3. w.path \in Path /\ Fits(w.path, w.content)
  BY <1>1, <1>2, PlanTypes
<1>4. /\ disk' = [q \in Path |-> disk'[q]] /\ \A q \in Path : Fits(q, disk'[q])
      /\ disk'[w.path] = w.content
      /\ \A q \in Path : q # w.path => disk'[q] = disk[q]
  BY <1>1, <1>3, ChangeEffect DEF Leaves
<1>5. \/ Apply /\ run'.noted = i /\ ~run'.undoing /\ run'.edited = run.edited /\ SameMutation
      \/ ~Apply /\ run'.noted = run.noted /\ run'.undoing /\ run'.edited = run.edited /\ SameMutation
  <2>1. CASE run' = [run EXCEPT !.noted = run.noted + 1]
    <3>1. run'.noted = i /\ run'.undoing = run.undoing /\ run'.edited = run.edited /\ SameMutation
      BY <1>1, <2>1, RunSet
    <3>2. ~ApplyUnnoted
      BY <1>1, <3>1, RunSet DEF ApplyUnnoted
    <3> QED
      BY <1>1, <3>1, <3>2
  <2>2. CASE run' = [run EXCEPT !.undoing = TRUE]
    <3>1. run'.noted = run.noted /\ run'.undoing = TRUE /\ run'.edited = run.edited /\ SameMutation
      BY <1>1, <2>2, RunSet
    <3>2. ~Apply
      <4>1. run'.undoing # run.undoing
        BY <1>1, <3>1
      <4> QED
        BY <1>1, <4>1, RunSet DEF Apply
    <3> QED
      BY <3>1, <3>2
  <2> QED
    BY <1>1, <2>1, <2>2
<1>6. chain' = IF w.path = LedgerFile THEN Recorded(disk') ELSE chain
  BY <1>1 DEF Leaves
<1> QED
  BY <1>1, <1>2, <1>3, <1>4, <1>5, <1>6

LEMMA UndoEffect ==
  ASSUME TypeOK, Planned, Undo, NEW i, i = run.noted, NEW w, w = run.writes[i]
  PROVE  /\ run # None /\ run.undoing /\ i \in 1 .. Len(run.writes)
         /\ disk' = [q \in Path |-> disk'[q]] /\ \A q \in Path : Fits(q, disk'[q])
         /\ w.path \in Path
         /\ \A q \in Path : q # w.path => disk'[q] = disk[q]
         /\ IF disk[w.path] = w.content
              THEN /\ disk'[w.path] = run.old[i]
                   /\ chain' = IF w.path = LedgerFile THEN Recorded(disk') ELSE chain
              ELSE UNCHANGED <<disk, chain>>
         /\ SameMutation /\ run'.edited = run.edited
         /\ run'.noted = i - 1 /\ run'.undoing
<1>1. /\ run # None /\ run.undoing /\ run.noted > 0
      /\ run' = [run EXCEPT !.noted = @ - 1]
      /\ IF disk[w.path] = w.content THEN Leaves(w.path, run.old[i])
           ELSE UNCHANGED <<disk, chain>>
  BY DEF Undo
<1>2. i \in 1 .. Len(run.writes)
  BY <1>1 DEF Planned
<1>3. w.path \in Path /\ Fits(w.path, run.old[i])
  BY <1>1, <1>2, PlanTypes
<1>4. SameMutation /\ run'.edited = run.edited /\ run'.noted = i - 1 /\ run'.undoing
  BY <1>1, RunSet
<1>5. CASE disk[w.path] = w.content
  <2>1. /\ disk' = [disk EXCEPT ![w.path] = run.old[i]]
        /\ chain' = IF w.path = LedgerFile THEN Recorded(disk') ELSE chain
    BY <1>1, <1>5 DEF Leaves
  <2>2. /\ disk' = [q \in Path |-> disk'[q]] /\ \A q \in Path : Fits(q, disk'[q])
        /\ disk'[w.path] = run.old[i]
        /\ \A q \in Path : q # w.path => disk'[q] = disk[q]
    BY <1>3, <2>1, ChangeEffect
  <2> QED
    BY <1>1, <1>2, <1>3, <1>4, <1>5, <2>1, <2>2
<1>6. CASE disk[w.path] # w.content
  BY <1>1, <1>2, <1>3, <1>4, <1>6 DEF TypeOK
<1> QED
  BY <1>5, <1>6

LEMMA FailEffect ==
  ASSUME Planned, ApplyFails
  PROVE  /\ run # None /\ ~run.undoing /\ run.noted < Len(run.writes)
         /\ SameMutation /\ run'.edited = run.edited
         /\ run'.noted = run.noted /\ run'.undoing
         /\ UNCHANGED <<disk, asked, reader, asks, edits, chain, harm>>
  BY RunSet DEF ApplyFails

LEMMA EditEffect ==
  ASSUME TypeOK, Planned, EditBaseline
  PROVE  /\ disk' = [q \in Path |-> disk'[q]] /\ \A q \in Path : Fits(q, disk'[q])
         /\ \A q \in Path : q # Baseline => disk'[q] = disk[q]
         /\ UNCHANGED <<asked, asks, chain, harm>> /\ edits' = edits + 1
         /\ run' # None =>
              /\ run # None /\ SameMutation /\ run'.noted = run.noted
              /\ run'.undoing = run.undoing /\ run'.edited
<1>1. PICK text \in Text \cup {Absent} : disk' = [disk EXCEPT ![Baseline] = text]
  BY DEF EditBaseline
<1>2. Fits(Baseline, text)
  BY FitsAt
<1>3. run' # None => run # None /\ run' = [run EXCEPT !.edited = TRUE]
  BY DEF EditBaseline
<1>4. /\ disk' = [q \in Path |-> disk'[q]] /\ \A q \in Path : Fits(q, disk'[q])
      /\ \A q \in Path : q # Baseline => disk'[q] = disk[q]
  BY <1>1, <1>2, ChangeEffect, PathTypes
<1> QED
  BY <1>3, <1>4, RunSet DEF EditBaseline

LEMMA SetBackEffect ==
  ASSUME TypeOK, SetBack
  PROVE  /\ disk' = [q \in Path |-> disk'[q]] /\ \A q \in Path : Fits(q, disk'[q])
         /\ \A q \in Path : q # LedgerFile => disk'[q] = disk[q]
         /\ Starts(Recorded(disk'), Recorded(disk))
         /\ "ledger set back" \in harm' /\ harm \subseteq harm'
         /\ UNCHANGED <<asked, run, asks, chain>> /\ edits' = edits + 1
<1>1. PICK n \in 0 .. Len(Recorded(disk)) - 1 :
        disk' = [disk EXCEPT ![LedgerFile] =
                   IF n = 0 THEN Absent ELSE SubSeq(disk[LedgerFile], 1, n)]
  BY DEF SetBack
<1> DEFINE L == Recorded(disk)
           x == IF n = 0 THEN Absent ELSE SubSeq(disk[LedgerFile], 1, n)
<1>2. /\ L \in Seq(Entry) /\ Len(L) \in 0 .. MaxVersions
      /\ Len(L) = 0 <=> disk[LedgerFile] = Absent
      /\ disk[LedgerFile] # Absent => L = disk[LedgerFile]
  BY Records DEF Recorded
<1>3. n \in Nat /\ n < Len(L) /\ Len(L) \in Nat /\ L = disk[LedgerFile]
  BY <1>1, <1>2, Numbers
<1>4. \A i \in 1 .. n : L[i] \in Entry
  BY <1>2, <1>3, ElementOfSeq
<1>5. CASE n = 0
  <2>1. x = Absent /\ Fits(LedgerFile, x)
    BY <1>5, FitsAt
  <2>2. Starts(Rec(x), L)
    BY <1>2, <2>1, StartsSelf DEF Rec
  <2> QED
    BY <1>1, <2>1, <2>2, ChangeEffect, PathTypes DEF SetBack, Recorded, Rec
<1>6. CASE n > 0
  <2>1. /\ x = SubSeq(L, 1, n) /\ x \in Seq(Entry) /\ Len(x) = n
        /\ \A i \in 1 .. n : x[i] = L[i]
    <3>1. x = SubSeq(L, 1, n)
      BY <1>3, <1>6
    <3>2. /\ SubSeq(L, 1, n) \in Seq(Entry) /\ Len(SubSeq(L, 1, n)) = n - 1 + 1
          /\ \A i \in 1 .. n - 1 + 1 : SubSeq(L, 1, n)[i] = L[1 + i - 1]
      BY <1>3, <1>4, <1>6, SubSeqProperties
    <3> HIDE DEF x, L
    <3>3. n - 1 + 1 = n /\ \A i \in 1 .. n : 1 + i - 1 = i
      BY <1>3
    <3> QED
      BY <3>1, <3>2, <3>3
  <2> HIDE DEF x
  <2>2. Fits(LedgerFile, x)
    <3>1. n \in 1 .. MaxVersions
      BY <1>2, <1>3, <1>6, Numbers
    <3> QED
      BY <2>1, <3>1, FitsAt
  <2>3. Starts(x, L)
    BY <1>3, <2>1 DEF Starts
  <2>4. disk' = [disk EXCEPT ![LedgerFile] = x]
    BY <1>1 DEF x
  <2>5. /\ disk' = [q \in Path |-> disk'[q]] /\ \A q \in Path : Fits(q, disk'[q])
        /\ disk'[LedgerFile] = x /\ \A q \in Path : q # LedgerFile => disk'[q] = disk[q]
    BY <2>2, <2>4, ChangeEffect, PathTypes
  <2>6. Recorded(disk') = x
    BY <2>1, <2>5, NotAbsent DEF Recorded
  <2> QED
    BY <2>3, <2>5, <2>6 DEF SetBack
<1>7. n = 0 \/ n > 0
  BY <1>3
<1> QED
  BY <1>5, <1>6, <1>7

\* What a read that goes on can rely on.
LEMMA WatchEffect ==
  ASSUME Reading, NEW c \in BOOLEAN, NEW u \in BOOLEAN, Watch(c, u), reader' # None
  PROVE  /\ reader # None /\ ~u /\ Writable(disk') /\ ~(c /\ reader.committed)
         /\ reader'.committed = (reader.committed \/ c)
         /\ reader'.at = reader.at /\ reader'.next = reader.next
         /\ reader'.listed = reader.listed /\ reader'.ledger = reader.ledger
         /\ reader'.invalid = reader.invalid
         /\ reader' = [at |-> reader'.at, next |-> reader'.next, listed |-> reader'.listed,
                       ledger |-> reader'.ledger, invalid |-> reader'.invalid,
                       committed |-> reader'.committed]
<1>1. /\ reader # None /\ ~u /\ Writable(disk') /\ ~(c /\ reader.committed)
      /\ reader' = [reader EXCEPT !.committed = @ \/ c]
  BY DEF Watch
<1> QED
  BY <1>1 DEF Reading

LEMMA ReadsEffect ==
  ASSUME Reading, reader # None, NEW v, NEW l, NEW a, NEW n, Reads(v, l, a, n)
  PROVE  /\ reader'.at = IF v THEN "done" ELSE a
         /\ reader'.next = n /\ reader'.listed = {}
         /\ reader'.ledger = IF v THEN Absent ELSE l
         /\ reader'.invalid = v /\ reader'.committed = reader.committed
         /\ reader' = [at |-> reader'.at, next |-> reader'.next, listed |-> reader'.listed,
                       ledger |-> reader'.ledger, invalid |-> reader'.invalid,
                       committed |-> reader'.committed]
  BY DEF Reading, Reads

-----------------------------------------------------------------------------
(* How a mutation begins *)

LEMMA InSequence ==
  ASSUME NEW S \in SUBSET Challenge
  PROVE  /\ SetToSeq(S) \in Seq(S) /\ Len(SetToSeq(S)) \in Nat
         /\ DOMAIN SetToSeq(S) = 1 .. Len(SetToSeq(S))
<1>1. IsFiniteSet(S)
  BY ChallengeAssumption, FS_Subset
<1>2. Cardinality(S) \in Nat /\ ExistsBijection(1 .. Cardinality(S), S)
  BY <1>1, FS_CardinalityType
<1>3. \E f \in [1 .. Cardinality(S) -> S] : IsInjective(f)
  BY <1>2 DEF ExistsBijection, Bijection, Injection
<1>4. SetToSeq(S) \in [1 .. Cardinality(S) -> S]
  BY <1>3 DEF SetToSeq
<1>5. SetToSeq(S) \in Seq(S)
  BY <1>2, <1>4, SeqDef
<1> QED
  BY <1>5, LenProperties

LEMMA OneItem == \A x : Len(<<x>>) = 1 /\ DOMAIN <<x>> = 1 .. 1 /\ <<x>>[1] = x
  OBVIOUS

LEMMA AmendShape ==
  ASSUME TypeOK, NEW r \in Request, r.op = "amend",
         NEW n, n = Len(Recorded(disk)) + 1,
         NEW writes, writes = AmendWrites(r)
  PROVE  /\ Len(writes) \in Nat /\ DOMAIN writes = 1 .. Len(writes) /\ Len(writes) >= 4
         /\ writes[1] = Put(Version(n), r.text)
         /\ writes[2] = Put(Baseline, r.text)
         /\ writes[3] = Put(Amendment(n), NewRecord(r))
         /\ writes[4] =
              Put(LedgerFile,
                  Append(Recorded(disk), [text |-> r.text, record |-> NewRecord(r)]))
         /\ \A i \in 5 .. Len(writes) :
              \E c \in r.resolves : writes[i] = Put(Mirror(c), [by |-> n])
<1> DEFINE order == SetToSeq(r.resolves)
           first == <<Put(Version(n), r.text), Put(Baseline, r.text),
                      Put(Amendment(n), NewRecord(r)), NewLedger(r)>>
           last == [i \in DOMAIN order |-> Put(Mirror(order[i]), [by |-> n])]
           Items == {first[i] : i \in 1 .. 4} \cup {last[i] : i \in DOMAIN order}
<1>1. writes = first \o last
  BY DEF AmendWrites, NewMirrors
<1>2. r.resolves \in SUBSET Challenge
  BY RequestTypes
<1>3. /\ order \in Seq(r.resolves) /\ Len(order) \in Nat /\ DOMAIN order = 1 .. Len(order)
  BY <1>2, InSequence
<1>4. first \in Seq(Items) /\ Len(first) = 4
  OBVIOUS
<1>5. /\ first[1] = Put(Version(n), r.text) /\ first[2] = Put(Baseline, r.text)
      /\ first[3] = Put(Amendment(n), NewRecord(r)) /\ first[4] = NewLedger(r)
  OBVIOUS
<1>6. last \in Seq(Items) /\ Len(last) = Len(order)
  <2>1. last = [i \in 1 .. Len(order) |-> Put(Mirror(order[i]), [by |-> n])]
    BY <1>3
  <2>2. \A i \in 1 .. Len(order) : last[i] \in Items
    BY <1>3
  <2>3. last \in [1 .. Len(order) -> Items]
    BY <2>1, <2>2
  <2>4. last \in Seq(Items)
    BY <1>3, <2>3, SeqDef
  <2>5. DOMAIN last = 1 .. Len(order) /\ DOMAIN last = 1 .. Len(last) /\ Len(last) \in Nat
    BY <2>1, <2>4, LenProperties
  <2> HIDE DEF last, order
  <2> QED
    BY <1>3, <2>4, <2>5
<1>7. \A i \in 1 .. Len(order) :
        \E c \in r.resolves : last[i] = Put(Mirror(c), [by |-> n])
  BY <1>3, ElementOfSeq
<1> HIDE DEF first, last, order, Items
<1>8. /\ writes \in Seq(Items) /\ Len(writes) = 4 + Len(order)
      /\ \A i \in 1 .. 4 + Len(order) :
           writes[i] = IF i <= 4 THEN first[i] ELSE last[i - 4]
  <2>1. /\ first \o last \in Seq(Items) /\ Len(first \o last) = Len(first) + Len(last)
        /\ \A i \in 1 .. Len(first) + Len(last) :
             (first \o last)[i] = IF i <= Len(first) THEN first[i] ELSE last[i - Len(first)]
    <3>1. first \in Seq(Items) /\ last \in Seq(Items)
      BY <1>4, <1>6
    <3> QED
      BY ONLY <3>1, ConcatProperties
  <2> QED
    BY <1>1, <1>4, <1>6, <2>1
<1>9. Len(writes) \in Nat /\ DOMAIN writes = 1 .. Len(writes) /\ Len(writes) >= 4
  BY <1>3, <1>8, LenProperties
<1>10. \A i \in 1 .. 4 : writes[i] = first[i]
  BY <1>3, <1>8
<1>11. ASSUME NEW i \in 5 .. Len(writes)
       PROVE  \E c \in r.resolves : writes[i] = Put(Mirror(c), [by |-> n])
  <2>1. i - 4 \in 1 .. Len(order) /\ writes[i] = last[i - 4]
    BY <1>3, <1>8
  <2> QED
    BY <1>7, <2>1
<1> QED
  BY <1>5, <1>9, <1>10, <1>11 DEF NewLedger

LEMMA BeginEffect ==
  ASSUME TypeOK, Written, NEW p \in Process, Begin(p)
  PROVE  /\ Planned' /\ run = None
         /\ run'.noted = 0 /\ ~run'.undoing /\ ~run'.edited
         /\ run'.request \in Request /\ Admits(run'.request)
         /\ \A i \in 1 .. Len(run'.writes) :
              /\ run'.old[i] = disk[run'.writes[i].path]
              /\ Fits(run'.writes[i].path, run'.writes[i].content)
         /\ UNCHANGED <<disk, reader, asks, edits, chain, harm>>
<1> DEFINE r == asked[p]
           writes == Writes(r)
           old == [i \in DOMAIN writes |-> disk[writes[i].path]]
           n == Len(Recorded(disk)) + 1
           e == [text |-> r.text, record |-> NewRecord(r)]
<1>1. /\ r \in Request /\ Admits(r) /\ run = None
      /\ run' = [request |-> r, writes |-> writes, old |-> old,
                 noted |-> 0, undoing |-> FALSE, edited |-> FALSE]
      /\ UNCHANGED <<disk, reader, asks, edits, chain, harm>>
  BY DEF Begin, TypeOK
<1>2. /\ run'.request = r /\ run'.writes = writes /\ run'.old = old
      /\ run'.noted = 0 /\ run'.undoing = FALSE /\ run'.edited = FALSE
      /\ run' = [request |-> run'.request, writes |-> run'.writes, old |-> run'.old,
                 noted |-> run'.noted, undoing |-> run'.undoing, edited |-> run'.edited]
  BY <1>1
<1>3. /\ Recorded(disk) \in Seq(Entry) /\ Len(Recorded(disk)) \in 0 .. MaxVersions
      /\ Recorded(disk) = Rec(disk[LedgerFile])
  BY Records
<1>4. /\ r.op = "amend" => writes = AmendWrites(r)
      /\ r.op = "challenge" => writes = <<Put(Opened(r.challenge), "open")>>
      /\ r.op = "dismiss" => writes = <<Put(Mirror(r.challenge), [by |-> 0])>>
  BY DEF Writes
<1>5. \A path, content : Put(path, content).path = path
  BY DEF Put
<1>6. \A path, content : Put(path, content).content = content
  BY DEF Put
<1>7. r.op \in {"amend", "challenge", "dismiss"}
  BY <1>1, RequestTypes
<1> HIDE DEF r, writes
<1>8. CASE r.op = "amend"
  <2>1. /\ Len(writes) \in Nat /\ DOMAIN writes = 1 .. Len(writes) /\ Len(writes) >= 4
        /\ writes[1] = Put(Version(n), r.text)
        /\ writes[2] = Put(Baseline, r.text)
        /\ writes[3] = Put(Amendment(n), NewRecord(r))
        /\ writes[4] = Put(LedgerFile, Append(Recorded(disk), e))
        /\ \A i \in 5 .. Len(writes) :
             \E c \in r.resolves : writes[i] = Put(Mirror(c), [by |-> n])
    BY <1>1, <1>4, <1>8, AmendShape
  <2>2. /\ Len(Recorded(disk)) = r.version /\ Len(Recorded(disk)) < MaxVersions
        /\ \A c \in r.resolves : IsOpen(disk, c)
    BY <1>1, <1>8 DEF Admits, AmendAdmits
  <2>3. n \in 1 .. MaxVersions /\ n = r.version + 1 /\ r.resolves \subseteq Challenge
    <3>1. r.resolves \in SUBSET Challenge
      BY <1>1, <1>8, RequestTypes
    <3> HIDE DEF e, old
    <3>2. \A l \in 0 .. MaxVersions : l < MaxVersions => l + 1 \in 1 .. MaxVersions
      BY Numbers
    <3> QED
      BY <1>3, <2>2, <3>1, <3>2
  <2>4. \A i \in 1 .. Len(writes) : old[i] = disk[writes[i].path]
    BY <2>1
  <2>5. old[4] = disk[LedgerFile]
    BY <1>5, <2>1, <2>4
  <2>6. Before' = Recorded(disk) /\ NewNumber' = n
    BY <1>2, <1>3, <2>3, <2>5 DEF Before, NewNumber
  <2>7. \A c \in r.resolves : AmendedIn(Recorded(disk), c) = {}
    BY <2>2 DEF IsOpen, Amending, AmendedIn
  <2>8. AmendPlan'
    BY <1>2, <1>3, <2>1, <2>2, <2>3, <2>6, <2>7 DEF AmendPlan, Written
  <2>9. \A i \in 1 .. Len(writes) : writes[i].path \in Path
    <3>1. Version(n) \in Path /\ Baseline \in Path /\ Amendment(n) \in Path
          /\ LedgerFile \in Path /\ \A c \in r.resolves : Mirror(c) \in Path
      BY <2>3, PathTypes, Numbers
    <3>2. \A i \in 1 .. Len(writes) : i = 1 \/ i = 2 \/ i = 3 \/ i = 4 \/ i \in 5 .. Len(writes)
      BY <2>1
    <3> QED
      BY <1>5, <2>1, <3>1, <3>2
  <2>10. \A i \in 1 .. Len(writes) : Fits(writes[i].path, old[i])
    BY <2>4, <2>9 DEF TypeOK
  <2>11. 0 \in 0 .. Len(writes)
    BY <2>1
  <2>12. Planned'
    BY <1>1, <1>2, <1>8, <2>1, <2>8, <2>10, <2>11 DEF Planned
  <2>13. \A i \in 1 .. Len(writes) : Fits(writes[i].path, writes[i].content)
    <3>1. /\ r.text \in Text /\ NewRecord(r) \in AmendmentRecord /\ e \in Entry
          /\ [by |-> n] \in Resolution
      BY <1>1, <1>8, <2>3, RequestTypes, Resolutions, Numbers
    <3>2. Append(Recorded(disk), e) \in Seq(Entry) /\ Len(Append(Recorded(disk), e)) = n
      BY <1>3, <3>1, AppendProperties
    <3> HIDE DEF e, old, n
    <3>3. Fits(LedgerFile, Append(Recorded(disk), e))
      BY <2>3, <3>2, FitsAt
    <3>4. \A i \in 1 .. Len(writes) : i = 1 \/ i = 2 \/ i = 3 \/ i = 4 \/ i \in 5 .. Len(writes)
      BY <2>1
    <3>5. /\ Fits(Version(n), r.text) /\ Fits(Baseline, r.text)
          /\ Fits(Amendment(n), NewRecord(r)) /\ \A c : Fits(Mirror(c), [by |-> n])
      BY <3>1, FitsAt
    <3>6. ASSUME NEW i \in 5 .. Len(writes)
          PROVE  Fits(writes[i].path, writes[i].content)
      <4>1. PICK c \in r.resolves : writes[i] = Put(Mirror(c), [by |-> n])
        BY <2>1
      <4> QED
        BY <1>5, <1>6, <3>5, <4>1
    <3> QED
      BY <1>5, <1>6, <2>1, <3>3, <3>4, <3>5, <3>6
  <2> QED
    BY <1>1, <1>2, <2>4, <2>12, <2>13
<1>9. CASE r.op = "challenge"
  <2>1. /\ Len(writes) = 1 /\ DOMAIN writes = 1 .. Len(writes)
        /\ writes[1] = Put(Opened(r.challenge), "open")
    BY <1>4, <1>9, OneItem
  <2>2. r.challenge \in Challenge /\ disk[Opened(r.challenge)] = Absent
    BY <1>1, <1>9, RequestTypes DEF Admits
  <2>3. \A i \in 1 .. Len(writes) : i = 1 /\ old[i] = disk[writes[i].path]
    BY <2>1
  <2>4. old[1] = disk[Opened(r.challenge)] /\ writes[1].path = Opened(r.challenge)
    BY <1>5, <2>1, <2>3
  <2> HIDE DEF old, n, e
  <2>5. \A i \in 1 .. Len(writes) : Fits(writes[i].path, old[i])
    <3>1. Fits(Opened(r.challenge), old[1])
      BY <2>2, <2>4, FitsAt
    <3> QED
      BY <2>3, <2>4, <3>1
  <2>6. Planned'
    <3>1. run'.noted \in 0 .. Len(run'.writes) /\ Len(run'.writes) = 1
      BY <1>2, <2>1
    <3> QED
      <4>1. /\ Len(run'.writes) \in Nat /\ DOMAIN run'.writes = 1 .. Len(run'.writes)
            /\ run'.noted \in 0 .. Len(run'.writes)
            /\ \A i \in 1 .. Len(run'.writes) : Fits(run'.writes[i].path, run'.old[i])
        BY <1>2, <2>1, <2>5, <3>1
      <4>2. /\ run'.request \in Request /\ run'.request.op = r.op
            /\ run'.undoing \in BOOLEAN /\ run'.edited \in BOOLEAN /\ ~run'.undoing
        BY <1>1, <1>2
      <4>3. run'.writes = writes /\ run'.old = old /\ run'.request = r
        BY <1>2
      <4> QED
        BY <1>2, <1>9, <2>1, <2>2, <2>4, <4>1, <4>2, <4>3 DEF Planned
  <2>7. \A i \in 1 .. Len(writes) : Fits(writes[i].path, writes[i].content)
    <3>1. Fits(Opened(r.challenge), "open")
      BY FitsAt, Resolutions
    <3> QED
      BY <1>6, <2>1, <2>3, <2>4, <3>1
  <2> QED
    BY <1>1, <1>2, <2>1, <2>3, <2>4, <2>6, <2>7
<1>10. CASE r.op = "dismiss"
  <2>1. /\ Len(writes) = 1 /\ DOMAIN writes = 1 .. Len(writes)
        /\ writes[1] = Put(Mirror(r.challenge), [by |-> 0])
    BY <1>4, <1>10, OneItem
  <2>2. r.challenge \in Challenge
    BY <1>1, <1>10, RequestTypes
  <2>3. \A i \in 1 .. Len(writes) : i = 1 /\ old[i] = disk[writes[i].path]
    BY <2>1
  <2>4. old[1] = disk[Mirror(r.challenge)] /\ writes[1].path = Mirror(r.challenge)
    BY <1>5, <2>1, <2>3
  <2> HIDE DEF old, n, e
  <2>5. \A i \in 1 .. Len(writes) : Fits(writes[i].path, old[i])
    <3>1. Fits(Mirror(r.challenge), old[1])
      BY <2>2, <2>4, PathTypes DEF TypeOK
    <3> QED
      BY <2>3, <2>4, <3>1
  <2>6. Planned'
    <3>1. run'.noted \in 0 .. Len(run'.writes) /\ Len(run'.writes) = 1
      BY <1>2, <2>1
    <3> QED
      <4>1. /\ Len(run'.writes) \in Nat /\ DOMAIN run'.writes = 1 .. Len(run'.writes)
            /\ run'.noted \in 0 .. Len(run'.writes)
            /\ \A i \in 1 .. Len(run'.writes) : Fits(run'.writes[i].path, run'.old[i])
        BY <1>2, <2>1, <2>5, <3>1
      <4>2. /\ run'.request \in Request /\ run'.request.op = r.op
            /\ run'.undoing \in BOOLEAN /\ run'.edited \in BOOLEAN /\ ~run'.undoing
        BY <1>1, <1>2
      <4>3. run'.writes = writes /\ run'.old = old /\ run'.request = r
        BY <1>2
      <4> QED
        BY <1>2, <1>10, <2>1, <2>2, <2>4, <4>1, <4>2, <4>3 DEF Planned
  <2>7. \A i \in 1 .. Len(writes) : Fits(writes[i].path, writes[i].content)
    <3>1. Fits(Mirror(r.challenge), [by |-> 0])
      BY FitsAt, Resolutions
    <3> QED
      BY <1>6, <2>1, <2>3, <2>4, <3>1
  <2> QED
    BY <1>1, <1>2, <2>1, <2>3, <2>4, <2>6, <2>7
<1> QED
  BY <1>7, <1>8, <1>9, <1>10

\* What a step of a mutation leaves of its plan.
LEMMA PlanKept ==
  ASSUME Planned, run # None, SameMutation,
         run'.noted \in 0 .. Len(run.writes), run'.undoing \in BOOLEAN,
         run'.edited \in BOOLEAN, run'.undoing => run'.noted < Len(run.writes)
  PROVE  /\ Planned' /\ NewNumber' = NewNumber /\ Before' = Before /\ After' = After
         /\ Amends' => Amends
<1>1. NewNumber' = NewNumber /\ Before' = Before /\ After' = After
  BY DEF SameMutation, NewNumber, Before, After
<1>2. AmendPlan => AmendPlan'
  BY <1>1 DEF SameMutation, AmendPlan
<1> QED
  BY <1>1, <1>2 DEF Planned, SameMutation, Amends

\* Steps that leave the running mutation, or end it.
Asks == \E p \in Process : AskAmend(p) \/ AskChallenge(p) \/ Refuse(p)
Looks == ReadNames \/ ReadLedger \/ ReadVersion \/ ReadSide \/ ReadEnds
Ends == End \/ Die

LEMMA Steps ==
  ASSUME [Next]_vars
  PROVE  \/ UNCHANGED vars \/ Asks \/ Looks \/ Ends
         \/ \E p \in Process : Begin(p)
         \/ Apply \/ ApplyUnnoted \/ ApplyFails \/ Undo \/ EditBaseline \/ SetBack
  BY DEF Next, Asks, Looks, Ends

LEMMA QuietEffect ==
  ASSUME UNCHANGED vars \/ Asks \/ Looks
  PROVE  UNCHANGED <<disk, run, edits, chain, harm>>
  BY DEF vars, Asks, Looks, AskAmend, AskChallenge, Refuse, ReadNames, ReadLedger,
         ReadVersion, ReadSide, ReadEnds

LEMMA EndEffect ==
  ASSUME Ends
  PROVE  run' = None /\ UNCHANGED <<disk, asked, reader, asks, edits, chain, harm>>
  BY DEF Ends, End, Die

LEMMA PlannedStep ==
  ASSUME TypeOK, Planned, Written, [Next]_vars
  PROVE  /\ Planned'
         /\ run' # None =>
              /\ \A i \in DOMAIN run'.writes :
                   Fits(run'.writes[i].path, run'.writes[i].content)
              /\ run'.noted \in 0 .. Len(run'.writes)
<1> DEFINE Typed == /\ \A i \in DOMAIN run.writes :
                         Fits(run.writes[i].path, run.writes[i].content)
                    /\ run.noted \in 0 .. Len(run.writes)
<1>1. run # None => Typed
  BY DEF TypeOK
<1>2. ASSUME run' = run
      PROVE  Planned' /\ (run' # None => Typed')
  <2>1. NewNumber' = NewNumber /\ Before' = Before /\ After' = After
    BY <1>2 DEF NewNumber, Before, After
  <2>2. AmendPlan' = AmendPlan
    BY <1>2, <2>1 DEF AmendPlan
  <2> QED
    BY <1>1, <1>2, <2>2 DEF Planned
<1>3. ASSUME run' # None, run # None, SameMutation,
             run'.noted \in 0 .. Len(run.writes), run'.undoing \in BOOLEAN,
             run'.edited \in BOOLEAN, run'.undoing => run'.noted < Len(run.writes)
      PROVE  Planned' /\ (run' # None => Typed')
  BY <1>1, <1>3, PlanKept DEF SameMutation
<1>4. ASSUME run' = None
      PROVE  Planned' /\ (run' # None => Typed')
  BY <1>4 DEF Planned
<1>5. ASSUME UNCHANGED vars \/ Asks \/ Looks
      PROVE  Planned' /\ (run' # None => Typed')
  BY <1>2, <1>5, QuietEffect
<1>6. ASSUME Ends
      PROVE  Planned' /\ (run' # None => Typed')
  BY <1>4, <1>6, EndEffect
<1>7. ASSUME NEW p \in Process, Begin(p)
      PROVE  Planned' /\ (run' # None => Typed')
  BY <1>7, BeginEffect DEF Planned
<1>8. ASSUME Apply \/ ApplyUnnoted
      PROVE  Planned' /\ (run' # None => Typed')
  <2>1. /\ run # None /\ ~run.undoing /\ run.noted + 1 \in 1 .. Len(run.writes)
        /\ SameMutation /\ run'.edited = run.edited
        /\ run'.noted = (IF Apply THEN run.noted + 1 ELSE run.noted)
        /\ run'.undoing <=> ~Apply
    BY <1>8, WriteEffect
  <2>2. /\ Len(run.writes) \in Nat /\ run.noted \in 0 .. Len(run.writes)
        /\ run.edited \in BOOLEAN
    BY <2>1 DEF Planned
  <2>3. run'.undoing \in BOOLEAN
    <3>1. \/ run' = [run EXCEPT !.noted = run.noted + 1]
          \/ run' = [run EXCEPT !.undoing = TRUE]
      BY <1>8 DEF Apply, ApplyUnnoted
    <3>2. run.undoing \in BOOLEAN
      BY <2>1 DEF Planned
    <3>3. run'.undoing = run.undoing \/ run'.undoing = TRUE
      BY <2>1, <3>1, RunSet
    <3> QED
      BY <3>2, <3>3
  <2>4. run'.noted \in 0 .. Len(run.writes) /\ (run'.undoing => run'.noted < Len(run.writes))
    <3>1. CASE Apply
      <4>1. run'.noted = run.noted + 1 /\ ~run'.undoing
        BY <2>1, <3>1
      <4> QED
        BY <2>1, <4>1
    <3>2. CASE ~Apply
      <4>1. run'.noted = run.noted
        BY <2>1, <3>2
      <4> QED
        BY <2>1, <2>2, <4>1
    <3> QED
      BY <3>1, <3>2
  <2> QED
    BY <1>3, <1>4, <2>1, <2>2, <2>3, <2>4
<1>9. ASSUME ApplyFails
      PROVE  Planned' /\ (run' # None => Typed')
  <2>1. /\ run # None /\ run.noted < Len(run.writes) /\ SameMutation
        /\ run'.noted = run.noted /\ run'.undoing = TRUE /\ run'.edited = run.edited
    BY <1>9, RunSet DEF ApplyFails
  <2>2. run.noted \in 0 .. Len(run.writes) /\ run.edited \in BOOLEAN
    BY <2>1 DEF Planned
  <2> QED
    BY <1>3, <1>4, <2>1, <2>2
<1>10. ASSUME Undo
       PROVE  Planned' /\ (run' # None => Typed')
  <2>1. /\ run # None /\ run.undoing /\ run.noted > 0 /\ SameMutation
        /\ run'.noted = run.noted - 1
        /\ run'.undoing = run.undoing /\ run'.edited = run.edited
    BY <1>10, RunSet DEF Undo
  <2>2. /\ Len(run.writes) \in Nat /\ run.noted \in 0 .. Len(run.writes)
        /\ run.edited \in BOOLEAN /\ run.undoing \in BOOLEAN
        /\ run.noted < Len(run.writes)
    BY <2>1 DEF Planned
  <2>3. run'.noted \in 0 .. Len(run.writes) /\ run'.noted < Len(run.writes)
    BY <2>1, <2>2
  <2> QED
    BY <1>3, <1>4, <2>1, <2>2, <2>3
<1>11. ASSUME EditBaseline
       PROVE  Planned' /\ (run' # None => Typed')
  <2>1. CASE run = None
    BY <1>4, <1>11, <2>1 DEF EditBaseline
  <2>2. CASE run # None
    <3>1. /\ SameMutation /\ run'.noted = run.noted
          /\ run'.undoing = run.undoing /\ run'.edited = TRUE
      BY <1>11, <2>2, RunSet DEF EditBaseline
    <3>2. /\ run.noted \in 0 .. Len(run.writes) /\ run.undoing \in BOOLEAN
          /\ run.undoing => run.noted < Len(run.writes)
      BY <2>2 DEF Planned
    <3> QED
      BY <1>3, <1>4, <2>2, <3>1, <3>2
  <2> QED
    BY <2>1, <2>2
<1>12. ASSUME SetBack
       PROVE  Planned' /\ (run' # None => Typed')
  BY <1>2, <1>12 DEF SetBack
<1> QED
  BY <1>5, <1>6, <1>7, <1>8, <1>9, <1>10, <1>11, <1>12, Steps

LEMMA AskEffect ==
  ASSUME TypeOK, NEW p \in Process, AskAmend(p) \/ AskChallenge(p)
  PROVE  /\ \E r \in Request : asked' = [asked EXCEPT ![p] = r]
         /\ asks' \in 0 .. MaxAsks /\ UNCHANGED reader
<1>1. asks \in 0 .. MaxAsks /\ asks < MaxAsks /\ asks' = asks + 1 /\ UNCHANGED reader
  BY DEF AskAmend, AskChallenge, TypeOK
<1>2. asks + 1 \in 1 .. MaxAsks /\ asks' \in 0 .. MaxAsks
  BY <1>1, Numbers
<1>3. CASE AskAmend(p)
  <2>1. PICK text \in Text, resolves \in SUBSET Challenge :
          asked' = [asked EXCEPT ![p] =
            [op |-> "amend", text |-> text, resolves |-> resolves,
             version |-> Len(Recorded(disk)), baseline |-> disk[Baseline],
             stamp |-> asks + 1]]
    BY <1>3 DEF AskAmend
  <2>2. Len(Recorded(disk)) \in 0 .. MaxVersions
    BY Records
  <2>3. disk[Baseline] \in Text \cup {Absent}
    BY PathTypes, FitsAt DEF TypeOK
  <2>4. [op |-> "amend", text |-> text, resolves |-> resolves,
         version |-> Len(Recorded(disk)), baseline |-> disk[Baseline],
         stamp |-> asks + 1] \in Request
    BY <1>2, <2>2, <2>3 DEF Request
  <2> QED
    BY <1>1, <1>2, <2>1, <2>4
<1>4. CASE AskChallenge(p)
  <2>1. PICK op \in {"challenge", "dismiss"}, c \in Challenge :
          asked' = [asked EXCEPT ![p] = [op |-> op, challenge |-> c]]
    BY <1>4 DEF AskChallenge
  <2>2. [op |-> op, challenge |-> c] \in Request
    BY DEF Request
  <2> QED
    BY <1>1, <1>2, <2>1, <2>2
<1> QED
  BY <1>3, <1>4

LEMMA BeginReader ==
  ASSUME NEW p \in Process, Begin(p)
  PROVE  UNCHANGED <<reader, asks>> /\ asked' = [asked EXCEPT ![p] = None]
  BY DEF Begin

\* Which reads go on: those watched, and those that read.
LEMMA ReadingStep ==
  ASSUME TypeOK, Reading, [Next]_vars
  PROVE  /\ Reading'
         /\ reader' # None =>
              /\ reader'.at \in {"ledger", "version", "side", "done"}
              /\ reader'.next \in Number
              /\ Fits(LedgerFile, reader'.ledger)
<1> DEFINE Typed == /\ reader.at \in {"ledger", "version", "side", "done"}
                    /\ reader.next \in Number
                    /\ Fits(LedgerFile, reader.ledger)
<1>1. reader # None => Typed
  BY DEF TypeOK
<1>2. ASSUME reader' = reader
      PROVE  Reading' /\ (reader' # None => Typed')
  BY <1>1, <1>2 DEF Reading
<1>3. ASSUME NEW c \in BOOLEAN, NEW u \in BOOLEAN, Watch(c, u)
      PROVE  Reading' /\ (reader' # None => Typed')
  <2> SUFFICES ASSUME reader' # None
               PROVE  Reading' /\ Typed'
    BY DEF Reading
  <2> QED
    BY <1>1, <1>3, WatchEffect DEF Reading
<1>4. ASSUME UNCHANGED vars \/ Asks \/ Ends \/ (\E p \in Process : Begin(p)) \/ ApplyFails
      PROVE  Reading' /\ (reader' # None => Typed')
  <2>1. reader' = reader
    BY <1>4, BeginReader, EndEffect
       DEF vars, Asks, AskAmend, AskChallenge, Refuse, ApplyFails
  <2> QED
    BY <1>2, <2>1
<1>5. ASSUME Apply \/ ApplyUnnoted \/ Undo \/ EditBaseline \/ SetBack
      PROVE  Reading' /\ (reader' # None => Typed')
  <2>1. PICK c \in BOOLEAN, u \in BOOLEAN : Watch(c, u)
    BY <1>5 DEF Apply, ApplyUnnoted, Undo, EditBaseline, SetBack
  <2> QED
    BY <1>3, <2>1
<1>6. Fits(LedgerFile, disk[LedgerFile]) /\ Fits(LedgerFile, Absent)
  BY PathTypes, FitsAt DEF TypeOK
<1>7. \A x : Fits(LedgerFile, x) /\ x # Absent =>
        DOMAIN x = 1 .. Len(x) /\ Len(x) \in 1 .. MaxVersions
  BY FitsAt, LenProperties
<1>8. CASE ReadNames
  <2>1. reader' # None =>
          reader' = [at |-> "ledger", next |-> 1, listed |-> History(disk),
                     ledger |-> Absent, invalid |-> FALSE, committed |-> FALSE]
    BY <1>8 DEF ReadNames
  <2> QED
    BY <1>6, <2>1, Numbers DEF Reading
<1>9. CASE ReadLedger
  <2>1. /\ reader # None
        /\ Reads(Misnumbered(disk[LedgerFile], reader.listed), disk[LedgerFile],
                 IF disk[LedgerFile] = Absent THEN "side" ELSE "version", 1)
    BY <1>9 DEF ReadLedger
  <2>2. /\ reader'.at \in {"done", IF disk[LedgerFile] = Absent THEN "side" ELSE "version"}
        /\ reader'.next = 1
        /\ reader'.ledger = IF reader'.at = "done" THEN Absent ELSE disk[LedgerFile]
        /\ reader' = [at |-> reader'.at, next |-> reader'.next, listed |-> reader'.listed,
                      ledger |-> reader'.ledger, invalid |-> reader'.invalid,
                      committed |-> reader'.committed]
    BY <2>1, ReadsEffect
  <2>3. disk[LedgerFile] # Absent => 1 \in DOMAIN disk[LedgerFile]
    BY <1>6, <1>7, Numbers
  <2> QED
    BY <1>6, <2>2, <2>3, Numbers DEF Reading
<1>10. CASE ReadVersion
  <2> DEFINE k == reader.next
             last == k = Len(reader.ledger)
  <2>1. /\ reader # None /\ reader.at = "version"
        /\ Reads(Unvouched(disk, reader.ledger[k], k), reader.ledger,
                 IF last THEN "side" ELSE "version", k + 1)
    BY <1>10 DEF ReadVersion
  <2>2. /\ reader'.at \in {"done", IF last THEN "side" ELSE "version"}
        /\ reader'.next = k + 1
        /\ reader'.ledger = IF reader'.at = "done" THEN Absent ELSE reader.ledger
        /\ reader' = [at |-> reader'.at, next |-> reader'.next, listed |-> reader'.listed,
                      ledger |-> reader'.ledger, invalid |-> reader'.invalid,
                      committed |-> reader'.committed]
    BY <2>1, ReadsEffect
  <2>3. /\ reader.ledger # Absent /\ k \in DOMAIN reader.ledger
        /\ Fits(LedgerFile, reader.ledger)
    BY <1>1, <2>1 DEF Reading
  <2>4. k + 1 \in Number /\ (~last => k + 1 \in DOMAIN reader.ledger)
    BY <1>7, <2>3, Numbers DEF Number
  <2> HIDE DEF last
  <2> QED
    BY <1>6, <2>2, <2>3, <2>4 DEF Reading
<1>11. CASE ReadSide
  <2>1. /\ reader # None
        /\ Reads(SideInvalid([disk EXCEPT ![LedgerFile] = reader.ledger]), Absent, "done", 1)
    BY <1>11 DEF ReadSide
  <2>2. /\ reader'.at = "done" /\ reader'.next = 1 /\ reader'.ledger = Absent
        /\ reader' = [at |-> reader'.at, next |-> reader'.next, listed |-> reader'.listed,
                      ledger |-> reader'.ledger, invalid |-> reader'.invalid,
                      committed |-> reader'.committed]
    BY <2>1, ReadsEffect
  <2> QED
    BY <1>6, <2>2, Numbers DEF Reading
<1>12. CASE ReadEnds
  BY <1>12 DEF ReadEnds, Reading
<1> QED
  BY <1>4, <1>5, <1>8, <1>9, <1>10, <1>11, <1>12, Steps DEF Looks

LEMMA TypeStep ==
  ASSUME TypeOK, Planned, Reading, Written, [Next]_vars
  PROVE  TypeOK'
<1>1. /\ run' # None =>
           /\ \A i \in DOMAIN run'.writes :
                Fits(run'.writes[i].path, run'.writes[i].content)
           /\ run'.noted \in 0 .. Len(run'.writes)
      /\ reader' # None =>
              /\ reader'.at \in {"ledger", "version", "side", "done"}
              /\ reader'.next \in Number
              /\ Fits(LedgerFile, reader'.ledger)
  BY PlannedStep, ReadingStep
<1>2. disk' = [path \in Path |-> disk'[path]] /\ \A path \in Path : Fits(path, disk'[path])
  <2>1. CASE UNCHANGED disk
    BY <2>1 DEF TypeOK
  <2>2. CASE ~UNCHANGED disk
    <3>1. Apply \/ ApplyUnnoted \/ Undo \/ EditBaseline \/ SetBack
      BY <2>2, Steps, QuietEffect, EndEffect, FailEffect, BeginEffect
    <3> QED
      BY <3>1, WriteEffect, UndoEffect, EditEffect, SetBackEffect
  <2> QED
    BY <2>1, <2>2
<1>3. asked' \in [Process -> Request \cup {None}]
  <2>1. ASSUME NEW p \in Process, NEW r \in Request \cup {None},
               asked' = [asked EXCEPT ![p] = r]
        PROVE  asked' \in [Process -> Request \cup {None}]
    BY <2>1 DEF TypeOK
  <2>2. ASSUME UNCHANGED asked
        PROVE  asked' \in [Process -> Request \cup {None}]
    BY <2>2 DEF TypeOK
  <2>3. CASE Asks \/ \E p \in Process : Begin(p)
    BY <2>1, <2>3, AskEffect, BeginReader DEF Asks, Refuse
  <2>4. CASE ~(Asks \/ \E p \in Process : Begin(p))
    <3>1. UNCHANGED asked
      BY <2>4, Steps DEF vars, Looks, Ends, End, Die, Apply, ApplyUnnoted, ApplyFails,
         Undo, EditBaseline, SetBack, ReadNames, ReadLedger, ReadVersion, ReadSide, ReadEnds
    <3> QED
      BY <2>2, <3>1
  <2> QED
    BY <2>3, <2>4
<1>4. asks' \in 0 .. MaxAsks
  <2>1. CASE UNCHANGED asks
    BY <2>1 DEF TypeOK
  <2>2. CASE ~UNCHANGED asks
    <3>1. \E p \in Process : AskAmend(p) \/ AskChallenge(p)
      BY <2>2 DEF Next, vars, Refuse, Begin, End, Die, Apply, ApplyUnnoted, ApplyFails,
         Undo, EditBaseline, SetBack, ReadNames, ReadLedger, ReadVersion, ReadSide, ReadEnds
    <3> QED
      BY <3>1, AskEffect
  <2> QED
    BY <2>1, <2>2
<1>5. edits' \in 0 .. MaxEdits /\ harm' \subseteq {"ledger set back", "commit unnoted", "mirror unnoted"}
  <2>1. edits \in 0 .. MaxEdits /\ harm \subseteq {"ledger set back", "commit unnoted", "mirror unnoted"}
    BY DEF TypeOK
  <2>2. edits < MaxEdits => edits + 1 \in 0 .. MaxEdits
    <3>1. edits \in 0 .. MaxEdits /\ MaxEdits \in Nat
      BY <2>1, BoundsAssumption
    <3> QED
      BY ONLY <3>1
  <2>3. CASE EditBaseline \/ SetBack
    BY <2>1, <2>2, <2>3 DEF EditBaseline, SetBack
  <2>4. CASE Apply \/ ApplyUnnoted \/ Undo
    BY <2>1, <2>4 DEF Apply, ApplyUnnoted, Undo
  <2>5. CASE ~(EditBaseline \/ SetBack \/ Apply \/ ApplyUnnoted \/ Undo)
    <3>1. UNCHANGED <<edits, harm>>
      BY <2>5, Steps, QuietEffect, EndEffect, FailEffect, BeginEffect
    <3> QED
      BY <2>1, <3>1
  <2> QED
    BY <2>3, <2>4, <2>5
<1> QED
  BY <1>1, <1>2, <1>3, <1>4, <1>5 DEF TypeOK

-----------------------------------------------------------------------------
(* What the running mutation has written so far *)

Changed(path, content) ==
  /\ disk'[path] = content
  /\ \A q \in Path : q # path => disk'[q] = disk[q]
  /\ chain' = IF path = LedgerFile THEN Recorded(disk') ELSE chain

LEMMA OneWrite ==
  ASSUME TypeOK, Planned, Apply \/ ApplyUnnoted, NEW i, i = run.noted + 1
  PROVE  \/ Amends /\ i = 1 /\ Changed(Version(NewNumber), run.request.text)
         \/ Amends /\ i = 2 /\ Changed(Baseline, run.request.text)
         \/ Amends /\ i = 3 /\ Changed(Amendment(NewNumber), NewRecord(run.request))
         \/ Amends /\ i = 4 /\ Changed(LedgerFile, After)
         \/ /\ Amends /\ i >= 5
            /\ \E c \in run.request.resolves :
                 run.writes[i].path = Mirror(c) /\ Changed(Mirror(c), [by |-> NewNumber])
         \/ /\ run.request.op = "challenge" /\ i = 1
            /\ Changed(Opened(run.request.challenge), "open")
         \/ /\ run.request.op = "dismiss" /\ i = 1
            /\ Changed(Mirror(run.request.challenge), [by |-> 0])
<1>1. /\ run # None /\ i \in 1 .. Len(run.writes)
      /\ Changed(run.writes[i].path, run.writes[i].content)
  BY WriteEffect DEF Changed
<1> QED
  BY <1>1, PlanKinds

\* The parts of the disk a change of one file leaves alone.
LEMMA Elsewhere ==
  ASSUME NEW path, \A q \in Path : q # path => disk'[q] = disk[q]
  PROVE  /\ path # LedgerFile =>
              /\ disk'[LedgerFile] = disk[LedgerFile]
              /\ Recorded(disk') = Recorded(disk)
              /\ \A c : Amending(disk', c) = Amending(disk, c)
         /\ path # Baseline => disk'[Baseline] = disk[Baseline]
         /\ \A n \in Number :
              /\ path # Version(n) => disk'[Version(n)] = disk[Version(n)]
              /\ path # Amendment(n) => disk'[Amendment(n)] = disk[Amendment(n)]
         /\ \A c \in Challenge :
              /\ path # Mirror(c) =>
                   /\ disk'[Mirror(c)] = disk[Mirror(c)]
                   /\ Dismissed(disk', c) <=> Dismissed(disk, c)
              /\ path # Opened(c) => disk'[Opened(c)] = disk[Opened(c)]
  BY PathTypes DEF Recorded, Amending, Dismissed

LEMMA WrittenBegin ==
  ASSUME TypeOK, Written, NEW p \in Process, Begin(p)
  PROVE  Written'
<1>1. /\ Planned' /\ run = None /\ run'.noted = 0 /\ ~run'.undoing
      /\ run'.request \in Request /\ Admits(run'.request) /\ UNCHANGED disk
      /\ \A i \in 1 .. Len(run'.writes) : run'.old[i] = disk[run'.writes[i].path]
  BY BeginEffect
<1>2. Once(Recorded(disk)) /\ Recorded(disk) = Rec(disk[LedgerFile])
      /\ Recorded(disk) \in Seq(Entry)
  BY Records DEF Written
<1>3. ASSUME Amends'
      PROVE  /\ \A c \in run'.request.resolves : ~Dismissed(disk, c)
             /\ Starts(Recorded(disk), Before')
             /\ \A c \in Challenge : Dismissed(disk, c) => AmendedIn(Before', c) = {}
  <2>1. AmendPlan' /\ run' # None /\ run'.request.op = "amend"
    BY <1>1, <1>3 DEF Planned, Amends
  <2>2. /\ \A c \in run'.request.resolves : IsOpen(disk, c)
        /\ ~SideInvalid(disk)
    BY <1>1, <2>1 DEF Admits, AmendAdmits, Writable
  <2>3. run'.writes[4].path = LedgerFile /\ 4 \in 1 .. Len(run'.writes)
    <3>1. Len(run'.writes) >= 4 /\ Len(run'.writes) \in Nat
      BY <1>1, <2>1 DEF AmendPlan, Planned
    <3>2. run'.writes[4].path = LedgerFile
      BY <2>1 DEF AmendPlan, Put
    <3> QED
      BY <3>1, <3>2
  <2>4. Before' = Recorded(disk)
    BY <1>1, <1>2, <2>3 DEF Before
  <2>5. \A c \in Challenge : Dismissed(disk, c) => AmendedIn(Recorded(disk), c) = {}
    BY <2>2 DEF SideInvalid, Amending, AmendedIn
  <2>6. \A c \in run'.request.resolves : ~Dismissed(disk, c)
    BY <2>2 DEF IsOpen
  <2> QED
    BY <1>2, <2>4, <2>5, <2>6, StartsSelf
<1>4. run'.request.op = "dismiss" =>
        /\ Amending(disk, run'.request.challenge) = {}
        /\ ~Dismissed(disk, run'.request.challenge)
  BY <1>1 DEF Admits, IsOpen
<1>5. ~(0 >= 1) /\ ~(0 >= 3)
  OBVIOUS
<1> QED
  BY <1>1, <1>2, <1>3, <1>4, <1>5 DEF Written

LEMMA WrittenWrite ==
  ASSUME TypeOK, Planned, Written, Apply \/ ApplyUnnoted
  PROVE  Written'
<1> DEFINE i == run.noted + 1
<1>1. /\ run # None /\ ~run.undoing /\ i \in 1 .. Len(run.writes) /\ SameMutation
      /\ run'.noted \in {i, run.noted} /\ (run'.undoing \/ run'.noted = i)
  BY WriteEffect
<1>2. run.noted \in Nat /\ Len(run.writes) \in Nat
  BY <1>1 DEF Planned
<1> HIDE DEF i
<1>3. run.noted = i - 1 /\ i \in Nat
  BY <1>2 DEF i
<1>4. /\ Before' = Before /\ NewNumber' = NewNumber /\ (Amends' => Amends)
      /\ run'.request = run.request
  BY <1>1 DEF SameMutation, Before, NewNumber, Amends
<1>5. Once(Recorded(disk))
  BY DEF Written
<1>6. Amends =>
        /\ run.noted >= 1 => disk[Version(NewNumber)] = run.request.text
        /\ run.noted >= 3 => disk[Amendment(NewNumber)] = NewRecord(run.request)
        /\ \A c \in run.request.resolves : ~Dismissed(disk, c)
        /\ run.noted < 4 =>
             /\ Starts(Recorded(disk), Before)
             /\ \A c \in Challenge : Dismissed(disk, c) => AmendedIn(Before, c) = {}
  BY <1>1 DEF Written
<1>7. Amends => NewNumber \in Number /\ run.request.resolves \subseteq Challenge
  BY AfterFacts, RequestTypes DEF Amends
<1>8. CASE Amends /\ i <= 4
  <2>1. \/ i = 1 /\ Changed(Version(NewNumber), run.request.text)
        \/ i = 2 /\ Changed(Baseline, run.request.text)
        \/ i = 3 /\ Changed(Amendment(NewNumber), NewRecord(run.request))
        \/ i = 4 /\ Changed(LedgerFile, After)
    <3>1. run.request.op = "amend" /\ ~(i >= 5)
      BY <1>3, <1>8 DEF Amends
    <3> QED
      BY <3>1, OneWrite DEF i
  <2>2. PICK path : /\ Changed(path, disk'[path])
                    /\ \/ path = Version(NewNumber) \/ path = Baseline
                       \/ path = Amendment(NewNumber) \/ path = LedgerFile
                    /\ path = LedgerFile <=> i = 4
                    /\ path = Version(NewNumber) <=> i = 1
                    /\ path = Amendment(NewNumber) <=> i = 3
    BY <2>1, PathsDiffer DEF Changed
  <2>3. \A q \in Path : q # path => disk'[q] = disk[q]
    BY <2>2 DEF Changed
  <2>4. \A c \in Challenge : Dismissed(disk', c) <=> Dismissed(disk, c)
    BY <2>2, <2>3, PathsDiffer, Elsewhere
  <2>5. i # 4 => Recorded(disk') = Recorded(disk)
    BY <2>2, <2>3, Elsewhere
  <2>6. i = 4 => Once(Recorded(disk'))
    <3>1. Once(After) /\ After # Absent
      BY <1>8, AfterFacts
    <3> QED
      BY <2>1, <3>1 DEF Changed, Recorded
  <2>7. /\ i # 1 => disk'[Version(NewNumber)] = disk[Version(NewNumber)]
        /\ i # 3 => disk'[Amendment(NewNumber)] = disk[Amendment(NewNumber)]
    BY <1>7, <1>8, <2>2, <2>3, Elsewhere
  <2>8. /\ i = 1 => disk'[Version(NewNumber)] = run.request.text
        /\ i = 3 => disk'[Amendment(NewNumber)] = NewRecord(run.request)
    BY <2>1 DEF Changed
  <2>9. /\ run'.noted >= 1 => disk'[Version(NewNumber)] = run.request.text
        /\ run'.noted >= 3 => disk'[Amendment(NewNumber)] = NewRecord(run.request)
    BY <1>1, <1>3, <1>6, <1>8, <2>7, <2>8
  <2>10. ~run'.undoing /\ run'.noted < 4 => run.noted < 4 /\ i # 4
    BY <1>1, <1>3
  <2> QED
    BY <1>4, <1>5, <1>6, <1>7, <1>8, <2>4, <2>5, <2>6, <2>9, <2>10 DEF Written, Amends
<1>9. CASE Amends /\ ~(i <= 4)
  <2>1. PICK c \in run.request.resolves : Changed(Mirror(c), [by |-> NewNumber])
    <3>1. run.request.op = "amend" /\ i # 1 /\ i # 2 /\ i # 3 /\ i # 4
      BY <1>3, <1>9 DEF Amends
    <3> QED
      BY <3>1, OneWrite DEF i
  <2>2. /\ \A q \in Path : q # Mirror(c) => disk'[q] = disk[q]
        /\ disk'[Mirror(c)] = [by |-> NewNumber]
    BY <2>1 DEF Changed
  <2>3. Recorded(disk') = Recorded(disk)
    BY <2>2, Elsewhere, PathsDiffer
  <2>4. /\ disk'[Version(NewNumber)] = disk[Version(NewNumber)]
        /\ disk'[Amendment(NewNumber)] = disk[Amendment(NewNumber)]
    BY <1>7, <1>9, <2>2, Elsewhere, PathsDiffer
  <2>5. ~Dismissed(disk', c)
    BY <1>7, <1>9, <2>2, Numbers DEF Dismissed
  <2>6. \A d \in run.request.resolves : ~Dismissed(disk', d)
    BY <1>6, <1>7, <1>9, <2>2, <2>5, Elsewhere, PathsDiffer
  <2>7. run'.noted >= 4 /\ run.noted >= 4
    BY <1>1, <1>3, <1>9
  <2>8. run.noted >= 1 /\ run.noted >= 3 /\ ~(run'.noted < 4)
    BY <1>1, <1>3, <2>7
  <2> QED
    BY <1>4, <1>5, <1>6, <1>9, <2>3, <2>4, <2>6, <2>8 DEF Written, Amends
<1>10. CASE ~Amends
  <2>1. PICK path : /\ path \in {Opened(run.request.challenge), Mirror(run.request.challenge)}
                    /\ \A q \in Path : q # path => disk'[q] = disk[q]
    BY <1>10, OneWrite DEF Changed
  <2>2. Recorded(disk') = Recorded(disk)
    BY <2>1, Elsewhere, PathsDiffer
  <2>3. ASSUME run.request.op = "dismiss"
        PROVE  i = 1
    <3>1. Len(run.writes) = 1 /\ i \in 1 .. Len(run.writes)
      BY <1>1, <2>3 DEF Planned
    <3>2. i \in 1 .. 1
      BY ONLY <3>1
    <3> QED
      BY <3>2
  <2>4. run.request.op = "dismiss" => run'.undoing \/ run'.noted # 0
    BY <1>1, <2>3
  <2> QED
    BY <1>4, <1>5, <1>10, <2>2, <2>4 DEF Written
<1>11. i <= 4 \/ ~(i <= 4)
  OBVIOUS
<1> QED
  BY <1>8, <1>9, <1>10

LEMMA WrittenUndo ==
  ASSUME TypeOK, Planned, Written, Undo
  PROVE  Written'
<1> DEFINE i == run.noted
           w == run.writes[i]
<1>1. /\ run # None /\ run'.undoing /\ i \in 1 .. Len(run.writes) /\ SameMutation
      /\ run'.noted = i - 1 /\ w.path \in Path
      /\ \A q \in Path : q # w.path => disk'[q] = disk[q]
      /\ disk'[w.path] = run.old[i] \/ disk' = disk
  BY UndoEffect
<1>2. i \in Nat /\ Len(run.writes) \in Nat
  BY <1>1 DEF Planned
<1> HIDE DEF i, w
<1>3. /\ Before' = Before /\ NewNumber' = NewNumber /\ (Amends' => Amends)
      /\ run'.request = run.request
  BY <1>1 DEF SameMutation, Before, NewNumber, Amends
<1>4. Once(Recorded(disk))
  BY DEF Written
<1>5. Amends =>
        /\ i >= 1 => disk[Version(NewNumber)] = run.request.text
        /\ i >= 3 => disk[Amendment(NewNumber)] = NewRecord(run.request)
  BY DEF Written, i
<1>6. CASE Amends
  <2>1. NewNumber \in Number
    BY <1>6, AfterFacts
  <2>2. /\ i >= 2 => w.path # Version(NewNumber)
        /\ i >= 4 => w.path # Amendment(NewNumber)
        /\ w.path = LedgerFile => i = 4
    <3>1. \/ i = 1 /\ w.path = Version(NewNumber)
          \/ i = 2 /\ w.path = Baseline
          \/ i = 3 /\ w.path = Amendment(NewNumber)
          \/ i = 4 /\ w.path = LedgerFile
          \/ i >= 5 /\ \E c : w.path = Mirror(c)
      BY <1>1, <1>6, PlanKinds DEF Amends, w
    <3> QED
      BY <1>2, <3>1, PathsDiffer
  <2>3. /\ i >= 2 => disk'[Version(NewNumber)] = disk[Version(NewNumber)]
        /\ i >= 4 => disk'[Amendment(NewNumber)] = disk[Amendment(NewNumber)]
    BY <1>1, <2>1, <2>2, Elsewhere
  <2>4. /\ run'.noted >= 1 => disk'[Version(NewNumber)] = run.request.text
        /\ run'.noted >= 3 => disk'[Amendment(NewNumber)] = NewRecord(run.request)
    BY <1>1, <1>2, <1>5, <1>6, <2>3
  <2>5. Once(Recorded(disk'))
    <3>1. CASE w.path = LedgerFile /\ disk'[w.path] = run.old[i]
      <4>1. Recorded(disk') = Before
        BY <2>2, <3>1 DEF Recorded, Before, Rec
      <4>2. Once(Before)
        BY <1>6, AfterFacts DEF AmendPlan
      <4> QED
        BY <4>1, <4>2
    <3>2. CASE w.path # LedgerFile \/ disk' = disk
      <4>1. Recorded(disk') = Recorded(disk)
        BY <1>1, <3>2, Elsewhere
      <4> QED
        BY <1>4, <4>1
    <3> QED
      BY <1>1, <3>1, <3>2
  <2> QED
    BY <1>1, <1>3, <1>6, <2>4, <2>5 DEF Written, Amends
<1>7. CASE ~Amends
  <2>1. w.path # LedgerFile
    <3>1. \E c : w.path \in {Opened(c), Mirror(c)}
      BY <1>1, <1>7, PlanKinds DEF w
    <3> QED
      BY <3>1, PathsDiffer
  <2>2. Recorded(disk') = Recorded(disk)
    BY <1>1, <2>1, Elsewhere
  <2> QED
    BY <1>1, <1>3, <1>4, <1>7, <2>2 DEF Written
<1> QED
  BY <1>6, <1>7

LEMMA WrittenStep ==
  ASSUME TypeOK, Planned, Written, [Next]_vars
  PROVE  Written'
<1>1. ASSUME UNCHANGED vars \/ Asks \/ Looks
      PROVE  Written'
  <2>1. disk' = disk /\ run' = run
    BY <1>1, QuietEffect
  <2>2. NewNumber' = NewNumber /\ Before' = Before /\ Amends' = Amends
    BY <2>1 DEF NewNumber, Before, Amends
  <2> QED
    BY <2>1, <2>2 DEF Written
<1>2. ASSUME Ends
      PROVE  Written'
  BY <1>2, EndEffect DEF Written, Amends
<1>3. ASSUME ApplyFails
      PROVE  Written'
  <2>1. run # None /\ disk' = disk /\ SameMutation /\ run'.noted = run.noted /\ run'.undoing
    BY <1>3, FailEffect
  <2>2. NewNumber' = NewNumber /\ Before' = Before /\ (Amends' => Amends)
    BY <2>1 DEF SameMutation, NewNumber, Before, Amends
  <2> QED
    BY <2>1, <2>2 DEF Written, SameMutation
<1>4. ASSUME EditBaseline
      PROVE  Written'
  <2>1. \A q \in Path : q # Baseline => disk'[q] = disk[q]
    BY <1>4, EditEffect
  <2>2. /\ Recorded(disk') = Recorded(disk)
        /\ \A c : Amending(disk', c) = Amending(disk, c)
        /\ \A n \in Number : /\ disk'[Version(n)] = disk[Version(n)]
                             /\ disk'[Amendment(n)] = disk[Amendment(n)]
        /\ \A c \in Challenge : Dismissed(disk', c) <=> Dismissed(disk, c)
    BY <2>1, Elsewhere, PathsDiffer
  <2>3. CASE run' = None
    BY <2>2, <2>3 DEF Written, Amends
  <2>4. CASE run' # None
    <3>1. /\ run # None /\ SameMutation /\ run'.noted = run.noted
          /\ run'.undoing = run.undoing
      BY <1>4, <2>4, EditEffect
    <3>2. /\ NewNumber' = NewNumber /\ Before' = Before /\ (Amends' => Amends)
          /\ run'.request = run.request
      BY <3>1 DEF SameMutation, NewNumber, Before, Amends
    <3>3. /\ Amends => NewNumber \in Number /\ run.request.resolves \subseteq Challenge
          /\ run.request.op = "dismiss" => run.request.challenge \in Challenge
      <4>1. run.request \in Request
        BY <3>1 DEF Planned
      <4> QED
        BY <4>1, AfterFacts, RequestTypes DEF Amends
    <3> QED
      BY <2>2, <3>1, <3>2, <3>3 DEF Written
  <2> QED
    BY <2>3, <2>4
<1>5. ASSUME SetBack
      PROVE  Written'
  <2>1. /\ \A q \in Path : q # LedgerFile => disk'[q] = disk[q]
        /\ Starts(Recorded(disk'), Recorded(disk)) /\ run' = run
        /\ disk' = [q \in Path |-> disk'[q]] /\ \A q \in Path : Fits(q, disk'[q])
    BY <1>5, SetBackEffect
  <2>2. Recorded(disk) \in Seq(Entry) /\ Recorded(disk') \in Seq(Entry)
    <3>1. Fits(LedgerFile, disk'[LedgerFile])
      BY <2>1, PathTypes
    <3>2. Recorded(disk') = Rec(disk'[LedgerFile])
      BY DEF Recorded, Rec
    <3> QED
      BY <3>1, <3>2, RecOf, Records
  <2>3. Once(Recorded(disk'))
    BY <2>1, <2>2, OnceKept DEF Written
  <2>4. /\ NewNumber' = NewNumber /\ Before' = Before /\ Amends' = Amends
    BY <2>1 DEF NewNumber, Before, Amends
  <2>5. /\ \A n \in Number : /\ disk'[Version(n)] = disk[Version(n)]
                             /\ disk'[Amendment(n)] = disk[Amendment(n)]
        /\ \A c \in Challenge : Dismissed(disk', c) <=> Dismissed(disk, c)
    BY <2>1, Elsewhere, PathsDiffer
  <2>6. \A c : Amending(disk, c) = {} => Amending(disk', c) = {}
    <3>1. \A c : AmendedIn(Recorded(disk'), c) \subseteq AmendedIn(Recorded(disk), c)
      BY <2>1, <2>2, StartsFacts
    <3> QED
      BY <3>1 DEF Amending, AmendedIn
  <2>7. Amends /\ Starts(Recorded(disk), Before) => Starts(Recorded(disk'), Before)
    BY <2>1, <2>2, AfterFacts, StartsTrans
  <2>8. /\ Amends => NewNumber \in Number /\ run.request.resolves \subseteq Challenge
        /\ run # None /\ run.request.op = "dismiss" => run.request.challenge \in Challenge
    BY AfterFacts, RequestTypes DEF Amends, Planned
  <2> QED
    BY <2>1, <2>3, <2>4, <2>5, <2>6, <2>7, <2>8 DEF Written
<1> QED
  BY <1>1, <1>2, <1>3, <1>4, <1>5, WrittenBegin, WrittenWrite, WrittenUndo, Steps

-----------------------------------------------------------------------------
(* The start, and type correctness *)

LEMMA InitFacts ==
  ASSUME Init
  PROVE  /\ TypeOK /\ run = None /\ reader = None /\ harm = {}
         /\ chain \in Seq(Entry) /\ Recorded(disk) = chain
         /\ \A k \in DOMAIN chain :
              /\ chain[k].record.resolves = {}
              /\ disk[Version(k)] = chain[k].text
              /\ disk[Amendment(k)] = chain[k].record
              /\ k \in Number
         /\ \A path \in Chained : disk[path] # Absent => path[2] <= Len(chain)
         /\ \A c \in Challenge : disk[Mirror(c)] = Absent
         /\ chain = <<>> => ~SomeOpened
<1>1. PICK n \in 0 .. MaxStart, open \in SUBSET Challenge :
        \E texts \in [0 .. n -> Text \cup {Absent}] :
          /\ n = 0 => open = {}
          /\ n > 0 => texts[0] = Absent
          /\ \A k \in 1 .. n : texts[k] \notin {Absent, texts[k - 1]}
          /\ chain = [k \in 1 .. n |->
               [text |-> texts[k], record |-> [resolves |-> {}, stamp |-> 0]]]
          /\ disk = [path \in Path |->
               CASE path = Baseline -> texts[n]
                 [] path = LedgerFile -> IF n = 0 THEN Absent ELSE chain
                 [] path \in {Version(k) : k \in 1 .. n} -> chain[path[2]].text
                 [] path \in {Amendment(k) : k \in 1 .. n} -> chain[path[2]].record
                 [] path \in {Opened(c) : c \in open} -> "open"
                 [] OTHER -> Absent]
  BY DEF Init
<1>2. PICK texts \in [0 .. n -> Text \cup {Absent}] :
          /\ n = 0 => open = {}
          /\ n > 0 => texts[0] = Absent
          /\ \A k \in 1 .. n : texts[k] \notin {Absent, texts[k - 1]}
          /\ chain = [k \in 1 .. n |->
               [text |-> texts[k], record |-> [resolves |-> {}, stamp |-> 0]]]
          /\ disk = [path \in Path |->
               CASE path = Baseline -> texts[n]
                 [] path = LedgerFile -> IF n = 0 THEN Absent ELSE chain
                 [] path \in {Version(k) : k \in 1 .. n} -> chain[path[2]].text
                 [] path \in {Amendment(k) : k \in 1 .. n} -> chain[path[2]].record
                 [] path \in {Opened(c) : c \in open} -> "open"
                 [] OTHER -> Absent]
  BY <1>1
<1>3. n \in Nat /\ n <= MaxVersions /\ \A k \in 1 .. n : k \in Number /\ k \in 0 .. n
  BY BoundsAssumption DEF Number
<1> DEFINE first == [resolves |-> {}, stamp |-> 0]
<1>4. first \in AmendmentRecord /\ first.resolves = {}
  BY BoundsAssumption DEF AmendmentRecord
<1>5. \A k \in 1 .. n : texts[k] \in Text
  BY <1>2, <1>3
<1>6. /\ \A k \in 1 .. n : chain[k].text = texts[k] /\ chain[k].record = first
      /\ \A k \in 1 .. n : chain[k] \in Entry
      /\ DOMAIN chain = 1 .. n
  BY <1>2, <1>4, <1>5 DEF Entry
<1>7. chain \in Seq(Entry) /\ Len(chain) = n
  <2>1. chain \in [1 .. n -> Entry]
    BY <1>2, <1>6
  <2>2. chain \in Seq(Entry)
    BY <1>3, <2>1, SeqDef
  <2>3. Len(chain) \in Nat /\ DOMAIN chain = 1 .. Len(chain)
    BY <2>2, LenProperties
  <2> QED
    BY <1>3, <1>6, <2>2, <2>3
<1> HIDE DEF first
<1>8. disk[Baseline] = texts[n] /\ texts[n] \in Text \cup {Absent}
  <2>1. n \in 0 .. n
    BY <1>3
  <2>2. texts[n] \in Text \cup {Absent}
    BY <1>2, <2>1
  <2>3. disk[Baseline] = texts[n]
    BY <1>2, PathTypes, PathsDiffer
  <2> QED
    BY <2>2, <2>3
<1>9. disk[LedgerFile] = IF n = 0 THEN Absent ELSE chain
  BY <1>2, PathTypes, PathsDiffer
<1>10. \A k \in Number : disk[Version(k)] = IF k \in 1 .. n THEN chain[k].text ELSE Absent
  <2> TAKE k \in Number
  <2>1. Version(k) \in Path /\ Version(k)[2] = k
    BY PathTypes
  <2>2. /\ Version(k) # Baseline /\ Version(k) # LedgerFile
        /\ Version(k) \in {Version(j) : j \in 1 .. n} <=> k \in 1 .. n
        /\ Version(k) \notin {Amendment(j) : j \in 1 .. n}
        /\ Version(k) \notin {Opened(c) : c \in open}
    BY PathsDiffer
  <2> QED
    BY <1>2, <2>1, <2>2
<1>11. \A k \in Number :
         disk[Amendment(k)] = IF k \in 1 .. n THEN chain[k].record ELSE Absent
  <2> TAKE k \in Number
  <2>1. Amendment(k) \in Path /\ Amendment(k)[2] = k
    BY PathTypes
  <2>2. /\ Amendment(k) # Baseline /\ Amendment(k) # LedgerFile
        /\ Amendment(k) \in {Amendment(j) : j \in 1 .. n} <=> k \in 1 .. n
        /\ Amendment(k) \notin {Version(j) : j \in 1 .. n}
        /\ Amendment(k) \notin {Opened(c) : c \in open}
    BY PathsDiffer
  <2> QED
    BY <1>2, <2>1, <2>2
<1>12. \A c \in Challenge : disk[Opened(c)] = IF c \in open THEN "open" ELSE Absent
  <2> TAKE c \in Challenge
  <2>1. /\ Opened(c) \in Path
        /\ Opened(c) # Baseline /\ Opened(c) # LedgerFile
        /\ Opened(c) \notin {Version(j) : j \in 1 .. n}
        /\ Opened(c) \notin {Amendment(j) : j \in 1 .. n}
        /\ Opened(c) \in {Opened(d) : d \in open} <=> c \in open
    BY PathsDiffer, PathTypes
  <2> QED
    BY <1>2, <2>1
<1>13. \A c \in Challenge : disk[Mirror(c)] = Absent
  <2> TAKE c \in Challenge
  <2>1. /\ Mirror(c) \in Path
        /\ Mirror(c) # Baseline /\ Mirror(c) # LedgerFile
        /\ Mirror(c) \notin {Version(j) : j \in 1 .. n}
        /\ Mirror(c) \notin {Amendment(j) : j \in 1 .. n}
        /\ Mirror(c) \notin {Opened(d) : d \in open}
    BY PathsDiffer, PathTypes
  <2> QED
    BY <1>2, <2>1
<1>14. Recorded(disk) = chain
  BY <1>7, <1>9, EmptySeq, NotAbsent, SeqEqual DEF Recorded
<1>15. \A path \in Chained : disk[path] # Absent => path[2] <= Len(chain)
  <2> TAKE path \in Chained
  <2>1. path[2] \in Number /\ path \in {Version(path[2]), Amendment(path[2])}
    BY PathTypes
  <2>2. disk[path] # Absent => path[2] \in 1 .. n
    BY <1>10, <1>11, <2>1
  <2> QED
    BY <1>3, <1>7, <2>2
<1>16. chain = <<>> => ~SomeOpened
  BY <1>2, <1>7, <1>12, EmptySeq DEF SomeOpened
<1>17. ASSUME NEW path \in Path
       PROVE  Fits(path, disk[path])
  <2>1. \/ path = Baseline \/ path = LedgerFile \/ \E k \in Number : path = Version(k)
        \/ \E k \in Number : path = Amendment(k)
        \/ \E c \in Challenge : path \in {Opened(c), Mirror(c)}
    BY DEF Path, Chained, Side
  <2>2. CASE path = Baseline
    BY <1>8, <2>2, FitsAt
  <2>3. CASE path = LedgerFile
    <3>1. n # 0 => Len(chain) \in 1 .. MaxVersions
      BY <1>3, <1>7, Numbers
    <3> QED
      BY <1>7, <1>9, <2>3, <3>1, FitsAt
  <2>4. CASE \E k \in Number : path = Version(k)
    BY <1>5, <1>6, <1>10, <2>4, FitsAt
  <2>5. CASE \E k \in Number : path = Amendment(k)
    BY <1>4, <1>6, <1>11, <2>5, FitsAt
  <2>6. CASE \E c \in Challenge : path \in {Opened(c), Mirror(c)}
    BY <1>12, <1>13, <2>6, FitsAt
  <2> QED
    BY <2>1, <2>2, <2>3, <2>4, <2>5, <2>6
<1>18. /\ disk = [path \in Path |-> disk[path]] /\ run = None /\ reader = None /\ harm = {}
       /\ asked \in [Process -> Request \cup {None}] /\ asks = 0 /\ edits = 0
  BY <1>2 DEF Init
<1>19. TypeOK
  BY <1>17, <1>18, BoundsAssumption DEF TypeOK
<1> QED
  BY <1>3, <1>4, <1>6, <1>7, <1>10, <1>11, <1>13, <1>14, <1>15, <1>16, <1>18, <1>19

LEMMA InitWritten == Init => TypeOK /\ Planned /\ Reading /\ Written
<1> SUFFICES ASSUME Init PROVE TypeOK /\ Planned /\ Reading /\ Written
  OBVIOUS
<1>1. \A c : AmendedIn(chain, c) = {}
  BY InitFacts DEF AmendedIn
<1> QED
  BY <1>1, InitFacts DEF Planned, Reading, Written, Once, Amends

\* Every file holds what a file of its kind can hold, and every mutation and
\* every read in progress is of the shape the actions give it.
THEOREM TypeCorrect == Spec => []TypeOK
<1> DEFINE Typed == TypeOK /\ Planned /\ Reading /\ Written
<1>1. Init => Typed
  BY InitWritten
<1>2. Typed /\ [Next]_vars => Typed'
  BY TypeStep, PlannedStep, ReadingStep, WrittenStep
<1>3. Typed => TypeOK
  OBVIOUS
<1> QED
  BY <1>1, <1>2, <1>3, PTL DEF Spec

-----------------------------------------------------------------------------
(* IDENTITY.md *)

\* What a write leaves: at which place in the plan IDENTITY.md changes.
LEMMA BaselineWrite ==
  ASSUME TypeOK, Planned, Apply \/ ApplyUnnoted
  PROVE  /\ run # None /\ ~run.undoing /\ SameMutation /\ run'.edited = run.edited
         /\ run.noted \in Nat /\ (run'.undoing \/ run'.noted = run.noted + 1)
         /\ disk'[Baseline] # disk[Baseline] => Amends /\ run.noted + 1 = 2
<1>1. /\ run # None /\ ~run.undoing /\ SameMutation /\ run'.edited = run.edited
      /\ (run'.undoing \/ run'.noted = run.noted + 1)
  BY WriteEffect
<1>2. run.noted \in Nat
  BY <1>1 DEF Planned
<1>3. \/ Amends /\ run.noted + 1 = 2
      \/ \E path : path # Baseline /\ \A q \in Path : q # path => disk'[q] = disk[q]
  BY OneWrite, PathsDiffer DEF Changed
<1>4. (Amends /\ run.noted + 1 = 2) \/ disk'[Baseline] = disk[Baseline]
  BY <1>3, PathTypes
<1> QED
  BY <1>1, <1>2, <1>4

LEMMA NamedStep ==
  ASSUME TypeOK, Planned, Written, Named, [Next]_vars
  PROVE  Named'
<1>1. ASSUME UNCHANGED vars \/ Asks \/ Looks
      PROVE  Named'
  BY <1>1, QuietEffect DEF Named, Amends
<1>2. ASSUME Ends
      PROVE  Named'
  BY <1>2, EndEffect DEF Named, Amends
<1>3. ASSUME NEW p \in Process, Begin(p)
      PROVE  Named'
  BY <1>3, BeginEffect DEF Named, Amends, Admits, AmendAdmits
<1>4. ASSUME Apply \/ ApplyUnnoted
      PROVE  Named'
  <2> SUFFICES ASSUME Amends', ~run'.undoing, run'.noted <= 1, ~run'.edited
               PROVE  disk'[Baseline] = run'.request.baseline
    BY DEF Named
  <2>1. /\ run # None /\ ~run.undoing /\ SameMutation /\ run'.edited = run.edited
        /\ run.noted \in Nat /\ run'.noted = run.noted + 1
        /\ disk'[Baseline] # disk[Baseline] => run.noted + 1 = 2
    BY <1>4, BaselineWrite
  <2>2. run.noted + 1 # 2 /\ run.noted <= 1
    BY <2>1
  <2> QED
    BY <2>1, <2>2 DEF Named, Amends, SameMutation
<1>5. ASSUME ApplyFails \/ Undo
      PROVE  Named'
  BY <1>5, FailEffect, UndoEffect DEF Named
<1>6. ASSUME EditBaseline
      PROVE  Named'
  BY <1>6, EditEffect DEF Named, Amends
<1>7. ASSUME SetBack
      PROVE  Named'
  <2>1. disk'[Baseline] = disk[Baseline] /\ run' = run
    BY <1>7, SetBackEffect, PathTypes, PathsDiffer
  <2> QED
    BY <2>1 DEF Named, Amends
<1> QED
  BY <1>1, <1>2, <1>3, <1>4, <1>5, <1>6, <1>7, Steps

\* Core replaces only the IDENTITY.md its caller had named, unless someone
\* writes it while the amendment runs, or the amendment is being undone.
THEOREM ReplacesNamedOnly == Spec => ReplacesWhatItNamed
<1> DEFINE IInv == TypeOK /\ Planned /\ Reading /\ Written /\ Named
           Step == run # None /\ edits' = edits /\ disk'[Baseline] # disk[Baseline]
                     => run.undoing \/ run.edited \/ disk[Baseline] = run.request.baseline
<1>1. Init => IInv
  BY InitWritten, InitFacts DEF Named, Amends
<1>2. IInv /\ [Next]_vars => IInv'
  BY TypeStep, PlannedStep, ReadingStep, WrittenStep, NamedStep
<1>3. IInv /\ [Next]_vars => [Step]_vars
  <2> SUFFICES ASSUME IInv, [Next]_vars, run # None, edits' = edits,
                      disk'[Baseline] # disk[Baseline]
               PROVE  run.undoing \/ run.edited \/ disk[Baseline] = run.request.baseline
    OBVIOUS
  <2>1. CASE Apply \/ ApplyUnnoted
    BY <2>1, BaselineWrite DEF Named, Amends
  <2>2. CASE Undo
    BY <2>2, UndoEffect
  <2>3. CASE EditBaseline \/ SetBack
    <3>1. edits \in 0 .. MaxEdits /\ MaxEdits \in Nat
      BY BoundsAssumption DEF TypeOK
    <3>2. edits' = edits + 1
      BY <2>3, EditEffect, SetBackEffect
    <3>3. edits + 1 # edits
      BY ONLY <3>1
    <3> QED
      BY <3>2, <3>3
  <2> QED
    BY <2>1, <2>2, <2>3, Steps, QuietEffect, EndEffect, BeginEffect, FailEffect
<1> QED
  BY <1>1, <1>2, <1>3, PTL DEF Spec, ReplacesWhatItNamed

-----------------------------------------------------------------------------
(* Resolutions *)

\* The commit of an amendment resolves only what was still open.
LEMMA CommitResolves ==
  ASSUME TypeOK, Planned, Written, Amends, ~run.undoing, run.noted < 4,
         NEW c \in Challenge, Amending(disk, c) # {} \/ Dismissed(disk, c)
  PROVE  AmendedIn(After, c) = Amending(disk, c)
<1>1. /\ Recorded(disk) \in Seq(Entry) /\ Before \in Seq(Entry) /\ After \in Seq(Entry)
      /\ Starts(Recorded(disk), Before) /\ Starts(Before, After) /\ Once(After)
      /\ AmendedIn(After, c) =
           AmendedIn(Before, c) \cup (IF c \in run.request.resolves THEN {NewNumber} ELSE {})
  BY Records, AfterFacts DEF Written
<1>2. AmendedIn(Recorded(disk), c) \subseteq AmendedIn(Before, c)
      /\ AmendedIn(Before, c) \subseteq AmendedIn(After, c)
  BY <1>1, StartsFacts
<1>3. Amending(disk, c) = AmendedIn(Recorded(disk), c)
  BY DEF Amending, AmendedIn
<1>4. CASE Amending(disk, c) # {}
  BY <1>1, <1>2, <1>3, <1>4 DEF Once
<1>5. CASE Dismissed(disk, c)
  <2>1. AmendedIn(Before, c) = {} /\ c \notin run.request.resolves
    BY <1>5 DEF Written
  <2> QED
    BY <1>1, <1>2, <1>3, <2>1
<1> QED
  BY <1>4, <1>5

LEMMA WriteResolves ==
  ASSUME TypeOK, Planned, Written, Apply \/ ApplyUnnoted, NEW c \in Challenge,
         disk[Opened(c)] # Absent, ~IsOpen(disk, c)
  PROVE  /\ Amending(disk', c) = Amending(disk, c)
         /\ Dismissed(disk', c) <=> Dismissed(disk, c)
<1> DEFINE i == run.noted + 1
<1>1. run # None /\ ~run.undoing /\ run.noted \in Nat
  BY WriteEffect DEF Planned
<1>2. Amending(disk, c) # {} \/ Dismissed(disk, c)
  BY DEF IsOpen
<1>3. ASSUME NEW path, \A q \in Path : q # path => disk'[q] = disk[q],
             path # LedgerFile, path # Mirror(c)
      PROVE  /\ Amending(disk', c) = Amending(disk, c)
             /\ Dismissed(disk', c) <=> Dismissed(disk, c)
  BY <1>3, Elsewhere
<1>4. ASSUME Amends, i = 4, Changed(LedgerFile, After)
      PROVE  /\ Amending(disk', c) = Amending(disk, c)
             /\ Dismissed(disk', c) <=> Dismissed(disk, c)
  <2>1. run.noted < 4
    BY <1>1, <1>4
  <2>2. Recorded(disk') = After
    BY <1>4, AfterFacts DEF Changed, Recorded
  <2>3. Amending(disk', c) = AmendedIn(After, c)
    BY <2>2 DEF Amending, AmendedIn
  <2>4. Dismissed(disk', c) <=> Dismissed(disk, c)
    BY <1>4, PathsDiffer, Elsewhere DEF Changed
  <2> QED
    BY <1>1, <1>2, <1>4, <2>1, <2>3, <2>4, CommitResolves
<1>5. ASSUME Amends, NEW d \in run.request.resolves, Changed(Mirror(d), [by |-> NewNumber])
      PROVE  /\ Amending(disk', c) = Amending(disk, c)
             /\ Dismissed(disk', c) <=> Dismissed(disk, c)
  <2>1. \A q \in Path : q # Mirror(d) => disk'[q] = disk[q]
    BY <1>5 DEF Changed
  <2>2. CASE d = c
    <3>1. ~Dismissed(disk, c)
      BY <1>1, <1>5, <2>2 DEF Written
    <3>2. ~Dismissed(disk', c)
      BY <1>5, <2>2, AfterFacts, Numbers DEF Changed, Dismissed
    <3> QED
      BY <2>1, <3>1, <3>2, Elsewhere, PathsDiffer
  <2> QED
    BY <1>3, <2>1, <2>2, PathsDiffer
<1>6. ASSUME run.request.op = "dismiss", i = 1,
             Changed(Mirror(run.request.challenge), [by |-> 0])
      PROVE  /\ Amending(disk', c) = Amending(disk, c)
             /\ Dismissed(disk', c) <=> Dismissed(disk, c)
  <2>1. run.noted = 0
    BY <1>1, <1>6
  <2>2. run.request.challenge # c
    BY <1>1, <1>2, <1>6, <2>1 DEF Written
  <2> QED
    BY <1>3, <1>6, <2>2, PathsDiffer DEF Changed
<1>7. \/ \E path : /\ \A q \in Path : q # path => disk'[q] = disk[q]
                   /\ path # LedgerFile /\ path # Mirror(c)
      \/ Amends /\ i = 4 /\ Changed(LedgerFile, After)
      \/ Amends /\ \E d \in run.request.resolves : Changed(Mirror(d), [by |-> NewNumber])
      \/ /\ run.request.op = "dismiss" /\ i = 1
         /\ Changed(Mirror(run.request.challenge), [by |-> 0])
  <2>1. \A path, content : Changed(path, content) =>
          \A q \in Path : q # path => disk'[q] = disk[q]
    BY DEF Changed
  <2> QED
    BY <2>1, OneWrite, PathsDiffer
<1> QED
  BY <1>3, <1>4, <1>5, <1>6, <1>7

\* A challenge that is amended or dismissed is neither reopened nor resolved
\* another way: not by a write of any mutation, however late it comes and
\* whatever failed before.
THEOREM ResolvedForGood == Spec => ResolutionIsFinal
<1> DEFINE IInv == TypeOK /\ Planned /\ Reading /\ Written
           Step == \A c \in Challenge :
                     /\ disk[Opened(c)] # Absent /\ ~IsOpen(disk, c)
                     /\ edits' = edits
                     /\ run # None => ~run.undoing
                     => /\ Amending(disk', c) = Amending(disk, c)
                        /\ Dismissed(disk', c) = Dismissed(disk, c)
<1>1. Init => IInv
  BY InitWritten
<1>2. IInv /\ [Next]_vars => IInv'
  BY TypeStep, PlannedStep, ReadingStep, WrittenStep
<1>3. IInv /\ [Next]_vars => [Step]_vars
  <2> SUFFICES ASSUME IInv, [Next]_vars, NEW c \in Challenge,
                      disk[Opened(c)] # Absent, ~IsOpen(disk, c), edits' = edits,
                      run # None => ~run.undoing
               PROVE  /\ Amending(disk', c) = Amending(disk, c)
                      /\ Dismissed(disk', c) = Dismissed(disk, c)
    OBVIOUS
  <2>1. CASE Apply \/ ApplyUnnoted
    <3>1. Dismissed(disk, c) \in BOOLEAN /\ Dismissed(disk', c) \in BOOLEAN
      BY DEF Dismissed
    <3> QED
      BY <2>1, <3>1, WriteResolves
  <2>2. CASE Undo
    BY <2>2, UndoEffect
  <2>3. CASE EditBaseline \/ SetBack
    <3>1. edits \in 0 .. MaxEdits /\ MaxEdits \in Nat
      BY BoundsAssumption DEF TypeOK
    <3>2. edits' = edits + 1
      BY <2>3, EditEffect, SetBackEffect
    <3>3. edits + 1 # edits
      BY ONLY <3>1
    <3> QED
      BY <3>2, <3>3
  <2>4. CASE UNCHANGED disk
    BY <2>4
  <2> QED
    BY <2>1, <2>2, <2>3, <2>4, Steps, QuietEffect, EndEffect, BeginEffect, FailEffect
<1> QED
  BY <1>1, <1>2, <1>3, PTL DEF Spec, ResolutionIsFinal

-----------------------------------------------------------------------------
(* The chain and its files *)

Reverted(path, content, old) ==
  IF disk[path] = content THEN Changed(path, old) ELSE UNCHANGED <<disk, chain>>

LEMMA OneUndo ==
  ASSUME TypeOK, Planned, Undo, NEW i, i = run.noted
  PROVE  /\ run # None /\ run.undoing /\ i \in 1 .. Len(run.writes) /\ SameMutation
         /\ run'.noted = i - 1 /\ run'.undoing
         /\ \/ Amends /\ i = 1 /\ Reverted(Version(NewNumber), run.request.text, run.old[1])
            \/ Amends /\ i = 2 /\ Reverted(Baseline, run.request.text, run.old[2])
            \/ /\ Amends /\ i = 3
               /\ Reverted(Amendment(NewNumber), NewRecord(run.request), run.old[3])
            \/ Amends /\ i = 4 /\ Reverted(LedgerFile, After, run.old[4])
            \/ /\ Amends /\ i >= 5
               /\ \E c \in run.request.resolves :
                    /\ run.writes[i].path = Mirror(c)
                    /\ Reverted(Mirror(c), [by |-> NewNumber], run.old[i])
            \/ /\ run.request.op = "challenge" /\ i = 1
               /\ Reverted(Opened(run.request.challenge), "open", run.old[1])
            \/ /\ run.request.op = "dismiss" /\ i = 1
               /\ Reverted(Mirror(run.request.challenge), [by |-> 0], run.old[1])
<1>1. /\ run # None /\ run.undoing /\ i \in 1 .. Len(run.writes) /\ SameMutation
      /\ run'.noted = i - 1 /\ run'.undoing
      /\ \A q \in Path : q # run.writes[i].path => disk'[q] = disk[q]
      /\ IF disk[run.writes[i].path] = run.writes[i].content
           THEN /\ disk'[run.writes[i].path] = run.old[i]
                /\ chain' = IF run.writes[i].path = LedgerFile THEN Recorded(disk') ELSE chain
           ELSE UNCHANGED <<disk, chain>>
  BY UndoEffect
<1>2. Reverted(run.writes[i].path, run.writes[i].content, run.old[i])
  BY <1>1 DEF Reverted, Changed
<1> QED
  BY <1>1, <1>2, PlanKinds

\* A change of another file leaves the chain and its files as they are.
LEMMA TidyKept ==
  ASSUME TypeOK, chain' = chain, disk'[LedgerFile] = disk[LedgerFile],
         \A path \in Chained : disk'[path] = disk[path]
  PROVE  /\ Recorded(disk') = Recorded(disk)
         /\ Tidy => Tidy'
<1>1. Recorded(disk') = Recorded(disk) /\ \A k \in DOMAIN Recorded(disk) : k \in Number
  BY Records, Numbers DEF Recorded
<1>2. \A n \in Number : disk'[Version(n)] = disk[Version(n)]
                        /\ disk'[Amendment(n)] = disk[Amendment(n)]
  BY PathTypes
<1> QED
  BY <1>1, <1>2 DEF Tidy, Unvouched

\* A change of a file of the next version leaves the chain and its files.
LEMMA NextVersionKept ==
  ASSUME TypeOK, Tidy, chain' = chain, NEW path \in Chained,
         path[2] = Len(chain) + 1,
         \A q \in Path : q # path => disk'[q] = disk[q]
  PROVE  Tidy' /\ disk'[LedgerFile] = disk[LedgerFile]
<1>1. path # LedgerFile /\ path \in {Version(path[2]), Amendment(path[2])} /\ path[2] \in Number
  BY PathTypes, PathsDiffer
<1>2. /\ disk'[LedgerFile] = disk[LedgerFile] /\ Recorded(disk') = Recorded(disk)
  BY <1>1, Elsewhere
<1>3. /\ chain = Recorded(disk) /\ Len(chain) \in Nat /\ DOMAIN chain = 1 .. Len(chain)
      /\ \A k \in DOMAIN chain : k \in Number /\ k # Len(chain) + 1
  BY Records, Numbers DEF Tidy
<1>4. ASSUME NEW k \in DOMAIN chain
      PROVE  disk'[Version(k)] = disk[Version(k)] /\ disk'[Amendment(k)] = disk[Amendment(k)]
  BY <1>1, <1>3, PathTypes, PathsDiffer
<1>5. \A q \in Chained : disk'[q] # Absent => q[2] <= Len(chain) + 1
  BY <1>3, PathTypes DEF Tidy
<1> QED
  BY <1>2, <1>3, <1>4, <1>5 DEF Tidy, Unvouched

LEMMA HarmDone ==
  ASSUME Apply \/ ApplyUnnoted, NEW i, i = run.noted + 1
  PROVE  /\ harm \subseteq harm'
         /\ ~Apply /\ run.writes[i].path = LedgerFile => "commit unnoted" \in harm'
         /\ ~Apply /\ (\E c : run.writes[i].path = Mirror(c)) => "mirror unnoted" \in harm'
<1>1. CASE Apply
  BY <1>1 DEF Apply
<1>2. CASE ~Apply
  <2> DEFINE onLedger == NextWrite.path = LedgerFile
             onMirror == NextWrite.path[1] = "mirror"
             done == CASE onLedger -> {"commit unnoted"}
                       [] onMirror -> {"mirror unnoted"}
                       [] OTHER -> {}
  <2>1. harm' = harm \cup done
    BY <1>2 DEF ApplyUnnoted
  <2>2. ~(onLedger /\ onMirror)
    BY DEF LedgerFile
  <2> HIDE DEF onLedger, onMirror
  <2>3. /\ onLedger => done = {"commit unnoted"}
        /\ onMirror => done = {"mirror unnoted"}
    BY <2>2
  <2> HIDE DEF done
  <2>4. /\ run.writes[i].path = LedgerFile <=> onLedger
        /\ (\E c : run.writes[i].path = Mirror(c)) => onMirror
    BY DEF NextWrite, Mirror, onLedger, onMirror
  <2> QED
    BY <2>1, <2>3, <2>4
<1> QED
  BY <1>1, <1>2

LEMMA SoundWrite ==
  ASSUME TypeOK, Planned, Written, Sound, Apply \/ ApplyUnnoted
  PROVE  Sound'
<1> DEFINE i == run.noted + 1
<1> SUFFICES ASSUME Unharmed'
             PROVE  Tidy' /\ (Amends' => Placed')
  BY DEF Sound
<1>1. /\ run # None /\ ~run.undoing /\ i \in 1 .. Len(run.writes) /\ SameMutation
      /\ run'.noted \in {i, run.noted} /\ (Apply => run'.noted = i)
  BY WriteEffect
<1>2. run.noted \in Nat /\ i \in Nat /\ run.noted = i - 1
  BY <1>1 DEF Planned
<1>0. Unharmed /\ (run.writes[i].path = LedgerFile => Apply)
  BY HarmDone DEF Unharmed
<1> HIDE DEF i
<1>3. Tidy /\ (Amends => Placed)
  BY <1>0 DEF Sound
<1>4. /\ Before' = Before /\ NewNumber' = NewNumber /\ (Amends' => Amends)
      /\ After' = After /\ run'.old = run.old
  BY <1>1 DEF SameMutation, Before, After, NewNumber, Amends
<1>5. Amends =>
        /\ NewNumber \in Nat /\ NewNumber \in Number /\ Len(Before) + 1 = NewNumber
        /\ Before \in Seq(Entry)
  BY AfterFacts DEF NewNumber
<1>6. ASSUME chain' = chain, disk'[LedgerFile] = disk[LedgerFile],
             \A path \in Chained : disk'[path] = disk[path],
             Amends => (run'.noted >= 4 <=> run.noted >= 4)
      PROVE  Tidy' /\ (Amends' => Placed')
  BY <1>3, <1>4, <1>6, TidyKept DEF Placed
<1>7. ASSUME NEW path, NEW content, Changed(path, content), path # LedgerFile,
             \A n : path # Version(n) /\ path # Amendment(n),
             Amends => (run'.noted >= 4 <=> run.noted >= 4)
      PROVE  Tidy' /\ (Amends' => Placed')
  <2>1. /\ chain' = chain /\ disk'[LedgerFile] = disk[LedgerFile]
        /\ \A q \in Chained : disk'[q] = disk[q]
    BY <1>7, PathTypes DEF Changed
  <2> QED
    BY <1>6, <1>7, <2>1
<1>8. ASSUME Amends, i < 4, NEW path, NEW content, Changed(path, content),
             path \in {Version(NewNumber), Amendment(NewNumber)}
      PROVE  Tidy' /\ (Amends' => Placed')
  <2>1. path \in Chained /\ path[2] = NewNumber /\ path # LedgerFile
    BY <1>5, <1>8, PathTypes, PathsDiffer
  <2>2. run.noted < 4 /\ run'.noted < 4 /\ ~(run.noted >= 4) /\ ~(run'.noted >= 4)
    BY <1>1, <1>2, <1>8
  <2>3. disk[LedgerFile] = run.old[4] /\ Recorded(disk) = Before
    BY <1>3, <1>8, <2>2 DEF Placed, Recorded, Before, Rec
  <2>4. path[2] = Len(chain) + 1
    BY <1>3, <1>5, <1>8, <2>1, <2>3 DEF Tidy
  <2>5. Tidy' /\ disk'[LedgerFile] = disk[LedgerFile]
    BY <1>3, <1>8, <2>1, <2>4, NextVersionKept DEF Changed
  <2>6. \A q \in Chained : disk'[q] # Absent => q[2] <= NewNumber
    BY <1>3, <1>5, <1>8, <2>1, PathTypes DEF Placed, Changed
  <2> QED
    BY <1>4, <2>2, <2>3, <2>5, <2>6 DEF Placed
<1>9. ASSUME Amends, i = 4, Changed(LedgerFile, After)
      PROVE  Tidy' /\ (Amends' => Placed')
  <2>1. run.writes[i].path = LedgerFile
    BY <1>1, <1>9, AfterFacts DEF AmendPlan, Put
  <2>2. run'.noted = 4 /\ run.noted = 3
    BY <1>1, <1>2, <1>9, <2>1, <1>0
  <2>3. /\ After \in Seq(Entry) /\ Len(After) = NewNumber /\ After # Absent
        /\ Starts(Before, After) /\ NewNumber \in Number
        /\ After[NewNumber].text = run.request.text
        /\ After[NewNumber].record = NewRecord(run.request)
    BY <1>9, AfterFacts
  <2>4. /\ disk'[LedgerFile] = After /\ Recorded(disk') = After /\ chain' = After
        /\ \A q \in Chained : disk'[q] = disk[q]
    BY <1>9, <2>3, PathTypes, PathsDiffer DEF Changed, Recorded
  <2>5. Before = chain
    BY <1>3, <1>9, <2>2 DEF Placed, Tidy, Recorded, Before, Rec
  <2>6. \A k \in DOMAIN After : ~Unvouched(disk', After[k], k)
    <3> TAKE k \in DOMAIN After
    <3>1. k \in 1 .. NewNumber /\ k \in Number
      BY <1>5, <1>9, <2>3, LenProperties, Numbers DEF Number
    <3>2. CASE k = NewNumber
      BY <1>9, <2>2, <2>3, <2>4, <3>2, PathTypes DEF Unvouched, Written
    <3>3. CASE k # NewNumber
      <4>1. k \in 1 .. Len(Before) /\ After[k] = Before[k]
        BY <1>5, <1>9, <2>3, <3>1, <3>3, LenProperties DEF Starts
      <4>2. k \in DOMAIN chain /\ chain[k] = After[k]
        BY <1>5, <1>9, <2>5, <4>1, LenProperties
      <4>3. ~Unvouched(disk, After[k], k)
        BY <1>3, <4>2 DEF Tidy
      <4> QED
        BY <2>4, <3>1, <4>3, PathTypes DEF Unvouched
    <3> QED
      BY <3>2, <3>3
  <2>7. \A q \in Chained : disk'[q] # Absent => q[2] <= NewNumber /\ q[2] <= Len(After) + 1
    <3> SUFFICES ASSUME NEW q \in Chained, disk'[q] # Absent
                 PROVE  q[2] <= NewNumber /\ q[2] <= Len(After) + 1
      OBVIOUS
    <3>1. q[2] \in Nat /\ q[2] <= NewNumber
      BY <1>3, <1>9, <2>4, PathTypes, Numbers DEF Placed
    <3> QED
      BY <1>5, <1>9, <2>3, <3>1
  <2> QED
    BY <1>4, <2>2, <2>4, <2>6, <2>7 DEF Tidy, Placed
<1>10. ASSUME Amends, i = 2 \/ i >= 5
       PROVE  run'.noted >= 4 <=> run.noted >= 4
  BY <1>1, <1>2, <1>10
<1> QED
  <2>1. \/ Amends /\ i = 1 /\ Changed(Version(NewNumber), run.request.text)
        \/ Amends /\ i = 2 /\ Changed(Baseline, run.request.text)
        \/ Amends /\ i = 3 /\ Changed(Amendment(NewNumber), NewRecord(run.request))
        \/ Amends /\ i = 4 /\ Changed(LedgerFile, After)
        \/ Amends /\ i >= 5 /\ \E c : Changed(Mirror(c), [by |-> NewNumber])
        \/ ~Amends /\ \E c, x : Changed(Opened(c), x) \/ Changed(Mirror(c), x)
    BY <1>1, OneWrite DEF Amends, i
  <2> QED
    BY <1>7, <1>8, <1>9, <1>10, <2>1, PathsDiffer

LEMMA SoundUndo ==
  ASSUME TypeOK, Planned, Sound, Undo
  PROVE  Sound'
<1> DEFINE i == run.noted
<1> SUFFICES ASSUME Unharmed'
             PROVE  Tidy' /\ (Amends' => Placed')
  BY DEF Sound
<1>1. /\ run # None /\ i \in 1 .. Len(run.writes) /\ SameMutation
      /\ run'.noted = i - 1 /\ harm' = harm
  BY OneUndo DEF Undo
<1>2. i \in Nat
  BY <1>1 DEF Planned
<1>3. Tidy /\ (Amends => Placed)
  BY <1>1 DEF Sound, Unharmed
<1>4. /\ Before' = Before /\ NewNumber' = NewNumber /\ (Amends' => Amends)
      /\ After' = After /\ run'.old = run.old
  BY <1>1 DEF SameMutation, Before, After, NewNumber, Amends
<1>5. Amends =>
        /\ NewNumber \in Nat /\ NewNumber \in Number /\ Len(Before) + 1 = NewNumber
        /\ Before \in Seq(Entry)
  BY AfterFacts DEF NewNumber
<1>6. ASSUME NEW path, NEW content, NEW old, Reverted(path, content, old),
             path # LedgerFile, \A n : path # Version(n) /\ path # Amendment(n),
             Amends => (run'.noted >= 4 <=> run.noted >= 4)
      PROVE  Tidy' /\ (Amends' => Placed')
  <2>1. /\ chain' = chain /\ disk'[LedgerFile] = disk[LedgerFile]
        /\ \A q \in Chained : disk'[q] = disk[q]
    BY <1>6, PathTypes DEF Reverted, Changed
  <2> QED
    BY <1>3, <1>4, <1>6, <2>1, TidyKept DEF Placed
<1> HIDE DEF i
<1>7. ASSUME Amends, i < 4, NEW path, NEW content, NEW old, Reverted(path, content, old),
             path \in {Version(NewNumber), Amendment(NewNumber)}
      PROVE  Tidy' /\ (Amends' => Placed')
  <2>1. path \in Chained /\ path[2] = NewNumber /\ path # LedgerFile
    BY <1>5, <1>7, PathTypes, PathsDiffer
  <2>2. ~(run.noted >= 4) /\ ~(run'.noted >= 4)
    BY <1>1, <1>2, <1>7 DEF i
  <2>3. disk[LedgerFile] = run.old[4] /\ Recorded(disk) = Before
    BY <1>3, <1>7, <2>2 DEF Placed, Recorded, Before, Rec
  <2>4. path[2] = Len(chain) + 1
    BY <1>3, <1>5, <1>7, <2>1, <2>3 DEF Tidy
  <2>5. chain' = chain /\ \A q \in Path : q # path => disk'[q] = disk[q]
    BY <1>7, <2>1 DEF Reverted, Changed
  <2>6. Tidy' /\ disk'[LedgerFile] = disk[LedgerFile]
    BY <1>3, <2>1, <2>4, <2>5, NextVersionKept
  <2>7. \A q \in Chained : disk'[q] # Absent => q[2] <= NewNumber
    BY <1>3, <1>5, <1>7, <2>1, <2>5, PathTypes DEF Placed
  <2> QED
    BY <1>4, <2>2, <2>3, <2>6, <2>7 DEF Placed
<1>8. ASSUME Amends, i = 4, Reverted(LedgerFile, After, run.old[4])
      PROVE  Tidy' /\ (Amends' => Placed')
  <2>1. run.noted = 4 /\ run'.noted = 3
    BY <1>1, <1>8 DEF i
  <2>2. /\ After \in Seq(Entry) /\ Len(After) = NewNumber /\ After # Absent
        /\ Starts(Before, After)
    BY <1>8, AfterFacts
  <2>3. disk[LedgerFile] = After /\ chain = After
    BY <1>3, <1>8, <2>1, <2>2 DEF Placed, Tidy, Recorded
  <2>4. Changed(LedgerFile, run.old[4])
    BY <1>8, <2>3 DEF Reverted
  <2>5. /\ disk'[LedgerFile] = run.old[4] /\ Recorded(disk') = Before /\ chain' = Before
        /\ \A q \in Chained : disk'[q] = disk[q]
    BY <2>4, PathTypes, PathsDiffer DEF Changed, Recorded, Before, Rec
  <2>6. \A k \in DOMAIN Before : ~Unvouched(disk', Before[k], k)
    <3> TAKE k \in DOMAIN Before
    <3>1. k \in 1 .. Len(Before) /\ Len(Before) \in Nat /\ k \in 1 .. Len(After)
      BY <1>5, <1>8, <2>2, LenProperties
    <3>2. k \in DOMAIN After /\ After[k] = Before[k]
      BY <2>2, <3>1, LenProperties DEF Starts
    <3>3. ~Unvouched(disk, Before[k], k)
      BY <1>3, <2>3, <3>2 DEF Tidy
    <3>4. k \in Number
      <4>1. Len(Before) + 1 \in 1 .. MaxVersions + 1 /\ MaxVersions \in Nat
        BY <1>5, <1>8, Numbers DEF Number
      <4>2. k \in 1 .. MaxVersions + 1
        BY ONLY <3>1, <4>1
      <4> QED
        BY <4>2 DEF Number
    <3> QED
      BY <2>5, <3>3, <3>4, PathTypes DEF Unvouched
  <2>7. \A q \in Chained : disk'[q] # Absent => q[2] <= NewNumber
    BY <1>3, <1>8, <2>5 DEF Placed
  <2> QED
    BY <1>4, <1>5, <1>8, <2>1, <2>5, <2>6, <2>7 DEF Tidy, Placed
<1>9. ASSUME Amends, i = 2 \/ i >= 5
      PROVE  run'.noted >= 4 <=> run.noted >= 4
  BY <1>1, <1>2, <1>9 DEF i
<1> QED
  <2>1. \/ Amends /\ i = 1 /\ \E x, y : Reverted(Version(NewNumber), x, y)
        \/ Amends /\ i = 2 /\ \E x, y : Reverted(Baseline, x, y)
        \/ Amends /\ i = 3 /\ \E x, y : Reverted(Amendment(NewNumber), x, y)
        \/ Amends /\ i = 4 /\ Reverted(LedgerFile, After, run.old[4])
        \/ Amends /\ i >= 5 /\ \E c, x, y : Reverted(Mirror(c), x, y)
        \/ ~Amends /\ \E c, x, y : Reverted(Opened(c), x, y) \/ Reverted(Mirror(c), x, y)
    BY <1>1, OneUndo DEF Amends, i
  <2> QED
    BY <1>6, <1>7, <1>8, <1>9, <2>1, PathsDiffer

LEMMA SoundBegin ==
  ASSUME TypeOK, Written, Sound, NEW p \in Process, Begin(p)
  PROVE  Sound'
<1> SUFFICES ASSUME Unharmed'
             PROVE  Tidy' /\ (Amends' => Placed')
  BY DEF Sound
<1>1. /\ Planned' /\ run = None /\ run'.noted = 0
      /\ run'.request \in Request /\ Admits(run'.request)
      /\ \A i \in 1 .. Len(run'.writes) : run'.old[i] = disk[run'.writes[i].path]
      /\ UNCHANGED <<disk, chain, harm>>
  BY BeginEffect
<1>2. Tidy
  BY <1>1 DEF Sound, Unharmed
<1>3. Tidy'
  BY <1>1, <1>2, TidyKept
<1>4. ASSUME Amends'
      PROVE  Placed'
  <2>1. AmendPlan' /\ Len(run'.writes) \in Nat /\ run'.request.op = "amend"
    BY <1>1, <1>4 DEF Planned, Amends
  <2>2. run'.writes[4].path = LedgerFile /\ Len(run'.writes) >= 4
    BY <2>1 DEF AmendPlan, Put
  <2>3. run'.old[4] = disk[LedgerFile]
    <3>1. 4 \in 1 .. Len(run'.writes)
      BY <2>1, <2>2
    <3> QED
      BY <1>1, <2>2, <3>1
  <2>4. run'.request.version = Len(Recorded(disk))
    BY <1>1, <2>1 DEF Admits, AmendAdmits
  <2>5. NewNumber' = Len(chain) + 1
    BY <1>2, <2>4 DEF NewNumber, Tidy
  <2>6. \A path \in Chained : disk[path] # Absent => path[2] <= NewNumber'
    BY <1>2, <2>5 DEF Tidy
  <2> QED
    BY <1>1, <2>3, <2>6 DEF Placed
<1> QED
  BY <1>3, <1>4

LEMMA SoundStep ==
  ASSUME TypeOK, Planned, Written, Sound, [Next]_vars
  PROVE  Sound'
<1>1. ASSUME UNCHANGED vars \/ Asks \/ Looks
      PROVE  Sound'
  <2>1. UNCHANGED <<disk, run, chain, harm>>
    BY <1>1, QuietEffect
  <2>2. NewNumber' = NewNumber /\ After' = After /\ Amends' = Amends
    BY <2>1 DEF NewNumber, After, Amends
  <2> QED
    BY <2>1, <2>2, TidyKept DEF Sound, Placed, Unharmed
<1>2. ASSUME Ends
      PROVE  Sound'
  BY <1>2, EndEffect, TidyKept DEF Sound, Amends, Unharmed
<1>3. ASSUME ApplyFails \/ EditBaseline
      PROVE  Sound'
  <2>1. /\ UNCHANGED <<chain, harm>> /\ disk'[LedgerFile] = disk[LedgerFile]
        /\ \A q \in Chained : disk'[q] = disk[q]
    BY <1>3, FailEffect, EditEffect, PathTypes, PathsDiffer
  <2>2. run' # None => run # None /\ SameMutation /\ run'.noted = run.noted
    BY <1>3, FailEffect, EditEffect
  <2>3. Amends' => /\ Amends /\ NewNumber' = NewNumber /\ After' = After
                   /\ run'.noted = run.noted /\ run'.old = run.old
    BY <2>2 DEF SameMutation, NewNumber, After, Amends
  <2> QED
    BY <2>1, <2>3, TidyKept DEF Sound, Placed, Unharmed
<1>4. ASSUME SetBack
      PROVE  Sound'
  BY <1>4, SetBackEffect DEF Sound, Unharmed
<1> QED
  BY <1>1, <1>2, <1>3, <1>4, SoundBegin, SoundWrite, SoundUndo, Steps

\* What the chain needs to be read.
LEMMA TidyIsReadable ==
  ASSUME TypeOK, Tidy, chain # <<>>
  PROVE  ~ChainInvalid(disk)
<1>1. chain = Recorded(disk) /\ disk[LedgerFile] # Absent
      /\ Recorded(disk) = disk[LedgerFile] /\ Len(chain) # 0
  BY Records DEF Tidy, Recorded
<1>2. ~Misnumbered(disk[LedgerFile], History(disk))
  <2>1. \A path \in History(disk) \cap Chained : path[2] <= Len(chain) + 1
    BY DEF Tidy, History
  <2>2. Len(chain) \in Nat /\ \A path \in Chained : path[2] \in Nat
    <3>1. Len(chain) \in 0 .. MaxVersions
      BY <1>1, Records
    <3>2. \A path \in Chained : path[2] \in Nat
      BY PathTypes, Numbers
    <3> QED
      BY <3>1, <3>2
  <2> QED
    BY <1>1, <2>1, <2>2 DEF Misnumbered
<1> QED
  BY <1>1, <1>2 DEF ChainInvalid, Tidy

\* Wherever a mutation failed, was interrupted, undone or killed, the recorded
\* chain can be read, once there is one: unless the ledger was set back by hand,
\* or an interrupt fell between the commit and its note.
THEOREM ReadableChain == Spec => []ChainStaysReadable
<1> DEFINE IInv == TypeOK /\ Planned /\ Reading /\ Written /\ Sound
<1>1. Init => IInv
  <2> SUFFICES ASSUME Init PROVE Sound
    BY InitWritten
  <2>1. \A path \in Chained : disk[path] # Absent => path[2] <= Len(chain) + 1
    <3>1. Len(chain) \in Nat /\ \A path \in Chained : path[2] \in Nat
      BY InitFacts, PathTypes, LenProperties, Numbers
    <3> QED
      BY <3>1, InitFacts
  <2> QED
    BY <2>1, InitFacts DEF Sound, Tidy, Unvouched, Amends
<1>2. IInv /\ [Next]_vars => IInv'
  BY TypeStep, PlannedStep, ReadingStep, WrittenStep, SoundStep
<1>3. IInv => ChainStaysReadable
  BY TidyIsReadable DEF ChainStaysReadable, Sound, Unharmed
<1> QED
  BY <1>1, <1>2, <1>3, PTL DEF Spec

-----------------------------------------------------------------------------
(* The first version *)

LEMMA ReachesBegin ==
  ASSUME TypeOK, Written, Reaches, NEW p \in Process, Begin(p)
  PROVE  Reaches'
<1> SUFFICES ASSUME Noted' PROVE Founded'
  BY DEF Reaches
<1>1. /\ Planned' /\ run'.noted = 0
      /\ run'.request \in Request /\ Admits(run'.request)
      /\ \A i \in 1 .. Len(run'.writes) : run'.old[i] = disk[run'.writes[i].path]
      /\ UNCHANGED <<disk, chain, harm>>
  BY BeginEffect
<1>2. /\ chain # <<>> \/ SomeOpened => FirstThere
      /\ FirstThere' = FirstThere /\ SomeOpened' = SomeOpened
  BY <1>1 DEF Reaches, Founded, Noted, FirstThere, SomeOpened
<1>3. Recorded(disk) # <<>> => FirstThere
  <2> SUFFICES ASSUME Recorded(disk) # <<>> PROVE FirstThere
    OBVIOUS
  <2>1. Recorded(disk) \in Seq(Entry) /\ 1 \in DOMAIN Recorded(disk)
    BY Records, Numbers
  <2>2. ~Unvouched(disk, Recorded(disk)[1], 1)
    BY <1>1, <2>1 DEF Admits, Writable, ChainInvalid
  <2>3. Recorded(disk)[1] \in Entry
    BY <2>1, LenProperties, ElementOfSeq
  <2> QED
    BY <2>2, <2>3, NotAbsent DEF Unvouched, Entry, FirstThere
<1>4. run'.request.op = "challenge" => FirstThere
  BY <1>1, <1>3 DEF Admits
<1>5. ASSUME Amends', run'.request.version > 0
      PROVE  FirstThere
  BY <1>1, <1>3, <1>5, Records DEF Amends, Admits, AmendAdmits
<1>6. ASSUME Amends', ~(run'.request.version > 0)
      PROVE  Opening'
  <2>1. AmendPlan' /\ Len(run'.writes) \in Nat /\ run'.request.op = "amend"
        /\ run'.request.version \in 0 .. MaxVersions
    BY <1>1, <1>6, RequestTypes DEF Planned, Amends
  <2>2. run'.request.version = 0
    BY <1>6, <2>1, Numbers
  <2>3. Len(Recorded(disk)) = 0
    BY <1>1, <2>1, <2>2 DEF Admits, AmendAdmits
  <2>4. disk[LedgerFile] = Absent
    BY <2>3, Records
  <2>5. History(disk) = {}
    BY <1>1, <2>4 DEF Admits, Writable, ChainInvalid, Misnumbered
  <2>6. disk[Version(1)] = Absent /\ disk[Amendment(1)] = Absent
    BY <2>5, PathTypes, Numbers DEF History
  <2>7. chain = <<>> /\ ~SomeOpened
    BY <1>2, <2>6 DEF FirstThere
  <2>8. run'.request.resolves = {}
    <3>1. /\ run'.request.resolves \subseteq Challenge
          /\ \A c \in run'.request.resolves : IsOpen(disk, c)
      BY <1>1, <2>1, RequestTypes DEF Admits, AmendAdmits
    <3> QED
      BY <2>7, <3>1 DEF IsOpen, SomeOpened
  <2>9. /\ NewNumber' = 1 /\ Len(run'.writes) >= 4
        /\ run'.writes[1].path = Version(1) /\ run'.writes[3].path = Amendment(1)
    BY <2>1, <2>2 DEF AmendPlan, Put, NewNumber
  <2>10. run'.old[1] = Absent /\ run'.old[3] = Absent
    <3>1. 1 \in 1 .. Len(run'.writes) /\ 3 \in 1 .. Len(run'.writes)
      BY <2>1, <2>9
    <3> QED
      BY <1>1, <2>6, <2>9, <3>1
  <2> QED
    BY <1>1, <1>2, <2>7, <2>8, <2>10 DEF Opening
<1> QED
  BY <1>1, <1>2, <1>4, <1>5, <1>6 DEF Founded

LEMMA ReachesWrite ==
  ASSUME TypeOK, Planned, Written, Reaches, Apply \/ ApplyUnnoted
  PROVE  Reaches'
<1> DEFINE i == run.noted + 1
<1> SUFFICES ASSUME Noted' PROVE Founded'
  BY DEF Reaches
<1>1. /\ run # None /\ i \in 1 .. Len(run.writes) /\ SameMutation
      /\ run'.noted \in {i, run.noted} /\ (Apply => run'.noted = i)
  BY WriteEffect
<1>2. run.noted \in Nat /\ i \in Nat /\ run.noted = i - 1
  BY <1>1 DEF Planned
<1>3. Noted /\ (run.writes[i].path = LedgerFile => Apply)
  BY HarmDone DEF Noted
<1>4. /\ chain # <<>> \/ SomeOpened => FirstThere
      /\ run.request.op = "challenge" => FirstThere
      /\ Amends /\ run.request.version > 0 => FirstThere
      /\ Amends /\ ~(run.request.version > 0) => Opening
  BY <1>1, <1>3 DEF Reaches, Founded
<1>5. run'.request = run.request /\ run'.old = run.old /\ (Amends' => Amends)
  BY <1>1 DEF SameMutation, Amends
<1> HIDE DEF i
<1>6. ASSUME NEW path, NEW content, Changed(path, content), path # LedgerFile,
             \A c : path # Opened(c), path = Version(1) => content # Absent,
             i # 4
      PROVE  /\ chain' = chain /\ (SomeOpened' => SomeOpened) /\ (FirstThere => FirstThere')
             /\ (path = Version(1) => FirstThere')
             /\ (Opening => Opening')
  <2>1. chain' = chain /\ \A q \in Path : q # path => disk'[q] = disk[q]
    BY <1>6 DEF Changed
  <2>2. SomeOpened' => SomeOpened
    BY <1>6, <2>1, PathTypes DEF SomeOpened
  <2>3. (FirstThere => FirstThere') /\ (path = Version(1) => FirstThere')
    BY <1>6, <2>1, PathTypes, Numbers DEF FirstThere, Changed
  <2>4. run'.noted <= 3 => run.noted <= 3
    BY <1>1, <1>2
  <2> QED
    BY <1>5, <2>1, <2>2, <2>3, <2>4 DEF Opening
<1>7. Amends => run.request.text \in Text /\ NewNumber \in Nat
                /\ (~(run.request.version > 0) => NewNumber = 1)
  <2>1. Amends => run.request \in Request /\ run.request.op = "amend"
    BY DEF Planned, Amends
  <2>2. Amends => run.request.text \in Text /\ run.request.version \in 0 .. MaxVersions
    BY <2>1, RequestTypes
  <2> QED
    BY <2>2, Numbers DEF NewNumber
<1>8. CASE Amends /\ i = 4 /\ Changed(LedgerFile, After)
  <2>1. run.writes[i].path = LedgerFile
    BY <1>8, AfterFacts DEF AmendPlan, Put
  <2>2. run'.noted = 4 /\ run.noted = 3 /\ ~(run'.noted <= 3)
    BY <1>1, <1>2, <1>3, <1>8, <2>1
  <2>3. \A q \in Path : q # LedgerFile => disk'[q] = disk[q]
    BY <1>8 DEF Changed
  <2>4. (SomeOpened' => SomeOpened) /\ FirstThere' = FirstThere
    BY <2>3, PathTypes, PathsDiffer, Numbers DEF SomeOpened, FirstThere
  <2>5. FirstThere
    <3>1. CASE run.request.version > 0
      BY <1>4, <1>8, <3>1
    <3>2. CASE ~(run.request.version > 0)
      <4>1. disk[Version(1)] = run.request.text
        BY <1>7, <1>8, <2>2, <3>2 DEF Written
      <4> QED
        BY <1>7, <1>8, <4>1, NotAbsent DEF FirstThere
    <3> QED
      BY <3>1, <3>2
  <2> QED
    BY <1>4, <1>5, <1>8, <2>2, <2>4, <2>5 DEF Opening, Founded
<1>9. CASE /\ run.request.op = "challenge"
           /\ \E c : Changed(Opened(c), "open")
  <2>1. FirstThere'
    BY <1>4, <1>9, PathTypes, PathsDiffer, Numbers DEF FirstThere, Changed
  <2> QED
    BY <1>5, <1>9, <2>1 DEF Amends, Founded
<1>10. CASE Amends /\ i = 1 /\ Changed(Version(NewNumber), run.request.text)
  BY <1>4, <1>5, <1>6, <1>7, <1>10, PathsDiffer, NotAbsent DEF Amends, Founded
<1>11. CASE \E path, content : Changed(path, content) /\ i # 4
              /\ \/ path = Baseline \/ path = Amendment(NewNumber) \/ \E c : path = Mirror(c)
  <2>1. PICK path, content : Changed(path, content) /\ i # 4
              /\ \/ path = Baseline \/ path = Amendment(NewNumber) \/ \E c : path = Mirror(c)
    BY <1>11
  <2>2. path # LedgerFile /\ (\A c : path # Opened(c)) /\ path # Version(1)
    BY <2>1, PathsDiffer
  <2>3. /\ chain' = chain /\ (SomeOpened' => SomeOpened) /\ (FirstThere => FirstThere')
        /\ (Opening => Opening')
    BY <1>6, <2>1, <2>2
  <2> QED
    BY <1>4, <1>5, <2>3 DEF Founded
<1> QED
  <2>1. run.request.op = "dismiss" => i # 4
    <3> SUFFICES ASSUME run.request.op = "dismiss" PROVE i # 4
      OBVIOUS
    <3>1. i \in 1 .. 1
      BY <1>1 DEF Planned
    <3> QED
      BY <3>1
  <2>2. Amends /\ (i = 2 \/ i = 3 \/ i >= 5) => i # 4
    OBVIOUS
  <2> QED
    BY <1>2, <1>8, <1>9, <1>10, <1>11, <2>1, <2>2, OneWrite DEF i

LEMMA ReachesUndo ==
  ASSUME TypeOK, Planned, Reaches, Undo
  PROVE  Reaches'
<1> DEFINE i == run.noted
<1> SUFFICES ASSUME Noted' PROVE Founded'
  BY DEF Reaches
<1>1. /\ run # None /\ run.undoing /\ i \in 1 .. Len(run.writes) /\ SameMutation
      /\ run'.noted = i - 1 /\ harm' = harm
  BY OneUndo DEF Undo
<1>2. i \in Nat /\ i < Len(run.writes) /\ Len(run.writes) \in Nat
  BY <1>1 DEF Planned
<1>3. Founded
  BY <1>1 DEF Reaches, Noted
<1>4. run'.request = run.request /\ run'.old = run.old /\ (Amends' => Amends)
  BY <1>1 DEF SameMutation, Amends
<1>5. ASSUME NEW path, NEW content, NEW old, Reverted(path, content, old)
      PROVE  /\ path # Version(1) => FirstThere' = FirstThere
             /\ path # LedgerFile => chain' = chain
             /\ (\A c : path # Opened(c)) => (SomeOpened' => SomeOpened)
  <2>1. /\ path # LedgerFile => chain' = chain
        /\ \A q \in Path : q # path => disk'[q] = disk[q]
    BY <1>5 DEF Reverted, Changed
  <2>2. (\A c : path # Opened(c)) => (SomeOpened' => SomeOpened)
    BY <2>1, PathTypes DEF SomeOpened
  <2>3. path # Version(1) => FirstThere' = FirstThere
    BY <2>1, PathTypes, Numbers DEF FirstThere
  <2> QED
    BY <2>1, <2>2, <2>3
<1>6. ASSUME Amends, ~(run.request.version > 0)
      PROVE  Opening /\ i <= 3 /\ NewNumber = 1
  <2>1. Opening
    BY <1>3, <1>6 DEF Founded
  <2>2. ~(Len(run.writes) >= 5)
    <3> SUFFICES ASSUME Len(run.writes) >= 5 PROVE FALSE
      OBVIOUS
    <3>1. 5 \in 5 .. Len(run.writes)
      BY <1>2
    <3> QED
      BY <1>6, <2>1, <3>1, AfterFacts DEF AmendPlan, Opening
  <2>3. run.request.version \in 0 .. MaxVersions
    BY <1>6, AfterFacts, RequestTypes DEF Amends
  <2>4. run.request.version = 0
    BY <1>6, <2>3, Numbers
  <2> QED
    BY <1>2, <2>1, <2>2, <2>4 DEF NewNumber
<1>7. Amends /\ run.request.version > 0 =>
        NewNumber # 1 /\ Version(NewNumber) # Version(1)
  <2> SUFFICES ASSUME Amends, run.request.version > 0
               PROVE  NewNumber # 1
    BY PathsDiffer
  <2>1. run.request.version \in 0 .. MaxVersions
    BY AfterFacts, RequestTypes DEF Amends
  <2> QED
    BY <2>1, Numbers DEF NewNumber
<1>8. run.request.op = "challenge" => ~Amends
  BY DEF Amends
<1>9. \/ Amends /\ i = 1 /\ \E x, y : Reverted(Version(NewNumber), x, y)
      \/ Amends /\ i = 2 /\ \E x, y : Reverted(Baseline, x, y)
      \/ Amends /\ i = 3 /\ \E x, y : Reverted(Amendment(NewNumber), x, y)
      \/ Amends /\ i = 4 /\ \E x, y : Reverted(LedgerFile, x, y)
      \/ Amends /\ i >= 5 /\ \E c, x, y : Reverted(Mirror(c), x, y)
      \/ run.request.op = "challenge" /\ \E c, x, y : Reverted(Opened(c), x, y)
      \/ run.request.op = "dismiss" /\ \E c, x, y : Reverted(Mirror(c), x, y)
  BY OneUndo
<1> HIDE DEF i
<1>10. CASE (Amends /\ run.request.version > 0) \/ run.request.op = "challenge"
  <2>1. FirstThere
    BY <1>1, <1>3, <1>10 DEF Founded
  <2>2. FirstThere'
    <3>1. PICK path, x, y : Reverted(path, x, y) /\ path # Version(1)
      BY <1>7, <1>8, <1>9, <1>10, PathsDiffer
    <3> QED
      BY <1>5, <2>1, <3>1
  <2> QED
    BY <1>4, <1>8, <1>10, <2>2 DEF Founded
<1>11. CASE Amends /\ ~(run.request.version > 0)
  <2>1. Opening /\ i <= 3 /\ NewNumber = 1
    BY <1>6, <1>11
  <2>2. PICK path, x, y : /\ Reverted(path, x, y)
                          /\ path # LedgerFile /\ \A c : path # Opened(c)
    BY <1>2, <1>8, <1>9, <1>11, <2>1, PathsDiffer DEF Amends
  <2>3. chain' = chain /\ (SomeOpened' => SomeOpened)
    BY <1>5, <2>2
  <2>4. chain = <<>> /\ ~SomeOpened
    BY <2>1 DEF Opening, i
  <2>5. Opening'
    BY <1>4, <2>1, <2>3, <2>4 DEF Opening
  <2> QED
    BY <1>4, <1>8, <1>11, <2>3, <2>4, <2>5 DEF Founded, Amends
<1>12. CASE run.request.op = "dismiss"
  <2>1. PICK c, x, y : Reverted(Mirror(c), x, y)
    BY <1>9, <1>12 DEF Amends
  <2>2. chain' = chain /\ (SomeOpened' => SomeOpened) /\ FirstThere' = FirstThere
    BY <1>5, <2>1, PathsDiffer
  <2> QED
    BY <1>3, <1>4, <1>12, <2>2 DEF Founded, Amends
<1> QED
  BY <1>9, <1>10, <1>11, <1>12

LEMMA ReachesStep ==
  ASSUME TypeOK, Planned, Written, Reaches, [Next]_vars
  PROVE  Reaches'
<1>1. ASSUME UNCHANGED <<chain, harm>>, UNCHANGED run \/ run' = None,
             \A q \in Path : q # Baseline /\ q # LedgerFile => disk'[q] = disk[q]
      PROVE  Reaches'
  <2>1. FirstThere' = FirstThere /\ SomeOpened' = SomeOpened
    BY <1>1, PathTypes, PathsDiffer, Numbers DEF FirstThere, SomeOpened
  <2>2. CASE run' = None
    BY <1>1, <2>1, <2>2 DEF Reaches, Founded, Noted, Amends
  <2>3. CASE run' = run
    <3>1. Opening' = Opening /\ Amends' = Amends
      BY <1>1, <2>1, <2>3 DEF Opening, Amends
    <3> QED
      BY <1>1, <2>1, <2>3, <3>1 DEF Reaches, Founded, Noted
  <2> QED
    BY <1>1, <2>2, <2>3
<1>2. ASSUME UNCHANGED vars \/ Asks \/ Looks \/ Ends
      PROVE  Reaches'
  BY <1>1, <1>2, QuietEffect, EndEffect
<1>3. ASSUME ApplyFails \/ (EditBaseline /\ run' # None)
      PROVE  Reaches'
  <2>1. /\ UNCHANGED <<chain, harm>> /\ run # None /\ SameMutation /\ run'.noted = run.noted
        /\ \A q \in Path : q # Baseline => disk'[q] = disk[q]
    BY <1>3, FailEffect, EditEffect
  <2>2. FirstThere' = FirstThere /\ SomeOpened' = SomeOpened
    BY <2>1, PathTypes, PathsDiffer, Numbers DEF FirstThere, SomeOpened
  <2>3. Opening' = Opening /\ (Amends' => Amends) /\ run'.request = run.request
    BY <2>1, <2>2 DEF Opening, Amends, SameMutation
  <2> QED
    BY <2>1, <2>2, <2>3 DEF Reaches, Founded, Noted
<1>4. ASSUME EditBaseline, run' = None
      PROVE  Reaches'
  BY <1>1, <1>4, EditEffect
<1>5. ASSUME SetBack
      PROVE  Reaches'
  <2>1. /\ UNCHANGED <<run, chain>> /\ (Noted' => Noted)
        /\ \A q \in Path : q # LedgerFile => disk'[q] = disk[q]
    BY <1>5, SetBackEffect DEF Noted
  <2>2. FirstThere' = FirstThere /\ SomeOpened' = SomeOpened
    BY <2>1, PathTypes, PathsDiffer, Numbers DEF FirstThere, SomeOpened
  <2>3. Opening' = Opening /\ Amends' = Amends
    BY <2>1, <2>2 DEF Opening, Amends
  <2> QED
    BY <2>1, <2>2, <2>3 DEF Reaches, Founded
<1> QED
  BY <1>2, <1>3, <1>4, <1>5, ReachesBegin, ReachesWrite, ReachesUndo, Steps

\* A step of a mutation changes the files of the version it records, before its
\* commit or back to before it.
LEMMA ChainedChange ==
  ASSUME TypeOK, Planned, run # None, Apply \/ ApplyUnnoted \/ Undo,
         NEW path \in Chained, disk'[path] # disk[path]
  PROVE  Amends /\ path[2] = NewNumber /\ run.noted <= 3
<1>1. run.noted \in Nat
  BY DEF Planned
<1>2. PICK q : /\ \A r \in Path : r # q => disk'[r] = disk[r]
               /\ \/ /\ Amends /\ run.noted <= 3
                     /\ q \in {Version(NewNumber), Amendment(NewNumber)}
                  \/ q = Baseline \/ q = LedgerFile \/ \E c : q \in {Opened(c), Mirror(c)}
  <2>1. CASE Apply \/ ApplyUnnoted
    <3> DEFINE i == run.noted + 1
    <3>1. (i = 1 \/ i = 3) => run.noted <= 3
      BY <1>1
    <3> QED
      BY <2>1, <3>1, OneWrite DEF Changed
  <2>2. CASE Undo
    <3>1. \A q, x, y : Reverted(q, x, y) => \A r \in Path : r # q => disk'[r] = disk[r]
      BY DEF Reverted, Changed
    <3>2. (run.noted = 1 \/ run.noted = 3) => run.noted <= 3
      OBVIOUS
    <3> QED
      BY <2>2, <3>1, <3>2, OneUndo
  <2> QED
    BY <2>1, <2>2
<1>3. path = q /\ path \in {Version(path[2]), Amendment(path[2])}
  BY <1>2, PathTypes
<1> QED
  BY <1>2, <1>3, PathsDiffer

\* Committed history is never overwritten or removed: the files of a version of
\* the chain change only when an undo missed the commit, or when the ledger was
\* set back so that the version looks like a remnant of the next one.
THEOREM CommittedIsKept == Spec => HistoryIsKept
<1> DEFINE IInv == TypeOK /\ Planned /\ Reading /\ Written /\ Sound /\ Reaches
           Step == \A n \in DOMAIN chain, path \in Chained :
                     /\ run # None /\ edits' = edits
                     /\ path[2] = n /\ disk[path] # Absent /\ disk'[path] # disk[path]
                     => \/ "commit unnoted" \in harm
                        \/ n > 1 /\ "ledger set back" \in harm /\ run.request.version = n - 1
<1>1. Init => IInv
  <2> SUFFICES ASSUME Init PROVE Sound /\ Reaches
    BY InitWritten
  <2>1. \A path \in Chained : disk[path] # Absent => path[2] <= Len(chain) + 1
    <3>1. Len(chain) \in Nat /\ \A path \in Chained : path[2] \in Nat
      BY InitFacts, PathTypes, LenProperties, Numbers
    <3> QED
      BY <3>1, InitFacts
  <2>2. Sound
    BY <2>1, InitFacts DEF Sound, Tidy, Unvouched, Amends
  <2>3. chain # <<>> => FirstThere
    <3> SUFFICES ASSUME chain # <<>> PROVE FirstThere
      OBVIOUS
    <3>1. 1 \in DOMAIN chain /\ chain[1] \in Entry
      BY InitFacts, LenProperties, ElementOfSeq, EmptySeq
    <3>2. chain[1].text \in Text
      BY <3>1 DEF Entry
    <3> QED
      BY <3>1, <3>2, InitFacts, NotAbsent DEF FirstThere
  <2> QED
    BY <2>2, <2>3, InitFacts DEF Reaches, Founded, Amends
<1>2. IInv /\ [Next]_vars => IInv'
  BY TypeStep, PlannedStep, ReadingStep, WrittenStep, SoundStep, ReachesStep
<1>3. IInv /\ [Next]_vars => [Step]_vars
  <2> SUFFICES ASSUME IInv, [Next]_vars, NEW n \in DOMAIN chain, NEW path \in Chained,
                      run # None, edits' = edits, path[2] = n, disk'[path] # disk[path],
                      Noted
               PROVE  n > 1 /\ ~Unharmed /\ run.request.version = n - 1
    BY DEF Noted, Unharmed
  <2>1. Apply \/ ApplyUnnoted \/ Undo
    <3>1. ~(EditBaseline \/ SetBack)
      <4>1. edits \in 0 .. MaxEdits /\ MaxEdits \in Nat
        BY BoundsAssumption DEF TypeOK
      <4>2. edits + 1 # edits
        BY ONLY <4>1
      <4> QED
        BY <4>2, EditEffect, SetBackEffect
    <3> QED
      BY <3>1, Steps, QuietEffect, EndEffect, BeginEffect, FailEffect
  <2>2. Amends /\ path[2] = NewNumber /\ run.noted <= 3 /\ run.noted \in Nat
    BY <2>1, ChainedChange DEF Planned
  <2>3. /\ run.request.version \in Nat /\ n = run.request.version + 1
        /\ Len(Before) = run.request.version /\ Before \in Seq(Entry)
    <3>1. run.request.version \in 0 .. MaxVersions
      BY <2>2, AfterFacts, RequestTypes DEF Amends
    <3> QED
      BY <2>2, <3>1, AfterFacts, Numbers DEF NewNumber
  <2>4. ASSUME Unharmed
        PROVE  FALSE
    <3>1. Tidy /\ Placed
      BY <2>2, <2>4 DEF Sound
    <3>2. ~(run.noted >= 4)
      BY <2>2
    <3>3. chain = Before
      BY <3>1, <3>2 DEF Tidy, Placed, Recorded, Before, Rec
    <3>4. n \in 1 .. Len(Before)
      BY <2>3, <3>3, LenProperties
    <3> QED
      BY <2>3, <3>4
  <2>5. run.request.version > 0
    <3> SUFFICES ASSUME ~(run.request.version > 0) PROVE FALSE
      OBVIOUS
    <3>1. Opening
      BY <2>2 DEF Reaches, Founded
    <3>2. chain = <<>>
      BY <2>2, <3>1 DEF Opening
    <3> QED
      BY <3>2
  <2> QED
    BY <2>3, <2>4, <2>5
<1> QED
  BY <1>1, <1>2, <1>3, PTL DEF Spec, HistoryIsKept

-----------------------------------------------------------------------------
(* Challenges and mirrors *)

\* A challenge that is open has no mirror, when the mirrors agree.
LEMMA OpenHasNoMirror ==
  ASSUME Agreeing(disk), NEW c \in Challenge, IsOpen(disk, c)
  PROVE  disk[Opened(c)] # Absent /\ disk[Mirror(c)] = Absent /\ Amending(disk, c) = {}
<1>1. disk[Opened(c)] # Absent /\ Amending(disk, c) = {} /\ disk[Mirror(c)] # [by |-> 0]
  BY DEF IsOpen, Dismissed
<1>2. disk[Mirror(c)] \notin {Absent, [by |-> 0]} => disk[Mirror(c)].by \in Amending(disk, c)
  BY DEF Agreeing
<1> QED
  BY <1>1, <1>2

LEMMA SidingBegin ==
  ASSUME TypeOK, Written, Siding, NEW p \in Process, Begin(p)
  PROVE  Siding'
<1> SUFFICES ASSUME Mirrored'
             PROVE  /\ Agreeing(disk)'
                    /\ Amends' => AmendSide'
                    /\ (run # None /\ run.request.op = "challenge" => ChallengeSide)'
                    /\ (run # None /\ run.request.op = "dismiss" => DismissSide)'
  BY DEF Siding
<1>1. /\ Planned' /\ run'.noted = 0 /\ run'.request \in Request
      /\ Admits(run'.request)
      /\ \A i \in 1 .. Len(run'.writes) : run'.old[i] = disk[run'.writes[i].path]
      /\ UNCHANGED <<disk, chain, harm>>
  BY BeginEffect
<1>2. Agreeing(disk)
  BY <1>1 DEF Siding, Mirrored
<1>3. Agreeing(disk)'
  BY <1>1, <1>2 DEF Agreeing, Amending, Recorded, Dismissed
<1>4. ASSUME Amends'
      PROVE  AmendSide'
  <2>1. /\ AmendPlan' /\ Len(run'.writes) \in Nat /\ run'.request.op = "amend"
        /\ run'.request.resolves \subseteq Challenge
    BY <1>1, <1>4, RequestTypes DEF Planned, Amends
  <2>2. \A c \in run'.request.resolves : IsOpen(disk, c)
    BY <1>1, <2>1 DEF Admits, AmendAdmits
  <2>3. \A c \in run'.request.resolves : disk[Opened(c)] # Absent /\ disk[Mirror(c)] = Absent
    BY <1>2, <2>1, <2>2, OpenHasNoMirror
  <2>4. run'.writes[4].path = LedgerFile /\ Len(run'.writes) >= 4
    BY <2>1 DEF AmendPlan, Put
  <2>5. \A i \in 5 .. Len(run'.writes) :
          i \in 1 .. Len(run'.writes) /\ run'.old[i] = disk[run'.writes[i].path]
    BY <1>1, <2>1
  <2>6. ASSUME NEW i \in 5 .. Len(run'.writes)
        PROVE  run'.old[i] = Absent
    <3>1. \E c \in run'.request.resolves :
            run'.writes[i] = Put(Mirror(c), [by |-> NewNumber'])
      BY <2>1 DEF AmendPlan
    <3>2. PICK c \in run'.request.resolves : run'.writes[i].path = Mirror(c)
      BY <3>1 DEF Put
    <3> QED
      BY <2>3, <2>5, <3>2
  <2>7. 4 \in 1 .. Len(run'.writes)
    BY <2>1, <2>4
  <2>8. run'.old[4] = disk[LedgerFile]
    BY <1>1, <2>4, <2>7
  <2> QED
    BY <1>1, <2>3, <2>6, <2>8 DEF AmendSide
<1>5. ASSUME run'.request.op = "challenge"
      PROVE  ChallengeSide'
  <2>1. run'.request.challenge \in Challenge /\ disk[Opened(run'.request.challenge)] = Absent
    BY <1>1, <1>5, RequestTypes DEF Admits
  <2> QED
    BY <1>1, <1>2, <2>1 DEF Agreeing, ChallengeSide, Amending, Recorded
<1>6. ASSUME run'.request.op = "dismiss"
      PROVE  DismissSide'
  <2>1. run'.request.challenge \in Challenge /\ IsOpen(disk, run'.request.challenge)
    BY <1>1, <1>6, RequestTypes DEF Admits
  <2> QED
    BY <1>1, <2>1 DEF IsOpen, DismissSide, Amending, Recorded
<1> QED
  BY <1>3, <1>4, <1>5, <1>6

\* A change that leaves the ledger and the mirrors, and loses no challenge,
\* leaves them agreeing.
LEMMA AgreeingKept ==
  ASSUME Agreeing(disk), disk'[LedgerFile] = disk[LedgerFile],
         \A c \in Challenge : /\ disk'[Mirror(c)] = disk[Mirror(c)]
                              /\ disk'[Opened(c)] = Absent => disk[Opened(c)] = Absent
  PROVE  Agreeing(disk') /\ \A c : Amending(disk', c) = Amending(disk, c)
<1>1. \A c : Amending(disk', c) = Amending(disk, c)
  BY DEF Amending, Recorded
<1> QED
  BY <1>1 DEF Agreeing, Dismissed

\* The commit: the challenges it resolves are there, and have no mirror yet.
LEMMA AgreeingGrows ==
  ASSUME Planned, Amends, Agreeing(disk), Recorded(disk) = Before,
         \A c \in run.request.resolves : disk[Opened(c)] # Absent /\ ~Dismissed(disk, c),
         Changed(LedgerFile, After)
  PROVE  Agreeing(disk')
<1>1. /\ After # Absent
      /\ \A c : AmendedIn(After, c) =
           AmendedIn(Before, c) \cup (IF c \in run.request.resolves THEN {NewNumber} ELSE {})
  BY AfterFacts
<1>2. Recorded(disk') = After
  BY <1>1 DEF Changed, Recorded
<1>3. \A c : Amending(disk', c) =
        Amending(disk, c) \cup (IF c \in run.request.resolves THEN {NewNumber} ELSE {})
  BY <1>1, <1>2 DEF Amending, AmendedIn
<1>4. \A c \in Challenge : /\ disk'[Mirror(c)] = disk[Mirror(c)]
                           /\ disk'[Opened(c)] = disk[Opened(c)]
  BY PathTypes, PathsDiffer DEF Changed
<1>5. \A c \in Challenge :
        disk[Opened(c)] = Absent \/ Dismissed(disk, c) => c \notin run.request.resolves
  OBVIOUS
<1>6. ASSUME NEW c \in Challenge
      PROVE  /\ disk'[Opened(c)] = Absent => disk'[Mirror(c)] = Absent /\ Amending(disk', c) = {}
             /\ Dismissed(disk', c) => Amending(disk', c) = {}
             /\ disk'[Mirror(c)] \notin {Absent, [by |-> 0]} =>
                  disk'[Mirror(c)].by \in Amending(disk', c)
  <2>1. /\ disk[Opened(c)] = Absent => disk[Mirror(c)] = Absent /\ Amending(disk, c) = {}
        /\ Dismissed(disk, c) => Amending(disk, c) = {}
        /\ disk[Mirror(c)] \notin {Absent, [by |-> 0]} => disk[Mirror(c)].by \in Amending(disk, c)
    BY DEF Agreeing
  <2>2. Amending(disk, c) \subseteq Amending(disk', c)
    BY <1>3
  <2>3. c \notin run.request.resolves => Amending(disk', c) = Amending(disk, c)
    BY <1>3
  <2> QED
    BY <1>4, <1>5, <2>1, <2>2, <2>3 DEF Dismissed
<1> QED
  BY <1>6 DEF Agreeing

\* A resolution of a challenge that is there, by an amendment that lists it, by
\* a dismissal of one that none lists, or withdrawn.
LEMMA AgreeingMirror ==
  ASSUME Agreeing(disk), NEW c \in Challenge, NEW x, Changed(Mirror(c), x),
         disk[Opened(c)] # Absent,
         \/ x = Absent
         \/ x = [by |-> 0] /\ Amending(disk, c) = {}
         \/ x # [by |-> 0] /\ x.by \in Amending(disk, c)
  PROVE  Agreeing(disk')
<1>1. /\ disk'[LedgerFile] = disk[LedgerFile] /\ disk'[Mirror(c)] = x
      /\ \A d \in Challenge : /\ disk'[Opened(d)] = disk[Opened(d)]
                              /\ d # c => disk'[Mirror(d)] = disk[Mirror(d)]
  BY PathTypes, PathsDiffer DEF Changed
<1>2. \A d : Amending(disk', d) = Amending(disk, d)
  BY <1>1 DEF Amending, Recorded
<1>3. ASSUME NEW d \in Challenge
      PROVE  /\ disk'[Opened(d)] = Absent => disk'[Mirror(d)] = Absent /\ Amending(disk', d) = {}
             /\ Dismissed(disk', d) => Amending(disk', d) = {}
             /\ disk'[Mirror(d)] \notin {Absent, [by |-> 0]} =>
                  disk'[Mirror(d)].by \in Amending(disk', d)
  <2>1. CASE d = c
    BY <1>1, <1>2, <2>1, NotAbsent, Resolutions DEF Dismissed
  <2>2. CASE d # c
    <3>1. /\ disk[Opened(d)] = Absent => disk[Mirror(d)] = Absent /\ Amending(disk, d) = {}
          /\ Dismissed(disk, d) => Amending(disk, d) = {}
          /\ disk[Mirror(d)] \notin {Absent, [by |-> 0]} => disk[Mirror(d)].by \in Amending(disk, d)
      BY DEF Agreeing
    <3>2. disk'[Mirror(d)] = disk[Mirror(d)] /\ (Dismissed(disk', d) => Dismissed(disk, d))
      BY <1>1, <2>2 DEF Dismissed
    <3> QED
      BY <1>1, <1>2, <3>1, <3>2
  <2> QED
    BY <2>1, <2>2
<1> QED
  BY <1>3 DEF Agreeing

LEMMA SidingWrite ==
  ASSUME TypeOK, Planned, Written, Siding, Apply \/ ApplyUnnoted
  PROVE  Siding'
<1> DEFINE i == run.noted + 1
<1> SUFFICES ASSUME Mirrored'
             PROVE  /\ Agreeing(disk')
                    /\ Amends' => AmendSide'
                    /\ run'.request.op = "challenge" => ChallengeSide'
                    /\ run'.request.op = "dismiss" => DismissSide'
  BY DEF Siding
<1>1. /\ run # None /\ ~run.undoing /\ i \in 1 .. Len(run.writes) /\ SameMutation
      /\ run'.noted \in {i, run.noted} /\ (Apply => run'.noted = i)
      /\ (run'.undoing \/ run'.noted = i)
  BY WriteEffect
<1>2. run.noted \in Nat /\ i \in Nat /\ run.noted = i - 1 /\ run.request \in Request
  BY <1>1 DEF Planned
<1>3. Mirrored /\ ((\E c : run.writes[i].path = Mirror(c)) => Apply)
  BY HarmDone DEF Mirrored
<1>4. /\ Agreeing(disk) /\ (Amends => AmendSide)
      /\ run.request.op = "challenge" => ChallengeSide
      /\ run.request.op = "dismiss" => DismissSide
  BY <1>1, <1>3 DEF Siding
<1>5. /\ run'.request = run.request /\ run'.old = run.old /\ run'.writes = run.writes
      /\ (Amends' => Amends) /\ After' = After
  BY <1>1 DEF SameMutation, Amends, After
<1>6. 5 .. run.noted \subseteq 5 .. run'.noted
  BY <1>1, <1>2
<1>7. Amends => run.request.resolves \subseteq Challenge /\ NewNumber \in Nat /\ NewNumber # 0
  <2>1. Amends => run.request.resolves \subseteq Challenge
    BY <1>2, RequestTypes DEF Amends
  <2>2. Amends => NewNumber \in Number
    BY AfterFacts
  <2> QED
    BY <2>1, <2>2, Numbers
<1> HIDE DEF i
<1>8. CASE Amends /\ i <= 3 /\ \E path \in {Version(NewNumber), Baseline, Amendment(NewNumber)} :
                                 Changed(path, disk'[path])
  <2>1. /\ disk'[LedgerFile] = disk[LedgerFile]
        /\ \A c \in Challenge : /\ disk'[Mirror(c)] = disk[Mirror(c)]
                                /\ disk'[Opened(c)] = disk[Opened(c)]
    BY <1>8, PathTypes, PathsDiffer DEF Changed
  <2>2. Agreeing(disk')
    BY <1>4, <2>1, AgreeingKept
  <2>3. run.noted < 4 /\ ~(run'.noted >= 4)
    BY <1>1, <1>2, <1>8
  <2>4. AmendSide'
    BY <1>1, <1>4, <1>5, <1>6, <1>7, <1>8, <2>1, <2>3 DEF AmendSide
  <2> QED
    BY <1>5, <1>8, <2>2, <2>4 DEF Amends
<1>9. CASE Amends /\ i = 4 /\ Changed(LedgerFile, After)
  <2>1. run.noted < 4 /\ (run'.undoing \/ ~(run'.noted < 4))
    BY <1>1, <1>2, <1>9
  <2>2. disk[LedgerFile] = run.old[4] /\ Recorded(disk) = Before
    BY <1>1, <1>4, <1>9, <2>1 DEF AmendSide, Recorded, Before, Rec
  <2>3. \A c \in run.request.resolves : disk[Opened(c)] # Absent /\ ~Dismissed(disk, c)
    BY <1>1, <1>4, <1>9 DEF AmendSide, Written
  <2>4. Agreeing(disk')
    BY <1>4, <1>9, <2>2, <2>3, AgreeingGrows
  <2>5. /\ disk'[LedgerFile] = After
        /\ \A c \in Challenge : /\ disk'[Mirror(c)] = disk[Mirror(c)]
                                /\ disk'[Opened(c)] = disk[Opened(c)]
    BY <1>9, PathTypes, PathsDiffer DEF Changed
  <2>6. AmendSide'
    BY <1>4, <1>5, <1>6, <1>7, <1>9, <2>1, <2>5 DEF AmendSide
  <2> QED
    BY <1>5, <1>9, <2>4, <2>6 DEF Amends
<1>10. CASE /\ Amends /\ i >= 5
            /\ \E c \in run.request.resolves :
                 run.writes[i].path = Mirror(c) /\ Changed(Mirror(c), [by |-> NewNumber])
  <2>1. PICK c \in run.request.resolves :
          run.writes[i].path = Mirror(c) /\ Changed(Mirror(c), [by |-> NewNumber])
    BY <1>10
  <2>2. run.noted >= 4 /\ run'.noted = i /\ ~(run'.noted < 4)
    BY <1>1, <1>2, <1>3, <1>10, <2>1
  <2>3. disk[LedgerFile] = After /\ disk[Opened(c)] # Absent /\ c \in Challenge
    BY <1>4, <1>7, <1>10, <2>1, <2>2 DEF AmendSide
  <2>4. NewNumber \in Amending(disk, c)
    <3>1. Recorded(disk) = After /\ NewNumber \in AmendedIn(After, c)
      BY <1>10, <2>1, <2>3, AfterFacts DEF Recorded
    <3> QED
      BY <3>1 DEF Amending, AmendedIn
  <2>5. [by |-> NewNumber] # [by |-> 0] /\ [by |-> NewNumber].by = NewNumber
    BY <1>7, <1>10
  <2>6. Agreeing(disk')
    BY <1>4, <2>1, <2>3, <2>4, <2>5, AgreeingMirror
  <2>7. /\ disk'[LedgerFile] = disk[LedgerFile]
        /\ \A d \in Challenge : /\ d # c => disk'[Mirror(d)] = disk[Mirror(d)]
                                /\ disk'[Opened(d)] = disk[Opened(d)]
    BY <2>1, PathTypes, PathsDiffer DEF Changed
  <2>8. i \in 5 .. run'.noted
    BY <1>2, <1>10, <2>2
  <2>9. \A d \in run.request.resolves : disk'[Mirror(d)] # Absent =>
          \E j \in 5 .. run'.noted : run.writes[j].path = Mirror(d)
    <3> SUFFICES ASSUME NEW d \in run.request.resolves, disk'[Mirror(d)] # Absent
                 PROVE  \E j \in 5 .. run'.noted : run.writes[j].path = Mirror(d)
      OBVIOUS
    <3>1. CASE d = c
      BY <2>1, <2>8, <3>1
    <3>2. CASE d # c
      <4>1. disk[Mirror(d)] # Absent
        BY <1>7, <1>10, <2>7, <3>2
      <4>2. \E j \in 5 .. run.noted : run.writes[j].path = Mirror(d)
        BY <1>4, <1>10, <4>1 DEF AmendSide
      <4> QED
        BY <1>6, <4>2
    <3> QED
      BY <3>1, <3>2
  <2>10. AmendSide'
    BY <1>4, <1>5, <1>7, <1>10, <2>2, <2>3, <2>7, <2>9 DEF AmendSide
  <2> QED
    BY <1>5, <1>10, <2>6, <2>10 DEF Amends
<1>11. CASE /\ run.request.op = "challenge"
            /\ Changed(Opened(run.request.challenge), "open")
  <2>1. run.request.challenge \in Challenge
    BY <1>2, <1>11, RequestTypes
  <2>2. /\ disk'[LedgerFile] = disk[LedgerFile]
        /\ \A c \in Challenge : /\ disk'[Mirror(c)] = disk[Mirror(c)]
                                /\ disk'[Opened(c)] = Absent => disk[Opened(c)] = Absent
    BY <1>11, PathTypes, PathsDiffer, NotAbsent DEF Changed
  <2>3. Agreeing(disk') /\ \A c : Amending(disk', c) = Amending(disk, c)
    BY <1>4, <2>2, AgreeingKept
  <2> QED
    BY <1>4, <1>5, <1>11, <2>1, <2>2, <2>3 DEF ChallengeSide, Amends
<1>12. CASE /\ run.request.op = "dismiss" /\ i = 1
            /\ Changed(Mirror(run.request.challenge), [by |-> 0])
  <2>1. run.request.challenge \in Challenge
    BY <1>2, <1>12, RequestTypes
  <2>2. Agreeing(disk')
    BY <1>4, <1>12, <2>1, AgreeingMirror DEF DismissSide
  <2>3. /\ disk'[LedgerFile] = disk[LedgerFile]
        /\ disk'[Opened(run.request.challenge)] = disk[Opened(run.request.challenge)]
    BY <1>12, <2>1, PathTypes, PathsDiffer DEF Changed
  <2> QED
    BY <1>4, <1>5, <1>12, <2>2, <2>3 DEF DismissSide, Amends, Amending, Recorded
<1> QED
  <2>1. \A path, content : Changed(path, content) => Changed(path, disk'[path])
    BY DEF Changed
  <2>2. (i = 1 \/ i = 2 \/ i = 3) => i <= 3
    OBVIOUS
  <2> QED
    BY <1>8, <1>9, <1>10, <1>11, <1>12, <2>1, <2>2, OneWrite DEF i

LEMMA SidingUndo ==
  ASSUME TypeOK, Planned, Siding, Undo
  PROVE  Siding'
<1> DEFINE i == run.noted
<1> SUFFICES ASSUME Mirrored'
             PROVE  /\ Agreeing(disk')
                    /\ Amends' => AmendSide'
                    /\ run'.request.op = "challenge" => ChallengeSide'
                    /\ run'.request.op = "dismiss" => DismissSide'
  BY DEF Siding
<1>1. /\ run # None /\ run.undoing /\ i \in 1 .. Len(run.writes) /\ SameMutation
      /\ run'.noted = i - 1 /\ run'.undoing /\ harm' = harm
  BY OneUndo DEF Undo
<1>2. i \in Nat /\ i < Len(run.writes) /\ Len(run.writes) \in Nat
  BY <1>1 DEF Planned
<1>3. /\ Agreeing(disk) /\ (Amends => AmendSide)
  BY <1>1 DEF Siding, Mirrored
<1>4. /\ run'.request = run.request /\ run'.old = run.old /\ run'.writes = run.writes
      /\ (Amends' => Amends) /\ After' = After
  BY <1>1 DEF SameMutation, Amends, After
<1>5. Amends
  <2>1. ~(Len(run.writes) = 1)
    <3> SUFFICES ASSUME Len(run.writes) = 1 PROVE FALSE
      OBVIOUS
    <3>1. i \in 1 .. 1 /\ i < 1
      BY <1>1, <1>2
    <3> QED
      BY ONLY <3>1
  <2>2. run.request \in Request
    BY <1>1 DEF Planned
  <2> QED
    BY <1>1, <2>1, <2>2, RequestTypes DEF Planned, Amends
<1>6. /\ run.request.resolves \subseteq Challenge /\ NewNumber \in Nat /\ NewNumber # 0
      /\ Len(After) = NewNumber /\ After # Absent
      /\ \A c \in run.request.resolves : AmendedIn(After, c) = {NewNumber}
  <2>1. /\ \A c \in run.request.resolves : AmendedIn(Before, c) = {}
    BY <1>5, AfterFacts DEF AmendPlan
  <2>2. run.request.resolves \subseteq Challenge
    BY <1>5, AfterFacts, RequestTypes DEF Amends
  <2> QED
    BY <1>5, <2>1, <2>2, AfterFacts, Numbers
<1>7. SUFFICES Agreeing(disk') /\ AmendSide'
  BY <1>4, <1>5 DEF Amends
<1> HIDE DEF i
<1>8. CASE i <= 3 /\ \E path \in {Version(NewNumber), Baseline, Amendment(NewNumber)} :
                       \E x, y : Reverted(path, x, y)
  <2>1. /\ disk'[LedgerFile] = disk[LedgerFile]
        /\ \A c \in Challenge : /\ disk'[Mirror(c)] = disk[Mirror(c)]
                                /\ disk'[Opened(c)] = disk[Opened(c)]
    BY <1>8, PathTypes, PathsDiffer DEF Reverted, Changed
  <2>2. Agreeing(disk')
    BY <1>3, <2>1, AgreeingKept
  <2>3. ~(run'.noted >= 4) /\ (\A j \in 5 .. run.noted : FALSE)
    BY <1>1, <1>2, <1>8 DEF i
  <2>4. AmendSide'
    BY <1>1, <1>3, <1>4, <1>5, <1>6, <2>1, <2>3 DEF AmendSide
  <2> QED
    BY <2>2, <2>4
<1>9. CASE i = 4 /\ Reverted(LedgerFile, After, run.old[4])
  <2>1. run.noted >= 4 /\ ~(run'.noted >= 4) /\ (\A j \in 5 .. run.noted : FALSE)
    BY <1>1, <1>9 DEF i
  <2>2. disk[LedgerFile] = After
    BY <1>3, <1>5, <2>1 DEF AmendSide
  <2>3. Changed(LedgerFile, run.old[4])
    BY <1>9, <2>2 DEF Reverted
  <2>4. /\ disk'[LedgerFile] = run.old[4]
        /\ \A c \in Challenge : /\ disk'[Mirror(c)] = disk[Mirror(c)]
                                /\ disk'[Opened(c)] = disk[Opened(c)]
    BY <2>3, PathTypes, PathsDiffer DEF Changed
  <2>5. Recorded(disk) = After /\ Recorded(disk') = Before
    BY <1>6, <2>2, <2>4 DEF Recorded, Before, Rec
  <2>6. \A c \in run.request.resolves : disk[Opened(c)] # Absent /\ disk[Mirror(c)] = Absent
    BY <1>3, <1>5, <2>1 DEF AmendSide
  <2>7. \A c : /\ Amending(disk', c) \subseteq Amending(disk, c)
               /\ c \notin run.request.resolves => Amending(disk', c) = Amending(disk, c)
    <3>1. \A c : AmendedIn(After, c) =
            AmendedIn(Before, c) \cup (IF c \in run.request.resolves THEN {NewNumber} ELSE {})
      BY <1>5, AfterFacts
    <3>2. \A c : /\ Amending(disk', c) = AmendedIn(Before, c)
                 /\ Amending(disk, c) = AmendedIn(After, c)
      BY <2>5 DEF Amending, AmendedIn
    <3> QED
      BY <3>1, <3>2
  <2>8. Agreeing(disk')
    <3>1. ASSUME NEW c \in Challenge
          PROVE  /\ disk'[Opened(c)] = Absent =>
                      disk'[Mirror(c)] = Absent /\ Amending(disk', c) = {}
                 /\ Dismissed(disk', c) => Amending(disk', c) = {}
                 /\ disk'[Mirror(c)] \notin {Absent, [by |-> 0]} =>
                      disk'[Mirror(c)].by \in Amending(disk', c)
      <4>1. /\ disk[Opened(c)] = Absent => disk[Mirror(c)] = Absent /\ Amending(disk, c) = {}
            /\ Dismissed(disk, c) => Amending(disk, c) = {}
            /\ disk[Mirror(c)] \notin {Absent, [by |-> 0]} =>
                 disk[Mirror(c)].by \in Amending(disk, c)
        BY <1>3 DEF Agreeing
      <4>2. Amending(disk', c) \subseteq Amending(disk, c)
            /\ (c \notin run.request.resolves => Amending(disk', c) = Amending(disk, c))
        BY <2>7
      <4> QED
        BY <2>4, <2>6, <4>1, <4>2 DEF Dismissed
    <3> QED
      BY <3>1 DEF Agreeing
  <2>9. AmendSide'
    BY <1>1, <1>3, <1>4, <1>5, <1>6, <2>1, <2>4, <2>6 DEF AmendSide
  <2> QED
    BY <2>8, <2>9
<1>10. CASE /\ i >= 5
            /\ \E c \in run.request.resolves :
                 /\ run.writes[i].path = Mirror(c)
                 /\ Reverted(Mirror(c), [by |-> NewNumber], run.old[i])
  <2>1. PICK c \in run.request.resolves :
          /\ run.writes[i].path = Mirror(c)
          /\ Reverted(Mirror(c), [by |-> NewNumber], run.old[i])
    BY <1>10
  <2>2. run.noted >= 4 /\ i \in 5 .. Len(run.writes)
    BY <1>2, <1>10 DEF i
  <2>3. /\ disk[LedgerFile] = After /\ disk[Opened(c)] # Absent /\ c \in Challenge
        /\ run.old[i] = Absent
    BY <1>3, <1>5, <1>6, <2>1, <2>2 DEF AmendSide
  <2>4. Amending(disk, c) = {NewNumber}
    <3>1. Recorded(disk) = After
      BY <1>6, <2>3 DEF Recorded
    <3> QED
      BY <1>6, <2>1, <3>1 DEF Amending, AmendedIn
  <2>5. disk[Mirror(c)] \in {Absent, [by |-> NewNumber]}
    <3>1. disk[Mirror(c)] # Absent =>
            disk[Mirror(c)] # [by |-> 0] /\ disk[Mirror(c)].by \in Amending(disk, c)
      BY <1>3, <2>3, <2>4 DEF Agreeing, Dismissed
    <3>2. disk[Mirror(c)] \in Resolution \cup {Absent}
      BY <2>3, PathTypes, FitsAt DEF TypeOK
    <3> QED
      BY <2>4, <3>1, <3>2, Resolutions
  <2>6. disk'[Mirror(c)] = Absent /\ \A q \in Path : q # Mirror(c) => disk'[q] = disk[q]
    BY <2>1, <2>3, <2>5 DEF Reverted, Changed
  <2>7. Changed(Mirror(c), Absent)
    <3>1. chain' = chain
      BY <2>1, PathsDiffer DEF Reverted, Changed
    <3> QED
      BY <2>6, <3>1, PathsDiffer DEF Changed
  <2>8. Agreeing(disk')
    BY <1>3, <2>3, <2>7, AgreeingMirror
  <2>9. /\ disk'[LedgerFile] = disk[LedgerFile]
        /\ \A d \in Challenge : /\ d # c => disk'[Mirror(d)] = disk[Mirror(d)]
                                /\ disk'[Opened(d)] = disk[Opened(d)]
    BY <2>6, PathTypes, PathsDiffer
  <2>10. \A d \in run.request.resolves : disk'[Mirror(d)] # Absent =>
           \E j \in 5 .. run'.noted : run.writes[j].path = Mirror(d)
    <3> SUFFICES ASSUME NEW d \in run.request.resolves, disk'[Mirror(d)] # Absent
                 PROVE  \E j \in 5 .. run'.noted : run.writes[j].path = Mirror(d)
      OBVIOUS
    <3>1. d # c /\ disk[Mirror(d)] # Absent
      BY <1>6, <2>6, <2>9
    <3>2. PICK j \in 5 .. run.noted : run.writes[j].path = Mirror(d)
      BY <1>3, <1>5, <3>1 DEF AmendSide
    <3>3. j # i
      BY <2>1, <3>1, <3>2, PathsDiffer
    <3>4. j \in 5 .. run'.noted
      BY <1>1, <1>2, <3>2, <3>3 DEF i
    <3> QED
      BY <3>2, <3>4
  <2>11. AmendSide'
    BY <1>1, <1>3, <1>4, <1>5, <1>6, <2>3, <2>9, <2>10 DEF AmendSide
  <2> QED
    BY <2>8, <2>11
<1> QED
  <2>1. (i = 1 \/ i = 2 \/ i = 3) => i <= 3
    OBVIOUS
  <2> QED
    BY <1>5, <1>8, <1>9, <1>10, <2>1, OneUndo DEF i, Amends

LEMMA SidingFrame ==
  ASSUME Planned, Siding, Mirrored' => Mirrored,
         disk'[LedgerFile] = disk[LedgerFile],
         \A c \in Challenge : /\ disk'[Mirror(c)] = disk[Mirror(c)]
                              /\ disk'[Opened(c)] = disk[Opened(c)],
         run' # None =>
           /\ run # None /\ run'.request = run.request /\ run'.writes = run.writes
           /\ run'.old = run.old /\ run'.noted = run.noted
           /\ run.undoing => run'.undoing
  PROVE  Siding'
<1> SUFFICES ASSUME Mirrored'
             PROVE  /\ Agreeing(disk')
                    /\ run' # None =>
                         /\ Amends' => AmendSide'
                         /\ run'.request.op = "challenge" => ChallengeSide'
                         /\ run'.request.op = "dismiss" => DismissSide'
  BY DEF Siding, Amends
<1>1. Agreeing(disk) /\ Mirrored
  BY DEF Siding
<1>2. Agreeing(disk') /\ \A c : Amending(disk', c) = Amending(disk, c)
  BY <1>1, AgreeingKept
<1>3. ASSUME run' # None
      PROVE  /\ Amends' => AmendSide'
             /\ run'.request.op = "challenge" => ChallengeSide'
             /\ run'.request.op = "dismiss" => DismissSide'
  <2>1. run # None /\ run.request \in Request
    BY <1>3 DEF Planned
  <2>2. ASSUME Amends'
        PROVE  AmendSide'
    <3>1. /\ Amends /\ AmendSide /\ After' = After
          /\ run.request.resolves \subseteq Challenge
      BY <1>1, <1>3, <2>1, <2>2, RequestTypes DEF Amends, Siding, After
    <3> QED
      BY <1>3, <3>1 DEF AmendSide
  <2>3. ASSUME run'.request.op = "challenge"
        PROVE  ChallengeSide'
    <3>1. run.request.challenge \in Challenge /\ ChallengeSide
      BY <1>1, <1>3, <2>1, <2>3, RequestTypes DEF Siding
    <3> QED
      BY <1>2, <1>3, <3>1 DEF ChallengeSide
  <2>4. ASSUME run'.request.op = "dismiss"
        PROVE  DismissSide'
    <3>1. run.request.challenge \in Challenge /\ DismissSide
      BY <1>1, <1>3, <2>1, <2>4, RequestTypes DEF Siding
    <3> QED
      BY <1>2, <1>3, <3>1 DEF DismissSide
  <2> QED
    BY <2>2, <2>3, <2>4
<1> QED
  BY <1>2, <1>3

LEMMA SidingStep ==
  ASSUME TypeOK, Planned, Written, Siding, [Next]_vars
  PROVE  Siding'
<1>1. ASSUME UNCHANGED vars \/ Asks \/ Looks \/ Ends
      PROVE  Siding'
  <2>1. UNCHANGED <<disk, harm>> /\ (run' # None => run' = run)
    BY <1>1, QuietEffect, EndEffect
  <2>2. Mirrored' => Mirrored
    BY <2>1 DEF Mirrored
  <2> QED
    BY <2>1, <2>2, SidingFrame
<1>2. ASSUME ApplyFails \/ EditBaseline
      PROVE  Siding'
  <2>1. /\ harm' = harm /\ \A q \in Path : q # Baseline => disk'[q] = disk[q]
        /\ run' # None =>
             /\ run # None /\ SameMutation /\ run'.noted = run.noted
             /\ run.undoing => run'.undoing
    BY <1>2, FailEffect, EditEffect
  <2>2. Mirrored' => Mirrored
    BY <2>1 DEF Mirrored
  <2> QED
    BY <2>1, <2>2, SidingFrame, PathTypes, PathsDiffer DEF SameMutation
<1>3. ASSUME SetBack
      PROVE  Siding'
  BY <1>3, SetBackEffect DEF Siding, Mirrored
<1> QED
  BY <1>1, <1>2, <1>3, SidingBegin, SidingWrite, SidingUndo, Steps

\* The mirrors never come to contradict the chain, so mutations are not refused
\* for good: unless the ledger was set back by hand, or an interrupt fell
\* between the write of a mirror and its note.
THEOREM MirrorsAgree == Spec => []SideRecordsAgree
<1> DEFINE IInv == TypeOK /\ Planned /\ Reading /\ Written /\ Siding
<1>1. Init => IInv
  <2> SUFFICES ASSUME Init PROVE Siding
    BY InitWritten
  <2>1. \A c : Amending(disk, c) = {}
    BY InitFacts DEF Amending
  <2>2. Agreeing(disk)
    BY <2>1, InitFacts, NotAbsent, Resolutions DEF Agreeing
  <2> QED
    BY <2>2, InitFacts DEF Siding, Amends
<1>2. IInv /\ [Next]_vars => IInv'
  BY TypeStep, PlannedStep, ReadingStep, WrittenStep, SidingStep
<1>3. IInv => SideRecordsAgree
  <2>1. Agreeing(disk) => ~SideInvalid(disk)
    BY DEF Agreeing, SideInvalid
  <2> QED
    BY <2>1 DEF Siding, SideRecordsAgree, Mirrored
<1> QED
  BY <1>1, <1>2, <1>3, PTL DEF Spec

-----------------------------------------------------------------------------
(* Reads *)

\* What a load that finds nothing INVALID says of the files.
LEMMA WritableFacts ==
  ASSUME TypeOK, Writable(disk)
  PROVE  /\ \A path \in Chained : disk[path] # Absent =>
              Len(Recorded(disk)) > 0 /\ path[2] <= Len(Recorded(disk)) + 1
         /\ \A k \in DOMAIN Recorded(disk) : ~Unvouched(disk, Recorded(disk)[k], k)
         /\ \A c \in Challenge : disk[Mirror(c)] # Absent =>
              /\ disk[Mirror(c)].by \in Nat
              /\ disk[Mirror(c)].by <= Len(Recorded(disk)) + 1
<1>1. /\ ~Misnumbered(disk[LedgerFile], History(disk)) /\ ~SideInvalid(disk)
      /\ \A k \in DOMAIN Recorded(disk) : ~Unvouched(disk, Recorded(disk)[k], k)
  BY DEF Writable, ChainInvalid
<1>2. /\ Len(Recorded(disk)) \in 0 .. MaxVersions
      /\ DOMAIN Recorded(disk) = 1 .. Len(Recorded(disk))
      /\ Len(Recorded(disk)) = 0 <=> disk[LedgerFile] = Absent
      /\ disk[LedgerFile] # Absent => Recorded(disk) = disk[LedgerFile]
  BY Records DEF Recorded
<1>3. Len(Recorded(disk)) \in Nat
  BY <1>2, Numbers
<1>4. ASSUME NEW path \in Chained, disk[path] # Absent
      PROVE  Len(Recorded(disk)) > 0 /\ path[2] <= Len(Recorded(disk)) + 1
  <2>1. path \in History(disk) \cap Chained /\ path[2] \in Nat
    BY <1>4, PathTypes, Numbers DEF History
  <2>2. CASE disk[LedgerFile] = Absent
    BY <1>1, <2>1, <2>2 DEF Misnumbered
  <2>3. CASE disk[LedgerFile] # Absent
    BY <1>1, <1>2, <1>3, <2>1, <2>3 DEF Misnumbered
  <2> QED
    BY <2>2, <2>3
<1>5. ASSUME NEW c \in Challenge, disk[Mirror(c)] # Absent
      PROVE  disk[Mirror(c)].by \in Nat /\ disk[Mirror(c)].by <= Len(Recorded(disk)) + 1
  <2>1. disk[Mirror(c)] \in Resolution
    BY <1>5, PathTypes, FitsAt DEF TypeOK
  <2>2. disk[Mirror(c)].by \in Nat /\ disk[Mirror(c)] = [by |-> disk[Mirror(c)].by]
    BY <2>1, Resolutions, Numbers
  <2>3. CASE disk[Mirror(c)] = [by |-> 0]
    <3>1. disk[Mirror(c)].by = 0
      BY <2>3
    <3> QED
      BY <1>3, <2>2, <3>1
  <2>4. CASE disk[Mirror(c)] # [by |-> 0]
    <3>1. disk[Mirror(c)].by \in Amending(disk, c) \cup {Len(Recorded(disk)) + 1}
      BY <1>1, <1>5, <2>4 DEF SideInvalid
    <3>2. Amending(disk, c) \subseteq 1 .. Len(Recorded(disk))
      BY <1>2 DEF Amending
    <3> QED
      BY <1>3, <2>2, <3>1, <3>2
  <2> QED
    BY <2>3, <2>4
<1> QED
  BY <1>1, <1>4, <1>5

\* When the snapshot of the next version is there, a ledger that can be written
\* is the one the amendment found.
LEMMA WritableIsBefore ==
  ASSUME TypeOK, Planned, Written, Amends, run.noted >= 1, Writable(disk)
  PROVE  /\ NewNumber <= Len(Recorded(disk)) + 1
         /\ ~run.undoing /\ run.noted < 4 => Recorded(disk) = Before
<1>1. /\ NewNumber \in Number /\ NewNumber \in Nat /\ Before \in Seq(Entry)
      /\ Len(Before) + 1 = NewNumber /\ Len(Before) \in Nat
  BY AfterFacts, Numbers, LenProperties DEF NewNumber
<1>2. disk[Version(NewNumber)] # Absent
  <2>1. disk[Version(NewNumber)] = run.request.text /\ run.request.text \in Text
    BY AfterFacts, RequestTypes DEF Written, Amends
  <2> QED
    BY <2>1, NotAbsent
<1>3. Version(NewNumber) \in Chained /\ Version(NewNumber)[2] = NewNumber
  BY <1>1, PathTypes
<1>4. NewNumber <= Len(Recorded(disk)) + 1
  BY <1>2, <1>3, WritableFacts
<1>5. ASSUME ~run.undoing, run.noted < 4
      PROVE  Recorded(disk) = Before
  <2>1. /\ Starts(Recorded(disk), Before) /\ Recorded(disk) \in Seq(Entry)
        /\ Len(Recorded(disk)) \in Nat
    BY <1>5, Records, LenProperties DEF Written
  <2>2. Len(Recorded(disk)) = Len(Before)
    BY <1>1, <1>4, <2>1 DEF Starts
  <2> QED
    BY <1>1, <2>1, <2>2, StartsFacts
<1> QED
  BY <1>4, <1>5

\* A read of the ledger by which the names it saw still make sense.
LEMMA MoreIsNumbered ==
  ASSUME NEW x, Fits(LedgerFile, x), NEW y \in Seq(Entry), y # Absent, Len(y) > 0,
         Len(Rec(x)) <= Len(y), NEW listed, ~Misnumbered(x, listed)
  PROVE  ~Misnumbered(y, listed)
<1>1. Len(y) \in Nat /\ Len(Rec(x)) \in Nat
  BY RecOf, LenProperties, Numbers
<1>2. CASE x = Absent
  BY <1>1, <1>2 DEF Misnumbered
<1>3. CASE x # Absent
  <2>1. Rec(x) = x /\ Len(x) > 0 /\ Len(x) \in Nat /\ Len(x) <= Len(y)
    BY <1>1, <1>3, RecOf
  <2>2. \A path \in listed \cap Chained : ~(path[2] > Len(x) + 1)
    BY <1>3, <2>1 DEF Misnumbered
  <2>3. \A path \in listed \cap Chained : path[2] \in Nat
    BY PathTypes, Numbers
  <2>4. \A path \in listed \cap Chained : ~(path[2] > Len(y) + 1)
    BY <1>1, <2>1, <2>2, <2>3
  <2> QED
    BY <1>1, <2>1, <2>4 DEF Misnumbered
<1> QED
  BY <1>2, <1>3

LEMMA WatchingWrite ==
  ASSUME TypeOK, Planned, Reading, Written, Watching, Apply \/ ApplyUnnoted
  PROVE  Watching'
<1> DEFINE i == run.noted + 1
           commits == run.writes[i].path = LedgerFile
<1> SUFFICES ASSUME reader' # None
             PROVE  /\ Writable(disk') /\ ~reader'.invalid
                    /\ reader'.at = "ledger" => ~Misnumbered(disk'[LedgerFile], reader'.listed)
                    /\ reader'.at \in {"version", "side"} => InStep'
                    /\ Amends' /\ ~run'.undoing /\ run'.noted >= 4 /\ reader'.committed =>
                         Recorded(disk') = After'
  BY DEF Watching
<1>1. Watch(commits, FALSE)
  BY DEF Apply, ApplyUnnoted, NextWrite
<1>2. /\ reader # None /\ Writable(disk') /\ ~(commits /\ reader.committed)
      /\ reader'.committed = (reader.committed \/ commits)
      /\ reader'.at = reader.at /\ reader'.listed = reader.listed
      /\ reader'.ledger = reader.ledger /\ reader'.invalid = reader.invalid
  BY <1>1, WatchEffect
<1>3. /\ run # None /\ ~run.undoing /\ i \in 1 .. Len(run.writes) /\ SameMutation
      /\ run'.noted \in {i, run.noted}
  BY WriteEffect
<1>4. run.noted \in Nat /\ i \in Nat /\ run.noted = i - 1 /\ run.request \in Request
  BY <1>3 DEF Planned
<1>5. /\ Writable(disk) /\ ~reader.invalid
      /\ reader.at = "ledger" => ~Misnumbered(disk[LedgerFile], reader.listed)
      /\ reader.at \in {"version", "side"} => InStep
      /\ Amends /\ run.noted >= 4 /\ reader.committed => Recorded(disk) = After
  BY <1>2, <1>3 DEF Watching
<1>6. (Amends' => Amends) /\ After' = After /\ Seen' = Seen
  BY <1>2, <1>3 DEF SameMutation, Amends, After, Seen
<1>7. Amends => run.request.resolves \subseteq Challenge
  BY <1>4, RequestTypes DEF Amends
<1>8. /\ Recorded(disk) \in Seq(Entry) /\ Len(Recorded(disk)) \in Nat
      /\ Fits(LedgerFile, disk[LedgerFile]) /\ Recorded(disk) = Rec(disk[LedgerFile])
  BY Records, PathTypes, LenProperties DEF TypeOK
<1>9. Fits(LedgerFile, reader.ledger) /\ Seen \in Seq(Entry) /\ Len(Seen) \in Nat
  BY <1>2, RecOf, LenProperties DEF TypeOK, Seen
<1> HIDE DEF i, commits
<1>10. CASE /\ Amends /\ i = 4 /\ Changed(LedgerFile, After)
            /\ commits
  <2>1. ~reader.committed /\ reader'.committed
    BY <1>2, <1>10
  <2>2. run.noted >= 1 /\ run.noted < 4
    BY <1>4, <1>10
  <2>3. Recorded(disk) = Before
    BY <1>3, <1>5, <1>10, <2>2, WritableIsBefore
  <2>4. /\ After \in Seq(Entry) /\ After # Absent /\ Starts(Before, After)
        /\ Len(After) = Len(Before) + 1
    BY <1>10, AfterFacts DEF NewNumber
  <2>5. disk'[LedgerFile] = After /\ Recorded(disk') = After
    BY <1>10, <2>4 DEF Changed, Recorded
  <2>6. \A c \in Challenge : disk'[Mirror(c)] = disk[Mirror(c)]
    BY <1>10, PathTypes, PathsDiffer DEF Changed
  <2>7. reader.at = "ledger" => ~Misnumbered(After, reader.listed)
    <3> SUFFICES ASSUME reader.at = "ledger"
                 PROVE  ~Misnumbered(After, reader.listed)
      OBVIOUS
    <3>1. ~Misnumbered(disk[LedgerFile], reader.listed)
      BY <1>5
    <3>2. Rec(disk[LedgerFile]) = Before /\ Len(Before) \in Nat
      BY <1>8, <2>3
    <3>3. Len(After) > 0 /\ Len(Rec(disk[LedgerFile])) <= Len(After)
      BY <2>4, <3>2
    <3> QED
      BY <1>8, <2>4, <3>1, <3>3, MoreIsNumbered
  <2>8. reader.at \in {"version", "side"} => InStep'
    <3> SUFFICES ASSUME reader.at \in {"version", "side"} PROVE InStep'
      OBVIOUS
    <3>1. Seen = Before /\ \A c \in Challenge :
            disk[Mirror(c)] # Absent => disk[Mirror(c)].by <= Len(Seen) + 1
      BY <1>5, <2>1, <2>3 DEF InStep
    <3> QED
      BY <1>6, <1>9, <2>1, <2>4, <2>5, <2>6, <3>1 DEF InStep
  <2> QED
    BY <1>2, <1>5, <1>6, <2>5, <2>7, <2>8
<1>11. ASSUME NEW path, \A q \in Path : q # path => disk'[q] = disk[q], path # LedgerFile,
              ~commits, run'.noted >= 4 => run.noted >= 4 \/ ~Amends,
              \A c \in Challenge : path = Mirror(c) /\ disk'[Mirror(c)] # Absent =>
                \/ disk'[Mirror(c)] = [by |-> 0]
                \/ Amends /\ run.noted >= 4 /\ disk'[Mirror(c)] = [by |-> NewNumber]
       PROVE  /\ Writable(disk') /\ ~reader'.invalid
              /\ reader'.at = "ledger" => ~Misnumbered(disk'[LedgerFile], reader'.listed)
              /\ reader'.at \in {"version", "side"} => InStep'
              /\ Amends' /\ ~run'.undoing /\ run'.noted >= 4 /\ reader'.committed =>
                   Recorded(disk') = After'
  <2>1. disk'[LedgerFile] = disk[LedgerFile] /\ Recorded(disk') = Recorded(disk)
    BY <1>11, Elsewhere
  <2>2. reader.committed <=> reader'.committed
    BY <1>2, <1>11
  <2>3. ASSUME InStep
        PROVE  InStep'
    <3>1. /\ Starts(Seen, Recorded(disk)) /\ Len(Recorded(disk)) <= Len(Seen) + 1
          /\ ~reader.committed => Seen = Recorded(disk)
          /\ \A c \in Challenge : disk[Mirror(c)] # Absent => disk[Mirror(c)].by <= Len(Seen) + 1
      BY <2>3 DEF InStep
    <3>2. Amends /\ run.noted >= 4 => NewNumber <= Len(Seen) + 1
      <4> SUFFICES ASSUME Amends, run.noted >= 4
                   PROVE  NewNumber <= Len(Seen) + 1
        OBVIOUS
      <4>1. CASE reader.committed
        BY <1>5, <3>1, <4>1, AfterFacts
      <4>2. CASE ~reader.committed
        <5>1. run.noted >= 1
          BY <1>4
        <5> QED
          BY <1>5, <3>1, <4>2, <5>1, WritableIsBefore
      <4> QED
        BY <4>1, <4>2
    <3>3. \A c \in Challenge : disk'[Mirror(c)] # Absent => disk'[Mirror(c)].by <= Len(Seen) + 1
      <4> SUFFICES ASSUME NEW c \in Challenge, disk'[Mirror(c)] # Absent
                   PROVE  disk'[Mirror(c)].by <= Len(Seen) + 1
        OBVIOUS
      <4>1. CASE path # Mirror(c)
        BY <1>11, <3>1, <4>1, PathTypes
      <4>2. CASE path = Mirror(c)
        <5>1. 0 <= Len(Seen) + 1
          BY <1>9
        <5> QED
          BY <1>11, <3>2, <4>2, <5>1
      <4> QED
        BY <4>1, <4>2
    <3> QED
      BY <1>6, <2>1, <2>2, <3>1, <3>3 DEF InStep
  <2> QED
    BY <1>2, <1>5, <1>6, <1>11, <2>1, <2>2, <2>3
<1>12. \/ Amends /\ i = 4 /\ Changed(LedgerFile, After) /\ commits
       \/ \E path : /\ \A q \in Path : q # path => disk'[q] = disk[q]
                    /\ path # LedgerFile /\ ~commits
                    /\ run'.noted >= 4 => run.noted >= 4 \/ ~Amends
                    /\ \A c \in Challenge : path = Mirror(c) /\ disk'[Mirror(c)] # Absent =>
                         \/ disk'[Mirror(c)] = [by |-> 0]
                         \/ Amends /\ run.noted >= 4 /\ disk'[Mirror(c)] = [by |-> NewNumber]
  <2>1. /\ (i = 1 \/ i = 2 \/ i = 3) => ~(run'.noted >= 4)
        /\ i >= 5 => run.noted >= 4
    BY <1>3, <1>4
  <2>2. Changed(run.writes[i].path, run.writes[i].content)
    BY WriteEffect DEF Changed, i
  <2>3. \/ Amends /\ i = 1 /\ run.writes[i].path = Version(NewNumber)
        \/ Amends /\ i = 2 /\ run.writes[i].path = Baseline
        \/ Amends /\ i = 3 /\ run.writes[i].path = Amendment(NewNumber)
        \/ Amends /\ i = 4 /\ run.writes[i].path = LedgerFile /\ run.writes[i].content = After
        \/ /\ Amends /\ i >= 5
           /\ \E c : run.writes[i].path = Mirror(c) /\ run.writes[i].content = [by |-> NewNumber]
        \/ ~Amends /\ \E c : run.writes[i].path = Opened(c)
        \/ /\ ~Amends
           /\ \E c : run.writes[i].path = Mirror(c) /\ run.writes[i].content = [by |-> 0]
    BY <1>3, PlanKinds DEF Amends
  <2> QED
    BY <2>1, <2>2, <2>3, PathsDiffer DEF Changed, commits
<1> QED
  BY <1>10, <1>11, <1>12

\* A read of the challenges with an earlier ledger finds them in order.
LEMMA SideOfSeen ==
  ASSUME TypeOK, Writable(disk), InStep, Fits(LedgerFile, reader.ledger)
  PROVE  ~SideInvalid([disk EXCEPT ![LedgerFile] = reader.ledger])
<1> DEFINE d == [disk EXCEPT ![LedgerFile] = reader.ledger]
<1>1. /\ d[LedgerFile] = reader.ledger
      /\ \A c \in Challenge : d[Opened(c)] = disk[Opened(c)] /\ d[Mirror(c)] = disk[Mirror(c)]
  BY PathTypes, PathsDiffer DEF TypeOK
<1> HIDE DEF d
<1>2. Recorded(d) = Seen /\ \A c : Amending(d, c) = AmendedIn(Seen, c)
  BY <1>1 DEF Recorded, Seen, Rec, Amending, AmendedIn
<1>3. /\ Seen \in Seq(Entry) /\ Recorded(disk) \in Seq(Entry)
      /\ Len(Seen) \in Nat /\ Len(Recorded(disk)) \in Nat
      /\ Starts(Seen, Recorded(disk)) /\ Len(Seen) <= Len(Recorded(disk))
  BY RecOf, Records, LenProperties DEF Seen, InStep, Starts
<1>4. \A c : /\ AmendedIn(Seen, c) \subseteq Amending(disk, c)
             /\ \A n \in Amending(disk, c) : n <= Len(Seen) => n \in AmendedIn(Seen, c)
  BY <1>3, StartsFacts DEF Amending, AmendedIn
<1>5. SUFFICES ASSUME NEW c \in Challenge
               PROVE  /\ d[Opened(c)] = Absent => d[Mirror(c)] = Absent /\ Amending(d, c) = {}
                      /\ Dismissed(d, c) => Amending(d, c) = {}
                      /\ d[Mirror(c)] \notin {Absent, [by |-> 0]} =>
                           d[Mirror(c)].by \in Amending(d, c) \cup {Len(Recorded(d)) + 1}
  BY DEF SideInvalid, d
<1>6. /\ disk[Opened(c)] = Absent => disk[Mirror(c)] = Absent /\ Amending(disk, c) = {}
      /\ Dismissed(disk, c) => Amending(disk, c) = {}
      /\ disk[Mirror(c)] \notin {Absent, [by |-> 0]} =>
           disk[Mirror(c)].by \in Amending(disk, c) \cup {Len(Recorded(disk)) + 1}
  BY DEF Writable, SideInvalid
<1>7. ASSUME d[Mirror(c)] \notin {Absent, [by |-> 0]}
      PROVE  d[Mirror(c)].by \in Amending(d, c) \cup {Len(Recorded(d)) + 1}
  <2>1. /\ disk[Mirror(c)].by \in Amending(disk, c) \cup {Len(Recorded(disk)) + 1}
        /\ disk[Mirror(c)].by <= Len(Seen) + 1
    BY <1>1, <1>6, <1>7 DEF InStep
  <2>2. Amending(disk, c) \subseteq Nat
    BY <1>3, LenProperties DEF Amending
  <2>3. disk[Mirror(c)].by <= Len(Seen) \/ disk[Mirror(c)].by = Len(Seen) + 1
    BY <1>3, <2>1, <2>2
  <2>4. disk[Mirror(c)].by <= Len(Seen) => disk[Mirror(c)].by \in Amending(disk, c)
    BY <1>3, <2>1
  <2> QED
    BY <1>1, <1>2, <1>4, <2>3, <2>4
<1> QED
  BY <1>1, <1>2, <1>4, <1>6, <1>7 DEF Dismissed

LEMMA WatchingReads ==
  ASSUME TypeOK, Reading, Watching, Looks
  PROVE  Watching'
<1>1. disk' = disk /\ run' = run
  BY QuietEffect
<1>2. /\ Recorded(disk') = Recorded(disk) /\ (Writable(disk') <=> Writable(disk))
      /\ (Amends' <=> Amends) /\ After' = After
  BY <1>1 DEF Recorded, Amends, After
<1>3. Recorded(disk) \in Seq(Entry) /\ Starts(Recorded(disk), Recorded(disk))
      /\ Len(Recorded(disk)) \in Nat /\ Fits(LedgerFile, disk[LedgerFile])
      /\ Recorded(disk) = Rec(disk[LedgerFile])
  BY Records, StartsSelf, LenProperties, PathTypes DEF TypeOK
<1>4. CASE ReadNames
  <2>1. reader' # None =>
          /\ Writable(disk) /\ reader'.at = "ledger" /\ reader'.listed = History(disk)
          /\ ~reader'.invalid /\ ~reader'.committed
    BY <1>4 DEF ReadNames
  <2>2. Writable(disk) => ~Misnumbered(disk[LedgerFile], History(disk))
    BY DEF Writable, ChainInvalid
  <2> QED
    BY <1>1, <1>2, <2>1, <2>2 DEF Watching
<1>5. ASSUME reader # None, Writable(disk),
             reader'.committed = reader.committed, ~reader'.invalid,
             reader'.at \in {"version", "side", "done"},
             reader'.at \in {"version", "side"} => InStep'
      PROVE  Watching'
  BY <1>1, <1>2, <1>5 DEF Watching
<1>6. CASE ReadLedger
  <2>1. /\ reader # None /\ reader.at = "ledger"
        /\ Writable(disk) /\ ~Misnumbered(disk[LedgerFile], reader.listed)
        /\ Reads(Misnumbered(disk[LedgerFile], reader.listed), disk[LedgerFile],
                 IF disk[LedgerFile] = Absent THEN "side" ELSE "version", 1)
    BY <1>6 DEF ReadLedger, Watching
  <2>2. /\ reader'.at \in {"side", "version"} /\ reader'.ledger = disk[LedgerFile]
        /\ ~reader'.invalid /\ reader'.committed = reader.committed
    BY <2>1, ReadsEffect
  <2>3. Seen' = Recorded(disk)
    BY <1>3, <2>2 DEF Seen
  <2>4. \A c \in Challenge : disk[Mirror(c)] # Absent =>
          disk[Mirror(c)].by <= Len(Recorded(disk)) + 1
    BY <2>1, WritableFacts
  <2>5. InStep'
    BY <1>1, <1>2, <1>3, <2>3, <2>4 DEF InStep
  <2> QED
    BY <1>5, <2>1, <2>2, <2>5
<1>7. CASE ReadVersion
  <2> DEFINE k == reader.next
             last == k = Len(reader.ledger)
             bad == Unvouched(disk, reader.ledger[k], k)
  <2>1. /\ reader # None /\ reader.at = "version" /\ Writable(disk) /\ InStep
        /\ reader.ledger # Absent /\ k \in DOMAIN reader.ledger
        /\ Reads(bad, reader.ledger, IF last THEN "side" ELSE "version", k + 1)
    BY <1>7 DEF ReadVersion, Watching, Reading
  <2>2. Seen = reader.ledger /\ Seen \in Seq(Entry)
    BY <2>1, RecOf DEF Seen, TypeOK
  <2>3. k \in DOMAIN Recorded(disk) /\ Recorded(disk)[k] = reader.ledger[k]
    BY <1>3, <2>1, <2>2, LenProperties DEF InStep, Starts
  <2>4. ~bad
    BY <2>1, <2>3, WritableFacts
  <2> HIDE DEF bad, last
  <2>5. /\ reader'.at \in {"side", "version"} /\ reader'.ledger = reader.ledger
        /\ ~reader'.invalid /\ reader'.committed = reader.committed
    BY <2>1, <2>4, ReadsEffect
  <2>6. Seen' = Seen
    BY <2>5 DEF Seen
  <2>7. InStep'
    BY <1>1, <1>2, <2>1, <2>5, <2>6 DEF InStep
  <2> QED
    BY <1>5, <2>1, <2>5, <2>7
<1>8. CASE ReadSide
  <2> DEFINE bad == SideInvalid([disk EXCEPT ![LedgerFile] = reader.ledger])
  <2>1. /\ reader # None /\ reader.at = "side" /\ Writable(disk) /\ InStep
        /\ Reads(bad, Absent, "done", 1)
    BY <1>8 DEF ReadSide, Watching
  <2>2. ~bad
    BY <2>1, SideOfSeen DEF TypeOK
  <2> HIDE DEF bad
  <2>3. /\ reader'.at = "done" /\ ~reader'.invalid /\ reader'.committed = reader.committed
    BY <2>1, <2>2, ReadsEffect
  <2> QED
    BY <1>5, <2>1, <2>3
<1>9. CASE ReadEnds
  BY <1>9 DEF ReadEnds, Watching
<1> QED
  BY <1>4, <1>6, <1>7, <1>8, <1>9 DEF Looks

LEMMA WatchingStep ==
  ASSUME TypeOK, Planned, Reading, Written, Watching, [Next]_vars
  PROVE  Watching'
<1>1. ASSUME disk' = disk, reader' = reader,
             Amends' /\ ~run'.undoing /\ run'.noted >= 4 =>
               Amends /\ ~run.undoing /\ run.noted >= 4 /\ After' = After
      PROVE  Watching'
  <2>1. /\ Recorded(disk') = Recorded(disk) /\ (Writable(disk') <=> Writable(disk))
        /\ (InStep' <=> InStep)
    BY <1>1 DEF Recorded, InStep, Seen
  <2> QED
    BY <1>1, <2>1 DEF Watching
<1>2. ASSUME UNCHANGED vars \/ Asks
      PROVE  Watching'
  <2>1. UNCHANGED <<disk, run, reader>>
    BY <1>2 DEF vars, Asks, AskAmend, AskChallenge, Refuse
  <2> QED
    BY <1>1, <2>1 DEF Amends, After
<1>3. ASSUME Ends \/ ApplyFails
      PROVE  Watching'
  <2>1. disk' = disk /\ reader' = reader /\ (run' = None \/ run'.undoing)
    BY <1>3, EndEffect, FailEffect
  <2> QED
    BY <1>1, <2>1 DEF Amends
<1>4. ASSUME NEW p \in Process, Begin(p)
      PROVE  Watching'
  <2>1. disk' = disk /\ reader' = reader /\ run'.noted = 0
    BY <1>4, BeginEffect
  <2>2. ~(run'.noted >= 4)
    BY <2>1
  <2> QED
    BY <1>1, <2>1, <2>2
<1>5. ASSUME Undo \/ SetBack
      PROVE  Watching'
  <2>1. Watch(FALSE, TRUE)
    BY <1>5 DEF Undo, SetBack
  <2> QED
    BY <2>1 DEF Watch, Watching
<1>6. ASSUME EditBaseline
      PROVE  Watching'
  <2> SUFFICES ASSUME reader' # None
               PROVE  Watching'
    BY DEF Watching
  <2>1. Watch(FALSE, FALSE)
    BY <1>6 DEF EditBaseline
  <2>2. /\ reader # None /\ Writable(disk')
        /\ reader'.committed = (reader.committed \/ FALSE)
        /\ reader'.at = reader.at /\ reader'.listed = reader.listed
        /\ reader'.ledger = reader.ledger /\ reader'.invalid = reader.invalid
    BY <2>1, WatchEffect
  <2>3. /\ \A q \in Path : q # Baseline => disk'[q] = disk[q]
        /\ run' # None =>
             /\ run # None /\ SameMutation /\ run'.noted = run.noted
             /\ run'.undoing = run.undoing
    BY <1>6, EditEffect
  <2>4. /\ disk'[LedgerFile] = disk[LedgerFile] /\ Recorded(disk') = Recorded(disk)
        /\ \A c \in Challenge : disk'[Mirror(c)] = disk[Mirror(c)]
        /\ Seen' = Seen
    BY <2>2, <2>3, PathTypes, PathsDiffer DEF Recorded, Seen
  <2>5. Amends' => Amends /\ After' = After
    BY <2>3 DEF SameMutation, Amends, After
  <2>6. reader.committed <=> reader'.committed
    BY <2>2
  <2>7. InStep => InStep'
    BY <2>4, <2>6 DEF InStep
  <2> QED
    BY <2>2, <2>3, <2>4, <2>5, <2>6, <2>7 DEF Watching, Amends
<1> QED
  BY <1>2, <1>3, <1>4, <1>5, <1>6, WatchingWrite, WatchingReads, Steps

\* Reads take no lock, and the order of the writes and of the reads makes up
\* for it: a read that overlaps one commit at most, and no undo, reports
\* nothing INVALID, wherever the writes of the mutation fall between its steps.
THEOREM ReadersSeeNoAlarm == Spec => []ReadersAreNotAlarmed
<1> DEFINE IInv == TypeOK /\ Planned /\ Reading /\ Written /\ Watching
<1>1. Init => IInv
  BY InitWritten DEF Init, Watching
<1>2. IInv /\ [Next]_vars => IInv'
  BY TypeStep, PlannedStep, ReadingStep, WrittenStep, WatchingStep
<1>3. IInv => ReadersAreNotAlarmed
  BY DEF Watching, ReadersAreNotAlarmed
<1> QED
  BY <1>1, <1>2, <1>3, PTL DEF Spec
=============================================================================
