-------------------------- MODULE TaskLedgerProofs --------------------------
(***************************************************************************)
(* Theorems about TaskLedger and EvidencePages, for every set of ids,      *)
(* commands, bounds and page sizes.                                        *)
(*                                                                         *)
(* The invariant is TypeOK: a ledger is one the loader accepts.  The       *)
(* evidence properties follow from it and from one fact about every step,  *)
(* StepExtends: a step only adds to the lists.  What a single ledger       *)
(* promises, delegation and capacity, follows from Valid alone.  The pages *)
(* have an invariant of their own, PassInv: it compares what a pass has    *)
(* missed with what was answered behind it, and counts positions.          *)
(***************************************************************************)
EXTENDS EvidencePages, SequenceTheorems, FiniteSetTheorems, WellFoundedInduction,
        TLAPS

\* A prefix of a sequence agrees with it at every position it has.
LEMMA PrefixByElements ==
  ASSUME NEW S, NEW a \in Seq(S), NEW b \in Seq(S)
  PROVE  IsPrefix(a, b) <=> /\ Len(a) <= Len(b)
                            /\ \A i \in 1 .. Len(a) : a[i] = b[i]
<1>1. SubSeq(a, 1, Len(a)) = a
  BY SubSeqFull
<1>2. ASSUME Len(a) <= Len(b)
      PROVE  /\ SubSeq(b, 1, Len(a)) \in Seq(S)
             /\ Len(SubSeq(b, 1, Len(a))) = Len(a)
             /\ \A i \in 1 .. Len(a) : SubSeq(b, 1, Len(a))[i] = b[i]
  <2>1. \A i \in 1 .. Len(a) : b[i] \in S
    BY <1>2, ElementOfSeq
  <2>2. Len(a) \in Nat
    OBVIOUS
  <2> QED
    BY <2>1, <2>2, SubSeqProperties, SMT
<1>3. ASSUME Len(a) <= Len(b), a = SubSeq(b, 1, Len(a))
      PROVE  \A i \in 1 .. Len(a) : a[i] = b[i]
  BY <1>2, <1>3
<1>4. ASSUME Len(a) <= Len(b), \A i \in 1 .. Len(a) : a[i] = b[i]
      PROVE  a = SubSeq(b, 1, Len(a))
  BY <1>2, <1>4, SeqEqual
<1> QED
  BY <1>1, <1>3, <1>4 DEF IsPrefix

LEMMA PrefixOfConcat ==
  ASSUME NEW S, NEW a \in Seq(S), NEW b \in Seq(S)
  PROVE  a \o b \in Seq(S) /\ IsPrefix(a, a \o b)
<1>1. /\ a \o b \in Seq(S)
      /\ Len(a \o b) = Len(a) + Len(b)
      /\ \A i \in 1 .. Len(a) + Len(b) :
           (a \o b)[i] = IF i <= Len(a) THEN a[i] ELSE b[i - Len(a)]
  BY ConcatProperties
<1>2. Len(a) \in Nat /\ Len(b) \in Nat
  OBVIOUS
<1>3. Len(a) <= Len(a \o b) /\ \A i \in 1 .. Len(a) : a[i] = (a \o b)[i]
  BY <1>1, <1>2
<1> QED
  BY <1>1, <1>3, PrefixByElements

LEMMA PrefixOfAppend ==
  ASSUME NEW S, NEW a \in Seq(S), NEW e \in S
  PROVE  Append(a, e) \in Seq(S) /\ IsPrefix(a, Append(a, e))
<1>1. Append(a, e) \in Seq(S)
  BY AppendProperties
<1>2. Len(a) <= Len(Append(a, e)) /\ \A i \in 1 .. Len(a) : a[i] = Append(a, e)[i]
  BY AppendProperties
<1>3. IsPrefix(a, Append(a, e))
  BY <1>1, <1>2, PrefixByElements
<1> QED
  BY <1>1, <1>3

LEMMA PrefixReflexive ==
  ASSUME NEW S, NEW a \in Seq(S)
  PROVE  IsPrefix(a, a)
BY PrefixByElements

LEMMA PrefixTransitive ==
  ASSUME NEW S, NEW a \in Seq(S), NEW b \in Seq(S), NEW c \in Seq(S),
         IsPrefix(a, b), IsPrefix(b, c)
  PROVE  IsPrefix(a, c)
<1>1. /\ Len(a) \in Nat /\ Len(b) \in Nat /\ Len(c) \in Nat
      /\ Len(a) <= Len(b) /\ \A i \in 1 .. Len(a) : a[i] = b[i]
      /\ Len(b) <= Len(c) /\ \A i \in 1 .. Len(b) : b[i] = c[i]
  BY PrefixByElements
<1>2. Len(a) <= Len(c) /\ \A i \in 1 .. Len(a) : a[i] = c[i]
  BY <1>1
<1> QED
  BY <1>2, PrefixByElements

-----------------------------------------------------------------------------

\* The stamped records of an update are records of a ledger.
LEMMA StampedRecords ==
  ASSUME NEW s \in LedgerType, NEW records \in Seq(NewRecord)
  PROVE  [i \in DOMAIN records |-> Stamped(s, records[i])] \in Seq(TaskRecord)
<1>1. Len(records) \in Nat /\ DOMAIN records = 1 .. Len(records)
  OBVIOUS
<1>2. \A i \in DOMAIN records : Stamped(s, records[i]) \in TaskRecord
  <2> SUFFICES ASSUME NEW i \in DOMAIN records
               PROVE  Stamped(s, records[i]) \in TaskRecord
    OBVIOUS
  <2>1. records[i] \in NewRecord
    BY <1>1
  <2>2. s.revision + 1 \in Nat \ {0}
    BY DEF LedgerType
  <2> QED
    BY <2>1, <2>2, NoneAssumption DEF Stamped, NewRecord, TaskRecord
<1> QED
  BY <1>1, <1>2, SeqDef

\* Assigning one field a value of its type leaves a ledger a ledger.
LEMMA FieldUpdate ==
  /\ \A s \in LedgerType, x \in Nat \ {0} :
       [s EXCEPT !.revision = x] \in LedgerType
  /\ \A s \in LedgerType, x \in {"ACTIVE", "DONE"} :
       [s EXCEPT !.status = x] \in LedgerType
  /\ \A s \in LedgerType, x \in Work :
       [s EXCEPT !.work = x] \in LedgerType
  /\ \A s \in LedgerType, x \in Seq(Source) :
       [s EXCEPT !.evidence_refs = x] \in LedgerType
  /\ \A s \in LedgerType, x \in Seq(TaskRecord) :
       [s EXCEPT !.records = x] \in LedgerType
  /\ \A s \in LedgerType, x \in Seq(Artifact) :
       [s EXCEPT !.artifact_refs = x] \in LedgerType
  /\ \A s \in LedgerType, x \in Seq(Result) :
       [s EXCEPT !.verification_results = x] \in LedgerType
  /\ \A s \in LedgerType, x \in Seq(Requirement) :
       [s EXCEPT !.requirements = x] \in LedgerType
  /\ \A s \in LedgerType, x \in Seq(Handoff) :
       [s EXCEPT !.handoffs = x] \in LedgerType
  /\ \A s \in LedgerType, x \in Seq(Observation) :
       [s EXCEPT !.observations = x] \in LedgerType
  /\ \A s \in LedgerType, x \in Seq(Judgment) :
       [s EXCEPT !.judgments = x] \in LedgerType
<1>1. \A s \in LedgerType, x \in Nat \ {0} :
       [s EXCEPT !.revision = x] \in LedgerType
  BY DEF LedgerType
<1>2. \A s \in LedgerType, x \in {"ACTIVE", "DONE"} :
       [s EXCEPT !.status = x] \in LedgerType
  BY DEF LedgerType
<1>3. \A s \in LedgerType, x \in Work :
       [s EXCEPT !.work = x] \in LedgerType
  BY DEF LedgerType
<1>4. \A s \in LedgerType, x \in Seq(Source) :
       [s EXCEPT !.evidence_refs = x] \in LedgerType
  BY DEF LedgerType
<1>5. \A s \in LedgerType, x \in Seq(TaskRecord) :
       [s EXCEPT !.records = x] \in LedgerType
  BY DEF LedgerType
<1>6. \A s \in LedgerType, x \in Seq(Artifact) :
       [s EXCEPT !.artifact_refs = x] \in LedgerType
  BY DEF LedgerType
<1>7. \A s \in LedgerType, x \in Seq(Result) :
       [s EXCEPT !.verification_results = x] \in LedgerType
  BY DEF LedgerType
<1>8. \A s \in LedgerType, x \in Seq(Requirement) :
       [s EXCEPT !.requirements = x] \in LedgerType
  BY DEF LedgerType
<1>9. \A s \in LedgerType, x \in Seq(Handoff) :
       [s EXCEPT !.handoffs = x] \in LedgerType
  BY DEF LedgerType
<1>10. \A s \in LedgerType, x \in Seq(Observation) :
       [s EXCEPT !.observations = x] \in LedgerType
  BY DEF LedgerType
<1>11. \A s \in LedgerType, x \in Seq(Judgment) :
       [s EXCEPT !.judgments = x] \in LedgerType
  BY DEF LedgerType
<1> QED
  BY <1>1, <1>2, <1>3, <1>4, <1>5, <1>6, <1>7,
     <1>8, <1>9, <1>10, <1>11

\* The next revision is a revision, and every list of a ledger is a sequence
\* that is a prefix of itself.
LEMMA LedgerFields ==
  ASSUME NEW s \in LedgerType
  PROVE  /\ s.revision \in Nat \ {0} /\ s.revision + 1 \in Nat \ {0}
         /\ s.work \in Work
         /\ s.evidence_refs \in Seq(Source)
         /\ s.records \in Seq(TaskRecord)
         /\ s.artifact_refs \in Seq(Artifact)
         /\ s.verification_results \in Seq(Result)
         /\ s.requirements \in Seq(Requirement)
         /\ s.handoffs \in Seq(Handoff)
         /\ s.observations \in Seq(Observation)
         /\ s.judgments \in Seq(Judgment)
BY DEF LedgerType

LEMMA ExtendsReflexive ==
  ASSUME NEW s \in LedgerType
  PROVE  \A f \in Lists : IsPrefix(s[f], s[f])
BY LedgerFields, PrefixReflexive DEF Lists

\* Every command turns a ledger into a ledger whose lists extend its own and
\* whose revision is the next one.
LEMMA UpdatedLedger ==
  ASSUME NEW s \in LedgerType, NEW c \in Command, c.op = "update"
  PROVE  /\ Updated(s, c) \in LedgerType
         /\ Updated(s, c).revision = s.revision + 1
         /\ Extends(s, Updated(s, c))
<1> DEFINE records == [i \in DOMAIN c.records |-> Stamped(s, c.records[i])]
           work == IF c.work = None THEN s.work ELSE c.work
<1>1. /\ c.evidence_refs \in Seq(Source)
      /\ c.records \in Seq(NewRecord)
      /\ c.work \in Work \cup {None}
  BY DEF Command
<1>2. records \in Seq(TaskRecord)
  BY <1>1, StampedRecords
<1>3. work \in Work
  BY <1>1, LedgerFields
<1>4. Updated(s, c) =
        [s EXCEPT !.evidence_refs = s.evidence_refs \o c.evidence_refs,
                  !.records = s.records \o records,
                  !.work = work,
                  !.revision = s.revision + 1]
  BY DEF Updated
<1> HIDE DEF records, work
<1>5. /\ s.evidence_refs \o c.evidence_refs \in Seq(Source)
      /\ IsPrefix(s.evidence_refs, s.evidence_refs \o c.evidence_refs)
      /\ s.records \o records \in Seq(TaskRecord)
      /\ IsPrefix(s.records, s.records \o records)
  BY <1>1, <1>2, PrefixOfConcat, LedgerFields
<1>6. Updated(s, c) \in LedgerType
  <2> DEFINE s1 == [s EXCEPT !.evidence_refs = s.evidence_refs \o c.evidence_refs]
             s2 == [s1 EXCEPT !.records = s.records \o records]
             s3 == [s2 EXCEPT !.work = work]
  <2>1. s.revision + 1 \in Nat \ {0}
    BY LedgerFields
  <2>2. s1 \in LedgerType
    BY <1>5, FieldUpdate
  <2>3. s2 \in LedgerType
    BY <1>5, <2>2, FieldUpdate
  <2>4. s3 \in LedgerType
    BY <1>3, <2>3, FieldUpdate
  <2>5. Updated(s, c) = [s3 EXCEPT !.revision = s.revision + 1]
    BY <1>4
  <2> HIDE DEF s3
  <2> QED
    BY <2>1, <2>4, <2>5, FieldUpdate
<1>7. Updated(s, c).revision = s.revision + 1
  BY <1>4 DEF LedgerType
<1>8. Extends(s, Updated(s, c))
  <2>1. \A f \in Lists \ {"evidence_refs", "records"} : Updated(s, c)[f] = s[f]
    BY <1>4 DEF LedgerType, Lists
  <2>2. /\ Updated(s, c).evidence_refs = s.evidence_refs \o c.evidence_refs
        /\ Updated(s, c).records = s.records \o records
    BY <1>4 DEF LedgerType
  <2> QED
    BY <1>5, <2>1, <2>2, ExtendsReflexive DEF Extends
<1> QED
  BY <1>6, <1>7, <1>8

LEMMA RegisteredLedger ==
  ASSUME NEW s \in LedgerType, NEW c \in Command, c.op = "register"
  PROVE  /\ Registered(s, c) \in LedgerType
         /\ Registered(s, c).revision = s.revision + 1
         /\ Extends(s, Registered(s, c))
<1>1. c.requirements \in Seq(Requirement) /\ c.handoffs \in Seq(Handoff)
  BY DEF Command
<1>2. Registered(s, c) =
        [s EXCEPT !.requirements = s.requirements \o c.requirements,
                  !.handoffs = s.handoffs \o c.handoffs,
                  !.revision = s.revision + 1]
  BY DEF Registered
<1>3. /\ s.requirements \o c.requirements \in Seq(Requirement)
      /\ IsPrefix(s.requirements, s.requirements \o c.requirements)
      /\ s.handoffs \o c.handoffs \in Seq(Handoff)
      /\ IsPrefix(s.handoffs, s.handoffs \o c.handoffs)
  BY <1>1, PrefixOfConcat, LedgerFields
<1>4. Registered(s, c) \in LedgerType
  <2> DEFINE s1 == [s EXCEPT !.requirements = s.requirements \o c.requirements]
             s2 == [s1 EXCEPT !.handoffs = s.handoffs \o c.handoffs]
  <2>1. s1 \in LedgerType
    BY <1>3, FieldUpdate
  <2>2. s2 \in LedgerType
    BY <1>3, <2>1, FieldUpdate
  <2>3. Registered(s, c) = [s2 EXCEPT !.revision = s.revision + 1]
    BY <1>2
  <2> HIDE DEF s2
  <2> QED
    BY <2>2, <2>3, FieldUpdate, LedgerFields
<1>5. Registered(s, c).revision = s.revision + 1
  BY <1>2 DEF LedgerType
<1>6. Extends(s, Registered(s, c))
  <2>1. \A f \in Lists \ {"requirements", "handoffs"} : Registered(s, c)[f] = s[f]
    BY <1>2 DEF LedgerType, Lists
  <2>2. /\ Registered(s, c).requirements = s.requirements \o c.requirements
        /\ Registered(s, c).handoffs = s.handoffs \o c.handoffs
    BY <1>2 DEF LedgerType
  <2> QED
    BY <1>3, <2>1, <2>2, ExtendsReflexive DEF Extends
<1> QED
  BY <1>4, <1>5, <1>6

LEMMA ObservedLedger ==
  ASSUME NEW s \in LedgerType, NEW c \in Command, c.op = "observe"
  PROVE  /\ Observed(s, c) \in LedgerType
         /\ Observed(s, c).revision = s.revision + 1
         /\ Extends(s, Observed(s, c))
<1>1. c.evidence_refs \in Seq(Source) /\ c.observations \in Seq(Observation)
  BY DEF Command
<1>2. Observed(s, c) =
        [s EXCEPT !.evidence_refs = s.evidence_refs \o c.evidence_refs,
                  !.observations = s.observations \o c.observations,
                  !.revision = s.revision + 1]
  BY DEF Observed
<1>3. /\ s.evidence_refs \o c.evidence_refs \in Seq(Source)
      /\ IsPrefix(s.evidence_refs, s.evidence_refs \o c.evidence_refs)
      /\ s.observations \o c.observations \in Seq(Observation)
      /\ IsPrefix(s.observations, s.observations \o c.observations)
  BY <1>1, PrefixOfConcat, LedgerFields
<1>4. Observed(s, c) \in LedgerType
  <2> DEFINE s1 == [s EXCEPT !.evidence_refs = s.evidence_refs \o c.evidence_refs]
             s2 == [s1 EXCEPT !.observations = s.observations \o c.observations]
  <2>1. s1 \in LedgerType
    BY <1>3, FieldUpdate
  <2>2. s2 \in LedgerType
    BY <1>3, <2>1, FieldUpdate
  <2>3. Observed(s, c) = [s2 EXCEPT !.revision = s.revision + 1]
    BY <1>2
  <2> HIDE DEF s2
  <2> QED
    BY <2>2, <2>3, FieldUpdate, LedgerFields
<1>5. Observed(s, c).revision = s.revision + 1
  BY <1>2 DEF LedgerType
<1>6. Extends(s, Observed(s, c))
  <2>1. \A f \in Lists \ {"evidence_refs", "observations"} : Observed(s, c)[f] = s[f]
    BY <1>2 DEF LedgerType, Lists
  <2>2. /\ Observed(s, c).evidence_refs = s.evidence_refs \o c.evidence_refs
        /\ Observed(s, c).observations = s.observations \o c.observations
    BY <1>2 DEF LedgerType
  <2> QED
    BY <1>3, <2>1, <2>2, ExtendsReflexive DEF Extends
<1> QED
  BY <1>4, <1>5, <1>6

LEMMA JudgedLedger ==
  ASSUME NEW s \in LedgerType, NEW c \in Command, c.op = "judge"
  PROVE  /\ Judged(s, c) \in LedgerType
         /\ Judged(s, c).revision = s.revision + 1
         /\ Extends(s, Judged(s, c))
<1>1. c.judgments \in Seq(Judgment)
  BY DEF Command
<1> DEFINE list == s.judgments \o c.judgments
<1>2. Judged(s, c) = [s EXCEPT !.judgments = list, !.revision = s.revision + 1]
  BY DEF Judged
<1>3. list \in Seq(Judgment) /\ IsPrefix(s.judgments, list)
  BY <1>1, PrefixOfConcat, LedgerFields
<1> HIDE DEF list
<1>4. Judged(s, c) \in LedgerType
  <2> DEFINE s1 == [s EXCEPT !.judgments = list]
  <2>1. s1 \in LedgerType
    BY <1>3, FieldUpdate
  <2>2. Judged(s, c) = [s1 EXCEPT !.revision = s.revision + 1]
    BY <1>2
  <2> HIDE DEF s1
  <2> QED
    BY <2>1, <2>2, FieldUpdate, LedgerFields
<1>5. Judged(s, c).revision = s.revision + 1
  BY <1>2 DEF LedgerType
<1>6. Extends(s, Judged(s, c))
  <2>1. \A f \in Lists \ {"judgments"} : Judged(s, c)[f] = s[f]
    BY <1>2 DEF LedgerType, Lists
  <2>2. Judged(s, c).judgments = list
    BY <1>2 DEF LedgerType
  <2> QED
    BY <1>3, <2>1, <2>2, ExtendsReflexive DEF Extends
<1> QED
  BY <1>4, <1>5, <1>6

LEMMA ArtifactLedger ==
  ASSUME NEW s \in LedgerType, NEW c \in Command, c.op = "artifact"
  PROVE  /\ ArtifactRegistered(s, c) \in LedgerType
         /\ ArtifactRegistered(s, c).revision = s.revision + 1
         /\ Extends(s, ArtifactRegistered(s, c))
<1>1. c.artifact \in Artifact
  BY DEF Command
<1> DEFINE list == Append(s.artifact_refs, c.artifact)
<1>2. ArtifactRegistered(s, c) = [s EXCEPT !.artifact_refs = list, !.revision = s.revision + 1]
  BY DEF ArtifactRegistered
<1>3. list \in Seq(Artifact) /\ IsPrefix(s.artifact_refs, list)
  BY <1>1, PrefixOfAppend, LedgerFields
<1> HIDE DEF list
<1>4. ArtifactRegistered(s, c) \in LedgerType
  <2> DEFINE s1 == [s EXCEPT !.artifact_refs = list]
  <2>1. s1 \in LedgerType
    BY <1>3, FieldUpdate
  <2>2. ArtifactRegistered(s, c) = [s1 EXCEPT !.revision = s.revision + 1]
    BY <1>2
  <2> HIDE DEF s1
  <2> QED
    BY <2>1, <2>2, FieldUpdate, LedgerFields
<1>5. ArtifactRegistered(s, c).revision = s.revision + 1
  BY <1>2 DEF LedgerType
<1>6. Extends(s, ArtifactRegistered(s, c))
  <2>1. \A f \in Lists \ {"artifact_refs"} : ArtifactRegistered(s, c)[f] = s[f]
    BY <1>2 DEF LedgerType, Lists
  <2>2. ArtifactRegistered(s, c).artifact_refs = list
    BY <1>2 DEF LedgerType
  <2> QED
    BY <1>3, <2>1, <2>2, ExtendsReflexive DEF Extends
<1> QED
  BY <1>4, <1>5, <1>6

LEMMA VerifiedLedger ==
  ASSUME NEW s \in LedgerType, NEW c \in Command, c.op = "verify"
  PROVE  /\ VerificationRecorded(s, c) \in LedgerType
         /\ VerificationRecorded(s, c).revision = s.revision + 1
         /\ Extends(s, VerificationRecorded(s, c))
<1>1. c.result \in Result
  BY DEF Command
<1> DEFINE list == Append(s.verification_results, c.result)
<1>2. VerificationRecorded(s, c) = [s EXCEPT !.verification_results = list, !.revision = s.revision + 1]
  BY DEF VerificationRecorded
<1>3. list \in Seq(Result) /\ IsPrefix(s.verification_results, list)
  BY <1>1, PrefixOfAppend, LedgerFields
<1> HIDE DEF list
<1>4. VerificationRecorded(s, c) \in LedgerType
  <2> DEFINE s1 == [s EXCEPT !.verification_results = list]
  <2>1. s1 \in LedgerType
    BY <1>3, FieldUpdate
  <2>2. VerificationRecorded(s, c) = [s1 EXCEPT !.revision = s.revision + 1]
    BY <1>2
  <2> HIDE DEF s1
  <2> QED
    BY <2>1, <2>2, FieldUpdate, LedgerFields
<1>5. VerificationRecorded(s, c).revision = s.revision + 1
  BY <1>2 DEF LedgerType
<1>6. Extends(s, VerificationRecorded(s, c))
  <2>1. \A f \in Lists \ {"verification_results"} : VerificationRecorded(s, c)[f] = s[f]
    BY <1>2 DEF LedgerType, Lists
  <2>2. VerificationRecorded(s, c).verification_results = list
    BY <1>2 DEF LedgerType
  <2> QED
    BY <1>3, <2>1, <2>2, ExtendsReflexive DEF Extends
<1> QED
  BY <1>4, <1>5, <1>6

LEMMA ClosedLedger ==
  ASSUME NEW s \in LedgerType
  PROVE  /\ Closed(s) \in LedgerType
         /\ Closed(s).revision = s.revision + 1
         /\ Extends(s, Closed(s))
<1>1. Closed(s) \in LedgerType
  <2> DEFINE s1 == [s EXCEPT !.status = "DONE"]
  <2>1. s1 \in LedgerType
    BY FieldUpdate
  <2>2. Closed(s) = [s1 EXCEPT !.revision = s.revision + 1]
    BY DEF Closed
  <2> HIDE DEF s1
  <2> QED
    BY <2>1, <2>2, FieldUpdate, LedgerFields
<1>2. Closed(s).revision = s.revision + 1
  BY DEF Closed, LedgerType
<1>3. \A f \in Lists : Closed(s)[f] = s[f]
  BY DEF Closed, LedgerType, Lists
<1> QED
  BY <1>1, <1>2, <1>3, ExtendsReflexive DEF Extends

\* What a command does to a ledger, whichever command it is.
LEMMA AfterLedger ==
  ASSUME NEW s \in LedgerType, NEW c \in Command
  PROVE  /\ After(s, c) \in LedgerType
         /\ After(s, c).revision = s.revision + 1
         /\ Extends(s, After(s, c))
<1>1. c.op \in {"update", "register", "observe", "judge", "artifact", "verify", "close"}
  BY DEF Command
<1>2. CASE c.op = "update"
  <2>1. After(s, c) = Updated(s, c)
    BY <1>2 DEF After
  <2> QED
    BY <1>2, <2>1, UpdatedLedger
<1>3. CASE c.op = "register"
  <2>1. After(s, c) = Registered(s, c)
    BY <1>3 DEF After
  <2> QED
    BY <1>3, <2>1, RegisteredLedger
<1>4. CASE c.op = "observe"
  <2>1. After(s, c) = Observed(s, c)
    BY <1>4 DEF After
  <2> QED
    BY <1>4, <2>1, ObservedLedger
<1>5. CASE c.op = "judge"
  <2>1. After(s, c) = Judged(s, c)
    BY <1>5 DEF After
  <2> QED
    BY <1>5, <2>1, JudgedLedger
<1>6. CASE c.op = "artifact"
  <2>1. After(s, c) = ArtifactRegistered(s, c)
    BY <1>6 DEF After
  <2> QED
    BY <1>6, <2>1, ArtifactLedger
<1>7. CASE c.op = "verify"
  <2>1. After(s, c) = VerificationRecorded(s, c)
    BY <1>7 DEF After
  <2> QED
    BY <1>7, <2>1, VerifiedLedger
<1>8. CASE c.op = "close"
  <2>1. After(s, c) = Closed(s)
    BY <1>8 DEF After
  <2> QED
    BY <2>1, ClosedLedger
<1> QED
  BY <1>1, <1>2, <1>3, <1>4, <1>5, <1>6, <1>7, <1>8

LEMMA ExtendsTransitive ==
  ASSUME NEW r \in LedgerType, NEW s \in LedgerType, NEW t \in LedgerType,
         Extends(r, s), Extends(s, t)
  PROVE  Extends(r, t)
<1> SUFFICES ASSUME NEW f \in Lists
             PROVE  IsPrefix(r[f], t[f])
  BY DEF Extends
<1>1. \E S : r[f] \in Seq(S) /\ s[f] \in Seq(S) /\ t[f] \in Seq(S)
  BY LedgerFields DEF Lists
<1>2. IsPrefix(r[f], s[f]) /\ IsPrefix(s[f], t[f])
  BY DEF Extends
<1> QED
  BY <1>1, <1>2, PrefixTransitive

\* What a ledger has, every extension of it has too.
LEMMA ExtendsKeepsIds ==
  ASSUME NEW s \in LedgerType, NEW t \in LedgerType, Extends(s, t)
  PROVE  ObjectIds(s) \subseteq ObjectIds(t)
<1> SUFFICES ASSUME NEW f \in Lists, NEW i \in DOMAIN s[f]
             PROVE  s[f][i].id \in IdsOf(t[f])
  BY DEF ObjectIds, IdsOf
<1>1. PICK S : s[f] \in Seq(S) /\ t[f] \in Seq(S)
  BY LedgerFields DEF Lists
<1>2. IsPrefix(s[f], t[f])
  BY DEF Extends
<1>3. /\ i \in 1 .. Len(s[f]) /\ Len(s[f]) <= Len(t[f])
      /\ s[f][i] = t[f][i]
  BY <1>1, <1>2, PrefixByElements
<1>4. i \in DOMAIN t[f]
  BY <1>1, <1>3
<1> QED
  BY <1>3, <1>4 DEF IdsOf

-----------------------------------------------------------------------------

LEMMA BlankIsValid ==
  ASSUME NEW work \in Work
  PROVE  BlankLedger(work) \in LedgerType /\ Valid(BlankLedger(work))
<1> DEFINE s == BlankLedger(work)
<1>1. s \in LedgerType
  BY DEF BlankLedger, LedgerType
<1>2. \A f \in Lists : DOMAIN s[f] = {}
  BY DEF BlankLedger, Lists
<1>3. WithinCapacity(s)
  BY CapacityAssumption
<1>4. UniqueIds(s)
  BY <1>2 DEF UniqueIds, IdsOf
<1>5. SourcesResolve(s) /\ SupersessionResolves(s) /\ HandoffsValid(s)
  BY DEF BlankLedger, SourcesResolve, SupersessionResolves, HandoffsValid
<1>6. ObservationsValid(s) /\ JudgmentsValid(s)
  BY DEF BlankLedger, ObservationsValid, JudgmentsValid
<1> QED
  BY <1>1, <1>3, <1>4, <1>5, <1>6 DEF Valid

\* What an accepted command does, whichever action takes it.
LEMMA StepExtends ==
  ASSUME ledger \in LedgerType, Next
  PROVE  /\ ledger.status = "ACTIVE"
         /\ ledger' \in LedgerType
         /\ Valid(ledger')
         /\ ledger'.revision = ledger.revision + 1
         /\ Extends(ledger, ledger')
<1>1. PICK c \in Commands : /\ Accepted(c)
                            /\ ledger' = After(ledger, c)
  <2>1. PICK c \in Commands :
          \/ TaskUpdate(c) \/ EvidenceRegister(c) \/ TaskObserve(c)
          \/ TaskJudge(c) \/ TaskArtifact(c) \/ RecordVerification(c)
          \/ TaskClose(c)
    BY DEF Next, Do
  <2>2. CASE TaskUpdate(c)
    BY <2>2 DEF TaskUpdate, After
  <2>3. CASE EvidenceRegister(c)
    BY <2>3 DEF EvidenceRegister, After
  <2>4. CASE TaskObserve(c)
    BY <2>4 DEF TaskObserve, After
  <2>5. CASE TaskJudge(c)
    BY <2>5 DEF TaskJudge, After
  <2>6. CASE TaskArtifact(c)
    BY <2>6 DEF TaskArtifact, After
  <2>7. CASE RecordVerification(c)
    BY <2>7 DEF RecordVerification, After
  <2>8. CASE TaskClose(c)
    BY <2>8 DEF TaskClose, After
  <2> QED
    BY <2>1, <2>2, <2>3, <2>4, <2>5, <2>6, <2>7, <2>8
<1>2. c \in Command
  BY CommandsAssumption
<1>3. ledger.status = "ACTIVE" /\ Valid(After(ledger, c))
  BY <1>1 DEF Accepted, Admits
<1> QED
  BY <1>1, <1>2, <1>3, AfterLedger

\* Every reachable content of a ledger is one that the loader accepts:
\* typed, with every reference resolved and within the storage bounds.
THEOREM TypeCorrect == Spec => []TypeOK
<1>1. Init => TypeOK
  BY BlankIsValid DEF Init, TypeOK
<1>2. TypeOK /\ [Next]_ledger => TypeOK'
  BY StepExtends DEF TypeOK
<1> QED
  BY <1>1, <1>2, PTL DEF Spec

\* A write adds to the lists, advances the revision by one and leaves a
\* task that is DONE alone (HistoryIsAppendOnly).
THEOREM AppendOnly == Spec => HistoryIsAppendOnly
<1>1. TypeOK /\ [Next]_ledger =>
        [/\ ledger.status = "ACTIVE"
         /\ ledger'.revision = ledger.revision + 1
         /\ Extends(ledger, ledger')]_ledger
  BY StepExtends DEF TypeOK
<1> QED
  BY <1>1, TypeCorrect, PTL DEF Spec, HistoryIsAppendOnly

-----------------------------------------------------------------------------

\* The judgments of a ledger stay where they are in what extends it.
LEMMA KeptJudgments ==
  ASSUME NEW s \in LedgerType, NEW t \in LedgerType, Extends(s, t)
  PROVE  /\ DOMAIN s.judgments \subseteq DOMAIN t.judgments
         /\ \A i \in DOMAIN s.judgments : t.judgments[i] = s.judgments[i]
<1>1. s.judgments \in Seq(Judgment) /\ t.judgments \in Seq(Judgment)
  BY LedgerFields
<1>2. IsPrefix(s.judgments, t.judgments)
  BY DEF Extends, Lists
<1> QED
  BY <1>1, <1>2, PrefixByElements

LEMMA KeptObservations ==
  ASSUME NEW s \in LedgerType, NEW t \in LedgerType, Extends(s, t)
  PROVE  /\ DOMAIN s.observations \subseteq DOMAIN t.observations
         /\ \A i \in DOMAIN s.observations : t.observations[i] = s.observations[i]
<1>1. s.observations \in Seq(Observation) /\ t.observations \in Seq(Observation)
  BY LedgerFields
<1>2. IsPrefix(s.observations, t.observations)
  BY DEF Extends, Lists
<1> QED
  BY <1>1, <1>2, PrefixByElements

\* A judgment is named only by later judgments of its own requirement.
LEMMA NamedByLater ==
  ASSUME NEW s \in LedgerType, Valid(s),
         NEW i \in DOMAIN s.judgments, NEW k \in DOMAIN s.judgments,
         s.judgments[i].id \in s.judgments[k].judgment_refs
  PROVE  k > i /\ s.judgments[k].requirement_ref = s.judgments[i].requirement_ref
<1>1. PICK m \in DOMAIN s.judgments :
        /\ m < k
        /\ s.judgments[m].id = s.judgments[i].id
        /\ s.judgments[m].requirement_ref = s.judgments[k].requirement_ref
  BY DEF Valid, JudgmentsValid
<1>2. m = i
  BY <1>1 DEF Valid, UniqueIds, Lists
<1>3. m \in Nat /\ k \in Nat
  BY LedgerFields
<1> QED
  BY <1>1, <1>2, <1>3

\* A repair or unknown judgment that a step resolves is answered by a
\* judgment of that step (BadNewsNeedsAnAnswer).
THEOREM BadNewsIsAnswered == Spec => BadNewsNeedsAnAnswer
<1> DEFINE Answer(i, k) ==
      LET old == ledger.judgments[i]
          new == ledger'.judgments[k]
      IN  /\ new.requirement_ref = old.requirement_ref
          /\ \/ old.id \in new.judgment_refs
             \/ old.observation_refs \subseteq new.observation_refs
    Step == \A i \in Unresolved(ledger) \ Unresolved(ledger') :
              \E k \in DOMAIN ledger'.judgments \ DOMAIN ledger.judgments :
                Answer(i, k)
<1>1. TypeOK /\ Next => Step
  <2> SUFFICES ASSUME TypeOK, Next,
                      NEW i \in Unresolved(ledger) \ Unresolved(ledger')
               PROVE  \E k \in DOMAIN ledger'.judgments \ DOMAIN ledger.judgments :
                        Answer(i, k)
    OBVIOUS
  <2>1. /\ ledger \in LedgerType /\ ledger' \in LedgerType
        /\ Valid(ledger') /\ Extends(ledger, ledger')
    BY StepExtends DEF TypeOK
  <2>2. /\ DOMAIN ledger.judgments \subseteq DOMAIN ledger'.judgments
        /\ \A n \in DOMAIN ledger.judgments :
             ledger'.judgments[n] = ledger.judgments[n]
    BY <2>1, KeptJudgments
  <2>3. /\ i \in DOMAIN ledger.judgments
        /\ Bad(ledger.judgments[i])
        /\ ~Named(ledger, i) /\ ~Recited(ledger, i)
    BY DEF Unresolved
  <2>4. i \in DOMAIN ledger'.judgments /\ ledger'.judgments[i] = ledger.judgments[i]
    BY <2>2, <2>3
  <2>5. Named(ledger', i) \/ Recited(ledger', i)
    BY <2>3, <2>4 DEF Unresolved
  <2>6. CASE Named(ledger', i)
    <3>1. PICK k \in DOMAIN ledger'.judgments :
            ledger'.judgments[i].id \in ledger'.judgments[k].judgment_refs
      BY <2>6 DEF Named
    <3>2. k \notin DOMAIN ledger.judgments
      BY <2>2, <2>3, <2>4, <3>1 DEF Named
    <3>3. ledger'.judgments[k].requirement_ref = ledger'.judgments[i].requirement_ref
      BY <2>1, <2>4, <3>1, NamedByLater
    <3> QED
      BY <2>4, <3>1, <3>2, <3>3
  <2>7. CASE Recited(ledger', i)
    <3>1. PICK k \in DOMAIN ledger'.judgments :
            /\ k > i
            /\ ledger'.judgments[k].requirement_ref
                 = ledger'.judgments[i].requirement_ref
            /\ ledger'.judgments[i].observation_refs
                 \subseteq ledger'.judgments[k].observation_refs
      BY <2>7 DEF Recited
    <3>2. k \notin DOMAIN ledger.judgments
      BY <2>2, <2>3, <2>4, <3>1 DEF Recited
    <3> QED
      BY <2>4, <3>1, <3>2
  <2> QED
    BY <2>5, <2>6, <2>7
<1>2. TypeOK /\ [Next]_ledger => [Step]_ledger
  BY <1>1
<1> QED
  BY <1>2, TypeCorrect, PTL DEF Spec, BadNewsNeedsAnAnswer

\* An edge that a judgment answers stays answered in what extends the ledger.
LEMMA AnsweredForGood ==
  ASSUME NEW s \in LedgerType, NEW t \in LedgerType, Extends(s, t),
         NEW e, Answered(s, e)
  PROVE  Answered(t, e)
<1>1. /\ DOMAIN s.judgments \subseteq DOMAIN t.judgments
      /\ \A n \in DOMAIN s.judgments : t.judgments[n] = s.judgments[n]
  BY KeptJudgments
<1> QED
  BY <1>1 DEF Answered, Cited, Incorporated

\* An observation edge leaves the pending set only with a judgment that cites
\* it, and never comes back (PendingNeedsAJudgment).
THEOREM PendingIsJudged == Spec => PendingNeedsAJudgment
<1> DEFINE
    Left == \A e \in Pending(ledger) \ Pending(ledger') :
              \E k \in DOMAIN ledger'.judgments \ DOMAIN ledger.judgments :
                /\ e[2] \in ledger'.judgments[k].observation_refs
                /\ e[1] \in {None, ledger'.judgments[k].requirement_ref}
    Came == \A e \in Pending(ledger') \ Pending(ledger) :
              e[2] \notin IdsOf(ledger.observations)
<1>1. ASSUME TypeOK, Next
      PROVE  Left /\ Came
  <2>1. /\ ledger \in LedgerType /\ ledger' \in LedgerType
        /\ Valid(ledger') /\ Extends(ledger, ledger')
    BY <1>1, StepExtends DEF TypeOK
  <2>2. /\ DOMAIN ledger.judgments \subseteq DOMAIN ledger'.judgments
        /\ \A n \in DOMAIN ledger.judgments :
             ledger'.judgments[n] = ledger.judgments[n]
    BY <2>1, KeptJudgments
  <2>3. /\ DOMAIN ledger.observations \subseteq DOMAIN ledger'.observations
        /\ \A n \in DOMAIN ledger.observations :
             ledger'.observations[n] = ledger.observations[n]
    BY <2>1, KeptObservations
  <2>4. Left
    <3> SUFFICES ASSUME NEW e \in Pending(ledger) \ Pending(ledger')
                 PROVE  \E k \in DOMAIN ledger'.judgments \ DOMAIN ledger.judgments :
                          /\ e[2] \in ledger'.judgments[k].observation_refs
                          /\ e[1] \in {None, ledger'.judgments[k].requirement_ref}
      OBVIOUS
    <3>1. PICK n \in DOMAIN ledger.observations : e \in Edges(ledger.observations[n])
      BY DEF Pending
    <3>2. ~Answered(ledger, e)
      BY DEF Pending
    <3>3. e \in Edges(ledger'.observations[n]) /\ n \in DOMAIN ledger'.observations
      BY <2>3, <3>1
    <3>4. Answered(ledger', e)
      BY <3>3 DEF Pending
    <3>5. CASE e[1] = None
      <4>1. PICK k \in DOMAIN ledger'.judgments :
              e[2] \in ledger'.judgments[k].observation_refs
        BY <3>4, <3>5 DEF Answered, Cited
      <4>2. k \notin DOMAIN ledger.judgments
        BY <2>2, <3>2, <3>5, <4>1 DEF Answered, Cited
      <4> QED
        BY <3>5, <4>1, <4>2
    <3>6. CASE e[1] # None
      <4>1. PICK k \in DOMAIN ledger'.judgments :
              /\ ledger'.judgments[k].requirement_ref = e[1]
              /\ e[2] \in ledger'.judgments[k].observation_refs
        BY <3>4, <3>6 DEF Answered, Incorporated
      <4>2. k \notin DOMAIN ledger.judgments
        BY <2>2, <3>2, <3>6, <4>1 DEF Answered, Incorporated
      <4> QED
        BY <4>1, <4>2
    <3> QED
      BY <3>5, <3>6
  <2>5. Came
    <3> SUFFICES ASSUME NEW e \in Pending(ledger'),
                        e[2] \in IdsOf(ledger.observations)
                 PROVE  e \in Pending(ledger)
      OBVIOUS
    <3>1. PICK n \in DOMAIN ledger'.observations : e \in Edges(ledger'.observations[n])
      BY DEF Pending
    <3>2. e[2] = ledger'.observations[n].id
      BY <3>1 DEF Edges
    <3>3. PICK m \in DOMAIN ledger.observations : ledger.observations[m].id = e[2]
      BY DEF IdsOf
    <3>4. m = n
      BY <2>1, <2>3, <3>2, <3>3 DEF Valid, UniqueIds, Lists
    <3>5. e \in Edges(ledger.observations[m])
      BY <2>3, <3>1, <3>4
    <3>6. ~Answered(ledger, e)
      BY <2>1, AnsweredForGood DEF Pending
    <3> QED
      BY <3>5, <3>6 DEF Pending
  <2> QED
    BY <2>4, <2>5
<1>2. TypeOK /\ [Next]_ledger => [Left /\ Came]_ledger
  BY <1>1
<1> QED
  BY <1>2, TypeCorrect, PTL DEF Spec, PendingNeedsAJudgment

-----------------------------------------------------------------------------

\* A nonempty set of positions of a sequence has a last one.
LEMMA LastPosition ==
  ASSUME NEW n \in Nat, NEW T \in SUBSET (1 .. n), T # {}
  PROVE  \E x \in T : \A y \in T : y <= x
<1> DEFINE Gap == {n - x : x \in T}
<1>0. \A x \in T : x \in Nat /\ x <= n
  OBVIOUS
<1>1. Gap \subseteq Nat /\ Gap # {}
  <2>1. \A x \in T : n - x \in Nat
    BY <1>0
  <2> QED
    BY <2>1
<1>2. PICK g \in Gap : \A h \in Gap : <<h, g>> \notin OpToRel(<, Nat)
  BY <1>1, NatLessThanWellFounded, WFMin
<1>3. \A h \in Gap : ~(h < g)
  BY <1>1, <1>2 DEF OpToRel
<1>4. PICK x \in T : g = n - x
  OBVIOUS
<1>5. ASSUME NEW y \in T
      PROVE  y <= x
  <2>1. ~(n - y < n - x)
    BY <1>3, <1>4
  <2>2. x \in Nat /\ y \in Nat
    BY <1>0
  <2> QED
    BY <2>1, <2>2
<1> QED
  BY <1>5

\* The last bad judgment of a requirement is unresolved or followed by a
\* good one (NoBadNewsWithoutGoodNews): it follows from the validity of the
\* ledger, because an answer always comes later in the list.
THEOREM GoodNewsIsLast == Spec => []NoBadNewsWithoutGoodNews
<1>1. TypeOK => NoBadNewsWithoutGoodNews
  <2> SUFFICES ASSUME ledger \in LedgerType, Valid(ledger),
                      NEW i \in DOMAIN ledger.judgments,
                      Bad(ledger.judgments[i])
               PROVE  \E k \in DOMAIN ledger.judgments :
                        /\ k >= i
                        /\ ledger.judgments[k].requirement_ref
                             = ledger.judgments[i].requirement_ref
                        /\ \/ k \in Unresolved(ledger)
                           \/ k > i /\ ~Bad(ledger.judgments[k])
    BY DEF TypeOK, NoBadNewsWithoutGoodNews
  <2> DEFINE js == ledger.judgments
             Same(k) == js[k].requirement_ref = js[i].requirement_ref
             T == {k \in DOMAIN js : k >= i /\ Same(k) /\ Bad(js[k])}
  <2>1. Len(js) \in Nat /\ DOMAIN js = 1 .. Len(js)
    BY LedgerFields
  <2>2. i \in T /\ T \subseteq 1 .. Len(js)
    BY <2>1
  <2>3. PICK x \in T : \A y \in T : y <= x
    BY <2>1, <2>2, LastPosition
  <2>4. CASE x \in Unresolved(ledger)
    BY <2>3, <2>4
  <2>5. CASE x \notin Unresolved(ledger)
    <3>1. PICK m \in DOMAIN js : m > x /\ js[m].requirement_ref = js[x].requirement_ref
      <4>1. Named(ledger, x) \/ Recited(ledger, x)
        BY <2>3, <2>5 DEF Unresolved
      <4>2. CASE Named(ledger, x)
        BY <2>3, <4>2, NamedByLater DEF Named
      <4>3. CASE Recited(ledger, x)
        BY <4>3 DEF Recited
      <4> QED
        BY <4>1, <4>2, <4>3
    <3>2. m > i /\ Same(m)
      BY <2>1, <2>2, <2>3, <3>1
    <3>3. ~Bad(js[m])
      BY <2>1, <2>2, <2>3, <3>1, <3>2
    <3> QED
      BY <2>1, <3>2, <3>3
  <2> QED
    BY <2>4, <2>5
<1> QED
  BY <1>1, TypeCorrect, PTL
-----------------------------------------------------------------------------

\* A nonempty set of positions has a first one.
LEMMA FirstPosition ==
  ASSUME NEW T \in SUBSET Nat, T # {}
  PROVE  \E x \in T : \A y \in T : x <= y
<1>1. PICK x \in T : \A y \in T : <<y, x>> \notin OpToRel(<, Nat)
  BY NatLessThanWellFounded, WFMin
<1>2. \A y \in T : ~(y < x)
  BY <1>1 DEF OpToRel
<1> QED
  BY <1>2

\* A handoff in a valid ledger has the id of its own position only, and its
\* parent, if it names one, is an earlier one that includes its requirements.
LEMMA ParentFacts ==
  ASSUME NEW s \in LedgerType, Valid(s), NEW k \in DOMAIN s.handoffs
  PROVE  LET hs == s.handoffs
         IN  /\ \A n \in DOMAIN hs : hs[n].id = hs[k].id => n = k
             /\ hs[k].parent_handoff_id = None => hs[k].requirement_refs # {}
             /\ \A n \in DOMAIN hs : hs[k].parent_handoff_id = hs[n].id =>
                  n < k /\ hs[k].requirement_refs \subseteq hs[n].requirement_refs
             /\ hs[k].parent_handoff_id # None =>
                  \E n \in DOMAIN hs : n < k /\ hs[k].parent_handoff_id = hs[n].id
<1> DEFINE hs == s.handoffs
<1>1. \A n \in DOMAIN hs : hs[n].id \in Id
  <2>1. hs \in Seq(Handoff)
    BY LedgerFields
  <2>2. \A n \in DOMAIN hs : hs[n] \in Handoff
    BY <2>1
  <2> QED
    BY <2>2 DEF Handoff
<1>2. HandoffsValid(s) /\ UniqueIds(s)
  BY DEF Valid
<1>3. \A m, n \in DOMAIN hs : hs[n].id = hs[m].id => n = m
  BY <1>2 DEF UniqueIds, Lists
<1>4. /\ hs[k].parent_handoff_id = None => hs[k].requirement_refs # {}
      /\ hs[k].parent_handoff_id # None =>
           \E n \in DOMAIN hs :
             /\ n < k /\ hs[n].id = hs[k].parent_handoff_id
             /\ hs[k].requirement_refs \subseteq hs[n].requirement_refs
  BY <1>2 DEF HandoffsValid
<1>5. ASSUME NEW n \in DOMAIN hs, hs[k].parent_handoff_id = hs[n].id
      PROVE  n < k /\ hs[k].requirement_refs \subseteq hs[n].requirement_refs
  <2>1. hs[k].parent_handoff_id # None
    BY <1>1, <1>5, NoneAssumption
  <2>2. PICK m \in DOMAIN hs :
          /\ m < k /\ hs[m].id = hs[k].parent_handoff_id
          /\ hs[k].requirement_refs \subseteq hs[m].requirement_refs
    BY <1>4, <2>1
  <2>3. m = n
    BY <1>3, <1>5, <2>2
  <2> QED
    BY <2>2, <2>3
<1> QED
  BY <1>3, <1>4, <1>5

\* The handoff an observation names descends from itself, and the parent of one
\* it descends from is another.
LEMMA AncestryIsClosed ==
  ASSUME NEW s, NEW o
  PROVE  \A k \in DOMAIN s.handoffs :
           LeadsUp(s, o, Ancestry(s, o), k) => k \in Ancestry(s, o)
<1> DEFINE HoldsUp(set) ==
      \A n \in DOMAIN s.handoffs : LeadsUp(s, o, set, n) => n \in set
<1>1. SUFFICES ASSUME NEW k \in DOMAIN s.handoffs, LeadsUp(s, o, Ancestry(s, o), k),
                      NEW set \in SUBSET DOMAIN s.handoffs, HoldsUp(set)
               PROVE  k \in set
  BY DEF Ancestry
<1>2. Ancestry(s, o) \subseteq set
  BY <1>1 DEF Ancestry
<1>3. LeadsUp(s, o, set, k)
  BY <1>1, <1>2 DEF LeadsUp
<1> QED
  BY <1>1, <1>3

\* What an observation speaks about lies within the requirements of every
\* handoff above it, up to a root that has some (ScopeNeverWidens): the handoffs
\* that include it are closed under parents, and the first of its ancestors has
\* no parent.
THEOREM ScopeOnlyNarrows == Spec => []ScopeNeverWidens
<1>1. TypeOK => ScopeNeverWidens
  <2> SUFFICES ASSUME ledger \in LedgerType, Valid(ledger),
                      NEW i \in DOMAIN ledger.observations
               PROVE  LET o  == ledger.observations[i]
                          hs == ledger.handoffs
                      IN  /\ \A k \in Ancestry(ledger, o) :
                               o.requirement_refs \subseteq hs[k].requirement_refs
                          /\ \E k \in Ancestry(ledger, o) :
                               hs[k].parent_handoff_id = None /\ hs[k].requirement_refs # {}
    BY DEF TypeOK, ScopeNeverWidens
  <2> DEFINE o == ledger.observations[i]
             hs == ledger.handoffs
             Above == Ancestry(ledger, o)
             Including == {k \in DOMAIN hs : o.requirement_refs \subseteq hs[k].requirement_refs}
  <2>1. PICK h \in DOMAIN hs :
          hs[h].id = o.handoff_id /\ o.requirement_refs \subseteq hs[h].requirement_refs
    BY DEF Valid, ObservationsValid
  <2>2. Above \subseteq Including
    <3>1. ASSUME NEW n \in DOMAIN hs, LeadsUp(ledger, o, Including, n)
          PROVE  n \in Including
      <4>1. CASE hs[n].id = o.handoff_id
        BY <2>1, <4>1, ParentFacts
      <4>2. ASSUME NEW m \in Including, hs[m].parent_handoff_id = hs[n].id
            PROVE  n \in Including
        BY <4>2, ParentFacts
      <4> QED
        BY <3>1, <4>1, <4>2 DEF LeadsUp
    <3> QED
      BY <3>1 DEF Ancestry
  <2>3. \E k \in Above : hs[k].parent_handoff_id = None
    <3>1. h \in Above /\ Above \subseteq DOMAIN hs
      BY <2>1, AncestryIsClosed DEF LeadsUp, Ancestry
    <3>2. DOMAIN hs \subseteq Nat
      BY LedgerFields
    <3>3. PICK k \in Above : \A n \in Above : k <= n
      BY <3>1, <3>2, FirstPosition
    <3>4. ASSUME hs[k].parent_handoff_id # None
          PROVE  FALSE
      <4>1. PICK n \in DOMAIN hs : n < k /\ hs[k].parent_handoff_id = hs[n].id
        BY <3>1, <3>4, ParentFacts
      <4>2. n \in Above
        BY <4>1, AncestryIsClosed DEF LeadsUp
      <4> QED
        BY <3>1, <3>2, <3>3, <4>1, <4>2
    <3> QED
      BY <3>4
  <2>4. \A k \in Above : hs[k].parent_handoff_id = None => hs[k].requirement_refs # {}
    BY <2>2, ParentFacts
  <2> QED
    BY <2>2, <2>3, <2>4
<1> QED
  BY <1>1, TypeCorrect, PTL

-----------------------------------------------------------------------------
(* Capacity *)

\* The next revision has at most one digit more.
LEMMA NextDigits ==
  ASSUME NEW n \in Nat
  PROVE  /\ Digits(n) \in Nat
         /\ Digits(n + 1) \in Nat
         /\ Digits(n + 1) <= Digits(n) + 1
<1> DEFINE low  == {x \in 1 .. n : IsPowerOfRadix(x)}
           high == {x \in 1 .. n + 1 : IsPowerOfRadix(x)}
<1>1. Digits(n) = 1 + Cardinality(low) /\ Digits(n + 1) = 1 + Cardinality(high)
  BY DEF Digits
<1>2. low \subseteq 1 .. n /\ high \subseteq low \cup {n + 1}
  OBVIOUS
<1> HIDE DEF low, high
<1>3. IsFiniteSet(low)
  <2>1. IsFiniteSet(1 .. n)
    BY FS_Interval
  <2> QED
    BY <1>2, <2>1, FS_Subset
<1>4. /\ IsFiniteSet(low \cup {n + 1})
      /\ Cardinality(low) \in Nat
      /\ Cardinality(low \cup {n + 1}) \in Nat
      /\ Cardinality(low \cup {n + 1}) <= Cardinality(low) + 1
  <2>1. /\ IsFiniteSet(low \cup {n + 1})
        /\ Cardinality(low \cup {n + 1}) =
             IF n + 1 \in low THEN Cardinality(low) ELSE Cardinality(low) + 1
    BY <1>3, FS_AddElement
  <2>2. Cardinality(low) \in Nat
    BY <1>3, FS_CardinalityType
  <2> QED
    BY <2>1, <2>2
<1>5. Cardinality(high) \in Nat /\ Cardinality(high) <= Cardinality(low \cup {n + 1})
  BY <1>2, <1>4, FS_Subset, FS_CardinalityType
<1> QED
  BY <1>1, <1>4, <1>5

\* Closing shortens the status by two bytes, and lengthens the revision by at
\* most one.
LEMMA ClosedIsSmaller ==
  ASSUME NEW s \in LedgerType, s.status = "ACTIVE", WithinCapacity(s)
  PROVE  WithinCapacity(Closed(s))
<1>1. /\ Closed(s).status = "DONE"
      /\ Closed(s).revision = s.revision + 1
      /\ \A f \in Lists : Closed(s)[f] = s[f]
  BY DEF Closed, LedgerType, Lists
<1> DEFINE items == Len(s.evidence_refs) + Len(s.records)
                    + Len(s.artifact_refs) + Len(s.verification_results)
                    + Len(s.requirements) + Len(s.handoffs)
                    + Len(s.observations) + Len(s.judgments)
           bytes == ItemBytes * items
<1>2. Size(s) = bytes + 6 + Digits(s.revision)
  BY DEF Size
<1>3. Size(Closed(s)) = bytes + 4 + Digits(s.revision + 1)
  BY <1>1 DEF Size, Lists
<1>4. bytes \in Int
  <2>1. /\ Len(s.evidence_refs) \in Nat /\ Len(s.records) \in Nat
        /\ Len(s.artifact_refs) \in Nat /\ Len(s.verification_results) \in Nat
    BY LedgerFields, LenProperties
  <2>2. /\ Len(s.requirements) \in Nat /\ Len(s.handoffs) \in Nat
        /\ Len(s.observations) \in Nat /\ Len(s.judgments) \in Nat
    BY LedgerFields, LenProperties
  <2>3. items \in Int
    BY <2>1, <2>2
  <2> HIDE DEF items
  <2>4. ItemBytes \in Int
    BY BoundsAssumption
  <2> QED
    BY <2>3, <2>4
<1> HIDE DEF bytes
<1>5. /\ Digits(s.revision) \in Nat /\ Digits(s.revision + 1) \in Nat
      /\ Digits(s.revision + 1) <= Digits(s.revision) + 1
  <2>1. s.revision \in Nat
    BY LedgerFields
  <2> QED
    BY <2>1, NextDigits
<1>6. /\ Size(s) \in Int /\ Size(Closed(s)) \in Int
      /\ Size(Closed(s)) <= Size(s)
  BY <1>2, <1>3, <1>4, <1>5
<1> QED
  BY <1>1, <1>6, BoundsAssumption DEF WithinCapacity, Lists

\* A ledger that is full in bytes or in entries can still be closed, as the
\* recovery text of the capacity errors says (FullLedgerStillCloses).
THEOREM ClosingAlwaysFits == Spec => []FullLedgerStillCloses
<1>1. TypeOK => FullLedgerStillCloses
  <2> SUFFICES ASSUME ledger \in LedgerType, Valid(ledger), ledger.status = "ACTIVE"
               PROVE  Admits(ledger, [op |-> "close"], ledger.revision)
    BY DEF TypeOK, FullLedgerStillCloses
  <2>1. \A f \in Lists : Closed(ledger)[f] = ledger[f]
    BY DEF Closed, LedgerType, Lists
  <2>2. WithinCapacity(Closed(ledger))
    BY ClosedIsSmaller DEF Valid
  <2>3. UniqueIds(Closed(ledger))
    BY <2>1 DEF Valid, UniqueIds
  <2>4. SourcesResolve(Closed(ledger)) /\ SupersessionResolves(Closed(ledger))
    BY <2>1 DEF Valid, SourcesResolve, SupersessionResolves, Lists
  <2>5. HandoffsValid(Closed(ledger)) /\ ObservationsValid(Closed(ledger))
    BY <2>1 DEF Valid, HandoffsValid, ObservationsValid, Lists
  <2>6. JudgmentsValid(Closed(ledger))
    BY <2>1 DEF Valid, JudgmentsValid, Lists
  <2>7. Valid(After(ledger, [op |-> "close"]))
    BY <2>2, <2>3, <2>4, <2>5, <2>6 DEF Valid, After
  <2> QED
    BY <2>7 DEF Admits, RevisionMatches, WellRequested
<1> QED
  BY <1>1, TypeCorrect, PTL

-----------------------------------------------------------------------------
(* Pages of the open evidence.                                              *)

\* The entries a ledger can have open, now or after it is extended, that are
\* about what it holds already.
Listed(s) == ({1, 2} \X (DOMAIN s.observations) \X (Id \cup {None}))
               \cup ({3} \X (DOMAIN s.judgments) \X {None})

LEMMA ObservationFacts ==
  ASSUME NEW s \in LedgerType, NEW i \in DOMAIN s.observations
  PROVE  i \in Nat /\ s.observations[i].requirement_refs \subseteq Id
<1>1. s.observations \in Seq(Observation)
  BY LedgerFields
<1>2. i \in Nat /\ s.observations[i] \in Observation
  BY <1>1
<1> QED
  BY <1>2 DEF Observation

LEMMA OpenShape ==
  ASSUME NEW s \in LedgerType, NEW e \in Open(s)
  PROVE  /\ e \in Listed(s)
         /\ e[2] \in Nat
         /\ \/ /\ e = <<1, e[2], e[3]>> /\ e[1] = 1
               /\ e[2] \in DOMAIN s.observations
               /\ e[3] \in s.observations[e[2]].requirement_refs
               /\ ~Incorporated(s, e[3], s.observations[e[2]].id)
            \/ /\ e = <<2, e[2], None>> /\ e[1] = 2 /\ e[3] = None
               /\ e[2] \in DOMAIN s.observations
               /\ s.observations[e[2]].requirement_refs = {}
               /\ ~Cited(s, s.observations[e[2]].id)
            \/ e = <<3, e[2], None>> /\ e[1] = 3 /\ e[3] = None /\ e[2] \in Unresolved(s)
<1>1. CASE e \in PendingEntries(s)
  <2>1. PICK i \in DOMAIN s.observations :
          \E r \in s.observations[i].requirement_refs :
            e = <<1, i, r>> /\ ~Incorporated(s, r, s.observations[i].id)
    BY <1>1 DEF PendingEntries
  <2>2. PICK r \in s.observations[i].requirement_refs :
          e = <<1, i, r>> /\ ~Incorporated(s, r, s.observations[i].id)
    BY <2>1
  <2>3. i \in Nat /\ r \in Id
    BY ObservationFacts
  <2> QED
    BY <2>2, <2>3 DEF Listed
<1>2. CASE e \in UnscopedEntries(s)
  <2>1. PICK i \in DOMAIN s.observations :
          /\ e = <<2, i, None>> /\ s.observations[i].requirement_refs = {}
          /\ ~Cited(s, s.observations[i].id)
    BY <1>2 DEF UnscopedEntries
  <2>2. i \in Nat
    BY ObservationFacts
  <2> QED
    BY <2>1, <2>2 DEF Listed
<1>3. CASE e \in UnresolvedEntries(s)
  <2>1. PICK i \in Unresolved(s) : e = <<3, i, None>>
    BY <1>3 DEF UnresolvedEntries
  <2>2. i \in DOMAIN s.judgments /\ i \in Nat
    BY LedgerFields DEF Unresolved
  <2> QED
    BY <2>1, <2>2 DEF Listed
<1> QED
  BY <1>1, <1>2, <1>3 DEF Open

\* The requirements of an observation are among the ledger's.
LEMMA RefsAreRegistered ==
  ASSUME NEW s \in LedgerType, Valid(s)
  PROVE  /\ IsFiniteSet(IdsOf(s.requirements))
         /\ \A i \in DOMAIN s.observations :
              s.observations[i].requirement_refs \subseteq IdsOf(s.requirements)
<1> DEFINE rs == s.requirements
           f == [n \in DOMAIN rs |-> rs[n].id]
<1>1. IsFiniteSet(DOMAIN rs)
  <2>1. rs \in Seq(Requirement)
    BY LedgerFields
  <2>2. DOMAIN rs = 1 .. Len(rs) /\ Len(rs) \in Nat
    BY <2>1
  <2> QED
    BY <2>2, FS_Interval
<1>2. f \in Surjection(DOMAIN rs, IdsOf(rs))
  BY DEF Surjection, IdsOf
<1>3. IsFiniteSet(IdsOf(rs))
  BY <1>1, <1>2, FS_Surjection
<1>4. ASSUME NEW i \in DOMAIN s.observations
      PROVE  s.observations[i].requirement_refs \subseteq IdsOf(rs)
  <2>1. PICK k \in DOMAIN s.handoffs :
          s.observations[i].requirement_refs \subseteq s.handoffs[k].requirement_refs
    BY DEF Valid, ObservationsValid
  <2> QED
    BY <2>1 DEF Valid, HandoffsValid
<1> QED
  BY <1>3, <1>4

LEMMA OpenIsFinite ==
  ASSUME NEW s \in LedgerType, Valid(s)
  PROVE  /\ IsFiniteSet(Open(s)) /\ Total(s) \in Nat
         /\ \A T \in SUBSET Open(s) : IsFiniteSet(T) /\ Cardinality(T) \in Nat
<1> DEFINE Lines == DOMAIN s.observations \cup DOMAIN s.judgments
           Refs == IdsOf(s.requirements) \cup {None}
           f == [e \in Open(s) |-> <<<<e[1], e[2]>>, e[3]>>]
<1>1. IsFiniteSet(Lines)
  <2>1. s.observations \in Seq(Observation) /\ s.judgments \in Seq(Judgment)
    BY LedgerFields
  <2>2. /\ DOMAIN s.observations = 1 .. Len(s.observations) /\ Len(s.observations) \in Nat
        /\ DOMAIN s.judgments = 1 .. Len(s.judgments) /\ Len(s.judgments) \in Nat
    BY <2>1
  <2>3. IsFiniteSet(DOMAIN s.observations) /\ IsFiniteSet(DOMAIN s.judgments)
    BY <2>2, FS_Interval
  <2> QED
    BY <2>3, FS_Union
<1>2. IsFiniteSet(Refs)
  BY RefsAreRegistered, FS_AddElement
<1>3. IsFiniteSet(((1 .. 3) \X Lines) \X Refs)
  <2> HIDE DEF Lines, Refs
  <2>1. IsFiniteSet(1 .. 3)
    <3>1. 1 \in Int /\ 3 \in Int
      OBVIOUS
    <3> QED
      BY <3>1, FS_Interval, Zenon
  <2>2. IsFiniteSet((1 .. 3) \X Lines)
    BY <1>1, <2>1, FS_Product, Zenon
  <2> QED
    BY <1>2, <2>2, FS_Product, Zenon
<1>4. f \in Injection(Open(s), ((1 .. 3) \X Lines) \X Refs)
  <2>1. ASSUME NEW e \in Open(s)
        PROVE  /\ e = <<e[1], e[2], e[3]>>
               /\ e[1] \in 1 .. 3 /\ e[2] \in Lines /\ e[3] \in Refs
    BY OpenShape, RefsAreRegistered DEF Unresolved
  <2> HIDE DEF Lines, Refs
  <2>2. f \in [Open(s) -> ((1 .. 3) \X Lines) \X Refs]
    BY <2>1
  <2>3. ASSUME NEW d \in Open(s), NEW e \in Open(s), f[d] = f[e]
        PROVE  d = e
    BY <2>1, <2>3
  <2> QED
    BY <2>2, <2>3 DEF Injection, IsInjective
<1>5. IsFiniteSet(Open(s))
  BY <1>3, <1>4, FS_Injection
<1> QED
  BY <1>5, FS_Subset, FS_CardinalityType DEF Total

\* An observation lists each of its requirements at a place of its own.
LEMMA PlaceIsOwn ==
  ASSUME NEW o, IsFiniteSet(o.requirement_refs)
  PROVE  /\ \A r \in o.requirement_refs : Place(o, r) \in Nat
         /\ \A q, r \in o.requirement_refs : Place(o, q) = Place(o, r) => q = r
<1> DEFINE S == o.requirement_refs
           n == Cardinality(S)
           refs == SetToSeq(S)
<1>1. n \in Nat /\ \E f \in [1 .. n -> S] : IsInjective(f)
  BY FS_CardinalityType DEF ExistsBijection, Bijection, Injection
<1>2. refs \in [1 .. n -> S] /\ IsInjective(refs)
  BY <1>1 DEF SetToSeq
<1>3. IsFiniteSet(1 .. n) /\ Cardinality(1 .. n) = n
  BY <1>1, FS_Interval
<1>4. refs \in Surjection(1 .. n, S)
  BY <1>2, <1>3, FS_Injection DEF Injection
<1>5. \A r \in S : \E k \in DOMAIN refs : refs[k] = r
  BY <1>2, <1>4 DEF Surjection
<1>6. \A r \in S : Place(o, r) \in DOMAIN refs /\ refs[Place(o, r)] = r
  BY <1>5 DEF Place
<1> QED
  BY <1>1, <1>2, <1>6

LEMMA PrecedesIsAnOrder ==
  ASSUME NEW s \in LedgerType, Valid(s)
  PROVE  /\ \A e, f \in Open(s) :
              /\ Precedes(s, e, f) => ~Precedes(s, f, e)
              /\ Precedes(s, e, f) \/ Precedes(s, f, e) \/ e = f
         /\ \A e, f, g \in Open(s) :
              Precedes(s, e, f) /\ Precedes(s, f, g) => Precedes(s, e, g)
<1> DEFINE At(e) == Place(s.observations[e[2]], e[3])
<1>1. \A e \in Open(s) :
        /\ e[1] \in Nat /\ e[2] \in Nat
        /\ e[1] = 1 => At(e) \in Nat
        /\ e = <<e[1], e[2], e[3]>>
        /\ e[1] # 1 => e[3] = None
  <2> SUFFICES ASSUME NEW e \in Open(s)
               PROVE  /\ e[1] \in Nat /\ e[2] \in Nat
                      /\ e[1] = 1 => At(e) \in Nat
                      /\ e = <<e[1], e[2], e[3]>>
                      /\ e[1] # 1 => e[3] = None
    OBVIOUS
  <2>1. ASSUME e[1] = 1
        PROVE  At(e) \in Nat
    BY <2>1, OpenShape, RefsAreRegistered, FS_Subset, PlaceIsOwn
  <2> QED
    BY <2>1, OpenShape
<1>2. ASSUME NEW e \in Open(s), NEW f \in Open(s), e[1] = 1, f[1] = 1, e[2] = f[2],
             At(e) = At(f)
      PROVE  e = f
  <2>1. /\ e[2] \in DOMAIN s.observations
        /\ e[3] \in s.observations[e[2]].requirement_refs
        /\ f[3] \in s.observations[e[2]].requirement_refs
    BY <1>2, OpenShape
  <2>2. e[3] = f[3]
    BY <1>2, <2>1, RefsAreRegistered, FS_Subset, PlaceIsOwn
  <2> QED
    BY <1>1, <1>2, <2>2
<1> DEFINE Less(e, f) ==
             \/ e[1] < f[1]
             \/ e[1] = f[1] /\ e[2] < f[2]
             \/ e[1] = 1 /\ f[1] = 1 /\ e[2] = f[2] /\ At(e) < At(f)
<1>3. \A e, f : Precedes(s, e, f) <=> Less(e, f)
  BY DEF Precedes
<1> HIDE DEF At
<1>4. ASSUME NEW e \in Open(s), NEW f \in Open(s)
      PROVE  /\ Less(e, f) => ~Less(f, e)
             /\ Less(e, f) \/ Less(f, e) \/ e = f
  <2>1. CASE e[1] = 1 /\ f[1] = 1 /\ e[2] = f[2]
    BY <1>1, <1>2, <2>1
  <2>2. CASE ~(e[1] = 1 /\ f[1] = 1 /\ e[2] = f[2])
    BY <1>1, <2>2
  <2> QED
    BY <2>1, <2>2
<1>5. ASSUME NEW e \in Open(s), NEW f \in Open(s), NEW g \in Open(s),
             Less(e, f), Less(f, g)
      PROVE  Less(e, g)
  BY <1>1, <1>5
<1> HIDE DEF Less
<1> QED
  BY <1>3, <1>4, <1>5

\* What a step makes of the entries: one that is about what the ledger held, and
\* is open after it, was open before, and they keep their order.
LEMMA OpenAfterStep ==
  ASSUME NEW s \in LedgerType, NEW t \in LedgerType, Extends(s, t)
  PROVE  /\ Listed(s) \subseteq Listed(t)
         /\ Open(t) \cap Listed(s) \subseteq Open(s)
         /\ \A e, f \in Open(s) : Precedes(s, e, f) <=> Precedes(t, e, f)
<1>1. /\ DOMAIN s.judgments \subseteq DOMAIN t.judgments
      /\ \A i \in DOMAIN s.judgments : t.judgments[i] = s.judgments[i]
  BY KeptJudgments
<1>2. /\ DOMAIN s.observations \subseteq DOMAIN t.observations
      /\ \A i \in DOMAIN s.observations : t.observations[i] = s.observations[i]
  BY KeptObservations
<1>3. Listed(s) \subseteq Listed(t)
  BY <1>1, <1>2 DEF Listed
<1>4. ASSUME NEW e \in Open(t), e \in Listed(s)
      PROVE  e \in Open(s)
  <2>1. /\ \A r, o : Incorporated(s, r, o) => Incorporated(t, r, o)
        /\ \A o : Cited(s, o) => Cited(t, o)
    BY <1>1 DEF Incorporated, Cited
  <2>2. CASE e[1] = 1
    <3>1. e[2] \in DOMAIN s.observations
      BY <1>4, <2>2 DEF Listed
    <3>2. /\ e = <<1, e[2], e[3]>>
          /\ e[3] \in s.observations[e[2]].requirement_refs
          /\ ~Incorporated(s, e[3], s.observations[e[2]].id)
      BY <1>2, <2>1, <2>2, <3>1, OpenShape
    <3> QED
      BY <3>1, <3>2 DEF Open, PendingEntries
  <2>3. CASE e[1] = 2
    <3>1. e[2] \in DOMAIN s.observations
      BY <1>4, <2>3 DEF Listed
    <3>2. /\ e = <<2, e[2], None>>
          /\ s.observations[e[2]].requirement_refs = {}
          /\ ~Cited(s, s.observations[e[2]].id)
      BY <1>2, <2>1, <2>3, <3>1, OpenShape
    <3> QED
      BY <3>1, <3>2 DEF Open, UnscopedEntries
  <2>4. CASE e[1] = 3
    <3>1. e[2] \in DOMAIN s.judgments
      BY <1>4, <2>4 DEF Listed
    <3>2. e = <<3, e[2], None>> /\ e[2] \in Unresolved(t)
      BY <2>4, OpenShape
    <3>3. /\ Named(s, e[2]) => Named(t, e[2])
          /\ Recited(s, e[2]) => Recited(t, e[2])
      BY <1>1, <3>1 DEF Named, Recited
    <3>4. e[2] \in Unresolved(s)
      BY <1>1, <3>1, <3>2, <3>3 DEF Unresolved
    <3> QED
      BY <3>2, <3>4 DEF Open, UnresolvedEntries
  <2> QED
    BY <2>2, <2>3, <2>4, OpenShape
<1>5. ASSUME NEW e \in Open(s), NEW f \in Open(s)
      PROVE  Precedes(s, e, f) <=> Precedes(t, e, f)
  <2>1. e[1] = 1 => t.observations[e[2]] = s.observations[e[2]]
    BY <1>2, OpenShape
  <2> QED
    BY <2>1 DEF Precedes
<1> QED
  BY <1>3, <1>4, <1>5

-----------------------------------------------------------------------------

\* An entry has the entries up to it, itself included, at the positions up to its
\* own.
LEMMA Positions ==
  ASSUME NEW s \in LedgerType, Valid(s)
  PROVE  /\ \A e \in Open(s) : Position(s, e) \in 1 .. Total(s)
         /\ \A e, f \in Open(s) : Precedes(s, e, f) => Position(s, e) < Position(s, f)
         /\ \A e, f \in Open(s) : Position(s, e) < Position(s, f) => Precedes(s, e, f)
<1> DEFINE Upto(e) == {f \in Open(s) : ~Precedes(s, e, f)}
<1>1. \A e : Position(s, e) = Cardinality(Upto(e))
  BY DEF Position
<1>2. \A e : IsFiniteSet(Upto(e)) /\ Cardinality(Upto(e)) \in Nat
  BY OpenIsFinite
<1>3. ASSUME NEW e \in Open(s)
      PROVE  Position(s, e) \in 1 .. Total(s)
  <2>1. e \in Upto(e)
    BY PrecedesIsAnOrder
  <2>2. Cardinality(Upto(e)) # 0
    BY <1>2, <2>1, FS_EmptySet
  <2>3. Cardinality(Upto(e)) <= Total(s)
    BY OpenIsFinite, FS_Subset DEF Total
  <2> QED
    BY <1>1, <1>2, <2>2, <2>3, OpenIsFinite
<1>4. ASSUME NEW e \in Open(s), NEW f \in Open(s), Precedes(s, e, f)
      PROVE  Position(s, e) < Position(s, f)
  <2>1. Upto(e) \subseteq Upto(f) /\ f \in Upto(f) /\ f \notin Upto(e)
    BY <1>4, PrecedesIsAnOrder
  <2>2. /\ Cardinality(Upto(e)) <= Cardinality(Upto(f))
        /\ Cardinality(Upto(e)) # Cardinality(Upto(f))
    BY <1>2, <2>1, FS_Subset
  <2> QED
    BY <1>1, <1>2, <2>2
<1>5. ASSUME NEW e \in Open(s), NEW f \in Open(s), Position(s, e) < Position(s, f)
      PROVE  Precedes(s, e, f)
  <2>1. Position(s, e) \in Nat /\ Position(s, f) \in Nat
    BY <1>1, <1>2
  <2>2. ~Precedes(s, f, e) /\ e # f
    BY <1>4, <1>5, <2>1
  <2> QED
    BY <2>2, PrecedesIsAnOrder
<1> QED
  BY <1>3, <1>4, <1>5

\* The entries a reader with this offset has passed.
Passed(s, offset) == {e \in Open(s) : Position(s, e) <= offset}

\* As many entries can move from behind an offset to before it as are answered
\* before it: the entries before it that stay open precede those that move, and the
\* positions up to the offset have no room for more.
LEMMA OnlyAnswersMakeRoom ==
  ASSUME NEW s \in LedgerType, Valid(s), NEW t \in LedgerType, Valid(t), Extends(s, t),
         NEW offset \in Nat
  PROVE  Cardinality((Open(s) \ Passed(s, offset)) \cap Passed(t, offset))
           <= Cardinality(Passed(s, offset) \ Open(t))
<1> DEFINE A == Passed(s, offset)
           B == (Open(s) \ Passed(s, offset)) \cap Passed(t, offset)
<1>1. /\ IsFiniteSet(A) /\ Cardinality(A) \in Nat
      /\ IsFiniteSet(B) /\ Cardinality(B) \in Nat
      /\ IsFiniteSet(A \cap Open(t)) /\ Cardinality(A \cap Open(t)) \in Nat
      /\ IsFiniteSet(A \ Open(t)) /\ Cardinality(A \ Open(t)) \in Nat
  <2>1. A \subseteq Open(s) /\ B \subseteq Open(s)
    BY DEF Passed
  <2> QED
    BY <2>1, OpenIsFinite
<1>2. CASE B = {}
  BY <1>1, <1>2, FS_EmptySet
<1>3. CASE B # {}
  <2>1. offset <= Cardinality(A)
    <3> DEFINE T == {Position(s, e) : e \in Open(s) \ A}
    <3>1. T \in SUBSET Nat /\ T # {}
      BY <1>3, Positions DEF Passed
    <3>2. PICK x \in T : \A y \in T : x <= y
      BY <3>1, FirstPosition
    <3>3. PICK m \in Open(s) \ A : x = Position(s, m)
      OBVIOUS
    <3>4. {f \in Open(s) : ~Precedes(s, m, f)} \subseteq A \cup {m}
      <4> SUFFICES ASSUME NEW f \in Open(s), ~Precedes(s, m, f), f # m
                   PROVE  f \in A
        OBVIOUS
      <4>1. Position(s, f) < Position(s, m)
        BY <3>3, PrecedesIsAnOrder, Positions
      <4>2. Position(s, f) \in Nat /\ Position(s, m) \in Nat
        BY <3>3, Positions
      <4>3. f \notin A => Position(s, f) \in T
        OBVIOUS
      <4> HIDE DEF A, T
      <4> QED
        BY <3>2, <3>3, <4>1, <4>2, <4>3
    <3>5. Position(s, m) <= Cardinality(A) + 1
      <4>1. /\ IsFiniteSet(A \cup {m})
            /\ Cardinality(A \cup {m}) <= Cardinality(A) + 1
            /\ Cardinality(A \cup {m}) \in Nat
        <5> HIDE DEF A, B, T
        <5>1. IsFiniteSet(A) /\ Cardinality(A) \in Nat
          BY <1>1
        <5>2. /\ IsFiniteSet(A \cup {m})
              /\ Cardinality(A \cup {m}) =
                   IF m \in A THEN Cardinality(A) ELSE Cardinality(A) + 1
          BY <5>1, FS_AddElement
        <5> QED
          BY <5>1, <5>2
      <4>2. Position(s, m) <= Cardinality(A \cup {m})
        BY <3>4, <4>1, FS_Subset DEF Position
      <4>3. Position(s, m) \in Nat
        BY <3>3, Positions
      <4> QED
        BY <1>1, <4>1, <4>2, <4>3
    <3>6. Position(s, m) \in Nat /\ Position(s, m) > offset
      BY <3>3, Positions DEF Passed
    <3> QED
      BY <1>1, <3>5, <3>6
  <2>2. Cardinality(B) + Cardinality(A \cap Open(t)) <= offset
    <3> DEFINE T == {Position(t, e) : e \in B}
    <3>1. T \in SUBSET (1 .. offset) /\ T # {}
      BY <1>3, Positions DEF Passed
    <3>2. PICK x \in T : \A y \in T : y <= x
      BY <3>1, LastPosition
    <3>3. PICK b \in B : x = Position(t, b)
      OBVIOUS
    <3>4. B \cup (A \cap Open(t)) \subseteq {f \in Open(t) : ~Precedes(t, b, f)}
      <4>1. ASSUME NEW f \in B
            PROVE  f \in Open(t) /\ ~Precedes(t, b, f)
        <5>1. f \in Open(t) /\ b \in Open(t)
          BY DEF Passed
        <5>2. Position(t, f) <= Position(t, b)
          BY <3>2, <3>3
        <5>3. Position(t, f) \in Nat /\ Position(t, b) \in Nat
          BY <5>1, Positions
        <5>4. ~(Position(t, b) < Position(t, f))
          BY <5>2, <5>3
        <5> QED
          BY <5>1, <5>4, Positions
      <4>2. ASSUME NEW f \in A, f \in Open(t)
            PROVE  ~Precedes(t, b, f)
        <5>1. /\ f \in Open(s) /\ b \in Open(s) /\ b \in Open(t)
              /\ Position(s, f) <= offset /\ ~(Position(s, b) <= offset)
          BY DEF Passed
        <5>2. Position(s, f) < Position(s, b)
          BY <5>1, Positions
        <5>3. Precedes(t, f, b)
          BY <5>1, <5>2, Positions, OpenAfterStep
        <5> QED
          BY <4>2, <5>1, <5>3, PrecedesIsAnOrder
      <4> QED
        BY <4>1, <4>2
    <3>5. Cardinality(B \cup (A \cap Open(t))) = Cardinality(B) + Cardinality(A \cap Open(t))
      <4> DEFINE C == A \cap Open(t)
      <4>1. B \cap C = {}
        OBVIOUS
      <4>2. IsFiniteSet(C) /\ Cardinality(C) \in Nat
        BY <1>1
      <4> HIDE DEF A, B, C
      <4>3. Cardinality(B \cup C) = Cardinality(B) + Cardinality(C) - Cardinality(B \cap C)
        BY <1>1, <4>2, FS_Union
      <4>4. Cardinality(B \cap C) = 0
        BY <4>1, FS_EmptySet
      <4>5. Cardinality(B \cup C) = Cardinality(B) + Cardinality(C)
        BY <1>1, <4>2, <4>3, <4>4
      <4> QED
        BY <4>5 DEF C
    <3>6. Cardinality(B \cup (A \cap Open(t))) <= Position(t, b)
      <4>1. IsFiniteSet({f \in Open(t) : ~Precedes(t, b, f)})
        BY OpenIsFinite
      <4> QED
        BY <3>4, <4>1, FS_Subset DEF Position
    <3>7. Position(t, b) \in Nat /\ Position(t, b) <= offset
      BY <3>3, Positions DEF Passed
    <3> QED
      BY <1>1, <3>5, <3>6, <3>7
  <2>3. Cardinality(A \ Open(t)) = Cardinality(A) - Cardinality(A \cap Open(t))
    BY <1>1, FS_Difference
  <2> QED
    BY <1>1, <2>1, <2>2, <2>3
<1> QED
  BY <1>2, <1>3

-----------------------------------------------------------------------------

Entry == {1, 2, 3} \X Nat \X (Id \cup {None})

Passes == [offset : Nat \cup {Done}, shown : SUBSET Entry, kept : SUBSET Entry,
           answered : SUBSET Entry]

\* What a pass has missed so far: it has passed the entry and not shown it.
Missed(s, p) == (Passed(s, p.offset) \cap p.kept) \ p.shown

\* A pass in progress has missed at most as many entries as were answered behind it,
\* none of which can be open again.
PassInv ==
  pass # None =>
    /\ pass \in Passes
    /\ pass.offset # Done =>
         /\ pass.kept \subseteq Open(ledger)
         /\ IsFiniteSet(pass.answered)
         /\ pass.answered \subseteq Listed(ledger) \ Open(ledger)
         /\ Cardinality(Missed(ledger, pass)) <= Cardinality(pass.answered)
    /\ pass.offset = Done =>
         Cardinality(pass.kept \ pass.shown) <= Cardinality(pass.answered)

LEMMA EntriesAreTyped ==
  ASSUME NEW s \in LedgerType
  PROVE  Open(s) \subseteq Entry /\ \A k, n : Page(s, k, n) \subseteq Entry
<1>1. ASSUME NEW e \in Open(s)
      PROVE  e \in Entry
  <2>1. CASE e[1] = 1
    <3>1. e[3] \in Id
      BY <2>1, OpenShape, ObservationFacts
    <3> QED
      BY <2>1, <3>1, OpenShape DEF Entry
  <2> QED
    BY <2>1, OpenShape DEF Entry
<1> QED
  BY <1>1 DEF Page

LEMMA SizesAreNatural ==
  ASSUME NEW s \in LedgerType, Valid(s), NEW k \in Nat, NEW size \in PageSizes(s, k)
  PROVE  /\ size \in Nat
         /\ NextOffset(s, k, size) \in Nat \cup {Done}
         /\ NextOffset(s, k, size) # Done =>
              NextOffset(s, k, size) = k + size
         /\ NextOffset(s, k, size) = Done => k + size >= Total(s)
<1>1. Total(s) \in Nat
  BY OpenIsFinite
<1>2. size \in Nat
  BY <1>1 DEF PageSizes
<1>3. k + size \in Nat /\ k + size # Done
  BY <1>2, NoneAssumption DEF Done
<1> QED
  BY <1>1, <1>2, <1>3 DEF NextOffset

\* A page shows what it passes.
LEMMA PageShows ==
  ASSUME NEW s \in LedgerType, Valid(s), NEW k \in Nat, NEW size \in Nat
  PROVE  /\ Passed(s, k + size) \subseteq Passed(s, k) \cup Page(s, k, size)
         /\ k + size >= Total(s) => Open(s) \subseteq Passed(s, k) \cup Page(s, k, size)
         /\ Passed(s, 0) = {}
         /\ Page(s, 0, k) = Passed(s, k)
<1>1. \A e \in Open(s) :
        Position(s, e) \in Nat /\ 1 <= Position(s, e) /\ Position(s, e) <= Total(s)
  BY Positions, OpenIsFinite
<1>2. Total(s) \in Nat
  BY OpenIsFinite
<1> QED
  BY <1>1, <1>2 DEF Passed, Page

LEMMA FirstPageInv ==
  ASSUME TypeOK, FirstPage
  PROVE  PassInv'
<1>1. /\ ledger' = ledger /\ ledger \in LedgerType /\ Valid(ledger)
      /\ Open(ledger') = Open(ledger)
  BY DEF FirstPage, TypeOK
<1>2. PICK size \in PageSizes(ledger, 0) :
        pass' = [offset |-> NextOffset(ledger, 0, size),
                 shown |-> Page(ledger, 0, size),
                 kept |-> Open(ledger), answered |-> {}]
  BY DEF FirstPage
<1>3. /\ size \in Nat
      /\ pass'.offset \in Nat \cup {Done}
      /\ pass'.offset # Done => pass'.offset = size
      /\ pass'.offset = Done => size >= Total(ledger)
  BY <1>1, <1>2, SizesAreNatural
<1>4. pass' \in Passes
  BY <1>1, <1>2, <1>3, EntriesAreTyped DEF Passes
<1>5. /\ size >= Total(ledger) => Open(ledger) \subseteq Page(ledger, 0, size)
      /\ Passed(ledger, size) \subseteq Page(ledger, 0, size)
  BY <1>1, <1>3, PageShows
<1>6. IsFiniteSet({}) /\ Cardinality({}) = 0
  BY FS_EmptySet
<1>7. ASSUME pass'.offset # Done
      PROVE  Missed(ledger', pass') = {}
  BY <1>1, <1>2, <1>3, <1>5, <1>7 DEF Missed
<1>8. ASSUME pass'.offset = Done
      PROVE  pass'.kept \ pass'.shown = {}
  BY <1>2, <1>3, <1>5, <1>8
<1> QED
  BY <1>1, <1>2, <1>4, <1>6, <1>7, <1>8 DEF PassInv

LEMMA NextPageInv ==
  ASSUME TypeOK, PassInv, NextPage
  PROVE  PassInv'
<1>1. /\ ledger' = ledger /\ ledger \in LedgerType /\ Valid(ledger)
      /\ Open(ledger') = Open(ledger) /\ Listed(ledger') = Listed(ledger)
  BY DEF NextPage, TypeOK
<1>2. /\ pass \in Passes /\ pass.offset \in Nat
      /\ pass.kept \subseteq Open(ledger)
      /\ IsFiniteSet(pass.answered)
      /\ pass.answered \subseteq Listed(ledger) \ Open(ledger)
      /\ Cardinality(Missed(ledger, pass)) <= Cardinality(pass.answered)
  BY DEF NextPage, PassInv, Passes
<1>3. PICK size \in PageSizes(ledger, pass.offset) :
        pass' = [pass EXCEPT !.offset = NextOffset(ledger, pass.offset, size),
                             !.shown = @ \cup Page(ledger, pass.offset, size)]
  BY DEF NextPage
<1> DEFINE page == Page(ledger, pass.offset, size)
<1>4. /\ pass'.offset = NextOffset(ledger, pass.offset, size)
      /\ pass'.shown = pass.shown \cup page
      /\ pass'.kept = pass.kept /\ pass'.answered = pass.answered
  BY <1>2, <1>3 DEF Passes
<1>5. /\ size \in Nat
      /\ pass'.offset \in Nat \cup {Done}
      /\ pass'.offset # Done => pass'.offset = pass.offset + size
      /\ pass'.offset = Done => pass.offset + size >= Total(ledger)
  BY <1>1, <1>2, <1>4, SizesAreNatural
<1>6. pass' \in Passes
  BY <1>1, <1>2, <1>3, <1>5, <1>4, EntriesAreTyped DEF Passes
<1>7. /\ Passed(ledger, pass.offset + size) \subseteq Passed(ledger, pass.offset) \cup page
      /\ pass.offset + size >= Total(ledger) =>
           Open(ledger) \subseteq Passed(ledger, pass.offset) \cup page
  BY <1>1, <1>2, <1>5, PageShows
<1>8. ASSUME NEW S \in SUBSET Missed(ledger, pass)
      PROVE  Cardinality(S) <= Cardinality(pass.answered)
  <2>1. Missed(ledger, pass) \subseteq Open(ledger)
    BY DEF Missed, Passed
  <2>2. /\ IsFiniteSet(Missed(ledger, pass)) /\ Cardinality(Missed(ledger, pass)) \in Nat
        /\ Cardinality(S) \in Nat
    BY <1>1, <2>1, OpenIsFinite
  <2>3. Cardinality(S) <= Cardinality(Missed(ledger, pass))
    BY <2>2, FS_Subset
  <2>4. Cardinality(pass.answered) \in Nat
    BY <1>2, FS_CardinalityType
  <2> QED
    BY <1>2, <2>2, <2>3, <2>4
<1>9. ASSUME pass'.offset # Done
      PROVE  Missed(ledger', pass') \subseteq Missed(ledger, pass)
  BY <1>1, <1>4, <1>5, <1>7, <1>9 DEF Missed
<1>10. ASSUME pass'.offset = Done
       PROVE  pass'.kept \ pass'.shown \subseteq Missed(ledger, pass)
  BY <1>2, <1>4, <1>5, <1>7, <1>10 DEF Missed
<1> QED
  BY <1>1, <1>2, <1>4, <1>6, <1>8, <1>9, <1>10 DEF PassInv

LEMMA ChangesInv ==
  ASSUME TypeOK, PassInv, NEW c \in Commands, Changes(c)
  PROVE  PassInv'
<1> DEFINE k == pass.offset
           t == ledger'
<1>1. CASE pass = None \/ k = Done
  <2>1. pass' = pass
    BY <1>1 DEF Changes, Follow
  <2> QED
    BY <1>1, <2>1 DEF PassInv
<1>2. CASE pass # None /\ k # Done
  <2>1. /\ ledger \in LedgerType /\ Valid(ledger) /\ t \in LedgerType /\ Valid(t)
        /\ Extends(ledger, t)
    <3>1. Next
      BY DEF Changes, Next
    <3> QED
      BY <3>1, StepExtends DEF TypeOK
  <2>2. /\ pass \in Passes /\ k \in Nat
        /\ pass.kept \subseteq Open(ledger)
        /\ IsFiniteSet(pass.answered)
        /\ pass.answered \subseteq Listed(ledger) \ Open(ledger)
        /\ Cardinality(Missed(ledger, pass)) <= Cardinality(pass.answered)
    BY <1>2 DEF PassInv, Passes
  <2>3. pass' = [pass EXCEPT
                   !.kept = @ \cap Open(t),
                   !.answered = @ \cup (Page(ledger, 0, k) \ Open(t))]
    BY <1>2 DEF Changes, Follow
  <2> DEFINE now == Passed(ledger, k) \ Open(t)
             moved == (Open(ledger) \ Passed(ledger, k)) \cap Passed(t, k)
  <2>4. /\ pass'.offset = k /\ pass'.shown = pass.shown
        /\ pass'.kept = pass.kept \cap Open(t)
        /\ pass'.answered = pass.answered \cup now
    <3>1. Page(ledger, 0, k) = Passed(ledger, k)
      BY <2>1, <2>2, PageShows
    <3> QED
      BY <2>2, <2>3, <3>1 DEF Passes
  <2>5. /\ now \subseteq Open(ledger) /\ moved \subseteq Open(ledger)
        /\ Missed(ledger, pass) \subseteq Open(ledger)
    BY DEF Passed, Missed
  <2>6. pass' \in Passes
    <3>1. pass.kept \cap Open(t) \in SUBSET Entry /\ pass.answered \cup now \in SUBSET Entry
      BY <2>1, <2>2, <2>5, EntriesAreTyped DEF Passes
    <3> HIDE DEF now
    <3> QED
      BY <2>2, <2>3, <2>4, <3>1 DEF Passes
  <2>7. pass'.kept \subseteq Open(t)
    BY <2>4
  <2>8. /\ IsFiniteSet(now) /\ Cardinality(now) \in Nat
        /\ IsFiniteSet(moved) /\ Cardinality(moved) \in Nat
        /\ IsFiniteSet(Missed(ledger, pass)) /\ Cardinality(Missed(ledger, pass)) \in Nat
    BY <2>1, <2>5, OpenIsFinite
  <2>9. pass'.answered \subseteq Listed(t) \ Open(t)
    <3>1. now \subseteq Listed(ledger) \ Open(t)
      BY <2>1, <2>5, OpenShape
    <3>2. pass.answered \cap Open(t) = {}
      BY <2>1, <2>2, OpenAfterStep
    <3> HIDE DEF now
    <3> QED
      BY <2>1, <2>2, <2>4, <3>1, <3>2, OpenAfterStep
  <2>10. /\ IsFiniteSet(pass'.answered)
         /\ Cardinality(pass'.answered) = Cardinality(pass.answered) + Cardinality(now)
         /\ Cardinality(pass.answered) \in Nat
    <3>1. pass.answered \cap now = {}
      BY <2>2, <2>5
    <3> HIDE DEF now
    <3>2. /\ IsFiniteSet(pass.answered \cup now)
          /\ Cardinality(pass.answered \cup now) =
               Cardinality(pass.answered) + Cardinality(now) - Cardinality(pass.answered \cap now)
      BY <2>2, <2>8, FS_Union
    <3>3. Cardinality(pass.answered) \in Nat /\ Cardinality({}) = 0
      BY <2>2, FS_CardinalityType, FS_EmptySet
    <3> QED
      BY <2>4, <2>8, <3>1, <3>2, <3>3
  <2>11. Cardinality(moved) <= Cardinality(now)
    BY <2>1, <2>2, OnlyAnswersMakeRoom
  <2>12. Missed(t, pass') \subseteq Missed(ledger, pass) \cup moved
    BY <2>2, <2>4 DEF Missed
  <2>13. Cardinality(Missed(t, pass')) <= Cardinality(Missed(ledger, pass)) + Cardinality(moved)
    <3> DEFINE M == Missed(ledger, pass)
    <3> HIDE DEF now, moved, M
    <3>1. /\ IsFiniteSet(M) /\ Cardinality(M) \in Nat
          /\ IsFiniteSet(moved) /\ Cardinality(moved) \in Nat
      BY <2>8 DEF M
    <3>2. /\ IsFiniteSet(M \cup moved) /\ Cardinality(M \cap moved) \in Nat
          /\ Cardinality(M \cup moved) =
               Cardinality(M) + Cardinality(moved) - Cardinality(M \cap moved)
      BY <3>1, FS_Union, FS_Intersection, FS_CardinalityType
    <3>3. Missed(t, pass') \in SUBSET (M \cup moved)
      BY <2>12 DEF M
    <3>4. /\ Cardinality(Missed(t, pass')) <= Cardinality(M \cup moved)
          /\ Cardinality(Missed(t, pass')) \in Nat
      BY <3>2, <3>3, FS_Subset, FS_CardinalityType
    <3> QED
      BY <3>1, <3>2, <3>4 DEF M
  <2>14. Cardinality(Missed(t, pass')) <= Cardinality(pass'.answered)
    <3>1. Cardinality(Missed(t, pass')) \in Nat
      <4>1. Missed(t, pass') \subseteq Open(t)
        BY DEF Missed, Passed
      <4> QED
        BY <2>1, <4>1, OpenIsFinite
    <3> HIDE DEF now, moved
    <3> QED
      BY <2>2, <2>8, <2>10, <2>11, <2>13, <3>1
  <2> HIDE DEF now, moved
  <2> QED
    BY <1>2, <2>4, <2>6, <2>7, <2>9, <2>10, <2>14 DEF PassInv
<1> QED
  BY <1>1, <1>2

\* A complete pass over the pages shows whatever was open throughout it, except for
\* at most as many entries as were answered meanwhile on the pages already read
\* (NothingOpenIsSkipped), however the commands and the page sizes fall.
THEOREM PagesMissNothing == PagesSpec => []NothingOpenIsSkipped
<1>1. PagesInit => TypeOK /\ PassInv
  <2> SUFFICES ASSUME PagesInit
               PROVE  TypeOK /\ PassInv
    OBVIOUS
  <2>1. TypeOK
    BY BlankIsValid DEF PagesInit, Init, TypeOK
  <2>2. CASE pass = Unread
    <3>1. pass \in Passes /\ pass.offset = Done
      BY <2>2 DEF Unread, Passes
    <3>2. pass.kept \ pass.shown = {} /\ pass.answered = {} /\ Cardinality({}) = 0
      BY <2>2, FS_EmptySet DEF Unread
    <3> QED
      BY <2>1, <3>1, <3>2 DEF PassInv
  <2>3. CASE pass = None
    BY <2>1, <2>3 DEF PassInv
  <2> QED
    BY <2>2, <2>3 DEF PagesInit
<1>2. TypeOK /\ PassInv /\ [PagesNext]_pageVars => TypeOK' /\ PassInv'
  <2> SUFFICES ASSUME TypeOK, PassInv, [PagesNext]_pageVars
               PROVE  TypeOK' /\ PassInv'
    OBVIOUS
  <2>1. CASE FirstPage
    BY <2>1, FirstPageInv DEF FirstPage, TypeOK
  <2>2. CASE NextPage
    BY <2>2, NextPageInv DEF NextPage, TypeOK
  <2>3. ASSUME NEW c \in Commands, Changes(c)
        PROVE  TypeOK' /\ PassInv'
    <3>1. Next
      BY <2>3 DEF Changes, Next
    <3> QED
      BY <2>3, <3>1, ChangesInv, StepExtends DEF TypeOK
  <2>4. CASE UNCHANGED pageVars
    BY <2>4 DEF pageVars, TypeOK, PassInv, Missed
  <2> QED
    BY <2>1, <2>2, <2>3, <2>4 DEF PagesNext
<1>3. PassInv => NothingOpenIsSkipped
  BY DEF PassInv, NothingOpenIsSkipped
<1> QED
  BY <1>1, <1>2, <1>3, PTL DEF PagesSpec
=============================================================================
