------------------------------- MODULE Ledger -------------------------------
(***************************************************************************)
(* The content of one task ledger, .context/tasks/<id>/state.json, as      *)
(* core.py admits it, and the mutation each ledger command makes to it.    *)
(*                                                                         *)
(* A ledger is a record of append-only lists plus a replaceable routing    *)
(* value.  Names are those of the JSON fields.  Texts, digests, timestamps *)
(* and labels nothing refers to are left out: no command and no property   *)
(* tells them apart.  `work' stands for the three fields task-update       *)
(* replaces as a whole (active_work, pending_results, current_milestone).  *)
(*                                                                         *)
(* This module has no variables and no RECURSIVE operator, so both TLC and *)
(* the proofs use it as it stands.                                         *)
(***************************************************************************)
EXTENDS Integers, Sequences, FiniteSets, SequencesExt

CONSTANTS
  Id,           \* task object ids; one namespace for every kind of object
  Actor,        \* opaque producer labels
  Candidate,    \* opaque candidate labels of handoffs and judgments
  Work,         \* routing values (active work, pending results, milestone)
  None,         \* JSON null, and the absence of a --base-revision
  ItemBytes,    \* serialized size of one task object
  StateMax,     \* STATE_MAX_BYTES, less the fixed fields of an empty ledger
  ArtifactMax,  \* the 256-entry bound on artifact_refs
  ResultMax,    \* the 256-entry bound on verification_results
  Radix         \* base in which the revision is written (10 in the code)

ASSUME BoundsAssumption ==
  /\ {ItemBytes, StateMax, ArtifactMax, ResultMax} \subseteq Nat
  /\ Radix \in Nat /\ Radix >= 2

ASSUME NoneAssumption == None \notin Id \cup Work \cup Nat

Outcome == {"satisfied", "unknown", "repair", "no-current-impact"}

Source      == [id : Id, source_refs : SUBSET Id]
TaskRecord  == [id : Id, producer : Actor, revision : Nat \ {0},
                source_refs : SUBSET Id, supersedes : SUBSET Id]
Artifact    == [id : Id, source_refs : SUBSET Id, supersedes : SUBSET Id]
Result      == [id : Id, source_refs : SUBSET Id]
Requirement == [id : Id]
Handoff     == [id : Id, parent_handoff_id : Id \cup {None}, producer : Actor,
                candidate : Candidate, requirement_refs : SUBSET Id]
Observation == [id : Id, producer : Actor, candidate : Candidate,
                handoff_id : Id, requirement_refs : SUBSET Id,
                source_refs : SUBSET Id]
Judgment    == [id : Id, producer : Actor, candidate : Candidate,
                requirement_ref : Id, observation_refs : SUBSET Id,
                outcome : Outcome, judgment_refs : SUBSET Id]

LedgerType ==
  [revision : Nat \ {0}, status : {"ACTIVE", "DONE"}, work : Work,
   evidence_refs : Seq(Source), records : Seq(TaskRecord),
   artifact_refs : Seq(Artifact), verification_results : Seq(Result),
   requirements : Seq(Requirement), handoffs : Seq(Handoff),
   observations : Seq(Observation), judgments : Seq(Judgment)]

\* The lists of a ledger, every one of them append-only.
Lists == {"evidence_refs", "records", "artifact_refs", "verification_results",
          "requirements", "handoffs", "observations", "judgments"}

\* Every list of `old' is a prefix of that list of `new'.
Extends(old, new) == \A f \in Lists : IsPrefix(old[f], new[f])

IdsOf(list) == {list[i].id : i \in DOMAIN list}

\* _task_object_ids: the task-wide set of addressable ids.
ObjectIds(s) == UNION {IdsOf(s[f]) : f \in Lists}

BlankLedger(work) ==
  [revision |-> 1, status |-> "ACTIVE", work |-> work,
   evidence_refs |-> <<>>, records |-> <<>>, artifact_refs |-> <<>>,
   verification_results |-> <<>>, requirements |-> <<>>, handoffs |-> <<>>,
   observations |-> <<>>, judgments |-> <<>>]

-----------------------------------------------------------------------------
(* What _validate_state and _validate_continuity demand of a ledger.        *)

\* Ids are unique within each list and across all of them.
UniqueIds(s) ==
  /\ \A f \in Lists : \A i, j \in DOMAIN s[f] :
       s[f][i].id = s[f][j].id => i = j
  /\ \A f, g \in Lists : f # g => IdsOf(s[f]) \cap IdsOf(s[g]) = {}

\* A source may cite any source of the ledger; only task-update is stricter.
SourcesResolve(s) ==
  \A f \in {"evidence_refs", "records", "artifact_refs",
            "verification_results"} :
    \A i \in DOMAIN s[f] : s[f][i].source_refs \subseteq IdsOf(s.evidence_refs)

Before(list, i) == {list[k].id : k \in {n \in DOMAIN list : n < i}}

SupersessionResolves(s) ==
  /\ \A i \in DOMAIN s.records :
       s.records[i].supersedes \subseteq Before(s.records, i)
  /\ \A i \in DOMAIN s.artifact_refs :
       /\ s.artifact_refs[i].id \notin s.artifact_refs[i].supersedes
       /\ s.artifact_refs[i].supersedes \subseteq IdsOf(s.artifact_refs)

\* Mutant: a child handoff names its parent but may widen its scope.
HandoffsMayWiden(s) ==
  \A i \in DOMAIN s.handoffs :
    LET h == s.handoffs[i]
    IN  /\ h.requirement_refs \subseteq IdsOf(s.requirements)
        /\ h.parent_handoff_id = None => h.requirement_refs # {}
        /\ h.parent_handoff_id # None =>
             h.parent_handoff_id \in Before(s.handoffs, i)

\* A root handoff carries requirements; a child handoff stays inside the
\* requirements of a parent registered before it.
HandoffsValid(s) ==
  \A i \in DOMAIN s.handoffs :
    LET h == s.handoffs[i]
    IN  /\ h.requirement_refs \subseteq IdsOf(s.requirements)
        /\ h.parent_handoff_id = None => h.requirement_refs # {}
        /\ h.parent_handoff_id # None =>
             \E k \in DOMAIN s.handoffs :
               /\ k < i
               /\ s.handoffs[k].id = h.parent_handoff_id
               /\ h.requirement_refs \subseteq s.handoffs[k].requirement_refs

\* An observation speaks for the producer and the candidate of its handoff,
\* inside that handoff's requirements, and rests on at least one source.
ObservationsValid(s) ==
  \A i \in DOMAIN s.observations :
    LET o == s.observations[i]
    IN  /\ \E k \in DOMAIN s.handoffs :
             LET h == s.handoffs[k]
             IN  /\ h.id = o.handoff_id
                 /\ h.producer = o.producer
                 /\ h.candidate = o.candidate
                 /\ o.requirement_refs \subseteq h.requirement_refs
                 /\ h.requirement_refs # {} => o.requirement_refs # {}
        /\ o.source_refs # {}
        /\ o.source_refs \subseteq IdsOf(s.evidence_refs)

\* Mutant: a judgment may answer one of another requirement.
JudgmentsMayAnswerAny(s) ==
  \A i \in DOMAIN s.judgments :
    LET j == s.judgments[i]
    IN  /\ j.requirement_ref \in IdsOf(s.requirements)
        /\ j.observation_refs # {}
        /\ j.observation_refs \subseteq IdsOf(s.observations)
        /\ j.judgment_refs \subseteq Before(s.judgments, i)

\* A judgment cites registered observations, and earlier judgments of the
\* same requirement only.
JudgmentsValid(s) ==
  \A i \in DOMAIN s.judgments :
    LET j == s.judgments[i]
    IN  /\ j.requirement_ref \in IdsOf(s.requirements)
        /\ j.observation_refs # {}
        /\ j.observation_refs \subseteq IdsOf(s.observations)
        /\ \A p \in j.judgment_refs :
             \E k \in DOMAIN s.judgments :
               /\ k < i
               /\ s.judgments[k].id = p
               /\ s.judgments[k].requirement_ref = j.requirement_ref

\* The powers above the first; d * d <= Radix ^ d + 1 holds of every d, and
\* keeps TLC from exponents that are out of its reach.
IsPowerOfRadix(x) == \E d \in 1 .. x : d * d <= x + 1 /\ x = Radix ^ d

\* Number of digits of a revision: it gains one at each power of the radix.
Digits(n) == 1 + Cardinality({x \in 1 .. n : IsPowerOfRadix(x)})

\* Mutant: the closing status word is as long as "ACTIVE".
SizeWithLongDone(s) ==
  LET items(f) == Len(s[f])
  IN  ItemBytes * (items("evidence_refs") + items("records")
                   + items("artifact_refs") + items("verification_results")
                   + items("requirements") + items("handoffs")
                   + items("observations") + items("judgments"))
      + 6 + Digits(s.revision)

\* Size of the serialized ledger over its fixed fields.  "DONE" is two bytes
\* shorter than "ACTIVE"; the revision is written in digits.
Size(s) ==
  LET items(f) == Len(s[f])
  IN  ItemBytes * (items("evidence_refs") + items("records")
                   + items("artifact_refs") + items("verification_results")
                   + items("requirements") + items("handoffs")
                   + items("observations") + items("judgments"))
      + (IF s.status = "ACTIVE" THEN 6 ELSE 4)
      + Digits(s.revision)

WithinCapacity(s) ==
  /\ Len(s.artifact_refs) <= ArtifactMax
  /\ Len(s.verification_results) <= ResultMax
  /\ Size(s) <= StateMax

Valid(s) ==
  /\ UniqueIds(s)
  /\ SourcesResolve(s)
  /\ SupersessionResolves(s)
  /\ HandoffsValid(s)
  /\ ObservationsValid(s)
  /\ JudgmentsValid(s)
  /\ WithinCapacity(s)

\* An empty ledger fits: the code's bounds are far above its fixed fields.
ASSUME CapacityAssumption == \A work \in Work : WithinCapacity(BlankLedger(work))

-----------------------------------------------------------------------------
(* Commands.  A command names its additions; the base revision it was      *)
(* submitted with is kept apart, because the same command is resubmitted   *)
(* with a newer base after a conflict.                                     *)

NewRecord == [id : Id, producer : Actor, revision : (Nat \ {0}) \cup {None},
              source_refs : SUBSET Id, supersedes : SUBSET Id]

Command ==
       [op : {"update"}, evidence_refs : Seq(Source),
        records : Seq(NewRecord), work : Work \cup {None}]
  \cup [op : {"register"}, requirements : Seq(Requirement),
        handoffs : Seq(Handoff)]
  \cup [op : {"observe"}, evidence_refs : Seq(Source),
        observations : Seq(Observation)]
  \cup [op : {"judge"}, judgments : Seq(Judgment)]
  \cup [op : {"artifact"}, artifact : Artifact]
  \cup [op : {"verify"}, result : Result]
  \cup [op : {"close"}]

\* A record is stamped with the revision that commits it unless the caller
\* supplied one of its own.
Stamped(s, record) ==
  IF record.revision = None
  THEN [record EXCEPT !.revision = s.revision + 1]
  ELSE record

Updated(s, c) ==
  [s EXCEPT !.evidence_refs = @ \o c.evidence_refs,
            !.records = @ \o [i \in DOMAIN c.records |-> Stamped(s, c.records[i])],
            !.work = IF c.work = None THEN @ ELSE c.work,
            !.revision = @ + 1]

Registered(s, c) ==
  [s EXCEPT !.requirements = @ \o c.requirements,
            !.handoffs = @ \o c.handoffs,
            !.revision = @ + 1]

\* Mutant: task-observe, which checks no revision, does not advance it.
ObservedInPlace(s, c) ==
  [s EXCEPT !.evidence_refs = @ \o c.evidence_refs,
            !.observations = @ \o c.observations]

\* The whole batch, with the sources its items embed, costs one revision.
Observed(s, c) ==
  [s EXCEPT !.evidence_refs = @ \o c.evidence_refs,
            !.observations = @ \o c.observations,
            !.revision = @ + 1]

Judged(s, c) ==
  [s EXCEPT !.judgments = @ \o c.judgments, !.revision = @ + 1]

ArtifactRegistered(s, c) ==
  [s EXCEPT !.artifact_refs = Append(@, c.artifact), !.revision = @ + 1]

VerificationRecorded(s, c) ==
  [s EXCEPT !.verification_results = Append(@, c.result), !.revision = @ + 1]

Closed(s) == [s EXCEPT !.status = "DONE", !.revision = @ + 1]

After(s, c) ==
  CASE c.op = "update"   -> Updated(s, c)
    [] c.op = "register" -> Registered(s, c)
    [] c.op = "observe"  -> Observed(s, c)
    [] c.op = "judge"    -> Judged(s, c)
    [] c.op = "artifact" -> ArtifactRegistered(s, c)
    [] c.op = "verify"   -> VerificationRecorded(s, c)
    [] c.op = "close"    -> Closed(s)

\* Checks a handler makes on its own input, beyond the validity of the result.
WellRequested(s, c) ==
  /\ c.op = "update" =>
       \A i \in DOMAIN c.evidence_refs :
         c.evidence_refs[i].source_refs
           \subseteq IdsOf(s.evidence_refs) \cup Before(c.evidence_refs, i)
  /\ c.op = "artifact" => c.artifact.supersedes \subseteq IdsOf(s.artifact_refs)

\* Mutant: any base revision not newer than the ledger will do.
RevisionAtLeast(s, base) == base # None => s.revision >= base

\* check_revision: strict compare-and-set, or no check at all when the
\* command carries no base revision (task-observe).
RevisionMatches(s, base) == base # None => s.revision = base

\* task-observe is the one command without --base-revision.
Unconditional(c) == c.op = "observe"

\* Mutant: the ledger is validated as loaded and not as it will be written.
AdmitsUnchecked(s, c, base) ==
  /\ s.status = "ACTIVE"
  /\ RevisionMatches(s, base)
  /\ WellRequested(s, c)
  /\ Valid(s)

\* Everything between loading the ledger and replacing the file.
Admits(s, c, base) ==
  /\ s.status = "ACTIVE"
  /\ RevisionMatches(s, base)
  /\ WellRequested(s, c)
  /\ Valid(After(s, c))
=============================================================================
