----------------------------- MODULE TaskLedger -----------------------------
(***************************************************************************)
(* The abstract behaviour of one task: every accepted command takes the    *)
(* ledger from one valid content to the next in a single step.  LockedTask *)
(* is the detailed one, with processes, the repository lock, the           *)
(* load-check-replace sequence and failures; it implements this module.    *)
(*                                                                         *)
(* There is one action per ledger command of core.py.  A refused command   *)
(* changes nothing and is not a step.                                      *)
(***************************************************************************)
EXTENDS Evidence

CONSTANT Commands   \* the commands processes may submit

ASSUME CommandsAssumption == Commands \subseteq Command

VARIABLE ledger

Init == \E work \in Work : ledger = BlankLedger(work)

\* A command takes effect against the very revision its caller named.
Accepted(c) ==
  Admits(ledger, c, IF Unconditional(c) THEN None ELSE ledger.revision)

TaskUpdate(c) ==
  /\ c.op = "update"
  /\ Accepted(c)
  /\ ledger' = Updated(ledger, c)

EvidenceRegister(c) ==
  /\ c.op = "register"
  /\ Accepted(c)
  /\ ledger' = Registered(ledger, c)

TaskObserve(c) ==
  /\ c.op = "observe"
  /\ Accepted(c)
  /\ ledger' = Observed(ledger, c)

TaskJudge(c) ==
  /\ c.op = "judge"
  /\ Accepted(c)
  /\ ledger' = Judged(ledger, c)

TaskArtifact(c) ==
  /\ c.op = "artifact"
  /\ Accepted(c)
  /\ ledger' = ArtifactRegistered(ledger, c)

RecordVerification(c) ==
  /\ c.op = "verify"
  /\ Accepted(c)
  /\ ledger' = VerificationRecorded(ledger, c)

TaskClose(c) ==
  /\ c.op = "close"
  /\ Accepted(c)
  /\ ledger' = Closed(ledger)

Do(c) ==
  \/ TaskUpdate(c)
  \/ EvidenceRegister(c)
  \/ TaskObserve(c)
  \/ TaskJudge(c)
  \/ TaskArtifact(c)
  \/ RecordVerification(c)
  \/ TaskClose(c)

Next == \E c \in Commands : Do(c)

Spec == Init /\ [][Next]_ledger

-----------------------------------------------------------------------------
TypeOK == ledger \in LedgerType /\ Valid(ledger)

\* What any reader may rely on: a step keeps every recorded object in its
\* place, advances the revision by exactly one, and never touches a task
\* that is DONE (append-only records, strict CAS, TASK_NOT_ACTIVE).
HistoryIsAppendOnly ==
  [][/\ ledger.status = "ACTIVE"
     /\ ledger'.revision = ledger.revision + 1
     /\ Extends(ledger, ledger')]_ledger

\* Good news does not erase bad news: a repair or unknown judgment stops
\* being re-presented only by a step that appends a judgment of the same
\* requirement which names it or recites its whole observation basis.  No
\* observation, verification, artifact, update or close does it.
BadNewsNeedsAnAnswer ==
  [][\A i \in Unresolved(ledger) \ Unresolved(ledger') :
       \E k \in DOMAIN ledger'.judgments \ DOMAIN ledger.judgments :
         LET old == ledger.judgments[i]
             new == ledger'.judgments[k]
         IN  /\ new.requirement_ref = old.requirement_ref
             /\ \/ old.id \in new.judgment_refs
                \/ old.observation_refs \subseteq new.observation_refs]_ledger

\* Where nothing is unresolved for a requirement, every repair or unknown
\* judgment of it is followed by a satisfied or no-current-impact one:
\* chains of bad judgments answering each other never hide the last of them.
NoBadNewsWithoutGoodNews ==
  \A i \in DOMAIN ledger.judgments :
    LET j == ledger.judgments[i]
    IN  Bad(j) =>
          \E k \in DOMAIN ledger.judgments :
            /\ k >= i
            /\ ledger.judgments[k].requirement_ref = j.requirement_ref
            /\ k \in Unresolved(ledger) \/ (k > i /\ ~Bad(ledger.judgments[k]))

\* An observation edge leaves the pending set only when a judgment of that
\* very requirement cites the observation (any requirement, for an
\* observation without one), and it never comes back.
PendingNeedsAJudgment ==
  [][/\ \A e \in Pending(ledger) \ Pending(ledger') :
          \E k \in DOMAIN ledger'.judgments \ DOMAIN ledger.judgments :
            /\ e[2] \in ledger'.judgments[k].observation_refs
            /\ e[1] \in {None, ledger'.judgments[k].requirement_ref}
     /\ \A e \in Pending(ledger') \ Pending(ledger) :
          e[2] \notin IdsOf(ledger.observations)]_ledger

\* A handoff that an observation names, or a parent of one in a set.
LeadsUp(s, o, set, k) ==
  \/ s.handoffs[k].id = o.handoff_id
  \/ \E m \in set : s.handoffs[m].parent_handoff_id = s.handoffs[k].id

\* The handoffs an observation descends from, its own included: every set that
\* holds its own and the parents of its members holds them.
Ancestry(s, o) ==
  {k \in DOMAIN s.handoffs : \A set \in SUBSET DOMAIN s.handoffs :
     (\A n \in DOMAIN s.handoffs : LeadsUp(s, o, set, n) => n \in set) => k \in set}

\* Delegation never widens: what an observation speaks about lies within the
\* requirements of every handoff above it, up to a root that has some.
ScopeNeverWidens ==
  \A i \in DOMAIN ledger.observations :
    LET o  == ledger.observations[i]
        hs == ledger.handoffs
    IN  /\ \A k \in Ancestry(ledger, o) :
             o.requirement_refs \subseteq hs[k].requirement_refs
        /\ \E k \in Ancestry(ledger, o) :
             hs[k].parent_handoff_id = None /\ hs[k].requirement_refs # {}

\* "task-close still works" (the recovery text of the capacity errors): an
\* ACTIVE ledger can be closed however full it is.
FullLedgerStillCloses ==
  ledger.status = "ACTIVE" =>
    Admits(ledger, [op |-> "close"], ledger.revision)
=============================================================================
