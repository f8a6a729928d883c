---------------------------- MODULE MCTaskLedger ----------------------------
(***************************************************************************)
(* An instance of TaskLedger, and of EvidencePages over it, that explores  *)
(* one of three plans of commands: EvidenceCommands has every way three    *)
(* judgments can answer two observations and each other; ObjectCommands    *)
(* has the other kinds of objects and fills the ledger; and under          *)
(* PagedCommands a reader pages the open evidence meanwhile.               *)
(***************************************************************************)
EXTENDS EvidencePages

CONSTANTS r1, r2, h1, h2, h3, o1, o2, o3, j1, j2, j3, s1, a1, a2, v1, t1, t2,
          controller, child, c1, w1, w2

Notes == {"n1", "n2", "n3", "n4", "n5", "n6", "n7"}
MCIds == {r1, r2, h1, h2, h3, o1, o2, o3, j1, j2, j3, s1, a1, a2, v1, t1, t2}
           \cup Notes
JudgmentIds == {j1, j2, j3}

Req(id) == [id |-> id]
Src(id, refs) == [id |-> id, source_refs |-> refs]
Hand(id, parent, reqs) ==
  [id |-> id, parent_handoff_id |-> parent, producer |-> child,
   candidate |-> c1, requirement_refs |-> reqs]
Obs(id, handoff, reqs) ==
  [id |-> id, producer |-> child, candidate |-> c1, handoff_id |-> handoff,
   requirement_refs |-> reqs, source_refs |-> {s1}]
Judge(id, req, obs, outcome, prior) ==
  [id |-> id, producer |-> controller, candidate |-> c1,
   requirement_ref |-> req, observation_refs |-> obs, outcome |-> outcome,
   judgment_refs |-> prior]

Register(reqs, handoffs) ==
  [op |-> "register", requirements |-> reqs, handoffs |-> handoffs]
Observe(sources, obs) ==
  [op |-> "observe", evidence_refs |-> sources, observations |-> obs]
Judging(judgments) == [op |-> "judge", judgments |-> judgments]

OneJudgment ==
  {Judge(id, req, obs, outcome, prior) :
     id \in JudgmentIds, req \in {r1, r2},
     obs \in (SUBSET {o1, o2}) \ {{}}, outcome \in {"satisfied", "repair"},
     prior \in {{}} \cup {{j} : j \in JudgmentIds}}

\* A batch whose second judgment answers its first, and one that tries to
\* answer a judgment of another requirement.
JudgmentBatch ==
  {<<Judge(p[1], r1, {o1}, "repair", {}), Judge(p[2], req, {o2}, "satisfied", {p[1]})>> :
     p \in {q \in JudgmentIds \X JudgmentIds : q[1] # q[2]}, req \in {r1, r2}}

\* h3 widens its parent's scope in one variant and carries none in the other.
EvidenceCommands ==
  {Register(<<Req(r1), Req(r2)>>, <<Hand(h1, None, {r1, r2}), Hand(h2, h1, {r1})>>),
   Register(<<>>, <<Hand(h3, h2, {r2})>>),
   Register(<<>>, <<Hand(h3, h2, {})>>),
   Observe(<<Src(s1, {})>>, <<Obs(o1, h1, {r1, r2})>>),
   Observe(<<Src(s1, {})>>, <<Obs(o1, h1, {r1})>>),
   Observe(<<>>, <<Obs(o2, h2, {r1})>>),
   Observe(<<>>, <<Obs(o2, h3, {})>>),
   Observe(<<>>, <<Obs(o2, h3, {r2})>>),
   [op |-> "close"]}
  \cup {Judging(<<j>>) : j \in OneJudgment}
  \cup {Judging(b) : b \in JudgmentBatch}

Rec(id, revision, refs, supersedes) ==
  [id |-> id, producer |-> controller, revision |-> revision,
   source_refs |-> refs, supersedes |-> supersedes]
Update(sources, records, work) ==
  [op |-> "update", evidence_refs |-> sources, records |-> records, work |-> work]
Art(id, refs, supersedes) ==
  [op |-> "artifact",
   artifact |-> [id |-> id, source_refs |-> refs, supersedes |-> supersedes]]

ObjectCommands ==
  {Update(<<Src(s1, {})>>, <<>>, None),
   Update(<<Src(s1, {s1})>>, <<>>, None),
   Update(<<>>, <<Rec(t1, None, {}, {})>>, w2),
   Update(<<>>, <<Rec(t2, 1, {s1}, {t1})>>, None),
   Update(<<>>, <<>>, w1),
   Register(<<Req(r1)>>, <<Hand(h1, None, {r1})>>),
   Observe(<<Src(s1, {s1})>>, <<Obs(o1, h1, {r1}), Obs(o2, h1, {r1})>>),
   Observe(<<>>, <<Obs(a1, h1, {r1})>>),
   Judging(<<Judge(j1, r1, {o1}, "unknown", {})>>),
   Art(a1, {}, {}), Art(a2, {s1}, {a1}), Art(a2, {}, {a2}),
   [op |-> "verify", result |-> [id |-> v1, source_refs |-> {s1}]],
   [op |-> "verify", result |-> [id |-> a1, source_refs |-> {}]],
   [op |-> "close"]}

\* Observations of one requirement, of two and of none, and judgments that
\* answer one edge, two edges, or an earlier repair.
PagedCommands ==
  {Register(<<Req(r1), Req(r2)>>, <<Hand(h1, None, {r1, r2}), Hand(h2, h1, {})>>),
   Observe(<<Src(s1, {})>>, <<Obs(o1, h1, {r1, r2})>>),
   Observe(<<>>, <<Obs(o2, h2, {})>>),
   Observe(<<>>, <<Obs(o3, h1, {r1})>>),
   Judging(<<Judge(j1, r1, {o1, o2}, "repair", {})>>),
   Judging(<<Judge(j1, r2, {o1}, "satisfied", {})>>),
   Judging(<<Judge(j2, r1, {o3}, "satisfied", {})>>),
   Judging(<<Judge(j2, r1, {o2}, "repair", {j1})>>),
   Judging(<<Judge(j3, r2, {o1, o2}, "unknown", {})>>)}

MCCommands == EvidenceCommands \cup ObjectCommands \cup PagedCommands

-----------------------------------------------------------------------------

VARIABLE plan

MCVars == <<ledger, pass, plan>>

\* task-start may record sources at once; here they leave room for the
\* objects of one ledger to fill it.
Noted(s) ==
  LET notes == SetToSeq(Notes)
  IN  [s EXCEPT !.evidence_refs = [i \in DOMAIN notes |-> Src(notes[i], {})]]

MCInit ==
  /\ plan \in {"evidence", "objects", "paged"}
  /\ ledger \in LET blank == {BlankLedger(work) : work \in Work}
                IN  IF plan = "objects" THEN {Noted(s) : s \in blank}
                    ELSE {BlankLedger(w1)}
  /\ pass = IF plan = "paged" THEN Unread ELSE None

\* Judgment ids are interchangeable: under "evidence" they come in order.
InOrder ==
  \A i \in DOMAIN ledger'.judgments : ledger'.judgments[i].id = <<j1, j2, j3>>[i]

MCNext ==
  /\ \/ plan = "evidence" /\ (\E c \in EvidenceCommands : Changes(c)) /\ InOrder
     \/ plan = "objects" /\ \E c \in ObjectCommands : Changes(c)
     \/ plan = "paged" /\ \/ FirstPage
                          \/ NextPage
                          \/ \E c \in PagedCommands : Changes(c)
  /\ UNCHANGED plan

MCSpec == MCInit /\ [][MCNext]_MCVars /\ Reading
=============================================================================
