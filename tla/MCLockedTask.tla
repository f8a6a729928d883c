---------------------------- MODULE MCLockedTask ----------------------------
(***************************************************************************)
(* A Controller that registers and closes, a second one that judges, and a *)
(* child Agent that observes, all writing one ledger.                      *)
(***************************************************************************)
EXTENDS LockedTask

CONSTANTS r1, h1, o1, j1, s1, lead, second, child, c1, w1

MCIds == {r1, h1, o1, j1, s1}

Obs(id) ==
  [id |-> id, producer |-> child, candidate |-> c1, handoff_id |-> h1,
   requirement_refs |-> {r1}, source_refs |-> {s1}]

Register ==
  [op |-> "register", requirements |-> <<[id |-> r1]>>,
   handoffs |-> <<[id |-> h1, parent_handoff_id |-> None, producer |-> child,
                   candidate |-> c1, requirement_refs |-> {r1}]>>]
FirstObservation ==
  [op |-> "observe", evidence_refs |-> <<[id |-> s1, source_refs |-> {}]>>,
   observations |-> <<Obs(o1)>>]
BadNews ==
  [op |-> "judge",
   judgments |-> <<[id |-> j1, producer |-> second, candidate |-> c1,
                    requirement_ref |-> r1, observation_refs |-> {o1},
                    outcome |-> "repair", judgment_refs |-> {}]>>]
Close == [op |-> "close"]

MCCommandsOf ==
  [p \in Process |->
     CASE p = lead   -> {Register, Close}
       [] p = second -> {BadNews}
       [] p = child  -> {FirstObservation}]
MCCommands == UNION {MCCommandsOf[p] : p \in Process}
=============================================================================
