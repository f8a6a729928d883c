------------------------------ MODULE Evidence ------------------------------
(***************************************************************************)
(* Open evidence of a ledger: what _continuity_open derives from the       *)
(* observations and the judgments each time a Controller is answered.      *)
(* Nothing of it is stored.                                                *)
(***************************************************************************)
EXTENDS Ledger

Bad(j) == j.outcome \in {"repair", "unknown"}

\* Mutant: an observation judged for one requirement is done with.
IncorporatedAnywhere(s, r, o) ==
  \E i \in DOMAIN s.judgments : o \in s.judgments[i].observation_refs

\* A judgment cites an observation for one requirement; the same observation
\* stays pending for every other requirement it speaks about.
Incorporated(s, r, o) ==
  \E i \in DOMAIN s.judgments :
    /\ s.judgments[i].requirement_ref = r
    /\ o \in s.judgments[i].observation_refs

Cited(s, o) ==
  \E i \in DOMAIN s.judgments : o \in s.judgments[i].observation_refs

\* The requirements an observation is to be judged for; one of a
\* requirementless handoff is to be cited by any judgment at all.
Edges(o) ==
  {<<r, o.id>> : r \in IF o.requirement_refs = {} THEN {None}
                       ELSE o.requirement_refs}

Answered(s, e) ==
  IF e[1] = None THEN Cited(s, e[2]) ELSE Incorporated(s, e[1], e[2])

\* The unincorporated edges.
Pending(s) ==
  {e \in UNION {Edges(s.observations[i]) : i \in DOMAIN s.observations} :
     ~Answered(s, e)}

\* A later judgment addresses an earlier one by naming it ...
Named(s, i) ==
  \E k \in DOMAIN s.judgments : s.judgments[i].id \in s.judgments[k].judgment_refs

\* ... or by reciting its whole observation basis for the same requirement.
Recited(s, i) ==
  \E k \in DOMAIN s.judgments :
    /\ k > i
    /\ s.judgments[k].requirement_ref = s.judgments[i].requirement_ref
    /\ s.judgments[i].observation_refs \subseteq s.judgments[k].observation_refs

\* Mutant: only the latest judgment of a requirement counts.
UnresolvedLatest(s) ==
  {i \in DOMAIN s.judgments :
     /\ Bad(s.judgments[i])
     /\ ~ \E k \in DOMAIN s.judgments :
          /\ k > i
          /\ s.judgments[k].requirement_ref = s.judgments[i].requirement_ref}

Unresolved(s) ==
  {i \in DOMAIN s.judgments :
     Bad(s.judgments[i]) /\ ~Named(s, i) /\ ~Recited(s, i)}
=============================================================================
