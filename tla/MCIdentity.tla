----------------------------- MODULE MCIdentity -----------------------------
(***************************************************************************)
(* Two Controllers, two texts, two challenges and one reader.               *)
(***************************************************************************)
EXTENDS Identity, TLC

MCSymmetry == Permutations(Text) \cup Permutations(Process)
=============================================================================
