---------------------------- MODULE MCRelations ----------------------------
(***************************************************************************)
(* Two Controllers, two edges and room for a third relation only.          *)
(***************************************************************************)
EXTENDS Relations, TLC

MCSymmetry == Permutations(Edge) \cup Permutations(Id) \cup Permutations(Process)
=============================================================================
