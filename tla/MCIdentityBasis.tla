-------------------------- MODULE MCIdentityBasis --------------------------
(***************************************************************************)
(* Two sessions in two worktrees.                                          *)
(***************************************************************************)
EXTENDS IdentityBasis, TLC

CONSTANTS p1, p2, w1, w2

MCOf == p1 :> w1 @@ p2 :> w2
=============================================================================
