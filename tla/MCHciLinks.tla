----------------------------- MODULE MCHciLinks -----------------------------
(***************************************************************************)
(* TLC instance of HciLinks: three handles, so that a disconnection finds  *)
(* its node at the head, in the middle and at the end of the list.         *)
(***************************************************************************)
EXTENDS HciLinks, TLC

CONSTANTS h1, h2, h3

MCSymmetry == Permutations(Handle)
=============================================================================
