--------------------------- MODULE MCHciCommands ---------------------------
(***************************************************************************)
(* TLC instance of HciCommands: two kinds of request, the second answered  *)
(* through a key computation like the chain's own.                         *)
(***************************************************************************)
EXTENDS HciCommands

MCRequests == {"LtkReq", "PublicKey"}
=============================================================================
