------------------------------- MODULE MCCmac -------------------------------
(* A small instance of Cmac: blocks of three bytes of two bits, a field of  *)
(* 64 elements with X^6 = X + 1.                                            *)
EXTENDS Cmac

\* keys whose subkeys carry between bytes, out of the field, twice, or not at all
MCKeys == {<<0, 1, 2>>, <<1, 2, 3>>, <<2, 0, 1>>, <<3, 3, 3>>, <<0, 0, 0>>}
\* zero and the padding
MCData == {0, 2}
=============================================================================
