----------------------------- MODULE MCHciAclTx -----------------------------
(***************************************************************************)
(* TLC instance of HciAclTx: two links over two buffers, PDUs of one, of  *)
(* two (the last one shorter) and of three packets, more than there are    *)
(* credits for, so that PDUs are sent whole and cut off, also the first    *)
(* one of a link, and links are lost with packets on the way.  The low     *)
(* octet of one handle is zero, that of the other is not: taken for a      *)
(* number it loses credits or makes them up.                               *)
(***************************************************************************)
EXTENDS HciAclTx
=============================================================================
