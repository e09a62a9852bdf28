---------------------------- MODULE MCH4Reader ----------------------------
(***************************************************************************)
(* TLC instance of H4Reader.  An event without data, an event whose data   *)
(* byte reads as an ACL packet type and an ACL packet whose data byte      *)
(* reads as an event packet type; a ring that holds one ACL packet and a   *)
(* byte, so that bursts are refused and packets straddle every boundary.   *)
(***************************************************************************)
EXTENDS H4Reader

MCPacket == {<<4, 1, 0>>, <<4, 1, 1, 2>>, <<2, 1, 0, 1, 0, 4>>}
=============================================================================
