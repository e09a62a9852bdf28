---------------------------- MODULE MCRingBuffer ----------------------------
(***************************************************************************)
(* TLC instance of RingBuffer.  Chunks reach MaxChunk = RINGBUFFER_SIZE, so*)
(* the exactly full buffer, the chunk that fills it and the one that can   *)
(* never fit all occur at every read and write position.                   *)
(***************************************************************************)
EXTENDS RingBuffer

CONSTANT MaxChunk

MCByte == {0, 1}
MCChunk == UNION {[1 .. n -> MCByte] : n \in 0 .. MaxChunk}
MCReadLength == 0 .. RINGBUFFER_SIZE
=============================================================================
