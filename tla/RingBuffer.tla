----------------------------- MODULE RingBuffer -----------------------------
(***************************************************************************)
(* src/ringbuffer.cpp: the circular buffer between the serial port and the *)
(* H4 reader.  One slot always stays unused so that equal positions mean   *)
(* empty (__ringbuffer_left subtracts one); the read and write positions   *)
(* wrap by comparison, never by a modulus.                                 *)
(***************************************************************************)
EXTENDS Naturals, Sequences

CONSTANTS
    RINGBUFFER_SIZE,  \* config.h: 1024
    Byte,
    Chunk,            \* the byte strings serialPort_readyRead writes
    ReadLength        \* the lengths it reads

ASSUME SizeAssumption   == RINGBUFFER_SIZE \in Nat \ {0}
ASSUME ByteAssumption   == 0 \in Byte
ASSUME ChunkAssumption  == Chunk \subseteq Seq(Byte)
ASSUME LengthAssumption == ReadLength \subseteq Nat

VARIABLES
    ringbuffer_buf,
    ringbuffer_read_pos,
    ringbuffer_write_pos,
    reply             \* the last call and what it returned: its bool and the bytes it copied out

vars == <<ringbuffer_buf, ringbuffer_read_pos, ringbuffer_write_pos, reply>>

Index == 0 .. (RINGBUFFER_SIZE - 1)

Call == {"reset", "write", "read"}

Done(call)    == [call |-> call, ok |-> TRUE,  data |-> <<>>]
Refused(call) == [call |-> call, ok |-> FALSE, data |-> <<>>]

Init == /\ ringbuffer_buf = [i \in Index |-> 0]
        /\ ringbuffer_read_pos = 0
        /\ ringbuffer_write_pos = 0
        /\ reply = Done("reset")

Used == IF ringbuffer_write_pos >= ringbuffer_read_pos
        THEN ringbuffer_write_pos - ringbuffer_read_pos
        ELSE RINGBUFFER_SIZE + ringbuffer_write_pos - ringbuffer_read_pos

\* Variant: no slot kept unused, so a full buffer has equal positions.
LeftWithoutSlack == RINGBUFFER_SIZE - Used

Left == RINGBUFFER_SIZE - Used - 1

\* memcpy_s(buf + at, n, data + from, n)
Copied(buf, at, data, from, n) ==
    [i \in Index |-> IF at <= i /\ i < at + n THEN data[from + i - at + 1] ELSE buf[i]]

\* Variant: a position left at the end of the array.
AtEndStays(pos) == pos

\* a position that reached the end of the array starts over
AtEnd(pos) == IF pos = RINGBUFFER_SIZE THEN 0 ELSE pos

ringbuffer_reset ==
    /\ ringbuffer_read_pos' = 0
    /\ ringbuffer_write_pos' = 0
    /\ reply' = Done("reset")
    /\ UNCHANGED ringbuffer_buf

WriteRefused(data) ==
    /\ Left < Len(data)
    /\ reply' = Refused("write")
    /\ UNCHANGED <<ringbuffer_buf, ringbuffer_read_pos, ringbuffer_write_pos>>

WriteStraight(data) ==
    LET length == Len(data) IN
    /\ Left >= length
    /\ RINGBUFFER_SIZE - ringbuffer_write_pos >= length
    /\ ringbuffer_buf' = Copied(ringbuffer_buf, ringbuffer_write_pos, data, 0, length)
    /\ ringbuffer_write_pos' = AtEnd(ringbuffer_write_pos + length)
    /\ reply' = Done("write")
    /\ UNCHANGED ringbuffer_read_pos

WriteWrapped(data) ==
    LET length == Len(data)
        left_to_end == RINGBUFFER_SIZE - ringbuffer_write_pos
        head == Copied(ringbuffer_buf, ringbuffer_write_pos, data, 0, left_to_end)
    IN
    /\ Left >= length
    /\ left_to_end < length
    /\ ringbuffer_buf' = Copied(head, 0, data, left_to_end, length - left_to_end)
    /\ ringbuffer_write_pos' = length - left_to_end
    /\ reply' = Done("write")
    /\ UNCHANGED ringbuffer_read_pos

ringbuffer_write(data) == WriteRefused(data) \/ WriteStraight(data) \/ WriteWrapped(data)

ReadRefused(length) ==
    /\ length > Used
    /\ reply' = Refused("read")
    /\ UNCHANGED <<ringbuffer_buf, ringbuffer_read_pos, ringbuffer_write_pos>>

ReadStraight(length) ==
    /\ length <= Used
    /\ RINGBUFFER_SIZE - ringbuffer_read_pos >= length
    /\ reply' = [call |-> "read", ok |-> TRUE,
                 data |-> [k \in 1 .. length |-> ringbuffer_buf[ringbuffer_read_pos + k - 1]]]
    /\ ringbuffer_read_pos' = AtEnd(ringbuffer_read_pos + length)
    /\ UNCHANGED <<ringbuffer_buf, ringbuffer_write_pos>>

ReadWrapped(length) ==
    LET left_to_end == RINGBUFFER_SIZE - ringbuffer_read_pos IN
    /\ length <= Used
    /\ left_to_end < length
    /\ reply' = [call |-> "read", ok |-> TRUE,
                 data |-> [k \in 1 .. length |->
                              IF k <= left_to_end
                              THEN ringbuffer_buf[ringbuffer_read_pos + k - 1]
                              ELSE ringbuffer_buf[k - left_to_end - 1]]]
    /\ ringbuffer_read_pos' = length - left_to_end
    /\ UNCHANGED <<ringbuffer_buf, ringbuffer_write_pos>>

ringbuffer_read(length) == ReadRefused(length) \/ ReadStraight(length) \/ ReadWrapped(length)

Next == \/ ringbuffer_reset
        \/ \E data \in Chunk : ringbuffer_write(data)
        \/ \E length \in ReadLength : ringbuffer_read(length)

Spec == Init /\ [][Next]_vars

-----------------------------------------------------------------------------
\* Both positions always index the array (ringbuffer.cpp:25,31,47,53 bring a position that
\* reached RINGBUFFER_SIZE back inside it), so no memcpy starts outside ringbuffer_buf.
TypeOK == /\ ringbuffer_buf \in [Index -> Byte]
          /\ ringbuffer_read_pos \in Index
          /\ ringbuffer_write_pos \in Index
          /\ reply \in [call : Call, ok : BOOLEAN, data : Seq(Byte)]

\* The FIFO the positions stand for: Used bytes from the read position on, around the end.
Around(pos) == IF pos >= RINGBUFFER_SIZE THEN pos - RINGBUFFER_SIZE ELSE pos

Contents == [k \in 1 .. Used |-> ringbuffer_buf[Around(ringbuffer_read_pos + k - 1)]]

Fifo == INSTANCE ByteFifo WITH contents <- Contents, Capacity <- RINGBUFFER_SIZE - 1

\* Every call of ringbuffer.cpp acts on the stored bytes as the same call of an all-or-nothing
\* FIFO of RINGBUFFER_SIZE - 1 bytes: wrapping loses, repeats or reorders no byte, a refused
\* write or read changes nothing, and a full buffer is never taken for an empty one.
ImplementsByteFifo == Fifo!Spec
=============================================================================
