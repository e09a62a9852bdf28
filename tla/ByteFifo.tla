------------------------------ MODULE ByteFifo ------------------------------
(***************************************************************************)
(* What src/ringbuffer.h promises its one client, the H4 reader of         *)
(* src/mainwindow.cpp: a bounded FIFO of bytes whose operations are        *)
(* all-or-nothing.  A chunk that does not fit is refused whole, a read of  *)
(* more bytes than are stored takes none.                                  *)
(***************************************************************************)
EXTENDS Naturals, Sequences

CONSTANTS
    Byte,       \* the values of one byte
    Capacity,   \* how many bytes the FIFO holds at most
    Chunk,      \* the byte strings a client writes
    ReadLength  \* the lengths a client asks to read

VARIABLES
    contents,   \* the stored bytes, oldest first
    reply       \* the last call and what it returned: its bool and the bytes it copied out

fifoVars == <<contents, reply>>

Call == {"reset", "write", "read"}

Done(call)    == [call |-> call, ok |-> TRUE,  data |-> <<>>]
Refused(call) == [call |-> call, ok |-> FALSE, data |-> <<>>]

Room == Capacity - Len(contents)

Init == contents = <<>> /\ reply = Done("reset")

Reset == contents' = <<>> /\ reply' = Done("reset")

Write(chunk) ==
    \/ /\ Len(chunk) > Room
       /\ reply' = Refused("write")
       /\ UNCHANGED contents
    \/ /\ Len(chunk) <= Room
       /\ contents' = contents \o chunk
       /\ reply' = Done("write")

Read(n) ==
    \/ /\ n > Len(contents)
       /\ reply' = Refused("read")
       /\ UNCHANGED contents
    \/ /\ n <= Len(contents)
       /\ reply' = [call |-> "read", ok |-> TRUE, data |-> SubSeq(contents, 1, n)]
       /\ contents' = SubSeq(contents, n + 1, Len(contents))

Next == \/ Reset
        \/ \E chunk \in Chunk : Write(chunk)
        \/ \E n \in ReadLength : Read(n)

Spec == Init /\ [][Next]_fifoVars
=============================================================================
