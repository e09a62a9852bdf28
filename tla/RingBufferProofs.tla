-------------------------- MODULE RingBufferProofs --------------------------
(***************************************************************************)
(* RingBuffer for every size and every set of bytes: the positions stay    *)
(* inside the array, and the circular buffer implements the byte FIFO.     *)
(***************************************************************************)
EXTENDS RingBuffer, TLAPS, SequenceTheorems

USE SizeAssumption

(***************************************************************************)
(* __ringbuffer_used never exceeds the size minus the unused slot, so      *)
(* __ringbuffer_left never goes below zero (its type is uint32_t).         *)
(***************************************************************************)
LEMMA UsedBounds ==
    ASSUME TypeOK
    PROVE  /\ Used \in 0 .. (RINGBUFFER_SIZE - 1)
           /\ Left = RINGBUFFER_SIZE - 1 - Used
           /\ Left \in Nat
BY DEF TypeOK, Used, Left, Index

\* memcpy_s keeps an array of bytes an array of bytes when its source is long enough.
LEMMA CopiedType ==
    ASSUME NEW buf \in [Index -> Byte], NEW at \in Nat, NEW data \in Seq(Byte),
           NEW from \in Nat, NEW n \in Nat, from + n <= Len(data)
    PROVE  Copied(buf, at, data, from, n) \in [Index -> Byte]
BY DEF Copied, Index

\* The positions stay inside the array and the buffer keeps holding bytes.
THEOREM TypeCorrect == Spec => []TypeOK
<1>1. Init => TypeOK
  BY ByteAssumption DEF Init, TypeOK, Index, Done, Call
<1>2. TypeOK /\ [Next]_vars => TypeOK'
  <2> SUFFICES ASSUME TypeOK, [Next]_vars
               PROVE  TypeOK'
    OBVIOUS
  <2>1. CASE ringbuffer_reset
    BY <2>1 DEF ringbuffer_reset, TypeOK, Index, Done, Call
  <2>2. ASSUME NEW data \in Chunk, ringbuffer_write(data)
        PROVE  TypeOK'
    <3>1. data \in Seq(Byte) /\ Len(data) \in Nat
      BY ChunkAssumption
    <3>2. CASE WriteRefused(data)
      BY <3>2 DEF WriteRefused, TypeOK, Refused, Call
    <3>3. CASE WriteStraight(data)
      <4>1. ringbuffer_buf' \in [Index -> Byte]
        <5>1. 0 \in Nat /\ 0 + Len(data) <= Len(data) /\ ringbuffer_write_pos \in Nat
          BY <3>1 DEF TypeOK, Index
        <5>2. ringbuffer_buf' = Copied(ringbuffer_buf, ringbuffer_write_pos, data, 0, Len(data))
          BY <3>3 DEF WriteStraight
        <5> QED
          BY <3>1, <5>1, <5>2, CopiedType DEF TypeOK
      <4>2. ringbuffer_write_pos' \in Index
        BY <3>1, <3>3 DEF WriteStraight, AtEnd, TypeOK, Index
      <4> QED
        BY <3>3, <4>1, <4>2 DEF WriteStraight, TypeOK, Done, Call
    <3>4. CASE WriteWrapped(data)
      <4> DEFINE toEnd == RINGBUFFER_SIZE - ringbuffer_write_pos
                 head  == Copied(ringbuffer_buf, ringbuffer_write_pos, data, 0, toEnd)
      <4>1. toEnd \in Nat /\ toEnd < Len(data) /\ ringbuffer_write_pos \in Nat
        BY <3>1, <3>4 DEF WriteWrapped, TypeOK, Index
      <4>2. head \in [Index -> Byte]
        <5>1. 0 \in Nat /\ 0 + toEnd <= Len(data)
          BY <3>1, <4>1
        <5> QED
          BY <3>1, <4>1, <5>1, CopiedType DEF TypeOK
      <4>3. ringbuffer_buf' = Copied(head, 0, data, toEnd, Len(data) - toEnd)
        BY <3>4 DEF WriteWrapped
      <4>4. ringbuffer_buf' \in [Index -> Byte]
        <5>1. 0 \in Nat /\ Len(data) - toEnd \in Nat /\ toEnd + (Len(data) - toEnd) <= Len(data)
          BY <3>1, <4>1
        <5> HIDE DEF toEnd, head
        <5> QED
          BY <3>1, <4>1, <4>2, <4>3, <5>1, CopiedType
      <4>5. ringbuffer_write_pos' \in Index
        BY <3>1, <3>4, UsedBounds DEF WriteWrapped, TypeOK, Index
      <4> QED
        BY <3>4, <4>4, <4>5 DEF WriteWrapped, TypeOK, Done, Call
    <3> QED
      BY <2>2, <3>2, <3>3, <3>4 DEF ringbuffer_write
  <2>3. ASSUME NEW length \in ReadLength, ringbuffer_read(length)
        PROVE  TypeOK'
    <3>1. length \in Nat
      BY LengthAssumption
    <3>2. CASE ReadRefused(length)
      BY <3>2 DEF ReadRefused, TypeOK, Refused, Call
    <3>3. CASE ReadStraight(length)
      <4>1. ringbuffer_read_pos' \in Index
        BY <3>1, <3>3 DEF ReadStraight, AtEnd, TypeOK, Index
      <4>2. \A k \in 1 .. length : ringbuffer_buf[ringbuffer_read_pos + k - 1] \in Byte
        BY <3>1, <3>3 DEF ReadStraight, TypeOK, Index
      <4>3. reply'.data \in Seq(Byte)
        BY <3>1, <3>3, <4>2 DEF ReadStraight
      <4> QED
        BY <3>3, <4>1, <4>3 DEF ReadStraight, TypeOK, Call
    <3>4. CASE ReadWrapped(length)
      <4> DEFINE toEnd == RINGBUFFER_SIZE - ringbuffer_read_pos
                 byte(k) == IF k <= toEnd THEN ringbuffer_buf[ringbuffer_read_pos + k - 1]
                                          ELSE ringbuffer_buf[k - toEnd - 1]
      <4>1. ringbuffer_read_pos' \in Index
        BY <3>1, <3>4, UsedBounds DEF ReadWrapped, TypeOK, Index
      <4>2. \A k \in 1 .. length : byte(k) \in Byte
        BY <3>1, <3>4, UsedBounds DEF ReadWrapped, TypeOK, Index
      <4>3. reply' = [call |-> "read", ok |-> TRUE, data |-> [k \in 1 .. length |-> byte(k)]]
        BY <3>4 DEF ReadWrapped
      <4> HIDE DEF byte
      <4>4. reply'.data \in Seq(Byte)
        BY <3>1, <4>2, <4>3
      <4> QED
        BY <3>4, <4>1, <4>3, <4>4 DEF ReadWrapped, TypeOK, Call
    <3> QED
      BY <2>3, <3>2, <3>3, <3>4 DEF ringbuffer_read
  <2>4. CASE UNCHANGED vars
    BY <2>4 DEF vars, TypeOK
  <2> QED
    BY <2>1, <2>2, <2>3, <2>4 DEF Next
<1> QED
  BY <1>1, <1>2, PTL DEF Spec

-----------------------------------------------------------------------------
\* The FIFO behind the positions is a sequence of Used bytes.
ContentsAreBytes ==
    /\ Contents \in Seq(Byte)
    /\ Used \in Nat
    /\ Len(Contents) = Used
    /\ \A k \in 1 .. Used : Contents[k] = ringbuffer_buf[Around(ringbuffer_read_pos + k - 1)]

\* A well-typed circular buffer stands for a sequence of bytes.
LEMMA ContentsType == TypeOK => ContentsAreBytes
<1> SUFFICES ASSUME TypeOK PROVE ContentsAreBytes
  OBVIOUS
<1>1. Used \in Nat
  BY UsedBounds
<1>2. \A k \in 1 .. Used : ringbuffer_buf[Around(ringbuffer_read_pos + k - 1)] \in Byte
  BY UsedBounds DEF TypeOK, Around, Index
<1> QED
  BY <1>1, <1>2 DEF Contents, ContentsAreBytes

\* The same of the state after a step.
LEMMA ContentsTypeNext == TypeOK' => ContentsAreBytes'
BY ContentsType, PTL

\* A write whose bytes land right behind the stored ones, around the end of the array and
\* over no stored byte, appends its data to the FIFO.
LEMMA Appended ==
    ASSUME TypeOK, TypeOK', NEW data \in Seq(Byte),
           Used' = Used + Len(data),
           \A k \in 1 .. Used :
               ringbuffer_buf'[Around(ringbuffer_read_pos' + k - 1)]
                 = ringbuffer_buf[Around(ringbuffer_read_pos + k - 1)],
           \A k \in 1 .. Len(data) :
               ringbuffer_buf'[Around(ringbuffer_read_pos' + (Used + k) - 1)] = data[k]
    PROVE  Contents' = Contents \o data
<1> DEFINE before == Contents
           after  == Contents'
<1>1. /\ before \in Seq(Byte) /\ after \in Seq(Byte)
      /\ Len(before) = Used /\ Len(after) = Used + Len(data)
      /\ Used \in Nat /\ Len(data) \in Nat
  BY ContentsType, ContentsTypeNext DEF ContentsAreBytes
<1>2. ASSUME NEW k \in 1 .. Used
      PROVE  after[k] = before[k]
  <2>1. k \in 1 .. Used'
    BY <1>1
  <2>2. /\ before[k] = ringbuffer_buf[Around(ringbuffer_read_pos + k - 1)]
        /\ after[k] = ringbuffer_buf'[Around(ringbuffer_read_pos' + k - 1)]
    BY <2>1, ContentsType, ContentsTypeNext DEF ContentsAreBytes
  <2> QED
    BY <2>2
<1>3. ASSUME NEW k \in 1 .. Len(data)
      PROVE  after[Used + k] = data[k]
  <2>1. Used + k \in 1 .. Used'
    BY <1>1
  <2>2. after[Used + k] = ringbuffer_buf'[Around(ringbuffer_read_pos' + (Used + k) - 1)]
    BY <2>1, ContentsTypeNext DEF ContentsAreBytes
  <2> QED
    BY <2>2
<1> HIDE DEF before, after
<1>4. before \o data \in Seq(Byte) /\ Len(before \o data) = Len(before) + Len(data)
  BY <1>1
<1>5. ASSUME NEW k \in 1 .. Len(after)
      PROVE  after[k] = (before \o data)[k]
  <2>1. CASE k <= Used
    BY <1>1, <1>2, <2>1
  <2>2. CASE k > Used
    <3>1. k - Used \in 1 .. Len(data) /\ k = Used + (k - Used)
      BY <1>1, <2>2
    <3>2. after[k] = data[k - Used]
      BY <1>3, <3>1
    <3> QED
      BY <1>1, <2>2, <3>2
  <2> QED
    BY <1>1, <2>1, <2>2
<1>6. after = before \o data
  BY <1>1, <1>4, <1>5, SeqEqual
<1> QED
  BY <1>6 DEF before, after

\* A read that only moves the read position on by n bytes leaves the FIFO without its first n.
LEMMA Taken ==
    ASSUME TypeOK, TypeOK', NEW n \in 0 .. Used,
           Used' = Used - n,
           \A k \in 1 .. Used' :
               ringbuffer_buf'[Around(ringbuffer_read_pos' + k - 1)]
                 = ringbuffer_buf[Around(ringbuffer_read_pos + (n + k) - 1)]
    PROVE  Contents' = SubSeq(Contents, n + 1, Len(Contents))
<1> DEFINE before == Contents
           after  == Contents'
<1>1. /\ before \in Seq(Byte) /\ after \in Seq(Byte)
      /\ Used \in Nat /\ Len(before) = Used /\ Len(after) = Used - n
  BY ContentsType, ContentsTypeNext DEF ContentsAreBytes
<1>2. ASSUME NEW k \in 1 .. Used - n
      PROVE  after[k] = before[n + k]
  <2>1. k \in 1 .. Used' /\ n + k \in 1 .. Used
    BY <1>1
  <2>2. /\ after[k] = ringbuffer_buf'[Around(ringbuffer_read_pos' + k - 1)]
        /\ before[n + k] = ringbuffer_buf[Around(ringbuffer_read_pos + (n + k) - 1)]
    BY <2>1, ContentsType, ContentsTypeNext DEF ContentsAreBytes
  <2> QED
    BY <2>1, <2>2
<1> DEFINE rest == SubSeq(before, n + 1, Used)
<1> HIDE DEF before, after
<1>3. /\ rest \in Seq(Byte)
      /\ Len(rest) = Used - n
      /\ \A k \in 1 .. Used - n : rest[k] = before[n + k]
  BY <1>1, SubSeqProperties
<1> HIDE DEF rest
<1>4. after = rest
  BY <1>1, <1>2, <1>3, SeqEqual
<1> QED
  BY <1>1, <1>4 DEF before, after, rest

\* What such a read returns: the first n bytes of the FIFO.
LEMMA Returned ==
    ASSUME TypeOK, NEW n \in 0 .. Used, NEW data \in Seq(Byte), Len(data) = n,
           \A k \in 1 .. n : data[k] = ringbuffer_buf[Around(ringbuffer_read_pos + k - 1)]
    PROVE  data = SubSeq(Contents, 1, n)
<1> DEFINE all   == Contents
           front == SubSeq(all, 1, n)
<1>1. all \in Seq(Byte) /\ Len(all) = Used /\ Used \in Nat
  BY ContentsType DEF ContentsAreBytes
<1>2. ASSUME NEW k \in 1 .. n
      PROVE  data[k] = all[k]
  BY <1>1, ContentsType DEF ContentsAreBytes
<1> HIDE DEF all
<1>3. front \in Seq(Byte) /\ Len(front) = n /\ \A k \in 1 .. n : front[k] = all[k]
  BY <1>1, SubSeqProperties
<1> HIDE DEF front
<1>4. data = front
  BY <1>2, <1>3, SeqEqual
<1> QED
  BY <1>4 DEF front, all

-----------------------------------------------------------------------------
\* ringbuffer_write(data) is the FIFO's Write(data): straight up to the end of the array or
\* wrapped around it, the bytes land behind the stored ones.
LEMMA WriteRefines ==
    ASSUME TypeOK, TypeOK', NEW data \in Seq(Byte), ringbuffer_write(data)
    PROVE  Fifo!Write(data)
<1>1. /\ Contents \in Seq(Byte) /\ Len(Contents) = Used /\ Used \in Nat
      /\ Len(data) \in Nat
      /\ Left = RINGBUFFER_SIZE - 1 - Used
  BY ContentsType, UsedBounds DEF ContentsAreBytes
<1>2. Fifo!Room = Left
  BY <1>1 DEF Fifo!Room
<1>3. CASE WriteRefused(data)
  <2>1. Contents' = Contents
    BY <1>3 DEF WriteRefused, Contents, Used
  <2> QED
    BY <1>1, <1>2, <1>3, <2>1 DEF WriteRefused, Fifo!Write, Fifo!Refused, Refused
<1>4. CASE WriteStraight(data)
  <2>1. Used' = Used + Len(data)
    <3>1. CASE ringbuffer_write_pos + Len(data) = RINGBUFFER_SIZE
      <4>1. /\ 0 < ringbuffer_read_pos /\ ringbuffer_read_pos <= ringbuffer_write_pos
            /\ ringbuffer_read_pos \in Nat /\ ringbuffer_write_pos \in Nat
        BY <1>1, <1>4, <3>1 DEF WriteStraight, Used, Left, TypeOK, Index
      <4>2. ringbuffer_write_pos' = 0 /\ ringbuffer_read_pos' = ringbuffer_read_pos
        BY <1>4, <3>1 DEF WriteStraight, AtEnd
      <4> QED
        BY <1>1, <3>1, <4>1, <4>2 DEF Used
    <3>2. CASE ringbuffer_write_pos + Len(data) # RINGBUFFER_SIZE
      BY <1>1, <1>4, <3>2 DEF WriteStraight, AtEnd, Used, Left, TypeOK, Index
    <3> QED
      BY <3>1, <3>2
  <2>2. ringbuffer_buf' = [i \in Index |->
           IF ringbuffer_write_pos <= i /\ i < ringbuffer_write_pos + Len(data)
           THEN data[i - ringbuffer_write_pos + 1] ELSE ringbuffer_buf[i]]
    BY <1>1, <1>4 DEF WriteStraight, Copied, TypeOK, Index
  <2>3. ASSUME NEW k \in 1 .. Used
        PROVE  ringbuffer_buf'[Around(ringbuffer_read_pos' + k - 1)]
                 = ringbuffer_buf[Around(ringbuffer_read_pos + k - 1)]
    BY <1>1, <1>4, <2>2 DEF WriteStraight, Around, Used, Left, TypeOK, Index
  <2>4. ASSUME NEW k \in 1 .. Len(data)
        PROVE  ringbuffer_buf'[Around(ringbuffer_read_pos' + (Used + k) - 1)] = data[k]
    <3>1. /\ ringbuffer_read_pos \in Nat /\ ringbuffer_write_pos \in Nat /\ RINGBUFFER_SIZE \in Nat
          /\ Len(data) \in Nat /\ ringbuffer_write_pos + Len(data) <= RINGBUFFER_SIZE
          /\ ringbuffer_read_pos' = ringbuffer_read_pos
      BY <1>1, <1>4 DEF WriteStraight, TypeOK, Index
    <3>2. Around(ringbuffer_read_pos' + (Used + k) - 1) = ringbuffer_write_pos + k - 1
      BY <3>1 DEF Around, Used
    <3> QED
      BY <2>2, <3>1, <3>2 DEF Index
  <2>5. Contents' = Contents \o data
    BY <2>1, <2>3, <2>4, Appended
  <2> QED
    BY <1>1, <1>2, <1>4, <2>5 DEF WriteStraight, Fifo!Write, Fifo!Done, Done
<1>5. CASE WriteWrapped(data)
  <2> DEFINE toEnd == RINGBUFFER_SIZE - ringbuffer_write_pos
  <2>0. /\ ringbuffer_read_pos \in Nat /\ ringbuffer_write_pos \in Nat /\ RINGBUFFER_SIZE \in Nat
        /\ Len(data) \in Nat /\ toEnd \in 1 .. Len(data)
        /\ ringbuffer_read_pos <= ringbuffer_write_pos
        /\ ringbuffer_write_pos < RINGBUFFER_SIZE
        /\ Len(data) - toEnd < ringbuffer_read_pos
        /\ Used = ringbuffer_write_pos - ringbuffer_read_pos
        /\ ringbuffer_read_pos' = ringbuffer_read_pos
        /\ ringbuffer_write_pos' = Len(data) - toEnd
    <3>1. /\ ringbuffer_read_pos \in Nat /\ ringbuffer_write_pos \in Nat /\ RINGBUFFER_SIZE \in Nat
          /\ ringbuffer_read_pos < RINGBUFFER_SIZE /\ ringbuffer_write_pos < RINGBUFFER_SIZE
          /\ Len(data) \in Nat /\ toEnd < Len(data)
      BY <1>1, <1>5 DEF WriteWrapped, TypeOK, Index
    <3>2. Len(data) <= RINGBUFFER_SIZE - Used - 1
      BY <1>1, <1>5, <3>1 DEF WriteWrapped, Left
    <3>3. ringbuffer_read_pos <= ringbuffer_write_pos
      BY <3>1, <3>2 DEF Used
    <3>4. ringbuffer_read_pos' = ringbuffer_read_pos /\ ringbuffer_write_pos' = Len(data) - toEnd
      BY <1>5 DEF WriteWrapped
    <3> QED
      BY <3>1, <3>2, <3>3, <3>4 DEF Used
  <2>1. Used' = Used + Len(data)
    <3>1. Used' = RINGBUFFER_SIZE + (Len(data) - toEnd) - ringbuffer_read_pos
      BY <2>0 DEF Used
    <3> QED
      BY <2>0, <3>1
  <2>2. ringbuffer_buf' = [i \in Index |->
           IF ringbuffer_write_pos <= i THEN data[i - ringbuffer_write_pos + 1]
           ELSE IF i < Len(data) - toEnd THEN data[toEnd + i + 1]
           ELSE ringbuffer_buf[i]]
    <3>1. ringbuffer_buf' = Copied(Copied(ringbuffer_buf, ringbuffer_write_pos, data, 0, toEnd),
                                   0, data, toEnd, Len(data) - toEnd)
      BY <1>5 DEF WriteWrapped
    <3> QED
      BY <2>0, <3>1 DEF Copied, Index
  <2>3. ASSUME NEW k \in 1 .. Used
        PROVE  ringbuffer_buf'[Around(ringbuffer_read_pos' + k - 1)]
                 = ringbuffer_buf[Around(ringbuffer_read_pos + k - 1)]
    <3>1. /\ ringbuffer_read_pos + k - 1 \in ringbuffer_read_pos .. (ringbuffer_write_pos - 1)
          /\ Around(ringbuffer_read_pos + k - 1) = ringbuffer_read_pos + k - 1
          /\ Around(ringbuffer_read_pos' + k - 1) = ringbuffer_read_pos + k - 1
      BY <2>0 DEF Around
    <3> QED
      BY <2>0, <2>2, <3>1 DEF Index
  <2>4. ASSUME NEW k \in 1 .. Len(data)
        PROVE  ringbuffer_buf'[Around(ringbuffer_read_pos' + (Used + k) - 1)] = data[k]
    <3> DEFINE at == Around(ringbuffer_read_pos' + (Used + k) - 1)
    <3>1. at = IF k <= toEnd THEN ringbuffer_write_pos + k - 1 ELSE k - toEnd - 1
      BY <2>0 DEF Around
    <3> HIDE DEF at
    <3>2. ASSUME k <= toEnd PROVE ringbuffer_buf'[at] = data[k]
      <4>1. at = ringbuffer_write_pos + k - 1 /\ at \in Index /\ ringbuffer_write_pos <= at
        BY <2>0, <3>1, <3>2 DEF Index
      <4> QED
        BY <2>0, <2>2, <4>1
    <3>3. ASSUME k > toEnd PROVE ringbuffer_buf'[at] = data[k]
      <4>1. /\ at = k - toEnd - 1 /\ at \in Index /\ at < ringbuffer_write_pos
            /\ at < Len(data) - toEnd
        BY <2>0, <3>1, <3>3 DEF Index
      <4> QED
        BY <2>0, <2>2, <4>1
    <3>4. ringbuffer_buf'[at] = data[k]
      BY <2>0, <3>2, <3>3
    <3> QED
      BY <3>4 DEF at
  <2>5. Contents' = Contents \o data
    BY <2>1, <2>3, <2>4, Appended
  <2> QED
    BY <1>1, <1>2, <1>5, <2>5 DEF WriteWrapped, Fifo!Write, Fifo!Done, Done
<1> QED
  BY <1>3, <1>4, <1>5 DEF ringbuffer_write

\* ringbuffer_read(length) is the FIFO's Read(length).
LEMMA ReadRefines ==
    ASSUME TypeOK, TypeOK', NEW length \in Nat, ringbuffer_read(length)
    PROVE  Fifo!Read(length)
<1>1. Contents \in Seq(Byte) /\ Len(Contents) = Used /\ Used \in Nat
  BY ContentsType DEF ContentsAreBytes
<1>2. CASE ReadRefused(length)
  <2>1. Contents' = Contents
    BY <1>2 DEF ReadRefused, Contents, Used
  <2> QED
    BY <1>1, <1>2, <2>1 DEF ReadRefused, Fifo!Read, Fifo!Refused, Refused
<1>3. ASSUME length \in 0 .. Used,
             reply'.ok = TRUE, reply' = [call |-> "read", ok |-> TRUE, data |-> reply'.data],
             reply'.data \in Seq(Byte), Len(reply'.data) = length,
             \A k \in 1 .. length :
                 reply'.data[k] = ringbuffer_buf[Around(ringbuffer_read_pos + k - 1)],
             ringbuffer_buf' = ringbuffer_buf,
             Used' = Used - length,
             \A k \in 1 .. Used' :
                 Around(ringbuffer_read_pos' + k - 1) = Around(ringbuffer_read_pos + (length + k) - 1)
      PROVE  Fifo!Read(length)
  <2>1. reply'.data = SubSeq(Contents, 1, length)
    BY <1>3, Returned
  <2>2. Contents' = SubSeq(Contents, length + 1, Len(Contents))
    BY <1>3, Taken
  <2> QED
    BY <1>1, <1>3, <2>1, <2>2 DEF Fifo!Read
<1>4. CASE ReadStraight(length)
  <2>1. length \in 0 .. Used /\ ringbuffer_buf' = ringbuffer_buf /\ Used' = Used - length
    BY <1>1, <1>4 DEF ReadStraight, AtEnd, Used, TypeOK, Index
  <2>0. /\ ringbuffer_read_pos \in Nat /\ RINGBUFFER_SIZE \in Nat /\ length \in Nat /\ Used \in Nat
        /\ ringbuffer_read_pos + length <= RINGBUFFER_SIZE
        /\ Used < RINGBUFFER_SIZE
        /\ ringbuffer_read_pos' = AtEnd(ringbuffer_read_pos + length)
    BY <1>1, <1>4, UsedBounds DEF ReadStraight, TypeOK, Index
  <2>2. \A k \in 1 .. Used' :
           Around(ringbuffer_read_pos' + k - 1) = Around(ringbuffer_read_pos + (length + k) - 1)
    <3>1. CASE ringbuffer_read_pos + length = RINGBUFFER_SIZE
      <4>1. ringbuffer_read_pos' = 0
        BY <2>0, <3>1 DEF AtEnd
      <4> QED
        BY <2>0, <2>1, <3>1, <4>1 DEF Around
    <3>2. CASE ringbuffer_read_pos + length # RINGBUFFER_SIZE
      <4>1. ringbuffer_read_pos' = ringbuffer_read_pos + length
        BY <2>0, <3>2 DEF AtEnd
      <4>2. ASSUME NEW k \in 1 .. Used'
            PROVE  ringbuffer_read_pos' + k - 1 = ringbuffer_read_pos + (length + k) - 1
        BY <2>0, <2>1, <4>1
      <4> QED
        BY <4>2
    <3> QED
      BY <3>1, <3>2
  <2>3. \A k \in 1 .. length :
           reply'.data[k] = ringbuffer_buf[Around(ringbuffer_read_pos + k - 1)]
    BY <1>1, <1>4 DEF ReadStraight, Around, Used, TypeOK, Index
  <2>4. reply'.data \in Seq(Byte) /\ Len(reply'.data) = length
    BY <1>4 DEF ReadStraight, TypeOK
  <2> QED
    BY <1>3, <1>4, <2>1, <2>2, <2>3, <2>4 DEF ReadStraight
<1>5. CASE ReadWrapped(length)
  <2>1. length \in 0 .. Used /\ ringbuffer_buf' = ringbuffer_buf /\ Used' = Used - length
    BY <1>1, <1>5 DEF ReadWrapped, Used, TypeOK, Index
  <2> DEFINE toEnd == RINGBUFFER_SIZE - ringbuffer_read_pos
  <2>0. /\ ringbuffer_read_pos \in Nat /\ ringbuffer_write_pos \in Nat /\ RINGBUFFER_SIZE \in Nat
        /\ toEnd \in 1 .. length
        /\ ringbuffer_read_pos' = length - toEnd
        /\ Used <= toEnd + ringbuffer_write_pos
        /\ ringbuffer_write_pos < ringbuffer_read_pos
    BY <1>1, <1>5 DEF ReadWrapped, Used, TypeOK, Index
  <2>2. \A k \in 1 .. Used' :
           Around(ringbuffer_read_pos' + k - 1) = Around(ringbuffer_read_pos + (length + k) - 1)
    <3>1. ASSUME NEW k \in 1 .. Used'
          PROVE  /\ ringbuffer_read_pos' + k - 1 < RINGBUFFER_SIZE
                 /\ ringbuffer_read_pos' + k - 1 \in Nat
                 /\ ringbuffer_read_pos + (length + k) - 1 \in Nat
                 /\ ringbuffer_read_pos + (length + k) - 1 >= RINGBUFFER_SIZE
                 /\ ringbuffer_read_pos + (length + k) - 1 - RINGBUFFER_SIZE
                      = ringbuffer_read_pos' + k - 1
      BY <1>1, <2>0, <2>1
    <3>2. ASSUME NEW k \in 1 .. Used'
          PROVE  Around(ringbuffer_read_pos' + k - 1) = Around(ringbuffer_read_pos + (length + k) - 1)
      BY <2>0, <3>1 DEF Around
    <3> QED
      BY <3>2
  <2>3. \A k \in 1 .. length :
           reply'.data[k] = ringbuffer_buf[Around(ringbuffer_read_pos + k - 1)]
    <3>1. ASSUME NEW k \in 1 .. length
          PROVE  Around(ringbuffer_read_pos + k - 1)
                   = IF k <= toEnd THEN ringbuffer_read_pos + k - 1 ELSE k - toEnd - 1
      BY <2>0 DEF Around
    <3>2. ASSUME NEW k \in 1 .. length
          PROVE  reply'.data[k] = IF k <= toEnd THEN ringbuffer_buf[ringbuffer_read_pos + k - 1]
                                                ELSE ringbuffer_buf[k - toEnd - 1]
      BY <1>5 DEF ReadWrapped
    <3> QED
      BY <3>1, <3>2, <2>0
  <2>4. reply'.data \in Seq(Byte) /\ Len(reply'.data) = length
    BY <1>5 DEF ReadWrapped, TypeOK
  <2> QED
    BY <1>3, <1>5, <2>1, <2>2, <2>3, <2>4 DEF ReadWrapped
<1> QED
  BY <1>2, <1>4, <1>5 DEF ringbuffer_read

\* The circular buffer implements the all-or-nothing byte FIFO of RINGBUFFER_SIZE - 1 bytes,
\* whatever the size, the bytes, the chunks and the lengths read.
THEOREM RefinesByteFifo == Spec => ImplementsByteFifo
<1>1. Init => Fifo!Init
  BY DEF Init, Fifo!Init, Contents, Used, Done, Fifo!Done
<1>2. TypeOK /\ TypeOK' /\ [Next]_vars => [Fifo!Next]_(Fifo!fifoVars)
  <2> SUFFICES ASSUME TypeOK, TypeOK', [Next]_vars
               PROVE  [Fifo!Next]_(Fifo!fifoVars)
    OBVIOUS
  <2>1. CASE ringbuffer_reset
    BY <2>1 DEF ringbuffer_reset, Fifo!Next, Fifo!Reset, Contents, Used, Done, Fifo!Done
  <2>2. ASSUME NEW data \in Chunk, ringbuffer_write(data)
        PROVE  Fifo!Next
    BY <2>2, ChunkAssumption, WriteRefines DEF Fifo!Next
  <2>3. ASSUME NEW length \in ReadLength, ringbuffer_read(length)
        PROVE  Fifo!Next
    BY <2>3, LengthAssumption, ReadRefines DEF Fifo!Next
  <2>4. CASE UNCHANGED vars
    BY <2>4 DEF vars, Fifo!fifoVars, Contents, Used
  <2> QED
    BY <2>1, <2>2, <2>3, <2>4 DEF Next
<1> QED
  BY <1>1, <1>2, TypeCorrect, PTL DEF Spec, Fifo!Spec, ImplementsByteFifo
=============================================================================
