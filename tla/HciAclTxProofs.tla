--------------------------- MODULE HciAclTxProofs ---------------------------
(***************************************************************************)
(* HciAclTx for every set of links, every packet length and any number of  *)
(* buffers up to 255: as long as each event reports packets of one link,   *)
(* the credits are accounted for at every moment, so no packet is sent     *)
(* that the controller has no buffer for, and what a peer puts together    *)
(* are the PDUs that were sent whole.                                      *)
(***************************************************************************)
EXTENDS HciAclTx, TLAPS, FiniteSetTheorems, SequenceTheorems

USE LengthAssumption, PacketLengthAssumption, TotalAssumption

\* RemoveAt shortens a sequence by one element.
LEMMA RemoveAtType ==
    ASSUME NEW S, NEW s \in Seq(S), NEW i \in DOMAIN s
    PROVE  RemoveAt(s, i) \in Seq(S) /\ Len(RemoveAt(s, i)) = Len(s) - 1
<1> DEFINE front == SubSeq(s, 1, i - 1)
           back  == SubSeq(s, i + 1, Len(s))
<1>1. i \in 1 .. Len(s) /\ Len(s) \in Nat
  OBVIOUS
<1>2. front \in Seq(S) /\ Len(front) = i - 1
  BY <1>1, SubSeqProperties
<1>3. back \in Seq(S) /\ Len(back) = Len(s) - i
  BY <1>1, SubSeqProperties
<1>4. RemoveAt(s, i) = front \o back
  BY DEF RemoveAt
<1> HIDE DEF front, back
<1> QED
  BY <1>1, <1>2, <1>3, <1>4, ConcatProperties

\* Rounding up: the least number of full packets that holds the PDU.
LEMMA PiecesBounds ==
    ASSUME NEW length \in Nat \ {0}, NEW size \in Nat \ {0}
    PROVE  LET n == (length + size - 1) \div size IN
           /\ n \in Nat \ {0}
           /\ (n - 1) * size < length
           /\ length <= n * size
<1> DEFINE n == (length + size - 1) \div size
<1>1. n \in Int
  OBVIOUS
<1>2. n * size <= length + size - 1 /\ length + size - 1 < n * size + size
  OBVIOUS
<1> HIDE DEF n
<1>3. n > 0
  BY <1>1, <1>2
<1>4. (n - 1) * size = n * size - size
  BY <1>1
<1>5. n * size \in Int
  BY <1>1
<1>6. n \in Nat \ {0} /\ (n - 1) * size < length /\ length <= n * size
  BY <1>1, <1>2, <1>3, <1>4, <1>5
<1> QED
  BY <1>6 DEF n

\* The types of the host and the controller, and those of the peers.
HostTypes ==
    /\ le_acl_packet_length \in {0, PacketLength}
    /\ num_of_allowed_le_acl_packets \in 0 .. 255
    /\ linked \subseteq Handle /\ alive \subseteq Handle
    /\ wire \in Seq(Packet) /\ held \in Seq(Packet)
    /\ done \in Seq(Handle) /\ reported \in Seq(Handle)
    /\ pdus \in Nat /\ links \in Nat /\ leaked \in Nat /\ misread \in BOOLEAN
    /\ whole \in [Handle -> Seq(Nat)]

Pdu == [parts : SUBSET Part, got : Nat, total : Nat]
PeerTypes == /\ partial \in [Handle -> Pdu]
             /\ received \in [Handle -> Seq(SUBSET Part)]

\* The pieces hci_send_acl cuts are packets of at least one byte, none longer than the
\* controller's buffers.
LEMMA PieceType ==
    ASSUME HostTypes, le_acl_packet_length # 0,
           NEW h \in Handle, NEW length \in Length, NEW k \in 1 .. Pieces(length)
    PROVE  /\ Piece(h, length, k) \in Packet
           /\ Piece(h, length, k).length \in 1 .. le_acl_packet_length
<1> DEFINE size == le_acl_packet_length
           n    == Pieces(length)
<1>1. length \in Nat \ {0} /\ size \in Nat \ {0} /\ pdus \in Nat
  BY DEF HostTypes
<1>2. n \in Nat \ {0} /\ (n - 1) * size < length
  BY <1>1, PiecesBounds DEF Pieces
<1>3. k \in Nat /\ 1 <= k /\ k <= n
  BY <1>2
<1> HIDE DEF n
<1>4. (k - 1) * size <= (n - 1) * size
  BY <1>1, <1>2, <1>3
<1>5. k * size \in Nat /\ (k - 1) * size \in Nat /\ k * size = (k - 1) * size + size
  BY <1>1, <1>3
<1>6. (n - 1) * size \in Nat
  BY <1>1, <1>2
<1>7. (IF k * size < length THEN size ELSE length - (k - 1) * size) \in 1 .. size
  BY <1>1, <1>2, <1>4, <1>5, <1>6
<1>8. Piece(h, length, k).length \in 1 .. size
  BY <1>7 DEF Piece
<1>9. Piece(h, length, k).length \in Nat
  BY <1>1, <1>8
<1> QED
  BY <1>1, <1>8, <1>9 DEF Piece, Packet

-----------------------------------------------------------------------------
\* The links of an event are finitely many.
LEMMA ReportedFinite ==
    ASSUME HostTypes, NEW n \in 1 .. Len(reported)
    PROVE  IsFiniteSet({reported[k] : k \in 1 .. n})
<1> DEFINE S == {reported[k] : k \in 1 .. n}
           f == [k \in 1 .. n |-> reported[k]]
<1>1. IsFiniteSet(1 .. n)
  <2>1. n \in Int
    BY DEF HostTypes
  <2> QED
    BY <2>1, FS_Interval
<1>2. f \in [1 .. n -> S] /\ \A s \in S : \E k \in 1 .. n : f[k] = s
  OBVIOUS
<1> HIDE DEF f, S
<1>3. f \in Surjection(1 .. n, S)
  BY <1>2 DEF Surjection
<1>4. IsFiniteSet(S)
  BY <1>1, <1>3, FS_Surjection DEF ExistsSurjection
<1> QED
  BY <1>4 DEF S

\* A remainder by 256 is an octet.
LEMMA Octet == \A m \in Nat : m % 256 \in 0 .. 255
OBVIOUS

\* An event about packets of one link has their number where the host looks for it.
LEMMA OneLinkReported ==
    ASSUME HostTypes, NEW n \in 1 .. Len(reported), n <= 255,
           NEW handles \in SetToSeqs({reported[k] : k \in 1 .. n}), ~(Len(handles) > 1)
    PROVE  CompletedPackets(CompletedEvent(n, handles)) = n
<1> DEFINE S == {reported[k] : k \in 1 .. n}
           e == CompletedEvent(n, handles)
<1>1. n \in Nat /\ 1 <= n /\ n <= 255 /\ 1 .. n \subseteq DOMAIN reported
  BY DEF HostTypes
<1>2. IsFiniteSet(S) /\ Cardinality(S) \in Nat
  <2>1. IsFiniteSet(S)
    BY ReportedFinite
  <2> QED
    BY <2>1, FS_CardinalityType
<1>3. handles \in [1 .. Cardinality(S) -> S]
  BY DEF SetToSeqs
<1>4. reported[1] \in S
  BY <1>1
<1> HIDE DEF S
<1>5. Cardinality(S) # 0
  BY <1>2, <1>4, FS_EmptySet
<1>6. handles \in Seq(S) /\ Len(handles) = Cardinality(S)
  BY <1>2, <1>3
<1>7. Cardinality(S) = 1 /\ Len(handles) = 1
  BY <1>2, <1>5, <1>6
<1>8. handles[1] \in S /\ \A h \in S : h = handles[1]
  <2>1. handles[1] \in S
    BY <1>3, <1>7
  <2>2. PICK x : S = {x}
    BY <1>2, <1>7, FS_Singleton
  <2> QED
    BY <2>1, <2>2
<1>9. {k \in 1 .. n : reported[k] = handles[1]} = 1 .. n
  BY <1>8 DEF S
<1>10. Cardinality(1 .. n) = n
  BY <1>1, FS_Interval
<1>11. e = [i \in 1 .. 1 |-> [handle |-> handles[i],
                             number |-> Cardinality({k \in 1 .. n : reported[k] = handles[i]})]]
  BY <1>7 DEF CompletedEvent
<1>12. Len(e) = 1 /\ e[1].number = n
  <2>1. Len(e) = 1
    BY <1>11
  <2>2. e[1] = [handle |-> handles[1],
                number |-> Cardinality({k \in 1 .. n : reported[k] = handles[1]})]
    BY <1>11
  <2>3. e[1] = [handle |-> handles[1], number |-> n]
    BY <1>9, <1>10, <2>2
  <2> QED
    BY <2>1, <2>3
<1> HIDE DEF e
<1>13. OctetRead(e, 0) = n % 256
  BY <1>12 DEF OctetRead
<1>14. OctetRead(e, 0) = n
  BY <1>1, <1>13
<1>15. Cardinality(UNION {{index} \X (1 .. OctetRead(e, index)) : index \in 0 .. Len(e) - 1}) = n
  <2> DEFINE C == UNION {{index} \X (1 .. OctetRead(e, index)) : index \in 0 .. Len(e) - 1}
             f == [k \in 1 .. n |-> <<0, k>>]
  <2>1. 0 .. Len(e) - 1 = {0}
    BY <1>12
  <2>2. C = {<<0, k>> : k \in 1 .. n}
    <3>1. C = {0} \X (1 .. n)
      BY <1>14, <2>1
    <3> QED
      BY <3>1
  <2> HIDE DEF C
  <2>3. f \in Bijection(1 .. n, C)
    <3>1. f \in [1 .. n -> C]
      BY <2>2
    <3>2. \A j, k \in 1 .. n : f[j] = f[k] => j = k
      OBVIOUS
    <3>3. \A c \in C : \E k \in 1 .. n : f[k] = c
      BY <2>2
    <3> HIDE DEF f
    <3> QED
      BY <3>1, <3>2, <3>3 DEF Bijection, Injection, Surjection, IsInjective
  <2>4. Cardinality(C) = n
    <3>1. IsFiniteSet(1 .. n) /\ Cardinality(1 .. n) = n
      BY <1>1, FS_Interval
    <3> HIDE DEF f
    <3> QED
      BY <2>3, <3>1, FS_Bijection DEF ExistsBijection
  <2> QED
    BY <2>4 DEF C
<1>16. CompletedPackets(e) = n
  BY <1>1, <1>15 DEF CompletedPackets
<1> QED
  BY <1>16 DEF e

\* The elements of a sequence over a set are of that set.
LEMMA SeqElement ==
    ASSUME NEW S, NEW s \in Seq(S), NEW i \in 1 .. Len(s)
    PROVE  s[i] \in S
OBVIOUS

\* An event is a list of handles and numbers.
LEMMA EventType ==
    ASSUME HostTypes, NEW n \in 1 .. Len(reported), NEW handles \in Seq(Handle)
    PROVE  CompletedEvent(n, handles) \in Seq([handle : Nat, number : Nat])
<1> DEFINE number(h) == Cardinality({k \in 1 .. n : reported[k] = h})
<1>1. \A h : number(h) \in Nat
  <2> SUFFICES ASSUME NEW h PROVE number(h) \in Nat
    OBVIOUS
  <2>1. n \in Int
    BY DEF HostTypes
  <2>2. IsFiniteSet(1 .. n)
    BY <2>1, FS_Interval
  <2>3. IsFiniteSet({k \in 1 .. n : reported[k] = h})
    BY <2>2, FS_Subset
  <2> QED
    BY <2>3, FS_CardinalityType
<1>2. CompletedEvent(n, handles) =
        [i \in 1 .. Len(handles) |-> [handle |-> handles[i], number |-> number(handles[i])]]
  BY DEF CompletedEvent
<1> HIDE DEF number
<1>3. \A i \in 1 .. Len(handles) : handles[i] \in Nat
  <2>1. \A i \in 1 .. Len(handles) : handles[i] \in Handle
    OBVIOUS
  <2>2. \A h \in Handle : h \in Nat
    BY HandleAssumption
  <2> QED
    BY <2>1, <2>2
<1>4. \A i \in 1 .. Len(handles) :
         [handle |-> handles[i], number |-> number(handles[i])] \in [handle : Nat, number : Nat]
  BY <1>1, <1>3
<1> QED
  BY <1>2, <1>4

\* Whatever is read is an octet, and so is what the octets add up to.
LEMMA CompletedOctet ==
    ASSUME NEW event \in Seq([handle : Nat, number : Nat])
    PROVE  CompletedPackets(event) \in 0 .. 255
<1> DEFINE last == Len(event) - 1
           C == UNION {{index} \X (1 .. OctetRead(event, index)) : index \in 0 .. last}
<1>1. \A index \in 0 .. last : OctetRead(event, index) \in 0 .. 255
  <2> SUFFICES ASSUME NEW index \in 0 .. last PROVE OctetRead(event, index) \in 0 .. 255
    OBVIOUS
  <2> DEFINE slot == Len(event) + index
             link == event[slot \div 2 + 1]
  <2>1. slot \div 2 + 1 \in 1 .. Len(event)
    OBVIOUS
  <2>2. link \in [handle : Nat, number : Nat]
    BY <2>1, SeqElement, Zenon
  <2>3. link.handle \in Nat /\ link.number \in Nat
    BY <2>2
  <2>4. link.handle % 256 \in 0 .. 255 /\ link.number % 256 \in 0 .. 255
    BY <2>3, Octet
  <2> QED
    BY <2>4 DEF OctetRead
<1>2. last \in Int
  OBVIOUS
<1>3. C \subseteq (0 .. last) \X (1 .. 255)
  <2> HIDE DEF last
  <2> SUFFICES ASSUME NEW c \in C PROVE c \in (0 .. last) \X (1 .. 255)
    OBVIOUS
  <2>1. PICK index \in 0 .. last : c \in {index} \X (1 .. OctetRead(event, index))
    OBVIOUS
  <2>2. PICK k \in 1 .. OctetRead(event, index) : c = <<index, k>>
    BY <2>1
  <2>3. OctetRead(event, index) \in 0 .. 255
    BY <1>1
  <2>4. k \in 1 .. 255
    <3> HIDE DEF C
    <3>1. ASSUME NEW m \in 0 .. 255, NEW i \in 1 .. m PROVE i \in 1 .. 255
      OBVIOUS
    <3> QED
      BY <2>3, <3>1, Zenon
  <2> QED
    BY <2>2, <2>4
<1>4. IsFiniteSet((0 .. last) \X (1 .. 255))
  <2>1. IsFiniteSet(0 .. last) /\ IsFiniteSet(1 .. 255)
    <3> HIDE DEF last
    <3>1. 0 \in Int /\ 1 \in Int /\ 255 \in Int
      OBVIOUS
    <3> QED
      BY <1>2, <3>1, FS_Interval
  <2> QED
    BY <2>1, FS_Product
<1>5. Cardinality(C) \in Nat
  <2> HIDE DEF C, last
  <2> QED
    BY <1>3, <1>4, FS_Subset, FS_CardinalityType
<1>6. CompletedPackets(event) = Cardinality(C) % 256
  BY DEF CompletedPackets
<1> HIDE DEF C
<1> QED
  BY <1>5, <1>6, Octet

\* The places the ledger adds up.
Credits == num_of_allowed_le_acl_packets + Len(wire) + Len(held) + Len(done) + Len(reported) + leaked

\* The credits alone are not inductive: an octet that could wrap, or a packet list that is no
\* sequence, would break the sum.  Type correctness carries the ledger and the ledger the octet;
\* and nothing is under way before the controller named its buffers.
NothingYet == /\ num_of_allowed_le_acl_packets = 0 /\ wire = <<>> /\ held = <<>>
              /\ done = <<>> /\ reported = <<>>
IInv == HostTypes /\ CreditLedger /\ (le_acl_packet_length = 0 => NothingYet)

\* Nothing is accounted for before the controller named its buffers, all of them afterwards.
LEMMA InitInv == Init => IInv
<1> SUFFICES ASSUME Init PROVE IInv
  OBVIOUS
<1>1. HostTypes
  <2>1. <<>> \in Seq(Packet) /\ <<>> \in Seq(Handle) /\ <<>> \in Seq(Nat) /\ 0 \in 0 .. 255
    OBVIOUS
  <2>2. whole \in [Handle -> Seq(Nat)]
    BY <2>1 DEF Init
  <2>3. wire \in Seq(Packet) /\ held \in Seq(Packet) /\ done \in Seq(Handle) /\ reported \in Seq(Handle)
    BY <2>1 DEF Init
  <2>4. /\ linked \subseteq Handle /\ alive \subseteq Handle /\ misread \in BOOLEAN
        /\ le_acl_packet_length \in {0, PacketLength}
    BY DEF Init
  <2>5. num_of_allowed_le_acl_packets \in 0 .. 255 /\ pdus \in Nat /\ links \in Nat /\ leaked \in Nat
    BY <2>1 DEF Init
  <2> QED
    BY <2>2, <2>3, <2>4, <2>5 DEF HostTypes
<1>2. Len(wire) = 0 /\ Len(held) = 0 /\ Len(done) = 0 /\ Len(reported) = 0 /\ leaked = 0
      /\ num_of_allowed_le_acl_packets = 0 /\ le_acl_packet_length = 0
  BY DEF Init
<1>3. CreditLedger
  BY <1>2 DEF CreditLedger, EveryCreditCounted
<1>4. NothingYet
  BY DEF Init, NothingYet
<1> QED
  BY <1>1, <1>3, <1>4 DEF IInv

\* Lengths are numbers, and so is their sum.
LEMMA Lengths ==
    ASSUME HostTypes
    PROVE  /\ Len(wire) \in Nat /\ Len(held) \in Nat /\ Len(done) \in Nat /\ Len(reported) \in Nat
           /\ num_of_allowed_le_acl_packets \in Nat /\ leaked \in Nat
           /\ Credits \in Nat
           /\ CreditLedger <=> (~misread => Credits = IF le_acl_packet_length = 0 THEN 0 ELSE Total)
<1>1. /\ Len(wire) \in Nat /\ Len(held) \in Nat /\ Len(done) \in Nat /\ Len(reported) \in Nat
      /\ num_of_allowed_le_acl_packets \in Nat /\ leaked \in Nat
  BY DEF HostTypes
<1>2. CreditLedger <=> (~misread => Credits = IF le_acl_packet_length = 0 THEN 0 ELSE Total)
  BY DEF CreditLedger, EveryCreditCounted, Credits
<1> QED
  BY <1>1, <1>2 DEF Credits

\* Credits that only move from one place to another stay accounted for.
LEMMA CreditsMove ==
    ASSUME IInv, HostTypes', le_acl_packet_length' = le_acl_packet_length, misread' = misread,
           ~misread => Credits' = Credits, le_acl_packet_length = 0 => NothingYet'
    PROVE  IInv'
<1>1. HostTypes /\ CreditLedger
  BY DEF IInv
<1>2. ~misread => Credits = IF le_acl_packet_length = 0 THEN 0 ELSE Total
  BY <1>1, Lengths
<1>3. ~misread' => Credits' = IF le_acl_packet_length' = 0 THEN 0 ELSE Total
  BY <1>2
<1>4. CreditLedger'
  BY <1>3 DEF CreditLedger, EveryCreditCounted, Credits
<1> QED
  BY <1>4 DEF IInv

\* Each operation moves credits between the places the ledger adds up.
LEMMA NextInv == IInv /\ [Next]_vars => IInv'
<1> SUFFICES ASSUME IInv, [Next]_vars
             PROVE  IInv'
  OBVIOUS
<1>1. /\ Len(wire) \in Nat /\ Len(held) \in Nat /\ Len(done) \in Nat /\ Len(reported) \in Nat
      /\ num_of_allowed_le_acl_packets \in Nat /\ leaked \in Nat
      /\ HostTypes /\ (le_acl_packet_length = 0 => NothingYet)
      /\ ~misread => Credits = IF le_acl_packet_length = 0 THEN 0 ELSE Total
  BY Lengths DEF IInv
<1>2. CASE ReadBufferSize
  <2>1. /\ le_acl_packet_length = 0 /\ le_acl_packet_length' = PacketLength
        /\ num_of_allowed_le_acl_packets' = Total
        /\ UNCHANGED <<linked, wire, held, done, reported, alive, pdus, links, misread, leaked, whole>>
    BY <1>2 DEF ReadBufferSize
  <2>2. HostTypes'
    BY <1>1, <2>1 DEF HostTypes
  <2>3. ~misread => Credits' = Total
    BY <1>1, <2>1 DEF Credits, NothingYet
  <2>4. CreditLedger'
    BY <2>1, <2>3 DEF CreditLedger, EveryCreditCounted, Credits
  <2> QED
    BY <2>1, <2>2, <2>4 DEF IInv
<1>3. ASSUME NEW h \in Handle, NEW length \in Length, hci_send_acl(h, length)
      PROVE  IInv'
  <2>0. UNCHANGED <<le_acl_packet_length, linked, held, done, reported, alive, links, misread, leaked>>
        /\ pdus' = pdus + 1
    BY <1>3 DEF hci_send_acl
  <2>1. CASE ~hci_send_acl_allowed
    <3>1. UNCHANGED <<num_of_allowed_le_acl_packets, wire, whole>>
      BY <1>3, <2>1 DEF hci_send_acl
    <3>2. HostTypes' /\ Credits' = Credits /\ (le_acl_packet_length = 0 => NothingYet')
      BY <1>1, <2>0, <3>1 DEF HostTypes, Credits, NothingYet
    <3> QED
      BY <2>0, <3>2, CreditsMove
  <2>2. CASE hci_send_acl_allowed
    <3> DEFINE n == SentPieces(length)
               sent == [k \in 1 .. n |-> Piece(h, length, k)]
    <3>1. le_acl_packet_length # 0
      BY <1>1, <2>2 DEF hci_send_acl_allowed, NothingYet
    <3>2. Pieces(length) \in Nat
      BY <1>1, <3>1, PiecesBounds DEF Pieces, HostTypes
    <3>3. n \in Nat /\ n <= Pieces(length) /\ n <= num_of_allowed_le_acl_packets
      BY <1>1, <3>2 DEF SentPieces
    <3>4. sent \in Seq(Packet) /\ Len(sent) = n
      <4>1. \A k \in 1 .. n : Piece(h, length, k) \in Packet
        BY <1>1, <3>1, <3>2, <3>3, PieceType
      <4> HIDE DEF n
      <4> QED
        BY <3>3, <4>1
    <3>5. /\ wire' = wire \o sent
          /\ num_of_allowed_le_acl_packets' = num_of_allowed_le_acl_packets - n
      BY <1>3, <2>2 DEF hci_send_acl
    <3> HIDE DEF n, sent
    <3>6. wire' \in Seq(Packet) /\ Len(wire') = Len(wire) + n
      BY <1>1, <3>4, <3>5, ConcatProperties DEF HostTypes
    <3>7. whole' \in [Handle -> Seq(Nat)] /\ pdus' \in Nat
      <4>1. pdus' = pdus + 1 /\ pdus + 1 \in Nat
        BY <1>1, <2>0 DEF HostTypes
      <4>2. whole[h] \in Seq(Nat) /\ Append(whole[h], pdus + 1) \in Seq(Nat)
        BY <1>1, <4>1 DEF HostTypes
      <4>3. whole' = whole \/ whole' = [whole EXCEPT ![h] = Append(whole[h], pdus + 1)]
        BY <1>3, <2>2 DEF hci_send_acl
      <4> QED
        BY <1>1, <4>1, <4>2, <4>3 DEF HostTypes
    <3>8. num_of_allowed_le_acl_packets' \in 0 .. 255
      BY <1>1, <3>3, <3>5 DEF HostTypes
    <3>9. HostTypes'
      BY <1>1, <2>0, <3>6, <3>7, <3>8 DEF HostTypes
    <3>10. num_of_allowed_le_acl_packets' + Len(wire')
             = num_of_allowed_le_acl_packets + Len(wire)
      BY <1>1, <3>3, <3>5, <3>6
    <3>11. Credits' = Credits
      <4> DEFINE rest == Len(held) + Len(done) + Len(reported) + leaked
      <4>1. rest \in Nat /\ rest' = rest
        BY <1>1, <2>0
      <4>2. Len(wire') \in Nat /\ num_of_allowed_le_acl_packets' \in Nat
        BY <3>6, <3>8
      <4>3. /\ Credits = (num_of_allowed_le_acl_packets + Len(wire)) + rest
            /\ Credits' = (num_of_allowed_le_acl_packets' + Len(wire')) + rest'
        BY <1>1, <2>0, <4>2 DEF Credits
      <4> QED
        BY <3>10, <4>1, <4>3
    <3> QED
      BY <2>0, <3>1, <3>9, <3>11, CreditsMove
  <2> QED
    BY <2>1, <2>2
<1>4. ASSUME NEW n \in 1 .. Len(reported), NEW handles \in SetToSeqs({reported[k] : k \in 1 .. n}),
             __hci_recv_evt_number_of_completed_packets(n, handles)
      PROVE  IInv'
  <2> DEFINE e == CompletedEvent(n, handles)
             rest == SubSeq(reported, n + 1, Len(reported))
  <2>1. /\ num_of_allowed_le_acl_packets' = (num_of_allowed_le_acl_packets + CompletedPackets(e)) % 256
        /\ reported' = rest /\ misread' = IF Len(handles) > 1 THEN TRUE ELSE misread
        /\ UNCHANGED <<le_acl_packet_length, linked, wire, held, done, alive, pdus, links, leaked, whole>>
    BY <1>4 DEF __hci_recv_evt_number_of_completed_packets
  <2>2. CompletedPackets(e) \in 0 .. 255
    <3>1. Cardinality({reported[k] : k \in 1 .. n}) \in Nat
      BY <1>1, ReportedFinite, FS_CardinalityType
    <3>2. handles \in Seq(Handle)
      <4>1. handles \in [1 .. Cardinality({reported[k] : k \in 1 .. n}) -> {reported[k] : k \in 1 .. n}]
        BY DEF SetToSeqs
      <4>2. {reported[k] : k \in 1 .. n} \subseteq Handle
        BY <1>1 DEF HostTypes
      <4>3. \A S, m : m \in Nat /\ S \subseteq Handle => \A f \in [1 .. m -> S] : f \in Seq(Handle)
        OBVIOUS
      <4> QED
        BY <3>1, <4>1, <4>2, <4>3, Zenon
    <3>3. e \in Seq([handle : Nat, number : Nat])
      BY <1>1, <3>2, EventType
    <3> HIDE DEF e
    <3> QED
      BY <3>3, CompletedOctet
  <2>3. rest \in Seq(Handle) /\ Len(rest) = Len(reported) - n
    BY <1>1, SubSeqProperties DEF HostTypes
  <2>4. HostTypes'
    <3> HIDE DEF e, rest
    <3>1. num_of_allowed_le_acl_packets' \in 0 .. 255
      <4>1. num_of_allowed_le_acl_packets + CompletedPackets(e) \in Nat
        <5>1. \A m \in 0 .. 255 : m \in Nat
          OBVIOUS
        <5>2. CompletedPackets(e) \in Nat
          BY <2>2, <5>1, Zenon
        <5>3. num_of_allowed_le_acl_packets \in Nat
          BY <1>1
        <5> QED
          BY <5>2, <5>3
      <4> QED
        BY <2>1, <4>1, Octet
    <3>2. misread' \in BOOLEAN
      BY <1>1, <2>1 DEF HostTypes
    <3> QED
      BY <1>1, <2>1, <2>3, <3>1, <3>2 DEF HostTypes
  <2>5. le_acl_packet_length # 0
    BY <1>1 DEF NothingYet
  <2>6. ~misread' => Credits' = Total
    <3> SUFFICES ASSUME ~misread' PROVE Credits' = Total
      OBVIOUS
    <3>1. ~misread /\ ~(Len(handles) > 1)
      BY <2>1
    <3>2. Credits = Total
      BY <1>1, <2>5, <3>1
    <3>3. n \in Nat /\ n + num_of_allowed_le_acl_packets <= Total
      BY <1>1, <3>2 DEF Credits
    <3>4. n <= 255 /\ n + num_of_allowed_le_acl_packets <= 255
      BY <1>1, <3>3
    <3>5. CompletedPackets(e) = n
      BY <1>1, <3>1, <3>4, OneLinkReported
    <3> HIDE DEF e, rest
    <3>6. num_of_allowed_le_acl_packets' = num_of_allowed_le_acl_packets + n
      BY <1>1, <2>1, <3>3, <3>4, <3>5
    <3> QED
      BY <1>1, <2>1, <2>3, <3>2, <3>3, <3>6 DEF Credits
  <2>7. CreditLedger'
    BY <2>1, <2>5, <2>6 DEF CreditLedger, EveryCreditCounted, Credits
  <2> QED
    BY <2>1, <2>4, <2>5, <2>7 DEF IInv
<1>5. ASSUME NEW h \in Handle, RecvConnComplete(h) \/ __hci_recv_evt_disconn_complete(h)
      PROVE  IInv'
  <2>1. /\ linked' \subseteq Handle
        /\ UNCHANGED <<le_acl_packet_length, num_of_allowed_le_acl_packets, wire, held, done, reported,
                       alive, pdus, links, misread, leaked, whole>>
    BY <1>1, <1>5 DEF RecvConnComplete, __hci_recv_evt_disconn_complete, HostTypes
  <2>2. HostTypes' /\ Credits' = Credits /\ (le_acl_packet_length = 0 => NothingYet')
    BY <1>1, <2>1 DEF HostTypes, Credits, NothingYet
  <2> QED
    BY <2>1, <2>2, CreditsMove
<1>6. ASSUME NEW h \in Handle, LinkUp(h) \/ LinkLost(h)
      PROVE  IInv'
  <2>1. /\ alive' \subseteq Handle /\ links' \in Nat /\ whole' \in [Handle -> Seq(Nat)]
        /\ UNCHANGED <<hostVars, wire, held, done, reported, pdus, misread, leaked>>
    <3>1. alive \subseteq Handle /\ links \in Nat /\ whole \in [Handle -> Seq(Nat)]
          /\ <<>> \in Seq(Nat)
      BY <1>1 DEF HostTypes
    <3>2. CASE LinkUp(h)
      BY <3>1, <3>2 DEF LinkUp
    <3>3. CASE LinkLost(h)
      BY <3>1, <3>3 DEF LinkLost
    <3> QED
      BY <1>6, <3>2, <3>3
  <2>2. HostTypes' /\ Credits' = Credits /\ (le_acl_packet_length = 0 => NothingYet')
    BY <1>1, <2>1 DEF HostTypes, Credits, NothingYet, hostVars
  <2> QED
    BY <2>1, <2>2, CreditsMove DEF hostVars
<1>7. CASE ControllerTakes
  <2>1. wire # <<>> /\ UNCHANGED <<hostVars, done, reported, alive, pdus, links, misread, whole>>
    BY <1>7 DEF ControllerTakes
  <2>2. Head(wire) \in Packet /\ wire' \in Seq(Packet) /\ Len(wire') = Len(wire) - 1
    BY <1>1, <1>7 DEF ControllerTakes, HostTypes
  <2>3. le_acl_packet_length # 0
    BY <1>1, <2>1 DEF NothingYet
  <2>4. /\ held' \in Seq(Packet) /\ leaked' \in Nat
        /\ Len(held') + leaked' = Len(held) + leaked + 1
    <3>1. \/ held' = Append(held, Head(wire)) /\ leaked' = leaked
          \/ held' = held /\ leaked' = leaked + 1
      BY <1>7 DEF ControllerTakes
    <3>2. Append(held, Head(wire)) \in Seq(Packet) /\ Len(Append(held, Head(wire))) = Len(held) + 1
      BY <1>1, <2>2 DEF HostTypes
    <3>3. held \in Seq(Packet)
      BY <1>1 DEF HostTypes
    <3>4. Len(held) \in Nat /\ leaked \in Nat
      BY <1>1
    <3>5. CASE held' = Append(held, Head(wire)) /\ leaked' = leaked
      BY <3>2, <3>4, <3>5
    <3>6. CASE held' = held /\ leaked' = leaked + 1
      BY <3>3, <3>4, <3>6
    <3> QED
      BY <3>1, <3>5, <3>6
  <2>5. HostTypes'
    BY <1>1, <2>1, <2>2, <2>4 DEF HostTypes, hostVars
  <2>6. Credits' = Credits
    <3>1. Len(held') \in Nat
      BY <2>4
    <3> QED
      BY <1>1, <2>1, <2>2, <2>4, <3>1 DEF Credits, hostVars
  <2> QED
    BY <2>1, <2>3, <2>5, <2>6, CreditsMove DEF hostVars
<1>8. ASSUME NEW i \in DOMAIN held, ControllerFlushes(i) \/ ControllerTransmits(i)
      PROVE  IInv'
  <2>1. held' \in Seq(Packet) /\ Len(held') = Len(held) - 1
    BY <1>1, <1>8, RemoveAtType DEF ControllerFlushes, ControllerTransmits, HostTypes
  <2>2. UNCHANGED <<hostVars, wire, reported, alive, pdus, links, misread, whole>>
    BY <1>8 DEF ControllerFlushes, ControllerTransmits
  <2>3. le_acl_packet_length # 0
    BY <1>1 DEF NothingYet
  <2>4. /\ done' \in Seq(Handle) /\ leaked' \in Nat
        /\ Len(done') + leaked' = Len(done) + leaked + 1
    <3>1. \/ done' = Append(done, held[i].handle) /\ leaked' = leaked
          \/ done' = done /\ leaked' = leaked + 1
      BY <1>8 DEF ControllerFlushes, ControllerTransmits
    <3>2. held[i] \in Packet
      BY <1>1 DEF HostTypes
    <3>3. held[i].handle \in Handle
      BY <3>2 DEF Packet
    <3>4. /\ Append(done, held[i].handle) \in Seq(Handle)
          /\ Len(Append(done, held[i].handle)) = Len(done) + 1
      BY <1>1, <3>3 DEF HostTypes
    <3>5. done \in Seq(Handle)
      BY <1>1 DEF HostTypes
    <3>6. Len(done) \in Nat /\ leaked \in Nat
      BY <1>1
    <3>7. CASE done' = Append(done, held[i].handle) /\ leaked' = leaked
      BY <3>4, <3>6, <3>7
    <3>8. CASE done' = done /\ leaked' = leaked + 1
      BY <3>5, <3>6, <3>8
    <3> QED
      BY <3>1, <3>7, <3>8
  <2>5. HostTypes'
    BY <1>1, <2>1, <2>2, <2>4 DEF HostTypes, hostVars
  <2>6. Credits' = Credits
    <3>1. Len(done') \in Nat /\ Len(held') \in Nat /\ leaked' \in Nat
      BY <2>1, <2>4
    <3>2. /\ num_of_allowed_le_acl_packets' = num_of_allowed_le_acl_packets
          /\ Len(wire') = Len(wire) /\ Len(reported') = Len(reported)
      BY <2>2 DEF hostVars
    <3> QED
      BY <1>1, <2>1, <2>4, <3>1, <3>2 DEF Credits
  <2> QED
    BY <2>2, <2>3, <2>5, <2>6, CreditsMove DEF hostVars
<1>9. ASSUME NEW i \in DOMAIN done, ControllerForgets(i)
      PROVE  IInv'
  <2>1. /\ done' \in Seq(Handle) /\ Len(done') = Len(done) - 1 /\ leaked' = leaked + 1
        /\ UNCHANGED <<hostVars, wire, held, reported, alive, pdus, links, misread, whole>>
    BY <1>1, <1>9, RemoveAtType DEF ControllerForgets, HostTypes
  <2>2. HostTypes' /\ Credits' = Credits /\ le_acl_packet_length # 0
    BY <1>1, <2>1 DEF HostTypes, Credits, NothingYet, hostVars
  <2> QED
    BY <2>1, <2>2, CreditsMove DEF hostVars
<1>10. CASE ControllerReports
  <2>1. /\ done # <<>> /\ done' = <<>> /\ reported' = reported \o done
        /\ UNCHANGED <<hostVars, wire, held, alive, pdus, links, misread, leaked, whole>>
    BY <1>10 DEF ControllerReports
  <2>2. reported' \in Seq(Handle) /\ Len(reported') = Len(reported) + Len(done)
    BY <1>1, <2>1, ConcatProperties DEF HostTypes
  <2>3. HostTypes' /\ Credits' = Credits /\ le_acl_packet_length # 0
    BY <1>1, <2>1, <2>2 DEF HostTypes, Credits, NothingYet, hostVars
  <2> QED
    BY <2>1, <2>3, CreditsMove DEF hostVars
<1>11. CASE UNCHANGED vars
  <2>1. UNCHANGED <<le_acl_packet_length, num_of_allowed_le_acl_packets, linked, wire, held, done,
                    reported, alive, pdus, links, misread, leaked, whole>>
    BY <1>11 DEF vars, hostVars
  <2>2. HostTypes' /\ Credits' = Credits /\ (le_acl_packet_length = 0 => NothingYet')
    BY <1>1, <2>1 DEF HostTypes, Credits, NothingYet
  <2> QED
    BY <2>1, <2>2, CreditsMove
<1> QED
  BY <1>2, <1>3, <1>4, <1>5, <1>6, <1>7, <1>8, <1>9, <1>10, <1>11
  DEF Next, HostReceives, ControllerWorks

\* What a peer has of a PDU once it took another packet.
LEMMA Assembled ==
    ASSUME NEW old \in Pdu, NEW p \in Packet
    PROVE  /\ p.pb = "first" => Reassembled(old, p) =
                 [parts |-> {[pdu |-> p.pdu, inPlace |-> p.offset = 0]}, got |-> p.length,
                  total |-> p.total]
           /\ p.pb # "first" => Reassembled(old, p) =
                 [parts |-> old.parts \cup {[pdu |-> p.pdu, inPlace |-> p.offset = old.got]},
                  got |-> old.got + p.length, total |-> old.total]
           /\ Reassembled(old, p) \in Pdu
<1>1. /\ p.pdu \in Nat /\ p.offset \in Nat /\ p.length \in Nat /\ p.total \in Nat
      /\ old = [parts |-> old.parts, got |-> old.got, total |-> old.total]
      /\ old.parts \in SUBSET Part /\ old.got \in Nat /\ old.total \in Nat
  BY DEF Packet, Pdu
<1>2. [pdu |-> p.pdu, inPlace |-> p.offset = 0] \in Part
      /\ [pdu |-> p.pdu, inPlace |-> p.offset = old.got] \in Part
  BY <1>1 DEF Part
<1>3. CASE p.pb = "first"
  <2> DEFINE start == [NoPdu EXCEPT !.total = p.total]
  <2>1. start.parts = {} /\ start.got = 0 /\ start.total = p.total
    BY DEF NoPdu
  <2>2. Reassembled(old, p) =
          [parts |-> start.parts \cup {[pdu |-> p.pdu, inPlace |-> p.offset = start.got]},
           got |-> start.got + p.length, total |-> start.total]
    BY <1>3 DEF Reassembled
  <2> HIDE DEF start
  <2>3. Reassembled(old, p) =
          [parts |-> {[pdu |-> p.pdu, inPlace |-> p.offset = 0]}, got |-> p.length, total |-> p.total]
    <3>1. start.parts \cup {[pdu |-> p.pdu, inPlace |-> p.offset = start.got]}
            = {[pdu |-> p.pdu, inPlace |-> p.offset = 0]}
      BY <2>1
    <3>2. start.got + p.length = p.length
      BY <1>1, <2>1
    <3> QED
      BY <2>1, <2>2, <3>1, <3>2
  <2>4. {[pdu |-> p.pdu, inPlace |-> p.offset = 0]} \in SUBSET Part
    BY <1>2
  <2>5. Reassembled(old, p) \in Pdu
    BY <1>1, <2>3, <2>4 DEF Pdu
  <2> QED
    BY <1>3, <2>3, <2>5
<1>4. CASE p.pb # "first"
  <2>1. Reassembled(old, p) =
          [parts |-> old.parts \cup {[pdu |-> p.pdu, inPlace |-> p.offset = old.got]},
           got |-> old.got + p.length, total |-> old.total]
    BY <1>4 DEF Reassembled
  <2>2. old.parts \cup {[pdu |-> p.pdu, inPlace |-> p.offset = old.got]} \in SUBSET Part
    BY <1>1, <1>2
  <2>3. Reassembled(old, p) \in Pdu
    BY <1>1, <2>1, <2>2 DEF Pdu
  <2> QED
    BY <1>4, <2>1, <2>3
<1> QED
  BY <1>3, <1>4

\* Every step keeps the types of the peers, with those of the host and the controller.
LEMMA PeerTypesNext == HostTypes /\ PeerTypes /\ [Next]_vars => PeerTypes'
<1> SUFFICES ASSUME HostTypes, PeerTypes, [Next]_vars PROVE PeerTypes'
  OBVIOUS
<1>1. NoPdu \in Pdu /\ <<>> \in Seq(SUBSET Part)
  BY DEF NoPdu, Pdu
<1>2. ASSUME NEW h \in Handle, LinkUp(h) PROVE PeerTypes'
  BY <1>1, <1>2 DEF LinkUp, PeerTypes
<1>3. ASSUME NEW i \in DOMAIN held, ControllerTransmits(i) PROVE PeerTypes'
  <2> DEFINE p == held[i]
             now == Reassembled(partial[p.handle], p)
  <2>1. p \in Packet /\ p.handle \in Handle
    <3>1. p \in Packet
      BY DEF HostTypes
    <3> QED
      BY <3>1 DEF Packet
  <2>2. now \in Pdu
    BY <2>1, Assembled DEF PeerTypes
  <2>3. now.parts \in SUBSET Part
    BY <2>2 DEF Pdu
  <2>4. received[p.handle] \in Seq(SUBSET Part)
    BY <2>1 DEF PeerTypes
  <2>5. Append(received[p.handle], now.parts) \in Seq(SUBSET Part)
    BY <2>3, <2>4, AppendProperties
  <2>6. \/ /\ received' = [received EXCEPT ![p.handle] = Append(received[p.handle], now.parts)]
           /\ partial' = [partial EXCEPT ![p.handle] = NoPdu]
        \/ /\ partial' = [partial EXCEPT ![p.handle] = now]
           /\ received' = received
    BY <1>3 DEF ControllerTransmits, PeerTakes
  <2> HIDE DEF now
  <2>7. PICK h \in Handle, new \in Seq(SUBSET Part) :
           h = p.handle /\ new = Append(received[p.handle], now.parts)
    BY <2>1, <2>5
  <2>8. received' \in [Handle -> Seq(SUBSET Part)]
    BY <2>6, <2>7 DEF PeerTypes
  <2>9. partial' \in [Handle -> Pdu]
    BY <1>1, <2>2, <2>6, <2>7 DEF PeerTypes
  <2> QED
    BY <2>8, <2>9 DEF PeerTypes
<1>4. CASE UNCHANGED peerVars
  BY <1>4 DEF peerVars, PeerTypes
<1>5. UNCHANGED peerVars \/ (\E h \in Handle : LinkUp(h))
        \/ (\E i \in DOMAIN held : ControllerTransmits(i))
  BY DEF Next, ReadBufferSize, hci_send_acl, HostReceives, RecvConnComplete,
         __hci_recv_evt_number_of_completed_packets, __hci_recv_evt_disconn_complete,
         LinkLost, ControllerWorks, ControllerTakes, ControllerFlushes, ControllerForgets,
         ControllerReports, vars
<1> QED
  BY <1>2, <1>3, <1>4, <1>5

\* Both together are the types of the module.
LEMMA Types == TypeOK <=> HostTypes /\ PeerTypes
BY DEF TypeOK, HostTypes, PeerTypes, Pdu

\* At first no peer has anything.
LEMMA InitPeers == Init => PeerTypes
<1>1. NoPdu \in Pdu /\ <<>> \in Seq(SUBSET Part)
  BY DEF NoPdu, Pdu
<1> QED
  BY <1>1 DEF Init, PeerTypes

\* Type correctness, and the octet num_of_allowed_le_acl_packets stays an octet, also when the
\* credits are misread.
THEOREM TypeCorrect == Spec => []TypeOK
BY InitInv, NextInv, InitPeers, PeerTypesNext, Types, PTL DEF Spec, IInv

\* As long as each event reports packets of one link, no credit is created and none disappears
\* but with its link.
THEOREM CreditsAccounted == Spec => []CreditLedger
BY InitInv, NextInv, PTL DEF Spec, IInv

\* The credits that are accounted for are no more than there are buffers.
LEMMA RoomForEach == IInv => NoControllerOverrun
<1> SUFFICES ASSUME IInv PROVE NoControllerOverrun
  OBVIOUS
<1>1. /\ Len(wire) \in Nat /\ Len(held) \in Nat /\ Len(done) \in Nat /\ Len(reported) \in Nat
      /\ num_of_allowed_le_acl_packets \in Nat /\ leaked \in Nat
  BY Lengths DEF IInv
<1> QED
  BY <1>1 DEF IInv, CreditLedger, EveryCreditCounted, NoControllerOverrun

\* As long as each event reports packets of one link, the host never sends a packet the
\* controller has no buffer for.
THEOREM BuffersNotOverrun == Spec => []NoControllerOverrun
BY RoomForEach, InitInv, NextInv, PTL DEF Spec

-----------------------------------------------------------------------------
(* The packets under way, as one sequence, seen from the link of one peer.  *)

Sound(p) == /\ p.length > 0 /\ p.offset + p.length <= p.total
            /\ p.pb = "first" <=> p.offset = 0

IsLast(p) == p.offset + p.length = p.total
Before(p, q) ==
    p.pdu < q.pdu \/ (p.pdu = q.pdu /\ p.total = q.total /\ p.offset + p.length <= q.offset)
Continues(p, q) == p.pdu = q.pdu /\ p.total = q.total /\ p.offset + p.length = q.offset

\* A peer that is just at the beginning of packet p of its PDU.
Holds(r, p) == r = [parts |-> {[pdu |-> p.pdu, inPlace |-> TRUE]}, got |-> p.offset, total |-> p.total]

Of(q, h) == {i \in DOMAIN q : q[i].handle = h}

\* The packets of a link are in the order of PDUs and bytes.
Ordered(h, q) == \A i, j \in Of(q, h) : i < j => Before(q[i], q[j])

\* A packet that is not the beginning of its PDU comes behind the one it continues, or the
\* peer has just that.
Follows(h, q, r) ==
    \A j \in Of(q, h) : q[j].offset # 0 =>
        \/ \E i \in Of(q, h) : i < j /\ Continues(q[i], q[j])
        \/ (\A i \in Of(q, h) : ~(i < j)) /\ Holds(r, q[j])

\* The last packets under way are those of the PDUs sent whole, w, the peer does not have: all
\* but the first n.
Ends(h, q, w, n) ==
    /\ \A j \in Of(q, h) : IsLast(q[j]) => \E m \in DOMAIN w : m > n /\ w[m] = q[j].pdu
    /\ \A m \in DOMAIN w : m > n => \E j \in Of(q, h) : IsLast(q[j]) /\ w[m] = q[j].pdu

Flow(h, q, w, n, r) == Ordered(h, q) /\ Follows(h, q, r) /\ Ends(h, q, w, n)

Rising(w) == \A a, b \in DOMAIN w : a < b => w[a] < w[b]

\* q1 is q without its element at i.
Without(q, i, q1) ==
    /\ Len(q1) = Len(q) - 1
    /\ \A j \in DOMAIN q1 : q1[j] = q[IF j < i THEN j ELSE j + 1]

\* Where the elements of q are in q1 and the other way round.
LEMMA WithoutPlaces ==
    ASSUME NEW S, NEW q \in Seq(S), NEW q1 \in Seq(S), NEW i \in DOMAIN q, Without(q, i, q1)
    PROVE  /\ \A j \in DOMAIN q1 : \E k \in DOMAIN q : k # i /\ q1[j] = q[k] /\ k = IF j < i THEN j ELSE j + 1
           /\ \A k \in DOMAIN q : k # i => \E j \in DOMAIN q1 : q1[j] = q[k] /\ k = IF j < i THEN j ELSE j + 1
           /\ DOMAIN q \subseteq Nat /\ DOMAIN q1 \subseteq Nat
<1> DEFINE n == Len(q)
<1>1. /\ n \in Nat /\ DOMAIN q = 1 .. n /\ DOMAIN q1 = 1 .. n - 1
      /\ \A j \in 1 .. n - 1 : q1[j] = q[IF j < i THEN j ELSE j + 1]
  BY DEF Without
<1>2. i \in 1 .. n
  BY <1>1
<1> HIDE DEF n
<1>3. ASSUME NEW j \in 1 .. n - 1
      PROVE  \E k \in 1 .. n : k # i /\ q1[j] = q[k] /\ k = IF j < i THEN j ELSE j + 1
  <2>1. PICK k : k = IF j < i THEN j ELSE j + 1
    OBVIOUS
  <2>2. k \in 1 .. n /\ k # i
    BY <1>1, <1>2, <2>1
  <2>3. q1[j] = q[k]
    BY <1>1, <2>1
  <2> QED
    BY <2>1, <2>2, <2>3
<1>4. ASSUME NEW k \in 1 .. n, k # i
      PROVE  \E j \in 1 .. n - 1 : q1[j] = q[k] /\ k = IF j < i THEN j ELSE j + 1
  <2>1. PICK j : j = IF k < i THEN k ELSE k - 1
    OBVIOUS
  <2>2. j \in 1 .. n - 1 /\ k = IF j < i THEN j ELSE j + 1
    BY <1>1, <1>2, <1>4, <2>1
  <2>3. q1[j] = q[k]
    BY <1>1, <2>2
  <2> QED
    BY <2>2, <2>3
<1>5. DOMAIN q \subseteq Nat /\ DOMAIN q1 \subseteq Nat
  BY <1>1
<1>6. \A j \in DOMAIN q1 : \E k \in DOMAIN q : k # i /\ q1[j] = q[k] /\ k = IF j < i THEN j ELSE j + 1
  BY <1>1, <1>3
<1>7. \A k \in DOMAIN q : k # i => \E j \in DOMAIN q1 : q1[j] = q[k] /\ k = IF j < i THEN j ELSE j + 1
  BY <1>1, <1>4
<1> QED
  BY <1>5, <1>6, <1>7

\* Of the packets of a link, those left when the one at i is gone, in the same order.
LEMMA WithoutOf ==
    ASSUME NEW q \in Seq(Packet), NEW q1 \in Seq(Packet), NEW i \in DOMAIN q, Without(q, i, q1),
           NEW h
    PROVE  \E place \in [Of(q1, h) -> Of(q, h) \ {i}] :
              /\ \A j \in Of(q1, h) : q1[j] = q[place[j]]
              /\ \A j, k \in Of(q1, h) : j < k <=> place[j] < place[k]
              /\ \A k \in Of(q, h) \ {i} : \E j \in Of(q1, h) : place[j] = k
<1> DEFINE at(j) == IF j < i THEN j ELSE j + 1
           place == [j \in Of(q1, h) |-> at(j)]
<1>1. DOMAIN q \subseteq Nat /\ DOMAIN q1 \subseteq Nat /\ i \in Nat
  BY WithoutPlaces
<1>2. \A j \in DOMAIN q1 : at(j) \in DOMAIN q /\ at(j) # i /\ q1[j] = q[at(j)]
  BY WithoutPlaces
<1>3. \A k \in DOMAIN q : k # i => \E j \in DOMAIN q1 : q1[j] = q[k] /\ k = at(j)
  BY WithoutPlaces
<1>4. \A j, k \in DOMAIN q1 : j < k <=> at(j) < at(k)
  BY <1>1
<1> HIDE DEF at
<1>5. \A j \in Of(q1, h) : at(j) \in Of(q, h) \ {i}
  BY <1>2 DEF Of
<1>6. \A k \in Of(q, h) \ {i} : \E j \in Of(q1, h) : at(j) = k
  BY <1>3 DEF Of
<1>7. place \in [Of(q1, h) -> Of(q, h) \ {i}]
  BY <1>5
<1>8. \A j \in Of(q1, h) : q1[j] = q[place[j]]
  BY <1>2 DEF Of
<1>9. \A j, k \in Of(q1, h) : j < k <=> place[j] < place[k]
  BY <1>4 DEF Of
<1>10. \A k \in Of(q, h) \ {i} : \E j \in Of(q1, h) : place[j] = k
  BY <1>6
<1> HIDE DEF place
<1> QED
  BY <1>7, <1>8, <1>9, <1>10

\* Packets in order stay so when one is gone.
LEMMA OrderedWithout ==
    ASSUME NEW q \in Seq(Packet), NEW q1 \in Seq(Packet), NEW i \in DOMAIN q, Without(q, i, q1),
           NEW h, Ordered(h, q)
    PROVE  Ordered(h, q1)
<1>1. PICK place \in [Of(q1, h) -> Of(q, h) \ {i}] :
         /\ \A j \in Of(q1, h) : q1[j] = q[place[j]]
         /\ \A j, k \in Of(q1, h) : j < k <=> place[j] < place[k]
  BY WithoutOf
<1>2. \A j \in Of(q1, h) : place[j] \in Of(q, h)
  BY <1>1
<1> QED
  BY <1>1, <1>2 DEF Ordered

\* A packet of another link leaves.
LEMMA FlowWithout ==
    ASSUME NEW q \in Seq(Packet), NEW q1 \in Seq(Packet), NEW i \in DOMAIN q, Without(q, i, q1),
           NEW h, q[i].handle # h, NEW w, NEW n, NEW r, Flow(h, q, w, n, r)
    PROVE  Flow(h, q1, w, n, r)
<1>1. PICK place \in [Of(q1, h) -> Of(q, h) \ {i}] :
         /\ \A j \in Of(q1, h) : q1[j] = q[place[j]]
         /\ \A j, k \in Of(q1, h) : j < k <=> place[j] < place[k]
         /\ \A k \in Of(q, h) \ {i} : \E j \in Of(q1, h) : place[j] = k
  BY WithoutOf
<1>2. Of(q, h) \ {i} = Of(q, h)
  BY DEF Of
<1>3. \A j \in Of(q1, h) : place[j] \in Of(q, h)
  BY <1>1
<1>4. Ordered(h, q1)
  BY OrderedWithout DEF Flow
<1>5. Follows(h, q1, r)
  <2> SUFFICES ASSUME NEW j \in Of(q1, h), q1[j].offset # 0
               PROVE  \/ \E k \in Of(q1, h) : k < j /\ Continues(q1[k], q1[j])
                      \/ (\A k \in Of(q1, h) : ~(k < j)) /\ Holds(r, q1[j])
    BY DEF Follows
  <2>1. \/ \E k \in Of(q, h) : k < place[j] /\ Continues(q[k], q[place[j]])
        \/ (\A k \in Of(q, h) : ~(k < place[j])) /\ Holds(r, q[place[j]])
    BY <1>1, <1>3 DEF Flow, Follows
  <2>2. CASE \E k \in Of(q, h) : k < place[j] /\ Continues(q[k], q[place[j]])
    <3>1. PICK k \in Of(q, h) : k < place[j] /\ Continues(q[k], q[place[j]])
      BY <2>2
    <3>2. PICK k1 \in Of(q1, h) : place[k1] = k
      BY <1>1, <1>2
    <3>3. k1 < j /\ q1[k1] = q[k] /\ q1[j] = q[place[j]]
      BY <1>1, <3>1, <3>2
    <3> QED
      BY <3>1, <3>3
  <2>3. CASE (\A k \in Of(q, h) : ~(k < place[j])) /\ Holds(r, q[place[j]])
    BY <1>1, <1>3, <2>3
  <2> QED
    BY <2>1, <2>2, <2>3
<1>6. Ends(h, q1, w, n)
  <2>1. ASSUME NEW j \in Of(q1, h), IsLast(q1[j])
        PROVE  \E m \in DOMAIN w : m > n /\ w[m] = q1[j].pdu
    BY <1>1, <1>3, <2>1 DEF Flow, Ends
  <2>2. ASSUME NEW m \in DOMAIN w, m > n
        PROVE  \E j \in Of(q1, h) : IsLast(q1[j]) /\ w[m] = q1[j].pdu
    <3>1. PICK k \in Of(q, h) : IsLast(q[k]) /\ w[m] = q[k].pdu
      BY <2>2 DEF Flow, Ends
    <3>2. PICK k1 \in Of(q1, h) : place[k1] = k
      BY <1>1, <1>2
    <3> QED
      BY <1>1, <3>1, <3>2
  <2> QED
    BY <2>1, <2>2 DEF Ends
<1> QED
  BY <1>4, <1>5, <1>6 DEF Flow

\* The first packet of a link is all its peer has of a PDU, and the next in its place.
LEMMA TakenInPlace ==
    ASSUME NEW q \in Seq(Packet), NEW h, NEW i \in Of(q, h), \A j \in Of(q, h) : ~(j < i),
           NEW r \in Pdu, Follows(h, q, r), Sound(q[i])
    PROVE  Reassembled(r, q[i]) =
              [parts |-> {[pdu |-> q[i].pdu, inPlace |-> TRUE]},
               got |-> q[i].offset + q[i].length, total |-> q[i].total]
<1> DEFINE p == q[i]
<1>1. p \in Packet
  BY DEF Of
<1>2. p.offset \in Nat /\ p.length \in Nat /\ p.pdu \in Nat
  BY <1>1 DEF Packet
<1>3. p.pb = "first" <=> p.offset = 0
  BY DEF Sound
<1>4. p.offset # 0 => Holds(r, p)
  BY DEF Follows
<1> HIDE DEF p
<1>5. CASE p.offset = 0
  <2>1. Reassembled(r, p) =
          [parts |-> {[pdu |-> p.pdu, inPlace |-> p.offset = 0]}, got |-> p.length, total |-> p.total]
    BY <1>1, <1>3, <1>5, Assembled
  <2>2. p.length = p.offset + p.length
    BY <1>2, <1>5
  <2>3. (p.offset = 0) = TRUE
    BY <1>5
  <2>4. Reassembled(r, p) =
          [parts |-> {[pdu |-> p.pdu, inPlace |-> TRUE]}, got |-> p.offset + p.length, total |-> p.total]
    BY <2>1, <2>2, <2>3
  <2> QED
    BY <2>4 DEF p
<1>6. CASE p.offset # 0
  <2>1. r.parts = {[pdu |-> p.pdu, inPlace |-> TRUE]} /\ r.got = p.offset /\ r.total = p.total
    BY <1>4, <1>6 DEF Holds
  <2>2. Reassembled(r, p) =
          [parts |-> r.parts \cup {[pdu |-> p.pdu, inPlace |-> p.offset = r.got]},
           got |-> r.got + p.length, total |-> r.total]
    BY <1>1, <1>3, <1>6, Assembled
  <2>3. (p.offset = r.got) = TRUE
    BY <2>1
  <2>4. r.parts \cup {[pdu |-> p.pdu, inPlace |-> p.offset = r.got]}
          = {[pdu |-> p.pdu, inPlace |-> TRUE]}
    BY <2>1, <2>3
  <2>5. Reassembled(r, p) =
          [parts |-> {[pdu |-> p.pdu, inPlace |-> TRUE]}, got |-> p.offset + p.length, total |-> p.total]
    BY <2>1, <2>2, <2>4
  <2> QED
    BY <2>5 DEF p
<1> QED
  BY <1>5, <1>6

\* What the first packet of a link leaves behind it: later ones are of its PDU, further on, or
\* of later PDUs.
LEMMA BehindFirst ==
    ASSUME NEW q \in Seq(Packet), NEW h, NEW i \in Of(q, h), \A j \in Of(q, h) : ~(j < i),
           \A j \in Of(q, h) : Sound(q[j]), Ordered(h, q)
    PROVE  /\ \A k \in Of(q, h) \ {i} : i < k /\ Before(q[i], q[k])
           /\ IsLast(q[i]) => \A k \in Of(q, h) \ {i} : q[i].pdu < q[k].pdu
           /\ \A k, l \in Of(q, h) : k < l /\ Continues(q[i], q[l]) => k = i
<1>1. \A k \in Of(q, h) : q[k] \in Packet /\ k \in Nat
  BY DEF Of
<1>2. \A k \in Of(q, h) : /\ q[k].pdu \in Nat /\ q[k].offset \in Nat
                          /\ q[k].length \in Nat /\ q[k].length > 0
                          /\ q[k].total \in Nat /\ q[k].offset + q[k].length <= q[k].total
  <2> SUFFICES ASSUME NEW k \in Of(q, h)
               PROVE  /\ q[k].pdu \in Nat /\ q[k].offset \in Nat
                      /\ q[k].length \in Nat /\ q[k].length > 0
                      /\ q[k].total \in Nat /\ q[k].offset + q[k].length <= q[k].total
    OBVIOUS
  <2>1. q[k] \in Packet /\ Sound(q[k])
    BY <1>1
  <2> QED
    BY <2>1 DEF Packet, Sound
<1>3. \A k \in Of(q, h) \ {i} : i < k
  BY <1>1
<1>4. \A k \in Of(q, h) \ {i} : Before(q[i], q[k])
  BY <1>3 DEF Ordered
<1>5. ASSUME IsLast(q[i]), NEW k \in Of(q, h) \ {i} PROVE q[i].pdu < q[k].pdu
  <2>1. Before(q[i], q[k])
    BY <1>4
  <2> QED
    BY <1>2, <1>5, <2>1 DEF Before, IsLast
<1>6. ASSUME NEW k \in Of(q, h), NEW l \in Of(q, h), k < l, Continues(q[i], q[l]), k # i PROVE FALSE
  <2>1. Before(q[i], q[k]) /\ Before(q[k], q[l])
    BY <1>4, <1>6 DEF Ordered
  <2>2. /\ q[i].pdu \in Nat /\ q[k].pdu \in Nat /\ q[l].pdu \in Nat
        /\ q[i].pdu <= q[k].pdu /\ q[k].pdu <= q[l].pdu /\ q[i].pdu = q[l].pdu
    BY <1>2, <1>6, <2>1 DEF Before, Continues
  <2>3. q[i].pdu = q[k].pdu /\ q[k].pdu = q[l].pdu
    BY <2>2
  <2>4. /\ q[i].offset + q[i].length <= q[k].offset
        /\ q[k].offset + q[k].length <= q[l].offset
        /\ q[i].offset + q[i].length = q[l].offset
    BY <1>6, <2>1, <2>2, <2>3 DEF Before, Continues
  <2>5. /\ q[k].offset \in Nat /\ q[k].length \in Nat /\ q[k].length > 0
        /\ q[l].offset \in Nat
    BY <1>2
  <2> QED
    BY <2>4, <2>5
<1> QED
  BY <1>3, <1>4, <1>5, <1>6

\* The PDU whose last packet is taken is the next of those sent whole.
LEMMA LastIsNext ==
    ASSUME NEW q \in Seq(Packet), NEW h, NEW i \in Of(q, h), \A j \in Of(q, h) : ~(j < i),
           \A j \in Of(q, h) : Sound(q[j]), Ordered(h, q), IsLast(q[i]),
           NEW w \in Seq(Nat), Rising(w), NEW n \in Nat, Ends(h, q, w, n)
    PROVE  n + 1 \in DOMAIN w /\ w[n + 1] = q[i].pdu
<1>1. PICK m \in DOMAIN w : m > n /\ w[m] = q[i].pdu
  BY DEF Ends
<1>2. m \in Nat /\ n + 1 \in DOMAIN w
  BY <1>1
<1>3. ASSUME m # n + 1 PROVE FALSE
  <2>1. n + 1 < m /\ n + 1 > n
    BY <1>1, <1>2, <1>3
  <2>2. w[n + 1] < w[m]
    BY <1>1, <1>2, <2>1 DEF Rising
  <2>3. PICK j \in Of(q, h) : w[n + 1] = q[j].pdu
    BY <1>2, <2>1 DEF Ends
  <2>4. j = i \/ q[i].pdu < q[j].pdu
    BY BehindFirst
  <2>5. w[n + 1] \in Nat /\ w[m] \in Nat
    BY <1>1, <1>2
  <2> QED
    BY <1>1, <2>2, <2>3, <2>4, <2>5
<1> QED
  BY <1>1, <1>2, <1>3

\* The first packet of a link is taken, and its PDU goes on or is complete.
LEMMA FlowTaken ==
    ASSUME NEW q \in Seq(Packet), NEW q1 \in Seq(Packet), NEW h, NEW i \in Of(q, h),
           Without(q, i, q1), \A j \in Of(q, h) : ~(j < i), \A j \in Of(q, h) : Sound(q[j]),
           NEW w \in Seq(Nat), Rising(w), NEW n \in Nat, NEW r \in Pdu, Flow(h, q, w, n, r)
    PROVE  IF IsLast(q[i]) THEN Flow(h, q1, w, n + 1, NoPdu)
           ELSE Flow(h, q1, w, n, Reassembled(r, q[i]))
<1>1. Ordered(h, q) /\ Follows(h, q, r) /\ Ends(h, q, w, n) /\ i \in DOMAIN q
  BY DEF Flow, Of
<1>2. PICK place \in [Of(q1, h) -> Of(q, h) \ {i}] :
         /\ \A j \in Of(q1, h) : q1[j] = q[place[j]]
         /\ \A j, k \in Of(q1, h) : j < k <=> place[j] < place[k]
         /\ \A k \in Of(q, h) \ {i} : \E j \in Of(q1, h) : place[j] = k
  BY <1>1, WithoutOf
<1>3. \A j \in Of(q1, h) : place[j] \in Of(q, h) /\ place[j] # i /\ q1[j] = q[place[j]]
  BY <1>2
<1>4. Ordered(h, q1)
  BY <1>1, OrderedWithout
<1>5. /\ \A k \in Of(q, h) \ {i} : i < k /\ Before(q[i], q[k])
      /\ IsLast(q[i]) => \A k \in Of(q, h) \ {i} : q[i].pdu < q[k].pdu
      /\ \A k, l \in Of(q, h) : k < l /\ Continues(q[i], q[l]) => k = i
  BY <1>1, BehindFirst
<1>6. ASSUME NEW j \in Of(q1, h), q1[j].offset # 0
      PROVE  \/ \E k \in Of(q1, h) : k < j /\ Continues(q1[k], q1[j])
             \/ Continues(q[i], q[place[j]])
  <2>1. i < place[j]
    BY <1>3, <1>5
  <2>2. PICK k \in Of(q, h) : k < place[j] /\ Continues(q[k], q[place[j]])
    BY <1>1, <1>3, <1>6, <2>1 DEF Follows
  <2>3. CASE k # i
    <3>1. PICK k1 \in Of(q1, h) : place[k1] = k
      BY <1>2, <2>3
    <3> QED
      BY <1>2, <1>3, <2>2, <3>1
  <2> QED
    BY <2>2, <2>3
<1>7. CASE IsLast(q[i])
  <2>1. n + 1 \in DOMAIN w /\ w[n + 1] = q[i].pdu
    BY <1>1, <1>7, LastIsNext
  <2>2. \A k \in Of(q, h) : /\ k # i => q[i].pdu < q[k].pdu
                            /\ q[k].pdu \in Nat
    <3>1. \A k \in Of(q, h) : q[k] \in Packet
      BY DEF Of
    <3> QED
      BY <1>5, <1>7, <3>1 DEF Packet
  <2>3. Follows(h, q1, NoPdu)
    <3>1. \A k \in Of(q, h) : k # i => ~Continues(q[i], q[k])
      BY <2>2 DEF Continues
    <3> QED
      BY <1>3, <1>6, <3>1 DEF Follows
  <2>4. ASSUME NEW j \in Of(q1, h), IsLast(q1[j])
        PROVE  \E m \in DOMAIN w : m > n + 1 /\ w[m] = q1[j].pdu
    <3>1. PICK m \in DOMAIN w : m > n /\ w[m] = q[place[j]].pdu
      BY <1>1, <1>3, <2>4 DEF Ends
    <3>2. m # n + 1
      BY <1>3, <2>1, <2>2, <3>1
    <3>3. m > n + 1
      BY <3>1, <3>2
    <3> QED
      BY <1>3, <3>1, <3>3
  <2>5. ASSUME NEW m \in DOMAIN w, m > n + 1
        PROVE  \E j \in Of(q1, h) : IsLast(q1[j]) /\ w[m] = q1[j].pdu
    <3>1. w[n + 1] < w[m]
      BY <2>1, <2>5 DEF Rising
    <3>2. m > n /\ w[m] \in Nat /\ w[n + 1] \in Nat
      BY <2>1, <2>5
    <3>3. PICK k \in Of(q, h) : IsLast(q[k]) /\ w[m] = q[k].pdu
      BY <1>1, <3>2 DEF Ends
    <3>4. k # i
      BY <2>1, <3>1, <3>2, <3>3
    <3> QED
      BY <1>2, <1>3, <3>3, <3>4
  <2>6. Ends(h, q1, w, n + 1)
    BY <2>4, <2>5 DEF Ends
  <2> QED
    BY <1>4, <1>7, <2>3, <2>6 DEF Flow
<1>8. CASE ~IsLast(q[i])
  <2> DEFINE now == Reassembled(r, q[i])
  <2>1. now = [parts |-> {[pdu |-> q[i].pdu, inPlace |-> TRUE]},
               got |-> q[i].offset + q[i].length, total |-> q[i].total]
    BY <1>1, TakenInPlace
  <2> HIDE DEF now
  <2>2. ASSUME NEW j \in Of(q1, h), Continues(q[i], q[place[j]])
        PROVE  (\A k \in Of(q1, h) : ~(k < j)) /\ Holds(now, q1[j])
    <3>1. Holds(now, q[place[j]])
      BY <2>1, <2>2 DEF Holds, Continues
    <3>2. \A k \in Of(q1, h) : ~(k < j)
      BY <1>2, <1>3, <1>5, <2>2
    <3> QED
      BY <1>3, <3>1, <3>2
  <2>3. Follows(h, q1, now)
    BY <1>6, <2>2 DEF Follows
  <2>4. ASSUME NEW j \in Of(q1, h), IsLast(q1[j])
        PROVE  \E m \in DOMAIN w : m > n /\ w[m] = q1[j].pdu
    BY <1>1, <1>3, <2>4 DEF Ends
  <2>5. ASSUME NEW m \in DOMAIN w, m > n
        PROVE  \E j \in Of(q1, h) : IsLast(q1[j]) /\ w[m] = q1[j].pdu
    <3>1. PICK k \in Of(q, h) : IsLast(q[k]) /\ w[m] = q[k].pdu
      BY <1>1, <2>5 DEF Ends
    <3>2. k # i
      BY <1>8, <3>1
    <3> QED
      BY <1>2, <1>3, <3>1, <3>2
  <2>6. Ends(h, q1, w, n)
    BY <2>4, <2>5 DEF Ends
  <2> QED
    BY <1>4, <1>8, <2>3, <2>6 DEF Flow, now
<1> QED
  BY <1>7, <1>8

\* An element taken out of a sequence,
LEMMA RemoveAtWithout ==
    ASSUME NEW S, NEW s \in Seq(S), NEW i \in DOMAIN s
    PROVE  Without(s, i, RemoveAt(s, i))
<1> DEFINE front == SubSeq(s, 1, i - 1)
           back  == SubSeq(s, i + 1, Len(s))
           n == Len(s)
<1>1. i \in 1 .. n /\ n \in Nat
  OBVIOUS
<1>2. front \in Seq(S) /\ Len(front) = i - 1 /\ \A j \in 1 .. i - 1 : front[j] = s[j]
  BY <1>1, SubSeqProperties
<1>3. back \in Seq(S) /\ Len(back) = n - i /\ \A j \in 1 .. n - i : back[j] = s[i + j]
  BY <1>1, SubSeqProperties
<1>4. RemoveAt(s, i) = front \o back
  BY DEF RemoveAt
<1>5. RemoveAt(s, i) \in Seq(S) /\ Len(RemoveAt(s, i)) = n - 1
  BY RemoveAtType
<1> HIDE DEF front, back, n
<1>6. \A j \in 1 .. n - 1 : RemoveAt(s, i)[j] = IF j <= i - 1 THEN front[j] ELSE back[j - (i - 1)]
  <2>1. \A j \in 1 .. Len(front) + Len(back) :
           (front \o back)[j] = IF j <= Len(front) THEN front[j] ELSE back[j - Len(front)]
    BY <1>2, <1>3, ConcatProperties
  <2>2. Len(front) + Len(back) = n - 1
    BY <1>1, <1>2, <1>3
  <2>3. \A j \in 1 .. n - 1 :
           (front \o back)[j] = IF j <= Len(front) THEN front[j] ELSE back[j - Len(front)]
    BY <2>1, <2>2
  <2> QED
    BY <1>2, <1>4, <2>3
<1>7. ASSUME NEW j \in 1 .. n - 1 PROVE RemoveAt(s, i)[j] = s[IF j < i THEN j ELSE j + 1]
  <2>1. CASE j < i
    BY <1>1, <1>2, <1>6, <2>1
  <2>2. CASE ~(j < i)
    <3>1. PICK k : k = j - (i - 1)
      OBVIOUS
    <3>2. k \in 1 .. n - i /\ i + k = j + 1
      BY <1>1, <2>2, <3>1
    <3>3. RemoveAt(s, i)[j] = back[k]
      <4>1. ~(j <= i - 1)
        BY <1>1, <2>2
      <4> QED
        BY <1>6, <3>1, <4>1
    <3> QED
      BY <1>3, <2>2, <3>2, <3>3
  <2> QED
    BY <2>1, <2>2
<1>8. DOMAIN RemoveAt(s, i) = 1 .. n - 1
  BY <1>5
<1>9. \A j \in DOMAIN RemoveAt(s, i) : RemoveAt(s, i)[j] = s[IF j < i THEN j ELSE j + 1]
  BY <1>7, <1>8
<1>10. Len(RemoveAt(s, i)) = Len(s) - 1
  BY <1>5 DEF n
<1> QED
  BY <1>9, <1>10 DEF Without

\* ... out of the front part of a sequence in two parts,
LEMMA FrontWithout ==
    ASSUME NEW S, NEW s \in Seq(S), NEW s1 \in Seq(S), NEW t \in Seq(S), NEW i \in DOMAIN s,
           Without(s, i, s1)
    PROVE  i \in DOMAIN (s \o t) /\ (s \o t)[i] = s[i] /\ Without(s \o t, i, s1 \o t)
<1> DEFINE n == Len(s)
           m == Len(t)
<1>1. i \in 1 .. n /\ n \in Nat /\ m \in Nat
  OBVIOUS
<1>2. Len(s1) = n - 1 /\ \A j \in 1 .. n - 1 : s1[j] = s[IF j < i THEN j ELSE j + 1]
  BY DEF Without
<1>3. /\ s \o t \in Seq(S) /\ Len(s \o t) = n + m
      /\ \A j \in 1 .. n + m : (s \o t)[j] = IF j <= n THEN s[j] ELSE t[j - n]
  BY ConcatProperties
<1>4. /\ s1 \o t \in Seq(S) /\ Len(s1 \o t) = n - 1 + m
      /\ \A j \in 1 .. n - 1 + m : (s1 \o t)[j] = IF j <= n - 1 THEN s1[j] ELSE t[j - (n - 1)]
  <2>1. /\ s1 \o t \in Seq(S) /\ Len(s1 \o t) = Len(s1) + m
        /\ \A j \in 1 .. Len(s1) + m : (s1 \o t)[j] = IF j <= Len(s1) THEN s1[j] ELSE t[j - Len(s1)]
    BY ConcatProperties
  <2> QED
    BY <1>2, <2>1
<1>5. DOMAIN (s \o t) = 1 .. n + m /\ DOMAIN (s1 \o t) = 1 .. n - 1 + m
  BY <1>3, <1>4
<1> HIDE DEF n, m
<1>6. i \in DOMAIN (s \o t) /\ (s \o t)[i] = s[i]
  BY <1>1, <1>3, <1>5
<1>7. ASSUME NEW j \in 1 .. n - 1 + m
      PROVE  (s1 \o t)[j] = (s \o t)[IF j < i THEN j ELSE j + 1]
  <2>1. PICK k : k = IF j < i THEN j ELSE j + 1
    OBVIOUS
  <2>2. k \in 1 .. n + m
    BY <1>1, <2>1
  <2>3. CASE j <= n - 1
    <3>1. k <= n /\ j \in 1 .. n - 1
      BY <1>1, <2>1, <2>3
    <3>2. (s \o t)[k] = s[k]
      BY <1>3, <2>2, <3>1
    <3> QED
      BY <1>2, <1>4, <2>1, <2>3, <3>1, <3>2
  <2>4. CASE ~(j <= n - 1)
    <3>1. ~(k <= n) /\ k - n = j - (n - 1)
      BY <1>1, <2>1, <2>4
    <3>2. (s \o t)[k] = t[k - n]
      BY <1>3, <2>2, <3>1
    <3>3. (s1 \o t)[j] = t[j - (n - 1)]
      BY <1>4, <2>4
    <3> QED
      BY <2>1, <3>1, <3>2, <3>3
  <2> QED
    BY <2>3, <2>4
<1>8. Len(s1 \o t) = Len(s \o t) - 1
  BY <1>1, <1>3, <1>4
<1> QED
  BY <1>5, <1>6, <1>7, <1>8 DEF Without

\* ... out of the head of the back part, or across into the front part.
LEMMA BackWithout ==
    ASSUME NEW S, NEW s \in Seq(S), NEW t \in Seq(S), t # <<>>
    PROVE  /\ Len(s) + 1 \in DOMAIN (s \o t) /\ (s \o t)[Len(s) + 1] = Head(t)
           /\ Without(s \o t, Len(s) + 1, s \o Tail(t))
           /\ Append(s, Head(t)) \o Tail(t) = s \o t
<1> DEFINE n == Len(s)
           m == Len(t)
<1>1. n \in Nat /\ m \in Nat /\ m > 0
  BY EmptySeq
<1>2. /\ Head(t) \in S /\ Head(t) = t[1] /\ Tail(t) \in Seq(S) /\ Len(Tail(t)) = m - 1
      /\ \A j \in 1 .. m - 1 : Tail(t)[j] = t[j + 1]
  BY HeadTailProperties
<1>3. /\ s \o t \in Seq(S) /\ Len(s \o t) = n + m
      /\ \A j \in 1 .. n + m : (s \o t)[j] = IF j <= n THEN s[j] ELSE t[j - n]
  BY ConcatProperties
<1>4. /\ s \o Tail(t) \in Seq(S) /\ Len(s \o Tail(t)) = n + (m - 1)
      /\ \A j \in 1 .. n + (m - 1) : (s \o Tail(t))[j] = IF j <= n THEN s[j] ELSE Tail(t)[j - n]
  BY <1>2, ConcatProperties
<1>5. Append(s, Head(t)) \o Tail(t) = s \o t
  BY <1>2, HeadTailProperties, AppendIsConcat, ConcatAssociative
<1>6. DOMAIN (s \o t) = 1 .. n + m /\ DOMAIN (s \o Tail(t)) = 1 .. n + (m - 1)
  BY <1>3, <1>4
<1> HIDE DEF n, m
<1>7. n + 1 \in 1 .. n + m /\ (s \o t)[n + 1] = Head(t)
  <2>1. n + 1 \in 1 .. n + m /\ ~(n + 1 <= n) /\ (n + 1) - n = 1
    BY <1>1
  <2> QED
    BY <1>2, <1>3, <2>1
<1>8. ASSUME NEW j \in 1 .. n + (m - 1)
      PROVE  (s \o Tail(t))[j] = (s \o t)[IF j < n + 1 THEN j ELSE j + 1]
  <2>1. CASE j <= n
    BY <1>1, <1>3, <1>4, <2>1
  <2>2. CASE ~(j <= n)
    <3>1. PICK k : k = j - n
      OBVIOUS
    <3>2. k \in 1 .. m - 1 /\ (j + 1) - n = k + 1 /\ j + 1 \in 1 .. n + m /\ ~(j + 1 <= n) /\ ~(j < n + 1)
      BY <1>1, <2>2, <3>1
    <3>3. (s \o Tail(t))[j] = Tail(t)[k]
      BY <1>4, <2>2, <3>1
    <3>4. (s \o t)[j + 1] = t[k + 1]
      BY <1>3, <3>2
    <3> QED
      BY <1>2, <3>2, <3>3, <3>4
  <2> QED
    BY <2>1, <2>2
<1>9. Len(s \o Tail(t)) = Len(s \o t) - 1
  BY <1>1, <1>3, <1>4
<1>10. Without(s \o t, n + 1, s \o Tail(t))
  BY <1>6, <1>8, <1>9 DEF Without
<1> QED
  BY <1>5, <1>6, <1>7, <1>10 DEF n

-----------------------------------------------------------------------------
\* What hci_send_acl sends of a PDU c for link h: packets in order from its beginning, with the
\* last one exactly if it sends all of it.
Cut(h, c, s, all) ==
    /\ \A k \in DOMAIN s :
          /\ s[k].handle = h /\ s[k].pdu = c /\ Sound(s[k])
          /\ s[k].offset # 0 => k > 1 /\ Continues(s[k - 1], s[k])
          /\ \A j \in DOMAIN s : j < k => Before(s[j], s[k])
          /\ IsLast(s[k]) => all
    /\ all => \E k \in DOMAIN s : IsLast(s[k])

\* Where piece k of a PDU begins and ends; only the last ends with the PDU.
LEMMA PieceIs ==
    ASSUME HostTypes, le_acl_packet_length # 0,
           NEW h \in Handle, NEW length \in Length, NEW k \in 1 .. Pieces(length)
    PROVE  LET p == Piece(h, length, k) IN
           /\ p.handle = h /\ p.pdu = pdus + 1 /\ p.total = length
           /\ p.offset = (k - 1) * le_acl_packet_length
           /\ p.pb = "first" <=> p.offset = 0
           /\ p.length > 0 /\ p.offset + p.length <= length
           /\ k < Pieces(length) => p.offset + p.length = k * le_acl_packet_length /\ ~IsLast(p)
           /\ k = Pieces(length) => IsLast(p)
<1> DEFINE size == le_acl_packet_length
           n    == Pieces(length)
           p    == Piece(h, length, k)
<1>1. length \in Nat \ {0} /\ size \in Nat \ {0} /\ pdus \in Nat
  BY DEF HostTypes
<1>2. n \in Nat \ {0} /\ (n - 1) * size < length /\ length <= n * size
  BY <1>1, PiecesBounds DEF Pieces
<1>3. k \in Nat /\ 1 <= k /\ k <= n
  BY <1>2
<1>4. /\ p.handle = h /\ p.pdu = pdus + 1 /\ p.total = length
      /\ p.offset = (k - 1) * size
      /\ p.pb = IF k = 1 THEN "first" ELSE "continue"
      /\ p.length = IF k * size < length THEN size ELSE length - (k - 1) * size
  BY DEF Piece
<1> HIDE DEF n, p
<1>5. k * size \in Nat /\ (k - 1) * size \in Nat /\ k * size = (k - 1) * size + size
  BY <1>1, <1>3
<1>6. (k - 1) * size = 0 <=> k = 1
  BY <1>1, <1>3
<1>7. p.pb = "first" <=> p.offset = 0
  BY <1>4, <1>6
<1>8. CASE k < n
  <2>1. k * size <= (n - 1) * size
    BY <1>1, <1>2, <1>3, <1>8
  <2>2. (n - 1) * size \in Nat
    BY <1>1, <1>2
  <2>3. k * size < length
    BY <1>1, <1>2, <1>5, <2>1, <2>2
  <2>4. p.length = size /\ p.offset + p.length = k * size
    BY <1>1, <1>4, <1>5, <2>3
  <2>5. p.length > 0 /\ p.offset + p.length <= length /\ ~IsLast(p)
    BY <1>1, <1>4, <1>5, <2>3, <2>4 DEF IsLast
  <2> QED
    BY <1>4, <1>7, <1>8, <2>4, <2>5 DEF n, p
<1>9. CASE k = n
  <2>1. length <= k * size /\ (k - 1) * size < length
    BY <1>2, <1>9
  <2>2. p.length = length - (k - 1) * size
    BY <1>1, <1>4, <1>5, <2>1
  <2>3. p.length > 0 /\ p.offset + p.length = length
    BY <1>1, <1>4, <1>5, <2>1, <2>2
  <2>4. IsLast(p) /\ p.offset + p.length <= length
    BY <1>1, <1>4, <2>3 DEF IsLast
  <2> QED
    BY <1>4, <1>7, <1>9, <2>3, <2>4 DEF n, p
<1> QED
  BY <1>2, <1>3, <1>8, <1>9

\* The pieces hci_send_acl sends of a PDU, be it all or as many as there is credit for.
LEMMA PiecesCut ==
    ASSUME HostTypes, le_acl_packet_length # 0,
           NEW h \in Handle, NEW length \in Length, NEW n \in 1 .. Pieces(length)
    PROVE  Cut(h, pdus + 1, [k \in 1 .. n |-> Piece(h, length, k)], n = Pieces(length))
<1> DEFINE size == le_acl_packet_length
           last == Pieces(length)
           s    == [k \in 1 .. n |-> Piece(h, length, k)]
<1>1. length \in Nat \ {0} /\ size \in Nat \ {0} /\ last \in Nat /\ n \in 1 .. last
  <2>1. length \in Nat \ {0} /\ size \in Nat \ {0}
    BY DEF HostTypes
  <2> QED
    BY <2>1, PiecesBounds DEF Pieces
<1>2. \A k \in 1 .. n :
        LET p == s[k] IN
        /\ p.handle = h /\ p.pdu = pdus + 1 /\ p.total = length
        /\ p.offset = (k - 1) * size
        /\ p.pb = "first" <=> p.offset = 0
        /\ p.length > 0 /\ p.offset + p.length <= length
        /\ k < last => p.offset + p.length = k * size /\ ~IsLast(p)
        /\ k = last => IsLast(p)
  <2> SUFFICES ASSUME NEW k \in 1 .. n
               PROVE  LET p == s[k] IN
                      /\ p.handle = h /\ p.pdu = pdus + 1 /\ p.total = length
                      /\ p.offset = (k - 1) * size
                      /\ p.pb = "first" <=> p.offset = 0
                      /\ p.length > 0 /\ p.offset + p.length <= length
                      /\ k < last => p.offset + p.length = k * size /\ ~IsLast(p)
                      /\ k = last => IsLast(p)
    OBVIOUS
  <2>1. k \in 1 .. last /\ s[k] = Piece(h, length, k)
    BY <1>1
  <2> HIDE DEF s
  <2> QED
    BY <2>1, PieceIs
<1>3. DOMAIN s = 1 .. n
  OBVIOUS
<1> HIDE DEF s, last
<1>4. ASSUME NEW k \in 1 .. n
      PROVE  /\ s[k].handle = h /\ s[k].pdu = pdus + 1 /\ Sound(s[k])
             /\ IsLast(s[k]) => n = last
  <2>1. Sound(s[k])
    BY <1>2 DEF Sound
  <2>2. k < last \/ (k = last /\ n = last)
    BY <1>1
  <2> QED
    BY <1>2, <2>1, <2>2
<1>5. ASSUME NEW k \in 1 .. n, s[k].offset # 0 PROVE k > 1 /\ Continues(s[k - 1], s[k])
  <2>1. k # 1
    <3>1. (1 - 1) * size = 0
      BY <1>1
    <3> QED
      BY <1>2, <1>5, <3>1
  <2>2. PICK j : j = k - 1
    OBVIOUS
  <2>3. j \in 1 .. n /\ j < last /\ k > 1
    BY <1>1, <2>1, <2>2
  <2>4. s[j].offset + s[j].length = j * size /\ s[j].pdu = pdus + 1 /\ s[j].total = length
    BY <1>2, <2>3
  <2>5. s[k].offset = j * size /\ s[k].pdu = pdus + 1 /\ s[k].total = length
    BY <1>2, <2>2
  <2> QED
    BY <2>2, <2>3, <2>4, <2>5 DEF Continues
<1>6. ASSUME NEW k \in 1 .. n, NEW j \in 1 .. n, j < k PROVE Before(s[j], s[k])
  <2>1. j < last
    BY <1>1, <1>6
  <2>2. s[j].offset + s[j].length = j * size /\ s[k].offset = (k - 1) * size
    BY <1>2, <2>1
  <2>3. j * size <= (k - 1) * size
    <3>1. PICK a : a = k - 1
      OBVIOUS
    <3>2. a \in Nat /\ j \in Nat /\ j <= a
      BY <1>1, <1>6, <3>1
    <3>3. j * size <= a * size
      BY <1>1, <3>2
    <3> QED
      BY <3>1, <3>3
  <2> QED
    BY <1>2, <2>2, <2>3 DEF Before
<1>7. n = last => \E k \in 1 .. n : IsLast(s[k])
  BY <1>1, <1>2
<1>8. Cut(h, pdus + 1, s, n = last)
  BY <1>3, <1>4, <1>5, <1>6, <1>7 DEF Cut
<1> QED
  BY <1>8 DEF s, last

\* The packets of a link under way, followed by others.
LEMMA BehindOf ==
    ASSUME NEW q \in Seq(Packet), NEW s \in Seq(Packet), NEW h
    PROVE  /\ \A j \in Of(q, h) : /\ j \in Of(q \o s, h) /\ (q \o s)[j] = q[j]
                                  /\ j \in Nat /\ j <= Len(q)
           /\ \A k \in Of(s, h) : /\ Len(q) + k \in Of(q \o s, h) /\ (q \o s)[Len(q) + k] = s[k]
                                  /\ k \in Nat /\ k > 0
           /\ \A j \in Of(q \o s, h) : j \in Of(q, h) \/ \E k \in Of(s, h) : j = Len(q) + k
<1> DEFINE n == Len(q)
           m == Len(s)
           q1 == q \o s
<1>1. n \in Nat /\ m \in Nat /\ DOMAIN q = 1 .. n /\ DOMAIN s = 1 .. m
  OBVIOUS
<1>2. /\ q1 \in Seq(Packet) /\ Len(q1) = n + m
      /\ \A j \in 1 .. n + m : q1[j] = IF j <= n THEN q[j] ELSE s[j - n]
  BY ConcatProperties
<1>3. DOMAIN q1 = 1 .. n + m
  BY <1>2
<1> HIDE DEF n, m, q1
<1>4. ASSUME NEW j \in Of(q, h) PROVE j \in Of(q1, h) /\ q1[j] = q[j] /\ j \in Nat /\ j <= n
  <2>1. j \in 1 .. n /\ q[j].handle = h
    BY <1>1 DEF Of
  <2>2. j \in 1 .. n + m /\ j <= n /\ j \in Nat
    BY <1>1, <2>1
  <2>3. q1[j] = q[j]
    BY <1>2, <2>2
  <2> QED
    BY <1>3, <2>1, <2>2, <2>3 DEF Of
<1>5. ASSUME NEW k \in Of(s, h) PROVE n + k \in Of(q1, h) /\ q1[n + k] = s[k] /\ k \in Nat /\ k > 0
  <2>1. k \in 1 .. m /\ s[k].handle = h
    BY <1>1 DEF Of
  <2>2. n + k \in 1 .. n + m /\ ~(n + k <= n) /\ (n + k) - n = k /\ k \in Nat /\ k > 0
    BY <1>1, <2>1
  <2>3. q1[n + k] = s[k]
    BY <1>2, <2>2
  <2> QED
    BY <1>3, <2>1, <2>2, <2>3 DEF Of
<1>6. ASSUME NEW j \in Of(q1, h) PROVE j \in Of(q, h) \/ \E k \in Of(s, h) : j = n + k
  <2>1. j \in 1 .. n + m /\ q1[j].handle = h
    BY <1>3 DEF Of
  <2>2. CASE j <= n
    BY <1>1, <1>2, <2>1, <2>2 DEF Of
  <2>3. CASE ~(j <= n)
    <3>1. PICK k : k = j - n
      OBVIOUS
    <3>2. k \in 1 .. m /\ j = n + k
      BY <1>1, <2>1, <2>3, <3>1
    <3>3. q1[j] = s[k]
      BY <1>2, <2>1, <2>3, <3>1
    <3>4. k \in Of(s, h)
      BY <1>1, <2>1, <3>2, <3>3 DEF Of
    <3> QED
      BY <3>2, <3>4
  <2> QED
    BY <2>2, <2>3
<1> QED
  BY <1>4, <1>5, <1>6 DEF n, q1

\* Packets are sent on another link.
LEMMA FlowOther ==
    ASSUME NEW q \in Seq(Packet), NEW s \in Seq(Packet), NEW h, Of(s, h) = {},
           NEW w, NEW n, NEW r, Flow(h, q, w, n, r)
    PROVE  Flow(h, q \o s, w, n, r)
<1> DEFINE q1 == q \o s
<1>1. /\ \A j \in Of(q, h) : j \in Of(q1, h) /\ q1[j] = q[j]
      /\ \A j \in Of(q1, h) : j \in Of(q, h)
  BY BehindOf
<1> HIDE DEF q1
<1>2. Ordered(h, q1)
  BY <1>1 DEF Flow, Ordered
<1>3. Follows(h, q1, r)
  BY <1>1 DEF Flow, Follows
<1>4. Ends(h, q1, w, n)
  BY <1>1 DEF Flow, Ends
<1> QED
  BY <1>2, <1>3, <1>4 DEF Flow, q1

\* Packets of a new PDU are sent on the link.
LEMMA FlowSent ==
    ASSUME NEW q \in Seq(Packet), NEW s \in Seq(Packet), NEW h, NEW c \in Nat, NEW all \in BOOLEAN,
           Cut(h, c, s, all), \A j \in Of(q, h) : q[j].pdu < c,
           NEW w \in Seq(Nat), NEW n \in Nat, n <= Len(w), NEW r, Flow(h, q, w, n, r)
    PROVE  Flow(h, q \o s, IF all THEN Append(w, c) ELSE w, n, r)
<1> DEFINE q1 == q \o s
           l  == Len(q)
           w1 == IF all THEN Append(w, c) ELSE w
<1>1. l \in Nat /\ Of(s, h) = DOMAIN s
  <2>1. \A k \in DOMAIN s : s[k].handle = h
    BY DEF Cut
  <2>2. Of(s, h) = DOMAIN s
    BY <2>1 DEF Of
  <2> QED
    BY <2>2
<1>2. /\ \A j \in Of(q, h) : j \in Of(q1, h) /\ q1[j] = q[j] /\ j \in Nat /\ j <= l
      /\ \A k \in DOMAIN s : l + k \in Of(q1, h) /\ q1[l + k] = s[k] /\ k \in Nat /\ k > 0
      /\ \A j \in Of(q1, h) : j \in Of(q, h) \/ \E k \in DOMAIN s : j = l + k
  <2>1. /\ \A j \in Of(q, h) : j \in Of(q1, h) /\ q1[j] = q[j] /\ j \in Nat /\ j <= l
        /\ \A k \in Of(s, h) : l + k \in Of(q1, h) /\ q1[l + k] = s[k] /\ k \in Nat /\ k > 0
        /\ \A j \in Of(q1, h) : j \in Of(q, h) \/ \E k \in Of(s, h) : j = l + k
    BY BehindOf
  <2> QED
    BY <1>1, <2>1
<1>3. /\ \A m \in DOMAIN w : m \in DOMAIN w1 /\ w1[m] = w[m]
      /\ all => Len(w) + 1 \in DOMAIN w1 /\ w1[Len(w) + 1] = c
      /\ \A m \in DOMAIN w1 : m \in DOMAIN w \/ (all /\ w1[m] = c)
  <2>1. CASE all
    <3>1. w1 = Append(w, c) /\ Len(w) \in Nat /\ DOMAIN w = 1 .. Len(w)
      BY <2>1
    <3>2. /\ Len(w1) = Len(w) + 1 /\ w1 \in Seq(Nat) /\ w1[Len(w) + 1] = c
          /\ \A m \in 1 .. Len(w) : w1[m] = w[m]
      <4>1. /\ Append(w, c) \in Seq(Nat) /\ Len(Append(w, c)) = Len(w) + 1
            /\ Append(w, c)[Len(w) + 1] = c /\ \A m \in 1 .. Len(w) : Append(w, c)[m] = w[m]
        BY AppendProperties
      <4> QED
        BY <3>1, <4>1
    <3>3. DOMAIN w1 = 1 .. Len(w) + 1
      BY <3>2
    <3> DEFINE e == Len(w)
    <3> HIDE DEF w1, e
    <3>4. e \in Nat /\ DOMAIN w = 1 .. e /\ DOMAIN w1 = 1 .. e + 1
      BY <3>1, <3>3 DEF e
    <3>5. \A m \in 1 .. e + 1 : m \in 1 .. e \/ m = e + 1
      BY <3>4
    <3>6. e + 1 \in 1 .. e + 1 /\ 1 .. e \subseteq 1 .. e + 1
      BY <3>4
    <3>7. w1[e + 1] = c /\ \A m \in 1 .. e : w1[m] = w[m]
      BY <3>2 DEF e
    <3>8. /\ \A m \in DOMAIN w : m \in DOMAIN w1 /\ w1[m] = w[m]
          /\ e + 1 \in DOMAIN w1 /\ w1[e + 1] = c
          /\ \A m \in DOMAIN w1 : m \in DOMAIN w \/ w1[m] = c
      BY <3>4, <3>5, <3>6, <3>7
    <3> QED
      BY <2>1, <3>8 DEF e
  <2>2. CASE ~all
    BY <2>2
  <2> QED
    BY <2>1, <2>2
<1> HIDE DEF q1, l, w1
<1>4. Ordered(h, q1)
  <2> SUFFICES ASSUME NEW i \in Of(q1, h), NEW j \in Of(q1, h), i < j
               PROVE  Before(q1[i], q1[j])
    BY DEF Ordered
  <2>1. CASE i \in Of(q, h) /\ j \in Of(q, h)
    BY <1>2, <2>1 DEF Flow, Ordered
  <2>2. ASSUME NEW k \in DOMAIN s, j = l + k, i \in Of(q, h) PROVE Before(q1[i], q1[j])
    <3>1. q1[j] = s[k] /\ q1[i] = q[i] /\ s[k].pdu = c
      BY <1>2, <2>2 DEF Cut
    <3> QED
      BY <2>2, <3>1 DEF Before
  <2>3. ASSUME NEW k \in DOMAIN s, i = l + k, j \in Of(q, h) PROVE FALSE
    <3>1. k \in Nat /\ k > 0 /\ j \in Nat /\ j <= l
      BY <1>2, <2>3
    <3> QED
      BY <1>1, <2>3, <3>1
  <2>4. ASSUME NEW k \in DOMAIN s, NEW m \in DOMAIN s, i = l + m, j = l + k
        PROVE  Before(q1[i], q1[j])
    <3>1. k \in Nat /\ m \in Nat /\ q1[i] = s[m] /\ q1[j] = s[k]
      BY <1>2, <2>4
    <3>2. m < k
      BY <1>1, <2>4, <3>1
    <3> QED
      BY <3>1, <3>2 DEF Cut
  <2> QED
    BY <1>2, <2>1, <2>2, <2>3, <2>4
<1>5. Follows(h, q1, r)
  <2> SUFFICES ASSUME NEW j \in Of(q1, h), q1[j].offset # 0
               PROVE  \/ \E i \in Of(q1, h) : i < j /\ Continues(q1[i], q1[j])
                      \/ (\A i \in Of(q1, h) : ~(i < j)) /\ Holds(r, q1[j])
    BY DEF Follows
  <2>1. CASE j \in Of(q, h)
    <3>1. q1[j] = q[j] /\ j \in Nat /\ j <= l
      BY <1>2, <2>1
    <3>2. CASE \E i \in Of(q, h) : i < j /\ Continues(q[i], q[j])
      <4>1. PICK i \in Of(q, h) : i < j /\ Continues(q[i], q[j])
        BY <3>2
      <4>2. i \in Of(q1, h) /\ q1[i] = q[i]
        BY <1>2
      <4> QED
        BY <3>1, <4>1, <4>2
    <3>3. CASE (\A i \in Of(q, h) : ~(i < j)) /\ Holds(r, q[j])
      <4>1. \A k \in DOMAIN s : ~(l + k < j)
        <5>1. \A k \in DOMAIN s : k \in Nat /\ k > 0
          BY <1>2
        <5> QED
          BY <1>1, <3>1, <5>1
      <4> QED
        BY <1>2, <3>1, <3>3, <4>1
    <3> QED
      BY <2>1, <3>1, <3>2, <3>3 DEF Flow, Follows
  <2>2. ASSUME NEW k \in DOMAIN s, j = l + k
        PROVE  \E i \in Of(q1, h) : i < j /\ Continues(q1[i], q1[j])
    <3>1. q1[j] = s[k] /\ k \in Nat
      BY <1>2, <2>2
    <3>2. k > 1 /\ Continues(s[k - 1], s[k])
      BY <3>1 DEF Cut
    <3>3. PICK i : i = k - 1
      OBVIOUS
    <3>4. i \in DOMAIN s
      <4>1. DOMAIN s = 1 .. Len(s) /\ Len(s) \in Nat
        OBVIOUS
      <4> QED
        BY <3>1, <3>2, <3>3, <4>1
    <3>5. l + i \in Of(q1, h) /\ q1[l + i] = s[i]
      BY <1>2, <3>4
    <3>6. l + i < j
      BY <1>1, <2>2, <3>1, <3>3
    <3> QED
      BY <3>1, <3>2, <3>3, <3>5, <3>6
  <2> QED
    BY <1>2, <2>1, <2>2
<1>6. Ends(h, q1, w1, n)
  <2>1. ASSUME NEW j \in Of(q1, h), IsLast(q1[j])
        PROVE  \E m \in DOMAIN w1 : m > n /\ w1[m] = q1[j].pdu
    <3>1. CASE j \in Of(q, h)
      <4>1. PICK m \in DOMAIN w : m > n /\ w[m] = q[j].pdu
        BY <1>2, <2>1, <3>1 DEF Flow, Ends
      <4> QED
        BY <1>2, <1>3, <3>1, <4>1
    <3>2. ASSUME NEW k \in DOMAIN s, j = l + k
          PROVE  \E m \in DOMAIN w1 : m > n /\ w1[m] = q1[j].pdu
      <4>1. q1[j] = s[k] /\ s[k].pdu = c /\ all
        BY <1>2, <2>1, <3>2 DEF Cut
      <4>2. Len(w) + 1 > n
        OBVIOUS
      <4> QED
        BY <1>3, <4>1, <4>2
    <3> QED
      BY <1>2, <3>1, <3>2
  <2>2. ASSUME NEW m \in DOMAIN w1, m > n
        PROVE  \E j \in Of(q1, h) : IsLast(q1[j]) /\ w1[m] = q1[j].pdu
    <3>1. CASE m \in DOMAIN w
      <4>1. PICK j \in Of(q, h) : IsLast(q[j]) /\ w[m] = q[j].pdu
        BY <2>2, <3>1 DEF Flow, Ends
      <4> QED
        BY <1>2, <1>3, <3>1, <4>1
    <3>2. CASE all /\ w1[m] = c
      <4>1. PICK k \in DOMAIN s : IsLast(s[k])
        BY <3>2 DEF Cut
      <4>2. s[k].pdu = c /\ l + k \in Of(q1, h) /\ q1[l + k] = s[k]
        BY <1>2 DEF Cut
      <4> QED
        BY <3>2, <4>1, <4>2
    <3> QED
      BY <1>3, <3>1, <3>2
  <2> QED
    BY <2>1, <2>2 DEF Ends
<1>7. Flow(h, q1, w1, n, r)
  BY <1>4, <1>5, <1>6 DEF Flow
<1> QED
  BY <1>7 DEF q1, w1

-----------------------------------------------------------------------------
\* That a peer's PDUs are whole is not inductive: what it has put together says nothing of the
\* packets still under way.  The invariant speaks of those in the controller and those on the
\* way to it as one sequence: each link's packets in it go on where its peer stands, and their
\* last ones belong to the PDUs sent whole that the peer does not have yet.
InFlight == held \o wire

PacketsSound == \A j \in DOMAIN InFlight : Sound(InFlight[j]) /\ InFlight[j].pdu <= pdus

PdusRise == \A h \in Handle : /\ Rising(whole[h])
                              /\ \A a \in DOMAIN whole[h] : whole[h][a] <= pdus

Flows == \A h \in alive : Flow(h, InFlight, whole[h], Len(received[h]), partial[h])

PeersHaveWhole ==
    \A h \in Handle :
        /\ Len(received[h]) <= Len(whole[h])
        /\ \A i \in DOMAIN received[h] : received[h][i] = {[pdu |-> whole[h][i], inPlace |-> TRUE]}

Whole == PacketsSound /\ PdusRise /\ Flows /\ PeersHaveWhole

\* At first nothing is under way.
LEMMA InitWhole == Init => Whole
<1> SUFFICES ASSUME Init PROVE Whole
  OBVIOUS
<1>1. InFlight = <<>> /\ DOMAIN InFlight = {}
  <2>1. held = <<>> /\ wire = <<>>
    BY DEF Init
  <2>2. InFlight = <<>>
    BY <2>1 DEF InFlight
  <2> QED
    BY <2>2
<1>2. PacketsSound
  BY <1>1 DEF PacketsSound
<1>3. \A h \in Handle : whole[h] = <<>> /\ received[h] = <<>>
  BY DEF Init
<1>4. DOMAIN <<>> = {} /\ Len(<<>>) = 0
  OBVIOUS
<1>5. PdusRise
  BY <1>3, <1>4 DEF PdusRise, Rising
<1>6. Flows
  BY DEF Flows, Init
<1>7. PeersHaveWhole
  <2>1. \A h \in Handle : Len(received[h]) <= Len(whole[h]) /\ DOMAIN received[h] = {}
    BY <1>3, <1>4
  <2> QED
    BY <2>1 DEF PeersHaveWhole
<1> QED
  BY <1>2, <1>5, <1>6, <1>7 DEF Whole

\* Nothing under way changes, or only from the wire into the controller.
LEMMA WholeQuiet ==
    ASSUME Whole, HostTypes, HostTypes', InFlight' = InFlight, whole' = whole, partial' = partial,
           received' = received, pdus' >= pdus, alive' \subseteq alive
    PROVE  Whole'
<1>1. pdus \in Nat /\ pdus' \in Nat
  BY DEF HostTypes
<1>2. InFlight \in Seq(Packet)
  BY ConcatProperties DEF HostTypes, InFlight
<1>3. PacketsSound'
  <2>1. \A j \in DOMAIN InFlight : InFlight[j].pdu \in Nat
    <3>1. \A j \in DOMAIN InFlight : InFlight[j] \in Packet
      BY <1>2
    <3> QED
      BY <3>1 DEF Packet
  <2>2. \A j \in DOMAIN InFlight : Sound(InFlight[j]) /\ InFlight[j].pdu <= pdus
    BY DEF Whole, PacketsSound
  <2>3. \A j \in DOMAIN InFlight : Sound(InFlight[j]) /\ InFlight[j].pdu <= pdus'
    BY <1>1, <2>1, <2>2
  <2> QED
    BY <2>3 DEF PacketsSound
<1>4. PdusRise'
  <2>1. \A h \in Handle : \A a \in DOMAIN whole[h] : whole[h][a] \in Nat
    BY DEF HostTypes
  <2>2. \A h \in Handle : \A a \in DOMAIN whole[h] : whole[h][a] <= pdus
    BY DEF Whole, PdusRise
  <2>3. \A h \in Handle : \A a \in DOMAIN whole[h] : whole[h][a] <= pdus'
    BY <1>1, <2>1, <2>2
  <2>4. \A h \in Handle : Rising(whole[h])
    BY DEF Whole, PdusRise
  <2> QED
    BY <2>3, <2>4 DEF PdusRise
<1>5. Flows'
  BY DEF Whole, Flows
<1>6. PeersHaveWhole'
  BY DEF Whole, PeersHaveWhole
<1> QED
  BY <1>3, <1>4, <1>5, <1>6 DEF Whole

\* The packets left are sound as before.
LEMMA SoundWithout ==
    ASSUME HostTypes, HostTypes', PacketsSound, pdus' = pdus,
           NEW i \in DOMAIN InFlight, Without(InFlight, i, InFlight')
    PROVE  PacketsSound'
<1>1. InFlight \in Seq(Packet) /\ InFlight' \in Seq(Packet)
  BY ConcatProperties DEF HostTypes, InFlight
<1>2. \A j \in DOMAIN InFlight' : \E k \in DOMAIN InFlight : InFlight'[j] = InFlight[k]
  BY <1>1, WithoutPlaces
<1> QED
  BY <1>2 DEF PacketsSound

\* A packet is thrown away with its link.
LEMMA WholeGone ==
    ASSUME Whole, HostTypes, HostTypes', NEW i \in DOMAIN InFlight,
           Without(InFlight, i, InFlight'), InFlight[i].handle \notin alive,
           whole' = whole, partial' = partial, received' = received, pdus' = pdus, alive' = alive
    PROVE  Whole'
<1>1. InFlight \in Seq(Packet) /\ InFlight' \in Seq(Packet)
  BY ConcatProperties DEF HostTypes, InFlight
<1>2. PacketsSound'
  BY SoundWithout DEF Whole
<1>3. PdusRise'
  BY DEF Whole, PdusRise
<1>4. \A h \in alive : Flow(h, InFlight', whole[h], Len(received[h]), partial[h])
  <2> SUFFICES ASSUME NEW h \in alive
               PROVE  Flow(h, InFlight', whole[h], Len(received[h]), partial[h])
    OBVIOUS
  <2>1. Flow(h, InFlight, whole[h], Len(received[h]), partial[h]) /\ InFlight[i].handle # h
    BY DEF Whole, Flows
  <2> QED
    BY <1>1, <2>1, FlowWithout
<1>5. Flows'
  BY <1>4 DEF Flows
<1>6. PeersHaveWhole'
  BY DEF Whole, PeersHaveWhole
<1> QED
  BY <1>2, <1>3, <1>5, <1>6 DEF Whole

\* A new link has nothing under way.
LEMMA WholeLinkUp ==
    ASSUME Whole, HostTypes, HostTypes', PeerTypes, NEW h \in Handle, LinkUp(h)
    PROVE  Whole'
<1>1. /\ InFlight' = InFlight /\ pdus' = pdus /\ alive' = alive \cup {h}
      /\ whole' = [whole EXCEPT ![h] = <<>>]
      /\ partial' = [partial EXCEPT ![h] = NoPdu]
      /\ received' = [received EXCEPT ![h] = <<>>]
  BY DEF LinkUp, InFlight
<1>2. /\ whole'[h] = <<>> /\ partial'[h] = NoPdu /\ received'[h] = <<>>
      /\ \A g \in Handle \ {h} : whole'[g] = whole[g] /\ partial'[g] = partial[g]
                                 /\ received'[g] = received[g]
  BY <1>1 DEF HostTypes, PeerTypes
<1>3. Of(InFlight, h) = {}
  <2>1. held \in Seq(Packet) /\ wire \in Seq(Packet)
    BY DEF HostTypes
  <2>2. Of(held, h) = {} /\ Of(wire, h) = {}
    BY DEF LinkUp, Of
  <2>3. \A j \in Of(held \o wire, h) : j \in Of(held, h) \/ \E k \in Of(wire, h) : j = Len(held) + k
    BY <2>1, BehindOf
  <2> QED
    BY <2>2, <2>3 DEF InFlight
<1>4. DOMAIN <<>> = {} /\ Len(<<>>) = 0
  OBVIOUS
<1>5. PacketsSound'
  BY <1>1 DEF Whole, PacketsSound
<1>6. PdusRise'
  <2>1. \A g \in Handle : Rising(whole'[g]) /\ \A a \in DOMAIN whole'[g] : whole'[g][a] <= pdus
    <3>1. Rising(<<>>)
      BY <1>4 DEF Rising
    <3>2. \A g \in Handle \ {h} : Rising(whole'[g]) /\ \A a \in DOMAIN whole'[g] : whole'[g][a] <= pdus
      BY <1>2 DEF Whole, PdusRise
    <3> QED
      BY <1>2, <1>4, <3>1, <3>2
  <2> QED
    BY <1>1, <2>1 DEF PdusRise
<1>7. \A g \in alive' : Flow(g, InFlight, whole'[g], Len(received'[g]), partial'[g])
  <2>1. Flow(h, InFlight, <<>>, 0, NoPdu)
    <3>1. Ordered(h, InFlight) /\ Follows(h, InFlight, NoPdu)
      BY <1>3 DEF Ordered, Follows
    <3>2. Ends(h, InFlight, <<>>, 0)
      BY <1>3, <1>4 DEF Ends
    <3> QED
      BY <3>1, <3>2 DEF Flow
  <2>2. \A g \in alive \ {h} : Flow(g, InFlight, whole'[g], Len(received'[g]), partial'[g])
    BY <1>2 DEF Whole, Flows, HostTypes
  <2> QED
    BY <1>1, <1>2, <1>4, <2>1, <2>2
<1>8. Flows'
  BY <1>1, <1>7 DEF Flows
<1>9. PeersHaveWhole'
  <2>1. \A g \in Handle \ {h} :
           /\ Len(received'[g]) <= Len(whole'[g])
           /\ \A i \in DOMAIN received'[g] : received'[g][i] = {[pdu |-> whole'[g][i], inPlace |-> TRUE]}
    BY <1>2 DEF Whole, PeersHaveWhole
  <2>2. Len(received'[h]) <= Len(whole'[h]) /\ DOMAIN received'[h] = {}
    BY <1>2, <1>4
  <2> QED
    BY <2>1, <2>2 DEF PeersHaveWhole
<1> QED
  BY <1>5, <1>6, <1>8, <1>9 DEF Whole

\* A PDU is cut into packets that go behind all others.
LEMMA WholeSent ==
    ASSUME Whole, IInv, HostTypes', PeerTypes, NEW h \in Handle, NEW length \in Length,
           hci_send_acl(h, length), hci_send_acl_allowed
    PROVE  Whole'
<1> DEFINE n   == SentPieces(length)
           s   == [k \in 1 .. n |-> Piece(h, length, k)]
           all == n = Pieces(length)
           c   == pdus + 1
<1>1. HostTypes /\ le_acl_packet_length # 0
  BY DEF IInv, hci_send_acl_allowed, NothingYet
<1>2. Pieces(length) \in Nat \ {0}
  BY <1>1, PiecesBounds DEF Pieces, HostTypes
<1>3. n \in 1 .. Pieces(length) /\ all \in BOOLEAN /\ c \in Nat /\ pdus \in Nat /\ c > pdus
  <2>1. num_of_allowed_le_acl_packets \in Nat /\ pdus \in Nat
    BY <1>1 DEF HostTypes
  <2>2. n \in 1 .. Pieces(length)
    BY <1>2, <2>1 DEF SentPieces, hci_send_acl_allowed
  <2> QED
    BY <2>1, <2>2
<1>4. Cut(h, c, s, all)
  BY <1>1, <1>3, PiecesCut
<1>5. s \in Seq(Packet)
  <2>1. \A k \in 1 .. n : Piece(h, length, k) \in Packet
    BY <1>1, <1>2, <1>3, PieceType
  <2>2. n \in Nat
    BY <1>2, <1>3
  <2> HIDE DEF n
  <2> QED
    BY <2>1, <2>2
<1>6. /\ wire' = wire \o s /\ held' = held /\ pdus' = c /\ partial' = partial
      /\ received' = received /\ alive' = alive
      /\ whole' = IF all THEN [whole EXCEPT ![h] = Append(whole[h], c)] ELSE whole
  BY DEF hci_send_acl, peerVars
<1> HIDE DEF n, s, all, c
<1>7. held \in Seq(Packet) /\ wire \in Seq(Packet) /\ InFlight \in Seq(Packet)
  BY <1>1, ConcatProperties DEF HostTypes, InFlight
<1>8. InFlight' = InFlight \o s
  <2>1. (held \o wire) \o s = held \o (wire \o s)
    BY <1>5, <1>7, ConcatAssociative
  <2>2. InFlight' = held \o (wire \o s)
    BY <1>6 DEF InFlight
  <2> QED
    BY <2>1, <2>2 DEF InFlight
<1>9. \A j \in DOMAIN InFlight : Sound(InFlight[j]) /\ InFlight[j].pdu <= pdus /\ InFlight[j].pdu \in Nat
  <2>1. \A j \in DOMAIN InFlight : InFlight[j] \in Packet
    BY <1>7
  <2> QED
    BY <2>1 DEF Whole, PacketsSound, Packet
<1>10. \A k \in DOMAIN s : Sound(s[k]) /\ s[k].pdu = c /\ s[k].handle = h
  BY <1>4 DEF Cut
<1>11. PacketsSound'
  <2>1. \A j \in DOMAIN (InFlight \o s) : \/ \E k \in DOMAIN InFlight : (InFlight \o s)[j] = InFlight[k]
                                          \/ \E k \in DOMAIN s : (InFlight \o s)[j] = s[k]
    <3> DEFINE q == InFlight
               l == Len(q)
               m == Len(s)
    <3>1. /\ q \o s \in Seq(Packet) /\ Len(q \o s) = l + m
          /\ \A j \in 1 .. l + m : (q \o s)[j] = IF j <= l THEN q[j] ELSE s[j - l]
      BY <1>5, <1>7, ConcatProperties
    <3>2. l \in Nat /\ m \in Nat /\ DOMAIN q = 1 .. l /\ DOMAIN s = 1 .. m /\ DOMAIN (q \o s) = 1 .. l + m
      BY <1>5, <1>7, <3>1
    <3> HIDE DEF l, m, q
    <3>3. ASSUME NEW j \in 1 .. l + m, ~(j <= l) PROVE j - l \in 1 .. m
      BY <3>2, <3>3
    <3>4. ASSUME NEW j \in 1 .. l + m, j <= l PROVE j \in 1 .. l
      BY <3>2, <3>4
    <3> QED
      BY <3>1, <3>2, <3>3, <3>4 DEF q
  <2>2. \A j \in DOMAIN (InFlight \o s) : Sound((InFlight \o s)[j]) /\ (InFlight \o s)[j].pdu <= c
    BY <1>3, <1>9, <1>10, <2>1
  <2> QED
    BY <1>6, <1>8, <2>2 DEF PacketsSound
<1>12. /\ whole'[h] = IF all THEN Append(whole[h], c) ELSE whole[h]
       /\ \A g \in Handle \ {h} : whole'[g] = whole[g]
       /\ whole[h] \in Seq(Nat)
  BY <1>1, <1>6 DEF HostTypes
<1>13. \A a \in DOMAIN whole[h] : whole[h][a] <= pdus /\ whole[h][a] \in Nat /\ whole[h][a] < c
  <2>1. \A a \in DOMAIN whole[h] : whole[h][a] <= pdus /\ whole[h][a] \in Nat
    BY <1>12 DEF Whole, PdusRise
  <2> QED
    BY <1>3, <2>1
<1>14. /\ Append(whole[h], c) \in Seq(Nat) /\ Len(Append(whole[h], c)) = Len(whole[h]) + 1
       /\ \A a \in DOMAIN whole[h] : Append(whole[h], c)[a] = whole[h][a]
       /\ \A a \in DOMAIN Append(whole[h], c) :
             a \in DOMAIN whole[h] \/ (a = Len(whole[h]) + 1 /\ Append(whole[h], c)[a] = c)
  <2> DEFINE l == Len(whole[h])
             w == Append(whole[h], c)
  <2>1. w \in Seq(Nat) /\ Len(w) = l + 1 /\ w[l + 1] = c /\ \A a \in 1 .. l : w[a] = whole[h][a]
    BY <1>3, <1>12, AppendProperties
  <2>2. l \in Nat /\ DOMAIN whole[h] = 1 .. l /\ DOMAIN w = 1 .. l + 1
    BY <1>12, <2>1
  <2> HIDE DEF l, w
  <2>3. \A a \in 1 .. l + 1 : a \in 1 .. l \/ a = l + 1
    BY <2>2
  <2>4. /\ w \in Seq(Nat) /\ Len(w) = l + 1
        /\ \A a \in DOMAIN whole[h] : w[a] = whole[h][a]
        /\ \A a \in DOMAIN w : a \in DOMAIN whole[h] \/ (a = l + 1 /\ w[a] = c)
    BY <2>1, <2>2, <2>3
  <2> QED
    BY <2>4 DEF l, w
<1>15. Rising(whole'[h]) /\ \A a \in DOMAIN whole'[h] : whole'[h][a] <= c
  <2>1. Rising(whole[h]) /\ \A a \in DOMAIN whole[h] : whole[h][a] <= c
    BY <1>3, <1>13 DEF Whole, PdusRise
  <2> DEFINE l == Len(whole[h])
             w == Append(whole[h], c)
  <2>2. l \in Nat /\ DOMAIN whole[h] = 1 .. l
    BY <1>12
  <2>3. /\ \A a \in 1 .. l : w[a] = whole[h][a] /\ w[a] < c
        /\ \A a \in DOMAIN w : a \in 1 .. l \/ (a = l + 1 /\ w[a] = c)
    BY <1>13, <1>14, <2>2
  <2> HIDE DEF l, w
  <2>4. Rising(w)
    <3> SUFFICES ASSUME NEW a \in DOMAIN w, NEW b \in DOMAIN w, a < b PROVE w[a] < w[b]
      BY DEF Rising
    <3>1. CASE a \in 1 .. l /\ b \in 1 .. l
      BY <2>1, <2>2, <2>3, <3>1 DEF Rising
    <3>2. CASE a = l + 1 /\ b \in 1 .. l
      BY <2>2, <3>2
    <3>3. CASE b = l + 1 /\ w[b] = c /\ a \in 1 .. l
      BY <2>3, <3>3
    <3>4. CASE a = l + 1 /\ b = l + 1
      BY <2>2, <3>4
    <3> QED
      BY <2>3, <3>1, <3>2, <3>3, <3>4
  <2>5. \A a \in DOMAIN w : w[a] <= c
    BY <1>3, <1>13, <2>2, <2>3
  <2> QED
    BY <1>12, <2>1, <2>4, <2>5 DEF w
<1>16. PdusRise'
  <2>1. \A g \in Handle \ {h} : Rising(whole'[g]) /\ \A a \in DOMAIN whole'[g] : whole'[g][a] <= c
    <3>1. \A g \in Handle : \A a \in DOMAIN whole[g] : whole[g][a] \in Nat /\ whole[g][a] <= pdus
      <4>1. \A g \in Handle : whole[g] \in Seq(Nat)
        BY <1>1 DEF HostTypes
      <4>2. \A g \in Handle : \A a \in DOMAIN whole[g] : whole[g][a] \in Nat
        BY <4>1
      <4>3. \A g \in Handle : \A a \in DOMAIN whole[g] : whole[g][a] <= pdus
        BY DEF Whole, PdusRise
      <4> QED
        BY <4>2, <4>3
    <3>2. \A g \in Handle : \A a \in DOMAIN whole[g] : whole[g][a] <= c
      BY <1>3, <3>1
    <3> QED
      BY <1>12, <3>2 DEF Whole, PdusRise
  <2> QED
    BY <1>6, <1>15, <2>1 DEF PdusRise
<1>17. Len(received[h]) \in Nat /\ Len(received[h]) <= Len(whole[h])
  BY DEF Whole, PeersHaveWhole, PeerTypes
<1>18. \A g \in alive : Flow(g, InFlight \o s, whole'[g], Len(received[g]), partial[g])
  <2> SUFFICES ASSUME NEW g \in alive
               PROVE  Flow(g, InFlight \o s, whole'[g], Len(received[g]), partial[g])
    OBVIOUS
  <2>1. Flow(g, InFlight, whole[g], Len(received[g]), partial[g]) /\ g \in Handle
    BY <1>1 DEF Whole, Flows, HostTypes
  <2>2. CASE g = h
    <3>1. \A j \in Of(InFlight, h) : InFlight[j].pdu < c
      <4>1. \A j \in Of(InFlight, h) : InFlight[j].pdu <= pdus /\ InFlight[j].pdu \in Nat
        BY <1>9 DEF Of
      <4> QED
        BY <1>3, <4>1
    <3>2. Flow(h, InFlight \o s, IF all THEN Append(whole[h], c) ELSE whole[h],
               Len(received[h]), partial[h])
      BY <1>3, <1>4, <1>5, <1>7, <1>12, <1>17, <2>1, <2>2, <3>1, FlowSent
    <3> QED
      BY <1>12, <2>2, <3>2
  <2>3. CASE g # h
    <3>1. Of(s, g) = {}
      BY <1>10, <2>3 DEF Of
    <3>2. Flow(g, InFlight \o s, whole[g], Len(received[g]), partial[g])
      BY <1>5, <1>7, <2>1, <3>1, FlowOther
    <3> QED
      BY <1>12, <2>1, <2>3, <3>2
  <2> QED
    BY <2>2, <2>3
<1>19. Flows'
  BY <1>6, <1>8, <1>18 DEF Flows
<1>20. PeersHaveWhole'
  <2> SUFFICES ASSUME NEW g \in Handle
               PROVE  /\ Len(received[g]) <= Len(whole'[g])
                      /\ \A i \in DOMAIN received[g] :
                            received[g][i] = {[pdu |-> whole'[g][i], inPlace |-> TRUE]}
    BY <1>6 DEF PeersHaveWhole
  <2>1. /\ Len(received[g]) <= Len(whole[g])
        /\ \A i \in DOMAIN received[g] : received[g][i] = {[pdu |-> whole[g][i], inPlace |-> TRUE]}
    BY DEF Whole, PeersHaveWhole
  <2>2. CASE g = h /\ all
    <3>1. whole'[g] = Append(whole[h], c)
      BY <1>12, <2>2
    <3>2. Len(whole[h]) \in Nat /\ Len(received[h]) \in Nat /\ Len(whole'[g]) = Len(whole[h]) + 1
      BY <1>12, <1>14, <1>17, <3>1
    <3>3. DOMAIN received[h] \subseteq DOMAIN whole[h]
      <4> DEFINE k == Len(received[h])
                 l == Len(whole[h])
      <4>1. DOMAIN received[h] = 1 .. k /\ DOMAIN whole[h] = 1 .. l /\ k \in Nat /\ l \in Nat /\ k <= l
        BY <1>12, <1>17 DEF PeerTypes
      <4> HIDE DEF k, l
      <4> QED
        BY <4>1
    <3>4. \A i \in DOMAIN received[h] : whole'[g][i] = whole[h][i]
      BY <1>14, <3>1, <3>3
    <3>5. Len(received[g]) <= Len(whole'[g])
      BY <2>1, <2>2, <3>2
    <3> QED
      BY <2>1, <2>2, <3>4, <3>5
  <2>3. CASE ~(g = h /\ all)
    BY <1>12, <2>1, <2>3
  <2> QED
    BY <2>2, <2>3
<1> QED
  BY <1>11, <1>16, <1>19, <1>20 DEF Whole

\* The controller transmits the first packet it holds of a link, and the peer takes it.
LEMMA WholeTransmitted ==
    ASSUME Whole, HostTypes, HostTypes', PeerTypes, NEW i \in DOMAIN held, ControllerTransmits(i)
    PROVE  Whole'
<1> DEFINE p   == held[i]
           now == Reassembled(partial[p.handle], p)
<1>1. PICK h : h = p.handle
  OBVIOUS
<1>2. held \in Seq(Packet) /\ wire \in Seq(Packet) /\ InFlight \in Seq(Packet)
  BY ConcatProperties DEF HostTypes, InFlight
<1>3. p \in Packet /\ h \in alive /\ h \in Handle
  BY <1>1, <1>2 DEF ControllerTransmits, HostTypes
<1>4. /\ held' = RemoveAt(held, i) /\ wire' = wire /\ alive' = alive /\ pdus' = pdus /\ whole' = whole
      /\ IF now.got = now.total
         THEN /\ received' = [received EXCEPT ![h] = Append(received[h], now.parts)]
              /\ partial' = [partial EXCEPT ![h] = NoPdu]
         ELSE partial' = [partial EXCEPT ![h] = now] /\ received' = received
  BY <1>1 DEF ControllerTransmits, PeerTakes, hostVars
<1>5. i \in DOMAIN InFlight /\ InFlight[i] = p /\ Without(InFlight, i, InFlight')
  <2>1. RemoveAt(held, i) \in Seq(Packet) /\ Without(held, i, RemoveAt(held, i))
    BY <1>2, RemoveAtType, RemoveAtWithout
  <2>2. i \in DOMAIN (held \o wire) /\ (held \o wire)[i] = held[i]
        /\ Without(held \o wire, i, RemoveAt(held, i) \o wire)
    BY <1>2, <2>1, FrontWithout
  <2> QED
    BY <1>4, <2>2 DEF InFlight
<1>6. i \in Of(InFlight, h)
  BY <1>1, <1>5 DEF Of
<1>7. \A j \in Of(InFlight, h) : ~(j < i)
  <2> SUFFICES ASSUME NEW j \in Of(InFlight, h), j < i PROVE FALSE
    OBVIOUS
  <2>1. j \in Of(held, h) \/ \E k \in Of(wire, h) : j = Len(held) + k /\ k \in Nat /\ k > 0
    BY <1>2, BehindOf DEF InFlight
  <2>2. i \in 1 .. Len(held) /\ Len(held) \in Nat
    BY <1>2
  <2>3. j \in Of(held, h)
    BY <2>1, <2>2
  <2>4. j \in 1 .. i - 1 /\ held[j].handle = h
    BY <1>2, <2>2, <2>3 DEF Of
  <2> QED
    BY <1>1, <2>4 DEF ControllerTransmits
<1>8. \A j \in Of(InFlight, h) : Sound(InFlight[j])
  BY DEF Whole, PacketsSound, Of
<1>9. /\ Flow(h, InFlight, whole[h], Len(received[h]), partial[h])
      /\ Rising(whole[h]) /\ whole[h] \in Seq(Nat) /\ partial[h] \in Pdu
      /\ received[h] \in Seq(SUBSET Part) /\ Len(received[h]) \in Nat
  BY <1>3 DEF Whole, Flows, PdusRise, HostTypes, PeerTypes
<1>10. InFlight' \in Seq(Packet)
  BY ConcatProperties DEF HostTypes, InFlight
<1>11. now = [parts |-> {[pdu |-> p.pdu, inPlace |-> TRUE]}, got |-> p.offset + p.length, total |-> p.total]
  <2>1. Follows(h, InFlight, partial[h]) /\ Sound(InFlight[i])
    BY <1>6, <1>8, <1>9 DEF Flow
  <2>2. Reassembled(partial[h], InFlight[i]) =
           [parts |-> {[pdu |-> InFlight[i].pdu, inPlace |-> TRUE]},
            got |-> InFlight[i].offset + InFlight[i].length, total |-> InFlight[i].total]
    BY <1>2, <1>6, <1>7, <1>9, <2>1, TakenInPlace
  <2> QED
    BY <1>1, <1>5, <2>2
<1>12. now.got = now.total <=> IsLast(p)
  BY <1>11 DEF IsLast
<1>13. IF IsLast(p) THEN Flow(h, InFlight', whole[h], Len(received[h]) + 1, NoPdu)
       ELSE Flow(h, InFlight', whole[h], Len(received[h]), now)
  <2>1. IF IsLast(InFlight[i]) THEN Flow(h, InFlight', whole[h], Len(received[h]) + 1, NoPdu)
        ELSE Flow(h, InFlight', whole[h], Len(received[h]), Reassembled(partial[h], InFlight[i]))
    BY <1>2, <1>5, <1>6, <1>7, <1>8, <1>9, <1>10, FlowTaken
  <2> QED
    BY <1>1, <1>5, <2>1
<1>14. IsLast(p) => /\ Len(received[h]) + 1 \in DOMAIN whole[h]
                    /\ whole[h][Len(received[h]) + 1] = p.pdu
  <2>1. Ordered(h, InFlight) /\ Ends(h, InFlight, whole[h], Len(received[h]))
    BY <1>9 DEF Flow
  <2>2. IsLast(InFlight[i]) => /\ Len(received[h]) + 1 \in DOMAIN whole[h]
                               /\ whole[h][Len(received[h]) + 1] = InFlight[i].pdu
    <3> DEFINE q == InFlight
               w == whole[h]
               n == Len(received[h])
    <3>1. /\ q \in Seq(Packet) /\ i \in Of(q, h) /\ (\A j \in Of(q, h) : ~(j < i))
          /\ (\A j \in Of(q, h) : Sound(q[j])) /\ Ordered(h, q)
          /\ w \in Seq(Nat) /\ Rising(w) /\ n \in Nat /\ Ends(h, q, w, n)
      BY <1>2, <1>6, <1>7, <1>8, <1>9, <2>1
    <3> HIDE DEF q, w, n
    <3>2. IsLast(q[i]) => n + 1 \in DOMAIN w /\ w[n + 1] = q[i].pdu
      BY <3>1, LastIsNext
    <3> QED
      BY <3>2 DEF q, w, n
  <2> QED
    BY <1>5, <2>2
<1> HIDE DEF p, now
<1>15. PacketsSound' /\ PdusRise'
  <2>1. PdusRise'
    BY <1>4 DEF Whole, PdusRise
  <2>2. PacketsSound'
    BY <1>4, <1>5, SoundWithout DEF Whole
  <2> QED
    BY <2>1, <2>2
<1>16. \A g \in alive \ {h} : Flow(g, InFlight', whole[g], Len(received[g]), partial[g])
  <2> SUFFICES ASSUME NEW g \in alive \ {h}
               PROVE  Flow(g, InFlight', whole[g], Len(received[g]), partial[g])
    OBVIOUS
  <2>1. Flow(g, InFlight, whole[g], Len(received[g]), partial[g]) /\ InFlight[i].handle # g
    BY <1>1, <1>5 DEF Whole, Flows
  <2> QED
    BY <1>2, <1>5, <1>10, <2>1, FlowWithout
<1>17. alive \subseteq Handle
  BY DEF HostTypes
<1>18. PeersHaveWhole
  BY DEF Whole
<1>19. CASE ~IsLast(p)
  <2>1. /\ received' = received /\ partial'[h] = now
        /\ \A g \in Handle \ {h} : partial'[g] = partial[g]
    BY <1>3, <1>4, <1>12, <1>19 DEF PeerTypes
  <2>2. \A g \in alive : Flow(g, InFlight', whole[g], Len(received'[g]), partial'[g])
    BY <1>13, <1>16, <1>17, <1>19, <2>1
  <2>3. Flows'
    BY <1>4, <2>2 DEF Flows
  <2>4. PeersHaveWhole'
    BY <1>4, <1>18, <2>1 DEF PeersHaveWhole
  <2> QED
    BY <1>15, <2>3, <2>4 DEF Whole
<1>20. CASE IsLast(p)
  <2> DEFINE n == Len(received[h])
             w == whole[h]
             v == received'[h]
  <2>1. /\ v = Append(received[h], now.parts) /\ partial'[h] = NoPdu
        /\ \A g \in Handle \ {h} : partial'[g] = partial[g] /\ received'[g] = received[g]
    BY <1>3, <1>4, <1>12, <1>20 DEF PeerTypes
  <2>2. now.parts = {[pdu |-> w[n + 1], inPlace |-> TRUE]} /\ n + 1 \in DOMAIN w
    BY <1>11, <1>14, <1>20
  <2>3. now.parts \in SUBSET Part
    BY <1>3, <1>11 DEF Part, Packet
  <2>4. /\ n \in Nat /\ DOMAIN received[h] = 1 .. n /\ v \in Seq(SUBSET Part) /\ Len(v) = n + 1
        /\ v[n + 1] = now.parts /\ \A k \in 1 .. n : v[k] = received[h][k]
    BY <1>9, <2>1, <2>3, AppendProperties
  <2>5. DOMAIN v = 1 .. n + 1 /\ Len(w) \in Nat /\ DOMAIN w = 1 .. Len(w)
    BY <1>9, <2>4
  <2>6. \A k \in 1 .. n : received[h][k] = {[pdu |-> w[k], inPlace |-> TRUE]}
    BY <1>3, <1>18, <2>4 DEF PeersHaveWhole
  <2> HIDE DEF n, w, v
  <2>7. \A k \in DOMAIN v : v[k] = {[pdu |-> w[k], inPlace |-> TRUE]}
    <3>1. \A k \in 1 .. n + 1 : k \in 1 .. n \/ k = n + 1
      BY <2>4
    <3> QED
      BY <2>2, <2>4, <2>5, <2>6, <3>1
  <2>8. Len(v) <= Len(w)
    BY <2>2, <2>4, <2>5
  <2>9. \A g \in Handle \ {h} :
           /\ Len(received'[g]) <= Len(whole[g])
           /\ \A k \in DOMAIN received'[g] : received'[g][k] = {[pdu |-> whole[g][k], inPlace |-> TRUE]}
    BY <1>18, <2>1 DEF PeersHaveWhole
  <2>10. PeersHaveWhole'
    BY <1>4, <2>7, <2>8, <2>9 DEF PeersHaveWhole, v, w
  <2>11. Flow(h, InFlight', whole[h], Len(v), NoPdu)
    BY <1>13, <1>20, <2>4 DEF n
  <2>12. \A g \in alive : Flow(g, InFlight', whole[g], Len(received'[g]), partial'[g])
    BY <1>16, <1>17, <2>1, <2>11 DEF v
  <2>13. Flows'
    BY <1>4, <2>12 DEF Flows
  <2> QED
    BY <1>15, <2>10, <2>13 DEF Whole
<1> QED
  BY <1>19, <1>20

\* Every step keeps the packets under way and what the peers have in keeping, as long as no event
\* of several links is handled: then every packet finds a buffer.
LEMMA WholeNext == IInv /\ PeerTypes /\ (~misread => Whole) /\ [Next]_vars => (~misread' => Whole')
<1> SUFFICES ASSUME IInv, PeerTypes, ~misread => Whole, [Next]_vars, ~misread' PROVE Whole'
  OBVIOUS
<1>0. ~misread /\ Whole
  <2>1. CASE UNCHANGED misread
    BY <2>1
  <2>2. ASSUME NEW n, NEW handles, __hci_recv_evt_number_of_completed_packets(n, handles)
        PROVE  ~misread
    BY <2>2 DEF __hci_recv_evt_number_of_completed_packets
  <2>3. UNCHANGED misread \/ \E n, handles : __hci_recv_evt_number_of_completed_packets(n, handles)
    BY DEF Next, ReadBufferSize, hci_send_acl, HostReceives, RecvConnComplete,
           __hci_recv_evt_disconn_complete, LinkUp, LinkLost, ControllerWorks, ControllerTakes,
           ControllerFlushes, ControllerTransmits, ControllerForgets, ControllerReports, vars
  <2> QED
    BY <2>1, <2>2, <2>3
<1>1. HostTypes /\ HostTypes'
  <2>1. HostTypes
    BY DEF IInv
  <2>2. IInv'
    BY NextInv
  <2> QED
    BY <2>1, <2>2 DEF IInv
<1>2. held \in Seq(Packet) /\ wire \in Seq(Packet) /\ pdus \in Nat
  BY <1>1 DEF HostTypes
<1>3. CASE ReadBufferSize \/ ControllerReports \/ (\E i \in DOMAIN done : ControllerForgets(i))
           \/ UNCHANGED vars
  <2>1. /\ held' = held /\ wire' = wire /\ whole' = whole /\ partial' = partial
        /\ received' = received /\ pdus' = pdus /\ alive' = alive
    BY <1>3 DEF ReadBufferSize, ControllerReports, ControllerForgets, vars, peerVars, hostVars
  <2> QED
    BY <1>0, <1>1, <1>2, <2>1, WholeQuiet DEF InFlight
<1>4. ASSUME NEW h \in Handle, NEW length \in Length, hci_send_acl(h, length) PROVE Whole'
  <2>1. CASE hci_send_acl_allowed
    BY <1>0, <1>1, <1>4, <2>1, WholeSent
  <2>2. CASE ~hci_send_acl_allowed
    <3>1. /\ held' = held /\ wire' = wire /\ whole' = whole /\ partial' = partial
          /\ received' = received /\ pdus' = pdus + 1 /\ alive' = alive
      BY <1>4, <2>2 DEF hci_send_acl, peerVars
    <3>2. pdus' >= pdus
      BY <1>2, <3>1
    <3> QED
      BY <1>0, <1>1, <3>1, <3>2, WholeQuiet DEF InFlight
  <2> QED
    BY <2>1, <2>2
<1>5. CASE HostReceives
  <2>1. /\ held' = held /\ wire' = wire /\ whole' = whole /\ partial' = partial
        /\ received' = received /\ pdus' = pdus /\ alive' = alive
    BY <1>5 DEF HostReceives, __hci_recv_evt_number_of_completed_packets, RecvConnComplete,
                __hci_recv_evt_disconn_complete, peerVars
  <2> QED
    BY <1>0, <1>1, <1>2, <2>1, WholeQuiet DEF InFlight
<1>6. ASSUME NEW h \in Handle, LinkUp(h) PROVE Whole'
  BY <1>0, <1>1, <1>6, WholeLinkUp
<1>7. ASSUME NEW h \in Handle, LinkLost(h) PROVE Whole'
  <2>1. /\ held' = held /\ wire' = wire /\ whole' = whole /\ partial' = partial
        /\ received' = received /\ pdus' = pdus /\ alive' \subseteq alive
    BY <1>7 DEF LinkLost, peerVars
  <2> QED
    BY <1>0, <1>1, <1>2, <2>1, WholeQuiet DEF InFlight
<1>8. CASE ControllerTakes
  <2>1. /\ wire # <<>> /\ wire' = Tail(wire) /\ whole' = whole /\ partial' = partial
        /\ received' = received /\ pdus' = pdus /\ alive' = alive
    BY <1>8 DEF ControllerTakes, peerVars
  <2>4. Len(held) < Total
    <3>1. NoControllerOverrun /\ Len(wire) \in Nat /\ Len(held) \in Nat /\ Len(wire) # 0
      <4>1. Len(wire) \in Nat /\ Len(held) \in Nat /\ Len(wire) # 0
        BY <1>2, <2>1
      <4> QED
        BY <4>1, RoomForEach
    <3> QED
      BY <1>0, <3>1 DEF NoControllerOverrun
  <2>2. CASE Head(wire).handle \in alive
    <3>1. held' = Append(held, Head(wire))
      BY <1>8, <2>2, <2>4 DEF ControllerTakes
    <3>2. Append(held, Head(wire)) \o Tail(wire) = held \o wire
      BY <1>2, <2>1, BackWithout
    <3>3. InFlight' = InFlight
      BY <2>1, <3>1, <3>2 DEF InFlight
    <3> QED
      BY <1>0, <1>1, <1>2, <2>1, <3>3, WholeQuiet
  <2>3. CASE Head(wire).handle \notin alive
    <3>1. held' = held
      BY <1>8, <2>3 DEF ControllerTakes
    <3>2. PICK i : i = Len(held) + 1
      OBVIOUS
    <3>3. /\ i \in DOMAIN (held \o wire) /\ (held \o wire)[i] = Head(wire)
          /\ Without(held \o wire, i, held \o Tail(wire))
      BY <1>2, <2>1, <3>2, BackWithout
    <3>4. i \in DOMAIN InFlight /\ InFlight[i].handle \notin alive /\ Without(InFlight, i, InFlight')
      BY <2>1, <2>3, <3>1, <3>3 DEF InFlight
    <3> QED
      BY <1>1, <2>1, <3>4, <1>0, WholeGone
  <2> QED
    BY <2>2, <2>3
<1>9. ASSUME NEW i \in DOMAIN held, ControllerFlushes(i) PROVE Whole'
  <2>1. /\ held' = RemoveAt(held, i) /\ held[i].handle \notin alive /\ wire' = wire
        /\ whole' = whole /\ partial' = partial /\ received' = received
        /\ pdus' = pdus /\ alive' = alive
    BY <1>9 DEF ControllerFlushes, peerVars
  <2>2. RemoveAt(held, i) \in Seq(Packet) /\ Without(held, i, RemoveAt(held, i))
    BY <1>2, RemoveAtType, RemoveAtWithout
  <2>3. i \in DOMAIN (held \o wire) /\ (held \o wire)[i] = held[i]
        /\ Without(held \o wire, i, RemoveAt(held, i) \o wire)
    BY <1>2, <2>2, FrontWithout
  <2>4. i \in DOMAIN InFlight /\ InFlight[i].handle \notin alive /\ Without(InFlight, i, InFlight')
    BY <2>1, <2>3 DEF InFlight
  <2> QED
    BY <1>1, <2>1, <2>4, <1>0, WholeGone
<1>10. ASSUME NEW i \in DOMAIN held, ControllerTransmits(i) PROVE Whole'
  BY <1>0, <1>1, <1>10, WholeTransmitted
<1> QED
  BY <1>3, <1>4, <1>5, <1>6, <1>7, <1>8, <1>9, <1>10 DEF Next, ControllerWorks

\* A peer puts together exactly PDUs the host sent whole, in the order it sent them and each byte
\* in its place, however often hci_send_acl ran out of credits in the middle of one, as long as
\* each event reports packets of one link.
THEOREM PeersGetWhole == Spec => []PeerGetsWholePdus
<1>1. (~misread => Whole) => PeerGetsWholePdus
  BY DEF Whole, PeersHaveWhole, PeerGetsWholePdus
<1> QED
  BY <1>1, InitInv, NextInv, InitPeers, PeerTypesNext, InitWhole, WholeNext, PTL DEF Spec, IInv
=============================================================================
