--------------------------- MODULE H4ReaderProofs ---------------------------
(***************************************************************************)
(* H4Reader for every set of well-formed packets, every size of the ring   *)
(* and any number of packets and openings: the HCI layer is handed the     *)
(* packets sent, a handler that waits in a dialog is left alone and no     *)
(* wake-up is lost.                                                        *)
(***************************************************************************)
EXTENDS H4Reader, SequenceTheorems, TLAPS

-----------------------------------------------------------------------------
(* Cutting a byte string into packets.                                      *)

\* off[i] is where the i-th of the packets ps ends in the bytes r
Cutting(off, r, ps) ==
    /\ off \in [0 .. Len(ps) -> Nat]
    /\ off[0] = 0 /\ off[Len(ps)] = Len(r)
    /\ \A i, j \in 0 .. Len(ps) : i <= j => off[i] <= off[j]
    /\ \A i \in 1 .. Len(ps) :
         /\ off[i] = off[i - 1] + Len(ps[i])
         /\ \A k \in 1 .. Len(ps[i]) : r[off[i - 1] + k] = ps[i][k]

\* r is the packets ps one behind another
Cut(r, ps) == \E off : Cutting(off, r, ps)

\* No bytes are no packets.
LEMMA CutNothing == Cut(<<>>, <<>>)
<1> DEFINE off == [i \in 0 .. 0 |-> 0]
<1>1. Cutting(off, <<>>, <<>>)
  BY DEF Cutting
<1> QED
  BY <1>1 DEF Cut

\* Bytes without packets are none.
LEMMA CutIntoNone ==
    ASSUME NEW S, NEW r \in Seq(S), Cut(r, <<>>)
    PROVE  r = <<>>
<1>1. Len(r) = 0
  BY DEF Cut, Cutting
<1> QED
  BY <1>1, EmptySeq

\* A packet sent is the last of those to come.
LEMMA CutAnother ==
    ASSUME NEW S, NEW r \in Seq(S), NEW ps \in Seq(Seq(S)), NEW p \in Seq(S), Cut(r, ps)
    PROVE  Cut(r \o p, Append(ps, p))
<1>1. PICK off : Cutting(off, r, ps)
  BY DEF Cut
<1> DEFINE n   == Len(ps)
           ps1 == Append(ps, p)
           off1 == [i \in 0 .. n + 1 |-> IF i <= n THEN off[i] ELSE Len(r) + Len(p)]
<1>2. n \in Nat /\ Len(r) \in Nat /\ Len(p) \in Nat
  OBVIOUS
<1>3. Len(ps1) = n + 1 /\ (\A i \in 1 .. n : ps1[i] = ps[i]) /\ ps1[n + 1] = p
  BY AppendProperties
<1>4. /\ Len(r \o p) = Len(r) + Len(p)
      /\ \A i \in 1 .. Len(r) : (r \o p)[i] = r[i]
      /\ \A i \in 1 .. Len(p) : (r \o p)[Len(r) + i] = p[i]
  BY <1>2, ConcatProperties
<1>5. /\ off \in [0 .. n -> Nat] /\ off[0] = 0 /\ off[n] = Len(r)
      /\ \A i, j \in 0 .. n : i <= j => off[i] <= off[j]
      /\ \A i \in 1 .. n : /\ off[i] = off[i - 1] + Len(ps[i])
                           /\ \A k \in 1 .. Len(ps[i]) : r[off[i - 1] + k] = ps[i][k]
  BY <1>1 DEF Cutting
<1>6. \A i \in 1 .. n : ps[i] \in Seq(S) /\ Len(ps[i]) \in Nat
  BY ElementOfSeq, LenProperties
<1> HIDE DEF n, ps1
<1>7. off1 \in [0 .. n + 1 -> Nat] /\ off1[0] = 0 /\ off1[n + 1] = Len(r) + Len(p)
  BY <1>2, <1>5
<1>8. \A i, j \in 0 .. n + 1 : i <= j => off1[i] <= off1[j]
  <2>1. \A i \in 0 .. n : off[i] \in Nat /\ off[i] <= Len(r)
    BY <1>2, <1>5
  <2> QED
    BY <1>2, <1>5, <2>1
<1>9. ASSUME NEW i \in 1 .. n + 1
      PROVE  /\ off1[i] = off1[i - 1] + Len(ps1[i])
             /\ \A k \in 1 .. Len(ps1[i]) : (r \o p)[off1[i - 1] + k] = ps1[i][k]
  <2>1. CASE i = n + 1
    <3>1. off1[i - 1] = Len(r) /\ off1[i] = Len(r) + Len(p) /\ ps1[i] = p
      BY <1>2, <1>3, <1>5, <2>1
    <3> QED
      BY <1>4, <3>1
  <2>2. CASE i # n + 1
    <3>1. i \in 1 .. n /\ i - 1 \in 0 .. n
      BY <1>2, <2>2
    <3>2. off1[i] = off[i] /\ off1[i - 1] = off[i - 1] /\ ps1[i] = ps[i]
      BY <1>2, <1>3, <3>1
    <3>3. off[i] = off[i - 1] + Len(ps[i]) /\ off[i] <= Len(r) /\ off[i - 1] \in Nat
      BY <1>2, <1>5, <3>1
    <3>4. \A k \in 1 .. Len(ps[i]) : off[i - 1] + k \in 1 .. Len(r)
      BY <1>2, <1>6, <3>1, <3>3
    <3> HIDE DEF off1
    <3> QED
      BY <1>4, <1>5, <3>1, <3>2, <3>3, <3>4
  <2> QED
    BY <2>1, <2>2
<1>10. Cutting(off1, r \o p, ps1)
  <2> HIDE DEF off1
  <2> QED
    BY <1>3, <1>4, <1>7, <1>8, <1>9 DEF Cutting
<1> QED
  BY <1>10 DEF Cut, ps1

\* The first packet to come is the first bytes, and the others the rest.
LEMMA CutFirst ==
    ASSUME NEW S, NEW r \in Seq(S), NEW ps \in Seq(Seq(S)), ps # <<>>, Cut(r, ps)
    PROVE  /\ Len(ps[1]) <= Len(r)
           /\ \A k \in 1 .. Len(ps[1]) : r[k] = ps[1][k]
           /\ Cut(SubSeq(r, Len(ps[1]) + 1, Len(r)), Tail(ps))
<1>1. PICK off : Cutting(off, r, ps)
  BY DEF Cut
<1> DEFINE n == Len(ps)
           m == Len(ps[1])
           rest == SubSeq(r, m + 1, Len(r))
           off1 == [i \in 0 .. n - 1 |-> off[i + 1] - m]
<1>2. n \in Nat \ {0} /\ Len(r) \in Nat /\ m \in Nat
  BY EmptySeq, ElementOfSeq, LenProperties
<1>3. Len(Tail(ps)) = n - 1 /\ \A i \in 1 .. n - 1 : Tail(ps)[i] = ps[i + 1]
  BY HeadTailProperties
<1>4. /\ off \in [0 .. n -> Nat] /\ off[0] = 0 /\ off[n] = Len(r)
      /\ \A i, j \in 0 .. n : i <= j => off[i] <= off[j]
      /\ \A i \in 1 .. n : /\ off[i] = off[i - 1] + Len(ps[i])
                           /\ \A k \in 1 .. Len(ps[i]) : r[off[i - 1] + k] = ps[i][k]
  BY <1>1 DEF Cutting
<1>5. \A i \in 1 .. n : ps[i] \in Seq(S) /\ Len(ps[i]) \in Nat
  BY ElementOfSeq, LenProperties
<1>6. off[1] = m /\ m <= Len(r) /\ \A k \in 1 .. m : r[k] = ps[1][k]
  <2>1. 1 \in 1 .. n /\ 0 \in 0 .. n /\ 1 \in 0 .. n /\ n \in 0 .. n
    BY <1>2
  <2>2. off[1] = m
    BY <1>2, <1>4, <2>1
  <2>3. \A k \in 1 .. m : r[0 + k] = ps[1][k]
    BY <1>4, <2>1
  <2> QED
    BY <1>2, <1>4, <2>1, <2>2, <2>3
<1>7. ASSUME NEW i \in 1 .. n
      PROVE  off[i] \in Nat /\ m <= off[i] /\ off[i] <= Len(r)
  <2>1. i \in 0 .. n /\ n \in 0 .. n /\ 1 \in 0 .. n /\ 1 <= i /\ i <= n
    BY <1>2
  <2>2. off[1] <= off[i] /\ off[i] <= off[n] /\ off[i] \in Nat
    BY <1>4, <2>1
  <2> QED
    BY <1>4, <1>6, <2>2
<1>8. Len(rest) = Len(r) - m /\ \A k \in 1 .. Len(r) - m : rest[k] = r[m + k]
  <2>1. \A i \in m + 1 .. Len(r) : r[i] \in S
    <3> TAKE i \in m + 1 .. Len(r)
    <3>1. i \in 1 .. Len(r)
      BY <1>2
    <3> QED
      BY <3>1, ElementOfSeq
  <2>2. m + 1 \in Int /\ Len(r) \in Int
    BY <1>2
  <2>3. /\ Len(rest) = IF m + 1 <= Len(r) THEN Len(r) - (m + 1) + 1 ELSE 0
        /\ \A i \in 1 .. Len(r) - (m + 1) + 1 : rest[i] = r[(m + 1) + i - 1]
    <3> HIDE DEF m
    <3> QED
      BY <2>1, <2>2, SubSeqProperties
  <2> HIDE DEF rest, m
  <2>4. Len(r) - (m + 1) + 1 = Len(r) - m
    BY <1>2
  <2>5. ASSUME NEW i \in 1 .. Len(r) - m
        PROVE  rest[i] = r[m + i]
    <3>1. rest[i] = r[(m + 1) + i - 1]
      BY <2>3, <2>4
    <3>2. (m + 1) + i - 1 = m + i
      BY <1>2
    <3> QED
      BY <3>1, <3>2
  <2>6. Len(rest) = Len(r) - m
    BY <1>2, <1>6, <2>3
  <2> QED
    BY <2>5, <2>6
<1> HIDE DEF n, m, rest
<1>9. off1 \in [0 .. n - 1 -> Nat] /\ off1[0] = 0 /\ off1[n - 1] = Len(r) - m
  <2>1. ASSUME NEW i \in 0 .. n - 1
        PROVE  off[i + 1] - m \in Nat
    <3>1. i + 1 \in 1 .. n
      BY <1>2
    <3>2. off[i + 1] \in Nat /\ m <= off[i + 1]
      BY <1>7, <3>1
    <3> QED
      BY <1>2, <3>2
  <2>2. off1 \in [0 .. n - 1 -> Nat]
    BY <2>1
  <2>3. 0 \in 0 .. n - 1 /\ n - 1 \in 0 .. n - 1 /\ 0 + 1 = 1 /\ n - 1 + 1 = n
    BY <1>2
  <2>4. off1[0] = off[1] - m /\ off1[n - 1] = off[n] - m
    BY <2>3
  <2> HIDE DEF off1
  <2> QED
    BY <1>2, <1>4, <1>6, <2>2, <2>4
<1>10. ASSUME NEW i \in 0 .. n - 1, NEW j \in 0 .. n - 1, i <= j
       PROVE  off1[i] <= off1[j]
  <2>1. /\ i + 1 \in 0 .. n /\ j + 1 \in 0 .. n /\ i + 1 <= j + 1
        /\ i + 1 \in 1 .. n /\ j + 1 \in 1 .. n
    BY <1>2, <1>10
  <2>2. off[i + 1] <= off[j + 1] /\ off[i + 1] \in Nat /\ off[j + 1] \in Nat
    BY <1>4, <1>7, <2>1
  <2>3. off1[i] = off[i + 1] - m /\ off1[j] = off[j + 1] - m
    OBVIOUS
  <2> HIDE DEF off1
  <2> QED
    BY <1>2, <2>2, <2>3
<1>11. ASSUME NEW i \in 1 .. n - 1
       PROVE  /\ off1[i] = off1[i - 1] + Len(Tail(ps)[i])
              /\ \A k \in 1 .. Len(Tail(ps)[i]) : rest[off1[i - 1] + k] = Tail(ps)[i][k]
  <2>1. /\ i \in 1 .. n /\ i + 1 \in 1 .. n /\ i \in 0 .. n - 1 /\ i - 1 \in 0 .. n - 1
        /\ (i + 1) - 1 = i /\ (i - 1) + 1 = i
    BY <1>2
  <2>2. Tail(ps)[i] = ps[i + 1] /\ Len(ps[i + 1]) \in Nat
    BY <1>3, <1>5, <2>1
  <2>3. off1[i] = off[i + 1] - m /\ off1[i - 1] = off[i] - m
    BY <2>1
  <2>4. /\ off[i + 1] = off[(i + 1) - 1] + Len(ps[i + 1])
        /\ \A k \in 1 .. Len(ps[i + 1]) : r[off[(i + 1) - 1] + k] = ps[i + 1][k]
    BY <1>4, <2>1
  <2>5. m <= off[i] /\ off[i] \in Nat /\ off[i + 1] <= Len(r)
    BY <1>7, <2>1
  <2> HIDE DEF off1
  <2>6. /\ off[i + 1] = off[i] + Len(ps[i + 1])
        /\ off1[i] = off1[i - 1] + Len(ps[i + 1])
    BY <1>2, <2>1, <2>2, <2>3, <2>4, <2>5
  <2>7. ASSUME NEW k \in 1 .. Len(ps[i + 1])
        PROVE  rest[off1[i - 1] + k] = ps[i + 1][k]
    <3>1. off1[i - 1] + k \in 1 .. Len(r) - m /\ m + (off1[i - 1] + k) = off[i] + k
      <4> DEFINE a == off[i]
                 l == Len(ps[i + 1])
      <4>1. k \in Nat /\ 1 <= k /\ k <= l /\ a + l <= Len(r) /\ off1[i - 1] = a - m
        BY <2>2, <2>3, <2>5, <2>6
      <4>2. a \in Nat /\ m <= a /\ l \in Nat
        BY <2>2, <2>5
      <4> HIDE DEF a, l
      <4>3. (a - m) + k \in 1 .. Len(r) - m /\ m + ((a - m) + k) = a + k
        BY <1>2, <4>1, <4>2
      <4> QED
        BY <4>1, <4>3 DEF a
    <3>2. rest[off1[i - 1] + k] = r[off[i] + k]
      BY <1>8, <3>1
    <3> QED
      BY <2>1, <2>4, <3>2
  <2> QED
    BY <2>2, <2>6, <2>7
<1>12. Cutting(off1, rest, Tail(ps))
  <2> HIDE DEF off1
  <2> QED
    BY <1>3, <1>8, <1>9, <1>10, <1>11 DEF Cutting
<1> QED
  BY <1>6, <1>12 DEF Cut, m, rest

\* What is appended leaves a prefix behind.
LEMMA PrefixOfConcat ==
    ASSUME NEW S, NEW s \in Seq(S), NEW t \in Seq(S)
    PROVE  IsPrefix(s, s \o t)
<1>1. Len(s) <= Len(s \o t)
  BY ConcatProperties
<1>2. SubSeq(s \o t, 1, Len(s)) = SubSeq(s, 1, Len(s))
  <2>1. CASE s = <<>>
    <3>1. Len(s) = 0
      BY <2>1
    <3> QED
      BY <3>1, SubSeqEmpty
  <2>2. CASE s # <<>>
    <3>1. 1 \in 1 .. Len(s) /\ Len(s) \in 1 .. Len(s)
      BY <2>2, EmptySeq
    <3> QED
      BY <3>1, SubSeqOfConcat1
  <2> QED
    BY <2>1, <2>2
<1> QED
  BY <1>1, <1>2 DEF IsPrefix

\* The first of the packets to come may be moved to the packets handed over.
LEMMA MoveFirst ==
    ASSUME NEW S, NEW s \in Seq(S), NEW t \in Seq(S), t # <<>>
    PROVE  Append(s, t[1]) \o Tail(t) = s \o t
<1>1. t[1] \in S /\ Tail(t) \in Seq(S) /\ <<t[1]>> \in Seq(S)
  <2>1. 1 \in 1 .. Len(t)
    BY EmptySeq
  <2>2. t[1] \in S
    BY <2>1, ElementOfSeq
  <2> QED
    BY <2>2, HeadTailProperties
<1>2. <<t[1]>> \o Tail(t) = t
  <2>1. 1 \in 1 .. Len(t) /\ Len(t) \in 1 .. Len(t) /\ 1 + 1 = 2
    BY EmptySeq
  <2>2. SubSeq(t, 1, Len(t)) = <<t[1]>> \o SubSeq(t, 2, Len(t))
    BY <2>1, SubSeqRecursiveFirst
  <2> QED
    BY <2>2, SubSeqFull, TailIsSubSeq
<1>3. Append(s, t[1]) = s \o <<t[1]>>
  BY <1>1, AppendIsConcat
<1> QED
  BY <1>1, <1>2, <1>3, ConcatAssociative

-----------------------------------------------------------------------------
(* The ring, as the slot uses it.                                           *)
LEMMA PacketBytes == Byte \subseteq Nat /\ Packet \subseteq Seq(Byte)
<1>1. ASSUME NEW p \in Packet
      PROVE  p \in Seq(Nat) /\ p \in Seq(Range(p)) /\ Range(p) \subseteq Nat
  <2>1. p \in Seq(Nat)
    BY PacketAssumption DEF WellFormed
  <2> QED
    BY <2>1, RangeOfSeq, SeqOfRange
<1>2. Byte \subseteq Nat
  BY <1>1 DEF Byte
<1>3. ASSUME NEW p \in Packet
      PROVE  p \in Seq(Byte)
  <2>1. Range(p) \subseteq Byte
    BY DEF Byte
  <2> QED
    BY <1>1, <2>1, SeqMonotonic
<1> QED
  BY <1>2, <1>3

\* No packet is the beginning of another: bytes that begin with a whole packet begin with the
\* first packet to come.
LEMMA WholePacket ==
    ASSUME NEW a \in Seq(Byte), NEW b \in Seq(Byte), NEW ps \in Seq(Packet),
           WellFormed(a), Cut(a \o b, ps)
    PROVE  ps # <<>> /\ ps[1] = a /\ Cut(b, Tail(ps))
<1> DEFINE r == a \o b
           p == ps[1]
<1>1. Len(a) \in Nat /\ Len(b) \in Nat /\ Len(a) >= 3
  BY DEF WellFormed
<1>2. /\ r \in Seq(Byte) /\ Len(r) = Len(a) + Len(b)
      /\ \A k \in 1 .. Len(a) : r[k] = a[k]
  BY <1>1, ConcatProperties
<1>3. ps \in Seq(Seq(Byte))
  BY PacketBytes, SeqMonotonic
<1>4. ps # <<>>
  <2>1. r # <<>>
    BY <1>1, <1>2, EmptySeq
  <2> QED
    BY <1>2, <2>1, CutIntoNone
<1>5. p \in Packet /\ p \in Seq(Byte) /\ WellFormed(p) /\ Len(p) \in Nat
  <2>1. 1 \in 1 .. Len(ps)
    BY <1>4, EmptySeq
  <2>2. p \in Packet
    BY <2>1, ElementOfSeq
  <2> QED
    BY <2>2, PacketBytes, PacketAssumption, LenProperties
<1>6. /\ Len(p) <= Len(r)
      /\ \A k \in 1 .. Len(p) : r[k] = p[k]
      /\ Cut(SubSeq(r, Len(p) + 1, Len(r)), Tail(ps))
  BY <1>2, <1>3, <1>4, CutFirst
<1> HIDE DEF r, p
<1>7. \A k \in 1 .. 5 : k <= Len(a) /\ k <= Len(p) => a[k] = p[k]
  BY <1>1, <1>2, <1>5, <1>6
<1>8. Len(p) = Len(a)
  <2>1. a[1] = p[1] /\ a[3] = p[3] /\ Len(p) >= 3
    BY <1>1, <1>5, <1>7 DEF WellFormed
  <2>2. HCI_PACKET_TYPE_EVT # HCI_PACKET_TYPE_ACL
    BY DEF HCI_PACKET_TYPE_EVT, HCI_PACKET_TYPE_ACL
  <2>3. CASE a[1] = HCI_PACKET_TYPE_EVT
    <3>1. Len(a) = 3 + a[3] /\ Len(p) = 3 + p[3]
      BY <1>5, <2>1, <2>2, <2>3 DEF WellFormed
    <3> QED
      BY <2>1, <3>1
  <2>4. CASE a[1] = HCI_PACKET_TYPE_ACL
    <3>1. /\ Len(a) >= 5 /\ Len(a) = 5 + a[4] + 256 * a[5]
          /\ Len(p) >= 5 /\ Len(p) = 5 + p[4] + 256 * p[5]
      BY <1>5, <2>1, <2>2, <2>4 DEF WellFormed
    <3>2. a[4] = p[4] /\ a[5] = p[5]
      BY <1>7, <3>1
    <3> QED
      BY <3>1, <3>2
  <2> QED
    BY <2>3, <2>4 DEF WellFormed
<1>9. p = a
  <2>1. \A k \in 1 .. Len(p) : p[k] = a[k]
    BY <1>2, <1>6, <1>8
  <2> QED
    BY <1>5, <1>8, <2>1, SeqEqual
<1>10. SubSeq(r, Len(p) + 1, Len(r)) = b
  <2>1. CASE Len(b) = 0
    <3>1. b = <<>> /\ Len(p) + 1 > Len(r)
      BY <1>1, <1>2, <1>8, <2>1, EmptySeq
    <3> QED
      BY <1>1, <1>2, <1>8, <3>1, SubSeqEmpty
  <2>2. CASE Len(b) # 0
    <3>1. Len(a) + 1 \in Len(a) + 1 .. Len(a) + Len(b)
          /\ Len(a) + Len(b) \in Len(a) + 1 .. Len(a) + Len(b)
          /\ (Len(a) + 1) - Len(a) = 1 /\ (Len(a) + Len(b)) - Len(a) = Len(b)
      BY <1>1, <2>2
    <3>2. SubSeq(a \o b, Len(a) + 1, Len(a) + Len(b)) = SubSeq(b, 1, Len(b))
      BY <3>1, SubSeqOfConcat2
    <3> QED
      BY <1>2, <1>8, <3>2, SubSeqFull DEF r
  <2> QED
    BY <2>1, <2>2
<1> QED
  BY <1>4, <1>6, <1>9, <1>10 DEF p

\* The bytes to come begin with the type of a packet.
LEMMA FirstByte ==
    ASSUME NEW r \in Seq(Byte), r # <<>>, NEW ps \in Seq(Packet), Cut(r, ps)
    PROVE  r[1] \in {HCI_PACKET_TYPE_EVT, HCI_PACKET_TYPE_ACL}
<1>1. ps \in Seq(Seq(Byte))
  BY PacketBytes, SeqMonotonic
<1>2. ps # <<>>
  BY CutIntoNone
<1>3. ps[1] \in Packet
  <2>1. 1 \in 1 .. Len(ps)
    BY <1>2, EmptySeq
  <2> QED
    BY <2>1, ElementOfSeq
<1>4. WellFormed(ps[1]) /\ Len(ps[1]) \in Nat
  BY <1>3, PacketAssumption, PacketBytes, LenProperties
<1>5. 1 \in 1 .. Len(ps[1])
  BY <1>4 DEF WellFormed
<1>6. r[1] = ps[1][1]
  BY <1>1, <1>2, <1>5, CutFirst
<1> QED
  BY <1>4, <1>6 DEF WellFormed

\* Byte strings one behind another.
LEMMA BytesAssociate ==
    ASSUME NEW s \in Seq(Byte), NEW t \in Seq(Byte), NEW u \in Seq(Byte)
    PROVE  (s \o t) \o u = s \o (t \o u)
BY ConcatAssociative

LEMMA BytesJoin ==
    ASSUME NEW s \in Seq(Byte), NEW t \in Seq(Byte)
    PROVE  /\ s \o t \in Seq(Byte) /\ Len(s \o t) = Len(s) + Len(t)
           /\ \A k \in 1 .. Len(s) : (s \o t)[k] = s[k]
<1>1. Len(s) \in Nat /\ Len(t) \in Nat
  BY LenProperties
<1> QED
  BY <1>1, ConcatProperties

ReplyOK == reply \in [call : Ring!Call, ok : BOOLEAN, data : Seq(Byte)]
RingOK  == ring \in Seq(Byte) /\ Len(ring) <= RINGBUFFER_SIZE - 1

\* A chunk is stored behind the bytes that wait, or nothing is.
LEMMA Written ==
    ASSUME RingOK, NEW chunk \in Seq(Byte), Ring!Write(chunk)
    PROVE  /\ RingOK' /\ ReplyOK'
           /\ ring' = IF reply'.ok THEN ring \o chunk ELSE ring
<1>1. Len(ring) \in Nat /\ Len(chunk) \in Nat /\ RINGBUFFER_SIZE \in Nat
  BY SizeAssumption DEF RingOK
<1>2. CASE /\ reply' = Ring!Refused("write") /\ UNCHANGED ring
  BY <1>2, EmptySeq DEF RingOK, ReplyOK, Ring!Refused, Ring!Call
<1>3. CASE /\ Len(chunk) <= Ring!Room
           /\ ring' = ring \o chunk /\ reply' = Ring!Done("write")
  <2>1. ring' \in Seq(Byte) /\ Len(ring') = Len(ring) + Len(chunk)
    BY <1>3, ConcatProperties DEF RingOK
  <2>2. Len(ring') <= RINGBUFFER_SIZE - 1
    BY <1>1, <1>3, <2>1 DEF Ring!Room
  <2> QED
    BY <1>3, <2>1, <2>2, EmptySeq DEF RingOK, ReplyOK, Ring!Done, Ring!Call
<1> QED
  BY <1>2, <1>3 DEF Ring!Write

\* The oldest n bytes are taken, or nothing is.
LEMMA Taken ==
    ASSUME RingOK, NEW n \in Nat, Ring!Read(n)
    PROVE  /\ RingOK' /\ ReplyOK'
           /\ reply'.ok  => /\ n <= Len(ring) /\ Len(reply'.data) = n
                            /\ \A k \in 1 .. n : reply'.data[k] = ring[k]
                            /\ ring = reply'.data \o ring'
           /\ ~reply'.ok => UNCHANGED ring /\ n > Len(ring)
<1>1. Len(ring) \in Nat /\ RINGBUFFER_SIZE \in Nat /\ \A k \in 1 .. Len(ring) : ring[k] \in Byte
  BY SizeAssumption, ElementOfSeq, LenProperties DEF RingOK
<1>2. CASE n > Len(ring) /\ reply' = Ring!Refused("read") /\ UNCHANGED ring
  BY <1>2, EmptySeq DEF RingOK, ReplyOK, Ring!Refused, Ring!Call
<1>3. CASE /\ n <= Len(ring)
           /\ reply' = [call |-> "read", ok |-> TRUE, data |-> SubSeq(ring, 1, n)]
           /\ ring' = SubSeq(ring, n + 1, Len(ring))
  <2>1. /\ SubSeq(ring, 1, n) \in Seq(Byte) /\ Len(SubSeq(ring, 1, n)) = n
        /\ \A k \in 1 .. n : SubSeq(ring, 1, n)[k] = ring[k]
    <3>1. /\ SubSeq(ring, 1, n) \in Seq(Byte)
          /\ Len(SubSeq(ring, 1, n)) = IF 1 <= n THEN n - 1 + 1 ELSE 0
          /\ \A k \in 1 .. n - 1 + 1 : SubSeq(ring, 1, n)[k] = ring[1 + k - 1]
      BY <1>1, <1>3, SubSeqProperties
    <3> QED
      BY <3>1
  <2>2. /\ SubSeq(ring, n + 1, Len(ring)) \in Seq(Byte)
        /\ Len(SubSeq(ring, n + 1, Len(ring))) = Len(ring) - n
    <3>1. /\ SubSeq(ring, n + 1, Len(ring)) \in Seq(Byte)
          /\ Len(SubSeq(ring, n + 1, Len(ring)))
                = IF n + 1 <= Len(ring) THEN Len(ring) - (n + 1) + 1 ELSE 0
      BY <1>1, <1>3, SubSeqProperties
    <3> QED
      BY <1>1, <1>3, <3>1
  <2>3. SubSeq(ring, 1, n) \o SubSeq(ring, n + 1, Len(ring)) = ring
    <3>1. 1 \in 1 .. Len(ring) + 1 /\ n \in 1 - 1 .. Len(ring) /\ Len(ring) \in n .. Len(ring)
      BY <1>1, <1>3
    <3>2. ring \in Seq(Byte)
      BY DEF RingOK
    <3>3. SubSeq(ring, 1, n) \o SubSeq(ring, n + 1, Len(ring)) = SubSeq(ring, 1, Len(ring))
      BY <3>1, <3>2, ConcatAdjacentSubSeq
    <3> QED
      BY <3>2, <3>3, SubSeqFull
  <2> DEFINE front == SubSeq(ring, 1, n)
             back  == SubSeq(ring, n + 1, Len(ring))
  <2>4. /\ reply' = [call |-> "read", ok |-> TRUE, data |-> front] /\ ring' = back
        /\ n <= Len(ring)
    BY <1>3
  <2>5. /\ front \in Seq(Byte) /\ Len(front) = n /\ \A k \in 1 .. n : front[k] = ring[k]
        /\ back \in Seq(Byte) /\ Len(back) = Len(ring) - n
        /\ front \o back = ring
    BY <2>1, <2>2, <2>3
  <2> HIDE DEF front, back
  <2>6. RingOK'
    BY <1>1, <2>4, <2>5 DEF RingOK
  <2>7. ReplyOK'
    BY <2>4, <2>5 DEF ReplyOK, Ring!Call
  <2>8. reply'.ok /\ reply'.data = front
    BY <2>4
  <2> QED
    BY <2>4, <2>5, <2>6, <2>7, <2>8
<1> QED
  BY <1>2, <1>3 DEF Ring!Read

-----------------------------------------------------------------------------
(* Types, and what the call stack says of the other variables.              *)

\* The slot runs once or not at all, a handler in a dialog is marked by is_processing, and
\* read_buffer holds what read_status has been told of.
Shape ==
    /\ frames \in {<<>>, <<"loop">>, <<"dialog">>}
    /\ is_processing = IF frames = <<"dialog">> THEN 1 ELSE 0
    /\ ~opened => frames = <<>>
    /\ frames # <<"dialog">> =>
         /\ read_status = "STATUS_HEADRER_EVT" =>
               Len(read_buffer) = 1 /\ read_buffer[1] = HCI_PACKET_TYPE_EVT
         /\ read_status = "STATUS_HEADRER_ACL" =>
               Len(read_buffer) = 1 /\ read_buffer[1] = HCI_PACKET_TYPE_ACL
         /\ read_status = "STATUS_DATA_EVT" =>
               Len(read_buffer) = 3 /\ read_buffer[1] = HCI_PACKET_TYPE_EVT
         /\ read_status = "STATUS_DATA_ACL" =>
               Len(read_buffer) = 5 /\ read_buffer[1] = HCI_PACKET_TYPE_ACL

Safe == TypeOK /\ Shape

\* the last of the three stacks
LEMMA Stack ==
    ASSUME frames \in {<<>>, <<"loop">>, <<"dialog">>}
    PROVE  /\ Innermost = "loop" => frames = <<"loop">>
           /\ Innermost = "dialog" => frames = <<"dialog">>
           /\ frames = <<"loop">> => Innermost = "loop"
           /\ Front(<<"loop">>) = <<>> /\ Front(<<"dialog">>) = <<>>
           /\ DialogOpen <=> frames = <<"dialog">>
           /\ frames \in Seq({"loop", "dialog"})
           /\ <<"loop">> \in Seq({"loop", "dialog"})
           /\ <<"loop">> # <<"dialog">> /\ <<"loop">> # <<>> /\ <<"dialog">> # <<>>
<1>1. Last(<<"loop">>) = "loop" /\ Last(<<"dialog">>) = "dialog"
  BY DEF Last
<1>2. SubSeq(<<"loop">>, 1, 0) = <<>> /\ SubSeq(<<"dialog">>, 1, 0) = <<>>
  BY SubSeqEmpty
<1>3. Front(<<"loop">>) = <<>> /\ Front(<<"dialog">>) = <<>>
  BY <1>2 DEF Front
<1>4. <<>> # <<"loop">> /\ <<>> # <<"dialog">>
  OBVIOUS
<1>5. frames \in Seq({"loop", "dialog"})
  <2>1. <<>> \in Seq({"loop", "dialog"})
    BY EmptySeq
  <2>2. <<"loop">> \in Seq({"loop", "dialog"}) /\ <<"dialog">> \in Seq({"loop", "dialog"})
    OBVIOUS
  <2> QED
    BY <2>1, <2>2
<1>6. <<"loop">> # <<"dialog">> /\ <<"loop">> \in Seq({"loop", "dialog"})
  OBVIOUS
<1> QED
  BY <1>1, <1>3, <1>4, <1>5, <1>6 DEF Innermost, DialogOpen

LEMMA SafeInit == Init => Safe
<1> SUFFICES ASSUME Init PROVE Safe
  OBVIOUS
<1>1. TypeOK
  <2>1. /\ <<>> \in Seq(Byte) /\ <<>> \in Seq(Packet) /\ <<>> \in Seq(Seq(Byte))
        /\ <<>> \in Seq({"loop", "dialog"}) /\ Len(<<>>) = 0
    BY EmptySeq
  <2>2. 0 \in 0 .. MaxOpens /\ 0 <= RINGBUFFER_SIZE - 1
    BY SizeAssumption, BoundsAssumption
  <2> QED
    BY <2>1, <2>2
    DEF Init, TypeOK, Status, Ring!Init, Ring!Done, Ring!Call
<1>2. Shape
  BY DEF Init, Shape
<1> QED
  BY <1>1, <1>2 DEF Safe

\* The bytes a length field gives are a natural number.
LEMMA Lengths ==
    ASSUME Safe, frames = <<"loop">>
    PROVE  /\ read_status = "STATUS_DATA_EVT" => EvtLength \in Nat
           /\ read_status = "STATUS_DATA_ACL" => AclLength \in Nat
<1>1. read_buffer \in Seq(Byte)
  BY DEF Safe, TypeOK
<1>2. \A i \in 1 .. Len(read_buffer) : read_buffer[i] \in Nat
  BY <1>1, ElementOfSeq, PacketBytes
<1>3. CASE read_status = "STATUS_DATA_EVT"
  <2>1. Len(read_buffer) = 3
    BY <1>3 DEF Safe, Shape
  <2> QED
    BY <1>2, <1>3, <2>1 DEF EvtLength
<1>4. CASE read_status = "STATUS_DATA_ACL"
  <2>1. Len(read_buffer) = 5
    BY <1>4 DEF Safe, Shape
  <2>2. read_buffer[4] \in Nat /\ read_buffer[5] \in Nat
    BY <1>2, <2>1
  <2> QED
    BY <1>4, <2>2 DEF AclLength
<1> QED
  BY <1>3, <1>4

LEMMA SafeHeader ==
    ASSUME Safe, NEW type \in {HCI_PACKET_TYPE_EVT, HCI_PACKET_TYPE_ACL},
           NEW status, NEW next, NEW length,
           \/ /\ type = HCI_PACKET_TYPE_EVT /\ status = "STATUS_HEADRER_EVT"
              /\ next = "STATUS_DATA_EVT" /\ length = HCI_LENGTH_HEADER_EVT
           \/ /\ type = HCI_PACKET_TYPE_ACL /\ status = "STATUS_HEADRER_ACL"
              /\ next = "STATUS_DATA_ACL" /\ length = HCI_LENGTH_HEADER_ACL,
           ReadHeader(status, length, next)
    PROVE  Safe'
<1>1. frames = <<"loop">> /\ read_status = status
  BY Stack DEF Safe, Shape, ReadHeader, InLoop
<1>2. length \in Nat /\ RingOK
  BY DEF Safe, TypeOK, RingOK, HCI_LENGTH_HEADER_EVT, HCI_LENGTH_HEADER_ACL
<1>3. RingOK' /\ ReplyOK' /\ (reply'.ok => Len(reply'.data) = length)
  BY <1>2, Taken DEF ReadHeader
<1>4. /\ read_buffer \in Seq(Byte) /\ Len(read_buffer) = 1 /\ read_buffer[1] = type
      /\ reply'.data \in Seq(Byte)
  BY <1>1, <1>3 DEF Safe, TypeOK, Shape, ReplyOK
<1>5. CASE /\ reply'.ok
           /\ read_buffer' = read_buffer \o reply'.data
           /\ read_status' = next
           /\ UNCHANGED frames
  <2>1. /\ read_buffer' \in Seq(Byte) /\ Len(read_buffer') = 1 + length
        /\ read_buffer'[1] = type
    <3> DEFINE data == reply'.data
               buffer == read_buffer \o data
    <3>1. data \in Seq(Byte) /\ Len(data) = length /\ read_buffer' = buffer
      BY <1>3, <1>4, <1>5
    <3> HIDE DEF data
    <3>2. /\ buffer \in Seq(Byte) /\ Len(buffer) = Len(read_buffer) + Len(data)
          /\ \A k \in 1 .. Len(read_buffer) : buffer[k] = read_buffer[k]
      BY <1>4, <3>1, BytesJoin
    <3> HIDE DEF buffer
    <3> QED
      BY <1>4, <3>1, <3>2
  <2>2. TypeOK'
    BY <1>3, <1>5, <2>1 DEF Safe, TypeOK, ReadHeader, portVars, Status, RingOK, ReplyOK
  <2>3. Shape'
    BY <1>1, <1>5, <2>1
    DEF Safe, Shape, ReadHeader, portVars, HCI_LENGTH_HEADER_EVT, HCI_LENGTH_HEADER_ACL
  <2> QED
    BY <2>2, <2>3 DEF Safe
<1>6. CASE ~reply'.ok /\ Return /\ UNCHANGED <<read_buffer, read_status>>
  <2>1. frames' = <<>>
    BY <1>1, <1>6, Stack DEF Return
  <2>2. TypeOK'
    BY <1>3, <1>6, <2>1, EmptySeq DEF Safe, TypeOK, ReadHeader, portVars, RingOK, ReplyOK
  <2>3. Shape'
    BY <1>1, <1>6, <2>1 DEF Safe, Shape, ReadHeader, portVars
  <2> QED
    BY <2>2, <2>3 DEF Safe
<1> QED
  BY <1>5, <1>6 DEF ReadHeader

LEMMA SafeData ==
    ASSUME Safe, NEW status, NEW length \in Nat, ReadData(status, length)
    PROVE  Safe'
<1>1. frames = <<"loop">> /\ read_status = status
  BY Stack DEF Safe, Shape, ReadData, InLoop
<1>2. RingOK
  BY DEF Safe, TypeOK, RingOK
<1>3. RingOK' /\ ReplyOK'
  BY <1>2, Taken DEF ReadData
<1>4. read_buffer \in Seq(Byte) /\ reply'.data \in Seq(Byte)
  BY <1>3 DEF Safe, TypeOK, ReplyOK
<1>5. CASE /\ reply'.ok
           /\ read_buffer' = read_buffer \o reply'.data
           /\ delivered' = Append(delivered, read_buffer')
           /\ \/ HandlerReturns /\ UNCHANGED frames
              \/ /\ is_processing' = 1
                 /\ frames' = Append(Front(frames), "dialog")
                 /\ UNCHANGED read_status
  <2>1. read_buffer' \in Seq(Byte)
    BY <1>4, <1>5, ConcatProperties
  <2>2. delivered' \in Seq(Seq(Byte))
    BY <1>5, <2>1, AppendProperties DEF Safe, TypeOK
  <2>3. CASE HandlerReturns /\ UNCHANGED frames
    <3>1. TypeOK'
      BY <1>3, <2>1, <2>2, <2>3
      DEF Safe, TypeOK, ReadData, portVars, Status, RingOK, ReplyOK, HandlerReturns
    <3>2. Shape'
      BY <1>1, <2>3 DEF Safe, Shape, ReadData, portVars, HandlerReturns
    <3> QED
      BY <3>1, <3>2 DEF Safe
  <2>4. CASE /\ is_processing' = 1
             /\ frames' = Append(Front(frames), "dialog")
             /\ UNCHANGED read_status
    <3>1. frames' = <<"dialog">> /\ frames' \in Seq({"loop", "dialog"})
      BY <1>1, <2>4, Stack DEF Safe, Shape
    <3>2. TypeOK'
      BY <1>3, <2>1, <2>2, <2>4, <3>1
      DEF Safe, TypeOK, ReadData, portVars, Status, RingOK, ReplyOK
    <3>3. Shape'
      BY <1>1, <2>4, <3>1 DEF Safe, Shape, ReadData, portVars
    <3> QED
      BY <3>2, <3>3 DEF Safe
  <2> QED
    BY <1>5, <2>3, <2>4
<1>6. CASE ~reply'.ok /\ Return /\ UNCHANGED <<read_buffer, read_status, is_processing, delivered>>
  <2>1. frames' = <<>>
    BY <1>1, <1>6, Stack DEF Return
  <2>2. TypeOK'
    BY <1>3, <1>6, <2>1, EmptySeq DEF Safe, TypeOK, ReadData, portVars, RingOK, ReplyOK
  <2>3. Shape'
    BY <1>1, <1>6, <2>1 DEF Safe, Shape, ReadData, portVars
  <2> QED
    BY <2>2, <2>3 DEF Safe
<1> QED
  BY <1>5, <1>6 DEF ReadData

LEMMA SafePacketType == ASSUME Safe, ReadPacketType PROVE Safe'
<1>1. frames = <<"loop">> /\ read_status = "STATUS_PACKET_TYPE" /\ ring # <<>>
  BY Stack DEF Safe, Shape, ReadPacketType, InLoop
<1>2. RingOK /\ 1 \in Nat /\ Ring!Read(1)
  BY DEF Safe, TypeOK, RingOK, ReadPacketType, HCI_LENGTH_PACKET_TYPE
<1>3. /\ RingOK' /\ ReplyOK'
      /\ reply'.ok => Len(reply'.data) = 1
      /\ ~reply'.ok => 1 > Len(ring)
  BY <1>2, Taken
<1>4. Len(reply'.data) = 1 /\ reply'.data \in Seq(Byte)
  <2>1. Len(ring) \in Nat \ {0}
    BY <1>1, <1>2, EmptySeq DEF RingOK
  <2>2. reply'.ok \in BOOLEAN
    BY <1>3 DEF ReplyOK
  <2> QED
    BY <1>3, <2>1, <2>2 DEF ReplyOK
<1>5. read_buffer' \in Seq(Byte) /\ Len(read_buffer') = 1
  BY <1>4 DEF ReadPacketType
<1>6. \/ /\ read_buffer'[1] = HCI_PACKET_TYPE_ACL
         /\ read_status' = "STATUS_HEADRER_ACL" /\ UNCHANGED frames
      \/ /\ read_buffer'[1] = HCI_PACKET_TYPE_EVT
         /\ read_status' = "STATUS_HEADRER_EVT" /\ UNCHANGED frames
      \/ /\ frames' = <<>> /\ UNCHANGED read_status
  BY <1>1, Stack DEF ReadPacketType, Return
<1>7. frames' \in Seq({"loop", "dialog"})
  BY <1>1, <1>6, EmptySeq DEF Safe, TypeOK
<1>8. TypeOK'
  BY <1>3, <1>5, <1>6, <1>7 DEF Safe, TypeOK, ReadPacketType, portVars, Status, RingOK, ReplyOK
<1>9. Shape'
  BY <1>1, <1>5, <1>6 DEF Safe, Shape, ReadPacketType, portVars
<1> QED
  BY <1>8, <1>9 DEF Safe

\* n bytes of the wire and the rest of it are the wire.
LEMMA WireSplit ==
    ASSUME wire \in Seq(Byte), NEW n \in 1 .. Len(wire)
    PROVE  /\ SubSeq(wire, 1, n) \in Seq(Byte)
           /\ SubSeq(wire, n + 1, Len(wire)) \in Seq(Byte)
           /\ SubSeq(wire, 1, n) \o SubSeq(wire, n + 1, Len(wire)) = wire
<1>1. Len(wire) \in Nat /\ \A k \in 1 .. Len(wire) : wire[k] \in Byte
  BY ElementOfSeq, LenProperties
<1>2. SubSeq(wire, 1, n) \in Seq(Byte)
  BY <1>1, SubSeqProperties
<1>3. SubSeq(wire, n + 1, Len(wire)) \in Seq(Byte)
  BY <1>1, SubSeqProperties
<1>4. 1 \in 1 .. Len(wire) + 1 /\ n \in 1 - 1 .. Len(wire) /\ Len(wire) \in n .. Len(wire)
  BY <1>1
<1>5. SubSeq(wire, 1, n) \o SubSeq(wire, n + 1, Len(wire)) = SubSeq(wire, 1, Len(wire))
  BY <1>4, ConcatAdjacentSubSeq
<1> QED
  BY <1>2, <1>3, <1>5, SubSeqFull

LEMMA SafeReadyRead == ASSUME Safe, NEW n \in 1 .. Len(wire), ReadyRead(n) PROVE Safe'
<1>1. /\ SubSeq(wire, 1, n) \in Seq(Byte) /\ wire' \in Seq(Byte)
  BY WireSplit DEF Safe, TypeOK, ReadyRead
<1>2. RingOK' /\ ReplyOK'
  BY <1>1, Written DEF Safe, TypeOK, RingOK, ReadyRead
<1>3. frames \in {<<>>, <<"dialog">>}
  BY Stack DEF Safe, Shape, ReadyRead, InEventLoop
<1>4. Append(<<>>, "loop") = <<"loop">>
  OBVIOUS
<1>5. \/ UNCHANGED frames
      \/ opened /\ frames = <<>> /\ frames' = <<"loop">>
  <2>1. CASE frames = <<>>
    <3>1. frames' = <<"loop">> \/ frames' = frames
      BY <1>4, <2>1 DEF ReadyRead
    <3> QED
      BY <2>1, <3>1 DEF ReadyRead
  <2>2. CASE frames = <<"dialog">>
    BY <2>2 DEF Safe, Shape, ReadyRead
  <2> QED
    BY <1>3, <2>1, <2>2
<1>6. frames' \in Seq({"loop", "dialog"})
  BY <1>5, Stack DEF Safe, Shape
<1>7. reply'.ok \in BOOLEAN
  BY <1>2 DEF ReplyOK
<1>8. TypeOK'
  BY <1>1, <1>2, <1>6, <1>7 DEF Safe, TypeOK, ReadyRead, portVars, RingOK, ReplyOK
<1>9. Shape'
  <2>1. UNCHANGED <<opened, read_status, read_buffer, is_processing>>
    BY DEF ReadyRead, portVars
  <2>2. CASE UNCHANGED frames
    BY <2>1, <2>2 DEF Safe, Shape
  <2>3. CASE opened /\ frames = <<>> /\ frames' = <<"loop">>
    <3>1. frames # <<"dialog">> /\ frames' # <<"dialog">> /\ Shape
      BY <2>3, Stack DEF Safe, Shape
    <3> QED
      BY <2>1, <2>3, <3>1 DEF Shape
  <2> QED
    BY <1>5, <2>2, <2>3
<1> QED
  BY <1>8, <1>9 DEF Safe

LEMMA SafeNext == Safe /\ [Next]_vars => Safe'
<1> SUFFICES ASSUME Safe, [Next]_vars PROVE Safe'
  OBVIOUS
<1>1. CASE Open
  <2>1. /\ <<>> \in Seq(Byte) /\ <<>> \in Seq(Packet) /\ <<>> \in Seq(Seq(Byte))
        /\ Len(<<>>) = 0
    BY EmptySeq
  <2>2. opens' \in 0 .. MaxOpens
    BY <1>1, BoundsAssumption DEF Safe, TypeOK, Open
  <2>3. ring' = <<>> /\ 0 <= RINGBUFFER_SIZE - 1 /\ ReplyOK'
    BY <1>1, <2>1, SizeAssumption DEF Open, Ring!Reset, Ring!Done, Ring!Call, ReplyOK
  <2>4. TypeOK'
    BY <1>1, <2>1, <2>2, <2>3 DEF Safe, TypeOK, Open, ReplyOK
  <2>5. Shape'
    BY <1>1 DEF Safe, Shape, Open, ButtonsEnabled
  <2> QED
    BY <2>4, <2>5 DEF Safe
<1>2. CASE Close
  <2>1. <<>> \in Seq(Byte)
    BY EmptySeq
  <2>2. TypeOK'
    BY <1>2, <2>1 DEF Safe, TypeOK, Close, readerVars
  <2>3. Shape'
    BY <1>2 DEF Safe, Shape, Close, ButtonsEnabled, readerVars
  <2> QED
    BY <2>2, <2>3 DEF Safe
<1>3. ASSUME NEW packet \in Packet, ControllerSends(packet) PROVE Safe'
  <2>1. packet \in Seq(Byte)
    BY PacketBytes
  <2>2. wire' \in Seq(Byte) /\ sent' \in Seq(Packet)
    BY <1>3, <2>1, ConcatProperties, AppendProperties DEF Safe, TypeOK, ControllerSends
  <2>3. TypeOK'
    BY <1>3, <2>2 DEF Safe, TypeOK, ControllerSends, portVars, readerVars
  <2>4. Shape'
    BY <1>3 DEF Safe, Shape, ControllerSends, portVars, readerVars
  <2> QED
    BY <2>3, <2>4 DEF Safe
<1>4. CASE SomeReadyRead
  BY <1>4, SafeReadyRead DEF SomeReadyRead
<1>5. CASE LoopEnds
  <2>1. frames = <<"loop">> /\ frames' = <<>>
    BY <1>5, Stack DEF Safe, Shape, LoopEnds, Return
  <2>2. frames' \in Seq({"loop", "dialog"})
    BY <2>1, EmptySeq
  <2>3. TypeOK'
    BY <1>5, <2>2 DEF Safe, TypeOK, LoopEnds, portVars
  <2>4. Shape'
    BY <1>5, <2>1 DEF Safe, Shape, LoopEnds, portVars
  <2> QED
    BY <2>3, <2>4 DEF Safe
<1>6. CASE ReadPacketType
  BY <1>6, SafePacketType
<1>7. CASE ReadEvtHeader
  BY <1>7, SafeHeader DEF ReadEvtHeader
<1>8. CASE ReadAclHeader
  BY <1>8, SafeHeader DEF ReadAclHeader
<1>9. CASE ReadEvtData
  <2>1. frames = <<"loop">> /\ read_status = "STATUS_DATA_EVT"
    BY <1>9, Stack DEF Safe, Shape, ReadEvtData, ReadData, InLoop
  <2> QED
    BY <1>9, <2>1, Lengths, SafeData DEF ReadEvtData
<1>10. CASE ReadAclData
  <2>1. frames = <<"loop">> /\ read_status = "STATUS_DATA_ACL"
    BY <1>10, Stack DEF Safe, Shape, ReadAclData, ReadData, InLoop
  <2> QED
    BY <1>10, <2>1, Lengths, SafeData DEF ReadAclData
<1>11. CASE DialogCloses
  <2>1. frames = <<"dialog">>
    BY <1>11, Stack DEF Safe, Shape, DialogCloses
  <2>2. frames' = <<"loop">> /\ frames' \in Seq({"loop", "dialog"})
    <3>1. frames' = Append(<<>>, "loop")
      BY <1>11, <2>1, Stack DEF Safe, Shape, DialogCloses
    <3> QED
      BY <3>1
  <2>3. TypeOK'
    BY <1>11, <2>2 DEF Safe, TypeOK, DialogCloses, HandlerReturns, portVars, Status
  <2>4. Shape'
    <3>1. opened /\ frames' # <<"dialog">>
      BY <2>1, <2>2, Stack DEF Safe, Shape
    <3>2. opened' = opened /\ is_processing' = 0 /\ read_status' = "STATUS_PACKET_TYPE"
      BY <1>11 DEF DialogCloses, HandlerReturns, portVars
    <3> QED
      BY <2>2, <3>1, <3>2 DEF Shape
  <2> QED
    BY <2>3, <2>4 DEF Safe
<1>12. CASE UNCHANGED vars
  BY <1>12 DEF Safe, TypeOK, Shape, vars
<1> QED
  BY <1>1, <1>2, <1>3, <1>4, <1>5, <1>6, <1>7, <1>8, <1>9, <1>10, <1>11, <1>12
  DEF Next, LoopStep

\* The reader keeps its types, and the slot stands in its loop once or in one dialog under
\* is_processing, with the header read that read_status tells of, whatever the controller sends
\* and the user does.
THEOREM TypeCorrect == Spec => [](TypeOK /\ Shape)
<1>1. Safe => TypeOK /\ Shape
  BY DEF Safe
<1> QED
  BY <1>1, SafeInit, SafeNext, PTL DEF Spec

\* While a handler stands in a dialog the slot only stores bytes
\* (mainwindow.cpp:117, "avoid function re-entrant").
THEOREM HandlerLeftAlone == Spec => HandlerUndisturbed
<1>1. Safe /\ [Next]_vars =>
        [DialogOpen => UNCHANGED <<read_buffer, delivered>> /\ IsPrefix(ring, ring')]_vars
  <2> SUFFICES ASSUME Safe, Next, DialogOpen
               PROVE  UNCHANGED <<read_buffer, delivered>> /\ IsPrefix(ring, ring')
    OBVIOUS
  <2>1. frames = <<"dialog">> /\ frames # <<>> /\ Innermost # "loop"
    BY Stack DEF Safe, Shape
  <2>2. ring \in Seq(Byte) /\ wire \in Seq(Byte) /\ RingOK
    BY DEF Safe, TypeOK, RingOK
  <2>3. ASSUME NEW chunk \in Seq(Byte), ring' = ring \o chunk
        PROVE  IsPrefix(ring, ring')
    BY <2>2, <2>3, PrefixOfConcat
  <2>4. CASE UNCHANGED <<ring, read_buffer, delivered>>
    <3>1. ring' = ring \o <<>> /\ <<>> \in Seq(Byte)
      BY <2>2, <2>4, ConcatEmptySeq, EmptySeq
    <3> QED
      BY <2>3, <2>4, <3>1
  <2>5. ASSUME NEW n \in 1 .. Len(wire), ReadyRead(n)
        PROVE  UNCHANGED <<read_buffer, delivered>> /\ IsPrefix(ring, ring')
    <3>1. SubSeq(wire, 1, n) \in Seq(Byte)
      BY <2>2, WireSplit
    <3>2. ring' = ring \o SubSeq(wire, 1, n) \/ UNCHANGED ring
      BY <2>2, <2>5, <3>1, Written DEF ReadyRead
    <3>3. UNCHANGED <<read_buffer, delivered>>
      BY <2>5 DEF ReadyRead
    <3> QED
      BY <2>3, <2>4, <3>1, <3>2, <3>3
  <2>6. CASE DialogCloses \/ \E packet \in Packet : ControllerSends(packet)
    BY <2>4, <2>6 DEF DialogCloses, ControllerSends, readerVars
  <2>7. ~Open /\ ~Close /\ ~LoopStep
    BY <2>1 DEF Open, Close, ButtonsEnabled, LoopStep, LoopEnds, ReadPacketType, ReadEvtHeader,
       ReadAclHeader, ReadEvtData, ReadAclData, ReadHeader, ReadData, InLoop
  <2> QED
    BY <2>5, <2>6, <2>7 DEF Next, SomeReadyRead
<1> QED
  BY <1>1, SafeInit, SafeNext, PTL DEF Spec, HandlerUndisturbed

-----------------------------------------------------------------------------
(* The packets handed over are those sent.                                  *)

\* bytes of the packet being read; a packet in a handler is handed over already
Pending == IF read_status = "STATUS_PACKET_TYPE" \/ frames = <<"dialog">>
           THEN <<>> ELSE read_buffer

\* bytes the reader has not handed over, in the order they were sent
Coming == Pending \o (ring \o wire)

\* They are the packets sent and not handed over.
Stream ==
    StreamIntact => \E ps \in Seq(Packet) : /\ sent = delivered \o ps
                                            /\ opened => Cut(Coming, ps)

ComingOK == Pending \in Seq(Byte) /\ Coming \in Seq(Byte)

LEMMA ComingTyped == Safe => ComingOK
<1> SUFFICES ASSUME Safe PROVE ComingOK
  OBVIOUS
<1>1. Pending \in Seq(Byte)
  BY EmptySeq DEF Safe, TypeOK, Pending
<1> QED
  BY <1>1, ConcatProperties DEF Safe, TypeOK, Coming, ComingOK

LEMMA StreamInit == Init => Stream
<1> SUFFICES ASSUME Init PROVE Stream
  OBVIOUS
<1>1. <<>> \in Seq(Packet) /\ <<>> \o <<>> = <<>>
  BY EmptySeq, ConcatEmptySeq
<1> QED
  BY <1>1 DEF Init, Stream

\* A step that only moves bytes keeps the packets.
LEMMA BytesMove ==
    ASSUME Stream, UNCHANGED <<sent, delivered, opened, lost, midPacket>>,
           StreamIntact /\ opened => Coming' = Coming
    PROVE  Stream'
BY DEF Stream, StreamIntact

LEMMA StreamSends ==
    ASSUME Safe, Stream, NEW packet \in Packet, ControllerSends(packet)
    PROVE  Stream'
<1> SUFFICES ASSUME StreamIntact
             PROVE  \E ps \in Seq(Packet) : /\ sent' = delivered' \o ps
                                            /\ opened' => Cut(Coming', ps)
  BY DEF Stream, StreamIntact, ControllerSends, portVars
<1>1. PICK ps \in Seq(Packet) : sent = delivered \o ps /\ Cut(Coming, ps)
  BY DEF Stream, ControllerSends
<1>2. packet \in Seq(Byte) /\ ps \in Seq(Seq(Byte)) /\ delivered \in Seq(Seq(Byte))
  BY PacketBytes, SeqMonotonic DEF Safe, TypeOK
<1>3. Append(ps, packet) \in Seq(Packet)
  BY AppendProperties
<1>4. sent' = delivered' \o Append(ps, packet)
  <2>1. Append(delivered \o ps, packet) = delivered \o Append(ps, packet)
    <3> DEFINE S == Seq(Byte)
    <3>1. packet \in S /\ ps \in Seq(S) /\ delivered \in Seq(S)
      BY <1>2
    <3> HIDE DEF S
    <3>2. delivered \o ps \in Seq(S) /\ <<packet>> \in Seq(S)
      BY <3>1, ConcatProperties
    <3>3. Append(delivered \o ps, packet) = (delivered \o ps) \o <<packet>>
      BY <3>1, <3>2, AppendIsConcat
    <3>4. Append(ps, packet) = ps \o <<packet>>
      BY <3>1, AppendIsConcat
    <3>5. (delivered \o ps) \o <<packet>> = delivered \o (ps \o <<packet>>)
      BY <3>1, <3>2, ConcatAssociative
    <3> QED
      BY <3>3, <3>4, <3>5
  <2> QED
    BY <1>1, <2>1 DEF ControllerSends, readerVars
<1>5. Coming' = Coming \o packet
  <2>1. Pending' = Pending /\ ring' = ring /\ wire' = wire \o packet
    BY DEF ControllerSends, Pending, readerVars
  <2>2. Pending \in Seq(Byte) /\ ring \in Seq(Byte) /\ wire \in Seq(Byte)
    BY ComingTyped DEF ComingOK, Safe, TypeOK
  <2>3. ring \o wire \in Seq(Byte)
    BY <2>2, ConcatProperties
  <2>4. ring \o (wire \o packet) = (ring \o wire) \o packet
    BY <1>2, <2>2, BytesAssociate
  <2> DEFINE rest == ring \o wire
  <2>5. rest \in Seq(Byte) /\ ring \o (wire \o packet) = rest \o packet
    BY <2>3, <2>4
  <2> HIDE DEF rest
  <2>6. (Pending \o rest) \o packet = Pending \o (rest \o packet)
    BY <1>2, <2>2, <2>5, BytesAssociate
  <2> QED
    BY <2>1, <2>5, <2>6, Zenon DEF Coming, rest
<1>6. Cut(Coming', Append(ps, packet))
  BY <1>1, <1>2, <1>5, CutAnother, ComingTyped DEF ComingOK
<1> QED
  BY <1>3, <1>4, <1>6

LEMMA StreamReadyRead ==
    ASSUME Safe, Stream, NEW n \in 1 .. Len(wire), ReadyRead(n)
    PROVE  Stream'
<1>1. /\ wire \in Seq(Byte) /\ ring \in Seq(Byte) /\ wire' \in Seq(Byte) /\ RingOK
      /\ SubSeq(wire, 1, n) \in Seq(Byte) /\ SubSeq(wire, 1, n) \o wire' = wire
  BY WireSplit DEF Safe, TypeOK, RingOK, ReadyRead
<1>2. reply'.ok \in BOOLEAN /\ (reply'.ok => ring' = ring \o SubSeq(wire, 1, n))
  BY <1>1, Written DEF ReadyRead, ReplyOK
<1>3. CASE ~reply'.ok
  <2>1. lost'
    BY <1>3 DEF ReadyRead
  <2> QED
    BY <2>1 DEF Stream, StreamIntact
<1>4. CASE reply'.ok
  <2>1. ring' \o wire' = ring \o wire
    <3> DEFINE chunk == SubSeq(wire, 1, n)
    <3>1. chunk \in Seq(Byte) /\ chunk \o wire' = wire /\ ring' = ring \o chunk
      BY <1>1, <1>2, <1>4
    <3>2. ring \in Seq(Byte) /\ chunk \in Seq(Byte) /\ wire' \in Seq(Byte)
      BY <1>1
    <3> HIDE DEF chunk
    <3>3. (ring \o chunk) \o wire' = ring \o (chunk \o wire')
      BY <3>2, BytesAssociate
    <3> QED
      BY <3>1, <3>3, Zenon
  <2>2. (frames' # <<"dialog">> /\ frames # <<"dialog">>) \/ UNCHANGED frames
    <3>1. frames \in {<<>>, <<"dialog">>}
      BY Stack DEF Safe, Shape, ReadyRead, InEventLoop
    <3>2. Append(<<>>, "loop") = <<"loop">>
      OBVIOUS
    <3>3. CASE frames = <<>>
      <4>1. frames' = <<"loop">> \/ frames' = frames
        BY <3>2, <3>3 DEF ReadyRead
      <4> QED
        BY <3>3, <4>1, Stack DEF Safe, Shape
    <3>4. CASE frames = <<"dialog">>
      BY <3>4 DEF Safe, Shape, ReadyRead
    <3> QED
      BY <3>1, <3>3, <3>4
  <2>3. Pending' = Pending
    BY <2>2 DEF Pending, ReadyRead
  <2>4. Coming' = Coming
    BY <2>1, <2>3 DEF Coming
  <2>5. UNCHANGED <<sent, delivered, opened, midPacket>> /\ lost' = lost
    BY <1>4 DEF ReadyRead, portVars, Safe, TypeOK
  <2> QED
    BY <2>4, <2>5, BytesMove
<1> QED
  BY <1>2, <1>3, <1>4

\* The first byte read of an undamaged stream names the type of a packet.
LEMMA TypeIsKnown ==
    ASSUME Safe, Stream, ReadPacketType
    PROVE  /\ StreamIntact => read_buffer'[1] \in {HCI_PACKET_TYPE_EVT, HCI_PACKET_TYPE_ACL}
           /\ frames = <<"loop">> /\ frames # <<"dialog">>
           /\ Coming = ring \o wire /\ ring \in Seq(Byte) /\ wire \in Seq(Byte)
           /\ reply'.data \in Seq(Byte) /\ ring' \in Seq(Byte) /\ ring = reply'.data \o ring'
           /\ read_buffer' = reply'.data
<1>1. /\ frames = <<"loop">> /\ frames # <<"dialog">>
      /\ read_status = "STATUS_PACKET_TYPE" /\ ring # <<>> /\ opened
  BY Stack DEF Safe, Shape, ReadPacketType, InLoop
<1>2. /\ RingOK /\ Ring!Read(1) /\ 1 \in Nat
      /\ ring \in Seq(Byte) /\ wire \in Seq(Byte) /\ Len(ring) \in Nat \ {0}
  BY <1>1, EmptySeq DEF Safe, TypeOK, RingOK, ReadPacketType, HCI_LENGTH_PACKET_TYPE
<1>3. /\ RingOK' /\ ReplyOK'
      /\ reply'.ok  => /\ Len(reply'.data) = 1
                       /\ \A k \in 1 .. 1 : reply'.data[k] = ring[k]
                       /\ ring = reply'.data \o ring'
      /\ ~reply'.ok => 1 > Len(ring)
  BY <1>2, Taken
<1>4. /\ reply'.data \in Seq(Byte) /\ ring' \in Seq(Byte)
      /\ reply'.data[1] = ring[1] /\ ring = reply'.data \o ring'
  <2>1. reply'.ok \in BOOLEAN
    BY <1>3 DEF ReplyOK
  <2> QED
    BY <1>2, <1>3, <2>1 DEF ReplyOK, RingOK
<1>5. Coming = ring \o wire /\ ring \o wire \in Seq(Byte) /\ ring \o wire # <<>>
      /\ (ring \o wire)[1] = ring[1]
  <2>1. Pending = <<>>
    BY <1>1 DEF Pending
  <2>2. /\ ring \o wire \in Seq(Byte) /\ Len(ring \o wire) = Len(ring) + Len(wire)
        /\ \A k \in 1 .. Len(ring) + Len(wire) :
             (ring \o wire)[k] = IF k <= Len(ring) THEN ring[k] ELSE wire[k - Len(ring)]
    BY <1>2, ConcatProperties
  <2>3. Len(wire) \in Nat /\ 1 <= Len(ring) /\ 1 \in 1 .. Len(ring) + Len(wire)
    BY <1>2
  <2>4. Len(ring \o wire) # 0
    BY <2>2, <2>3
  <2> QED
    BY <2>1, <2>2, <2>3, <2>4, ConcatEmptySeq DEF Coming
<1>6. UNCHANGED <<sent, delivered, opened, lost, midPacket, wire>> /\ read_buffer' = reply'.data
  BY DEF ReadPacketType, portVars
<1>7. ASSUME StreamIntact
      PROVE  read_buffer'[1] \in {HCI_PACKET_TYPE_EVT, HCI_PACKET_TYPE_ACL}
  <2>1. PICK ps \in Seq(Packet) : Cut(Coming, ps)
    BY <1>1, <1>7 DEF Stream
  <2>2. (ring \o wire)[1] \in {HCI_PACKET_TYPE_EVT, HCI_PACKET_TYPE_ACL}
    BY <1>5, <2>1, FirstByte
  <2> QED
    BY <1>4, <1>5, <1>6, <2>2
<1> QED
  BY <1>1, <1>2, <1>4, <1>5, <1>6, <1>7

LEMMA StreamPacketType == ASSUME Safe, Stream, ReadPacketType PROVE Stream'
<1>1. UNCHANGED <<sent, delivered, opened, lost, midPacket, wire>>
  BY DEF ReadPacketType, portVars
<1>2. ASSUME StreamIntact
      PROVE  Coming' = Coming
  <2>1. UNCHANGED frames /\ read_status' # "STATUS_PACKET_TYPE"
    BY <1>2, TypeIsKnown DEF ReadPacketType
  <2>2. Pending' = reply'.data
    BY <2>1, TypeIsKnown DEF Pending
  <2>3. (reply'.data \o ring') \o wire = reply'.data \o (ring' \o wire)
    BY TypeIsKnown, BytesAssociate
  <2> QED
    BY <1>1, <2>2, <2>3, TypeIsKnown DEF Coming
<1> QED
  BY <1>1, <1>2, BytesMove

LEMMA StreamHeader ==
    ASSUME Safe, Stream, NEW status \in Status \ {"STATUS_PACKET_TYPE"},
           NEW next \in Status \ {"STATUS_PACKET_TYPE"}, NEW length \in Nat,
           ReadHeader(status, length, next)
    PROVE  Stream'
<1>1. /\ frames = <<"loop">> /\ frames # <<"dialog">> /\ <<>> # <<"dialog">>
      /\ read_status = status /\ Pending = read_buffer
  BY Stack DEF Safe, Shape, ReadHeader, InLoop, Pending
<1>2. RingOK /\ read_buffer \in Seq(Byte) /\ wire \in Seq(Byte)
  BY DEF Safe, TypeOK, RingOK
<1>3. RingOK' /\ ReplyOK' /\ (IF reply'.ok THEN ring = reply'.data \o ring' ELSE UNCHANGED ring)
  BY <1>2, Taken DEF ReadHeader
<1>4. UNCHANGED <<sent, delivered, opened, lost, midPacket, wire>>
  BY DEF ReadHeader, portVars
<1>5. Coming' = Coming
  <2>1. CASE /\ reply'.ok
             /\ read_buffer' = read_buffer \o reply'.data
             /\ read_status' = next
             /\ UNCHANGED frames
    <3>1. Pending' = read_buffer \o reply'.data
      BY <1>1, <2>1 DEF Pending
    <3>2. reply'.data \in Seq(Byte) /\ ring' \in Seq(Byte) /\ ring = reply'.data \o ring'
      BY <1>3, <2>1 DEF ReplyOK, RingOK
    <3>3. (reply'.data \o ring') \o wire = reply'.data \o (ring' \o wire)
      BY <1>2, <3>2, BytesAssociate
    <3> DEFINE rest == ring' \o wire
    <3>4. rest \in Seq(Byte) /\ ring \o wire = reply'.data \o rest
      BY <1>2, <3>2, <3>3, BytesJoin, Zenon
    <3>5. wire' = wire
      BY <1>4
    <3> HIDE DEF rest
    <3>6. (read_buffer \o reply'.data) \o rest = read_buffer \o (reply'.data \o rest)
      BY <1>2, <3>2, <3>4, BytesAssociate
    <3> QED
      BY <1>1, <3>1, <3>4, <3>5, <3>6, Zenon DEF Coming, rest
  <2>2. CASE ~reply'.ok /\ Return /\ UNCHANGED <<read_buffer, read_status>>
    <3>1. frames' = <<>>
      BY <1>1, <2>2, Stack DEF Return
    <3>2. Pending' = Pending
      BY <1>1, <2>2, <3>1 DEF Pending
    <3> QED
      BY <1>3, <1>4, <2>2, <3>2 DEF Coming
  <2> QED
    BY <2>1, <2>2 DEF ReadHeader
<1> QED
  BY <1>4, <1>5, BytesMove

\* When the data is read, read_buffer is a whole packet.
LEMMA BufferWhole ==
    ASSUME Safe, NEW status, NEW length \in Nat, ReadData(status, length), reply'.ok,
           \/ status = "STATUS_DATA_EVT" /\ length = EvtLength
           \/ status = "STATUS_DATA_ACL" /\ length = AclLength
    PROVE  /\ WellFormed(read_buffer') /\ read_buffer' \in Seq(Byte)
           /\ ring' \in Seq(Byte)
           /\ read_buffer \o (ring \o wire) = read_buffer' \o (ring' \o wire)
<1>1. frames # <<"dialog">> /\ read_status = status
  BY Stack DEF Safe, Shape, ReadData, InLoop
<1>2. RingOK /\ read_buffer \in Seq(Byte) /\ wire \in Seq(Byte) /\ Ring!Read(length)
  BY DEF Safe, TypeOK, RingOK, ReadData
<1>3. /\ RingOK' /\ ReplyOK' /\ ring = reply'.data \o ring' /\ Len(reply'.data) = length
      /\ read_buffer' = read_buffer \o reply'.data
  BY <1>2, Taken DEF ReadData
<1>4. reply'.data \in Seq(Byte) /\ ring' \in Seq(Byte)
  BY <1>3 DEF ReplyOK, RingOK
<1>5. ring' \o wire \in Seq(Byte)
  BY <1>2, <1>4, ConcatProperties
<1>6. read_buffer \o (ring \o wire) = read_buffer' \o (ring' \o wire)
  <2>1. (reply'.data \o ring') \o wire = reply'.data \o (ring' \o wire)
    BY <1>2, <1>4, BytesAssociate
  <2>2. (read_buffer \o reply'.data) \o (ring' \o wire)
           = read_buffer \o (reply'.data \o (ring' \o wire))
    BY <1>2, <1>4, <1>5, BytesAssociate
  <2> QED
    BY <1>3, <2>1, <2>2
<1>7. /\ read_buffer' \in Seq(Byte) /\ Len(read_buffer') = Len(read_buffer) + length
      /\ \A k \in 1 .. Len(read_buffer) : read_buffer'[k] = read_buffer[k]
  <2>1. /\ read_buffer \o reply'.data \in Seq(Byte)
        /\ Len(read_buffer \o reply'.data) = Len(read_buffer) + Len(reply'.data)
        /\ \A k \in 1 .. Len(read_buffer) + Len(reply'.data) :
             (read_buffer \o reply'.data)[k]
                = IF k <= Len(read_buffer) THEN read_buffer[k]
                  ELSE reply'.data[k - Len(read_buffer)]
    BY <1>2, <1>4, ConcatProperties
  <2>2. Len(read_buffer) \in Nat
    BY <1>2
  <2> QED
    BY <1>3, <2>1, <2>2
<1>8. read_buffer' \in Seq(Nat)
  BY <1>7, PacketBytes, SeqMonotonic
<1>9. CASE status = "STATUS_DATA_EVT"
  <2>1. /\ Len(read_buffer) = 3 /\ read_buffer[1] = HCI_PACKET_TYPE_EVT
        /\ length = EvtLength
    BY <1>1, <1>9 DEF Safe, Shape
  <2> QED
    BY <1>4, <1>6, <1>7, <1>8, <2>1 DEF WellFormed, EvtLength
<1>10. CASE status = "STATUS_DATA_ACL"
  <2>1. /\ Len(read_buffer) = 5 /\ read_buffer[1] = HCI_PACKET_TYPE_ACL
        /\ length = AclLength
    BY <1>1, <1>10 DEF Safe, Shape
  <2>2. read_buffer[4] \in Nat /\ read_buffer[5] \in Nat
    <3>1. 4 \in 1 .. Len(read_buffer) /\ 5 \in 1 .. Len(read_buffer)
      BY <2>1
    <3> QED
      BY <1>2, <3>1, ElementOfSeq, PacketBytes
  <2>3. /\ Len(read_buffer') = 5 + length
        /\ read_buffer'[1] = HCI_PACKET_TYPE_ACL
        /\ read_buffer'[4] = read_buffer[4] /\ read_buffer'[5] = read_buffer[5]
    BY <1>7, <2>1
  <2>4. length = read_buffer'[4] + 256 * read_buffer'[5]
    BY <2>1, <2>3 DEF AclLength
  <2>5. Len(read_buffer') >= 5 /\ Len(read_buffer') = 5 + read_buffer'[4] + 256 * read_buffer'[5]
    BY <2>2, <2>3, <2>4
  <2> QED
    BY <1>4, <1>6, <1>7, <1>8, <2>3, <2>5 DEF WellFormed
<1> QED
  BY <1>9, <1>10

LEMMA StreamData ==
    ASSUME Safe, Stream, NEW status, NEW length \in Nat, ReadData(status, length),
           \/ status = "STATUS_DATA_EVT" /\ length = EvtLength
           \/ status = "STATUS_DATA_ACL" /\ length = AclLength
    PROVE  Stream'
<1>1. /\ frames = <<"loop">> /\ frames # <<"dialog">> /\ <<>> # <<"dialog">> /\ opened
      /\ read_status # "STATUS_PACKET_TYPE" /\ Pending = read_buffer
  BY Stack DEF Safe, Shape, ReadData, InLoop, Pending
<1>2. UNCHANGED <<sent, opened, lost, midPacket, wire>>
  BY DEF ReadData, portVars
<1>3. CASE ~reply'.ok /\ Return /\ UNCHANGED <<read_buffer, read_status, is_processing, delivered>>
  <2>1. frames' = <<>>
    BY <1>1, <1>3, Stack DEF Return
  <2>2. Pending' = Pending
    BY <1>1, <1>3, <2>1 DEF Pending
  <2>3. UNCHANGED ring
    <3>1. RingOK
      BY DEF Safe, TypeOK, RingOK
    <3> QED
      BY <1>3, <3>1, Taken DEF ReadData
  <2>4. Coming' = Coming
    BY <1>2, <2>2, <2>3 DEF Coming
  <2> QED
    BY <1>2, <1>3, <2>4, BytesMove
<1>4. CASE /\ reply'.ok
           /\ delivered' = Append(delivered, read_buffer')
           /\ \/ HandlerReturns /\ UNCHANGED frames
              \/ /\ is_processing' = 1
                 /\ frames' = Append(Front(frames), "dialog")
                 /\ UNCHANGED read_status
  <2> SUFFICES ASSUME StreamIntact
               PROVE  Stream'
    BY <1>2 DEF Stream, StreamIntact
  <2>1. PICK ps \in Seq(Packet) : sent = delivered \o ps /\ Cut(Coming, ps)
    BY <1>1 DEF Stream
  <2>2. /\ WellFormed(read_buffer') /\ read_buffer' \in Seq(Byte)
        /\ ring' \in Seq(Byte) /\ wire \in Seq(Byte)
        /\ Coming = read_buffer' \o (ring' \o wire)
    BY <1>1, <1>4, BufferWhole DEF Coming, Safe, TypeOK
  <2>3. ring' \o wire \in Seq(Byte)
    BY <2>2, ConcatProperties
  <2>4. ps # <<>> /\ ps[1] = read_buffer' /\ Cut(ring' \o wire, Tail(ps))
    BY <2>1, <2>2, <2>3, WholePacket
  <2>5. Pending' = <<>>
    <3>1. CASE HandlerReturns /\ UNCHANGED frames
      BY <3>1 DEF HandlerReturns, Pending
    <3>2. CASE frames' = Append(Front(frames), "dialog")
      <4>1. Append(<<>>, "dialog") = <<"dialog">>
        OBVIOUS
      <4>2. frames' = <<"dialog">>
        BY <1>1, <3>2, <4>1, Stack DEF Safe, Shape
      <4> QED
        BY <4>2 DEF Pending
    <3> QED
      BY <1>4, <3>1, <3>2
  <2>6. Coming' = ring' \o wire
    BY <1>2, <2>3, <2>5, ConcatEmptySeq DEF Coming
  <2>7. sent' = delivered' \o Tail(ps)
    <3> DEFINE S == Seq(Byte)
    <3>1. ps \in Seq(S) /\ delivered \in Seq(S)
      BY PacketBytes, SeqMonotonic DEF Safe, TypeOK
    <3> HIDE DEF S
    <3>2. Append(delivered, ps[1]) \o Tail(ps) = delivered \o ps
      BY <2>4, <3>1, MoveFirst
    <3> QED
      BY <1>2, <1>4, <2>1, <2>4, <3>2
  <2>8. Tail(ps) \in Seq(Packet)
    BY <2>4, HeadTailProperties
  <2> QED
    BY <2>4, <2>6, <2>7, <2>8 DEF Stream
<1> QED
  BY <1>3, <1>4 DEF ReadData

LEMMA StreamNext == Safe /\ Stream /\ [Next]_vars => Stream'
<1> SUFFICES ASSUME Safe, Stream, [Next]_vars PROVE Stream'
  OBVIOUS
<1>1. CASE Open
  <2>1. <<>> \in Seq(Packet) /\ <<>> \in Seq(Byte) /\ <<>> \o <<>> = <<>>
    BY EmptySeq, ConcatEmptySeq
  <2>2. /\ sent' = <<>> /\ delivered' = <<>> /\ ring' = <<>> /\ wire' = <<>>
        /\ midPacket' = (read_status # "STATUS_PACKET_TYPE") /\ UNCHANGED read_status
    BY <1>1 DEF Open, Ring!Reset
  <2>3. CASE read_status = "STATUS_PACKET_TYPE"
    <3>1. Coming' = <<>>
      BY <2>1, <2>2, <2>3 DEF Coming, Pending
    <3> QED
      BY <2>1, <2>2, <3>1, CutNothing DEF Stream
  <2>4. CASE read_status # "STATUS_PACKET_TYPE"
    BY <2>2, <2>4 DEF Stream, StreamIntact
  <2> QED
    BY <2>3, <2>4
<1>2. CASE Close
  BY <1>2 DEF Close, readerVars, Stream, StreamIntact
<1>3. ASSUME NEW packet \in Packet, ControllerSends(packet) PROVE Stream'
  BY <1>3, StreamSends
<1>4. CASE SomeReadyRead
  BY <1>4, StreamReadyRead DEF SomeReadyRead
<1>5. CASE LoopEnds
  <2>1. frames = <<"loop">> /\ frames' = <<>> /\ frames # <<"dialog">> /\ <<>> # <<"dialog">>
    BY <1>5, Stack DEF Safe, Shape, LoopEnds, Return
  <2>2. Coming' = Coming
    BY <1>5, <2>1 DEF LoopEnds, Coming, Pending
  <2>3. UNCHANGED <<sent, delivered, opened, lost, midPacket>>
    BY <1>5 DEF LoopEnds, portVars
  <2> QED
    BY <2>2, <2>3, BytesMove
<1>6. CASE ReadPacketType
  BY <1>6, StreamPacketType
<1>7. CASE ReadEvtHeader
  BY <1>7, StreamHeader DEF ReadEvtHeader, Status, HCI_LENGTH_HEADER_EVT
<1>8. CASE ReadAclHeader
  BY <1>8, StreamHeader DEF ReadAclHeader, Status, HCI_LENGTH_HEADER_ACL
<1>9. CASE ReadEvtData
  <2>1. frames = <<"loop">> /\ read_status = "STATUS_DATA_EVT"
    BY <1>9, Stack DEF Safe, Shape, ReadEvtData, ReadData, InLoop
  <2> QED
    BY <1>9, <2>1, Lengths, StreamData DEF ReadEvtData
<1>10. CASE ReadAclData
  <2>1. frames = <<"loop">> /\ read_status = "STATUS_DATA_ACL"
    BY <1>10, Stack DEF Safe, Shape, ReadAclData, ReadData, InLoop
  <2> QED
    BY <1>10, <2>1, Lengths, StreamData DEF ReadAclData
<1>11. CASE DialogCloses
  <2>1. frames = <<"dialog">>
    BY <1>11, Stack DEF Safe, Shape, DialogCloses
  <2>2. Coming' = Coming
    BY <1>11, <2>1 DEF DialogCloses, HandlerReturns, Coming, Pending
  <2>3. UNCHANGED <<sent, delivered, opened, lost, midPacket>>
    BY <1>11 DEF DialogCloses, portVars
  <2> QED
    BY <2>2, <2>3, BytesMove
<1>12. CASE UNCHANGED vars
  BY <1>12 DEF vars, Stream, StreamIntact, Coming, Pending
<1> QED
  BY <1>1, <1>2, <1>3, <1>4, <1>5, <1>6, <1>7, <1>8, <1>9, <1>10, <1>11, <1>12
  DEF Next, LoopStep

\* Whatever pieces the bytes arrive in and whenever a handler's dialog lets the slot run again,
\* the HCI layer is handed the packets sent, each once, whole and in order, unless
\* ringbuffer_write refused a chunk (mainwindow.cpp:112) or the port was opened with
\* read_status inside a packet.
THEOREM FramesWhole == Spec => []FramesIntact
<1>1. Safe /\ Stream => FramesIntact
  <2> SUFFICES ASSUME Safe, Stream, StreamIntact
               PROVE  IsPrefix(delivered, sent)
    BY DEF FramesIntact
  <2>1. PICK ps \in Seq(Packet) : sent = delivered \o ps
    BY DEF Stream
  <2> DEFINE S == Seq(Byte)
  <2>2. ps \in Seq(S) /\ delivered \in Seq(S)
    BY PacketBytes, SeqMonotonic DEF Safe, TypeOK
  <2> HIDE DEF S
  <2> QED
    BY <2>1, <2>2, PrefixOfConcat
<1> QED
  BY <1>1, SafeInit, SafeNext, StreamInit, StreamNext, PTL DEF Spec

\* The slot enters its loop or refuses what arrived, if no handler waits further down.
LEMMA WaitsReadyRead ==
    ASSUME Safe, NothingReadableWaits, NEW n \in 1 .. Len(wire), ReadyRead(n)
    PROVE  NothingReadableWaits'
<1>1. frames \in {<<>>, <<"dialog">>}
  BY Stack DEF Safe, Shape, ReadyRead, InEventLoop
<1>2. CASE frames = <<"dialog">>
  <2>1. frames' # <<>>
    BY <1>2, Stack DEF Safe, Shape, ReadyRead
  <2> QED
    BY <2>1 DEF NothingReadableWaits
<1>3. CASE frames = <<>>
  <2>1. frames' = <<"loop">> \/ lost'
    <3>1. Append(<<>>, "loop") = <<"loop">>
      OBVIOUS
    <3>2. is_processing = 0
      BY <1>3, Stack DEF Safe, Shape
    <3> QED
      BY <1>3, <3>1, <3>2 DEF ReadyRead
  <2>2. <<"loop">> # <<>>
    OBVIOUS
  <2> QED
    BY <2>1, <2>2 DEF NothingReadableWaits, StreamIntact
<1> QED
  BY <1>1, <1>2, <1>3

LEMMA WaitsHeader ==
    ASSUME Safe, NEW next, NEW status, NEW length \in Nat, ReadHeader(status, length, next),
           \/ status = "STATUS_HEADRER_EVT" /\ length = HCI_LENGTH_HEADER_EVT
           \/ status = "STATUS_HEADRER_ACL" /\ length = HCI_LENGTH_HEADER_ACL
    PROVE  NothingReadableWaits'
<1>1. frames = <<"loop">> /\ frames # <<>> /\ read_status = status
  BY Stack DEF Safe, Shape, ReadHeader, InLoop
<1>2. CASE UNCHANGED frames
  BY <1>1, <1>2 DEF NothingReadableWaits
<1>3. CASE ~reply'.ok /\ UNCHANGED <<read_buffer, read_status>>
  <2>1. UNCHANGED ring /\ length > Len(ring)
    <3>1. RingOK
      BY DEF Safe, TypeOK, RingOK
    <3> QED
      BY <1>3, <3>1, Taken DEF ReadHeader
  <2>2. Needed' = length
    BY <1>1, <1>3 DEF Needed
  <2> QED
    BY <2>1, <2>2, LenProperties DEF NothingReadableWaits, Safe, TypeOK
<1> QED
  BY <1>2, <1>3 DEF ReadHeader

LEMMA WaitsData ==
    ASSUME Safe, NEW status, NEW length \in Nat, ReadData(status, length),
           \/ status = "STATUS_DATA_EVT" /\ length = EvtLength
           \/ status = "STATUS_DATA_ACL" /\ length = AclLength
    PROVE  NothingReadableWaits'
<1>1. frames = <<"loop">> /\ frames # <<>> /\ <<"dialog">> # <<>> /\ read_status = status
  BY Stack DEF Safe, Shape, ReadData, InLoop
<1>2. CASE UNCHANGED frames
  BY <1>1, <1>2 DEF NothingReadableWaits
<1>3. CASE frames' = Append(Front(frames), "dialog")
  <2>1. Append(<<>>, "dialog") = <<"dialog">>
    OBVIOUS
  <2>2. frames' = <<"dialog">>
    BY <1>1, <1>3, <2>1, Stack DEF Safe, Shape
  <2> QED
    BY <1>1, <2>2 DEF NothingReadableWaits
<1>4. CASE ~reply'.ok /\ UNCHANGED <<read_buffer, read_status>>
  <2>1. UNCHANGED ring /\ length > Len(ring)
    <3>1. RingOK
      BY DEF Safe, TypeOK, RingOK
    <3> QED
      BY <1>4, <3>1, Taken DEF ReadData
  <2>2. Needed' = length
    BY <1>1, <1>4 DEF Needed, EvtLength, AclLength
  <2> QED
    BY <2>1, <2>2, LenProperties DEF NothingReadableWaits, Safe, TypeOK
<1> QED
  BY <1>2, <1>3, <1>4 DEF ReadData

\* The first byte of a packet names its type, so the slot does not give up.
LEMMA WaitsPacketType == ASSUME Safe, Stream, ReadPacketType PROVE NothingReadableWaits'
<1>1. frames = <<"loop">> /\ frames # <<>>
  BY Stack DEF Safe, Shape, ReadPacketType, InLoop
<1>2. StreamIntact => UNCHANGED frames
  BY TypeIsKnown DEF ReadPacketType
<1> QED
  BY <1>1, <1>2 DEF NothingReadableWaits, StreamIntact, ReadPacketType, portVars

LEMMA WaitsNext == Safe /\ Stream /\ NothingReadableWaits /\ [Next]_vars => NothingReadableWaits'
<1> SUFFICES ASSUME Safe, Stream, NothingReadableWaits, [Next]_vars
             PROVE  NothingReadableWaits'
  OBVIOUS
<1>1. CASE Open
  BY <1>1 DEF Open, Ring!Reset, NothingReadableWaits
<1>2. CASE Close \/ UNCHANGED vars
  BY <1>2 DEF Close, readerVars, vars, NothingReadableWaits, StreamIntact, Needed,
     EvtLength, AclLength
<1>3. ASSUME NEW packet \in Packet, ControllerSends(packet) PROVE NothingReadableWaits'
  BY <1>3 DEF ControllerSends, portVars, readerVars, NothingReadableWaits, StreamIntact, Needed,
     EvtLength, AclLength
<1>4. CASE SomeReadyRead
  BY <1>4, WaitsReadyRead DEF SomeReadyRead
<1>5. CASE LoopEnds
  BY <1>5 DEF LoopEnds, NothingReadableWaits
<1>6. CASE ReadPacketType
  BY <1>6, WaitsPacketType
<1>7. CASE ReadEvtHeader
  BY <1>7, WaitsHeader DEF ReadEvtHeader, HCI_LENGTH_HEADER_EVT
<1>8. CASE ReadAclHeader
  BY <1>8, WaitsHeader DEF ReadAclHeader, HCI_LENGTH_HEADER_ACL
<1>9. CASE ReadEvtData
  <2>1. frames = <<"loop">> /\ read_status = "STATUS_DATA_EVT"
    BY <1>9, Stack DEF Safe, Shape, ReadEvtData, ReadData, InLoop
  <2> QED
    BY <1>9, <2>1, Lengths, WaitsData DEF ReadEvtData
<1>10. CASE ReadAclData
  <2>1. frames = <<"loop">> /\ read_status = "STATUS_DATA_ACL"
    BY <1>10, Stack DEF Safe, Shape, ReadAclData, ReadData, InLoop
  <2> QED
    BY <1>10, <2>1, Lengths, WaitsData DEF ReadAclData
<1>11. CASE DialogCloses
  <2>1. frames' = Append(<<>>, "loop")
    BY <1>11, Stack DEF Safe, Shape, DialogCloses
  <2>2. Append(<<>>, "loop") # <<>>
    OBVIOUS
  <2> QED
    BY <2>1, <2>2 DEF NothingReadableWaits
<1> QED
  BY <1>1, <1>2, <1>3, <1>4, <1>5, <1>6, <1>7, <1>8, <1>9, <1>10, <1>11
  DEF Next, LoopStep

\* No wake-up is lost: when the slot has returned, the ring holds too few bytes for the next
\* read, unless it is empty (the loop of mainwindow.cpp:121 runs while bytes are there).
THEOREM NoLostWakeup == Spec => []NothingReadableWaits
<1>1. Init => NothingReadableWaits
  BY DEF Init, Ring!Init, NothingReadableWaits
<1> QED
  BY <1>1, SafeInit, SafeNext, StreamInit, StreamNext, WaitsNext, PTL DEF Spec
=============================================================================
