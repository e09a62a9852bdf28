-------------------------- MODULE GattServerProofs --------------------------
(***************************************************************************)
(* For every number of peers, every MTU and any run of requests, writes,   *)
(* notifications and lost responses: every request is answered, a long     *)
(* read has no gap, no PDU is longer than its receiver allows, and a       *)
(* discovery that ends has found all there is, once and in order while the *)
(* services are registered once.                                           *)
(*                                                                         *)
(* IInv is the inductive invariant of requests, reads and PDUs, DInv,      *)
(* which rests on it, that of discoveries.                                 *)
(***************************************************************************)
EXTENDS GattServer, SequenceTheorems, WellFoundedInduction, TLAPS

\* Some element of a set of naturals is the least.
LEMMA LeastExists ==
    ASSUME NEW T, T \subseteq Nat, T # {}
    PROVE  \E i \in T : \A j \in T : i <= j
<1> DEFINE Less == OpToRel(<, Nat)
<1>1. \A a, b \in Nat : a < b => <<a, b>> \in Less
  BY DEF OpToRel
<1>2. IsWellFoundedOn(Less, Nat)
  BY NatLessThanWellFounded
<1> HIDE DEF Less
<1>3. PICK i \in T : \A j \in T : ~(<<j, i>> \in Less)
  BY <1>2, WFMin
<1>4. ASSUME NEW j \in T PROVE i <= j
  <2>1. i \in Nat /\ j \in Nat
    OBVIOUS
  <2>2. ~(j < i)
    BY <1>1, <1>3, <2>1
  <2> QED
    BY <2>1, <2>2
<1> QED
  BY <1>4

\* Induction up to a number, for a set of numbers.
LEMMA Climb ==
    ASSUME NEW n \in Nat, NEW K, 1 \in K, \A k \in 1 .. n : k \in K /\ k < n => k + 1 \in K
    PROVE  1 .. n \subseteq K
<1> SUFFICES ASSUME ~(1 .. n \subseteq K) PROVE FALSE
  OBVIOUS
<1> DEFINE T == (1 .. n) \ K
<1>1. T \subseteq Nat /\ T # {}
  OBVIOUS
<1>2. PICK i \in T : \A j \in T : i <= j
  <2> HIDE DEF T
  <2> QED
    BY <1>1, LeastExists
<1>3. i \in 1 .. n /\ i # 1 /\ i - 1 \in 1 .. n /\ i - 1 < n
  BY <1>2
<1>4. i - 1 \notin T
  BY <1>2, <1>3
<1>5. i - 1 \in K
  BY <1>3, <1>4
<1>6. (i - 1) + 1 \in K
  BY <1>3, <1>5
<1>7. (i - 1) + 1 = i
  BY <1>3
<1> QED
  BY <1>2, <1>6, <1>7

LEMMA MinOfTwo ==
    ASSUME NEW a \in Nat, NEW b \in Nat
    PROVE  Min({a, b}) = IF a <= b THEN a ELSE b
<1>1. \E x \in {a, b} : \A y \in {a, b} : x <= y
  OBVIOUS
<1>2. /\ Min({a, b}) \in {a, b}
      /\ \A y \in {a, b} : Min({a, b}) <= y
  BY <1>1 DEF Min
<1> QED
  BY <1>2

LEMMA MaxOfTwo ==
    ASSUME NEW a \in Nat, NEW b \in Nat
    PROVE  Max({a, b}) = IF a >= b THEN a ELSE b
<1>1. \E x \in {a, b} : \A y \in {a, b} : x >= y
  OBVIOUS
<1>2. /\ Max({a, b}) \in {a, b}
      /\ \A y \in {a, b} : Max({a, b}) >= y
  BY <1>1 DEF Max
<1> QED
  BY <1>2

-----------------------------------------------------------------------------
(* Sequences, whatever they hold.                                           *)

\* What a sequence is, whatever it holds.
Sequence(s) == s \in Seq(ToSet(s))

\* t goes on where s ends.
Extends(s, t) == Len(t) >= Len(s) /\ \A i \in DOMAIN s : t[i] = s[i]

LEMMA SequenceOf == ASSUME NEW S, NEW s \in Seq(S) PROVE Sequence(s)
<1>1. Len(s) \in Nat /\ s \in [1 .. Len(s) -> S] /\ DOMAIN s = 1 .. Len(s)
  BY LenProperties
<1>2. s \in [1 .. Len(s) -> ToSet(s)]
  BY <1>1 DEF ToSet
<1>3. s \in Seq(ToSet(s))
  BY <1>1, <1>2
<1> QED
  BY <1>3 DEF Sequence

LEMMA SequenceFacts ==
    ASSUME NEW s, Sequence(s)
    PROVE  Len(s) \in Nat /\ DOMAIN s = 1 .. Len(s) /\ (s = <<>> <=> Len(s) = 0)
  BY DEF Sequence

LEMMA AppendFacts ==
    ASSUME NEW s, Sequence(s), NEW x
    PROVE  /\ Sequence(Append(s, x)) /\ Extends(s, Append(s, x))
           /\ Len(Append(s, x)) = Len(s) + 1 /\ DOMAIN Append(s, x) = 1 .. Len(s) + 1
           /\ Append(s, x)[Len(s) + 1] = x
<1> DEFINE S == ToSet(s) \cup {x}
<1>1. s \in Seq(S) /\ x \in S
  BY SeqMonotonic DEF Sequence
<1> HIDE DEF S
<1>2. /\ Append(s, x) \in Seq(S) /\ Len(Append(s, x)) = Len(s) + 1 /\ Len(s) \in Nat
      /\ \A i \in 1 .. Len(s) : Append(s, x)[i] = s[i]
      /\ Append(s, x)[Len(s) + 1] = x /\ DOMAIN s = 1 .. Len(s)
  BY <1>1, AppendProperties
<1>3. Sequence(Append(s, x))
  BY <1>2, SequenceOf
<1>4. DOMAIN Append(s, x) = 1 .. Len(s) + 1
  BY <1>2
<1> QED
  BY <1>2, <1>3, <1>4 DEF Extends

LEMMA ConcatFacts ==
    ASSUME NEW s, Sequence(s), NEW t, Sequence(t)
    PROVE  /\ Sequence(s \o t) /\ Extends(s, s \o t)
           /\ Len(s \o t) = Len(s) + Len(t) /\ DOMAIN (s \o t) = 1 .. Len(s) + Len(t)
           /\ \A i \in 1 .. Len(t) : (s \o t)[Len(s) + i] = t[i]
<1> DEFINE S == ToSet(s) \cup ToSet(t)
<1>1. s \in Seq(S) /\ t \in Seq(S)
  BY SeqMonotonic DEF Sequence
<1> HIDE DEF S
<1>2. /\ s \o t \in Seq(S) /\ Len(s \o t) = Len(s) + Len(t) /\ Len(s) \in Nat /\ Len(t) \in Nat
      /\ \A i \in 1 .. Len(s) + Len(t) :
            (s \o t)[i] = IF i <= Len(s) THEN s[i] ELSE t[i - Len(s)]
      /\ DOMAIN s = 1 .. Len(s)
  BY <1>1, ConcatProperties
<1>3. Sequence(s \o t)
  BY <1>2, SequenceOf
<1>4. DOMAIN (s \o t) = 1 .. Len(s) + Len(t)
  BY <1>2
<1>5. \A i \in 1 .. Len(t) : (s \o t)[Len(s) + i] = t[i]
  BY <1>2
<1> QED
  BY <1>2, <1>3, <1>4, <1>5 DEF Extends

LEMMA TailFacts ==
    ASSUME NEW s, Sequence(s), s # <<>>
    PROVE  /\ Sequence(Tail(s)) /\ Len(Tail(s)) = Len(s) - 1 /\ Len(s) \in Nat \ {0}
           /\ DOMAIN Tail(s) = 1 .. Len(s) - 1 /\ DOMAIN s = 1 .. Len(s)
           /\ \A i \in 1 .. Len(s) - 1 : Tail(s)[i] = s[i + 1]
           /\ Head(s) = s[1]
<1> DEFINE S == ToSet(s)
<1>1. s \in Seq(S)
  BY DEF Sequence
<1> HIDE DEF S
<1>2. /\ Tail(s) \in Seq(S) /\ Len(Tail(s)) = Len(s) - 1 /\ Len(s) \in Nat \ {0}
      /\ \A i \in 1 .. Len(s) - 1 : Tail(s)[i] = s[i + 1]
      /\ DOMAIN s = 1 .. Len(s) /\ Head(s) = s[1]
  BY <1>1, HeadTailProperties
<1>3. Sequence(Tail(s))
  BY <1>2, SequenceOf
<1>4. DOMAIN Tail(s) = 1 .. Len(s) - 1
  BY <1>2
<1> QED
  BY <1>2, <1>3, <1>4

LEMMA MappedSequence ==
    ASSUME NEW s, NEW n \in Nat, DOMAIN s = 1 .. n, s = [i \in 1 .. n |-> s[i]]
    PROVE  Sequence(s) /\ Len(s) = n
<1>1. s \in [1 .. n -> ToSet(s)]
  BY DEF ToSet
<1> QED
  BY <1>1 DEF Sequence

\* The first n elements of a sequence.
LEMMA PrefixFacts ==
    ASSUME NEW s, Sequence(s), NEW n \in 0 .. Len(s)
    PROVE  /\ Sequence(SubSeq(s, 1, n)) /\ Len(SubSeq(s, 1, n)) = n
           /\ DOMAIN SubSeq(s, 1, n) = 1 .. n
           /\ \A i \in 1 .. n : SubSeq(s, 1, n)[i] = s[i]
<1> DEFINE S == ToSet(s)
<1>1. s \in Seq(S) /\ Len(s) \in Nat
  BY DEF Sequence
<1>2. \A i \in 1 .. n : s[i] \in S
  BY <1>1, ElementOfSeq
<1> HIDE DEF S
<1>3. /\ SubSeq(s, 1, n) \in Seq(S) /\ Len(SubSeq(s, 1, n)) = IF 1 <= n THEN n - 1 + 1 ELSE 0
      /\ \A i \in 1 .. n - 1 + 1 : SubSeq(s, 1, n)[i] = s[1 + i - 1]
  BY <1>1, <1>2, SubSeqProperties
<1>4. Sequence(SubSeq(s, 1, n)) /\ Len(SubSeq(s, 1, n)) = n
  <2>1. Sequence(SubSeq(s, 1, n))
    BY <1>3, SequenceOf
  <2>2. Len(SubSeq(s, 1, n)) = n
    BY <1>1, <1>3
  <2> QED
    BY <2>1, <2>2
<1>5. DOMAIN SubSeq(s, 1, n) = 1 .. n
  BY <1>3, <1>4
<1> QED
  BY <1>3, <1>4, <1>5

-----------------------------------------------------------------------------
(* The database.                                                            *)

\* FlattenSeq puts the sequences it is given together one after the other.
LEMMA FlattenSteps ==
    ASSUME NEW S, NEW seqs \in Seq(Seq(S))
    PROVE  \E g : /\ g[0] = <<>> /\ g[Len(seqs)] = FlattenSeq(seqs)
                  /\ \A k \in 1 .. Len(seqs) : g[k] = g[k - 1] \o seqs[k]
<1> DEFINE n == Len(seqs)
           Is(f) == f = [i \in 1 .. n |-> IF i = 1 THEN seqs[i] ELSE f[i - 1] \o seqs[i]]
<1>1. CASE n = 0
  <2> PICK g : g = [k \in {0} |-> <<>>]
    OBVIOUS
  <2>1. g[0] = <<>> /\ FlattenSeq(seqs) = <<>>
    BY <1>1 DEF FlattenSeq
  <2>2. \A k \in 1 .. n : g[k] = g[k - 1] \o seqs[k]
    BY <1>1
  <2> QED
    BY <1>1, <2>1, <2>2
<1>2. CASE n # 0
  <2>1. n \in Nat /\ n >= 1 /\ \A i \in 1 .. n : seqs[i] \in Seq(S)
    BY <1>2
  <2>2. FlattenSeq(seqs) = (CHOOSE f : Is(f))[n]
    BY <1>2 DEF FlattenSeq
  <2> HIDE DEF n
  <2> DEFINE Upto(k, f) == \A i \in 1 .. k : f[i] = IF i = 1 THEN seqs[i] ELSE f[i - 1] \o seqs[i]
             K == {k \in 1 .. n : \E f : Upto(k, f)}
  <2>3. 1 \in K
    <3>1. Upto(1, [i \in {1} |-> seqs[1]])
      OBVIOUS
    <3> QED
      BY <2>1, <3>1
  <2>4. ASSUME NEW k \in 1 .. n, k \in K, k < n PROVE k + 1 \in K
    <3>1. PICK f : Upto(k, f)
      BY <2>4
    <3> DEFINE g == [i \in 1 .. k + 1 |-> IF i = k + 1 THEN f[k] \o seqs[i] ELSE f[i]]
    <3>2. \A i \in 1 .. k : g[i] = f[i]
      BY <2>1
    <3>3. g[k + 1] = g[k] \o seqs[k + 1]
      <4>1. k \in 1 .. k /\ k + 1 \in 1 .. k + 1
        BY <2>1
      <4> QED
        BY <3>2, <4>1
    <3> HIDE DEF g
    <3>4. Upto(k + 1, g)
      <4>1. ASSUME NEW i \in 1 .. k + 1
            PROVE  g[i] = IF i = 1 THEN seqs[i] ELSE g[i - 1] \o seqs[i]
        <5>1. CASE i = k + 1
          <6>1. i # 1 /\ i - 1 = k
            BY <2>1, <5>1
          <6> QED
            BY <3>3, <5>1, <6>1
        <5>2. CASE i # k + 1
          <6>1. i \in 1 .. k /\ (i = 1 \/ i - 1 \in 1 .. k)
            BY <2>1, <5>2
          <6> QED
            BY <3>1, <3>2, <6>1
        <5> QED
          BY <5>1, <5>2
      <4> QED
        BY <4>1
    <3>5. k + 1 \in 1 .. n
      BY <2>1, <2>4
    <3> QED
      BY <3>4, <3>5
  <2>5. n \in K
    <3>1. \A k \in 1 .. n : k \in K /\ k < n => k + 1 \in K
      BY <2>4
    <3> HIDE DEF K
    <3>2. 1 .. n \subseteq K
      BY <2>1, <2>3, <3>1, Climb
    <3> QED
      BY <2>1, <3>2
  <2>6. PICK f : Upto(n, f)
    BY <2>5
  <2>7. Is([i \in 1 .. n |-> f[i]])
    <3> DEFINE g == [i \in 1 .. n |-> f[i]]
    <3>1. ASSUME NEW i \in 1 .. n
          PROVE  g[i] = IF i = 1 THEN seqs[i] ELSE g[i - 1] \o seqs[i]
      <4>1. i = 1 \/ i - 1 \in 1 .. n
        BY <2>1
      <4> QED
        BY <2>6, <4>1
    <3>2. DOMAIN g = 1 .. n /\ g = [i \in 1 .. n |-> g[i]]
      OBVIOUS
    <3> HIDE DEF g
    <3>3. Is(g)
      BY <3>1, <3>2
    <3> QED
      BY <3>3 DEF g
  <2>8. PICK h : h = (CHOOSE g : Is(g))
    OBVIOUS
  <2>9. Is(h)
    BY <2>7, <2>8
  <2>10. \A i \in 1 .. n : h[i] = IF i = 1 THEN seqs[i] ELSE h[i - 1] \o seqs[i]
    BY <2>9
  <2> PICK g : g = [k \in 0 .. n |-> IF k = 0 THEN <<>> ELSE h[k]]
    OBVIOUS
  <2>11. g[0] = <<>> /\ g[n] = FlattenSeq(seqs)
    BY <1>2, <2>1, <2>2, <2>8
  <2>12. ASSUME NEW k \in 1 .. n PROVE g[k] = g[k - 1] \o seqs[k]
    <3>1. CASE k = 1
      <4>1. seqs[1] \in Seq(S)
        BY <2>1
      <4>2. <<>> \o seqs[1] = seqs[1]
        BY <4>1, ConcatEmptySeq
      <4>3. k - 1 = 0 /\ k # 0 /\ k \in 0 .. n
        BY <2>1, <3>1
      <4>4. h[k] = seqs[k]
        BY <2>10, <3>1
      <4> QED
        BY <2>11, <3>1, <4>2, <4>3, <4>4
    <3>2. CASE k # 1
      <4>1. k \in 0 .. n /\ k - 1 \in 0 .. n /\ k # 0 /\ k - 1 # 0
        BY <2>1, <3>2
      <4>2. g[k] = h[k] /\ g[k - 1] = h[k - 1]
        BY <4>1
      <4> QED
        BY <2>10, <3>2, <4>2
    <3> QED
      BY <3>1, <3>2
  <2> QED
    BY <2>11, <2>12 DEF n
<1> QED
  BY <1>1, <1>2 DEF n

\* What FlattenSeq puts together are elements of the sequences it is given.
LEMMA FlattenType ==
    ASSUME NEW S, NEW seqs \in Seq(Seq(S))
    PROVE  FlattenSeq(seqs) \in Seq(S)
<1> PICK n \in Nat : n = Len(seqs)
  OBVIOUS
<1>1. PICK g : g[0] = <<>> /\ g[n] = FlattenSeq(seqs) /\ \A k \in 1 .. n : g[k] = g[k - 1] \o seqs[k]
  BY FlattenSteps
<1>2. \A k \in 1 .. n : seqs[k] \in Seq(S)
  OBVIOUS
<1> DEFINE K == {k \in 1 .. n : g[k] \in Seq(S)}
<1>3. ASSUME NEW k \in 1 .. n, g[k - 1] \in Seq(S) PROVE g[k] \in Seq(S)
  BY <1>1, <1>2, <1>3, ConcatProperties
<1>4. n # 0 => 1 \in K
  <2>1. n # 0 => 1 \in 1 .. n
    OBVIOUS
  <2>2. 1 - 1 = 0 /\ <<>> \in Seq(S)
    OBVIOUS
  <2>3. g[1 - 1] \in Seq(S)
    BY <1>1, <2>2
  <2> QED
    BY <1>3, <2>1, <2>3
<1>5. ASSUME NEW k \in 1 .. n, k \in K, k < n PROVE k + 1 \in K
  <2>1. k + 1 \in 1 .. n /\ (k + 1) - 1 = k
    BY <1>5
  <2> QED
    BY <1>3, <1>5, <2>1
<1>6. n # 0 => 1 .. n \subseteq K
  <2> HIDE DEF K
  <2> QED
    BY <1>4, <1>5, Climb
<1>7. n # 0 => n \in 1 .. n
  OBVIOUS
<1> QED
  BY <1>1, <1>6, <1>7

LEMMA PickedType ==
    ASSUME NEW S, NEW items \in Seq(S), NEW positions
    PROVE  Picked(items, positions) \in Seq(S)
<1> DEFINE seqs == [i \in DOMAIN items |-> IF i \in positions THEN <<items[i]>> ELSE <<>>]
<1>1. \A i \in 1 .. Len(items) : seqs[i] \in Seq(S)
  OBVIOUS
<1>2. seqs \in [1 .. Len(items) -> Seq(S)] /\ Len(items) \in Nat
  BY <1>1
<1>3. seqs \in Seq(Seq(S))
  <2> HIDE DEF seqs
  <2> QED
    BY <1>2
<1> QED
  BY <1>3, FlattenType DEF Picked

\* The items of the four services, read off their tables.
LEMMA Items ==
    /\ Service["generic_access"].items = items_gacc /\ Service["generic_attribute"].items = items_gatt
    /\ Service["battery"].items = items_battery /\ Service["test"].items = items_test
    /\ ItemsOf = ToSet(items_gacc) \cup ToSet(items_gatt) \cup ToSet(items_battery) \cup ToSet(items_test)
<1>1. /\ Service["generic_access"].items = items_gacc /\ Service["generic_attribute"].items = items_gatt
      /\ Service["battery"].items = items_battery /\ Service["test"].items = items_test
  BY DEF Service, ServiceId
<1>2. ItemsOf = ToSet(items_gacc) \cup ToSet(items_gatt) \cup ToSet(items_battery) \cup ToSet(items_test)
  BY <1>1 DEF ItemsOf, ServiceId
<1> QED
  BY <1>1, <1>2

LEMMA RowsGacc ==
    \A x \in ToSet(items_gacc) : \/ x = Item(1, "primary_service", 2, {"read"})
                             \/ x = Item(2, "characteristic", 5, {"read"})
                             \/ x = Item(3, "device_name", 32, {"read"})
<1>1. DOMAIN items_gacc = 1 .. 3
  BY DEF items_gacc
<1>2. /\ items_gacc[1] = Item(1, "primary_service", 2, {"read"})
      /\ items_gacc[2] = Item(2, "characteristic", 5, {"read"})
      /\ items_gacc[3] = Item(3, "device_name", 32, {"read"})
  BY DEF items_gacc
<1>3. \A x \in ToSet(items_gacc) : \E i \in 1 .. 3 : x = items_gacc[i]
  BY <1>1 DEF ToSet
<1>4. \A i \in 1 .. 3 : i = 1 \/ i = 2 \/ i = 3
  OBVIOUS
<1> QED
  BY <1>2, <1>3, <1>4

LEMMA RowsGatt ==
    \A x \in ToSet(items_gatt) : \/ x = Item(17, "primary_service", 2, {"read"})
                             \/ x = Item(18, "characteristic", 5, {"read"})
                             \/ x = Item(19, "service_changed", 4, {"read"})
                             \/ x = Item(20, CCC, 2, {"read", "write"})
<1>1. DOMAIN items_gatt = 1 .. 4
  BY DEF items_gatt
<1>2. /\ items_gatt[1] = Item(17, "primary_service", 2, {"read"})
      /\ items_gatt[2] = Item(18, "characteristic", 5, {"read"})
      /\ items_gatt[3] = Item(19, "service_changed", 4, {"read"})
      /\ items_gatt[4] = Item(20, CCC, 2, {"read", "write"})
  BY DEF items_gatt
<1>3. \A x \in ToSet(items_gatt) : \E i \in 1 .. 4 : x = items_gatt[i]
  BY <1>1 DEF ToSet
<1>4. \A i \in 1 .. 4 : i = 1 \/ i = 2 \/ i = 3 \/ i = 4
  OBVIOUS
<1> QED
  BY <1>2, <1>3, <1>4

LEMMA RowsBattery ==
    \A x \in ToSet(items_battery) : \/ x = Item(257, "primary_service", 2, {"read"})
                             \/ x = Item(258, "characteristic", 5, {"read"})
                             \/ x = Item(259, "battery_level", 1, {"read_authenticate"})
                             \/ x = Item(260, CCC, 2, {"read", "write_authenticate"})
<1>1. DOMAIN items_battery = 1 .. 4
  BY DEF items_battery
<1>2. /\ items_battery[1] = Item(257, "primary_service", 2, {"read"})
      /\ items_battery[2] = Item(258, "characteristic", 5, {"read"})
      /\ items_battery[3] = Item(259, "battery_level", 1, {"read_authenticate"})
      /\ items_battery[4] = Item(260, CCC, 2, {"read", "write_authenticate"})
  BY DEF items_battery
<1>3. \A x \in ToSet(items_battery) : \E i \in 1 .. 4 : x = items_battery[i]
  BY <1>1 DEF ToSet
<1>4. \A i \in 1 .. 4 : i = 1 \/ i = 2 \/ i = 3 \/ i = 4
  OBVIOUS
<1> QED
  BY <1>2, <1>3, <1>4

LEMMA RowsTest ==
    \A x \in ToSet(items_test) : \/ x = Item(4097, "primary_service", 2, {"read"})
                             \/ x = Item(4098, "characteristic", 5, {"read"})
                             \/ x = Item(4099, "test_rx", 0, {"write"})
                             \/ x = Item(4113, "characteristic", 5, {"read"})
                             \/ x = Item(4114, "test_tx", 0, {"read"})
                             \/ x = Item(4115, CCC, 2, {"read", "write"})
<1>1. DOMAIN items_test = 1 .. 6
  BY DEF items_test
<1>2. /\ items_test[1] = Item(4097, "primary_service", 2, {"read"})
      /\ items_test[2] = Item(4098, "characteristic", 5, {"read"})
      /\ items_test[3] = Item(4099, "test_rx", 0, {"write"})
      /\ items_test[4] = Item(4113, "characteristic", 5, {"read"})
      /\ items_test[5] = Item(4114, "test_tx", 0, {"read"})
      /\ items_test[6] = Item(4115, CCC, 2, {"read", "write"})
  BY DEF items_test
<1>3. \A x \in ToSet(items_test) : \E i \in 1 .. 6 : x = items_test[i]
  BY <1>1 DEF ToSet
<1>4. \A i \in 1 .. 6 : i = 1 \/ i = 2 \/ i = 3 \/ i = 4 \/ i = 5 \/ i = 6
  OBVIOUS
<1> QED
  BY <1>2, <1>3, <1>4

\* An item is known by its handle; a value for authenticated peers fits into every response.
LEMMA ItemFacts ==
    /\ \A x \in ItemsOf : /\ x.handle \in Nat /\ x.size \in {0, 1, 2, 4, 5, 32}
                          /\ "read_authenticate" \in x.permission => x.size = 1
    /\ \A x, y \in ItemsOf : x.handle = y.handle => x = y
<1>1. \A x \in ItemsOf : \/ x \in ToSet(items_gacc) \/ x \in ToSet(items_gatt)
                         \/ x \in ToSet(items_battery) \/ x \in ToSet(items_test)
  BY Items
<1>2. ASSUME NEW x \in ToSet(items_gacc)
      PROVE  /\ x.handle \in 1 .. 3 /\ x.size \in {0, 1, 2, 4, 5, 32}
             /\ "read_authenticate" \in x.permission => x.size = 1
             /\ \A y \in ToSet(items_gacc) : x.handle = y.handle => x = y
  BY RowsGacc DEF Item
<1>3. ASSUME NEW x \in ToSet(items_gatt)
      PROVE  /\ x.handle \in 17 .. 20 /\ x.size \in {0, 1, 2, 4, 5, 32}
             /\ "read_authenticate" \in x.permission => x.size = 1
             /\ \A y \in ToSet(items_gatt) : x.handle = y.handle => x = y
  BY RowsGatt DEF Item
<1>4. ASSUME NEW x \in ToSet(items_battery)
      PROVE  /\ x.handle \in 257 .. 260 /\ x.size \in {0, 1, 2, 4, 5, 32}
             /\ "read_authenticate" \in x.permission => x.size = 1
             /\ \A y \in ToSet(items_battery) : x.handle = y.handle => x = y
  BY RowsBattery DEF Item
<1>5. ASSUME NEW x \in ToSet(items_test)
      PROVE  /\ x.handle \in 4097 .. 4115 /\ x.size \in {0, 1, 2, 4, 5, 32}
             /\ "read_authenticate" \in x.permission => x.size = 1
             /\ \A y \in ToSet(items_test) : x.handle = y.handle => x = y
  BY RowsTest DEF Item
<1>6. \A x, y \in ItemsOf : x.handle = y.handle => x = y
  BY <1>1, <1>2, <1>3, <1>4, <1>5
<1> QED
  BY <1>1, <1>2, <1>3, <1>4, <1>5, <1>6

LEMMA ServiceItems == \A id \in ServiceId : Service[id].items \in Seq(ItemsOf)
<1>1. /\ Sequence(items_gacc) /\ Sequence(items_gatt) /\ Sequence(items_battery) /\ Sequence(items_test)
  <2>1. \A a, b, c : Sequence(<<a, b, c>>)
    <3>1. \A a, b, c : <<a, b, c>> \in Seq({a, b, c})
      OBVIOUS
    <3> QED
      BY <3>1, SequenceOf
  <2>2. \A a, b, c, d : Sequence(<<a, b, c, d>>)
    <3>1. \A a, b, c, d : <<a, b, c, d>> \in Seq({a, b, c, d})
      OBVIOUS
    <3> QED
      BY <3>1, SequenceOf
  <2>3. \A a, b, c, d, e, f : Sequence(<<a, b, c, d, e, f>>)
    <3>1. \A a, b, c, d, e, f : <<a, b, c, d, e, f>> \in Seq({a, b, c, d, e, f})
      OBVIOUS
    <3> QED
      BY <3>1, SequenceOf
  <2> QED
    BY <2>1, <2>2, <2>3 DEF items_gacc, items_gatt, items_battery, items_test
<1>2. /\ items_gacc \in Seq(ItemsOf) /\ items_gatt \in Seq(ItemsOf)
      /\ items_battery \in Seq(ItemsOf) /\ items_test \in Seq(ItemsOf)
  BY <1>1, Items, SeqMonotonic DEF Sequence
<1> QED
  BY <1>2, Items DEF ServiceId

LEMMA ItemAtHandle == \A x \in ItemsOf : x.handle \in DOMAIN ItemAt /\ ItemAt[x.handle] = x
<1> SUFFICES ASSUME NEW x \in ItemsOf PROVE x.handle \in DOMAIN ItemAt /\ ItemAt[x.handle] = x
  OBVIOUS
<1>1. x.handle \in {item.handle : item \in ItemsOf}
  OBVIOUS
<1>2. x.handle \in DOMAIN ItemAt /\ ItemAt[x.handle] = CHOOSE item \in ItemsOf : item.handle = x.handle
  BY <1>1 DEF ItemAt
<1>3. \E item \in ItemsOf : item.handle = x.handle
  OBVIOUS
<1> QED
  BY <1>2, <1>3, ItemFacts

LEMMA ScanType == ASSUME NEW registered \in Seq(ServiceId) PROVE Scan(registered) \in Seq(ItemsOf)
<1> DEFINE seqs == [i \in DOMAIN registered |-> Service[registered[i]].items]
<1>1. \A i \in 1 .. Len(registered) : registered[i] \in ServiceId
  OBVIOUS
<1>2. \A i \in 1 .. Len(registered) : seqs[i] \in Seq(ItemsOf)
  BY <1>1, ServiceItems
<1>3. Len(registered) \in Nat /\ DOMAIN seqs = 1 .. Len(registered)
  OBVIOUS
<1>4. seqs \in [1 .. Len(registered) -> Seq(ItemsOf)]
  BY <1>2, <1>3
<1>5. seqs \in Seq(Seq(ItemsOf))
  <2> HIDE DEF seqs
  <2> QED
    BY <1>3, <1>4
<1> QED
  BY <1>5, FlattenType DEF Scan

LEMMA LookupItem ==
    ASSUME NEW registered \in Seq(ServiceId), NEW h, NEW x \in Lookup(registered, h)
    PROVE  h \in DOMAIN ItemAt /\ x = ItemAt[h] /\ x \in ItemsOf /\ x.handle = h
<1>1. Scan(registered) \in Seq(ItemsOf)
  BY ScanType
<1>2. x \in ItemsOf /\ x.handle = h
  BY <1>1 DEF Lookup
<1> QED
  BY <1>2, ItemAtHandle

LEMMA WindowType ==
    ASSUME NEW registered \in Seq(ServiceId), NEW start, NEW end
    PROVE  Window(registered, start, end) \in Seq(ItemsOf)
  BY ScanType, PickedType DEF Window

-----------------------------------------------------------------------------
(* The answers to the requests that ask for a list.                         *)

\* a response to the request, or the refusal of it
ResponseTo(request, pdu) == pdu.op = request \/ (pdu.op = "error" /\ pdu.request = request)

\* A PDU within the MTU, or the one kind that goes beyond it.
FitsIn(mtu, pdu) ==
    \/ pdu.length <= mtu
    \/ pdu.op = "read_by_type" /\ Len(pdu.list) = 1 /\ pdu.list[1].size > mtu - 4

EntrySizes == {2, 3, 4, 6, 7, 34}

LEMMA Quotient ==
    ASSUME NEW n \in Nat, NEW size \in EntrySizes
    PROVE  n \div size \in Nat /\ size * (n \div size) <= n
  BY DEF EntrySizes

LEMMA PageFacts ==
    ASSUME NEW entries, Sequence(entries), NEW header \in 0 .. 2, NEW size \in EntrySizes,
           NEW mtu \in Nat, mtu >= ATT_MTU_DEFAULT
    PROVE  LET page == Page(entries, header, size, mtu) IN
           /\ Sequence(page) /\ Len(page) \in Nat
           /\ Len(page) <= 1 \/ header + size * Len(page) <= mtu
           /\ \A i \in 1 .. Len(page) : i \in DOMAIN entries /\ page[i] = entries[i]
           /\ Len(page) = 0 => Len(entries) = 0
<1> DEFINE q == (mtu - header) \div size
           n == Min({Len(entries), Max({1, q})})
<1>1. mtu - header \in Nat /\ Len(entries) \in Nat /\ DOMAIN entries = 1 .. Len(entries)
  BY SequenceFacts DEF ATT_MTU_DEFAULT
<1>2. q \in Nat /\ size * q <= mtu - header
  BY <1>1, Quotient
<1> HIDE DEF q
<1>3. Max({1, q}) = IF 1 >= q THEN 1 ELSE q
  BY <1>2, MaxOfTwo
<1>4. Max({1, q}) \in Nat
  BY <1>2, <1>3
<1>5. n = IF Len(entries) <= Max({1, q}) THEN Len(entries) ELSE Max({1, q})
  BY <1>1, <1>4, MinOfTwo
<1> HIDE DEF n
<1>6. n \in 0 .. Len(entries) /\ (n <= 1 \/ n <= q) /\ (n = 0 => Len(entries) = 0)
  BY <1>1, <1>2, <1>3, <1>5
<1>7. n <= q => size * n <= size * q
  <2>1. n \in Nat
    BY <1>1, <1>6
  <2> QED
    BY <1>2, <2>1 DEF EntrySizes
<1>8. n <= 1 \/ header + size * n <= mtu
  <2>1. n \in Nat /\ size * n \in Nat /\ size * q \in Nat
    BY <1>1, <1>2, <1>6 DEF EntrySizes
  <2> QED
    BY <1>2, <1>6, <1>7, <2>1
<1>9. Page(entries, header, size, mtu) = SubSeq(entries, 1, n)
  BY DEF Page, n, q
<1>10. /\ Sequence(SubSeq(entries, 1, n)) /\ Len(SubSeq(entries, 1, n)) = n
       /\ \A i \in 1 .. n : SubSeq(entries, 1, n)[i] = entries[i]
  BY <1>6, PrefixFacts
<1>11. \A i \in 1 .. n : i \in DOMAIN entries
  BY <1>1, <1>6
<1> QED
  BY <1>1, <1>6, <1>8, <1>9, <1>10, <1>11

\* An answer to a request for a list: within the MTU unless it has but one entry.
Lists(request, entries, header, size, mtu, pdu) ==
    /\ ResponseTo(request, pdu) /\ pdu.length \in Nat
    /\ \/ pdu.length <= mtu
       \/ /\ pdu.op = request /\ Len(pdu.list) = 1 /\ 1 \in DOMAIN entries
          /\ pdu.list[1] = entries[1] /\ pdu.length = header + size

LEMMA ListingFacts ==
    ASSUME NEW request, NEW start, NEW entries, Sequence(entries), NEW header \in 0 .. 2,
           NEW size \in EntrySizes, NEW mtu \in Nat, mtu >= ATT_MTU_DEFAULT
    PROVE  Lists(request, entries, header, size, mtu,
                 Listing(request, start, Page(entries, header, size, mtu), header, size))
<1> DEFINE page == Page(entries, header, size, mtu)
           pdu == Listing(request, start, page, header, size)
<1>1. /\ Sequence(page) /\ Len(page) \in Nat
      /\ Len(page) <= 1 \/ header + size * Len(page) <= mtu
      /\ \A i \in 1 .. Len(page) : i \in DOMAIN entries /\ page[i] = entries[i]
  BY PageFacts
<1> HIDE DEF page
<1>2. CASE page = <<>>
  <2>1. pdu = gatt_send_error_resp(request, start, "attribute_not_found")
    BY <1>2 DEF Listing
  <2>2. pdu.op = "error" /\ pdu.request = request /\ pdu.length = 5
    BY <2>1 DEF gatt_send_error_resp
  <2>3. mtu >= 23
    BY DEF ATT_MTU_DEFAULT
  <2> HIDE DEF pdu
  <2> QED
    BY <2>2, <2>3 DEF Lists, ResponseTo, pdu, page
<1>3. CASE page # <<>>
  <2>1. pdu = [op |-> request, list |-> page, length |-> header + size * Len(page)]
    BY <1>3 DEF Listing
  <2>2. Len(page) >= 1
    BY <1>1, <1>3, SequenceFacts
  <2>3. pdu.op = request /\ pdu.list = page /\ pdu.length = header + size * Len(page)
    BY <2>1
  <2>4. PICK n \in Nat : n = Len(page)
    BY <1>1
  <2>5. n >= 1 /\ size * n \in Nat /\ (n = 1 => size * n = size)
    BY <2>2, <2>4 DEF EntrySizes
  <2> HIDE DEF pdu
  <2>6. CASE n = 1
    <3>1. 1 \in DOMAIN entries /\ page[1] = entries[1]
      BY <1>1, <2>4, <2>6
    <3> QED
      BY <2>3, <2>4, <2>5, <2>6, <3>1 DEF Lists, ResponseTo, pdu, page
  <2>7. CASE n # 1
    <3>1. n <= 1 \/ header + size * n <= mtu
      BY <1>1, <2>4
    <3>2. ~(n <= 1)
      BY <2>5, <2>7
    <3> QED
      BY <2>3, <2>4, <2>5, <3>1, <3>2 DEF Lists, ResponseTo, pdu, page
  <2> QED
    BY <2>6, <2>7
<1> QED
  BY <1>2, <1>3 DEF page

\* A list with entries made of those of another is one.
LEMMA FindInformationFits ==
    ASSUME NEW registered \in Seq(ServiceId), NEW start, NEW end,
           NEW mtu \in Nat, mtu >= ATT_MTU_DEFAULT
    PROVE  LET pdu == FindInformation(registered, start, end, mtu) IN
           ResponseTo("find_information", pdu) /\ pdu.length \in Nat /\ pdu.length <= mtu
<1> DEFINE window  == Window(registered, start, end)
           entries == [i \in DOMAIN window |-> [handle |-> window[i].handle, type |-> window[i].type]]
<1>1. DOMAIN window = 1 .. Len(window) /\ Len(window) \in Nat
  BY WindowType
<1> HIDE DEF window
<1>2. Sequence(entries)
  BY <1>1, MappedSequence
<1> HIDE DEF entries
<1> DEFINE pdu == FindInformation(registered, start, end, mtu)
<1>3. pdu = Listing("find_information", start, Page(entries, 2, 4, mtu), 2, 4)
  BY DEF FindInformation, entries, window
<1> HIDE DEF pdu
<1>4. Lists("find_information", entries, 2, 4, mtu, pdu)
  <2>1. 4 \in EntrySizes /\ 2 \in 0 .. 2
    BY DEF EntrySizes
  <2> QED
    BY <1>2, <1>3, <2>1, ListingFacts
<1>5. pdu.length <= mtu
  BY <1>4 DEF Lists, ATT_MTU_DEFAULT
<1> QED
  BY <1>4, <1>5 DEF Lists, pdu

LEMMA FindByTypeValueFits ==
    ASSUME NEW registered \in Seq(ServiceId), NEW start, NEW end, NEW type, NEW id,
           NEW gone, NEW mtu \in Nat, mtu >= ATT_MTU_DEFAULT
    PROVE  LET pdu == FindByTypeValue(registered, gone, start, end, type, id, mtu) IN
           ResponseTo("find_by_type_value", pdu) /\ pdu.length \in Nat /\ pdu.length <= mtu
<1> DEFINE window  == Window(registered, start, end)
           matches == Picked(window, {i \in DOMAIN window :
                         /\ window[i].type = type /\ ServiceOf(window[i].handle) = id
                         /\ window[i].handle \notin gone})
           entries == Groups(matches)
           pdu     == FindByTypeValue(registered, gone, start, end, type, id, mtu)
<1>1. matches \in Seq(ItemsOf)
  BY WindowType, PickedType
<1>2. pdu = Listing("find_by_type_value", start, Page(entries, 1, 4, mtu), 1, 4)
  BY DEF FindByTypeValue
<1> HIDE DEF matches, pdu
<1>3. DOMAIN matches = 1 .. Len(matches) /\ Len(matches) \in Nat
  BY <1>1
<1>4. Sequence(entries)
  BY <1>3, MappedSequence DEF Groups
<1> HIDE DEF entries
<1>5. Lists("find_by_type_value", entries, 1, 4, mtu, pdu)
  <2>1. 4 \in EntrySizes /\ 1 \in 0 .. 2
    BY DEF EntrySizes
  <2> QED
    BY <1>2, <1>4, <2>1, ListingFacts
<1>6. pdu.length <= mtu
  BY <1>5 DEF Lists, ATT_MTU_DEFAULT
<1> QED
  BY <1>5, <1>6 DEF Lists, pdu

LEMMA ReadByGroupTypeFits ==
    ASSUME NEW registered \in Seq(ServiceId), NEW start, NEW end, NEW type,
           NEW mtu \in Nat, mtu >= ATT_MTU_DEFAULT
    PROVE  LET pdu == ReadByGroupType(registered, start, end, type, mtu) IN
           ResponseTo("read_by_group_type", pdu) /\ pdu.length \in Nat /\ pdu.length <= mtu
<1> DEFINE within == Picked(registered, {i \in DOMAIN registered :
                        LET service == Service[registered[i]] IN
                        /\ start <= service.start_handle /\ service.end_handle <= end
                        /\ service.items[1].type = type})
           entries == [i \in DOMAIN within |->
                         [handle |-> Service[within[i]].start_handle, end |-> Service[within[i]].end_handle]]
           pdu     == ReadByGroupType(registered, start, end, type, mtu)
<1>1. within \in Seq(ServiceId)
  BY PickedType
<1>2. pdu = Listing("read_by_group_type", start, Page(entries, 2, 6, mtu), 2, 6)
  BY DEF ReadByGroupType
<1> HIDE DEF within, pdu
<1>3. DOMAIN within = 1 .. Len(within) /\ Len(within) \in Nat
  BY <1>1
<1>4. Sequence(entries)
  BY <1>3, MappedSequence
<1> HIDE DEF entries
<1>5. Lists("read_by_group_type", entries, 2, 6, mtu, pdu)
  <2>1. 6 \in EntrySizes /\ 2 \in 0 .. 2
    BY DEF EntrySizes
  <2> QED
    BY <1>2, <1>4, <2>1, ListingFacts
<1>6. pdu.length <= mtu
  BY <1>5 DEF Lists, ATT_MTU_DEFAULT
<1> QED
  BY <1>5, <1>6 DEF Lists, pdu

\* The first value of the response is not cut to the MTU.
LEMMA ReadByTypeFits ==
    ASSUME NEW registered \in Seq(ServiceId), NEW start, NEW end, NEW type,
           NEW mtu \in Nat, mtu >= ATT_MTU_DEFAULT
    PROVE  LET pdu == ReadByType(registered, start, end, type, mtu) IN
           ResponseTo("read_by_type", pdu) /\ pdu.length \in Nat /\ FitsIn(mtu, pdu)
<1> DEFINE window  == Window(registered, start, end)
           matches == OfTypeAndSize(window, type)
           size    == 2 + (IF matches = <<>> THEN 0 ELSE matches[1].size)
           entries == [i \in DOMAIN matches |-> [handle |-> matches[i].handle, size |-> matches[i].size]]
           pdu     == ReadByType(registered, start, end, type, mtu)
<1>1. matches \in Seq(ItemsOf)
  BY WindowType, PickedType DEF OfTypeAndSize
<1>2. pdu = Listing("read_by_type", start, Page(entries, 2, size, mtu), 2, size)
  BY DEF ReadByType
<1> HIDE DEF matches, pdu
<1>3. DOMAIN matches = 1 .. Len(matches) /\ Len(matches) \in Nat
  BY <1>1
<1>4. Sequence(entries)
  BY <1>3, MappedSequence
<1>5. 1 \in DOMAIN entries => entries[1].size \in Nat /\ size = 2 + entries[1].size
  <2>1. ASSUME 1 \in DOMAIN entries PROVE entries[1].size \in Nat /\ size = 2 + entries[1].size
    <3>1. matches[1] \in ItemsOf /\ matches # <<>> /\ entries[1].size = matches[1].size
      BY <1>1, <1>3, <2>1
    <3>2. matches[1].size \in {0, 1, 2, 4, 5, 32}
      BY <3>1, ItemFacts
    <3>3. matches[1].size \in Nat
      BY <3>2
    <3>4. size = 2 + matches[1].size
      BY <3>1
    <3> HIDE DEF size, entries
    <3> QED
      BY <3>1, <3>3, <3>4
  <2> QED
    BY <2>1
<1>6. size \in EntrySizes
  <2>1. CASE matches = <<>>
    BY <2>1 DEF EntrySizes
  <2>2. CASE matches # <<>>
    <3>1. matches[1] \in ItemsOf
      BY <1>1, <2>2
    <3>2. matches[1].size \in {0, 1, 2, 4, 5, 32}
      BY <3>1, ItemFacts
    <3> QED
      BY <2>2, <3>2 DEF EntrySizes
  <2> QED
    BY <2>1, <2>2
<1> HIDE DEF size, entries
<1>7. Lists("read_by_type", entries, 2, size, mtu, pdu)
  <2>1. 2 \in 0 .. 2
    OBVIOUS
  <2> QED
    BY <1>2, <1>4, <1>6, <2>1, ListingFacts
<1>8. FitsIn(mtu, pdu)
  BY <1>5, <1>7 DEF Lists, FitsIn, ATT_MTU_DEFAULT
<1> QED
  BY <1>7, <1>8 DEF Lists, pdu

-----------------------------------------------------------------------------
(* The inductive invariant.  A peer and the server are in step: the peer    *)
(* has one request, its response or neither under way.                      *)

\* PDUs that ask for no response, and PDUs that are none.
Commands == {"write_command", "confirmation"}
Values   == {"notification", "indication"}

\* All PDUs are of these operations; all but one are, which is this one.
AllOf(ops, q) == \A i \in DOMAIN q : q[i].op \in ops
AllBut(ops, q, pdu) ==
    /\ pdu.op \notin ops
    /\ \E i \in DOMAIN q : /\ q[i] = pdu
                           /\ \A j \in DOMAIN q \ {i} : q[j].op \in ops

Fields == {"procedure", "target", "next", "found", "mtu", "awaits", "done", "regrown", "asked"}

\* A request of a procedure is the next one it has, and the MTU is the default one until it was
\* exchanged, once.
ClientOK(c) ==
    /\ c = [f \in Fields |-> c[f]]
    /\ c.mtu \in Nat /\ c.mtu >= ATT_MTU_DEFAULT /\ c.asked \in Nat
    /\ c.asked = 0 \/ c.awaits = "exchange_mtu" => c.mtu = ATT_MTU_DEFAULT /\ ~c.regrown
    /\ c.awaits = "exchange_mtu" => c.asked # 0
    /\ c.awaits \notin {"none", "exchange_mtu", "write_request"} => c.awaits = Request(c).op /\ ~c.done

\* the handle a long read is of, and how far it is
Target(c) == HandleOf(c.target)
Position(c) == IF c.found = <<>> THEN 0 ELSE c.next

\* What a long read has so far: parts from the start on without a gap, of an attribute that is
\* registered; if it goes on and the MTU did not grow, the last part was as long as the MTU.
Gathered(c, registered) ==
    LET parts == c.found
        size == ItemAt[Target(c)].size
        last == parts[Len(parts)]
    IN c.procedure = "long_read" =>
       /\ Sequence(parts)
       /\ parts # <<>> =>
            /\ Lookup(registered, Target(c)) # {}
            /\ parts[1].from = 0 /\ parts[1].handle = Target(c)
            /\ \A i \in 1 .. Len(parts) - 1 : parts[i + 1].from = parts[i].to
            /\ c.next = last.to /\ last.to \in Nat /\ last.to <= size
            /\ c.done => last.to = size \/ c.regrown
            /\ ~c.done => last.to >= ATT_MTU_DEFAULT - 1
            /\ ~c.done /\ ~c.regrown => last.to >= c.mtu - 1

\* a request is the one its peer waits for
Matches(c, r) ==
    /\ r.op = c.awaits
    /\ r.op = "exchange_mtu" => r.mtu = c.asked
    /\ r.op \notin {"exchange_mtu", "write_request"} => r = Request(c)

\* what a long read is answered: the next part of the value, or an error when there is none
AnswersRead(c, pdu, registered, mtu) ==
    IF pdu.op = "error"
    THEN c.found = <<>> \/ c.regrown \/ c.found[Len(c.found)].to = ItemAt[Target(c)].size
    ELSE /\ Lookup(registered, Target(c)) # {}
         /\ Position(c) \in Nat /\ Position(c) <= ItemAt[Target(c)].size
         /\ pdu = Part(c.awaits, ItemAt[Target(c)], Position(c), mtu)

\* a response is one to the request its peer waits for an answer to
Answers(c, pdu, registered, mtu) ==
    /\ ResponseTo(c.awaits, pdu)
    /\ c.awaits = "exchange_mtu" =>
         pdu.op = "exchange_mtu" /\ pdu.mtu = mtu /\ mtu = Max({ATT_MTU_DEFAULT, Min({c.asked, mtu})})
    /\ c.awaits # "exchange_mtu" => mtu = c.mtu
    /\ c.awaits \in {"read", "read_blob"} => AnswersRead(c, pdu, registered, mtu)

\* How far the request of a peer is: there is none, it is under way, its response is, or neither
\* is because the response was dropped or the server does not know the request.
Resting(p, c, requests, responses, lost, mtu) ==
    /\ c.awaits = "none" /\ c.mtu = mtu /\ p \notin lost
    /\ AllOf(Commands, requests) /\ AllOf(Values, responses)
Asking(p, c, requests, responses, lost, mtu) ==
    /\ c.awaits # "none" /\ c.mtu = mtu /\ p \notin lost
    /\ \E r \in ToSet(requests) : AllBut(Commands, requests, r) /\ Matches(c, r)
    /\ AllOf(Values, responses)
Answered(p, c, requests, responses, lost, registered, mtu) ==
    /\ c.awaits # "none" /\ p \notin lost
    /\ AllOf(Commands, requests)
    /\ \E pdu \in ToSet(responses) : AllBut(Values, responses, pdu) /\ Answers(c, pdu, registered, mtu)
Forgotten(p, c, requests, responses, lost, mtu) ==
    /\ c.awaits # "none"
    /\ AllOf(Commands, requests) /\ AllOf(Values, responses)
    /\ p \in lost \/ (c.awaits = "read_multiple" /\ c.mtu = mtu)

Phase(p, c, requests, responses, lost, registered, mtu) ==
    \/ Resting(p, c, requests, responses, lost, mtu)
    \/ Asking(p, c, requests, responses, lost, mtu)
    \/ Answered(p, c, requests, responses, lost, registered, mtu)
    \/ Forgotten(p, c, requests, responses, lost, mtu)

\* no PDU under way is longer than the MTU its receiver will know of
Fits(c, responses, mtu) ==
    \A i \in DOMAIN responses :
        \/ FitsIn(c.mtu, responses[i])
        \/ responses[i].length <= mtu /\ \E j \in 1 .. i - 1 : responses[j].op = "exchange_mtu"

\* what holds of a peer whatever its phase is
Sound(p, c, requests, responses, lost, registered, mtu) ==
    /\ Sequence(requests) /\ Sequence(responses)
    /\ \A i \in DOMAIN responses : responses[i].length \in Nat
    /\ ClientOK(c) /\ Gathered(c, registered)
    /\ mtu \in Nat
    /\ mtu = 0 => requests = <<>> /\ responses = <<>> /\ c = Idle
    /\ mtu # 0 => mtu >= c.mtu /\ (p \notin lost => Fits(c, responses, mtu))

PeerSound(p) ==
    Sound(p, client[p], toServer[p], toClient[p], unheard, services, att_mtu[p])
PeerInStep(p) ==
    Runs /\ att_mtu[p] # 0 =>
        Phase(p, client[p], toServer[p], toClient[p], unheard, services, att_mtu[p])

Shape ==
    /\ DOMAIN att_mtu = Peer /\ DOMAIN toServer = Peer /\ DOMAIN toClient = Peer /\ DOMAIN client = Peer
    /\ le_acl_packet_length \in Nat \ {0} /\ credits \in Nat /\ unreported \in Nat
    /\ services \in Seq(ServiceId)

IInv == Shape /\ \A p \in Peer : PeerSound(p) /\ PeerInStep(p)

-----------------------------------------------------------------------------
(* PDUs under way, as some are added and the first is taken.                *)

LEMMA AllAppend ==
    ASSUME NEW ops, NEW q, Sequence(q), NEW x
    PROVE  /\ AllOf(ops, q) /\ x.op \in ops => AllOf(ops, Append(q, x))
           /\ AllOf(ops, q) /\ x.op \notin ops => AllBut(ops, Append(q, x), x)
           /\ \A y : AllBut(ops, q, y) /\ x.op \in ops => AllBut(ops, Append(q, x), y)
           /\ x \in ToSet(Append(q, x)) /\ ToSet(q) \subseteq ToSet(Append(q, x))
<1> DEFINE n == Len(q)
           t == Append(q, x)
<1>1. /\ n \in Nat /\ DOMAIN q = 1 .. n /\ DOMAIN t = 1 .. n + 1 /\ t[n + 1] = x
      /\ \A i \in 1 .. n : t[i] = q[i]
  BY AppendFacts, SequenceFacts DEF Extends
<1> HIDE DEF n, t
<1>2. n + 1 \in 1 .. n + 1 /\ \A i \in 1 .. n + 1 : i # n + 1 => i \in 1 .. n
  BY <1>1
<1>3. \A i \in 1 .. n : i \in 1 .. n + 1 /\ i # n + 1
  BY <1>1
<1>4. AllOf(ops, q) /\ x.op \in ops => AllOf(ops, t)
  BY <1>1, <1>2 DEF AllOf
<1>5. AllOf(ops, q) /\ x.op \notin ops => AllBut(ops, t, x)
  BY <1>1, <1>2 DEF AllOf, AllBut
<1>6. \A y : AllBut(ops, q, y) /\ x.op \in ops => AllBut(ops, t, y)
  <2> SUFFICES ASSUME NEW y, AllBut(ops, q, y), x.op \in ops PROVE AllBut(ops, t, y)
    OBVIOUS
  <2>1. PICK i \in 1 .. n : q[i] = y /\ \A j \in (1 .. n) \ {i} : q[j].op \in ops
    BY <1>1 DEF AllBut
  <2>2. i \in 1 .. n + 1 /\ t[i] = y /\ \A j \in (1 .. n + 1) \ {i} : t[j].op \in ops
    BY <1>1, <1>2, <1>3, <2>1
  <2> QED
    BY <1>1, <2>2 DEF AllBut
<1>7. x \in ToSet(t) /\ ToSet(q) \subseteq ToSet(t)
  BY <1>1, <1>2, <1>3 DEF ToSet
<1> QED
  BY <1>4, <1>5, <1>6, <1>7 DEF t

LEMMA AllConcat ==
    ASSUME NEW ops, NEW q, Sequence(q), NEW r, Sequence(r), AllOf(ops, r)
    PROVE  /\ AllOf(ops, q) => AllOf(ops, q \o r)
           /\ \A y : AllBut(ops, q, y) => AllBut(ops, q \o r, y)
           /\ ToSet(q) \subseteq ToSet(q \o r)
<1> DEFINE n == Len(q)
           m == Len(r)
           t == q \o r
<1>1. /\ n \in Nat /\ m \in Nat /\ DOMAIN q = 1 .. n /\ DOMAIN r = 1 .. m /\ DOMAIN t = 1 .. n + m
      /\ \A i \in 1 .. n : t[i] = q[i]
      /\ \A i \in 1 .. m : t[n + i] = r[i]
  BY ConcatFacts, SequenceFacts DEF Extends
<1> HIDE DEF n, m, t
<1>2. \A i \in 1 .. n + m : i \in 1 .. n \/ (i - n \in 1 .. m /\ n + (i - n) = i)
  BY <1>1
<1>3. \A i \in 1 .. n : i \in 1 .. n + m
  BY <1>1
<1>4. \A i \in 1 .. n + m : i \in 1 .. n \/ t[i].op \in ops
  <2> TAKE i \in 1 .. n + m
  <2>1. CASE i \in 1 .. n
    BY <2>1
  <2>2. CASE i \notin 1 .. n
    <3>1. t[i] = r[i - n] /\ i - n \in DOMAIN r
      BY <1>1, <1>2, <2>2
    <3> QED
      BY <3>1 DEF AllOf
  <2> QED
    BY <2>1, <2>2
<1>5. AllOf(ops, q) => AllOf(ops, t)
  BY <1>1, <1>4 DEF AllOf
<1>6. \A y : AllBut(ops, q, y) => AllBut(ops, t, y)
  <2> SUFFICES ASSUME NEW y, AllBut(ops, q, y) PROVE AllBut(ops, t, y)
    OBVIOUS
  <2>1. PICK i \in 1 .. n : q[i] = y /\ \A j \in (1 .. n) \ {i} : q[j].op \in ops
    BY <1>1 DEF AllBut
  <2>2. i \in 1 .. n + m /\ t[i] = y /\ \A j \in (1 .. n + m) \ {i} : t[j].op \in ops
    BY <1>1, <1>3, <1>4, <2>1
  <2> QED
    BY <1>1, <2>2 DEF AllBut
<1>7. ToSet(q) \subseteq ToSet(t)
  BY <1>1, <1>3 DEF ToSet
<1> QED
  BY <1>5, <1>6, <1>7 DEF t

LEMMA AllTail ==
    ASSUME NEW ops, NEW q, Sequence(q), q # <<>>
    PROVE  /\ AllOf(ops, q) => AllOf(ops, Tail(q)) /\ Head(q).op \in ops
           /\ \A y : AllBut(ops, q, y) =>
                IF Head(q).op \in ops THEN AllBut(ops, Tail(q), y) /\ y \in ToSet(Tail(q))
                ELSE Head(q) = y /\ AllOf(ops, Tail(q))
<1> DEFINE n == Len(q)
           t == Tail(q)
<1>1. /\ n \in Nat \ {0} /\ DOMAIN q = 1 .. n /\ DOMAIN t = 1 .. n - 1 /\ Head(q) = q[1]
      /\ \A i \in 1 .. n - 1 : t[i] = q[i + 1]
  BY TailFacts
<1> HIDE DEF n, t
<1>2. 1 \in 1 .. n /\ \A i \in 1 .. n - 1 : i + 1 \in 1 .. n /\ i + 1 # 1
  BY <1>1
<1>3. \A i \in 1 .. n : i # 1 => i - 1 \in 1 .. n - 1 /\ (i - 1) + 1 = i
  BY <1>1
<1>4. AllOf(ops, q) => AllOf(ops, t) /\ Head(q).op \in ops
  BY <1>1, <1>2 DEF AllOf
<1>5. ASSUME NEW y, AllBut(ops, q, y)
      PROVE  IF Head(q).op \in ops THEN AllBut(ops, t, y) /\ y \in ToSet(t)
             ELSE Head(q) = y /\ AllOf(ops, t)
  <2>1. PICK i \in 1 .. n : q[i] = y /\ \A j \in (1 .. n) \ {i} : q[j].op \in ops
    BY <1>1, <1>5 DEF AllBut
  <2>2. y.op \notin ops
    BY <1>5 DEF AllBut
  <2>3. CASE i = 1
    <3>1. Head(q) = y /\ Head(q).op \notin ops
      BY <1>1, <2>1, <2>2, <2>3
    <3>2. AllOf(ops, t)
      BY <1>1, <1>2, <2>1, <2>3 DEF AllOf
    <3> QED
      BY <3>1, <3>2
  <2>4. CASE i # 1
    <3>1. Head(q).op \in ops
      BY <1>1, <1>2, <2>1, <2>4
    <3>2. i - 1 \in 1 .. n - 1 /\ t[i - 1] = y
      BY <1>1, <1>3, <2>1, <2>4
    <3>3. \A j \in (1 .. n - 1) \ {i - 1} : j + 1 \in (1 .. n) \ {i}
      BY <1>1, <1>2
    <3>4. \A j \in (1 .. n - 1) \ {i - 1} : t[j].op \in ops
      BY <1>1, <2>1, <3>3
    <3> QED
      BY <1>1, <2>2, <3>1, <3>2, <3>4 DEF AllBut, ToSet
  <2> QED
    BY <2>3, <2>4
<1> QED
  BY <1>4, <1>5 DEF t

LEMMA FitsConcat ==
    ASSUME NEW c, NEW q, Sequence(q), NEW r, Sequence(r), NEW mtu, Fits(c, q, mtu),
           \A i \in DOMAIN r :
              \/ FitsIn(c.mtu, r[i])
              \/ r[i].length <= mtu /\ \E j \in DOMAIN q : q[j].op = "exchange_mtu"
    PROVE  Fits(c, q \o r, mtu)
<1> DEFINE n == Len(q)
           m == Len(r)
           t == q \o r
<1>1. /\ n \in Nat /\ m \in Nat /\ DOMAIN q = 1 .. n /\ DOMAIN r = 1 .. m /\ DOMAIN t = 1 .. n + m
      /\ \A i \in 1 .. n : t[i] = q[i]
      /\ \A i \in 1 .. m : t[n + i] = r[i]
  <2>1. n \in Nat /\ m \in Nat /\ DOMAIN q = 1 .. n /\ DOMAIN r = 1 .. m
    BY SequenceFacts
  <2>2. DOMAIN t = 1 .. n + m /\ Extends(q, t) /\ \A i \in 1 .. m : t[n + i] = r[i]
    BY ConcatFacts
  <2> QED
    BY <2>1, <2>2 DEF Extends
<1> HIDE DEF n, m, t
<1>2. ASSUME NEW i \in 1 .. n + m
      PROVE  \/ FitsIn(c.mtu, t[i])
             \/ t[i].length <= mtu /\ \E j \in 1 .. i - 1 : t[j].op = "exchange_mtu"
  <2>1. CASE i \in 1 .. n
    <3>1. \A j \in 1 .. i - 1 : j \in 1 .. n /\ t[j] = q[j]
      BY <1>1, <2>1
    <3> QED
      BY <1>1, <2>1, <3>1 DEF Fits
  <2>2. CASE i \notin 1 .. n
    <3>1. i - n \in 1 .. m /\ n + (i - n) = i /\ \A j \in 1 .. n : j \in 1 .. i - 1
      BY <1>1, <2>2
    <3>2. t[i] = r[i - n]
      BY <1>1, <3>1
    <3> QED
      BY <1>1, <3>1, <3>2
  <2> QED
    BY <2>1, <2>2
<1> QED
  BY <1>1, <1>2 DEF Fits, t

\* What the peer takes first was the longest it knows of; the rest still fits, by what it has
\* learned from an exchange.
LEMMA FitsTail ==
    ASSUME NEW c, NEW d, NEW q, Sequence(q), q # <<>>, NEW mtu, Fits(c, q, mtu),
           d.mtu = c.mtu /\ Head(q).op # "exchange_mtu"
    PROVE  Fits(d, Tail(q), mtu)
<1> DEFINE n == Len(q)
           t == Tail(q)
<1>1. /\ n \in Nat \ {0} /\ DOMAIN q = 1 .. n /\ DOMAIN t = 1 .. n - 1 /\ Head(q) = q[1]
      /\ \A i \in 1 .. n - 1 : t[i] = q[i + 1]
  BY TailFacts
<1> HIDE DEF n, t
<1>2. ASSUME NEW i \in 1 .. n - 1
      PROVE  \/ FitsIn(d.mtu, t[i])
             \/ t[i].length <= mtu /\ \E j \in 1 .. i - 1 : t[j].op = "exchange_mtu"
  <2>1. i + 1 \in 1 .. n /\ t[i] = q[i + 1]
    BY <1>1
  <2>2. CASE FitsIn(c.mtu, q[i + 1])
    BY <2>1, <2>2
  <2>3. CASE ~FitsIn(c.mtu, q[i + 1])
    <3>1. q[i + 1].length <= mtu /\ \E j \in 1 .. (i + 1) - 1 : q[j].op = "exchange_mtu"
      BY <1>1, <2>1, <2>3 DEF Fits
    <3>2. PICK j \in 1 .. i : q[j].op = "exchange_mtu"
      BY <3>1
    <3>3. j # 1
      BY <1>1, <3>2
    <3>4. j - 1 \in 1 .. i - 1 /\ j - 1 \in 1 .. n - 1 /\ (j - 1) + 1 = j
      BY <1>1, <3>3
    <3>5. t[j - 1].op = "exchange_mtu"
      BY <1>1, <3>2, <3>4
    <3> QED
      BY <2>1, <3>1, <3>4, <3>5
  <2> QED
    BY <2>2, <2>3
<1> QED
  BY <1>1, <1>2 DEF Fits, t

-----------------------------------------------------------------------------
(* What the server does with the request of a peer.                         *)

LEMMA RequestOps ==
    ASSUME NEW c
    PROVE  /\ Request(c).op \in {"read_by_group_type", "find_by_type_value", "read_by_type",
                                 "find_information", "read", "read_blob", "read_multiple"}
           /\ Request(c).op \in {"read", "read_blob"} <=> c.procedure = "long_read"
           /\ Request(c).op = "read" => c.found = <<>> /\ Request(c).handle = Target(c)
           /\ Request(c).op = "read_blob" => /\ c.found # <<>> /\ Request(c).handle = Target(c)
                                             /\ Request(c).offset = c.next
<1>1. CASE c.procedure = "services"
  BY <1>1 DEF Request
<1>2. CASE c.procedure = "service"
  BY <1>2 DEF Request
<1>3. CASE c.procedure = "characteristics"
  BY <1>3 DEF Request
<1>4. CASE c.procedure = "attributes"
  BY <1>4 DEF Request
<1>5. CASE c.procedure = "by_type"
  BY <1>5 DEF Request
<1>6. CASE c.procedure = "long_read"
  BY <1>6 DEF Request, Target
<1>7. CASE c.procedure \notin {"services", "service", "characteristics", "attributes", "by_type", "long_read"}
  BY <1>7 DEF Request
<1> QED
  BY <1>1, <1>2, <1>3, <1>4, <1>5, <1>6, <1>7

\* The request taken from the connection is the one the peer waits for.
LEMMA RequestTaken ==
    ASSUME NEW p, NEW c, NEW requests, Sequence(requests), requests # <<>>, NEW responses, NEW lost,
           NEW registered, NEW mtu, Phase(p, c, requests, responses, lost, registered, mtu),
           Head(requests).op \notin Commands
    PROVE  /\ c.awaits # "none" /\ c.mtu = mtu /\ p \notin lost
           /\ AllOf(Commands, Tail(requests)) /\ AllOf(Values, responses)
           /\ Matches(c, Head(requests))
<1>1. ~AllOf(Commands, requests)
  BY AllTail
<1>2. Asking(p, c, requests, responses, lost, mtu)
  BY <1>1 DEF Phase, Resting, Answered, Forgotten
<1>3. PICK r \in ToSet(requests) : AllBut(Commands, requests, r) /\ Matches(c, r)
  BY <1>2 DEF Asking
<1>4. Head(requests) = r /\ AllOf(Commands, Tail(requests))
  BY <1>3, AllTail
<1> QED
  BY <1>2, <1>3, <1>4 DEF Asking

\* A command leaves the phase as it was; a request the server does not know ends it.
LEMMA CommandTaken ==
    ASSUME NEW p, NEW c, NEW requests, Sequence(requests), requests # <<>>, NEW responses, NEW lost,
           NEW registered, NEW mtu, Phase(p, c, requests, responses, lost, registered, mtu),
           Head(requests).op \in Commands \cup {"read_multiple"}
    PROVE  Phase(p, c, Tail(requests), responses, lost, registered, mtu)
<1>1. CASE Head(requests).op \in Commands
  <2>1. AllOf(Commands, requests) => AllOf(Commands, Tail(requests))
    BY AllTail
  <2>2. \A r : AllBut(Commands, requests, r) =>
           AllBut(Commands, Tail(requests), r) /\ r \in ToSet(Tail(requests))
    BY <1>1, AllTail
  <2> QED
    BY <2>1, <2>2 DEF Phase, Resting, Asking, Answered, Forgotten
<1>2. CASE Head(requests).op \notin Commands
  <2>1. Head(requests).op = "read_multiple"
    BY <1>2
  <2>2. Forgotten(p, c, Tail(requests), responses, lost, mtu)
    BY <1>2, <2>1, RequestTaken DEF Forgotten, Matches
  <2> QED
    BY <2>2 DEF Phase
<1> QED
  BY <1>1, <1>2

LEMMA SoundTaken ==
    ASSUME NEW p, NEW c, NEW requests, requests # <<>>, NEW responses, NEW lost,
           NEW registered, NEW mtu, Sound(p, c, requests, responses, lost, registered, mtu)
    PROVE  /\ Sound(p, c, Tail(requests), responses, lost, registered, mtu)
           /\ mtu \in Nat /\ mtu # 0 /\ c.mtu \in Nat /\ c.mtu >= ATT_MTU_DEFAULT /\ mtu >= c.mtu
           /\ Sequence(requests) /\ Sequence(responses)
<1>1. Sequence(Tail(requests))
  BY TailFacts DEF Sound
<1> QED
  BY <1>1 DEF Sound, ClientOK

\* The response to the request is under way or was dropped.
LEMMA ResponseSent ==
    ASSUME NEW p, NEW c, NEW requests, NEW responses, NEW lost, NEW registered, NEW mtu,
           Sound(p, c, requests, responses, lost, registered, mtu), mtu # 0,
           AllOf(Commands, requests), AllOf(Values, responses), c.awaits # "none", p \notin lost,
           NEW new \in Nat, new >= c.mtu, NEW pdu, Answers(c, pdu, registered, new), pdu.op \notin Values,
           pdu.length \in Nat, FitsIn(c.mtu, pdu)
    PROVE  /\ Sound(p, c, requests, Append(responses, pdu), lost, registered, new)
           /\ Phase(p, c, requests, Append(responses, pdu), lost, registered, new)
           /\ Sound(p, c, requests, responses, lost \cup {p}, registered, new)
           /\ Phase(p, c, requests, responses, lost \cup {p}, registered, new)
<1>1. Phase(p, c, requests, Append(responses, pdu), lost, registered, new)
  <2>1. AllBut(Values, Append(responses, pdu), pdu) /\ pdu \in ToSet(Append(responses, pdu))
    BY AllAppend DEF Sound
  <2> QED
    BY <2>1 DEF Phase, Answered
<1>2. Phase(p, c, requests, responses, lost \cup {p}, registered, new)
  BY DEF Phase, Forgotten
<1>3. new # 0 /\ c.mtu \in Nat
  BY DEF Sound, ClientOK, ATT_MTU_DEFAULT
<1>4. Sound(p, c, requests, responses, lost \cup {p}, registered, new)
  BY <1>3 DEF Sound
<1>5. Sound(p, c, requests, Append(responses, pdu), lost, registered, new)
  <2> DEFINE n == Len(responses)
             t == Append(responses, pdu)
  <2>1. /\ Sequence(responses) /\ Sequence(t) /\ n \in Nat /\ DOMAIN responses = 1 .. n
        /\ DOMAIN t = 1 .. n + 1 /\ t[n + 1] = pdu /\ \A i \in 1 .. n : t[i] = responses[i]
    BY AppendFacts, SequenceFacts DEF Sound, Extends
  <2>2. Fits(c, responses, mtu)
    BY DEF Sound
  <2> HIDE DEF n, t
  <2>3. \A i \in 1 .. n + 1 : i = n + 1 \/ i \in 1 .. n
    BY <2>1
  <2>4. \A i \in 1 .. n + 1 : t[i].length \in Nat
    BY <2>1, <2>3 DEF Sound
  <2>5. \A i \in 1 .. n : FitsIn(c.mtu, responses[i])
    <3>1. \A i \in 1 .. n : responses[i].op # "exchange_mtu"
      BY <2>1 DEF AllOf, Values
    <3>2. \A i \in 1 .. n : \A j \in 1 .. i - 1 : j \in 1 .. n
      BY <2>1
    <3> QED
      BY <2>1, <2>2, <3>1, <3>2 DEF Fits
  <2>6. Fits(c, t, new)
    BY <2>1, <2>3, <2>5 DEF Fits
  <2>7. Sound(p, c, requests, t, lost, registered, new)
    BY <1>3, <2>1, <2>4, <2>6 DEF Sound
  <2> QED
    BY <2>7 DEF t
<1> QED
  BY <1>1, <1>2, <1>4, <1>5

-----------------------------------------------------------------------------
(* What is sent to a peer unasked, and what the peer takes and asks.        *)

LEMMA ValuesSent ==
    ASSUME NEW p, NEW c, NEW requests, NEW responses, NEW lost, NEW registered, NEW mtu,
           Sound(p, c, requests, responses, lost, registered, mtu), mtu # 0,
           Phase(p, c, requests, responses, lost, registered, mtu),
           NEW more, Sequence(more), AllOf(Values, more),
           \A i \in DOMAIN more : more[i].length \in Nat /\ more[i].length <= mtu
    PROVE  /\ Sound(p, c, requests, responses \o more, lost, registered, mtu)
           /\ Phase(p, c, requests, responses \o more, lost, registered, mtu)
<1> DEFINE t == responses \o more
<1>1. Sequence(responses)
  BY DEF Sound
<1>2. /\ AllOf(Values, responses) => AllOf(Values, t)
      /\ \A y : AllBut(Values, responses, y) => AllBut(Values, t, y)
      /\ ToSet(responses) \subseteq ToSet(t)
  BY <1>1, AllConcat
<1>3. Phase(p, c, requests, t, lost, registered, mtu)
  <2> HIDE DEF t
  <2> QED
    BY <1>2 DEF Phase, Resting, Asking, Answered, Forgotten
<1>4. ASSUME p \notin lost PROVE Fits(c, t, mtu)
  <2>1. Fits(c, responses, mtu)
    BY <1>4 DEF Sound
  <2>2. mtu = c.mtu \/ \E j \in DOMAIN responses : responses[j].op = "exchange_mtu"
    <3>1. CASE Answered(p, c, requests, responses, lost, registered, mtu)
      <4>1. PICK pdu \in ToSet(responses) : Answers(c, pdu, registered, mtu)
        BY <3>1 DEF Answered
      <4>2. \E j \in DOMAIN responses : responses[j] = pdu
        BY DEF ToSet
      <4> QED
        BY <4>1, <4>2 DEF Answers
    <3> QED
      BY <1>4, <3>1 DEF Phase, Resting, Asking, Forgotten
  <2>3. \A i \in DOMAIN more : \/ FitsIn(c.mtu, more[i])
                               \/ more[i].length <= mtu /\ \E j \in DOMAIN responses : responses[j].op = "exchange_mtu"
    <3>1. CASE mtu = c.mtu
      BY <3>1 DEF FitsIn
    <3> QED
      BY <2>2, <3>1
  <2> QED
    BY <1>1, <2>1, <2>3, FitsConcat
<1>5. Sequence(t) /\ \A i \in DOMAIN t : t[i].length \in Nat
  <2> DEFINE n == Len(responses)
             m == Len(more)
  <2>1. n \in Nat /\ m \in Nat /\ DOMAIN responses = 1 .. n /\ DOMAIN more = 1 .. m
    BY <1>1, SequenceFacts
  <2>2. DOMAIN t = 1 .. n + m /\ Extends(responses, t) /\ (\A i \in 1 .. m : t[n + i] = more[i])
        /\ Sequence(t)
    BY <1>1, ConcatFacts
  <2> HIDE DEF n, m, t
  <2>3. ASSUME NEW i \in 1 .. n + m PROVE t[i].length \in Nat
    <3>1. CASE i \in 1 .. n
      BY <2>1, <2>2, <3>1 DEF Extends, Sound
    <3>2. CASE i \notin 1 .. n
      <4>1. i - n \in 1 .. m /\ n + (i - n) = i
        BY <2>1, <3>2
      <4>2. t[i] = more[i - n]
        BY <2>2, <4>1
      <4> QED
        BY <2>1, <4>1, <4>2
    <3> QED
      BY <3>1, <3>2
  <2> QED
    BY <2>2, <2>3
<1>6. Sound(p, c, requests, t, lost, registered, mtu)
  <2> HIDE DEF t
  <2> QED
    BY <1>4, <1>5 DEF Sound
<1> QED
  BY <1>3, <1>6

LEMMA CommandSent ==
    ASSUME NEW p, NEW c, NEW requests, NEW responses, NEW lost, NEW registered, NEW mtu,
           Sound(p, c, requests, responses, lost, registered, mtu), mtu # 0,
           Phase(p, c, requests, responses, lost, registered, mtu),
           NEW r, r.op \in Commands
    PROVE  /\ Sound(p, c, Append(requests, r), responses, lost, registered, mtu)
           /\ Phase(p, c, Append(requests, r), responses, lost, registered, mtu)
<1> DEFINE t == Append(requests, r)
<1>1. Sequence(requests)
  BY DEF Sound
<1>2. /\ AllOf(Commands, requests) => AllOf(Commands, t)
      /\ \A y : AllBut(Commands, requests, y) => AllBut(Commands, t, y)
      /\ ToSet(requests) \subseteq ToSet(t)
  BY <1>1, AllAppend
<1>3. Sequence(t)
  BY <1>1, AppendFacts
<1> HIDE DEF t
<1>4. Phase(p, c, t, responses, lost, registered, mtu)
  BY <1>2 DEF Phase, Resting, Asking, Answered, Forgotten
<1>5. Sound(p, c, t, responses, lost, registered, mtu)
  BY <1>3 DEF Sound
<1> QED
  BY <1>4, <1>5 DEF t

\* A peer at rest starts a procedure, or asks.
LEMMA PeerAtRest ==
    ASSUME NEW p, NEW c, NEW requests, NEW responses, NEW lost, NEW registered, NEW mtu,
           Sound(p, c, requests, responses, lost, registered, mtu), mtu # 0,
           Phase(p, c, requests, responses, lost, registered, mtu), c.awaits = "none",
           NEW d, ClientOK(d), Gathered(d, registered), d.mtu = c.mtu
    PROVE  /\ d.awaits = "none" =>
                /\ Sound(p, d, requests, responses, lost, registered, mtu)
                /\ Phase(p, d, requests, responses, lost, registered, mtu)
           /\ \A r : d.awaits # "none" /\ Matches(d, r) /\ r.op \notin Commands =>
                /\ Sound(p, d, Append(requests, r), responses, lost, registered, mtu)
                /\ Phase(p, d, Append(requests, r), responses, lost, registered, mtu)
<1>1. Resting(p, c, requests, responses, lost, mtu)
  BY DEF Phase, Asking, Answered, Forgotten
<1>2. Sound(p, d, requests, responses, lost, registered, mtu)
  BY DEF Sound, Fits
<1>3. d.awaits = "none" => Phase(p, d, requests, responses, lost, registered, mtu)
  BY <1>1 DEF Phase, Resting
<1>4. ASSUME NEW r, d.awaits # "none", Matches(d, r), r.op \notin Commands
      PROVE  /\ Sound(p, d, Append(requests, r), responses, lost, registered, mtu)
             /\ Phase(p, d, Append(requests, r), responses, lost, registered, mtu)
  <2> DEFINE t == Append(requests, r)
  <2>1. Sequence(requests) /\ AllOf(Commands, requests)
    BY <1>1 DEF Sound, Resting
  <2>2. AllBut(Commands, t, r) /\ r \in ToSet(t)
    BY <1>4, <2>1, AllAppend
  <2>3. Sequence(t)
    BY <2>1, AppendFacts
  <2> HIDE DEF t
  <2>4. Phase(p, d, t, responses, lost, registered, mtu)
    BY <1>1, <1>4, <2>2 DEF Phase, Resting, Asking
  <2>5. Sound(p, d, t, responses, lost, registered, mtu)
    BY <1>2, <2>3 DEF Sound
  <2> QED
    BY <2>4, <2>5 DEF t
<1> QED
  BY <1>2, <1>3, <1>4

LEMMA ValueReceived ==
    ASSUME NEW p, NEW c, NEW requests, NEW responses, NEW lost, NEW registered, NEW mtu,
           Sound(p, c, requests, responses, lost, registered, mtu), mtu # 0,
           Phase(p, c, requests, responses, lost, registered, mtu),
           responses # <<>>, Head(responses).op \in Values
    PROVE  /\ Sound(p, c, requests, Tail(responses), lost, registered, mtu)
           /\ Phase(p, c, requests, Tail(responses), lost, registered, mtu)
<1> DEFINE n == Len(responses)
           t == Tail(responses)
<1>1. Sequence(responses)
  BY DEF Sound
<1>2. /\ Sequence(t) /\ n \in Nat \ {0} /\ DOMAIN t = 1 .. n - 1 /\ DOMAIN responses = 1 .. n
      /\ \A i \in 1 .. n - 1 : t[i] = responses[i + 1]
  BY <1>1, TailFacts
<1>3. /\ AllOf(Values, responses) => AllOf(Values, t)
      /\ \A y : AllBut(Values, responses, y) => AllBut(Values, t, y) /\ y \in ToSet(t)
  BY <1>1, AllTail
<1>4. p \notin lost => Fits(c, t, mtu)
  <2>1. Head(responses).op # "exchange_mtu"
    BY DEF Values
  <2> QED
    BY <1>1, <2>1, FitsTail DEF Sound
<1> HIDE DEF n, t
<1>5. \A i \in 1 .. n - 1 : t[i].length \in Nat
  <2>1. \A i \in 1 .. n - 1 : i + 1 \in 1 .. n
    BY <1>2
  <2> QED
    BY <1>2, <2>1 DEF Sound
<1>6. Phase(p, c, requests, t, lost, registered, mtu)
  BY <1>3 DEF Phase, Resting, Asking, Answered, Forgotten
<1>7. Sound(p, c, requests, t, lost, registered, mtu)
  BY <1>2, <1>4, <1>5 DEF Sound
<1> QED
  BY <1>6, <1>7 DEF t

\* What a long read has depends on nothing else.
LEMMA GatheredFrame ==
    ASSUME NEW c, NEW registered, Gathered(c, registered), NEW d,
           d.procedure = c.procedure, d.target = c.target, d.found = c.found, d.next = c.next,
           d.mtu = c.mtu, d.done = c.done, d.regrown = c.regrown
    PROVE  Gathered(d, registered)
<1>1. Target(d) = Target(c)
  BY DEF Target
<1> QED
  BY <1>1 DEF Gathered

LEMMA RequestFrame ==
    ASSUME NEW c, NEW d,
           d.procedure = c.procedure, d.target = c.target, d.found = c.found, d.next = c.next
    PROVE  Request(d) = Request(c)
  BY DEF Request

LEMMA ResponseOps ==
    ASSUME NEW c, ClientOK(c), c.awaits # "none"
    PROVE  /\ c.awaits \in {"exchange_mtu", "write_request", "read_by_group_type", "find_by_type_value",
                            "read_by_type", "find_information", "read", "read_blob", "read_multiple"}
           /\ c.awaits \in {"read", "read_blob"} => c.procedure = "long_read" /\ ~c.done
           /\ c.awaits \in {"read_by_group_type", "find_by_type_value", "read_by_type",
                            "find_information", "read_multiple"} => c.procedure # "long_read"
           /\ \A pdu : ResponseTo(c.awaits, pdu) => pdu.op \notin Values
<1>1. CASE c.awaits \in {"exchange_mtu", "write_request"}
  BY <1>1 DEF ResponseTo, Values
<1>2. CASE c.awaits \notin {"exchange_mtu", "write_request"}
  <2>1. c.awaits = Request(c).op /\ ~c.done
    BY <1>2 DEF ClientOK
  <2>2. c.awaits \in {"read_by_group_type", "find_by_type_value", "read_by_type",
                      "find_information", "read", "read_blob", "read_multiple"}
    BY <2>1, RequestOps
  <2>3. c.awaits \in {"read", "read_blob"} <=> c.procedure = "long_read"
    BY <2>1, RequestOps
  <2> QED
    BY <2>1, <2>2, <2>3 DEF ResponseTo, Values
<1> QED
  BY <1>1, <1>2

\* A part shorter than the MTU ends with the value; another one is as long as the MTU allows.
LEMMA PartLength ==
    ASSUME NEW size \in Nat, NEW from \in Nat, NEW mtu \in Nat, mtu >= 23, NEW to,
           to = IF size <= from + mtu - 1 THEN size ELSE from + mtu - 1
    PROVE  /\ 1 + to - from < mtu => to = size
           /\ ~(1 + to - from < mtu) => to >= 22 /\ to >= mtu - 1
<1>1. CASE size <= from + mtu - 1
  BY <1>1
<1>2. CASE ~(size <= from + mtu - 1)
  BY <1>2
<1> QED
  BY <1>1, <1>2

\* The part a long read gets goes on where it was, to the end of the value if it is shorter than
\* the MTU.
LEMMA PartGathered ==
    ASSUME NEW c, NEW registered \in Seq(ServiceId), ClientOK(c), Gathered(c, registered),
           c.awaits \in {"read", "read_blob"}, NEW pdu, pdu.op # "error",
           AnswersRead(c, pdu, registered, c.mtu), NEW d,
           d.procedure = c.procedure, d.target = c.target, d.found = Append(c.found, pdu),
           d.next = pdu.to, d.mtu = c.mtu, d.done = (pdu.length < c.mtu), d.regrown = c.regrown
    PROVE  Gathered(d, registered)
<1> DEFINE h == Target(c)
           size == ItemAt[h].size
           from == Position(c)
           to == Min({size, from + c.mtu - 1})
           old == c.found
           new == d.found
           n == Len(old)
<1>1. c.procedure = "long_read" /\ ~c.done
  BY ResponseOps
<1>2. Sequence(old) /\ n \in Nat /\ DOMAIN old = 1 .. n /\ (old = <<>> <=> n = 0)
  BY <1>1, SequenceFacts DEF Gathered
<1>3. /\ Sequence(new) /\ Len(new) = n + 1 /\ new[n + 1] = pdu /\ new # <<>>
      /\ \A i \in 1 .. n : new[i] = old[i]
  <2>1. Sequence(new) /\ Extends(old, new) /\ Len(new) = n + 1 /\ new[n + 1] = pdu
    BY <1>2, AppendFacts
  <2>2. new # <<>>
    <3>1. Len(new) # 0
      BY <1>2, <2>1
    <3> QED
      BY <2>1, <3>1, SequenceFacts
  <2> QED
    BY <1>2, <2>1, <2>2 DEF Extends
<1>4. /\ Lookup(registered, h) # {} /\ from \in Nat /\ from <= size
      /\ pdu = Part(c.awaits, ItemAt[h], from, c.mtu)
  BY DEF AnswersRead
<1>5. PICK x : x \in Lookup(registered, h)
  BY <1>4
<1>6. ItemAt[h] \in ItemsOf /\ ItemAt[h].handle = h
  BY <1>5, LookupItem
<1>7. size \in Nat /\ c.mtu \in Nat /\ c.mtu >= 23
  <2>1. size \in {0, 1, 2, 4, 5, 32}
    BY <1>6, ItemFacts
  <2>2. size \in Nat
    BY <2>1
  <2> QED
    BY <2>2 DEF ClientOK, ATT_MTU_DEFAULT
<1>8. pdu.handle = h /\ pdu.from = from /\ pdu.to = to /\ pdu.length = 1 + to - from
  BY <1>4, <1>6 DEF Part
<1>9. old # <<>> =>
        /\ old[1].from = 0 /\ old[1].handle = h /\ from = old[n].to
        /\ \A i \in 1 .. n - 1 : old[i + 1].from = old[i].to
  BY <1>1 DEF Gathered, Position
<1>10. old = <<>> => from = 0
  BY DEF Position
<1>11. Target(d) = h
  BY DEF Target
<1> HIDE DEF h, size, from, old, new, n
<1>12. to = IF size <= from + c.mtu - 1 THEN size ELSE from + c.mtu - 1
  <2>1. from + c.mtu - 1 \in Nat
    BY <1>4, <1>7
  <2> QED
    BY <1>7, <2>1, MinOfTwo
<1> HIDE DEF to
<1>13. to \in Nat /\ to <= size /\ pdu.length \in Nat
  BY <1>4, <1>7, <1>8, <1>12
<1>14. /\ pdu.length < c.mtu => to = size
       /\ ~(pdu.length < c.mtu) => to >= 22 /\ to >= c.mtu - 1
  <2>1. PICK mtu, length : mtu = c.mtu /\ length = pdu.length
    OBVIOUS
  <2>2. mtu \in Nat /\ mtu >= 23 /\ size \in Nat /\ from \in Nat
    BY <1>4, <1>7, <2>1
  <2>3. to = IF size <= from + mtu - 1 THEN size ELSE from + mtu - 1
    BY <1>12, <2>1
  <2>4. /\ 1 + to - from < mtu => to = size
        /\ ~(1 + to - from < mtu) => to >= 22 /\ to >= mtu - 1
    BY <2>2, <2>3, PartLength
  <2>5. length = 1 + to - from
    BY <1>8, <2>1
  <2> QED
    BY <2>1, <2>4, <2>5
<1>15. ~(pdu.length < c.mtu) => to >= 22 /\ to >= c.mtu - 1
  BY <1>14
<1>16. new[1].from = 0 /\ new[1].handle = h
  <2>1. CASE n = 0
    BY <1>2, <1>3, <1>8, <1>10, <2>1
  <2>2. CASE n # 0
    <3>1. 1 \in 1 .. n
      BY <1>2, <2>2
    <3> QED
      BY <1>2, <1>3, <1>9, <2>2, <3>1
  <2> QED
    BY <2>1, <2>2
<1>17. \A i \in 1 .. n : new[i + 1].from = new[i].to
  <2> TAKE i \in 1 .. n
  <2>1. old # <<>> /\ new[i] = old[i]
    BY <1>2, <1>3
  <2>2. CASE i = n
    BY <1>3, <1>8, <1>9, <2>1, <2>2
  <2>3. CASE i # n
    <3>1. i \in 1 .. n - 1 /\ i + 1 \in 1 .. n
      BY <1>2, <2>3
    <3> QED
      BY <1>3, <1>9, <2>1, <3>1
  <2> QED
    BY <2>2, <2>3
<1>18. Len(new) - 1 = n /\ new[Len(new)] = pdu
  BY <1>2, <1>3
<1>19. /\ Sequence(d.found) /\ Lookup(registered, Target(d)) # {}
       /\ d.found[1].from = 0 /\ d.found[1].handle = Target(d)
       /\ \A i \in 1 .. Len(d.found) - 1 : d.found[i + 1].from = d.found[i].to
  BY <1>3, <1>4, <1>11, <1>16, <1>17, <1>18 DEF new
<1>20. LET last == d.found[Len(d.found)] IN
       /\ d.next = last.to /\ last.to \in Nat /\ last.to <= ItemAt[Target(d)].size
       /\ d.done => last.to = ItemAt[Target(d)].size \/ d.regrown
       /\ ~d.done => last.to >= ATT_MTU_DEFAULT - 1
       /\ ~d.done /\ ~d.regrown => last.to >= d.mtu - 1
  <2>1. d.found[Len(d.found)] = pdu /\ pdu.to = to /\ ItemAt[Target(d)].size = size
    BY <1>8, <1>11, <1>18 DEF new, size
  <2>2. ATT_MTU_DEFAULT - 1 = 22
    BY DEF ATT_MTU_DEFAULT
  <2> QED
    BY <1>13, <1>14, <1>15, <2>1, <2>2
<1> QED
  BY <1>19, <1>20 DEF Gathered

\* a peer that took its response
After(c, pdu) == [Taken(c, pdu) EXCEPT !.awaits = "none"]

\* What is gathered stays so when the MTU grows, and when the procedure ends with its value
\* whole.
LEMMA GatheredRegrown ==
    ASSUME NEW c, NEW d, NEW registered, Gathered(c, registered), ~c.regrown,
           Target(d) = Target(c), d.procedure = c.procedure, d.found = c.found, d.next = c.next,
           d.done = c.done, d.regrown = ~c.done
    PROVE  Gathered(d, registered)
  BY DEF Gathered

LEMMA GatheredDone ==
    ASSUME NEW c, NEW d, NEW registered, Gathered(c, registered), Target(d) = Target(c),
           d.procedure = c.procedure, d.found = c.found, d.next = c.next, d.done,
           d.regrown = c.regrown,
           c.found = <<>> \/ c.regrown \/ c.found[Len(c.found)].to = ItemAt[Target(c)].size
    PROVE  Gathered(d, registered)
  BY DEF Gathered

\* What a peer at the end of its wait knows of the MTU, and what it has of its procedure.
LEMMA TakenFacts ==
    ASSUME NEW c, NEW registered \in Seq(ServiceId), ClientOK(c), Gathered(c, registered),
           c.awaits # "none", NEW pdu, NEW mtu \in Nat, mtu >= c.mtu, Answers(c, pdu, registered, mtu),
           NEW d, d = After(c, pdu)
    PROVE  /\ ClientOK(d) /\ Gathered(d, registered) /\ d.awaits = "none" /\ d.mtu = mtu
           /\ d.mtu # c.mtu => pdu.op = "exchange_mtu"
<1> USE DEF After
<1>1. /\ c = [f \in Fields |-> c[f]] /\ c.mtu \in Nat /\ c.mtu >= ATT_MTU_DEFAULT /\ c.asked \in Nat
      /\ c.asked = 0 => c.mtu = ATT_MTU_DEFAULT /\ ~c.regrown
      /\ c.awaits = "exchange_mtu" => c.mtu = ATT_MTU_DEFAULT /\ ~c.regrown /\ c.asked # 0
  BY DEF ClientOK
<1>2. /\ c.awaits \in {"exchange_mtu", "write_request", "read_by_group_type", "find_by_type_value",
                       "read_by_type", "find_information", "read", "read_blob", "read_multiple"}
      /\ c.awaits \in {"read", "read_blob"} => c.procedure = "long_read" /\ ~c.done
      /\ c.awaits \in {"read_by_group_type", "find_by_type_value", "read_by_type",
                       "find_information", "read_multiple"} => c.procedure # "long_read"
  BY ResponseOps
<1>3. /\ ResponseTo(c.awaits, pdu)
      /\ c.awaits = "exchange_mtu" =>
           pdu.op = "exchange_mtu" /\ pdu.mtu = mtu /\ mtu = Max({ATT_MTU_DEFAULT, Min({c.asked, mtu})})
      /\ c.awaits # "exchange_mtu" => mtu = c.mtu
      /\ c.awaits \in {"read", "read_blob"} => AnswersRead(c, pdu, registered, mtu)
  BY DEF Answers
<1>4. CASE c.awaits = "exchange_mtu"
  <2>1. pdu.op = "exchange_mtu" /\ mtu = Max({ATT_MTU_DEFAULT, Min({c.asked, pdu.mtu})})
    BY <1>3, <1>4
  <2>2. Taken(c, pdu) = [c EXCEPT !.mtu = Max({ATT_MTU_DEFAULT, Min({c.asked, pdu.mtu})}), !.regrown = ~c.done]
    BY <2>1 DEF Taken
  <2>3. d = [[c EXCEPT !.mtu = mtu, !.regrown = ~c.done] EXCEPT !.awaits = "none"]
    BY <2>1, <2>2
  <2>4. /\ d = [f \in Fields |-> d[f]] /\ d.mtu = mtu /\ d.regrown = ~c.done /\ d.awaits = "none"
        /\ d.procedure = c.procedure /\ d.target = c.target /\ d.next = c.next /\ d.found = c.found
        /\ d.done = c.done /\ d.asked = c.asked
    BY <1>1, <2>3 DEF Fields
  <2>5. ClientOK(d)
    BY <1>1, <1>4, <2>4 DEF ClientOK
  <2>6. Gathered(d, registered)
    <3>1. Target(d) = Target(c) /\ ~c.regrown
      BY <1>1, <1>4, <2>4 DEF Target
    <3> QED
      BY <2>4, <3>1, GatheredRegrown
  <2> QED
    BY <2>1, <2>4, <2>5, <2>6
<1>5. CASE c.awaits # "exchange_mtu" /\ pdu.op = "error"
  <2>1. mtu = c.mtu /\ pdu.request = c.awaits
    BY <1>2, <1>3, <1>5 DEF ResponseTo
  <2>2. PICK done : done = IF c.awaits = "write_request" THEN c.done ELSE TRUE
    OBVIOUS
  <2>3. Taken(c, pdu) = IF pdu.request = "write_request" THEN c ELSE [c EXCEPT !.done = TRUE]
    BY <1>5 DEF Taken
  <2>4. /\ d = [f \in Fields |-> d[f]] /\ d.awaits = "none" /\ d.mtu = c.mtu /\ d.regrown = c.regrown
        /\ d.procedure = c.procedure /\ d.target = c.target /\ d.next = c.next /\ d.found = c.found
        /\ d.asked = c.asked
    <3>1. CASE c.awaits = "write_request"
      BY <1>1, <2>1, <2>3, <3>1 DEF Fields
    <3>2. CASE c.awaits # "write_request"
      BY <1>1, <2>1, <2>3, <3>2 DEF Fields
    <3> QED
      BY <3>1, <3>2
  <2>5. IF c.awaits = "write_request" THEN d.done = c.done ELSE d.done
    <3>1. CASE c.awaits = "write_request"
      BY <1>1, <2>1, <2>3, <3>1 DEF Fields
    <3>2. CASE c.awaits # "write_request"
      BY <1>1, <2>1, <2>3, <3>2 DEF Fields
    <3> QED
      BY <3>1, <3>2
  <2>6. ClientOK(d)
    BY <1>1, <2>4 DEF ClientOK
  <2>7. Gathered(d, registered)
    <3>1. CASE c.awaits = "write_request"
      BY <2>4, <2>5, <3>1, GatheredFrame
    <3>2. CASE c.procedure # "long_read"
      BY <2>4, <3>2 DEF Gathered
    <3>3. CASE c.procedure = "long_read" /\ c.awaits # "write_request"
      <4>1. c.awaits \in {"read", "read_blob"}
        BY <1>2, <1>5, <3>3
      <4>2. c.found = <<>> \/ c.regrown \/ c.found[Len(c.found)].to = ItemAt[Target(c)].size
        BY <1>3, <1>5, <4>1 DEF AnswersRead
      <4>3. Target(d) = Target(c) /\ d.done
        BY <1>1, <2>4, <2>5, <3>3 DEF Target
      <4> QED
        BY <2>4, <3>3, <4>2, <4>3, GatheredDone
    <3> QED
      BY <3>1, <3>2, <3>3
  <2> QED
    BY <2>1, <2>4, <2>6, <2>7
<1>6. CASE c.awaits = "write_request" /\ pdu.op # "error"
  <2>1. mtu = c.mtu /\ pdu.op = "write_request"
    BY <1>3, <1>6 DEF ResponseTo
  <2>2. Taken(c, pdu) = c
    BY <2>1 DEF Taken
  <2>3. /\ d = [f \in Fields |-> d[f]] /\ d.awaits = "none" /\ d.mtu = c.mtu /\ d.regrown = c.regrown
        /\ d.procedure = c.procedure /\ d.target = c.target /\ d.next = c.next /\ d.found = c.found
        /\ d.asked = c.asked /\ d.done = c.done
    BY <1>1, <2>2 DEF Fields
  <2> QED
    BY <1>1, <2>1, <2>3, GatheredFrame DEF ClientOK
<1>7. CASE c.awaits \in {"read", "read_blob"} /\ pdu.op # "error"
  <2>1. mtu = c.mtu /\ pdu.op \in {"read", "read_blob"}
    BY <1>3, <1>7 DEF ResponseTo
  <2>2. Taken(c, pdu) = [c EXCEPT !.found = Append(c.found, pdu), !.next = pdu.to,
                                  !.done = pdu.length < c.mtu]
    BY <2>1 DEF Taken
  <2>3. /\ d = [f \in Fields |-> d[f]] /\ d.awaits = "none" /\ d.mtu = c.mtu /\ d.regrown = c.regrown
        /\ d.procedure = c.procedure /\ d.target = c.target /\ d.next = pdu.to
        /\ d.found = Append(c.found, pdu) /\ d.asked = c.asked
    BY <1>1, <2>2 DEF Fields
  <2>4. d.done = (pdu.length < c.mtu)
    BY <1>1, <2>2 DEF Fields
  <2>5. AnswersRead(c, pdu, registered, c.mtu)
    BY <1>3, <1>7, <2>1
  <2>6. Gathered(d, registered)
    BY <1>7, <2>3, <2>4, <2>5, PartGathered
  <2> QED
    BY <1>1, <2>1, <2>3, <2>6 DEF ClientOK
<1>8. CASE c.awaits \notin {"exchange_mtu", "write_request", "read", "read_blob"} /\ pdu.op # "error"
  <2>1. mtu = c.mtu /\ pdu.op \notin {"exchange_mtu", "write_request", "read", "read_blob", "error"}
    BY <1>3, <1>8 DEF ResponseTo
  <2>2. PICK found, next, done : Taken(c, pdu) = [c EXCEPT !.found = found, !.next = next, !.done = done]
    BY <2>1 DEF Taken
  <2>3. /\ d = [f \in Fields |-> d[f]] /\ d.awaits = "none" /\ d.mtu = c.mtu /\ d.regrown = c.regrown
        /\ d.procedure = c.procedure /\ d.asked = c.asked
    BY <1>1, <2>2 DEF Fields
  <2>4. Gathered(d, registered)
    BY <1>2, <1>8, <2>3 DEF Gathered
  <2> QED
    BY <1>1, <2>1, <2>3, <2>4 DEF ClientOK
<1> QED
  BY <1>4, <1>5, <1>6, <1>7, <1>8

LEMMA ResponseReceived ==
    ASSUME NEW p, NEW c, NEW requests, NEW responses, NEW lost, NEW registered \in Seq(ServiceId),
           NEW mtu, Sound(p, c, requests, responses, lost, registered, mtu), mtu # 0,
           Phase(p, c, requests, responses, lost, registered, mtu),
           responses # <<>>, Head(responses).op \notin Values,
           NEW d, d = After(c, Head(responses))
    PROVE  /\ Sound(p, d, requests, Tail(responses), lost, registered, mtu)
           /\ Phase(p, d, requests, Tail(responses), lost, registered, mtu)
<1> DEFINE n == Len(responses)
           t == Tail(responses)
           pdu == Head(responses)
<1>1. Sequence(responses) /\ ClientOK(c) /\ Gathered(c, registered) /\ mtu \in Nat /\ mtu >= c.mtu
  BY DEF Sound
<1>2. /\ Sequence(t) /\ n \in Nat \ {0} /\ DOMAIN t = 1 .. n - 1 /\ DOMAIN responses = 1 .. n
      /\ \A i \in 1 .. n - 1 : t[i] = responses[i + 1]
  BY <1>1, TailFacts
<1>3. ~AllOf(Values, responses)
  BY <1>1, AllTail
<1>4. Answered(p, c, requests, responses, lost, registered, mtu)
  BY <1>3 DEF Phase, Resting, Asking, Forgotten
<1>5. Answers(c, pdu, registered, mtu) /\ AllOf(Values, t)
  <2>1. PICK x \in ToSet(responses) : AllBut(Values, responses, x) /\ Answers(c, x, registered, mtu)
    BY <1>4 DEF Answered
  <2>2. pdu = x /\ AllOf(Values, t)
    BY <1>1, <2>1, AllTail
  <2> QED
    BY <2>1, <2>2
<1>6. c.awaits # "none" /\ p \notin lost /\ AllOf(Commands, requests)
  BY <1>4 DEF Answered
<1>7. /\ ClientOK(d) /\ Gathered(d, registered) /\ d.awaits = "none" /\ d.mtu = mtu
      /\ d.mtu # c.mtu => pdu.op = "exchange_mtu"
  <2>1. d = After(c, pdu)
    OBVIOUS
  <2> HIDE DEF pdu, t, n
  <2> QED
    BY <1>1, <1>5, <1>6, <2>1, TakenFacts
<1>8. Fits(c, responses, mtu)
  BY <1>6 DEF Sound
<1> HIDE DEF n, t, pdu
<1>9. \A i \in 1 .. n - 1 : i + 1 \in 1 .. n /\ t[i] = responses[i + 1] /\ t[i].op \in Values
  BY <1>2, <1>5 DEF AllOf
<1>10. Fits(d, t, mtu)
  <2>1. ASSUME NEW i \in 1 .. n - 1 PROVE FitsIn(d.mtu, t[i])
    <3>1. FitsIn(c.mtu, t[i]) \/ t[i].length <= mtu
      BY <1>2, <1>8, <1>9 DEF Fits
    <3>2. t[i].op # "read_by_type"
      BY <1>9 DEF Values
    <3>3. t[i].length \in Nat /\ c.mtu \in Nat
      BY <1>1, <1>2, <1>9 DEF Sound, ClientOK
    <3>4. t[i].length <= mtu
      BY <1>1, <3>1, <3>2, <3>3 DEF FitsIn
    <3> QED
      BY <1>7, <3>4 DEF FitsIn
  <2> QED
    BY <1>2, <2>1 DEF Fits
<1>11. Sound(p, d, requests, t, lost, registered, mtu)
  <2>1. \A i \in DOMAIN t : t[i].length \in Nat
    BY <1>2, <1>9 DEF Sound
  <2> QED
    BY <1>1, <1>2, <1>7, <1>10, <2>1 DEF Sound
<1>12. Phase(p, d, requests, t, lost, registered, mtu)
  BY <1>5, <1>6, <1>7 DEF Phase, Resting
<1> QED
  BY <1>11, <1>12 DEF t

-----------------------------------------------------------------------------
(* The answers to the requests that ask for one attribute.                  *)

LEMMA ErrorFacts ==
    ASSUME NEW request, NEW h, NEW code
    PROVE  LET pdu == gatt_send_error_resp(request, h, code) IN
           pdu.op = "error" /\ pdu.request = request /\ pdu.length = 5
  BY DEF gatt_send_error_resp

LEMMA PartFacts ==
    ASSUME NEW op, NEW item \in ItemsOf, NEW from \in Nat, from <= item.size,
           NEW mtu \in Nat, mtu >= ATT_MTU_DEFAULT
    PROVE  LET pdu == Part(op, item, from, mtu) IN
           pdu.op = op /\ pdu.length \in Nat /\ pdu.length <= mtu
<1> DEFINE to == Min({item.size, from + mtu - 1})
<1>1. item.size \in Nat
  <2>1. item.size \in {0, 1, 2, 4, 5, 32}
    BY ItemFacts
  <2> QED
    BY <2>1
<1>2. from + mtu - 1 \in Nat
  BY DEF ATT_MTU_DEFAULT
<1>3. to = IF item.size <= from + mtu - 1 THEN item.size ELSE from + mtu - 1
  BY <1>1, <1>2, MinOfTwo
<1>4. Part(op, item, from, mtu).op = op /\ Part(op, item, from, mtu).length = 1 + to - from
  BY DEF Part
<1> HIDE DEF to
<1>5. 1 + to - from \in Nat /\ 1 + to - from <= mtu
  BY <1>1, <1>2, <1>3 DEF ATT_MTU_DEFAULT
<1> QED
  BY <1>4, <1>5

\* A read is answered with the start of the value, or refused.
LEMMA ReadAnswers ==
    ASSUME NEW p, services \in Seq(ServiceId), NEW c, ClientOK(c), c.awaits = "read",
           att_mtu[p] = c.mtu, NEW r, r = Request(c)
    PROVE  LET pdu == ReadAnswer(p, r.handle) IN
           Answers(c, pdu, services, c.mtu) /\ pdu.length \in Nat /\ pdu.length <= c.mtu
<1> DEFINE h == r.handle
           found == Lookup(services, h)
           item == CHOOSE i \in found : TRUE
           code == CheckReadPermission(p, item)
           pdu == ReadAnswer(p, h)
<1>1. h = Target(c) /\ c.found = <<>> /\ c.mtu \in Nat /\ c.mtu >= ATT_MTU_DEFAULT
  <2>1. r.op = "read"
    BY DEF ClientOK
  <2> QED
    BY <2>1, RequestOps DEF ClientOK
<1>2. pdu = IF found = {} THEN gatt_send_error_resp("read", h, "invalid_handle")
            ELSE IF code # "none" THEN gatt_send_error_resp("read", h, code)
            ELSE Part("read", item, 0, att_mtu[p])
  BY DEF ReadAnswer
<1>3. CASE found = {} \/ code # "none"
  <2>1. PICK e : pdu = gatt_send_error_resp("read", h, e)
    BY <1>2, <1>3
  <2>2. pdu.op = "error" /\ pdu.request = "read" /\ pdu.length = 5
    BY <2>1, ErrorFacts
  <2> HIDE DEF pdu
  <2>3. pdu.length \in Nat /\ pdu.length <= c.mtu
    BY <1>1, <2>2 DEF ATT_MTU_DEFAULT
  <2>4. Answers(c, pdu, services, c.mtu)
    BY <1>1, <2>2 DEF Answers, AnswersRead, ResponseTo
  <2> QED
    BY <2>3, <2>4 DEF pdu
<1>4. CASE found # {} /\ ~(code # "none")
  <2>1. pdu = Part("read", item, 0, c.mtu)
    BY <1>2, <1>4
  <2>2. item \in found
    BY <1>4
  <2>3. item = ItemAt[h] /\ item \in ItemsOf
    BY <2>2, LookupItem
  <2>4. item.size \in Nat
    <3>1. item.size \in {0, 1, 2, 4, 5, 32}
      BY <2>3, ItemFacts
    <3> QED
      BY <3>1
  <2>5. pdu.op = "read" /\ pdu.length \in Nat /\ pdu.length <= c.mtu
    BY <1>1, <2>1, <2>3, <2>4, PartFacts
  <2>6. found # {} /\ found = Lookup(services, Target(c)) /\ item = ItemAt[Target(c)]
    BY <1>1, <1>4, <2>3
  <2>7. Position(c) = 0
    BY <1>1 DEF Position
  <2> HIDE DEF pdu, found, item
  <2>8. AnswersRead(c, pdu, services, c.mtu)
    BY <2>1, <2>4, <2>5, <2>6, <2>7 DEF AnswersRead
  <2>9. Answers(c, pdu, services, c.mtu)
    BY <2>5, <2>8 DEF Answers, ResponseTo
  <2> QED
    BY <2>5, <2>9 DEF pdu
<1> QED
  BY <1>3, <1>4

\* A blob is the next part of the value, or is refused when there is no next part.
LEMMA BlobAnswers ==
    ASSUME NEW p, services \in Seq(ServiceId), NEW c, ClientOK(c), c.awaits = "read_blob",
           Gathered(c, services), att_mtu[p] = c.mtu, NEW r, r = Request(c)
    PROVE  LET pdu == BlobAnswer(p, r.handle, r.offset) IN
           Answers(c, pdu, services, c.mtu) /\ pdu.length \in Nat /\ pdu.length <= c.mtu
<1> DEFINE h == r.handle
           offset == r.offset
           found == Lookup(services, h)
           item == CHOOSE i \in found : TRUE
           size == item.size
           last == c.found[Len(c.found)]
           code == CASE found = {} -> "invalid_handle"
                     [] found # {} /\ CheckReadPermission(p, item) # "none" -> CheckReadPermission(p, item)
                     [] OTHER -> IF item.size < offset THEN "invalid_offset"
                                 ELSE IF item.size <= att_mtu[p] - 1 THEN "attribute_not_long"
                                 ELSE "none"
           pdu == BlobAnswer(p, h, offset)
<1>1. /\ h = Target(c) /\ c.found # <<>> /\ offset = c.next
      /\ c.mtu \in Nat /\ c.mtu >= 23 /\ ~c.done /\ c.procedure = "long_read"
  <2>1. r.op = "read_blob" /\ ~c.done
    BY DEF ClientOK
  <2> QED
    BY <2>1, RequestOps DEF ClientOK, ATT_MTU_DEFAULT
<1>2. pdu = IF code = "none" THEN Part("read_blob", item, offset, att_mtu[p])
            ELSE gatt_send_error_resp("read_blob", h, code)
  BY DEF BlobAnswer
<1>3. /\ found # {} /\ c.next = last.to /\ last.to \in Nat /\ last.to <= ItemAt[h].size
      /\ last.to >= 22 /\ (c.regrown \/ last.to >= c.mtu - 1)
  <2>1. ATT_MTU_DEFAULT - 1 = 22
    BY DEF ATT_MTU_DEFAULT
  <2> QED
    BY <1>1, <2>1 DEF Gathered
<1>4. item \in found
  BY <1>3
<1>5. item = ItemAt[h] /\ item \in ItemsOf
  BY <1>4, LookupItem
<1>6. size \in Nat /\ ("read_authenticate" \in item.permission => size = 1)
  <2>1. item.size \in {0, 1, 2, 4, 5, 32}
    BY <1>5, ItemFacts
  <2>2. size \in Nat
    BY <2>1
  <2> QED
    BY <1>5, <2>2, ItemFacts
<1>7. size >= 22 /\ offset <= size /\ offset \in Nat
  <2>1. PICK to, whole : to = last.to /\ whole = size
    OBVIOUS
  <2>2. to \in Nat /\ to <= whole /\ to >= 22 /\ offset = to /\ whole \in Nat
    BY <1>1, <1>3, <1>5, <1>6, <2>1
  <2>3. whole >= 22
    BY <2>2
  <2> QED
    BY <2>1, <2>2, <2>3
<1>8. CheckReadPermission(p, item) = "none"
  <2>1. size # 1
    BY <1>6, <1>7
  <2> QED
    BY <1>6, <2>1 DEF CheckReadPermission
<1>9. code = IF size <= c.mtu - 1 THEN "attribute_not_long" ELSE "none"
  <2>1. ~(size < offset)
    BY <1>6, <1>7
  <2> QED
    BY <1>3, <1>8, <2>1
<1>10. CASE code # "none"
  <2>1. pdu = gatt_send_error_resp("read_blob", h, code) /\ size <= c.mtu - 1
    BY <1>2, <1>9, <1>10
  <2>2. pdu.op = "error" /\ pdu.request = "read_blob" /\ pdu.length = 5
    BY <2>1, ErrorFacts
  <2>3. c.regrown \/ last.to = size
    <3>1. PICK to, whole : to = last.to /\ whole = size
      OBVIOUS
    <3>2. to \in Nat /\ to <= whole /\ whole \in Nat /\ (c.regrown \/ to >= c.mtu - 1) /\ whole <= c.mtu - 1
      BY <1>3, <1>5, <1>6, <2>1, <3>1
    <3>3. c.regrown \/ to = whole
      BY <1>1, <3>2
    <3> QED
      BY <3>1, <3>3
  <2>4. ItemAt[Target(c)].size = size
    BY <1>1, <1>5
  <2> HIDE DEF pdu, size
  <2>5. pdu.length \in Nat /\ pdu.length <= c.mtu
    BY <1>1, <2>2
  <2>6. Answers(c, pdu, services, c.mtu)
    BY <1>1, <2>2, <2>3, <2>4 DEF Answers, AnswersRead, ResponseTo
  <2> QED
    BY <2>5, <2>6 DEF pdu
<1>11. CASE code = "none"
  <2>1. pdu = Part("read_blob", item, offset, c.mtu)
    BY <1>2, <1>11
  <2>2. Position(c) = offset
    BY <1>1 DEF Position
  <2>3. found # {} /\ found = Lookup(services, Target(c)) /\ item = ItemAt[Target(c)]
    BY <1>1, <1>3, <1>5
  <2>4. pdu.op = "read_blob" /\ pdu.length \in Nat /\ pdu.length <= c.mtu
    BY <1>1, <1>5, <1>7, <2>1, PartFacts DEF ATT_MTU_DEFAULT
  <2>5. offset <= item.size
    BY <1>7
  <2> HIDE DEF pdu, found, item, size, offset, code
  <2>6. AnswersRead(c, pdu, services, c.mtu)
    BY <1>7, <2>1, <2>2, <2>3, <2>4, <2>5 DEF AnswersRead
  <2>7. Answers(c, pdu, services, c.mtu)
    BY <2>4, <2>6 DEF Answers, ResponseTo
  <2>8. Answers(c, pdu, services, c.mtu) /\ pdu.length \in Nat /\ pdu.length <= c.mtu
    BY <2>4, <2>7
  <2> QED
    BY <2>8 DEF pdu, offset
<1> QED
  BY <1>10, <1>11

-----------------------------------------------------------------------------
(* Sending.                                                                 *)

LEMMA Division ==
    ASSUME NEW n \in Nat, NEW d \in Nat \ {0}
    PROVE  n \div d \in Nat /\ (n \div d) * d <= n /\ n < (n \div d) * d + d
<1> DEFINE q == n \div d
<1>1. q \in Int
  OBVIOUS
<1>2. q * d <= n /\ n < q * d + d
  OBVIOUS
<1> HIDE DEF q
<1>3. q >= 0
  BY <1>1, <1>2
<1> QED
  BY <1>1, <1>2, <1>3 DEF q

LEMMA Times ==
    ASSUME NEW a \in Nat, NEW b \in Nat, a <= b, NEW d \in Nat
    PROVE  a * d \in Nat /\ b * d \in Nat /\ a * d <= b * d
  OBVIOUS

LEMMA PacketsFacts ==
    ASSUME le_acl_packet_length \in Nat \ {0}, NEW length \in Nat
    PROVE  Packets(length) \in Nat \ {0}
<1> DEFINE size == le_acl_packet_length
           n == length + L2CAP_LENGTH_HEADER + size - 1
<1>1. n \in Nat /\ size \in Nat \ {0} /\ n >= size
  BY DEF L2CAP_LENGTH_HEADER
<1>2. Packets(length) = n \div size
  BY DEF Packets
<1> HIDE DEF n, size
<1> DEFINE q == n \div size
<1>3. q \in Nat /\ n < q * size + size
  BY <1>1, Division
<1> HIDE DEF q
<1>4. q # 0
  BY <1>1, <1>3
<1> QED
  BY <1>2, <1>3, <1>4 DEF q

\* PDUs are sent from the first on while credits last.
Sent(p, pdus) ==
    /\ credits' \in Nat /\ unreported' \in Nat /\ DOMAIN toClient' = Peer
    /\ \A q \in Peer \ {p} : toClient'[q] = toClient[q]
    /\ \E n \in 0 .. Len(pdus) :
         /\ toClient'[p] = toClient[p] \o SubSeq(pdus, 1, n)
         /\ unheard' = IF n < Len(pdus) /\ IsResponse(pdus[1]) THEN unheard \cup {p} ELSE unheard

LEMMA SendFacts ==
    ASSUME Shape, NEW p \in Peer, NEW pdus, Sequence(pdus), Len(pdus) \in Nat \ {0},
           pdus[1].length \in Nat, pdus[Len(pdus)].length \in Nat, att_send(p, pdus)
    PROVE  Sent(p, pdus)
<1> DEFINE need  == Packets(pdus[1].length)
           last  == Packets(pdus[Len(pdus)].length)
           total == (Len(pdus) - 1) * need + last
           sent  == IF total <= credits THEN Len(pdus) ELSE Min({Len(pdus) - 1, credits \div need})
           cost  == Min({credits, total})
<1>1. need \in Nat \ {0} /\ last \in Nat /\ credits \in Nat /\ unreported \in Nat
  BY PacketsFacts DEF Shape
<1>2. /\ toClient' = [toClient EXCEPT ![p] = toClient[p] \o SubSeq(pdus, 1, sent)]
      /\ credits' = credits - cost
      /\ unreported' = IF sent = Len(pdus) THEN unreported ELSE unreported + (cost - sent * need)
      /\ unheard' = IF sent < Len(pdus) /\ IsResponse(pdus[1]) THEN unheard \cup {p} ELSE unheard
  BY DEF att_send, Last
<1> HIDE DEF need, last
<1> PICK len \in Nat \ {0} : len = Len(pdus)
  OBVIOUS
<1> DEFINE q == credits \div need
<1>3. q \in Nat /\ q * need <= credits
  BY <1>1, Division
<1>4. total \in Nat
  BY <1>1
<1>5. cost = IF credits <= total THEN credits ELSE total
  BY <1>1, <1>4, MinOfTwo
<1> HIDE DEF total, cost
<1>6. ASSUME total <= credits
      PROVE  sent \in 0 .. Len(pdus) /\ credits' \in Nat /\ unreported' \in Nat
  <2>1. sent = len
    BY <1>6
  <2>2. cost \in Nat /\ cost <= credits
    BY <1>1, <1>4, <1>5
  <2>3. sent \in 0 .. Len(pdus) /\ credits' \in Nat /\ unreported' \in Nat
    BY <1>1, <1>2, <2>1, <2>2
  <2> QED
    BY <2>3
<1>7. ASSUME ~(total <= credits)
      PROVE  sent \in 0 .. Len(pdus) /\ credits' \in Nat /\ unreported' \in Nat
  <2>1. len - 1 \in Nat
    OBVIOUS
  <2>2. sent = Min({len - 1, q})
    BY <1>7
  <2>3. Min({len - 1, q}) = IF len - 1 <= q THEN len - 1 ELSE q
    BY <1>3, <2>1, MinOfTwo
  <2> HIDE DEF q, sent
  <2>4. sent \in Nat /\ sent <= len - 1 /\ sent <= q
    BY <1>3, <2>1, <2>2, <2>3
  <2>5. sent * need \in Nat /\ sent * need <= q * need /\ q * need \in Nat
    BY <1>1, <1>3, <2>4, Times
  <2>6. cost = credits
    BY <1>1, <1>4, <1>5, <1>7
  <2>7. cost - sent * need \in Nat /\ credits - cost \in Nat
    BY <1>1, <1>3, <2>5, <2>6
  <2>8. sent \in 0 .. Len(pdus) /\ credits' \in Nat /\ unreported' \in Nat
    BY <1>1, <1>2, <2>4, <2>7
  <2> QED
    BY <2>8 DEF sent
<1> HIDE DEF sent
<1>8. sent \in 0 .. Len(pdus) /\ credits' \in Nat /\ unreported' \in Nat
  BY <1>6, <1>7
<1>9. /\ DOMAIN toClient' = Peer /\ \A r \in Peer \ {p} : toClient'[r] = toClient[r]
      /\ toClient'[p] = toClient[p] \o SubSeq(pdus, 1, sent)
  BY <1>2 DEF Shape
<1> QED
  BY <1>2, <1>8, <1>9 DEF Sent

\* A single PDU is sent or dropped; the peer of a response that was dropped is not heard.
LEMMA ReplyFacts ==
    ASSUME Shape, NEW p \in Peer, Sequence(toClient[p]), NEW pdu, pdu.length \in Nat, Reply(p, pdu)
    PROVE  /\ credits' \in Nat /\ unreported' \in Nat /\ DOMAIN toClient' = Peer /\ crash' = crash
           /\ \A q \in Peer \ {p} : toClient'[q] = toClient[q]
           /\ \/ toClient'[p] = Append(toClient[p], pdu) /\ unheard' = unheard
              \/ toClient'[p] = toClient[p]
                 /\ unheard' = IF IsResponse(pdu) THEN unheard \cup {p} ELSE unheard
<1> PICK one : one = <<pdu>>
  OBVIOUS
<1>1. one \in Seq({pdu}) /\ Sequence(one) /\ Len(one) = 1 /\ one[1] = pdu /\ one[Len(one)] = pdu
  <2>1. one \in Seq({pdu}) /\ Len(one) = 1 /\ one[1] = pdu
    OBVIOUS
  <2> QED
    BY <2>1, SequenceOf
<1>2. att_send(p, one) /\ crash' = crash
  BY DEF Reply
<1>3. Sent(p, one)
  <2>1. Len(one) \in Nat \ {0} /\ one[1].length \in Nat /\ one[Len(one)].length \in Nat
    BY <1>1
  <2> QED
    BY <1>1, <1>2, <2>1, SendFacts
<1>4. PICK n \in 0 .. 1 :
         /\ toClient'[p] = toClient[p] \o SubSeq(one, 1, n)
         /\ unheard' = IF n < 1 /\ IsResponse(pdu) THEN unheard \cup {p} ELSE unheard
  BY <1>1, <1>3 DEF Sent
<1>5. toClient[p] \o <<>> = toClient[p] /\ toClient[p] \o one = Append(toClient[p], pdu)
  <2> PICK q : q = toClient[p]
    OBVIOUS
  <2> DEFINE S == ToSet(q) \cup {pdu}
  <2>1. q \in Seq(S) /\ pdu \in S
    BY SeqMonotonic DEF Sequence
  <2> HIDE DEF S
  <2>2. q \o <<>> = q /\ Append(q, pdu) = q \o <<pdu>>
    BY <2>1, ConcatEmptySeq, AppendIsConcat
  <2> QED
    BY <2>2
<1>6. SubSeq(one, 1, 0) = <<>> /\ SubSeq(one, 1, 1) = one
  <2>1. SubSeq(one, 1, 1) = one
    BY <1>1, SubSeqFull
  <2>2. SubSeq(one, 1, 0) = <<>>
    BY SubSeqEmpty
  <2> QED
    BY <2>1, <2>2
<1>7. CASE n = 0
  <2>1. toClient'[p] = toClient[p]
    BY <1>4, <1>5, <1>6, <1>7
  <2>2. unheard' = IF IsResponse(pdu) THEN unheard \cup {p} ELSE unheard
    BY <1>4, <1>7
  <2> QED
    BY <1>2, <1>3, <2>1, <2>2 DEF Sent
<1>8. CASE n = 1
  <2>1. toClient'[p] = Append(toClient[p], pdu)
    BY <1>4, <1>5, <1>6, <1>8
  <2>2. unheard' = unheard
    BY <1>4, <1>8
  <2> QED
    BY <1>2, <1>3, <2>1, <2>2 DEF Sent
<1> QED
  BY <1>7, <1>8

-----------------------------------------------------------------------------
(* The steps.                                                               *)

\* what a step of a peer, or of the server for it, leaves to the others
Spares(p) ==
    /\ services' = services /\ le_acl_packet_length' = le_acl_packet_length
    /\ DOMAIN att_mtu' = Peer /\ DOMAIN toServer' = Peer /\ DOMAIN toClient' = Peer /\ DOMAIN client' = Peer
    /\ credits' \in Nat /\ unreported' \in Nat
    /\ \A q \in Peer \ {p} :
         /\ att_mtu'[q] = att_mtu[q] /\ toServer'[q] = toServer[q] /\ toClient'[q] = toClient[q]
         /\ client'[q] = client[q] /\ (q \in unheard' <=> q \in unheard)

LEMMA LostFrame ==
    ASSUME NEW p, NEW c, NEW requests, NEW responses, NEW lost, NEW registered, NEW mtu,
           NEW other, p \in other <=> p \in lost
    PROVE  /\ Sound(p, c, requests, responses, lost, registered, mtu) =>
                Sound(p, c, requests, responses, other, registered, mtu)
           /\ Phase(p, c, requests, responses, lost, registered, mtu) =>
                Phase(p, c, requests, responses, other, registered, mtu)
<1>1. Sound(p, c, requests, responses, lost, registered, mtu) =>
         Sound(p, c, requests, responses, other, registered, mtu)
  BY DEF Sound
<1>2. Phase(p, c, requests, responses, lost, registered, mtu) =>
         Phase(p, c, requests, responses, other, registered, mtu)
  BY DEF Phase, Resting, Asking, Answered, Forgotten
<1> QED
  BY <1>1, <1>2

LEMMA PeerSteps ==
    ASSUME IInv, Runs, NEW p \in Peer, Spares(p), PeerSound(p)', PeerInStep(p)'
    PROVE  IInv'
<1>1. Shape'
  BY DEF IInv, Shape, Spares
<1>2. ASSUME NEW q \in Peer, q # p PROVE PeerSound(q)' /\ PeerInStep(q)'
  <2>1. /\ att_mtu'[q] = att_mtu[q] /\ toServer'[q] = toServer[q] /\ toClient'[q] = toClient[q]
        /\ client'[q] = client[q] /\ (q \in unheard' <=> q \in unheard) /\ services' = services
    BY <1>2 DEF Spares
  <2>2. PeerSound(q)'
    <3>1. Sound(q, client[q], toServer[q], toClient[q], unheard', services, att_mtu[q])
      BY <2>1, LostFrame DEF IInv, PeerSound
    <3> QED
      BY <2>1, <3>1 DEF PeerSound
  <2>3. PeerInStep(q)'
    <3>1. att_mtu[q] # 0 =>
             Phase(q, client[q], toServer[q], toClient[q], unheard', services, att_mtu[q])
      BY <2>1, LostFrame DEF IInv, PeerInStep
    <3> QED
      BY <2>1, <3>1 DEF PeerInStep
  <2> QED
    BY <2>2, <2>3
<1> QED
  BY <1>1, <1>2 DEF IInv

\* A PDU taken from the connection.
LEMMA ReceiveFacts ==
    ASSUME IInv, NEW p \in Peer, NEW op, Receive(p, op)
    PROVE  /\ Runs /\ services' = services /\ le_acl_packet_length' = le_acl_packet_length
           /\ client' = client /\ DOMAIN client = Peer
           /\ toServer[p] # <<>> /\ Head(toServer[p]).op = op
           /\ toServer'[p] = Tail(toServer[p]) /\ DOMAIN toServer' = Peer
           /\ \A q \in Peer \ {p} : toServer'[q] = toServer[q]
           /\ Sound(p, client[p], toServer[p], toClient[p], unheard, services, att_mtu[p])
           /\ Sound(p, client[p], Tail(toServer[p]), toClient[p], unheard, services, att_mtu[p])
           /\ att_mtu[p] \in Nat /\ att_mtu[p] # 0 /\ att_mtu[p] >= ATT_MTU_DEFAULT
           /\ Sequence(toServer[p]) /\ Sequence(toClient[p])
           /\ Phase(p, client[p], toServer[p], toClient[p], unheard, services, att_mtu[p])
<1>1. /\ Runs /\ services' = services /\ le_acl_packet_length' = le_acl_packet_length
      /\ client' = client /\ toServer[p] # <<>> /\ Head(toServer[p]).op = op
      /\ toServer' = [toServer EXCEPT ![p] = Tail(toServer[p])]
  BY DEF Receive
<1>2. /\ toServer'[p] = Tail(toServer[p]) /\ DOMAIN toServer' = Peer /\ DOMAIN client = Peer
      /\ \A q \in Peer \ {p} : toServer'[q] = toServer[q]
  BY <1>1 DEF IInv, Shape
<1>3. Sound(p, client[p], toServer[p], toClient[p], unheard, services, att_mtu[p])
  BY DEF IInv, PeerSound
<1>4. /\ Sound(p, client[p], Tail(toServer[p]), toClient[p], unheard, services, att_mtu[p])
      /\ att_mtu[p] \in Nat /\ att_mtu[p] # 0 /\ client[p].mtu \in Nat
      /\ client[p].mtu >= ATT_MTU_DEFAULT /\ att_mtu[p] >= client[p].mtu
      /\ Sequence(toServer[p]) /\ Sequence(toClient[p])
  BY <1>1, <1>3, SoundTaken
<1>5. Phase(p, client[p], toServer[p], toClient[p], unheard, services, att_mtu[p])
  BY <1>1, <1>4 DEF IInv, PeerInStep
<1>6. att_mtu[p] >= ATT_MTU_DEFAULT
  BY <1>4 DEF ATT_MTU_DEFAULT
<1> QED
  BY <1>1, <1>2, <1>3, <1>4, <1>5, <1>6

\* the request is the one its peer waits for, and the MTUs agree
LEMMA RequestFacts ==
    ASSUME IInv, NEW p \in Peer, NEW op, Receive(p, op), op \notin Commands
    PROVE  /\ client[p].awaits = op /\ op # "none" /\ client[p].mtu = att_mtu[p] /\ p \notin unheard
           /\ AllOf(Commands, Tail(toServer[p])) /\ AllOf(Values, toClient[p])
           /\ op = "exchange_mtu" => Head(toServer[p]).mtu = client[p].asked
           /\ op \notin {"exchange_mtu", "write_request"} => Head(toServer[p]) = Request(client[p])
           /\ ClientOK(client[p]) /\ Gathered(client[p], services) /\ services \in Seq(ServiceId)
<1>1. /\ toServer[p] # <<>> /\ Head(toServer[p]).op = op /\ Sequence(toServer[p])
      /\ Sound(p, client[p], toServer[p], toClient[p], unheard, services, att_mtu[p])
      /\ Phase(p, client[p], toServer[p], toClient[p], unheard, services, att_mtu[p])
  BY ReceiveFacts
<1>2. /\ client[p].awaits # "none" /\ client[p].mtu = att_mtu[p] /\ p \notin unheard
      /\ AllOf(Commands, Tail(toServer[p])) /\ AllOf(Values, toClient[p])
      /\ Matches(client[p], Head(toServer[p]))
  BY <1>1, RequestTaken
<1>3. services \in Seq(ServiceId)
  BY DEF IInv, Shape
<1> QED
  BY <1>1, <1>2, <1>3 DEF Matches, Sound

\* A request is taken and answered.
LEMMA ResponseStep ==
    ASSUME IInv, NEW p \in Peer, NEW op, op \notin Commands, Receive(p, op), NEW pdu, Reply(p, pdu),
           DOMAIN att_mtu' = Peer, \A q \in Peer \ {p} : att_mtu'[q] = att_mtu[q],
           att_mtu'[p] \in Nat, att_mtu'[p] >= client[p].mtu,
           Answers(client[p], pdu, services, att_mtu'[p]), pdu.length \in Nat, FitsIn(client[p].mtu, pdu)
    PROVE  IInv'
<1> PICK c, new : c = client[p] /\ new = att_mtu'[p]
  OBVIOUS
<1>1. /\ Runs /\ services' = services /\ le_acl_packet_length' = le_acl_packet_length
      /\ client' = client /\ DOMAIN client = Peer
      /\ toServer'[p] = Tail(toServer[p]) /\ DOMAIN toServer' = Peer
      /\ \A q \in Peer \ {p} : toServer'[q] = toServer[q]
      /\ Sound(p, c, Tail(toServer[p]), toClient[p], unheard, services, att_mtu[p])
      /\ att_mtu[p] # 0 /\ Sequence(toClient[p])
  BY ReceiveFacts
<1>2. /\ c.awaits # "none" /\ p \notin unheard
      /\ AllOf(Commands, Tail(toServer[p])) /\ AllOf(Values, toClient[p]) /\ ClientOK(c)
  BY RequestFacts
<1>3. pdu.op \notin Values /\ IsResponse(pdu)
  <2>1. ResponseTo(c.awaits, pdu)
    BY DEF Answers
  <2>2. pdu.op \notin Values
    BY <1>2, <2>1, ResponseOps
  <2> QED
    BY <2>2 DEF IsResponse, Values
<1>4. /\ credits' \in Nat /\ unreported' \in Nat /\ DOMAIN toClient' = Peer /\ crash' = crash
      /\ \A q \in Peer \ {p} : toClient'[q] = toClient[q]
      /\ \/ toClient'[p] = Append(toClient[p], pdu) /\ unheard' = unheard
         \/ toClient'[p] = toClient[p] /\ unheard' = unheard \cup {p}
  <2>1. Shape
    BY DEF IInv
  <2> QED
    BY <1>1, <1>3, <2>1, ReplyFacts
<1>5. /\ Sound(p, c, Tail(toServer[p]), Append(toClient[p], pdu), unheard, services, new)
      /\ Phase(p, c, Tail(toServer[p]), Append(toClient[p], pdu), unheard, services, new)
      /\ Sound(p, c, Tail(toServer[p]), toClient[p], unheard \cup {p}, services, new)
      /\ Phase(p, c, Tail(toServer[p]), toClient[p], unheard \cup {p}, services, new)
  BY <1>1, <1>2, <1>3, ResponseSent
<1>6. Spares(p)
  BY <1>1, <1>4 DEF Spares
<1>7. PeerSound(p)'
  <2>1. CASE toClient'[p] = Append(toClient[p], pdu) /\ unheard' = unheard
    BY <1>1, <1>5, <2>1 DEF PeerSound
  <2>2. CASE toClient'[p] = toClient[p] /\ unheard' = unheard \cup {p}
    BY <1>1, <1>5, <2>2 DEF PeerSound
  <2> QED
    BY <1>4, <2>1, <2>2
<1>8. PeerInStep(p)'
  <2>1. CASE toClient'[p] = Append(toClient[p], pdu) /\ unheard' = unheard
    BY <1>1, <1>5, <2>1 DEF PeerInStep
  <2>2. CASE toClient'[p] = toClient[p] /\ unheard' = unheard \cup {p}
    BY <1>1, <1>5, <2>2 DEF PeerInStep
  <2> QED
    BY <1>4, <2>1, <2>2
<1> QED
  BY <1>1, <1>6, <1>7, <1>8, PeerSteps

\* The MTU stays, and only the answers to a long read are more than answers.
LEMMA AnswerStep ==
    ASSUME IInv, NEW p \in Peer, NEW op, op \notin Commands \cup {"exchange_mtu"}, Receive(p, op),
           NEW pdu, Reply(p, pdu), att_mtu' = att_mtu,
           ResponseTo(op, pdu), pdu.length \in Nat, FitsIn(att_mtu[p], pdu),
           op \in {"read", "read_blob"} => Answers(client[p], pdu, services, client[p].mtu)
    PROVE  IInv'
<1>1. client[p].awaits = op /\ client[p].mtu = att_mtu[p]
  BY RequestFacts
<1>2. Answers(client[p], pdu, services, att_mtu[p])
  <2>1. CASE op \in {"read", "read_blob"}
    BY <1>1, <2>1
  <2>2. CASE op \notin {"read", "read_blob"}
    BY <1>1, <2>2 DEF Answers
  <2> QED
    BY <2>1, <2>2
<1>3. DOMAIN att_mtu' = Peer /\ att_mtu[p] \in Nat
  BY ReceiveFacts DEF IInv, Shape
<1> PICK n : n = att_mtu[p]
  OBVIOUS
<1>4. att_mtu'[p] = n /\ n \in Nat /\ n >= client[p].mtu
  BY <1>1, <1>3
<1> QED
  BY <1>1, <1>2, <1>3, <1>4, ResponseStep

\* A PDU is taken that asks for no answer, or that the server does not know.
LEMMA SilentStep ==
    ASSUME IInv, NEW p \in Peer, NEW op, op \in Commands \cup {"read_multiple"}, Receive(p, op),
           att_mtu' = att_mtu, Silent
    PROVE  IInv'
<1> PICK c, n : c = client[p] /\ n = att_mtu[p]
  OBVIOUS
<1>1. /\ Runs /\ services' = services /\ le_acl_packet_length' = le_acl_packet_length
      /\ client' = client /\ DOMAIN client = Peer
      /\ toServer[p] # <<>> /\ Head(toServer[p]).op = op /\ Sequence(toServer[p])
      /\ toServer'[p] = Tail(toServer[p]) /\ DOMAIN toServer' = Peer
      /\ \A q \in Peer \ {p} : toServer'[q] = toServer[q]
      /\ Sound(p, c, Tail(toServer[p]), toClient[p], unheard, services, n)
      /\ Phase(p, c, toServer[p], toClient[p], unheard, services, n)
  BY ReceiveFacts
<1>2. toClient' = toClient /\ credits' = credits /\ unreported' = unreported /\ unheard' = unheard
  BY DEF Silent, aclVars
<1>3. Phase(p, c, Tail(toServer[p]), toClient[p], unheard, services, n)
  BY <1>1, CommandTaken
<1>4. Spares(p)
  BY <1>1, <1>2 DEF Spares, IInv, Shape
<1>5. PeerSound(p)'
  BY <1>1, <1>2 DEF PeerSound
<1>6. PeerInStep(p)'
  BY <1>1, <1>2, <1>3 DEF PeerInStep
<1> QED
  BY <1>1, <1>4, <1>5, <1>6, PeerSteps

LEMMA NegotiatedFacts ==
    ASSUME le_acl_packet_length \in Nat \ {0}, NEW asked \in Nat
    PROVE  LET mtu == Negotiated(asked) IN
           mtu \in Nat /\ mtu >= ATT_MTU_DEFAULT /\ mtu = Max({ATT_MTU_DEFAULT, Min({asked, mtu})})
<1> DEFINE most == (le_acl_packet_length + 65536 - L2CAP_LENGTH_HEADER) % 65536
           mtu == Negotiated(asked)
<1>1. most \in Nat
  BY DEF L2CAP_LENGTH_HEADER
<1>2. mtu = Max({Min({most, asked}), 23})
  BY DEF Negotiated, ATT_MTU_DEFAULT
<1> HIDE DEF most, mtu
<1>3. PICK m : m = Min({most, asked})
  OBVIOUS
<1>4. m = IF most <= asked THEN most ELSE asked
  BY <1>1, <1>3, MinOfTwo
<1>5. m \in Nat /\ m <= asked
  BY <1>1, <1>4
<1>6. mtu = IF m >= 23 THEN m ELSE 23
  BY <1>2, <1>3, <1>5, MaxOfTwo
<1>7. mtu \in Nat /\ mtu >= 23
  BY <1>5, <1>6
<1>8. PICK k : k = Min({asked, mtu})
  OBVIOUS
<1>9. k = IF asked <= mtu THEN asked ELSE mtu
  BY <1>7, <1>8, MinOfTwo
<1>10. k \in Nat
  BY <1>7, <1>9
<1>11. Max({23, k}) = IF 23 >= k THEN 23 ELSE k
  BY <1>10, MaxOfTwo
<1>12. mtu = IF 23 >= k THEN 23 ELSE k
  BY <1>5, <1>6, <1>9, <1>10
<1>13. mtu = Max({23, Min({asked, mtu})})
  BY <1>8, <1>11, <1>12
<1> QED
  BY <1>7, <1>13 DEF mtu, ATT_MTU_DEFAULT

LEMMA ExchangeStep ==
    ASSUME IInv, NEW p \in Peer, RecvExchangeMtu(p) PROVE IInv'
<1> PICK asked : asked = client[p].asked
  OBVIOUS
<1>1. Receive(p, "exchange_mtu") /\ "exchange_mtu" \notin Commands
  BY DEF RecvExchangeMtu, Commands
<1>2. /\ client[p].awaits = "exchange_mtu" /\ client[p].mtu = att_mtu[p] /\ ClientOK(client[p])
      /\ Head(toServer[p]).mtu = asked
  BY <1>1, RequestFacts
<1>3. asked \in Nat /\ client[p].mtu = 23
  BY <1>2 DEF ClientOK, ATT_MTU_DEFAULT
<1> PICK mtu : mtu = Negotiated(asked)
  OBVIOUS
<1>4. /\ mtu \in Nat /\ mtu >= 23 /\ mtu = Max({ATT_MTU_DEFAULT, Min({asked, mtu})})
  <2>1. le_acl_packet_length \in Nat \ {0}
    BY DEF IInv, Shape
  <2> QED
    BY <1>3, <2>1, NegotiatedFacts DEF ATT_MTU_DEFAULT
<1> PICK pdu : pdu = [op |-> "exchange_mtu", mtu |-> mtu, length |-> 3]
  OBVIOUS
<1>5. att_mtu' = [att_mtu EXCEPT ![p] = mtu] /\ Reply(p, pdu)
  BY <1>2 DEF RecvExchangeMtu
<1>6. pdu.op = "exchange_mtu" /\ pdu.mtu = mtu /\ pdu.length = 3
  OBVIOUS
<1>7. /\ DOMAIN att_mtu' = Peer /\ att_mtu'[p] = mtu
      /\ \A q \in Peer \ {p} : att_mtu'[q] = att_mtu[q]
  BY <1>5 DEF IInv, Shape
<1>8. Answers(client[p], pdu, services, mtu)
  BY <1>2, <1>4, <1>6 DEF Answers, ResponseTo
<1>9. pdu.length \in Nat /\ FitsIn(client[p].mtu, pdu)
  BY <1>3, <1>6 DEF FitsIn
<1>10. att_mtu'[p] \in Nat /\ att_mtu'[p] >= client[p].mtu
  BY <1>3, <1>4, <1>7
<1> QED
  BY <1>1, <1>5, <1>7, <1>8, <1>9, <1>10, ResponseStep

LEMMA FindInformationStep ==
    ASSUME IInv, NEW p \in Peer, gatt_recv_find_information_req(p) PROVE IInv'
<1> PICK r, pdu : r = Head(toServer[p]) /\ pdu = FindInformation(services, r.start, r.end, att_mtu[p])
  OBVIOUS
<1>1. Receive(p, "find_information") /\ Reply(p, pdu) /\ att_mtu' = att_mtu
  BY DEF gatt_recv_find_information_req
<1>2. services \in Seq(ServiceId) /\ att_mtu[p] \in Nat /\ att_mtu[p] >= ATT_MTU_DEFAULT
  BY <1>1, ReceiveFacts DEF IInv, Shape
<1>3. ResponseTo("find_information", pdu) /\ pdu.length \in Nat /\ pdu.length <= att_mtu[p]
  BY <1>2, FindInformationFits
<1>4. FitsIn(att_mtu[p], pdu)
  BY <1>3 DEF FitsIn
<1>5. "find_information" \notin Commands \cup {"exchange_mtu", "read", "read_blob"}
  BY DEF Commands
<1> QED
  BY <1>1, <1>3, <1>4, <1>5, AnswerStep

LEMMA FindByTypeValueStep ==
    ASSUME IInv, NEW p \in Peer, gatt_recv_find_by_type_value_req(p) PROVE IInv'
<1> PICK r, pdu : /\ r = Head(toServer[p])
                  /\ pdu = FindByTypeValue(services, overwritten, r.start, r.end, r.type, r.value, att_mtu[p])
  OBVIOUS
<1>1. Receive(p, "find_by_type_value") /\ Reply(p, pdu) /\ att_mtu' = att_mtu
  BY DEF gatt_recv_find_by_type_value_req
<1>2. services \in Seq(ServiceId) /\ att_mtu[p] \in Nat /\ att_mtu[p] >= ATT_MTU_DEFAULT
  BY <1>1, ReceiveFacts DEF IInv, Shape
<1>3. ResponseTo("find_by_type_value", pdu) /\ pdu.length \in Nat /\ pdu.length <= att_mtu[p]
  BY <1>2, FindByTypeValueFits
<1>4. FitsIn(att_mtu[p], pdu)
  BY <1>3 DEF FitsIn
<1>5. "find_by_type_value" \notin Commands \cup {"exchange_mtu", "read", "read_blob"}
  BY DEF Commands
<1> QED
  BY <1>1, <1>3, <1>4, <1>5, AnswerStep

LEMMA ReadByGroupTypeStep ==
    ASSUME IInv, NEW p \in Peer, gatt_recv_read_by_group_type_req(p) PROVE IInv'
<1> PICK r, pdu : /\ r = Head(toServer[p])
                  /\ pdu = ReadByGroupType(services, r.start, r.end, r.type, att_mtu[p])
  OBVIOUS
<1>1. Receive(p, "read_by_group_type") /\ Reply(p, pdu) /\ att_mtu' = att_mtu
  BY DEF gatt_recv_read_by_group_type_req
<1>2. services \in Seq(ServiceId) /\ att_mtu[p] \in Nat /\ att_mtu[p] >= ATT_MTU_DEFAULT
  BY <1>1, ReceiveFacts DEF IInv, Shape
<1>3. ResponseTo("read_by_group_type", pdu) /\ pdu.length \in Nat /\ pdu.length <= att_mtu[p]
  BY <1>2, ReadByGroupTypeFits
<1>4. FitsIn(att_mtu[p], pdu)
  BY <1>3 DEF FitsIn
<1>5. "read_by_group_type" \notin Commands \cup {"exchange_mtu", "read", "read_blob"}
  BY DEF Commands
<1> QED
  BY <1>1, <1>3, <1>4, <1>5, AnswerStep

\* The response that overruns its buffer may end the program.
LEMMA ReadByTypeStep ==
    ASSUME IInv, NEW p \in Peer, gatt_recv_read_by_type_req(p) PROVE IInv'
<1> PICK r, pdu : r = Head(toServer[p]) /\ pdu = ReadByType(services, r.start, r.end, r.type, att_mtu[p])
  OBVIOUS
<1>1. /\ Receive(p, "read_by_type") /\ att_mtu' = att_mtu
      /\ \/ Reply(p, pdu)
         \/ crash' = "overrun" /\ toClient' = toClient /\ credits' = credits
            /\ unreported' = unreported /\ unheard' = unheard
  BY DEF gatt_recv_read_by_type_req, aclVars
<1>2. services \in Seq(ServiceId) /\ att_mtu[p] \in Nat /\ att_mtu[p] >= ATT_MTU_DEFAULT
  BY <1>1, ReceiveFacts DEF IInv, Shape
<1>3. CASE Reply(p, pdu)
  <2>1. ResponseTo("read_by_type", pdu) /\ pdu.length \in Nat /\ FitsIn(att_mtu[p], pdu)
    BY <1>2, ReadByTypeFits
  <2>2. "read_by_type" \notin Commands \cup {"exchange_mtu", "read", "read_blob"}
    BY DEF Commands
  <2> QED
    BY <1>1, <1>3, <2>1, <2>2, AnswerStep
<1>4. CASE ~Reply(p, pdu)
  <2>1. /\ crash' = "overrun" /\ toClient' = toClient /\ credits' = credits
        /\ unreported' = unreported /\ unheard' = unheard
    BY <1>1, <1>4
  <2>2. /\ Runs /\ services' = services /\ le_acl_packet_length' = le_acl_packet_length
        /\ client' = client /\ DOMAIN client = Peer
        /\ toServer'[p] = Tail(toServer[p]) /\ DOMAIN toServer' = Peer
        /\ \A q \in Peer \ {p} : toServer'[q] = toServer[q]
        /\ Sound(p, client[p], Tail(toServer[p]), toClient[p], unheard, services, att_mtu[p])
    BY <1>1, ReceiveFacts
  <2>3. Spares(p)
    BY <1>1, <2>1, <2>2 DEF Spares, IInv, Shape
  <2>4. PeerSound(p)'
    BY <1>1, <2>1, <2>2 DEF PeerSound
  <2>5. PeerInStep(p)'
    BY <2>1 DEF PeerInStep, Runs
  <2> QED
    BY <2>2, <2>3, <2>4, <2>5, PeerSteps
<1> QED
  BY <1>3, <1>4

LEMMA ReadStep ==
    ASSUME IInv, NEW p \in Peer, gatt_recv_read_req(p) PROVE IInv'
<1> PICK r, pdu, c : r = Head(toServer[p]) /\ pdu = ReadAnswer(p, r.handle) /\ c = client[p]
  OBVIOUS
<1>1. Receive(p, "read") /\ Reply(p, pdu) /\ att_mtu' = att_mtu
  BY DEF gatt_recv_read_req
<1>2. "read" \notin Commands \cup {"exchange_mtu", "write_request"}
  BY DEF Commands
<1>3. /\ c.awaits = "read" /\ c.mtu = att_mtu[p] /\ r = Request(c) /\ ClientOK(c)
      /\ services \in Seq(ServiceId)
  BY <1>1, <1>2, RequestFacts
<1>4. Answers(c, pdu, services, c.mtu) /\ pdu.length \in Nat /\ pdu.length <= c.mtu
  BY <1>3, ReadAnswers
<1>5. ResponseTo("read", pdu) /\ FitsIn(att_mtu[p], pdu)
  BY <1>3, <1>4 DEF Answers, FitsIn
<1> QED
  BY <1>1, <1>2, <1>4, <1>5, AnswerStep

LEMMA ReadBlobStep ==
    ASSUME IInv, NEW p \in Peer, gatt_recv_read_blob_req(p) PROVE IInv'
<1> PICK r, pdu, c : r = Head(toServer[p]) /\ pdu = BlobAnswer(p, r.handle, r.offset) /\ c = client[p]
  OBVIOUS
<1>1. Receive(p, "read_blob") /\ Reply(p, pdu) /\ att_mtu' = att_mtu
  BY DEF gatt_recv_read_blob_req
<1>2. "read_blob" \notin Commands \cup {"exchange_mtu", "write_request"}
  BY DEF Commands
<1>3. /\ c.awaits = "read_blob" /\ c.mtu = att_mtu[p] /\ r = Request(c) /\ ClientOK(c)
      /\ Gathered(c, services) /\ services \in Seq(ServiceId)
  BY <1>1, <1>2, RequestFacts
<1>4. Answers(c, pdu, services, c.mtu) /\ pdu.length \in Nat /\ pdu.length <= c.mtu
  BY <1>3, BlobAnswers
<1>5. ResponseTo("read_blob", pdu) /\ FitsIn(att_mtu[p], pdu)
  BY <1>3, <1>4 DEF Answers, FitsIn
<1> QED
  BY <1>1, <1>2, <1>4, <1>5, AnswerStep

\* A write request is answered whatever becomes of the value.
LEMMA WriteReqStep ==
    ASSUME IInv, NEW p \in Peer, gatt_recv_write_req(p) PROVE IInv'
<1>1. Receive(p, "write_request") /\ att_mtu' = att_mtu
  BY DEF gatt_recv_write_req
<1>2. PICK pdu : /\ Reply(p, pdu) /\ pdu.length \in {1, 5}
                 /\ pdu.op = "write_request" \/ (pdu.op = "error" /\ pdu.request = "write_request")
  <2> PICK r, code : r = Head(toServer[p]) /\ code = WriteError(p, r.handle)
    OBVIOUS
  <2>1. \E pdu \in {gatt_send_error_resp("write_request", r.handle, code),
                    gatt_send_error_resp("write_request", r.handle, "attribute_not_found"),
                    [op |-> "write_request", length |-> 1]} : Reply(p, pdu)
    BY DEF gatt_recv_write_req
  <2> QED
    BY <2>1, ErrorFacts
<1>3. ResponseTo("write_request", pdu) /\ pdu.length \in Nat
  BY <1>2 DEF ResponseTo
<1>4. FitsIn(att_mtu[p], pdu)
  <2>1. att_mtu[p] \in Nat /\ att_mtu[p] >= 23
    BY <1>1, ReceiveFacts DEF ATT_MTU_DEFAULT
  <2> QED
    BY <1>2, <2>1 DEF FitsIn
<1>5. "write_request" \notin Commands \cup {"exchange_mtu", "read", "read_blob"}
  BY DEF Commands
<1> QED
  BY <1>1, <1>2, <1>3, <1>4, <1>5, AnswerStep

LEMMA SilentSteps ==
    ASSUME IInv, NEW p \in Peer,
           gatt_recv_write_cmd(p) \/ gatt_recv_handle_value_cfm(p) \/ RecvUnknown(p)
    PROVE  IInv'
<1>1. PICK op \in Commands \cup {"read_multiple"} : Receive(p, op) /\ Silent /\ att_mtu' = att_mtu
  <2>1. CASE gatt_recv_write_cmd(p)
    BY <2>1 DEF gatt_recv_write_cmd, Commands
  <2>2. CASE gatt_recv_handle_value_cfm(p)
    BY <2>2 DEF gatt_recv_handle_value_cfm, Commands
  <2>3. CASE RecvUnknown(p)
    BY <2>3 DEF RecvUnknown, Commands
  <2> QED
    BY <2>1, <2>2, <2>3
<1> QED
  BY <1>1, SilentStep

LEMMA ReceiveSteps ==
    ASSUME IInv, NEW p \in Peer, att_recv(p) PROVE IInv'
  BY ExchangeStep, FindInformationStep, FindByTypeValueStep, ReadByTypeStep, ReadStep, ReadBlobStep,
     ReadByGroupTypeStep, WriteReqStep, SilentSteps DEF att_recv

LEMMA MtuFacts ==
    ASSUME IInv, NEW p \in Peer, Connected(p)
    PROVE  att_mtu[p] \in Nat /\ att_mtu[p] >= 23
<1> PICK c, n : c = client[p] /\ n = att_mtu[p]
  OBVIOUS
<1>1. Sound(p, c, toServer[p], toClient[p], unheard, services, n) /\ n # 0
  BY DEF IInv, PeerSound, Connected
<1>2. n \in Nat /\ n >= c.mtu /\ c.mtu \in Nat /\ c.mtu >= 23
  BY <1>1 DEF Sound, ClientOK, ATT_MTU_DEFAULT
<1> QED
  BY <1>2

\* no response is sent
OnlyValues ==
    \A q \in Peer : \A x \in ToSet(toClient'[q]) : x.op \in Values \/ x \in ToSet(toClient[q])

\* What is added to a sequence of PDUs.
LEMMA AddedValues ==
    ASSUME NEW old, Sequence(old), NEW more, Sequence(more), AllOf(Values, more)
    PROVE  \A x \in ToSet(old \o more) : x.op \in Values \/ x \in ToSet(old)
<1> PICK n, m, t : n = Len(old) /\ m = Len(more) /\ t = old \o more
  OBVIOUS
<1>1. /\ n \in Nat /\ m \in Nat /\ DOMAIN old = 1 .. n /\ DOMAIN more = 1 .. m
      /\ DOMAIN t = 1 .. n + m
      /\ \A i \in 1 .. n : t[i] = old[i]
      /\ \A i \in 1 .. m : t[n + i] = more[i]
  BY ConcatFacts, SequenceFacts DEF Extends
<1>2. ASSUME NEW i \in 1 .. n + m PROVE t[i].op \in Values \/ t[i] \in ToSet(old)
  <2>1. CASE i \in 1 .. n
    BY <1>1, <2>1 DEF ToSet
  <2>2. CASE i \notin 1 .. n
    <3>1. i - n \in 1 .. m /\ n + (i - n) = i
      BY <1>1, <2>2
    <3> QED
      BY <1>1, <3>1 DEF AllOf
  <2> QED
    BY <2>1, <2>2
<1>3. \A x \in ToSet(t) : \E i \in 1 .. n + m : x = t[i]
  BY <1>1 DEF ToSet
<1> QED
  BY <1>2, <1>3

\* PDUs the application sends.
LEMMA ValuesStep ==
    ASSUME IInv, NEW p \in Peer, AppSends(p), Connected(p), crash' = crash,
           NEW pdus, Sequence(pdus), Len(pdus) \in Nat \ {0}, AllOf(Values, pdus),
           \A i \in DOMAIN pdus : pdus[i].length \in Nat /\ pdus[i].length <= att_mtu[p],
           att_send(p, pdus)
    PROVE  IInv' /\ OnlyValues
<1> PICK c, n : c = client[p] /\ n = att_mtu[p]
  OBVIOUS
<1>1. /\ Runs /\ services' = services /\ att_mtu' = att_mtu /\ toServer' = toServer /\ client' = client
      /\ le_acl_packet_length' = le_acl_packet_length
  BY DEF AppSends, databaseVars
<1>2. Shape /\ n # 0
  BY DEF IInv, Connected
<1>3. DOMAIN pdus = 1 .. Len(pdus) /\ 1 \in DOMAIN pdus /\ Len(pdus) \in DOMAIN pdus
  <2>1. DOMAIN pdus = 1 .. Len(pdus)
    BY SequenceFacts
  <2> QED
    BY <2>1
<1>4. Sent(p, pdus)
  BY <1>2, <1>3, SendFacts
<1>5. ~IsResponse(pdus[1])
  <2>1. pdus[1].op \in Values
    BY <1>3 DEF AllOf
  <2> QED
    BY <2>1 DEF IsResponse, Values
<1>6. PICK k \in 0 .. Len(pdus) : /\ toClient'[p] = toClient[p] \o SubSeq(pdus, 1, k)
                                  /\ unheard' = unheard
  BY <1>4, <1>5 DEF Sent
<1> PICK more : more = SubSeq(pdus, 1, k)
  OBVIOUS
<1>7. Sequence(more) /\ DOMAIN more = 1 .. k /\ \A i \in 1 .. k : more[i] = pdus[i]
  BY PrefixFacts
<1>8. \A i \in 1 .. k : i \in DOMAIN pdus
  BY <1>3
<1>9. /\ AllOf(Values, more)
      /\ \A i \in DOMAIN more : more[i].length \in Nat /\ more[i].length <= n
  BY <1>7, <1>8 DEF AllOf
<1>10. /\ Sound(p, c, toServer[p], toClient[p], unheard, services, n)
       /\ Phase(p, c, toServer[p], toClient[p], unheard, services, n)
  BY <1>1, <1>2 DEF IInv, PeerSound, PeerInStep
<1>11. /\ Sound(p, c, toServer[p], toClient[p] \o more, unheard, services, n)
       /\ Phase(p, c, toServer[p], toClient[p] \o more, unheard, services, n)
  BY <1>2, <1>7, <1>9, <1>10, ValuesSent
<1>12. Spares(p)
  BY <1>1, <1>2, <1>4, <1>6 DEF Spares, Sent, Shape
<1>13. PeerSound(p)'
  BY <1>1, <1>6, <1>11 DEF PeerSound
<1>14. PeerInStep(p)'
  BY <1>1, <1>6, <1>11 DEF PeerInStep
<1>15. OnlyValues
  <2>1. Sequence(toClient[p])
    BY <1>10 DEF Sound
  <2>2. \A x \in ToSet(toClient'[p]) : x.op \in Values \/ x \in ToSet(toClient[p])
    BY <1>6, <1>7, <1>9, <2>1, AddedValues
  <2>3. \A q \in Peer : q = p \/ toClient'[q] = toClient[q]
    BY <1>4 DEF Sent
  <2> QED
    BY <2>2, <2>3 DEF OnlyValues
<1> QED
  BY <1>1, <1>12, <1>13, <1>14, <1>15, PeerSteps

LEMMA ValueLength ==
    ASSUME NEW size \in Nat, NEW n \in Nat, n >= 23
    PROVE  3 + Min({size, n - 3}) \in Nat /\ 3 + Min({size, n - 3}) <= n
<1>1. n - 3 \in Nat
  OBVIOUS
<1>2. Min({size, n - 3}) = IF size <= n - 3 THEN size ELSE n - 3
  BY <1>1, MinOfTwo
<1> QED
  BY <1>1, <1>2

LEMMA SendValueStep ==
    ASSUME IInv, NEW p \in Peer, NEW bit, NEW op \in Values, SendValue(p, bit, op)
    PROVE  IInv' /\ OnlyValues
<1>1. AppSends(p) /\ Connected(p)
  BY DEF SendValue
<1>2. PICK pair \in Notifiable :
     /\ Permitted(pair[1], pair[2], bit)
     /\ LET item == CHOOSE i \in ToSet(Service[pair[1]].items) : i.type = pair[2]
        IN Reply(p, [op |-> op, service |-> pair[1], type |-> pair[2],
                     length |-> 3 + Min({item.size, att_mtu[p] - 3})])
  BY DEF SendValue
<1> DEFINE item == CHOOSE i \in ToSet(Service[pair[1]].items) : i.type = pair[2]
<1>3. item \in ItemsOf
  <2>1. pair[1] \in ServiceId /\ \E i \in ToSet(Service[pair[1]].items) : i.type = pair[2]
    BY ServerAssumption
  <2>2. item \in ToSet(Service[pair[1]].items)
    BY <2>1
  <2> HIDE DEF item
  <2> QED
    BY <2>1, <2>2 DEF ItemsOf
<1>4. item.size \in Nat
  <2>1. item.size \in {0, 1, 2, 4, 5, 32}
    BY <1>3, ItemFacts
  <2> QED
    BY <2>1
<1>5. att_mtu[p] \in Nat /\ att_mtu[p] >= 23
  BY <1>1, MtuFacts
<1> HIDE DEF item
<1> PICK length : length = 3 + Min({item.size, att_mtu[p] - 3})
  OBVIOUS
<1>6. length \in Nat /\ length <= att_mtu[p]
  BY <1>4, <1>5, ValueLength
<1> PICK pdu : pdu = [op |-> op, service |-> pair[1], type |-> pair[2], length |-> length]
  OBVIOUS
<1>8. Reply(p, pdu)
  BY <1>2 DEF item
<1>9. pdu.op \in Values /\ pdu.length \in Nat /\ pdu.length <= att_mtu[p]
  BY <1>6
<1> PICK one : one = <<pdu>>
  OBVIOUS
<1>10. Sequence(one) /\ Len(one) = 1 /\ DOMAIN one = 1 .. 1 /\ one[1] = pdu
  <2>1. one \in Seq({pdu}) /\ Len(one) = 1 /\ DOMAIN one = 1 .. 1 /\ one[1] = pdu
    OBVIOUS
  <2> QED
    BY <2>1, SequenceOf
<1>11. att_send(p, one) /\ crash' = crash
  BY <1>8 DEF Reply
<1>12. \A i \in DOMAIN one : one[i] = pdu
  BY <1>10
<1>13. AllOf(Values, one) /\ \A i \in DOMAIN one : one[i].length \in Nat /\ one[i].length <= att_mtu[p]
  BY <1>9, <1>12 DEF AllOf
<1>14. Len(one) \in Nat \ {0}
  BY <1>10
<1> QED
  BY <1>1, <1>10, <1>11, <1>13, <1>14, ValuesStep

\* The pieces of a stream.
LEMMA StreamFacts ==
    ASSUME NEW length \in Nat \ {0}, NEW most \in Nat \ {0}
    PROVE  LET count == (length + most - 1) \div most IN
           /\ count \in Nat \ {0}
           /\ \A i \in 1 .. count : length - (i - 1) * most \in Nat
<1> DEFINE count == (length + most - 1) \div most
<1>1. length + most - 1 \in Nat
  OBVIOUS
<1>2. count \in Nat /\ count * most <= length + most - 1 /\ length + most - 1 < count * most + most
  BY <1>1, Division
<1> HIDE DEF count
<1>3. count # 0
  BY <1>2
<1>4. ASSUME NEW i \in 1 .. count PROVE length - (i - 1) * most \in Nat
  <2>1. i \in Nat /\ i - 1 \in Nat /\ i <= count
    BY <1>2
  <2>2. i * most \in Nat /\ count * most \in Nat /\ i * most <= count * most
    BY <1>2, <2>1, Times
  <2>3. (i - 1) * most = i * most - most
    BY <2>1
  <2> QED
    BY <1>2, <2>2, <2>3
<1> QED
  BY <1>2, <1>3, <1>4 DEF count

LEMMA PassthroughStep ==
    ASSUME IInv, NEW p \in Peer, gatt_send_passthrough(p)
    PROVE  IInv' /\ OnlyValues
<1>1. AppSends(p)
  BY DEF gatt_send_passthrough
<1>2. CASE ~Connected(p)
  <2>1. /\ Runs /\ services' = services /\ att_mtu' = att_mtu /\ toServer' = toServer /\ client' = client
        /\ le_acl_packet_length' = le_acl_packet_length
    BY <1>1 DEF AppSends, databaseVars
  <2>2. /\ crash' = "no_connection" /\ toClient' = toClient /\ credits' = credits
        /\ unreported' = unreported /\ unheard' = unheard
    BY <1>2 DEF gatt_send_passthrough, aclVars
  <2>3. Spares(p)
    BY <2>1, <2>2 DEF Spares, IInv, Shape
  <2>4. PeerSound(p)'
    BY <2>1, <2>2 DEF IInv, PeerSound
  <2>5. PeerInStep(p)'
    BY <2>2 DEF PeerInStep, Runs
  <2>6. OnlyValues
    BY <2>2 DEF OnlyValues
  <2> QED
    BY <2>1, <2>3, <2>4, <2>5, <2>6, PeerSteps
<1>3. CASE Connected(p)
  <2> DEFINE most == att_mtu[p] - 3
             Pieces(length) ==
                [i \in 1 .. ((length + most - 1) \div most) |->
                   [op |-> "notification", service |-> "test", type |-> "test_tx",
                    length |-> 3 + Min({most, length - (i - 1) * most})]]
  <2>1. PICK length \in StreamLengths : att_send(p, Pieces(length)) /\ crash' = crash
    BY <1>3 DEF gatt_send_passthrough
  <2>2. length \in Nat \ {0}
    BY ServerAssumption
  <2>3. att_mtu[p] \in Nat /\ att_mtu[p] >= 23
    BY <1>3, MtuFacts
  <2>4. most \in Nat \ {0} /\ 3 + most = att_mtu[p]
    BY <2>3
  <2> DEFINE count == (length + most - 1) \div most
             pdus == Pieces(length)
  <2> HIDE DEF most
  <2>5. count \in Nat \ {0} /\ \A i \in 1 .. count : length - (i - 1) * most \in Nat
    BY <2>2, <2>4, StreamFacts
  <2>6. pdus = [i \in 1 .. count |-> [op |-> "notification", service |-> "test", type |-> "test_tx",
                                      length |-> 3 + Min({most, length - (i - 1) * most})]]
    OBVIOUS
  <2>7. att_send(p, pdus)
    BY <2>1
  <2> HIDE DEF count, pdus
  <2>8. DOMAIN pdus = 1 .. count /\ Sequence(pdus) /\ Len(pdus) = count
    <3>1. DOMAIN pdus = 1 .. count /\ pdus = [i \in 1 .. count |-> pdus[i]]
      BY <2>6
    <3> QED
      BY <2>5, <3>1, MappedSequence
  <2>9. ASSUME NEW i \in 1 .. count
        PROVE  pdus[i].op = "notification" /\ pdus[i].length \in Nat /\ pdus[i].length <= att_mtu[p]
    <3> DEFINE rest == length - (i - 1) * most
    <3>1. rest \in Nat
      BY <2>5
    <3>2. pdus[i].op = "notification" /\ pdus[i].length = 3 + Min({most, rest})
      BY <2>6
    <3> HIDE DEF rest
    <3>3. Min({most, rest}) = IF most <= rest THEN most ELSE rest
      BY <2>4, <3>1, MinOfTwo
    <3> QED
      BY <2>3, <2>4, <3>1, <3>2, <3>3
  <2>10. AllOf(Values, pdus)
    BY <2>8, <2>9 DEF AllOf, Values
  <2>11. \A i \in DOMAIN pdus : pdus[i].op = "notification" /\ pdus[i].length \in Nat /\ pdus[i].length <= att_mtu[p]
    BY <2>8, <2>9
  <2> QED
    BY <1>1, <1>3, <2>1, <2>5, <2>7, <2>8, <2>10, <2>11, ValuesStep
<1> QED
  BY <1>2, <1>3

LEMMA LinkUpStep == ASSUME IInv, NEW p \in Peer, LinkUp(p) PROVE IInv'
<1>1. /\ Runs /\ services' = services /\ le_acl_packet_length' = le_acl_packet_length
      /\ att_mtu[p] = 0 /\ att_mtu' = [att_mtu EXCEPT ![p] = 23] /\ client' = [client EXCEPT ![p] = Idle]
      /\ toServer' = toServer /\ toClient' = toClient /\ unheard' = unheard \ {p}
      /\ credits' = credits /\ unreported' = unreported
  BY DEF LinkUp, databaseVars, aclVars, Connected, ATT_MTU_DEFAULT
<1>2. toServer[p] = <<>> /\ toClient[p] = <<>>
  BY <1>1 DEF IInv, PeerSound, Sound
<1>3. /\ Idle = [f \in Fields |-> Idle[f]] /\ Idle.mtu = 23 /\ Idle.asked = 0 /\ Idle.awaits = "none"
      /\ Idle.procedure = "none" /\ Idle.regrown = FALSE
  BY DEF Idle, Fields, ATT_MTU_DEFAULT
<1>4. ClientOK(Idle) /\ Gathered(Idle, services)
  BY <1>3 DEF ClientOK, Gathered, ATT_MTU_DEFAULT
<1> PICK none : none = <<>>
  OBVIOUS
<1>5. Sequence(none) /\ DOMAIN none = {}
  <2>1. none \in Seq({}) /\ DOMAIN none = {}
    OBVIOUS
  <2> QED
    BY <2>1, SequenceOf
<1>6. AllOf(Commands, none) /\ AllOf(Values, none) /\ Fits(Idle, none, 23)
  BY <1>5 DEF AllOf, Fits
<1>7. Sound(p, Idle, none, none, unheard', services, 23)
  BY <1>3, <1>4, <1>5, <1>6 DEF Sound
<1>8. Phase(p, Idle, none, none, unheard', services, 23)
  <2>1. p \notin unheard'
    BY <1>1
  <2> QED
    BY <1>3, <1>6, <2>1 DEF Phase, Resting
<1>9. att_mtu'[p] = 23 /\ client'[p] = Idle /\ toServer'[p] = none /\ toClient'[p] = none
  BY <1>1, <1>2 DEF IInv, Shape
<1>10. Spares(p)
  BY <1>1 DEF Spares, IInv, Shape
<1>11. PeerSound(p)'
  BY <1>1, <1>7, <1>9 DEF PeerSound
<1>12. PeerInStep(p)'
  BY <1>1, <1>8, <1>9 DEF PeerInStep
<1> QED
  BY <1>1, <1>10, <1>11, <1>12, PeerSteps

\* A peer without a connection.
LEMMA Unconnected ==
    ASSUME NEW p, NEW lost, NEW registered
    PROVE  Sound(p, Idle, <<>>, <<>>, lost, registered, 0)
<1>1. /\ Idle = [f \in Fields |-> Idle[f]] /\ Idle.mtu = 23 /\ Idle.asked = 0 /\ Idle.awaits = "none"
      /\ Idle.procedure = "none" /\ Idle.regrown = FALSE
  BY DEF Idle, Fields, ATT_MTU_DEFAULT
<1>2. ClientOK(Idle) /\ Gathered(Idle, registered)
  BY <1>1 DEF ClientOK, Gathered, ATT_MTU_DEFAULT
<1> PICK none : none = <<>>
  OBVIOUS
<1>3. Sequence(none) /\ DOMAIN none = {}
  <2>1. none \in Seq({}) /\ DOMAIN none = {}
    OBVIOUS
  <2> QED
    BY <2>1, SequenceOf
<1>4. Sound(p, Idle, none, none, lost, registered, 0)
  BY <1>2, <1>3 DEF Sound
<1> QED
  BY <1>4

LEMMA LinkDownStep == ASSUME IInv, NEW p \in Peer, LinkDown(p) PROVE IInv'
<1>1. /\ Runs /\ services' = services /\ le_acl_packet_length' = le_acl_packet_length
      /\ att_mtu' = [att_mtu EXCEPT ![p] = 0] /\ client' = [client EXCEPT ![p] = Idle]
      /\ toServer[p] = <<>> /\ toServer' = toServer /\ toClient' = [toClient EXCEPT ![p] = <<>>]
      /\ unheard' = unheard /\ credits' = credits /\ unreported' = unreported
  BY DEF LinkDown, databaseVars, aclVars
<1>2. att_mtu'[p] = 0 /\ client'[p] = Idle /\ toServer'[p] = <<>> /\ toClient'[p] = <<>>
  BY <1>1 DEF IInv, Shape
<1>3. Spares(p)
  BY <1>1 DEF Spares, IInv, Shape
<1>4. PeerSound(p)'
  BY <1>2, Unconnected DEF PeerSound
<1>5. PeerInStep(p)'
  BY <1>2 DEF PeerInStep
<1> QED
  BY <1>1, <1>3, <1>4, <1>5, PeerSteps

LEMMA OpenStep == ASSUME IInv, Open PROVE IInv'
<1>1. /\ att_mtu' = [p \in Peer |-> 0] /\ client' = [p \in Peer |-> Idle]
      /\ toServer' = [p \in Peer |-> <<>>] /\ toClient' = [p \in Peer |-> <<>>]
      /\ credits' = AclPackets /\ unreported' = 0 /\ le_acl_packet_length' = le_acl_packet_length
      /\ gatt_init
  BY DEF Open
<1>2. services' \in Seq(ServiceId)
  <2> DEFINE four == <<"generic_access", "generic_attribute", "battery", "test">>
             more == services \o four
             n == Min({Len(more), GATT_MAX_COUNT_SERVICE})
  <2>1. four \in Seq(ServiceId)
    BY DEF ServiceId
  <2>2. more \in Seq(ServiceId)
    BY <2>1, ConcatProperties DEF IInv, Shape
  <2>3. services' = SubSeq(more, 1, n)
    BY <1>1 DEF gatt_init
  <2> HIDE DEF more
  <2>4. Len(more) \in Nat /\ \A i \in 1 .. Len(more) : more[i] \in ServiceId
    BY <2>2
  <2> PICK len \in Nat : len = Len(more)
    BY <2>4
  <2>5. n = IF len <= 10 THEN len ELSE 10
    BY <2>4, MinOfTwo DEF GATT_MAX_COUNT_SERVICE
  <2> HIDE DEF n
  <2>6. n \in Nat /\ n <= len
    BY <2>5
  <2>7. 1 \in Int /\ n \in Int /\ \A i \in 1 .. n : more[i] \in ServiceId
    BY <2>4, <2>6
  <2> QED
    BY <2>2, <2>3, <2>7, SubSeqProperties
<1>3. Shape'
  BY <1>1, <1>2, ServerAssumption DEF IInv, Shape
<1>4. ASSUME NEW p \in Peer PROVE PeerSound(p)' /\ PeerInStep(p)'
  <2>1. att_mtu'[p] = 0 /\ client'[p] = Idle /\ toServer'[p] = <<>> /\ toClient'[p] = <<>>
    BY <1>1
  <2>2. PeerSound(p)'
    BY <2>1, Unconnected DEF PeerSound
  <2>3. PeerInStep(p)'
    BY <2>1 DEF PeerInStep
  <2> QED
    BY <2>2, <2>3
<1> QED
  BY <1>3, <1>4 DEF IInv

\* Nothing that the peers are in step by changes.
LEMMA QuietSteps ==
    ASSUME IInv, credits' \in Nat, unreported' \in Nat, services' = services,
           le_acl_packet_length' = le_acl_packet_length, att_mtu' = att_mtu, toServer' = toServer,
           toClient' = toClient, client' = client, unheard' = unheard, crash' = crash
    PROVE  IInv'
<1>1. Shape'
  BY DEF IInv, Shape
<1>2. ASSUME NEW p \in Peer PROVE PeerSound(p)' /\ PeerInStep(p)'
  BY DEF IInv, PeerSound, PeerInStep, Runs
<1> QED
  BY <1>1, <1>2 DEF IInv

LEMMA InitHolds == ASSUME Init PROVE IInv
<1>1. /\ att_mtu = [p \in Peer |-> 0] /\ client = [p \in Peer |-> Idle]
      /\ toServer = [p \in Peer |-> <<>>] /\ toClient = [p \in Peer |-> <<>>]
      /\ credits = AclPackets /\ unreported = 0 /\ le_acl_packet_length \in AclLengths
      /\ services = <<>>
  BY DEF Init
<1>2. Shape
  BY <1>1, ServerAssumption DEF Shape
<1>3. ASSUME NEW p \in Peer PROVE PeerSound(p) /\ PeerInStep(p)
  <2>1. att_mtu[p] = 0 /\ client[p] = Idle /\ toServer[p] = <<>> /\ toClient[p] = <<>>
    BY <1>1
  <2>2. PeerSound(p)
    BY <2>1, Unconnected DEF PeerSound
  <2>3. PeerInStep(p)
    BY <2>1 DEF PeerInStep
  <2> QED
    BY <2>2, <2>3
<1> QED
  BY <1>2, <1>3 DEF IInv

\* A peer at rest starts a procedure or asks.
LEMMA AtRestStep ==
    ASSUME IInv, NEW p \in Peer, PeerActs(p), credits' = credits, unreported' = unreported,
           toClient' = toClient, client[p].awaits = "none",
           NEW d, client' = [client EXCEPT ![p] = d], ClientOK(d), Gathered(d, services),
           d.mtu = client[p].mtu,
           \/ d.awaits = "none" /\ toServer' = toServer
           \/ \E r : /\ d.awaits # "none" /\ Matches(d, r) /\ r.op \notin Commands /\ Asks(p, r)
    PROVE  IInv'
<1> PICK c, n : c = client[p] /\ n = att_mtu[p]
  OBVIOUS
<1>1. /\ Runs /\ n # 0 /\ services' = services /\ le_acl_packet_length' = le_acl_packet_length
      /\ att_mtu' = att_mtu /\ unheard' = unheard /\ crash' = crash
  BY DEF PeerActs, databaseVars, Connected
<1>2. /\ Sound(p, c, toServer[p], toClient[p], unheard, services, n)
      /\ Phase(p, c, toServer[p], toClient[p], unheard, services, n)
  BY <1>1 DEF IInv, PeerSound, PeerInStep
<1>3. /\ d.awaits = "none" =>
           /\ Sound(p, d, toServer[p], toClient[p], unheard, services, n)
           /\ Phase(p, d, toServer[p], toClient[p], unheard, services, n)
      /\ \A r : d.awaits # "none" /\ Matches(d, r) /\ r.op \notin Commands =>
           /\ Sound(p, d, Append(toServer[p], r), toClient[p], unheard, services, n)
           /\ Phase(p, d, Append(toServer[p], r), toClient[p], unheard, services, n)
  BY <1>1, <1>2, PeerAtRest
<1>4. client'[p] = d
  BY DEF IInv, Shape
<1>5. CASE d.awaits = "none" /\ toServer' = toServer
  <2>1. Spares(p)
    BY <1>1, <1>5 DEF Spares, IInv, Shape
  <2>2. PeerSound(p)'
    BY <1>1, <1>3, <1>4, <1>5 DEF PeerSound
  <2>3. PeerInStep(p)'
    BY <1>1, <1>3, <1>4, <1>5 DEF PeerInStep
  <2> QED
    BY <1>1, <2>1, <2>2, <2>3, PeerSteps
<1>6. ASSUME NEW r, d.awaits # "none", Matches(d, r), r.op \notin Commands, Asks(p, r) PROVE IInv'
  <2>1. toServer' = [toServer EXCEPT ![p] = Append(toServer[p], r)]
    BY <1>6 DEF Asks
  <2>2. toServer'[p] = Append(toServer[p], r)
    BY <2>1 DEF IInv, Shape
  <2>3. /\ Sound(p, d, Append(toServer[p], r), toClient[p], unheard, services, n)
        /\ Phase(p, d, Append(toServer[p], r), toClient[p], unheard, services, n)
    BY <1>3, <1>6
  <2>4. Spares(p)
    BY <1>1, <2>1 DEF Spares, IInv, Shape
  <2>5. PeerSound(p)'
    BY <1>1, <1>4, <2>2, <2>3 DEF PeerSound
  <2>6. PeerInStep(p)'
    BY <1>1, <1>4, <2>2, <2>3 DEF PeerInStep
  <2> QED
    BY <1>1, <2>4, <2>5, <2>6, PeerSteps
<1> QED
  BY <1>5, <1>6

LEMMA ClientFacts ==
    ASSUME IInv, NEW p \in Peer
    PROVE  /\ ClientOK(client[p]) /\ Gathered(client[p], services)
           /\ client[p] = [f \in Fields |-> client[p][f]] /\ DOMAIN client = Peer
<1>1. Sound(p, client[p], toServer[p], toClient[p], unheard, services, att_mtu[p])
  BY DEF IInv, PeerSound
<1> QED
  BY <1>1 DEF Sound, ClientOK, IInv, Shape

LEMMA PeerStartsStep == ASSUME IInv, NEW p \in Peer, PeerStarts(p) PROVE IInv'
<1> PICK c : c = client[p]
  OBVIOUS
<1>1. /\ PeerActs(p) /\ c.awaits = "none" /\ credits' = credits /\ unreported' = unreported
      /\ toServer' = toServer /\ toClient' = toClient
  BY DEF PeerStarts, aclVars
<1>2. PICK pair \in Procedures :
        client' = [client EXCEPT
           ![p].procedure = pair[1], ![p].target = pair[2], ![p].found = <<>>, ![p].done = FALSE,
           ![p].regrown = FALSE,
           ![p].next = IF pair[1] \in {"characteristics", "attributes"} THEN FirstHandle(pair[2])
                       ELSE IF pair[1] = "long_read" THEN 0 ELSE 1]
  BY DEF PeerStarts
<1> PICK next :
        next = IF pair[1] \in {"characteristics", "attributes"} THEN FirstHandle(pair[2])
               ELSE IF pair[1] = "long_read" THEN 0 ELSE 1
  OBVIOUS
<1> DEFINE d == [c EXCEPT !.procedure = pair[1], !.target = pair[2], !.found = <<>>, !.done = FALSE,
                          !.regrown = FALSE, !.next = next]
<1>3. ClientOK(c) /\ c = [f \in Fields |-> c[f]] /\ DOMAIN client = Peer
  BY ClientFacts
<1>4. client' = [client EXCEPT ![p] = d]
  BY <1>2, <1>3
<1>5. /\ d = [f \in Fields |-> d[f]] /\ d.mtu = c.mtu /\ d.asked = c.asked /\ d.awaits = "none"
      /\ d.found = <<>> /\ d.regrown = FALSE
  BY <1>1, <1>3 DEF Fields
<1> HIDE DEF d
<1>6. ClientOK(d)
  BY <1>3, <1>5 DEF ClientOK
<1>7. Gathered(d, services)
  <2> PICK none : none = <<>>
    OBVIOUS
  <2>1. Sequence(none)
    <3>1. none \in Seq({})
      OBVIOUS
    <3> QED
      BY <3>1, SequenceOf
  <2> QED
    BY <1>5, <2>1 DEF Gathered
<1> QED
  BY <1>1, <1>4, <1>5, <1>6, <1>7, AtRestStep

LEMMA PeerAsksStep == ASSUME IInv, NEW p \in Peer, PeerAsks(p) PROVE IInv'
<1> PICK c, r : c = client[p] /\ r = Request(c)
  OBVIOUS
<1>1. /\ PeerActs(p) /\ c.awaits = "none" /\ ~c.done /\ credits' = credits /\ unreported' = unreported
      /\ toClient' = toClient /\ Asks(p, r) /\ client' = [client EXCEPT ![p].awaits = r.op]
  BY DEF PeerAsks, aclVars
<1> DEFINE d == [c EXCEPT !.awaits = r.op]
<1>2. ClientOK(c) /\ Gathered(c, services) /\ c = [f \in Fields |-> c[f]] /\ DOMAIN client = Peer
  BY ClientFacts
<1>3. client' = [client EXCEPT ![p] = d]
  BY <1>1, <1>2
<1>4. /\ d = [f \in Fields |-> d[f]] /\ d.awaits = r.op /\ d.mtu = c.mtu /\ d.regrown = c.regrown
      /\ d.procedure = c.procedure /\ d.target = c.target /\ d.next = c.next /\ d.found = c.found
      /\ d.asked = c.asked
  BY <1>1, <1>2 DEF Fields
<1>5. d.done = c.done
  BY <1>1, <1>2 DEF Fields
<1> HIDE DEF d
<1>6. Request(d) = r
  BY <1>4, RequestFrame
<1>7. r.op \in {"read_by_group_type", "find_by_type_value", "read_by_type",
                "find_information", "read", "read_blob", "read_multiple"}
  BY RequestOps
<1>8. ClientOK(d)
  BY <1>1, <1>2, <1>4, <1>5, <1>6, <1>7 DEF ClientOK
<1>9. Gathered(d, services)
  BY <1>2, <1>4, <1>5, GatheredFrame
<1>10. d.awaits # "none" /\ Matches(d, r) /\ r.op \notin Commands
  BY <1>4, <1>6, <1>7 DEF Matches, Commands
<1> QED
  BY <1>1, <1>3, <1>4, <1>8, <1>9, <1>10, AtRestStep

LEMMA PeerExchangesMtuStep == ASSUME IInv, NEW p \in Peer, PeerExchangesMtu(p) PROVE IInv'
<1> PICK c : c = client[p]
  OBVIOUS
<1>1. /\ PeerActs(p) /\ c.awaits = "none" /\ c.asked = 0 /\ credits' = credits
      /\ unreported' = unreported /\ toClient' = toClient
  BY DEF PeerExchangesMtu, aclVars
<1>2. PICK mtu \in ClientMtus :
        /\ Asks(p, [op |-> "exchange_mtu", mtu |-> mtu])
        /\ client' = [client EXCEPT ![p].asked = mtu, ![p].awaits = "exchange_mtu"]
  BY DEF PeerExchangesMtu
<1> PICK r : r = [op |-> "exchange_mtu", mtu |-> mtu]
  OBVIOUS
<1>3. mtu \in Nat \ {0} /\ r.op = "exchange_mtu" /\ r.mtu = mtu /\ Asks(p, r)
  BY <1>2, ServerAssumption
<1> DEFINE d == [c EXCEPT !.asked = mtu, !.awaits = "exchange_mtu"]
<1>4. ClientOK(c) /\ Gathered(c, services) /\ c = [f \in Fields |-> c[f]] /\ DOMAIN client = Peer
  BY ClientFacts
<1>5. client' = [client EXCEPT ![p] = d]
  BY <1>2, <1>4
<1>6. /\ d = [f \in Fields |-> d[f]] /\ d.awaits = "exchange_mtu" /\ d.mtu = c.mtu
      /\ d.procedure = c.procedure /\ d.target = c.target /\ d.next = c.next /\ d.found = c.found
      /\ d.asked = mtu
  BY <1>4 DEF Fields
<1>7. d.done = c.done /\ d.regrown = c.regrown
  BY <1>4 DEF Fields
<1> HIDE DEF d
<1>8. ClientOK(d)
  BY <1>1, <1>3, <1>4, <1>6, <1>7 DEF ClientOK
<1>9. Gathered(d, services)
  BY <1>4, <1>6, <1>7, GatheredFrame
<1>10. d.awaits # "none" /\ Matches(d, r) /\ r.op \notin Commands
  BY <1>3, <1>6 DEF Matches, Commands
<1> QED
  BY <1>1, <1>3, <1>5, <1>6, <1>8, <1>9, <1>10, AtRestStep

LEMMA PeerWritesStep == ASSUME IInv, NEW p \in Peer, PeerWrites(p) PROVE IInv'
<1> PICK c, n : c = client[p] /\ n = att_mtu[p]
  OBVIOUS
<1>1. PeerActs(p) /\ credits' = credits /\ unreported' = unreported /\ toClient' = toClient
  BY DEF PeerWrites, aclVars
<1>2. PICK h, value :
        \/ /\ c.awaits = "none"
           /\ Asks(p, [op |-> "write_request", handle |-> h, value |-> value])
           /\ client' = [client EXCEPT ![p].awaits = "write_request"]
        \/ /\ Asks(p, [op |-> "write_command", handle |-> h, value |-> value])
           /\ client' = client
  BY DEF PeerWrites
<1>3. ClientOK(c) /\ Gathered(c, services) /\ c = [f \in Fields |-> c[f]] /\ DOMAIN client = Peer
  BY ClientFacts
<1>4. ASSUME c.awaits = "none", Asks(p, [op |-> "write_request", handle |-> h, value |-> value]),
             client' = [client EXCEPT ![p].awaits = "write_request"]
      PROVE  IInv'
  <2> PICK r : r = [op |-> "write_request", handle |-> h, value |-> value]
    OBVIOUS
  <2>1. r.op = "write_request" /\ Asks(p, r)
    BY <1>4
  <2> DEFINE d == [c EXCEPT !.awaits = "write_request"]
  <2>2. client' = [client EXCEPT ![p] = d]
    BY <1>3, <1>4
  <2>3. /\ d = [f \in Fields |-> d[f]] /\ d.awaits = "write_request" /\ d.mtu = c.mtu
        /\ d.procedure = c.procedure /\ d.target = c.target /\ d.next = c.next /\ d.found = c.found
        /\ d.asked = c.asked
    BY <1>3 DEF Fields
  <2>4. d.done = c.done /\ d.regrown = c.regrown
    BY <1>3 DEF Fields
  <2> HIDE DEF d
  <2>5. ClientOK(d)
    BY <1>3, <1>4, <2>3, <2>4 DEF ClientOK
  <2>6. Gathered(d, services)
    BY <1>3, <2>3, <2>4, GatheredFrame
  <2>7. d.awaits # "none" /\ Matches(d, r) /\ r.op \notin Commands
    BY <2>1, <2>3 DEF Matches, Commands
  <2> QED
    BY <1>1, <1>4, <2>1, <2>2, <2>3, <2>5, <2>6, <2>7, AtRestStep
<1>5. ASSUME Asks(p, [op |-> "write_command", handle |-> h, value |-> value]), client' = client
      PROVE  IInv'
  <2> PICK r : r = [op |-> "write_command", handle |-> h, value |-> value]
    OBVIOUS
  <2>1. r.op \in Commands /\ toServer' = [toServer EXCEPT ![p] = Append(toServer[p], r)]
    BY <1>5 DEF Asks, Commands
  <2>2. /\ Runs /\ n # 0 /\ services' = services /\ le_acl_packet_length' = le_acl_packet_length
        /\ att_mtu' = att_mtu /\ unheard' = unheard /\ crash' = crash
    BY <1>1 DEF PeerActs, databaseVars, Connected
  <2>3. /\ Sound(p, c, toServer[p], toClient[p], unheard, services, n)
        /\ Phase(p, c, toServer[p], toClient[p], unheard, services, n)
    BY <2>2 DEF IInv, PeerSound, PeerInStep
  <2>4. /\ Sound(p, c, Append(toServer[p], r), toClient[p], unheard, services, n)
        /\ Phase(p, c, Append(toServer[p], r), toClient[p], unheard, services, n)
    BY <2>1, <2>2, <2>3, CommandSent
  <2>5. toServer'[p] = Append(toServer[p], r)
    BY <2>1 DEF IInv, Shape
  <2>6. Spares(p)
    BY <1>1, <1>5, <2>1, <2>2 DEF Spares, IInv, Shape
  <2>7. PeerSound(p)'
    BY <1>1, <1>5, <2>2, <2>4, <2>5 DEF PeerSound
  <2>8. PeerInStep(p)'
    BY <1>1, <1>5, <2>2, <2>4, <2>5 DEF PeerInStep
  <2> QED
    BY <2>2, <2>6, <2>7, <2>8, PeerSteps
<1> QED
  BY <1>2, <1>4, <1>5

LEMMA PeerReceivesStep == ASSUME IInv, NEW p \in Peer, PeerReceives(p) PROVE IInv'
<1> PICK c, n, pdu : c = client[p] /\ n = att_mtu[p] /\ pdu = Head(toClient[p])
  OBVIOUS
<1>1. /\ Runs /\ n # 0 /\ services' = services /\ le_acl_packet_length' = le_acl_packet_length
      /\ att_mtu' = att_mtu /\ unheard' = unheard /\ crash' = crash
  BY DEF PeerReceives, PeerActs, databaseVars, Connected
<1>2. /\ toClient[p] # <<>> /\ credits' = credits
      /\ toClient' = [toClient EXCEPT ![p] = Tail(toClient[p])]
      /\ unreported' = unreported + Packets(pdu.length)
  BY DEF PeerReceives
<1>3. IF IsResponse(pdu) THEN client' = [client EXCEPT ![p] = After(c, pdu)] ELSE client' = client
  BY DEF PeerReceives, After
<1>4. IF pdu.op = "indication" THEN Asks(p, [op |-> "confirmation"]) ELSE toServer' = toServer
  BY DEF PeerReceives
<1>5. /\ Sound(p, c, toServer[p], toClient[p], unheard, services, n)
      /\ Phase(p, c, toServer[p], toClient[p], unheard, services, n)
  BY <1>1 DEF IInv, PeerSound, PeerInStep
<1>6. pdu.length \in Nat
  <2>1. Sequence(toClient[p])
    BY <1>5 DEF Sound
  <2>2. pdu = toClient[p][1] /\ Len(toClient[p]) \in Nat \ {0} /\ DOMAIN toClient[p] = 1 .. Len(toClient[p])
    BY <1>2, <2>1, TailFacts
  <2>3. 1 \in DOMAIN toClient[p]
    BY <2>2
  <2> QED
    BY <1>5, <2>2, <2>3 DEF Sound
<1>7. credits' \in Nat /\ unreported' \in Nat
  <2>1. Packets(pdu.length) \in Nat \ {0}
    BY <1>6, PacketsFacts DEF IInv, Shape
  <2> QED
    BY <1>2, <2>1 DEF IInv, Shape
<1>8. /\ toClient'[p] = Tail(toClient[p]) /\ DOMAIN toClient' = Peer
      /\ \A q \in Peer \ {p} : toClient'[q] = toClient[q]
  BY <1>2 DEF IInv, Shape
<1> PICK d : d = IF IsResponse(pdu) THEN After(c, pdu) ELSE c
  OBVIOUS
<1>9. /\ client'[p] = d /\ DOMAIN client' = Peer
      /\ \A q \in Peer \ {p} : client'[q] = client[q]
  <2>1. DOMAIN client = Peer
    BY DEF IInv, Shape
  <2>2. CASE IsResponse(pdu)
    BY <1>3, <2>1, <2>2
  <2>3. CASE ~IsResponse(pdu)
    BY <1>3, <2>1, <2>3
  <2> QED
    BY <2>2, <2>3
<1>10. /\ Sound(p, d, toServer[p], Tail(toClient[p]), unheard, services, n)
       /\ Phase(p, d, toServer[p], Tail(toClient[p]), unheard, services, n)
  <2>1. services \in Seq(ServiceId)
    BY DEF IInv, Shape
  <2>2. CASE IsResponse(pdu)
    <3>1. pdu.op \notin Values /\ d = After(c, Head(toClient[p]))
      BY <2>2 DEF IsResponse, Values
    <3> QED
      BY <1>1, <1>2, <1>5, <2>1, <3>1, ResponseReceived
  <2>3. CASE ~IsResponse(pdu)
    <3>1. pdu.op \in Values /\ d = c
      BY <2>3 DEF IsResponse, Values
    <3> QED
      BY <1>1, <1>2, <1>5, <3>1, ValueReceived
  <2> QED
    BY <2>2, <2>3
<1>11. CASE pdu.op = "indication"
  <2> PICK r : r = [op |-> "confirmation"]
    OBVIOUS
  <2>1. r.op \in Commands /\ toServer' = [toServer EXCEPT ![p] = Append(toServer[p], r)]
    BY <1>4, <1>11 DEF Asks, Commands
  <2>2. /\ toServer'[p] = Append(toServer[p], r) /\ DOMAIN toServer' = Peer
        /\ \A q \in Peer \ {p} : toServer'[q] = toServer[q]
    BY <2>1 DEF IInv, Shape
  <2>3. /\ Sound(p, d, Append(toServer[p], r), Tail(toClient[p]), unheard, services, n)
        /\ Phase(p, d, Append(toServer[p], r), Tail(toClient[p]), unheard, services, n)
    BY <1>1, <1>10, <2>1, CommandSent
  <2>4. Spares(p)
    BY <1>1, <1>7, <1>8, <1>9, <2>2 DEF Spares, IInv, Shape
  <2>5. PeerSound(p)'
    BY <1>1, <1>8, <1>9, <2>2, <2>3 DEF PeerSound
  <2>6. PeerInStep(p)'
    BY <1>1, <1>8, <1>9, <2>2, <2>3 DEF PeerInStep
  <2> QED
    BY <1>1, <2>4, <2>5, <2>6, PeerSteps
<1>12. CASE pdu.op # "indication"
  <2>1. toServer' = toServer
    BY <1>4, <1>12
  <2>2. Spares(p)
    BY <1>1, <1>7, <1>8, <1>9, <2>1 DEF Spares, IInv, Shape
  <2>3. PeerSound(p)'
    BY <1>1, <1>8, <1>9, <1>10, <2>1 DEF PeerSound
  <2>4. PeerInStep(p)'
    BY <1>1, <1>8, <1>9, <1>10, <2>1 DEF PeerInStep
  <2> QED
    BY <1>1, <2>2, <2>3, <2>4, PeerSteps
<1> QED
  BY <1>11, <1>12

LEMMA StepHolds == ASSUME IInv, [Next]_vars PROVE IInv'
<1>1. ASSUME CompletedPackets PROVE IInv'
  <2>1. PICK n \in 1 .. unreported :
        /\ credits' = credits + n /\ unreported' = unreported - n /\ services' = services
        /\ le_acl_packet_length' = le_acl_packet_length /\ att_mtu' = att_mtu /\ toServer' = toServer
        /\ toClient' = toClient /\ client' = client /\ unheard' = unheard /\ crash' = crash
    BY <1>1 DEF CompletedPackets, databaseVars
  <2>2. credits' \in Nat /\ unreported' \in Nat
    BY <2>1 DEF IInv, Shape
  <2> QED
    BY <2>1, <2>2, QuietSteps
<1>2. ASSUME NEW p \in Peer, sm_recv_evt_encryption_change(p) PROVE IInv'
  <2>1. /\ credits' = credits /\ unreported' = unreported /\ services' = services
        /\ le_acl_packet_length' = le_acl_packet_length /\ att_mtu' = att_mtu /\ toServer' = toServer
        /\ toClient' = toClient /\ client' = client /\ unheard' = unheard /\ crash' = crash
    BY <1>2 DEF sm_recv_evt_encryption_change, databaseVars, aclVars
  <2>2. credits' \in Nat /\ unreported' \in Nat
    BY <2>1 DEF IInv, Shape
  <2> QED
    BY <2>1, <2>2, QuietSteps
<1>3. ASSUME NEW p \in Peer, gatt_send_notify(p) \/ gatt_send_indicate(p) PROVE IInv'
  <2>1. PICK bit, op : SendValue(p, bit, op) /\ op \in Values
    BY <1>3 DEF gatt_send_notify, gatt_send_indicate, Values
  <2> QED
    BY <2>1, SendValueStep
<1>4. ASSUME UNCHANGED vars PROVE IInv'
  <2>1. /\ credits' = credits /\ unreported' = unreported /\ services' = services
        /\ le_acl_packet_length' = le_acl_packet_length /\ att_mtu' = att_mtu /\ toServer' = toServer
        /\ toClient' = toClient /\ client' = client /\ unheard' = unheard /\ crash' = crash
    BY <1>4 DEF vars, databaseVars, aclVars
  <2>2. credits' \in Nat /\ unreported' \in Nat
    BY <2>1 DEF IInv, Shape
  <2> QED
    BY <2>1, <2>2, QuietSteps
<1>5. ASSUME NEW p \in Peer,
             \/ att_recv(p) \/ gatt_send_passthrough(p) \/ LinkUp(p) \/ LinkDown(p)
             \/ PeerStarts(p) \/ PeerAsks(p) \/ PeerExchangesMtu(p) \/ PeerWrites(p) \/ PeerReceives(p)
      PROVE  IInv'
  BY <1>5, ReceiveSteps, PassthroughStep, LinkUpStep, LinkDownStep, PeerStartsStep, PeerAsksStep,
     PeerExchangesMtuStep, PeerWritesStep, PeerReceivesStep
<1> QED
  BY <1>1, <1>2, <1>3, <1>4, <1>5, OpenStep DEF Next

\* The inductive invariant holds of every state.
THEOREM PeersInStep == Spec => []IInv
<1>1. Init => IInv
  BY InitHolds
<1>2. IInv /\ [Next]_vars => IInv'
  BY StepHolds
<1> QED
  BY <1>1, <1>2, PTL DEF Spec

-----------------------------------------------------------------------------
(* What follows.                                                            *)

\* A peer that waits for a response has its request or the response under way, unless the
\* response was dropped for want of a credit or the request is not known to the server.
THEOREM RequestsAnswered == Spec => []EveryRequestAnswered
<1>1. IInv => EveryRequestAnswered
  <2> SUFFICES ASSUME IInv, Runs, NEW p \in Peer, client[p].awaits # "none"
               PROVE  \/ \E i \in DOMAIN toServer[p] : toServer[p][i].op = client[p].awaits
                      \/ \E i \in DOMAIN toClient[p] : IsResponse(toClient[p][i])
                      \/ p \in unheard \/ client[p].awaits = "read_multiple"
    BY DEF EveryRequestAnswered
  <2> PICK c, n, requests, responses :
         c = client[p] /\ n = att_mtu[p] /\ requests = toServer[p] /\ responses = toClient[p]
    OBVIOUS
  <2>1. Sound(p, c, requests, responses, unheard, services, n)
    BY DEF IInv, PeerSound
  <2>2. n # 0
    BY <2>1 DEF Sound, Idle
  <2>3. Phase(p, c, requests, responses, unheard, services, n)
    BY <2>2 DEF IInv, PeerInStep
  <2>4. CASE Asking(p, c, requests, responses, unheard, n)
    <3>1. PICK r \in ToSet(requests) : Matches(c, r)
      BY <2>4 DEF Asking
    <3>2. \E i \in DOMAIN requests : requests[i] = r
      BY DEF ToSet
    <3> QED
      BY <3>1, <3>2 DEF Matches
  <2>5. CASE Answered(p, c, requests, responses, unheard, services, n)
    <3>1. PICK pdu \in ToSet(responses) : AllBut(Values, responses, pdu)
      BY <2>5 DEF Answered
    <3>2. \E i \in DOMAIN responses : responses[i] = pdu
      BY DEF ToSet
    <3> QED
      BY <3>1, <3>2 DEF AllBut, IsResponse, Values
  <2> QED
    BY <2>3, <2>4, <2>5 DEF Phase, Resting, Forgotten
<1> QED
  BY <1>1, PeersInStep, PTL

\* A long read puts a value together without a gap or an overlap, and to its end unless the MTU
\* grew between two of its requests.
THEOREM LongReadsWhole == Spec => []LongReadWhole
<1>1. IInv => LongReadWhole
  <2> SUFFICES ASSUME IInv, NEW p \in Peer, client[p].procedure = "long_read", client[p].found # <<>>
               PROVE  LET parts == client[p].found IN
                      /\ parts[1].from = 0
                      /\ \A i \in 1 .. (Len(parts) - 1) : parts[i + 1].from = parts[i].to
                      /\ client[p].done =>
                           Last(parts).to = ItemAt[parts[1].handle].size \/ client[p].regrown
    BY DEF LongReadWhole
  <2>1. Gathered(client[p], services)
    BY ClientFacts
  <2> QED
    BY <2>1 DEF Gathered, Last
<1> QED
  BY <1>1, PeersInStep, PTL

\* No PDU is longer than the MTU its receiver knows of at that moment, but for a Read By Type
\* response with one entry.
THEOREM PdusFit == Spec => []PdusFitMtuButFirstByType
<1>1. IInv => PdusFitMtuButFirstByType
  <2> SUFFICES ASSUME IInv, NEW p \in Peer \ unheard, toClient[p] # <<>>
               PROVE  FitsIn(client[p].mtu, Head(toClient[p]))
    BY DEF PdusFitMtuButFirstByType, FitsIn
  <2> PICK c, n, responses : c = client[p] /\ n = att_mtu[p] /\ responses = toClient[p]
    OBVIOUS
  <2>1. Sound(p, c, toServer[p], responses, unheard, services, n)
    BY DEF IInv, PeerSound
  <2>2. Sequence(responses) /\ Fits(c, responses, n)
    BY <2>1 DEF Sound
  <2>3. Head(responses) = responses[1] /\ 1 \in DOMAIN responses
    <3>1. Head(responses) = responses[1] /\ Len(responses) \in Nat \ {0}
          /\ DOMAIN responses = 1 .. Len(responses)
      BY <2>2, TailFacts
    <3> QED
      BY <3>1
  <2>4. ~ \E j \in 1 .. 1 - 1 : responses[j].op = "exchange_mtu"
    OBVIOUS
  <2> QED
    BY <2>2, <2>3, <2>4 DEF Fits
<1> QED
  BY <1>1, PeersInStep, PTL

-----------------------------------------------------------------------------
(* What the scans visit, and in which order.                                *)

\* s has the elements of X, all of them, and each only behind those of smaller keys.
Covers(s, X, key) ==
    /\ s \in Seq(X)
    /\ \A x \in X : \E i \in DOMAIN s : s[i] = x
    /\ \A j \in DOMAIN s : \A x \in X : key[x] < key[s[j]] => \E i \in 1 .. j - 1 : s[i] = x

\* each of the elements once, in ascending order
Rising(s, key) == \A i, j \in DOMAIN s : i < j => key[s[i]] < key[s[j]]

\* pos gives for each element of r where it is among the items
PicksAt(r, items, P, pos) ==
    /\ \A a \in DOMAIN r : pos[a] \in P /\ pos[a] \in DOMAIN items /\ r[a] = items[pos[a]]
    /\ \A a, b \in DOMAIN r : a < b => pos[a] < pos[b]
    /\ \A i \in P \cap DOMAIN items : \E a \in DOMAIN r : pos[a] = i

LEMMA PickedPositions ==
    ASSUME NEW S, NEW items \in Seq(S), NEW P
    PROVE  \E pos : PicksAt(Picked(items, P), items, P, pos)
<1> PICK n \in Nat : n = Len(items)
  OBVIOUS
<1> DEFINE One(i) == IF i \in P THEN <<items[i]>> ELSE <<>>
           seqs == [i \in DOMAIN items |-> One(i)]
<1>1. DOMAIN items = 1 .. n /\ \A i \in 1 .. n : items[i] \in S
  OBVIOUS
<1>2. \A i \in 1 .. n : One(i) \in Seq(S)
  BY <1>1
<1>3. seqs \in [1 .. n -> Seq(S)] /\ \A i \in 1 .. n : seqs[i] = One(i)
  BY <1>1, <1>2
<1>4. Picked(items, P) = FlattenSeq(seqs)
  BY DEF Picked
<1> HIDE DEF seqs
<1>5. seqs \in Seq(Seq(S)) /\ Len(seqs) = n
  BY <1>3
<1>6. PICK g : g[0] = <<>> /\ g[n] = FlattenSeq(seqs) /\ \A k \in 1 .. n : g[k] = g[k - 1] \o seqs[k]
  BY <1>5, FlattenSteps
<1> DEFINE Upto(k) == Sequence(g[k]) /\ \E pos : PicksAt(g[k], items, P \cap (1 .. k), pos)
           K == {k \in 1 .. n : Upto(k)}
<1>7. Upto(0)
  <2> PICK none : none = <<>>
    OBVIOUS
  <2>1. Sequence(none) /\ DOMAIN none = {}
    <3>1. none \in Seq({}) /\ DOMAIN none = {}
      OBVIOUS
    <3> QED
      BY <3>1, SequenceOf
  <2>2. P \cap (1 .. 0) = {}
    OBVIOUS
  <2>3. PicksAt(none, items, {}, none)
    BY <2>1 DEF PicksAt
  <2>4. g[0] = none
    BY <1>6
  <2> QED
    BY <2>1, <2>2, <2>3, <2>4
<1>8. ASSUME NEW k \in 1 .. n, Upto(k - 1) PROVE Upto(k)
  <2>1. PICK pos : Sequence(g[k - 1]) /\ PicksAt(g[k - 1], items, P \cap (1 .. k - 1), pos)
    BY <1>8
  <2> PICK s : s = g[k - 1]
    OBVIOUS
  <2> PICK m : m = Len(s)
    OBVIOUS
  <2>2. m \in Nat /\ DOMAIN s = 1 .. m
    BY <2>1, SequenceFacts
  <2>3. g[k] = s \o One(k)
    BY <1>3, <1>6
  <2>4. CASE k \notin P
    <3>1. One(k) = <<>> /\ P \cap (1 .. k) = P \cap (1 .. k - 1)
      BY <2>4
    <3>2. s \o <<>> = s
      BY <2>1, ConcatEmptySeq DEF Sequence
    <3>3. g[k] = s
      BY <2>3, <3>1, <3>2
    <3> QED
      BY <2>1, <3>1, <3>3
  <2>5. CASE k \in P
    <3> PICK x, t : x = items[k] /\ t = Append(s, x)
      OBVIOUS
    <3>1. s \o <<x>> = t
      <4> DEFINE T == ToSet(s) \cup {x}
      <4>1. s \in Seq(T) /\ x \in T
        BY <2>1, SeqMonotonic DEF Sequence
      <4> HIDE DEF T
      <4> QED
        BY <4>1, AppendIsConcat
    <3>2. /\ Sequence(t) /\ DOMAIN t = 1 .. m + 1 /\ t[m + 1] = x
          /\ \A a \in 1 .. m : t[a] = s[a]
      BY <2>1, <2>2, AppendFacts DEF Extends
    <3>3. g[k] = t
      BY <2>3, <2>5, <3>1
    <3> PICK q : q = [a \in 1 .. m + 1 |-> IF a = m + 1 THEN k ELSE pos[a]]
      OBVIOUS
    <3>4. q[m + 1] = k /\ \A a \in 1 .. m : q[a] = pos[a]
      BY <2>2
    <3>5. \A a \in 1 .. m : /\ pos[a] \in P \cap (1 .. k - 1) /\ pos[a] \in DOMAIN items
                            /\ s[a] = items[pos[a]]
      BY <2>1, <2>2 DEF PicksAt
    <3>6. \A a \in 1 .. m + 1 : a = m + 1 \/ a \in 1 .. m
      BY <2>2
    <3>7. \A i \in 1 .. k - 1 : i \in 1 .. k /\ i < k
      OBVIOUS
    <3>8. k \in 1 .. k /\ k \in DOMAIN items
      BY <1>1
    <3>9. \A a \in 1 .. m + 1 : q[a] \in P \cap (1 .. k) /\ q[a] \in DOMAIN items /\ t[a] = items[q[a]]
      BY <2>5, <3>2, <3>4, <3>5, <3>6, <3>7, <3>8
    <3>10. \A a, b \in 1 .. m + 1 : a < b => q[a] < q[b]
      <4> TAKE a, b \in 1 .. m + 1
      <4>1. CASE b = m + 1
        <5>1. a < b => a \in 1 .. m
          BY <2>2, <4>1
        <5> QED
          BY <3>4, <3>5, <3>7, <4>1, <5>1
      <4>2. CASE b # m + 1
        <5>1. a < b => a \in 1 .. m /\ b \in 1 .. m
          BY <2>2, <4>2
        <5> QED
          BY <2>1, <2>2, <3>4, <5>1 DEF PicksAt
      <4> QED
        BY <4>1, <4>2
    <3>11. \A i \in (P \cap (1 .. k)) \cap DOMAIN items : \E a \in 1 .. m + 1 : q[a] = i
      <4> TAKE i \in (P \cap (1 .. k)) \cap DOMAIN items
      <4>1. CASE i = k
        <5>1. m + 1 \in 1 .. m + 1
          BY <2>2
        <5> QED
          BY <3>4, <4>1, <5>1
      <4>2. CASE i # k
        <5>1. i \in (P \cap (1 .. k - 1)) \cap DOMAIN items
          BY <4>2
        <5>2. PICK a \in 1 .. m : pos[a] = i
          BY <2>1, <2>2, <5>1 DEF PicksAt
        <5>3. a \in 1 .. m + 1
          BY <2>2
        <5> QED
          BY <3>4, <5>2, <5>3
      <4> QED
        BY <4>1, <4>2
    <3> PICK now, last : now = P \cap (1 .. k) /\ last = m + 1
      OBVIOUS
    <3>12. \A a \in 1 .. last : q[a] \in now /\ q[a] \in DOMAIN items /\ t[a] = items[q[a]]
      BY <3>9
    <3>13. \A a, b \in 1 .. last : a < b => q[a] < q[b]
      BY <3>10
    <3>14. \A i \in now \cap DOMAIN items : \E a \in 1 .. last : q[a] = i
      BY <3>11
    <3>15. DOMAIN t = 1 .. last
      BY <3>2
    <3>16. PicksAt(t, items, now, q)
      <4>1. \A a \in DOMAIN t : q[a] \in now /\ q[a] \in DOMAIN items /\ t[a] = items[q[a]]
        BY <3>12, <3>15
      <4>2. \A a, b \in DOMAIN t : a < b => q[a] < q[b]
        BY <3>13, <3>15
      <4>3. \A i \in now \cap DOMAIN items : \E a \in DOMAIN t : q[a] = i
        BY <3>14, <3>15
      <4> QED
        BY <4>1, <4>2, <4>3 DEF PicksAt
    <3> QED
      BY <3>2, <3>3, <3>16
  <2> QED
    BY <2>4, <2>5
<1>9. n # 0 => 1 \in K
  <2>1. n # 0 => 1 \in 1 .. n
    OBVIOUS
  <2>2. 1 - 1 = 0
    OBVIOUS
  <2>3. Upto(1 - 1)
    BY <1>7, <2>2
  <2> HIDE DEF Upto
  <2> QED
    BY <1>8, <2>1, <2>3
<1>10. ASSUME NEW k \in 1 .. n, k \in K, k < n PROVE k + 1 \in K
  <2>1. k + 1 \in 1 .. n /\ (k + 1) - 1 = k
    BY <1>10
  <2> HIDE DEF Upto
  <2> QED
    BY <1>8, <1>10, <2>1
<1>11. Upto(n)
  <2> HIDE DEF Upto
  <2>1. n # 0 => 1 .. n \subseteq K
    <3> HIDE DEF K
    <3> QED
      BY <1>9, <1>10, Climb
  <2>2. n # 0 => n \in 1 .. n
    OBVIOUS
  <2> QED
    BY <1>7, <2>1, <2>2
<1>12. PICK pos : PicksAt(g[n], items, P \cap (1 .. n), pos)
  BY <1>11
<1>13. PicksAt(g[n], items, P, pos)
  BY <1>1, <1>12 DEF PicksAt
<1> QED
  BY <1>4, <1>6, <1>13
\* What is picked covers a part of what was covered, if of that part nothing is passed over.
LEMMA PickedCovers ==
    ASSUME NEW X, NEW key, NEW s, Covers(s, X, key), NEW Y, Y \subseteq X, NEW P,
           \A i \in P \cap DOMAIN s : s[i] \in Y,
           \A j \in P \cap DOMAIN s : \A i \in 1 .. j - 1 : s[i] \in Y => i \in P,
           \A y \in Y : \E i \in P \cap DOMAIN s : s[i] = y
    PROVE  /\ Covers(Picked(s, P), Y, key)
           /\ Rising(s, key) => Rising(Picked(s, P), key)
<1> PICK r : r = Picked(s, P)
  OBVIOUS
<1>1. PICK n \in Nat : s \in Seq(X) /\ n = Len(s) /\ DOMAIN s = 1 .. n
  BY DEF Covers
<1>2. PICK pos : PicksAt(r, s, P, pos)
  BY <1>1, PickedPositions
<1>3. r \in Seq(X)
  BY <1>1, PickedType
<1>4. PICK m \in Nat : m = Len(r) /\ DOMAIN r = 1 .. m
  BY <1>3
<1>5. \A a \in 1 .. m : pos[a] \in P /\ pos[a] \in 1 .. n /\ r[a] = s[pos[a]] /\ r[a] \in Y
  BY <1>1, <1>2, <1>4 DEF PicksAt
<1>6. \A a, b \in 1 .. m : a < b => pos[a] < pos[b]
  BY <1>2, <1>4 DEF PicksAt
<1>7. \A i \in P \cap (1 .. n) : \E a \in 1 .. m : pos[a] = i
  BY <1>1, <1>2, <1>4 DEF PicksAt
<1>8. r \in Seq(Y)
  <2>1. r \in [1 .. m -> Y]
    BY <1>3, <1>4, <1>5
  <2> QED
    BY <2>1
<1>9. ASSUME NEW y \in Y PROVE \E a \in 1 .. m : r[a] = y
  <2>1. PICK i \in P \cap (1 .. n) : s[i] = y
    BY <1>1
  <2>2. PICK a \in 1 .. m : pos[a] = i
    BY <1>7
  <2> QED
    BY <1>5, <2>1, <2>2
<1>10. ASSUME NEW b \in 1 .. m, NEW y \in Y, key[y] < key[r[b]]
       PROVE  \E a \in 1 .. b - 1 : r[a] = y
  <2> PICK j : j = pos[b]
    OBVIOUS
  <2>1. j \in P /\ j \in 1 .. n /\ r[b] = s[j]
    BY <1>5
  <2>2. PICK i \in 1 .. j - 1 : s[i] = y
    BY <1>1, <1>10, <2>1 DEF Covers
  <2>3. i \in 1 .. n /\ i < j
    BY <2>1
  <2>4. i \in P
    BY <1>1, <2>1, <2>2
  <2>5. PICK a \in 1 .. m : pos[a] = i
    BY <1>7, <2>3, <2>4
  <2>6. ~(b < a)
    <3>1. b < a => pos[b] < pos[a]
      BY <1>6
    <3> QED
      BY <2>1, <2>3, <2>5, <3>1
  <2>7. a # b
    BY <2>1, <2>3, <2>5
  <2>8. a \in 1 .. b - 1
    BY <2>6, <2>7
  <2> QED
    BY <1>5, <2>2, <2>5, <2>8
<1>11. Covers(r, Y, key)
  <2>1. \A y \in Y : \E i \in DOMAIN r : r[i] = y
    BY <1>4, <1>9
  <2>2. \A b \in DOMAIN r : \A y \in Y : key[y] < key[r[b]] => \E i \in 1 .. b - 1 : r[i] = y
    BY <1>4, <1>10
  <2> QED
    BY <1>8, <2>1, <2>2 DEF Covers
<1>12. ASSUME Rising(s, key) PROVE Rising(r, key)
  <2>1. ASSUME NEW a \in 1 .. m, NEW b \in 1 .. m, a < b PROVE key[r[a]] < key[r[b]]
    <3> PICK i, j : i = pos[a] /\ j = pos[b]
      OBVIOUS
    <3>1. i \in 1 .. n /\ j \in 1 .. n /\ i < j /\ r[a] = s[i] /\ r[b] = s[j]
      BY <1>5, <1>6, <2>1
    <3>2. key[s[i]] < key[s[j]]
      BY <1>1, <1>12, <3>1 DEF Rising
    <3> QED
      BY <3>1, <3>2
  <2> QED
    BY <1>4, <2>1 DEF Rising
<1> QED
  BY <1>11, <1>12

\* What is picked for being in a part covers the part.
LEMMA SelectedCovers ==
    ASSUME NEW X, NEW key, NEW s, Covers(s, X, key), NEW Y, Y \subseteq X, NEW P,
           P = {i \in DOMAIN s : s[i] \in Y}
    PROVE  /\ Covers(Picked(s, P), Y, key)
           /\ Rising(s, key) => Rising(Picked(s, P), key)
<1>1. PICK n \in Nat : DOMAIN s = 1 .. n
  BY DEF Covers
<1>2. \A i \in P \cap DOMAIN s : s[i] \in Y
  OBVIOUS
<1>3. \A j \in P \cap DOMAIN s : \A i \in 1 .. j - 1 : s[i] \in Y => i \in P
  BY <1>1
<1>4. \A y \in Y : \E i \in P \cap DOMAIN s : s[i] = y
  BY DEF Covers
<1> QED
  BY <1>2, <1>3, <1>4, PickedCovers

\* The same for other elements that stand in the same order.
Through(f, s) == [i \in DOMAIN s |-> f[s[i]]]
AllThrough(f, X) == {f[x] : x \in X}

LEMMA MappedCovers ==
    ASSUME NEW X, NEW key, NEW s, Covers(s, X, key), NEW f, NEW E, E = AllThrough(f, X),
           NEW order, \A x \in X : order[f[x]] = key[x], NEW t, t = Through(f, s)
    PROVE  /\ Covers(t, E, order)
           /\ Rising(s, key) => Rising(t, order)
<1>1. PICK n \in Nat : s \in Seq(X) /\ DOMAIN s = 1 .. n /\ n = Len(s)
  BY DEF Covers
<1>2. \A i \in 1 .. n : s[i] \in X /\ t[i] = f[s[i]] /\ t[i] \in E /\ order[t[i]] = key[s[i]]
  <2>1. \A i \in 1 .. n : s[i] \in X /\ t[i] = f[s[i]]
    BY <1>1 DEF Through
  <2> QED
    BY <2>1 DEF AllThrough
<1>3. t \in Seq(E) /\ DOMAIN t = 1 .. n
  <2>1. t \in [1 .. n -> E]
    BY <1>1, <1>2 DEF Through
  <2> QED
    BY <2>1
<1>4. ASSUME NEW e \in E PROVE \E i \in 1 .. n : t[i] = e
  <2>1. PICK x \in X : e = f[x]
    BY DEF AllThrough
  <2>2. PICK i \in 1 .. n : s[i] = x
    BY <1>1 DEF Covers
  <2> QED
    BY <1>2, <2>1, <2>2
<1>5. ASSUME NEW j \in 1 .. n, NEW e \in E, order[e] < order[t[j]] PROVE \E i \in 1 .. j - 1 : t[i] = e
  <2>1. PICK x \in X : e = f[x] /\ order[e] = key[x]
    BY DEF AllThrough
  <2>2. key[x] < key[s[j]]
    BY <1>2, <1>5, <2>1
  <2>3. PICK i \in 1 .. j - 1 : s[i] = x
    BY <1>1, <2>2 DEF Covers
  <2>4. i \in 1 .. n
    OBVIOUS
  <2> QED
    BY <1>2, <2>1, <2>3, <2>4
<1>6. Covers(t, E, order)
  BY <1>3, <1>4, <1>5 DEF Covers
<1>7. Rising(s, key) => Rising(t, order)
  BY <1>1, <1>2, <1>3 DEF Rising
<1> QED
  BY <1>6, <1>7

\* the first handle of a service, by which the services are ordered, and the handle of an item
StartOf == [id \in ServiceId |-> Service[id].start_handle]
HandleIn(E) == [e \in E |-> e.handle]

\* The four tables: handles ascend within a service and lie in its range, which begins with the
\* declaration of the service; a characteristic takes five bytes.
Table(items, start, end) ==
    /\ \A a, b \in DOMAIN items : a < b => items[a].handle < items[b].handle
    /\ 1 \in DOMAIN items /\ items[1].handle = start /\ items[1].type = "primary_service"
    /\ \A x \in ToSet(items) : /\ x.handle \in start .. end
                               /\ x.type = "primary_service" <=> x.handle = start
                               /\ x.type = "characteristic" => x.size = 5

LEMMA TableGacc == Table(items_gacc, 1, 3)
<1>1. /\ DOMAIN items_gacc = 1 .. 3 /\ items_gacc[1] = Item(1, "primary_service", 2, {"read"})
      /\ items_gacc[2].handle = 2 /\ items_gacc[3].handle = 3
  BY DEF items_gacc, Item
<1>2. \A a \in 1 .. 3 : a = 1 \/ a = 2 \/ a = 3
  OBVIOUS
<1>3. items_gacc[1].handle = 1 /\ items_gacc[1].type = "primary_service"
  BY <1>1 DEF Item
<1>4. \A a, b \in 1 .. 3 : a < b => items_gacc[a].handle < items_gacc[b].handle
  BY <1>1, <1>2, <1>3
<1>5. \A x \in ToSet(items_gacc) : /\ x.handle \in 1 .. 3
                                   /\ x.type = "primary_service" <=> x.handle = 1
                                   /\ x.type = "characteristic" => x.size = 5
  BY RowsGacc DEF Item
<1> QED
  BY <1>1, <1>3, <1>4, <1>5 DEF Table

LEMMA TableGatt == Table(items_gatt, 17, 20)
<1>1. /\ DOMAIN items_gatt = 1 .. 4 /\ items_gatt[1] = Item(17, "primary_service", 2, {"read"})
      /\ items_gatt[2].handle = 18 /\ items_gatt[3].handle = 19 /\ items_gatt[4].handle = 20
  BY DEF items_gatt, Item
<1>2. \A a \in 1 .. 4 : a = 1 \/ a = 2 \/ a = 3 \/ a = 4
  OBVIOUS
<1>3. items_gatt[1].handle = 17 /\ items_gatt[1].type = "primary_service"
  BY <1>1 DEF Item
<1>4. \A a, b \in 1 .. 4 : a < b => items_gatt[a].handle < items_gatt[b].handle
  BY <1>1, <1>2, <1>3
<1>5. \A x \in ToSet(items_gatt) : /\ x.handle \in 17 .. 20
                                   /\ x.type = "primary_service" <=> x.handle = 17
                                   /\ x.type = "characteristic" => x.size = 5
  BY RowsGatt DEF Item, CCC
<1> QED
  BY <1>1, <1>3, <1>4, <1>5 DEF Table

LEMMA TableBattery == Table(items_battery, 257, 260)
<1>1. /\ DOMAIN items_battery = 1 .. 4 /\ items_battery[1] = Item(257, "primary_service", 2, {"read"})
      /\ items_battery[2].handle = 258 /\ items_battery[3].handle = 259 /\ items_battery[4].handle = 260
  BY DEF items_battery, Item
<1>2. \A a \in 1 .. 4 : a = 1 \/ a = 2 \/ a = 3 \/ a = 4
  OBVIOUS
<1>3. items_battery[1].handle = 257 /\ items_battery[1].type = "primary_service"
  BY <1>1 DEF Item
<1>4. \A a, b \in 1 .. 4 : a < b => items_battery[a].handle < items_battery[b].handle
  BY <1>1, <1>2, <1>3
<1>5. \A x \in ToSet(items_battery) : /\ x.handle \in 257 .. 260
                                      /\ x.type = "primary_service" <=> x.handle = 257
                                      /\ x.type = "characteristic" => x.size = 5
  BY RowsBattery DEF Item, CCC
<1> QED
  BY <1>1, <1>3, <1>4, <1>5 DEF Table

LEMMA TableTest == Table(items_test, 4097, 4115)
<1>1. /\ DOMAIN items_test = 1 .. 6 /\ items_test[1] = Item(4097, "primary_service", 2, {"read"})
      /\ items_test[2].handle = 4098 /\ items_test[3].handle = 4099 /\ items_test[4].handle = 4113
      /\ items_test[5].handle = 4114 /\ items_test[6].handle = 4115
  BY DEF items_test, Item
<1>2. \A a \in 1 .. 6 : a = 1 \/ a = 2 \/ a = 3 \/ a = 4 \/ a = 5 \/ a = 6
  OBVIOUS
<1>3. items_test[1].handle = 4097 /\ items_test[1].type = "primary_service"
  BY <1>1 DEF Item
<1>4. \A a, b \in 1 .. 6 : a < b => items_test[a].handle < items_test[b].handle
  BY <1>1, <1>2, <1>3
<1>5. \A x \in ToSet(items_test) : /\ x.handle \in 4097 .. 4115
                                   /\ x.type = "primary_service" <=> x.handle = 4097
                                   /\ x.type = "characteristic" => x.size = 5
  BY RowsTest DEF Item, CCC
<1> QED
  BY <1>1, <1>3, <1>4, <1>5 DEF Table

LEMMA Tables ==
    /\ \A id \in ServiceId : /\ Table(Service[id].items, Service[id].start_handle, Service[id].end_handle)
                             /\ Service[id].start_handle \in Nat \ {0}
                             /\ Service[id].end_handle \in Nat /\ Service[id].end_handle < 65535
                             /\ Service[id].start_handle < Service[id].end_handle
    /\ \A id, other \in ServiceId :
          \/ id = other \/ Service[id].end_handle < Service[other].start_handle
          \/ Service[other].end_handle < Service[id].start_handle
<1>1. /\ Service["generic_access"] = [items |-> items_gacc, start_handle |-> 1, end_handle |-> 3]
      /\ Service["generic_attribute"] = [items |-> items_gatt, start_handle |-> 17, end_handle |-> 20]
      /\ Service["battery"] = [items |-> items_battery, start_handle |-> 257, end_handle |-> 260]
      /\ Service["test"] = [items |-> items_test, start_handle |-> 4097, end_handle |-> 4115]
  BY DEF Service, ServiceId
<1>2. /\ Service["generic_access"].items = items_gacc
      /\ Service["generic_access"].start_handle = 1 /\ Service["generic_access"].end_handle = 3
      /\ Service["generic_attribute"].items = items_gatt
      /\ Service["generic_attribute"].start_handle = 17 /\ Service["generic_attribute"].end_handle = 20
      /\ Service["battery"].items = items_battery
      /\ Service["battery"].start_handle = 257 /\ Service["battery"].end_handle = 260
      /\ Service["test"].items = items_test
      /\ Service["test"].start_handle = 4097 /\ Service["test"].end_handle = 4115
  BY <1>1
<1>3. \A id \in ServiceId : Table(Service[id].items, Service[id].start_handle, Service[id].end_handle)
  BY <1>2, TableGacc, TableGatt, TableBattery, TableTest DEF ServiceId
<1>4. ASSUME NEW id \in ServiceId
      PROVE  \/ /\ id = "generic_access"
                /\ Service[id].start_handle = 1 /\ Service[id].end_handle = 3
             \/ /\ id = "generic_attribute"
                /\ Service[id].start_handle = 17 /\ Service[id].end_handle = 20
             \/ /\ id = "battery"
                /\ Service[id].start_handle = 257 /\ Service[id].end_handle = 260
             \/ /\ id = "test"
                /\ Service[id].start_handle = 4097 /\ Service[id].end_handle = 4115
  BY <1>2 DEF ServiceId
<1>5. ASSUME NEW id \in ServiceId
      PROVE  /\ Service[id].start_handle \in Nat \ {0}
             /\ Service[id].end_handle \in Nat /\ Service[id].end_handle < 65535
             /\ Service[id].start_handle < Service[id].end_handle
  <2> PICK first, final : first = Service[id].start_handle /\ final = Service[id].end_handle
    OBVIOUS
  <2>1. \/ first = 1 /\ final = 3
        \/ first = 17 /\ final = 20
        \/ first = 257 /\ final = 260
        \/ first = 4097 /\ final = 4115
    BY <1>4
  <2> QED
    BY <2>1
<1>6. ASSUME NEW id \in ServiceId, NEW other \in ServiceId
      PROVE  \/ id = other \/ Service[id].end_handle < Service[other].start_handle
             \/ Service[other].end_handle < Service[id].start_handle
  <2> PICK a, b : a = Service[id].start_handle /\ b = Service[id].end_handle
    OBVIOUS
  <2> PICK c, d : c = Service[other].start_handle /\ d = Service[other].end_handle
    OBVIOUS
  <2>1. \/ id = "generic_access" /\ a = 1 /\ b = 3
        \/ id = "generic_attribute" /\ a = 17 /\ b = 20
        \/ id = "battery" /\ a = 257 /\ b = 260
        \/ id = "test" /\ a = 4097 /\ b = 4115
    BY <1>4
  <2>2. \/ other = "generic_access" /\ c = 1 /\ d = 3
        \/ other = "generic_attribute" /\ c = 17 /\ d = 20
        \/ other = "battery" /\ c = 257 /\ d = 260
        \/ other = "test" /\ c = 4097 /\ d = 4115
    BY <1>4
  <2>3. id = other \/ b < c \/ d < a
    BY <2>1, <2>2
  <2> QED
    BY <2>3
<1> QED
  BY <1>3, <1>5, <1>6
\* What that says of two items.
LEMMA ItemOrder ==
    /\ \A x \in ItemsOf : \E id \in ServiceId : x \in ToSet(Service[id].items)
    /\ \A id \in ServiceId : ToSet(Service[id].items) \subseteq ItemsOf
    /\ \A id \in ServiceId : \A x \in ToSet(Service[id].items) :
          x.handle \in Nat /\ StartOf[id] <= x.handle /\ x.handle <= Service[id].end_handle
    /\ \A id, other \in ServiceId :
          \A x \in ToSet(Service[id].items), y \in ToSet(Service[other].items) :
             /\ x.handle < y.handle /\ id # other => StartOf[id] < StartOf[other]
             /\ StartOf[id] < StartOf[other] => x.handle < y.handle
<1>1. /\ \A x \in ItemsOf : \E id \in ServiceId : x \in ToSet(Service[id].items)
      /\ \A id \in ServiceId : ToSet(Service[id].items) \subseteq ItemsOf
  BY DEF ItemsOf
<1>2. ASSUME NEW id \in ServiceId, NEW x \in ToSet(Service[id].items)
      PROVE  /\ x.handle \in Nat /\ StartOf[id] = Service[id].start_handle /\ StartOf[id] \in Nat
             /\ StartOf[id] <= x.handle /\ x.handle <= Service[id].end_handle
             /\ Service[id].end_handle \in Nat
  <2>1. /\ Table(Service[id].items, Service[id].start_handle, Service[id].end_handle)
        /\ Service[id].start_handle \in Nat /\ Service[id].end_handle \in Nat
    BY Tables
  <2>2. StartOf[id] = Service[id].start_handle
    BY DEF StartOf
  <2>3. x.handle \in Service[id].start_handle .. Service[id].end_handle
    BY <2>1 DEF Table
  <2> QED
    BY <2>1, <2>2, <2>3
<1>3. ASSUME NEW id \in ServiceId, NEW other \in ServiceId,
             NEW x \in ToSet(Service[id].items), NEW y \in ToSet(Service[other].items)
      PROVE  /\ x.handle < y.handle /\ id # other => StartOf[id] < StartOf[other]
             /\ StartOf[id] < StartOf[other] => x.handle < y.handle
  <2>1. \/ id = other \/ Service[id].end_handle < Service[other].start_handle
        \/ Service[other].end_handle < Service[id].start_handle
    BY Tables
  <2> PICK a, b, h : a = Service[id].start_handle /\ b = Service[id].end_handle /\ h = x.handle
    OBVIOUS
  <2> PICK c, d, k : c = Service[other].start_handle /\ d = Service[other].end_handle /\ k = y.handle
    OBVIOUS
  <2>2. a \in Nat /\ h \in Nat /\ b \in Nat /\ a <= h /\ h <= b /\ StartOf[id] = a
    BY <1>2
  <2>3. c \in Nat /\ k \in Nat /\ d \in Nat /\ c <= k /\ k <= d /\ StartOf[other] = c
    BY <1>2
  <2>4. \/ id = other \/ b < c \/ d < a
    BY <2>1
  <2>5. id = other => a = c
    BY <2>2, <2>3
  <2>6. /\ h < k /\ id # other => a < c
        /\ a < c => h < k
    BY <2>2, <2>3, <2>4, <2>5
  <2> QED
    BY <2>2, <2>3, <2>6
<1> QED
  BY <1>1, <1>2, <1>3

LEMMA RisingBack ==
    ASSUME NEW u, NEW b \in Nat, \A i, j \in 1 .. b : i < j => u[i].handle < u[j].handle,
           \A i \in 1 .. b : u[i].handle \in Nat,
           NEW l \in 1 .. b, NEW m \in 1 .. b, u[l].handle < u[m].handle
    PROVE  l < m
<1>1. m < l => u[m].handle < u[l].handle
  OBVIOUS
<1>2. m = l => u[m].handle = u[l].handle
  OBVIOUS
<1>3. u[l].handle \in Nat /\ u[m].handle \in Nat /\ u[l].handle < u[m].handle
  OBVIOUS
<1>4. u[m].handle # u[l].handle /\ ~(u[m].handle < u[l].handle)
  BY <1>3
<1> QED
  BY <1>1, <1>2, <1>4

\* t is what s becomes with u behind it
Joins(t, s, u) ==
    /\ DOMAIN t = 1 .. Len(s) + Len(u)
    /\ \A i \in 1 .. Len(s) : t[i] = s[i]
    /\ \A i \in 1 .. Len(u) : t[Len(s) + i] = u[i]

LEMMA JoinedFacts ==
    ASSUME NEW S, NEW s \in Seq(S), NEW u \in Seq(S)
    PROVE  s \o u \in Seq(S) /\ Joins(s \o u, s, u)
<1>1. Sequence(s) /\ Sequence(u)
  BY SequenceOf
<1>2. s \o u \in Seq(S)
  BY ConcatProperties
<1>3. /\ DOMAIN (s \o u) = 1 .. Len(s) + Len(u)
      /\ \A i \in 1 .. Len(u) : (s \o u)[Len(s) + i] = u[i]
      /\ Extends(s, s \o u)
  BY <1>1, ConcatFacts
<1>4. DOMAIN s = 1 .. Len(s)
  OBVIOUS
<1>5. \A i \in 1 .. Len(s) : (s \o u)[i] = s[i]
  BY <1>3, <1>4 DEF Extends
<1> QED
  BY <1>2, <1>3, <1>5 DEF Joins

\* s visits the items of the first k services: each only behind those of smaller handles.
Scanned(registered, s, k) ==
    /\ s \in Seq(ItemsOf)
    /\ \A j \in DOMAIN s : \E i \in 1 .. k : s[j] \in ToSet(Service[registered[i]].items)
    /\ \A i \in 1 .. k : \A x \in ToSet(Service[registered[i]].items) : \E j \in DOMAIN s : s[j] = x
    /\ \A j \in DOMAIN s : \A x \in ItemsOf : x.handle < s[j].handle => \E i \in 1 .. j - 1 : s[i] = x
    /\ Rising(registered, StartOf) => \A i, j \in DOMAIN s : i < j => s[i].handle < s[j].handle

\* One service more: what was visited comes first.
LEMMA ScannedMore ==
    ASSUME NEW registered, Covers(registered, ServiceId, StartOf),
           NEW k \in 1 .. Len(registered), NEW s, Scanned(registered, s, k - 1),
           NEW t \in Seq(ItemsOf), Joins(t, s, Service[registered[k]].items)
    PROVE  Scanned(registered, t, k)
<1> DEFINE Of(i) == Service[registered[i]].items
<1>1. PICK id, u, a, b : id = registered[k] /\ u = Service[id].items /\ a = Len(s) /\ b = Len(u)
  OBVIOUS
<1> PICK n : n = Len(registered)
  OBVIOUS
<1>2. /\ n \in Nat /\ DOMAIN registered = 1 .. n /\ k \in 1 .. n
      /\ \A i \in 1 .. n : registered[i] \in ServiceId
  BY DEF Covers
<1>3. id = registered[k] /\ id \in ServiceId /\ u = Service[id].items /\ u \in Seq(ItemsOf) /\ u = Of(k)
  BY <1>1, <1>2, ServiceItems
<1>4. s \in Seq(ItemsOf) /\ u \in Seq(ItemsOf)
  BY <1>3 DEF Scanned
<1>5. a \in Nat /\ b \in Nat /\ DOMAIN u = 1 .. b /\ DOMAIN s = 1 .. a
  BY <1>1, <1>4
<1>6. Joins(t, s, u)
  BY <1>3
<1>7. DOMAIN t = 1 .. a + b
  BY <1>1, <1>6 DEF Joins
<1>8. /\ a \in Nat /\ b \in Nat /\ DOMAIN u = 1 .. b
      /\ \A i \in 1 .. a : t[i] = s[i]
      /\ \A i \in 1 .. b : t[a + i] = u[i]
  BY <1>1, <1>5, <1>6 DEF Joins
<1>9. /\ \A j \in 1 .. a : \E i \in 1 .. k - 1 : s[j] \in ToSet(Of(i))
      /\ \A i \in 1 .. k - 1 : \A x \in ToSet(Of(i)) : \E j \in 1 .. a : s[j] = x
      /\ \A j \in 1 .. a : \A x \in ItemsOf : x.handle < s[j].handle => \E i \in 1 .. j - 1 : s[i] = x
      /\ Rising(registered, StartOf) => \A i, j \in 1 .. a : i < j => s[i].handle < s[j].handle
  BY <1>5 DEF Scanned
<1>10. \A j \in 1 .. a + b : j \in 1 .. a \/ (j - a \in 1 .. b /\ a + (j - a) = j /\ j > a)
  BY <1>8
<1>11. \A i \in 1 .. k - 1 : i \in 1 .. k /\ i \in 1 .. n /\ i < k
  BY <1>2
<1>12. k \in 1 .. k
  BY <1>2
<1>13. \A i \in 1 .. b : u[i] \in ToSet(u) /\ u[i] \in ItemsOf
  <2>1. \A i \in 1 .. b : u[i] \in ToSet(u)
    BY <1>8 DEF ToSet
  <2>2. ToSet(u) \subseteq ItemsOf
    BY <1>3, ItemOrder
  <2> QED
    BY <2>1, <2>2
<1>14. ASSUME NEW j \in 1 .. a + b PROVE \E i \in 1 .. k : t[j] \in ToSet(Of(i))
  <2>1. CASE j \in 1 .. a
    <3>1. PICK i \in 1 .. k - 1 : s[j] \in ToSet(Of(i))
      BY <1>9, <1>8, <2>1
    <3> QED
      BY <1>8, <1>11, <2>1, <3>1
  <2>2. CASE j \notin 1 .. a
    <3>1. t[j] = u[j - a] /\ j - a \in 1 .. b
      BY <1>8, <1>10, <2>2
    <3> QED
      BY <1>3, <1>12, <1>13, <3>1
  <2> QED
    BY <2>1, <2>2
<1>15. ASSUME NEW i \in 1 .. k, NEW x \in ToSet(Of(i)) PROVE \E j \in 1 .. a + b : t[j] = x
  <2>1. CASE i = k
    <3>1. PICK j \in 1 .. b : u[j] = x
      <4>1. x \in ToSet(u)
        BY <1>3, <2>1
      <4> QED
        BY <1>8, <4>1 DEF ToSet
    <3>2. a + j \in 1 .. a + b
      BY <1>8
    <3> QED
      BY <1>8, <3>1, <3>2
  <2>2. CASE i # k
    <3>1. i \in 1 .. k - 1
      BY <2>2
    <3>2. PICK j \in 1 .. a : s[j] = x
      BY <1>9, <1>8, <3>1
    <3>3. j \in 1 .. a + b
      BY <1>8
    <3> QED
      BY <1>8, <3>2, <3>3
  <2> QED
    BY <2>1, <2>2
<1>16. Table(u, Service[id].start_handle, Service[id].end_handle)
  BY <1>3, Tables
<1>17. \A i, j \in 1 .. b : i < j => u[i].handle < u[j].handle
  BY <1>8, <1>16 DEF Table
<1>18. \A x \in ItemsOf : x.handle \in Nat
  BY ItemFacts
<1>19. ASSUME NEW j \in 1 .. a + b, NEW x \in ItemsOf, x.handle < t[j].handle
       PROVE  \E i \in 1 .. j - 1 : t[i] = x
  <2>1. CASE j \in 1 .. a
    <3>0. x.handle < s[j].handle
      BY <1>8, <1>19, <2>1
    <3>1. PICK i \in 1 .. j - 1 : s[i] = x
      BY <1>9, <2>1, <3>0
    <3>2. i \in 1 .. a
      BY <2>1, <1>8
    <3> QED
      BY <1>8, <3>1, <3>2
  <2>2. CASE j \notin 1 .. a
    <3> PICK m : m = j - a
      OBVIOUS
    <3>1. m \in 1 .. b /\ a + m = j /\ t[j] = u[m]
      BY <1>8, <1>10, <2>2
    <3>2. PICK other \in ServiceId : x \in ToSet(Service[other].items)
      BY ItemOrder
    <3>3. CASE other = id
      <4>1. PICK l \in 1 .. b : u[l] = x
        BY <1>3, <1>8, <3>2, <3>3 DEF ToSet
      <4>2. l < m
        <5>1. u[l].handle < u[m].handle
          BY <1>19, <3>1, <4>1
        <5>2. \A i \in 1 .. b : u[i].handle \in Nat
          BY <1>13, <1>18
        <5> QED
          BY <1>17, <3>1, <5>1, <5>2, RisingBack
      <4>3. a + l \in 1 .. j - 1
        BY <1>8, <3>1, <4>2
      <4> QED
        BY <1>8, <4>1, <4>3
    <3>4. CASE other # id
      <4>1. u[m] \in ToSet(Service[id].items)
        BY <1>3, <1>13, <3>1
      <4>2. StartOf[other] < StartOf[id]
        <5>1. x.handle < u[m].handle
          BY <1>19, <3>1
        <5> QED
          BY <1>3, <3>2, <3>4, <4>1, <5>1, ItemOrder
      <4>3. PICK i \in 1 .. k - 1 : registered[i] = other
        BY <1>2, <1>3, <4>2 DEF Covers
      <4>4. x \in ToSet(Of(i))
        BY <1>11, <3>2, <4>3
      <4>5. PICK l \in 1 .. a : s[l] = x
        BY <1>9, <1>8, <4>4
      <4>6. l \in 1 .. j - 1
        BY <1>8, <2>2, <3>1, <4>5
      <4> QED
        BY <1>8, <4>5, <4>6
    <3> QED
      BY <3>3, <3>4
  <2> QED
    BY <2>1, <2>2
<1>20. ASSUME Rising(registered, StartOf), NEW i \in 1 .. a + b, NEW j \in 1 .. a + b, i < j
       PROVE  t[i].handle < t[j].handle
  <2>1. \A h, l \in 1 .. a : h < l => s[h].handle < s[l].handle
    BY <1>9, <1>20
  <2>2. CASE j \in 1 .. a
    <3>1. i \in 1 .. a
      BY <1>8, <1>20, <2>2
    <3>2. s[i].handle < s[j].handle
      BY <1>20, <2>1, <2>2, <3>1
    <3> QED
      BY <1>8, <2>2, <3>1, <3>2
  <2>3. CASE j \notin 1 .. a /\ i \in 1 .. a
    <3>1. j - a \in 1 .. b /\ t[j] = u[j - a] /\ t[i] = s[i]
      BY <1>8, <1>10, <2>3
    <3>2. PICK l \in 1 .. k - 1 : s[i] \in ToSet(Of(l))
      BY <1>9, <1>8, <2>3
    <3> PICK other : other = registered[l]
      OBVIOUS
    <3>3. other \in ServiceId /\ s[i] \in ToSet(Service[other].items)
      BY <1>2, <1>11, <3>2
    <3>4. StartOf[other] < StartOf[id]
      BY <1>2, <1>3, <1>11, <1>20 DEF Rising
    <3>5. u[j - a] \in ToSet(Service[id].items)
      BY <1>3, <1>13, <3>1
    <3> QED
      BY <1>3, <3>1, <3>3, <3>4, <3>5, ItemOrder
  <2>4. CASE j \notin 1 .. a /\ i \notin 1 .. a
    <3>1. /\ i - a \in 1 .. b /\ t[i] = u[i - a] /\ j - a \in 1 .. b /\ t[j] = u[j - a]
          /\ i - a < j - a
      BY <1>8, <1>10, <1>20, <2>4
    <3> QED
      BY <1>17, <3>1
  <2> QED
    BY <2>2, <2>3, <2>4
<1> QED
  BY <1>7, <1>14, <1>15, <1>19, <1>20 DEF Scanned

\* Every scan visits all items, each only behind those of smaller handles.
LEMMA ScanCovers ==
    ASSUME NEW registered, Covers(registered, ServiceId, StartOf)
    PROVE  /\ Covers(Scan(registered), ItemsOf, HandleIn(ItemsOf))
           /\ Rising(registered, StartOf) => Rising(Scan(registered), HandleIn(ItemsOf))
<1> DEFINE seqs == [i \in DOMAIN registered |-> Service[registered[i]].items]
           key  == HandleIn(ItemsOf)
<1> PICK n : n = Len(registered)
  OBVIOUS
<1>1. /\ registered \in Seq(ServiceId) /\ n \in Nat /\ DOMAIN registered = 1 .. n
      /\ \A i \in 1 .. n : registered[i] \in ServiceId
  BY DEF Covers
<1>2. \A i \in 1 .. n : seqs[i] = Service[registered[i]].items /\ seqs[i] \in Seq(ItemsOf)
  BY <1>1, ServiceItems
<1>3. DOMAIN seqs = 1 .. n
  BY <1>1
<1>4. Scan(registered) = FlattenSeq(seqs)
  BY DEF Scan
<1>5. \A x \in ItemsOf : key[x] = x.handle
  BY DEF HandleIn
<1> HIDE DEF seqs
<1>6. seqs \in Seq(Seq(ItemsOf)) /\ Len(seqs) = n
  <2>1. seqs = [i \in 1 .. n |-> seqs[i]]
    <3>1. seqs = [i \in 1 .. n |-> Service[registered[i]].items]
      BY <1>1 DEF seqs
    <3> QED
      BY <3>1
  <2>2. seqs \in [1 .. n -> Seq(ItemsOf)]
    BY <1>2, <2>1
  <2> QED
    BY <1>1, <2>2
<1> HIDE DEF key
<1>7. PICK g : g[0] = <<>> /\ g[n] = FlattenSeq(seqs) /\ \A k \in 1 .. n : g[k] = g[k - 1] \o seqs[k]
  BY <1>6, FlattenSteps
<1> DEFINE K == {k \in 1 .. n : Scanned(registered, g[k], k)}
<1>8. Scanned(registered, g[0], 0)
  <2> PICK none : none = <<>>
    OBVIOUS
  <2>1. none \in Seq(ItemsOf) /\ DOMAIN none = {}
    OBVIOUS
  <2>2. Scanned(registered, none, 0)
    BY <2>1 DEF Scanned
  <2> QED
    BY <1>7, <2>2
<1>9. ASSUME NEW k \in 1 .. n, Scanned(registered, g[k - 1], k - 1) PROVE Scanned(registered, g[k], k)
  <2>1. g[k - 1] \in Seq(ItemsOf)
    BY <1>9 DEF Scanned
  <2>2. seqs[k] \in Seq(ItemsOf) /\ seqs[k] = Service[registered[k]].items
    BY <1>2
  <2>3. g[k - 1] \o seqs[k] \in Seq(ItemsOf) /\ Joins(g[k - 1] \o seqs[k], g[k - 1], seqs[k])
    BY <2>1, <2>2, JoinedFacts
  <2>4. g[k] \in Seq(ItemsOf) /\ Joins(g[k], g[k - 1], Service[registered[k]].items)
    BY <1>7, <2>2, <2>3
  <2>5. k \in 1 .. Len(registered)
    OBVIOUS
  <2> QED
    BY <1>9, <2>4, <2>5, ScannedMore
<1>10. Scanned(registered, g[n], n)
  <2>1. n # 0 => 1 \in K
    <3>1. n # 0 => 1 \in 1 .. n
      BY <1>1
    <3>2. 1 - 1 = 0
      OBVIOUS
    <3> QED
      BY <1>8, <1>9, <3>1, <3>2
  <2>2. ASSUME NEW k \in 1 .. n, k \in K, k < n PROVE k + 1 \in K
    <3>1. k + 1 \in 1 .. n /\ (k + 1) - 1 = k
      BY <1>1, <2>2
    <3> QED
      BY <1>9, <2>2, <3>1
  <2>3. n # 0 => 1 .. n \subseteq K
    <3> HIDE DEF K
    <3> QED
      BY <1>1, <2>1, <2>2, Climb
  <2>4. n # 0 => n \in 1 .. n
    BY <1>1
  <2> QED
    BY <1>8, <2>3, <2>4
<1> PICK scan : scan = Scan(registered)
  OBVIOUS
<1>11. Scanned(registered, scan, n)
  BY <1>4, <1>7, <1>10
<1>12. DOMAIN scan = 1 .. Len(scan) /\ Len(scan) \in Nat /\ \A i \in DOMAIN scan : scan[i] \in ItemsOf
  BY <1>11 DEF Scanned
<1>13. ASSUME NEW x \in ItemsOf PROVE \E j \in DOMAIN scan : scan[j] = x
  <2>1. PICK id \in ServiceId : x \in ToSet(Service[id].items)
    BY ItemOrder
  <2>2. PICK i \in 1 .. n : registered[i] = id
    BY <1>1 DEF Covers
  <2> QED
    BY <1>11, <2>1, <2>2 DEF Scanned
<1>14. Covers(scan, ItemsOf, key)
  <2>1. \A j \in DOMAIN scan : key[scan[j]] = scan[j].handle
    BY <1>5, <1>12
  <2>2. \A j \in DOMAIN scan : \A x \in ItemsOf :
           key[x] < key[scan[j]] => \E i \in 1 .. j - 1 : scan[i] = x
    BY <1>5, <1>11, <2>1 DEF Scanned
  <2>3. scan \in Seq(ItemsOf)
    BY <1>11 DEF Scanned
  <2> QED
    BY <1>13, <2>2, <2>3 DEF Covers
<1>15. Rising(registered, StartOf) => Rising(scan, key)
  <2>1. \A j \in DOMAIN scan : key[scan[j]] = scan[j].handle
    BY <1>5, <1>12
  <2> QED
    BY <1>11, <2>1 DEF Rising, Scanned
<1> QED
  BY <1>14, <1>15 DEF key

\* A window has all items of its range, each only behind those of smaller handles.
InRange(start, end) == {x \in ItemsOf : start <= x.handle /\ x.handle <= end}

LEMMA WindowCovers ==
    ASSUME NEW registered, Covers(registered, ServiceId, StartOf), NEW start \in Nat, NEW end \in Nat
    PROVE  /\ Covers(Window(registered, start, end), InRange(start, end), HandleIn(ItemsOf))
           /\ Rising(registered, StartOf) => Rising(Window(registered, start, end), HandleIn(ItemsOf))
<1> PICK scan, key : scan = Scan(registered) /\ key = HandleIn(ItemsOf)
  OBVIOUS
<1>1. Covers(scan, ItemsOf, key) /\ (Rising(registered, StartOf) => Rising(scan, key))
  BY ScanCovers
<1>2. \A x \in ItemsOf : key[x] = x.handle /\ x.handle \in Nat
  BY ItemFacts DEF HandleIn
<1>3. PICK n \in Nat : DOMAIN scan = 1 .. n /\ \A i \in 1 .. n : scan[i] \in ItemsOf
  BY <1>1 DEF Covers
<1>4. PICK P : P = {i \in 1 .. n : /\ ~(scan[i].handle < start)
                                   /\ \A j \in 1 .. i : scan[j].handle < start \/ scan[j].handle <= end}
  OBVIOUS
<1>5. Window(registered, start, end) = Picked(scan, P)
  BY <1>3, <1>4 DEF Window
<1>6. \A i \in 1 .. n : \A j \in 1 .. i : j \in 1 .. n
  BY <1>3
<1>7. ASSUME NEW i \in P \cap DOMAIN scan PROVE scan[i] \in InRange(start, end)
  <2>1. i \in 1 .. n /\ i \in 1 .. i /\ scan[i] \in ItemsOf
    BY <1>3, <1>4
  <2>2. ~(scan[i].handle < start) /\ (scan[i].handle < start \/ scan[i].handle <= end)
    BY <1>4, <2>1
  <2>3. scan[i].handle \in Nat
    BY <1>2, <2>1
  <2>4. start <= scan[i].handle
    BY <2>2, <2>3
  <2> QED
    BY <2>1, <2>2, <2>4 DEF InRange
<1>8. ASSUME NEW j \in P \cap DOMAIN scan, NEW i \in 1 .. j - 1, scan[i] \in InRange(start, end) PROVE i \in P
  <2>1. j \in 1 .. n /\ i \in 1 .. n /\ \A l \in 1 .. i : l \in 1 .. j
    BY <1>3, <1>4
  <2>2. ~(scan[i].handle < start)
    <3>1. start <= scan[i].handle /\ scan[i].handle \in Nat
      BY <1>2, <1>8 DEF InRange
    <3> QED
      BY <3>1
  <2>3. \A l \in 1 .. j : scan[l].handle < start \/ scan[l].handle <= end
    BY <1>4
  <2> QED
    BY <1>4, <2>1, <2>2, <2>3
<1>9. ASSUME NEW y \in InRange(start, end) PROVE \E i \in P \cap DOMAIN scan : scan[i] = y
  <2>1. y \in ItemsOf /\ y.handle \in Nat /\ start <= y.handle /\ y.handle <= end /\ key[y] = y.handle
    BY <1>2 DEF InRange
  <2> DEFINE At == {i \in 1 .. n : scan[i] = y}
  <2>2. At \subseteq Nat /\ At # {}
    <3>1. \E i \in DOMAIN scan : scan[i] = y
      BY <1>1, <2>1 DEF Covers
    <3> QED
      BY <1>3, <3>1
  <2>3. PICK i \in At : \A l \in At : i <= l
    BY <2>2, LeastExists
  <2>4. ASSUME NEW j \in 1 .. i PROVE scan[j].handle < start \/ scan[j].handle <= end
    <3>1. j \in 1 .. n /\ i \in 1 .. n
      BY <1>6
    <3>2. scan[j] \in ItemsOf /\ scan[j].handle \in Nat /\ key[scan[j]] = scan[j].handle
      BY <1>2, <1>3, <3>1
    <3>3. key[y] < key[scan[j]] => \E l \in 1 .. j - 1 : scan[l] = y
      <4>1. \A l \in DOMAIN scan : \A x \in ItemsOf :
               key[x] < key[scan[l]] => \E m \in 1 .. l - 1 : scan[m] = x
        BY <1>1 DEF Covers
      <4> QED
        BY <1>3, <2>1, <3>1, <4>1
    <3>4. \A l \in 1 .. j - 1 : l \in 1 .. n /\ ~(i <= l)
      BY <1>3, <3>1
    <3>5. ~(key[y] < key[scan[j]])
      BY <2>3, <3>3, <3>4
    <3>6. ~(y.handle < scan[j].handle)
      BY <2>1, <3>2, <3>5
    <3> QED
      BY <2>1, <3>2, <3>6
  <2>5. ~(scan[i].handle < start)
    <3>1. ~(y.handle < start)
      BY <2>1
    <3> QED
      BY <3>1
  <2>6. i \in P
    BY <1>4, <2>4, <2>5
  <2> QED
    BY <1>3, <2>6
<1>10. InRange(start, end) \subseteq ItemsOf
  BY DEF InRange
<1>11. /\ Covers(Picked(scan, P), InRange(start, end), key)
       /\ Rising(scan, key) => Rising(Picked(scan, P), key)
  BY <1>1, <1>7, <1>8, <1>9, <1>10, PickedCovers
<1> QED
  BY <1>1, <1>5, <1>11

-----------------------------------------------------------------------------
(* Responses that go on where the last one ended.                           *)

\* entries have a handle each, and no two have the same
Keyed(R) == /\ \A e \in R : e.handle \in Nat
            /\ \A e, f \in R : e.handle = f.handle => e = f

\* the entries that are still to be found
Ahead(R, next) == {e \in R : next <= e.handle}

\* the entries a handler makes of what it visited, before they are cut to the MTU
Listed(entries, W, fresh) ==
    Covers(entries, W, HandleIn(W)) /\ (fresh => Rising(entries, HandleIn(W)))

\* What a discovery is bound to find when these handles are overwritten: all of its reference,
\* but not the service whose declaration is one of them if it looks for that.
Sought(c, gone) ==
    IF c.procedure = "service" /\ Service[c.target].start_handle \in gone THEN {} ELSE Reference(c)

\* A response has the entries from the next handle to that of its last, an error says there are
\* no more; each once and in order while services are registered once.
Continues(c, pdu, fresh, gone) ==
    IF pdu.op = "error" THEN \A e \in Sought(c, gone) : e.handle < c.next
    ELSE /\ Sequence(pdu.list) /\ pdu.list # <<>>
         /\ \A e \in ToSet(pdu.list) : e \in Reference(c) /\ c.next <= e.handle
         /\ \A e \in Sought(c, gone) :
              c.next <= e.handle /\ e.handle <= pdu.list[Len(pdu.list)].handle => e \in ToSet(pdu.list)
         /\ fresh => \A i, j \in DOMAIN pdu.list : i < j => pdu.list[i].handle < pdu.list[j].handle

LEMMA SoughtFacts ==
    ASSUME NEW c, NEW gone
    PROVE  /\ Sought(c, gone) \subseteq Reference(c)
           /\ c.procedure # "service" => Sought(c, gone) = Reference(c)
           /\ \A more : gone \subseteq more => Sought(c, more) \subseteq Sought(c, gone)
  BY DEF Sought

LEMMA ListedContinues ==
    ASSUME NEW c, NEW fresh, NEW gone, Keyed(Reference(c)), c.next \in Nat,
           NEW entries, Listed(entries, Ahead(Sought(c, gone), c.next), fresh),
           NEW header \in 0 .. 2, NEW size \in EntrySizes, NEW mtu \in Nat, mtu >= ATT_MTU_DEFAULT,
           NEW request, request # "error", NEW start
    PROVE  Continues(c, Listing(request, start, Page(entries, header, size, mtu), header, size), fresh, gone)
<1> DEFINE R == Reference(c)
           S == Sought(c, gone)
           W == Ahead(S, c.next)
           page == Page(entries, header, size, mtu)
           pdu == Listing(request, start, page, header, size)
<1>1. entries \in Seq(W) /\ Sequence(entries)
  <2>1. entries \in Seq(W)
    BY DEF Listed, Covers
  <2> QED
    BY <2>1, SequenceOf
<1>2. /\ \A e \in R : e.handle \in Nat
      /\ \A e, f \in R : e.handle = f.handle => e = f
  BY DEF Keyed
<1>3. S \subseteq R /\ \A e : e \in W <=> e \in S /\ c.next <= e.handle
  BY SoughtFacts DEF Ahead
<1>4. /\ Sequence(page) /\ Len(page) \in Nat
      /\ \A i \in 1 .. Len(page) : i \in DOMAIN entries /\ page[i] = entries[i]
      /\ Len(page) = 0 => Len(entries) = 0
  BY <1>1, PageFacts
<1> HIDE DEF page
<1>5. /\ DOMAIN entries = 1 .. Len(entries) /\ Len(entries) \in Nat
      /\ \A i \in DOMAIN entries : entries[i] \in W
  BY <1>1
<1> HIDE DEF R, S, W
<1>6. /\ \A e \in W : \E i \in DOMAIN entries : entries[i] = e
      /\ \A j \in DOMAIN entries : \A e \in W : e.handle < entries[j].handle => \E i \in 1 .. j - 1 : entries[i] = e
  <2>1. Covers(entries, W, HandleIn(W))
    BY DEF Listed, S, W
  <2>2. \A e \in W : \E i \in DOMAIN entries : entries[i] = e
    BY <2>1 DEF Covers
  <2>3. \A j \in DOMAIN entries : \A e \in W :
           HandleIn(W)[e] < HandleIn(W)[entries[j]] => \E i \in 1 .. j - 1 : entries[i] = e
    BY <2>1 DEF Covers
  <2>4. \A e \in W : HandleIn(W)[e] = e.handle
    BY DEF HandleIn
  <2>5. ASSUME NEW j \in DOMAIN entries, NEW e \in W, e.handle < entries[j].handle
        PROVE  \E i \in 1 .. j - 1 : entries[i] = e
    <3>1. HandleIn(W)[e] = e.handle /\ HandleIn(W)[entries[j]] = entries[j].handle
      BY <1>5, <2>4
    <3>2. HandleIn(W)[e] < HandleIn(W)[entries[j]]
      BY <2>5, <3>1
    <3> QED
      BY <2>3, <3>2
  <2> QED
    BY <2>2, <2>5
<1>7. CASE page = <<>>
  <2>1. Len(page) = 0
    BY <1>7
  <2>2. DOMAIN entries = {}
    BY <1>4, <1>5, <2>1
  <2>3. W = {}
    BY <1>6, <2>2
  <2>4. \A e \in S : e.handle < c.next
    BY <1>2, <1>3, <2>3
  <2>5. pdu.op = "error"
    BY <1>7 DEF Listing, gatt_send_error_resp
  <2> QED
    BY <2>4, <2>5 DEF Continues, S, page
<1>8. CASE page # <<>>
  <2>1. pdu.op = request /\ pdu.list = page
    BY <1>8 DEF Listing
  <2> PICK n : n = Len(page)
    OBVIOUS
  <2>2. n \in Nat /\ n # 0 /\ DOMAIN page = 1 .. n
    BY <1>4, <1>8, SequenceFacts
  <2>3. \A i \in 1 .. n : i \in DOMAIN entries /\ page[i] = entries[i] /\ page[i] \in W
    BY <1>4, <1>5
  <2>4. \A e \in ToSet(page) : e \in R /\ c.next <= e.handle
    BY <1>3, <2>2, <2>3 DEF ToSet
  <2>5. ASSUME NEW e \in S, c.next <= e.handle, e.handle <= page[n].handle PROVE e \in ToSet(page)
    <3>1. /\ n \in 1 .. n /\ page[n] = entries[n] /\ page[n] \in R /\ e \in R
          /\ page[n].handle \in Nat /\ e.handle \in Nat
      BY <1>2, <1>3, <2>2, <2>3
    <3>2. CASE e.handle = page[n].handle
      <4>1. e = page[n]
        BY <1>2, <3>1, <3>2
      <4> QED
        BY <2>2, <3>1, <4>1 DEF ToSet
    <3>3. CASE e.handle # page[n].handle
      <4>1. e.handle < page[n].handle
        BY <2>5, <3>1, <3>3
      <4>2. e \in W
        BY <1>3, <2>5
      <4>3. n \in DOMAIN entries /\ e.handle < entries[n].handle
        BY <2>3, <3>1, <4>1
      <4>4. PICK i \in 1 .. n - 1 : entries[i] = e
        BY <1>6, <4>2, <4>3
      <4>5. i \in 1 .. n
        BY <2>2
      <4>6. page[i] = e
        BY <2>3, <4>4, <4>5
      <4> QED
        BY <2>2, <4>5, <4>6 DEF ToSet
    <3> QED
      BY <3>2, <3>3
  <2>6. ASSUME fresh, NEW i \in 1 .. n, NEW j \in 1 .. n, i < j PROVE page[i].handle < page[j].handle
    <3>1. \A k, l \in DOMAIN entries : k < l => HandleIn(W)[entries[k]] < HandleIn(W)[entries[l]]
      BY <2>6 DEF Listed, S, W, Rising
    <3>2. \A e \in W : HandleIn(W)[e] = e.handle
      BY DEF HandleIn
    <3>3. HandleIn(W)[page[i]] < HandleIn(W)[page[j]]
      BY <2>3, <2>6, <3>1
    <3> QED
      BY <2>3, <3>2, <3>3
  <2>7. Sequence(page) /\ page[Len(page)].handle = page[n].handle
    BY <1>4
  <2> HIDE DEF pdu
  <2>8. Continues(c, pdu, fresh, gone)
    BY <1>8, <2>1, <2>2, <2>4, <2>5, <2>6, <2>7 DEF Continues, R, S
  <2> QED
    BY <2>8 DEF pdu, page
<1> QED
  BY <1>7, <1>8 DEF page

\* the entries of the four discoveries
AsInformation(x) == [handle |-> x.handle, type |-> x.type]
AsDeclaration(x) == [handle |-> x.handle, size |-> x.size]
AsGroup(id) == [handle |-> Service[id].start_handle, end |-> Service[id].end_handle]

InformationIn(first, end) == {AsInformation(x) : x \in InRange(first, end)}
DeclarationsIn(first, end) ==
    {AsDeclaration(x) : x \in {y \in InRange(first, end) : y.type = "characteristic"}}

LEMMA MappedListed ==
    ASSUME NEW X, NEW key, NEW s, Covers(s, X, key), NEW fresh, fresh => Rising(s, key),
           NEW f, \A x \in X : f[x].handle = key[x], NEW W, W = AllThrough(f, X), NEW t, t = Through(f, s)
    PROVE  Listed(t, W, fresh)
<1>1. PICK order : order = HandleIn(W)
  OBVIOUS
<1>2. \A x \in X : order[f[x]] = key[x]
  BY <1>1 DEF AllThrough, HandleIn
<1>3. Covers(t, W, order) /\ (Rising(s, key) => Rising(t, order))
  BY <1>2, MappedCovers
<1> QED
  BY <1>1, <1>3 DEF Listed

\* The service an item is of is the one whose table has it.
LEMMA OwnService ==
    ASSUME NEW id \in ServiceId, NEW x \in ToSet(Service[id].items)
    PROVE  x \in ItemsOf /\ ServiceOf(x.handle) = id
<1>1. x \in ItemsOf
  BY ItemOrder
<1>2. ItemAt[x.handle] = x
  BY <1>1, ItemAtHandle
<1>3. ASSUME NEW other \in ServiceId, x \in ToSet(Service[other].items) PROVE other = id
  <2>1. \/ id = other \/ Service[id].end_handle < Service[other].start_handle
        \/ Service[other].end_handle < Service[id].start_handle
    BY Tables
  <2> PICK a, b, c, d, h : /\ a = Service[id].start_handle /\ b = Service[id].end_handle
                           /\ c = Service[other].start_handle /\ d = Service[other].end_handle
                           /\ h = x.handle
    OBVIOUS
  <2>2. a \in Nat /\ b \in Nat /\ c \in Nat /\ d \in Nat
    BY Tables
  <2>3. StartOf[id] = a /\ StartOf[other] = c
    BY DEF StartOf
  <2>4. h \in Nat /\ a <= h /\ h <= b /\ c <= h /\ h <= d
    BY <1>3, <2>3, ItemOrder
  <2>5. ~(b < c) /\ ~(d < a)
    BY <2>2, <2>4
  <2> QED
    BY <2>1, <2>5
<1>4. ServiceOf(x.handle) = CHOOSE own \in ServiceId : x \in ToSet(Service[own].items)
  BY <1>2 DEF ServiceOf
<1>5. \E own \in ServiceId : x \in ToSet(Service[own].items)
  OBVIOUS
<1> QED
  BY <1>1, <1>3, <1>4, <1>5

LEMMA InformationListed ==
    ASSUME NEW registered, Covers(registered, ServiceId, StartOf), NEW fresh,
           fresh => Rising(registered, StartOf),
           NEW start \in Nat, NEW end \in Nat, NEW first \in Nat, first <= start,
           NEW window, window = Window(registered, start, end)
    PROVE  Listed([i \in DOMAIN window |-> [handle |-> window[i].handle, type |-> window[i].type]],
                  Ahead(InformationIn(first, end), start), fresh)
<1>0. PICK R : R = InformationIn(first, end)
  OBVIOUS
<1> PICK X, key : X = InRange(start, end) /\ key = HandleIn(ItemsOf)
  OBVIOUS
<1>1. Covers(window, X, key) /\ (fresh => Rising(window, key))
  BY WindowCovers
<1>2. \A x \in ItemsOf : key[x] = x.handle /\ x.handle \in Nat
  BY ItemFacts DEF HandleIn
<1>3. \A x : x \in X <=> x \in ItemsOf /\ start <= x.handle /\ x.handle <= end
  BY DEF InRange
<1>f. PICK f : f = [x \in X |-> AsInformation(x)]
  OBVIOUS
<1>4. \A x \in X : f[x] = AsInformation(x) /\ f[x].handle = key[x]
  BY <1>2, <1>3, <1>f DEF AsInformation
<1>5. Ahead(R, start) = {f[x] : x \in X}
  <2>1. ASSUME NEW e \in Ahead(R, start) PROVE e \in {f[x] : x \in X}
    <3>1. PICK x \in InRange(first, end) : e = AsInformation(x)
      BY <1>0 DEF Ahead, InformationIn
    <3>2. start <= x.handle
      BY <3>1 DEF Ahead, AsInformation
    <3>3. x \in X
      BY <1>3, <3>2 DEF InRange
    <3> QED
      BY <1>4, <3>1, <3>3
  <2>2. ASSUME NEW x \in X PROVE f[x] \in Ahead(R, start)
    <3>1. x \in ItemsOf /\ x.handle \in Nat /\ start <= x.handle /\ x.handle <= end
      BY <1>2, <1>3
    <3>2. x \in InRange(first, end)
      BY <3>1 DEF InRange
    <3>3. f[x].handle = x.handle
      BY <1>f DEF AsInformation
    <3> QED
      BY <1>0, <1>4, <3>1, <3>2, <3>3 DEF Ahead, InformationIn
  <2> QED
    BY <2>1, <2>2
<1>t. PICK t : t = [i \in DOMAIN window |-> f[window[i]]]
  OBVIOUS
<1>6. Listed(t, Ahead(R, start), fresh)
  <2>1. PICK W : W = Ahead(R, start)
    OBVIOUS
  <2>2. W = AllThrough(f, X)
    BY <2>1, <1>5 DEF AllThrough
  <2>3. t = Through(f, window)
    BY <1>t DEF Through
  <2>4. Listed(t, W, fresh)
    BY <1>1, <1>4, <2>2, <2>3, MappedListed
  <2> QED
    BY <2>1, <2>4
<1>7. \A i \in DOMAIN window : f[window[i]] = [handle |-> window[i].handle, type |-> window[i].type]
  <2>1. \A i \in DOMAIN window : window[i] \in X
    BY <1>1 DEF Covers
  <2> QED
    BY <1>4, <2>1 DEF AsInformation
<1>8. t = [i \in DOMAIN window |-> [handle |-> window[i].handle, type |-> window[i].type]]
  BY <1>7, <1>t
<1> QED
  BY <1>0, <1>6, <1>8

DeclarationEntries(matches) ==
    [i \in DOMAIN matches |-> [handle |-> matches[i].handle, size |-> matches[i].size]]

\* what ReadByType takes for the size of an entry
EntrySize(matches) == 2 + (IF matches = <<>> THEN 0 ELSE matches[1].size)

\* Declarations of characteristics are all of one size, so the list is not cut short.
LEMMA DeclarationsListed ==
    ASSUME NEW registered, Covers(registered, ServiceId, StartOf), NEW fresh,
           fresh => Rising(registered, StartOf),
           NEW start \in Nat, NEW end \in Nat, NEW first \in Nat, first <= start,
           NEW matches, matches = OfTypeAndSize(Window(registered, start, end), "characteristic")
    PROVE  /\ EntrySize(matches) \in EntrySizes
           /\ Listed(DeclarationEntries(matches), Ahead(DeclarationsIn(first, end), start), fresh)
<1>0. PICK R : R = DeclarationsIn(first, end)
  OBVIOUS
<1> PICK window, key : window = Window(registered, start, end) /\ key = HandleIn(ItemsOf)
  OBVIOUS
<1>1. PICK X : X = {x \in InRange(start, end) : x.type = "characteristic"}
  OBVIOUS
<1>2. Covers(window, InRange(start, end), key) /\ (fresh => Rising(window, key))
  BY WindowCovers
<1>3. \A x \in ItemsOf : key[x] = x.handle /\ x.handle \in Nat
  BY ItemFacts DEF HandleIn
<1>4. \A x : x \in X <=> /\ x \in ItemsOf /\ start <= x.handle /\ x.handle <= end
                         /\ x.type = "characteristic"
  BY <1>1 DEF InRange
<1>5. \A x \in X : x.size = 5
  <2> SUFFICES ASSUME NEW x \in X PROVE x.size = 5
    OBVIOUS
  <2>1. PICK id \in ServiceId : x \in ToSet(Service[id].items)
    BY <1>4, ItemOrder
  <2>2. Table(Service[id].items, Service[id].start_handle, Service[id].end_handle)
    BY Tables
  <2> QED
    BY <1>4, <2>1, <2>2 DEF Table
<1>6. PICK all, some : /\ some = {i \in DOMAIN window : window[i].type = "characteristic"}
                          /\ all = Picked(window, some)
  OBVIOUS
<1>7. Covers(all, X, key) /\ (fresh => Rising(all, key))
  <2>1. \A i \in DOMAIN window : window[i] \in InRange(start, end)
    BY <1>2 DEF Covers
  <2>2. some = {i \in DOMAIN window : window[i] \in X}
    BY <1>1, <1>6, <2>1
  <2>3. X \subseteq InRange(start, end)
    BY <1>1
  <2> QED
    BY <1>2, <1>6, <2>2, <2>3, SelectedCovers
<1>8. matches = Picked(all, {i \in DOMAIN all : \A j \in 1 .. i : all[j].size = all[1].size})
  BY <1>6 DEF OfTypeAndSize
<1>9. \A i \in DOMAIN all : all[i] \in X
  BY <1>7 DEF Covers
<1>10. {i \in DOMAIN all : \A j \in 1 .. i : all[j].size = all[1].size} = {i \in DOMAIN all : all[i] \in X}
  <2>1. PICK n \in Nat : DOMAIN all = 1 .. n
    <3>1. all \in Seq(X)
      BY <1>7 DEF Covers
    <3> QED
      BY <3>1
  <2>2. ASSUME NEW i \in 1 .. n, NEW j \in 1 .. i PROVE all[j].size = all[1].size
    <3>1. j \in DOMAIN all /\ 1 \in DOMAIN all
      BY <2>1
    <3> QED
      BY <1>5, <1>9, <3>1
  <2> QED
    BY <1>9, <2>1, <2>2
<1>11. Covers(matches, X, key) /\ (fresh => Rising(matches, key))
  <2>1. X \subseteq X
    OBVIOUS
  <2> QED
    BY <1>7, <1>8, <1>10, <2>1, SelectedCovers
<1> PICK f : f = [x \in X |-> AsDeclaration(x)]
  OBVIOUS
<1>12. \A x \in X : f[x] = AsDeclaration(x) /\ f[x].handle = key[x]
  BY <1>3, <1>4 DEF AsDeclaration
<1>13. Ahead(R, start) = {f[x] : x \in X}
  <2>1. ASSUME NEW e \in Ahead(R, start) PROVE e \in {f[x] : x \in X}
    <3>1. PICK x \in InRange(first, end) : e = AsDeclaration(x) /\ x.type = "characteristic"
      BY <1>0 DEF Ahead, DeclarationsIn
    <3>2. start <= x.handle
      BY <3>1 DEF Ahead, AsDeclaration
    <3>3. x \in X
      BY <1>4, <3>1, <3>2 DEF InRange
    <3> QED
      BY <1>12, <3>1, <3>3
  <2>2. ASSUME NEW x \in X PROVE f[x] \in Ahead(R, start)
    <3>1. /\ x \in ItemsOf /\ x.handle \in Nat /\ start <= x.handle /\ x.handle <= end
          /\ x.type = "characteristic"
      BY <1>3, <1>4
    <3>2. x \in InRange(first, end)
      BY <3>1 DEF InRange
    <3>3. f[x].handle = x.handle
      BY <1>12 DEF AsDeclaration
    <3> QED
      BY <1>0, <1>12, <3>1, <3>2, <3>3 DEF Ahead, DeclarationsIn
  <2> QED
    BY <2>1, <2>2
<1>t. PICK t : t = [i \in DOMAIN matches |-> f[matches[i]]]
  OBVIOUS
<1>14. Listed(t, Ahead(R, start), fresh)
  <2>1. PICK W : W = Ahead(R, start)
    OBVIOUS
  <2>2. W = AllThrough(f, X)
    BY <2>1, <1>13 DEF AllThrough
  <2>3. t = Through(f, matches)
    BY <1>t DEF Through
  <2>4. Listed(t, W, fresh)
    BY <1>11, <1>12, <2>2, <2>3, MappedListed
  <2> QED
    BY <2>1, <2>4
<1>15. \A i \in DOMAIN matches : matches[i] \in X
  BY <1>11 DEF Covers
<1>16. t = [i \in DOMAIN matches |-> [handle |-> matches[i].handle, size |-> matches[i].size]]
  <2>1. \A i \in DOMAIN matches :
           f[matches[i]] = [handle |-> matches[i].handle, size |-> matches[i].size]
    BY <1>12, <1>15 DEF AsDeclaration
  <2> QED
    BY <2>1, <1>t
<1>17. matches \in Seq(ItemsOf)
  <2>1. matches \in Seq(X) /\ X \subseteq ItemsOf
    BY <1>4, <1>11 DEF Covers
  <2> QED
    BY <2>1, SeqMonotonic
<1>18. EntrySize(matches) \in EntrySizes
  <2>1. matches # <<>> => 1 \in DOMAIN matches
    BY <1>17
  <2>2. matches # <<>> => matches[1].size = 5
    BY <1>5, <1>15, <2>1
  <2> QED
    BY <2>2 DEF EntrySize, EntrySizes
<1> QED
  BY <1>0, <1>14, <1>16, <1>18 DEF DeclarationEntries

\* the services whose declarations the handlers for them pick
Declared(registered, start) ==
    Picked(registered, {i \in DOMAIN registered :
        LET service == Service[registered[i]] IN
        /\ start <= service.start_handle /\ service.end_handle <= LastHandle
        /\ service.items[1].type = "primary_service"})
DeclarationsOf(id, window, gone) ==
    Picked(window, {i \in DOMAIN window :
        /\ window[i].type = "primary_service" /\ ServiceOf(window[i].handle) = id
        /\ window[i].handle \notin gone})

LEMMA GroupsListed ==
    ASSUME NEW registered, Covers(registered, ServiceId, StartOf), NEW fresh,
           fresh => Rising(registered, StartOf), NEW start \in Nat,
           NEW within, within = Declared(registered, start)
    PROVE  Listed([i \in DOMAIN within |-> [handle |-> Service[within[i]].start_handle,
                                            end    |-> Service[within[i]].end_handle]],
                  Ahead({AsGroup(id) : id \in ServiceId}, start), fresh)
<1>1. PICK X : X = {id \in ServiceId : start <= StartOf[id]}
  OBVIOUS
<1>2. \A id \in ServiceId : /\ StartOf[id] = Service[id].start_handle /\ Service[id].end_handle <= LastHandle
                            /\ Service[id].items[1].type = "primary_service"
  <2> SUFFICES ASSUME NEW id \in ServiceId
               PROVE  /\ StartOf[id] = Service[id].start_handle /\ Service[id].end_handle <= LastHandle
                      /\ Service[id].items[1].type = "primary_service"
    OBVIOUS
  <2>1. /\ Table(Service[id].items, Service[id].start_handle, Service[id].end_handle)
        /\ Service[id].end_handle \in Nat /\ Service[id].end_handle < 65535
    BY Tables
  <2>2. Service[id].end_handle <= LastHandle
    BY <2>1 DEF LastHandle
  <2> QED
    BY <2>1, <2>2 DEF StartOf, Table
<1>3. \A i \in DOMAIN registered : registered[i] \in ServiceId
  BY DEF Covers
<1>4. within = Picked(registered, {i \in DOMAIN registered : registered[i] \in X})
  <2>1. {i \in DOMAIN registered : registered[i] \in X} =
          {i \in DOMAIN registered : LET service == Service[registered[i]] IN
             /\ start <= service.start_handle /\ service.end_handle <= LastHandle
             /\ service.items[1].type = "primary_service"}
    BY <1>1, <1>2, <1>3
  <2> QED
    BY <2>1 DEF Declared
<1>5. Covers(within, X, StartOf) /\ (fresh => Rising(within, StartOf))
  <2>1. X \subseteq ServiceId
    BY <1>1
  <2> QED
    BY <1>4, <2>1, SelectedCovers
<1>6. PICK f : f = [id \in X |-> AsGroup(id)]
  OBVIOUS
<1>7. \A id \in X : f[id] = AsGroup(id) /\ f[id].handle = StartOf[id]
  BY <1>1, <1>2, <1>6 DEF AsGroup
<1>8. PICK W : W = Ahead({AsGroup(id) : id \in ServiceId}, start)
  OBVIOUS
<1>9. W = {f[id] : id \in X}
  <2>1. \A id \in ServiceId : AsGroup(id).handle = StartOf[id]
    BY <1>2 DEF AsGroup
  <2> QED
    BY <1>1, <1>7, <1>8, <2>1 DEF Ahead
<1>10. PICK t : t = [i \in DOMAIN within |-> f[within[i]]]
  OBVIOUS
<1>11. Listed(t, W, fresh)
  <2>1. W = AllThrough(f, X)
    BY <1>9 DEF AllThrough
  <2>2. t = Through(f, within)
    BY <1>10 DEF Through
  <2> QED
    BY <1>5, <1>7, <2>1, <2>2, MappedListed
<1>12. \A i \in DOMAIN within : within[i] \in X
  BY <1>5 DEF Covers
<1>13. t = [i \in DOMAIN within |-> [handle |-> Service[within[i]].start_handle,
                                     end    |-> Service[within[i]].end_handle]]
  <2>1. \A i \in DOMAIN within : f[within[i]] = [handle |-> Service[within[i]].start_handle,
                                                 end    |-> Service[within[i]].end_handle]
    BY <1>7, <1>12 DEF AsGroup
  <2> QED
    BY <1>10, <2>1
<1> QED
  BY <1>8, <1>11, <1>13

LEMMA ServiceListed ==
    ASSUME NEW registered, Covers(registered, ServiceId, StartOf), NEW fresh,
           fresh => Rising(registered, StartOf), NEW start \in Nat, NEW id \in ServiceId,
           NEW window, window = Window(registered, start, LastHandle),
           NEW gone, NEW matches, matches = DeclarationsOf(id, window, gone),
           NEW sought, sought = IF Service[id].start_handle \in gone THEN {} ELSE {AsGroup(id)}
    PROVE  Listed(Groups(matches), Ahead(sought, start), fresh)
<1>1. PICK all, key : all = InRange(start, LastHandle) /\ key = HandleIn(ItemsOf)
  OBVIOUS
<1>2. PICK X : X = {x \in all : /\ x.type = "primary_service" /\ ServiceOf(x.handle) = id
                               /\ x.handle \notin gone}
  OBVIOUS
<1>3. Covers(window, all, key) /\ (fresh => Rising(window, key))
  <2>1. LastHandle \in Nat
    BY DEF LastHandle
  <2> QED
    BY <1>1, <2>1, WindowCovers
<1>4. \A x \in ItemsOf : key[x] = x.handle /\ x.handle \in Nat
  BY <1>1, ItemFacts DEF HandleIn
<1>5. \A x : x \in all <=> x \in ItemsOf /\ start <= x.handle /\ x.handle <= LastHandle
  BY <1>1 DEF InRange
<1>6. Covers(matches, X, key) /\ (fresh => Rising(matches, key))
  <2>1. \A i \in DOMAIN window : window[i] \in all
    BY <1>3 DEF Covers
  <2>2. PICK P : P = {i \in DOMAIN window : window[i] \in X}
    OBVIOUS
  <2>3. P = {i \in DOMAIN window : /\ window[i].type = "primary_service"
                                   /\ ServiceOf(window[i].handle) = id
                                   /\ window[i].handle \notin gone}
    BY <1>2, <2>1, <2>2
  <2>4. X \subseteq all
    BY <1>2
  <2>5. matches = Picked(window, P)
    BY <2>3 DEF DeclarationsOf
  <2>6. Covers(Picked(window, P), X, key) /\ (Rising(window, key) => Rising(Picked(window, P), key))
    BY <1>3, <2>2, <2>4, SelectedCovers
  <2> QED
    BY <1>3, <2>5, <2>6
<1>7. /\ Table(Service[id].items, Service[id].start_handle, Service[id].end_handle)
      /\ Service[id].start_handle \in Nat /\ Service[id].end_handle \in Nat
      /\ Service[id].end_handle < 65535 /\ Service[id].start_handle < Service[id].end_handle
  BY Tables
<1>8. ASSUME NEW x \in X PROVE x.handle = Service[id].start_handle /\ x.handle \notin gone
  <2>1. x \in ItemsOf /\ x.type = "primary_service" /\ ServiceOf(x.handle) = id
    BY <1>2, <1>5
  <2>2. PICK own \in ServiceId : x \in ToSet(Service[own].items)
    BY <2>1, ItemOrder
  <2>3. own = id
    BY <2>1, <2>2, OwnService
  <2>4. x \in ToSet(Service[id].items)
    BY <2>2, <2>3
  <2> QED
    BY <1>2, <1>7, <2>1, <2>4 DEF Table
<1>9. start <= Service[id].start_handle /\ Service[id].start_handle \notin gone =>
        \E x \in X : x.handle = Service[id].start_handle
  <2>1. PICK x : x = Service[id].items[1]
    OBVIOUS
  <2>2. x \in ToSet(Service[id].items) /\ x.handle = Service[id].start_handle /\ x.type = "primary_service"
    BY <1>7, <2>1 DEF Table, ToSet
  <2>3. x \in ItemsOf /\ ServiceOf(x.handle) = id
    BY <2>2, OwnService
  <2>4. Service[id].start_handle <= LastHandle
    BY <1>7 DEF LastHandle
  <2> QED
    BY <1>2, <1>5, <2>2, <2>3, <2>4
<1>10. PICK f : f = [x \in X |-> AsGroup(id)]
  OBVIOUS
<1>11. AsGroup(id).handle = Service[id].start_handle
  BY DEF AsGroup
<1>12. \A x \in X : f[x] = AsGroup(id) /\ f[x].handle = key[x] /\ start <= x.handle
  BY <1>2, <1>4, <1>5, <1>8, <1>10, <1>11
<1>13. PICK W : W = Ahead(sought, start)
  OBVIOUS
<1>14. \A e : e \in W <=> /\ e = AsGroup(id) /\ start <= Service[id].start_handle
                         /\ Service[id].start_handle \notin gone
  BY <1>11, <1>13 DEF Ahead
<1>15. W = {f[x] : x \in X}
  BY <1>8, <1>9, <1>12, <1>14
<1>16. PICK t : t = [i \in DOMAIN matches |-> f[matches[i]]]
  OBVIOUS
<1>17. Listed(t, W, fresh)
  <2>1. W = AllThrough(f, X)
    BY <1>15 DEF AllThrough
  <2>2. t = Through(f, matches)
    BY <1>16 DEF Through
  <2> QED
    BY <1>6, <1>12, <2>1, <2>2, MappedListed
<1>18. \A i \in DOMAIN matches : matches[i] \in X
  BY <1>6 DEF Covers
<1>19. t = Groups(matches)
  <2>1. \A i \in DOMAIN matches : /\ matches[i].handle = Service[id].start_handle
                                  /\ ServiceOf(matches[i].handle) = id
    BY <1>2, <1>8, <1>18
  <2>2. \A i \in DOMAIN matches :
           f[matches[i]] = [handle |-> matches[i].handle,
                            end |-> Service[ServiceOf(matches[i].handle)].end_handle]
    BY <1>12, <1>18, <2>1 DEF AsGroup
  <2> QED
    BY <1>16, <2>2 DEF Groups
<1> QED
  BY <1>13, <1>17, <1>19

LEMMA HandleBounds ==
    ASSUME NEW target
    PROVE  /\ FirstHandle(target) \in Nat /\ FinalHandle(target) \in Nat
           /\ target \in ServiceId => FirstHandle(target) = Service[target].start_handle
                                      /\ FinalHandle(target) = Service[target].end_handle
           /\ target \notin ServiceId => FirstHandle(target) = 1 /\ FinalHandle(target) = 65535
<1>1. CASE target \in ServiceId
  BY <1>1, Tables DEF FirstHandle, FinalHandle
<1>2. CASE target \notin ServiceId
  BY <1>2 DEF FirstHandle, FinalHandle, LastHandle
<1> QED
  BY <1>1, <1>2

\* The references of the model, by items and services.
LEMMA ReferenceForms ==
    ASSUME NEW c
    PROVE  /\ c.procedure = "services" => Reference(c) = {AsGroup(id) : id \in ServiceId}
           /\ c.procedure = "service" => Reference(c) = {AsGroup(c.target)}
           /\ c.procedure = "characteristics" =>
                Reference(c) = DeclarationsIn(FirstHandle(c.target), FinalHandle(c.target))
           /\ c.procedure = "attributes" =>
                Reference(c) = InformationIn(FirstHandle(c.target), FinalHandle(c.target))
<1>1. PICK first, final : first = FirstHandle(c.target) /\ final = FinalHandle(c.target)
  OBVIOUS
<1>2. PICK all : all = InRange(first, final)
  OBVIOUS
<1>3. \A x : x \in all <=> x \in ItemsOf /\ first <= x.handle /\ x.handle <= final
  BY <1>2 DEF InRange
<1>4. PICK within : within = {h \in DOMAIN ItemAt : first <= h /\ h <= final}
  OBVIOUS
<1>5. \A h : h \in within <=> \E x \in all : x.handle = h /\ ItemAt[h] = x
  <2>1. \A h : h \in DOMAIN ItemAt <=> \E x \in ItemsOf : x.handle = h
    BY DEF ItemAt
  <2>2. \A x \in ItemsOf : ItemAt[x.handle] = x
    BY ItemAtHandle
  <2> QED
    BY <1>3, <1>4, <2>1, <2>2
<1>6. c.procedure = "services" => Reference(c) = {AsGroup(id) : id \in ServiceId}
  BY DEF Reference, AsGroup
<1>7. c.procedure = "service" => Reference(c) = {AsGroup(c.target)}
  BY DEF Reference, AsGroup
<1>8. ASSUME c.procedure = "characteristics"
      PROVE  Reference(c) = {AsDeclaration(x) : x \in {y \in all : y.type = "characteristic"}}
  <2>1. Reference(c) =
          {[handle |-> h, size |-> 5] : h \in {i \in within : ItemAt[i].type = "characteristic"}}
    BY <1>1, <1>4, <1>8 DEF Reference
  <2>2. \A x \in all : x.type = "characteristic" => AsDeclaration(x) = [handle |-> x.handle, size |-> 5]
    <3> SUFFICES ASSUME NEW x \in all, x.type = "characteristic" PROVE x.size = 5
      BY DEF AsDeclaration
    <3>1. PICK id \in ServiceId : x \in ToSet(Service[id].items)
      BY <1>3, ItemOrder
    <3>2. Table(Service[id].items, Service[id].start_handle, Service[id].end_handle)
      BY Tables
    <3> QED
      BY <3>1, <3>2 DEF Table
  <2>3. ASSUME NEW e \in Reference(c)
        PROVE  e \in {AsDeclaration(x) : x \in {y \in all : y.type = "characteristic"}}
    <3>1. PICK h \in within : ItemAt[h].type = "characteristic" /\ e = [handle |-> h, size |-> 5]
      BY <2>1
    <3>2. PICK x \in all : x.handle = h /\ ItemAt[h] = x
      BY <1>5
    <3>3. x.type = "characteristic" /\ e = AsDeclaration(x)
      BY <2>2, <3>1, <3>2
    <3> QED
      BY <3>3
  <2>4. ASSUME NEW x \in all, x.type = "characteristic" PROVE AsDeclaration(x) \in Reference(c)
    <3>1. x.handle \in within /\ ItemAt[x.handle] = x
      <4>1. ItemAt[x.handle] = x
        BY <1>3, ItemAtHandle
      <4> QED
        BY <1>5, <4>1
    <3>2. AsDeclaration(x) = [handle |-> x.handle, size |-> 5]
      BY <2>2, <2>4
    <3>3. ItemAt[x.handle].type = "characteristic"
      BY <2>4, <3>1
    <3> QED
      BY <2>1, <3>1, <3>2, <3>3
  <2> QED
    BY <2>3, <2>4
<1>9. ASSUME c.procedure = "attributes" PROVE Reference(c) = {AsInformation(x) : x \in all}
  <2>1. Reference(c) = {[handle |-> h, type |-> ItemAt[h].type] : h \in within}
    BY <1>1, <1>4, <1>9 DEF Reference
  <2>2. ASSUME NEW e \in Reference(c) PROVE e \in {AsInformation(x) : x \in all}
    <3>1. PICK h \in within : e = [handle |-> h, type |-> ItemAt[h].type]
      BY <2>1
    <3>2. PICK x \in all : x.handle = h /\ ItemAt[h] = x
      BY <1>5
    <3>3. e = AsInformation(x)
      BY <3>1, <3>2 DEF AsInformation
    <3> QED
      BY <3>3
  <2>3. ASSUME NEW x \in all PROVE AsInformation(x) \in Reference(c)
    <3>1. ItemAt[x.handle] = x
      BY <1>3, ItemAtHandle
    <3>2. x.handle \in within
      BY <1>5, <3>1
    <3>3. AsInformation(x) = [handle |-> x.handle, type |-> ItemAt[x.handle].type]
      BY <3>1 DEF AsInformation
    <3> QED
      BY <2>1, <3>2, <3>3
  <2> QED
    BY <2>2, <2>3
<1> QED
  BY <1>1, <1>2, <1>6, <1>7, <1>8, <1>9 DEF DeclarationsIn, InformationIn

\* what a peer looks for is known to the database
Known(c) == /\ c.procedure = "services" => c.target \notin ServiceId
            /\ c.procedure = "service" => c.target \in ServiceId

LEMMA GroupFacts ==
    /\ \A id \in ServiceId :
         /\ AsGroup(id).handle = StartOf[id] /\ AsGroup(id).end = Service[id].end_handle
         /\ StartOf[id] \in Nat \ {0} /\ Service[id].end_handle \in Nat
         /\ StartOf[id] < Service[id].end_handle /\ Service[id].end_handle < 65535
    /\ \A id, other \in ServiceId : StartOf[id] = StartOf[other] => id = other
    /\ \A id, other \in ServiceId : StartOf[id] <= Service[other].end_handle => StartOf[id] <= StartOf[other]
<1>1. \A id \in ServiceId :
         /\ AsGroup(id).handle = StartOf[id] /\ AsGroup(id).end = Service[id].end_handle
         /\ StartOf[id] = Service[id].start_handle
         /\ StartOf[id] \in Nat \ {0} /\ Service[id].end_handle \in Nat
         /\ StartOf[id] < Service[id].end_handle /\ Service[id].end_handle < 65535
  BY Tables DEF AsGroup, StartOf
<1>2. ASSUME NEW id \in ServiceId, NEW other \in ServiceId
      PROVE  /\ StartOf[id] = StartOf[other] => id = other
             /\ StartOf[id] <= Service[other].end_handle => StartOf[id] <= StartOf[other]
  <2>1. PICK a, b, c, d : /\ a = StartOf[id] /\ b = Service[id].end_handle
                          /\ c = StartOf[other] /\ d = Service[other].end_handle
    OBVIOUS
  <2>2. a \in Nat /\ b \in Nat /\ c \in Nat /\ d \in Nat /\ a < b /\ c < d
    BY <1>1, <2>1
  <2>3. id = other \/ b < c \/ d < a
    BY <1>1, <2>1, Tables
  <2>4. id = other => a = c
    BY <2>1
  <2>5. (a = c => id = other) /\ (a <= d => a <= c)
    BY <2>2, <2>3, <2>4
  <2> QED
    BY <2>1, <2>5
<1> QED
  BY <1>1, <1>2

\* Entries have handles of their own, up to where the discovery ends.
LEMMA ReferenceFacts ==
    ASSUME NEW c, c.procedure \in Discovery, Known(c)
    PROVE  /\ Keyed(Reference(c))
           /\ \A e \in Reference(c) : e.handle <= FinalHandle(c.target)
           /\ c.procedure \in {"characteristics", "attributes"} =>
                \A e \in Reference(c) : FirstHandle(c.target) <= e.handle
           /\ c.procedure \in {"services", "service"} =>
                /\ \A e \in Reference(c) : 1 <= e.handle /\ e.end \in Nat /\ e.handle < e.end
                /\ \A e, f \in Reference(c) : e.handle <= f.end => e.handle <= f.handle
<1>1. PICK R : R = Reference(c)
  OBVIOUS
<1>2. CASE c.procedure \in {"services", "service"}
  <2>1. \A e \in R : \E id \in ServiceId : e = AsGroup(id)
    BY <1>1, <1>2, ReferenceForms DEF Known
  <2>2. Keyed(R)
    BY <2>1, GroupFacts DEF Keyed
  <2>3. \A e \in R : 1 <= e.handle /\ e.end \in Nat /\ e.handle < e.end
    <3> SUFFICES ASSUME NEW e \in R PROVE 1 <= e.handle /\ e.end \in Nat /\ e.handle < e.end
      OBVIOUS
    <3>1. PICK id \in ServiceId : e = AsGroup(id)
      BY <2>1
    <3>2. PICK a, b : a = StartOf[id] /\ b = Service[id].end_handle
      OBVIOUS
    <3>3. e.handle = a /\ e.end = b /\ a \in Nat \ {0} /\ b \in Nat /\ a < b
      BY <3>1, <3>2, GroupFacts
    <3> QED
      BY <3>3
  <2>4. \A e, f \in R : e.handle <= f.end => e.handle <= f.handle
    BY <2>1, GroupFacts
  <2>5. \A e \in R : e.handle <= FinalHandle(c.target)
    <3> SUFFICES ASSUME NEW e \in R PROVE e.handle <= FinalHandle(c.target)
      OBVIOUS
    <3>1. PICK id \in ServiceId : e = AsGroup(id)
      BY <2>1
    <3>2. PICK a, b : a = StartOf[id] /\ b = Service[id].end_handle
      OBVIOUS
    <3>3. e.handle = a /\ a \in Nat /\ b \in Nat /\ a < b /\ b < 65535
      BY <3>1, <3>2, GroupFacts
    <3>4. CASE c.procedure = "services"
      <4>1. FinalHandle(c.target) = 65535
        BY <3>4, HandleBounds DEF Known
      <4>2. a <= 65535
        BY <3>3
      <4> QED
        BY <3>3, <4>1, <4>2
    <3>5. CASE c.procedure = "service"
      <4>1. c.target \in ServiceId /\ e = AsGroup(c.target)
        BY <1>1, <3>5, ReferenceForms DEF Known
      <4>2. FinalHandle(c.target) = Service[c.target].end_handle
        BY <4>1, HandleBounds
      <4>3. PICK g, h : g = StartOf[c.target] /\ h = Service[c.target].end_handle
        OBVIOUS
      <4>4. e.handle = g /\ g \in Nat /\ h \in Nat /\ g < h
        BY <4>1, <4>3, GroupFacts
      <4>5. g <= h
        BY <4>4
      <4> QED
        BY <4>2, <4>3, <4>4, <4>5
    <3> QED
      BY <1>2, <3>4, <3>5
  <2> QED
    BY <1>1, <1>2, <2>2, <2>3, <2>4, <2>5
<1>3. CASE c.procedure \in {"characteristics", "attributes"}
  <2>1. \A e \in R : \E x \in InRange(FirstHandle(c.target), FinalHandle(c.target)) :
           e = IF c.procedure = "attributes" THEN AsInformation(x) ELSE AsDeclaration(x)
    BY <1>1, <1>3, ReferenceForms DEF DeclarationsIn, InformationIn
  <2>2. \A e \in R : /\ e.handle \in Nat /\ FirstHandle(c.target) <= e.handle
                     /\ e.handle <= FinalHandle(c.target)
    BY <2>1, ItemFacts DEF InRange, AsInformation, AsDeclaration
  <2>3. \A e, f \in R : e.handle = f.handle => e = f
    <3> SUFFICES ASSUME NEW e \in R, NEW f \in R, e.handle = f.handle PROVE e = f
      OBVIOUS
    <3>1. PICK x \in InRange(FirstHandle(c.target), FinalHandle(c.target)) :
             e = IF c.procedure = "attributes" THEN AsInformation(x) ELSE AsDeclaration(x)
      BY <2>1
    <3>2. PICK y \in InRange(FirstHandle(c.target), FinalHandle(c.target)) :
             f = IF c.procedure = "attributes" THEN AsInformation(y) ELSE AsDeclaration(y)
      BY <2>1
    <3>3. x \in ItemsOf /\ y \in ItemsOf
      BY DEF InRange
    <3>4. e.handle = x.handle /\ f.handle = y.handle
      BY <3>1, <3>2 DEF AsInformation, AsDeclaration
    <3>5. x = y
      <4>1. ItemAt[x.handle] = x /\ ItemAt[y.handle] = y
        BY <3>3, ItemAtHandle
      <4> QED
        BY <3>4, <4>1
    <3> QED
      BY <3>1, <3>2, <3>5
  <2> QED
    BY <1>1, <1>3, <2>2, <2>3 DEF Keyed
<1> QED
  BY <1>2, <1>3 DEF Discovery

\* The handlers answer the requests of a discovery with what comes next.
LEMMA DiscoveryAnswers ==
    ASSUME NEW c, c.procedure \in Discovery, Known(c), c.next \in Nat,
           c.procedure \in {"characteristics", "attributes"} => FirstHandle(c.target) <= c.next,
           NEW registered, Covers(registered, ServiceId, StartOf), NEW fresh,
           fresh => Rising(registered, StartOf), NEW gone, NEW mtu \in Nat, mtu >= ATT_MTU_DEFAULT
    PROVE  LET r == Request(c) IN
           /\ r.op = "find_information" =>
                Continues(c, FindInformation(registered, r.start, r.end, mtu), fresh, gone)
           /\ r.op = "find_by_type_value" =>
                Continues(c, FindByTypeValue(registered, gone, r.start, r.end, r.type, r.value, mtu), fresh, gone)
           /\ r.op = "read_by_type" =>
                Continues(c, ReadByType(registered, r.start, r.end, r.type, mtu), fresh, gone)
           /\ r.op = "read_by_group_type" =>
                Continues(c, ReadByGroupType(registered, r.start, r.end, r.type, mtu), fresh, gone)
           /\ r.op \notin {"read", "read_blob"}
<1>1. PICK r, first, final :
         r = Request(c) /\ first = FirstHandle(c.target) /\ final = FinalHandle(c.target)
  OBVIOUS
<1>2. first \in Nat /\ final \in Nat
  BY <1>1, HandleBounds
<1>3. Keyed(Reference(c))
  BY ReferenceFacts
<1>4. {1, 2} \subseteq 0 .. 2 /\ {2, 4, 6, 7} \subseteq EntrySizes
  BY DEF EntrySizes
<1>5. CASE c.procedure = "attributes"
  <2>1. r.op = "find_information" /\ r.start = c.next /\ r.end = final
    BY <1>1, <1>5 DEF Request
  <2>2. PICK window : window = Window(registered, c.next, final)
    OBVIOUS
  <2>3. PICK entries :
           entries = [i \in DOMAIN window |-> [handle |-> window[i].handle, type |-> window[i].type]]
    OBVIOUS
  <2>4. PICK R : R = Sought(c, gone)
    OBVIOUS
  <2>5. R = InformationIn(first, final)
    BY <1>1, <1>5, <2>4, ReferenceForms, SoughtFacts
  <2>6. Listed(entries, Ahead(R, c.next), fresh)
    <3>1. first <= c.next
      BY <1>1, <1>5
    <3> QED
      BY <1>2, <2>2, <2>3, <2>5, <3>1, InformationListed
  <2>7. FindInformation(registered, c.next, final, mtu) =
          Listing("find_information", c.next, Page(entries, 2, 4, mtu), 2, 4)
    BY <2>2, <2>3 DEF FindInformation
  <2>8. Continues(c, Listing("find_information", c.next, Page(entries, 2, 4, mtu), 2, 4), fresh, gone)
    BY <1>3, <1>4, <2>4, <2>6, ListedContinues
  <2> QED
    BY <1>1, <2>1, <2>7, <2>8
<1>6. CASE c.procedure = "characteristics"
  <2>1. r.op = "read_by_type" /\ r.start = c.next /\ r.end = final /\ r.type = "characteristic"
    BY <1>1, <1>6 DEF Request
  <2>2. PICK matches : matches = OfTypeAndSize(Window(registered, c.next, final), "characteristic")
    OBVIOUS
  <2>3. PICK entries :
           entries = [i \in DOMAIN matches |-> [handle |-> matches[i].handle, size |-> matches[i].size]]
    OBVIOUS
  <2>4. PICK R : R = Sought(c, gone)
    OBVIOUS
  <2>5. R = DeclarationsIn(first, final)
    BY <1>1, <1>6, <2>4, ReferenceForms, SoughtFacts
  <2>6. Listed(entries, Ahead(R, c.next), fresh) /\ EntrySize(matches) \in EntrySizes
    <3>1. first <= c.next
      BY <1>1, <1>6
    <3>2. fresh => Rising(registered, StartOf)
      OBVIOUS
    <3>3. /\ Listed(DeclarationEntries(matches), Ahead(DeclarationsIn(first, final), c.next), fresh)
          /\ EntrySize(matches) \in EntrySizes
      BY <1>2, <2>2, <3>1, <3>2, DeclarationsListed
    <3> QED
      BY <2>3, <2>5, <3>3 DEF DeclarationEntries
  <2>7. PICK size : size = EntrySize(matches)
    OBVIOUS
  <2>8. size \in EntrySizes
    BY <2>6, <2>7
  <2>9. ReadByType(registered, c.next, final, "characteristic", mtu) =
          Listing("read_by_type", c.next, Page(entries, 2, size, mtu), 2, size)
    BY <2>2, <2>3, <2>7 DEF ReadByType, EntrySize
  <2>10. Continues(c, Listing("read_by_type", c.next, Page(entries, 2, size, mtu), 2, size), fresh, gone)
    BY <1>3, <1>4, <2>4, <2>6, <2>8, ListedContinues
  <2> QED
    BY <1>1, <2>1, <2>9, <2>10
<1>7. CASE c.procedure = "service"
  <2>1. /\ r.op = "find_by_type_value" /\ r.start = c.next /\ r.end = LastHandle
        /\ r.type = "primary_service" /\ r.value = c.target
    BY <1>1, <1>7 DEF Request
  <2>2. PICK window : window = Window(registered, c.next, LastHandle)
    OBVIOUS
  <2>3. PICK entries : entries = Groups(DeclarationsOf(c.target, window, gone))
    OBVIOUS
  <2>4. PICK R : R = Sought(c, gone)
    OBVIOUS
  <2>5. /\ c.target \in ServiceId
        /\ R = IF Service[c.target].start_handle \in gone THEN {} ELSE {AsGroup(c.target)}
    BY <1>7, <2>4, ReferenceForms DEF Known, Sought
  <2>6. Listed(entries, Ahead(R, c.next), fresh)
    BY <2>2, <2>3, <2>5, ServiceListed
  <2>7. FindByTypeValue(registered, gone, c.next, LastHandle, "primary_service", c.target, mtu) =
          Listing("find_by_type_value", c.next, Page(entries, 1, 4, mtu), 1, 4)
    BY <2>2, <2>3 DEF FindByTypeValue, DeclarationsOf
  <2>8. Continues(c, Listing("find_by_type_value", c.next, Page(entries, 1, 4, mtu), 1, 4), fresh, gone)
    BY <1>3, <1>4, <2>4, <2>6, ListedContinues
  <2> QED
    BY <1>1, <2>1, <2>7, <2>8
<1>8. CASE c.procedure = "services"
  <2>1. /\ r.op = "read_by_group_type" /\ r.start = c.next /\ r.end = LastHandle
        /\ r.type = "primary_service"
    BY <1>1, <1>8 DEF Request
  <2>2. PICK within : within = Declared(registered, c.next)
    OBVIOUS
  <2>3. PICK entries : entries = [i \in DOMAIN within |-> [handle |-> Service[within[i]].start_handle,
                                                          end    |-> Service[within[i]].end_handle]]
    OBVIOUS
  <2>4. PICK R : R = Sought(c, gone)
    OBVIOUS
  <2>5. R = {AsGroup(id) : id \in ServiceId}
    BY <1>8, <2>4, ReferenceForms, SoughtFacts
  <2>6. Listed(entries, Ahead(R, c.next), fresh)
    BY <2>2, <2>3, <2>5, GroupsListed
  <2>7. ReadByGroupType(registered, c.next, LastHandle, "primary_service", mtu) =
          Listing("read_by_group_type", c.next, Page(entries, 2, 6, mtu), 2, 6)
    BY <2>2, <2>3 DEF ReadByGroupType, Declared
  <2>8. Continues(c, Listing("read_by_group_type", c.next, Page(entries, 2, 6, mtu), 2, 6), fresh, gone)
    BY <1>3, <1>4, <2>4, <2>6, ListedContinues
  <2> QED
    BY <1>1, <2>1, <2>7, <2>8
<1> QED
  BY <1>5, <1>6, <1>7, <1>8 DEF Discovery

-----------------------------------------------------------------------------
(* What a discovery has found so far.                                       *)

\* everything sought below the next handle, and nothing that is not in the reference; once and in
\* order while services are registered once
Found(R, S, found, next, fresh) ==
    /\ Sequence(found) /\ next \in Nat
    /\ \A e \in ToSet(found) : e \in R
    /\ \A e \in S : e.handle < next => e \in ToSet(found)
    /\ fresh => /\ \A i, j \in DOMAIN found : i < j => found[i].handle < found[j].handle
                /\ \A e \in ToSet(found) : e.handle < next

\* A response moves it on.
LEMMA FoundMore ==
    ASSUME NEW R, \A e \in R : e.handle \in Nat, NEW S, S \subseteq R,
           NEW fresh, NEW found, NEW next, Found(R, S, found, next, fresh),
           NEW list, Sequence(list), list # <<>>,
           \A e \in ToSet(list) : e \in R /\ next <= e.handle,
           \A e \in S : next <= e.handle /\ e.handle <= list[Len(list)].handle => e \in ToSet(list),
           fresh => \A i, j \in DOMAIN list : i < j => list[i].handle < list[j].handle,
           NEW after \in Nat, list[Len(list)].handle < after,
           \A e \in R : e.handle < after => e.handle <= list[Len(list)].handle
    PROVE  Found(R, S, found \o list, after, fresh) /\ next < after
<1>1. PICK t : t = found \o list
  OBVIOUS
<1>2. PICK a, b : a = Len(found) /\ b = Len(list)
  OBVIOUS
<1>3. /\ next \in Nat /\ Sequence(found)
      /\ \A e \in ToSet(found) : e \in R
      /\ \A e \in S : e.handle < next => e \in ToSet(found)
  BY DEF Found
<1>4. a \in Nat /\ b \in Nat /\ b # 0 /\ DOMAIN found = 1 .. a /\ DOMAIN list = 1 .. b
  BY <1>2, <1>3, SequenceFacts
<1>5. /\ Sequence(t) /\ DOMAIN t = 1 .. a + b
      /\ \A i \in 1 .. a : t[i] = found[i]
      /\ \A i \in 1 .. b : t[a + i] = list[i]
  BY <1>1, <1>2, <1>3, <1>4, ConcatFacts DEF Extends
<1>6. \A i \in 1 .. a + b : i \in 1 .. a \/ (i - a \in 1 .. b /\ t[i] = list[i - a] /\ i > a)
  <2> SUFFICES ASSUME NEW i \in 1 .. a + b, i \notin 1 .. a
               PROVE  i - a \in 1 .. b /\ t[i] = list[i - a] /\ i > a
    OBVIOUS
  <2>1. i - a \in 1 .. b /\ a + (i - a) = i /\ i > a
    BY <1>4
  <2>2. t[a + (i - a)] = list[i - a]
    BY <1>5, <2>1
  <2> QED
    BY <2>1, <2>2
<1>7. \A e : e \in ToSet(t) <=> e \in ToSet(found) \/ e \in ToSet(list)
  <2>1. ASSUME NEW e \in ToSet(t) PROVE e \in ToSet(found) \/ e \in ToSet(list)
    <3>1. PICK i \in 1 .. a + b : t[i] = e
      BY <1>5 DEF ToSet
    <3>2. CASE i \in 1 .. a
      BY <1>4, <1>5, <3>1, <3>2 DEF ToSet
    <3>3. CASE i \notin 1 .. a
      BY <1>4, <1>6, <3>1, <3>3 DEF ToSet
    <3> QED
      BY <3>2, <3>3
  <2>2. ASSUME NEW e \in ToSet(found) PROVE e \in ToSet(t)
    <3>1. PICK i \in 1 .. a : found[i] = e
      BY <1>4 DEF ToSet
    <3>2. i \in 1 .. a + b /\ t[i] = e
      BY <1>4, <1>5, <3>1
    <3> QED
      BY <1>5, <3>2 DEF ToSet
  <2>3. ASSUME NEW e \in ToSet(list) PROVE e \in ToSet(t)
    <3>1. PICK i \in 1 .. b : list[i] = e
      BY <1>4 DEF ToSet
    <3>2. a + i \in 1 .. a + b /\ t[a + i] = e
      BY <1>4, <1>5, <3>1
    <3> QED
      BY <1>5, <3>2 DEF ToSet
  <2> QED
    BY <2>1, <2>2, <2>3
<1>8. PICK last : last = list[b]
  OBVIOUS
<1>9. last \in ToSet(list) /\ last \in R /\ last.handle \in Nat /\ next <= last.handle /\ last.handle < after
  <2>1. b \in DOMAIN list
    BY <1>4
  <2>2. last \in ToSet(list)
    BY <1>8, <2>1 DEF ToSet
  <2>3. last = list[Len(list)]
    BY <1>2, <1>8
  <2> QED
    BY <2>2, <2>3
<1>10. next < after
  BY <1>3, <1>9
<1>11. ASSUME NEW e \in S, e.handle < after PROVE e \in ToSet(t)
  <2>1. e.handle \in Nat /\ e.handle <= last.handle
    BY <1>2, <1>8, <1>11
  <2>2. e.handle < next \/ next <= e.handle
    BY <1>3, <2>1
  <2>3. next <= e.handle => e \in ToSet(list)
    BY <1>2, <1>8, <2>1
  <2> QED
    BY <1>3, <1>7, <2>2, <2>3
<1>12. ASSUME fresh
       PROVE  /\ \A i, j \in 1 .. a + b : i < j => t[i].handle < t[j].handle
              /\ \A e \in ToSet(t) : e.handle < after
  <2>1. /\ \A i, j \in 1 .. a : i < j => found[i].handle < found[j].handle
        /\ \A e \in ToSet(found) : e.handle < next
    BY <1>4, <1>12 DEF Found
  <2>2. \A i, j \in 1 .. b : i < j => list[i].handle < list[j].handle
    BY <1>4, <1>12
  <2>3. ASSUME NEW i \in 1 .. a + b, NEW j \in 1 .. a + b, i < j PROVE t[i].handle < t[j].handle
    <3>1. CASE j \in 1 .. a
      <4>1. i \in 1 .. a
        BY <1>4, <2>3, <3>1
      <4> QED
        BY <1>5, <2>1, <2>3, <3>1, <4>1
    <3>2. CASE j \notin 1 .. a /\ i \in 1 .. a
      <4>1. j - a \in 1 .. b /\ t[j] = list[j - a] /\ t[i] = found[i]
        BY <1>5, <1>6, <3>2
      <4>2. found[i] \in ToSet(found) /\ list[j - a] \in ToSet(list)
        BY <1>4, <3>2, <4>1 DEF ToSet
      <4>3. PICK g, h : g = found[i].handle /\ h = list[j - a].handle
        OBVIOUS
      <4>4. g < next /\ next <= h
        BY <2>1, <4>2, <4>3
      <4>5. g \in Nat /\ h \in Nat
        BY <1>3, <4>2, <4>3
      <4>6. g < h
        BY <1>3, <4>4, <4>5
      <4> QED
        BY <4>1, <4>3, <4>6
    <3>3. CASE j \notin 1 .. a /\ i \notin 1 .. a
      <4>1. /\ i - a \in 1 .. b /\ t[i] = list[i - a] /\ j - a \in 1 .. b /\ t[j] = list[j - a]
        BY <1>6, <3>3
      <4>2. i - a < j - a
        BY <1>4, <2>3
      <4> QED
        BY <2>2, <4>1, <4>2
    <3> QED
      BY <3>1, <3>2, <3>3
  <2>4. ASSUME NEW e \in ToSet(t) PROVE e.handle < after
    <3>1. CASE e \in ToSet(found)
      <4>1. e.handle \in Nat /\ e.handle < next
        BY <1>3, <2>1, <3>1
      <4> QED
        BY <1>3, <1>10, <4>1
    <3>2. CASE e \in ToSet(list)
      <4>1. PICK i \in 1 .. b : list[i] = e
        BY <1>4, <3>2 DEF ToSet
      <4>2. i = b \/ i < b
        BY <1>4
      <4>3. i < b => e.handle < last.handle
        BY <1>4, <1>8, <2>2, <4>1
      <4>4. i = b => e = last
        BY <1>8, <4>1
      <4>5. e.handle \in Nat
        BY <3>2
      <4> QED
        BY <1>9, <4>2, <4>3, <4>4, <4>5
    <3> QED
      BY <1>7, <2>4, <3>1, <3>2
  <2> QED
    BY <2>3, <2>4
<1>13. \A e \in ToSet(t) : e \in R
  BY <1>3, <1>7
<1>14. Found(R, S, t, after, fresh)
  BY <1>5, <1>11, <1>12, <1>13 DEF Found
<1> QED
  BY <1>1, <1>10, <1>14

-----------------------------------------------------------------------------
(* The inductive invariant of discoveries, over the one of the peers in     *)
(* step.                                                                    *)

\* Services are registered when a port was opened, once when it was opened once.
Registered ==
    /\ opens \in Nat /\ Len(services) <= 10
    /\ opens = 0 => services = <<>>
    /\ opens # 0 => Covers(services, ServiceId, StartOf)
    /\ opens <= 1 => Rising(services, StartOf)
    /\ \A p \in Peer : att_mtu[p] # 0 => opens # 0

\* what a discovery has found is all it seeks below the next handle, and all it seeks at its end
Progress(c, fresh, gone) ==
    c.procedure \in Discovery =>
    /\ Known(c)
    /\ c.procedure \in {"characteristics", "attributes"} => FirstHandle(c.target) <= c.next
    /\ Found(Reference(c), Sought(c, gone), c.found, c.next, fresh)
    /\ c.done => \A e \in Sought(c, gone) : e \in ToSet(c.found)

\* a response to a request of a discovery goes on where it is
Waits(c) == c.procedure \in Discovery /\ c.awaits \notin {"none", "exchange_mtu", "write_request"}
Pending(c, responses, fresh, gone) ==
    Waits(c) => \A x \in ToSet(responses) : x.op \in Values \/ Continues(c, x, fresh, gone)

Discovers(p, fresh, gone) == Progress(client[p], fresh, gone) /\ Pending(client[p], toClient[p], fresh, gone)
DInv == Registered /\ \A p \in Peer : Discovers(p, opens <= 1, overwritten)

LEMMA ReferenceFrame ==
    ASSUME NEW c, NEW d, d.procedure = c.procedure, d.target = c.target
    PROVE  Reference(d) = Reference(c) /\ \A gone : Sought(d, gone) = Sought(c, gone)
<1>1. Reference(d) = Reference(c)
  BY DEF Reference
<1> QED
  BY <1>1 DEF Sought

LEMMA ProgressFrame ==
    ASSUME NEW c, NEW d, d.procedure = c.procedure, d.target = c.target, d.next = c.next,
           d.found = c.found, d.done = c.done, NEW fresh, NEW gone, Progress(c, fresh, gone)
    PROVE  Progress(d, fresh, gone)
<1>1. PICK R, S, next : R = Reference(c) /\ S = Sought(c, gone) /\ next = c.next
  OBVIOUS
<1>2. Reference(d) = R /\ Sought(d, gone) = S /\ d.next = next
  BY <1>1, ReferenceFrame
<1> QED
  BY <1>1, <1>2 DEF Progress, Known

\* A response that is taken away, or a PDU of the application that is added, leaves the others.
LEMMA PendingLess ==
    ASSUME NEW c, NEW old, NEW new, NEW fresh, NEW gone, Pending(c, old, fresh, gone),
           \A x \in ToSet(new) : x.op \in Values \/ x \in ToSet(old)
    PROVE  Pending(c, new, fresh, gone)
  BY DEF Pending

\* The more is overwritten, the less is sought.
LEMMA OverwrittenMore ==
    ASSUME NEW c, NEW responses, NEW fresh, NEW gone, NEW more, gone \subseteq more
    PROVE  /\ Progress(c, fresh, gone) => Progress(c, fresh, more)
           /\ Pending(c, responses, fresh, gone) => Pending(c, responses, fresh, more)
<1>1. PICK R, S, T : R = Reference(c) /\ S = Sought(c, gone) /\ T = Sought(c, more)
  OBVIOUS
<1>2. T \subseteq S
  BY <1>1, SoughtFacts
<1>3. \A found, next : Found(R, S, found, next, fresh) => Found(R, T, found, next, fresh)
  BY <1>2 DEF Found
<1>4. \A x : Continues(c, x, fresh, gone) => Continues(c, x, fresh, more)
  BY <1>1, <1>2 DEF Continues
<1>5. Progress(c, fresh, gone) => Progress(c, fresh, more)
  BY <1>1, <1>2, <1>3 DEF Progress
<1>6. Pending(c, responses, fresh, gone) => Pending(c, responses, fresh, more)
  BY <1>4 DEF Pending
<1> QED
  BY <1>5, <1>6

\* what a step leaves of a discovery
Keeps(q) == /\ client'[q] = client[q]
            /\ \A x \in ToSet(toClient'[q]) : x.op \in Values \/ x \in ToSet(toClient[q])

LEMMA KeepsDiscovers ==
    ASSUME NEW q, Discovers(q, opens <= 1, overwritten), Keeps(q), opens' = opens,
           overwritten \subseteq overwritten'
    PROVE  Discovers(q, opens <= 1, overwritten)'
<1>1. PICK c, fresh, gone, more : /\ c = client[q] /\ fresh = (opens <= 1)
                                  /\ gone = overwritten /\ more = overwritten'
  OBVIOUS
<1>2. Progress(c, fresh, gone) /\ Pending(c, toClient[q], fresh, gone)
  BY <1>1 DEF Discovers
<1>3. Pending(c, toClient'[q], fresh, gone)
  BY <1>2, PendingLess DEF Keeps
<1>4. client'[q] = c /\ fresh = (opens' <= 1)
  BY <1>1 DEF Keeps
<1>5. Progress(c, fresh, more) /\ Pending(c, toClient'[q], fresh, more)
  BY <1>1, <1>2, <1>3, OverwrittenMore
<1> QED
  BY <1>1, <1>4, <1>5 DEF Discovers

LEMMA RegisteredFrame ==
    ASSUME Registered, opens' = opens, services' = services,
           \A q \in Peer : att_mtu'[q] # 0 => opens # 0
    PROVE  Registered'
  BY DEF Registered

\* A step of one peer, or of the server for it.
LEMMA DiscoveryStep ==
    ASSUME DInv, opens' = opens, services' = services, overwritten \subseteq overwritten',
           \A q \in Peer : att_mtu'[q] # 0 => opens # 0,
           NEW p \in Peer, Discovers(p, opens <= 1, overwritten)', \A q \in Peer \ {p} : Keeps(q)
    PROVE  DInv'
<1>1. Registered'
  BY RegisteredFrame DEF DInv
<1>2. ASSUME NEW q \in Peer PROVE Discovers(q, opens <= 1, overwritten)'
  BY KeepsDiscovers DEF DInv
<1> QED
  BY <1>1, <1>2 DEF DInv

\* Nothing discoveries are about changes but that PDUs of the application are sent.
LEMMA ValuesKeep ==
    ASSUME DInv, opens' = opens, services' = services, att_mtu' = att_mtu, client' = client,
           overwritten \subseteq overwritten', OnlyValues
    PROVE  DInv'
<1>1. Registered'
  BY RegisteredFrame DEF DInv, Registered
<1>2. ASSUME NEW q \in Peer PROVE Discovers(q, opens <= 1, overwritten)'
  BY KeepsDiscovers DEF DInv, Keeps, OnlyValues
<1> QED
  BY <1>1, <1>2 DEF DInv

LEMMA NothingPends ==
    ASSUME NEW c, NEW responses, NEW fresh, NEW gone, ~Waits(c) \/ AllOf(Values, responses)
    PROVE  Pending(c, responses, fresh, gone)
  BY DEF Pending, AllOf, ToSet

LEMMA IdleDiscovers ==
    ASSUME NEW responses, NEW fresh, NEW gone
    PROVE  Progress(Idle, fresh, gone) /\ Pending(Idle, responses, fresh, gone)
<1>1. Idle.procedure = "none"
  BY DEF Idle
<1> QED
  BY <1>1 DEF Progress, Pending, Waits, Discovery

LEMMA InitDiscovers == ASSUME Init PROVE DInv
<1>1. /\ opens = 0 /\ services = <<>> /\ \A p \in Peer : att_mtu[p] = 0 /\ client[p] = Idle
  BY DEF Init
<1>2. Registered
  <2>1. PICK none : none = services
    OBVIOUS
  <2>2. none = <<>> /\ DOMAIN none = {} /\ Len(none) = 0
    BY <1>1, <2>1
  <2>3. Rising(none, StartOf)
    BY <2>2 DEF Rising
  <2> QED
    BY <1>1, <2>1, <2>2, <2>3 DEF Registered
<1>3. \A p \in Peer : Discovers(p, opens <= 1, overwritten)
  BY <1>1, IdleDiscovers DEF Discovers
<1> QED
  BY <1>2, <1>3 DEF DInv

\* Opening the port registers the services behind those that are there.
LEMMA OpenRegisters == ASSUME Registered, services \in Seq(ServiceId), Open PROVE Registered'
<1> DEFINE four == <<"generic_access", "generic_attribute", "battery", "test">>
<1>1. PICK old, more, n : /\ old = services /\ more = services \o four
                          /\ n = Min({Len(more), GATT_MAX_COUNT_SERVICE})
  OBVIOUS
<1>2. services' = SubSeq(more, 1, n) /\ opens' = opens + 1 /\ \A p \in Peer : att_mtu'[p] = 0
  BY <1>1 DEF Open, gatt_init
<1>3. four \in Seq(ServiceId) /\ Len(four) = 4 /\ four[1] = "generic_access"
      /\ four[2] = "generic_attribute" /\ four[3] = "battery" /\ four[4] = "test"
  BY DEF ServiceId
<1> HIDE DEF four
<1>4. /\ old \in Seq(ServiceId) /\ more \in Seq(ServiceId) /\ Len(more) = Len(old) + 4
      /\ \A i \in 1 .. Len(old) : more[i] = old[i]
      /\ \A i \in 1 .. 4 : more[Len(old) + i] = four[i]
  <2>1. old \in Seq(ServiceId) /\ more = old \o four
    BY <1>1
  <2>2. PICK tail : tail = four
    OBVIOUS
  <2>3. /\ old \o tail \in Seq(ServiceId) /\ Len(old \o tail) = Len(old) + Len(tail)
        /\ \A i \in 1 .. Len(old) + Len(tail) :
             (old \o tail)[i] = IF i <= Len(old) THEN old[i] ELSE tail[i - Len(old)]
    BY <1>3, <2>1, <2>2, ConcatProperties
  <2>4. Len(tail) = 4 /\ Len(old) \in Nat
    BY <1>3, <2>1, <2>2
  <2>5. \A i \in 1 .. Len(old) : (old \o tail)[i] = old[i]
    BY <2>3, <2>4
  <2>6. ASSUME NEW i \in 1 .. 4 PROVE (old \o tail)[Len(old) + i] = tail[i]
    <3>1. /\ Len(old) + i \in 1 .. Len(old) + Len(tail) /\ ~(Len(old) + i <= Len(old))
          /\ (Len(old) + i) - Len(old) = i
      BY <2>4
    <3> QED
      BY <2>3, <3>1
  <2> QED
    BY <2>1, <2>2, <2>3, <2>4, <2>5, <2>6
<1>5. PICK k : k = Len(old)
  OBVIOUS
<1>6. k \in Nat /\ k <= 10 /\ DOMAIN old = 1 .. k
  BY <1>1, <1>4, <1>5 DEF Registered
<1>7. n = IF k + 4 <= 10 THEN k + 4 ELSE 10
  BY <1>1, <1>4, <1>5, <1>6, MinOfTwo DEF GATT_MAX_COUNT_SERVICE
<1>8. n \in Nat /\ k <= n /\ n <= k + 4 /\ n <= 10
  BY <1>6, <1>7
<1>9. PICK new : new = services'
  OBVIOUS
<1>10. /\ new \in Seq(ServiceId) /\ Len(new) = n /\ DOMAIN new = 1 .. n
       /\ \A i \in 1 .. n : new[i] = more[i]
  <2>1. Len(more) = k + 4
    BY <1>4, <1>5
  <2>2. 1 \in Int /\ n \in Int /\ \A i \in 1 .. n : more[i] \in ServiceId
    BY <1>4, <1>6, <1>8, <2>1
  <2>3. SubSeq(more, 1, n) \in Seq(ServiceId)
    BY <1>4, <2>2, SubSeqProperties
  <2>4. Len(SubSeq(more, 1, n)) = n /\ \A i \in 1 .. n : SubSeq(more, 1, n)[i] = more[i]
    BY <1>4, <1>8
  <2> QED
    BY <1>2, <1>8, <1>9, <2>3, <2>4
<1>11. \A i \in 1 .. k : new[i] = old[i] /\ i \in 1 .. n
  BY <1>4, <1>5, <1>6, <1>8, <1>10
<1>12. CASE opens = 0
  <2>1. k = 0 /\ n = 4
    BY <1>1, <1>5, <1>6, <1>7, <1>12 DEF Registered
  <2>2. \A i \in 1 .. 4 : new[i] = four[i]
    BY <1>4, <1>5, <1>10, <2>1
  <2>3. /\ DOMAIN new = 1 .. 4 /\ new[1] = "generic_access" /\ new[2] = "generic_attribute"
        /\ new[3] = "battery" /\ new[4] = "test"
    BY <1>3, <1>10, <2>1, <2>2
  <2>4. /\ StartOf["generic_access"] = 1 /\ StartOf["generic_attribute"] = 17
        /\ StartOf["battery"] = 257 /\ StartOf["test"] = 4097
    BY DEF StartOf, Service, ServiceId
  <2>5. Rising(new, StartOf)
    BY <2>3, <2>4 DEF Rising
  <2>6. Covers(new, ServiceId, StartOf)
    <3>1. \A x \in ServiceId : \E i \in 1 .. 4 : new[i] = x
      BY <2>3 DEF ServiceId
    <3>2. ASSUME NEW j \in 1 .. 4, NEW i \in 1 .. 4, StartOf[new[i]] < StartOf[new[j]]
          PROVE  i \in 1 .. j - 1
      BY <2>3, <2>4, <3>2
    <3>3. \A j \in 1 .. 4 : \A x \in ServiceId :
             StartOf[x] < StartOf[new[j]] => \E i \in 1 .. j - 1 : new[i] = x
      BY <3>1, <3>2
    <3> QED
      BY <1>10, <2>3, <3>1, <3>3 DEF Covers
  <2> QED
    BY <1>2, <1>8, <1>9, <1>10, <1>12, <2>5, <2>6 DEF Registered
<1>13. CASE opens # 0
  <2>1. Covers(old, ServiceId, StartOf) /\ opens \in Nat
    BY <1>1, <1>13 DEF Registered
  <2>2. \A x \in ServiceId : \E i \in 1 .. n : new[i] = x
    BY <1>6, <1>11, <2>1 DEF Covers
  <2>3. ASSUME NEW j \in 1 .. n, NEW x \in ServiceId, StartOf[x] < StartOf[new[j]]
        PROVE  \E i \in 1 .. j - 1 : new[i] = x
    <3>1. CASE j \in 1 .. k
      <4>1. PICK i \in 1 .. j - 1 : old[i] = x
        BY <1>6, <1>11, <2>1, <2>3, <3>1 DEF Covers
      <4>2. i \in 1 .. k
        BY <1>6, <3>1
      <4> QED
        BY <1>11, <4>1, <4>2
    <3>2. CASE j \notin 1 .. k
      <4>1. PICK i \in 1 .. k : old[i] = x
        BY <1>6, <2>1 DEF Covers
      <4>2. i \in 1 .. j - 1
        BY <1>6, <1>8, <3>2
      <4> QED
        BY <1>11, <4>1, <4>2
    <3> QED
      BY <3>1, <3>2
  <2>4. Covers(new, ServiceId, StartOf)
    BY <1>10, <2>2, <2>3 DEF Covers
  <2>5. opens' \in Nat /\ opens' # 0 /\ ~(opens' <= 1)
    BY <1>2, <1>13, <2>1
  <2> QED
    BY <1>2, <1>8, <1>9, <1>10, <2>4, <2>5 DEF Registered
<1> QED
  BY <1>12, <1>13

LEMMA OpenDiscovers == ASSUME IInv, DInv, Open PROVE DInv'
<1>1. Registered'
  BY OpenRegisters DEF IInv, Shape, DInv
<1>2. \A p \in Peer : client'[p] = Idle
  BY DEF Open
<1>3. \A p \in Peer : Discovers(p, opens <= 1, overwritten)'
  BY <1>2, IdleDiscovers DEF Discovers
<1> QED
  BY <1>1, <1>3 DEF DInv

\* A link comes or goes.
LEMMA LinkDiscovers == ASSUME IInv, DInv, NEW p \in Peer, LinkUp(p) \/ LinkDown(p) PROVE DInv'
<1>1. /\ opens' = opens /\ services' = services /\ overwritten' = overwritten
      /\ client' = [client EXCEPT ![p] = Idle]
      /\ \A q \in Peer \ {p} : att_mtu'[q] = att_mtu[q] /\ toClient'[q] = toClient[q]
  BY DEF LinkUp, LinkDown, databaseVars, boundVars, IInv, Shape
<1>2. client'[p] = Idle /\ \A q \in Peer \ {p} : client'[q] = client[q]
  BY <1>1 DEF IInv, Shape
<1>3. att_mtu'[p] # 0 => opens # 0
  <2>1. CASE LinkUp(p)
    BY <2>1 DEF LinkUp, DInv, Registered
  <2>2. CASE LinkDown(p)
    BY <2>2 DEF LinkDown, IInv, Shape
  <2> QED
    BY <2>1, <2>2
<1>4. \A q \in Peer : att_mtu'[q] # 0 => opens # 0
  BY <1>1, <1>3 DEF DInv, Registered
<1>5. Discovers(p, opens <= 1, overwritten)'
  BY <1>2, IdleDiscovers DEF Discovers
<1>6. \A q \in Peer \ {p} : Keeps(q)
  BY <1>1, <1>2 DEF Keeps
<1> QED
  BY <1>1, <1>4, <1>5, <1>6, DiscoveryStep

\* What the application sends, and what discoveries do not depend on.
LEMMA SendsDiscover ==
    ASSUME IInv, DInv, NEW p \in Peer,
           gatt_send_notify(p) \/ gatt_send_indicate(p) \/ gatt_send_passthrough(p)
    PROVE  DInv'
<1>1. AppSends(p) /\ OnlyValues
  <2>1. CASE gatt_send_notify(p)
    <3>1. SendValue(p, "notify", "notification") /\ "notification" \in Values
      BY <2>1 DEF gatt_send_notify, Values
    <3> QED
      BY <3>1, SendValueStep DEF SendValue
  <2>2. CASE gatt_send_indicate(p)
    <3>1. SendValue(p, "indicate", "indication") /\ "indication" \in Values
      BY <2>2 DEF gatt_send_indicate, Values
    <3> QED
      BY <3>1, SendValueStep DEF SendValue
  <2>3. CASE gatt_send_passthrough(p)
    BY <2>3, PassthroughStep DEF gatt_send_passthrough
  <2> QED
    BY <2>1, <2>2, <2>3
<1>2. /\ opens' = opens /\ services' = services /\ overwritten' = overwritten /\ att_mtu' = att_mtu
      /\ client' = client
  BY <1>1 DEF AppSends, databaseVars
<1> QED
  BY <1>1, <1>2, ValuesKeep

LEMMA QuietDiscovers ==
    ASSUME DInv, opens' = opens, services' = services, att_mtu' = att_mtu, client' = client,
           overwritten \subseteq overwritten', toClient' = toClient
    PROVE  DInv'
  BY ValuesKeep DEF OnlyValues

\* A peer goes on by itself.
LEMMA PeerGoesOn ==
    ASSUME IInv, DInv, NEW p \in Peer, PeerActs(p), NEW d, client' = [client EXCEPT ![p] = d],
           toClient' = toClient, Progress(d, opens <= 1, overwritten), Pending(d, toClient[p], opens <= 1, overwritten)
    PROVE  DInv'
<1>1. opens' = opens /\ services' = services /\ overwritten' = overwritten /\ att_mtu' = att_mtu
  BY DEF PeerActs, databaseVars
<1>2. client'[p] = d /\ \A q \in Peer \ {p} : client'[q] = client[q]
  BY DEF IInv, Shape
<1>3. \A q \in Peer : att_mtu'[q] # 0 => opens # 0
  BY <1>1 DEF DInv, Registered
<1>4. Discovers(p, opens <= 1, overwritten)'
  BY <1>1, <1>2 DEF Discovers
<1>5. \A q \in Peer \ {p} : Keeps(q)
  BY <1>2 DEF Keeps
<1> QED
  BY <1>1, <1>3, <1>4, <1>5, DiscoveryStep

\* Nothing of what a discovery looks for is below its first handle.
LEMMA StartsDiscovery ==
    ASSUME NEW d, NEW fresh, NEW gone, d.procedure \in Discovery => Known(d), d.found = <<>>, d.done = FALSE,
           d.procedure \in Discovery =>
             d.next = IF d.procedure \in {"characteristics", "attributes"} THEN FirstHandle(d.target) ELSE 1
    PROVE  Progress(d, fresh, gone)
<1> SUFFICES ASSUME d.procedure \in Discovery
             PROVE  /\ d.procedure \in {"characteristics", "attributes"} => FirstHandle(d.target) <= d.next
                    /\ Found(Reference(d), Sought(d, gone), d.found, d.next, fresh)
  BY DEF Progress
<1>1. PICK R, S, next, none, first : /\ R = Reference(d) /\ S = Sought(d, gone) /\ next = d.next
                                     /\ none = d.found /\ first = FirstHandle(d.target)
  OBVIOUS
<1>2. first \in Nat
  BY <1>1, HandleBounds
<1>3. next = IF d.procedure \in {"characteristics", "attributes"} THEN first ELSE 1
  BY <1>1
<1>4. next \in Nat /\ (d.procedure \in {"characteristics", "attributes"} => first <= next)
  BY <1>2, <1>3
<1>5. \A e \in R : e.handle \in Nat /\ next <= e.handle
  <2>1. \A e \in R : e.handle \in Nat
    BY <1>1, ReferenceFacts DEF Keyed
  <2>2. CASE d.procedure \in {"characteristics", "attributes"}
    BY <1>1, <1>3, <2>1, <2>2, ReferenceFacts
  <2>3. CASE d.procedure \notin {"characteristics", "attributes"}
    <3>1. d.procedure \in {"services", "service"} /\ next = 1
      BY <1>3, <2>3 DEF Discovery
    <3> QED
      BY <1>1, <2>1, <3>1, ReferenceFacts
  <2> QED
    BY <2>2, <2>3
<1>6. \A e \in S : ~(e.handle < next)
  BY <1>1, <1>4, <1>5, SoughtFacts
<1>7. Sequence(none) /\ ToSet(none) = {} /\ DOMAIN none = {}
  <2>1. none = <<>>
    BY <1>1
  <2>2. none \in Seq({}) /\ DOMAIN none = {}
    BY <2>1
  <2> QED
    BY <2>2, SequenceOf DEF ToSet
<1>8. Found(R, S, none, next, fresh)
  BY <1>4, <1>6, <1>7 DEF Found
<1> QED
  BY <1>1, <1>4, <1>8

LEMMA PeerStartsDiscovers == ASSUME IInv, DInv, NEW p \in Peer, PeerStarts(p) PROVE DInv'
<1> PICK c : c = client[p]
  OBVIOUS
<1>1. PeerActs(p) /\ c.awaits = "none" /\ toClient' = toClient
  BY DEF PeerStarts
<1>2. PICK pair \in Procedures :
        client' = [client EXCEPT
           ![p].procedure = pair[1], ![p].target = pair[2], ![p].found = <<>>, ![p].done = FALSE,
           ![p].regrown = FALSE,
           ![p].next = IF pair[1] \in {"characteristics", "attributes"} THEN FirstHandle(pair[2])
                       ELSE IF pair[1] = "long_read" THEN 0 ELSE 1]
  BY DEF PeerStarts
<1>3. PICK next :
        next = IF pair[1] \in {"characteristics", "attributes"} THEN FirstHandle(pair[2])
               ELSE IF pair[1] = "long_read" THEN 0 ELSE 1
  OBVIOUS
<1> DEFINE d == [c EXCEPT !.procedure = pair[1], !.target = pair[2], !.found = <<>>, !.done = FALSE,
                          !.regrown = FALSE, !.next = next]
<1>4. c = [f \in Fields |-> c[f]] /\ DOMAIN client = Peer
  BY ClientFacts
<1>5. client' = [client EXCEPT ![p] = d]
  BY <1>2, <1>3, <1>4
<1>6. /\ d.procedure = pair[1] /\ d.target = pair[2] /\ d.found = <<>> /\ d.done = FALSE
      /\ d.awaits = "none" /\ d.next = next
  BY <1>1, <1>4 DEF Fields
<1> HIDE DEF d
<1>7. Known(d)
  <2>1. pair \in Procedures
    BY <1>2
  <2> QED
    <3>1. (pair[1] = "services" => pair[2] \notin ServiceId) /\ (pair[1] = "service" => pair[2] \in ServiceId)
      BY <2>1, ProceduresAssumption
    <3> QED
      BY <1>6, <3>1 DEF Known
<1>8. d.procedure \in Discovery =>
        d.next = IF d.procedure \in {"characteristics", "attributes"} THEN FirstHandle(d.target) ELSE 1
  BY <1>3, <1>6 DEF Discovery
<1>9. Progress(d, opens <= 1, overwritten)
  BY <1>6, <1>7, <1>8, StartsDiscovery
<1>10. Pending(d, toClient[p], opens <= 1, overwritten)
  BY <1>6, NothingPends DEF Waits
<1> QED
  BY <1>1, <1>5, <1>9, <1>10, PeerGoesOn

\* A peer that asks has no response under way.
LEMMA PeerAsksDiscovers ==
    ASSUME IInv, DInv, NEW p \in Peer, PeerAsks(p) \/ PeerExchangesMtu(p) \/ PeerWrites(p)
    PROVE  DInv'
<1> PICK c, n, responses : c = client[p] /\ n = att_mtu[p] /\ responses = toClient[p]
  OBVIOUS
<1>1. PeerActs(p) /\ toClient' = toClient
  BY DEF PeerAsks, PeerExchangesMtu, PeerWrites
<1>2. Progress(c, opens <= 1, overwritten) /\ Pending(c, responses, opens <= 1, overwritten)
  BY DEF DInv, Discovers
<1>3. c = [f \in Fields |-> c[f]] /\ DOMAIN client = Peer
  BY ClientFacts
<1>4. \/ client' = client
      \/ c.awaits = "none" /\ \E asked, op :
           client' = [client EXCEPT ![p] = [c EXCEPT !.asked = asked, !.awaits = op]]
  <2>1. CASE PeerAsks(p)
    <3>1. PICK op : op = Request(c).op
      OBVIOUS
    <3>2. c.awaits = "none" /\ client' = [client EXCEPT ![p].awaits = op]
      BY <2>1, <3>1 DEF PeerAsks
    <3>3. PICK asked : asked = c.asked
      OBVIOUS
    <3>4. [c EXCEPT !.asked = asked, !.awaits = op] = [c EXCEPT !.awaits = op]
      BY <1>3, <3>3 DEF Fields
    <3>5. client' = [client EXCEPT ![p] = [c EXCEPT !.asked = asked, !.awaits = op]]
      BY <3>2, <3>4
    <3> QED
      BY <3>2, <3>5
  <2>2. CASE PeerExchangesMtu(p)
    <3>1. c.awaits = "none" /\ \E mtu \in ClientMtus :
            client' = [client EXCEPT ![p].asked = mtu, ![p].awaits = "exchange_mtu"]
      BY <2>2 DEF PeerExchangesMtu
    <3>2. PICK mtu \in ClientMtus :
            client' = [client EXCEPT ![p].asked = mtu, ![p].awaits = "exchange_mtu"]
      BY <3>1
    <3>3. client' = [client EXCEPT ![p] = [c EXCEPT !.asked = mtu, !.awaits = "exchange_mtu"]]
      BY <1>3, <3>2
    <3> QED
      BY <3>1, <3>3
  <2>3. CASE PeerWrites(p)
    <3>1. \/ client' = client
          \/ c.awaits = "none" /\ client' = [client EXCEPT ![p].awaits = "write_request"]
      BY <2>3 DEF PeerWrites
    <3>2. PICK asked : asked = c.asked
      OBVIOUS
    <3>3. [c EXCEPT !.asked = asked, !.awaits = "write_request"] = [c EXCEPT !.awaits = "write_request"]
      BY <1>3, <3>2 DEF Fields
    <3>4. client' = [client EXCEPT ![p].awaits = "write_request"] =>
            client' = [client EXCEPT ![p] = [c EXCEPT !.asked = asked, !.awaits = "write_request"]]
      BY <3>3
    <3> QED
      BY <3>1, <3>4
  <2> QED
    BY <2>1, <2>2, <2>3
<1>5. CASE client' = client
  <2>1. opens' = opens /\ services' = services /\ overwritten' = overwritten /\ att_mtu' = att_mtu
    BY <1>1 DEF PeerActs, databaseVars
  <2> QED
    BY <1>1, <1>5, <2>1, QuietDiscovers
<1>6. ASSUME c.awaits = "none", NEW asked, NEW op,
             client' = [client EXCEPT ![p] = [c EXCEPT !.asked = asked, !.awaits = op]]
      PROVE  DInv'
  <2> DEFINE d == [c EXCEPT !.asked = asked, !.awaits = op]
  <2>1. /\ d.procedure = c.procedure /\ d.target = c.target /\ d.next = c.next /\ d.found = c.found
        /\ d.done = c.done
    BY <1>3 DEF Fields
  <2>2. client' = [client EXCEPT ![p] = d]
    BY <1>6
  <2> HIDE DEF d
  <2>3. Progress(d, opens <= 1, overwritten)
    BY <1>2, <2>1, ProgressFrame
  <2>4. AllOf(Values, responses)
    <3>1. Runs /\ n # 0
      BY <1>1 DEF PeerActs, Connected
    <3>2. Phase(p, c, toServer[p], responses, unheard, services, n)
      BY <3>1 DEF IInv, PeerInStep
    <3> QED
      BY <1>6, <3>2 DEF Phase, Resting, Asking, Answered, Forgotten
  <2>5. Pending(d, toClient[p], opens <= 1, overwritten)
    BY <2>4, NothingPends
  <2> QED
    BY <1>1, <2>2, <2>3, <2>5, PeerGoesOn
<1> QED
  BY <1>4, <1>5, <1>6

\* A response is added behind the PDUs under way.
LEMMA PendingMore ==
    ASSUME NEW c, NEW old, Sequence(old), NEW fresh, NEW gone, Pending(c, old, fresh, gone),
           NEW pdu, Waits(c) => Continues(c, pdu, fresh, gone)
    PROVE  Pending(c, Append(old, pdu), fresh, gone)
<1>1. PICK n, t : n = Len(old) /\ t = Append(old, pdu)
  OBVIOUS
<1>2. /\ n \in Nat /\ DOMAIN old = 1 .. n /\ DOMAIN t = 1 .. n + 1 /\ t[n + 1] = pdu
      /\ \A i \in 1 .. n : t[i] = old[i]
  BY <1>1, AppendFacts, SequenceFacts DEF Extends
<1>3. \A i \in 1 .. n + 1 : i \in 1 .. n \/ i = n + 1
  BY <1>2
<1>4. \A x \in ToSet(t) : x \in ToSet(old) \/ x = pdu
  BY <1>2, <1>3 DEF ToSet
<1> QED
  BY <1>1, <1>4 DEF Pending

\* A handler answers the request of a peer with what the peer's discovery goes on with.
LEMMA ReplyDiscovers ==
    ASSUME IInv, DInv, NEW p \in Peer, NEW op, Receive(p, op),
           NEW pdu, Reply(p, pdu), pdu.length \in Nat, \A q \in Peer \ {p} : att_mtu'[q] = att_mtu[q],
           overwritten \subseteq overwritten',
           Waits(client[p]) => Continues(client[p], pdu, opens <= 1, overwritten)
    PROVE  DInv'
<1>1. PICK c, fresh, gone, more : /\ c = client[p] /\ fresh = (opens <= 1)
                                  /\ gone = overwritten /\ more = overwritten'
  OBVIOUS
<1>2. /\ services' = services /\ client' = client /\ Sequence(toClient[p]) /\ att_mtu[p] # 0
  BY ReceiveFacts
<1>3. opens' = opens
  BY DEF Receive, boundVars
<1>4. opens # 0 /\ \A q \in Peer : att_mtu'[q] # 0 => opens # 0
  BY <1>2 DEF DInv, Registered
<1>5. /\ \A q \in Peer \ {p} : toClient'[q] = toClient[q]
      /\ toClient'[p] = Append(toClient[p], pdu) \/ toClient'[p] = toClient[p]
  BY <1>2, ReplyFacts DEF IInv
<1>6. Progress(c, fresh, gone) /\ Pending(c, toClient[p], fresh, gone)
  BY <1>1 DEF DInv, Discovers
<1>7. Pending(c, Append(toClient[p], pdu), fresh, gone)
  BY <1>1, <1>2, <1>6, PendingMore
<1>8. Discovers(p, opens <= 1, overwritten)'
  <2>1. Progress(c, fresh, more) /\ Pending(c, toClient'[p], fresh, more)
    BY <1>1, <1>5, <1>6, <1>7, OverwrittenMore
  <2> QED
    BY <1>1, <1>2, <1>3, <2>1 DEF Discovers
<1>9. \A q \in Peer \ {p} : Keeps(q)
  BY <1>2, <1>5 DEF Keeps
<1> QED
  BY <1>2, <1>3, <1>4, <1>8, <1>9, DiscoveryStep

\* What a handler knows of a peer that waits in a discovery.
LEMMA AskedInDiscovery ==
    ASSUME IInv, DInv, NEW p \in Peer, NEW op, op \notin Commands, Receive(p, op), Waits(client[p])
    PROVE  LET c == client[p] IN
           /\ c.procedure \in Discovery /\ Known(c) /\ c.next \in Nat
           /\ c.procedure \in {"characteristics", "attributes"} => FirstHandle(c.target) <= c.next
           /\ Covers(services, ServiceId, StartOf) /\ (opens <= 1 => Rising(services, StartOf))
           /\ att_mtu[p] \in Nat /\ att_mtu[p] >= ATT_MTU_DEFAULT
           /\ Head(toServer[p]) = Request(c) /\ Request(c).op = op
<1>1. PICK c : c = client[p]
  OBVIOUS
<1>2. /\ c.awaits = op /\ ClientOK(c)
      /\ op \notin {"exchange_mtu", "write_request"} => Head(toServer[p]) = Request(c)
  BY <1>1, RequestFacts
<1>3. c.procedure \in Discovery /\ c.awaits \notin {"none", "exchange_mtu", "write_request"}
  BY <1>1 DEF Waits
<1>4. Head(toServer[p]) = Request(c) /\ Request(c).op = op
  BY <1>2, <1>3 DEF ClientOK
<1>5. Progress(c, opens <= 1, overwritten)
  BY <1>1 DEF DInv, Discovers
<1>6. /\ Known(c) /\ c.next \in Nat
      /\ c.procedure \in {"characteristics", "attributes"} => FirstHandle(c.target) <= c.next
  BY <1>3, <1>5 DEF Progress, Found
<1>7. att_mtu[p] \in Nat /\ att_mtu[p] >= ATT_MTU_DEFAULT /\ att_mtu[p] # 0
  BY ReceiveFacts
<1>8. Covers(services, ServiceId, StartOf) /\ (opens <= 1 => Rising(services, StartOf))
  BY <1>7 DEF DInv, Registered
<1> QED
  BY <1>1, <1>3, <1>4, <1>6, <1>7, <1>8

LEMMA ScanHandlersDiscover ==
    ASSUME IInv, DInv, NEW p \in Peer,
           \/ gatt_recv_find_information_req(p) \/ gatt_recv_find_by_type_value_req(p)
           \/ gatt_recv_read_by_type_req(p) \/ gatt_recv_read_by_group_type_req(p)
    PROVE  DInv'
<1>1. PICK c, fresh, r, mtu, old, gone :
         /\ c = client[p] /\ fresh = (opens <= 1) /\ r = Head(toServer[p]) /\ mtu = att_mtu[p]
         /\ old = services /\ gone = overwritten
  OBVIOUS
<1>2. att_mtu' = att_mtu /\ overwritten' = overwritten
  BY DEF gatt_recv_find_information_req, gatt_recv_find_by_type_value_req,
         gatt_recv_read_by_type_req, gatt_recv_read_by_group_type_req, databaseVars
<1>3. CASE gatt_recv_find_information_req(p)
  <2>1. PICK pdu : pdu = FindInformation(old, r.start, r.end, mtu)
    OBVIOUS
  <2>2. Receive(p, "find_information") /\ Reply(p, pdu) /\ "find_information" \notin Commands
    BY <1>1, <1>3, <2>1 DEF gatt_recv_find_information_req, Commands
  <2>3. old \in Seq(ServiceId) /\ mtu \in Nat /\ mtu >= ATT_MTU_DEFAULT
    BY <1>1, <2>2, ReceiveFacts DEF IInv, Shape
  <2>4. pdu.length \in Nat
    BY <2>1, <2>3, FindInformationFits
  <2>5. ASSUME Waits(c) PROVE Continues(c, pdu, fresh, gone)
    <3>1. /\ c.procedure \in Discovery /\ Known(c) /\ c.next \in Nat
          /\ c.procedure \in {"characteristics", "attributes"} => FirstHandle(c.target) <= c.next
          /\ Covers(old, ServiceId, StartOf) /\ (fresh => Rising(old, StartOf))
          /\ r = Request(c) /\ Request(c).op = "find_information"
      BY <1>1, <2>2, <2>5, AskedInDiscovery
    <3>2. Continues(c, FindInformation(old, r.start, r.end, mtu), fresh, gone)
      BY <2>3, <3>1, DiscoveryAnswers
    <3> QED
      BY <2>1, <3>2
  <2> QED
    BY <1>1, <1>2, <2>2, <2>4, <2>5, ReplyDiscovers
<1>4. CASE gatt_recv_find_by_type_value_req(p)
  <2>1. PICK pdu : pdu = FindByTypeValue(old, gone, r.start, r.end, r.type, r.value, mtu)
    OBVIOUS
  <2>2. Receive(p, "find_by_type_value") /\ Reply(p, pdu) /\ "find_by_type_value" \notin Commands
    BY <1>1, <1>4, <2>1 DEF gatt_recv_find_by_type_value_req, Commands
  <2>3. old \in Seq(ServiceId) /\ mtu \in Nat /\ mtu >= ATT_MTU_DEFAULT
    BY <1>1, <2>2, ReceiveFacts DEF IInv, Shape
  <2>4. pdu.length \in Nat
    BY <2>1, <2>3, FindByTypeValueFits
  <2>5. ASSUME Waits(c) PROVE Continues(c, pdu, fresh, gone)
    <3>1. /\ c.procedure \in Discovery /\ Known(c) /\ c.next \in Nat
          /\ c.procedure \in {"characteristics", "attributes"} => FirstHandle(c.target) <= c.next
          /\ Covers(old, ServiceId, StartOf) /\ (fresh => Rising(old, StartOf))
          /\ r = Request(c) /\ Request(c).op = "find_by_type_value"
      BY <1>1, <2>2, <2>5, AskedInDiscovery
    <3>2. Continues(c, FindByTypeValue(old, gone, r.start, r.end, r.type, r.value, mtu), fresh, gone)
      BY <2>3, <3>1, DiscoveryAnswers
    <3> QED
      BY <2>1, <3>2
  <2> QED
    BY <1>1, <1>2, <2>2, <2>4, <2>5, ReplyDiscovers
<1>5. CASE gatt_recv_read_by_group_type_req(p)
  <2>1. PICK pdu : pdu = ReadByGroupType(old, r.start, r.end, r.type, mtu)
    OBVIOUS
  <2>2. Receive(p, "read_by_group_type") /\ Reply(p, pdu) /\ "read_by_group_type" \notin Commands
    BY <1>1, <1>5, <2>1 DEF gatt_recv_read_by_group_type_req, Commands
  <2>3. old \in Seq(ServiceId) /\ mtu \in Nat /\ mtu >= ATT_MTU_DEFAULT
    BY <1>1, <2>2, ReceiveFacts DEF IInv, Shape
  <2>4. pdu.length \in Nat
    BY <2>1, <2>3, ReadByGroupTypeFits
  <2>5. ASSUME Waits(c) PROVE Continues(c, pdu, fresh, gone)
    <3>1. /\ c.procedure \in Discovery /\ Known(c) /\ c.next \in Nat
          /\ c.procedure \in {"characteristics", "attributes"} => FirstHandle(c.target) <= c.next
          /\ Covers(old, ServiceId, StartOf) /\ (fresh => Rising(old, StartOf))
          /\ r = Request(c) /\ Request(c).op = "read_by_group_type"
      BY <1>1, <2>2, <2>5, AskedInDiscovery
    <3>2. Continues(c, ReadByGroupType(old, r.start, r.end, r.type, mtu), fresh, gone)
      BY <2>3, <3>1, DiscoveryAnswers
    <3> QED
      BY <2>1, <3>2
  <2> QED
    BY <1>1, <1>2, <2>2, <2>4, <2>5, ReplyDiscovers
<1>6. CASE gatt_recv_read_by_type_req(p)
  <2>1. PICK pdu : pdu = ReadByType(old, r.start, r.end, r.type, mtu)
    OBVIOUS
  <2>2. /\ Receive(p, "read_by_type") /\ "read_by_type" \notin Commands
        /\ Reply(p, pdu) \/ toClient' = toClient
    BY <1>1, <1>6, <2>1 DEF gatt_recv_read_by_type_req, Commands
  <2>3. old \in Seq(ServiceId) /\ mtu \in Nat /\ mtu >= ATT_MTU_DEFAULT
    BY <1>1, <2>2, ReceiveFacts DEF IInv, Shape
  <2>4. pdu.length \in Nat
    BY <2>1, <2>3, ReadByTypeFits
  <2>5. ASSUME Waits(c) PROVE Continues(c, pdu, fresh, gone)
    <3>1. /\ c.procedure \in Discovery /\ Known(c) /\ c.next \in Nat
          /\ c.procedure \in {"characteristics", "attributes"} => FirstHandle(c.target) <= c.next
          /\ Covers(old, ServiceId, StartOf) /\ (fresh => Rising(old, StartOf))
          /\ r = Request(c) /\ Request(c).op = "read_by_type"
      BY <1>1, <2>2, <2>5, AskedInDiscovery
    <3>2. Continues(c, ReadByType(old, r.start, r.end, r.type, mtu), fresh, gone)
      BY <2>3, <3>1, DiscoveryAnswers
    <3> QED
      BY <2>1, <3>2
  <2>6. CASE Reply(p, pdu)
    BY <1>1, <1>2, <2>2, <2>4, <2>5, <2>6, ReplyDiscovers
  <2>7. CASE toClient' = toClient
    <3>1. opens' = opens /\ services' = services /\ client' = client
      BY <2>2 DEF Receive, boundVars
    <3> QED
      BY <1>2, <2>7, <3>1, QuietDiscovers
  <2> QED
    BY <2>2, <2>6, <2>7
<1> QED
  BY <1>3, <1>4, <1>5, <1>6

\* The other requests are none of a discovery.
LEMMA OtherHandlersDiscover ==
    ASSUME IInv, DInv, NEW p \in Peer,
           \/ RecvExchangeMtu(p) \/ gatt_recv_read_req(p) \/ gatt_recv_read_blob_req(p)
           \/ gatt_recv_write_req(p) \/ gatt_recv_write_cmd(p) \/ gatt_recv_handle_value_cfm(p)
           \/ RecvUnknown(p)
    PROVE  DInv'
<1>1. PICK c : c = client[p]
  OBVIOUS
<1>2. ASSUME NEW op \in {"exchange_mtu", "write_request", "read", "read_blob"}, Receive(p, op)
      PROVE  ~Waits(c)
  <2>1. op \notin Commands
    BY <1>2 DEF Commands
  <2>2. CASE op \in {"exchange_mtu", "write_request"}
    BY <1>1, <1>2, <2>1, <2>2, RequestFacts DEF Waits
  <2>3. CASE op \in {"read", "read_blob"}
    <3> SUFFICES ASSUME Waits(c) PROVE FALSE
      OBVIOUS
    <3>1. c.procedure \in Discovery /\ Request(c).op = op
      BY <1>1, <1>2, <2>1, AskedInDiscovery
    <3> QED
      BY <2>3, <3>1, RequestOps DEF Discovery
  <2> QED
    BY <1>2, <2>2, <2>3
<1>3. CASE RecvExchangeMtu(p)
  <2>1. PICK mtu : mtu = Negotiated(Head(toServer[p]).mtu)
    OBVIOUS
  <2>2. PICK pdu : pdu = [op |-> "exchange_mtu", mtu |-> mtu, length |-> 3]
    OBVIOUS
  <2>3. /\ Receive(p, "exchange_mtu") /\ Reply(p, pdu) /\ att_mtu' = [att_mtu EXCEPT ![p] = mtu]
        /\ overwritten' = overwritten
    BY <1>3, <2>1, <2>2 DEF RecvExchangeMtu, databaseVars
  <2>4. pdu.length \in Nat /\ \A q \in Peer \ {p} : att_mtu'[q] = att_mtu[q]
    BY <2>2, <2>3 DEF IInv, Shape
  <2>5. ~Waits(c)
    BY <1>2, <2>3
  <2> QED
    BY <1>1, <2>3, <2>4, <2>5, ReplyDiscovers
<1>4. CASE gatt_recv_read_req(p)
  <2>1. PICK r, pdu : r = Head(toServer[p]) /\ pdu = ReadAnswer(p, r.handle)
    OBVIOUS
  <2>2. /\ Receive(p, "read") /\ Reply(p, pdu) /\ "read" \notin Commands
        /\ att_mtu' = att_mtu /\ overwritten' = overwritten
    BY <1>4, <2>1 DEF gatt_recv_read_req, Commands, databaseVars
  <2>3. /\ c.awaits = "read" /\ c.mtu = att_mtu[p] /\ r = Request(c) /\ ClientOK(c)
        /\ services \in Seq(ServiceId)
    BY <1>1, <2>1, <2>2, RequestFacts
  <2>4. pdu.length \in Nat
    BY <2>1, <2>3, ReadAnswers
  <2>5. ~Waits(c)
    BY <1>2, <2>2
  <2> QED
    BY <1>1, <2>2, <2>4, <2>5, ReplyDiscovers
<1>5. CASE gatt_recv_read_blob_req(p)
  <2>1. PICK r, pdu : r = Head(toServer[p]) /\ pdu = BlobAnswer(p, r.handle, r.offset)
    OBVIOUS
  <2>2. /\ Receive(p, "read_blob") /\ Reply(p, pdu) /\ "read_blob" \notin Commands
        /\ att_mtu' = att_mtu /\ overwritten' = overwritten
    BY <1>5, <2>1 DEF gatt_recv_read_blob_req, Commands, databaseVars
  <2>3. /\ c.awaits = "read_blob" /\ c.mtu = att_mtu[p] /\ r = Request(c) /\ ClientOK(c)
        /\ Gathered(c, services) /\ services \in Seq(ServiceId)
    BY <1>1, <2>1, <2>2, RequestFacts
  <2>4. pdu.length \in Nat
    BY <2>1, <2>3, BlobAnswers
  <2>5. ~Waits(c)
    BY <1>2, <2>2
  <2> QED
    BY <1>1, <2>2, <2>4, <2>5, ReplyDiscovers
<1>6. CASE gatt_recv_write_req(p)
  <2>1. Receive(p, "write_request") /\ att_mtu' = att_mtu /\ overwritten \subseteq overwritten'
    BY <1>6 DEF gatt_recv_write_req, Store, databaseVars
  <2>2. PICK pdu : Reply(p, pdu) /\ pdu.length \in {1, 5}
    <3>1. PICK r, code : r = Head(toServer[p]) /\ code = WriteError(p, r.handle)
      OBVIOUS
    <3>2. \E pdu \in {gatt_send_error_resp("write_request", r.handle, code),
                      gatt_send_error_resp("write_request", r.handle, "attribute_not_found"),
                      [op |-> "write_request", length |-> 1]} : Reply(p, pdu)
      BY <1>6, <3>1 DEF gatt_recv_write_req
    <3> QED
      BY <3>2, ErrorFacts
  <2>3. pdu.length \in Nat
    BY <2>2
  <2>4. ~Waits(c)
    BY <1>2, <2>1
  <2> QED
    BY <1>1, <2>1, <2>2, <2>3, <2>4, ReplyDiscovers
<1>7. CASE gatt_recv_write_cmd(p) \/ gatt_recv_handle_value_cfm(p) \/ RecvUnknown(p)
  <2>1. (\E op : Receive(p, op)) /\ Silent /\ att_mtu' = att_mtu /\ overwritten \subseteq overwritten'
    BY <1>7 DEF gatt_recv_write_cmd, gatt_recv_handle_value_cfm, RecvUnknown, Store, databaseVars
  <2>2. /\ opens' = opens /\ services' = services /\ client' = client /\ toClient' = toClient
        /\ att_mtu' = att_mtu /\ overwritten \subseteq overwritten'
    BY <2>1 DEF Receive, Silent, boundVars
  <2> QED
    BY <2>2, QuietDiscovers
<1> QED
  BY <1>3, <1>4, <1>5, <1>6, <1>7

Takes(d, c, pdu) == d = After(c, pdu)
HasFields(c) == c = [f \in Fields |-> c[f]]
Carries(pdu) == pdu.op \in {"read_by_group_type", "find_by_type_value", "read_by_type", "find_information"}
Passed(next, target) == next > FinalHandle(target)
Rejects(pdu) == pdu.op = "error" /\ pdu.request # "write_request"
Aside(pdu) == \/ pdu.op \in {"exchange_mtu", "write_request"}
              \/ pdu.op = "error" /\ pdu.request = "write_request"

\* What a response leaves of what its receiver was doing.
LEMMA AfterFacts ==
    ASSUME NEW c, HasFields(c), NEW pdu, NEW d, Takes(d, c, pdu)
    PROVE  /\ d.procedure = c.procedure /\ d.target = c.target /\ d.awaits = "none"
           /\ Aside(pdu) => d.found = c.found /\ d.next = c.next /\ d.done = c.done
           /\ Rejects(pdu) => d.found = c.found /\ d.next = c.next /\ d.done = TRUE
<1>1. PICK u : u = Taken(c, pdu)
  OBVIOUS
<1>2. d = [u EXCEPT !.awaits = "none"]
  BY <1>1 DEF After, Takes
<1>3. CASE pdu.op = "exchange_mtu"
  <2>1. PICK mtu, grown : u = [c EXCEPT !.mtu = mtu, !.regrown = grown]
    BY <1>1, <1>3 DEF Taken
  <2> QED
    BY <1>2, <1>3, <2>1 DEF Fields, HasFields, Aside, Rejects
<1>4. CASE pdu.op = "error"
  <2>1. u = IF pdu.request = "write_request" THEN c ELSE [c EXCEPT !.done = TRUE]
    BY <1>1, <1>4 DEF Taken
  <2> QED
    BY <1>2, <1>4, <2>1 DEF Fields, HasFields, Aside, Rejects
<1>5. CASE pdu.op = "write_request"
  <2>1. u = c
    BY <1>1, <1>5 DEF Taken
  <2> QED
    BY <1>2, <1>5, <2>1 DEF Fields, HasFields, Aside, Rejects
<1>6. CASE pdu.op \in {"read", "read_blob"}
  <2>1. PICK found, next, done : u = [c EXCEPT !.found = found, !.next = next, !.done = done]
    BY <1>1, <1>6 DEF Taken
  <2> QED
    BY <1>2, <1>6, <2>1 DEF Fields, HasFields, Aside, Rejects
<1>7. CASE pdu.op \notin {"exchange_mtu", "error", "write_request", "read", "read_blob"}
  <2>1. PICK found, next, done : u = [c EXCEPT !.found = found, !.next = next, !.done = done]
    BY <1>1, <1>7 DEF Taken
  <2> QED
    BY <1>2, <1>7, <2>1 DEF Fields, HasFields, Aside, Rejects
<1> QED
  BY <1>3, <1>4, <1>5, <1>6, <1>7

\* the handle behind an entry
Behind(pdu, e) == 1 + (IF pdu.op \in {"read_by_group_type", "find_by_type_value"} THEN e.end ELSE e.handle)

LEMMA AfterList ==
    ASSUME NEW c, HasFields(c), NEW pdu, NEW d, Takes(d, c, pdu),
           Carries(pdu)
    PROVE  LET after == Behind(pdu, pdu.list[Len(pdu.list)]) IN
           d.found = c.found \o pdu.list /\ d.next = after /\ d.done = Passed(after, c.target)
<1>1. PICK after, found, done : /\ after = Behind(pdu, pdu.list[Len(pdu.list)])
                                /\ found = c.found \o pdu.list /\ done = Passed(after, c.target)
  OBVIOUS
<1>2. PICK u : u = Taken(c, pdu)
  OBVIOUS
<1>3. u = [c EXCEPT !.found = found, !.next = after, !.done = done]
  BY <1>1, <1>2 DEF Taken, Behind, Last, Carries, Passed
<1>4. d = [u EXCEPT !.awaits = "none"]
  BY <1>2 DEF After, Takes
<1>5. d.found = found /\ d.next = after /\ d.done = done
  BY <1>3, <1>4 DEF Fields, HasFields
<1> QED
  BY <1>1, <1>5

\* A discovery takes a response and goes on behind its last entry, or ends.
LEMMA DiscoveryGoesOn ==
    ASSUME NEW c, c.procedure \in Discovery, HasFields(c),
           NEW fresh, NEW gone, Progress(c, fresh, gone),
           NEW pdu, pdu.op = Request(c).op, Continues(c, pdu, fresh, gone), NEW d, Takes(d, c, pdu)
    PROVE  Progress(d, fresh, gone)
<1>1. PICK R, S, list, last, after, next, found, first, final :
         /\ R = Reference(c) /\ S = Sought(c, gone) /\ list = pdu.list /\ last = list[Len(list)] /\ next = c.next
         /\ found = c.found /\ first = FirstHandle(c.target) /\ final = FinalHandle(c.target)
         /\ after = Behind(pdu, last)
  OBVIOUS
<1>2. /\ c.procedure = "services" => pdu.op = "read_by_group_type"
      /\ c.procedure = "service" => pdu.op = "find_by_type_value"
      /\ c.procedure = "characteristics" => pdu.op = "read_by_type"
      /\ c.procedure = "attributes" => pdu.op = "find_information"
  BY DEF Request
<1>3. pdu.op \in {"read_by_group_type", "find_by_type_value", "read_by_type", "find_information"}
  BY <1>2 DEF Discovery
<1>4. /\ Known(c) /\ Found(R, S, found, next, fresh) /\ next \in Nat /\ S \subseteq R
      /\ c.procedure \in {"characteristics", "attributes"} => first <= next
  BY <1>1, SoughtFacts DEF Progress, Found
<1>5. /\ \A e \in R : e.handle \in Nat /\ e.handle <= final
      /\ c.procedure \in {"services", "service"} =>
           /\ \A e \in R : e.end \in Nat /\ e.handle < e.end
           /\ \A e, f \in R : e.handle <= f.end => e.handle <= f.handle
  BY <1>1, <1>4, ReferenceFacts DEF Keyed
<1>6. first \in Nat /\ final \in Nat
  BY <1>1, HandleBounds
<1>7. /\ Sequence(list) /\ list # <<>>
      /\ \A e \in ToSet(list) : e \in R /\ next <= e.handle
      /\ \A e \in S : next <= e.handle /\ e.handle <= last.handle => e \in ToSet(list)
      /\ fresh => \A i, j \in DOMAIN list : i < j => list[i].handle < list[j].handle
  <2>1. pdu.op # "error"
    BY <1>3
  <2> QED
    BY <1>1, <2>1 DEF Continues
<1>8. last \in R
  <2>1. Len(list) \in DOMAIN list
    <3>1. Len(list) \in Nat /\ Len(list) # 0 /\ DOMAIN list = 1 .. Len(list)
      BY <1>7, SequenceFacts
    <3> QED
      BY <3>1
  <2>2. last \in ToSet(list)
    BY <1>1, <2>1 DEF ToSet
  <2> QED
    BY <1>7, <2>2
<1>9. after \in Nat /\ last.handle < after /\ \A e \in R : e.handle < after => e.handle <= last.handle
  <2>1. CASE c.procedure \in {"services", "service"}
    <3>1. after = 1 + last.end
      BY <1>1, <1>2, <2>1 DEF Behind
    <3>2. last.end \in Nat /\ last.handle \in Nat /\ last.handle < last.end
      BY <1>5, <1>8, <2>1
    <3>3. \A e \in R : e.handle < after => e.handle <= last.end
      BY <1>5, <3>1, <3>2
    <3>4. \A e \in R : e.handle <= last.end => e.handle <= last.handle
      BY <1>5, <1>8, <2>1
    <3> QED
      BY <3>1, <3>2, <3>3, <3>4
  <2>2. CASE c.procedure \notin {"services", "service"}
    <3>1. after = 1 + last.handle
      <4>1. pdu.op \in {"read_by_type", "find_information"}
        BY <1>2, <2>2 DEF Discovery
      <4> QED
        BY <1>1, <4>1 DEF Behind
    <3> QED
      BY <1>5, <1>8, <3>1
  <2> QED
    BY <2>1, <2>2
<1>10. Found(R, S, found \o list, after, fresh) /\ next < after
  <2>1. \A e \in R : e.handle \in Nat
    BY <1>5
  <2>2. after \in Nat /\ list[Len(list)].handle < after
    BY <1>1, <1>9
  <2>3. \A e \in R : e.handle < after => e.handle <= list[Len(list)].handle
    BY <1>1, <1>9
  <2>4. \A e \in S : next <= e.handle /\ e.handle <= list[Len(list)].handle => e \in ToSet(list)
    BY <1>1, <1>7
  <2> QED
    BY <1>4, <1>7, <2>1, <2>2, <2>3, <2>4, FoundMore
<1>11. /\ d.procedure = c.procedure /\ d.target = c.target /\ d.found = found \o list
       /\ d.next = after /\ d.done = (after > final)
  <2>1. d.procedure = c.procedure /\ d.target = c.target
    BY AfterFacts
  <2>2. after = Behind(pdu, pdu.list[Len(pdu.list)])
    BY <1>1
  <2>3. d.found = c.found \o pdu.list /\ d.next = after /\ d.done = Passed(after, c.target)
    <3>1. Carries(pdu)
      BY <1>3 DEF Carries
    <3> QED
      BY <2>2, <3>1, AfterList
  <2> QED
    BY <1>1, <2>1, <2>3 DEF Passed
<1>12. Reference(d) = R /\ Sought(d, gone) = S
  BY <1>1, <1>11, ReferenceFrame
<1>13. after > final => \A e \in S : e \in ToSet(found \o list)
  <2>1. after > final => \A e \in S : e.handle < after
    BY <1>4, <1>5, <1>6, <1>9
  <2> QED
    BY <1>10, <2>1 DEF Found
<1>14. c.procedure \in {"characteristics", "attributes"} => first <= after
  BY <1>4, <1>6, <1>9, <1>10
<1>15. Known(d)
  BY <1>4, <1>11 DEF Known
<1> QED
  BY <1>1, <1>10, <1>11, <1>12, <1>13, <1>14, <1>15 DEF Progress

\* An error ends it: there was nothing more to be found.
LEMMA DiscoveryEnds ==
    ASSUME NEW c, c.procedure \in Discovery, NEW fresh, NEW gone, Progress(c, fresh, gone),
           NEW pdu, pdu.op = "error", Continues(c, pdu, fresh, gone), NEW d,
           d.procedure = c.procedure, d.target = c.target, d.found = c.found, d.next = c.next
    PROVE  Progress(d, fresh, gone)
<1>1. PICK R, S, found, next :
         R = Reference(c) /\ S = Sought(c, gone) /\ found = c.found /\ next = c.next
  OBVIOUS
<1>2. /\ Known(c) /\ Found(R, S, found, next, fresh)
      /\ c.procedure \in {"characteristics", "attributes"} => FirstHandle(c.target) <= next
  BY <1>1 DEF Progress
<1>3. \A e \in S : e \in ToSet(found)
  BY <1>1, <1>2 DEF Continues, Found
<1>4. Reference(d) = R /\ Sought(d, gone) = S /\ d.found = found /\ d.next = next
  BY <1>1, ReferenceFrame
<1>5. Known(d)
  BY <1>2 DEF Known
<1> QED
  BY <1>2, <1>3, <1>4, <1>5 DEF Progress

\* A response is taken.
LEMMA ResponseDiscovers ==
    ASSUME NEW c, HasFields(c), ClientOK(c), NEW fresh, NEW gone, Progress(c, fresh, gone),
           NEW pdu, c.awaits # "none", NEW registered, NEW mtu, Answers(c, pdu, registered, mtu),
           Waits(c) => Continues(c, pdu, fresh, gone), NEW d, Takes(d, c, pdu)
    PROVE  Progress(d, fresh, gone) /\ ~Waits(d)
<1>1. /\ d.procedure = c.procedure /\ d.target = c.target /\ d.awaits = "none"
      /\ Aside(pdu) => d.found = c.found /\ d.next = c.next /\ d.done = c.done
      /\ Rejects(pdu) => d.found = c.found /\ d.next = c.next /\ d.done = TRUE
  BY AfterFacts
<1>2. ~Waits(d)
  BY <1>1 DEF Waits
<1>3. CASE c.procedure \notin Discovery
  BY <1>1, <1>2, <1>3 DEF Progress
<1>4. CASE c.procedure \in Discovery /\ ~Waits(c)
  <2>1. c.awaits \in {"exchange_mtu", "write_request"}
    BY <1>4 DEF Waits
  <2>2. Aside(pdu)
    BY <2>1 DEF Answers, ResponseTo, Aside
  <2>3. d.found = c.found /\ d.next = c.next /\ d.done = c.done
    BY <1>1, <2>2
  <2> QED
    BY <1>1, <1>2, <2>3, ProgressFrame
<1>5. CASE Waits(c)
  <2>1. c.procedure \in Discovery /\ c.awaits = Request(c).op /\ c.awaits \notin {"exchange_mtu", "write_request"}
    BY <1>5 DEF Waits, ClientOK
  <2>2. pdu.op = Request(c).op \/ Rejects(pdu)
    BY <2>1 DEF Answers, ResponseTo, Rejects
  <2>3. CASE pdu.op = Request(c).op
    BY <1>2, <1>5, <2>1, <2>3, DiscoveryGoesOn
  <2>4. CASE Rejects(pdu)
    <3>1. d.found = c.found /\ d.next = c.next
      BY <1>1, <2>4
    <3>2. pdu.op = "error"
      BY <2>4 DEF Rejects
    <3> QED
      BY <1>1, <1>2, <1>5, <2>1, <3>1, <3>2, DiscoveryEnds
  <2> QED
    BY <2>2, <2>3, <2>4
<1> QED
  BY <1>3, <1>4, <1>5

LEMMA PeerReceivesDiscovers == ASSUME IInv, DInv, NEW p \in Peer, PeerReceives(p) PROVE DInv'
<1>1. PICK c, n, fresh, gone, old, new, pdu :
         /\ c = client[p] /\ n = att_mtu[p] /\ fresh = (opens <= 1) /\ pdu = Head(toClient[p])
         /\ gone = overwritten /\ old = toClient[p] /\ new = Tail(toClient[p])
  OBVIOUS
<1>2. /\ Runs /\ n # 0 /\ services' = services /\ overwritten' = overwritten /\ att_mtu' = att_mtu
      /\ opens' = opens
  BY <1>1 DEF PeerReceives, PeerActs, databaseVars, Connected
<1>3. /\ old # <<>> /\ toClient' = [toClient EXCEPT ![p] = new]
      /\ IF IsResponse(pdu) THEN client' = [client EXCEPT ![p] = After(c, pdu)] ELSE client' = client
  BY <1>1 DEF PeerReceives, After
<1>4. /\ Sound(p, c, toServer[p], old, unheard, services, n)
      /\ Phase(p, c, toServer[p], old, unheard, services, n)
  BY <1>1, <1>2 DEF IInv, PeerSound, PeerInStep
<1>5. Sequence(old) /\ ClientOK(c) /\ HasFields(c)
  BY <1>4 DEF Sound, ClientOK, HasFields
<1>6. Progress(c, fresh, gone) /\ Pending(c, old, fresh, gone)
  BY <1>1 DEF DInv, Discovers
<1>7. pdu \in ToSet(old) /\ \A x \in ToSet(new) : x \in ToSet(old)
  <2>1. PICK k : k = Len(old)
    OBVIOUS
  <2>2. /\ k \in Nat \ {0} /\ DOMAIN old = 1 .. k /\ DOMAIN new = 1 .. k - 1 /\ pdu = old[1]
        /\ \A i \in 1 .. k - 1 : new[i] = old[i + 1]
    BY <1>1, <1>3, <1>5, <2>1, TailFacts
  <2>3. 1 \in 1 .. k /\ \A i \in 1 .. k - 1 : i + 1 \in 1 .. k
    BY <2>2
  <2>4. pdu \in ToSet(old)
    BY <2>2, <2>3 DEF ToSet
  <2>5. \A x \in ToSet(new) : \E i \in 1 .. k - 1 : x = new[i]
    BY <2>2 DEF ToSet
  <2>6. \A i \in 1 .. k - 1 : new[i] \in ToSet(old)
    BY <2>2, <2>3 DEF ToSet
  <2> QED
    BY <2>4, <2>5, <2>6
<1>8. /\ toClient'[p] = new /\ \A q \in Peer \ {p} : toClient'[q] = toClient[q] /\ client'[q] = client[q]
      /\ client'[p] = IF IsResponse(pdu) THEN After(c, pdu) ELSE c
  <2>1. DOMAIN toClient = Peer /\ DOMAIN client = Peer
    BY DEF IInv, Shape
  <2>2. CASE IsResponse(pdu)
    BY <1>3, <2>1, <2>2
  <2>3. CASE ~IsResponse(pdu)
    BY <1>1, <1>3, <2>1, <2>3
  <2> QED
    BY <2>2, <2>3
<1>9. PICK d : d = client'[p]
  OBVIOUS
<1>10. Progress(d, fresh, gone) /\ Pending(d, new, fresh, gone)
  <2>1. CASE ~IsResponse(pdu)
    <3>1. d = c
      BY <1>8, <1>9, <2>1
    <3> QED
      BY <1>6, <1>7, <3>1, PendingLess
  <2>2. CASE IsResponse(pdu)
    <3>1. Takes(d, c, pdu) /\ pdu.op \notin Values
      BY <1>8, <1>9, <2>2 DEF Takes, IsResponse, Values
    <3>2. ~AllOf(Values, old)
      <4>1. Head(old).op \notin Values
        BY <1>1, <3>1
      <4> QED
        BY <1>3, <1>5, <4>1, AllTail
    <3>3. Answered(p, c, toServer[p], old, unheard, services, n)
      BY <1>4, <3>2 DEF Phase, Resting, Asking, Forgotten
    <3>4. PICK x \in ToSet(old) : AllBut(Values, old, x) /\ Answers(c, x, services, n)
      BY <3>3 DEF Answered
    <3>5. pdu = x
      <4>1. Head(old) = pdu
        BY <1>1
      <4> QED
        BY <1>3, <1>5, <3>1, <3>4, <4>1, AllTail
    <3>6. c.awaits # "none" /\ Answers(c, pdu, services, n)
      BY <3>3, <3>4, <3>5 DEF Answered
    <3>7. Waits(c) => Continues(c, pdu, fresh, gone)
      BY <1>6, <1>7, <3>1 DEF Pending
    <3>8. Progress(d, fresh, gone) /\ ~Waits(d)
      BY <1>5, <1>6, <3>1, <3>6, <3>7, ResponseDiscovers
    <3> QED
      BY <3>8, NothingPends
  <2> QED
    BY <2>1, <2>2
<1>11. Discovers(p, opens <= 1, overwritten)'
  BY <1>1, <1>2, <1>8, <1>9, <1>10 DEF Discovers
<1>12. \A q \in Peer \ {p} : Keeps(q)
  BY <1>8 DEF Keeps
<1>13. \A q \in Peer : att_mtu'[q] # 0 => opens # 0
  BY <1>2 DEF DInv, Registered
<1> QED
  BY <1>2, <1>11, <1>12, <1>13, DiscoveryStep

LEMMA StepDiscovers == ASSUME IInv, DInv, [Next]_vars PROVE DInv'
<1>1. ASSUME CompletedPackets \/ UNCHANGED vars \/ \E p \in Peer : sm_recv_evt_encryption_change(p)
      PROVE  DInv'
  <2>1. /\ opens' = opens /\ services' = services /\ att_mtu' = att_mtu /\ client' = client
        /\ overwritten' = overwritten /\ toClient' = toClient
    BY <1>1 DEF CompletedPackets, sm_recv_evt_encryption_change, vars, databaseVars, boundVars
  <2> QED
    BY <2>1, QuietDiscovers
<1>2. ASSUME NEW p \in Peer, att_recv(p) PROVE DInv'
  BY <1>2, ScanHandlersDiscover, OtherHandlersDiscover DEF att_recv
<1>3. ASSUME NEW p \in Peer,
             \/ gatt_send_notify(p) \/ gatt_send_indicate(p) \/ gatt_send_passthrough(p)
             \/ LinkUp(p) \/ LinkDown(p) \/ PeerStarts(p) \/ PeerAsks(p) \/ PeerExchangesMtu(p)
             \/ PeerWrites(p) \/ PeerReceives(p)
      PROVE  DInv'
  BY <1>3, SendsDiscover, LinkDiscovers, PeerStartsDiscovers, PeerAsksDiscovers, PeerReceivesDiscovers
<1> QED
  BY <1>1, <1>2, <1>3, OpenDiscovers DEF Next

\* What peers find is what the tables have, in every state.
THEOREM DiscoveriesKeepUp == Spec => []DInv
<1>1. Init => DInv
  BY InitDiscovers
<1>2. IInv /\ DInv /\ [Next]_vars => DInv'
  BY StepDiscovers
<1> QED
  BY <1>1, <1>2, PeersInStep, PTL DEF Spec

\* A discovery that came to its end found everything it looks for and nothing else, whatever the
\* MTU and whenever it changed, however often services were registered and whatever attributes
\* were written to; but who looks for a service by its id when a write has replaced that may miss it.
THEOREM DiscoveriesFindEverything == Spec => []FindsEverything
<1>1. DInv => FindsEverything
  <2> SUFFICES ASSUME DInv, NEW p \in Peer, client[p].procedure \in Discovery, client[p].done
               PROVE  /\ ToSet(client[p].found) \subseteq Reference(client[p])
                      /\ \/ Undeclared(client[p])
                         \/ Reference(client[p]) \subseteq ToSet(client[p].found)
    BY DEF FindsEverything
  <2>1. PICK c, R, S, found, gone : /\ c = client[p] /\ R = Reference(c) /\ S = Sought(c, gone)
                                    /\ found = c.found /\ gone = overwritten
    OBVIOUS
  <2>2. Found(R, S, found, c.next, opens <= 1) /\ \A e \in S : e \in ToSet(found)
    BY <2>1 DEF DInv, Discovers, Progress
  <2>3. ToSet(found) \subseteq R
    BY <2>2 DEF Found
  <2>4. Undeclared(c) \/ S = R
    BY <2>1 DEF Undeclared, Sought
  <2> QED
    BY <2>1, <2>2, <2>3, <2>4
<1> QED
  BY <1>1, DiscoveriesKeepUp, PTL

\* While the port was opened only once, a peer finds each entry once, in ascending order.
THEOREM DiscoveriesFindOnceInOrder == Spec => []FindsOnceInOrderWhenFresh
<1>1. DInv => FindsOnceInOrderWhenFresh
  <2> SUFFICES ASSUME DInv, opens <= 1, NEW p \in Peer, client[p].procedure \in Discovery
               PROVE  \A i, j \in DOMAIN client[p].found :
                         i < j => client[p].found[i].handle < client[p].found[j].handle
    BY DEF FindsOnceInOrderWhenFresh, FindsOnceInOrder
  <2>1. PICK found, fresh, S :
           found = client[p].found /\ fresh = (opens <= 1) /\ S = Sought(client[p], overwritten)
    OBVIOUS
  <2>2. Found(Reference(client[p]), S, found, client[p].next, fresh) /\ fresh
    BY <2>1 DEF DInv, Discovers, Progress
  <2>3. \A i, j \in DOMAIN found : i < j => found[i].handle < found[j].handle
    BY <2>2 DEF Found
  <2> QED
    BY <2>1, <2>3
<1> QED
  BY <1>1, DiscoveriesKeepUp, PTL
=============================================================================
