--------------------------- MODULE HciLinksProofs ---------------------------
(***************************************************************************)
(* HciLinks for every set of handles and every bound: the list mirrors the *)
(* controller's links, PDUs arrive whole and in order, null pointers are   *)
(* followed and buffers lost only where the model says.                    *)
(*                                                                         *)
(* The argument: what is under way takes the host, packet by packet, to a  *)
(* state that agrees with the controller and the peers (Mirrored).         *)
(***************************************************************************)
EXTENDS HciLinks, SequenceTheorems, FiniteSetTheorems, TLAPS

-----------------------------------------------------------------------------
(* Prefixes and removal.                                                    *)
LEMMA PrefixElements ==
    ASSUME NEW S, NEW s \in Seq(S), NEW t \in Seq(S)
    PROVE  IsPrefix(s, t) <=> /\ Len(s) <= Len(t)
                              /\ \A i \in 1 .. Len(s) : s[i] = t[i]
<1>1. Len(s) \in Nat /\ Len(t) \in Nat
  BY LenProperties
<1>2. SubSeq(s, 1, Len(s)) = s
  BY SubSeqFull
<1>3. ASSUME Len(s) <= Len(t)
      PROVE  /\ SubSeq(t, 1, Len(s)) \in Seq(S)
             /\ Len(SubSeq(t, 1, Len(s))) = Len(s)
             /\ \A i \in 1 .. Len(s) : SubSeq(t, 1, Len(s))[i] = t[i]
  <2>1. \A i \in 1 .. Len(s) : t[i] \in S
    <3> TAKE i \in 1 .. Len(s)
    <3>1. i \in 1 .. Len(t)
      BY <1>1, <1>3
    <3> QED
      BY <3>1, ElementOfSeq
  <2>2. /\ SubSeq(t, 1, Len(s)) \in Seq(S)
        /\ Len(SubSeq(t, 1, Len(s))) = IF 1 <= Len(s) THEN Len(s) - 1 + 1 ELSE 0
        /\ \A i \in 1 .. Len(s) - 1 + 1 : SubSeq(t, 1, Len(s))[i] = t[1 + i - 1]
    BY <1>1, <2>1, SubSeqProperties
  <2> QED
    BY <1>1, <2>2
<1>4. ASSUME Len(s) <= Len(t), \A i \in 1 .. Len(s) : s[i] = t[i]
      PROVE  SubSeq(t, 1, Len(s)) = s
  <2> DEFINE front == SubSeq(t, 1, Len(s))
  <2>1. front \in Seq(S) /\ Len(front) = Len(s) /\ \A i \in 1 .. Len(s) : front[i] = s[i]
    BY <1>3, <1>4
  <2> HIDE DEF front
  <2>2. front = s
    BY <2>1, SeqEqual
  <2> QED
    BY <2>2 DEF front
<1> QED
  BY <1>2, <1>3, <1>4, Zenon DEF IsPrefix

LEMMA PrefixRefl == ASSUME NEW S, NEW s \in Seq(S) PROVE IsPrefix(s, s)
<1>1. Len(s) <= Len(s)
  BY LenProperties
<1> QED
  BY <1>1, PrefixElements

LEMMA PrefixTrans ==
    ASSUME NEW S, NEW s \in Seq(S), NEW t \in Seq(S), NEW u \in Seq(S),
           IsPrefix(s, t), IsPrefix(t, u)
    PROVE  IsPrefix(s, u)
<1>1. /\ Len(s) <= Len(t) /\ \A i \in 1 .. Len(s) : s[i] = t[i]
      /\ Len(t) <= Len(u) /\ \A i \in 1 .. Len(t) : t[i] = u[i]
  BY PrefixElements
<1>2. Len(s) \in Nat /\ Len(t) \in Nat /\ Len(u) \in Nat
  BY LenProperties
<1>3. Len(s) <= Len(u) /\ \A i \in 1 .. Len(s) : s[i] = u[i]
  BY <1>1, <1>2
<1> QED
  BY <1>3, PrefixElements

LEMMA PrefixAppend ==
    ASSUME NEW S, NEW s \in Seq(S), NEW e \in S
    PROVE  IsPrefix(s, Append(s, e))
<1>1. /\ Append(s, e) \in Seq(S) /\ Len(Append(s, e)) = Len(s) + 1
      /\ \A i \in 1 .. Len(s) : Append(s, e)[i] = s[i]
  BY AppendProperties
<1>2. Len(s) \in Nat
  BY LenProperties
<1>3. Len(s) <= Len(Append(s, e))
  BY <1>1, <1>2
<1> QED
  BY <1>1, <1>3, PrefixElements

LEMMA Removed ==
    ASSUME NEW S, NEW s \in Seq(S), NEW i \in 1 .. Len(s)
    PROVE  /\ RemoveAt(s, i) \in Seq(S)
           /\ Len(RemoveAt(s, i)) = Len(s) - 1
           /\ \A k \in 1 .. Len(s) - 1 :
                RemoveAt(s, i)[k] = IF k < i THEN s[k] ELSE s[k + 1]
<1> DEFINE n == Len(s)
           front == SubSeq(s, 1, i - 1)
           back  == SubSeq(s, i + 1, n)
<1>1. n \in Nat /\ \A k \in 1 .. n : s[k] \in S
  BY LenProperties, ElementOfSeq
<1>2. /\ front \in Seq(S) /\ Len(front) = i - 1
      /\ \A k \in 1 .. i - 1 : front[k] = s[k]
  <2>1. \A k \in 1 .. i - 1 : s[k] \in S
    BY <1>1
  <2>2. /\ front \in Seq(S)
        /\ Len(front) = IF 1 <= i - 1 THEN (i - 1) - 1 + 1 ELSE 0
        /\ \A k \in 1 .. (i - 1) - 1 + 1 : front[k] = s[1 + k - 1]
    BY <1>1, <2>1, SubSeqProperties
  <2> QED
    BY <2>2
<1>3. /\ back \in Seq(S) /\ Len(back) = n - i
      /\ \A k \in 1 .. n - i : back[k] = s[i + k]
  <2>1. \A k \in i + 1 .. n : s[k] \in S
    BY <1>1
  <2>2. /\ back \in Seq(S)
        /\ Len(back) = IF i + 1 <= n THEN n - (i + 1) + 1 ELSE 0
        /\ \A k \in 1 .. n - (i + 1) + 1 : back[k] = s[(i + 1) + k - 1]
    BY <1>1, <2>1, SubSeqProperties
  <2> HIDE DEF back, n
  <2>3. n - (i + 1) + 1 = n - i /\ \A k \in 1 .. n - i : (i + 1) + k - 1 = i + k
    BY <1>1
  <2> QED
    BY <1>1, <2>2, <2>3 DEF n
<1> HIDE DEF front, back
<1>4. /\ front \o back \in Seq(S)
      /\ Len(front \o back) = Len(front) + Len(back)
      /\ \A k \in 1 .. Len(front) + Len(back) :
           (front \o back)[k] = IF k <= Len(front) THEN front[k] ELSE back[k - Len(front)]
  BY <1>2, <1>3, ConcatProperties
<1>5. ASSUME NEW k \in 1 .. n - 1
      PROVE  (front \o back)[k] = IF k < i THEN s[k] ELSE s[k + 1]
  <2>1. k \in 1 .. Len(front) + Len(back)
    BY <1>1, <1>2, <1>3
  <2>2. (front \o back)[k] = IF k <= i - 1 THEN front[k] ELSE back[k - (i - 1)]
    BY <1>2, <1>4, <2>1
  <2>3. CASE k < i
    <3>1. k \in 1 .. i - 1 /\ k <= i - 1
      BY <2>3
    <3> QED
      BY <1>2, <2>2, <2>3, <3>1
  <2>4. CASE ~(k < i)
    <3>1. k - (i - 1) \in 1 .. n - i /\ ~(k <= i - 1) /\ i + (k - (i - 1)) = k + 1
      BY <1>1, <2>4
    <3>2. back[k - (i - 1)] = s[i + (k - (i - 1))]
      BY <1>3, <3>1
    <3> QED
      BY <2>2, <2>4, <3>1, <3>2
  <2> QED
    BY <2>3, <2>4
<1>6. RemoveAt(s, i) = front \o back /\ Len(front) + Len(back) = n - 1
  BY <1>1, <1>2, <1>3 DEF RemoveAt, front, back
<1> QED
  BY <1>4, <1>5, <1>6

-----------------------------------------------------------------------------
(* What is under way, replayed.                                             *)
Packet == [type : {"connComplete", "disconnComplete"}, handle : Handle]
          \cup [type : {"first", "continue"}, handle : Handle, piece : Piece,
                total : 1 .. MaxPieces]

Distinct(seq) == \A i, j \in DOMAIN seq : seq[i] = seq[j] => i = j

\* The host's connections by their handles, what it handed up and what it leaked.
HostState == {s \in [order : Seq(Handle), node : [Handle -> Connection],
                     got : [Handle -> Seq(Seq(Piece))], leaked : Nat] :
                /\ Distinct(s.order)
                /\ \A h \in Handle : s.node[h].connect_handle = h}

\* The packet p finds the host in state s, where it makes sense, and leaves it in t.
Handles(s, p, t) ==
    LET h == p.handle
        node == s.node[h]
        buffer == Append(node.segment_buffer_recv, p.piece)
    IN
    \/ /\ p.type = "connComplete"
       /\ \A k \in DOMAIN s.order : s.order[k] # h
       /\ t.order = <<h>> \o s.order
       /\ t.node = [s.node EXCEPT ![h] = NewConnection(h)]
       /\ t.got = s.got /\ t.leaked = s.leaked
    \/ /\ p.type = "disconnComplete"
       /\ \E k \in DOMAIN s.order : s.order[k] = h /\ t.order = RemoveAt(s.order, k)
       /\ t.node = s.node /\ t.got = s.got /\ t.leaked = s.leaked
    \/ /\ p.type \in {"first", "continue"}
       /\ \E k \in DOMAIN s.order : s.order[k] = h
       /\ t.order = s.order
       /\ \/ /\ p.type = "first" /\ p.total = 1
             /\ t.node = [s.node EXCEPT ![h] = [@ EXCEPT !.segment_length_total = p.total,
                                                         !.segment_length_received = 1]]
             /\ t.got = [s.got EXCEPT ![h] = Append(@, <<p.piece>>)]
             /\ t.leaked = s.leaked
          \/ /\ p.type = "first" /\ p.total > 1
             /\ t.node = [s.node EXCEPT ![h] = [@ EXCEPT !.segment_length_total = p.total,
                                                         !.segment_length_received = 1,
                                                         !.segment_buffer_recv = <<p.piece>>]]
             /\ t.got = s.got
             /\ t.leaked = s.leaked + Owned(node.segment_buffer_recv)
          \/ /\ p.type = "continue"
             /\ node.segment_buffer_recv # <<>>
             /\ node.segment_length_received + 1 = node.segment_length_total
             /\ t.node = [s.node EXCEPT ![h] = [@ EXCEPT !.segment_length_received =
                                                            node.segment_length_received + 1,
                                                         !.segment_buffer_recv = <<>>]]
             /\ t.got = [s.got EXCEPT ![h] = Append(@, buffer)]
             /\ t.leaked = s.leaked
          \/ /\ p.type = "continue"
             /\ node.segment_buffer_recv # <<>>
             /\ node.segment_length_received + 1 # node.segment_length_total
             /\ t.node = [s.node EXCEPT ![h] = [@ EXCEPT !.segment_length_received =
                                                            node.segment_length_received + 1,
                                                         !.segment_buffer_recv = buffer]]
             /\ t.got = s.got
             /\ t.leaked = s.leaked

\* What was handed up and what was leaked only grows.
Before(s, t) ==
    /\ s.leaked <= t.leaked
    /\ \A h \in Handle : IsPrefix(s.got[h], t.got[h])

\* w[i] is the host's state once it has handled the first i packets of q.
Replay(w, s, q, t) ==
    /\ w \in [0 .. Len(q) -> HostState]
    /\ w[0] = s /\ w[Len(q)] = t
    /\ \A i \in 1 .. Len(q) : Handles(w[i - 1], q[i], w[i])
    /\ \A i \in 0 .. Len(q) : Before(w[i], t)

Reaches(s, q, t) == \E w : Replay(w, s, q, t)

LEMMA BeforeRefl == ASSUME NEW s \in HostState PROVE Before(s, s)
<1>1. s.leaked <= s.leaked
  BY DEF HostState
<1>2. \A h \in Handle : s.got[h] \in Seq(Seq(Piece))
  BY DEF HostState
<1> QED
  BY <1>1, <1>2, PrefixRefl DEF Before

LEMMA BeforeTrans ==
    ASSUME NEW s \in HostState, NEW t \in HostState, NEW u \in HostState,
           Before(s, t), Before(t, u)
    PROVE  Before(s, u)
<1>1. s.leaked <= u.leaked
  BY DEF HostState, Before
<1>2. ASSUME NEW h \in Handle PROVE IsPrefix(s.got[h], u.got[h])
  <2> DEFINE S == Seq(Piece)
  <2>1. s.got[h] \in Seq(S) /\ t.got[h] \in Seq(S) /\ u.got[h] \in Seq(S)
    BY DEF HostState
  <2>2. IsPrefix(s.got[h], t.got[h]) /\ IsPrefix(t.got[h], u.got[h])
    BY DEF Before
  <2> HIDE DEF S
  <2> QED
    BY <2>1, <2>2, PrefixTrans
<1> QED
  BY <1>1, <1>2 DEF Before

LEMMA ReachesNothing == ASSUME NEW s \in HostState PROVE Reaches(s, <<>>, s)
<1> DEFINE w == [i \in 0 .. 0 |-> s]
<1>1. Len(<<>>) = 0
  BY EmptySeq
<1>2. Replay(w, s, <<>>, s)
  BY <1>1, BeforeRefl DEF Replay
<1> QED
  BY <1>2 DEF Reaches

LEMMA ReachesEnd == ASSUME NEW s, NEW t, Reaches(s, <<>>, t) PROVE s = t /\ s \in HostState
<1>1. PICK w : Replay(w, s, <<>>, t)
  BY DEF Reaches
<1>2. Len(<<>>) = 0
  BY EmptySeq
<1> QED
  BY <1>1, <1>2 DEF Replay

LEMMA ReachesBefore ==
    ASSUME NEW s, NEW t, NEW q \in Seq(Packet), Reaches(s, q, t)
    PROVE  s \in HostState /\ t \in HostState /\ Before(s, t)
<1>1. PICK w : Replay(w, s, q, t)
  BY DEF Reaches
<1>2. Len(q) \in Nat
  BY LenProperties
<1>3. 0 \in 0 .. Len(q) /\ Len(q) \in 0 .. Len(q)
  BY <1>2
<1> QED
  BY <1>1, <1>3 DEF Replay

\* The packet at the head is handled; the others are left.
LEMMA ReachesTail ==
    ASSUME NEW s, NEW t, NEW q \in Seq(Packet), q # <<>>, Reaches(s, q, t)
    PROVE  \E s1 \in HostState : Handles(s, Head(q), s1) /\ Reaches(s1, Tail(q), t)
<1>1. PICK w : Replay(w, s, q, t)
  BY DEF Reaches
<1> DEFINE n == Len(q)
           w1 == [i \in 0 .. n - 1 |-> w[i + 1]]
<1>2. n \in Nat \ {0} /\ Head(q) = q[1]
  BY EmptySeq
<1>3. Len(Tail(q)) = n - 1 /\ \A i \in 1 .. n - 1 : Tail(q)[i] = q[i + 1]
  BY HeadTailProperties
<1>4. /\ w \in [0 .. n -> HostState] /\ w[0] = s /\ w[n] = t
      /\ \A i \in 1 .. n : Handles(w[i - 1], q[i], w[i])
      /\ \A i \in 0 .. n : Before(w[i], t)
  BY <1>1 DEF Replay
<1> HIDE DEF n
<1>5. w[1] \in HostState /\ Handles(s, Head(q), w[1])
  <2>1. 1 \in 1 .. n /\ 1 \in 0 .. n /\ 1 - 1 = 0
    BY <1>2
  <2> QED
    BY <1>2, <1>4, <2>1
<1>6. \A i \in 0 .. n - 1 : i + 1 \in 0 .. n /\ i + 1 \in 1 .. n /\ (i + 1) - 1 = i
  BY <1>2
<1>7. w1 \in [0 .. n - 1 -> HostState] /\ w1[0] = w[1] /\ w1[n - 1] = t
  <2>1. 0 \in 0 .. n - 1 /\ n - 1 \in 0 .. n - 1 /\ 0 + 1 = 1 /\ n - 1 + 1 = n
    BY <1>2
  <2> QED
    BY <1>4, <1>6, <2>1
<1>8. ASSUME NEW i \in 1 .. n - 1
      PROVE  Handles(w1[i - 1], Tail(q)[i], w1[i])
  <2>1. i - 1 \in 0 .. n - 1 /\ i \in 0 .. n - 1 /\ i - 1 + 1 = i /\ (i + 1) - 1 = i
        /\ i + 1 \in 1 .. n
    BY <1>2
  <2>2. w1[i - 1] = w[i] /\ w1[i] = w[i + 1] /\ Tail(q)[i] = q[i + 1]
    BY <1>3, <2>1
  <2>3. Handles(w[(i + 1) - 1], q[i + 1], w[i + 1])
    BY <1>4, <2>1
  <2> HIDE DEF w1
  <2> QED
    BY <2>1, <2>2, <2>3
<1>9. \A i \in 0 .. n - 1 : Before(w1[i], t)
  BY <1>4, <1>6
<1>10. Replay(w1, w[1], Tail(q), t)
  <2> HIDE DEF w1
  <2> QED
    BY <1>3, <1>7, <1>8, <1>9 DEF Replay
<1> QED
  BY <1>5, <1>10 DEF Reaches

\* A packet sent is the last to be handled.
LEMMA ReachesAppend ==
    ASSUME NEW s, NEW t, NEW q \in Seq(Packet), Reaches(s, q, t),
           NEW p \in Packet, NEW t1 \in HostState, Handles(t, p, t1), Before(t, t1)
    PROVE  Reaches(s, Append(q, p), t1)
<1>1. PICK w : Replay(w, s, q, t)
  BY DEF Reaches
<1> DEFINE n == Len(q)
           q1 == Append(q, p)
           w1 == [i \in 0 .. n + 1 |-> IF i <= n THEN w[i] ELSE t1]
<1>2. n \in Nat
  BY LenProperties
<1>3. Len(q1) = n + 1 /\ (\A i \in 1 .. n : q1[i] = q[i]) /\ q1[n + 1] = p
  BY AppendProperties
<1>4. /\ w \in [0 .. n -> HostState] /\ w[0] = s /\ w[n] = t
      /\ \A i \in 1 .. n : Handles(w[i - 1], q[i], w[i])
      /\ \A i \in 0 .. n : Before(w[i], t)
  BY <1>1 DEF Replay
<1> HIDE DEF n, q1
<1>5. w1 \in [0 .. n + 1 -> HostState] /\ w1[0] = s /\ w1[n + 1] = t1
  BY <1>2, <1>4
<1>6. ASSUME NEW i \in 1 .. n + 1
      PROVE  Handles(w1[i - 1], q1[i], w1[i])
  <2>1. CASE i = n + 1
    <3>1. i - 1 \in 0 .. n + 1 /\ i - 1 = n /\ i - 1 <= n /\ i \in 0 .. n + 1 /\ ~(i <= n)
      BY <1>2, <2>1
    <3>2. w1[i - 1] = t /\ w1[i] = t1 /\ q1[i] = p
      BY <1>3, <1>4, <2>1, <3>1
    <3> HIDE DEF w1
    <3> QED
      BY <3>2
  <2>2. CASE i # n + 1
    <3>1. i \in 1 .. n /\ i - 1 \in 0 .. n + 1 /\ i - 1 <= n /\ i \in 0 .. n + 1 /\ i <= n
      BY <1>2, <2>2
    <3>2. w1[i - 1] = w[i - 1] /\ w1[i] = w[i] /\ q1[i] = q[i]
      BY <1>3, <3>1
    <3> HIDE DEF w1
    <3> QED
      BY <1>4, <3>1, <3>2
  <2> QED
    BY <2>1, <2>2
<1>7. ASSUME NEW i \in 0 .. n + 1
      PROVE  Before(w1[i], t1)
  <2>1. CASE i = n + 1
    BY <1>5, <2>1, BeforeRefl
  <2>2. CASE i # n + 1
    <3>1. i \in 0 .. n /\ i <= n /\ n \in 0 .. n
      BY <1>2, <2>2
    <3>2. w1[i] = w[i] /\ w[i] \in HostState /\ t \in HostState /\ Before(w[i], t)
      BY <1>4, <3>1
    <3> HIDE DEF w1
    <3>3. Before(w[i], t1)
      BY <3>2, BeforeTrans
    <3> QED
      BY <3>2, <3>3
  <2> QED
    BY <2>1, <2>2
<1>8. Replay(w1, s, q1, t1)
  <2> HIDE DEF w1
  <2> QED
    BY <1>3, <1>5, <1>6, <1>7 DEF Replay
<1> QED
  BY <1>8 DEF Reaches, q1

-----------------------------------------------------------------------------
(* The list, and what handling a packet does to it.                         *)
Nodes(s) == [k \in 1 .. Len(s.order) |-> s.node[s.order[k]]]

Shown(s) ==
    /\ hci_connections = Nodes(s)
    /\ delivered = s.got /\ leaked = s.leaked

LEMMA Listed ==
    ASSUME NEW s \in HostState, Shown(s)
    PROVE  /\ hci_connections \in Seq(Connection)
           /\ Len(hci_connections) = Len(s.order) /\ Len(s.order) \in Nat
           /\ DOMAIN hci_connections = 1 .. Len(s.order)
           /\ \A k \in 1 .. Len(s.order) : /\ s.order[k] \in Handle
                                           /\ hci_connections[k] = s.node[s.order[k]]
                                           /\ hci_connections[k] \in Connection
                                           /\ hci_connections[k].connect_handle = s.order[k]
<1>1. /\ s.order \in Seq(Handle) /\ s.node \in [Handle -> Connection]
      /\ \A h \in Handle : s.node[h].connect_handle = h
  BY DEF HostState
<1>2. Len(s.order) \in Nat /\ \A k \in 1 .. Len(s.order) : s.order[k] \in Handle
  BY <1>1, LenProperties, ElementOfSeq
<1>3. \A k \in 1 .. Len(s.order) : /\ hci_connections[k] = s.node[s.order[k]]
                                   /\ hci_connections[k] \in Connection
                                   /\ hci_connections[k].connect_handle = s.order[k]
  BY <1>1, <1>2 DEF Shown, Nodes
<1>4. hci_connections \in [1 .. Len(s.order) -> Connection]
  BY <1>1, <1>2 DEF Shown, Nodes
<1>5. hci_connections \in Seq(Connection) /\ Len(hci_connections) = Len(s.order)
  BY <1>2, <1>4
<1> QED
  BY <1>2, <1>3, <1>4, <1>5

\* A handle in the list is found at its one position.
LEMMA Found ==
    ASSUME NEW s \in HostState, Shown(s), NEW k \in 1 .. Len(s.order)
    PROVE  Positions(s.order[k]) = {k} /\ FirstPosition(s.order[k]) = k
<1>1. Distinct(s.order) /\ s.order \in Seq(Handle)
  BY DEF HostState
<1>2. \A j \in 1 .. Len(s.order) : s.order[j] = s.order[k] => j = k
  BY <1>1 DEF Distinct
<1>3. Positions(s.order[k]) = {k}
  BY <1>2, Listed DEF Positions
<1>4. k \in Int
  OBVIOUS
<1>5. FirstPosition(s.order[k]) = k
  BY <1>3, <1>4 DEF FirstPosition
<1> QED
  BY <1>3, <1>5

LEMMA Prepended ==
    ASSUME NEW S, NEW s \in Seq(S), NEW e \in S
    PROVE  /\ <<e>> \o s \in Seq(S) /\ Len(<<e>> \o s) = Len(s) + 1
           /\ (<<e>> \o s)[1] = e
           /\ \A i \in 1 .. Len(s) : (<<e>> \o s)[i + 1] = s[i]
           /\ \A i \in 2 .. Len(s) + 1 : (<<e>> \o s)[i] = s[i - 1]
<1>1. <<e>> \in Seq(S) /\ Len(<<e>>) = 1 /\ <<e>>[1] = e
  OBVIOUS
<1>2. Len(s) \in Nat
  BY LenProperties
<1>3. /\ <<e>> \o s \in Seq(S)
      /\ Len(<<e>> \o s) = Len(<<e>>) + Len(s)
      /\ \A i \in 1 .. Len(<<e>>) + Len(s) :
           (<<e>> \o s)[i] = IF i <= Len(<<e>>) THEN <<e>>[i] ELSE s[i - Len(<<e>>)]
  BY <1>1, ConcatProperties
<1> DEFINE r == <<e>> \o s
<1>4. /\ r \in Seq(S) /\ Len(r) = 1 + Len(s)
      /\ \A i \in 1 .. 1 + Len(s) : r[i] = IF i <= 1 THEN e ELSE s[i - 1]
  BY <1>1, <1>3
<1> HIDE DEF r
<1>5. r[1] = e /\ \A i \in 2 .. Len(s) + 1 : r[i] = s[i - 1]
  BY <1>2, <1>4
<1>6. \A i \in 1 .. Len(s) : r[i + 1] = s[i]
  <2> TAKE i \in 1 .. Len(s)
  <2>1. i + 1 \in 2 .. Len(s) + 1 /\ (i + 1) - 1 = i
    BY <1>2
  <2> QED
    BY <1>5, <2>1
<1>7. Len(r) = Len(s) + 1
  BY <1>2, <1>4
<1> QED
  BY <1>4, <1>5, <1>6, <1>7 DEF r

\* What the receiving handlers do is what Handles says, or the program ends.
LEMMA FollowsConnComplete ==
    ASSUME NEW s \in HostState, Shown(s), NEW t \in HostState,
           Head(toHost) \in Packet, Handles(s, Head(toHost), t), RecvConnComplete
    PROVE  crash' = crash /\ Shown(t)'
<1> DEFINE h == Head(toHost).handle
<1>1. /\ t.order = <<h>> \o s.order
      /\ t.node = [s.node EXCEPT ![h] = NewConnection(h)]
      /\ t.got = s.got /\ t.leaked = s.leaked
      /\ \A k \in DOMAIN s.order : s.order[k] # h
  BY DEF Handles, RecvConnComplete, Receive
<1>2. /\ hci_connections' = <<NewConnection(h)>> \o hci_connections
      /\ UNCHANGED <<crash, delivered, leaked>>
  BY DEF RecvConnComplete
<1>3. h \in Handle /\ s.order \in Seq(Handle) /\ s.node \in [Handle -> Connection]
  BY DEF Packet, HostState
<1>4. NewConnection(h) \in Connection /\ t.node[h] = NewConnection(h)
  BY <1>1, <1>3 DEF HostState
<1> HIDE DEF h
<1> DEFINE n == Len(s.order)
<1>5. /\ t.order \in Seq(Handle) /\ Len(t.order) = n + 1 /\ t.order[1] = h
      /\ \A i \in 2 .. n + 1 : t.order[i] = s.order[i - 1]
  BY <1>1, <1>3, Prepended
<1>6. /\ hci_connections' \in Seq(Connection) /\ Len(hci_connections') = n + 1
      /\ hci_connections'[1] = NewConnection(h)
      /\ \A i \in 2 .. n + 1 : hci_connections'[i] = hci_connections[i - 1]
  BY <1>2, <1>4, Listed, Prepended
<1>7. n \in Nat
  BY Listed
<1>8. ASSUME NEW i \in 1 .. n + 1
      PROVE  hci_connections'[i] = t.node[t.order[i]]
  <2>1. CASE i = 1
    BY <1>4, <1>5, <1>6, <2>1
  <2>2. CASE i # 1
    <3>1. i \in 2 .. n + 1 /\ i - 1 \in 1 .. n
      BY <1>7, <2>2
    <3>2. hci_connections'[i] = s.node[s.order[i - 1]] /\ t.order[i] = s.order[i - 1]
          /\ s.order[i - 1] \in Handle
      BY <1>5, <1>6, <3>1, Listed
    <3>3. s.order[i - 1] # h
      BY <1>1, <1>3, <3>1
    <3> QED
      BY <1>1, <1>3, <3>2, <3>3
  <2> QED
    BY <2>1, <2>2
<1>9. hci_connections' = [i \in 1 .. Len(t.order) |-> t.node[t.order[i]]]
  BY <1>5, <1>6, <1>8
<1> QED
  BY <1>1, <1>2, <1>9 DEF Shown, Nodes

LEMMA FollowsDisconnComplete ==
    ASSUME NEW s \in HostState, Shown(s), NEW t \in HostState,
           Head(toHost) \in Packet, Handles(s, Head(toHost), t),
           __hci_recv_evt_disconn_complete
    PROVE  \/ crash' = "oldest of several" /\ UNCHANGED <<hci_connections, delivered, leaked>>
           \/ crash' = crash /\ Shown(t)'
<1> DEFINE h == Head(toHost).handle
           n == Len(s.order)
<1>1. /\ t.node = s.node /\ t.got = s.got /\ t.leaked = s.leaked
      /\ \E k \in DOMAIN s.order : s.order[k] = h /\ t.order = RemoveAt(s.order, k)
  BY DEF Handles, __hci_recv_evt_disconn_complete, Receive
<1>2. s.order \in Seq(Handle) /\ n \in Nat
  BY Listed DEF HostState
<1>3. PICK k \in 1 .. n : s.order[k] = h /\ t.order = RemoveAt(s.order, k)
  BY <1>1, <1>2
<1>4. Positions(h) = {k} /\ FirstPosition(h) = k
  BY <1>3, Found
<1>5. Len(hci_connections) = n /\ hci_connections \in Seq(Connection)
  BY Listed
<1>6. CASE Crashes("oldest of several")
  BY <1>6 DEF Crashes
<1>7. CASE /\ hci_connections' = RemoveAt(hci_connections, FirstPosition(h))
           /\ UNCHANGED <<crash, delivered, leaked>>
  <2>1. /\ Len(hci_connections') = n - 1 /\ hci_connections' \in Seq(Connection)
        /\ \A i \in 1 .. n - 1 :
             hci_connections'[i] = IF i < k THEN hci_connections[i] ELSE hci_connections[i + 1]
    <3>1. k \in 1 .. Len(hci_connections)
      BY <1>5
    <3>2. /\ RemoveAt(hci_connections, k) \in Seq(Connection)
          /\ Len(RemoveAt(hci_connections, k)) = Len(hci_connections) - 1
          /\ \A i \in 1 .. Len(hci_connections) - 1 :
               RemoveAt(hci_connections, k)[i]
                  = IF i < k THEN hci_connections[i] ELSE hci_connections[i + 1]
      BY <1>5, <3>1, Removed
    <3>3. hci_connections' = RemoveAt(hci_connections, k)
      BY <1>4, <1>7
    <3> QED
      BY <1>5, <3>2, <3>3
  <2>2. /\ Len(t.order) = n - 1 /\ t.order \in Seq(Handle)
        /\ \A i \in 1 .. n - 1 : t.order[i] = IF i < k THEN s.order[i] ELSE s.order[i + 1]
    BY <1>2, <1>3, Removed
  <2>3. ASSUME NEW i \in 1 .. n - 1
        PROVE  hci_connections'[i] = t.node[t.order[i]]
    <3>1. i \in 1 .. n /\ i + 1 \in 1 .. n
      BY <1>2
    <3>2. /\ hci_connections[i] = s.node[s.order[i]]
          /\ hci_connections[i + 1] = s.node[s.order[i + 1]]
      BY <3>1, Listed
    <3> QED
      BY <1>1, <2>1, <2>2, <3>2
  <2>4. hci_connections' = [i \in 1 .. Len(t.order) |-> t.node[t.order[i]]]
    BY <1>2, <2>1, <2>2, <2>3
  <2> QED
    BY <1>1, <1>7, <2>4 DEF Shown, Nodes
<1>8. hci_connections # <<>> /\ Positions(h) # {}
  <2>1. Len(hci_connections) # 0
    BY <1>2, <1>5
  <2>2. hci_connections # <<>>
    BY <2>1, EmptySeq
  <2>3. Positions(h) # {}
    BY <1>4
  <2> QED
    BY <2>2, <2>3
<1>9. hci_delete_connection_by_handle(h)
  BY DEF __hci_recv_evt_disconn_complete
<1> HIDE DEF h
<1>10. \/ Crashes("oldest of several")
       \/ /\ hci_connections' = RemoveAt(hci_connections, FirstPosition(h))
          /\ UNCHANGED <<crash, delivered, leaked>>
  BY <1>8, <1>9, Zenon DEF hci_delete_connection_by_handle
<1> QED
  BY <1>6, <1>7, <1>10

\* Fields of one node are updated together.
LEMMA FieldsUpdated ==
    ASSUME NEW i \in DOMAIN hci_connections, hci_connections \in Seq(Connection),
           NEW total, NEW received, NEW buffer
    PROVE  /\ [hci_connections EXCEPT ![i].segment_length_total = total,
                                      ![i].segment_length_received = received]
                 = [hci_connections EXCEPT ![i] =
                       [@ EXCEPT !.segment_length_total = total,
                                 !.segment_length_received = received]]
           /\ [hci_connections EXCEPT ![i].segment_length_total = total,
                                      ![i].segment_length_received = received,
                                      ![i].segment_buffer_recv = buffer]
                 = [hci_connections EXCEPT ![i] =
                       [@ EXCEPT !.segment_length_total = total,
                                 !.segment_length_received = received,
                                 !.segment_buffer_recv = buffer]]
           /\ [hci_connections EXCEPT ![i].segment_length_received = received,
                                      ![i].segment_buffer_recv = buffer]
                 = [hci_connections EXCEPT ![i] =
                       [@ EXCEPT !.segment_length_received = received,
                                 !.segment_buffer_recv = buffer]]
  OBVIOUS

\* Updating the node at a handle's position updates the handle's node.
LEMMA ShownUpdated ==
    ASSUME NEW s \in HostState, Shown(s), NEW t \in HostState,
           NEW k \in 1 .. Len(s.order), NEW node,
           t.order = s.order, t.node = [s.node EXCEPT ![s.order[k]] = node],
           hci_connections' = [hci_connections EXCEPT ![k] = node],
           delivered' = t.got, leaked' = t.leaked
    PROVE  Shown(t)'
<1>1. Distinct(s.order) /\ s.order \in Seq(Handle) /\ s.node \in [Handle -> Connection]
  BY DEF HostState
<1>2. \A j \in 1 .. Len(s.order) : s.order[j] \in Handle /\ (s.order[j] = s.order[k] <=> j = k)
  BY <1>1, Listed DEF Distinct
<1>3. ASSUME NEW j \in 1 .. Len(s.order)
      PROVE  hci_connections'[j] = t.node[t.order[j]]
  <2>1. CASE j = k
    BY <1>1, <1>2, <2>1, Listed
  <2>2. CASE j # k
    BY <1>1, <1>2, <2>2, Listed
  <2> QED
    BY <2>1, <2>2
<1>4. DOMAIN hci_connections' = 1 .. Len(t.order)
  BY Listed
<1>5. hci_connections' = [j \in 1 .. Len(t.order) |-> t.node[t.order[j]]]
  <2>1. hci_connections' = [j \in DOMAIN hci_connections' |-> hci_connections'[j]]
    OBVIOUS
  <2> QED
    BY <1>3, <1>4, <2>1
<1> QED
  BY <1>5 DEF Shown, Nodes

LEMMA FollowsFirst ==
    ASSUME NEW s \in HostState, Shown(s), NEW t \in HostState,
           Head(toHost) \in Packet, Handles(s, Head(toHost), t), RecvFirst
    PROVE  crash' = crash /\ Shown(t)'
<1> DEFINE p == Head(toHost)
           h == p.handle
           i == FirstPosition(h)
<1>1. p.type = "first" /\ h \in Handle
  BY DEF RecvFirst, Receive, Packet
<1>2. PICK k \in DOMAIN s.order : s.order[k] = h
  BY <1>1 DEF Handles
<1>3. /\ k \in 1 .. Len(s.order) /\ Positions(h) = {k} /\ i = k
      /\ hci_connections[k] = s.node[h] /\ k \in DOMAIN hci_connections
      /\ hci_connections \in Seq(Connection)
  <2>1. k \in 1 .. Len(s.order)
    BY <1>2 DEF HostState
  <2>2. Positions(s.order[k]) = {k} /\ FirstPosition(s.order[k]) = k
    BY <2>1, Found
  <2>3. hci_connections[k] = s.node[s.order[k]] /\ k \in DOMAIN hci_connections
        /\ hci_connections \in Seq(Connection)
    BY <2>1, Listed
  <2> QED
    BY <1>2, <2>1, <2>2, <2>3
<1>4. t.order = s.order
  BY <1>1 DEF Handles
<1> DEFINE single == [s.node[h] EXCEPT !.segment_length_total = p.total,
                                       !.segment_length_received = 1]
           several == [s.node[h] EXCEPT !.segment_length_total = p.total,
                                        !.segment_length_received = 1,
                                        !.segment_buffer_recv = <<p.piece>>]
<1>5. \/ /\ p.total = 1
         /\ t.node = [s.node EXCEPT ![h] = single]
         /\ t.got = [s.got EXCEPT ![h] = Append(@, <<p.piece>>)] /\ t.leaked = s.leaked
      \/ /\ p.total > 1
         /\ t.node = [s.node EXCEPT ![h] = several]
         /\ t.got = s.got /\ t.leaked = s.leaked + Owned(s.node[h].segment_buffer_recv)
  <2>1. s.node \in [Handle -> Connection]
    BY DEF HostState
  <2> QED
    BY <1>1, <2>1 DEF Handles
<1>6. \/ /\ p.total = 1
         /\ hci_connections' = [hci_connections EXCEPT ![k].segment_length_total = p.total,
                                                       ![k].segment_length_received = 1]
         /\ delivered' = [delivered EXCEPT ![h] = Append(@, <<p.piece>>)]
         /\ UNCHANGED <<crash, leaked>>
      \/ /\ p.total > 1
         /\ hci_connections' = [hci_connections EXCEPT ![k].segment_length_total = p.total,
                                                       ![k].segment_length_received = 1,
                                                       ![k].segment_buffer_recv = <<p.piece>>]
         /\ leaked' = leaked + Owned(hci_connections[k].segment_buffer_recv)
         /\ UNCHANGED <<crash, delivered>>
  <2>1. Positions(h) # {} /\ i = k
    BY <1>3
  <2> QED
    BY <2>1, Zenon DEF RecvFirst
<1>7. [hci_connections EXCEPT ![k].segment_length_total = p.total,
                              ![k].segment_length_received = 1]
         = [hci_connections EXCEPT ![k] = single]
  BY <1>3, FieldsUpdated
<1>8. [hci_connections EXCEPT ![k].segment_length_total = p.total,
                              ![k].segment_length_received = 1,
                              ![k].segment_buffer_recv = <<p.piece>>]
         = [hci_connections EXCEPT ![k] = several]
  BY <1>3, FieldsUpdated
<1>9. delivered = s.got /\ leaked = s.leaked
  BY DEF Shown
<1> HIDE DEF p, h, i, single, several
<1>10. CASE p.total = 1
  <2>1. /\ t.node = [s.node EXCEPT ![s.order[k]] = single]
        /\ hci_connections' = [hci_connections EXCEPT ![k] = single]
        /\ leaked' = t.leaked /\ crash' = crash
    BY <1>2, <1>5, <1>6, <1>7, <1>9, <1>10
  <2>2. ~(p.total > 1)
    BY <1>10
  <2>3. delivered' = t.got
    BY <1>5, <1>6, <1>9, <2>2, Zenon
  <2> QED
    BY <1>3, <1>4, <2>1, <2>3, ShownUpdated
<1>11. CASE p.total > 1
  <2>1. /\ t.node = [s.node EXCEPT ![s.order[k]] = several]
        /\ hci_connections' = [hci_connections EXCEPT ![k] = several]
        /\ delivered' = t.got /\ leaked' = t.leaked /\ crash' = crash
    BY <1>2, <1>3, <1>5, <1>6, <1>8, <1>9, <1>11
  <2> QED
    BY <1>3, <1>4, <2>1, ShownUpdated
<1> QED
  BY <1>5, <1>10, <1>11

LEMMA FollowsContinue ==
    ASSUME NEW s \in HostState, Shown(s), NEW t \in HostState,
           Head(toHost) \in Packet, Handles(s, Head(toHost), t), RecvContinue
    PROVE  crash' = crash /\ Shown(t)'
<1> DEFINE p == Head(toHost)
           h == p.handle
           i == FirstPosition(h)
           node == s.node[h]
           buffer == Append(node.segment_buffer_recv, p.piece)
           received == node.segment_length_received + 1
<1>1. p.type = "continue" /\ h \in Handle
  BY DEF RecvContinue, Receive, Packet
<1>2. PICK k \in DOMAIN s.order : s.order[k] = h
  BY <1>1 DEF Handles
<1>3. /\ k \in 1 .. Len(s.order) /\ Positions(h) = {k} /\ i = k
      /\ hci_connections[k] = node /\ k \in DOMAIN hci_connections
      /\ hci_connections \in Seq(Connection)
  <2>1. k \in 1 .. Len(s.order)
    BY <1>2 DEF HostState
  <2>2. Positions(s.order[k]) = {k} /\ FirstPosition(s.order[k]) = k
    BY <2>1, Found
  <2>3. hci_connections[k] = s.node[s.order[k]] /\ k \in DOMAIN hci_connections
        /\ hci_connections \in Seq(Connection)
    BY <2>1, Listed
  <2> QED
    BY <1>2, <2>1, <2>2, <2>3
<1>4. t.order = s.order
  BY <1>1 DEF Handles
<1> DEFINE After(rest) == [node EXCEPT !.segment_length_received = received,
                                       !.segment_buffer_recv = rest]
<1>5. /\ node.segment_buffer_recv # <<>> /\ t.leaked = s.leaked
      /\ \/ /\ received = node.segment_length_total
            /\ t.node = [s.node EXCEPT ![h] = After(<<>>)]
            /\ t.got = [s.got EXCEPT ![h] = Append(@, buffer)]
         \/ /\ received # node.segment_length_total
            /\ t.node = [s.node EXCEPT ![h] = After(buffer)]
            /\ t.got = s.got
  <2>1. s.node \in [Handle -> Connection] /\ node \in Connection
    BY <1>1 DEF HostState
  <2> QED
    BY <1>1, <2>1 DEF Handles, Connection
<1>6. /\ UNCHANGED <<crash, leaked>>
      /\ \/ /\ received = node.segment_length_total
            /\ delivered' = [delivered EXCEPT ![h] = Append(@, buffer)]
            /\ hci_connections' = [hci_connections EXCEPT ![k].segment_length_received = received,
                                                          ![k].segment_buffer_recv = <<>>]
         \/ /\ received # node.segment_length_total
            /\ hci_connections' = [hci_connections EXCEPT ![k].segment_length_received = received,
                                                          ![k].segment_buffer_recv = buffer]
            /\ UNCHANGED delivered
  <2>1. Positions(h) # {} /\ i = k /\ hci_connections[i] = node
        /\ node.segment_buffer_recv # <<>>
    BY <1>3, <1>5
  <2> QED
    BY <2>1, Zenon DEF RecvContinue
<1>7. \A rest : [hci_connections EXCEPT ![k].segment_length_received = received,
                                        ![k].segment_buffer_recv = rest]
                   = [hci_connections EXCEPT ![k] = After(rest)]
  BY <1>3, FieldsUpdated
<1>8. delivered = s.got /\ leaked = s.leaked
  BY DEF Shown
<1> HIDE DEF p, h, i, node, buffer, received, After
<1>9. CASE received = node.segment_length_total
  <2>1. /\ t.node = [s.node EXCEPT ![s.order[k]] = After(<<>>)]
        /\ hci_connections' = [hci_connections EXCEPT ![k] = After(<<>>)]
        /\ delivered' = t.got /\ leaked' = t.leaked /\ crash' = crash
    BY <1>2, <1>5, <1>6, <1>7, <1>8, <1>9
  <2> QED
    BY <1>3, <1>4, <2>1, ShownUpdated
<1>10. CASE received # node.segment_length_total
  <2>1. /\ t.node = [s.node EXCEPT ![s.order[k]] = After(buffer)]
        /\ hci_connections' = [hci_connections EXCEPT ![k] = After(buffer)]
        /\ delivered' = t.got /\ leaked' = t.leaked /\ crash' = crash
    BY <1>2, <1>5, <1>6, <1>7, <1>8, <1>10
  <2> QED
    BY <1>3, <1>4, <2>1, ShownUpdated
<1> QED
  BY <1>9, <1>10

-----------------------------------------------------------------------------
(* The inductive invariant.                                                 *)

\* What a peer has sent of its PDU: a piece at least, once it has started one.
Sending == {NoPdu} \cup {now \in [pdu : 1 .. MaxPdus, sent : 1 .. MaxPieces, total : 1 .. MaxPieces] :
                           now.sent <= now.total}

Types ==
    /\ TypeOK
    /\ toHost \in Seq(Packet)
    /\ sending \in [Handle -> Sending] /\ pdus \in 0 .. MaxPdus
    /\ finished \in [Handle -> Seq(Seq(Piece))]
    /\ delivered \in [Handle -> Seq(Seq(Piece))]
    /\ brokenOff \in BOOLEAN /\ orphaned \in BOOLEAN

Bookkeeping ==
    /\ Distinct(links)
    /\ ~opened => toHost = <<>>
    /\ opens = 0 => ~opened /\ hci_connections = <<>> /\ leaked = 0

\* A node that has received what the peer sent; a buffer left over tells of a PDU broken off.
Following(node, now, broken) ==
    /\ now.sent < now.total => /\ node.segment_length_total = now.total
                               /\ node.segment_length_received = now.sent
                               /\ node.segment_buffer_recv = Pdu(now.pdu, now.sent)
    /\ ~(now.sent < now.total) => node.segment_buffer_recv = <<>> \/ broken

Agreed(t) ==
    /\ t.order = links /\ t.got = finished
    /\ t.leaked > 0 => brokenOff \/ opens > 1
    /\ \A h \in Range(links) : Following(t.node[h], sending[h], brokenOff)

\* When it has handled what is under way, the host agrees with the controller and the peers.
Mirrored == \E s, t \in HostState : Shown(s) /\ Reaches(s, toHost, t) /\ Agreed(t)

\* The links outlived the opening of the port, and none sent anything yet ...
Orphans ==
    /\ orphaned /\ resetting
    /\ hci_connections = <<>> /\ toHost = <<>> /\ delivered = finished

\* ... or what they sent is what the host, who forgot them, handles next.
Doomed ==
    /\ orphaned
    /\ hci_connections = <<>>
    /\ toHost # <<>> /\ Head(toHost).type # "connComplete"

Tracked == crash = "none" /\ opened =>
              Doomed \/ Orphans \/ ((resetting => links = <<>>) /\ Mirrored)

IInv == /\ Types /\ Bookkeeping /\ Tracked
        /\ PdusWholeAndInOrder /\ BuffersFreed /\ CrashesExplained

-----------------------------------------------------------------------------
(* Steps of the host.                                                       *)
LEMMA ShownTypes ==
    ASSUME NEW s \in HostState, NEW list,
           list = Nodes(s)
    PROVE  list \in Seq(Connection)
<1>1. s.order \in Seq(Handle) /\ s.node \in [Handle -> Connection]
  BY DEF HostState
<1>2. Len(s.order) \in Nat /\ \A k \in 1 .. Len(s.order) : s.order[k] \in Handle
  BY <1>1, LenProperties, ElementOfSeq
<1>3. list \in [1 .. Len(s.order) -> Connection]
  BY <1>1, <1>2 DEF Nodes
<1> QED
  BY <1>2, <1>3

LEMMA ReceiveTracked ==
    ASSUME Types, Mirrored, resetting => links = <<>>, opened, HostReceives
    PROVE  /\ hci_connections' \in Seq(Connection) /\ leaked' \in Nat
           /\ delivered' \in [Handle -> Seq(Seq(Piece))]
           /\ toHost' \in Seq(Packet) /\ Len(toHost') <= MaxQueue
           /\ PdusWholeAndInOrder' /\ BuffersFreed'
           /\ \/ crash' = "oldest of several"
              \/ crash' = "none" /\ (resetting => links = <<>>)' /\ Mirrored'
<1>1. PICK s \in HostState, t \in HostState :
        Shown(s) /\ Reaches(s, toHost, t) /\ Agreed(t)
  BY DEF Mirrored
<1> DEFINE p == Head(toHost)
<1>2. /\ crash = "none" /\ toHost # <<>> /\ toHost' = Tail(toHost)
      /\ UNCHANGED <<peerVars, portVars, links, resetting, linkups>>
  BY DEF HostReceives, RecvConnComplete, __hci_recv_evt_disconn_complete, RecvFirst,
         RecvContinue, Receive
<1>3. toHost \in Seq(Packet) /\ p \in Packet /\ Tail(toHost) \in Seq(Packet)
      /\ Len(Tail(toHost)) = Len(toHost) - 1 /\ Len(toHost) \in Nat
  BY <1>2, HeadTailProperties, LenProperties DEF Types
<1>4. PICK s1 \in HostState : Handles(s, p, s1) /\ Reaches(s1, Tail(toHost), t)
  BY <1>1, <1>2, <1>3, ReachesTail
<1>5. \/ crash' = "oldest of several" /\ UNCHANGED <<hci_connections, delivered, leaked>>
      \/ crash' = crash /\ Shown(s1)'
  <2>1. CASE RecvConnComplete
    BY <1>1, <1>3, <1>4, <2>1, FollowsConnComplete
  <2>2. CASE __hci_recv_evt_disconn_complete
    BY <1>1, <1>3, <1>4, <2>2, FollowsDisconnComplete
  <2>3. CASE RecvFirst
    BY <1>1, <1>3, <1>4, <2>3, FollowsFirst
  <2>4. CASE RecvContinue
    BY <1>1, <1>3, <1>4, <2>4, FollowsContinue
  <2> QED
    BY <2>1, <2>2, <2>3, <2>4 DEF HostReceives
<1>6. Agreed(t)'
  BY <1>1, <1>2 DEF Agreed, peerVars, portVars
<1>7. PICK s2 \in HostState : /\ Before(s2, t) /\ delivered' = s2.got /\ leaked' = s2.leaked
                              /\ hci_connections' \in Seq(Connection)
  <2>1. Before(s, t) /\ Before(s1, t)
    BY <1>1, <1>3, <1>4, ReachesBefore
  <2>2. CASE UNCHANGED <<hci_connections, delivered, leaked>>
    <3>1. delivered' = s.got /\ leaked' = s.leaked
      BY <1>1, <2>2 DEF Shown
    <3>2. hci_connections' \in Seq(Connection)
      BY <2>2 DEF Types, TypeOK
    <3> QED
      BY <2>1, <3>1, <3>2
  <2>3. CASE Shown(s1)'
    <3>1. delivered' = s1.got /\ leaked' = s1.leaked
          /\ hci_connections' = Nodes(s1)
      BY <2>3 DEF Shown
    <3>2. hci_connections' \in Seq(Connection)
      BY <3>1, ShownTypes, Zenon
    <3> QED
      BY <2>1, <3>1, <3>2
  <2> QED
    BY <1>5, <2>2, <2>3
<1>8. leaked' \in Nat /\ delivered' \in [Handle -> Seq(Seq(Piece))]
  BY <1>7 DEF HostState
<1>9. PdusWholeAndInOrder'
  <2>1. finished' = t.got
    BY <1>6 DEF Agreed
  <2> QED
    BY <1>7, <2>1 DEF PdusWholeAndInOrder, Before
<1>10. BuffersFreed'
  <2>1. s2.leaked \in Nat /\ t.leaked \in Nat /\ s2.leaked <= t.leaked
    BY <1>7 DEF HostState, Before
  <2>2. (t.leaked > 0 => brokenOff \/ opens > 1)'
    BY <1>6 DEF Agreed
  <2> QED
    BY <1>7, <2>1, <2>2 DEF BuffersFreed
<1>11. toHost' \in Seq(Packet) /\ Len(toHost') <= MaxQueue
  <2>1. MaxQueue \in Nat /\ Len(toHost) <= MaxQueue
    BY BoundsAssumption DEF Types, TypeOK
  <2> QED
    BY <1>2, <1>3, <2>1
<1>12. (resetting => links = <<>>)'
  BY <1>2
<1>13. ASSUME Shown(s1)' PROVE Mirrored'
  <2>1. Reaches(s1, toHost', t)
    BY <1>2, <1>4
  <2> QED
    BY <1>6, <1>13, <2>1 DEF Mirrored
<1> QED
  BY <1>2, <1>5, <1>7, <1>8, <1>9, <1>10, <1>11, <1>12, <1>13

-----------------------------------------------------------------------------
(* Steps of the controller and the peers.                                   *)

\* The packet sent is handled last.
LEMMA EmittedTracked ==
    ASSUME Types, opened, NEW s \in HostState, NEW t \in HostState, Shown(s),
           Reaches(s, toHost, t), NEW p \in Packet, Emit(p), UNCHANGED hostVars,
           NEW t1 \in HostState, Handles(t, p, t1), Before(t, t1), Agreed(t1)'
    PROVE  Mirrored'
<1>1. toHost' = Append(toHost, p) /\ toHost \in Seq(Packet)
  BY DEF Emit, Types
<1>2. Reaches(s, toHost', t1)
  BY <1>1, ReachesAppend
<1>3. Shown(s)'
  BY DEF Shown, hostVars
<1> QED
  BY <1>2, <1>3 DEF Mirrored

\* Handing up one more PDU.
LEMMA MoreGot ==
    ASSUME NEW s \in HostState, NEW t \in HostState, NEW h \in Handle, NEW data \in Seq(Piece),
           s.leaked <= t.leaked, t.got = [s.got EXCEPT ![h] = Append(@, data)]
    PROVE  Before(s, t)
<1> DEFINE S == Seq(Piece)
<1>1. s.got \in [Handle -> Seq(S)] /\ data \in S
  BY DEF HostState
<1> HIDE DEF S
<1>2. ASSUME NEW g \in Handle PROVE IsPrefix(s.got[g], t.got[g])
  <2>1. s.got[g] \in Seq(S)
    BY <1>1
  <2>2. CASE g = h
    <3>1. t.got[g] = Append(s.got[g], data)
      BY <1>1, <2>2
    <3> QED
      BY <1>1, <2>1, <3>1, PrefixAppend
  <2>3. CASE g # h
    <3>1. t.got[g] = s.got[g]
      BY <1>1, <2>3
    <3> QED
      BY <2>1, <3>1, PrefixRefl
  <2> QED
    BY <2>2, <2>3
<1> QED
  BY <1>2 DEF Before

LEMMA SameGot ==
    ASSUME NEW s \in HostState, NEW t \in HostState, s.leaked <= t.leaked, t.got = s.got
    PROVE  Before(s, t)
<1>1. \A h \in Handle : s.got[h] \in Seq(Seq(Piece))
  BY DEF HostState
<1> QED
  BY <1>1, PrefixRefl DEF Before

LEMMA PduGrows ==
    ASSUME NEW id, NEW k \in Nat
    PROVE  /\ Append(Pdu(id, k), <<id, k + 1>>) = Pdu(id, k + 1)
           /\ <<<<id, 1>>>> = Pdu(id, 1)
<1> DEFINE S == {id} \X Nat
<1>1. \A j \in Nat : <<id, j>> \in S
  OBVIOUS
<1>2. Pdu(id, k) \in [1 .. k -> S]
  BY <1>1 DEF Pdu
<1>3. Pdu(id, k) \in Seq(S) /\ Len(Pdu(id, k)) = k /\ <<id, k + 1>> \in S
  BY <1>1, <1>2
<1> HIDE DEF S
<1> DEFINE longer == Append(Pdu(id, k), <<id, k + 1>>)
<1>4. /\ longer \in Seq(S) /\ Len(longer) = k + 1
      /\ \A j \in 1 .. k : longer[j] = Pdu(id, k)[j]
      /\ longer[k + 1] = <<id, k + 1>>
  BY <1>3, AppendProperties
<1>5. \A j \in 1 .. k + 1 : longer[j] = <<id, j>>
  <2> HIDE DEF longer
  <2> TAKE j \in 1 .. k + 1
  <2>1. CASE j \in 1 .. k
    BY <1>4, <2>1 DEF Pdu
  <2>2. CASE j = k + 1
    BY <1>4, <2>2
  <2> QED
    BY <2>1, <2>2
<1>6. DOMAIN longer = 1 .. k + 1 /\ longer = [j \in DOMAIN longer |-> longer[j]]
  BY <1>4
<1>7. longer = Pdu(id, k + 1)
  <2> HIDE DEF longer
  <2> QED
    BY <1>5, <1>6 DEF Pdu
<1>8. <<<<id, 1>>>> = Pdu(id, 1)
  BY DEF Pdu
<1> QED
  BY <1>7, <1>8

LEMMA PduTyped ==
    ASSUME NEW id \in 1 .. MaxPdus, NEW k \in 0 .. MaxPieces
    PROVE  Pdu(id, k) \in Seq(Piece) /\ Len(Pdu(id, k)) = k
<1>1. Pdu(id, k) \in [1 .. k -> Piece] /\ k \in Nat
  BY BoundsAssumption DEF Pdu, Piece
<1> QED
  BY <1>1

LEMMA OneMore ==
    ASSUME NEW S, NEW seq \in Seq(S), NEW e \in S, Distinct(seq), e \notin Range(seq)
    PROVE  /\ Distinct(<<e>> \o seq)
           /\ \A x \in Range(<<e>> \o seq) : x = e \/ x \in Range(seq)
<1> DEFINE n == Len(seq)
           more == <<e>> \o seq
<1>1. n \in Nat /\ DOMAIN seq = 1 .. n
  BY LenProperties
<1>2. /\ more \in Seq(S) /\ Len(more) = n + 1 /\ more[1] = e
      /\ \A i \in 2 .. n + 1 : more[i] = seq[i - 1]
  BY Prepended
<1> HIDE DEF more, n
<1>3. DOMAIN more = 1 .. n + 1
  BY <1>2, LenProperties
<1>4. \A i \in 2 .. n + 1 : i - 1 \in DOMAIN seq /\ more[i] \in Range(seq)
  BY <1>1, <1>2 DEF Range
<1>5. ASSUME NEW i \in DOMAIN more, NEW j \in DOMAIN more, more[i] = more[j]
      PROVE  i = j
  <2>1. CASE i = 1 /\ j = 1
    BY <2>1
  <2>2. CASE i # 1 /\ j = 1
    <3>1. i \in 2 .. n + 1
      BY <1>1, <1>3, <2>2
    <3> QED
      BY <1>2, <1>4, <1>5, <2>2, <3>1
  <2>3. CASE i = 1 /\ j # 1
    <3>1. j \in 2 .. n + 1
      BY <1>1, <1>3, <2>3
    <3> QED
      BY <1>2, <1>4, <1>5, <2>3, <3>1
  <2>4. CASE i # 1 /\ j # 1
    <3>1. i \in 2 .. n + 1 /\ j \in 2 .. n + 1
      BY <1>1, <1>3, <2>4
    <3>2. i - 1 = j - 1
      BY <1>2, <1>4, <1>5, <3>1 DEF Distinct
    <3> QED
      BY <3>1, <3>2
  <2> QED
    BY <2>1, <2>2, <2>3, <2>4
<1>6. ASSUME NEW i \in DOMAIN more
      PROVE  more[i] = e \/ more[i] \in Range(seq)
  <2>1. i = 1 \/ i \in 2 .. n + 1
    BY <1>1, <1>3
  <2> QED
    BY <1>2, <1>4, <2>1
<1>7. Distinct(more)
  BY <1>5 DEF Distinct
<1>8. \A x \in Range(more) : x = e \/ x \in Range(seq)
  BY <1>6 DEF Range
<1> QED
  BY <1>7, <1>8 DEF more

LEMMA OneLess ==
    ASSUME NEW S, NEW seq \in Seq(S), NEW i \in DOMAIN seq, Distinct(seq)
    PROVE  /\ RemoveAt(seq, i) \in Seq(S)
           /\ Distinct(RemoveAt(seq, i))
           /\ \A x \in Range(RemoveAt(seq, i)) : x \in Range(seq)
<1> DEFINE n == Len(seq)
           less == RemoveAt(seq, i)
<1>1. n \in Nat /\ DOMAIN seq = 1 .. n /\ i \in 1 .. n
  BY LenProperties
<1>2. /\ less \in Seq(S) /\ Len(less) = n - 1
      /\ \A k \in 1 .. n - 1 : less[k] = IF k < i THEN seq[k] ELSE seq[k + 1]
  BY <1>1, Removed
<1> HIDE DEF less, n
<1>3. DOMAIN less = 1 .. n - 1
  BY <1>1, <1>2, LenProperties
<1> DEFINE at(k) == IF k < i THEN k ELSE k + 1
<1>4. \A k \in DOMAIN less : at(k) \in DOMAIN seq /\ less[k] = seq[at(k)]
  BY <1>1, <1>2, <1>3
<1>5. \A k, m \in DOMAIN less : at(k) = at(m) => k = m
  BY <1>1, <1>3
<1> HIDE DEF at
<1>6. Distinct(less)
  BY <1>4, <1>5 DEF Distinct
<1>7. \A x \in Range(less) : x \in Range(seq)
  BY <1>4 DEF Range
<1> QED
  BY <1>2, <1>6, <1>7 DEF less

LEMMA LinkUpTracked ==
    ASSUME Types, Bookkeeping, Mirrored, opened, NEW h \in Handle, LinkUp(h)
    PROVE  Mirrored'
<1> DEFINE p == [type |-> "connComplete", handle |-> h]
<1>1. PICK s \in HostState, t \in HostState :
        Shown(s) /\ Reaches(s, toHost, t) /\ Agreed(t)
  BY DEF Mirrored
<1>2. /\ h \notin Range(links) /\ links' = <<h>> \o links
      /\ sending' = [sending EXCEPT ![h] = NoPdu] /\ Emit(p)
      /\ UNCHANGED <<hostVars, portVars, finished, pdus, brokenOff, resetting>>
  BY DEF LinkUp
<1> DEFINE t1 == [order |-> <<h>> \o t.order,
                  node |-> [t.node EXCEPT ![h] = NewConnection(h)],
                  got |-> t.got, leaked |-> t.leaked]
<1>3. /\ t.order = links /\ t.got = finished /\ links \in Seq(Handle) /\ Distinct(links)
      /\ t.node \in [Handle -> Connection]
      /\ \A g \in Handle : t.node[g].connect_handle = g
      /\ t.got \in [Handle -> Seq(Seq(Piece))] /\ t.leaked \in Nat
  BY <1>1 DEF Agreed, HostState, Types, TypeOK
<1>4. /\ <<h>> \o links \in Seq(Handle) /\ Distinct(<<h>> \o links)
      /\ \A x \in Range(<<h>> \o links) : x = h \/ x \in Range(links)
  BY <1>2, <1>3, OneMore, Prepended
<1>5. NewConnection(h) \in Connection /\ NewConnection(h).connect_handle = h
      /\ NewConnection(h).segment_buffer_recv = <<>>
  BY BoundsAssumption DEF NewConnection, Connection
<1>6. t1 \in HostState
  <2> DEFINE node1 == [t.node EXCEPT ![h] = NewConnection(h)]
  <2>1. node1 \in [Handle -> Connection]
    BY <1>3, <1>5
  <2>2. \A g \in Handle : node1[g].connect_handle = g
    BY <1>3, <1>5
  <2> HIDE DEF node1
  <2> DEFINE u == [order |-> <<h>> \o t.order, node |-> node1, got |-> t.got,
                   leaked |-> t.leaked]
  <2>3. u \in HostState
    BY <1>3, <1>4, <2>1, <2>2 DEF HostState
  <2> QED
    BY <2>3 DEF node1
<1>7. Handles(t, p, t1)
  <2>1. \A k \in DOMAIN t.order : t.order[k] # h
    BY <1>2, <1>3 DEF Range
  <2> QED
    BY <2>1 DEF Handles
<1>8. /\ t1.order = links' /\ t1.got = finished' /\ t1.leaked = t.leaked
      /\ t1.node[h] = NewConnection(h)
      /\ \A g \in Handle : g # h => t1.node[g] = t.node[g]
  BY <1>2, <1>3
<1> HIDE DEF t1
<1>9. Before(t, t1)
  <2>1. t.leaked <= t1.leaked /\ t1.got = t.got
    BY <1>2, <1>3, <1>8
  <2> QED
    BY <1>6, <2>1, SameGot
<1>10. ASSUME NEW g \in Range(links')
       PROVE  Following(t1.node[g], sending'[g], brokenOff')
  <2>0. sending \in [Handle -> Sending]
    BY DEF Types
  <2>1. CASE g = h
    <3>1. sending'[g] = NoPdu /\ t1.node[g].segment_buffer_recv = <<>>
      BY <1>2, <1>5, <1>8, <2>0, <2>1
    <3> QED
      BY <3>1 DEF Following, NoPdu
  <2>2. CASE g # h
    <3>1. g \in Range(links) /\ g \in Handle
      BY <1>2, <1>3, <1>4, <1>10, <2>2 DEF Range
    <3>2. sending'[g] = sending[g] /\ t1.node[g] = t.node[g] /\ brokenOff' = brokenOff
      BY <1>2, <1>8, <2>0, <2>2, <3>1
    <3>3. Following(t.node[g], sending[g], brokenOff)
      BY <1>1, <3>1 DEF Agreed
    <3> QED
      BY <3>2, <3>3
  <2> QED
    BY <2>1, <2>2
<1>11. Agreed(t1)'
  <2>1. (t1.leaked > 0 => brokenOff \/ opens > 1)'
    BY <1>1, <1>2, <1>8 DEF Agreed, portVars
  <2> QED
    BY <1>8, <1>10, <2>1 DEF Agreed
<1>12. p \in Packet
  BY DEF Packet
<1> QED
  BY <1>1, <1>2, <1>6, <1>7, <1>9, <1>11, <1>12, EmittedTracked

LEMMA LinkDownTracked ==
    ASSUME Types, Bookkeeping, Mirrored, opened, NEW h \in Handle, LinkDown(h)
    PROVE  Mirrored'
<1> DEFINE p == [type |-> "disconnComplete", handle |-> h]
<1>1. PICK s \in HostState, t \in HostState :
        Shown(s) /\ Reaches(s, toHost, t) /\ Agreed(t)
  BY DEF Mirrored
<1>2. PICK i \in DOMAIN links : links[i] = h /\ links' = RemoveAt(links, i)
  BY DEF LinkDown
<1>3. Emit(p) /\ UNCHANGED <<hostVars, peerVars, portVars, resetting, linkups>>
  BY DEF LinkDown
<1>4. /\ t.order = links /\ t.got = finished /\ links \in Seq(Handle) /\ Distinct(links)
      /\ t.node \in [Handle -> Connection]
      /\ \A g \in Handle : t.node[g].connect_handle = g
      /\ t.got \in [Handle -> Seq(Seq(Piece))] /\ t.leaked \in Nat
  BY <1>1 DEF Agreed, HostState, Types, TypeOK
<1>5. /\ links' \in Seq(Handle) /\ Distinct(links')
      /\ \A x \in Range(links') : x \in Range(links)
  BY <1>2, <1>4, OneLess
<1> DEFINE fewer == RemoveAt(t.order, i)
           t1 == [order |-> fewer, node |-> t.node, got |-> t.got, leaked |-> t.leaked]
<1>6. fewer \in Seq(Handle) /\ Distinct(fewer) /\ fewer = links'
  BY <1>2, <1>4, OneLess
<1>7. Handles(t, p, t1)
  <2> HIDE DEF fewer
  <2>1. \E k \in DOMAIN t.order : t.order[k] = h /\ fewer = RemoveAt(t.order, k)
    BY <1>2, <1>4 DEF fewer
  <2> QED
    BY <2>1 DEF Handles
<1> HIDE DEF fewer
<1>8. t1 \in HostState
  BY <1>4, <1>6 DEF HostState
<1>9. t1.order = links' /\ t1.got = finished' /\ t1.leaked = t.leaked /\ t1.node = t.node
  BY <1>3, <1>4, <1>6 DEF peerVars
<1> HIDE DEF t1
<1>10. Before(t, t1)
  <2>1. t.leaked <= t1.leaked /\ t1.got = t.got
    BY <1>3, <1>4, <1>9 DEF peerVars
  <2> QED
    BY <1>8, <2>1, SameGot
<1>11. Agreed(t1)'
  <2>1. (t1.leaked > 0 => brokenOff \/ opens > 1)'
    BY <1>1, <1>3, <1>9 DEF Agreed, portVars, peerVars
  <2>2. \A g \in Range(links') : Following(t1.node[g], sending'[g], brokenOff')
    BY <1>1, <1>3, <1>5, <1>9 DEF Agreed, peerVars
  <2> QED
    BY <1>9, <2>1, <2>2 DEF Agreed
<1>12. p \in Packet
  BY DEF Packet
<1> QED
  BY <1>1, <1>3, <1>7, <1>8, <1>10, <1>11, <1>12, EmittedTracked

LEMMA StartTracked ==
    ASSUME Types, Bookkeeping, Mirrored, opened, NEW h \in Handle, NEW total \in 1 .. MaxPieces,
           PeerStartsPdu(h, total)
    PROVE  Mirrored'
<1>0. PICK id : id = pdus + 1
  OBVIOUS
<1> DEFINE p == [type |-> "first", handle |-> h, piece |-> <<id, 1>>, total |-> total]
           now == [pdu |-> id, sent |-> 1, total |-> total]
<1>1. PICK s \in HostState, t \in HostState :
        Shown(s) /\ Reaches(s, toHost, t) /\ Agreed(t)
  BY DEF Mirrored
<1>2. /\ h \in Range(links) /\ pdus < MaxPdus
      /\ brokenOff' = (brokenOff \/ sending[h].sent < sending[h].total)
      /\ sending' = [sending EXCEPT ![h] = now]
      /\ finished' = IF 1 = total THEN [finished EXCEPT ![h] = Append(@, Pdu(id, total))]
                                  ELSE finished
      /\ Emit(p)
      /\ UNCHANGED <<hostVars, portVars, links, resetting, linkups>>
  BY <1>0 DEF PeerStartsPdu, SendPiece
<1>3. /\ t.order = links /\ t.got = finished /\ links \in Seq(Handle) /\ Distinct(links)
      /\ t.node \in [Handle -> Connection]
      /\ \A g \in Handle : t.node[g].connect_handle = g
      /\ t.got \in [Handle -> Seq(Seq(Piece))] /\ t.leaked \in Nat
      /\ sending \in [Handle -> Sending]
  BY <1>1 DEF Agreed, HostState, Types, TypeOK
<1>4. id \in 1 .. MaxPdus /\ MaxPieces \in Nat /\ 1 \in 1 .. MaxPieces /\ total \in Nat /\ total >= 1
  BY <1>0, <1>2, BoundsAssumption DEF Types
<1>5. <<id, 1>> \in Piece /\ <<<<id, 1>>>> \in Seq(Piece)
  BY <1>4 DEF Piece
<1>6. p \in Packet
  BY <1>5 DEF Packet
<1>7. \E k \in DOMAIN t.order : t.order[k] = h
  BY <1>2, <1>3 DEF Range
<1>8. <<<<id, 1>>>> = Pdu(id, 1)
  BY PduGrows
<1> DEFINE old == t.node[h].segment_buffer_recv
           single == [t.node[h] EXCEPT !.segment_length_total = total,
                                       !.segment_length_received = 1]
           several == [t.node[h] EXCEPT !.segment_length_total = total,
                                        !.segment_length_received = 1,
                                        !.segment_buffer_recv = <<<<id, 1>>>>]
           node1 == [t.node EXCEPT ![h] = IF total = 1 THEN single ELSE several]
           got1 == IF total = 1 THEN [t.got EXCEPT ![h] = Append(@, <<<<id, 1>>>>)] ELSE t.got
           leaked1 == IF total = 1 THEN t.leaked ELSE t.leaked + Owned(old)
           t1 == [order |-> t.order, node |-> node1, got |-> got1, leaked |-> leaked1]
<1>9. /\ single \in Connection /\ several \in Connection
      /\ single.connect_handle = h /\ several.connect_handle = h
      /\ single.segment_buffer_recv = old
      /\ several.segment_buffer_recv = <<<<id, 1>>>>
      /\ several.segment_length_total = total /\ several.segment_length_received = 1
  <2>1. t.node[h] \in Connection /\ t.node[h].connect_handle = h
        /\ total \in 0 .. MaxPieces /\ 1 \in 0 .. MaxPieces
    BY <1>3, <1>4
  <2> QED
    BY <1>5, <2>1 DEF Connection
<1> HIDE DEF single, several
<1>10. /\ node1 \in [Handle -> Connection]
       /\ \A g \in Handle : node1[g].connect_handle = g
       /\ \A g \in Handle : g # h => node1[g] = t.node[g]
       /\ node1[h] = IF total = 1 THEN single ELSE several
  BY <1>3, <1>9
<1>11. got1 = finished' /\ got1 \in [Handle -> Seq(Seq(Piece))]
  <2>1. got1 = finished'
    BY <1>2, <1>3, <1>8
  <2> DEFINE S == Seq(Piece)
  <2>2. <<<<id, 1>>>> \in S /\ t.got \in [Handle -> Seq(S)]
    BY <1>3, <1>5
  <2> HIDE DEF S
  <2>3. got1 \in [Handle -> Seq(S)]
    BY <2>2
  <2> QED
    BY <2>1, <2>3 DEF S
<1>12. leaked1 \in Nat /\ t.leaked <= leaked1
  BY <1>3 DEF Owned
<1> HIDE DEF node1, got1, leaked1
<1>13. t1 \in HostState
  <2>1. t.order \in Seq(Handle) /\ Distinct(t.order)
    BY <1>3
  <2> QED
    BY <1>10, <1>11, <1>12, <2>1 DEF HostState
<1>14. Handles(t, p, t1)
  <2>1. /\ p.type = "first" /\ p.handle = h /\ p.piece = <<id, 1>> /\ p.total = total
        /\ t1.order = t.order /\ t1.node = node1 /\ t1.got = got1 /\ t1.leaked = leaked1
    OBVIOUS
  <2> HIDE DEF t1, p
  <2>2. CASE total = 1
    <3>1. /\ t1.node = [t.node EXCEPT ![h] = [@ EXCEPT !.segment_length_total = p.total,
                                                       !.segment_length_received = 1]]
          /\ t1.got = [t.got EXCEPT ![h] = Append(@, <<p.piece>>)]
          /\ t1.leaked = t.leaked
      BY <1>3, <2>1, <2>2 DEF node1, got1, leaked1, single
    <3> QED
      BY <1>7, <2>1, <2>2, <3>1 DEF Handles
  <2>3. CASE total # 1
    <3>1. /\ t1.node = [t.node EXCEPT ![h] = [@ EXCEPT !.segment_length_total = p.total,
                                                       !.segment_length_received = 1,
                                                       !.segment_buffer_recv = <<p.piece>>]]
          /\ t1.got = t.got
          /\ t1.leaked = t.leaked + Owned(t.node[h].segment_buffer_recv)
      BY <1>3, <2>1, <2>3 DEF node1, got1, leaked1, several
    <3>2. p.total > 1
      BY <1>4, <2>1, <2>3
    <3> QED
      BY <1>7, <2>1, <3>1, <3>2 DEF Handles
  <2> QED
    BY <2>2, <2>3
<1>15. t1.order = t.order /\ t1.node = node1 /\ t1.got = got1 /\ t1.leaked = leaked1
  OBVIOUS
<1> HIDE DEF t1
<1>16. Before(t, t1)
  <2>1. CASE total = 1
    <3>1. t1.got = [t.got EXCEPT ![h] = Append(@, <<<<id, 1>>>>)]
      BY <1>15, <2>1 DEF got1
    <3> QED
      BY <1>5, <1>12, <1>13, <1>15, <3>1, MoreGot
  <2>2. CASE total # 1
    <3>1. t1.got = t.got
      BY <1>15, <2>2 DEF got1
    <3> QED
      BY <1>12, <1>13, <1>15, <3>1, SameGot
  <2> QED
    BY <2>1, <2>2
<1>17. Following(t.node[h], sending[h], brokenOff)
  BY <1>1, <1>2 DEF Agreed
<1>18. old = <<>> \/ brokenOff'
  BY <1>2, <1>17 DEF Following
<1>19. (t1.leaked > 0 => brokenOff \/ opens > 1)'
  <2>1. t.leaked > 0 => brokenOff \/ opens > 1
    BY <1>1 DEF Agreed
  <2>2. brokenOff => brokenOff'
    BY <1>2
  <2>3. opens' = opens
    BY <1>2 DEF portVars
  <2>4. leaked1 > 0 => t.leaked > 0 \/ old # <<>>
    BY <1>3 DEF leaked1, Owned
  <2> QED
    BY <1>15, <1>18, <2>1, <2>2, <2>3, <2>4
<1>20. ASSUME NEW g \in Range(links')
       PROVE  Following(t1.node[g], sending'[g], brokenOff')
  <2>0. g \in Range(links) /\ g \in Handle
    BY <1>2, <1>3 DEF Range
  <2>1. CASE g = h
    <3>1. sending'[g] = now
      BY <1>2, <1>3, <2>0, <2>1
    <3>2. CASE total = 1
      BY <1>9, <1>10, <1>15, <1>18, <2>1, <3>1, <3>2 DEF Following
    <3>3. CASE total # 1
      <4>1. now.sent < now.total
        BY <1>4, <3>3
      <4> QED
        BY <1>8, <1>9, <1>10, <1>15, <2>1, <3>1, <3>3, <4>1 DEF Following
    <3> QED
      BY <3>2, <3>3
  <2>2. CASE g # h
    <3>1. sending'[g] = sending[g] /\ t1.node[g] = t.node[g]
      BY <1>2, <1>3, <1>10, <1>15, <2>0, <2>2
    <3>2. Following(t.node[g], sending[g], brokenOff)
      BY <1>1, <2>0 DEF Agreed
    <3> QED
      BY <1>2, <3>1, <3>2 DEF Following
  <2> QED
    BY <2>1, <2>2
<1>21. Agreed(t1)'
  <2>1. t1.order = links' /\ t1.got = finished'
    BY <1>2, <1>3, <1>11, <1>15
  <2> QED
    BY <1>19, <1>20, <2>1 DEF Agreed
<1> QED
  BY <1>1, <1>2, <1>6, <1>13, <1>14, <1>16, <1>21, EmittedTracked

LEMMA ContinueTracked ==
    ASSUME Types, Bookkeeping, Mirrored, opened, NEW h \in Handle, PeerContinuesPdu(h)
    PROVE  Mirrored'
<1>0. PICK id, k, total : sending[h] = [pdu |-> id, sent |-> k, total |-> total]
                          /\ id \in 1 .. MaxPdus /\ k \in 1 .. MaxPieces
                          /\ total \in 1 .. MaxPieces /\ k < total
  <2>1. sending[h] \in Sending /\ sending[h].sent < sending[h].total
    BY DEF PeerContinuesPdu, Types
  <2>2. sending[h] # NoPdu
    BY <2>1 DEF NoPdu
  <2> QED
    BY <2>1, <2>2 DEF Sending
<1> DEFINE p == [type |-> "continue", handle |-> h, piece |-> <<id, k + 1>>, total |-> total]
           now == [pdu |-> id, sent |-> k + 1, total |-> total]
<1>1. PICK s \in HostState, t \in HostState :
        Shown(s) /\ Reaches(s, toHost, t) /\ Agreed(t)
  BY DEF Mirrored
<1>2. /\ h \in Range(links)
      /\ sending' = [sending EXCEPT ![h] = now]
      /\ finished' = IF k + 1 = total THEN [finished EXCEPT ![h] = Append(@, Pdu(id, total))]
                                      ELSE finished
      /\ Emit(p)
      /\ UNCHANGED <<hostVars, portVars, links, resetting, linkups, pdus, brokenOff>>
  <2>1. [sending[h] EXCEPT !.sent = @ + 1] = now
    BY <1>0
  <2>2. SendPiece(h, now, "continue") /\ h \in Range(links) /\ UNCHANGED <<pdus, brokenOff>>
    BY <2>1 DEF PeerContinuesPdu
  <2> QED
    BY <2>2 DEF SendPiece
<1>3. /\ t.order = links /\ t.got = finished /\ links \in Seq(Handle) /\ Distinct(links)
      /\ t.node \in [Handle -> Connection]
      /\ \A g \in Handle : t.node[g].connect_handle = g
      /\ t.got \in [Handle -> Seq(Seq(Piece))] /\ t.leaked \in Nat
      /\ sending \in [Handle -> Sending]
  BY <1>1 DEF Agreed, HostState, Types, TypeOK
<1>4. /\ MaxPieces \in Nat /\ k \in Nat /\ k + 1 \in 1 .. MaxPieces
      /\ k \in 0 .. MaxPieces /\ k + 1 \in 0 .. MaxPieces /\ k >= 1
  BY <1>0, BoundsAssumption
<1>5. /\ <<id, k + 1>> \in Piece
      /\ Pdu(id, k + 1) \in Seq(Piece) /\ Pdu(id, k) # <<>>
      /\ Append(Pdu(id, k), <<id, k + 1>>) = Pdu(id, k + 1)
  <2>1. Len(Pdu(id, k)) = k /\ Pdu(id, k) \in Seq(Piece)
    BY <1>0, <1>4, PduTyped
  <2>2. Pdu(id, k) # <<>>
    BY <1>4, <2>1, EmptySeq
  <2> QED
    BY <1>0, <1>4, <2>2, PduTyped, PduGrows DEF Piece
<1>6. p \in Packet
  BY <1>0, <1>5 DEF Packet
<1>7. \E j \in DOMAIN t.order : t.order[j] = h
  BY <1>2, <1>3 DEF Range
<1>8. /\ t.node[h] \in Connection /\ t.node[h].connect_handle = h
      /\ t.node[h].segment_length_total = total
      /\ t.node[h].segment_length_received = k
      /\ t.node[h].segment_buffer_recv = Pdu(id, k)
  <2>1. Following(t.node[h], sending[h], brokenOff)
    BY <1>1, <1>2 DEF Agreed
  <2> QED
    BY <1>0, <1>3, <2>1 DEF Following
<1> DEFINE rest == IF k + 1 = total THEN <<>> ELSE Pdu(id, k + 1)
           after == [t.node[h] EXCEPT !.segment_length_received = k + 1,
                                      !.segment_buffer_recv = rest]
           node1 == [t.node EXCEPT ![h] = after]
           got1 == IF k + 1 = total THEN [t.got EXCEPT ![h] = Append(@, Pdu(id, k + 1))]
                                    ELSE t.got
           t1 == [order |-> t.order, node |-> node1, got |-> got1, leaked |-> t.leaked]
<1>9. /\ after \in Connection /\ after.connect_handle = h
      /\ after.segment_buffer_recv = rest
      /\ after.segment_length_total = total /\ after.segment_length_received = k + 1
  <2>1. rest \in Seq(Piece)
    BY <1>5
  <2> HIDE DEF rest
  <2> QED
    BY <1>4, <1>8, <2>1 DEF Connection
<1> HIDE DEF after, rest
<1>10. /\ node1 \in [Handle -> Connection]
       /\ \A g \in Handle : node1[g].connect_handle = g
       /\ \A g \in Handle : g # h => node1[g] = t.node[g]
       /\ node1[h] = after
  BY <1>3, <1>9
<1>11. got1 = finished' /\ got1 \in [Handle -> Seq(Seq(Piece))]
  <2>1. got1 = finished'
    BY <1>2, <1>3
  <2> DEFINE S == Seq(Piece)
  <2>2. Pdu(id, k + 1) \in S /\ t.got \in [Handle -> Seq(S)]
    BY <1>3, <1>5
  <2> HIDE DEF S
  <2>3. got1 \in [Handle -> Seq(S)]
    BY <2>2
  <2> QED
    BY <2>1, <2>3 DEF S
<1> HIDE DEF node1, got1
<1>12. t1 \in HostState
  <2>1. t.order \in Seq(Handle) /\ Distinct(t.order) /\ t.leaked \in Nat
    BY <1>3
  <2> QED
    BY <1>10, <1>11, <2>1 DEF HostState
<1>13. /\ t1.order = t.order /\ t1.node = node1 /\ t1.got = got1 /\ t1.leaked = t.leaked
       /\ p.type = "continue" /\ p.handle = h /\ p.piece = <<id, k + 1>>
  OBVIOUS
<1> HIDE DEF t1
<1>14. Handles(t, p, t1)
  <2> HIDE DEF p
  <2> DEFINE node == t.node[h]
  <2>1. /\ node.segment_buffer_recv # <<>>
        /\ node.segment_length_received + 1 = k + 1
        /\ node.segment_length_total = total
        /\ Append(node.segment_buffer_recv, p.piece) = Pdu(id, k + 1)
    BY <1>5, <1>8, <1>13
  <2>2. CASE k + 1 = total
    <3>1. /\ t1.node = [t.node EXCEPT ![h] = [@ EXCEPT !.segment_length_received =
                                                          node.segment_length_received + 1,
                                                       !.segment_buffer_recv = <<>>]]
          /\ t1.got = [t.got EXCEPT ![h] =
                         Append(@, Append(node.segment_buffer_recv, p.piece))]
      BY <1>3, <1>13, <2>1, <2>2 DEF node1, got1, after, rest
    <3>2. node.segment_length_received + 1 = node.segment_length_total
      BY <2>1, <2>2
    <3> QED
      BY <1>7, <1>13, <2>1, <3>1, <3>2 DEF Handles
  <2>3. CASE k + 1 # total
    <3>1. /\ t1.node = [t.node EXCEPT ![h] = [@ EXCEPT
                           !.segment_length_received = node.segment_length_received + 1,
                           !.segment_buffer_recv = Append(node.segment_buffer_recv, p.piece)]]
          /\ t1.got = t.got
      BY <1>3, <1>13, <2>1, <2>3 DEF node1, got1, after, rest
    <3>2. node.segment_length_received + 1 # node.segment_length_total
      BY <2>1, <2>3
    <3> QED
      BY <1>7, <1>13, <2>1, <3>1, <3>2 DEF Handles
  <2> QED
    BY <2>2, <2>3
<1>15. Before(t, t1)
  <2>0. t.leaked <= t1.leaked
    BY <1>3, <1>13
  <2>1. CASE k + 1 = total
    <3>1. t1.got = [t.got EXCEPT ![h] = Append(@, Pdu(id, k + 1))]
      BY <1>13, <2>1 DEF got1
    <3> QED
      BY <1>5, <1>12, <2>0, <3>1, MoreGot
  <2>2. CASE k + 1 # total
    <3>1. t1.got = t.got
      BY <1>13, <2>2 DEF got1
    <3> QED
      BY <1>12, <2>0, <3>1, SameGot
  <2> QED
    BY <2>1, <2>2
<1>16. (t1.leaked > 0 => brokenOff \/ opens > 1)'
  BY <1>1, <1>2, <1>13 DEF Agreed, portVars
<1>17. ASSUME NEW g \in Range(links')
       PROVE  Following(t1.node[g], sending'[g], brokenOff')
  <2>0. g \in Range(links) /\ g \in Handle
    BY <1>2, <1>3 DEF Range
  <2>1. CASE g = h
    <3>1. sending'[g] = now /\ t1.node[g] = after
      BY <1>2, <1>3, <1>10, <1>13, <2>0, <2>1
    <3>2. CASE k + 1 = total
      <4>1. ~(now.sent < now.total) /\ after.segment_buffer_recv = <<>>
        BY <1>4, <1>9, <3>2 DEF rest
      <4> QED
        BY <3>1, <4>1 DEF Following
    <3>3. CASE k + 1 # total
      <4>1. now.sent < now.total /\ after.segment_buffer_recv = Pdu(id, k + 1)
        BY <1>0, <1>4, <1>9, <3>3 DEF rest
      <4> QED
        BY <1>9, <3>1, <4>1 DEF Following
    <3> QED
      BY <3>2, <3>3
  <2>2. CASE g # h
    <3>1. sending'[g] = sending[g] /\ t1.node[g] = t.node[g] /\ brokenOff' = brokenOff
      BY <1>2, <1>3, <1>10, <1>13, <2>0, <2>2
    <3>2. Following(t.node[g], sending[g], brokenOff)
      BY <1>1, <2>0 DEF Agreed
    <3> QED
      BY <3>1, <3>2
  <2> QED
    BY <2>1, <2>2
<1>18. Agreed(t1)'
  <2>1. t1.order = links' /\ t1.got = finished'
    BY <1>2, <1>3, <1>11, <1>13
  <2> QED
    BY <1>16, <1>17, <2>1 DEF Agreed
<1> QED
  BY <1>1, <1>2, <1>6, <1>12, <1>14, <1>15, <1>18, EmittedTracked

\* What every step of theirs leaves alone, and what it keeps.
Sends(h) == \/ LinkUp(h) \/ LinkDown(h)
            \/ \E total \in 1 .. MaxPieces : PeerStartsPdu(h, total)
            \/ PeerContinuesPdu(h)

LEMMA SendPieceKeeps ==
    ASSUME Types, NEW h \in Handle, NEW type \in {"first", "continue"},
           NEW now \in Sending, now # NoPdu, SendPiece(h, now, type)
    PROVE  /\ UNCHANGED <<hostVars, portVars, links, resetting>>
           /\ \E p \in Packet : Emit(p) /\ p.type # "connComplete"
           /\ sending' \in [Handle -> Sending]
           /\ finished' \in [Handle -> Seq(Seq(Piece))]
           /\ \A g \in Handle : IsPrefix(finished[g], finished'[g])
<1> DEFINE S == Seq(Piece)
           p == [type |-> type, handle |-> h, piece |-> <<now.pdu, now.sent>>,
                 total |-> now.total]
           data == Pdu(now.pdu, now.total)
<1>1. now.pdu \in 1 .. MaxPdus /\ now.sent \in 1 .. MaxPieces /\ now.total \in 1 .. MaxPieces
  BY DEF Sending
<1>2. now.total \in 0 .. MaxPieces
  BY <1>1, BoundsAssumption
<1>3. data \in S
  BY <1>1, <1>2, PduTyped
<1>4. p \in Packet
  BY <1>1 DEF Packet, Piece
<1>5. Emit(p) /\ p.type # "connComplete"
  BY DEF SendPiece
<1> HIDE DEF S, data
<1>6. finished \in [Handle -> Seq(S)] /\ sending \in [Handle -> Sending]
  BY DEF Types, S
<1>7. /\ sending' = [sending EXCEPT ![h] = now]
      /\ finished' = IF now.sent = now.total THEN [finished EXCEPT ![h] = Append(@, data)]
                                             ELSE finished
      /\ UNCHANGED <<hostVars, portVars, links, resetting, linkups>>
  BY DEF SendPiece, data
<1>8. finished' \in [Handle -> Seq(S)]
  BY <1>3, <1>6, <1>7
<1>9. ASSUME NEW g \in Handle PROVE IsPrefix(finished[g], finished'[g])
  <2>1. finished[g] \in Seq(S)
    BY <1>6
  <2>2. finished'[g] = finished[g] \/ finished'[g] = Append(finished[g], data)
    BY <1>6, <1>7
  <2> QED
    BY <1>3, <2>1, <2>2, PrefixRefl, PrefixAppend
<1>10. sending' \in [Handle -> Sending]
  BY <1>6, <1>7
<1> QED
  BY <1>4, <1>5, <1>7, <1>8, <1>9, <1>10 DEF S

LEMMA SendKeeps ==
    ASSUME Types, Bookkeeping, NEW h \in Handle, Sends(h)
    PROVE  /\ UNCHANGED <<hostVars, portVars, resetting>>
           /\ \E p \in Packet : Emit(p) /\ (p.type = "connComplete" => ~resetting)
           /\ (resetting => links = <<>>) => (resetting => links = <<>>)'
           /\ links' \in Seq(Handle) /\ Distinct(links')
           /\ sending' \in [Handle -> Sending] /\ pdus' \in 0 .. MaxPdus
           /\ finished' \in [Handle -> Seq(Seq(Piece))]
           /\ \A g \in Handle : IsPrefix(finished[g], finished'[g])
           /\ brokenOff' \in BOOLEAN /\ (brokenOff => brokenOff')
<1>1. /\ links \in Seq(Handle) /\ Distinct(links) /\ sending \in [Handle -> Sending]
      /\ pdus \in 0 .. MaxPdus /\ finished \in [Handle -> Seq(Seq(Piece))]
      /\ brokenOff \in BOOLEAN
  BY DEF Types, TypeOK, Bookkeeping
<1>2. \A g \in Handle : IsPrefix(finished[g], finished[g])
  BY <1>1, PrefixRefl
<1>3. links = <<>> => h \notin Range(links)
  <2>1. links = <<>> => DOMAIN links = {}
    BY EmptySeq
  <2> QED
    BY <2>1 DEF Range
<1>4. CASE LinkUp(h)
  <2> DEFINE p == [type |-> "connComplete", handle |-> h]
  <2>1. /\ h \notin Range(links) /\ links' = <<h>> \o links /\ ~resetting
        /\ sending' = [sending EXCEPT ![h] = NoPdu] /\ Emit(p)
        /\ UNCHANGED <<hostVars, portVars, finished, pdus, brokenOff, resetting>>
    BY <1>4 DEF LinkUp
  <2>2. p \in Packet
    BY DEF Packet
  <2>3. links' \in Seq(Handle) /\ Distinct(links')
    BY <1>1, <2>1, OneMore, Prepended
  <2>4. sending' \in [Handle -> Sending]
    BY <1>1, <2>1 DEF Sending
  <2>5. \A g \in Handle : IsPrefix(finished[g], finished'[g])
    BY <1>2, <2>1
  <2> QED
    BY <1>1, <2>1, <2>2, <2>3, <2>4, <2>5
<1>5. CASE LinkDown(h)
  <2> DEFINE p == [type |-> "disconnComplete", handle |-> h]
  <2>1. PICK i \in DOMAIN links : links[i] = h /\ links' = RemoveAt(links, i)
    BY <1>5 DEF LinkDown
  <2>2. Emit(p) /\ UNCHANGED <<hostVars, peerVars, portVars, resetting, linkups>>
    BY <1>5 DEF LinkDown
  <2>3. p \in Packet /\ p.type # "connComplete"
    BY DEF Packet
  <2>4. links' \in Seq(Handle) /\ Distinct(links')
    BY <1>1, <2>1, OneLess
  <2>5. (resetting => links = <<>>) => ~resetting
    BY <1>3, <2>1 DEF Range
  <2>6. \A g \in Handle : IsPrefix(finished[g], finished'[g])
    BY <1>2, <2>2 DEF peerVars
  <2> QED
    BY <1>1, <2>2, <2>3, <2>4, <2>5, <2>6 DEF peerVars
<1>6. ASSUME NEW total \in 1 .. MaxPieces, PeerStartsPdu(h, total)
      PROVE  /\ pdus' \in 0 .. MaxPdus /\ h \in Range(links)
             /\ brokenOff' \in BOOLEAN /\ (brokenOff => brokenOff')
             /\ \E now \in Sending \ {NoPdu} : SendPiece(h, now, "first")
  <2> DEFINE now == [pdu |-> pdus + 1, sent |-> 1, total |-> total]
  <2>1. /\ h \in Range(links) /\ pdus < MaxPdus /\ pdus' = pdus + 1
        /\ brokenOff' = (brokenOff \/ sending[h].sent < sending[h].total)
        /\ SendPiece(h, now, "first")
    BY <1>6 DEF PeerStartsPdu
  <2>2. pdus + 1 \in 1 .. MaxPdus /\ 1 \in 1 .. MaxPieces /\ 1 <= total
    BY <1>1, <2>1, BoundsAssumption
  <2>3. now \in Sending /\ now # NoPdu
    BY <2>2 DEF Sending, NoPdu
  <2>4. pdus' \in 0 .. MaxPdus
    BY <1>1, <2>1, BoundsAssumption
  <2>5. brokenOff' \in BOOLEAN /\ (brokenOff => brokenOff')
    BY <2>1, Zenon
  <2> QED
    BY <2>1, <2>3, <2>4, <2>5
<1>7. ASSUME PeerContinuesPdu(h)
      PROVE  /\ UNCHANGED <<pdus, brokenOff>> /\ h \in Range(links)
             /\ \E now \in Sending \ {NoPdu} : SendPiece(h, now, "continue")
  <2> DEFINE now == [sending[h] EXCEPT !.sent = @ + 1]
  <2>1. /\ h \in Range(links) /\ sending[h].sent < sending[h].total
        /\ SendPiece(h, now, "continue") /\ UNCHANGED <<pdus, brokenOff>>
    BY <1>7 DEF PeerContinuesPdu
  <2>2. sending[h] \in Sending /\ sending[h] # NoPdu
    BY <1>1, <2>1 DEF NoPdu
  <2>3. now \in Sending /\ now # NoPdu
    BY <2>1, <2>2, BoundsAssumption DEF Sending, NoPdu
  <2> QED
    BY <2>1, <2>3
<1>8. ASSUME NEW now \in Sending \ {NoPdu}, NEW type \in {"first", "continue"},
             SendPiece(h, now, type), h \in Range(links)
      PROVE  /\ UNCHANGED <<hostVars, portVars, links, resetting>>
             /\ \E p \in Packet : Emit(p) /\ p.type # "connComplete"
             /\ (resetting => links = <<>>) => (resetting => links = <<>>)'
             /\ links' \in Seq(Handle) /\ Distinct(links')
             /\ sending' \in [Handle -> Sending]
             /\ finished' \in [Handle -> Seq(Seq(Piece))]
             /\ \A g \in Handle : IsPrefix(finished[g], finished'[g])
  BY <1>1, <1>3, <1>8, SendPieceKeeps
<1>9. CASE \E total \in 1 .. MaxPieces : PeerStartsPdu(h, total)
  <2>1. PICK now \in Sending \ {NoPdu} : SendPiece(h, now, "first")
    BY <1>6, <1>9
  <2>2. /\ pdus' \in 0 .. MaxPdus /\ h \in Range(links)
        /\ brokenOff' \in BOOLEAN /\ (brokenOff => brokenOff')
    BY <1>6, <1>9
  <2> QED
    BY <1>8, <2>1, <2>2
<1>10. CASE PeerContinuesPdu(h)
  <2>1. PICK now \in Sending \ {NoPdu} : SendPiece(h, now, "continue")
    BY <1>7, <1>10
  <2>2. UNCHANGED <<pdus, brokenOff>> /\ h \in Range(links)
    BY <1>7, <1>10
  <2> QED
    BY <1>1, <1>8, <2>1, <2>2
<1> QED
  BY <1>4, <1>5, <1>9, <1>10 DEF Sends

LEMMA SendStep ==
    ASSUME IInv, crash = "none", NEW h \in Handle, Sends(h)
    PROVE  IInv'
<1>1. Types /\ Bookkeeping /\ Tracked /\ PdusWholeAndInOrder /\ BuffersFreed /\ CrashesExplained
  BY DEF IInv
<1>2. /\ UNCHANGED <<hostVars, portVars, resetting>>
      /\ (resetting => links = <<>>) => (resetting => links = <<>>)'
      /\ links' \in Seq(Handle) /\ Distinct(links')
      /\ sending' \in [Handle -> Sending] /\ pdus' \in 0 .. MaxPdus
      /\ finished' \in [Handle -> Seq(Seq(Piece))]
      /\ \A g \in Handle : IsPrefix(finished[g], finished'[g])
      /\ brokenOff' \in BOOLEAN /\ (brokenOff => brokenOff')
  BY <1>1, SendKeeps
<1>3. PICK p \in Packet : Emit(p) /\ (p.type = "connComplete" => ~resetting)
  BY <1>1, SendKeeps
<1>4. toHost \in Seq(Packet) /\ Len(toHost) < MaxQueue
      /\ toHost' = IF opened THEN Append(toHost, p) ELSE toHost
  BY <1>1, <1>3 DEF Emit, Types
<1>5. /\ Append(toHost, p) \in Seq(Packet) /\ Len(Append(toHost, p)) = Len(toHost) + 1
      /\ Append(toHost, p) # <<>>
      /\ Head(Append(toHost, p)) = IF toHost = <<>> THEN p ELSE Head(toHost)
  <2>1. /\ Append(toHost, p) \in Seq(Packet) /\ Len(Append(toHost, p)) = Len(toHost) + 1
        /\ \A i \in 1 .. Len(toHost) : Append(toHost, p)[i] = toHost[i]
        /\ Append(toHost, p)[Len(toHost) + 1] = p
    BY <1>4, AppendProperties
  <2>2. Len(toHost) \in Nat /\ (toHost = <<>> <=> Len(toHost) = 0)
    BY <1>4, LenProperties, EmptySeq
  <2>3. Append(toHost, p) # <<>>
    BY <2>1, <2>2, EmptySeq
  <2>4. Head(Append(toHost, p)) = Append(toHost, p)[1]
    BY <2>1, <2>3
  <2>5. toHost # <<>> => Head(toHost) = toHost[1] /\ 1 \in 1 .. Len(toHost)
    BY <1>4, <2>2
  <2> QED
    BY <2>1, <2>2, <2>3, <2>4, <2>5
<1>6. Types'
  <2>1. toHost' \in Seq(Packet) /\ Len(toHost') <= MaxQueue
    BY <1>4, <1>5, BoundsAssumption, LenProperties
  <2> QED
    BY <1>1, <1>2, <2>1 DEF Types, TypeOK, hostVars, portVars
<1>7. Bookkeeping'
  BY <1>1, <1>2, <1>4 DEF Bookkeeping, hostVars, portVars
<1>8. PdusWholeAndInOrder'
  <2>1. ASSUME NEW g \in Handle PROVE IsPrefix(delivered'[g], finished'[g])
    <3> DEFINE S == Seq(Piece)
    <3>1. delivered[g] \in Seq(S) /\ finished[g] \in Seq(S) /\ finished'[g] \in Seq(S)
      BY <1>1, <1>2 DEF Types
    <3> HIDE DEF S
    <3>2. IsPrefix(delivered[g], finished[g]) /\ delivered' = delivered
      BY <1>1, <1>2 DEF PdusWholeAndInOrder, hostVars
    <3>3. IsPrefix(delivered[g], finished'[g])
      BY <1>2, <3>1, <3>2, PrefixTrans
    <3> QED
      BY <3>2, <3>3
  <2> QED
    BY <2>1 DEF PdusWholeAndInOrder
<1>9. BuffersFreed'
  BY <1>1, <1>2 DEF BuffersFreed, hostVars, portVars
<1>10. CrashesExplained'
  BY <1>1, <1>2 DEF CrashesExplained, hostVars, portVars
<1>11. ASSUME opened
       PROVE  (Doomed \/ Orphans \/ ((resetting => links = <<>>) /\ Mirrored))'
  <2>1. toHost' = Append(toHost, p)
    BY <1>4, <1>11
  <2>2. CASE Doomed
    <3>1. Doomed'
      BY <1>2, <1>5, <2>1, <2>2 DEF Doomed, hostVars, portVars
    <3> QED
      BY <3>1
  <2>3. CASE Orphans
    <3>1. Doomed'
      BY <1>2, <1>3, <1>5, <2>1, <2>3 DEF Doomed, Orphans, hostVars, portVars
    <3> QED
      BY <3>1
  <2>4. CASE (resetting => links = <<>>) /\ Mirrored
    <3>1. Mirrored'
      <4>1. CASE LinkUp(h)
        BY <1>1, <1>11, <2>4, <4>1, LinkUpTracked
      <4>2. CASE LinkDown(h)
        BY <1>1, <1>11, <2>4, <4>2, LinkDownTracked
      <4>3. CASE \E total \in 1 .. MaxPieces : PeerStartsPdu(h, total)
        BY <1>1, <1>11, <2>4, <4>3, StartTracked
      <4>4. CASE PeerContinuesPdu(h)
        BY <1>1, <1>11, <2>4, <4>4, ContinueTracked
      <4> QED
        BY <4>1, <4>2, <4>3, <4>4 DEF Sends
    <3> QED
      BY <1>2, <2>4, <3>1
  <2> QED
    BY <1>1, <1>11, <2>2, <2>3, <2>4 DEF Tracked
<1>12. Tracked'
  BY <1>2, <1>11 DEF Tracked, portVars
<1> QED
  BY <1>6, <1>7, <1>8, <1>9, <1>10, <1>12 DEF IInv

\* A host that forgot its connections follows a null pointer.
LEMMA DoomedEnds ==
    ASSUME Doomed, HostReceives, hci_connections = <<>>
    PROVE  crash' = "unknown handle" /\ UNCHANGED <<hci_connections, delivered, leaked>>
<1>1. DOMAIN hci_connections = {}
  BY EmptySeq
<1>2. \A h : Positions(h) = {}
  BY <1>1 DEF Positions
<1>3. ~RecvConnComplete
  BY DEF Doomed, RecvConnComplete, Receive
<1>4. CASE __hci_recv_evt_disconn_complete
  <2>1. hci_delete_connection_by_handle(Head(toHost).handle)
    BY <1>4 DEF __hci_recv_evt_disconn_complete
  <2> QED
    BY <1>2, <2>1 DEF hci_delete_connection_by_handle, Crashes
<1>5. CASE RecvFirst
  BY <1>2, <1>5 DEF RecvFirst, Crashes
<1>6. CASE RecvContinue
  BY <1>2, <1>6 DEF RecvContinue, Crashes
<1> QED
  BY <1>3, <1>4, <1>5, <1>6 DEF HostReceives

LEMMA ReceiveStep ==
    ASSUME IInv, HostReceives
    PROVE  IInv'
<1>1. Types /\ Bookkeeping /\ Tracked /\ PdusWholeAndInOrder /\ BuffersFreed /\ CrashesExplained
  BY DEF IInv
<1>2. /\ crash = "none" /\ toHost # <<>> /\ toHost' = Tail(toHost)
      /\ UNCHANGED <<peerVars, portVars, links, resetting, linkups>>
  BY DEF HostReceives, RecvConnComplete, __hci_recv_evt_disconn_complete, RecvFirst,
         RecvContinue, Receive
<1>3. opened
  BY <1>1, <1>2 DEF Bookkeeping
<1>4. opens # 0 /\ Bookkeeping'
  BY <1>1, <1>2, <1>3 DEF Bookkeeping, portVars
<1>5. CASE Doomed
  <2>1. crash' = "unknown handle" /\ UNCHANGED <<hci_connections, delivered, leaked>> /\ orphaned
    BY <1>5, DoomedEnds DEF Doomed
  <2>2. toHost' \in Seq(Packet) /\ Len(toHost') <= MaxQueue
    <3>1. toHost \in Seq(Packet) /\ Len(toHost) <= MaxQueue /\ MaxQueue \in Nat
      BY <1>1, BoundsAssumption DEF Types, TypeOK
    <3>2. Tail(toHost) \in Seq(Packet) /\ Len(Tail(toHost)) = Len(toHost) - 1
          /\ Len(toHost) \in Nat
      BY <1>2, <3>1, HeadTailProperties, LenProperties
    <3> QED
      BY <1>2, <3>1, <3>2
  <2>3. Types'
    BY <1>1, <1>2, <2>1, <2>2 DEF Types, TypeOK, peerVars, portVars
  <2>4. PdusWholeAndInOrder' /\ BuffersFreed' /\ CrashesExplained'
    BY <1>1, <1>2, <2>1 DEF PdusWholeAndInOrder, BuffersFreed, CrashesExplained, peerVars, portVars
  <2>5. Tracked'
    BY <2>1 DEF Tracked
  <2> QED
    BY <1>4, <2>3, <2>4, <2>5 DEF IInv
<1>6. CASE (resetting => links = <<>>) /\ Mirrored
  <2>1. /\ hci_connections' \in Seq(Connection) /\ leaked' \in Nat
        /\ delivered' \in [Handle -> Seq(Seq(Piece))]
        /\ toHost' \in Seq(Packet) /\ Len(toHost') <= MaxQueue
        /\ PdusWholeAndInOrder' /\ BuffersFreed'
        /\ \/ crash' = "oldest of several"
           \/ crash' = "none" /\ (resetting => links = <<>>)' /\ Mirrored'
    BY <1>1, <1>3, <1>6, ReceiveTracked
  <2>2. Types'
    BY <1>1, <1>2, <2>1 DEF Types, TypeOK, peerVars, portVars
  <2>3. Tracked' /\ CrashesExplained'
    BY <2>1 DEF Tracked, CrashesExplained
  <2> QED
    BY <1>4, <2>1, <2>2, <2>3 DEF IInv
<1>7. ~Orphans
  BY <1>2 DEF Orphans
<1> QED
  BY <1>1, <1>2, <1>3, <1>5, <1>6, <1>7 DEF Tracked

-----------------------------------------------------------------------------
(* The port, the controller's reset, and the theorems.                      *)

\* A host without connections has nothing left to handle.
LEMMA EmptyHost ==
    ASSUME NEW got \in [Handle -> Seq(Seq(Piece))], NEW lost \in Nat
    PROVE  \E s \in HostState : /\ s.order = <<>> /\ s.got = got /\ s.leaked = lost
                                /\ Nodes(s) = <<>>
                                /\ Reaches(s, <<>>, s)
<1> DEFINE node == [h \in Handle |-> NewConnection(h)]
           s == [order |-> <<>>, node |-> node, got |-> got, leaked |-> lost]
<1>1. \A h \in Handle : NewConnection(h) \in Connection /\ NewConnection(h).connect_handle = h
  BY BoundsAssumption DEF NewConnection, Connection
<1>2. node \in [Handle -> Connection] /\ \A h \in Handle : node[h].connect_handle = h
  BY <1>1
<1>3. <<>> \in Seq(Handle) /\ Distinct(<<>>) /\ Len(<<>>) = 0
  BY EmptySeq DEF Distinct
<1> HIDE DEF node
<1>4. s \in HostState
  BY <1>2, <1>3 DEF HostState
<1>5. s.order = <<>> /\ s.got = got /\ s.leaked = lost
  OBVIOUS
<1> HIDE DEF s
<1>6. Reaches(s, <<>>, s)
  BY <1>4, ReachesNothing
<1>7. Nodes(s) = <<>>
  BY <1>3, <1>5 DEF Nodes
<1> QED
  BY <1>4, <1>5, <1>6, <1>7

LEMMA InitIInv == Init => IInv
<1> SUFFICES ASSUME Init PROVE IInv
  OBVIOUS
<1>1. <<>> \in Seq(Connection) /\ <<>> \in Seq(Packet) /\ <<>> \in Seq(Handle)
      /\ <<>> \in Seq(Seq(Piece)) /\ Len(<<>>) = 0 /\ DOMAIN <<>> = {}
  BY EmptySeq
<1>2. TypeOK
  <2>1. hci_connections = <<>> /\ crash = "none" /\ opened = FALSE /\ opens = 0
        /\ toHost = <<>> /\ links = <<>> /\ resetting = FALSE /\ leaked = 0
    BY DEF Init
  <2>2. 0 \in 0 .. MaxOpens /\ 0 <= MaxQueue
    BY BoundsAssumption
  <2> QED
    BY <1>1, <2>1, <2>2 DEF TypeOK
<1> DEFINE S == Seq(Seq(Piece))
<1>3. <<>> \in S
  BY <1>1
<1> HIDE DEF S
<1>4. finished \in [Handle -> S] /\ delivered \in [Handle -> S]
  BY <1>3 DEF Init
<1>5. Types
  <2>1. toHost = <<>> /\ pdus = 0 /\ brokenOff = FALSE /\ orphaned = FALSE
    BY DEF Init
  <2>2. sending \in [Handle -> Sending]
    BY DEF Init, Sending
  <2>3. pdus \in 0 .. MaxPdus
    BY <2>1, BoundsAssumption
  <2> QED
    BY <1>1, <1>2, <1>4, <2>1, <2>2, <2>3 DEF Types, S
<1>6. Bookkeeping
  BY <1>1 DEF Bookkeeping, Init, Distinct
<1>7. PdusWholeAndInOrder
  <2>1. \A h \in Handle : finished[h] \in Seq(Seq(Piece)) /\ delivered[h] = finished[h]
    BY <1>1 DEF Init
  <2> QED
    BY <2>1, PrefixRefl DEF PdusWholeAndInOrder
<1>8. BuffersFreed /\ CrashesExplained /\ Tracked
  BY DEF Init, BuffersFreed, CrashesExplained, Tracked
<1> QED
  BY <1>5, <1>6, <1>7, <1>8 DEF IInv

LEMMA OpenStep ==
    ASSUME IInv, Open
    PROVE  IInv'
<1>1. Types /\ Bookkeeping /\ BuffersFreed
  BY DEF IInv
<1> DEFINE held == {i \in DOMAIN hci_connections : hci_connections[i].segment_buffer_recv # <<>>}
<1>2. /\ crash = "none" /\ ~opened /\ opens < MaxOpens
      /\ opened' = TRUE /\ opens' = opens + 1 /\ hci_connections' = <<>>
      /\ leaked' = leaked + Cardinality(held)
      /\ resetting' = TRUE /\ orphaned' = (links # <<>>)
      /\ finished' = [h \in Handle |-> <<>>] /\ delivered' = [h \in Handle |-> <<>>]
      /\ UNCHANGED <<crash, toHost, links, sending, pdus, brokenOff, linkups>>
  BY DEF Open
<1>3. toHost = <<>>
  BY <1>1, <1>2 DEF Bookkeeping
<1>4. opens \in Nat /\ opens + 1 \in 0 .. MaxOpens /\ leaked \in Nat
  BY <1>1, <1>2, BoundsAssumption DEF Types, TypeOK
<1>5. Cardinality(held) \in Nat
  <2>1. Len(hci_connections) \in Nat /\ DOMAIN hci_connections = 1 .. Len(hci_connections)
    BY <1>1, LenProperties DEF Types, TypeOK
  <2>2. held \subseteq DOMAIN hci_connections
    OBVIOUS
  <2> HIDE DEF held
  <2>3. IsFiniteSet(DOMAIN hci_connections)
    BY <2>1, FS_Interval
  <2>4. IsFiniteSet(held)
    BY <2>2, <2>3, FS_Subset
  <2> QED
    BY <2>4, FS_CardinalityType
<1>6. opens = 0 => leaked' = 0
  <2> SUFFICES ASSUME opens = 0 PROVE leaked' = 0
    OBVIOUS
  <2>1. hci_connections = <<>> /\ leaked = 0
    BY <1>1 DEF Bookkeeping
  <2>2. held = {}
    BY <2>1, EmptySeq
  <2>3. Cardinality(held) = 0
    BY <2>2, FS_EmptySet
  <2> QED
    BY <1>2, <2>1, <2>3
<1> HIDE DEF held
<1>7. leaked' \in Nat /\ (leaked' > 0 => opens' > 1)
  BY <1>2, <1>4, <1>5, <1>6
<1> DEFINE S == Seq(Seq(Piece))
<1>8. <<>> \in S /\ <<>> \in Seq(Connection)
  BY EmptySeq
<1> HIDE DEF S
<1>9. finished' \in [Handle -> S] /\ delivered' = finished'
  BY <1>2, <1>8
<1>10. orphaned' \in BOOLEAN
  BY <1>2, Zenon
<1>11. Types'
  <2>1. TypeOK'
    BY <1>1, <1>2, <1>4, <1>7, <1>8 DEF Types, TypeOK
  <2> QED
    BY <1>1, <1>2, <1>9, <1>10, <2>1 DEF Types, S
<1>12. Bookkeeping'
  BY <1>1, <1>2, <1>4 DEF Bookkeeping
<1>13. PdusWholeAndInOrder'
  <2>1. \A h \in Handle : finished'[h] \in Seq(Seq(Piece)) /\ delivered'[h] = finished'[h]
    BY <1>9 DEF S
  <2> QED
    BY <2>1, PrefixRefl DEF PdusWholeAndInOrder
<1>14. BuffersFreed' /\ CrashesExplained'
  BY <1>2, <1>7 DEF BuffersFreed, CrashesExplained
<1>15. CASE links = <<>>
  <2>1. finished' \in [Handle -> Seq(Seq(Piece))]
    BY <1>9 DEF S
  <2>2. \E s \in HostState : /\ s.order = <<>> /\ s.got = finished' /\ s.leaked = leaked'
                             /\ Nodes(s) = <<>>
                             /\ Reaches(s, <<>>, s)
    BY <1>7, <2>1, EmptyHost
  <2>3. PICK s \in HostState : /\ s.order = <<>> /\ s.got = finished' /\ s.leaked = leaked'
                               /\ Nodes(s) = <<>>
                               /\ Reaches(s, <<>>, s)
    BY <2>2
  <2>4. Shown(s)'
    BY <1>2, <1>9, <2>3, Zenon DEF Shown
  <2>5. Agreed(s)'
    <3>1. \A h \in Range(links') : FALSE
      BY <1>2, <1>15, EmptySeq DEF Range
    <3> QED
      BY <1>2, <1>7, <1>15, <2>3, <3>1 DEF Agreed
  <2>6. Mirrored'
    BY <1>2, <1>3, <2>3, <2>4, <2>5 DEF Mirrored
  <2> QED
    BY <1>2, <1>11, <1>12, <1>13, <1>14, <1>15, <2>6 DEF IInv, Tracked
<1>16. CASE links # <<>>
  <2>1. Orphans'
    BY <1>2, <1>3, <1>9, <1>16 DEF Orphans
  <2> QED
    BY <1>11, <1>12, <1>13, <1>14, <2>1 DEF IInv, Tracked
<1> QED
  BY <1>15, <1>16

LEMMA CloseStep ==
    ASSUME IInv, Close
    PROVE  IInv'
<1>1. Types /\ Bookkeeping /\ PdusWholeAndInOrder /\ BuffersFreed /\ CrashesExplained
  BY DEF IInv
<1>2. /\ opened /\ opened' = FALSE /\ toHost' = <<>>
      /\ UNCHANGED <<hostVars, peerVars, opens, orphaned, links, resetting, linkups>>
  BY DEF Close
<1>3. <<>> \in Seq(Packet) /\ Len(<<>>) = 0 /\ MaxQueue \in Nat
  BY EmptySeq, BoundsAssumption
<1>4. Types'
  <2>1. toHost' \in Seq(Packet) /\ Len(toHost') = 0
    BY <1>2, <1>3
  <2>2. Len(toHost') <= MaxQueue
    BY <1>3, <2>1
  <2> QED
    BY <1>1, <1>2, <2>1, <2>2 DEF Types, TypeOK, hostVars, peerVars
<1>5. Bookkeeping' /\ Tracked'
  BY <1>1, <1>2 DEF Bookkeeping, Tracked, hostVars, peerVars
<1>6. PdusWholeAndInOrder' /\ BuffersFreed' /\ CrashesExplained'
  BY <1>1, <1>2 DEF PdusWholeAndInOrder, BuffersFreed, CrashesExplained, hostVars, peerVars
<1> QED
  BY <1>4, <1>5, <1>6 DEF IInv

LEMMA ResetStep ==
    ASSUME IInv, crash = "none", ControllerResets
    PROVE  IInv'
<1>1. Types /\ Bookkeeping /\ Tracked /\ PdusWholeAndInOrder /\ BuffersFreed /\ CrashesExplained
  BY DEF IInv
<1>2. /\ resetting /\ opened /\ resetting' = FALSE /\ links' = <<>>
      /\ sending' = [h \in Handle |-> NoPdu]
      /\ UNCHANGED <<hostVars, portVars, toHost, finished, pdus, brokenOff, linkups>>
  BY DEF ControllerResets
<1>3. <<>> \in Seq(Handle) /\ DOMAIN <<>> = {}
  BY EmptySeq
<1>4. Types'
  BY <1>1, <1>2, <1>3 DEF Types, TypeOK, Sending, hostVars, portVars
<1>5. Bookkeeping'
  BY <1>1, <1>2, <1>3 DEF Bookkeeping, Distinct, hostVars, portVars
<1>6. PdusWholeAndInOrder' /\ BuffersFreed' /\ CrashesExplained'
  BY <1>1, <1>2 DEF PdusWholeAndInOrder, BuffersFreed, CrashesExplained, hostVars, portVars
<1>7. \A h \in Range(links') : FALSE
  BY <1>2, <1>3 DEF Range
<1>8. CASE Doomed
  <2>1. Doomed'
    BY <1>2, <1>8 DEF Doomed, hostVars, portVars
  <2> QED
    BY <1>4, <1>5, <1>6, <2>1 DEF IInv, Tracked
<1>9. CASE Orphans
  <2>1. /\ hci_connections = <<>> /\ toHost = <<>> /\ delivered = finished
        /\ finished \in [Handle -> Seq(Seq(Piece))] /\ leaked \in Nat
    BY <1>1, <1>9 DEF Orphans, Types, TypeOK
  <2>2. \E s \in HostState : /\ s.order = <<>> /\ s.got = finished /\ s.leaked = leaked
                             /\ Nodes(s) = <<>>
                             /\ Reaches(s, <<>>, s)
    <3>1. finished \in [Handle -> Seq(Seq(Piece))]
      BY <2>1
    <3>2. leaked \in Nat
      BY <2>1
    <3> QED
      BY <3>1, <3>2, EmptyHost
  <2>3. PICK s \in HostState : /\ s.order = <<>> /\ s.got = finished /\ s.leaked = leaked
                               /\ Nodes(s) = <<>>
                               /\ Reaches(s, <<>>, s)
    BY <2>2
  <2>4. Shown(s)'
    BY <1>2, <2>1, <2>3, Zenon DEF Shown, hostVars
  <2>5. Agreed(s)'
    BY <1>1, <1>2, <1>7, <2>3 DEF Agreed, BuffersFreed, portVars
  <2>6. Mirrored'
    BY <1>2, <2>1, <2>3, <2>4, <2>5 DEF Mirrored
  <2> QED
    BY <1>2, <1>4, <1>5, <1>6, <2>6 DEF IInv, Tracked
<1>10. CASE (resetting => links = <<>>) /\ Mirrored
  <2>1. PICK s \in HostState, t \in HostState :
          Shown(s) /\ Reaches(s, toHost, t) /\ Agreed(t)
    BY <1>10 DEF Mirrored
  <2>2. Agreed(t)'
    BY <1>2, <1>7, <1>10, <2>1 DEF Agreed, portVars
  <2>3. Shown(s)'
    BY <1>2, <2>1 DEF Shown, hostVars
  <2>4. Mirrored'
    BY <1>2, <2>1, <2>2, <2>3 DEF Mirrored
  <2> QED
    BY <1>2, <1>4, <1>5, <1>6, <2>4 DEF IInv, Tracked
<1> QED
  BY <1>1, <1>2, <1>8, <1>9, <1>10 DEF Tracked

LEMMA Inductive == IInv /\ [Next]_vars => IInv'
<1> SUFFICES ASSUME IInv, [Next]_vars PROVE IInv'
  OBVIOUS
<1>1. CASE Open
  BY <1>1, OpenStep
<1>2. CASE Close
  BY <1>2, CloseStep
<1>3. CASE HostReceives
  BY <1>3, ReceiveStep
<1>4. CASE ControllerSends
  <2>1. crash = "none"
    BY <1>4 DEF ControllerSends
  <2>2. CASE ControllerResets
    BY <2>1, <2>2, ResetStep
  <2>3. CASE \E h \in Handle : Sends(h)
    BY <2>1, <2>3, SendStep
  <2> QED
    BY <1>4, <2>2, <2>3 DEF ControllerSends, Sends
<1>5. CASE UNCHANGED vars
  <2>1. UNCHANGED <<hci_connections, crash, delivered, leaked, sending, finished, pdus, brokenOff,
                    opened, opens, orphaned, toHost, links, resetting, linkups>>
    BY <1>5 DEF vars, hostVars, peerVars, portVars
  <2>2. Types' /\ Bookkeeping'
    BY <2>1 DEF IInv, Types, TypeOK, Bookkeeping
  <2>3. Tracked'
    BY <2>1 DEF IInv, Tracked, Doomed, Orphans, Mirrored, Shown, Agreed
  <2>4. PdusWholeAndInOrder' /\ BuffersFreed' /\ CrashesExplained'
    BY <2>1 DEF IInv, PdusWholeAndInOrder, BuffersFreed, CrashesExplained
  <2> QED
    BY <2>2, <2>3, <2>4 DEF IInv
<1> QED
  BY <1>1, <1>2, <1>3, <1>4, <1>5 DEF Next

LEMMA Invariant == Spec => []IInv
  BY InitIInv, Inductive, PTL DEF Spec

\* The connection list holds nodes, and each node a handle, lengths within a PDU and a buffer.
THEOREM TypeCorrect == Spec => []TypeOK
<1>1. IInv => TypeOK
  BY DEF IInv, Types
<1> QED
  BY <1>1, Invariant, PTL

\* L2CAP gets a link's PDUs whole, once and in the order sent, whatever the number of links and
\* pieces, and also behind a PDU that was broken off.
THEOREM PdusWhole == Spec => []PdusWholeAndInOrder
<1>1. IInv => PdusWholeAndInOrder
  BY DEF IInv
<1> QED
  BY <1>1, Invariant, PTL

\* With nothing under way, hci_connections holds the controller's links, the newest first.
THEOREM ListFollowsLinks == Spec => []ListMirrorsLinks
<1>1. IInv => ListMirrorsLinks
  <2> SUFFICES ASSUME IInv, opened, toHost = <<>>, ~resetting, crash = "none"
               PROVE  [i \in DOMAIN hci_connections |-> hci_connections[i].connect_handle] = links
    BY DEF ListMirrorsLinks
  <2>1. Mirrored
    BY DEF IInv, Tracked, Doomed, Orphans
  <2>2. PICK s \in HostState, t \in HostState :
          Shown(s) /\ Reaches(s, <<>>, t) /\ Agreed(t)
    BY <2>1 DEF Mirrored
  <2>3. s = t
    BY <2>2, ReachesEnd
  <2>4. s.order = links /\ links \in Seq(Handle)
    BY <2>2, <2>3 DEF Agreed, IInv, Types, TypeOK
  <2>5. DOMAIN hci_connections = 1 .. Len(links) /\ DOMAIN links = 1 .. Len(links)
        /\ \A i \in 1 .. Len(links) : hci_connections[i].connect_handle = links[i]
    BY <2>2, <2>4, Listed, LenProperties
  <2>6. links = [i \in DOMAIN links |-> links[i]]
    BY <2>4
  <2> QED
    BY <2>5, <2>6
<1> QED
  BY <1>1, Invariant, PTL

\* hci.cpp follows a null pointer only when the oldest of several links is lost, or when a packet
\* arrives on a link that outlived an opening of the port; never for want of a buffer.
THEOREM NullPointers == Spec => []CrashesExplained
<1>1. IInv => CrashesExplained
  BY DEF IInv
<1> QED
  BY <1>1, Invariant, PTL

\* A reassembly buffer is lost only behind a PDU broken off or an opening of the port.
THEOREM BuffersAccounted == Spec => []BuffersFreed
<1>1. IInv => BuffersFreed
  BY DEF IInv
<1> QED
  BY <1>1, Invariant, PTL
=============================================================================
