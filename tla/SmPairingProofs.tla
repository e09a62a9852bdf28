-------------------------- MODULE SmPairingProofs --------------------------
(***************************************************************************)
(* For every number of peers, links, pairings and restarts, and whatever    *)
(* order events, packets and dialogs come in: a stored key of a secure      *)
(* connection was computed by a peer with the same method, one event        *)
(* changes what is stored of at most one peer, and the program fails only   *)
(* after a pairing was cut off. First, what the functions on the file of    *)
(* bonds promise each other, for every file, address and entry.             *)
(***************************************************************************)
EXTENDS SmPairing, WellFoundedInduction, SequenceTheorems, TLAPS

-----------------------------------------------------------------------------
(* The file of bonds: a bond just stored is the one found, and storing or   *)
(* deleting a bond changes what is found under no other address.            *)

\* Some element of a set of naturals is the least.
LEMMA LeastExists ==
    ASSUME NEW T, T \subseteq Nat, T # {}
    PROVE  \E i \in T : \A j \in T : i <= j
<1> DEFINE Less == OpToRel(<, Nat)
<1>1. \A a, b \in Nat : a < b => <<a, b>> \in Less
  BY DEF OpToRel
<1>2. IsWellFoundedOn(Less, Nat)
  BY NatLessThanWellFounded
<1> HIDE DEF Less
<1>3. PICK i \in T : \A j \in T : ~(<<j, i>> \in Less)
  BY <1>2, WFMin
<1>4. ASSUME NEW j \in T PROVE i <= j
  <2>1. i \in Nat /\ j \in Nat
    OBVIOUS
  <2>2. ~(j < i)
    BY <1>1, <1>3, <2>1
  <2> QED
    BY <2>1, <2>2
<1> QED
  BY <1>4

\* The search has a place where it stops: of the entries that match there is a first one.
LEMMA FirstMatchIsFirst ==
    ASSUME NEW S, NEW file \in Seq(S), NEW addr, Found(file, addr)
    PROVE  /\ FirstMatch(file, addr) \in DOMAIN file
           /\ Matches(file[FirstMatch(file, addr)], addr)
           /\ \A j \in DOMAIN file : Matches(file[j], addr) => FirstMatch(file, addr) <= j
<1> DEFINE T == {i \in DOMAIN file : Matches(file[i], addr)}
           First(i) == /\ Matches(file[i], addr)
                       /\ \A j \in DOMAIN file : Matches(file[j], addr) => i <= j
<1>1. T \subseteq Nat /\ T # {}
  BY DEF Found
<1>2. PICK i \in T : \A j \in T : i <= j
  <2> HIDE DEF T
  <2> QED
    BY <1>1, LeastExists
<1>3. i \in DOMAIN file /\ First(i)
  BY <1>2
<1>4. FirstMatch(file, addr) = CHOOSE k \in DOMAIN file : First(k)
  BY DEF FirstMatch
<1> HIDE DEF First
<1>5. FirstMatch(file, addr) \in DOMAIN file /\ First(FirstMatch(file, addr))
  BY <1>3, <1>4
<1> QED
  BY <1>5 DEF First

\* Whatever is first and matches is where the search stops.
LEMMA FirstMatchUnique ==
    ASSUME NEW S, NEW file \in Seq(S), NEW addr, NEW i \in DOMAIN file,
           Matches(file[i], addr), \A j \in DOMAIN file : Matches(file[j], addr) => i <= j
    PROVE  FirstMatch(file, addr) = i
<1>1. Found(file, addr)
  BY DEF Found
<1>2. /\ FirstMatch(file, addr) \in DOMAIN file
      /\ FirstMatch(file, addr) <= i /\ i <= FirstMatch(file, addr)
  BY <1>1, FirstMatchIsFirst
<1> QED
  BY <1>2

Replaced(file, k, entry) == [file EXCEPT ![k] = entry]

\* An entry written over another changes nothing for an address that neither of them matches.
LEMMA ReplacedElsewhere ==
    ASSUME NEW S, NEW file \in Seq(S), NEW k \in DOMAIN file, NEW entry \in S, NEW other,
           ~Matches(file[k], other), ~Matches(entry, other),
           NEW new, new = Replaced(file, k, entry)
    PROVE  /\ Found(new, other) <=> Found(file, other)
           /\ Found(file, other) => __sm_device_db_entry_get(new, other) = __sm_device_db_entry_get(file, other)
<1>1. /\ new \in Seq(S) /\ DOMAIN new = DOMAIN file
      /\ \A j \in DOMAIN file : new[j] = IF j = k THEN entry ELSE file[j]
  BY DEF Replaced
<1>2. \A j \in DOMAIN file : Matches(new[j], other) <=> Matches(file[j], other)
  BY <1>1
<1>3. Found(new, other) <=> Found(file, other)
  BY <1>1, <1>2 DEF Found
<1>4. ASSUME Found(file, other)
      PROVE  __sm_device_db_entry_get(new, other) = __sm_device_db_entry_get(file, other)
  <2> DEFINE i == FirstMatch(file, other)
  <2>1. /\ i \in DOMAIN file /\ Matches(file[i], other)
        /\ \A j \in DOMAIN file : Matches(file[j], other) => i <= j
    BY <1>4, FirstMatchIsFirst
  <2>2. FirstMatch(new, other) = i
    <3> HIDE DEF i
    <3>1. /\ new \in Seq(S) /\ i \in DOMAIN new /\ Matches(new[i], other)
          /\ \A j \in DOMAIN new : Matches(new[j], other) => i <= j
      BY <1>1, <1>2, <2>1
    <3> QED
      BY <3>1, FirstMatchUnique
  <2>3. new[i] = file[i]
    BY <1>1, <2>1
  <2> QED
    BY <2>2, <2>3 DEF __sm_device_db_entry_get
<1> QED
  BY <1>3, <1>4

\* The same of an entry added at the end.
LEMMA AppendedElsewhere ==
    ASSUME NEW S, NEW file \in Seq(S), NEW entry \in S, NEW other, ~Matches(entry, other),
           NEW new, new = Append(file, entry)
    PROVE  /\ Found(new, other) <=> Found(file, other)
           /\ Found(file, other) => __sm_device_db_entry_get(new, other) = __sm_device_db_entry_get(file, other)
<1>1. /\ new \in Seq(S) /\ DOMAIN new = 1 .. Len(file) + 1 /\ DOMAIN file = 1 .. Len(file)
      /\ Len(file) \in Nat /\ new[Len(file) + 1] = entry
      /\ \A j \in DOMAIN file : new[j] = file[j]
  OBVIOUS
<1>2. \A j \in DOMAIN new : Matches(new[j], other) <=> (j \in DOMAIN file /\ Matches(file[j], other))
  BY <1>1
<1>3. Found(new, other) <=> Found(file, other)
  BY <1>1, <1>2 DEF Found
<1>4. ASSUME Found(file, other)
      PROVE  __sm_device_db_entry_get(new, other) = __sm_device_db_entry_get(file, other)
  <2> DEFINE i == FirstMatch(file, other)
  <2>1. /\ i \in DOMAIN file /\ Matches(file[i], other)
        /\ \A j \in DOMAIN file : Matches(file[j], other) => i <= j
    BY <1>4, FirstMatchIsFirst
  <2>2. FirstMatch(new, other) = i
    <3> HIDE DEF i
    <3>1. /\ new \in Seq(S) /\ i \in DOMAIN new /\ Matches(new[i], other)
          /\ \A j \in DOMAIN new : Matches(new[j], other) => i <= j
      BY <1>1, <1>2, <2>1
    <3> QED
      BY <3>1, FirstMatchUnique
  <2>3. new[i] = file[i]
    BY <1>1, <2>1
  <2> QED
    BY <2>2, <2>3 DEF __sm_device_db_entry_get
<1> QED
  BY <1>3, <1>4
-----------------------------------------------------------------------------
\* A bond just stored is the one a lookup of its address finds, whether it was added or took
\* the place of an earlier one, and whatever else the file holds
\* (__sm_recv_pairing_random and __sm_recv_pairing_dhkey_check add and, refused, update).
THEOREM StoredIsFound ==
    ASSUME NEW S, NEW file \in Seq(S), NEW entry \in S, NEW addr, Matches(entry, addr)
    PROVE  /\ Found(Store(file, addr, entry), addr)
           /\ __sm_device_db_entry_get(Store(file, addr, entry), addr) = entry
<1> DEFINE new == Store(file, addr, entry)
<1>1. CASE Found(file, addr)
  <2> DEFINE i == FirstMatch(file, addr)
  <2>1. /\ i \in DOMAIN file
        /\ \A j \in DOMAIN file : Matches(file[j], addr) => i <= j
    BY <1>1, FirstMatchIsFirst
  <2>2. new = [file EXCEPT ![i] = entry]
    BY <1>1 DEF Store, __sm_device_db_entry_update
  <2> HIDE DEF i, new
  <2>3. /\ new \in Seq(S) /\ DOMAIN new = DOMAIN file /\ new[i] = entry
        /\ \A j \in DOMAIN file : j # i => new[j] = file[j]
    BY <2>1, <2>2
  <2>4. \A j \in DOMAIN new : Matches(new[j], addr) => i <= j
    BY <2>1, <2>3
  <2>5. FirstMatch(new, addr) = i
    BY <2>1, <2>3, <2>4, FirstMatchUnique
  <2> QED
    BY <2>1, <2>3, <2>5 DEF Found, __sm_device_db_entry_get, new
<1>2. CASE ~Found(file, addr)
  <2>1. new = Append(file, entry)
    BY <1>2 DEF Store, __sm_device_db_entry_add
  <2> DEFINE n == Len(file) + 1
  <2> HIDE DEF new
  <2>2. /\ new \in Seq(S) /\ DOMAIN new = 1 .. n /\ n \in DOMAIN new /\ n \in Nat
        /\ new[n] = entry /\ DOMAIN file = 1 .. Len(file) /\ Len(file) \in Nat
        /\ \A j \in DOMAIN file : new[j] = file[j]
    BY <2>1
  <2>3. \A j \in DOMAIN new : Matches(new[j], addr) => n <= j
    BY <1>2, <2>2 DEF Found
  <2> HIDE DEF n
  <2>4. FirstMatch(new, addr) = n
    BY <2>2, <2>3, FirstMatchUnique
  <2> QED
    BY <2>2, <2>4 DEF Found, __sm_device_db_entry_get, new
<1> QED
  BY <1>1, <1>2

\* Storing a bond leaves what is found under any other address as it was: under an address that
\* neither the new entry nor the one it replaces matches (the premise SmPairing's OthersUntouched
\* checks for the entries of two peers).
THEOREM StoreElsewhere ==
    ASSUME NEW S, NEW file \in Seq(S), NEW entry \in S, NEW addr, NEW other,
           ~Matches(entry, other),
           Found(file, addr) => ~Matches(__sm_device_db_entry_get(file, addr), other)
    PROVE  /\ Found(Store(file, addr, entry), other) <=> Found(file, other)
           /\ Found(file, other) => __sm_device_db_entry_get(Store(file, addr, entry), other)
                                  = __sm_device_db_entry_get(file, other)
<1>1. CASE Found(file, addr)
  <2>1. FirstMatch(file, addr) \in DOMAIN file /\ ~Matches(file[FirstMatch(file, addr)], other)
    BY <1>1, FirstMatchIsFirst DEF __sm_device_db_entry_get
  <2>2. Store(file, addr, entry) = Replaced(file, FirstMatch(file, addr), entry)
    BY <1>1 DEF Store, __sm_device_db_entry_update, Replaced
  <2>3. ASSUME NEW k \in DOMAIN file, k = FirstMatch(file, addr),
               NEW new, new = Replaced(file, k, entry)
        PROVE  /\ Found(new, other) <=> Found(file, other)
               /\ Found(file, other) => __sm_device_db_entry_get(new, other)
                                      = __sm_device_db_entry_get(file, other)
    <3>1. ~Matches(file[k], other)
      BY <2>1, <2>3
    <3> QED
      BY <2>3, <3>1, ReplacedElsewhere
  <2> QED
    BY <2>1, <2>2, <2>3
<1>2. CASE ~Found(file, addr)
  <2>1. Store(file, addr, entry) = Append(file, entry)
    BY <1>2 DEF Store, __sm_device_db_entry_add
  <2>2. ASSUME NEW new, new = Append(file, entry)
        PROVE  /\ Found(new, other) <=> Found(file, other)
               /\ Found(file, other) => __sm_device_db_entry_get(new, other)
                                      = __sm_device_db_entry_get(file, other)
    <3>1. ~Matches(entry, other) /\ entry \in S /\ file \in Seq(S)
      OBVIOUS
    <3> QED
      BY <2>2, <3>1, AppendedElsewhere, ZenonT(30)
  <2> QED
    BY <2>1, <2>2
<1> QED
  BY <1>1, <1>2

\* Deleting a bond leaves what is found under any other address as it was: under an address that
\* neither the deleted entry nor a zeroed one matches
\* (sm_recv_evt_encryption_change deletes the bond of a failed encryption).
THEOREM DeleteElsewhere ==
    ASSUME NEW S, NEW file \in Seq(S), ZeroEntry \in S, NEW addr, NEW other,
           ~Matches(ZeroEntry, other),
           Found(file, addr) => ~Matches(__sm_device_db_entry_get(file, addr), other)
    PROVE  /\ Found(__sm_device_db_entry_delete(file, addr), other) <=> Found(file, other)
           /\ Found(file, other) => __sm_device_db_entry_get(__sm_device_db_entry_delete(file, addr), other)
                                  = __sm_device_db_entry_get(file, other)
<1>1. CASE Found(file, addr)
  <2>1. FirstMatch(file, addr) \in DOMAIN file /\ ~Matches(file[FirstMatch(file, addr)], other)
    BY <1>1, FirstMatchIsFirst DEF __sm_device_db_entry_get
  <2>2. __sm_device_db_entry_delete(file, addr) = Replaced(file, FirstMatch(file, addr), ZeroEntry)
    BY <1>1 DEF __sm_device_db_entry_delete, Replaced
  <2>3. ASSUME NEW k \in DOMAIN file, k = FirstMatch(file, addr),
               NEW new, new = Replaced(file, k, ZeroEntry)
        PROVE  /\ Found(new, other) <=> Found(file, other)
               /\ Found(file, other) => __sm_device_db_entry_get(new, other)
                                      = __sm_device_db_entry_get(file, other)
    <3>1. ~Matches(file[k], other)
      BY <2>1, <2>3
    <3> QED
      BY <2>3, <3>1, ReplacedElsewhere
  <2> QED
    BY <2>1, <2>2, <2>3
<1>2. CASE ~Found(file, addr)
  BY <1>2 DEF __sm_device_db_entry_delete
<1> QED
  BY <1>1, <1>2

-----------------------------------------------------------------------------
(* The inductive invariant.                                                 *)

\* What a sequence is, whatever it holds.
Sequence(s) == s \in Seq({s[i] : i \in DOMAIN s})

ConnFields ==
    {"link", "addr", "req", "responded", "method", "sc", "pk", "confirm", "dhkey",
     "local_random", "remote_random", "tk", "passkey_num", "passkey_index", "passkey_r",
     "is_encrypted", "is_authenticated", "received", "remote_irk", "remote_addr",
     "remote_csrk", "draws"}
PeerFields ==
    {"step", "pairing", "req", "method", "tk", "random", "host_random", "confirm", "round",
     "ltk", "encrypted", "waits", "draws"}
EntryFields ==
    {"remote_addr", "remote_irk", "local_ltk", "local_csrk", "remote_csrk", "is_encrypted",
     "is_authenticated", "is_secure_connection", "pairing_method"}

\* An entry holds the identity of one peer, or none yet.
Owned(entry, p) ==
    /\ entry.remote_addr \in AddressesOf(p) \cup {ZeroAddr}
    /\ entry.remote_irk \in {ZeroKey, Irk(p)}

EntryOK(entry, comp) ==
    /\ DOMAIN entry = EntryFields
    /\ \E p \in Peer : Owned(entry, p)
    /\ entry.is_secure_connection =>
          [ltk |-> entry.local_ltk, method |-> entry.pairing_method] \in comp

DbOK(d, comp) == Sequence(d) /\ \A i \in DOMAIN d : EntryOK(d[i], comp)

\* A connection keeps the keys of the peer whose address it has, and its method is that of
\* the request it answered.
KeysOf(c, p) ==
    /\ c.addr \in AddressesOf(p)
    /\ c.remote_irk \in {ZeroKey, Irk(p)}
    /\ c.remote_addr \in {ZeroAddr, Public(p)}
ConnOK(c) ==
    /\ DOMAIN c = ConnFields
    /\ \E p \in Peer : KeysOf(c, p)
    /\ c.sc => IsSecureConnection(c.req) /\ c.method = __sm_get_pairing_method(c.req)

\* A peer knows the method from its response on.
PeerOK(st) ==
    /\ DOMAIN st = PeerFields
    /\ st.step = "resp" => st.req \in Offers
    /\ st.step \in {"pk", "enter", "begin", "confirm", "random", "compare", "check"} =>
          st.req \in Offers /\ st.method = PeerMethod(st.req)
    /\ st.step = "compare" => IsSecureConnection(st.req) /\ st.method = NC

\* A check a peer sent, of a key it computed.
Checked(value, comp) ==
    \E w, n1, n2, r, a : \E req \in Offers :
        /\ IsSecureConnection(req)
        /\ value = __sm_f6(__sm_f5(w, n1, n2, a, LocalAddr).mackey, n1, n2, r, iocapOf(req),
                           a, LocalAddr)
        /\ [ltk |-> __sm_f5(w, n1, n2, a, LocalAddr).ltk, method |-> PeerMethod(req)] \in comp

\* a packet of peer p
MsgOK(msg, p, comp) ==
    /\ msg.op = "identity_info" => msg.value = Irk(p)
    /\ msg.op = "identity_address" => msg.value = Public(p)
    /\ msg.op = "dhkey_check" => Checked(msg.value, comp)

\* the connection under h begins or ends with e
Turns(e, h) == e.type \in {"conn_complete", "disconn_complete"} /\ e.h = h

\* When the host comes to place i of its queue q, having the connections cs now, it holds a
\* connection with address a under h.
Under(q, cs, i, h, a) ==
    \/ \E j \in 1 .. i - 1 :
          /\ q[j].type = "conn_complete" /\ q[j].h = h /\ q[j].link.addr = a
          /\ \A k \in j + 1 .. i - 1 : ~Turns(q[k], h)
    \/ /\ \A k \in 1 .. i - 1 : ~Turns(q[k], h)
       /\ cs[h] # None /\ cs[h].addr = a

\* Packets and encryption events belong to a connection the host has when it comes to them.
Within == {"sm", "ltk_req", "encryption_change"}
EventOK(q, cs, comp, i) ==
    /\ q[i].type \in Within =>
          /\ q[i].h \in Handle
          /\ \E p \in Peer : \E a \in AddressesOf(p) :
                /\ Under(q, cs, i, q[i].h, a)
                /\ q[i].type = "sm" => MsgOK(q[i].msg, p, comp)
    /\ q[i].type = "conn_complete" => \E p \in Peer : q[i].link.addr \in AddressesOf(p)
QueueOK(q, cs, comp) == Sequence(q) /\ \A i \in DOMAIN q : EventOK(q, cs, comp, i)

\* Who is connected is who the host will hold when it has handled what is in its queue.
LinkOK(q, cs, l, h) ==
    /\ l.peer \in Peer /\ l.addr \in AddressesOf(l.peer)
    /\ Under(q, cs, Len(q) + 1, h, l.addr)
LinksOK(q, cs, lk) == \A h \in Handle : lk[h] # None => LinkOK(q, cs, lk[h], h)

Shapes == DOMAIN conn = Handle /\ DOMAIN link = Handle /\ DOMAIN air = Handle /\ DOMAIN peer = Handle
ConnsOK  == \A h \in Handle : conn[h] # None => ConnOK(conn[h])
PeersOK  == \A h \in Handle : PeerOK(peer[h])
Silent   == \A h \in Handle : link[h] = None => peer[h].step = "idle" /\ air[h] = <<>>
DialogOK == dialog # None /\ dialog.h \in Handle => conn[dialog.h] # None
CmdOK    == cmd # None => cmd.h \in Handle

BondsKept ==
    /\ Shapes /\ ConnsOK /\ PeersOK /\ Silent /\ DialogOK /\ CmdOK
    /\ QueueOK(toHost, conn, computed) /\ LinksOK(toHost, conn, link)
    /\ DbOK(db, computed)

-----------------------------------------------------------------------------
(* Sequences, whatever they hold.                                           *)

LEMMA SequenceOf == ASSUME NEW S, NEW s \in Seq(S) PROVE Sequence(s)
<1> DEFINE T == {s[i] : i \in DOMAIN s}
<1>1. Len(s) \in Nat /\ s \in [1 .. Len(s) -> S] /\ DOMAIN s = 1 .. Len(s)
  BY LenProperties
<1>2. s \in [1 .. Len(s) -> T]
  BY <1>1
<1>3. s \in Seq(T)
  <2> HIDE DEF T
  <2> QED
    BY <1>1, <1>2
<1> QED
  BY <1>3 DEF Sequence

LEMMA SequenceFacts ==
    ASSUME NEW s, Sequence(s)
    PROVE  Len(s) \in Nat /\ DOMAIN s = 1 .. Len(s) /\ (s = <<>> <=> Len(s) = 0)
  BY DEF Sequence

LEMMA ConcatFacts ==
    ASSUME NEW s, Sequence(s), NEW t, Sequence(t)
    PROVE  /\ Sequence(s \o t) /\ Len(s \o t) = Len(s) + Len(t) /\ Len(s) \in Nat /\ Len(t) \in Nat
           /\ DOMAIN (s \o t) = 1 .. Len(s) + Len(t)
           /\ \A i \in 1 .. Len(s) : (s \o t)[i] = s[i]
           /\ \A i \in 1 .. Len(t) : (s \o t)[Len(s) + i] = t[i]
<1> DEFINE S == {s[i] : i \in DOMAIN s} \cup {t[i] : i \in DOMAIN t}
<1>1. s \in Seq(S) /\ t \in Seq(S)
  BY SeqMonotonic DEF Sequence
<1> HIDE DEF S
<1>2. /\ s \o t \in Seq(S) /\ Len(s \o t) = Len(s) + Len(t) /\ Len(s) \in Nat /\ Len(t) \in Nat
      /\ \A i \in 1 .. Len(s) + Len(t) :
            (s \o t)[i] = IF i <= Len(s) THEN s[i] ELSE t[i - Len(s)]
  BY <1>1, ConcatProperties
<1>3. Sequence(s \o t)
  BY <1>2, SequenceOf
<1>4. DOMAIN (s \o t) = 1 .. Len(s) + Len(t)
  BY <1>2
<1>5. \A i \in 1 .. Len(t) : (s \o t)[Len(s) + i] = t[i]
  BY <1>2
<1>6. \A i \in 1 .. Len(s) : (s \o t)[i] = s[i]
  BY <1>2
<1> QED
  BY <1>2, <1>3, <1>4, <1>5, <1>6

LEMMA AppendOne ==
    ASSUME NEW s, Sequence(s), NEW x
    PROVE  Append(s, x) = s \o <<x>> /\ Sequence(<<x>>) /\ Len(<<x>>) = 1
<1> DEFINE S == {s[i] : i \in DOMAIN s} \cup {x}
<1>1. s \in Seq(S) /\ x \in S
  BY SeqMonotonic DEF Sequence
<1>2. <<x>> \in Seq(S) /\ Len(<<x>>) = 1
  BY <1>1
<1>3. Append(s, x) = s \o <<x>>
  <2> HIDE DEF S
  <2> QED
    BY <1>1, AppendIsConcat
<1> QED
  BY <1>2, <1>3, SequenceOf

LEMMA TailFacts ==
    ASSUME NEW s, Sequence(s), s # <<>>
    PROVE  /\ Sequence(Tail(s)) /\ Len(Tail(s)) = Len(s) - 1 /\ Len(s) \in Nat \ {0}
           /\ DOMAIN Tail(s) = 1 .. Len(s) - 1 /\ DOMAIN s = 1 .. Len(s)
           /\ \A i \in 1 .. Len(s) - 1 : Tail(s)[i] = s[i + 1]
           /\ Head(s) = s[1]
<1> DEFINE S == {s[i] : i \in DOMAIN s}
<1>1. s \in Seq(S)
  BY DEF Sequence
<1> HIDE DEF S
<1>2. /\ Tail(s) \in Seq(S) /\ Len(Tail(s)) = Len(s) - 1 /\ Len(s) \in Nat \ {0}
      /\ \A i \in 1 .. Len(s) - 1 : Tail(s)[i] = s[i + 1]
      /\ DOMAIN s = 1 .. Len(s) /\ Head(s) = s[1]
  BY <1>1, HeadTailProperties
<1>3. Sequence(Tail(s))
  BY <1>2, SequenceOf
<1>4. DOMAIN Tail(s) = 1 .. Len(s) - 1
  BY <1>2
<1> QED
  BY <1>2, <1>3, <1>4

LEMMA MappedSequence ==
    ASSUME NEW s, NEW n \in Nat, DOMAIN s = 1 .. n, s = [i \in 1 .. n |-> s[i]]
    PROVE  Sequence(s) /\ Len(s) = n
<1>1. s \in [1 .. n -> {s[i] : i \in DOMAIN s}]
  OBVIOUS
<1> QED
  BY <1>1 DEF Sequence

-----------------------------------------------------------------------------
(* The queue of events: what is added at its end and taken from its front.  *)

\* The connections the host has, and their addresses, stay.
SameHolders(cs, cs2) ==
    \A h \in Handle : /\ cs2[h] = None <=> cs[h] = None
                      /\ cs[h] # None => cs2[h].addr = cs[h].addr

\* e is handled: it makes or ends the connection it is about and no other.
Taken(e, cs, cs2) ==
    \A h \in Handle :
        /\ Turns(e, h) /\ e.type = "conn_complete" => cs2[h] # None /\ cs2[h].addr = e.link.addr
        /\ Turns(e, h) /\ e.type # "conn_complete" => cs2[h] = None
        /\ ~Turns(e, h) => /\ cs2[h] = None <=> cs[h] = None
                           /\ cs[h] # None => cs2[h].addr = cs[h].addr

\* Events of the link under h, packets of peer p among them.
Events(t, h, p, comp) ==
    /\ Sequence(t)
    /\ \A i \in DOMAIN t :
          /\ t[i].type \notin {"conn_complete", "disconn_complete"}
          /\ t[i].type \in Within => t[i].h = h
          /\ t[i].type = "sm" => MsgOK(t[i].msg, p, comp)

LEMMA MsgKept ==
    ASSUME NEW m, NEW p, NEW comp, NEW comp2, comp \subseteq comp2, MsgOK(m, p, comp)
    PROVE  MsgOK(m, p, comp2)
<1>1. \A value : Checked(value, comp) => Checked(value, comp2)
  BY DEF Checked
<1> QED
  BY <1>1 DEF MsgOK

\* What the host will hold at a place is not changed by what comes behind it.
LEMMA UnderGrows ==
    ASSUME NEW q, NEW q2, NEW cs, NEW h, NEW a, NEW i \in Nat, NEW j \in Nat, i >= 1, i <= j,
           \A k \in 1 .. i - 1 : q2[k] = q[k],
           \A k \in i .. j - 1 : ~Turns(q2[k], h),
           Under(q, cs, i, h, a)
    PROVE  Under(q2, cs, j, h, a)
<1>1. CASE \E m \in 1 .. i - 1 :
             /\ q[m].type = "conn_complete" /\ q[m].h = h /\ q[m].link.addr = a
             /\ \A k \in m + 1 .. i - 1 : ~Turns(q[k], h)
  <2>1. PICK m \in 1 .. i - 1 :
          /\ q[m].type = "conn_complete" /\ q[m].h = h /\ q[m].link.addr = a
          /\ \A k \in m + 1 .. i - 1 : ~Turns(q[k], h)
    BY <1>1
  <2>2. m \in 1 .. j - 1 /\ q2[m] = q[m]
    OBVIOUS
  <2>3. ASSUME NEW k \in m + 1 .. j - 1 PROVE ~Turns(q2[k], h)
    <3>1. (k \in m + 1 .. i - 1 /\ q2[k] = q[k]) \/ k \in i .. j - 1
      OBVIOUS
    <3> QED
      BY <2>1, <3>1
  <2> QED
    BY <2>1, <2>2, <2>3 DEF Under
<1>2. CASE (\A k \in 1 .. i - 1 : ~Turns(q[k], h)) /\ cs[h] # None /\ cs[h].addr = a
  <2>1. ASSUME NEW k \in 1 .. j - 1 PROVE ~Turns(q2[k], h)
    <3>1. (k \in 1 .. i - 1 /\ q2[k] = q[k]) \/ k \in i .. j - 1
      OBVIOUS
    <3> QED
      BY <1>2, <3>1
  <2> QED
    BY <1>2, <2>1 DEF Under
<1> QED
  BY <1>1, <1>2 DEF Under

\* What the host will hold does not change when the event at the front is handled.
LEMMA UnderShrinks ==
    ASSUME NEW q, NEW q2, NEW cs, NEW cs2, NEW h \in Handle, NEW a, NEW i \in Nat, i >= 1,
           \A k \in 1 .. i - 1 : q2[k] = q[k + 1],
           Taken(q[1], cs, cs2), Under(q, cs, i + 1, h, a)
    PROVE  Under(q2, cs2, i, h, a)
<1>0. (i + 1) - 1 = i
  OBVIOUS
<1>1. CASE \E m \in 1 .. i :
             /\ q[m].type = "conn_complete" /\ q[m].h = h /\ q[m].link.addr = a
             /\ \A k \in m + 1 .. i : ~Turns(q[k], h)
  <2>1. PICK m \in 1 .. i :
          /\ q[m].type = "conn_complete" /\ q[m].h = h /\ q[m].link.addr = a
          /\ \A k \in m + 1 .. i : ~Turns(q[k], h)
    BY <1>1
  <2>2. CASE m = 1
    <3>1. cs2[h] # None /\ cs2[h].addr = a
      BY <2>1, <2>2 DEF Taken, Turns
    <3>2. ASSUME NEW k \in 1 .. i - 1 PROVE ~Turns(q2[k], h)
      <4>1. k + 1 \in m + 1 .. i
        BY <2>2
      <4> QED
        BY <2>1, <4>1
    <3> QED
      BY <3>1, <3>2 DEF Under
  <2>3. CASE m # 1
    <3>1. PICK n \in 1 .. i - 1 : n + 1 = m
      <4>1. m - 1 \in 1 .. i - 1 /\ (m - 1) + 1 = m
        BY <2>3
      <4> QED
        BY <4>1
    <3>2. q2[n] = q[m]
      BY <3>1
    <3>3. ASSUME NEW k \in n + 1 .. i - 1 PROVE ~Turns(q2[k], h)
      <4>1. k + 1 \in m + 1 .. i /\ k \in 1 .. i - 1
        BY <3>1
      <4> QED
        BY <2>1, <4>1
    <3> QED
      BY <2>1, <3>2, <3>3 DEF Under
  <2> QED
    BY <2>2, <2>3
<1>2. CASE (\A k \in 1 .. i : ~Turns(q[k], h)) /\ cs[h] # None /\ cs[h].addr = a
  <2>1. ~Turns(q[1], h)
    BY <1>2
  <2>2. cs2[h] # None /\ cs2[h].addr = a
    BY <1>2, <2>1 DEF Taken
  <2>3. ASSUME NEW k \in 1 .. i - 1 PROVE ~Turns(q2[k], h)
    <3>1. k + 1 \in 1 .. i
      OBVIOUS
    <3> QED
      BY <1>2, <3>1
  <2> QED
    BY <2>2, <2>3 DEF Under
<1> QED
  BY <1>0, <1>1, <1>2 DEF Under

LEMMA UnderSame ==
    ASSUME NEW q, NEW cs, NEW cs2, NEW h \in Handle, NEW a, NEW i, SameHolders(cs, cs2),
           Under(q, cs, i, h, a)
    PROVE  Under(q, cs2, i, h, a)
  BY DEF Under, SameHolders

\* At the front of the queue the host holds the connection.
LEMMA UnderFront ==
    ASSUME NEW q, NEW cs, NEW h, NEW a, Under(q, cs, 1, h, a)
    PROVE  cs[h] # None /\ cs[h].addr = a
  BY DEF Under

\* What is in the queue stays right when more comes behind it and more keys are computed.
LEMMA EventKept ==
    ASSUME NEW q, NEW t, Sequence(q), Sequence(t), NEW cs, NEW comp, NEW comp2,
           comp \subseteq comp2, NEW i \in DOMAIN q, EventOK(q, cs, comp, i)
    PROVE  EventOK(q \o t, cs, comp2, i)
<1>1. PICK q2 : q2 = q \o t
  OBVIOUS
<1>2. i \in Nat /\ i >= 1 /\ q2[i] = q[i] /\ \A k \in 1 .. i - 1 : q2[k] = q[k]
  <2>1. PICK n \in Nat : n = Len(q)
    BY SequenceFacts
  <2>2. i \in 1 .. n
    BY <2>1, SequenceFacts
  <2>3. \A k \in 1 .. n : q2[k] = q[k]
    BY <1>1, <2>1, ConcatFacts
  <2>4. \A k \in 1 .. i - 1 : k \in 1 .. n
    BY <2>2
  <2> QED
    BY <2>2, <2>3, <2>4
<1>3. ASSUME q[i].type \in Within
      PROVE  /\ q2[i].h \in Handle
             /\ \E p \in Peer : \E a \in AddressesOf(p) :
                   /\ Under(q2, cs, i, q2[i].h, a)
                   /\ q2[i].type = "sm" => MsgOK(q2[i].msg, p, comp2)
  <2>1. /\ q[i].h \in Handle
        /\ \E p \in Peer : \E a \in AddressesOf(p) :
              /\ Under(q, cs, i, q[i].h, a)
              /\ q[i].type = "sm" => MsgOK(q[i].msg, p, comp)
    BY <1>3 DEF EventOK
  <2>2. PICK p \in Peer : \E a \in AddressesOf(p) :
              /\ Under(q, cs, i, q[i].h, a)
              /\ q[i].type = "sm" => MsgOK(q[i].msg, p, comp)
    BY <2>1
  <2>3. PICK a \in AddressesOf(p) :
              /\ Under(q, cs, i, q[i].h, a)
              /\ q[i].type = "sm" => MsgOK(q[i].msg, p, comp)
    BY <2>2
  <2>4. Under(q2, cs, i, q[i].h, a)
    <3>1. i <= i /\ \A k \in i .. i - 1 : ~Turns(q2[k], q[i].h)
      BY <1>2
    <3> QED
      BY <1>2, <2>3, <3>1, UnderGrows
  <2>5. q[i].type = "sm" => MsgOK(q[i].msg, p, comp2)
    BY <2>3, MsgKept
  <2> QED
    BY <1>2, <2>1, <2>4, <2>5
<1>4. q2[i].type = "conn_complete" => \E p \in Peer : q2[i].link.addr \in AddressesOf(p)
  BY <1>2 DEF EventOK
<1>5. EventOK(q2, cs, comp2, i)
  BY <1>2, <1>3, <1>4 DEF EventOK
<1> QED
  BY <1>1, <1>5

\* The link under h goes on: its events and packets join the queue.
LEMMA QueueGrows ==
    ASSUME NEW q, NEW t, NEW cs, NEW comp, NEW comp2, comp \subseteq comp2, NEW lk,
           NEW h \in Handle, QueueOK(q, cs, comp), LinksOK(q, cs, lk), lk[h] # None,
           Events(t, h, lk[h].peer, comp2)
    PROVE  QueueOK(q \o t, cs, comp2) /\ LinksOK(q \o t, cs, lk)
<1>1. PICK q2 : q2 = q \o t
  OBVIOUS
<1>2. PICK n \in Nat : n = Len(q)
  BY SequenceFacts DEF QueueOK
<1>3. PICK m \in Nat : m = Len(t)
  BY SequenceFacts DEF Events
<1>4. /\ Sequence(q2) /\ Len(q2) = n + m /\ DOMAIN q2 = 1 .. n + m
      /\ DOMAIN q = 1 .. n /\ DOMAIN t = 1 .. m
      /\ \A i \in 1 .. n : q2[i] = q[i]
      /\ \A i \in 1 .. m : q2[n + i] = t[i]
  BY <1>1, <1>2, <1>3, ConcatFacts, SequenceFacts DEF QueueOK, Events
<1>5. \A k \in n + 1 .. n + m : k - n \in DOMAIN t /\ q2[k] = t[k - n]
  <2>1. ASSUME NEW k \in n + 1 .. n + m PROVE k - n \in 1 .. m /\ n + (k - n) = k
    OBVIOUS
  <2> QED
    BY <1>4, <2>1
<1>6. \A k \in n + 1 .. n + m : \A g \in Handle : ~Turns(q2[k], g)
  BY <1>5 DEF Events, Turns
<1>7. ASSUME NEW g \in Handle, NEW j \in n + 1 .. n + m + 1, lk[g] # None
      PROVE  Under(q2, cs, j, g, lk[g].addr)
  <2>1. Under(q, cs, n + 1, g, lk[g].addr)
    BY <1>2, <1>7 DEF LinksOK, LinkOK
  <2>2. /\ n + 1 \in Nat /\ j \in Nat /\ n + 1 >= 1 /\ n + 1 <= j
        /\ \A k \in 1 .. (n + 1) - 1 : q2[k] = q[k]
    BY <1>4
  <2>3. \A k \in n + 1 .. j - 1 : ~Turns(q2[k], g)
    <3>1. ASSUME NEW k \in n + 1 .. j - 1 PROVE k \in n + 1 .. n + m
      OBVIOUS
    <3> QED
      BY <1>6, <3>1
  <2> QED
    BY <2>1, <2>2, <2>3, UnderGrows
<1>8. LinksOK(q2, cs, lk)
  <2>1. ASSUME NEW g \in Handle, lk[g] # None PROVE LinkOK(q2, cs, lk[g], g)
    <3>1. lk[g].peer \in Peer /\ lk[g].addr \in AddressesOf(lk[g].peer)
      BY <2>1 DEF LinksOK, LinkOK
    <3>2. n + m + 1 \in n + 1 .. n + m + 1
      OBVIOUS
    <3>3. Under(q2, cs, n + m + 1, g, lk[g].addr)
      BY <1>7, <2>1, <3>2
    <3> QED
      BY <1>4, <3>1, <3>3 DEF LinkOK
  <2> QED
    BY <2>1 DEF LinksOK
<1>9. ASSUME NEW i \in DOMAIN q2 PROVE EventOK(q2, cs, comp2, i)
  <2>1. CASE i \in 1 .. n
    BY <1>1, <1>4, <2>1, EventKept DEF QueueOK, Events
  <2>2. CASE i \in n + 1 .. n + m
    <3>1. PICK e : e = q2[i]
      OBVIOUS
    <3>2. /\ e.type \notin {"conn_complete", "disconn_complete"}
          /\ e.type \in Within => e.h = h
          /\ e.type = "sm" => MsgOK(e.msg, lk[h].peer, comp2)
      BY <1>5, <2>2, <3>1 DEF Events
    <3>3. lk[h].peer \in Peer /\ lk[h].addr \in AddressesOf(lk[h].peer)
      BY DEF LinksOK, LinkOK
    <3>4. Under(q2, cs, i, h, lk[h].addr)
      <4>1. i \in n + 1 .. n + m + 1
        BY <2>2
      <4> QED
        BY <1>7, <4>1
    <3> QED
      BY <3>1, <3>2, <3>3, <3>4 DEF EventOK
  <2>3. i \in 1 .. n \/ i \in n + 1 .. n + m
    BY <1>4
  <2> QED
    BY <2>1, <2>2, <2>3
<1> QED
  BY <1>1, <1>4, <1>8, <1>9 DEF QueueOK

\* Events that are about no connection.
LEMMA QueueGrowsAside ==
    ASSUME NEW q, NEW e, NEW cs, NEW comp, NEW lk, QueueOK(q, cs, comp), LinksOK(q, cs, lk),
           e.type \notin Within \cup {"conn_complete", "disconn_complete"}
    PROVE  QueueOK(Append(q, e), cs, comp) /\ LinksOK(Append(q, e), cs, lk)
<1>1. PICK q2 : q2 = Append(q, e)
  OBVIOUS
<1>2. PICK n \in Nat : n = Len(q)
  BY SequenceFacts DEF QueueOK
<1>3. /\ q2 = q \o <<e>> /\ Sequence(<<e>>)
      /\ Sequence(q2) /\ Len(q2) = n + 1 /\ DOMAIN q2 = 1 .. n + 1 /\ DOMAIN q = 1 .. n
      /\ \A i \in 1 .. n : q2[i] = q[i]
      /\ q2[n + 1] = e
  <2>1. Append(q, e) = q \o <<e>> /\ Sequence(<<e>>) /\ Len(<<e>>) = 1
    BY AppendOne DEF QueueOK
  <2>2. 1 \in 1 .. 1 /\ <<e>>[1] = e
    OBVIOUS
  <2> QED
    BY <1>1, <1>2, <2>1, <2>2, ConcatFacts, SequenceFacts DEF QueueOK
<1>4. LinksOK(q2, cs, lk)
  <2>1. ASSUME NEW g \in Handle, lk[g] # None PROVE LinkOK(q2, cs, lk[g], g)
    <3>1. lk[g].peer \in Peer /\ lk[g].addr \in AddressesOf(lk[g].peer)
      BY <2>1 DEF LinksOK, LinkOK
    <3>2. Under(q, cs, n + 1, g, lk[g].addr)
      BY <1>2, <2>1 DEF LinksOK, LinkOK
    <3>3. /\ n + 1 \in Nat /\ n + 2 \in Nat /\ n + 1 >= 1 /\ n + 1 <= n + 2 /\ (n + 1) + 1 = n + 2
          /\ \A k \in 1 .. (n + 1) - 1 : q2[k] = q[k]
      BY <1>3
    <3>4. \A k \in n + 1 .. (n + 2) - 1 : ~Turns(q2[k], g)
      <4>1. ASSUME NEW k \in n + 1 .. (n + 2) - 1 PROVE k = n + 1
        OBVIOUS
      <4> QED
        BY <1>3, <4>1 DEF Turns
    <3>5. Under(q2, cs, n + 2, g, lk[g].addr)
      BY <3>2, <3>3, <3>4, UnderGrows
    <3> QED
      BY <1>3, <3>1, <3>3, <3>5 DEF LinkOK
  <2> QED
    BY <2>1 DEF LinksOK
<1>5. ASSUME NEW i \in DOMAIN q2 PROVE EventOK(q2, cs, comp, i)
  <2>1. CASE i \in 1 .. n
    BY <1>3, <2>1, EventKept DEF QueueOK
  <2>2. CASE i = n + 1
    BY <1>3, <2>2 DEF EventOK
  <2> QED
    BY <1>3, <2>1, <2>2
<1> QED
  BY <1>1, <1>3, <1>4, <1>5 DEF QueueOK

\* A link begins or ends: its event joins the queue.
LEMMA QueueTurns ==
    ASSUME NEW q, NEW e, NEW cs, NEW comp, NEW lk, NEW lk2, NEW h \in Handle,
           QueueOK(q, cs, comp), LinksOK(q, cs, lk), Turns(e, h),
           \A g \in Handle : g # h => lk2[g] = lk[g],
           e.type = "conn_complete" => \E p \in Peer : e.link.addr \in AddressesOf(p),
           \/ lk2[h] = None
           \/ /\ e.type = "conn_complete" /\ lk2[h] = e.link
              /\ e.link.peer \in Peer /\ e.link.addr \in AddressesOf(e.link.peer)
    PROVE  QueueOK(Append(q, e), cs, comp) /\ LinksOK(Append(q, e), cs, lk2)
<1>1. PICK q2 : q2 = Append(q, e)
  OBVIOUS
<1>2. PICK n \in Nat : n = Len(q)
  BY SequenceFacts DEF QueueOK
<1>3. /\ q2 = q \o <<e>> /\ Sequence(<<e>>)
      /\ Sequence(q2) /\ Len(q2) = n + 1 /\ DOMAIN q2 = 1 .. n + 1 /\ DOMAIN q = 1 .. n
      /\ \A i \in 1 .. n : q2[i] = q[i]
      /\ q2[n + 1] = e
  <2>1. Append(q, e) = q \o <<e>> /\ Sequence(<<e>>) /\ Len(<<e>>) = 1
    BY AppendOne DEF QueueOK
  <2>2. 1 \in 1 .. 1 /\ <<e>>[1] = e
    OBVIOUS
  <2> QED
    BY <1>1, <1>2, <2>1, <2>2, ConcatFacts, SequenceFacts DEF QueueOK
<1>4. LinksOK(q2, cs, lk2)
  <2>1. ASSUME NEW g \in Handle, lk2[g] # None, g # h PROVE LinkOK(q2, cs, lk2[g], g)
    <3>1. lk2[g] = lk[g]
      BY <2>1
    <3>2. /\ lk[g].peer \in Peer /\ lk[g].addr \in AddressesOf(lk[g].peer)
          /\ Under(q, cs, n + 1, g, lk[g].addr)
      BY <1>2, <2>1, <3>1 DEF LinksOK, LinkOK
    <3>3. /\ n + 1 \in Nat /\ n + 2 \in Nat /\ n + 1 >= 1 /\ n + 1 <= n + 2 /\ (n + 1) + 1 = n + 2
          /\ \A k \in 1 .. (n + 1) - 1 : q2[k] = q[k]
      BY <1>3
    <3>4. \A k \in n + 1 .. (n + 2) - 1 : ~Turns(q2[k], g)
      <4>1. ASSUME NEW k \in n + 1 .. (n + 2) - 1 PROVE k = n + 1
        OBVIOUS
      <4>2. ~Turns(e, g)
        BY <2>1 DEF Turns
      <4> QED
        BY <1>3, <4>1, <4>2
    <3>5. Under(q2, cs, n + 2, g, lk[g].addr)
      BY <3>2, <3>3, <3>4, UnderGrows
    <3> QED
      BY <1>3, <3>1, <3>2, <3>3, <3>5 DEF LinkOK
  <2>2. ASSUME lk2[h] # None PROVE LinkOK(q2, cs, lk2[h], h)
    <3>1. /\ e.type = "conn_complete" /\ lk2[h] = e.link /\ e.h = h
          /\ e.link.peer \in Peer /\ e.link.addr \in AddressesOf(e.link.peer)
      BY <2>2 DEF Turns
    <3>2. n + 1 \in 1 .. (n + 2) - 1 /\ (n + 1) + 1 = n + 2
          /\ \A k \in (n + 1) + 1 .. (n + 2) - 1 : ~Turns(q2[k], h)
      OBVIOUS
    <3>3. Under(q2, cs, n + 2, h, e.link.addr)
      BY <1>3, <3>1, <3>2 DEF Under
    <3> QED
      BY <1>3, <3>1, <3>2, <3>3 DEF LinkOK
  <2> QED
    BY <2>1, <2>2 DEF LinksOK
<1>5. ASSUME NEW i \in DOMAIN q2 PROVE EventOK(q2, cs, comp, i)
  <2>1. CASE i \in 1 .. n
    BY <1>3, <2>1, EventKept DEF QueueOK
  <2>2. CASE i = n + 1
    BY <1>3, <2>2 DEF EventOK, Turns, Within
  <2> QED
    BY <1>3, <2>1, <2>2
<1> QED
  BY <1>1, <1>3, <1>4, <1>5 DEF QueueOK

\* The host handles the event at the front.
LEMMA QueueShrinks ==
    ASSUME NEW q, q # <<>>, NEW cs, NEW cs2, NEW comp, NEW lk,
           QueueOK(q, cs, comp), LinksOK(q, cs, lk), Taken(q[1], cs, cs2)
    PROVE  QueueOK(Tail(q), cs2, comp) /\ LinksOK(Tail(q), cs2, lk)
<1>1. PICK q2 : q2 = Tail(q)
  OBVIOUS
<1>2. PICK n \in Nat : n + 1 = Len(q)
  <2>1. Len(q) \in Nat \ {0}
    BY TailFacts DEF QueueOK
  <2>2. \A l \in Nat \ {0} : \E n \in Nat : n + 1 = l
    <3>1. ASSUME NEW l \in Nat \ {0} PROVE l - 1 \in Nat /\ (l - 1) + 1 = l
      OBVIOUS
    <3> QED
      BY <3>1
  <2> QED
    BY <2>1, <2>2
<1>3. /\ Sequence(q2) /\ Len(q2) = n /\ DOMAIN q2 = 1 .. n /\ DOMAIN q = 1 .. n + 1
      /\ \A i \in 1 .. n : q2[i] = q[i + 1]
  <2>1. (n + 1) - 1 = n
    OBVIOUS
  <2> QED
    BY <1>1, <1>2, <2>1, TailFacts DEF QueueOK
<1>4. ASSUME NEW g \in Handle, NEW i \in 1 .. n + 1, NEW a, Under(q, cs, i + 1, g, a)
      PROVE  Under(q2, cs2, i, g, a)
  <2>1. i \in Nat /\ i >= 1
    OBVIOUS
  <2>2. \A k \in 1 .. i - 1 : q2[k] = q[k + 1]
    <3>1. ASSUME NEW k \in 1 .. i - 1 PROVE k \in 1 .. n
      OBVIOUS
    <3> QED
      BY <1>3, <3>1
  <2> QED
    BY <1>4, <2>1, <2>2, UnderShrinks
<1>5. ASSUME NEW i \in DOMAIN q2 PROVE EventOK(q2, cs2, comp, i)
  <2>1. i \in 1 .. n + 1 /\ i + 1 \in DOMAIN q /\ q2[i] = q[i + 1]
    BY <1>3
  <2>2. PICK e : e = q2[i]
    OBVIOUS
  <2>3. EventOK(q, cs, comp, i + 1)
    BY <2>1 DEF QueueOK
  <2>4. ASSUME e.type \in Within
        PROVE  /\ e.h \in Handle
               /\ \E p \in Peer : \E a \in AddressesOf(p) :
                     /\ Under(q2, cs2, i, e.h, a)
                     /\ e.type = "sm" => MsgOK(e.msg, p, comp)
    <3>1. /\ e.h \in Handle
          /\ \E p \in Peer : \E a \in AddressesOf(p) :
                /\ Under(q, cs, i + 1, e.h, a)
                /\ e.type = "sm" => MsgOK(e.msg, p, comp)
      BY <2>1, <2>2, <2>3, <2>4 DEF EventOK
    <3> QED
      BY <1>4, <2>1, <3>1
  <2>5. e.type = "conn_complete" => \E p \in Peer : e.link.addr \in AddressesOf(p)
    BY <2>1, <2>2, <2>3 DEF EventOK
  <2> QED
    BY <2>2, <2>4, <2>5 DEF EventOK
<1>6. ASSUME NEW g \in Handle, lk[g] # None PROVE LinkOK(q2, cs2, lk[g], g)
  <2>1. /\ lk[g].peer \in Peer /\ lk[g].addr \in AddressesOf(lk[g].peer)
        /\ Under(q, cs, (n + 1) + 1, g, lk[g].addr)
    BY <1>2, <1>6 DEF LinksOK, LinkOK
  <2>2. n + 1 \in 1 .. n + 1
    OBVIOUS
  <2>3. Under(q2, cs2, n + 1, g, lk[g].addr)
    BY <1>4, <2>1, <2>2
  <2> QED
    BY <1>3, <2>1, <2>3 DEF LinkOK
<1> QED
  BY <1>1, <1>3, <1>5, <1>6 DEF QueueOK, LinksOK

\* The host changes a connection it keeps.
LEMMA QueueSame ==
    ASSUME NEW q, NEW cs, NEW cs2, NEW comp, NEW lk,
           QueueOK(q, cs, comp), LinksOK(q, cs, lk), SameHolders(cs, cs2)
    PROVE  QueueOK(q, cs2, comp) /\ LinksOK(q, cs2, lk)
<1>1. ASSUME NEW i \in DOMAIN q PROVE EventOK(q, cs2, comp, i)
  <2>1. EventOK(q, cs, comp, i)
    BY DEF QueueOK
  <2> QED
    BY <2>1, UnderSame DEF EventOK
<1>2. ASSUME NEW h \in Handle, lk[h] # None PROVE LinkOK(q, cs2, lk[h], h)
  BY <1>2, UnderSame DEF LinksOK, LinkOK
<1> QED
  BY <1>1, <1>2 DEF QueueOK, LinksOK

-----------------------------------------------------------------------------
(* Addresses and the file of bonds: each entry is of one peer.              *)

\* A pairing or event of p leaves what is found for the others.
Affects(d, d2, p) ==
    \A q \in Peer : q # p => \A addr \in AddressesOf(q) : Look(d2, addr) = Look(d, addr)

LEMMA AddressKinds ==
    ASSUME NEW p, NEW addr \in AddressesOf(p)
    PROVE  \/ addr.type = "public" /\ addr.hash = <<"addr", p>>
           \/ addr.type = "random" /\ addr.hash = <<"aes", <<"irk", p>>, addr.prand>>
<1>1. CASE addr = Public(p)
  BY <1>1 DEF Public
<1>2. CASE \E k \in 1 .. Rpas : addr = Resolvable(Irk(p), k)
  <2>1. PICK k \in 1 .. Rpas : addr = Resolvable(Irk(p), k)
    BY <1>2
  <2>2. /\ addr.type = "random" /\ addr.prand = k
        /\ addr.hash = <<"aes", <<"irk", p>>, k>>
    BY <2>1 DEF Resolvable, Irk, sm_ah, __sm_encrypt
  <2> QED
    BY <2>2
<1> QED
  BY <1>1, <1>2 DEF AddressesOf

\* No address of one peer matches an entry of another.
LEMMA OwnedElsewhere ==
    ASSUME NEW p, NEW q, p # q, NEW entry, Owned(entry, p), NEW addr \in AddressesOf(q)
    PROVE  ~Matches(entry, addr)
<1>1. entry.remote_addr # addr
  <2>1. CASE entry.remote_addr = ZeroAddr
    <3>1. /\ ZeroAddr.type = "public" /\ ZeroAddr.hash = <<"zero">>
          /\ <<"zero">> # <<"addr", q>>
      BY DEF ZeroAddr, ZeroKey
    <3>2. ZeroAddr # addr
      BY <3>1, AddressKinds
    <3> QED
      BY <2>1, <3>2
  <2>2. CASE entry.remote_addr \in AddressesOf(p)
    <3>1. PICK mine : mine = entry.remote_addr
      OBVIOUS
    <3>2. \/ mine.type = "public" /\ mine.hash = <<"addr", p>>
          \/ mine.type = "random" /\ mine.hash = <<"aes", <<"irk", p>>, mine.prand>>
      BY <2>2, <3>1, AddressKinds
    <3>3. \/ addr.type = "public" /\ addr.hash = <<"addr", q>>
          \/ addr.type = "random" /\ addr.hash = <<"aes", <<"irk", q>>, addr.prand>>
      BY AddressKinds
    <3>4. <<"addr", p>> # <<"addr", q>> /\ <<"irk", p>> # <<"irk", q>>
      OBVIOUS
    <3>5. \A k, l : <<"aes", <<"irk", p>>, k>> # <<"aes", <<"irk", q>>, l>>
      BY <3>4
    <3> QED
      BY <3>1, <3>2, <3>3, <3>4, <3>5
  <2> QED
    BY <2>1, <2>2 DEF Owned
<1>2. addr.type = "random" => addr.hash # sm_ah(entry.remote_irk, addr.prand)
  <2>1. addr.type = "random" => addr.hash = <<"aes", <<"irk", q>>, addr.prand>>
    BY AddressKinds
  <2>2. entry.remote_irk # <<"irk", q>>
    <3>1. <<"irk", p>> # <<"irk", q>> /\ <<"zero">> # <<"irk", q>>
      OBVIOUS
    <3> QED
      BY <3>1 DEF Owned, ZeroKey, Irk
  <2>3. sm_ah(entry.remote_irk, addr.prand) # <<"aes", <<"irk", q>>, addr.prand>>
    BY <2>2 DEF sm_ah, __sm_encrypt
  <2> QED
    BY <2>1, <2>3
<1> QED
  BY <1>1, <1>2 DEF Matches

LEMMA ZeroOwned ==
    ASSUME NEW p \in Peer, NEW comp
    PROVE  Owned(ZeroEntry, p) /\ EntryOK(ZeroEntry, comp)
<1>1. Owned(ZeroEntry, p)
  BY DEF Owned, ZeroEntry
<1>2. DOMAIN ZeroEntry = EntryFields /\ ~ZeroEntry.is_secure_connection
  BY DEF ZeroEntry, EntryFields
<1> QED
  BY <1>1, <1>2 DEF EntryOK

LEMMA DbType ==
    ASSUME NEW d, NEW comp, DbOK(d, comp), NEW entry, EntryOK(entry, comp)
    PROVE  \E S : /\ d \in Seq(S) /\ entry \in S
                  /\ \A e \in S : EntryOK(e, comp)
<1> DEFINE S == {d[i] : i \in DOMAIN d} \cup {entry}
<1>1. d \in Seq(S) /\ entry \in S
  BY SeqMonotonic DEF DbOK, Sequence
<1>2. \A e \in S : EntryOK(e, comp)
  BY DEF DbOK
<1> HIDE DEF S
<1> QED
  BY <1>1, <1>2

LEMMA DbOfEntries ==
    ASSUME NEW S, NEW d \in Seq(S), NEW comp, \A e \in S : EntryOK(e, comp)
    PROVE  DbOK(d, comp)
<1>1. Sequence(d)
  BY SequenceOf
<1>2. \A i \in DOMAIN d : d[i] \in S
  BY ElementOfSeq
<1> QED
  BY <1>1, <1>2 DEF DbOK

LEMMA DbGrows ==
    ASSUME NEW d, NEW comp, NEW comp2, comp \subseteq comp2, DbOK(d, comp)
    PROVE  DbOK(d, comp2)
<1>1. \A e : EntryOK(e, comp) => EntryOK(e, comp2)
  BY DEF EntryOK
<1> QED
  BY <1>1 DEF DbOK

\* What is found under an address of p is p's.
LEMMA FoundOwned ==
    ASSUME NEW d, NEW comp, DbOK(d, comp), NEW p \in Peer, NEW addr \in AddressesOf(p),
           Found(d, addr)
    PROVE  /\ FirstMatch(d, addr) \in DOMAIN d
           /\ Owned(__sm_device_db_entry_get(d, addr), p)
           /\ EntryOK(__sm_device_db_entry_get(d, addr), comp)
<1>1. PICK S : d \in Seq(S)
  BY DEF DbOK, Sequence
<1>2. FirstMatch(d, addr) \in DOMAIN d /\ Matches(d[FirstMatch(d, addr)], addr)
  BY <1>1, FirstMatchIsFirst
<1>3. PICK e : e = d[FirstMatch(d, addr)]
  OBVIOUS
<1>4. EntryOK(e, comp) /\ Matches(e, addr)
  BY <1>2, <1>3 DEF DbOK
<1>5. PICK q \in Peer : Owned(e, q)
  BY <1>4 DEF EntryOK
<1>6. q = p
  BY <1>4, <1>5, OwnedElsewhere
<1> QED
  BY <1>2, <1>3, <1>4, <1>5, <1>6 DEF __sm_device_db_entry_get

\* Storing an entry of p under an address of p.
LEMMA StoreKeeps ==
    ASSUME NEW d, NEW comp, DbOK(d, comp), NEW p \in Peer, NEW addr \in AddressesOf(p),
           NEW entry, EntryOK(entry, comp), Owned(entry, p)
    PROVE  DbOK(Store(d, addr, entry), comp) /\ Affects(d, Store(d, addr, entry), p)
<1>1. PICK S : d \in Seq(S) /\ entry \in S /\ \A e \in S : EntryOK(e, comp)
  BY DbType
<1>2. Store(d, addr, entry) \in Seq(S)
  <2>1. CASE Found(d, addr)
    <3>1. FirstMatch(d, addr) \in DOMAIN d
      BY <2>1, FoundOwned
    <3>2. [d EXCEPT ![FirstMatch(d, addr)] = entry] \in Seq(S)
      BY <1>1, <3>1
    <3> QED
      BY <2>1, <3>2 DEF Store, __sm_device_db_entry_update
  <2>2. CASE ~Found(d, addr)
    BY <1>1, <2>2 DEF Store, __sm_device_db_entry_add
  <2> QED
    BY <2>1, <2>2
<1>3. ASSUME NEW q \in Peer, q # p, NEW other \in AddressesOf(q)
      PROVE  Look(Store(d, addr, entry), other) = Look(d, other)
  <2>1. ~Matches(entry, other)
    BY <1>3, OwnedElsewhere
  <2>2. Found(d, addr) => ~Matches(__sm_device_db_entry_get(d, addr), other)
    BY <1>3, FoundOwned, OwnedElsewhere
  <2>3. /\ Found(Store(d, addr, entry), other) <=> Found(d, other)
        /\ Found(d, other) => __sm_device_db_entry_get(Store(d, addr, entry), other)
                              = __sm_device_db_entry_get(d, other)
    BY <1>1, <2>1, <2>2, StoreElsewhere
  <2> QED
    BY <2>3 DEF Look
<1>4. DbOK(Store(d, addr, entry), comp)
  BY <1>1, <1>2, DbOfEntries
<1> QED
  BY <1>3, <1>4 DEF Affects

LEMMA SameAffects ==
    ASSUME NEW d, NEW p PROVE Affects(d, d, p)
  BY DEF Affects

LEMMA UpdateKeeps ==
    ASSUME NEW d, NEW comp, DbOK(d, comp), NEW p \in Peer, NEW addr \in AddressesOf(p),
           NEW entry, EntryOK(entry, comp), Owned(entry, p),
           NEW d2, d2 = __sm_device_db_entry_update(d, addr, entry)
    PROVE  DbOK(d2, comp) /\ Affects(d, d2, p)
<1>1. CASE Found(d, addr)
  <2>1. d2 = Store(d, addr, entry)
    BY <1>1 DEF Store
  <2> QED
    BY <2>1, StoreKeeps
<1>2. CASE ~Found(d, addr)
  BY <1>2, SameAffects DEF __sm_device_db_entry_update
<1> QED
  BY <1>1, <1>2

LEMMA DeleteKeeps ==
    ASSUME NEW d, NEW comp, DbOK(d, comp), NEW p \in Peer, NEW addr \in AddressesOf(p),
           NEW d2, d2 = __sm_device_db_entry_delete(d, addr)
    PROVE  DbOK(d2, comp) /\ Affects(d, d2, p)
<1>1. __sm_device_db_entry_delete(d, addr) = __sm_device_db_entry_update(d, addr, ZeroEntry)
  BY DEF __sm_device_db_entry_delete, __sm_device_db_entry_update
<1> QED
  BY <1>1, ZeroOwned, UpdateKeeps

-----------------------------------------------------------------------------
(* The handlers of the packets and events of one connection.                *)

\* A handler of the connection under h writes that connection and may send to a peer that is
\* there, ask the controller and open a dialog about it.
Writes(h) ==
    /\ DOMAIN conn' = Handle /\ \A g \in Handle : g # h => conn'[g] = conn[g]
    /\ ConnOK(conn'[h]) /\ conn'[h].addr = conn[h].addr
    /\ DOMAIN air' = Handle /\ \A g \in Handle : link[g] = None => air'[g] = air[g]
Handled(h) ==
    /\ Writes(h)
    /\ dialog' # None => dialog'.h = h
    /\ cmd' = cmd \/ cmd'.h = h

\* and it stores nothing but an entry of p.
Stores(p) == DbOK(db', computed) /\ Affects(db, db', p)

\* The connection changed, but not in what its bond depends on.
Kept(c, c2) ==
    /\ DOMAIN c2 = DOMAIN c /\ c2.addr = c.addr /\ c2.req = c.req /\ c2.method = c.method
    /\ c2.sc = c.sc /\ c2.remote_irk = c.remote_irk /\ c2.remote_addr = c.remote_addr

LEMMA KeptOK ==
    ASSUME NEW c, NEW c2, ConnOK(c), Kept(c, c2)
    PROVE  ConnOK(c2) /\ c2.addr = c.addr /\ \A p : KeysOf(c, p) => KeysOf(c2, p)
  BY DEF ConnOK, Kept, KeysOf

LEMMA PasskeyKept ==
    ASSUME NEW c, DOMAIN c = ConnFields, NEW n
    PROVE  /\ Kept(c, WithPasskey(c, n))
           /\ Kept(c, [c EXCEPT !.passkey_num = n, !.tk = n])
           /\ Kept(c, [c EXCEPT !.passkey_num = n])
<1>1. Kept(c, [c EXCEPT !.passkey_num = n, !.tk = n]) /\ Kept(c, [c EXCEPT !.passkey_num = n])
  BY DEF Kept, ConnFields
<1>2. Kept(c, [c EXCEPT !.passkey_num = n, !.passkey_index = 0, !.tk = n])
  BY DEF Kept, ConnFields
<1> QED
  BY <1>1, <1>2 DEF WithPasskey

LEMMA ConnNotNone == ASSUME NEW c, ConnOK(c) PROVE c # None
<1>1. DOMAIN None = {"none"} /\ "none" \notin ConnFields
  BY DEF None, ConnFields
<1> QED
  BY <1>1 DEF ConnOK

LEMMA GoesWrites ==
    ASSUME Shapes, NEW h \in Handle, NEW c, NEW msgs, ConnOK(c), c.addr = conn[h].addr,
           Goes(h, c, msgs)
    PROVE  Writes(h) /\ conn'[h] = c
<1>1. /\ DOMAIN conn' = Handle /\ \A g \in Handle : g # h => conn'[g] = conn[g]
      /\ conn'[h] = c
  BY DEF Shapes, Goes
<1>2. DOMAIN air' = Handle /\ \A g \in Handle : link[g] = None => air'[g] = air[g]
  <2>1. CASE link[h] = None
    BY <2>1 DEF Shapes, Goes, sm_send
  <2>2. CASE link[h] # None
    BY <2>2 DEF Shapes, Goes, sm_send
  <2> QED
    BY <2>1, <2>2
<1> QED
  BY <1>1, <1>2 DEF Writes

\* The handler changes nothing of the connection.
LEMMA SameWrites ==
    ASSUME Shapes, NEW h \in Handle, ConnOK(conn[h]), UNCHANGED <<conn, air>>
    PROVE  Writes(h)
  BY DEF Shapes, Writes

LEMMA SendsCmd ==
    ASSUME NEW c, SendCmd(c) PROVE cmd' = cmd \/ cmd'.h = c.h
  BY DEF SendCmd

LEMMA SameStores ==
    ASSUME NEW p, DbOK(db, computed), UNCHANGED db PROVE Stores(p)
<1>1. DbOK(db', computed)
  OBVIOUS
<1>2. Affects(db, db', p)
  BY SameAffects
<1> QED
  BY <1>1, <1>2 DEF Stores

LEMMA PairingReqHandled ==
    ASSUME Shapes, NEW h \in Handle, ConnOK(conn[h]), NEW req, DbOK(db, computed), NEW p,
           __sm_recv_pairing_req(h, req)
    PROVE  Handled(h) /\ Stores(p)
<1> DEFINE m == __sm_get_pairing_method(req)
           s == IsSecureConnection(req)
           c == [conn[h] EXCEPT !.req = req, !.responded = TRUE, !.method = m, !.sc = s]
<1>1. PICK c1 : c1 = c
  OBVIOUS
<1> HIDE DEF s, m
<1>2. /\ DOMAIN c1 = ConnFields /\ c1.req = req /\ c1.method = m /\ c1.sc = s
      /\ c1.addr = conn[h].addr /\ c1.remote_irk = conn[h].remote_irk
      /\ c1.remote_addr = conn[h].remote_addr
  BY <1>1 DEF ConnOK, ConnFields
<1>3. ConnOK(c1)
  <2>1. c1.sc => IsSecureConnection(c1.req) /\ c1.method = __sm_get_pairing_method(c1.req)
    BY <1>2 DEF s, m
  <2>2. \A q : KeysOf(conn[h], q) => KeysOf(c1, q)
    BY <1>2 DEF KeysOf
  <2> QED
    BY <1>2, <2>1, <2>2 DEF ConnOK
<1> HIDE DEF c
<1>4. ASSUME NEW n, Goes(h, [c1 EXCEPT !.passkey_num = n, !.tk = n], <<Msg("pairing_resp", SM_RESP)>>)
      PROVE  Writes(h)
  <2>1. PICK c2 : c2 = [c1 EXCEPT !.passkey_num = n, !.tk = n]
    OBVIOUS
  <2>2. Kept(c1, c2)
    BY <1>2, <2>1 DEF Kept, ConnFields
  <2>3. ConnOK(c2) /\ c2.addr = conn[h].addr
    BY <1>2, <1>3, <2>2, KeptOK
  <2> QED
    BY <1>4, <2>1, <2>3, GoesWrites
<1>5. Writes(h) /\ (dialog' # None => dialog'.h = h)
  <2>1. CASE ~c1.sc /\ m = IIRD
    <3>1. PICK n \in Passkeys :
             /\ Goes(h, [c1 EXCEPT !.passkey_num = n, !.tk = n], <<Msg("pairing_resp", SM_RESP)>>)
             /\ Opens("show", h, <<n>>)
      BY <1>1, <2>1 DEF __sm_recv_pairing_req, c, s, m
    <3>2. dialog'.h = h
      BY <3>1 DEF Opens
    <3> QED
      BY <1>4, <3>1, <3>2
  <2>2. CASE ~(~c1.sc /\ m = IIRD)
    <3>1. Goes(h, c1, <<Msg("pairing_resp", SM_RESP)>>) /\ NoDialog
      BY <1>1, <2>2 DEF __sm_recv_pairing_req, c, s, m
    <3> QED
      BY <1>2, <1>3, <3>1, GoesWrites DEF NoDialog
  <2> QED
    BY <2>1, <2>2
<1>6. cmd' = cmd /\ UNCHANGED db
  BY DEF __sm_recv_pairing_req, NoCmd
<1> QED
  BY <1>5, <1>6, SameStores DEF Handled

LEMMA PublicKeyHandled ==
    ASSUME Shapes, NEW h \in Handle, ConnOK(conn[h]), NEW pk, DbOK(db, computed), NEW p,
           __sm_recv_pairing_public_key(h, pk)
    PROVE  Handled(h) /\ Stores(p)
<1>1. PICK c : c = [conn[h] EXCEPT !.pk = pk]
  OBVIOUS
<1>2. Kept(conn[h], c)
  BY <1>1 DEF Kept, ConnOK, ConnFields
<1>3. Goes(h, c, <<>>)
  BY <1>1 DEF __sm_recv_pairing_public_key
<1>4. Writes(h)
  BY <1>2, <1>3, KeptOK, GoesWrites
<1>5. cmd' = cmd \/ cmd'.h = h
  <2>1. PICK k : k = [type |-> "generate_dhkey", h |-> h, pk |-> pk]
    OBVIOUS
  <2>2. SendCmd(k) /\ k.h = h
    BY <2>1 DEF __sm_recv_pairing_public_key
  <2> QED
    BY <2>2, SendsCmd
<1>6. dialog' = None /\ UNCHANGED db
  BY DEF __sm_recv_pairing_public_key, NoDialog
<1> QED
  BY <1>4, <1>5, <1>6, SameStores DEF Handled

LEMMA ConfirmHandled ==
    ASSUME Shapes, NEW h \in Handle, ConnOK(conn[h]), NEW value, DbOK(db, computed), NEW p,
           __sm_recv_pairing_confirm(h, value)
    PROVE  Handled(h) /\ Stores(p)
<1> DEFINE d == [conn[h] EXCEPT !.confirm = value, !.local_random = sm_generate_random(conn[h])]
           c == Drawn(d)
           r == 128 + Bit(c.passkey_num, c.passkey_index)
           tk == IF c.method = JW THEN 0 ELSE c.tk
<1>1. PICK d1 : d1 = d
  OBVIOUS
<1>2. PICK c1 : c1 = c
  OBVIOUS
<1>3. Kept(conn[h], d1)
  BY <1>1 DEF Kept, ConnOK, ConnFields
<1>4. ConnOK(d1) /\ d1.addr = conn[h].addr
  BY <1>3, KeptOK
<1>5. ConnOK(c1) /\ c1.addr = conn[h].addr
  <2>1. c1 = [d1 EXCEPT !.draws = @ + 1]
    BY <1>1, <1>2 DEF Drawn
  <2>2. Kept(d1, c1)
    BY <1>4, <2>1 DEF Kept, ConnOK, ConnFields
  <2> QED
    BY <1>4, <2>2, KeptOK
<1>6. ASSUME NEW t, NEW c2, c2 = [c1 EXCEPT !.tk = t] \/ c2 = [c1 EXCEPT !.passkey_r = t]
      PROVE  ConnOK(c2) /\ c2.addr = conn[h].addr
  <2>2. Kept(c1, c2)
    BY <1>5, <1>6 DEF Kept, ConnOK, ConnFields
  <2> QED
    BY <1>5, <2>2, KeptOK
<1>7. \/ (\E msgs : Goes(h, c1, msgs)) /\ (NoDialog \/ Opens("legacy_input", h, <<>>))
      \/ (\E t, msgs : Goes(h, [c1 EXCEPT !.tk = t], msgs)) /\ NoDialog
      \/ (\E t, msgs : Goes(h, [c1 EXCEPT !.passkey_r = t], msgs)) /\ NoDialog
  <2>1. CASE c1.sc
    BY <1>2, <2>1 DEF __sm_recv_pairing_confirm
  <2>2. CASE ~c1.sc /\ c1.method = IDRI
    BY <1>2, <2>2 DEF __sm_recv_pairing_confirm
  <2>3. CASE ~c1.sc /\ c1.method # IDRI
    BY <1>2, <2>3 DEF __sm_recv_pairing_confirm
  <2> QED
    BY <2>1, <2>2, <2>3
<1>8. Writes(h)
  BY <1>5, <1>6, <1>7, GoesWrites
<1>9. dialog' # None => dialog'.h = h
  BY <1>7 DEF NoDialog, Opens
<1>10. cmd' = cmd /\ UNCHANGED db
  BY DEF __sm_recv_pairing_confirm, NoCmd
<1> QED
  BY <1>8, <1>9, <1>10, SameStores DEF Handled

\* The host and a peer that saw the same capabilities take the same method.
LEMMA MethodShared ==
    ASSUME NEW req \in Offers, NEW mine, IsSecureConnection(req), IsSecureConnection(mine),
           iocapOf(mine) = iocapOf(req)
    PROVE  __sm_get_pairing_method(mine) = PeerMethod(req)
<1>1. mine.iocap = req.iocap /\ mine.oob = req.oob /\ mine.sc = req.sc
  BY DEF iocapOf
<1>2. PICK i \in 0 .. 4 : i = req.iocap
  BY SmAssumption
<1>3. SM_RESP.iocap = 4 /\ ~SM_RESP.oob /\ req.sc
  BY DEF SM_RESP, SM_IOCAP, IsSecureConnection
<1>4. CASE req.oob
  <2>1. __sm_get_pairing_method(mine) = "OOB"
    BY <1>1, <1>4 DEF __sm_get_pairing_method
  <2>2. PeerMethod(req) = "OOB"
    BY <1>3, <1>4 DEF PeerMethod
  <2> QED
    BY <2>1, <2>2
<1>5. CASE ~req.oob
  <2> DEFINE row == <<IDRI, NC, IIRD, JW, NC>>
  <2>1. __sm_get_pairing_method(mine) = row[i + 1]
    <3>1. secure_connection_pairing_method_table[SM_RESP.iocap + 1] = row
      BY <1>3 DEF secure_connection_pairing_method_table
    <3>2. __sm_get_pairing_method(mine)
             = secure_connection_pairing_method_table[SM_RESP.iocap + 1][mine.iocap + 1]
      BY <1>1, <1>3, <1>5 DEF __sm_get_pairing_method
    <3> QED
      BY <1>1, <1>2, <3>1, <3>2
  <2>2. PeerMethod(req) = IF i = 3 THEN JW
                          ELSE IF i \in {1, 4} THEN NC
                          ELSE IF i # 2 THEN IDRI ELSE IIRD
    <3>1. SM_RESP.iocap = 4
      BY <1>3
    <3>2. 3 \in {i, 4} <=> i = 3
      OBVIOUS
    <3>3. {i, 4} \subseteq {1, 4} <=> i \in {1, 4}
      OBVIOUS
    <3> QED
      BY <1>2, <1>3, <1>5, <3>2, <3>3 DEF PeerMethod
  <2>3. i = 0 \/ i = 1 \/ i = 2 \/ i = 3 \/ i = 4
    OBVIOUS
  <2> QED
    BY <2>1, <2>2, <2>3
<1> QED
  BY <1>4, <1>5

\* Two equal checks are of one key and one capability.
KeyOf(w, n1, n2, a) == __sm_f5(w, n1, n2, a, LocalAddr).ltk
CheckOf(w, n1, n2, r, io, a) ==
    __sm_f6(__sm_f5(w, n1, n2, a, LocalAddr).mackey, n1, n2, r, io, a, LocalAddr)
LEMMA CheckOfOneKey ==
    ASSUME NEW w, NEW n1, NEW n2, NEW r, NEW io, NEW a, NEW v, NEW m1, NEW m2, NEW s, NEW jo, NEW b,
           CheckOf(w, n1, n2, r, io, a) = CheckOf(v, m1, m2, s, jo, b)
    PROVE  KeyOf(w, n1, n2, a) = KeyOf(v, m1, m2, b) /\ io = jo
<1>1. PICK l : l = LocalAddr
  OBVIOUS
<1>2. \A x, y, z, t, u, e : __sm_f5(x, y, z, t, u).mackey
         = <<"cmac", <<"cmac", <<"salt">>, x>>, <<0, "btle", y, z, t, u, 256>>>>
  BY DEF __sm_f5, __sm_aes_cmac
<1>3. \A x, y, z, t, u : __sm_f5(x, y, z, t, u).ltk
         = <<"cmac", <<"cmac", <<"salt">>, x>>, <<1, "btle", y, z, t, u, 256>>>>
  BY DEF __sm_f5, __sm_aes_cmac
<1> DEFINE M(x, y, z, t) == <<"cmac", <<"cmac", <<"salt">>, x>>, <<0, "btle", y, z, t, l, 256>>>>
<1>4. <<"cmac", M(w, n1, n2, a), <<n1, n2, r, io, a, l>>>>
      = <<"cmac", M(v, m1, m2, b), <<m1, m2, s, jo, b, l>>>>
  BY <1>1, <1>2 DEF CheckOf, __sm_f6, __sm_aes_cmac
<1>5. M(w, n1, n2, a) = M(v, m1, m2, b) /\ <<n1, n2, r, io, a, l>> = <<m1, m2, s, jo, b, l>>
  <2> HIDE DEF M
  <2> QED
    BY <1>4
<1>6. n1 = m1 /\ n2 = m2 /\ io = jo /\ a = b
  BY <1>5
<1>7. <<"cmac", <<"salt">>, w>> = <<"cmac", <<"salt">>, v>>
  BY <1>5
<1>8. w = v
  BY <1>7
<1> QED
  BY <1>3, <1>6, <1>8 DEF KeyOf

LEMMA CheckedKey ==
    ASSUME NEW c, ConnOK(c), c.sc, NEW comp, NEW n1, NEW n2, NEW r, NEW value, Checked(value, comp),
           value = __sm_f6(__sm_f5(c.dhkey, n1, n2, c.addr, LocalAddr).mackey, n1, n2, r,
                           iocapOf(c.req), c.addr, LocalAddr)
    PROVE  [ltk |-> __sm_f5(c.dhkey, n1, n2, c.addr, LocalAddr).ltk, method |-> c.method] \in comp
<1>1. PICK v, m1, m2, s, b : \E req \in Offers :
        /\ IsSecureConnection(req)
        /\ value = __sm_f6(__sm_f5(v, m1, m2, b, LocalAddr).mackey, m1, m2, s, iocapOf(req),
                           b, LocalAddr)
        /\ [ltk |-> __sm_f5(v, m1, m2, b, LocalAddr).ltk, method |-> PeerMethod(req)] \in comp
  BY DEF Checked
<1>2. PICK req \in Offers :
        /\ IsSecureConnection(req)
        /\ value = __sm_f6(__sm_f5(v, m1, m2, b, LocalAddr).mackey, m1, m2, s, iocapOf(req),
                           b, LocalAddr)
        /\ [ltk |-> __sm_f5(v, m1, m2, b, LocalAddr).ltk, method |-> PeerMethod(req)] \in comp
  BY <1>1
<1>3. /\ __sm_f5(c.dhkey, n1, n2, c.addr, LocalAddr).ltk = __sm_f5(v, m1, m2, b, LocalAddr).ltk
      /\ iocapOf(c.req) = iocapOf(req)
  <2>1. PICK w, a, io, jo : w = c.dhkey /\ a = c.addr /\ io = iocapOf(c.req) /\ jo = iocapOf(req)
    OBVIOUS
  <2>2. CheckOf(w, n1, n2, r, io, a) = CheckOf(v, m1, m2, s, jo, b)
    BY <1>2, <2>1 DEF CheckOf
  <2>3. KeyOf(w, n1, n2, a) = KeyOf(v, m1, m2, b) /\ io = jo
    BY <2>2, CheckOfOneKey
  <2> QED
    BY <2>1, <2>3 DEF KeyOf
<1>4. IsSecureConnection(c.req) /\ c.method = __sm_get_pairing_method(c.req)
  BY DEF ConnOK
<1>5. c.method = PeerMethod(req)
  BY <1>2, <1>3, <1>4, MethodShared
<1> QED
  BY <1>2, <1>3, <1>5

LEMMA BondEntryOK ==
    ASSUME NEW c, NEW p \in Peer, KeysOf(c, p), NEW ltk, NEW comp,
           c.sc => [ltk |-> ltk, method |-> c.method] \in comp
    PROVE  EntryOK(BondEntry(c, ltk), comp) /\ Owned(BondEntry(c, ltk), p)
<1>1. PICK e : e = BondEntry(c, ltk)
  OBVIOUS
<1>2. /\ DOMAIN e = EntryFields /\ e.remote_addr = c.addr /\ e.remote_irk = ZeroKey
      /\ e.local_ltk = ltk /\ e.pairing_method = c.method /\ e.is_secure_connection = c.sc
  BY <1>1 DEF BondEntry, ZeroEntry, EntryFields
<1>3. Owned(e, p)
  BY <1>2 DEF Owned, KeysOf
<1> QED
  BY <1>1, <1>2, <1>3 DEF EntryOK

LEMMA RandomHandled ==
    ASSUME Shapes, NEW h \in Handle, ConnOK(conn[h]), NEW p \in Peer, KeysOf(conn[h], p),
           NEW value, DbOK(db, computed), __sm_recv_pairing_random(h, value)
    PROVE  Handled(h) /\ Stores(p)
<1>1. PICK c : c = [conn[h] EXCEPT !.remote_random = value]
  OBVIOUS
<1>2. Kept(conn[h], c)
  BY <1>1 DEF Kept, ConnOK, ConnFields
<1>3. ConnOK(c) /\ c.addr = conn[h].addr /\ KeysOf(c, p)
  BY <1>2, KeptOK
<1>4. ASSUME NEW n PROVE LET d == [c EXCEPT !.passkey_index = n] IN ConnOK(d) /\ d.addr = conn[h].addr
  <2>1. PICK d : d = [c EXCEPT !.passkey_index = n]
    OBVIOUS
  <2>2. Kept(c, d)
    BY <1>3, <2>1 DEF Kept, ConnOK, ConnFields
  <2> QED
    BY <1>3, <2>1, <2>2, KeptOK
<1>5. ConnOK(Drawn(c)) /\ Drawn(c).addr = conn[h].addr
  <2>1. PICK d : d = Drawn(c)
    OBVIOUS
  <2>2. Kept(c, d)
    BY <1>3, <2>1 DEF Kept, ConnOK, ConnFields, Drawn
  <2> QED
    BY <1>3, <2>1, <2>2, KeptOK
<1> DEFINE c1 == __sm_c1(c.tk, value, c.req, SM_RESP, c.addr, LocalAddr)
           f4 == __sm_f4(c.pk, HostPk, value, c.passkey_r)
<1>6. PICK tag : tag = c1
  OBVIOUS
<1>7. PICK bit : bit = f4
  OBVIOUS
<1> DEFINE Said(d) == \E msgs : Goes(h, d, msgs)
<1>8. /\ Said(c) \/ Said([c EXCEPT !.passkey_index = @ + 1]) \/ Said(Drawn(c))
      /\ NoDialog \/ Opens("compare", h, Compared(c, value))
  <2>1. CASE c.sc /\ c.method = JW
    BY <1>1, <2>1 DEF __sm_recv_pairing_random
  <2>2. CASE c.sc /\ c.method = NC
    BY <1>1, <2>2 DEF __sm_recv_pairing_random, JW, NC
  <2>3. CASE c.sc /\ c.method \in {IIRD, IDRI} /\ bit = c.confirm
    BY <1>1, <1>7, <2>3 DEF __sm_recv_pairing_random, JW, NC, IIRD, IDRI
  <2>4. CASE c.sc /\ c.method \in {IIRD, IDRI} /\ bit # c.confirm
    BY <1>1, <1>7, <2>4 DEF __sm_recv_pairing_random, JW, NC, IIRD, IDRI
  <2>5. CASE ~c.sc /\ tag = c.confirm
    BY <1>1, <1>6, <2>5 DEF __sm_recv_pairing_random
  <2>6. CASE ~c.sc /\ tag # c.confirm
    BY <1>1, <1>6, <2>6 DEF __sm_recv_pairing_random
  <2>7. CASE c.sc /\ c.method \notin {JW, NC, IIRD, IDRI}
    BY <1>1, <2>7 DEF __sm_recv_pairing_random
  <2> QED
    BY <2>1, <2>2, <2>3, <2>4, <2>5, <2>6, <2>7
<1>9. Writes(h)
  <2>1. ASSUME Said(c) PROVE Writes(h)
    BY <1>3, <2>1, GoesWrites
  <2>2. ASSUME NEW d, Said(d), ConnOK(d), d.addr = conn[h].addr PROVE Writes(h)
    BY <2>2, GoesWrites
  <2> HIDE DEF Said
  <2> QED
    BY <1>4, <1>5, <1>8, <2>1, <2>2
<1>10. dialog' # None => dialog'.h = h
  BY <1>8 DEF NoDialog, Opens
<1>11. cmd' = cmd
  BY DEF __sm_recv_pairing_random, NoCmd
<1>12. Stores(p)
  <2>1. CASE ~c.sc /\ tag = c.confirm
    <3>1. PICK ltk : ltk = __sm_s1(c.tk, c.local_random, value)
      OBVIOUS
    <3>2. db' = Store(db, c.addr, BondEntry(c, ltk))
      BY <1>1, <1>6, <2>1, <3>1 DEF __sm_recv_pairing_random
    <3>3. EntryOK(BondEntry(c, ltk), computed) /\ Owned(BondEntry(c, ltk), p)
      BY <1>3, <2>1, BondEntryOK
    <3> QED
      BY <1>3, <3>2, <3>3, StoreKeeps DEF Stores, KeysOf
  <2>2. CASE ~(~c.sc /\ tag = c.confirm)
    <3>1. UNCHANGED db
      BY <1>1, <1>6, <2>2 DEF __sm_recv_pairing_random
    <3> QED
      BY <3>1, SameStores
  <2> QED
    BY <2>1, <2>2
<1> QED
  BY <1>9, <1>10, <1>11, <1>12 DEF Handled

LEMMA CheckHandled ==
    ASSUME Shapes, NEW h \in Handle, ConnOK(conn[h]), NEW p \in Peer, KeysOf(conn[h], p),
           NEW value, Checked(value, computed), DbOK(db, computed),
           __sm_recv_pairing_dhkey_check(h, value)
    PROVE  Handled(h) /\ Stores(p)
<1>1. PICK c : c = conn[h]
  OBVIOUS
<1>2. ConnOK(c) /\ KeysOf(c, p)
  BY <1>1
<1>3. ConnOK(Drawn(c)) /\ Drawn(c).addr = c.addr
  <2>1. PICK d : d = Drawn(c)
    OBVIOUS
  <2>2. Kept(c, d)
    BY <1>2, <2>1 DEF Kept, ConnOK, ConnFields, Drawn
  <2> QED
    BY <1>2, <2>1, <2>2, KeptOK
<1> DEFINE keys == __sm_f5(c.dhkey, c.remote_random, c.local_random, c.addr, LocalAddr)
           ea   == __sm_f6(keys.mackey, c.remote_random, c.local_random, c.tk, iocapOf(c.req),
                           c.addr, LocalAddr)
<1>4. PICK k : k = keys
  OBVIOUS
<1>5. cmd' = cmd /\ dialog' = None
  BY DEF __sm_recv_pairing_dhkey_check, NoCmd, NoDialog
<1>6. CASE value = ea
  <2>1. \E msgs : Goes(h, Drawn(c), msgs)
    BY <1>1, <1>6 DEF __sm_recv_pairing_dhkey_check
  <2>2. db' = Store(db, c.addr, BondEntry(c, k.ltk))
    BY <1>1, <1>4, <1>6 DEF __sm_recv_pairing_dhkey_check
  <2>3. c.sc => [ltk |-> k.ltk, method |-> c.method] \in computed
    BY <1>2, <1>4, <1>6, CheckedKey
  <2>4. EntryOK(BondEntry(c, k.ltk), computed) /\ Owned(BondEntry(c, k.ltk), p)
    BY <1>2, <2>3, BondEntryOK
  <2>5. Stores(p)
    BY <1>2, <2>2, <2>4, StoreKeeps DEF Stores, KeysOf
  <2>6. Writes(h)
    BY <1>1, <1>3, <2>1, GoesWrites
  <2> QED
    BY <1>5, <2>5, <2>6 DEF Handled
<1>7. CASE value # ea
  <2>1. (\E msgs : Goes(h, c, msgs)) /\ UNCHANGED db
    BY <1>1, <1>7 DEF __sm_recv_pairing_dhkey_check
  <2>2. Writes(h)
    BY <1>1, <1>2, <2>1, GoesWrites
  <2> QED
    BY <1>5, <2>1, <2>2, SameStores DEF Handled
<1> QED
  BY <1>6, <1>7

LEMMA KeyHandled ==
    ASSUME Shapes, NEW h \in Handle, ConnOK(conn[h]), NEW p \in Peer, KeysOf(conn[h], p),
           NEW msg, MsgOK(msg, p, computed), DbOK(db, computed), RecvKey(h, msg.op, msg.value)
    PROVE  Handled(h) /\ Stores(p)
<1> DEFINE d == [conn[h] EXCEPT
                  !.received    = @ \cup {msg.op},
                  !.remote_irk  = IF msg.op = "identity_info" THEN msg.value ELSE @,
                  !.remote_addr = IF msg.op = "identity_address" THEN msg.value ELSE @,
                  !.remote_csrk = IF msg.op = "signing_info" THEN msg.value ELSE @]
<1>1. PICK c : c = d
  OBVIOUS
<1>2. /\ DOMAIN c = ConnFields /\ c.addr = conn[h].addr /\ c.req = conn[h].req
      /\ c.method = conn[h].method /\ c.sc = conn[h].sc
      /\ c.remote_irk = IF msg.op = "identity_info" THEN msg.value ELSE conn[h].remote_irk
      /\ c.remote_addr = IF msg.op = "identity_address" THEN msg.value ELSE conn[h].remote_addr
  BY <1>1 DEF ConnOK, ConnFields
<1>3. KeysOf(c, p)
  BY <1>2 DEF KeysOf, MsgOK
<1>4. ConnOK(c)
  BY <1>2, <1>3 DEF ConnOK
<1>5. Goes(h, c, <<>>) /\ db' = __sm_save_device_info(c) /\ dialog' = None /\ cmd' = cmd
  BY <1>1 DEF RecvKey, NoDialog, NoCmd
<1>6. Writes(h)
  BY <1>2, <1>4, <1>5, GoesWrites
<1>7. Stores(p)
  <2> DEFINE new == [__sm_device_db_entry_get(db, c.addr) EXCEPT
                       !.remote_addr = c.remote_addr, !.remote_irk = c.remote_irk,
                       !.remote_csrk = c.remote_csrk]
  <2>1. \/ UNCHANGED db
        \/ Found(db, c.addr) /\ db' = __sm_device_db_entry_update(db, c.addr, new)
    BY <1>5 DEF __sm_save_device_info
  <2>2. CASE UNCHANGED db
    BY <2>2, SameStores
  <2>3. CASE Found(db, c.addr) /\ db' = __sm_device_db_entry_update(db, c.addr, new)
    <3>1. PICK old : old = __sm_device_db_entry_get(db, c.addr)
      OBVIOUS
    <3>2. EntryOK(old, computed)
      BY <1>3, <2>3, <3>1, FoundOwned DEF KeysOf
    <3>3. PICK e : e = new
      OBVIOUS
    <3>4. /\ DOMAIN e = EntryFields /\ e.remote_addr = c.remote_addr /\ e.remote_irk = c.remote_irk
          /\ e.local_ltk = old.local_ltk /\ e.pairing_method = old.pairing_method
          /\ e.is_secure_connection = old.is_secure_connection
      BY <3>1, <3>2, <3>3 DEF EntryOK, EntryFields
    <3>5. Owned(e, p)
      BY <1>3, <3>4 DEF Owned, KeysOf, AddressesOf
    <3>6. EntryOK(e, computed)
      BY <3>2, <3>4, <3>5 DEF EntryOK
    <3> QED
      BY <1>3, <2>3, <3>3, <3>5, <3>6, UpdateKeeps DEF Stores, KeysOf
  <2> QED
    BY <2>1, <2>2, <2>3
<1> QED
  BY <1>5, <1>6, <1>7 DEF Handled

LEMMA PacketHandled ==
    ASSUME Shapes, NEW h \in Handle, ConnOK(conn[h]), NEW p \in Peer, KeysOf(conn[h], p),
           NEW msg, MsgOK(msg, p, computed), DbOK(db, computed), sm_recv(h, msg)
    PROVE  Handled(h) /\ Stores(p)
<1>1. CASE msg.op = "pairing_req"
  <2>1. __sm_recv_pairing_req(h, msg.value)
    BY <1>1 DEF sm_recv, KeyOp
  <2> QED
    BY <2>1, PairingReqHandled
<1>2. CASE msg.op = "pairing_public_key"
  <2>1. __sm_recv_pairing_public_key(h, msg.value)
    BY <1>2 DEF sm_recv, KeyOp
  <2> QED
    BY <2>1, PublicKeyHandled
<1>3. CASE msg.op = "pairing_confirm"
  <2>1. __sm_recv_pairing_confirm(h, msg.value)
    BY <1>3 DEF sm_recv, KeyOp
  <2> QED
    BY <2>1, ConfirmHandled
<1>4. CASE msg.op = "pairing_random"
  <2>1. __sm_recv_pairing_random(h, msg.value)
    BY <1>4 DEF sm_recv, KeyOp
  <2> QED
    BY <2>1, RandomHandled
<1>5. CASE msg.op = "dhkey_check"
  <2>1. Checked(msg.value, computed)
    BY <1>5 DEF MsgOK
  <2>2. __sm_recv_pairing_dhkey_check(h, msg.value)
    BY <1>5 DEF sm_recv, KeyOp
  <2> QED
    BY <2>1, <2>2, CheckHandled
<1>6. CASE msg.op \in KeyOp
  <2>1. RecvKey(h, msg.op, msg.value)
    BY <1>6 DEF sm_recv, KeyOp
  <2> QED
    BY <2>1, KeyHandled
<1>7. CASE msg.op \notin {"pairing_req", "pairing_public_key", "pairing_confirm", "pairing_random",
                          "dhkey_check"} \cup KeyOp
  <2>1. NoDialog /\ NoCmd /\ UNCHANGED <<conn, air, db>>
    BY <1>7 DEF sm_recv
  <2> QED
    BY <2>1, SameWrites, SameStores DEF Handled, NoDialog, NoCmd
<1> QED
  BY <1>1, <1>2, <1>3, <1>4, <1>5, <1>6, <1>7

LEMMA LtkReqHandled ==
    ASSUME Shapes, NEW h \in Handle, ConnOK(conn[h]), NEW p, DbOK(db, computed),
           sm_recv_evt_le_ltk_req(h)
    PROVE  Handled(h) /\ Stores(p)
<1> DEFINE addr == conn[h].addr
           k == IF Found(db, addr)
                THEN [type |-> "ltk_req_reply", h |-> h,
                      ltk |-> __sm_device_db_entry_get(db, addr).local_ltk]
                ELSE [type |-> "ltk_req_neg_reply", h |-> h]
<1>1. PICK c : c = k
  OBVIOUS
<1>2. c.h = h
  BY <1>1
<1>3. SendCmd(c) /\ dialog' = None /\ UNCHANGED <<conn, air, db>>
  BY <1>1 DEF sm_recv_evt_le_ltk_req, NoDialog
<1>4. Writes(h) /\ Stores(p)
  BY <1>3, SameWrites, SameStores
<1>5. cmd' = cmd \/ cmd'.h = h
  BY <1>2, <1>3, SendsCmd
<1> QED
  BY <1>3, <1>4, <1>5 DEF Handled

LEMMA EncryptionHandled ==
    ASSUME Shapes, NEW h \in Handle, ConnOK(conn[h]), NEW p \in Peer, KeysOf(conn[h], p),
           DbOK(db, computed), NEW enabled, sm_recv_evt_encryption_change(h, enabled)
    PROVE  Handled(h) /\ Stores(p)
<1>1. PICK c, entry, auth : /\ c = conn[h] /\ entry = __sm_device_db_entry_get(db, c.addr)
                            /\ auth = IF entry.pairing_method # JW THEN 1 ELSE 0
  OBVIOUS
<1>2. ConnOK(c) /\ KeysOf(c, p) /\ c.addr \in AddressesOf(p)
  BY <1>1 DEF KeysOf
<1>3. cmd' = cmd /\ dialog' = None
  BY DEF sm_recv_evt_encryption_change, NoCmd, NoDialog
<1>4. CASE ~Found(db, c.addr)
  <2>1. UNCHANGED <<conn, air, db>>
    BY <1>1, <1>4 DEF sm_recv_evt_encryption_change
  <2> QED
    BY <1>3, <2>1, SameWrites, SameStores DEF Handled
<1>5. CASE Found(db, c.addr) /\ enabled = 1
  <2>1. PICK d : d = [c EXCEPT !.is_encrypted = 1, !.is_authenticated = auth]
    OBVIOUS
  <2>2. Kept(c, d)
    BY <1>2, <2>1 DEF Kept, ConnOK, ConnFields
  <2>3. PICK new : new = [entry EXCEPT !.is_encrypted = 1, !.is_authenticated = auth]
    OBVIOUS
  <2>4. /\ \E msgs : Goes(h, d, msgs)
        /\ db' = db \/ db' = __sm_device_db_entry_update(db, c.addr, new)
    BY <1>1, <1>5, <2>1, <2>3 DEF sm_recv_evt_encryption_change
  <2>5. EntryOK(entry, computed) /\ Owned(entry, p)
    BY <1>1, <1>2, <1>5, FoundOwned
  <2>6. /\ DOMAIN new = EntryFields /\ new.remote_addr = entry.remote_addr
        /\ new.remote_irk = entry.remote_irk /\ new.local_ltk = entry.local_ltk
        /\ new.pairing_method = entry.pairing_method
        /\ new.is_secure_connection = entry.is_secure_connection
    BY <2>3, <2>5 DEF EntryOK, EntryFields
  <2>7. EntryOK(new, computed) /\ Owned(new, p)
    BY <2>5, <2>6 DEF EntryOK, Owned
  <2>8. Stores(p)
    <3>1. CASE db' = db
      BY <3>1, SameStores
    <3>2. CASE db' = __sm_device_db_entry_update(db, c.addr, new)
      BY <1>2, <2>7, <3>2, UpdateKeeps DEF Stores
    <3> QED
      BY <2>4, <3>1, <3>2
  <2>9. Writes(h)
    BY <1>1, <1>2, <2>2, <2>4, KeptOK, GoesWrites
  <2> QED
    BY <1>3, <2>8, <2>9 DEF Handled
<1>6. CASE Found(db, c.addr) /\ enabled # 1
  <2>1. PICK d : d = [c EXCEPT !.is_encrypted = 0, !.is_authenticated = 0]
    OBVIOUS
  <2>2. Kept(c, d)
    BY <1>2, <2>1 DEF Kept, ConnOK, ConnFields
  <2>3. Goes(h, d, <<>>) /\ db' = __sm_device_db_entry_delete(db, c.addr)
    BY <1>1, <1>6, <2>1 DEF sm_recv_evt_encryption_change
  <2>4. Stores(p)
    BY <1>2, <2>3, DeleteKeeps DEF Stores
  <2>5. Writes(h)
    BY <1>1, <1>2, <2>2, <2>3, KeptOK, GoesWrites
  <2> QED
    BY <1>3, <2>4, <2>5 DEF Handled
<1> QED
  BY <1>4, <1>5, <1>6

-----------------------------------------------------------------------------
(* A step of the host keeps the invariant.                                  *)

\* What a step of the host leaves of the connections, the packets in the air, the dialog and
\* the command.
HostKeeps ==
    /\ DOMAIN conn' = Handle /\ DOMAIN air' = Handle
    /\ \A g \in Handle : conn'[g] # None => ConnOK(conn'[g])
    /\ \A g \in Handle : link[g] = None => air'[g] = air[g]
    /\ dialog' # None /\ dialog'.h \in Handle => conn'[dialog'.h] # None
    /\ cmd' # None => cmd'.h \in Handle

LEMMA HandledKeeps ==
    ASSUME ConnsOK, CmdOK, NEW h \in Handle, conn[h] # None, Handled(h)
    PROVE  HostKeeps /\ SameHolders(conn, conn')
<1>1. conn'[h] # None
  BY ConnNotNone DEF Handled, Writes
<1>2. \A g \in Handle : conn'[g] # None => ConnOK(conn'[g])
  BY DEF Handled, Writes, ConnsOK
<1>3. SameHolders(conn, conn')
  BY <1>1 DEF Handled, Writes, SameHolders
<1> QED
  BY <1>1, <1>2, <1>3 DEF Handled, Writes, HostKeeps, CmdOK

\* The connection that asked last may be gone, and nobody may have asked.
LEMMA DhkeyKeeps ==
    ASSUME Shapes, ConnsOK, CmdOK, DialogOK, NEW e, sm_recv_evt_le_generate_dhkey_complete(e)
    PROVE  HostKeeps /\ SameHolders(conn, conn') /\ db' = db
<1>1. PICK h : h = askedLast
  OBVIOUS
<1>2. cmd' = cmd /\ db' = db
  BY DEF sm_recv_evt_le_generate_dhkey_complete
<1>3. CASE conn[h] = None
  <2>1. dialog' = None /\ conn' = conn /\ air' = air
    BY <1>1, <1>3 DEF sm_recv_evt_le_generate_dhkey_complete, NoDialog
  <2> QED
    BY <1>2, <2>1 DEF HostKeeps, SameHolders, Shapes, ConnsOK, CmdOK
<1>4. CASE conn[h] # None
  <2>1. PICK c : c = [conn[h] EXCEPT !.dhkey = e.dhkey]
    OBVIOUS
  <2>2. PICK d : d = Drawn([c EXCEPT !.tk = 0, !.local_random = sm_generate_random(c)])
    OBVIOUS
  <2>3. /\ \E msgs : \/ Goes(h, c, msgs) \/ Goes(h, d, msgs)
                     \/ \E n \in Passkeys : Goes(h, WithPasskey(c, n), msgs)
        /\ dialog' = None \/ dialog'.h = h
    <3>1. CASE c.method \in {JW, NC}
      BY <1>1, <1>4, <2>1, <2>2, <3>1
         DEF sm_recv_evt_le_generate_dhkey_complete, NoDialog, JW, NC, IIRD, IDRI
    <3>2. CASE c.method = IIRD
      BY <1>1, <1>4, <2>1, <2>2, <3>2
         DEF sm_recv_evt_le_generate_dhkey_complete, Opens, JW, NC, IIRD, IDRI
    <3>3. CASE c.method = IDRI
      BY <1>1, <1>4, <2>1, <2>2, <3>3
         DEF sm_recv_evt_le_generate_dhkey_complete, Opens, JW, NC, IIRD, IDRI
    <3>4. CASE c.method \notin {JW, NC, IIRD, IDRI}
      BY <1>1, <1>4, <2>1, <2>2, <3>4 DEF sm_recv_evt_le_generate_dhkey_complete, NoDialog
    <3> QED
      BY <3>1, <3>2, <3>3, <3>4
  <2>4. PICK c2, msgs : Goes(h, c2, msgs) /\ (c2 = c \/ c2 = d \/ \E n \in Passkeys : c2 = WithPasskey(c, n))
    BY <2>3
  <2>5. CASE h \in Handle
    <3>1. ConnOK(conn[h])
      BY <1>4, <2>5 DEF ConnsOK
    <3>2. Kept(conn[h], c)
      BY <2>1, <3>1 DEF Kept, ConnOK, ConnFields
    <3>3. ConnOK(c) /\ c.addr = conn[h].addr
      BY <3>1, <3>2, KeptOK
    <3>4. Kept(c, c2)
      <4>1. CASE c2 = c
        BY <4>1 DEF Kept
      <4>2. CASE c2 = d
        <5>1. PICK c1 : c1 = [c EXCEPT !.tk = 0, !.local_random = sm_generate_random(c)]
          OBVIOUS
        <5>2. Kept(c, c1)
          BY <3>3, <5>1 DEF Kept, ConnOK, ConnFields
        <5>3. c2 = [c1 EXCEPT !.draws = @ + 1]
          BY <2>2, <4>2, <5>1 DEF Drawn
        <5>4. Kept(c1, c2)
          BY <3>3, <5>2, <5>3 DEF Kept, ConnOK, ConnFields
        <5> QED
          BY <5>2, <5>4 DEF Kept
      <4>3. CASE \E n \in Passkeys : c2 = WithPasskey(c, n)
        BY <3>3, <4>3 DEF Kept, ConnOK, ConnFields, WithPasskey
      <4> QED
        BY <2>4, <4>1, <4>2, <4>3
    <3>5. ConnOK(c2) /\ c2.addr = conn[h].addr
      BY <3>3, <3>4, KeptOK
    <3>6. Writes(h)
      BY <2>4, <2>5, <3>5, GoesWrites
    <3>7. Handled(h)
      BY <1>2, <2>3, <3>6 DEF Handled
    <3> QED
      BY <1>2, <1>4, <2>5, <3>7, HandledKeeps
  <2>6. CASE h \notin Handle
    <3>1. DOMAIN conn' = Handle /\ \A g \in Handle : conn'[g] = conn[g]
      BY <2>4, <2>6 DEF Goes, Shapes
    <3>2. DOMAIN air' = Handle /\ \A g \in Handle : air'[g] = air[g]
      <4>1. CASE link[h] = None
        BY <2>4, <4>1 DEF Goes, sm_send, Shapes
      <4>2. CASE link[h] # None
        BY <2>4, <2>6, <4>2 DEF Goes, sm_send, Shapes
      <4> QED
        BY <4>1, <4>2
    <3> QED
      BY <1>2, <2>3, <2>6, <3>1, <3>2 DEF HostKeeps, SameHolders, ConnsOK, CmdOK
  <2> QED
    BY <2>5, <2>6
<1> QED
  BY <1>3, <1>4

LEMMA NewConnectionOK ==
    ASSUME NEW l, NEW p \in Peer, l.addr \in AddressesOf(p)
    PROVE  ConnOK(NewConnection(l)) /\ NewConnection(l).addr = l.addr
<1>1. PICK c : c = NewConnection(l)
  OBVIOUS
<1>2. /\ DOMAIN c = ConnFields /\ c.addr = l.addr /\ ~c.sc
      /\ c.remote_irk = ZeroKey /\ c.remote_addr = ZeroAddr
  BY <1>1 DEF NewConnection, ConnFields
<1>3. KeysOf(c, p)
  BY <1>2 DEF KeysOf
<1> QED
  BY <1>1, <1>2, <1>3 DEF ConnOK

LEMMA OtherKeeps ==
    ASSUME Shapes, ConnsOK, CmdOK, NEW e, OtherEvent(e),
           e.type = "conn_complete" => \E p \in Peer : e.link.addr \in AddressesOf(p)
    PROVE  HostKeeps /\ Taken(e, conn, conn') /\ db' = db
<1>1. cmd' = cmd /\ db' = db /\ air' = air /\ dialog' = None
  BY DEF OtherEvent, NoDialog
<1>2. CASE e.type = "conn_complete"
  <2>1. PICK p \in Peer : e.link.addr \in AddressesOf(p)
    BY <1>2
  <2>2. PICK c : c = NewConnection(e.link)
    OBVIOUS
  <2>3. ConnOK(c) /\ c.addr = e.link.addr /\ c # None
    BY <2>1, <2>2, NewConnectionOK, ConnNotNone
  <2>4. conn' = [conn EXCEPT ![e.h] = c]
    BY <1>2, <2>2 DEF OtherEvent
  <2> QED
    BY <1>1, <1>2, <2>3, <2>4 DEF HostKeeps, Taken, Turns, Shapes, ConnsOK, CmdOK
<1>3. CASE e.type = "disconn_complete"
  <2>1. conn' = [conn EXCEPT ![e.h] = None]
    BY <1>3 DEF OtherEvent
  <2> QED
    BY <1>1, <1>3, <2>1 DEF HostKeeps, Taken, Turns, Shapes, ConnsOK, CmdOK
<1>4. CASE e.type \notin {"conn_complete", "disconn_complete"}
  <2>1. conn' = conn
    BY <1>4 DEF OtherEvent
  <2> QED
    BY <1>1, <1>4, <2>1 DEF HostKeeps, Taken, Turns, Shapes, ConnsOK, CmdOK
<1> QED
  BY <1>2, <1>3, <1>4

\* An address is of one peer.
LEMMA AddressOfOne ==
    ASSUME NEW p, NEW q, NEW a \in AddressesOf(p), a \in AddressesOf(q)
    PROVE  p = q
<1>1. PICK k : k = a.prand
  OBVIOUS
<1>2. \/ a.type = "public" /\ a.hash = <<"addr", p>>
      \/ a.type = "random" /\ a.hash = <<"aes", <<"irk", p>>, k>>
  BY <1>1, AddressKinds
<1>3. \/ a.type = "public" /\ a.hash = <<"addr", q>>
      \/ a.type = "random" /\ a.hash = <<"aes", <<"irk", q>>, k>>
  BY <1>1, AddressKinds
<1>4. CASE a.type = "public"
  <2>1. <<"addr", p>> = <<"addr", q>>
    BY <1>2, <1>3, <1>4
  <2> QED
    BY <2>1
<1>5. CASE a.type = "random"
  <2>1. <<"aes", <<"irk", p>>, k>> = <<"aes", <<"irk", q>>, k>>
    BY <1>2, <1>3, <1>5
  <2>2. <<"irk", p>> = <<"irk", q>>
    BY <2>1
  <2> QED
    BY <2>2
<1> QED
  BY <1>2, <1>4, <1>5

\* What the host takes from the queue, and what handling it does to connections and bonds.
LEMMA HostReceivesTakes ==
    ASSUME BondsKept, HostReceives, NEW e, e = Head(toHost)
    PROVE  /\ toHost # <<>> /\ toHost' = Tail(toHost) /\ e = toHost[1]
           /\ EventOK(toHost, conn, computed, 1)
           /\ e.type \in Within => e.h \in Handle /\ conn[e.h] # None
           /\ HostKeeps /\ Taken(e, conn, conn') /\ DbOK(db', computed)
           /\ db' = db \/ \E p \in Peer : Affects(db, db', p)
<1>1. /\ Shapes /\ ConnsOK /\ PeersOK /\ Silent /\ DialogOK /\ CmdOK
      /\ QueueOK(toHost, conn, computed) /\ LinksOK(toHost, conn, link)
      /\ DbOK(db, computed)
  BY DEF BondsKept
<1>3. /\ toHost # <<>> /\ toHost' = Tail(toHost)
      /\ UNCHANGED <<link, peer, computed>>
  BY DEF HostReceives, peerVars
<1>4. e = toHost[1] /\ EventOK(toHost, conn, computed, 1)
  <2>1. 1 \in DOMAIN toHost /\ Head(toHost) = toHost[1]
    <3>1. PICK n \in Nat \ {0} : n = Len(toHost)
      BY <1>1, <1>3, TailFacts DEF QueueOK
    <3>2. 1 \in 1 .. n
      OBVIOUS
    <3> QED
      BY <1>1, <1>3, <3>1, <3>2, TailFacts DEF QueueOK
  <2> QED
    BY <1>1, <2>1 DEF QueueOK
<1>5. ASSUME e.type \in Within
      PROVE  /\ e.h \in Handle /\ conn[e.h] # None /\ ConnOK(conn[e.h])
             /\ \E p \in Peer : KeysOf(conn[e.h], p) /\ (e.type = "sm" => MsgOK(e.msg, p, computed))
  <2>1. /\ e.h \in Handle
        /\ \E p \in Peer : \E a \in AddressesOf(p) :
              /\ Under(toHost, conn, 1, e.h, a)
              /\ e.type = "sm" => MsgOK(e.msg, p, computed)
    BY <1>4, <1>5 DEF EventOK
  <2>2. PICK p \in Peer : \E a \in AddressesOf(p) :
              /\ Under(toHost, conn, 1, e.h, a)
              /\ e.type = "sm" => MsgOK(e.msg, p, computed)
    BY <2>1
  <2>3. PICK a \in AddressesOf(p) :
              /\ Under(toHost, conn, 1, e.h, a)
              /\ e.type = "sm" => MsgOK(e.msg, p, computed)
    BY <2>2
  <2>4. conn[e.h] # None /\ conn[e.h].addr = a
    BY <2>3, UnderFront
  <2>5. ConnOK(conn[e.h])
    BY <1>1, <2>1, <2>4 DEF ConnsOK
  <2>6. PICK q \in Peer : KeysOf(conn[e.h], q)
    BY <2>5 DEF ConnOK
  <2>7. q = p
    BY <2>3, <2>4, <2>6, AddressOfOne DEF KeysOf
  <2> QED
    BY <2>1, <2>3, <2>4, <2>5, <2>6, <2>7
<1>6. /\ HostKeeps /\ Taken(e, conn, conn') /\ DbOK(db', computed)
      /\ db' = db \/ \E p \in Peer : Affects(db, db', p)
  <2>1. ASSUME e.type \in Within, NEW p, Handled(e.h), Stores(p), p \in Peer
        PROVE  /\ HostKeeps /\ Taken(e, conn, conn') /\ DbOK(db', computed)
               /\ db' = db \/ \E q \in Peer : Affects(db, db', q)
    <3>1. HostKeeps /\ SameHolders(conn, conn')
      BY <1>1, <1>5, <2>1, HandledKeeps
    <3>2. Taken(e, conn, conn')
      BY <2>1, <3>1 DEF SameHolders, Taken, Turns, Within
    <3> QED
      BY <2>1, <3>1, <3>2 DEF Stores
  <2>2. CASE e.type = "sm"
    <3>1. e.type \in Within
      BY <2>2 DEF Within
    <3>2. PICK p \in Peer : KeysOf(conn[e.h], p) /\ MsgOK(e.msg, p, computed)
      BY <1>5, <2>2, <3>1
    <3>3. sm_recv(e.h, e.msg)
      BY <2>2 DEF HostReceives
    <3>4. Handled(e.h) /\ Stores(p)
      BY <1>1, <1>5, <3>1, <3>2, <3>3, PacketHandled
    <3> QED
      BY <2>1, <3>1, <3>2, <3>4
  <2>3. CASE e.type = "ltk_req"
    <3>1. e.type \in Within
      BY <2>3 DEF Within
    <3>2. PICK p \in Peer : KeysOf(conn[e.h], p)
      BY <1>5, <3>1
    <3>3. sm_recv_evt_le_ltk_req(e.h)
      BY <2>3 DEF HostReceives
    <3>4. Handled(e.h) /\ Stores(p)
      BY <1>1, <1>5, <3>1, <3>3, LtkReqHandled
    <3> QED
      BY <2>1, <3>1, <3>2, <3>4
  <2>4. CASE e.type = "encryption_change"
    <3>1. e.type \in Within
      BY <2>4 DEF Within
    <3>2. PICK p \in Peer : KeysOf(conn[e.h], p)
      BY <1>5, <3>1
    <3>3. sm_recv_evt_encryption_change(e.h, e.enabled)
      BY <2>4 DEF HostReceives
    <3>4. Handled(e.h) /\ Stores(p)
      BY <1>1, <1>5, <3>1, <3>2, <3>3, EncryptionHandled
    <3> QED
      BY <2>1, <3>1, <3>2, <3>4
  <2>5. CASE e.type = "generate_dhkey"
    <3>1. sm_recv_evt_le_generate_dhkey_complete(e)
      BY <2>5 DEF HostReceives
    <3>2. HostKeeps /\ SameHolders(conn, conn') /\ db' = db
      BY <1>1, <3>1, DhkeyKeeps
    <3>3. Taken(e, conn, conn')
      BY <2>5, <3>2 DEF SameHolders, Taken, Turns
    <3> QED
      BY <1>1, <3>2, <3>3
  <2>6. CASE e.type \notin {"sm", "ltk_req", "encryption_change", "generate_dhkey"}
    <3>1. OtherEvent(e)
      BY <2>6 DEF HostReceives
    <3>2. e.type = "conn_complete" => \E p \in Peer : e.link.addr \in AddressesOf(p)
      BY <1>4 DEF EventOK
    <3> QED
      BY <1>1, <3>1, <3>2, OtherKeeps
  <2> QED
    BY <2>2, <2>3, <2>4, <2>5, <2>6
<1> QED
  BY <1>3, <1>4, <1>5, <1>6

LEMMA HostReceivesKeeps ==
    ASSUME BondsKept, HostReceives
    PROVE  BondsKept' /\ (db' = db \/ \E p \in Peer : Affects(db, db', p))
<1>1. /\ Shapes /\ ConnsOK /\ PeersOK /\ Silent /\ DialogOK /\ CmdOK
      /\ QueueOK(toHost, conn, computed) /\ LinksOK(toHost, conn, link)
      /\ DbOK(db, computed)
  BY DEF BondsKept
<1>2. PICK e : e = Head(toHost)
  OBVIOUS
<1>3. /\ toHost # <<>> /\ toHost' = Tail(toHost)
      /\ UNCHANGED <<link, peer, computed>>
  BY DEF HostReceives, peerVars
<1>4. /\ e = toHost[1] /\ EventOK(toHost, conn, computed, 1)
      /\ HostKeeps /\ Taken(e, conn, conn') /\ DbOK(db', computed)
      /\ db' = db \/ \E p \in Peer : Affects(db, db', p)
  BY <1>2, HostReceivesTakes
<1>7. QueueOK(Tail(toHost), conn', computed) /\ LinksOK(Tail(toHost), conn', link)
  BY <1>1, <1>3, <1>4, <1>4, QueueShrinks
<1>8. /\ Shapes' /\ ConnsOK' /\ PeersOK' /\ Silent' /\ DialogOK' /\ CmdOK'
      /\ QueueOK(toHost, conn, computed)' /\ LinksOK(toHost, conn, link)' /\ DbOK(db, computed)'
  <2>1. Shapes' /\ ConnsOK' /\ DialogOK' /\ CmdOK'
    BY <1>1, <1>3, <1>4 DEF HostKeeps, Shapes, ConnsOK, DialogOK, CmdOK
  <2>2. PeersOK' /\ Silent'
    BY <1>1, <1>3, <1>4 DEF HostKeeps, PeersOK, Silent
  <2>3. QueueOK(toHost, conn, computed)' /\ LinksOK(toHost, conn, link)' /\ DbOK(db, computed)'
    BY <1>3, <1>4, <1>7
  <2> QED
    BY <2>1, <2>2, <2>3
<1> QED
  BY <1>4, <1>8 DEF BondsKept

\* An answered dialog leaves the connections the host has.
LEMMA DialogAnsweredLeaves ==
    ASSUME BondsKept, DialogAnswered
    PROVE  /\ DOMAIN conn' = Handle /\ DOMAIN air' = Handle /\ SameHolders(conn, conn')
           /\ \A g \in Handle : conn'[g] # None => ConnOK(conn'[g])
           /\ \A g \in Handle : link[g] = None => air'[g] = air[g]
<1>1. /\ Shapes /\ ConnsOK /\ PeersOK /\ Silent /\ DialogOK /\ CmdOK
      /\ QueueOK(toHost, conn, computed) /\ LinksOK(toHost, conn, link)
      /\ DbOK(db, computed)
  BY DEF BondsKept
<1>2. PICK h : h = dialog.h
  OBVIOUS
<1>3. /\ dialog # None /\ dialog' = None
      /\ UNCHANGED <<db, toHost, cmd, link, peer, computed>>
      /\ DialogShown(h) \/ DialogInput(h) \/ DialogCompare(h)
  BY <1>2 DEF DialogAnswered, ctrlVars, peerVars
<1>4. \/ UNCHANGED <<conn, air>>
      \/ \E c, msgs : /\ Goes(h, c, msgs)
                      /\ \/ c = conn[h] \/ c = [conn[h] EXCEPT !.passkey_num = 0]
                         \/ \E n \in Passkeys : \/ c = WithPasskey(conn[h], n)
                                                \/ c = [conn[h] EXCEPT !.passkey_num = n, !.tk = n]
  <2>1. CASE DialogShown(h)
    BY <2>1 DEF DialogShown
  <2>2. CASE DialogInput(h)
    <3>1. CASE \E msgs : Goes(h, [conn[h] EXCEPT !.passkey_num = 0], msgs)
      BY <3>1
    <3>2. CASE \E n \in Passkeys : \E msgs :
                  \/ Goes(h, WithPasskey(conn[h], n), msgs)
                  \/ Goes(h, [conn[h] EXCEPT !.passkey_num = n, !.tk = n], msgs)
      BY <3>2
    <3> QED
      BY <2>2, <3>1, <3>2 DEF DialogInput
  <2>3. CASE DialogCompare(h)
    BY <2>3 DEF DialogCompare
  <2> QED
    BY <1>3, <2>1, <2>2, <2>3
<1>5. /\ DOMAIN conn' = Handle /\ DOMAIN air' = Handle /\ SameHolders(conn, conn')
      /\ \A g \in Handle : conn'[g] # None => ConnOK(conn'[g])
      /\ \A g \in Handle : link[g] = None => air'[g] = air[g]
  <2>1. CASE UNCHANGED <<conn, air>>
    BY <1>1, <2>1 DEF Shapes, ConnsOK, SameHolders
  <2>2. ASSUME NEW c, NEW msgs, Goes(h, c, msgs),
               \/ c = conn[h] \/ c = [conn[h] EXCEPT !.passkey_num = 0]
               \/ \E n \in Passkeys : \/ c = WithPasskey(conn[h], n)
                                      \/ c = [conn[h] EXCEPT !.passkey_num = n, !.tk = n]
        PROVE  /\ DOMAIN conn' = Handle /\ DOMAIN air' = Handle /\ SameHolders(conn, conn')
               /\ \A g \in Handle : conn'[g] # None => ConnOK(conn'[g])
               /\ \A g \in Handle : link[g] = None => air'[g] = air[g]
    <3>1. CASE h \in Handle
      <4>1. conn[h] # None /\ ConnOK(conn[h])
        BY <1>1, <1>2, <1>3, <3>1 DEF DialogOK, ConnsOK
      <4>2. Kept(conn[h], c)
        <5>1. \A n \in Passkeys :
                /\ Kept(conn[h], WithPasskey(conn[h], n))
                /\ Kept(conn[h], [conn[h] EXCEPT !.passkey_num = n, !.tk = n])
          BY <4>1, PasskeyKept DEF ConnOK
        <5>2. Kept(conn[h], conn[h]) /\ Kept(conn[h], [conn[h] EXCEPT !.passkey_num = 0])
          BY <4>1, PasskeyKept DEF Kept, ConnOK
        <5> QED
          BY <2>2, <5>1, <5>2
      <4>3. ConnOK(c) /\ c.addr = conn[h].addr
        BY <4>1, <4>2, KeptOK
      <4>4. Writes(h)
        BY <1>1, <2>2, <3>1, <4>3, GoesWrites
      <4>5. conn'[h] # None
        BY <4>4, ConnNotNone DEF Writes
      <4> QED
        BY <1>1, <4>1, <4>4, <4>5 DEF Writes, SameHolders, ConnsOK
    <3>2. CASE h \notin Handle
      <4>1. DOMAIN conn' = Handle /\ \A g \in Handle : conn'[g] = conn[g]
        BY <1>1, <2>2, <3>2 DEF Goes, Shapes
      <4>2. DOMAIN air' = Handle /\ \A g \in Handle : air'[g] = air[g]
        <5>1. CASE link[h] = None
          BY <1>1, <2>2, <5>1 DEF Goes, sm_send, Shapes
        <5>2. CASE link[h] # None
          BY <1>1, <2>2, <3>2, <5>2 DEF Goes, sm_send, Shapes
        <5> QED
          BY <5>1, <5>2
      <4> QED
        BY <1>1, <4>1, <4>2 DEF SameHolders, ConnsOK
    <3> QED
      BY <3>1, <3>2
  <2> QED
    BY <1>4, <2>1, <2>2
<1> QED
  BY <1>5

LEMMA DialogAnsweredKeeps ==
    ASSUME BondsKept, DialogAnswered
    PROVE  BondsKept' /\ db' = db
<1>1. /\ Shapes /\ ConnsOK /\ PeersOK /\ Silent /\ DialogOK /\ CmdOK
      /\ QueueOK(toHost, conn, computed) /\ LinksOK(toHost, conn, link)
      /\ DbOK(db, computed)
  BY DEF BondsKept
<1>2. dialog' = None /\ UNCHANGED <<db, toHost, cmd, link, peer, computed>>
  BY DEF DialogAnswered, ctrlVars, peerVars
<1>3. /\ DOMAIN conn' = Handle /\ DOMAIN air' = Handle /\ SameHolders(conn, conn')
      /\ \A g \in Handle : conn'[g] # None => ConnOK(conn'[g])
      /\ \A g \in Handle : link[g] = None => air'[g] = air[g]
  BY DialogAnsweredLeaves
<1>4. QueueOK(toHost, conn', computed) /\ LinksOK(toHost, conn', link)
  BY <1>1, <1>3, QueueSame
<1>5. /\ Shapes' /\ ConnsOK' /\ PeersOK' /\ Silent' /\ DialogOK' /\ CmdOK'
      /\ QueueOK(toHost, conn, computed)' /\ LinksOK(toHost, conn, link)' /\ DbOK(db, computed)'
  <2>1. Shapes' /\ ConnsOK' /\ DialogOK' /\ CmdOK'
    BY <1>1, <1>2, <1>3 DEF Shapes, ConnsOK, DialogOK, CmdOK
  <2>2. PeersOK' /\ Silent'
    BY <1>1, <1>2, <1>3 DEF PeersOK, Silent
  <2>3. QueueOK(toHost, conn, computed)' /\ LinksOK(toHost, conn, link)' /\ DbOK(db, computed)'
    BY <1>1, <1>2, <1>4
  <2> QED
    BY <2>1, <2>2, <2>3
<1> QED
  BY <1>2, <1>5 DEF BondsKept

-----------------------------------------------------------------------------
(* What peers and the controller put into the queue.                        *)

PacketsOK(msgs, p, comp) == Sequence(msgs) /\ \A i \in DOMAIN msgs : MsgOK(msgs[i], p, comp)

LEMMA ShortSequences ==
    /\ Sequence(<<>>) /\ DOMAIN <<>> = {}
    /\ \A a : Sequence(<<a>>) /\ \A i \in DOMAIN <<a>> : <<a>>[i] = a
    /\ \A a, b : Sequence(<<a, b>>) /\ \A i \in DOMAIN <<a, b>> : <<a, b>>[i] \in {a, b}
<1>1. \A a, b : <<>> \in Seq({a, b}) /\ <<a>> \in Seq({a, b}) /\ <<a, b>> \in Seq({a, b})
  OBVIOUS
<1>2. Sequence(<<>>) /\ DOMAIN <<>> = {}
  <2>1. PICK s : s = <<>>
    OBVIOUS
  <2>2. s \in Seq({0}) /\ DOMAIN s = {}
    BY <2>1
  <2> QED
    BY <2>1, <2>2, SequenceOf
<1>3. ASSUME NEW a PROVE Sequence(<<a>>) /\ \A i \in DOMAIN <<a>> : <<a>>[i] = a
  <2>1. PICK s : s = <<a>>
    OBVIOUS
  <2>2. s \in Seq({a, a}) /\ \A i \in DOMAIN s : s[i] = a
    BY <1>1, <2>1
  <2> QED
    BY <2>1, <2>2, SequenceOf
<1>4. ASSUME NEW a, NEW b
      PROVE  Sequence(<<a, b>>) /\ \A i \in DOMAIN <<a, b>> : <<a, b>>[i] \in {a, b}
  <2>1. PICK s : s = <<a, b>>
    OBVIOUS
  <2>2. s \in Seq({a, b}) /\ \A i \in DOMAIN s : s[i] \in {a, b}
    BY <1>1, <2>1
  <2> QED
    BY <2>1, <2>2, SequenceOf
<1> QED
  BY <1>2, <1>3, <1>4

LEMMA NoPackets == ASSUME NEW p, NEW comp PROVE PacketsOK(<<>>, p, comp)
<1>1. Sequence(<<>>) /\ DOMAIN <<>> = {}
  BY ShortSequences
<1> QED
  BY <1>1 DEF PacketsOK

LEMMA OnePacket ==
    ASSUME NEW m, NEW p, NEW comp, MsgOK(m, p, comp) PROVE PacketsOK(<<m>>, p, comp)
<1>1. Sequence(<<m>>) /\ \A i \in DOMAIN <<m>> : <<m>>[i] = m
  BY ShortSequences
<1> QED
  BY <1>1 DEF PacketsOK

LEMMA TwoPackets ==
    ASSUME NEW m, NEW l, NEW p, NEW comp, MsgOK(m, p, comp), MsgOK(l, p, comp)
    PROVE  PacketsOK(<<m, l>>, p, comp)
<1>1. Sequence(<<m, l>>) /\ \A i \in DOMAIN <<m, l>> : <<m, l>>[i] = m \/ <<m, l>>[i] = l
  BY ShortSequences
<1> QED
  BY <1>1 DEF PacketsOK

LEMMA PacketsJoin ==
    ASSUME NEW s, NEW t, NEW p, NEW comp, PacketsOK(s, p, comp), PacketsOK(t, p, comp)
    PROVE  PacketsOK(s \o t, p, comp)
<1>1. PICK q, n, m : q = s \o t /\ n = Len(s) /\ m = Len(t)
  OBVIOUS
<1>2. /\ Sequence(q) /\ n \in Nat /\ m \in Nat /\ DOMAIN q = 1 .. n + m
      /\ DOMAIN s = 1 .. n /\ DOMAIN t = 1 .. m
      /\ \A i \in 1 .. n : q[i] = s[i]
      /\ \A i \in 1 .. m : q[n + i] = t[i]
  BY <1>1, ConcatFacts, SequenceFacts DEF PacketsOK
<1>3. ASSUME NEW i \in DOMAIN q PROVE MsgOK(q[i], p, comp)
  <2>1. CASE i \in 1 .. n
    BY <1>2, <2>1 DEF PacketsOK
  <2>2. CASE i \notin 1 .. n
    <3>1. i - n \in 1 .. m /\ n + (i - n) = i
      BY <1>2, <2>2
    <3>2. q[i] = t[i - n]
      BY <1>2, <3>1
    <3> QED
      BY <1>2, <3>1, <3>2 DEF PacketsOK
  <2> QED
    BY <2>1, <2>2
<1> QED
  BY <1>1, <1>2, <1>3 DEF PacketsOK

LEMMA PacketEvents ==
    ASSUME NEW msgs, NEW h, NEW p, NEW comp, PacketsOK(msgs, p, comp),
           NEW t, t = [i \in DOMAIN msgs |-> [type |-> "sm", h |-> h, msg |-> msgs[i]]]
    PROVE  Events(t, h, p, comp)
<1>1. PICK n \in Nat : n = Len(msgs) /\ DOMAIN msgs = 1 .. n
  BY SequenceFacts DEF PacketsOK
<1>2. DOMAIN t = 1 .. n /\ t = [i \in 1 .. n |-> t[i]]
  BY <1>1
<1>3. Sequence(t)
  BY <1>2, MappedSequence
<1>4. ASSUME NEW i \in DOMAIN t
      PROVE  t[i].type = "sm" /\ t[i].h = h /\ MsgOK(t[i].msg, p, comp)
  <2>1. i \in DOMAIN msgs /\ t[i] = [type |-> "sm", h |-> h, msg |-> msgs[i]]
    BY <1>1, <1>2
  <2>2. t[i].type = "sm" /\ t[i].h = h /\ t[i].msg = msgs[i]
    BY <2>1
  <2> QED
    BY <2>1, <2>2 DEF PacketsOK
<1> QED
  BY <1>3, <1>4 DEF Events

LEMMA OneEvent ==
    ASSUME NEW e, NEW h, NEW p, NEW comp,
           e.type \notin {"sm", "conn_complete", "disconn_complete"}, e.type \in Within => e.h = h
    PROVE  Events(<<e>>, h, p, comp)
<1>1. Sequence(<<e>>) /\ \A i \in DOMAIN <<e>> : <<e>>[i] = e
  BY ShortSequences
<1> QED
  BY <1>1 DEF Events

LEMMA TwoEvents ==
    ASSUME NEW e, NEW f, NEW h, NEW p, NEW comp,
           e.type \notin {"sm", "conn_complete", "disconn_complete"}, e.type \in Within => e.h = h,
           f.type \notin {"sm", "conn_complete", "disconn_complete"}, f.type \in Within => f.h = h
    PROVE  Events(<<e, f>>, h, p, comp)
<1>1. Sequence(<<e, f>>) /\ \A i \in DOMAIN <<e, f>> : <<e, f>>[i] = e \/ <<e, f>>[i] = f
  BY ShortSequences
<1> QED
  BY <1>1 DEF Events

LEMMA NoEvents == ASSUME NEW h, NEW p, NEW comp PROVE Events(<<>>, h, p, comp)
<1>1. Sequence(<<>>) /\ DOMAIN <<>> = {}
  BY ShortSequences
<1> QED
  BY <1>1 DEF Events

\* The keys a peer sends are its own.
LEMMA KeysSentEvents ==
    ASSUME NEW h, NEW p, p = link[h].peer, NEW comp PROVE Events(KeysSent(h), h, p, comp)
<1> DEFINE only(kind, msgs) == IF kind \in peer[h].req.idist \cap SM_RESP.idist THEN msgs ELSE <<>>
           csrk == <<"csrk", p, link[h].n, peer[h].draws>>
<1>1. PICK m1, m2, m3 : /\ m1 = Msg("identity_info", Irk(p)) /\ m2 = Msg("identity_address", Public(p))
                        /\ m3 = Msg("signing_info", csrk)
  OBVIOUS
<1>2. MsgOK(m1, p, comp) /\ MsgOK(m2, p, comp) /\ MsgOK(m3, p, comp)
  BY <1>1 DEF MsgOK, Msg
<1>3. PICK id, sign : id = only("ID", <<m1, m2>>) /\ sign = only("SIGN", <<m3>>)
  OBVIOUS
<1>4. PacketsOK(id, p, comp) /\ PacketsOK(sign, p, comp)
  BY <1>2, <1>3, NoPackets, OnePacket, TwoPackets
<1>5. PICK msgs : msgs = id \o sign
  OBVIOUS
<1>6. PacketsOK(msgs, p, comp)
  BY <1>4, <1>5, PacketsJoin
<1>7. KeysSent(h) = [i \in DOMAIN msgs |-> [type |-> "sm", h |-> h, msg |-> msgs[i]]]
  BY <1>1, <1>3, <1>5 DEF KeysSent
<1> QED
  BY <1>6, <1>7, PacketEvents

-----------------------------------------------------------------------------
(* A step of a peer keeps the invariant.                                    *)

\* The peer under h goes on, and what it puts into the queue is its own.
PeerKeeps(h) ==
    /\ DOMAIN peer' = Handle /\ PeerOK(peer'[h])
    /\ \A g \in Handle : g # h => peer'[g] = peer[g]
    /\ computed \subseteq computed'
    /\ QueueOK(toHost', conn, computed') /\ LinksOK(toHost', conn, link)

Linked(h) ==
    /\ h \in Handle /\ link[h] # None /\ DOMAIN peer = Handle /\ PeerOK(peer[h])
    /\ QueueOK(toHost, conn, computed) /\ LinksOK(toHost, conn, link)

\* The peer knows what it was asked for and how the pairing is authenticated.
Knows(st) == DOMAIN st = PeerFields /\ st.req \in Offers /\ st.method = PeerMethod(st.req)

LEMMA KnowsOK ==
    ASSUME NEW st, Knows(st),
           st.step = "compare" => IsSecureConnection(st.req) /\ st.method = NC
    PROVE  PeerOK(st)
  BY DEF Knows, PeerOK

LEMMA RestsOK ==
    ASSUME NEW st, DOMAIN st = PeerFields, st.step \in {"idle", "encrypt", "keys"}
    PROVE  PeerOK(st)
  BY DEF PeerOK

LEMMA SaysKeeps ==
    ASSUME NEW h, Linked(h), NEW st, PeerOK(st), NEW msgs, computed \subseteq computed',
           PacketsOK(msgs, link[h].peer, computed'), PeerSays(h, st, msgs)
    PROVE  PeerKeeps(h)
<1>1. PICK t : t = FromPeer(h, msgs)
  OBVIOUS
<1>2. Events(t, h, link[h].peer, computed')
  BY <1>1, PacketEvents DEF FromPeer
<1>3. toHost' = toHost \o t /\ peer' = [peer EXCEPT ![h] = st]
  BY <1>1 DEF PeerSays
<1>4. QueueOK(toHost \o t, conn, computed') /\ LinksOK(toHost \o t, conn, link)
  BY <1>2, QueueGrows DEF Linked
<1>5. DOMAIN peer' = Handle /\ peer'[h] = st /\ \A g \in Handle : g # h => peer'[g] = peer[g]
  BY <1>3 DEF Linked
<1> QED
  BY <1>3, <1>4, <1>5 DEF PeerKeeps

\* Packets other than keys and checks.
LEMMA SaysPlainly ==
    ASSUME NEW h, Linked(h), NEW st, PeerOK(st), UNCHANGED computed, NEW m, PeerSays(h, st, <<m>>),
           m.op \notin {"identity_info", "identity_address", "dhkey_check"}
    PROVE  PeerKeeps(h)
<1>1. MsgOK(m, link[h].peer, computed')
  BY DEF MsgOK
<1> QED
  BY <1>1, OnePacket, SaysKeeps

LEMMA SaysNothing ==
    ASSUME NEW h, Linked(h), NEW st, PeerOK(st), UNCHANGED computed, PeerSays(h, st, <<>>)
    PROVE  PeerKeeps(h)
<1>1. PacketsOK(<<>>, link[h].peer, computed')
  BY NoPackets
<1> QED
  BY <1>1, SaysKeeps

LEMMA AbortKeeps ==
    ASSUME NEW h, Linked(h), UNCHANGED computed, PeerAborts(h) PROVE PeerKeeps(h)
<1>1. PICK st, m : st = [peer[h] EXCEPT !.step = "idle", !.pairing = FALSE] /\ m = Failed("PEER")
  OBVIOUS
<1>2. DOMAIN st = PeerFields /\ st.step = "idle"
  BY <1>1 DEF Linked, PeerOK, PeerFields
<1>3. m.op = "pairing_failed"
  BY <1>1 DEF Failed, Msg
<1>4. PeerSays(h, st, <<m>>)
  BY <1>1 DEF PeerAborts
<1> QED
  BY <1>2, <1>3, <1>4, RestsOK, SaysPlainly

\* The peer has the link encrypted: the host is asked for its key.
LEMMA EncryptionKeeps ==
    ASSUME NEW h, Linked(h), NEW st, DOMAIN st = PeerFields, computed \subseteq computed',
           PeerStartsEncryption(h, st)
    PROVE  PeerKeeps(h)
<1>1. PICK e, st2 : e = [type |-> "ltk_req", h |-> h] /\ st2 = [st EXCEPT !.step = "encrypt"]
  OBVIOUS
<1>2. e.type = "ltk_req" /\ e.h = h /\ DOMAIN st2 = PeerFields /\ st2.step = "encrypt"
  BY <1>1 DEF PeerFields
<1>3. toHost' = Append(toHost, e) /\ peer' = [peer EXCEPT ![h] = st2]
  BY <1>1 DEF PeerStartsEncryption
<1>4. toHost' = toHost \o <<e>>
  BY <1>3, AppendOne DEF Linked, QueueOK
<1>5. Events(<<e>>, h, link[h].peer, computed')
  BY <1>2, OneEvent
<1>6. QueueOK(toHost', conn, computed') /\ LinksOK(toHost', conn, link)
  <2>1. QueueOK(toHost \o <<e>>, conn, computed') /\ LinksOK(toHost \o <<e>>, conn, link)
    BY <1>5, QueueGrows DEF Linked
  <2> QED
    BY <1>4, <2>1
<1>7. DOMAIN peer' = Handle /\ peer'[h] = st2 /\ \A g \in Handle : g # h => peer'[g] = peer[g]
  BY <1>3 DEF Linked
<1> QED
  BY <1>2, <1>6, <1>7, RestsOK DEF PeerKeeps

\* A peer that sends its check has computed the key of it.
LEMMA ChecksKeeps ==
    ASSUME NEW h, Linked(h), NEW st, Knows(st), IsSecureConnection(st.req),
           st.random = peer[h].random, PeerChecks(h, st)
    PROVE  PeerKeeps(h)
<1>1. PICK w, a, n1, n2 : /\ w = DhKey(Pk(link[h].peer)) /\ a = link[h].addr
                          /\ n1 = st.random /\ n2 = st.host_random
  OBVIOUS
<1>2. PICK keys : keys = __sm_f5(w, n1, n2, a, LocalAddr)
  OBVIOUS
<1>3. PeerKeys(h, st.host_random) = keys
  BY <1>1, <1>2 DEF PeerKeys
<1>4. PICK value : value = __sm_f6(keys.mackey, n1, n2, st.tk, iocapOf(st.req), a, LocalAddr)
  OBVIOUS
<1>5. PICK st2 : st2 = [st EXCEPT !.step = "check", !.ltk = keys.ltk]
  OBVIOUS
<1>6. /\ PeerSays(h, st2, <<Msg("dhkey_check", value)>>)
      /\ computed' = computed \cup {[ltk |-> keys.ltk, method |-> st.method]}
  BY <1>1, <1>3, <1>4, <1>5 DEF PeerChecks
<1>7. Checked(value, computed')
  <2>1. [ltk |-> keys.ltk, method |-> PeerMethod(st.req)] \in computed'
    BY <1>6 DEF Knows
  <2>2. st.req \in Offers
    BY DEF Knows
  <2> QED
    BY <1>2, <1>4, <2>1, <2>2 DEF Checked
<1>8. PICK m : m = Msg("dhkey_check", value)
  OBVIOUS
<1>9. MsgOK(m, link[h].peer, computed')
  BY <1>7, <1>8 DEF MsgOK, Msg
<1>10. PeerOK(st2)
  BY <1>5 DEF Knows, PeerFields, PeerOK
<1>11. PacketsOK(<<m>>, link[h].peer, computed') /\ PeerSays(h, st2, <<m>>) /\ computed \subseteq computed'
  BY <1>6, <1>8, <1>9, OnePacket
<1> QED
  BY <1>10, <1>11, SaysKeeps

\* A peer that knows the method says something else and goes on to a step.
LEMMA KnowsAndSays ==
    ASSUME NEW h, Linked(h), NEW st, Knows(st), st.step # "compare", UNCHANGED computed,
           \/ PeerSays(h, st, <<>>)
           \/ \E m : /\ PeerSays(h, st, <<m>>)
                     /\ m.op \notin {"identity_info", "identity_address", "dhkey_check"}
    PROVE  PeerKeeps(h)
<1>1. PeerOK(st)
  BY KnowsOK
<1> QED
  BY <1>1, SaysPlainly, SaysNothing

LEMMA ConfirmsKeeps ==
    ASSUME NEW h, Linked(h), Knows(peer[h]), UNCHANGED computed, NEW tk, NEW round,
           PeerConfirms(h, tk, round)
    PROVE  PeerKeeps(h)
<1>1. PICK st : st = [peer[h] EXCEPT !.step = "confirm", !.tk = tk, !.round = round,
                                     !.random = PeerRandom(h), !.draws = @ + 1]
  OBVIOUS
<1>2. Knows(st) /\ st.step = "confirm"
  BY <1>1 DEF Knows, PeerFields
<1>3. \E c : PeerSays(h, st, <<Msg("pairing_confirm", c)>>)
  BY <1>1 DEF PeerConfirms
<1>4. PICK c : PeerSays(h, st, <<Msg("pairing_confirm", c)>>)
  BY <1>3
<1>5. Msg("pairing_confirm", c).op = "pairing_confirm"
  BY DEF Msg
<1> QED
  BY <1>2, <1>4, <1>5, KnowsAndSays

LEMMA ResponseKeeps ==
    ASSUME NEW h, Linked(h), peer[h].step = "resp", UNCHANGED computed, PeerGetsResponse(h)
    PROVE  PeerKeeps(h)
<1>1. PICK m, st : m = PeerMethod(peer[h].req) /\ st = [peer[h] EXCEPT !.method = m]
  OBVIOUS
<1>2. Knows(st)
  BY <1>1 DEF Linked, PeerOK, Knows, PeerFields
<1>3. \/ PeerSays(h, [st EXCEPT !.step = "pk"], <<Msg("pairing_public_key", Pk(link[h].peer))>>)
      \/ PeerSays(h, [st EXCEPT !.step = "enter"], <<>>)
      \/ PeerSays(h, [st EXCEPT !.step = "begin"], <<>>)
  <2>1. st.req = peer[h].req
    BY <1>1, <1>2 DEF Knows, PeerFields
  <2>2. CASE IsSecureConnection(st.req)
    BY <1>1, <2>2 DEF PeerGetsResponse
  <2>3. CASE ~IsSecureConnection(st.req) /\ m = IIRD
    BY <1>1, <2>3 DEF PeerGetsResponse
  <2>4. CASE ~IsSecureConnection(st.req) /\ m # IIRD
    BY <1>1, <2>4 DEF PeerGetsResponse
  <2> QED
    BY <2>2, <2>3, <2>4
<1>4. ASSUME NEW s PROVE LET n == [st EXCEPT !.step = s] IN Knows(n) /\ n.step = s
  BY <1>2 DEF Knows, PeerFields
<1>5. Msg("pairing_public_key", Pk(link[h].peer)).op = "pairing_public_key"
  BY DEF Msg
<1>6. CASE PeerSays(h, [st EXCEPT !.step = "pk"], <<Msg("pairing_public_key", Pk(link[h].peer))>>)
  BY <1>4, <1>5, <1>6, KnowsAndSays
<1>7. CASE PeerSays(h, [st EXCEPT !.step = "enter"], <<>>)
  BY <1>4, <1>7, KnowsAndSays
<1>8. CASE PeerSays(h, [st EXCEPT !.step = "begin"], <<>>)
  BY <1>4, <1>8, KnowsAndSays
<1> QED
  BY <1>3, <1>6, <1>7, <1>8

LEMMA EventsJoin ==
    ASSUME NEW s, NEW t, NEW h, NEW p, NEW comp, Events(s, h, p, comp), Events(t, h, p, comp)
    PROVE  Events(s \o t, h, p, comp)
<1>1. PICK q, n, m : q = s \o t /\ n = Len(s) /\ m = Len(t)
  OBVIOUS
<1>2. /\ Sequence(q) /\ n \in Nat /\ m \in Nat /\ DOMAIN q = 1 .. n + m
      /\ DOMAIN s = 1 .. n /\ DOMAIN t = 1 .. m
      /\ \A i \in 1 .. n : q[i] = s[i]
      /\ \A i \in 1 .. m : q[n + i] = t[i]
  BY <1>1, ConcatFacts, SequenceFacts DEF Events
<1>3. ASSUME NEW i \in DOMAIN q
      PROVE  (\E j \in DOMAIN s : q[i] = s[j]) \/ (\E j \in DOMAIN t : q[i] = t[j])
  <2>1. CASE i \in 1 .. n
    BY <1>2, <2>1
  <2>2. CASE i \notin 1 .. n
    <3>1. i - n \in 1 .. m /\ n + (i - n) = i
      BY <1>2, <2>2
    <3> QED
      BY <1>2, <3>1
  <2> QED
    BY <2>1, <2>2
<1>4. Events(q, h, p, comp)
  BY <1>2, <1>3 DEF Events
<1> QED
  BY <1>1, <1>4

LEMMA JoinAssociative ==
    ASSUME NEW s, NEW t, NEW u, Sequence(s), Sequence(t), Sequence(u)
    PROVE  (s \o t) \o u = s \o (t \o u)
<1> DEFINE S == {s[i] : i \in DOMAIN s} \cup {t[i] : i \in DOMAIN t} \cup {u[i] : i \in DOMAIN u}
<1>1. s \in Seq(S) /\ t \in Seq(S) /\ u \in Seq(S)
  BY SeqMonotonic DEF Sequence
<1> HIDE DEF S
<1> QED
  BY <1>1, ConcatAssociative

LEMMA PublicKeyKeeps ==
    ASSUME NEW h, Linked(h), Knows(peer[h]), UNCHANGED computed, PeerGetsPublicKey(h)
    PROVE  PeerKeeps(h)
<1>1. PICK st, r : st = peer[h] /\ r = PeerRandom(h)
  OBVIOUS
<1>2. PICK st2 : st2 = [st EXCEPT !.step = "random", !.random = r, !.draws = @ + 1]
  OBVIOUS
<1>3. Knows(st2) /\ st2.step = "random"
  BY <1>1, <1>2 DEF Knows, PeerFields
<1>4. ASSUME NEW s PROVE LET n == [st EXCEPT !.step = s] IN Knows(n) /\ n.step = s
  BY <1>1 DEF Knows, PeerFields
<1>5. \/ \E s \in {"confirm", "enter", "begin"} : PeerSays(h, [st EXCEPT !.step = s], <<>>)
      \/ PeerSays(h, st2, <<Msg("pairing_random", r)>>)
  <2>1. CASE st.method \in {JW, NC}
    BY <1>1, <2>1 DEF PeerGetsPublicKey, JW, NC, IIRD, IDRI
  <2>2. CASE st.method = IIRD
    BY <1>1, <2>2 DEF PeerGetsPublicKey, JW, NC, IIRD, IDRI
  <2>3. CASE st.method = IDRI
    BY <1>1, <2>3 DEF PeerGetsPublicKey, JW, NC, IIRD, IDRI
  <2>4. CASE st.method \notin {JW, NC, IIRD, IDRI}
    BY <1>1, <1>2, <2>4 DEF PeerGetsPublicKey
  <2> QED
    BY <2>1, <2>2, <2>3, <2>4
<1>6. CASE \E s \in {"confirm", "enter", "begin"} : PeerSays(h, [st EXCEPT !.step = s], <<>>)
  <2>1. PICK s \in {"confirm", "enter", "begin"} : PeerSays(h, [st EXCEPT !.step = s], <<>>)
    BY <1>6
  <2>2. PICK n : n = [st EXCEPT !.step = s]
    OBVIOUS
  <2>3. Knows(n) /\ n.step # "compare"
    BY <1>4, <2>2
  <2> QED
    BY <2>1, <2>2, <2>3, KnowsAndSays
<1>7. CASE PeerSays(h, st2, <<Msg("pairing_random", r)>>)
  <2>1. Msg("pairing_random", r).op = "pairing_random"
    BY DEF Msg
  <2> QED
    BY <1>3, <1>7, <2>1, KnowsAndSays
<1> QED
  BY <1>5, <1>6, <1>7

LEMMA ConfirmKeeps ==
    ASSUME NEW h, Linked(h), Knows(peer[h]), UNCHANGED computed, NEW value, PeerGetsConfirm(h, value)
    PROVE  PeerKeeps(h)
<1>1. PICK st : st = [peer[h] EXCEPT !.step = "random", !.confirm = value]
  OBVIOUS
<1>2. Knows(st) /\ st.step = "random"
  BY <1>1 DEF Knows, PeerFields
<1>3. \E r, d : PeerSays(h, [st EXCEPT !.random = r, !.draws = d], <<Msg("pairing_random", r)>>)
  BY <1>1 DEF PeerGetsConfirm
<1>4. PICK r : \E d : PeerSays(h, [st EXCEPT !.random = r, !.draws = d], <<Msg("pairing_random", r)>>)
  BY <1>3
<1>5. PICK d : PeerSays(h, [st EXCEPT !.random = r, !.draws = d], <<Msg("pairing_random", r)>>)
  BY <1>4
<1>6. PICK st2 : st2 = [st EXCEPT !.random = r, !.draws = d]
  OBVIOUS
<1>7. Knows(st2) /\ st2.step = "random"
  BY <1>2, <1>6 DEF Knows, PeerFields
<1>8. Msg("pairing_random", r).op = "pairing_random"
  BY DEF Msg
<1> QED
  BY <1>5, <1>6, <1>7, <1>8, KnowsAndSays

LEMMA RandomKeeps ==
    ASSUME NEW h, Linked(h), Knows(peer[h]), NEW value, PeerGetsRandom(h, value)
    PROVE  PeerKeeps(h)
<1>1. PICK st : st = [peer[h] EXCEPT !.host_random = value]
  OBVIOUS
<1>2. Knows(st) /\ st.random = peer[h].random
  BY <1>1 DEF Knows, PeerFields
<1> DEFINE bit  == IF st.method \in {JW, NC} THEN 0 ELSE 128 + Bit(st.tk, st.round)
           told == IF IsSecureConnection(st.req) THEN __sm_f4(HostPk, Pk(link[h].peer), value, bit)
                   ELSE __sm_c1(st.tk, value, st.req, SM_RESP, link[h].addr, LocalAddr)
<1>3. PICK seen, stk : seen = told /\ stk = __sm_s1(st.tk, value, st.random)
  OBVIOUS
<1>4. CASE seen # st.confirm
  BY <1>1, <1>3, <1>4, AbortKeeps DEF PeerGetsRandom
<1>5. CASE seen = st.confirm /\ ~IsSecureConnection(st.req)
  <2>1. /\ PeerStartsEncryption(h, [st EXCEPT !.ltk = stk])
        /\ computed' = computed \cup {[ltk |-> stk, method |-> st.method]}
    BY <1>1, <1>3, <1>5 DEF PeerGetsRandom
  <2>2. PICK st2 : st2 = [st EXCEPT !.ltk = stk]
    OBVIOUS
  <2>3. DOMAIN st2 = PeerFields /\ computed \subseteq computed'
    BY <1>2, <2>1, <2>2 DEF Knows, PeerFields
  <2> QED
    BY <2>1, <2>2, <2>3, EncryptionKeeps
<1>6. CASE seen = st.confirm /\ IsSecureConnection(st.req) /\ st.method = NC
  <2>1. PeerSays(h, [st EXCEPT !.step = "compare"], <<>>) /\ UNCHANGED computed
    BY <1>1, <1>3, <1>6 DEF PeerGetsRandom
  <2>2. PICK st2 : st2 = [st EXCEPT !.step = "compare"]
    OBVIOUS
  <2>3. Knows(st2) /\ IsSecureConnection(st2.req) /\ st2.method = NC
    BY <1>2, <1>6, <2>2 DEF Knows, PeerFields
  <2> QED
    BY <2>1, <2>2, <2>3, KnowsOK, SaysNothing
<1>7. CASE seen = st.confirm /\ IsSecureConnection(st.req) /\ st.method # NC
  <2>1. \/ PeerChecks(h, st)
        \/ /\ PeerSays(h, [st EXCEPT !.step = "begin", !.round = @ + 1], <<>>)
           /\ UNCHANGED computed
    BY <1>1, <1>3, <1>7 DEF PeerGetsRandom
  <2>2. CASE PeerChecks(h, st)
    BY <1>2, <1>7, <2>2, ChecksKeeps
  <2>3. CASE PeerSays(h, [st EXCEPT !.step = "begin", !.round = @ + 1], <<>>) /\ UNCHANGED computed
    <3>1. PICK st2 : st2 = [st EXCEPT !.step = "begin", !.round = @ + 1]
      OBVIOUS
    <3>2. Knows(st2) /\ st2.step = "begin"
      BY <1>2, <3>1 DEF Knows, PeerFields
    <3> QED
      BY <2>3, <3>1, <3>2, KnowsAndSays
  <2> QED
    BY <2>1, <2>2, <2>3
<1> QED
  BY <1>4, <1>5, <1>6, <1>7

LEMMA CheckKeeps ==
    ASSUME NEW h, Linked(h), UNCHANGED computed, NEW value, PeerGetsCheck(h, value)
    PROVE  PeerKeeps(h)
<1>1. PeerStartsEncryption(h, peer[h]) \/ PeerAborts(h)
  BY DEF PeerGetsCheck
<1>2. DOMAIN peer[h] = PeerFields
  BY DEF Linked, PeerOK
<1> QED
  BY <1>1, <1>2, EncryptionKeeps, AbortKeeps

\* The peer stays where it is or rests, and the queue may grow by its keys.
LEMMA RestKeeps ==
    ASSUME NEW h, Linked(h), UNCHANGED computed, NEW st, DOMAIN st = PeerFields, PeerOK(st),
           peer' = [peer EXCEPT ![h] = st],
           toHost' = toHost \/ toHost' = toHost \o KeysSent(h)
    PROVE  PeerKeeps(h)
<1>1. DOMAIN peer' = Handle /\ peer'[h] = st /\ \A g \in Handle : g # h => peer'[g] = peer[g]
  BY DEF Linked
<1>2. QueueOK(toHost', conn, computed') /\ LinksOK(toHost', conn, link)
  <2>1. CASE toHost' = toHost
    BY <2>1 DEF Linked
  <2>2. CASE toHost' = toHost \o KeysSent(h)
    <3>1. PICK t, p : t = KeysSent(h) /\ p = link[h].peer
      OBVIOUS
    <3>2. Events(t, h, p, computed)
      BY <3>1, KeysSentEvents
    <3>3. QueueOK(toHost \o t, conn, computed) /\ LinksOK(toHost \o t, conn, link)
      BY <3>1, <3>2, QueueGrows DEF Linked
    <3> QED
      BY <2>2, <3>1, <3>3
  <2> QED
    BY <2>1, <2>2
<1> QED
  BY <1>1, <1>2 DEF PeerKeeps

LEMMA PeerGetsKeyKeeps ==
    ASSUME NEW h, Linked(h), peer[h].step = "keys", UNCHANGED computed, NEW msg, PeerGetsKey(h, msg)
    PROVE  PeerKeeps(h)
<1> DEFINE kind  == CASE msg.op = "identity_address" -> {"ID"}
                      [] msg.op = "signing_info"     -> {"SIGN"}
                      [] OTHER                       -> {}
<1>1. PICK waits : waits = peer[h].waits \ kind
  OBVIOUS
<1>2. PICK last : last = (waits = {})
  OBVIOUS
<1>3. PICK st : st = [peer[h] EXCEPT !.waits = waits, !.step = IF last THEN "idle" ELSE @,
                                     !.pairing = IF last THEN FALSE ELSE @]
  OBVIOUS
<1>4. DOMAIN st = PeerFields /\ st.step \in {"idle", "keys"}
  BY <1>3 DEF Linked, PeerOK, PeerFields
<1>5. peer' = [peer EXCEPT ![h] = st]
  <2>1. peer' = [peer EXCEPT ![h].waits = waits, ![h].step = IF last THEN "idle" ELSE @,
                             ![h].pairing = IF last THEN FALSE ELSE @]
    BY <1>1, <1>2 DEF PeerGetsKey
  <2> QED
    BY <1>3, <2>1 DEF Linked
<1>6. toHost' = toHost \/ toHost' = toHost \o KeysSent(h)
  BY DEF PeerGetsKey
<1> QED
  BY <1>4, <1>5, <1>6, RestsOK, RestKeeps

LEMMA FailureKeeps ==
    ASSUME NEW h, Linked(h), UNCHANGED <<computed, toHost>>,
           peer' = [peer EXCEPT ![h].step = IF peer[h].pairing THEN "idle" ELSE @,
                                ![h].pairing = FALSE]
    PROVE  PeerKeeps(h)
<1>1. PICK st : st = [peer[h] EXCEPT !.step = IF peer[h].pairing THEN "idle" ELSE @, !.pairing = FALSE]
  OBVIOUS
<1>2. /\ DOMAIN st = PeerFields /\ st.req = peer[h].req /\ st.method = peer[h].method
      /\ st.step = "idle" \/ st.step = peer[h].step
  BY <1>1 DEF Linked, PeerOK, PeerFields
<1>3. PeerOK(st)
  BY <1>2 DEF Linked, PeerOK
<1>4. peer' = [peer EXCEPT ![h] = st]
  BY <1>1 DEF Linked
<1> QED
  BY <1>2, <1>3, <1>4, RestKeeps

\* What the invariant says when only the peer under h went on.
LEMMA KeptByPeer ==
    ASSUME BondsKept, NEW h \in Handle, link[h] # None, PeerKeeps(h),
           DOMAIN air' = Handle, \A g \in Handle : link[g] = None => air'[g] = air[g],
           UNCHANGED <<db, conn, dialog, cmd, link>>
    PROVE  BondsKept'
<1>1. /\ Shapes /\ ConnsOK /\ PeersOK /\ Silent /\ DialogOK /\ CmdOK /\ DbOK(db, computed)
  BY DEF BondsKept
<1>2. Shapes' /\ ConnsOK' /\ DialogOK' /\ CmdOK'
  BY <1>1 DEF Shapes, ConnsOK, DialogOK, CmdOK, PeerKeeps
<1>3. PeersOK' /\ Silent'
  BY <1>1 DEF PeersOK, Silent, PeerKeeps
<1>4. DbOK(db', computed')
  BY <1>1, DbGrows DEF PeerKeeps
<1>5. QueueOK(toHost', conn', computed') /\ LinksOK(toHost', conn', link')
  BY DEF PeerKeeps
<1> QED
  BY <1>2, <1>3, <1>4, <1>5 DEF BondsKept

LEMMA LinkedFrom ==
    ASSUME BondsKept, NEW h \in Handle, link[h] # None PROVE Linked(h)
  BY DEF BondsKept, Linked, Shapes, PeersOK

LEMMA PeerReceivesKeeps ==
    ASSUME BondsKept, NEW h \in Handle, PeerReceives(h) PROVE BondsKept' /\ db' = db
<1>1. link[h] # None
  BY DEF BondsKept, Silent, PeerReceives
<1>2. Linked(h)
  BY <1>1, LinkedFrom
<1>3. /\ DOMAIN air' = Handle /\ \A g \in Handle : link[g] = None => air'[g] = air[g]
      /\ UNCHANGED <<db, conn, dialog, cmd, link>>
  BY <1>1 DEF PeerReceives, BondsKept, Shapes, hostVars, ctrlVars
<1>4. PICK msg, step : msg = Head(air[h]) /\ step = peer[h].step
  OBVIOUS
<1>5. step \in {"pk", "confirm", "random", "check"} => Knows(peer[h])
  BY <1>2, <1>4 DEF Linked, PeerOK, Knows
<1>6. PeerKeeps(h)
  <2>1. CASE msg.op = "keypress" \/ (msg.op \in KeyOp /\ step # "keys")
    <3>1. UNCHANGED <<peer, toHost, computed>>
      BY <1>4, <2>1 DEF PeerReceives, KeyOp
    <3> QED
      BY <1>2, <3>1 DEF PeerKeeps, Linked, BondsKept, PeersOK
  <2>2. CASE msg.op = "pairing_failed"
    <3>1. /\ UNCHANGED <<computed, toHost>>
          /\ peer' = [peer EXCEPT ![h].step = IF peer[h].pairing THEN "idle" ELSE @,
                                  ![h].pairing = FALSE]
      BY <1>4, <2>2 DEF PeerReceives, KeyOp
    <3> QED
      BY <1>2, <3>1, FailureKeeps
  <2>3. CASE msg.op \in KeyOp /\ step = "keys"
    <3>1. PeerGetsKey(h, msg) /\ UNCHANGED computed
      BY <1>4, <2>3 DEF PeerReceives, KeyOp
    <3> QED
      BY <1>2, <1>4, <2>3, <3>1, PeerGetsKeyKeeps
  <2>4. CASE msg.op = "pairing_resp" /\ step = "resp"
    <3>1. PeerGetsResponse(h) /\ UNCHANGED computed
      BY <1>4, <2>4 DEF PeerReceives, KeyOp
    <3> QED
      BY <1>2, <1>4, <2>4, <3>1, ResponseKeeps
  <2>5. CASE msg.op = "pairing_public_key" /\ step = "pk"
    <3>1. PeerGetsPublicKey(h) /\ UNCHANGED computed
      BY <1>4, <2>5 DEF PeerReceives, KeyOp
    <3> QED
      BY <1>2, <1>5, <2>5, <3>1, PublicKeyKeeps
  <2>6. CASE msg.op = "pairing_confirm" /\ step = "confirm"
    <3>1. PeerGetsConfirm(h, msg.value) /\ UNCHANGED computed
      BY <1>4, <2>6 DEF PeerReceives, KeyOp
    <3> QED
      BY <1>2, <1>5, <2>6, <3>1, ConfirmKeeps
  <2>7. CASE msg.op = "pairing_random" /\ step = "random"
    <3>1. PeerGetsRandom(h, msg.value)
      BY <1>4, <2>7 DEF PeerReceives, KeyOp
    <3> QED
      BY <1>2, <1>5, <2>7, <3>1, RandomKeeps
  <2>8. CASE msg.op = "dhkey_check" /\ step = "check"
    <3>1. PeerGetsCheck(h, msg.value) /\ UNCHANGED computed
      BY <1>4, <2>8 DEF PeerReceives, KeyOp
    <3> QED
      BY <1>2, <3>1, CheckKeeps
  <2>9. CASE ~(\/ msg.op \in {"keypress", "pairing_failed"} \cup KeyOp
               \/ msg.op = "pairing_resp" /\ step = "resp"
               \/ msg.op = "pairing_public_key" /\ step = "pk"
               \/ msg.op = "pairing_confirm" /\ step = "confirm"
               \/ msg.op = "pairing_random" /\ step = "random"
               \/ msg.op = "dhkey_check" /\ step = "check")
    <3>1. PeerAborts(h) /\ UNCHANGED computed
      BY <1>4, <2>9 DEF PeerReceives
    <3> QED
      BY <1>2, <3>1, AbortKeeps
  <2> QED
    BY <2>1, <2>2, <2>3, <2>4, <2>5, <2>6, <2>7, <2>8, <2>9
<1> QED
  BY <1>1, <1>3, <1>6, KeptByPeer

LEMMA PeerGoesOnKeeps ==
    ASSUME BondsKept, NEW h \in Handle, PeerGoesOn(h) PROVE BondsKept' /\ db' = db
<1>1. link[h] # None
  BY DEF BondsKept, Silent, PeerGoesOn, PeerBegins, PeerEnters, PeerCompares
<1>2. Linked(h)
  BY <1>1, LinkedFrom
<1>3. /\ DOMAIN air' = Handle /\ \A g \in Handle : link[g] = None => air'[g] = air[g]
      /\ UNCHANGED <<db, conn, dialog, cmd, link>>
  BY DEF PeerGoesOn, BondsKept, Shapes, hostVars, ctrlVars
<1>4. peer[h].step \in {"begin", "enter", "compare"} => Knows(peer[h])
  BY <1>2 DEF Linked, PeerOK, Knows
<1>5. CASE PeerBegins(h) \/ PeerEnters(h)
  <2>1. Knows(peer[h]) /\ UNCHANGED computed
    BY <1>4, <1>5 DEF PeerBegins, PeerEnters
  <2>2. \E tk, round : PeerConfirms(h, tk, round)
    BY <1>5 DEF PeerBegins, PeerEnters
  <2>3. PeerKeeps(h)
    BY <1>2, <2>1, <2>2, ConfirmsKeeps
  <2> QED
    BY <1>1, <1>3, <2>3, KeptByPeer
<1>6. CASE PeerCompares(h)
  <2>1. PICK st : st = peer[h]
    OBVIOUS
  <2>2. Knows(st) /\ IsSecureConnection(st.req) /\ st.random = peer[h].random
    BY <1>2, <1>4, <1>6, <2>1 DEF PeerCompares, Linked, PeerOK
  <2>3. PeerChecks(h, st) \/ (PeerAborts(h) /\ UNCHANGED computed)
    BY <1>6, <2>1 DEF PeerCompares
  <2>4. PeerKeeps(h)
    BY <1>2, <2>2, <2>3, ChecksKeeps, AbortKeeps
  <2> QED
    BY <1>1, <1>3, <2>4, KeptByPeer
<1> QED
  BY <1>5, <1>6 DEF PeerGoesOn

LEMMA PeerStartsKeeps ==
    ASSUME BondsKept, NEW h \in Handle, NEW offer \in Offers, PeerStarts(h, offer)
    PROVE  BondsKept' /\ db' = db
<1>1. link[h] # None
  BY DEF PeerStarts
<1>2. Linked(h)
  BY <1>1, LinkedFrom
<1>3. /\ DOMAIN air' = Handle /\ \A g \in Handle : link[g] = None => air'[g] = air[g]
      /\ UNCHANGED <<db, conn, dialog, cmd, link, computed>>
  BY DEF PeerStarts, BondsKept, Shapes, hostVars, ctrlVars, Begins
<1>4. PICK st, m : /\ st = [peer[h] EXCEPT !.step = "resp", !.pairing = TRUE, !.req = offer,
                                           !.tk = 0, !.round = 0]
                   /\ m = Msg("pairing_req", offer)
  OBVIOUS
<1>5. PeerSays(h, st, <<m>>) /\ m.op = "pairing_req"
  BY <1>4 DEF PeerStarts, Msg
<1>6. PeerOK(st)
  BY <1>2, <1>4 DEF Linked, PeerOK, PeerFields
<1>7. PeerKeeps(h)
  BY <1>2, <1>3, <1>5, <1>6, SaysPlainly
<1> QED
  BY <1>1, <1>3, <1>7, KeptByPeer

LEMMA PeerEncryptsKeeps ==
    ASSUME BondsKept, NEW h \in Handle, PeerEncrypts(h) PROVE BondsKept' /\ db' = db
<1>1. link[h] # None
  BY DEF PeerEncrypts
<1>2. Linked(h)
  BY <1>1, LinkedFrom
<1>3. /\ DOMAIN air' = Handle /\ \A g \in Handle : link[g] = None => air'[g] = air[g]
      /\ UNCHANGED <<db, conn, dialog, cmd, link, computed>>
  BY DEF PeerEncrypts, BondsKept, Shapes, hostVars, ctrlVars, Begins
<1>4. PICK b : b = bond[link[h].peer]
  OBVIOUS
<1>5. PICK st : st = [peer[h] EXCEPT !.ltk = b.ltk, !.method = b.method]
  OBVIOUS
<1>6. PeerStartsEncryption(h, st)
  BY <1>4, <1>5 DEF PeerEncrypts
<1>7. DOMAIN st = PeerFields
  BY <1>2, <1>5 DEF Linked, PeerOK, PeerFields
<1>8. PeerKeeps(h)
  BY <1>2, <1>3, <1>6, <1>7, EncryptionKeeps
<1> QED
  BY <1>1, <1>3, <1>8, KeptByPeer

-----------------------------------------------------------------------------
(* The controller, links that come and go, and restarts.                    *)

\* Events that are about no connection.
LEMMA AsideKeeps ==
    ASSUME BondsKept, NEW e, e.type \notin Within \cup {"conn_complete", "disconn_complete"},
           toHost' = Append(toHost, e),
           UNCHANGED <<db, conn, dialog, link, air, computed>>,
           cmd' = cmd \/ cmd' = None, DOMAIN peer' = Handle,
           \A h \in Handle : PeerOK(peer'[h]) /\ (peer'[h].step = peer[h].step \/ peer'[h].step = "idle")
    PROVE  BondsKept'
<1>1. /\ Shapes /\ ConnsOK /\ PeersOK /\ Silent /\ DialogOK /\ CmdOK
      /\ QueueOK(toHost, conn, computed) /\ LinksOK(toHost, conn, link) /\ DbOK(db, computed)
  BY DEF BondsKept
<1>2. Shapes' /\ ConnsOK' /\ DialogOK' /\ CmdOK'
  BY <1>1 DEF Shapes, ConnsOK, DialogOK, CmdOK
<1>3. PeersOK' /\ Silent'
  BY <1>1 DEF PeersOK, Silent
<1>4. QueueOK(toHost', conn', computed') /\ LinksOK(toHost', conn', link') /\ DbOK(db', computed')
  <2>1. QueueOK(Append(toHost, e), conn, computed) /\ LinksOK(Append(toHost, e), conn, link)
    BY <1>1, QueueGrowsAside
  <2> QED
    BY <1>1, <2>1
<1> QED
  BY <1>2, <1>3, <1>4 DEF BondsKept

LEMMA EncryptedKeeps ==
    ASSUME BondsKept, NEW h \in Handle, link[h] # None, Encrypted(h),
           UNCHANGED <<db, conn, dialog, computed>>, cmd' = None
    PROVE  BondsKept'
<1>1. /\ Shapes /\ ConnsOK /\ PeersOK /\ Silent /\ DialogOK /\ CmdOK
      /\ QueueOK(toHost, conn, computed) /\ LinksOK(toHost, conn, link) /\ DbOK(db, computed)
  BY DEF BondsKept
<1> DEFINE waits0 == IF peer[h].pairing THEN peer[h].req.rdist \cap SM_RESP.rdist ELSE {}
           event0 == IF peer[h].encrypted = ZeroKey
                     THEN [type |-> "encryption_change", h |-> h, enabled |-> 1]
                     ELSE [type |-> "key_refresh", h |-> h]
           own0   == IF peer[h].pairing /\ waits0 = {} THEN KeysSent(h) ELSE <<>>
<1>2. PICK waits, event, own, p : waits = waits0 /\ event = event0 /\ own = own0 /\ p = link[h].peer
  OBVIOUS
<1>3. /\ toHost' = toHost \o <<Answered, event>> \o own
      /\ peer' = [peer EXCEPT ![h].encrypted = peer[h].ltk, ![h].waits = waits,
                              ![h].step = IF waits = {} THEN "idle" ELSE "keys",
                              ![h].pairing = waits # {}]
      /\ UNCHANGED <<link, air>>
  BY <1>2 DEF Encrypted
<1>4. /\ Answered.type = "command_answered"
      /\ event.type \in {"encryption_change", "key_refresh"} /\ event.h = h
  BY <1>2 DEF Answered
<1>5. PICK first : first = <<Answered, event>>
  OBVIOUS
<1>6. Events(first, h, p, computed)
  BY <1>4, <1>5, TwoEvents DEF Within
<1>7. Events(own, h, p, computed)
  BY <1>2, KeysSentEvents, NoEvents
<1>8. PICK q : q = toHost \o first
  OBVIOUS
<1>9. QueueOK(q, conn, computed) /\ LinksOK(q, conn, link)
  BY <1>1, <1>2, <1>6, <1>8, QueueGrows
<1>10. QueueOK(q \o own, conn, computed) /\ LinksOK(q \o own, conn, link)
  BY <1>2, <1>7, <1>9, QueueGrows
<1>11. QueueOK(toHost', conn', computed') /\ LinksOK(toHost', conn', link') /\ DbOK(db', computed')
  BY <1>1, <1>3, <1>5, <1>8, <1>10
<1>12. PICK st : st = [peer[h] EXCEPT !.encrypted = peer[h].ltk, !.waits = waits,
                                      !.step = IF waits = {} THEN "idle" ELSE "keys",
                                      !.pairing = waits # {}]
  OBVIOUS
<1>13. DOMAIN st = PeerFields /\ st.step \in {"idle", "keys"}
  BY <1>1, <1>12 DEF PeersOK, PeerOK, PeerFields
<1>14. peer' = [peer EXCEPT ![h] = st]
  BY <1>1, <1>3, <1>12 DEF Shapes
<1>15. PeersOK' /\ Silent' /\ DOMAIN peer' = Handle
  BY <1>1, <1>3, <1>13, <1>14, RestsOK DEF PeersOK, Silent, Shapes
<1>16. Shapes' /\ ConnsOK' /\ DialogOK' /\ CmdOK'
  BY <1>1, <1>3, <1>15 DEF Shapes, ConnsOK, DialogOK, CmdOK
<1> QED
  BY <1>11, <1>15, <1>16 DEF BondsKept

\* A link that ends, after events of it.
LEMMA UnlinkKeeps ==
    ASSUME BondsKept, NEW h \in Handle, link[h] # None, Unlink(h), NEW t,
           Events(t, h, link[h].peer, computed), NEW e, e.type = "disconn_complete", e.h = h,
           toHost' = Append(toHost \o t, e),
           UNCHANGED <<db, conn, dialog, computed>>, cmd' = cmd \/ cmd' = None
    PROVE  BondsKept'
<1>1. /\ Shapes /\ ConnsOK /\ PeersOK /\ Silent /\ DialogOK /\ CmdOK
      /\ QueueOK(toHost, conn, computed) /\ LinksOK(toHost, conn, link) /\ DbOK(db, computed)
  BY DEF BondsKept
<1>2. /\ link' = [link EXCEPT ![h] = None] /\ peer' = [peer EXCEPT ![h] = NewPeer]
      /\ air' = [air EXCEPT ![h] = <<>>]
  BY DEF Unlink
<1>3. DOMAIN NewPeer = PeerFields /\ NewPeer.step = "idle"
  BY DEF NewPeer, PeerFields
<1>4. PICK q : q = toHost \o t
  OBVIOUS
<1>5. QueueOK(q, conn, computed) /\ LinksOK(q, conn, link)
  BY <1>1, <1>4, QueueGrows
<1>6. QueueOK(Append(q, e), conn, computed) /\ LinksOK(Append(q, e), conn, link')
  <2>1. PICK lk : lk = link'
    OBVIOUS
  <2>2. lk[h] = None /\ (\A g \in Handle : g # h => lk[g] = link[g]) /\ Turns(e, h)
    BY <1>1, <1>2, <2>1 DEF Shapes, Turns
  <2>3. QueueOK(Append(q, e), conn, computed) /\ LinksOK(Append(q, e), conn, lk)
    BY <1>5, <2>2, QueueTurns
  <2> QED
    BY <2>1, <2>3
<1>7. QueueOK(toHost', conn', computed') /\ LinksOK(toHost', conn', link') /\ DbOK(db', computed')
  BY <1>1, <1>4, <1>6
<1>8. PeersOK' /\ Silent'
  BY <1>1, <1>2, <1>3, RestsOK DEF PeersOK, Silent, Shapes
<1>9. Shapes' /\ ConnsOK' /\ DialogOK' /\ CmdOK'
  BY <1>1, <1>2 DEF Shapes, ConnsOK, DialogOK, CmdOK
<1> QED
  BY <1>7, <1>8, <1>9 DEF BondsKept

LEMMA ControllerExecutesKeeps ==
    ASSUME BondsKept, ControllerExecutes PROVE BondsKept' /\ db' = db
<1>1. PICK h : h = cmd.h
  OBVIOUS
<1>2. /\ cmd # None /\ cmd' = None /\ h \in Handle
      /\ UNCHANGED <<db, conn, dialog, computed>>
  BY <1>1 DEF ControllerExecutes, BondsKept, CmdOK, hostVars, Encrypted, Unlink
<1>3. /\ Shapes /\ PeersOK /\ Silent /\ QueueOK(toHost, conn, computed)
  BY DEF BondsKept
<1>4. Answered.type = "command_answered"
  BY DEF Answered
<1>5. CASE /\ toHost' = Append(toHost, Answered) /\ UNCHANGED <<link, air>>
           /\ UNCHANGED peer \/ peer' = [peer EXCEPT ![h].step = "idle", ![h].pairing = FALSE]
  <2>1. /\ DOMAIN peer' = Handle
        /\ \A g \in Handle : PeerOK(peer'[g]) /\ (peer'[g].step = peer[g].step \/ peer'[g].step = "idle")
    <3>1. CASE UNCHANGED peer
      BY <1>3, <3>1 DEF Shapes, PeersOK
    <3>2. CASE peer' = [peer EXCEPT ![h].step = "idle", ![h].pairing = FALSE]
      <4>1. PICK st : st = [peer[h] EXCEPT !.step = "idle", !.pairing = FALSE]
        OBVIOUS
      <4>2. DOMAIN st = PeerFields /\ st.step = "idle"
        BY <1>2, <1>3, <4>1 DEF PeersOK, PeerOK, PeerFields
      <4>3. peer' = [peer EXCEPT ![h] = st]
        BY <1>2, <1>3, <3>2, <4>1 DEF Shapes
      <4> QED
        BY <1>2, <1>3, <4>2, <4>3, RestsOK DEF Shapes, PeersOK
    <3> QED
      BY <1>5, <3>1, <3>2
  <2>2. Answered.type \notin Within \cup {"conn_complete", "disconn_complete"}
    BY <1>4 DEF Within
  <2> QED
    BY <1>2, <1>5, <2>1, <2>2, AsideKeeps
<1>6. CASE Encrypted(h) /\ peer[h].step = "encrypt"
  <2>1. link[h] # None
    BY <1>2, <1>3, <1>6 DEF Silent
  <2> QED
    BY <1>2, <1>6, <2>1, EncryptedKeeps
<1>7. CASE /\ Unlink(h) /\ peer[h].step = "encrypt"
           /\ \E told \in {<<>>, <<[type |-> "encryption_change", h |-> h, enabled |-> 0]>>} :
                 toHost' = toHost \o <<Answered>> \o told \o <<[type |-> "disconn_complete", h |-> h]>>
  <2>1. link[h] # None
    BY <1>2, <1>3, <1>7 DEF Silent
  <2>2. PICK e, f, p : /\ e = [type |-> "disconn_complete", h |-> h]
                       /\ f = [type |-> "encryption_change", h |-> h, enabled |-> 0]
                       /\ p = link[h].peer
    OBVIOUS
  <2>3. PICK told \in {<<>>, <<f>>} : toHost' = toHost \o <<Answered>> \o told \o <<e>>
    BY <1>7, <2>2
  <2>4. PICK one : one = <<Answered>>
    OBVIOUS
  <2>5. Events(one, h, p, computed)
    BY <1>4, <2>4, OneEvent DEF Within
  <2>6. Events(told, h, p, computed)
    BY <2>2, <2>3, OneEvent, NoEvents
  <2>7. PICK t : t = one \o told
    OBVIOUS
  <2>8. Events(t, h, p, computed)
    BY <2>5, <2>6, <2>7, EventsJoin
  <2>9. toHost' = Append(toHost \o t, e)
    <3>1. PICK q : q = toHost \o t
      OBVIOUS
    <3>2. (toHost \o one) \o told = toHost \o t
      BY <1>3, <2>5, <2>6, <2>7, JoinAssociative DEF QueueOK, Events
    <3>3. Sequence(q)
      BY <1>3, <2>8, <3>1, ConcatFacts DEF QueueOK, Events
    <3>4. Append(q, e) = q \o <<e>>
      BY <3>3, AppendOne
    <3> QED
      BY <2>3, <2>4, <3>1, <3>2, <3>4
  <2>10. e.type = "disconn_complete" /\ e.h = h
    BY <2>2
  <2> QED
    BY <1>2, <1>7, <2>1, <2>2, <2>8, <2>9, <2>10, UnlinkKeeps
<1>8. \/ /\ toHost' = Append(toHost, Answered) /\ UNCHANGED <<link, air>>
         /\ UNCHANGED peer \/ peer' = [peer EXCEPT ![h].step = "idle", ![h].pairing = FALSE]
      \/ Encrypted(h) /\ peer[h].step = "encrypt"
      \/ /\ Unlink(h) /\ peer[h].step = "encrypt"
         /\ \E told \in {<<>>, <<[type |-> "encryption_change", h |-> h, enabled |-> 0]>>} :
               toHost' = toHost \o <<Answered>> \o told \o <<[type |-> "disconn_complete", h |-> h]>>
  <2>1. CASE cmd.type = "generate_dhkey"
    BY <1>1, <2>1 DEF ControllerExecutes, peerVars
  <2>2. CASE cmd.type # "generate_dhkey" /\ peer[h].step # "encrypt"
    BY <1>1, <2>2 DEF ControllerExecutes, peerVars
  <2>3. CASE cmd.type = "ltk_req_reply" /\ peer[h].step = "encrypt" /\ cmd.ltk = peer[h].ltk
    BY <1>1, <2>3 DEF ControllerExecutes
  <2>4. CASE cmd.type = "ltk_req_reply" /\ peer[h].step = "encrypt" /\ cmd.ltk # peer[h].ltk
    BY <1>1, <2>4 DEF ControllerExecutes
  <2>5. CASE cmd.type \notin {"generate_dhkey", "ltk_req_reply"} /\ peer[h].step = "encrypt"
    BY <1>1, <2>5 DEF ControllerExecutes
  <2> QED
    BY <2>1, <2>2, <2>3, <2>4, <2>5
<1> QED
  BY <1>2, <1>5, <1>6, <1>7, <1>8

LEMMA ControllerComputesKeeps ==
    ASSUME BondsKept, ControllerComputes PROVE BondsKept' /\ db' = db
<1>1. PICK e : e = [type |-> "generate_dhkey", h |-> job.h, dhkey |-> DhKey(job.pk)]
  OBVIOUS
<1>2. e.type = "generate_dhkey" /\ toHost' = Append(toHost, e)
  BY <1>1 DEF ControllerComputes
<1>3. UNCHANGED <<db, conn, dialog, cmd, link, air, peer, computed>>
  BY DEF ControllerComputes, hostVars, peerVars, history
<1>4. DOMAIN peer' = Handle /\ \A h \in Handle : PeerOK(peer'[h]) /\ peer'[h].step = peer[h].step
  BY <1>3 DEF BondsKept, Shapes, PeersOK
<1>5. e.type \notin Within \cup {"conn_complete", "disconn_complete"}
  BY <1>2 DEF Within
<1> QED
  BY <1>2, <1>3, <1>4, <1>5, AsideKeeps

LEMMA LinkLostKeeps ==
    ASSUME BondsKept, NEW h \in Handle, LinkLost(h) PROVE BondsKept' /\ db' = db
<1>1. PICK e : e = [type |-> "disconn_complete", h |-> h]
  OBVIOUS
<1>2. /\ link[h] # None /\ Unlink(h) /\ toHost' = Append(toHost, e)
      /\ e.type = "disconn_complete" /\ e.h = h
      /\ UNCHANGED <<db, conn, dialog, cmd, computed>>
  BY <1>1 DEF LinkLost, hostVars, ctrlVars
<1>3. toHost \o <<>> = toHost
  <2>1. PICK S : toHost \in Seq(S)
    BY DEF BondsKept, QueueOK, Sequence
  <2> QED
    BY <2>1, ConcatEmptySeq
<1>4. Events(<<>>, h, link[h].peer, computed)
  BY NoEvents
<1>5. toHost' = Append(toHost \o <<>>, e)
  BY <1>2, <1>3
<1> QED
  BY <1>2, <1>4, <1>5, UnlinkKeeps

LEMMA ConnectsKeeps ==
    ASSUME BondsKept, NEW h \in Handle, NEW p \in Peer, NEW addr \in AddressesOf(p),
           Connects(h, p, addr)
    PROVE  BondsKept' /\ db' = db
<1>1. /\ Shapes /\ ConnsOK /\ PeersOK /\ Silent /\ DialogOK /\ CmdOK
      /\ QueueOK(toHost, conn, computed) /\ LinksOK(toHost, conn, link) /\ DbOK(db, computed)
  BY DEF BondsKept
<1>2. PICK l : l = [peer |-> p, addr |-> addr, n |-> links + 1]
  OBVIOUS
<1>3. /\ link' = [link EXCEPT ![h] = l] /\ link'[h] = l
      /\ UNCHANGED <<db, conn, dialog, cmd, air, peer, computed>>
  BY <1>1, <1>2 DEF Connects, Shapes, hostVars, ctrlVars, history
<1>4. PICK e : e = [type |-> "conn_complete", h |-> h, link |-> l]
  OBVIOUS
<1>5. /\ toHost' = Append(toHost, e)
      /\ e.type = "conn_complete" /\ e.h = h /\ e.link = l /\ l.peer = p /\ l.addr = addr
  BY <1>2, <1>3, <1>4 DEF Connects
<1>6. QueueOK(Append(toHost, e), conn, computed) /\ LinksOK(Append(toHost, e), conn, link')
  <2>1. PICK lk : lk = link'
    OBVIOUS
  <2>2. lk[h] = e.link /\ (\A g \in Handle : g # h => lk[g] = link[g]) /\ Turns(e, h)
    BY <1>1, <1>3, <1>5, <2>1 DEF Shapes, Turns
  <2>3. /\ e.link.peer \in Peer /\ e.link.addr \in AddressesOf(e.link.peer)
        /\ \E q \in Peer : e.link.addr \in AddressesOf(q)
    BY <1>5
  <2>4. QueueOK(Append(toHost, e), conn, computed) /\ LinksOK(Append(toHost, e), conn, lk)
    BY <1>1, <1>5, <2>2, <2>3, QueueTurns
  <2> QED
    BY <2>1, <2>4
<1>7. QueueOK(toHost', conn', computed') /\ LinksOK(toHost', conn', link') /\ DbOK(db', computed')
  BY <1>1, <1>3, <1>5, <1>6
<1>8. link'[h] # None
  <2>1. DOMAIN l = {"peer", "addr", "n"} /\ DOMAIN None = {"none"}
    BY <1>2 DEF None
  <2> QED
    BY <1>3, <2>1
<1>9. PeersOK' /\ Silent'
  BY <1>1, <1>3, <1>8 DEF PeersOK, Silent, Shapes
<1>10. Shapes' /\ ConnsOK' /\ DialogOK' /\ CmdOK'
  BY <1>1, <1>3 DEF Shapes, ConnsOK, DialogOK, CmdOK
<1> QED
  BY <1>3, <1>7, <1>9, <1>10 DEF BondsKept

\* Nothing is connected and nothing is in the queue.
LEMMA EmptyKeeps ==
    ASSUME conn' = [h \in Handle |-> None], dialog' = None, toHost' = <<>>, cmd' = None,
           link' = [h \in Handle |-> None], peer' = [h \in Handle |-> NewPeer],
           air' = [h \in Handle |-> <<>>], DbOK(db', computed')
    PROVE  BondsKept'
<1>1. DOMAIN NewPeer = PeerFields /\ NewPeer.step = "idle"
  BY DEF NewPeer, PeerFields
<1>2. PeersOK' /\ Silent' /\ Shapes' /\ ConnsOK' /\ DialogOK' /\ CmdOK'
  BY <1>1, RestsOK DEF PeersOK, Silent, Shapes, ConnsOK, DialogOK, CmdOK
<1>3. QueueOK(toHost', conn', computed')
  BY ShortSequences DEF QueueOK
<1>4. LinksOK(toHost', conn', link')
  BY DEF LinksOK
<1> QED
  BY <1>2, <1>3, <1>4 DEF BondsKept

LEMMA RestartKeeps ==
    ASSUME BondsKept, Restart PROVE BondsKept' /\ db' = db
<1>1. DbOK(db', computed') /\ db' = db
  BY DEF BondsKept, Restart
<1>2. /\ conn' = [h \in Handle |-> None] /\ dialog' = None /\ toHost' = <<>> /\ cmd' = None
      /\ link' = [h \in Handle |-> None] /\ peer' = [h \in Handle |-> NewPeer]
      /\ air' = [h \in Handle |-> <<>>]
  BY DEF Restart
<1> QED
  BY <1>1, <1>2, EmptyKeeps

-----------------------------------------------------------------------------
(* The theorems.                                                            *)

LEMMA BondsKeptInit == Init => BondsKept
<1> SUFFICES ASSUME Init PROVE BondsKept
  OBVIOUS
<1>1. DOMAIN NewPeer = PeerFields /\ NewPeer.step = "idle"
  BY DEF NewPeer, PeerFields
<1>2. PeersOK /\ Silent /\ Shapes /\ ConnsOK /\ DialogOK /\ CmdOK
  BY <1>1, RestsOK DEF Init, PeersOK, Silent, Shapes, ConnsOK, DialogOK, CmdOK
<1>3. toHost = <<>> /\ db = <<>> /\ \A h \in Handle : link[h] = None
  BY DEF Init
<1>4. QueueOK(toHost, conn, computed) /\ DbOK(db, computed)
  BY <1>3, ShortSequences DEF QueueOK, DbOK
<1>5. LinksOK(toHost, conn, link)
  BY <1>3 DEF LinksOK
<1> QED
  BY <1>2, <1>4, <1>5 DEF BondsKept

LEMMA BondsKeptNext ==
    ASSUME BondsKept, Next
    PROVE  BondsKept' /\ (db' = db \/ \E p \in Peer : Affects(db, db', p))
<1>1. CASE HostReceives
  BY <1>1, HostReceivesKeeps
<1>2. CASE DialogAnswered
  BY <1>2, DialogAnsweredKeeps
<1>3. CASE ControllerExecutes
  BY <1>3, ControllerExecutesKeeps
<1>4. CASE ControllerComputes
  BY <1>4, ControllerComputesKeeps
<1>5. CASE \E h \in Handle : PeerReceives(h)
  BY <1>5, PeerReceivesKeeps
<1>6. CASE \E h \in Handle : PeerGoesOn(h)
  BY <1>6, PeerGoesOnKeeps
<1>7. CASE \E h \in Handle, offer \in Offers : PeerStarts(h, offer)
  BY <1>7, PeerStartsKeeps
<1>8. CASE \E h \in Handle : PeerEncrypts(h)
  BY <1>8, PeerEncryptsKeeps
<1>9. CASE \E h \in Handle, p \in Peer : \E addr \in AddressesOf(p) : Connects(h, p, addr)
  BY <1>9, ConnectsKeeps
<1>10. CASE \E h \in Handle : LinkLost(h)
  BY <1>10, LinkLostKeeps
<1>11. CASE Restart
  BY <1>11, RestartKeeps
<1> QED
  BY <1>1, <1>2, <1>3, <1>4, <1>5, <1>6, <1>7, <1>8, <1>9, <1>10, <1>11 DEF Next

LEMMA BondsKeptStutters ==
    ASSUME BondsKept, UNCHANGED vars PROVE BondsKept' /\ db' = db
<1>1. UNCHANGED <<db, conn, dialog, cmd, toHost, link, air, peer, computed>>
  BY DEF vars, hostVars, ctrlVars, peerVars, history
<1>2. Shapes' /\ ConnsOK' /\ PeersOK' /\ Silent' /\ DialogOK' /\ CmdOK'
  BY <1>1 DEF BondsKept, Shapes, ConnsOK, PeersOK, Silent, DialogOK, CmdOK
<1>3. QueueOK(toHost', conn', computed') /\ LinksOK(toHost', conn', link') /\ DbOK(db', computed')
  BY <1>1 DEF BondsKept
<1> QED
  BY <1>1, <1>2, <1>3 DEF BondsKept

\* What is in the queue, on the links and in the connections belongs to one peer and one
\* pairing, over every order of events (sm_recv and the event handlers find all of it by handle).
THEOREM PairingsConsistent == Spec => []BondsKept
<1>1. BondsKept /\ [Next]_vars => BondsKept'
  BY BondsKeptNext, BondsKeptStutters
<1> QED
  BY <1>1, BondsKeptInit, PTL DEF Spec

\* Every stored key of a secure connection was computed by a peer, in a pairing that peer held
\* to have the same method (__sm_recv_pairing_dhkey_check compares, then stores).
THEOREM BondsShared == Spec => []SecureBondsShared
<1>1. BondsKept => SecureBondsShared
  BY DEF BondsKept, DbOK, EntryOK, SecureBondsShared
<1> QED
  BY <1>1, PairingsConsistent, PTL

\* One event changes what is stored of at most one peer: every entry holds the identity of one,
\* and is stored, updated and deleted under an address of that one.
THEOREM OthersKeepBonds == Spec => OthersUntouched
<1> DEFINE One == \A p, q \in Peer :
                     p # q => \/ \A addr \in AddressesOf(p) : Look(db', addr) = Look(db, addr)
                              \/ \A addr \in AddressesOf(q) : Look(db', addr) = Look(db, addr)
<1>1. BondsKept /\ [Next]_vars => [One]_vars
  <2> SUFFICES ASSUME BondsKept, Next PROVE One
    BY DEF vars
  <2>1. CASE db' = db
    BY <2>1
  <2>2. CASE \E p \in Peer : Affects(db, db', p)
    <3>1. PICK r \in Peer : Affects(db, db', r)
      BY <2>2
    <3> QED
      BY <3>1 DEF Affects
  <2> QED
    BY <2>1, <2>2, BondsKeptNext
<1> QED
  BY <1>1, PairingsConsistent, PTL DEF Spec, OthersUntouched

-----------------------------------------------------------------------------
(* The program fails only after a pairing was cut off.                      *)

Elements(q) == {q[i] : i \in DOMAIN q}
AsksDhkey(e) == e.type = "sm" /\ e.msg.op = "pairing_public_key"
NoEnd(q, h)  == \A e \in Elements(q) : ~(e.type = "disconn_complete" /\ e.h = h)

\* What is told of a link comes before its end.
EndsLast == \A h \in Handle : link[h] # None => NoEnd(toHost, h)

\* The DHKey under way is for a connection the host has and will have when it is told, and so
\* will be the one asked for next.
DhkeyExpected ==
    /\ up
    /\ DhkeyUnderWay => /\ askedLast \in Handle /\ conn[askedLast] # None
                        /\ NoEnd(toHost, askedLast)
    /\ \A e \in Elements(toHost) : AsksDhkey(e) => NoEnd(toHost, e.h)
FailureExplained == EndsLast /\ (interrupted = {} => DhkeyExpected)

LEMMA ElementsJoin ==
    ASSUME NEW s, NEW t, Sequence(s), Sequence(t)
    PROVE  Elements(s \o t) = Elements(s) \cup Elements(t)
<1>1. PICK q, n, m : q = s \o t /\ n = Len(s) /\ m = Len(t)
  OBVIOUS
<1>2. /\ n \in Nat /\ m \in Nat /\ DOMAIN q = 1 .. n + m
      /\ DOMAIN s = 1 .. n /\ DOMAIN t = 1 .. m
      /\ \A i \in 1 .. n : q[i] = s[i]
      /\ \A i \in 1 .. m : q[n + i] = t[i]
  BY <1>1, ConcatFacts, SequenceFacts
<1>3. ASSUME NEW i \in DOMAIN q PROVE q[i] \in Elements(s) \cup Elements(t)
  <2>1. CASE i \in 1 .. n
    BY <1>2, <2>1 DEF Elements
  <2>2. CASE i \notin 1 .. n
    <3>1. i - n \in 1 .. m /\ n + (i - n) = i
      BY <1>2, <2>2
    <3>2. q[i] = t[i - n]
      BY <1>2, <3>1
    <3> QED
      BY <1>2, <3>1, <3>2 DEF Elements
  <2> QED
    BY <2>1, <2>2
<1>4. ASSUME NEW i \in DOMAIN s PROVE s[i] \in Elements(q)
  <2>1. i \in 1 .. n + m /\ q[i] = s[i]
    BY <1>2
  <2> QED
    BY <1>2, <2>1 DEF Elements
<1>5. ASSUME NEW i \in DOMAIN t PROVE t[i] \in Elements(q)
  <2>1. n + i \in 1 .. n + m /\ q[n + i] = t[i]
    BY <1>2
  <2> QED
    BY <1>2, <2>1 DEF Elements
<1>6. Elements(q) \subseteq Elements(s) \cup Elements(t)
  BY <1>3 DEF Elements
<1>7. Elements(s) \subseteq Elements(q) /\ Elements(t) \subseteq Elements(q)
  BY <1>4, <1>5 DEF Elements
<1> QED
  BY <1>1, <1>6, <1>7

LEMMA ElementsAppend ==
    ASSUME NEW s, Sequence(s), NEW x PROVE Elements(Append(s, x)) = Elements(s) \cup {x}
<1>1. Append(s, x) = s \o <<x>> /\ Sequence(<<x>>)
  BY AppendOne
<1>2. Elements(<<x>>) = {x}
  BY DEF Elements
<1> QED
  BY <1>1, <1>2, ElementsJoin

LEMMA ElementsTail ==
    ASSUME NEW s, Sequence(s), s # <<>>
    PROVE  Elements(Tail(s)) \subseteq Elements(s) /\ Head(s) \in Elements(s)
<1>1. PICK n \in Nat \ {0} : n = Len(s)
  BY TailFacts
<1>2. /\ DOMAIN Tail(s) = 1 .. n - 1 /\ DOMAIN s = 1 .. n
      /\ \A i \in 1 .. n - 1 : Tail(s)[i] = s[i + 1]
      /\ Head(s) = s[1]
  BY <1>1, TailFacts
<1>3. \A i \in 1 .. n - 1 : i + 1 \in 1 .. n
  OBVIOUS
<1>4. 1 \in 1 .. n
  OBVIOUS
<1> QED
  BY <1>2, <1>3, <1>4 DEF Elements

LEMMA ElementsFew ==
    /\ Elements(<<>>) = {} /\ \A x : Elements(<<x>>) = {x}
    /\ \A x, y : Elements(<<x, y>>) = {x, y}
  BY DEF Elements

\* What is under way stays the same or goes on.
LEMMA UnderWayFrom ==
    ASSUME DhkeyUnderWay',
           \A e \in Elements(toHost') : e.type = "generate_dhkey" => e \in Elements(toHost) \/ job # None,
           job' = job \/ job' = None \/ (cmd # None /\ cmd.type = "generate_dhkey"),
           cmd' = cmd \/ cmd' = None \/ cmd'.type # "generate_dhkey"
    PROVE  DhkeyUnderWay
<1>1. CASE cmd' # None /\ cmd'.type = "generate_dhkey"
  BY <1>1 DEF DhkeyUnderWay
<1>2. CASE job' # None
  BY <1>2 DEF DhkeyUnderWay
<1>3. CASE \E i \in DOMAIN toHost' : toHost'[i].type = "generate_dhkey"
  <2>1. PICK e \in Elements(toHost') : e.type = "generate_dhkey"
    BY <1>3 DEF Elements
  <2> QED
    BY <2>1 DEF DhkeyUnderWay, Elements
<1> QED
  BY <1>1, <1>2, <1>3 DEF DhkeyUnderWay

\* Nothing was cut off, and nothing new is asked for.
LEMMA ExpectedStays ==
    ASSUME DhkeyExpected, up' = up, askedLast' = askedLast,
           DhkeyUnderWay' => DhkeyUnderWay,
           DhkeyUnderWay' => \A h \in Handle : conn[h] # None /\ NoEnd(toHost, h) => conn'[h] # None,
           \A e \in Elements(toHost') : AsksDhkey(e) => e \in Elements(toHost) \/ NoEnd(toHost', e.h),
           \A h : NoEnd(toHost, h) => NoEnd(toHost', h)
    PROVE  DhkeyExpected'
  BY DEF DhkeyExpected

LEMMA PacketAsks ==
    ASSUME NEW h, NEW msg, sm_recv(h, msg)
    PROVE  /\ up' = up /\ interrupted' = interrupted
           /\ IF msg.op = "pairing_public_key" THEN askedLast' = h
              ELSE askedLast' = askedLast /\ cmd' = cmd
<1>1. up' = up /\ interrupted' = interrupted
  BY DEF sm_recv
<1>2. CASE msg.op = "pairing_req"
  BY <1>2 DEF sm_recv, KeyOp, __sm_recv_pairing_req, NoCmd
<1>3. CASE msg.op = "pairing_public_key"
  BY <1>3 DEF sm_recv, KeyOp, __sm_recv_pairing_public_key
<1>4. CASE msg.op = "pairing_confirm"
  BY <1>4 DEF sm_recv, KeyOp, __sm_recv_pairing_confirm, NoCmd
<1>5. CASE msg.op = "pairing_random"
  BY <1>5 DEF sm_recv, KeyOp, __sm_recv_pairing_random, NoCmd
<1>6. CASE msg.op = "dhkey_check"
  BY <1>6 DEF sm_recv, KeyOp, __sm_recv_pairing_dhkey_check, NoCmd
<1>7. CASE msg.op \in KeyOp
  BY <1>7 DEF sm_recv, KeyOp, RecvKey, NoCmd
<1>8. CASE msg.op \notin {"pairing_req", "pairing_public_key", "pairing_confirm", "pairing_random",
                          "dhkey_check"} \cup KeyOp
  BY <1>8 DEF sm_recv, NoCmd
<1> QED
  BY <1>1, <1>2, <1>3, <1>4, <1>5, <1>6, <1>7, <1>8

LEMMA HostReceivesExplained ==
    ASSUME BondsKept, FailureExplained, HostReceives PROVE FailureExplained'
<1>1. PICK e : e = Head(toHost)
  OBVIOUS
<1>2. /\ toHost # <<>> /\ toHost' = Tail(toHost) /\ Sequence(toHost)
      /\ e.type \in Within => e.h \in Handle /\ conn[e.h] # None
      /\ Taken(e, conn, conn')
  BY <1>1, HostReceivesTakes DEF BondsKept, QueueOK
<1>3. Elements(toHost') \subseteq Elements(toHost) /\ e \in Elements(toHost)
  BY <1>1, <1>2, ElementsTail
<1>4. UNCHANGED <<job, link>> /\ up
  BY DEF HostReceives, peerVars
<1>5. EndsLast'
  BY <1>3, <1>4 DEF FailureExplained, EndsLast, NoEnd
<1>6. \A h \in Handle : conn[h] # None /\ NoEnd(toHost, h) => conn'[h] # None
  BY <1>2, <1>3 DEF Taken, Turns, NoEnd
<1>7. CASE e.type = "sm"
  <2>1. sm_recv(e.h, e.msg)
    BY <1>1, <1>7 DEF HostReceives
  <2>2. /\ up' = up /\ interrupted' = interrupted
        /\ IF e.msg.op = "pairing_public_key" THEN askedLast' = e.h
           ELSE askedLast' = askedLast /\ cmd' = cmd
    BY <2>1, PacketAsks
  <2>3. SUFFICES ASSUME DhkeyExpected PROVE DhkeyExpected'
    BY <1>5, <2>2 DEF FailureExplained
  <2>4. CASE e.msg.op = "pairing_public_key"
    <3>1. NoEnd(toHost, e.h) /\ e.h \in Handle /\ conn[e.h] # None
      BY <1>2, <1>3, <1>7, <2>3, <2>4 DEF DhkeyExpected, AsksDhkey, Within
    <3>2. NoEnd(toHost', e.h) /\ conn'[e.h] # None
      BY <1>3, <1>6, <3>1 DEF NoEnd
    <3>3. \A f \in Elements(toHost') : AsksDhkey(f) => NoEnd(toHost', f.h)
      BY <1>3, <2>3 DEF DhkeyExpected, NoEnd
    <3> QED
      BY <1>4, <2>2, <2>4, <3>1, <3>2, <3>3 DEF DhkeyExpected
  <2>5. CASE e.msg.op # "pairing_public_key"
    <3>1. DhkeyUnderWay' => DhkeyUnderWay
      BY <1>3, <1>4, <2>2, <2>5, UnderWayFrom
    <3>2. \A h : NoEnd(toHost, h) => NoEnd(toHost', h)
      BY <1>3 DEF NoEnd
    <3> QED
      BY <1>3, <1>6, <2>2, <2>3, <2>5, <3>1, <3>2, ExpectedStays
  <2> QED
    BY <2>4, <2>5
<1>8. CASE e.type # "sm"
  <2>1. /\ interrupted' = interrupted /\ askedLast' = askedLast
        /\ cmd' = cmd \/ cmd'.type # "generate_dhkey"
        /\ up' = up \/ (e.type = "generate_dhkey" /\ conn[askedLast] = None)
    <3>1. CASE e.type = "generate_dhkey"
      BY <1>1, <3>1 DEF HostReceives, sm_recv_evt_le_generate_dhkey_complete
    <3>2. CASE e.type = "ltk_req"
      <4>1. sm_recv_evt_le_ltk_req(e.h)
        BY <1>1, <3>2 DEF HostReceives
      <4>2. \E c : SendCmd(c) /\ c.type # "generate_dhkey"
        BY <4>1 DEF sm_recv_evt_le_ltk_req
      <4> QED
        BY <3>2, <4>1, <4>2 DEF sm_recv_evt_le_ltk_req, SendCmd
    <3>3. CASE e.type = "encryption_change"
      BY <1>1, <3>3 DEF HostReceives, sm_recv_evt_encryption_change, NoCmd
    <3>4. CASE e.type \notin {"sm", "generate_dhkey", "ltk_req", "encryption_change"}
      BY <1>1, <3>4 DEF HostReceives, OtherEvent
    <3> QED
      BY <1>8, <3>1, <3>2, <3>3, <3>4
  <2>2. SUFFICES ASSUME DhkeyExpected PROVE DhkeyExpected'
    BY <1>5, <2>1 DEF FailureExplained
  <2>3. e.type = "generate_dhkey" => DhkeyUnderWay
    BY <1>3 DEF DhkeyUnderWay, Elements
  <2>4. up' = up
    BY <2>1, <2>2, <2>3 DEF DhkeyExpected
  <2>5. DhkeyUnderWay' => DhkeyUnderWay
    BY <1>3, <1>4, <2>1, UnderWayFrom
  <2>6. \A h : NoEnd(toHost, h) => NoEnd(toHost', h)
    BY <1>3 DEF NoEnd
  <2> QED
    BY <1>3, <1>6, <2>1, <2>2, <2>4, <2>5, <2>6, ExpectedStays
<1> QED
  BY <1>7, <1>8

LEMMA DialogAnsweredExplained ==
    ASSUME BondsKept, FailureExplained, DialogAnswered PROVE FailureExplained'
<1>1. /\ UNCHANGED <<up, askedLast, toHost, cmd, job, link>>
      /\ interrupted' = {} => interrupted = {}
  BY DEF DialogAnswered, ctrlVars, peerVars, DialogShown, DialogInput, DialogCompare
<1>2. SameHolders(conn, conn')
  BY DialogAnsweredLeaves
<1>3. EndsLast'
  BY <1>1 DEF FailureExplained, EndsLast
<1>4. SUFFICES ASSUME DhkeyExpected PROVE DhkeyExpected'
  BY <1>1, <1>3 DEF FailureExplained
<1>5. DhkeyUnderWay' => DhkeyUnderWay
  BY <1>1 DEF DhkeyUnderWay
<1> QED
  BY <1>1, <1>2, <1>4, <1>5, ExpectedStays DEF SameHolders

\* A peer adds packets of its own link, and requests for the link's key.
PeerAdds(h) ==
    \E t : /\ toHost' = toHost \o t /\ Sequence(t)
           /\ \A e \in Elements(t) : e.type \in {"sm", "ltk_req"} /\ e.h = h

LEMMA AddsPackets ==
    ASSUME NEW h, NEW msgs, Sequence(msgs), toHost' = toHost \o FromPeer(h, msgs)
    PROVE  PeerAdds(h)
<1>1. PICK t : t = FromPeer(h, msgs)
  OBVIOUS
<1>2. PICK n \in Nat : n = Len(msgs) /\ DOMAIN msgs = 1 .. n
  BY SequenceFacts
<1>3. DOMAIN t = 1 .. n /\ t = [i \in 1 .. n |-> t[i]]
  BY <1>1, <1>2 DEF FromPeer
<1>4. Sequence(t)
  BY <1>3, MappedSequence
<1>5. \A i \in DOMAIN t : t[i].type = "sm" /\ t[i].h = h
  BY <1>1, <1>2, <1>3 DEF FromPeer
<1> QED
  BY <1>1, <1>4, <1>5 DEF PeerAdds, Elements

LEMMA SaysAdds ==
    ASSUME NEW h, NEW st, NEW msgs, PeerSays(h, st, msgs),
           msgs = <<>> \/ \E m : msgs = <<m>>
    PROVE  PeerAdds(h)
<1>1. Sequence(msgs)
  BY ShortSequences
<1> QED
  BY <1>1, AddsPackets DEF PeerSays

LEMMA AddsNothing == ASSUME NEW h, Sequence(toHost), UNCHANGED toHost PROVE PeerAdds(h)
<1>1. PICK S : toHost \in Seq(S)
  BY DEF Sequence
<1>2. toHost \o <<>> = toHost
  BY <1>1, ConcatEmptySeq
<1> QED
  BY <1>2, ShortSequences, ElementsFew DEF PeerAdds

LEMMA EncryptionAdds ==
    ASSUME NEW h, NEW st, Sequence(toHost), PeerStartsEncryption(h, st) PROVE PeerAdds(h)
<1>1. PICK e : e = [type |-> "ltk_req", h |-> h]
  OBVIOUS
<1>2. toHost' = toHost \o <<e>> /\ Sequence(<<e>>)
  BY <1>1, AppendOne DEF PeerStartsEncryption
<1>3. Elements(<<e>>) = {e} /\ e.type = "ltk_req" /\ e.h = h
  BY <1>1, ElementsFew
<1> QED
  BY <1>2, <1>3 DEF PeerAdds

\* No request for a DHKey is among the keys a peer sends.
LEMMA KeysSentOnly ==
    ASSUME NEW h
    PROVE  /\ Sequence(KeysSent(h))
           /\ \A e \in Elements(KeysSent(h)) : e.type = "sm" /\ e.h = h /\ e.msg.op \in KeyOp
<1> DEFINE p == link[h].peer
           only(kind, msgs) == IF kind \in peer[h].req.idist \cap SM_RESP.idist THEN msgs ELSE <<>>
<1>1. PICK m1, m2, m3 : /\ m1 = Msg("identity_info", Irk(p)) /\ m2 = Msg("identity_address", Public(p))
                        /\ m3 = Msg("signing_info", <<"csrk", p, link[h].n, peer[h].draws>>)
  OBVIOUS
<1>2. {m1.op, m2.op, m3.op} \subseteq KeyOp
  BY <1>1 DEF Msg, KeyOp
<1>3. PICK id, sign : id = only("ID", <<m1, m2>>) /\ sign = only("SIGN", <<m3>>)
  OBVIOUS
<1>4. Sequence(id) /\ Elements(id) \subseteq {m1, m2} /\ Sequence(sign) /\ Elements(sign) \subseteq {m3}
  BY <1>3, ShortSequences, ElementsFew
<1>5. PICK msgs : msgs = id \o sign
  OBVIOUS
<1>6. Sequence(msgs) /\ Elements(msgs) \subseteq {m1, m2, m3}
  BY <1>4, <1>5, ConcatFacts, ElementsJoin
<1>7. PICK t : t = [i \in DOMAIN msgs |-> [type |-> "sm", h |-> h, msg |-> msgs[i]]]
  OBVIOUS
<1>8. KeysSent(h) = t
  BY <1>1, <1>3, <1>5, <1>7 DEF KeysSent
<1>9. PICK n \in Nat : n = Len(msgs) /\ DOMAIN msgs = 1 .. n
  BY <1>6, SequenceFacts
<1>10. DOMAIN t = 1 .. n /\ t = [i \in 1 .. n |-> t[i]]
  BY <1>7, <1>9
<1>11. Sequence(t)
  BY <1>10, MappedSequence
<1>12. \A i \in DOMAIN t : t[i].type = "sm" /\ t[i].h = h /\ t[i].msg \in Elements(msgs)
  BY <1>7, <1>9, <1>10 DEF Elements
<1> QED
  BY <1>2, <1>6, <1>8, <1>11, <1>12 DEF Elements

LEMMA KeysSentAdds ==
    ASSUME NEW h, toHost' = toHost \o KeysSent(h) PROVE PeerAdds(h)
  BY KeysSentOnly DEF PeerAdds

LEMMA PeerReceivesAdds ==
    ASSUME NEW h, Sequence(toHost), PeerReceives(h) PROVE PeerAdds(h)
<1>1. PICK msg, step : msg = Head(air[h]) /\ step = peer[h].step
  OBVIOUS
<1>2. \/ UNCHANGED toHost
      \/ PeerGetsKey(h, msg)
      \/ PeerGetsResponse(h) \/ PeerGetsPublicKey(h) \/ PeerGetsConfirm(h, msg.value)
      \/ PeerGetsRandom(h, msg.value) \/ PeerGetsCheck(h, msg.value)
      \/ PeerAborts(h)
  BY <1>1 DEF PeerReceives
<1>3. CASE PeerGetsKey(h, msg)
  <2>1. UNCHANGED toHost \/ toHost' = toHost \o KeysSent(h)
    BY <1>3 DEF PeerGetsKey
  <2> QED
    BY <2>1, AddsNothing, KeysSentAdds
<1>4. CASE PeerGetsResponse(h)
  <2>1. \E st, msgs : PeerSays(h, st, msgs) /\ (msgs = <<>> \/ \E m : msgs = <<m>>)
    BY <1>4 DEF PeerGetsResponse
  <2> QED
    BY <2>1, SaysAdds
<1>5. CASE PeerGetsPublicKey(h)
  <2>1. \E st, msgs : PeerSays(h, st, msgs) /\ (msgs = <<>> \/ \E m : msgs = <<m>>)
    BY <1>5 DEF PeerGetsPublicKey, JW, NC, IIRD, IDRI
  <2> QED
    BY <2>1, SaysAdds
<1>6. CASE PeerGetsConfirm(h, msg.value)
  <2>1. \E st, msgs : PeerSays(h, st, msgs) /\ (msgs = <<>> \/ \E m : msgs = <<m>>)
    BY <1>6 DEF PeerGetsConfirm
  <2> QED
    BY <2>1, SaysAdds
<1>7. CASE PeerAborts(h)
  BY <1>7, SaysAdds DEF PeerAborts
<1>8. CASE PeerGetsRandom(h, msg.value)
  <2>1. \/ PeerAborts(h)
        \/ \E st : PeerStartsEncryption(h, st) \/ PeerSays(h, st, <<>>) \/ PeerChecks(h, st)
    BY <1>8 DEF PeerGetsRandom, NC
  <2>2. PICK st : PeerAborts(h) \/ PeerStartsEncryption(h, st) \/ PeerSays(h, st, <<>>) \/ PeerChecks(h, st)
    BY <2>1
  <2>3. CASE PeerChecks(h, st)
    BY <2>3, SaysAdds DEF PeerChecks
  <2> QED
    BY <1>7, <2>2, <2>3, SaysAdds, EncryptionAdds
<1>9. CASE PeerGetsCheck(h, msg.value)
  <2>1. PeerAborts(h) \/ \E st : PeerStartsEncryption(h, st)
    BY <1>9 DEF PeerGetsCheck
  <2> QED
    BY <1>7, <2>1, EncryptionAdds
<1> QED
  BY <1>2, <1>3, <1>4, <1>5, <1>6, <1>7, <1>8, <1>9, AddsNothing

LEMMA PeerGoesOnAdds ==
    ASSUME NEW h, PeerGoesOn(h) PROVE PeerAdds(h)
<1>1. \/ \E tk, round : PeerConfirms(h, tk, round)
      \/ \E st : PeerChecks(h, st)
      \/ PeerAborts(h)
  BY DEF PeerGoesOn, PeerBegins, PeerEnters, PeerCompares
<1>2. \E st, m : PeerSays(h, st, <<m>>)
  <2>1. CASE \E tk, round : PeerConfirms(h, tk, round)
    BY <2>1 DEF PeerConfirms
  <2>2. CASE \E st : PeerChecks(h, st)
    BY <2>2 DEF PeerChecks
  <2>3. CASE PeerAborts(h)
    BY <2>3 DEF PeerAborts
  <2> QED
    BY <1>1, <2>1, <2>2, <2>3
<1> QED
  BY <1>2, SaysAdds

LEMMA PeerExplained ==
    ASSUME BondsKept, FailureExplained, NEW h \in Handle, link[h] # None, PeerAdds(h),
           UNCHANGED <<up, askedLast, conn, cmd, job, link>>,
           interrupted' = {} => interrupted = {}
    PROVE  FailureExplained'
<1>1. PICK t : /\ toHost' = toHost \o t /\ Sequence(t)
               /\ \A e \in Elements(t) : e.type \in {"sm", "ltk_req"} /\ e.h = h
  BY DEF PeerAdds
<1>2. Elements(toHost') = Elements(toHost) \cup Elements(t)
  BY <1>1, ElementsJoin DEF BondsKept, QueueOK
<1>3. \A g : NoEnd(toHost, g) => NoEnd(toHost', g)
  BY <1>1, <1>2 DEF NoEnd
<1>4. EndsLast'
  BY <1>3 DEF FailureExplained, EndsLast
<1>5. SUFFICES ASSUME DhkeyExpected PROVE DhkeyExpected'
  BY <1>4 DEF FailureExplained
<1>6. DhkeyUnderWay' => DhkeyUnderWay
  BY <1>1, <1>2, UnderWayFrom
<1>7. NoEnd(toHost', h)
  BY <1>3 DEF FailureExplained, EndsLast
<1> QED
  BY <1>1, <1>2, <1>3, <1>5, <1>6, <1>7, ExpectedStays

\* A link ends while nothing of it is under way, or the pairing was cut off.
LEMMA UnlinkExplained ==
    ASSUME BondsKept, FailureExplained, NEW h \in Handle, Unlink(h), NEW t, Sequence(t),
           toHost' = toHost \o t,
           \A e \in Elements(t) : /\ e.type \in {"command_answered", "encryption_change", "disconn_complete"}
                                  /\ e.type = "disconn_complete" => e.h = h,
           UNCHANGED <<up, askedLast, conn, job>>, cmd' = cmd \/ cmd' = None
    PROVE  FailureExplained'
<1>1. Elements(toHost') = Elements(toHost) \cup Elements(t)
  BY ElementsJoin DEF BondsKept, QueueOK
<1>2. \A g : NoEnd(toHost, g) /\ g # h => NoEnd(toHost', g)
  BY <1>1 DEF NoEnd
<1>3. link' = [link EXCEPT ![h] = None] /\ DOMAIN link = Handle
  BY DEF Unlink, BondsKept, Shapes
<1>4. EndsLast'
  BY <1>2, <1>3 DEF FailureExplained, EndsLast
<1>5. SUFFICES ASSUME interrupted' = {} PROVE DhkeyExpected'
  BY <1>4 DEF FailureExplained
<1>6. ~AwaitsDhkey(h) /\ interrupted = {}
  BY <1>5 DEF Unlink
<1>7. DhkeyExpected
  BY <1>6 DEF FailureExplained
<1>8. DhkeyUnderWay' => DhkeyUnderWay
  BY <1>1, UnderWayFrom
<1>9. DhkeyUnderWay' => askedLast # h
  BY <1>6, <1>8 DEF AwaitsDhkey
<1>10. \A e \in Elements(toHost) : AsksDhkey(e) => e.h # h
  BY <1>6 DEF AwaitsDhkey, Elements, AsksDhkey
<1>11. \A e \in Elements(toHost') : AsksDhkey(e) => NoEnd(toHost', e.h)
  BY <1>1, <1>2, <1>7, <1>10 DEF DhkeyExpected, AsksDhkey
<1> QED
  BY <1>2, <1>7, <1>8, <1>9, <1>11 DEF DhkeyExpected

\* What the controller tells when it executes a command: of the link it is for, and it may end
\* that link.
Executed(t) ==
    /\ \A e \in Elements(t) :
          /\ e.type \in {"command_answered", "encryption_change", "key_refresh", "sm"}
          /\ e.type \in {"sm", "encryption_change"} => e.h = cmd.h
          /\ e.type = "sm" => e.msg.op \in KeyOp
    /\ UNCHANGED <<link, interrupted>>
    /\ job' = job \/ cmd.type = "generate_dhkey"
ExecutedEnds(t) ==
    /\ \A e \in Elements(t) :
          /\ e.type \in {"command_answered", "encryption_change", "disconn_complete"}
          /\ e.type # "command_answered" => e.h = cmd.h
    /\ \E e \in Elements(t) : e.type = "disconn_complete" /\ e.h = cmd.h
    /\ Unlink(cmd.h) /\ UNCHANGED job

LEMMA ControllerTells ==
    ASSUME BondsKept, ControllerExecutes
    PROVE  \E t : Sequence(t) /\ toHost' = toHost \o t /\ (Executed(t) \/ ExecutedEnds(t))
<1>1. PICK h : h = cmd.h
  OBVIOUS
<1>2. cmd # None /\ h \in Handle /\ Sequence(toHost)
  BY <1>1 DEF ControllerExecutes, BondsKept, CmdOK, QueueOK
<1>3. Answered.type = "command_answered"
  BY DEF Answered
<1>4. PICK one : one = <<Answered>>
  OBVIOUS
<1>5. Sequence(one) /\ Elements(one) = {Answered}
  BY <1>4, ShortSequences, ElementsFew
<1>6. CASE /\ toHost' = Append(toHost, Answered) /\ UNCHANGED <<link, interrupted>>
           /\ job' = job \/ cmd.type = "generate_dhkey"
  <2>1. toHost' = toHost \o one
    BY <1>2, <1>4, <1>6, AppendOne
  <2> QED
    BY <1>3, <1>5, <1>6, <2>1 DEF Executed
<1>7. CASE Encrypted(h)
  <2> DEFINE event0 == IF peer[h].encrypted = ZeroKey
                       THEN [type |-> "encryption_change", h |-> h, enabled |-> 1]
                       ELSE [type |-> "key_refresh", h |-> h]
             waits0 == IF peer[h].pairing THEN peer[h].req.rdist \cap SM_RESP.rdist ELSE {}
             own0   == IF peer[h].pairing /\ waits0 = {} THEN KeysSent(h) ELSE <<>>
  <2>1. PICK event, own, p : event = event0 /\ own = own0 /\ p = link[h].peer
    OBVIOUS
  <2>2. /\ toHost' = toHost \o <<Answered, event>> \o own
        /\ UNCHANGED <<link, interrupted, job>>
    BY <1>7, <2>1 DEF Encrypted
  <2>3. event.type \in {"encryption_change", "key_refresh"} /\ event.h = h
    BY <2>1
  <2>4. Sequence(own) /\ \A e \in Elements(own) : e.type = "sm" /\ e.h = h /\ e.msg.op \in KeyOp
    <3>1. own = KeysSent(h) \/ own = <<>>
      BY <2>1
    <3>2. CASE own = KeysSent(h)
      BY <3>2, KeysSentOnly
    <3>3. CASE own = <<>>
      BY <3>3, ShortSequences, ElementsFew
    <3> QED
      BY <3>1, <3>2, <3>3
  <2>5. PICK first : first = <<Answered, event>>
    OBVIOUS
  <2>6. Sequence(first) /\ Elements(first) = {Answered, event}
    BY <2>5, ShortSequences, ElementsFew
  <2>7. PICK t : t = first \o own
    OBVIOUS
  <2>8. Sequence(t) /\ Elements(t) = {Answered, event} \cup Elements(own)
    <3>1. Sequence(t)
      BY <2>4, <2>6, <2>7, ConcatFacts
    <3>2. Elements(t) = Elements(first) \cup Elements(own)
      BY <2>4, <2>6, <2>7, ElementsJoin
    <3> QED
      BY <2>6, <3>1, <3>2
  <2>9. toHost' = toHost \o t
    <3>1. (toHost \o first) \o own = toHost \o t
      <4>1. Sequence(toHost) /\ Sequence(first) /\ Sequence(own)
        BY <1>2, <2>4, <2>6
      <4> QED
        BY <2>7, <4>1, JoinAssociative
    <3> QED
      BY <2>2, <2>5, <3>1
  <2>10. Executed(t)
    BY <1>1, <1>3, <2>2, <2>3, <2>4, <2>8 DEF Executed
  <2> QED
    BY <2>8, <2>9, <2>10
<1>8. CASE /\ Unlink(h) /\ UNCHANGED job
           /\ \E told \in {<<>>, <<[type |-> "encryption_change", h |-> h, enabled |-> 0]>>} :
                 toHost' = toHost \o <<Answered>> \o told \o <<[type |-> "disconn_complete", h |-> h]>>
  <2>1. PICK e, f : /\ e = [type |-> "disconn_complete", h |-> h]
                    /\ f = [type |-> "encryption_change", h |-> h, enabled |-> 0]
    OBVIOUS
  <2>2. PICK told \in {<<>>, <<f>>} : toHost' = toHost \o <<Answered>> \o told \o <<e>>
    BY <1>8, <2>1
  <2>3. PICK last : last = <<e>>
    OBVIOUS
  <2>4. Sequence(told) /\ Elements(told) \subseteq {f} /\ Sequence(last) /\ Elements(last) = {e}
    BY <2>2, <2>3, ShortSequences, ElementsFew
  <2>5. PICK t1 : t1 = one \o told
    OBVIOUS
  <2>6. Sequence(t1) /\ Elements(t1) \subseteq {Answered, f}
    <3>1. Sequence(t1)
      BY <1>5, <2>4, <2>5, ConcatFacts
    <3>2. Elements(t1) = Elements(one) \cup Elements(told)
      BY <1>5, <2>4, <2>5, ElementsJoin
    <3> QED
      BY <1>5, <2>4, <3>1, <3>2
  <2>7. PICK t : t = t1 \o last
    OBVIOUS
  <2>8. Sequence(t) /\ Elements(t) \subseteq {Answered, f, e} /\ e \in Elements(t)
    <3>1. Sequence(t)
      BY <2>4, <2>6, <2>7, ConcatFacts
    <3>2. Elements(t) = Elements(t1) \cup Elements(last)
      BY <2>4, <2>6, <2>7, ElementsJoin
    <3> QED
      BY <2>4, <2>6, <3>1, <3>2
  <2>9. toHost' = toHost \o t
    <3>1. (toHost \o one) \o told = toHost \o t1
      <4>1. Sequence(toHost) /\ Sequence(one) /\ Sequence(told)
        BY <1>2, <1>5, <2>4
      <4> QED
        BY <2>5, <4>1, JoinAssociative
    <3>2. (toHost \o t1) \o last = toHost \o t
      <4>1. Sequence(toHost) /\ Sequence(t1) /\ Sequence(last)
        BY <1>2, <2>4, <2>6
      <4>2. (toHost \o t1) \o last = toHost \o (t1 \o last)
        BY <4>1, JoinAssociative
      <4> QED
        BY <2>7, <4>2
    <3> QED
      BY <1>4, <2>2, <2>3, <3>1, <3>2
  <2>10. ExecutedEnds(t)
    <3>1. \A x \in Elements(t) : /\ x.type \in {"command_answered", "encryption_change", "disconn_complete"}
                                 /\ x.type # "command_answered" => x.h = h
      BY <1>3, <2>1, <2>8
    <3>2. e.type = "disconn_complete" /\ e.h = h
      BY <2>1
    <3> QED
      BY <1>1, <1>8, <2>8, <3>1, <3>2 DEF ExecutedEnds
  <2> QED
    BY <2>8, <2>9, <2>10
<1>9. \/ /\ toHost' = Append(toHost, Answered) /\ UNCHANGED <<link, interrupted>>
         /\ job' = job \/ cmd.type = "generate_dhkey"
      \/ Encrypted(h)
      \/ /\ Unlink(h) /\ UNCHANGED job
         /\ \E told \in {<<>>, <<[type |-> "encryption_change", h |-> h, enabled |-> 0]>>} :
                toHost' = toHost \o <<Answered>> \o told \o <<[type |-> "disconn_complete", h |-> h]>>
  <2>1. CASE cmd.type = "generate_dhkey"
    BY <1>1, <2>1 DEF ControllerExecutes, peerVars
  <2>2. CASE cmd.type # "generate_dhkey" /\ peer[h].step # "encrypt"
    BY <1>1, <2>2 DEF ControllerExecutes, peerVars
  <2>3. CASE cmd.type = "ltk_req_reply" /\ peer[h].step = "encrypt" /\ cmd.ltk = peer[h].ltk
    BY <1>1, <2>3 DEF ControllerExecutes
  <2>4. CASE cmd.type = "ltk_req_reply" /\ peer[h].step = "encrypt" /\ cmd.ltk # peer[h].ltk
    BY <1>1, <2>4 DEF ControllerExecutes
  <2>5. CASE cmd.type \notin {"generate_dhkey", "ltk_req_reply"} /\ peer[h].step = "encrypt"
    BY <1>1, <2>5 DEF ControllerExecutes
  <2> QED
    BY <2>1, <2>2, <2>3, <2>4, <2>5
<1> QED
  BY <1>6, <1>7, <1>8, <1>9

LEMMA ControllerExplained ==
    ASSUME BondsKept, FailureExplained, ControllerExecutes PROVE FailureExplained'
<1>1. PICK t : Sequence(t) /\ toHost' = toHost \o t /\ (Executed(t) \/ ExecutedEnds(t))
  BY ControllerTells
<1>2. /\ cmd # None /\ cmd' = None /\ cmd.h \in Handle /\ Sequence(toHost)
      /\ UNCHANGED <<up, askedLast, conn>>
  BY DEF ControllerExecutes, BondsKept, CmdOK, QueueOK, hostVars
<1>3. CASE Executed(t)
  <2>1. Elements(toHost') = Elements(toHost) \cup Elements(t)
    BY <1>1, <1>2, ElementsJoin
  <2>2. \A g : NoEnd(toHost, g) => NoEnd(toHost', g)
    BY <1>3, <2>1 DEF NoEnd, Executed
  <2>3. EndsLast'
    BY <1>3, <2>2 DEF FailureExplained, EndsLast, Executed
  <2>4. SUFFICES ASSUME DhkeyExpected PROVE DhkeyExpected'
    BY <1>3, <2>3 DEF FailureExplained, Executed
  <2>5. DhkeyUnderWay' => DhkeyUnderWay
    BY <1>2, <1>3, <2>1, UnderWayFrom DEF Executed
  <2>6. \A e \in Elements(t) : ~AsksDhkey(e)
    BY <1>3 DEF Executed, AsksDhkey, KeyOp
  <2> QED
    BY <1>2, <2>1, <2>2, <2>4, <2>5, <2>6, ExpectedStays
<1>4. CASE ExecutedEnds(t)
  BY <1>1, <1>2, <1>4, UnlinkExplained DEF ExecutedEnds
<1> QED
  BY <1>1, <1>3, <1>4

LEMMA ComputesExplained ==
    ASSUME BondsKept, FailureExplained, ControllerComputes PROVE FailureExplained'
<1>1. PICK e : e = [type |-> "generate_dhkey", h |-> job.h, dhkey |-> DhKey(job.pk)]
  OBVIOUS
<1>2. e.type = "generate_dhkey" /\ toHost' = Append(toHost, e) /\ job # None /\ job' = None
  BY <1>1 DEF ControllerComputes
<1>3. UNCHANGED <<up, askedLast, conn, cmd, link, interrupted>>
  BY DEF ControllerComputes, hostVars, peerVars, history
<1>4. Elements(toHost') = Elements(toHost) \cup {e}
  BY <1>2, ElementsAppend DEF BondsKept, QueueOK
<1>5. \A g : NoEnd(toHost, g) => NoEnd(toHost', g)
  BY <1>2, <1>4 DEF NoEnd
<1>6. EndsLast'
  BY <1>3, <1>5 DEF FailureExplained, EndsLast
<1>7. SUFFICES ASSUME DhkeyExpected PROVE DhkeyExpected'
  BY <1>3, <1>6 DEF FailureExplained
<1>8. DhkeyUnderWay' => DhkeyUnderWay
  BY <1>2 DEF DhkeyUnderWay
<1> QED
  BY <1>2, <1>3, <1>4, <1>5, <1>7, <1>8, ExpectedStays DEF AsksDhkey

LEMMA ConnectsExplained ==
    ASSUME BondsKept, FailureExplained, NEW h \in Handle, NEW p, NEW addr, Connects(h, p, addr)
    PROVE  FailureExplained'
<1>1. PICK e : e = [type |-> "conn_complete", h |-> h, link |-> link'[h]]
  OBVIOUS
<1>2. /\ e.type = "conn_complete" /\ toHost' = Append(toHost, e) /\ NoEnd(toHost, h)
      /\ \A g \in Handle : g # h => link'[g] = link[g]
  BY <1>1 DEF Connects, NoEnd, Elements, BondsKept, Shapes
<1>3. UNCHANGED <<up, askedLast, conn, cmd, job, interrupted>>
  BY DEF Connects, hostVars, ctrlVars
<1>4. Elements(toHost') = Elements(toHost) \cup {e}
  BY <1>2, ElementsAppend DEF BondsKept, QueueOK
<1>5. \A g : NoEnd(toHost, g) => NoEnd(toHost', g)
  BY <1>2, <1>4 DEF NoEnd
<1>6. EndsLast'
  BY <1>2, <1>5 DEF FailureExplained, EndsLast
<1>7. SUFFICES ASSUME DhkeyExpected PROVE DhkeyExpected'
  BY <1>3, <1>6 DEF FailureExplained
<1>8. DhkeyUnderWay' => DhkeyUnderWay
  BY <1>2, <1>3, <1>4, UnderWayFrom
<1> QED
  BY <1>2, <1>3, <1>4, <1>5, <1>7, <1>8, ExpectedStays DEF AsksDhkey

LEMMA LostExplained ==
    ASSUME BondsKept, FailureExplained, NEW h \in Handle, LinkLost(h) PROVE FailureExplained'
<1>1. PICK e, t : e = [type |-> "disconn_complete", h |-> h] /\ t = <<e>>
  OBVIOUS
<1>2. /\ Unlink(h) /\ toHost' = Append(toHost, e)
      /\ e.type = "disconn_complete" /\ e.h = h
      /\ UNCHANGED <<up, askedLast, conn, job, cmd>>
  BY <1>1 DEF LinkLost, hostVars, ctrlVars
<1>3. toHost' = toHost \o t /\ Sequence(t) /\ Elements(t) = {e}
  BY <1>1, <1>2, AppendOne, ElementsFew DEF BondsKept, QueueOK
<1> QED
  BY <1>2, <1>3, UnlinkExplained

LEMMA FailureExplainedInit == Init => FailureExplained
<1> SUFFICES ASSUME Init PROVE FailureExplained
  OBVIOUS
<1>1. /\ up /\ cmd = None /\ job = None /\ toHost = <<>> /\ \A h \in Handle : link[h] = None
  BY DEF Init
<1>2. Elements(toHost) = {} /\ ~DhkeyUnderWay
  BY <1>1, ElementsFew DEF DhkeyUnderWay, Elements
<1> QED
  BY <1>1, <1>2 DEF FailureExplained, EndsLast, DhkeyExpected

LEMMA FailureExplainedNext ==
    ASSUME BondsKept, FailureExplained, Next PROVE FailureExplained'
<1>1. CASE HostReceives
  BY <1>1, HostReceivesExplained
<1>2. CASE DialogAnswered
  BY <1>2, DialogAnsweredExplained
<1>3. CASE ControllerExecutes
  BY <1>3, ControllerExplained
<1>4. CASE ControllerComputes
  BY <1>4, ComputesExplained
<1>5. ASSUME NEW h \in Handle, PeerReceives(h) PROVE FailureExplained'
  <2>1. UNCHANGED <<up, askedLast, conn, cmd, job, link, interrupted>> /\ link[h] # None
    BY <1>5 DEF PeerReceives, hostVars, ctrlVars, BondsKept, Silent
  <2>2. PeerAdds(h)
    BY <1>5, PeerReceivesAdds DEF BondsKept, QueueOK
  <2> QED
    BY <2>1, <2>2, PeerExplained
<1>6. ASSUME NEW h \in Handle, PeerGoesOn(h) PROVE FailureExplained'
  <2>1. UNCHANGED <<up, askedLast, conn, cmd, job, link, interrupted>>
    BY <1>6 DEF PeerGoesOn, hostVars, ctrlVars
  <2>2. link[h] # None
    BY <1>6 DEF BondsKept, Silent, PeerGoesOn, PeerBegins, PeerEnters, PeerCompares
  <2> QED
    BY <1>6, <2>1, <2>2, PeerGoesOnAdds, PeerExplained
<1>7. ASSUME NEW h \in Handle, NEW offer \in Offers, PeerStarts(h, offer) PROVE FailureExplained'
  <2>1. /\ UNCHANGED <<up, askedLast, conn, cmd, job, link>> /\ link[h] # None
        /\ interrupted' = {} => interrupted = {}
    BY <1>7 DEF PeerStarts, hostVars, ctrlVars, Begins
  <2>2. PeerAdds(h)
    BY <1>7, SaysAdds DEF PeerStarts
  <2> QED
    BY <2>1, <2>2, PeerExplained
<1>8. ASSUME NEW h \in Handle, PeerEncrypts(h) PROVE FailureExplained'
  <2>1. /\ UNCHANGED <<up, askedLast, conn, cmd, job, link>> /\ link[h] # None
        /\ interrupted' = {} => interrupted = {}
    BY <1>8 DEF PeerEncrypts, hostVars, ctrlVars, Begins
  <2>2. \E st : PeerStartsEncryption(h, st)
    BY <1>8 DEF PeerEncrypts
  <2>3. PeerAdds(h)
    BY <2>2, EncryptionAdds DEF BondsKept, QueueOK
  <2> QED
    BY <2>1, <2>3, PeerExplained
<1>9. CASE \E h \in Handle, p \in Peer : \E addr \in AddressesOf(p) : Connects(h, p, addr)
  BY <1>9, ConnectsExplained
<1>10. CASE \E h \in Handle : LinkLost(h)
  BY <1>10, LostExplained
<1>11. CASE Restart
  <2>1. /\ up' /\ cmd' = None /\ job' = None /\ toHost' = <<>> /\ \A h \in Handle : link'[h] = None
    BY <1>11 DEF Restart
  <2>2. Elements(toHost') = {} /\ ~DhkeyUnderWay'
    BY <2>1, ElementsFew DEF DhkeyUnderWay, Elements
  <2> QED
    BY <2>1, <2>2 DEF FailureExplained, EndsLast, DhkeyExpected
<1> QED
  BY <1>1, <1>2, <1>3, <1>4, <1>5, <1>6, <1>7, <1>8, <1>9, <1>10, <1>11 DEF Next

LEMMA FailuresExplained == Spec => []FailureExplained
<1>1. BondsKept /\ FailureExplained /\ [Next]_vars => FailureExplained'
  <2>1. ASSUME FailureExplained, UNCHANGED vars PROVE FailureExplained'
    BY <2>1 DEF FailureExplained, EndsLast, DhkeyExpected, DhkeyUnderWay, vars, hostVars, ctrlVars, peerVars, history
  <2> QED
    BY <2>1, FailureExplainedNext
<1> QED
  BY <1>1, FailureExplainedInit, PairingsConsistent, PTL DEF Spec

\* The program follows a null pointer only after a pairing was cut off: whoever the DHKey under
\* way is given to is a connection, and that it ends meanwhile is what cuts a pairing off
\* (sm_recv_evt_le_generate_dhkey_complete gives it to the connection that asked last).
THEOREM FailureNeedsInterruption == Spec => []CrashNeedsInterruption
<1>1. FailureExplained => CrashNeedsInterruption
  BY DEF FailureExplained, DhkeyExpected, CrashNeedsInterruption
<1> QED
  BY <1>1, FailuresExplained, PTL
=============================================================================
