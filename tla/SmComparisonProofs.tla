------------------------- MODULE SmComparisonProofs -------------------------
(***************************************************************************)
(* What the host and a peer agree on while a pairing goes on, for every     *)
(* number of peers, links, pairings and restarts: the number the host shows *)
(* in a numeric comparison is the one the peer shows, and the number of the *)
(* passkey's bit stays within the passkey.                                  *)
(***************************************************************************)
EXTENDS SmPairingProofs

-----------------------------------------------------------------------------
(* The number shown is the number the peer shows.                           *)

\* The connection under h begins at most once in what is under way, before anything of it ends,
\* and it has ended before it can begin again.
Opening(e, h) == e.type = "conn_complete" /\ e.h = h
Closing(e, h)   == e.type = "disconn_complete" /\ e.h = h
FirstTurn(q, h, i)    == \A j \in 1 .. i - 1 : ~Turns(q[j], h)
EndsAfter(q, h, i, n) == \E j \in i + 1 .. n : Closing(q[j], h)
TurnsOK(q, cs, lk) ==
    \A h \in Handle : \A i \in DOMAIN q :
        Opening(q[i], h) => /\ cs[h] = None /\ FirstTurn(q, h, i)
                            /\ lk[h] = None => EndsAfter(q, h, i, Len(q))

AirOK(a) == \A h \in Handle : Sequence(a[h])

IsPacket(e, h, op) == e.type = "sm" /\ e.h = h /\ e.msg.op = op
RandomOf(h) == [type |-> "sm", h |-> h, msg |-> Msg("pairing_random", peer[h].random)]
Once(q, x)  == \A i, j \in DOMAIN q : q[i] = x /\ q[j] = x => i = j
InAir(h, op) == \E m \in Elements(air[h]) : m.op = op
Asked(h) == askedLast = h /\ DhkeyUnderWay
CompareOpen(h) == dialog # None /\ dialog.kind = "compare" /\ dialog.h = h
NumberOf(h, host_random) == __sm_g2(Pk(link[h].peer), HostPk, peer[h].random, host_random)

\* The peer under h is in a numeric comparison that did not overlap an earlier pairing.
Comparing(h) ==
    /\ link[h] # None /\ h \notin overlapped
    /\ peer[h].step \in {"resp", "pk", "enter", "begin", "confirm", "random", "compare"}
    /\ IsSecureConnection(peer[h].req) /\ PeerMethod(peer[h].req) = NC

\* What its packets still under way say.
PacketsOfComparison(h) ==
    /\ \A e \in Elements(toHost) :
          /\ IsPacket(e, h, "pairing_req") => e.msg.value = peer[h].req
          /\ IsPacket(e, h, "pairing_public_key") =>
                e.msg.value = Pk(link[h].peer) /\ peer[h].step # "resp"
          /\ IsPacket(e, h, "pairing_random") => peer[h].step = "random" /\ e = RandomOf(h)
    /\ Once(toHost, RandomOf(h))

\* The host has answered the request, on the connection it goes on to have.
Agreed(h) ==
    /\ conn[h] # None /\ conn[h].sc /\ conn[h].method = NC
    /\ \A e \in Elements(toHost) : ~Opening(e, h)

HasKey(h) == conn[h] # None /\ conn[h].pk = Pk(link[h].peer)

\* The host has the peer's public key before the peer can have the host's.
KeysOfComparison(h) ==
    /\ peer[h].step # "resp" \/ InAir(h, "pairing_resp") => Agreed(h)
    /\ Asked(h) \/ InAir(h, "pairing_public_key") \/ peer[h].step \in {"confirm", "random", "compare"} =>
          HasKey(h)

\* The host shows a number when it answers the peer's random value, the only one there is.
NumbersAgree(h) ==
    /\ peer[h].step \in {"resp", "pk", "confirm"} \/ RandomOf(h) \in Elements(toHost) =>
          ~InAir(h, "pairing_random") /\ ~CompareOpen(h)
    /\ CompareOpen(h) /\ peer[h].step = "random" =>
          \A m \in Elements(air[h]) : m.op = "pairing_random" => dialog.number = NumberOf(h, m.value)
    /\ CompareOpen(h) /\ peer[h].step = "compare" => dialog.number = NumberOf(h, peer[h].host_random)

ComparisonOK(h) ==
    /\ peer[h].step \notin {"enter", "begin"}
    /\ PacketsOfComparison(h) /\ KeysOfComparison(h) /\ NumbersAgree(h)

ComparisonsAgree ==
    /\ TurnsOK(toHost, conn, link) /\ AirOK(air)
    /\ \A h \in Handle : Comparing(h) => ComparisonOK(h)

-----------------------------------------------------------------------------
(* Sequences with a packet that is there once.                              *)

LEMMA OnceTail ==
    ASSUME NEW q, Sequence(q), q # <<>>, NEW x, Once(q, x)
    PROVE  Once(Tail(q), x) /\ (Head(q) = x => x \notin Elements(Tail(q)))
<1>1. PICK n \in Nat : n = Len(q) /\ n > 0
  BY TailFacts
<1>2. /\ DOMAIN Tail(q) = 1 .. n - 1 /\ DOMAIN q = 1 .. n
      /\ \A i \in 1 .. n - 1 : Tail(q)[i] = q[i + 1]
      /\ Head(q) = q[1]
  BY <1>1, TailFacts
<1>3. ASSUME NEW i \in 1 .. n - 1, NEW j \in 1 .. n - 1, Tail(q)[i] = x, Tail(q)[j] = x PROVE i = j
  <2>1. i + 1 \in 1 .. n /\ j + 1 \in 1 .. n
    OBVIOUS
  <2>2. i + 1 = j + 1
    BY <1>2, <1>3, <2>1 DEF Once
  <2> QED
    BY <2>2
<1>4. ASSUME Head(q) = x, NEW i \in 1 .. n - 1, Tail(q)[i] = x PROVE FALSE
  <2>1. i + 1 \in 1 .. n /\ 1 \in 1 .. n /\ i + 1 # 1
    BY <1>1
  <2> QED
    BY <1>2, <1>4, <2>1 DEF Once
<1> QED
  BY <1>2, <1>3, <1>4 DEF Once, Elements

LEMMA OnceJoin ==
    ASSUME NEW q, NEW t, Sequence(q), Sequence(t), NEW x,
           \/ Once(q, x) /\ x \notin Elements(t)
           \/ x \notin Elements(q) /\ Len(t) = 1
    PROVE  Once(q \o t, x)
<1>1. PICK s, n, m : s = q \o t /\ n = Len(q) /\ m = Len(t)
  OBVIOUS
<1>2. /\ n \in Nat /\ m \in Nat /\ DOMAIN s = 1 .. n + m
      /\ DOMAIN q = 1 .. n /\ DOMAIN t = 1 .. m
      /\ \A i \in 1 .. n : s[i] = q[i]
      /\ \A i \in 1 .. m : s[n + i] = t[i]
  BY <1>1, ConcatFacts, SequenceFacts
<1>3. ASSUME NEW i \in 1 .. n + m, i \notin 1 .. n PROVE i - n \in 1 .. m /\ s[i] = t[i - n]
  <2>1. i - n \in 1 .. m /\ n + (i - n) = i
    BY <1>2, <1>3
  <2> QED
    BY <1>2, <2>1
<1>4. CASE Once(q, x) /\ x \notin Elements(t)
  <2>1. \A i \in 1 .. n + m : s[i] = x => i \in 1 .. n
    BY <1>2, <1>3, <1>4 DEF Elements
  <2> QED
    BY <1>1, <1>2, <1>4, <2>1 DEF Once
<1>5. CASE x \notin Elements(q) /\ Len(t) = 1
  <2>1. \A i \in 1 .. n + m : s[i] = x => i \notin 1 .. n
    BY <1>2, <1>5 DEF Elements
  <2>2. \A i \in 1 .. n + m : s[i] = x => i = n + 1
    BY <1>1, <1>2, <1>5, <2>1
  <2> QED
    BY <1>1, <1>2, <2>2 DEF Once
<1> QED
  BY <1>4, <1>5

-----------------------------------------------------------------------------
(* A connection begins once.                                                *)

LEMMA TurnsAt ==
    ASSUME NEW q, NEW cs, NEW lk, TurnsOK(q, cs, lk), NEW n, n = Len(q), DOMAIN q = 1 .. n,
           NEW h \in Handle, NEW i \in 1 .. n, Opening(q[i], h)
    PROVE  cs[h] = None /\ FirstTurn(q, h, i) /\ (lk[h] = None => EndsAfter(q, h, i, n))
  BY DEF TurnsOK

LEMMA TurnsFrom ==
    ASSUME NEW q, NEW cs, NEW lk, NEW n, n = Len(q), DOMAIN q = 1 .. n,
           \A h \in Handle : \A i \in 1 .. n :
              Opening(q[i], h) => /\ cs[h] = None /\ FirstTurn(q, h, i)
                                  /\ lk[h] = None => EndsAfter(q, h, i, n)
    PROVE  TurnsOK(q, cs, lk)
  BY DEF TurnsOK

LEMMA TurnsGrow ==
    ASSUME NEW q, NEW t, Sequence(q), Sequence(t), NEW cs, NEW lk, NEW lk2, TurnsOK(q, cs, lk),
           \A e \in Elements(t) : e.type # "conn_complete",
           \A h \in Handle : \/ lk2[h] = lk[h]
                             \/ lk2[h] # None
                             \/ \E e \in Elements(t) : e.type = "disconn_complete" /\ e.h = h
    PROVE  TurnsOK(q \o t, cs, lk2)
<1>1. PICK s, n, m : s = q \o t /\ n = Len(q) /\ m = Len(t)
  OBVIOUS
<1>2. /\ n \in Nat /\ m \in Nat /\ DOMAIN s = 1 .. n + m /\ Len(s) = n + m
      /\ DOMAIN q = 1 .. n /\ DOMAIN t = 1 .. m
      /\ \A i \in 1 .. n : s[i] = q[i]
      /\ \A i \in 1 .. m : s[n + i] = t[i]
  <2>1. /\ Len(s) = n + m /\ n \in Nat /\ m \in Nat /\ DOMAIN s = 1 .. n + m
        /\ \A i \in 1 .. n : s[i] = q[i]
        /\ \A i \in 1 .. m : s[n + i] = t[i]
    BY <1>1, ConcatFacts
  <2>2. DOMAIN q = 1 .. n /\ DOMAIN t = 1 .. m
    BY <1>1, SequenceFacts
  <2> QED
    BY <2>1, <2>2
<1>3. ASSUME NEW h \in Handle, NEW i \in 1 .. n + m, Opening(s[i], h)
      PROVE  cs[h] = None /\ FirstTurn(s, h, i) /\ (lk2[h] = None => EndsAfter(s, h, i, n + m))
  <2>1. i \in 1 .. n
    <3>1. CASE i \notin 1 .. n
      <4>1. i - n \in 1 .. m /\ n + (i - n) = i
        BY <1>2, <3>1
      <4>2. s[i] = t[i - n]
        BY <1>2, <4>1
      <4>3. t[i - n] \in Elements(t)
        BY <1>2, <4>1 DEF Elements
      <4> QED
        BY <1>2, <1>3, <4>2, <4>3 DEF Opening
    <3> QED
      BY <3>1
  <2>2. cs[h] = None /\ FirstTurn(q, h, i) /\ (lk[h] = None => EndsAfter(q, h, i, n))
    BY <1>1, <1>2, <1>3, <2>1, TurnsAt
  <2>3. FirstTurn(s, h, i)
    BY <1>2, <2>1, <2>2 DEF FirstTurn
  <2>4. ASSUME lk2[h] = None PROVE EndsAfter(s, h, i, n + m)
    <3>1. CASE lk[h] = None
      <4>1. PICK j \in i + 1 .. n : Closing(q[j], h)
        BY <2>2, <3>1 DEF EndsAfter
      <4>2. j \in 1 .. n /\ j \in i + 1 .. n + m
        BY <1>2
      <4> QED
        BY <1>2, <4>1, <4>2 DEF EndsAfter
    <3>2. CASE lk[h] # None
      <4>1. PICK k \in 1 .. m : Closing(t[k], h)
        BY <1>2, <2>4, <3>2 DEF Elements, Closing
      <4>2. n + k \in i + 1 .. n + m /\ s[n + k] = t[k]
        BY <1>2, <2>1
      <4> QED
        BY <4>1, <4>2 DEF EndsAfter
    <3> QED
      BY <3>1, <3>2
  <2> QED
    BY <2>2, <2>3, <2>4
<1> QED
  BY <1>1, <1>2, <1>3, TurnsFrom

LEMMA TurnsShrink ==
    ASSUME NEW q, Sequence(q), q # <<>>, NEW cs, NEW cs2, NEW lk, TurnsOK(q, cs, lk), Taken(Head(q), cs, cs2)
    PROVE  TurnsOK(Tail(q), cs2, lk)
<1>1. PICK s, n : s = Tail(q) /\ n = Len(q)
  OBVIOUS
<1>2. /\ n \in Nat \ {0} /\ DOMAIN s = 1 .. n - 1 /\ DOMAIN q = 1 .. n /\ Len(s) = n - 1
      /\ \A i \in 1 .. n - 1 : s[i] = q[i + 1]
      /\ Head(q) = q[1]
  BY <1>1, TailFacts
<1>3. ASSUME NEW h \in Handle, NEW i \in 1 .. n - 1, Opening(s[i], h)
      PROVE  cs2[h] = None /\ FirstTurn(s, h, i) /\ (lk[h] = None => EndsAfter(s, h, i, n - 1))
  <2>1. i + 1 \in 1 .. n /\ Opening(q[i + 1], h) /\ (i + 1) - 1 = i
    BY <1>2, <1>3
  <2>2. cs[h] = None /\ FirstTurn(q, h, i + 1) /\ (lk[h] = None => EndsAfter(q, h, i + 1, n))
    BY <1>1, <1>2, <2>1, TurnsAt
  <2>3. cs2[h] = None
    <3>1. 1 \in 1 .. i
      BY <1>2
    <3> QED
      BY <1>2, <2>1, <2>2, <3>1 DEF Taken, FirstTurn
  <2>4. FirstTurn(s, h, i)
    <3>1. \A j \in 1 .. i - 1 : j + 1 \in 1 .. i /\ j \in 1 .. n - 1
      BY <1>2
    <3> QED
      BY <1>2, <2>1, <2>2, <3>1 DEF FirstTurn
  <2>5. ASSUME lk[h] = None PROVE EndsAfter(s, h, i, n - 1)
    <3>1. PICK j \in (i + 1) + 1 .. n : Closing(q[j], h)
      BY <2>2, <2>5 DEF EndsAfter
    <3>2. j - 1 \in i + 1 .. n - 1 /\ j - 1 \in 1 .. n - 1 /\ (j - 1) + 1 = j
      BY <1>2
    <3>3. s[j - 1] = q[j]
      BY <1>2, <3>2
    <3> QED
      BY <3>1, <3>2, <3>3 DEF EndsAfter
  <2> QED
    BY <2>3, <2>4, <2>5
<1> QED
  BY <1>1, <1>2, <1>3, TurnsFrom

LEMMA TurnsConnect ==
    ASSUME NEW q, Sequence(q), NEW e, NEW g \in Handle, e.h = g, NEW cs, NEW lk, NEW lk2,
           TurnsOK(q, cs, lk), cs[g] = None, lk[g] = None, NoEnd(q, g),
           lk2[g] # None, \A h \in Handle : h # g => lk2[h] = lk[h]
    PROVE  TurnsOK(Append(q, e), cs, lk2)
<1>1. PICK s, n : s = Append(q, e) /\ n = Len(q)
  OBVIOUS
<1>2. /\ n \in Nat /\ DOMAIN s = 1 .. n + 1 /\ DOMAIN q = 1 .. n /\ Len(s) = n + 1
      /\ \A i \in 1 .. n : s[i] = q[i]
      /\ s[n + 1] = e
  <2>1. s = q \o <<e>> /\ Sequence(<<e>>) /\ Len(<<e>>) = 1 /\ <<e>>[1] = e
    BY <1>1, AppendOne
  <2>2. 1 \in 1 .. 1
    OBVIOUS
  <2> QED
    BY <1>1, <2>1, <2>2, ConcatFacts, SequenceFacts
<1>3. \A i \in 1 .. n : ~Turns(q[i], g)
  <2>1. ASSUME NEW i \in 1 .. n, Opening(q[i], g) PROVE FALSE
    <3>1. PICK j \in i + 1 .. n : Closing(q[j], g)
      BY <1>1, <1>2, <2>1, TurnsAt DEF EndsAfter
    <3>2. j \in 1 .. n
      OBVIOUS
    <3> QED
      BY <1>2, <3>1, <3>2 DEF NoEnd, Elements, Closing
  <2> QED
    BY <1>2, <2>1 DEF NoEnd, Elements, Turns, Opening
<1>4. ASSUME NEW h \in Handle, NEW i \in 1 .. n + 1, Opening(s[i], h)
      PROVE  cs[h] = None /\ FirstTurn(s, h, i) /\ (lk2[h] = None => EndsAfter(s, h, i, n + 1))
  <2>1. CASE h = g
    <3>1. \A j \in 1 .. i - 1 : j \in 1 .. n
      BY <1>2
    <3> QED
      BY <1>2, <1>3, <2>1, <3>1 DEF FirstTurn
  <2>2. CASE h # g
    <3>1. i \in 1 .. n
      BY <1>2, <1>4, <2>2 DEF Opening
    <3>2. cs[h] = None /\ FirstTurn(q, h, i) /\ (lk[h] = None => EndsAfter(q, h, i, n))
      BY <1>1, <1>2, <1>4, <3>1, TurnsAt
    <3>3. \A j \in 1 .. i - 1 : j \in 1 .. n
      BY <1>2, <3>1
    <3>4. \A j \in i + 1 .. n : j \in 1 .. n /\ j \in i + 1 .. n + 1
      BY <3>1, <1>2
    <3> QED
      BY <1>2, <2>2, <3>2, <3>3, <3>4 DEF FirstTurn, EndsAfter
  <2> QED
    BY <2>1, <2>2
<1> QED
  BY <1>1, <1>2, <1>4, TurnsFrom
-----------------------------------------------------------------------------
(* What the handlers send.                                                  *)

\* The host sends packets of the kinds ops under h, and nothing under another handle.
Sends(h, ops) ==
    /\ AirOK(air') /\ \A g \in Handle : g # h => air'[g] = air[g]
    /\ \A m \in Elements(air'[h]) : m \in Elements(air[h]) \/ m.op \in ops

LEMMA GoesSends ==
    ASSUME Shapes, AirOK(air), NEW h \in Handle, NEW c, NEW msgs, Sequence(msgs), NEW ops,
           \A m \in Elements(msgs) : m.op \in ops, Goes(h, c, msgs)
    PROVE  /\ Sends(h, ops) /\ conn'[h] = c /\ \A g \in Handle : g # h => conn'[g] = conn[g]
           /\ \A m \in Elements(air'[h]) : m \in Elements(air[h]) \cup Elements(msgs)
<1>1. conn'[h] = c /\ \A g \in Handle : g # h => conn'[g] = conn[g]
  BY DEF Goes, Shapes
<1>2. air' = IF link[h] = None THEN air ELSE [air EXCEPT ![h] = @ \o msgs]
  BY DEF Goes, sm_send
<1>3. Sequence(air[h])
  BY DEF AirOK
<1>4. PICK a : a = air[h] \o msgs
  OBVIOUS
<1>5. Sequence(a) /\ Elements(a) = Elements(air[h]) \cup Elements(msgs)
  <2>1. Sequence(a)
    BY <1>3, <1>4, ConcatFacts
  <2>2. Elements(a) = Elements(air[h]) \cup Elements(msgs)
    BY <1>3, <1>4, ElementsJoin
  <2> QED
    BY <2>1, <2>2
<1>6. air'[h] = air[h] \/ air'[h] = a
  BY <1>2, <1>4 DEF Shapes
<1>7. \A g \in Handle : g # h => air'[g] = air[g]
  BY <1>2 DEF Shapes
<1>8. AirOK(air')
  BY <1>5, <1>6, <1>7 DEF AirOK
<1> QED
  BY <1>1, <1>5, <1>6, <1>7, <1>8 DEF Sends

\* A handler that sends at most two packets.
LEMMA GoesSendsFew ==
    ASSUME Shapes, AirOK(air), NEW h \in Handle, NEW c, NEW msgs, NEW ops, Goes(h, c, msgs),
           \/ msgs = <<>>
           \/ \E m : msgs = <<m>> /\ m.op \in ops
           \/ \E m, l : msgs = <<m, l>> /\ {m.op, l.op} \subseteq ops
    PROVE  Sends(h, ops) /\ conn'[h] = c /\ \A g \in Handle : g # h => conn'[g] = conn[g]
<1>1. Sequence(msgs) /\ \A m \in Elements(msgs) : m.op \in ops
  <2>1. CASE msgs = <<>>
    BY <2>1, ShortSequences, ElementsFew
  <2>2. CASE \E m : msgs = <<m>> /\ m.op \in ops
    BY <2>2, ShortSequences, ElementsFew
  <2>3. CASE \E m, l : msgs = <<m, l>> /\ {m.op, l.op} \subseteq ops
    BY <2>3, ShortSequences, ElementsFew
  <2> QED
    BY <2>1, <2>2, <2>3
<1> QED
  BY <1>1, GoesSends

LEMMA SameSends ==
    ASSUME AirOK(air), NEW h, NEW ops, UNCHANGED air PROVE Sends(h, ops)
  BY DEF Sends

\* What a host's step does to a connection and to the agreement made there, in which dialog.
HostStep(h, ops) ==
    /\ Sends(h, ops) /\ \A g \in Handle : g # h => conn'[g] = conn[g]
    /\ dialog' # None => dialog'.h = h /\ dialog'.kind # "compare"

LEMMA RequestStep ==
    ASSUME Shapes, AirOK(air), NEW h \in Handle, ConnOK(conn[h]), NEW req, __sm_recv_pairing_req(h, req)
    PROVE  /\ HostStep(h, {"pairing_resp"})
           /\ conn'[h].sc = IsSecureConnection(req) /\ conn'[h].method = __sm_get_pairing_method(req)
           /\ conn'[h].pk = conn[h].pk /\ DOMAIN conn'[h] = ConnFields
<1> DEFINE c0 == [conn[h] EXCEPT !.req = req, !.responded = TRUE, !.method = __sm_get_pairing_method(req),
                                 !.sc = IsSecureConnection(req)]
<1>1. PICK c : c = c0
  OBVIOUS
<1>2. PICK s, m : s = IsSecureConnection(req) /\ m = __sm_get_pairing_method(req)
  OBVIOUS
<1>3. DOMAIN c = ConnFields /\ c.sc = s /\ c.method = m /\ c.pk = conn[h].pk
  BY <1>1, <1>2 DEF ConnOK, ConnFields
<1>4. PICK msg : msg = Msg("pairing_resp", SM_RESP)
  OBVIOUS
<1>5. msg.op = "pairing_resp"
  BY <1>4 DEF Msg
<1>6. \/ Goes(h, c, <<msg>>) /\ NoDialog
      \/ \E n \in Passkeys : Goes(h, [c EXCEPT !.passkey_num = n, !.tk = n], <<msg>>) /\ Opens("show", h, <<n>>)
  BY <1>1, <1>4 DEF __sm_recv_pairing_req
<1>7. CASE Goes(h, c, <<msg>>) /\ NoDialog
  BY <1>2, <1>3, <1>5, <1>7, GoesSendsFew DEF NoDialog, HostStep
<1>8. ASSUME NEW n, Goes(h, [c EXCEPT !.passkey_num = n, !.tk = n], <<msg>>), Opens("show", h, <<n>>)
      PROVE  /\ HostStep(h, {"pairing_resp"}) /\ conn'[h].sc = s /\ conn'[h].method = m
             /\ conn'[h].pk = conn[h].pk /\ DOMAIN conn'[h] = ConnFields
  <2>1. PICK d : d = [c EXCEPT !.passkey_num = n, !.tk = n]
    OBVIOUS
  <2>2. DOMAIN d = ConnFields /\ d.sc = s /\ d.method = m /\ d.pk = conn[h].pk
    BY <1>3, <2>1 DEF ConnFields
  <2>3. dialog'.h = h /\ dialog'.kind = "show"
    BY <1>8 DEF Opens
  <2>4. Sends(h, {"pairing_resp"}) /\ conn'[h] = d /\ \A g \in Handle : g # h => conn'[g] = conn[g]
    <3>1. Goes(h, d, <<msg>>) /\ \E m1 : <<msg>> = <<m1>> /\ m1.op \in {"pairing_resp"}
      BY <1>5, <1>8, <2>1
    <3> QED
      BY <3>1, GoesSendsFew
  <2> QED
    BY <2>2, <2>3, <2>4 DEF HostStep
<1> QED
  BY <1>2, <1>6, <1>7, <1>8

LEMMA PublicKeyStep ==
    ASSUME Shapes, AirOK(air), NEW h \in Handle, ConnOK(conn[h]), NEW pk, __sm_recv_pairing_public_key(h, pk)
    PROVE  /\ HostStep(h, {}) /\ conn'[h] = [conn[h] EXCEPT !.pk = pk]
           /\ conn'[h].pk = pk /\ conn'[h].sc = conn[h].sc /\ conn'[h].method = conn[h].method
<1>1. PICK c : c = [conn[h] EXCEPT !.pk = pk]
  OBVIOUS
<1>2. c.pk = pk /\ c.sc = conn[h].sc /\ c.method = conn[h].method
  BY <1>1 DEF ConnOK, ConnFields
<1>3. Goes(h, c, <<>>) /\ dialog' = None
  BY <1>1 DEF __sm_recv_pairing_public_key, NoDialog
<1>4. Sends(h, {}) /\ conn'[h] = c /\ \A g \in Handle : g # h => conn'[g] = conn[g]
  BY <1>3, GoesSendsFew
<1> QED
  BY <1>1, <1>2, <1>3, <1>4 DEF HostStep

\* A connection whose other fields change.
Alike(c, c2) ==
    /\ DOMAIN c2 = DOMAIN c /\ c2.sc = c.sc /\ c2.method = c.method /\ c2.pk = c.pk
    /\ c2.req = c.req /\ c2.link = c.link

LEMMA ConfirmStep ==
    ASSUME Shapes, AirOK(air), NEW h \in Handle, ConnOK(conn[h]), NEW value, __sm_recv_pairing_confirm(h, value)
    PROVE  HostStep(h, {"pairing_confirm", "keypress"}) /\ Alike(conn[h], conn'[h])
<1> DEFINE ops == {"pairing_confirm", "keypress"}
<1>1. PICK d : d = [conn[h] EXCEPT !.confirm = value, !.local_random = sm_generate_random(conn[h])]
  OBVIOUS
<1>2. PICK c : c = [d EXCEPT !.draws = @ + 1]
  OBVIOUS
<1>3. c = Drawn(d)
  BY <1>2 DEF Drawn
<1>4. Alike(conn[h], d)
  BY <1>1 DEF ConnOK, ConnFields, Alike
<1>5. Alike(conn[h], c)
  BY <1>2, <1>4 DEF ConnOK, ConnFields, Alike
<1>6. ASSUME NEW t, NEW c2, c2 = [c EXCEPT !.tk = t] \/ c2 = [c EXCEPT !.passkey_r = t]
      PROVE  Alike(conn[h], c2)
  BY <1>5, <1>6 DEF ConnOK, ConnFields, Alike
<1>7. \/ \E t, m : /\ m.op = "pairing_confirm" /\ Goes(h, [c EXCEPT !.passkey_r = t], <<m>>) /\ NoDialog
      \/ \E m : m.op = "keypress" /\ Goes(h, c, <<m>>) /\ Opens("legacy_input", h, <<>>)
      \/ \E t, m : /\ m.op = "pairing_confirm" /\ Goes(h, [c EXCEPT !.tk = t], <<m>>) /\ NoDialog
  <2>1. CASE c.sc
    <3>1. PICK r : r = 128 + Bit(c.passkey_num, c.passkey_index)
      OBVIOUS
    <3>2. PICK m : m = Msg("pairing_confirm", __sm_f4(HostPk, c.pk, c.local_random, r))
      OBVIOUS
    <3>3. Goes(h, [c EXCEPT !.passkey_r = r], <<m>>) /\ NoDialog
      BY <1>1, <1>3, <2>1, <3>1, <3>2 DEF __sm_recv_pairing_confirm
    <3>4. m.op = "pairing_confirm"
      BY <3>2 DEF Msg
    <3> QED
      BY <3>3, <3>4
  <2>2. CASE ~c.sc /\ c.method = IDRI
    <3>1. PICK m : m = Msg("keypress", "started")
      OBVIOUS
    <3>2. Goes(h, c, <<m>>) /\ Opens("legacy_input", h, <<>>)
      BY <1>1, <1>3, <2>2, <3>1 DEF __sm_recv_pairing_confirm
    <3>3. m.op = "keypress"
      BY <3>1 DEF Msg
    <3> QED
      BY <3>2, <3>3
  <2>3. CASE ~c.sc /\ c.method # IDRI
    <3>1. PICK tk : tk = IF c.method = JW THEN 0 ELSE c.tk
      OBVIOUS
    <3>2. PICK m : m = Msg("pairing_confirm", Confirm(c, tk))
      OBVIOUS
    <3>3. Goes(h, [c EXCEPT !.tk = tk], <<m>>) /\ NoDialog
      BY <1>1, <1>3, <2>3, <3>1, <3>2 DEF __sm_recv_pairing_confirm
    <3>4. m.op = "pairing_confirm"
      BY <3>2 DEF Msg
    <3> QED
      BY <3>3, <3>4
  <2> QED
    BY <2>1, <2>2, <2>3
<1>8. ASSUME NEW c2, Alike(conn[h], c2), NEW m, m.op \in ops, Goes(h, c2, <<m>>), NEW kind, kind # "compare",
             dialog' = None \/ Opens(kind, h, <<>>)
      PROVE  HostStep(h, ops) /\ Alike(conn[h], conn'[h])
  <2>1. Sends(h, ops) /\ conn'[h] = c2 /\ \A g \in Handle : g # h => conn'[g] = conn[g]
    BY <1>8, GoesSendsFew
  <2>2. dialog' # None => dialog'.h = h /\ dialog'.kind # "compare"
    BY <1>8 DEF Opens
  <2> QED
    BY <1>8, <2>1, <2>2 DEF HostStep
<1> HIDE DEF ops
<1>9. "pairing_confirm" \in ops /\ "keypress" \in ops
  BY DEF ops
<1>10. CASE \E t, m : m.op = "pairing_confirm" /\ Goes(h, [c EXCEPT !.passkey_r = t], <<m>>) /\ NoDialog
  <2>1. PICK t, m : m.op = "pairing_confirm" /\ Goes(h, [c EXCEPT !.passkey_r = t], <<m>>) /\ NoDialog
    BY <1>10
  <2>2. PICK c2 : c2 = [c EXCEPT !.passkey_r = t]
    OBVIOUS
  <2> QED
    BY <1>6, <1>8, <1>9, <2>1, <2>2 DEF NoDialog, ops
<1>11. CASE \E m : m.op = "keypress" /\ Goes(h, c, <<m>>) /\ Opens("legacy_input", h, <<>>)
  BY <1>5, <1>8, <1>9, <1>11 DEF ops
<1>12. CASE \E t, m : m.op = "pairing_confirm" /\ Goes(h, [c EXCEPT !.tk = t], <<m>>) /\ NoDialog
  <2>1. PICK t, m : m.op = "pairing_confirm" /\ Goes(h, [c EXCEPT !.tk = t], <<m>>) /\ NoDialog
    BY <1>12
  <2>2. PICK c2 : c2 = [c EXCEPT !.tk = t]
    OBVIOUS
  <2> QED
    BY <1>6, <1>8, <1>9, <2>1, <2>2 DEF NoDialog, ops
<1> QED
  BY <1>7, <1>10, <1>11, <1>12

\* In a comparison the random value is answered with the host's, and the number shown.
LEMMA RandomStep ==
    ASSUME Shapes, AirOK(air), NEW h \in Handle, ConnOK(conn[h]), NEW value, __sm_recv_pairing_random(h, value)
    PROVE  /\ Sends(h, {"pairing_random", "pairing_failed"})
           /\ \A g \in Handle : g # h => conn'[g] = conn[g]
           /\ Alike(conn[h], conn'[h]) /\ (dialog' # None => dialog'.h = h)
           /\ conn[h].sc /\ conn[h].method = NC =>
                 /\ \A m \in Elements(air'[h]) :
                       m.op = "pairing_random" => m \in Elements(air[h]) \/ m.value = conn[h].local_random
                 /\ dialog' # None => dialog'.number = __sm_g2(conn[h].pk, HostPk, value, conn[h].local_random)
<1> DEFINE ops == {"pairing_random", "pairing_failed"}
<1>1. PICK c : c = [conn[h] EXCEPT !.remote_random = value]
  OBVIOUS
<1>2. Alike(conn[h], c) /\ c.local_random = conn[h].local_random /\ DOMAIN c = ConnFields
  BY <1>1 DEF Alike, ConnOK, ConnFields
<1>3. PICK mine, fail : mine = Msg("pairing_random", c.local_random) /\ fail = Failed("CONFIRM_VALUE")
  OBVIOUS
<1>4. mine.op = "pairing_random" /\ mine.value = c.local_random /\ fail.op = "pairing_failed"
  BY <1>3 DEF Msg, Failed
<1>5. PICK tag, bit : /\ tag = __sm_c1(c.tk, value, c.req, SM_RESP, c.addr, LocalAddr)
                      /\ bit = __sm_f4(c.pk, HostPk, value, c.passkey_r)
  OBVIOUS
<1>6. PICK next, drawn : next = [c EXCEPT !.passkey_index = @ + 1] /\ drawn = Drawn(c)
  OBVIOUS
<1>7. Alike(conn[h], next) /\ Alike(conn[h], drawn)
  BY <1>2, <1>6 DEF Alike, ConnFields, Drawn
<1>8. CASE c.sc /\ c.method = NC
  <2>1. Goes(h, c, <<mine>>) /\ Opens("compare", h, Compared(c, value))
    BY <1>1, <1>3, <1>8 DEF __sm_recv_pairing_random, JW, NC, IIRD, IDRI
  <2>2. dialog'.h = h /\ dialog'.number = Compared(c, value)
    BY <2>1 DEF Opens
  <2>3. Compared(c, value) = __sm_g2(conn[h].pk, HostPk, value, conn[h].local_random)
    BY <1>2 DEF Compared, Alike
  <2>4. Sequence(<<mine>>) /\ Elements(<<mine>>) = {mine} /\ mine.op \in ops
    BY <1>4, ShortSequences, ElementsFew
  <2>5. /\ Sends(h, ops) /\ conn'[h] = c /\ \A g \in Handle : g # h => conn'[g] = conn[g]
        /\ \A m \in Elements(air'[h]) : m \in Elements(air[h]) \cup {mine}
    BY <2>1, <2>4, GoesSends
  <2> HIDE DEF ops
  <2>6. \A m \in Elements(air'[h]) : m \in Elements(air[h]) \/ m.value = conn[h].local_random
    BY <1>2, <1>4, <2>5
  <2> QED
    BY <1>2, <2>2, <2>3, <2>5, <2>6 DEF ops
<1>9. CASE ~(c.sc /\ c.method = NC)
  <2>1. /\ NoDialog
        /\ \/ Goes(h, c, <<mine>>) \/ Goes(h, next, <<mine>>) \/ Goes(h, drawn, <<mine>>)
           \/ Goes(h, c, <<fail>>) \/ Goes(h, c, <<>>)
    <3>1. CASE c.sc /\ c.method = JW
      BY <1>1, <1>3, <3>1 DEF __sm_recv_pairing_random, JW, NC, IIRD, IDRI
    <3>2. CASE c.sc /\ c.method \in {IIRD, IDRI} /\ bit = c.confirm
      BY <1>1, <1>3, <1>5, <1>6, <3>2 DEF __sm_recv_pairing_random, JW, NC, IIRD, IDRI
    <3>3. CASE c.sc /\ c.method \in {IIRD, IDRI} /\ bit # c.confirm
      BY <1>1, <1>3, <1>5, <3>3 DEF __sm_recv_pairing_random, JW, NC, IIRD, IDRI
    <3>4. CASE ~c.sc /\ tag = c.confirm
      BY <1>1, <1>3, <1>5, <1>6, <3>4 DEF __sm_recv_pairing_random
    <3>5. CASE ~c.sc /\ tag # c.confirm
      BY <1>1, <1>3, <1>5, <3>5 DEF __sm_recv_pairing_random
    <3>6. CASE c.sc /\ c.method \notin {JW, NC, IIRD, IDRI}
      BY <1>1, <3>6 DEF __sm_recv_pairing_random
    <3> QED
      BY <1>9, <3>1, <3>2, <3>3, <3>4, <3>5, <3>6
  <2>2. ASSUME NEW d, Alike(conn[h], d), NEW msgs, msgs \in {<<>>, <<mine>>, <<fail>>}, Goes(h, d, msgs)
        PROVE  /\ Sends(h, ops) /\ Alike(conn[h], conn'[h])
               /\ \A g \in Handle : g # h => conn'[g] = conn[g]
    <3>1. mine.op \in ops /\ fail.op \in ops
      BY <1>4
    <3>2. \/ msgs = <<>>
          \/ \E m : msgs = <<m>> /\ m.op \in ops
      BY <2>2, <3>1
    <3>3. Sends(h, ops) /\ conn'[h] = d /\ \A g \in Handle : g # h => conn'[g] = conn[g]
      BY <2>2, <3>2, GoesSendsFew
    <3> QED
      BY <2>2, <3>3
  <2>3. /\ Sends(h, ops) /\ Alike(conn[h], conn'[h])
        /\ \A g \in Handle : g # h => conn'[g] = conn[g]
    <3> HIDE DEF ops
    <3> QED
      BY <1>2, <1>7, <2>1, <2>2
  <2>4. ~(conn[h].sc /\ conn[h].method = NC)
    BY <1>2, <1>9 DEF Alike
  <2> QED
    BY <2>1, <2>3, <2>4 DEF NoDialog
<1> QED
  BY <1>8, <1>9

LEMMA CheckStep ==
    ASSUME Shapes, AirOK(air), NEW h \in Handle, ConnOK(conn[h]), NEW value,
           __sm_recv_pairing_dhkey_check(h, value)
    PROVE  HostStep(h, {"dhkey_check", "pairing_failed"}) /\ Alike(conn[h], conn'[h])
<1> DEFINE ops == {"dhkey_check", "pairing_failed"}
<1>1. PICK c, d : c = conn[h] /\ d = Drawn(c)
  OBVIOUS
<1>2. Alike(c, c) /\ Alike(c, d)
  BY <1>1 DEF Alike, ConnOK, ConnFields, Drawn
<1>3. /\ NoDialog
      /\ \/ \E m : m.op = "dhkey_check" /\ Goes(h, d, <<m>>)
         \/ \E m : m.op = "pairing_failed" /\ Goes(h, c, <<m>>)
  <2> DEFINE keys0 == __sm_f5(c.dhkey, c.remote_random, c.local_random, c.addr, LocalAddr)
  <2>1. PICK keys : keys = keys0
    OBVIOUS
  <2>2. PICK ea, eb :
          /\ ea = __sm_f6(keys.mackey, c.remote_random, c.local_random, c.tk, iocapOf(c.req),
                          c.addr, LocalAddr)
          /\ eb = __sm_f6(keys.mackey, c.local_random, c.remote_random, c.tk, iocapOf(SM_RESP),
                          LocalAddr, c.addr)
    OBVIOUS
  <2>3. PICK good, bad : good = Msg("dhkey_check", eb) /\ bad = Failed("DHKEY_CHECK")
    OBVIOUS
  <2>4. good.op = "dhkey_check" /\ bad.op = "pairing_failed"
    BY <2>3 DEF Msg, Failed
  <2>5. NoDialog /\ (Goes(h, d, <<good>>) \/ Goes(h, c, <<bad>>))
    BY <1>1, <2>1, <2>2, <2>3 DEF __sm_recv_pairing_dhkey_check
  <2> QED
    BY <2>4, <2>5
<1>4. ASSUME NEW e, Alike(c, e), NEW m, m.op \in ops, Goes(h, e, <<m>>)
      PROVE  Sends(h, ops) /\ conn'[h] = e /\ \A g \in Handle : g # h => conn'[g] = conn[g]
  BY <1>4, GoesSendsFew
<1> HIDE DEF ops
<1>5. "dhkey_check" \in ops /\ "pairing_failed" \in ops
  BY DEF ops
<1>6. /\ Sends(h, ops) /\ Alike(c, conn'[h])
      /\ \A g \in Handle : g # h => conn'[g] = conn[g]
  BY <1>2, <1>3, <1>4, <1>5
<1> QED
  BY <1>1, <1>3, <1>6 DEF NoDialog, HostStep, ops

LEMMA KeyStep ==
    ASSUME Shapes, AirOK(air), NEW h \in Handle, ConnOK(conn[h]), NEW op, NEW value, RecvKey(h, op, value)
    PROVE  HostStep(h, {}) /\ Alike(conn[h], conn'[h])
<1>1. PICK c : c = [conn[h] EXCEPT
                  !.received    = @ \cup {op},
                  !.remote_irk  = IF op = "identity_info" THEN value ELSE @,
                  !.remote_addr = IF op = "identity_address" THEN value ELSE @,
                  !.remote_csrk = IF op = "signing_info" THEN value ELSE @]
  OBVIOUS
<1>2. Alike(conn[h], c)
  BY <1>1 DEF Alike, ConnOK, ConnFields
<1>3. Goes(h, c, <<>>) /\ dialog' = None
  BY <1>1 DEF RecvKey, NoDialog
<1>4. Sends(h, {}) /\ conn'[h] = c /\ \A g \in Handle : g # h => conn'[g] = conn[g]
  BY <1>3, GoesSendsFew
<1> QED
  BY <1>2, <1>3, <1>4 DEF HostStep

\* The keys the host distributes are packets of keys.
LEMMA HostKeysOnly ==
    ASSUME NEW c, NEW entry
    PROVE  Sequence(HostKeys(c, entry)) /\ \A m \in Elements(HostKeys(c, entry)) : m.op \in KeyOp
<1> DEFINE only(kind, msgs) == IF kind \in c.req.rdist THEN msgs ELSE <<>>
<1>1. PICK m1, m2, m3, m4, m5 :
        /\ m1 = Msg("encryption_info", entry.local_ltk) /\ m2 = Msg("central_id", ZeroKey)
        /\ m3 = Msg("identity_info", Irk("host")) /\ m4 = Msg("identity_address", Public("host"))
        /\ m5 = Msg("signing_info", entry.local_csrk)
  OBVIOUS
<1>2. {m1.op, m2.op, m3.op, m4.op, m5.op} \subseteq KeyOp
  BY <1>1 DEF Msg, KeyOp
<1>3. PICK a, b, d : a = only("ENC", <<m1, m2>>) /\ b = only("ID", <<m3, m4>>) /\ d = only("SIGN", <<m5>>)
  OBVIOUS
<1>4. HostKeys(c, entry) = a \o b \o d
  BY <1>1, <1>3 DEF HostKeys
<1>5. Sequence(a) /\ Sequence(b) /\ Sequence(d)
  BY <1>3, ShortSequences
<1>6. Elements(a) \subseteq {m1, m2} /\ Elements(b) \subseteq {m3, m4} /\ Elements(d) \subseteq {m5}
  BY <1>3, ElementsFew
<1>7. PICK ab : ab = a \o b
  OBVIOUS
<1>8. Sequence(ab) /\ Elements(ab) = Elements(a) \cup Elements(b)
  BY <1>5, <1>7, ConcatFacts, ElementsJoin
<1>9. PICK abd : abd = ab \o d
  OBVIOUS
<1>10. Sequence(abd) /\ Elements(abd) = Elements(ab) \cup Elements(d)
  BY <1>5, <1>8, <1>9, ConcatFacts, ElementsJoin
<1> QED
  BY <1>2, <1>4, <1>6, <1>7, <1>8, <1>9, <1>10

LEMMA EncryptionStep ==
    ASSUME Shapes, AirOK(air), NEW h \in Handle, ConnOK(conn[h]), NEW enabled,
           sm_recv_evt_encryption_change(h, enabled)
    PROVE  HostStep(h, KeyOp) /\ Alike(conn[h], conn'[h])
<1>1. PICK c, entry, auth : /\ c = conn[h] /\ entry = __sm_device_db_entry_get(db, c.addr)
                            /\ auth = IF entry.pairing_method # JW THEN 1 ELSE 0
  OBVIOUS
<1>2. dialog' = None
  BY DEF sm_recv_evt_encryption_change, NoDialog
<1>3. ASSUME NEW x, NEW y PROVE Alike(c, [c EXCEPT !.is_encrypted = x, !.is_authenticated = y])
  BY <1>1 DEF Alike, ConnOK, ConnFields
<1>4. CASE ~Found(db, c.addr)
  <2>1. UNCHANGED <<conn, air>>
    BY <1>1, <1>4 DEF sm_recv_evt_encryption_change
  <2> QED
    BY <1>2, <2>1, SameSends DEF HostStep, Alike
<1>5. CASE Found(db, c.addr) /\ enabled = 1
  <2>1. PICK d, msgs : d = [c EXCEPT !.is_encrypted = 1, !.is_authenticated = auth] /\ msgs = HostKeys(c, entry)
    OBVIOUS
  <2>2. Goes(h, d, msgs)
    BY <1>1, <1>5, <2>1 DEF sm_recv_evt_encryption_change
  <2>3. Sequence(msgs) /\ \A m \in Elements(msgs) : m.op \in KeyOp
    BY <2>1, HostKeysOnly
  <2>4. Sends(h, KeyOp) /\ conn'[h] = d /\ \A g \in Handle : g # h => conn'[g] = conn[g]
    BY <2>2, <2>3, GoesSends
  <2>5. Alike(c, d)
    BY <1>3, <2>1
  <2>6. Alike(conn[h], conn'[h])
    BY <1>1, <2>4, <2>5
  <2> QED
    BY <1>2, <2>4, <2>6 DEF HostStep
<1>6. CASE Found(db, c.addr) /\ enabled # 1
  <2>1. PICK d : d = [c EXCEPT !.is_encrypted = 0, !.is_authenticated = 0]
    OBVIOUS
  <2>2. Goes(h, d, <<>>)
    BY <1>1, <1>6, <2>1 DEF sm_recv_evt_encryption_change
  <2>3. Sends(h, KeyOp) /\ conn'[h] = d /\ \A g \in Handle : g # h => conn'[g] = conn[g]
    BY <2>2, GoesSendsFew
  <2>5. Alike(c, d)
    BY <1>3, <2>1
  <2>6. Alike(conn[h], conn'[h])
    BY <1>1, <2>3, <2>5
  <2> QED
    BY <1>2, <2>3, <2>6 DEF HostStep
<1> QED
  BY <1>4, <1>5, <1>6

LEMMA DhkeyStep ==
    ASSUME Shapes, AirOK(air), NEW h \in Handle, h = askedLast, conn[h] # None, ConnOK(conn[h]), NEW e,
           sm_recv_evt_le_generate_dhkey_complete(e)
    PROVE  HostStep(h, {"pairing_public_key", "pairing_confirm", "keypress"}) /\ Alike(conn[h], conn'[h])
<1> DEFINE ops == {"pairing_public_key", "pairing_confirm", "keypress"}
<1>1. PICK c : c = [conn[h] EXCEPT !.dhkey = e.dhkey]
  OBVIOUS
<1>2. Alike(conn[h], c) /\ DOMAIN c = ConnFields
  BY <1>1 DEF Alike, ConnOK, ConnFields
<1>3. PICK d1 : d1 = [c EXCEPT !.tk = 0, !.local_random = sm_generate_random(c)]
  OBVIOUS
<1>4. Alike(conn[h], d1) /\ DOMAIN d1 = ConnFields
  BY <1>2, <1>3 DEF Alike, ConnFields
<1>5. PICK d : d = Drawn(d1)
  OBVIOUS
<1>6. Alike(conn[h], d)
  BY <1>4, <1>5 DEF Alike, ConnFields, Drawn
<1>7. PICK pk, cb, key : /\ pk = Msg("pairing_public_key", HostPk)
                         /\ cb = Msg("pairing_confirm", __sm_f4(HostPk, c.pk, d.local_random, 0))
                         /\ key = Msg("keypress", "started")
  OBVIOUS
<1>8. pk.op = "pairing_public_key" /\ cb.op = "pairing_confirm" /\ key.op = "keypress"
  BY <1>7 DEF Msg
<1>9. {pk.op, cb.op} \subseteq ops /\ {pk.op, key.op} \subseteq ops /\ pk.op \in ops
  BY <1>8
<1>10. CASE c.method \in {JW, NC}
  <2>1. Goes(h, d, <<pk, cb>>) /\ dialog' = None
    BY <1>1, <1>3, <1>5, <1>7, <1>10 DEF sm_recv_evt_le_generate_dhkey_complete, NoDialog, JW, NC, IIRD, IDRI
  <2>2. Sends(h, ops) /\ conn'[h] = d /\ \A g \in Handle : g # h => conn'[g] = conn[g]
    <3>1. PICK msgs : msgs = <<pk, cb>>
      OBVIOUS
    <3>2. \E m, l : msgs = <<m, l>> /\ {m.op, l.op} \subseteq ops
      BY <1>9, <3>1
    <3>3. Goes(h, d, msgs)
      BY <2>1, <3>1
    <3> HIDE DEF ops
    <3> QED
      BY <3>2, <3>3, GoesSendsFew
  <2> QED
    BY <1>6, <2>1, <2>2 DEF HostStep
<1>11. CASE c.method = IIRD
  <2>1. PICK n \in Passkeys : Goes(h, WithPasskey(c, n), <<pk>>) /\ Opens("show", h, <<n>>)
    BY <1>1, <1>7, <1>11 DEF sm_recv_evt_le_generate_dhkey_complete, IIRD, IDRI, JW, NC
  <2>2. PICK f : f = WithPasskey(c, n)
    OBVIOUS
  <2>3. Alike(conn[h], f)
    BY <1>2, <2>2 DEF Alike, ConnFields, WithPasskey
  <2>4. Sends(h, ops) /\ conn'[h] = f /\ \A g \in Handle : g # h => conn'[g] = conn[g]
    BY <1>9, <2>1, <2>2, GoesSendsFew
  <2>5. dialog'.h = h /\ dialog'.kind = "show"
    BY <2>1 DEF Opens
  <2> QED
    BY <2>3, <2>4, <2>5 DEF HostStep
<1>12. CASE c.method = IDRI
  <2>1. Goes(h, c, <<pk, key>>) /\ Opens("sc_input", h, <<>>)
    BY <1>1, <1>7, <1>12 DEF sm_recv_evt_le_generate_dhkey_complete, IIRD, IDRI, JW, NC
  <2>2. Sends(h, ops) /\ conn'[h] = c /\ \A g \in Handle : g # h => conn'[g] = conn[g]
    <3>1. PICK msgs : msgs = <<pk, key>>
      OBVIOUS
    <3>2. \E m, l : msgs = <<m, l>> /\ {m.op, l.op} \subseteq ops
      BY <1>9, <3>1
    <3>3. Goes(h, c, msgs)
      BY <2>1, <3>1
    <3> HIDE DEF ops
    <3> QED
      BY <3>2, <3>3, GoesSendsFew
  <2>3. dialog'.h = h /\ dialog'.kind = "sc_input"
    BY <2>1 DEF Opens
  <2> QED
    BY <1>2, <2>2, <2>3 DEF HostStep
<1>13. CASE c.method \notin {JW, NC, IIRD, IDRI}
  <2>1. Goes(h, c, <<pk>>) /\ dialog' = None
    BY <1>1, <1>7, <1>13 DEF sm_recv_evt_le_generate_dhkey_complete, NoDialog
  <2>2. Sends(h, ops) /\ conn'[h] = c /\ \A g \in Handle : g # h => conn'[g] = conn[g]
    BY <1>9, <2>1, GoesSendsFew
  <2> QED
    BY <1>2, <2>1, <2>2 DEF HostStep
<1> QED
  BY <1>10, <1>11, <1>12, <1>13

-----------------------------------------------------------------------------
(* What leaves a comparison as it is.                                       *)

\* What the comparison under h may depend on.
Bears(e, h) ==
    \/ Opening(e, h)
    \/ e.type = "sm" /\ e.h = h /\ e.msg.op \in {"pairing_req", "pairing_public_key", "pairing_random"}

SameEnd(st, st2) ==
    st2.step = st.step /\ st2.req = st.req /\ st2.random = st.random /\ st2.host_random = st.host_random

\* The peer has not moved, and what the host says next it says as agreed.
LEMMA ComparisonStays ==
    ASSUME NEW h, ComparisonOK(h), SameEnd(peer[h], peer'[h]), link'[h] = link[h],
           \A e \in Elements(toHost') : e \in Elements(toHost) \/ ~Bears(e, h),
           Once(toHost', RandomOf(h)),
           Agreed(h) => Agreed(h)', HasKey(h) => HasKey(h)', Asked(h)' => Asked(h) \/ HasKey(h)',
           CompareOpen(h)' => CompareOpen(h) /\ dialog' = dialog,
           \A m \in Elements(air'[h]) :
              \/ m \in Elements(air[h])
              \/ /\ m.op # "pairing_random"
                 /\ m.op = "pairing_resp" => Agreed(h)'
                 /\ m.op = "pairing_public_key" => HasKey(h)'
    PROVE  ComparisonOK(h)'
<1>1. PICK st, st2 : st = peer[h] /\ st2 = peer'[h]
  OBVIOUS
<1>2. st2.step = st.step /\ st2.req = st.req /\ st2.random = st.random /\ st2.host_random = st.host_random
  BY <1>1 DEF SameEnd
<1>3. RandomOf(h)' = RandomOf(h)
  BY <1>1, <1>2 DEF RandomOf
<1>4. \A e \in Elements(toHost') :
         IsPacket(e, h, "pairing_req") \/ IsPacket(e, h, "pairing_public_key") \/ IsPacket(e, h, "pairing_random")
         => e \in Elements(toHost)
  BY DEF IsPacket, Bears
<1>5. PacketsOfComparison(h)'
  BY <1>1, <1>2, <1>3, <1>4 DEF ComparisonOK, PacketsOfComparison
<1>6. InAir(h, "pairing_resp")' => InAir(h, "pairing_resp") \/ Agreed(h)'
  BY DEF InAir
<1>7. InAir(h, "pairing_public_key")' => InAir(h, "pairing_public_key") \/ HasKey(h)'
  BY DEF InAir
<1>8. InAir(h, "pairing_random")' => InAir(h, "pairing_random")
  BY DEF InAir
<1>9. KeysOfComparison(h)'
  <2>1. peer[h].step # "resp" \/ InAir(h, "pairing_resp") => Agreed(h)
    BY DEF ComparisonOK, KeysOfComparison
  <2>2. Asked(h) \/ InAir(h, "pairing_public_key") \/ peer[h].step \in {"confirm", "random", "compare"} => HasKey(h)
    BY DEF ComparisonOK, KeysOfComparison
  <2>3. peer'[h].step # "resp" \/ InAir(h, "pairing_resp")' => Agreed(h)'
    BY <1>1, <1>2, <1>6, <2>1
  <2>4. Asked(h)' \/ InAir(h, "pairing_public_key")' \/ peer'[h].step \in {"confirm", "random", "compare"} => HasKey(h)'
    BY <1>1, <1>2, <1>7, <2>2
  <2> QED
    BY <2>3, <2>4 DEF KeysOfComparison
<1>10. RandomOf(h) \in Elements(toHost') => RandomOf(h) \in Elements(toHost)
  BY DEF RandomOf, Msg, Bears
<1>11. \A r : NumberOf(h, r)' = NumberOf(h, r)
  BY <1>1, <1>2 DEF NumberOf
<1>12. NumbersAgree(h)'
  <2>1. NumbersAgree(h)
    BY DEF ComparisonOK
  <2>2. \A m \in Elements(air'[h]) : m.op = "pairing_random" => m \in Elements(air[h])
    OBVIOUS
  <2>3. peer'[h].step \in {"resp", "pk", "confirm"} \/ RandomOf(h)' \in Elements(toHost') =>
          ~InAir(h, "pairing_random")' /\ ~CompareOpen(h)'
    BY <1>1, <1>2, <1>3, <1>8, <1>10, <2>1 DEF NumbersAgree
  <2>4. CompareOpen(h)' /\ peer'[h].step = "random" =>
          \A m \in Elements(air'[h]) : m.op = "pairing_random" => dialog'.number = NumberOf(h, m.value)'
    BY <1>1, <1>2, <1>11, <2>1, <2>2 DEF NumbersAgree
  <2>5. CompareOpen(h)' /\ peer'[h].step = "compare" => dialog'.number = NumberOf(h, peer[h].host_random)'
    BY <1>1, <1>2, <1>11, <2>1 DEF NumbersAgree
  <2> QED
    BY <2>3, <2>4, <2>5 DEF NumbersAgree
<1>13. peer'[h].step \notin {"enter", "begin"}
  BY <1>1, <1>2 DEF ComparisonOK
<1> QED
  BY <1>5, <1>9, <1>12, <1>13 DEF ComparisonOK

\* The connection keeps what was agreed, and does not begin again.
LEMMA AgreementStays ==
    ASSUME NEW h, Alike(conn[h], conn'[h]), conn[h] # None => conn'[h] # None, link'[h] = link[h],
           \A e \in Elements(toHost') : e \in Elements(toHost) \/ ~Bears(e, h)
    PROVE  (Agreed(h) => Agreed(h)') /\ (HasKey(h) => HasKey(h)')
<1>1. \A e \in Elements(toHost') : Opening(e, h) => e \in Elements(toHost)
  BY DEF Bears
<1>2. Agreed(h) => Agreed(h)'
  BY <1>1 DEF Agreed, Alike
<1>3. HasKey(h) => HasKey(h)'
  BY DEF HasKey, Alike
<1> QED
  BY <1>2, <1>3

\* Something happens elsewhere.
LEMMA ComparisonAside ==
    ASSUME NEW h, ComparisonOK(h), SameEnd(peer[h], peer'[h]), link'[h] = link[h], conn'[h] = conn[h],
           Sequence(toHost), NEW t, Sequence(t), toHost' = toHost \o t,
           \A e \in Elements(t) : ~Bears(e, h),
           Elements(air'[h]) \subseteq Elements(air[h]), dialog' = dialog, askedLast' = askedLast,
           DhkeyUnderWay' => DhkeyUnderWay
    PROVE  ComparisonOK(h)'
<1>1. Elements(toHost') = Elements(toHost) \cup Elements(t)
  BY ElementsJoin
<1>2. \A e \in Elements(toHost') : e \in Elements(toHost) \/ ~Bears(e, h)
  BY <1>1
<1>3. RandomOf(h) \notin Elements(t)
  BY DEF RandomOf, Msg, Bears
<1>4. Once(toHost', RandomOf(h))
  BY <1>3, OnceJoin DEF ComparisonOK, PacketsOfComparison
<1>5. (Agreed(h) => Agreed(h)') /\ (HasKey(h) => HasKey(h)')
  BY <1>2, AgreementStays DEF Alike
<1>6. Asked(h)' => Asked(h)
  BY DEF Asked
<1>7. CompareOpen(h)' => CompareOpen(h)
  BY DEF CompareOpen
<1> QED
  BY <1>2, <1>4, <1>5, <1>6, <1>7, ComparisonStays

-----------------------------------------------------------------------------
(* A step of the host keeps the comparisons.                                *)

\* An answer to a dialog leaves what was agreed.
LEMMA AnswerStep ==
    ASSUME BondsKept, AirOK(air), DialogAnswered
    PROVE  /\ AirOK(air') /\ SameHolders(conn, conn')
           /\ \A h \in Handle :
                 /\ Alike(conn[h], conn'[h])
                 /\ \A m \in Elements(air'[h]) :
                       m \in Elements(air[h]) \/ m.op \in {"keypress", "pairing_confirm", "pairing_failed"}
<1> DEFINE ops == {"keypress", "pairing_confirm", "pairing_failed"}
<1>1. PICK g : g = dialog.h
  OBVIOUS
<1>2. Shapes /\ ConnsOK /\ dialog # None /\ (g \in Handle => conn[g] # None)
  BY <1>1 DEF BondsKept, DialogOK, DialogAnswered
<1>3. SameHolders(conn, conn')
  BY DialogAnsweredLeaves
<1>4. \/ UNCHANGED <<conn, air>>
      \/ \E c, msgs : /\ Goes(g, c, msgs) /\ (g \in Handle => Alike(conn[g], c))
                      /\ \/ \E m : msgs = <<m>> /\ m.op \in ops
                         \/ \E m, l : msgs = <<m, l>> /\ {m.op, l.op} \subseteq ops
  <2>1. DialogShown(g) \/ DialogInput(g) \/ DialogCompare(g)
    BY <1>1 DEF DialogAnswered
  <2>2. ASSUME NEW reason PROVE Failed(reason).op \in ops
    BY DEF Failed, Msg
  <2>3. Alike(conn[g], conn[g])
    BY DEF Alike
  <2>4. ASSUME NEW c, NEW reason, Goes(g, c, <<Failed(reason)>>),
               c = conn[g] \/ c = [conn[g] EXCEPT !.passkey_num = 0]
        PROVE  /\ g \in Handle => Alike(conn[g], c)
               /\ \E msgs : Goes(g, c, msgs) /\ \E m : msgs = <<m>> /\ m.op \in ops
    <3>1. PICK m : m.op \in ops /\ Goes(g, c, <<m>>)
      BY <2>2, <2>4
    <3>2. g \in Handle => Alike(conn[g], c)
      BY <1>2, <2>3, <2>4 DEF Alike, ConnsOK, ConnOK, ConnFields
    <3> QED
      BY <3>1, <3>2
  <2>5. ASSUME NEW n, Goes(g, WithPasskey(conn[g], n), <<Msg("keypress", "completed")>>)
        PROVE  \E c, msgs : /\ Goes(g, c, msgs) /\ (g \in Handle => Alike(conn[g], c))
                            /\ \E m : msgs = <<m>> /\ m.op \in ops
    <3>1. PICK c : c = WithPasskey(conn[g], n)
      OBVIOUS
    <3>2. g \in Handle => Alike(conn[g], c)
      BY <1>2, <3>1 DEF WithPasskey, Alike, ConnsOK, ConnOK, ConnFields
    <3>3. PICK m : m = Msg("keypress", "completed")
      OBVIOUS
    <3>4. m.op \in ops /\ Goes(g, c, <<m>>)
      BY <2>5, <3>1, <3>3 DEF Msg
    <3> QED
      BY <3>2, <3>4
  <2>6. CASE DialogInput(g)
    <3>1. \/ \E c : c = [conn[g] EXCEPT !.passkey_num = 0] /\ Goes(g, c, <<Failed("PASSKEY_ENTRY")>>)
          \/ \E n \in Passkeys : Goes(g, WithPasskey(conn[g], n), <<Msg("keypress", "completed")>>)
          \/ \E n \in Passkeys : \E c, l :
                /\ c = [conn[g] EXCEPT !.passkey_num = n, !.tk = n] /\ l = Msg("pairing_confirm", Confirm(c, n))
                /\ Goes(g, c, <<Msg("keypress", "completed"), l>>)
      BY <2>6 DEF DialogInput
    <3> HIDE DEF ops
    <3>2. CASE \E n \in Passkeys : Goes(g, WithPasskey(conn[g], n), <<Msg("keypress", "completed")>>)
      BY <2>5, <3>2
    <3>3. CASE \E n \in Passkeys : \E c, l :
                  /\ c = [conn[g] EXCEPT !.passkey_num = n, !.tk = n] /\ l = Msg("pairing_confirm", Confirm(c, n))
                  /\ Goes(g, c, <<Msg("keypress", "completed"), l>>)
      <4>1. PICK n, c, l :
               /\ c = [conn[g] EXCEPT !.passkey_num = n, !.tk = n] /\ l = Msg("pairing_confirm", Confirm(c, n))
               /\ Goes(g, c, <<Msg("keypress", "completed"), l>>)
        BY <3>3
      <4>2. g \in Handle => Alike(conn[g], c)
        BY <1>2, <4>1 DEF Alike, ConnsOK, ConnOK, ConnFields
      <4>3. PICK m : m = Msg("keypress", "completed")
        OBVIOUS
      <4>4. {m.op, l.op} \subseteq ops
        BY <4>1, <4>3 DEF Msg, ops
      <4>5. PICK msgs : msgs = <<m, l>>
        OBVIOUS
      <4>6. Goes(g, c, msgs)
        BY <4>1, <4>3, <4>5
      <4> QED
        BY <4>2, <4>4, <4>5, <4>6
    <3>4. CASE \E c : c = [conn[g] EXCEPT !.passkey_num = 0] /\ Goes(g, c, <<Failed("PASSKEY_ENTRY")>>)
      BY <2>4, <3>4
    <3> QED
      BY <3>1, <3>2, <3>3, <3>4
  <2>7. CASE DialogShown(g) \/ DialogCompare(g)
    BY <2>4, <2>7 DEF DialogShown, DialogCompare
  <2> QED
    BY <2>1, <2>6, <2>7
<1>5. CASE UNCHANGED <<conn, air>>
  BY <1>3, <1>5 DEF Alike
<1>6. CASE \E c, msgs : /\ Goes(g, c, msgs) /\ (g \in Handle => Alike(conn[g], c))
                        /\ \/ \E m : msgs = <<m>> /\ m.op \in ops
                           \/ \E m, l : msgs = <<m, l>> /\ {m.op, l.op} \subseteq ops
  <2>1. PICK c, msgs : /\ Goes(g, c, msgs) /\ (g \in Handle => Alike(conn[g], c))
                       /\ \/ \E m : msgs = <<m>> /\ m.op \in ops
                          \/ \E m, l : msgs = <<m, l>> /\ {m.op, l.op} \subseteq ops
    BY <1>6
  <2> HIDE DEF ops
  <2>2. CASE g \in Handle
    <3>1. Sends(g, ops) /\ conn'[g] = c /\ \A h \in Handle : h # g => conn'[h] = conn[h]
      BY <1>2, <2>1, <2>2, GoesSendsFew
    <3>2. \A h \in Handle : Alike(conn[h], conn'[h])
      BY <2>1, <3>1 DEF Alike
    <3> QED
      BY <1>3, <3>1, <3>2 DEF Sends, ops
  <2>3. CASE g \notin Handle
    <3>1. \A h \in Handle : conn'[h] = conn[h] /\ air'[h] = air[h]
      BY <1>2, <2>1, <2>3 DEF Goes, sm_send, Shapes
    <3> QED
      BY <1>3, <3>1 DEF Alike, AirOK
  <2> QED
    BY <2>2, <2>3
<1> QED
  BY <1>4, <1>5, <1>6

LEMMA TurnsSame ==
    ASSUME NEW q, NEW cs, NEW cs2, NEW lk, TurnsOK(q, cs, lk), SameHolders(cs, cs2)
    PROVE  TurnsOK(q, cs2, lk)
  BY DEF TurnsOK, SameHolders

LEMMA DialogAnsweredAgrees ==
    ASSUME BondsKept, ComparisonsAgree, DialogAnswered PROVE ComparisonsAgree'
<1>1. UNCHANGED <<toHost, link, peer, overlapped, askedLast, cmd, job>> /\ dialog' = None
  BY DEF DialogAnswered, peerVars, ctrlVars
<1>2. TurnsOK(toHost, conn, link) /\ AirOK(air)
  BY DEF ComparisonsAgree
<1>3. /\ AirOK(air') /\ SameHolders(conn, conn')
      /\ \A h \in Handle :
            /\ Alike(conn[h], conn'[h])
            /\ \A m \in Elements(air'[h]) :
                  m \in Elements(air[h]) \/ m.op \in {"keypress", "pairing_confirm", "pairing_failed"}
  BY <1>2, AnswerStep
<1>4. TurnsOK(toHost', conn', link')
  BY <1>1, <1>2, <1>3, TurnsSame
<1>5. ASSUME NEW h \in Handle, Comparing(h)' PROVE ComparisonOK(h)'
  <2>1. ComparisonOK(h)
    BY <1>1, <1>5 DEF Comparing, ComparisonsAgree
  <2>2. (Agreed(h) => Agreed(h)') /\ (HasKey(h) => HasKey(h)')
    BY <1>1, <1>3, AgreementStays DEF SameHolders
  <2>3. Asked(h)' => Asked(h)
    BY <1>1 DEF Asked, DhkeyUnderWay
  <2>4. Once(toHost', RandomOf(h))
    BY <1>1, <2>1 DEF ComparisonOK, PacketsOfComparison
  <2>5. \A m \in Elements(air'[h]) :
           \/ m \in Elements(air[h])
           \/ m.op # "pairing_random" /\ m.op # "pairing_resp" /\ m.op # "pairing_public_key"
    BY <1>3
  <2>6. ~CompareOpen(h)'
    BY <1>1 DEF CompareOpen
  <2>7. SameEnd(peer[h], peer'[h])
    BY <1>1 DEF SameEnd
  <2> QED
    BY <1>1, <2>1, <2>2, <2>3, <2>4, <2>5, <2>6, <2>7, ComparisonStays
<1> QED
  BY <1>3, <1>4, <1>5 DEF ComparisonsAgree

\* The host answers under g only.
Touches(g) ==
    /\ AirOK(air') /\ \A h \in Handle : h # g => conn'[h] = conn[h] /\ air'[h] = air[h]
    /\ dialog' # None => dialog'.h = g

\* What it says there is not what a comparison waits for.
Agreement == {"pairing_resp", "pairing_public_key", "pairing_random"}
Plain(g) ==
    /\ Alike(conn[g], conn'[g]) /\ (dialog' # None => dialog'.kind # "compare")
    /\ \A m \in Elements(air'[g]) : m \in Elements(air[g]) \/ m.op \notin Agreement

LEMMA StepTouches ==
    ASSUME NEW g, NEW ops, HostStep(g, ops)
    PROVE  /\ Touches(g) /\ (dialog' # None => dialog'.kind # "compare")
           /\ \A m \in Elements(air'[g]) : m \in Elements(air[g]) \/ m.op \in ops
  BY DEF HostStep, Sends, Touches

LEMMA PacketTouches ==
    ASSUME Shapes, AirOK(air), NEW g \in Handle, ConnOK(conn[g]), NEW msg, sm_recv(g, msg)
    PROVE  Touches(g) /\ (msg.op \notin {"pairing_req", "pairing_public_key", "pairing_random"} => Plain(g))
<1>1. CASE msg.op = "pairing_req"
  <2>1. __sm_recv_pairing_req(g, msg.value)
    BY <1>1 DEF sm_recv, KeyOp
  <2> QED
    BY <1>1, <2>1, RequestStep, StepTouches
<1>2. CASE msg.op = "pairing_public_key"
  <2>1. __sm_recv_pairing_public_key(g, msg.value)
    BY <1>2 DEF sm_recv, KeyOp
  <2> QED
    BY <1>2, <2>1, PublicKeyStep, StepTouches
<1>3. CASE msg.op = "pairing_confirm"
  <2>1. __sm_recv_pairing_confirm(g, msg.value)
    BY <1>3 DEF sm_recv, KeyOp
  <2>2. HostStep(g, {"pairing_confirm", "keypress"}) /\ Alike(conn[g], conn'[g])
    BY <2>1, ConfirmStep
  <2> QED
    BY <2>2, StepTouches DEF Plain, Agreement
<1>4. CASE msg.op = "pairing_random"
  <2>1. __sm_recv_pairing_random(g, msg.value)
    BY <1>4 DEF sm_recv, KeyOp
  <2>2. /\ Sends(g, {"pairing_random", "pairing_failed"})
        /\ \A h \in Handle : h # g => conn'[h] = conn[h]
        /\ dialog' # None => dialog'.h = g
    BY <2>1, RandomStep
  <2> QED
    BY <1>4, <2>2 DEF Touches, Sends
<1>5. CASE msg.op = "dhkey_check"
  <2>1. __sm_recv_pairing_dhkey_check(g, msg.value)
    BY <1>5 DEF sm_recv, KeyOp
  <2>2. HostStep(g, {"dhkey_check", "pairing_failed"}) /\ Alike(conn[g], conn'[g])
    BY <2>1, CheckStep
  <2> QED
    BY <2>2, StepTouches DEF Plain, Agreement
<1>6. CASE msg.op \in KeyOp
  <2>1. RecvKey(g, msg.op, msg.value)
    BY <1>6 DEF sm_recv, KeyOp
  <2>2. HostStep(g, {}) /\ Alike(conn[g], conn'[g])
    BY <2>1, KeyStep
  <2> QED
    BY <2>2, StepTouches DEF Plain
<1>7. CASE msg.op \notin {"pairing_req", "pairing_public_key", "pairing_confirm", "pairing_random",
                          "dhkey_check"} \cup KeyOp
  <2>1. UNCHANGED <<conn, air>> /\ dialog' = None
    BY <1>7 DEF sm_recv, NoDialog
  <2> QED
    BY <2>1 DEF Touches, Plain, Alike
<1> QED
  BY <1>1, <1>2, <1>3, <1>4, <1>5, <1>6, <1>7

\* Whatever event the host handles: what it does to connections, packets and dialogs.
LEMMA DhkeyTouches ==
    ASSUME Shapes, AirOK(air), ConnsOK, NEW e, sm_recv_evt_le_generate_dhkey_complete(e)
    PROVE  /\ AirOK(air')
           /\ \A h \in Handle : h # askedLast => conn'[h] = conn[h] /\ air'[h] = air[h]
           /\ dialog' # None => dialog'.kind # "compare"
           /\ askedLast \in Handle =>
                 /\ Alike(conn[askedLast], conn'[askedLast])
                 /\ \A m \in Elements(air'[askedLast]) :
                       m \in Elements(air[askedLast]) \/ m.op \notin {"pairing_resp", "pairing_random"}
<1>1. PICK g : g = askedLast
  OBVIOUS
<1>2. CASE conn[g] = None
  <2>1. UNCHANGED <<conn, air>> /\ dialog' = None
    BY <1>1, <1>2 DEF sm_recv_evt_le_generate_dhkey_complete, NoDialog
  <2> QED
    BY <2>1 DEF Alike
<1>3. CASE conn[g] # None /\ g \in Handle
  <2>1. HostStep(g, {"pairing_public_key", "pairing_confirm", "keypress"}) /\ Alike(conn[g], conn'[g])
    BY <1>1, <1>3, DhkeyStep DEF ConnsOK
  <2> QED
    BY <1>1, <2>1, StepTouches DEF Touches
<1>4. CASE conn[g] # None /\ g \notin Handle
  <2>1. \E c, msgs : Goes(g, c, msgs) /\ (dialog' # None => dialog'.kind # "compare")
    <3>1. PICK c : c = [conn[g] EXCEPT !.dhkey = e.dhkey]
      OBVIOUS
    <3>2. CASE c.method \in {JW, NC}
      BY <1>1, <1>4, <3>1, <3>2 DEF sm_recv_evt_le_generate_dhkey_complete, NoDialog, JW, NC, IIRD, IDRI
    <3>3. CASE c.method = IIRD
      <4>1. PICK n, m : Goes(g, WithPasskey(c, n), <<m>>) /\ Opens("show", g, <<n>>)
        BY <1>1, <1>4, <3>1, <3>3 DEF sm_recv_evt_le_generate_dhkey_complete, IIRD, IDRI, JW, NC
      <4>2. dialog'.kind = "show"
        BY <4>1 DEF Opens
      <4> QED
        BY <4>1, <4>2
    <3>4. CASE c.method = IDRI
      <4>1. PICK msgs : Goes(g, c, msgs) /\ Opens("sc_input", g, <<>>)
        BY <1>1, <1>4, <3>1, <3>4 DEF sm_recv_evt_le_generate_dhkey_complete, IIRD, IDRI, JW, NC
      <4>2. dialog'.kind = "sc_input"
        BY <4>1 DEF Opens
      <4> QED
        BY <4>1, <4>2
    <3>5. CASE c.method \notin {JW, NC, IIRD, IDRI}
      BY <1>1, <1>4, <3>1, <3>5 DEF sm_recv_evt_le_generate_dhkey_complete, NoDialog
    <3> QED
      BY <3>2, <3>3, <3>4, <3>5
  <2>2. \A h \in Handle : conn'[h] = conn[h] /\ air'[h] = air[h]
    BY <1>4, <2>1 DEF Goes, sm_send, Shapes
  <2> QED
    BY <1>1, <1>4, <2>1, <2>2 DEF AirOK
<1> QED
  BY <1>2, <1>3, <1>4

\* A connection the host has does not begin again.
LEMMA NoOpening ==
    ASSUME TurnsOK(toHost, conn, link), Sequence(toHost), NEW h \in Handle, conn[h] # None
    PROVE  \A e \in Elements(toHost) : ~Opening(e, h)
  BY DEF TurnsOK, Elements

\* What the host handles, and where.
LEMMA EventTouches ==
    ASSUME BondsKept, FailureExplained, AirOK(air), HostReceives, NEW e, e = Head(toHost),
           NEW h \in Handle, link[h] # None
    PROVE  /\ AirOK(air')
           /\ (e.type = "conn_complete" /\ e.h = h) \/ Alike(conn[h], conn'[h]) \/ (e.type = "sm" /\ e.h = h)
           /\ \/ air'[h] = air[h]
              \/ e.type = "sm" /\ e.h = h
              \/ e.type = "generate_dhkey" /\ askedLast = h
              \/ \A m \in Elements(air'[h]) : m \in Elements(air[h]) \/ m.op \notin Agreement
           /\ e.type = "generate_dhkey" /\ askedLast = h =>
                 \A m \in Elements(air'[h]) : m \in Elements(air[h]) \/ m.op \notin {"pairing_resp", "pairing_random"}
           /\ (e.type = "sm" /\ e.h = h) \/ ~CompareOpen(h)'
           /\ e.type # "sm" => askedLast' = askedLast /\ (cmd' = cmd \/ cmd'.type # "generate_dhkey")
<1>1. Shapes /\ ConnsOK /\ e \in Elements(toHost) /\ (e.type \in Within => e.h \in Handle /\ conn[e.h] # None)
  BY HostReceivesTakes, ElementsTail DEF BondsKept, QueueOK
<1>2. CASE e.type = "sm"
  <2>1. sm_recv(e.h, e.msg) /\ e.h \in Handle /\ ConnOK(conn[e.h])
    BY <1>1, <1>2 DEF HostReceives, ConnsOK, Within
  <2>2. Touches(e.h)
    BY <1>1, <2>1, PacketTouches
  <2> QED
    BY <1>2, <2>2 DEF Touches, CompareOpen, Alike
<1>3. CASE e.type = "generate_dhkey"
  <2>1. sm_recv_evt_le_generate_dhkey_complete(e)
    BY <1>3 DEF HostReceives
  <2>2. askedLast' = askedLast /\ cmd' = cmd
    BY <2>1 DEF sm_recv_evt_le_generate_dhkey_complete
  <2>3. /\ AirOK(air')
        /\ \A k \in Handle : k # askedLast => conn'[k] = conn[k] /\ air'[k] = air[k]
        /\ dialog' # None => dialog'.kind # "compare"
        /\ askedLast \in Handle =>
              /\ Alike(conn[askedLast], conn'[askedLast])
              /\ \A m \in Elements(air'[askedLast]) :
                    m \in Elements(air[askedLast]) \/ m.op \notin {"pairing_resp", "pairing_random"}
    BY <1>1, <2>1, DhkeyTouches
  <2>4. Alike(conn[h], conn'[h])
    BY <2>3 DEF Alike
  <2> QED
    BY <1>3, <2>2, <2>3, <2>4 DEF CompareOpen
<1>4. CASE e.type = "ltk_req"
  <2>1. sm_recv_evt_le_ltk_req(e.h)
    BY <1>4 DEF HostReceives
  <2>2. \E c : SendCmd(c) /\ c.type # "generate_dhkey"
    BY <2>1 DEF sm_recv_evt_le_ltk_req
  <2>3. UNCHANGED <<conn, air, askedLast>> /\ dialog' = None
    BY <2>1 DEF sm_recv_evt_le_ltk_req, NoDialog
  <2>4. cmd' = cmd \/ cmd'.type # "generate_dhkey"
    BY <2>2 DEF SendCmd
  <2> QED
    BY <1>4, <2>3, <2>4 DEF CompareOpen, Alike
<1>5. CASE e.type = "encryption_change"
  <2>1. sm_recv_evt_encryption_change(e.h, e.enabled) /\ e.h \in Handle /\ ConnOK(conn[e.h])
    BY <1>1, <1>5 DEF HostReceives, ConnsOK, Within
  <2>2. HostStep(e.h, KeyOp) /\ Alike(conn[e.h], conn'[e.h])
    BY <1>1, <2>1, EncryptionStep
  <2>3. askedLast' = askedLast /\ cmd' = cmd
    BY <2>1 DEF sm_recv_evt_encryption_change, NoCmd
  <2>4. /\ Touches(e.h) /\ (dialog' # None => dialog'.kind # "compare")
        /\ \A m \in Elements(air'[e.h]) : m \in Elements(air[e.h]) \/ m.op \in KeyOp
    BY <2>2, StepTouches
  <2>5. KeyOp \cap Agreement = {}
    BY DEF KeyOp, Agreement
  <2>6. Alike(conn[h], conn'[h])
    BY <2>2, <2>4 DEF Touches, Alike
  <2>7. air'[h] = air[h] \/ \A m \in Elements(air'[h]) : m \in Elements(air[h]) \/ m.op \notin Agreement
    BY <2>4, <2>5 DEF Touches
  <2> QED
    BY <1>5, <2>3, <2>4, <2>6, <2>7 DEF Touches, CompareOpen
<1>6. CASE e.type \notin {"sm", "generate_dhkey", "ltk_req", "encryption_change"}
  <2>1. OtherEvent(e)
    BY <1>6 DEF HostReceives
  <2>2. UNCHANGED <<air, askedLast, cmd>> /\ dialog' = None
    BY <2>1 DEF OtherEvent, NoDialog
  <2>3. ~(e.type = "disconn_complete" /\ e.h = h)
    BY <1>1 DEF FailureExplained, EndsLast, NoEnd
  <2>4. (e.type = "conn_complete" /\ e.h = h) \/ conn'[h] = conn[h]
    BY <1>1, <2>1, <2>3 DEF OtherEvent, Shapes
  <2> QED
    BY <1>6, <2>2, <2>4 DEF CompareOpen, Alike
<1> QED
  BY <1>2, <1>3, <1>4, <1>5, <1>6

\* The packets of the comparison, one by one.
LEMMA OwnPacketAgrees ==
    ASSUME BondsKept, ComparisonsAgree, dialog = None, NEW h \in Handle, Comparing(h), conn[h] # None,
           NEW e, e \in Elements(toHost), e.type = "sm", e.h = h, sm_recv(h, e.msg),
           UNCHANGED <<link, peer, job>>, Elements(toHost') \subseteq Elements(toHost),
           Once(toHost', RandomOf(h)), e = RandomOf(h) => e \notin Elements(toHost'), conn'[h] # None
    PROVE  ComparisonOK(h)'
<1>1. /\ Shapes /\ AirOK(air) /\ ConnOK(conn[h]) /\ PeerOK(peer[h]) /\ Sequence(toHost)
      /\ TurnsOK(toHost, conn, link) /\ ComparisonOK(h)
  BY DEF BondsKept, ConnsOK, PeersOK, QueueOK, ComparisonsAgree
<1>2. PICK msg : msg = e.msg
  OBVIOUS
<1>3. \A f \in Elements(toHost) : ~Opening(f, h)
  BY <1>1, NoOpening
<1>4. \A f \in Elements(toHost') : f \in Elements(toHost) /\ ~Opening(f, h)
  BY <1>3
<1>5. SameEnd(peer[h], peer'[h]) /\ ~CompareOpen(h)
  BY DEF SameEnd, CompareOpen
<1>6. msg.op # "pairing_public_key" => (Asked(h)' => Asked(h))
  <2>1. msg.op # "pairing_public_key" => askedLast' = askedLast /\ cmd' = cmd
    BY <1>2, PacketAsks
  <2> QED
    BY <2>1, UnderWayFrom DEF Asked
<1>7. CASE msg.op = "pairing_req"
  <2>1. __sm_recv_pairing_req(h, msg.value)
    BY <1>2, <1>7 DEF sm_recv, KeyOp
  <2>2. /\ HostStep(h, {"pairing_resp"})
        /\ conn'[h].sc = IsSecureConnection(msg.value) /\ conn'[h].method = __sm_get_pairing_method(msg.value)
        /\ conn'[h].pk = conn[h].pk
    BY <1>1, <2>1, RequestStep
  <2>3. msg.value = peer[h].req
    BY <1>1, <1>2, <1>7 DEF ComparisonOK, PacketsOfComparison, IsPacket
  <2>4. peer[h].req \in Offers
    BY <1>1 DEF Comparing, PeerOK
  <2>5. __sm_get_pairing_method(peer[h].req) = NC
    BY <2>4, MethodShared DEF Comparing
  <2>6. Agreed(h)'
    BY <1>4, <2>2, <2>3, <2>5 DEF Agreed, Comparing
  <2>7. HasKey(h) => HasKey(h)'
    BY <2>2 DEF HasKey
  <2>8. /\ dialog' # None => dialog'.kind # "compare"
        /\ \A m \in Elements(air'[h]) : m \in Elements(air[h]) \/ m.op \in {"pairing_resp"}
    BY <2>2, StepTouches
  <2>9. ~CompareOpen(h)'
    BY <2>8 DEF CompareOpen
  <2> QED
    BY <1>1, <1>4, <1>5, <1>6, <1>7, <2>6, <2>7, <2>8, <2>9, ComparisonStays
<1>8. CASE msg.op = "pairing_public_key"
  <2>1. __sm_recv_pairing_public_key(h, msg.value)
    BY <1>2, <1>8 DEF sm_recv, KeyOp
  <2>2. /\ HostStep(h, {})
        /\ conn'[h].pk = msg.value /\ conn'[h].sc = conn[h].sc /\ conn'[h].method = conn[h].method
    BY <1>1, <2>1, PublicKeyStep
  <2>3. msg.value = Pk(link[h].peer)
    BY <1>1, <1>2, <1>8 DEF ComparisonOK, PacketsOfComparison, IsPacket
  <2>4. Agreed(h) => Agreed(h)'
    BY <1>4, <2>2 DEF Agreed
  <2>5. HasKey(h)'
    BY <2>2, <2>3 DEF HasKey
  <2>6. /\ dialog' # None => dialog'.kind # "compare"
        /\ \A m \in Elements(air'[h]) : m \in Elements(air[h])
    BY <2>2, StepTouches
  <2>7. ~CompareOpen(h)'
    BY <2>6 DEF CompareOpen
  <2> QED
    BY <1>1, <1>4, <1>5, <2>4, <2>5, <2>6, <2>7, ComparisonStays
<1>9. CASE msg.op \notin {"pairing_req", "pairing_public_key", "pairing_random"}
  <2>1. Plain(h)
    BY <1>1, <1>2, <1>9, PacketTouches
  <2>2. (Agreed(h) => Agreed(h)') /\ (HasKey(h) => HasKey(h)')
    BY <1>4, <2>1, AgreementStays DEF Plain
  <2>3. ~CompareOpen(h)'
    BY <2>1 DEF Plain, CompareOpen
  <2>4. \A m \in Elements(air'[h]) :
           \/ m \in Elements(air[h])
           \/ m.op # "pairing_random" /\ m.op # "pairing_resp" /\ m.op # "pairing_public_key"
    BY <2>1 DEF Plain, Agreement
  <2> QED
    BY <1>1, <1>4, <1>5, <1>6, <1>9, <2>2, <2>3, <2>4, ComparisonStays
<1>10. CASE msg.op = "pairing_random"
  <2>1. __sm_recv_pairing_random(h, msg.value)
    BY <1>2, <1>10 DEF sm_recv, KeyOp
  <2>2. peer[h].step = "random" /\ e = RandomOf(h)
    BY <1>1, <1>2, <1>10 DEF ComparisonOK, PacketsOfComparison, IsPacket
  <2>3. msg.value = peer[h].random
    BY <1>2, <2>2 DEF RandomOf, Msg
  <2>4. Agreed(h) /\ HasKey(h)
    BY <1>1, <2>2 DEF ComparisonOK, KeysOfComparison
  <2>5. ~InAir(h, "pairing_random")
    BY <1>1, <2>2 DEF ComparisonOK, NumbersAgree
  <2>6. /\ Sends(h, {"pairing_random", "pairing_failed"})
        /\ Alike(conn[h], conn'[h])
        /\ \A m \in Elements(air'[h]) :
              m.op = "pairing_random" => m \in Elements(air[h]) \/ m.value = conn[h].local_random
        /\ dialog' # None => dialog'.number = __sm_g2(conn[h].pk, HostPk, msg.value, conn[h].local_random)
    BY <1>1, <2>1, <2>4, RandomStep DEF Agreed
  <2>7. (Agreed(h) => Agreed(h)') /\ (HasKey(h) => HasKey(h)')
    BY <1>4, <2>6, AgreementStays
  <2>8. dialog' # None => dialog'.number = NumberOf(h, conn[h].local_random)
    BY <2>3, <2>4, <2>6 DEF HasKey, NumberOf
  <2>9. \A m \in Elements(air'[h]) : m.op = "pairing_random" => m.value = conn[h].local_random
    BY <2>5, <2>6 DEF InAir
  <2>10. \A m \in Elements(air'[h]) : m.op # "pairing_random" /\ m.op # "pairing_failed" => m \in Elements(air[h])
    BY <2>6 DEF Sends
  <2>11. PacketsOfComparison(h)'
    BY <1>1, <1>4 DEF ComparisonOK, PacketsOfComparison, RandomOf
  <2>12. KeysOfComparison(h)'
    BY <2>4, <2>7 DEF KeysOfComparison
  <2>13. RandomOf(h) \notin Elements(toHost')
    BY <2>2
  <2>14. NumbersAgree(h)'
    <3>1. \A r : NumberOf(h, r)' = NumberOf(h, r)
      BY DEF NumberOf
    <3>2. RandomOf(h)' = RandomOf(h)
      BY DEF RandomOf
    <3>3. ~(peer'[h].step \in {"resp", "pk", "confirm"} \/ RandomOf(h)' \in Elements(toHost'))
      BY <2>2, <2>13, <3>2
    <3>4. CompareOpen(h)' =>
            \A m \in Elements(air'[h]) : m.op = "pairing_random" => dialog'.number = NumberOf(h, m.value)'
      BY <2>8, <2>9, <3>1 DEF CompareOpen
    <3> QED
      BY <2>2, <3>3, <3>4 DEF NumbersAgree
  <2> QED
    BY <2>2, <2>11, <2>12, <2>14 DEF ComparisonOK
<1> QED
  BY <1>7, <1>8, <1>9, <1>10

LEMMA HostReceivesAgrees ==
    ASSUME BondsKept, FailureExplained, ComparisonsAgree, HostReceives PROVE ComparisonsAgree'
<1>1. PICK e : e = Head(toHost)
  OBVIOUS
<1>2. /\ toHost # <<>> /\ toHost' = Tail(toHost) /\ Sequence(toHost)
      /\ e.type \in Within => e.h \in Handle /\ conn[e.h] # None
      /\ HostKeeps /\ Taken(e, conn, conn')
  BY <1>1, HostReceivesTakes DEF BondsKept, QueueOK
<1>3. Elements(toHost') \subseteq Elements(toHost) /\ e \in Elements(toHost)
  BY <1>1, <1>2, ElementsTail
<1>4. UNCHANGED <<job, link, peer, overlapped>> /\ dialog = None
  BY DEF HostReceives, peerVars
<1>5. TurnsOK(toHost, conn, link) /\ AirOK(air)
  BY DEF ComparisonsAgree
<1>6. TurnsOK(toHost', conn', link')
  BY <1>1, <1>2, <1>4, <1>5, TurnsShrink
<1>7. AirOK(air')
  <2>1. CASE e.type = "sm"
    <3>1. sm_recv(e.h, e.msg) /\ e.h \in Handle /\ ConnOK(conn[e.h])
      BY <1>1, <1>2, <2>1 DEF HostReceives, BondsKept, ConnsOK, Within
    <3> QED
      BY <1>5, <3>1, PacketTouches DEF BondsKept, Touches
  <2>2. CASE e.type = "generate_dhkey"
    <3>1. sm_recv_evt_le_generate_dhkey_complete(e)
      BY <1>1, <2>2 DEF HostReceives
    <3> QED
      BY <1>5, <3>1, DhkeyTouches DEF BondsKept
  <2>3. CASE e.type = "encryption_change"
    <3>1. sm_recv_evt_encryption_change(e.h, e.enabled) /\ e.h \in Handle /\ ConnOK(conn[e.h])
      BY <1>1, <1>2, <2>3 DEF HostReceives, BondsKept, ConnsOK, Within
    <3> QED
      BY <1>5, <3>1, EncryptionStep, StepTouches DEF BondsKept, Touches
  <2>4. CASE e.type \notin {"sm", "generate_dhkey", "encryption_change"}
    <3>1. air' = air
      BY <1>1, <2>4 DEF HostReceives, sm_recv_evt_le_ltk_req, OtherEvent
    <3> QED
      BY <1>5, <3>1
  <2> QED
    BY <2>1, <2>2, <2>3, <2>4
<1>8. ASSUME NEW h \in Handle, Comparing(h)' PROVE ComparisonOK(h)'
  <2>1. Comparing(h) /\ ComparisonOK(h) /\ link[h] # None
    BY <1>4, <1>8 DEF Comparing, ComparisonsAgree
  <2>2. Once(toHost', RandomOf(h)) /\ (e = RandomOf(h) => e \notin Elements(toHost'))
    BY <1>1, <1>2, <2>1, OnceTail DEF ComparisonOK, PacketsOfComparison
  <2>3. CASE e.type = "sm" /\ e.h = h
    <3>1. sm_recv(h, e.msg) /\ conn[h] # None
      BY <1>1, <1>2, <2>3 DEF HostReceives, Within
    <3>2. conn'[h] # None
      BY <1>2, <2>3, <3>1 DEF Taken, Turns
    <3> QED
      BY <1>3, <1>4, <2>1, <2>2, <2>3, <3>1, <3>2, OwnPacketAgrees
  <2>4. CASE ~(e.type = "sm" /\ e.h = h)
    <3>1. /\ (e.type = "conn_complete" /\ e.h = h) \/ Alike(conn[h], conn'[h])
          /\ \/ air'[h] = air[h]
             \/ e.type = "generate_dhkey" /\ askedLast = h
             \/ \A m \in Elements(air'[h]) : m \in Elements(air[h]) \/ m.op \notin Agreement
          /\ e.type = "generate_dhkey" /\ askedLast = h =>
                \A m \in Elements(air'[h]) : m \in Elements(air[h]) \/ m.op \notin {"pairing_resp", "pairing_random"}
          /\ ~CompareOpen(h)'
          /\ e.type # "sm" => askedLast' = askedLast /\ (cmd' = cmd \/ cmd'.type # "generate_dhkey")
      BY <1>1, <1>5, <2>1, <2>4, EventTouches
    <3>2. \A f \in Elements(toHost') : f \in Elements(toHost)
      BY <1>3
    <3>3. (Agreed(h) => Agreed(h)') /\ (HasKey(h) => HasKey(h)')
      <4>1. CASE Opening(e, h)
        <5>1. conn[h] = None
          BY <1>2, <1>3, <1>5, <4>1, NoOpening
        <5> QED
          BY <5>1 DEF Agreed, HasKey
      <4>2. CASE ~Opening(e, h)
        <5>1. Alike(conn[h], conn'[h])
          BY <3>1, <4>2 DEF Opening
        <5>2. ~(e.type = "disconn_complete" /\ e.h = h)
          BY <1>3, <2>1 DEF FailureExplained, EndsLast, NoEnd
        <5>3. conn[h] # None => conn'[h] # None
          BY <1>2, <4>2, <5>2 DEF Taken, Turns, Opening
        <5> QED
          BY <1>4, <3>2, <5>1, <5>3, AgreementStays
      <4> QED
        BY <4>1, <4>2
    <3>4. Asked(h)' => Asked(h)
      <4>1. CASE e.type = "sm"
        <5>1. sm_recv(e.h, e.msg) /\ e.h # h
          BY <1>1, <2>4, <4>1 DEF HostReceives
        <5>2. askedLast' = e.h \/ (askedLast' = askedLast /\ cmd' = cmd)
          BY <5>1, PacketAsks
        <5> QED
          BY <1>4, <3>2, <5>1, <5>2, UnderWayFrom DEF Asked
      <4>2. CASE e.type # "sm"
        BY <1>4, <3>1, <3>2, <4>2, UnderWayFrom DEF Asked
      <4> QED
        BY <4>1, <4>2
    <3>5. e.type = "generate_dhkey" /\ askedLast = h => HasKey(h)'
      <4>1. e.type = "generate_dhkey" => DhkeyUnderWay
        BY <1>3 DEF DhkeyUnderWay, Elements
      <4> QED
        BY <2>1, <3>3, <4>1 DEF Asked, ComparisonOK, KeysOfComparison
    <3>6. \A m \in Elements(air'[h]) :
             \/ m \in Elements(air[h])
             \/ /\ m.op # "pairing_random"
                /\ m.op = "pairing_resp" => Agreed(h)'
                /\ m.op = "pairing_public_key" => HasKey(h)'
      BY <3>1, <3>5 DEF Agreement
    <3>7. SameEnd(peer[h], peer'[h])
      BY <1>4 DEF SameEnd
    <3> QED
      BY <1>4, <2>1, <2>2, <3>1, <3>2, <3>3, <3>4, <3>6, <3>7, ComparisonStays
  <2> QED
    BY <2>3, <2>4
<1> QED
  BY <1>6, <1>7, <1>8 DEF ComparisonsAgree

-----------------------------------------------------------------------------
(* The controller keeps the comparisons.                                    *)

\* A step that tells the host t, and may end the link under g.
LEMMA TellsAgrees ==
    ASSUME BondsKept, ComparisonsAgree, NEW t, Sequence(t), toHost' = toHost \o t,
           \A e \in Elements(t) : /\ e.type # "conn_complete"
                                  /\ e.type = "sm" => e.msg.op \in KeyOp,
           \A h \in Handle : \/ link'[h] = link[h]
                             \/ link'[h] = None /\ \E e \in Elements(t) : e.type = "disconn_complete" /\ e.h = h,
           \A h \in Handle : link'[h] # None =>
              \/ SameEnd(peer[h], peer'[h])
              \/ peer'[h].step \notin {"resp", "pk", "enter", "begin", "confirm", "random", "compare"},
           \A h \in Handle : air'[h] = air[h] \/ air'[h] = <<>>,
           UNCHANGED <<conn, dialog, askedLast, overlapped>>, DhkeyUnderWay' => DhkeyUnderWay
    PROVE  ComparisonsAgree'
<1>1. TurnsOK(toHost, conn, link) /\ AirOK(air) /\ Sequence(toHost)
  BY DEF ComparisonsAgree, BondsKept, QueueOK
<1>2. TurnsOK(toHost', conn', link')
  <2>1. \A h \in Handle : \/ link'[h] = link[h]
                          \/ \E e \in Elements(t) : e.type = "disconn_complete" /\ e.h = h
    OBVIOUS
  <2>2. TurnsOK(toHost \o t, conn, link')
    BY <1>1, <2>1, TurnsGrow
  <2> QED
    BY <2>2
<1>3. Sequence(<<>>) /\ Elements(<<>>) = {}
  BY ShortSequences, ElementsFew
<1>4. AirOK(air')
  BY <1>1, <1>3 DEF AirOK
<1>5. \A e \in Elements(t) : \A h : ~Bears(e, h)
  BY DEF Bears, Opening, KeyOp
<1>6. ASSUME NEW h \in Handle, Comparing(h)' PROVE ComparisonOK(h)'
  <2>1. SameEnd(peer[h], peer'[h]) /\ link'[h] = link[h]
    BY <1>6 DEF Comparing
  <2>2. ComparisonOK(h)
    BY <1>6, <2>1 DEF ComparisonsAgree, Comparing, SameEnd
  <2>3. Elements(air'[h]) \subseteq Elements(air[h])
    BY <1>3
  <2> QED
    BY <1>1, <1>5, <2>1, <2>2, <2>3, ComparisonAside
<1> QED
  BY <1>2, <1>4, <1>6 DEF ComparisonsAgree

LEMMA ControllerExecutesAgrees ==
    ASSUME BondsKept, ComparisonsAgree, ControllerExecutes PROVE ComparisonsAgree'
<1>1. PICK t : Sequence(t) /\ toHost' = toHost \o t /\ (Executed(t) \/ ExecutedEnds(t))
  BY ControllerTells
<1>2. PICK g : g = cmd.h
  OBVIOUS
<1>3. /\ cmd # None /\ cmd' = None /\ g \in Handle /\ Shapes /\ PeerOK(peer[g])
      /\ UNCHANGED <<conn, dialog, askedLast, overlapped>>
  BY <1>2 DEF ControllerExecutes, BondsKept, CmdOK, hostVars, PeersOK
<1>4. /\ \A e \in Elements(t) : /\ e.type # "conn_complete"
                                /\ e.type = "sm" => e.msg.op \in KeyOp
      /\ \A e \in Elements(t) : e.type # "generate_dhkey"
      /\ job' = job \/ cmd.type = "generate_dhkey"
  BY <1>1 DEF Executed, ExecutedEnds
<1>5. Elements(toHost') = Elements(toHost) \cup Elements(t)
  BY <1>1, ElementsJoin DEF BondsKept, QueueOK
<1>6. DhkeyUnderWay' => DhkeyUnderWay
  BY <1>3, <1>4, <1>5, UnderWayFrom
<1>7. \A h \in Handle : \/ link'[h] = link[h]
                        \/ link'[h] = None /\ \E e \in Elements(t) : e.type = "disconn_complete" /\ e.h = h
  BY <1>1, <1>3 DEF Executed, ExecutedEnds, Unlink, Shapes
<1>8. /\ \A h \in Handle : SameEnd(peer[h], peer'[h]) \/ peer'[h].step \in {"idle", "keys"}
      /\ \A h \in Handle : air'[h] = air[h] \/ air'[h] = <<>>
  <2>1. CASE UNCHANGED <<air, peer>>
    BY <2>1 DEF SameEnd
  <2>2. CASE Encrypted(g)
    <3>1. PICK waits : waits = IF peer[g].pairing THEN peer[g].req.rdist \cap SM_RESP.rdist ELSE {}
      OBVIOUS
    <3>2. peer' = [peer EXCEPT ![g].encrypted = peer[g].ltk, ![g].waits = waits,
                               ![g].step = IF waits = {} THEN "idle" ELSE "keys",
                               ![g].pairing = waits # {}]
      BY <2>2, <3>1 DEF Encrypted
    <3>3. peer'[g].step \in {"idle", "keys"}
      BY <1>3, <3>2 DEF Shapes, PeerOK, PeerFields
    <3>4. \A h \in Handle : h # g => peer'[h] = peer[h]
      BY <1>3, <3>2 DEF Shapes
    <3>5. air' = air
      BY <2>2 DEF Encrypted
    <3> QED
      BY <3>3, <3>4, <3>5 DEF SameEnd
  <2>3. CASE Unlink(g)
    BY <1>3, <2>3 DEF Unlink, Shapes, SameEnd, NewPeer
  <2>4. CASE peer' = [peer EXCEPT ![g].step = "idle", ![g].pairing = FALSE] /\ air' = air
    BY <1>3, <2>4 DEF Shapes, PeerOK, PeerFields, SameEnd
  <2>5. \/ UNCHANGED <<air, peer>> \/ Encrypted(g) \/ Unlink(g)
        \/ peer' = [peer EXCEPT ![g].step = "idle", ![g].pairing = FALSE] /\ air' = air
    <3>1. CASE cmd.type = "generate_dhkey"
      BY <1>2, <3>1 DEF ControllerExecutes, peerVars
    <3>2. CASE cmd.type # "generate_dhkey" /\ peer[g].step # "encrypt"
      BY <1>2, <3>2 DEF ControllerExecutes, peerVars
    <3>3. CASE cmd.type = "ltk_req_reply" /\ peer[g].step = "encrypt" /\ cmd.ltk = peer[g].ltk
      BY <1>2, <3>3 DEF ControllerExecutes
    <3>4. CASE cmd.type = "ltk_req_reply" /\ peer[g].step = "encrypt" /\ cmd.ltk # peer[g].ltk
      BY <1>2, <3>4 DEF ControllerExecutes
    <3>5. CASE cmd.type \notin {"generate_dhkey", "ltk_req_reply"} /\ peer[g].step = "encrypt"
      BY <1>2, <3>5 DEF ControllerExecutes
    <3> QED
      BY <3>1, <3>2, <3>3, <3>4, <3>5
  <2> QED
    BY <2>1, <2>2, <2>3, <2>4, <2>5
<1> QED
  BY <1>1, <1>3, <1>4, <1>6, <1>7, <1>8, TellsAgrees

LEMMA ControllerComputesAgrees ==
    ASSUME BondsKept, ComparisonsAgree, ControllerComputes PROVE ComparisonsAgree'
<1>1. PICK e, t : e = [type |-> "generate_dhkey", h |-> job.h, dhkey |-> DhKey(job.pk)] /\ t = <<e>>
  OBVIOUS
<1>2. /\ e.type = "generate_dhkey" /\ toHost' = Append(toHost, e) /\ job # None /\ job' = None
      /\ UNCHANGED <<conn, dialog, askedLast, cmd, air, link, peer, overlapped>>
  BY <1>1 DEF ControllerComputes, hostVars, peerVars, history
<1>3. Sequence(t) /\ Elements(t) = {e} /\ toHost' = toHost \o t
  BY <1>1, <1>2, AppendOne, ElementsFew DEF BondsKept, QueueOK
<1>4. DhkeyUnderWay' => DhkeyUnderWay
  BY <1>2 DEF DhkeyUnderWay
<1>5. \A h : SameEnd(peer[h], peer'[h])
  BY <1>2 DEF SameEnd
<1> QED
  BY <1>2, <1>3, <1>4, <1>5, TellsAgrees

LEMMA LinkLostAgrees ==
    ASSUME BondsKept, ComparisonsAgree, NEW g \in Handle, LinkLost(g) PROVE ComparisonsAgree'
<1>1. PICK e, t : e = [type |-> "disconn_complete", h |-> g] /\ t = <<e>>
  OBVIOUS
<1>2. /\ Unlink(g) /\ toHost' = Append(toHost, e)
      /\ e.type = "disconn_complete" /\ e.h = g
      /\ UNCHANGED <<conn, dialog, askedLast, job, cmd, overlapped>>
  BY <1>1 DEF LinkLost, hostVars, ctrlVars
<1>3. toHost' = toHost \o t /\ Sequence(t) /\ Elements(t) = {e}
  BY <1>1, <1>2, AppendOne, ElementsFew DEF BondsKept, QueueOK
<1>4. Elements(toHost') = Elements(toHost) \cup {e}
  BY <1>3, ElementsJoin DEF BondsKept, QueueOK
<1>5. DhkeyUnderWay' => DhkeyUnderWay
  BY <1>2, <1>4, UnderWayFrom
<1>6. \A h \in Handle : /\ h # g => link'[h] = link[h] /\ peer'[h] = peer[h]
                        /\ h = g => link'[h] = None
                        /\ air'[h] = air[h] \/ air'[h] = <<>>
  BY <1>2 DEF Unlink, BondsKept, Shapes
<1>7. \A h \in Handle : \/ link'[h] = link[h]
                        \/ link'[h] = None /\ \E f \in Elements(t) : f.type = "disconn_complete" /\ f.h = h
  BY <1>2, <1>3, <1>6
<1>8. \A h \in Handle : link'[h] # None => SameEnd(peer[h], peer'[h])
  BY <1>6 DEF SameEnd
<1> QED
  BY <1>2, <1>3, <1>5, <1>6, <1>7, <1>8, TellsAgrees

-----------------------------------------------------------------------------
(* The peers keep the comparisons.                                          *)

LEMMA FrameOfPeer ==
    ASSUME NEW g \in Handle, DOMAIN peer = Handle,
           \/ peer' = peer
           \/ \E st : peer' = [peer EXCEPT ![g] = st]
    PROVE  \A h \in Handle : h # g => peer'[h] = peer[h]
  OBVIOUS

\* A step of the peer under g that says what concerns its own link only.
LEMMA PeerAgrees ==
    ASSUME BondsKept, ComparisonsAgree, NEW g \in Handle, PeerAdds(g),
           \A h \in Handle : h # g => peer'[h] = peer[h],
           \A h \in Handle : h # g => (h \in overlapped' <=> h \in overlapped),
           \A h \in Handle : h # g => air'[h] = air[h],
           AirOK(air'), UNCHANGED <<conn, dialog, askedLast, cmd, job, link>>,
           Comparing(g)' => ComparisonOK(g)'
    PROVE  ComparisonsAgree'
<1>1. PICK t : /\ toHost' = toHost \o t /\ Sequence(t)
               /\ \A e \in Elements(t) : e.type \in {"sm", "ltk_req"} /\ e.h = g
  BY DEF PeerAdds
<1>2. TurnsOK(toHost, conn, link) /\ Sequence(toHost)
  BY DEF ComparisonsAgree, BondsKept, QueueOK
<1>3. TurnsOK(toHost', conn', link')
  <2>1. \A e \in Elements(t) : e.type # "conn_complete"
    BY <1>1
  <2>2. TurnsOK(toHost \o t, conn, link)
    BY <1>1, <1>2, <2>1, TurnsGrow
  <2> QED
    BY <1>1, <2>2
<1>4. Elements(toHost') = Elements(toHost) \cup Elements(t)
  BY <1>1, <1>2, ElementsJoin
<1>5. DhkeyUnderWay' => DhkeyUnderWay
  BY <1>1, <1>4, UnderWayFrom
<1>6. ASSUME NEW h \in Handle, h # g, Comparing(h)' PROVE ComparisonOK(h)'
  <2>1. ComparisonOK(h)
    BY <1>6 DEF Comparing, ComparisonsAgree
  <2>2. \A e \in Elements(t) : ~Bears(e, h)
    BY <1>1, <1>6 DEF Bears, Opening
  <2>3. SameEnd(peer[h], peer'[h]) /\ Elements(air'[h]) \subseteq Elements(air[h])
    BY <1>6 DEF SameEnd
  <2> QED
    BY <1>1, <1>2, <1>5, <2>1, <2>2, <2>3, ComparisonAside
<1> QED
  BY <1>3, <1>6 DEF ComparisonsAgree

\* What a step of a peer that answers at most one packet adds.
LEMMA SaysMore ==
    ASSUME NEW h, NEW st, NEW msgs, Sequence(toHost), PeerSays(h, st, msgs), msgs = <<>> \/ \E m : msgs = <<m>>
    PROVE  \E t : /\ Sequence(t) /\ toHost' = toHost \o t
                  /\ msgs = <<>> => Elements(t) = {}
                  /\ \A m : msgs = <<m>> => Elements(t) = {[type |-> "sm", h |-> h, msg |-> m]} /\ Len(t) = 1
<1>1. PICK t : t = FromPeer(h, msgs)
  OBVIOUS
<1>2. toHost' = toHost \o t
  BY <1>1 DEF PeerSays
<1>3. CASE msgs = <<>>
  <2>1. t = <<>>
    BY <1>1, <1>3 DEF FromPeer
  <2> QED
    BY <1>2, <1>3, <2>1, ShortSequences, ElementsFew
<1>4. CASE \E m : msgs = <<m>>
  <2>1. PICK m : msgs = <<m>>
    BY <1>4
  <2>2. PICK e : e = [type |-> "sm", h |-> h, msg |-> m]
    OBVIOUS
  <2>3. t = <<e>>
    BY <1>1, <2>1, <2>2 DEF FromPeer
  <2>4. Sequence(t) /\ Elements(t) = {e} /\ Len(t) = 1
    BY <2>3, ShortSequences, ElementsFew
  <2>5. \A l : msgs = <<l>> => l = m
    BY <2>1
  <2> QED
    BY <1>2, <1>4, <2>1, <2>2, <2>4, <2>5
<1> QED
  BY <1>3, <1>4

LEMMA OnceNone == ASSUME NEW q, NEW x, x \notin Elements(q) PROVE Once(q, x)
  BY DEF Once, Elements

\* Only the peer under h moves, and says t.
Moves(h, t) ==
    /\ Sequence(t) /\ toHost' = toHost \o t /\ \A e \in Elements(t) : e.type = "sm"
    /\ Elements(air'[h]) \subseteq Elements(air[h])
    /\ UNCHANGED <<conn, dialog, askedLast, cmd, job, link>>

LEMMA MovesKeep ==
    ASSUME Sequence(toHost), NEW h, NEW t, Moves(h, t)
    PROVE  /\ Elements(toHost') = Elements(toHost) \cup Elements(t)
           /\ (Agreed(h) => Agreed(h)') /\ (HasKey(h) => HasKey(h)') /\ (Asked(h)' => Asked(h))
           /\ (CompareOpen(h)' <=> CompareOpen(h))
           /\ \A op : InAir(h, op)' => InAir(h, op)
<1>1. Elements(toHost') = Elements(toHost) \cup Elements(t)
  BY ElementsJoin DEF Moves
<1>2. \A e \in Elements(toHost') : Opening(e, h) => e \in Elements(toHost)
  BY <1>1 DEF Moves, Opening
<1>3. Agreed(h) => Agreed(h)'
  BY <1>2 DEF Agreed, Moves
<1>4. HasKey(h) => HasKey(h)'
  BY DEF HasKey, Moves
<1>5. Asked(h)' => Asked(h)
  BY <1>1, UnderWayFrom DEF Asked, Moves
<1>6. (CompareOpen(h)' <=> CompareOpen(h)) /\ \A op : InAir(h, op)' => InAir(h, op)
  BY DEF CompareOpen, InAir, Moves
<1> QED
  BY <1>1, <1>3, <1>4, <1>5, <1>6

\* The peer has the response and sends its public key.
LEMMA ResponseAgrees ==
    ASSUME NEW h, ComparisonOK(h), Sequence(toHost), NEW t, Moves(h, t), InAir(h, "pairing_resp"),
           peer[h].step = "resp", peer'[h].step = "pk", peer'[h].req = peer[h].req,
           Elements(t) = {[type |-> "sm", h |-> h, msg |-> Msg("pairing_public_key", Pk(link[h].peer))]}
    PROVE  ComparisonOK(h)'
<1>1. /\ Elements(toHost') = Elements(toHost) \cup Elements(t)
      /\ (Agreed(h) => Agreed(h)') /\ (HasKey(h) => HasKey(h)') /\ (Asked(h)' => Asked(h))
      /\ (CompareOpen(h)' <=> CompareOpen(h))
      /\ \A op : InAir(h, op)' => InAir(h, op)
  BY MovesKeep
<1>2. link'[h] = link[h]
  BY DEF Moves
<1>3. PICK e : e = [type |-> "sm", h |-> h, msg |-> Msg("pairing_public_key", Pk(link[h].peer))]
  OBVIOUS
<1>4. e.msg.op = "pairing_public_key" /\ e.msg.value = Pk(link[h].peer)
  BY <1>3 DEF Msg
<1>5. \A f \in Elements(toHost') : f \in Elements(toHost) \/ f = e
  BY <1>1, <1>3
<1>6. \A f \in Elements(toHost') : ~IsPacket(f, h, "pairing_random")
  BY <1>4, <1>5 DEF ComparisonOK, PacketsOfComparison, IsPacket
<1>7. RandomOf(h)' \notin Elements(toHost')
  <2>1. IsPacket(RandomOf(h)', h, "pairing_random")
    BY DEF IsPacket, RandomOf, Msg
  <2> QED
    BY <1>6, <2>1
<1>8. PacketsOfComparison(h)'
  <2>1. \A f \in Elements(toHost') : IsPacket(f, h, "pairing_req") => f.msg.value = peer'[h].req
    BY <1>4, <1>5 DEF ComparisonOK, PacketsOfComparison, IsPacket
  <2>2. \A f \in Elements(toHost') : IsPacket(f, h, "pairing_public_key") => f.msg.value = Pk(link'[h].peer)
    BY <1>2, <1>4, <1>5 DEF ComparisonOK, PacketsOfComparison
  <2> QED
    BY <1>6, <1>7, <2>1, <2>2, OnceNone DEF PacketsOfComparison
<1>9. KeysOfComparison(h)'
  BY <1>1 DEF ComparisonOK, KeysOfComparison
<1>10. NumbersAgree(h)'
  BY <1>1, <1>7 DEF ComparisonOK, NumbersAgree
<1> QED
  BY <1>8, <1>9, <1>10 DEF ComparisonOK

\* The peer has the host's public key.
LEMMA PublicKeyAgrees ==
    ASSUME NEW h, ComparisonOK(h), Sequence(toHost), NEW t, Moves(h, t), InAir(h, "pairing_public_key"),
           peer[h].step = "pk", peer'[h].step = "confirm", peer'[h].req = peer[h].req, Elements(t) = {}
    PROVE  ComparisonOK(h)'
<1>1. /\ Elements(toHost') = Elements(toHost)
      /\ (Agreed(h) => Agreed(h)') /\ (HasKey(h) => HasKey(h)')
      /\ (CompareOpen(h)' <=> CompareOpen(h))
      /\ \A op : InAir(h, op)' => InAir(h, op)
  BY MovesKeep
<1>2. link'[h] = link[h]
  BY DEF Moves
<1>3. \A f \in Elements(toHost') : ~IsPacket(f, h, "pairing_random")
  BY <1>1 DEF ComparisonOK, PacketsOfComparison
<1>4. RandomOf(h)' \notin Elements(toHost')
  <2>1. IsPacket(RandomOf(h)', h, "pairing_random")
    BY DEF IsPacket, RandomOf, Msg
  <2> QED
    BY <1>3, <2>1
<1>5. PacketsOfComparison(h)'
  BY <1>1, <1>2, <1>3, <1>4, OnceNone DEF ComparisonOK, PacketsOfComparison
<1>6. KeysOfComparison(h)'
  BY <1>1 DEF ComparisonOK, KeysOfComparison
<1>7. NumbersAgree(h)'
  BY <1>1, <1>4 DEF ComparisonOK, NumbersAgree
<1> QED
  BY <1>5, <1>6, <1>7 DEF ComparisonOK

\* The peer has the host's commitment and sends its random value.
LEMMA ConfirmAgrees ==
    ASSUME NEW h, ComparisonOK(h), Sequence(toHost), NEW t, Moves(h, t),
           peer[h].step = "confirm", peer'[h].step = "random", peer'[h].req = peer[h].req,
           Elements(t) = {RandomOf(h)'}, Len(t) = 1
    PROVE  ComparisonOK(h)'
<1>1. /\ Elements(toHost') = Elements(toHost) \cup Elements(t)
      /\ (Agreed(h) => Agreed(h)') /\ (HasKey(h) => HasKey(h)')
      /\ (CompareOpen(h)' <=> CompareOpen(h))
      /\ \A op : InAir(h, op)' => InAir(h, op)
  BY MovesKeep
<1>2. link'[h] = link[h] /\ Sequence(t) /\ toHost' = toHost \o t
  BY DEF Moves
<1>3. PICK e : e = RandomOf(h)'
  OBVIOUS
<1>4. e.msg.op = "pairing_random"
  BY <1>3 DEF RandomOf, Msg
<1>5. \A f \in Elements(toHost) : ~IsPacket(f, h, "pairing_random")
  BY DEF ComparisonOK, PacketsOfComparison
<1>6. e \notin Elements(toHost)
  <2>1. IsPacket(e, h, "pairing_random")
    BY <1>3 DEF IsPacket, RandomOf, Msg
  <2> QED
    BY <1>5, <2>1
<1>7. \A f \in Elements(toHost') : f \in Elements(toHost) \/ f = e
  BY <1>1, <1>3
<1>8. PacketsOfComparison(h)'
  <2>1. \A f \in Elements(toHost') : IsPacket(f, h, "pairing_req") => f.msg.value = peer'[h].req
    BY <1>4, <1>7 DEF ComparisonOK, PacketsOfComparison, IsPacket
  <2>2. \A f \in Elements(toHost') : IsPacket(f, h, "pairing_public_key") => f.msg.value = Pk(link'[h].peer)
    BY <1>2, <1>4, <1>7 DEF ComparisonOK, PacketsOfComparison, IsPacket
  <2>3. \A f \in Elements(toHost') : IsPacket(f, h, "pairing_random") => f = e
    BY <1>5, <1>7
  <2>4. Once(toHost', e)
    BY <1>2, <1>6, OnceJoin
  <2> QED
    BY <1>3, <2>1, <2>2, <2>3, <2>4 DEF PacketsOfComparison
<1>9. KeysOfComparison(h)'
  BY <1>1 DEF ComparisonOK, KeysOfComparison
<1>10. ~InAir(h, "pairing_random")' /\ ~CompareOpen(h)'
  BY <1>1 DEF ComparisonOK, NumbersAgree
<1>11. NumbersAgree(h)'
  BY <1>10 DEF NumbersAgree
<1> QED
  BY <1>8, <1>9, <1>11 DEF ComparisonOK

\* The peer has the host's random value and shows the number.
LEMMA RandomAgrees ==
    ASSUME NEW h, ComparisonOK(h), Sequence(toHost), NEW t, Moves(h, t), NEW m \in Elements(air[h]),
           m.op = "pairing_random", peer[h].step = "random", peer'[h].step = "compare",
           peer'[h].req = peer[h].req, peer'[h].random = peer[h].random, peer'[h].host_random = m.value,
           Elements(t) = {}
    PROVE  ComparisonOK(h)'
<1>1. /\ Elements(toHost') = Elements(toHost)
      /\ (Agreed(h) => Agreed(h)') /\ (HasKey(h) => HasKey(h)')
      /\ (CompareOpen(h)' <=> CompareOpen(h))
      /\ \A op : InAir(h, op)' => InAir(h, op)
  BY MovesKeep
<1>2. link'[h] = link[h] /\ dialog' = dialog
  BY DEF Moves
<1>3. RandomOf(h)' = RandomOf(h)
  BY DEF RandomOf
<1>4. RandomOf(h) \notin Elements(toHost')
  BY <1>1 DEF ComparisonOK, NumbersAgree, InAir
<1>5. PacketsOfComparison(h)'
  BY <1>1, <1>2, <1>3, <1>4, OnceNone DEF ComparisonOK, PacketsOfComparison
<1>6. KeysOfComparison(h)'
  BY <1>1 DEF ComparisonOK, KeysOfComparison
<1>7. CompareOpen(h)' => dialog'.number = NumberOf(h, m.value)
  BY <1>1, <1>2 DEF ComparisonOK, NumbersAgree
<1>8. NumberOf(h, peer[h].host_random)' = NumberOf(h, m.value)
  BY <1>2 DEF NumberOf
<1>9. NumbersAgree(h)'
  BY <1>3, <1>4, <1>7, <1>8 DEF NumbersAgree
<1> QED
  BY <1>5, <1>6, <1>9 DEF ComparisonOK

LEMMA PeerReceivesAgrees ==
    ASSUME BondsKept, ComparisonsAgree, NEW h \in Handle, PeerReceives(h) PROVE ComparisonsAgree'
<1>1. PICK msg, st : msg = Head(air[h]) /\ st = peer[h]
  OBVIOUS
<1>2. /\ air[h] # <<>> /\ air' = [air EXCEPT ![h] = Tail(@)]
      /\ UNCHANGED <<conn, dialog, askedLast, cmd, job, link, overlapped>>
  BY DEF PeerReceives, hostVars, ctrlVars
<1>3. /\ AirOK(air) /\ Sequence(air[h]) /\ Sequence(toHost) /\ Shapes /\ PeerOK(st)
      /\ link[h] # None /\ DOMAIN st = PeerFields
  BY <1>1, <1>2 DEF ComparisonsAgree, AirOK, BondsKept, QueueOK, PeersOK, PeerOK, Silent
<1>4. /\ Sequence(Tail(air[h])) /\ Elements(Tail(air[h])) \subseteq Elements(air[h]) /\ msg \in Elements(air[h])
  BY <1>1, <1>2, <1>3, TailFacts, ElementsTail
<1>5. /\ air'[h] = Tail(air[h]) /\ \A g \in Handle : g # h => air'[g] = air[g]
  BY <1>2, <1>3 DEF Shapes
<1>6. AirOK(air')
  BY <1>3, <1>4, <1>5 DEF AirOK
<1>7. \/ UNCHANGED <<peer, toHost>>
      \/ /\ peer' = [peer EXCEPT ![h].step = IF peer[h].pairing THEN "idle" ELSE @, ![h].pairing = FALSE]
         /\ UNCHANGED toHost
      \/ st.step = "keys" /\ PeerGetsKey(h, msg)
      \/ msg.op = "pairing_resp" /\ st.step = "resp" /\ PeerGetsResponse(h)
      \/ msg.op = "pairing_public_key" /\ st.step = "pk" /\ PeerGetsPublicKey(h)
      \/ st.step = "confirm" /\ PeerGetsConfirm(h, msg.value)
      \/ msg.op = "pairing_random" /\ st.step = "random" /\ PeerGetsRandom(h, msg.value)
      \/ PeerGetsCheck(h, msg.value)
      \/ PeerAborts(h)
  BY <1>1 DEF PeerReceives
<1>8. PeerAdds(h)
  BY <1>3, PeerReceivesAdds
<1>9. \A g \in Handle : g # h => peer'[g] = peer[g]
  <2>1. \/ UNCHANGED peer
        \/ \E s : peer' = [peer EXCEPT ![h] = s]
    <3>1. CASE peer' = [peer EXCEPT ![h].step = IF peer[h].pairing THEN "idle" ELSE @, ![h].pairing = FALSE]
      BY <3>1
    <3>2. CASE PeerGetsKey(h, msg)
      <4>1. PICK w, x, y : peer' = [peer EXCEPT ![h].waits = w, ![h].step = x, ![h].pairing = y]
        BY <3>2 DEF PeerGetsKey
      <4>2. peer' = [peer EXCEPT ![h] = [@ EXCEPT !.waits = w, !.step = x, !.pairing = y]]
        BY <4>1
      <4> QED
        BY <4>2
    <3>3. CASE PeerGetsResponse(h)
      BY <3>3 DEF PeerGetsResponse, PeerSays
    <3>4. CASE PeerGetsPublicKey(h)
      BY <3>4 DEF PeerGetsPublicKey, PeerSays, JW, NC, IIRD, IDRI
    <3>5. CASE PeerGetsConfirm(h, msg.value)
      BY <3>5 DEF PeerGetsConfirm, PeerSays
    <3>6. CASE PeerGetsRandom(h, msg.value)
      <4>1. \/ PeerAborts(h)
            \/ \E s : PeerStartsEncryption(h, s) \/ PeerSays(h, s, <<>>) \/ PeerChecks(h, s)
        BY <3>6 DEF PeerGetsRandom, NC
      <4> QED
        BY <4>1 DEF PeerAborts, PeerStartsEncryption, PeerSays, PeerChecks
    <3>7. CASE PeerGetsCheck(h, msg.value)
      BY <3>7 DEF PeerGetsCheck, PeerAborts, PeerStartsEncryption, PeerSays
    <3>8. CASE PeerAborts(h)
      BY <3>8 DEF PeerAborts, PeerSays
    <3> QED
      BY <1>7, <3>1, <3>2, <3>3, <3>4, <3>5, <3>6, <3>7, <3>8
  <2> QED
    BY <1>3, <2>1, FrameOfPeer DEF Shapes
<1>10. ASSUME Comparing(h)' PROVE ComparisonOK(h)'
  <2> DEFINE Compares(step) == step \in {"resp", "pk", "enter", "begin", "confirm", "random", "compare"}
  <2>1. Compares(peer'[h].step)
    BY <1>10 DEF Comparing
  <2>2. ASSUME Compares(st.step), peer'[h].req = st.req
        PROVE  /\ Comparing(h) /\ ComparisonOK(h) /\ IsSecureConnection(st.req)
               /\ st.step # "resp" => st.method = NC
    BY <1>1, <1>2, <1>3, <1>10, <2>2 DEF Comparing, ComparisonsAgree, PeerOK
  <2> HIDE DEF Compares
  <2>3. ASSUME NEW t, Sequence(t), toHost' = toHost \o t, \A e \in Elements(t) : e.type = "sm"
        PROVE  Moves(h, t)
    BY <1>2, <1>4, <1>5, <2>3 DEF Moves
  <2>4. ASSUME UNCHANGED toHost, SameEnd(st, peer'[h]) PROVE ComparisonOK(h)'
    <3>1. ComparisonOK(h)
      BY <2>1, <2>2, <2>4 DEF SameEnd
    <3>2. PICK t : Sequence(t) /\ toHost' = toHost \o t /\ Elements(t) = {}
      <4>1. toHost \o <<>> = toHost
        <5>1. PICK S : toHost \in Seq(S)
          BY <1>3 DEF Sequence
        <5> QED
          BY <5>1, ConcatEmptySeq
      <4> QED
        BY <2>4, <4>1, ShortSequences, ElementsFew
    <3>3. DhkeyUnderWay' => DhkeyUnderWay
      BY <1>2, <2>4 DEF DhkeyUnderWay
    <3> QED
      BY <1>1, <1>2, <1>3, <1>4, <1>5, <2>4, <3>1, <3>2, <3>3, ComparisonAside
  <2>5. CASE UNCHANGED <<peer, toHost>>
    BY <1>1, <2>4, <2>5 DEF SameEnd
  <2>6. CASE /\ peer' = [peer EXCEPT ![h].step = IF peer[h].pairing THEN "idle" ELSE @, ![h].pairing = FALSE]
             /\ UNCHANGED toHost
    <3>1. peer'[h] = [st EXCEPT !.step = IF st.pairing THEN "idle" ELSE @, !.pairing = FALSE]
      BY <1>1, <1>3, <2>6 DEF Shapes
    <3>2. ~st.pairing
      BY <1>3, <2>1, <3>1 DEF Compares, PeerFields
    <3>3. SameEnd(st, peer'[h])
      BY <1>3, <3>1, <3>2 DEF SameEnd, PeerFields
    <3> QED
      BY <2>4, <2>6, <3>3
  <2>7. CASE st.step = "keys" /\ PeerGetsKey(h, msg)
    <3>1. PICK waits, b : peer' = [peer EXCEPT ![h].waits = waits, ![h].step = IF b THEN "idle" ELSE @,
                                              ![h].pairing = IF b THEN FALSE ELSE @]
      BY <2>7 DEF PeerGetsKey
    <3>2. peer'[h].step = IF b THEN "idle" ELSE st.step
      BY <1>1, <1>3, <3>1 DEF Shapes, PeerFields
    <3> QED
      BY <2>1, <2>7, <3>2 DEF Compares
  <2>8. CASE PeerAborts(h)
    <3>1. peer'[h] = [st EXCEPT !.step = "idle", !.pairing = FALSE]
      BY <1>1, <1>3, <2>8 DEF PeerAborts, PeerSays, Shapes
    <3>2. peer'[h].step = "idle"
      BY <1>3, <3>1 DEF PeerFields
    <3> QED
      BY <2>1, <3>2 DEF Compares
  <2>9. CASE PeerGetsCheck(h, msg.value)
    <3>1. CASE PeerStartsEncryption(h, st)
      <4>1. peer'[h].step = "encrypt"
        BY <1>3, <3>1 DEF PeerStartsEncryption, Shapes, PeerFields
      <4> QED
        BY <2>1, <4>1 DEF Compares
    <3> QED
      BY <1>1, <2>8, <2>9, <3>1 DEF PeerGetsCheck
  <2>10. CASE msg.op = "pairing_resp" /\ st.step = "resp" /\ PeerGetsResponse(h)
    <3>1. PICK m, s : m = PeerMethod(st.req) /\ s = [st EXCEPT !.method = m]
      OBVIOUS
    <3>2. s.req = st.req /\ DOMAIN s = PeerFields
      BY <1>3, <3>1 DEF PeerFields
    <3>3. PICK x, msgs : PeerSays(h, [s EXCEPT !.step = x], msgs)
      BY <1>1, <2>10, <3>1 DEF PeerGetsResponse
    <3>4. peer'[h].req = st.req
      BY <1>3, <3>2, <3>3 DEF PeerSays, Shapes, PeerFields
    <3>5. Comparing(h) /\ ComparisonOK(h) /\ IsSecureConnection(s.req)
      BY <2>2, <2>10, <3>2, <3>4 DEF Compares
    <3>6. PICK l : l = Msg("pairing_public_key", Pk(link[h].peer))
      OBVIOUS
    <3>7. PeerSays(h, [s EXCEPT !.step = "pk"], <<l>>)
      BY <1>1, <2>10, <3>1, <3>5, <3>6 DEF PeerGetsResponse
    <3>8. peer'[h].step = "pk"
      BY <1>3, <3>2, <3>7 DEF PeerSays, Shapes, PeerFields
    <3>9. PICK t : /\ Sequence(t) /\ toHost' = toHost \o t
                   /\ Elements(t) = {[type |-> "sm", h |-> h, msg |-> l]}
      BY <1>3, <3>7, SaysMore
    <3>10. Moves(h, t)
      BY <2>3, <3>9
    <3>11. InAir(h, "pairing_resp")
      BY <1>4, <2>10 DEF InAir
    <3> QED
      BY <1>1, <1>3, <2>10, <3>4, <3>5, <3>6, <3>8, <3>9, <3>10, <3>11, ResponseAgrees
  <2>11. CASE msg.op = "pairing_public_key" /\ st.step = "pk" /\ PeerGetsPublicKey(h)
    <3>1. \/ \E x : PeerSays(h, [st EXCEPT !.step = x], <<>>)
          \/ \E r, m : PeerSays(h, [st EXCEPT !.step = "random", !.random = r, !.draws = @ + 1], <<m>>)
      BY <1>1, <2>11 DEF PeerGetsPublicKey, JW, NC, IIRD, IDRI
    <3>2. peer'[h].req = st.req
      <4>1. CASE \E x : PeerSays(h, [st EXCEPT !.step = x], <<>>)
        BY <1>3, <4>1 DEF PeerSays, Shapes, PeerFields
      <4>2. CASE \E r, m : PeerSays(h, [st EXCEPT !.step = "random", !.random = r, !.draws = @ + 1], <<m>>)
        BY <1>3, <4>2 DEF PeerSays, Shapes, PeerFields
      <4> QED
        BY <3>1, <4>1, <4>2
    <3>3. ComparisonOK(h) /\ st.method = NC
      BY <2>2, <2>11, <3>2 DEF Compares
    <3>4. PeerSays(h, [st EXCEPT !.step = "confirm"], <<>>)
      BY <1>1, <2>11, <3>3 DEF PeerGetsPublicKey, JW, NC, IIRD, IDRI
    <3>5. peer'[h].step = "confirm"
      BY <1>3, <3>4 DEF PeerSays, Shapes, PeerFields
    <3>6. PICK t : Sequence(t) /\ toHost' = toHost \o t /\ Elements(t) = {}
      BY <1>3, <3>4, SaysMore
    <3>7. Moves(h, t) /\ InAir(h, "pairing_public_key")
      BY <1>4, <2>3, <2>11, <3>6 DEF InAir
    <3> QED
      BY <1>1, <1>3, <2>11, <3>2, <3>3, <3>5, <3>6, <3>7, PublicKeyAgrees
  <2>12. CASE st.step = "confirm" /\ PeerGetsConfirm(h, msg.value)
    <3>1. PICK s : s = [st EXCEPT !.step = "random", !.confirm = msg.value]
      OBVIOUS
    <3>2. s.step = "random" /\ s.req = st.req /\ DOMAIN s = PeerFields
      BY <1>3, <3>1 DEF PeerFields
    <3>3. PICK r, n, l : /\ l = Msg("pairing_random", r)
                         /\ PeerSays(h, [s EXCEPT !.random = r, !.draws = n], <<l>>)
      BY <1>1, <2>12, <3>1 DEF PeerGetsConfirm
    <3>4. peer'[h].step = "random" /\ peer'[h].req = st.req /\ peer'[h].random = r
      BY <1>3, <3>2, <3>3 DEF PeerSays, Shapes, PeerFields
    <3>5. ComparisonOK(h)
      BY <2>2, <2>12, <3>4 DEF Compares
    <3>6. RandomOf(h)' = [type |-> "sm", h |-> h, msg |-> l]
      BY <3>3, <3>4 DEF RandomOf
    <3>7. PICK t : /\ Sequence(t) /\ toHost' = toHost \o t
                   /\ Elements(t) = {[type |-> "sm", h |-> h, msg |-> l]} /\ Len(t) = 1
      BY <1>3, <3>3, SaysMore
    <3>8. Moves(h, t)
      BY <2>3, <3>7
    <3> QED
      BY <1>1, <1>3, <2>12, <3>4, <3>5, <3>6, <3>7, <3>8, ConfirmAgrees
  <2>13. CASE msg.op = "pairing_random" /\ st.step = "random" /\ PeerGetsRandom(h, msg.value)
    <3>1. PICK s : s = [st EXCEPT !.host_random = msg.value]
      OBVIOUS
    <3>2. s.step = "random" /\ s.req = st.req /\ s.method = st.method /\ s.random = st.random
          /\ s.host_random = msg.value /\ DOMAIN s = PeerFields
      BY <1>3, <2>13, <3>1 DEF PeerFields
    <3>3. \/ PeerAborts(h)
          \/ \E k : PeerStartsEncryption(h, [s EXCEPT !.ltk = k])
          \/ st.method = NC /\ PeerSays(h, [s EXCEPT !.step = "compare"], <<>>)
          \/ st.method # NC /\ \E n : PeerSays(h, [s EXCEPT !.step = "begin", !.round = n], <<>>)
          \/ st.method # NC /\ PeerChecks(h, s)
      <4>1. PICK bit : bit = IF s.method \in {JW, NC} THEN 0 ELSE 128 + Bit(s.tk, s.round)
        OBVIOUS
      <4>2. PICK seen : seen = IF IsSecureConnection(s.req) THEN __sm_f4(HostPk, Pk(link[h].peer), msg.value, bit)
                               ELSE __sm_c1(s.tk, msg.value, s.req, SM_RESP, link[h].addr, LocalAddr)
        OBVIOUS
      <4>3. CASE seen # s.confirm
        BY <1>1, <2>13, <3>1, <4>1, <4>2, <4>3 DEF PeerGetsRandom
      <4>4. CASE seen = s.confirm /\ ~IsSecureConnection(s.req)
        BY <1>1, <2>13, <3>1, <4>1, <4>2, <4>4 DEF PeerGetsRandom
      <4>5. CASE seen = s.confirm /\ IsSecureConnection(s.req) /\ s.method = NC
        BY <1>1, <2>13, <3>1, <3>2, <4>1, <4>2, <4>5 DEF PeerGetsRandom
      <4>6. CASE seen = s.confirm /\ IsSecureConnection(s.req) /\ s.method # NC
        BY <1>1, <2>13, <3>1, <3>2, <4>1, <4>2, <4>6 DEF PeerGetsRandom
      <4> QED
        BY <4>3, <4>4, <4>5, <4>6
    <3>4. CASE \E k : PeerStartsEncryption(h, [s EXCEPT !.ltk = k])
      <4>1. peer'[h].step = "encrypt"
        BY <1>3, <3>2, <3>4 DEF PeerStartsEncryption, Shapes, PeerFields
      <4> QED
        BY <2>1, <4>1 DEF Compares
    <3>5. CASE st.method # NC /\ \E n : PeerSays(h, [s EXCEPT !.step = "begin", !.round = n], <<>>)
      <4>1. peer'[h].req = st.req
        BY <1>3, <3>2, <3>5 DEF PeerSays, Shapes, PeerFields
      <4> QED
        BY <2>2, <2>13, <3>5, <4>1 DEF Compares
    <3>6. CASE PeerChecks(h, s)
      <4>1. PICK k, msgs : PeerSays(h, [s EXCEPT !.step = "check", !.ltk = k], msgs)
        BY <3>6 DEF PeerChecks
      <4>2. peer'[h].step = "check"
        BY <1>3, <3>2, <4>1 DEF PeerSays, Shapes, PeerFields
      <4> QED
        BY <2>1, <4>2 DEF Compares
    <3>7. CASE PeerSays(h, [s EXCEPT !.step = "compare"], <<>>)
      <4>1. /\ peer'[h].step = "compare" /\ peer'[h].req = st.req
            /\ peer'[h].random = st.random /\ peer'[h].host_random = msg.value
        BY <1>3, <3>2, <3>7 DEF PeerSays, Shapes, PeerFields
      <4>2. ComparisonOK(h)
        BY <2>2, <2>13, <4>1 DEF Compares
      <4>3. PICK t : Sequence(t) /\ toHost' = toHost \o t /\ Elements(t) = {}
        BY <1>3, <3>7, SaysMore
      <4>4. Moves(h, t)
        BY <2>3, <4>3
      <4> QED
        BY <1>1, <1>3, <1>4, <2>13, <4>1, <4>2, <4>3, <4>4, RandomAgrees
    <3> QED
      BY <2>8, <3>3, <3>4, <3>5, <3>6, <3>7
  <2> QED
    BY <1>7, <2>5, <2>6, <2>7, <2>8, <2>9, <2>10, <2>11, <2>12, <2>13
<1> QED
  BY <1>2, <1>5, <1>6, <1>8, <1>9, <1>10, PeerAgrees

LEMMA PeerGoesOnAgrees ==
    ASSUME BondsKept, ComparisonsAgree, NEW h \in Handle, PeerGoesOn(h) PROVE ComparisonsAgree'
<1>1. /\ UNCHANGED <<conn, dialog, askedLast, cmd, job, link, air, overlapped>>
      /\ AirOK(air) /\ Sequence(toHost) /\ Shapes
  BY DEF PeerGoesOn, hostVars, ctrlVars, ComparisonsAgree, BondsKept, QueueOK
<1>2. PICK st : st = peer[h]
  OBVIOUS
<1>3. DOMAIN st = PeerFields
  BY <1>2 DEF BondsKept, PeersOK, PeerOK
<1>4. \/ st.step \in {"begin", "enter"} /\ \E tk, round : PeerConfirms(h, tk, round)
      \/ PeerChecks(h, st)
      \/ PeerAborts(h)
  BY <1>2 DEF PeerGoesOn, PeerBegins, PeerEnters, PeerCompares
<1>5. \A g \in Handle : g # h => peer'[g] = peer[g]
  <2>1. \E s : peer' = [peer EXCEPT ![h] = s]
    BY <1>4 DEF PeerConfirms, PeerChecks, PeerAborts, PeerSays
  <2> QED
    BY <1>1, <2>1, FrameOfPeer DEF Shapes
<1>6. ASSUME Comparing(h)' PROVE FALSE
  <2>1. CASE st.step \in {"begin", "enter"} /\ \E tk, round : PeerConfirms(h, tk, round)
    <3>1. PICK tk, round : PeerConfirms(h, tk, round)
      BY <2>1
    <3>2. PICK r, n, msgs : PeerSays(h, [st EXCEPT !.step = "confirm", !.tk = tk, !.round = round,
                                                   !.random = r, !.draws = n], msgs)
      BY <1>2, <3>1 DEF PeerConfirms
    <3>3. peer'[h].req = st.req
      BY <1>1, <1>3, <3>2 DEF PeerSays, Shapes, PeerFields
    <3>4. Comparing(h)
      BY <1>1, <1>2, <1>6, <2>1, <3>3 DEF Comparing
    <3> QED
      BY <1>2, <2>1, <3>4 DEF ComparisonsAgree, ComparisonOK
  <2>2. CASE PeerChecks(h, st)
    <3>1. PICK k, msgs : PeerSays(h, [st EXCEPT !.step = "check", !.ltk = k], msgs)
      BY <2>2 DEF PeerChecks
    <3>2. peer'[h].step = "check"
      BY <1>1, <1>3, <3>1 DEF PeerSays, Shapes, PeerFields
    <3> QED
      BY <1>6, <3>2 DEF Comparing
  <2>3. CASE PeerAborts(h)
    <3>1. peer'[h] = [st EXCEPT !.step = "idle", !.pairing = FALSE]
      BY <1>1, <1>2, <2>3 DEF PeerAborts, PeerSays, Shapes
    <3>2. peer'[h].step = "idle"
      BY <1>3, <3>1 DEF PeerFields
    <3> QED
      BY <1>6, <3>2 DEF Comparing
  <2> QED
    BY <1>4, <2>1, <2>2, <2>3
<1>7. PeerAdds(h)
  BY PeerGoesOnAdds
<1> QED
  BY <1>1, <1>5, <1>6, <1>7, PeerAgrees

\* A pairing that begins while nothing of an earlier one is under way.
LEMMA PeerStartsAgrees ==
    ASSUME BondsKept, ComparisonsAgree, NEW h \in Handle, NEW offer \in Offers, PeerStarts(h, offer)
    PROVE  ComparisonsAgree'
<1>1. /\ UNCHANGED <<conn, dialog, askedLast, cmd, job, link, air>>
      /\ AirOK(air) /\ Sequence(toHost) /\ Shapes /\ DOMAIN peer[h] = PeerFields
      /\ overlapped' = IF Busy(h) THEN overlapped \cup {h} ELSE overlapped
  BY DEF PeerStarts, Begins, hostVars, ctrlVars, ComparisonsAgree, BondsKept, QueueOK, PeersOK, PeerOK
<1>2. PICK l : l = Msg("pairing_req", offer)
  OBVIOUS
<1>3. PeerSays(h, [peer[h] EXCEPT !.step = "resp", !.pairing = TRUE, !.req = offer, !.tk = 0, !.round = 0], <<l>>)
  BY <1>2 DEF PeerStarts
<1>4. peer'[h].step = "resp" /\ peer'[h].req = offer
  BY <1>1, <1>3 DEF PeerSays, Shapes, PeerFields
<1>5. \A g \in Handle : g # h => peer'[g] = peer[g]
  BY <1>1, <1>3, FrameOfPeer DEF PeerSays, Shapes
<1>6. PeerAdds(h)
  BY <1>3, SaysAdds
<1>7. ASSUME Comparing(h)' PROVE ComparisonOK(h)'
  <2>1. ~Busy(h)
    BY <1>1, <1>7 DEF Comparing
  <2>2. PICK e : e = [type |-> "sm", h |-> h, msg |-> l]
    OBVIOUS
  <2>3. PICK t : Sequence(t) /\ toHost' = toHost \o t /\ Elements(t) = {e}
    BY <1>1, <1>3, <2>2, SaysMore
  <2>4. Elements(toHost') = Elements(toHost) \cup {e}
    BY <1>1, <2>3, ElementsJoin
  <2>5. e.type = "sm" /\ e.h = h /\ e.msg.op = "pairing_req" /\ e.msg.value = offer
    BY <1>2, <2>2 DEF Msg
  <2>6. \A f \in Elements(toHost) : f.type = "sm" /\ f.h = h => f.msg.op = "pairing_failed"
    BY <2>1 DEF Busy, Elements
  <2>7. \A f \in Elements(toHost') : /\ IsPacket(f, h, "pairing_req") => f = e
                                     /\ ~IsPacket(f, h, "pairing_public_key")
                                     /\ ~IsPacket(f, h, "pairing_random")
    BY <2>4, <2>5, <2>6 DEF IsPacket
  <2>8. IsPacket(RandomOf(h)', h, "pairing_random")
    BY DEF IsPacket, RandomOf, Msg
  <2>9. PacketsOfComparison(h)'
    BY <1>4, <2>5, <2>7, <2>8, OnceNone DEF PacketsOfComparison
  <2>10. Elements(air'[h]) = {}
    BY <1>1, <2>1, ElementsFew DEF Busy
  <2>11. \A op : ~InAir(h, op)'
    BY <2>10 DEF InAir
  <2>12. ~Asked(h)'
    <3>1. DhkeyUnderWay' => DhkeyUnderWay
      BY <1>1, <2>4, <2>5, UnderWayFrom
    <3> QED
      BY <1>1, <2>1, <3>1 DEF Busy, AwaitsDhkey, Asked
  <2>13. ~CompareOpen(h)'
    BY <1>1, <2>1 DEF Busy, CompareOpen
  <2> QED
    BY <1>4, <2>9, <2>11, <2>12, <2>13 DEF ComparisonOK, KeysOfComparison, NumbersAgree
<1>8. \A g \in Handle : g # h => (g \in overlapped' <=> g \in overlapped)
  BY <1>1
<1> QED
  BY <1>1, <1>5, <1>6, <1>7, <1>8, PeerAgrees

LEMMA PeerEncryptsAgrees ==
    ASSUME BondsKept, ComparisonsAgree, NEW h \in Handle, PeerEncrypts(h) PROVE ComparisonsAgree'
<1>1. /\ UNCHANGED <<conn, dialog, askedLast, cmd, job, link, air>>
      /\ AirOK(air) /\ Sequence(toHost) /\ Shapes /\ DOMAIN peer[h] = PeerFields
      /\ overlapped' = IF Busy(h) THEN overlapped \cup {h} ELSE overlapped
  BY DEF PeerEncrypts, Begins, hostVars, ctrlVars, ComparisonsAgree, BondsKept, QueueOK, PeersOK, PeerOK
<1>2. PICK b : PeerStartsEncryption(h, [peer[h] EXCEPT !.ltk = b.ltk, !.method = b.method])
  BY DEF PeerEncrypts
<1>3. peer'[h].step = "encrypt"
  BY <1>1, <1>2 DEF PeerStartsEncryption, Shapes, PeerFields
<1>4. \A g \in Handle : g # h => peer'[g] = peer[g]
  BY <1>1, <1>2, FrameOfPeer DEF PeerStartsEncryption, Shapes
<1>5. PeerAdds(h)
  BY <1>1, <1>2, EncryptionAdds
<1>6. ~Comparing(h)'
  BY <1>3 DEF Comparing
<1>7. \A g \in Handle : g # h => (g \in overlapped' <=> g \in overlapped)
  BY <1>1
<1> QED
  BY <1>1, <1>4, <1>5, <1>6, <1>7, PeerAgrees

-----------------------------------------------------------------------------
(* Connections and restarts.                                                *)

LEMMA ConnectsAgrees ==
    ASSUME BondsKept, ComparisonsAgree, NEW g \in Handle, NEW p, NEW addr, Connects(g, p, addr)
    PROVE  ComparisonsAgree'
<1>1. PICK e, t : e = [type |-> "conn_complete", h |-> g, link |-> link'[g]] /\ t = <<e>>
  OBVIOUS
<1>2. /\ e.type = "conn_complete" /\ e.h = g /\ toHost' = Append(toHost, e)
      /\ link[g] = None /\ conn[g] = None /\ overlapped' = overlapped \ {g}
      /\ UNCHANGED <<conn, dialog, askedLast, cmd, job, air, peer>>
  BY <1>1 DEF Connects, hostVars, ctrlVars
<1>3. /\ Sequence(toHost) /\ Shapes /\ Silent /\ TurnsOK(toHost, conn, link) /\ AirOK(air)
  BY DEF BondsKept, QueueOK, ComparisonsAgree
<1>4. \A h \in Handle : h # g => link'[h] = link[h]
  BY <1>3 DEF Connects, Shapes
<1>5. link'[g] # None
  <2>1. PICK l : l = [peer |-> p, addr |-> addr, n |-> links + 1]
    OBVIOUS
  <2>2. link'[g] = l
    BY <1>3, <2>1 DEF Connects, Shapes
  <2>3. DOMAIN l # DOMAIN None
    BY <2>1 DEF None
  <2> QED
    BY <2>2, <2>3
<1>6. NoEnd(toHost, g)
  BY DEF Connects, NoEnd, Elements
<1>7. TurnsOK(toHost', conn', link')
  BY <1>2, <1>3, <1>4, <1>5, <1>6, TurnsConnect
<1>8. Sequence(t) /\ Elements(t) = {e} /\ toHost' = toHost \o t
  BY <1>1, <1>2, <1>3, AppendOne, ElementsFew
<1>9. Elements(toHost') = Elements(toHost) \cup {e}
  BY <1>3, <1>8, ElementsJoin
<1>10. DhkeyUnderWay' => DhkeyUnderWay
  BY <1>2, <1>9, UnderWayFrom
<1>11. ASSUME NEW h \in Handle, Comparing(h)' PROVE ComparisonOK(h)'
  <2>1. h # g
    BY <1>2, <1>3, <1>11 DEF Silent, Comparing
  <2>2. ComparisonOK(h)
    BY <1>2, <1>4, <1>11, <2>1 DEF Comparing, ComparisonsAgree
  <2>3. \A f \in Elements(t) : ~Bears(f, h)
    BY <1>2, <1>8, <2>1 DEF Bears, Opening
  <2>4. SameEnd(peer[h], peer'[h])
    BY <1>2 DEF SameEnd
  <2> QED
    BY <1>2, <1>3, <1>4, <1>8, <1>10, <2>1, <2>2, <2>3, <2>4, ComparisonAside
<1> QED
  BY <1>2, <1>3, <1>7, <1>11 DEF ComparisonsAgree

LEMMA QuietAgrees ==
    ASSUME NEW q, NEW cs, NEW lk, q = <<>> PROVE TurnsOK(q, cs, lk)
  BY DEF TurnsOK

LEMMA RestartAgrees == ASSUME Restart PROVE ComparisonsAgree'
<1>1. /\ toHost' = <<>> /\ \A h \in Handle : air'[h] = <<>> /\ link'[h] = None
  BY DEF Restart
<1> QED
  BY <1>1, QuietAgrees, ShortSequences DEF ComparisonsAgree, AirOK, Comparing

LEMMA ComparisonsAgreeInit == Init => ComparisonsAgree
<1> SUFFICES ASSUME Init PROVE ComparisonsAgree
  OBVIOUS
<1>1. toHost = <<>> /\ \A h \in Handle : air[h] = <<>> /\ link[h] = None
  BY DEF Init
<1> QED
  BY <1>1, QuietAgrees, ShortSequences DEF ComparisonsAgree, AirOK, Comparing

LEMMA ComparisonsAgreeNext ==
    ASSUME BondsKept, FailureExplained, ComparisonsAgree, Next PROVE ComparisonsAgree'
<1>1. CASE HostReceives
  BY <1>1, HostReceivesAgrees
<1>2. CASE DialogAnswered
  BY <1>2, DialogAnsweredAgrees
<1>3. CASE ControllerExecutes
  BY <1>3, ControllerExecutesAgrees
<1>4. CASE ControllerComputes
  BY <1>4, ControllerComputesAgrees
<1>5. CASE \E h \in Handle : PeerReceives(h)
  BY <1>5, PeerReceivesAgrees
<1>6. CASE \E h \in Handle : PeerGoesOn(h)
  BY <1>6, PeerGoesOnAgrees
<1>7. CASE \E h \in Handle, offer \in Offers : PeerStarts(h, offer)
  BY <1>7, PeerStartsAgrees
<1>8. CASE \E h \in Handle : PeerEncrypts(h)
  BY <1>8, PeerEncryptsAgrees
<1>9. CASE \E h \in Handle, p \in Peer : \E addr \in AddressesOf(p) : Connects(h, p, addr)
  BY <1>9, ConnectsAgrees
<1>10. CASE \E h \in Handle : LinkLost(h)
  BY <1>10, LinkLostAgrees
<1>11. CASE Restart
  BY <1>11, RestartAgrees
<1> QED
  BY <1>1, <1>2, <1>3, <1>4, <1>5, <1>6, <1>7, <1>8, <1>9, <1>10, <1>11 DEF Next

LEMMA ComparisonsAgreeStutters ==
    ASSUME ComparisonsAgree, UNCHANGED vars PROVE ComparisonsAgree'
<1>1. UNCHANGED <<conn, dialog, askedLast, cmd, job, toHost, link, air, peer, overlapped>>
  BY DEF vars, hostVars, ctrlVars, peerVars, history
<1>2. TurnsOK(toHost', conn', link') /\ AirOK(air')
  BY <1>1 DEF ComparisonsAgree
<1>3. ASSUME NEW h \in Handle, Comparing(h)' PROVE ComparisonOK(h)'
  <2>1. ComparisonOK(h)
    BY <1>1, <1>3 DEF Comparing, ComparisonsAgree
  <2>2. PacketsOfComparison(h)'
    BY <1>1, <2>1 DEF ComparisonOK, PacketsOfComparison, RandomOf
  <2>3. KeysOfComparison(h)'
    BY <1>1, <2>1 DEF ComparisonOK, KeysOfComparison, Agreed, HasKey, Asked, InAir, DhkeyUnderWay
  <2>4. NumbersAgree(h)'
    BY <1>1, <2>1 DEF ComparisonOK, NumbersAgree, InAir, CompareOpen, NumberOf, RandomOf
  <2> QED
    BY <1>1, <2>1, <2>2, <2>3, <2>4 DEF ComparisonOK
<1> QED
  BY <1>2, <1>3 DEF ComparisonsAgree

\* The user is asked to compare a number of a connection.
ComparesLink(d) == d # None /\ d.kind = "compare" => d.h \in Handle

LEMMA ComparesLinkNext ==
    ASSUME BondsKept, ComparisonsAgree, ComparesLink(dialog), Next PROVE ComparesLink(dialog')
<1>1. CASE HostReceives
  <2>1. PICK e : e = Head(toHost)
    OBVIOUS
  <2>2. e.type \in Within => e.h \in Handle /\ conn[e.h] # None
    BY <1>1, <2>1, HostReceivesTakes
  <2>3. Shapes /\ ConnsOK /\ AirOK(air)
    BY DEF BondsKept, ComparisonsAgree
  <2>4. CASE e.type = "sm"
    <3>1. sm_recv(e.h, e.msg) /\ e.h \in Handle /\ ConnOK(conn[e.h])
      BY <1>1, <2>1, <2>2, <2>3, <2>4 DEF HostReceives, ConnsOK, Within
    <3> QED
      BY <2>3, <3>1, PacketTouches DEF Touches, ComparesLink
  <2>5. CASE e.type = "generate_dhkey"
    <3>1. sm_recv_evt_le_generate_dhkey_complete(e)
      BY <1>1, <2>1, <2>5 DEF HostReceives
    <3> QED
      BY <2>3, <3>1, DhkeyTouches DEF ComparesLink
  <2>6. CASE e.type \notin {"sm", "generate_dhkey"}
    <3>1. dialog' = None
      BY <1>1, <2>1, <2>6 DEF HostReceives, sm_recv_evt_le_ltk_req, sm_recv_evt_encryption_change, OtherEvent, NoDialog
    <3> QED
      BY <3>1 DEF ComparesLink
  <2> QED
    BY <2>4, <2>5, <2>6
<1>2. CASE DialogAnswered \/ Restart
  <2>1. dialog' = None
    BY <1>2 DEF DialogAnswered, Restart
  <2> QED
    BY <2>1 DEF ComparesLink
<1>3. CASE ~(HostReceives \/ DialogAnswered \/ Restart)
  <2>1. dialog' = dialog
    BY <1>3 DEF Next, ControllerExecutes, ControllerComputes, PeerReceives, PeerGoesOn, PeerStarts,
                PeerEncrypts, Connects, LinkLost, hostVars
  <2> QED
    BY <2>1
<1> QED
  BY <1>1, <1>2, <1>3

\* The number the host's user is asked to compare is the one the peer shows: the host has
\* answered the request, and has the peer's public key and its one random value, before it
\* shows a number, and the peer has the host's random value before it does
\* (__sm_recv_pairing_random).
THEOREM ComparisonsShowSame == Spec => []ComparisonShowsSame
<1> DEFINE IInv == ComparisonsAgree /\ ComparesLink(dialog)
<1>1. BondsKept /\ IInv => ComparisonShowsSame
  <2> SUFFICES ASSUME BondsKept, IInv, NEW h, h = dialog.h, CompareOpen(h),
                      link[h] # None, peer[h].step = "compare", h \notin overlapped
               PROVE  dialog.number = __sm_g2(Pk(link[h].peer), HostPk, peer[h].random, peer[h].host_random)
    BY DEF ComparisonShowsSame, CompareOpen
  <2>1. h \in Handle
    BY DEF CompareOpen, ComparesLink
  <2>2. IsSecureConnection(peer[h].req) /\ PeerMethod(peer[h].req) = NC
    BY <2>1 DEF BondsKept, PeersOK, PeerOK
  <2>3. NumbersAgree(h)
    BY <2>1, <2>2 DEF ComparisonsAgree, Comparing, ComparisonOK
  <2> QED
    BY <2>3 DEF NumbersAgree, NumberOf
<1>2. Init => IInv
  BY ComparisonsAgreeInit DEF Init, ComparesLink
<1>3. BondsKept /\ FailureExplained /\ IInv /\ [Next]_vars => IInv'
  <2>1. ASSUME BondsKept, FailureExplained, IInv, Next PROVE IInv'
    BY <2>1, ComparisonsAgreeNext, ComparesLinkNext
  <2>2. ASSUME IInv, UNCHANGED vars PROVE IInv'
    <3>1. dialog' = dialog
      BY <2>2 DEF vars, hostVars
    <3> QED
      BY <2>2, <3>1, ComparisonsAgreeStutters
  <2> QED
    BY <2>1, <2>2
<1> QED
  BY <1>1, <1>2, <1>3, PairingsConsistent, FailuresExplained, PTL DEF Spec

-----------------------------------------------------------------------------
(* The number of the passkey's bit, and the types of the fields.            *)

\* A pairing with a passkey, agreed on bit by bit, as the peer and as the host see it.
Passkeyed(req) == IsSecureConnection(req) /\ PeerMethod(req) \in {IIRD, IDRI}
Passing(c)     == c.sc /\ c.method \in {IIRD, IDRI}

InQueue(q, h, op)   == \E e \in Elements(q) : IsPacket(e, h, op)
AtMostOne(q, h, op) == \A i, j \in DOMAIN q : IsPacket(q[i], h, op) /\ IsPacket(q[j], h, op) => i = j

\* One random value at most is on its way to the peer.
Lone(a) == \A i, j \in DOMAIN a : a[i].op = "pairing_random" /\ a[j].op = "pairing_random" => i = j

\* The peer hears that the pairing failed before it could go on to the next bit.
Quits(a) ==
    \E i \in DOMAIN a : /\ a[i].op = "pairing_failed"
                        /\ \A j \in 1 .. i - 1 : a[j].op \notin {"pairing_confirm", "pairing_random"}

\* The host's user is asked for the passkey.
Typing(h) == dialog # None /\ dialog.kind = "sc_input" /\ dialog.h = h

\* The host's user is asked for the passkey of a pairing that is not a secure connection.
OldInput(h) == dialog # None /\ dialog.kind = "legacy_input" /\ dialog.h = h

\* The number of the bit stays in its range, whoever may still be pairing.
IndexKept(h) ==
    /\ AtMostOne(toHost, h, "pairing_random") /\ AtMostOne(toHost, h, "pairing_req")
    /\ InQueue(toHost, h, "pairing_random") =>
          /\ ~InQueue(toHost, h, "pairing_req") /\ \A e \in Elements(toHost) : ~Opening(e, h)
          /\ conn[h] # None /\ Passing(conn[h]) => conn[h].passkey_index < PasskeyBits
    /\ conn[h] # None => conn[h].passkey_index <= PasskeyBits

\* The peer under h is in the part of a pairing that ends with the last random value.
Live(h) == link[h] # None /\ peer[h].step \in {"resp", "pk", "enter", "begin", "confirm", "random"}

\* The host has answered the request the peer is about.
Matched(h) ==
    /\ conn[h] # None /\ conn[h].sc = IsSecureConnection(peer[h].req)
    /\ conn[h].sc => conn[h].method = PeerMethod(peer[h].req)
    /\ ~InQueue(toHost, h, "pairing_req") /\ \A e \in Elements(toHost) : ~Opening(e, h)

\* The host is not ahead of the peer by more than the bit whose random value it has.
InRound(h) ==
    /\ peer[h].round \in 0 .. PasskeyBits - 1
    /\ conn[h].passkey_index <=
          peer[h].round + (IF peer[h].step = "random" /\ ~InQueue(toHost, h, "pairing_random") THEN 1 ELSE 0)

RoundOK(h) ==
    /\ peer[h].pairing
    /\ \A e \in Elements(toHost) : IsPacket(e, h, "pairing_req") => e.msg.value = peer[h].req
    /\ peer[h].step = "resp" =>
          ~Asked(h) /\ ~InQueue(toHost, h, "pairing_public_key") /\ ~InAir(h, "pairing_public_key")
    /\ peer[h].step # "resp" \/ InAir(h, "pairing_resp") => Matched(h)
    /\ peer[h].step # "random" => ~InQueue(toHost, h, "pairing_random")
    /\ \/ Quits(air[h])
       \/ /\ Lone(air[h])
          /\ InAir(h, "pairing_random") => peer[h].step = "random" /\ ~InQueue(toHost, h, "pairing_random")

\* Before the first bit the number is set to zero, unless the user gives up.
PasskeyOK(h) ==
    /\ peer[h].step \in {"resp", "pk"} =>
          /\ ~InAir(h, "pairing_confirm") /\ ~InQueue(toHost, h, "pairing_confirm") /\ ~OldInput(h)
          /\ InAir(h, "pairing_public_key") => Quits(air[h]) \/ Typing(h) \/ conn[h].passkey_index = 0
    /\ peer[h].step \in {"resp", "pk", "enter"} => peer[h].round = 0
    /\ peer[h].step \notin {"resp", "pk"} =>
          \/ Quits(air[h])
          \/ /\ Typing(h) /\ peer[h].step # "random" /\ peer[h].round = 0
             /\ ~InAir(h, "pairing_confirm")
          \/ InRound(h)

PairingOK(h) == RoundOK(h) /\ (Passkeyed(peer[h].req) => PasskeyOK(h))

\* The fields the handlers set have their types.
ConnTyped(c) ==
    /\ c.method \in sm_pairing_method_t /\ c.passkey_index \in Nat
    /\ c.is_encrypted \in 0 .. 1 /\ c.is_authenticated \in 0 .. 1 /\ c.received \subseteq KeyOp
FieldsTyped ==
    /\ up \in BOOLEAN /\ allowed \in 0 .. 1
    /\ \A i \in DOMAIN db : db[i].pairing_method \in sm_pairing_method_t
    /\ \A h \in Handle : conn[h] # None => ConnTyped(conn[h])
    /\ \A e \in Elements(toHost) : e.type = "sm" /\ e.msg.op = "pairing_req" => e.msg.value \in Offers

RoundsAgree ==
    /\ FieldsTyped
    /\ \A h \in Handle : h \notin overlapped => IndexKept(h) /\ (Live(h) => PairingOK(h))

-----------------------------------------------------------------------------
(* Sequences with at most one element of a kind.                            *)

Sole(q, X) == \A i, j \in DOMAIN q : q[i] \in X /\ q[j] \in X => i = j

LEMMA SoleTail ==
    ASSUME NEW q, Sequence(q), q # <<>>, NEW X, Sole(q, X)
    PROVE  Sole(Tail(q), X) /\ (Head(q) \in X => \A x \in Elements(Tail(q)) : x \notin X)
<1>1. PICK n \in Nat : n = Len(q) /\ n > 0
  BY TailFacts
<1>2. /\ DOMAIN Tail(q) = 1 .. n - 1 /\ DOMAIN q = 1 .. n
      /\ \A i \in 1 .. n - 1 : Tail(q)[i] = q[i + 1]
      /\ Head(q) = q[1]
  BY <1>1, TailFacts
<1>3. ASSUME NEW i \in 1 .. n - 1, NEW j \in 1 .. n - 1, Tail(q)[i] \in X, Tail(q)[j] \in X PROVE i = j
  <2>1. i + 1 \in 1 .. n /\ j + 1 \in 1 .. n
    OBVIOUS
  <2>2. i + 1 = j + 1
    BY <1>2, <1>3, <2>1 DEF Sole
  <2> QED
    BY <2>2
<1>4. ASSUME Head(q) \in X, NEW i \in 1 .. n - 1, Tail(q)[i] \in X PROVE FALSE
  <2>1. i + 1 \in 1 .. n /\ 1 \in 1 .. n /\ i + 1 # 1
    BY <1>1
  <2> QED
    BY <1>2, <1>4, <2>1 DEF Sole
<1> QED
  BY <1>2, <1>3, <1>4 DEF Sole, Elements

LEMMA SoleJoin ==
    ASSUME NEW q, NEW t, Sequence(q), Sequence(t), NEW X,
           \/ Sole(q, X) /\ \A x \in Elements(t) : x \notin X
           \/ Sole(t, X) /\ \A x \in Elements(q) : x \notin X
    PROVE  Sole(q \o t, X)
<1>1. PICK s, n, m : s = q \o t /\ n = Len(q) /\ m = Len(t)
  OBVIOUS
<1>2. /\ n \in Nat /\ m \in Nat /\ DOMAIN s = 1 .. n + m
      /\ DOMAIN q = 1 .. n /\ DOMAIN t = 1 .. m
      /\ \A i \in 1 .. n : s[i] = q[i]
      /\ \A i \in 1 .. m : s[n + i] = t[i]
  BY <1>1, ConcatFacts, SequenceFacts
<1>3. ASSUME NEW i \in 1 .. n + m, i \notin 1 .. n PROVE i - n \in 1 .. m /\ s[i] = t[i - n]
  <2>1. i - n \in 1 .. m /\ n + (i - n) = i
    BY <1>2, <1>3
  <2> QED
    BY <1>2, <2>1
<1>4. CASE Sole(q, X) /\ \A x \in Elements(t) : x \notin X
  <2>1. \A i \in 1 .. n + m : s[i] \in X => i \in 1 .. n
    BY <1>2, <1>3, <1>4 DEF Elements
  <2> QED
    BY <1>1, <1>2, <1>4, <2>1 DEF Sole
<1>5. CASE Sole(t, X) /\ \A x \in Elements(q) : x \notin X
  <2>1. \A i \in 1 .. n + m : s[i] \in X => i \notin 1 .. n
    BY <1>2, <1>5 DEF Elements
  <2>2. ASSUME NEW i \in 1 .. n + m, NEW j \in 1 .. n + m, s[i] \in X, s[j] \in X PROVE i = j
    <3>1. i - n = j - n
      BY <1>2, <1>3, <1>5, <2>1, <2>2 DEF Sole
    <3> QED
      BY <1>2, <3>1
  <2> QED
    BY <1>1, <1>2, <2>2 DEF Sole
<1> QED
  BY <1>4, <1>5

\* the packets of a kind among some events
Kind(E, h, op) == {e \in E : IsPacket(e, h, op)}

LEMMA AtMostOneSole ==
    ASSUME NEW q, NEW E, Elements(q) \subseteq E, NEW h, NEW op
    PROVE  /\ AtMostOne(q, h, op) <=> Sole(q, Kind(E, h, op))
           /\ InQueue(q, h, op) <=> \E e \in Elements(q) : e \in Kind(E, h, op)
<1>1. \A i \in DOMAIN q : q[i] \in E
  BY DEF Elements
<1>2. \A i \in DOMAIN q : IsPacket(q[i], h, op) <=> q[i] \in Kind(E, h, op)
  BY <1>1 DEF Kind
<1>3. \A e \in Elements(q) : IsPacket(e, h, op) <=> e \in Kind(E, h, op)
  BY DEF Kind
<1>4. AtMostOne(q, h, op) <=> Sole(q, Kind(E, h, op))
  BY <1>2 DEF AtMostOne, Sole
<1> QED
  BY <1>3, <1>4 DEF InQueue

LEMMA AtMostOneTail ==
    ASSUME NEW q, Sequence(q), q # <<>>, NEW h, NEW op, AtMostOne(q, h, op)
    PROVE  /\ AtMostOne(Tail(q), h, op)
           /\ IsPacket(Head(q), h, op) => ~InQueue(Tail(q), h, op)
           /\ InQueue(Tail(q), h, op) => InQueue(q, h, op)
<1>1. PICK X, t : X = Kind(Elements(q), h, op) /\ t = Tail(q)
  OBVIOUS
<1>2. Elements(t) \subseteq Elements(q) /\ Head(q) \in Elements(q)
  BY <1>1, ElementsTail
<1>3. Sole(q, X)
  BY <1>1, AtMostOneSole
<1>4. Sole(t, X) /\ (Head(q) \in X => \A x \in Elements(t) : x \notin X)
  BY <1>1, <1>3, SoleTail
<1>5. AtMostOne(t, h, op) /\ (InQueue(t, h, op) <=> \E e \in Elements(t) : e \in X)
  BY <1>1, <1>2, <1>4, AtMostOneSole
<1>6. IsPacket(Head(q), h, op) => Head(q) \in X
  BY <1>1, <1>2 DEF Kind
<1>7. InQueue(t, h, op) => InQueue(q, h, op)
  BY <1>2 DEF InQueue
<1> QED
  BY <1>1, <1>4, <1>5, <1>6, <1>7

LEMMA AtMostOneJoin ==
    ASSUME NEW q, NEW t, Sequence(q), Sequence(t), NEW h, NEW op,
           \/ AtMostOne(q, h, op) /\ ~InQueue(t, h, op)
           \/ AtMostOne(t, h, op) /\ ~InQueue(q, h, op)
    PROVE  AtMostOne(q \o t, h, op)
<1>1. PICK s, X : s = q \o t /\ X = Kind(Elements(s), h, op)
  OBVIOUS
<1>2. Elements(s) = Elements(q) \cup Elements(t)
  BY <1>1, ElementsJoin
<1>3. Elements(q) \subseteq Elements(s) /\ Elements(t) \subseteq Elements(s)
  BY <1>2
<1>4. /\ AtMostOne(q, h, op) => Sole(q, X)
      /\ ~InQueue(q, h, op) => \A e \in Elements(q) : e \notin X
  BY <1>1, <1>3, AtMostOneSole
<1>5. /\ AtMostOne(t, h, op) => Sole(t, X)
      /\ ~InQueue(t, h, op) => \A e \in Elements(t) : e \notin X
  BY <1>1, <1>3, AtMostOneSole
<1>6. Sole(s, X)
  BY <1>1, <1>4, <1>5, SoleJoin
<1> QED
  BY <1>1, <1>6, AtMostOneSole

\* What a peer that quits does not get before it hears of the failure, whatever comes behind it.
LEMMA QuitsJoin ==
    ASSUME NEW a, NEW t, Sequence(a), Sequence(t), Quits(a)
    PROVE  Quits(a \o t)
<1>1. PICK s, n : s = a \o t /\ n = Len(a)
  OBVIOUS
<1>2. /\ n \in Nat /\ DOMAIN a = 1 .. n /\ 1 .. n \subseteq DOMAIN s
      /\ \A i \in 1 .. n : s[i] = a[i]
  BY <1>1, ConcatFacts, SequenceFacts
<1>3. PICK i \in 1 .. n : /\ a[i].op = "pairing_failed"
                          /\ \A j \in 1 .. i - 1 : a[j].op \notin {"pairing_confirm", "pairing_random"}
  BY <1>2 DEF Quits
<1>4. \A j \in 1 .. i - 1 : j \in 1 .. n
  BY <1>2
<1>5. \A j \in 1 .. i - 1 : s[j].op \notin {"pairing_confirm", "pairing_random"}
  BY <1>2, <1>3, <1>4
<1>6. i \in DOMAIN s /\ s[i].op = "pairing_failed"
  BY <1>2, <1>3
<1> QED
  BY <1>1, <1>5, <1>6 DEF Quits

LEMMA QuitsTail ==
    ASSUME NEW a, Sequence(a), Quits(a)
    PROVE  /\ a # <<>> /\ Head(a).op \notin {"pairing_confirm", "pairing_random"}
           /\ Head(a).op # "pairing_failed" => Quits(Tail(a))
<1>1. PICK n \in Nat : n = Len(a) /\ DOMAIN a = 1 .. n
  BY SequenceFacts
<1>2. PICK i \in 1 .. n : /\ a[i].op = "pairing_failed"
                          /\ \A j \in 1 .. i - 1 : a[j].op \notin {"pairing_confirm", "pairing_random"}
  BY <1>1 DEF Quits
<1>3. a # <<>>
  BY <1>1, <1>2, SequenceFacts
<1>4. /\ DOMAIN Tail(a) = 1 .. n - 1 /\ Head(a) = a[1]
      /\ \A k \in 1 .. n - 1 : Tail(a)[k] = a[k + 1]
  BY <1>1, <1>3, TailFacts
<1>5. Head(a).op \notin {"pairing_confirm", "pairing_random"}
  <2>1. CASE i = 1
    BY <1>2, <1>4, <2>1
  <2>2. CASE i # 1
    <3>1. 1 \in 1 .. i - 1
      BY <2>2
    <3> QED
      BY <1>2, <1>4, <3>1
  <2> QED
    BY <2>1, <2>2
<1>6. ASSUME Head(a).op # "pairing_failed" PROVE Quits(Tail(a))
  <2>1. i # 1
    BY <1>2, <1>4, <1>6
  <2>2. i - 1 \in 1 .. n - 1 /\ (i - 1) + 1 = i
    BY <2>1
  <2>3. Tail(a)[i - 1].op = "pairing_failed"
    BY <1>2, <1>4, <2>2
  <2>4. ASSUME NEW j \in 1 .. (i - 1) - 1
        PROVE  Tail(a)[j].op \notin {"pairing_confirm", "pairing_random"}
    <3>1. j \in 1 .. n - 1 /\ j + 1 \in 1 .. i - 1
      OBVIOUS
    <3> QED
      BY <1>2, <1>4, <3>1
  <2> QED
    BY <1>4, <2>2, <2>3, <2>4 DEF Quits
<1> QED
  BY <1>3, <1>5, <1>6

LEMMA QuitsNew ==
    ASSUME NEW a, Sequence(a), NEW m, m.op = "pairing_failed",
           \A x \in Elements(a) : x.op \notin {"pairing_confirm", "pairing_random"}
    PROVE  Quits(a \o <<m>>)
<1>1. PICK s, t, n : s = a \o t /\ t = <<m>> /\ n = Len(a)
  OBVIOUS
<1>2. Sequence(t) /\ Len(t) = 1 /\ t[1] = m
  BY <1>1, ShortSequences
<1>3. /\ n \in Nat /\ DOMAIN s = 1 .. n + 1 /\ DOMAIN a = 1 .. n
      /\ \A i \in 1 .. n : s[i] = a[i]
      /\ s[n + 1] = m
  BY <1>1, <1>2, ConcatFacts, SequenceFacts
<1>4. \A j \in 1 .. (n + 1) - 1 : s[j].op \notin {"pairing_confirm", "pairing_random"}
  BY <1>3 DEF Elements
<1>5. n + 1 \in DOMAIN s
  BY <1>3
<1> QED
  BY <1>1, <1>3, <1>4, <1>5 DEF Quits

\* the random values among some packets
Randoms(E) == {m \in E : m.op = "pairing_random"}

LEMMA LoneSole ==
    ASSUME NEW a, NEW E, Elements(a) \subseteq E PROVE Lone(a) <=> Sole(a, Randoms(E))
<1>1. \A i \in DOMAIN a : a[i] \in E
  BY DEF Elements
<1>2. \A i \in DOMAIN a : a[i].op = "pairing_random" <=> a[i] \in Randoms(E)
  BY <1>1 DEF Randoms
<1> QED
  BY <1>2 DEF Lone, Sole

LEMMA LoneTail ==
    ASSUME NEW a, Sequence(a), a # <<>>, Lone(a)
    PROVE  /\ Lone(Tail(a))
           /\ Head(a).op = "pairing_random" => \A m \in Elements(Tail(a)) : m.op # "pairing_random"
<1>1. PICK X, t : X = Randoms(Elements(a)) /\ t = Tail(a)
  OBVIOUS
<1>2. Elements(t) \subseteq Elements(a) /\ Head(a) \in Elements(a)
  BY <1>1, ElementsTail
<1>3. Sole(a, X)
  BY <1>1, LoneSole
<1>4. Sole(t, X) /\ (Head(a) \in X => \A x \in Elements(t) : x \notin X)
  BY <1>1, <1>3, SoleTail
<1>5. Lone(t)
  BY <1>1, <1>2, <1>4, LoneSole
<1>6. /\ Head(a).op = "pairing_random" => Head(a) \in X
      /\ \A m \in Elements(t) : m.op = "pairing_random" => m \in X
  BY <1>1, <1>2 DEF Randoms
<1> QED
  BY <1>1, <1>4, <1>5, <1>6

LEMMA LoneJoin ==
    ASSUME NEW a, NEW t, Sequence(a), Sequence(t),
           \/ Lone(a) /\ \A m \in Elements(t) : m.op # "pairing_random"
           \/ Lone(t) /\ \A m \in Elements(a) : m.op # "pairing_random"
    PROVE  Lone(a \o t)
<1>1. PICK s, X : s = a \o t /\ X = Randoms(Elements(s))
  OBVIOUS
<1>2. Elements(s) = Elements(a) \cup Elements(t)
  BY <1>1, ElementsJoin
<1>3. Elements(a) \subseteq Elements(s) /\ Elements(t) \subseteq Elements(s)
  BY <1>2
<1>4. (Lone(a) => Sole(a, X)) /\ (Lone(t) => Sole(t, X))
  BY <1>1, <1>3, LoneSole
<1>5. \A m \in X : m.op = "pairing_random"
  BY <1>1 DEF Randoms
<1>6. Sole(s, X)
  BY <1>1, <1>4, <1>5, SoleJoin
<1> QED
  BY <1>1, <1>6, LoneSole

-----------------------------------------------------------------------------
(* What the handlers of the host do to the fields of a connection.          *)

\* The host goes on with connection c under h and sends packets of the kinds ops.
Utters(h, c, ops) ==
    \E msgs : /\ Sequence(msgs) /\ Lone(msgs) /\ \A m \in Elements(msgs) : m.op \in ops
              /\ Goes(h, c, msgs)

\* what is then on its way to the peer
AirFrom(h, ops) ==
    /\ Quits(air[h]) => Quits(air'[h])
    /\ \A m \in Elements(air'[h]) : m \in Elements(air[h]) \/ m.op \in ops
    /\ Lone(air[h]) /\ ("pairing_random" \notin ops \/ ~InAir(h, "pairing_random")) => Lone(air'[h])

LEMMA UttersFew ==
    ASSUME NEW h, NEW c, NEW msgs, NEW ops, Goes(h, c, msgs),
           \/ msgs = <<>>
           \/ \E m : msgs = <<m>> /\ m.op \in ops
           \/ \E m, l : msgs = <<m, l>> /\ {m.op, l.op} \subseteq ops /\ l.op # "pairing_random"
    PROVE  Utters(h, c, ops)
<1>1. CASE msgs = <<>>
  BY <1>1, ShortSequences, ElementsFew DEF Utters, Lone
<1>2. CASE \E m : msgs = <<m>> /\ m.op \in ops
  <2>1. PICK m : msgs = <<m>> /\ m.op \in ops
    BY <1>2
  <2>2. Sequence(msgs) /\ Len(msgs) = 1
    BY <2>1, ShortSequences
  <2>3. DOMAIN msgs = 1 .. 1
    BY <2>2, SequenceFacts
  <2>4. Lone(msgs)
    BY <2>3 DEF Lone
  <2>5. Elements(msgs) = {m}
    BY <2>1, ElementsFew
  <2> QED
    BY <2>1, <2>2, <2>4, <2>5 DEF Utters
<1>3. CASE \E m, l : msgs = <<m, l>> /\ {m.op, l.op} \subseteq ops /\ l.op # "pairing_random"
  <2>1. PICK m, l : msgs = <<m, l>> /\ {m.op, l.op} \subseteq ops /\ l.op # "pairing_random"
    BY <1>3
  <2>2. Sequence(msgs) /\ Len(msgs) = 2 /\ msgs[2] = l
    BY <2>1, ShortSequences
  <2>3. DOMAIN msgs = 1 .. 2
    BY <2>2, SequenceFacts
  <2>4. \A i \in 1 .. 2 : i = 1 \/ i = 2
    OBVIOUS
  <2>5. Lone(msgs)
    BY <2>1, <2>2, <2>3, <2>4 DEF Lone
  <2>6. Elements(msgs) = {m, l}
    BY <2>1, ElementsFew
  <2> QED
    BY <2>1, <2>2, <2>5, <2>6 DEF Utters
<1> QED
  BY <1>1, <1>2, <1>3

LEMMA UttersHeard ==
    ASSUME Shapes, AirOK(air), NEW h \in Handle, NEW c, NEW ops, Utters(h, c, ops)
    PROVE  /\ conn'[h] = c /\ AirFrom(h, ops)
           /\ \A g \in Handle : g # h => conn'[g] = conn[g] /\ air'[g] = air[g]
<1>1. PICK msgs : /\ Sequence(msgs) /\ Lone(msgs) /\ \A m \in Elements(msgs) : m.op \in ops
                  /\ Goes(h, c, msgs)
  BY DEF Utters
<1>2. conn'[h] = c /\ \A g \in Handle : g # h => conn'[g] = conn[g]
  BY <1>1 DEF Goes, Shapes
<1>3. air' = IF link[h] = None THEN air ELSE [air EXCEPT ![h] = @ \o msgs]
  BY <1>1 DEF Goes, sm_send
<1>4. PICK a, b : a = air[h] /\ b = a \o msgs
  OBVIOUS
<1>5. \A g \in Handle : g # h => air'[g] = air[g]
  BY <1>3 DEF Shapes
<1>6. air'[h] = a \/ air'[h] = b
  BY <1>3, <1>4 DEF Shapes
<1>7. Sequence(a)
  BY <1>4 DEF AirOK
<1>8. Quits(a) => Quits(b)
  BY <1>1, <1>4, <1>7, QuitsJoin
<1>9. Elements(b) = Elements(a) \cup Elements(msgs)
  BY <1>1, <1>4, <1>7, ElementsJoin
<1>10. Lone(a) /\ ("pairing_random" \notin ops \/ ~InAir(h, "pairing_random")) => Lone(b)
  <2> SUFFICES ASSUME Lone(a), "pairing_random" \notin ops \/ ~InAir(h, "pairing_random") PROVE Lone(b)
    OBVIOUS
  <2>1. \/ \A m \in Elements(msgs) : m.op # "pairing_random"
        \/ \A m \in Elements(a) : m.op # "pairing_random"
    BY <1>1, <1>4 DEF InAir
  <2> QED
    BY <1>1, <1>4, <1>7, <2>1, LoneJoin
<1>11. AirFrom(h, ops)
  BY <1>1, <1>4, <1>6, <1>8, <1>9, <1>10 DEF AirFrom
<1> QED
  BY <1>2, <1>5, <1>11

\* A connection whose typed fields stay.
Steady(c, c2) ==
    /\ c2.sc = c.sc /\ c2.method = c.method /\ c2.passkey_index = c.passkey_index
    /\ c2.is_encrypted = c.is_encrypted /\ c2.is_authenticated = c.is_authenticated /\ c2.received = c.received

\* The number of the bit and the agreement stay.
Settles(h, ops) ==
    \E c : /\ Utters(h, c, ops) /\ c.sc = conn[h].sc /\ c.method = conn[h].method
           /\ c.passkey_index = conn[h].passkey_index
           /\ ConnTyped(conn[h]) => ConnTyped(c)

LEMMA SteadySettles ==
    ASSUME NEW h, NEW c, NEW ops, Steady(conn[h], c), Utters(h, c, ops) PROVE Settles(h, ops)
  BY DEF Steady, Settles, ConnTyped

LEMMA MethodTyped ==
    ASSUME NEW req \in Offers PROVE __sm_get_pairing_method(req) \in sm_pairing_method_t
<1>1. req.iocap \in 0 .. 4
  BY SmAssumption
<1>2. PICK i : i = req.iocap + 1 /\ i \in 1 .. 5
  BY <1>1
<1>3. i = 1 \/ i = 2 \/ i = 3 \/ i = 4 \/ i = 5
  BY <1>2
<1>4. SM_RESP.iocap + 1 = 5
  BY DEF SM_RESP, SM_IOCAP
<1>5. legacy_pairing_method_table[5][i] \in sm_pairing_method_t
  BY <1>3 DEF legacy_pairing_method_table, sm_pairing_method_t
<1>6. secure_connection_pairing_method_table[5][i] \in sm_pairing_method_t
  BY <1>3 DEF secure_connection_pairing_method_table, sm_pairing_method_t
<1>7. "OOB" \in sm_pairing_method_t
  BY DEF sm_pairing_method_t
<1> QED
  BY <1>2, <1>4, <1>5, <1>6, <1>7 DEF __sm_get_pairing_method

LEMMA RequestTypes ==
    ASSUME NEW h \in Handle, ConnOK(conn[h]), NEW req, __sm_recv_pairing_req(h, req)
    PROVE  \E c : /\ Utters(h, c, {"pairing_resp"})
                  /\ c.sc = IsSecureConnection(req) /\ c.method = __sm_get_pairing_method(req)
                  /\ c.passkey_index = conn[h].passkey_index
                  /\ req \in Offers /\ ConnTyped(conn[h]) => ConnTyped(c)
<1> DEFINE c0 == [conn[h] EXCEPT !.req = req, !.responded = TRUE, !.method = __sm_get_pairing_method(req),
                                 !.sc = IsSecureConnection(req)]
           Good(c) == /\ c.sc = IsSecureConnection(req) /\ c.method = __sm_get_pairing_method(req)
                      /\ c.passkey_index = conn[h].passkey_index
                      /\ c.is_encrypted = conn[h].is_encrypted /\ c.is_authenticated = conn[h].is_authenticated
                      /\ c.received = conn[h].received
<1>1. PICK c : c = c0
  OBVIOUS
<1>2. PICK s, m : s = IsSecureConnection(req) /\ m = __sm_get_pairing_method(req)
  OBVIOUS
<1>3. DOMAIN c = ConnFields /\ Good(c)
  BY <1>1, <1>2 DEF ConnOK, ConnFields
<1>4. PICK msg : msg = Msg("pairing_resp", SM_RESP)
  OBVIOUS
<1>5. msg.op = "pairing_resp"
  BY <1>4 DEF Msg
<1>6. \/ Goes(h, c, <<msg>>)
      \/ \E n \in Passkeys : Goes(h, [c EXCEPT !.passkey_num = n, !.tk = n], <<msg>>)
  BY <1>1, <1>4 DEF __sm_recv_pairing_req
<1>7. ASSUME NEW n PROVE Good([c EXCEPT !.passkey_num = n, !.tk = n])
  BY <1>3 DEF ConnFields
<1>8. PICK d : Goes(h, d, <<msg>>) /\ Good(d)
  <2> HIDE DEF Good
  <2> QED
    BY <1>3, <1>6, <1>7
<1>9. Utters(h, d, {"pairing_resp"})
  <2>1. \E m1 : <<msg>> = <<m1>> /\ m1.op \in {"pairing_resp"}
    BY <1>5
  <2> QED
    BY <1>8, <2>1, UttersFew
<1>10. req \in Offers /\ ConnTyped(conn[h]) => ConnTyped(d)
  BY <1>8, MethodTyped DEF ConnTyped
<1> QED
  BY <1>8, <1>9, <1>10

LEMMA PublicKeyTypes ==
    ASSUME NEW h \in Handle, ConnOK(conn[h]), NEW pk, __sm_recv_pairing_public_key(h, pk)
    PROVE  Settles(h, {})
<1>1. PICK c : c = [conn[h] EXCEPT !.pk = pk]
  OBVIOUS
<1>2. Steady(conn[h], c)
  BY <1>1 DEF Steady, ConnOK, ConnFields
<1>3. Goes(h, c, <<>>)
  BY <1>1 DEF __sm_recv_pairing_public_key
<1>4. Utters(h, c, {})
  BY <1>3, UttersFew
<1> QED
  BY <1>2, <1>4, SteadySettles

LEMMA ConfirmTypes ==
    ASSUME NEW h \in Handle, ConnOK(conn[h]), NEW value, __sm_recv_pairing_confirm(h, value)
    PROVE  Settles(h, {"pairing_confirm", "keypress"})
<1> DEFINE ops == {"pairing_confirm", "keypress"}
<1>1. PICK d : d = [conn[h] EXCEPT !.confirm = value, !.local_random = sm_generate_random(conn[h])]
  OBVIOUS
<1>2. PICK c : c = [d EXCEPT !.draws = @ + 1]
  OBVIOUS
<1>3. c = Drawn(d)
  BY <1>2 DEF Drawn
<1>4. Steady(conn[h], d) /\ DOMAIN d = ConnFields
  BY <1>1 DEF ConnOK, ConnFields, Steady
<1>5. Steady(conn[h], c) /\ DOMAIN c = ConnFields
  BY <1>2, <1>4 DEF ConnFields, Steady
<1>6. ASSUME NEW t, NEW c2, c2 = [c EXCEPT !.tk = t] \/ c2 = [c EXCEPT !.passkey_r = t]
      PROVE  Steady(conn[h], c2)
  BY <1>5, <1>6 DEF ConnFields, Steady
<1>7. \E c2, m : Steady(conn[h], c2) /\ m.op \in ops /\ Goes(h, c2, <<m>>)
  <2>1. CASE c.sc
    <3>1. PICK r : r = 128 + Bit(c.passkey_num, c.passkey_index)
      OBVIOUS
    <3>2. PICK m, c2 : /\ m = Msg("pairing_confirm", __sm_f4(HostPk, c.pk, c.local_random, r))
                       /\ c2 = [c EXCEPT !.passkey_r = r]
      OBVIOUS
    <3>3. Goes(h, c2, <<m>>)
      BY <1>1, <1>3, <2>1, <3>1, <3>2 DEF __sm_recv_pairing_confirm
    <3>4. m.op \in ops
      BY <3>2 DEF Msg
    <3>5. Steady(conn[h], c2)
      BY <1>6, <3>2
    <3> QED
      BY <3>3, <3>4, <3>5
  <2>2. CASE ~c.sc /\ c.method = IDRI
    <3>1. PICK m : m = Msg("keypress", "started")
      OBVIOUS
    <3>2. Goes(h, c, <<m>>)
      BY <1>1, <1>3, <2>2, <3>1 DEF __sm_recv_pairing_confirm
    <3>3. m.op \in ops
      BY <3>1 DEF Msg
    <3> QED
      BY <1>5, <3>2, <3>3
  <2>3. CASE ~c.sc /\ c.method # IDRI
    <3>1. PICK tk : tk = IF c.method = JW THEN 0 ELSE c.tk
      OBVIOUS
    <3>2. PICK m, c2 : m = Msg("pairing_confirm", Confirm(c, tk)) /\ c2 = [c EXCEPT !.tk = tk]
      OBVIOUS
    <3>3. Goes(h, c2, <<m>>)
      BY <1>1, <1>3, <2>3, <3>1, <3>2 DEF __sm_recv_pairing_confirm
    <3>4. m.op \in ops
      BY <3>2 DEF Msg
    <3>5. Steady(conn[h], c2)
      BY <1>6, <3>2
    <3> QED
      BY <3>3, <3>4, <3>5
  <2> QED
    BY <2>1, <2>2, <2>3
<1> HIDE DEF ops
<1>8. PICK c2, m : Steady(conn[h], c2) /\ m.op \in ops /\ Goes(h, c2, <<m>>)
  BY <1>7
<1>9. Utters(h, c2, ops)
  BY <1>8, UttersFew
<1> QED
  BY <1>8, <1>9, SteadySettles DEF ops

\* A random value is answered with one, and the number goes on where it agrees.
LEMMA RandomTypes ==
    ASSUME NEW h \in Handle, ConnOK(conn[h]), NEW value, __sm_recv_pairing_random(h, value)
    PROVE  \/ Settles(h, {"pairing_random", "pairing_failed"})
           \/ /\ Passing(conn[h])
              /\ \E c : /\ Utters(h, c, {"pairing_random", "pairing_failed"})
                        /\ c.sc = conn[h].sc /\ c.method = conn[h].method
                        /\ c.passkey_index = conn[h].passkey_index + 1
                        /\ ConnTyped(conn[h]) => ConnTyped(c)
<1> DEFINE ops == {"pairing_random", "pairing_failed"}
<1>1. PICK c : c = [conn[h] EXCEPT !.remote_random = value]
  OBVIOUS
<1>2. Steady(conn[h], c) /\ DOMAIN c = ConnFields
  BY <1>1 DEF Steady, ConnOK, ConnFields
<1>3. PICK mine, fail : mine = Msg("pairing_random", c.local_random) /\ fail = Failed("CONFIRM_VALUE")
  OBVIOUS
<1>4. mine.op \in ops /\ fail.op \in ops
  BY <1>3 DEF Msg, Failed
<1>5. PICK tag, bit : /\ tag = __sm_c1(c.tk, value, c.req, SM_RESP, c.addr, LocalAddr)
                      /\ bit = __sm_f4(c.pk, HostPk, value, c.passkey_r)
  OBVIOUS
<1>6. PICK next, drawn : next = [c EXCEPT !.passkey_index = @ + 1] /\ drawn = Drawn(c)
  OBVIOUS
<1>7. Steady(conn[h], drawn)
  BY <1>2, <1>6 DEF Steady, ConnFields, Drawn
<1>8. CASE c.sc /\ c.method \in {IIRD, IDRI} /\ bit = c.confirm
  <2>1. Goes(h, next, <<mine>>)
    BY <1>1, <1>3, <1>5, <1>6, <1>8 DEF __sm_recv_pairing_random, JW, NC, IIRD, IDRI
  <2>2. Passing(conn[h])
    BY <1>2, <1>8 DEF Passing, Steady
  <2>3. /\ next.sc = conn[h].sc /\ next.method = conn[h].method
        /\ next.passkey_index = conn[h].passkey_index + 1
        /\ next.is_encrypted = conn[h].is_encrypted /\ next.is_authenticated = conn[h].is_authenticated
        /\ next.received = conn[h].received
    BY <1>2, <1>6 DEF Steady, ConnFields
  <2>4. ConnTyped(conn[h]) => ConnTyped(next)
    BY <2>3 DEF ConnTyped
  <2> HIDE DEF ops
  <2>5. Utters(h, next, ops)
    BY <1>4, <2>1, UttersFew
  <2> QED
    BY <2>2, <2>3, <2>4, <2>5 DEF ops
<1>9. CASE ~(c.sc /\ c.method \in {IIRD, IDRI} /\ bit = c.confirm)
  <2>1. \/ Goes(h, c, <<mine>>) \/ Goes(h, drawn, <<mine>>)
        \/ Goes(h, c, <<fail>>) \/ Goes(h, c, <<>>)
    <3>1. CASE c.sc /\ c.method \in {JW, NC}
      BY <1>1, <1>3, <3>1 DEF __sm_recv_pairing_random, JW, NC, IIRD, IDRI
    <3>2. CASE c.sc /\ c.method \in {IIRD, IDRI} /\ bit # c.confirm
      BY <1>1, <1>3, <1>5, <3>2 DEF __sm_recv_pairing_random, JW, NC, IIRD, IDRI
    <3>3. CASE ~c.sc /\ tag = c.confirm
      BY <1>1, <1>3, <1>5, <1>6, <3>3 DEF __sm_recv_pairing_random
    <3>4. CASE ~c.sc /\ tag # c.confirm
      BY <1>1, <1>3, <1>5, <3>4 DEF __sm_recv_pairing_random
    <3>5. CASE c.sc /\ c.method \notin {JW, NC, IIRD, IDRI}
      BY <1>1, <3>5 DEF __sm_recv_pairing_random
    <3> QED
      BY <1>9, <3>1, <3>2, <3>3, <3>4, <3>5
  <2> HIDE DEF ops
  <2>2. \E c2 : Steady(conn[h], c2) /\ Utters(h, c2, ops)
    BY <1>2, <1>4, <1>7, <2>1, UttersFew
  <2> QED
    BY <2>2, SteadySettles DEF ops
<1> QED
  BY <1>8, <1>9

LEMMA CheckTypes ==
    ASSUME NEW h \in Handle, ConnOK(conn[h]), NEW value, __sm_recv_pairing_dhkey_check(h, value)
    PROVE  Settles(h, {"dhkey_check", "pairing_failed"})
<1> DEFINE ops == {"dhkey_check", "pairing_failed"}
<1>1. PICK c, d : c = conn[h] /\ d = Drawn(c)
  OBVIOUS
<1>2. Steady(conn[h], c) /\ Steady(conn[h], d)
  BY <1>1 DEF Steady, ConnOK, ConnFields, Drawn
<1>3. \E c2, m : c2 \in {c, d} /\ m.op \in ops /\ Goes(h, c2, <<m>>)
  <2> DEFINE keys0 == __sm_f5(c.dhkey, c.remote_random, c.local_random, c.addr, LocalAddr)
  <2>1. PICK keys : keys = keys0
    OBVIOUS
  <2>2. PICK ea, eb :
          /\ ea = __sm_f6(keys.mackey, c.remote_random, c.local_random, c.tk, iocapOf(c.req),
                          c.addr, LocalAddr)
          /\ eb = __sm_f6(keys.mackey, c.local_random, c.remote_random, c.tk, iocapOf(SM_RESP),
                          LocalAddr, c.addr)
    OBVIOUS
  <2>3. PICK good, bad : good = Msg("dhkey_check", eb) /\ bad = Failed("DHKEY_CHECK")
    OBVIOUS
  <2>4. good.op \in ops /\ bad.op \in ops
    BY <2>3 DEF Msg, Failed
  <2>5. Goes(h, d, <<good>>) \/ Goes(h, c, <<bad>>)
    BY <1>1, <2>1, <2>2, <2>3 DEF __sm_recv_pairing_dhkey_check
  <2> HIDE DEF ops
  <2> QED
    BY <2>4, <2>5
<1> HIDE DEF ops
<1>4. \E c2 : Steady(conn[h], c2) /\ Utters(h, c2, ops)
  BY <1>2, <1>3, UttersFew
<1> QED
  BY <1>4, SteadySettles DEF ops

LEMMA KeyTypes ==
    ASSUME NEW h \in Handle, ConnOK(conn[h]), NEW op \in KeyOp, NEW value, RecvKey(h, op, value)
    PROVE  Settles(h, {})
<1>1. PICK c : c = [conn[h] EXCEPT
                  !.received    = @ \cup {op},
                  !.remote_irk  = IF op = "identity_info" THEN value ELSE @,
                  !.remote_addr = IF op = "identity_address" THEN value ELSE @,
                  !.remote_csrk = IF op = "signing_info" THEN value ELSE @]
  OBVIOUS
<1>2. /\ c.sc = conn[h].sc /\ c.method = conn[h].method /\ c.passkey_index = conn[h].passkey_index
      /\ c.is_encrypted = conn[h].is_encrypted /\ c.is_authenticated = conn[h].is_authenticated
      /\ c.received = conn[h].received \cup {op}
  BY <1>1 DEF ConnOK, ConnFields
<1>3. Goes(h, c, <<>>)
  BY <1>1 DEF RecvKey
<1>4. Utters(h, c, {})
  BY <1>3, UttersFew
<1>5. ConnTyped(conn[h]) => ConnTyped(c)
  BY <1>2 DEF ConnTyped
<1> QED
  BY <1>2, <1>4, <1>5 DEF Settles

LEMMA EncryptionTypes ==
    ASSUME NEW h \in Handle, ConnOK(conn[h]), NEW enabled, sm_recv_evt_encryption_change(h, enabled)
    PROVE  Settles(h, KeyOp) \/ UNCHANGED <<conn, air>>
<1>1. PICK c, entry, auth : /\ c = conn[h] /\ entry = __sm_device_db_entry_get(db, c.addr)
                            /\ auth = IF entry.pairing_method # JW THEN 1 ELSE 0
  OBVIOUS
<1>2. ASSUME NEW x \in 0 .. 1, NEW y \in 0 .. 1, NEW d, d = [c EXCEPT !.is_encrypted = x, !.is_authenticated = y]
      PROVE  /\ d.sc = conn[h].sc /\ d.method = conn[h].method
             /\ d.passkey_index = conn[h].passkey_index
             /\ ConnTyped(conn[h]) => ConnTyped(d)
  <2>1. /\ d.sc = c.sc /\ d.method = c.method /\ d.passkey_index = c.passkey_index
        /\ d.is_encrypted = x /\ d.is_authenticated = y /\ d.received = c.received
    BY <1>1, <1>2 DEF ConnOK, ConnFields
  <2> QED
    BY <1>1, <2>1 DEF ConnTyped
<1>3. CASE ~Found(db, c.addr)
  BY <1>1, <1>3 DEF sm_recv_evt_encryption_change
<1>4. CASE Found(db, c.addr) /\ enabled = 1
  <2>1. PICK d, msgs : d = [c EXCEPT !.is_encrypted = 1, !.is_authenticated = auth] /\ msgs = HostKeys(c, entry)
    OBVIOUS
  <2>2. Goes(h, d, msgs)
    BY <1>1, <1>4, <2>1 DEF sm_recv_evt_encryption_change
  <2>3. Sequence(msgs) /\ \A m \in Elements(msgs) : m.op \in KeyOp
    BY <2>1, HostKeysOnly
  <2>4. Lone(msgs)
    BY <2>3 DEF Lone, Elements, KeyOp
  <2>5. Utters(h, d, KeyOp)
    BY <2>2, <2>3, <2>4 DEF Utters
  <2>6. auth \in 0 .. 1 /\ 1 \in 0 .. 1
    BY <1>1
  <2> QED
    BY <1>2, <2>1, <2>5, <2>6 DEF Settles
<1>5. CASE Found(db, c.addr) /\ enabled # 1
  <2>1. PICK d : d = [c EXCEPT !.is_encrypted = 0, !.is_authenticated = 0]
    OBVIOUS
  <2>2. Goes(h, d, <<>>)
    BY <1>1, <1>5, <2>1 DEF sm_recv_evt_encryption_change
  <2>3. Utters(h, d, KeyOp)
    BY <2>2, UttersFew
  <2>4. 0 \in 0 .. 1
    OBVIOUS
  <2> QED
    BY <1>2, <2>1, <2>3, <2>4 DEF Settles
<1> QED
  BY <1>3, <1>4, <1>5

\* A DHKey starts the passkey's bits from the first, or asks for the passkey.
LEMMA DhkeyTypes ==
    ASSUME NEW h \in Handle, h = askedLast, conn[h] # None, ConnOK(conn[h]), NEW e,
           sm_recv_evt_le_generate_dhkey_complete(e)
    PROVE  \/ conn[h].method \notin {IIRD, IDRI} /\ Settles(h, {"pairing_public_key", "pairing_confirm"})
           \/ Settles(h, {"pairing_public_key", "keypress"}) /\ Typing(h)'
           \/ \E c : /\ Utters(h, c, {"pairing_public_key", "keypress"})
                     /\ c.sc = conn[h].sc /\ c.method = conn[h].method /\ c.passkey_index = 0
                     /\ ConnTyped(conn[h]) => ConnTyped(c)
<1>1. PICK c : c = [conn[h] EXCEPT !.dhkey = e.dhkey]
  OBVIOUS
<1>2. Steady(conn[h], c) /\ DOMAIN c = ConnFields
  BY <1>1 DEF Steady, ConnOK, ConnFields
<1>3. PICK d1 : d1 = [c EXCEPT !.tk = 0, !.local_random = sm_generate_random(c)]
  OBVIOUS
<1>4. Steady(conn[h], d1) /\ DOMAIN d1 = ConnFields
  BY <1>2, <1>3 DEF Steady, ConnFields
<1>5. PICK d : d = Drawn(d1)
  OBVIOUS
<1>6. Steady(conn[h], d)
  BY <1>4, <1>5 DEF Steady, ConnFields, Drawn
<1>7. PICK pk, cb, key : /\ pk = Msg("pairing_public_key", HostPk)
                         /\ cb = Msg("pairing_confirm", __sm_f4(HostPk, c.pk, d.local_random, 0))
                         /\ key = Msg("keypress", "started")
  OBVIOUS
<1>8. pk.op = "pairing_public_key" /\ cb.op = "pairing_confirm" /\ key.op = "keypress"
  BY <1>7 DEF Msg
<1>9. c.method = conn[h].method
  BY <1>2 DEF Steady
<1>10. CASE c.method \in {JW, NC}
  <2>1. Goes(h, d, <<pk, cb>>)
    BY <1>1, <1>3, <1>5, <1>7, <1>10 DEF sm_recv_evt_le_generate_dhkey_complete, JW, NC, IIRD, IDRI
  <2>2. PICK msgs, ops : msgs = <<pk, cb>> /\ ops = {"pairing_public_key", "pairing_confirm"}
    OBVIOUS
  <2>3. \E m, l : msgs = <<m, l>> /\ {m.op, l.op} \subseteq ops /\ l.op # "pairing_random"
    BY <1>8, <2>2
  <2>4. Goes(h, d, msgs)
    BY <2>1, <2>2
  <2>5. Utters(h, d, ops)
    BY <2>3, <2>4, UttersFew
  <2>6. Settles(h, ops)
    BY <1>6, <2>5, SteadySettles
  <2>7. conn[h].method \notin {IIRD, IDRI}
    BY <1>9, <1>10 DEF JW, NC, IIRD, IDRI
  <2> QED
    BY <2>2, <2>6, <2>7
<1>11. CASE c.method = IIRD
  <2>1. PICK n \in Passkeys : Goes(h, WithPasskey(c, n), <<pk>>)
    BY <1>1, <1>7, <1>11 DEF sm_recv_evt_le_generate_dhkey_complete, IIRD, IDRI, JW, NC
  <2>2. PICK f : f = WithPasskey(c, n)
    OBVIOUS
  <2>3. /\ f.sc = c.sc /\ f.method = c.method /\ f.passkey_index = 0
        /\ f.is_encrypted = c.is_encrypted /\ f.is_authenticated = c.is_authenticated
        /\ f.received = c.received
    BY <1>2, <2>2 DEF ConnFields, WithPasskey
  <2>4. ConnTyped(conn[h]) => ConnTyped(f)
    BY <1>2, <2>3 DEF ConnTyped, Steady
  <2>5. \E m : <<pk>> = <<m>> /\ m.op \in {"pairing_public_key", "keypress"}
    BY <1>8
  <2>6. Utters(h, f, {"pairing_public_key", "keypress"})
    BY <2>1, <2>2, <2>5, UttersFew
  <2> QED
    BY <1>2, <2>3, <2>4, <2>6 DEF Steady
<1>12. CASE c.method = IDRI
  <2>1. Goes(h, c, <<pk, key>>) /\ Opens("sc_input", h, <<>>)
    BY <1>1, <1>7, <1>12 DEF sm_recv_evt_le_generate_dhkey_complete, IIRD, IDRI, JW, NC
  <2>2. PICK msgs, ops : msgs = <<pk, key>> /\ ops = {"pairing_public_key", "keypress"}
    OBVIOUS
  <2>3. \E m, l : msgs = <<m, l>> /\ {m.op, l.op} \subseteq ops /\ l.op # "pairing_random"
    BY <1>8, <2>2
  <2>4. Goes(h, c, msgs)
    BY <2>1, <2>2
  <2>5. Utters(h, c, ops)
    BY <2>3, <2>4, UttersFew
  <2>6. Settles(h, ops)
    BY <1>2, <2>5, SteadySettles
  <2>7. Typing(h)'
    BY <2>1 DEF Opens, Typing, None
  <2> QED
    BY <2>2, <2>6, <2>7
<1>13. CASE c.method \notin {JW, NC, IIRD, IDRI}
  <2>1. Goes(h, c, <<pk>>)
    BY <1>1, <1>7, <1>13 DEF sm_recv_evt_le_generate_dhkey_complete
  <2>2. \E m : <<pk>> = <<m>> /\ m.op \in {"pairing_public_key", "pairing_confirm"}
    BY <1>8
  <2>3. Utters(h, c, {"pairing_public_key", "pairing_confirm"})
    BY <2>1, <2>2, UttersFew
  <2>4. Settles(h, {"pairing_public_key", "pairing_confirm"})
    BY <1>2, <2>3, SteadySettles
  <2> QED
    BY <1>9, <1>13, <2>4
<1> QED
  BY <1>10, <1>11, <1>12, <1>13

-----------------------------------------------------------------------------
(* What leaves the number of the bit as it is.                              *)

\* What a pairing's bits under h may depend on.
Steers(e, h) ==
    \/ Opening(e, h)
    \/ /\ e.type = "sm" /\ e.h = h
       /\ e.msg.op \in {"pairing_req", "pairing_public_key", "pairing_confirm", "pairing_random"}

\* The host gets none of that to read.
NoneNew(h) ==
    /\ \A e \in Elements(toHost') : e \in Elements(toHost) \/ ~Steers(e, h)
    /\ AtMostOne(toHost', h, "pairing_random") /\ AtMostOne(toHost', h, "pairing_req")

SameRound(st, st2) ==
    st2.step = st.step /\ st2.pairing = st.pairing /\ st2.req = st.req /\ st2.round = st.round

SameDeal(c, c2) ==
    /\ c2 = None <=> c = None
    /\ c # None => c2.sc = c.sc /\ c2.method = c.method /\ c2.passkey_index = c.passkey_index

LEMMA NoneNewQueue ==
    ASSUME NEW h, NoneNew(h)
    PROVE  /\ \A op \in {"pairing_req", "pairing_public_key", "pairing_confirm", "pairing_random"} :
                 InQueue(toHost', h, op) => InQueue(toHost, h, op)
           /\ \A e \in Elements(toHost') : IsPacket(e, h, "pairing_req") => e \in Elements(toHost)
           /\ (\A e \in Elements(toHost) : ~Opening(e, h)) => \A e \in Elements(toHost') : ~Opening(e, h)
  BY DEF NoneNew, InQueue, IsPacket, Steers

\* Events that do not steer the pairing are added to the queue, or its first event is taken.
LEMMA NoneNewJoin ==
    ASSUME NEW h, IndexKept(h), Sequence(toHost), NEW t, Sequence(t), toHost' = toHost \o t,
           \A e \in Elements(t) : ~Steers(e, h)
    PROVE  NoneNew(h)
<1>1. Elements(toHost') = Elements(toHost) \cup Elements(t)
  BY ElementsJoin
<1>2. ~InQueue(t, h, "pairing_random") /\ ~InQueue(t, h, "pairing_req")
  BY DEF InQueue, IsPacket, Steers
<1>3. AtMostOne(toHost, h, "pairing_random") /\ AtMostOne(toHost, h, "pairing_req")
  BY DEF IndexKept
<1>4. AtMostOne(toHost', h, "pairing_random") /\ AtMostOne(toHost', h, "pairing_req")
  BY <1>2, <1>3, AtMostOneJoin
<1> QED
  BY <1>1, <1>4 DEF NoneNew

LEMMA NoneNewTail ==
    ASSUME NEW h, IndexKept(h), Sequence(toHost), toHost # <<>>, toHost' = Tail(toHost)
    PROVE  NoneNew(h)
<1>1. Elements(toHost') \subseteq Elements(toHost)
  BY ElementsTail
<1>2. AtMostOne(toHost, h, "pairing_random") /\ AtMostOne(toHost, h, "pairing_req")
  BY DEF IndexKept
<1>3. AtMostOne(toHost', h, "pairing_random") /\ AtMostOne(toHost', h, "pairing_req")
  BY <1>2, AtMostOneTail
<1> QED
  BY <1>1, <1>3 DEF NoneNew

LEMMA IndexStays ==
    ASSUME NEW h, IndexKept(h), NoneNew(h), SameDeal(conn[h], conn'[h]) \/ conn'[h] = None
    PROVE  IndexKept(h)'
<1>1. /\ \A op \in {"pairing_req", "pairing_random"} : InQueue(toHost', h, op) => InQueue(toHost, h, op)
      /\ (\A e \in Elements(toHost) : ~Opening(e, h)) => \A e \in Elements(toHost') : ~Opening(e, h)
  BY NoneNewQueue
<1>2. AtMostOne(toHost', h, "pairing_random") /\ AtMostOne(toHost', h, "pairing_req")
  BY DEF NoneNew
<1> QED
  BY <1>1, <1>2 DEF IndexKept, SameDeal, Passing

\* The number may start again.
LEMMA IndexZero ==
    ASSUME NEW h, IndexKept(h), NoneNew(h), conn'[h] # None => conn'[h].passkey_index = 0
    PROVE  IndexKept(h)'
<1>1. /\ \A op \in {"pairing_req", "pairing_random"} : InQueue(toHost', h, op) => InQueue(toHost, h, op)
      /\ (\A e \in Elements(toHost) : ~Opening(e, h)) => \A e \in Elements(toHost') : ~Opening(e, h)
  BY NoneNewQueue
<1>2. AtMostOne(toHost', h, "pairing_random") /\ AtMostOne(toHost', h, "pairing_req")
  BY DEF NoneNew
<1>3. 0 < PasskeyBits /\ 0 <= PasskeyBits
  BY SmAssumption
<1> QED
  BY <1>1, <1>2, <1>3 DEF IndexKept

LEMMA MatchedStays ==
    ASSUME NEW h, Matched(h), NoneNew(h), SameRound(peer[h], peer'[h]),
           conn'[h] # None, conn'[h].sc = conn[h].sc, conn'[h].method = conn[h].method
    PROVE  Matched(h)'
<1>1. /\ InQueue(toHost', h, "pairing_req") => InQueue(toHost, h, "pairing_req")
      /\ (\A e \in Elements(toHost) : ~Opening(e, h)) => \A e \in Elements(toHost') : ~Opening(e, h)
  BY NoneNewQueue
<1> QED
  BY <1>1 DEF Matched, SameRound

\* The peer has not moved, and the host may have sent packets of the kinds ops.
LEMMA RoundStays ==
    ASSUME NEW h, RoundOK(h), SameRound(peer[h], peer'[h]), NoneNew(h), NEW ops, AirFrom(h, ops),
           Matched(h) => Matched(h)', Asked(h)' => Asked(h) \/ peer[h].step # "resp",
           "pairing_random" \notin ops, "pairing_resp" \in ops => Matched(h)',
           "pairing_public_key" \in ops => peer[h].step # "resp"
    PROVE  RoundOK(h)'
<1>1. PICK st, st2 : st = peer[h] /\ st2 = peer'[h]
  OBVIOUS
<1>2. st2.step = st.step /\ st2.pairing = st.pairing /\ st2.req = st.req
  BY <1>1 DEF SameRound
<1>3. /\ \A op \in {"pairing_public_key", "pairing_random"} : InQueue(toHost', h, op) => InQueue(toHost, h, op)
      /\ \A e \in Elements(toHost') : IsPacket(e, h, "pairing_req") => e \in Elements(toHost)
  BY NoneNewQueue
<1>4. \A op : InAir(h, op)' => InAir(h, op) \/ op \in ops
  BY DEF AirFrom, InAir
<1>5. st2.step = "resp" =>
         ~Asked(h)' /\ ~InQueue(toHost', h, "pairing_public_key") /\ ~InAir(h, "pairing_public_key")'
  BY <1>1, <1>2, <1>3, <1>4 DEF RoundOK
<1>6. st2.step # "resp" \/ InAir(h, "pairing_resp")' => Matched(h)'
  BY <1>1, <1>2, <1>4 DEF RoundOK
<1>7. st2.step # "random" => ~InQueue(toHost', h, "pairing_random")
  BY <1>1, <1>2, <1>3 DEF RoundOK
<1>8. \/ Quits(air'[h])
      \/ /\ Lone(air'[h])
         /\ InAir(h, "pairing_random")' => st2.step = "random" /\ ~InQueue(toHost', h, "pairing_random")
  <2>1. CASE Quits(air[h])
    BY <2>1 DEF AirFrom
  <2>2. CASE ~Quits(air[h])
    <3>1. Lone(air[h]) /\ (InAir(h, "pairing_random") => st.step = "random" /\ ~InQueue(toHost, h, "pairing_random"))
      BY <1>1, <2>2 DEF RoundOK
    <3>2. Lone(air'[h])
      BY <3>1 DEF AirFrom
    <3> QED
      BY <1>2, <1>3, <1>4, <3>1, <3>2
  <2> QED
    BY <2>1, <2>2
<1>9. st2.pairing /\ \A e \in Elements(toHost') : IsPacket(e, h, "pairing_req") => e.msg.value = st2.req
  BY <1>1, <1>2, <1>3 DEF RoundOK
<1> QED
  BY <1>1, <1>5, <1>6, <1>7, <1>8, <1>9 DEF RoundOK

LEMMA InRoundStays ==
    ASSUME NEW h, InRound(h), SameRound(peer[h], peer'[h]), NoneNew(h),
           conn[h].passkey_index \in Nat, conn'[h].passkey_index = conn[h].passkey_index
    PROVE  InRound(h)'
<1>1. InQueue(toHost', h, "pairing_random") => InQueue(toHost, h, "pairing_random")
  BY NoneNewQueue
<1>2. PICK st, st2, c, c2 : st = peer[h] /\ st2 = peer'[h] /\ c = conn[h] /\ c2 = conn'[h]
  OBVIOUS
<1>3. PICK i \in Nat, n \in Int : /\ i = c.passkey_index /\ c2.passkey_index = i
                                 /\ n = st.round /\ st2.round = n /\ st2.step = st.step
  BY <1>2, SmAssumption DEF SameRound, InRound
<1>4. i <= n + (IF st.step = "random" /\ ~InQueue(toHost, h, "pairing_random") THEN 1 ELSE 0)
  BY <1>2, <1>3 DEF InRound
<1>5. i <= n + (IF st2.step = "random" /\ ~InQueue(toHost', h, "pairing_random") THEN 1 ELSE 0)
  <2> HIDE DEF InQueue
  <2> QED
    BY <1>1, <1>3, <1>4
<1> QED
  BY <1>2, <1>3, <1>5 DEF InRound

LEMMA BitsStay ==
    ASSUME NEW h, PasskeyOK(h), SameRound(peer[h], peer'[h]), NoneNew(h), NEW ops, AirFrom(h, ops),
           peer[h].step # "resp" => conn[h].passkey_index \in Nat,
           conn'[h].passkey_index = conn[h].passkey_index,
           Typing(h)' <=> Typing(h), OldInput(h)' => OldInput(h) \/ peer[h].step \notin {"resp", "pk"},
           "pairing_public_key" \notin ops,
           "pairing_confirm" \in ops => peer[h].step \notin {"resp", "pk"} /\ ~Typing(h)
    PROVE  PasskeyOK(h)'
<1>1. PICK st, st2, c, c2 : st = peer[h] /\ st2 = peer'[h] /\ c = conn[h] /\ c2 = conn'[h]
  OBVIOUS
<1>2. /\ st2.step = st.step /\ st2.round = st.round /\ c2.passkey_index = c.passkey_index
  BY <1>1 DEF SameRound
<1>3. InQueue(toHost', h, "pairing_confirm") => InQueue(toHost, h, "pairing_confirm")
  BY NoneNewQueue
<1>4. \A op : InAir(h, op)' => InAir(h, op) \/ op \in ops
  BY DEF AirFrom, InAir
<1>5. Quits(air[h]) => Quits(air'[h])
  BY DEF AirFrom
<1>6. st2.step \in {"resp", "pk"} =>
         /\ ~InAir(h, "pairing_confirm")' /\ ~InQueue(toHost', h, "pairing_confirm") /\ ~OldInput(h)'
         /\ InAir(h, "pairing_public_key")' => Quits(air'[h]) \/ Typing(h)' \/ c2.passkey_index = 0
  BY <1>1, <1>2, <1>3, <1>4, <1>5 DEF PasskeyOK
<1>7. st2.step \in {"resp", "pk", "enter"} => st2.round = 0
  BY <1>1, <1>2 DEF PasskeyOK
<1>8. ASSUME st2.step \notin {"resp", "pk"}
      PROVE  \/ Quits(air'[h])
             \/ Typing(h)' /\ st2.step # "random" /\ st2.round = 0 /\ ~InAir(h, "pairing_confirm")'
             \/ InRound(h)'
  <2>1. \/ Quits(air[h])
        \/ Typing(h) /\ st.step # "random" /\ st.round = 0 /\ ~InAir(h, "pairing_confirm")
        \/ InRound(h)
    BY <1>1, <1>2, <1>8 DEF PasskeyOK
  <2>2. InRound(h) => InRound(h)'
    BY <1>1, <1>2, <1>8, InRoundStays
  <2>3. Typing(h) => (InAir(h, "pairing_confirm")' => InAir(h, "pairing_confirm"))
    BY <1>4
  <2> QED
    BY <1>2, <1>5, <2>1, <2>2, <2>3
<1> QED
  BY <1>1, <1>6, <1>7, <1>8 DEF PasskeyOK

LEMMA PairingStays ==
    ASSUME NEW h, PairingOK(h), SameRound(peer[h], peer'[h]), NoneNew(h), SameDeal(conn[h], conn'[h]),
           conn[h] # None => ConnTyped(conn[h]), NEW ops, AirFrom(h, ops),
           Asked(h)' => Asked(h) \/ peer[h].step # "resp", Typing(h)' <=> Typing(h),
           \A op \in {"pairing_random", "pairing_resp", "pairing_public_key"} : op \notin ops,
           Passkeyed(peer[h].req) =>
              /\ OldInput(h)' => OldInput(h) \/ peer[h].step \notin {"resp", "pk"}
              /\ "pairing_confirm" \in ops => peer[h].step \notin {"resp", "pk"} /\ ~Typing(h)
    PROVE  PairingOK(h)'
<1>1. RoundOK(h)
  BY DEF PairingOK
<1>2. Matched(h) => Matched(h)'
  <2>1. Matched(h) => conn[h] # None
    BY DEF Matched
  <2> QED
    BY <2>1, MatchedStays DEF SameDeal
<1>3. RoundOK(h)'
  BY <1>1, <1>2, RoundStays
<1>4. Passkeyed(peer'[h].req) => Passkeyed(peer[h].req)
  BY DEF SameRound
<1>5. ASSUME Passkeyed(peer[h].req) PROVE PasskeyOK(h)'
  <2>1. PasskeyOK(h)
    BY <1>5 DEF PairingOK
  <2>2. peer[h].step # "resp" => conn[h] # None
    BY <1>1 DEF RoundOK, Matched
  <2>3. conn'[h].passkey_index = conn[h].passkey_index
    BY DEF SameDeal
  <2>4. peer[h].step # "resp" => conn[h].passkey_index \in Nat
    BY <2>2 DEF ConnTyped
  <2> QED
    BY <1>5, <2>1, <2>3, <2>4, BitsStay
<1> QED
  BY <1>3, <1>4, <1>5 DEF PairingOK

-----------------------------------------------------------------------------
(* The user's answers keep the number of the bit.                           *)

LEMMA NoneNewSame ==
    ASSUME NEW h, IndexKept(h), toHost' = toHost PROVE NoneNew(h)
  BY DEF NoneNew, IndexKept

LEMMA AirSame == ASSUME NEW h, NEW ops, air'[h] = air[h] PROVE AirFrom(h, ops)
  BY DEF AirFrom, InAir

LEMMA SettlesHeard ==
    ASSUME Shapes, ConnsOK, AirOK(air), NEW h \in Handle, conn[h] # None, NEW ops, Settles(h, ops), conn'[h] # None
    PROVE  /\ SameDeal(conn[h], conn'[h]) /\ AirFrom(h, ops) /\ (ConnTyped(conn[h]) => ConnTyped(conn'[h]))
           /\ \A g \in Handle : g # h => conn'[g] = conn[g] /\ air'[g] = air[g]
<1>1. PICK c : /\ Utters(h, c, ops) /\ c.sc = conn[h].sc /\ c.method = conn[h].method
               /\ c.passkey_index = conn[h].passkey_index
               /\ ConnTyped(conn[h]) => ConnTyped(c)
  BY DEF Settles
<1>2. /\ conn'[h] = c /\ AirFrom(h, ops)
      /\ \A g \in Handle : g # h => conn'[g] = conn[g] /\ air'[g] = air[g]
  BY <1>1, UttersHeard
<1> QED
  BY <1>1, <1>2 DEF SameDeal

\* What an answer does to the connection and the packets under the dialog's handle.
LEMMA AnswerTypes ==
    ASSUME BondsKept, AirOK(air), DialogAnswered, NEW g \in Handle, g = dialog.h
    PROVE  \/ UNCHANGED <<conn, air>> /\ ~Typing(g)
           \/ Settles(g, {"pairing_failed"}) /\ ~Typing(g)
           \/ dialog.kind = "legacy_input" /\ Settles(g, {"keypress", "pairing_confirm"})
           \/ Typing(g) /\ \E c : /\ Utters(g, c, {"keypress"})
                                  /\ c.sc = conn[g].sc /\ c.method = conn[g].method /\ c.passkey_index = 0
                                  /\ ConnTyped(conn[g]) => ConnTyped(c)
           \/ Typing(g) /\ \E c : Goes(g, c, <<Failed("PASSKEY_ENTRY")>>) /\ Steady(conn[g], c)
<1>1. DialogShown(g) \/ DialogInput(g) \/ DialogCompare(g)
  BY DEF DialogAnswered
<1>2. dialog # None /\ ConnOK(conn[g])
  BY DEF BondsKept, DialogOK, ConnsOK, DialogAnswered
<1>3. PICK c0 : c0 = conn[g] /\ DOMAIN c0 = ConnFields
  BY <1>2 DEF ConnOK
<1>4. ASSUME NEW c, Steady(conn[g], c), NEW reason, Goes(g, c, <<Failed(reason)>>)
      PROVE  Settles(g, {"pairing_failed"})
  <2>1. PICK m : m = Failed(reason)
    OBVIOUS
  <2>2. m.op = "pairing_failed"
    BY <2>1 DEF Failed, Msg
  <2>3. Utters(g, c, {"pairing_failed"})
    BY <1>4, <2>1, <2>2, UttersFew
  <2> QED
    BY <1>4, <2>3, SteadySettles
<1>8. Steady(conn[g], conn[g]) /\ Steady(conn[g], [conn[g] EXCEPT !.passkey_num = 0])
  BY <1>3 DEF Steady, ConnFields
<1>5. CASE DialogShown(g) \/ DialogCompare(g)
  <2>1. dialog.kind \in {"show", "compare"}
    BY <1>5 DEF DialogShown, DialogCompare
  <2>2. ~Typing(g)
    BY <2>1 DEF Typing
  <2>3. UNCHANGED <<conn, air>> \/ Goes(g, conn[g], <<Failed("NUMERIC_COMPARISON")>>)
    BY <1>5 DEF DialogShown, DialogCompare
  <2> QED
    BY <1>4, <1>8, <2>2, <2>3
<1>6. CASE DialogInput(g) /\ dialog.kind = "sc_input"
  <2>1. Typing(g)
    BY <1>2, <1>6 DEF Typing
  <2>2. \/ Goes(g, [conn[g] EXCEPT !.passkey_num = 0], <<Failed("PASSKEY_ENTRY")>>)
        \/ \E n \in Passkeys : Goes(g, WithPasskey(conn[g], n), <<Msg("keypress", "completed")>>)
    BY <1>6 DEF DialogInput
  <2>3. ASSUME NEW n \in Passkeys, Goes(g, WithPasskey(conn[g], n), <<Msg("keypress", "completed")>>)
        PROVE  \E c : /\ Utters(g, c, {"keypress"})
                      /\ c.sc = conn[g].sc /\ c.method = conn[g].method /\ c.passkey_index = 0
                      /\ ConnTyped(conn[g]) => ConnTyped(c)
    <3>1. PICK c, m : c = WithPasskey(conn[g], n) /\ m = Msg("keypress", "completed")
      OBVIOUS
    <3>2. m.op = "keypress"
      BY <3>1 DEF Msg
    <3>3. /\ c.sc = c0.sc /\ c.method = c0.method /\ c.passkey_index = 0
          /\ c.is_encrypted = c0.is_encrypted /\ c.is_authenticated = c0.is_authenticated
          /\ c.received = c0.received
      BY <1>3, <3>1 DEF WithPasskey, ConnFields
    <3>4. Utters(g, c, {"keypress"})
      BY <2>3, <3>1, <3>2, UttersFew
    <3> QED
      BY <1>3, <3>3, <3>4 DEF ConnTyped
  <2>4. CASE Goes(g, [conn[g] EXCEPT !.passkey_num = 0], <<Failed("PASSKEY_ENTRY")>>)
    <3>1. PICK c : c = [conn[g] EXCEPT !.passkey_num = 0]
      OBVIOUS
    <3>2. Goes(g, c, <<Failed("PASSKEY_ENTRY")>>) /\ Steady(conn[g], c)
      BY <1>8, <2>4, <3>1
    <3> QED
      BY <2>1, <3>2
  <2>5. CASE \E n \in Passkeys : Goes(g, WithPasskey(conn[g], n), <<Msg("keypress", "completed")>>)
    BY <2>1, <2>3, <2>5
  <2> QED
    BY <2>2, <2>4, <2>5
<1>7. CASE DialogInput(g) /\ dialog.kind = "legacy_input"
  <2>1. dialog.kind # "sc_input" /\ ~Typing(g)
    BY <1>7 DEF Typing
  <2>2. \/ Goes(g, [conn[g] EXCEPT !.passkey_num = 0], <<Failed("PASSKEY_ENTRY")>>)
        \/ \E n \in Passkeys : \E c, l :
              /\ c = [conn[g] EXCEPT !.passkey_num = n, !.tk = n] /\ l = Msg("pairing_confirm", Confirm(c, n))
              /\ Goes(g, c, <<Msg("keypress", "completed"), l>>)
    BY <1>7, <2>1 DEF DialogInput
  <2>3. ASSUME NEW n \in Passkeys, NEW c, NEW l,
               c = [conn[g] EXCEPT !.passkey_num = n, !.tk = n], l = Msg("pairing_confirm", Confirm(c, n)),
               Goes(g, c, <<Msg("keypress", "completed"), l>>)
        PROVE  Settles(g, {"keypress", "pairing_confirm"})
    <3>1. PICK m, msgs, ops : /\ m = Msg("keypress", "completed") /\ msgs = <<m, l>>
                              /\ ops = {"keypress", "pairing_confirm"}
      OBVIOUS
    <3>2. {m.op, l.op} \subseteq ops /\ l.op # "pairing_random"
      BY <2>3, <3>1 DEF Msg
    <3>3. Steady(conn[g], c)
      BY <1>3, <2>3 DEF Steady, ConnFields
    <3>4. Goes(g, c, msgs)
      BY <2>3, <3>1
    <3>5. Utters(g, c, ops)
      BY <3>1, <3>2, <3>4, UttersFew
    <3> QED
      BY <3>1, <3>3, <3>5, SteadySettles
  <2>4. CASE Goes(g, [conn[g] EXCEPT !.passkey_num = 0], <<Failed("PASSKEY_ENTRY")>>)
    <3>1. PICK c : c = [conn[g] EXCEPT !.passkey_num = 0]
      OBVIOUS
    <3>2. Goes(g, c, <<Failed("PASSKEY_ENTRY")>>) /\ Steady(conn[g], c)
      BY <1>8, <2>4, <3>1
    <3> QED
      BY <1>4, <2>1, <3>2
  <2> QED
    BY <1>7, <2>1, <2>2, <2>3, <2>4
<1> QED
  BY <1>1, <1>5, <1>6, <1>7 DEF DialogInput

\* The number starts again.
LEMMA PairingZero ==
    ASSUME NEW h, PairingOK(h), SameRound(peer[h], peer'[h]), NoneNew(h), conn[h] # None, conn'[h] # None,
           conn'[h].sc = conn[h].sc, conn'[h].method = conn[h].method, conn'[h].passkey_index = 0,
           NEW ops, AirFrom(h, ops), Asked(h)' => Asked(h) \/ peer[h].step # "resp", ~OldInput(h)',
           \A op \in {"pairing_random", "pairing_resp", "pairing_confirm"} : op \notin ops,
           "pairing_public_key" \in ops => peer[h].step # "resp"
    PROVE  PairingOK(h)'
<1>1. RoundOK(h)
  BY DEF PairingOK
<1>2. Matched(h) => Matched(h)'
  BY MatchedStays
<1>3. RoundOK(h)'
  BY <1>1, <1>2, RoundStays
<1>4. PICK st, st2, c2 : st = peer[h] /\ st2 = peer'[h] /\ c2 = conn'[h]
  OBVIOUS
<1>5. st2.step = st.step /\ st2.round = st.round /\ (Passkeyed(st2.req) => Passkeyed(st.req)) /\ c2.passkey_index = 0
  BY <1>4 DEF SameRound
<1>6. ASSUME Passkeyed(st.req) PROVE PasskeyOK(h)'
  <2>1. PasskeyOK(h)
    BY <1>4, <1>6 DEF PairingOK
  <2>2. InQueue(toHost', h, "pairing_confirm") => InQueue(toHost, h, "pairing_confirm")
    BY NoneNewQueue
  <2>3. InAir(h, "pairing_confirm")' => InAir(h, "pairing_confirm")
    BY DEF AirFrom, InAir
  <2>4. st2.step \in {"resp", "pk"} =>
           ~InAir(h, "pairing_confirm")' /\ ~InQueue(toHost', h, "pairing_confirm") /\ ~OldInput(h)'
    BY <1>4, <1>5, <2>1, <2>2, <2>3 DEF PasskeyOK
  <2>5. st2.step \in {"resp", "pk", "enter"} => st2.round = 0
    BY <1>4, <1>5, <2>1 DEF PasskeyOK
  <2>6. ASSUME st2.step \notin {"resp", "pk"} PROVE Quits(air'[h]) \/ InRound(h)'
    <3>1. Quits(air[h]) \/ st.round = 0 \/ InRound(h)
      BY <1>4, <1>5, <2>1, <2>6 DEF PasskeyOK
    <3>2. CASE Quits(air[h])
      BY <3>2 DEF AirFrom
    <3>3. CASE st.round = 0 \/ InRound(h)
      <4>1. st2.round \in 0 .. PasskeyBits - 1
        BY <1>4, <1>5, <3>3, SmAssumption DEF InRound
      <4>2. 0 <= st2.round + (IF st2.step = "random" /\ ~InQueue(toHost', h, "pairing_random") THEN 1 ELSE 0)
        <5> HIDE DEF InQueue
        <5> QED
          BY <4>1, SmAssumption
      <4> QED
        BY <1>4, <1>5, <4>1, <4>2 DEF InRound
    <3> QED
      BY <3>1, <3>2, <3>3
  <2> QED
    BY <1>4, <1>5, <2>4, <2>5, <2>6 DEF PasskeyOK
<1> QED
  BY <1>3, <1>4, <1>5, <1>6 DEF PairingOK

\* The user gives up: the peer hears of it before it could go on.
LEMMA PairingGivenUp ==
    ASSUME NEW h, PairingOK(h), SameRound(peer[h], peer'[h]), NoneNew(h), conn[h] # None, SameDeal(conn[h], conn'[h]),
           Typing(h), Sequence(air[h]), NEW m, m.op = "pairing_failed", air'[h] = air[h] \o <<m>>,
           AirFrom(h, {"pairing_failed"}), Asked(h)' => Asked(h), ConnTyped(conn[h]), ~OldInput(h)'
    PROVE  PairingOK(h)'
<1>1. RoundOK(h)
  BY DEF PairingOK
<1>2. Matched(h) => Matched(h)'
  BY MatchedStays DEF SameDeal
<1>3. RoundOK(h)'
  BY <1>1, <1>2, RoundStays
<1>4. PICK st, st2 : st = peer[h] /\ st2 = peer'[h]
  OBVIOUS
<1>5. st2.step = st.step /\ st2.round = st.round /\ (Passkeyed(st2.req) => Passkeyed(st.req))
  BY <1>4 DEF SameRound
<1>6. ASSUME Passkeyed(st.req) PROVE PasskeyOK(h)'
  <2>1. PasskeyOK(h)
    BY <1>4, <1>6 DEF PairingOK
  <2>2. /\ InQueue(toHost', h, "pairing_confirm") => InQueue(toHost, h, "pairing_confirm")
        /\ InAir(h, "pairing_confirm")' => InAir(h, "pairing_confirm")
        /\ Quits(air[h]) => Quits(air'[h])
    BY NoneNewQueue DEF AirFrom, InAir
  <2>3. ASSUME st.step # "random", ~InAir(h, "pairing_confirm") PROVE Quits(air'[h])
    <3>1. CASE Quits(air[h])
      BY <2>2, <3>1
    <3>2. CASE ~Quits(air[h])
      <4>1. ~InAir(h, "pairing_random")
        BY <1>1, <1>4, <2>3, <3>2 DEF RoundOK
      <4>2. \A x \in Elements(air[h]) : x.op \notin {"pairing_confirm", "pairing_random"}
        BY <2>3, <4>1 DEF InAir
      <4> QED
        BY <4>2, QuitsNew
    <3> QED
      BY <3>1, <3>2
  <2>4. st2.step \in {"resp", "pk"} =>
           /\ ~InAir(h, "pairing_confirm")' /\ ~InQueue(toHost', h, "pairing_confirm") /\ ~OldInput(h)'
           /\ Quits(air'[h])
    BY <1>4, <1>5, <2>1, <2>2, <2>3 DEF PasskeyOK
  <2>5. st2.step \in {"resp", "pk", "enter"} => st2.round = 0
    BY <1>4, <1>5, <2>1 DEF PasskeyOK
  <2>6. ASSUME st2.step \notin {"resp", "pk"} PROVE Quits(air'[h]) \/ InRound(h)'
    <3>1. \/ Quits(air[h])
          \/ st.step # "random" /\ ~InAir(h, "pairing_confirm")
          \/ InRound(h)
      BY <1>4, <1>5, <2>1, <2>6 DEF PasskeyOK
    <3>2. InRound(h) => InRound(h)'
      BY InRoundStays DEF ConnTyped, SameDeal
    <3> QED
      BY <2>2, <2>3, <3>1, <3>2
  <2> QED
    BY <1>4, <1>5, <2>4, <2>5, <2>6 DEF PasskeyOK
<1> QED
  BY <1>3, <1>4, <1>5, <1>6 DEF PairingOK

LEMMA DialogAnsweredRounds ==
    ASSUME BondsKept, ComparisonsAgree, RoundsAgree, DialogAnswered PROVE RoundsAgree'
<1>1. UNCHANGED <<up, allowed, db, toHost, link, peer, overlapped, askedLast, cmd, job>> /\ dialog' = None
  BY DEF DialogAnswered, peerVars, ctrlVars
<1>2. Shapes /\ ConnsOK /\ AirOK(air) /\ FieldsTyped
  BY DEF BondsKept, ComparisonsAgree, RoundsAgree
<1>3. SameHolders(conn, conn')
  BY DialogAnsweredLeaves
<1>4. \A h : ~Typing(h)' /\ ~OldInput(h)'
  BY <1>1 DEF Typing, OldInput
<1>5. \A h : (Asked(h)' <=> Asked(h)) /\ SameRound(peer[h], peer'[h]) /\ (Live(h)' <=> Live(h))
  BY <1>1 DEF Asked, DhkeyUnderWay, SameRound, Live
<1>6. \A h \in Handle : h \notin overlapped => IndexKept(h) /\ NoneNew(h) /\ (Live(h) => PairingOK(h))
  BY <1>1, NoneNewSame DEF RoundsAgree
<1>7. ASSUME NEW h \in Handle, conn'[h] = conn[h], air'[h] = air[h], ~Typing(h), h \notin overlapped
      PROVE  IndexKept(h)' /\ (Live(h)' => PairingOK(h)')
  <2>1. SameDeal(conn[h], conn'[h])
    BY <1>7 DEF SameDeal
  <2>2. IndexKept(h)'
    BY <1>6, <1>7, <2>1, IndexStays
  <2>3. AirFrom(h, {})
    BY <1>7, AirSame
  <2>4. Live(h)' => PairingOK(h)'
    BY <1>2, <1>4, <1>5, <1>6, <1>7, <2>1, <2>3, PairingStays DEF FieldsTyped
  <2> QED
    BY <2>2, <2>4
<1>8. ASSUME NEW h \in Handle, h = dialog.h
      PROVE  /\ conn'[h] # None => ConnTyped(conn'[h])
             /\ h \notin overlapped => IndexKept(h)' /\ (Live(h)' => PairingOK(h)')
             /\ \A g \in Handle : g # h => conn'[g] = conn[g] /\ air'[g] = air[g]
  <2>1. conn[h] # None /\ conn'[h] # None /\ ConnTyped(conn[h])
    BY <1>2, <1>3, <1>8 DEF BondsKept, DialogOK, DialogAnswered, SameHolders, FieldsTyped
  <2>2. ASSUME NEW ops, Settles(h, ops), ~Typing(h),
               \A op \in {"pairing_random", "pairing_resp", "pairing_public_key"} : op \notin ops,
               "pairing_confirm" \in ops => OldInput(h)
        PROVE  /\ conn'[h] # None => ConnTyped(conn'[h])
               /\ h \notin overlapped => IndexKept(h)' /\ (Live(h)' => PairingOK(h)')
               /\ \A g \in Handle : g # h => conn'[g] = conn[g] /\ air'[g] = air[g]
    <3>1. /\ SameDeal(conn[h], conn'[h]) /\ AirFrom(h, ops) /\ ConnTyped(conn'[h])
          /\ \A g \in Handle : g # h => conn'[g] = conn[g] /\ air'[g] = air[g]
      BY <1>2, <2>1, <2>2, SettlesHeard
    <3>2. h \notin overlapped => IndexKept(h)'
      BY <1>6, <3>1, IndexStays
    <3>3. ASSUME h \notin overlapped, Live(h) PROVE PairingOK(h)'
      <4>1. PairingOK(h) /\ NoneNew(h)
        BY <1>6, <3>3
      <4>2. Passkeyed(peer[h].req) /\ OldInput(h) => peer[h].step \notin {"resp", "pk"}
        BY <4>1 DEF PairingOK, PasskeyOK
      <4> QED
        BY <1>4, <1>5, <2>1, <2>2, <3>1, <4>1, <4>2, PairingStays
    <3> QED
      BY <1>5, <3>1, <3>2, <3>3
  <2>3. CASE UNCHANGED <<conn, air>> /\ ~Typing(h)
    BY <1>7, <2>1, <2>3
  <2>4. CASE Settles(h, {"pairing_failed"}) /\ ~Typing(h)
    BY <2>2, <2>4
  <2>5. CASE dialog.kind = "legacy_input" /\ Settles(h, {"keypress", "pairing_confirm"})
    <3>1. OldInput(h) /\ ~Typing(h)
      BY <1>8, <2>5 DEF OldInput, Typing, DialogAnswered
    <3> QED
      BY <2>2, <2>5, <3>1
  <2>6. CASE Typing(h) /\ \E c : /\ Utters(h, c, {"keypress"})
                                 /\ c.sc = conn[h].sc /\ c.method = conn[h].method /\ c.passkey_index = 0
                                 /\ ConnTyped(conn[h]) => ConnTyped(c)
    <3>1. PICK c : /\ Utters(h, c, {"keypress"})
                   /\ c.sc = conn[h].sc /\ c.method = conn[h].method /\ c.passkey_index = 0
                   /\ ConnTyped(conn[h]) => ConnTyped(c)
      BY <2>6
    <3>2. /\ conn'[h] = c /\ AirFrom(h, {"keypress"})
          /\ \A g \in Handle : g # h => conn'[g] = conn[g] /\ air'[g] = air[g]
      BY <1>2, <3>1, UttersHeard
    <3>3. h \notin overlapped => IndexKept(h)'
      BY <1>6, <3>1, <3>2, IndexZero
    <3>4. h \notin overlapped /\ Live(h) => PairingOK(h)'
      BY <1>4, <1>5, <1>6, <2>1, <3>1, <3>2, PairingZero
    <3> QED
      BY <1>5, <2>1, <3>1, <3>2, <3>3, <3>4
  <2>7. CASE Typing(h) /\ \E c : Goes(h, c, <<Failed("PASSKEY_ENTRY")>>) /\ Steady(conn[h], c)
    <3>1. PICK c, m : m = Failed("PASSKEY_ENTRY") /\ Goes(h, c, <<m>>) /\ Steady(conn[h], c)
      BY <2>7
    <3>8. m.op = "pairing_failed"
      BY <3>1 DEF Failed, Msg
    <3>2. Utters(h, c, {"pairing_failed"})
      BY <3>1, <3>8, UttersFew
    <3>3. /\ conn'[h] = c /\ AirFrom(h, {"pairing_failed"})
          /\ \A g \in Handle : g # h => conn'[g] = conn[g] /\ air'[g] = air[g]
      BY <1>2, <3>2, UttersHeard
    <3>9. conn'[h] # None
      BY <1>3, <2>1 DEF SameHolders
    <3>10. SameDeal(conn[h], conn'[h]) /\ (ConnTyped(conn[h]) => ConnTyped(conn'[h]))
      BY <2>1, <3>1, <3>3, <3>9 DEF SameDeal, Steady, ConnTyped
    <3>4. h \notin overlapped => IndexKept(h)'
      BY <1>6, <3>10, IndexStays
    <3>5. Live(h) => air'[h] = air[h] \o <<m>>
      BY <1>2, <3>1 DEF Goes, sm_send, Live, Shapes
    <3>6. Sequence(air[h])
      BY <1>2 DEF AirOK
    <3>7. h \notin overlapped /\ Live(h) => PairingOK(h)'
      BY <1>4, <1>5, <1>6, <2>1, <2>7, <3>3, <3>5, <3>6, <3>8, <3>10, PairingGivenUp
    <3> QED
      BY <1>5, <2>1, <3>3, <3>4, <3>7, <3>10
  <2> QED
    BY <1>2, <1>8, <2>3, <2>4, <2>5, <2>6, <2>7, AnswerTypes
<1>9. CASE dialog.h \in Handle
  <2>1. PICK g \in Handle : g = dialog.h
    BY <1>9
  <2>2. \A h \in Handle : h # g => conn'[h] = conn[h] /\ air'[h] = air[h] /\ ~Typing(h)
    BY <1>8, <2>1 DEF Typing
  <2>3. \A h \in Handle : h \notin overlapped => IndexKept(h)' /\ (Live(h)' => PairingOK(h)')
    BY <1>7, <1>8, <2>1, <2>2
  <2>4. \A h \in Handle : conn'[h] # None => ConnTyped(conn'[h])
    BY <1>2, <1>8, <2>1, <2>2 DEF FieldsTyped
  <2>5. FieldsTyped'
    BY <1>1, <1>2, <2>4 DEF FieldsTyped
  <2> QED
    BY <1>1, <2>3, <2>5 DEF RoundsAgree
<1>10. CASE dialog.h \notin Handle
  <2>1. \A h \in Handle : conn'[h] = conn[h] /\ air'[h] = air[h] /\ ~Typing(h)
    BY <1>2, <1>10 DEF DialogAnswered, DialogShown, DialogInput, DialogCompare, Goes, sm_send, Shapes, Typing
  <2>2. FieldsTyped'
    BY <1>1, <1>2, <2>1 DEF FieldsTyped
  <2> QED
    BY <1>1, <1>7, <2>1, <2>2 DEF RoundsAgree
<1> QED
  BY <1>9, <1>10

-----------------------------------------------------------------------------
(* A step of the host keeps the number of the bit: the file and the credit. *)

DbTyped(d) == \A i \in DOMAIN d : d[i].pairing_method \in sm_pairing_method_t

LEMMA StoreTyped ==
    ASSUME NEW d, Sequence(d), DbTyped(d), NEW addr, NEW entry, entry.pairing_method \in sm_pairing_method_t
    PROVE  DbTyped(Store(d, addr, entry)) /\ DbTyped(__sm_device_db_entry_update(d, addr, entry))
<1>1. PICK k : k = FirstMatch(d, addr)
  OBVIOUS
<1>2. DbTyped([d EXCEPT ![k] = entry])
  BY DEF DbTyped
<1>3. DbTyped(Append(d, entry))
  <2>1. PICK t, s : t = <<entry>> /\ s = d \o t
    OBVIOUS
  <2>2. Append(d, entry) = s /\ Sequence(t) /\ Len(t) = 1 /\ t[1] = entry
    BY <2>1, AppendOne
  <2>3. /\ DOMAIN s = 1 .. Len(d) + 1 /\ Len(d) \in Nat /\ DOMAIN d = 1 .. Len(d)
        /\ \A i \in 1 .. Len(d) : s[i] = d[i]
        /\ s[Len(d) + 1] = entry
    BY <2>1, <2>2, ConcatFacts, SequenceFacts
  <2>4. \A i \in 1 .. Len(d) + 1 : i \in 1 .. Len(d) \/ i = Len(d) + 1
    BY <2>3
  <2> QED
    BY <2>2, <2>3, <2>4 DEF DbTyped
<1> QED
  BY <1>1, <1>2, <1>3 DEF Store, __sm_device_db_entry_update, __sm_device_db_entry_add

LEMMA DeleteTyped ==
    ASSUME NEW d, DbTyped(d), NEW addr PROVE DbTyped(__sm_device_db_entry_delete(d, addr))
<1>1. ZeroEntry.pairing_method \in sm_pairing_method_t
  BY DEF ZeroEntry, sm_pairing_method_t, JW
<1> QED
  BY <1>1 DEF DbTyped, __sm_device_db_entry_delete

LEMMA GetTyped ==
    ASSUME NEW d, NEW comp, DbOK(d, comp), DbTyped(d), NEW addr, Found(d, addr)
    PROVE  LET entry == __sm_device_db_entry_get(d, addr) IN
           DOMAIN entry = EntryFields /\ entry.pairing_method \in sm_pairing_method_t
<1>1. PICK k : k = FirstMatch(d, addr)
  OBVIOUS
<1>2. k \in DOMAIN d
  BY <1>1, FirstMatchIsFirst DEF DbOK, Sequence
<1>3. EntryOK(d[k], comp) /\ d[k].pairing_method \in sm_pairing_method_t
  BY <1>2 DEF DbOK, DbTyped
<1> QED
  BY <1>1, <1>3 DEF EntryOK, __sm_device_db_entry_get

LEMMA PacketStoresTyped ==
    ASSUME DbOK(db, computed), DbTyped(db), NEW h, ConnOK(conn[h]), ConnTyped(conn[h]), NEW msg, sm_recv(h, msg)
    PROVE  DbTyped(db')
<1>1. ASSUME NEW c, c.method \in sm_pairing_method_t, NEW ltk
      PROVE  BondEntry(c, ltk).pairing_method \in sm_pairing_method_t
  BY <1>1 DEF BondEntry, ZeroEntry
<1>2. Sequence(db) /\ conn[h].method \in sm_pairing_method_t /\ DOMAIN conn[h] = ConnFields
  BY DEF DbOK, ConnTyped, ConnOK
<1>3. CASE msg.op = "pairing_random"
  <2>1. __sm_recv_pairing_random(h, msg.value)
    BY <1>3 DEF sm_recv, KeyOp
  <2>2. PICK c : c = [conn[h] EXCEPT !.remote_random = msg.value]
    OBVIOUS
  <2>3. c.method \in sm_pairing_method_t
    BY <1>2, <2>2 DEF ConnFields
  <2>4. db' = db \/ \E ltk : db' = Store(db, c.addr, BondEntry(c, ltk))
    BY <2>1, <2>2 DEF __sm_recv_pairing_random
  <2> QED
    BY <1>1, <1>2, <2>3, <2>4, StoreTyped
<1>4. CASE msg.op = "dhkey_check"
  <2>1. __sm_recv_pairing_dhkey_check(h, msg.value)
    BY <1>4 DEF sm_recv, KeyOp
  <2>2. db' = db \/ \E ltk : db' = Store(db, conn[h].addr, BondEntry(conn[h], ltk))
    BY <2>1 DEF __sm_recv_pairing_dhkey_check
  <2> QED
    BY <1>1, <1>2, <2>2, StoreTyped
<1>5. CASE msg.op \in KeyOp
  <2>1. RecvKey(h, msg.op, msg.value)
    BY <1>5 DEF sm_recv, KeyOp
  <2>2. PICK c : db' = __sm_save_device_info(c)
    BY <2>1 DEF RecvKey
  <2>3. \/ db' = db
        \/ /\ Found(db, c.addr)
           /\ db' = __sm_device_db_entry_update(db, c.addr,
                       [__sm_device_db_entry_get(db, c.addr) EXCEPT
                           !.remote_addr = c.remote_addr, !.remote_irk = c.remote_irk,
                           !.remote_csrk = c.remote_csrk])
    BY <2>2 DEF __sm_save_device_info
  <2>4. CASE db' # db
    <3>1. PICK entry : entry = __sm_device_db_entry_get(db, c.addr)
      OBVIOUS
    <3>2. PICK new : new = [entry EXCEPT !.remote_addr = c.remote_addr, !.remote_irk = c.remote_irk,
                                         !.remote_csrk = c.remote_csrk]
      OBVIOUS
    <3>3. Found(db, c.addr) /\ db' = __sm_device_db_entry_update(db, c.addr, new)
      BY <2>3, <2>4, <3>1, <3>2
    <3>4. DOMAIN entry = EntryFields /\ entry.pairing_method \in sm_pairing_method_t
      BY <3>1, <3>3, GetTyped
    <3>5. new.pairing_method \in sm_pairing_method_t
      BY <3>2, <3>4 DEF EntryFields
    <3> QED
      BY <1>2, <3>3, <3>5, StoreTyped
  <2> QED
    BY <2>4
<1>6. CASE msg.op \notin {"pairing_random", "dhkey_check"} \cup KeyOp
  <2>1. db' = db
    BY <1>6 DEF sm_recv, __sm_recv_pairing_req, __sm_recv_pairing_public_key, __sm_recv_pairing_confirm
  <2> QED
    BY <2>1
<1> QED
  BY <1>3, <1>4, <1>5, <1>6

LEMMA EncryptionStoresTyped ==
    ASSUME DbOK(db, computed), DbTyped(db), NEW h, NEW enabled, sm_recv_evt_encryption_change(h, enabled)
    PROVE  DbTyped(db')
<1>1. PICK c, entry, auth : /\ c = conn[h] /\ entry = __sm_device_db_entry_get(db, c.addr)
                            /\ auth = IF entry.pairing_method # JW THEN 1 ELSE 0
  OBVIOUS
<1>2. PICK new : new = [entry EXCEPT !.is_encrypted = 1, !.is_authenticated = auth]
  OBVIOUS
<1>3. CASE ~Found(db, c.addr)
  BY <1>1, <1>3 DEF sm_recv_evt_encryption_change
<1>4. CASE Found(db, c.addr) /\ enabled = 1
  <2>1. db' = db \/ db' = __sm_device_db_entry_update(db, c.addr, new)
    BY <1>1, <1>2, <1>4 DEF sm_recv_evt_encryption_change
  <2>2. DOMAIN entry = EntryFields /\ entry.pairing_method \in sm_pairing_method_t
    BY <1>1, <1>4, GetTyped
  <2>3. new.pairing_method \in sm_pairing_method_t
    BY <1>2, <2>2 DEF EntryFields
  <2> QED
    BY <2>1, <2>3, StoreTyped DEF DbOK
<1>5. CASE Found(db, c.addr) /\ enabled # 1
  <2>1. db' = __sm_device_db_entry_delete(db, c.addr)
    BY <1>1, <1>5 DEF sm_recv_evt_encryption_change
  <2> QED
    BY <2>1, DeleteTyped
<1> QED
  BY <1>3, <1>4, <1>5

\* The file, the credit and whether the program runs.
LEMMA HostFields ==
    ASSUME BondsKept, FieldsTyped, HostReceives
    PROVE  up' \in BOOLEAN /\ allowed' \in 0 .. 1 /\ DbTyped(db')
<1>1. PICK e : e = Head(toHost)
  OBVIOUS
<1>2. /\ DbOK(db, computed) /\ DbTyped(db) /\ up \in BOOLEAN /\ allowed \in 0 .. 1
      /\ e.type \in Within => e.h \in Handle /\ conn[e.h] # None
  BY <1>1, HostReceivesTakes DEF BondsKept, FieldsTyped, DbTyped
<1>3. ASSUME NEW c, SendCmd(c) PROVE allowed' \in 0 .. 1
  BY <1>2, <1>3 DEF SendCmd
<1>4. CASE e.type = "sm"
  <2>1. sm_recv(e.h, e.msg) /\ ConnOK(conn[e.h]) /\ ConnTyped(conn[e.h])
    BY <1>1, <1>2, <1>4 DEF HostReceives, Within, BondsKept, ConnsOK, FieldsTyped
  <2>2. up' = up
    BY <2>1 DEF sm_recv
  <2>3. (\E c : SendCmd(c)) \/ NoCmd
    BY <2>1 DEF sm_recv, __sm_recv_pairing_req, __sm_recv_pairing_public_key, __sm_recv_pairing_confirm,
                __sm_recv_pairing_random, __sm_recv_pairing_dhkey_check, RecvKey
  <2>4. allowed' \in 0 .. 1
    BY <1>2, <1>3, <2>3 DEF NoCmd
  <2> QED
    BY <1>2, <2>1, <2>2, <2>4, PacketStoresTyped
<1>5. CASE e.type = "generate_dhkey"
  <2>1. sm_recv_evt_le_generate_dhkey_complete(e)
    BY <1>1, <1>5 DEF HostReceives
  <2>2. up' \in BOOLEAN /\ UNCHANGED <<allowed, db>>
    BY <1>2, <2>1 DEF sm_recv_evt_le_generate_dhkey_complete
  <2> QED
    BY <1>2, <2>2
<1>6. CASE e.type = "ltk_req"
  <2>1. sm_recv_evt_le_ltk_req(e.h)
    BY <1>1, <1>6 DEF HostReceives
  <2>2. (\E c : SendCmd(c)) /\ UNCHANGED <<up, db>>
    BY <2>1 DEF sm_recv_evt_le_ltk_req
  <2> QED
    BY <1>2, <1>3, <2>2
<1>7. CASE e.type = "encryption_change"
  <2>1. sm_recv_evt_encryption_change(e.h, e.enabled)
    BY <1>1, <1>7 DEF HostReceives
  <2>2. UNCHANGED <<up, allowed>>
    BY <2>1 DEF sm_recv_evt_encryption_change, NoCmd
  <2> QED
    BY <1>2, <2>1, <2>2, EncryptionStoresTyped
<1>8. CASE e.type \notin {"sm", "generate_dhkey", "ltk_req", "encryption_change"}
  <2>1. OtherEvent(e)
    BY <1>1, <1>8 DEF HostReceives
  <2>2. UNCHANGED <<up, db>> /\ (allowed' = 1 \/ allowed' = allowed)
    BY <2>1 DEF OtherEvent
  <2> QED
    BY <1>2, <2>2
<1> QED
  BY <1>4, <1>5, <1>6, <1>7, <1>8

-----------------------------------------------------------------------------
(* A step of the host keeps the number of the bit: packets and events.      *)

\* The number of the bit stays, and so does what was agreed.
LEMMA HostSettles ==
    ASSUME dialog = None, NEW h, IndexKept(h), Live(h) => PairingOK(h), NoneNew(h), UNCHANGED <<peer, link>>,
           SameDeal(conn[h], conn'[h]), conn[h] # None => ConnTyped(conn[h]), NEW ops, AirFrom(h, ops),
           Live(h) /\ Asked(h)' => Asked(h) \/ peer[h].step # "resp", ~Typing(h)',
           \A op \in {"pairing_random", "pairing_resp", "pairing_public_key"} : op \notin ops,
           Live(h) /\ Passkeyed(peer[h].req) /\ (OldInput(h)' \/ "pairing_confirm" \in ops) =>
              peer[h].step \notin {"resp", "pk"}
    PROVE  IndexKept(h)' /\ (Live(h)' => PairingOK(h)')
<1>1. IndexKept(h)'
  BY IndexStays
<1>2. SameRound(peer[h], peer'[h]) /\ ~Typing(h) /\ (Live(h)' <=> Live(h))
  BY DEF SameRound, Typing, Live
<1>3. ASSUME Live(h) PROVE PairingOK(h)'
  <2>1. Typing(h)' <=> Typing(h)
    BY <1>2
  <2>2. Passkeyed(peer[h].req) =>
           /\ OldInput(h)' => OldInput(h) \/ peer[h].step \notin {"resp", "pk"}
           /\ "pairing_confirm" \in ops => peer[h].step \notin {"resp", "pk"} /\ ~Typing(h)
    BY <1>2, <1>3
  <2> QED
    BY <1>2, <1>3, <2>1, <2>2, PairingStays
<1> QED
  BY <1>1, <1>2, <1>3

\* The connection under h, handled by the event at the front of the queue.
Fronts(e, h) ==
    /\ toHost # <<>> /\ e = Head(toHost) /\ toHost' = Tail(toHost) /\ dialog = None
    /\ UNCHANGED <<job, link, peer, overlapped>>
    /\ h \notin overlapped => IndexKept(h) /\ (Live(h) => PairingOK(h))
RoundsKept(h) ==
    /\ conn'[h] # None => ConnTyped(conn'[h])
    /\ h \notin overlapped => IndexKept(h)' /\ (Live(h)' => PairingOK(h)')

\* The packets that leave the method and the number.
LEMMA PlainPacketRounds ==
    ASSUME Shapes, ConnsOK, AirOK(air), Sequence(toHost), NEW h \in Handle, conn[h] # None, ConnTyped(conn[h]),
           NEW e, Fronts(e, h), e.type = "sm", e.h = h, sm_recv(h, e.msg), conn'[h] # None,
           e.msg.op \notin {"pairing_req", "pairing_random"}
    PROVE  RoundsKept(h)
<1>1. PICK msg : msg = e.msg
  OBVIOUS
<1>2. /\ e \in Elements(toHost) /\ ConnOK(conn[h]) /\ toHost' = Tail(toHost) /\ toHost # <<>> /\ dialog = None
      /\ UNCHANGED <<job, link, peer, overlapped>> /\ Elements(toHost') \subseteq Elements(toHost)
  BY ElementsTail DEF Fronts, ConnsOK
<1>3. msg.op # "pairing_public_key" => (Asked(h)' => Asked(h))
  <2>1. msg.op # "pairing_public_key" => askedLast' = askedLast /\ cmd' = cmd
    BY <1>1, PacketAsks
  <2> QED
    BY <1>2, <2>1, UnderWayFrom DEF Asked
<1>4. ASSUME NEW ops, Settles(h, ops), ~Typing(h)',
             Live(h) /\ PairingOK(h) /\ Asked(h)' => Asked(h) \/ peer[h].step # "resp",
             \A op \in {"pairing_random", "pairing_resp", "pairing_public_key"} : op \notin ops,
             Live(h) /\ PairingOK(h) /\ Passkeyed(peer[h].req) /\ (OldInput(h)' \/ "pairing_confirm" \in ops) =>
                peer[h].step \notin {"resp", "pk"}
      PROVE  RoundsKept(h)
  <2>1. SameDeal(conn[h], conn'[h]) /\ AirFrom(h, ops) /\ ConnTyped(conn'[h])
    BY <1>4, SettlesHeard
  <2>2. ASSUME h \notin overlapped PROVE IndexKept(h)' /\ (Live(h)' => PairingOK(h)')
    <3>1. IndexKept(h) /\ (Live(h) => PairingOK(h))
      BY <2>2 DEF Fronts
    <3>2. NoneNew(h)
      BY <1>2, <3>1, NoneNewTail
    <3> QED
      BY <1>2, <1>4, <2>1, <3>1, <3>2, HostSettles
  <2> QED
    BY <2>1, <2>2 DEF RoundsKept
<1>5. CASE msg.op = "pairing_public_key"
  <2>1. __sm_recv_pairing_public_key(h, msg.value)
    BY <1>1, <1>5 DEF sm_recv, KeyOp
  <2>2. Settles(h, {}) /\ dialog' = None
    BY <1>2, <2>1, PublicKeyTypes DEF __sm_recv_pairing_public_key, NoDialog
  <2>3. InQueue(toHost, h, "pairing_public_key")
    BY <1>1, <1>2, <1>5 DEF InQueue, IsPacket
  <2>4. PairingOK(h) => peer[h].step # "resp"
    BY <2>3 DEF PairingOK, RoundOK
  <2> QED
    BY <1>4, <2>2, <2>4 DEF Typing, OldInput
<1>6. CASE msg.op = "pairing_confirm"
  <2>1. __sm_recv_pairing_confirm(h, msg.value)
    BY <1>1, <1>6 DEF sm_recv, KeyOp
  <2>2. Settles(h, {"pairing_confirm", "keypress"})
    BY <1>2, <2>1, ConfirmTypes
  <2>3. dialog' = None \/ Opens("legacy_input", h, <<>>)
    BY <2>1 DEF __sm_recv_pairing_confirm, NoDialog
  <2>4. dialog' = None \/ dialog'.kind = "legacy_input"
    BY <2>3 DEF Opens
  <2>5. ~Typing(h)'
    BY <2>4 DEF Typing
  <2>6. InQueue(toHost, h, "pairing_confirm")
    BY <1>1, <1>2, <1>6 DEF InQueue, IsPacket
  <2>7. PairingOK(h) /\ Passkeyed(peer[h].req) => peer[h].step \notin {"resp", "pk"}
    BY <2>6 DEF PairingOK, PasskeyOK
  <2> QED
    BY <1>3, <1>4, <1>6, <2>2, <2>5, <2>7
<1>7. CASE msg.op = "dhkey_check"
  <2>1. __sm_recv_pairing_dhkey_check(h, msg.value)
    BY <1>1, <1>7 DEF sm_recv, KeyOp
  <2>2. Settles(h, {"dhkey_check", "pairing_failed"}) /\ dialog' = None
    BY <1>2, <2>1, CheckTypes DEF __sm_recv_pairing_dhkey_check, NoDialog
  <2> QED
    BY <1>3, <1>4, <1>7, <2>2 DEF Typing, OldInput
<1>8. CASE msg.op \in KeyOp
  <2>1. RecvKey(h, msg.op, msg.value)
    BY <1>1, <1>8 DEF sm_recv, KeyOp
  <2>2. Settles(h, {}) /\ dialog' = None
    BY <1>2, <1>8, <2>1, KeyTypes DEF RecvKey, NoDialog
  <2>3. msg.op # "pairing_public_key"
    BY <1>8 DEF KeyOp
  <2> QED
    BY <1>3, <1>4, <2>2, <2>3 DEF Typing, OldInput
<1>9. CASE msg.op \notin {"pairing_public_key", "pairing_confirm", "dhkey_check"} \cup KeyOp
  <2>1. UNCHANGED <<conn, air>> /\ dialog' = None
    BY <1>1, <1>9 DEF sm_recv, NoDialog
  <2>2. SameDeal(conn[h], conn'[h]) /\ AirFrom(h, {}) /\ ConnTyped(conn'[h])
    BY <2>1, AirSame DEF SameDeal
  <2>3. ASSUME h \notin overlapped PROVE IndexKept(h)' /\ (Live(h)' => PairingOK(h)')
    <3>1. IndexKept(h) /\ (Live(h) => PairingOK(h))
      BY <2>3 DEF Fronts
    <3>2. NoneNew(h)
      BY <1>2, <3>1, NoneNewTail
    <3>3. ~Typing(h)' /\ ~OldInput(h)'
      BY <2>1 DEF Typing, OldInput
    <3> QED
      BY <1>2, <1>3, <1>9, <2>2, <3>1, <3>2, <3>3, HostSettles
  <2> QED
    BY <2>2, <2>3 DEF RoundsKept
<1> QED
  BY <1>1, <1>5, <1>6, <1>7, <1>8, <1>9

\* The host takes the method of the request.
LEMMA RequestRounds ==
    ASSUME BondsKept, ComparisonsAgree, FieldsTyped, NEW h \in Handle, conn[h] # None,
           NEW e, Fronts(e, h), e.type = "sm", e.h = h, sm_recv(h, e.msg), conn'[h] # None,
           e.msg.op = "pairing_req"
    PROVE  RoundsKept(h)
<1>1. PICK req : req = e.msg.value
  OBVIOUS
<1>2. /\ e \in Elements(toHost) /\ ConnOK(conn[h]) /\ toHost' = Tail(toHost) /\ toHost # <<>> /\ dialog = None
      /\ UNCHANGED <<job, link, peer, overlapped>> /\ Elements(toHost') \subseteq Elements(toHost)
      /\ Sequence(toHost) /\ Shapes /\ AirOK(air) /\ e = Head(toHost) /\ ConnTyped(conn[h]) /\ req \in Offers
      /\ PeerOK(peer[h])
  BY <1>1, ElementsTail DEF Fronts, BondsKept, ConnsOK, ComparisonsAgree, QueueOK, FieldsTyped, PeersOK
<1>3. __sm_recv_pairing_req(h, req)
  BY <1>1 DEF sm_recv, KeyOp
<1>4. PICK c : /\ Utters(h, c, {"pairing_resp"})
               /\ c.sc = IsSecureConnection(req) /\ c.method = __sm_get_pairing_method(req)
               /\ c.passkey_index = conn[h].passkey_index
               /\ req \in Offers /\ ConnTyped(conn[h]) => ConnTyped(c)
  BY <1>2, <1>3, RequestTypes
<1>5. conn'[h] = c /\ AirFrom(h, {"pairing_resp"}) /\ ConnTyped(c)
  BY <1>2, <1>4, UttersHeard
<1>6. \A f \in Elements(toHost) : ~Opening(f, h)
  BY <1>2, NoOpening DEF ComparisonsAgree
<1>7. Asked(h)' => Asked(h)
  <2>1. askedLast' = askedLast /\ cmd' = cmd
    BY PacketAsks
  <2> QED
    BY <1>2, <2>1, UnderWayFrom DEF Asked
<1>8. ~Typing(h)' /\ ~OldInput(h)' /\ ~Typing(h) /\ SameRound(peer[h], peer'[h]) /\ (Live(h)' <=> Live(h))
  <2>1. dialog' = None \/ \E n : Opens("show", h, n)
    BY <1>3 DEF __sm_recv_pairing_req, NoDialog
  <2>2. dialog' = None \/ dialog'.kind = "show"
    BY <2>1 DEF Opens
  <2> QED
    BY <1>2, <2>2 DEF Typing, OldInput, SameRound, Live
<1>9. InQueue(toHost, h, "pairing_req") /\ IsPacket(e, h, "pairing_req")
  BY <1>2 DEF InQueue, IsPacket
<1>10. ASSUME h \notin overlapped PROVE IndexKept(h)' /\ (Live(h)' => PairingOK(h)')
  <2>1. IndexKept(h) /\ (Live(h) => PairingOK(h))
    BY <1>10 DEF Fronts
  <2>2. NoneNew(h)
    BY <1>2, <2>1, NoneNewTail
  <2>3. ~InQueue(toHost', h, "pairing_random") /\ ~InQueue(toHost', h, "pairing_req")
    BY <1>2, <1>9, <2>1, AtMostOneTail DEF IndexKept
  <2>4. IndexKept(h)'
    BY <1>4, <1>5, <2>1, <2>2, <2>3 DEF IndexKept, NoneNew
  <2>5. ASSUME Live(h) PROVE PairingOK(h)'
    <3>1. RoundOK(h) /\ (Passkeyed(peer[h].req) => PasskeyOK(h))
      BY <2>1, <2>5 DEF PairingOK
    <3>2. peer[h].step = "resp" /\ req = peer[h].req
      BY <1>1, <1>2, <1>9, <3>1 DEF RoundOK, Matched
    <3>3. IsSecureConnection(req) => __sm_get_pairing_method(req) = PeerMethod(req)
      BY <1>2, MethodShared
    <3>4. Matched(h)'
      BY <1>2, <1>4, <1>5, <1>6, <2>3, <3>2, <3>3 DEF Matched
    <3>5. RoundOK(h)'
      BY <1>5, <1>7, <1>8, <2>2, <3>1, <3>4, RoundStays
    <3>6. Passkeyed(peer[h].req) => PasskeyOK(h)'
      BY <1>4, <1>5, <1>8, <2>2, <3>1, <3>2, BitsStay
    <3> QED
      BY <1>2, <3>5, <3>6 DEF PairingOK
  <2> QED
    BY <1>8, <2>4, <2>5
<1> QED
  BY <1>5, <1>10 DEF RoundsKept

\* The peer's random value: the number goes on.
LEMMA RandomRounds ==
    ASSUME BondsKept, ComparisonsAgree, FieldsTyped, NEW h \in Handle, conn[h] # None,
           NEW e, Fronts(e, h), e.type = "sm", e.h = h, sm_recv(h, e.msg), conn'[h] # None,
           e.msg.op = "pairing_random"
    PROVE  RoundsKept(h)
<1>1. PICK value, ops : value = e.msg.value /\ ops = {"pairing_random", "pairing_failed"}
  OBVIOUS
<1>2. /\ e \in Elements(toHost) /\ ConnOK(conn[h]) /\ toHost' = Tail(toHost) /\ toHost # <<>> /\ dialog = None
      /\ UNCHANGED <<job, link, peer, overlapped>> /\ Elements(toHost') \subseteq Elements(toHost)
      /\ Sequence(toHost) /\ Shapes /\ AirOK(air) /\ e = Head(toHost) /\ ConnTyped(conn[h])
  BY <1>1, ElementsTail DEF Fronts, BondsKept, ConnsOK, ComparisonsAgree, QueueOK, FieldsTyped
<1>3. __sm_recv_pairing_random(h, value)
  BY <1>1 DEF sm_recv, KeyOp
<1>4. Settles(h, ops) \/
      /\ Passing(conn[h])
      /\ \E c : /\ Utters(h, c, ops)
                /\ c.sc = conn[h].sc /\ c.method = conn[h].method
                /\ c.passkey_index = conn[h].passkey_index + 1
                /\ ConnTyped(conn[h]) => ConnTyped(c)
  BY <1>1, <1>2, <1>3, RandomTypes
<1>5. PICK c : /\ Utters(h, c, ops) /\ c.sc = conn[h].sc /\ c.method = conn[h].method
               /\ \/ c.passkey_index = conn[h].passkey_index
                  \/ Passing(conn[h]) /\ c.passkey_index = conn[h].passkey_index + 1
               /\ ConnTyped(c)
  BY <1>2, <1>4 DEF Settles
<1>6. conn'[h] = c /\ AirFrom(h, ops)
  BY <1>2, <1>5, UttersHeard
<1>7. PICK i, j : i = conn[h].passkey_index /\ j = c.passkey_index
  OBVIOUS
<1>8. i \in Nat /\ (j = i \/ (Passing(conn[h]) /\ j = i + 1))
  BY <1>2, <1>5, <1>7 DEF ConnTyped
<1>9. InQueue(toHost, h, "pairing_random") /\ IsPacket(e, h, "pairing_random")
  BY <1>2 DEF InQueue, IsPacket
<1>10. SameRound(peer[h], peer'[h]) /\ (Live(h)' <=> Live(h)) /\ ~Typing(h)
  BY <1>2 DEF Typing, SameRound, Live
<1>11. ASSUME h \notin overlapped PROVE IndexKept(h)' /\ (Live(h)' => PairingOK(h)')
  <2>1. IndexKept(h) /\ (Live(h) => PairingOK(h))
    BY <1>11 DEF Fronts
  <2>2. NoneNew(h)
    BY <1>2, <2>1, NoneNewTail
  <2>3. ~InQueue(toHost', h, "pairing_random")
    BY <1>2, <1>9, <2>1, AtMostOneTail DEF IndexKept
  <2>4. j <= PasskeyBits
    <3>1. i <= PasskeyBits /\ (Passing(conn[h]) => i < PasskeyBits)
      BY <1>7, <1>9, <2>1 DEF IndexKept
    <3> QED
      BY <1>8, <3>1, SmAssumption
  <2>5. IndexKept(h)'
    BY <1>6, <1>7, <2>2, <2>3, <2>4 DEF IndexKept, NoneNew
  <2>6. ASSUME Live(h) PROVE PairingOK(h)'
    <3>1. RoundOK(h) /\ (Passkeyed(peer[h].req) => PasskeyOK(h))
      BY <2>1, <2>6 DEF PairingOK
    <3>2. PICK st, st2 : st = peer[h] /\ st2 = peer'[h] /\ st2 = st
      BY <1>2
    <3>3. st.step = "random" /\ Matched(h)
      BY <1>9, <3>1, <3>2 DEF RoundOK
    <3>4. Quits(air[h]) \/ (Lone(air[h]) /\ ~InAir(h, "pairing_random"))
      BY <1>9, <3>1, <3>2 DEF RoundOK
    <3>5. Quits(air'[h]) \/ Lone(air'[h])
      BY <1>6, <3>4 DEF AirFrom
    <3>6. Matched(h)'
      BY <1>5, <1>6, <1>10, <2>2, <3>3, MatchedStays
    <3>7. \A f \in Elements(toHost') : IsPacket(f, h, "pairing_req") => f.msg.value = st2.req
      BY <1>2, <3>1, <3>2 DEF RoundOK
    <3>8. RoundOK(h)'
      BY <2>3, <3>1, <3>2, <3>3, <3>5, <3>6, <3>7 DEF RoundOK
    <3>9. ASSUME Passkeyed(st.req) PROVE PasskeyOK(h)'
      <4>1. Quits(air[h]) \/ InRound(h)
        BY <3>1, <3>2, <3>3, <3>9 DEF PasskeyOK
      <4>2. Quits(air[h]) => Quits(air'[h])
        BY <1>6 DEF AirFrom
      <4>3. ASSUME InRound(h) PROVE InRound(h)'
        <5>1. st.round \in 0 .. PasskeyBits - 1 /\ i <= st.round + 0
          BY <1>7, <1>9, <3>2, <4>3 DEF InRound
        <5>2. j <= st.round + 1
          BY <1>8, <5>1, SmAssumption
        <5> QED
          BY <1>6, <1>7, <2>3, <3>2, <3>3, <5>1, <5>2 DEF InRound
      <4> QED
        BY <3>2, <3>3, <4>1, <4>2, <4>3 DEF PasskeyOK
    <3> QED
      BY <3>2, <3>8, <3>9 DEF PairingOK
  <2> QED
    BY <1>10, <2>5, <2>6
<1> QED
  BY <1>5, <1>6, <1>11 DEF RoundsKept

\* The dialog a DHKey opens.
LEMMA DhkeyDialog ==
    ASSUME NEW e, sm_recv_evt_le_generate_dhkey_complete(e)
    PROVE  /\ dialog' # None => dialog'.h = askedLast /\ dialog'.kind \in {"show", "sc_input"}
           /\ conn[askedLast] = None => UNCHANGED <<conn, air>> /\ dialog' = None
<1>1. CASE conn[askedLast] = None
  BY <1>1 DEF sm_recv_evt_le_generate_dhkey_complete, NoDialog
<1>2. CASE conn[askedLast] # None
  <2>1. PICK c : c = [conn[askedLast] EXCEPT !.dhkey = e.dhkey]
    OBVIOUS
  <2>2. \/ dialog' = None
        \/ \E n : Opens("show", askedLast, n)
        \/ Opens("sc_input", askedLast, <<>>)
    <3>1. CASE c.method \in {JW, NC}
      BY <1>2, <2>1, <3>1 DEF sm_recv_evt_le_generate_dhkey_complete, NoDialog, JW, NC, IIRD, IDRI
    <3>2. CASE c.method = IIRD
      BY <1>2, <2>1, <3>2 DEF sm_recv_evt_le_generate_dhkey_complete, IIRD, IDRI, JW, NC
    <3>3. CASE c.method = IDRI
      BY <1>2, <2>1, <3>3 DEF sm_recv_evt_le_generate_dhkey_complete, IIRD, IDRI, JW, NC
    <3>4. CASE c.method \notin {JW, NC, IIRD, IDRI}
      BY <1>2, <2>1, <3>4 DEF sm_recv_evt_le_generate_dhkey_complete, NoDialog
    <3> QED
      BY <3>1, <3>2, <3>3, <3>4
  <2> QED
    BY <1>2, <2>2 DEF Opens
<1> QED
  BY <1>1, <1>2

\* A DHKey for the pairing under h.
LEMMA DhkeyRounds ==
    ASSUME BondsKept, ComparisonsAgree, FieldsTyped, NEW h \in Handle, conn[h] # None, h = askedLast,
           NEW e, Fronts(e, h), e.type = "generate_dhkey", sm_recv_evt_le_generate_dhkey_complete(e), conn'[h] # None
    PROVE  RoundsKept(h)
<1>1. /\ e \in Elements(toHost) /\ ConnOK(conn[h]) /\ toHost' = Tail(toHost) /\ toHost # <<>> /\ dialog = None
      /\ UNCHANGED <<job, link, peer, overlapped>> /\ Elements(toHost') \subseteq Elements(toHost)
      /\ Sequence(toHost) /\ Shapes /\ ConnsOK /\ AirOK(air) /\ e = Head(toHost) /\ ConnTyped(conn[h])
  BY ElementsTail DEF Fronts, BondsKept, ConnsOK, ComparisonsAgree, QueueOK, FieldsTyped
<1>2. Asked(h)
  BY <1>1 DEF Asked, DhkeyUnderWay, Elements
<1>3. ~OldInput(h)' /\ ~Typing(h) /\ SameRound(peer[h], peer'[h]) /\ (Live(h)' <=> Live(h))
  <2>1. dialog' # None => dialog'.kind \in {"show", "sc_input"}
    BY DhkeyDialog
  <2> QED
    BY <1>1, <2>1 DEF OldInput, Typing, SameRound, Live
<1>4. h \notin overlapped => IndexKept(h) /\ (Live(h) => PairingOK(h)) /\ NoneNew(h)
  BY <1>1, NoneNewTail DEF Fronts
<1>5. PairingOK(h) => RoundOK(h) /\ Matched(h) /\ peer[h].step # "resp"
  BY <1>2 DEF PairingOK, RoundOK
<1>6. ASSUME NEW ops, Settles(h, ops), \A op \in {"pairing_random", "pairing_resp"} : op \notin ops
      PROVE  /\ SameDeal(conn[h], conn'[h]) /\ AirFrom(h, ops) /\ ConnTyped(conn'[h])
             /\ h \notin overlapped => IndexKept(h)' /\ (Live(h) => RoundOK(h)')
  <2>1. SameDeal(conn[h], conn'[h]) /\ AirFrom(h, ops) /\ ConnTyped(conn'[h])
    BY <1>1, <1>6, SettlesHeard
  <2>2. h \notin overlapped => IndexKept(h)'
    BY <1>4, <2>1, IndexStays
  <2>3. ASSUME h \notin overlapped, Live(h) PROVE RoundOK(h)'
    <3>1. RoundOK(h) /\ Matched(h) /\ peer[h].step # "resp" /\ NoneNew(h)
      BY <1>4, <1>5, <2>3
    <3>2. Matched(h)'
      BY <1>3, <2>1, <3>1, MatchedStays DEF SameDeal
    <3> QED
      BY <1>3, <1>6, <2>1, <3>1, <3>2, RoundStays
  <2> QED
    BY <2>1, <2>2, <2>3
<1>7. CASE conn[h].method \notin {IIRD, IDRI} /\ Settles(h, {"pairing_public_key", "pairing_confirm"})
  <2>1. /\ ConnTyped(conn'[h])
        /\ h \notin overlapped => IndexKept(h)' /\ (Live(h) => RoundOK(h)')
    BY <1>6, <1>7
  <2>2. Matched(h) => ~Passkeyed(peer[h].req)
    BY <1>7 DEF Matched, Passkeyed
  <2>3. h \notin overlapped /\ Live(h) => PairingOK(h)'
    BY <1>1, <1>4, <1>5, <2>1, <2>2 DEF PairingOK
  <2> QED
    BY <1>3, <2>1, <2>3 DEF RoundsKept
<1>8. CASE Settles(h, {"pairing_public_key", "keypress"}) /\ Typing(h)'
  <2>1. PICK ops : ops = {"pairing_public_key", "keypress"}
    OBVIOUS
  <2>2. /\ SameDeal(conn[h], conn'[h]) /\ AirFrom(h, ops) /\ ConnTyped(conn'[h])
        /\ h \notin overlapped => IndexKept(h)' /\ (Live(h) => RoundOK(h)')
    BY <1>6, <1>8, <2>1
  <2>3. ASSUME h \notin overlapped, Live(h), Passkeyed(peer[h].req) PROVE PasskeyOK(h)'
    <3>1. PasskeyOK(h) /\ NoneNew(h)
      BY <1>4, <2>3 DEF PairingOK
    <3>2. InQueue(toHost', h, "pairing_confirm") => InQueue(toHost, h, "pairing_confirm")
      BY <3>1, NoneNewQueue
    <3>3. InAir(h, "pairing_confirm")' => InAir(h, "pairing_confirm")
      BY <2>1, <2>2 DEF AirFrom, InAir
    <3>4. PICK st, st2 : st = peer[h] /\ st2 = peer'[h] /\ st2 = st
      BY <1>1
    <3>5. st.step \in {"resp", "pk"} => ~InAir(h, "pairing_confirm")' /\ ~InQueue(toHost', h, "pairing_confirm")
      BY <3>1, <3>2, <3>3, <3>4 DEF PasskeyOK
    <3>6. st.step \in {"resp", "pk", "enter"} => st.round = 0
      BY <3>1, <3>4 DEF PasskeyOK
    <3>7. ASSUME st.step \notin {"resp", "pk"} PROVE Quits(air'[h]) \/ InRound(h)'
      <4>1. Quits(air[h]) \/ InRound(h)
        BY <1>3, <3>1, <3>4, <3>7 DEF PasskeyOK
      <4>2. InRound(h) => InRound(h)'
        BY <1>1, <1>3, <2>2, <3>1, InRoundStays DEF SameDeal, ConnTyped
      <4> QED
        BY <2>2, <4>1, <4>2 DEF AirFrom
    <3> QED
      BY <1>3, <1>8, <3>4, <3>5, <3>6, <3>7 DEF PasskeyOK
  <2>4. h \notin overlapped /\ Live(h) => PairingOK(h)'
    BY <1>1, <2>2, <2>3 DEF PairingOK
  <2> QED
    BY <1>3, <2>2, <2>4 DEF RoundsKept
<1>9. CASE \E c : /\ Utters(h, c, {"pairing_public_key", "keypress"})
                  /\ c.sc = conn[h].sc /\ c.method = conn[h].method /\ c.passkey_index = 0
                  /\ ConnTyped(conn[h]) => ConnTyped(c)
  <2>1. PICK c : /\ Utters(h, c, {"pairing_public_key", "keypress"})
                 /\ c.sc = conn[h].sc /\ c.method = conn[h].method /\ c.passkey_index = 0
                 /\ ConnTyped(conn[h]) => ConnTyped(c)
    BY <1>9
  <2>2. conn'[h] = c /\ AirFrom(h, {"pairing_public_key", "keypress"}) /\ ConnTyped(c)
    BY <1>1, <2>1, UttersHeard
  <2>3. h \notin overlapped => IndexKept(h)'
    BY <1>4, <2>1, <2>2, IndexZero
  <2>4. h \notin overlapped /\ Live(h) => PairingOK(h)'
    BY <1>2, <1>3, <1>4, <1>5, <2>1, <2>2, PairingZero
  <2> QED
    BY <1>3, <2>2, <2>3, <2>4 DEF RoundsKept
<1> QED
  BY <1>1, <1>7, <1>8, <1>9, DhkeyTypes

\* A connection begins: nothing of it was answered before.
LEMMA NewConnectionRounds ==
    ASSUME NEW h \in Handle, NEW e, Fronts(e, h), Sequence(toHost), Opening(e, h), NEW l,
           conn'[h] = NewConnection(l), air'[h] = air[h], dialog' = None, UNCHANGED <<askedLast, cmd>>
    PROVE  RoundsKept(h)
<1>1. /\ e \in Elements(toHost) /\ toHost' = Tail(toHost) /\ toHost # <<>>
      /\ UNCHANGED <<job, link, peer>> /\ Elements(toHost') \subseteq Elements(toHost)
  BY ElementsTail DEF Fronts
<1>2. PICK c : c = conn'[h] /\ c.passkey_index = 0 /\ ConnTyped(c)
  BY DEF NewConnection, ConnTyped, sm_pairing_method_t
<1>3. Asked(h)' => Asked(h)
  BY <1>1, UnderWayFrom DEF Asked
<1>4. ASSUME h \notin overlapped PROVE IndexKept(h)' /\ (Live(h)' => PairingOK(h)')
  <2>1. IndexKept(h) /\ (Live(h) => PairingOK(h)) /\ NoneNew(h)
    BY <1>1, <1>4, NoneNewTail DEF Fronts
  <2>2. IndexKept(h)'
    BY <1>2, <2>1, IndexZero
  <2>3. ASSUME Live(h) PROVE PairingOK(h)'
    <3>1. RoundOK(h) /\ (Passkeyed(peer[h].req) => PasskeyOK(h))
      BY <2>1, <2>3 DEF PairingOK
    <3>2. ~Matched(h)
      BY <1>1 DEF Matched
    <3>3. peer[h].step = "resp" /\ ~InAir(h, "pairing_public_key")
      BY <3>1, <3>2 DEF RoundOK
    <3>4. AirFrom(h, {}) /\ SameRound(peer[h], peer'[h])
      BY <1>1, AirSame DEF SameRound
    <3>5. RoundOK(h)'
      BY <1>3, <2>1, <3>1, <3>2, <3>4, RoundStays
    <3>6. ASSUME Passkeyed(peer[h].req) PROVE PasskeyOK(h)'
      <4>1. ~InQueue(toHost', h, "pairing_confirm")
        BY <2>1, <3>1, <3>3, <3>6, NoneNewQueue DEF PasskeyOK
      <4>2. ~InAir(h, "pairing_confirm")' /\ ~InAir(h, "pairing_public_key")'
        BY <3>1, <3>3, <3>6 DEF PasskeyOK, InAir
      <4>3. ~OldInput(h)'
        BY DEF OldInput
      <4>4. peer'[h].step = "resp" /\ peer'[h].round = 0
        BY <1>1, <3>1, <3>3, <3>6 DEF PasskeyOK
      <4> QED
        BY <4>1, <4>2, <4>3, <4>4 DEF PasskeyOK
    <3> QED
      BY <1>1, <3>5, <3>6 DEF PairingOK
  <2>4. Live(h)' => Live(h)
    BY <1>1 DEF Live
  <2> QED
    BY <2>2, <2>3, <2>4
<1> QED
  BY <1>2, <1>4 DEF RoundsKept

\* What the host handles elsewhere, or without a word.
LEMMA AsideRounds ==
    ASSUME FieldsTyped, NEW h \in Handle, NEW e, Fronts(e, h), Sequence(toHost),
           SameDeal(conn[h], conn'[h]), conn[h] # None => ConnTyped(conn'[h]), NEW ops, AirFrom(h, ops),
           \A op \in {"pairing_random", "pairing_resp", "pairing_public_key", "pairing_confirm"} : op \notin ops,
           ~Typing(h)', ~OldInput(h)', Live(h) /\ Asked(h)' => Asked(h)
    PROVE  RoundsKept(h)
<1>1. toHost' = Tail(toHost) /\ toHost # <<>> /\ dialog = None /\ UNCHANGED <<link, peer>>
  BY DEF Fronts
<1>2. conn'[h] # None => ConnTyped(conn'[h])
  BY DEF SameDeal
<1>3. ASSUME h \notin overlapped PROVE IndexKept(h)' /\ (Live(h)' => PairingOK(h)')
  <2>1. IndexKept(h) /\ (Live(h) => PairingOK(h)) /\ NoneNew(h)
    BY <1>1, <1>3, NoneNewTail DEF Fronts
  <2>2. conn[h] # None => ConnTyped(conn[h])
    BY DEF FieldsTyped
  <2> QED
    BY <1>1, <2>1, <2>2, HostSettles
<1> QED
  BY <1>2, <1>3 DEF RoundsKept

LEMMA HostReceivesRounds ==
    ASSUME BondsKept, FailureExplained, ComparisonsAgree, RoundsAgree, HostReceives PROVE RoundsAgree'
<1>1. PICK e : e = Head(toHost)
  OBVIOUS
<1>2. /\ toHost # <<>> /\ toHost' = Tail(toHost) /\ Sequence(toHost) /\ e \in Elements(toHost)
      /\ Elements(toHost') \subseteq Elements(toHost)
      /\ e.type \in Within => e.h \in Handle /\ conn[e.h] # None
      /\ Taken(e, conn, conn')
  BY <1>1, HostReceivesTakes, ElementsTail DEF BondsKept, QueueOK
<1>3. UNCHANGED <<job, link, peer, overlapped>> /\ dialog = None
  BY DEF HostReceives, peerVars
<1>4. Shapes /\ ConnsOK /\ AirOK(air) /\ FieldsTyped /\ \A h \in Handle : Fronts(e, h)
  BY <1>1, <1>2, <1>3 DEF BondsKept, ComparisonsAgree, RoundsAgree, Fronts
<1>5. ASSUME NEW h \in Handle PROVE RoundsKept(h)
  <2>1. conn[h] # None => ConnTyped(conn[h])
    BY <1>4 DEF FieldsTyped
  <2>2. ASSUME conn'[h] = conn[h], air'[h] = air[h], ~Typing(h)', ~OldInput(h)', Live(h) /\ Asked(h)' => Asked(h)
        PROVE  RoundsKept(h)
    <3>1. SameDeal(conn[h], conn'[h]) /\ AirFrom(h, {})
      BY <2>2, AirSame DEF SameDeal
    <3> QED
      BY <1>2, <1>4, <2>1, <2>2, <3>1, AsideRounds
  <2>3. e.type # "sm" /\ Live(h) /\ Asked(h)' => Asked(h)
    <3>1. e.type # "sm" /\ Live(h) => askedLast' = askedLast /\ (cmd' = cmd \/ cmd'.type # "generate_dhkey")
      BY <1>1, <1>4, EventTouches DEF Live
    <3> QED
      BY <1>2, <1>3, <3>1, UnderWayFrom DEF Asked
  <2>4. CASE e.type = "sm" /\ e.h = h
    <3>1. sm_recv(h, e.msg) /\ conn[h] # None
      BY <1>1, <1>2, <2>4 DEF HostReceives, Within
    <3>2. conn'[h] # None
      BY <1>2, <2>4, <3>1 DEF Taken, Turns
    <3>3. CASE e.msg.op = "pairing_req"
      BY <1>4, <2>4, <3>1, <3>2, <3>3, RequestRounds
    <3>4. CASE e.msg.op = "pairing_random"
      BY <1>4, <2>4, <3>1, <3>2, <3>4, RandomRounds
    <3>5. CASE e.msg.op \notin {"pairing_req", "pairing_random"}
      BY <1>2, <1>4, <2>1, <2>4, <3>1, <3>2, <3>5, PlainPacketRounds
    <3> QED
      BY <3>3, <3>4, <3>5
  <2>5. CASE e.type = "sm" /\ e.h # h
    <3>1. sm_recv(e.h, e.msg) /\ e.h \in Handle /\ ConnOK(conn[e.h])
      BY <1>1, <1>2, <1>4, <2>5 DEF HostReceives, Within, ConnsOK
    <3>2. Touches(e.h)
      BY <1>4, <3>1, PacketTouches
    <3>3. conn'[h] = conn[h] /\ air'[h] = air[h] /\ ~Typing(h)' /\ ~OldInput(h)'
      BY <2>5, <3>2 DEF Touches, Typing, OldInput
    <3>4. Asked(h)' => Asked(h)
      <4>1. askedLast' = e.h \/ (askedLast' = askedLast /\ cmd' = cmd)
        BY <3>1, PacketAsks
      <4> QED
        BY <1>2, <1>3, <2>5, <4>1, UnderWayFrom DEF Asked
    <3> QED
      BY <2>2, <3>3, <3>4
  <2>6. CASE e.type = "generate_dhkey"
    <3>1. sm_recv_evt_le_generate_dhkey_complete(e)
      BY <1>1, <2>6 DEF HostReceives
    <3>2. CASE askedLast = h /\ conn[h] # None
      <4>1. conn'[h] # None
        BY <1>2, <2>6, <3>2 DEF Taken, Turns
      <4> QED
        BY <1>4, <2>6, <3>1, <3>2, <4>1, DhkeyRounds
    <3>3. CASE ~(askedLast = h /\ conn[h] # None)
      <4>1. /\ dialog' # None => dialog'.h = askedLast
            /\ conn[askedLast] = None => UNCHANGED <<conn, air>> /\ dialog' = None
        BY <3>1, DhkeyDialog
      <4>2. h # askedLast => conn'[h] = conn[h] /\ air'[h] = air[h]
        BY <1>4, <3>1, DhkeyTouches
      <4>3. conn'[h] = conn[h] /\ air'[h] = air[h] /\ ~Typing(h)' /\ ~OldInput(h)'
        BY <3>3, <4>1, <4>2 DEF Typing, OldInput
      <4> QED
        BY <2>2, <2>3, <2>6, <4>3
    <3> QED
      BY <3>2, <3>3
  <2>7. CASE e.type = "ltk_req"
    <3>1. sm_recv_evt_le_ltk_req(e.h)
      BY <1>1, <2>7 DEF HostReceives
    <3>2. UNCHANGED <<conn, air>> /\ dialog' = None
      BY <3>1 DEF sm_recv_evt_le_ltk_req, NoDialog
    <3>3. ~Typing(h)' /\ ~OldInput(h)'
      BY <3>2 DEF Typing, OldInput
    <3> QED
      BY <2>2, <2>3, <2>7, <3>2, <3>3
  <2>8. CASE e.type = "encryption_change"
    <3>1. sm_recv_evt_encryption_change(e.h, e.enabled) /\ e.h \in Handle /\ conn[e.h] # None /\ ConnOK(conn[e.h])
      BY <1>1, <1>2, <1>4, <2>8 DEF HostReceives, Within, ConnsOK
    <3>2. dialog' = None
      BY <3>1 DEF sm_recv_evt_encryption_change, NoDialog
    <3>3. ~Typing(h)' /\ ~OldInput(h)'
      BY <3>2 DEF Typing, OldInput
    <3>4. Settles(e.h, KeyOp) \/ UNCHANGED <<conn, air>>
      BY <3>1, EncryptionTypes
    <3>5. CASE UNCHANGED <<conn, air>>
      BY <2>2, <2>3, <2>8, <3>3, <3>5
    <3>6. CASE Settles(e.h, KeyOp)
      <4>1. conn'[e.h] # None
        BY <1>2, <2>8, <3>1 DEF Taken, Turns
      <4>2. /\ SameDeal(conn[e.h], conn'[e.h]) /\ AirFrom(e.h, KeyOp) /\ (ConnTyped(conn[e.h]) => ConnTyped(conn'[e.h]))
            /\ \A g \in Handle : g # e.h => conn'[g] = conn[g] /\ air'[g] = air[g]
        BY <1>4, <3>1, <3>6, <4>1, SettlesHeard
      <4>3. CASE h # e.h
        BY <2>2, <2>3, <2>8, <3>3, <4>2, <4>3
      <4>4. CASE h = e.h
        <5>1. \A op \in {"pairing_random", "pairing_resp", "pairing_public_key", "pairing_confirm"} : op \notin KeyOp
          BY DEF KeyOp
        <5> QED
          BY <1>2, <1>4, <2>1, <2>3, <2>8, <3>3, <4>2, <4>4, <5>1, AsideRounds
      <4> QED
        BY <4>3, <4>4
    <3> QED
      BY <3>4, <3>5, <3>6
  <2>9. CASE e.type \notin {"sm", "generate_dhkey", "ltk_req", "encryption_change"}
    <3>1. OtherEvent(e)
      BY <1>1, <2>9 DEF HostReceives
    <3>2. UNCHANGED <<air, askedLast, cmd>> /\ dialog' = None /\ ~Typing(h)' /\ ~OldInput(h)'
      BY <3>1 DEF OtherEvent, NoDialog, Typing, OldInput
    <3>3. CASE Opening(e, h)
      <4>1. conn'[h] = NewConnection(e.link)
        BY <1>4, <3>1, <3>3 DEF OtherEvent, Opening, Shapes
      <4> QED
        BY <1>2, <1>4, <3>2, <3>3, <4>1, NewConnectionRounds
    <3>4. CASE Closing(e, h)
      <4>1. conn'[h] = None
        BY <1>4, <3>1, <3>4 DEF OtherEvent, Closing, Shapes
      <4>2. ~Live(h) /\ ~Live(h)'
        BY <1>2, <1>3, <3>4 DEF FailureExplained, EndsLast, NoEnd, Closing, Live
      <4>3. h \notin overlapped => IndexKept(h)'
        <5>1. h \notin overlapped => IndexKept(h) /\ NoneNew(h)
          BY <1>2, NoneNewTail DEF RoundsAgree
        <5> QED
          BY <4>1, <5>1, IndexStays
      <4> QED
        BY <4>1, <4>2, <4>3 DEF RoundsKept
    <3>5. CASE ~Opening(e, h) /\ ~Closing(e, h)
      <4>1. conn'[h] = conn[h]
        BY <1>4, <3>1, <3>5 DEF OtherEvent, Opening, Closing, Shapes
      <4> QED
        BY <2>2, <2>3, <2>9, <3>2, <4>1
    <3> QED
      BY <3>3, <3>4, <3>5
  <2> QED
    BY <2>4, <2>5, <2>6, <2>7, <2>8, <2>9
<1>6. up' \in BOOLEAN /\ allowed' \in 0 .. 1 /\ DbTyped(db')
  BY <1>4, HostFields
<1>7. FieldsTyped'
  BY <1>2, <1>4, <1>5, <1>6 DEF FieldsTyped, DbTyped, RoundsKept
<1> QED
  BY <1>3, <1>5, <1>7 DEF RoundsAgree, RoundsKept

-----------------------------------------------------------------------------
(* The controller keeps the number of the bit.                              *)

\* Something happens elsewhere.
LEMMA RoundAside ==
    ASSUME FieldsTyped, NEW h \in Handle, IndexKept(h), Live(h) => PairingOK(h), Sequence(toHost),
           NEW t, Sequence(t), toHost' = toHost \o t, \A e \in Elements(t) : ~Steers(e, h),
           conn'[h] = conn[h], dialog' = dialog, Asked(h)' => Asked(h),
           Live(h)' => Live(h) /\ SameRound(peer[h], peer'[h]) /\ air'[h] = air[h]
    PROVE  IndexKept(h)' /\ (Live(h)' => PairingOK(h)')
<1>1. NoneNew(h)
  BY NoneNewJoin
<1>2. SameDeal(conn[h], conn'[h]) /\ (conn[h] # None => ConnTyped(conn[h]))
  BY DEF SameDeal, FieldsTyped
<1>3. (Typing(h)' <=> Typing(h)) /\ (OldInput(h)' <=> OldInput(h))
  BY DEF Typing, OldInput
<1>4. IndexKept(h)'
  BY <1>1, <1>2, IndexStays
<1>5. ASSUME Live(h)' PROVE PairingOK(h)'
  <2>1. PairingOK(h) /\ SameRound(peer[h], peer'[h]) /\ AirFrom(h, {})
    BY <1>5, AirSame
  <2> QED
    BY <1>1, <1>2, <1>3, <2>1, PairingStays
<1> QED
  BY <1>4, <1>5

\* A step that tells the host t, and may end the link under g.
LEMMA TellsRounds ==
    ASSUME BondsKept, RoundsAgree, NEW t, Sequence(t), toHost' = toHost \o t,
           \A e \in Elements(t) : /\ e.type # "conn_complete"
                                  /\ e.type = "sm" => e.msg.op \in KeyOp,
           \A h \in Handle : Live(h)' => Live(h) /\ SameRound(peer[h], peer'[h]) /\ air'[h] = air[h],
           UNCHANGED <<up, allowed, db, conn, dialog, askedLast, overlapped>>, DhkeyUnderWay' => DhkeyUnderWay
    PROVE  RoundsAgree'
<1>1. Sequence(toHost) /\ FieldsTyped
  BY DEF BondsKept, QueueOK, RoundsAgree
<1>2. \A e \in Elements(t) : \A h : ~Steers(e, h)
  BY DEF Steers, Opening, KeyOp
<1>3. Elements(toHost') = Elements(toHost) \cup Elements(t)
  BY <1>1, ElementsJoin
<1>4. \A h : Asked(h)' => Asked(h)
  BY DEF Asked
<1>5. \A h \in Handle : h \notin overlapped' => IndexKept(h)' /\ (Live(h)' => PairingOK(h)')
  BY <1>1, <1>2, <1>4, RoundAside DEF RoundsAgree
<1>6. \A e \in Elements(t) : ~(e.type = "sm" /\ e.msg.op = "pairing_req")
  BY DEF KeyOp
<1>7. FieldsTyped'
  BY <1>1, <1>3, <1>6 DEF FieldsTyped
<1> QED
  BY <1>5, <1>7 DEF RoundsAgree

LEMMA ControllerExecutesRounds ==
    ASSUME BondsKept, RoundsAgree, ControllerExecutes PROVE RoundsAgree'
<1>1. PICK t : Sequence(t) /\ toHost' = toHost \o t /\ (Executed(t) \/ ExecutedEnds(t))
  BY ControllerTells
<1>2. PICK g : g = cmd.h
  OBVIOUS
<1>3. /\ cmd # None /\ cmd' = None /\ g \in Handle /\ Shapes /\ PeerOK(peer[g])
      /\ UNCHANGED <<up, allowed, db, conn, dialog, askedLast, overlapped>>
  BY <1>2 DEF ControllerExecutes, BondsKept, CmdOK, hostVars, PeersOK
<1>4. /\ \A e \in Elements(t) : /\ e.type # "conn_complete"
                                /\ e.type = "sm" => e.msg.op \in KeyOp
      /\ \A e \in Elements(t) : e.type # "generate_dhkey"
      /\ job' = job \/ cmd.type = "generate_dhkey"
  BY <1>1 DEF Executed, ExecutedEnds
<1>5. Elements(toHost') = Elements(toHost) \cup Elements(t)
  BY <1>1, ElementsJoin DEF BondsKept, QueueOK
<1>6. DhkeyUnderWay' => DhkeyUnderWay
  BY <1>3, <1>4, <1>5, UnderWayFrom
<1>7. \A h \in Handle : Live(h)' => Live(h) /\ SameRound(peer[h], peer'[h]) /\ air'[h] = air[h]
  <2>1. CASE UNCHANGED <<air, link, peer>>
    BY <2>1 DEF SameRound, Live
  <2>2. CASE Encrypted(g)
    <3>1. PICK waits : waits = IF peer[g].pairing THEN peer[g].req.rdist \cap SM_RESP.rdist ELSE {}
      OBVIOUS
    <3>2. peer' = [peer EXCEPT ![g].encrypted = peer[g].ltk, ![g].waits = waits,
                               ![g].step = IF waits = {} THEN "idle" ELSE "keys",
                               ![g].pairing = waits # {}]
      BY <2>2, <3>1 DEF Encrypted
    <3>3. peer'[g].step \in {"idle", "keys"}
      BY <1>3, <3>2 DEF Shapes, PeerOK, PeerFields
    <3>4. \A h \in Handle : h # g => peer'[h] = peer[h]
      BY <1>3, <3>2 DEF Shapes
    <3>5. air' = air /\ link' = link
      BY <2>2 DEF Encrypted
    <3> QED
      BY <3>3, <3>4, <3>5 DEF SameRound, Live
  <2>3. CASE Unlink(g)
    BY <1>3, <2>3 DEF Unlink, Shapes, SameRound, Live
  <2>4. CASE peer' = [peer EXCEPT ![g].step = "idle", ![g].pairing = FALSE] /\ UNCHANGED <<air, link>>
    <3>1. peer'[g].step = "idle" /\ \A h \in Handle : h # g => peer'[h] = peer[h]
      BY <1>3, <2>4 DEF Shapes, PeerOK, PeerFields
    <3> QED
      BY <2>4, <3>1 DEF SameRound, Live
  <2>5. \/ UNCHANGED <<air, link, peer>> \/ Encrypted(g) \/ Unlink(g)
        \/ peer' = [peer EXCEPT ![g].step = "idle", ![g].pairing = FALSE] /\ UNCHANGED <<air, link>>
    <3>1. CASE cmd.type = "generate_dhkey"
      BY <1>2, <3>1 DEF ControllerExecutes, peerVars
    <3>2. CASE cmd.type # "generate_dhkey" /\ peer[g].step # "encrypt"
      BY <1>2, <3>2 DEF ControllerExecutes, peerVars
    <3>3. CASE cmd.type = "ltk_req_reply" /\ peer[g].step = "encrypt" /\ cmd.ltk = peer[g].ltk
      BY <1>2, <3>3 DEF ControllerExecutes
    <3>4. CASE cmd.type = "ltk_req_reply" /\ peer[g].step = "encrypt" /\ cmd.ltk # peer[g].ltk
      BY <1>2, <3>4 DEF ControllerExecutes
    <3>5. CASE cmd.type \notin {"generate_dhkey", "ltk_req_reply"} /\ peer[g].step = "encrypt"
      BY <1>2, <3>5 DEF ControllerExecutes
    <3> QED
      BY <3>1, <3>2, <3>3, <3>4, <3>5
  <2> QED
    BY <2>1, <2>2, <2>3, <2>4, <2>5
<1> QED
  BY <1>1, <1>3, <1>4, <1>6, <1>7, TellsRounds

LEMMA ControllerComputesRounds ==
    ASSUME BondsKept, RoundsAgree, ControllerComputes PROVE RoundsAgree'
<1>1. PICK e, t : e = [type |-> "generate_dhkey", h |-> job.h, dhkey |-> DhKey(job.pk)] /\ t = <<e>>
  OBVIOUS
<1>2. /\ e.type = "generate_dhkey" /\ toHost' = Append(toHost, e) /\ job # None /\ job' = None
      /\ UNCHANGED <<up, allowed, db, conn, dialog, askedLast, cmd, air, link, peer, overlapped>>
  BY <1>1 DEF ControllerComputes, hostVars, peerVars, history
<1>3. Sequence(t) /\ Elements(t) = {e} /\ toHost' = toHost \o t
  BY <1>1, <1>2, AppendOne, ElementsFew DEF BondsKept, QueueOK
<1>4. DhkeyUnderWay' => DhkeyUnderWay
  BY <1>2 DEF DhkeyUnderWay
<1>5. \A h : (Live(h)' <=> Live(h)) /\ SameRound(peer[h], peer'[h])
  BY <1>2 DEF SameRound, Live
<1> QED
  BY <1>2, <1>3, <1>4, <1>5, TellsRounds

LEMMA LinkLostRounds ==
    ASSUME BondsKept, RoundsAgree, NEW g \in Handle, LinkLost(g) PROVE RoundsAgree'
<1>1. PICK e, t : e = [type |-> "disconn_complete", h |-> g] /\ t = <<e>>
  OBVIOUS
<1>2. /\ Unlink(g) /\ toHost' = Append(toHost, e)
      /\ e.type = "disconn_complete" /\ e.h = g
      /\ UNCHANGED <<up, allowed, db, conn, dialog, askedLast, job, cmd, overlapped>>
  BY <1>1 DEF LinkLost, hostVars, ctrlVars
<1>3. toHost' = toHost \o t /\ Sequence(t) /\ Elements(t) = {e}
  BY <1>1, <1>2, AppendOne, ElementsFew DEF BondsKept, QueueOK
<1>4. Elements(toHost') = Elements(toHost) \cup {e}
  BY <1>3, ElementsJoin DEF BondsKept, QueueOK
<1>5. DhkeyUnderWay' => DhkeyUnderWay
  BY <1>2, <1>4, UnderWayFrom
<1>6. \A h \in Handle : Live(h)' => Live(h) /\ SameRound(peer[h], peer'[h]) /\ air'[h] = air[h]
  BY <1>2 DEF Unlink, BondsKept, Shapes, SameRound, Live
<1> QED
  BY <1>2, <1>3, <1>5, <1>6, TellsRounds

-----------------------------------------------------------------------------
(* The peers keep the number of the bit.                                    *)

\* The peer under h tells the host t.
Told(h, t) ==
    /\ Sequence(t) /\ toHost' = toHost \o t
    /\ \A e \in Elements(t) : /\ e.type \in {"sm", "ltk_req"} /\ e.h = h
                              /\ e.type = "sm" /\ e.msg.op = "pairing_req" => e.msg.value \in Offers

\* It is no request and no random value.
Plainly(h, t) ==
    /\ Told(h, t)
    /\ \A e \in Elements(t) : e.type = "sm" => e.msg.op \notin {"pairing_req", "pairing_random"}

KeptUnder(h) == h \notin overlapped => IndexKept(h) /\ (Live(h) => PairingOK(h))

LEMMA PeerRounds ==
    ASSUME BondsKept, RoundsAgree, NEW g \in Handle, NEW t, Told(g, t),
           \A h \in Handle : h # g => peer'[h] = peer[h] /\ air'[h] = air[h],
           \A h \in Handle : h # g => (h \in overlapped' <=> h \in overlapped),
           UNCHANGED <<up, allowed, db, conn, dialog, askedLast, cmd, job, link>>,
           KeptUnder(g)'
    PROVE  RoundsAgree'
<1>1. Sequence(toHost) /\ FieldsTyped /\ Sequence(t) /\ toHost' = toHost \o t
  BY DEF BondsKept, QueueOK, RoundsAgree, Told
<1>2. Elements(toHost') = Elements(toHost) \cup Elements(t)
  BY <1>1, ElementsJoin
<1>3. DhkeyUnderWay' => DhkeyUnderWay
  BY <1>2, UnderWayFrom DEF Told
<1>4. ASSUME NEW h \in Handle, h # g, h \notin overlapped' PROVE IndexKept(h)' /\ (Live(h)' => PairingOK(h)')
  <2>1. \A e \in Elements(t) : ~Steers(e, h)
    BY <1>4 DEF Told, Steers, Opening
  <2>2. IndexKept(h) /\ (Live(h) => PairingOK(h))
    BY <1>4 DEF RoundsAgree
  <2>3. Asked(h)' => Asked(h)
    BY <1>3 DEF Asked
  <2>4. Live(h)' => Live(h) /\ SameRound(peer[h], peer'[h]) /\ air'[h] = air[h]
    BY <1>4 DEF Live, SameRound
  <2> QED
    BY <1>1, <2>1, <2>2, <2>3, <2>4, RoundAside
<1>5. FieldsTyped'
  BY <1>1, <1>2 DEF FieldsTyped, Told
<1> QED
  BY <1>4, <1>5 DEF RoundsAgree, KeptUnder

\* What the peer says of its pairings.
LEMMA SaidPlainly ==
    ASSUME NEW h, NEW st, NEW msgs, Sequence(toHost), PeerSays(h, st, msgs),
           msgs = <<>> \/ \E m : msgs = <<m>> /\ m.op \notin {"pairing_req", "pairing_random"}
    PROVE  \E t : Plainly(h, t)
<1>1. CASE msgs = <<>>
  <2>1. PICK t : Sequence(t) /\ toHost' = toHost \o t /\ Elements(t) = {}
    BY <1>1, SaysMore
  <2> QED
    BY <2>1 DEF Plainly, Told
<1>2. CASE \E m : msgs = <<m>> /\ m.op \notin {"pairing_req", "pairing_random"}
  <2>1. PICK m : msgs = <<m>> /\ m.op \notin {"pairing_req", "pairing_random"}
    BY <1>2
  <2>2. PICK e : e = [type |-> "sm", h |-> h, msg |-> m]
    OBVIOUS
  <2>3. PICK t : Sequence(t) /\ toHost' = toHost \o t /\ Elements(t) = {e}
    BY <2>1, <2>2, SaysMore
  <2>4. e.type = "sm" /\ e.h = h /\ e.msg = m
    BY <2>2
  <2> QED
    BY <2>1, <2>3, <2>4 DEF Plainly, Told
<1> QED
  BY <1>1, <1>2

LEMMA EncryptionPlainly ==
    ASSUME NEW h, NEW st, Sequence(toHost), PeerStartsEncryption(h, st) PROVE \E t : Plainly(h, t)
<1>1. PICK e : e = [type |-> "ltk_req", h |-> h]
  OBVIOUS
<1>2. toHost' = toHost \o <<e>> /\ Sequence(<<e>>)
  BY <1>1, AppendOne DEF PeerStartsEncryption
<1>3. Elements(<<e>>) = {e} /\ e.type = "ltk_req" /\ e.h = h
  BY <1>1, ElementsFew
<1> QED
  BY <1>2, <1>3 DEF Plainly, Told

LEMMA NothingPlainly == ASSUME NEW h, Sequence(toHost), UNCHANGED toHost PROVE \E t : Plainly(h, t)
<1>1. PICK S : toHost \in Seq(S)
  BY DEF Sequence
<1>2. toHost \o <<>> = toHost
  BY <1>1, ConcatEmptySeq
<1> QED
  BY <1>2, ShortSequences, ElementsFew DEF Plainly, Told

\* The host gets no request and no random value.
LEMMA IndexPlainly ==
    ASSUME NEW h, IndexKept(h), Sequence(toHost), NEW t, Plainly(h, t), conn' = conn
    PROVE  IndexKept(h)'
<1>1. /\ Sequence(t) /\ toHost' = toHost \o t /\ Elements(toHost') = Elements(toHost) \cup Elements(t)
  BY ElementsJoin DEF Plainly, Told
<1>2. /\ ~InQueue(t, h, "pairing_random") /\ ~InQueue(t, h, "pairing_req")
      /\ \A e \in Elements(t) : ~Opening(e, h)
  BY DEF Plainly, Told, InQueue, IsPacket, Opening
<1>3. \A op \in {"pairing_random", "pairing_req"} : InQueue(toHost', h, op) <=> InQueue(toHost, h, op)
  BY <1>1, <1>2 DEF InQueue
<1>4. AtMostOne(toHost, h, "pairing_random") /\ AtMostOne(toHost, h, "pairing_req")
  BY DEF IndexKept
<1>5. AtMostOne(toHost', h, "pairing_random") /\ AtMostOne(toHost', h, "pairing_req")
  BY <1>1, <1>2, <1>4, AtMostOneJoin
<1> QED
  BY <1>1, <1>2, <1>3, <1>5 DEF IndexKept

\* The host gets its only random value.
LEMMA IndexRandom ==
    ASSUME NEW h, IndexKept(h), Sequence(toHost), NEW t, Told(h, t), Len(t) = 1,
           \A e \in Elements(t) : e.type = "sm" /\ e.msg.op = "pairing_random", conn' = conn,
           ~InQueue(toHost, h, "pairing_random"), Matched(h),
           Passing(conn[h]) => conn[h].passkey_index < PasskeyBits
    PROVE  IndexKept(h)' /\ InQueue(toHost', h, "pairing_random")
<1>1. /\ Sequence(t) /\ toHost' = toHost \o t /\ Elements(toHost') = Elements(toHost) \cup Elements(t)
  BY ElementsJoin DEF Told
<1>2. DOMAIN t = 1 .. 1
  BY <1>1, SequenceFacts
<1>3. t[1] \in Elements(t) /\ AtMostOne(t, h, "pairing_random")
  BY <1>2 DEF AtMostOne, Elements
<1>4. ~InQueue(t, h, "pairing_req") /\ \A e \in Elements(t) : ~Opening(e, h)
  BY DEF Told, InQueue, IsPacket, Opening
<1>5. InQueue(toHost', h, "pairing_random")
  BY <1>1, <1>3 DEF InQueue, IsPacket, Told
<1>6. AtMostOne(toHost, h, "pairing_req")
  BY DEF IndexKept
<1>7. AtMostOne(toHost', h, "pairing_random") /\ AtMostOne(toHost', h, "pairing_req")
  BY <1>1, <1>3, <1>4, <1>6, AtMostOneJoin
<1>8. ~InQueue(toHost', h, "pairing_req") /\ \A e \in Elements(toHost') : ~Opening(e, h)
  BY <1>1, <1>4 DEF Matched, InQueue
<1> QED
  BY <1>5, <1>7, <1>8 DEF IndexKept

LEMMA MatchedMoves ==
    ASSUME NEW h, Matched(h), Sequence(toHost), NEW t, Moves(h, t), peer'[h].req = peer[h].req,
           \A e \in Elements(t) : e.msg.op # "pairing_req"
    PROVE  Matched(h)'
<1>1. Elements(toHost') = Elements(toHost) \cup Elements(t)
  BY ElementsJoin DEF Moves
<1>2. ~InQueue(toHost', h, "pairing_req") /\ \A e \in Elements(toHost') : ~Opening(e, h)
  BY <1>1 DEF Matched, Moves, InQueue, IsPacket, Opening
<1> QED
  BY <1>2 DEF Matched, Moves

\* The peer takes a packet that does not end its pairing.
LEMMA AirTaken ==
    ASSUME NEW h, Sequence(air[h]), air[h] # <<>>, air'[h] = Tail(air[h]), Head(air[h]).op # "pairing_failed"
    PROVE  AirFrom(h, {}) /\ \A op : InAir(h, op)' => InAir(h, op)
<1>1. Elements(Tail(air[h])) \subseteq Elements(air[h])
  BY ElementsTail
<1>2. Quits(air[h]) => Quits(Tail(air[h]))
  BY QuitsTail
<1>3. Lone(air[h]) => Lone(Tail(air[h]))
  BY LoneTail
<1> QED
  BY <1>1, <1>2, <1>3 DEF AirFrom, InAir

-----------------------------------------------------------------------------
(* The peer under h goes from one part of a pairing to the next.            *)

\* The peer has the response.
LEMMA ResponseTaken ==
    ASSUME NEW h, IndexKept(h), PairingOK(h), Sequence(toHost), NEW t, Plainly(h, t), Moves(h, t),
           Sequence(air[h]), air[h] # <<>>, air'[h] = Tail(air[h]), Head(air[h]).op = "pairing_resp",
           NEW st2, st2 = peer'[h], st2.req = peer[h].req, st2.pairing = peer[h].pairing,
           st2.round = peer[h].round, peer[h].step = "resp", st2.step \in {"pk", "enter", "begin"},
           IsSecureConnection(peer[h].req) => st2.step = "pk",
           \A e \in Elements(t) : e.msg.op = "pairing_public_key"
    PROVE  IndexKept(h)' /\ PairingOK(h)'
<1>1. RoundOK(h)
  BY DEF PairingOK
<1>2. AirFrom(h, {}) /\ \A op : InAir(h, op)' => InAir(h, op)
  BY AirTaken
<1>3. Head(air[h]) \in Elements(air[h])
  BY TailFacts, ElementsTail
<1>4. Matched(h)
  BY <1>1, <1>3 DEF RoundOK, InAir
<1>5. Matched(h)'
  BY <1>4, MatchedMoves
<1>6. Elements(toHost') = Elements(toHost) \cup Elements(t)
  BY ElementsJoin DEF Moves
<1>7. ~InQueue(toHost', h, "pairing_random") /\ \A e \in Elements(toHost') : ~IsPacket(e, h, "pairing_req")
  BY <1>1, <1>4, <1>6 DEF RoundOK, Matched, InQueue, IsPacket
<1>8. ~InAir(h, "pairing_random")' \/ Quits(air'[h])
  BY <1>1, <1>2 DEF RoundOK, AirFrom
<1>9. Quits(air'[h]) \/ Lone(air'[h])
  BY <1>1, <1>2 DEF RoundOK, AirFrom
<1>10. RoundOK(h)'
  BY <1>1, <1>5, <1>7, <1>8, <1>9 DEF RoundOK
<1>11. ASSUME Passkeyed(st2.req) PROVE PasskeyOK(h)'
  <2>1. PasskeyOK(h) /\ st2.step = "pk"
    BY <1>11 DEF PairingOK, Passkeyed
  <2>2. ~InAir(h, "pairing_confirm")' /\ ~InAir(h, "pairing_public_key")'
    BY <1>1, <1>2, <2>1 DEF PasskeyOK, RoundOK
  <2>3. ~InQueue(toHost', h, "pairing_confirm")
    BY <1>6, <2>1 DEF PasskeyOK, InQueue, IsPacket
  <2>4. ~OldInput(h)'
    BY <2>1 DEF PasskeyOK, OldInput, Moves
  <2>5. st2.round = 0
    BY <2>1 DEF PasskeyOK
  <2> QED
    BY <2>1, <2>2, <2>3, <2>4, <2>5 DEF PasskeyOK
<1> QED
  BY <1>10, <1>11, IndexPlainly DEF PairingOK, Moves

\* The peer has the host's public key and waits for its commitment, or for its user.
LEMMA PublicKeyTaken ==
    ASSUME NEW h, IndexKept(h), PairingOK(h), Sequence(toHost), NEW t, Plainly(h, t), Moves(h, t),
           Sequence(air[h]), air[h] # <<>>, air'[h] = Tail(air[h]), Head(air[h]).op = "pairing_public_key",
           NEW st2, st2 = peer'[h], st2.req = peer[h].req, st2.pairing = peer[h].pairing,
           st2.round = peer[h].round, peer[h].step = "pk", st2.step \in {"confirm", "enter", "begin"},
           Passkeyed(peer[h].req) => st2.step # "confirm", Elements(t) = {}
    PROVE  IndexKept(h)' /\ PairingOK(h)'
<1>1. RoundOK(h)
  BY DEF PairingOK
<1>2. AirFrom(h, {}) /\ \A op : InAir(h, op)' => InAir(h, op)
  BY AirTaken
<1>3. Head(air[h]) \in Elements(air[h])
  BY TailFacts, ElementsTail
<1>4. Matched(h)
  BY <1>1 DEF RoundOK
<1>5. Matched(h)'
  BY <1>4, MatchedMoves
<1>6. Elements(toHost') = Elements(toHost) \cup Elements(t)
  BY ElementsJoin DEF Moves
<1>7. ~InQueue(toHost', h, "pairing_random") /\ \A e \in Elements(toHost') : ~IsPacket(e, h, "pairing_req")
  BY <1>1, <1>4, <1>6 DEF RoundOK, Matched, InQueue, IsPacket
<1>8. ~InAir(h, "pairing_random")' \/ Quits(air'[h])
  BY <1>1, <1>2 DEF RoundOK, AirFrom
<1>9. Quits(air'[h]) \/ Lone(air'[h])
  BY <1>1, <1>2 DEF RoundOK, AirFrom
<1>10. RoundOK(h)'
  BY <1>1, <1>5, <1>7, <1>8, <1>9 DEF RoundOK
<1>11. ASSUME Passkeyed(st2.req) PROVE PasskeyOK(h)'
  <2>1. PasskeyOK(h) /\ st2.step \in {"enter", "begin"}
    BY <1>11 DEF PairingOK
  <2>2. st2.round = 0
    BY <2>1 DEF PasskeyOK
  <2>3. Quits(air[h]) \/ Typing(h) \/ conn[h].passkey_index = 0
    BY <1>3, <2>1 DEF PasskeyOK, InAir
  <2>4. CASE Quits(air[h])
    BY <1>2, <2>1, <2>2, <2>4 DEF PasskeyOK, AirFrom
  <2>5. CASE Typing(h)
    <3>1. Typing(h)' /\ ~InAir(h, "pairing_confirm")'
      BY <1>2, <2>1, <2>5 DEF PasskeyOK, Typing, Moves
    <3> QED
      BY <2>1, <2>2, <3>1 DEF PasskeyOK
  <2>6. CASE conn[h].passkey_index = 0
    <3>1. conn'[h].passkey_index = 0
      BY <2>6 DEF Moves
    <3>2. st2.step # "random" /\ 0 \in 0 .. PasskeyBits - 1 /\ 0 <= 0 + 0
      BY <2>1, SmAssumption
    <3>3. InRound(h)'
      BY <2>2, <3>1, <3>2 DEF InRound
    <3> QED
      BY <2>1, <2>2, <3>3 DEF PasskeyOK
  <2> QED
    BY <2>3, <2>4, <2>5, <2>6
<1> QED
  BY <1>10, <1>11, IndexPlainly DEF PairingOK, Moves

\* The peer goes on to its random value: after the host's commitment, or after its public key
\* where the method needs none.
LEMMA RandomSaid ==
    ASSUME NEW h, IndexKept(h), PairingOK(h), Sequence(toHost), NEW t, Told(h, t), Moves(h, t), Len(t) = 1,
           \A e \in Elements(t) : e.msg.op = "pairing_random",
           Sequence(air[h]), air[h] # <<>>, air'[h] = Tail(air[h]),
           NEW st2, st2 = peer'[h], st2.req = peer[h].req, st2.pairing = peer[h].pairing,
           st2.round = peer[h].round, st2.step = "random",
           \/ peer[h].step = "pk" /\ ~Passkeyed(peer[h].req) /\ Head(air[h]).op = "pairing_public_key"
           \/ peer[h].step = "confirm" /\ Head(air[h]).op = "pairing_confirm",
           ConnTyped(conn[h])
    PROVE  IndexKept(h)' /\ PairingOK(h)'
<1>1. RoundOK(h)
  BY DEF PairingOK
<1>2. AirFrom(h, {}) /\ \A op : InAir(h, op)' => InAir(h, op)
  BY AirTaken
<1>3. Head(air[h]) \in Elements(air[h])
  BY TailFacts, ElementsTail
<1>4. Matched(h) /\ ~InQueue(toHost, h, "pairing_random")
  BY <1>1 DEF RoundOK
<1>5. Matched(h)'
  BY <1>4, MatchedMoves
<1>6. Elements(toHost') = Elements(toHost) \cup Elements(t)
  BY ElementsJoin DEF Moves
<1>7. \A e \in Elements(toHost') : ~IsPacket(e, h, "pairing_req")
  BY <1>4, <1>6 DEF Matched, InQueue, IsPacket
<1>8. ~InAir(h, "pairing_random")' \/ Quits(air'[h])
  BY <1>1, <1>2 DEF RoundOK, AirFrom
<1>9. Quits(air'[h]) \/ Lone(air'[h])
  BY <1>1, <1>2 DEF RoundOK, AirFrom
<1>10. RoundOK(h)'
  BY <1>1, <1>5, <1>7, <1>8, <1>9 DEF RoundOK
<1>11. ASSUME Passkeyed(peer[h].req)
       PROVE  /\ InRound(h) /\ peer[h].step = "confirm"
              /\ conn[h].passkey_index <= peer[h].round /\ conn[h].passkey_index < PasskeyBits
  <2>1. PasskeyOK(h) /\ peer[h].step = "confirm" /\ Head(air[h]).op = "pairing_confirm"
    BY <1>11 DEF PairingOK
  <2>2. ~Quits(air[h]) /\ InAir(h, "pairing_confirm")
    BY <1>3, <2>1, QuitsTail DEF InAir
  <2>3. InRound(h)
    BY <2>1, <2>2 DEF PasskeyOK
  <2>4. PICK i \in Nat, n \in 0 .. PasskeyBits - 1 : i = conn[h].passkey_index /\ n = peer[h].round
    BY <2>3 DEF InRound, ConnTyped
  <2>5. i <= n + 0
    BY <2>1, <2>3, <2>4 DEF InRound
  <2>6. i <= n /\ i < PasskeyBits
    BY <2>4, <2>5, SmAssumption
  <2> QED
    BY <2>1, <2>3, <2>4, <2>6
<1>12. Passing(conn[h]) => Passkeyed(peer[h].req)
  BY <1>4 DEF Passing, Passkeyed, Matched
<1>13. IndexKept(h)' /\ InQueue(toHost', h, "pairing_random")
  BY <1>4, <1>11, <1>12, IndexRandom DEF Moves
<1>14. ASSUME Passkeyed(st2.req) PROVE PasskeyOK(h)'
  <2>1. PICK i \in Nat, n \in 0 .. PasskeyBits - 1 :
           i = conn[h].passkey_index /\ n = peer[h].round /\ i <= n
    BY <1>11, <1>14 DEF InRound, ConnTyped
  <2>2. conn'[h].passkey_index = i /\ st2.round = n /\ i <= n + 0
    BY <2>1, SmAssumption DEF Moves
  <2>3. InRound(h)'
    BY <1>13, <2>1, <2>2 DEF InRound
  <2> QED
    BY <2>3 DEF PasskeyOK
<1> QED
  BY <1>10, <1>13, <1>14 DEF PairingOK

\* The peer has the host's random value and goes on to the next bit.
LEMMA RandomTaken ==
    ASSUME NEW h, IndexKept(h), PairingOK(h), Sequence(toHost), NEW t, Plainly(h, t), Moves(h, t),
           Sequence(air[h]), air[h] # <<>>, air'[h] = Tail(air[h]), Head(air[h]).op = "pairing_random",
           NEW st2, st2 = peer'[h], st2.req = peer[h].req, st2.pairing = peer[h].pairing,
           st2.round = peer[h].round + 1, st2.round # PasskeyBits, peer[h].step = "random", st2.step = "begin",
           Elements(t) = {}, ConnTyped(conn[h])
    PROVE  IndexKept(h)' /\ PairingOK(h)'
<1>1. RoundOK(h)
  BY DEF PairingOK
<1>2. ~Quits(air[h])
  BY QuitsTail
<1>3. Head(air[h]) \in Elements(air[h])
  BY TailFacts, ElementsTail
<1>4. Matched(h) /\ ~InQueue(toHost, h, "pairing_random") /\ Lone(air[h])
  BY <1>1, <1>2, <1>3 DEF RoundOK, InAir
<1>5. Matched(h)'
  BY <1>4, MatchedMoves
<1>6. Elements(toHost') = Elements(toHost) \cup Elements(t)
  BY ElementsJoin DEF Moves
<1>7. ~InQueue(toHost', h, "pairing_random") /\ \A e \in Elements(toHost') : ~IsPacket(e, h, "pairing_req")
  BY <1>4, <1>6 DEF Matched, InQueue
<1>8. Lone(air'[h]) /\ ~InAir(h, "pairing_random")'
  BY <1>4, LoneTail DEF InAir
<1>9. RoundOK(h)'
  BY <1>1, <1>5, <1>7, <1>8 DEF RoundOK
<1>10. ASSUME Passkeyed(st2.req) PROVE PasskeyOK(h)'
  <2>1. PasskeyOK(h)
    BY <1>10 DEF PairingOK
  <2>2. InRound(h)
    BY <1>2, <2>1 DEF PasskeyOK
  <2>3. PICK i \in Nat, n \in 0 .. PasskeyBits - 1 : i = conn[h].passkey_index /\ n = peer[h].round
    BY <2>2 DEF InRound, ConnTyped
  <2>4. i <= n + 1
    BY <1>4, <2>2, <2>3 DEF InRound
  <2>5. n + 1 \in 0 .. PasskeyBits - 1 /\ i <= (n + 1) + 0
    BY <2>3, <2>4, SmAssumption
  <2>6. conn'[h].passkey_index = i /\ st2.round = n + 1
    BY <2>3 DEF Moves
  <2>7. InRound(h)'
    BY <2>5, <2>6 DEF InRound
  <2> QED
    BY <2>7 DEF PasskeyOK
<1> QED
  BY <1>9, <1>10, IndexPlainly DEF PairingOK, Moves

\* The peer commits itself to a bit.
LEMMA BitCommitted ==
    ASSUME NEW h, IndexKept(h), PairingOK(h), Sequence(toHost), NEW t, Plainly(h, t), Moves(h, t),
           air'[h] = air[h],
           NEW st2, st2 = peer'[h], st2.req = peer[h].req, st2.pairing = peer[h].pairing,
           st2.round = peer[h].round \/ (st2.round = 0 /\ (peer[h].step = "enter" \/ ~(peer[h].round > 0))),
           peer[h].step \in {"enter", "begin"}, st2.step = "confirm",
           \A e \in Elements(t) : e.msg.op # "pairing_req"
    PROVE  IndexKept(h)' /\ PairingOK(h)'
<1>1. RoundOK(h)
  BY DEF PairingOK
<1>2. \A op : InAir(h, op)' <=> InAir(h, op)
  BY DEF InAir
<1>3. Matched(h)
  BY <1>1 DEF RoundOK
<1>4. Matched(h)'
  BY <1>3, MatchedMoves
<1>5. Elements(toHost') = Elements(toHost) \cup Elements(t)
  BY ElementsJoin DEF Moves
<1>6. ~InQueue(toHost', h, "pairing_random") /\ \A e \in Elements(toHost') : ~IsPacket(e, h, "pairing_req")
  BY <1>1, <1>3, <1>5 DEF RoundOK, Matched, InQueue, IsPacket, Plainly, Told
<1>7. RoundOK(h)'
  BY <1>1, <1>2, <1>4, <1>6 DEF RoundOK
<1>8. ASSUME Passkeyed(st2.req) PROVE PasskeyOK(h)'
  <2>1. PasskeyOK(h)
    BY <1>8 DEF PairingOK
  <2>2. CASE Quits(air[h])
    BY <2>2 DEF PasskeyOK
  <2>3. CASE Typing(h) /\ peer[h].round = 0 /\ ~InAir(h, "pairing_confirm")
    <3>1. Typing(h)' /\ st2.round = 0
      BY <2>3 DEF Typing, Moves
    <3> QED
      BY <1>2, <2>3, <3>1 DEF PasskeyOK
  <2>4. CASE InRound(h)
    <3>1. PICK n \in 0 .. PasskeyBits - 1 : n = peer[h].round
      BY <2>4 DEF InRound
    <3>2. peer[h].step = "enter" => n = 0
      BY <2>1, <3>1 DEF PasskeyOK
    <3>3. st2.round = n
      BY <3>1, <3>2, SmAssumption
    <3>4. conn'[h].passkey_index <= n + 0
      BY <2>4, <3>1 DEF InRound, Moves
    <3>5. InRound(h)'
      BY <3>1, <3>3, <3>4 DEF InRound
    <3> QED
      BY <3>5 DEF PasskeyOK
  <2> QED
    BY <2>1, <2>2, <2>3, <2>4 DEF PasskeyOK
<1> QED
  BY <1>7, <1>8, IndexPlainly DEF PairingOK, Moves

LEMMA PeerReceivesRounds ==
    ASSUME BondsKept, RoundsAgree, AirOK(air), NEW h \in Handle, PeerReceives(h) PROVE RoundsAgree'
<1>1. PICK msg, st : msg = Head(air[h]) /\ st = peer[h]
  OBVIOUS
<1>2. /\ air[h] # <<>> /\ air' = [air EXCEPT ![h] = Tail(@)]
      /\ UNCHANGED <<up, allowed, db, conn, dialog, askedLast, cmd, job, link, overlapped>>
  BY DEF PeerReceives, hostVars, ctrlVars
<1>3. /\ Sequence(air[h]) /\ Sequence(toHost) /\ Shapes /\ PeerOK(st) /\ link[h] # None /\ DOMAIN st = PeerFields
      /\ FieldsTyped
  BY <1>1, <1>2 DEF AirOK, BondsKept, QueueOK, PeersOK, PeerOK, Silent, RoundsAgree
<1>4. /\ air'[h] = Tail(air[h]) /\ \A g \in Handle : g # h => air'[g] = air[g]
      /\ Elements(air'[h]) \subseteq Elements(air[h])
  BY <1>2, <1>3, ElementsTail DEF Shapes
<1>5. \/ msg.op # "pairing_failed" /\ UNCHANGED <<peer, toHost>>
      \/ /\ peer' = [peer EXCEPT ![h].step = IF peer[h].pairing THEN "idle" ELSE @, ![h].pairing = FALSE]
         /\ UNCHANGED toHost
      \/ st.step = "keys" /\ PeerGetsKey(h, msg)
      \/ msg.op = "pairing_resp" /\ st.step = "resp" /\ PeerGetsResponse(h)
      \/ msg.op = "pairing_public_key" /\ st.step = "pk" /\ PeerGetsPublicKey(h)
      \/ msg.op = "pairing_confirm" /\ st.step = "confirm" /\ PeerGetsConfirm(h, msg.value)
      \/ msg.op = "pairing_random" /\ st.step = "random" /\ PeerGetsRandom(h, msg.value)
      \/ PeerGetsCheck(h, msg.value)
      \/ PeerAborts(h)
  BY <1>1 DEF PeerReceives, KeyOp
<1> DEFINE Goal == /\ \E t : Told(h, t)
                   /\ \A g \in Handle : g # h => peer'[g] = peer[g]
                   /\ KeptUnder(h)'
<1> SUFFICES Goal
  BY <1>2, <1>4, PeerRounds
<1>6. h \notin overlapped => IndexKept(h) /\ (Live(h) => PairingOK(h))
  BY DEF RoundsAgree
<1>7. \A t : Plainly(h, t) => Told(h, t)
  BY DEF Plainly
<1>8. ASSUME \E t : Plainly(h, t), ~Live(h)' PROVE KeptUnder(h)'
  BY <1>2, <1>3, <1>6, <1>8, IndexPlainly DEF KeptUnder
<1>9. ASSUME NEW s, DOMAIN s = PeerFields, NEW msgs, PeerSays(h, s, msgs)
      PROVE  peer'[h] = s /\ \A g \in Handle : g # h => peer'[g] = peer[g]
  BY <1>3, <1>9 DEF PeerSays, Shapes
<1>10. ASSUME NEW t, Told(h, t), \A e \in Elements(t) : e.type = "sm" PROVE Moves(h, t)
  BY <1>2, <1>4, <1>10 DEF Moves, Told
<1>11. ASSUME h \notin overlapped, st.step \in {"pk", "confirm", "random"} PROVE ConnTyped(conn[h])
  <2>1. Matched(h)
    BY <1>1, <1>3, <1>6, <1>11 DEF Live, PairingOK, RoundOK
  <2> QED
    BY <1>3, <2>1 DEF Matched, FieldsTyped
<1>12. CASE msg.op # "pairing_failed" /\ UNCHANGED <<peer, toHost>>
  <2>1. \E t : Plainly(h, t)
    BY <1>3, <1>12, NothingPlainly
  <2>2. ASSUME h \notin overlapped PROVE IndexKept(h)' /\ (Live(h)' => PairingOK(h)')
    <3>1. IndexKept(h) /\ IndexKept(h)'
      BY <1>2, <1>3, <1>6, <2>1, <2>2, IndexPlainly
    <3>2. ASSUME Live(h)' PROVE PairingOK(h)'
      <4>1. PairingOK(h)
        BY <1>2, <1>6, <1>12, <2>2, <3>2 DEF Live
      <4>2. SameRound(peer[h], peer'[h]) /\ SameDeal(conn[h], conn'[h]) /\ NoneNew(h)
        BY <1>2, <1>12, <3>1, NoneNewSame DEF SameRound, SameDeal
      <4>3. AirFrom(h, {})
        BY <1>1, <1>2, <1>3, <1>4, <1>12, AirTaken
      <4>4. (Asked(h)' <=> Asked(h)) /\ (Typing(h)' <=> Typing(h)) /\ (OldInput(h)' <=> OldInput(h))
        BY <1>2, <1>12 DEF Asked, DhkeyUnderWay, Typing, OldInput
      <4>5. conn[h] # None => ConnTyped(conn[h])
        BY <1>3 DEF FieldsTyped
      <4> QED
        BY <4>1, <4>2, <4>3, <4>4, <4>5, PairingStays
    <3> QED
      BY <3>1, <3>2
  <2> QED
    BY <1>2, <1>7, <1>12, <2>1, <2>2 DEF KeptUnder
<1>13. CASE /\ peer' = [peer EXCEPT ![h].step = IF peer[h].pairing THEN "idle" ELSE @, ![h].pairing = FALSE]
            /\ UNCHANGED toHost
  <2>1. peer'[h] = [st EXCEPT !.step = IF st.pairing THEN "idle" ELSE @, !.pairing = FALSE]
    BY <1>1, <1>3, <1>13 DEF Shapes
  <2>2. peer'[h].step = IF st.pairing THEN "idle" ELSE st.step
    BY <1>3, <2>1 DEF PeerFields
  <2>3. \E t : Plainly(h, t)
    BY <1>3, <1>13, NothingPlainly
  <2>4. \A g \in Handle : g # h => peer'[g] = peer[g]
    BY <1>3, <1>13 DEF Shapes
  <2>5. ASSUME h \notin overlapped PROVE ~Live(h)'
    BY <1>1, <1>2, <1>6, <2>2, <2>5 DEF Live, PairingOK, RoundOK
  <2>6. KeptUnder(h)'
    BY <1>2, <1>8, <2>3, <2>5 DEF KeptUnder
  <2> QED
    BY <1>7, <2>3, <2>4, <2>6
<1>14. CASE st.step = "keys" /\ PeerGetsKey(h, msg)
  <2>1. PICK w, b : /\ peer' = [peer EXCEPT ![h].waits = w, ![h].step = IF b THEN "idle" ELSE @,
                                           ![h].pairing = IF b THEN FALSE ELSE @]
                    /\ toHost' = IF b THEN toHost \o KeysSent(h) ELSE toHost
    BY <1>14 DEF PeerGetsKey
  <2>2. peer'[h].step = IF b THEN "idle" ELSE st.step
    BY <1>1, <1>3, <2>1 DEF Shapes, PeerFields
  <2>3. \A g \in Handle : g # h => peer'[g] = peer[g]
    BY <1>3, <2>1 DEF Shapes
  <2>4. \E t : Plainly(h, t)
    <3>1. CASE b
      <4>1. PICK t : t = KeysSent(h)
        OBVIOUS
      <4>2. Sequence(t) /\ \A e \in Elements(t) : e.type = "sm" /\ e.h = h /\ e.msg.op \in KeyOp
        BY <4>1, KeysSentOnly
      <4>3. toHost' = toHost \o t
        BY <2>1, <3>1, <4>1
      <4>4. Plainly(h, t)
        BY <4>2, <4>3 DEF Plainly, Told, KeyOp
      <4> QED
        BY <4>4
    <3>2. CASE ~b
      BY <1>3, <2>1, <3>2, NothingPlainly
    <3> QED
      BY <3>1, <3>2
  <2>5. ~Live(h)'
    BY <1>14, <2>2 DEF Live
  <2> QED
    BY <1>7, <1>8, <2>3, <2>4, <2>5
<1>15. CASE PeerAborts(h)
  <2>0. PICK m : m = Failed("PEER")
    OBVIOUS
  <2>1. m.op = "pairing_failed"
    BY <2>0 DEF Failed, Msg
  <2>2. PeerSays(h, [st EXCEPT !.step = "idle", !.pairing = FALSE], <<m>>)
    BY <1>1, <1>15, <2>0 DEF PeerAborts
  <2>3. \E t : Plainly(h, t)
    BY <1>3, <2>1, <2>2, SaidPlainly
  <2>4. /\ peer'[h] = [st EXCEPT !.step = "idle", !.pairing = FALSE]
        /\ \A g \in Handle : g # h => peer'[g] = peer[g]
    BY <1>3, <2>2 DEF PeerSays, Shapes
  <2>5. ~Live(h)'
    BY <1>3, <2>4 DEF Live, PeerFields
  <2> QED
    BY <1>7, <1>8, <2>3, <2>4, <2>5
<1>16. ASSUME NEW s, DOMAIN s = PeerFields, PeerStartsEncryption(h, s) PROVE Goal
  <2>1. \E t : Plainly(h, t)
    BY <1>3, <1>16, EncryptionPlainly
  <2>2. /\ peer'[h] = [s EXCEPT !.step = "encrypt"]
        /\ \A g \in Handle : g # h => peer'[g] = peer[g]
    BY <1>3, <1>16 DEF PeerStartsEncryption, Shapes
  <2>3. ~Live(h)'
    BY <1>16, <2>2 DEF Live, PeerFields
  <2> QED
    BY <1>7, <1>8, <2>1, <2>2, <2>3
<1>17. CASE PeerGetsCheck(h, msg.value)
  BY <1>1, <1>3, <1>15, <1>16, <1>17 DEF PeerGetsCheck
<1>18. CASE msg.op = "pairing_resp" /\ st.step = "resp" /\ PeerGetsResponse(h)
  <2>0. PICK s, l : s = [st EXCEPT !.method = PeerMethod(st.req)] /\ l = Msg("pairing_public_key", Pk(link[h].peer))
    OBVIOUS
  <2>1. s.req = st.req /\ s.pairing = st.pairing /\ s.round = st.round /\ DOMAIN s = PeerFields
    BY <1>3, <2>0 DEF PeerFields
  <2>2. l.op = "pairing_public_key"
    BY <2>0 DEF Msg
  <2>3. PICK x, msgs : /\ PeerSays(h, [s EXCEPT !.step = x], msgs)
                       /\ x \in {"pk", "enter", "begin"} /\ (IsSecureConnection(st.req) => x = "pk")
                       /\ msgs = <<>> \/ msgs = <<l>>
    BY <1>1, <1>18, <2>0, <2>1 DEF PeerGetsResponse
  <2>4. PICK st2 : st2 = [s EXCEPT !.step = x]
    OBVIOUS
  <2>5. /\ st2.step = x /\ st2.req = st.req /\ st2.pairing = st.pairing /\ st2.round = st.round
        /\ DOMAIN st2 = PeerFields
    BY <2>1, <2>4 DEF PeerFields
  <2>6. peer'[h] = st2 /\ \A g \in Handle : g # h => peer'[g] = peer[g]
    BY <1>9, <2>3, <2>4, <2>5
  <2>7. PICK t : Plainly(h, t) /\ \A e \in Elements(t) : e.type = "sm" /\ e.msg.op = "pairing_public_key"
    <3>1. CASE msgs = <<>>
      <4>1. PICK t : Sequence(t) /\ toHost' = toHost \o t /\ Elements(t) = {}
        BY <1>3, <2>3, <3>1, SaysMore
      <4> QED
        BY <4>1 DEF Plainly, Told
    <3>2. CASE msgs = <<l>>
      <4>1. PICK e : e = [type |-> "sm", h |-> h, msg |-> l]
        OBVIOUS
      <4>2. PICK t : Sequence(t) /\ toHost' = toHost \o t /\ Elements(t) = {e}
        BY <1>3, <2>3, <3>2, <4>1, SaysMore
      <4>3. e.type = "sm" /\ e.h = h /\ e.msg.op = "pairing_public_key"
        BY <2>2, <4>1
      <4> QED
        BY <4>2, <4>3 DEF Plainly, Told
    <3> QED
      BY <2>3, <3>1, <3>2
  <2>8. Moves(h, t)
    BY <1>7, <1>10, <2>7
  <2>9. ASSUME h \notin overlapped PROVE IndexKept(h)' /\ PairingOK(h)'
    <3>1. IndexKept(h) /\ PairingOK(h)
      BY <1>1, <1>3, <1>6, <1>18, <2>9 DEF Live
    <3> QED
      BY <1>1, <1>2, <1>3, <1>4, <1>18, <2>3, <2>5, <2>6, <2>7, <2>8, <3>1, ResponseTaken
  <2> QED
    BY <1>2, <1>7, <2>6, <2>7, <2>9 DEF KeptUnder
<1>19. ASSUME h \notin overlapped, st.step \in {"pk", "confirm", "random"}
       PROVE  IndexKept(h) /\ PairingOK(h) /\ ConnTyped(conn[h])
  BY <1>1, <1>3, <1>6, <1>11, <1>19 DEF Live
<1>20. ASSUME NEW r, NEW s, DOMAIN s = PeerFields, NEW l, l = Msg("pairing_random", r), PeerSays(h, s, <<l>>),
              s.req = st.req, s.pairing = st.pairing, s.round = st.round, s.step = "random",
              \/ st.step = "pk" /\ ~Passkeyed(st.req) /\ msg.op = "pairing_public_key"
              \/ st.step = "confirm" /\ msg.op = "pairing_confirm"
       PROVE  Goal
  <2>1. peer'[h] = s /\ \A g \in Handle : g # h => peer'[g] = peer[g]
    BY <1>9, <1>20
  <2>2. PICK e : e = [type |-> "sm", h |-> h, msg |-> l]
    OBVIOUS
  <2>3. PICK t : Sequence(t) /\ toHost' = toHost \o t /\ Elements(t) = {e} /\ Len(t) = 1
    <3>1. PeerSays(h, s, <<l>>)
      BY <1>20
    <3> QED
      BY <1>3, <2>2, <3>1, SaysMore
  <2>4. e.type = "sm" /\ e.h = h /\ e.msg.op = "pairing_random"
    BY <1>20, <2>2 DEF Msg
  <2>5. Told(h, t)
    BY <2>3, <2>4 DEF Told
  <2>6. Moves(h, t)
    BY <1>10, <2>3, <2>4, <2>5
  <2>7. ASSUME h \notin overlapped PROVE IndexKept(h)' /\ PairingOK(h)'
    <3>1. IndexKept(h) /\ PairingOK(h) /\ ConnTyped(conn[h])
      BY <1>19, <1>20, <2>7
    <3>2. \/ peer[h].step = "pk" /\ ~Passkeyed(peer[h].req) /\ Head(air[h]).op = "pairing_public_key"
          \/ peer[h].step = "confirm" /\ Head(air[h]).op = "pairing_confirm"
      BY <1>1, <1>20
    <3>3. /\ s.req = peer[h].req /\ s.pairing = peer[h].pairing /\ s.round = peer[h].round
          /\ s.step = "random" /\ s = peer'[h]
      BY <1>1, <1>20, <2>1
    <3>4. \A f \in Elements(t) : f.msg.op = "pairing_random"
      BY <2>3, <2>4
    <3>5. Sequence(air[h]) /\ air[h] # <<>> /\ air'[h] = Tail(air[h]) /\ Sequence(toHost)
      BY <1>2, <1>3, <1>4
    <3> QED
      BY <2>3, <2>5, <2>6, <3>1, <3>2, <3>3, <3>4, <3>5, RandomSaid
  <2> QED
    BY <1>2, <2>1, <2>5, <2>7 DEF KeptUnder
<1>21. CASE msg.op = "pairing_public_key" /\ st.step = "pk" /\ PeerGetsPublicKey(h)
  <2>1. st.method = PeerMethod(st.req)
    BY <1>3, <1>21 DEF PeerOK
  <2>2. ASSUME NEW x \in {"confirm", "enter", "begin"}, PeerSays(h, [st EXCEPT !.step = x], <<>>),
               Passkeyed(st.req) => x # "confirm"
        PROVE  Goal
    <3>1. PICK s : s = [st EXCEPT !.step = x]
      OBVIOUS
    <3>2. s.step = x /\ s.req = st.req /\ s.pairing = st.pairing /\ s.round = st.round /\ DOMAIN s = PeerFields
      BY <1>3, <3>1 DEF PeerFields
    <3>3. peer'[h] = s /\ \A g \in Handle : g # h => peer'[g] = peer[g]
      BY <1>9, <2>2, <3>1, <3>2
    <3>4. PICK t : Sequence(t) /\ toHost' = toHost \o t /\ Elements(t) = {}
      BY <1>3, <2>2, SaysMore
    <3>5. Plainly(h, t) /\ Moves(h, t)
      BY <1>7, <1>10, <3>4 DEF Plainly, Told
    <3>6. ASSUME h \notin overlapped PROVE IndexKept(h)' /\ PairingOK(h)'
      BY <1>1, <1>2, <1>3, <1>4, <1>19, <1>21, <2>2, <3>2, <3>3, <3>4, <3>5, <3>6, PublicKeyTaken
    <3> QED
      BY <1>2, <1>7, <3>3, <3>5, <3>6 DEF KeptUnder
  <2>3. CASE st.method \in {JW, NC}
    <3>1. PeerSays(h, [st EXCEPT !.step = "confirm"], <<>>)
      BY <1>1, <1>21, <2>3 DEF PeerGetsPublicKey, JW, NC, IIRD, IDRI
    <3>2. ~Passkeyed(st.req)
      BY <2>1, <2>3 DEF Passkeyed, JW, NC, IIRD, IDRI
    <3> QED
      BY <2>2, <3>1, <3>2
  <2>4. CASE st.method = IIRD
    <3>1. PeerSays(h, [st EXCEPT !.step = "enter"], <<>>)
      BY <1>1, <1>21, <2>4 DEF PeerGetsPublicKey, JW, NC, IIRD, IDRI
    <3> QED
      BY <2>2, <3>1
  <2>5. CASE st.method = IDRI
    <3>1. PeerSays(h, [st EXCEPT !.step = "begin"], <<>>)
      BY <1>1, <1>21, <2>5 DEF PeerGetsPublicKey, JW, NC, IIRD, IDRI
    <3> QED
      BY <2>2, <3>1
  <2>6. CASE st.method \notin {JW, NC, IIRD, IDRI}
    <3>1. PICK r, n, s, l : /\ s = [st EXCEPT !.step = "random", !.random = r, !.draws = n]
                            /\ l = Msg("pairing_random", r) /\ PeerSays(h, s, <<l>>)
      BY <1>1, <1>21, <2>6 DEF PeerGetsPublicKey
    <3>2. /\ s.step = "random" /\ s.req = st.req /\ s.pairing = st.pairing /\ s.round = st.round
          /\ DOMAIN s = PeerFields
      BY <1>3, <3>1 DEF PeerFields
    <3>3. ~Passkeyed(st.req)
      BY <2>1, <2>6 DEF Passkeyed
    <3> QED
      BY <1>20, <1>21, <3>1, <3>2, <3>3
  <2> QED
    BY <2>3, <2>4, <2>5, <2>6
<1>22. CASE msg.op = "pairing_confirm" /\ st.step = "confirm" /\ PeerGetsConfirm(h, msg.value)
  <2>0. PICK s0 : s0 = [st EXCEPT !.step = "random", !.confirm = msg.value]
    OBVIOUS
  <2>1. /\ s0.step = "random" /\ s0.req = st.req /\ s0.pairing = st.pairing /\ s0.round = st.round
        /\ DOMAIN s0 = PeerFields
    BY <1>3, <2>0 DEF PeerFields
  <2>2. PICK r, n, s, l : /\ s = [s0 EXCEPT !.random = r, !.draws = n]
                          /\ l = Msg("pairing_random", r) /\ PeerSays(h, s, <<l>>)
    BY <1>1, <1>22, <2>0 DEF PeerGetsConfirm
  <2>3. /\ s.step = "random" /\ s.req = st.req /\ s.pairing = st.pairing /\ s.round = st.round
        /\ DOMAIN s = PeerFields
    BY <2>1, <2>2 DEF PeerFields
  <2> QED
    BY <1>20, <1>22, <2>2, <2>3
<1>23. CASE msg.op = "pairing_random" /\ st.step = "random" /\ PeerGetsRandom(h, msg.value)
  <2>0. PICK s : s = [st EXCEPT !.host_random = msg.value]
    OBVIOUS
  <2>1. /\ s.step = "random" /\ s.req = st.req /\ s.pairing = st.pairing /\ s.round = st.round
        /\ s.method = st.method /\ DOMAIN s = PeerFields
    BY <1>3, <1>23, <2>0 DEF PeerFields
  <2>2. \/ PeerAborts(h)
        \/ \E k : PeerStartsEncryption(h, [s EXCEPT !.ltk = k])
        \/ PeerSays(h, [s EXCEPT !.step = "compare"], <<>>)
        \/ s.round + 1 # PasskeyBits /\ PeerSays(h, [s EXCEPT !.step = "begin", !.round = @ + 1], <<>>)
        \/ PeerChecks(h, s)
    <3>1. PICK bit : bit = IF s.method \in {JW, NC} THEN 0 ELSE 128 + Bit(s.tk, s.round)
      OBVIOUS
    <3>2. PICK seen : seen = IF IsSecureConnection(s.req) THEN __sm_f4(HostPk, Pk(link[h].peer), msg.value, bit)
                             ELSE __sm_c1(s.tk, msg.value, s.req, SM_RESP, link[h].addr, LocalAddr)
      OBVIOUS
    <3>3. CASE seen # s.confirm
      BY <1>1, <1>23, <2>0, <2>1, <3>1, <3>2, <3>3 DEF PeerGetsRandom
    <3>4. CASE seen = s.confirm /\ ~IsSecureConnection(s.req)
      BY <1>1, <1>23, <2>0, <2>1, <3>1, <3>2, <3>4 DEF PeerGetsRandom
    <3>5. CASE seen = s.confirm /\ IsSecureConnection(s.req) /\ s.method = NC
      BY <1>1, <1>23, <2>0, <2>1, <3>1, <3>2, <3>5 DEF PeerGetsRandom
    <3>6. CASE seen = s.confirm /\ IsSecureConnection(s.req) /\ s.method # NC
      BY <1>1, <1>23, <2>0, <2>1, <3>1, <3>2, <3>6 DEF PeerGetsRandom
    <3> QED
      BY <3>3, <3>4, <3>5, <3>6
  <2>3. CASE \E k : PeerStartsEncryption(h, [s EXCEPT !.ltk = k])
    <3>1. PICK k, s2 : s2 = [s EXCEPT !.ltk = k] /\ PeerStartsEncryption(h, s2)
      BY <2>3
    <3>2. DOMAIN s2 = PeerFields
      BY <2>1, <3>1
    <3> QED
      BY <1>16, <3>1, <3>2
  <2>4. ASSUME NEW x \in {"compare", "check"}, NEW s2, s2.step = x, DOMAIN s2 = PeerFields, NEW msgs,
               PeerSays(h, s2, msgs),
               msgs = <<>> \/ \E m : msgs = <<m>> /\ m.op \notin {"pairing_req", "pairing_random"}
        PROVE  Goal
    <3>1. peer'[h] = s2 /\ \A g \in Handle : g # h => peer'[g] = peer[g]
      BY <1>9, <2>4
    <3>2. \E t : Plainly(h, t)
      BY <1>3, <2>4, SaidPlainly
    <3>3. ~Live(h)'
      BY <2>4, <3>1 DEF Live
    <3> QED
      BY <1>7, <1>8, <3>1, <3>2, <3>3
  <2>5. CASE PeerSays(h, [s EXCEPT !.step = "compare"], <<>>)
    <3>1. PICK s2 : s2 = [s EXCEPT !.step = "compare"]
      OBVIOUS
    <3>2. s2.step = "compare" /\ DOMAIN s2 = PeerFields
      BY <2>1, <3>1 DEF PeerFields
    <3> QED
      BY <2>4, <2>5, <3>1, <3>2
  <2>6. CASE PeerChecks(h, s)
    <3>1. PICK k, v, m : /\ PeerSays(h, [s EXCEPT !.step = "check", !.ltk = k], <<m>>)
                         /\ m = Msg("dhkey_check", v)
      BY <2>6 DEF PeerChecks
    <3>2. PICK s2 : s2 = [s EXCEPT !.step = "check", !.ltk = k]
      OBVIOUS
    <3>3. s2.step = "check" /\ DOMAIN s2 = PeerFields
      BY <2>1, <3>2 DEF PeerFields
    <3>4. m.op = "dhkey_check"
      BY <3>1 DEF Msg
    <3>5. PeerSays(h, s2, <<m>>) /\ \E l : <<m>> = <<l>> /\ l.op \notin {"pairing_req", "pairing_random"}
      BY <3>1, <3>2, <3>4
    <3> QED
      BY <2>4, <3>3, <3>5
  <2>7. CASE s.round + 1 # PasskeyBits /\ PeerSays(h, [s EXCEPT !.step = "begin", !.round = @ + 1], <<>>)
    <3>1. PICK s2 : s2 = [s EXCEPT !.step = "begin", !.round = @ + 1]
      OBVIOUS
    <3>2. /\ s2.step = "begin" /\ s2.req = st.req /\ s2.pairing = st.pairing /\ s2.round = st.round + 1
          /\ DOMAIN s2 = PeerFields
      BY <2>1, <3>1 DEF PeerFields
    <3>3. peer'[h] = s2 /\ \A g \in Handle : g # h => peer'[g] = peer[g]
      BY <1>9, <2>7, <3>1, <3>2
    <3>4. PICK t : Sequence(t) /\ toHost' = toHost \o t /\ Elements(t) = {}
      BY <1>3, <2>7, SaysMore
    <3>5. Plainly(h, t) /\ Moves(h, t)
      BY <1>7, <1>10, <3>4 DEF Plainly, Told
    <3>6. s2.round # PasskeyBits
      BY <2>1, <2>7, <3>2
    <3>7. ASSUME h \notin overlapped PROVE IndexKept(h)' /\ PairingOK(h)'
      BY <1>1, <1>2, <1>3, <1>4, <1>19, <1>23, <3>2, <3>3, <3>4, <3>5, <3>6, <3>7, RandomTaken
    <3> QED
      BY <1>2, <1>7, <3>3, <3>5, <3>7 DEF KeptUnder
  <2> QED
    BY <1>15, <2>2, <2>3, <2>5, <2>6, <2>7
<1> HIDE DEF Goal
<1> QED
  BY <1>5, <1>12, <1>13, <1>14, <1>15, <1>17, <1>18, <1>21, <1>22, <1>23

LEMMA PeerGoesOnRounds ==
    ASSUME BondsKept, RoundsAgree, NEW h \in Handle, PeerGoesOn(h) PROVE RoundsAgree'
<1>1. /\ UNCHANGED <<up, allowed, db, conn, dialog, askedLast, cmd, job, link, air, overlapped>>
      /\ Sequence(toHost) /\ Shapes
  BY DEF PeerGoesOn, hostVars, ctrlVars, BondsKept, QueueOK
<1>2. PICK st : st = peer[h]
  OBVIOUS
<1>3. DOMAIN st = PeerFields /\ link[h] # None
  <2>1. st.step \in {"begin", "enter", "compare"}
    BY <1>2 DEF PeerGoesOn, PeerBegins, PeerEnters, PeerCompares
  <2> QED
    BY <1>2, <2>1 DEF BondsKept, PeersOK, PeerOK, Silent
<1>4. \/ /\ st.step \in {"begin", "enter"}
         /\ \E tk, round : /\ PeerConfirms(h, tk, round)
                           /\ round = st.round \/ (round = 0 /\ (st.step = "enter" \/ ~(st.round > 0)))
      \/ PeerChecks(h, st)
      \/ PeerAborts(h)
  BY <1>2 DEF PeerGoesOn, PeerBegins, PeerEnters, PeerCompares
<1> DEFINE Goal == /\ \E t : Told(h, t)
                   /\ \A g \in Handle : g # h => peer'[g] = peer[g]
                   /\ KeptUnder(h)'
<1> SUFFICES Goal
  BY <1>1, PeerRounds
<1>5. h \notin overlapped => IndexKept(h) /\ (Live(h) => PairingOK(h))
  BY DEF RoundsAgree
<1>6. \A t : Plainly(h, t) => Told(h, t)
  BY DEF Plainly
<1>7. ASSUME NEW s, DOMAIN s = PeerFields, NEW msgs, PeerSays(h, s, msgs)
      PROVE  peer'[h] = s /\ \A g \in Handle : g # h => peer'[g] = peer[g]
  BY <1>1, <1>7 DEF PeerSays, Shapes
<1>8. ASSUME NEW s, DOMAIN s = PeerFields, s.step \in {"idle", "check"}, NEW m, PeerSays(h, s, <<m>>),
             m.op \notin {"pairing_req", "pairing_random"}
      PROVE  Goal
  <2>1. peer'[h] = s /\ \A g \in Handle : g # h => peer'[g] = peer[g]
    BY <1>7, <1>8
  <2>2. PICK t : Plainly(h, t)
    BY <1>1, <1>8, SaidPlainly
  <2>3. ~Live(h)'
    BY <1>8, <2>1 DEF Live
  <2>4. KeptUnder(h)'
    BY <1>1, <1>5, <2>2, <2>3, IndexPlainly DEF KeptUnder
  <2> QED
    BY <1>6, <2>1, <2>2, <2>4
<1>9. CASE PeerChecks(h, st)
  <2>1. PICK k, v, m : PeerSays(h, [st EXCEPT !.step = "check", !.ltk = k], <<m>>) /\ m = Msg("dhkey_check", v)
    BY <1>9 DEF PeerChecks
  <2>2. PICK s : s = [st EXCEPT !.step = "check", !.ltk = k]
    OBVIOUS
  <2>3. s.step = "check" /\ DOMAIN s = PeerFields /\ m.op = "dhkey_check"
    BY <1>3, <2>1, <2>2 DEF PeerFields, Msg
  <2> QED
    BY <1>8, <2>1, <2>2, <2>3
<1>10. CASE PeerAborts(h)
  <2>1. PICK s, m : s = [st EXCEPT !.step = "idle", !.pairing = FALSE] /\ m = Failed("PEER")
    OBVIOUS
  <2>2. PeerSays(h, s, <<m>>)
    BY <1>2, <1>10, <2>1 DEF PeerAborts
  <2>3. s.step = "idle" /\ DOMAIN s = PeerFields /\ m.op = "pairing_failed"
    BY <1>3, <2>1 DEF PeerFields, Failed, Msg
  <2> QED
    BY <1>8, <2>2, <2>3
<1>11. ASSUME st.step \in {"begin", "enter"}, NEW tk, NEW round, PeerConfirms(h, tk, round),
              round = st.round \/ (round = 0 /\ (st.step = "enter" \/ ~(st.round > 0)))
       PROVE  Goal
  <2>1. PICK r, n, v, m : /\ PeerSays(h, [st EXCEPT !.step = "confirm", !.tk = tk, !.round = round,
                                                    !.random = r, !.draws = n], <<m>>)
                          /\ m = Msg("pairing_confirm", v)
    BY <1>2, <1>11 DEF PeerConfirms
  <2>2. PICK s : s = [st EXCEPT !.step = "confirm", !.tk = tk, !.round = round, !.random = r, !.draws = n]
    OBVIOUS
  <2>3. /\ s.step = "confirm" /\ s.req = st.req /\ s.pairing = st.pairing /\ s.round = round
        /\ DOMAIN s = PeerFields
    BY <1>3, <2>2 DEF PeerFields
  <2>4. PeerSays(h, s, <<m>>) /\ m.op = "pairing_confirm"
    BY <2>1, <2>2 DEF Msg
  <2>5. peer'[h] = s /\ \A g \in Handle : g # h => peer'[g] = peer[g]
    BY <1>7, <2>3, <2>4
  <2>6. PICK e : e = [type |-> "sm", h |-> h, msg |-> m]
    OBVIOUS
  <2>7. PICK t : Sequence(t) /\ toHost' = toHost \o t /\ Elements(t) = {e}
    BY <1>1, <2>4, <2>6, SaysMore
  <2>8. e.type = "sm" /\ e.h = h /\ e.msg.op = "pairing_confirm"
    BY <2>4, <2>6
  <2>9. Plainly(h, t)
    BY <2>7, <2>8 DEF Plainly, Told
  <2>10. Moves(h, t)
    BY <1>1, <2>7, <2>8 DEF Moves
  <2>11. ASSUME h \notin overlapped PROVE IndexKept(h)' /\ PairingOK(h)'
    <3>1. IndexKept(h) /\ PairingOK(h)
      BY <1>2, <1>3, <1>5, <1>11, <2>11 DEF Live
    <3>2. /\ s = peer'[h] /\ s.req = peer[h].req /\ s.pairing = peer[h].pairing
          /\ peer[h].step \in {"enter", "begin"}
          /\ s.round = peer[h].round \/ (s.round = 0 /\ (peer[h].step = "enter" \/ ~(peer[h].round > 0)))
      BY <1>2, <1>11, <2>3, <2>5
    <3>3. \A f \in Elements(t) : f.msg.op # "pairing_req"
      BY <2>7, <2>8
    <3>4. air'[h] = air[h] /\ Sequence(toHost)
      BY <1>1
    <3> QED
      BY <2>3, <2>9, <2>10, <3>1, <3>2, <3>3, <3>4, BitCommitted
  <2> QED
    BY <1>1, <1>6, <2>5, <2>9, <2>11 DEF KeptUnder
<1> HIDE DEF Goal
<1> QED
  BY <1>4, <1>9, <1>10, <1>11

\* A pairing that begins while nothing of an earlier one is under way.
LEMMA PeerStartsRounds ==
    ASSUME BondsKept, RoundsAgree, NEW h \in Handle, NEW offer \in Offers, PeerStarts(h, offer) PROVE RoundsAgree'
<1>1. /\ UNCHANGED <<up, allowed, db, conn, dialog, askedLast, cmd, job, link, air>>
      /\ Sequence(toHost) /\ Shapes /\ DOMAIN peer[h] = PeerFields
      /\ overlapped' = IF Busy(h) THEN overlapped \cup {h} ELSE overlapped
  BY DEF PeerStarts, Begins, hostVars, ctrlVars, BondsKept, QueueOK, PeersOK, PeerOK
<1>2. PICK l : l = Msg("pairing_req", offer)
  OBVIOUS
<1>3. PeerSays(h, [peer[h] EXCEPT !.step = "resp", !.pairing = TRUE, !.req = offer, !.tk = 0, !.round = 0], <<l>>)
  BY <1>2 DEF PeerStarts
<1>4. /\ peer'[h].step = "resp" /\ peer'[h].req = offer /\ peer'[h].pairing /\ peer'[h].round = 0
      /\ \A g \in Handle : g # h => peer'[g] = peer[g]
  <2>1. PICK s : s = [peer[h] EXCEPT !.step = "resp", !.pairing = TRUE, !.req = offer, !.tk = 0, !.round = 0]
    OBVIOUS
  <2>2. s.step = "resp" /\ s.req = offer /\ s.pairing /\ s.round = 0
    BY <1>1, <2>1 DEF PeerFields
  <2>3. peer' = [peer EXCEPT ![h] = s]
    BY <1>3, <2>1 DEF PeerSays
  <2> QED
    BY <1>1, <2>2, <2>3 DEF Shapes
<1>5. PICK e : e = [type |-> "sm", h |-> h, msg |-> l]
  OBVIOUS
<1>6. PICK t : Sequence(t) /\ toHost' = toHost \o t /\ Elements(t) = {e} /\ Len(t) = 1
  BY <1>1, <1>3, <1>5, SaysMore
<1>7. e.type = "sm" /\ e.h = h /\ e.msg.op = "pairing_req" /\ e.msg.value = offer
  BY <1>2, <1>5 DEF Msg
<1>8. Told(h, t)
  BY <1>6, <1>7 DEF Told
<1>9. Elements(toHost') = Elements(toHost) \cup {e}
  BY <1>1, <1>6, ElementsJoin
<1>10. ASSUME h \notin overlapped' PROVE IndexKept(h)' /\ PairingOK(h)'
  <2>1. ~Busy(h) /\ IndexKept(h)
    BY <1>1, <1>10 DEF RoundsAgree
  <2>2. \A f \in Elements(toHost) : f.type = "sm" /\ f.h = h => f.msg.op = "pairing_failed"
    BY <2>1 DEF Busy, Elements
  <2>3. /\ \A op : op \notin {"pairing_failed", "pairing_req"} => ~InQueue(toHost', h, op)
        /\ \A f \in Elements(toHost') : IsPacket(f, h, "pairing_req") => f = e
        /\ ~InQueue(toHost, h, "pairing_req") /\ ~InQueue(toHost, h, "pairing_random")
        /\ ~InQueue(t, h, "pairing_random")
    BY <1>6, <1>7, <1>9, <2>2 DEF InQueue, IsPacket
  <2>4. AtMostOne(toHost', h, "pairing_random") /\ AtMostOne(toHost', h, "pairing_req")
    <3>1. DOMAIN t = 1 .. 1
      BY <1>6, SequenceFacts
    <3>2. AtMostOne(t, h, "pairing_req") /\ AtMostOne(t, h, "pairing_random")
      BY <3>1 DEF AtMostOne
    <3> QED
      BY <1>1, <1>6, <2>3, <3>2, AtMostOneJoin
  <2>5. IndexKept(h)'
    BY <1>1, <2>1, <2>3, <2>4 DEF IndexKept
  <2>6. air'[h] = <<>> /\ \A op : ~InAir(h, op)'
    BY <1>1, <2>1, ElementsFew DEF Busy, InAir
  <2>7. Lone(air'[h])
    <3>1. DOMAIN air'[h] = {}
      BY <2>6
    <3> QED
      BY <3>1 DEF Lone
  <2>8. ~Asked(h)'
    <3>1. DhkeyUnderWay' => DhkeyUnderWay
      BY <1>1, <1>7, <1>9, UnderWayFrom
    <3> QED
      BY <1>1, <2>1, <3>1 DEF Busy, AwaitsDhkey, Asked
  <2>9. ~OldInput(h)'
    BY <1>1, <2>1 DEF Busy, OldInput
  <2>10. RoundOK(h)'
    BY <1>4, <1>7, <2>3, <2>6, <2>7, <2>8 DEF RoundOK
  <2>11. PasskeyOK(h)'
    BY <1>4, <2>3, <2>6, <2>9 DEF PasskeyOK
  <2> QED
    BY <2>5, <2>10, <2>11 DEF PairingOK
<1>11. \A g \in Handle : g # h => (g \in overlapped' <=> g \in overlapped)
  BY <1>1
<1> QED
  BY <1>1, <1>4, <1>8, <1>10, <1>11, PeerRounds DEF KeptUnder

LEMMA PeerEncryptsRounds ==
    ASSUME BondsKept, RoundsAgree, NEW h \in Handle, PeerEncrypts(h) PROVE RoundsAgree'
<1>1. /\ UNCHANGED <<up, allowed, db, conn, dialog, askedLast, cmd, job, link, air>>
      /\ Sequence(toHost) /\ Shapes /\ DOMAIN peer[h] = PeerFields
      /\ overlapped' = IF Busy(h) THEN overlapped \cup {h} ELSE overlapped
  BY DEF PeerEncrypts, Begins, hostVars, ctrlVars, BondsKept, QueueOK, PeersOK, PeerOK
<1>2. PICK b, s : s = [peer[h] EXCEPT !.ltk = b.ltk, !.method = b.method] /\ PeerStartsEncryption(h, s)
  BY DEF PeerEncrypts
<1>3. DOMAIN s = PeerFields
  BY <1>1, <1>2
<1>4. peer'[h].step = "encrypt" /\ \A g \in Handle : g # h => peer'[g] = peer[g]
  BY <1>1, <1>2, <1>3 DEF PeerStartsEncryption, Shapes, PeerFields
<1>5. PICK t : Plainly(h, t)
  BY <1>1, <1>2, EncryptionPlainly
<1>6. h \notin overlapped' => IndexKept(h)
  BY <1>1 DEF RoundsAgree
<1>7. KeptUnder(h)'
  BY <1>1, <1>4, <1>5, <1>6, IndexPlainly DEF KeptUnder, Live
<1>8. \A g \in Handle : g # h => (g \in overlapped' <=> g \in overlapped)
  BY <1>1
<1>9. Told(h, t)
  BY <1>5 DEF Plainly
<1> QED
  BY <1>1, <1>4, <1>7, <1>8, <1>9, PeerRounds

-----------------------------------------------------------------------------
(* Connections and restarts keep the number of the bit.                     *)

\* Nothing is under way for a handle that is used again.
LEMMA FreeHandle ==
    ASSUME BondsKept, TurnsOK(toHost, conn, link), NEW g \in Handle, link[g] = None, conn[g] = None,
           NoEnd(toHost, g), NEW e \in Elements(toHost)
    PROVE  ~Opening(e, g) /\ (e.type = "sm" => e.h # g)
<1>1. PICK n \in Nat : n = Len(toHost) /\ DOMAIN toHost = 1 .. n
  BY SequenceFacts DEF BondsKept, QueueOK
<1>2. \A i \in 1 .. n : ~Opening(toHost[i], g)
  <2>1. SUFFICES ASSUME NEW i \in 1 .. n, Opening(toHost[i], g) PROVE FALSE
    OBVIOUS
  <2>2. PICK j \in i + 1 .. n : Closing(toHost[j], g)
    BY <1>1, <2>1 DEF TurnsOK, EndsAfter
  <2>3. j \in 1 .. n
    OBVIOUS
  <2> QED
    BY <1>1, <2>2, <2>3 DEF NoEnd, Closing, Elements
<1>3. PICK i \in 1 .. n : e = toHost[i]
  BY <1>1 DEF Elements
<1>4. ASSUME e.type = "sm", e.h = g PROVE FALSE
  <2>1. EventOK(toHost, conn, computed, i)
    BY <1>1 DEF BondsKept, QueueOK
  <2>2. \E a : Under(toHost, conn, i, g, a)
    BY <1>3, <1>4, <2>1 DEF EventOK, Within
  <2>3. PICK j \in 1 .. i - 1 : toHost[j].type = "conn_complete" /\ toHost[j].h = g
    BY <2>2 DEF Under
  <2>4. j \in 1 .. n
    OBVIOUS
  <2> QED
    BY <1>2, <2>3, <2>4 DEF Opening
<1> QED
  BY <1>2, <1>3, <1>4

LEMMA ConnectsRounds ==
    ASSUME BondsKept, ComparisonsAgree, RoundsAgree, NEW g \in Handle, NEW p, NEW addr, Connects(g, p, addr)
    PROVE  RoundsAgree'
<1>1. PICK e, t : e = [type |-> "conn_complete", h |-> g, link |-> link'[g]] /\ t = <<e>>
  OBVIOUS
<1>2. /\ e.type = "conn_complete" /\ e.h = g /\ toHost' = Append(toHost, e)
      /\ link[g] = None /\ conn[g] = None /\ overlapped' = overlapped \ {g}
      /\ UNCHANGED <<up, allowed, db, conn, dialog, askedLast, cmd, job, air, peer>>
  BY <1>1 DEF Connects, hostVars, ctrlVars
<1>3. /\ Sequence(toHost) /\ Shapes /\ Silent /\ TurnsOK(toHost, conn, link) /\ FieldsTyped
  BY DEF BondsKept, QueueOK, ComparisonsAgree, RoundsAgree
<1>4. \A h \in Handle : h # g => link'[h] = link[h]
  BY <1>3 DEF Connects, Shapes
<1>5. NoEnd(toHost, g)
  BY DEF Connects, NoEnd, Elements
<1>6. Sequence(t) /\ Elements(t) = {e} /\ toHost' = toHost \o t
  BY <1>1, <1>2, <1>3, AppendOne, ElementsFew
<1>7. Elements(toHost') = Elements(toHost) \cup {e}
  BY <1>3, <1>6, ElementsJoin
<1>8. DhkeyUnderWay' => DhkeyUnderWay
  BY <1>2, <1>7, UnderWayFrom
<1>9. ASSUME NEW h \in Handle, h # g, h \notin overlapped' PROVE IndexKept(h)' /\ (Live(h)' => PairingOK(h)')
  <2>1. IndexKept(h) /\ (Live(h) => PairingOK(h))
    BY <1>2, <1>9 DEF RoundsAgree
  <2>2. \A f \in Elements(t) : ~Steers(f, h)
    BY <1>2, <1>6, <1>9 DEF Steers, Opening
  <2>3. Live(h)' => Live(h) /\ SameRound(peer[h], peer'[h]) /\ air'[h] = air[h]
    BY <1>2, <1>4, <1>9 DEF Live, SameRound
  <2>4. Asked(h)' => Asked(h)
    BY <1>2, <1>8 DEF Asked
  <2> QED
    BY <1>2, <1>3, <1>6, <2>1, <2>2, <2>3, <2>4, RoundAside
<1>10. IndexKept(g)' /\ ~Live(g)'
  <2>1. \A f \in Elements(toHost') : ~(f.type = "sm" /\ f.h = g)
    BY <1>2, <1>3, <1>5, <1>7, FreeHandle
  <2>2. \A op : ~InQueue(toHost', g, op)
    BY <2>1 DEF InQueue, IsPacket
  <2>3. \A op : AtMostOne(toHost', g, op)
    BY <2>1 DEF AtMostOne, IsPacket, Elements
  <2>4. conn'[g] = None
    BY <1>2
  <2> QED
    BY <1>2, <1>3, <2>2, <2>3, <2>4 DEF IndexKept, Live, Silent
<1>11. FieldsTyped'
  BY <1>2, <1>3, <1>7 DEF FieldsTyped
<1> QED
  BY <1>9, <1>10, <1>11 DEF RoundsAgree

\* Nothing is under way and no connection is up.
LEMMA RoundsRest ==
    ASSUME up \in BOOLEAN, allowed \in 0 .. 1, \A i \in DOMAIN db : db[i].pairing_method \in sm_pairing_method_t,
           toHost = <<>>, \A h \in Handle : conn[h] = None /\ link[h] = None
    PROVE  RoundsAgree
<1>1. Elements(toHost) = {} /\ DOMAIN toHost = {}
  BY ElementsFew
<1>2. \A h \in Handle : IndexKept(h) /\ ~Live(h)
  BY <1>1 DEF IndexKept, Live, InQueue, AtMostOne
<1> QED
  BY <1>1, <1>2 DEF RoundsAgree, FieldsTyped

LEMMA RoundsAgreeInit == Init => RoundsAgree
<1> SUFFICES ASSUME Init PROVE RoundsAgree
  OBVIOUS
<1>1. /\ up = TRUE /\ allowed = 1 /\ db = <<>> /\ toHost = <<>>
      /\ \A h \in Handle : conn[h] = None /\ link[h] = None
  BY DEF Init
<1> QED
  BY <1>1, RoundsRest

LEMMA RestartRounds == ASSUME RoundsAgree, Restart PROVE RoundsAgree'
<1>1. /\ up' = TRUE /\ allowed' = 1 /\ db' = db /\ toHost' = <<>>
      /\ \A h \in Handle : conn'[h] = None /\ link'[h] = None
  BY DEF Restart
<1>2. \A i \in DOMAIN db' : db'[i].pairing_method \in sm_pairing_method_t
  BY <1>1 DEF RoundsAgree, FieldsTyped
<1>3. Elements(toHost') = {} /\ DOMAIN toHost' = {}
  BY <1>1, ElementsFew
<1>4. \A h \in Handle : IndexKept(h)' /\ ~Live(h)'
  BY <1>1, <1>3 DEF IndexKept, Live, InQueue, AtMostOne
<1> QED
  BY <1>1, <1>2, <1>3, <1>4 DEF RoundsAgree, FieldsTyped

LEMMA RoundsAgreeNext ==
    ASSUME BondsKept, FailureExplained, ComparisonsAgree, RoundsAgree, Next PROVE RoundsAgree'
<1>1. CASE HostReceives
  BY <1>1, HostReceivesRounds
<1>2. CASE DialogAnswered
  BY <1>2, DialogAnsweredRounds
<1>3. CASE ControllerExecutes
  BY <1>3, ControllerExecutesRounds
<1>4. CASE ControllerComputes
  BY <1>4, ControllerComputesRounds
<1>5. CASE \E h \in Handle : PeerReceives(h)
  BY <1>5, PeerReceivesRounds DEF ComparisonsAgree
<1>6. CASE \E h \in Handle : PeerGoesOn(h)
  BY <1>6, PeerGoesOnRounds
<1>7. CASE \E h \in Handle, offer \in Offers : PeerStarts(h, offer)
  BY <1>7, PeerStartsRounds
<1>8. CASE \E h \in Handle : PeerEncrypts(h)
  BY <1>8, PeerEncryptsRounds
<1>9. CASE \E h \in Handle, p \in Peer : \E addr \in AddressesOf(p) : Connects(h, p, addr)
  BY <1>9, ConnectsRounds
<1>10. CASE \E h \in Handle : LinkLost(h)
  BY <1>10, LinkLostRounds
<1>11. CASE Restart
  BY <1>11, RestartRounds
<1> QED
  BY <1>1, <1>2, <1>3, <1>4, <1>5, <1>6, <1>7, <1>8, <1>9, <1>10, <1>11 DEF Next

LEMMA RoundsAgreeStutters ==
    ASSUME BondsKept, RoundsAgree, UNCHANGED vars PROVE RoundsAgree'
<1>1. UNCHANGED <<up, allowed, db, conn, dialog, askedLast, cmd, job, toHost, link, air, peer, overlapped>>
  BY DEF vars, hostVars, ctrlVars, peerVars, history
<1>2. PICK t : Sequence(t) /\ toHost' = toHost \o t /\ Elements(t) = {}
  <2>1. PICK S : toHost \in Seq(S)
    BY DEF BondsKept, QueueOK, Sequence
  <2>2. toHost \o <<>> = toHost
    BY <2>1, ConcatEmptySeq
  <2> QED
    BY <1>1, <2>2, ShortSequences, ElementsFew
<1>3. \A h \in Handle : Live(h)' => Live(h) /\ SameRound(peer[h], peer'[h]) /\ air'[h] = air[h]
  BY <1>1 DEF Live, SameRound
<1>4. DhkeyUnderWay' => DhkeyUnderWay
  BY <1>1 DEF DhkeyUnderWay
<1> QED
  BY <1>1, <1>2, <1>3, <1>4, TellsRounds

\* The number of the passkey's bit stays within the passkey on every connection whose peer did
\* not begin before all of an earlier pairing was over: it starts again with each passkey, goes
\* up with a random value of the peer only (__sm_recv_pairing_random), and the peer sends no
\* more of them than the passkey has bits, nor a next one before it has the host's.  The other
\* fields the handlers set keep their types.
THEOREM TypesCorrect == Spec => []TypeOK
<1> DEFINE IInv == ComparisonsAgree /\ RoundsAgree
<1>1. IInv => TypeOK
  <2> SUFFICES ASSUME RoundsAgree PROVE TypeOK
    OBVIOUS
  <2>1. /\ up \in BOOLEAN /\ allowed \in 0 .. 1
        /\ \A i \in DOMAIN db : db[i].pairing_method \in sm_pairing_method_t
    BY DEF RoundsAgree, FieldsTyped
  <2>2. ASSUME NEW h \in Handle, conn[h] # None
        PROVE  /\ ConnTyped(conn[h])
               /\ h \notin overlapped => conn[h].passkey_index \in 0 .. PasskeyBits
    BY <2>2, SmAssumption DEF RoundsAgree, FieldsTyped, IndexKept, ConnTyped
  <2> QED
    BY <2>1, <2>2 DEF TypeOK, ConnTyped
<1>2. Init => IInv
  BY ComparisonsAgreeInit, RoundsAgreeInit
<1>3. BondsKept /\ FailureExplained /\ IInv /\ [Next]_vars => IInv'
  <2>1. ASSUME BondsKept, FailureExplained, IInv, Next PROVE IInv'
    BY <2>1, ComparisonsAgreeNext, RoundsAgreeNext
  <2>2. ASSUME BondsKept, IInv, UNCHANGED vars PROVE IInv'
    BY <2>2, ComparisonsAgreeStutters, RoundsAgreeStutters
  <2> QED
    BY <2>1, <2>2
<1> QED
  BY <1>1, <1>2, <1>3, PairingsConsistent, FailuresExplained, PTL DEF Spec
=============================================================================
