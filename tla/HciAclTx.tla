------------------------------ MODULE HciAclTx ------------------------------
(***************************************************************************)
(* The send side of ACL data in src/hci.cpp.  hci_send_acl cuts an L2CAP   *)
(* PDU into packets of le_acl_packet_length bytes and sends them as long   *)
(* as num_of_allowed_le_acl_packets, the credit for the controller's       *)
(* buffers, lasts.  There is no queue: what finds no credit is dropped,    *)
(* also the rest of a PDU whose first packets are gone.  Credits come back *)
(* only by Number Of Completed Packets; a disconnection returns none.      *)
(*                                                                         *)
(* The controller and the peers' reassembly are external: a FIFO of        *)
(* packets to the controller, Total buffers, transmission in order per     *)
(* link, reports in any portions, links that are lost at any time.  An     *)
(* event may report packets of several links: its parameters then          *)
(* alternate, handle and number of one link, handle and number of the      *)
(* next, while the host looks for all numbers behind all handles.          *)
(***************************************************************************)
EXTENDS Naturals, FiniteSets, Sequences, SequencesExt

CONSTANTS
    Handle,        \* connection handles
    Length,        \* lengths of L2CAP PDUs with their header
    PacketLength,  \* le_acl_packet_length of the controller
    Total,         \* total_num_le_acl_packets of the controller, an octet
    MaxPdus,       \* bound: PDUs sent
    MaxLinks       \* bound: links established

ASSUME HandleAssumption       == Handle \subseteq 0 .. 3839
ASSUME LengthAssumption       == Length \subseteq Nat \ {0}
ASSUME PacketLengthAssumption == PacketLength \in Nat \ {0}
ASSUME TotalAssumption        == Total \in 0 .. 255

VARIABLES
    le_acl_packet_length, num_of_allowed_le_acl_packets,
    linked,     \* handles in hci_connections
    wire,       \* ACL packets on the way to the controller
    held,       \* ACL packets in the controller's buffers
    done,       \* the handles of buffers emptied and not reported yet, one entry for each
    reported,   \* the same for buffers reported in events the host did not handle yet
    alive,      \* links the controller keeps up
    pdus, links,
    misread,    \* ghost: an event that reports packets of several links was handled
    leaked,     \* ghost: credits of packets that died with their link, never to return
    whole,      \* ghost: per link, the PDUs the host sent completely
    partial,    \* the peer's reassembly of the PDU under way
    received    \* the PDUs the peer put together

hostVars == <<le_acl_packet_length, num_of_allowed_le_acl_packets, linked>>
peerVars == <<partial, received>>
vars == <<hostVars, wire, held, done, reported, alive, pdus, links, misread, leaked, whole, peerVars>>

\* A packet carries the bytes of a PDU from its offset on; total stands for the L2CAP header.
Packet == [handle : Handle, pdu : Nat, pb : {"first", "continue"},
           offset : Nat, length : Nat, total : Length]

\* What a peer has of a PDU: the parts it put one behind another, each of a PDU and either in
\* its place there or not.
Part == [pdu : Nat, inPlace : BOOLEAN]
NoPdu == [parts |-> {}, got |-> 0, total |-> 0]

Init == /\ le_acl_packet_length = 0 /\ num_of_allowed_le_acl_packets = 0
        /\ linked = {} /\ alive = {}
        /\ wire = <<>> /\ held = <<>>
        /\ done = <<>> /\ reported = <<>>
        /\ pdus = 0 /\ links = 0 /\ leaked = 0 /\ misread = FALSE
        /\ whole = [h \in Handle |-> <<>>]
        /\ partial = [h \in Handle |-> NoPdu]
        /\ received = [h \in Handle |-> <<>>]

-----------------------------------------------------------------------------
(***************************************************************************)
(* The host                                                                *)
(***************************************************************************)
\* HCI_OCF_LE_READ_BUFFER_SIZE in __hci_recv_evt_command_complete
ReadBufferSize ==
    /\ le_acl_packet_length = 0
    /\ le_acl_packet_length' = PacketLength
    /\ num_of_allowed_le_acl_packets' = Total
    /\ UNCHANGED <<linked, wire, held, done, reported, alive, pdus, links, misread, leaked, whole, peerVars>>

hci_send_acl_allowed == num_of_allowed_le_acl_packets > 0

\* how many packets a PDU takes: one if it fits, else full ones and a last one
Pieces(length) == (length + le_acl_packet_length - 1) \div le_acl_packet_length

\* Variant: first_segment_sent is not set back for the next PDU.
PieceFirstOnce(h, length, k) ==
    [handle |-> h, pdu |-> pdus + 1, total |-> length,
     pb     |-> IF k = 1 /\ pdus = 0 THEN "first" ELSE "continue",
     offset |-> (k - 1) * le_acl_packet_length,
     length |-> IF k * le_acl_packet_length < length THEN le_acl_packet_length
                ELSE length - (k - 1) * le_acl_packet_length]

Piece(h, length, k) ==
    [handle |-> h, pdu |-> pdus + 1, total |-> length,
     pb     |-> IF k = 1 THEN "first" ELSE "continue",
     offset |-> (k - 1) * le_acl_packet_length,
     length |-> IF k * le_acl_packet_length < length THEN le_acl_packet_length
                ELSE length - (k - 1) * le_acl_packet_length]

\* Variant: the loop asks for a credit once, for the first packet.
SentPiecesUnasked(length) == Pieces(length)

\* the loop of hci_send_acl ends with the PDU or with the credits, whichever comes first
SentPieces(length) ==
    IF Pieces(length) <= num_of_allowed_le_acl_packets
    THEN Pieces(length) ELSE num_of_allowed_le_acl_packets

hci_send_acl(h, length) ==
    /\ h \in linked /\ pdus < MaxPdus
    /\ pdus' = pdus + 1
    /\ \/ /\ ~hci_send_acl_allowed
          /\ UNCHANGED <<num_of_allowed_le_acl_packets, wire, whole>>
       \/ /\ hci_send_acl_allowed
          /\ LET n == SentPieces(length) IN
             /\ wire' = wire \o [k \in 1 .. n |-> Piece(h, length, k)]
             /\ num_of_allowed_le_acl_packets' = num_of_allowed_le_acl_packets - n
             /\ whole' = IF n = Pieces(length)
                         THEN [whole EXCEPT ![h] = Append(@, pdus + 1)] ELSE whole
    /\ UNCHANGED <<le_acl_packet_length, linked, held, done, reported, alive, links, misread,
                   leaked, peerVars>>

\* An event about the first n buffers reported: a handle and a number for each link of theirs, in
\* the order of handles.
CompletedEvent(n, handles) ==
    [i \in 1 .. Len(handles) |->
        [handle |-> handles[i], number |-> Cardinality({k \in 1 .. n : reported[k] = handles[i]})]]

\* data[2 * (number_handles + index) + 1], the low octet of one of the two-octet parameters, which
\* alternate from data[1] on: the number of an event's only link, else also handles.
OctetRead(event, index) ==
    LET slot == Len(event) + index
        link == event[slot \div 2 + 1]
    IN IF slot % 2 = 0 THEN link.handle % 256 ELSE link.number % 256

\* Variant: an event counts as one packet.
CompletedPacketsOne(event) == 1

\* all_completed_packets_number, an octet: the octets read are added up by counting up to each.
CompletedPackets(event) ==
    Cardinality(UNION {{index} \X (1 .. OctetRead(event, index)) : index \in 0 .. Len(event) - 1})
        % 256

\* Variant: the credits are set to what the event reports, not raised by it.
CompletedPacketsSet(n, handles) ==
    /\ num_of_allowed_le_acl_packets' = CompletedPackets(CompletedEvent(n, handles))
    /\ reported' = SubSeq(reported, n + 1, Len(reported))
    /\ misread' = IF Len(handles) > 1 THEN TRUE ELSE misread
    /\ UNCHANGED <<le_acl_packet_length, linked, wire, held, done, alive, pdus, links, leaked,
                   whole, peerVars>>

\* The numbers of all handles of the event are added up in an octet, whichever link they are of.
__hci_recv_evt_number_of_completed_packets(n, handles) ==
    /\ num_of_allowed_le_acl_packets' =
            (num_of_allowed_le_acl_packets + CompletedPackets(CompletedEvent(n, handles))) % 256
    /\ reported' = SubSeq(reported, n + 1, Len(reported))
    /\ misread' = IF Len(handles) > 1 THEN TRUE ELSE misread
    /\ UNCHANGED <<le_acl_packet_length, linked, wire, held, done, alive, pdus, links, leaked,
                   whole, peerVars>>

\* HCI_EVENT_LE_CONN_COMPLETE, HCI_EVENT_LE_ENHANCED_CONN_COMPLETE
RecvConnComplete(h) ==
    /\ h \in alive \ linked
    /\ linked' = linked \cup {h}
    /\ UNCHANGED <<le_acl_packet_length, num_of_allowed_le_acl_packets, wire, held, done, reported,
                   alive, pdus, links, misread, leaked, whole, peerVars>>

\* The connection is deleted; the credits of its packets are not taken back.
__hci_recv_evt_disconn_complete(h) ==
    /\ h \in linked \ alive
    /\ linked' = linked \ {h}
    /\ UNCHANGED <<le_acl_packet_length, num_of_allowed_le_acl_packets, wire, held, done, reported,
                   alive, pdus, links, misread, leaked, whole, peerVars>>

-----------------------------------------------------------------------------
(***************************************************************************)
(* The controller and the peers (external)                                 *)
(***************************************************************************)
\* A handle is given out again only when nothing of its last link is left.
LinkUp(h) ==
    /\ le_acl_packet_length # 0
    /\ links < MaxLinks
    /\ h \notin alive \cup linked
    /\ \A i \in DOMAIN wire : wire[i].handle # h
    /\ \A i \in DOMAIN held : held[i].handle # h
    /\ \A i \in DOMAIN done : done[i] # h
    /\ alive' = alive \cup {h} /\ links' = links + 1
    /\ whole' = [whole EXCEPT ![h] = <<>>]
    /\ partial' = [partial EXCEPT ![h] = NoPdu]
    /\ received' = [received EXCEPT ![h] = <<>>]
    /\ UNCHANGED <<hostVars, wire, held, done, reported, pdus, misread, leaked>>

LinkLost(h) ==
    /\ h \in alive \cap linked
    /\ alive' = alive \ {h}
    /\ UNCHANGED <<hostVars, wire, held, done, reported, pdus, links, misread, leaked, whole, peerVars>>

\* A packet for a link that is gone, or that finds no buffer, is thrown away.
ControllerTakes ==
    /\ wire # <<>>
    /\ wire' = Tail(wire)
    /\ \/ /\ Head(wire).handle \in alive /\ Len(held) < Total
          /\ held' = Append(held, Head(wire))
          /\ UNCHANGED leaked
       \/ /\ Head(wire).handle \notin alive \/ Len(held) >= Total
          /\ leaked' = leaked + 1
          /\ UNCHANGED held
    /\ UNCHANGED <<hostVars, done, reported, alive, pdus, links, misread, whole, peerVars>>

ControllerFlushes(i) ==
    /\ held[i].handle \notin alive
    /\ held' = RemoveAt(held, i)
    /\ leaked' = leaked + 1
    /\ UNCHANGED <<hostVars, wire, done, reported, alive, pdus, links, misread, whole, peerVars>>

\* A packet was sent over a link that is gone by now: it need not be reported.
ControllerForgets(i) ==
    /\ done[i] \notin alive
    /\ done' = RemoveAt(done, i)
    /\ leaked' = leaked + 1
    /\ UNCHANGED <<hostVars, wire, held, reported, alive, pdus, links, misread, whole, peerVars>>

\* The peer starts over at a first packet and has a PDU when its length is reached.
Reassembled(old, packet) ==
    LET start == IF packet.pb = "first" THEN [NoPdu EXCEPT !.total = packet.total] ELSE old
    IN [parts |-> start.parts \cup {[pdu |-> packet.pdu, inPlace |-> packet.offset = start.got]},
        got |-> start.got + packet.length, total |-> start.total]

PeerTakes(packet) ==
    LET h == packet.handle
        now == Reassembled(partial[h], packet)
    IN IF now.got = now.total
       THEN /\ received' = [received EXCEPT ![h] = Append(@, now.parts)]
            /\ partial' = [partial EXCEPT ![h] = NoPdu]
       ELSE /\ partial' = [partial EXCEPT ![h] = now]
            /\ UNCHANGED received

ControllerTransmits(i) ==
    /\ held[i].handle \in alive
    /\ \A j \in 1 .. i - 1 : held[j].handle # held[i].handle
    /\ held' = RemoveAt(held, i)
    /\ done' = Append(done, held[i].handle)
    /\ PeerTakes(held[i])
    /\ UNCHANGED <<hostVars, wire, reported, alive, pdus, links, misread, leaked, whole>>

ControllerReports ==
    /\ done # <<>>
    /\ reported' = reported \o done
    /\ done' = <<>>
    /\ UNCHANGED <<hostVars, wire, held, alive, pdus, links, misread, leaked, whole, peerVars>>

ControllerWorks == \/ ControllerTakes
                   \/ \E i \in DOMAIN held : ControllerFlushes(i) \/ ControllerTransmits(i)
                   \/ \E i \in DOMAIN done : ControllerForgets(i)
                   \/ ControllerReports

HostReceives == \/ \E n \in 1 .. Len(reported) :
                       \E handles \in SetToSeqs({reported[k] : k \in 1 .. n}) :
                           __hci_recv_evt_number_of_completed_packets(n, handles)
                \/ \E h \in Handle : RecvConnComplete(h) \/ __hci_recv_evt_disconn_complete(h)

Next == \/ ReadBufferSize
        \/ \E h \in Handle, length \in Length : hci_send_acl(h, length)
        \/ HostReceives
        \/ \E h \in Handle : LinkUp(h) \/ LinkLost(h)
        \/ ControllerWorks

Spec == Init /\ [][Next]_vars

\* The controller works off what it holds and the event loop handles the events.
FairSpec == Spec /\ WF_vars(ControllerWorks) /\ WF_vars(HostReceives)

-----------------------------------------------------------------------------
TypeOK ==
    /\ le_acl_packet_length \in {0, PacketLength}
    /\ num_of_allowed_le_acl_packets \in 0 .. 255
    /\ linked \subseteq Handle /\ alive \subseteq Handle
    /\ wire \in Seq(Packet) /\ held \in Seq(Packet)
    /\ done \in Seq(Handle) /\ reported \in Seq(Handle)
    /\ pdus \in Nat /\ links \in Nat /\ leaked \in Nat /\ misread \in BOOLEAN
    /\ whole \in [Handle -> Seq(Nat)]
    /\ partial \in [Handle -> [parts : SUBSET Part, got : Nat, total : Nat]]
    /\ received \in [Handle -> Seq(SUBSET Part)]

\* Every buffer of the controller is accounted for at every moment: its credit is with the host,
\* in a packet sent, in a buffer emptied, in a report under way, or died with a link.  In
\* particular the octet that holds the credits neither wraps below zero nor above 255.  The log of
\* hci.cpp:591 calls the octets that are added up num_completed_packets; in an event about several
\* links they are not, so this fails.
EveryCreditCounted ==
    num_of_allowed_le_acl_packets + Len(wire) + Len(held) + Len(done) + Len(reported) + leaked
        = IF le_acl_packet_length = 0 THEN 0 ELSE Total

\* Events about several links are all that upsets the account of the credits: with any number of
\* links, as long as each event reports packets of one of them, it always adds up.
CreditLedger == ~misread => EveryCreditCounted

\* However PDUs, reports and lost links interleave, each packet the host sends finds a buffer,
\* until the credits are misread (hci.cpp:594).
NoControllerOverrun == ~misread => Len(wire) + Len(held) <= Total

\* A peer puts together exactly PDUs the host sent whole, in the order it sent them, each byte in
\* its place: a PDU cut off for want of credits (hci.cpp:730) is never completed by the next
\* one's packets.  Once the credits are misread a PDU sent whole may lose packets that find no
\* buffer, and the peer may miss it.
PeerGetsWholePdus ==
    ~misread =>
        \A h \in Handle :
            /\ Len(received[h]) <= Len(whole[h])
            /\ \A i \in DOMAIN received[h] :
                    received[h][i] = {[pdu |-> whole[h][i], inPlace |-> TRUE]}

\* Unless the credits are misread, every credit that did not die with a link comes back to the
\* host, and every PDU sent whole over a link that stays up reaches the peer.
CreditsReturn ==
    <>[](le_acl_packet_length # 0 /\ ~misread =>
            /\ num_of_allowed_le_acl_packets + leaked = Total
            /\ \A h \in alive : Len(received[h]) = Len(whole[h]))
=============================================================================
