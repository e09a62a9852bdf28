------------------------------ MODULE HciLinks ------------------------------
(***************************************************************************)
(* The connections of src/hci.cpp: the singly linked list hci_connections, *)
(* newest first, that connection and disconnection events build and that   *)
(* every later event and ACL packet is looked up in, and the reassembly of *)
(* L2CAP PDUs each connection carries (hci_recv_acl).  Where the code      *)
(* follows a null pointer the program ends.                                *)
(*                                                                         *)
(* The controller and the peers are external: events and ACL packets       *)
(* arrive in the order sent, a link's packets between its connection and   *)
(* its disconnection event.  A peer may break a PDU off and start the next *)
(* one, as hci_send_acl of this very stack does when its credits run out.  *)
(* One piece of a PDU, the header in its first, stands for its bytes.      *)
(***************************************************************************)
EXTENDS Naturals, Sequences, FiniteSets, SequencesExt

CONSTANTS
    Handle,      \* connection handles
    MaxPieces,   \* bound: pieces of a PDU
    MaxPdus,     \* bound: PDUs the peers start
    MaxLinks,    \* bound: links established
    MaxQueue,    \* bound: packets under way to the host
    MaxOpens     \* bound: how often the port is opened

ASSUME BoundsAssumption ==
    {MaxPieces, MaxPdus, MaxLinks, MaxQueue, MaxOpens} \subseteq Nat

VARIABLES
    hci_connections,  \* connection nodes, list head first
    opened, opens,
    toHost,           \* event and ACL packets under way
    links,            \* links the controller keeps, newest first
    resetting,        \* the reset of hci_init did not reach the controller yet
    sending,          \* per handle the PDU the peer is sending, 0 pieces: none
    pdus, linkups,
    crash,            \* "none", or which null pointer was followed
    finished,         \* ghost: per handle the PDUs the peer sent to their end
    delivered,        \* ghost: per handle what l2cap_recv was given
    leaked,           \* ghost: reassembly buffers without an owner
    brokenOff,        \* ghost: a peer broke a PDU off
    orphaned          \* ghost: the port was opened while the controller kept links

hostVars == <<hci_connections, crash, delivered, leaked>>
peerVars == <<sending, finished, pdus, brokenOff>>
portVars == <<opened, opens, orphaned>>
vars == <<hostVars, peerVars, portVars, toHost, links, resetting, linkups>>

NoPdu == [pdu |-> 0, sent |-> 0, total |-> 0]

Init == /\ hci_connections = <<>> /\ crash = "none"
        /\ opened = FALSE /\ opens = 0
        /\ toHost = <<>> /\ links = <<>> /\ resetting = FALSE
        /\ sending = [h \in Handle |-> NoPdu]
        /\ pdus = 0 /\ linkups = 0
        /\ finished = [h \in Handle |-> <<>>]
        /\ delivered = [h \in Handle |-> <<>>]
        /\ leaked = 0 /\ brokenOff = FALSE /\ orphaned = FALSE

-----------------------------------------------------------------------------
(***************************************************************************)
(* The connection list                                                     *)
(***************************************************************************)
\* Variant: the node's memory is not cleared.
NewConnectionUncleared(h) ==
    [connect_handle |-> h, segment_length_total |-> MaxPieces + 1, segment_length_received |-> 0,
     segment_buffer_recv |-> <<>>]

\* hci_add_connection, memset to zero and inserted at the head
NewConnection(h) ==
    [connect_handle |-> h, segment_length_total |-> 0, segment_length_received |-> 0,
     segment_buffer_recv |-> <<>>]

\* positions whose node has the handle; hci_find_connection_by_handle takes the first
Positions(h) == {i \in DOMAIN hci_connections : hci_connections[i].connect_handle = h}

\* Variant: the head of the list, whatever its handle.
HeadPosition(h) == 1

FirstPosition(h) == CHOOSE i \in Positions(h) : \A j \in Positions(h) : i <= j

Crashes(why) == crash' = why /\ UNCHANGED <<hci_connections, delivered, leaked>>

\* Variant: only the loop over the successors, without the case of the head.
DeleteBehindHead(h) ==
    \/ /\ Positions(h) = {} \/ FirstPosition(h) = 1
       /\ Crashes("unknown handle")
    \/ /\ Positions(h) # {} /\ FirstPosition(h) > 1
       /\ hci_connections' = RemoveAt(hci_connections, FirstPosition(h))
       /\ UNCHANGED <<crash, delivered, leaked>>

\* Variant: the node is freed without its reassembly buffer.
DeleteKeepsBuffer(h) ==
    /\ Positions(h) # {}
    /\ hci_connections' = RemoveAt(hci_connections, FirstPosition(h))
    /\ leaked' = leaked + (IF hci_connections[FirstPosition(h)].segment_buffer_recv = <<>> THEN 0 ELSE 1)
    /\ UNCHANGED <<crash, delivered>>

\* The node after the found one is the loop's next: past the end it is followed as a null
\* pointer, and so are the head of an empty list and the result when no node has the handle.
hci_delete_connection_by_handle(h) ==
    \/ /\ hci_connections = <<>> \/ Positions(h) = {}
       /\ Crashes("unknown handle")
    \/ /\ Positions(h) # {}
       /\ FirstPosition(h) = Len(hci_connections) /\ FirstPosition(h) # 1
       /\ Crashes("oldest of several")
    \/ /\ Positions(h) # {}
       /\ FirstPosition(h) < Len(hci_connections) \/ FirstPosition(h) = 1
       /\ hci_connections' = RemoveAt(hci_connections, FirstPosition(h))
       /\ UNCHANGED <<crash, delivered, leaked>>      \* its buffer is freed with it

-----------------------------------------------------------------------------
(***************************************************************************)
(* The host                                                                *)
(***************************************************************************)
Receive(type) ==
    /\ crash = "none"
    /\ toHost # <<>> /\ Head(toHost).type = type
    /\ toHost' = Tail(toHost)
    /\ UNCHANGED <<peerVars, portVars, links, resetting, linkups>>

\* Variant: the new connection goes to the end of the list.
RecvConnCompleteAtTail ==
    /\ Receive("connComplete")
    /\ hci_connections' = Append(hci_connections, NewConnection(Head(toHost).handle))
    /\ UNCHANGED <<crash, delivered, leaked>>

\* HCI_EVENT_LE_CONN_COMPLETE, HCI_EVENT_LE_ENHANCED_CONN_COMPLETE
RecvConnComplete ==
    /\ Receive("connComplete")
    /\ hci_connections' = <<NewConnection(Head(toHost).handle)>> \o hci_connections
    /\ UNCHANGED <<crash, delivered, leaked>>

__hci_recv_evt_disconn_complete ==
    /\ Receive("disconnComplete")
    /\ hci_delete_connection_by_handle(Head(toHost).handle)

Owned(buffer) == IF buffer = <<>> THEN 0 ELSE 1

\* HCI_ACL_SEGMENT_PACKET_FIRST: a PDU in one packet goes up at once; else a buffer is
\* allocated, also when one of a PDU broken off is still there.
RecvFirst ==
    /\ Receive("first")
    /\ LET p == Head(toHost)
           i == FirstPosition(p.handle)
       IN
       \/ /\ Positions(p.handle) = {}
          /\ Crashes("unknown handle")
       \/ /\ Positions(p.handle) # {}
          /\ p.total = 1
          /\ hci_connections' = [hci_connections EXCEPT ![i].segment_length_total = p.total,
                                                        ![i].segment_length_received = 1]
          /\ delivered' = [delivered EXCEPT ![p.handle] = Append(@, <<p.piece>>)]
          /\ UNCHANGED <<crash, leaked>>
       \/ /\ Positions(p.handle) # {}
          /\ p.total > 1
          /\ hci_connections' = [hci_connections EXCEPT ![i].segment_length_total = p.total,
                                                        ![i].segment_length_received = 1,
                                                        ![i].segment_buffer_recv = <<p.piece>>]
          /\ leaked' = leaked + Owned(hci_connections[i].segment_buffer_recv)
          /\ UNCHANGED <<crash, delivered>>

\* HCI_ACL_SEGMENT_PACKET_CONTINUE: the piece is added, and the PDU complete goes up.
RecvContinue ==
    /\ Receive("continue")
    /\ LET p == Head(toHost)
           i == FirstPosition(p.handle)
           node == hci_connections[i]
           buffer == Append(node.segment_buffer_recv, p.piece)
           received == node.segment_length_received + 1
       IN
       \/ /\ Positions(p.handle) = {}
          /\ Crashes("unknown handle")
       \/ /\ Positions(p.handle) # {}
          /\ node.segment_buffer_recv = <<>>
          /\ Crashes("no buffer")
       \/ /\ Positions(p.handle) # {}
          /\ node.segment_buffer_recv # <<>>
          /\ \/ /\ received = node.segment_length_total
                /\ delivered' = [delivered EXCEPT ![p.handle] = Append(@, buffer)]
                /\ hci_connections' = [hci_connections EXCEPT ![i].segment_length_received = received,
                                                              ![i].segment_buffer_recv = <<>>]
             \/ /\ received # node.segment_length_total
                /\ hci_connections' = [hci_connections EXCEPT ![i].segment_length_received = received,
                                                              ![i].segment_buffer_recv = buffer]
                /\ UNCHANGED delivered
          /\ UNCHANGED <<crash, leaked>>

HostReceives == \/ RecvConnComplete
                \/ __hci_recv_evt_disconn_complete
                \/ RecvFirst
                \/ RecvContinue

\* "Open" and hci_init: the list is forgotten, not freed; the links are the controller's until
\* it executes the reset.
Open ==
    /\ crash = "none"
    /\ ~opened /\ opens < MaxOpens
    /\ opened' = TRUE /\ opens' = opens + 1
    /\ hci_connections' = <<>>
    /\ leaked' = leaked + Cardinality({i \in DOMAIN hci_connections :
                                          hci_connections[i].segment_buffer_recv # <<>>})
    /\ resetting' = TRUE
    /\ orphaned' = (links # <<>>)
    /\ finished' = [h \in Handle |-> <<>>]
    /\ delivered' = [h \in Handle |-> <<>>]
    /\ UNCHANGED <<crash, toHost, links, sending, pdus, brokenOff, linkups>>

Close ==
    /\ crash = "none"
    /\ opened
    /\ opened' = FALSE
    /\ toHost' = <<>>
    /\ UNCHANGED <<hostVars, peerVars, opens, orphaned, links, resetting, linkups>>

-----------------------------------------------------------------------------
(***************************************************************************)
(* The controller and the peers (external)                                 *)
(***************************************************************************)
\* what is sent while the port is closed is lost
Emit(packet) ==
    /\ Len(toHost) < MaxQueue
    /\ toHost' = IF opened THEN Append(toHost, packet) ELSE toHost

ControllerResets ==
    /\ resetting /\ opened
    /\ resetting' = FALSE
    /\ links' = <<>>
    /\ sending' = [h \in Handle |-> NoPdu]
    /\ UNCHANGED <<hostVars, portVars, toHost, finished, pdus, brokenOff, linkups>>

LinkUp(h) ==
    /\ opened /\ ~resetting
    /\ linkups < MaxLinks
    /\ h \notin Range(links)
    /\ links' = <<h>> \o links
    /\ linkups' = linkups + 1
    /\ sending' = [sending EXCEPT ![h] = NoPdu]
    /\ Emit([type |-> "connComplete", handle |-> h])
    /\ UNCHANGED <<hostVars, portVars, finished, pdus, brokenOff, resetting>>

LinkDown(h) ==
    /\ \E i \in DOMAIN links : links[i] = h /\ links' = RemoveAt(links, i)
    /\ Emit([type |-> "disconnComplete", handle |-> h])
    /\ UNCHANGED <<hostVars, peerVars, portVars, resetting, linkups>>

Pdu(id, total) == [k \in 1 .. total |-> <<id, k>>]

\* sending[h] is set to now and its latest piece goes out
SendPiece(h, now, type) ==
    /\ sending' = [sending EXCEPT ![h] = now]
    /\ finished' = IF now.sent = now.total
                   THEN [finished EXCEPT ![h] = Append(@, Pdu(now.pdu, now.total))] ELSE finished
    /\ Emit([type |-> type, handle |-> h, piece |-> <<now.pdu, now.sent>>, total |-> now.total])
    /\ UNCHANGED <<hostVars, portVars, links, resetting, linkups>>

PeerStartsPdu(h, total) ==
    /\ h \in Range(links)
    /\ pdus < MaxPdus
    /\ pdus' = pdus + 1
    /\ brokenOff' = (brokenOff \/ sending[h].sent < sending[h].total)
    /\ SendPiece(h, [pdu |-> pdus + 1, sent |-> 1, total |-> total], "first")

PeerContinuesPdu(h) ==
    /\ h \in Range(links)
    /\ sending[h].sent < sending[h].total
    /\ SendPiece(h, [sending[h] EXCEPT !.sent = @ + 1], "continue")
    /\ UNCHANGED <<pdus, brokenOff>>

ControllerSends ==
    /\ crash = "none"
    /\ \/ ControllerResets
       \/ \E h \in Handle : \/ LinkUp(h) \/ LinkDown(h)
                            \/ \E total \in 1 .. MaxPieces : PeerStartsPdu(h, total)
                            \/ PeerContinuesPdu(h)

Next == Open \/ Close \/ HostReceives \/ ControllerSends

Spec == Init /\ [][Next]_vars

-----------------------------------------------------------------------------
Piece == (1 .. MaxPdus) \X (1 .. MaxPieces)

Connection == [connect_handle : Handle, segment_length_total : 0 .. MaxPieces,
               segment_length_received : 0 .. MaxPieces, segment_buffer_recv : Seq(Piece)]

TypeOK ==
    /\ hci_connections \in Seq(Connection)
    /\ crash \in {"none", "unknown handle", "oldest of several", "no buffer"}
    /\ opened \in BOOLEAN /\ opens \in 0 .. MaxOpens
    /\ Len(toHost) <= MaxQueue
    /\ links \in Seq(Handle) /\ resetting \in BOOLEAN
    /\ leaked \in Nat

\* A peer's PDUs reach L2CAP whole, once and in the order sent, however the packets of several
\* links, new links and lost ones interleave, and also after a PDU that was broken off.
PdusWholeAndInOrder ==
    \A h \in Handle : IsPrefix(delivered[h], finished[h])

\* When the host has handled everything under way, its list holds exactly the controller's
\* links, each once and the newest first.
ListMirrorsLinks ==
    opened /\ toHost = <<>> /\ ~resetting /\ crash = "none" =>
        [i \in DOMAIN hci_connections |-> hci_connections[i].connect_handle] = links

\* A null pointer is followed in two situations only: the disconnection of the oldest of several
\* links (the loop at hci.cpp:1158 steps past the end), and a packet of a link that outlived an
\* opening of the port (hci_init forgot it, the controller did not).
CrashesExplained ==
    /\ crash # "no buffer"
    /\ crash = "unknown handle" => orphaned

\* A reassembly buffer loses its owner only when a PDU was broken off, or the port was opened
\* with a PDU under way: a disconnection frees the buffer of its link.
BuffersFreed == leaked > 0 => brokenOff \/ opens > 1

\* "peer device disconnect" (hci.cpp:582): the host survives a disconnection, whichever link it is.
SurvivesDisconnect == opens <= 1 => crash = "none"
=============================================================================
