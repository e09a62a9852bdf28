----------------------------- MODULE GattServer -----------------------------
(***************************************************************************)
(* The ATT and GATT server of src/att.cpp and src/gatt.cpp as its peers    *)
(* meet it: requests are dispatched on their opcode and answered from the  *)
(* database in one step of the event loop; the MTU belongs to a connection,*)
(* the values, the client configurations among them, to all of them; every *)
(* PDU leaves through l2cap_send and hci_send_acl, which drop what finds no *)
(* ACL credit.                                                             *)
(*                                                                         *)
(* The peers are external.  A peer is an ATT client with one request       *)
(* outstanding: it walks a discovery procedure or a long read to its end,  *)
(* each next request starting behind the last entry it got, and in between *)
(* may exchange the MTU or write a client configuration.  Also external    *)
(* are links that come and go, pairing that authenticates a peer, and the  *)
(* controller that reports packets as completed.                           *)
(***************************************************************************)
EXTENDS GattDatabase, FiniteSets

CONSTANTS
    Peer,          \* peers, one connection handle each
    AclLengths,    \* what the controller may report as le_acl_packet_length
    AclPackets,    \* the ACL packets the controller has buffers for
    ClientMtus,    \* MTUs a peer may ask for
    Procedures,    \* pairs <<procedure, target>> the peers run
    WriteTargets,  \* handles the peers write to
    WriteValues,   \* the values they write, as the bits of a client configuration
    Notifiable,    \* pairs <<service, characteristic>> the application notifies or indicates
    StreamLengths, \* lengths of the data the application passes through
    MaxProcedures, MaxWrites, MaxSends, MaxLinks, MaxOpens  \* bounds on what peers and user start

\* A peer looks for all services, or for one the database has.
ASSUME ProceduresAssumption ==
    \A pair \in Procedures : /\ pair[1] = "services" => pair[2] \notin ServiceId
                             /\ pair[1] = "service" => pair[2] \in ServiceId

\* Lengths and MTUs are positive, and what the application notifies is a characteristic's value.
ASSUME ServerAssumption ==
    /\ AclLengths \subseteq Nat \ {0} /\ StreamLengths \subseteq Nat \ {0}
    /\ ClientMtus \subseteq Nat \ {0} /\ AclPackets \in Nat
    /\ \A pair \in Notifiable :
          pair[1] \in ServiceId /\ \E item \in ToSet(Service[pair[1]].items) : item.type = pair[2]

VARIABLES
    services, memory,     \* gatt.cpp: registered services; bits of every client configuration
    overwritten,          \* gatt.cpp: other attributes whose value a peer has replaced
    att_mtu, is_authenticated,  \* per connection; MTU 0: there is none
    le_acl_packet_length, credits, unreported,  \* hci.cpp; packets sent and not reported
    crash,                \* "none", or why the program ended
    toServer, toClient,   \* PDUs under way
    client,               \* what each peer is doing
    opens, links, procedures, writes, sends,  \* counters for the bounds
    unheard               \* ghost: peers whose response was dropped for want of a credit

databaseVars == <<services, memory, overwritten>>
aclVars == <<credits, unreported>>
boundVars == <<opens, links, procedures, writes, sends>>
vars == <<databaseVars, aclVars, boundVars, att_mtu, is_authenticated, le_acl_packet_length,
          crash, toServer, toClient, client, unheard>>

ATT_MTU_DEFAULT == 23
L2CAP_LENGTH_HEADER == 4
LastHandle == 65535
GATT_MAX_COUNT_SERVICE == 10
Configuration == {h \in DOMAIN ItemAt : ItemAt[h].type = CCC}
Bits == {"notify", "indicate"}

Idle == [procedure |-> "none", target |-> "none", next |-> 0, found |-> <<>>, mtu |-> ATT_MTU_DEFAULT,
         awaits |-> "none", done |-> TRUE, regrown |-> FALSE, asked |-> 0]

Init == /\ services = <<>>
        /\ memory = [h \in Configuration |-> {}] /\ overwritten = {}
        /\ att_mtu = [p \in Peer |-> 0] /\ is_authenticated = [p \in Peer |-> FALSE]
        /\ le_acl_packet_length \in AclLengths /\ credits = AclPackets /\ unreported = 0
        /\ crash = "none"
        /\ toServer = [p \in Peer |-> <<>>] /\ toClient = [p \in Peer |-> <<>>]
        /\ client = [p \in Peer |-> Idle]
        /\ opens = 0 /\ links = 0 /\ procedures = 0 /\ writes = 0 /\ sends = 0
        /\ unheard = {}

-----------------------------------------------------------------------------
(***************************************************************************)
(* Sending                                                                 *)
(***************************************************************************)
\* ACL packets that hci_send_acl makes of a PDU
Packets(length) == (length + L2CAP_LENGTH_HEADER + le_acl_packet_length - 1) \div le_acl_packet_length

IsResponse(pdu) == pdu.op \notin {"notification", "indication"}

\* PDUs one after the other, of one size but for the last, which may be shorter: they are sent
\* while credits last; what is sent of the first that is cut off costs the credits that are left
\* and reaches no peer
att_send(p, pdus) ==
    LET need  == Packets(pdus[1].length)
        total == (Len(pdus) - 1) * need + Packets(Last(pdus).length)
        sent  == IF total <= credits THEN Len(pdus) ELSE Min({Len(pdus) - 1, credits \div need})
        cost  == Min({credits, total})
    IN /\ toClient' = [toClient EXCEPT ![p] = @ \o SubSeq(pdus, 1, sent)]
       /\ credits' = credits - cost
       /\ unreported' = IF sent = Len(pdus) THEN unreported ELSE unreported + (cost - sent * need)
       /\ unheard' = IF sent < Len(pdus) /\ IsResponse(pdus[1]) THEN unheard \union {p} ELSE unheard

Runs == crash = "none"
Connected(p) == att_mtu[p] # 0

\* a PDU is taken from the connection and given to its handler
Receive(p, op) ==
    /\ Runs
    /\ toServer[p] # <<>> /\ Head(toServer[p]).op = op
    /\ toServer' = [toServer EXCEPT ![p] = Tail(@)]
    /\ UNCHANGED <<services, is_authenticated, le_acl_packet_length, client, boundVars>>

Reply(p, pdu) == att_send(p, <<pdu>>) /\ UNCHANGED crash

-----------------------------------------------------------------------------
(***************************************************************************)
(* MTU exchange                                                            *)
(***************************************************************************)
\* what __att_recv_exchange_mtu_req makes of the two MTUs; max_mtu is a uint16_t
Negotiated(client_mtu) ==
    LET max_mtu == (le_acl_packet_length + 65536 - L2CAP_LENGTH_HEADER) % 65536
    IN Max({Min({max_mtu, client_mtu}), ATT_MTU_DEFAULT})

RecvExchangeMtu(p) ==
    /\ Receive(p, "exchange_mtu")
    /\ LET mtu == Negotiated(Head(toServer[p]).mtu) IN
       /\ att_mtu' = [att_mtu EXCEPT ![p] = mtu]
       /\ Reply(p, [op |-> "exchange_mtu", mtu |-> mtu, length |-> 3])
    /\ UNCHANGED databaseVars

-----------------------------------------------------------------------------
(***************************************************************************)
(* Reading                                                                 *)
(***************************************************************************)
CheckReadPermission(p, item) ==
    IF "read_authenticate" \in item.permission /\ ~is_authenticated[p]
    THEN "insufficient_authentication" ELSE "none"

\* a permission to write at all is not asked for
CheckWritePermission(p, item) ==
    IF "write_authenticate" \in item.permission /\ ~is_authenticated[p]
    THEN "insufficient_authentication" ELSE "none"

\* bytes from (included) up to to (excluded) of the value of the attribute
Part(op, item, from, mtu) ==
    LET to == Min({item.size, from + mtu - 1})
    IN [op |-> op, handle |-> item.handle, from |-> from, to |-> to, length |-> 1 + to - from]

ReadAnswer(p, h) ==
    LET found == Lookup(services, h)
        item  == CHOOSE i \in found : TRUE
        code  == CheckReadPermission(p, item)
    IN IF found = {} THEN gatt_send_error_resp("read", h, "invalid_handle")
       ELSE IF code # "none" THEN gatt_send_error_resp("read", h, code)
       ELSE Part("read", item, 0, att_mtu[p])

\* Variant: a blob starts behind the byte asked for.
BlobAnswerShifted(p, h, offset) ==
    LET item == CHOOSE i \in Lookup(services, h) : TRUE IN
    IF item.size <= att_mtu[p] - 1 THEN gatt_send_error_resp("read_blob", h, "attribute_not_long")
    ELSE Part("read_blob", item, offset + 1, att_mtu[p])

\* the offset is checked before the length of the attribute is
BlobAnswer(p, h, offset) ==
    LET found == Lookup(services, h)
        item  == CHOOSE i \in found : TRUE
        code  == CASE found = {} -> "invalid_handle"
                   [] found # {} /\ CheckReadPermission(p, item) # "none" -> CheckReadPermission(p, item)
                   [] OTHER -> IF item.size < offset THEN "invalid_offset"
                               ELSE IF item.size <= att_mtu[p] - 1 THEN "attribute_not_long"
                               ELSE "none"
    IN IF code = "none" THEN Part("read_blob", item, offset, att_mtu[p])
       ELSE gatt_send_error_resp("read_blob", h, code)

gatt_recv_read_req(p) ==
    /\ Receive(p, "read")
    /\ Reply(p, ReadAnswer(p, Head(toServer[p]).handle))
    /\ UNCHANGED <<databaseVars, att_mtu>>

gatt_recv_read_blob_req(p) ==
    /\ Receive(p, "read_blob")
    /\ Reply(p, BlobAnswer(p, Head(toServer[p]).handle, Head(toServer[p]).offset))
    /\ UNCHANGED <<databaseVars, att_mtu>>

\* Variant: a range without items is not answered.
FindInformationSilent(p) ==
    /\ Receive(p, "find_information")
    /\ LET r == Head(toServer[p])
           answer == FindInformation(services, r.start, r.end, att_mtu[p])
       IN IF answer.op = "error" THEN UNCHANGED <<toClient, aclVars, unheard, crash>> ELSE Reply(p, answer)
    /\ UNCHANGED <<databaseVars, att_mtu>>

gatt_recv_find_information_req(p) ==
    /\ Receive(p, "find_information")
    /\ LET r == Head(toServer[p]) IN Reply(p, FindInformation(services, r.start, r.end, att_mtu[p]))
    /\ UNCHANGED <<databaseVars, att_mtu>>

gatt_recv_find_by_type_value_req(p) ==
    /\ Receive(p, "find_by_type_value")
    /\ LET r == Head(toServer[p])
       IN Reply(p, FindByTypeValue(services, overwritten, r.start, r.end, r.type, r.value, att_mtu[p]))
    /\ UNCHANGED <<databaseVars, att_mtu>>

\* A response longer than the MTU was written past the end of its buffer: the program may end
\* at once or go on.
gatt_recv_read_by_type_req(p) ==
    /\ Receive(p, "read_by_type")
    /\ LET r == Head(toServer[p])
           answer == ReadByType(services, r.start, r.end, r.type, att_mtu[p])
       IN \/ Reply(p, answer)
          \/ answer.length > att_mtu[p] /\ crash' = "overrun" /\ UNCHANGED <<toClient, aclVars, unheard>>
    /\ UNCHANGED <<databaseVars, att_mtu>>

gatt_recv_read_by_group_type_req(p) ==
    /\ Receive(p, "read_by_group_type")
    /\ LET r == Head(toServer[p])
       IN Reply(p, ReadByGroupType(services, r.start, r.end, r.type, att_mtu[p]))
    /\ UNCHANGED <<databaseVars, att_mtu>>

-----------------------------------------------------------------------------
(***************************************************************************)
(* Writing                                                                 *)
(***************************************************************************)
Silent == UNCHANGED <<toClient, aclVars, unheard, crash>>

\* the value, two bytes long, is copied into the attribute's memory, whatever attribute it is
Store(h, value) ==
    IF h \in Configuration
    THEN memory' = [memory EXCEPT ![h] = value] /\ UNCHANGED overwritten
    ELSE overwritten' = overwritten \union {h} /\ UNCHANGED memory

\* what stops a write, "none" for nothing; an attribute without memory takes any value
WriteError(p, h) ==
    LET found == Lookup(services, h)
        item  == CHOOSE i \in found : TRUE
    IN CASE found = {} -> "attribute_not_found"
         [] found # {} /\ CheckWritePermission(p, item) # "none" -> CheckWritePermission(p, item)
         [] OTHER -> IF item.size # 0 /\ item.size < 2 THEN "invalid_attribute_value_length" ELSE "none"

\* Variant: a write request that finds no memory for its value is not answered.
WriteReqUnanswered(p) ==
    /\ Receive(p, "write_request")
    /\ LET r == Head(toServer[p]) IN
       \/ WriteError(p, r.handle) # "none"
          /\ Reply(p, gatt_send_error_resp("write_request", r.handle, WriteError(p, r.handle)))
          /\ UNCHANGED databaseVars
       \/ WriteError(p, r.handle) = "none" /\ ItemAt[r.handle].size = 0
          /\ Silent /\ UNCHANGED databaseVars
       \/ WriteError(p, r.handle) = "none" /\ ItemAt[r.handle].size # 0
          /\ Store(r.handle, r.value)
          /\ Reply(p, [op |-> "write_request", length |-> 1])
    /\ UNCHANGED att_mtu

\* A write that is taken by an attribute without memory is answered with an error all the same.
gatt_recv_write_req(p) ==
    /\ Receive(p, "write_request")
    /\ LET r == Head(toServer[p]) IN
       \/ WriteError(p, r.handle) # "none"
          /\ Reply(p, gatt_send_error_resp("write_request", r.handle, WriteError(p, r.handle)))
          /\ UNCHANGED databaseVars
       \/ WriteError(p, r.handle) = "none" /\ ItemAt[r.handle].size = 0
          /\ Reply(p, gatt_send_error_resp("write_request", r.handle, "attribute_not_found"))
          /\ UNCHANGED databaseVars
       \/ WriteError(p, r.handle) = "none" /\ ItemAt[r.handle].size # 0
          /\ Store(r.handle, r.value)
          /\ Reply(p, [op |-> "write_request", length |-> 1])
    /\ UNCHANGED att_mtu

gatt_recv_write_cmd(p) ==
    /\ Receive(p, "write_command")
    /\ LET r == Head(toServer[p]) IN
       IF WriteError(p, r.handle) = "none" /\ ItemAt[r.handle].size # 0
       THEN Store(r.handle, r.value) ELSE UNCHANGED <<memory, overwritten>>
    /\ Silent /\ UNCHANGED att_mtu

gatt_recv_handle_value_cfm(p) ==
    /\ Receive(p, "confirmation")
    /\ Silent /\ UNCHANGED <<databaseVars, att_mtu>>

\* att_recv knows no other request and answers it with nothing
RecvUnknown(p) ==
    /\ Receive(p, "read_multiple")
    /\ Silent /\ UNCHANGED <<databaseVars, att_mtu>>

att_recv(p) ==
    \/ RecvExchangeMtu(p) \/ gatt_recv_find_information_req(p)
    \/ gatt_recv_find_by_type_value_req(p) \/ gatt_recv_read_by_type_req(p)
    \/ gatt_recv_read_req(p) \/ gatt_recv_read_blob_req(p)
    \/ gatt_recv_read_by_group_type_req(p) \/ gatt_recv_write_req(p)
    \/ gatt_recv_write_cmd(p) \/ gatt_recv_handle_value_cfm(p) \/ RecvUnknown(p)

-----------------------------------------------------------------------------
(***************************************************************************)
(* What the application sends                                              *)
(***************************************************************************)
\* the first client configuration at or behind the characteristic's value, in its service
ConfigurationFor(id, type) ==
    LET items == Service[id].items
        value == SelectInSeq(items, LAMBDA item : item.type = type)
        ccc   == SelectInSubSeq(items, value, Len(items), LAMBDA item : item.type = CCC)
    IN {items[i].handle : i \in {ccc} \ {0}}

\* __gatt_check_notify_permission and __gatt_check_indicate_permission: the configuration is one
\* for all connections
Permitted(id, type, bit) ==
    id \in ToSet(services) /\ \E h \in ConfigurationFor(id, type) : bit \in memory[h]

AppSends(p) ==
    /\ Runs /\ opens > 0 /\ sends < MaxSends
    /\ sends' = sends + 1
    /\ UNCHANGED <<databaseVars, att_mtu, is_authenticated, le_acl_packet_length, toServer, client,
                   opens, links, procedures, writes>>

\* Nothing in the program calls these two; they are called for a peer that is connected.
SendValue(p, bit, op) ==
    /\ AppSends(p) /\ Connected(p)
    /\ \E pair \in Notifiable :
         /\ Permitted(pair[1], pair[2], bit)
         /\ LET item == CHOOSE i \in ToSet(Service[pair[1]].items) : i.type = pair[2]
            IN Reply(p, [op |-> op, service |-> pair[1], type |-> pair[2],
                         length |-> 3 + Min({item.size, att_mtu[p] - 3})])

gatt_send_notify(p) == SendValue(p, "notify", "notification")
gatt_send_indicate(p) == SendValue(p, "indicate", "indication")

\* the data in notifications of the test service, whatever the client configuration
gatt_send_passthrough(p) ==
    /\ AppSends(p)
    /\ \/ ~Connected(p) /\ crash' = "no_connection" /\ UNCHANGED <<toClient, aclVars, unheard>>
       \/ /\ Connected(p)
          /\ \E length \in StreamLengths :
               LET most  == att_mtu[p] - 3
                   count == (length + most - 1) \div most
               IN att_send(p, [i \in 1..count |->
                      [op |-> "notification", service |-> "test", type |-> "test_tx",
                       length |-> 3 + Min({most, length - (i - 1) * most})]])
          /\ UNCHANGED crash

-----------------------------------------------------------------------------
(***************************************************************************)
(* Links, pairing, completed packets and the port                          *)
(***************************************************************************)
\* hci_add_connection, all zero but the MTU
LinkUp(p) ==
    /\ Runs /\ opens > 0 /\ ~Connected(p) /\ links < MaxLinks
    /\ links' = links + 1
    /\ att_mtu' = [att_mtu EXCEPT ![p] = ATT_MTU_DEFAULT]
    /\ is_authenticated' = [is_authenticated EXCEPT ![p] = FALSE]
    /\ client' = [client EXCEPT ![p] = Idle]
    /\ unheard' = unheard \ {p}
    /\ UNCHANGED <<databaseVars, aclVars, le_acl_packet_length, crash, toServer, toClient,
                   opens, procedures, writes, sends>>

\* The event comes behind what the peer had sent.  What was to be sent is lost with its credits.
LinkDown(p) ==
    /\ Runs /\ Connected(p) /\ toServer[p] = <<>>
    /\ att_mtu' = [att_mtu EXCEPT ![p] = 0]
    /\ toClient' = [toClient EXCEPT ![p] = <<>>]
    /\ client' = [client EXCEPT ![p] = Idle]
    /\ UNCHANGED <<databaseVars, aclVars, boundVars, is_authenticated, le_acl_packet_length,
                   crash, toServer, unheard>>

\* Encryption with a key of a bonding sets the flag by how the key was made, its end resets it.
\* The keys the handler sends take credits, for which the data of the application stand.
sm_recv_evt_encryption_change(p) ==
    /\ Runs /\ Connected(p)
    /\ is_authenticated' = [is_authenticated EXCEPT ![p] = ~@]
    /\ UNCHANGED <<databaseVars, aclVars, boundVars, att_mtu, le_acl_packet_length, crash,
                   toServer, toClient, client, unheard>>

\* Each event is of one connection, which the handler reads rightly; HciAclTx has the others.
CompletedPackets ==
    /\ Runs
    /\ \E n \in 1 .. unreported : credits' = credits + n /\ unreported' = unreported - n
    /\ UNCHANGED <<databaseVars, boundVars, att_mtu, is_authenticated, le_acl_packet_length, crash,
                   toServer, toClient, client, unheard>>

\* gatt_init adds its services to those that are registered already, as far as there is room
gatt_init ==
    services' = LET more == services \o <<"generic_access", "generic_attribute", "battery", "test">>
                IN SubSeq(more, 1, Min({Len(more), GATT_MAX_COUNT_SERVICE}))

\* gatt_init, hci_init and the bring-up
Open ==
    /\ Runs /\ opens < MaxOpens
    /\ opens' = opens + 1
    /\ gatt_init
    /\ att_mtu' = [p \in Peer |-> 0] /\ is_authenticated' = [p \in Peer |-> FALSE]
    /\ credits' = AclPackets /\ unreported' = 0
    /\ toServer' = [p \in Peer |-> <<>>] /\ toClient' = [p \in Peer |-> <<>>]
    /\ client' = [p \in Peer |-> Idle]
    /\ UNCHANGED <<memory, overwritten, le_acl_packet_length, crash, unheard, links, procedures,
                   writes, sends>>

-----------------------------------------------------------------------------
(***************************************************************************)
(* The peers                                                               *)
(***************************************************************************)
FirstHandle(target) == IF target \in ServiceId THEN Service[target].start_handle ELSE 1
FinalHandle(target) == IF target \in ServiceId THEN Service[target].end_handle ELSE LastHandle
HandleOf(type) == CHOOSE h \in DOMAIN ItemAt : ItemAt[h].type = type

\* the next request of the peer's procedure
Request(c) ==
    CASE c.procedure = "services" ->
           [op |-> "read_by_group_type", start |-> c.next, end |-> LastHandle, type |-> "primary_service"]
      [] c.procedure = "service" ->
           [op |-> "find_by_type_value", start |-> c.next, end |-> LastHandle,
            type |-> "primary_service", value |-> c.target]
      [] c.procedure = "characteristics" ->
           [op |-> "read_by_type", start |-> c.next, end |-> FinalHandle(c.target), type |-> "characteristic"]
      [] c.procedure = "attributes" ->
           [op |-> "find_information", start |-> c.next, end |-> FinalHandle(c.target)]
      [] c.procedure = "by_type" ->
           [op |-> "read_by_type", start |-> c.next, end |-> LastHandle, type |-> c.target]
      [] c.procedure = "long_read" ->
           IF c.found = <<>> THEN [op |-> "read", handle |-> HandleOf(c.target)]
           ELSE [op |-> "read_blob", handle |-> HandleOf(c.target), offset |-> c.next]
      [] OTHER -> [op |-> "read_multiple"]

PeerActs(p) ==
    /\ Runs /\ Connected(p)
    /\ UNCHANGED <<databaseVars, att_mtu, is_authenticated, le_acl_packet_length, crash, unheard,
                   opens, links, sends>>

Asks(p, request) == toServer' = [toServer EXCEPT ![p] = Append(@, request)]

PeerStarts(p) ==
    /\ PeerActs(p) /\ client[p].done /\ client[p].awaits = "none" /\ procedures < MaxProcedures
    /\ procedures' = procedures + 1
    /\ \E pair \in Procedures :
         client' = [client EXCEPT
            ![p].procedure = pair[1], ![p].target = pair[2], ![p].found = <<>>, ![p].done = FALSE,
            ![p].regrown = FALSE,
            ![p].next = IF pair[1] \in {"characteristics", "attributes"} THEN FirstHandle(pair[2])
                        ELSE IF pair[1] = "long_read" THEN 0 ELSE 1]
    /\ UNCHANGED <<aclVars, writes, toServer, toClient>>

PeerAsks(p) ==
    /\ PeerActs(p) /\ ~client[p].done /\ client[p].awaits = "none"
    /\ Asks(p, Request(client[p]))
    /\ client' = [client EXCEPT ![p].awaits = Request(client[p]).op]
    /\ UNCHANGED <<aclVars, procedures, writes, toClient>>

\* once on a connection, between two requests of a procedure, too
PeerExchangesMtu(p) ==
    /\ PeerActs(p) /\ client[p].awaits = "none" /\ client[p].asked = 0
    /\ \E mtu \in ClientMtus :
         /\ Asks(p, [op |-> "exchange_mtu", mtu |-> mtu])
         /\ client' = [client EXCEPT ![p].asked = mtu, ![p].awaits = "exchange_mtu"]
    /\ UNCHANGED <<aclVars, procedures, writes, toClient>>

\* a write request between requests, a write command at any time
PeerWrites(p) ==
    /\ PeerActs(p) /\ writes < MaxWrites
    /\ writes' = writes + 1
    /\ \E h \in WriteTargets, value \in WriteValues :
         \/ /\ client[p].awaits = "none"
            /\ Asks(p, [op |-> "write_request", handle |-> h, value |-> value])
            /\ client' = [client EXCEPT ![p].awaits = "write_request"]
         \/ /\ Asks(p, [op |-> "write_command", handle |-> h, value |-> value])
            /\ UNCHANGED client
    /\ UNCHANGED <<aclVars, procedures, toClient>>

\* what a peer makes of an answer to its request
Taken(c, pdu) ==
    CASE pdu.op = "exchange_mtu" ->
           [c EXCEPT !.mtu = Max({ATT_MTU_DEFAULT, Min({c.asked, pdu.mtu})}), !.regrown = ~c.done]
      [] pdu.op = "error" -> IF pdu.request = "write_request" THEN c ELSE [c EXCEPT !.done = TRUE]
      [] pdu.op = "write_request" -> c
      [] pdu.op \in {"read", "read_blob"} ->
           [c EXCEPT !.found = Append(@, pdu), !.next = pdu.to, !.done = pdu.length < c.mtu]
      [] OTHER ->
           LET last == Last(pdu.list)
               next == 1 + (IF pdu.op \in {"read_by_group_type", "find_by_type_value"} THEN last.end
                            ELSE last.handle)
           IN [c EXCEPT !.found = @ \o pdu.list, !.next = next, !.done = next > FinalHandle(c.target)]

PeerReceives(p) ==
    /\ PeerActs(p) /\ toClient[p] # <<>>
    /\ LET pdu == Head(toClient[p]) IN
       /\ toClient' = [toClient EXCEPT ![p] = Tail(@)]
       /\ unreported' = unreported + Packets(pdu.length)
       /\ IF IsResponse(pdu)
          THEN client' = [client EXCEPT ![p] = [Taken(@, pdu) EXCEPT !.awaits = "none"]]
          ELSE UNCHANGED client
       /\ IF pdu.op = "indication" THEN Asks(p, [op |-> "confirmation"]) ELSE UNCHANGED toServer
    /\ UNCHANGED <<credits, procedures, writes>>

-----------------------------------------------------------------------------
Next == \/ Open \/ CompletedPackets
        \/ \E p \in Peer :
              \/ att_recv(p) \/ gatt_send_notify(p) \/ gatt_send_indicate(p) \/ gatt_send_passthrough(p)
              \/ LinkUp(p) \/ LinkDown(p) \/ sm_recv_evt_encryption_change(p)
              \/ PeerStarts(p) \/ PeerAsks(p) \/ PeerExchangesMtu(p) \/ PeerWrites(p) \/ PeerReceives(p)

Spec == Init /\ [][Next]_vars

\* what every handler of att_recv does to the packets under way
Handled(p) == Runs /\ toServer[p] # <<>> /\ toServer' = [toServer EXCEPT ![p] = Tail(@)]

\* The event loop handles what arrived, the controller sends and reports, a peer goes on with
\* its procedure; nobody has to start one.
FairSpec == /\ Spec
            /\ WF_vars(CompletedPackets)
            /\ \A p \in Peer : /\ WF_toServer(Handled(p))
                               /\ WF_vars(PeerReceives(p)) /\ WF_vars(PeerAsks(p))

-----------------------------------------------------------------------------
(***************************************************************************)
(* Properties                                                              *)
(***************************************************************************)
\* the entries a procedure looks for, read off the tables and not by a scan
Reference(c) ==
    LET within == {h \in DOMAIN ItemAt : FirstHandle(c.target) <= h /\ h <= FinalHandle(c.target)}
        AsGroup(id) == [handle |-> Service[id].start_handle, end |-> Service[id].end_handle]
    IN CASE c.procedure = "services" -> {AsGroup(id) : id \in ServiceId}
         [] c.procedure = "service" -> {AsGroup(c.target)}
         [] c.procedure = "characteristics" ->
              {[handle |-> h, size |-> 5] : h \in {i \in within : ItemAt[i].type = "characteristic"}}
         [] c.procedure = "attributes" -> {[handle |-> h, type |-> ItemAt[h].type] : h \in within}

Discovery == {"services", "service", "characteristics", "attributes"}

\* the peer looks for a service whose declaration has been overwritten
Undeclared(c) == c.procedure = "service" /\ Service[c.target].start_handle \in overwritten

\* A discovery that came to its end found everything it looks for and nothing else: no entry
\* falls between two responses, whatever the MTU and whenever it changed, nor is one out of the
\* range; also when services are registered twice (gatt.cpp:405-643).  A service whose declaration
\* a peer has overwritten (gatt.cpp:664) may be missed by who looks for it by its id, no other is.
FindsEverything ==
    \A p \in Peer : client[p].procedure \in Discovery /\ client[p].done =>
        /\ ToSet(client[p].found) \subseteq Reference(client[p])
        /\ Undeclared(client[p]) \/ Reference(client[p]) \subseteq ToSet(client[p].found)

\* The database comment of gatt.cpp:33-70 has each attribute at one handle, in ascending order:
\* so does what a peer finds, each entry once.
FindsOnceInOrder ==
    \A p \in Peer : client[p].procedure \in Discovery =>
        \A i, j \in DOMAIN client[p].found :
            i < j => client[p].found[i].handle < client[p].found[j].handle

\* As before, as long as the port was opened only once: each opening registers the services again.
FindsOnceInOrderWhenFresh == opens <= 1 => FindsOnceInOrder

\* A long read (gatt.cpp:290-402) puts a value together without a gap or an overlap, and to its
\* end unless the MTU grew between two of its requests: then the rest of a value that has
\* become "not long" is refused.
LongReadWhole ==
    \A p \in Peer :
        LET parts == client[p].found IN
        client[p].procedure = "long_read" /\ parts # <<>> =>
            /\ parts[1].from = 0
            /\ \A i \in 1..(Len(parts) - 1) : parts[i + 1].from = parts[i].to
            /\ client[p].done => Last(parts).to = ItemAt[parts[1].handle].size \/ client[p].regrown

\* No PDU a peer receives is longer than the MTU the peer knows of at that moment, which
\* changes while responses and notifications are under way (att.cpp:133-158); but the server
\* goes by a new MTU also when its response, dropped for want of a credit, never told the peer.
PdusFitMtu ==
    \A p \in Peer \ unheard : toClient[p] # <<>> => Head(toClient[p]).length <= client[p].mtu

\* As before, but for the one case that gatt.cpp:560-569 does not look at: the first entry of a
\* Read By Type response.
PdusFitMtuButFirstByType ==
    \A p \in Peer \ unheard : toClient[p] # <<>> =>
        LET pdu == Head(toClient[p]) IN
        \/ pdu.length <= client[p].mtu
        \/ pdu.op = "read_by_type" /\ Len(pdu.list) = 1 /\ pdu.list[1].size > client[p].mtu - 4

\* A peer that waits for a response has its request at the server or the response under way, or
\* the response was dropped for want of a credit (hci.cpp:689), or the server does not know the
\* request (att.cpp:58).
EveryRequestAnswered ==
    Runs => \A p \in Peer : client[p].awaits # "none" =>
        \/ \E i \in DOMAIN toServer[p] : toServer[p][i].op = client[p].awaits
        \/ \E i \in DOMAIN toClient[p] : IsResponse(toClient[p][i])
        \/ p \in unheard \/ client[p].awaits = "read_multiple"

\* A procedure that a peer starts comes to an end: requests always move on, also over services
\* registered twice, unless a response was dropped or the program ended.
ProceduresEnd ==
    \A p \in Peer : (~client[p].done) ~>
        (client[p].done \/ p \in unheard \/ ~Runs \/ client[p].awaits = "read_multiple")
=============================================================================
