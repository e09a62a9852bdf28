# Verification of bleHostStack

bleHostStack is a Bluetooth Low Energy host in C++ with Qt: it talks HCI over a
serial port to a controller, keeps the links the controller reports, answers
L2CAP, ATT, GATT and SM packets of the peers, and has a window with a few
buttons. This directory holds TLA+ models of its core, the TLC instances that
check them and TLAPS proofs of what matters most.

    tlc -config MCRingBuffer.cfg MCRingBuffer     check one instance
    tlapm RingBufferProofs.tla                    check one module of proofs

`PROJECT.json` says for every definition which lines of the source it
translates, and lists the runs, the mutants, the hazards and the theorems.

## The system

Everything runs in one Qt thread. Concurrency comes from two sides: the
controller and the peers, whose packets arrive whenever they like and in chunks
the serial driver cuts as it likes, and the modal dialogs of `sm.cpp`, whose
nested event loops run the serial slot again while a packet handler further
down the stack waits for the user.

| component | state | operations | talks to |
|---|---|---|---|
| ring buffer (`ringbuffer.cpp`) | array, read and write position | reset, write, read, is_empty | called by the reader |
| H4 reader, window (`mainwindow.cpp`) | `read_status`, `read_buffer`, `is_processing`, button texts | readyRead slot, Open/Close, Adv, Scan, TestPeripheral | calls the ring and HCI; is called by Qt |
| HCI commands (`hci.cpp`) | `num_of_allowed_cmd_packets`, addresses, public key | 21 `hci_send_cmd_*`, Command Complete/Status, LE meta events | reader above, serial port below, SM |
| HCI ACL sending (`hci.cpp`) | `le_acl_packet_length`, `num_of_allowed_le_acl_packets` | `hci_send_acl`, Number Of Completed Packets | L2CAP, serial port |
| HCI connections (`hci.cpp`) | list `hci_connections`; per node handle, reassembly buffer, MTU, pairing state | add, find, delete, `hci_recv_acl` | every layer finds its state in the node |
| L2CAP (`l2cap.cpp`) | none | dispatch by channel | HCI, ATT, SM |
| ATT (`att.cpp`) | MTU in the node | dispatch by opcode, MTU exchange | L2CAP, GATT |
| GATT (`gatt.cpp`) | registered services, their values with the client configurations; a server only | requests, writes, notifications, indications, a pass-through stream | ATT; called by the window |
| SM (`sm.cpp`) | pairing state in the node, one global DHKey handle, settings file of bonded devices | legacy and secure pairing, key distribution, encryption, LTK requests | L2CAP, HCI, dialogs |
| tinycrypt CMAC (`cmac_mode.c`) | the session's state, held by the caller | setup, init, update, final, erase | SM |
| serial, btsnoop, log, the rest of tinycrypt | port, files, text, none | output, primitives | all |

What is hard about it, and what makes each component correct:

- **Ring buffer.** Positions wrap by comparison and the full buffer must differ
  from the empty one. Correct: it is a FIFO that takes or refuses calls whole.
- **Reader.** Chunks cut packets anywhere; a dialog re-enters the slot; a chunk
  that finds no room is dropped; the port may be closed in the middle of a
  packet. Correct: the packets handed on are the packets sent, a handler's
  packet is left alone while it runs, no stored packet waits for a signal that
  does not come.
- **Commands.** One credit is shared by the bring-up chain, the buttons and the
  answers to peers. No command is queued or repeated. Correct: the credit is
  neither lost nor doubled, the bring-up executes in order and to its end.
- **ACL sending.** PDUs are fragmented under a credit that links take with them
  when they are lost. Correct: never more packets than buffers, peers get whole
  PDUs, credits come back.
- **Connections.** A list that events edit and every packet is looked up in.
  Correct: it mirrors the controller's links, each link's PDUs are reassembled
  whole and in order, no buffer is lost, no null pointer is followed.
- **ATT and GATT.** Responses are cut to an MTU that may change between two
  requests, each handler counting bytes on its own; the tables are shared by all
  connections and outlive the port. Correct: responses fit the MTU, a discovery
  misses nothing and ends, a long value is read whole, every request is answered.
- **SM.** A handler waits for the user while packets, lost links and a
  computation of the controller go on; the bonds are in a file that outlives
  links, pairings and the program, and is looked up by addresses that change.
  Correct: both sides end with the same key or with a failure, what is stored of a
  device is what it gave, links count as authenticated as they were paired.
- **CMAC.** Messages come in pieces and the last block is special. Correct: the
  tag depends on the bytes and not on the pieces.

## Modules

| module | what it is |
|---|---|
| `ByteFifo` | abstract: what the ring buffer promises |
| `RingBuffer` | `ringbuffer.cpp`, position by position; refines `ByteFifo` |
| `RingBufferProofs` | its type invariant and the refinement |
| `H4Reader` | `serialPort_readyRead`, Open and Close, over the ring as a `ByteFifo` |
| `H4ReaderProofs` | its three safety properties, for every set of packets and ring size |
| `HciCommands` | the command credit, the bring-up chain, buttons, answers to peers |
| `HciCommandsProofs` | its type invariant, the accounting of the credit, the order of the bring-up, where it stalls, the buttons |
| `HciAclTx` | `hci_send_acl`, its credits, and the peer that reassembles |
| `HciAclTxProofs` | its type invariant, the accounting of credits, PDUs that arrive whole |
| `HciLinks` | the connection list and `hci_recv_acl` |
| `HciLinksProofs` | its five safety invariants |
| `GattDatabase` | the attribute tables of `gatt.cpp` and the answers to requests, without state |
| `GattServer` | `att.cpp` and `gatt.cpp` as peers meet them, over ACL credits |
| `GattServerProofs` | requests answered, long reads whole, PDUs that fit, discoveries that find everything, once and in order |
| `SmCrypto` | the functions of `sm.cpp:60-240` over symbols |
| `SmDeviceDb` | the file of bonded devices, as operators over its entries |
| `SmPairing` | `sm.cpp` as the responder of pairings, with peers, users, links, controller and restarts |
| `SmPairingProofs` | what storing and deleting an entry does to every lookup, secure bonds are shared with a peer, one peer's bond is left alone by the others, what failures need |
| `SmComparisonProofs` | both users of a numeric comparison see the same number; the number of the passkey's bit stays within the passkey |
| `Cmac` | tinycrypt's AES-CMAC, byte by byte, against RFC 4493 |
| `MC...` | TLC instances of the above |

### RingBuffer and ByteFifo

The variables are the three statics of `ringbuffer.cpp` and `reply`, what the
last call returned. `ringbuffer_write` and `ringbuffer_read` have one disjunct
per branch of the code: refused, straight, wrapped. `Contents` reads the stored
bytes off the positions and is the refinement mapping: `ImplementsByteFifo` says
that every call acts on these bytes, and returns, as the abstract FIFO does.

The instance has 4 slots and all chunks of up to 4 bytes over two byte values,
so that every pair of positions, the exactly full buffer, the chunk that can
never fit and both sides of the wrap occur; the proof covers every size.

### H4Reader

`frames` is the call stack of the slot: an invocation either runs its while loop
("loop") or stands inside a handler that shows a dialog ("dialog"). Each turn of
the loop is an action (`ReadPacketType`, `ReadEvtHeader`, ... `LoopEnds`), each
with the read and the early return of its case. `ReadyRead(n)` is the slot up to
the loop, for any number n of arrived bytes. It can run in the main event loop
and in a dialog's. Handlers that need no answer run to their end inside
`ReadEvtData` and `ReadAclData`; the others end at `DialogCloses`. Only
`read_buffer[0 .. read_buffer_length - 1]` is kept.

It is assumed that Qt announces bytes that arrive while the slot stands in a
dialog, which is what the comment at `mainwindow.cpp:117` expects; without it
`is_processing` would never be found set.

`FramesIntact` is stated for an intact stream: after a refused chunk, or after
opening the port with a packet half read (`Open` resets the ring and leaves
`read_status`), the boundaries are gone for good, and TLC finds both if the
premise is dropped. `NothingReadableWaits` and `EventuallyCaughtUp` except one
case the code has: a packet with no data, whose header empties the ring, is
handed over only when the next byte comes, because the loop condition is tested
before the read of 0 bytes.

Bounds: a ring of 8 slots, so that a packet and one byte fill it; packets of no
data, of data that looks like the other packet type, and an ACL packet; 3
packets per opening and 2 openings.

### HciCommands

`Successor` is the chain `__hci_recv_evt_command_complete` walks. `SendCmd` is
what all `hci_send_cmd_*` functions share: credit or oblivion. The host
stores the octet an answer carries (`Grants`) as its credit. The controller of
the run has one command buffer: it answers with a credit, or with none and
returns it later in a Command Complete without opcode. It may refuse a button's
command with an error status, which the host only logs, and it stops advertising
by itself when a peer connects (`PeerConnects`); only a peer that connected makes
requests.

`CreditLedger` counts the one credit wherever it is: at the host, in a command, owed,
or in an answer. It, and the order of the bring-up, are stated for a port that
was not opened while answers to earlier commands were due (`stale`): `hci_init`
takes a credit for granted, so a late answer doubles it. That is a hazard of
the code which the premise names.

`StallsOnlyInKeyWindow` finds the one place where the chain can break off with a
controller that always returns its credit with the answer (`late = 0`): the P-256
command is answered twice, and a click or a peer's request between the two takes
the credit that `hci_send_cmd_le_set_adv_param` needs at `hci.cpp:558`. With a
controller that answers without a credit the chain stops at any step;
`BringUpSettles` is the liveness side.

`ButtonsTellTheTruth` is about the texts of the Adv and Scan buttons, which follow
the click whether or not the command found a credit (`mainwindow.cpp:65-67`) and
stay as they are when a connection ends the advertising (`hci.cpp:515-521`). Once
every command is answered they agree with what the controller does, except a
button that went `astray`: its last command was dropped or refused, or a connection
ended the advertising since. One command that is taken makes up for all that. It
is stated of the first opening, since Open resets the controller and not the texts.

`configured` is a ghost: the commands of the chain the controller executed since
the port was opened, in their order; `refused` has the commands dropped.

Bounds: two clicks and requests together, two openings, one answer without a
credit, one credit; @HC@ states.

### HciAclTx

`hci_send_acl(h, length)` sends `SentPieces(length)` packets at once (the code
does not return to the event loop in between): all of them, or as many as the
credits allow. Credits are kept modulo 256 as in the code. The
controller's FIFO, its buffers, reports and lost links are external, and so is
the peer's reassembly, which starts over at a first packet. A packet names the PDU
and the place in it that its bytes come from, so that `PeerGetsWholePdus` can tell a
PDU that was put together from the packets of two, or with a gap.

The controller reports emptied buffers in events of one link or of several
(`CompletedEvent`). The parameters of such an event alternate, a handle and its
number, a handle and its number; the host reads octet
`2 * (number_handles + index) + 1` of it, as if all numbers stood behind all handles
(`OctetRead`, `hci.cpp:593-594`). For one handle that is its number. For two it is
the second handle's low octet and the second number. `EveryCreditCounted` is
therefore violated (run `hci_acl_tx_reports`), and what the other properties say of
credits they say up to the first event of several links (`misread`): the host may
from then on have credits for buffers that do not exist, or lose those that do.

`leaked` counts the credits of packets that die with their link: nothing in
`__hci_recv_evt_disconn_complete` takes them back. `CreditLedger` therefore
counts them, and `CreditsReturn` says that all others come back.

Bounds: 2 links over 2 buffers, handles 0 and 64 so that an octet read wrongly loses
credits or makes them up, PDUs of 1, 2 (the last one shorter) and 3 packets, more than
there are credits for, 3 PDUs, 3 links established. One opening of the port.
@HA@ states.

### HciLinks

`hci_connections` is the list, head first, each node with the three reassembly
fields. `hci_delete_connection_by_handle` has a disjunct for the null pointers
of its loop; `crash` names the one that was followed, after which nothing
happens any more. Data is in pieces: a first piece carries the header and
thereby the length. Peers may break a PDU off and start another, as
`hci_send_acl` of this stack does when its credits end.

The controller handed the reset forgets its links. Until it gets there, packets of
links that `hci_init` forgot still arrive: `orphaned` marks such an opening, and
`CrashesExplained` says that this and the deletion of the oldest of several
links are the only ways to a null pointer.

Bounds: three handles, so that the deleted node is the head, in the middle or
last; two openings; PDUs of up to three pieces; four links; at most two packets
under way.

### GattDatabase and GattServer

`GattDatabase` has the four tables of `gatt.cpp:105-132` with their handles,
types, sizes and permissions, and one operator per kind of request: what the
scan of the registered services meets (`Scan`, `Lookup`, `Window`), cut to the
entries that fit the MTU (`Page`). Sizes are those of the code, since all the
arithmetic of the MTU is about them; UUIDs and values are names.

`GattServer` gives each opcode that `att_recv` knows an action: the request is
taken and the answer leaves in the same step, as in the event loop.
`att_send` stands for the way through `l2cap_send` and `hci_send_acl`: a PDU costs
ACL credits and is lost if they do not suffice, with the credits of the part
that was sent. `Open` is the part of opening the port that matters here: it
forgets connections and credits and registers the services once more, up to ten.

Of the values client configurations are followed (`memory`); of the others only whether
a peer has overwritten them (`overwritten`). The permission bits of the tables never
ask for a write permission, so the code lets a peer overwrite whatever has memory,
declarations of services included (`gatt.cpp:664-674`). As in the code, a
configuration is one value for all connections and survives them. The program asks
for one only in `gatt_send_notify` and `gatt_send_indicate`, which nothing calls;
what it sends, the stream of `gatt_send_passthrough` (`gatt.cpp:828`), goes out
whatever the peer configured, so there is no property of notifications following
their configuration.

Number Of Completed Packets is taken to report one connection at a time, which the
handler reads rightly; `HciAclTx` has the others.

The peers are external: ATT clients with one request outstanding, which go
through a discovery or a long read by the answers they get, exchange the MTU
once per connection and write configurations. `sm_recv_evt_encryption_change` is
reduced to the flag that permissions look at.

What the properties say, and their premises:

- `FindsEverything`: a discovery that ended has found exactly the entries in its
  range, compared with the tables read directly and not by scanning. A service
  whose declaration a peer has overwritten may be missed by who looks for it by its id,
  since Find By Type Value compares the value that was left there.
- `FindsOnceInOrderWhenFresh`: once each, ascending, with one registration.
- `LongReadWhole`: the parts of a long value join without gap or overlap and
  reach its end. The exception is the code's: when the MTU grows in the middle, the
  rest of a value that now fits one response is refused as "not long".
- `PdusFitMtuButFirstByType`: nothing longer than the MTU the peer knows of,
  with two exceptions. The first entry of a Read By Type response is not measured (see
  Findings). And a peer whose MTU response was dropped for want of a credit knows
  an older MTU than the server (`unheard`), for the rest of the connection.
- `EveryRequestAnswered`: a waiting peer has its request or the response under
  way, unless the response found no credit or the request is one that `att_recv`
  answers with nothing.
- `ProceduresEnd`: discoveries and reads come to an end, also over services that
  are registered twice.

Bounds: one peer with one procedure, one MTU exchange, one write and one sending
of the application, over up to three openings, where ten services are two and
a half registrations. MTUs of 20 and 185 are asked for and 33 and 247 offered, on
both sides of where one entry more fits and where the device name does. The targets of
writes are a client configuration, a value shorter than what is written, the
declaration of a service and an attribute without memory. Two ACL credits, of which a stream of 41 bytes
takes both; @GS@ states. Two peers are covered by the proofs only.

### SmPairing, SmDeviceDb and SmCrypto

The host is always the responder. Everything that reaches it, events and packets of
all links, waits in the one queue `toHost` and `HostReceives` handles its head: a
disjunct for each event `sm.cpp` is called with, and `sm_recv` for the packets, with
an operator per handler that carries the source's name. A handler that shows a
dialog stands in it (`dialog`) and does the rest of its body at `DialogAnswered`,
with the connection as it then is, while the queue grows; the slot is not entered
meanwhile, as `H4Reader` shows. `conn` keeps the fields of `sm_connection_t` that
are read again. `askedLast` is the global that gets the completion of a DHKey.

`SmDeviceDb` is the file as a sequence of entries. A lookup takes the first entry
that matches: an equal address, or a resolvable one whose hash is that of the
entry's IRK, zeroed IRKs included. The file survives `Restart`, which stands for the
end or the crash of the program and its next start.

`SmCrypto` has f4, f5, f6, g2, c1, s1 and the rest as injective symbols of their
arguments, in the order the code concatenates them; lengths, byte order and the
truncation of g2 to six digits are left out. Exclusive or is a symbol too: only c1
uses it, and always on the same pair of arguments.

The peers are external and follow the protocol; their method comes from rules
written apart from the host's tables (`PeerMethod`). Their users may mistype or
refuse. A link may be lost at any moment and its handle used again once the host
was told. The controller has one command buffer and computes one DHKey at a
time, for whoever asked.

What the properties say, and their premises:

- `BondWhole`: a peer that keeps a bond is found under each of its addresses, with
  the key and the identity it gave, unless a pairing with it was cut off or refused
  half way (`interrupted`). The host asks for the kinds of keys in its own response
  (identity and signing) and saves nothing of them if one is missing, so that a
  peer that offers fewer is bonded by address only, and that entry, found first, goes
  on to shadow a whole one stored later under another address. `IdentityGiven` leaves
  such offers out.
- `LinkKeysAgree`: the host gives the controller the key the peer uses. A pairing
  that was cut off may have replaced the stored key while the peer kept its old one,
  and an encryption that failed deletes the bond (`sm.cpp:885`); the premise
  `interrupted` is about the key of an earlier pairing only, never about the one
  of a pairing just made.
- `AuthenticationAsPaired`: the flag read from the file is that of the pairing the
  link's key came from. A link encrypted a second time has another event (0x30)
  which the host has no case for (`hci.cpp:619`); `rekeyed` excepts it.
- `SecureBondsShared`: whatever connection the DHKey was given to, nothing is stored
  that no peer computed.
- `ComparisonShowsSame`: both users are shown the same number. What the user
  answers is told to the peer and kept nowhere: after a "No" the host answers the check
  that may follow and stores its key as of any comparison (`sm.cpp:720-722`, `762-817`).
  The model does the same (`DialogCompare`) and counts the peer as `interrupted`. No
  property promises anything of a refused comparison.
- `CrashNeedsInterruption`: the null pointer of a DHKey completion whose connection
  is gone is met only after a pairing was cut off: a link was lost in one, or while a
  DHKey asked for in one was still to come.
- `OthersUntouched`: no event changes what is stored of two peers.
- `PairingEnds`: excepted are out-of-band pairing, which is not implemented, and
  a pairing whose command was dropped for want of the credit (`starved`).

Nothing in the host keeps a pairing apart from an earlier one on the same link: it
has no state of the protocol, and a peer may begin again while packets, a dialog, a
command or a DHKey of its last attempt are still under way (`Busy`). Such a link is
`overlapped` until it ends and its peer counts as `interrupted`. After enough
overlapping attempts (two to eight, which TLC found on instances larger
than those of the runs, or which the proofs asked about) the key of one answers the
request of another, a number is shown for random values of two attempts, and the
index of a passkey's bit leaves its range. `LinkKeysAgree`, `AuthenticationAsPaired`,
`ComparisonShowsSame` and the range of the index in `TypeOK` are therefore about
links that are not overlapped. The others hold whatever overlaps.

It is assumed that the packets of one handler find ACL credits; `HciAclTx` is about
the case that they do not. Bounds: for one peer an offer for every method, secure and
legacy, two passkeys of two bits, an address that resolves besides the public one,
two links, two pairings and one restart (724 thousand states), so that a second
pairing meets the entry of a first, also of another kind or under another address
or after a restart. For two peers three offers on two links and no restart, with
symmetry of peers and handles, for an invariant and an action property (1.01 million).
All the invariants were also checked once on larger instances that are no runs of the
project: eight numeric comparisons of one peer, six legacy pairings, five with a
passkey, three links, two addresses that resolve, and two peers on two links with three
pairings.

### Cmac

`s` is the caller's `tc_cmac_struct` and the actions are the five functions, in any
order after a first setup. Blocks are three bytes of two bits but are doubled,
padded and added byte by byte as in the code; AES is an injective symbol with the
one known point that a key is told by. `TagIsCmac` compares with RFC 4493 over
whole messages and whole numbers (`AesCmac`, `Doubled`).

The property has an exception: `tc_cmac_update` encrypts the bytes left over as soon
as they fill a block (`cmac_mode.c:187`) although no byte follows, so that a message
whose last update ends there gets another tag. The header says that any number of
segments may be given (`cmac_mode.h:74-80`). The SM calls update once for a tag
(`sm.cpp`), which is always right. `tc_cmac_final` erases the state, so that a next
session needs setup: init alone reports success and writes no tag, against "steps
(1)-(3) repeated" in `cmac_mode.h:84-86`.

Bounds: messages of up to seven bytes, so of two blocks and one byte, in every
way of cutting; two sessions; five keys, on both sides of each carry of the doubling.

## Runs

| run | shows |
|---|---|
| `ring_buffer` | the ring refines the FIFO |
| `h4_reader` | packets whole, once, in order, and all of them in the end; handlers undisturbed; nothing left waiting |
| `hci_commands` | the credit is in one place; the bring-up is in order; where it stalls, and that it completes otherwise; when the buttons may differ from the controller |
| `hci_acl_tx` | with reports of one link each: accounting, no overrun, no spliced PDU; credits return |
| `hci_acl_tx_reports` | violated: a report of two links gives wrong credits |
| `hci_links` | list and links agree; reassembly is right per link; which sequences crash or leak |
| `hci_links_disconnect` | violated: the oldest of several links cannot be disconnected |
| `gatt_server` | discoveries and long reads are complete and end, PDUs fit the MTU, requests are answered, with scarce credits |
| `gatt_name` | violated: the device name read by type overruns the response |
| `sm_pairing` | one peer, every method, over lost links, refusals and a restart: keys, bonds and flags agree and pairings end |
| `sm_peers` | two peers at once: no key of one is stored or used for the other |
| `cmac` | the tag of every message, cut in every way |

`CHECK_DEADLOCK FALSE` stands where the bounds, a crash or a closed port let the
system stop. Symmetry is used for handles in runs of invariants only.

### Fairness

Weak fairness is assumed of what the event loop and the hardware do: a slot runs
to its end, arrived bytes are announced, arrived events are handled, the
controller works off what it holds. Otherwise nothing is assumed of the user
(clicks, answers to dialogs, Open and Close) or of the peers, except that in `GattServer`
a peer that started a procedure goes on with it, and in `SmPairing` that peers and
users go on with a pairing and answer a dialog, as `sm.cpp` waits for them without
a timeout. No link has to end there, and nobody has to connect or pair. In `GattServer` fairness of the server is
stated of `Handled(p)`, what all handlers do to the packets under way: each of
them takes the packet at the head, whatever it is.

### Findings

- `hci_links_disconnect`: `hci_delete_connection_by_handle` follows a null
  pointer when the node is the last of several (`hci.cpp:1158-1164`).
- `hci_acl_tx_reports`: `__hci_recv_evt_number_of_completed_packets` looks for the
  numbers of an event behind all its handles, while the two alternate
  (`hci.cpp:593-594`). With two handles it adds the low octet of one and the number
  of the other to the credits. The log line before it calls both numbers of packets.
- `gatt_name`: `gatt_recv_read_by_type_req` copies the first value into its
  response without looking at the MTU (`gatt.cpp:565`), against a buffer of
  `att_mtu` bytes: the 32 bytes of the device name at an MTU of 23. The comment above it
  (`gatt.cpp:523`) has declarations in mind, whose values are short.

Others show up as premises of properties: every opening of the port registers the
services again (`mainwindow.cpp:49`, `gatt.cpp:145`), so that
`FindsOnceInOrderWhenFresh` is about one opening; a reopened port may be given a late
credit (`stale`); and the exception of `TagIsCmac`.

## Proofs

`RingBufferProofs`. From the assumptions that the size is positive, 0 is a byte,
chunks are strings of bytes and lengths are naturals:

- `TypeCorrect`: positions index the array; `TypeOK` is inductive.
- `RefinesByteFifo`: `Spec => ImplementsByteFifo`. Three lemmas say what the
  mapping does: `Appended` (a write puts the chunk behind the contents, straight
  or wrapped), `Taken` and `Returned` (a read takes a prefix and returns it);
  `WriteRefines` and `ReadRefines` turn branches into abstract steps.

`H4ReaderProofs`. From a positive ring size, natural bounds and packets that are
`WellFormed` (a type, a header, as much data as the header says):

- `TypeCorrect` and `HandlerLeftAlone` (`HandlerUndisturbed`). `TypeCorrect` states
  `TypeOK` and with it what the call stack says of the rest (`Shape`): there
  is at most one invocation outside a dialog's loop, `is_processing` marks the one in
  a dialog, and `read_buffer` is as long as `read_status` says and begins with its
  type. Both are the inductive invariant `Safe`.
- `FramesWhole` (`FramesIntact`). `Stream` says that the bytes pending in
  `read_buffer`, in the ring and on the wire, one behind another, are the
  packets sent and not yet handed over. `Cut` says so without recursion, by the
  offsets at which packets end. Its lemmas add a packet at the end
  (`CutAnother`), take one from the front (`CutFirst`), and show that bytes that
  begin with a whole packet begin with the first of them (`WholePacket`: no
  packet is the beginning of another, because the length is in its header).
- `NoLostWakeup` (`NothingReadableWaits`). The slot gives up at an unknown
  packet type, and `Stream` is what shows that an undamaged stream never has one
  there.

`HciAclTxProofs`. From positive lengths and a number of buffers that is an octet:

- `TypeCorrect`, `CreditsAccounted`, `BuffersNotOverrun`. The inductive invariant
  is `TypeOK /\ CreditLedger`: neither part is inductive alone, because the
  credits stay an octet only as part of a sum that is one, and the sum is
  arithmetic modulo 256 only if no wrap occurs. `OneLinkReported` is the step that
  needs the premise `~misread`: of an event with one handle the octet read is the number
  of its packets. `NoControllerOverrun` follows. `TypeOK` holds whatever is misread.
- `PeersGetWhole` (`PeerGetsWholePdus`). `Flow` looks at the packets of one link in the
  controller and on the way to it as one sequence: they are in the order of PDUs and
  bytes (`Ordered`), each goes on where the one before it or the peer stands
  (`Follows`), and those that end a PDU are of the PDUs sent whole that the peer does
  not have yet (`Ends`). A PDU cut off for want of credits thereby has no last
  packet, and what the peer has of it is thrown away at the next first one.
  `PieceIs` is the arithmetic of the loop in `hci_send_acl`; `FlowSent`, `FlowTaken` and
  `FlowWithout` add packets at the end, take a link's first, and drop those of a lost link.

`HciCommandsProofs`. From bounds that are naturals; `TypeCorrect` for a controller that
answers with any octets, the others for one with one command buffer
(`OneCommandBuffer`: it grants 0 or 1), as `hci_init` takes for granted:

- `TypeCorrect` and `CreditAccounted`. `CreditLedger` is not inductive: it says
  how much credit there is, and a step needs to know where. `LedgerInv` adds that a
  closed port holds no event and that an answer without a credit is followed by
  the credit (`CreditFollows`).
- `BringUpOrdered` (`BringUpInOrder`). That the commands executed are a prefix of the
  chain says nothing of what is under way. `Chain` adds it: the chain is at one place
  (`AtOnePlace`: in a command, in the controller's computation or in an event), what
  is there is the step after the last one executed (`FollowsLast`), and the status of
  the P-256 command comes before its completion (`Answers`). That a command sent
  finds none under way is the ledger's.
- `StallsOnlyThere` (`StallsOnlyInKeyWindow`). `GoesOnOrWindow` says that an open port
  with prompt credits has the chain under way, over, or ended in the window. The step
  that needs an argument is the completion that finds no credit: without a
  click only the chain is under way (`OnlyChain`) and every answer carries a credit
  (`NothingLate`), so the ledger's one credit is in an answer, and every candidate
  contradicts `Chain`; hence somebody clicked (`WindowNeedsClick`).
- `ButtonsTruthful` (`ButtonsTellTheTruth`). `Obeyed` says what a button shows while a
  command is still under way, unless it went astray: what the controller will do once it
  has taken it.

`HciLinksProofs`. From pieces and bounds as the module assumes them, for any
handles, peers and PDUs:

- `TypeCorrect` (`TypeOK`), `PdusWhole` (`PdusWholeAndInOrder`), `ListFollowsLinks`
  (`ListMirrorsLinks`), `NullPointers` (`CrashesExplained`) and `BuffersAccounted`
  (`BuffersFreed`). All of them speak of the host after the events under way, so the
  invariant has to as well: it replays them packet by packet (`Reaches`: a sequence of
  states, the first the host's, each the one the next packet makes of it), and
  `Tracked` says that the last of these states agrees with the controller's links and
  with what each peer has sent so far, unless the host is to follow a null pointer
  on the way or packets of forgotten links are under way. A step of the controller
  or of a peer adds one state at the end (`SendKeeps`); a step of the host drops
  the first. `Bookkeeping` ties the ghosts to the rest.

`GattServerProofs`. From `ServerAssumption` (lengths and MTUs are positive, what the
application notifies is a characteristic of a service) and, for discoveries,
`ProceduresAssumption` (a peer looks for all services, or for one the database
has), for any number of peers, packets, procedures, writes and links:

- `RequestsAnswered` (`EveryRequestAnswered`), `LongReadsWhole` (`LongReadWhole`) and
  `PdusFit` (`PdusFitMtuButFirstByType`) share one inductive invariant, `PeersInStep`:
  of every peer it says in which phase its request is. It rests, is under way
  (`Asking`), its response is (`Answered`), or neither will come (`Forgotten`: dropped,
  or unknown to the server); around it only PDUs pass that ask for nothing.
  A waiting peer is in one of the last three, which is `EveryRequestAnswered`.
  The phases also say what the other two properties need: the request under way is
  the one the peer's position calls for and the response is the part of the value at
  that position (`AnswersRead`), for what has been gathered so far (`Gathered`); and
  the two ends differ in the MTU only while the MTU response is under way,
  so that a PDU longer than the peer knows of has that response before it (`Fits`).
- Lemmas about the operators: `Page` leaves a list that fits or one entry
  (`PageFacts`), `Picked` keeps items of the database (`PickedType`), `Lookup` finds the
  one item of a handle although services are registered more than once
  (`LookupItem`), and the responses of all but Read By Type fit (`FindInformationFits`
  and its like).

- `DiscoveriesFindEverything` (`FindsEverything`) and `DiscoveriesFindOnceInOrder`
  (`FindsOnceInOrderWhenFresh`) share a second inductive invariant, `DInv`, over the
  first. A discovery is a conversation, and its end proves nothing about its
  middle, so the invariant says of every discovery under way that what it has found
  is all there is below the handle it asks for next (`Progress`), and of every response
  under way that it goes on from there: it leaves out nothing between that handle and
  the last entry it lists, and an error means that nothing is left (`Pending`,
  `Continues`). That the
  response under way is one to the request of now comes from `IInv`.
- That a handler's response goes on so is a fact about scanning the registered
  services, which may be registered more than once. `Covers` says of a scan that
  everything is in it and that all there is below an entry comes before it, which cutting a page
  off the front, picking entries and mapping them keep (`ListedContinues`,
  `SelectedCovers`, `MappedCovers`). Registering the services once more keeps it too, but
  not that they ascend without repetition (`Rising`): that is why only the second property
  asks for one opening.

`SmPairingProofs`. For any peers, handles, passkeys, links and restarts, and capabilities
out of the five the tables have a row for (the code indexes them with the value
received; `SmAssumption` leaves other values out):

- `BondsShared` (`SecureBondsShared`) and `OthersKeepBonds` (`OthersUntouched`) share one
  inductive invariant, `BondsKept` (`PairingsConsistent`). Neither property speaks of
  what is under way, and the host finds everything by handle, which a link lost
  and a new one may share. So the invariant says of every packet and encryption event in the
  queue that the host will hold the connection of its peer when it comes to it
  (`Under`: the last beginning or end of that handle before it in the queue, or, with
  none, the connection held now), and of every link that it is the one
  the host will hold after the whole queue. A connection and an entry hold
  the identity of one peer (`KeysOf`, `Owned`), the method of a connection is that of
  the request it answered, and a peer knows the method from its response on (`PeerOK`).
- A check under way is one of a key its sender computed (`Checked`). The host stores its
  key where that check equals its own, and equal checks are of equal keys and
  capabilities (`CheckOfOneKey`): the functions f5 and f6 are symbols, equal
  only for equal arguments. Equal capabilities make equal methods (`MethodShared`, over
  the tables of both ends).
- No address of one peer matches an entry of another, zeroed fields included
  (`OwnedElsewhere`), so that storing, updating and deleting under an address of a peer
  leaves what is found of the others (`StoreKeeps`, `UpdateKeeps`, `DeleteKeeps`, over
  the lemmas about the file).
- The queue is argued about once for each way it changes: it grows for a link
  (`QueueGrows`), turns (`QueueTurns`), loses its front (`QueueShrinks`), or a
  connection changes that stays (`QueueSame`). Every handler of the host, the peers
  and the controller is an instance of one of them.

- `FailureNeedsInterruption` (`CrashNeedsInterruption`), over `BondsKept`. What the
  property says of the completion handled now, `DhkeyExpected` says of every one
  under way: as long as nothing was cut off, the connection that asked last is there
  and its end is not in the queue, and the same holds for whoever will ask next, whose
  public key is in the queue. `EndsLast` (no event of a link comes after its end) makes
  that true when a key is sent.

TLC checked `BondsKept` on the instance of `sm_peers` and on one of a single peer with all
capabilities, three links and a restart before it was proved.

Its first part is about `SmDeviceDb`, for any file, address and entry, without
assumptions:

- `StoredIsFound`: after `Store` a lookup under that address finds the entry.
- `StoreElsewhere`, `DeleteElsewhere`: a lookup under an address that matches
  neither the entry replaced nor the one in its place (for a deletion the zeroed
  one) is answered as before. Both rest on lemmas
  about the first match of a sequence. They are what `LinkKeysAgree` and
  `OthersUntouched` owe to the file.

`SmComparisonProofs`, over `BondsKept` and `FailureExplained`:

- `ComparisonsShowSame` (`ComparisonShowsSame`). The number is made of four values that
  travel apart: the two public keys and the two random values. `ComparisonsAgree` follows
  them through a comparison that did not overlap an earlier pairing: while the peer
  is in it, what its packets under way say is what it has (`PacketsOfComparison`), the
  host has answered its request on the connection it keeps (`Agreed`), and has its public
  key before the host's own can be on its way, for which the host has to have asked for a
  DHKey (`KeysOfComparison`); there is one random value of each side, the host draws its own
  when it answers the public key, and shows the number in the step that sends it
  (`NumbersAgree`). Since a DHKey goes to whoever asked last, the invariant cannot say that
  a completion is the peer's own; it says that the one who gets it had asked. `TurnsOK`
  is what a handle used again needs: the beginning of a connection in the queue is
  the first thing there is of its handle, and the host has none under it.
- Around it every handler is reduced to what a comparison can see of it: what it says
  (`HostStep`, `Sends`, `Moves`), of which connection (`Touches`), and whether it leaves the
  agreement alone (`Plain`, `Alike`).

- `TypesCorrect` (`TypeOK`). What takes a proof is the range of `passkey_index`, which
  no handler compares with the length of a passkey: the host stops
  because the peer does. `RoundsAgree` says why. While the host has not sent what ends the
  pairing (`Quits`), the number of its bit is at most the number of the peer's, one more
  only where the peer's random value has been taken and the host's has not (`InRound`); there is one
  random value under way in either direction (`AtMostOne`, `Lone`), and the peer starts a next
  bit only after the host's. It starts at zero on both sides (`PasskeyOK`): the host resets
  its number when a passkey is shown or typed, and until then (`Typing`) no commitment
  of its own can move the peer on. The bound itself (`IndexKept`) has to hold also on
  links whose peer has left the pairing while its last random value is still in
  the host's queue, and therefore says of that value that the number is below the last.
  Of the first part `Matched` is needed to know that both sides run the same method.

TLC checked both before they were proved: `ComparisonsAgree` on instances of one peer with up
to eight comparisons, `RoundsAgree` on one of one peer with three pairings of three-bit
passkeys, and each on one of two peers.

Only model-checked: of the pairing, what a bond consists of and when it
is used (`BondWhole`, `AuthenticationAsPaired`, `LinkKeysAgree`); `Cmac` (over
`Bitwise`, which the prover does not know); and all liveness. Liveness under fairness and ENABLED are outside what
the prover does, and so are the library's induction theorems: where a sequence is put together step by
step, as by `FlattenSeq`, the lemmas argue with the least counterexample
(`LeastExists`, `Climb`).

## Not modelled

- Of `tinycrypt`, vendored, only CMAC is modelled, over AES as a symbol. The rest
  (elliptic curves, CCM, CTR, HMAC, SHA-256) is called by nothing in the stack.
- `btsnoop.cpp`, `log.cpp`, `mainwindow.ui` produce output or layout; of `main.cpp` only
  the start that `Restart` repeats is there.
- `serial.cpp` forwards to QSerialPort; it appears as bytes on the wire, and as a
  closed port that drops what is written.
- The TestPeripheral button (`mainwindow.cpp:76`) is `gatt_send_passthrough`, for any
  peer instead of handle 0 only.
- Values of attributes other than client configurations, but for whether a peer has
  overwritten them.
- ACL data longer than `read_buffer` (1024 bytes) is not modelled; the
  ring stores at most 1023 bytes.
- The status of a connection event is not modelled.

## Plan

1. Done: RingBuffer, H4Reader, HciCommands, HciAclTx, HciLinks, first proofs.
   The proofs of the reader followed.
2. Done: GattDatabase, GattServer.
3. Done: SmCrypto, SmDeviceDb, SmPairing, Cmac, proofs of the command credit and of
   the file of bonds.
4. `HostStack`: reader, dialogs and connection list together (a node must
   stay while a handler in a dialog refers to it).
5. Done: proofs of HciLinks, of the bring-up, of GattServer and, of SmPairing,
   `SecureBondsShared`, `OthersUntouched`, `CrashNeedsInterruption`,
   `ComparisonShowsSame` and `TypeOK`. Next, over `BondsKept` and `RoundsAgree`: which
   keys of a finished pairing are still on their way, which `BondWhole` needs.
