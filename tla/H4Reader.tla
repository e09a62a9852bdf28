------------------------------ MODULE H4Reader ------------------------------
(***************************************************************************)
(* src/mainwindow.cpp: MainWindow::serialPort_readyRead cuts the byte      *)
(* stream of the serial port into HCI packets and hands each to the HCI    *)
(* layer, and the Open/Close button starts the stream over.                *)
(*                                                                         *)
(* The program is one Qt thread.  What makes the reader hard is that a     *)
(* packet's handler may open a modal dialog (sm.cpp:576, 620, 623, 672,    *)
(* 719): its nested event loop runs serialPort_readyRead again while the   *)
(* first invocation stands inside hci_recv_evt or hci_recv_acl.            *)
(*                                                                         *)
(* The ring buffer is the byte FIFO that RingBuffer implements.            *)
(***************************************************************************)
EXTENDS Naturals, Sequences, SequencesExt

CONSTANTS
    RINGBUFFER_SIZE,
    Packet,       \* the packets the controller may send, as byte strings
    MaxPackets,   \* bound: packets sent after one opening of the port
    MaxOpens      \* bound: how often the port is opened

HCI_PACKET_TYPE_ACL == 2
HCI_PACKET_TYPE_EVT == 4

HCI_LENGTH_PACKET_TYPE == 1
HCI_LENGTH_HEADER_EVT == 2
HCI_LENGTH_HEADER_ACL == 4

\* What a controller sends: the packet type, the header, and as much data as it says.
WellFormed(packet) ==
    /\ packet \in Seq(Nat)
    /\ \/ /\ Len(packet) >= 3 /\ packet[1] = HCI_PACKET_TYPE_EVT
          /\ Len(packet) = 3 + packet[3]
       \/ /\ Len(packet) >= 5 /\ packet[1] = HCI_PACKET_TYPE_ACL
          /\ Len(packet) = 5 + packet[4] + 256 * packet[5]

ASSUME PacketAssumption == \A packet \in Packet : WellFormed(packet)
ASSUME SizeAssumption == RINGBUFFER_SIZE \in Nat \ {0}
ASSUME BoundsAssumption == {MaxPackets, MaxOpens} \subseteq Nat

VARIABLES
    opened,         \* the button reads "Close"
    opens,          \* how often the port was opened
    wire,           \* bytes the controller sent and QSerialPort did not announce yet
    ring, reply,    \* the ring buffer and its last call with what it returned
    read_status,
    read_buffer,    \* read_buffer[0 .. read_buffer_length - 1]
    is_processing,
    frames,         \* invocations of serialPort_readyRead on the call stack, innermost last:
                    \* "loop" runs its while loop, "dialog" waits in a handler's dialog
    sent,           \* ghost: packets the controller sent since the port was opened
    delivered,      \* ghost: packets handed to the HCI layer since then
    lost,           \* ghost: a chunk was refused since then
    midPacket       \* ghost: the port was opened with a packet half read

readerVars == <<read_status, read_buffer, is_processing, frames, delivered>>
portVars   == <<opened, opens, midPacket>>
vars == <<opened, opens, wire, ring, reply, read_status, read_buffer, is_processing, frames,
          sent, delivered, lost, midPacket>>

Byte == {b : b \in UNION {Range(p) : p \in Packet}}
Status == {"STATUS_PACKET_TYPE", "STATUS_HEADRER_EVT", "STATUS_HEADRER_ACL",
           "STATUS_DATA_EVT", "STATUS_DATA_ACL"}

Ring == INSTANCE ByteFifo
    WITH contents <- ring, Capacity <- RINGBUFFER_SIZE - 1, Chunk <- {}, ReadLength <- {}

Init == /\ opened = FALSE /\ opens = 0
        /\ wire = <<>>
        /\ Ring!Init
        /\ read_status = "STATUS_PACKET_TYPE"
        /\ read_buffer = <<>>
        /\ is_processing = 0
        /\ frames = <<>>
        /\ sent = <<>> /\ delivered = <<>>
        /\ lost = FALSE /\ midPacket = FALSE

-----------------------------------------------------------------------------
(***************************************************************************)
(* The user and the controller                                             *)
(***************************************************************************)
\* Clicks reach the window only while no slot runs: a modal dialog blocks them.
ButtonsEnabled == frames = <<>>

\* on_pushButtonOpen_clicked, "Open": the ring is reset, read_status is not.
Open ==
    /\ ButtonsEnabled
    /\ ~opened /\ opens < MaxOpens
    /\ opened' = TRUE /\ opens' = opens + 1
    /\ Ring!Reset
    /\ wire' = <<>> /\ sent' = <<>> /\ delivered' = <<>> /\ lost' = FALSE
    /\ midPacket' = (read_status # "STATUS_PACKET_TYPE")
    /\ UNCHANGED <<read_status, read_buffer, is_processing, frames>>

\* on_pushButtonOpen_clicked, "Close": QSerialPort drops what it holds.
Close ==
    /\ ButtonsEnabled
    /\ opened
    /\ opened' = FALSE
    /\ wire' = <<>>
    /\ UNCHANGED <<opens, ring, reply, sent, lost, midPacket, readerVars>>

ControllerSends(packet) ==
    /\ opened
    /\ Len(sent) < MaxPackets
    /\ sent' = Append(sent, packet)
    /\ wire' = wire \o packet
    /\ UNCHANGED <<portVars, ring, reply, lost, readerVars>>

-----------------------------------------------------------------------------
(***************************************************************************)
(* serialPort_readyRead                                                    *)
(***************************************************************************)
\* Qt dispatches the signal from the event loop: the application's, or a dialog's.
Innermost == IF frames = <<>> THEN "none" ELSE Last(frames)

InEventLoop == Innermost \in {"none", "dialog"}

\* Variant: the slot enters its loop although a handler waits in a dialog.
ReadyReadReentrant(n) ==
    /\ opened /\ InEventLoop
    /\ Ring!Write(SubSeq(wire, 1, n))
    /\ wire' = SubSeq(wire, n + 1, Len(wire))
    /\ lost' = (lost \/ ~reply'.ok)
    /\ frames' = IF reply'.ok THEN Append(frames, "loop") ELSE frames
    /\ UNCHANGED <<portVars, sent, read_status, read_buffer, is_processing, delivered>>

\* The slot up to its loop: n bytes have arrived; they are stored whole or dropped whole, and
\* the loop is entered only if no invocation further down the stack is handling a packet.
ReadyRead(n) ==
    /\ opened /\ InEventLoop
    /\ Ring!Write(SubSeq(wire, 1, n))
    /\ wire' = SubSeq(wire, n + 1, Len(wire))
    /\ lost' = (lost \/ ~reply'.ok)
    /\ frames' = IF reply'.ok /\ is_processing = 0 THEN Append(frames, "loop") ELSE frames
    /\ UNCHANGED <<portVars, sent, read_status, read_buffer, is_processing, delivered>>

InLoop(status) ==
    /\ Innermost = "loop"
    /\ ring # <<>>                               \* !ringbuffer_is_empty()
    /\ read_status = status

Return == frames' = Front(frames)

\* the while condition fails
LoopEnds ==
    /\ Innermost = "loop"
    /\ ring = <<>>
    /\ Return
    /\ UNCHANGED <<portVars, wire, ring, reply, sent, lost,
                   read_status, read_buffer, is_processing, delivered>>

ReadPacketType ==
    /\ InLoop("STATUS_PACKET_TYPE")
    /\ Ring!Read(HCI_LENGTH_PACKET_TYPE)
    /\ read_buffer' = reply'.data
    /\ LET packet_type == read_buffer'[1] IN
       \/ /\ packet_type = HCI_PACKET_TYPE_ACL
          /\ read_status' = "STATUS_HEADRER_ACL"
          /\ UNCHANGED frames
       \/ /\ packet_type = HCI_PACKET_TYPE_EVT
          /\ read_status' = "STATUS_HEADRER_EVT"
          /\ UNCHANGED frames
       \/ /\ packet_type \notin {HCI_PACKET_TYPE_ACL, HCI_PACKET_TYPE_EVT}
          /\ Return
          /\ UNCHANGED read_status
    /\ UNCHANGED <<portVars, wire, sent, lost, is_processing, delivered>>

\* both header states: read the whole header or return
ReadHeader(status, length, next) ==
    /\ InLoop(status)
    /\ Ring!Read(length)
    /\ \/ /\ reply'.ok
          /\ read_buffer' = read_buffer \o reply'.data
          /\ read_status' = next
          /\ UNCHANGED frames
       \/ /\ ~reply'.ok
          /\ Return
          /\ UNCHANGED <<read_buffer, read_status>>
    /\ UNCHANGED <<portVars, wire, sent, lost, is_processing, delivered>>

\* the length field of the header in read_buffer
EvtLength == read_buffer[3]
AclLength == read_buffer[4] + 256 * read_buffer[5]

\* Variant: read_status is not set back behind the handler.
HandlerKeepsStatus == is_processing' = 0 /\ UNCHANGED read_status

\* hci_recv_evt or hci_recv_acl ran to its end
HandlerReturns == is_processing' = 0 /\ read_status' = "STATUS_PACKET_TYPE"

\* both data states: read all data and call the handler, which may open a dialog, or return
ReadData(status, length) ==
    /\ InLoop(status)
    /\ Ring!Read(length)
    /\ \/ /\ reply'.ok
          /\ read_buffer' = read_buffer \o reply'.data
          /\ delivered' = Append(delivered, read_buffer')
          /\ \/ HandlerReturns /\ UNCHANGED frames
             \/ /\ is_processing' = 1
                /\ frames' = Append(Front(frames), "dialog")
                /\ UNCHANGED read_status
       \/ /\ ~reply'.ok
          /\ Return
          /\ UNCHANGED <<read_buffer, read_status, is_processing, delivered>>
    /\ UNCHANGED <<portVars, wire, sent, lost>>

\* Variant: the slot returns with the handler instead of going on with its loop.
DialogClosesAndReturns ==
    /\ Innermost = "dialog"
    /\ Return
    /\ HandlerReturns
    /\ UNCHANGED <<portVars, wire, ring, reply, sent, lost, read_buffer, delivered>>

\* The user answers the dialog: the handler returns and its invocation's loop goes on.
DialogCloses ==
    /\ Innermost = "dialog"
    /\ frames' = Append(Front(frames), "loop")
    /\ HandlerReturns
    /\ UNCHANGED <<portVars, wire, ring, reply, sent, lost, read_buffer, delivered>>

ReadEvtHeader == ReadHeader("STATUS_HEADRER_EVT", HCI_LENGTH_HEADER_EVT, "STATUS_DATA_EVT")
ReadAclHeader == ReadHeader("STATUS_HEADRER_ACL", HCI_LENGTH_HEADER_ACL, "STATUS_DATA_ACL")
ReadEvtData == ReadData("STATUS_DATA_EVT", EvtLength)
ReadAclData == ReadData("STATUS_DATA_ACL", AclLength)

LoopStep == \/ LoopEnds \/ ReadPacketType
            \/ ReadEvtHeader \/ ReadAclHeader
            \/ ReadEvtData \/ ReadAclData

SomeReadyRead == \E n \in 1 .. Len(wire) : ReadyRead(n)

Next == \/ Open \/ Close
        \/ \E packet \in Packet : ControllerSends(packet)
        \/ SomeReadyRead
        \/ LoopStep
        \/ DialogCloses

Spec == Init /\ [][Next]_vars

\* The event loop runs a slot to its end and announces arrived bytes.  Nothing makes the user
\* answer a dialog or click, nor the controller send.
FairSpec == Spec /\ WF_vars(LoopStep) /\ WF_vars(SomeReadyRead)

-----------------------------------------------------------------------------
TypeOK ==
    /\ opened \in BOOLEAN /\ opens \in 0 .. MaxOpens
    /\ wire \in Seq(Byte) /\ ring \in Seq(Byte) /\ Len(ring) <= RINGBUFFER_SIZE - 1
    /\ reply \in [call : Ring!Call, ok : BOOLEAN, data : Seq(Byte)]
    /\ read_status \in Status /\ read_buffer \in Seq(Byte)
    /\ is_processing \in {0, 1}
    /\ frames \in Seq({"loop", "dialog"})
    /\ sent \in Seq(Packet) /\ delivered \in Seq(Seq(Byte))
    /\ lost \in BOOLEAN /\ midPacket \in BOOLEAN

\* No chunk was refused and the port was not opened with a packet half read.
StreamIntact == ~lost /\ ~midPacket

DialogOpen == \E i \in DOMAIN frames : frames[i] = "dialog"

\* Whatever pieces the bytes arrive in and whenever a dialog lets the slot run again, the HCI
\* layer is handed the packets the controller sent since the port was opened, each once, whole
\* and in order, as long as ringbuffer_write refused no chunk (mainwindow.cpp:112) and
\* read_status was not left inside a packet by closing the port.
FramesIntact == StreamIntact => IsPrefix(delivered, sent)

\* While a handler waits in a dialog, the slot only stores bytes: it reads none, leaves the
\* packet the handler points into alone and starts no second handler
\* (mainwindow.cpp:117, "avoid function re-entrant, just write data to ringbuffer").
HandlerUndisturbed ==
    [][DialogOpen => UNCHANGED <<read_buffer, delivered>> /\ IsPrefix(ring, ring')]_vars

\* how many bytes the reader wants next
Needed == CASE read_status = "STATUS_PACKET_TYPE" -> HCI_LENGTH_PACKET_TYPE
            [] read_status = "STATUS_HEADRER_EVT" -> HCI_LENGTH_HEADER_EVT
            [] read_status = "STATUS_HEADRER_ACL" -> HCI_LENGTH_HEADER_ACL
            [] read_status = "STATUS_DATA_EVT"    -> EvtLength
            [] read_status = "STATUS_DATA_ACL"    -> AclLength

\* No wake-up is lost: when the slot has returned (also the one that stored bytes under a
\* dialog), the ring holds too few bytes for the next read, so nothing readable waits for a
\* signal that may never come.  The exception is data of length 0 behind a header that emptied
\* the ring: the loop at mainwindow.cpp:121 ends before it asks for them.
NothingReadableWaits ==
    frames = <<>> /\ StreamIntact => ring = <<>> \/ Len(ring) < Needed

CaughtUp == \/ delivered = sent
            \/ /\ sent # <<>> /\ delivered = Front(sent)
               /\ Needed = 0

\* Every packet reaches the HCI layer in the end, unless the stream was damaged, the port was
\* closed or a dialog is never answered; a last packet without data waits for the next byte.
EventuallyCaughtUp ==
    <>[]DialogOpen \/ <>[](StreamIntact /\ opened => CaughtUp)
=============================================================================
