---------------------------- MODULE HciCommands ----------------------------
(***************************************************************************)
(* The HCI command channel of src/hci.cpp: the chain of commands that      *)
(* brings the controller up, the commands the buttons of src/mainwindow.cpp*)
(* and the peers' requests add to it, and the credit                       *)
(* num_of_allowed_cmd_packets they all compete for.  The host keeps no     *)
(* queue: a command that finds no credit is logged and forgotten           *)
(* (hci.cpp:760 and the same branch of every hci_send_cmd function).       *)
(*                                                                         *)
(* The controller is external: it answers commands in order and returns    *)
(* the credit in the answer or, later, in a Command Complete without       *)
(* opcode.  It may refuse what a button asks for, and it stops advertising *)
(* by itself when a peer connects.                                         *)
(***************************************************************************)
EXTENDS Naturals, Sequences, FiniteSets, SequencesExt

CONSTANTS
    Grants,       \* values of Num_HCI_Command_Packets the controller puts in an answer
    Requests,     \* what peers make the host answer with a command
    MaxAsked,     \* bound: clicks on the Adv and Scan buttons and requests of peers together
    MaxOpens,     \* bound: how often the port is opened
    MaxLate       \* bound: answers without a credit

ASSUME GrantsAssumption == Grants # {} /\ Grants \subseteq 0 .. 255
ASSUME RequestsAssumption ==
    Requests \subseteq {"ConnParamReq", "LtkReq", "LtkReqNoKey", "PublicKey"}
ASSUME BoundsAssumption == {MaxAsked, MaxOpens, MaxLate} \subseteq Nat

VARIABLES
    num_of_allowed_cmd_packets,
    opened, opens,
    started,       \* buttons that read "Stop Adv", "Stop Scan"
    toController,  \* command packets the controller did not take yet
    toHost,        \* event packets the host did not handle yet
    owed,          \* the controller answered with 0 credits and has to return one
    computing,     \* P-256 commands answered by Command Status and not complete yet
    enabled,       \* what the controller is doing: subset of {"Adv", "Scan"}
    connected,     \* a peer connected since the controller was reset
    clicks, requests,
    configured,    \* ghost: commands of the chain executed since the port was opened, in order
    refused,       \* ghost: commands the host dropped for want of credit since then
    astray,        \* ghost: buttons whose last command was dropped or refused by the controller, or
                   \* whose advertising a connection ended since
    stale,         \* ghost: the port was opened with answers to earlier commands to come
    late           \* ghost: how often the controller answered with 0 credits

controllerVars == <<owed, computing, enabled, connected, configured, late>>
vars == <<num_of_allowed_cmd_packets, opened, opens, started, toController, toHost, owed, computing,
          enabled, connected, clicks, requests, configured, refused, astray, stale, late>>

Button == {"Adv", "Scan"}

\* What __hci_recv_evt_command_complete sends on the answer to a command.
Successor ==
    [RESET                         |-> "READ_LOCAL_VERSION_INFO",
     READ_LOCAL_VERSION_INFO       |-> "READ_LOCAL_SUPPORTED_COMMANDS",
     READ_LOCAL_SUPPORTED_COMMANDS |-> "READ_BD_ADDR",
     READ_BD_ADDR                  |-> "WRITE_CLASS_OF_DEVICE",
     WRITE_CLASS_OF_DEVICE         |-> "SET_EVENT_MASK",
     SET_EVENT_MASK                |-> "WRITE_LE_HOST_SUPPORT",
     WRITE_LE_HOST_SUPPORT         |-> "LE_READ_BUFFER_SIZE",
     LE_READ_BUFFER_SIZE           |-> "LE_SET_RANDOM_ADDR",
     LE_SET_RANDOM_ADDR            |-> "LE_SET_EVENT_MASK",
     LE_SET_EVENT_MASK             |-> "LE_READ_LOCAL_P256_PUBLIC_KEY",
     LE_SET_ADV_PARAM              |-> "LE_SET_ADV_DATA",
     LE_SET_ADV_DATA               |-> "LE_SET_SCAN_PARAM"]

\* commands the controller answers with Command Status now and an LE meta event later
KeyCommand == {"LE_READ_LOCAL_P256_PUBLIC_KEY", "LE_GENERATE_DHKEY"}

BringUpCommand == DOMAIN Successor \cup {"LE_READ_LOCAL_P256_PUBLIC_KEY", "LE_SET_SCAN_PARAM"}

\* on_pushButtonAdv_clicked, on_pushButtonScan_clicked: the command by the button's text
EnableCommand(b) == IF b = "Adv" THEN "LE_SET_ADV_ENABLE" ELSE "LE_SET_SCAN_ENABLE"
DisableCommand(b) == IF b = "Adv" THEN "LE_SET_ADV_DISABLE" ELSE "LE_SET_SCAN_DISABLE"
UserCommand == {EnableCommand(b) : b \in Button} \cup {DisableCommand(b) : b \in Button}

\* The command that answers a request: a link's parameters, its key, a peer's public key.
Answer(request) ==
    CASE request = "ConnParamReq" -> "LE_REMOTE_CONN_PARAM_REQ_REPLY"
      [] request = "LtkReq"       -> "LE_LTK_REQ_REPLY"
      [] request = "LtkReqNoKey"  -> "LE_LTK_REQ_NEG_REPLY"
      [] request = "PublicKey"    -> "LE_GENERATE_DHKEY"

Command == BringUpCommand \cup UserCommand \cup {Answer(r) : r \in Requests}

Event == [type : {"complete", "status"}, cmd : Command, ncmd : Grants]
         \cup [type : {"noOpcode"}, ncmd : {1}]
         \cup [type : {"keyReady"}, cmd : KeyCommand]
         \cup [type : {"request"}, request : Requests]
         \cup [type : {"connected"}]

Init == /\ num_of_allowed_cmd_packets = 0
        /\ opened = FALSE /\ opens = 0
        /\ started = {}
        /\ toController = <<>> /\ toHost = <<>>
        /\ owed = FALSE /\ computing = {} /\ enabled = {} /\ connected = FALSE
        /\ clicks = 0 /\ requests = 0
        /\ configured = <<>> /\ refused = {} /\ astray = {}
        /\ stale = FALSE /\ late = 0

-----------------------------------------------------------------------------
(***************************************************************************)
(* The host                                                                *)
(***************************************************************************)
\* QSerialPort drops what is written to a closed port.
serial_write(cmd) == toController' = IF opened' THEN Append(toController, cmd) ELSE toController

\* Variant: a command is sent without asking for a credit.
SendCmdUnasked(credit, cmd) ==
    /\ num_of_allowed_cmd_packets' = credit - 1
    /\ serial_write(cmd)
    /\ UNCHANGED refused

\* Variant: the command sent takes no credit.
SendCmdForFree(credit, cmd) ==
    \/ /\ credit > 0
       /\ num_of_allowed_cmd_packets' = credit
       /\ serial_write(cmd)
       /\ UNCHANGED refused
    \/ /\ credit = 0
       /\ num_of_allowed_cmd_packets' = credit
       /\ refused' = refused \cup {cmd}
       /\ UNCHANGED toController

\* Every hci_send_cmd function, entered with the given credit: write the packet and take a
\* credit, or log and forget.
SendCmd(credit, cmd) ==
    \/ /\ credit > 0
       /\ num_of_allowed_cmd_packets' = credit - 1
       /\ serial_write(cmd)
       /\ UNCHANGED refused
    \/ /\ credit = 0
       /\ num_of_allowed_cmd_packets' = credit
       /\ refused' = refused \cup {cmd}
       /\ UNCHANGED toController

\* on_pushButtonOpen_clicked, "Open", with hci_init: one credit, spent on the reset at once
Open ==
    /\ ~opened /\ opens < MaxOpens
    /\ opened' = TRUE /\ opens' = opens + 1
    /\ num_of_allowed_cmd_packets' = 0
    /\ toController' = Append(toController, "RESET")
    /\ configured' = <<>> /\ refused' = {}
    /\ stale' = (toController # <<>> \/ computing # {} \/ owed)
    /\ UNCHANGED <<started, toHost, owed, computing, enabled, connected, clicks, requests, astray, late>>

\* "Close": the events the port held are gone, the command the controller holds is not.
Close ==
    /\ opened
    /\ opened' = FALSE
    /\ toHost' = <<>>
    /\ UNCHANGED <<num_of_allowed_cmd_packets, opens, started, toController, controllerVars,
                   clicks, requests, refused, astray, stale>>

\* Variant: stopping sends the command that starts.
ClickNeverDisables(b) ==
    /\ clicks + requests < MaxAsked
    /\ clicks' = clicks + 1
    /\ UNCHANGED opened
    /\ SendCmd(num_of_allowed_cmd_packets, EnableCommand(b))
    /\ started' = IF b \in started THEN started \ {b} ELSE started \cup {b}
    /\ astray' = IF num_of_allowed_cmd_packets > 0 THEN astray \ {b} ELSE astray \cup {b}
    /\ UNCHANGED <<opens, toHost, controllerVars, requests, stale>>

\* The button's text and the log follow the click, whatever became of the command.
Click(b) ==
    /\ clicks + requests < MaxAsked
    /\ clicks' = clicks + 1
    /\ UNCHANGED opened
    /\ \/ /\ b \notin started
          /\ SendCmd(num_of_allowed_cmd_packets, EnableCommand(b))
          /\ started' = started \cup {b}
       \/ /\ b \in started
          /\ SendCmd(num_of_allowed_cmd_packets, DisableCommand(b))
          /\ started' = started \ {b}
    /\ astray' = IF num_of_allowed_cmd_packets > 0 THEN astray \ {b} ELSE astray \cup {b}
    /\ UNCHANGED <<opens, toHost, controllerVars, requests, stale>>

Receive(type) ==
    /\ toHost # <<>> /\ Head(toHost).type = type
    /\ toHost' = Tail(toHost)
    /\ UNCHANGED <<opened, opens, started, controllerVars, clicks, requests, astray, stale>>

TakeCredit(ncmd) ==
    num_of_allowed_cmd_packets' = ncmd /\ UNCHANGED <<toController, refused>>

\* Variant: the credit is stored behind the switch, so the next command finds the old one.
CommandCompleteCreditLast ==
    /\ Receive("complete")
    /\ LET evt == Head(toHost) IN
       \/ /\ evt.cmd \in DOMAIN Successor
          /\ num_of_allowed_cmd_packets = 0
          /\ num_of_allowed_cmd_packets' = evt.ncmd
          /\ refused' = refused \cup {Successor[evt.cmd]}
          /\ UNCHANGED toController
       \/ /\ evt.cmd \notin DOMAIN Successor
          /\ TakeCredit(evt.ncmd)

__hci_recv_evt_command_complete ==
    /\ Receive("complete")
    /\ LET evt == Head(toHost) IN
       \/ /\ evt.cmd \in DOMAIN Successor
          /\ SendCmd(evt.ncmd, Successor[evt.cmd])
       \/ /\ evt.cmd \notin DOMAIN Successor
          /\ TakeCredit(evt.ncmd)

\* Command Complete without opcode falls through both switches: only the credit is taken.
RecvNoOpcode == Receive("noOpcode") /\ TakeCredit(Head(toHost).ncmd)

\* Variant: the chain goes on at the status of the P-256 command, and again at its completion.
CommandStatusGoesOn == Receive("status") /\ SendCmd(Head(toHost).ncmd, "LE_SET_ADV_PARAM")

__hci_recv_evt_command_status == Receive("status") /\ TakeCredit(Head(toHost).ncmd)

\* Variant: the completion of the P-256 command does not go on with the chain.
RecvKeyReadyEnds ==
    /\ Receive("keyReady")
    /\ UNCHANGED <<num_of_allowed_cmd_packets, toController, refused>>

\* HCI_EVENT_LE_READ_LOCAL_P256_PUBLIC_KEY_COMPLETE goes on with the chain; the completion of
\* HCI_EVENT_LE_GENERATE_DHKEY_COMPLETE sends no command.
RecvKeyReady ==
    /\ Receive("keyReady")
    /\ \/ /\ Head(toHost).cmd = "LE_READ_LOCAL_P256_PUBLIC_KEY"
          /\ SendCmd(num_of_allowed_cmd_packets, "LE_SET_ADV_PARAM")
       \/ /\ Head(toHost).cmd = "LE_GENERATE_DHKEY"
          /\ UNCHANGED <<num_of_allowed_cmd_packets, toController, refused>>

\* A request of a peer is answered by one command, sent from inside its handler.
RecvRequest ==
    /\ Receive("request")
    /\ SendCmd(num_of_allowed_cmd_packets, Answer(Head(toHost).request))

\* A connection is added to the list (see HciLinks); neither is advertising started again nor
\* the button's text changed.
RecvConnected ==
    /\ Receive("connected")
    /\ UNCHANGED <<num_of_allowed_cmd_packets, toController, refused>>

HostReceives == \/ __hci_recv_evt_command_complete
                \/ RecvNoOpcode
                \/ __hci_recv_evt_command_status
                \/ RecvKeyReady
                \/ RecvRequest
                \/ RecvConnected

-----------------------------------------------------------------------------
(***************************************************************************)
(* The controller (external)                                               *)
(***************************************************************************)
\* what it sends while the port is closed is lost
Emit(evt) == toHost' = IF opened THEN Append(toHost, evt) ELSE toHost

hostVars == <<num_of_allowed_cmd_packets, opened, opens, started, clicks, refused, stale>>

ButtonOf(cmd) == {b \in Button : cmd \in {EnableCommand(b), DisableCommand(b)}}

Controlled(cmd) ==
    CASE cmd = "RESET" -> {}
      [] cmd \in {EnableCommand(b) : b \in Button} ->
            enabled \cup {b \in Button : EnableCommand(b) = cmd}
      [] cmd \in {DisableCommand(b) : b \in Button} ->
            enabled \ {b \in Button : DisableCommand(b) = cmd}
      [] OTHER -> enabled

\* The command is executed, or a button's is refused with an error status the host only logs.
ControllerExecutes(ncmd, ok) ==
    /\ toController # <<>>
    /\ ok \/ Head(toController) \in UserCommand
    /\ ~owed /\ (ncmd = 0 => late < MaxLate)
    /\ LET cmd == Head(toController) IN
       /\ toController' = Tail(toController)
       /\ configured' = IF cmd \in BringUpCommand THEN Append(configured, cmd) ELSE configured
       /\ enabled' = IF ok THEN Controlled(cmd) ELSE enabled
       /\ astray' = IF ok THEN astray ELSE astray \cup ButtonOf(cmd)
       /\ connected' = IF cmd = "RESET" THEN FALSE ELSE connected
       /\ owed' = (ncmd = 0) /\ late' = IF ncmd = 0 THEN late + 1 ELSE late
       /\ computing' = CASE cmd \in KeyCommand -> computing \cup {cmd}
                         [] cmd = "RESET"      -> {}
                         [] OTHER              -> computing
       /\ Emit([type |-> IF cmd \in KeyCommand THEN "status" ELSE "complete",
                cmd |-> cmd, ncmd |-> ncmd])
    /\ UNCHANGED <<hostVars, requests>>

ControllerReturnsCredit ==
    /\ owed
    /\ owed' = FALSE
    /\ Emit([type |-> "noOpcode", ncmd |-> 1])
    /\ UNCHANGED <<hostVars, astray, requests, toController, computing, enabled, connected,
                   configured, late>>

ControllerComputesKey(cmd) ==
    /\ cmd \in computing
    /\ computing' = computing \ {cmd}
    /\ Emit([type |-> "keyReady", cmd |-> cmd])
    /\ UNCHANGED <<hostVars, astray, requests, toController, owed, enabled, connected,
                   configured, late>>

\* A peer connects to the advertiser, and the controller stops advertising.
PeerConnects ==
    /\ "Adv" \in enabled
    /\ enabled' = enabled \ {"Adv"}
    /\ connected' = TRUE
    /\ astray' = astray \cup {"Adv"}
    /\ Emit([type |-> "connected"])
    /\ UNCHANGED <<hostVars, requests, toController, owed, computing, configured, late>>

\* A peer that connected asks for something.
PeerRequests(request) ==
    /\ opened /\ clicks + requests < MaxAsked
    /\ connected
    /\ requests' = requests + 1
    /\ Emit([type |-> "request", request |-> request])
    /\ UNCHANGED <<hostVars, astray, toController, controllerVars>>

ControllerWorks == \/ \E ncmd \in Grants, ok \in BOOLEAN : ControllerExecutes(ncmd, ok)
                   \/ ControllerReturnsCredit
                   \/ \E cmd \in KeyCommand : ControllerComputesKey(cmd)

Next == \/ Open \/ Close
        \/ \E b \in Button : Click(b)
        \/ HostReceives
        \/ ControllerWorks
        \/ PeerConnects
        \/ \E request \in Requests : PeerRequests(request)

Spec == Init /\ [][Next]_vars

\* The event loop handles what arrives and the controller answers what it was sent.  Nothing
\* makes the user click or a peer connect or ask.
FairSpec == Spec /\ WF_vars(HostReceives) /\ WF_vars(ControllerWorks)

-----------------------------------------------------------------------------
\* the host's counter never wraps below zero (hci_stack.num_of_allowed_cmd_packets is an octet
\* that is set to whatever an answer says and taken from), and only commands and events the
\* host knows are under way
TypeOK ==
    /\ num_of_allowed_cmd_packets \in 0 .. 255
    /\ opened \in BOOLEAN /\ opens \in 0 .. MaxOpens
    /\ started \subseteq Button /\ enabled \subseteq Button /\ astray \subseteq Button
    /\ connected \in BOOLEAN
    /\ toController \in Seq(Command) /\ toHost \in Seq(Event)
    /\ owed \in BOOLEAN /\ computing \subseteq KeyCommand
    /\ clicks \in 0 .. MaxAsked /\ requests \in 0 .. MaxAsked
    /\ configured \in Seq(BringUpCommand)
    /\ refused \subseteq Command
    /\ stale \in BOOLEAN /\ late \in 0 .. MaxLate

\* answers under way to the host that carry a credit
CarriesCredit(evt) == evt.type \in {"complete", "status", "noOpcode"} /\ evt.ncmd > 0
CreditsInFlight(events) == {i \in DOMAIN events : CarriesCredit(events[i])}

\* The controller's one command buffer is never overrun and its credit never lost: whatever the
\* buttons, the peers and the chain send in whatever order, the credit is with the host, in a
\* command under way, owed by the controller or in an answer under way, in exactly one of them.
\* It does not cover a port opened while the controller still had an earlier command to answer:
\* the late answer gives the host a credit while the reset of hci_init is outstanding.
CreditLedger ==
    opened /\ ~stale =>
        num_of_allowed_cmd_packets + Len(toController) + Cardinality(CreditsInFlight(toHost))
            + (IF owed THEN 1 ELSE 0) = 1

\* The order the chain is meant to have, from reset to scan parameters.
BringUp == <<"RESET", "READ_LOCAL_VERSION_INFO", "READ_LOCAL_SUPPORTED_COMMANDS", "READ_BD_ADDR",
             "WRITE_CLASS_OF_DEVICE", "SET_EVENT_MASK", "WRITE_LE_HOST_SUPPORT",
             "LE_READ_BUFFER_SIZE", "LE_SET_RANDOM_ADDR", "LE_SET_EVENT_MASK",
             "LE_READ_LOCAL_P256_PUBLIC_KEY", "LE_SET_ADV_PARAM", "LE_SET_ADV_DATA",
             "LE_SET_SCAN_PARAM">>

\* The controller is configured step by step and each step once, however answers of the chain,
\* of the buttons and of the peers' requests interleave: the event masks precede the commands
\* whose events they unmask, the random address the parameters that use it.
BringUpInOrder == ~stale => IsPrefix(configured, BringUp)

\* The chain is not over and nothing under way will take it further.
Stalled ==
    /\ opened /\ ~stale
    /\ configured # BringUp
    /\ \A cmd \in Range(toController) : cmd \notin BringUpCommand
    /\ "LE_READ_LOCAL_P256_PUBLIC_KEY" \notin computing
    /\ \A i \in DOMAIN toHost :
          /\ toHost[i].type = "complete" => toHost[i].cmd \notin DOMAIN Successor
          /\ toHost[i].type \in {"status", "keyReady"} => toHost[i].cmd # "LE_READ_LOCAL_P256_PUBLIC_KEY"

\* With a controller that returns the credit in every answer, the bring-up can only stop in one
\* place: a click that takes the credit between the Command Status of the P-256 command and its
\* completion makes LE_SET_ADV_PARAM find none (hci.cpp:558), and nothing repeats it.
StallsOnlyInKeyWindow ==
    Stalled /\ late = 0 => /\ "LE_SET_ADV_PARAM" \in refused
               /\ Last(configured) = "LE_READ_LOCAL_P256_PUBLIC_KEY"
               /\ clicks > 0

\* Once the port is opened the bring-up runs to its end, or stops in that window, or the port is
\* closed again, or a credit came late and the chain found none.
BringUpSettles ==
    (opened /\ ~stale) ~>
        \/ configured = BringUp
        \/ refused \cap BringUpCommand # {} /\ (late > 0 \/ "LE_SET_ADV_PARAM" \in refused)
        \/ ~opened

Quiet == opened /\ toController = <<>> /\ toHost = <<>> /\ computing = {} /\ ~owed

\* Once all commands are answered, what a button shows is what the controller does, unless the
\* button's last command was dropped by the host or refused by the controller, or a connection
\* ended the advertising since (hci.cpp:515-521 tells nobody): each other click is obeyed once
\* and in order, whoever else sends commands meanwhile, and one command taken makes up for
\* all that went astray before (mainwindow.cpp:63-73, 91-101).
\* It does not cover a port opened again, whose reset ends what the buttons still show.
ButtonsTellTheTruth ==
    Quiet /\ opens = 1 => \A b \in Button \ astray : b \in started <=> b \in enabled
=============================================================================
