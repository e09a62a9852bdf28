------------------------- MODULE HciCommandsProofs -------------------------
(***************************************************************************)
(* HciCommands for any set of requests and any number of clicks, opens and *)
(* late credits: the host's credit octet never wraps; and, for a           *)
(* controller with one command buffer, the one credit is always accounted  *)
(* for, the chain that brings the controller up runs in its order and can  *)
(* stop in one place only, and the buttons show what was obeyed.           *)
(***************************************************************************)
EXTENDS HciCommands, FiniteSetTheorems, SequenceTheorems, TLAPS

USE GrantsAssumption, BoundsAssumption

\* The controller hci_init supposes: one command at a time (hci.cpp:610).
OneCommandBuffer == Grants \subseteq {0, 1}

-----------------------------------------------------------------------------
(* Answers with credits in a sequence of events. *)

LEMMA CreditsFinite ==
    ASSUME NEW S, NEW q \in Seq(S)
    PROVE  IsFiniteSet(CreditsInFlight(q)) /\ Cardinality(CreditsInFlight(q)) \in Nat
<1>1. DOMAIN q = 1 .. Len(q) /\ Len(q) \in Nat
  OBVIOUS
<1>2. IsFiniteSet(DOMAIN q)
  BY <1>1, FS_Interval
<1>3. CreditsInFlight(q) \in SUBSET DOMAIN q
  BY DEF CreditsInFlight
<1>4. IsFiniteSet(CreditsInFlight(q))
  BY <1>2, <1>3, FS_Subset
<1> QED
  BY <1>4, FS_CardinalityType

LEMMA CreditsOfAppend ==
    ASSUME NEW S, NEW q \in Seq(S), NEW e \in S
    PROVE  Cardinality(CreditsInFlight(Append(q, e)))
             = Cardinality(CreditsInFlight(q)) + (IF CarriesCredit(e) THEN 1 ELSE 0)
<1> DEFINE n == Len(q) + 1
           new == Append(q, e)
<1>1. /\ n \in Nat /\ DOMAIN q = 1 .. Len(q) /\ DOMAIN new = 1 .. n
      /\ new[n] = e /\ \A i \in DOMAIN q : new[i] = q[i]
  BY AppendProperties
<1>2. n \notin CreditsInFlight(q) /\ \A i \in CreditsInFlight(q) : i \in DOMAIN q
  BY <1>1 DEF CreditsInFlight
<1>3. IsFiniteSet(CreditsInFlight(q)) /\ Cardinality(CreditsInFlight(q)) \in Nat
  BY CreditsFinite
<1>4. CASE CarriesCredit(e)
  <2>1. CreditsInFlight(new) = CreditsInFlight(q) \cup {n}
    <3> HIDE DEF new
    <3> QED
      BY <1>1, <1>4 DEF CreditsInFlight
  <2>2. Cardinality(CreditsInFlight(q) \cup {n}) = Cardinality(CreditsInFlight(q)) + 1
    BY <1>2, <1>3, FS_AddElement
  <2> QED
    BY <1>4, <2>1, <2>2
<1>5. CASE ~CarriesCredit(e)
  <2>1. CreditsInFlight(new) = CreditsInFlight(q)
    <3> HIDE DEF new
    <3> QED
      BY <1>1, <1>5 DEF CreditsInFlight
  <2> QED
    BY <1>3, <1>5, <2>1
<1> QED
  BY <1>4, <1>5

LEMMA CreditsOfTail ==
    ASSUME NEW S, NEW q \in Seq(S), q # <<>>
    PROVE  Cardinality(CreditsInFlight(Tail(q)))
             = Cardinality(CreditsInFlight(q)) - (IF CarriesCredit(Head(q)) THEN 1 ELSE 0)
<1> DEFINE rest == Tail(q)
           C == CreditsInFlight(q) \ {1}
           D == CreditsInFlight(rest)
           f == [i \in C |-> i - 1]
<1>1. /\ Len(q) \in Nat \ {0} /\ DOMAIN q = 1 .. Len(q) /\ DOMAIN rest = 1 .. Len(q) - 1
      /\ rest \in Seq(S)
      /\ Head(q) = q[1] /\ \A i \in DOMAIN rest : rest[i] = q[i + 1]
  BY HeadTailProperties
<1>2. IsFiniteSet(CreditsInFlight(q)) /\ Cardinality(CreditsInFlight(q)) \in Nat
  BY CreditsFinite
<1>3. /\ IsFiniteSet(C)
      /\ Cardinality(C) = IF 1 \in CreditsInFlight(q) THEN Cardinality(CreditsInFlight(q)) - 1
                          ELSE Cardinality(CreditsInFlight(q))
  BY <1>2, FS_RemoveElement
<1>4. 1 \in CreditsInFlight(q) <=> CarriesCredit(Head(q))
  BY <1>1 DEF CreditsInFlight
<1>5. f \in Bijection(C, D)
  <2>1. \A i \in C : i \in 2 .. Len(q) /\ CarriesCredit(q[i])
    BY <1>1 DEF CreditsInFlight
  <2>2. \A i \in C : i - 1 \in DOMAIN rest /\ rest[i - 1] = q[i]
    <3> HIDE DEF rest, C
    <3> QED
      BY <1>1, <2>1
  <2>3. \A i \in C : i - 1 \in D
    BY <2>1, <2>2 DEF CreditsInFlight
  <2>4. \A j \in D : j \in Nat /\ j + 1 \in C /\ (j + 1) - 1 = j
    <3>1. \A j \in D : j \in 1 .. Len(q) - 1 /\ CarriesCredit(q[j + 1])
      <4> HIDE DEF rest
      <4> QED
        BY <1>1 DEF CreditsInFlight
    <3>2. \A j \in D : j + 1 \in DOMAIN q /\ j + 1 # 1 /\ (j + 1) - 1 = j
      BY <1>1, <3>1
    <3> QED
      BY <3>1, <3>2 DEF CreditsInFlight
  <2>5. \A i \in C : i \in Nat
    BY <2>1
  <2> HIDE DEF C, D
  <2>6. f \in [C -> D]
    BY <2>3
  <2>7. \A a, b \in C : f[a] = f[b] => a = b
    BY <2>5
  <2>8. \A j \in D : \E i \in C : f[i] = j
    <3> TAKE j \in D
    <3>1. j + 1 \in C /\ f[j + 1] = j
      BY <2>4
    <3> QED
      BY <3>1
  <2> HIDE DEF f
  <2> QED
    BY <2>6, <2>7, <2>8 DEF Bijection, Injection, Surjection, IsInjective
<1>6. ExistsBijection(C, D)
  BY <1>5 DEF ExistsBijection
<1>7. Cardinality(D) = Cardinality(C)
  <2> HIDE DEF C, D
  <2> QED
    BY <1>3, <1>6, FS_Bijection
<1> QED
  BY <1>2, <1>3, <1>4, <1>7

-----------------------------------------------------------------------------
(* What the host's and the controller's steps are built from. *)

LEMMA Commands ==
    /\ "RESET" \in Command /\ "LE_SET_ADV_PARAM" \in Command
    /\ \A c \in DOMAIN Successor : Successor[c] \in Command
    /\ \A b \in Button : EnableCommand(b) \in Command /\ DisableCommand(b) \in Command
    /\ \A r \in Requests : Answer(r) \in Command
<1>1. "RESET" \in Command /\ "LE_SET_ADV_PARAM" \in Command
  BY DEF Command, BringUpCommand, Successor
<1>2. \A c \in DOMAIN Successor : Successor[c] \in BringUpCommand
  BY DEF BringUpCommand, Successor
<1>3. \A b \in Button : EnableCommand(b) \in Command /\ DisableCommand(b) \in Command
  BY DEF Command, UserCommand
<1>4. \A r \in Requests : Answer(r) \in Command
  BY DEF Command
<1> QED
  BY <1>1, <1>2, <1>3, <1>4 DEF Command

IsAnswer(evt) == evt.type \in {"complete", "status", "noOpcode"}

\* The fields of an event.
LEMMA EventFields ==
    ASSUME NEW evt \in Event
    PROVE  /\ evt.type \in {"complete", "status", "noOpcode", "keyReady", "request", "connected"}
           /\ IsAnswer(evt) => evt.ncmd \in 0 .. 255 /\ (OneCommandBuffer => evt.ncmd \in {0, 1})
           /\ evt.type \in {"complete", "status"} => evt.cmd \in Command
           /\ evt.type = "noOpcode" => evt.ncmd = 1
           /\ evt.type = "request" => evt.request \in Requests
<1>1. CASE evt \in [type : {"complete", "status"}, cmd : Command, ncmd : Grants]
  BY <1>1 DEF IsAnswer, OneCommandBuffer
<1>2. CASE evt \in [type : {"noOpcode"}, ncmd : {1}]
  BY <1>2 DEF IsAnswer
<1>3. CASE evt \in [type : {"keyReady"}, cmd : KeyCommand]
  BY <1>3 DEF IsAnswer
<1>4. CASE evt \in [type : {"request"}, request : Requests]
  BY <1>4 DEF IsAnswer
<1>5. CASE evt \in [type : {"connected"}]
  BY <1>5 DEF IsAnswer
<1> QED
  BY <1>1, <1>2, <1>3, <1>4, <1>5 DEF Event

\* A command takes the credit it is sent with, or leaves the count at zero.
LEMMA SendCmdSpends ==
    ASSUME TypeOK, UNCHANGED opened, NEW credit \in 0 .. 255, NEW cmd \in Command,
           SendCmd(credit, cmd)
    PROVE  /\ num_of_allowed_cmd_packets' \in 0 .. 255
           /\ toController' \in Seq(Command)
           /\ refused' \subseteq Command
           /\ opened => num_of_allowed_cmd_packets' + Len(toController') = credit + Len(toController)
<1>1. toController \in Seq(Command) /\ refused \subseteq Command /\ Len(toController) \in Nat
  BY DEF TypeOK
<1>2. Append(toController, cmd) \in Seq(Command) /\ Len(Append(toController, cmd)) = Len(toController) + 1
  BY <1>1, AppendProperties
<1>3. CASE credit = 0
  BY <1>1, <1>3 DEF SendCmd, serial_write
<1>4. CASE credit > 0
  <2>1. /\ num_of_allowed_cmd_packets' = credit - 1 /\ refused' = refused
        /\ toController' = IF opened THEN Append(toController, cmd) ELSE toController
    BY <1>4 DEF SendCmd, serial_write
  <2> QED
    BY <1>1, <1>2, <1>4, <2>1
<1>5. credit = 0 \/ credit > 0
  OBVIOUS
<1> QED
  BY <1>3, <1>4, <1>5

\* The host handles one event: the credit it has then, that of an answer or the one it had,
\* stays with it or goes into a command.
LEMMA HostReceivesSpends ==
    ASSUME TypeOK, HostReceives
    PROVE  LET evt == Head(toHost) IN
           /\ toHost # <<>> /\ evt \in Event /\ toHost' = Tail(toHost)
           /\ UNCHANGED <<opened, opens, started, controllerVars, clicks, requests, astray, stale>>
           /\ num_of_allowed_cmd_packets' \in 0 .. 255
           /\ toController' \in Seq(Command)
           /\ refused' \subseteq Command
           /\ opened => num_of_allowed_cmd_packets' + Len(toController')
                = (IF IsAnswer(evt) THEN evt.ncmd ELSE num_of_allowed_cmd_packets) + Len(toController)
<1> DEFINE evt == Head(toHost)
<1>1. /\ toHost # <<>> /\ toHost' = Tail(toHost)
      /\ UNCHANGED <<opened, opens, started, controllerVars, clicks, requests, astray, stale>>
  BY DEF HostReceives, __hci_recv_evt_command_complete, RecvNoOpcode,
         __hci_recv_evt_command_status, RecvKeyReady, RecvRequest, RecvConnected, Receive
<1>2. evt \in Event
  BY <1>1, HeadTailProperties DEF TypeOK
<1>3. /\ num_of_allowed_cmd_packets \in 0 .. 255
      /\ toController \in Seq(Command) /\ refused \subseteq Command /\ Len(toController) \in Nat
  BY DEF TypeOK
<1> DEFINE credit == IF IsAnswer(evt) THEN evt.ncmd ELSE num_of_allowed_cmd_packets
           Spends == /\ num_of_allowed_cmd_packets' \in 0 .. 255
                     /\ toController' \in Seq(Command)
                     /\ refused' \subseteq Command
                     /\ opened => num_of_allowed_cmd_packets' + Len(toController')
                                    = credit + Len(toController)
<1>4. credit \in 0 .. 255
  BY <1>2, <1>3, EventFields
<1>5. ASSUME num_of_allowed_cmd_packets' = credit, UNCHANGED <<toController, refused>>
      PROVE  Spends
  BY <1>3, <1>4, <1>5
<1>6. ASSUME NEW cmd \in Command, SendCmd(credit, cmd) PROVE Spends
  BY <1>1, <1>4, <1>6, SendCmdSpends
<1> HIDE DEF Spends
<1>7. ASSUME __hci_recv_evt_command_complete PROVE Spends
  <2>1. evt.type = "complete"
    BY <1>7 DEF __hci_recv_evt_command_complete, Receive
  <2>2. evt.cmd \in Command /\ credit = evt.ncmd
    BY <1>2, <2>1, EventFields DEF IsAnswer
  <2> HIDE DEF credit
  <2>3. CASE evt.cmd \in DOMAIN Successor /\ SendCmd(evt.ncmd, Successor[evt.cmd])
    <3>1. Successor[evt.cmd] \in Command /\ SendCmd(credit, Successor[evt.cmd])
      BY <2>2, <2>3, Commands
    <3> QED
      BY <3>1, <1>6
  <2>4. CASE TakeCredit(evt.ncmd)
    BY <1>5, <2>2, <2>4 DEF TakeCredit
  <2> QED
    BY <1>7, <2>3, <2>4 DEF __hci_recv_evt_command_complete
<1>8. ASSUME RecvNoOpcode \/ __hci_recv_evt_command_status PROVE Spends
  <2>1. evt.type \in {"noOpcode", "status"} /\ TakeCredit(evt.ncmd)
    BY <1>8 DEF RecvNoOpcode, __hci_recv_evt_command_status, Receive
  <2>2. credit = evt.ncmd
    BY <2>1 DEF IsAnswer
  <2> QED
    BY <1>5, <2>1, <2>2 DEF TakeCredit
<1>9. ASSUME RecvKeyReady PROVE Spends
  <2>1. evt.type = "keyReady"
    BY <1>9 DEF RecvKeyReady, Receive
  <2>2. credit = num_of_allowed_cmd_packets
    BY <2>1 DEF IsAnswer
  <2>3. \/ SendCmd(credit, "LE_SET_ADV_PARAM")
        \/ num_of_allowed_cmd_packets' = credit /\ UNCHANGED <<toController, refused>>
    BY <1>9, <2>2 DEF RecvKeyReady
  <2> HIDE DEF credit
  <2> QED
    BY <1>5, <1>6, <2>3, Commands
<1>10. ASSUME RecvRequest PROVE Spends
  <2>1. evt.type = "request" /\ SendCmd(num_of_allowed_cmd_packets, Answer(evt.request))
    BY <1>10 DEF RecvRequest, Receive
  <2>2. credit = num_of_allowed_cmd_packets /\ evt.request \in Requests
    BY <1>2, <2>1, EventFields DEF IsAnswer
  <2>3. Answer(evt.request) \in Command
    BY <2>2, Commands
  <2> HIDE DEF credit
  <2> QED
    BY <1>6, <2>1, <2>2, <2>3
<1>11. ASSUME RecvConnected PROVE Spends
  <2>1. evt.type = "connected" /\ num_of_allowed_cmd_packets' = num_of_allowed_cmd_packets
        /\ UNCHANGED <<toController, refused>>
    BY <1>11 DEF RecvConnected, Receive
  <2>2. credit = num_of_allowed_cmd_packets
    BY <2>1 DEF IsAnswer
  <2> QED
    BY <1>5, <2>1, <2>2
<1>12. Spends
  BY <1>7, <1>8, <1>9, <1>10, <1>11 DEF HostReceives
<1> QED
  BY <1>1, <1>2, <1>12 DEF Spends

LEMMA NothingUnderWay ==
    <<>> \in Seq(Command) /\ <<>> \in Seq(BringUpCommand) /\ <<>> \in Seq(Event)
  OBVIOUS

LEMMA EmitType ==
    ASSUME TypeOK, NEW evt \in Event, Emit(evt)
    PROVE  /\ toHost' \in Seq(Event)
           /\ opened => Cardinality(CreditsInFlight(toHost'))
                        = Cardinality(CreditsInFlight(toHost)) + (IF CarriesCredit(evt) THEN 1 ELSE 0)
<1>1. toHost \in Seq(Event)
  BY DEF TypeOK
<1>2. Append(toHost, evt) \in Seq(Event)
  BY <1>1, AppendProperties
<1>3. Cardinality(CreditsInFlight(Append(toHost, evt)))
        = Cardinality(CreditsInFlight(toHost)) + (IF CarriesCredit(evt) THEN 1 ELSE 0)
  BY <1>1, CreditsOfAppend
<1> QED
  BY <1>1, <1>2, <1>3 DEF Emit

-----------------------------------------------------------------------------
LEMMA TypeInductive ==
    ASSUME TypeOK, [Next]_vars
    PROVE  TypeOK'
<1> USE DEF controllerVars, hostVars
<1>1. CASE Open
  <2>1. Append(toController, "RESET") \in Seq(Command)
    BY Commands, AppendProperties DEF TypeOK
  <2> QED
    BY <1>1, <2>1 DEF Open, TypeOK
<1>2. CASE Close
  BY <1>2, NothingUnderWay DEF Close, TypeOK
<1>3. ASSUME NEW b \in Button, Click(b) PROVE TypeOK'
  <2>1. PICK cmd \in Command : SendCmd(num_of_allowed_cmd_packets, cmd)
    <3>1. \/ SendCmd(num_of_allowed_cmd_packets, EnableCommand(b))
          \/ SendCmd(num_of_allowed_cmd_packets, DisableCommand(b))
      BY <1>3 DEF Click
    <3> QED
      BY <3>1, Commands
  <2>2. /\ num_of_allowed_cmd_packets' \in 0 .. 255 /\ toController' \in Seq(Command)
        /\ refused' \subseteq Command
    BY <1>3, <2>1, SendCmdSpends DEF Click, TypeOK
  <2>3. clicks' \in 0 .. MaxAsked /\ started' \subseteq Button /\ astray' \subseteq Button
    BY <1>3 DEF Click, TypeOK
  <2> QED
    BY <1>3, <2>2, <2>3 DEF Click, TypeOK
<1>4. CASE HostReceives
  <2>1. Tail(toHost) \in Seq(Event)
    BY <1>4, HostReceivesSpends, HeadTailProperties DEF TypeOK
  <2>2. /\ toHost' = Tail(toHost)
        /\ UNCHANGED <<opened, opens, started, controllerVars, clicks, requests, astray, stale>>
        /\ num_of_allowed_cmd_packets' \in 0 .. 255
        /\ toController' \in Seq(Command) /\ refused' \subseteq Command
    BY <1>4, HostReceivesSpends
  <2> QED
    BY <2>1, <2>2 DEF TypeOK
<1>5. ASSUME NEW ncmd \in Grants, NEW ok \in BOOLEAN, ControllerExecutes(ncmd, ok) PROVE TypeOK'
  <2> DEFINE cmd == Head(toController)
             evt == [type |-> IF cmd \in KeyCommand THEN "status" ELSE "complete",
                     cmd |-> cmd, ncmd |-> ncmd]
  <2>1. cmd \in Command /\ Tail(toController) \in Seq(Command)
    BY <1>5, HeadTailProperties DEF ControllerExecutes, TypeOK
  <2>2. evt \in Event /\ Emit(evt)
    BY <1>5, <2>1 DEF ControllerExecutes, Event
  <2>3. toHost' \in Seq(Event)
    <3> HIDE DEF evt
    <3> QED
      BY <2>2, EmitType
  <2>4. configured' \in Seq(BringUpCommand)
    BY <1>5, <2>1, AppendProperties DEF ControllerExecutes, TypeOK
  <2>5. enabled' \subseteq Button /\ computing' \subseteq KeyCommand
        /\ astray' \subseteq Button /\ connected' \in BOOLEAN
    BY <1>5 DEF ControllerExecutes, Controlled, ButtonOf, TypeOK
  <2>6. owed' \in BOOLEAN /\ late' \in 0 .. MaxLate
    BY <1>5 DEF ControllerExecutes, TypeOK
  <2> HIDE DEF cmd, evt
  <2>7. toController' \in Seq(Command)
    BY <1>5, <2>1 DEF ControllerExecutes
  <2> QED
    BY <1>5, <2>3, <2>4, <2>5, <2>6, <2>7 DEF ControllerExecutes, TypeOK
<1>6. CASE ControllerReturnsCredit
  <2>1. [type |-> "noOpcode", ncmd |-> 1] \in Event
    BY DEF Event
  <2>2. toHost' \in Seq(Event)
    BY <1>6, <2>1, EmitType DEF ControllerReturnsCredit
  <2> QED
    BY <1>6, <2>2 DEF ControllerReturnsCredit, TypeOK
<1>7. ASSUME NEW cmd \in KeyCommand, ControllerComputesKey(cmd) PROVE TypeOK'
  <2>1. [type |-> "keyReady", cmd |-> cmd] \in Event
    BY DEF Event
  <2>2. toHost' \in Seq(Event)
    BY <1>7, <2>1, EmitType DEF ControllerComputesKey
  <2> QED
    BY <1>7, <2>2 DEF ControllerComputesKey, TypeOK
<1>8. ASSUME NEW request \in Requests, PeerRequests(request) PROVE TypeOK'
  <2>1. [type |-> "request", request |-> request] \in Event
    BY DEF Event
  <2>2. toHost' \in Seq(Event)
    BY <1>8, <2>1, EmitType DEF PeerRequests
  <2> QED
    BY <1>8, <2>2 DEF PeerRequests, TypeOK
<1>9. CASE PeerConnects
  <2>1. [type |-> "connected"] \in Event
    BY DEF Event
  <2>2. toHost' \in Seq(Event)
    BY <1>9, <2>1, EmitType DEF PeerConnects
  <2> QED
    BY <1>9, <2>2 DEF PeerConnects, Button, TypeOK
<1>10. CASE UNCHANGED vars
  BY <1>10 DEF vars, TypeOK
<1> QED
  BY <1>1, <1>2, <1>3, <1>4, <1>5, <1>6, <1>7, <1>8, <1>9, <1>10 DEF Next, ControllerWorks

\* Whatever octets the controller's answers hold, the host's credit octet never wraps below zero
\* and only known commands and events are under way (hci_stack.num_of_allowed_cmd_packets is
\* unsigned and taken from without a check of zero other than the one in front of each send).
THEOREM TypeCorrect == Spec => []TypeOK
<1>1. Init => TypeOK
  <2>1. 0 \in 0 .. MaxAsked /\ 0 \in 0 .. MaxOpens /\ 0 \in 0 .. MaxLate /\ 0 \in 0 .. 255
    OBVIOUS
  <2> QED
    BY <2>1, NothingUnderWay DEF Init, TypeOK
<1>2. TypeOK /\ [Next]_vars => TypeOK'
  BY TypeInductive
<1> QED
  BY <1>1, <1>2, PTL DEF Spec

-----------------------------------------------------------------------------
\* What makes the ledger inductive.  An answer without a credit is always followed by its
\* credit, or the controller still owes it: so the counter such an answer is stored into was
\* zero, and nothing is lost.  A closed port holds no event, so none is there when it opens.
CreditFollows ==
    \A i \in DOMAIN toHost :
        IsAnswer(toHost[i]) /\ toHost[i].ncmd = 0 =>
            owed \/ \E j \in DOMAIN toHost : j > i /\ CarriesCredit(toHost[j])

LedgerInv ==
    /\ CreditLedger
    /\ ~opened => toHost = <<>>
    /\ opened /\ ~stale => CreditFollows

LEMMA EmitKeepsFollowing ==
    ASSUME TypeOK, opened, CreditFollows, NEW evt \in Event, Emit(evt),
           IsAnswer(evt) => evt.ncmd = 1 \/ owed',
           owed => owed' \/ CarriesCredit(evt)
    PROVE  CreditFollows'
<1> DEFINE n == Len(toHost) + 1
<1>1. /\ n \in Nat /\ DOMAIN toHost = 1 .. n - 1 /\ DOMAIN toHost' = 1 .. n
      /\ toHost'[n] = evt /\ \A i \in 1 .. n - 1 : toHost'[i] = toHost[i]
  <2>1. toHost \in Seq(Event) /\ toHost' = Append(toHost, evt)
    BY DEF TypeOK, Emit
  <2> QED
    BY <2>1, AppendProperties
<1> HIDE DEF n
<1>2. SUFFICES ASSUME NEW i \in 1 .. n, IsAnswer(toHost'[i]), toHost'[i].ncmd = 0, ~owed'
               PROVE  \E j \in 1 .. n : j > i /\ CarriesCredit(toHost'[j])
  BY <1>1 DEF CreditFollows, IsAnswer, CarriesCredit
<1>3. i # n
  BY <1>1, <1>2
<1>4. i \in 1 .. n - 1 /\ toHost'[i] = toHost[i]
  BY <1>1, <1>3
<1>5. owed \/ \E j \in 1 .. n - 1 : j > i /\ CarriesCredit(toHost[j])
  BY <1>1, <1>2, <1>4 DEF CreditFollows
<1>6. CASE owed
  BY <1>1, <1>2, <1>4, <1>6
<1>7. CASE \E j \in 1 .. n - 1 : j > i /\ CarriesCredit(toHost[j])
  <2>1. PICK j \in 1 .. n - 1 : j > i /\ CarriesCredit(toHost[j])
    BY <1>7
  <2>2. j \in 1 .. n /\ CarriesCredit(toHost'[j])
    BY <1>1, <2>1
  <2> QED
    BY <2>1, <2>2
<1> QED
  BY <1>5, <1>6, <1>7

\* While the port is open, an event handled is either no answer, an answer with the credit, or
\* one whose credit is still to come: in each case the counter has room.
LEMMA HostReceivesKeepsLedger ==
    ASSUME OneCommandBuffer, TypeOK, LedgerInv, HostReceives
    PROVE  LedgerInv'
<1> DEFINE evt == Head(toHost)
           inFlight == Cardinality(CreditsInFlight(toHost))
           debt == IF owed THEN 1 ELSE 0
<1>1. /\ toHost # <<>> /\ evt \in Event /\ toHost' = Tail(toHost) /\ toHost \in Seq(Event)
      /\ UNCHANGED <<opened, owed, stale>>
      /\ num_of_allowed_cmd_packets \in 0 .. 255 /\ num_of_allowed_cmd_packets' \in 0 .. 255
      /\ toController \in Seq(Command) /\ toController' \in Seq(Command)
  BY HostReceivesSpends DEF TypeOK, controllerVars
<1>2. opened
  BY <1>1 DEF LedgerInv
<1>3. SUFFICES ASSUME ~stale
               PROVE  CreditLedger' /\ CreditFollows'
  BY <1>1, <1>2 DEF LedgerInv, CreditLedger
<1>4. num_of_allowed_cmd_packets' + Len(toController')
         = (IF IsAnswer(evt) THEN evt.ncmd ELSE num_of_allowed_cmd_packets) + Len(toController)
  BY <1>2, HostReceivesSpends
<1>5. /\ Cardinality(CreditsInFlight(toHost')) = inFlight - (IF CarriesCredit(evt) THEN 1 ELSE 0)
      /\ inFlight \in Nat /\ Len(toController) \in Nat /\ Len(toController') \in Nat
  BY <1>1, CreditsOfTail, CreditsFinite
<1>6. num_of_allowed_cmd_packets + Len(toController) + inFlight + debt = 1
  BY <1>2, <1>3 DEF LedgerInv, CreditLedger
<1>7. DOMAIN toHost = 1 .. Len(toHost) /\ Len(toHost) \in Nat \ {0} /\ evt = toHost[1]
  BY <1>1
<1>8. \A j \in DOMAIN toHost : CarriesCredit(toHost[j]) => inFlight > 0
  <2>1. \A j \in DOMAIN toHost : CarriesCredit(toHost[j]) => CreditsInFlight(toHost) # {}
    BY DEF CreditsInFlight
  <2> QED
    BY <1>1, <1>5, <2>1, CreditsFinite, FS_EmptySet
<1>9. IsAnswer(evt) => evt.ncmd \in {0, 1} /\ (CarriesCredit(evt) <=> evt.ncmd = 1)
  BY <1>1, EventFields DEF IsAnswer, CarriesCredit
<1>10. IsAnswer(evt) => num_of_allowed_cmd_packets = 0
  <2>0. debt \in {0, 1} /\ num_of_allowed_cmd_packets \in Nat
    BY <1>1
  <2>1. CASE IsAnswer(evt) /\ evt.ncmd = 1
    <3>1. inFlight > 0
      BY <1>7, <1>8, <1>9, <2>1
    <3> HIDE DEF inFlight, debt
    <3> QED
      BY <1>5, <1>6, <2>0, <3>1
  <2>2. CASE IsAnswer(evt) /\ evt.ncmd = 0
    <3>1. owed \/ \E j \in DOMAIN toHost : j > 1 /\ CarriesCredit(toHost[j])
      BY <1>2, <1>3, <1>7, <2>2 DEF LedgerInv, CreditFollows
    <3>2. debt = 1 \/ inFlight > 0
      BY <1>8, <3>1
    <3> HIDE DEF inFlight, debt
    <3> QED
      BY <1>5, <1>6, <2>0, <3>2
  <2> QED
    BY <1>9, <2>1, <2>2
<1>11. CreditLedger'
  <2>1. ~IsAnswer(evt) => ~CarriesCredit(evt)
    BY DEF IsAnswer, CarriesCredit
  <2>2. debt \in {0, 1} /\ debt = IF owed' THEN 1 ELSE 0
    BY <1>1
  <2>3. num_of_allowed_cmd_packets' + Len(toController') + Cardinality(CreditsInFlight(toHost')) + debt = 1
    <3> HIDE DEF inFlight, debt, evt
    <3>1. CASE IsAnswer(evt)
      BY <1>1, <1>4, <1>5, <1>6, <1>9, <1>10, <2>2, <3>1
    <3>2. CASE ~IsAnswer(evt)
      BY <1>1, <1>4, <1>5, <1>6, <2>1, <2>2, <3>2
    <3> QED
      BY <3>1, <3>2
  <2> QED
    BY <2>2, <2>3 DEF CreditLedger
<1>12. CreditFollows'
  <2>1. /\ DOMAIN toHost' = 1 .. Len(toHost) - 1
        /\ \A i \in 1 .. Len(toHost) - 1 : toHost'[i] = toHost[i + 1]
    BY <1>1, <1>7, HeadTailProperties
  <2>2. SUFFICES ASSUME NEW i \in 1 .. Len(toHost) - 1,
                        IsAnswer(toHost'[i]), toHost'[i].ncmd = 0, ~owed
                 PROVE  \E j \in 1 .. Len(toHost) - 1 : j > i /\ CarriesCredit(toHost'[j])
    BY <1>1, <2>1 DEF CreditFollows, IsAnswer, CarriesCredit
  <2>3. i + 1 \in DOMAIN toHost /\ toHost'[i] = toHost[i + 1]
    BY <1>7, <2>1
  <2>4. PICK j \in DOMAIN toHost : j > i + 1 /\ CarriesCredit(toHost[j])
    BY <1>2, <1>3, <2>2, <2>3 DEF LedgerInv, CreditFollows
  <2>5. j - 1 \in 1 .. Len(toHost) - 1 /\ j - 1 > i /\ (j - 1) + 1 = j
    BY <1>7, <2>4
  <2>6. toHost'[j - 1] = toHost[j]
    BY <2>1, <2>5
  <2> QED
    BY <2>4, <2>5, <2>6
<1> QED
  BY <1>11, <1>12

Debt == IF owed THEN 1 ELSE 0
Worth(evt) == IF CarriesCredit(evt) THEN 1 ELSE 0

\* What the controller sends and takes keeps the ledger when the credit it gives is the one it
\* took or owed.
LEMMA EmitKeepsLedger ==
    ASSUME TypeOK, LedgerInv, NEW evt \in Event, Emit(evt),
           UNCHANGED <<opened, stale, num_of_allowed_cmd_packets>>,
           toController' \in Seq(Command),
           Len(toController') + Debt' + Worth(evt) = Len(toController) + Debt,
           IsAnswer(evt) => evt.ncmd = 1 \/ owed',
           owed => owed' \/ CarriesCredit(evt)
    PROVE  LedgerInv'
<1>1. CASE ~opened
  BY <1>1 DEF Emit, LedgerInv, CreditLedger
<1>2. CASE opened /\ stale
  BY <1>2 DEF LedgerInv, CreditLedger
<1>3. CASE opened /\ ~stale
  <2> DEFINE inFlight == Cardinality(CreditsInFlight(toHost))
  <2>1. CreditFollows'
    BY <1>3, EmitKeepsFollowing DEF LedgerInv
  <2>2. Cardinality(CreditsInFlight(toHost')) = inFlight + Worth(evt)
    BY <1>3, EmitType DEF Worth
  <2>3. num_of_allowed_cmd_packets + Len(toController) + inFlight + Debt = 1
    BY <1>3 DEF LedgerInv, CreditLedger, Debt
  <2>4. /\ inFlight \in Nat /\ num_of_allowed_cmd_packets \in Nat
        /\ Len(toController) \in Nat /\ Len(toController') \in Nat
    BY CreditsFinite DEF TypeOK
  <2>5. Debt \in Nat /\ Debt' \in Nat /\ Worth(evt) \in Nat
    BY DEF Debt, Worth
  <2>6. num_of_allowed_cmd_packets' + Len(toController') + (inFlight + Worth(evt)) + Debt' = 1
    <3> HIDE DEF inFlight
    <3> QED
      BY <2>3, <2>4, <2>5
  <2> QED
    BY <1>3, <2>1, <2>2, <2>6 DEF LedgerInv, CreditLedger, Debt
<1> QED
  BY <1>1, <1>2, <1>3

LEMMA LedgerInductive ==
    ASSUME OneCommandBuffer, TypeOK, LedgerInv, [Next]_vars
    PROVE  LedgerInv'
<1>0. /\ Len(toController) \in Nat /\ toHost \in Seq(Event)
      /\ toController \in Seq(Command) /\ num_of_allowed_cmd_packets \in 0 .. 255
  BY DEF TypeOK
<1>1. CASE Open
  <2>1. toHost = <<>> /\ toHost' = <<>> /\ owed' = owed /\ num_of_allowed_cmd_packets' = 0 /\ opened'
    BY <1>1 DEF Open, LedgerInv
  <2>2. SUFFICES ASSUME ~stale' PROVE CreditLedger' /\ CreditFollows'
    BY <2>1 DEF LedgerInv, CreditLedger
  <2>3. toController' = Append(<<>>, "RESET") /\ ~owed'
    <3>1. stale' = (toController # <<>> \/ computing # {} \/ owed)
      BY <1>1 DEF Open
    <3>2. toController = <<>> /\ ~owed
      BY <2>2, <3>1, Zenon
    <3> QED
      BY <1>1, <2>1, <3>2 DEF Open
  <2>4. Len(toController') = 1
    BY <2>3
  <2>5. CreditsInFlight(toHost') = {}
    BY <2>1 DEF CreditsInFlight
  <2>6. Cardinality(CreditsInFlight(toHost')) = 0
    BY <2>5, FS_EmptySet
  <2> QED
    BY <2>1, <2>3, <2>4, <2>6 DEF CreditLedger, CreditFollows
<1>2. CASE Close
  BY <1>2 DEF Close, LedgerInv, CreditLedger
<1>3. ASSUME NEW b \in Button, Click(b) PROVE LedgerInv'
  <2>1. UNCHANGED <<opened, toHost, owed, stale>>
    BY <1>3 DEF Click, controllerVars
  <2>2. PICK cmd \in Command : SendCmd(num_of_allowed_cmd_packets, cmd)
    <3>1. \/ SendCmd(num_of_allowed_cmd_packets, EnableCommand(b))
          \/ SendCmd(num_of_allowed_cmd_packets, DisableCommand(b))
      BY <1>3 DEF Click
    <3> QED
      BY <3>1, Commands
  <2>3. opened => num_of_allowed_cmd_packets' + Len(toController')
                  = num_of_allowed_cmd_packets + Len(toController)
    BY <1>0, <2>1, <2>2, SendCmdSpends
  <2> QED
    BY <2>1, <2>3 DEF LedgerInv, CreditLedger, CreditFollows
<1>4. CASE HostReceives
  BY <1>4, HostReceivesKeepsLedger
<1>5. ASSUME NEW ncmd \in Grants, NEW ok \in BOOLEAN, ControllerExecutes(ncmd, ok) PROVE LedgerInv'
  <2> DEFINE cmd == Head(toController)
             evt == [type |-> IF cmd \in KeyCommand THEN "status" ELSE "complete",
                     cmd |-> cmd, ncmd |-> ncmd]
  <2>1. /\ toController # <<>> /\ ~owed /\ (owed' <=> ncmd = 0) /\ toController' = Tail(toController)
        /\ Emit(evt) /\ UNCHANGED <<opened, stale, num_of_allowed_cmd_packets>>
    BY <1>5 DEF ControllerExecutes, hostVars
  <2>2. cmd \in Command /\ toController' \in Seq(Command) /\ Len(toController') = Len(toController) - 1
    BY <1>0, <2>1, HeadTailProperties
  <2>3. evt \in Event
    BY <2>2 DEF Event
  <2>4. IsAnswer(evt) /\ (CarriesCredit(evt) <=> ncmd = 1) /\ evt.ncmd = ncmd /\ ncmd \in {0, 1}
    BY DEF IsAnswer, CarriesCredit, OneCommandBuffer
  <2> HIDE DEF evt, cmd
  <2>5. Len(toController') + Debt' + Worth(evt) = Len(toController) + Debt
    <3>1. Debt = 0
      BY <2>1 DEF Debt
    <3>2. CASE ncmd = 0
      <4>1. Debt' = 1 /\ Worth(evt) = 0
        BY <2>1, <2>4, <3>2 DEF Debt, Worth
      <4> QED
        BY <1>0, <2>2, <3>1, <4>1
    <3>3. CASE ncmd = 1
      <4>1. Debt' = 0 /\ Worth(evt) = 1
        BY <2>1, <2>4, <3>3 DEF Debt, Worth
      <4> QED
        BY <1>0, <2>2, <3>1, <4>1
    <3> QED
      BY <2>4, <3>2, <3>3
  <2> QED
    BY <2>1, <2>2, <2>3, <2>4, <2>5, EmitKeepsLedger
<1>6. CASE ControllerReturnsCredit
  <2> DEFINE evt == [type |-> "noOpcode", ncmd |-> 1]
  <2>1. evt \in Event /\ CarriesCredit(evt) /\ evt.ncmd = 1
    BY DEF Event, CarriesCredit
  <2>2. /\ Emit(evt) /\ owed /\ ~owed'
        /\ UNCHANGED <<opened, stale, num_of_allowed_cmd_packets, toController>>
    BY <1>6 DEF ControllerReturnsCredit, hostVars
  <2> HIDE DEF evt
  <2>3. Len(toController') + Debt' + Worth(evt) = Len(toController) + Debt
    BY <1>0, <2>1, <2>2 DEF Debt, Worth
  <2> QED
    BY <1>0, <2>1, <2>2, <2>3, EmitKeepsLedger
<1>7. ASSUME NEW cmd \in KeyCommand, ControllerComputesKey(cmd) PROVE LedgerInv'
  <2> DEFINE evt == [type |-> "keyReady", cmd |-> cmd]
  <2>1. evt \in Event /\ ~CarriesCredit(evt) /\ ~IsAnswer(evt)
    BY DEF Event, CarriesCredit, IsAnswer
  <2>2. Emit(evt) /\ UNCHANGED <<opened, stale, num_of_allowed_cmd_packets, toController, owed>>
    BY <1>7 DEF ControllerComputesKey, hostVars
  <2> HIDE DEF evt
  <2>3. Len(toController') + Debt' + Worth(evt) = Len(toController) + Debt
    BY <1>0, <2>1, <2>2 DEF Debt, Worth
  <2> QED
    BY <1>0, <2>1, <2>2, <2>3, EmitKeepsLedger
<1>8. ASSUME NEW request \in Requests, PeerRequests(request) PROVE LedgerInv'
  <2> DEFINE evt == [type |-> "request", request |-> request]
  <2>1. evt \in Event /\ ~CarriesCredit(evt) /\ ~IsAnswer(evt)
    BY DEF Event, CarriesCredit, IsAnswer
  <2>2. Emit(evt) /\ UNCHANGED <<opened, stale, num_of_allowed_cmd_packets, toController, owed>>
    BY <1>8 DEF PeerRequests, hostVars, controllerVars
  <2> HIDE DEF evt
  <2>3. Len(toController') + Debt' + Worth(evt) = Len(toController) + Debt
    BY <1>0, <2>1, <2>2 DEF Debt, Worth
  <2> QED
    BY <1>0, <2>1, <2>2, <2>3, EmitKeepsLedger
<1>9. CASE PeerConnects
  <2> DEFINE evt == [type |-> "connected"]
  <2>1. evt \in Event /\ ~CarriesCredit(evt) /\ ~IsAnswer(evt)
    BY DEF Event, CarriesCredit, IsAnswer
  <2>2. Emit(evt) /\ UNCHANGED <<opened, stale, num_of_allowed_cmd_packets, toController, owed>>
    BY <1>9 DEF PeerConnects, hostVars
  <2> HIDE DEF evt
  <2>3. Len(toController') + Debt' + Worth(evt) = Len(toController) + Debt
    BY <1>0, <2>1, <2>2 DEF Debt, Worth
  <2> QED
    BY <1>0, <2>1, <2>2, <2>3, EmitKeepsLedger
<1>10. CASE UNCHANGED vars
  BY <1>10 DEF vars, LedgerInv, CreditLedger, CreditFollows
<1> QED
  BY <1>1, <1>2, <1>3, <1>4, <1>5, <1>6, <1>7, <1>8, <1>9, <1>10 DEF Next, ControllerWorks

\* The credit of the command channel is never lost and never doubled: it is with the host, in a
\* command under way, owed by the controller or in an answer under way, in exactly one of them,
\* whatever the chain of hci.cpp, the buttons and the peers' requests send in whatever order.
THEOREM CreditAccounted ==
    ASSUME OneCommandBuffer
    PROVE  Spec => []CreditLedger
<1>1. Init => LedgerInv
  BY DEF Init, LedgerInv, CreditLedger
<1>2. TypeOK /\ LedgerInv /\ [Next]_vars => LedgerInv'
  BY LedgerInductive
<1>3. LedgerInv => CreditLedger
  BY DEF LedgerInv
<1> QED
  BY <1>1, <1>2, <1>3, TypeCorrect, PTL DEF Spec

-----------------------------------------------------------------------------
(* The chain of commands.                                                   *)
P256 == "LE_READ_LOCAL_P256_PUBLIC_KEY"

\* An event whose handler sends the next command of the chain, and the step it stands at.
GoesOn(evt) == \/ evt.type = "complete" /\ evt.cmd \in DOMAIN Successor
               \/ evt.type = "keyReady" /\ evt.cmd = P256

\* The chain is at one place: in a command, in the controller's computation or in an event.
InCommand == \E i \in DOMAIN toController : toController[i] \in BringUpCommand
InEvent   == \E i \in DOMAIN toHost : GoesOn(toHost[i])
InKey     == P256 \in computing

AtOnePlace ==
    /\ Len(toController) <= 1
    /\ InCommand => ~InEvent /\ ~InKey
    /\ InKey => ~InEvent
    /\ \A i, j \in DOMAIN toHost : GoesOn(toHost[i]) /\ GoesOn(toHost[j]) => i = j

\* What is there follows what was executed last.
FollowsLast ==
    LET k == Len(configured) IN
    /\ \A i \in DOMAIN toController :
          toController[i] \in BringUpCommand => k < 14 /\ toController[i] = BringUp[k + 1]
    /\ InKey => k = 11
    /\ \A i \in DOMAIN toHost :
          GoesOn(toHost[i]) => k \in 1 .. 14 /\ toHost[i].cmd = BringUp[k]

\* Answers to the commands whose successor is no command.
Answers ==
    /\ \A i \in DOMAIN toHost :
          toHost[i].type = "complete" => /\ toHost[i].cmd \notin KeyCommand
                                         /\ toHost[i].cmd = "LE_SET_SCAN_PARAM" => Len(configured) = 14
    /\ \A i \in DOMAIN toHost : toHost[i].type = "status" => toHost[i].cmd \in KeyCommand
    /\ \A i, j \in DOMAIN toHost :
          /\ toHost[i].type = "keyReady" /\ toHost[i].cmd = P256
          /\ toHost[j].type = "status" /\ toHost[j].cmd = P256
          => j < i

Chain == ~stale => /\ Len(configured) <= 14
                   /\ \A i \in 1 .. Len(configured) : configured[i] = BringUp[i]
                   /\ AtOnePlace /\ FollowsLast /\ Answers

\* Without clicks nothing but the chain is under way.
OnlyChain ==
    clicks = 0 =>
        /\ enabled = {} /\ ~connected
        /\ \A i \in DOMAIN toController : toController[i] \in BringUpCommand
        /\ computing \subseteq {P256}
        /\ \A i \in DOMAIN toHost :
              /\ toHost[i].type # "request"
              /\ toHost[i].type \in {"complete", "status", "keyReady"} =>
                    toHost[i].cmd \in BringUpCommand

\* Without late credits every answer brings one.
NothingLate ==
    late = 0 => /\ ~owed
                /\ \A i \in DOMAIN toHost : /\ toHost[i].type # "noOpcode"
                                            /\ IsAnswer(toHost[i]) => toHost[i].ncmd > 0

\* The chain is under way, over, or ended in the window of the P-256 command.
GoesOnOrWindow ==
    opened /\ ~stale /\ late = 0 =>
        \/ InCommand \/ InEvent \/ InKey \/ Len(configured) = 14
        \/ Len(configured) = 11 /\ "LE_SET_ADV_PARAM" \in refused /\ clicks > 0

\* Buttons whose last command went its way show what the controller will do.
Obeyed ==
    /\ opens = 0 => /\ ~opened /\ ~owed /\ num_of_allowed_cmd_packets = 0
                    /\ toController = <<>> /\ computing = {} /\ enabled = {}
                    /\ started \subseteq astray
    /\ opened /\ opens = 1 =>
          /\ ~stale
          /\ \A b \in Button \ astray :
                b \in started <=> b \in IF toController = <<>> THEN enabled
                                        ELSE Controlled(Head(toController))

LEMMA Steps ==
    /\ BringUp[1] = "RESET" /\ BringUp[11] = P256 /\ BringUp[12] = "LE_SET_ADV_PARAM"
    /\ \A k \in 1 .. 14 :
          /\ BringUp[k] \in BringUpCommand
          /\ BringUp[k] \in DOMAIN Successor =>
                k < 14 /\ k # 11 /\ Successor[BringUp[k]] = BringUp[k + 1]
          /\ BringUp[k] = P256 => k = 11
          /\ BringUp[k] = "LE_SET_SCAN_PARAM" => k = 14
          /\ BringUp[k] = "RESET" => k = 1
<1>1. DOMAIN Successor =
        {"RESET", "READ_LOCAL_VERSION_INFO", "READ_LOCAL_SUPPORTED_COMMANDS", "READ_BD_ADDR",
         "WRITE_CLASS_OF_DEVICE", "SET_EVENT_MASK", "WRITE_LE_HOST_SUPPORT",
         "LE_READ_BUFFER_SIZE", "LE_SET_RANDOM_ADDR", "LE_SET_EVENT_MASK", "LE_SET_ADV_PARAM",
         "LE_SET_ADV_DATA"}
  BY DEF Successor
<1> DEFINE Step(k) ==
        /\ BringUp[k] \in DOMAIN Successor =>
              k < 14 /\ k # 11 /\ Successor[BringUp[k]] = BringUp[k + 1]
        /\ BringUp[k] \in DOMAIN Successor \cup {P256, "LE_SET_SCAN_PARAM"}
        /\ BringUp[k] = P256 => k = 11
        /\ BringUp[k] = "LE_SET_SCAN_PARAM" => k = 14
        /\ BringUp[k] = "RESET" => k = 1
<1>2. Step(1) /\ Step(2) /\ Step(3) /\ Step(4) /\ Step(5) /\ Step(6) /\ Step(7)
  BY DEF BringUp, Successor, P256
<1>3. Step(8) /\ Step(9) /\ Step(10) /\ Step(12) /\ Step(13)
  BY DEF BringUp, Successor, P256
<1>4. Step(11) /\ Step(14)
  BY <1>1 DEF BringUp, P256
<1> HIDE DEF Step
<1>5. \A k \in 1 .. 14 : Step(k)
  <2> TAKE k \in 1 .. 14
  <2>1. k \in {1, 2, 3, 4, 5, 6, 7, 8, 9, 10, 11, 12, 13, 14}
    OBVIOUS
  <2> QED
    BY <1>2, <1>3, <1>4, <2>1
<1>6. BringUp[1] = "RESET" /\ BringUp[11] = P256 /\ BringUp[12] = "LE_SET_ADV_PARAM"
  BY DEF BringUp, P256
<1> QED
  BY <1>5, <1>6 DEF Step, BringUpCommand, P256

\* The buttons' commands and the answers to peers are not of the chain.
LEMMA OtherCommands ==
    /\ \A r \in Requests : Answer(r) \notin BringUpCommand \cup UserCommand
    /\ \A b \in Button : /\ EnableCommand(b) \notin BringUpCommand
                         /\ DisableCommand(b) \notin BringUpCommand
                         /\ EnableCommand(b) \in UserCommand /\ DisableCommand(b) \in UserCommand
    /\ \A c \in BringUpCommand : c \notin UserCommand
    /\ "LE_GENERATE_DHKEY" \notin BringUpCommand
    /\ \A c \in BringUpCommand :
          c \in DOMAIN Successor \/ c = P256 \/ c = "LE_SET_SCAN_PARAM"
    /\ P256 \notin DOMAIN Successor /\ P256 \in BringUpCommand
<1>1. DOMAIN Successor =
        {"RESET", "READ_LOCAL_VERSION_INFO", "READ_LOCAL_SUPPORTED_COMMANDS", "READ_BD_ADDR",
         "WRITE_CLASS_OF_DEVICE", "SET_EVENT_MASK", "WRITE_LE_HOST_SUPPORT",
         "LE_READ_BUFFER_SIZE", "LE_SET_RANDOM_ADDR", "LE_SET_EVENT_MASK", "LE_SET_ADV_PARAM",
         "LE_SET_ADV_DATA"}
  BY DEF Successor
<1>2. BringUpCommand = DOMAIN Successor \cup {P256, "LE_SET_SCAN_PARAM"}
  BY DEF BringUpCommand, P256
<1>3. UserCommand = {"LE_SET_ADV_ENABLE", "LE_SET_SCAN_ENABLE", "LE_SET_ADV_DISABLE",
                     "LE_SET_SCAN_DISABLE"}
  BY DEF UserCommand, EnableCommand, DisableCommand, Button
<1>4. \A r \in Requests : Answer(r) \in {"LE_REMOTE_CONN_PARAM_REQ_REPLY", "LE_LTK_REQ_REPLY",
                                         "LE_LTK_REQ_NEG_REPLY", "LE_GENERATE_DHKEY"}
  BY RequestsAssumption DEF Answer
<1>5. \A b \in Button : EnableCommand(b) \in UserCommand /\ DisableCommand(b) \in UserCommand
  BY DEF UserCommand
<1>6. \A r \in Requests : Answer(r) \notin BringUpCommand \cup UserCommand
  BY <1>1, <1>2, <1>3, <1>4 DEF P256
<1>7. \A c \in BringUpCommand : c \notin UserCommand
  BY <1>1, <1>2, <1>3 DEF P256
<1>8. "LE_GENERATE_DHKEY" \notin BringUpCommand /\ P256 \notin DOMAIN Successor
  BY <1>1, <1>2 DEF P256
<1> QED
  BY <1>2, <1>5, <1>6, <1>7, <1>8

\* What a button's command does to what the controller does.
Effect(on, cmd) ==
    CASE cmd = "RESET" -> {}
      [] cmd \in {EnableCommand(b) : b \in Button} ->
            on \cup {b \in Button : EnableCommand(b) = cmd}
      [] cmd \in {DisableCommand(b) : b \in Button} ->
            on \ {b \in Button : DisableCommand(b) = cmd}
      [] OTHER -> on

LEMMA Effects ==
    ASSUME NEW on
    PROVE  /\ Effect(on, "RESET") = {}
           /\ \A b \in Button : /\ Effect(on, EnableCommand(b)) = on \cup {b}
                                /\ Effect(on, DisableCommand(b)) = on \ {b}
           /\ \A c : c # "RESET" /\ c \notin UserCommand => Effect(on, c) = on
<1> DEFINE Enabling == {EnableCommand(b) : b \in Button}
           Disabling == {DisableCommand(b) : b \in Button}
<1>1. /\ Enabling = {"LE_SET_ADV_ENABLE", "LE_SET_SCAN_ENABLE"}
      /\ Disabling = {"LE_SET_ADV_DISABLE", "LE_SET_SCAN_DISABLE"}
  BY DEF EnableCommand, DisableCommand, Button
<1>2. \A c : Effect(on, c) =
         CASE c = "RESET" -> {}
           [] c \in Enabling -> on \cup {b \in Button : EnableCommand(b) = c}
           [] c \in Disabling -> on \ {b \in Button : DisableCommand(b) = c}
           [] OTHER -> on
  BY DEF Effect
<1> HIDE DEF Enabling, Disabling
<1>3. /\ Effect(on, "RESET") = {}
      /\ \A c \in Enabling : Effect(on, c) = on \cup {b \in Button : EnableCommand(b) = c}
      /\ \A c \in Disabling : Effect(on, c) = on \ {b \in Button : DisableCommand(b) = c}
      /\ \A c : c # "RESET" /\ c \notin Enabling \cup Disabling => Effect(on, c) = on
  BY <1>1, <1>2
<1>4. ASSUME NEW b \in Button
      PROVE  /\ {c \in Button : EnableCommand(c) = EnableCommand(b)} = {b}
             /\ {c \in Button : DisableCommand(c) = DisableCommand(b)} = {b}
  BY DEF EnableCommand, DisableCommand, Button
<1>5. \A b \in Button : EnableCommand(b) \in Enabling /\ DisableCommand(b) \in Disabling
  BY DEF Enabling, Disabling
<1>6. UserCommand = Enabling \cup Disabling
  BY DEF UserCommand, Enabling, Disabling
<1> QED
  BY <1>3, <1>4, <1>5, <1>6

-----------------------------------------------------------------------------
(* What a step does to the commands and events under way, one by one. *)

LEMMA OneCommand ==
    ASSUME TypeOK, LedgerInv, opened, ~stale
    PROVE  Len(toController) <= 1
<1>1. /\ num_of_allowed_cmd_packets \in Nat /\ Len(toController) \in Nat
      /\ Cardinality(CreditsInFlight(toHost)) \in Nat /\ (IF owed THEN 1 ELSE 0) \in Nat
  BY CreditsFinite DEF TypeOK
<1>2. num_of_allowed_cmd_packets + Len(toController) + Cardinality(CreditsInFlight(toHost))
        + (IF owed THEN 1 ELSE 0) = 1
  BY DEF LedgerInv, CreditLedger
<1> QED
  BY <1>1, <1>2

LEMMA OneCommandNext ==
    ASSUME TypeOK', LedgerInv', opened', ~stale'
    PROVE  Len(toController') <= 1
<1>1. /\ num_of_allowed_cmd_packets' \in Nat /\ Len(toController') \in Nat
      /\ Cardinality(CreditsInFlight(toHost')) \in Nat /\ (IF owed' THEN 1 ELSE 0) \in Nat
  BY CreditsFinite DEF TypeOK
<1>2. num_of_allowed_cmd_packets' + Len(toController') + Cardinality(CreditsInFlight(toHost'))
        + (IF owed' THEN 1 ELSE 0) = 1
  BY DEF LedgerInv, CreditLedger
<1> QED
  BY <1>1, <1>2

LEMMA EventsCome ==
    ASSUME TypeOK, LedgerInv, NEW evt \in Event, Emit(evt)
    PROVE  \/ ~opened /\ DOMAIN toHost' = {}
           \/ /\ opened
              /\ \A i \in DOMAIN toHost : i \in DOMAIN toHost' /\ toHost'[i] = toHost[i]
                                          /\ i \in Nat /\ i < Len(toHost) + 1
              /\ \A i \in DOMAIN toHost' : \/ i \in DOMAIN toHost /\ toHost'[i] = toHost[i]
                                           \/ i = Len(toHost) + 1 /\ toHost'[i] = evt
              /\ Len(toHost) + 1 \in DOMAIN toHost' /\ toHost'[Len(toHost) + 1] = evt
<1>1. toHost \in Seq(Event) /\ Len(toHost) \in Nat /\ DOMAIN toHost = 1 .. Len(toHost)
  BY DEF TypeOK
<1>2. CASE opened
  <2>1. toHost' = Append(toHost, evt)
    BY <1>2 DEF Emit
  <2>2. /\ DOMAIN toHost' = 1 .. Len(toHost) + 1 /\ toHost'[Len(toHost) + 1] = evt
        /\ \A i \in 1 .. Len(toHost) : toHost'[i] = toHost[i]
    BY <1>1, <2>1, AppendProperties
  <2> QED
    BY <1>1, <1>2, <2>2
<1>3. CASE ~opened
  <2>1. toHost' = <<>>
    BY <1>3 DEF Emit, LedgerInv
  <2> QED
    BY <1>3, <2>1
<1> QED
  BY <1>2, <1>3

LEMMA EventGoes ==
    ASSUME TypeOK, LedgerInv, HostReceives
    PROVE  /\ opened /\ opened' /\ toHost[1] \in Event /\ Head(toHost) = toHost[1]
           /\ UNCHANGED <<opens, started, controllerVars, clicks, requests, astray, stale>>
           /\ 1 \in DOMAIN toHost
           /\ \A i \in DOMAIN toHost' : /\ i + 1 \in DOMAIN toHost /\ toHost'[i] = toHost[i + 1]
                                        /\ i \in Nat \ {0}
           /\ \A j \in DOMAIN toHost :
                 j = 1 \/ (j - 1 \in DOMAIN toHost' /\ toHost'[j - 1] = toHost[j])
<1>1. /\ toHost # <<>> /\ toHost \in Seq(Event) /\ toHost' = Tail(toHost) /\ Head(toHost) \in Event
      /\ UNCHANGED <<opened, opens, started, controllerVars, clicks, requests, astray, stale>>
  BY HostReceivesSpends DEF TypeOK
<1>2. /\ Len(toHost) \in Nat \ {0} /\ DOMAIN toHost = 1 .. Len(toHost)
      /\ DOMAIN toHost' = 1 .. Len(toHost) - 1
      /\ Head(toHost) = toHost[1] /\ \A i \in DOMAIN toHost' : toHost'[i] = toHost[i + 1]
  BY <1>1, HeadTailProperties
<1>3. \A j \in 2 .. Len(toHost) : j - 1 \in DOMAIN toHost' /\ toHost'[j - 1] = toHost[j]
  <2> TAKE j \in 2 .. Len(toHost)
  <2>1. j - 1 \in DOMAIN toHost' /\ (j - 1) + 1 = j
    BY <1>2
  <2>2. toHost'[j - 1] = toHost[(j - 1) + 1]
    BY <1>2, <2>1
  <2> QED
    BY <2>1, <2>2
<1>4. opened
  BY <1>1 DEF LedgerInv
<1> QED
  BY <1>1, <1>2, <1>3, <1>4

\* A command sent while the port is open goes under way with the credit, or is dropped.
LEMMA Sends ==
    ASSUME TypeOK, opened', NEW credit \in 0 .. 255, NEW cmd, SendCmd(credit, cmd)
    PROVE  \/ credit > 0 /\ toController' = Append(toController, cmd) /\ refused' = refused
           \/ credit = 0 /\ toController' = toController /\ refused' = refused \cup {cmd}
BY DEF SendCmd, serial_write

\* Whatever was under way stays under way when a command joins it.
LEMMA CommandsJoin ==
    ASSUME TypeOK, NEW cmd \in Command, toController' = Append(toController, cmd)
    PROVE  /\ \A i \in DOMAIN toController : i \in DOMAIN toController' /\ toController'[i] = toController[i]
           /\ \A i \in DOMAIN toController' : \/ i \in DOMAIN toController /\ toController'[i] = toController[i]
                                              \/ i = Len(toController) + 1 /\ toController'[i] = cmd
           /\ Len(toController) + 1 \in DOMAIN toController'
           /\ toController'[Len(toController) + 1] = cmd
           /\ Len(toController') = Len(toController) + 1
           /\ Len(toController') <= 1 => toController = <<>> /\ toController' = <<cmd>>
<1>1. toController \in Seq(Command) /\ Len(toController) \in Nat /\ DOMAIN toController = 1 .. Len(toController)
  BY DEF TypeOK
<1>2. /\ DOMAIN toController' = 1 .. Len(toController) + 1
      /\ toController'[Len(toController) + 1] = cmd /\ Len(toController') = Len(toController) + 1
      /\ \A i \in 1 .. Len(toController) : toController'[i] = toController[i]
  BY <1>1, AppendProperties
<1>3. ASSUME Len(toController') <= 1 PROVE toController = <<>> /\ toController' = <<cmd>>
  <2>1. Len(toController) = 0
    BY <1>1, <1>2, <1>3
  <2>2. toController = <<>>
    BY <1>1, <2>1
  <2> QED
    BY <2>2
<1> QED
  BY <1>1, <1>2, <1>3

\* What the host sends on an event: the next command of the chain, an answer, or nothing.
LEMMA HostSends ==
    ASSUME TypeOK, LedgerInv, HostReceives
    PROVE  LET evt == toHost[1]
               num == num_of_allowed_cmd_packets IN
           \/ /\ GoesOn(evt) /\ evt.type = "complete"
              /\ Successor[evt.cmd] \in BringUpCommand \ {"RESET"}
              /\ SendCmd(evt.ncmd, Successor[evt.cmd])
           \/ /\ GoesOn(evt) /\ evt.type = "keyReady"
              /\ SendCmd(num, "LE_SET_ADV_PARAM")
           \/ ~GoesOn(evt) /\ UNCHANGED <<toController, refused>>
           \/ ~GoesOn(evt) /\ evt.type = "request" /\ SendCmd(num, Answer(evt.request))
<1> DEFINE evt == toHost[1]
           num == num_of_allowed_cmd_packets
<1>1. evt = Head(toHost) /\ evt \in Event
  BY EventGoes
<1>2. CASE __hci_recv_evt_command_complete
  <2>1. evt.type = "complete"
    BY <1>1, <1>2 DEF __hci_recv_evt_command_complete, Receive
  <2>2. GoesOn(evt) <=> evt.cmd \in DOMAIN Successor
    BY <2>1 DEF GoesOn
  <2>3. \/ evt.cmd \in DOMAIN Successor /\ SendCmd(evt.ncmd, Successor[evt.cmd])
        \/ evt.cmd \notin DOMAIN Successor /\ UNCHANGED <<toController, refused>>
    BY <1>1, <1>2 DEF __hci_recv_evt_command_complete, TakeCredit
  <2>4. \A c \in DOMAIN Successor : Successor[c] \in BringUpCommand \ {"RESET"}
    BY DEF Successor, BringUpCommand
  <2> QED
    BY <2>1, <2>2, <2>3, <2>4
<1>3. CASE RecvNoOpcode \/ __hci_recv_evt_command_status
  <2>1. evt.type \in {"noOpcode", "status"} /\ UNCHANGED <<toController, refused>>
    BY <1>1, <1>3 DEF RecvNoOpcode, __hci_recv_evt_command_status, Receive, TakeCredit
  <2> QED
    BY <2>1 DEF GoesOn
<1>4. CASE RecvKeyReady
  <2>1. evt.type = "keyReady"
    BY <1>1, <1>4 DEF RecvKeyReady, Receive
  <2>2. GoesOn(evt) <=> evt.cmd = P256
    BY <2>1 DEF GoesOn
  <2>3. \/ evt.cmd = P256 /\ SendCmd(num, "LE_SET_ADV_PARAM")
        \/ evt.cmd = "LE_GENERATE_DHKEY" /\ UNCHANGED <<toController, refused>>
    BY <1>1, <1>4 DEF RecvKeyReady, P256
  <2> QED
    BY <2>1, <2>2, <2>3 DEF P256
<1>5. CASE RecvRequest
  <2>1. evt.type = "request" /\ SendCmd(num, Answer(evt.request))
    BY <1>1, <1>5 DEF RecvRequest, Receive
  <2> QED
    BY <2>1 DEF GoesOn
<1>6. CASE RecvConnected
  <2>1. evt.type = "connected" /\ UNCHANGED <<toController, refused>>
    BY <1>1, <1>6 DEF RecvConnected, Receive
  <2> QED
    BY <2>1 DEF GoesOn
<1> QED
  BY <1>2, <1>3, <1>4, <1>5, <1>6 DEF HostReceives

-----------------------------------------------------------------------------
(* The chain, step by step.                                                 *)

\* An event that says nothing of the chain.
Idle(evt) ==
    /\ ~GoesOn(evt)
    /\ evt.type = "complete" => evt.cmd \notin KeyCommand /\ evt.cmd # "LE_SET_SCAN_PARAM"
    /\ evt.type = "status" => evt.cmd \in KeyCommand /\ evt.cmd # P256

\* Steps that execute nothing of the chain and bring no event of it.
LEMMA ChainKept ==
    ASSUME Chain, configured' = configured, stale' = stale, InKey' <=> InKey,
           ~stale => Len(toController') <= 1,
           \A i \in DOMAIN toController' : toController'[i] \in BringUpCommand =>
               \E j \in DOMAIN toController : toController[j] = toController'[i],
           NEW shift \in {0, 1},
           \A i \in DOMAIN toHost' :
               /\ i \in Nat
               /\ \/ i + shift \in DOMAIN toHost /\ toHost'[i] = toHost[i + shift]
                  \/ Idle(toHost'[i])
    PROVE  Chain'
<1>1. SUFFICES ASSUME ~stale PROVE AtOnePlace' /\ FollowsLast' /\ Answers'
  BY DEF Chain
<1>2. AtOnePlace /\ FollowsLast /\ Answers
  BY <1>1 DEF Chain
<1>3. InCommand' => InCommand
  BY DEF InCommand
<1>4. \A i \in DOMAIN toHost' : GoesOn(toHost'[i]) =>
         i + shift \in DOMAIN toHost /\ toHost'[i] = toHost[i + shift] /\ GoesOn(toHost[i + shift])
  BY DEF Idle
<1>5. InEvent' => InEvent
  BY <1>4 DEF InEvent, GoesOn
<1>6. \A i, j \in DOMAIN toHost' : GoesOn(toHost'[i]) /\ GoesOn(toHost'[j]) => i = j
  <2> TAKE i, j \in DOMAIN toHost'
  <2> HAVE GoesOn(toHost'[i]) /\ GoesOn(toHost'[j])
  <2>1. i + shift = j + shift
    BY <1>2, <1>4 DEF AtOnePlace
  <2> QED
    BY <2>1
<1>7. AtOnePlace'
  BY <1>1, <1>2, <1>3, <1>5, <1>6 DEF AtOnePlace, GoesOn
<1>8. FollowsLast'
  BY <1>2, <1>4 DEF FollowsLast, GoesOn
<1>9. Answers'
  <2>1. \A i \in DOMAIN toHost' :
           toHost'[i].type = "complete" => /\ toHost'[i].cmd \notin KeyCommand
                                           /\ toHost'[i].cmd = "LE_SET_SCAN_PARAM" => Len(configured) = 14
    BY <1>2 DEF Answers, Idle
  <2>2. \A i \in DOMAIN toHost' : toHost'[i].type = "status" => toHost'[i].cmd \in KeyCommand
    BY <1>2 DEF Answers, Idle
  <2>3. ASSUME NEW i \in DOMAIN toHost', NEW j \in DOMAIN toHost',
               toHost'[i].type = "keyReady", toHost'[i].cmd = P256,
               toHost'[j].type = "status", toHost'[j].cmd = P256
        PROVE  j < i
    <3>1. i + shift \in DOMAIN toHost /\ toHost'[i] = toHost[i + shift]
      BY <2>3 DEF Idle, GoesOn
    <3>2. j + shift \in DOMAIN toHost /\ toHost'[j] = toHost[j + shift]
      BY <2>3 DEF Idle
    <3>3. j + shift < i + shift
      BY <1>2, <2>3, <3>1, <3>2 DEF Answers
    <3> QED
      BY <3>3
  <2> QED
    BY <2>1, <2>2, <2>3 DEF Answers
<1> QED
  BY <1>7, <1>8, <1>9

LEMMA HostReceivesKeepsChain ==
    ASSUME TypeOK, LedgerInv, Chain, HostReceives, TypeOK', LedgerInv'
    PROVE  Chain'
<1> DEFINE evt == toHost[1]
           num == num_of_allowed_cmd_packets
           k == Len(configured)
<1>1. /\ opened /\ opened' /\ evt \in Event /\ num \in 0 .. 255 /\ 1 \in DOMAIN toHost
      /\ UNCHANGED <<configured, computing, stale>>
  BY EventGoes DEF TypeOK, controllerVars
<1>2. ~stale => Len(toController') <= 1
  BY <1>1, OneCommandNext
<1>3. \A i \in DOMAIN toHost' : i \in Nat \ {0} /\ i + 1 \in DOMAIN toHost /\ toHost'[i] = toHost[i + 1]
  BY EventGoes
<1>4. ASSUME \A i \in DOMAIN toController' : toController'[i] \in BringUpCommand =>
               \E j \in DOMAIN toController : toController[j] = toController'[i]
      PROVE  Chain'
  BY <1>1, <1>2, <1>3, <1>4, ChainKept DEF InKey
<1>5. ASSUME UNCHANGED toController PROVE Chain'
  BY <1>4, <1>5
<1>6. ASSUME NEW credit \in 0 .. 255, NEW cmd \in Command \ BringUpCommand, SendCmd(credit, cmd)
      PROVE  Chain'
  <2>1. CASE toController' = Append(toController, cmd)
    BY <1>4, <2>1, CommandsJoin
  <2> QED
    BY <1>1, <1>5, <1>6, <2>1, Sends
<1>7. ASSUME ~stale, GoesOn(evt), NEW credit \in 0 .. 255, NEW cmd \in Command,
             k < 14 => cmd = BringUp[k + 1], evt.type = "complete" => k < 14,
             evt.type = "keyReady" => k = 11,
             SendCmd(credit, cmd)
      PROVE  Chain'
  <2>1. CASE toController' = Append(toController, cmd)
    <3>1. AtOnePlace /\ FollowsLast /\ Answers
      BY <1>7 DEF Chain
    <3>2. toController' = <<cmd>>
      BY <1>2, <1>7, <2>1, CommandsJoin
    <3>3. ~InKey /\ \A j \in DOMAIN toHost : GoesOn(toHost[j]) => j = 1
      BY <1>1, <1>7, <3>1 DEF AtOnePlace, InEvent
    <3>4. \A i \in DOMAIN toHost' : ~GoesOn(toHost'[i])
      <4> TAKE i \in DOMAIN toHost'
      <4>1. i \in Nat /\ i + 1 \in DOMAIN toHost /\ toHost'[i] = toHost[i + 1]
        BY <1>3
      <4>2. i + 1 # 1
        BY <1>3
      <4> QED
        BY <3>3, <4>1, <4>2
    <3>5. AtOnePlace'
      BY <1>1, <1>2, <1>7, <3>3, <3>4 DEF AtOnePlace, InEvent, InKey, GoesOn
    <3>6. k < 14 /\ cmd = BringUp[k + 1]
      <4>1. evt.type = "complete" \/ evt.type = "keyReady"
        BY <1>7 DEF GoesOn
      <4>2. k < 14
        <5>1. CASE evt.type = "complete"
          BY <1>7, <5>1
        <5>2. CASE evt.type = "keyReady"
          <6>1. k = 11
            BY <1>7, <5>2, Zenon
          <6> HIDE DEF k
          <6> QED
            BY <6>1
        <5> QED
          BY <4>1, <5>1, <5>2
      <4> QED
        BY <1>7, <4>2, Zenon
    <3>7. FollowsLast'
      BY <1>1, <3>2, <3>3, <3>4, <3>6 DEF FollowsLast, InKey, GoesOn
    <3>8. Answers'
      <4>1. \A i \in DOMAIN toHost' :
               /\ toHost'[i].type = "complete" => toHost'[i].cmd \notin KeyCommand
               /\ toHost'[i].type = "complete" /\ toHost'[i].cmd = "LE_SET_SCAN_PARAM" => k = 14
               /\ toHost'[i].type = "status" => toHost'[i].cmd \in KeyCommand
        BY <1>3, <3>1 DEF Answers
      <4>2. \A i \in DOMAIN toHost' : ~(toHost'[i].type = "keyReady" /\ toHost'[i].cmd = P256)
        BY <3>4 DEF GoesOn
      <4> QED
        BY <1>1, <4>1, <4>2 DEF Answers
    <3> QED
      BY <1>1, <1>7, <3>5, <3>7, <3>8 DEF Chain
  <2> QED
    BY <1>1, <1>5, <1>7, <2>1, Sends
<1>8. ASSUME stale PROVE Chain'
  BY <1>1, <1>8 DEF Chain
<1>9. CASE /\ GoesOn(evt) /\ evt.type = "complete"
           /\ Successor[evt.cmd] \in BringUpCommand \ {"RESET"}
           /\ SendCmd(evt.ncmd, Successor[evt.cmd])
  <2>1. evt.ncmd \in 0 .. 255 /\ evt.cmd \in DOMAIN Successor /\ Successor[evt.cmd] \in Command
    BY <1>1, <1>9, EventFields DEF IsAnswer, GoesOn, Command
  <2>2. ~stale => k \in 1 .. 14 /\ evt.cmd = BringUp[k]
    BY <1>1, <1>9 DEF Chain, FollowsLast
  <2>3. ~stale => k < 14 /\ Successor[evt.cmd] = BringUp[k + 1]
    BY <2>1, <2>2, Steps
  <2> QED
    BY <1>7, <1>8, <1>9, <2>1, <2>3
<1>10. CASE GoesOn(evt) /\ evt.type = "keyReady" /\ SendCmd(num, "LE_SET_ADV_PARAM")
  <2>1. ~stale => k \in 1 .. 14 /\ evt.cmd = BringUp[k] /\ evt.cmd = P256
    BY <1>1, <1>10 DEF Chain, FollowsLast, GoesOn
  <2>2. ~stale => k = 11 /\ "LE_SET_ADV_PARAM" = BringUp[k + 1]
    <3>1. ~stale => k = 11
      BY <2>1, Steps
    <3>2. ~stale => k + 1 = 12
      <4> HIDE DEF k
      <4> QED
        BY <3>1
    <3>3. BringUp[12] = "LE_SET_ADV_PARAM"
      BY Steps
    <3> QED
      BY <3>1, <3>2, <3>3
  <2>3. "LE_SET_ADV_PARAM" \in Command
    BY Commands
  <2> QED
    BY <1>1, <1>7, <1>8, <1>10, <2>2, <2>3
<1>11. CASE ~GoesOn(evt) /\ evt.type = "request" /\ SendCmd(num, Answer(evt.request))
  <2>1. Answer(evt.request) \in Command \ BringUpCommand
    BY <1>1, <1>11, EventFields, Commands, OtherCommands
  <2> QED
    BY <1>1, <1>6, <1>11, <2>1
<1> QED
  BY <1>5, <1>9, <1>10, <1>11, HostSends

LEMMA ExecutionKeepsChain ==
    ASSUME TypeOK, LedgerInv, Chain, NEW ncmd \in Grants, NEW ok \in BOOLEAN, ControllerExecutes(ncmd, ok)
    PROVE  Chain'
<1> DEFINE cmd == toController[1]
           evt == [type |-> IF cmd \in KeyCommand THEN "status" ELSE "complete",
                   cmd |-> cmd, ncmd |-> ncmd]
           k == Len(configured)
<1>1. /\ toController # <<>> /\ toController' = Tail(toController) /\ Emit(evt)
      /\ configured' = IF cmd \in BringUpCommand THEN Append(configured, cmd) ELSE configured
      /\ computing' = CASE cmd \in KeyCommand -> computing \cup {cmd}
                        [] cmd = "RESET"      -> {}
                        [] OTHER              -> computing
      /\ stale' = stale
  BY DEF ControllerExecutes, hostVars
<1>2. /\ toController \in Seq(Command) /\ configured \in Seq(BringUpCommand) /\ k \in Nat
      /\ Len(toController) \in Nat \ {0} /\ 1 \in DOMAIN toController /\ cmd \in Command
  BY <1>1 DEF TypeOK
<1>3. SUFFICES ASSUME ~stale PROVE Chain'
  BY <1>1 DEF Chain
<1>4. /\ k <= 14 /\ AtOnePlace /\ FollowsLast /\ Answers
      /\ \A i \in 1 .. k : configured[i] = BringUp[i]
  BY <1>3 DEF Chain
<1>5. toController' = <<>> /\ Len(toController') = 0 /\ DOMAIN toController' = {}
  <2>1. Len(toController) <= 1
    BY <1>4 DEF AtOnePlace
  <2>2. Len(toController) = 1
    <3> DEFINE n == Len(toController)
    <3>1. n \in Nat \ {0}
      BY <1>2
    <3>2. n <= 1
      BY <2>1
    <3> HIDE DEF n
    <3>3. n = 1
      BY <3>1, <3>2
    <3> QED
      BY <3>3 DEF n
  <2> QED
    BY <1>1, <1>2, <2>2
<1>6. evt \in Event
  BY <1>2 DEF Event
<1>7. "RESET" \in BringUpCommand /\ "RESET" \notin KeyCommand /\ P256 \in KeyCommand
  BY DEF BringUpCommand, Successor, KeyCommand, P256
<1>8. /\ evt.cmd = cmd
      /\ evt.type = "status" <=> cmd \in KeyCommand
      /\ evt.type = "complete" <=> cmd \notin KeyCommand
      /\ evt.type # "keyReady"
  OBVIOUS
<1> HIDE DEF evt
<1>9. ASSUME cmd \notin BringUpCommand PROVE Chain'
  <2>1. configured' = configured /\ (InKey' <=> InKey)
    BY <1>1, <1>7, <1>9, OtherCommands DEF InKey
  <2>2. Idle(evt)
    <3>1. cmd \notin DOMAIN Successor /\ cmd # P256 /\ cmd # "LE_SET_SCAN_PARAM"
      BY <1>9 DEF BringUpCommand, P256
    <3> QED
      BY <1>8, <3>1 DEF Idle, GoesOn
  <2>3. \A i \in DOMAIN toHost' :
          i \in Nat /\ ((i \in DOMAIN toHost /\ toHost'[i] = toHost[i]) \/ Idle(toHost'[i]))
    <3> TAKE i \in DOMAIN toHost'
    <3>1. Len(toHost) + 1 \in Nat
      BY DEF TypeOK
    <3> QED
      BY <1>1, <1>6, <2>2, <3>1, EventsCome
  <2>4. PICK shift \in {0, 1} : shift = 0
    OBVIOUS
  <2>5. \A i \in DOMAIN toHost' :
          /\ i \in Nat
          /\ \/ i + shift \in DOMAIN toHost /\ toHost'[i] = toHost[i + shift]
             \/ Idle(toHost'[i])
    <3> TAKE i \in DOMAIN toHost'
    <3>1. i \in Nat
      BY <2>3
    <3>2. i + shift = i
      BY <2>4, <3>1
    <3> QED
      BY <2>3, <3>2
  <2>6. Len(toController') <= 1
    BY <1>5
  <2>7. \A i \in DOMAIN toController' : toController'[i] \in BringUpCommand =>
          \E j \in DOMAIN toController : toController[j] = toController'[i]
    BY <1>5
  <2> QED
    BY <1>1, <2>1, <2>5, <2>6, <2>7, ChainKept
<1>10. ASSUME cmd \in BringUpCommand PROVE Chain'
  <2>1. InCommand /\ ~InEvent /\ ~InKey
    BY <1>2, <1>4, <1>10 DEF InCommand, AtOnePlace
  <2>2. k < 14 /\ cmd = BringUp[k + 1] /\ k + 1 \in 1 .. 14
    <3>1. k < 14 /\ cmd = BringUp[k + 1]
      BY <1>2, <1>4, <1>10 DEF FollowsLast
    <3>2. k \in Nat
      BY <1>2
    <3> HIDE DEF k, cmd
    <3> QED
      BY <3>1, <3>2
  <2>3. /\ configured' = Append(configured, cmd) /\ Len(configured') = k + 1
        /\ \A i \in 1 .. k + 1 : configured'[i] = BringUp[i]
    <3>1. configured' = Append(configured, cmd)
      BY <1>1, <1>10
    <3>2. /\ Len(configured') = k + 1 /\ configured'[k + 1] = cmd
          /\ \A i \in 1 .. k : configured'[i] = configured[i]
      BY <1>2, <1>10, <3>1, AppendProperties
    <3>3. \A i \in 1 .. k + 1 : configured'[i] = BringUp[i]
      <4> TAKE i \in 1 .. k + 1
      <4>1. i = k + 1 \/ i \in 1 .. k
        <5>1. k \in Nat
          BY <1>2
        <5> HIDE DEF k
        <5> QED
          BY <5>1
      <4>2. CASE i = k + 1
        BY <2>2, <3>2, <4>2
      <4>3. CASE i \in 1 .. k
        BY <1>4, <3>2, <4>3
      <4> QED
        BY <4>1, <4>2, <4>3
    <3> QED
      BY <3>1, <3>2, <3>3
  <2>4. \A i \in DOMAIN toHost : ~GoesOn(toHost[i])
    BY <2>1 DEF InEvent
  <2>5. \A i \in DOMAIN toHost' : \/ i \in DOMAIN toHost /\ toHost'[i] = toHost[i]
                                  \/ i = Len(toHost) + 1 /\ toHost'[i] = evt
    BY <1>1, <1>6, EventsCome
  <2>6. \A i \in DOMAIN toHost' : GoesOn(toHost'[i]) => i = Len(toHost) + 1 /\ toHost'[i] = evt
    BY <2>4, <2>5
  <2>7. InKey' <=> cmd = P256
    BY <1>1, <1>7, <2>1, OtherCommands DEF InKey, KeyCommand, P256
  <2>8. GoesOn(evt) => cmd \in DOMAIN Successor
    BY <1>8 DEF GoesOn
  <2>9. cmd = P256 => ~GoesOn(evt)
    BY <2>8, OtherCommands
  <2>10. AtOnePlace'
    BY <1>5, <2>6, <2>7, <2>9 DEF AtOnePlace, InCommand, InEvent, InKey, GoesOn
  <2>11. FollowsLast'
    <3>1. InKey' => k + 1 = 11
      BY <2>2, <2>7, Steps
    <3> QED
      BY <1>5, <1>8, <2>2, <2>3, <2>6, <3>1 DEF FollowsLast, InKey, GoesOn
  <2>12. Answers'
    <3>1. \A i \in DOMAIN toHost :
            /\ toHost[i].type = "complete" => toHost[i].cmd \notin KeyCommand /\ toHost[i].cmd # "LE_SET_SCAN_PARAM"
            /\ toHost[i].type = "status" => toHost[i].cmd \in KeyCommand
            /\ ~(toHost[i].type = "keyReady" /\ toHost[i].cmd = P256)
      <4>1. k # 14
        <5>1. k \in Nat
          BY <1>2
        <5> HIDE DEF k, cmd
        <5> QED
          BY <2>2, <5>1
      <4> QED
        BY <1>4, <2>4, <4>1 DEF Answers, GoesOn
    <3>2. cmd = "LE_SET_SCAN_PARAM" => k + 1 = 14
      BY <2>2, Steps
    <3>3. \A i \in DOMAIN toHost' :
            /\ toHost'[i].type = "complete" => toHost'[i].cmd \notin KeyCommand
            /\ toHost'[i].type = "complete" /\ toHost'[i].cmd = "LE_SET_SCAN_PARAM" => k + 1 = 14
            /\ toHost'[i].type = "status" => toHost'[i].cmd \in KeyCommand
            /\ ~(toHost'[i].type = "keyReady" /\ toHost'[i].cmd = P256)
      BY <1>8, <2>5, <3>1, <3>2
    <3> QED
      BY <2>3, <3>3 DEF Answers
  <2> QED
    BY <1>2, <2>2, <2>3, <2>10, <2>11, <2>12 DEF Chain
<1> QED
  BY <1>9, <1>10

LEMMA ChainInductive ==
    ASSUME TypeOK, LedgerInv, Chain, [Next]_vars, TypeOK', LedgerInv'
    PROVE  Chain'
<1>1. PICK same \in {0, 1} : same = 0
  OBVIOUS
\* steps that leave the chain and its commands alone
<1>2. ASSUME UNCHANGED <<configured, stale, toController>>, InKey' <=> InKey,
             \A i \in DOMAIN toHost' :
                 i \in Nat /\ ((i \in DOMAIN toHost /\ toHost'[i] = toHost[i]) \/ Idle(toHost'[i]))
      PROVE  Chain'
  <2>1. \A i \in DOMAIN toHost' :
          /\ i \in Nat
          /\ \/ i + same \in DOMAIN toHost /\ toHost'[i] = toHost[i + same]
             \/ Idle(toHost'[i])
    <3> TAKE i \in DOMAIN toHost'
    <3>1. i \in Nat
      BY <1>2
    <3>2. i + same = i
      BY <1>1, <3>1
    <3> QED
      BY <1>2, <3>2
  <2>2. Chain /\ ~stale => Len(toController) <= 1
    BY DEF Chain, AtOnePlace
  <2>3. \A i \in DOMAIN toController' : toController'[i] \in BringUpCommand =>
          \E j \in DOMAIN toController : toController[j] = toController'[i]
    BY <1>2
  <2> QED
    BY <1>2, <2>1, <2>2, <2>3, ChainKept
<1>3. \A i \in DOMAIN toHost : i \in Nat
  <2>1. toHost \in Seq(Event)
    BY DEF TypeOK
  <2>2. DOMAIN toHost = 1 .. Len(toHost)
    BY <2>1
  <2> QED
    BY <2>2
<1>4. Len(toHost) + 1 \in Nat
  BY DEF TypeOK
<1>5. ASSUME NEW evt \in Event, Emit(evt), Idle(evt),
             UNCHANGED <<configured, stale, toController>>, InKey' <=> InKey
      PROVE  Chain'
  <2>1. \A i \in DOMAIN toHost' :
          i \in Nat /\ ((i \in DOMAIN toHost /\ toHost'[i] = toHost[i]) \/ Idle(toHost'[i]))
    BY <1>3, <1>4, <1>5, EventsCome
  <2> QED
    BY <1>2, <1>5, <2>1
<1>6. CASE Open
  <2>1. SUFFICES ASSUME ~stale' PROVE Chain'
    BY DEF Chain
  <2>2. toController = <<>> /\ computing = {}
    <3>1. stale' = (toController # <<>> \/ computing # {} \/ owed)
      BY <1>6 DEF Open
    <3> QED
      BY <2>1, <3>1, Zenon
  <2>3. /\ toController' = <<"RESET">> /\ configured' = <<>> /\ computing' = {}
        /\ toHost' = <<>>
    BY <1>6, <2>2 DEF Open, LedgerInv
  <2>4. ~InKey' /\ ~InEvent'
    BY <2>3 DEF InKey, InEvent
  <2>5. AtOnePlace'
    <3>1. Len(toController') <= 1 /\ DOMAIN toHost' = {}
      BY <2>3
    <3> QED
      BY <2>4, <3>1 DEF AtOnePlace
  <2>6. FollowsLast'
    <3>1. /\ Len(configured') = 0 /\ DOMAIN toHost' = {}
          /\ \A i \in DOMAIN toController' : toController'[i] = "RESET"
      BY <2>3
    <3>2. BringUp[0 + 1] = "RESET"
      BY Steps
    <3> QED
      BY <2>4, <3>1, <3>2 DEF FollowsLast
  <2>7. Answers'
    <3>1. DOMAIN toHost' = {}
      BY <2>3
    <3> QED
      BY <3>1 DEF Answers
  <2>8. Len(configured') = 0
    BY <2>3
  <2> QED
    BY <2>5, <2>6, <2>7, <2>8 DEF Chain
<1>7. CASE Close
  <2>1. UNCHANGED <<configured, stale, toController, computing>> /\ DOMAIN toHost' = {}
    BY <1>7 DEF Close, controllerVars
  <2> QED
    BY <1>2, <2>1 DEF InKey
<1>8. ASSUME NEW b \in Button, Click(b) PROVE Chain'
  <2>1. UNCHANGED <<configured, stale, computing, toHost, opened>>
    BY <1>8 DEF Click, controllerVars
  <2>2. PICK cmd \in Command \ BringUpCommand : SendCmd(num_of_allowed_cmd_packets, cmd)
    <3>1. PICK cmd \in {EnableCommand(b), DisableCommand(b)} : SendCmd(num_of_allowed_cmd_packets, cmd)
      BY <1>8 DEF Click
    <3>2. cmd \in Command \ BringUpCommand
      BY Commands, OtherCommands
    <3> QED
      BY <3>1, <3>2
  <2>3. CASE toController' = toController
    BY <1>2, <1>3, <2>1, <2>3 DEF InKey
  <2>4. CASE opened /\ toController' = Append(toController, cmd)
    <3>1. ~stale => Len(toController') <= 1
      BY <2>1, <2>4, OneCommandNext
    <3>2. \A i \in DOMAIN toController' : toController'[i] \in BringUpCommand =>
            \E j \in DOMAIN toController : toController[j] = toController'[i]
      BY <2>2, <2>4, CommandsJoin
    <3>3. \A i \in DOMAIN toHost' : i \in Nat /\ i + same = i
      BY <1>1, <1>3, <2>1
    <3>4. \A i \in DOMAIN toHost' :
            /\ i \in Nat
            /\ \/ i + same \in DOMAIN toHost /\ toHost'[i] = toHost[i + same]
               \/ Idle(toHost'[i])
      BY <2>1, <3>3
    <3> QED
      BY <2>1, <3>1, <3>2, <3>4, ChainKept DEF InKey
  <2>5. toController' = toController \/ (opened /\ toController' = Append(toController, cmd))
    BY <2>1, <2>2 DEF SendCmd, serial_write
  <2> QED
    BY <2>3, <2>4, <2>5
<1>9. CASE HostReceives
  BY <1>9, HostReceivesKeepsChain
<1>10. ASSUME NEW ncmd \in Grants, NEW ok \in BOOLEAN, ControllerExecutes(ncmd, ok) PROVE Chain'
  BY <1>10, ExecutionKeepsChain
<1>11. CASE ControllerReturnsCredit
  <2> DEFINE evt == [type |-> "noOpcode", ncmd |-> 1]
  <2>1. evt \in Event /\ Idle(evt)
    BY DEF Event, Idle, GoesOn
  <2>2. Emit(evt) /\ UNCHANGED <<configured, stale, toController, computing>>
    BY <1>11 DEF ControllerReturnsCredit, hostVars
  <2> HIDE DEF evt
  <2> QED
    BY <1>5, <2>1, <2>2 DEF InKey
<1>12. ASSUME NEW cmd \in KeyCommand, ControllerComputesKey(cmd) PROVE Chain'
  <2> DEFINE evt == [type |-> "keyReady", cmd |-> cmd]
  <2>1. evt \in Event /\ evt.type = "keyReady" /\ evt.cmd = cmd
    BY DEF Event
  <2>2. /\ Emit(evt) /\ UNCHANGED <<configured, stale, toController>>
        /\ cmd \in computing /\ computing' = computing \ {cmd}
    BY <1>12 DEF ControllerComputesKey, hostVars
  <2> HIDE DEF evt
  <2>3. CASE cmd # P256
    <3>1. Idle(evt) /\ (InKey' <=> InKey)
      BY <2>1, <2>2, <2>3 DEF Idle, GoesOn, InKey
    <3> QED
      BY <1>5, <2>1, <2>2, <3>1
  <2>4. CASE cmd = P256
    <3>1. SUFFICES ASSUME ~stale PROVE Chain'
      BY <2>2 DEF Chain
    <3>2. /\ AtOnePlace /\ FollowsLast /\ Answers
          /\ Len(configured) <= 14 /\ \A i \in 1 .. Len(configured) : configured[i] = BringUp[i]
      BY <3>1 DEF Chain
    <3>3. InKey /\ ~InKey' /\ ~InCommand /\ ~InEvent /\ Len(configured) = 11
      BY <2>2, <2>4, <3>2 DEF InKey, AtOnePlace, FollowsLast
    <3>4. \A i \in DOMAIN toHost' : \/ i \in DOMAIN toHost /\ toHost'[i] = toHost[i]
                                    \/ i = Len(toHost) + 1 /\ toHost'[i] = evt
      BY <2>1, <2>2, EventsCome
    <3>5. \A i \in DOMAIN toHost : ~GoesOn(toHost[i])
      BY <3>3 DEF InEvent
    <3>6. \A i \in DOMAIN toHost' : GoesOn(toHost'[i]) => i = Len(toHost) + 1 /\ toHost'[i] = evt
      BY <3>4, <3>5
    <3>7. ~InCommand' /\ Len(toController') <= 1
      BY <2>2, <3>2, <3>3 DEF InCommand, AtOnePlace
    <3>8. AtOnePlace'
      BY <3>3, <3>6, <3>7 DEF AtOnePlace, GoesOn
    <3>9. FollowsLast'
      <4>1. BringUp[11] = P256 /\ 11 \in 1 .. 14
        BY Steps
      <4>2. \A i \in DOMAIN toHost' : GoesOn(toHost'[i]) => toHost'[i].cmd = P256
        BY <2>1, <2>4, <3>6
      <4>3. \A i \in DOMAIN toController' : toController'[i] \notin BringUpCommand
        BY <3>7 DEF InCommand
      <4>4. Len(configured') = 11
        BY <2>2, <3>3
      <4> QED
        BY <3>3, <4>1, <4>2, <4>3, <4>4 DEF FollowsLast, GoesOn
    <3>10. Answers'
      <4>1. \A i \in DOMAIN toHost' :
              /\ toHost'[i].type = "complete" => /\ toHost'[i].cmd \notin KeyCommand
                                                 /\ toHost'[i].cmd = "LE_SET_SCAN_PARAM" => Len(configured) = 14
              /\ toHost'[i].type = "status" => toHost'[i].cmd \in KeyCommand
        BY <2>1, <3>2, <3>4 DEF Answers
      <4>2. ASSUME NEW i \in DOMAIN toHost', NEW j \in DOMAIN toHost',
                   toHost'[i].type = "keyReady", toHost'[i].cmd = P256,
                   toHost'[j].type = "status", toHost'[j].cmd = P256
            PROVE  j < i
        <5>1. i = Len(toHost) + 1
          BY <3>6, <4>2 DEF GoesOn
        <5>2. j \in DOMAIN toHost
          BY <2>1, <3>4, <4>2
        <5>3. DOMAIN toHost = 1 .. Len(toHost) /\ Len(toHost) \in Nat
          BY DEF TypeOK
        <5> QED
          BY <5>1, <5>2, <5>3
      <4> QED
        BY <2>2, <4>1, <4>2 DEF Answers
    <3> QED
      BY <2>2, <3>2, <3>8, <3>9, <3>10 DEF Chain
  <2> QED
    BY <2>3, <2>4
<1>13. ASSUME NEW request \in Requests, PeerRequests(request) PROVE Chain'
  <2> DEFINE evt == [type |-> "request", request |-> request]
  <2>1. evt \in Event /\ Idle(evt)
    BY DEF Event, Idle, GoesOn
  <2>2. Emit(evt) /\ UNCHANGED <<configured, stale, toController, computing>>
    BY <1>13 DEF PeerRequests, hostVars, controllerVars
  <2> HIDE DEF evt
  <2> QED
    BY <1>5, <2>1, <2>2 DEF InKey
<1>14. CASE PeerConnects
  <2> DEFINE evt == [type |-> "connected"]
  <2>1. evt \in Event /\ Idle(evt)
    BY DEF Event, Idle, GoesOn
  <2>2. Emit(evt) /\ UNCHANGED <<configured, stale, toController, computing>>
    BY <1>14 DEF PeerConnects, hostVars
  <2> HIDE DEF evt
  <2> QED
    BY <1>5, <2>1, <2>2 DEF InKey
<1>15. CASE UNCHANGED vars
  <2>1. UNCHANGED <<configured, stale, toController, computing, toHost>>
    BY <1>15 DEF vars
  <2> QED
    BY <1>2, <1>3, <2>1 DEF InKey
<1> QED
  BY <1>6, <1>7, <1>8, <1>9, <1>10, <1>11, <1>12, <1>13, <1>14, <1>15 DEF Next, ControllerWorks

\* The controller is configured step by step and each step once, in the order of the chain in
\* __hci_recv_evt_command_complete, however its answers interleave with those of the buttons'
\* and the peers' commands.
THEOREM BringUpOrdered ==
    ASSUME OneCommandBuffer
    PROVE  Spec => []BringUpInOrder
<1>1. Init => Chain
  <2> SUFFICES ASSUME Init PROVE Chain
    OBVIOUS
  <2>1. /\ configured = <<>> /\ computing = {} /\ Len(toController) = 0 /\ Len(configured) = 0
        /\ DOMAIN toController = {} /\ DOMAIN toHost = {}
    BY DEF Init
  <2> QED
    BY <2>1 DEF Chain, AtOnePlace, FollowsLast, Answers, InCommand, InEvent, InKey
<1>2. Init => LedgerInv
  BY DEF Init, LedgerInv, CreditLedger
<1>3. TypeOK /\ LedgerInv /\ [Next]_vars => LedgerInv'
  BY LedgerInductive
<1>4. TypeOK /\ LedgerInv /\ Chain /\ [Next]_vars /\ TypeOK' /\ LedgerInv' => Chain'
  BY ChainInductive
<1>5. TypeOK /\ Chain => BringUpInOrder
  <2> SUFFICES ASSUME TypeOK, Chain, ~stale PROVE IsPrefix(configured, BringUp)
    BY DEF BringUpInOrder
  <2>1. /\ configured \in Seq(BringUpCommand) /\ Len(configured) \in Nat /\ Len(configured) <= 14
        /\ \A i \in 1 .. Len(configured) : configured[i] = BringUp[i]
    BY DEF TypeOK, Chain
  <2>2. Len(BringUp) = 14
    BY DEF BringUp
  <2> DEFINE n == Len(configured)
             left == SubSeq(configured, 1, n)
             right == SubSeq(BringUp, 1, n)
  <2>3. left = [i \in 1 .. n |-> configured[i]] /\ right = [i \in 1 .. n |-> BringUp[i]]
    <3>1. \A s : SubSeq(s, 1, n) = [i \in 1 .. (1 + n - 1) |-> s[i + 1 - 1]]
      BY DEF SubSeq
    <3> QED
      BY <2>1, <3>1
  <2>4. left = right
    <3> HIDE DEF left, right
    <3> QED
      BY <2>1, <2>3
  <2> QED
    BY <2>1, <2>2, <2>4 DEF IsPrefix
<1> QED
  BY <1>1, <1>2, <1>3, <1>4, <1>5, TypeCorrect, PTL DEF Spec

-----------------------------------------------------------------------------
(* Where the chain can stop. *)

\* what the host sends without a click is of the chain
LEMMA OnlyChainInductive ==
    ASSUME TypeOK, LedgerInv, OnlyChain, [Next]_vars
    PROVE  OnlyChain'
<1> DEFINE Of(evt) == /\ evt.type # "request"
                      /\ evt.type \in {"complete", "status", "keyReady"} => evt.cmd \in BringUpCommand
<1>0. SUFFICES ASSUME clicks' = 0 PROVE OnlyChain'
  BY DEF OnlyChain
<1>1. clicks = 0
  <2>1. clicks \in Nat
    BY DEF TypeOK
  <2>2. (\E b \in Button : Click(b)) => clicks' = clicks + 1
    BY DEF Click
  <2>3. ~(\E b \in Button : Click(b))
    BY <1>0, <2>1, <2>2
  <2>4. HostReceives => clicks' = clicks
    BY EventGoes
  <2>5. ControllerWorks => clicks' = clicks
    BY DEF ControllerWorks, ControllerExecutes, ControllerReturnsCredit, ControllerComputesKey, hostVars
  <2>6. (\E r \in Requests : PeerRequests(r)) => clicks' = clicks
    BY DEF PeerRequests, hostVars
  <2>7. PeerConnects => clicks' = clicks
    BY DEF PeerConnects, hostVars
  <2>8. Open \/ Close => clicks' = clicks
    BY DEF Open, Close
  <2>9. UNCHANGED vars => clicks' = clicks
    BY DEF vars
  <2> QED
    BY <1>0, <2>3, <2>4, <2>5, <2>6, <2>7, <2>8, <2>9 DEF Next
<1>2. /\ enabled = {} /\ ~connected /\ computing \subseteq {P256}
      /\ \A i \in DOMAIN toController : toController[i] \in BringUpCommand
      /\ \A i \in DOMAIN toHost : Of(toHost[i])
  BY <1>1 DEF OnlyChain
<1> DEFINE Commands_ == \A i \in DOMAIN toController' : toController'[i] \in BringUpCommand
           Events_ == \A i \in DOMAIN toHost' : Of(toHost'[i])
           Kept == enabled' = {} /\ ~connected' /\ computing' \subseteq {P256} /\ Commands_ /\ Events_
<1>3. SUFFICES Kept
  BY DEF OnlyChain
<1>4. ASSUME NEW evt \in Event, Emit(evt), Of(evt) PROVE Events_
  <2> HIDE DEF Of
  <2> QED
    BY <1>2, <1>4, EventsCome
<1>5. CASE Open
  <2>1. "RESET" \in BringUpCommand /\ "RESET" \in Command
    BY Commands DEF BringUpCommand, Successor
  <2>2. Commands_
    BY <1>2, <1>5, <2>1, CommandsJoin DEF Open
  <2> QED
    BY <1>2, <1>5, <2>2 DEF Open
<1>6. CASE Close
  <2>1. DOMAIN toHost' = {} /\ UNCHANGED <<enabled, connected, computing, toController>>
    BY <1>6 DEF Close, controllerVars
  <2> QED
    BY <1>2, <2>1
<1>7. ASSUME NEW b \in Button, Click(b) PROVE FALSE
  BY <1>0, <1>1, <1>7 DEF Click
<1>8. CASE HostReceives
  <2>1. /\ opened' /\ toHost[1] \in Event /\ Of(toHost[1]) /\ UNCHANGED <<enabled, connected, computing>>
        /\ num_of_allowed_cmd_packets \in 0 .. 255
    BY <1>2, <1>8, EventGoes DEF controllerVars, TypeOK
  <2>2. Events_
    <3> HIDE DEF Of
    <3> QED
      BY <1>2, <1>8, EventGoes
  <2>3. ASSUME NEW credit \in 0 .. 255, NEW cmd \in BringUpCommand, SendCmd(credit, cmd) PROVE Commands_
    <3>1. cmd \in Command
      BY DEF Command
    <3>2. toController' = toController \/ toController' = Append(toController, cmd)
      BY <2>1, <2>3, Sends
    <3>3. CASE toController' = Append(toController, cmd)
      BY <1>2, <2>3, <3>1, <3>3, CommandsJoin
    <3> QED
      BY <1>2, <3>2, <3>3
  <2>4. CASE /\ GoesOn(toHost[1]) /\ toHost[1].type = "complete"
             /\ Successor[toHost[1].cmd] \in BringUpCommand \ {"RESET"}
             /\ SendCmd(toHost[1].ncmd, Successor[toHost[1].cmd])
    <3>1. toHost[1].ncmd \in 0 .. 255
      BY <2>1, <2>4, EventFields DEF IsAnswer
    <3> QED
      BY <2>1, <2>2, <2>3, <2>4, <3>1, <1>2
  <2>5. CASE SendCmd(num_of_allowed_cmd_packets, "LE_SET_ADV_PARAM")
    <3>1. "LE_SET_ADV_PARAM" \in BringUpCommand
      BY DEF BringUpCommand, Successor
    <3> QED
      BY <1>2, <2>1, <2>2, <2>3, <2>5, <3>1
  <2>6. CASE UNCHANGED toController
    BY <1>2, <2>1, <2>2, <2>6
  <2> QED
    BY <1>8, <2>1, <2>4, <2>5, <2>6, HostSends
<1>9. ASSUME NEW ncmd \in Grants, NEW ok \in BOOLEAN, ControllerExecutes(ncmd, ok) PROVE Kept
  <2> DEFINE cmd == toController[1]
             evt == [type |-> IF cmd \in KeyCommand THEN "status" ELSE "complete",
                     cmd |-> cmd, ncmd |-> ncmd]
  <2>1. /\ toController # <<>> /\ toController' = Tail(toController)
        /\ Emit(evt)
        /\ computing' = CASE cmd \in KeyCommand -> computing \cup {cmd}
                          [] cmd = "RESET"      -> {}
                          [] OTHER              -> computing
    BY <1>9 DEF ControllerExecutes
  <2>2. toController \in Seq(Command) /\ 1 \in DOMAIN toController
    BY <2>1 DEF TypeOK
  <2>3. cmd \in BringUpCommand /\ cmd \in Command
    BY <1>2, <2>2 DEF Command
  <2>4. evt \in Event /\ Of(evt)
    BY <2>3 DEF Event
  <2>5. Commands_
    <3>1. \A i \in DOMAIN toController' : i + 1 \in DOMAIN toController /\ toController'[i] = toController[i + 1]
      BY <2>1, <2>2, HeadTailProperties
    <3> QED
      BY <1>2, <3>1
  <2>6. Events_
    <3> HIDE DEF evt, Of
    <3> QED
      BY <1>4, <2>1, <2>4
  <2>7. computing' \subseteq {P256}
    BY <1>2, <2>1, <2>3, OtherCommands DEF KeyCommand, P256
  <2>8. enabled' = (IF ok THEN Controlled(cmd) ELSE enabled) /\ ~connected'
    BY <1>2, <1>9 DEF ControllerExecutes
  <2>9. enabled' = {}
    <3>1. Controlled(cmd) = Effect(enabled, cmd)
      BY Zenon DEF Controlled, Effect
    <3>2. Effect({}, cmd) = {}
      BY <2>3, Effects, OtherCommands
    <3> QED
      BY <1>2, <2>8, <3>1, <3>2
  <2> QED
    BY <1>2, <2>5, <2>6, <2>7, <2>8, <2>9
<1>10. CASE ControllerReturnsCredit
  <2> DEFINE evt == [type |-> "noOpcode", ncmd |-> 1]
  <2>1. evt \in Event /\ Of(evt)
    BY DEF Event
  <2>2. Emit(evt) /\ UNCHANGED <<enabled, connected, computing, toController>>
    BY <1>10 DEF ControllerReturnsCredit
  <2>3. Events_
    <3> HIDE DEF evt, Of
    <3> QED
      BY <1>4, <2>1, <2>2
  <2> QED
    BY <1>2, <2>2, <2>3
<1>11. ASSUME NEW cmd \in KeyCommand, ControllerComputesKey(cmd) PROVE Kept
  <2> DEFINE evt == [type |-> "keyReady", cmd |-> cmd]
  <2>1. /\ Emit(evt) /\ UNCHANGED <<enabled, connected, toController>>
        /\ cmd \in computing /\ computing' = computing \ {cmd}
    BY <1>11 DEF ControllerComputesKey
  <2>2. evt \in Event /\ Of(evt)
    BY <1>2, <2>1, OtherCommands DEF Event
  <2>3. Events_
    <3> HIDE DEF evt, Of
    <3> QED
      BY <1>4, <2>1, <2>2
  <2> QED
    BY <1>2, <2>1, <2>3
<1>12. ASSUME NEW request \in Requests, PeerRequests(request) PROVE FALSE
  BY <1>2, <1>12 DEF PeerRequests
<1>13. CASE PeerConnects
  BY <1>2, <1>13 DEF PeerConnects
<1>14. CASE UNCHANGED vars
  BY <1>2, <1>14 DEF vars
<1> QED
  BY <1>5, <1>6, <1>7, <1>8, <1>9, <1>10, <1>11, <1>12, <1>13, <1>14 DEF Next, ControllerWorks

LEMMA NothingLateInductive ==
    ASSUME TypeOK, LedgerInv, NothingLate, [Next]_vars
    PROVE  NothingLate'
<1> DEFINE Prompt(evt) == evt.type # "noOpcode" /\ (IsAnswer(evt) => evt.ncmd > 0)
           Events_ == \A i \in DOMAIN toHost' : Prompt(toHost'[i])
<1>0. SUFFICES ASSUME late' = 0 PROVE NothingLate'
  BY DEF NothingLate
<1>1. ASSUME late = 0, NEW evt \in Event, Emit(evt), Prompt(evt) PROVE Events_
  <2>1. \A i \in DOMAIN toHost : Prompt(toHost[i])
    BY <1>1 DEF NothingLate
  <2> HIDE DEF Prompt
  <2> QED
    BY <1>1, <2>1, EventsCome
<1>2. ASSUME late = 0, ~owed', Events_ PROVE NothingLate'
  BY <1>2 DEF NothingLate, IsAnswer
<1>3. CASE Open
  <2>1. late = 0 /\ UNCHANGED <<owed, toHost>>
    BY <1>0, <1>3 DEF Open
  <2> QED
    BY <1>2, <2>1 DEF NothingLate
<1>4. CASE Close
  <2>1. late = 0 /\ owed' = owed /\ DOMAIN toHost' = {}
    BY <1>0, <1>4 DEF Close, controllerVars
  <2> QED
    BY <1>2, <2>1 DEF NothingLate
<1>5. ASSUME NEW b \in Button, Click(b) PROVE NothingLate'
  <2>1. late = 0 /\ UNCHANGED <<owed, toHost>>
    BY <1>0, <1>5 DEF Click, controllerVars
  <2> QED
    BY <1>2, <2>1 DEF NothingLate
<1>6. CASE HostReceives
  <2>1. late = 0 /\ owed' = owed
    BY <1>0, <1>6, EventGoes DEF controllerVars
  <2>2. \A i \in DOMAIN toHost : Prompt(toHost[i])
    BY <2>1 DEF NothingLate
  <2>3. Events_
    <3> HIDE DEF Prompt
    <3> QED
      BY <1>6, <2>2, EventGoes
  <2> QED
    BY <1>2, <2>1, <2>3 DEF NothingLate
<1>7. ASSUME NEW ncmd \in Grants, NEW ok \in BOOLEAN, ControllerExecutes(ncmd, ok) PROVE NothingLate'
  <2> DEFINE cmd == Head(toController)
             evt == [type |-> IF cmd \in KeyCommand THEN "status" ELSE "complete",
                     cmd |-> cmd, ncmd |-> ncmd]
  <2>1. /\ toController # <<>> /\ Emit(evt) /\ (owed' <=> ncmd = 0)
        /\ late' = IF ncmd = 0 THEN late + 1 ELSE late
    BY <1>7 DEF ControllerExecutes
  <2>2. late \in Nat /\ ncmd \in 0 .. 255
    BY DEF TypeOK
  <2>3. ncmd > 0 /\ late = 0
    BY <1>0, <2>1, <2>2
  <2>4. cmd \in Command
    BY <2>1, HeadTailProperties DEF TypeOK
  <2>5. evt \in Event /\ Prompt(evt)
    BY <2>3, <2>4 DEF Event
  <2>6. Events_
    <3> HIDE DEF evt, Prompt
    <3> QED
      BY <1>1, <2>1, <2>3, <2>5
  <2> QED
    BY <1>2, <2>1, <2>3, <2>6
<1>8. CASE ControllerReturnsCredit
  <2>1. owed /\ late = 0
    BY <1>0, <1>8 DEF ControllerReturnsCredit
  <2> QED
    BY <2>1 DEF NothingLate
<1>9. ASSUME NEW cmd \in KeyCommand, ControllerComputesKey(cmd) PROVE NothingLate'
  <2> DEFINE evt == [type |-> "keyReady", cmd |-> cmd]
  <2>1. evt \in Event /\ Prompt(evt)
    BY DEF Event, IsAnswer
  <2>2. Emit(evt) /\ late = 0 /\ owed' = owed
    BY <1>0, <1>9 DEF ControllerComputesKey
  <2>3. Events_
    <3> HIDE DEF evt, Prompt
    <3> QED
      BY <1>1, <2>1, <2>2
  <2> QED
    BY <1>2, <2>2, <2>3 DEF NothingLate
<1>10. ASSUME NEW request \in Requests, PeerRequests(request) PROVE NothingLate'
  <2> DEFINE evt == [type |-> "request", request |-> request]
  <2>1. evt \in Event /\ Prompt(evt)
    BY DEF Event, IsAnswer
  <2>2. Emit(evt) /\ late = 0 /\ owed' = owed
    BY <1>0, <1>10 DEF PeerRequests, controllerVars
  <2>3. Events_
    <3> HIDE DEF evt, Prompt
    <3> QED
      BY <1>1, <2>1, <2>2
  <2> QED
    BY <1>2, <2>2, <2>3 DEF NothingLate
<1>11. CASE PeerConnects
  <2> DEFINE evt == [type |-> "connected"]
  <2>1. evt \in Event /\ Prompt(evt)
    BY DEF Event, IsAnswer
  <2>2. Emit(evt) /\ late = 0 /\ owed' = owed
    BY <1>0, <1>11 DEF PeerConnects
  <2>3. Events_
    <3> HIDE DEF evt, Prompt
    <3> QED
      BY <1>1, <2>1, <2>2
  <2> QED
    BY <1>2, <2>2, <2>3 DEF NothingLate
<1>12. CASE UNCHANGED vars
  BY <1>12 DEF vars, NothingLate, IsAnswer
<1> QED
  BY <1>3, <1>4, <1>5, <1>6, <1>7, <1>8, <1>9, <1>10, <1>11, <1>12 DEF Next, ControllerWorks

\* Who took the credit the chain finds missing: without clicks and late credits, nobody.
LEMMA WindowNeedsClick ==
    ASSUME TypeOK, LedgerInv, Chain, OnlyChain, NothingLate, opened, ~stale, late = 0,
           num_of_allowed_cmd_packets = 0, 1 \in DOMAIN toHost,
           GoesOn(toHost[1]), toHost[1].type = "keyReady"
    PROVE  clicks > 0
<1>0. clicks \in Nat
  BY DEF TypeOK
<1>1. SUFFICES ASSUME clicks = 0 PROVE FALSE
  BY <1>0
<1>2. AtOnePlace /\ FollowsLast /\ Answers
  BY DEF Chain
<1>3. ~owed /\ InEvent /\ ~InCommand /\ Len(configured) = 11
  <2>1. InEvent /\ ~owed
    BY DEF InEvent, NothingLate
  <2>2. Len(configured) = 11
    <3>1. Len(configured) \in 1 .. 14 /\ toHost[1].cmd = BringUp[Len(configured)] /\ toHost[1].cmd = P256
      BY <1>2 DEF FollowsLast, GoesOn
    <3> QED
      BY <3>1, Steps
  <2> QED
    BY <1>2, <2>1, <2>2 DEF AtOnePlace
<1>4. toController = <<>>
  <2>1. \A i \in DOMAIN toController : FALSE
    BY <1>1, <1>3 DEF OnlyChain, InCommand
  <2> DEFINE n == Len(toController)
  <2>2. toController \in Seq(Command) /\ DOMAIN toController = 1 .. n /\ n \in Nat
    BY DEF TypeOK
  <2>3. 1 \notin 1 .. n
    BY <2>1, <2>2
  <2>4. n = 0
    <3> HIDE DEF n
    <3> QED
      BY <2>2, <2>3
  <2> QED
    BY <2>2, <2>4
<1>5. Cardinality(CreditsInFlight(toHost)) = 1
  <2>1. Len(toController) = 0 /\ (IF owed THEN 1 ELSE 0) = 0
    BY <1>3, <1>4
  <2>2. Cardinality(CreditsInFlight(toHost)) \in Nat
    BY CreditsFinite DEF TypeOK
  <2>3. 0 + 0 + Cardinality(CreditsInFlight(toHost)) + 0 = 1
    BY <2>1 DEF LedgerInv, CreditLedger
  <2> QED
    BY <2>2, <2>3
<1>6. CreditsInFlight(toHost) # {}
  BY <1>5, FS_EmptySet
<1>7. PICK j \in DOMAIN toHost : CarriesCredit(toHost[j])
  BY <1>6 DEF CreditsInFlight
<1>8. toHost[j].type \in {"complete", "status"} /\ toHost[j].cmd \in BringUpCommand
  BY <1>1, <1>7 DEF CarriesCredit, NothingLate, OnlyChain
<1>9. CASE toHost[j].type = "complete"
  <2>1. toHost[j].cmd \notin KeyCommand /\ toHost[j].cmd # "LE_SET_SCAN_PARAM"
    BY <1>2, <1>3, <1>9 DEF Answers
  <2>2. GoesOn(toHost[j])
    <3>1. toHost[j].cmd # P256
      BY <2>1 DEF KeyCommand, P256
    <3>2. toHost[j].cmd \in DOMAIN Successor
      BY <1>8, <2>1, <3>1, OtherCommands
    <3> QED
      BY <1>9, <3>2 DEF GoesOn
  <2>3. j = 1
    BY <1>2, <2>2 DEF AtOnePlace
  <2> QED
    BY <1>9, <2>3
<1>10. CASE toHost[j].type = "status"
  <2>1. toHost[j].cmd = P256
    BY <1>2, <1>8, <1>10, OtherCommands DEF Answers, KeyCommand, P256
  <2>2. toHost[1].cmd = P256
    BY DEF GoesOn
  <2>3. j < 1 /\ j \in DOMAIN toHost /\ DOMAIN toHost = 1 .. Len(toHost) /\ Len(toHost) \in Nat
    BY <1>2, <1>10, <2>1, <2>2 DEF Answers, TypeOK
  <2> QED
    BY <2>3
<1> QED
  BY <1>8, <1>9, <1>10

LEMMA GoesOnInductive ==
    ASSUME TypeOK, LedgerInv, Chain, OnlyChain, NothingLate, GoesOnOrWindow, [Next]_vars
    PROVE  GoesOnOrWindow'
<1> DEFINE Ended == Len(configured) = 11 /\ "LE_SET_ADV_PARAM" \in refused /\ clicks > 0
           Alive == InCommand \/ InEvent \/ InKey \/ Len(configured) = 14
<1>1. SUFFICES ASSUME opened', ~stale', late' = 0
               PROVE  Alive' \/ Ended'
  BY DEF GoesOnOrWindow, InCommand, InEvent, InKey, GoesOn
<1>2. ASSUME opened, ~stale, late = 0 PROVE Alive \/ Ended
  BY <1>2 DEF GoesOnOrWindow
<1>3. ASSUME NEW evt \in Event, Emit(evt), opened PROVE InEvent => InEvent'
  BY <1>3, EventsCome DEF InEvent, GoesOn
<1>4. CASE Open
  <2>1. toController' = Append(toController, "RESET")
    BY <1>4 DEF Open
  <2>2. "RESET" \in BringUpCommand
    BY DEF BringUpCommand, Successor
  <2>3. InCommand'
    BY <2>1, <2>2, Commands, CommandsJoin DEF InCommand
  <2> QED
    BY <2>3
<1>5. CASE Close
  BY <1>1, <1>5 DEF Close
<1>6. ASSUME NEW b \in Button, Click(b) PROVE Alive' \/ Ended'
  <2>1. /\ UNCHANGED <<configured, stale, computing, toHost, opened, late>>
        /\ clicks' = clicks + 1
    BY <1>6 DEF Click, controllerVars
  <2>2. PICK cmd \in Command : SendCmd(num_of_allowed_cmd_packets, cmd)
    <3>1. \/ SendCmd(num_of_allowed_cmd_packets, EnableCommand(b))
          \/ SendCmd(num_of_allowed_cmd_packets, DisableCommand(b))
      BY <1>6 DEF Click
    <3> QED
      BY <3>1, Commands
  <2>3. num_of_allowed_cmd_packets \in 0 .. 255 /\ clicks \in Nat
    BY DEF TypeOK
  <2>4. /\ toController' = Append(toController, cmd) \/ toController' = toController
        /\ refused \subseteq refused'
    BY <1>1, <2>2, <2>3, Sends
  <2>5. InCommand => InCommand'
    BY <2>4, CommandsJoin DEF InCommand
  <2>6. (InEvent => InEvent') /\ (InKey => InKey')
    BY <2>1 DEF InEvent, InKey, GoesOn
  <2>7. clicks > 0 => clicks' > 0
    BY <2>1, <2>3
  <2> QED
    BY <1>1, <1>2, <2>1, <2>4, <2>5, <2>6, <2>7
<1>7. CASE HostReceives
  <2> DEFINE evt == toHost[1]
             num == num_of_allowed_cmd_packets
  <2>1. /\ opened /\ opened' /\ evt \in Event /\ 1 \in DOMAIN toHost /\ num \in 0 .. 255
        /\ UNCHANGED <<configured, computing, clicks, late, stale>>
    BY <1>7, EventGoes DEF TypeOK, controllerVars
  <2>2. ~GoesOn(evt) /\ InEvent => InEvent'
    BY <1>7, EventGoes DEF InEvent, GoesOn
  <2>3. InKey' <=> InKey
    BY <2>1 DEF InKey
  <2>4. CASE ~GoesOn(evt) /\ UNCHANGED <<toController, refused>>
    <3>1. InCommand => InCommand'
      BY <2>4 DEF InCommand
    <3> QED
      BY <1>1, <1>2, <2>1, <2>2, <2>3, <2>4, <3>1
  <2>5. CASE ~GoesOn(evt) /\ evt.type = "request" /\ SendCmd(num, Answer(evt.request))
    <3>1. Answer(evt.request) \in Command
      BY <2>1, <2>5, EventFields, Commands
    <3>2. /\ toController' = Append(toController, Answer(evt.request)) \/ toController' = toController
          /\ refused \subseteq refused'
      BY <2>1, <2>5, Sends
    <3>3. InCommand => InCommand'
      BY <3>1, <3>2, CommandsJoin DEF InCommand
    <3> QED
      BY <1>1, <1>2, <2>1, <2>2, <2>3, <2>5, <3>2, <3>3
  <2>6. ASSUME NEW cmd \in BringUpCommand, toController' = Append(toController, cmd)
        PROVE  InCommand'
    <3>1. cmd \in Command
      BY DEF Command
    <3> QED
      BY <2>6, <3>1, CommandsJoin DEF InCommand
  <2>7. CASE /\ GoesOn(evt) /\ evt.type = "complete"
             /\ Successor[evt.cmd] \in BringUpCommand \ {"RESET"}
             /\ SendCmd(evt.ncmd, Successor[evt.cmd])
    <3>1. evt.ncmd \in 0 .. 255 /\ evt.ncmd > 0
      BY <1>1, <2>1, <2>7, EventFields DEF NothingLate, IsAnswer
    <3>2. evt.ncmd # 0
      BY <3>1
    <3>3. toController' = Append(toController, Successor[evt.cmd])
      BY <2>1, <2>7, <3>1, <3>2, Sends, Zenon
    <3> QED
      BY <2>6, <2>7, <3>3
  <2>8. CASE GoesOn(evt) /\ evt.type = "keyReady" /\ SendCmd(num, "LE_SET_ADV_PARAM")
    <3>1. \/ toController' = Append(toController, "LE_SET_ADV_PARAM")
          \/ num = 0 /\ refused' = refused \cup {"LE_SET_ADV_PARAM"}
      BY <2>1, <2>8, Sends
    <3>2. "LE_SET_ADV_PARAM" \in BringUpCommand
      BY DEF BringUpCommand, Successor
    <3>3. Len(configured) = 11
      <4>1. Len(configured) \in 1 .. 14 /\ evt.cmd = BringUp[Len(configured)] /\ evt.cmd = P256
        BY <1>1, <2>1, <2>8 DEF Chain, FollowsLast, GoesOn
      <4> QED
        BY <4>1, Steps
    <3>4. num = 0 => clicks > 0
      BY <1>1, <2>1, <2>8, WindowNeedsClick
    <3> QED
      BY <2>1, <2>6, <3>1, <3>2, <3>3, <3>4
  <2> QED
    BY <1>7, <2>4, <2>5, <2>7, <2>8, HostSends
<1>8. ASSUME NEW ncmd \in Grants, NEW ok \in BOOLEAN, ControllerExecutes(ncmd, ok) PROVE Alive' \/ Ended'
  <2> DEFINE cmd == toController[1]
             evt == [type |-> IF cmd \in KeyCommand THEN "status" ELSE "complete",
                     cmd |-> cmd, ncmd |-> ncmd]
             k == Len(configured)
  <2>1. /\ toController # <<>> /\ toController' = Tail(toController) /\ Emit(evt)
        /\ configured' = IF cmd \in BringUpCommand THEN Append(configured, cmd) ELSE configured
        /\ computing' = CASE cmd \in KeyCommand -> computing \cup {cmd}
                          [] cmd = "RESET"      -> {}
                          [] OTHER              -> computing
        /\ UNCHANGED <<opened, stale, clicks, refused>>
        /\ late' = IF ncmd = 0 THEN late + 1 ELSE late
    BY <1>8 DEF ControllerExecutes, hostVars
  <2>2. opened /\ ~stale /\ late = 0
    <3>1. late \in Nat
      BY DEF TypeOK
    <3> QED
      BY <1>1, <2>1, <3>1
  <2>3. /\ toController \in Seq(Command) /\ configured \in Seq(BringUpCommand)
        /\ 1 \in DOMAIN toController /\ cmd \in Command
    BY <2>1 DEF TypeOK
  <2>4. AtOnePlace /\ FollowsLast
    BY <2>2 DEF Chain
  <2>5. evt \in Event
    BY <2>3 DEF Event
  <2>6. /\ evt.cmd = cmd
        /\ cmd \notin KeyCommand => evt.type = "complete"
    OBVIOUS
  <2> HIDE DEF evt
  <2>7. Len(toHost) + 1 \in DOMAIN toHost' /\ toHost'[Len(toHost) + 1] = evt
    BY <2>1, <2>2, <2>5, EventsCome
  <2>8. CASE cmd \in BringUpCommand
    <3>1. cmd = BringUp[k + 1]
      BY <2>3, <2>4, <2>8 DEF FollowsLast
    <3>2. CASE cmd \in DOMAIN Successor
      <4>1. cmd \notin KeyCommand
        BY <3>2 DEF Successor, KeyCommand
      <4>2. GoesOn(evt)
        BY <2>6, <3>2, <4>1 DEF GoesOn
      <4> QED
        BY <2>7, <4>2 DEF InEvent, GoesOn
    <3>3. CASE cmd = P256
      <4>1. P256 \in computing'
        BY <2>1, <3>3 DEF KeyCommand, P256
      <4> QED
        BY <4>1 DEF InKey
    <3>4. CASE cmd = "LE_SET_SCAN_PARAM"
      <4>1. k < 14 /\ k \in Nat
        BY <2>3, <2>4, <2>8 DEF FollowsLast
      <4>2. k + 1 \in 1 .. 14
        <5> HIDE DEF k
        <5> QED
          BY <4>1
      <4>3. k + 1 = 14
        BY <3>1, <3>4, <4>2, Steps
      <4>4. Len(configured') = k + 1
        BY <2>1, <2>3, <2>8, AppendProperties
      <4> QED
        BY <4>3, <4>4
    <3> QED
      BY <2>8, <3>2, <3>3, <3>4, OtherCommands
  <2>9. CASE cmd \notin BringUpCommand
    <3>1. ~InCommand
      <4>1. Len(toController) <= 1 /\ \A i \in DOMAIN toController : i \in 1 .. Len(toController)
        BY <2>3, <2>4 DEF AtOnePlace
      <4>2. \A i \in DOMAIN toController : i = 1
        BY <2>3, <4>1
      <4> QED
        BY <2>9, <4>2 DEF InCommand
    <3>2. InEvent => InEvent'
      BY <1>3, <2>1, <2>2, <2>5
    <3>3. "RESET" \in BringUpCommand
      BY DEF BringUpCommand, Successor
    <3>4. InKey => InKey'
      BY <2>1, <2>9, <3>3 DEF InKey
    <3> QED
      BY <1>2, <2>1, <2>2, <2>9, <3>1, <3>2, <3>4
  <2> QED
    BY <2>8, <2>9
<1>9. CASE ControllerReturnsCredit
  <2> DEFINE evt == [type |-> "noOpcode", ncmd |-> 1]
  <2>1. evt \in Event
    BY DEF Event
  <2>2. Emit(evt) /\ UNCHANGED <<opened, stale, late, configured, toController, computing, refused, clicks>>
    BY <1>9 DEF ControllerReturnsCredit, hostVars
  <2> HIDE DEF evt
  <2>3. InEvent => InEvent'
    BY <1>1, <1>3, <2>1, <2>2
  <2> QED
    BY <1>1, <1>2, <2>2, <2>3 DEF InCommand, InKey
<1>10. ASSUME NEW cmd \in KeyCommand, ControllerComputesKey(cmd) PROVE Alive' \/ Ended'
  <2> DEFINE evt == [type |-> "keyReady", cmd |-> cmd]
  <2>1. evt \in Event /\ evt.type = "keyReady" /\ evt.cmd = cmd
    BY DEF Event
  <2>2. /\ Emit(evt) /\ UNCHANGED <<opened, stale, late, configured, toController, refused, clicks>>
        /\ computing' = computing \ {cmd}
    BY <1>10 DEF ControllerComputesKey, hostVars
  <2> HIDE DEF evt
  <2>3. InEvent => InEvent'
    BY <1>1, <1>3, <2>1, <2>2
  <2>4. CASE cmd = P256
    <3>1. Len(toHost) + 1 \in DOMAIN toHost' /\ toHost'[Len(toHost) + 1] = evt
      BY <1>1, <2>1, <2>2, EventsCome
    <3>2. InEvent'
      BY <2>1, <2>4, <3>1 DEF InEvent, GoesOn
    <3> QED
      BY <3>2
  <2>5. CASE cmd # P256
    <3>1. InKey => InKey'
      BY <2>2, <2>5 DEF InKey
    <3>2. InCommand => InCommand'
      BY <2>2 DEF InCommand
    <3> QED
      BY <1>1, <1>2, <2>2, <2>3, <3>1, <3>2
  <2> QED
    BY <2>4, <2>5
<1>11. ASSUME NEW request \in Requests, PeerRequests(request) PROVE Alive' \/ Ended'
  <2> DEFINE evt == [type |-> "request", request |-> request]
  <2>1. evt \in Event
    BY DEF Event
  <2>2. Emit(evt) /\ UNCHANGED <<opened, stale, late, configured, toController, computing, refused, clicks>>
    BY <1>11 DEF PeerRequests, hostVars, controllerVars
  <2> HIDE DEF evt
  <2>3. InEvent => InEvent'
    BY <1>1, <1>3, <2>1, <2>2
  <2> QED
    BY <1>1, <1>2, <2>2, <2>3 DEF InCommand, InKey
<1>12. CASE PeerConnects
  <2> DEFINE evt == [type |-> "connected"]
  <2>1. evt \in Event
    BY DEF Event
  <2>2. Emit(evt) /\ UNCHANGED <<opened, stale, late, configured, toController, computing, refused, clicks>>
    BY <1>12 DEF PeerConnects, hostVars
  <2> HIDE DEF evt
  <2>3. InEvent => InEvent'
    BY <1>1, <1>3, <2>1, <2>2
  <2> QED
    BY <1>1, <1>2, <2>2, <2>3 DEF InCommand, InKey
<1>13. CASE UNCHANGED vars
  <2>1. UNCHANGED <<opened, stale, late, configured, toController, computing, refused, clicks, toHost>>
    BY <1>13 DEF vars
  <2> QED
    BY <1>1, <1>2, <2>1 DEF InCommand, InKey, InEvent, GoesOn
<1> QED
  BY <1>4, <1>5, <1>6, <1>7, <1>8, <1>9, <1>10, <1>11, <1>12, <1>13 DEF Next, ControllerWorks

\* With a controller that returns the credit in every answer, the bring-up stops only where a
\* click takes the credit between the Command Status of the P-256 command and its completion
\* (hci.cpp:558): there LE_SET_ADV_PARAM finds none, and nothing repeats it.
THEOREM StallsOnlyThere ==
    ASSUME OneCommandBuffer
    PROVE  Spec => []StallsOnlyInKeyWindow
<1> DEFINE Inv == LedgerInv /\ Chain /\ OnlyChain /\ NothingLate /\ GoesOnOrWindow
<1>1. Init => Inv
  <2> SUFFICES ASSUME Init PROVE Inv
    OBVIOUS
  <2>1. /\ configured = <<>> /\ computing = {} /\ enabled = {} /\ ~connected /\ ~opened /\ ~owed
        /\ Len(toController) = 0 /\ Len(configured) = 0
        /\ DOMAIN toController = {} /\ DOMAIN toHost = {} /\ toHost = <<>>
    BY DEF Init
  <2>2. Chain
    BY <2>1 DEF Chain, AtOnePlace, FollowsLast, Answers, InCommand, InEvent, InKey
  <2> QED
    BY <2>1, <2>2 DEF LedgerInv, CreditLedger, OnlyChain, NothingLate, GoesOnOrWindow
<1>2. TypeOK /\ Inv /\ [Next]_vars /\ TypeOK' => Inv'
  BY LedgerInductive, ChainInductive, OnlyChainInductive, NothingLateInductive, GoesOnInductive
<1>3. TypeOK /\ Inv => StallsOnlyInKeyWindow
  <2> SUFFICES ASSUME TypeOK, Inv, Stalled, late = 0
               PROVE  /\ "LE_SET_ADV_PARAM" \in refused
                      /\ Last(configured) = "LE_READ_LOCAL_P256_PUBLIC_KEY"
                      /\ clicks > 0
    BY DEF StallsOnlyInKeyWindow
  <2>1. opened /\ ~stale /\ configured # BringUp /\ ~InKey
    BY DEF Stalled, InKey, P256
  <2>2. ~InCommand
    <3>1. \A i \in DOMAIN toController : toController[i] \in Range(toController)
      BY DEF Range
    <3> QED
      BY <3>1 DEF InCommand, Stalled
  <2>3. ~InEvent
    BY DEF InEvent, GoesOn, Stalled, P256
  <2>4. /\ configured \in Seq(BringUpCommand)
        /\ \A i \in 1 .. Len(configured) : configured[i] = BringUp[i]
    BY <2>1 DEF TypeOK, Chain
  <2>5. Len(configured) # 14
    <3>1. SUFFICES ASSUME Len(configured) = 14 PROVE FALSE
      OBVIOUS
    <3>2. BringUp \in Seq(BringUpCommand) /\ Len(BringUp) = 14
      BY DEF BringUp, BringUpCommand, Successor
    <3>3. configured = BringUp
      BY <2>4, <3>1, <3>2, SeqEqual
    <3> QED
      BY <2>1, <3>3
  <2>6. Len(configured) = 11 /\ "LE_SET_ADV_PARAM" \in refused /\ clicks > 0
    BY <2>1, <2>2, <2>3, <2>5 DEF GoesOnOrWindow
  <2>7. Last(configured) = P256
    <3>1. configured[11] = BringUp[11]
      BY <2>4, <2>6
    <3> QED
      BY <2>6, <3>1, Steps DEF Last
  <2> QED
    BY <2>6, <2>7 DEF P256
<1> HIDE DEF Inv
<1> QED
  BY <1>1, <1>2, <1>3, TypeCorrect, PTL DEF Spec

-----------------------------------------------------------------------------
(* What the buttons show.                                                   *)

\* What the controller will do once it has taken the command under way.
Shown == IF toController = <<>> THEN enabled ELSE Effect(enabled, Head(toController))

\* A command does to a button the same wherever the others stand, and to another's nothing.
LEMMA EffectOnOne ==
    ASSUME NEW on, NEW off, NEW b \in Button, b \in on <=> b \in off, NEW cmd
    PROVE  /\ b \in Effect(on, cmd) <=> b \in Effect(off, cmd)
           /\ cmd \in UserCommand /\ b \notin ButtonOf(cmd) => (b \in Effect(on, cmd) <=> b \in on)
<1>1. CASE cmd = "RESET"
  <2>1. cmd \notin UserCommand
    BY <1>1, OtherCommands DEF BringUpCommand, Successor
  <2>2. Effect(on, cmd) = {} /\ Effect(off, cmd) = {}
    BY <1>1, Effects, Zenon
  <2> QED
    BY <2>1, <2>2
<1>2. CASE cmd # "RESET" /\ cmd \notin UserCommand
  <2>1. Effect(on, cmd) = on /\ Effect(off, cmd) = off
    BY <1>2, Effects, Zenon
  <2> QED
    BY <1>2, <2>1
<1>3. CASE cmd \in UserCommand
  <2>1. PICK c \in Button : cmd = EnableCommand(c) \/ cmd = DisableCommand(c)
    BY <1>3 DEF UserCommand
  <2>2. c \in ButtonOf(cmd)
    BY <2>1 DEF ButtonOf
  <2>3. CASE cmd = EnableCommand(c)
    <3>1. Effect(on, cmd) = on \cup {c}
      BY <2>3, Effects
    <3>2. Effect(off, cmd) = off \cup {c}
      BY <2>3, Effects
    <3> QED
      BY <2>2, <3>1, <3>2
  <2>4. CASE cmd = DisableCommand(c)
    <3>1. Effect(on, cmd) = on \ {c}
      BY <2>4, Effects
    <3>2. Effect(off, cmd) = off \ {c}
      BY <2>4, Effects
    <3> QED
      BY <2>2, <3>1, <3>2
  <2> QED
    BY <2>1, <2>3, <2>4
<1> QED
  BY <1>1, <1>2, <1>3

LEMMA ObeyedInductive ==
    ASSUME TypeOK, LedgerInv, Obeyed, [Next]_vars, TypeOK', LedgerInv'
    PROVE  Obeyed'
<1> DEFINE Early == /\ ~opened /\ ~owed /\ num_of_allowed_cmd_packets = 0
                    /\ toController = <<>> /\ computing = {} /\ enabled = {}
                    /\ started \subseteq astray
           Truth == \A b \in Button \ astray : b \in started <=> b \in Shown
<1>1. \A c : Controlled(c) = Effect(enabled, c) /\ Controlled(c)' = Effect(enabled', c)
  BY DEF Controlled, Effect
<1>2. /\ opens = 0 => Early
      /\ opened /\ opens = 1 => ~stale /\ Truth
  BY <1>1, Zenon DEF Obeyed, Shown
<1>3. ASSUME opens' = 0 => Early', opened' /\ opens' = 1 => ~stale' /\ Truth' PROVE Obeyed'
  BY <1>1, <1>3, Zenon DEF Obeyed, Shown
<1>4. opens \in Nat /\ started \subseteq Button /\ num_of_allowed_cmd_packets \in 0 .. 255
  BY DEF TypeOK
<1>5. ASSUME UNCHANGED <<started, enabled, toController, astray>>, Truth
      PROVE  Truth'
  BY <1>5 DEF Shown
\* a command sent while the port is open finds none under way
<1>6. ASSUME opened, opened', ~stale', NEW cmd \in Command, toController' = Append(toController, cmd)
      PROVE  /\ toController = <<>> /\ toController' # <<>> /\ Head(toController') = cmd
             /\ Shown = enabled /\ Shown' = Effect(enabled', cmd)
  <2>1. toController = <<>> /\ toController' = <<cmd>>
    BY <1>6, OneCommandNext, CommandsJoin
  <2>2. toController' # <<>> /\ Head(toController') = cmd
    BY <2>1
  <2> QED
    BY <2>1, <2>2 DEF Shown
<1>7. CASE Open
  <2>1. /\ opens' = opens + 1 /\ ~opened /\ opened'
        /\ toController' = Append(toController, "RESET")
        /\ stale' = (toController # <<>> \/ computing # {} \/ owed)
        /\ UNCHANGED <<started, enabled, astray>>
    BY <1>7 DEF Open
  <2>2. opens' # 0
    BY <1>4, <2>1
  <2>3. SUFFICES ASSUME opens' = 1 PROVE ~stale' /\ Truth'
    BY <1>3, <2>2
  <2>4. opens = 0
    BY <1>4, <2>1, <2>3
  <2>5. toController = <<>> /\ computing = {} /\ ~owed /\ started \subseteq astray
    BY <1>2, <2>4
  <2>6. ~stale'
    BY <2>1, <2>5, Zenon
  <2>7. toController' = <<"RESET">>
    BY <2>1, <2>5
  <2>8. Shown' = {}
    <3>1. toController' # <<>> /\ Head(toController') = "RESET"
      BY <2>7
    <3> QED
      BY <3>1, Effects DEF Shown
  <2> QED
    BY <2>1, <2>5, <2>6, <2>8
<1>8. CASE Close
  <2>1. opened /\ ~opened' /\ opens' = opens
    BY <1>8 DEF Close
  <2> QED
    BY <1>2, <1>3, <2>1
<1>9. ASSUME NEW b \in Button, Click(b) PROVE Obeyed'
  <2>1. /\ UNCHANGED <<opened, opens, stale, computing, owed, enabled>>
        /\ astray' = IF num_of_allowed_cmd_packets > 0 THEN astray \ {b} ELSE astray \cup {b}
    BY <1>9 DEF Click, controllerVars
  <2>2. PICK cmd \in Command :
          /\ SendCmd(num_of_allowed_cmd_packets, cmd)
          /\ \/ b \notin started /\ cmd = EnableCommand(b) /\ started' = started \cup {b}
             \/ b \in started /\ cmd = DisableCommand(b) /\ started' = started \ {b}
    BY <1>9, Commands DEF Click
  <2>3. \A c \in Button : c # b => /\ c \in started' <=> c \in started
                                   /\ c \in astray' <=> c \in astray
    BY <2>1, <2>2
  <2>4. ASSUME opens' = 0 PROVE Early'
    <3>1. Early /\ num_of_allowed_cmd_packets' = 0 /\ UNCHANGED toController
      BY <1>2, <2>1, <2>2, <2>4 DEF SendCmd, serial_write
    <3>2. started' \subseteq astray'
      BY <2>1, <2>2, <3>1
    <3> QED
      BY <2>1, <3>1, <3>2
  <2>5. ASSUME opened', opens' = 1 PROVE ~stale' /\ Truth'
    <3>1. opened /\ ~stale /\ ~stale' /\ Truth
      BY <1>2, <2>1, <2>5
    <3>2. CASE num_of_allowed_cmd_packets = 0
      <4>1. b \in astray' /\ toController' = toController
        BY <2>1, <2>2, <3>2 DEF SendCmd, serial_write
      <4>2. Shown' = Shown
        BY <2>1, <4>1 DEF Shown
      <4> QED
        BY <2>3, <3>1, <4>1, <4>2
    <3>3. CASE num_of_allowed_cmd_packets > 0
      <4>1. toController' = Append(toController, cmd)
        <5>1. num_of_allowed_cmd_packets # 0
          BY <1>4, <3>3
        <5> QED
          BY <1>4, <2>2, <2>5, <5>1, Sends, Zenon
      <4>2. Shown = enabled /\ Shown' = Effect(enabled, cmd)
        BY <1>6, <2>1, <3>1, <4>1
      <4>3. CASE cmd = EnableCommand(b) /\ started' = started \cup {b}
        <5>1. Shown' = Shown \cup {b}
          BY <4>2, <4>3, Effects
        <5> QED
          BY <2>3, <3>1, <4>3, <5>1
      <4>4. CASE cmd = DisableCommand(b) /\ started' = started \ {b}
        <5>1. Shown' = Shown \ {b}
          BY <4>2, <4>4, Effects
        <5> QED
          BY <2>3, <3>1, <4>4, <5>1
      <4> QED
        BY <2>2, <4>3, <4>4
    <3> QED
      BY <1>4, <3>2, <3>3
  <2> QED
    BY <1>3, <2>4, <2>5
<1>10. CASE HostReceives
  <2>1. /\ opened /\ opened' /\ toHost[1] \in Event
        /\ UNCHANGED <<opens, started, enabled, stale, astray>>
    BY <1>10, EventGoes DEF controllerVars
  <2>2. opens # 0
    BY <1>2, <2>1
  <2>3. SUFFICES ASSUME opens = 1 PROVE Truth'
    BY <1>2, <1>3, <2>1, <2>2
  <2>4. ~stale /\ Truth
    BY <1>2, <2>1, <2>3
  <2>5. ASSUME UNCHANGED toController PROVE Truth'
    BY <1>5, <2>1, <2>4, <2>5
  <2>6. ASSUME NEW credit \in 0 .. 255, NEW cmd \in Command \ UserCommand, cmd # "RESET",
               SendCmd(credit, cmd)
        PROVE  Truth'
    <3>1. CASE toController' = Append(toController, cmd)
      <4>1. Shown = enabled /\ Shown' = Effect(enabled, cmd)
        BY <1>6, <2>1, <2>4, <3>1
      <4>2. Shown' = Shown
        BY <2>6, <4>1, Effects
      <4> QED
        BY <2>1, <2>4, <4>2
    <3> QED
      BY <2>1, <2>5, <2>6, <3>1, Sends
  <2>7. CASE /\ GoesOn(toHost[1]) /\ toHost[1].type = "complete"
             /\ Successor[toHost[1].cmd] \in BringUpCommand \ {"RESET"}
             /\ SendCmd(toHost[1].ncmd, Successor[toHost[1].cmd])
    <3>1. toHost[1].ncmd \in 0 .. 255
      BY <2>1, <2>7, EventFields DEF IsAnswer
    <3>2. Successor[toHost[1].cmd] \in Command \ UserCommand
      BY <2>7, OtherCommands DEF Command
    <3> QED
      BY <2>6, <2>7, <3>1, <3>2
  <2>8. CASE SendCmd(num_of_allowed_cmd_packets, "LE_SET_ADV_PARAM")
    <3>1. "LE_SET_ADV_PARAM" \in BringUpCommand
      BY DEF BringUpCommand, Successor
    <3>2. "LE_SET_ADV_PARAM" \in Command \ UserCommand
      BY <3>1, Commands, OtherCommands
    <3> QED
      BY <1>4, <2>6, <2>8, <3>2
  <2>9. CASE toHost[1].type = "request" /\ SendCmd(num_of_allowed_cmd_packets, Answer(toHost[1].request))
    <3>1. toHost[1].request \in Requests
      BY <2>1, <2>9, EventFields
    <3>2. Answer(toHost[1].request) \in Command \ UserCommand
      BY <3>1, Commands, OtherCommands
    <3>3. "RESET" \in BringUpCommand
      BY DEF BringUpCommand, Successor
    <3>4. Answer(toHost[1].request) # "RESET"
      BY <3>1, <3>3, OtherCommands
    <3> QED
      BY <1>4, <2>6, <2>9, <3>2, <3>4
  <2> QED
    BY <1>10, <2>5, <2>7, <2>8, <2>9, HostSends
<1>11. ASSUME NEW ncmd \in Grants, NEW ok \in BOOLEAN, ControllerExecutes(ncmd, ok) PROVE Obeyed'
  <2> DEFINE cmd == Head(toController)
  <2>1. /\ toController # <<>> /\ toController' = Tail(toController)
        /\ ok \/ cmd \in UserCommand
        /\ enabled' = IF ok THEN Effect(enabled, cmd) ELSE enabled
        /\ astray' = IF ok THEN astray ELSE astray \cup ButtonOf(cmd)
        /\ UNCHANGED <<opened, opens, started, stale>>
    BY <1>1, <1>11 DEF ControllerExecutes, hostVars
  <2>2. opens # 0
    BY <1>2, <2>1
  <2>3. ASSUME opened, opens = 1 PROVE ~stale' /\ Truth'
    <3>1. ~stale /\ Truth
      BY <1>2, <2>3
    <3>2. toController' = <<>>
      <4> DEFINE n == Len(toController)
      <4>1. n <= 1
        BY <2>3, <3>1, OneCommand
      <4>2. toController \in Seq(Command) /\ n \in Nat \ {0}
        BY <2>1 DEF TypeOK
      <4>3. n = 1
        <5> HIDE DEF n
        <5> QED
          BY <4>1, <4>2
      <4> QED
        BY <2>1, <4>2, <4>3
    <3>3. Shown = Effect(enabled, cmd) /\ Shown' = enabled'
      BY <2>1, <3>2 DEF Shown
    <3>4. CASE ok
      BY <2>1, <3>1, <3>3, <3>4
    <3>5. CASE ~ok
      <4>1. \A b \in Button \ astray' : b \in Shown' <=> b \in Shown
        <5> HIDE DEF cmd
        <5> QED
          BY <2>1, <3>3, <3>5, EffectOnOne
      <4> QED
        BY <2>1, <3>1, <3>5, <4>1
    <3> QED
      BY <3>4, <3>5
  <2> QED
    BY <1>3, <2>1, <2>2, <2>3
<1>12. CASE PeerConnects
  <2>1. /\ enabled # {} /\ enabled' = enabled \ {"Adv"} /\ astray' = astray \cup {"Adv"}
        /\ UNCHANGED <<opened, opens, started, stale, toController>>
    BY <1>12 DEF PeerConnects, hostVars
  <2>2. opens # 0
    BY <1>2, <2>1
  <2>3. ASSUME opened, opens = 1 PROVE ~stale' /\ Truth'
    <3>1. ~stale /\ Truth
      BY <1>2, <2>3
    <3>2. \A b \in Button \ astray' : b \in Shown' <=> b \in Shown
      <4> TAKE b \in Button \ astray'
      <4>1. b \in enabled' <=> b \in enabled
        BY <2>1
      <4> QED
        BY <2>1, <4>1, EffectOnOne DEF Shown
    <3> QED
      BY <2>1, <3>1, <3>2
  <2> QED
    BY <1>3, <2>1, <2>2, <2>3
<1>13. CASE \/ ControllerReturnsCredit
            \/ \E cmd \in KeyCommand : ControllerComputesKey(cmd)
            \/ \E request \in Requests : PeerRequests(request)
            \/ UNCHANGED vars
  <2>1. UNCHANGED <<opened, opens, started, astray, stale, toController, enabled,
                    num_of_allowed_cmd_packets>>
    BY <1>13 DEF ControllerReturnsCredit, ControllerComputesKey, PeerRequests, hostVars,
                 controllerVars, vars
  <2>2. CASE opens = 0
    <3>1. ~owed /\ computing = {} /\ ~opened
      BY <1>2, <2>2
    <3>2. UNCHANGED <<owed, computing>>
      BY <1>13, <3>1 DEF ControllerReturnsCredit, ControllerComputesKey, PeerRequests, vars
    <3> QED
      BY <1>2, <1>3, <2>1, <2>2, <3>2
  <2>3. CASE opens # 0
    <3>1. ASSUME opened, opens = 1 PROVE ~stale' /\ Truth'
      BY <1>2, <1>5, <2>1, <3>1
    <3> QED
      BY <1>3, <2>1, <2>3, <3>1
  <2> QED
    BY <2>2, <2>3
<1> QED
  BY <1>7, <1>8, <1>9, <1>10, <1>11, <1>12, <1>13 DEF Next, ControllerWorks

\* Once all commands are answered, a button that does not show what the controller does is one
\* whose last command was dropped or refused, or whose advertising a connection ended since
\* (mainwindow.cpp:63-73, 91-101, hci.cpp:515-521): each other click was obeyed, once and in
\* order.
THEOREM ButtonsTruthful ==
    ASSUME OneCommandBuffer
    PROVE  Spec => []ButtonsTellTheTruth
<1>1. Init => LedgerInv /\ Obeyed
  BY DEF Init, LedgerInv, CreditLedger, Obeyed
<1>2. TypeOK /\ LedgerInv /\ [Next]_vars => LedgerInv'
  BY LedgerInductive
<1>3. TypeOK /\ LedgerInv /\ Obeyed /\ [Next]_vars /\ TypeOK' /\ LedgerInv' => Obeyed'
  BY ObeyedInductive
<1>4. Obeyed => ButtonsTellTheTruth
  BY DEF Obeyed, ButtonsTellTheTruth, Quiet
<1> QED
  BY <1>1, <1>2, <1>3, <1>4, TypeCorrect, PTL DEF Spec
=============================================================================
