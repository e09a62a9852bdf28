----------------------------- MODULE SmPairing -----------------------------
(***************************************************************************)
(* The security manager (sm.cpp) as the responder of pairings with peers    *)
(* that come and go.  The peers, their users, the links and the controller  *)
(* are external: the peers follow the protocol, their users may mistype or  *)
(* refuse, a link may be lost at any time, and the controller computes one  *)
(* DHKey at a time.  Every event and packet waits in one queue, toHost, and *)
(* is handled in order; a handler that opens a dialog stands in it while    *)
(* the queue grows.  SmCrypto has the cryptographic functions, SmDeviceDb   *)
(* the file of bonds, which alone survives a restart of the program.        *)
(***************************************************************************)
EXTENDS SmDeviceDb, FiniteSets

CONSTANTS
    Peer,         \* the devices that pair with the host
    Handle,       \* connection handles, which the controller uses again
    Offers,       \* the pairing requests the peers may send
    Passkeys,     \* the numbers a user may see or type
    PasskeyBits,  \* bits of a passkey, 20 in the protocol
    Rpas,         \* resolvable addresses of each peer that uses them
    MaxLinks,     \* bound on connections made
    MaxPairings,  \* bound on pairings begun
    MaxRestarts   \* bound on restarts of the program

ASSUME SmAssumption ==
    /\ Handle # {}
    /\ PasskeyBits \in Nat \ {0}
    /\ Passkeys # {} /\ Passkeys \subseteq Nat
    /\ {Rpas, MaxLinks, MaxPairings, MaxRestarts} \subseteq Nat
    /\ \A offer \in Offers : offer.iocap \in 0 .. 4  \* the defined capabilities: the tables' rows

\* config.h: what the host answers to a pairing request
SM_IOCAP == 4
SM_RESP  == [iocap |-> SM_IOCAP, oob |-> FALSE, sc |-> TRUE,
             idist |-> {"ID", "SIGN"}, rdist |-> {"ID", "SIGN"}]

\* pairing_req as memset leaves it
NoReq == [iocap |-> 0, oob |-> FALSE, sc |-> FALSE, idist |-> {}, rdist |-> {}]

-----------------------------------------------------------------------------
(* How a pairing is authenticated: row by the responder's capability,       *)
(* column by the initiator's.                                               *)
JW   == "JUST_WORKS"
IIRD == "PASSKEY_I_INPUT_R_DISPLAY"
IDRI == "PASSKEY_I_DISPLAY_R_INPUT"
IIRI == "PASSKEY_I_INPUT_R_INPUT"
NC   == "NUMERIC_COMPARISON"
sm_pairing_method_t == {JW, IIRD, IDRI, IIRI, NC, "OOB"}

legacy_pairing_method_table ==
    << <<JW, JW, IIRD, JW, IIRD>>,
       <<JW, JW, IIRD, JW, IIRD>>,
       <<IDRI, IDRI, IIRI, JW, IDRI>>,
       <<JW, JW, JW, JW, JW>>,
       <<IDRI, IDRI, IIRD, JW, IDRI>> >>

secure_connection_pairing_method_table ==
    << <<JW, JW, IIRD, JW, IIRD>>,
       <<JW, NC, IIRD, JW, NC>>,
       <<IDRI, IDRI, IIRI, JW, IDRI>>,
       <<JW, JW, JW, JW, JW>>,
       <<IDRI, NC, IIRD, JW, NC>> >>

IsSecureConnection(req) == req.sc /\ SM_RESP.sc

\* Variant: the row of the capability before the host's.
MethodOfRowBefore(req) ==
    IF IsSecureConnection(req)
    THEN IF req.oob \/ SM_RESP.oob THEN "OOB"
         ELSE secure_connection_pairing_method_table[SM_RESP.iocap][req.iocap + 1]
    ELSE legacy_pairing_method_table[SM_RESP.iocap][req.iocap + 1]

\* The host's SM_AUTH asks for MITM protection, so the tables always decide.
__sm_get_pairing_method(req) ==
    IF IsSecureConnection(req)
    THEN IF req.oob \/ SM_RESP.oob THEN "OOB"
         ELSE secure_connection_pairing_method_table[SM_RESP.iocap + 1][req.iocap + 1]
    ELSE IF req.oob /\ SM_RESP.oob THEN "OOB"
         ELSE legacy_pairing_method_table[SM_RESP.iocap + 1][req.iocap + 1]

-----------------------------------------------------------------------------
VARIABLES
    \* the program
    up,          \* it runs: no null pointer was followed
    db,          \* device_db.dat
    conn,        \* the connections, by handle
    askedLast,   \* connect_handle_last_send_le_generate_dhkey
    allowed,     \* num_of_allowed_cmd_packets
    dialog,      \* the dialog a handler stands in
    \* the controller
    toHost,      \* events and packets it has sent the host
    cmd,         \* the command it has to execute
    job,         \* the DHKey it computes
    \* the peers
    link,        \* who is connected under each handle
    air,         \* packets on their way to the peer, by handle
    peer,        \* the peer's end of the pairing, by handle
    bond,        \* what each peer remembers of the host
    \* budgets and history
    links, pairings, restarts,
    computed,    \* long-term keys the peers computed, each with its method
    interrupted, \* peers with which a pairing was cut off or refused half way, or overlapped
    starved,     \* handles whose pairing lost something it waits for
    rekeyed,     \* handles whose link was encrypted again with another key
    overlapped   \* handles whose peer began before all of an earlier pairing was over

hostVars  == <<up, db, conn, askedLast, allowed, dialog>>
ctrlVars  == <<cmd, job>>
peerVars  == <<link, peer, bond>>
budgets   == <<links, pairings, restarts>>
history   == <<computed, interrupted, starved, rekeyed, overlapped>>
vars == <<hostVars, toHost, ctrlVars, air, peerVars, budgets, history>>

None == [none |-> TRUE]
NoBond == None

\* addresses, keys and random values as symbols
LocalAddr == [type |-> "random", prand |-> 0, hash |-> <<"local">>]
HostPk    == <<"pk", "host">>
Pk(p)     == <<"pk", p>>
Irk(p)    == <<"irk", p>>
DhKey(pk) == <<"dh", pk>>
AddressesOf(p) == {Public(p)} \cup {Resolvable(Irk(p), k) : k \in 1 .. Rpas}
iocapOf(req)   == <<req.iocap, req.oob, req.sc>>

\* What hci_add_connection allocates and clears, and the fields of sm_connection_t that are
\* read again; local_tk and remote_tk are always assigned together.
NewConnection(l) ==
    [link |-> l.n, addr |-> l.addr, req |-> NoReq, responded |-> FALSE, method |-> JW,
     sc |-> FALSE, pk |-> ZeroKey, confirm |-> ZeroKey, dhkey |-> ZeroKey,
     local_random |-> ZeroKey, remote_random |-> ZeroKey, tk |-> 0,
     passkey_num |-> 0, passkey_index |-> 0, passkey_r |-> 0,
     is_encrypted |-> 0, is_authenticated |-> 0, received |-> {},
     remote_irk |-> ZeroKey, remote_addr |-> ZeroAddr, remote_csrk |-> ZeroKey, draws |-> 0]

\* sm_generate_random: a value nobody drew before
sm_generate_random(c) == <<"host", c.link, c.draws>>
Drawn(c)              == [c EXCEPT !.draws = @ + 1]
Bit(n, i)             == (n \div (2 ^ i)) % 2

-----------------------------------------------------------------------------
(* What the handlers do to the outside.                                     *)
Msg(op, value) == [op |-> op, value |-> value]

\* The controller has buffers for the packets of one handler; HciAclTx is about the case
\* that it has not.
sm_send(h, msgs) ==
    air' = IF link[h] = None THEN air ELSE [air EXCEPT ![h] = @ \o msgs]

\* The command is dropped when the one credit is out.
SendCmd(c) ==
    IF allowed > 0
    THEN /\ cmd' = c /\ allowed' = allowed - 1 /\ UNCHANGED starved
    ELSE /\ starved' = starved \cup {c.h} /\ UNCHANGED <<cmd, allowed>>
NoCmd == UNCHANGED <<cmd, allowed, starved>>

\* the handler goes on with connection c and sends msgs
Goes(h, c, msgs) == conn' = [conn EXCEPT ![h] = c] /\ sm_send(h, msgs)
Opens(kind, h, number) == dialog' = [kind |-> kind, h |-> h, number |-> number]
NoDialog         == dialog' = None

\* Variant: the number of the bit is left where the last pairing ended.
WithPasskeyOnly(c, n) == [c EXCEPT !.passkey_num = n, !.tk = n]

\* secure connection: a passkey shown or typed, to be agreed on bit by bit
WithPasskey(c, n) == [c EXCEPT !.passkey_num = n, !.passkey_index = 0, !.tk = n]

\* Variant: the two randoms in the wrong order.
ComparedSwapped(c, value) == __sm_g2(c.pk, HostPk, c.local_random, value)

\* numeric comparison: the number shown
Compared(c, value) == __sm_g2(c.pk, HostPk, value, c.local_random)

Confirm(c, tk) == __sm_c1(tk, c.local_random, c.req, SM_RESP, c.addr, LocalAddr)
Failed(reason) == Msg("pairing_failed", reason)
-----------------------------------------------------------------------------
(* The handlers of the SM packets, each with its connection's state.        *)
__sm_recv_pairing_req(h, req) ==
    LET m == __sm_get_pairing_method(req)
        c == [conn[h] EXCEPT !.req = req, !.responded = TRUE, !.method = m,
                             !.sc = IsSecureConnection(req)]
    IN  /\ IF ~c.sc /\ m = IIRD
           THEN \E n \in Passkeys :
                   /\ Goes(h, [c EXCEPT !.passkey_num = n, !.tk = n], <<Msg("pairing_resp", SM_RESP)>>)
                   /\ Opens("show", h, <<n>>)
           ELSE Goes(h, c, <<Msg("pairing_resp", SM_RESP)>>) /\ NoDialog
        /\ NoCmd /\ UNCHANGED <<db, askedLast>>

__sm_recv_pairing_public_key(h, pk) ==
    /\ Goes(h, [conn[h] EXCEPT !.pk = pk], <<>>)
    /\ askedLast' = h
    /\ SendCmd([type |-> "generate_dhkey", h |-> h, pk |-> pk])
    /\ NoDialog /\ UNCHANGED db

\* Variant: the DHKey is asked for at the confirm value, although the peer may have given up.
ConfirmAsksDhkey(h, value) ==
    LET c == Drawn([conn[h] EXCEPT !.confirm = value, !.local_random = sm_generate_random(conn[h])])
    IN  /\ Goes(h, c, <<Msg("pairing_confirm", __sm_f4(HostPk, c.pk, c.local_random, 0))>>)
        /\ askedLast' = h
        /\ SendCmd([type |-> "generate_dhkey", h |-> h, pk |-> c.pk])
        /\ NoDialog /\ UNCHANGED db

__sm_recv_pairing_confirm(h, value) ==
    LET c == Drawn([conn[h] EXCEPT !.confirm = value, !.local_random = sm_generate_random(conn[h])])
        r == 128 + Bit(c.passkey_num, c.passkey_index)
    IN  /\ CASE c.sc ->
                  /\ Goes(h, [c EXCEPT !.passkey_r = r],
                          <<Msg("pairing_confirm", __sm_f4(HostPk, c.pk, c.local_random, r))>>)
                  /\ NoDialog
             [] ~c.sc /\ c.method = IDRI ->
                  Goes(h, c, <<Msg("keypress", "started")>>) /\ Opens("legacy_input", h, <<>>)
             [] OTHER ->
                  LET tk == IF c.method = JW THEN 0 ELSE c.tk
                  IN  /\ Goes(h, [c EXCEPT !.tk = tk], <<Msg("pairing_confirm", Confirm(c, tk))>>)
                      /\ NoDialog
        /\ NoCmd /\ UNCHANGED <<db, askedLast>>

\* Variant: the method is not stored.
BondEntryNoMethod(c, ltk) ==
    [ZeroEntry EXCEPT !.remote_addr = c.addr, !.local_ltk = ltk,
                      !.local_csrk = <<"csrk", c.link, c.draws>>,
                      !.is_secure_connection = c.sc]

\* The entry both kinds of pairing store, before any key of the peer arrived.
BondEntry(c, ltk) ==
    [ZeroEntry EXCEPT !.remote_addr = c.addr, !.local_ltk = ltk,
                      !.local_csrk = <<"csrk", c.link, c.draws>>,
                      !.is_secure_connection = c.sc, !.pairing_method = c.method]

__sm_recv_pairing_random(h, value) ==
    LET c    == [conn[h] EXCEPT !.remote_random = value]
        mine == Msg("pairing_random", c.local_random)
        f4   == __sm_f4(c.pk, HostPk, value, c.passkey_r)
        c1   == __sm_c1(c.tk, value, c.req, SM_RESP, c.addr, LocalAddr)
    IN  /\ CASE c.sc /\ c.method = JW -> Goes(h, c, <<mine>>) /\ NoDialog
             [] c.sc /\ c.method = NC ->
                  /\ Goes(h, c, <<mine>>)
                  /\ Opens("compare", h, Compared(c, value))
             [] c.sc /\ c.method \in {IIRD, IDRI} ->
                  /\ IF f4 = c.confirm
                     THEN Goes(h, [c EXCEPT !.passkey_index = @ + 1], <<mine>>)
                     ELSE Goes(h, c, <<Failed("CONFIRM_VALUE")>>)
                  /\ NoDialog
             [] ~c.sc /\ c1 = c.confirm -> Goes(h, Drawn(c), <<mine>>) /\ NoDialog
             [] ~c.sc /\ c1 # c.confirm -> Goes(h, c, <<Failed("CONFIRM_VALUE")>>) /\ NoDialog
             [] OTHER -> Goes(h, c, <<>>) /\ NoDialog
        /\ db' = IF ~c.sc /\ c1 = c.confirm
                 THEN Store(db, c.addr, BondEntry(c, __sm_s1(c.tk, c.local_random, value)))
                 ELSE db
        /\ NoCmd /\ UNCHANGED askedLast

\* Variant: the peer's check is not compared.
DhkeyCheckUnchecked(h, value) ==
    LET c    == conn[h]
        keys == __sm_f5(c.dhkey, c.remote_random, c.local_random, c.addr, LocalAddr)
    IN  /\ Goes(h, Drawn(c), <<>>)
        /\ db' = Store(db, c.addr, BondEntry(c, keys.ltk))
        /\ NoDialog /\ NoCmd /\ UNCHANGED askedLast

__sm_recv_pairing_dhkey_check(h, value) ==
    LET c    == conn[h]
        keys == __sm_f5(c.dhkey, c.remote_random, c.local_random, c.addr, LocalAddr)
        ea   == __sm_f6(keys.mackey, c.remote_random, c.local_random, c.tk, iocapOf(c.req),
                        c.addr, LocalAddr)
        eb   == __sm_f6(keys.mackey, c.local_random, c.remote_random, c.tk, iocapOf(SM_RESP),
                        LocalAddr, c.addr)
    IN  /\ IF value = ea
           THEN /\ Goes(h, Drawn(c), <<Msg("dhkey_check", eb)>>)
                /\ db' = Store(db, c.addr, BondEntry(c, keys.ltk))
           ELSE /\ Goes(h, c, <<Failed("DHKEY_CHECK")>>)
                /\ UNCHANGED db
        /\ NoDialog /\ NoCmd /\ UNCHANGED askedLast

\* step 10: once every kind of key the response asked for has come since the connection was
\* made, they go into the entry of the peer.
__sm_save_device_info(c) ==
    LET expected == IF c.responded THEN SM_RESP.idist ELSE {}
        missing  == \/ "ENC"  \in expected /\ ~({"encryption_info", "central_id"} \subseteq c.received)
                    \/ "ID"   \in expected /\ ~({"identity_info", "identity_address"} \subseteq c.received)
                    \/ "SIGN" \in expected /\ "signing_info" \notin c.received
    IN  IF missing \/ ~Found(db, c.addr) THEN db
        ELSE __sm_device_db_entry_update(db, c.addr,
                [__sm_device_db_entry_get(db, c.addr) EXCEPT
                    !.remote_addr = c.remote_addr, !.remote_irk = c.remote_irk,
                    !.remote_csrk = c.remote_csrk])

\* step 9: the five handlers of the peer's keys
RecvKey(h, op, value) ==
    LET c == [conn[h] EXCEPT
                !.received    = @ \cup {op},
                !.remote_irk  = IF op = "identity_info" THEN value ELSE @,
                !.remote_addr = IF op = "identity_address" THEN value ELSE @,
                !.remote_csrk = IF op = "signing_info" THEN value ELSE @]
    IN  /\ Goes(h, c, <<>>)
        /\ db' = __sm_save_device_info(c)
        /\ NoDialog /\ NoCmd /\ UNCHANGED askedLast

KeyOp == {"encryption_info", "central_id", "identity_info", "identity_address", "signing_info"}

\* An operation code the host does not know is only logged, pairing_failed among them.
sm_recv(h, msg) ==
    /\ CASE msg.op = "pairing_req"        -> __sm_recv_pairing_req(h, msg.value)
         [] msg.op = "pairing_public_key" -> __sm_recv_pairing_public_key(h, msg.value)
         [] msg.op = "pairing_confirm"    -> __sm_recv_pairing_confirm(h, msg.value)
         [] msg.op = "pairing_random"     -> __sm_recv_pairing_random(h, msg.value)
         [] msg.op = "dhkey_check"        -> __sm_recv_pairing_dhkey_check(h, msg.value)
         [] msg.op \in KeyOp              -> RecvKey(h, msg.op, msg.value)
         [] OTHER -> NoDialog /\ NoCmd /\ UNCHANGED <<conn, air, db, askedLast>>
    /\ UNCHANGED <<up, interrupted, rekeyed>>
-----------------------------------------------------------------------------
(* The handlers of the controller's events.                                 *)

\* secure connection, step 3: the DHKey goes to whoever asked last; when that connection is
\* gone, hci_find_connection_by_handle gave a null pointer.
sm_recv_evt_le_generate_dhkey_complete(e) ==
    LET h == askedLast
        c == [conn[h] EXCEPT !.dhkey = e.dhkey]
        d == Drawn([c EXCEPT !.tk = 0, !.local_random = sm_generate_random(c)])
        pk == Msg("pairing_public_key", HostPk)
        cb == __sm_f4(HostPk, c.pk, d.local_random, 0)
    IN  /\ IF conn[h] = None
           THEN up' = FALSE /\ NoDialog /\ UNCHANGED <<conn, air>>
           ELSE /\ UNCHANGED up
                /\ CASE c.method \in {JW, NC} ->
                          Goes(h, d, <<pk, Msg("pairing_confirm", cb)>>) /\ NoDialog
                     [] c.method = IIRD ->
                          \E n \in Passkeys :
                             /\ Goes(h, WithPasskey(c, n), <<pk>>)
                             /\ Opens("show", h, <<n>>)
                     [] c.method = IDRI ->
                          Goes(h, c, <<pk, Msg("keypress", "started")>>) /\ Opens("sc_input", h, <<>>)
                     [] OTHER -> Goes(h, c, <<pk>>) /\ NoDialog
        /\ starved' = IF e.h = h THEN starved ELSE starved \cup {e.h}
        /\ UNCHANGED <<db, askedLast, cmd, allowed, interrupted, rekeyed>>

\* step 7
sm_recv_evt_le_ltk_req(h) ==
    LET addr == conn[h].addr
    IN  /\ SendCmd(IF Found(db, addr)
                   THEN [type |-> "ltk_req_reply", h |-> h, ltk |-> __sm_device_db_entry_get(db, addr).local_ltk]
                   ELSE [type |-> "ltk_req_neg_reply", h |-> h])
        /\ NoDialog
        /\ UNCHANGED <<up, conn, air, db, askedLast, interrupted, rekeyed>>

\* Variant: the signing key is forgotten.
HostKeysWithoutSign(c, entry) ==
    IF "ID" \in c.req.rdist
    THEN <<Msg("identity_info", Irk("host")), Msg("identity_address", Public("host"))>>
    ELSE <<>>

\* The keys the host distributes are those the request allows, whatever its response said.
HostKeys(c, entry) ==
    LET rdist == c.req.rdist
        only(kind, msgs) == IF kind \in rdist THEN msgs ELSE <<>>
    IN  only("ENC", <<Msg("encryption_info", entry.local_ltk), Msg("central_id", ZeroKey)>>)
        \o only("ID", <<Msg("identity_info", Irk("host")), Msg("identity_address", Public("host"))>>)
        \o only("SIGN", <<Msg("signing_info", entry.local_csrk)>>)

\* step 8: the status of the event is not looked at, and a failed encryption deletes the entry.
sm_recv_evt_encryption_change(h, encryption_enabled) ==
    LET c     == conn[h]
        entry == __sm_device_db_entry_get(db, c.addr)
        auth  == IF entry.pairing_method # JW THEN 1 ELSE 0
    IN  /\ CASE ~Found(db, c.addr) -> UNCHANGED <<conn, air, db>>
             [] Found(db, c.addr) /\ encryption_enabled = 1 ->
                  /\ Goes(h, [c EXCEPT !.is_encrypted = 1, !.is_authenticated = auth], HostKeys(c, entry))
                  /\ db' = IF entry.is_encrypted # 1 \/ entry.is_authenticated # auth
                           THEN __sm_device_db_entry_update(db, c.addr,
                                  [entry EXCEPT !.is_encrypted = 1, !.is_authenticated = auth])
                           ELSE db
             [] OTHER ->
                  /\ Goes(h, [c EXCEPT !.is_encrypted = 0, !.is_authenticated = 0], <<>>)
                  /\ db' = __sm_device_db_entry_delete(db, c.addr)
        /\ NoDialog /\ NoCmd
        /\ UNCHANGED <<up, askedLast, interrupted, rekeyed>>

\* Connections come and go, answers give the command credit back, and the completion of an
\* encryption with a new key has no case in hci_recv_evt.
OtherEvent(e) ==
    /\ conn' = CASE e.type = "conn_complete"    -> [conn EXCEPT ![e.h] = NewConnection(e.link)]
                 [] e.type = "disconn_complete" -> [conn EXCEPT ![e.h] = None]
                 [] OTHER                       -> conn
    /\ allowed' = IF e.type = "command_answered" THEN 1 ELSE allowed
    /\ NoDialog
    /\ UNCHANGED <<up, air, db, askedLast, cmd, interrupted, starved, rekeyed>>

HostReceives ==
    /\ up /\ dialog = None
    /\ toHost # <<>>
    /\ toHost' = Tail(toHost)
    /\ LET e == Head(toHost) IN
       CASE e.type = "sm"                -> sm_recv(e.h, e.msg)
         [] e.type = "generate_dhkey"    -> sm_recv_evt_le_generate_dhkey_complete(e)
         [] e.type = "ltk_req"           -> sm_recv_evt_le_ltk_req(e.h)
         [] e.type = "encryption_change" -> sm_recv_evt_encryption_change(e.h, e.enabled)
         [] OTHER                        -> OtherEvent(e)
    /\ UNCHANGED <<job, peerVars, budgets, computed, overlapped>>

\* The user presses a button of the dialog and the handler that opened it goes on.
DialogShown(h) == dialog.kind = "show" /\ UNCHANGED <<conn, air, interrupted>>

DialogInput(h) ==
    /\ dialog.kind \in {"sc_input", "legacy_input"}
    /\ \/ \E n \in Passkeys :
             LET c == [conn[h] EXCEPT !.passkey_num = n, !.tk = n]
                 done == Msg("keypress", "completed")
             IN  IF dialog.kind = "sc_input"
                 THEN Goes(h, WithPasskey(conn[h], n), <<done>>)
                 ELSE Goes(h, c, <<done, Msg("pairing_confirm", Confirm(c, n))>>)
       \/ Goes(h, [conn[h] EXCEPT !.passkey_num = 0], <<Failed("PASSKEY_ENTRY")>>)
    /\ UNCHANGED interrupted

\* A "No" is told to the peer.  The host keeps no note of it: it goes on to answer the peer's check,
\* should that wait behind the dialog or come later, and stores its key as of any comparison.
DialogCompare(h) ==
    /\ dialog.kind = "compare"
    /\ \/ UNCHANGED <<conn, air, interrupted>>
       \/ /\ Goes(h, conn[h], <<Failed("NUMERIC_COMPARISON")>>)
          /\ interrupted' = interrupted \cup {p \in Peer : conn[h].addr \in AddressesOf(p)}

DialogAnswered ==
    /\ up /\ dialog # None
    /\ DialogShown(dialog.h) \/ DialogInput(dialog.h) \/ DialogCompare(dialog.h)
    /\ dialog' = None
    /\ UNCHANGED <<up, db, askedLast, allowed, toHost, ctrlVars, peerVars, budgets, computed, starved, rekeyed, overlapped>>
-----------------------------------------------------------------------------
(* The controller, external: it executes the host's commands, computes a    *)
(* DHKey in its own time, and refuses a second one meanwhile.               *)
Answered == [type |-> "command_answered"]

\* A DHKey is under way; and its completion, or the one asked for next, goes to h.
DhkeyUnderWay ==
    \/ cmd # None /\ cmd.type = "generate_dhkey"
    \/ job # None
    \/ \E i \in DOMAIN toHost : toHost[i].type = "generate_dhkey"
AwaitsDhkey(h) ==
    \/ askedLast = h /\ DhkeyUnderWay
    \/ \E i \in DOMAIN toHost : /\ toHost[i].type = "sm" /\ toHost[i].h = h
                                /\ toHost[i].msg.op = "pairing_public_key"

NewPeer == [step |-> "idle", pairing |-> FALSE, req |-> NoReq, method |-> JW, tk |-> 0,
            random |-> ZeroKey, host_random |-> ZeroKey, confirm |-> ZeroKey, round |-> 0,
            ltk |-> ZeroKey, encrypted |-> ZeroKey, waits |-> {}, draws |-> 0]

\* a link ends, for the controller and the peer at once
Unlink(h) ==
    /\ link' = [link EXCEPT ![h] = None]
    /\ peer' = [peer EXCEPT ![h] = NewPeer]
    /\ air'  = [air EXCEPT ![h] = <<>>]
    /\ starved' = starved \ {h}
    /\ rekeyed' = rekeyed \ {h}
    /\ interrupted' = IF peer[h].pairing \/ AwaitsDhkey(h) THEN interrupted \cup {link[h].peer} ELSE interrupted

\* The peer learns that the link is encrypted: it keeps the key of a pairing, then waits for
\* the host's keys before it sends its own.
KeysSent(h) ==
    LET p == link[h].peer
        only(kind, msgs) == IF kind \in peer[h].req.idist \cap SM_RESP.idist THEN msgs ELSE <<>>
        msgs == only("ID", <<Msg("identity_info", Irk(p)), Msg("identity_address", Public(p))>>)
                \o only("SIGN", <<Msg("signing_info", <<"csrk", p, link[h].n, peer[h].draws>>)>>)
    IN  [i \in DOMAIN msgs |-> [type |-> "sm", h |-> h, msg |-> msgs[i]]]

Encrypted(h) ==
    LET p     == link[h].peer
        st    == peer[h]
        waits == IF st.pairing THEN st.req.rdist \cap SM_RESP.rdist ELSE {}
        first == st.encrypted = ZeroKey
        event == IF first THEN [type |-> "encryption_change", h |-> h, enabled |-> 1]
                          ELSE [type |-> "key_refresh", h |-> h]
        own   == IF st.pairing /\ waits = {} THEN KeysSent(h) ELSE <<>>
    IN  /\ toHost' = toHost \o <<Answered, event>> \o own
        /\ peer' = [peer EXCEPT ![h].encrypted = st.ltk, ![h].waits = waits,
                                ![h].step = IF waits = {} THEN "idle" ELSE "keys",
                                ![h].pairing = waits # {}]
        /\ bond' = IF ~st.pairing THEN bond
                   ELSE [bond EXCEPT ![p] =
                           IF IsSecureConnection(st.req)
                           THEN [ltk |-> st.ltk, method |-> st.method,
                                 csrk |-> <<"csrk", p, link[h].n, st.draws>>]
                           ELSE NoBond]
        /\ rekeyed' = IF first THEN rekeyed ELSE rekeyed \cup {h}
        /\ starved' = IF ~first /\ waits # {} THEN starved \cup {h} ELSE starved
        /\ UNCHANGED <<job, link, air, interrupted>>

ControllerExecutes ==
    /\ cmd # None
    /\ cmd' = None
    /\ LET h == cmd.h IN
       CASE cmd.type = "generate_dhkey" ->
              /\ job' = IF job = None THEN [h |-> h, pk |-> cmd.pk] ELSE job
              /\ starved' = IF job = None THEN starved ELSE starved \cup {h}
              /\ toHost' = Append(toHost, Answered)
              /\ UNCHANGED <<air, peerVars, interrupted, rekeyed>>
         [] cmd.type # "generate_dhkey" /\ peer[h].step # "encrypt" ->
              /\ toHost' = Append(toHost, Answered)
              /\ UNCHANGED <<job, air, peerVars, interrupted, starved, rekeyed>>
         [] cmd.type = "ltk_req_reply" /\ peer[h].step = "encrypt" /\ cmd.ltk = peer[h].ltk ->
              Encrypted(h)
         [] cmd.type = "ltk_req_reply" /\ peer[h].step = "encrypt" /\ cmd.ltk # peer[h].ltk ->
              /\ Unlink(h)
              /\ \E told \in {<<>>, <<[type |-> "encryption_change", h |-> h, enabled |-> 0]>>} :
                    toHost' = toHost \o <<Answered>> \o told \o <<[type |-> "disconn_complete", h |-> h]>>
              /\ UNCHANGED <<job, bond>>
         [] OTHER ->
              /\ peer' = [peer EXCEPT ![h].step = "idle", ![h].pairing = FALSE]
              /\ toHost' = Append(toHost, Answered)
              /\ UNCHANGED <<job, air, link, bond, interrupted, starved, rekeyed>>
    /\ UNCHANGED <<hostVars, budgets, computed, overlapped>>

ControllerComputes ==
    /\ job # None
    /\ job' = None
    /\ toHost' = Append(toHost, [type |-> "generate_dhkey", h |-> job.h, dhkey |-> DhKey(job.pk)])
    /\ UNCHANGED <<hostVars, cmd, air, peerVars, budgets, history>>
-----------------------------------------------------------------------------

(* The peers and their users, external.                                     *)
PeerMethod(req) ==
    LET r == SM_RESP.iocap
        i == req.iocap
    IN  CASE req.sc /\ req.oob             -> "OOB"
          [] ~(req.sc /\ req.oob) /\ 3 \in {i, r} -> JW
          [] ~(req.sc /\ req.oob) /\ 3 \notin {i, r} ->
               IF req.sc /\ {i, r} \subseteq {1, 4} THEN NC
               ELSE IF i = 2 /\ r = 2 THEN IIRI
               ELSE IF r \in {2, 4} /\ i # 2 THEN IDRI
               ELSE IF i \in {2, 4} THEN IIRD ELSE JW

FromPeer(h, msgs) == [i \in DOMAIN msgs |-> [type |-> "sm", h |-> h, msg |-> msgs[i]]]

PeerSays(h, st, msgs) ==
    /\ peer' = [peer EXCEPT ![h] = st]
    /\ toHost' = toHost \o FromPeer(h, msgs)

PeerAborts(h) ==
    PeerSays(h, [peer[h] EXCEPT !.step = "idle", !.pairing = FALSE], <<Failed("PEER")>>)

PeerRandom(h) == <<"peer", link[h].n, peer[h].draws>>
PeerKeys(h, host_random) ==
    __sm_f5(DhKey(Pk(link[h].peer)), peer[h].random, host_random, link[h].addr, LocalAddr)

\* the peer commits itself to a fresh random value, and to bit number "round" of its passkey
PeerConfirms(h, tk, round) ==
    LET st == [peer[h] EXCEPT !.step = "confirm", !.tk = tk, !.round = round,
                              !.random = PeerRandom(h), !.draws = @ + 1]
        c  == IF IsSecureConnection(st.req)
              THEN __sm_f4(Pk(link[h].peer), HostPk, st.random, 128 + Bit(tk, round))
              ELSE __sm_c1(tk, st.random, st.req, SM_RESP, link[h].addr, LocalAddr)
    IN  PeerSays(h, st, <<Msg("pairing_confirm", c)>>)

PeerChecks(h, st) ==
    LET keys == PeerKeys(h, st.host_random)
        ea   == __sm_f6(keys.mackey, st.random, st.host_random, st.tk, iocapOf(st.req),
                        link[h].addr, LocalAddr)
    IN  /\ PeerSays(h, [st EXCEPT !.step = "check", !.ltk = keys.ltk], <<Msg("dhkey_check", ea)>>)
        /\ computed' = computed \cup {[ltk |-> keys.ltk, method |-> st.method]}

PeerStartsEncryption(h, st) ==
    /\ peer' = [peer EXCEPT ![h] = [st EXCEPT !.step = "encrypt"]]
    /\ toHost' = Append(toHost, [type |-> "ltk_req", h |-> h])

PeerGetsResponse(h) ==
    LET m  == PeerMethod(peer[h].req)
        st == [peer[h] EXCEPT !.method = m]
    IN  CASE IsSecureConnection(st.req) ->
               PeerSays(h, [st EXCEPT !.step = "pk"], <<Msg("pairing_public_key", Pk(link[h].peer))>>)
          [] ~IsSecureConnection(st.req) /\ m = IIRD -> PeerSays(h, [st EXCEPT !.step = "enter"], <<>>)
          [] OTHER -> PeerSays(h, [st EXCEPT !.step = "begin"], <<>>)

PeerGetsPublicKey(h) ==
    LET st == peer[h]
        r  == PeerRandom(h)
    IN  CASE st.method \in {JW, NC} -> PeerSays(h, [st EXCEPT !.step = "confirm"], <<>>)
          [] st.method = IIRD       -> PeerSays(h, [st EXCEPT !.step = "enter"], <<>>)
          [] st.method = IDRI       -> PeerSays(h, [st EXCEPT !.step = "begin"], <<>>)
          [] OTHER -> PeerSays(h, [st EXCEPT !.step = "random", !.random = r, !.draws = @ + 1],
                               <<Msg("pairing_random", r)>>)

PeerGetsConfirm(h, value) ==
    LET st  == [peer[h] EXCEPT !.step = "random", !.confirm = value]
        new == IsSecureConnection(st.req) /\ st.method \in {JW, NC}
        r   == IF new THEN PeerRandom(h) ELSE st.random
    IN  PeerSays(h, [st EXCEPT !.random = r, !.draws = IF new THEN @ + 1 ELSE @],
                 <<Msg("pairing_random", r)>>)

PeerGetsRandom(h, value) ==
    LET st   == [peer[h] EXCEPT !.host_random = value]
        bit  == IF st.method \in {JW, NC} THEN 0 ELSE 128 + Bit(st.tk, st.round)
        seen == IF IsSecureConnection(st.req) THEN __sm_f4(HostPk, Pk(link[h].peer), value, bit)
                ELSE __sm_c1(st.tk, value, st.req, SM_RESP, link[h].addr, LocalAddr)
        stk  == __sm_s1(st.tk, value, st.random)
    IN  CASE seen # st.confirm -> PeerAborts(h) /\ UNCHANGED computed
          [] seen = st.confirm /\ ~IsSecureConnection(st.req) ->
               /\ PeerStartsEncryption(h, [st EXCEPT !.ltk = stk])
               /\ computed' = computed \cup {[ltk |-> stk, method |-> st.method]}
          [] seen = st.confirm /\ IsSecureConnection(st.req) /\ st.method = NC ->
               PeerSays(h, [st EXCEPT !.step = "compare"], <<>>) /\ UNCHANGED computed
          [] seen = st.confirm /\ IsSecureConnection(st.req) /\ st.method # NC ->
               IF st.method = JW \/ st.round + 1 = PasskeyBits THEN PeerChecks(h, st)
               ELSE /\ PeerSays(h, [st EXCEPT !.step = "begin", !.round = @ + 1], <<>>)
                    /\ UNCHANGED computed

PeerGetsCheck(h, value) ==
    LET st == peer[h]
        eb == __sm_f6(PeerKeys(h, st.host_random).mackey, st.host_random, st.random, st.tk,
                      iocapOf(SM_RESP), LocalAddr, link[h].addr)
    IN  IF value = eb THEN PeerStartsEncryption(h, st) ELSE PeerAborts(h)

PeerGetsKey(h, msg) ==
    LET kind  == CASE msg.op = "identity_address" -> {"ID"}
                   [] msg.op = "signing_info"     -> {"SIGN"}
                   [] OTHER                       -> {}
        waits == peer[h].waits \ kind
        last  == waits = {}
        p     == link[h].peer
    IN  /\ peer' = [peer EXCEPT ![h].waits = waits, ![h].step = IF last THEN "idle" ELSE @,
                                ![h].pairing = IF last THEN FALSE ELSE @]
        /\ toHost' = IF last THEN toHost \o KeysSent(h) ELSE toHost
        /\ bond' = IF msg.op = "encryption_info" /\ ~IsSecureConnection(peer[h].req)
                   THEN [bond EXCEPT ![p] = [ltk |-> msg.value, method |-> peer[h].method,
                                             csrk |-> <<"csrk", p, link[h].n, peer[h].draws>>]]
                   ELSE bond

PeerReceives(h) ==
    /\ air[h] # <<>>
    /\ air' = [air EXCEPT ![h] = Tail(@)]
    /\ LET msg  == Head(air[h])
           step == peer[h].step
       IN  CASE msg.op = "keypress" \/ (msg.op \in KeyOp /\ step # "keys") -> UNCHANGED <<peer, toHost, bond, computed>>
             [] msg.op = "pairing_failed" ->
                  /\ peer' = [peer EXCEPT ![h].step = IF peer[h].pairing THEN "idle" ELSE @,
                                          ![h].pairing = FALSE]
                  /\ UNCHANGED <<toHost, bond, computed>>
             [] msg.op \in KeyOp /\ step = "keys" -> PeerGetsKey(h, msg) /\ UNCHANGED computed
             [] msg.op = "pairing_resp" /\ step = "resp" -> PeerGetsResponse(h) /\ UNCHANGED <<bond, computed>>
             [] msg.op = "pairing_public_key" /\ step = "pk" -> PeerGetsPublicKey(h) /\ UNCHANGED <<bond, computed>>
             [] msg.op = "pairing_confirm" /\ step = "confirm" -> PeerGetsConfirm(h, msg.value) /\ UNCHANGED <<bond, computed>>
             [] msg.op = "pairing_random" /\ step = "random" -> PeerGetsRandom(h, msg.value) /\ UNCHANGED bond
             [] msg.op = "dhkey_check" /\ step = "check" -> PeerGetsCheck(h, msg.value) /\ UNCHANGED <<bond, computed>>
             [] OTHER -> PeerAborts(h) /\ UNCHANGED <<bond, computed>>
    /\ UNCHANGED <<hostVars, ctrlVars, link, budgets, interrupted, starved, rekeyed, overlapped>>

\* The own steps of a peer and its user: a number is chosen or typed, or compared.
PeerBegins(h) ==
    /\ peer[h].step = "begin"
    /\ IF peer[h].round > 0 THEN PeerConfirms(h, peer[h].tk, peer[h].round)
       ELSE \E n \in IF peer[h].method = JW THEN {0} ELSE Passkeys : PeerConfirms(h, n, 0)
    /\ UNCHANGED computed

PeerEnters(h) ==
    /\ peer[h].step = "enter"
    /\ \E n \in Passkeys : PeerConfirms(h, n, 0)
    /\ UNCHANGED computed

PeerCompares(h) ==
    /\ peer[h].step = "compare"
    /\ PeerChecks(h, peer[h]) \/ (PeerAborts(h) /\ UNCHANGED computed)

PeerGoesOn(h) ==
    /\ PeerBegins(h) \/ PeerEnters(h) \/ PeerCompares(h)
    /\ UNCHANGED <<hostVars, ctrlVars, air, link, bond, budgets, interrupted, starved, rekeyed, overlapped>>

\* Something of the link's earlier pairings is under way that either end will act on.
Busy(h) ==
    \/ air[h] # <<>>
    \/ dialog # None /\ dialog.h = h
    \/ cmd # None /\ cmd.h = h
    \/ AwaitsDhkey(h)
    \/ \E i \in DOMAIN toHost :
          /\ toHost[i].type \in {"sm", "ltk_req", "encryption_change"} /\ toHost[i].h = h
          /\ toHost[i].type = "sm" => toHost[i].msg.op # "pairing_failed"
Begins(h) ==
    /\ overlapped' = IF Busy(h) THEN overlapped \cup {h} ELSE overlapped
    /\ interrupted' = IF Busy(h) THEN interrupted \cup {link[h].peer} ELSE interrupted
    /\ UNCHANGED <<computed, starved, rekeyed>>

\* A peer begins a pairing, or encrypts the link with the key of an earlier one.
PeerStarts(h, offer) ==
    /\ link[h] # None /\ peer[h].step = "idle"
    /\ pairings < MaxPairings
    /\ pairings' = pairings + 1
    /\ PeerSays(h, [peer[h] EXCEPT !.step = "resp", !.pairing = TRUE, !.req = offer, !.tk = 0, !.round = 0],
                <<Msg("pairing_req", offer)>>)
    /\ Begins(h)
    /\ UNCHANGED <<hostVars, ctrlVars, air, link, bond, links, restarts>>

PeerEncrypts(h) ==
    /\ link[h] # None /\ peer[h].step = "idle" /\ peer[h].encrypted = ZeroKey
    /\ LET b == bond[link[h].peer] IN
          b # NoBond /\ PeerStartsEncryption(h, [peer[h] EXCEPT !.ltk = b.ltk, !.method = b.method])
    /\ Begins(h)
    /\ UNCHANGED <<hostVars, ctrlVars, air, link, bond, budgets>>
-----------------------------------------------------------------------------
(* Links and the program come and go.                                       *)

\* A handle is used again once the host was told that its link ended and nothing sent for the
\* old link is on its way to the controller.
Connects(h, p, addr) ==
    /\ link[h] = None /\ conn[h] = None
    /\ \A i \in DOMAIN toHost : toHost[i].type = "disconn_complete" => toHost[i].h # h
    /\ cmd # None => cmd.h # h
    /\ \A g \in Handle : link[g] # None => link[g].peer # p
    /\ links < MaxLinks
    /\ links' = links + 1
    /\ link' = [link EXCEPT ![h] = [peer |-> p, addr |-> addr, n |-> links + 1]]
    /\ toHost' = Append(toHost, [type |-> "conn_complete", h |-> h, link |-> link'[h]])
    /\ overlapped' = overlapped \ {h}
    /\ UNCHANGED <<hostVars, ctrlVars, air, peer, bond, pairings, restarts,
                   computed, interrupted, starved, rekeyed>>

LinkLost(h) ==
    /\ link[h] # None
    /\ Unlink(h)
    /\ toHost' = Append(toHost, [type |-> "disconn_complete", h |-> h])
    /\ UNCHANGED <<hostVars, ctrlVars, bond, budgets, computed, overlapped>>

\* The program ends or crashed and is started again; it resets the controller, which ends the
\* links.  What was not yet handled of a pairing is lost.
Restart ==
    /\ restarts < MaxRestarts
    /\ restarts' = restarts + 1
    /\ up' = TRUE /\ conn' = [h \in Handle |-> None] /\ askedLast' = None
    /\ allowed' = 1 /\ dialog' = None
    /\ toHost' = <<>> /\ cmd' = None /\ job' = None
    /\ link' = [h \in Handle |-> None]
    /\ peer' = [h \in Handle |-> NewPeer]
    /\ air'  = [h \in Handle |-> <<>>]
    /\ interrupted' = interrupted \cup
          {p \in Peer : \E h \in Handle :
              \/ link[h] # None /\ link[h].peer = p /\ peer[h].pairing
              \/ conn[h] # None /\ conn[h].addr \in AddressesOf(p)
                 /\ \E i \in DOMAIN toHost : toHost[i].type = "sm" /\ toHost[i].h = h}
    /\ starved' = {} /\ rekeyed' = {} /\ overlapped' = {}
    /\ UNCHANGED <<db, bond, links, pairings, computed>>

Init ==
    /\ up = TRUE /\ db = <<>> /\ conn = [h \in Handle |-> None] /\ askedLast = None
    /\ allowed = 1 /\ dialog = None
    /\ toHost = <<>> /\ cmd = None /\ job = None
    /\ link = [h \in Handle |-> None]
    /\ air  = [h \in Handle |-> <<>>]
    /\ peer = [h \in Handle |-> NewPeer]
    /\ bond = [p \in Peer |-> NoBond]
    /\ links = 0 /\ pairings = 0 /\ restarts = 0
    /\ computed = {} /\ interrupted = {} /\ starved = {} /\ rekeyed = {} /\ overlapped = {}

Next ==
    \/ HostReceives
    \/ DialogAnswered
    \/ ControllerExecutes
    \/ ControllerComputes
    \/ \E h \in Handle : PeerReceives(h)
    \/ \E h \in Handle : PeerGoesOn(h)
    \/ \E h \in Handle, offer \in Offers : PeerStarts(h, offer)
    \/ \E h \in Handle : PeerEncrypts(h)
    \/ \E h \in Handle, p \in Peer : \E addr \in AddressesOf(p) : Connects(h, p, addr)
    \/ \E h \in Handle : LinkLost(h)
    \/ Restart

Spec == Init /\ [][Next]_vars

\* The serial thread drains the queue, users answer, and controller and peers go on.  No link
\* has to end, and nobody has to connect, to pair or to start the program again.
FairSpec ==
    /\ Spec
    /\ WF_vars(HostReceives) /\ WF_vars(DialogAnswered)
    /\ WF_vars(ControllerExecutes) /\ WF_vars(ControllerComputes)
    /\ \A h \in Handle : WF_vars(PeerReceives(h)) /\ WF_vars(PeerGoesOn(h))
-----------------------------------------------------------------------------
(* Properties.                                                              *)

\* what a lookup of the bonded devices finds
Look(d, addr) == IF Found(d, addr) THEN __sm_device_db_entry_get(d, addr) ELSE None

\* the fields the handlers set, and the number of the passkey's bit, stay in their ranges
TypeOK ==
    /\ up \in BOOLEAN /\ allowed \in 0 .. 1
    /\ \A i \in DOMAIN db : db[i].pairing_method \in sm_pairing_method_t
    /\ \A h \in Handle : conn[h] # None =>
         /\ conn[h].method \in sm_pairing_method_t
         /\ conn[h].passkey_index \in Nat
         /\ h \notin overlapped => conn[h].passkey_index \in 0 .. PasskeyBits
         /\ conn[h].is_encrypted \in 0 .. 1 /\ conn[h].is_authenticated \in 0 .. 1
         /\ conn[h].received \subseteq KeyOp

\* Each pairing gives the host all it asks for.  An entry without identity is found again under
\* its one address only, and goes on to be found there after a later pairing under another.
IdentityGiven == \A offer \in Offers : SM_RESP.idist \subseteq offer.idist

\* A peer that remembers the host is found again under each of its addresses, with the key it
\* remembers and the identity it gave, unless a pairing with it was cut off half way: over
\* restarts, later pairings and changes of address (__sm_device_db_entry_*, __sm_save_device_info).
BondWhole ==
    \A p \in Peer :
        /\ bond[p] # NoBond /\ p \notin interrupted /\ IdentityGiven /\ toHost = <<>>
        /\ \A h \in Handle : link[h] # None /\ link[h].peer = p => ~peer[h].pairing
        => \A addr \in AddressesOf(p) :
             LET entry == Look(db, addr) IN
             /\ entry # None
             /\ entry.local_ltk = bond[p].ltk
             /\ entry.remote_irk = Irk(p) /\ entry.remote_addr = Public(p)
             /\ entry.remote_csrk = bond[p].csrk

\* A link the host holds encrypted, and that was not encrypted again since, counts as
\* authenticated just when the pairing its key came from was, as the peer saw that pairing
\* (sm_recv_evt_encryption_change reads the method from the stored entry).  Pairings that
\* overlap may store another key and method before the event is handled.
AuthenticationAsPaired ==
    \A h \in Handle :
        /\ conn[h] # None /\ link[h] # None /\ h \notin rekeyed \cup overlapped
        /\ conn[h].link = link[h].n /\ conn[h].is_encrypted = 1
        => \E k \in computed : /\ k.ltk = peer[h].encrypted
                               /\ (conn[h].is_authenticated = 1) <=> (k.method # JW)

\* Every stored key of a secure connection was computed by a peer, in a pairing that peer held
\* to have the same method: whichever connection a DHKey was given to, and with two peers
\* pairing at once.
SecureBondsShared ==
    \A i \in DOMAIN db :
        db[i].is_secure_connection =>
            [ltk |-> db[i].local_ltk, method |-> db[i].pairing_method] \in computed

\* The key the host gives the controller is the one the peer encrypts with: after a pairing just
\* made, whatever was stored before it, and with a key remembered from before, unless a pairing
\* with that peer was cut off half way (sm_recv_evt_le_ltk_req looks the key up by address).
\* The answer to an earlier request may still be under way when pairings overlap.
LinkKeysAgree ==
    cmd # None /\ cmd.type \in {"ltk_req_reply", "ltk_req_neg_reply"} =>
        LET h == cmd.h IN
        /\ link[h] # None /\ peer[h].step = "encrypt" /\ h \notin overlapped
        /\ peer[h].pairing \/ (link[h].peer \notin interrupted /\ IdentityGiven)
        => cmd.type = "ltk_req_reply" /\ cmd.ltk = peer[h].ltk

\* The number the host's user is asked to compare is the one the peer shows, unless packets of
\* an earlier pairing were still under way when this one began (__sm_recv_pairing_random).
ComparisonShowsSame ==
    dialog # None /\ dialog.kind = "compare" =>
        LET h == dialog.h IN
        link[h] # None /\ link[h].n = conn[h].link /\ peer[h].step = "compare" /\ h \notin overlapped =>
            dialog.number = __sm_g2(Pk(link[h].peer), HostPk, peer[h].random, peer[h].host_random)

\* The program follows a null pointer only after a pairing was cut off: the completion of a
\* DHKey for a connection that is gone (hci_find_connection_by_handle returns nullptr).
CrashNeedsInterruption == ~up => interrupted # {}

\* One event changes what is stored of at most one peer.
OthersUntouched ==
    [][\A p, q \in Peer :
         p # q => \/ \A addr \in AddressesOf(p) : Look(db', addr) = Look(db, addr)
                  \/ \A addr \in AddressesOf(q) : Look(db', addr) = Look(db, addr)]_vars

\* A pairing ends, kept or given up, unless the program fails or the pairing lost a command or
\* an event it waits for; out-of-band pairing is not implemented.
PairingEnds ==
    \A h \in Handle :
        (peer[h].pairing /\ ~peer[h].req.oob) ~> (~peer[h].pairing \/ h \in starved \/ ~up)
=============================================================================
