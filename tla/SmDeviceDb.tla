----------------------------- MODULE SmDeviceDb -----------------------------
(***************************************************************************)
(* The file of bonded devices, device_db.dat: a sequence of entries of one  *)
(* size that the four functions of sm.cpp search from the front.  An entry  *)
(* matches an address when it holds that very address, or when the address  *)
(* is resolvable and its hash is the one the entry's IRK gives.  The file   *)
(* only ever grows: deleting zeroes an entry in place, and no function      *)
(* looks for a zeroed one to use again.                                     *)
(***************************************************************************)
EXTENDS SmCrypto, Sequences

\* what memset leaves in the fields of an entry
ZeroKey  == <<"zero">>
ZeroAddr == [type |-> "public", prand |-> 0, hash |-> ZeroKey]
ZeroEntry == [remote_addr |-> ZeroAddr, remote_irk |-> ZeroKey, local_ltk |-> ZeroKey,
              local_csrk |-> ZeroKey, remote_csrk |-> ZeroKey,
              is_encrypted |-> 0, is_authenticated |-> 0, is_secure_connection |-> FALSE,
              pairing_method |-> "JUST_WORKS"]

\* A resolvable private address: a random part and the hash of it under an IRK.
Resolvable(irk, prand) == [type |-> "random", prand |-> prand, hash |-> sm_ah(irk, prand)]
\* An address that stays: a public address, told by its owner.
Public(owner) == [type |-> "public", prand |-> 0, hash |-> <<"addr", owner>>]

\* Variant: every resolvable address is taken for a known one.
MatchesAnyResolvable(entry, addr) == entry.remote_addr = addr \/ addr.type = "random"

Matches(entry, addr) ==
    \/ entry.remote_addr = addr
    \/ addr.type = "random" /\ addr.hash = sm_ah(entry.remote_irk, addr.prand)

Found(db, addr) == \E i \in DOMAIN db : Matches(db[i], addr)

\* where the loop over the file stops
FirstMatch(db, addr) ==
    CHOOSE i \in DOMAIN db : /\ Matches(db[i], addr)
                             /\ \A j \in DOMAIN db : Matches(db[j], addr) => i <= j

\* The add refuses an address that has an entry.
__sm_device_db_entry_add(db, addr, entry) ==
    IF Found(db, addr) THEN db ELSE Append(db, entry)

__sm_device_db_entry_get(db, addr) == db[FirstMatch(db, addr)]

\* Variant: the entry is written where the search has read up to.
UpdateBehind(db, addr, entry) ==
    IF Found(db, addr) THEN [db EXCEPT ![FirstMatch(db, addr) + 1] = entry] ELSE db

__sm_device_db_entry_update(db, addr, entry) ==
    IF Found(db, addr) THEN [db EXCEPT ![FirstMatch(db, addr)] = entry] ELSE db

__sm_device_db_entry_delete(db, addr) ==
    IF Found(db, addr) THEN [db EXCEPT ![FirstMatch(db, addr)] = ZeroEntry] ELSE db

\* Variant: an entry that is there is kept.
StoreAddsOnly(db, addr, entry) == __sm_device_db_entry_add(db, addr, entry)

\* Both handlers that finish a pairing try to add and update where that is refused.
Store(db, addr, entry) ==
    IF Found(db, addr) THEN __sm_device_db_entry_update(db, addr, entry)
                       ELSE __sm_device_db_entry_add(db, addr, entry)
=============================================================================
