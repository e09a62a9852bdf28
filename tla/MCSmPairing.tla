---------------------------- MODULE MCSmPairing ----------------------------
(* Small instances of SmPairing. *)
EXTENDS SmPairing, TLC

IdSign == {"ID", "SIGN"}
Offer(sc, iocap, rdist) ==
    [iocap |-> iocap, oob |-> FALSE, sc |-> sc, idist |-> IdSign, rdist |-> rdist]

\* a device for each method of either kind of pairing, and one that has out-of-band data
MCOffersAll ==
    {Offer(TRUE, 0, {"SIGN"}), Offer(TRUE, 1, IdSign), Offer(TRUE, 2, {}), Offer(TRUE, 3, {}),
     Offer(FALSE, 1, {"ENC", "SIGN"}), Offer(FALSE, 2, {"ENC", "ID"}), Offer(FALSE, 3, {"ID"}),
     [Offer(TRUE, 1, {}) EXCEPT !.oob = TRUE]}
\* a comparison, just works, and a legacy passkey with a key of the host's
MCOffersMixed == {Offer(TRUE, 1, {"ID"}), Offer(TRUE, 3, {}), Offer(FALSE, 2, {"ENC", "ID"})}

MCPasskeys == {1, 2}
MCAlike == Permutations(Peer) \cup Permutations(Handle)
=============================================================================
