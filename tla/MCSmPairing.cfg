SPECIFICATION FairSpec
CONSTANTS
    Peer = {device1}
    Handle = {handle1}
    Offers <- MCOffersAll
    Passkeys <- MCPasskeys
    PasskeyBits = 2
    Rpas = 1
    MaxLinks = 2
    MaxPairings = 2
    MaxRestarts = 1
INVARIANTS
    TypeOK
    BondWhole
    AuthenticationAsPaired
    LinkKeysAgree
    ComparisonShowsSame
    CrashNeedsInterruption
PROPERTIES
    PairingEnds
CHECK_DEADLOCK FALSE
