SPECIFICATION Spec
CONSTANTS
    Peer = {device1, device2}
    Handle = {handle1, handle2}
    Offers <- MCOffersMixed
    Passkeys <- MCPasskeys
    PasskeyBits = 2
    Rpas = 1
    MaxLinks = 2
    MaxPairings = 2
    MaxRestarts = 0
SYMMETRY MCAlike
INVARIANTS
    SecureBondsShared
PROPERTIES
    OthersUntouched
CHECK_DEADLOCK FALSE
