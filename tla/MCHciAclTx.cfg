CONSTANTS
    Handle = {0, 64}
    Length = {4, 7, 12}
    PacketLength = 4
    Total = 2
    MaxPdus = 3
    MaxLinks = 3
SPECIFICATION FairSpec
INVARIANTS TypeOK CreditLedger NoControllerOverrun PeerGetsWholePdus
PROPERTY CreditsReturn
CHECK_DEADLOCK FALSE
