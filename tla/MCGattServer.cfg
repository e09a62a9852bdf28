CONSTANTS
    p1 = p1
    Peer = {p1}
    AclLengths = {37, 251}
    AclPackets = 2
    ClientMtus = {20, 185}
    Procedures <- MCProcedures
    WriteTargets = {20, 257, 259, 4097, 4099}
    WriteValues <- MCBothBits
    Notifiable <- MCNotifiable
    StreamLengths = {41}
    MaxProcedures = 1
    MaxWrites = 1
    MaxSends = 1
    MaxLinks = 1
    MaxOpens = 3
SPECIFICATION FairSpec
INVARIANTS FindsEverything FindsOnceInOrderWhenFresh LongReadWhole PdusFitMtuButFirstByType EveryRequestAnswered
PROPERTY ProceduresEnd
CHECK_DEADLOCK FALSE
