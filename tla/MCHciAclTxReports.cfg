CONSTANTS
    Handle = {0, 64}
    Length = {4, 10, 16}
    PacketLength = 4
    Total = 2
    MaxPdus = 3
    MaxLinks = 3
SPECIFICATION Spec
INVARIANT EveryCreditCounted
CHECK_DEADLOCK FALSE
