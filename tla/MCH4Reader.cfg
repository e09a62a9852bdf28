CONSTANTS
    RINGBUFFER_SIZE = 8
    MaxPackets = 3
    MaxOpens = 2
    Packet <- MCPacket
SPECIFICATION FairSpec
INVARIANTS FramesIntact NothingReadableWaits
PROPERTIES HandlerUndisturbed EventuallyCaughtUp
CHECK_DEADLOCK FALSE
