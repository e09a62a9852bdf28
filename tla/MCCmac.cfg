SPECIFICATION Spec
CONSTANTS
    TC_AES_BLOCK_SIZE = 3
    ByteBits = 2
    gf_wrap = 3
    Keys <- MCKeys
    Data <- MCData
    MaxLength = 7
    MAX_CALLS = 4
    MaxSessions = 2
INVARIANTS
    TagIsCmac
CHECK_DEADLOCK FALSE
