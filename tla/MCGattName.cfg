CONSTANTS
    p1 = p1
    Peer = {p1}
    AclLengths = {251}
    AclPackets = 2
    ClientMtus = {185}
    Procedures <- MCNameByType
    WriteTargets = {}
    WriteValues = {}
    Notifiable = {}
    StreamLengths = {20}
    MaxProcedures = 1
    MaxWrites = 0
    MaxSends = 0
    MaxLinks = 1
    MaxOpens = 1
SPECIFICATION Spec
INVARIANT PdusFitMtu
CHECK_DEADLOCK FALSE
