CONSTANTS
    h1 = h1
    h2 = h2
    h3 = h3
    Handle = {h1, h2, h3}
    MaxPieces = 2
    MaxPdus = 2
    MaxLinks = 4
    MaxQueue = 3
    MaxOpens = 1
SPECIFICATION Spec
INVARIANT SurvivesDisconnect
SYMMETRY MCSymmetry
CHECK_DEADLOCK FALSE
