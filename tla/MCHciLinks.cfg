CONSTANTS
    h1 = h1
    h2 = h2
    h3 = h3
    Handle = {h1, h2, h3}
    MaxPieces = 3
    MaxPdus = 2
    MaxLinks = 4
    MaxQueue = 2
    MaxOpens = 2
SPECIFICATION Spec
INVARIANTS TypeOK PdusWholeAndInOrder ListMirrorsLinks CrashesExplained BuffersFreed
SYMMETRY MCSymmetry
CHECK_DEADLOCK FALSE
