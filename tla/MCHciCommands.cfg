CONSTANTS
    Grants = {0, 1}
    Requests <- MCRequests
    MaxAsked = 2
    MaxOpens = 2
    MaxLate = 1
SPECIFICATION FairSpec
INVARIANTS TypeOK CreditLedger BringUpInOrder StallsOnlyInKeyWindow ButtonsTellTheTruth
PROPERTY BringUpSettles
CHECK_DEADLOCK FALSE
