SPECIFICATION FairSpec
CONSTANTS
    t1 = t1  d1 = d1
    Transactions = {t1,d1}
    Dust = {d1}
    Indexes = {0}
    MaxHead = 5
    MaxReorgs = 1
    ReorgDepth = 2
    MinConfirmations = 3
    ScanOverlap = 1
    MaxWindow = 2
    MaxLag = 1
    MaxErrors = 1
    MaxStops = 1
INVARIANTS
    BalanceMatchesRows
    NothingMissed
PROPERTIES
    ReversedWasGone
    StayingIsCredited
CHECK_DEADLOCK FALSE
