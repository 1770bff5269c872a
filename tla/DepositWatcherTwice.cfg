SPECIFICATION Spec
CONSTANTS
    t1 = t1  d1 = d1
    Transactions = {t1}
    Dust = {}
    Indexes = {0,1}
    MaxHead = 6
    MaxReorgs = 1
    ReorgDepth = 1
    MinConfirmations = 2
    ScanOverlap = 2
    MaxWindow = 3
    MaxLag = 0
    MaxErrors = 0
    MaxStops = 0
INVARIANTS
    CreditedOnce
CHECK_DEADLOCK FALSE
