SPECIFICATION Spec
CONSTANTS
    i1 = i1  i2 = i2  c1 = c1  c2 = c2  r1 = r1  r2 = r2  k1 = k1  k2 = k2  t1 = t1  t2 = t2
    Intents = {i1,i2}
    Amount <- Amounts
    Keys = {c1,c2,k1,k2}
    CreditKey <- Credits
    Foreign = {}
    Requests = {r1,r2}
    PayoutAmount <- Payouts
    ClientKey <- Headers
    Cap = 2
    Day = 2
    Tasks = {t1,t2}
    Sweeper = Sweeper
    None = None
    SettleAfter = 0
    AbandonAfter = 3
    Batch = 2
    LinkLife = 1
    MaxTime = 2
    MaxErrors = 0
INVARIANTS
    CapHolds
CHECK_DEADLOCK FALSE
