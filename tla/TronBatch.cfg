SPECIFICATION AllSpec
CONSTANTS
    x1 = x1  x2 = x2  x3 = x3  w1 = w1  w2 = w2  r1 = r1  r2 = r2  s1 = s1  s2 = s2  s3 = s3  s4 = s4
    Txs = {x1,x2}
    Wallets = {w1,w2}
    Pays <- Both
    Ours = {x1,x2}
    PageLimit = 2
    Day = 4
    Slack = 1
    Depth = 1
    IndexLag = 1
    MaxGap = 3
    LastTime = 6
    MaxLosses = 1
    MaxCrashes = 1
    MaxLogWindow = 6
    Overlap = 1
    Behind = 3
    MaxTransient = 2
    MaxTries = 2
    Limits = {1,2,3,8}
    LastBlock = 4
    MaxHiccups = 0
    Reviewed = {r1,r2}
    Loops = {w1,w2}
    NoLoop = None
    ClaimTTL = 1
    MaxBackOff = 2
    EndTime = 0
    MaxRaised = 0
    MaxMishaps = 2
    Known <- ThreeSuppliers
    ByName <- ThreeSuppliers
    Configured = {"fivesim","smspool"}
    Priced = {"fivesim","smspool","tigersms"}
    Skus = {s1,s2,s3,s4}
    Seller <- SoldBy
    Named = {s1}
    CountryKey <- OneKey
    CodeOf <- OneCode
    Costs = {2,5}
    Opening <- OpensAt
    UsdNgn = 30
    Margin = 16
    MinPrice = 100
    MinCost = 0
    Tier = 6
    Purchases = {x1,x2}
    Dashboards = {x1}
    NoSku = None
    MaxEvents = 0
    KeyOrder <- ThreeKeys
    IsoOf <- ClaimedIso
    Apps = {r1}
    AppCosts = {40,41,42}
    StartList <- FirstList
    NoHolder = None
    MaxShifts = 0
    Accounts = {"mine","coins","held","hot","master"}
    KindOf <- KindsOfBooks
    Assets = {"NGN","USDT"}
    Amounts <- SmallAmounts
    EventKeys = {w1,w2}
    Drafts <- BookDrafts
    Posters = {x1,x2,x3}
    OrderEvents = 0
INVARIANTS
    EveryRecipientIsPaid
CHECK_DEADLOCK FALSE
