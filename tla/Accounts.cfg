SPECIFICATION AllSpec
CONSTANTS
    u1 = u1  u2 = u2  t1 = t1  t2 = t2  k1 = k1  k2 = k2
    mail = mail  tel = tel  goog = goog  ann = ann  ben = ben  ord = ord
    Users = {u1,u2}
    Clients = {t1,t2}
    RefreshTTL = 1
    MaxTime = 1
    MaxTokens = 3
    Emails = {mail}
    Phones = {tel}
    Accounts = {goog}
    GoogleEmail <- OneAddress
    Allowed = {}
    Tasks = {t1,t2}
    None = None
    Cooldown = 1
    CodeTTL = 0
    MaxAttempts = 1
    MaxCodes = 2
    MaxEntries = 2
    MaxPatches = 1
    Keyids = {k1,k2}
    Forged = {goog}
    Sites = {t1,t2}
    NoKey = None
    CacheTTL = 2
    MinRefetch = 1
    FetchTTL = 1
    LastInstant = 6
    Staff = {ann,ben}
    Bootstrap = {ann}
    Desks = {t1,t2}
    Cases = {ord}
    Dear = {}
    Keys = {k1,k2}
    Nobody = None
    MaxFailures = 1
    LockWindow = 1
    DeskTTL = 1
    Lease = 1
    MaxClock = 2
    MaxSeats = 1
    MaxAudit = 2
    Forms = {t1,t2}
    CardKeys = {k1}
    Rates = {1,2}
    NoRate = 0
    MaxFiled = 4
    Numbers = {mail,tel}
    Names = {ann,ben}
    NoName = None
    Callers = {t1,t2}
    MaxIds = 2
    MaxChanges = 1
SYMMETRY Actors
INVARIANTS
    AllTypeOK
    GuessesBounded
    OneLiveCode
    OneUserPerChannel
    LinkedByProof
    OneLiveToken
    WithdrawnKeyFades
    TotpTriesBounded
    AuditedWasRefunded
    EarnedStepByStep
    QuoteIsBinding
    PayeesAreTheBanks
CHECK_DEADLOCK FALSE
