SPECIFICATION FairSpec
CONSTANTS
    o1 = o1  o2 = o2  u1 = u1  a1 = a1  a2 = a2  t1 = t1  t2 = t2
    Orders = {o1}
    Users = {u1}
    Activations = {a1}
    NoActivation = NoActivation
    Owner <- OneOwner
    Price <- OnePrice
    Funds <- OneFund
    Tasks = {t1}
    Jobs = {"reconcile","poll"}
    None = None
    MaxTime = 3
    HoldTime = 1
    ConfirmBy = 1
    Misheard = {o1}
    MaxCrashes = 1
PROPERTIES
    EventuallyResolved
    DeliveredCloses
CHECK_DEADLOCK FALSE
