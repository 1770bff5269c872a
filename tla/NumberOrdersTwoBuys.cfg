SPECIFICATION Spec
CONSTANTS
    o1 = o1  o2 = o2  u1 = u1  a1 = a1  a2 = a2  t1 = t1  t2 = t2
    Orders = {o1,o2}
    Users = {u1}
    Activations = {a1}
    NoActivation = NoActivation
    Owner <- TwoOwners
    Price <- TwoPrices
    Funds <- TightFund
    Tasks = {t1}
    Jobs = {"reconcile","poll","cancel"}
    None = None
    MaxTime = 3
    HoldTime = 1
    ConfirmBy = 1
    Misheard = {o1,o2}
    MaxCrashes = 0
INVARIANTS
    NoOverdraft
    MoneyAddsUp
    NotStartedIsTrue
    UnknownIsSwept
CHECK_DEADLOCK FALSE
