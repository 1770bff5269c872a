SPECIFICATION Spec
CONSTANTS
    o1 = o1  o2 = o2  u1 = u1  a1 = a1  a2 = a2  t1 = t1  t2 = t2
    Orders = {o1,o2}
    Users = {u1}
    Activations = {a1,a2}
    NoActivation = NoActivation
    Owner <- TwoOwners
    Price <- TwoPrices
    Funds <- AmpleFund
    Tasks = {t1,t2}
    Jobs = {"reconcile"}
    None = None
    MaxTime = 3
    HoldTime = 1
    ConfirmBy = 1
    Misheard = {}
    MaxCrashes = 0
SYMMETRY Handlers
INVARIANTS
    ActivationServesOneOrder
CHECK_DEADLOCK FALSE
