SPECIFICATION FairSpec
CONSTANTS
    u1 = u1
    o1 = o1
    o2 = o2
    r1 = r1
    r2 = r2
    None = None
    Users = {u1}
    OrderIds = {o1}
    Requests = {r1, r2}
    Carts <- OneCart
    Gateways = {"tabpay", "stripe", "manual"}
    MaxTime = 2
    StaleAfter = 1
    MaxEvents = 0
    Events = {"claim_overlap"}
PROPERTY MoneyGetsPlan
CHECK_DEADLOCK FALSE
