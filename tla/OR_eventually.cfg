SPECIFICATION FairSpec
CONSTANTS
    u1 = u1
    o1 = o1
    o2 = o2
    r1 = r1
    r2 = r2
    None = None
    Users = {u1}
    OrderIds = {o1}
    Requests = {r1, r2}
    Carts <- OneCart
    Gateways = {"tabpay", "stripe", "manual"}
    MaxTime = 2
    StaleAfter = 1
    MaxEvents = 2
    Events = {"unreachable", "checkout_fails", "declined", "late_success", "refund", "reply_lost", "admin", "offer"}
PROPERTY PaymentsSettle
CHECK_DEADLOCK FALSE
