SPECIFICATION Spec
CONSTANTS
    u1 = u1
    o1 = o1
    o2 = o2
    r1 = r1
    r2 = r2
    None = None
    Users = {u1}
    OrderIds = {o1, o2}
    Requests = {r1, r2}
    Gateways = {"tabpay", "stripe"}
    Carts <- OneCart
    MaxTime = 1
    StaleAfter = 1
    MaxEvents = 1
    Events = {"claim_overlap", "declined", "late_success", "reply_lost", "crash", "admin", "admin_grant", "admin_revoke"}
SYMMETRY Interchangeable
INVARIANT OrdersSound
PROPERTY TermsHold
CHECK_DEADLOCK FALSE
