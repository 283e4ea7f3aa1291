SPECIFICATION Spec
CONSTANTS
    n1 = n1
    n2 = n2
    i1 = i1
    i2 = i2
    t1 = t1
    t2 = t2
    t3 = t3
    t4 = t4
    None = None
    Nodes = {n1}
    Invites = {i1, i2}
    Tokens = {t1, t2, t3, t4}
    MaxAuthFailures = 2
    MaxEvents = 3
    Events = {"due", "expiry", "reply_lost", "crash", "torn_write", "enroll_fails", "withdraw"}
SYMMETRY Interchangeable
INVARIANT CredentialKept
 
CHECK_DEADLOCK FALSE
