SPECIFICATION FairSpec
CONSTANTS
    n1 = n1
    n2 = n2
    i1 = i1
    i2 = i2
    t1 = t1
    t2 = t2
    t3 = t3
    t4 = t4
    None = None
    Nodes = {n1}
    Invites = {i1}
    Tokens = {t1, t2, t3, t4}
    MaxAuthFailures = 2
    MaxEvents = 3
    Events = {"due", "reply_lost", "crash", "beat_late", "disable"}
PROPERTY RenewalCompletes
CHECK_DEADLOCK FALSE
