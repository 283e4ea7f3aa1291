SPECIFICATION Spec
CONSTANTS
    d1 = d1
    d2 = d2
    n1 = n1
    n2 = n2
    r1 = r1
    r2 = r2
    None = None
    Devices = {d1, d2}
    Users = {d1, d2}
    Owner <- OneAccount
    Nodes = {n1}
    Callers = {r1, r2}
    MaxEvents = 1
    MaxSessions = 2
    MaxCommands = 5
    MaxAttempts = 2
    Ips = {2, 3}
    SessionLimit = 1
    Capacity = 2
    BatchLimit = 2
    Events = {"revoke", "maintenance", "disable"}
SYMMETRY Interchangeable
INVARIANT TypeOK
INVARIANT LimitsHold
 
