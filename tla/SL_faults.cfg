SPECIFICATION Spec
CONSTANTS
    d1 = d1
    d2 = d2
    n1 = n1
    n2 = n2
    r1 = r1
    r2 = r2
    None = None
    Devices = {d1, d2}
    Users = {d1, d2}
    Owner <- OwnAccount
    Nodes = {n1}
    Callers = {r1}
    MaxEvents = 2
    MaxSessions = 2
    MaxCommands = 6
    MaxAttempts = 2
    Ips = {2}
    SessionLimit = 1
    Capacity = 2
    BatchLimit = 2
    Events = {"revoke", "maintenance", "server_crash", "exec_fails", "disable", "slow_reclaim"}
SYMMETRY Interchangeable
INVARIANT ClosedHasRemoval
PROPERTY NoResurrection
PROPERTY ImplementsLedger
