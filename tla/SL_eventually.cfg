SPECIFICATION FairSpec
CONSTANTS
    d1 = d1
    d2 = d2
    n1 = n1
    n2 = n2
    r1 = r1
    r2 = r2
    None = None
    Devices = {d1}
    Users = {d1, d2}
    Owner <- OwnAccount
    Nodes = {n1}
    Callers = {r1}
    MaxEvents = 1
    MaxSessions = 2
    MaxCommands = 8
    MaxAttempts = 1
    Ips = {2}
    SessionLimit = 1
    Capacity = 2
    BatchLimit = 2
    Events = {"reply_lost", "node_reboot"}
PROPERTY PeersFollow
