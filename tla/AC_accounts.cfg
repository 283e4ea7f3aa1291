SPECIFICATION MCFairSpec
CONSTANTS
    None = None
    a = a
    b = b
    t1 = t1
    t2 = t2
    t3 = t3
    r1 = r1
    r2 = r2
    Clients = {a, b}
    Apps = {a}
    Tokens = {t1, t2, t3}
    Requests = {r1, r2}
    Depth = 2
    l1 = l1
    u1 = u1
    u2 = u2
    j1 = j1
    j2 = j2
    Links = {l1}
    Users = {u1, u2}
    Jobs = {j1, j2}
    k1 = k1
    k2 = k2
    k3 = k3
    Keys = {k1, k2, k3}
    NameOf <- OneLaptop
    MaxRows = 2
    MaxVersion = 1
    Addrs = {1}
    PlanLimit = 2
    e1 = e1
    c1 = c1
    c2 = c2
    Addresses = {e1}
    Chats = {c1, c2}
    MaxStarts = 2
    MaxPolls = 0
    LoginChats = {c1}
    Staff = {a, b}
    Founder = a
    Switches = {"maintenance"}
    MaxVersion2 = 2
    Offers = {"basic", "pro"}
    Tier <- RankOf
    Terms <- DaysOf
    Cap <- UnitsOf
    NoPlan = "free"
    Window = 2
    Slack = 1
    Horizon = 4
    MaxGrants = 2
    MaxUnits = 2
    MaxEvents = 2
    Parts = {"tokens", "links", "slots", "signup", "staff", "window"}
    Events = {"reply_lost", "server_crash", "sign_out", "kick", "revoke_all", "cancel", "deadline", "disable", "remove", "plan_ends", "plan_begins", "sign_out_everywhere", "purge", "close_account", "reopen_account", "sign_up_switch", "rebind", "login", "staff_acts", "plan"}
 
INVARIANT SlotsSafe
INVARIANT SignUpSafe
INVARIANT LinksSafe
PROPERTY PagesSettle
PROPERTY SlotsFollow
PROPERTY StaffHolds
PROPERTY WindowsHold
CHECK_DEADLOCK FALSE
