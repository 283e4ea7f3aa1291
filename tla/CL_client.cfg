SPECIFICATION MCFairSpec
CONSTANTS
    None = None
    a = a
    b = b
    SessionIds = {1, 2, 3, 4}
    AutoConnect = FALSE
    u1 = u1
    u2 = u2
    People = {u1, u2}
    MaxChanges = 2
    Gadgets = {a, b}
    Tunnels = {1, 2}
    PlaneOf <- TwoPlanes
    MaxPerDevice = 1
    Frail = {"p"}
    Chats = {u1}
    Accounts = {a, b}
    Gear = {1}
    HolderOf <- OneHolder
    MaxTaps = 3
    Processes = {1, 2}
    MaxDays = 2
    Periods = {"day", "week"}
    MaxPresses = 2
    h1 = h1
    h2 = h2
    Handsets = {h1, h2}
    Slots = 1
    MaxTunnels = 2
    MaxEvents = 2
    Events = {"refused", "reply_lost", "gateway_down", "slow", "sign_out", "select", "call_lost", "server_closes", "maintenance", "worker_stops", "browser_starts", "save_lost", "switch", "popup_closes", "revoke", "outage", "closing", "edit_fails", "updates_lost", "handler_fails", "bot_restarts", "relink", "device_back", "refusal", "state_unread", "broadcast_lost", "offline", "call_fails", "sign_in"}
    Parts = {"worker", "popup", "power", "stats", "devices", "gateway", "desk", "digest"}
 
INVARIANT PopupSafe
PROPERTY WorkerSettles
PROPERTY PopupSettles
PROPERTY GatewayHolds
 
CHECK_DEADLOCK FALSE
