SPECIFICATION MCFairSpec
CONSTANTS
    None = None
    a = a
    b = b
    Meters = {a, b}
    Mixes <- TwoMixes
    MaxBytes = 2
    Allowance = 2
    Peers = {a, b}
    Streams = {1, 2}
    Buckets = {1, 2}
    Rates = {1, 2}
    MaxClock = 2
    IdleAfter = 1
    SparesBusy = TRUE
    Holders = {a, b}
    Slots = {2, 3}
    Caps = {"c1", "c2"}
    Panels = {1, 2}
    DeedsOf <- TwoPanels
    MaxJobs = 2
    MonthDays <- March
    AnchorDay = 3
    MaxDay = 7
    Thresholds = {1, 2}
    MaxTraffic = 2
    Visitors = {a, b}
    Rows = {1}
    Codes = {a, b}
    Buttons = {1, 2}
    MaxClicks = 2
    Shoppers = {a, b}
    Signs <- TwoSigns
    CountryOf <- TwoPlaces
    Priced <- HomePrices
    Base = "KZT"
    Catalogues <- TwoCatalogues
    MaxCached = 2
    KeepHours = 1
    MaxEvents = 2
    Events = {"request_lost", "proxy_restart", "disconnect", "connect", "new_period", "access", "maintenance", "rule", "bad_rule", "rule_removed", "reply_lost", "fetch_lost", "clash_down", "agent_crash", "plan", "tc_fails", "agent_restart", "node_reboot", "worker_crash", "metric_gap", "poll_failed", "server_crash", "offline", "sign_out", "switch", "other_tab", "refresh", "remove", "geo_down"}
    Parts = {"usage", "policy", "budget", "shaping", "deploy", "egress", "site", "checkout", "market"}
 
 
INVARIANT DeploymentHolds
INVARIANT PageIsMine
INVARIANT CheckoutHolds
 
PROPERTY PolicyHolds
PROPERTY EgressHolds
PROPERTY MarketHolds
PROPERTY NodeSettles
CHECK_DEADLOCK FALSE
