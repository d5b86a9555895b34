SPECIFICATION FairSpec
CONSTANTS
    Accounts = {1}
    Workers = {w1}
    None = None
    Orphan = Orphan
    Target = 2
    Setback = 3
    MaxDay = 3
    Operations = {"verify", "health", "warmup", "activate", "disconnect", "live"}
    Calls = 2
    MaxFaults = 1
CHECK_DEADLOCK FALSE
PROPERTIES
    CooldownOver
