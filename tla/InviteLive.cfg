SPECIFICATION FairSpec
CONSTANTS
    Workers = {w1}
    Tasks = {t1}
    Accounts = {a1}
    Ids = {i1, i2, i3}
    None = None
    InvitesPerHour = 1
    MaxAccounts = 1
    BatchCap = 2
    BatchSlack = 0
    TimeLimited = TRUE
    Budget <- LiveBudget
CHECK_DEADLOCK FALSE
INVARIANTS
    CompletedIsReal
PROPERTIES
    ClaimsEnd
    CampaignEnds
