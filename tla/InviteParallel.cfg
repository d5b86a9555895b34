SPECIFICATION Spec
CONSTANTS
    Workers = {w1, w2}
    Tasks = {t1, t2}
    Accounts = {a1}
    Ids = {i1, i2, i3, i4}
    None = None
    InvitesPerHour = 1
    MaxAccounts = 1
    BatchCap = 2
    BatchSlack = 0
    TimeLimited = TRUE
    Budget <- ParallelBudget
SYMMETRY Symmetric
CHECK_DEADLOCK FALSE
INVARIANTS
    ClaimsDisjoint
    HeldIsClaimed
    CompletedIsDrained
    CountersLag
    Awake
PROPERTIES
    SettledForGood
    ImplementsLedger
