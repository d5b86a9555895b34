SPECIFICATION Spec
CONSTANTS
    Workers = {w1}
    Tasks = {t1, t2}
    Accounts = {a1}
    Ids = {i1, i2, i3}
    None = None
    InvitesPerHour = 1
    MaxAccounts = 1
    BatchCap = 2
    BatchSlack = 1
    TimeLimited = FALSE
    Budget <- SoloBudget
SYMMETRY Symmetric
CHECK_DEADLOCK FALSE
INVARIANTS
    TypeOK
    HourlyLimit

    
