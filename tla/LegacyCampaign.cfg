SPECIFICATION FairSpec
CHECK_DEADLOCK FALSE
CONSTANTS
    Contacts = {1, 2}
    Accounts = {1, 2}
    Workers = {w1, w2}
    Clients = {c1, c2}
    MaxInvites = 2
    Operations = 2
    MaxFaults = 1
INVARIANTS
    TypeOK
    ActiveServed
    UsageHonest
PROPERTIES
    CompletedIsReal
    DispatchesEnd
