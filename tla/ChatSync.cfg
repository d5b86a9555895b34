SPECIFICATION FairSpec
CONSTANTS
    Accounts = {a1}
    Chats = {1, 2}
    Users = {u1, u2}
    Denied = {1}
    Workers = {w1, w2}
    None = None
    Orphan = Orphan
    Batch = 2
    GroupLimit = 2
    MaxRequests = 2
    MaxFaults = 1
CHECK_DEADLOCK FALSE
INVARIANTS
    TypeOK
    StampedIsStored
    

    
