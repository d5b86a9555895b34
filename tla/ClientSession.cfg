SPECIFICATION FairSpec
CHECK_DEADLOCK FALSE
CONSTANTS
    Devices = {d1}
    Windows = {x1, x2}
    None = None
    Seconds = 3
    Launches = 1
    Losses = 1
INVARIANTS
    TypeOK
    StoredIsCurrent
PROPERTIES
    
    CallsEnd
