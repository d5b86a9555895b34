SPECIFICATION Spec
CONSTANTS
    Workers = {w1}
    Flows = {f1}
    Requests = {r1, r2}
    None = None
    MaxAttempts = 1
    MaxTyped = 3
    TimeLimited = TRUE
    Budget <- OneCrash
SYMMETRY Symmetric
CHECK_DEADLOCK FALSE
INVARIANTS
    TypeOK
    AttemptsLimit
    NoReplay
