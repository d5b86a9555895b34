SPECIFICATION FairSpec
CONSTANTS
    Workers = {w1}
    Flows = {f1}
    Requests = {r1}
    None = None
    MaxAttempts = 2
    MaxTyped = 2
    TimeLimited = FALSE
    Budget <- OneOfEach
CHECK_DEADLOCK FALSE
PROPERTIES
    RunsEnd
