SPECIFICATION Spec
CONSTANTS
    Chats = {c1, g1}
    Groups = {g1}
    None = None
    MaxFaults = 2
    MaxEdits = 2
CHECK_DEADLOCK FALSE
INVARIANTS
    ProgressIsReal
