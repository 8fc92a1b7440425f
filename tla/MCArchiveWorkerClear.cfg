CONSTANTS
    Slots = {s1}
    Logins = {l1}
    Limit <- OneEach
    MaxHandles = 2
    MaxJobs = 3
    MaxGenerations = 2
    MaxEpoch = 0
    MaxClears = 1
SPECIFICATION Spec
INVARIANTS
    ClearedNeverShown
CHECK_DEADLOCK FALSE
