CONSTANTS
    Slots = {s1}
    Logins = {l1, l2}
    Limit <- OneEach
    MaxHandles = 2
    MaxJobs = 2
    MaxGenerations = 2
    MaxEpoch = 0
    MaxClears = 0
SYMMETRY Symmetry
SPECIFICATION Spec
INVARIANTS
    JobsStayHome
CHECK_DEADLOCK FALSE
