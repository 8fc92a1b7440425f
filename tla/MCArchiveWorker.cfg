CONSTANTS
    Slots = {s1}
    Logins = {l1}
    Limit <- OneEach
    MaxHandles = 1
    MaxJobs = 2
    MaxGenerations = 2
    MaxEpoch = 1
    MaxClears = 1
SPECIFICATION FairSpec
INVARIANTS
    ShownInForce
    BooksBalance
PROPERTIES
    JobsSettle
CHECK_DEADLOCK FALSE
