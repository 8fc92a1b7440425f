CONSTANTS
    Slots = {s1}
    Logins = {l1, l2}
    MaxHandles = 2
    MaxRequests = 2
    MaxGenerations = 2
    MaxEpoch = 2
    FolderIds = {f1, f2}
    OrderId = order
    MaxEdits = 3
    MaxForced = 1
    MaxReads = 3
    MaxSessions = 2
SYMMETRY Symmetry
SPECIFICATION ClientSpec
INVARIANTS
    ReplyInForce
    FreshLoginStartsEmpty
    RevocationHeld
    RequestsAccounted
    Reconciled
    BulkHonest
    ReadsSound
CHECK_DEADLOCK FALSE
