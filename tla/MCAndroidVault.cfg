CONSTANTS
    Users = {u1, u2}
    None = None
    MaxLogins = 2
    MaxGenerations = 2
    MaxSubmits = 2
    MaxLocks = 1
    MaxRestarts = 1
    MaxFaults = 1
    MaxRequests = 1
SYMMETRY Symmetry
SPECIFICATION SlotSpec
INVARIANTS
    ReplyInLogin
    DataAccounted
    RetiredDestroyed
    ReceiptsPermitted
    StaysWithUser
CHECK_DEADLOCK FALSE
