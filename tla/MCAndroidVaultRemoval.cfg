CONSTANTS
    Users = {u1}
    None = None
    MaxLogins = 1
    MaxGenerations = 1
    MaxSubmits = 1
    MaxLocks = 0
    MaxRestarts = 0
    MaxFaults = 1
SPECIFICATION Spec
INVARIANTS
    RemovedDurably
CHECK_DEADLOCK FALSE
