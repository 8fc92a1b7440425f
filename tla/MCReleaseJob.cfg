CONSTANTS
    NoTool = NoTool
    MaxJobs = 2
    MaxStrays = 1
    Attempts = 3
    Patience = 2
    Overlays = 2
    CodeTurns = 2
SPECIFICATION ReleaseSpec
INVARIANTS
    PublishedIsWhole
    ReviewedOrderPasses
    SecretsRemoved
    TrialHonest
PROPERTIES
    ImplementsPreparedTree
CHECK_DEADLOCK FALSE
