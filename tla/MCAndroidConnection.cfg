CONSTANTS
    Accounts = {a1}
    Threads = {t1, t2}
    MaxGenerations = 3
    Closable = TRUE
SPECIFICATION FairSpec
INVARIANTS
    RouteSound
PROPERTIES
    ImplementsConnection
    WishesEnd
CHECK_DEADLOCK FALSE
