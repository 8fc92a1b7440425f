CONSTANTS
    MaxRequests = 4
    Boxes = {a, b}
    MaxJobs = 3
SPECIFICATION ClientSpec
INVARIANTS
    TypeOK
    RouteSound
    CancelHonoured
PROPERTIES
    ImplementsConnection
    WishesEnd
    WaitsEnd
CHECK_DEADLOCK FALSE
