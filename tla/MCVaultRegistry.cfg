CONSTANTS
    Slots = {s1, s2}
    Owners = {o1}
    Authorizations = {a1, a2}
    Generations = {g1, g2}
    None = None
SPECIFICATION FairSpec
INVARIANTS
    TypeOK
    LoginsRespected
    DataAccounted
PROPERTIES
    ResetBarrier
    ImplementsSpec
    RetirementFinishes
