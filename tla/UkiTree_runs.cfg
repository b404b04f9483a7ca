CONSTANTS
    a1 = a1
    a2 = a2
    Old = Old
    None = None
    Partial = Partial
    NumUkis = 2
    Args <- MCArgs
    MaxFaults = 2
SPECIFICATION FairSpec
INVARIANTS
    TypeOK
    AlwaysBootable
    OkMeansAll
PROPERTIES
    RegistersSpec
    Converges
CHECK_DEADLOCK FALSE
