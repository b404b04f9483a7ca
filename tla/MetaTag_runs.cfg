CONSTANTS
    net = net
    other = other
    v1 = v1
    v2 = v2
    huge = huge
    None = None
    Blank = Blank
    NetKey = net
    Keys <- MCKeys
    Values <- MCValues
    TooBig <- MCTooBig
    Sizes = {4, 5}
    MaxInterrupts = 1
    MaxRuns = 3
SPECIFICATION Spec
INVARIANTS
    TypeOK
    OkIsDurable
PROPERTIES
    StoreSpec
CHECK_DEADLOCK FALSE
