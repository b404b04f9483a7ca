CONSTANTS
    net = net
    other = other
    v1 = v1
    v2 = v2
    huge = huge
    None = None
    Blank = Blank
    NetKey = net
    Keys <- MCKeys
    Values <- MCValues
    TooBig <- MCTooBig
    Sizes = {6}
    MaxInterrupts = 1
    MaxRuns = 2
SPECIFICATION Spec
INVARIANTS
    LeavesOtherKeys
CHECK_DEADLOCK FALSE
