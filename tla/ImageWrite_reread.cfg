CONSTANTS
    NumBlocks = 1
    Window = 0
    Base = 1
    Cap = 2
    FrameEnds = {0}
    Horizon = 1
    MaxRuns = 1
SPECIFICATION Spec
INVARIANTS
    ReReadOnSuccess
CHECK_DEADLOCK FALSE
