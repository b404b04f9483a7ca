CONSTANTS
    NumBlocks = 2
    Window <- RetryWindow
    Base = 1
    Cap = 3
    FrameEnds = {0}
    Horizon <- ClockStops
    MaxRuns = 2
SPECIFICATION FairSpec
INVARIANTS
    TypeOK
    WrittenIsStored
    SleepBudget
    GivesUpLate
PROPERTIES
    CancelStops
    EndsUnlessStalled
CHECK_DEADLOCK FALSE
