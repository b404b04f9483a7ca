CONSTANTS
    N = 3
    FileAlign = 2
    SectAlign = 4
    Word = 40
    HeaderEnd = 2
    Layouts <- MCLayouts
    Ends = {4, 12, 40}
    Lengths = {1, 6, 13}
    MaxPasses = 2
SPECIFICATION Spec
INVARIANTS
    TypeOK
    DataWhereHeadersSay
    NoOverlap
    AcceptedAgain
    CodeStays
CHECK_DEADLOCK FALSE
