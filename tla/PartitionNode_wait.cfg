CONSTANTS
    n1 = n1
    n2 = n2
    n3 = n3
    Numbers = {n1, n2, n3}
    Absent = Absent
    Wait = 4
    Poll = 2
    MaxScans = 3
SPECIFICATION FairSpec
INVARIANTS
    TypeOK
    NodeWasTrue
    HostNodePreferred
PROPERTIES
    Ends
CHECK_DEADLOCK FALSE
