CONSTANTS
    d1 = d1
    d2 = d2
    d3 = d3
    idA = idA
    idB = idB
    urlA = urlA
    hostB = hostB
    Disks = {d1, d2, d3}
    Names = {1, 2, 3}
    None = None
    Other = Other
    Broken = Broken
    DefaultURL = DefaultURL
    Odd = Odd
    Inputs <- MCInputs
    Eligibles <- MCEligibles
    Large <- MCLarge
    Lists <- MCLists
    MaxRuns = 2
SPECIFICATION Spec
INVARIANTS
    OnlyTheDiskMeant
    BadStopsTheRun
    NewestPatch
    VersionsOnlyClimb
CHECK_DEADLOCK FALSE
