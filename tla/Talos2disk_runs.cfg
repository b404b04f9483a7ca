CONSTANTS
    good = good
    nometa = nometa
    gone = gone
    a1 = a1
    a2 = a2
    d1 = d1
    big = big
    Images = {good, nometa, gone}
    Unserved = {gone}
    NoEfi = {}
    NoMeta = {nometa}
    Args = {a1, a2}
    Refused <- MCRefused
    Docs = {d1, big}
    TooBig = {big}
    Nothing = Nothing
    Mixed = Mixed
    Cuts = {0}
    MaxFaults = 2
SPECIFICATION FairSpec
CONSTRAINT InputsOfUse
INVARIANTS
    TypeOK
    OkMeansInstalled
    UntouchedBeforeWrite
    EditsComeLast
PROPERTIES
    RerunsSucceed
CHECK_DEADLOCK FALSE
