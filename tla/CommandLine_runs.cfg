CONSTANTS
    ifnames = ifnames
    console = console
    Bare = Bare
    Sections = {1, 2}
    UkiLines <- Repeats
    ConfigLines <- Repeats
    EnvLines <- OneOrTwo
    Ifnames <- MCIfnames
    MaxUses = 2
SPECIFICATION ArgsSpec
INVARIANTS
    LastWins
    OthersKeepPlace
PROPERTIES
    RerunRewritesNothing
CHECK_DEADLOCK FALSE
