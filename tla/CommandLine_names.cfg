CONSTANTS
    ifnames = ifnames
    console = console
    Bare = Bare
    Sections = {1}
    UkiLines <- Repeats
    ConfigLines <- Repeats
    EnvLines <- Repeats
    Ifnames <- MCIfnames
    MaxUses = 1
SPECIFICATION ArgsSpec
INVARIANTS
    LinkNamesMatch
CHECK_DEADLOCK FALSE
