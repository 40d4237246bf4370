CONSTANTS
    Items = {a}
    Callers = {k1, k2}
SPECIFICATION FairSpec
INVARIANTS
    BornDone
    NoWatchLeaks
PROPERTIES
    EveryContextCloses
CHECK_DEADLOCK FALSE
