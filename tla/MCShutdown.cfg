CONSTANTS
    NItems = 2
    NSteps = 2
    DrainFuncs = {"none", "declines", "bounds"}
    Outcomes = {"ok", "fail", "abort"}
SPECIFICATION FairSpec
INVARIANTS
    NobodyGetsPast
    OlderLeftAlone
    ResultTellsEvents
    FailuresReported
PROPERTIES
    DrainIsBounded
    RunEnds
CHECK_DEADLOCK FALSE
