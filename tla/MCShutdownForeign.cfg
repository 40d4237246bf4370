CONSTANTS
    NItems = 2
    NSteps = 2
    DrainFuncs = {"none"}
    Outcomes = {"ok", "fail", "abort", "foreign"}
SPECIFICATION Spec
INVARIANTS
    NobodyGetsPast
CHECK_DEADLOCK FALSE
