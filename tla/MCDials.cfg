CONSTANTS
    Setters = {s1, s2}
    CapSetters = {s2}
    Calls = {c1, c2}
    Retesting = {c1}
    Values = {0, 1}
    Admitting = {1}
    MaxRuns = 2
SPECIFICATION FairSpec
INVARIANTS
    NoLostWakeup
PROPERTIES
    SettledDialAdmits
CHECK_DEADLOCK FALSE
