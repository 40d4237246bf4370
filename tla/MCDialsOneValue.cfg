CONSTANTS
    Setters = {s1}
    CapSetters = {}
    Calls = {c1}
    Retesting = {}
    Values = {balanced, strict}
    Admitting = {balanced, strict}
    MaxRuns = 1
SPECIFICATION Spec
INVARIANTS
    AdmissionSeesOneValue
CHECK_DEADLOCK FALSE
