CONSTANTS
    NItems = 2
    Branches = {p}
    NodeLimit = 2
    RoomSize = 0
    BranchLimits = {1, 2}
    Modes = {"balanced"}
    MaxTasks = 2
    MaxSubmits = 1
    Failures = {"task", "proc", "abort", "drain"}
SPECIFICATION Spec
INVARIANTS
    NoStrandedWork
    NoErrorLost
    JoinsEnd
PROPERTIES
    NobodyPassesAFailure
    ImplementsOrderedLine
