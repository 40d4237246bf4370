CONSTANTS
    NItems = 2
    Stages = 2
    StageLimit <- Limits
    MaxTasks = 1
    MaxKids = 3
    Keepers = 1
    Failures = {"child", "proc", "drain", "abort"}
SPECIFICATION Spec
INVARIANTS
    EntranceInUse
    ChildrenInOrder
    NoOrphans
    NoErrorLost
PROPERTIES
    FailedBodyStops
