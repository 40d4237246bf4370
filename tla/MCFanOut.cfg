CONSTANTS
    NItems = 2
    Branches = {p, q}
    NodeLimit = 2
    RoomSize = 1
    BranchLimits = {1}
    Modes = {"strict", "balanced"}
    MaxTasks = 1
    MaxSubmits = 2
    Failures = {}
SPECIFICATION Spec
SYMMETRY PoolSymmetry
INVARIANTS
    FirstBatchesInOrder
    HoldEndsInTime
    SlotsMatchHolds
PROPERTIES
    ServedByAge
    PreparedIsActivated
