CONSTANTS
    NItems = 3
    NUnits = 2
    FanOuts = {1}
    LimitValues <- FixedLimits
    QueueValues <- FixedQueues
SPECIFICATION Spec
INVARIANTS
    NoOvertaking
    HoldsItsPosition
    SlotsMatchHolds
PROPERTIES
    ImplementsOrderedLine
