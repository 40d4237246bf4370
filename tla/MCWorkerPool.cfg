CONSTANTS
    MaxItems = 4
    ItemLimitValues <- ItemLimits
SPECIFICATION FairSpec
INVARIANTS
    OneStandby
    NoLostWakeup
    ReturnsDrained
PROPERTIES
    ShutdownEnds
CHECK_DEADLOCK FALSE
