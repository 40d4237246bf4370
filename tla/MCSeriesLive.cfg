CONSTANTS
    NItems = 3
    NUnits = 1
    FanOuts = {1}
    LimitValues <- LiveLimits
    QueueValues <- LiveQueues
SPECIFICATION FairSpec
PROPERTIES
    EverybodyFinishes
