CONSTANTS
    Walkers <- Two
    Last = 2
    FanOuts = {2}
    Scopes = {"root", "lane", "pool"}
    MaxClicks = 2
    MaxRuns = 1
SPECIFICATION FairSpec
INVARIANTS
    NoLostClick
    HoldsAreReleasable
    OccupantsAreLabelled
    BlockedHaveFinished
PROPERTIES
    StopEnds
