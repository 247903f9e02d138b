SPECIFICATION Spec
CONSTANTS
    Job <- Jobs
    MaxClock = 2
    MaxQueue = 1
    MaxMount = 2
    MayOpenLate = FALSE
CHECK_DEADLOCK FALSE
PROPERTIES ScreenCatchesUp
