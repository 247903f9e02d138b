SPECIFICATION Spec
CONSTANTS
    Job <- Jobs
    Own <- OwnJobs
    Backend <- Backends
    MaxClock = 2
    MaxSave = 3
    MaxQueue = 2
    MayCommitLate = FALSE
CHECK_DEADLOCK FALSE
INVARIANTS OnlyLossIsMissed
PROPERTIES FeedIsKept
