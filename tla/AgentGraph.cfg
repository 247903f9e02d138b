SPECIFICATION Spec
CONSTANTS
    a = a
    b = b
    c = c
    Step <- Steps
    Program <- Programs
    NoPlan = NoPlan
    MaxRetries = 1
    MaxRefine = 2
    Source <- Sources
    OpOf <- ByOp
CHECK_DEADLOCK FALSE
INVARIANTS OnlyWhatCanRun RetriesAreSpent NothingLeftOut TerminalIsEarned ScoredAsItRan
PROPERTIES ResultsStand NeverStuck RunEnds
