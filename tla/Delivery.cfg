SPECIFICATION Spec
CONSTANTS
    Proc <- Managers
    MaxAttempt = 2
    MaxFault = 1
    MayOverlap = TRUE
    MayPauseInTurn = TRUE
CHECK_DEADLOCK FALSE
INVARIANTS ToldOnce 
PROPERTIES NothingIsLost
