SPECIFICATION Spec
CONSTANTS
    Daemon <- Daemons
    Bound = 2
    MayStraddle = FALSE
CHECK_DEADLOCK FALSE
INVARIANTS RelaunchIsBounded ClaimsAgree
PROPERTIES LeftIsFound
