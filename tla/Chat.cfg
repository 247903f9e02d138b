SPECIFICATION Spec
CONSTANTS
    MaxJob = 3
    Prefix <- IdPrefixes
    Matches <- MatchesOf
    Gate = TRUE
    MaxQueue = 2
    MaxTurn = 2
    MayStrand = FALSE
CHECK_DEADLOCK FALSE
INVARIANTS ApprovedIsLaunched SaidInOrder
PROPERTIES TurnEnds
