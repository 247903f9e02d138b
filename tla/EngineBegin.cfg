SPECIFICATION Safety
CONSTANTS
    Proc = {"a", "b"}
    Call = {"run", "far", "resume"}
    KindOf <- BeginKind
    ProcOf <- BeginProc
    Host <- Machines
    MayStall = FALSE
    MayCancelQueued = FALSE
    MayOvertake = TRUE
    NoLease = NoLease
    NoCall = NoCall
CHECK_DEADLOCK FALSE
PROPERTIES BeginIsHeard
