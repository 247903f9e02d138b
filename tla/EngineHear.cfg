SPECIFICATION Spec
CONSTANTS
    Proc = {"a", "b", "c"}
    Call = {"run", "here", "far"}
    KindOf <- HearKind
    ProcOf <- HearProc
    Host <- Machines
    MayStall = TRUE
    MayCancelQueued = TRUE
    MayOvertake = FALSE
    NoLease = NoLease
    NoCall = NoCall
CHECK_DEADLOCK FALSE
PROPERTIES CancelIsHeard CancelIsAnswered
