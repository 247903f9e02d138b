SPECIFICATION Safety
CONSTANTS
    Proc = {"a", "b", "c"}
    Call = {"run", "here", "near", "far"}
    KindOf <- StopKind
    ProcOf <- StopProc
    Host <- Machines
    MayStall = FALSE
    MayCancelQueued = FALSE
    MayOvertake = FALSE
    NoLease = NoLease
    NoCall = NoCall
CHECK_DEADLOCK FALSE
INVARIANTS LiveRunLooksAlive NoLeaseMeansFinal CancelledMeansStopped
PROPERTIES KeepsThePromise
