SPECIFICATION Spec
CONSTANTS
    Proc = {"a", "b", "c"}
    Call = {"run", "boot", "resume", "answer"}
    KindOf <- BackKind
    ProcOf <- BackProc
    Host <- Machines
    MayStall = FALSE
    MayCancelQueued = FALSE
    MayOvertake = FALSE
    NoLease = NoLease
    NoCall = NoCall
CHECK_DEADLOCK FALSE
INVARIANTS OneRun
PROPERTIES CrashIsRecovered
