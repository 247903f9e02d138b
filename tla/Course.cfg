SPECIFICATION LedgerSpec
CONSTANTS
    a = a
    b = b
    c = c
    Step <- Steps
    Dep <- Deps
    Caller = {1, 2}
    MaxStop = 1
    MayRace = FALSE
    DefaultPrices <- Prices
    Overrides <- Said
    AnswerOf <- Answers
    OpOf <- Ops
    Launcher = {b}
    MaxCall = 2
    Unpriced = Unpriced
CHECK_DEADLOCK FALSE
INVARIANTS NothingLeftOut StopsLeaveWork DroppedStaysOut BillIsWhole
