SPECIFICATION UnitsSpec
CONSTANTS
    o1 = o1
    o2 = o2
    NoOp = NoOp
    Ops <- TwoOps
    Interrupts = {"cancel", "deadline"}
    Faults = {"load", "store", "delete"}
    Others = {"broker", "shutdown"}
    MaxInterrupts = 1
    MaxRevision = 2
INVARIANTS
    AccountIsTrue
    GrantsAreFenced
    FailedSignInsLeaveNothing
    BrowserAccountIsTrue
    ServicesAnswerTruly
PROPERTIES
    EventsInOrder
    FencedSignInsTouchNothing
SYMMETRY OpSymmetry
CHECK_DEADLOCK FALSE
