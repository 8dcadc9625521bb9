SPECIFICATION UnitsSpec
CONSTANTS
    r1 = r1  r2 = r2  r3 = r3
    Requests <- TwoRequests
    StreamLength = 1
    QueueCapacity = 1
    MaxRetries = 0
    Limits = {1, 2}
    MaxTickers = 2
    Modes = {"Stream"}
    Calls = {"Cancel", "Shutdown", "SetLimits"}
    Units = {"execution", "circuit", "tokens", "streams", "same stream",
             "sessions", "same session"}
INVARIANTS
    TransportsAreAccounted
    ProbesAreOutstanding
    CancellationReachesEveryToken
    StartsAreCounted
    AuthorizationsAreAccounted
PROPERTIES
    JudgedByItsOwnRequests
SYMMETRY RequestSymmetry
CHECK_DEADLOCK FALSE
