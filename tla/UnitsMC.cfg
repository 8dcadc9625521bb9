SPECIFICATION UnitsSpec
CONSTANTS
    Callers = {c1, c2, c3}
    Keys = {k1, k2, k3}
    MaxJoiners = 2
    MaxTracked = 2
    MaxWord = 3
INVARIANTS
    TypeOK
    StaleTicketNeverCurrent
    OneLiveLeader
    AnswersAreWhole
    ContinuationsHoldTheCalls
    CredentialUseIsBounded
    ResponsesAreWhole
PROPERTIES
    RefinesStream
    RevokedIsNeverGranted
SYMMETRY CallerSymmetry
CHECK_DEADLOCK FALSE
