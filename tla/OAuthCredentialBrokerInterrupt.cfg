SPECIFICATION Spec
CONSTANTS
    o1 = o1  o2 = o2  o3 = o3  r1 = r1  r2 = r2
    c1 = c1  c2 = c2  a1 = a1  p1 = p1
    NoOp = NoOp
    Ops <- TwoOps
    RequestIds <- TwoIds
    RequestIdOf <- TwoIdOf
    Connections <- SingleConnection
    ConnectionOf <- OneConnection
    Accounts = {a1}
    AccountOf <- SingleAccount
    Profiles = {p1}
    ProfileOf <- OneProfile
    MaxConcurrentOperations = 2
    AdminCalls = {"shutdown", "deadline", "parent", "cancel"}
    Interruptible = {o1}
    MaxEpoch = 2
    MaxRevision = 2
INVARIANTS
    TypeOK
    ResolvesAreAnsweredOnce
PROPERTIES
    LateRefreshNeverCommits
CHECK_DEADLOCK FALSE
