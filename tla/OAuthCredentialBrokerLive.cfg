SPECIFICATION FairSpec
CONSTANTS
    o1 = o1  o2 = o2  o3 = o3  r1 = r1  r2 = r2
    c1 = c1  c2 = c2  a1 = a1  p1 = p1
    NoOp = NoOp
    Ops <- TwoOps
    RequestIds <- TwoIds
    RequestIdOf <- TwoIdOf
    Connections <- SingleConnection
    ConnectionOf <- OneConnection
    Accounts = {a1}
    AccountOf <- SingleAccount
    Profiles = {p1}
    ProfileOf <- OneProfile
    MaxConcurrentOperations = 2
    AdminCalls = {"deadline", "delete"}
    Interruptible = {o1, o2}
    MaxEpoch = 2
    MaxRevision = 2
PROPERTIES
    AdmittedEnds
CHECK_DEADLOCK FALSE
