SPECIFICATION Spec
CONSTANTS
    r1 = r1  r2 = r2  r3 = r3
    Requests <- OneRequest
    StreamLength = 3
    QueueCapacity = 2
    MaxRetries = 0
    Limits = {1}
    MaxTickers = 1
    Modes = {"Stream"}
    Calls = {"Cancel"}
INVARIANTS
    DeliveredInOrder
CHECK_DEADLOCK FALSE
