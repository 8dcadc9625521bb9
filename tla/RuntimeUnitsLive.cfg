SPECIFICATION FairUnitsSpec
CONSTANTS
    r1 = r1  r2 = r2  r3 = r3
    Requests <- OneRequest
    StreamLength = 3
    QueueCapacity = 2
    MaxRetries = 1
    Limits = {1}
    MaxTickers = 2
    Modes = {"OneShot", "Stream"}
    Calls = {"Cancel", "Shutdown"}
    Units = {"execution", "stream", "session", "browser", "network", "driver"}
INVARIANTS
    StreamsAreWhole
    SinksGetOneStream
    AnswersAreGenuine
PROPERTIES
    RefinesContract
    PhysicallySettles
    WorkEnds
CHECK_DEADLOCK FALSE
