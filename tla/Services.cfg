SPECIFICATION Spec
CONSTANTS
    Explored = {"gateway", "store", "alexa", "voice"}
    None = None
    Nobody = Nobody
    MaxCrashes = 1
    Calls = {s1, s2}
    Sends = {s1, s2}
    Acceptable = {s1, s2}
    MaxToken = 2
    Writers = {w1, w2}
    Kinds = {"history", "usage", "access", "conversation", "memory"}
    Limit = 2
    MaxSaves = 3
    Posts = {a, b, c}
    MaxRestarts = 1
    People = {loop}
    Scheduler = sched
    MaxLate = 1
CHECK_DEADLOCK FALSE
INVARIANTS
    TypeOK
    OneTransmission
    ReportsAreTrue
    NothingIsLost
    OneRequestAtATime
PROPERTIES
    EveryCallReturns
    BusyIsGivenBack
    LastIsTheNewest
    ImplementsLog
