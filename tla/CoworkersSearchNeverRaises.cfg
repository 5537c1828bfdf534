SPECIFICATION Spec
CONSTANTS
    Explored = {"coding", "batch", "models", "past"}
    None = None
    r1 = r1
    r2 = r2
    r3 = r3
    q1 = q1
    q2 = q2
    p = p
    q = q
    MaxFaults = 1
    Runs = {r1, r2}
    RequestIds = {q1, q2}
    Requests = {r1, r2, r3}
    Processes = {p, q}
    ProcessOf <- MCProcessOf
    SourceOf <- MCSourceOf
    Paths = {"old", "new"}
    Ignored = {}
    Denied = {}
    New = {"new"}
    KeepLast = 1
    MaxTroubles = 1
    MaxTasks = 3
    MaxParallel = 2
    MaxRetries = 1
    Kinds = {"writing"}
    Configured = {"anthropic", "openai"}
    MaxCalls = 1
    Budget = 1
    DayBudget = 2
    Kept = 5
    Cooldown = 1
    MaxTime = 1
    MaxOthers = 1
    MaxLost = 1
    MaxBatch = 1
    MaxCrashes = 1
    MaxDamages = 1
CHECK_DEADLOCK FALSE
SYMMETRY RunSymmetry
INVARIANTS SearchNeverRaises
