SPECIFICATION Spec
CONSTANTS
    Explored = {"email"}
    None = None
    NoEntry = NoEntry
    Keys = {k1, k2}
    Conversations = {c1, c2}
    Window = 1
    MaxTime = 2
    MaxAsks = 2
    Recipients = {ann, bob}
    Subjects = {s1, s2}
    MaxMessages = 2
    Processes = {p, q}
    Sites = {shop}
    MaxLaunches = 2
    MaxDeaths = 1
    Requests = {r1, r2}
    Hosts = {h1, h2}
    Home <- MCHome
    Threads = {t1, t2, t3}
    Drafters = {t1, t2}
    ProcessOf <- MCProcessOf
    Ids = {r1, r2}
    MaxCrashes = 1
    t1 = t1
    t2 = t2
    t3 = t3
    p = p
    q = q
    h1 = h1
    h2 = h2
    r1 = r1
    r2 = r2
CHECK_DEADLOCK FALSE
INVARIANTS SentToTheOneAsked
