SPECIFICATION FairSpec
CONSTANTS
    Daemons = {d1, d2}
    PollTimeout = 50
    HttpTimeout = 15
    MaxTurns = 1
    MaxUpdates = 3
    MaxCrashes = 1
INVARIANTS
    TypeOK
    NothingSkipped
PROPERTIES
    ImplementsInbox
    ArrivedIsFinished
