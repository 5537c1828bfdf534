SPECIFICATION Spec
CONSTANTS
    Tasks = {t1, t2}
    DayLength = 2
    MaxClock = 2
    MaxVoice = 1
    MaxFaults = 0
SYMMETRY TaskSymmetry
INVARIANT DeferredIsBegun
