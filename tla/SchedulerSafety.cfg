SPECIFICATION Spec
CONSTANTS
    Tasks = {t1, t2}
    DayLength = 2
    MaxClock = 3
    MaxVoice = 1
    MaxFaults = 2
SYMMETRY TaskSymmetry
VIEW WithoutDeferred
INVARIANTS
    TypeOK
    AtMostOncePerDay
    EditsSurvive
