SPECIFICATION HaltSpec
CONSTANTS
    t1 = t1
    t2 = t2
    t3 = t3
    Thread = {t1, t2, t3}
    MainThread = {t1}
    Generations = 4
    MaxStops = 1
    MayEnd = TRUE
    FirstFit = FALSE
    None = None
INVARIANTS
    AtMostOneOwner
PROPERTIES
    ShutdownJoins
CHECK_DEADLOCK FALSE
