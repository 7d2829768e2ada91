SPECIFICATION ConditionSpec
CONSTANTS
    t1 = t1
    t2 = t2
    t3 = t3
    Thread = {t1, t2, t3}
    MainThread = {}
    Generations = 6
    MaxStops = 0
    MayEnd = FALSE
    FirstFit = FALSE
    MaxWaits = 2
    MaxSignals = 1
    None = None
PROPERTIES
    PromisedReturns
