SPECIFICATION MutexSpec
CONSTANTS
    t1 = t1
    t2 = t2
    t3 = t3
    Thread = {t1, t2, t3}
    MainThread = {t1}
    Generations = 4
    MaxStops = 0
    MayEnd = FALSE
    FirstFit = FALSE
    None = None
INVARIANTS
    MutexTypeOK
    AtMostOneOwner
    HandoverConserved
PROPERTIES
    GrantedInOrder
    ContenderAcquires
