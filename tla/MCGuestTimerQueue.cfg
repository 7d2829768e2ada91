\* One guest timer, rearmed, deleted and registered again.
SPECIFICATION TimerSpec
CONSTANTS
    Key = {k1}
    MaxIdent = 2
    MaxGeneration = 2
    MaxTimers = 1
    MaxData = 2
    BatchSize = 16
    MaxFired = 3
    MaxFailed = 1
    None = None
INVARIANTS
    TimerTypeOK
    NoStaleExpiration
    ExpirationsConserved
    NoWaiterAfterStop
PROPERTIES
    DeliverableIsOffered
    StopEnds
\* After the queue has stopped nothing happens any more.
CHECK_DEADLOCK FALSE
