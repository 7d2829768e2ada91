\* Two guest timers and a batch that cannot hold both.
SPECIFICATION TimerSpec
CONSTANTS
    Key = {k1, k2}
    MaxIdent = 2
    MaxGeneration = 2
    MaxTimers = 2
    MaxData = 1
    BatchSize = 1
    MaxFired = 2
    MaxFailed = 0
    None = None
INVARIANTS
    NoStaleExpiration
    ExpirationsConserved
SYMMETRY Symmetry
\* After the queue has stopped nothing happens any more.
CHECK_DEADLOCK FALSE
