SPECIFICATION EpochSpec
CONSTANTS
    Backing = {b1, b2, b3}
    Participant = {p1, p2}
    MaxDepth = 2
INVARIANTS
    EpochTypeOK
    NoUseAfterReclaim
    RetiredIsBlocked
PROPERTY RetiredIsReclaimed
