\* Three guest pages, two backings, one JIT; three mapping operations.
SPECIFICATION VmSpec
CONSTANTS
    Backing = {b1, b2}
    Participant = {p1}
    MaxDepth = 1
    NumPages = 3
    AnywhereBase = 1
    Perms <- MCPerms
    Alignments = {1, 2}
    MaxRange = 2
    MaxGeneration = 4
    Unmapped = Unmapped
    Null = Null
    Direct = Direct
SYMMETRY Symmetry
VIEW View
INVARIANTS
    VmTypeOK
    PublishedIsLive
    ReferencesCountPages
    FastPathMatchesMap
    CachedLookupIsCurrent
PROPERTY
    ImplementsEpochs
\* nativeDestroy is the end of the address space.
CHECK_DEADLOCK FALSE
