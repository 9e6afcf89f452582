\* A node that follows the chain, with everything that may fail while it serves.
SPECIFICATION FairSpec
CONSTANTS
    PinHeight = 1
    MaxHead = 3
    Deltas = {0, 1}
    TimeDeltas = {0}
    MaxTime = 2
    Faults = {"header", "chain", "zeroBalance", "subscription", "prefetch", "slowStart"}
    Wrap = 16
    None = None
INVARIANTS
    TypeOK
PROPERTIES
    ReforksWhenMissing
    ContextCatchesUp
    StartEnds
    ServingSurvives
