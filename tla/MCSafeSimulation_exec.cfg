\* A Safe of two owners that a pool transaction gives a third one.
SPECIFICATION Spec
CONSTANTS
    Safe = 9
    EOA = 8
    Calls <- MCCalls
    Enlarge <- MCEnlarge
    Base <- MCBase
    Enlarged <- MCEnlarged
    OwnerLists <- MCOwnerLists
    MaxTxs = 2
    MaxNonce = 1
    Nil = Nil
INVARIANTS
    TypeOK
    SuccessRanThePool
    ReturnedIsExecutable
    RefusedForAReason
