\* Two readers of the same queue of one, and a reset.
SPECIFICATION FairSpec
CONSTANTS
    Readers = {r1, r2}
    Resetters = {x1}
    ResetKinds = {"refork", "clear"}
    Slots = {s1}
    Accounts = {a1}
    OneAccount = a1
    OwnerOf <- MCOwnerOf
    Heights = {h1}
    KeyFile = {s1}
    SlotCap = 1
    AccountCap = 1
    BatchSize = 1
    MaxTries = 1
    Absent = Absent
    Zero = Zero
    Blank = Blank
    None = None
INVARIANTS
    TypeOK
PROPERTIES
    EveryReadReturns
    EveryResetReturns
