\* Two readers and two re-forks: two slots in chunks of one and an account, two heights.
SPECIFICATION Spec
CONSTANTS
    Readers = {r1, r2}
    Resetters = {x1, x2}
    ResetKinds = {"refork"}
    Slots = {s1, s2}
    Accounts = {a1}
    OneAccount = a1
    OwnerOf <- MCOwnerOf
    Heights = {h1, h2}
    KeyFile = {}
    SlotCap = 2
    AccountCap = 1
    BatchSize = 1
    MaxTries = 0
    Absent = Absent
    Zero = Zero
    Blank = Blank
    None = None
SYMMETRY AllSymmetry
INVARIANTS
    AnswersMatch
    OnlyLateIsStale
PROPERTIES
    ReforkRefreshesAll
