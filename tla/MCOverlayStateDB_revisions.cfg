\* Revisions and clones: one storage slot, two heights, four layers over the
\* root, three of them while a caller of Main is overtaken.
SPECIFICATION Spec
CONSTANTS
    Height1 = n1
    Root = root
    Layers = {root, l1, l2, l3, l4}
    Main = main
    DBs = {main, clone}
    Accounts = {a1}
    FakeAccounts = {}
    FakeBalance = 1
    Fields = {}
    Slots = {s1}
    MaxValue = 1
    BlockNumbers = {n1, n2}
    UpstreamAt <- MCUpstreamAt
    MaxKeyCache = 1
    FetchOutcomes = {"ok"}
    TxHashes = {tx0}
    ZeroHash = tx0
    LogIds = {}
    MaxLogs = 0
    Absent = Absent
SYMMETRY LayerSymmetry
INVARIANTS
    
    WritesIsolated
PROPERTIES
    ImplementsContract
CONSTRAINT
    RoomWhileLapsed
