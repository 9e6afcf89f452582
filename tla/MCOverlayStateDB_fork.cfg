\* The root cache over re-forks and clones: an account with two fields and a
\* slot, two heights; two layers over the root, one while a caller of Main is
\* overtaken.
SPECIFICATION Spec
CONSTANTS
    Height1 = n1
    Root = root
    Layers = {root, l1, l2}
    Main = main
    DBs = {main, clone}
    Accounts = {a1}
    FakeAccounts = {a1}
    FakeBalance = 1
    Fields = {"balance", "nonce"}
    Slots = {s1}
    MaxValue = 1
    BlockNumbers = {n1, n2}
    UpstreamAt <- MCUpstreamAt
    MaxKeyCache = 1
    FetchOutcomes = {"ok", "zeros", "accountsFail"}
    TxHashes = {tx0}
    ZeroHash = tx0
    LogIds = {}
    MaxLogs = 0
    Absent = Absent
SYMMETRY LayerSymmetry
INVARIANTS
    TypeOK
    RootCoherent
    DiffIsView
CONSTRAINT
    RoomWhileLapsed
