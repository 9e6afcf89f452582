\* Logs and receipts of one transaction over revisions and clones.
SPECIFICATION Spec
CONSTANTS
    Height1 = n1
    Root = root
    Layers = {root, l1, l2}
    Main = main
    DBs = {main, clone}
    Accounts = {a1}
    FakeAccounts = {}
    FakeBalance = 1
    Fields = {}
    Slots = {}
    MaxValue = 1
    BlockNumbers = {n1}
    UpstreamAt <- MCUpstreamAt
    MaxKeyCache = 1
    FetchOutcomes = {"ok"}
    TxHashes = {tx0, tx1}
    ZeroHash = tx0
    LogIds = {1, 2}
    MaxLogs = 2
    Absent = Absent
SYMMETRY LayerSymmetry
PROPERTIES
    ImplementsContract
