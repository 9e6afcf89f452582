\* A prefetch whose storage batch fails panics in resetScratchPad.
SPECIFICATION Spec
CONSTANTS
    Height1 = n1
    Root = root
    Layers = {root, l1, l2}
    Main = main
    DBs = {main}
    Accounts = {a1}
    FakeAccounts = {a1}
    FakeBalance = 1
    Fields = {"balance", "nonce"}
    Slots = {s1}
    MaxValue = 1
    BlockNumbers = {n1, n2}
    UpstreamAt <- MCUpstreamAt
    MaxKeyCache = 1
    FetchOutcomes = {"ok", "slotsFail"}
    TxHashes = {tx0}
    ZeroHash = tx0
    LogIds = {}
    MaxLogs = 0
    Absent = Absent
SYMMETRY LayerSymmetry
PROPERTIES
    UnderlyingProtected
