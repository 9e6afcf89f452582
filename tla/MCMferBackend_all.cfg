\* All handlers, everything that may fail.
SPECIFICATION FairSpec
CONSTANTS
    Clients = {c1, c2}
    Requests = {"sendTransaction", "sendRawTransaction", "reExecTxPool", "resetState", "clearTxPool", "clearKeyCache", "traceBlocks"}
    Senders = {a1}
    MaxTxs = 2
    PrepareOutcomes = {"ok", "chainErr", "headerPanic", "fetchPanic"}
    None = None
INVARIANTS
    TypeOK
    PoolExplainsState
PROPERTIES
    EveryRequestReturns
