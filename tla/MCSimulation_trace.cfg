\* Two simulations at a time next to the node.
SPECIFICATION Spec
CONSTANTS
    Accounts = {a1, a2}
    Clients = {c1, c2}
    Replayers = {c1}
    GasLimit = 3
    TxGas = 2
    UsedGas = 1
    MaxTxs = 2
    MaxFork = 1
    TraceForks = {1}
    Nil = Nil
    Underfunded <- SecondIsUnderfunded
SYMMETRY AccountSymmetry
INVARIANTS
    TypeOK
    GasAddsUp
    
    OwnTrace
