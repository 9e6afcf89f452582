\* A request in flight, options that move, two transactions in the pool.
SPECIFICATION Spec
CONSTANTS
    Accounts = {a1, a2}
    Zero = Zero
    Rand = Rand
    Rich = Rich
    ChainID = ChainID
    OtherID = OtherID
    Clients = {c1}
    MaxTxs = 2
    Nil = Nil
SYMMETRY AccountSymmetry
INVARIANTS
    TypeOK
    HashNamesAuthor
    ViewsAgree
    OneIdentity
