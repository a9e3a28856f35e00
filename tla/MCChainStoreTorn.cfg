CONSTANTS
    p1 = p1
    p2 = p2
    a = a
    b = b
    t = t
    u = u
    noon = noon
    later = later
    None = None
    Process = {p1, p2}
    Account = {a, b}
    TxId = {t, u}
    Timestamp = {noon}
    Tx <- MCTx
    Batch <- MCPlainBatch
    MaxBlocks = 3
    MaxFullBlocks = 1
SPECIFICATION Spec
SYMMETRY Symmetry
INVARIANTS
    StateIsOwn
