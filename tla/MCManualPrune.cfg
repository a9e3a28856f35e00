CONSTANTS
    p1 = p1
    p2 = p2
    a = a
    t = t
    u = u
    noon = noon
    None = None
    Process = {p1, p2}
    ManualProcess = {p1, p2}
    Account = {a}
    TxId = {t, u}
    Timestamp = {noon}
    Tx <- MCTx
    Batch <- MCBatch
    InjectedStates <- MCInjectedStates
    InjectedBlocks <- MCInjectedBlocks
    ForeignIds = {u}
    MaxBlocks = 3
    MaxFullBlocks = 1
SPECIFICATION InMemorySpec
SYMMETRY Symmetry
INVARIANTS
    PruneCorresponds
