CONSTANTS
    p1 = p1
    p2 = p2
    a = a
    t = t
    u = u
    noon = noon
    None = None
    Process = {p1}
    ManualProcess = {p1}
    Account = {a}
    TxId = {t, u}
    Timestamp = {noon}
    Tx <- MCTx
    Batch <- MCBatch
    InjectedStates <- MCInjectedStates
    InjectedBlocks <- MCInjectedBlocks
    ForeignIds = {u}
    MaxBlocks = 2
    MaxFullBlocks = 1
SPECIFICATION InjectedSpec
INVARIANTS
    InSync
