CONSTANTS
    p1 = p1
    p2 = p2
    a = a
    t = t
    u = u
    noon = noon
    None = None
    Process = {p1, p2}
    ManualProcess = {p1, p2}
    Account = {a}
    TxId = {t, u}
    Timestamp = {noon}
    Tx <- MCTx
    Batch <- MCOneBatch
    InjectedStates <- MCInjectedStates
    InjectedBlocks <- MCInjectedBlocks
    ForeignIds = {u}
    MaxBlocks = 2
    MaxFullBlocks = 1
SPECIFICATION ManualSpec
SYMMETRY Symmetry
INVARIANTS
    ManualInv
    IdsReferToRows
    RowsAreBlocks
PROPERTIES
    DurableAppendOnly
    AddExtendsFile
