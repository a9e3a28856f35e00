CONSTANTS
    s = s
    None = None
    Junk = Junk
    Tx <- MCTx
    TxLists <- MCTxLists
    Data <- MCData
    IntOrder <- MCIntOrder
    TextOrder <- MCTextOrder
    Damaged <- MCDamaged
    Item <- MCItem
    MaxShared = 2
SPECIFICATION BodySpec
INVARIANTS
    ProofsVerify
    AcceptedProofsAreTrue
    RootIsRFC6962
    VerifiedBodiesAreCommitted
    DamageIsReported
    IntactBodiesVerify
PROPERTIES
    RootBindsList
