--------------------------- MODULE ChainStoreProofs --------------------------
(* IInv is an invariant of the store, for any number of processes, accounts,  *)
(* transactions and timestamps and any bound on the length of the chain.      *)
EXTENDS ChainStoreInvariant, TLAPS

-----------------------------------------------------------------------------
(* Facts about the operators of StateDelta, Block and Chain.                  *)

\* A transaction credits at most its own account and marks exactly its own id.
LEMMA ApplyTransactionFacts ==
  ASSUME NEW s \in States, NEW tx \in Tx, ValidTransaction(tx)
  PROVE  /\ ApplyTransaction(s, tx) \in States
         /\ \A a \in Account : a # tx.account =>
               ApplyTransaction(s, tx).current_state[a] = s.current_state[a]
         /\ ApplyTransaction(s, tx).applied_tx_ids = s.applied_tx_ids \cup {tx.tx_id}
<1>1. tx \in [tx_id : TxId, account : Account, amount : Int \cup {None}]
  BY TxAssumption
<1>2. tx.tx_id \in TxId /\ tx.account \in Account /\ tx.amount \in Int
  BY <1>1 DEF ValidTransaction
<1>3. \A x \in Int \cup {None} : Credit(x, tx.amount) \in Int
  BY <1>2, NoneAssumption DEF Credit
<1>4. s.current_state \in [Account -> Int \cup {None}] /\ s.applied_tx_ids \subseteq TxId
  BY DEF States, Balances
<1>5. CASE Replayed(s, tx)
  BY <1>5, <1>4 DEF ApplyTransaction, Replayed
<1>6. CASE ~Replayed(s, tx)
  <2>1. ApplyTransaction(s, tx) =
          [current_state  |-> [s.current_state EXCEPT
                                 ![tx.account] = Credit(s.current_state[tx.account], tx.amount)],
           applied_tx_ids |-> s.applied_tx_ids \cup {tx.tx_id}]
    BY <1>6 DEF ApplyTransaction
  <2>2. [s.current_state EXCEPT
             ![tx.account] = Credit(s.current_state[tx.account], tx.amount)] \in Balances
    BY <1>2, <1>3, <1>4 DEF Balances
  <2>3. QED
    BY <2>1, <2>2, <1>2, <1>4 DEF States
<1>7. QED
  BY <1>5, <1>6

-----------------------------------------------------------------------------
LEMMA CreateFacts ==
  ASSUME NEW i \in Index, NEW h \in Hash, NEW txs \in Batch, NEW ts \in Timestamp
  PROVE  /\ Create(i, h, txs, ts) \in Blocks
         /\ VerifyBody(Create(i, h, txs, ts))
         /\ Create(i, h, txs, ts).index = i
         /\ Create(i, h, txs, ts).prev_hash = h
         /\ ~Create(i, h, txs, ts).is_pruned
         /\ Create(i, h, txs, ts).hash =
               ComputeHash(i, h, MerkleRoot(txs), ts)
         /\ Create(i, h, txs, ts).merkle_root = MerkleRoot(txs)
         /\ Create(i, h, txs, ts).timestamp = ts
<1>1. MerkleRoot(txs) \in Root
  BY DEF MerkleRoot, Root
<1>2. ComputeHash(i, h, MerkleRoot(txs), ts) \in Hash
  BY <1>1 DEF ComputeHash, Hash
<1>3. txs # None
  BY BatchAssumption
<1>4. QED
  BY <1>1, <1>2, <1>3 DEF Create, Blocks, VerifyBody

LEMMA PruneFacts ==
  ASSUME NEW b \in Blocks
  PROVE  /\ Prune(b) \in Blocks
         /\ Prune(b).is_pruned
         /\ Prune(b).index = b.index
         /\ Prune(b).prev_hash = b.prev_hash
         /\ Prune(b).hash = b.hash
         /\ Prune(b).merkle_root = b.merkle_root
         /\ Prune(b).timestamp = b.timestamp
         /\ Prune(b) # None
BY NoneIsNoBlock DEF Prune, Blocks

LEMMA FromPersistedFacts ==
  ASSUME NEW b \in Blocks
  PROVE  /\ FromPersisted(b) \in Blocks
         /\ FromPersisted(b).is_pruned = b.is_pruned
         /\ FromPersisted(b).index = b.index
         /\ FromPersisted(b).prev_hash = b.prev_hash
         /\ FromPersisted(b).hash = b.hash
         /\ FromPersisted(b).merkle_root = b.merkle_root
         /\ FromPersisted(b).timestamp = b.timestamp
         /\ VerifyBody(b) => VerifyBody(FromPersisted(b))
         /\ FromPersisted(b) # None
BY NoneIsNoBlock DEF FromPersisted, Blocks, VerifyBody

-----------------------------------------------------------------------------
\* Present and a well-formed chain's last block.
LEMMA PresentFacts ==
  ASSUME NEW c \in Chains
  PROVE  /\ Present(c) \subseteq Index
         /\ \A i \in Present(c) : c[i] \in Blocks /\ c[i] # None
         /\ \A i \in Index : i \in Present(c) <=> c[i] # None
BY DEF Present, Chains

LEMMA LastIndexIs ==
  ASSUME NEW c \in Chains, NEW m \in Index, Present(c) = 0 .. m
  PROVE  LastIndex(c) = m
<1>1. m \in Int /\ 0 <= m
  BY MaxBlocksAssumption DEF Index
<1>2. m \in Present(c) /\ \A j \in Present(c) : j <= m
  BY <1>1
<1>3. \A i \in Present(c) : (\A j \in Present(c) : j <= i) => i = m
  BY <1>1, <1>2
<1>4. QED
  BY <1>2, <1>3 DEF LastIndex

LEMMA NewChainFacts ==
  ASSUME NEW ts \in Timestamp
  PROVE  /\ NewChain(ts) \in Chains
         /\ Present(NewChain(ts)) = {0}
         /\ WellFormed(NewChain(ts))
         /\ ~NewChain(ts)[0].is_pruned
<1> DEFINE g == Create(0, GENESIS_PREV_HASH, <<>>, ts)
<1>1. 0 \in Index /\ {0} = 0 .. 0
  BY MaxBlocksAssumption DEF Index
<1>2. <<>> \in Batch /\ GENESIS_PREV_HASH \in Hash
  BY BatchAssumption DEF GENESIS_PREV_HASH, Hash
<1>3. g \in Blocks /\ VerifyBody(g) /\ ~g.is_pruned /\ g.index = 0
      /\ g.prev_hash = GENESIS_PREV_HASH
      /\ g.hash = ComputeHash(0, g.prev_hash, g.merkle_root, g.timestamp)
  BY <1>1, <1>2, CreateFacts
<1> HIDE DEF g
<1>4. NewChain(ts) = [i \in Index |-> IF i = 0 THEN g ELSE None]
  BY DEF NewChain, g
<1>5. NewChain(ts) \in Chains /\ NewChain(ts)[0] = g
  BY <1>1, <1>3, <1>4 DEF Chains
<1>6. Present(NewChain(ts)) = {0}
  BY <1>1, <1>3, <1>4, NoneIsNoBlock DEF Present
<1>7. ValidBlock(NewChain(ts), 0)
  BY <1>3, <1>5 DEF ValidBlock
<1>8. WellFormed(NewChain(ts))
  BY <1>1, <1>6, <1>7 DEF WellFormed, Contiguous, ValidateChain
<1>9. QED
  BY <1>3, <1>5, <1>6, <1>8

LEMMA NoChainFacts ==
  /\ NoChain \in Chains
  /\ Present(NoChain) = {}
  /\ WellFormed(NoChain)
BY DEF NoChain, Chains, Present, WellFormed, Contiguous, ValidateChain

\* Appending a valid successor keeps a chain well formed.
LEMMA AppendFacts ==
  ASSUME NEW c \in Chains, WellFormed(c), NEW b \in Blocks, b.index # 0,
         Present(c) = 0 .. b.index - 1,
         ValidBlock(AppendBlock(c, b), b.index)
  PROVE  /\ AppendBlock(c, b) \in Chains
         /\ Present(AppendBlock(c, b)) = 0 .. b.index
         /\ AppendBlock(c, b)[b.index] = b
         /\ \A i \in Present(c) : AppendBlock(c, b)[i] = c[i]
         /\ b.index \in Index \ Present(c)
         /\ WellFormed(AppendBlock(c, b))
<1> DEFINE d == AppendBlock(c, b)
<1>1. b.index \in Index /\ b.index \in Int /\ 0 < b.index /\ b # None
  BY MaxBlocksAssumption, NoneIsNoBlock DEF Blocks, Index
<1>2. d = [c EXCEPT ![b.index] = b] /\ c \in [Index -> Blocks \cup {None}]
  BY DEF AppendBlock, Chains
<1>3. d \in Chains /\ d[b.index] = b /\ \A i \in Index \ {b.index} : d[i] = c[i]
  BY <1>1, <1>2 DEF Chains
<1>4. b.index \notin Present(c) /\ Present(c) \subseteq Index
  BY <1>1 DEF Present
<1>5. Present(d) = Present(c) \cup {b.index}
  BY <1>1, <1>3, <1>4 DEF Present
<1>6. Present(d) = 0 .. b.index
  BY <1>1, <1>5
<1>7. \A i \in Present(c) : d[i] = c[i]
  BY <1>3, <1>4
<1>8. ASSUME NEW i \in Present(c) PROVE ValidBlock(d, i)
  <2>1. ValidBlock(c, i) /\ d[i] = c[i]
    BY <1>7 DEF WellFormed, ValidateChain
  <2>2. i # 0 => i - 1 \in Present(c) /\ i - 1 \in Present(d) /\ d[i - 1] = c[i - 1]
    BY <2>1, <1>5, <1>7 DEF ValidBlock
  <2>3. QED
    BY <2>1, <2>2 DEF ValidBlock
<1>9. WellFormed(d)
  BY <1>1, <1>5, <1>6, <1>8 DEF WellFormed, Contiguous, ValidateChain
<1>10. QED
  BY <1>1, <1>3, <1>4, <1>6, <1>7, <1>9

\* The block add_block builds is such a successor.
LEMMA NextBlockFacts ==
  ASSUME NEW c \in Chains, WellFormed(c), 0 \in Present(c),
         LastIndex(c) + 1 \in Index, NEW txs \in Batch, NEW ts \in Timestamp
  PROVE  LET b == NextBlock(c, txs, ts)
         IN  /\ b \in Blocks
             /\ ~b.is_pruned
             /\ b.index # 0
             /\ Present(c) = 0 .. b.index - 1
             /\ ValidBlock(AppendBlock(c, b), b.index)
<1> DEFINE b == NextBlock(c, txs, ts)
<1>1. PICK m \in Index : Present(c) = 0 .. m
  BY DEF WellFormed, Contiguous
<1>2. LastIndex(c) = m /\ m \in Int /\ 0 <= m /\ m + 1 \in Index /\ m \in Present(c)
  BY <1>1, LastIndexIs, MaxBlocksAssumption DEF Index
<1>3. c[m] \in Blocks /\ c[m].index = m /\ c[m].hash \in Hash
  BY <1>2, PresentFacts DEF WellFormed, ValidateChain, ValidBlock, Blocks
<1>4. b = Create(m + 1, c[m].hash, txs, ts)
  BY <1>2, <1>3 DEF NextBlock
<1>5. /\ b \in Blocks /\ VerifyBody(b) /\ ~b.is_pruned
      /\ b.index = m + 1 /\ b.prev_hash = c[m].hash
      /\ b.hash = ComputeHash(m + 1, b.prev_hash, b.merkle_root, b.timestamp)
  BY <1>2, <1>3, <1>4, CreateFacts
<1> HIDE DEF b
<1>6. b.index # 0 /\ Present(c) = 0 .. b.index - 1
  BY <1>1, <1>2, <1>5
<1> DEFINE d == AppendBlock(c, b)
<1>7. d[m + 1] = b /\ d[m] = c[m] /\ m \in Index
  BY <1>2, <1>5 DEF AppendBlock, Chains
<1>8. m \in Present(d) /\ (m + 1) - 1 = m /\ m + 1 # 0
  BY <1>2, <1>3, <1>7, NoneIsNoBlock DEF Present
<1>9. ValidBlock(d, m + 1)
  BY <1>5, <1>7, <1>8 DEF ValidBlock
<1>10. QED
  BY <1>5, <1>6, <1>9 DEF b

-----------------------------------------------------------------------------
\* Replacing blocks by blocks with the same header fields and an acceptable
\* body keeps a chain well formed.
SameHeaderFields(b, d) ==
    /\ b.index = d.index /\ b.prev_hash = d.prev_hash /\ b.hash = d.hash
    /\ b.merkle_root = d.merkle_root /\ b.timestamp = d.timestamp

LEMMA SameHeadersFacts ==
  ASSUME NEW c \in Chains, NEW d \in Chains, WellFormed(c),
         Present(d) = Present(c),
         \A i \in Present(c) : SameHeaderFields(c[i], d[i]) /\ VerifyBody(d[i])
  PROVE  WellFormed(d) /\ Headers(d) = Headers(c)
<1>1. ASSUME NEW i \in Present(d) PROVE ValidBlock(d, i)
  <2>1. ValidBlock(c, i) /\ i \in Present(c)
    BY DEF WellFormed, ValidateChain
  <2>2. SameHeaderFields(c[i], d[i]) /\ VerifyBody(d[i])
    BY <2>1
  <2>3. i # 0 => i - 1 \in Present(d) /\ c[i - 1].hash = d[i - 1].hash
    BY <2>1 DEF ValidBlock, SameHeaderFields
  <2>4. QED
    BY <2>1, <2>2, <2>3 DEF ValidBlock, SameHeaderFields
<1>2. Contiguous(d)
  BY DEF WellFormed, Contiguous
<1>3. Headers(d) = Headers(c)
  BY DEF Headers, SameHeaderFields
<1>4. QED
  BY <1>1, <1>2, <1>3 DEF WellFormed, ValidateChain

LEMMA PruneBlocksFacts ==
  ASSUME NEW c \in Chains, WellFormed(c)
  PROVE  /\ PruneBlocks(c) \in Chains
         /\ Present(PruneBlocks(c)) = Present(c)
         /\ WellFormed(PruneBlocks(c))
         /\ Headers(PruneBlocks(c)) = Headers(c)
         /\ \A i \in Present(c) :
               /\ PruneBlocks(c)[i].hash = c[i].hash
               /\ PruneBlocks(c)[i].is_pruned => c[i].is_pruned \/ i \in Eligible(c)
<1> DEFINE d == PruneBlocks(c)
<1>1. \A i \in Present(c) : c[i] \in Blocks /\ VerifyBody(c[i]) /\ i \in Index
  BY PresentFacts DEF WellFormed, ValidateChain, ValidBlock
<1>2. Eligible(c) \subseteq Present(c)
  BY DEF Eligible
<1>3. d = [i \in Index |-> IF i \in Eligible(c) THEN Prune(c[i]) ELSE c[i]]
  BY DEF PruneBlocks
<1>4. ASSUME NEW i \in Present(c)
      PROVE  /\ d[i] \in Blocks /\ d[i] # None
             /\ SameHeaderFields(c[i], d[i]) /\ VerifyBody(d[i])
             /\ d[i].is_pruned => c[i].is_pruned \/ i \in Eligible(c)
  <2>1. c[i] \in Blocks /\ VerifyBody(c[i]) /\ i \in Index /\ c[i] # None
    BY <1>1, PresentFacts
  <2>2. CASE i \in Eligible(c)
    <3>1. d[i] = Prune(c[i])
      BY <1>3, <2>1, <2>2
    <3>2. QED
      BY <3>1, <2>1, <2>2, PruneFacts DEF SameHeaderFields, VerifyBody
  <2>3. CASE i \notin Eligible(c)
    <3>1. d[i] = c[i]
      BY <1>3, <2>1, <2>3
    <3>2. QED
      BY <3>1, <2>1 DEF SameHeaderFields
  <2>4. QED
    BY <2>2, <2>3
<1>5. \A i \in Index : i \notin Present(c) => d[i] = None
  BY <1>2, <1>3, PresentFacts
<1>6. d \in Chains
  <2>1. \A i \in Index : d[i] \in Blocks \cup {None}
    BY <1>4, <1>5
  <2>2. QED
    BY <2>1, <1>3 DEF Chains
<1>7. Present(d) = Present(c)
  BY <1>4, <1>5 DEF Present
<1> HIDE DEF d
<1>8. WellFormed(d) /\ Headers(d) = Headers(c)
  BY <1>4, <1>6, <1>7, SameHeadersFacts
<1>9. QED
  BY <1>4, <1>6, <1>7, <1>8 DEF d, SameHeaderFields

-----------------------------------------------------------------------------
\* Comparing chains by their headers.
LEMMA HeadersEqual ==
  ASSUME NEW c \in Chains, NEW d \in Chains
  PROVE  Headers(c) = Headers(d) <=>
            /\ Present(c) = Present(d)
            /\ \A i \in Present(c) : c[i].hash = d[i].hash
<1>1. DOMAIN Headers(c) = Present(c) /\ DOMAIN Headers(d) = Present(d)
  BY DEF Headers
<1>2. \A i \in Present(c) : Headers(c)[i] = c[i].hash
  BY DEF Headers
<1>3. \A i \in Present(d) : Headers(d)[i] = d[i].hash
  BY DEF Headers
<1>4. ASSUME Headers(c) = Headers(d)
      PROVE  Present(c) = Present(d) /\ \A i \in Present(c) : c[i].hash = d[i].hash
  BY <1>1, <1>2, <1>3, <1>4
<1>5. ASSUME Present(c) = Present(d), \A i \in Present(c) : c[i].hash = d[i].hash
      PROVE  Headers(c) = Headers(d)
  BY <1>5 DEF Headers
<1>6. QED
  BY <1>4, <1>5

LEMMA PrefixTransitive ==
  ASSUME NEW c \in Chains, NEW d \in Chains, NEW e \in Chains,
         HeaderPrefix(c, d), HeaderPrefix(d, e)
  PROVE  HeaderPrefix(c, e)
BY DEF HeaderPrefix, Present

\* A prefix with no next block in the longer chain is all of it.
LEMMA PrefixFull ==
  ASSUME NEW c \in Chains, NEW d \in Chains, WellFormed(d), HeaderPrefix(c, d),
         NEW k \in Index, Present(c) = 0 .. k - 1, d[k] = None
  PROVE  Headers(c) = Headers(d)
<1>1. k \in Int /\ 0 <= k /\ k \notin Present(d) /\ Present(d) \subseteq Index
  BY MaxBlocksAssumption DEF Index, Present
<1>2. Present(c) \subseteq Present(d)
  BY <1>1 DEF HeaderPrefix, Present
<1>3. Present(d) \subseteq Present(c)
  <2>1. CASE Present(d) = {}
    BY <2>1
  <2>2. CASE \E m \in Index : Present(d) = 0 .. m
    BY <1>1, <2>2, MaxBlocksAssumption DEF Index
  <2>3. QED
    BY <2>1, <2>2 DEF WellFormed, Contiguous
<1>4. QED
  BY <1>2, <1>3, HeadersEqual DEF HeaderPrefix

\* The successor of a chain is a successor of any chain with its headers.
LEMMA SuccessorTransfers ==
  ASSUME NEW c \in Chains, NEW d \in Chains, Headers(c) = Headers(d),
         NEW b \in Blocks, b.index # 0, Present(c) = 0 .. b.index - 1,
         ValidBlock(AppendBlock(c, b), b.index)
  PROVE  /\ Present(d) = 0 .. b.index - 1
         /\ ValidBlock(AppendBlock(d, b), b.index)
<1>1. b.index \in Index /\ b.index \in Int /\ 0 < b.index /\ b # None
  BY MaxBlocksAssumption, NoneIsNoBlock DEF Blocks, Index
<1>2. Present(d) = Present(c) /\ \A i \in Present(c) : c[i].hash = d[i].hash
  BY HeadersEqual
<1>3. b.index - 1 \in Present(c) /\ b.index - 1 \in Index /\ b.index - 1 # b.index
  BY <1>1 DEF Present
<1>4. /\ AppendBlock(c, b)[b.index] = b /\ AppendBlock(c, b)[b.index - 1] = c[b.index - 1]
      /\ AppendBlock(d, b)[b.index] = b /\ AppendBlock(d, b)[b.index - 1] = d[b.index - 1]
  BY <1>1, <1>3 DEF AppendBlock, Chains
<1>5. b.index - 1 \in Present(AppendBlock(d, b))
  BY <1>2, <1>3, <1>4 DEF Present
<1>6. ValidBlock(AppendBlock(d, b), b.index)
  BY <1>2, <1>3, <1>4, <1>5 DEF ValidBlock
<1>7. QED
  BY <1>2, <1>6

LEMMA AppendHeaders ==
  ASSUME NEW c \in Chains, NEW d \in Chains, Headers(c) = Headers(d), WellFormed(c),
         WellFormed(d), NEW b \in Blocks, b.index # 0, Present(c) = 0 .. b.index - 1,
         ValidBlock(AppendBlock(c, b), b.index)
  PROVE  Headers(AppendBlock(d, b)) = Headers(AppendBlock(c, b))
<1>1. /\ Present(d) = 0 .. b.index - 1
      /\ ValidBlock(AppendBlock(d, b), b.index)
  BY SuccessorTransfers
<1>2. /\ AppendBlock(c, b) \in Chains /\ Present(AppendBlock(c, b)) = 0 .. b.index
      /\ AppendBlock(c, b)[b.index] = b
      /\ \A i \in Present(c) : AppendBlock(c, b)[i] = c[i]
  BY AppendFacts
<1>3. /\ AppendBlock(d, b) \in Chains /\ Present(AppendBlock(d, b)) = 0 .. b.index
      /\ AppendBlock(d, b)[b.index] = b
      /\ \A i \in Present(d) : AppendBlock(d, b)[i] = d[i]
  BY <1>1, AppendFacts
<1>4. Present(c) = Present(d) /\ \A i \in Present(c) : c[i].hash = d[i].hash
  BY HeadersEqual
<1>5. \A i \in 0 .. b.index : i = b.index \/ i \in Present(c)
  BY MaxBlocksAssumption DEF Blocks, Index
<1>6. \A i \in 0 .. b.index : AppendBlock(c, b)[i].hash = AppendBlock(d, b)[i].hash
  BY <1>2, <1>3, <1>4, <1>5
<1>7. QED
  BY <1>2, <1>3, <1>6, HeadersEqual

-----------------------------------------------------------------------------
(* Facts about the tables and the first state.                                *)

\* The step is p's: no other process's memory, location or call changes.
OthersSame(p) ==
    \A q \in Process \ {p} :
        pc'[q] = pc[q] /\ chain'[q] = chain[q] /\ state'[q] = state[q] /\ call'[q] = call[q]

LEMMA EmptyFacts ==
  /\ EmptyState \in States
  /\ EmptyTables \in Tables
  /\ NoCall \in Calls
  /\ StateOf(EmptyTables) = EmptyState
BY NoChainFacts, BatchAssumption
   DEF EmptyState, EmptyTables, NoCall, States, Tables, Calls, Balances, StateOf, AppliedIds

LEMMA ExtendsReflexive ==
  ASSUME NEW t \in Tables
  PROVE  Extends(t, t)
BY DEF Extends, HeaderPrefix, Present

LEMMA InitIInv == Init => IInv
<1> SUFFICES ASSUME Init PROVE IInv
  OBVIOUS
<1>1. TypeOK
  BY NoChainFacts, EmptyFacts DEF Init, TypeOK, Locations
<1>2. TablesInv
  BY NoChainFacts, EmptyFacts, ExtendsReflexive DEF Init, TablesInv, EmptyTables
<1>3. ASSUME NEW p \in Process PROVE ProcessInv(p)
  <2>1. /\ pc[p] = "down" /\ chain[p] = NoChain /\ state[p] = EmptyState
        /\ db = EmptyTables /\ writer = None /\ p # None
    BY NobodyAssumption DEF Init
  <2>2. MemoryInv(p)
    BY <2>1, NoChainFacts DEF MemoryInv, HeaderPrefix
  <2>3. SyncInv(p)
    BY <2>1, EmptyFacts DEF SyncInv, StateOf, EmptyState, EmptyTables
  <2>4. StagedInv(p) /\ BlockInv(p) /\ AddInv(p) /\ PruneInv(p)
    BY <2>1 DEF StagedInv, BlockInv, AddInv, PruneInv, Staging
  <2>5. QED
    BY <2>2, <2>3, <2>4 DEF ProcessInv
<1>4. QED
  BY <1>1, <1>2, <1>3 DEF IInv

-----------------------------------------------------------------------------
(* What a step of another process does to ProcessInv(q).                     *)

\* A step that commits nothing and leaves q's transaction alone.
LEMMA FrameUncommitted ==
  ASSUME NEW q \in Process, ProcessInv(q), db' = db,
         pc'[q] = pc[q], chain'[q] = chain[q], state'[q] = state[q], call'[q] = call[q],
         writer = q => writer' = q /\ wdb' = wdb,
         writer' = q => writer = q
  PROVE  ProcessInv(q)'
<1>1. MemoryInv(q)'
  BY DEF ProcessInv, MemoryInv
<1>2. SyncInv(q)'
  BY DEF ProcessInv, SyncInv
<1>3. StagedInv(q)'
  BY DEF ProcessInv, StagedInv, StagedTxs
<1>4. BlockInv(q)'
  BY DEF ProcessInv, BlockInv
<1>5. AddInv(q)'
  BY DEF ProcessInv, AddInv
<1>6. PruneInv(q)'
  BY DEF ProcessInv, PruneInv
<1>7. QED
  BY <1>1, <1>2, <1>3, <1>4, <1>5, <1>6 DEF ProcessInv

\* A commit changes the headers by adding rows, row 1 among the new tables'
\* rows, or changes neither headers nor state.
CommitChange ==
    \/ Headers(wdb.rows) = Headers(db.rows) /\ StateOf(wdb) = StateOf(db)
    \/ 1 \in Present(wdb.rows) /\ \E i \in Index : db.rows[i] = None /\ wdb.rows[i] # None

\* A chain that is a prefix of the file, or fresh, has other headers than a
\* file that has just grown.
LEMMA GrownFileDiffers ==
  ASSUME NEW c \in Chains, NEW old \in Chains, NEW new \in Chains,
         HeaderPrefix(c, old) \/ Present(c) = {0},
         1 \in Present(new), \E i \in Index : old[i] = None /\ new[i] # None
  PROVE  Headers(c) # Headers(new)
<1>1. SUFFICES ASSUME Present(c) = Present(new) PROVE FALSE
  BY HeadersEqual
<1>2. CASE HeaderPrefix(c, old)
  BY <1>1, <1>2 DEF HeaderPrefix, Present
<1>3. CASE Present(c) = {0}
  BY <1>1, <1>3
<1>4. QED
  BY <1>2, <1>3

LEMMA FrameCommit ==
  ASSUME TypeOK, TablesInv, NEW q \in Process, ProcessInv(q),
         db' = wdb, writer \in Process, writer # q, writer' = None, CommitChange,
         pc'[q] = pc[q], chain'[q] = chain[q], state'[q] = state[q], call'[q] = call[q]
  PROVE  ProcessInv(q)'
<1> USE DEF ProcessInv
<1>1. /\ chain[q] \in Chains /\ db.rows \in Chains /\ wdb.rows \in Chains
      /\ db \in Tables /\ wdb \in Tables /\ call[q] \in Calls /\ q # None
  BY NobodyAssumption DEF TypeOK, Tables
<1>2. /\ HeaderPrefix(db.rows, wdb.rows)
      /\ \A i \in Present(db.rows) : db.rows[i].is_pruned => wdb.rows[i].is_pruned
  BY DEF TablesInv, Extends
<1>3. \A i \in Index : db.rows[i] # None => wdb.rows[i] # None
  BY <1>2 DEF HeaderPrefix, Present
<1>4. MemoryInv(q)'
  <2>1. HeaderPrefix(chain[q], db.rows) => HeaderPrefix(chain[q], wdb.rows)
    BY <1>1, <1>2, PrefixTransitive
  <2>2. \A i \in Present(chain[q]) :
           chain[q][i].is_pruned => wdb.rows[i] # None /\ wdb.rows[i].is_pruned
    BY <1>1, <1>2, <1>3 DEF MemoryInv, Present
  <2>3. QED
    BY <2>1, <2>2 DEF MemoryInv
<1>5. SyncInv(q)'
  <2>1. CASE Headers(wdb.rows) = Headers(db.rows) /\ StateOf(wdb) = StateOf(db)
    <3>1. wdb.balances = db.balances /\ AppliedIds(wdb) = AppliedIds(db)
      BY <2>1 DEF StateOf
    <3>2. QED
      BY <2>1, <3>1 DEF SyncInv
  <2>2. CASE 1 \in Present(wdb.rows) /\ \E i \in Index : db.rows[i] = None /\ wdb.rows[i] # None
    <3>1. Headers(chain[q]) # Headers(wdb.rows)
      BY <1>1, <2>2, GrownFileDiffers DEF MemoryInv
    <3>2. QED
      BY <3>1 DEF SyncInv
  <2>3. QED
    BY <2>1, <2>2 DEF CommitChange
<1>6. StagedInv(q)' /\ BlockInv(q)'
  BY DEF StagedInv, StagedTxs, BlockInv
<1>7. AddInv(q)'
  <2> DEFINE added == AppendBlock(chain[q], call[q].block)
  <2>1. pc[q] \notin {"upsert", "insert_ids", "commit_add"}
    BY DEF AddInv
  <2>2. pc[q] = "insert_block" => Present(wdb.rows) # {}
    BY <1>1, <1>3 DEF AddInv, Present
  <2>3. ASSUME pc[q] = "apply"
        PROVE  /\ HeaderPrefix(added, wdb.rows)
               /\ Headers(added) = Headers(wdb.rows) => call[q].staged = StateOf(wdb)
    <3>1. /\ HeaderPrefix(added, db.rows)
          /\ Headers(added) = Headers(db.rows) => call[q].staged = StateOf(db)
      BY <2>3 DEF AddInv
    <3>2. added \in Chains
      <4>1. /\ call[q].block \in Blocks /\ call[q].block.index # 0
            /\ Present(chain[q]) = 0 .. call[q].block.index - 1
            /\ ValidBlock(added, call[q].block.index)
            /\ WellFormed(chain[q])
        BY <2>3 DEF BlockInv, Staging, MemoryInv
      <4>2. QED
        BY <1>1, <4>1, AppendFacts
    <3> HIDE DEF added
    <3>3. HeaderPrefix(added, wdb.rows)
      BY <1>1, <1>2, <3>1, <3>2, PrefixTransitive
    <3>4. CASE Headers(wdb.rows) = Headers(db.rows) /\ StateOf(wdb) = StateOf(db)
      BY <3>1, <3>3, <3>4
    <3>5. CASE 1 \in Present(wdb.rows) /\ \E i \in Index : db.rows[i] = None /\ wdb.rows[i] # None
      <4>1. Headers(added) # Headers(wdb.rows)
        BY <1>1, <3>1, <3>2, <3>5, GrownFileDiffers
      <4>2. QED
        BY <3>3, <4>1
    <3>6. QED
      BY <3>4, <3>5 DEF CommitChange
  <2>4. QED
    BY <1>1, <2>1, <2>2, <2>3 DEF AddInv
<1>8. PruneInv(q)'
  <2>1. Eligible(chain[q]) \subseteq Index
    BY DEF Eligible, Present
  <2>2. pc[q] = "prune_chain" =>
           \A i \in Eligible(chain[q]) : wdb.rows[i] # None /\ wdb.rows[i].is_pruned
    BY <1>2, <1>3, <2>1 DEF PruneInv, Present
  <2>3. QED
    BY <1>1, <2>2 DEF PruneInv
<1>9. QED
  BY <1>4, <1>5, <1>6, <1>7, <1>8

-----------------------------------------------------------------------------
(* The three kinds of step, by what they do to the tables.                   *)

LEMMA LocalStep ==
  ASSUME IInv, NEW p \in Process, UNCHANGED dbVars, OthersSame(p),
         TypeOK', ProcessInv(p)'
  PROVE  IInv'
<1>1. db' = db /\ wdb' = wdb /\ writer' = writer
  BY DEF dbVars
<1>2. TablesInv'
  BY <1>1 DEF IInv, TablesInv
<1>3. ASSUME NEW q \in Process \ {p} PROVE ProcessInv(q)'
  BY <1>1, FrameUncommitted DEF IInv, OthersSame
<1>4. QED
  BY <1>2, <1>3 DEF IInv

LEMMA WriteStep ==
  ASSUME IInv, NEW p \in Process, NEW tables, Write(p, tables), OthersSame(p),
         TypeOK', TablesInv', ProcessInv(p)'
  PROVE  IInv'
<1>1. /\ writer \in {None, p} /\ writer' = p /\ db' = db
      /\ \A q \in Process : q # None
  BY NobodyAssumption DEF Write, MayWrite
<1>2. ASSUME NEW q \in Process \ {p} PROVE ProcessInv(q)'
  BY <1>1, FrameUncommitted DEF IInv, OthersSame
<1>3. QED
  BY <1>2 DEF IInv

LEMMA CommitStep ==
  ASSUME IInv, NEW p \in Process, Commit(p), OthersSame(p), CommitChange,
         1 \in Present(wdb.rows), TypeOK', ProcessInv(p)'
  PROVE  IInv'
<1>1. writer = p /\ db' = wdb /\ wdb' = wdb /\ writer' = None /\ p # None
  BY NobodyAssumption DEF Commit
<1>2. TablesInv'
  BY <1>1, ExtendsReflexive DEF IInv, TypeOK, TablesInv
<1>3. ASSUME NEW q \in Process \ {p} PROVE ProcessInv(q)'
  BY <1>1, FrameCommit DEF IInv, OthersSame
<1>4. QED
  BY <1>2, <1>3 DEF IInv

\* Leaving a transaction without committing it.
LEMMA RollbackFacts ==
  ASSUME IInv, NEW p \in Process, Rollback(p)
  PROVE  /\ db' = db /\ wdb' \in Tables /\ writer' \in Process \cup {None} /\ writer' # p
         /\ TablesInv'
         /\ \A q \in Process \ {p} :
               (writer = q => writer' = q /\ wdb' = wdb) /\ (writer' = q => writer = q)
<1>1. CASE writer = p
  <2>1. db' = db /\ wdb' = db /\ writer' = None /\ p # None
        /\ \A q \in Process : q # None
    BY <1>1, NobodyAssumption DEF Rollback
  <2>2. TablesInv'
    BY <2>1, ExtendsReflexive DEF IInv, TypeOK, TablesInv
  <2>3. QED
    BY <1>1, <2>1, <2>2 DEF IInv, TypeOK
<1>2. CASE writer # p
  <2>1. db' = db /\ wdb' = wdb /\ writer' = writer
    BY <1>2 DEF Rollback
  <2>2. TablesInv'
    BY <2>1 DEF IInv, TablesInv
  <2>3. QED
    BY <1>2, <2>1, <2>2 DEF IInv, TypeOK
<1>3. QED
  BY <1>1, <1>2

LEMMA RaiseStep ==
  ASSUME IInv, NEW p \in Process, Raise(p),
         pc[p] \notin {"down", "load_state", "load_ids"}
  PROVE  IInv'
<1>1. /\ pc' = [pc EXCEPT ![p] = "idle"] /\ call' = [call EXCEPT ![p] = NoCall]
      /\ chain' = chain /\ state' = state /\ Rollback(p)
  BY DEF Raise, Return, Goto, memVars
<1>2. OthersSame(p)
  BY <1>1 DEF OthersSame, IInv, TypeOK
<1>3. /\ db' = db /\ wdb' \in Tables /\ writer' \in Process \cup {None} /\ writer' # p
      /\ TablesInv'
  BY <1>1, RollbackFacts
<1>4. TypeOK'
  BY <1>1, <1>3, EmptyFacts DEF IInv, TypeOK, Locations
<1>5. pc'[p] = "idle"
  BY <1>1 DEF IInv, TypeOK
<1>6. MemoryInv(p)' /\ SyncInv(p)'
  BY <1>1, <1>3, <1>5 DEF IInv, ProcessInv, MemoryInv, SyncInv
<1>7. StagedInv(p)' /\ BlockInv(p)' /\ AddInv(p)' /\ PruneInv(p)'
  BY <1>3, <1>5 DEF StagedInv, BlockInv, AddInv, PruneInv, Staging
<1>8. ASSUME NEW q \in Process \ {p} PROVE ProcessInv(q)'
  BY <1>1, <1>2, RollbackFacts, FrameUncommitted DEF IInv, OthersSame
<1>9. QED
  BY <1>3, <1>4, <1>6, <1>7, <1>8 DEF IInv, ProcessInv

LEMMA StopStep ==
  ASSUME IInv, NEW p \in Process, Stop(p)
  PROVE  IInv'
<1>1. /\ pc' = [pc EXCEPT ![p] = "down"] /\ call' = [call EXCEPT ![p] = NoCall]
      /\ chain' = [chain EXCEPT ![p] = NoChain]
      /\ state' = [state EXCEPT ![p] = EmptyState] /\ Rollback(p)
  BY DEF Stop, Goto
<1>2. OthersSame(p)
  BY <1>1 DEF OthersSame, IInv, TypeOK
<1>3. /\ db' = db /\ wdb' \in Tables /\ writer' \in Process \cup {None} /\ writer' # p
      /\ TablesInv'
  BY <1>1, RollbackFacts
<1>4. TypeOK'
  BY <1>1, <1>3, EmptyFacts, NoChainFacts DEF IInv, TypeOK, Locations
<1>5. pc'[p] = "down" /\ chain'[p] = NoChain /\ state'[p] = EmptyState
  BY <1>1 DEF IInv, TypeOK
<1>6. MemoryInv(p)'
  BY <1>5, NoChainFacts DEF MemoryInv, HeaderPrefix
<1>7. SyncInv(p)'
  <2>1. SUFFICES ASSUME Headers(NoChain) = Headers(db.rows)
                 PROVE  EmptyState.current_state = db.balances
                        /\ EmptyState.applied_tx_ids = AppliedIds(db)
    BY <1>3, <1>5 DEF SyncInv
  <2>2. Present(db.rows) = {}
    BY <2>1, NoChainFacts, HeadersEqual DEF IInv, TypeOK, Tables
  <2>3. db = EmptyTables
    BY <2>2 DEF IInv, TablesInv
  <2>4. QED
    BY <2>3, EmptyFacts DEF StateOf
<1>8. StagedInv(p)' /\ BlockInv(p)' /\ AddInv(p)' /\ PruneInv(p)'
  BY <1>3, <1>5 DEF StagedInv, BlockInv, AddInv, PruneInv, Staging
<1>9. ASSUME NEW q \in Process \ {p} PROVE ProcessInv(q)'
  BY <1>1, <1>2, RollbackFacts, FrameUncommitted DEF IInv, OthersSame
<1>10. QED
  BY <1>3, <1>4, <1>6, <1>7, <1>8, <1>9 DEF IInv, ProcessInv

-----------------------------------------------------------------------------
(* Loading.                                                                  *)

LEMMA StartEmptyStep ==
  ASSUME IInv, NEW p \in Process, StartEmpty(p)
  PROVE  IInv'
<1>1. PICK ts \in Timestamp : chain' = [chain EXCEPT ![p] = NewChain(ts)]
  BY DEF StartEmpty
<1>2. /\ pc' = [pc EXCEPT ![p] = "idle"] /\ call' = call
      /\ state' = [state EXCEPT ![p] = EmptyState]
      /\ db' = db /\ wdb' = wdb /\ writer' = writer /\ pc[p] \in {"down", "idle"}
  BY DEF StartEmpty, Goto
<1>3. OthersSame(p) /\ UNCHANGED dbVars
  BY <1>1, <1>2 DEF OthersSame, dbVars, IInv, TypeOK
<1>4. TypeOK'
  BY <1>1, <1>2, EmptyFacts, NewChainFacts DEF IInv, TypeOK, Locations
<1>5. pc'[p] = "idle" /\ chain'[p] = NewChain(ts) /\ state'[p] = EmptyState
  BY <1>1, <1>2 DEF IInv, TypeOK
<1>6. MemoryInv(p)'
  BY <1>5, NewChainFacts DEF MemoryInv
<1>7. SyncInv(p)'
  <2>1. SUFFICES ASSUME Headers(NewChain(ts)) = Headers(db.rows) PROVE FALSE
    BY <1>2, <1>5 DEF SyncInv
  <2>2. Present(db.rows) = {0}
    BY <2>1, NewChainFacts, HeadersEqual DEF IInv, TypeOK, Tables
  <2>3. QED
    BY <2>2 DEF IInv, TablesInv
<1>8. writer # p
  BY <1>2 DEF IInv, ProcessInv, AddInv
<1>9. StagedInv(p)' /\ BlockInv(p)' /\ AddInv(p)' /\ PruneInv(p)'
  BY <1>2, <1>5, <1>8 DEF StagedInv, BlockInv, AddInv, PruneInv, Staging
<1>10. QED
  BY <1>3, <1>4, <1>6, <1>7, <1>9, LocalStep DEF ProcessInv

\* The chain load_chain builds from the rows.
LEMMA LoadedFacts ==
  ASSUME NEW c \in Chains, WellFormed(c), NEW d,
         d = [i \in Index |-> IF c[i] = None THEN None ELSE FromPersisted(c[i])]
  PROVE  /\ d \in Chains /\ WellFormed(d) /\ Headers(d) = Headers(c)
         /\ Present(d) = Present(c)
         /\ \A i \in Present(c) : d[i].hash = c[i].hash /\ d[i].is_pruned = c[i].is_pruned
<1>1. ASSUME NEW i \in Present(c)
      PROVE  /\ d[i] \in Blocks /\ d[i] # None /\ SameHeaderFields(c[i], d[i])
             /\ VerifyBody(d[i]) /\ d[i].is_pruned = c[i].is_pruned
  <2>1. c[i] \in Blocks /\ c[i] # None /\ VerifyBody(c[i]) /\ i \in Index
    BY PresentFacts DEF WellFormed, ValidateChain, ValidBlock
  <2>2. d[i] = FromPersisted(c[i])
    BY <2>1
  <2>3. QED
    BY <2>1, <2>2, FromPersistedFacts DEF SameHeaderFields
<1>2. \A i \in Index : i \notin Present(c) => d[i] = None
  BY PresentFacts
<1>3. d \in Chains
  <2>1. \A i \in Index : d[i] \in Blocks \cup {None}
    BY <1>1, <1>2
  <2>2. QED
    BY <2>1 DEF Chains
<1>4. Present(d) = Present(c)
  BY <1>1, <1>2 DEF Present
<1>5. WellFormed(d) /\ Headers(d) = Headers(c)
  BY <1>1, <1>3, <1>4, SameHeadersFacts
<1>6. QED
  BY <1>1, <1>3, <1>4, <1>5 DEF SameHeaderFields

LEMMA LoadBlocksStep ==
  ASSUME IInv, NEW p \in Process, LoadBlocks(p)
  PROVE  IInv'
<1> DEFINE d == [i \in Index |->
                    IF db.rows[i] = None THEN None ELSE FromPersisted(db.rows[i])]
<1>1. /\ chain' = [chain EXCEPT ![p] = d]
      /\ pc' = [pc EXCEPT ![p] = "load_state"] /\ call' = call
      /\ state' = [state EXCEPT ![p] = EmptyState]
      /\ db' = db /\ wdb' = wdb /\ writer' = writer /\ pc[p] \in {"down", "idle"}
      /\ Present(db.rows) # {}
  BY DEF LoadBlocks, Goto
<1>2. db.rows \in Chains /\ WellFormed(db.rows)
  BY DEF IInv, TypeOK, Tables, TablesInv
<1>3. /\ d \in Chains /\ WellFormed(d) /\ Headers(d) = Headers(db.rows)
      /\ Present(d) = Present(db.rows)
      /\ \A i \in Present(db.rows) :
            d[i].hash = db.rows[i].hash /\ d[i].is_pruned = db.rows[i].is_pruned
  BY <1>2, LoadedFacts
<1> HIDE DEF d
<1>4. OthersSame(p) /\ UNCHANGED dbVars
  BY <1>1 DEF OthersSame, dbVars, IInv, TypeOK
<1>5. TypeOK'
  BY <1>1, <1>3, EmptyFacts DEF IInv, TypeOK, Locations
<1>6. pc'[p] = "load_state" /\ chain'[p] = d /\ state'[p] = EmptyState
  BY <1>1 DEF IInv, TypeOK
<1>7. 0 \in Present(d)
  BY <1>1, <1>2, <1>3, MaxBlocksAssumption DEF WellFormed, Contiguous, Index
<1>8. HeaderPrefix(d, db.rows)
  BY <1>2, <1>3, PresentFacts DEF HeaderPrefix
<1>9. \A i \in Present(d) : d[i].is_pruned => db.rows[i] # None /\ db.rows[i].is_pruned
  BY <1>2, <1>3, PresentFacts
<1>10. MemoryInv(p)'
  BY <1>1, <1>3, <1>6, <1>7, <1>8, <1>9 DEF MemoryInv
<1>11. writer # p
  BY <1>1 DEF IInv, ProcessInv, AddInv
<1>12. SyncInv(p)' /\ StagedInv(p)' /\ BlockInv(p)' /\ AddInv(p)' /\ PruneInv(p)'
  BY <1>1, <1>6, <1>11 DEF SyncInv, StagedInv, BlockInv, AddInv, PruneInv, Staging
<1>13. QED
  BY <1>4, <1>5, <1>10, <1>12, LocalStep DEF ProcessInv

LEMMA LoadStateStep ==
  ASSUME IInv, NEW p \in Process, LoadState(p)
  PROVE  IInv'
<1>1. /\ state' = [state EXCEPT ![p].current_state = db.balances]
      /\ pc' = [pc EXCEPT ![p] = "load_ids"] /\ call' = call /\ chain' = chain
      /\ db' = db /\ wdb' = wdb /\ writer' = writer /\ pc[p] = "load_state"
  BY DEF LoadState, Goto
<1>2. OthersSame(p) /\ UNCHANGED dbVars
  BY <1>1 DEF OthersSame, dbVars, IInv, TypeOK
<1>3. state[p] \in States /\ db.balances \in Balances
  BY DEF IInv, TypeOK, Tables
<1>4. TypeOK'
  BY <1>1, <1>3 DEF IInv, TypeOK, Locations, States
<1>5. /\ pc'[p] = "load_ids" /\ state'[p] = [state[p] EXCEPT !.current_state = db.balances]
      /\ state'[p].current_state = db.balances
  BY <1>1, <1>3 DEF IInv, TypeOK, States
<1>6. MemoryInv(p)'
  BY <1>1, <1>5 DEF IInv, ProcessInv, MemoryInv
<1>7. SyncInv(p)'
  BY <1>1, <1>5 DEF SyncInv
<1>8. writer # p
  BY <1>1 DEF IInv, ProcessInv, AddInv
<1>9. StagedInv(p)' /\ BlockInv(p)' /\ AddInv(p)' /\ PruneInv(p)'
  BY <1>1, <1>5, <1>8 DEF StagedInv, BlockInv, AddInv, PruneInv, Staging
<1>10. QED
  BY <1>2, <1>4, <1>6, <1>7, <1>9, LocalStep DEF ProcessInv

LEMMA LoadIdsStep ==
  ASSUME IInv, NEW p \in Process, LoadIds(p)
  PROVE  IInv'
<1>1. /\ state' = [state EXCEPT ![p].applied_tx_ids = AppliedIds(db)]
      /\ pc' = [pc EXCEPT ![p] = "idle"] /\ call' = call /\ chain' = chain
      /\ db' = db /\ wdb' = wdb /\ writer' = writer /\ pc[p] = "load_ids"
  BY DEF LoadIds, Goto
<1>2. OthersSame(p) /\ UNCHANGED dbVars
  BY <1>1 DEF OthersSame, dbVars, IInv, TypeOK
<1>3. state[p] \in States /\ AppliedIds(db) \subseteq TxId
  BY DEF IInv, TypeOK, AppliedIds
<1>4. TypeOK'
  BY <1>1, <1>3 DEF IInv, TypeOK, Locations, States
<1>5. /\ pc'[p] = "idle" /\ state'[p].applied_tx_ids = AppliedIds(db)
      /\ state'[p].current_state = state[p].current_state
  BY <1>1, <1>3 DEF IInv, TypeOK, States
<1>6. MemoryInv(p)'
  BY <1>1, <1>5 DEF IInv, ProcessInv, MemoryInv
<1>7. SyncInv(p)'
  BY <1>1, <1>5 DEF IInv, ProcessInv, SyncInv
<1>8. writer # p
  BY <1>1 DEF IInv, ProcessInv, AddInv
<1>9. StagedInv(p)' /\ BlockInv(p)' /\ AddInv(p)' /\ PruneInv(p)'
  BY <1>1, <1>5, <1>8 DEF StagedInv, BlockInv, AddInv, PruneInv, Staging
<1>10. QED
  BY <1>2, <1>4, <1>6, <1>7, <1>9, LocalStep DEF ProcessInv

-----------------------------------------------------------------------------
(* Preparing a block.                                                        *)

LEMMA BeginAddStep ==
  ASSUME IInv, NEW p \in Process, NEW batch \in Batch, BeginAdd(p, batch)
  PROVE  IInv'
<1> DEFINE c == [NoCall EXCEPT !.batch = batch, !.staged = state[p]]
<1>1. /\ call' = [call EXCEPT ![p] = c]
      /\ pc' = [pc EXCEPT ![p] = "stage"] /\ chain' = chain /\ state' = state
      /\ db' = db /\ wdb' = wdb /\ writer' = writer /\ pc[p] = "idle"
  BY DEF BeginAdd, Goto
<1>2. OthersSame(p) /\ UNCHANGED dbVars
  BY <1>1 DEF OthersSame, dbVars, IInv, TypeOK
<1>3. /\ c \in Calls /\ c.batch = batch /\ c.next = 1 /\ c.staged = state[p]
  BY EmptyFacts DEF IInv, TypeOK, Calls, NoCall
<1> HIDE DEF c
<1>4. TypeOK'
  BY <1>1, <1>3 DEF IInv, TypeOK, Locations
<1>5. pc'[p] = "stage" /\ call'[p] = c
  BY <1>1 DEF IInv, TypeOK
<1>6. MemoryInv(p)' /\ SyncInv(p)'
  BY <1>1, <1>5 DEF IInv, ProcessInv, MemoryInv, SyncInv
<1>7. StagedInv(p)'
  <2>1. Len(batch) \in Nat /\ 1 .. c.next - 1 = {}
    BY <1>3, BatchAssumption
  <2>2. StagedTxs(p)' = {}
    BY <1>5, <2>1 DEF StagedTxs
  <2>3. \A i \in DOMAIN batch : ValidTransaction(batch[i])
    BY DEF BeginAdd
  <2>4. c.next \in 1 .. Len(batch) + 1
    BY <1>3, <2>1
  <2>5. QED
    BY <1>1, <1>3, <1>5, <2>2, <2>3, <2>4 DEF StagedInv
<1>8. writer # p
  BY <1>1 DEF IInv, ProcessInv, AddInv
<1>9. BlockInv(p)' /\ AddInv(p)' /\ PruneInv(p)'
  BY <1>1, <1>5, <1>8 DEF BeginAdd, BlockInv, AddInv, PruneInv, Staging
<1>10. QED
  BY <1>2, <1>4, <1>6, <1>7, <1>9, LocalStep DEF ProcessInv

LEMMA StageTransactionStep ==
  ASSUME IInv, NEW p \in Process, StageTransaction(p)
  PROVE  IInv'
<1> DEFINE c  == call[p]
           tx == c.batch[c.next]
           d  == [batch |-> c.batch, next |-> c.next + 1, block |-> c.block,
                  todo |-> c.todo, staged |-> ApplyTransaction(c.staged, tx)]
<1>1. /\ pc[p] = "stage" /\ c.next <= Len(c.batch)
      /\ pc' = pc /\ chain' = chain /\ state' = state
      /\ db' = db /\ wdb' = wdb /\ writer' = writer
  BY DEF StageTransaction
<1>2. call' = [call EXCEPT ![p] = d]
  BY DEF StageTransaction, IInv, TypeOK, Calls
<1>3. /\ c \in Calls /\ c.batch \in Seq(Tx) /\ c.next \in 1 .. Len(c.batch) + 1
      /\ \A i \in DOMAIN c.batch : ValidTransaction(c.batch[i])
      /\ c.staged \in States
  BY <1>1, BatchAssumption DEF IInv, TypeOK, Calls, ProcessInv, StagedInv, Staging
<1>4. c.next \in DOMAIN c.batch /\ c.next \in Nat /\ 1 <= c.next /\ tx \in Tx /\ ValidTransaction(tx)
  BY <1>1, <1>3
<1>5. /\ ApplyTransaction(c.staged, tx) \in States
      /\ \A a \in Account : a # tx.account =>
            ApplyTransaction(c.staged, tx).current_state[a] = c.staged.current_state[a]
      /\ ApplyTransaction(c.staged, tx).applied_tx_ids
            = c.staged.applied_tx_ids \cup {tx.tx_id}
  BY <1>3, <1>4, ApplyTransactionFacts
<1>6. /\ d \in Calls /\ d.batch = c.batch /\ d.next = c.next + 1
      /\ d.staged = ApplyTransaction(c.staged, tx)
  BY <1>3, <1>4, <1>5 DEF Calls
<1> HIDE DEF d
<1>7. OthersSame(p) /\ UNCHANGED dbVars
  BY <1>1, <1>2 DEF OthersSame, dbVars, IInv, TypeOK
<1>8. TypeOK'
  BY <1>1, <1>2, <1>6 DEF IInv, TypeOK
<1>9. pc'[p] = "stage" /\ call'[p] = d
  BY <1>1, <1>2 DEF IInv, TypeOK
<1>10. MemoryInv(p)' /\ SyncInv(p)'
  BY <1>1, <1>9 DEF IInv, ProcessInv, MemoryInv, SyncInv
<1>11. StagedInv(p)'
  <2>1. StagedTxs(p)' = StagedTxs(p) \cup {tx}
    <3>1. 1 .. d.next - 1 = (1 .. c.next - 1) \cup {c.next}
      BY <1>4, <1>6
    <3>2. QED
      BY <3>1, <1>6, <1>9 DEF StagedTxs
  <2>2. /\ \A a \in Account :
              (\A x \in StagedTxs(p) : x.account # a)
                  => c.staged.current_state[a] = state[p].current_state[a]
        /\ c.staged.applied_tx_ids
              = state[p].applied_tx_ids \cup {x.tx_id : x \in StagedTxs(p)}
    BY <1>1 DEF IInv, ProcessInv, StagedInv, Staging
  <2>3. \A a \in Account :
           (\A x \in StagedTxs(p)' : x.account # a)
               => d.staged.current_state[a] = state[p].current_state[a]
    BY <1>5, <1>6, <2>1, <2>2
  <2>4. d.staged.applied_tx_ids
           = state[p].applied_tx_ids \cup {x.tx_id : x \in StagedTxs(p)'}
    BY <1>5, <1>6, <2>1, <2>2
  <2>5. d.next \in 1 .. Len(d.batch) + 1
    BY <1>1, <1>3, <1>4, <1>6
  <2>6. QED
    BY <1>1, <1>3, <1>6, <1>9, <2>3, <2>4, <2>5 DEF StagedInv
<1>12. writer # p /\ LastIndex(chain[p]) + 1 \in Index
  BY <1>1 DEF IInv, ProcessInv, AddInv, BlockInv
<1>13. BlockInv(p)' /\ AddInv(p)' /\ PruneInv(p)'
  BY <1>1, <1>9, <1>12 DEF BlockInv, AddInv, PruneInv, Staging
<1>14. QED
  BY <1>7, <1>8, <1>10, <1>11, <1>13, LocalStep DEF ProcessInv

LEMMA CreateBlockStep ==
  ASSUME IInv, NEW p \in Process, CreateBlock(p)
  PROVE  IInv'
<1>1. PICK ts \in Timestamp :
         call' = [call EXCEPT ![p].block = NextBlock(chain[p], call[p].batch, ts)]
  BY DEF CreateBlock
<1> DEFINE b == NextBlock(chain[p], call[p].batch, ts)
           d == [call[p] EXCEPT !.block = b]
<1>2. /\ pc[p] = "stage" /\ call[p].next > Len(call[p].batch)
      /\ pc' = [pc EXCEPT ![p] = "ensure"] /\ chain' = chain /\ state' = state
      /\ db' = db /\ wdb' = wdb /\ writer' = writer
  BY DEF CreateBlock, Staged, Goto
<1>3. /\ call[p] \in Calls /\ call[p].batch \in Batch
      /\ chain[p] \in Chains /\ WellFormed(chain[p]) /\ 0 \in Present(chain[p])
  BY <1>2 DEF IInv, TypeOK, Calls, ProcessInv, MemoryInv
<1>4. LastIndex(chain[p]) + 1 \in Index
  BY <1>2 DEF IInv, ProcessInv, BlockInv
<1>5. /\ b \in Blocks /\ ~b.is_pruned /\ b.index # 0
      /\ Present(chain[p]) = 0 .. b.index - 1
      /\ ValidBlock(AppendBlock(chain[p], b), b.index)
  BY <1>3, <1>4, NextBlockFacts
<1> HIDE DEF b
<1>6. /\ d \in Calls /\ d.batch = call[p].batch /\ d.next = call[p].next
      /\ d.staged = call[p].staged /\ d.block = b
  BY <1>3, <1>5 DEF Calls
<1>7. call' = [call EXCEPT ![p] = d]
  BY <1>1 DEF b
<1> HIDE DEF d
<1>8. OthersSame(p) /\ UNCHANGED dbVars
  BY <1>2, <1>7 DEF OthersSame, dbVars, IInv, TypeOK
<1>9. TypeOK'
  BY <1>2, <1>6, <1>7 DEF IInv, TypeOK, Locations
<1>10. pc'[p] = "ensure" /\ call'[p] = d
  BY <1>2, <1>7 DEF IInv, TypeOK
<1>11. MemoryInv(p)' /\ SyncInv(p)'
  BY <1>2, <1>10 DEF IInv, ProcessInv, MemoryInv, SyncInv
<1>12. StagedInv(p)'
  <2>1. StagedInv(p)
    BY DEF IInv, ProcessInv
  <2>2. call[p].next = Len(call[p].batch) + 1
    <3>1. call[p].next \in 1 .. Len(call[p].batch) + 1
      BY <1>2, <2>1 DEF StagedInv, Staging
    <3>2. Len(call[p].batch) \in Nat
      BY <1>3, BatchAssumption
    <3>3. QED
      BY <1>2, <3>1, <3>2
  <2>3. StagedTxs(p)' = StagedTxs(p)
    BY <1>6, <1>10 DEF StagedTxs
  <2>4. QED
    BY <1>2, <1>6, <1>10, <2>1, <2>2, <2>3 DEF StagedInv, Staging
<1>13. BlockInv(p)'
  BY <1>2, <1>5, <1>6, <1>10 DEF BlockInv
<1>14. writer # p
  BY <1>2 DEF IInv, ProcessInv, AddInv
<1>15. AddInv(p)' /\ PruneInv(p)'
  BY <1>2, <1>10, <1>14 DEF AddInv, PruneInv
<1>16. QED
  BY <1>8, <1>9, <1>11, <1>12, <1>13, <1>15, LocalStep DEF ProcessInv

-----------------------------------------------------------------------------
(* Writing a block.                                                          *)

LEMMA EnsureStep ==
  ASSUME IInv, NEW p \in Process, EnsureEmpty(p) \/ EnsureMatch(p)
  PROVE  IInv'
<1>1. /\ pc[p] = "ensure" /\ call' = call /\ chain' = chain /\ state' = state
      /\ db' = db /\ wdb' = wdb /\ writer' = writer
  BY DEF EnsureEmpty, EnsureMatch
<1>2. \/ pc' = [pc EXCEPT ![p] = "insert_genesis"]
      \/ pc' = [pc EXCEPT ![p] = "insert_block"] /\ Present(db.rows) # {}
  BY DEF EnsureEmpty, EnsureMatch, Goto
<1>3. /\ pc'[p] \in {"insert_genesis", "insert_block"}
      /\ pc'[p] = "insert_block" => Present(db.rows) # {}
  BY <1>2 DEF IInv, TypeOK
<1>4. OthersSame(p) /\ UNCHANGED dbVars
  BY <1>1, <1>2 DEF OthersSame, dbVars, IInv, TypeOK
<1>5. TypeOK'
  BY <1>1, <1>2 DEF IInv, TypeOK, Locations
<1>6. MemoryInv(p)' /\ SyncInv(p)'
  BY <1>1, <1>3 DEF IInv, ProcessInv, MemoryInv, SyncInv
<1>7. StagedInv(p)' /\ BlockInv(p)'
  <2>1. StagedInv(p) /\ BlockInv(p)
    BY DEF IInv, ProcessInv
  <2>2. QED
    BY <1>1, <1>3, <2>1 DEF StagedInv, StagedTxs, BlockInv, Staging
<1>8. writer # p
  BY <1>1 DEF IInv, ProcessInv, AddInv
<1>9. AddInv(p)' /\ PruneInv(p)'
  BY <1>1, <1>3, <1>8 DEF AddInv, PruneInv
<1>10. QED
  BY <1>4, <1>5, <1>6, <1>7, <1>9, LocalStep DEF ProcessInv

\* A statement of add_block moves p on and leaves what it prepared alone.
LEMMA AddKeepsMemory ==
  ASSUME IInv, NEW p \in Process, NEW location \in Staging \ {"stage"},
         pc[p] \in Staging \ {"stage"}, pc' = [pc EXCEPT ![p] = location],
         UNCHANGED <<chain, state, call>>
  PROVE  /\ OthersSame(p) /\ pc'[p] = location
         /\ pc' \in [Process -> Locations]
         /\ StagedInv(p)' /\ BlockInv(p)'
         /\ db' = db => MemoryInv(p)' /\ SyncInv(p)'
<1>1. OthersSame(p) /\ pc'[p] = location /\ pc' \in [Process -> Locations]
  BY DEF OthersSame, IInv, TypeOK, Locations, Staging
<1>2. MemoryInv(p) /\ SyncInv(p) /\ StagedInv(p) /\ BlockInv(p)
  BY DEF IInv, ProcessInv
<1>3. StagedInv(p)' /\ BlockInv(p)'
  BY <1>1, <1>2 DEF StagedInv, StagedTxs, BlockInv, Staging
<1>4. ASSUME db' = db PROVE MemoryInv(p)' /\ SyncInv(p)'
  BY <1>1, <1>2, <1>4 DEF MemoryInv, SyncInv, Staging
<1>5. QED
  BY <1>1, <1>3, <1>4

LEMMA InsertGenesisStep ==
  ASSUME IInv, NEW p \in Process, InsertGenesis(p)
  PROVE  IInv'
<1> DEFINE g == chain[p][0]
           t == InsertRow(wdb, g)
<1>1. /\ pc[p] = "insert_genesis" /\ ~Conflict(wdb, g) /\ Write(p, t)
      /\ pc' = [pc EXCEPT ![p] = "insert_block"] /\ UNCHANGED <<chain, state, call>>
  BY DEF InsertGenesis, Goto
<1>2. /\ TypeOK /\ TablesInv /\ MemoryInv(p) /\ AddInv(p)
  BY DEF IInv, ProcessInv
<1>3. writer = None /\ wdb = db /\ writer' = p /\ wdb' = t /\ db' = db
  BY <1>1, <1>2 DEF Write, MayWrite, AddInv, TablesInv
<1>4. chain[p] \in Chains /\ 0 \in Present(chain[p]) /\ WellFormed(chain[p])
  BY <1>1, <1>2 DEF TypeOK, MemoryInv
<1>5. g \in Blocks /\ g # None /\ ValidBlock(chain[p], 0) /\ g.index = 0 /\ 0 \in Index
  BY <1>4, PresentFacts DEF WellFormed, ValidateChain, ValidBlock
<1>6. db.rows[0] = None
  BY <1>1, <1>3, <1>5 DEF Conflict
<1>7. Present(db.rows) = {} /\ db = EmptyTables
  <2>1. 0 \notin Present(db.rows)
    BY <1>6 DEF Present
  <2>2. Present(db.rows) = {}
    BY <1>2, <2>1, MaxBlocksAssumption DEF TablesInv, WellFormed, Contiguous, Index
  <2>3. QED
    BY <1>2, <2>2 DEF TablesInv
<1>8. Present(chain[p]) = {0} /\ state[p] = EmptyState
  <2>1. ~HeaderPrefix(chain[p], db.rows)
    BY <1>4, <1>6 DEF HeaderPrefix
  <2>2. QED
    BY <1>2, <2>1 DEF MemoryInv
<1>9. /\ t = [rows |-> [NoChain EXCEPT ![0] = g], balances |-> EmptyTables.balances,
              tids |-> EmptyTables.tids]
      /\ t.rows = [NoChain EXCEPT ![0] = g]
      /\ t.balances = EmptyTables.balances /\ t.tids = EmptyTables.tids
  BY <1>3, <1>5, <1>7 DEF InsertRow, EmptyTables
<1> HIDE DEF t, g
<1>10. t.rows \in Chains /\ t.rows[0] = g /\ \A i \in Index \ {0} : t.rows[i] = None
  BY <1>5, <1>9 DEF NoChain, Chains
<1>11. t \in Tables
  BY <1>9, <1>10, EmptyFacts DEF Tables, EmptyTables
<1>12. Present(t.rows) = {0}
  BY <1>5, <1>10 DEF Present
<1>13. ValidBlock(t.rows, 0)
  BY <1>5, <1>10 DEF ValidBlock, g
<1>14. WellFormed(t.rows)
  <2>1. Present(t.rows) = 0 .. 0
    BY <1>12
  <2>2. QED
    BY <1>5, <1>12, <1>13, <2>1 DEF WellFormed, Contiguous, ValidateChain
<1>15. Headers(t.rows) = Headers(chain[p])
  BY <1>4, <1>8, <1>10, <1>12, HeadersEqual DEF g
<1>16. StateOf(t) = EmptyState
  BY <1>9, EmptyFacts DEF StateOf, AppliedIds
<1>17. Extends(db, t)
  BY <1>7 DEF Extends, HeaderPrefix, AppliedIds, EmptyTables
<1>18. TablesInv'
  BY <1>2, <1>3, <1>14, <1>17, NobodyAssumption DEF TablesInv
<1>19. /\ OthersSame(p) /\ pc'[p] = "insert_block" /\ pc' \in [Process -> Locations]
       /\ StagedInv(p)' /\ BlockInv(p)' /\ MemoryInv(p)' /\ SyncInv(p)'
  BY <1>1, <1>3, AddKeepsMemory DEF Staging
<1>20. TypeOK'
  BY <1>1, <1>2, <1>3, <1>11, <1>19 DEF TypeOK
<1>21. AddInv(p)' /\ PruneInv(p)'
  BY <1>1, <1>3, <1>7, <1>8, <1>15, <1>16, <1>19 DEF AddInv, PruneInv
<1>22. QED
  BY <1>1, <1>18, <1>19, <1>20, <1>21, WriteStep DEF ProcessInv

\* What the prepared block adds to the chain.
LEMMA AddedFacts ==
  ASSUME IInv, NEW p \in Process, pc[p] \in Staging \ {"stage"}
  PROVE  LET b     == call[p].block
             added == AppendBlock(chain[p], b)
         IN  /\ b \in Blocks /\ ~b.is_pruned /\ b.index # 0 /\ b # None
             /\ b.index \in Index \ Present(chain[p])
             /\ Present(chain[p]) = 0 .. b.index - 1
             /\ ValidBlock(added, b.index)
             /\ added \in Chains /\ WellFormed(added)
             /\ Present(added) = 0 .. b.index
             /\ 1 \in Present(added) /\ b.index \in Present(added)
             /\ added[b.index] = b
             /\ \A i \in Present(chain[p]) : added[i] = chain[p][i]
             /\ chain[p] \in Chains /\ WellFormed(chain[p])
<1> DEFINE b == call[p].block
<1>1. chain[p] \in Chains /\ WellFormed(chain[p])
  BY DEF IInv, TypeOK, ProcessInv, MemoryInv
<1>2. /\ b \in Blocks /\ ~b.is_pruned /\ b.index # 0
      /\ Present(chain[p]) = 0 .. b.index - 1
      /\ ValidBlock(AppendBlock(chain[p], b), b.index)
  BY DEF IInv, ProcessInv, BlockInv
<1>3. b # None /\ 1 \in 0 .. b.index /\ b.index \in 0 .. b.index
  BY <1>2, NoneIsNoBlock, MaxBlocksAssumption DEF Blocks, Index
<1>4. QED
  BY <1>1, <1>2, <1>3, AppendFacts

\* When the INSERT of a block finds no conflict, the tables it writes to are
\* those its block and its staged state were computed from.
LEMMA NoConflictMeansInSync ==
  ASSUME IInv, NEW p \in Process, pc[p] = "insert_block", MayWrite(p),
         ~Conflict(wdb, call[p].block)
  PROVE  /\ Headers(wdb.rows) = Headers(chain[p])
         /\ StateOf(wdb) = state[p]
         /\ db.rows[call[p].block.index] = None
<1> DEFINE b == call[p].block
<1>1. TypeOK /\ TablesInv /\ MemoryInv(p) /\ SyncInv(p) /\ AddInv(p)
  BY DEF IInv, ProcessInv
<1>2. /\ b.index \in Index /\ b.index # 0 /\ Present(chain[p]) = 0 .. b.index - 1
      /\ chain[p] \in Chains /\ WellFormed(chain[p]) /\ db.rows \in Chains
  BY <1>1, AddedFacts DEF Staging, TypeOK, Tables
<1>3. wdb.rows[b.index] = None
  BY DEF Conflict
<1>4. CASE writer = p
  <2>1. Present(db.rows) = {}
    BY <1>1, <1>4 DEF AddInv
  <2>2. QED
    BY <1>1, <1>2, <1>4, <2>1 DEF AddInv, Present
<1>5. CASE writer # p
  <2>1. wdb = db /\ Present(db.rows) # {}
    BY <1>1, <1>5 DEF MayWrite, TablesInv, AddInv
  <2>2. CASE HeaderPrefix(chain[p], db.rows)
    <3>1. Headers(chain[p]) = Headers(db.rows)
      BY <1>1, <1>2, <1>3, <2>1, <2>2, PrefixFull DEF TablesInv
    <3>2. state[p].current_state = db.balances /\ state[p].applied_tx_ids = AppliedIds(db)
      BY <1>1, <3>1 DEF SyncInv
    <3>3. state[p] = StateOf(db)
      BY <1>1, <3>2 DEF StateOf, TypeOK, States
    <3>4. QED
      BY <1>3, <2>1, <3>1, <3>3
  <2>3. CASE Present(chain[p]) = {0}
    <3>1. b.index = 1
      <4>1. b.index \in Int /\ 1 <= b.index
        BY <1>2, MaxBlocksAssumption DEF Index
      <4>2. b.index - 1 \in 0 .. b.index - 1
        BY <4>1
      <4>3. b.index - 1 = 0
        BY <1>2, <2>3, <4>2
      <4>4. QED
        BY <4>1, <4>3
    <3>2. 1 \in Present(db.rows)
      BY <1>1, <2>1 DEF TablesInv
    <3>3. QED
      BY <1>3, <2>1, <3>1, <3>2 DEF Present
  <2>4. QED
    BY <1>1, <2>2, <2>3 DEF MemoryInv
<1>6. QED
  BY <1>4, <1>5

LEMMA InsertBlockStep ==
  ASSUME IInv, NEW p \in Process, InsertBlock(p)
  PROVE  IInv'
<1> DEFINE b     == call[p].block
           added == AppendBlock(chain[p], b)
           t     == InsertRow(wdb, b)
<1>1. /\ pc[p] = "insert_block" /\ ~Conflict(wdb, b) /\ Write(p, t)
      /\ pc' = [pc EXCEPT ![p] = "upsert"] /\ UNCHANGED <<chain, state, call>>
  BY DEF InsertBlock, Goto
<1>2. TypeOK /\ TablesInv
  BY DEF IInv
<1>3. writer' = p /\ wdb' = t /\ db' = db /\ MayWrite(p)
  BY <1>1 DEF Write
<1>4. /\ Headers(wdb.rows) = Headers(chain[p]) /\ StateOf(wdb) = state[p]
      /\ db.rows[b.index] = None
  BY <1>1, <1>3, NoConflictMeansInSync
<1>5. /\ b \in Blocks /\ b.index # 0 /\ b.index \in Index
      /\ Present(chain[p]) = 0 .. b.index - 1 /\ ValidBlock(added, b.index)
      /\ chain[p] \in Chains /\ WellFormed(chain[p])
  BY <1>1, AddedFacts DEF Staging
<1>6. /\ wdb \in Tables /\ wdb.rows \in Chains /\ WellFormed(wdb.rows) /\ Extends(db, wdb)
      /\ db.rows \in Chains
  BY <1>2 DEF TypeOK, Tables, TablesInv
<1>7. /\ t.rows = AppendBlock(wdb.rows, b) /\ t.balances = wdb.balances /\ t.tids = wdb.tids
      /\ t = [rows |-> AppendBlock(wdb.rows, b), balances |-> wdb.balances, tids |-> wdb.tids]
  BY <1>6 DEF InsertRow, AppendBlock, Tables
<1> HIDE DEF t, b
<1>8. Present(wdb.rows) = 0 .. b.index - 1 /\ ValidBlock(AppendBlock(wdb.rows, b), b.index)
  BY <1>4, <1>5, <1>6, SuccessorTransfers
<1>9. /\ t.rows \in Chains /\ WellFormed(t.rows)
      /\ \A i \in Present(wdb.rows) : t.rows[i] = wdb.rows[i]
  <2>1. /\ AppendBlock(wdb.rows, b) \in Chains /\ WellFormed(AppendBlock(wdb.rows, b))
        /\ \A i \in Present(wdb.rows) : AppendBlock(wdb.rows, b)[i] = wdb.rows[i]
    BY <1>5, <1>6, <1>8, AppendFacts
  <2>2. QED
    BY <1>7, <2>1
<1>10. Headers(t.rows) = Headers(added)
  BY <1>4, <1>5, <1>6, <1>7, AppendHeaders
<1>11. t \in Tables
  BY <1>6, <1>7, <1>9 DEF Tables
<1>12. Extends(db, t)
  <2>1. \A i \in Present(db.rows) : i \in Present(wdb.rows)
    BY <1>6 DEF Extends, HeaderPrefix, Present
  <2>2. HeaderPrefix(db.rows, t.rows)
    BY <1>6, <1>9, <2>1 DEF Extends, HeaderPrefix
  <2>3. QED
    BY <1>6, <1>7, <1>9, <2>1, <2>2 DEF Extends
<1>13. TablesInv'
  BY <1>2, <1>3, <1>9, <1>12, NobodyAssumption DEF TablesInv
<1>14. /\ OthersSame(p) /\ pc'[p] = "upsert" /\ pc' \in [Process -> Locations]
       /\ StagedInv(p)' /\ BlockInv(p)' /\ MemoryInv(p)' /\ SyncInv(p)'
  BY <1>1, <1>3, AddKeepsMemory DEF Staging
<1>15. TypeOK'
  BY <1>1, <1>2, <1>3, <1>11, <1>14 DEF TypeOK
<1>16. StateOf(t) = state[p]
  BY <1>4, <1>7 DEF StateOf, AppliedIds
<1>17. AddInv(p)' /\ PruneInv(p)'
  BY <1>1, <1>3, <1>4, <1>10, <1>14, <1>16 DEF AddInv, PruneInv, b
<1>18. QED
  BY <1>1, <1>13, <1>14, <1>15, <1>17, WriteStep DEF ProcessInv

\* A fully staged batch has credited only its own accounts, and its ids are
\* the ones that were added.
LEMMA FullyStaged ==
  ASSUME IInv, NEW p \in Process, pc[p] \in Staging \ {"stage"}
  PROVE  /\ \A a \in Account \ Accounts(call[p].batch) :
               call[p].staged.current_state[a] = state[p].current_state[a]
         /\ call[p].staged.applied_tx_ids
               = state[p].applied_tx_ids \cup TxIds(call[p].batch)
         /\ call[p].staged \in States
         /\ TxIds(call[p].batch) \subseteq TxId
<1>1. StagedInv(p) /\ call[p] \in Calls
  BY DEF IInv, TypeOK, ProcessInv
<1>2. call[p].batch \in Seq(Tx) /\ call[p].staged \in States
  BY <1>1, BatchAssumption DEF Calls
<1>3. 1 .. call[p].next - 1 = DOMAIN call[p].batch
  <2>1. call[p].next = Len(call[p].batch) + 1
    BY <1>1 DEF StagedInv, Staging
  <2>2. QED
    BY <1>2, <2>1
<1>4. StagedTxs(p) = {call[p].batch[i] : i \in DOMAIN call[p].batch}
  BY <1>3 DEF StagedTxs
<1>5. {tx.tx_id : tx \in StagedTxs(p)} = TxIds(call[p].batch)
  BY <1>4 DEF TxIds
<1>6. \A a \in Account \ Accounts(call[p].batch) : \A tx \in StagedTxs(p) : tx.account # a
  BY <1>4 DEF Accounts
<1>7. TxIds(call[p].batch) \subseteq TxId
  BY <1>2, TxAssumption DEF TxIds
<1>8. QED
  BY <1>1, <1>2, <1>5, <1>6, <1>7 DEF StagedInv

LEMMA UpsertBalancesStep ==
  ASSUME IInv, NEW p \in Process, UpsertBalances(p)
  PROVE  IInv'
<1> DEFINE bal == call[p].staged.current_state
           t   == Upsert(wdb, Accounts(call[p].batch), bal)
<1>1. /\ pc[p] = "upsert" /\ Write(p, t)
      /\ pc' = [pc EXCEPT ![p] = "insert_ids"] /\ UNCHANGED <<chain, state, call>>
  BY DEF UpsertBalances, Goto
<1>2. TypeOK /\ TablesInv /\ AddInv(p)
  BY DEF IInv, ProcessInv
<1>3. writer' = p /\ wdb' = t /\ db' = db
  BY <1>1 DEF Write
<1>4. /\ \A a \in Account \ Accounts(call[p].batch) : bal[a] = state[p].current_state[a]
      /\ bal \in Balances
  BY <1>1, FullyStaged DEF Staging, States
<1>5. StateOf(wdb) = state[p] /\ wdb \in Tables
  BY <1>1, <1>2 DEF AddInv, TypeOK
<1>6. wdb.balances = state[p].current_state /\ AppliedIds(wdb) = state[p].applied_tx_ids
  BY <1>5 DEF StateOf
<1>7. /\ t.rows = wdb.rows /\ t.tids = wdb.tids
      /\ t.balances = [a \in Account |-> IF a \in Accounts(call[p].batch) THEN bal[a]
                                         ELSE wdb.balances[a]]
      /\ t = [rows |-> wdb.rows, tids |-> wdb.tids, balances |-> t.balances]
  BY <1>5 DEF Upsert, Tables
<1> HIDE DEF t
<1>8. t.balances = bal
  <2>1. \A a \in Account : t.balances[a] = bal[a]
    BY <1>4, <1>6, <1>7
  <2>2. QED
    BY <1>4, <1>7, <2>1 DEF Balances
<1>9. t \in Tables
  BY <1>4, <1>5, <1>7, <1>8 DEF Tables
<1>10. TablesInv'
  BY <1>2, <1>3, <1>7, NobodyAssumption DEF TablesInv, Extends
<1>11. /\ OthersSame(p) /\ pc'[p] = "insert_ids" /\ pc' \in [Process -> Locations]
       /\ StagedInv(p)' /\ BlockInv(p)' /\ MemoryInv(p)' /\ SyncInv(p)'
  BY <1>1, <1>3, AddKeepsMemory DEF Staging
<1>12. TypeOK'
  BY <1>1, <1>2, <1>3, <1>9, <1>11 DEF TypeOK
<1>13. AppliedIds(t) = state[p].applied_tx_ids
  BY <1>6, <1>7 DEF AppliedIds
<1>14. AddInv(p)' /\ PruneInv(p)'
  BY <1>1, <1>2, <1>3, <1>7, <1>8, <1>11, <1>13 DEF AddInv, PruneInv
<1>15. QED
  BY <1>1, <1>10, <1>11, <1>12, <1>14, WriteStep DEF ProcessInv

LEMMA InsertTxIdsStep ==
  ASSUME IInv, NEW p \in Process, InsertTxIds(p)
  PROVE  IInv'
<1> DEFINE ids == TxIds(call[p].batch)
           i   == call[p].block.index
           t   == InsertIds(wdb, ids, i)
<1>1. /\ pc[p] = "insert_ids" /\ Write(p, t)
      /\ pc' = [pc EXCEPT ![p] = "commit_add"] /\ UNCHANGED <<chain, state, call>>
  BY DEF InsertTxIds, Goto
<1>2. TypeOK /\ TablesInv /\ AddInv(p)
  BY DEF IInv, ProcessInv
<1>3. writer' = p /\ wdb' = t /\ db' = db
  BY <1>1 DEF Write
<1>4. /\ call[p].staged.applied_tx_ids = state[p].applied_tx_ids \cup ids
      /\ call[p].staged \in States /\ ids \subseteq TxId
  BY <1>1, FullyStaged DEF Staging
<1>5. i \in Index /\ i # None
  BY <1>1, AddedFacts, NoneAssumption, MaxBlocksAssumption DEF Staging, Index
<1>6. /\ wdb.balances = call[p].staged.current_state
      /\ AppliedIds(wdb) = state[p].applied_tx_ids /\ wdb \in Tables
  BY <1>1, <1>2 DEF AddInv, TypeOK
<1>7. /\ t.rows = wdb.rows /\ t.balances = wdb.balances
      /\ t.tids = [x \in TxId |-> IF x \in ids /\ wdb.tids[x] = None THEN i
                                  ELSE wdb.tids[x]]
      /\ t = [rows |-> wdb.rows, tids |-> t.tids, balances |-> wdb.balances]
  BY <1>6 DEF InsertIds, Tables
<1> HIDE DEF t, i, ids
<1>8. t.tids \in [TxId -> Index \cup {None}] /\ t \in Tables
  BY <1>5, <1>6, <1>7 DEF Tables
<1>9. AppliedIds(t) = AppliedIds(wdb) \cup ids
  BY <1>4, <1>5, <1>7 DEF AppliedIds
<1>10. StateOf(t) = call[p].staged
  BY <1>4, <1>6, <1>7, <1>9 DEF StateOf, States
<1>11. \A x \in AppliedIds(db) : t.tids[x] = db.tids[x]
  BY <1>2, <1>7 DEF TablesInv, Extends, AppliedIds
<1>12. Extends(db, t)
  BY <1>2, <1>7, <1>11 DEF TablesInv, Extends
<1>13. TablesInv'
  BY <1>2, <1>3, <1>7, <1>12, NobodyAssumption DEF TablesInv
<1>14. /\ OthersSame(p) /\ pc'[p] = "commit_add" /\ pc' \in [Process -> Locations]
       /\ StagedInv(p)' /\ BlockInv(p)' /\ MemoryInv(p)' /\ SyncInv(p)'
  BY <1>1, <1>3, AddKeepsMemory DEF Staging
<1>15. TypeOK'
  BY <1>1, <1>2, <1>3, <1>8, <1>14 DEF TypeOK
<1>16. AddInv(p)' /\ PruneInv(p)'
  BY <1>1, <1>2, <1>3, <1>7, <1>10, <1>14 DEF AddInv, PruneInv
<1>17. QED
  BY <1>1, <1>13, <1>14, <1>15, <1>16, WriteStep DEF ProcessInv

LEMMA CommitAddStep ==
  ASSUME IInv, NEW p \in Process, CommitAdd(p)
  PROVE  IInv'
<1> DEFINE b     == call[p].block
           added == AppendBlock(chain[p], b)
<1>1. /\ pc[p] = "commit_add" /\ Commit(p)
      /\ pc' = [pc EXCEPT ![p] = "apply"] /\ UNCHANGED <<chain, state, call>>
  BY DEF CommitAdd, Goto
<1>2. TypeOK /\ TablesInv /\ MemoryInv(p) /\ AddInv(p)
  BY DEF IInv, ProcessInv
<1>3. /\ db' = wdb /\ wdb' = wdb /\ writer' = None /\ wdb.rows \in Chains
      /\ db.rows \in Chains
  BY <1>1, <1>2 DEF Commit, TypeOK, Tables
<1>4. /\ db.rows[b.index] = None /\ Headers(wdb.rows) = Headers(added)
      /\ StateOf(wdb) = call[p].staged
  BY <1>1, <1>2 DEF AddInv
<1>5. /\ added \in Chains /\ 1 \in Present(added) /\ b.index \in Present(added)
      /\ \A i \in Present(chain[p]) : added[i] = chain[p][i]
      /\ b.index \in Index \ Present(chain[p]) /\ chain[p] \in Chains
      /\ Present(chain[p]) \subseteq Present(added)
  <2>1. pc[p] \in Staging \ {"stage"}
    BY <1>1 DEF Staging
  <2>2. \A i \in Present(chain[p]) : added[i] = chain[p][i] /\ chain[p][i] # None /\ i \in Index
    BY <2>1, AddedFacts, PresentFacts
  <2>3. Present(chain[p]) \subseteq Present(added)
    BY <2>2 DEF Present
  <2>4. QED
    BY <2>1, <2>3, AddedFacts
<1> HIDE DEF b, added
<1>6. /\ Present(wdb.rows) = Present(added)
      /\ \A i \in Present(added) : wdb.rows[i].hash = added[i].hash
  BY <1>3, <1>4, <1>5, HeadersEqual
<1>7. 1 \in Present(wdb.rows) /\ wdb.rows[b.index] # None
  BY <1>5, <1>6 DEF Present
<1>8. CommitChange
  BY <1>4, <1>5, <1>7 DEF CommitChange
<1>9. /\ OthersSame(p) /\ pc'[p] = "apply" /\ pc' \in [Process -> Locations]
      /\ StagedInv(p)' /\ BlockInv(p)'
  BY <1>1, AddKeepsMemory DEF Staging
<1>10. TypeOK'
  BY <1>1, <1>2, <1>3, <1>9 DEF TypeOK
<1>11. HeaderPrefix(added, wdb.rows) /\ HeaderPrefix(chain[p], wdb.rows)
  <2>1. HeaderPrefix(added, wdb.rows)
    BY <1>3, <1>6, PresentFacts DEF HeaderPrefix
  <2>2. QED
    BY <1>5, <2>1 DEF HeaderPrefix
<1>12. \A i \in Present(chain[p]) :
          chain[p][i].is_pruned => wdb.rows[i] # None /\ wdb.rows[i].is_pruned
  <2>1. SUFFICES ASSUME NEW i \in Present(chain[p]), chain[p][i].is_pruned
                 PROVE  wdb.rows[i] # None /\ wdb.rows[i].is_pruned
    OBVIOUS
  <2>2. db.rows[i] # None /\ db.rows[i].is_pruned /\ i \in Index
    BY <1>2, <1>5, <2>1, PresentFacts DEF MemoryInv
  <2>3. i \in Present(db.rows)
    BY <2>2 DEF Present
  <2>4. QED
    BY <1>2, <2>2, <2>3 DEF TablesInv, Extends, HeaderPrefix
<1>13. MemoryInv(p)'
  BY <1>1, <1>2, <1>3, <1>9, <1>11, <1>12 DEF MemoryInv
<1>14. SyncInv(p)'
  <2>1. Headers(chain[p]) # Headers(wdb.rows)
    BY <1>3, <1>5, <1>6, HeadersEqual
  <2>2. QED
    BY <1>1, <1>3, <2>1 DEF SyncInv
<1>15. AddInv(p)' /\ PruneInv(p)'
  BY <1>1, <1>3, <1>4, <1>9, <1>11, NobodyAssumption DEF AddInv, PruneInv, added, b
<1>16. QED
  BY <1>1, <1>7, <1>8, <1>9, <1>10, <1>13, <1>14, <1>15, CommitStep DEF ProcessInv

LEMMA ApplyToChainStep ==
  ASSUME IInv, NEW p \in Process, ApplyToChain(p)
  PROVE  IInv'
<1> DEFINE b     == call[p].block
           added == AppendBlock(chain[p], b)
<1>1. /\ pc[p] = "apply" /\ pc' = [pc EXCEPT ![p] = "idle"]
      /\ call' = [call EXCEPT ![p] = NoCall]
      /\ chain' = [chain EXCEPT ![p] = added]
      /\ state' = [state EXCEPT ![p] = call[p].staged]
      /\ db' = db /\ wdb' = wdb /\ writer' = writer
  BY DEF ApplyToChain, Return, Goto, dbVars
<1>2. /\ added \in Chains /\ WellFormed(added) /\ Present(added) = 0 .. b.index
      /\ added[b.index] = b /\ ~b.is_pruned /\ b.index # 0 /\ 1 \in Present(added)
      /\ \A i \in Present(chain[p]) : added[i] = chain[p][i]
      /\ Present(chain[p]) = 0 .. b.index - 1 /\ b.index \in Index
  BY <1>1, AddedFacts DEF Staging
<1>3. call[p].staged \in States
  BY DEF IInv, TypeOK, Calls
<1>4. /\ HeaderPrefix(added, db.rows)
      /\ Headers(added) = Headers(db.rows) => call[p].staged = StateOf(db)
      /\ writer # p
  BY <1>1 DEF IInv, ProcessInv, AddInv
<1>5. \A i \in Present(added) : i = b.index \/ i \in Present(chain[p])
  BY <1>2, MaxBlocksAssumption DEF Index
<1>6. \A i \in Present(added) :
         added[i].is_pruned => db.rows[i] # None /\ db.rows[i].is_pruned
  BY <1>2, <1>5 DEF IInv, ProcessInv, MemoryInv
<1>7. 0 \in Present(added)
  BY <1>2, MaxBlocksAssumption DEF Index
<1> HIDE DEF b, added
<1>8. OthersSame(p) /\ UNCHANGED dbVars
  BY <1>1 DEF OthersSame, dbVars, IInv, TypeOK
<1>9. TypeOK'
  BY <1>1, <1>2, <1>3, EmptyFacts DEF IInv, TypeOK, Locations
<1>10. pc'[p] = "idle" /\ chain'[p] = added /\ state'[p] = call[p].staged
  BY <1>1 DEF IInv, TypeOK
<1>11. MemoryInv(p)'
  BY <1>1, <1>2, <1>4, <1>6, <1>7, <1>10 DEF MemoryInv
<1>12. SyncInv(p)'
  BY <1>1, <1>4, <1>10 DEF SyncInv, StateOf
<1>13. StagedInv(p)' /\ BlockInv(p)' /\ AddInv(p)' /\ PruneInv(p)'
  BY <1>1, <1>4, <1>10 DEF StagedInv, BlockInv, AddInv, PruneInv, Staging
<1>14. QED
  BY <1>8, <1>9, <1>11, <1>12, <1>13, LocalStep DEF ProcessInv

-----------------------------------------------------------------------------
(* Pruning.                                                                  *)

LEMMA BeginPruneStep ==
  ASSUME IInv, NEW p \in Process, BeginPrune(p)
  PROVE  IInv'
<1> DEFINE d == [NoCall EXCEPT !.todo = Eligible(chain[p])]
<1>1. /\ pc[p] = "idle" /\ pc' = [pc EXCEPT ![p] = "prune_rows"]
      /\ call' = [call EXCEPT ![p] = d] /\ chain' = chain /\ state' = state
      /\ db' = db /\ wdb' = wdb /\ writer' = writer
  BY DEF BeginPrune, Goto
<1>2. Eligible(chain[p]) \subseteq Index
  BY DEF Eligible, Present
<1>3. d \in Calls /\ d.todo = Eligible(chain[p])
  BY <1>2, EmptyFacts DEF Calls, NoCall
<1> HIDE DEF d
<1>4. OthersSame(p) /\ UNCHANGED dbVars
  BY <1>1 DEF OthersSame, dbVars, IInv, TypeOK
<1>5. TypeOK'
  BY <1>1, <1>3 DEF IInv, TypeOK, Locations
<1>6. pc'[p] = "prune_rows" /\ call'[p] = d
  BY <1>1 DEF IInv, TypeOK
<1>7. writer # p
  BY <1>1 DEF IInv, ProcessInv, AddInv
<1>8. MemoryInv(p)' /\ SyncInv(p)'
  BY <1>1, <1>6 DEF IInv, ProcessInv, MemoryInv, SyncInv
<1>9. StagedInv(p)' /\ BlockInv(p)' /\ AddInv(p)' /\ PruneInv(p)'
  BY <1>1, <1>3, <1>6, <1>7 DEF StagedInv, BlockInv, AddInv, PruneInv, Staging
<1>10. QED
  BY <1>4, <1>5, <1>8, <1>9, LocalStep DEF ProcessInv

LEMMA MarkPrunedFacts ==
  ASSUME NEW t \in Tables, WellFormed(t.rows), NEW i \in Index, t.rows[i] # None
  PROVE  LET u == MarkPruned(t, i)
         IN  /\ u \in Tables /\ WellFormed(u.rows) /\ StateOf(u) = StateOf(t)
             /\ Headers(u.rows) = Headers(t.rows) /\ Extends(t, u)
             /\ Present(u.rows) = Present(t.rows)
             /\ u.rows[i] # None /\ u.rows[i].is_pruned
             /\ \A j \in Index \ {i} : u.rows[j] = t.rows[j]
             /\ u.tids = t.tids
<1> DEFINE u == MarkPruned(t, i)
<1>1. t.rows \in Chains /\ t.rows[i] \in Blocks /\ i \in Present(t.rows)
  BY DEF Tables, Chains, Present
<1>2. /\ u = [rows |-> [t.rows EXCEPT ![i] = Prune(t.rows[i])],
              balances |-> t.balances, tids |-> t.tids]
      /\ u.rows = [t.rows EXCEPT ![i] = Prune(t.rows[i])]
      /\ u.balances = t.balances /\ u.tids = t.tids
  BY DEF MarkPruned, Tables
<1> HIDE DEF u
<1>3. /\ Prune(t.rows[i]) \in Blocks /\ Prune(t.rows[i]) # None
      /\ Prune(t.rows[i]).is_pruned /\ VerifyBody(Prune(t.rows[i]))
      /\ SameHeaderFields(t.rows[i], Prune(t.rows[i]))
  BY <1>1, PruneFacts DEF VerifyBody, SameHeaderFields
<1>4. /\ u.rows \in Chains /\ u.rows[i] = Prune(t.rows[i])
      /\ \A j \in Index \ {i} : u.rows[j] = t.rows[j]
  BY <1>1, <1>2, <1>3 DEF Chains
<1>5. Present(u.rows) = Present(t.rows)
  BY <1>1, <1>3, <1>4 DEF Present
<1>6. ASSUME NEW j \in Present(t.rows)
      PROVE  /\ SameHeaderFields(t.rows[j], u.rows[j]) /\ VerifyBody(u.rows[j])
             /\ t.rows[j].is_pruned => u.rows[j].is_pruned
             /\ u.rows[j] # None
  <2>1. VerifyBody(t.rows[j]) /\ j \in Index /\ t.rows[j] # None
    BY DEF WellFormed, ValidateChain, ValidBlock, Present
  <2>2. CASE j = i
    BY <1>3, <1>4, <2>2
  <2>3. CASE j # i
    BY <1>4, <2>1, <2>3 DEF SameHeaderFields
  <2>4. QED
    BY <2>2, <2>3
<1>7. WellFormed(u.rows) /\ Headers(u.rows) = Headers(t.rows)
  BY <1>1, <1>4, <1>5, <1>6, SameHeadersFacts
<1>8. u \in Tables
  BY <1>2, <1>4 DEF Tables
<1>9. StateOf(u) = StateOf(t)
  BY <1>2 DEF StateOf, AppliedIds
<1>10. Extends(t, u)
  BY <1>2, <1>6 DEF Extends, HeaderPrefix, SameHeaderFields
<1>11. QED
  BY <1>2, <1>3, <1>4, <1>5, <1>7, <1>8, <1>9, <1>10 DEF u

LEMMA ExtendsTransitive ==
  ASSUME NEW t \in Tables, NEW u \in Tables, NEW v \in Tables,
         Extends(t, u), Extends(u, v)
  PROVE  Extends(t, v)
<1>1. \A i \in Present(t.rows) : i \in Present(u.rows) /\ u.rows[i].hash = t.rows[i].hash
  BY DEF Extends, HeaderPrefix, Present
<1>2. HeaderPrefix(t.rows, v.rows)
  BY <1>1 DEF Extends, HeaderPrefix
<1>3. \A i \in Present(t.rows) : t.rows[i].is_pruned => v.rows[i].is_pruned
  BY <1>1 DEF Extends
<1>4. \A x \in AppliedIds(t) : v.tids[x] = t.tids[x]
  BY DEF Extends, AppliedIds
<1>5. QED
  BY <1>2, <1>3, <1>4 DEF Extends

LEMMA PruneRowStep ==
  ASSUME IInv, NEW p \in Process, PruneRow(p)
  PROVE  IInv'
<1>1. PICK i \in Candidates(p) :
         /\ wdb.rows[i] # None /\ Write(p, MarkPruned(wdb, i))
         /\ call' = [call EXCEPT ![p].todo = @ \ {i}]
  BY DEF PruneRow
<1> DEFINE d == [call[p] EXCEPT !.todo = call[p].todo \ {i}]
           t == MarkPruned(wdb, i)
<1>2. /\ pc[p] = "prune_rows" /\ pc' = pc /\ chain' = chain /\ state' = state
      /\ db' = db /\ wdb' = t /\ writer' = p /\ MayWrite(p)
  BY <1>1 DEF PruneRow, Write
<1>3. TypeOK /\ TablesInv /\ PruneInv(p)
  BY DEF IInv, ProcessInv
<1>4. call[p] \in Calls /\ i \in call[p].todo /\ i \in Index
  BY <1>1, <1>3 DEF Candidates, TypeOK, Calls
<1>5. d \in Calls /\ d.todo = call[p].todo \ {i}
  BY <1>4 DEF Calls
<1>6. call' = [call EXCEPT ![p] = d]
  BY <1>1
<1> HIDE DEF d
<1>7. /\ t \in Tables /\ WellFormed(t.rows) /\ StateOf(t) = StateOf(wdb)
      /\ Headers(t.rows) = Headers(wdb.rows) /\ Extends(wdb, t)
      /\ t.rows[i] # None /\ t.rows[i].is_pruned
      /\ \A j \in Index \ {i} : t.rows[j] = wdb.rows[j]
  BY <1>1, <1>3, <1>4, MarkPrunedFacts DEF TypeOK, TablesInv
<1> HIDE DEF t
<1>8. Extends(db, t)
  BY <1>3, <1>7, ExtendsTransitive DEF TypeOK, TablesInv
<1>9. TablesInv'
  BY <1>2, <1>3, <1>7, <1>8, NobodyAssumption DEF TablesInv
<1>10. OthersSame(p) /\ pc'[p] = "prune_rows" /\ call'[p] = d
  BY <1>2, <1>3, <1>6 DEF OthersSame, TypeOK
<1>11. TypeOK'
  BY <1>2, <1>3, <1>5, <1>6, <1>7 DEF TypeOK
<1>12. MemoryInv(p)' /\ SyncInv(p)'
  BY <1>2, <1>10 DEF IInv, ProcessInv, MemoryInv, SyncInv
<1>13. PruneInv(p)'
  <2>1. Headers(wdb.rows) = Headers(db.rows) /\ StateOf(wdb) = StateOf(db)
    BY <1>2, <1>3 DEF MayWrite, TablesInv, PruneInv
  <2>2. Present(db.rows) # {}
    <3>1. i \in Present(wdb.rows)
      BY <1>1, <1>4 DEF Present
    <3>2. QED
      BY <1>3, <2>1, <3>1, HeadersEqual DEF TypeOK, Tables
  <2>3. \A j \in Eligible(chain[p]) \ call[p].todo :
           wdb.rows[j] # None /\ wdb.rows[j].is_pruned
    BY <1>2, <1>3 DEF PruneInv
  <2>4. Eligible(chain[p]) \subseteq Index
    BY DEF Eligible, Present
  <2>5. \A j \in Eligible(chain[p]) \ d.todo : t.rows[j] # None /\ t.rows[j].is_pruned
    BY <1>5, <1>7, <2>3, <2>4
  <2>6. QED
    BY <1>2, <1>7, <1>10, <2>1, <2>2, <2>5 DEF PruneInv
<1>14. StagedInv(p)' /\ BlockInv(p)' /\ AddInv(p)'
  BY <1>2, <1>10 DEF StagedInv, BlockInv, AddInv, Staging
<1>15. QED
  BY <1>1, <1>9, <1>10, <1>11, <1>12, <1>13, <1>14, WriteStep DEF ProcessInv

LEMMA CommitPruneStep ==
  ASSUME IInv, NEW p \in Process, CommitPrune(p)
  PROVE  IInv'
<1>1. /\ pc[p] = "prune_rows" /\ call[p].todo = {} /\ Commit(p)
      /\ pc' = [pc EXCEPT ![p] = "prune_chain"] /\ UNCHANGED <<chain, state, call>>
  BY DEF CommitPrune, Goto
<1>2. TypeOK /\ TablesInv /\ MemoryInv(p) /\ SyncInv(p) /\ PruneInv(p)
  BY DEF IInv, ProcessInv
<1>3. writer = p /\ db' = wdb /\ wdb' = wdb /\ writer' = None
  BY <1>1 DEF Commit
<1>4. /\ Headers(wdb.rows) = Headers(db.rows) /\ StateOf(wdb) = StateOf(db)
      /\ Present(db.rows) # {}
      /\ \A i \in Eligible(chain[p]) : wdb.rows[i] # None /\ wdb.rows[i].is_pruned
  BY <1>1, <1>2, <1>3 DEF PruneInv
<1>5. wdb.balances = db.balances /\ AppliedIds(wdb) = AppliedIds(db)
  BY <1>4 DEF StateOf
<1>6. /\ Present(wdb.rows) = Present(db.rows) /\ db.rows \in Chains
      /\ \A i \in Present(db.rows) : wdb.rows[i].hash = db.rows[i].hash
  BY <1>2, <1>4, HeadersEqual DEF TypeOK, Tables
<1>7. 1 \in Present(wdb.rows) /\ CommitChange
  BY <1>2, <1>4, <1>6 DEF TablesInv, CommitChange
<1>8. OthersSame(p) /\ pc'[p] = "prune_chain"
  BY <1>1, <1>2 DEF OthersSame, TypeOK
<1>9. TypeOK'
  BY <1>1, <1>2, <1>3 DEF TypeOK, Locations
<1>10. MemoryInv(p)'
  <2>1. HeaderPrefix(chain[p], db.rows) => HeaderPrefix(chain[p], wdb.rows)
    BY <1>2, PrefixTransitive DEF TypeOK, Tables, TablesInv, Extends
  <2>2. \A i \in Present(chain[p]) :
           chain[p][i].is_pruned => wdb.rows[i] # None /\ wdb.rows[i].is_pruned
    BY <1>2, <1>6 DEF TablesInv, Extends, MemoryInv, Present
  <2>3. QED
    BY <1>1, <1>2, <1>3, <1>8, <2>1, <2>2 DEF MemoryInv
<1>11. SyncInv(p)'
  BY <1>1, <1>2, <1>3, <1>4, <1>5, <1>8 DEF SyncInv
<1>12. PruneInv(p)'
  BY <1>1, <1>3, <1>4, <1>8 DEF PruneInv
<1>13. StagedInv(p)' /\ BlockInv(p)' /\ AddInv(p)'
  BY <1>3, <1>8, NobodyAssumption DEF StagedInv, BlockInv, AddInv, Staging
<1>14. QED
  BY <1>1, <1>7, <1>8, <1>9, <1>10, <1>11, <1>12, <1>13, CommitStep DEF ProcessInv

LEMMA PruneChainStep ==
  ASSUME IInv, NEW p \in Process, PruneChain(p)
  PROVE  IInv'
<1> DEFINE d == PruneBlocks(chain[p])
<1>1. /\ pc[p] = "prune_chain" /\ pc' = [pc EXCEPT ![p] = "idle"]
      /\ call' = [call EXCEPT ![p] = NoCall] /\ chain' = [chain EXCEPT ![p] = d]
      /\ state' = state /\ db' = db /\ wdb' = wdb /\ writer' = writer
  BY DEF PruneChain, Return, Goto
<1>2. MemoryInv(p) /\ SyncInv(p) /\ PruneInv(p) /\ TypeOK
  BY DEF IInv, ProcessInv
<1>3. /\ d \in Chains /\ WellFormed(d) /\ Present(d) = Present(chain[p])
      /\ Headers(d) = Headers(chain[p])
      /\ \A i \in Present(chain[p]) :
            /\ d[i].hash = chain[p][i].hash
            /\ d[i].is_pruned => chain[p][i].is_pruned \/ i \in Eligible(chain[p])
  BY <1>2, PruneBlocksFacts DEF MemoryInv, TypeOK
<1> HIDE DEF d
<1>4. OthersSame(p) /\ UNCHANGED dbVars
  BY <1>1, <1>2 DEF OthersSame, dbVars, TypeOK
<1>5. TypeOK'
  BY <1>1, <1>2, <1>3, EmptyFacts DEF TypeOK, Locations
<1>6. pc'[p] = "idle" /\ chain'[p] = d /\ state'[p] = state[p]
  BY <1>1, <1>2 DEF TypeOK
<1>7. HeaderPrefix(chain[p], db.rows) => HeaderPrefix(d, db.rows)
  BY <1>3 DEF HeaderPrefix
<1>8. \A i \in Present(d) : d[i].is_pruned => db.rows[i] # None /\ db.rows[i].is_pruned
  BY <1>1, <1>2, <1>3 DEF MemoryInv, PruneInv
<1>9. MemoryInv(p)'
  BY <1>1, <1>2, <1>3, <1>6, <1>7, <1>8 DEF MemoryInv
<1>10. SyncInv(p)'
  BY <1>1, <1>2, <1>3, <1>6 DEF SyncInv
<1>11. writer # p
  BY <1>1 DEF IInv, ProcessInv, AddInv
<1>12. StagedInv(p)' /\ BlockInv(p)' /\ AddInv(p)' /\ PruneInv(p)'
  BY <1>1, <1>6, <1>11 DEF StagedInv, BlockInv, AddInv, PruneInv, Staging
<1>13. QED
  BY <1>4, <1>5, <1>9, <1>10, <1>12, LocalStep DEF ProcessInv

-----------------------------------------------------------------------------
\* Every step of every process preserves the invariant.
LEMMA NextIInv == IInv /\ [Next]_vars => IInv'
<1> SUFFICES ASSUME IInv, [Next]_vars PROVE IInv'
  OBVIOUS
<1>1. CASE UNCHANGED vars
  <2>1. dbVars' = dbVars /\ pc' = pc /\ chain' = chain /\ state' = state /\ call' = call
    BY <1>1 DEF vars, dbVars
  <2>2. TypeOK' /\ TablesInv'
    BY <2>1 DEF IInv, TypeOK, TablesInv, dbVars
  <2>3. ASSUME NEW q \in Process PROVE ProcessInv(q)'
    BY <2>1, FrameUncommitted DEF IInv, dbVars
  <2>4. QED
    BY <2>2, <2>3 DEF IInv
<1>2. ASSUME NEW p \in Process, Call(p) PROVE IInv'
  BY <1>2, StartEmptyStep, LoadBlocksStep, BeginAddStep, BeginPruneStep DEF Call
<1>3. ASSUME NEW p \in Process, Continue(p) PROVE IInv'
  <2>1. CASE LoadState(p) \/ LoadIds(p)
    BY <2>1, LoadStateStep, LoadIdsStep
  <2>2. CASE StageTransaction(p) \/ CreateBlock(p)
    BY <2>2, StageTransactionStep, CreateBlockStep
  <2>3. CASE EnsureEmpty(p) \/ EnsureMatch(p)
    BY <2>3, EnsureStep
  <2>4. CASE InsertGenesis(p) \/ InsertBlock(p)
    BY <2>4, InsertGenesisStep, InsertBlockStep
  <2>5. CASE UpsertBalances(p) \/ InsertTxIds(p)
    BY <2>5, UpsertBalancesStep, InsertTxIdsStep
  <2>6. CASE CommitAdd(p) \/ ApplyToChain(p)
    BY <2>6, CommitAddStep, ApplyToChainStep
  <2>7. CASE PruneRow(p) \/ CommitPrune(p) \/ PruneChain(p)
    BY <2>7, PruneRowStep, CommitPruneStep, PruneChainStep
  <2>8. CASE AddRaisesKeyError(p) \/ EnsureRaises(p) \/ InsertRaises(p)
               \/ PruneRowRaises(p) \/ BusyTimeout(p)
    <3>1. Raise(p) /\ pc[p] \notin {"down", "load_state", "load_ids"}
      BY <2>8 DEF AddRaisesKeyError, Staged, EnsureRaises, InsertRaises, PruneRowRaises,
                  BusyTimeout, LockLocations
    <3>2. QED
      BY <3>1, RaiseStep
  <2>9. QED
    BY <1>3, <2>1, <2>2, <2>3, <2>4, <2>5, <2>6, <2>7, <2>8 DEF Continue
<1>4. ASSUME NEW p \in Process, Fail(p) PROVE IInv'
  <2>1. CASE SqlError(p)
    <3>1. Raise(p) /\ pc[p] \notin {"down", "load_state", "load_ids"}
      BY <2>1 DEF SqlError, SqlLocations
    <3>2. QED
      BY <3>1, RaiseStep
  <2>2. CASE LoadRaises(p) \/ Crash(p)
    BY <2>2, StopStep DEF LoadRaises, Crash
  <2>3. QED
    BY <1>4, <2>1, <2>2 DEF Fail
<1>5. QED
  BY <1>1, <1>2, <1>3, <1>4 DEF Next

\* The inductive invariant holds in every reachable state of the store, with
\* any number of processes interleaving load_chain, add_block and prune_chain
\* and failing anywhere (chain_store.py:71-203).
THEOREM Invariance == Spec => []IInv
<1>1. Init => IInv
  BY InitIInv
<1>2. IInv /\ [Next]_vars => IInv'
  BY NextIInv
<1>3. QED
  BY <1>1, <1>2, PTL DEF Spec

\* Every variable keeps its type (ChainStore).
THEOREM TypeCorrect == Spec => []TypeOK
<1>1. IInv => TypeOK
  BY DEF IInv
<1>2. QED
  BY <1>1, Invariance, PTL

\* validate_chain accepts what is persisted and what is in memory, always
\* (chain.py:83-104).
THEOREM ChainsAlwaysValid == Spec => []ChainsValid
<1>1. IInv => ChainsValid
  BY DEF IInv, ChainsValid, TablesInv, ProcessInv, MemoryInv, WellFormed
<1>2. QED
  BY <1>1, Invariance, PTL

\* A process never shows a block the file does not have (chain_store.py:74-90).
THEOREM MemoryAlwaysDurable == Spec => []MemoryIsDurable
<1>1. IInv => MemoryIsDurable
  BY DEF IInv, MemoryIsDurable, ProcessInv, MemoryInv
<1>2. QED
  BY <1>1, Invariance, PTL

\* Comparing headers, which is all _ensure_chain_persisted does, is enough to
\* know that balances and applied ids in memory are the file's, although
\* load_chain reads the three tables at three different moments
\* (chain_store.py:145-155, 174-199).
THEOREM HeadersImplyState == Spec => []InSync
<1>1. IInv => InSync
  <2>1. SUFFICES ASSUME IInv, NEW p \in Process, pc[p] = "idle",
                        Headers(chain[p]) = Headers(db.rows)
                 PROVE  state[p] = StateOf(db)
    BY DEF InSync
  <2>2. state[p].current_state = db.balances /\ state[p].applied_tx_ids = AppliedIds(db)
    BY <2>1 DEF IInv, ProcessInv, SyncInv
  <2>3. state[p] \in States
    BY <2>1 DEF IInv, TypeOK
  <2>4. QED
    BY <2>2, <2>3 DEF StateOf, States
<1>2. QED
  BY <1>1, Invariance, PTL

\* No body is dropped from memory before it is dropped from the file
\* (chain_store.py:102-110).
THEOREM FileAlwaysPrunedFirst == Spec => []PrunedDurablyFirst
<1>1. IInv => PrunedDurablyFirst
  BY DEF IInv, PrunedDurablyFirst, ProcessInv, MemoryInv
<1>2. QED
  BY <1>1, Invariance, PTL

\* Only the two COMMITs change the file.
LEMMA OnlyCommitsChangeFile ==
  ASSUME [Next]_vars
  PROVE  db' = db \/ \E p \in Process : CommitAdd(p) \/ CommitPrune(p)
<1>1. ASSUME NEW p \in Process PROVE Raise(p) \/ Stop(p) => db' = db
  BY DEF Raise, Stop, Rollback
<1>2. ASSUME NEW p \in Process, NEW tables PROVE Write(p, tables) => db' = db
  BY DEF Write
<1>3. ASSUME NEW p \in Process, Call(p) PROVE db' = db
  <2>1. CASE StartEmpty(p) \/ LoadBlocks(p)
    BY <2>1 DEF StartEmpty, LoadBlocks
  <2>2. CASE \E batch \in Batch : BeginAdd(p, batch)
    BY <2>2 DEF BeginAdd
  <2>3. CASE BeginPrune(p)
    BY <2>3 DEF BeginPrune
  <2>4. QED
    BY <1>3, <2>1, <2>2, <2>3 DEF Call
<1>4. ASSUME NEW p \in Process, Continue(p)
      PROVE  db' = db \/ CommitAdd(p) \/ CommitPrune(p)
  <2>1. CASE LoadState(p) \/ LoadIds(p) \/ StageTransaction(p) \/ CreateBlock(p)
    BY <2>1 DEF LoadState, LoadIds, StageTransaction, CreateBlock
  <2>2. CASE EnsureEmpty(p) \/ EnsureMatch(p) \/ ApplyToChain(p) \/ PruneChain(p)
    BY <2>2 DEF EnsureEmpty, EnsureMatch, ApplyToChain, PruneChain, dbVars
  <2>3. CASE InsertGenesis(p) \/ InsertBlock(p)
    BY <1>2, <2>3 DEF InsertGenesis, InsertBlock
  <2>4. CASE UpsertBalances(p) \/ InsertTxIds(p)
    BY <1>2, <2>4 DEF UpsertBalances, InsertTxIds
  <2>5. CASE PruneRow(p)
    BY <1>2, <2>5 DEF PruneRow
  <2>6. CASE AddRaisesKeyError(p) \/ EnsureRaises(p) \/ InsertRaises(p)
             \/ PruneRowRaises(p) \/ BusyTimeout(p)
    BY <1>1, <2>6 DEF AddRaisesKeyError, EnsureRaises, InsertRaises, PruneRowRaises,
                      BusyTimeout
  <2>7. QED
    BY <1>4, <2>1, <2>2, <2>3, <2>4, <2>5, <2>6 DEF Continue
<1>5. ASSUME NEW p \in Process, Fail(p) PROVE db' = db
  BY <1>1, <1>5 DEF Fail, SqlError, LoadRaises, Crash
<1>6. QED
  BY <1>3, <1>4, <1>5 DEF Next, vars

\* The committed tables only grow: headers, dropped bodies and applied ids are
\* there to stay (chain_store.py:86-88, 102-108, 140-143).
THEOREM FileOnlyGrows == Spec => DurableAppendOnly
<1>1. ASSUME IInv, [Next]_vars PROVE [Extends(db, db')]_db
  <2>1. CASE db' = db
    BY <2>1
  <2>2. ASSUME NEW p \in Process, CommitAdd(p) \/ CommitPrune(p) PROVE db' = wdb
    BY <2>2 DEF CommitAdd, CommitPrune, Commit
  <2>3. Extends(db, wdb)
    BY <1>1 DEF IInv, TablesInv
  <2>4. QED
    BY <1>1, <2>1, <2>2, <2>3, OnlyCommitsChangeFile
<1>2. QED
  BY <1>1, Invariance, PTL DEF Spec, DurableAppendOnly
=============================================================================
