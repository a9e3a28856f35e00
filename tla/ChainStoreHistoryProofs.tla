----------------------- MODULE ChainStoreHistoryProofs -----------------------
(* HistoryInv is an invariant of the store, next to IInv: the ids of the file *)
(* are those of its blocks, and pruning never reaches the retention window.   *)
(* So is EffectInv, and the file implements the ledger: the balances that a   *)
(* transaction commits are the committed ones with every new id of its batch  *)
(* credited once.                                                             *)
EXTENDS ChainStoreProofs, Induction

\* An open transaction belongs to a process inside its writes.
LEMMA WriterWrites ==
  ASSUME IInv, NEW p \in Process,
         pc[p] \notin {"insert_block", "upsert", "insert_ids", "commit_add", "prune_rows"}
  PROVE  writer # p
BY DEF IInv, ProcessInv, AddInv

-----------------------------------------------------------------------------
(* Steps of others.                                                          *)

\* A step that leaves q's transaction alone.
LEMMA HistoryFrame ==
  ASSUME NEW q \in Process, ProcessHistoryInv(q),
         pc'[q] = pc[q], chain'[q] = chain[q], call'[q] = call[q],
         writer' = q => writer = q /\ wdb' = wdb
  PROVE  ProcessHistoryInv(q)'
<1>1. chain'[q][0] # None => chain'[q][0].merkle_root = None
  BY DEF ProcessHistoryInv
<1>2. pc'[q] \in Staging \ {"stage"} =>
         call'[q].block.merkle_root = MerkleRoot(call'[q].batch)
  BY DEF ProcessHistoryInv
<1>3. pc'[q] = "prune_rows" => call'[q].todo \subseteq Eligible(chain'[q])
  BY DEF ProcessHistoryInv
<1>4. writer' = q => OpenIdsInv(q)'
  BY DEF ProcessHistoryInv, OpenIdsInv
<1>5. QED
  BY <1>1, <1>2, <1>3, <1>4 DEF ProcessHistoryInv

\* A step of p that touches no table.
LEMMA LocalHistory ==
  ASSUME IInv, HistoryInv, NEW p \in Process, UNCHANGED dbVars, OthersSame(p),
         pc[p] \notin {"insert_block", "upsert", "insert_ids", "commit_add", "prune_rows"},
         chain'[p][0] # None => chain'[p][0].merkle_root = None,
         pc'[p] \in Staging \ {"stage"} =>
            call'[p].block.merkle_root = MerkleRoot(call'[p].batch),
         pc'[p] = "prune_rows" => call'[p].todo \subseteq Eligible(chain'[p])
  PROVE  HistoryInv'
<1>1. db' = db /\ wdb' = wdb /\ writer' = writer /\ writer # p
  BY WriterWrites DEF dbVars
<1>2. ASSUME NEW q \in Process \ {p} PROVE ProcessHistoryInv(q)'
  BY <1>1, HistoryFrame DEF HistoryInv, OthersSame
<1>3. ProcessHistoryInv(p)'
  BY <1>1 DEF ProcessHistoryInv
<1>4. QED
  BY <1>1, <1>2, <1>3 DEF HistoryInv

\* A statement of p's transaction.
LEMMA WriteHistory ==
  ASSUME HistoryInv, NEW p \in Process, NEW tables, Write(p, tables), OthersSame(p),
         RowsInv(tables.rows), ProcessHistoryInv(p)'
  PROVE  HistoryInv'
<1>1. writer' = p /\ wdb' = tables /\ db' = db
  BY DEF Write
<1>2. ASSUME NEW q \in Process \ {p} PROVE ProcessHistoryInv(q)'
  BY <1>1, HistoryFrame DEF HistoryInv, OthersSame
<1>3. QED
  BY <1>1, <1>2 DEF HistoryInv

\* The end of p's transaction.
LEMMA CommitHistory ==
  ASSUME HistoryInv, NEW p \in Process, Commit(p), OthersSame(p), IdsMatch(wdb),
         ProcessHistoryInv(p)'
  PROVE  HistoryInv'
<1>1. db' = wdb /\ wdb' = wdb /\ writer' = None
  BY DEF Commit
<1>2. ASSUME NEW q \in Process \ {p} PROVE ProcessHistoryInv(q)'
  BY <1>1, HistoryFrame, NobodyAssumption DEF HistoryInv, OthersSame
<1>3. QED
  BY <1>1, <1>2 DEF HistoryInv

\* A step of p that gives up what its transaction wrote, if it has one.
LEMMA RollbackHistory ==
  ASSUME IInv, HistoryInv, NEW p \in Process, Rollback(p), OthersSame(p),
         pc'[p] \in {"idle", "down"},
         chain'[p][0] # None => chain'[p][0].merkle_root = None
  PROVE  HistoryInv'
<1>1. /\ db' = db /\ writer' # p
      /\ \A q \in Process \ {p} :
            (writer = q => writer' = q /\ wdb' = wdb) /\ (writer' = q => writer = q)
  BY RollbackFacts
<1>2. wdb' = db \/ wdb' = wdb
  BY DEF Rollback
<1>3. RowsInv(db.rows)' /\ RowsInv(wdb.rows)' /\ IdsMatch(db)'
  BY <1>1, <1>2 DEF HistoryInv
<1>4. ASSUME NEW q \in Process \ {p} PROVE ProcessHistoryInv(q)'
  BY <1>1, HistoryFrame DEF HistoryInv, OthersSame
<1>5. ProcessHistoryInv(p)'
  BY <1>1 DEF ProcessHistoryInv, Staging
<1>6. QED
  BY <1>3, <1>4, <1>5 DEF HistoryInv

-----------------------------------------------------------------------------
(* Steps that write nothing, and failures.                                   *)

\* An empty file has no rows and no ids.
LEMMA InitHistory == Init => HistoryInv
<1> SUFFICES ASSUME Init PROVE HistoryInv
  OBVIOUS
<1>1. 0 \in Index
  BY MaxBlocksAssumption DEF Index
<1>2. db = EmptyTables /\ wdb = EmptyTables /\ writer = None
  BY DEF Init
<1>3. EmptyTables.rows = NoChain /\ Present(NoChain) = {}
  BY NoChainFacts DEF EmptyTables
<1>4. IdsMatch(EmptyTables)
  BY <1>3 DEF IdsMatch, BlocksNaming, EmptyTables
<1>5. RowsInv(EmptyTables.rows)
  BY <1>1, <1>3 DEF RowsInv, NoChain
<1>6. ASSUME NEW p \in Process PROVE ProcessHistoryInv(p)
  BY <1>1, <1>2, NobodyAssumption DEF Init, ProcessHistoryInv, NoChain, Staging
<1>7. QED
  BY <1>2, <1>4, <1>5, <1>6 DEF HistoryInv

\* A raised call leaves the chain as it was.
LEMMA RaiseHistory ==
  ASSUME IInv, HistoryInv, NEW p \in Process, Raise(p)
  PROVE  HistoryInv'
<1>1. /\ pc' = [pc EXCEPT ![p] = "idle"] /\ call' = [call EXCEPT ![p] = NoCall]
      /\ chain' = chain /\ state' = state /\ Rollback(p)
  BY DEF Raise, Return, Goto, memVars
<1>2. OthersSame(p) /\ pc'[p] = "idle"
  BY <1>1 DEF OthersSame, IInv, TypeOK
<1>3. chain'[p][0] # None => chain'[p][0].merkle_root = None
  BY <1>1 DEF HistoryInv, ProcessHistoryInv
<1>4. QED
  BY <1>1, <1>2, <1>3, RollbackHistory

\* A process that stops has no chain.
LEMMA StopHistory ==
  ASSUME IInv, HistoryInv, NEW p \in Process, Stop(p)
  PROVE  HistoryInv'
<1>1. /\ pc' = [pc EXCEPT ![p] = "down"] /\ call' = [call EXCEPT ![p] = NoCall]
      /\ chain' = [chain EXCEPT ![p] = NoChain]
      /\ state' = [state EXCEPT ![p] = EmptyState] /\ Rollback(p)
  BY DEF Stop, Goto
<1>2. OthersSame(p) /\ pc'[p] = "down" /\ chain'[p] = NoChain
  BY <1>1 DEF OthersSame, IInv, TypeOK
<1>3. chain'[p][0] # None => chain'[p][0].merkle_root = None
  BY <1>2, MaxBlocksAssumption DEF NoChain, Index
<1>4. QED
  BY <1>1, <1>2, <1>3, RollbackHistory

\* A new chain has a genesis without transactions, and a loaded one that of
\* the file.
LEMMA LoadHistory ==
  ASSUME IInv, HistoryInv, NEW p \in Process, StartEmpty(p) \/ LoadBlocks(p)
  PROVE  HistoryInv'
<1>1. /\ UNCHANGED dbVars /\ call' = call /\ pc[p] \in {"down", "idle"}
      /\ pc' \in {[pc EXCEPT ![p] = "idle"], [pc EXCEPT ![p] = "load_state"]}
  BY DEF StartEmpty, LoadBlocks, Goto, dbVars
<1>2. /\ \E c : chain' = [chain EXCEPT ![p] = c]
      /\ state' = [state EXCEPT ![p] = EmptyState]
  BY DEF StartEmpty, LoadBlocks
<1>3. OthersSame(p) /\ pc'[p] \in {"idle", "load_state"}
  BY <1>1, <1>2 DEF OthersSame, IInv, TypeOK
<1>4. 0 \in Index
  BY MaxBlocksAssumption DEF Index
<1>5. CASE StartEmpty(p)
  <2>1. PICK ts \in Timestamp : chain' = [chain EXCEPT ![p] = NewChain(ts)]
    BY <1>5 DEF StartEmpty
  <2>2. chain'[p] = NewChain(ts)
    BY <2>1 DEF IInv, TypeOK
  <2>3. chain'[p][0].merkle_root = None
    BY <1>4, <2>2 DEF NewChain, Create, MerkleRoot
  <2>4. QED
    BY <1>1, <1>3, <2>3, LocalHistory DEF Staging
<1>6. CASE LoadBlocks(p)
  <2>1. chain'[p] = [i \in Index |->
                        IF db.rows[i] = None THEN None ELSE FromPersisted(db.rows[i])]
    BY <1>6 DEF LoadBlocks, IInv, TypeOK
  <2>2. chain'[p][0] # None => db.rows[0] # None /\ chain'[p][0] = FromPersisted(db.rows[0])
    BY <1>4, <2>1
  <2>3. db.rows[0] # None => db.rows[0] \in Blocks /\ db.rows[0].merkle_root = None
    BY <1>4 DEF IInv, TypeOK, Tables, Chains, HistoryInv, RowsInv
  <2>4. chain'[p][0] # None => chain'[p][0].merkle_root = None
    BY <2>2, <2>3, FromPersistedFacts
  <2>5. QED
    BY <1>1, <1>3, <2>4, LocalHistory DEF Staging
<1>7. QED
  BY <1>5, <1>6

\* Steps that neither write nor change the chain, and prepare no block.
LEMMA QuietHistory ==
  ASSUME IInv, HistoryInv, NEW p \in Process,
         LoadState(p) \/ LoadIds(p) \/ StageTransaction(p)
  PROVE  HistoryInv'
<1>1. /\ UNCHANGED dbVars /\ chain' = chain
      /\ pc[p] \in {"load_state", "load_ids", "stage"}
      /\ \E l \in {"idle", "load_ids", "stage"} : pc' = [pc EXCEPT ![p] = l]
  <2>1. CASE StageTransaction(p)
    <3>1. pc' = [pc EXCEPT ![p] = "stage"]
      BY <2>1 DEF StageTransaction, IInv, TypeOK
    <3>2. QED
      BY <2>1, <3>1 DEF StageTransaction, dbVars
  <2>2. CASE LoadState(p)
    BY <2>2 DEF LoadState, Goto, dbVars
  <2>3. CASE LoadIds(p)
    BY <2>3 DEF LoadIds, Goto, dbVars
  <2>4. QED
    BY <2>1, <2>2, <2>3
<1>2. \A q \in Process \ {p} : state'[q] = state[q] /\ call'[q] = call[q]
  <2>1. state \in [Process -> States] /\ call \in [Process -> Calls]
    BY DEF IInv, TypeOK
  <2>2. CASE LoadState(p)
    BY <2>1, <2>2 DEF LoadState
  <2>3. CASE LoadIds(p)
    BY <2>1, <2>3 DEF LoadIds
  <2>4. CASE StageTransaction(p)
    BY <2>1, <2>4 DEF StageTransaction
  <2>5. QED
    BY <2>2, <2>3, <2>4
<1>3. OthersSame(p) /\ pc'[p] \in {"idle", "load_ids", "stage"}
  BY <1>1, <1>2 DEF OthersSame, IInv, TypeOK
<1>4. chain'[p][0] # None => chain'[p][0].merkle_root = None
  BY <1>1 DEF HistoryInv, ProcessHistoryInv
<1>5. QED
  BY <1>1, <1>3, <1>4, LocalHistory DEF Staging

LEMMA BeginAddHistory ==
  ASSUME IInv, HistoryInv, NEW p \in Process, NEW batch \in Batch, BeginAdd(p, batch)
  PROVE  HistoryInv'
<1>1. /\ UNCHANGED dbVars /\ chain' = chain
      /\ pc[p] = "idle" /\ pc' = [pc EXCEPT ![p] = "stage"]
  BY DEF BeginAdd, Goto, dbVars
<1>2. \A q \in Process \ {p} : state'[q] = state[q] /\ call'[q] = call[q]
  BY DEF BeginAdd, IInv, TypeOK
<1>3. OthersSame(p) /\ pc'[p] = "stage"
  BY <1>1, <1>2 DEF OthersSame, IInv, TypeOK
<1>4. chain'[p][0] # None => chain'[p][0].merkle_root = None
  BY <1>1 DEF HistoryInv, ProcessHistoryInv
<1>5. QED
  BY <1>1, <1>3, <1>4, LocalHistory DEF Staging

\* The prepared block commits to the batch.
LEMMA CreateBlockHistory ==
  ASSUME IInv, HistoryInv, NEW p \in Process, CreateBlock(p)
  PROVE  HistoryInv'
<1>1. PICK ts \in Timestamp :
         call' = [call EXCEPT ![p].block = NextBlock(chain[p], call[p].batch, ts)]
  BY DEF CreateBlock
<1>2. /\ pc' = [pc EXCEPT ![p] = "ensure"] /\ chain' = chain /\ state' = state
      /\ UNCHANGED dbVars /\ pc[p] = "stage"
  BY DEF CreateBlock, Staged, Goto, dbVars
<1>3. OthersSame(p) /\ pc'[p] = "ensure"
  BY <1>1, <1>2 DEF OthersSame, IInv, TypeOK
<1>4. call'[p].block.merkle_root = MerkleRoot(call'[p].batch)
  <2>1. call'[p] = [call[p] EXCEPT !.block = NextBlock(chain[p], call[p].batch, ts)]
    BY <1>1 DEF IInv, TypeOK
  <2>2. call[p] \in Calls
    BY DEF IInv, TypeOK
  <2>3. /\ call'[p].block = NextBlock(chain[p], call[p].batch, ts)
        /\ call'[p].batch = call[p].batch
    BY <2>1, <2>2 DEF Calls
  <2>4. QED
    BY <2>3 DEF NextBlock, Create
<1>5. chain'[p][0] # None => chain'[p][0].merkle_root = None
  BY <1>2 DEF HistoryInv, ProcessHistoryInv
<1>6. QED
  BY <1>2, <1>3, <1>4, <1>5, LocalHistory DEF Staging

\* The header check keeps the prepared block.
LEMMA EnsureHistory ==
  ASSUME IInv, HistoryInv, NEW p \in Process, EnsureEmpty(p) \/ EnsureMatch(p)
  PROVE  HistoryInv'
<1>1. /\ pc[p] = "ensure" /\ call' = call /\ chain' = chain /\ state' = state
      /\ UNCHANGED dbVars
      /\ pc' \in {[pc EXCEPT ![p] = "insert_genesis"], [pc EXCEPT ![p] = "insert_block"]}
  BY DEF EnsureEmpty, EnsureMatch, Goto, dbVars
<1>2. OthersSame(p) /\ pc'[p] \in {"insert_genesis", "insert_block"}
  BY <1>1 DEF OthersSame, IInv, TypeOK
<1>3. /\ call[p].block.merkle_root = MerkleRoot(call[p].batch)
      /\ chain[p][0] # None => chain[p][0].merkle_root = None
  BY <1>1 DEF HistoryInv, ProcessHistoryInv, Staging
<1>4. QED
  BY <1>1, <1>2, <1>3, LocalHistory

\* The new block is not a genesis.
LEMMA ApplyHistory ==
  ASSUME IInv, HistoryInv, NEW p \in Process, ApplyToChain(p)
  PROVE  HistoryInv'
<1> DEFINE added == AppendBlock(chain[p], call[p].block)
<1>1. /\ pc[p] = "apply" /\ pc' = [pc EXCEPT ![p] = "idle"]
      /\ call' = [call EXCEPT ![p] = NoCall] /\ chain' = [chain EXCEPT ![p] = added]
      /\ state' = [state EXCEPT ![p] = call[p].staged] /\ UNCHANGED dbVars
  BY DEF ApplyToChain, Return, Goto
<1>2. OthersSame(p) /\ pc'[p] = "idle" /\ chain'[p] = added
  BY <1>1 DEF OthersSame, IInv, TypeOK
<1>3. added[0] = chain[p][0]
  <2>1. 0 \in Index /\ call[p].block.index # 0
    BY <1>1, AddedFacts, MaxBlocksAssumption DEF Staging, Index
  <2>2. QED
    BY <2>1 DEF AppendBlock, IInv, TypeOK, Chains
<1>4. chain'[p][0] # None => chain'[p][0].merkle_root = None
  BY <1>2, <1>3 DEF HistoryInv, ProcessHistoryInv
<1>5. QED
  BY <1>1, <1>2, <1>4, LocalHistory DEF Staging

\* What is to be pruned is what is eligible.
LEMMA BeginPruneHistory ==
  ASSUME IInv, HistoryInv, NEW p \in Process, BeginPrune(p)
  PROVE  HistoryInv'
<1>1. /\ pc[p] = "idle" /\ pc' = [pc EXCEPT ![p] = "prune_rows"]
      /\ call' = [call EXCEPT ![p] = [NoCall EXCEPT !.todo = Eligible(chain[p])]]
      /\ chain' = chain /\ state' = state /\ UNCHANGED dbVars
  BY DEF BeginPrune, Goto, dbVars
<1>2. OthersSame(p) /\ pc'[p] = "prune_rows"
  BY <1>1 DEF OthersSame, IInv, TypeOK
<1>3. call'[p].todo = Eligible(chain[p])
  BY <1>1 DEF IInv, TypeOK, NoCall
<1>4. chain'[p][0] # None => chain'[p][0].merkle_root = None
  BY <1>1 DEF HistoryInv, ProcessHistoryInv
<1>5. QED
  BY <1>1, <1>2, <1>3, <1>4, LocalHistory DEF Staging

\* Pruning in memory keeps the roots.
LEMMA PruneChainHistory ==
  ASSUME IInv, HistoryInv, NEW p \in Process, PruneChain(p)
  PROVE  HistoryInv'
<1>1. /\ pc[p] = "prune_chain" /\ pc' = [pc EXCEPT ![p] = "idle"]
      /\ call' = [call EXCEPT ![p] = NoCall]
      /\ chain' = [chain EXCEPT ![p] = PruneBlocks(chain[p])]
      /\ state' = state /\ UNCHANGED dbVars
  BY DEF PruneChain, Return, Goto, dbVars
<1>2. OthersSame(p) /\ pc'[p] = "idle" /\ chain'[p] = PruneBlocks(chain[p])
  BY <1>1 DEF OthersSame, IInv, TypeOK
<1>3. 0 \in Index /\ chain[p] \in Chains
  BY MaxBlocksAssumption DEF Index, IInv, TypeOK
<1>4. chain'[p][0] # None => chain'[p][0].merkle_root = None
  <2>1. chain'[p][0] = IF 0 \in Eligible(chain[p]) THEN Prune(chain[p][0]) ELSE chain[p][0]
    BY <1>2, <1>3 DEF PruneBlocks
  <2>2. chain[p][0] # None => chain[p][0].merkle_root = None /\ chain[p][0] \in Blocks
    BY <1>3 DEF HistoryInv, ProcessHistoryInv, Chains
  <2>3. 0 \in Eligible(chain[p]) => chain[p][0] # None
    BY DEF Eligible, Present
  <2>4. QED
    BY <2>1, <2>2, <2>3, PruneFacts
<1>5. QED
  BY <1>1, <1>2, <1>4, LocalHistory DEF Staging

-----------------------------------------------------------------------------
(* Steps that write.                                                         *)

\* Only a block that has MaxFullBlocks blocks after it may be pruned.
LEMMA EligibleFacts ==
  ASSUME NEW c \in Chains, Contiguous(c), NEW i \in Eligible(c)
  PROVE  i \in Present(c) /\ i + MaxFullBlocks \in Present(c)
<1>1. i \in Present(c) /\ Position(c, i) < Cutoff(c)
  BY DEF Eligible
<1>2. PICK m \in Index : Present(c) = 0 .. m
  BY <1>1 DEF Contiguous
<1>3. m \in Nat /\ i \in Nat /\ i <= m
  BY <1>1, <1>2, MaxBlocksAssumption DEF Index
<1>4. {j \in Present(c) : j < i} = 0 .. i - 1
  BY <1>2, <1>3
<1>5. Position(c, i) = i
  <2>1. Cardinality(0 .. i - 1) = IF 0 > i - 1 THEN 0 ELSE i - 1 - 0 + 1
    BY <1>3, FS_Interval
  <2>2. Position(c, i) = Cardinality(0 .. i - 1)
    BY <1>4 DEF Position
  <2>3. QED
    BY <1>3, <2>1, <2>2
<1>6. ChainLen(c) = m + 1
  <2>1. Cardinality(0 .. m) = IF 0 > m THEN 0 ELSE m - 0 + 1
    BY <1>3, FS_Interval
  <2>2. QED
    BY <1>2, <1>3, <2>1 DEF ChainLen
<1>7. i + MaxFullBlocks <= m /\ MaxFullBlocks \in Nat
  BY <1>1, <1>3, <1>5, <1>6, MaxFullBlocksAssumption DEF Cutoff
<1>8. QED
  BY <1>1, <1>2, <1>3, <1>7

\* The ids of the rows depend on their roots alone.
LEMMA SameNames ==
  ASSUME NEW rows, NEW other, Present(rows) = Present(other),
         \A i \in Present(rows) : rows[i].merkle_root = other[i].merkle_root
  PROVE  \A t \in TxId : BlocksNaming(rows, t) = BlocksNaming(other, t)
<1>1. \A i \in Present(rows) : BatchOf(rows[i]) = BatchOf(other[i])
  BY DEF BatchOf
<1>2. QED
  BY <1>1 DEF BlocksNaming

\* A row without transactions adds no id.
LEMMA InsertGenesisHistory ==
  ASSUME IInv, HistoryInv, NEW p \in Process, InsertGenesis(p)
  PROVE  HistoryInv'
<1> DEFINE g == chain[p][0]
           t == InsertRow(wdb, g)
<1>1. /\ pc[p] = "insert_genesis" /\ ~Conflict(wdb, g) /\ Write(p, t)
      /\ pc' = [pc EXCEPT ![p] = "insert_block"] /\ UNCHANGED <<chain, state, call>>
  BY DEF InsertGenesis, Goto
<1>2. writer' = p /\ wdb' = t /\ db' = db /\ writer \in {None, p}
  BY <1>1 DEF Write, MayWrite
<1>3. writer # p
  BY <1>1, WriterWrites
<1>4. wdb = db /\ wdb \in Tables /\ wdb.rows \in Chains /\ chain[p] \in Chains
  BY <1>2, <1>3 DEF IInv, TablesInv, TypeOK, Tables
<1>5. 0 \in Index
  BY MaxBlocksAssumption DEF Index
<1>6. g # None /\ g.index = 0 /\ g.merkle_root = None
  BY <1>1, <1>5 DEF IInv, ProcessInv, MemoryInv, WellFormed, ValidateChain, ValidBlock, Present,
                    HistoryInv, ProcessHistoryInv
<1>7. wdb.rows[0] = None
  BY <1>1, <1>6 DEF Conflict
<1>8. ~g.is_pruned
  BY <1>4, <1>5, <1>6, <1>7 DEF IInv, ProcessInv, MemoryInv, Present
<1>9. t.rows = [wdb.rows EXCEPT ![0] = g] /\ t.tids = wdb.tids
  BY <1>4, <1>6 DEF InsertRow, Tables
<1> HIDE DEF t, g
<1>10. /\ t.rows[0] = g /\ \A i \in Present(wdb.rows) : t.rows[i] = wdb.rows[i] /\ i # 0
       /\ Present(t.rows) = Present(wdb.rows) \cup {0}
  BY <1>4, <1>5, <1>6, <1>7, <1>9 DEF Present, Chains
<1>11. \A x \in TxId : BlocksNaming(t.rows, x) = BlocksNaming(wdb.rows, x)
  <2>1. TxIds(BatchOf(g)) = {}
    BY <1>6 DEF TxIds, BatchOf
  <2>2. QED
    BY <1>10, <2>1 DEF BlocksNaming
<1>12. IdsMatch(t)
  BY <1>4, <1>9, <1>11 DEF IdsMatch, HistoryInv
<1>13. RowsInv(t.rows)
  BY <1>6, <1>8, <1>10 DEF RowsInv, HistoryInv
<1>14. OthersSame(p) /\ pc'[p] = "insert_block"
  BY <1>1 DEF OthersSame, IInv, TypeOK
<1>15. ProcessHistoryInv(p)'
  BY <1>1, <1>2, <1>12, <1>14 DEF HistoryInv, ProcessHistoryInv, OpenIdsInv, Staging
<1>16. QED
  BY <1>1, <1>13, <1>14, <1>15, WriteHistory

\* The tables before the INSERT of a block are those without its row.
LEMMA InsertBlockHistory ==
  ASSUME IInv, HistoryInv, NEW p \in Process, InsertBlock(p)
  PROVE  HistoryInv'
<1> DEFINE b == call[p].block
           t == InsertRow(wdb, b)
<1>1. /\ pc[p] = "insert_block" /\ ~Conflict(wdb, b) /\ Write(p, t)
      /\ pc' = [pc EXCEPT ![p] = "upsert"] /\ UNCHANGED <<chain, state, call>>
  BY DEF InsertBlock, Goto
<1>2. writer' = p /\ wdb' = t /\ db' = db /\ writer \in {None, p}
  BY <1>1 DEF Write, MayWrite
<1>3. wdb \in Tables /\ wdb.rows \in Chains
  BY DEF IInv, TypeOK, Tables
<1>4. IdsMatch(wdb)
  <2>1. CASE writer = p
    BY <1>1, <2>1 DEF HistoryInv, ProcessHistoryInv, OpenIdsInv
  <2>2. CASE writer = None
    BY <2>2 DEF IInv, TablesInv, HistoryInv
  <2>3. QED
    BY <1>2, <2>1, <2>2
<1>5. b \in Blocks /\ ~b.is_pruned /\ b.index # 0 /\ b.index \in Index /\ b # None
  BY <1>1, AddedFacts DEF Staging
<1>6. wdb.rows[b.index] = None
  BY <1>1 DEF Conflict
<1>7. t.rows = [wdb.rows EXCEPT ![b.index] = b] /\ t.tids = wdb.tids /\ t.balances = wdb.balances
      /\ t = [rows |-> t.rows, balances |-> wdb.balances, tids |-> wdb.tids]
  BY <1>3 DEF InsertRow, Tables
<1> HIDE DEF t, b
<1>8. /\ t.rows[b.index] = b /\ 0 \in Index /\ t.rows[0] = wdb.rows[0]
      /\ \A i \in Present(wdb.rows) : t.rows[i] = wdb.rows[i] /\ i # b.index
      /\ Present(t.rows) = Present(wdb.rows) \cup {b.index}
  BY <1>3, <1>5, <1>6, <1>7, MaxBlocksAssumption DEF Present, Chains, Index
<1>9. RowsInv(t.rows)
  BY <1>5, <1>8 DEF RowsInv, HistoryInv
<1>10. IdsMatch(WithoutRow(t, b.index))
  <2>1. [t.rows EXCEPT ![b.index] = None] = wdb.rows
    BY <1>3, <1>5, <1>6, <1>7 DEF Chains
  <2>2. WithoutRow(t, b.index).rows = wdb.rows /\ WithoutRow(t, b.index).tids = wdb.tids
    BY <1>7, <2>1 DEF WithoutRow
  <2>3. QED
    BY <1>4, <2>2 DEF IdsMatch
<1>11. OthersSame(p) /\ pc'[p] = "upsert"
  BY <1>1 DEF OthersSame, IInv, TypeOK
<1>12. OpenIdsInv(p)'
  BY <1>1, <1>2, <1>8, <1>10, <1>11 DEF OpenIdsInv, b
<1>13. ProcessHistoryInv(p)'
  BY <1>1, <1>11, <1>12 DEF HistoryInv, ProcessHistoryInv, Staging
<1>14. QED
  BY <1>1, <1>9, <1>11, <1>13, WriteHistory

\* The balances are no concern of the ids.
LEMMA UpsertHistory ==
  ASSUME IInv, HistoryInv, NEW p \in Process, UpsertBalances(p)
  PROVE  HistoryInv'
<1> DEFINE t == Upsert(wdb, Accounts(call[p].batch), call[p].staged.current_state)
           i == call[p].block.index
<1>1. /\ pc[p] = "upsert" /\ Write(p, t)
      /\ pc' = [pc EXCEPT ![p] = "insert_ids"] /\ UNCHANGED <<chain, state, call>>
  BY DEF UpsertBalances, Goto
<1>2. writer' = p /\ wdb' = t /\ db' = db
  BY <1>1 DEF Write
<1>3. writer = p
  BY <1>1 DEF IInv, ProcessInv, AddInv
<1>4. wdb \in Tables
  BY DEF IInv, TypeOK
<1>5. /\ t.rows = wdb.rows /\ t.tids = wdb.tids
      /\ t = [rows |-> wdb.rows, tids |-> wdb.tids, balances |-> t.balances]
  BY <1>4 DEF Upsert, Tables
<1> HIDE DEF t, i
<1>6. /\ WithoutRow(t, i).rows = WithoutRow(wdb, i).rows
      /\ WithoutRow(t, i).tids = WithoutRow(wdb, i).tids
  BY <1>4, <1>5 DEF WithoutRow, Tables
<1>7. wdb.rows[i] = call[p].block /\ IdsMatch(WithoutRow(wdb, i))
  BY <1>1, <1>3 DEF HistoryInv, ProcessHistoryInv, OpenIdsInv, i
<1>8. IdsMatch(WithoutRow(t, i))
  BY <1>6, <1>7 DEF IdsMatch
<1>9. OthersSame(p) /\ pc'[p] = "insert_ids"
  BY <1>1 DEF OthersSame, IInv, TypeOK
<1>10. OpenIdsInv(p)'
  BY <1>1, <1>2, <1>5, <1>7, <1>8, <1>9 DEF OpenIdsInv, i
<1>11. ProcessHistoryInv(p)'
  BY <1>1, <1>9, <1>10 DEF HistoryInv, ProcessHistoryInv, Staging
<1>12. RowsInv(t.rows)
  BY <1>5 DEF HistoryInv
<1>13. QED
  BY <1>1, <1>9, <1>11, <1>12, WriteHistory

\* Ids that no earlier row names get the index of the last row.
LEMMA InsertTxIdsHistory ==
  ASSUME IInv, HistoryInv, NEW p \in Process, InsertTxIds(p)
  PROVE  HistoryInv'
<1> DEFINE ids == TxIds(call[p].batch)
           b   == call[p].block
           k   == b.index
           t   == InsertIds(wdb, ids, k)
           w   == WithoutRow(wdb, k)
<1>1. /\ pc[p] = "insert_ids" /\ Write(p, t)
      /\ pc' = [pc EXCEPT ![p] = "commit_add"] /\ UNCHANGED <<chain, state, call>>
  BY DEF InsertTxIds, Goto
<1>2. writer' = p /\ wdb' = t /\ db' = db
  BY <1>1 DEF Write
<1>3. writer = p /\ Headers(wdb.rows) = Headers(AppendBlock(chain[p], b))
  BY <1>1 DEF IInv, ProcessInv, AddInv
<1>4. /\ wdb \in Tables /\ wdb.rows \in Chains /\ call[p] \in Calls
      /\ wdb.tids \in [TxId -> Index \cup {None}]
  BY DEF IInv, TypeOK, Tables
<1>5. /\ AppendBlock(chain[p], b) \in Chains /\ Present(AppendBlock(chain[p], b)) = 0 .. k
      /\ k \in Index /\ b # None
  BY <1>1, AddedFacts DEF Staging
<1>6. Present(wdb.rows) = 0 .. k /\ k \in Nat /\ k # None
  BY <1>3, <1>4, <1>5, HeadersEqual, MaxBlocksAssumption, NoneAssumption DEF Index
<1>7. wdb.rows[k] = b /\ IdsMatch(w) /\ b.merkle_root = MerkleRoot(call[p].batch)
  BY <1>1, <1>3 DEF HistoryInv, ProcessHistoryInv, OpenIdsInv, Staging
<1>8. TxIds(BatchOf(b)) = ids /\ ids \subseteq TxId
  <2>1. call[p].batch \in Batch /\ call[p].batch # None
    BY <1>4, BatchAssumption DEF Calls
  <2>2. BatchOf(b) = call[p].batch
    BY <1>7, <2>1 DEF BatchOf, MerkleRoot
  <2>3. QED
    BY <1>1, <2>2, FullyStaged DEF Staging
<1>9. /\ t.rows = wdb.rows
      /\ t.tids = [x \in TxId |-> IF x \in ids /\ wdb.tids[x] = None THEN k ELSE wdb.tids[x]]
  BY <1>4 DEF InsertIds, Tables
<1>10. w.rows = [wdb.rows EXCEPT ![k] = None] /\ w.tids = wdb.tids
  BY <1>4 DEF WithoutRow, Tables
<1> HIDE DEF t, k, b, ids, w
<1>11. Present(w.rows) = 0 .. k - 1 /\ \A i \in 0 .. k - 1 : w.rows[i] = wdb.rows[i]
  <2>1. \A i \in Index : w.rows[i] = IF i = k THEN None ELSE wdb.rows[i]
    BY <1>4, <1>5, <1>10 DEF Chains
  <2>2. Present(w.rows) = Present(wdb.rows) \ {k}
    BY <2>1 DEF Present
  <2>3. (0 .. k) \ {k} = 0 .. k - 1 /\ 0 .. k - 1 \subseteq Index /\ k \notin 0 .. k - 1
    BY <1>5, <1>6, MaxBlocksAssumption DEF Index
  <2>4. QED
    BY <1>6, <2>1, <2>2, <2>3
<1>12. \A x \in TxId : BlocksNaming(t.rows, x) =
          BlocksNaming(w.rows, x) \cup (IF x \in ids THEN {k} ELSE {})
  <2>1. 0 .. k = (0 .. k - 1) \cup {k} /\ k \notin 0 .. k - 1
    BY <1>6
  <2>2. QED
    BY <1>6, <1>7, <1>8, <1>9, <1>11, <2>1 DEF BlocksNaming
<1>13. IdsMatch(t)
  <2> SUFFICES ASSUME NEW x \in TxId
               PROVE  IF BlocksNaming(t.rows, x) = {} THEN t.tids[x] = None
                      ELSE /\ t.tids[x] \in BlocksNaming(t.rows, x)
                           /\ \A i \in BlocksNaming(t.rows, x) : t.tids[x] <= i
    BY DEF IdsMatch
  <2>1. IF BlocksNaming(w.rows, x) = {} THEN wdb.tids[x] = None
        ELSE /\ wdb.tids[x] \in BlocksNaming(w.rows, x)
             /\ \A i \in BlocksNaming(w.rows, x) : wdb.tids[x] <= i
    BY <1>7, <1>10 DEF IdsMatch
  <2>2. BlocksNaming(w.rows, x) \subseteq 0 .. k - 1
    BY <1>11 DEF BlocksNaming
  <2>3. CASE BlocksNaming(w.rows, x) = {}
    BY <1>6, <1>9, <1>12, <2>1, <2>3
  <2>4. CASE BlocksNaming(w.rows, x) # {}
    <3>1. wdb.tids[x] \in BlocksNaming(w.rows, x) /\ wdb.tids[x] \in 0 .. k - 1
      BY <2>1, <2>2, <2>4
    <3>2. wdb.tids[x] # None /\ t.tids[x] = wdb.tids[x]
      BY <1>9, <3>1, NoneAssumption
    <3>3. \A i \in BlocksNaming(t.rows, x) : t.tids[x] <= i
      BY <1>6, <1>12, <2>1, <2>4, <3>1, <3>2
    <3>4. QED
      BY <1>12, <3>1, <3>2, <3>3
  <2>5. QED
    BY <2>3, <2>4
<1>14. OthersSame(p) /\ pc'[p] = "commit_add"
  BY <1>1 DEF OthersSame, IInv, TypeOK
<1>15. OpenIdsInv(p)'
  BY <1>2, <1>13, <1>14 DEF OpenIdsInv
<1>16. ProcessHistoryInv(p)'
  BY <1>1, <1>14, <1>15 DEF HistoryInv, ProcessHistoryInv, Staging
<1>17. RowsInv(t.rows)
  BY <1>9 DEF HistoryInv
<1>18. QED
  BY <1>1, <1>14, <1>16, <1>17, WriteHistory

\* What is committed is what the transaction built.
LEMMA CommitAddHistory ==
  ASSUME IInv, HistoryInv, NEW p \in Process, CommitAdd(p)
  PROVE  HistoryInv'
<1>1. /\ pc[p] = "commit_add" /\ Commit(p)
      /\ pc' = [pc EXCEPT ![p] = "apply"] /\ UNCHANGED <<chain, state, call>>
  BY DEF CommitAdd, Goto
<1>2. writer = p /\ writer' = None
  BY <1>1 DEF Commit
<1>3. IdsMatch(wdb)
  BY <1>1, <1>2 DEF HistoryInv, ProcessHistoryInv, OpenIdsInv
<1>4. OthersSame(p) /\ pc'[p] = "apply"
  BY <1>1 DEF OthersSame, IInv, TypeOK
<1>5. ProcessHistoryInv(p)'
  BY <1>1, <1>2, <1>4, NobodyAssumption DEF HistoryInv, ProcessHistoryInv, Staging
<1>6. QED
  BY <1>1, <1>3, <1>4, <1>5, CommitHistory

\* The row of a candidate has the window after it in the file too: the chain
\* the candidate comes from is a prefix of the file.
LEMMA PruneRowHistory ==
  ASSUME IInv, HistoryInv, NEW p \in Process, PruneRow(p)
  PROVE  HistoryInv'
<1>1. PICK i \in Candidates(p) :
         /\ wdb.rows[i] # None /\ Write(p, MarkPruned(wdb, i))
         /\ call' = [call EXCEPT ![p].todo = @ \ {i}]
  BY DEF PruneRow
<1> DEFINE t == MarkPruned(wdb, i)
<1>2. /\ pc[p] = "prune_rows" /\ pc' = pc /\ chain' = chain /\ state' = state
      /\ db' = db /\ wdb' = t /\ writer' = p /\ writer \in {None, p}
  BY <1>1 DEF PruneRow, Write, MayWrite
<1>3. /\ TypeOK /\ TablesInv /\ MemoryInv(p) /\ PruneInv(p) /\ chain[p] \in Chains
      /\ wdb \in Tables /\ wdb.rows \in Chains /\ db.rows \in Chains
  BY DEF IInv, ProcessInv, TypeOK, Tables
<1>4. i \in call[p].todo /\ i \in Eligible(chain[p]) /\ i \in Index
  BY <1>1, <1>2 DEF Candidates, HistoryInv, ProcessHistoryInv, Eligible, Present
<1>5. i + MaxFullBlocks \in Present(chain[p])
  BY <1>3, <1>4, EligibleFacts DEF MemoryInv, WellFormed
<1>6. Present(wdb.rows) = Present(db.rows) /\ IdsMatch(wdb)
  <2>1. CASE writer = p
    <3>1. Headers(wdb.rows) = Headers(db.rows)
      BY <1>2, <1>3, <2>1 DEF PruneInv
    <3>2. QED
      BY <1>2, <1>3, <2>1, <3>1, HeadersEqual DEF HistoryInv, ProcessHistoryInv, OpenIdsInv
  <2>2. CASE writer = None
    BY <1>3, <2>2 DEF TablesInv, HistoryInv
  <2>3. QED
    BY <1>2, <2>1, <2>2
<1>7. i + MaxFullBlocks \in Present(wdb.rows)
  <2>1. Present(chain[p]) # {0}
    BY <1>4, <1>5, MaxFullBlocksAssumption, MaxBlocksAssumption DEF Index
  <2>2. HeaderPrefix(chain[p], db.rows)
    BY <1>3, <2>1 DEF MemoryInv
  <2>3. QED
    BY <1>5, <1>6, <2>2 DEF HeaderPrefix, Present
<1>8. /\ Present(t.rows) = Present(wdb.rows) /\ t.tids = wdb.tids
      /\ \A j \in Index \ {i} : t.rows[j] = wdb.rows[j]
  BY <1>1, <1>3, <1>4, MarkPrunedFacts DEF TablesInv
<1>9. t.rows[i] = Prune(wdb.rows[i]) /\ wdb.rows[i] \in Blocks
  BY <1>1, <1>3, <1>4 DEF MarkPruned, Tables, Chains
<1> HIDE DEF t
<1>10. \A j \in Present(wdb.rows) : j \in Index /\ t.rows[j].merkle_root = wdb.rows[j].merkle_root
  BY <1>8, <1>9, PruneFacts DEF Present
<1>11. IdsMatch(t)
  <2>1. \A x \in TxId : BlocksNaming(t.rows, x) = BlocksNaming(wdb.rows, x)
    BY <1>8, <1>10, SameNames
  <2>2. QED
    BY <1>6, <1>8, <2>1 DEF IdsMatch
<1>12. RowsInv(t.rows)
  <2>1. RowsInv(wdb.rows) /\ 0 \in Index
    BY MaxBlocksAssumption DEF HistoryInv, Index
  <2>2. t.rows[0] # None => t.rows[0].merkle_root = None
    BY <1>8, <1>10, <2>1 DEF RowsInv, Present
  <2>3. \A j \in Present(t.rows) : t.rows[j].is_pruned => j + MaxFullBlocks \in Present(t.rows)
    BY <1>7, <1>8, <1>10, <2>1 DEF RowsInv
  <2>4. QED
    BY <2>2, <2>3 DEF RowsInv
<1>13. call'[p].todo \subseteq Eligible(chain[p])
  <2>1. call[p] \in Calls /\ call'[p] = [call[p] EXCEPT !.todo = @ \ {i}]
    BY <1>1, <1>3 DEF TypeOK
  <2>2. call'[p].todo = call[p].todo \ {i}
    BY <2>1 DEF Calls
  <2>3. QED
    BY <1>2, <2>2 DEF HistoryInv, ProcessHistoryInv
<1>14. OthersSame(p) /\ pc'[p] = "prune_rows"
  BY <1>1, <1>2, <1>3 DEF OthersSame, TypeOK
<1>15. ProcessHistoryInv(p)'
  BY <1>2, <1>11, <1>13, <1>14 DEF HistoryInv, ProcessHistoryInv, OpenIdsInv, Staging
<1>16. QED
  BY <1>1, <1>12, <1>14, <1>15, WriteHistory DEF t

\* Pruning commits the same ids.
LEMMA CommitPruneHistory ==
  ASSUME IInv, HistoryInv, NEW p \in Process, CommitPrune(p)
  PROVE  HistoryInv'
<1>1. /\ pc[p] = "prune_rows" /\ Commit(p)
      /\ pc' = [pc EXCEPT ![p] = "prune_chain"] /\ UNCHANGED <<chain, state, call>>
  BY DEF CommitPrune, Goto
<1>2. writer = p /\ writer' = None
  BY <1>1 DEF Commit
<1>3. IdsMatch(wdb)
  BY <1>1, <1>2 DEF HistoryInv, ProcessHistoryInv, OpenIdsInv
<1>4. OthersSame(p) /\ pc'[p] = "prune_chain"
  BY <1>1 DEF OthersSame, IInv, TypeOK
<1>5. ProcessHistoryInv(p)'
  BY <1>1, <1>2, <1>4, NobodyAssumption DEF HistoryInv, ProcessHistoryInv, Staging
<1>6. QED
  BY <1>1, <1>3, <1>4, <1>5, CommitHistory

-----------------------------------------------------------------------------
\* Every step keeps HistoryInv, given IInv.
LEMMA NextHistory == IInv /\ HistoryInv /\ [Next]_vars => HistoryInv'
<1> SUFFICES ASSUME IInv, HistoryInv, [Next]_vars PROVE HistoryInv'
  OBVIOUS
<1>1. CASE UNCHANGED vars
  <2>1. db' = db /\ wdb' = wdb /\ writer' = writer /\ pc' = pc /\ chain' = chain /\ call' = call
    BY <1>1 DEF vars
  <2>2. ASSUME NEW q \in Process PROVE ProcessHistoryInv(q)'
    BY <2>1, HistoryFrame DEF HistoryInv
  <2>3. QED
    BY <2>1, <2>2 DEF HistoryInv
<1>2. ASSUME NEW p \in Process, Call(p) PROVE HistoryInv'
  BY <1>2, LoadHistory, BeginAddHistory, BeginPruneHistory DEF Call
<1>3. ASSUME NEW p \in Process, Continue(p) PROVE HistoryInv'
  <2>1. CASE LoadState(p) \/ LoadIds(p) \/ StageTransaction(p)
    BY <2>1, QuietHistory
  <2>2. CASE CreateBlock(p) \/ EnsureEmpty(p) \/ EnsureMatch(p)
    BY <2>2, CreateBlockHistory, EnsureHistory
  <2>3. CASE InsertGenesis(p) \/ InsertBlock(p) \/ UpsertBalances(p) \/ InsertTxIds(p)
    BY <2>3, InsertGenesisHistory, InsertBlockHistory, UpsertHistory, InsertTxIdsHistory
  <2>4. CASE CommitAdd(p) \/ ApplyToChain(p)
    BY <2>4, CommitAddHistory, ApplyHistory
  <2>5. CASE PruneRow(p) \/ CommitPrune(p) \/ PruneChain(p)
    BY <2>5, PruneRowHistory, CommitPruneHistory, PruneChainHistory
  <2>6. CASE AddRaisesKeyError(p) \/ EnsureRaises(p) \/ InsertRaises(p)
               \/ PruneRowRaises(p) \/ BusyTimeout(p)
    BY <2>6, RaiseHistory DEF AddRaisesKeyError, EnsureRaises, InsertRaises,
                              PruneRowRaises, BusyTimeout
  <2>7. QED
    BY <1>3, <2>1, <2>2, <2>3, <2>4, <2>5, <2>6 DEF Continue
<1>4. ASSUME NEW p \in Process, Fail(p) PROVE HistoryInv'
  BY <1>4, RaiseHistory, StopHistory DEF Fail, SqlError, LoadRaises, Crash
<1>5. QED
  BY <1>1, <1>2, <1>3, <1>4 DEF Next

\* Ids and rows of the file fit together, and what is pruned is outside the
\* window, in every reachable state (chain_store.py:80-108, 117-143).
THEOREM HistoryInvariance == Spec => []HistoryInv
<1>1. Init => HistoryInv
  BY InitHistory
<1>2. IInv /\ HistoryInv /\ [Next]_vars => HistoryInv'
  BY NextHistory
<1>3. QED
  BY <1>1, <1>2, Invariance, PTL DEF Spec

\* Replay protection forgets nothing and invents nothing, across rollbacks and
\* crashes of any process (chain_store.py:3-8, 140-143).
THEOREM IdsAlwaysMatch == Spec => []IdsMatchBlocks
<1>1. HistoryInv => IdsMatchBlocks
  BY DEF HistoryInv, IdsMatchBlocks
<1>2. QED
  BY <1>1, HistoryInvariance, PTL

\* A process with a stale chain never prunes a body inside the retention window
\* of the file (chain_store.py:97-106).
THEOREM WindowAlwaysKept == Spec => []RecentBodiesKept
<1>1. ASSUME IInv, HistoryInv, NEW i \in Present(db.rows),
             Cardinality({j \in Present(db.rows) : j > i}) < MaxFullBlocks
      PROVE  ~db.rows[i].is_pruned /\ db.rows[i].body # None
  <2> DEFINE later == {j \in Present(db.rows) : j > i}
  <2>1. PICK m \in Index : Present(db.rows) = 0 .. m
    BY <1>1 DEF IInv, TablesInv, WellFormed, Contiguous
  <2>2. m \in Nat /\ i \in Nat /\ i <= m
    BY <1>1, <2>1, MaxBlocksAssumption DEF Index
  <2>3. later = i + 1 .. m
    BY <2>1, <2>2
  <2> HIDE DEF later
  <2>4. Cardinality(later) = m - i
    <3>1. Cardinality(i + 1 .. m) = IF i + 1 > m THEN 0 ELSE m - (i + 1) + 1
      BY <2>2, FS_Interval
    <3>2. QED
      BY <2>2, <2>3, <3>1
  <2>5. i + MaxFullBlocks \notin Present(db.rows)
    BY <1>1, <2>1, <2>2, <2>4, MaxFullBlocksAssumption DEF later
  <2>6. ~db.rows[i].is_pruned
    BY <1>1, <2>5 DEF HistoryInv, RowsInv
  <2>7. VerifyBody(db.rows[i])
    BY <1>1 DEF IInv, TablesInv, WellFormed, ValidateChain, ValidBlock
  <2>8. QED
    BY <2>6, <2>7 DEF VerifyBody
<1>2. IInv /\ HistoryInv => RecentBodiesKept
  BY <1>1 DEF RecentBodiesKept
<1>3. QED
  BY <1>2, Invariance, HistoryInvariance, PTL

\* The rows prune_chain marks are the blocks it prunes in memory: a chain with
\* anything to prune is a prefix of the file (chain_store.py:93-110).
THEOREM PruningCorresponds == Spec => []PruneCorresponds
<1>1. ASSUME IInv, NEW p \in Process, NEW i \in Eligible(chain[p])
      PROVE  db.rows[i] # None /\ db.rows[i].hash = chain[p][i].hash
  <2>1. chain[p] \in Chains /\ MemoryInv(p)
    BY <1>1 DEF IInv, TypeOK, ProcessInv
  <2>2. i \in Present(chain[p]) /\ i + MaxFullBlocks \in Present(chain[p])
    BY <2>1, EligibleFacts DEF MemoryInv, WellFormed
  <2>3. i \in Nat
    BY <2>2, MaxBlocksAssumption DEF Present, Index
  <2>4. Present(chain[p]) # {0}
    BY <2>2, <2>3, MaxFullBlocksAssumption
  <2>5. HeaderPrefix(chain[p], db.rows)
    BY <2>1, <2>4 DEF MemoryInv
  <2>6. QED
    BY <2>2, <2>5 DEF HeaderPrefix
<1>2. IInv => PruneCorresponds
  BY <1>1 DEF PruneCorresponds
<1>3. QED
  BY <1>2, Invariance, PTL

-----------------------------------------------------------------------------
(* EffectInv is an invariant of the store, next to IInv.                      *)

LEMMA EffectFrame ==
  ASSUME NEW q \in Process, ProcessEffect(q), state'[q] = state[q], call'[q] = call[q],
         pc'[q] = pc[q] \/ (pc[q] \in Staging \ {"stage"} /\ pc'[q] # "stage")
  PROVE  ProcessEffect(q)'
<1>1. StagedFirstUses(q)' = StagedFirstUses(q)
  BY DEF StagedFirstUses
<1>2. \A a \in Account : StagedCredits(q, a)' = StagedCredits(q, a)
  BY <1>1 DEF StagedCredits
<1>3. \A a \in Account : StagedBalance(q, a)' = StagedBalance(q, a)
  BY <1>2 DEF StagedBalance
<1>4. UnknownAccounts(q)' = UnknownAccounts(q)
  BY DEF UnknownAccounts
<1>5. QED
  BY <1>3, <1>4 DEF ProcessEffect

LEMMA OthersKeepEffect ==
  ASSUME EffectInv, NEW p \in Process, OthersSame(p), ProcessEffect(p)'
  PROVE  EffectInv'
<1>1. ASSUME NEW q \in Process \ {p} PROVE ProcessEffect(q)'
  <2>1. ProcessEffect(q)
    BY DEF EffectInv
  <2>2. pc'[q] = pc[q] /\ state'[q] = state[q] /\ call'[q] = call[q]
    BY DEF OthersSame
  <2>3. QED
    BY <2>1, <2>2, EffectFrame
<1>2. QED
  BY <1>1 DEF EffectInv

\* A step that leaves p outside add_block.
LEMMA OutsideEffect ==
  ASSUME EffectInv, NEW p \in Process, OthersSame(p), pc'[p] \notin Staging
  PROVE  EffectInv'
<1>1. ProcessEffect(p)'
  BY DEF ProcessEffect
<1>2. QED
  BY <1>1, OthersKeepEffect

\* A step of add_block behind CreateBlock changes neither memory nor call.
LEMMA WritingEffect ==
  ASSUME EffectInv, NEW p \in Process, OthersSame(p), pc[p] \in Staging \ {"stage"},
         pc'[p] # "stage", state'[p] = state[p], call'[p] = call[p]
  PROVE  EffectInv'
<1>1. ProcessEffect(p)
  BY DEF EffectInv
<1>2. ProcessEffect(p)'
  BY <1>1, EffectFrame
<1>3. QED
  BY <1>2, OthersKeepEffect

LEMMA InitEffect == Init => EffectInv
BY DEF Init, EffectInv, ProcessEffect, Staging

\* The steps after which p is outside add_block.
LEMMA LeavingEffect ==
  ASSUME IInv, EffectInv, NEW p \in Process,
         \/ StartEmpty(p) \/ LoadBlocks(p) \/ LoadState(p) \/ LoadIds(p)
         \/ ApplyToChain(p) \/ BeginPrune(p) \/ PruneRow(p) \/ CommitPrune(p)
         \/ PruneChain(p) \/ Raise(p) \/ Stop(p)
  PROVE  EffectInv'
<1>1. CASE StartEmpty(p) \/ LoadBlocks(p) \/ LoadState(p) \/ LoadIds(p)
  <2>1. /\ \E l \in {"idle", "load_state", "load_ids"} : pc' = [pc EXCEPT ![p] = l]
        /\ call' = call
    BY <1>1 DEF StartEmpty, LoadBlocks, LoadState, LoadIds, Goto
  <2>2. \A q \in Process \ {p} : chain'[q] = chain[q] /\ state'[q] = state[q]
    BY <1>1 DEF StartEmpty, LoadBlocks, LoadState, LoadIds, IInv, TypeOK
  <2>3. OthersSame(p) /\ pc'[p] \notin Staging
    BY <2>1, <2>2 DEF OthersSame, Staging, IInv, TypeOK
  <2>4. QED
    BY <2>3, OutsideEffect
<1>2. CASE ApplyToChain(p) \/ PruneChain(p) \/ Raise(p) \/ Stop(p)
  <2>1. /\ \E l \in {"idle", "down"} : pc' = [pc EXCEPT ![p] = l]
        /\ call' = [call EXCEPT ![p] = NoCall]
    BY <1>2 DEF ApplyToChain, PruneChain, Raise, Return, Stop, Goto
  <2>2. \A q \in Process \ {p} : chain'[q] = chain[q] /\ state'[q] = state[q]
    BY <1>2 DEF ApplyToChain, PruneChain, Raise, Stop, memVars, IInv, TypeOK
  <2>3. OthersSame(p) /\ pc'[p] \notin Staging
    BY <2>1, <2>2 DEF OthersSame, Staging, IInv, TypeOK
  <2>4. QED
    BY <2>3, OutsideEffect
<1>3. CASE BeginPrune(p) \/ CommitPrune(p)
  <2>1. /\ \E l \in {"prune_rows", "prune_chain"} : pc' = [pc EXCEPT ![p] = l]
        /\ chain' = chain /\ state' = state
    BY <1>3 DEF BeginPrune, CommitPrune, Goto
  <2>2. \A q \in Process \ {p} : call'[q] = call[q]
    BY <1>3 DEF BeginPrune, CommitPrune, IInv, TypeOK
  <2>3. OthersSame(p) /\ pc'[p] \notin Staging
    BY <2>1, <2>2 DEF OthersSame, Staging, IInv, TypeOK
  <2>4. QED
    BY <2>3, OutsideEffect
<1>4. CASE PruneRow(p)
  <2>1. pc[p] = "prune_rows" /\ pc' = pc /\ chain' = chain /\ state' = state
    BY <1>4 DEF PruneRow
  <2>2. \A q \in Process \ {p} : call'[q] = call[q]
    BY <1>4 DEF PruneRow, IInv, TypeOK
  <2>3. QED
    BY <2>1, <2>2, OutsideEffect DEF OthersSame, Staging
<1>5. QED
  BY <1>1, <1>2, <1>3, <1>4

\* Nothing is staged at first.
LEMMA BeginAddEffect ==
  ASSUME IInv, EffectInv, NEW p \in Process, NEW batch \in Batch, BeginAdd(p, batch)
  PROVE  EffectInv'
<1> DEFINE c == [NoCall EXCEPT !.batch = batch, !.staged = state[p]]
<1>1. /\ call' = [call EXCEPT ![p] = c] /\ pc' = [pc EXCEPT ![p] = "stage"]
      /\ chain' = chain /\ state' = state
  BY DEF BeginAdd, Goto
<1>2. c.next = 1 /\ c.staged = state[p]
  BY DEF NoCall
<1> HIDE DEF c
<1>3. OthersSame(p) /\ pc'[p] = "stage" /\ call'[p] = c
  BY <1>1 DEF OthersSame, IInv, TypeOK
<1>4. 1 .. c.next - 1 = {}
  BY <1>2
<1>5. \A a \in Account : StagedCredits(p, a)' = {}
  BY <1>3, <1>4 DEF StagedCredits, StagedFirstUses
<1>6. ProcessEffect(p)'
  BY <1>1, <1>2, <1>3, <1>5 DEF ProcessEffect, StagedBalance
<1>7. QED
  BY <1>3, <1>6, OthersKeepEffect

\* A staged transaction whose id is new credits its account once more.
LEMMA StageTransactionEffect ==
  ASSUME IInv, EffectInv, NEW p \in Process, StageTransaction(p)
  PROVE  EffectInv'
<1> DEFINE c  == call[p]
           n  == c.next
           tx == c.batch[n]
           bal == c.staged.current_state
           d  == [batch |-> c.batch, next |-> c.next + 1, block |-> c.block,
                  todo |-> c.todo, staged |-> ApplyTransaction(c.staged, tx)]
<1>1. /\ pc[p] = "stage" /\ n <= Len(c.batch)
      /\ pc' = pc /\ chain' = chain /\ state' = state
  BY DEF StageTransaction
<1>2. call' = [call EXCEPT ![p] = d]
  BY DEF StageTransaction, IInv, TypeOK, Calls
<1>3. /\ c \in Calls /\ c.batch \in Seq(Tx) /\ n \in 1 .. Len(c.batch) + 1
      /\ \A i \in DOMAIN c.batch : ValidTransaction(c.batch[i])
      /\ c.staged \in States /\ state[p] \in States
      /\ c.staged.applied_tx_ids
            = state[p].applied_tx_ids \cup {x.tx_id : x \in StagedTxs(p)}
  BY <1>1, BatchAssumption DEF IInv, TypeOK, Calls, ProcessInv, StagedInv, Staging
<1>4. n \in DOMAIN c.batch /\ n \in Nat /\ 1 <= n /\ tx \in Tx
  BY <1>1, <1>3
<1>5. \A i \in DOMAIN c.batch : /\ c.batch[i].account \in Account
                                /\ c.batch[i].tx_id \in TxId /\ c.batch[i].amount \in Int
  <2>1. \A i \in DOMAIN c.batch : c.batch[i] \in Tx
    BY <1>3
  <2>2. QED
    BY <1>3, <2>1, TxAssumption DEF ValidTransaction
<1>6. /\ d.batch = c.batch /\ d.next = n + 1
      /\ d.staged = ApplyTransaction(c.staged, tx)
  OBVIOUS
<1> HIDE DEF d
<1>7. OthersSame(p) /\ pc'[p] = "stage" /\ call'[p] = d /\ state'[p] = state[p]
  BY <1>1, <1>2 DEF OthersSame, IInv, TypeOK
<1>8. \A a \in Account : bal[a] = StagedBalance(p, a)
  BY <1>1 DEF EffectInv, ProcessEffect, Staging
<1>9. bal \in [Account -> Int \cup {None}]
  BY <1>3 DEF States, Balances
<1>10. 1 .. d.next - 1 = (1 .. n - 1) \cup {n} /\ n \notin 1 .. n - 1
  BY <1>4, <1>6
<1>11. 1 .. n - 1 \subseteq DOMAIN c.batch
  BY <1>3, <1>4
<1>12. StagedFirstUses(p)' =
          IF Replayed(c.staged, tx) THEN StagedFirstUses(p) ELSE StagedFirstUses(p) \cup {n}
  <2> DEFINE New(i) == /\ c.batch[i].tx_id \notin state[p].applied_tx_ids
                       /\ \A j \in 1 .. i - 1 : c.batch[j].tx_id # c.batch[i].tx_id
  <2>1. StagedFirstUses(p)' = {i \in 1 .. d.next - 1 : New(i)}
    BY <1>6, <1>7 DEF StagedFirstUses
  <2>2. StagedFirstUses(p) = {i \in 1 .. n - 1 : New(i)}
    BY DEF StagedFirstUses
  <2>3. Replayed(c.staged, tx) <=> ~New(n)
    BY <1>3 DEF Replayed, StagedTxs
  <2> HIDE DEF New
  <2>4. QED
    BY <1>10, <2>1, <2>2, <2>3
<1>13. StagedFirstUses(p) \subseteq 1 .. n - 1
  BY DEF StagedFirstUses
<1>14. ASSUME NEW a \in Account
       PROVE  d.staged.current_state[a] = StagedBalance(p, a)'
  <2> DEFINE K == StagedCredits(p, a)
             f == Amounts(c.batch)
             old == state[p].current_state[a]
  <2>1. StagedCredits(p, a)' = {i \in StagedFirstUses(p)' : c.batch[i].account = a}
    BY <1>6, <1>7 DEF StagedCredits
  <2>2. StagedBalance(p, a)' =
           IF StagedCredits(p, a)' = {} THEN old
           ELSE Credit(old, SumFunctionOnSet(f, StagedCredits(p, a)'))
    BY <1>6, <1>7 DEF StagedBalance
  <2>3. bal[a] = IF K = {} THEN old ELSE Credit(old, SumFunctionOnSet(f, K))
    BY <1>8 DEF StagedBalance
  <2>4. K \subseteq 1 .. n - 1 /\ n \notin K /\ IsFiniteSet(K)
    <3>1. K \subseteq 1 .. n - 1
      BY <1>13 DEF StagedCredits
    <3>2. IsFiniteSet(1 .. n - 1)
      BY <1>4, FS_Interval
    <3>3. QED
      BY <1>10, <3>1, <3>2, FS_Subset
  <2>5. old \in Int \cup {None}
    BY <1>3 DEF States, Balances
  <2>6. \A i \in K \cup {n} : f[i] \in Int
    BY <1>4, <1>5, <1>11, <2>4 DEF Amounts
  <2>7. f[n] = tx.amount
    BY <1>4 DEF Amounts
  <2>8. K = {i \in StagedFirstUses(p) : c.batch[i].account = a}
    BY DEF StagedCredits
  <2>9. CASE Replayed(c.staged, tx)
    <3>1. d.staged.current_state[a] = bal[a] /\ StagedCredits(p, a)' = K
      BY <1>6, <1>12, <2>1, <2>8, <2>9 DEF ApplyTransaction
    <3>2. QED
      BY <2>2, <2>3, <3>1
  <2>10. CASE ~Replayed(c.staged, tx) /\ tx.account # a
    <3>1. d.staged.current_state[a] = bal[a]
      BY <1>6, <1>9, <2>10 DEF ApplyTransaction
    <3>2. StagedCredits(p, a)' = K
      BY <1>12, <2>1, <2>8, <2>10
    <3>3. QED
      BY <2>2, <2>3, <3>1, <3>2
  <2>11. CASE ~Replayed(c.staged, tx) /\ tx.account = a
    <3>1. d.staged.current_state[a] = Credit(bal[a], tx.amount)
      BY <1>6, <1>9, <2>11 DEF ApplyTransaction
    <3>2. StagedCredits(p, a)' = K \cup {n}
      BY <1>12, <2>1, <2>8, <2>11
    <3> HIDE DEF K, f, old
    <3>3. SumFunctionOnSet(f, K \cup {n}) = f[n] + SumFunctionOnSet(f, K)
      BY <2>4, <2>6, SumAdd
    <3>4. SumFunctionOnSet(f, K) \in Int /\ f[n] \in Int
      BY <2>4, <2>6, SumType
    <3>5. K = {} => SumFunctionOnSet(f, K) = 0
      BY <2>4, SumUnfolds
    <3>6. Credit(bal[a], f[n]) = Credit(old, SumFunctionOnSet(f, K \cup {n}))
      BY <2>3, <2>5, <3>3, <3>4, <3>5, NoneAssumption DEF Credit
    <3>7. QED
      BY <2>2, <2>7, <3>1, <3>2, <3>6
  <2>12. QED
    BY <2>9, <2>10, <2>11
<1>15. ProcessEffect(p)'
  BY <1>7, <1>14 DEF ProcessEffect
<1>16. QED
  BY <1>7, <1>15, OthersKeepEffect

\* CreateBlock finds a balance for every account it looks up.
LEMMA CreateBlockEffect ==
  ASSUME IInv, EffectInv, NEW p \in Process, CreateBlock(p)
  PROVE  EffectInv'
<1>1. PICK ts \in Timestamp :
         call' = [call EXCEPT ![p].block = NextBlock(chain[p], call[p].batch, ts)]
  BY DEF CreateBlock
<1>2. /\ pc' = [pc EXCEPT ![p] = "ensure"] /\ chain' = chain /\ state' = state
      /\ pc[p] = "stage" /\ UnknownAccounts(p) = {}
  BY DEF CreateBlock, Staged, Goto
<1>3. OthersSame(p) /\ pc'[p] = "ensure" /\ state'[p] = state[p]
  BY <1>1, <1>2 DEF OthersSame, IInv, TypeOK
<1>4. /\ call'[p].batch = call[p].batch /\ call'[p].next = call[p].next
      /\ call'[p].staged = call[p].staged
  BY <1>1 DEF IInv, TypeOK, Calls
<1>5. UnknownAccounts(p)' = {}
  BY <1>2, <1>4 DEF UnknownAccounts
<1>6. \A a \in Account : StagedBalance(p, a)' = StagedBalance(p, a)
  <2>1. StagedFirstUses(p)' = StagedFirstUses(p)
    BY <1>3, <1>4 DEF StagedFirstUses
  <2>2. \A a \in Account : StagedCredits(p, a)' = StagedCredits(p, a)
    BY <1>4, <2>1 DEF StagedCredits
  <2>3. QED
    BY <1>3, <1>4, <2>2 DEF StagedBalance
<1>7. \A a \in Account : call[p].staged.current_state[a] = StagedBalance(p, a)
  BY <1>2 DEF EffectInv, ProcessEffect, Staging
<1>8. ProcessEffect(p)'
  BY <1>4, <1>5, <1>6, <1>7 DEF ProcessEffect
<1>9. QED
  BY <1>3, <1>8, OthersKeepEffect

\* The steps that check, write and commit the prepared block.
LEMMA PersistEffect ==
  ASSUME IInv, EffectInv, NEW p \in Process,
         \/ EnsureEmpty(p) \/ EnsureMatch(p) \/ InsertGenesis(p) \/ InsertBlock(p)
         \/ UpsertBalances(p) \/ InsertTxIds(p) \/ CommitAdd(p)
  PROVE  EffectInv'
<1>1. /\ pc[p] \in Staging \ {"stage"} /\ UNCHANGED <<chain, state, call>>
      /\ \E l \in Staging \ {"stage"} : pc' = [pc EXCEPT ![p] = l]
  BY DEF EnsureEmpty, EnsureMatch, InsertGenesis, InsertBlock, UpsertBalances,
         InsertTxIds, CommitAdd, Goto, Staging
<1>2. OthersSame(p) /\ pc'[p] # "stage"
  BY <1>1 DEF OthersSame, IInv, TypeOK
<1>3. QED
  BY <1>1, <1>2, WritingEffect

LEMMA NextEffect == IInv /\ EffectInv /\ [Next]_vars => EffectInv'
<1> SUFFICES ASSUME IInv, EffectInv, [Next]_vars PROVE EffectInv'
  OBVIOUS
<1>1. CASE UNCHANGED vars
  <2>1. pc' = pc /\ state' = state /\ call' = call
    BY <1>1 DEF vars
  <2>2. QED
    BY <2>1, EffectFrame DEF EffectInv
<1>2. ASSUME NEW p \in Process, Call(p) PROVE EffectInv'
  BY <1>2, LeavingEffect, BeginAddEffect DEF Call
<1>3. ASSUME NEW p \in Process, Continue(p) PROVE EffectInv'
  <2>1. CASE StageTransaction(p) \/ CreateBlock(p)
    BY <2>1, StageTransactionEffect, CreateBlockEffect
  <2>2. CASE \/ EnsureEmpty(p) \/ EnsureMatch(p) \/ InsertGenesis(p) \/ InsertBlock(p)
             \/ UpsertBalances(p) \/ InsertTxIds(p) \/ CommitAdd(p)
    BY <2>2, PersistEffect
  <2>3. CASE \/ LoadState(p) \/ LoadIds(p) \/ ApplyToChain(p)
             \/ PruneRow(p) \/ CommitPrune(p) \/ PruneChain(p)
    BY <2>3, LeavingEffect
  <2>4. CASE AddRaisesKeyError(p) \/ EnsureRaises(p) \/ InsertRaises(p)
               \/ PruneRowRaises(p) \/ BusyTimeout(p)
    BY <2>4, LeavingEffect DEF AddRaisesKeyError, EnsureRaises, InsertRaises,
                               PruneRowRaises, BusyTimeout
  <2>5. QED
    BY <1>3, <2>1, <2>2, <2>3, <2>4 DEF Continue
<1>4. ASSUME NEW p \in Process, Fail(p) PROVE EffectInv'
  BY <1>4, LeavingEffect DEF Fail, SqlError, LoadRaises, Crash
<1>5. QED
  BY <1>1, <1>2, <1>3, <1>4 DEF Next

\* Staging a batch credits each of its new ids exactly once, to the balances
\* the process had when it began (state_delta.py:49-65, chain.py:40-66).
THEOREM EffectInvariance == Spec => []EffectInv
<1>1. Init => EffectInv
  BY InitEffect
<1>2. IInv /\ EffectInv /\ [Next]_vars => EffectInv'
  BY NextEffect
<1>3. QED
  BY <1>1, <1>2, Invariance, PTL DEF Spec

-----------------------------------------------------------------------------
(* The refinement.                                                            *)

LEMMA AppendedLast ==
  ASSUME NEW S, NEW s \in Seq(S), NEW t \in Seq(S), NEW x \in S, NEW y \in S,
         Append(s, x) = Append(t, y)
  PROVE  x = y
<1>1. /\ Append(s, x)[Len(Append(s, x))] = x
      /\ Append(t, y)[Len(Append(t, y))] = y
  OBVIOUS
<1>2. QED
  BY <1>1

\* Blocks with one hash have one Merkle root.
LEMMA HashFixesRoot ==
  ASSUME NEW c \in Chains, NEW d \in Chains, NEW i \in Index,
         i \in Present(c), i \in Present(d), ValidBlock(c, i), ValidBlock(d, i),
         c[i].hash = d[i].hash
  PROVE  c[i].merkle_root = d[i].merkle_root
<1> DEFINE Header(b) == [index |-> i, merkle_root |-> b.merkle_root, timestamp |-> b.timestamp]
<1>1. c[i] \in Blocks /\ d[i] \in Blocks
  BY PresentFacts
<1>2. c[i].prev_hash \in Hash /\ d[i].prev_hash \in Hash
  BY <1>1 DEF Blocks
<1>3. ASSUME NEW b \in {c[i], d[i]} PROVE Header(b) \in [index : Index, merkle_root : Root, timestamp : Timestamp]
  BY <1>1, <1>3 DEF Blocks
<1>4. /\ c[i].hash = Append(c[i].prev_hash, Header(c[i]))
      /\ d[i].hash = Append(d[i].prev_hash, Header(d[i]))
  BY DEF ValidBlock, ComputeHash
<1>5. Header(c[i]) = Header(d[i])
  <2> DEFINE H == [index : Index, merkle_root : Root, timestamp : Timestamp]
  <2>1. /\ c[i].prev_hash \in Seq(H) /\ d[i].prev_hash \in Seq(H)
        /\ Header(c[i]) \in H /\ Header(d[i]) \in H
    BY <1>2, <1>3 DEF Hash
  <2> HIDE DEF Header, H
  <2>2. QED
    BY <1>4, <2>1, AppendedLast
<1>6. QED
  BY <1>5

\* The log of a file with m blocks behind its genesis.
LEMMA LogIs ==
  ASSUME NEW rows, NEW m \in Nat, Present(rows) = 0 .. m
  PROVE  ChainLen(rows) - 1 = m
<1>1. Cardinality(0 .. m) = IF 0 > m THEN 0 ELSE m - 0 + 1
  BY FS_Interval
<1>2. QED
  BY <1>1 DEF ChainLen

\* COMMIT of prune_chain: no header, balance or id changes, hence no batch.
LEMMA CommitPruneStutters ==
  ASSUME IInv, IInv', NEW p \in Process, CommitPrune(p)
  PROVE  Log' = Log /\ db'.balances = db.balances /\ AppliedIds(db)' = AppliedIds(db)
<1>1. pc[p] = "prune_rows" /\ writer = p /\ db' = wdb
  BY DEF CommitPrune, Commit
<1>2. /\ Headers(wdb.rows) = Headers(db.rows) /\ StateOf(wdb) = StateOf(db)
      /\ Present(db.rows) # {}
  BY <1>1 DEF IInv, ProcessInv, PruneInv
<1>3. /\ wdb.rows \in Chains /\ db.rows \in Chains
      /\ ValidateChain(wdb.rows) /\ ValidateChain(db.rows)
  BY DEF IInv, TypeOK, Tables, TablesInv, WellFormed
<1>4. /\ Present(wdb.rows) = Present(db.rows)
      /\ \A i \in Present(db.rows) : wdb.rows[i].hash = db.rows[i].hash
  BY <1>2, <1>3, HeadersEqual
<1>5. \A i \in Present(db.rows) : wdb.rows[i].merkle_root = db.rows[i].merkle_root
  BY <1>3, <1>4, HashFixesRoot DEF ValidateChain, Present
<1>6. PICK m \in Index : Present(db.rows) = 0 .. m
  BY <1>2 DEF IInv, TablesInv, WellFormed, Contiguous
<1>7. m \in Nat
  BY MaxBlocksAssumption DEF Index
<1>8. ChainLen(wdb.rows) - 1 = m /\ ChainLen(db.rows) - 1 = m
  BY <1>4, <1>6, <1>7, LogIs
<1>9. \A i \in 1 .. m : BatchOf(wdb.rows[i]) = BatchOf(db.rows[i])
  BY <1>5, <1>6, <1>7 DEF BatchOf
<1>10. Log' = Log
  BY <1>1, <1>2, <1>4, <1>8, <1>9 DEF Log, PersistedLog
<1>11. wdb.balances = db.balances /\ AppliedIds(wdb) = AppliedIds(db)
  BY <1>2 DEF StateOf
<1>12. QED
  BY <1>1, <1>10, <1>11 DEF AppliedIds

\* The file a block is committed to is the one the block was prepared from:
\* the process was in step with it when the call began, and it has not changed.
LEMMA CommittedFrom ==
  ASSUME IInv, NEW p \in Process, pc[p] = "commit_add"
  PROVE  LET k == call[p].block.index
         IN  /\ k \in Nat \ {0}
             /\ state[p] = StateOf(db)
             /\ \/ Present(db.rows) = {} /\ k = 1
                \/ Present(db.rows) = 0 .. k - 1
             /\ \A i \in Present(db.rows) : db.rows[i].hash = chain[p][i].hash
<1> DEFINE k == call[p].block.index
<1>1. TypeOK /\ TablesInv /\ MemoryInv(p) /\ SyncInv(p) /\ AddInv(p)
  BY DEF IInv, ProcessInv
<1>2. /\ k \in Index /\ k # 0 /\ Present(chain[p]) = 0 .. k - 1
      /\ chain[p] \in Chains /\ db.rows \in Chains
  BY <1>1, AddedFacts DEF Staging, TypeOK, Tables
<1>3. k \in Nat \ {0}
  BY <1>2, MaxBlocksAssumption DEF Index
<1>4. db.rows[k] = None
  BY <1>1 DEF AddInv
<1> HIDE DEF k
<1>5. CASE HeaderPrefix(chain[p], db.rows)
  <2>1. Headers(chain[p]) = Headers(db.rows)
    BY <1>1, <1>2, <1>4, <1>5, PrefixFull DEF TablesInv
  <2>2. state[p].current_state = db.balances /\ state[p].applied_tx_ids = AppliedIds(db)
    BY <1>1, <2>1 DEF SyncInv
  <2>3. state[p] = StateOf(db)
    BY <1>1, <2>2 DEF StateOf, TypeOK, States
  <2>4. /\ Present(db.rows) = Present(chain[p])
        /\ \A i \in Present(db.rows) : db.rows[i].hash = chain[p][i].hash
    BY <1>2, <2>1, HeadersEqual
  <2>5. QED
    BY <1>2, <1>3, <2>3, <2>4 DEF k
<1>6. CASE Present(chain[p]) = {0} /\ state[p] = EmptyState
  <2>1. k = 1
    <3>1. k - 1 \in 0 .. k - 1
      BY <1>3
    <3>2. k - 1 = 0
      BY <1>2, <1>6, <3>1
    <3>3. QED
      BY <1>3, <3>2
  <2>2. 1 \notin Present(db.rows)
    BY <1>4, <2>1 DEF Present
  <2>3. Present(db.rows) = {} /\ db = EmptyTables
    BY <1>1, <2>2 DEF TablesInv
  <2>4. QED
    BY <1>3, <1>6, <2>1, <2>3, EmptyFacts DEF k
<1>7. QED
  BY <1>1, <1>5, <1>6 DEF MemoryInv

\* COMMIT of add_block appends the batch to the log.
LEMMA CommitAddAppends ==
  ASSUME IInv, IInv', HistoryInv, NEW p \in Process, CommitAdd(p)
  PROVE  Log' = Append(Log, call[p].batch)
<1> DEFINE b     == call[p].block
           k     == b.index
           batch == call[p].batch
           added == AppendBlock(chain[p], b)
<1>1. pc[p] = "commit_add" /\ db' = wdb
  BY DEF CommitAdd, Commit
<1>2. /\ k \in Nat \ {0}
      /\ (Present(db.rows) = {} /\ k = 1) \/ Present(db.rows) = 0 .. k - 1
      /\ \A i \in Present(db.rows) : db.rows[i].hash = chain[p][i].hash
  BY <1>1, CommittedFrom
<1>3. Headers(wdb.rows) = Headers(added)
  BY <1>1 DEF IInv, ProcessInv, AddInv
<1>4. /\ added \in Chains /\ WellFormed(added) /\ Present(added) = 0 .. k
      /\ added[k] = b /\ Present(chain[p]) = 0 .. k - 1
      /\ \A i \in Present(chain[p]) : added[i] = chain[p][i]
  BY <1>1, AddedFacts DEF Staging
<1>5. /\ wdb.rows \in Chains /\ db.rows \in Chains
      /\ ValidateChain(wdb.rows) /\ ValidateChain(db.rows)
  BY DEF IInv, TypeOK, Tables, TablesInv, WellFormed
<1>6. b.merkle_root = MerkleRoot(batch) /\ batch \in Batch
  BY <1>1 DEF HistoryInv, ProcessHistoryInv, Staging, IInv, TypeOK, Calls
<1> HIDE DEF b, k, batch, added
<1>7. /\ Present(wdb.rows) = 0 .. k
      /\ \A i \in 0 .. k : wdb.rows[i].hash = added[i].hash
  BY <1>3, <1>4, <1>5, HeadersEqual
<1>8. wdb.rows[k].merkle_root = MerkleRoot(batch)
  <2>1. k \in 0 .. k
    BY <1>2
  <2>2. wdb.rows[k].merkle_root = added[k].merkle_root
    BY <1>4, <1>5, <1>7, <2>1, HashFixesRoot DEF WellFormed, ValidateChain, Present
  <2>3. QED
    BY <1>4, <1>6, <2>2
<1>9. BatchOf(wdb.rows[k]) = batch
  BY <1>6, <1>8, BatchAssumption DEF BatchOf, MerkleRoot
<1>10. \A i \in Present(db.rows) : BatchOf(wdb.rows[i]) = BatchOf(db.rows[i])
  <2> SUFFICES ASSUME NEW i \in Present(db.rows) PROVE BatchOf(wdb.rows[i]) = BatchOf(db.rows[i])
    OBVIOUS
  <2>1. i \in 0 .. k - 1 /\ i \in 0 .. k
    BY <1>2
  <2>2. db.rows[i].hash = wdb.rows[i].hash
    BY <1>2, <1>4, <1>7, <2>1
  <2>3. wdb.rows[i].merkle_root = db.rows[i].merkle_root
    BY <1>5, <1>7, <2>1, <2>2, HashFixesRoot DEF ValidateChain, Present
  <2>4. QED
    BY <2>3 DEF BatchOf
<1>11. Log' = [i \in 1 .. k |-> BatchOf(wdb.rows[i])]
  <2>1. ChainLen(wdb.rows) - 1 = k /\ Present(wdb.rows) # {}
    BY <1>2, <1>7, LogIs
  <2>2. QED
    BY <1>1, <2>1 DEF Log, PersistedLog
<1>12. Log = [i \in 1 .. k - 1 |-> BatchOf(db.rows[i])]
  <2>1. CASE Present(db.rows) = {} /\ k = 1
    BY <2>1 DEF Log
  <2>2. CASE Present(db.rows) = 0 .. k - 1
    <3>1. ChainLen(db.rows) - 1 = k - 1 /\ Present(db.rows) # {}
      BY <1>2, <2>2, LogIs
    <3>2. QED
      BY <3>1 DEF Log, PersistedLog
  <2>3. QED
    BY <1>2, <2>1, <2>2
<1>13. \A i \in 1 .. k - 1 : BatchOf(wdb.rows[i]) = BatchOf(db.rows[i])
  BY <1>2, <1>10
<1> DEFINE entry(rows, i) == BatchOf(rows[i])
<1>14. Append([i \in 1 .. k - 1 |-> entry(db.rows, i)], batch)
          = [i \in 1 .. k |-> IF i = k THEN batch ELSE entry(db.rows, i)]
  <2> HIDE DEF entry
  <2>1. k - 1 \in Nat
    BY <1>2
  <2>2. QED
    BY <1>2, <2>1
<1>15. \A i \in 1 .. k : entry(wdb.rows, i) = IF i = k THEN batch ELSE entry(db.rows, i)
  BY <1>2, <1>9, <1>13
<1>16. QED
  BY <1>11, <1>12, <1>14, <1>15 DEF batch

\* The ledger's account of a batch is the store's.
LEMMA CommitAddCredits ==
  ASSUME IInv, EffectInv, NEW p \in Process, CommitAdd(p), NEW a \in Account
  PROVE  db'.balances[a] = L!Credited(call[p].batch, a)
<1> DEFINE batch == call[p].batch
<1>1. pc[p] = "commit_add" /\ db' = wdb
  BY DEF CommitAdd, Commit
<1>2. StateOf(wdb) = call[p].staged
  BY <1>1 DEF IInv, ProcessInv, AddInv
<1>3. db'.balances = call[p].staged.current_state
  BY <1>1, <1>2 DEF StateOf
<1>4. call[p].staged.current_state[a] = StagedBalance(p, a)
  BY <1>1 DEF EffectInv, ProcessEffect, Staging
<1>5. state[p] = StateOf(db)
  BY <1>1, CommittedFrom
<1>6. state[p].current_state = db.balances /\ state[p].applied_tx_ids = AppliedIds(db)
  BY <1>5 DEF StateOf
<1>7. 1 .. call[p].next - 1 = DOMAIN batch
  <2>1. batch \in Seq(Tx) /\ call[p].next = Len(batch) + 1
    BY <1>1, BatchAssumption DEF IInv, TypeOK, Calls, ProcessInv, StagedInv, Staging
  <2>2. QED
    BY <2>1
<1>8. StagedFirstUses(p) = L!FirstUses(batch)
  BY <1>6, <1>7 DEF StagedFirstUses, L!FirstUses
<1>9. StagedCredits(p, a) = L!Credits(batch, a)
  BY <1>8 DEF StagedCredits, L!Credits
<1>10. L!Credited(batch, a) = StagedBalance(p, a)
  <2> DEFINE f == Amounts(batch)
             K == StagedCredits(p, a)
  <2>1. L!SumFunctionOnSet(f, K) = SumFunctionOnSet(f, K)
    BY DEF L!SumFunctionOnSet, L!FoldFunctionOnSet, L!MapThenFoldSet,
           SumFunctionOnSet, FoldFunctionOnSet, MapThenFoldSet
  <2>2. L!Credited(batch, a) =
           IF K = {} THEN db.balances[a]
           ELSE L!Credit(db.balances[a], L!SumFunctionOnSet(f, K))
    BY <1>9 DEF L!Credited, Amounts
  <2>3. StagedBalance(p, a) =
           IF K = {} THEN db.balances[a]
           ELSE Credit(db.balances[a], SumFunctionOnSet(f, K))
    BY <1>6 DEF StagedBalance
  <2> HIDE DEF f, K
  <2>4. QED
    BY <2>1, <2>2, <2>3 DEF Credit, L!Credit
<1>11. QED
  BY <1>3, <1>4, <1>10

\* COMMIT of add_block is a step of the ledger.
LEMMA CommitAddImplements ==
  ASSUME IInv, IInv', HistoryInv, EffectInv, NEW p \in Process, CommitAdd(p)
  PROVE  L!Next
<1> DEFINE batch == call[p].batch
<1>1. pc[p] = "commit_add" /\ db' = wdb
  BY DEF CommitAdd, Commit
<1>2. Log' = Append(Log, batch)
  BY CommitAddAppends
<1>3. Log \in Seq(Batch) /\ batch \in Batch
  <2>1. batch \in Batch
    BY DEF IInv, TypeOK, Calls
  <2>2. \A i \in Present(db.rows) : BatchOf(db.rows[i]) \in Batch
    BY PresentFacts, BatchAssumption DEF IInv, TypeOK, Tables, BatchOf, Blocks, Root
  <2>3. CASE Present(db.rows) = {}
    BY <2>1, <2>3 DEF Log
  <2>4. CASE Present(db.rows) # {}
    <3>1. PICK m \in Index : Present(db.rows) = 0 .. m
      BY <2>4 DEF IInv, TablesInv, WellFormed, Contiguous
    <3>2. m \in Nat
      BY MaxBlocksAssumption DEF Index
    <3>3. Log = [i \in 1 .. m |-> BatchOf(db.rows[i])]
      BY <2>4, <3>1, <3>2, LogIs DEF Log, PersistedLog
    <3>4. \A i \in 1 .. m : BatchOf(db.rows[i]) \in Batch
      BY <2>2, <3>1, <3>2
    <3>5. QED
      BY <2>1, <3>2, <3>3, <3>4
  <2>5. QED
    BY <2>1, <2>3, <2>4
<1>4. Log' # <<>> /\ Log'[Len(Log')] = batch
  <2>1. Len(Append(Log, batch)) = Len(Log) + 1 /\ Len(Log) \in Nat
        /\ Append(Log, batch)[Len(Append(Log, batch))] = batch
    BY <1>3
  <2>2. QED
    BY <1>2, <2>1
<1>5. /\ StateOf(wdb) = call[p].staged
      /\ state[p] = StateOf(db)
  BY <1>1, CommittedFrom DEF IInv, ProcessInv, AddInv
<1>6. db'.balances = [a \in Account |-> L!Credited(batch, a)]
  <2>1. db'.balances \in Balances
    BY DEF IInv, TypeOK, Tables
  <2>2. QED
    BY <2>1, CommitAddCredits DEF Balances
<1>7. AppliedIds(db)' = AppliedIds(db) \cup L!TxIds(batch)
  <2>1. AppliedIds(wdb) = call[p].staged.applied_tx_ids
        /\ state[p].applied_tx_ids = AppliedIds(db)
    BY <1>5 DEF StateOf
  <2>2. call[p].staged.applied_tx_ids = state[p].applied_tx_ids \cup TxIds(batch)
    BY <1>1, FullyStaged DEF Staging
  <2>3. L!TxIds(batch) = TxIds(batch)
    BY DEF TxIds, L!TxIds
  <2>4. QED
    BY <1>1, <2>1, <2>2, <2>3 DEF AppliedIds
<1>8. \A a \in L!Accounts(batch) : db'.balances[a] # None
  <2>1. UnknownAccounts(p) = {}
    BY <1>1 DEF EffectInv, ProcessEffect, Staging
  <2>2. L!Accounts(batch) = Accounts(batch)
    BY DEF Accounts, L!Accounts
  <2>3. db'.balances = call[p].staged.current_state
    BY <1>1, <1>5 DEF StateOf
  <2>4. QED
    BY <2>1, <2>2, <2>3 DEF UnknownAccounts
<1> HIDE DEF batch
<1>9. L!AppendBatch(batch)
  BY <1>2, <1>6, <1>7, <1>8 DEF L!AppendBatch, batch
<1>10. QED
  BY <1>4, <1>9 DEF L!Next

\* Every transaction that commits appends one batch to the ledger and credits
\* each of its new ids once, or is invisible to it, whatever the processes,
\* crashes and rollbacks (chain_store.py:71-91, state_delta.py:49-65).
THEOREM Implementation == Spec => ImplementsLedger
<1>1. Init => L!Init
  <2> SUFFICES ASSUME Init PROVE L!Init
    OBVIOUS
  <2>1. Present(db.rows) = {} /\ AppliedIds(db) = {} /\ db.balances = [a \in Account |-> None]
    BY NoChainFacts DEF Init, EmptyTables, AppliedIds
  <2>2. QED
    BY <2>1 DEF L!Init, Log
<1>2. ASSUME IInv, IInv', HistoryInv, EffectInv, [Next]_vars
      PROVE  [L!Next]_<<Log, db.balances, AppliedIds(db)>>
  <2>1. CASE db' = db
    BY <2>1 DEF Log, PersistedLog, AppliedIds
  <2>2. ASSUME NEW p \in Process, CommitAdd(p) PROVE L!Next
    BY <1>2, <2>2, CommitAddImplements
  <2>3. ASSUME NEW p \in Process, CommitPrune(p)
        PROVE  UNCHANGED <<Log, db.balances, AppliedIds(db)>>
    BY <1>2, <2>3, CommitPruneStutters
  <2>4. QED
    BY <1>2, <2>1, <2>2, <2>3, OnlyCommitsChangeFile
<1>3. QED
  BY <1>1, <1>2, Invariance, HistoryInvariance, EffectInvariance, PTL
     DEF Spec, ImplementsLedger, L!Spec
=============================================================================
