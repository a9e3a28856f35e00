----------------------------- MODULE ChainStore -----------------------------
(* Processes that keep a Chain in memory and share one SQLite file through    *)
(* ChainStore (persistence/chain_store.py), each calling load_chain,          *)
(* add_block(chain, transactions) and prune_chain(pruner) only.               *)
(*                                                                            *)
(* SQLite: db is what is committed, wdb the copy the holder of the write lock *)
(* works on (equal to db while nobody holds it).  A SELECT outside a          *)
(* transaction reads db; the first INSERT or UPDATE of a transaction takes    *)
(* the lock; leaving "with conn" commits, or rolls back when it raises.       *)
EXTENDS Chain

CONSTANT Process

ASSUME NobodyAssumption == None \notin Process

VARIABLES db,      \* committed tables: rows, balances, tids (tx_id -> block_idx)
          wdb,     \* the same tables as the open write transaction sees them
          writer,  \* the process whose transaction is open, or None
          pc,      \* pc[p]: where p is in the call it makes
          chain,   \* chain[p]: p's chain.blocks
          state,   \* state[p]: p's chain.state
          call     \* call[p]: the local variables of p's call

dbVars  == <<db, wdb, writer>>
memVars == <<chain, state>>
vars    == <<db, wdb, writer, pc, chain, state, call>>

Tables == [rows : Chains, balances : Balances, tids : [TxId -> Index \cup {None}]]

EmptyTables == [rows     |-> NoChain,
                balances |-> [a \in Account |-> None],
                tids     |-> [t \in TxId |-> None]]

\* batch: the transactions; next: how many are staged, plus one; staged: the
\* prospective state; block: the prospective block; todo: candidates to prune.
Calls == [batch : Batch, next : Nat, staged : States,
          block : Blocks \cup {None}, todo : SUBSET Index]

NoCall == [batch |-> <<>>, next |-> 1, staged |-> EmptyState,
           block |-> None, todo |-> {}]

Locations == {"down", "load_state", "load_ids", "idle", "stage", "ensure",
              "insert_genesis", "insert_block", "upsert", "insert_ids",
              "commit_add", "apply", "prune_rows", "prune_chain"}

\* The locations that execute an SQL statement or a COMMIT.
SqlLocations == {"load_state", "load_ids", "ensure", "insert_genesis",
                 "insert_block", "upsert", "insert_ids", "commit_add",
                 "prune_rows"}

\* The statements that may be a transaction's first: they wait for the lock.
LockLocations == {"insert_genesis", "insert_block", "prune_rows"}

Init ==
    /\ db = EmptyTables
    /\ wdb = EmptyTables
    /\ writer = None
    /\ pc = [p \in Process |-> "down"]
    /\ chain = [p \in Process |-> NoChain]
    /\ state = [p \in Process |-> EmptyState]
    /\ call = [p \in Process |-> NoCall]

-----------------------------------------------------------------------------
(* What the SQL statements do to the tables.                                 *)

AppliedIds(tables) == {t \in TxId : tables.tids[t] # None}

StateOf(tables) == [current_state  |-> tables.balances,
                    applied_tx_ids |-> AppliedIds(tables)]

MutantConflict(tables, block) == FALSE

\* PRIMARY KEY (idx) and UNIQUE (hash)
Conflict(tables, block) ==
    \/ tables.rows[block.index] # None
    \/ \E i \in Present(tables.rows) : tables.rows[i].hash = block.hash

InsertRow(tables, block) == [tables EXCEPT !.rows[block.index] = block]

MutantUpsert(tables, accounts, balances) ==
    [tables EXCEPT !.balances = [a \in Account |->
        IF a \in accounts /\ @[a] = None THEN balances[a] ELSE @[a]]]

Upsert(tables, accounts, balances) ==
    [tables EXCEPT !.balances = [a \in Account |->
        IF a \in accounts THEN balances[a] ELSE @[a]]]

MutantInsertIds(tables, ids, index) ==
    [tables EXCEPT !.tids = [t \in TxId |-> IF t \in ids THEN index ELSE @[t]]]

MutantNextIds(tables, ids, index) ==
    [tables EXCEPT !.tids = [t \in TxId |->
        IF t \in ids /\ @[t] = None THEN index + 1 ELSE @[t]]]

\* INSERT OR IGNORE: the first block that named an id keeps it.
InsertIds(tables, ids, index) ==
    [tables EXCEPT !.tids = [t \in TxId |->
        IF t \in ids /\ @[t] = None THEN index ELSE @[t]]]

\* UPDATE blocks SET body = NULL, is_pruned = 1 WHERE idx = index
MarkPruned(tables, index) == [tables EXCEPT !.rows[index] = Prune(@)]

-----------------------------------------------------------------------------
(* Transaction control.                                                      *)

\* p's transaction is open, or its next statement may open it.
MayWrite(p) == writer \in {None, p}

Write(p, tables) ==
    /\ MayWrite(p)
    /\ writer' = p
    /\ wdb' = tables
    /\ db' = db

MutantCommit(p) ==
    /\ writer = p
    /\ db' = db
    /\ wdb' = db
    /\ writer' = None

Commit(p) ==
    /\ writer = p
    /\ db' = wdb
    /\ wdb' = wdb
    /\ writer' = None

Rollback(p) ==
    /\ db' = db
    /\ wdb' = IF writer = p THEN db ELSE wdb
    /\ writer' = IF writer = p THEN None ELSE writer

Goto(p, location) == pc' = [pc EXCEPT ![p] = location]

Return(p) ==
    /\ Goto(p, "idle")
    /\ call' = [call EXCEPT ![p] = NoCall]

\* An exception leaves the call: the transaction is rolled back and the
\* in-memory chain is as it was before the call.
Raise(p) ==
    /\ Return(p)
    /\ Rollback(p)
    /\ UNCHANGED memVars

-----------------------------------------------------------------------------
(* Chain() and ChainStore.load_chain: three SELECTs, each a transaction of   *)
(* its own.  The process gives up the chain object it had.                   *)

StartEmpty(p) ==
    /\ pc[p] \in {"down", "idle"}
    /\ \E ts \in Timestamp : chain' = [chain EXCEPT ![p] = NewChain(ts)]
    /\ state' = [state EXCEPT ![p] = EmptyState]
    /\ Goto(p, "idle")
    /\ UNCHANGED <<db, wdb, writer, call>>

LoadBlocks(p) ==
    /\ pc[p] \in {"down", "idle"}
    /\ Present(db.rows) # {}
    /\ chain' = [chain EXCEPT ![p] = [i \in Index |->
                    IF db.rows[i] = None THEN None ELSE FromPersisted(db.rows[i])]]
    /\ state' = [state EXCEPT ![p] = EmptyState]
    /\ Goto(p, "load_state")
    /\ UNCHANGED <<db, wdb, writer, call>>

LoadState(p) ==
    /\ pc[p] = "load_state"
    /\ state' = [state EXCEPT ![p].current_state = db.balances]
    /\ Goto(p, "load_ids")
    /\ UNCHANGED <<db, wdb, writer, chain, call>>

LoadIds(p) ==
    /\ pc[p] = "load_ids"
    /\ state' = [state EXCEPT ![p].applied_tx_ids = AppliedIds(db)]
    /\ Goto(p, "idle")
    /\ UNCHANGED <<db, wdb, writer, chain, call>>

-----------------------------------------------------------------------------
(* ChainStore.add_block.  A batch with a malformed transaction raises before *)
(* anything happens, so only valid batches start a call.                     *)

BeginAdd(p, batch) ==
    /\ pc[p] = "idle"
    /\ \A i \in DOMAIN batch : ValidTransaction(batch[i])
    /\ LastIndex(chain[p]) + 1 \in Index                \* bound: MaxBlocks
    /\ call' = [call EXCEPT ![p] = [NoCall EXCEPT !.batch = batch,
                                                  !.staged = state[p]]]
    /\ Goto(p, "stage")
    /\ UNCHANGED <<db, wdb, writer, chain, state>>

\* One turn of the loop of Chain._prepare_block.
StageTransaction(p) ==
    /\ pc[p] = "stage"
    /\ call[p].next <= Len(call[p].batch)
    /\ call' = [call EXCEPT
          ![p].staged = ApplyTransaction(@, call[p].batch[call[p].next]),
          ![p].next = @ + 1]
    /\ UNCHANGED <<db, wdb, writer, pc, chain, state>>

Staged(p) == pc[p] = "stage" /\ call[p].next > Len(call[p].batch)

\* The accounts whose balance add_block looks up in the staged state and that
\* have none: a replay is skipped without crediting the account it names.
UnknownAccounts(p) ==
    {a \in Accounts(call[p].batch) : call[p].staged.current_state[a] = None}

CreateBlock(p) ==
    /\ Staged(p)
    /\ UnknownAccounts(p) = {}
    /\ \E ts \in Timestamp :
          call' = [call EXCEPT ![p].block = NextBlock(chain[p], call[p].batch, ts)]
    /\ Goto(p, "ensure")
    /\ UNCHANGED <<db, wdb, writer, chain, state>>

AddRaisesKeyError(p) ==
    /\ Staged(p)
    /\ UnknownAccounts(p) # {}
    /\ Raise(p)

MutantEnsureEmpty(p) ==
    /\ pc[p] = "ensure"
    /\ Present(db.rows) = {}
    /\ ChainLen(chain[p]) = 1
    /\ Goto(p, "insert_block")
    /\ UNCHANGED <<db, wdb, writer, chain, state, call>>

\* _ensure_chain_persisted: the SELECT precedes the transaction's first write,
\* so it takes no lock.
EnsureEmpty(p) ==
    /\ pc[p] = "ensure"
    /\ Present(db.rows) = {}
    /\ ChainLen(chain[p]) = 1
    /\ Goto(p, "insert_genesis")
    /\ UNCHANGED <<db, wdb, writer, chain, state, call>>

EnsureMatch(p) ==
    /\ pc[p] = "ensure"
    /\ Present(db.rows) # {}
    /\ Headers(db.rows) = Headers(chain[p])
    /\ Goto(p, "insert_block")
    /\ UNCHANGED <<db, wdb, writer, chain, state, call>>

EnsureRaises(p) ==
    /\ pc[p] = "ensure"
    /\ IF Present(db.rows) = {}
       THEN ChainLen(chain[p]) # 1
       ELSE Headers(db.rows) # Headers(chain[p])
    /\ Raise(p)

InsertGenesis(p) ==
    /\ pc[p] = "insert_genesis"
    /\ ~Conflict(wdb, chain[p][0])
    /\ Write(p, InsertRow(wdb, chain[p][0]))
    /\ Goto(p, "insert_block")
    /\ UNCHANGED <<chain, state, call>>

InsertBlock(p) ==
    /\ pc[p] = "insert_block"
    /\ ~Conflict(wdb, call[p].block)
    /\ Write(p, InsertRow(wdb, call[p].block))
    /\ Goto(p, "upsert")
    /\ UNCHANGED <<chain, state, call>>

\* IntegrityError: another process inserted the row after the SELECT.
InsertRaises(p) ==
    /\ MayWrite(p)
    /\ \/ pc[p] = "insert_genesis" /\ Conflict(wdb, chain[p][0])
       \/ pc[p] = "insert_block" /\ Conflict(wdb, call[p].block)
    /\ Raise(p)

UpsertBalances(p) ==
    /\ pc[p] = "upsert"
    /\ Write(p, Upsert(wdb, Accounts(call[p].batch), call[p].staged.current_state))
    /\ Goto(p, "insert_ids")
    /\ UNCHANGED <<chain, state, call>>

InsertTxIds(p) ==
    /\ pc[p] = "insert_ids"
    /\ Write(p, InsertIds(wdb, TxIds(call[p].batch), call[p].block.index))
    /\ Goto(p, "commit_add")
    /\ UNCHANGED <<chain, state, call>>

CommitAdd(p) ==
    /\ pc[p] = "commit_add"
    /\ Commit(p)
    /\ Goto(p, "apply")
    /\ UNCHANGED <<chain, state, call>>

\* Chain._commit_prepared_block
ApplyToChain(p) ==
    /\ pc[p] = "apply"
    /\ state' = [state EXCEPT ![p] = call[p].staged]
    /\ chain' = [chain EXCEPT ![p] = AppendBlock(@, call[p].block)]
    /\ Return(p)
    /\ UNCHANGED dbVars

-----------------------------------------------------------------------------
(* ChainStore.prune_chain.  It returns at once when nothing is eligible.     *)

MutantBeginPrune(p) ==
    /\ pc[p] = "idle"
    /\ Eligible(chain[p]) # {}
    /\ call' = [call EXCEPT ![p] = [NoCall EXCEPT !.todo = Eligible(chain[p])]]
    /\ chain' = [chain EXCEPT ![p] = PruneBlocks(@)]
    /\ Goto(p, "prune_rows")
    /\ UNCHANGED <<db, wdb, writer, state>>

BeginPrune(p) ==
    /\ pc[p] = "idle"
    /\ Eligible(chain[p]) # {}
    /\ call' = [call EXCEPT ![p] = [NoCall EXCEPT !.todo = Eligible(chain[p])]]
    /\ Goto(p, "prune_rows")
    /\ UNCHANGED <<db, wdb, writer, chain, state>>

\* The candidate whose turn it is: they are updated in the order of the list.
Candidates(p) == {i \in call[p].todo : \A j \in call[p].todo : i <= j}

PruneRow(p) ==
    /\ pc[p] = "prune_rows"
    /\ \E i \in Candidates(p) :
          /\ wdb.rows[i] # None
          /\ Write(p, MarkPruned(wdb, i))
          /\ call' = [call EXCEPT ![p].todo = @ \ {i}]
    /\ UNCHANGED <<pc, chain, state>>

\* KeyError: the UPDATE found no row.
PruneRowRaises(p) ==
    /\ pc[p] = "prune_rows"
    /\ MayWrite(p)
    /\ \E i \in Candidates(p) : wdb.rows[i] = None
    /\ Raise(p)

CommitPrune(p) ==
    /\ pc[p] = "prune_rows"
    /\ call[p].todo = {}
    /\ Commit(p)
    /\ Goto(p, "prune_chain")
    /\ UNCHANGED <<chain, state, call>>

\* pruner.prune(): the chain is the one the candidates were taken from.
PruneChain(p) ==
    /\ pc[p] = "prune_chain"
    /\ chain' = [chain EXCEPT ![p] = PruneBlocks(@)]
    /\ Return(p)
    /\ UNCHANGED <<db, wdb, writer, state>>

-----------------------------------------------------------------------------
(* Failures.  A load that fails leaves the process without a chain.          *)

MutantBusyTimeout(p) == pc[p] = "insert_genesis" /\ ~MayWrite(p) /\ Raise(p)

\* Another process held the lock for the whole of sqlite3's timeout.
BusyTimeout(p) ==
    /\ pc[p] \in LockLocations
    /\ ~MayWrite(p)
    /\ Raise(p)

\* Any other error of a statement: disk full, I/O error, a busy COMMIT.
SqlError(p) ==
    /\ pc[p] \in SqlLocations \ {"load_state", "load_ids"}
    /\ Raise(p)

Stop(p) ==
    /\ Goto(p, "down")
    /\ call' = [call EXCEPT ![p] = NoCall]
    /\ chain' = [chain EXCEPT ![p] = NoChain]
    /\ state' = [state EXCEPT ![p] = EmptyState]
    /\ Rollback(p)

LoadRaises(p) == pc[p] \in {"load_state", "load_ids"} /\ Stop(p)

\* The process dies anywhere; SQLite discards its uncommitted work.
Crash(p) == pc[p] # "down" /\ Stop(p)

-----------------------------------------------------------------------------
Call(p) ==
    \/ StartEmpty(p) \/ LoadBlocks(p)
    \/ \E batch \in Batch : BeginAdd(p, batch)
    \/ BeginPrune(p)

\* What a process does once it has made a call, errors other than SqlError
\* included: the next thing that happens when nothing fails.
Continue(p) ==
    \/ LoadState(p) \/ LoadIds(p)
    \/ StageTransaction(p) \/ CreateBlock(p) \/ AddRaisesKeyError(p)
    \/ EnsureEmpty(p) \/ EnsureMatch(p) \/ EnsureRaises(p)
    \/ InsertGenesis(p) \/ InsertBlock(p) \/ InsertRaises(p)
    \/ UpsertBalances(p) \/ InsertTxIds(p) \/ CommitAdd(p) \/ ApplyToChain(p)
    \/ PruneRow(p) \/ PruneRowRaises(p) \/ CommitPrune(p) \/ PruneChain(p)
    \/ BusyTimeout(p)

Fail(p) == SqlError(p) \/ LoadRaises(p) \/ Crash(p)

Next == \E p \in Process : Call(p) \/ Continue(p) \/ Fail(p)

Spec == Init /\ [][Next]_vars

\* A process that is not killed keeps running its call, and sqlite3 gives up
\* waiting for the lock; nobody has to start a call, and nothing has to fail.
Fairness == \A p \in Process : WF_vars(Continue(p))

FairSpec == Spec /\ Fairness
=============================================================================
