-------------------------- MODULE ChainStoreSafety --------------------------
(* What ChainStore must guarantee to the processes that share a file.         *)
EXTENDS ChainStore

\* Every variable has the type its comment says (ChainStore and Chain).
TypeOK ==
    /\ db \in Tables
    /\ wdb \in Tables
    /\ writer \in Process \cup {None}
    /\ pc \in [Process -> Locations]
    /\ chain \in [Process -> Chains]
    /\ state \in [Process -> States]
    /\ call \in [Process -> Calls]

\* Chain.validate_chain accepts the persisted chain and every chain in memory,
\* bodies included, whatever interleaving, crash or rollback came before
\* (chain.py:83-104; a reload after pruning still validates).
ChainsValid ==
    /\ ValidateChain(db.rows)
    /\ \A p \in Process : ValidateChain(chain[p])

\* rows of c are the first rows of d
HeaderPrefix(c, d) ==
    \A i \in Present(c) : d[i] # None /\ d[i].hash = c[i].hash

\* A chain in memory shows no block that is not durable: it is a prefix, by
\* headers, of the persisted chain, or a genesis nobody has persisted yet
\* (chain_store.py:74-76).
MemoryIsDurable ==
    \A p \in Process :
        HeaderPrefix(chain[p], db.rows) \/ Present(chain[p]) = {0}

\* A process at rest whose headers are those of the file - all that
\* _ensure_chain_persisted looks at before add_block writes balances computed
\* from memory - has the file's balances and applied ids in memory
\* (chain_store.py:87-90, 145-155, 194-199).
InSync ==
    \A p \in Process :
        pc[p] = "idle" /\ Headers(chain[p]) = Headers(db.rows)
            => state[p] = StateOf(db)

BatchOf(block) == IF block.merkle_root = None THEN <<>> ELSE block.merkle_root

BlocksNaming(rows, t) == {i \in Present(rows) : t \in TxIds(BatchOf(rows[i]))}

\* The ids of the tables are those of their rows, each with the first.
IdsMatch(tables) ==
    \A t \in TxId :
        IF BlocksNaming(tables.rows, t) = {} THEN tables.tids[t] = None
        ELSE /\ tables.tids[t] \in BlocksNaming(tables.rows, t)
             /\ \A i \in BlocksNaming(tables.rows, t) : tables.tids[t] <= i

\* The replay-protection table names exactly the ids of the committed blocks,
\* pruned ones included, each with the first block that carried it
\* (chain_store.py:3-8, 140-143).
IdsMatchBlocks == IdsMatch(db)

\* The last max_full_blocks persisted blocks keep their bodies, though a
\* process prunes by the length of a chain that may be stale
\* (chain_store.py:97-106, blockchain_pruner.py:45-50).
RecentBodiesKept ==
    \A i \in Present(db.rows) :
        Cardinality({j \in Present(db.rows) : j > i}) < MaxFullBlocks
            => ~db.rows[i].is_pruned /\ db.rows[i].body # None

\* A body is dropped from memory only after it is dropped from the file
\* (chain_store.py:94, 102-110).
PrunedDurablyFirst ==
    \A p \in Process : \A i \in Present(chain[p]) :
        chain[p][i].is_pruned => db.rows[i] # None /\ db.rows[i].is_pruned

\* The tables d have the headers, the dropped bodies and the applied ids of c.
Extends(c, d) ==
    /\ HeaderPrefix(c.rows, d.rows)
    /\ \A i \in Present(c.rows) : c.rows[i].is_pruned => d.rows[i].is_pruned
    /\ \A t \in AppliedIds(c) : d.tids[t] = c.tids[t]

\* A committed header never changes or vanishes, a dropped body never comes
\* back, and an applied id stays applied by the same block, across crashes and
\* rollbacks of any process (chain_store.py:86-88, 102-108, 140-143).
DurableAppendOnly == [][Extends(db, db')]_db

\* The rows prune_chain marks are the blocks it then prunes in memory, not
\* blocks of another chain that have their indices (chain_store.py:93-110).
PruneCorresponds ==
    \A p \in Process : pc[p] = "prune_chain" =>
        \A i \in Eligible(chain[p]) :
            db.rows[i] # None /\ db.rows[i].hash = chain[p][i].hash

\* The state of a process at rest is the state of the blocks it shows: it has
\* applied the ids they name and no others (chain.py:3-5).
StateIsOwn ==
    \A p \in Process : pc[p] = "idle" =>
        state[p].applied_tx_ids =
            UNION {TxIds(BatchOf(chain[p][i])) : i \in Present(chain[p])}

-----------------------------------------------------------------------------
\* The file read as a ledger: its batches are what the headers commit to.
PersistedLog ==
    [i \in 1 .. ChainLen(db.rows) - 1 |-> BatchOf(db.rows[i])]

Log == IF Present(db.rows) = {} THEN <<>> ELSE PersistedLog

L == INSTANCE Ledger WITH log      <- Log,
                          balances <- db.balances,
                          applied  <- AppliedIds(db)

\* The file implements the ledger: each transaction that commits either appends
\* one batch and credits each new id once, or changes neither log, balances nor
\* ids (chain_store.py:71-91, state_delta.py:49-65).
ImplementsLedger == L!Spec

-----------------------------------------------------------------------------
\* Every call a process makes returns or raises, or the process dies: no
\* execution waits for the write lock for ever (chain_store.py:86, 102; the
\* lock wait of sqlite3.connect, chain_store.py:44).
CallsEnd ==
    \A p \in Process :
        pc[p] \notin {"idle", "down"} ~> pc[p] \in {"idle", "down"}
=============================================================================
