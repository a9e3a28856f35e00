------------------------- MODULE ChainStoreInvariant -------------------------
(* The inductive invariant behind the safety properties of ChainStoreSafety:  *)
(* what ties the tables, the open transaction and each process's chain, state *)
(* and call together at every location.                                       *)
EXTENDS ChainStoreSafety, Functions

\* The blocks are those of indices 0 .. m: no gap, and LastIndex is m.
Contiguous(c) == Present(c) = {} \/ \E m \in Index : Present(c) = 0 .. m

WellFormed(c) == Contiguous(c) /\ ValidateChain(c)

\* The committed and the working tables: an empty file has no state, a
\* non-empty one has a block besides genesis.
TablesInv ==
    /\ WellFormed(db.rows)
    /\ WellFormed(wdb.rows)
    /\ Present(db.rows) = {} => db = EmptyTables
    /\ Present(db.rows) # {} => 1 \in Present(db.rows)
    /\ writer = None => wdb = db
    /\ Extends(db, wdb)

\* A process's chain is a prefix of the file's or its own unpersisted genesis.
MemoryInv(p) ==
    /\ WellFormed(chain[p])
    /\ pc[p] # "down" => 0 \in Present(chain[p])
    /\ pc[p] = "down" => chain[p] = NoChain
    /\ \/ HeaderPrefix(chain[p], db.rows)
       \/ /\ Present(chain[p]) = {0} /\ state[p] = EmptyState
          /\ pc[p] \notin {"load_state", "load_ids"}
    /\ \A i \in Present(chain[p]) :
          chain[p][i].is_pruned => db.rows[i] # None /\ db.rows[i].is_pruned

\* Equal headers mean equal state, as far as a load in progress has read it.
SyncInv(p) ==
    Headers(chain[p]) = Headers(db.rows) =>
        /\ pc[p] # "load_state" => state[p].current_state = db.balances
        /\ pc[p] \notin {"load_state", "load_ids"}
              => state[p].applied_tx_ids = AppliedIds(db)

Staging == {"stage", "ensure", "insert_genesis", "insert_block", "upsert",
            "insert_ids", "commit_add", "apply"}

\* The part of the batch that is staged, and what staging it left alone.
StagedTxs(p) == {call[p].batch[i] : i \in 1 .. call[p].next - 1}

StagedInv(p) ==
    pc[p] \in Staging =>
        /\ \A i \in DOMAIN call[p].batch : ValidTransaction(call[p].batch[i])
        /\ call[p].next \in 1 .. Len(call[p].batch) + 1
        /\ pc[p] # "stage" => call[p].next = Len(call[p].batch) + 1
        /\ \A a \in Account :
              (\A tx \in StagedTxs(p) : tx.account # a)
                  => call[p].staged.current_state[a] = state[p].current_state[a]
        /\ call[p].staged.applied_tx_ids
              = state[p].applied_tx_ids \cup {tx.tx_id : tx \in StagedTxs(p)}

\* The prospective block is a valid successor of the chain.
BlockInv(p) ==
    /\ pc[p] = "stage" => LastIndex(chain[p]) + 1 \in Index
    /\ pc[p] \in Staging \ {"stage"} =>
          /\ call[p].block \in Blocks
          /\ ~call[p].block.is_pruned
          /\ call[p].block.index # 0
          /\ Present(chain[p]) = 0 .. call[p].block.index - 1
          /\ ValidBlock(AppendBlock(chain[p], call[p].block), call[p].block.index)

\* The open transaction of a process that adds a block.
AddInv(p) ==
    /\ writer = p => pc[p] \in {"insert_block", "upsert", "insert_ids",
                                "commit_add", "prune_rows"}
    /\ pc[p] \in {"upsert", "insert_ids", "commit_add"} =>
          /\ writer = p
          /\ db.rows[call[p].block.index] = None
          /\ Headers(wdb.rows) = Headers(AppendBlock(chain[p], call[p].block))
    /\ pc[p] = "insert_block" =>
          IF writer = p THEN /\ Headers(wdb.rows) = Headers(chain[p])
                             /\ Present(db.rows) = {}
                        ELSE Present(db.rows) # {}
    /\ pc[p] = "insert_block" /\ writer = p => StateOf(wdb) = state[p]
    /\ pc[p] = "upsert" => StateOf(wdb) = state[p]
    /\ pc[p] = "insert_ids" =>
          /\ wdb.balances = call[p].staged.current_state
          /\ AppliedIds(wdb) = state[p].applied_tx_ids
    /\ pc[p] = "commit_add" => StateOf(wdb) = call[p].staged
    /\ pc[p] = "apply" =>
          LET added == AppendBlock(chain[p], call[p].block)
          IN  /\ HeaderPrefix(added, db.rows)
              /\ Headers(added) = Headers(db.rows) => call[p].staged = StateOf(db)

\* The open transaction of a process that prunes.
PruneInv(p) ==
    /\ pc[p] = "prune_rows" =>
          IF writer = p
          THEN /\ Headers(wdb.rows) = Headers(db.rows)
               /\ StateOf(wdb) = StateOf(db)
               /\ Present(db.rows) # {}
               /\ \A i \in Eligible(chain[p]) \ call[p].todo :
                     wdb.rows[i] # None /\ wdb.rows[i].is_pruned
          ELSE call[p].todo = Eligible(chain[p])
    /\ pc[p] = "prune_chain" =>
          \A i \in Eligible(chain[p]) : db.rows[i] # None /\ db.rows[i].is_pruned

ProcessInv(p) ==
    /\ MemoryInv(p)
    /\ SyncInv(p)
    /\ StagedInv(p)
    /\ BlockInv(p)
    /\ AddInv(p)
    /\ PruneInv(p)

\* TypeOK, TablesInv and every ProcessInv hold in every reachable state and
\* are preserved together by every step of the store (chain_store.py:59-203).
IInv == TypeOK /\ TablesInv /\ \A p \in Process : ProcessInv(p)

-----------------------------------------------------------------------------
(* What the rows remember of the batches they came from, and how far they may *)
(* be pruned: inductive together with IInv.                                   *)

\* A genesis has no transactions, and every dropped body has MaxFullBlocks
\* blocks after it.
RowsInv(rows) ==
    /\ rows[0] # None => rows[0].merkle_root = None
    /\ \A i \in Present(rows) :
          rows[i].is_pruned => i + MaxFullBlocks \in Present(rows)

WithoutRow(tables, index) == [tables EXCEPT !.rows[index] = None]

\* In p's open transaction the ids are those of the rows, but for the ids of a
\* block that is inserted and whose ids are not.
OpenIdsInv(p) ==
    IF pc[p] \in {"upsert", "insert_ids"}
    THEN /\ wdb.rows[call[p].block.index] = call[p].block
         /\ IdsMatch(WithoutRow(wdb, call[p].block.index))
    ELSE IdsMatch(wdb)

ProcessHistoryInv(p) ==
    /\ chain[p][0] # None => chain[p][0].merkle_root = None
    /\ pc[p] \in Staging \ {"stage"} =>
          call[p].block.merkle_root = MerkleRoot(call[p].batch)
    /\ pc[p] = "prune_rows" => call[p].todo \subseteq Eligible(chain[p])
    /\ writer = p => OpenIdsInv(p)

\* The ids fit the rows and the dropped bodies the window, in the file and in
\* every open transaction (chain_store.py:80-108, 117-143).
HistoryInv ==
    /\ IdsMatch(db)
    /\ RowsInv(db.rows)
    /\ RowsInv(wdb.rows)
    /\ \A p \in Process : ProcessHistoryInv(p)

-----------------------------------------------------------------------------
(* What staging a batch has done to the balances: inductive together with     *)
(* IInv.                                                                      *)

\* The staged transactions of p's batch that use an id for the first time.
StagedFirstUses(p) ==
    {i \in 1 .. call[p].next - 1 :
        /\ call[p].batch[i].tx_id \notin state[p].applied_tx_ids
        /\ \A j \in 1 .. i - 1 : call[p].batch[j].tx_id # call[p].batch[i].tx_id}

StagedCredits(p, a) == {i \in StagedFirstUses(p) : call[p].batch[i].account = a}

Amounts(batch) == [i \in DOMAIN batch |-> batch[i].amount]

StagedBalance(p, a) ==
    IF StagedCredits(p, a) = {} THEN state[p].current_state[a]
    ELSE Credit(state[p].current_state[a],
                SumFunctionOnSet(Amounts(call[p].batch), StagedCredits(p, a)))

ProcessEffect(p) ==
    /\ pc[p] \in Staging =>
          \A a \in Account : call[p].staged.current_state[a] = StagedBalance(p, a)
    /\ pc[p] \in Staging \ {"stage"} => UnknownAccounts(p) = {}

\* The staged balances are those of memory with each new id credited once, and
\* past CreateBlock each account of the batch has one (state_delta.py:49-65).
EffectInv == \A p \in Process : ProcessEffect(p)
=============================================================================
