---------------------------- MODULE ManualStore ----------------------------
(* The rest of the public interface beside ChainStore's coordinated calls:    *)
(* Chain.add_block and BlockchainPruner.prune, which know nothing of a file,  *)
(* ChainStore.append_block and mark_pruned, which know nothing of a chain,    *)
(* and Chain(state=...), which starts from a state of the caller's.           *)
EXTENDS ChainStoreSafety, FiniteSetsExt

CONSTANTS InjectedStates,   \* states callers pass to Chain(state=...)
          InjectedBlocks,   \* blocks callers make with Block(...) themselves
          ForeignIds,       \* ids given to append_block with blocks without them
          ManualProcess     \* the processes that make these calls

IsBlock(row) ==
    /\ row.hash = ComputeHash(row.index, row.prev_hash, row.merkle_root, row.timestamp)
    /\ VerifyBody(row)

ASSUME ManualAssumption ==
    /\ InjectedStates \subseteq States
    /\ InjectedBlocks \subseteq {block \in Blocks : IsBlock(block)}
    /\ ForeignIds \subseteq TxId
    /\ ManualProcess \subseteq Process

FL == INSTANCE SequencesExt

\* Chain(state=state): the chain keeps the caller's StateDelta.
StartInjected(p) ==
    /\ pc[p] \in {"down", "idle"}
    /\ \E s \in InjectedStates : state' = [state EXCEPT ![p] = s]
    /\ \E ts \in Timestamp : chain' = [chain EXCEPT ![p] = NewChain(ts)]
    /\ Goto(p, "idle")
    /\ UNCHANGED <<db, wdb, writer, call>>

\* Chain.add_block: state and block list change together, in memory only.
AddInMemory(p, batch) ==
    /\ pc[p] = "idle"
    /\ \A i \in DOMAIN batch : ValidTransaction(batch[i])
    /\ LastIndex(chain[p]) + 1 \in Index                \* bound: MaxBlocks
    /\ \E ts \in Timestamp :
          chain' = [chain EXCEPT ![p] = AppendBlock(@, NextBlock(@, batch, ts))]
    /\ state' = [state EXCEPT ![p] = FL!FoldLeft(ApplyTransaction, @, batch)]
    /\ UNCHANGED <<db, wdb, writer, pc, call>>

\* BlockchainPruner.prune
PruneInMemory(p) ==
    /\ pc[p] = "idle"
    /\ Eligible(chain[p]) # {}
    /\ chain' = [chain EXCEPT ![p] = PruneBlocks(@)]
    /\ UNCHANGED <<db, wdb, writer, pc, state, call>>

AppendRow(tables, block, ids, accounts, balances) ==
    InsertIds(Upsert(InsertRow(tables, block), accounts, balances), ids, block.index)

\* append_block(block, applied_tx_ids, updated_accounts): one transaction that
\* reads nothing before it takes the lock.  An IntegrityError, any other error,
\* a busy file and a crash within it change nothing.
AppendDirectly(p, block, ids, accounts, balances) ==
    /\ pc[p] = "idle"
    /\ writer = None
    /\ ~Conflict(db, block)
    /\ db' = AppendRow(db, block, ids, accounts, balances)
    /\ wdb' = db'
    /\ UNCHANGED <<writer, pc, chain, state, call>>

\* append_block checks none of its arguments: any block, its own chain's or
\* one the caller made, with any ids (ForeignIds may be all of TxId) and any
\* balances.
AppendAnything(p) ==
    \E block \in {chain[p][i] : i \in Present(chain[p])} \cup InjectedBlocks,
       s \in InjectedStates \cup {state[p]} :
          \E ids \in SUBSET (TxIds(BatchOf(block)) \cup ForeignIds),
             accounts \in SUBSET {a \in Account : s.current_state[a] # None} :
                AppendDirectly(p, block, ids, accounts, s.current_state)

\* _sync_block: the ids and accounts of the block's transactions, with the
\* balances the chain has now; a KeyError if an account has none.
SyncBlock(p, i) ==
    /\ i \in Present(chain[p])
    /\ LET batch == BatchOf(chain[p][i])
       IN  /\ \A a \in Accounts(batch) : state[p].current_state[a] # None
           /\ AppendDirectly(p, chain[p][i], TxIds(batch), Accounts(batch),
                             state[p].current_state)

\* mark_pruned(index): one statement, one transaction; KeyError and a busy file
\* change nothing.
MarkPrunedDirectly(p, i) ==
    /\ pc[p] = "idle"
    /\ writer = None
    /\ db.rows[i] # None
    /\ db' = MarkPruned(db, i)
    /\ wdb' = db'
    /\ UNCHANGED <<writer, pc, chain, state, call>>

InMemory(p) == (\E batch \in Batch : AddInMemory(p, batch)) \/ PruneInMemory(p)

Manual(p) ==
    \/ InMemory(p) \/ StartInjected(p) \/ AppendAnything(p)
    \/ \E i \in Index : MarkPrunedDirectly(p, i)

ManualNext == Next \/ \E p \in ManualProcess : Manual(p)

\* Everything the interface offers, in any order, beside processes that make
\* the coordinated calls only.
ManualSpec == Init /\ [][ManualNext]_vars

\* Coordinated calls over chains that start from a caller's state.
InjectedSpec == Init /\ [][Next \/ \E p \in ManualProcess : StartInjected(p)]_vars

\* Coordinated calls by processes that also grow their chain in memory.
InMemorySpec == Init /\ [][Next \/ \E p \in ManualProcess : InMemory(p)]_vars

\* In-memory chains persisted afterwards, block by block.
SyncSpec == Init /\ [][Next \/ \E p \in ManualProcess :
                          InMemory(p) \/ \E i \in Index : SyncBlock(p, i)]_vars

-----------------------------------------------------------------------------
\* A block that add_block commits goes on top of the chain it was computed
\* from: everything its process has in memory is then in the file, whatever the
\* other calls did to the file meanwhile (chain_store.py:86-90, 145-155).
AddExtendsFile ==
    [][\A p \in Process :
          pc[p] = "commit_add" /\ pc'[p] = "apply"
          => HeaderPrefix(AppendBlock(chain[p], call[p].block), db'.rows)]_vars

IdsRefer(tables) ==
    \A t \in AppliedIds(tables) :
        LET row == tables.rows[tables.tids[t]]
        IN  row # None /\ (t \in TxIds(BatchOf(row)) \/ t \in ForeignIds)

\* Each applied id has a row, and the row's header commits to a transaction
\* with that id, unless the id is one that callers give to append_block with
\* blocks that do not carry it, which nothing checks.  Such calls, replays and
\* rollbacks do not move the other ids (chain_store.py:33-36, 59-69, 140-143).
IdsReferToRows == IdsRefer(db)

HasBlocks(rows) == \A i \in Present(rows) : rows[i].index = i /\ IsBlock(rows[i])

\* Every row is a block whose hash is that of its own header and whose body is
\* the one committed to or is marked as dropped, even where rows of different
\* chains meet in one file (block.py:40-46, 116-141; chain_store.py:117-132).
RowsAreBlocks == HasBlocks(db.rows)

\* The first transaction with id t that the file's blocks hold.
FirstTx(t) ==
    LET batch == BatchOf(db.rows[db.tids[t]])
    IN  batch[CHOOSE i \in DOMAIN batch :
                 /\ batch[i].tx_id = t
                 /\ \A j \in 1 .. i - 1 : batch[j].tx_id # t]

\* The persisted balances are the effects of the persisted transactions, once
\* each, and of nothing else (main.py:37-47, chain_store.py:59-69).
BalancesArePersistedEffects ==
    \A a \in Account :
        LET credits == {t \in AppliedIds(db) : FirstTx(t).account = a}
            amount(t) == FirstTx(t).amount
        IN  db.balances[a] = IF credits = {} THEN None
                             ELSE MapThenSumSet(amount, credits)
=============================================================================
