------------------------ MODULE ManualStoreInvariant ------------------------
(* The inductive invariant behind the safety properties of ManualStore.  It   *)
(* cannot speak of prefixes of one chain, as that of ChainStoreInvariant     *)
(* does: rows of several chains may meet in one file.                        *)
EXTENDS ManualStore

TablesSound ==
    /\ HasBlocks(db.rows) /\ IdsRefer(db)
    /\ HasBlocks(wdb.rows) /\ IdsRefer(wdb)
    /\ Extends(db, wdb)
    /\ writer = None => wdb = db

\* A chain without a genesis was loaded, so the file is not empty.
ChainSound(p) ==
    /\ HasBlocks(chain[p])
    /\ pc[p] # "down" => Present(chain[p]) # {}
    /\ Present(db.rows) = {} /\ pc[p] # "down" => 0 \in Present(chain[p])

Holding == {"ensure", "insert_genesis", "insert_block", "upsert", "insert_ids",
            "commit_add", "apply"}

Writing == {"upsert", "insert_ids", "commit_add"}

CallSound(p) ==
    /\ pc[p] = "stage" =>
          /\ \A i \in DOMAIN call[p].batch : ValidTransaction(call[p].batch[i])
          /\ call[p].next >= 1
          /\ LastIndex(chain[p]) + 1 \in Index
    /\ pc[p] \in Holding =>
          /\ call[p].block # None
          /\ IsBlock(call[p].block)
          /\ BatchOf(call[p].block) = call[p].batch
    /\ pc[p] = "insert_genesis" => Present(chain[p]) = {0}

\* The transaction that p has open.
WriterSound(p) ==
    /\ writer = p => pc[p] \in Writing \cup {"insert_block", "prune_rows"}
    /\ pc[p] \in Writing =>
          writer = p /\ wdb.rows[call[p].block.index] = call[p].block

\* What p has in memory is in the file, or in its own transaction, when
\* add_block inserts the next block.
OnTop(p) ==
    pc[p] \in {"insert_block"} \cup Writing
        => HeaderPrefix(chain[p], IF writer = p THEN wdb.rows ELSE db.rows)

ProcessSound(p) == ChainSound(p) /\ CallSound(p) /\ WriterSound(p) /\ OnTop(p)

\* Whatever calls are made, in whatever order and with whatever ids and balances
\* append_block is given, tables and chains have blocks only, an applied id has
\* a row, which carries it unless append_block was given it with another, and a
\* process that writes holds the lock and everything its memory has
\* (chain_store.py:59-143).
ManualInv == TypeOK /\ TablesSound /\ \A p \in Process : ProcessSound(p)
=============================================================================
