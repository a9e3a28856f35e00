--------------------------- MODULE MCManualStore ---------------------------
(* Processes that use the whole interface on one file.                        *)
EXTENDS ManualStoreInvariant, TLC

CONSTANTS p1, p2, a, t, u, noon

Tx1 == [tx_id |-> t, account |-> a, amount |-> 1]
Tx2 == [tx_id |-> u, account |-> a, amount |-> 2]

MCTx == {Tx1, Tx2}
\* Two different transactions that credit one account.
MCBatch == {<<>>, <<Tx1>>, <<Tx2>>}

\* The batches where append_block is given any ids: u is then an id that no
\* block carries.
MCOneBatch == {<<>>, <<Tx1>>}

\* A balance somebody brings along.
MCInjectedStates == {[current_state |-> [x \in Account |-> 1], applied_tx_ids |-> {t}]}

\* A block somebody makes by hand, on top of nothing in the file.
MCInjectedBlocks == {Create(1, GENESIS_PREV_HASH, <<Tx1>>, noon)}

Symmetry == Permutations(Process)
=============================================================================
