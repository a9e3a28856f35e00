---------------------------- MODULE MCChainStore ----------------------------
(* Two processes, two accounts, two transaction ids.                          *)
EXTENDS ChainStoreInvariant, TLC

CONSTANTS p1, p2, a, b, t, u, noon, later

Tx1 == [tx_id |-> t, account |-> a, amount |-> 1]
Tx2 == [tx_id |-> u, account |-> b, amount |-> 2]
Tx3 == [tx_id |-> t, account |-> b, amount |-> 1]   \* t again, other account
Tx4 == [tx_id |-> u, account |-> a, amount |-> None]  \* malformed

MCTx == {Tx1, Tx2, Tx3, Tx4}

\* <<Tx3>> after <<Tx1>> is a replay whose account has no balance; <<Tx3, Tx2>>
\* a replay beside a new transaction; <<Tx2, Tx2>> one id twice in a batch.
MCBatch == {<<>>, <<Tx1>>, <<Tx3>>, <<Tx3, Tx2>>, <<Tx2, Tx2>>, <<Tx1, Tx4>>}

MCPlainBatch == {<<>>, <<Tx1>>, <<Tx2>>}
MCClockBatch == {<<>>, <<Tx2>>, <<Tx3>>}
MCReplayBatch == {<<>>, <<Tx3>>}

Symmetry == Permutations(Process) \cup Permutations(Timestamp)
=============================================================================
