------------------------------- MODULE Ledger -------------------------------
(* What a replay-protected chain promises, with no blocks, hashes, rows,      *)
(* processes or locks: an append-only log of batches together with balances   *)
(* to which every transaction id of the log has been credited exactly once,   *)
(* by the first transaction that carries it.                                  *)
EXTENDS StateDelta, Functions

VARIABLES log,        \* the batches, in order
          balances,   \* account -> balance, or None
          applied     \* ids of the transactions in the log

\* The positions of a batch that use an id for the first time.
FirstUses(batch) ==
    {i \in DOMAIN batch : /\ batch[i].tx_id \notin applied
                          /\ \A j \in 1 .. i - 1 : batch[j].tx_id # batch[i].tx_id}

\* Those of them that credit account a.
Credits(batch, a) == {i \in FirstUses(batch) : batch[i].account = a}

Credited(batch, a) ==
    LET amounts == [i \in DOMAIN batch |-> batch[i].amount]
    IN  IF Credits(batch, a) = {} THEN balances[a]
        ELSE Credit(balances[a], SumFunctionOnSet(amounts, Credits(batch, a)))

Init ==
    /\ log = <<>>
    /\ balances = [a \in Account |-> None]
    /\ applied = {}

AppendBatch(batch) ==
    /\ log' = Append(log, batch)
    /\ balances' = [a \in Account |-> Credited(batch, a)]
    /\ applied' = applied \cup TxIds(batch)
    /\ \A a \in Accounts(batch) : balances'[a] # None

\* The batch an implementation appends is the last of its new log.
Next == log' # <<>> /\ AppendBatch(log'[Len(log')])

Spec == Init /\ [][Next]_<<log, balances, applied>>
=============================================================================
