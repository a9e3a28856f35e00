----------------------------- MODULE StateDelta -----------------------------
(* Account state with idempotent transactions (compression/state_delta.py).  *)
(* A Python dictionary account -> balance is a total function whose value    *)
(* None says that the key is absent: an absent account reads as 0 when it is *)
(* credited but is not the same thing as an account whose balance is 0.      *)
EXTENDS Integers, Sequences, FiniteSets

CONSTANTS Account,   \* account names
          TxId,      \* transaction identifiers
          Tx,        \* the transactions clients submit
          None       \* absent key, dropped body, empty Merkle root, nobody

ASSUME NoneAssumption == None \notin Int

\* amount = None stands for every transaction validate_transaction rejects.
ASSUME TxAssumption ==
    Tx \subseteq [tx_id : TxId, account : Account, amount : Int \cup {None}]

Balances == [Account -> Int \cup {None}]

States == [current_state : Balances, applied_tx_ids : SUBSET TxId]

EmptyState == [current_state  |-> [a \in Account |-> None],
               applied_tx_ids |-> {}]

ValidTransaction(tx) == tx.amount \in Int

Credit(balance, amount) == (IF balance = None THEN 0 ELSE balance) + amount

MutantReplayed(s, tx) == FALSE

Replayed(s, tx) == tx.tx_id \in s.applied_tx_ids

ApplyTransaction(s, tx) ==
    IF Replayed(s, tx)
    THEN s
    ELSE [current_state  |-> [s.current_state EXCEPT
                                 ![tx.account] = Credit(@, tx.amount)],
          applied_tx_ids |-> s.applied_tx_ids \cup {tx.tx_id}]

\* The transaction ids and the accounts that a batch names, replays included.
TxIds(batch)    == {batch[i].tx_id   : i \in DOMAIN batch}
Accounts(batch) == {batch[i].account : i \in DOMAIN batch}
=============================================================================
