------------------------------- MODULE Block -------------------------------
(* One block (chain/block.py).  The Merkle root and the header hash are ideal *)
(* commitments: a root is the sequence of leaves it commits to, a hash is the *)
(* hash it extends followed by the header fields it covers, so two of them    *)
(* are equal exactly when what they commit to is.  "body" stands for the      *)
(* fields transactions and compressed_body, which Block sets and drops        *)
(* together.                                                                  *)
EXTENDS StateDelta

CONSTANTS Batch,       \* the transaction lists clients submit, and <<>>
          Timestamp,   \* values of time.time()
          MaxBlocks    \* bound on the length of a chain

ASSUME BatchAssumption == Batch \subseteq Seq(Tx) /\ <<>> \in Batch /\ None \notin Batch

ASSUME MaxBlocksAssumption == MaxBlocks \in Nat /\ MaxBlocks >= 2

Index == 0 .. MaxBlocks - 1

Root == Batch \cup {None}

Hash == Seq([index : Index, merkle_root : Root, timestamp : Timestamp])

Blocks == [index : Index, prev_hash : Hash, timestamp : Timestamp,
           merkle_root : Root, hash : Hash,
           body : Batch \cup {None}, is_pruned : BOOLEAN]

ASSUME NoneIsNoBlock == None \notin Blocks

\* MerkleTree([]) has no root; get_root() then returns None.
MerkleRoot(txs) == IF txs = <<>> THEN None ELSE txs

ComputeHash(index, prev_hash, merkle_root, timestamp) ==
    Append(prev_hash, [index       |-> index,
                       merkle_root |-> merkle_root,
                       timestamp   |-> timestamp])

Create(index, prev_hash, txs, timestamp) ==
    [index       |-> index,
     prev_hash   |-> prev_hash,
     timestamp   |-> timestamp,
     merkle_root |-> MerkleRoot(txs),
     hash        |-> ComputeHash(index, prev_hash, MerkleRoot(txs), timestamp),
     body        |-> txs,
     is_pruned   |-> FALSE]

\* The hash is trusted, not recomputed; a pruned row has no transactions.
FromPersisted(row) ==
    IF row.is_pruned THEN [row EXCEPT !.body = None] ELSE row

MutantPrune(block) == [block EXCEPT !.body = None]

Prune(block) == [block EXCEPT !.body = None, !.is_pruned = TRUE]

VerifyBody(block) ==
    \/ block.is_pruned
    \/ block.body # None /\ MerkleRoot(block.body) = block.merkle_root
=============================================================================
