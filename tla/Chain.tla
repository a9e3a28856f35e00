------------------------------- MODULE Chain -------------------------------
(* The block list of a Chain (chain/chain.py) and the blocks a                *)
(* BlockchainPruner drops (pruning/blockchain_pruner.py).  Every list the     *)
(* program builds has strictly increasing block indices (a new block takes    *)
(* its predecessor's index plus one, a reload orders its rows by idx), so a   *)
(* list is the function from index to block, None where no block has it.      *)
EXTENDS Block

CONSTANT MaxFullBlocks   \* BlockchainPruner's retention window

ASSUME MaxFullBlocksAssumption == MaxFullBlocks \in Nat \ {0}

Chains == [Index -> Blocks \cup {None}]

NoChain == [i \in Index |-> None]

GENESIS_PREV_HASH == <<>>

NewChain(timestamp) ==
    [i \in Index |->
        IF i = 0 THEN Create(0, GENESIS_PREV_HASH, <<>>, timestamp) ELSE None]

Present(chain) == {i \in Index : chain[i] # None}

ChainLen(chain) == Cardinality(Present(chain))

\* Where block i stands in the list, counted from 0.
Position(chain, i) == Cardinality({j \in Present(chain) : j < i})

\* The index of blocks[-1].
LastIndex(chain) ==
    CHOOSE i \in Present(chain) : \A j \in Present(chain) : j <= i

NextBlock(chain, batch, timestamp) ==
    LET previous == chain[LastIndex(chain)]
    IN  Create(previous.index + 1, previous.hash, batch, timestamp)

AppendBlock(chain, block) == [chain EXCEPT ![block.index] = block]

Headers(chain) == [i \in Present(chain) |-> chain[i].hash]

\* Chain.validate_chain: indices without a gap, linkage, hashes, bodies.
ValidBlock(chain, i) ==
    LET block == chain[i]
    IN  /\ block.index = i
        /\ i # 0 => i - 1 \in Present(chain)
        /\ block.prev_hash = IF i = 0 THEN GENESIS_PREV_HASH ELSE chain[i - 1].hash
        /\ block.hash = ComputeHash(i, block.prev_hash, block.merkle_root, block.timestamp)
        /\ VerifyBody(block)

ValidateChain(chain) == \A i \in Present(chain) : ValidBlock(chain, i)

-----------------------------------------------------------------------------
MutantCutoff(chain) == ChainLen(chain)

Cutoff(chain) ==
    IF ChainLen(chain) > MaxFullBlocks THEN ChainLen(chain) - MaxFullBlocks ELSE 0

Eligible(chain) ==
    {i \in Present(chain) : Position(chain, i) < Cutoff(chain) /\ ~chain[i].is_pruned}

PruneBlocks(chain) ==
    [i \in Index |-> IF i \in Eligible(chain) THEN Prune(chain[i]) ELSE chain[i]]
=============================================================================
