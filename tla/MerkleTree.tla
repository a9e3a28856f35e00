----------------------------- MODULE MerkleTree -----------------------------
(* Merkle trees over lists of transactions and their inclusion proofs         *)
(* (merkle/merkle_tree.py), used by somebody who publishes roots of lists,    *)
(* hands out proofs, and by somebody who checks a proof against the root that *)
(* is current then, which need not be the root the proof was made for.        *)
(*                                                                            *)
(* SHA-256 is ideal: a digest is the term that was hashed.  The prefixes 0x00 *)
(* and 0x01 keep the terms of leaves and nodes apart; here their length does. *)
EXTENDS Integers, Sequences

CONSTANTS Data,   \* the strings that leaves are made from
          None    \* no proof yet; no body

VARIABLES transactions,  \* the list the publisher's current tree is built from
          root,          \* the root of that tree
          held           \* the proof handed out last and what it was made for

vars == <<transactions, root, held>>

HashLeaf(data) == <<data>>

HashNode(left, right) == <<left, right>>

\* The root of an empty tree, for which get_root returns None.
NoRoot == <<>>

-----------------------------------------------------------------------------
\* Pairs from the left; an unpaired last node moves up unchanged.  The mutant
\* hashes it with itself.
MutantNextLevel(level) ==
    [k \in 1 .. (Len(level) + 1) \div 2 |->
        IF 2 * k <= Len(level) THEN HashNode(level[2 * k - 1], level[2 * k])
        ELSE HashNode(level[2 * k - 1], level[2 * k - 1])]

NextLevel(level) ==
    [k \in 1 .. (Len(level) + 1) \div 2 |->
        IF 2 * k <= Len(level) THEN HashNode(level[2 * k - 1], level[2 * k])
        ELSE level[2 * k - 1]]

\* What the loop of _build_levels makes of the leaves, which are at height 0,
\* if it does not stop at the root.
Heights(txs) ==
    LET level[h \in 0 .. Len(txs)] ==
            IF h = 0 THEN [i \in 1 .. Len(txs) |-> HashLeaf(txs[i])]
            ELSE NextLevel(level[h - 1])
    IN  level

\* self.levels, leaves first; <<>> for an empty list.
Levels(txs) ==
    LET level == Heights(txs)
        top   == CHOOSE h \in 0 .. Len(txs) :
                    Len(level[h]) = 1 /\ \A g \in 0 .. h - 1 : Len(level[g]) > 1
    IN  IF txs = <<>> THEN <<>> ELSE [h \in 1 .. top + 1 |-> level[h - 1]]

Root(txs) ==
    LET levels == Levels(txs)
    IN  IF levels = <<>> THEN NoRoot ELSE levels[Len(levels)][1]

-----------------------------------------------------------------------------
\* The step a level adds to the proof of the node at index (from 0): none when
\* the node was promoted without a sibling.
MutantStep(level, index) ==
    IF index % 2 = 0
    THEN IF index + 1 < Len(level)
         THEN <<[hash |-> level[index + 2], position |-> "right"]>> ELSE <<>>
    ELSE <<[hash |-> level[index], position |-> "right"]>>

Step(level, index) ==
    IF index % 2 = 0
    THEN IF index + 1 < Len(level)
         THEN <<[hash |-> level[index + 2], position |-> "right"]>> ELSE <<>>
    ELSE <<[hash |-> level[index], position |-> "left"]>>

\* One level up, with the proof so far.
Rise(place, level) ==
    [proof |-> place.proof \o Step(level, place.index), index |-> place.index \div 2]

\* The loop over levels[:-1].
Climb(levels, index) ==
    LET place[h \in 0 .. Len(levels) - 1] ==
            IF h = 0 THEN [proof |-> <<>>, index |-> index]
            ELSE Rise(place[h - 1], levels[h])
    IN  place

GetProof(txs, index) ==
    LET levels == Levels(txs) IN Climb(levels, index)[Len(levels) - 1].proof

Combine(node, step) ==
    IF step.position = "right" THEN HashNode(node, step.hash)
    ELSE HashNode(step.hash, node)

\* The loop over the steps of a proof.
Folded(tx, proof) ==
    LET current[k \in 0 .. Len(proof)] ==
            IF k = 0 THEN HashLeaf(tx) ELSE Combine(current[k - 1], proof[k])
    IN  current

VerifyProof(tx, proof, rootHash) ==
    rootHash # NoRoot /\ Folded(tx, proof)[Len(proof)] = rootHash

-----------------------------------------------------------------------------
Init ==
    /\ transactions = <<>>
    /\ root = NoRoot
    /\ held = None

\* MerkleTree(list): a tree is immutable, so a changed list is a new tree.
Publish(list) ==
    /\ transactions' = list
    /\ root' = Root(list)
    /\ UNCHANGED held

\* get_proof; it raises IndexError outside the list.
Prove(index) ==
    /\ held' = [tx |-> transactions[index + 1], proof |-> GetProof(transactions, index)]
    /\ UNCHANGED <<transactions, root>>

Next ==
    \/ \E list \in Seq(Data) : Publish(list)
    \/ \E index \in 0 .. Len(transactions) - 1 : Prove(index)

Spec == Init /\ [][Next]_vars

-----------------------------------------------------------------------------
\* Each transaction of the list has a proof that verifies under its root,
\* promoted nodes included (merkle_tree.py:66-110).
ProofsVerify ==
    \A i \in DOMAIN transactions :
        VerifyProof(transactions[i], GetProof(transactions, i - 1), root)

\* A proof made for any list that verifies under the current root shows a
\* transaction of the current list, at a position whose own proof it is: a
\* stale proof is never accepted for something else (merkle_tree.py:91-110).
AcceptedProofsAreTrue ==
    held # None =>
        \A tx \in Data : VerifyProof(tx, held.proof, root) =>
            \E i \in DOMAIN transactions :
                /\ transactions[i] = tx
                /\ GetProof(transactions, i - 1) = held.proof

\* Lists with different contents, order or length have different roots, so
\* that a list ending in a repeated transaction cannot pass for the shorter
\* one (merkle_tree.py:7-9).
RootBindsList == [][transactions' # transactions => root' # root]_vars

PowerOfTwo[e \in Nat] == IF e = 0 THEN 1 ELSE 2 * PowerOfTwo[e - 1]

\* MTH of RFC 6962: split at the largest power of two below the length.
SplitPoint(n) ==
    CHOOSE k \in {PowerOfTwo[e] : e \in 0 .. n} : k < n /\ n <= 2 * k

\* The hashes of the parts of a list by their lengths and where they start.
Part(hash, list, n, lo) ==
    IF n = 1 THEN HashLeaf(list[lo])
    ELSE HashNode(hash[SplitPoint(n)][lo], hash[n - SplitPoint(n)][lo + SplitPoint(n)])

Parts(list) ==
    LET hash[n \in 1 .. Len(list)] == [lo \in 1 .. Len(list) - n + 1 |-> Part(hash, list, n, lo)]
    IN  hash

RFC6962(list) == Parts(list)[Len(list)][1]

\* Promoting unpaired nodes gives the tree hash of RFC 6962, which is defined
\* from the top down (merkle_tree.py:3-9, 44-60).
RootIsRFC6962 == root = IF transactions = <<>> THEN NoRoot ELSE RFC6962(transactions)
=============================================================================
