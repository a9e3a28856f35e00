-------------------------- MODULE ManualStoreProofs --------------------------
(* ManualInv is an invariant of the store when its whole interface is used in *)
(* any order and append_block is given any ids and balances: the file has     *)
(* blocks only, ids not given to append_block with other blocks refer to rows *)
(* that carry them, the file only grows, and add_block commits on top of what *)
(* its process has in memory.                                                 *)
EXTENDS ManualStoreInvariant, ChainStoreProofs, Induction

-----------------------------------------------------------------------------
(* Facts about the operators.                                                *)

\* g has the states after the transactions of batch in the index sets in D.
StatesAfter(g, s, batch, D) ==
    g = [r \in D |-> IF r = {} THEN s
                     ELSE ApplyTransaction(g[r \ {FL!Max(r)}], batch[FL!Max(r)])]

LEMMA LargestElement ==
  ASSUME NEW n \in Nat, NEW r \in SUBSET (0 .. n), r # {}
  PROVE  \E x \in r : \A y \in r : y <= x
<1> DEFINE T == {n - i : i \in r}
<1>1. T \in SUBSET Nat /\ T # {}
  <2>1. \A i \in r : n - i \in Nat
    OBVIOUS
  <2>2. QED
    BY <2>1
<1>2. PICK m \in T : \A k \in T : m <= k
  <2> HIDE DEF T
  <2>1. QED
    BY <1>1, LeastElement
<1>3. PICK x \in r : m = n - x
  OBVIOUS
<1>4. \A y \in r : n - x <= n - y
  BY <1>2, <1>3
<1>5. QED
  BY <1>4

LEMMA LargestIndex ==
  ASSUME NEW n \in Nat, NEW r \in SUBSET (1 .. n), r # {}
  PROVE  FL!Max(r) \in r
<1>1. r \in SUBSET (0 .. n)
  OBVIOUS
<1>2. PICK x \in r : \A y \in r : y <= x
  BY <1>1, LargestElement
<1>3. \A y \in r : x >= y
  BY <1>1, <1>2
<1>4. QED
  BY <1>3 DEF FL!Max

\* The fold over a list of transactions is computed from smaller sets of its
\* indices.
LEMMA StatesExist ==
  ASSUME NEW n \in Nat, NEW s, NEW batch
  PROVE  \E g : StatesAfter(g, s, batch, SUBSET (1 .. n))
<1> DEFINE S == 1 .. n
           D(k) == {r \in SUBSET S : Cardinality(r) <= k}
           P == {k \in Nat : \E g : StatesAfter(g, s, batch, D(k))}
<1>1. IsFiniteSet(S) /\ \A r \in SUBSET S : IsFiniteSet(r) /\ Cardinality(r) \in Nat
  <2>1. IsFiniteSet(S)
    BY FS_Interval
  <2> HIDE DEF S
  <2>2. QED
    BY <2>1, FS_Subset, FS_CardinalityType
<1>2. 0 \in P
  <2>1. D(0) = {{}}
    BY <1>1, FS_EmptySet
  <2>2. StatesAfter([r \in {{}} |-> s], s, batch, {{}})
    BY DEF StatesAfter
  <2>3. QED
    BY <2>1, <2>2
<1>3. ASSUME NEW k \in Nat, k \in P PROVE k + 1 \in P
  <2>1. PICK g : StatesAfter(g, s, batch, D(k))
    BY <1>3
  <2> DEFINE h == [r \in D(k + 1) |->
                      IF r \in D(k) THEN g[r]
                      ELSE ApplyTransaction(g[r \ {FL!Max(r)}], batch[FL!Max(r)])]
  <2>2. ASSUME NEW r \in D(k + 1), r # {} PROVE r \ {FL!Max(r)} \in D(k)
    <3>1. FL!Max(r) \in r
      BY <2>2, LargestIndex
    <3>2. Cardinality(r \ {FL!Max(r)}) = Cardinality(r) - 1
      BY <1>1, <3>1, FS_RemoveElement
    <3>3. Cardinality(r) \in Nat /\ Cardinality(r) <= k + 1 /\ r \ {FL!Max(r)} \in SUBSET S
      BY <1>1
    <3>4. Cardinality(r \ {FL!Max(r)}) <= k
      BY <3>2, <3>3
    <3>5. QED
      BY <3>3, <3>4
  <2>3. D(k) \subseteq D(k + 1) /\ {} \in D(k)
    BY <1>1, FS_EmptySet
  <2>4. ASSUME NEW r \in D(k + 1)
        PROVE  h[r] = IF r = {} THEN s
                      ELSE ApplyTransaction(h[r \ {FL!Max(r)}], batch[FL!Max(r)])
    <3>1. r # {} => r \ {FL!Max(r)} \in D(k) /\ r \ {FL!Max(r)} \in D(k + 1)
      BY <2>2, <2>3
    <3>2. r \in D(k) =>
             g[r] = IF r = {} THEN s
                    ELSE ApplyTransaction(g[r \ {FL!Max(r)}], batch[FL!Max(r)])
      BY <2>1 DEF StatesAfter
    <3> HIDE DEF D
    <3>3. QED
      BY <2>3, <3>1, <3>2
  <2>5. StatesAfter(h, s, batch, D(k + 1))
    <3> HIDE DEF D
    <3>1. QED
      BY <2>4 DEF StatesAfter
  <2> HIDE DEF h, D
  <2>6. QED
    BY <2>5
<1>4. Cardinality(S) \in P
  <2>1. Cardinality(S) \in Nat
    BY <1>1
  <2> HIDE DEF P
  <2>2. QED
    BY <1>2, <1>3, <2>1, NumbersInduction
<1>5. D(Cardinality(S)) = SUBSET S
  <2> HIDE DEF S
  <2>1. QED
    BY <1>1, FS_Subset
<1>6. QED
  BY <1>4, <1>5

\* Applying a valid batch to a state gives a state (chain.py:40-66).
LEMMA FoldedState ==
  ASSUME NEW s \in States, NEW batch \in Batch,
         \A i \in DOMAIN batch : ValidTransaction(batch[i])
  PROVE  FL!FoldLeft(ApplyTransaction, s, batch) \in States
<1> DEFINE n == Len(batch)
           S == 1 .. n
<1>1. n \in Nat /\ DOMAIN batch = S /\ \A i \in S : batch[i] \in Tx
  BY BatchAssumption
<1> DEFINE after == CHOOSE g : StatesAfter(g, s, batch, SUBSET S)
<1>2. FL!FoldLeft(ApplyTransaction, s, batch) = after[S]
  BY <1>1 DEF FL!FoldLeft, FL!MapThenFoldSet, StatesAfter
<1>3. StatesAfter(after, s, batch, SUBSET S)
  <2>1. \E g : StatesAfter(g, s, batch, SUBSET S)
    BY <1>1, StatesExist
  <2>2. QED
    BY <2>1
<1> DEFINE F == {r \in SUBSET S : after[r] \in States}
<1>4. {} \in F
  BY <1>3 DEF StatesAfter
<1>5. ASSUME NEW r \in SUBSET S, r # {}, \A x \in r : r \ {x} \in F PROVE r \in F
  <2>1. FL!Max(r) \in r
    BY <1>1, <1>5, LargestIndex
  <2>2. after[r] = ApplyTransaction(after[r \ {FL!Max(r)}], batch[FL!Max(r)])
    BY <1>3, <1>5 DEF StatesAfter
  <2>3. after[r \ {FL!Max(r)}] \in States /\ batch[FL!Max(r)] \in Tx
        /\ ValidTransaction(batch[FL!Max(r)])
    BY <1>1, <1>5, <2>1
  <2> HIDE DEF after
  <2>4. QED
    BY <2>2, <2>3, ApplyTransactionFacts
<1>6. S \in F
  <2>1. IsFiniteSet(S)
    BY <1>1, FS_Interval
  <2> HIDE DEF F, S
  <2>2. \A r \in SUBSET S : r \in F
    BY <1>4, <1>5, <2>1, SubsetsInduction
  <2>3. QED
    BY <2>2
<1>7. QED
  BY <1>2, <1>6

-----------------------------------------------------------------------------
(* Chains of blocks that may have gaps.                                      *)

LEMMA LastIndexLast ==
  ASSUME NEW c \in Chains, Present(c) # {}
  PROVE  LastIndex(c) \in Present(c) /\ \A j \in Present(c) : j <= LastIndex(c)
<1>1. MaxBlocks - 1 \in Nat /\ Present(c) \in SUBSET (0 .. MaxBlocks - 1)
  BY MaxBlocksAssumption DEF Present, Index
<1>2. \E x \in Present(c) : \A y \in Present(c) : y <= x
  BY <1>1, LargestElement
<1>3. QED
  BY <1>2 DEF LastIndex

LEMMA ValidHasBlocks ==
  ASSUME NEW c \in Chains, WellFormed(c)
  PROVE  HasBlocks(c)
BY DEF WellFormed, ValidateChain, ValidBlock, HasBlocks, IsBlock

\* What a chain computes to add is a block for the index after its last.
LEMMA NextBlockSound ==
  ASSUME NEW c \in Chains, HasBlocks(c), Present(c) # {}, LastIndex(c) + 1 \in Index,
         NEW txs \in Batch, NEW ts \in Timestamp
  PROVE  LET b == NextBlock(c, txs, ts)
         IN  /\ b \in Blocks /\ b # None /\ IsBlock(b) /\ BatchOf(b) = txs
             /\ b.index \notin Present(c)
<1> DEFINE m == LastIndex(c)
           b == NextBlock(c, txs, ts)
<1>1. m \in Present(c) /\ m \in Int /\ \A j \in Present(c) : j \in Int /\ j <= m
  BY LastIndexLast DEF Present, Index
<1>2. c[m] \in Blocks /\ c[m].index = m /\ c[m].hash \in Hash
  BY <1>1, PresentFacts DEF HasBlocks, Blocks
<1> HIDE DEF m
<1>3. b = Create(m + 1, c[m].hash, txs, ts) /\ m + 1 \in Index
  BY <1>2 DEF NextBlock, m
<1> HIDE DEF b
<1>4. /\ b \in Blocks /\ VerifyBody(b) /\ b.index = m + 1
      /\ b.hash = ComputeHash(b.index, b.prev_hash, b.merkle_root, b.timestamp)
      /\ b.merkle_root = MerkleRoot(txs)
  BY <1>2, <1>3, CreateFacts
<1>5. BatchOf(b) = txs
  BY <1>4, BatchAssumption DEF BatchOf, MerkleRoot
<1>6. m + 1 \notin Present(c)
  BY <1>1
<1>7. QED
  BY <1>4, <1>5, <1>6, NoneIsNoBlock DEF b, IsBlock

LEMMA AppendSound ==
  ASSUME NEW c \in Chains, HasBlocks(c), NEW b \in Blocks, IsBlock(b)
  PROVE  /\ AppendBlock(c, b) \in Chains /\ HasBlocks(AppendBlock(c, b))
         /\ Present(AppendBlock(c, b)) = Present(c) \cup {b.index}
<1> DEFINE d == AppendBlock(c, b)
<1>1. b.index \in Index /\ b # None
  BY NoneIsNoBlock DEF Blocks
<1>2. /\ d \in Chains /\ d[b.index] = b
      /\ \A i \in Index \ {b.index} : d[i] = c[i]
  BY <1>1 DEF AppendBlock, Chains
<1> HIDE DEF d
<1>3. Present(d) = Present(c) \cup {b.index}
  BY <1>1, <1>2 DEF Present
<1>4. ASSUME NEW i \in Present(d) PROVE d[i].index = i /\ IsBlock(d[i])
  <2>1. i = b.index \/ (i \in Present(c) /\ i # b.index /\ i \in Index)
    BY <1>3 DEF Present
  <2>2. QED
    BY <1>2, <2>1 DEF HasBlocks
<1>5. QED
  BY <1>2, <1>3, <1>4 DEF d, HasBlocks

\* Blocks with the same header fields and an acceptable body are blocks.
LEMMA SameFieldsSound ==
  ASSUME NEW c \in Chains, HasBlocks(c), NEW d, Present(d) = Present(c),
         \A i \in Present(c) : SameHeaderFields(c[i], d[i]) /\ VerifyBody(d[i])
  PROVE  HasBlocks(d)
BY DEF HasBlocks, IsBlock, SameHeaderFields

LEMMA PruneBlocksSound ==
  ASSUME NEW c \in Chains, HasBlocks(c)
  PROVE  /\ PruneBlocks(c) \in Chains /\ Present(PruneBlocks(c)) = Present(c)
         /\ HasBlocks(PruneBlocks(c))
<1> DEFINE d == PruneBlocks(c)
<1>1. d = [i \in Index |-> IF i \in Eligible(c) THEN Prune(c[i]) ELSE c[i]]
  BY DEF PruneBlocks
<1>2. ASSUME NEW i \in Present(c)
      PROVE  /\ d[i] \in Blocks /\ d[i] # None
             /\ SameHeaderFields(c[i], d[i]) /\ VerifyBody(d[i])
  <2>1. c[i] \in Blocks /\ VerifyBody(c[i]) /\ i \in Index /\ c[i] # None
    BY PresentFacts DEF HasBlocks, IsBlock
  <2>2. CASE i \in Eligible(c)
    <3>1. d[i] = Prune(c[i])
      BY <1>1, <2>1, <2>2
    <3>2. QED
      BY <3>1, <2>1, PruneFacts DEF SameHeaderFields, VerifyBody
  <2>3. CASE i \notin Eligible(c)
    <3>1. d[i] = c[i]
      BY <1>1, <2>1, <2>3
    <3>2. QED
      BY <3>1, <2>1 DEF SameHeaderFields
  <2>4. QED
    BY <2>2, <2>3
<1>3. \A i \in Index : i \notin Present(c) => d[i] = None
  BY <1>1, PresentFacts DEF Eligible
<1>4. d \in Chains
  <2>1. \A i \in Index : d[i] \in Blocks \cup {None}
    BY <1>2, <1>3
  <2>2. QED
    BY <2>1, <1>1 DEF Chains
<1>5. Present(d) = Present(c)
  BY <1>2, <1>3 DEF Present
<1> HIDE DEF d
<1>6. QED
  BY <1>2, <1>4, <1>5, SameFieldsSound DEF d

LEMMA LoadedSound ==
  ASSUME NEW c \in Chains, HasBlocks(c), NEW d,
         d = [i \in Index |-> IF c[i] = None THEN None ELSE FromPersisted(c[i])]
  PROVE  d \in Chains /\ HasBlocks(d) /\ Present(d) = Present(c)
<1>1. ASSUME NEW i \in Present(c)
      PROVE  /\ d[i] \in Blocks /\ d[i] # None
             /\ SameHeaderFields(c[i], d[i]) /\ VerifyBody(d[i])
  <2>1. c[i] \in Blocks /\ VerifyBody(c[i]) /\ i \in Index /\ c[i] # None
    BY PresentFacts DEF HasBlocks, IsBlock
  <2>2. d[i] = FromPersisted(c[i])
    BY <2>1
  <2>3. QED
    BY <2>1, <2>2, FromPersistedFacts DEF SameHeaderFields
<1>2. \A i \in Index : i \notin Present(c) => d[i] = None
  BY PresentFacts
<1>3. d \in Chains
  <2>1. \A i \in Index : d[i] \in Blocks \cup {None}
    BY <1>1, <1>2
  <2>2. QED
    BY <2>1 DEF Chains
<1>4. Present(d) = Present(c)
  BY <1>1, <1>2 DEF Present
<1>5. QED
  BY <1>1, <1>3, <1>4, SameFieldsSound

-----------------------------------------------------------------------------
(* Tables whose rows are blocks.                                             *)

TablesOf(t) == t \in Tables /\ HasBlocks(t.rows) /\ IdsRefer(t)

\* Ids stay with rows that keep their batches.
LEMMA IdsStay ==
  ASSUME NEW t \in Tables, IdsRefer(t), NEW u, u.tids = t.tids,
         \A i \in Present(t.rows) :
            u.rows[i] # None /\ u.rows[i].merkle_root = t.rows[i].merkle_root
  PROVE  IdsRefer(u)
<1>1. AppliedIds(u) = AppliedIds(t)
  BY DEF AppliedIds
<1>2. ASSUME NEW x \in AppliedIds(t)
      PROVE  /\ u.rows[u.tids[x]] # None
             /\ x \in TxIds(BatchOf(u.rows[u.tids[x]])) \/ x \in ForeignIds
  <2>1. t.tids[x] \in Index
    BY DEF AppliedIds, Tables
  <2>2. /\ t.rows[t.tids[x]] # None
        /\ x \in TxIds(BatchOf(t.rows[t.tids[x]])) \/ x \in ForeignIds
    BY DEF IdsRefer
  <2>3. BatchOf(u.rows[t.tids[x]]) = BatchOf(t.rows[t.tids[x]])
        /\ u.rows[t.tids[x]] # None
    BY <2>1, <2>2 DEF Present, BatchOf
  <2>4. QED
    BY <2>2, <2>3
<1>3. QED
  BY <1>1, <1>2 DEF IdsRefer

LEMMA MarkPrunedSound ==
  ASSUME NEW t, TablesOf(t), NEW i \in Index, t.rows[i] # None
  PROVE  TablesOf(MarkPruned(t, i)) /\ Extends(t, MarkPruned(t, i))
<1> DEFINE u == MarkPruned(t, i)
<1>1. t \in Tables /\ t.rows \in Chains /\ t.rows[i] \in Blocks /\ i \in Present(t.rows)
  BY DEF TablesOf, Tables, Chains, Present
<1>2. /\ u = [rows |-> [t.rows EXCEPT ![i] = Prune(t.rows[i])],
              balances |-> t.balances, tids |-> t.tids]
      /\ u.rows = [t.rows EXCEPT ![i] = Prune(t.rows[i])]
      /\ u.balances = t.balances /\ u.tids = t.tids
  BY <1>1 DEF MarkPruned, Tables
<1> HIDE DEF u
<1>3. /\ Prune(t.rows[i]) \in Blocks /\ Prune(t.rows[i]) # None
      /\ Prune(t.rows[i]).is_pruned /\ VerifyBody(Prune(t.rows[i]))
      /\ SameHeaderFields(t.rows[i], Prune(t.rows[i]))
  BY <1>1, PruneFacts DEF VerifyBody, SameHeaderFields
<1>4. /\ u.rows \in Chains /\ u.rows[i] = Prune(t.rows[i])
      /\ \A j \in Index \ {i} : u.rows[j] = t.rows[j]
  BY <1>1, <1>2, <1>3 DEF Chains
<1>5. Present(u.rows) = Present(t.rows)
  BY <1>1, <1>3, <1>4 DEF Present
<1>6. ASSUME NEW j \in Present(t.rows)
      PROVE  /\ SameHeaderFields(t.rows[j], u.rows[j]) /\ VerifyBody(u.rows[j])
             /\ t.rows[j].is_pruned => u.rows[j].is_pruned
             /\ u.rows[j] # None
  <2>1. VerifyBody(t.rows[j]) /\ j \in Index /\ t.rows[j] # None
    BY DEF TablesOf, HasBlocks, IsBlock, Present
  <2>2. CASE j = i
    BY <1>3, <1>4, <2>2
  <2>3. CASE j # i
    BY <1>4, <2>1, <2>3 DEF SameHeaderFields
  <2>4. QED
    BY <2>2, <2>3
<1>7. HasBlocks(u.rows)
  BY <1>1, <1>5, <1>6, SameFieldsSound DEF TablesOf
<1>8. u \in Tables
  BY <1>1, <1>2, <1>4 DEF Tables
<1>9. IdsRefer(u)
  <2>1. \A j \in Present(t.rows) :
           u.rows[j] # None /\ u.rows[j].merkle_root = t.rows[j].merkle_root
    BY <1>6 DEF SameHeaderFields
  <2>2. IdsRefer(t) /\ u.tids = t.tids
    BY <1>2 DEF TablesOf
  <2>3. QED
    BY <1>1, <2>1, <2>2, IdsStay
<1>10. Extends(t, u)
  BY <1>2, <1>6 DEF Extends, HeaderPrefix, SameHeaderFields
<1>11. QED
  BY <1>7, <1>8, <1>9, <1>10 DEF u, TablesOf

LEMMA InsertRowSound ==
  ASSUME NEW t, TablesOf(t), NEW b \in Blocks, IsBlock(b), t.rows[b.index] = None
  PROVE  /\ TablesOf(InsertRow(t, b)) /\ Extends(t, InsertRow(t, b))
         /\ InsertRow(t, b).rows[b.index] = b
<1> DEFINE u == InsertRow(t, b)
<1>1. t \in Tables /\ t.rows \in Chains /\ b.index \in Index /\ b # None
  BY NoneIsNoBlock DEF TablesOf, Tables, Blocks
<1>2. /\ u = [rows |-> AppendBlock(t.rows, b), balances |-> t.balances, tids |-> t.tids]
      /\ u.rows = AppendBlock(t.rows, b) /\ u.tids = t.tids
  BY <1>1 DEF InsertRow, AppendBlock, Tables
<1> HIDE DEF u
<1>3. u.rows \in Chains /\ HasBlocks(u.rows)
  BY <1>1, <1>2, AppendSound DEF TablesOf
<1>4. /\ u.rows[b.index] = b
      /\ \A i \in Index \ {b.index} : u.rows[i] = t.rows[i]
  BY <1>1, <1>2 DEF AppendBlock, Chains
<1>5. \A i \in Present(t.rows) : u.rows[i] = t.rows[i] /\ u.rows[i] # None
  BY <1>4 DEF Present
<1>6. u \in Tables
  BY <1>1, <1>2, <1>3 DEF Tables
<1>7. IdsRefer(u)
  BY <1>1, <1>2, <1>5, IdsStay DEF TablesOf
<1>8. Extends(t, u)
  BY <1>2, <1>5 DEF Extends, HeaderPrefix
<1>9. QED
  BY <1>3, <1>4, <1>6, <1>7, <1>8 DEF u, TablesOf

LEMMA InsertIdsSound ==
  ASSUME NEW t, TablesOf(t), NEW i \in Index, t.rows[i] # None,
         NEW ids \in SUBSET TxId, ids \subseteq TxIds(BatchOf(t.rows[i])) \cup ForeignIds
  PROVE  /\ TablesOf(InsertIds(t, ids, i)) /\ Extends(t, InsertIds(t, ids, i))
         /\ InsertIds(t, ids, i).rows = t.rows
<1> DEFINE u == InsertIds(t, ids, i)
           tids == [x \in TxId |-> IF x \in ids /\ t.tids[x] = None THEN i ELSE t.tids[x]]
<1>1. t \in Tables /\ i # None
  BY NoneAssumption DEF TablesOf, Index
<1>2. /\ u = [rows |-> t.rows, balances |-> t.balances, tids |-> tids]
      /\ u.rows = t.rows /\ u.tids = tids
  BY <1>1 DEF InsertIds, Tables
<1>3. tids \in [TxId -> Index \cup {None}]
  BY <1>1 DEF Tables
<1>4. \A x \in TxId : tids[x] = IF x \in ids /\ t.tids[x] = None THEN i ELSE t.tids[x]
  OBVIOUS
<1> HIDE DEF u, tids
<1>5. u \in Tables
  BY <1>1, <1>2, <1>3 DEF Tables
<1>6. ASSUME NEW x \in AppliedIds(u)
      PROVE  \/ u.tids[x] = i /\ x \in ids
             \/ u.tids[x] = t.tids[x] /\ x \in AppliedIds(t)
  BY <1>2, <1>4 DEF AppliedIds
<1>7. IdsRefer(u)
  BY <1>2, <1>6 DEF TablesOf, IdsRefer
<1>8. Extends(t, u)
  BY <1>2, <1>4 DEF Extends, HeaderPrefix, Present, AppliedIds
<1>9. QED
  BY <1>2, <1>5, <1>7, <1>8 DEF u, TablesOf

LEMMA UpsertSound ==
  ASSUME NEW t, TablesOf(t), NEW accounts, NEW bal \in Balances
  PROVE  /\ TablesOf(Upsert(t, accounts, bal)) /\ Extends(t, Upsert(t, accounts, bal))
         /\ Upsert(t, accounts, bal).rows = t.rows
<1> DEFINE u == Upsert(t, accounts, bal)
           new == [a \in Account |-> IF a \in accounts THEN bal[a] ELSE t.balances[a]]
<1>1. t \in Tables
  BY DEF TablesOf
<1>2. /\ u = [rows |-> t.rows, balances |-> new, tids |-> t.tids]
      /\ u.rows = t.rows /\ u.tids = t.tids
  BY <1>1 DEF Upsert, Tables
<1>3. new \in Balances
  BY <1>1 DEF Tables, Balances
<1> HIDE DEF u, new
<1>4. u \in Tables
  BY <1>1, <1>2, <1>3 DEF Tables
<1>5. IdsRefer(u)
  BY <1>1, <1>2, IdsStay DEF TablesOf, Present
<1>6. Extends(t, u)
  BY <1>2 DEF Extends, HeaderPrefix, Present
<1>7. QED
  BY <1>2, <1>4, <1>5, <1>6 DEF u, TablesOf

\* One append_block, whatever ids and balances it is given.
LEMMA AppendRowSound ==
  ASSUME NEW t, TablesOf(t), NEW b \in Blocks, IsBlock(b), t.rows[b.index] = None,
         NEW ids \in SUBSET TxId, ids \subseteq TxIds(BatchOf(b)) \cup ForeignIds,
         NEW accounts, NEW bal \in Balances
  PROVE  LET u == AppendRow(t, b, ids, accounts, bal)
         IN  TablesOf(u) /\ Extends(t, u)
<1> DEFINE v == InsertRow(t, b)
           w == Upsert(v, accounts, bal)
           u == InsertIds(w, ids, b.index)
<1>1. TablesOf(v) /\ Extends(t, v) /\ v.rows[b.index] = b
  BY InsertRowSound
<1> HIDE DEF v
<1>2. TablesOf(w) /\ Extends(v, w) /\ w.rows = v.rows
  BY <1>1, UpsertSound
<1> HIDE DEF w
<1>3. b.index \in Index /\ w.rows[b.index] = b /\ b # None
  BY <1>1, <1>2, NoneIsNoBlock DEF Blocks
<1>4. TablesOf(u) /\ Extends(w, u)
  BY <1>2, <1>3, InsertIdsSound
<1> HIDE DEF u
<1>5. Extends(t, u)
  <2>1. t \in Tables /\ v \in Tables /\ w \in Tables /\ u \in Tables
    BY <1>1, <1>2, <1>4 DEF TablesOf
  <2>2. Extends(t, w)
    BY <1>1, <1>2, <2>1, ExtendsTransitive
  <2>3. QED
    BY <1>4, <2>1, <2>2, ExtendsTransitive
<1>6. QED
  BY <1>4, <1>5 DEF AppendRow, u, v, w

-----------------------------------------------------------------------------
(* How steps keep ManualInv.                                                 *)

LEMMA InitSound == Init => ManualInv
<1> SUFFICES ASSUME Init PROVE ManualInv
  OBVIOUS
<1>1. TypeOK
  BY NoChainFacts, EmptyFacts DEF Init, TypeOK, Locations
<1>2. /\ HasBlocks(NoChain)
      /\ AppliedIds(EmptyTables) = {}
      /\ EmptyTables.rows = NoChain
  BY NoChainFacts DEF HasBlocks, AppliedIds, EmptyTables
<1>3. TablesSound
  BY <1>2, EmptyFacts, ExtendsReflexive DEF Init, TablesSound, IdsRefer
<1>4. ASSUME NEW p \in Process PROVE ProcessSound(p)
  <2>1. pc[p] = "down" /\ chain[p] = NoChain /\ writer # p
    BY NobodyAssumption DEF Init
  <2>2. QED
    BY <1>2, <2>1 DEF ProcessSound, ChainSound, CallSound, WriterSound, OnTop,
                      Holding, Writing
<1>5. QED
  BY <1>1, <1>3, <1>4 DEF ManualInv

\* A step of another process: the file only grows, and q's transaction is left
\* alone.
LEMMA OtherSound ==
  ASSUME NEW q \in Process, ProcessSound(q), TypeOK, TypeOK', Extends(db, db'),
         pc'[q] = pc[q], chain'[q] = chain[q], call'[q] = call[q],
         writer = q => writer' = q /\ wdb' = wdb,
         writer' = q => writer = q
  PROVE  ProcessSound(q)'
<1>1. Present(db'.rows) = {} => Present(db.rows) = {}
  BY DEF Extends, HeaderPrefix, Present
<1>2. ChainSound(q)'
  BY <1>1 DEF ProcessSound, ChainSound
<1>3. CallSound(q)' /\ WriterSound(q)'
  BY DEF ProcessSound, CallSound, WriterSound
<1>4. OnTop(q)'
  <2>1. SUFFICES ASSUME pc[q] \in {"insert_block"} \cup Writing
                 PROVE  HeaderPrefix(chain[q], IF writer' = q THEN wdb'.rows ELSE db'.rows)
    BY DEF OnTop
  <2>2. HeaderPrefix(chain[q], IF writer = q THEN wdb.rows ELSE db.rows)
    BY <2>1 DEF ProcessSound, OnTop
  <2>3. CASE writer = q
    BY <2>2, <2>3
  <2>4. CASE writer # q
    <3>1. chain[q] \in Chains /\ db.rows \in Chains /\ db'.rows \in Chains
      BY DEF TypeOK, Tables
    <3>2. HeaderPrefix(chain[q], db.rows) /\ HeaderPrefix(db.rows, db'.rows)
      BY <2>2, <2>4 DEF Extends
    <3>3. QED
      BY <2>4, <3>1, <3>2, PrefixTransitive
  <2>5. QED
    BY <2>3, <2>4
<1>5. QED
  BY <1>2, <1>3, <1>4 DEF ProcessSound

LEMMA LocalSound ==
  ASSUME ManualInv, NEW p \in Process, db' = db, wdb' = wdb, writer' = writer,
         OthersSame(p), TypeOK', ProcessSound(p)'
  PROVE  ManualInv'
<1>1. TablesSound' /\ Extends(db, db')
  BY ExtendsReflexive DEF ManualInv, TypeOK, TablesSound
<1>2. ASSUME NEW q \in Process \ {p} PROVE ProcessSound(q)'
  BY <1>1, OtherSound DEF ManualInv, OthersSame
<1>3. QED
  BY <1>1, <1>2 DEF ManualInv

LEMMA WriteSound ==
  ASSUME ManualInv, NEW p \in Process, NEW t, Write(p, t), TablesOf(t),
         Extends(wdb, t), OthersSame(p), TypeOK', ProcessSound(p)'
  PROVE  ManualInv'
<1>1. /\ writer \in {None, p} /\ writer' = p /\ db' = db /\ wdb' = t
      /\ \A q \in Process : q # None
  BY NobodyAssumption DEF Write, MayWrite
<1>2. db \in Tables /\ wdb \in Tables /\ t \in Tables /\ Extends(db, wdb)
  BY DEF ManualInv, TypeOK, TablesSound, TablesOf
<1>3. Extends(db, t) /\ Extends(db, db')
  BY <1>1, <1>2, ExtendsTransitive, ExtendsReflexive
<1>4. TablesSound'
  BY <1>1, <1>3 DEF ManualInv, TablesSound, TablesOf
<1>5. ASSUME NEW q \in Process \ {p} PROVE ProcessSound(q)'
  BY <1>1, <1>3, OtherSound DEF ManualInv, OthersSame
<1>6. QED
  BY <1>4, <1>5 DEF ManualInv

LEMMA CommitSound ==
  ASSUME ManualInv, NEW p \in Process, Commit(p), OthersSame(p), TypeOK', ProcessSound(p)'
  PROVE  ManualInv'
<1>1. /\ writer = p /\ db' = wdb /\ wdb' = wdb /\ writer' = None
      /\ \A q \in Process : q # None
  BY NobodyAssumption DEF Commit
<1>2. Extends(db, db') /\ Extends(db', wdb')
  BY <1>1, ExtendsReflexive DEF ManualInv, TablesSound, TypeOK
<1>3. TablesSound'
  BY <1>1, <1>2 DEF ManualInv, TablesSound
<1>4. ASSUME NEW q \in Process \ {p} PROVE ProcessSound(q)'
  BY <1>1, <1>2, OtherSound DEF ManualInv, OthersSame
<1>5. QED
  BY <1>3, <1>4 DEF ManualInv

LEMMA RollbackSound ==
  ASSUME ManualInv, NEW p \in Process, Rollback(p), OthersSame(p), TypeOK', ProcessSound(p)'
  PROVE  ManualInv'
<1>1. /\ db' = db
      /\ IF writer = p THEN wdb' = db /\ writer' = None
                       ELSE wdb' = wdb /\ writer' = writer
      /\ \A q \in Process : q # None
  BY NobodyAssumption DEF Rollback
<1>2. Extends(db, db')
  BY <1>1, ExtendsReflexive DEF ManualInv, TypeOK
<1>3. TablesSound'
  BY <1>1, <1>2 DEF ManualInv, TablesSound
<1>4. ASSUME NEW q \in Process \ {p} PROVE ProcessSound(q)'
  BY <1>1, <1>2, OtherSound DEF ManualInv, OthersSame
<1>5. QED
  BY <1>3, <1>4 DEF ManualInv

-----------------------------------------------------------------------------
(* Leaving a call, and loading.                                              *)

LEMMA RaiseSound ==
  ASSUME ManualInv, NEW p \in Process, Raise(p), pc[p] # "down"
  PROVE  ManualInv'
<1>1. /\ pc' = [pc EXCEPT ![p] = "idle"] /\ call' = [call EXCEPT ![p] = NoCall]
      /\ chain' = chain /\ state' = state /\ Rollback(p)
  BY DEF Raise, Return, Goto, memVars
<1>2. OthersSame(p) /\ pc'[p] = "idle"
  BY <1>1 DEF OthersSame, ManualInv, TypeOK
<1>3. db' = db /\ wdb' \in {db, wdb} /\ writer' \in {None, writer} /\ writer' # p
  BY <1>1, NobodyAssumption DEF Rollback
<1>4. TypeOK'
  BY <1>1, <1>3, EmptyFacts DEF ManualInv, TypeOK, Locations
<1>5. ChainSound(p)'
  BY <1>1, <1>2, <1>3 DEF ManualInv, ProcessSound, ChainSound
<1>6. CallSound(p)' /\ WriterSound(p)' /\ OnTop(p)'
  BY <1>2, <1>3 DEF CallSound, WriterSound, OnTop, Holding, Writing
<1>7. QED
  BY <1>1, <1>2, <1>4, <1>5, <1>6, RollbackSound DEF ProcessSound

LEMMA StopSound ==
  ASSUME ManualInv, NEW p \in Process, Stop(p)
  PROVE  ManualInv'
<1>1. /\ pc' = [pc EXCEPT ![p] = "down"] /\ call' = [call EXCEPT ![p] = NoCall]
      /\ chain' = [chain EXCEPT ![p] = NoChain]
      /\ state' = [state EXCEPT ![p] = EmptyState] /\ Rollback(p)
  BY DEF Stop, Goto
<1>2. OthersSame(p) /\ pc'[p] = "down" /\ chain'[p] = NoChain
  BY <1>1 DEF OthersSame, ManualInv, TypeOK
<1>3. db' = db /\ wdb' \in {db, wdb} /\ writer' \in {None, writer} /\ writer' # p
  BY <1>1, NobodyAssumption DEF Rollback
<1>4. TypeOK'
  BY <1>1, <1>3, EmptyFacts, NoChainFacts DEF ManualInv, TypeOK, Locations
<1>5. ChainSound(p)'
  BY <1>2, NoChainFacts DEF ChainSound, HasBlocks
<1>6. CallSound(p)' /\ WriterSound(p)' /\ OnTop(p)'
  BY <1>2, <1>3 DEF CallSound, WriterSound, OnTop, Holding, Writing
<1>7. QED
  BY <1>1, <1>2, <1>4, <1>5, <1>6, RollbackSound DEF ProcessSound

\* A process at rest, with a chain of blocks.
LEMMA RestSound ==
  ASSUME ManualInv, NEW p \in Process, OthersSame(p), TypeOK',
         db' = db, wdb' = wdb, writer' = writer,
         pc[p] \in {"down", "idle", "load_state", "load_ids", "apply", "prune_chain"},
         pc'[p] \in {"idle", "load_state", "load_ids"},
         HasBlocks(chain'[p]), Present(chain'[p]) # {},
         Present(db.rows) = {} => 0 \in Present(chain'[p])
  PROVE  ManualInv'
<1>1. writer # p
  BY DEF ManualInv, ProcessSound, WriterSound, Writing
<1>2. ProcessSound(p)'
  BY <1>1 DEF ProcessSound, ChainSound, CallSound, WriterSound, OnTop, Holding, Writing
<1>3. QED
  BY <1>2, LocalSound

LEMMA StartSound ==
  ASSUME ManualInv, NEW p \in Process, StartEmpty(p) \/ StartInjected(p)
  PROVE  ManualInv'
<1>1. PICK ts \in Timestamp, s \in States :
         /\ chain' = [chain EXCEPT ![p] = NewChain(ts)]
         /\ state' = [state EXCEPT ![p] = s]
  <2>1. CASE StartEmpty(p)
    BY <2>1, EmptyFacts DEF StartEmpty
  <2>2. CASE StartInjected(p)
    BY <2>2, ManualAssumption DEF StartInjected
  <2>3. QED
    BY <2>1, <2>2
<1>2. /\ pc' = [pc EXCEPT ![p] = "idle"] /\ call' = call
      /\ db' = db /\ wdb' = wdb /\ writer' = writer /\ pc[p] \in {"down", "idle"}
  BY DEF StartEmpty, StartInjected, Goto
<1>3. OthersSame(p) /\ pc'[p] = "idle" /\ chain'[p] = NewChain(ts)
  BY <1>1, <1>2 DEF OthersSame, ManualInv, TypeOK
<1>4. TypeOK'
  BY <1>1, <1>2, NewChainFacts DEF ManualInv, TypeOK, Locations
<1>5. HasBlocks(NewChain(ts)) /\ Present(NewChain(ts)) = {0}
  BY NewChainFacts, ValidHasBlocks
<1>6. QED
  BY <1>2, <1>3, <1>4, <1>5, RestSound

LEMMA LoadBlocksSound ==
  ASSUME ManualInv, NEW p \in Process, LoadBlocks(p)
  PROVE  ManualInv'
<1> DEFINE d == [i \in Index |->
                    IF db.rows[i] = None THEN None ELSE FromPersisted(db.rows[i])]
<1>1. /\ chain' = [chain EXCEPT ![p] = d]
      /\ pc' = [pc EXCEPT ![p] = "load_state"] /\ call' = call
      /\ state' = [state EXCEPT ![p] = EmptyState] /\ Present(db.rows) # {}
      /\ db' = db /\ wdb' = wdb /\ writer' = writer /\ pc[p] \in {"down", "idle"}
  BY DEF LoadBlocks, Goto
<1>2. db.rows \in Chains /\ HasBlocks(db.rows)
  BY DEF ManualInv, TypeOK, Tables, TablesSound
<1>3. d \in Chains /\ HasBlocks(d) /\ Present(d) = Present(db.rows)
  BY <1>2, LoadedSound
<1> HIDE DEF d
<1>4. OthersSame(p) /\ pc'[p] = "load_state" /\ chain'[p] = d
  BY <1>1 DEF OthersSame, ManualInv, TypeOK
<1>5. TypeOK'
  BY <1>1, <1>3, EmptyFacts DEF ManualInv, TypeOK, Locations
<1>6. QED
  BY <1>1, <1>3, <1>4, <1>5, RestSound

LEMMA LoadRestSound ==
  ASSUME ManualInv, NEW p \in Process, LoadState(p) \/ LoadIds(p)
  PROVE  ManualInv'
<1>1. PICK s \in States, l \in {"idle", "load_ids"} :
         /\ state' = [state EXCEPT ![p] = s]
         /\ pc' = [pc EXCEPT ![p] = l]
  <2>1. state[p] \in States /\ db.balances \in Balances /\ AppliedIds(db) \subseteq TxId
    BY DEF ManualInv, TypeOK, Tables, AppliedIds
  <2>2. CASE LoadState(p)
    <3>1. [state[p] EXCEPT !.current_state = db.balances] \in States
      BY <2>1 DEF States
    <3>2. QED
      BY <2>2, <3>1 DEF LoadState, Goto
  <2>3. CASE LoadIds(p)
    <3>1. [state[p] EXCEPT !.applied_tx_ids = AppliedIds(db)] \in States
      BY <2>1 DEF States
    <3>2. QED
      BY <2>3, <3>1 DEF LoadIds, Goto
  <2>4. QED
    BY <2>2, <2>3
<1>2. /\ call' = call /\ chain' = chain /\ pc[p] \in {"load_state", "load_ids"}
      /\ db' = db /\ wdb' = wdb /\ writer' = writer
  BY DEF LoadState, LoadIds
<1>3. OthersSame(p) /\ pc'[p] = l
  BY <1>1, <1>2 DEF OthersSame, ManualInv, TypeOK
<1>4. TypeOK'
  BY <1>1, <1>2 DEF ManualInv, TypeOK, Locations
<1>5. HasBlocks(chain[p]) /\ Present(chain[p]) # {}
      /\ (Present(db.rows) = {} => 0 \in Present(chain[p]))
  BY <1>2 DEF ManualInv, ProcessSound, ChainSound
<1>6. QED
  BY <1>2, <1>3, <1>4, <1>5, RestSound

-----------------------------------------------------------------------------
(* Changing the chain in memory.                                             *)

LEMMA AddInMemorySound ==
  ASSUME ManualInv, NEW p \in Process, NEW batch \in Batch, AddInMemory(p, batch)
  PROVE  ManualInv'
<1>1. PICK ts \in Timestamp :
         chain' = [chain EXCEPT ![p] = AppendBlock(chain[p], NextBlock(chain[p], batch, ts))]
  BY DEF AddInMemory
<1> DEFINE b == NextBlock(chain[p], batch, ts)
           d == AppendBlock(chain[p], b)
           s == FL!FoldLeft(ApplyTransaction, state[p], batch)
<1>2. /\ pc[p] = "idle" /\ pc' = pc /\ call' = call
      /\ state' = [state EXCEPT ![p] = s]
      /\ db' = db /\ wdb' = wdb /\ writer' = writer
      /\ LastIndex(chain[p]) + 1 \in Index
  BY DEF AddInMemory
<1>3. s \in States
  <2>1. state[p] \in States /\ \A i \in DOMAIN batch : ValidTransaction(batch[i])
    BY DEF AddInMemory, ManualInv, TypeOK
  <2>2. QED
    BY <2>1, FoldedState
<1>4. /\ chain[p] \in Chains /\ HasBlocks(chain[p]) /\ Present(chain[p]) # {}
      /\ (Present(db.rows) = {} => 0 \in Present(chain[p]))
  BY <1>2 DEF ManualInv, TypeOK, ProcessSound, ChainSound
<1>5. b \in Blocks /\ IsBlock(b)
  BY <1>2, <1>4, NextBlockSound
<1> HIDE DEF b
<1>6. d \in Chains /\ HasBlocks(d) /\ Present(d) = Present(chain[p]) \cup {b.index}
  BY <1>4, <1>5, AppendSound
<1>7. chain' = [chain EXCEPT ![p] = d]
  BY <1>1 DEF b
<1> HIDE DEF d, s
<1>8. OthersSame(p) /\ pc'[p] = "idle" /\ chain'[p] = d
  BY <1>2, <1>7 DEF OthersSame, ManualInv, TypeOK
<1>9. TypeOK'
  BY <1>2, <1>3, <1>6, <1>7 DEF ManualInv, TypeOK
<1>10. QED
  BY <1>2, <1>4, <1>6, <1>8, <1>9, RestSound

LEMMA PruneInMemorySound ==
  ASSUME ManualInv, NEW p \in Process, PruneInMemory(p) \/ PruneChain(p)
  PROVE  ManualInv'
<1> DEFINE d == PruneBlocks(chain[p])
<1>1. PICK c \in Calls :
         /\ chain' = [chain EXCEPT ![p] = d] /\ state' = state
         /\ pc[p] \in {"idle", "prune_chain"} /\ pc' = [pc EXCEPT ![p] = "idle"]
         /\ call' = [call EXCEPT ![p] = c]
         /\ db' = db /\ wdb' = wdb /\ writer' = writer
  <2>1. CASE PruneInMemory(p)
    <3>1. pc' = [pc EXCEPT ![p] = "idle"] /\ call' = [call EXCEPT ![p] = call[p]]
          /\ call[p] \in Calls
      BY <2>1 DEF PruneInMemory, ManualInv, TypeOK
    <3>2. QED
      BY <2>1, <3>1 DEF PruneInMemory
  <2>2. CASE PruneChain(p)
    BY <2>2, EmptyFacts DEF PruneChain, Return, Goto
  <2>3. QED
    BY <2>1, <2>2
<1>2. /\ chain[p] \in Chains /\ HasBlocks(chain[p]) /\ Present(chain[p]) # {}
      /\ (Present(db.rows) = {} => 0 \in Present(chain[p]))
  BY <1>1 DEF ManualInv, TypeOK, ProcessSound, ChainSound
<1>3. d \in Chains /\ HasBlocks(d) /\ Present(d) = Present(chain[p])
  BY <1>2, PruneBlocksSound
<1> HIDE DEF d
<1>4. OthersSame(p) /\ pc'[p] = "idle" /\ chain'[p] = d
  BY <1>1 DEF OthersSame, ManualInv, TypeOK
<1>5. TypeOK'
  BY <1>1, <1>3 DEF ManualInv, TypeOK, Locations
<1>6. QED
  BY <1>1, <1>2, <1>3, <1>4, <1>5, RestSound

LEMMA ApplyToChainSound ==
  ASSUME ManualInv, NEW p \in Process, ApplyToChain(p)
  PROVE  ManualInv'
<1> DEFINE b == call[p].block
           d == AppendBlock(chain[p], b)
<1>1. /\ pc[p] = "apply" /\ pc' = [pc EXCEPT ![p] = "idle"]
      /\ call' = [call EXCEPT ![p] = NoCall]
      /\ chain' = [chain EXCEPT ![p] = d]
      /\ state' = [state EXCEPT ![p] = call[p].staged]
      /\ db' = db /\ wdb' = wdb /\ writer' = writer
  BY DEF ApplyToChain, Return, Goto, dbVars
<1>2. /\ chain[p] \in Chains /\ HasBlocks(chain[p]) /\ Present(chain[p]) # {}
      /\ (Present(db.rows) = {} => 0 \in Present(chain[p]))
      /\ call[p].staged \in States
  BY <1>1 DEF ManualInv, TypeOK, Calls, ProcessSound, ChainSound
<1>3. b \in Blocks /\ IsBlock(b)
  BY <1>1 DEF ManualInv, TypeOK, Calls, ProcessSound, CallSound, Holding
<1>4. d \in Chains /\ HasBlocks(d) /\ Present(d) = Present(chain[p]) \cup {b.index}
  BY <1>2, <1>3, AppendSound
<1> HIDE DEF d, b
<1>5. OthersSame(p) /\ pc'[p] = "idle" /\ chain'[p] = d
  BY <1>1 DEF OthersSame, ManualInv, TypeOK
<1>6. TypeOK'
  BY <1>1, <1>2, <1>4, EmptyFacts DEF ManualInv, TypeOK, Locations
<1>7. QED
  BY <1>1, <1>2, <1>4, <1>5, <1>6, RestSound

-----------------------------------------------------------------------------
(* Preparing a write.                                                        *)

LEMMA BeginAddSound ==
  ASSUME ManualInv, NEW p \in Process, NEW batch \in Batch, BeginAdd(p, batch)
  PROVE  ManualInv'
<1> DEFINE c == [NoCall EXCEPT !.batch = batch, !.staged = state[p]]
<1>1. /\ call' = [call EXCEPT ![p] = c]
      /\ pc' = [pc EXCEPT ![p] = "stage"] /\ chain' = chain /\ state' = state
      /\ db' = db /\ wdb' = wdb /\ writer' = writer /\ pc[p] = "idle"
      /\ LastIndex(chain[p]) + 1 \in Index
      /\ \A i \in DOMAIN batch : ValidTransaction(batch[i])
  BY DEF BeginAdd, Goto
<1>2. c \in Calls /\ c.batch = batch /\ c.next = 1
  BY EmptyFacts DEF ManualInv, TypeOK, Calls, NoCall
<1> HIDE DEF c
<1>3. OthersSame(p) /\ pc'[p] = "stage" /\ call'[p] = c
  BY <1>1 DEF OthersSame, ManualInv, TypeOK
<1>4. TypeOK'
  BY <1>1, <1>2 DEF ManualInv, TypeOK, Locations
<1>5. writer # p
  BY <1>1 DEF ManualInv, ProcessSound, WriterSound, Writing
<1>6. ChainSound(p)'
  BY <1>1, <1>3 DEF ManualInv, ProcessSound, ChainSound
<1>7. CallSound(p)' /\ WriterSound(p)' /\ OnTop(p)'
  BY <1>1, <1>2, <1>3, <1>5 DEF CallSound, WriterSound, OnTop, Holding, Writing
<1>8. QED
  BY <1>1, <1>3, <1>4, <1>6, <1>7, LocalSound DEF ProcessSound

LEMMA StageTransactionSound ==
  ASSUME ManualInv, NEW p \in Process, StageTransaction(p)
  PROVE  ManualInv'
<1> DEFINE c  == call[p]
           tx == c.batch[c.next]
           d  == [batch |-> c.batch, next |-> c.next + 1, block |-> c.block,
                  todo |-> c.todo, staged |-> ApplyTransaction(c.staged, tx)]
<1>1. /\ pc[p] = "stage" /\ c.next <= Len(c.batch)
      /\ pc' = pc /\ chain' = chain /\ state' = state
      /\ db' = db /\ wdb' = wdb /\ writer' = writer
  BY DEF StageTransaction
<1>2. call' = [call EXCEPT ![p] = d]
  BY DEF StageTransaction, ManualInv, TypeOK, Calls
<1>3. /\ c \in Calls /\ c.batch \in Seq(Tx) /\ c.next \in Nat /\ c.next >= 1
      /\ \A i \in DOMAIN c.batch : ValidTransaction(c.batch[i])
      /\ c.staged \in States /\ LastIndex(chain[p]) + 1 \in Index
  BY <1>1, BatchAssumption DEF ManualInv, TypeOK, Calls, ProcessSound, CallSound
<1>4. c.next \in DOMAIN c.batch /\ tx \in Tx /\ ValidTransaction(tx)
  BY <1>1, <1>3
<1>5. ApplyTransaction(c.staged, tx) \in States
  BY <1>3, <1>4, ApplyTransactionFacts
<1>6. d \in Calls /\ d.batch = c.batch /\ d.next >= 1
  BY <1>3, <1>5 DEF Calls
<1> HIDE DEF d
<1>7. OthersSame(p) /\ pc'[p] = "stage" /\ call'[p] = d
  BY <1>1, <1>2 DEF OthersSame, ManualInv, TypeOK
<1>8. TypeOK'
  BY <1>1, <1>2, <1>6 DEF ManualInv, TypeOK
<1>9. writer # p
  BY <1>1 DEF ManualInv, ProcessSound, WriterSound, Writing
<1>10. ChainSound(p)'
  BY <1>1, <1>7 DEF ManualInv, ProcessSound, ChainSound
<1>11. CallSound(p)' /\ WriterSound(p)' /\ OnTop(p)'
  BY <1>1, <1>3, <1>6, <1>7, <1>9 DEF CallSound, WriterSound, OnTop, Holding, Writing
<1>12. QED
  BY <1>1, <1>7, <1>8, <1>10, <1>11, LocalSound DEF ProcessSound

LEMMA CreateBlockSound ==
  ASSUME ManualInv, NEW p \in Process, CreateBlock(p)
  PROVE  ManualInv'
<1>1. PICK ts \in Timestamp :
         call' = [call EXCEPT ![p].block = NextBlock(chain[p], call[p].batch, ts)]
  BY DEF CreateBlock
<1> DEFINE b == NextBlock(chain[p], call[p].batch, ts)
           d == [call[p] EXCEPT !.block = b]
<1>2. /\ pc[p] = "stage" /\ pc' = [pc EXCEPT ![p] = "ensure"]
      /\ chain' = chain /\ state' = state
      /\ db' = db /\ wdb' = wdb /\ writer' = writer
  BY DEF CreateBlock, Staged, Goto
<1>3. /\ call[p] \in Calls /\ call[p].batch \in Batch
      /\ chain[p] \in Chains /\ HasBlocks(chain[p]) /\ Present(chain[p]) # {}
      /\ LastIndex(chain[p]) + 1 \in Index
  BY <1>2 DEF ManualInv, TypeOK, Calls, ProcessSound, ChainSound, CallSound
<1>4. b \in Blocks /\ b # None /\ IsBlock(b) /\ BatchOf(b) = call[p].batch
  BY <1>3, NextBlockSound
<1> HIDE DEF b
<1>5. d \in Calls /\ d.batch = call[p].batch /\ d.block = b
  BY <1>3, <1>4 DEF Calls
<1>6. call' = [call EXCEPT ![p] = d]
  BY <1>1 DEF b
<1> HIDE DEF d
<1>7. OthersSame(p) /\ pc'[p] = "ensure" /\ call'[p] = d
  BY <1>2, <1>6 DEF OthersSame, ManualInv, TypeOK
<1>8. TypeOK'
  BY <1>2, <1>5, <1>6 DEF ManualInv, TypeOK, Locations
<1>9. writer # p
  BY <1>2 DEF ManualInv, ProcessSound, WriterSound, Writing
<1>10. ChainSound(p)'
  BY <1>2, <1>7 DEF ManualInv, ProcessSound, ChainSound
<1>11. CallSound(p)' /\ WriterSound(p)' /\ OnTop(p)'
  BY <1>2, <1>4, <1>5, <1>7, <1>9 DEF CallSound, WriterSound, OnTop, Holding, Writing
<1>12. QED
  BY <1>2, <1>7, <1>8, <1>10, <1>11, LocalSound DEF ProcessSound

LEMMA EnsureSound ==
  ASSUME ManualInv, NEW p \in Process, EnsureEmpty(p) \/ EnsureMatch(p)
  PROVE  ManualInv'
<1>1. /\ pc[p] = "ensure" /\ call' = call /\ chain' = chain /\ state' = state
      /\ db' = db /\ wdb' = wdb /\ writer' = writer
  BY DEF EnsureEmpty, EnsureMatch
<1>2. \/ /\ pc' = [pc EXCEPT ![p] = "insert_genesis"]
         /\ Present(db.rows) = {} /\ ChainLen(chain[p]) = 1
      \/ /\ pc' = [pc EXCEPT ![p] = "insert_block"]
         /\ Headers(db.rows) = Headers(chain[p])
  BY DEF EnsureEmpty, EnsureMatch, Goto
<1>3. OthersSame(p) /\ call'[p] = call[p] /\ chain'[p] = chain[p]
  BY <1>1, <1>2 DEF OthersSame, ManualInv, TypeOK
<1>4. TypeOK'
  BY <1>1, <1>2 DEF ManualInv, TypeOK, Locations
<1>5. pc'[p] \in {"insert_genesis", "insert_block"}
      /\ (pc'[p] = "insert_genesis" => Present(db.rows) = {} /\ ChainLen(chain[p]) = 1)
      /\ (pc'[p] = "insert_block" => Headers(db.rows) = Headers(chain[p]))
  BY <1>2 DEF ManualInv, TypeOK
<1>6. writer # p
  BY <1>1 DEF ManualInv, ProcessSound, WriterSound, Writing
<1>7. ChainSound(p)'
  BY <1>1, <1>3, <1>5 DEF ManualInv, ProcessSound, ChainSound
<1>8. ASSUME pc'[p] = "insert_genesis" PROVE Present(chain[p]) = {0}
  <2>1. 0 \in Present(chain[p]) /\ Cardinality(Present(chain[p])) = 1
    BY <1>1, <1>5, <1>8 DEF ManualInv, ProcessSound, ChainSound, ChainLen
  <2>2. IsFiniteSet(Present(chain[p]))
    <3>1. MaxBlocks - 1 \in Int /\ Present(chain[p]) \in SUBSET (0 .. MaxBlocks - 1)
      BY MaxBlocksAssumption DEF Present, Index
    <3>2. IsFiniteSet(0 .. MaxBlocks - 1)
      BY <3>1, FS_Interval
    <3>3. QED
      BY <3>1, <3>2, FS_Subset
  <2>3. PICK x : Present(chain[p]) = {x}
    BY <2>1, <2>2, FS_Singleton
  <2>4. QED
    BY <2>1, <2>3
<1>9. CallSound(p)'
  <2>1. CallSound(p)
    BY DEF ManualInv, ProcessSound
  <2>2. QED
    BY <1>1, <1>3, <1>5, <1>8, <2>1 DEF CallSound, Holding
<1>10. WriterSound(p)'
  BY <1>1, <1>5, <1>6 DEF WriterSound, Writing
<1>11. OnTop(p)'
  <2>1. pc'[p] = "insert_block" => HeaderPrefix(chain[p], db.rows)
    <3>1. chain[p] \in Chains /\ db.rows \in Chains
      BY DEF ManualInv, TypeOK, Tables
    <3>2. QED
      BY <1>5, <3>1, HeadersEqual DEF HeaderPrefix, Present
  <2>2. QED
    BY <1>1, <1>3, <1>5, <1>6, <2>1 DEF OnTop, Writing
<1>12. QED
  BY <1>1, <1>3, <1>4, <1>7, <1>9, <1>10, <1>11, LocalSound DEF ProcessSound

LEMMA BeginPruneSound ==
  ASSUME ManualInv, NEW p \in Process, BeginPrune(p)
  PROVE  ManualInv'
<1> DEFINE d == [NoCall EXCEPT !.todo = Eligible(chain[p])]
<1>1. /\ pc[p] = "idle" /\ pc' = [pc EXCEPT ![p] = "prune_rows"]
      /\ call' = [call EXCEPT ![p] = d] /\ chain' = chain /\ state' = state
      /\ db' = db /\ wdb' = wdb /\ writer' = writer
  BY DEF BeginPrune, Goto
<1>2. d \in Calls
  BY EmptyFacts DEF Calls, NoCall, Eligible, Present
<1> HIDE DEF d
<1>3. OthersSame(p) /\ pc'[p] = "prune_rows"
  BY <1>1 DEF OthersSame, ManualInv, TypeOK
<1>4. TypeOK'
  BY <1>1, <1>2 DEF ManualInv, TypeOK, Locations
<1>5. writer # p
  BY <1>1 DEF ManualInv, ProcessSound, WriterSound, Writing
<1>6. ChainSound(p)'
  BY <1>1, <1>3 DEF ManualInv, ProcessSound, ChainSound
<1>7. CallSound(p)' /\ WriterSound(p)' /\ OnTop(p)'
  BY <1>1, <1>3, <1>5 DEF CallSound, WriterSound, OnTop, Holding, Writing
<1>8. QED
  BY <1>1, <1>3, <1>4, <1>6, <1>7, LocalSound DEF ProcessSound

-----------------------------------------------------------------------------
(* Writing and committing.                                                   *)

\* The tables as the next statement of a transaction finds them.
LEMMA OpenTables ==
  ASSUME ManualInv
  PROVE  TablesOf(wdb) /\ TablesOf(db)
BY DEF ManualInv, TypeOK, TablesSound, TablesOf

LEMMA InsertGenesisSound ==
  ASSUME ManualInv, NEW p \in Process, InsertGenesis(p)
  PROVE  ManualInv'
<1> DEFINE g == chain[p][0]
           t == InsertRow(wdb, g)
<1>1. /\ pc[p] = "insert_genesis" /\ ~Conflict(wdb, g) /\ Write(p, t)
      /\ pc' = [pc EXCEPT ![p] = "insert_block"]
      /\ chain' = chain /\ state' = state /\ call' = call
  BY DEF InsertGenesis, Goto
<1>2. db' = db /\ wdb' = t /\ writer' = p
  BY <1>1 DEF Write
<1>3. Present(chain[p]) = {0} /\ chain[p] \in Chains /\ HasBlocks(chain[p])
  BY <1>1 DEF ManualInv, TypeOK, ProcessSound, ChainSound, CallSound
<1>4. g \in Blocks /\ IsBlock(g) /\ g.index = 0 /\ g # None
  BY <1>3, PresentFacts DEF HasBlocks
<1> HIDE DEF g
<1>5. wdb.rows[g.index] = None
  BY <1>1 DEF Conflict
<1>6. TablesOf(t) /\ Extends(wdb, t) /\ t.rows[0] = g
  BY <1>4, <1>5, OpenTables, InsertRowSound
<1> HIDE DEF t
<1>7. OthersSame(p) /\ pc'[p] = "insert_block"
  BY <1>1 DEF OthersSame, ManualInv, TypeOK
<1>8. TypeOK'
  BY <1>1, <1>2, <1>6 DEF ManualInv, TypeOK, Locations, TablesOf
<1>9. ChainSound(p)'
  BY <1>1, <1>2, <1>7 DEF ManualInv, ProcessSound, ChainSound
<1>10. CallSound(p)' /\ WriterSound(p)'
  <2>1. CallSound(p)
    BY DEF ManualInv, ProcessSound
  <2>2. QED
    BY <1>1, <1>2, <1>7, <2>1 DEF CallSound, WriterSound, Holding, Writing
<1>11. OnTop(p)'
  <2>1. HeaderPrefix(chain[p], t.rows)
    BY <1>3, <1>4, <1>6 DEF HeaderPrefix, g
  <2>2. QED
    BY <1>1, <1>2, <2>1 DEF OnTop
<1>12. QED
  BY <1>1, <1>6, <1>7, <1>8, <1>9, <1>10, <1>11, WriteSound DEF ProcessSound

\* A step of p from one location of add_block's writes to another.
LEMMA HoldingStep ==
  ASSUME ManualInv, NEW p \in Process, NEW location \in Holding \ {"insert_genesis"},
         pc[p] \in Holding, pc' = [pc EXCEPT ![p] = location],
         chain' = chain, state' = state, call' = call, Extends(db, db')
  PROVE  /\ OthersSame(p) /\ pc'[p] = location /\ pc' \in [Process -> Locations]
         /\ ChainSound(p)' /\ CallSound(p)'
<1>1. OthersSame(p) /\ pc'[p] = location /\ pc' \in [Process -> Locations]
  BY DEF OthersSame, ManualInv, TypeOK, Locations, Holding
<1>2. Present(db'.rows) = {} => Present(db.rows) = {}
  BY DEF Extends, HeaderPrefix, Present
<1>3. ChainSound(p)'
  BY <1>1, <1>2 DEF ManualInv, ProcessSound, ChainSound, Holding
<1>4. CallSound(p)'
  BY <1>1 DEF ManualInv, ProcessSound, CallSound, Holding
<1>5. QED
  BY <1>1, <1>3, <1>4

LEMMA InsertBlockSound ==
  ASSUME ManualInv, NEW p \in Process, InsertBlock(p)
  PROVE  ManualInv'
<1> DEFINE b == call[p].block
           t == InsertRow(wdb, b)
<1>1. /\ pc[p] = "insert_block" /\ ~Conflict(wdb, b) /\ Write(p, t)
      /\ pc' = [pc EXCEPT ![p] = "upsert"]
      /\ chain' = chain /\ state' = state /\ call' = call
  BY DEF InsertBlock, Goto
<1>2. db' = db /\ wdb' = t /\ writer' = p /\ writer \in {None, p}
  BY <1>1 DEF Write, MayWrite
<1>3. b \in Blocks /\ IsBlock(b)
  BY <1>1 DEF ManualInv, TypeOK, Calls, ProcessSound, CallSound, Holding
<1>4. wdb.rows[b.index] = None
  BY <1>1 DEF Conflict
<1>5. TablesOf(t) /\ Extends(wdb, t) /\ t.rows[b.index] = b
  BY <1>3, <1>4, OpenTables, InsertRowSound
<1>6. Extends(db, db')
  BY <1>2, ExtendsReflexive DEF ManualInv, TypeOK
<1>7. /\ OthersSame(p) /\ pc'[p] = "upsert" /\ pc' \in [Process -> Locations]
      /\ ChainSound(p)' /\ CallSound(p)'
  BY <1>1, <1>6, HoldingStep DEF Holding
<1> HIDE DEF t
<1>8. TypeOK'
  BY <1>1, <1>2, <1>5, <1>7 DEF ManualInv, TypeOK, TablesOf
<1>9. WriterSound(p)'
  BY <1>1, <1>2, <1>5, <1>7 DEF WriterSound, Writing
<1>10. OnTop(p)'
  <2>1. SUFFICES HeaderPrefix(chain[p], t.rows)
    BY <1>1, <1>2 DEF OnTop
  <2>2. HeaderPrefix(chain[p], wdb.rows)
    BY <1>1, <1>2, NobodyAssumption
       DEF ManualInv, ProcessSound, OnTop, TablesSound
  <2>3. chain[p] \in Chains /\ wdb.rows \in Chains /\ t.rows \in Chains
    BY <1>5 DEF ManualInv, TypeOK, Tables, TablesOf
  <2>4. QED
    BY <1>5, <2>2, <2>3, PrefixTransitive DEF Extends
<1>11. QED
  BY <1>1, <1>5, <1>7, <1>8, <1>9, <1>10, WriteSound DEF ProcessSound

\* The statements that leave the rows as they are.
LEMMA WriteRestSound ==
  ASSUME ManualInv, NEW p \in Process, NEW t, Write(p, t), TablesOf(t),
         Extends(wdb, t), t.rows = wdb.rows,
         pc[p] \in Writing, NEW location \in Writing, pc' = [pc EXCEPT ![p] = location],
         chain' = chain, state' = state, call' = call
  PROVE  ManualInv'
<1>1. db' = db /\ wdb' = t /\ writer' = p
  BY DEF Write
<1>2. Extends(db, db')
  BY <1>1, ExtendsReflexive DEF ManualInv, TypeOK
<1>3. /\ OthersSame(p) /\ pc'[p] = location /\ pc' \in [Process -> Locations]
      /\ ChainSound(p)' /\ CallSound(p)'
  BY <1>2, HoldingStep DEF Holding, Writing
<1>4. TypeOK'
  BY <1>1, <1>3 DEF ManualInv, TypeOK, TablesOf
<1>5. WriterSound(p)' /\ OnTop(p)'
  BY <1>1, <1>3 DEF ManualInv, ProcessSound, WriterSound, OnTop, Writing
<1>6. QED
  BY <1>3, <1>4, <1>5, WriteSound DEF ProcessSound

LEMMA UpsertBalancesSound ==
  ASSUME ManualInv, NEW p \in Process, UpsertBalances(p)
  PROVE  ManualInv'
<1> DEFINE bal == call[p].staged.current_state
           t   == Upsert(wdb, Accounts(call[p].batch), bal)
<1>1. /\ pc[p] = "upsert" /\ Write(p, t)
      /\ pc' = [pc EXCEPT ![p] = "insert_ids"]
      /\ chain' = chain /\ state' = state /\ call' = call
  BY DEF UpsertBalances, Goto
<1>2. bal \in Balances
  BY DEF ManualInv, TypeOK, Calls, States
<1> HIDE DEF bal
<1>3. TablesOf(t) /\ Extends(wdb, t) /\ t.rows = wdb.rows
  BY <1>2, OpenTables, UpsertSound
<1> HIDE DEF t
<1>4. QED
  BY <1>1, <1>3, WriteRestSound DEF Writing

LEMMA InsertTxIdsSound ==
  ASSUME ManualInv, NEW p \in Process, InsertTxIds(p)
  PROVE  ManualInv'
<1> DEFINE b   == call[p].block
           ids == TxIds(call[p].batch)
           t   == InsertIds(wdb, ids, b.index)
<1>1. /\ pc[p] = "insert_ids" /\ Write(p, t)
      /\ pc' = [pc EXCEPT ![p] = "commit_add"]
      /\ chain' = chain /\ state' = state /\ call' = call
  BY DEF InsertTxIds, Goto
<1>2. /\ b \in Blocks /\ b # None /\ BatchOf(b) = call[p].batch
      /\ wdb.rows[b.index] = b /\ call[p].batch \in Batch
  BY <1>1 DEF ManualInv, TypeOK, Calls, ProcessSound, CallSound, WriterSound,
              Holding, Writing
<1>3. ids \in SUBSET TxId
  <2>1. \A i \in DOMAIN call[p].batch : call[p].batch[i].tx_id \in TxId
    BY <1>2, BatchAssumption, TxAssumption
  <2>2. QED
    BY <2>1 DEF TxIds
<1>4. b.index \in Index /\ wdb.rows[b.index] # None
      /\ ids \subseteq TxIds(BatchOf(wdb.rows[b.index]))
  BY <1>2 DEF Blocks
<1> HIDE DEF b, ids
<1>5. TablesOf(t) /\ Extends(wdb, t) /\ t.rows = wdb.rows
  BY <1>3, <1>4, OpenTables, InsertIdsSound
<1> HIDE DEF t
<1>6. QED
  BY <1>1, <1>5, WriteRestSound DEF Writing

LEMMA CommitAddSound ==
  ASSUME ManualInv, NEW p \in Process, CommitAdd(p)
  PROVE  ManualInv'
<1>1. /\ pc[p] = "commit_add" /\ Commit(p) /\ pc' = [pc EXCEPT ![p] = "apply"]
      /\ chain' = chain /\ state' = state /\ call' = call
  BY DEF CommitAdd, Goto
<1>2. db' = wdb /\ wdb' = wdb /\ writer' = None /\ Extends(db, db')
  BY <1>1 DEF Commit, ManualInv, TablesSound
<1>3. /\ OthersSame(p) /\ pc'[p] = "apply" /\ pc' \in [Process -> Locations]
      /\ ChainSound(p)' /\ CallSound(p)'
  BY <1>1, <1>2, HoldingStep DEF Holding
<1>4. TypeOK'
  BY <1>1, <1>2, <1>3 DEF ManualInv, TypeOK
<1>5. WriterSound(p)' /\ OnTop(p)'
  BY <1>2, <1>3, NobodyAssumption DEF WriterSound, OnTop, Writing
<1>6. QED
  BY <1>1, <1>3, <1>4, <1>5, CommitSound DEF ProcessSound

LEMMA PruneRowSound ==
  ASSUME ManualInv, NEW p \in Process, PruneRow(p)
  PROVE  ManualInv'
<1>1. PICK i \in Candidates(p) :
         /\ wdb.rows[i] # None /\ Write(p, MarkPruned(wdb, i))
         /\ call' = [call EXCEPT ![p].todo = call[p].todo \ {i}]
  BY DEF PruneRow
<1> DEFINE d == [call[p] EXCEPT !.todo = call[p].todo \ {i}]
           t == MarkPruned(wdb, i)
<1>2. /\ pc[p] = "prune_rows" /\ pc' = pc /\ chain' = chain /\ state' = state
      /\ db' = db /\ wdb' = t /\ writer' = p
  BY <1>1 DEF PruneRow, Write
<1>3. call[p] \in Calls /\ i \in Index
  BY DEF Candidates, ManualInv, TypeOK, Calls
<1>4. d \in Calls
  BY <1>3 DEF Calls
<1>5. call' = [call EXCEPT ![p] = d]
  BY <1>1
<1> HIDE DEF d
<1>6. TablesOf(t) /\ Extends(wdb, t)
  BY <1>1, <1>3, OpenTables, MarkPrunedSound
<1>7. OthersSame(p) /\ pc'[p] = "prune_rows"
  BY <1>2, <1>5 DEF OthersSame, ManualInv, TypeOK
<1> HIDE DEF t
<1>8. TypeOK'
  BY <1>2, <1>4, <1>5, <1>6 DEF ManualInv, TypeOK, TablesOf
<1>9. ChainSound(p)'
  BY <1>2, <1>7 DEF ManualInv, ProcessSound, ChainSound
<1>10. CallSound(p)' /\ WriterSound(p)' /\ OnTop(p)'
  BY <1>2, <1>7 DEF CallSound, WriterSound, OnTop, Holding, Writing
<1>11. Write(p, t)
  BY <1>1 DEF t
<1>12. QED
  BY <1>6, <1>7, <1>8, <1>9, <1>10, <1>11, WriteSound DEF ProcessSound

LEMMA CommitPruneSound ==
  ASSUME ManualInv, NEW p \in Process, CommitPrune(p)
  PROVE  ManualInv'
<1>1. /\ pc[p] = "prune_rows" /\ Commit(p) /\ pc' = [pc EXCEPT ![p] = "prune_chain"]
      /\ chain' = chain /\ state' = state /\ call' = call
  BY DEF CommitPrune, Goto
<1>2. db' = wdb /\ wdb' = wdb /\ writer' = None /\ Extends(db, db')
  BY <1>1 DEF Commit, ManualInv, TablesSound
<1>3. OthersSame(p) /\ pc'[p] = "prune_chain"
  BY <1>1 DEF OthersSame, ManualInv, TypeOK
<1>4. TypeOK'
  BY <1>1, <1>2 DEF ManualInv, TypeOK, Locations
<1>5. ChainSound(p)'
  <2>1. Present(db'.rows) = {} => Present(db.rows) = {}
    BY <1>2 DEF Extends, HeaderPrefix, Present
  <2>2. QED
    BY <1>1, <1>3, <2>1 DEF ManualInv, ProcessSound, ChainSound
<1>6. CallSound(p)' /\ WriterSound(p)' /\ OnTop(p)'
  BY <1>2, <1>3, NobodyAssumption DEF CallSound, WriterSound, OnTop, Holding, Writing
<1>7. QED
  BY <1>1, <1>3, <1>4, <1>5, <1>6, CommitSound DEF ProcessSound

\* mark_pruned is a transaction of one statement, while nobody writes.
LEMMA MarkPrunedDirectlySound ==
  ASSUME ManualInv, NEW p \in Process, NEW i \in Index, MarkPrunedDirectly(p, i)
  PROVE  ManualInv' /\ Extends(db, db')
<1>1. /\ writer = None /\ writer' = None /\ db.rows[i] # None
      /\ db' = MarkPruned(db, i) /\ wdb' = db'
      /\ pc' = pc /\ chain' = chain /\ state' = state /\ call' = call
  BY DEF MarkPrunedDirectly
<1>2. TablesOf(db') /\ Extends(db, db')
  BY <1>1, OpenTables, MarkPrunedSound
<1>3. TypeOK'
  BY <1>1, <1>2 DEF ManualInv, TypeOK, TablesOf
<1>4. TablesSound'
  BY <1>1, <1>2, ExtendsReflexive DEF TablesSound, TablesOf
<1>5. ASSUME NEW q \in Process PROVE ProcessSound(q)'
  BY <1>1, <1>2, <1>3, NobodyAssumption, OtherSound DEF ManualInv
<1>6. QED
  BY <1>2, <1>3, <1>4, <1>5 DEF ManualInv

\* append_block is one transaction too.
LEMMA AppendDirectlySound ==
  ASSUME ManualInv, NEW p \in Process, NEW b \in Blocks, IsBlock(b),
         NEW ids \in SUBSET TxId, ids \subseteq TxIds(BatchOf(b)) \cup ForeignIds,
         NEW accounts, NEW bal \in Balances,
         AppendDirectly(p, b, ids, accounts, bal)
  PROVE  ManualInv' /\ Extends(db, db')
<1>1. /\ writer = None /\ writer' = None /\ ~Conflict(db, b)
      /\ db' = AppendRow(db, b, ids, accounts, bal) /\ wdb' = db'
      /\ pc' = pc /\ chain' = chain /\ state' = state /\ call' = call
  BY DEF AppendDirectly
<1>2. db.rows[b.index] = None
  BY <1>1 DEF Conflict
<1>3. TablesOf(db') /\ Extends(db, db')
  BY <1>1, <1>2, OpenTables, AppendRowSound
<1>4. TypeOK'
  BY <1>1, <1>3 DEF ManualInv, TypeOK, TablesOf
<1>5. TablesSound'
  BY <1>1, <1>3, ExtendsReflexive DEF TablesSound, TablesOf
<1>6. ASSUME NEW q \in Process PROVE ProcessSound(q)'
  BY <1>1, <1>3, <1>4, NobodyAssumption, OtherSound DEF ManualInv
<1>7. QED
  BY <1>3, <1>4, <1>5, <1>6 DEF ManualInv

LEMMA TxIdsOfBlock ==
  ASSUME NEW b \in Blocks
  PROVE  TxIds(BatchOf(b)) \subseteq TxId
<1>1. BatchOf(b) \in Batch
  BY BatchAssumption DEF BatchOf, Blocks, Root
<1>2. \A i \in DOMAIN BatchOf(b) : BatchOf(b)[i].tx_id \in TxId
  BY <1>1, BatchAssumption, TxAssumption
<1>3. QED
  BY <1>2 DEF TxIds

\* Whatever its arguments are.
LEMMA AppendAnythingSound ==
  ASSUME ManualInv, NEW p \in Process, AppendAnything(p)
  PROVE  ManualInv' /\ Extends(db, db')
<1>1. PICK b \in {chain[p][i] : i \in Present(chain[p])} \cup InjectedBlocks,
           s \in InjectedStates \cup {state[p]} :
              \E ids \in SUBSET (TxIds(BatchOf(b)) \cup ForeignIds),
                 accounts \in SUBSET {a \in Account : s.current_state[a] # None} :
                    AppendDirectly(p, b, ids, accounts, s.current_state)
  BY DEF AppendAnything
<1>2. PICK ids \in SUBSET (TxIds(BatchOf(b)) \cup ForeignIds),
           accounts \in SUBSET Account :
              AppendDirectly(p, b, ids, accounts, s.current_state)
  BY <1>1
<1>3. b \in Blocks /\ IsBlock(b)
  <2>1. chain[p] \in Chains /\ HasBlocks(chain[p])
    BY DEF ManualInv, TypeOK, ProcessSound, ChainSound
  <2>2. QED
    BY <2>1, PresentFacts, ManualAssumption DEF HasBlocks
<1>4. s.current_state \in Balances
  <2>1. s \in States
    BY ManualAssumption DEF ManualInv, TypeOK
  <2>2. QED
    BY <2>1 DEF States
<1>5. ids \in SUBSET TxId
  BY <1>3, TxIdsOfBlock, ManualAssumption
<1>6. QED
  BY <1>2, <1>3, <1>4, <1>5, AppendDirectlySound

-----------------------------------------------------------------------------
(* The invariant.                                                            *)

\* Every step of the coordinated calls.
LEMMA NextSound ==
  ASSUME ManualInv, NEW p \in Process, Call(p) \/ Continue(p) \/ Fail(p)
  PROVE  ManualInv'
<1>1. CASE Call(p)
  <2>1. CASE StartEmpty(p) \/ LoadBlocks(p) \/ BeginPrune(p)
    BY <2>1, StartSound, LoadBlocksSound, BeginPruneSound
  <2>2. CASE \E batch \in Batch : BeginAdd(p, batch)
    BY <2>2, BeginAddSound
  <2>3. QED
    BY <1>1, <2>1, <2>2 DEF Call
<1>2. CASE Continue(p)
  <2>1. CASE LoadState(p) \/ LoadIds(p) \/ StageTransaction(p) \/ CreateBlock(p)
    BY <2>1, LoadRestSound, StageTransactionSound, CreateBlockSound
  <2>2. CASE EnsureEmpty(p) \/ EnsureMatch(p) \/ ApplyToChain(p) \/ PruneChain(p)
    BY <2>2, EnsureSound, ApplyToChainSound, PruneInMemorySound
  <2>3. CASE InsertGenesis(p) \/ InsertBlock(p) \/ UpsertBalances(p) \/ InsertTxIds(p)
    BY <2>3, InsertGenesisSound, InsertBlockSound, UpsertBalancesSound, InsertTxIdsSound
  <2>4. CASE CommitAdd(p) \/ PruneRow(p) \/ CommitPrune(p)
    BY <2>4, CommitAddSound, PruneRowSound, CommitPruneSound
  <2>5. CASE AddRaisesKeyError(p) \/ EnsureRaises(p) \/ InsertRaises(p)
             \/ PruneRowRaises(p) \/ BusyTimeout(p)
    <3>1. Raise(p) /\ pc[p] # "down"
      BY <2>5 DEF AddRaisesKeyError, EnsureRaises, InsertRaises, PruneRowRaises,
                  BusyTimeout, Staged, LockLocations
    <3>2. QED
      BY <3>1, RaiseSound
  <2>6. QED
    BY <1>2, <2>1, <2>2, <2>3, <2>4, <2>5 DEF Continue
<1>3. CASE Fail(p)
  <2>1. CASE SqlError(p)
    BY <2>1, RaiseSound DEF SqlError, SqlLocations
  <2>2. CASE LoadRaises(p) \/ Crash(p)
    BY <2>2, StopSound DEF LoadRaises, Crash
  <2>3. QED
    BY <1>3, <2>1, <2>2 DEF Fail
<1>4. QED
  BY <1>1, <1>2, <1>3

\* Every step of the rest of the interface.
LEMMA ManualSound ==
  ASSUME ManualInv, NEW p \in Process, Manual(p)
  PROVE  ManualInv'
<1>1. CASE StartInjected(p) \/ PruneInMemory(p)
  BY <1>1, StartSound, PruneInMemorySound
<1>2. CASE \E batch \in Batch : AddInMemory(p, batch)
  BY <1>2, AddInMemorySound
<1>3. CASE AppendAnything(p) \/ \E i \in Index : MarkPrunedDirectly(p, i)
  BY <1>3, AppendAnythingSound, MarkPrunedDirectlySound
<1>4. QED
  BY <1>1, <1>2, <1>3 DEF Manual, InMemory

LEMMA ManualNextSound == ManualInv /\ [ManualNext]_vars => ManualInv'
<1> SUFFICES ASSUME ManualInv, [ManualNext]_vars PROVE ManualInv'
  OBVIOUS
<1>1. CASE UNCHANGED vars
  <2>1. /\ db' = db /\ wdb' = wdb /\ writer' = writer
        /\ pc' = pc /\ chain' = chain /\ state' = state /\ call' = call
    BY <1>1 DEF vars
  <2>2. TypeOK' /\ TablesSound'
    BY <2>1 DEF ManualInv, TypeOK, TablesSound
  <2>3. ASSUME NEW q \in Process PROVE ProcessSound(q)'
    BY <2>1 DEF ManualInv, ProcessSound, ChainSound, CallSound, WriterSound, OnTop
  <2>4. QED
    BY <2>2, <2>3 DEF ManualInv
<1>2. CASE Next
  BY <1>2, NextSound DEF Next
<1>3. CASE \E p \in ManualProcess : Manual(p)
  BY <1>3, ManualSound, ManualAssumption
<1>4. QED
  BY <1>1, <1>2, <1>3 DEF ManualNext

\* Whatever calls are made, in whatever order and with whatever ids and balances
\* append_block is given, tables and chains hold blocks, an applied id has a row,
\* which carries it unless append_block was given it with another, and a process
\* that writes holds the lock and everything its memory has
\* (chain_store.py:59-143).
THEOREM ManualInvariance == ManualSpec => []ManualInv
<1>1. Init => ManualInv
  BY InitSound
<1>2. ManualInv /\ [ManualNext]_vars => ManualInv'
  BY ManualNextSound
<1>3. QED
  BY <1>1, <1>2, PTL DEF ManualSpec

\* Even where rows of different chains meet in one file, every row is a block
\* with the hash of its own header and the body that it commits to, or none
\* (chain_store.py:117-132, block.py:116-141).
THEOREM RowsAlwaysBlocks == ManualSpec => []RowsAreBlocks
<1>1. ManualInv => RowsAreBlocks
  BY DEF ManualInv, TablesSound, RowsAreBlocks
<1>2. QED
  BY <1>1, ManualInvariance, PTL

\* Each applied id has a row whose header commits to a transaction with that
\* id, unless callers give it to append_block with blocks that do not carry it:
\* for every set of such ids, all of them or none included
\* (chain_store.py:33-36, 59-69, 140-143).
THEOREM IdsAlwaysRefer == ManualSpec => []IdsReferToRows
<1>1. ManualInv => IdsReferToRows
  BY DEF ManualInv, TablesSound, IdsReferToRows
<1>2. QED
  BY <1>1, ManualInvariance, PTL

-----------------------------------------------------------------------------
(* What a step may do to the file.                                           *)

\* Only the two COMMITs, append_block and mark_pruned change the file.
LEMMA OnlyFourChangeFile ==
  ASSUME [ManualNext]_vars
  PROVE  \/ db' = db
         \/ \E p \in Process : CommitAdd(p) \/ CommitPrune(p) \/ AppendAnything(p)
         \/ \E p \in Process, i \in Index : MarkPrunedDirectly(p, i)
<1>1. CASE [Next]_vars
  BY <1>1, OnlyCommitsChangeFile
<1>2. ASSUME NEW p \in ManualProcess, Manual(p)
      PROVE  \/ db' = db
             \/ p \in Process /\ AppendAnything(p)
             \/ p \in Process /\ \E i \in Index : MarkPrunedDirectly(p, i)
  <2>1. CASE StartInjected(p) \/ PruneInMemory(p)
    BY <2>1 DEF StartInjected, PruneInMemory
  <2>2. CASE \E batch \in Batch : AddInMemory(p, batch)
    BY <2>2 DEF AddInMemory
  <2>3. CASE AppendAnything(p) \/ \E i \in Index : MarkPrunedDirectly(p, i)
    BY <2>3, ManualAssumption
  <2>4. QED
    BY <1>2, <2>1, <2>2, <2>3 DEF Manual, InMemory
<1>3. QED
  BY <1>1, <1>2 DEF ManualNext

\* Whatever calls are made, a committed header never changes or vanishes, a
\* dropped body never comes back and an applied id stays applied by the same
\* block (chain_store.py:71-143).
THEOREM ManualFileOnlyGrows == ManualSpec => DurableAppendOnly
<1>1. ASSUME ManualInv, [ManualNext]_vars PROVE [Extends(db, db')]_db
  <2>1. ASSUME NEW p \in Process, CommitAdd(p) \/ CommitPrune(p) PROVE Extends(db, db')
    BY <1>1, <2>1 DEF CommitAdd, CommitPrune, Commit, ManualInv, TablesSound
  <2>2. ASSUME NEW p \in Process, NEW i \in Index, MarkPrunedDirectly(p, i)
        PROVE  Extends(db, db')
    BY <1>1, <2>2, MarkPrunedDirectlySound
  <2>3. ASSUME NEW p \in Process, AppendAnything(p) PROVE Extends(db, db')
    BY <1>1, <2>3, AppendAnythingSound
  <2>4. QED
    BY <1>1, <2>1, <2>2, <2>3, OnlyFourChangeFile
<1>2. QED
  BY <1>1, ManualInvariance, PTL DEF ManualSpec, DurableAppendOnly

\* A process goes from commit_add to apply by committing.
LEMMA ApplyAfterCommit ==
  ASSUME ManualInv, [ManualNext]_vars, NEW p \in Process,
         pc[p] = "commit_add", pc'[p] = "apply"
  PROVE  CommitAdd(p)
<1> DEFINE Moves(q, l) == pc' = [pc EXCEPT ![q] = l]
<1>1. pc \in [Process -> Locations]
  BY DEF ManualInv, TypeOK
<1>2. ASSUME NEW q \in Process, NEW l, Moves(q, l), l # "apply" PROVE FALSE
  BY <1>1, <1>2
<1>3. pc' # pc
  OBVIOUS
<1>4. ASSUME NEW q \in Process PROVE ~Raise(q) /\ ~Stop(q)
  BY <1>2 DEF Raise, Return, Stop, Goto
<1>5. ASSUME NEW q \in Process, Call(q) PROVE FALSE
  <2>1. CASE StartEmpty(q) \/ LoadBlocks(q)
    BY <1>2, <2>1 DEF StartEmpty, LoadBlocks, Goto
  <2>2. CASE BeginPrune(q)
    BY <1>2, <2>2 DEF BeginPrune, Goto
  <2>3. ASSUME NEW batch \in Batch, BeginAdd(q, batch) PROVE FALSE
    <3>1. Moves(q, "stage")
      BY <2>3 DEF BeginAdd, Goto
    <3>2. QED
      BY <1>2, <3>1
  <2>4. QED
    BY <1>5, <2>1, <2>2, <2>3 DEF Call
<1>6. ASSUME NEW q \in Process, Continue(q) PROVE CommitAdd(q)
  <2>1. CASE LoadState(q) \/ LoadIds(q)
    BY <1>2, <2>1 DEF LoadState, LoadIds, Goto
  <2>2. CASE StageTransaction(q) \/ PruneRow(q)
    BY <1>3, <2>2 DEF StageTransaction, PruneRow
  <2>3. CASE CreateBlock(q) \/ EnsureEmpty(q) \/ EnsureMatch(q)
    BY <1>2, <2>3 DEF CreateBlock, EnsureEmpty, EnsureMatch, Goto
  <2>4. CASE InsertGenesis(q) \/ InsertBlock(q)
    BY <1>2, <2>4 DEF InsertGenesis, InsertBlock, Goto
  <2>5. CASE UpsertBalances(q) \/ InsertTxIds(q)
    BY <1>2, <2>5 DEF UpsertBalances, InsertTxIds, Goto
  <2>6. CASE ApplyToChain(q) \/ CommitPrune(q) \/ PruneChain(q)
    BY <1>2, <2>6 DEF ApplyToChain, CommitPrune, PruneChain, Return, Goto
  <2>7. CASE AddRaisesKeyError(q) \/ EnsureRaises(q) \/ InsertRaises(q)
             \/ PruneRowRaises(q) \/ BusyTimeout(q)
    BY <1>4, <2>7 DEF AddRaisesKeyError, EnsureRaises, InsertRaises, PruneRowRaises,
                      BusyTimeout
  <2>8. QED
    BY <1>6, <2>1, <2>2, <2>3, <2>4, <2>5, <2>6, <2>7 DEF Continue
<1>7. ASSUME NEW q \in Process, Fail(q) PROVE FALSE
  BY <1>4, <1>7 DEF Fail, SqlError, LoadRaises, Crash
<1>8. ASSUME NEW q \in ManualProcess, Manual(q) PROVE FALSE
  <2>1. q \in Process
    BY ManualAssumption
  <2>2. CASE StartInjected(q)
    BY <1>2, <2>1, <2>2 DEF StartInjected, Goto
  <2>3. CASE InMemory(q)
    <3>1. pc' = pc
      BY <2>3 DEF InMemory, AddInMemory, PruneInMemory
    <3>2. QED
      BY <1>3, <3>1
  <2>4. CASE AppendAnything(q)
    <3>1. pc' = pc
      BY <2>4 DEF AppendAnything, AppendDirectly
    <3>2. QED
      BY <1>3, <3>1
  <2>5. ASSUME NEW i \in Index, MarkPrunedDirectly(q, i) PROVE FALSE
    BY <1>3, <2>5 DEF MarkPrunedDirectly
  <2>6. QED
    BY <1>8, <2>2, <2>3, <2>4, <2>5 DEF Manual
<1>9. PICK q \in Process : CommitAdd(q)
  BY <1>3, <1>5, <1>6, <1>7, <1>8 DEF ManualNext, Next, vars
<1>10. q = p
  BY <1>1, <1>9 DEF CommitAdd, Goto
<1>11. QED
  BY <1>9, <1>10

\* add_block commits on top of everything its process has in memory, whatever
\* the other calls did to the file meanwhile (chain_store.py:86-90, 145-155).
THEOREM AddsExtend == ManualSpec => AddExtendsFile
<1> DEFINE Added(p) == pc[p] = "commit_add" /\ pc'[p] = "apply"
                       => HeaderPrefix(AppendBlock(chain[p], call[p].block), db'.rows)
<1>1. ASSUME ManualInv, [ManualNext]_vars, NEW p \in Process PROVE Added(p)
  <2> DEFINE b == call[p].block
             d == AppendBlock(chain[p], b)
  <2>1. SUFFICES ASSUME pc[p] = "commit_add", pc'[p] = "apply"
                 PROVE  HeaderPrefix(d, db'.rows)
    OBVIOUS
  <2>2. db' = wdb
    <3>1. CommitAdd(p)
      BY <1>1, <2>1, ApplyAfterCommit
    <3>2. QED
      BY <3>1 DEF CommitAdd, Commit
  <2>3. /\ b \in Blocks /\ IsBlock(b) /\ b # None
        /\ wdb.rows[b.index] = b /\ HeaderPrefix(chain[p], wdb.rows)
        /\ chain[p] \in Chains /\ HasBlocks(chain[p])
    BY <1>1, <2>1 DEF ManualInv, TypeOK, Calls, ProcessSound, ChainSound, CallSound,
                      WriterSound, OnTop, Holding, Writing
  <2> HIDE DEF b
  <2>4. Present(d) = Present(chain[p]) \cup {b.index}
    BY <2>3, AppendSound
  <2>5. b.index \in Index /\ d[b.index] = b /\ \A i \in Index \ {b.index} : d[i] = chain[p][i]
    BY <2>3 DEF AppendBlock, Chains, Blocks
  <2> HIDE DEF d
  <2>6. \A i \in Present(chain[p]) : i \in Index
    BY DEF Present
  <2>7. HeaderPrefix(d, wdb.rows)
    BY <2>1, <2>3, <2>4, <2>5, <2>6 DEF HeaderPrefix
  <2>8. QED
    BY <2>2, <2>7
<1>2. ManualInv /\ [ManualNext]_vars => [\A p \in Process : Added(p)]_vars
  <2> HIDE DEF Added
  <2>1. QED
    BY <1>1
<1>3. QED
  BY <1>2, ManualInvariance, PTL DEF ManualSpec, AddExtendsFile
=============================================================================
