# A TLA+ model of blockchain_compression

The program is a Python library: a hash-linked chain of blocks with account
state, an SQLite file that persists it, pruning of old block bodies, Merkle
trees, a metrics registry, and zero-knowledge proofs. This directory models its
stateful core, checks it with TLC and proves the main results with TLAPS.
Paths below are relative to `src/blockchain_compression/` of the repository.

## 1. Inventory

| Component | State | Operations | Used by |
|---|---|---|---|
| `StateDelta` (`compression/state_delta.py`) | balances, applied transaction ids | validate, apply, snapshot, replace | `Chain` |
| `Block` (`chain/block.py`) | header, hash, body, `is_pruned` | create, from_persisted, prune, verify_body | `Chain`, `ChainStore`, `BlockchainPruner` |
| `Chain` (`chain/chain.py`) | block list, a `StateDelta` | add_block (prepare, commit), validate_chain | `ChainStore`, the pruner, callers |
| `BlockchainPruner` (`pruning/`) | retention window | prune | `ChainStore.prune_chain`, callers |
| `ChainStore` (`persistence/chain_store.py`) | three tables in an SQLite file | add_block, prune_chain, load_chain, append_block, mark_pruned | callers |
| `MerkleTree` (`merkle/`) | levels of digests | build, get_root, get_proof, verify_proof | `Block`, callers |
| `MetricsRegistry` (`observability/`) | kinds, counters, gauges, histograms | increment, set, observe, two exports | `Chain`, the pruner, zk proofs, callers |
| `zk_proof/` | none | commit, open, prove, verify | callers |
| `canonical.py`, `BlockCompressor` | none | encode; compress, decompress | `Block`, zk proofs |
| `main.py`, `benchmarks/` | none of their own | a demo; measurements | nobody |

Interactions. Everything inside one process is a synchronous call. Processes
meet only in the SQLite file: `ChainStore` opens a connection, and any number of
processes may each hold a chain in memory and share the file. `add_block` and
`prune_chain` are the coordinated calls: they write the file first and change
the chain in memory after the commit. `Chain.add_block`,
`BlockchainPruner.prune`, `append_block` and `mark_pruned` are the uncoordinated
ones: each touches one side only, and the caller keeps the sides together.

What is hard here:

- *interleaving*: the header check of `add_block` is a SELECT that runs before
  the transaction has the write lock, so what it read may be stale at the INSERT;
- *torn reads*: `load_chain` is three transactions;
- *crashes and failing statements* at every point of a write, and between the
  commit and the change in memory;
- *stale memory*: a process appends to, or prunes by, a chain that others have
  outgrown;
- *replay*: the same transaction id may come again in the same batch, in a later
  block, from another process, or after a reload from pruned blocks;
- *uncoordinated calls* that leave the two sides different;
- *calls that raise half-way*: metrics are recorded after the chain, and the
  file, have changed; an observation may raise after it registered its name, or
  after it was counted in its buckets and before the sum and the total are;
- *data that changes or comes back different*: dictionaries shared with the
  caller, damaged rows, keys that JSON turns into strings;
- *edge values*: odd levels of a Merkle tree, NaN, exponents and commitments at
  the ends of their ranges.

What makes each part correct:

- the store: an append-only history; each id credited once; memory a prefix of
  the file; equal headers imply equal state; bodies dropped in the file first
  and never inside the retention window; every call ends;
- chain and block: `validate_chain` accepts every chain the program can build;
- Merkle trees: proofs verify, verified proofs are true, roots bind lists;
- bodies: what verifies is what was committed, and what is intact verifies;
- metrics: one kind per name, fixed cumulative buckets, counters that do not
  fall, two exports that agree; with the chains that have the registry, counters
  that are exact;
- proofs of knowledge: honest ones verify, those made from anything but an
  opening do not, and none shows the opening.

The hazards, each at its line, are listed in `PROJECT.json`.

## 2. Modules

```
StateDelta <- Block <- Chain <- ChainStore <- ChainStoreSafety <- ChainStoreInvariant
     ^                              (uses Ledger)      ^                  ^
   Ledger                                         ManualStore      ChainStoreProofs
                                                       ^                  ^
                                          ManualStoreInvariant   ChainStoreHistoryProofs
                                                       ^
                                                ManualStoreProofs (with ChainStoreProofs)

MerkleTree <- BlockBody             Metrics <- InstrumentedChain <- InstrumentedInvariant
    ^             ^                                                          ^
MerkleProofs <- BlockBodyProofs     Sigma <- SigmaProofs               MetricsProofs

Induction: lemmas on induction and sums, used by every proof module but ChainStoreProofs
```

- `StateDelta`, `Block`, `Chain` hold no variables: they are the data types and
  the sequential operations. A balance dictionary is a function that is `None`
  where the key is absent, because an absent account and a balance of 0 differ
  (`add_block` raises `KeyError` on the first). Digests are ideal: a Merkle
  root is the list it commits to, a hash is the hash it extends with the header
  fields added, so equal hashes mean equal histories (that a root binds its list
  is `RootBinding`, proved of the real trees). `transactions` and
  `compressed_body` are set and dropped together and are one field, `body`.
  A block list is a function of the block index, since every list the program
  builds is ordered by strictly increasing indices; gaps are possible (a file
  filled with `append_block`) and `Position` counts past them.
- `ChainStore` is the coordinated interface, for a set of processes. `db` is
  the committed file, `wdb` the working copy of the transaction that holds the
  write lock (`writer`), `pc`, `chain`, `state` and `call` the location, the
  memory and the local variables of each process. Each SQL statement and each
  turn of the staging loop is an action; the conditions of
  `_ensure_chain_persisted`, the unique keys and the `KeyError`s are guards.
  `executemany` is one action: it runs inside a transaction that nobody else can
  see into, and a failure in it rolls everything back. `BusyTimeout` is
  sqlite3 giving up on the lock, `SqlError` any other error of a statement or a
  COMMIT, `Crash` the end of the process.
- `Ledger` is the abstract specification: a log of batches, balances and applied
  ids, and one action.
- `ChainStoreSafety` states the properties and maps the file to the ledger.
- `ChainStoreInvariant` has the inductive invariants: `IInv`, and `HistoryInv`
  and `EffectInv`, which are inductive together with it. `ChainStoreProofs` and
  `ChainStoreHistoryProofs` hold the proofs.
- `ManualStore` adds the uncoordinated calls. `append_block` and `mark_pruned`
  read nothing before they take the lock, so each is one action, which a failure
  in it leaves undone. `append_block` checks none of its arguments:
  `AppendAnything` gives it any block of the process's chain or one that a caller
  made with `Block(...)` (`InjectedBlocks`: with its own hash, at any index), any
  of the ids the block carries and any `ForeignIds`, and any accounts with the
  balances of some state. `ForeignIds` is a parameter, up to all of `TxId`: the
  ids that callers pass with blocks that do not carry them. `SyncBlock` passes
  what the demo passes. Four specifications combine them: `ManualSpec` is
  everything in any order, `InjectedSpec`, `InMemorySpec` and `SyncSpec` add one
  or two uncoordinated calls to the coordinated ones. `ManualStoreInvariant` has
  the inductive invariant of the first.
- `MerkleTree`: one party publishes roots and hands out proofs, another checks
  proofs against the root of the moment. `BlockBody` puts a block around it:
  leaves are canonical JSON, the body is the list of the same strings, a reload
  finds it intact or damaged, and `VerifyBody` is "true", "false" or "raises",
  in the order of the early returns of `verify_body`. A transaction is the set of
  keys of a dictionary in it and their type: values come back from JSON with the
  text they had, keys come back as strings and sort differently. `Block` of the
  store has ideal bodies; `BlockBody` is where the encoding is looked at.
- `Metrics`: the registry, with the calls that raise half-way; the exports are
  sets of the samples shown; `JsonRaises` and `TextRaises` say when an export is
  a `KeyError` instead. An observation can raise at four places: where the bounds
  are sorted, at the labels, at the comparison with the bounds, and at line 125,
  where a value that was already counted (the integer `10**400`, a `Decimal`) is
  added to a float. `halfway` is history and counts the last kind. A value
  compares with all bounds or with none, as it does when bounds are floats or
  integers. `InstrumentedChain`
  composes it with chains and pruners: `todo` is what a call has still to do once
  it has changed the state or the bodies, one statement per step, and
  `RecordRaises` ends the call there. Other code may take any of the four names
  at any time between calls. `metered` are the chains that were given the
  registry: new ones only, since `load_chain` gives a reloaded chain none
  (`chain_store.py:201`). `reporting` are those whose pruner was given it; each
  chain has one pruner. `loaded` and `latest` are history: what a chain came
  with, and the ratio of the block appended last at an index.
  `InstrumentedInvariant` says what the registry shows in the middle of a call.
- `Sigma`: commitments and proofs in a group of any size, with SHA-256 as a
  random oracle (`digests` remembers what it was asked), so that a challenge is
  a fresh choice the first time and the same one later. `made` is history.

Definitions whose names start with `Mutant` are deliberate faults used to see
that each property can fail; no specification uses them.

## 3. Runs

`MC*.tla` and `MC*.cfg` give the constants. Two processes are enough to
show each interference: at any time one is inside a write and one can hold a
stale chain; a third adds another stale chain. All cfgs check for deadlock.

| Run | Question | Bounds |
|---|---|---|
| `store` | the three inductive invariants, ids right, refinement of `Ledger` | 2 processes, 2 accounts, 2 ids, 6 batches (replays, a repeated id, a malformed transaction), 3 blocks, window 1, one clock value |
| `store_clocks` | chains valid, memory durable, headers imply state, the right rows pruned, the file only grows | as `store`, two clock values, 3 batches |
| `store_calls` | retention window, order of pruning, every call ends | 4 blocks, window 2, so that a stale chain prunes fewer rows; two batches, no symmetry |
| `manual` | what still holds with uncoordinated calls, `append_block` with any arguments included, and the inductive invariant behind it | 2 processes, 1 account, 2 batches, 2 blocks, 2 ids: a transaction's, and one that no block carries and `append_block` gets with any (`ForeignIds`); a block made by hand that has no predecessor |
| `bodies` | Merkle proofs, roots, RFC 6962; what `verify_body` says | all lists of up to 5 of 2 transactions (5 leaves: one node promoted twice), some of 7 and 9 (9: three promotions in a row); 10 kinds of damage; changes to lists of up to 2 |
| `metrics` | the inductive invariant, exports, buckets, sums, counters | 2 names, 2 label tuples, 4 bounds (2; 1 and 3 by default; Inf), values -1, 2 and NaN, 2 counted observations per series; calls that raise at each place |
| `instrumented` | chains and counters agree, recordings that raise; the inductive invariant behind it | 2 chains of up to 4 blocks, new or reloaded, each with or without the registry, as its pruner; window 1; 2 ratios; any of the 4 names taken at any time |
| `sigma` | honest proofs verify, others that `generate_proof` makes do not, encodings, hiding | 11 scalars (P = 23); messages, blindings and nonces with and without 0; challenges 0, 1 and 5; 2 commitments, 1 proof |

In `bodies` the body changes only before the first proof is out: a proof depends
on lists alone, and the product of the two would add nothing. In `sigma` one
proof is enough, since it may meet its own and another commitment; two proofs
with the same nonces for one commitment have the same challenge.

`Timestamp` is the set of values `time.time()` may return. With one value two
processes create equal geneses and equal blocks, so more of what they do gets past
the header check; with two (`store_clocks`) they may also disagree from the
genesis on. The order of the values does not matter to the code, so they are
symmetric, as the processes are. `store_calls` uses no symmetry, which is unsound
for liveness. Amounts are small integers; nothing in the modelled code depends
on their sign or size.

### What the code does not do

Four runs are expected to fail; each shows a disagreement between the code and
a sentence of the repository (quoted in `PROJECT.json`):

- `store_torn_load`: a load interleaved with a commit gives a chain whose state
  is newer than its blocks. It heals by itself: `add_block` then refuses, since
  the headers differ (`InSync` holds).
- `manual_injected`: `Chain(state=...)` followed by the store's `add_block`
  persists only the accounts the batch names; a reload loses the others.
- `manual_prune`: `prune_chain` addresses rows by index and compares no header.
  With coordinated calls only, this cannot hurt (`PruneCorresponds` passes in
  `store_clocks`); after `Chain.add_block` in memory it marks foreign rows.
- `manual_sync`: the demo syncs early blocks with final balances; until the last
  block is synced, or after a crash in between, the file has balances without their transactions.

Three more are small enough to be stated exactly by properties that hold:

- `DamageIsReported`: `verify_body` "never raises on bad data" (`block.py:128`),
  but a body that decodes to a number or a Boolean makes it raise, and so
  `validate_chain`; `{}` or `""` passes for the body of a block without
  transactions;
- `IntactBodiesVerify`: the body is "always guaranteed to reproduce
  `merkle_root`" (`block.py:54-57`) only if keys that are not strings sort as
  their strings do; otherwise an intact block fails after a reload;
- `InfCountsAllUnlessNaN`: "+Inf always equals the total"
  (`tests/test_metrics.py:67`) fails after an observation of NaN, when the sum is
  NaN, and after one that raised at `metrics.py:125`, which +Inf has counted and
  the total has not.

### Fairness

Only `CallsEnd` needs it. `Fairness` is weak fairness of `Continue(p)` for each
process: a process that is not killed keeps running its call, and sqlite3
answers a wait for the lock, with the lock or with an error after its timeout
(5 seconds by default, `chain_store.py:44`). Nothing is assumed about starting
calls, failures or crashes, and no strong fairness: a process may lose the lock
every time, and its call still ends with an error.

## 4. Proofs

Every property of a passing run but `CallsEnd` is also a theorem. The theorems
hold for every value of the constants that meets the assumptions of the modules
that declare them (TLC evaluates those in every run), and TLC checks each
inductive invariant on a run. Theorems are about the specifications as they
are, with the bounds named in their guards, for every value of the bounds.

| Module | Proves | For every |
|---|---|---|
| `Induction` | lemmas: induction, sums over finite sets | |
| `ChainStoreProofs` | `IInv`, and six properties from it | set of processes, accounts, ids, transactions, batches, clock values; bound; window |
| `ChainStoreHistoryProofs` | `HistoryInv`, `EffectInv`, ids, windows, pruned rows, the refinement of `Ledger` | the same |
| `ManualStoreProofs` | `ManualInv`, and what holds under uncoordinated calls | the same, injected states and blocks, foreign ids |
| `MerkleProofs` | proofs verify, are true, roots bind, RFC 6962 | set of data, list of any length |
| `BlockBodyProofs` | a body refines the tree's publisher; `verify_body` | set of transactions, any damage |
| `MetricsProofs` | the registry; the chains that record into it | names, labels, bounds, values; number of chains |
| `SigmaProofs` | what `sigma` checks | group of prime order (P - 1)/2 modulo a prime P, digests |

### Induction

The library's induction theorems take a predicate as a parameter, which the
provers cannot instantiate. A property to be proved by induction is therefore
written as a *set*, `{n \in Nat : ...}`: `NumbersInduction` says that a set with 0
that is closed under successors is all of `Nat`, `SubsetsInduction` the same of
the subsets of a finite set. Both follow from `LeastElement`, an instance of
well-founded induction on `<`.

A function defined by recursion on its domain is `CHOOSE f : f = [... f ...]`:
first such an `f` is shown to exist, by induction (`HeightsExist`,
`FoldedExists`, `PowersExist`, `PartsExist`, `SumsExist`), then it is used
through its equation alone (`HeightsFacts`, `PowUnfolds`). For sums over a
finite set, which the community modules define by taking out some element,
`SumRemove` shows that any may be taken out first; it carries all arithmetic of
balances and counters.

### The store

`Invariance` shows that `IInv` is inductive (`InitIInv`, `NextIInv`), with one
lemma per action; `TypeCorrect`, `ChainsAlwaysValid`, `MemoryAlwaysDurable`,
`HeadersImplyState`, `FileAlwaysPrunedFirst` and `FileOnlyGrows` follow.
Assumed: `None` is none of the values, batches are sequences of transactions,
at least two blocks fit the bound, the window is positive.

Why the invariant is what it is. The hard step is `InsertBlock`: the header
check of `EnsureMatch` is stale by then. The properties alone do not exclude
that another process appended in between. `IInv` records that a chain in memory
is a header prefix of the file or an unpersisted genesis (`MemoryInv`), that
the staged state comes from memory (`StagedInv`), and that the prospective
block extends the chain (`BlockInv`). If another process appended, the file
has a row with the new block's index and the primary key refuses it; if the
file has no such row, the chain is the whole file (`NoConflictMeansInSync`), so
`SyncInv` gives that memory's balances and ids are the file's. The unique key
is what makes the unlocked SELECT harmless: the mutant that drops it breaks the
invariant itself, `DurableAppendOnly` and `PruneCorresponds`. `AddInv` and
`PruneInv` say what the open transaction has written so far, for the rollbacks
and the commit.

`HistoryInvariance`: `HistoryInv` is inductive relative to `IInv`. From both
follow `IdsAlwaysMatch`, `WindowAlwaysKept` and `PruningCorresponds`.

- The ids of the file are those of the rows at every commit, but not inside a
  transaction: between `InsertBlock` and `InsertTxIds` the block is there and
  its ids are not. `OpenIdsInv` says that without that row they match.
- A dropped body has `MaxFullBlocks` blocks after it, in the file (`RowsInv`).
  The file never shrinks, so this survives appends; a prune preserves it
  although it goes by a chain in memory that may be stale, since a chain with
  something to prune is a header prefix of the file, and the file has at least
  as many blocks.
- For the same reason the row that `prune_chain` addresses by index is that of
  the block it means; this needs only `IInv`.

`Implementation`: the store implements `Ledger`. Its log, balances and ids are
read off the committed file, so only the two COMMITs are not plainly stutters.
`CommitPrune` changes no header, hence no batch. `CommitAdd` writes what was
*staged* from memory many steps earlier, while the ledger credits the *file's*
balances with a sum over the batch. `EffectInv` bridges the code's loop and that
sum: at every turn the staged balances are those of memory with the new ids
among the first `next - 1` transactions credited once; a turn adds one
index to the set or finds the id already there. `CommittedFrom` bridges memory
and file: the file the block is committed to is the one it was prepared from.

### The uncoordinated calls

`ManualInvariance` proves `ManualInv`; `RowsAlwaysBlocks`,
`ManualFileOnlyGrows` and `AddsExtend` follow, for `ManualStore`'s largest
specification, in which `append_block` gets any block, ids and balances. `IInv`
is of no use here: rows of several chains meet in one file, so memory is no
prefix of it, and the file's ids and balances may be anybody's. What survives is
local: each row is a block that verifies under the index it stands at, each id
has a row (the foreign key), an open transaction extends the committed tables.
One thing is not local, `OnTop`: from the INSERT of the block to the COMMIT,
`add_block`'s chain in memory is a header prefix of the file. It holds at the
INSERT although the check was made without the lock, because nothing a process
can do removes or changes a header. Assumed: blocks that callers make are
consistent (`Block(...)` computes the hash; `from_persisted` would not).

That the row of an id *carries* it cannot hold for every id: `append_block`
checks none, and `append_block(block, ["ghost"], {})` records one that no block
has. `IdsAlwaysRefer` says how far this reaches. Ids in `ForeignIds`, those that
callers pass with blocks that do not carry them, have a row and nothing more;
every other id is carried by its row, whatever is called with the foreign ones.
`ForeignIds` is any set of ids: with all of `TxId` only the foreign key is left,
and with the empty set, which is how the code itself calls `append_block`
(`main.py:47`), every id is carried by its row.

### Merkle trees and bodies

- `RootBinding`: lists with equal roots have trees of the same height, since a
  leaf is no pair and heights are read off the leftmost path (`EqualHeights`);
  from the top down, each level of one is that of the other (`LevelsEqual`).
  The promoted node is what can go wrong, since a level may end in a node of a
  lower height: `NotPromoted` shows that such a node is no pair over an ordinary
  node of the other tree.
- `ProofsVerification`: by induction over the height, the steps gathered so far
  lead from the leaf to its node at that height (`ClimbVerifies`).
- `AcceptedProofs`: downwards from the root, a proof that verifies passes
  through a node at every height (`MeetsBelow`) and so is the proof of the leaf
  it ends at. It may have been made for another list.
- `RootsAreTreeHashes`: the code pairs from the left, RFC 6962 splits at the
  largest power of two below n. `LevelCovers` shows that node i at height h is the
  RFC's hash of the leaves it covers.
- `BlocksPublishTrees`: every step of a block and its body is one of the
  publisher of `MerkleTree`, so all of the above holds of blocks. `VerifiedBodies`,
  `ReportedDamage` and `IntactBodies` use `RootBinding`'s lemma and, for each kind of damage,
  the early return of `verify_body` it meets. Assumed: canonical texts are
  strings, and none of them is damaged data of another kind.

### The registry and what chains record

`RegistryInvariance` has one lemma per call; `SameExports`,
`CumulativeBuckets`, `InfIsTotal`, `CountersRise` and `FamiliesFixed` follow.
Assumed: bounds and values are integers below `Inf`, `NaN` is none of them.
`BucketsCumulative` alone is not inductive: the first observation of a new
series of a known name counts in buckets that another series chose, so
`BucketsInv` says of the name, and not of the series, that `Inf` is among them;
`SeriesInv` adds that a series that does not exist has no sum and no total and
was never counted, which is what makes the first observation after a call that
raised count from nothing. What was counted is the total and what raised at line
125 (`Times`): the counts never exceed it, and `Inf` equals it while no NaN came. That
the exports agree rests on `KindInv`: the text export finds a series through
the kind of its name only.

`BlocksMoveWithState`: only the first step of a call appends, and until then the
chain concerned, and no other, is one batch ahead of its blocks.

`RecordsInvariance` proves `RecordsInv`, from which `ExactCounters` and
`RatiosAreOfBlocks` follow. The properties speak of the time between
calls, and of the chains and pruners that have the registry; the invariant must
say what is true inside one. `PlaceInv` lists the
places a call can be at, `CountersInv` says that a counter is what those
together did *minus what the call still owes* (`OwedBlocks`, `OwedBodies`,
`OwedEvents`), and `RatiosInv` the same of the ratios: the one at an index is
that of the block appended there last (`latest`), whichever chain it is of,
unless the call that appended it still owes it. A call that raises drops what
it owes, which is sound because the counter concerned can then never come into
being: the name is a gauge for ever, or the recording before it fails every
time. That is why `CountsUpTo` names two names. Assumed: `Chain` is finite,
and the four names, and the labels of different indices, differ
(`DistinctNames`), as the string literals of the code do.

### Proofs of knowledge

`SigmaProofs` builds the arithmetic it needs: residues, powers by recursion
(`PowAdds`, `PowTimes`, `PowDistributes`), exponents modulo Q, inverses
(`InverseExists`: Q is prime).

- `HonestProofs`: the response equation, in the exponent. Edge values (a
  commitment or `t` equal to 1) are members like any other.
- `AcceptedProofsKnowOpenings`: of what `generate_proof` makes (this is no
  statement about forgers, who are not modelled), a proof made from numbers that do not open the
  commitment it is checked against satisfies the equation only for challenges
  that `AcceptedProofsKnow` names: in a group of prime order, different members
  have different powers unless the exponent is a multiple of Q (`PowersDiffer`).
- `HiddenOpenings`: every message has a blinding, and every secret a nonce, that
  give the same commitment and the same proof. It needs that powers of H reach
  every member of the group (`HGenerates`): the Q powers of H differ
  (`PowersOfHDiffer`), and so do their negatives, of which none is a member
  (`NegativesAreNoMembers`), so that together they are all of 1 .. P - 1.

Assumed: P and Q = (P - 1)/2 are prime, which is known of the group in the code
(`groups.py`), and the checks it makes when it is imported.

### Model-checked only

- `CallsEnd`: liveness under fairness is beyond this prover;
- the four disagreements of section 3, which are counterexamples.

## 5. Not modelled

- the text of the exports, help texts, the size of compressed bodies, and the
  benchmarks, which measure;
- what `main.py` prints; how it persists a chain is `SyncBlock` of `ManualStore`. Its Merkle demonstration uses leaves of its own
  (`main.py:67-76`), not those of the block, so it says nothing of the block's root;
- the latency histograms of `generate_proof` and `verify_proof`: like `add_block`,
  they raise after the work is done if the name is taken;
- a prover who does not use `generate_proof`: that no such prover convinces
  `verify_proof` is a statement about computations, like the next;
- computational assumptions: that discrete logarithms are hard (binding), and
  that SHA-256 has no collisions (digests are ideal);
- two threads in one process: `sqlite3` refuses a connection from another
  thread, and nothing in the library starts one;
- corrupted headers: SQLite and the file system are trusted, except for bodies
  in `BlockBody`; a list of something other than dictionaries in a damaged body;
- rounding in the REAL column of balances;
- bounds that a value compares with in part only (a mix of numbers and other
  types that sorts all the same), and several pruners for one chain;
- blocks given to `append_block` that `from_persisted` made with a wrong hash.

## 6. Plan

1. Done: the store with its sequential parts, the ledger, the uncoordinated
   calls; Merkle trees and bodies; the registry and its chains; `Sigma`.
2. Done: every safety and action property of the passing runs, and the
   refinement of the ledger, as theorems.
3. Left: the promises of the restricted specifications of `ManualStore` (a
   caller that keeps the two sides together by hand) stated and proved; the
   facts about community operators in `Induction` that other proofs may want.
