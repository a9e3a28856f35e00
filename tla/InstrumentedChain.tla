------------------------- MODULE InstrumentedChain -------------------------
(* Chains and their pruners, those that were given one MetricsRegistry and    *)
(* those that were given none, with other code that records into the registry *)
(* as well (chain/chain.py, pruning/blockchain_pruner.py,                     *)
(* observability/metrics.py).  A recording raises if its name has another     *)
(* kind; the call then ends in the middle of what it had to do.  Of a block   *)
(* the model keeps whether its body was pruned; block i is at i + 1.  Each    *)
(* chain has one pruner.                                                      *)
EXTENDS Metrics, Sequences, Functions

CONSTANTS Chain,           \* the chains of the program
          BlocksAdded, CompressionRatio, PruningEvents, BlocksPruned,
                           \* the names they use
          Plain, IndexOf,  \* no labels; labels {"block_index": i}
          Starts,          \* block lists at the start: a genesis, or reloaded
          MaxFullBlocks,   \* the retention window
          MaxBlocks        \* bound on the length of a chain

Used == {BlocksAdded, CompressionRatio, PruningEvents, BlocksPruned}

ASSUME InstrumentedAssumption ==
    /\ IsFiniteSet(Chain)
    /\ Used \subseteq Name
    /\ IndexOf \in [0 .. MaxBlocks -> Label]
    /\ Plain \in Label \ {IndexOf[i] : i \in DOMAIN IndexOf}
    /\ Starts \subseteq Seq(BOOLEAN) \ {<<>>}
    /\ MaxBlocks \in Nat /\ MaxFullBlocks \in Nat \ {0}

\* The four names, and the labels of different indices, are different strings.
ASSUME DistinctNames ==
    /\ BlocksAdded \notin {CompressionRatio, PruningEvents, BlocksPruned}
    /\ PruningEvents # BlocksPruned /\ CompressionRatio \notin {PruningEvents, BlocksPruned}
    /\ \A i, j \in DOMAIN IndexOf : IndexOf[i] = IndexOf[j] => i = j

VARIABLES pruned,     \* is_pruned of the blocks of each chain
          applied,    \* batches each chain's state has applied since the start
          loaded,     \* pruned, as it was at the start
          metered,    \* the chains whose _metrics is the registry
          reporting,  \* the chains whose pruner's _metrics is the registry
          current,    \* the chain a call is working on
          todo,       \* what the call has still to do
          latest      \* history: the ratio of the block that a metered chain
                      \* appended last at each index

registry == vars
given == <<loaded, metered, reporting>>
chains == <<pruned, applied, given, current, todo, latest>>

-----------------------------------------------------------------------------
Increment(name, value) == [op |-> "counter", series |-> <<name, Plain>>, value |-> value]

SetRatio(index, ratio) ==
    [op |-> "gauge", series |-> <<CompressionRatio, IndexOf[index]>>, value |-> ratio]

Append_(ratio) == [op |-> "append", ratio |-> ratio]

MutantAfterState(c, index, ratio) ==
    <<Increment(BlocksAdded, 1), Append_(ratio), SetRatio(index, ratio)>>

\* _commit_prepared_block once it has replaced the state.
AfterState(c, index, ratio) ==
    IF c \in metered
    THEN <<Append_(ratio), Increment(BlocksAdded, 1), SetRatio(index, ratio)>>
    ELSE <<Append_(ratio)>>

Cutoff(c) == IF Len(pruned[c]) > MaxFullBlocks THEN Len(pruned[c]) - MaxFullBlocks ELSE 0

MutantNewlyPruned(c) == 1 .. Cutoff(c)

NewlyPruned(c) == {i \in 1 .. Cutoff(c) : ~pruned[c][i]}

Genesis == <<FALSE>>

\* Chain(metrics=...) and Chain() start from a genesis; load_chain gives a chain
\* no registry.
InstrumentedInit ==
    /\ Init
    /\ loaded \in [Chain -> Starts]
    /\ metered \in SUBSET {c \in Chain : loaded[c] = Genesis}
    /\ reporting \in SUBSET Chain
    /\ pruned = loaded
    /\ applied = [c \in Chain |-> 0]
    /\ current = None
    /\ todo = <<>>
    /\ latest = [i \in DOMAIN IndexOf |-> None]

AddBlock(c) ==
    /\ todo = <<>>
    /\ Len(pruned[c]) < MaxBlocks                                         \* bound
    /\ applied' = [applied EXCEPT ![c] = @ + 1]
    /\ current' = c
    /\ \E ratio \in Number : todo' = AfterState(c, Len(pruned[c]), ratio)
    /\ UNCHANGED <<pruned, given, latest, registry>>

PruneBlocks(c) ==
    /\ todo = <<>>
    /\ pruned' = [pruned EXCEPT ![c] = [i \in DOMAIN @ |-> @[i] \/ i \in NewlyPruned(c)]]
    /\ current' = c
    /\ todo' = IF NewlyPruned(c) = {} \/ c \notin reporting THEN <<>>
               ELSE <<Increment(PruningEvents, 1),
                      Increment(BlocksPruned, Cardinality(NewlyPruned(c)))>>
    /\ UNCHANGED <<applied, given, latest, registry>>

AppendBlock ==
    /\ todo # <<>> /\ Head(todo).op = "append"
    /\ pruned' = [pruned EXCEPT ![current] = Append(@, FALSE)]
    /\ latest' = IF current \in metered
                 THEN [latest EXCEPT ![Len(pruned[current])] = Head(todo).ratio]
                 ELSE latest
    /\ todo' = Tail(todo)
    /\ UNCHANGED <<applied, given, current, registry>>

Record ==
    /\ todo # <<>>
    /\ \/ Head(todo).op = "counter" /\ IncrementCounter(Head(todo).series, Head(todo).value)
       \/ Head(todo).op = "gauge" /\ SetGauge(Head(todo).series, Head(todo).value)
    /\ todo' = Tail(todo)
    /\ UNCHANGED <<pruned, applied, given, current, latest>>

\* _register raises ValueError, and so does add_block or prune.
RecordRaises ==
    /\ todo # <<>> /\ Head(todo).op # "append"
    /\ kinds[Head(todo).series[1]] \notin {None, Head(todo).op}
    /\ todo' = <<>>
    /\ UNCHANGED <<pruned, applied, given, current, latest, registry>>

\* Other code takes one of the names for a metric of another kind.
TakeName(name) ==
    /\ todo = <<>>
    /\ kinds[name] = None            \* bound: only its first use matters here
    /\ IF name = CompressionRatio THEN IncrementCounter(<<name, Plain>>, 1)
                                  ELSE SetGauge(<<name, Plain>>, 1)
    /\ UNCHANGED chains

InstrumentedNext ==
    \/ \E c \in Chain : AddBlock(c) \/ PruneBlocks(c)
    \/ AppendBlock \/ Record \/ RecordRaises
    \/ \E name \in Used : TakeName(name)

InstrumentedSpec == InstrumentedInit /\ [][InstrumentedNext]_<<registry, chains>>

-----------------------------------------------------------------------------
Appended(c) == Len(pruned[c]) - Len(loaded[c])

\* Blocks and state move together: whenever a recording may raise, and after it
\* did, each chain has one block per batch its state has applied.  A call that
\* raises there has taken effect, so that repeating it adds the batch again
\* (chain.py:3-5, 63-81).
StateMovesWithBlocks ==
    todo = <<>> \/ Head(todo).op # "append" => \A c \in Chain : applied[c] = Appended(c)

Dropped(c) ==
    Cardinality({i \in DOMAIN pruned[c] :
                    pruned[c][i] /\ ~(i \in DOMAIN loaded[c] /\ loaded[c][i])})

\* What the chains, and the pruners, that have the registry did together.
TotalAppended == SumFunctionOnSet([c \in Chain |-> Appended(c)], metered)
TotalDropped == SumFunctionOnSet([c \in Chain |-> Dropped(c)], reporting)

\* The counter of a name is exactly what the chains or the pruners that were
\* given the registry did together since they were created, or is missing for
\* ever: because somebody else has its name, or the name that the same call
\* records before it.  Blocks that were pruned before count once, and nothing
\* that a reloaded chain appends is counted (chain.py:69-72;
\* blockchain_pruner.py:47-66; chain_store.py:201).
Exact(name, value, firstName) ==
    LET counter == counters[<<name, Plain>>]
    IN  IF counter = None
        THEN value > 0 => "gauge" \in {kinds[name], kinds[firstName]}
        ELSE counter = value

CountersAreExact ==
    todo = <<>> =>
        /\ Exact(BlocksAdded, TotalAppended, BlocksAdded)
        /\ Exact(BlocksPruned, TotalDropped, PruningEvents)
        /\ Get(counters[<<PruningEvents, Plain>>], 0) <= TotalDropped

\* Some chain with the registry has appended a block at this index.
AppendedAt(index) == \E c \in metered : Len(loaded[c]) <= index /\ index < Len(pruned[c])

Ratio(index) == gauges[<<CompressionRatio, IndexOf[index]>>]

\* There is a compression ratio for each index at which some chain with the
\* registry has appended a block, and for no other index, unless a name is
\* taken.  Chains share the series of an index: it shows the block that was
\* appended there last, by whichever of them (chain.py:73-81).
RatiosNameBlocks ==
    todo = <<>> =>
        \A i \in DOMAIN IndexOf :
            /\ Ratio(i) # None <=> /\ kinds[BlocksAdded] = "counter"
                                  /\ kinds[CompressionRatio] = "gauge"
                                  /\ AppendedAt(i)
            /\ Ratio(i) # None => Ratio(i) = latest[i]
=============================================================================
