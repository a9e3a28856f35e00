----------------------- MODULE InstrumentedInvariant -----------------------
(* The inductive invariant behind the counters and the ratios of              *)
(* InstrumentedChain: what a call still has to record, and that the registry  *)
(* is exact but for that.                                                     *)
EXTENDS InstrumentedChain

\* What is done and not recorded yet: a block, an event, bodies.
OwedBlocks(steps) ==
    IF Len(steps) = 2 /\ Head(steps) = Increment(BlocksAdded, 1) THEN 1 ELSE 0

OwedEvents(steps) ==
    IF Len(steps) = 2 /\ Head(steps) = Increment(PruningEvents, 1) THEN 1 ELSE 0

OwedBodies(steps) ==
    IF steps # <<>> /\ steps[Len(steps)].op = "counter" THEN steps[Len(steps)].value ELSE 0

\* Only the bodies of a pruning are left to record.
Announced(steps) == Len(steps) = 1 /\ Head(steps).op = "counter"

\* How far add_block has come, ...
Adding(index) ==
    /\ \E ratio \in Number : todo = AfterState(current, index, ratio)
    /\ Len(pruned[current]) = index

AtIndex(index) ==
    /\ current \in metered /\ latest[index] \in Number
    /\ Len(pruned[current]) = index + 1 /\ Len(loaded[current]) <= index

Added(index) ==
    /\ todo = <<Increment(BlocksAdded, 1), SetRatio(index, latest[index])>>
    /\ AtIndex(index)

Counted(index) == todo = <<SetRatio(index, latest[index])>> /\ AtIndex(index)

\* ... and prune.
Recording(n) ==
    \/ todo = <<Increment(PruningEvents, 1), Increment(BlocksPruned, n)>>
    \/ todo = <<Increment(BlocksPruned, n)>>

\* A call in progress is at one of these places.
PlaceInv ==
    \/ todo = <<>>
    \/ /\ current \in Chain
       /\ \E index \in 0 .. MaxBlocks - 1 : Adding(index) \/ Added(index) \/ Counted(index)
    \/ OwedBodies(todo) \in Nat \ {0} /\ Recording(OwedBodies(todo))

-----------------------------------------------------------------------------
RegistryInv ==
    /\ kinds \in [Name -> Kinds \cup {None}]
    /\ counters \in [Series -> Int \cup {NaN, None}]
    /\ gauges \in [Series -> Int \cup {NaN, None}]
    /\ \A s \in Series :
          /\ counters[s] # None => kinds[s[1]] = "counter"
          /\ gauges[s] # None => kinds[s[1]] = "gauge"
    /\ \A n \in Used : kinds[n] # "histogram"

ChainsInv ==
    /\ pruned \in [Chain -> Seq(BOOLEAN)]
    /\ loaded \in [Chain -> Seq(BOOLEAN)]
    /\ metered \subseteq Chain /\ reporting \subseteq Chain
    /\ \A c \in Chain :
          /\ Len(loaded[c]) <= Len(pruned[c])
          /\ \A i \in DOMAIN loaded[c] : loaded[c][i] => pruned[c][i]

\* A counter that is missing though it should not be will never be there.
CountsUpTo(name, value, firstName) ==
    LET counter == counters[<<name, Plain>>]
    IN  IF counter = None
        THEN value = 0 \/ "gauge" \in {kinds[name], kinds[firstName]}
        ELSE counter = value

\* Bodies are only counted after the event was.
CountersInv ==
    /\ CountsUpTo(BlocksAdded, TotalAppended - OwedBlocks(todo), BlocksAdded)
    /\ CountsUpTo(BlocksPruned, TotalDropped - OwedBodies(todo), PruningEvents)
    /\ counters[<<PruningEvents, Plain>>] \in Int \cup {None}
    /\ Get(counters[<<PruningEvents, Plain>>], 0) <= TotalDropped - OwedEvents(todo)
    /\ counters[<<BlocksPruned, Plain>>] # None \/ Announced(todo)
          => kinds[PruningEvents] = "counter"

HasRatio(index) == Ratio(index) # None

RatiosInv ==
    /\ latest \in [DOMAIN IndexOf -> Number \cup {None}]
    /\ \A index \in DOMAIN IndexOf :
          /\ HasRatio(index) => kinds[BlocksAdded] = "counter" /\ AppendedAt(index)
          /\ AppendedAt(index) =>
                \/ HasRatio(index) \/ Added(index) \/ Counted(index)
                \/ kinds[BlocksAdded] = "gauge" \/ kinds[CompressionRatio] = "counter"
          /\ HasRatio(index) =>
                Ratio(index) = latest[index] \/ Added(index) \/ Counted(index)
    /\ \A index \in 0 .. MaxBlocks - 1 : Counted(index) => kinds[BlocksAdded] = "counter"

\* The registry is exact for the chains and the pruners that have it, but for
\* what the call in progress still has to record and for names that are taken
\* (chain.py:63-81, blockchain_pruner.py:37-67).
RecordsInv == RegistryInv /\ ChainsInv /\ PlaceInv /\ CountersInv /\ RatiosInv
=============================================================================
