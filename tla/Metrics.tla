------------------------------ MODULE Metrics ------------------------------
(* MetricsRegistry (observability/metrics.py).  A dictionary is a function    *)
(* that is None where the key is absent.  A call that raises before it        *)
(* changes anything (a bad name, a name of another kind, a negative           *)
(* increment) is no step; one that raises later is a step of its own.  Bounds *)
(* are floats or integers, so that a value compares with all of them or with  *)
(* none.  Help texts are left out.                                            *)
EXTENDS Integers, FiniteSets

CONSTANTS Name, Label,   \* metric names; canonical label tuples
          Bound,         \* bucket bounds that callers choose
          Default,       \* DEFAULT_HISTOGRAM_BUCKETS
          Inf,           \* float("inf"), the largest bound
          Number,        \* values that callers record
          NaN, None,     \* float("nan"); an absent key
          MaxCount       \* bound on counter values and on observations

ASSUME BoundAssumption ==
    /\ Bound \cup Default \cup {Inf} \cup Number \subseteq Int
    /\ \A b \in Bound \cup Default \cup Number : b < Inf
    /\ NaN \notin Int /\ None \notin Int \cup {NaN}

ASSUME MaxCountAssumption == MaxCount \in Nat

VARIABLES kinds,     \* _kinds
          counters,  \* _counters
          gauges,    \* _gauges
          buckets,   \* _histogram_buckets
          counts,    \* _histogram_counts
          sums,      \* _histogram_sums
          totals,    \* _histogram_totals
          halfway    \* history: how many observations of a series raised
                     \* after they were counted in its buckets

vars == <<kinds, counters, gauges, buckets, counts, sums, totals, halfway>>

Series == Name \X Label
Value  == Number \cup {NaN}
Bounds == Bound \cup Default \cup {Inf}
Kinds  == {"counter", "gauge", "histogram"}

ASSUME NoneAssumption ==
    /\ \A bs \in SUBSET Bounds : None # bs
    /\ None \notin [Bounds -> Nat]
    /\ None \notin Kinds

Init ==
    /\ kinds = [n \in Name |-> None]
    /\ counters = [s \in Series |-> None]
    /\ gauges = [s \in Series |-> None]
    /\ buckets = [n \in Name |-> None]
    /\ counts = [s \in Series |-> None]
    /\ sums = [s \in Series |-> None]
    /\ totals = [s \in Series |-> None]
    /\ halfway = [s \in Series |-> 0]

\* A comparison with NaN is false.
AtMost(value, bound) == value # NaN /\ value <= bound

MutantPlus(v, w) == IF w = NaN THEN v ELSE v + w

Plus(v, w) == IF NaN \in {v, w} THEN NaN ELSE v + w

\* dict.get(key, default)
Get(value, default) == IF value = None THEN default ELSE value

MutantRegister(name, kind) == kinds' = [kinds EXCEPT ![name] = kind]

Register(name, kind) ==
    /\ kinds[name] \in {None, kind}
    /\ kinds' = [kinds EXCEPT ![name] = kind]

-----------------------------------------------------------------------------
MutantRejected(value) == FALSE

Rejected(value) == value # NaN /\ value < 0

IncrementCounter(s, value) ==
    /\ ~Rejected(value)
    /\ Register(s[1], "counter")
    /\ counters' = [counters EXCEPT ![s] = Plus(Get(@, 0), value)]
    /\ counters'[s] = NaN \/ AtMost(counters'[s], MaxCount)              \* bound
    /\ UNCHANGED <<gauges, buckets, counts, sums, totals, halfway>>

MutantSetGauge(s, value) ==
    /\ Register(s[1], "gauge")
    /\ gauges' = [gauges EXCEPT ![s] = IF @ = None THEN value ELSE @]
    /\ UNCHANGED <<counters, buckets, counts, sums, totals, halfway>>

SetGauge(s, value) ==
    /\ Register(s[1], "gauge")
    /\ gauges' = [gauges EXCEPT ![s] = value]
    /\ UNCHANGED <<counters, buckets, counts, sums, totals, halfway>>

\* The labels are no dictionary, the value cannot be added to 0.0, or sorted()
\* cannot order the caller's bounds: the name is registered, and that is all.
RaisesOnceRegistered(name, kind) ==
    /\ Register(name, kind)
    /\ UNCHANGED <<counters, gauges, buckets, counts, sums, totals, halfway>>

-----------------------------------------------------------------------------
\* The buckets of a name are chosen by its first observation: {} stands for
\* the argument None or an empty one.
MutantChosen(name, bounds) == bounds \cup {Inf}

Chosen(name, bounds) ==
    IF buckets[name] # None THEN buckets[name]
    ELSE (IF bounds = {} THEN Default ELSE bounds) \cup {Inf}

NoCounts == [b \in Bounds |-> 0]

MutantAdd(series, value, bs) ==
    LET least == {b \in bs : AtMost(value, b) /\ \A c \in bs : c < b => ~AtMost(value, c)}
    IN  [b \in Bounds |-> IF b \in least THEN series[b] + 1 ELSE series[b]]

\* One observation counts in every bucket whose bound it does not exceed.
Add(series, value, bs) ==
    [b \in Bounds |-> IF b \in bs /\ AtMost(value, b) THEN series[b] + 1 ELSE series[b]]

\* How often a series was counted.
Times(s) == Get(totals[s], 0) + halfway[s]

\* What observe_histogram does first, whether or not it raises later.
Choose(name, bounds) ==
    /\ Register(name, "histogram")
    /\ buckets' = [buckets EXCEPT ![name] = Chosen(name, bounds)]
    /\ UNCHANGED <<counters, gauges>>

Count(s, value, bounds) ==
    /\ Times(s) < MaxCount                                               \* bound
    /\ Choose(s[1], bounds)
    /\ counts' = [counts EXCEPT ![s] = Add(Get(@, NoCounts), value, buckets'[s[1]])]

ObserveHistogram(s, value, bounds) ==
    /\ Count(s, value, bounds)
    /\ sums' = [sums EXCEPT ![s] = Plus(Get(@, 0), value)]
    /\ totals' = [totals EXCEPT ![s] = Get(@, 0) + 1]
    /\ UNCHANGED halfway

\* The labels are no dictionary: the name has its buckets, and no new series.
ObserveRaisesOnLabels(name, bounds) ==
    /\ Choose(name, bounds)
    /\ UNCHANGED <<counts, sums, totals, halfway>>

\* The value cannot be compared with the bounds: the series exists, without an
\* observation.
ObserveRaisesOnValue(s, bounds) ==
    /\ Choose(s[1], bounds)
    /\ counts' = [counts EXCEPT ![s] = Get(@, NoCounts)]
    /\ UNCHANGED <<sums, totals, halfway>>

\* The value compares with the bounds, but cannot be added to a float (an
\* integer that is too large, a Decimal): it is counted in its buckets, and in
\* neither the sum nor the total.
ObserveRaisesOnSum(s, value, bounds) ==
    /\ Count(s, value, bounds)
    /\ halfway' = [halfway EXCEPT ![s] = @ + 1]
    /\ UNCHANGED <<sums, totals>>

-----------------------------------------------------------------------------
Next ==
    \/ \E s \in Series :
          \/ \E v \in Value : IncrementCounter(s, v) \/ SetGauge(s, v)
          \/ \E bounds \in SUBSET Bound :
                \/ \E v \in Value : ObserveHistogram(s, v, bounds)
                \/ \E v \in Number : ObserveRaisesOnSum(s, v, bounds)
                \/ ObserveRaisesOnValue(s, bounds)
    \/ \E name \in Name :
          \/ \E kind \in Kinds : RaisesOnceRegistered(name, kind)
          \/ \E bounds \in SUBSET Bound : ObserveRaisesOnLabels(name, bounds)

Spec == Init /\ [][Next]_vars

-----------------------------------------------------------------------------
(* The exports, as the set of samples they show.                             *)

Sample(s, part, value) == [series |-> s, part |-> part, value |-> value]

Samples(store, part) == {Sample(s, part, store[s]) : s \in {r \in Series : store[r] # None}}

HistogramSamples(s) ==
    {Sample(s, <<"le", b>>, counts[s][b]) : b \in buckets[s[1]]}
        \cup {Sample(s, <<"sum">>, Get(sums[s], 0)), Sample(s, <<"count">>, Get(totals[s], 0))}

Observed == {s \in Series : counts[s] # None}

\* A series whose name has no buckets is a KeyError.
JsonRaises == \E s \in Observed : buckets[s[1]] = None

ToJson ==
    Samples(counters, <<"counter">>) \cup Samples(gauges, <<"gauge">>)
        \cup UNION {HistogramSamples(s) : s \in Observed}

\* Family by family, each looked up in the store of its kind.
Family(name) ==
    {m \in CASE kinds[name] = "counter"   -> Samples(counters, <<"counter">>)
             [] kinds[name] = "gauge"     -> Samples(gauges, <<"gauge">>)
             [] kinds[name] = "histogram" -> UNION {HistogramSamples(s) : s \in Observed}
             [] OTHER -> {} :
     m.series[1] = name}

\* A histogram without buckets is a KeyError.
TextRaises == \E n \in Name : kinds[n] = "histogram" /\ buckets[n] = None

ToPrometheusText == UNION {Family(n) : n \in Name}

-----------------------------------------------------------------------------
\* The two exports show the same samples whenever the text export does not
\* raise, although one walks the stores and the other the registered names; the
\* JSON export never raises, even after observations that did
\* (metrics.py:128-186).
ExportsAgree == ~JsonRaises /\ (~TextRaises => ToPrometheusText = ToJson)

\* The buckets of a series are cumulative: a larger bound counts at least the
\* observations of a smaller one, none counts more than the total and the
\* observations that raised after they were counted, and bounds that are not
\* buckets count nothing (metrics.py:111-126).
BucketsCumulative ==
    \A s \in Observed :
        /\ \A b, c \in buckets[s[1]] : b <= c => counts[s][b] <= counts[s][c]
        /\ \A b \in Bounds : counts[s][b] <= Times(s)
        /\ \A b \in Bounds \ buckets[s[1]] : counts[s][b] = 0

\* The buckets of a name and its kind are those of its first sample for ever
\* (metrics.py:72-75, 111-118).
FamiliesNeverChange ==
    [][\A n \in Name :
          /\ kinds[n] # None => kinds'[n] = kinds[n]
          /\ buckets[n] # None => buckets'[n] = buckets[n]]_vars

\* A counter never falls, unless it becomes NaN for ever (metrics.py:89-93).
CountersNeverFall ==
    [][\A s \in Series :
          /\ counters[s] \in Int => counters'[s] = NaN \/ counters[s] <= counters'[s]
          /\ counters[s] = NaN => counters'[s] = NaN]_vars

\* "+Inf always equals the total" (tests/test_metrics.py:67) while the sum is a
\* number and no observation of the series raised at metrics.py:125: each that
\* did is in +Inf for ever and not in the total.  An observation of NaN is in
\* the total and in no bucket, and the sum shows NaN from then on
\* (metrics.py:122-126).
InfCountsAllUnlessNaN ==
    \A s \in Observed : sums[s] # NaN => counts[s][Inf] = Times(s)

-----------------------------------------------------------------------------
(* The inductive invariant.                                                  *)

TypeInv ==
    /\ kinds \in [Name -> Kinds \cup {None}]
    /\ counters \in [Series -> Int \cup {NaN, None}]
    /\ gauges \in [Series -> Value \cup {None}]
    /\ buckets \in [Name -> (SUBSET Bounds) \cup {None}]
    /\ counts \in [Series -> [Bounds -> Nat] \cup {None}]
    /\ sums \in [Series -> Int \cup {NaN, None}]
    /\ totals \in [Series -> Nat \cup {None}]
    /\ halfway \in [Series -> Nat]

\* Each store holds series of names of its kind only.
KindInv ==
    \A s \in Series :
        /\ counters[s] # None => kinds[s[1]] = "counter"
        /\ gauges[s] # None => kinds[s[1]] = "gauge"
        /\ counts[s] # None => kinds[s[1]] = "histogram"

\* Inf is a bucket of every name that has buckets.
BucketsInv == \A n \in Name : buckets[n] # None => Inf \in buckets[n]

\* What is known of series s: its name has buckets, and its counts fit them; a
\* series that was never observed has no sum and no total.
SeriesInv(s) ==
    IF counts[s] = None THEN sums[s] = None /\ totals[s] = None /\ halfway[s] = 0
    ELSE /\ buckets[s[1]] # None
         /\ \A b, c \in buckets[s[1]] : b <= c => counts[s][b] <= counts[s][c]
         /\ \A b \in Bounds : counts[s][b] <= Times(s)
         /\ \A b \in Bounds \ buckets[s[1]] : counts[s][b] = 0
         /\ sums[s] # NaN => counts[s][Inf] = Times(s)

\* The registry's state after any calls, those that raised after they changed
\* something included: what the properties above rest on (metrics.py:61-126).
MetricsInv == TypeInv /\ KindInv /\ BucketsInv /\ \A s \in Series : SeriesInv(s)
=============================================================================
