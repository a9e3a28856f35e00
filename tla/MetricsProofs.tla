---------------------------- MODULE MetricsProofs ----------------------------
(* The invariants of the registry, for any names, labels, bounds and values;  *)
(* and what chains and pruners record into it, for any number of chains.      *)
EXTENDS InstrumentedInvariant, Induction

\* Arithmetic of recorded values.
LEMMA PlusFacts ==
  ASSUME NEW v \in Int \cup {NaN}, NEW w \in Value
  PROVE  /\ Plus(v, w) \in Int \cup {NaN}
         /\ w = NaN => Plus(v, w) = NaN
         /\ v = NaN => Plus(v, w) = NaN
         /\ v \in Int /\ w \in Int => Plus(v, w) = v + w
BY BoundAssumption DEF Plus, Value

\* Every bound is an integer, and every value but NaN is at most Inf.
LEMMA BoundFacts ==
  /\ Bounds \subseteq Int /\ Inf \in Bounds /\ Inf \in Int
  /\ \A v \in Value : v # NaN => v \in Int /\ AtMost(v, Inf)
  /\ \A v \in Value, b, c \in Bounds : b <= c /\ AtMost(v, b) => AtMost(v, c)
  /\ NaN # None /\ NaN \notin Int /\ None \notin Int
<1>1. Bounds \subseteq Int /\ Inf \in Bounds /\ Inf \in Int
  BY BoundAssumption DEF Bounds
<1>2. \A v \in Value : v # NaN => v \in Int /\ AtMost(v, Inf)
  BY BoundAssumption, <1>1 DEF Value, AtMost
<1>3. ASSUME NEW v \in Value, NEW b \in Bounds, NEW c \in Bounds, b <= c, AtMost(v, b)
      PROVE  AtMost(v, c)
  BY <1>1, <1>2, <1>3 DEF AtMost
<1>4. QED
  BY <1>1, <1>2, <1>3, BoundAssumption

\* One observation added to cumulative counts leaves them cumulative.
LEMMA AddFacts ==
  ASSUME NEW series \in [Bounds -> Nat], NEW v \in Value, NEW bs \in SUBSET Bounds,
         NEW n \in Nat,
         \A b, c \in bs : b <= c => series[b] <= series[c],
         \A b \in Bounds : series[b] <= n,
         \A b \in Bounds \ bs : series[b] = 0
  PROVE  /\ Add(series, v, bs) \in [Bounds -> Nat]
         /\ \A b, c \in bs : b <= c => Add(series, v, bs)[b] <= Add(series, v, bs)[c]
         /\ \A b \in Bounds : Add(series, v, bs)[b] <= n + 1
         /\ \A b \in Bounds \ bs : Add(series, v, bs)[b] = 0
         /\ v # NaN /\ Inf \in bs => Add(series, v, bs)[Inf] = series[Inf] + 1
<1>1. \A b \in Bounds : Add(series, v, bs)[b] =
          IF b \in bs /\ AtMost(v, b) THEN series[b] + 1 ELSE series[b]
  BY DEF Add
<1>2. Add(series, v, bs) \in [Bounds -> Nat]
  BY DEF Add
<1>3. ASSUME NEW b \in bs, NEW c \in bs, b <= c
      PROVE  Add(series, v, bs)[b] <= Add(series, v, bs)[c]
  <2>1. series[b] <= series[c] /\ series[b] \in Nat /\ series[c] \in Nat
    BY <1>3
  <2>2. AtMost(v, b) => AtMost(v, c)
    BY <1>3, BoundFacts
  <2>3. QED
    BY <2>1, <2>2, <1>1
<1>4. ASSUME NEW b \in Bounds
      PROVE  Add(series, v, bs)[b] <= n + 1
  <2>1. series[b] \in Nat /\ series[b] <= n
    OBVIOUS
  <2>2. QED
    BY <2>1, <1>1
<1>5. \A b \in Bounds \ bs : Add(series, v, bs)[b] = 0
  BY <1>1
<1>6. v # NaN /\ Inf \in bs => Add(series, v, bs)[Inf] = series[Inf] + 1
  BY <1>1, BoundFacts
<1>7. QED
  BY <1>2, <1>3, <1>4, <1>5, <1>6

-----------------------------------------------------------------------------
\* A new registry has no series.
LEMMA InitMetricsInv == Init => MetricsInv
<1>1. ASSUME Init PROVE TypeInv
  BY <1>1 DEF Init, TypeInv
<1>2. ASSUME Init PROVE KindInv
  BY <1>2 DEF Init, KindInv
<1>3. ASSUME Init, NEW s \in Series PROVE SeriesInv(s)
  BY <1>3 DEF Init, SeriesInv
<1>4. ASSUME Init PROVE BucketsInv
  BY <1>4 DEF Init, BucketsInv
<1>5. QED
  BY <1>1, <1>2, <1>3, <1>4 DEF MetricsInv

\* What Register tells of the kinds.
LEMMA RegisterFacts ==
  ASSUME TypeInv, NEW name \in Name, NEW kind \in Kinds, Register(name, kind)
  PROVE  /\ kinds' \in [Name -> Kinds \cup {None}]
         /\ kinds'[name] = kind
         /\ \A n \in Name : kinds[n] # None => kinds'[n] = kinds[n]
BY DEF TypeInv, Register

\* A call that changes no histogram keeps what is known of each series.
LEMMA UntouchedSeries ==
  ASSUME NEW s \in Series, SeriesInv(s),
         counts'[s] = counts[s], sums'[s] = sums[s], totals'[s] = totals[s],
         halfway'[s] = halfway[s],
         buckets[s[1]] # None => buckets'[s[1]] = buckets[s[1]]
  PROVE  SeriesInv(s)'
BY DEF SeriesInv, Times

\* A series is a name and its labels.
LEMMA NameOfSeries == \A s \in Series : s[1] \in Name
BY DEF Series

-----------------------------------------------------------------------------
\* An increment changes one counter.
LEMMA IncrementCounterKeeps ==
  ASSUME MetricsInv, NEW s \in Series, NEW v \in Value, IncrementCounter(s, v)
  PROVE  MetricsInv'
<1>1. UNCHANGED <<gauges, buckets, counts, sums, totals, halfway>> /\ Register(s[1], "counter")
      /\ counters' = [counters EXCEPT ![s] = Plus(Get(counters[s], 0), v)]
  BY DEF IncrementCounter
<1>2. kinds' \in [Name -> Kinds \cup {None}] /\ kinds'[s[1]] = "counter"
      /\ \A n \in Name : kinds[n] # None => kinds'[n] = kinds[n]
  BY <1>1, RegisterFacts, NameOfSeries DEF MetricsInv, Kinds
<1>3. Plus(Get(counters[s], 0), v) \in Int \cup {NaN}
  <2>1. Get(counters[s], 0) \in Int \cup {NaN}
    BY DEF MetricsInv, TypeInv, Get
  <2>2. QED
    BY <2>1, PlusFacts
<1>4. TypeInv'
  BY <1>1, <1>2, <1>3 DEF MetricsInv, TypeInv
<1>5. KindInv'
  <2> SUFFICES ASSUME NEW r \in Series
               PROVE  /\ counters'[r] # None => kinds'[r[1]] = "counter"
                      /\ gauges'[r] # None => kinds'[r[1]] = "gauge"
                      /\ counts'[r] # None => kinds'[r[1]] = "histogram"
    BY DEF KindInv
  <2>1. /\ counters[r] # None => kinds[r[1]] = "counter"
        /\ gauges[r] # None => kinds[r[1]] = "gauge"
        /\ counts[r] # None => kinds[r[1]] = "histogram"
    BY DEF MetricsInv, KindInv
  <2>2. counters' \in [Series -> Int \cup {NaN, None}] /\ r # s => counters'[r] = counters[r]
    BY <1>1 DEF MetricsInv, TypeInv
  <2>3. QED
    BY <1>1, <1>2, <2>1, <2>2, NameOfSeries, NoneAssumption DEF Kinds
<1>6. ASSUME NEW r \in Series PROVE SeriesInv(r)'
  BY <1>1, UntouchedSeries DEF MetricsInv
<1>7. BucketsInv'
  BY <1>1 DEF MetricsInv, BucketsInv
<1>8. QED
  BY <1>4, <1>5, <1>6, <1>7 DEF MetricsInv

\* Setting a gauge changes one gauge.
LEMMA SetGaugeKeeps ==
  ASSUME MetricsInv, NEW s \in Series, NEW v \in Value, SetGauge(s, v)
  PROVE  MetricsInv'
<1>1. UNCHANGED <<counters, buckets, counts, sums, totals, halfway>> /\ Register(s[1], "gauge")
      /\ gauges' = [gauges EXCEPT ![s] = v]
  BY DEF SetGauge
<1>2. kinds' \in [Name -> Kinds \cup {None}] /\ kinds'[s[1]] = "gauge"
      /\ \A n \in Name : kinds[n] # None => kinds'[n] = kinds[n]
  BY <1>1, RegisterFacts, NameOfSeries DEF MetricsInv, Kinds
<1>3. TypeInv'
  BY <1>1, <1>2 DEF MetricsInv, TypeInv
<1>4. KindInv'
  <2> SUFFICES ASSUME NEW r \in Series
               PROVE  /\ counters'[r] # None => kinds'[r[1]] = "counter"
                      /\ gauges'[r] # None => kinds'[r[1]] = "gauge"
                      /\ counts'[r] # None => kinds'[r[1]] = "histogram"
    BY DEF KindInv
  <2>1. /\ counters[r] # None => kinds[r[1]] = "counter"
        /\ gauges[r] # None => kinds[r[1]] = "gauge"
        /\ counts[r] # None => kinds[r[1]] = "histogram"
    BY DEF MetricsInv, KindInv
  <2>2. r # s => gauges'[r] = gauges[r]
    BY <1>1 DEF MetricsInv, TypeInv
  <2>3. QED
    BY <1>1, <1>2, <2>1, <2>2, NameOfSeries, NoneAssumption DEF Kinds
<1>5. ASSUME NEW r \in Series PROVE SeriesInv(r)'
  BY <1>1, UntouchedSeries DEF MetricsInv
<1>6. BucketsInv'
  BY <1>1 DEF MetricsInv, BucketsInv
<1>7. QED
  BY <1>3, <1>4, <1>5, <1>6 DEF MetricsInv

-----------------------------------------------------------------------------
\* Kinds after a call on a histogram.
LEMMA HistogramKinds ==
  ASSUME MetricsInv, NEW name \in Name, Register(name, "histogram"),
         UNCHANGED <<counters, gauges>>,
         \A r \in Series : r[1] # name => counts'[r] = counts[r]
  PROVE  kinds' \in [Name -> Kinds \cup {None}] /\ KindInv'
<1>1. kinds' \in [Name -> Kinds \cup {None}] /\ kinds'[name] = "histogram"
      /\ \A n \in Name : kinds[n] # None => kinds'[n] = kinds[n]
  BY RegisterFacts DEF MetricsInv, Kinds
<1>2. ASSUME NEW r \in Series
      PROVE  /\ counters'[r] # None => kinds'[r[1]] = "counter"
             /\ gauges'[r] # None => kinds'[r[1]] = "gauge"
             /\ counts'[r] # None => kinds'[r[1]] = "histogram"
  <2>1. /\ counters[r] # None => kinds[r[1]] = "counter"
        /\ gauges[r] # None => kinds[r[1]] = "gauge"
        /\ counts[r] # None => kinds[r[1]] = "histogram"
    BY DEF MetricsInv, KindInv
  <2>2. QED
    BY <1>1, <2>1, NameOfSeries, NoneAssumption DEF Kinds
<1>3. QED
  BY <1>1, <1>2 DEF KindInv

\* The buckets that a call finds or chooses, for the name and for the others.
LEMMA ChosenFacts ==
  ASSUME MetricsInv, NEW name \in Name, NEW bounds \in SUBSET Bound, Choose(name, bounds)
  PROVE  /\ Chosen(name, bounds) \in SUBSET Bounds /\ Chosen(name, bounds) # None
         /\ Inf \in Chosen(name, bounds)
         /\ buckets' \in [Name -> (SUBSET Bounds) \cup {None}]
         /\ buckets'[name] = Chosen(name, bounds)
         /\ \A n \in Name : buckets[n] # None => buckets'[n] = buckets[n]
         /\ BucketsInv'
<1>1. TypeInv /\ BucketsInv
  BY DEF MetricsInv
<1>2. Chosen(name, bounds) \in SUBSET Bounds /\ Chosen(name, bounds) # None
  BY <1>1, NoneAssumption DEF TypeInv, Chosen, Bounds
<1>3. Inf \in Chosen(name, bounds)
  BY <1>1 DEF BucketsInv, Chosen
<1>4. buckets' = [buckets EXCEPT ![name] = Chosen(name, bounds)]
  BY DEF Choose
<1>5. \A n \in Name : buckets'[n] = IF n = name THEN Chosen(name, bounds) ELSE buckets[n]
  BY <1>1, <1>4 DEF TypeInv
<1>6. buckets[name] # None => Chosen(name, bounds) = buckets[name]
  BY DEF Chosen
<1>7. BucketsInv'
  BY <1>1, <1>3, <1>5 DEF BucketsInv
<1>8. QED
  BY <1>1, <1>2, <1>3, <1>4, <1>5, <1>6, <1>7 DEF TypeInv

\* The counts a series has before a call, with buckets bs: those it shows, or
\* zero if it is new.
LEMMA CountsBefore ==
  ASSUME MetricsInv, NEW s \in Series, NEW bounds \in SUBSET Bound,
         Choose(s[1], bounds)
  PROVE  LET bs == Chosen(s[1], bounds)
             c  == Get(counts[s], NoCounts)
             n  == Times(s)
         IN  /\ c \in [Bounds -> Nat] /\ n \in Nat
             /\ \A b, d \in bs : b <= d => c[b] <= c[d]
             /\ \A b \in Bounds : c[b] <= n
             /\ \A b \in Bounds \ bs : c[b] = 0
             /\ Get(sums[s], 0) \in Int \cup {NaN}
             /\ Get(sums[s], 0) # NaN => c[Inf] = n
<1> DEFINE bs == Chosen(s[1], bounds)
           c  == Get(counts[s], NoCounts)
           n  == Times(s)
<1>1. TypeInv /\ SeriesInv(s) /\ s[1] \in Name
  BY NameOfSeries DEF MetricsInv
<1>2. bs \in SUBSET Bounds
  BY <1>1, ChosenFacts
<1>3. c \in [Bounds -> Nat] /\ Get(sums[s], 0) \in Int \cup {NaN}
  BY <1>1 DEF TypeInv, Get, NoCounts
<1>4. n \in Nat
  BY <1>1 DEF TypeInv, Get, Times
<1>5. CASE counts[s] = None
  <2>1. c = NoCounts /\ n = 0 /\ sums[s] = None
    BY <1>1, <1>5 DEF SeriesInv, Get, Times
  <2>2. \A b \in Bounds : c[b] = 0
    BY <2>1 DEF NoCounts
  <2>3. /\ \A b, d \in bs : b <= d => c[b] <= c[d]
        /\ \A b \in Bounds : c[b] <= n
        /\ \A b \in Bounds \ bs : c[b] = 0
        /\ c[Inf] = n
    BY <1>2, <2>1, <2>2, BoundFacts
  <2>4. QED
    BY <1>3, <1>4, <2>3
<1>6. CASE counts[s] # None
  <2>1. c = counts[s] /\ buckets[s[1]] # None /\ bs = buckets[s[1]]
    BY <1>6, <1>1 DEF SeriesInv, Get, Chosen
  <2>2. /\ \A b, d \in bs : b <= d => c[b] <= c[d]
        /\ \A b \in Bounds : c[b] <= n
        /\ \A b \in Bounds \ bs : c[b] = 0
        /\ sums[s] # NaN => c[Inf] = n
    BY <1>1, <1>6, <2>1 DEF SeriesInv
  <2>3. Get(sums[s], 0) # NaN => sums[s] # NaN
    BY BoundFacts DEF Get
  <2>4. QED
    BY <1>3, <1>4, <2>2, <2>3
<1>7. QED
  BY <1>5, <1>6

\* A call that leaves series s with counts as a series of its name should have
\* them, and touches no other series, keeps the invariant.
LEMMA SeriesKept ==
  ASSUME MetricsInv, NEW s \in Series, NEW bounds \in SUBSET Bound,
         Choose(s[1], bounds), NEW c \in [Bounds -> Nat],
         counts' = [counts EXCEPT ![s] = c],
         sums' \in [Series -> Int \cup {NaN, None}],
         totals' \in [Series -> Nat \cup {None}],
         halfway' \in [Series -> Nat],
         \A r \in Series : r # s => /\ sums'[r] = sums[r]
                                    /\ totals'[r] = totals[r]
                                    /\ halfway'[r] = halfway[r],
         \A b, d \in Chosen(s[1], bounds) : b <= d => c[b] <= c[d],
         \A b \in Bounds : c[b] <= Times(s)',
         \A b \in Bounds \ Chosen(s[1], bounds) : c[b] = 0,
         sums'[s] # NaN => c[Inf] = Times(s)'
  PROVE  MetricsInv'
<1>1. TypeInv /\ s[1] \in Name /\ \A r \in Series : SeriesInv(r)
  BY NameOfSeries DEF MetricsInv
<1>2. /\ buckets'[s[1]] = Chosen(s[1], bounds) /\ Chosen(s[1], bounds) # None
      /\ buckets' \in [Name -> (SUBSET Bounds) \cup {None}]
      /\ \A n \in Name : buckets[n] # None => buckets'[n] = buckets[n]
      /\ BucketsInv'
  BY <1>1, ChosenFacts
<1>3. counts'[s] = c /\ \A r \in Series : r # s => counts'[r] = counts[r]
  BY <1>1 DEF TypeInv
<1>4. Register(s[1], "histogram") /\ UNCHANGED <<counters, gauges>>
  BY DEF Choose
<1>5. kinds' \in [Name -> Kinds \cup {None}] /\ KindInv'
  BY <1>1, <1>3, <1>4, HistogramKinds
<1>6. TypeInv'
  <2>1. counts' \in [Series -> [Bounds -> Nat] \cup {None}]
    BY <1>1 DEF TypeInv
  <2>2. QED
    BY <1>1, <1>2, <1>4, <1>5, <2>1 DEF TypeInv
<1>7. SeriesInv(s)'
  <2>1. counts'[s] # None
    BY <1>3, NoneAssumption
  <2>2. QED
    BY <1>2, <1>3, <2>1 DEF SeriesInv
<1>8. ASSUME NEW r \in Series, r # s PROVE SeriesInv(r)'
  BY <1>1, <1>2, <1>3, <1>8, NameOfSeries, UntouchedSeries
<1>9. QED
  BY <1>2, <1>5, <1>6, <1>7, <1>8 DEF MetricsInv

\* An observation that is counted once, in the total or as one that raised,
\* keeps the invariant.
LEMMA CountKeeps ==
  ASSUME MetricsInv, NEW s \in Series, NEW v \in Value, NEW bounds \in SUBSET Bound,
         Count(s, v, bounds),
         sums' \in [Series -> Int \cup {NaN, None}],
         totals' \in [Series -> Nat \cup {None}],
         halfway' \in [Series -> Nat],
         \A r \in Series : r # s => /\ sums'[r] = sums[r]
                                    /\ totals'[r] = totals[r]
                                    /\ halfway'[r] = halfway[r],
         Times(s)' = Times(s) + 1,
         sums'[s] # NaN => v # NaN /\ Get(sums[s], 0) # NaN
  PROVE  MetricsInv'
<1> DEFINE bs == Chosen(s[1], bounds)
           c  == Get(counts[s], NoCounts)
           n  == Times(s)
<1>1. Choose(s[1], bounds) /\ s[1] \in Name
      /\ counts' = [counts EXCEPT ![s] = Add(c, v, buckets'[s[1]])]
  BY NameOfSeries DEF Count
<1>2. bs \in SUBSET Bounds /\ Inf \in bs /\ buckets'[s[1]] = bs
  BY <1>1, ChosenFacts
<1>3. /\ c \in [Bounds -> Nat] /\ n \in Nat
      /\ \A b, d \in bs : b <= d => c[b] <= c[d]
      /\ \A b \in Bounds : c[b] <= n
      /\ \A b \in Bounds \ bs : c[b] = 0
      /\ Get(sums[s], 0) # NaN => c[Inf] = n
  BY <1>1, CountsBefore
<1> HIDE DEF c, n
<1>4. /\ Add(c, v, bs) \in [Bounds -> Nat]
      /\ \A b, d \in bs : b <= d => Add(c, v, bs)[b] <= Add(c, v, bs)[d]
      /\ \A b \in Bounds : Add(c, v, bs)[b] <= n + 1
      /\ \A b \in Bounds \ bs : Add(c, v, bs)[b] = 0
      /\ v # NaN /\ Inf \in bs => Add(c, v, bs)[Inf] = c[Inf] + 1
  BY <1>2, <1>3, AddFacts
<1>5. Times(s)' = n + 1
  BY DEF n
<1>6. sums'[s] # NaN => Add(c, v, bs)[Inf] = n + 1
  BY <1>2, <1>3, <1>4
<1>7. counts' = [counts EXCEPT ![s] = Add(c, v, bs)]
  BY <1>1, <1>2
<1>8. \A b \in Bounds : Add(c, v, bs)[b] <= Times(s)'
  BY <1>4, <1>5
<1>9. sums'[s] # NaN => Add(c, v, bs)[Inf] = Times(s)'
  BY <1>5, <1>6
<1>10. QED
  BY <1>1, <1>4, <1>7, <1>8, <1>9, SeriesKept

\* An observation keeps the invariant.
LEMMA ObserveHistogramKeeps ==
  ASSUME MetricsInv, NEW s \in Series, NEW v \in Value, NEW bounds \in SUBSET Bound,
         ObserveHistogram(s, v, bounds)
  PROVE  MetricsInv'
<1>1. /\ Count(s, v, bounds) /\ halfway' = halfway
      /\ sums' = [sums EXCEPT ![s] = Plus(Get(sums[s], 0), v)]
      /\ totals' = [totals EXCEPT ![s] = Get(totals[s], 0) + 1]
  BY DEF ObserveHistogram
<1>2. TypeInv
  BY DEF MetricsInv
<1>3. Get(sums[s], 0) \in Int \cup {NaN} /\ Get(totals[s], 0) \in Nat /\ halfway[s] \in Nat
  BY <1>2 DEF TypeInv, Get
<1>4. Plus(Get(sums[s], 0), v) \in Int \cup {NaN}
      /\ (Plus(Get(sums[s], 0), v) # NaN => v # NaN /\ Get(sums[s], 0) # NaN)
  BY <1>3, PlusFacts
<1>5. /\ sums' \in [Series -> Int \cup {NaN, None}]
      /\ totals' \in [Series -> Nat \cup {None}]
      /\ halfway' \in [Series -> Nat]
  BY <1>1, <1>2, <1>3, <1>4 DEF TypeInv
<1>6. /\ sums'[s] = Plus(Get(sums[s], 0), v) /\ totals'[s] = Get(totals[s], 0) + 1
      /\ \A r \in Series : r # s => sums'[r] = sums[r] /\ totals'[r] = totals[r]
  BY <1>1, <1>2 DEF TypeInv
<1>7. Times(s)' = Times(s) + 1
  <2>1. totals'[s] # None
    BY <1>3, <1>6, BoundFacts
  <2>2. Get(totals'[s], 0) = Get(totals[s], 0) + 1
    BY <1>6, <2>1 DEF Get
  <2>3. QED
    BY <1>1, <1>3, <2>2 DEF Times
<1>8. QED
  BY <1>1, <1>4, <1>5, <1>6, <1>7, CountKeeps

\* So does an observation that raises once it was counted.
LEMMA ObserveRaisesOnSumKeeps ==
  ASSUME MetricsInv, NEW s \in Series, NEW v \in Number, NEW bounds \in SUBSET Bound,
         ObserveRaisesOnSum(s, v, bounds)
  PROVE  MetricsInv'
<1>1. /\ Count(s, v, bounds) /\ UNCHANGED <<sums, totals>>
      /\ halfway' = [halfway EXCEPT ![s] = halfway[s] + 1]
  BY DEF ObserveRaisesOnSum
<1>2. TypeInv
  BY DEF MetricsInv
<1>3. Get(totals[s], 0) \in Nat /\ halfway[s] \in Nat
  BY <1>2 DEF TypeInv, Get
<1>4. /\ sums' \in [Series -> Int \cup {NaN, None}]
      /\ totals' \in [Series -> Nat \cup {None}]
      /\ halfway' \in [Series -> Nat]
  BY <1>1, <1>2, <1>3 DEF TypeInv
<1>5. halfway'[s] = halfway[s] + 1 /\ \A r \in Series : r # s => halfway'[r] = halfway[r]
  BY <1>1, <1>2 DEF TypeInv
<1>6. Times(s)' = Times(s) + 1
  BY <1>1, <1>3, <1>5 DEF Times
<1>7. v \in Value /\ v # NaN
  BY BoundAssumption DEF Value
<1>8. sums'[s] # NaN => Get(sums[s], 0) # NaN
  BY <1>1, BoundFacts DEF Get
<1>9. QED
  BY <1>1, <1>4, <1>5, <1>6, <1>7, <1>8, CountKeeps

\* An observation whose value cannot be compared leaves a series without
\* observations, or the counts it had.
LEMMA ObserveRaisesOnValueKeeps ==
  ASSUME MetricsInv, NEW s \in Series, NEW bounds \in SUBSET Bound,
         ObserveRaisesOnValue(s, bounds)
  PROVE  MetricsInv'
<1> DEFINE bs == Chosen(s[1], bounds)
           c  == Get(counts[s], NoCounts)
<1>1. /\ Choose(s[1], bounds) /\ UNCHANGED <<sums, totals, halfway>>
      /\ counts' = [counts EXCEPT ![s] = c]
  BY DEF ObserveRaisesOnValue
<1>2. /\ c \in [Bounds -> Nat]
      /\ \A b, d \in bs : b <= d => c[b] <= c[d]
      /\ \A b \in Bounds : c[b] <= Times(s)
      /\ \A b \in Bounds \ bs : c[b] = 0
      /\ Get(sums[s], 0) # NaN => c[Inf] = Times(s)
  BY <1>1, CountsBefore
<1>3. Times(s)' = Times(s)
  BY <1>1 DEF Times
<1>4. /\ sums' \in [Series -> Int \cup {NaN, None}]
      /\ totals' \in [Series -> Nat \cup {None}]
      /\ halfway' \in [Series -> Nat]
      /\ \A r \in Series : sums'[r] = sums[r] /\ totals'[r] = totals[r]
                           /\ halfway'[r] = halfway[r]
  BY <1>1 DEF MetricsInv, TypeInv
<1>5. sums'[s] # NaN => Get(sums[s], 0) # NaN
  BY <1>1, BoundFacts DEF Get
<1> HIDE DEF c
<1>6. \A b \in Bounds : c[b] <= Times(s)'
  BY <1>2, <1>3
<1>7. sums'[s] # NaN => c[Inf] = Times(s)'
  BY <1>2, <1>3, <1>5
<1>8. QED
  BY <1>1, <1>2, <1>4, <1>6, <1>7, SeriesKept

\* Labels that are no dictionary leave a name with buckets, and no new series.
LEMMA ObserveRaisesOnLabelsKeeps ==
  ASSUME MetricsInv, NEW name \in Name, NEW bounds \in SUBSET Bound,
         ObserveRaisesOnLabels(name, bounds)
  PROVE  MetricsInv'
<1>1. Choose(name, bounds) /\ UNCHANGED <<counts, sums, totals, halfway>>
  BY DEF ObserveRaisesOnLabels
<1>2. Register(name, "histogram") /\ UNCHANGED <<counters, gauges>>
  BY <1>1 DEF Choose
<1>3. kinds' \in [Name -> Kinds \cup {None}] /\ KindInv'
  BY <1>1, <1>2, HistogramKinds
<1>4. /\ buckets' \in [Name -> (SUBSET Bounds) \cup {None}]
      /\ \A n \in Name : buckets[n] # None => buckets'[n] = buckets[n]
      /\ BucketsInv'
  BY <1>1, ChosenFacts
<1>5. TypeInv'
  BY <1>1, <1>2, <1>3, <1>4 DEF MetricsInv, TypeInv
<1>6. ASSUME NEW r \in Series PROVE SeriesInv(r)'
  BY <1>1, <1>4, NameOfSeries, UntouchedSeries DEF MetricsInv
<1>7. QED
  BY <1>3, <1>4, <1>5, <1>6 DEF MetricsInv

\* A call that raises as soon as the name is registered leaves its kind.
LEMMA RaisesOnceRegisteredKeeps ==
  ASSUME MetricsInv, NEW name \in Name, NEW kind \in Kinds,
         RaisesOnceRegistered(name, kind)
  PROVE  MetricsInv'
<1>1. UNCHANGED <<counters, gauges, buckets, counts, sums, totals, halfway>>
      /\ Register(name, kind)
  BY DEF RaisesOnceRegistered
<1>2. kinds' \in [Name -> Kinds \cup {None}]
      /\ \A n \in Name : kinds[n] # None => kinds'[n] = kinds[n]
  BY <1>1, RegisterFacts DEF MetricsInv
<1>3. KindInv'
  BY <1>1, <1>2, NameOfSeries, NoneAssumption DEF MetricsInv, KindInv, Kinds
<1>4. TypeInv'
  BY <1>1, <1>2 DEF MetricsInv, TypeInv
<1>5. ASSUME NEW r \in Series PROVE SeriesInv(r)'
  BY <1>1, UntouchedSeries DEF MetricsInv
<1>6. BucketsInv'
  BY <1>1 DEF MetricsInv, BucketsInv
<1>7. QED
  BY <1>3, <1>4, <1>5, <1>6 DEF MetricsInv

-----------------------------------------------------------------------------
\* The calls, those that raise half-way included.
LEMMA NextCases ==
  ASSUME Next
  PROVE  \/ \E s \in Series, v \in Value : IncrementCounter(s, v)
         \/ \E s \in Series, v \in Value : SetGauge(s, v)
         \/ \E s \in Series, v \in Value, bounds \in SUBSET Bound :
               ObserveHistogram(s, v, bounds)
         \/ \E s \in Series, v \in Number, bounds \in SUBSET Bound :
               ObserveRaisesOnSum(s, v, bounds)
         \/ \E s \in Series, bounds \in SUBSET Bound : ObserveRaisesOnValue(s, bounds)
         \/ \E name \in Name, bounds \in SUBSET Bound : ObserveRaisesOnLabels(name, bounds)
         \/ \E name \in Name, kind \in Kinds : RaisesOnceRegistered(name, kind)
BY DEF Next

\* Every step of the registry keeps the invariant.
LEMMA NextMetricsInv == MetricsInv /\ [Next]_vars => MetricsInv'
<1> SUFFICES ASSUME MetricsInv, [Next]_vars PROVE MetricsInv'
  OBVIOUS
<1>1. CASE UNCHANGED vars
  <2>1. UNCHANGED <<kinds, counters, gauges, buckets, counts, sums, totals, halfway>>
    BY <1>1 DEF vars
  <2>2. TypeInv' /\ KindInv' /\ BucketsInv'
    BY <2>1 DEF MetricsInv, TypeInv, KindInv, BucketsInv
  <2>3. ASSUME NEW r \in Series PROVE SeriesInv(r)'
    BY <2>1, UntouchedSeries DEF MetricsInv
  <2>4. QED
    BY <2>2, <2>3 DEF MetricsInv
<1>2. CASE Next
  BY <1>2, NextCases, IncrementCounterKeeps, SetGaugeKeeps, ObserveHistogramKeeps,
     ObserveRaisesOnSumKeeps, ObserveRaisesOnValueKeeps, ObserveRaisesOnLabelsKeeps,
     RaisesOnceRegisteredKeeps
<1>3. QED
  BY <1>1, <1>2

\* The registry's invariant holds after any sequence of calls, those that
\* raised after they registered a name, chose its buckets or counted included
\* (metrics.py:61-126).
THEOREM RegistryInvariance == Spec => []MetricsInv
<1>1. Init => MetricsInv
  BY InitMetricsInv
<1>2. MetricsInv /\ [Next]_vars => MetricsInv'
  BY NextMetricsInv
<1>3. QED
  BY <1>1, <1>2, PTL DEF Spec

\* Buckets stay cumulative, whatever values are observed, NaN and values that
\* cannot be summed included (metrics.py:111-126).
THEOREM CumulativeBuckets == Spec => []BucketsCumulative
<1>1. MetricsInv => BucketsCumulative
  <2> SUFFICES ASSUME MetricsInv, NEW s \in Series, counts[s] # None
               PROVE  /\ \A b, c \in buckets[s[1]] : b <= c => counts[s][b] <= counts[s][c]
                      /\ \A b \in Bounds : counts[s][b] <= Times(s)
                      /\ \A b \in Bounds \ buckets[s[1]] : counts[s][b] = 0
    BY DEF BucketsCumulative, Observed
  <2> QED
    BY DEF MetricsInv, SeriesInv
<1>2. QED
  BY <1>1, RegistryInvariance, PTL

\* Until a NaN is observed, the +Inf bucket is the total and the observations
\* that raised after they were counted (metrics.py:122-126).
THEOREM InfIsTotal == Spec => []InfCountsAllUnlessNaN
<1>1. MetricsInv => InfCountsAllUnlessNaN
  BY DEF MetricsInv, SeriesInv, InfCountsAllUnlessNaN, Observed
<1>2. QED
  BY <1>1, RegistryInvariance, PTL

\* What an increment leaves in its counter.
LEMMA CounterStep ==
  ASSUME MetricsInv, NEW s \in Series, NEW v \in Value, IncrementCounter(s, v),
         NEW r \in Series
  PROVE  /\ counters[r] \in Int => counters'[r] = NaN \/ counters[r] <= counters'[r]
         /\ counters[r] = NaN => counters'[r] = NaN
<1>1. /\ counters \in [Series -> Int \cup {NaN, None}] /\ ~Rejected(v)
      /\ counters' = [counters EXCEPT ![s] = Plus(Get(counters[s], 0), v)]
  BY DEF MetricsInv, TypeInv, IncrementCounter
<1>2. CASE r # s
  BY <1>1, <1>2
<1>3. CASE r = s
  <2>1. counters'[s] = Plus(Get(counters[s], 0), v)
    BY <1>1
  <2>2. Get(counters[s], 0) = IF counters[s] = None THEN 0 ELSE counters[s]
    BY DEF Get
  <2>3. v # NaN => v \in Int /\ v >= 0
    BY <1>1, BoundFacts DEF Rejected
  <2>4. CASE counters[s] = NaN
    BY <1>3, <2>1, <2>2, <2>4, BoundFacts, PlusFacts
  <2>5. CASE counters[s] \in Int /\ v = NaN
    BY <1>3, <2>1, <2>2, <2>5, BoundFacts, PlusFacts
  <2>6. CASE counters[s] \in Int /\ v # NaN
    <3>1. counters'[s] = counters[s] + v
      BY <2>1, <2>2, <2>3, <2>6, BoundFacts, PlusFacts
    <3>2. QED
      BY <1>3, <2>3, <2>6, <3>1, BoundFacts
  <2>7. QED
    BY <1>3, <2>4, <2>5, <2>6
<1>4. QED
  BY <1>2, <1>3

\* A counter never falls, unless a NaN is added to it (metrics.py:89-93).
THEOREM CountersRise == Spec => CountersNeverFall
<1>1. MetricsInv /\ [Next]_vars =>
        [\A s \in Series :
            /\ counters[s] \in Int => counters'[s] = NaN \/ counters[s] <= counters'[s]
            /\ counters[s] = NaN => counters'[s] = NaN]_vars
  <2> SUFFICES ASSUME MetricsInv, Next, NEW r \in Series
               PROVE  /\ counters[r] \in Int => counters'[r] = NaN \/ counters[r] <= counters'[r]
                      /\ counters[r] = NaN => counters'[r] = NaN
    OBVIOUS
  <2>1. CASE \E s \in Series, v \in Value : IncrementCounter(s, v)
    BY <2>1, CounterStep
  <2>2. CASE counters' = counters
    BY <2>2
  <2>3. QED
    BY <2>1, <2>2, NextCases
       DEF SetGauge, ObserveHistogram, ObserveRaisesOnSum, ObserveRaisesOnValue,
           ObserveRaisesOnLabels, RaisesOnceRegistered, Count, Choose
<1>2. QED
  BY <1>1, RegistryInvariance, PTL DEF Spec, CountersNeverFall

\* A name keeps its kind and its buckets for ever (metrics.py:72-75, 111-118).
THEOREM FamiliesFixed == Spec => FamiliesNeverChange
<1> DEFINE Fixed ==
      \A n \in Name :
         /\ kinds[n] # None => kinds'[n] = kinds[n]
         /\ buckets[n] # None => buckets'[n] = buckets[n]
<1>1. MetricsInv /\ [Next]_vars => [Fixed]_vars
  <2> SUFFICES ASSUME MetricsInv, Next, NEW n \in Name
               PROVE  /\ kinds[n] # None => kinds'[n] = kinds[n]
                      /\ buckets[n] # None => buckets'[n] = buckets[n]
    OBVIOUS
  <2>1. PICK name \in Name :
          \/ /\ \E kind \in Kinds : Register(name, kind)
             /\ buckets' = buckets
          \/ \E bounds \in SUBSET Bound : Choose(name, bounds)
    BY NextCases, NameOfSeries
       DEF IncrementCounter, SetGauge, ObserveHistogram, ObserveRaisesOnSum,
           ObserveRaisesOnValue, ObserveRaisesOnLabels, RaisesOnceRegistered, Count, Kinds
  <2>2. \E kind \in Kinds : Register(name, kind)
    BY <2>1 DEF Choose, Kinds
  <2>3. kinds[n] # None => kinds'[n] = kinds[n]
    BY <2>2, RegisterFacts DEF MetricsInv
  <2>4. buckets[n] # None => buckets'[n] = buckets[n]
    BY <2>1, ChosenFacts
  <2>5. QED
    BY <2>3, <2>4
<1>2. QED
  BY <1>1, RegistryInvariance, PTL DEF Spec, FamiliesNeverChange


\* Every sample the JSON export shows belongs to a series of the kind of its
\* name.
LEMMA SampleKinds ==
  ASSUME MetricsInv, NEW x
  PROVE  /\ x \in Samples(counters, <<"counter">>) => kinds[x.series[1]] = "counter"
         /\ x \in Samples(gauges, <<"gauge">>) => kinds[x.series[1]] = "gauge"
         /\ x \in UNION {HistogramSamples(s) : s \in Observed} => kinds[x.series[1]] = "histogram"
         /\ x \in ToJson => x.series[1] \in Name
<1>1. \A s \in Series :
        /\ counters[s] # None => kinds[s[1]] = "counter"
        /\ gauges[s] # None => kinds[s[1]] = "gauge"
        /\ counts[s] # None => kinds[s[1]] = "histogram"
  BY DEF MetricsInv, KindInv
<1>2. x \in Samples(counters, <<"counter">>)
         => x.series \in Series /\ counters[x.series] # None
  BY DEF Samples, Sample
<1>3. x \in Samples(gauges, <<"gauge">>) => x.series \in Series /\ gauges[x.series] # None
  BY DEF Samples, Sample
<1>4. x \in UNION {HistogramSamples(s) : s \in Observed}
         => x.series \in Series /\ counts[x.series] # None
  BY DEF HistogramSamples, Sample, Observed
<1>5. QED
  BY <1>1, <1>2, <1>3, <1>4, NameOfSeries DEF ToJson

\* The two exports show the same samples: the text export reaches every series
\* because its name is registered with its kind (metrics.py:128-186).
THEOREM SameExports == Spec => []ExportsAgree
<1>1. MetricsInv => ~JsonRaises
  BY DEF MetricsInv, SeriesInv, JsonRaises, Observed
<1>2. MetricsInv => ToPrometheusText = ToJson
  <2> SUFFICES ASSUME MetricsInv, NEW x
               PROVE  x \in ToPrometheusText <=> x \in ToJson
    OBVIOUS
  <2> DEFINE cs == Samples(counters, <<"counter">>)
             gs == Samples(gauges, <<"gauge">>)
             hs == UNION {HistogramSamples(s) : s \in Observed}
             of(n) == CASE kinds[n] = "counter"   -> cs
                        [] kinds[n] = "gauge"     -> gs
                        [] kinds[n] = "histogram" -> hs
                        [] OTHER -> {}
  <2>1. /\ x \in cs => kinds[x.series[1]] = "counter"
        /\ x \in gs => kinds[x.series[1]] = "gauge"
        /\ x \in hs => kinds[x.series[1]] = "histogram"
        /\ x \in ToJson => x.series[1] \in Name
    BY SampleKinds
  <2>2. x \in ToJson <=> x \in cs \/ x \in gs \/ x \in hs
    BY DEF ToJson
  <2>3. x \in ToPrometheusText <=> \E n \in Name : x \in of(n) /\ x.series[1] = n
    BY DEF ToPrometheusText, Family
  <2> HIDE DEF cs, gs, hs
  <2>4. \A n \in Name : x \in of(n) => x \in cs \/ x \in gs \/ x \in hs
    OBVIOUS
  <2>5. x \in cs \/ x \in gs \/ x \in hs => x \in of(x.series[1])
    BY <2>1
  <2> HIDE DEF of
  <2>6. QED
    BY <2>1, <2>2, <2>3, <2>4, <2>5
<1>3. MetricsInv => ExportsAgree
  BY <1>1, <1>2 DEF ExportsAgree
<1>4. QED
  BY <1>3, RegistryInvariance, PTL
-----------------------------------------------------------------------------
(* Chains that record into the registry.                                      *)

Step == [op : {"append"}, ratio : Int]
          \cup [op : {"counter", "gauge"}, series : Name \X Label, value : Int]

\* What the variables are, and that only the first step of a call appends.
Shape ==
    /\ pruned \in [Chain -> Seq(BOOLEAN)]
    /\ loaded \in [Chain -> Seq(BOOLEAN)]
    /\ applied \in [Chain -> Int]
    /\ todo \in Seq(Step)
    /\ \A i \in 2 .. Len(todo) : todo[i].op # "append"

Appending == todo # <<>> /\ Head(todo).op = "append"

\* The chain that is about to append is one batch ahead of its blocks.
Ahead(c) == IF Appending /\ c = current THEN 1 ELSE 0

MovesInv ==
    /\ Shape
    /\ Appending => current \in Chain
    /\ \A c \in Chain : applied[c] = Appended(c) + Ahead(c)

-----------------------------------------------------------------------------
(* The steps of a call.                                                       *)

LEMMA AfterStateSteps ==
    ASSUME NEW c, NEW index \in 0 .. MaxBlocks, NEW ratio \in Number
    PROVE  LET steps == AfterState(c, index, ratio)
           IN  /\ steps \in Seq(Step)
               /\ steps # <<>> /\ Head(steps).op = "append"
               /\ \A i \in 2 .. Len(steps) : steps[i].op # "append"
<1>1. /\ BlocksAdded \in Name /\ CompressionRatio \in Name
      /\ Plain \in Label /\ IndexOf[index] \in Label /\ ratio \in Int
  BY InstrumentedAssumption, BoundAssumption DEF Used
<1>2. /\ Append_(ratio) \in Step /\ Append_(ratio).op = "append"
      /\ Increment(BlocksAdded, 1) \in Step /\ Increment(BlocksAdded, 1).op = "counter"
      /\ SetRatio(index, ratio) \in Step /\ SetRatio(index, ratio).op = "gauge"
  BY <1>1 DEF Append_, Increment, SetRatio, Step
<1> HIDE DEF Step
<1>3. QED
  BY <1>2 DEF AfterState

LEMMA PruneSteps ==
    ASSUME NEW n \in Nat
    PROVE  LET steps == <<Increment(PruningEvents, 1), Increment(BlocksPruned, n)>>
           IN  /\ steps \in Seq(Step)
               /\ \A i \in 1 .. Len(steps) : steps[i].op # "append"
<1>1. PruningEvents \in Name /\ BlocksPruned \in Name /\ Plain \in Label
  BY InstrumentedAssumption DEF Used
<1>2. /\ Increment(PruningEvents, 1) \in Step /\ Increment(PruningEvents, 1).op = "counter"
      /\ Increment(BlocksPruned, n) \in Step /\ Increment(BlocksPruned, n).op = "counter"
  BY <1>1 DEF Increment, Step
<1>3. QED
  BY <1>2

\* After a step that is done, or when the rest is given up, nothing appends.
LEMMA DroppedHead ==
    ASSUME Shape, todo # <<>>, todo' = Tail(todo) \/ todo' = <<>>
    PROVE  /\ todo' \in Seq(Step)
           /\ \A i \in 1 .. Len(todo') : todo'[i].op # "append"
           /\ ~Appending'
<1> USE DEF Shape
<1>1. CASE todo' = <<>>
  BY <1>1 DEF Appending
<1>2. CASE todo' = Tail(todo)
  <2>1. /\ todo' \in Seq(Step) /\ Len(todo') = Len(todo) - 1
        /\ \A i \in 1 .. Len(todo') : todo'[i] = todo[i + 1]
    BY <1>2
  <2>2. \A i \in 1 .. Len(todo') : i + 1 \in 2 .. Len(todo)
    BY <2>1
  <2>3. \A i \in 1 .. Len(todo') : todo'[i].op # "append"
    BY <2>1, <2>2
  <2>4. todo' # <<>> => Head(todo') = todo'[1] /\ 1 \in 1 .. Len(todo')
    BY <2>1
  <2>5. QED
    BY <2>1, <2>3, <2>4 DEF Appending
<1>3. QED
  BY <1>1, <1>2

-----------------------------------------------------------------------------
(* One lemma per action.                                                      *)

LEMMA InitMoves == InstrumentedInit => MovesInv
<1> SUFFICES ASSUME InstrumentedInit PROVE MovesInv
  OBVIOUS
<1>1. Starts \subseteq Seq(BOOLEAN)
  BY InstrumentedAssumption
<1>2. /\ loaded \in [Chain -> Seq(BOOLEAN)] /\ pruned = loaded
      /\ applied = [c \in Chain |-> 0] /\ todo = <<>>
  BY <1>1 DEF InstrumentedInit
<1>3. Shape /\ ~Appending
  BY <1>2 DEF Shape, Appending
<1>4. \A c \in Chain : Len(loaded[c]) \in Nat
  BY <1>2
<1>5. QED
  BY <1>2, <1>3, <1>4 DEF MovesInv, Appended, Ahead

LEMMA AddBlockMoves ==
    ASSUME MovesInv, NEW c \in Chain, AddBlock(c)
    PROVE  MovesInv'
<1>1. /\ Shape /\ todo = <<>> /\ current' = c
      /\ applied' = [applied EXCEPT ![c] = @ + 1]
      /\ \E ratio \in Number : todo' = AfterState(c, Len(pruned[c]), ratio)
      /\ pruned' = pruned /\ loaded' = loaded
  BY DEF AddBlock, MovesInv, given
<1>2. Len(pruned[c]) \in 0 .. MaxBlocks
  BY InstrumentedAssumption, <1>1 DEF AddBlock, Shape
<1>3. /\ todo' \in Seq(Step) /\ Appending'
      /\ \A i \in 2 .. Len(todo') : todo'[i].op # "append"
  BY <1>1, <1>2, AfterStateSteps DEF Appending
<1>4. Shape'
  BY <1>1, <1>3 DEF Shape
<1>5. ASSUME NEW d \in Chain
      PROVE  applied'[d] = Appended(d)' + Ahead(d)'
  <2>1. applied[d] = Appended(d) /\ applied[d] \in Int
    BY <1>1 DEF MovesInv, Ahead, Appending, Shape, Appended
  <2>2. Appended(d)' = Appended(d)
    BY <1>1 DEF Appended
  <2>3. applied'[d] = IF d = c THEN applied[d] + 1 ELSE applied[d]
    BY <1>1 DEF Shape
  <2>4. Ahead(d)' = IF d = c THEN 1 ELSE 0
    BY <1>1, <1>3 DEF Ahead
  <2>5. QED
    BY <2>1, <2>2, <2>3, <2>4
<1>6. QED
  BY <1>1, <1>3, <1>4, <1>5 DEF MovesInv

LEMMA PruneBlocksMoves ==
    ASSUME MovesInv, NEW c \in Chain, PruneBlocks(c)
    PROVE  MovesInv'
<1>1. /\ Shape /\ todo = <<>> /\ ~Appending /\ applied' = applied /\ loaded' = loaded
      /\ pruned' = [pruned EXCEPT ![c] = [i \in DOMAIN @ |-> @[i] \/ i \in NewlyPruned(c)]]
  BY DEF PruneBlocks, MovesInv, Appending, given
<1>2. pruned[c] \in Seq(BOOLEAN) /\ Len(pruned[c]) \in Nat
      /\ DOMAIN pruned[c] = 1 .. Len(pruned[c])
  BY <1>1 DEF Shape
<1> DEFINE new == [i \in 1 .. Len(pruned[c]) |-> pruned[c][i] \/ i \in NewlyPruned(c)]
<1>3. new \in Seq(BOOLEAN) /\ Len(new) = Len(pruned[c])
  <2>1. \A i \in 1 .. Len(pruned[c]) :
           (pruned[c][i] \/ i \in NewlyPruned(c)) \in BOOLEAN
    OBVIOUS
  <2>2. QED
    BY <1>2, <2>1
<1>4. pruned' = [pruned EXCEPT ![c] = new]
  BY <1>1, <1>2
<1> HIDE DEF new
<1>5. /\ pruned' \in [Chain -> Seq(BOOLEAN)]
      /\ \A d \in Chain : Len(pruned'[d]) = Len(pruned[d])
  BY <1>1, <1>3, <1>4 DEF Shape
<1>6. Cardinality(NewlyPruned(c)) \in Nat
  <2>1. Cutoff(c) \in Int
    BY <1>2, InstrumentedAssumption DEF Cutoff
  <2>2. IsFiniteSet(1 .. Cutoff(c))
    BY <2>1, FS_Interval
  <2>3. NewlyPruned(c) \subseteq 1 .. Cutoff(c)
    BY DEF NewlyPruned
  <2>4. QED
    BY <2>2, <2>3, FS_Subset, FS_CardinalityType
<1>7. /\ todo' \in Seq(Step)
      /\ \A i \in 1 .. Len(todo') : todo'[i].op # "append"
  BY <1>6, PruneSteps DEF PruneBlocks
<1>8. ~Appending'
  <2>1. todo' # <<>> => Head(todo') = todo'[1] /\ 1 \in 1 .. Len(todo')
    BY <1>7
  <2>2. QED
    BY <1>7, <2>1 DEF Appending
<1>9. Shape'
  <2>1. \A i \in 2 .. Len(todo') : i \in 1 .. Len(todo')
    BY <1>7
  <2>2. QED
    BY <1>1, <1>5, <1>7, <2>1 DEF Shape
<1>10. \A d \in Chain : applied'[d] = Appended(d)' + Ahead(d)'
  BY <1>1, <1>5, <1>8 DEF MovesInv, Appended, Ahead
<1>11. QED
  BY <1>8, <1>9, <1>10 DEF MovesInv

LEMMA AppendBlockMoves ==
    ASSUME MovesInv, AppendBlock
    PROVE  MovesInv'
<1>1. /\ Shape /\ Appending /\ current \in Chain
      /\ pruned' = [pruned EXCEPT ![current] = Append(@, FALSE)]
      /\ todo # <<>> /\ todo' = Tail(todo)
      /\ applied' = applied /\ loaded' = loaded
  BY DEF AppendBlock, MovesInv, Appending, given
<1>2. /\ todo' \in Seq(Step) /\ ~Appending'
      /\ \A i \in 1 .. Len(todo') : todo'[i].op # "append"
  BY <1>1, DroppedHead
<1>3. /\ pruned' \in [Chain -> Seq(BOOLEAN)]
      /\ \A c \in Chain : Len(pruned'[c]) = Len(pruned[c])
                                             + (IF c = current THEN 1 ELSE 0)
  BY <1>1 DEF Shape
<1>4. Shape'
  <2>1. \A i \in 2 .. Len(todo') : i \in 1 .. Len(todo')
    BY <1>2
  <2>2. QED
    BY <1>1, <1>2, <1>3, <2>1 DEF Shape
<1>5. ASSUME NEW c \in Chain
      PROVE  applied'[c] = Appended(c)' + Ahead(c)'
  <2>1. /\ Len(pruned[c]) \in Nat /\ Len(loaded[c]) \in Nat
        /\ Len(pruned'[c]) = Len(pruned[c]) + (IF c = current THEN 1 ELSE 0)
    BY <1>1, <1>3 DEF Shape
  <2>2. applied[c] = Len(pruned[c]) - Len(loaded[c]) + (IF c = current THEN 1 ELSE 0)
    BY <1>1 DEF MovesInv, Appended, Ahead
  <2>3. Appended(c)' = Len(pruned'[c]) - Len(loaded[c]) /\ Ahead(c)' = 0
    BY <1>1, <1>2 DEF Appended, Ahead
  <2>4. QED
    BY <1>1, <2>1, <2>2, <2>3
<1>6. QED
  BY <1>2, <1>4, <1>5 DEF MovesInv

\* A recording that succeeds or raises, and what other code records, is left
\* with the blocks and the state as they were.
LEMMA RecordMoves ==
    ASSUME MovesInv,
           \/ Record
           \/ RecordRaises
           \/ \E name \in Used : TakeName(name)
           \/ UNCHANGED <<registry, chains>>
    PROVE  MovesInv'
<1>1. /\ Shape /\ pruned' = pruned /\ applied' = applied /\ loaded' = loaded
      /\ current' = current
  BY DEF MovesInv, Record, RecordRaises, TakeName, chains, given
<1>2. \A c \in Chain : Appended(c)' = Appended(c)
  BY <1>1 DEF Appended
<1>3. CASE todo' = todo
  BY <1>1, <1>2, <1>3 DEF MovesInv, Shape, Ahead, Appending
<1>4. CASE Record \/ RecordRaises
  <2>1. todo # <<>> /\ Head(todo).op # "append" /\ (todo' = Tail(todo) \/ todo' = <<>>)
    BY <1>4 DEF Record, RecordRaises
  <2>2. /\ todo' \in Seq(Step) /\ ~Appending'
        /\ \A i \in 1 .. Len(todo') : todo'[i].op # "append"
    BY <1>1, <2>1, DroppedHead
  <2>3. \A i \in 2 .. Len(todo') : i \in 1 .. Len(todo')
    BY <2>2
  <2>4. Shape'
    BY <1>1, <2>2, <2>3 DEF Shape
  <2>5. \A c \in Chain : Ahead(c)' = Ahead(c)
    BY <2>1, <2>2 DEF Ahead, Appending
  <2>6. QED
    BY <1>1, <1>2, <2>2, <2>4, <2>5 DEF MovesInv
<1>5. QED
  BY <1>3, <1>4 DEF TakeName, chains

-----------------------------------------------------------------------------
\* Whatever raises while it records, each chain has as many new blocks as its
\* state has applied batches (chain.py:63-81).
THEOREM BlocksMoveWithState == InstrumentedSpec => []StateMovesWithBlocks
<1>1. InstrumentedInit => MovesInv
  BY InitMoves
<1>2. MovesInv /\ [InstrumentedNext]_<<registry, chains>> => MovesInv'
  <2> SUFFICES ASSUME MovesInv, [InstrumentedNext]_<<registry, chains>>
               PROVE  MovesInv'
    OBVIOUS
  <2>1. CASE \E c \in Chain : AddBlock(c)
    BY <2>1, AddBlockMoves
  <2>2. CASE \E c \in Chain : PruneBlocks(c)
    BY <2>2, PruneBlocksMoves
  <2>3. CASE AppendBlock
    BY <2>3, AppendBlockMoves
  <2>4. CASE \/ Record \/ RecordRaises \/ UNCHANGED <<registry, chains>>
             \/ \E name \in Used : TakeName(name)
    BY <2>4, RecordMoves
  <2>5. QED
    BY <2>1, <2>2, <2>3, <2>4 DEF InstrumentedNext
<1>3. MovesInv => StateMovesWithBlocks
  BY DEF MovesInv, StateMovesWithBlocks, Ahead, Appending, Shape, Appended
<1>4. QED
  BY <1>1, <1>2, <1>3, PTL DEF InstrumentedSpec

-----------------------------------------------------------------------------
(* What is recorded.                                                          *)

LEMMA NamesInUse ==
  /\ BlocksAdded \in Used /\ CompressionRatio \in Used
  /\ PruningEvents \in Used /\ BlocksPruned \in Used
  /\ Used \subseteq Name
  /\ \A name \in Used : <<name, Plain>> \in Series
  /\ DOMAIN IndexOf = 0 .. MaxBlocks /\ MaxBlocks \in Nat
  /\ \A index \in 0 .. MaxBlocks : <<CompressionRatio, IndexOf[index]>> \in Series
BY InstrumentedAssumption DEF Used, Series

\* A counter that is recorded.
LEMMA CounterRecorded ==
  ASSUME RegistryInv, NEW name \in Used, NEW value \in Nat,
         IncrementCounter(<<name, Plain>>, value)
  PROVE  /\ RegistryInv'
         /\ kinds[name] \in {None, "counter"} /\ kinds'[name] = "counter"
         /\ \A n \in Used : n # name => kinds'[n] = kinds[n]
         /\ gauges' = gauges
         /\ \A n \in Used : n # name => counters'[<<n, Plain>>] = counters[<<n, Plain>>]
         /\ counters[<<name, Plain>>] \in Int \cup {None} =>
               counters'[<<name, Plain>>] = Get(counters[<<name, Plain>>], 0) + value
<1> DEFINE s == <<name, Plain>>
           new == Plus(Get(counters[s], 0), value)
<1>1. s \in Series /\ name \in Name /\ s[1] = name /\ None \notin Int \cup {NaN} \cup Kinds
      /\ NaN \notin Int /\ Used \subseteq Name
  BY NamesInUse, BoundAssumption, NoneAssumption
<1>2. /\ kinds[name] \in {None, "counter"} /\ kinds' = [kinds EXCEPT ![name] = "counter"]
      /\ counters' = [counters EXCEPT ![s] = new] /\ gauges' = gauges
  BY <1>1 DEF IncrementCounter, Register
<1>3. /\ new \in Int \cup {NaN}
      /\ counters[s] \in Int \cup {None} => new = Get(counters[s], 0) + value
  BY <1>1 DEF RegistryInv, Get, Plus
<1> HIDE DEF new
<1>4. /\ kinds' \in [Name -> Kinds \cup {None}] /\ kinds'[name] = "counter"
      /\ \A n \in Name : n # name => kinds'[n] = kinds[n]
  BY <1>1, <1>2 DEF RegistryInv, Kinds
<1>5. /\ counters' \in [Series -> Int \cup {NaN, None}] /\ counters'[s] = new
      /\ \A r \in Series : r # s => counters'[r] = counters[r]
  BY <1>1, <1>2, <1>3 DEF RegistryInv
<1>6. ASSUME NEW r \in Series
      PROVE  /\ counters'[r] # None => kinds'[r[1]] = "counter"
             /\ gauges'[r] # None => kinds'[r[1]] = "gauge"
  <2>1. /\ counters[r] # None => kinds[r[1]] = "counter"
        /\ gauges[r] # None => kinds[r[1]] = "gauge"
        /\ r[1] \in Name
    BY DEF RegistryInv, Series
  <2>2. CASE r[1] # name
    BY <1>1, <1>2, <1>4, <1>5, <2>1, <2>2
  <2>3. CASE r[1] = name
    BY <1>1, <1>2, <1>4, <2>1, <2>3 DEF Kinds
  <2>4. QED
    BY <2>2, <2>3
<1>7. \A n \in Used : kinds'[n] # "histogram"
  BY <1>1, <1>4 DEF RegistryInv
<1>8. RegistryInv'
  BY <1>2, <1>4, <1>5, <1>6, <1>7 DEF RegistryInv
<1>9. \A n \in Used : n # name => <<n, Plain>> \in Series /\ <<n, Plain>> # s
  BY NamesInUse
<1>10. QED
  BY <1>1, <1>2, <1>3, <1>4, <1>5, <1>8, <1>9

\* A gauge that is recorded.
LEMMA GaugeRecorded ==
  ASSUME RegistryInv, NEW s \in Series, s[1] \in Used, NEW value \in Int,
         SetGauge(s, value)
  PROVE  /\ RegistryInv'
         /\ kinds[s[1]] \in {None, "gauge"} /\ kinds'[s[1]] = "gauge"
         /\ \A n \in Used : n # s[1] => kinds'[n] = kinds[n]
         /\ counters' = counters
         /\ gauges'[s] = value /\ gauges'[s] # None
         /\ \A r \in Series : r # s => gauges'[r] = gauges[r]
<1>1. s[1] \in Name /\ None \notin Int \cup {NaN} \cup Kinds /\ Used \subseteq Name
  BY NamesInUse, BoundAssumption, NoneAssumption
<1>2. /\ kinds[s[1]] \in {None, "gauge"} /\ kinds' = [kinds EXCEPT ![s[1]] = "gauge"]
      /\ gauges' = [gauges EXCEPT ![s] = value] /\ counters' = counters
  BY <1>1 DEF SetGauge, Register
<1>3. /\ kinds' \in [Name -> Kinds \cup {None}] /\ kinds'[s[1]] = "gauge"
      /\ \A n \in Name : n # s[1] => kinds'[n] = kinds[n]
  BY <1>1, <1>2 DEF RegistryInv, Kinds
<1>4. /\ gauges' \in [Series -> Int \cup {NaN, None}] /\ gauges'[s] = value
      /\ \A r \in Series : r # s => gauges'[r] = gauges[r]
  BY <1>1, <1>2 DEF RegistryInv
<1>5. ASSUME NEW r \in Series
      PROVE  /\ counters'[r] # None => kinds'[r[1]] = "counter"
             /\ gauges'[r] # None => kinds'[r[1]] = "gauge"
  <2>1. /\ counters[r] # None => kinds[r[1]] = "counter"
        /\ gauges[r] # None => kinds[r[1]] = "gauge"
        /\ r[1] \in Name
    BY DEF RegistryInv, Series
  <2>2. CASE r[1] # s[1]
    BY <1>2, <1>3, <1>4, <2>1, <2>2
  <2>3. CASE r[1] = s[1]
    BY <1>1, <1>2, <1>3, <2>1, <2>3 DEF Kinds
  <2>4. QED
    BY <2>2, <2>3
<1>6. \A n \in Used : kinds'[n] # "histogram"
  BY <1>1, <1>3 DEF RegistryInv
<1>7. RegistryInv'
  BY <1>2, <1>3, <1>4, <1>5, <1>6 DEF RegistryInv
<1>8. gauges'[s] = value /\ gauges'[s] # None
  BY <1>1, <1>4
<1>9. QED
  BY <1>1, <1>2, <1>3, <1>4, <1>7, <1>8

\* What each place of a call still owes.
LEMMA Debts ==
  /\ OwedBlocks(<<>>) = 0 /\ OwedEvents(<<>>) = 0 /\ OwedBodies(<<>>) = 0
  /\ ~Announced(<<>>)
  /\ \A c, index, ratio :
        LET steps == AfterState(c, index, ratio)
        IN  /\ OwedBlocks(steps) = 0 /\ OwedEvents(steps) = 0 /\ OwedBodies(steps) = 0
            /\ ~Announced(steps)
  /\ \A index, ratio :
        LET steps == <<Increment(BlocksAdded, 1), SetRatio(index, ratio)>>
        IN  /\ OwedBlocks(steps) = 1 /\ OwedEvents(steps) = 0 /\ OwedBodies(steps) = 0
            /\ ~Announced(steps)
  /\ \A index, ratio :
        LET steps == <<SetRatio(index, ratio)>>
        IN  /\ OwedBlocks(steps) = 0 /\ OwedEvents(steps) = 0 /\ OwedBodies(steps) = 0
            /\ ~Announced(steps)
  /\ \A n :
        LET steps == <<Increment(PruningEvents, 1), Increment(BlocksPruned, n)>>
        IN  /\ OwedBlocks(steps) = 0 /\ OwedEvents(steps) = 1 /\ OwedBodies(steps) = n
            /\ ~Announced(steps)
  /\ \A n :
        LET steps == <<Increment(BlocksPruned, n)>>
        IN  /\ OwedBlocks(steps) = 0 /\ OwedEvents(steps) = 0 /\ OwedBodies(steps) = n
            /\ Announced(steps)
<1>1. /\ \A name, n : Increment(name, n).op = "counter" /\ Increment(name, n).value = n
      /\ \A index, ratio : SetRatio(index, ratio).op = "gauge"
      /\ \A ratio : Append_(ratio).op = "append"
      /\ Increment(BlocksAdded, 1) # Increment(PruningEvents, 1)
  <2>1. BlocksAdded # PruningEvents
    BY DistinctNames
  <2>2. <<BlocksAdded, Plain>> # <<PruningEvents, Plain>>
    BY <2>1
  <2>3. /\ Increment(BlocksAdded, 1).series = <<BlocksAdded, Plain>>
        /\ Increment(PruningEvents, 1).series = <<PruningEvents, Plain>>
    BY DEF Increment
  <2>4. QED
    BY <2>2, <2>3 DEF Increment, SetRatio, Append_
<1>2. \A x : /\ Len(<<x>>) = 1 /\ Head(<<x>>) = x /\ <<x>>[1] = x /\ <<x>> # <<>>
  OBVIOUS
<1>3. \A x, y : /\ Len(<<x, y>>) = 2 /\ Head(<<x, y>>) = x /\ <<x, y>>[2] = y
                /\ <<x, y>> # <<>>
  OBVIOUS
<1>4. \A x, y, z : Len(<<x, y, z>>) = 3 /\ <<x, y, z>>[3] = z /\ <<x, y, z>> # <<>>
  OBVIOUS
<1>5. Len(<<>>) = 0
  OBVIOUS
<1> USE DEF OwedBlocks, OwedEvents, OwedBodies, Announced
<1>6. /\ OwedBlocks(<<>>) = 0 /\ OwedEvents(<<>>) = 0 /\ OwedBodies(<<>>) = 0
      /\ ~Announced(<<>>)
  BY <1>5
<1>7. ASSUME NEW c, NEW index, NEW ratio
      PROVE  LET steps == AfterState(c, index, ratio)
             IN  /\ OwedBlocks(steps) = 0 /\ OwedEvents(steps) = 0 /\ OwedBodies(steps) = 0
                 /\ ~Announced(steps)
  <2>1. CASE c \in metered
    BY <1>1, <1>4, <2>1 DEF AfterState
  <2>2. CASE c \notin metered
    BY <1>1, <1>2, <2>2 DEF AfterState
  <2>3. QED
    BY <2>1, <2>2
<1>8. ASSUME NEW index, NEW ratio
      PROVE  LET steps == <<Increment(BlocksAdded, 1), SetRatio(index, ratio)>>
             IN  /\ OwedBlocks(steps) = 1 /\ OwedEvents(steps) = 0 /\ OwedBodies(steps) = 0
                 /\ ~Announced(steps)
  BY <1>1, <1>3
<1>9. ASSUME NEW index, NEW ratio
      PROVE  LET steps == <<SetRatio(index, ratio)>>
             IN  /\ OwedBlocks(steps) = 0 /\ OwedEvents(steps) = 0 /\ OwedBodies(steps) = 0
                 /\ ~Announced(steps)
  BY <1>1, <1>2
<1>10. ASSUME NEW n
       PROVE  LET steps == <<Increment(PruningEvents, 1), Increment(BlocksPruned, n)>>
              IN  /\ OwedBlocks(steps) = 0 /\ OwedEvents(steps) = 1 /\ OwedBodies(steps) = n
                  /\ ~Announced(steps)
  BY <1>1, <1>3
<1>11. ASSUME NEW n
       PROVE  LET steps == <<Increment(BlocksPruned, n)>>
              IN  /\ OwedBlocks(steps) = 0 /\ OwedEvents(steps) = 0 /\ OwedBodies(steps) = n
                  /\ Announced(steps)
  BY <1>1, <1>2
<1>12. QED
  BY <1>6, <1>7, <1>8, <1>9, <1>10, <1>11

-----------------------------------------------------------------------------
(* What the chains have done.                                                 *)

BodiesDropped(c) ==
    {i \in DOMAIN pruned[c] : pruned[c][i] /\ ~(i \in DOMAIN loaded[c] /\ loaded[c][i])}

LEMMA DroppedCounts ==
  ASSUME ChainsInv, NEW c \in Chain
  PROVE  /\ IsFiniteSet(BodiesDropped(c)) /\ Dropped(c) = Cardinality(BodiesDropped(c))
         /\ Dropped(c) \in Nat /\ Appended(c) \in Int
         /\ Len(pruned[c]) \in Nat /\ DOMAIN pruned[c] = 1 .. Len(pruned[c])
         /\ Len(loaded[c]) \in Nat /\ DOMAIN loaded[c] = 1 .. Len(loaded[c])
<1>1. /\ pruned[c] \in Seq(BOOLEAN) /\ loaded[c] \in Seq(BOOLEAN)
  BY DEF ChainsInv
<1>2. /\ Len(pruned[c]) \in Nat /\ DOMAIN pruned[c] = 1 .. Len(pruned[c])
      /\ Len(loaded[c]) \in Nat /\ DOMAIN loaded[c] = 1 .. Len(loaded[c])
  BY <1>1
<1>3. IsFiniteSet(BodiesDropped(c))
  <2>1. BodiesDropped(c) \subseteq 1 .. Len(pruned[c])
    BY <1>2 DEF BodiesDropped
  <2>2. Len(pruned[c]) \in Int
    BY <1>2
  <2>3. IsFiniteSet(1 .. Len(pruned[c]))
    BY <2>2, FS_Interval
  <2>4. QED
    BY <2>1, <2>3, FS_Subset
<1>4. QED
  BY <1>2, <1>3, FS_CardinalityType DEF Dropped, BodiesDropped, Appended

LEMMA TotalsAreNumbers ==
  ASSUME ChainsInv
  PROVE  TotalAppended \in Int /\ TotalDropped \in Int
<1> DEFINE f == [c \in Chain |-> Appended(c)]
           g == [c \in Chain |-> Dropped(c)]
<1>1. \A c \in Chain : f[c] \in Int /\ g[c] \in Int
  BY DroppedCounts
<1>2. IsFiniteSet(metered) /\ IsFiniteSet(reporting)
      /\ metered \subseteq Chain /\ reporting \subseteq Chain
  BY InstrumentedAssumption, FS_Subset DEF ChainsInv
<1> HIDE DEF f, g
<1>3. SumFunctionOnSet(f, metered) \in Int /\ SumFunctionOnSet(g, reporting) \in Int
  BY <1>1, <1>2, SumType
<1>4. QED
  BY <1>3 DEF TotalAppended, TotalDropped, f, g

LEMMA SameTotals ==
  ASSUME UNCHANGED <<pruned, loaded, metered, reporting>>
  PROVE  /\ TotalAppended' = TotalAppended /\ TotalDropped' = TotalDropped
         /\ ChainsInv => ChainsInv'
         /\ \A index : AppendedAt(index)' <=> AppendedAt(index)
BY DEF TotalAppended, TotalDropped, Appended, Dropped, ChainsInv, AppendedAt

LEMMA SumMoves ==
  ASSUME NEW S \in SUBSET Chain, NEW c \in Chain, NEW m \in Int, NEW f, NEW F,
         \A d \in Chain : f[d] \in Int /\ F[d] \in Int,
         \A d \in Chain \ {c} : F[d] = f[d], F[c] - f[c] = m
  PROVE  SumFunctionOnSet(F, S) = SumFunctionOnSet(f, S) + (IF c \in S THEN m ELSE 0)
<1>1. IsFiniteSet(S) /\ S \subseteq Chain
  BY InstrumentedAssumption, FS_Subset
<1>2. SumFunctionOnSet(f, S) \in Int
  BY <1>1, SumType
<1>3. CASE c \in S
  <2>1. /\ \A d \in S : f[d] \in Int /\ F[d] \in Int
        /\ \A d \in S \ {c} : F[d] = f[d]
    BY <1>1
  <2>2. SumFunctionOnSet(F, S) = SumFunctionOnSet(f, S) + F[c] - f[c]
    BY <1>1, <1>3, <2>1, SumChange
  <2>3. QED
    BY <1>2, <1>3, <2>2
<1>4. CASE c \notin S
  <2>1. \A d \in S : F[d] = f[d]
    BY <1>1, <1>4
  <2>2. SumFunctionOnSet(F, S) = SumFunctionOnSet(f, S)
    BY <1>1, <2>1, SumSame
  <2>3. QED
    BY <1>2, <1>4, <2>2
<1>5. QED
  BY <1>3, <1>4

\* One chain has done m more, or dropped n more.
LEMMA TotalsMove ==
  ASSUME ChainsInv, ChainsInv', UNCHANGED <<metered, reporting>>,
         NEW c \in Chain, NEW m \in Int, NEW n \in Int,
         Appended(c)' = Appended(c) + m, Dropped(c)' = Dropped(c) + n,
         \A d \in Chain \ {c} : Appended(d)' = Appended(d) /\ Dropped(d)' = Dropped(d)
  PROVE  /\ TotalAppended' = TotalAppended + (IF c \in metered THEN m ELSE 0)
         /\ TotalDropped' = TotalDropped + (IF c \in reporting THEN n ELSE 0)
<1> DEFINE f == [d \in Chain |-> Appended(d)]
           g == [d \in Chain |-> Dropped(d)]
           F == [d \in Chain |-> Appended(d)']
           G == [d \in Chain |-> Dropped(d)']
<1>1. \A d \in Chain : Appended(d) \in Int /\ Dropped(d) \in Int
  BY DroppedCounts
<1>2. \A d \in Chain : f[d] \in Int /\ g[d] \in Int /\ F[d] \in Int /\ G[d] \in Int
  BY <1>1
<1>3. /\ \A d \in Chain \ {c} : F[d] = f[d] /\ G[d] = g[d]
      /\ F[c] - f[c] = m /\ G[c] - g[c] = n
  BY <1>1
<1>4. /\ TotalAppended = SumFunctionOnSet(f, metered)
      /\ TotalAppended' = SumFunctionOnSet(F, metered)
      /\ TotalDropped = SumFunctionOnSet(g, reporting)
      /\ TotalDropped' = SumFunctionOnSet(G, reporting)
  BY DEF TotalAppended, TotalDropped
<1>5. metered \in SUBSET Chain /\ reporting \in SUBSET Chain
  BY DEF ChainsInv
<1> HIDE DEF f, g, F, G
<1>6. SumFunctionOnSet(F, metered)
        = SumFunctionOnSet(f, metered) + (IF c \in metered THEN m ELSE 0)
  <2>1. /\ \A d \in Chain : f[d] \in Int /\ F[d] \in Int
        /\ \A d \in Chain \ {c} : F[d] = f[d]
        /\ F[c] - f[c] = m
    BY <1>2, <1>3
  <2>2. QED
    BY <1>5, <2>1, SumMoves, SMTT(30)
<1>7. SumFunctionOnSet(G, reporting)
        = SumFunctionOnSet(g, reporting) + (IF c \in reporting THEN n ELSE 0)
  <2>1. /\ \A d \in Chain : g[d] \in Int /\ G[d] \in Int
        /\ \A d \in Chain \ {c} : G[d] = g[d]
        /\ G[c] - g[c] = n
    BY <1>2, <1>3
  <2>2. QED
    BY <1>5, <2>1, SumMoves, SMTT(30)
<1>8. QED
  BY <1>4, <1>6, <1>7

LEMMA OneBlockMore ==
  ASSUME NEW old \in Seq(BOOLEAN)
  PROVE  LET new == Append(old, FALSE)
         IN  /\ new \in Seq(BOOLEAN) /\ Len(new) = Len(old) + 1
             /\ DOMAIN new = 1 .. Len(old) + 1
             /\ \A i \in 1 .. Len(old) : new[i] = old[i]
             /\ new[Len(old) + 1] = FALSE
OBVIOUS

LEMMA TotalsAfterAppend ==
  ASSUME ChainsInv, NEW c \in Chain, UNCHANGED <<loaded, metered, reporting>>,
         pruned' = [pruned EXCEPT ![c] = Append(@, FALSE)]
  PROVE  /\ ChainsInv'
         /\ TotalAppended' = TotalAppended + (IF c \in metered THEN 1 ELSE 0)
         /\ TotalDropped' = TotalDropped
         /\ Len(pruned'[c]) = Len(pruned[c]) + 1
         /\ \A d \in Chain : d # c => pruned'[d] = pruned[d]
<1> DEFINE new == Append(pruned[c], FALSE)
<1>1. /\ pruned[c] \in Seq(BOOLEAN) /\ Len(pruned[c]) \in Nat
      /\ Len(loaded[c]) \in Nat /\ DOMAIN loaded[c] = 1 .. Len(loaded[c])
  BY DroppedCounts DEF ChainsInv
<1>2. /\ new \in Seq(BOOLEAN) /\ Len(new) = Len(pruned[c]) + 1
      /\ DOMAIN new = 1 .. Len(pruned[c]) + 1
      /\ \A i \in 1 .. Len(pruned[c]) : new[i] = pruned[c][i]
      /\ new[Len(pruned[c]) + 1] = FALSE
  BY <1>1, OneBlockMore
<1>3. /\ pruned' \in [Chain -> Seq(BOOLEAN)] /\ pruned'[c] = new
      /\ \A d \in Chain : d # c => pruned'[d] = pruned[d]
  BY <1>2 DEF ChainsInv
<1> HIDE DEF new
<1>4. ASSUME NEW d \in Chain
      PROVE  /\ Len(loaded'[d]) <= Len(pruned'[d])
             /\ \A i \in DOMAIN loaded'[d] : loaded'[d][i] => pruned'[d][i]
  <2>1. /\ Len(loaded[d]) <= Len(pruned[d])
        /\ \A i \in DOMAIN loaded[d] : loaded[d][i] => pruned[d][i]
    BY DEF ChainsInv
  <2>2. CASE d # c
    BY <1>3, <2>1, <2>2
  <2>3. CASE d = c
    <3>1. \A i \in DOMAIN loaded[d] : i \in 1 .. Len(pruned[c])
      BY <1>1, <2>1, <2>3
    <3>2. QED
      BY <1>1, <1>2, <1>3, <2>1, <2>3, <3>1
  <2>4. QED
    BY <2>2, <2>3
<1>5. ChainsInv'
  BY <1>3, <1>4 DEF ChainsInv
<1>6. \A d \in Chain \ {c} : Appended(d)' = Appended(d) /\ Dropped(d)' = Dropped(d)
  BY <1>3 DEF Appended, Dropped
<1>7. Appended(c)' = Appended(c) + 1
  BY <1>1, <1>2, <1>3 DEF Appended
<1>8. Dropped(c)' = Dropped(c) + 0
  <2>1. BodiesDropped(c)' = BodiesDropped(c)
    <3>1. DOMAIN pruned[c] = 1 .. Len(pruned[c])
      BY <1>1
    <3>2. ASSUME NEW i
          PROVE  i \in DOMAIN new /\ new[i] <=> i \in DOMAIN pruned[c] /\ pruned[c][i]
      BY <1>1, <1>2, <3>1
    <3>3. QED
      BY <1>3, <3>2 DEF BodiesDropped
  <2>2. Dropped(c) \in Nat /\ Dropped(c) = Cardinality(BodiesDropped(c))
    BY DroppedCounts
  <2>3. Dropped(c)' = Cardinality(BodiesDropped(c)')
    BY DEF Dropped, BodiesDropped
  <2>4. QED
    BY <2>1, <2>2, <2>3
<1>9. /\ TotalAppended' = TotalAppended + (IF c \in metered THEN 1 ELSE 0)
      /\ TotalDropped' = TotalDropped + (IF c \in reporting THEN 0 ELSE 0)
  <2>1. 1 \in Int /\ 0 \in Int
    OBVIOUS
  <2>2. QED
    BY <1>5, <1>6, <1>7, <1>8, <2>1, TotalsMove
<1>10. QED
  BY <1>2, <1>3, <1>5, <1>9, TotalsAreNumbers

LEMMA TotalsAfterPrune ==
  ASSUME ChainsInv, NEW c \in Chain, UNCHANGED <<loaded, metered, reporting>>,
         pruned' = [pruned EXCEPT ![c] = [i \in DOMAIN @ |-> @[i] \/ i \in NewlyPruned(c)]]
  PROVE  /\ ChainsInv'
         /\ Cardinality(NewlyPruned(c)) \in Nat
         /\ NewlyPruned(c) # {} => Cardinality(NewlyPruned(c)) # 0
         /\ TotalAppended' = TotalAppended
         /\ TotalDropped' = TotalDropped
               + (IF c \in reporting THEN Cardinality(NewlyPruned(c)) ELSE 0)
         /\ \A d \in Chain : Len(pruned'[d]) = Len(pruned[d])
<1> DEFINE new == [i \in 1 .. Len(pruned[c]) |-> pruned[c][i] \/ i \in NewlyPruned(c)]
<1>1. /\ pruned[c] \in Seq(BOOLEAN) /\ Len(pruned[c]) \in Nat
      /\ DOMAIN pruned[c] = 1 .. Len(pruned[c])
      /\ Len(loaded[c]) \in Nat /\ DOMAIN loaded[c] = 1 .. Len(loaded[c])
      /\ Len(loaded[c]) <= Len(pruned[c])
      /\ \A i \in DOMAIN loaded[c] : loaded[c][i] => pruned[c][i]
  BY DroppedCounts DEF ChainsInv
<1>2. /\ new \in Seq(BOOLEAN) /\ Len(new) = Len(pruned[c])
      /\ DOMAIN new = 1 .. Len(pruned[c])
  <2>1. \A i \in 1 .. Len(pruned[c]) : (pruned[c][i] \/ i \in NewlyPruned(c)) \in BOOLEAN
    OBVIOUS
  <2>2. QED
    BY <1>1, <2>1
<1>3. \A i \in 1 .. Len(pruned[c]) : new[i] <=> pruned[c][i] \/ i \in NewlyPruned(c)
  OBVIOUS
<1>4. pruned' = [pruned EXCEPT ![c] = new]
  BY <1>1
<1> HIDE DEF new
<1>5. /\ pruned' \in [Chain -> Seq(BOOLEAN)] /\ pruned'[c] = new
      /\ \A d \in Chain : d # c => pruned'[d] = pruned[d]
  BY <1>2, <1>4 DEF ChainsInv
<1>6. ASSUME NEW d \in Chain
      PROVE  /\ Len(loaded'[d]) <= Len(pruned'[d])
             /\ \A i \in DOMAIN loaded'[d] : loaded'[d][i] => pruned'[d][i]
  <2>1. /\ Len(loaded[d]) <= Len(pruned[d])
        /\ \A i \in DOMAIN loaded[d] : loaded[d][i] => pruned[d][i]
    BY DEF ChainsInv
  <2>2. CASE d # c
    BY <1>5, <2>1, <2>2
  <2>3. CASE d = c
    <3>1. \A i \in DOMAIN loaded[c] : i \in 1 .. Len(pruned[c])
      BY <1>1
    <3>2. QED
      BY <1>1, <1>2, <1>3, <1>5, <2>3, <3>1
  <2>4. QED
    BY <2>2, <2>3
<1>7. ChainsInv'
  BY <1>5, <1>6 DEF ChainsInv
<1>8. /\ NewlyPruned(c) \subseteq 1 .. Len(pruned[c]) /\ IsFiniteSet(NewlyPruned(c))
      /\ \A i \in NewlyPruned(c) : ~pruned[c][i]
  <2>1. Cutoff(c) \in Int /\ Cutoff(c) <= Len(pruned[c])
    BY <1>1, InstrumentedAssumption DEF Cutoff
  <2>2. NewlyPruned(c) \subseteq 1 .. Cutoff(c) /\ \A i \in NewlyPruned(c) : ~pruned[c][i]
    BY DEF NewlyPruned
  <2>3. IsFiniteSet(1 .. Cutoff(c))
    BY <2>1, FS_Interval
  <2>4. 1 .. Cutoff(c) \subseteq 1 .. Len(pruned[c])
    BY <1>1, <2>1
  <2>5. QED
    BY <2>2, <2>3, <2>4, FS_Subset
<1>9. /\ Cardinality(NewlyPruned(c)) \in Nat
      /\ NewlyPruned(c) # {} => Cardinality(NewlyPruned(c)) # 0
  BY <1>8, FS_CardinalityType, FS_EmptySet
<1>10. \A d \in Chain \ {c} : Appended(d)' = Appended(d) /\ Dropped(d)' = Dropped(d)
  BY <1>5 DEF Appended, Dropped
<1>11. Appended(c)' = Appended(c) + 0
  BY <1>1, <1>2, <1>5 DEF Appended
<1>12. Dropped(c)' = Dropped(c) + Cardinality(NewlyPruned(c))
  <2>1. BodiesDropped(c)' = BodiesDropped(c) \cup NewlyPruned(c)
    <3>1. \A i \in NewlyPruned(c) : ~(i \in DOMAIN loaded[c] /\ loaded[c][i])
      BY <1>1, <1>8
    <3>2. BodiesDropped(c)' = {i \in DOMAIN new : new[i] /\ ~(i \in DOMAIN loaded[c] /\ loaded[c][i])}
      BY <1>5 DEF BodiesDropped
    <3>3. QED
      BY <1>1, <1>2, <1>3, <1>8, <3>1, <3>2 DEF BodiesDropped
  <2>2. BodiesDropped(c) \cap NewlyPruned(c) = {}
    BY <1>8 DEF BodiesDropped
  <2>3. IsFiniteSet(BodiesDropped(c))
    BY DroppedCounts
  <2>4. Cardinality(BodiesDropped(c) \cup NewlyPruned(c))
          = Cardinality(BodiesDropped(c)) + Cardinality(NewlyPruned(c))
    <3> DEFINE A == BodiesDropped(c)
               B == NewlyPruned(c)
    <3>1. IsFiniteSet(A) /\ IsFiniteSet(B) /\ A \cap B = {}
      BY <1>8, <2>2, <2>3
    <3> HIDE DEF A, B
    <3>2. Cardinality(A) \in Nat /\ Cardinality(B) \in Nat /\ Cardinality({}) = 0
      BY <3>1, FS_CardinalityType, FS_EmptySet
    <3>3. Cardinality(A \cup B) = Cardinality(A) + Cardinality(B) - Cardinality(A \cap B)
      BY <3>1, FS_Union
    <3>4. Cardinality(A \cap B) = 0
      BY <3>1, <3>2
    <3>5. Cardinality(A \cup B) = Cardinality(A) + Cardinality(B)
      BY <3>2, <3>3, <3>4
    <3>6. QED
      BY <3>5 DEF A, B
  <2>5. Dropped(c) = Cardinality(BodiesDropped(c))
    BY DroppedCounts
  <2>6. Dropped(c)' = Cardinality(BodiesDropped(c)')
    BY DEF Dropped, BodiesDropped
  <2>7. QED
    BY <2>1, <2>4, <2>5, <2>6
<1>13. /\ TotalAppended' = TotalAppended + (IF c \in metered THEN 0 ELSE 0)
       /\ TotalDropped' = TotalDropped
             + (IF c \in reporting THEN Cardinality(NewlyPruned(c)) ELSE 0)
  <2> DEFINE n == Cardinality(NewlyPruned(c))
  <2>1. n \in Int /\ Dropped(c)' = Dropped(c) + n
    BY <1>9, <1>12
  <2> HIDE DEF n
  <2>2. /\ TotalAppended' = TotalAppended + (IF c \in metered THEN 0 ELSE 0)
        /\ TotalDropped' = TotalDropped + (IF c \in reporting THEN n ELSE 0)
    BY <1>7, <1>10, <1>11, <2>1, TotalsMove
  <2>3. QED
    BY <2>2 DEF n
<1>14. \A d \in Chain : Len(pruned'[d]) = Len(pruned[d])
  BY <1>2, <1>5
<1>15. QED
  BY <1>7, <1>9, <1>13, <1>14, TotalsAreNumbers

-----------------------------------------------------------------------------
(* The places of a call.                                                      *)

LEMMA Forms ==
  /\ \A c, index, ratio :
        /\ AfterState(c, index, ratio) # <<>>
        /\ Head(AfterState(c, index, ratio)) = Append_(ratio)
        /\ Tail(AfterState(c, index, ratio)) =
              IF c \in metered THEN <<Increment(BlocksAdded, 1), SetRatio(index, ratio)>>
              ELSE <<>>
  /\ \A x, y : /\ <<x, y>> # <<>> /\ Len(<<x, y>>) = 2 /\ Head(<<x, y>>) = x
               /\ Tail(<<x, y>>) = <<y>>
  /\ \A x : <<x>> # <<>> /\ Len(<<x>>) = 1 /\ Head(<<x>>) = x /\ Tail(<<x>>) = <<>>
  /\ \A ratio : Append_(ratio).op = "append" /\ Append_(ratio).ratio = ratio
  /\ \A name, n : /\ Increment(name, n).op = "counter" /\ Increment(name, n).value = n
                  /\ Increment(name, n).series = <<name, Plain>>
  /\ \A index, ratio :
        /\ SetRatio(index, ratio).op = "gauge" /\ SetRatio(index, ratio).value = ratio
        /\ SetRatio(index, ratio).series = <<CompressionRatio, IndexOf[index]>>
<1>1. /\ \A name, n : /\ Increment(name, n).op = "counter" /\ Increment(name, n).value = n
                      /\ Increment(name, n).series = <<name, Plain>>
      /\ \A index, ratio :
            /\ SetRatio(index, ratio).op = "gauge" /\ SetRatio(index, ratio).value = ratio
            /\ SetRatio(index, ratio).series = <<CompressionRatio, IndexOf[index]>>
      /\ \A ratio : Append_(ratio).op = "append" /\ Append_(ratio).ratio = ratio
  BY DEF Increment, SetRatio, Append_
<1>2. \A x, y, z : /\ <<x, y, z>> # <<>> /\ Head(<<x, y, z>>) = x
                   /\ Tail(<<x, y, z>>) = <<y, z>>
  OBVIOUS
<1>3. \A x, y : /\ <<x, y>> # <<>> /\ Len(<<x, y>>) = 2 /\ Head(<<x, y>>) = x
                /\ Tail(<<x, y>>) = <<y>>
  OBVIOUS
<1>4. \A x : <<x>> # <<>> /\ Len(<<x>>) = 1 /\ Head(<<x>>) = x /\ Tail(<<x>>) = <<>>
  OBVIOUS
<1>5. ASSUME NEW c, NEW index, NEW ratio
      PROVE  /\ AfterState(c, index, ratio) # <<>>
             /\ Head(AfterState(c, index, ratio)) = Append_(ratio)
             /\ Tail(AfterState(c, index, ratio)) =
                   IF c \in metered
                   THEN <<Increment(BlocksAdded, 1), SetRatio(index, ratio)>>
                   ELSE <<>>
  <2>1. CASE c \in metered
    BY <1>2, <2>1 DEF AfterState
  <2>2. CASE c \notin metered
    BY <1>4, <2>2 DEF AfterState
  <2>3. QED
    BY <2>1, <2>2
<1>6. QED
  BY <1>1, <1>3, <1>4, <1>5

\* Where a call can be when it records.
LEMMA PlacesOfRecords ==
  ASSUME PlaceInv, todo # <<>>, Head(todo).op # "append"
  PROVE  \/ current \in Chain /\ \E index \in 0 .. MaxBlocks - 1 : Added(index)
         \/ current \in Chain /\ \E index \in 0 .. MaxBlocks - 1 : Counted(index)
         \/ \E n \in Nat \ {0} :
               todo = <<Increment(PruningEvents, 1), Increment(BlocksPruned, n)>>
         \/ \E n \in Nat \ {0} : todo = <<Increment(BlocksPruned, n)>>
<1>1. \A index : ~Adding(index)
  <2>1. \A index, ratio : todo # AfterState(current, index, ratio)
    BY Forms
  <2>2. QED
    BY <2>1 DEF Adding
<1>2. QED
  BY <1>1 DEF PlaceInv, Recording

\* Where it is when it appends.
LEMMA PlaceOfAppend ==
  ASSUME PlaceInv, todo # <<>>, Head(todo).op = "append"
  PROVE  current \in Chain /\ \E index \in 0 .. MaxBlocks - 1 : Adding(index)
<1>1. \A index : ~Added(index)
  <2> SUFFICES ASSUME NEW index, Added(index) PROVE FALSE
    OBVIOUS
  <2>1. Head(todo) = Increment(BlocksAdded, 1)
    BY Forms DEF Added
  <2>2. QED
    BY <2>1, Forms
<1>2. \A index : ~Counted(index)
  <2> SUFFICES ASSUME NEW index, Counted(index) PROVE FALSE
    OBVIOUS
  <2>1. Head(todo) = SetRatio(index, latest[index])
    BY Forms DEF Counted
  <2>2. QED
    BY <2>1, Forms
<1>3. \A n : ~Recording(n)
  <2> SUFFICES ASSUME NEW n, Recording(n) PROVE FALSE
    OBVIOUS
  <2>1. Head(todo) = Increment(PruningEvents, 1) \/ Head(todo) = Increment(BlocksPruned, n)
    BY Forms DEF Recording
  <2>2. QED
    BY <2>1, Forms
<1>4. QED
  BY <1>1, <1>2, <1>3 DEF PlaceInv

\* Nothing of a call that counted its block is left when it ends.
LEMMA NotCountedAtEnd == ASSUME todo' = <<>> PROVE \A index : ~Counted(index)'
<1>1. \A index, ratio : <<SetRatio(index, ratio)>> # <<>>
  BY Forms
<1>2. QED
  BY <1>1 DEF Counted

\* Only add_block is at the places of add_block.
LEMMA NotAdding ==
  ASSUME todo = <<>> \/ (todo # <<>> /\ Head(todo).op = "append")
           \/ \E n : \/ todo = <<Increment(PruningEvents, 1), Increment(BlocksPruned, n)>>
                     \/ todo = <<Increment(BlocksPruned, n)>>
  PROVE  \A index : ~Added(index) /\ ~Counted(index)
<1> SUFFICES ASSUME NEW index PROVE ~Added(index) /\ ~Counted(index)
  OBVIOUS
<1>1. Added(index) => todo # <<>> /\ Head(todo) = Increment(BlocksAdded, 1) /\ Len(todo) = 2
  BY Forms DEF Added
<1>2. Counted(index) =>
        todo # <<>> /\ Head(todo) = SetRatio(index, latest[index]) /\ Len(todo) = 1
  BY Forms DEF Counted
<1>3. CASE todo = <<>> \/ (todo # <<>> /\ Head(todo).op = "append")
  BY <1>1, <1>2, <1>3, Forms
<1>4. ASSUME NEW n, todo = <<Increment(PruningEvents, 1), Increment(BlocksPruned, n)>>
      PROVE  ~Added(index) /\ ~Counted(index)
  <2>1. Len(todo) = 2 /\ Head(todo) = Increment(PruningEvents, 1)
    BY <1>4, Forms
  <2>2. <<PruningEvents, Plain>> # <<BlocksAdded, Plain>>
    BY DistinctNames
  <2>3. Increment(PruningEvents, 1) # Increment(BlocksAdded, 1)
    BY <2>2, Forms
  <2>4. QED
    BY <1>1, <1>2, <2>1, <2>3
<1>5. ASSUME NEW n, todo = <<Increment(BlocksPruned, n)>>
      PROVE  ~Added(index) /\ ~Counted(index)
  <2>1. Len(todo) = 1 /\ Head(todo) = Increment(BlocksPruned, n)
    BY <1>5, Forms
  <2>2. QED
    BY <1>1, <1>2, <2>1, Forms
<1>6. QED
  BY <1>3, <1>4, <1>5

-----------------------------------------------------------------------------
(* The records are exact: one lemma per action.                               *)

LEMMA InitRecords == InstrumentedInit => RecordsInv
<1> SUFFICES ASSUME InstrumentedInit PROVE RecordsInv
  OBVIOUS
<1>1. /\ kinds = [n \in Name |-> None] /\ counters = [s \in Series |-> None]
      /\ gauges = [s \in Series |-> None] /\ todo = <<>>
      /\ loaded \in [Chain -> Seq(BOOLEAN)] /\ pruned = loaded
      /\ metered \subseteq Chain /\ reporting \subseteq Chain
      /\ latest = [i \in DOMAIN IndexOf |-> None]
  BY InstrumentedAssumption DEF InstrumentedInit, Init
<1>2. None \notin Kinds
  BY NoneAssumption
<1>3. RegistryInv
  BY <1>1, <1>2, NamesInUse DEF RegistryInv, Kinds, Series
<1>4. ChainsInv
  BY <1>1 DEF ChainsInv
<1>5. PlaceInv
  BY <1>1 DEF PlaceInv
<1>6. TotalAppended = 0 /\ TotalDropped = 0
  <2> DEFINE f == [c \in Chain |-> Appended(c)]
             g == [c \in Chain |-> Dropped(c)]
  <2>1. ASSUME NEW c \in Chain PROVE f[c] = 0 /\ g[c] = 0
    <3>1. Len(loaded[c]) \in Nat
      BY <1>4, DroppedCounts
    <3>2. BodiesDropped(c) = {}
      BY <1>1 DEF BodiesDropped
    <3>3. QED
      BY <1>1, <1>4, <3>1, <3>2, DroppedCounts, FS_EmptySet DEF Appended
  <2>2. IsFiniteSet(metered) /\ IsFiniteSet(reporting)
    BY <1>1, InstrumentedAssumption, FS_Subset
  <2> HIDE DEF f, g
  <2>3. /\ \A c \in metered : f[c] = 0
        /\ \A c \in reporting : g[c] = 0
    BY <1>1, <2>1
  <2>4. SumFunctionOnSet(f, metered) = 0
    BY <2>2, <2>3, SumZeros
  <2>5. SumFunctionOnSet(g, reporting) = 0
    BY <2>2, <2>3, SumZeros
  <2>6. QED
    BY <2>4, <2>5 DEF TotalAppended, TotalDropped, f, g
<1>7. CountersInv
  <2>1. /\ counters[<<BlocksAdded, Plain>>] = None
        /\ counters[<<PruningEvents, Plain>>] = None
        /\ counters[<<BlocksPruned, Plain>>] = None
    BY <1>1, NamesInUse
  <2>2. /\ OwedBlocks(todo) = 0 /\ OwedEvents(todo) = 0 /\ OwedBodies(todo) = 0
        /\ ~Announced(todo)
    BY <1>1, Debts
  <2>3. QED
    BY <1>6, <2>1, <2>2 DEF CountersInv, CountsUpTo, Get
<1>8. RatiosInv
  <2>1. \A index \in DOMAIN IndexOf : ~HasRatio(index)
    BY <1>1, NamesInUse DEF HasRatio, Ratio
  <2>2. \A index \in DOMAIN IndexOf : ~AppendedAt(index)
    <3>1. \A c \in Chain : Len(loaded[c]) \in Nat
      BY <1>4, DroppedCounts
    <3>2. QED
      BY <1>1, <3>1, NamesInUse DEF AppendedAt
  <2>3. \A index : ~Counted(index)
    BY <1>1, NotAdding
  <2>4. QED
    BY <1>1, <2>1, <2>2, <2>3 DEF RatiosInv
<1>9. QED
  BY <1>3, <1>4, <1>5, <1>7, <1>8 DEF RecordsInv

\* A call that is not at a place of add_block does not move the ratios.
LEMMA RatiosKept ==
  ASSUME RatiosInv, UNCHANGED <<pruned, loaded, metered, gauges, latest>>,
         kinds'[BlocksAdded] = kinds[BlocksAdded],
         kinds'[CompressionRatio] = kinds[CompressionRatio],
         \A index : ~Added(index) /\ ~Counted(index), \A index : ~Counted(index)'
  PROVE  RatiosInv'
<1>1. \A index : /\ HasRatio(index)' <=> HasRatio(index)
                 /\ Ratio(index)' = Ratio(index)
                 /\ AppendedAt(index)' <=> AppendedAt(index)
  BY DEF HasRatio, Ratio, AppendedAt
<1>2. QED
  BY <1>1 DEF RatiosInv

LEMMA AddBlockRecords ==
  ASSUME RecordsInv, NEW c \in Chain, AddBlock(c)
  PROVE  RecordsInv'
<1>0. PICK ratio \in Number : todo' = AfterState(c, Len(pruned[c]), ratio)
  BY DEF AddBlock
<1>1. /\ todo = <<>> /\ current' = c /\ latest' = latest
      /\ Len(pruned[c]) < MaxBlocks /\ pruned' = pruned
      /\ loaded' = loaded /\ metered' = metered /\ reporting' = reporting
      /\ kinds' = kinds /\ counters' = counters /\ gauges' = gauges
  BY DEF AddBlock, registry, vars, given
<1>2. RegistryInv' /\ ChainsInv /\ ChainsInv'
  BY <1>1 DEF RecordsInv, RegistryInv, ChainsInv
<1>3. /\ TotalAppended' = TotalAppended /\ TotalDropped' = TotalDropped
      /\ \A index : AppendedAt(index)' <=> AppendedAt(index)
  BY <1>1, SameTotals
<1>4. /\ OwedBlocks(todo) = 0 /\ OwedEvents(todo) = 0 /\ OwedBodies(todo) = 0
      /\ OwedBlocks(todo') = 0 /\ OwedEvents(todo') = 0 /\ OwedBodies(todo') = 0
      /\ ~Announced(todo')
  <2>1. /\ OwedBlocks(todo) = 0 /\ OwedEvents(todo) = 0 /\ OwedBodies(todo) = 0
    BY <1>1, Debts
  <2>2. /\ OwedBlocks(todo') = 0 /\ OwedEvents(todo') = 0 /\ OwedBodies(todo') = 0
        /\ ~Announced(todo')
    BY <1>0, Debts
  <2>3. QED
    BY <2>1, <2>2
<1>5. PlaceInv'
  <2>1. Len(pruned[c]) \in 0 .. MaxBlocks - 1
    BY <1>1, <1>2, DroppedCounts, NamesInUse
  <2>2. AfterState(c, Len(pruned[c]), ratio)' = AfterState(c, Len(pruned[c]), ratio)
    BY <1>1 DEF AfterState
  <2>3. Adding(Len(pruned[c]))'
    BY <1>0, <1>1, <2>2 DEF Adding, AfterState
  <2>4. QED
    BY <1>1, <2>1, <2>3 DEF PlaceInv
<1>6. CountersInv'
  BY <1>1, <1>3, <1>4 DEF RecordsInv, CountersInv, CountsUpTo
<1>7. RatiosInv'
  <2>1. \A index : ~Added(index) /\ ~Counted(index)
    BY <1>1, NotAdding
  <2>2. \A index : ~Counted(index)'
    <3>1. /\ todo' # <<>> /\ Head(todo').op = "append"
      BY <1>0, Forms
    <3>2. \A index, r : Head(<<SetRatio(index, r)>>).op = "gauge"
      BY Forms
    <3>3. QED
      BY <3>1, <3>2 DEF Counted
  <2>3. QED
    BY <1>1, <2>1, <2>2, RatiosKept DEF RecordsInv
<1>8. QED
  BY <1>2, <1>5, <1>6, <1>7 DEF RecordsInv

LEMMA PruneBlocksRecords ==
  ASSUME RecordsInv, NEW c \in Chain, PruneBlocks(c)
  PROVE  RecordsInv'
<1>0. PICK n : n = IF c \in reporting THEN Cardinality(NewlyPruned(c)) ELSE 0
  OBVIOUS
<1>1. /\ todo = <<>> /\ current' = c /\ latest' = latest
      /\ loaded' = loaded /\ metered' = metered /\ reporting' = reporting
      /\ kinds' = kinds /\ counters' = counters /\ gauges' = gauges
      /\ pruned' = [pruned EXCEPT ![c] = [i \in DOMAIN @ |-> @[i] \/ i \in NewlyPruned(c)]]
  BY DEF PruneBlocks, registry, vars, given
<1>2. RegistryInv' /\ ChainsInv
  BY <1>1 DEF RecordsInv, RegistryInv
<1>3. /\ ChainsInv' /\ n \in Nat
      /\ c \in reporting /\ NewlyPruned(c) # {} => n # 0
      /\ TotalAppended' = TotalAppended /\ TotalDropped' = TotalDropped + n
      /\ \A d \in Chain : Len(pruned'[d]) = Len(pruned[d])
  BY <1>0, <1>1, <1>2, TotalsAfterPrune
<1>4. /\ n = 0 => todo' = <<>>
      /\ n # 0 => todo' = <<Increment(PruningEvents, 1), Increment(BlocksPruned, n)>>
  <2>1. NewlyPruned(c) = {} => n = 0
    BY <1>0, FS_EmptySet
  <2>2. QED
    BY <1>0, <1>3, <2>1 DEF PruneBlocks
<1>5. /\ OwedBlocks(todo) = 0 /\ OwedEvents(todo) = 0 /\ OwedBodies(todo) = 0
      /\ OwedBlocks(todo') = 0 /\ OwedBodies(todo') = n
      /\ OwedEvents(todo') = (IF n = 0 THEN 0 ELSE 1)
      /\ ~Announced(todo')
  BY <1>1, <1>3, <1>4, Debts
<1>6. PlaceInv'
  <2>1. CASE n = 0
    BY <1>4, <2>1 DEF PlaceInv
  <2>2. CASE n # 0
    <3>1. Recording(n)'
      BY <1>4, <2>2 DEF Recording
    <3>2. OwedBodies(todo)' = n /\ n \in Nat \ {0}
      BY <1>3, <1>5, <2>2
    <3>3. QED
      BY <3>1, <3>2 DEF PlaceInv, Recording
  <2>3. QED
    BY <2>1, <2>2
<1>7. CountersInv'
  <2>1. TotalDropped \in Int /\ TotalAppended \in Int
    BY <1>2, TotalsAreNumbers
  <2>2. /\ TotalAppended' - OwedBlocks(todo') = TotalAppended - OwedBlocks(todo)
        /\ TotalDropped' - OwedBodies(todo') = TotalDropped - OwedBodies(todo)
        /\ TotalDropped - OwedEvents(todo) <= TotalDropped' - OwedEvents(todo')
    BY <1>3, <1>5, <2>1
  <2>3. /\ CountsUpTo(BlocksAdded, TotalAppended - OwedBlocks(todo), BlocksAdded)
        /\ CountsUpTo(BlocksPruned, TotalDropped - OwedBodies(todo), PruningEvents)
        /\ counters[<<PruningEvents, Plain>>] \in Int \cup {None}
        /\ Get(counters[<<PruningEvents, Plain>>], 0) <= TotalDropped - OwedEvents(todo)
        /\ counters[<<BlocksPruned, Plain>>] # None => kinds[PruningEvents] = "counter"
    BY DEF RecordsInv, CountersInv
  <2>4. CountsUpTo(BlocksAdded, TotalAppended - OwedBlocks(todo), BlocksAdded)'
    BY <1>1, <2>2, <2>3 DEF CountsUpTo
  <2>5. CountsUpTo(BlocksPruned, TotalDropped - OwedBodies(todo), PruningEvents)'
    BY <1>1, <2>2, <2>3 DEF CountsUpTo
  <2>6. Get(counters'[<<PruningEvents, Plain>>], 0) <= TotalDropped' - OwedEvents(todo')
    <3>1. Get(counters[<<PruningEvents, Plain>>], 0) \in Int
      BY <2>3 DEF Get
    <3>2. QED
      BY <1>1, <1>3, <1>5, <2>1, <2>2, <2>3, <3>1
  <2>7. QED
    BY <1>1, <1>5, <2>3, <2>4, <2>5, <2>6 DEF CountersInv
<1>8. RatiosInv'
  <2>1. \A index : ~Added(index) /\ ~Counted(index)
    BY <1>1, NotAdding
  <2>2. \A index : ~Counted(index)'
    <3> SUFFICES ASSUME NEW index, Counted(index)' PROVE FALSE
      OBVIOUS
    <3>1. todo' = <<SetRatio(index, latest'[index])>>
      BY DEF Counted
    <3>2. todo' # <<>> /\ Len(todo') = 1
      BY <3>1, Forms
    <3>3. todo' # <<>> => Len(todo') = 2
      BY <1>4, Forms
    <3>4. QED
      BY <3>2, <3>3
  <2>3. /\ \A index : HasRatio(index)' <=> HasRatio(index)
        /\ \A index : Ratio(index)' = Ratio(index)
        /\ \A index : AppendedAt(index)' <=> AppendedAt(index)
    <3>1. metered \subseteq Chain
      BY <1>2 DEF ChainsInv
    <3>2. QED
      BY <1>1, <1>3, <3>1 DEF HasRatio, Ratio, AppendedAt
  <2>4. QED
    BY <1>1, <2>1, <2>2, <2>3 DEF RecordsInv, RatiosInv
<1>9. QED
  BY <1>2, <1>3, <1>6, <1>7, <1>8 DEF RecordsInv

LEMMA AppendBlockRecords ==
  ASSUME RecordsInv, AppendBlock
  PROVE  RecordsInv'
<1>1. /\ todo # <<>> /\ Head(todo).op = "append" /\ todo' = Tail(todo)
      /\ pruned' = [pruned EXCEPT ![current] = Append(@, FALSE)]
      /\ loaded' = loaded /\ metered' = metered /\ reporting' = reporting
      /\ current' = current
      /\ kinds' = kinds /\ counters' = counters /\ gauges' = gauges
  BY DEF AppendBlock, registry, vars, given
<1>2. current \in Chain /\ RegistryInv' /\ ChainsInv
  BY <1>1, PlaceOfAppend DEF RecordsInv, RegistryInv
<1>3. PICK index \in 0 .. MaxBlocks - 1 : Adding(index)
  BY <1>1, PlaceOfAppend DEF RecordsInv
<1>4. PICK ratio \in Number : todo = AfterState(current, index, ratio)
  BY <1>3 DEF Adding
<1>5. /\ Len(pruned[current]) = index /\ Head(todo).ratio = ratio
      /\ todo' = IF current \in metered
                 THEN <<Increment(BlocksAdded, 1), SetRatio(index, ratio)>>
                 ELSE <<>>
  BY <1>1, <1>3, <1>4, Forms DEF Adding
<1>6. latest' = IF current \in metered THEN [latest EXCEPT ![index] = ratio] ELSE latest
  BY <1>5 DEF AppendBlock
<1>7. /\ ChainsInv'
      /\ TotalAppended' = TotalAppended + (IF current \in metered THEN 1 ELSE 0)
      /\ TotalDropped' = TotalDropped
      /\ Len(pruned'[current]) = Len(pruned[current]) + 1
      /\ \A d \in Chain : d # current => pruned'[d] = pruned[d]
  BY <1>1, <1>2, TotalsAfterAppend
<1>8. /\ OwedBlocks(todo) = 0 /\ OwedEvents(todo) = 0 /\ OwedBodies(todo) = 0
      /\ OwedBlocks(todo') = (IF current \in metered THEN 1 ELSE 0)
      /\ OwedEvents(todo') = 0 /\ OwedBodies(todo') = 0
      /\ ~Announced(todo')
  <2>1. OwedBlocks(todo) = 0 /\ OwedEvents(todo) = 0 /\ OwedBodies(todo) = 0
    BY <1>4, Debts
  <2>2. CASE current \in metered
    BY <1>5, <2>1, <2>2, Debts
  <2>3. CASE current \notin metered
    BY <1>5, <2>1, <2>3, Debts
  <2>4. QED
    BY <2>2, <2>3
<1>9. /\ latest' \in [DOMAIN IndexOf -> Number \cup {None}]
      /\ current \in metered => latest'[index] = ratio
      /\ \A i \in DOMAIN IndexOf : i # index => latest'[i] = latest[i]
      /\ current \notin metered => latest' = latest
  <2>1. latest \in [DOMAIN IndexOf -> Number \cup {None}] /\ index \in DOMAIN IndexOf
    BY NamesInUse DEF RecordsInv, RatiosInv
  <2>2. QED
    BY <1>6, <2>1
<1>10. current \in metered => Added(index)'
  <2>1. Len(loaded[current]) <= Len(pruned[current])
    BY <1>2 DEF ChainsInv
  <2>2. QED
    BY <1>1, <1>5, <1>7, <1>9, <2>1 DEF Added, AtIndex
<1>11. PlaceInv'
  BY <1>1, <1>2, <1>5, <1>10 DEF PlaceInv
<1>12. CountersInv'
  <2>1. TotalAppended \in Int
    BY <1>2, TotalsAreNumbers
  <2>2. TotalAppended' - OwedBlocks(todo') = TotalAppended - OwedBlocks(todo)
    BY <1>7, <1>8, <2>1
  <2>3. /\ CountsUpTo(BlocksAdded, TotalAppended - OwedBlocks(todo), BlocksAdded)
        /\ CountsUpTo(BlocksPruned, TotalDropped - OwedBodies(todo), PruningEvents)
        /\ counters[<<PruningEvents, Plain>>] \in Int \cup {None}
        /\ Get(counters[<<PruningEvents, Plain>>], 0) <= TotalDropped - OwedEvents(todo)
        /\ counters[<<BlocksPruned, Plain>>] # None \/ Announced(todo)
              => kinds[PruningEvents] = "counter"
    BY DEF RecordsInv, CountersInv
  <2>4. CountsUpTo(BlocksAdded, TotalAppended - OwedBlocks(todo), BlocksAdded)'
    BY <1>1, <2>2, <2>3 DEF CountsUpTo
  <2>5. CountsUpTo(BlocksPruned, TotalDropped - OwedBodies(todo), PruningEvents)'
    BY <1>1, <1>7, <1>8, <2>3 DEF CountsUpTo
  <2>6. QED
    BY <1>1, <1>7, <1>8, <2>3, <2>4, <2>5 DEF CountersInv
<1>13. RatiosInv'
  <2>1. \A i : ~Added(i) /\ ~Counted(i)
    BY <1>1, NotAdding
  <2>2. \A i : ~Counted(i)'
    <3> SUFFICES ASSUME NEW i, Counted(i)' PROVE FALSE
      OBVIOUS
    <3>1. todo' = <<SetRatio(i, latest'[i])>>
      BY DEF Counted
    <3>2. todo' # <<>> /\ Len(todo') = 1
      BY <3>1, Forms
    <3>3. todo' # <<>> => Len(todo') = 2
      BY <1>5, Forms
    <3>4. QED
      BY <3>2, <3>3
  <2>3. \A i : (HasRatio(i)' <=> HasRatio(i)) /\ Ratio(i)' = Ratio(i)
    BY <1>1 DEF HasRatio, Ratio
  <2>4. ASSUME NEW i \in 0 .. MaxBlocks
        PROVE  /\ AppendedAt(i) => AppendedAt(i)'
               /\ AppendedAt(i)' => AppendedAt(i) \/ (i = index /\ current \in metered)
    <3>1. /\ \A d \in Chain : Len(pruned[d]) \in Nat /\ Len(loaded[d]) \in Nat
          /\ i \in Int /\ index \in Int /\ metered \subseteq Chain
      BY <1>2, DroppedCounts, NamesInUse DEF ChainsInv
    <3>2. \A d \in Chain :
             /\ i < Len(pruned[d]) => i < Len(pruned'[d])
             /\ i < Len(pruned'[d]) => i < Len(pruned[d]) \/ (i = index /\ d = current)
      BY <1>5, <1>7, <3>1
    <3>3. QED
      BY <1>1, <3>1, <3>2 DEF AppendedAt
  <2>5. ASSUME NEW i \in DOMAIN IndexOf
        PROVE  /\ HasRatio(i)' => kinds'[BlocksAdded] = "counter" /\ AppendedAt(i)'
               /\ AppendedAt(i)' =>
                     \/ HasRatio(i)' \/ Added(i)'
                     \/ kinds'[BlocksAdded] = "gauge" \/ kinds'[CompressionRatio] = "counter"
               /\ HasRatio(i)' => Ratio(i)' = latest'[i] \/ Added(i)'
    <3>1. /\ HasRatio(i) => kinds[BlocksAdded] = "counter" /\ AppendedAt(i)
          /\ AppendedAt(i) =>
                \/ HasRatio(i)
                \/ kinds[BlocksAdded] = "gauge" \/ kinds[CompressionRatio] = "counter"
          /\ HasRatio(i) => Ratio(i) = latest[i]
      BY <2>1 DEF RecordsInv, RatiosInv
    <3>2. i \in 0 .. MaxBlocks
      BY NamesInUse
    <3>3. latest'[i] = latest[i] \/ Added(i)'
      BY <1>9, <1>10
    <3>4. /\ AppendedAt(i) => AppendedAt(i)'
          /\ AppendedAt(i)' => AppendedAt(i) \/ Added(i)'
      BY <1>10, <2>4, <3>2
    <3>5. QED
      BY <1>1, <2>3, <3>1, <3>3, <3>4
  <2>6. QED
    BY <1>9, <2>2, <2>5 DEF RatiosInv
<1>14. QED
  BY <1>2, <1>7, <1>11, <1>12, <1>13 DEF RecordsInv

-----------------------------------------------------------------------------
(* The four recordings.                                                       *)

LEMMA DifferentNames ==
  /\ BlocksAdded # CompressionRatio /\ BlocksAdded # PruningEvents
  /\ BlocksAdded # BlocksPruned /\ CompressionRatio # PruningEvents
  /\ CompressionRatio # BlocksPruned /\ PruningEvents # BlocksPruned
BY DistinctNames

LEMMA BlocksRecorded ==
  ASSUME RecordsInv, Record, current \in Chain,
         NEW index \in 0 .. MaxBlocks - 1, Added(index)
  PROVE  RecordsInv'
<1>1. /\ todo = <<Increment(BlocksAdded, 1), SetRatio(index, latest[index])>>
      /\ todo' = <<SetRatio(index, latest[index])>>
      /\ IncrementCounter(<<BlocksAdded, Plain>>, 1)
      /\ pruned' = pruned /\ current' = current /\ latest' = latest
      /\ loaded' = loaded /\ metered' = metered /\ reporting' = reporting
  BY Forms DEF Added, Record, given
<1>2. /\ RegistryInv'
      /\ kinds[BlocksAdded] \in {None, "counter"} /\ kinds'[BlocksAdded] = "counter"
      /\ \A n \in Used : n # BlocksAdded => kinds'[n] = kinds[n]
      /\ gauges' = gauges
      /\ \A n \in Used : n # BlocksAdded => counters'[<<n, Plain>>] = counters[<<n, Plain>>]
      /\ counters[<<BlocksAdded, Plain>>] \in Int \cup {None} =>
            counters'[<<BlocksAdded, Plain>>] = Get(counters[<<BlocksAdded, Plain>>], 0) + 1
  BY <1>1, CounterRecorded, NamesInUse DEF RecordsInv
<1>3. /\ ChainsInv /\ ChainsInv'
      /\ TotalAppended' = TotalAppended /\ TotalDropped' = TotalDropped
      /\ \A i : AppendedAt(i)' <=> AppendedAt(i)
      /\ TotalAppended \in Int
  BY <1>1, SameTotals, TotalsAreNumbers DEF RecordsInv
<1>4. /\ OwedBlocks(todo) = 1 /\ OwedEvents(todo) = 0 /\ OwedBodies(todo) = 0
      /\ OwedBlocks(todo') = 0 /\ OwedEvents(todo') = 0 /\ OwedBodies(todo') = 0
      /\ ~Announced(todo')
  BY <1>1, Debts
<1>5. Counted(index)'
  BY <1>1 DEF Added, Counted, AtIndex
<1>6. PlaceInv'
  BY <1>1, <1>5 DEF PlaceInv
<1>7. CountersInv'
  <2>1. /\ CountsUpTo(BlocksAdded, TotalAppended - 1, BlocksAdded)
        /\ CountsUpTo(BlocksPruned, TotalDropped - 0, PruningEvents)
        /\ counters[<<PruningEvents, Plain>>] \in Int \cup {None}
        /\ Get(counters[<<PruningEvents, Plain>>], 0) <= TotalDropped - 0
        /\ counters[<<BlocksPruned, Plain>>] # None => kinds[PruningEvents] = "counter"
    BY <1>4 DEF RecordsInv, CountersInv
  <2>2. CountsUpTo(BlocksAdded, TotalAppended - 0, BlocksAdded)'
    <3>1. None \notin Int /\ None # "gauge" /\ TotalAppended - 1 \in Int
      BY <1>3, BoundAssumption, NoneAssumption DEF Kinds
    <3>2. /\ counters[<<BlocksAdded, Plain>>] \in Int \cup {None}
          /\ Get(counters[<<BlocksAdded, Plain>>], 0) = TotalAppended - 1
      BY <1>2, <2>1, <3>1 DEF CountsUpTo, Get
    <3>3. counters'[<<BlocksAdded, Plain>>] = TotalAppended - 0
      BY <1>2, <1>3, <3>2
    <3>4. QED
      BY <1>3, <3>1, <3>3 DEF CountsUpTo
  <2>3. CountsUpTo(BlocksPruned, TotalDropped - 0, PruningEvents)'
    BY <1>2, <1>3, <2>1, NamesInUse, DifferentNames DEF CountsUpTo
  <2>4. QED
    BY <1>2, <1>3, <1>4, <2>1, <2>2, <2>3, NamesInUse, DifferentNames DEF CountersInv
<1>8. RatiosInv'
  <2>1. \A i : (Added(i) \/ Counted(i)) /\ i \in DOMAIN IndexOf => i = index
    <3>1. Len(pruned[current]) = index + 1
      BY DEF Added, AtIndex
    <3>2. ASSUME NEW i \in DOMAIN IndexOf, Len(pruned[current]) = i + 1 PROVE i = index
      BY <3>1, <3>2, NamesInUse
    <3>3. QED
      BY <3>2 DEF Added, Counted, AtIndex
  <2>2. /\ kinds[BlocksAdded] # "gauge" /\ kinds'[CompressionRatio] = kinds[CompressionRatio]
        /\ \A i : (HasRatio(i)' <=> HasRatio(i)) /\ Ratio(i)' = Ratio(i)
    BY <1>2, NoneAssumption, NamesInUse, DifferentNames DEF HasRatio, Ratio, Kinds
  <2>3. QED
    BY <1>1, <1>2, <1>3, <1>5, <2>1, <2>2 DEF RecordsInv, RatiosInv
<1>9. QED
  BY <1>2, <1>3, <1>6, <1>7, <1>8 DEF RecordsInv

LEMMA RatioRecorded ==
  ASSUME RecordsInv, Record, current \in Chain,
         NEW index \in 0 .. MaxBlocks - 1, Counted(index)
  PROVE  RecordsInv'
<1> DEFINE s == <<CompressionRatio, IndexOf[index]>>
           ratio == latest[index]
<1>1. /\ todo = <<SetRatio(index, ratio)>> /\ todo' = <<>> /\ SetGauge(s, ratio)
      /\ pruned' = pruned /\ current' = current /\ latest' = latest
      /\ loaded' = loaded /\ metered' = metered /\ reporting' = reporting
  BY Forms DEF Counted, Record, given
<1>2. /\ s \in Series /\ s[1] = CompressionRatio /\ index \in 0 .. MaxBlocks
      /\ ratio \in Int
  BY NamesInUse, BoundAssumption DEF Counted, AtIndex
<1> HIDE DEF ratio
<1>3. /\ RegistryInv'
      /\ kinds[CompressionRatio] \in {None, "gauge"}
      /\ \A n \in Used : n # CompressionRatio => kinds'[n] = kinds[n]
      /\ counters' = counters /\ gauges'[s] = ratio /\ gauges'[s] # None
      /\ \A r \in Series : r # s => gauges'[r] = gauges[r]
  BY <1>1, <1>2, GaugeRecorded, NamesInUse DEF RecordsInv
<1>4. /\ ChainsInv /\ ChainsInv'
      /\ TotalAppended' = TotalAppended /\ TotalDropped' = TotalDropped
      /\ \A i : AppendedAt(i)' <=> AppendedAt(i)
  BY <1>1, SameTotals DEF RecordsInv
<1>5. /\ OwedBlocks(todo) = 0 /\ OwedEvents(todo) = 0 /\ OwedBodies(todo) = 0
      /\ OwedBlocks(todo') = 0 /\ OwedEvents(todo') = 0 /\ OwedBodies(todo') = 0
      /\ ~Announced(todo')
  BY <1>1, Debts
<1>6. PlaceInv'
  BY <1>1 DEF PlaceInv
<1>7. CountersInv'
  BY <1>3, <1>4, <1>5, NamesInUse, DifferentNames DEF RecordsInv, CountersInv, CountsUpTo
<1>8. RatiosInv'
  <2>1. ASSUME NEW i \in 0 .. MaxBlocks PROVE ~Added(i) /\ (Counted(i) => i = index)
    <3>1. Len(todo) = 1 /\ Len(pruned[current]) = index + 1
      BY <1>1, Forms DEF Counted, AtIndex
    <3>2. Added(i) => Len(todo) = 2
      BY Forms DEF Added
    <3>3. Len(pruned[current]) = i + 1 => i = index
      BY <3>1
    <3>4. QED
      BY <3>1, <3>2, <3>3 DEF Counted, AtIndex
  <2>2. AppendedAt(index)
    <3>1. /\ current \in metered
          /\ Len(loaded[current]) <= index /\ Len(pruned[current]) = index + 1
      BY DEF Counted, AtIndex
    <3>2. index < Len(pruned[current])
      BY <3>1
    <3>3. QED
      BY <3>1, <3>2 DEF AppendedAt
  <2>3. kinds'[BlocksAdded] = "counter" /\ kinds[BlocksAdded] = "counter"
    BY <1>3, NamesInUse, DifferentNames DEF RecordsInv, RatiosInv
  <2>4. ASSUME NEW i \in 0 .. MaxBlocks
        PROVE  /\ HasRatio(i)' <=> HasRatio(i) \/ i = index
               /\ IF i = index THEN Ratio(i)' = latest[i] ELSE Ratio(i)' = Ratio(i)
    <3>1. CASE i = index
      BY <1>3, <3>1 DEF HasRatio, Ratio, ratio
    <3>2. CASE i # index
      <4>1. IndexOf[i] # IndexOf[index]
        BY <1>2, <3>2, DistinctNames, NamesInUse
      <4>2. <<CompressionRatio, IndexOf[i]>> # s
        BY <4>1
      <4>3. <<CompressionRatio, IndexOf[i]>> \in Series
        BY NamesInUse
      <4>4. QED
        BY <1>3, <3>2, <4>2, <4>3 DEF HasRatio, Ratio
    <3>3. QED
      BY <3>1, <3>2
  <2>5. \A i : ~Counted(i)'
    BY <1>1, NotCountedAtEnd
  <2>6. kinds[CompressionRatio] # "counter"
    BY <1>3, NoneAssumption DEF Kinds
  <2>7. QED
    BY <1>1, <1>4, <2>1, <2>2, <2>3, <2>4, <2>5, <2>6, NamesInUse DEF RecordsInv, RatiosInv
<1>9. QED
  BY <1>3, <1>4, <1>6, <1>7, <1>8 DEF RecordsInv

LEMMA EventRecorded ==
  ASSUME RecordsInv, Record, NEW n \in Nat \ {0},
         todo = <<Increment(PruningEvents, 1), Increment(BlocksPruned, n)>>
  PROVE  RecordsInv'
<1>1. /\ todo' = <<Increment(BlocksPruned, n)>>
      /\ IncrementCounter(<<PruningEvents, Plain>>, 1)
      /\ pruned' = pruned /\ latest' = latest
      /\ loaded' = loaded /\ metered' = metered /\ reporting' = reporting
  BY Forms DEF Record, given
<1>2. /\ RegistryInv'
      /\ kinds[PruningEvents] \in {None, "counter"} /\ kinds'[PruningEvents] = "counter"
      /\ \A m \in Used : m # PruningEvents => kinds'[m] = kinds[m]
      /\ gauges' = gauges
      /\ \A m \in Used : m # PruningEvents => counters'[<<m, Plain>>] = counters[<<m, Plain>>]
      /\ counters[<<PruningEvents, Plain>>] \in Int \cup {None} =>
            counters'[<<PruningEvents, Plain>>] = Get(counters[<<PruningEvents, Plain>>], 0) + 1
  BY <1>1, CounterRecorded, NamesInUse DEF RecordsInv
<1>3. /\ ChainsInv /\ ChainsInv'
      /\ TotalAppended' = TotalAppended /\ TotalDropped' = TotalDropped
      /\ TotalDropped \in Int
  BY <1>1, SameTotals, TotalsAreNumbers DEF RecordsInv
<1>4. /\ OwedBlocks(todo) = 0 /\ OwedEvents(todo) = 1 /\ OwedBodies(todo) = n
      /\ OwedBlocks(todo') = 0 /\ OwedEvents(todo') = 0 /\ OwedBodies(todo') = n
  BY <1>1, Debts
<1>5. PlaceInv'
  <2>1. Recording(n)'
    BY <1>1 DEF Recording
  <2>2. QED
    BY <1>4, <2>1 DEF PlaceInv, Recording
<1>6. CountersInv'
  <2>1. /\ CountsUpTo(BlocksAdded, TotalAppended - 0, BlocksAdded)
        /\ CountsUpTo(BlocksPruned, TotalDropped - n, PruningEvents)
        /\ counters[<<PruningEvents, Plain>>] \in Int \cup {None}
        /\ Get(counters[<<PruningEvents, Plain>>], 0) <= TotalDropped - 1
    BY <1>4 DEF RecordsInv, CountersInv
  <2>2. CountsUpTo(BlocksAdded, TotalAppended - 0, BlocksAdded)'
    BY <1>2, <1>3, <2>1, NamesInUse, DifferentNames DEF CountsUpTo
  <2>3. CountsUpTo(BlocksPruned, TotalDropped - n, PruningEvents)'
    <3>1. kinds[PruningEvents] # "gauge"
      BY <1>2, NoneAssumption DEF Kinds
    <3>2. QED
      BY <1>2, <1>3, <2>1, <3>1, NamesInUse, DifferentNames DEF CountsUpTo
  <2>4. /\ counters'[<<PruningEvents, Plain>>] \in Int \cup {None}
        /\ Get(counters'[<<PruningEvents, Plain>>], 0) <= TotalDropped' - 0
    <3>1. Get(counters[<<PruningEvents, Plain>>], 0) \in Int
      BY <2>1 DEF Get
    <3>2. counters'[<<PruningEvents, Plain>>] = Get(counters[<<PruningEvents, Plain>>], 0) + 1
      BY <1>2, <2>1
    <3>3. None \notin Int
      BY BoundAssumption
    <3>4. QED
      BY <1>3, <2>1, <3>1, <3>2, <3>3 DEF Get
  <2>5. QED
    BY <1>2, <1>4, <2>2, <2>3, <2>4 DEF CountersInv
<1>7. RatiosInv'
  <2>1. \A i : ~Added(i) /\ ~Counted(i)
    BY NotAdding
  <2>2. \A i : ~Counted(i)'
    <3> SUFFICES ASSUME NEW i, Counted(i)' PROVE FALSE
      OBVIOUS
    <3>1. todo' = <<SetRatio(i, latest'[i])>>
      BY DEF Counted
    <3>2. /\ Head(todo') = SetRatio(i, latest'[i])
          /\ Head(todo') = Increment(BlocksPruned, n)
      BY <1>1, <3>1, Forms
    <3>3. QED
      BY <3>2, Forms
  <2>3. QED
    BY <1>1, <1>2, <2>1, <2>2, NamesInUse, DifferentNames, RatiosKept DEF RecordsInv
<1>8. QED
  BY <1>2, <1>3, <1>5, <1>6, <1>7 DEF RecordsInv

LEMMA BodiesRecorded ==
  ASSUME RecordsInv, Record, NEW n \in Nat \ {0}, todo = <<Increment(BlocksPruned, n)>>
  PROVE  RecordsInv'
<1>1. /\ todo' = <<>> /\ IncrementCounter(<<BlocksPruned, Plain>>, n)
      /\ pruned' = pruned /\ latest' = latest
      /\ loaded' = loaded /\ metered' = metered /\ reporting' = reporting
  BY Forms DEF Record, given
<1>2. /\ RegistryInv'
      /\ kinds[BlocksPruned] \in {None, "counter"} /\ kinds'[BlocksPruned] = "counter"
      /\ \A m \in Used : m # BlocksPruned => kinds'[m] = kinds[m]
      /\ gauges' = gauges
      /\ \A m \in Used : m # BlocksPruned => counters'[<<m, Plain>>] = counters[<<m, Plain>>]
      /\ counters[<<BlocksPruned, Plain>>] \in Int \cup {None} =>
            counters'[<<BlocksPruned, Plain>>] = Get(counters[<<BlocksPruned, Plain>>], 0) + n
  BY <1>1, CounterRecorded, NamesInUse DEF RecordsInv
<1>3. /\ ChainsInv /\ ChainsInv'
      /\ TotalAppended' = TotalAppended /\ TotalDropped' = TotalDropped
      /\ TotalDropped \in Int
  BY <1>1, SameTotals, TotalsAreNumbers DEF RecordsInv
<1>4. /\ OwedBlocks(todo) = 0 /\ OwedEvents(todo) = 0 /\ OwedBodies(todo) = n
      /\ OwedBlocks(todo') = 0 /\ OwedEvents(todo') = 0 /\ OwedBodies(todo') = 0
      /\ Announced(todo)
  BY <1>1, Debts
<1>5. PlaceInv'
  BY <1>1 DEF PlaceInv
<1>6. CountersInv'
  <2>1. /\ CountsUpTo(BlocksAdded, TotalAppended - 0, BlocksAdded)
        /\ CountsUpTo(BlocksPruned, TotalDropped - n, PruningEvents)
        /\ counters[<<PruningEvents, Plain>>] \in Int \cup {None}
        /\ Get(counters[<<PruningEvents, Plain>>], 0) <= TotalDropped - 0
        /\ kinds[PruningEvents] = "counter"
    BY <1>4 DEF RecordsInv, CountersInv
  <2>2. CountsUpTo(BlocksAdded, TotalAppended - 0, BlocksAdded)'
    BY <1>2, <1>3, <2>1, NamesInUse, DifferentNames DEF CountsUpTo
  <2>3. CountsUpTo(BlocksPruned, TotalDropped - 0, PruningEvents)'
    <3>1. None \notin Int /\ None # "gauge" /\ TotalDropped - n \in Int
      BY <1>3, BoundAssumption, NoneAssumption DEF Kinds
    <3>2. /\ counters[<<BlocksPruned, Plain>>] \in Int \cup {None}
          /\ Get(counters[<<BlocksPruned, Plain>>], 0) = TotalDropped - n
      BY <1>2, <2>1, <3>1 DEF CountsUpTo, Get
    <3>3. counters'[<<BlocksPruned, Plain>>] = TotalDropped - 0
      BY <1>2, <1>3, <3>2
    <3>4. QED
      BY <1>3, <3>1, <3>3 DEF CountsUpTo
  <2>4. /\ counters'[<<PruningEvents, Plain>>] = counters[<<PruningEvents, Plain>>]
        /\ kinds'[PruningEvents] = "counter"
    BY <1>2, <2>1, NamesInUse, DifferentNames
  <2>5. QED
    BY <1>3, <1>4, <2>1, <2>2, <2>3, <2>4 DEF CountersInv
<1>7. RatiosInv'
  <2>1. \A i : ~Added(i) /\ ~Counted(i)
    BY NotAdding
  <2>2. \A i : ~Counted(i)'
    BY <1>1, NotCountedAtEnd
  <2>3. QED
    BY <1>1, <1>2, <2>1, <2>2, NamesInUse, DifferentNames, RatiosKept DEF RecordsInv
<1>8. QED
  BY <1>2, <1>3, <1>5, <1>6, <1>7 DEF RecordsInv

LEMMA RecordRecords ==
  ASSUME RecordsInv, Record
  PROVE  RecordsInv'
<1>1. PlaceInv /\ todo # <<>> /\ Head(todo).op # "append"
  BY DEF RecordsInv, Record
<1>2. QED
  BY <1>1, PlacesOfRecords, BlocksRecorded, RatioRecorded, EventRecorded, BodiesRecorded

-----------------------------------------------------------------------------
\* What a call still had to record when it raised is never recorded: the name
\* is a gauge, or for the ratio a counter.
LEMMA RecordRaisesRecords ==
  ASSUME RecordsInv, RecordRaises
  PROVE  RecordsInv'
<1>1. /\ todo # <<>> /\ Head(todo).op # "append" /\ todo' = <<>>
      /\ kinds[Head(todo).series[1]] \notin {None, Head(todo).op}
      /\ pruned' = pruned /\ latest' = latest
      /\ loaded' = loaded /\ metered' = metered /\ reporting' = reporting
      /\ kinds' = kinds /\ counters' = counters /\ gauges' = gauges
  BY DEF RecordRaises, registry, vars, given
<1>2. /\ RegistryInv' /\ ChainsInv /\ ChainsInv'
      /\ TotalAppended' = TotalAppended /\ TotalDropped' = TotalDropped
      /\ TotalDropped \in Int
      /\ \A i : AppendedAt(i)' <=> AppendedAt(i)
  BY <1>1, SameTotals, TotalsAreNumbers DEF RecordsInv, RegistryInv
<1>3. /\ OwedBlocks(todo') = 0 /\ OwedEvents(todo') = 0 /\ OwedBodies(todo') = 0
      /\ ~Announced(todo')
  BY <1>1, Debts
<1>4. PlaceInv'
  BY <1>1 DEF PlaceInv
<1>5. \A i : /\ ~Counted(i)' /\ (HasRatio(i)' <=> HasRatio(i))
             /\ Ratio(i)' = Ratio(i)
  BY <1>1, NotCountedAtEnd DEF HasRatio, Ratio
<1>6. /\ \A n \in Used : kinds[n] \in {None, "counter", "gauge"}
      /\ \A n \in Used : counters[<<n, Plain>>] # None => kinds[n] = "counter"
      /\ \A i \in DOMAIN IndexOf :
            HasRatio(i) => /\ kinds[BlocksAdded] = "counter"
                           /\ kinds[CompressionRatio] = "gauge"
  <2>1. \A i \in DOMAIN IndexOf :
           HasRatio(i) => kinds[BlocksAdded] = "counter" /\ kinds[CompressionRatio] = "gauge"
    BY NamesInUse DEF RecordsInv, RegistryInv, RatiosInv, HasRatio, Ratio
  <2>2. QED
    BY <2>1, NamesInUse DEF RecordsInv, RegistryInv, Kinds
<1>7. /\ CountsUpTo(BlocksAdded, TotalAppended - OwedBlocks(todo), BlocksAdded)
      /\ CountsUpTo(BlocksPruned, TotalDropped - OwedBodies(todo), PruningEvents)
      /\ counters[<<PruningEvents, Plain>>] \in Int \cup {None}
      /\ Get(counters[<<PruningEvents, Plain>>], 0) <= TotalDropped - OwedEvents(todo)
      /\ counters[<<BlocksPruned, Plain>>] # None => kinds[PruningEvents] = "counter"
  BY DEF RecordsInv, CountersInv
<1>8. ASSUME NEW index \in 0 .. MaxBlocks - 1, Added(index) PROVE CountersInv' /\ RatiosInv'
  <2>1. todo = <<Increment(BlocksAdded, 1), SetRatio(index, latest[index])>>
    BY <1>8 DEF Added
  <2>2. Head(todo).op = "counter" /\ Head(todo).series[1] = BlocksAdded
    BY <2>1, Forms
  <2>3. kinds[BlocksAdded] = "gauge" /\ counters[<<BlocksAdded, Plain>>] = None
    BY <1>1, <1>6, <2>2, NamesInUse
  <2>4. OwedEvents(todo) = 0 /\ OwedBodies(todo) = 0
    BY <2>1, Debts
  <2>5. CountersInv'
    BY <1>1, <1>2, <1>3, <1>7, <2>3, <2>4 DEF CountersInv, CountsUpTo
  <2>6. RatiosInv'
    <3>1. \A i \in DOMAIN IndexOf : ~HasRatio(i)
      BY <1>6, <2>3
    <3>2. QED
      BY <1>1, <1>2, <1>5, <2>3, <3>1 DEF RecordsInv, RatiosInv
  <2>7. QED
    BY <2>5, <2>6
<1>9. ASSUME NEW index \in 0 .. MaxBlocks - 1, Counted(index) PROVE CountersInv' /\ RatiosInv'
  <2>1. todo = <<SetRatio(index, latest[index])>>
    BY <1>9 DEF Counted
  <2>2. Head(todo).op = "gauge" /\ Head(todo).series[1] = CompressionRatio
    BY <2>1, Forms
  <2>3. kinds[CompressionRatio] = "counter"
    BY <1>1, <1>6, <2>2, NamesInUse
  <2>4. OwedBlocks(todo) = 0 /\ OwedEvents(todo) = 0 /\ OwedBodies(todo) = 0
    BY <2>1, Debts
  <2>5. CountersInv'
    BY <1>1, <1>2, <1>3, <1>7, <2>4 DEF CountersInv, CountsUpTo
  <2>6. RatiosInv'
    <3>1. \A i \in DOMAIN IndexOf : ~HasRatio(i)
      BY <1>6, <2>3
    <3>2. QED
      BY <1>1, <1>2, <1>5, <2>3, <3>1 DEF RecordsInv, RatiosInv
  <2>7. QED
    BY <2>5, <2>6
<1>10. ASSUME \E n \in Nat \ {0} :
                 \/ todo = <<Increment(PruningEvents, 1), Increment(BlocksPruned, n)>>
                 \/ todo = <<Increment(BlocksPruned, n)>>
       PROVE  CountersInv' /\ RatiosInv'
  <2>1. \A i : ~Added(i) /\ ~Counted(i)
    BY <1>10, NotAdding
  <2>2. RatiosInv'
    BY <1>1, <1>5, <2>1, RatiosKept DEF RecordsInv
  <2>3. /\ OwedBlocks(todo) = 0 /\ OwedEvents(todo) \in {0, 1}
    BY <1>10, Debts
  <2>4. \/ Head(todo).op = "counter" /\ Head(todo).series[1] = PruningEvents
        \/ Head(todo).op = "counter" /\ Head(todo).series[1] = BlocksPruned
    BY <1>10, Forms
  <2>5. /\ "gauge" \in {kinds[BlocksPruned], kinds[PruningEvents]}
        /\ counters[<<BlocksPruned, Plain>>] = None
    <3>1. \/ kinds[PruningEvents] = "gauge"
          \/ kinds[BlocksPruned] = "gauge"
      BY <1>1, <1>6, <2>4, NamesInUse
    <3>2. QED
      BY <1>6, <1>7, <3>1, NamesInUse
  <2>6. Get(counters[<<PruningEvents, Plain>>], 0) <= TotalDropped
    <3>1. Get(counters[<<PruningEvents, Plain>>], 0) \in Int
      BY <1>7 DEF Get
    <3>2. QED
      BY <1>2, <1>7, <2>3, <3>1
  <2>7. CountersInv'
    <3>1. TotalDropped - 0 = TotalDropped
      BY <1>2
    <3>2. QED
      BY <1>1, <1>2, <1>3, <1>7, <2>3, <2>5, <2>6, <3>1 DEF CountersInv, CountsUpTo
  <2>8. QED
    BY <2>2, <2>7
<1>11. CountersInv' /\ RatiosInv'
  <2>1. PlaceInv
    BY DEF RecordsInv
  <2>2. QED
    BY <1>1, <1>8, <1>9, <1>10, <2>1, PlacesOfRecords
<1>12. QED
  BY <1>2, <1>4, <1>11 DEF RecordsInv

\* Other code takes a name that was not in use.
LEMMA TakeNameRecords ==
  ASSUME RecordsInv, NEW name \in Used, TakeName(name)
  PROVE  RecordsInv'
<1>1. /\ todo = <<>> /\ todo' = <<>> /\ kinds[name] = None
      /\ pruned' = pruned /\ current' = current /\ latest' = latest
      /\ loaded' = loaded /\ metered' = metered /\ reporting' = reporting
  BY DEF TakeName, chains, given
<1>2. /\ ChainsInv /\ ChainsInv'
      /\ TotalAppended' = TotalAppended /\ TotalDropped' = TotalDropped
      /\ \A i : AppendedAt(i)' <=> AppendedAt(i)
  BY <1>1, SameTotals DEF RecordsInv
<1>3. PlaceInv' /\ ~Announced(todo')
  BY <1>1, Debts DEF PlaceInv
<1>4. \A i : ~Added(i) /\ ~Counted(i) /\ ~Counted(i)'
  BY <1>1, NotAdding, NotCountedAtEnd
<1>5. /\ CountsUpTo(BlocksAdded, TotalAppended - OwedBlocks(todo), BlocksAdded)
      /\ CountsUpTo(BlocksPruned, TotalDropped - OwedBodies(todo), PruningEvents)
      /\ counters[<<PruningEvents, Plain>>] \in Int \cup {None}
      /\ Get(counters[<<PruningEvents, Plain>>], 0) <= TotalDropped - OwedEvents(todo)
      /\ counters[<<BlocksPruned, Plain>>] # None => kinds[PruningEvents] = "counter"
  BY DEF RecordsInv, CountersInv
<1>6. \A n \in Used : counters[<<n, Plain>>] # None => kinds[n] = "counter"
  BY NamesInUse DEF RecordsInv, RegistryInv
<1>7. None \notin {"counter", "gauge"}
  BY NoneAssumption DEF Kinds
<1>8. CASE name = CompressionRatio
  <2>1. IncrementCounter(<<CompressionRatio, Plain>>, 1)
    BY <1>8 DEF TakeName
  <2>2. /\ RegistryInv' /\ kinds'[CompressionRatio] = "counter"
        /\ \A n \in Used : n # CompressionRatio => kinds'[n] = kinds[n]
        /\ gauges' = gauges
        /\ \A n \in Used : n # CompressionRatio =>
              counters'[<<n, Plain>>] = counters[<<n, Plain>>]
    BY <2>1, CounterRecorded, NamesInUse DEF RecordsInv
  <2>3. /\ \A n \in {BlocksAdded, BlocksPruned, PruningEvents} :
              kinds'[n] = kinds[n] /\ counters'[<<n, Plain>>] = counters[<<n, Plain>>]
    BY <2>2, NamesInUse, DifferentNames
  <2>4. CountersInv'
    BY <1>1, <1>2, <1>3, <1>5, <2>3 DEF CountersInv, CountsUpTo
  <2>5. RatiosInv'
    BY <1>1, <1>2, <1>4, <2>2, <2>3 DEF RecordsInv, RatiosInv, HasRatio, Ratio
  <2>6. QED
    BY <1>2, <1>3, <2>2, <2>4, <2>5 DEF RecordsInv
<1>9. CASE name # CompressionRatio
  <2> DEFINE s == <<name, Plain>>
  <2>1. SetGauge(s, 1) /\ s \in Series /\ s[1] = name
    BY <1>9, NamesInUse DEF TakeName
  <2>2. /\ RegistryInv' /\ kinds'[name] = "gauge"
        /\ \A n \in Used : n # name => kinds'[n] = kinds[n]
        /\ counters' = counters
        /\ \A r \in Series : r # s => gauges'[r] = gauges[r]
    <3>1. s[1] \in Used /\ 1 \in Int
      BY <2>1
    <3>2. QED
      BY <2>1, <3>1, GaugeRecorded DEF RecordsInv
  <2>3. counters[s] = None
    BY <1>1, <1>6, <1>7
  <2>4. CountersInv'
    <3>1. CountsUpTo(BlocksAdded, TotalAppended - OwedBlocks(todo), BlocksAdded)'
      <4>1. CASE name = BlocksAdded
        BY <2>2, <2>3, <4>1 DEF CountsUpTo
      <4>2. CASE name # BlocksAdded
        BY <1>1, <1>2, <1>5, <2>2, <4>2, NamesInUse DEF CountsUpTo
      <4>3. QED
        BY <4>1, <4>2
    <3>2. CountsUpTo(BlocksPruned, TotalDropped - OwedBodies(todo), PruningEvents)'
      <4>1. CASE name = BlocksPruned
        BY <2>2, <2>3, <4>1 DEF CountsUpTo
      <4>2. CASE name = PruningEvents
        <5>1. counters[<<BlocksPruned, Plain>>] = None
          BY <1>1, <1>5, <1>7, <4>2
        <5>2. QED
          BY <2>2, <4>2, <5>1 DEF CountsUpTo
      <4>3. CASE name \notin {BlocksPruned, PruningEvents}
        BY <1>1, <1>2, <1>5, <2>2, <4>3, NamesInUse DEF CountsUpTo
      <4>4. QED
        BY <4>1, <4>2, <4>3
    <3>3. counters'[<<BlocksPruned, Plain>>] # None => kinds'[PruningEvents] = "counter"
      BY <1>1, <1>5, <1>7, <2>2, NamesInUse
    <3>4. QED
      BY <1>1, <1>2, <1>3, <1>5, <2>2, <3>1, <3>2, <3>3 DEF CountersInv
  <2>5. RatiosInv'
    <3>1. ASSUME NEW i \in DOMAIN IndexOf
          PROVE  (HasRatio(i)' <=> HasRatio(i)) /\ Ratio(i)' = Ratio(i)
      <4>1. <<CompressionRatio, IndexOf[i]>> \in Series
        BY NamesInUse
      <4>2. <<CompressionRatio, IndexOf[i]>> # s
        BY <1>9
      <4>3. QED
        BY <2>2, <4>1, <4>2 DEF HasRatio, Ratio
    <3>2. kinds'[CompressionRatio] = kinds[CompressionRatio]
      BY <1>9, <2>2, NamesInUse
    <3>3. CASE name = BlocksAdded
      <4>1. kinds'[BlocksAdded] = "gauge" /\ kinds[BlocksAdded] # "counter"
        BY <1>1, <1>7, <2>2, <3>3
      <4>2. QED
        BY <1>1, <1>2, <1>4, <3>1, <4>1 DEF RecordsInv, RatiosInv
    <3>4. CASE name # BlocksAdded
      <4>1. kinds'[BlocksAdded] = kinds[BlocksAdded]
        BY <2>2, <3>4, NamesInUse
      <4>2. QED
        BY <1>1, <1>2, <1>4, <3>1, <3>2, <4>1 DEF RecordsInv, RatiosInv
    <3>5. QED
      BY <3>3, <3>4
  <2>6. QED
    BY <1>2, <1>3, <2>2, <2>4, <2>5 DEF RecordsInv
<1>10. QED
  BY <1>8, <1>9

-----------------------------------------------------------------------------
\* The registry is exact for the chains and the pruners that have it, but for
\* what a call in progress has not recorded yet and for names that are taken
\* (chain.py:63-81, blockchain_pruner.py:37-67).
THEOREM RecordsInvariance == InstrumentedSpec => []RecordsInv
<1>1. InstrumentedInit => RecordsInv
  BY InitRecords
<1>2. RecordsInv /\ [InstrumentedNext]_<<registry, chains>> => RecordsInv'
  <2> SUFFICES ASSUME RecordsInv, [InstrumentedNext]_<<registry, chains>>
               PROVE  RecordsInv'
    OBVIOUS
  <2>1. CASE \E c \in Chain : AddBlock(c) \/ PruneBlocks(c)
    BY <2>1, AddBlockRecords, PruneBlocksRecords
  <2>2. CASE AppendBlock \/ Record \/ RecordRaises
    BY <2>2, AppendBlockRecords, RecordRecords, RecordRaisesRecords
  <2>3. CASE \E name \in Used : TakeName(name)
    BY <2>3, TakeNameRecords
  <2>4. CASE UNCHANGED <<registry, chains>>
    <3>1. /\ TotalAppended' = TotalAppended /\ TotalDropped' = TotalDropped
          /\ ChainsInv' /\ \A i : AppendedAt(i)' <=> AppendedAt(i)
      BY <2>4, SameTotals DEF chains, given, RecordsInv
    <3>2. /\ todo' = todo /\ current' = current /\ pruned' = pruned /\ latest' = latest
          /\ loaded' = loaded /\ metered' = metered /\ reporting' = reporting
          /\ kinds' = kinds /\ counters' = counters /\ gauges' = gauges
      BY <2>4 DEF chains, given, registry, vars
    <3>3. \A index : /\ Adding(index)' <=> Adding(index)
                     /\ Added(index)' <=> Added(index)
                     /\ Counted(index)' <=> Counted(index)
                     /\ HasRatio(index)' <=> HasRatio(index)
                     /\ Ratio(index)' = Ratio(index)
      BY <3>2 DEF Adding, AfterState, Added, Counted, AtIndex, HasRatio, Ratio
    <3>4. RegistryInv' /\ PlaceInv'
      BY <3>2, <3>3 DEF RecordsInv, RegistryInv, PlaceInv, Recording
    <3>5. CountersInv'
      BY <3>1, <3>2 DEF RecordsInv, CountersInv, CountsUpTo
    <3>6. RatiosInv'
      BY <3>1, <3>2, <3>3 DEF RecordsInv, RatiosInv
    <3>7. QED
      BY <3>1, <3>4, <3>5, <3>6 DEF RecordsInv
  <2>5. QED
    BY <2>1, <2>2, <2>3, <2>4 DEF InstrumentedNext
<1>3. QED
  BY <1>1, <1>2, PTL DEF InstrumentedSpec

\* Between calls each counter is the number of things that the chains, or the
\* pruners, with the registry did together, or is missing for good because its
\* name, or the name that is recorded before it, is taken.  A reloaded chain has
\* no registry (chain.py:69-72, blockchain_pruner.py:47-66, chain_store.py:201).
THEOREM ExactCounters == InstrumentedSpec => []CountersAreExact
<1>1. RecordsInv => CountersAreExact
  <2> SUFFICES ASSUME RecordsInv, todo = <<>>
               PROVE  /\ Exact(BlocksAdded, TotalAppended, BlocksAdded)
                      /\ Exact(BlocksPruned, TotalDropped, PruningEvents)
                      /\ Get(counters[<<PruningEvents, Plain>>], 0) <= TotalDropped
    BY DEF CountersAreExact
  <2>1. TotalAppended \in Int /\ TotalDropped \in Int
    BY TotalsAreNumbers DEF RecordsInv
  <2>2. OwedBlocks(todo) = 0 /\ OwedEvents(todo) = 0 /\ OwedBodies(todo) = 0
    BY Debts
  <2>3. /\ TotalAppended - OwedBlocks(todo) = TotalAppended
        /\ TotalDropped - OwedBodies(todo) = TotalDropped
        /\ TotalDropped - OwedEvents(todo) = TotalDropped
    BY <2>1, <2>2
  <2>4. /\ CountsUpTo(BlocksAdded, TotalAppended, BlocksAdded)
        /\ CountsUpTo(BlocksPruned, TotalDropped, PruningEvents)
        /\ Get(counters[<<PruningEvents, Plain>>], 0) <= TotalDropped
    BY <2>3 DEF RecordsInv, CountersInv
  <2>5. QED
    BY <2>1, <2>4 DEF Exact, CountsUpTo
<1>2. QED
  BY <1>1, RecordsInvariance, PTL

\* Between calls there is a ratio for exactly the indices at which some chain
\* with the registry has appended a block, unless a name is taken, and it is the
\* ratio of the block appended there last (chain.py:73-81).
THEOREM RatiosAreOfBlocks == InstrumentedSpec => []RatiosNameBlocks
<1>1. RecordsInv => RatiosNameBlocks
  <2> SUFFICES ASSUME RecordsInv, todo = <<>>, NEW i \in DOMAIN IndexOf
               PROVE  /\ HasRatio(i) <=> /\ kinds[BlocksAdded] = "counter"
                                         /\ kinds[CompressionRatio] = "gauge"
                                         /\ AppendedAt(i)
                      /\ HasRatio(i) => Ratio(i) = latest[i]
    BY DEF RatiosNameBlocks, HasRatio
  <2>1. ~Added(i) /\ ~Counted(i)
    BY NotAdding
  <2>2. HasRatio(i) => kinds[CompressionRatio] = "gauge"
    <3>1. <<CompressionRatio, IndexOf[i]>> \in Series
      BY NamesInUse
    <3>2. QED
      BY <3>1 DEF HasRatio, Ratio, RecordsInv, RegistryInv
  <2>3. QED
    BY <2>1, <2>2 DEF RecordsInv, RatiosInv
<1>2. QED
  BY <1>1, RecordsInvariance, PTL
=============================================================================
