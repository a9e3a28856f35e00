----------------------------- MODULE Induction -----------------------------
(* Induction over numbers and finite sets with a set in place of a predicate, *)
(* and what follows for sums over finite sets.  A property that is to be      *)
(* proved by induction is written as the set of the values that have it.      *)
EXTENDS Integers, FiniteSets, Functions, FiniteSetTheorems, WellFoundedInduction, TLAPS

LEMMA LessThanIsWellFounded ==
  \E R : IsWellFoundedOn(R, Nat) /\ \A m, n \in Nat : m < n => <<m, n>> \in R
<1>1. \A m, n \in Nat : m < n => <<m, n>> \in OpToRel(<, Nat)
  BY DEF OpToRel
<1>2. QED
  BY <1>1, NatLessThanWellFounded, Zenon

LEMMA LeastElement ==
  ASSUME NEW T \in SUBSET Nat, T # {}
  PROVE  \E n \in T : \A m \in T : n <= m
<1>1. PICK R : IsWellFoundedOn(R, Nat) /\ \A m, n \in Nat : m < n => <<m, n>> \in R
  BY LessThanIsWellFounded
<1>2. T \subseteq Nat /\ IsWellFoundedOn(R, Nat)
  BY <1>1
<1>3. PICK n \in T : \A m \in T : ~(<<m, n>> \in R)
  BY <1>2, WFMin, Zenon
<1>4. ASSUME NEW m \in T PROVE n <= m
  <2>1. ~(m < n)
    BY <1>1, <1>3
  <2>2. QED
    BY <2>1
<1>5. QED
  BY <1>4

\* Induction over the natural numbers.
LEMMA NumbersInduction ==
  ASSUME NEW S, 0 \in S, \A n \in Nat : n \in S => n + 1 \in S
  PROVE  \A n \in Nat : n \in S
<1> SUFFICES ASSUME NEW k \in Nat, k \notin S PROVE FALSE
  OBVIOUS
<1> DEFINE T == {n \in Nat : n \notin S}
<1>1. PICK n \in T : \A m \in T : n <= m
  <2>1. T \in SUBSET Nat /\ T # {}
    OBVIOUS
  <2> HIDE DEF T
  <2>2. QED
    BY <2>1, LeastElement
<1>2. n # 0 /\ n - 1 \in Nat
  OBVIOUS
<1>3. n - 1 \in S
  BY <1>1, <1>2
<1>4. QED
  BY <1>2, <1>3

\* Induction over the number of elements of the subsets of a finite set.
LEMMA SubsetsInduction ==
  ASSUME NEW S, IsFiniteSet(S), NEW F, {} \in F,
         \A T \in SUBSET S : T # {} /\ (\A x \in T : T \ {x} \in F) => T \in F
  PROVE  \A T \in SUBSET S : T \in F
<1> DEFINE P == {n \in Nat : \A T \in SUBSET S : Cardinality(T) = n => T \in F}
<1>1. \A T \in SUBSET S : IsFiniteSet(T) /\ Cardinality(T) \in Nat
  BY FS_Subset, FS_CardinalityType
<1>2. 0 \in P
  BY <1>1, FS_EmptySet
<1>3. ASSUME NEW n \in Nat, n \in P PROVE n + 1 \in P
  <2> SUFFICES ASSUME NEW T \in SUBSET S, Cardinality(T) = n + 1 PROVE T \in F
    OBVIOUS
  <2>1. T # {}
    <3>1. Cardinality({}) = 0 /\ n + 1 # 0
      BY FS_EmptySet
    <3>2. QED
      BY <3>1
  <2>2. ASSUME NEW x \in T PROVE T \ {x} \in F
    <3>1. Cardinality(T \ {x}) = n
      BY <1>1, FS_RemoveElement
    <3>2. QED
      BY <1>3, <3>1
  <2>3. QED
    BY <2>1, <2>2
<1>4. \A n \in Nat : n \in P
  <2> HIDE DEF P
  <2>1. QED
    BY <1>2, <1>3, NumbersInduction
<1>5. QED
  BY <1>1, <1>4

-----------------------------------------------------------------------------
(* Sums.                                                                      *)

AnyOf(s) == CHOOSE x \in s : TRUE

\* g has the sums of f over the sets in D.
SumsOn(g, f, D) ==
    g = [s \in D |-> IF s = {} THEN 0 ELSE f[AnyOf(s)] + g[s \ {AnyOf(s)}]]

LEMMA AnyOfIs == ASSUME NEW s, s # {} PROVE AnyOf(s) \in s
BY DEF AnyOf

LEMMA SumsExist ==
  ASSUME NEW S, IsFiniteSet(S), NEW f
  PROVE  \E g : SumsOn(g, f, SUBSET S)
<1> DEFINE D(n) == {s \in SUBSET S : Cardinality(s) <= n}
           P == {n \in Nat : \E g : SumsOn(g, f, D(n))}
<1>1. \A s \in SUBSET S : IsFiniteSet(s) /\ Cardinality(s) \in Nat
  BY FS_Subset, FS_CardinalityType
<1>2. 0 \in P
  <2>1. D(0) = {{}}
    BY <1>1, FS_EmptySet
  <2>2. SumsOn([s \in {{}} |-> 0], f, {{}})
    BY DEF SumsOn
  <2>3. QED
    BY <2>1, <2>2
<1>3. ASSUME NEW n \in Nat, n \in P PROVE n + 1 \in P
  <2>1. PICK g : SumsOn(g, f, D(n))
    BY <1>3
  <2> DEFINE h == [s \in D(n + 1) |-> IF s \in D(n) THEN g[s]
                                      ELSE f[AnyOf(s)] + g[s \ {AnyOf(s)}]]
  <2>2. ASSUME NEW s \in D(n + 1), s # {} PROVE s \ {AnyOf(s)} \in D(n)
    <3>1. AnyOf(s) \in s
      BY <2>2, AnyOfIs
    <3>2. Cardinality(s \ {AnyOf(s)}) = Cardinality(s) - 1
      BY <1>1, <3>1, FS_RemoveElement
    <3>3. QED
      BY <1>1, <3>2
  <2>3. D(n) \subseteq D(n + 1) /\ {} \in D(n)
    BY <1>1, FS_EmptySet
  <2>4. ASSUME NEW s \in D(n + 1)
        PROVE  h[s] = IF s = {} THEN 0 ELSE f[AnyOf(s)] + h[s \ {AnyOf(s)}]
    <3>1. s # {} => s \ {AnyOf(s)} \in D(n) /\ s \ {AnyOf(s)} \in D(n + 1)
      BY <2>2, <2>3
    <3>2. s \in D(n) =>
             g[s] = IF s = {} THEN 0 ELSE f[AnyOf(s)] + g[s \ {AnyOf(s)}]
      BY <2>1 DEF SumsOn
    <3> HIDE DEF D
    <3>3. QED
      BY <2>3, <3>1, <3>2
  <2>5. SumsOn(h, f, D(n + 1))
    <3> HIDE DEF D
    <3>1. QED
      BY <2>4 DEF SumsOn
  <2> HIDE DEF h, D
  <2>6. QED
    BY <2>5
<1>4. Cardinality(S) \in P
  <2>1. Cardinality(S) \in Nat
    BY FS_CardinalityType
  <2> HIDE DEF P
  <2>2. QED
    BY <1>2, <1>3, <2>1, NumbersInduction
<1>5. D(Cardinality(S)) = SUBSET S
  BY FS_Subset
<1>6. QED
  BY <1>4, <1>5

\* The sums over S and over a larger set agree on the subsets of S.
LEMMA SumsAgree ==
  ASSUME NEW S, IsFiniteSet(S), NEW T \in SUBSET S, NEW f, NEW g, NEW h,
         SumsOn(g, f, SUBSET S), SumsOn(h, f, SUBSET T)
  PROVE  \A s \in SUBSET T : g[s] = h[s]
<1> DEFINE F == {s \in SUBSET T : g[s] = h[s]}
<1>1. IsFiniteSet(T)
  BY FS_Subset
<1>2. /\ \A s \in SUBSET S : g[s] = IF s = {} THEN 0 ELSE f[AnyOf(s)] + g[s \ {AnyOf(s)}]
      /\ \A s \in SUBSET T : h[s] = IF s = {} THEN 0 ELSE f[AnyOf(s)] + h[s \ {AnyOf(s)}]
  BY DEF SumsOn
<1>3. {} \in F
  BY <1>2
<1>4. ASSUME NEW s \in SUBSET T, s # {}, \A x \in s : s \ {x} \in F
      PROVE  s \in F
  <2>1. AnyOf(s) \in s
    BY <1>4, AnyOfIs
  <2>2. g[s \ {AnyOf(s)}] = h[s \ {AnyOf(s)}]
    BY <1>4, <2>1
  <2>3. QED
    BY <1>2, <1>4, <2>2
<1>5. \A s \in SUBSET T : s \in F
  <2> HIDE DEF F
  <2>1. QED
    BY <1>1, <1>3, <1>4, SubsetsInduction
<1>6. QED
  BY <1>5

\* SumFunctionOnSet adds the values up.
LEMMA SumIs ==
  ASSUME NEW S, IsFiniteSet(S), NEW f, NEW g, SumsOn(g, f, SUBSET S)
  PROVE  SumFunctionOnSet(f, S) = g[S]
<1> DEFINE iter == CHOOSE h : SumsOn(h, f, SUBSET S)
<1>1. SumsOn(iter, f, SUBSET S)
  OBVIOUS
<1>2. SumFunctionOnSet(f, S) = iter[S]
  BY DEF SumFunctionOnSet, FoldFunctionOnSet, MapThenFoldSet, SumsOn, AnyOf
<1> HIDE DEF iter
<1>3. QED
  BY <1>1, <1>2, SumsAgree

LEMMA SumUnfolds ==
  ASSUME NEW S, IsFiniteSet(S), NEW f
  PROVE  SumFunctionOnSet(f, S)
            = IF S = {} THEN 0 ELSE f[AnyOf(S)] + SumFunctionOnSet(f, S \ {AnyOf(S)})
<1>1. PICK g : SumsOn(g, f, SUBSET S)
  BY SumsExist
<1>2. SumFunctionOnSet(f, S) = g[S]
  BY <1>1, SumIs
<1>3. g[S] = IF S = {} THEN 0 ELSE f[AnyOf(S)] + g[S \ {AnyOf(S)}]
  BY <1>1 DEF SumsOn
<1>4. ASSUME S # {}
      PROVE  SumFunctionOnSet(f, S \ {AnyOf(S)}) = g[S \ {AnyOf(S)}]
  <2> DEFINE T == S \ {AnyOf(S)}
  <2>1. T \in SUBSET S /\ IsFiniteSet(T)
    BY FS_Subset
  <2>2. PICK h : SumsOn(h, f, SUBSET T)
    BY <2>1, SumsExist
  <2> HIDE DEF T
  <2>3. g[T] = h[T] /\ SumFunctionOnSet(f, T) = h[T]
    BY <1>1, <2>1, <2>2, SumsAgree, SumIs
  <2>4. QED
    BY <2>3 DEF T
<1>5. QED
  BY <1>2, <1>3, <1>4

\* Adding up integers gives an integer.
LEMMA SumType ==
  ASSUME NEW S, IsFiniteSet(S), NEW f, \A x \in S : f[x] \in Int
  PROVE  SumFunctionOnSet(f, S) \in Int
<1> DEFINE F == {s \in SUBSET S : SumFunctionOnSet(f, s) \in Int}
<1>1. {} \in F
  BY SumUnfolds, FS_EmptySet
<1>2. ASSUME NEW s \in SUBSET S, s # {}, \A x \in s : s \ {x} \in F PROVE s \in F
  <2>1. IsFiniteSet(s) /\ AnyOf(s) \in s
    BY <1>2, FS_Subset, AnyOfIs
  <2>2. SumFunctionOnSet(f, s) = f[AnyOf(s)] + SumFunctionOnSet(f, s \ {AnyOf(s)})
    BY <1>2, <2>1, SumUnfolds
  <2>3. f[AnyOf(s)] \in Int /\ SumFunctionOnSet(f, s \ {AnyOf(s)}) \in Int
    BY <1>2, <2>1
  <2>4. QED
    BY <2>2, <2>3
<1>3. \A s \in SUBSET S : s \in F
  <2> HIDE DEF F
  <2>1. QED
    BY <1>1, <1>2, SubsetsInduction
<1>4. QED
  BY <1>3

\* Any element may be taken out first.
LEMMA SumRemove ==
  ASSUME NEW S, IsFiniteSet(S), NEW f, \A x \in S : f[x] \in Int, NEW y \in S
  PROVE  SumFunctionOnSet(f, S) = f[y] + SumFunctionOnSet(f, S \ {y})
<1> DEFINE Sum(s) == SumFunctionOnSet(f, s)
           F == {s \in SUBSET S : \A x \in s : Sum(s) = f[x] + Sum(s \ {x})}
<1>1. {} \in F
  OBVIOUS
<1>2. ASSUME NEW s \in SUBSET S, s # {}, \A x \in s : s \ {x} \in F,
             NEW x \in s
      PROVE  Sum(s) = f[x] + Sum(s \ {x})
  <2> DEFINE c == AnyOf(s)
  <2>1. IsFiniteSet(s) /\ c \in s
    BY <1>2, FS_Subset, AnyOfIs
  <2>2. Sum(s) = f[c] + Sum(s \ {c})
    BY <1>2, <2>1, SumUnfolds
  <2> HIDE DEF c
  <2>3. CASE x = c
    BY <2>2, <2>3
  <2>4. CASE x # c
    <3> DEFINE both == (s \ {c}) \ {x}
    <3>1. s \ {c} \in F /\ s \ {x} \in F /\ x \in s \ {c} /\ c \in s \ {x}
      BY <1>2, <2>1, <2>4
    <3>2. both = (s \ {x}) \ {c}
      OBVIOUS
    <3>3. Sum(s \ {c}) = f[x] + Sum(both) /\ Sum(s \ {x}) = f[c] + Sum(both)
      BY <3>1, <3>2
    <3>4. f[x] \in Int /\ f[c] \in Int /\ Sum(both) \in Int
      <4>1. both \in SUBSET S /\ IsFiniteSet(both)
        BY FS_Subset
      <4> HIDE DEF both
      <4>2. QED
        BY <1>2, <2>1, <4>1, SumType
    <3> HIDE DEF Sum, both
    <3>5. QED
      BY <2>2, <3>3, <3>4
  <2>5. QED
    BY <2>3, <2>4
<1>3. \A s \in SUBSET S : s \in F
  <2>1. \A s \in SUBSET S : s # {} /\ (\A x \in s : s \ {x} \in F) => s \in F
    BY <1>2
  <2> HIDE DEF F
  <2>2. QED
    BY <1>1, <2>1, SubsetsInduction
<1>4. QED
  BY <1>3

LEMMA SumAdd ==
  ASSUME NEW S, IsFiniteSet(S), NEW y, y \notin S, NEW f,
         \A x \in S \cup {y} : f[x] \in Int
  PROVE  SumFunctionOnSet(f, S \cup {y}) = f[y] + SumFunctionOnSet(f, S)
<1>1. IsFiniteSet(S \cup {y}) /\ y \in S \cup {y}
  BY FS_AddElement
<1>2. (S \cup {y}) \ {y} = S
  OBVIOUS
<1>3. QED
  BY <1>1, <1>2, SumRemove

\* A sum depends on the values added up only.
LEMMA SumSame ==
  ASSUME NEW S, IsFiniteSet(S), NEW f, NEW g, \A x \in S : g[x] = f[x]
  PROVE  SumFunctionOnSet(g, S) = SumFunctionOnSet(f, S)
<1>1. PICK h : SumsOn(h, f, SUBSET S)
  BY SumsExist
<1>2. \A s \in SUBSET S : s # {} => g[AnyOf(s)] = f[AnyOf(s)]
  BY AnyOfIs
<1>3. h = [s \in SUBSET S |-> IF s = {} THEN 0 ELSE f[AnyOf(s)] + h[s \ {AnyOf(s)}]]
  BY <1>1 DEF SumsOn
<1>4. [s \in SUBSET S |-> IF s = {} THEN 0 ELSE f[AnyOf(s)] + h[s \ {AnyOf(s)}]]
        = [s \in SUBSET S |-> IF s = {} THEN 0 ELSE g[AnyOf(s)] + h[s \ {AnyOf(s)}]]
  BY <1>2
<1>5. SumsOn(h, g, SUBSET S)
  BY <1>3, <1>4 DEF SumsOn
<1>6. QED
  BY <1>1, <1>5, SumIs

\* One value changes.
LEMMA SumChange ==
  ASSUME NEW S, IsFiniteSet(S), NEW f, NEW g, NEW y \in S,
         \A x \in S : f[x] \in Int /\ g[x] \in Int,
         \A x \in S \ {y} : g[x] = f[x]
  PROVE  SumFunctionOnSet(g, S) = SumFunctionOnSet(f, S) + g[y] - f[y]
<1>1. IsFiniteSet(S \ {y})
  BY FS_Subset
<1>2. SumFunctionOnSet(g, S \ {y}) = SumFunctionOnSet(f, S \ {y})
  BY <1>1, SumSame
<1>3. /\ SumFunctionOnSet(f, S) = f[y] + SumFunctionOnSet(f, S \ {y})
      /\ SumFunctionOnSet(g, S) = g[y] + SumFunctionOnSet(g, S \ {y})
  BY SumRemove
<1>4. SumFunctionOnSet(f, S \ {y}) \in Int /\ f[y] \in Int /\ g[y] \in Int
  BY <1>1, SumType
<1>5. QED
  BY <1>2, <1>3, <1>4

\* Zeros add up to zero.
LEMMA SumZeros ==
  ASSUME NEW S, IsFiniteSet(S), NEW f, \A x \in S : f[x] = 0
  PROVE  SumFunctionOnSet(f, S) = 0
<1> DEFINE F == {s \in SUBSET S : SumFunctionOnSet(f, s) = 0}
<1>1. {} \in F
  BY SumUnfolds, FS_EmptySet
<1>2. ASSUME NEW s \in SUBSET S, s # {}, \A x \in s : s \ {x} \in F PROVE s \in F
  <2>1. IsFiniteSet(s) /\ AnyOf(s) \in s
    BY <1>2, FS_Subset, AnyOfIs
  <2>2. SumFunctionOnSet(f, s) = f[AnyOf(s)] + SumFunctionOnSet(f, s \ {AnyOf(s)})
    BY <1>2, <2>1, SumUnfolds
  <2>3. f[AnyOf(s)] = 0 /\ SumFunctionOnSet(f, s \ {AnyOf(s)}) = 0
    BY <1>2, <2>1
  <2>4. QED
    BY <2>2, <2>3
<1>3. \A s \in SUBSET S : s \in F
  <2> HIDE DEF F
  <2>1. QED
    BY <1>1, <1>2, SubsetsInduction
<1>4. QED
  BY <1>3
=============================================================================
