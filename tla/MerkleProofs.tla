---------------------------- MODULE MerkleProofs ----------------------------
(* What Merkle roots and inclusion proofs promise, for lists of any length.   *)
EXTENDS MerkleTree, Induction, SequenceTheorems

-----------------------------------------------------------------------------
(* The levels of a tree.                                                      *)

\* The level of the tree over A at height h.
Lv(A, h) == Heights(A)[h]

LeafLevel(A) == [i \in 1 .. Len(A) |-> HashLeaf(A[i])]

IsHeights(f, A, m) ==
    f = [h \in 0 .. m |-> IF h = 0 THEN LeafLevel(A) ELSE NextLevel(f[h - 1])]

LEMMA HeightsExist ==
  ASSUME NEW A, NEW m \in Nat
  PROVE  \E f : IsHeights(f, A, m)
<1> DEFINE P == {n \in Nat : \E f : IsHeights(f, A, n)}
<1>1. 0 \in P
  <2>1. IsHeights([h \in 0 .. 0 |-> LeafLevel(A)], A, 0)
    BY DEF IsHeights
  <2>2. QED
    BY <2>1
<1>2. ASSUME NEW n \in Nat, n \in P PROVE n + 1 \in P
  <2>1. PICK f : IsHeights(f, A, n)
    BY <1>2
  <2> DEFINE g == [h \in 0 .. n + 1 |-> IF h = n + 1 THEN NextLevel(f[n]) ELSE f[h]]
  <2>2. \A h \in 0 .. n : f[h] = IF h = 0 THEN LeafLevel(A) ELSE NextLevel(f[h - 1])
    BY <2>1 DEF IsHeights
  <2>3. ASSUME NEW h \in 0 .. n + 1
        PROVE  g[h] = IF h = 0 THEN LeafLevel(A) ELSE NextLevel(g[h - 1])
    <3>1. CASE h = n + 1
      <4>1. g[h] = NextLevel(f[n]) /\ g[n] = f[n] /\ h - 1 = n /\ h # 0
        BY <3>1
      <4>2. QED
        BY <4>1
    <3>2. CASE h \in 0 .. n
      <4>1. g[h] = f[h] /\ (h # 0 => g[h - 1] = f[h - 1])
        BY <3>2
      <4>2. QED
        BY <2>2, <3>2, <4>1
    <3>3. QED
      BY <3>1, <3>2
  <2>4. IsHeights(g, A, n + 1)
    BY <2>3 DEF IsHeights
  <2>5. QED
    BY <2>4
<1>3. \A n \in Nat : n \in P
  <2> HIDE DEF P
  <2>1. QED
    BY <1>1, <1>2, NumbersInduction
<1>4. QED
  BY <1>3

\* The levels satisfy their recursion.
LEMMA HeightsFacts ==
  ASSUME NEW S, NEW A \in Seq(S)
  PROVE  /\ Lv(A, 0) = LeafLevel(A)
         /\ \A h \in 0 .. Len(A) - 1 : Lv(A, h + 1) = NextLevel(Lv(A, h))
<1> DEFINE f == CHOOSE g : IsHeights(g, A, Len(A))
<1>1. IsHeights(f, A, Len(A))
  BY HeightsExist
<1>2. Heights(A) = f
  BY DEF Heights, IsHeights, LeafLevel
<1> HIDE DEF f
<1>3. \A h \in 0 .. Len(A) : f[h] = IF h = 0 THEN LeafLevel(A) ELSE NextLevel(f[h - 1])
  BY <1>1 DEF IsHeights
<1>4. \A h \in 0 .. Len(A) - 1 : h + 1 \in 0 .. Len(A) /\ h + 1 # 0 /\ (h + 1) - 1 = h
  OBVIOUS
<1>5. QED
  BY <1>2, <1>3, <1>4 DEF Lv

\* Pairs from the left and a promoted last node.
LEMMA NextLevelFacts ==
  ASSUME NEW H, NEW L \in Seq(H), Len(L) >= 1
  PROVE  /\ \E G : NextLevel(L) \in Seq(G)
         /\ Len(NextLevel(L)) = (Len(L) + 1) \div 2
         /\ Len(NextLevel(L)) >= 1
         /\ \A k \in 1 .. Len(NextLevel(L)) :
               \/ 2 * k <= Len(L) /\ NextLevel(L)[k] = <<L[2 * k - 1], L[2 * k]>>
               \/ 2 * k = Len(L) + 1 /\ NextLevel(L)[k] = L[2 * k - 1]
<1> DEFINE N == NextLevel(L)
           m == (Len(L) + 1) \div 2
           G == {N[k] : k \in 1 .. m}
<1>1. m \in Nat /\ m >= 1 /\ 2 * m <= Len(L) + 1
  OBVIOUS
<1>2. N = [k \in 1 .. m |-> IF 2 * k <= Len(L) THEN <<L[2 * k - 1], L[2 * k]>>
                            ELSE L[2 * k - 1]]
  BY DEF NextLevel, HashNode
<1> HIDE DEF m
<1>3. N \in Seq(G) /\ Len(N) = m
  <2> HIDE DEF N
  <2>1. N = [k \in 1 .. m |-> N[k]]
    BY <1>2
  <2>2. QED
    BY <1>1, <2>1
<1>4. ASSUME NEW k \in 1 .. m
      PROVE  \/ 2 * k <= Len(L) /\ N[k] = <<L[2 * k - 1], L[2 * k]>>
             \/ 2 * k = Len(L) + 1 /\ N[k] = L[2 * k - 1]
  BY <1>1, <1>2
<1>5. QED
  BY <1>1, <1>3, <1>4 DEF m

\* No level is empty, each is a sequence, and there is none above height
\* Len(A) that is longer than 1.
LEMMA LevelFacts ==
  ASSUME NEW S, NEW A \in Seq(S), A # <<>>
  PROVE  \A h \in 0 .. Len(A) :
            /\ \E H : Lv(A, h) \in Seq(H)
            /\ Len(Lv(A, h)) >= 1
            /\ Len(Lv(A, h)) = 1 \/ Len(Lv(A, h)) + h <= Len(A)
<1> DEFINE n == Len(A)
           Good(h) == /\ \E H : Lv(A, h) \in Seq(H)
                      /\ Len(Lv(A, h)) >= 1
                      /\ Len(Lv(A, h)) = 1 \/ Len(Lv(A, h)) + h <= n
           P == {h \in Nat : h <= n => Good(h)}
<1>1. n \in Nat /\ n >= 1
  OBVIOUS
<1>2. 0 \in P
  <2> DEFINE H == {HashLeaf(A[i]) : i \in 1 .. Len(A)}
  <2>1. LeafLevel(A) \in Seq(H) /\ Len(LeafLevel(A)) = n
    BY <1>1 DEF LeafLevel
  <2>2. QED
    BY <1>1, <2>1, HeightsFacts
<1>3. ASSUME NEW h \in Nat, h \in P PROVE h + 1 \in P
  <2> SUFFICES ASSUME h + 1 <= n PROVE Good(h + 1)
    OBVIOUS
  <2>1. Good(h) /\ h \in 0 .. n - 1
    BY <1>1, <1>3
  <2>2. PICK H : Lv(A, h) \in Seq(H)
    BY <2>1
  <2>3. Lv(A, h + 1) = NextLevel(Lv(A, h))
    BY <2>1, HeightsFacts
  <2>4. /\ \E G : Lv(A, h + 1) \in Seq(G)
        /\ Len(Lv(A, h + 1)) = (Len(Lv(A, h)) + 1) \div 2
        /\ Len(Lv(A, h + 1)) >= 1
    BY <2>1, <2>2, <2>3, NextLevelFacts
  <2>5. Len(Lv(A, h)) \in Nat
    BY <2>2
  <2>6. ASSUME NEW a \in Nat, a >= 1, a = 1 \/ a + h <= n, NEW b, b = (a + 1) \div 2
        PROVE  b = 1 \/ b + (h + 1) <= n
    BY <1>1, <2>6
  <2>7. QED
    BY <2>1, <2>4, <2>5, <2>6
<1>4. \A h \in Nat : h \in P
  <2> HIDE DEF P
  <2>1. QED
    BY <1>2, <1>3, NumbersInduction
<1>5. QED
  BY <1>4

LEMMA LeafFacts ==
  ASSUME NEW S, NEW A \in Seq(S)
  PROVE  Len(Lv(A, 0)) = Len(A) /\ \A i \in 1 .. Len(A) : Lv(A, 0)[i] = <<A[i]>>
<1> DEFINE H == {<<A[i]>> : i \in 1 .. Len(A)}
<1>1. Lv(A, 0) = [i \in 1 .. Len(A) |-> <<A[i]>>]
  BY HeightsFacts DEF LeafLevel, HashLeaf
<1>2. Lv(A, 0) \in Seq(H) /\ Len(Lv(A, 0)) = Len(A)
  BY <1>1
<1>3. QED
  BY <1>1, <1>2

\* A node above the leaves is a pair of two nodes of the level below, or the
\* last of them.
LEMMA ParentFacts ==
  ASSUME NEW S, NEW A \in Seq(S), A # <<>>, NEW h \in Nat, h + 1 <= Len(A)
  PROVE  /\ Len(Lv(A, h)) \in Nat /\ Len(Lv(A, h)) >= 1
         /\ Len(Lv(A, h + 1)) = (Len(Lv(A, h)) + 1) \div 2
         /\ Len(Lv(A, h + 1)) \in Nat /\ Len(Lv(A, h + 1)) >= 1
         /\ \A k \in 1 .. Len(Lv(A, h + 1)) :
               /\ 2 * k - 1 \in 1 .. Len(Lv(A, h))
               /\ \/ /\ 2 * k \in 1 .. Len(Lv(A, h))
                     /\ Lv(A, h + 1)[k] = <<Lv(A, h)[2 * k - 1], Lv(A, h)[2 * k]>>
                  \/ /\ 2 * k = Len(Lv(A, h)) + 1
                     /\ Lv(A, h + 1)[k] = Lv(A, h)[2 * k - 1]
<1> DEFINE L == Lv(A, h)
           N == Lv(A, h + 1)
<1>1. h \in 0 .. Len(A) - 1 /\ h \in 0 .. Len(A)
  OBVIOUS
<1>2. PICK H : L \in Seq(H)
  BY <1>1, LevelFacts
<1>3. Len(L) >= 1 /\ Len(L) \in Nat
  BY <1>1, <1>2, LevelFacts
<1>4. N = NextLevel(L)
  BY <1>1, HeightsFacts
<1> HIDE DEF L, N
<1>5. /\ Len(N) = (Len(L) + 1) \div 2 /\ Len(N) >= 1
      /\ \A k \in 1 .. Len(N) :
            \/ 2 * k <= Len(L) /\ N[k] = <<L[2 * k - 1], L[2 * k]>>
            \/ 2 * k = Len(L) + 1 /\ N[k] = L[2 * k - 1]
  BY <1>2, <1>3, <1>4, NextLevelFacts
<1>6. Len(N) \in Nat
  BY <1>3, <1>5
<1>7. ASSUME NEW k \in 1 .. Len(N)
      PROVE  /\ 2 * k - 1 \in 1 .. Len(L)
             /\ \/ 2 * k \in 1 .. Len(L) /\ N[k] = <<L[2 * k - 1], L[2 * k]>>
                \/ 2 * k = Len(L) + 1 /\ N[k] = L[2 * k - 1]
  BY <1>3, <1>5, <1>6
<1>8. QED
  BY <1>3, <1>5, <1>6, <1>7 DEF L, N

-----------------------------------------------------------------------------
(* The root.                                                                  *)

\* top is the height of the root of the tree over A.
IsTop(A, top) ==
    /\ top \in 0 .. Len(A)
    /\ Len(Lv(A, top)) = 1
    /\ \A g \in 0 .. top - 1 : Len(Lv(A, g)) > 1

LEMMA TopExists ==
  ASSUME NEW S, NEW A \in Seq(S), A # <<>>
  PROVE  \E top : IsTop(A, top)
<1> DEFINE T == {h \in 0 .. Len(A) : Len(Lv(A, h)) = 1}
<1>1. Len(A) \in T
  <2>1. Len(A) \in Nat /\ Len(A) \in 0 .. Len(A)
    OBVIOUS
  <2>2. PICK H : Lv(A, Len(A)) \in Seq(H)
    BY <2>1, LevelFacts
  <2>3. Len(Lv(A, Len(A))) \in Nat
    BY <2>2
  <2>4. Len(Lv(A, Len(A))) >= 1 /\ (Len(Lv(A, Len(A))) = 1 \/ Len(Lv(A, Len(A))) + Len(A) <= Len(A))
    BY <2>1, LevelFacts
  <2>5. Len(Lv(A, Len(A))) = 1
    BY <2>1, <2>3, <2>4
  <2>6. QED
    BY <2>1, <2>5
<1>2. T \in SUBSET Nat /\ T # {}
  BY <1>1
<1> HIDE DEF T
<1>3. PICK top \in T : \A h \in T : top <= h
  BY <1>2, LeastElement
<1>4. top \in 0 .. Len(A) /\ Len(Lv(A, top)) = 1
  BY DEF T
<1>5. ASSUME NEW g \in 0 .. top - 1 PROVE Len(Lv(A, g)) > 1
  <2>1. g \in 0 .. Len(A) /\ ~(top <= g)
    BY <1>4
  <2>2. Len(Lv(A, g)) # 1
    BY <1>3, <2>1 DEF T
  <2>3. PICK H : Lv(A, g) \in Seq(H)
    BY <2>1, LevelFacts
  <2>4. Len(Lv(A, g)) \in Nat /\ Len(Lv(A, g)) >= 1
    BY <2>1, <2>3, LevelFacts
  <2>5. \A n \in Nat : n >= 1 /\ n # 1 => n > 1
    OBVIOUS
  <2>6. QED
    BY <2>2, <2>4, <2>5
<1>6. QED
  BY <1>4, <1>5 DEF IsTop

HasLevels(A, top) ==
    Levels(A) = [h \in 1 .. top + 1 |-> Lv(A, h - 1)] /\ Len(Levels(A)) = top + 1

\* self.levels stops at the root.
LEMMA RootFacts ==
  ASSUME NEW S, NEW A \in Seq(S), A # <<>>
  PROVE  \E top : /\ IsTop(A, top)
                  /\ HasLevels(A, top)
                  /\ Root(A) = Lv(A, top)[1]
<1> DEFINE top == CHOOSE h \in 0 .. Len(A) :
                     Len(Heights(A)[h]) = 1 /\ \A g \in 0 .. h - 1 : Len(Heights(A)[g]) > 1
<1>1. IsTop(A, top)
  BY TopExists DEF IsTop, Lv
<1>2. Levels(A) = [h \in 1 .. top + 1 |-> Lv(A, h - 1)]
  BY DEF Levels, Lv
<1> HIDE DEF top
<1>3. top \in Nat
  BY <1>1 DEF IsTop
<1>4. Len(Levels(A)) = top + 1 /\ Levels(A)[top + 1] = Lv(A, top) /\ Levels(A) # <<>>
  <2> DEFINE f == Levels(A)
             H == {f[h] : h \in 1 .. top + 1}
  <2>1. f = [h \in 1 .. top + 1 |-> f[h]]
    BY <1>2
  <2>2. Levels(A)[top + 1] = Lv(A, top)
    BY <1>2, <1>3
  <2> HIDE DEF f
  <2>3. f \in Seq(H) /\ Len(f) = top + 1
    BY <1>3, <2>1
  <2>4. QED
    BY <1>3, <2>2, <2>3 DEF f
<1>5. Root(A) = Lv(A, top)[1]
  BY <1>4 DEF Root
<1>6. QED
  BY <1>1, <1>2, <1>4, <1>5 DEF HasLevels

LEMMA EmptyRoot == Root(<<>>) = NoRoot
BY DEF Root, Levels

\* No node is the root of an empty tree.
LEMMA NodeFacts ==
  ASSUME NEW S, NEW A \in Seq(S), A # <<>>
  PROVE  \A h \in 0 .. Len(A) : \A i \in 1 .. Len(Lv(A, h)) : Lv(A, h)[i] # NoRoot
<1> DEFINE P == {h \in Nat : h <= Len(A) =>
                    \A i \in 1 .. Len(Lv(A, h)) : Lv(A, h)[i] # NoRoot}
<1> HIDE DEF P
<1>0. (\A x : <<x>> # NoRoot) /\ (\A x, y : <<x, y>> # NoRoot)
  BY DEF NoRoot
<1>1. 0 \in P
  <2>1. \A i \in 1 .. Len(Lv(A, 0)) : Lv(A, 0)[i] = <<A[i]>>
    BY LeafFacts
  <2>2. QED
    BY <1>0, <2>1 DEF P
<1>2. ASSUME NEW h \in Nat, h \in P PROVE h + 1 \in P
  <2> SUFFICES ASSUME h + 1 <= Len(A), NEW k \in 1 .. Len(Lv(A, h + 1))
               PROVE  Lv(A, h + 1)[k] # NoRoot
    BY DEF P
  <2>1. /\ 2 * k - 1 \in 1 .. Len(Lv(A, h))
        /\ \/ Lv(A, h + 1)[k] = <<Lv(A, h)[2 * k - 1], Lv(A, h)[2 * k]>>
           \/ Lv(A, h + 1)[k] = Lv(A, h)[2 * k - 1]
    BY ParentFacts
  <2>2. Lv(A, h)[2 * k - 1] # NoRoot
    <3>1. h <= Len(A)
      OBVIOUS
    <3>2. QED
      BY <1>2, <2>1, <3>1 DEF P
  <2>3. QED
    BY <1>0, <2>1, <2>2
<1>3. \A h \in Nat : h \in P
  BY <1>1, <1>2, NumbersInduction
<1>4. QED
  BY <1>3 DEF P

-----------------------------------------------------------------------------
(* Roots bind lists.                                                          *)

\* The root of a tree is as high as its leftmost path is long.
LEMMA EqualHeights ==
  ASSUME NEW S, NEW A \in Seq(S), A # <<>>, NEW B \in Seq(S), B # <<>>,
         NEW a, IsTop(A, a), NEW b, IsTop(B, b), Lv(A, a)[1] = Lv(B, b)[1]
  PROVE  a = b
<1> DEFINE P == {h \in Nat : h <= a =>
                    \A g \in 0 .. b : Lv(A, h)[1] = Lv(B, g)[1] => h = g}
<1>1. a \in Nat /\ b \in Nat /\ a <= Len(A) /\ b <= Len(B) /\ Len(A) \in Nat /\ Len(B) \in Nat
  BY DEF IsTop
<1>2. /\ \E x : Lv(A, 0)[1] = <<x>>
      /\ \E x : Lv(B, 0)[1] = <<x>>
  <2>1. 1 \in 1 .. Len(A) /\ 1 \in 1 .. Len(B)
    OBVIOUS
  <2>2. QED
    BY <2>1, LeafFacts
<1>3. ASSUME NEW C \in {A, B}, NEW c \in {a, b}, IsTop(C, c), NEW h \in Nat, h + 1 <= c
      PROVE  \E y : Lv(C, h + 1)[1] = <<Lv(C, h)[1], y>>
  <2>1. C \in Seq(S) /\ C # <<>> /\ h + 1 <= Len(C) /\ h \in 0 .. c - 1
    BY <1>1, <1>3 DEF IsTop
  <2>2. Len(Lv(C, h)) > 1 /\ Len(Lv(C, h)) \in Nat
    BY <1>3, <2>1, ParentFacts DEF IsTop
  <2>3. 1 \in 1 .. Len(Lv(C, h + 1))
    BY <2>1, ParentFacts
  <2>4. \/ Lv(C, h + 1)[1] = <<Lv(C, h)[2 * 1 - 1], Lv(C, h)[2 * 1]>>
        \/ 2 * 1 = Len(Lv(C, h)) + 1
    BY <2>1, <2>3, ParentFacts
  <2>5. QED
    BY <2>2, <2>4
<1>4. \A x, y, z : <<x>> # <<y, z>>
  OBVIOUS
<1>5. 0 \in P
  <2> SUFFICES ASSUME NEW g \in 0 .. b, Lv(A, 0)[1] = Lv(B, g)[1] PROVE g = 0
    OBVIOUS
  <2>1. SUFFICES ASSUME g # 0 PROVE FALSE
    OBVIOUS
  <2>2. g - 1 \in Nat /\ (g - 1) + 1 = g /\ g <= b
    BY <1>1, <2>1
  <2>3. \E y : Lv(B, (g - 1) + 1)[1] = <<Lv(B, g - 1)[1], y>>
    BY <1>3, <2>2
  <2>4. QED
    BY <1>2, <1>4, <2>2, <2>3
<1>6. ASSUME NEW h \in Nat, h \in P PROVE h + 1 \in P
  <2> SUFFICES ASSUME h + 1 <= a, NEW g \in 0 .. b, Lv(A, h + 1)[1] = Lv(B, g)[1]
               PROVE  h + 1 = g
    OBVIOUS
  <2>1. PICK y : Lv(A, h + 1)[1] = <<Lv(A, h)[1], y>>
    BY <1>3
  <2>2. g # 0
    BY <1>2, <1>4, <2>1
  <2>3. g - 1 \in Nat /\ (g - 1) + 1 = g /\ g <= b /\ g - 1 \in 0 .. b
    BY <1>1, <2>2
  <2>4. PICK z : Lv(B, (g - 1) + 1)[1] = <<Lv(B, g - 1)[1], z>>
    BY <1>3, <2>3
  <2>5. Lv(A, h)[1] = Lv(B, g - 1)[1]
    BY <2>1, <2>3, <2>4
  <2>6. h = g - 1
    BY <1>1, <1>6, <2>3, <2>5
  <2>7. QED
    BY <2>3, <2>6
<1>7. \A h \in Nat : h \in P
  <2> HIDE DEF P
  <2>1. QED
    BY <1>5, <1>6, NumbersInduction
<1>8. QED
  BY <1>1, <1>7

\* A node of height at most g is no pair whose left part is a node at height
\* h >= g that is not the last of its level.
LEMMA NotPromoted ==
  ASSUME NEW S, NEW A \in Seq(S), A # <<>>, NEW B \in Seq(S), B # <<>>
  PROVE  \A g \in Nat : g <= Len(A) =>
            \A h \in g .. Len(B), j \in 1 .. Len(Lv(A, g)) :
               \A i \in 1 .. Len(Lv(B, h)) - 1 : \A r : Lv(A, g)[j] # <<Lv(B, h)[i], r>>
<1> DEFINE P == {g \in Nat : g <= Len(A) =>
                    \A h \in g .. Len(B), j \in 1 .. Len(Lv(A, g)) :
                       \A i \in 1 .. Len(Lv(B, h)) - 1 : \A r :
                          Lv(A, g)[j] # <<Lv(B, h)[i], r>>}
<1>1. \A x, y, z : <<x>> # <<y, z>>
  OBVIOUS
<1>2. 0 \in P
  <2>1. \A j \in 1 .. Len(Lv(A, 0)) : Lv(A, 0)[j] = <<A[j]>>
    BY LeafFacts
  <2>2. QED
    BY <1>1, <2>1
<1>3. ASSUME NEW g \in Nat, g \in P PROVE g + 1 \in P
  <2> SUFFICES ASSUME g + 1 <= Len(A), NEW h \in g + 1 .. Len(B),
                      NEW j \in 1 .. Len(Lv(A, g + 1)), NEW i \in 1 .. Len(Lv(B, h)) - 1, NEW r,
                      Lv(A, g + 1)[j] = <<Lv(B, h)[i], r>>
               PROVE  FALSE
    OBVIOUS
  <2>1. Len(A) \in Nat /\ Len(B) \in Nat
    OBVIOUS
  <2>2. g <= Len(A) /\ h \in g .. Len(B) /\ h - 1 \in g .. Len(B) /\ h - 1 \in Nat
        /\ (h - 1) + 1 = h /\ h <= Len(B)
    BY <2>1
  <2>3. /\ 2 * j - 1 \in 1 .. Len(Lv(A, g))
        /\ \/ Lv(A, g + 1)[j] = <<Lv(A, g)[2 * j - 1], Lv(A, g)[2 * j]>>
           \/ Lv(A, g + 1)[j] = Lv(A, g)[2 * j - 1]
    BY ParentFacts
  <2>4. CASE Lv(A, g + 1)[j] = Lv(A, g)[2 * j - 1]
    BY <1>3, <2>2, <2>3, <2>4
  <2>5. CASE Lv(A, g + 1)[j] = <<Lv(A, g)[2 * j - 1], Lv(A, g)[2 * j]>>
    <3>1. Lv(A, g)[2 * j - 1] = Lv(B, h)[i]
      BY <2>5
    <3> DEFINE e == h - 1
    <3>2. e \in Nat /\ e + 1 = h /\ e + 1 <= Len(B) /\ e \in g .. Len(B)
      BY <2>2
    <3> HIDE DEF e
    <3>3. /\ Len(Lv(B, e)) \in Nat /\ Len(Lv(B, e + 1)) = (Len(Lv(B, e)) + 1) \div 2
          /\ Len(Lv(B, e + 1)) \in Nat
          /\ \A k \in 1 .. Len(Lv(B, e + 1)) :
                /\ 2 * k - 1 \in 1 .. Len(Lv(B, e))
                /\ \/ /\ 2 * k \in 1 .. Len(Lv(B, e))
                      /\ Lv(B, e + 1)[k] = <<Lv(B, e)[2 * k - 1], Lv(B, e)[2 * k]>>
                   \/ /\ 2 * k = Len(Lv(B, e)) + 1
                      /\ Lv(B, e + 1)[k] = Lv(B, e)[2 * k - 1]
      BY <3>2, ParentFacts
    <3>4. i \in Nat /\ i >= 1 /\ i + 1 <= Len(Lv(B, e + 1)) /\ i \in 1 .. Len(Lv(B, e + 1))
      BY <3>2, <3>3
    <3>5. /\ 2 * i # Len(Lv(B, e)) + 1
          /\ 2 * i - 1 \in 1 .. Len(Lv(B, e)) - 1
      <4>1. ASSUME NEW m \in Nat, NEW n \in Nat, n = (m + 1) \div 2, i + 1 <= n
            PROVE  2 * i # m + 1 /\ 2 * i - 1 \in 1 .. m - 1
        BY <3>4, <4>1
      <4>2. QED
        BY <3>3, <3>4, <4>1
    <3>6. Lv(B, e + 1)[i] = <<Lv(B, e)[2 * i - 1], Lv(B, e)[2 * i]>>
      BY <3>3, <3>4, <3>5
    <3>8. QED
      BY <1>3, <2>2, <2>3, <3>1, <3>2, <3>5, <3>6
  <2>6. QED
    BY <2>3, <2>4, <2>5
<1>4. \A g \in Nat : g \in P
  <2> HIDE DEF P
  <2>1. QED
    BY <1>2, <1>3, NumbersInduction
<1>5. QED
  BY <1>4

LEMMA ParentsDetermine ==
  ASSUME NEW S, NEW A \in Seq(S), A # <<>>, NEW B \in Seq(S), B # <<>>,
         NEW h \in Nat, h + 1 <= Len(A), h + 1 <= Len(B), Lv(A, h + 1) = Lv(B, h + 1)
  PROVE  \A i \in 1 .. Len(Lv(A, h)) :
            i \in 1 .. Len(Lv(B, h)) /\ Lv(A, h)[i] = Lv(B, h)[i]
<1> DEFINE X == Lv(A, h)
           Y == Lv(B, h)
           N == Lv(A, h + 1)
<1>1. /\ Len(X) \in Nat /\ Len(Y) \in Nat /\ Len(N) \in Nat
      /\ Len(N) = (Len(X) + 1) \div 2
  BY ParentFacts
<1>2. \A k \in 1 .. Len(N) :
         /\ 2 * k - 1 \in 1 .. Len(X)
         /\ \/ 2 * k \in 1 .. Len(X) /\ N[k] = <<X[2 * k - 1], X[2 * k]>>
            \/ 2 * k = Len(X) + 1 /\ N[k] = X[2 * k - 1]
  BY ParentFacts
<1>3. \A k \in 1 .. Len(N) :
         /\ 2 * k - 1 \in 1 .. Len(Y)
         /\ \/ 2 * k \in 1 .. Len(Y) /\ N[k] = <<Y[2 * k - 1], Y[2 * k]>>
            \/ 2 * k = Len(Y) + 1 /\ N[k] = Y[2 * k - 1]
  BY ParentFacts
<1>4. h <= Len(A) /\ h <= Len(B) /\ h \in h .. Len(A) /\ h \in h .. Len(B)
  OBVIOUS
<1>5. \A j \in 1 .. Len(X), i \in 1 .. Len(Y) - 1 : \A r : X[j] # <<Y[i], r>>
  BY <1>4, NotPromoted
<1>6. \A j \in 1 .. Len(Y), i \in 1 .. Len(X) - 1 : \A r : Y[j] # <<X[i], r>>
  BY <1>4, NotPromoted
<1> HIDE DEF X, Y, N
<1>7. ASSUME NEW k \in 1 .. Len(N)
      PROVE  /\ X[2 * k - 1] = Y[2 * k - 1]
             /\ 2 * k \in 1 .. Len(X) => 2 * k \in 1 .. Len(Y) /\ X[2 * k] = Y[2 * k]
  <2>1. /\ 2 * k - 1 \in 1 .. Len(X) /\ 2 * k - 1 \in 1 .. Len(Y)
        /\ 2 * k \in 1 .. Len(X) => 2 * k - 1 \in 1 .. Len(X) - 1
        /\ 2 * k \in 1 .. Len(Y) => 2 * k - 1 \in 1 .. Len(Y) - 1
        /\ 2 * k = Len(X) + 1 => 2 * k \notin 1 .. Len(X)
    <3>1. ASSUME NEW m \in Nat
          PROVE  /\ 2 * k \in 1 .. m => 2 * k - 1 \in 1 .. m - 1
                 /\ 2 * k = m + 1 => 2 * k \notin 1 .. m
      <4>1. k \in Nat /\ k >= 1
        BY <1>1
      <4>2. QED
        BY <4>1
    <3>2. QED
      BY <1>1, <1>2, <1>3, <3>1
  <2>2. CASE N[k] = <<X[2 * k - 1], X[2 * k]>> /\ 2 * k \in 1 .. Len(X)
    <3>1. N[k] # Y[2 * k - 1]
      BY <1>6, <2>1, <2>2
    <3>2. N[k] = <<Y[2 * k - 1], Y[2 * k]>> /\ 2 * k \in 1 .. Len(Y)
      BY <1>3, <3>1
    <3>3. <<X[2 * k - 1], X[2 * k]>> = <<Y[2 * k - 1], Y[2 * k]>>
      BY <2>2, <3>2
    <3>4. QED
      BY <3>2, <3>3
  <2>3. CASE N[k] = X[2 * k - 1] /\ 2 * k = Len(X) + 1
    <3>1. 2 * k \in 1 .. Len(Y) => N[k] # <<Y[2 * k - 1], Y[2 * k]>>
      BY <1>5, <2>1, <2>3
    <3>2. QED
      BY <1>3, <2>1, <2>3, <3>1
  <2>4. QED
    BY <1>2, <2>2, <2>3
<1>8. ASSUME NEW i \in 1 .. Len(X)
      PROVE  i \in 1 .. Len(Y) /\ X[i] = Y[i]
  <2>1. \E k \in 1 .. Len(N) : i = 2 * k - 1 \/ i = 2 * k
    <3>1. (i + 1) \div 2 \in 1 .. Len(N)
      BY <1>1
    <3>2. i = 2 * ((i + 1) \div 2) - 1 \/ i = 2 * ((i + 1) \div 2)
      OBVIOUS
    <3>3. QED
      BY <3>1, <3>2
  <2>2. QED
    BY <1>3, <1>7, <2>1
<1>9. QED
  BY <1>8 DEF X, Y

\* A level is known by its length and its nodes.
LEMMA LevelsEqual ==
  ASSUME NEW S, NEW A \in Seq(S), A # <<>>, NEW B \in Seq(S), B # <<>>,
         NEW h \in Nat, h <= Len(A), h <= Len(B),
         \A i \in 1 .. Len(Lv(A, h)) : i \in 1 .. Len(Lv(B, h)) /\ Lv(A, h)[i] = Lv(B, h)[i],
         \A i \in 1 .. Len(Lv(B, h)) : i \in 1 .. Len(Lv(A, h))
  PROVE  Lv(A, h) = Lv(B, h)
<1>1. h \in 0 .. Len(A) /\ h \in 0 .. Len(B)
  OBVIOUS
<1>2. PICK G : Lv(A, h) \in Seq(G)
  BY <1>1, LevelFacts
<1>3. PICK H : Lv(B, h) \in Seq(H)
  BY <1>1, LevelFacts
<1> DEFINE X == Lv(A, h)
           Y == Lv(B, h)
<1> HIDE DEF X, Y
<1>4. X \in Seq(G) /\ Y \in Seq(H)
  BY <1>2, <1>3 DEF X, Y
<1>5. /\ \A i \in 1 .. Len(X) : i \in 1 .. Len(Y) /\ X[i] = Y[i]
      /\ \A i \in 1 .. Len(Y) : i \in 1 .. Len(X)
  BY DEF X, Y
<1>6. Len(X) = Len(Y)
  BY <1>4, <1>5
<1>7. X = [i \in 1 .. Len(X) |-> X[i]] /\ Y = [i \in 1 .. Len(Y) |-> Y[i]]
  BY <1>4
<1>8. X = Y
  BY <1>5, <1>6, <1>7
<1>9. QED
  BY <1>8 DEF X, Y

LEMMA RootInjective ==
  ASSUME NEW S, NEW A \in Seq(S), NEW B \in Seq(S), Root(A) = Root(B)
  PROVE  A = B
<1>1. ASSUME NEW C \in Seq(S), C # <<>>, NEW c, IsTop(C, c) PROVE Lv(C, c)[1] # NoRoot
  <2>1. c \in 0 .. Len(C) /\ 1 \in 1 .. Len(Lv(C, c))
    BY <1>1 DEF IsTop
  <2>2. QED
    BY <1>1, <2>1, NodeFacts
<1>2. ASSUME NEW C \in Seq(S), C # <<>> PROVE Root(C) # Root(<<>>)
  <2>1. PICK c : IsTop(C, c) /\ Root(C) = Lv(C, c)[1]
    BY <1>2, RootFacts
  <2>2. QED
    BY <1>1, <1>2, <2>1, EmptyRoot
<1>3. CASE A = <<>> \/ B = <<>>
  BY <1>2, <1>3
<1>4. CASE A # <<>> /\ B # <<>>
  <2>1. PICK a : IsTop(A, a) /\ Root(A) = Lv(A, a)[1]
    BY <1>4, RootFacts
  <2>2. PICK b : IsTop(B, b) /\ Root(B) = Lv(B, b)[1]
    BY <1>4, RootFacts
  <2>3. a = b
    BY <1>4, <2>1, <2>2, EqualHeights
  <2>4. a \in Nat /\ a <= Len(A) /\ a <= Len(B)
    BY <2>1, <2>2, <2>3 DEF IsTop
  <2> DEFINE P == {k \in Nat : k <= a => Lv(A, a - k) = Lv(B, a - k)}
  <2>5. 0 \in P
    <3>1. Len(Lv(A, a)) = 1 /\ Len(Lv(B, a)) = 1 /\ Lv(A, a)[1] = Lv(B, a)[1]
      BY <2>1, <2>2, <2>3 DEF IsTop
    <3>2. \A i \in 1 .. 1 : i = 1
      OBVIOUS
    <3>3. Lv(A, a) = Lv(B, a)
      BY <1>4, <2>4, <3>1, <3>2, LevelsEqual
    <3>4. QED
      BY <2>4, <3>3
  <2>6. ASSUME NEW k \in Nat, k \in P PROVE k + 1 \in P
    <3> SUFFICES ASSUME k + 1 <= a PROVE Lv(A, a - (k + 1)) = Lv(B, a - (k + 1))
      OBVIOUS
    <3> DEFINE h == a - (k + 1)
    <3>1. h \in Nat /\ h + 1 = a - k /\ h + 1 <= a /\ h + 1 <= Len(A) /\ h + 1 <= Len(B)
          /\ h <= Len(A) /\ h <= Len(B)
      BY <2>4
    <3>2. Lv(A, h + 1) = Lv(B, h + 1)
      BY <2>4, <2>6, <3>1
    <3> HIDE DEF h
    <3>3. /\ \A i \in 1 .. Len(Lv(A, h)) : i \in 1 .. Len(Lv(B, h)) /\ Lv(A, h)[i] = Lv(B, h)[i]
          /\ \A i \in 1 .. Len(Lv(B, h)) : i \in 1 .. Len(Lv(A, h))
      BY <1>4, <3>1, <3>2, ParentsDetermine
    <3>4. Lv(A, h) = Lv(B, h)
      BY <1>4, <3>1, <3>3, LevelsEqual
    <3>5. QED
      BY <3>4 DEF h
  <2>7. \A k \in Nat : k \in P
    <3> HIDE DEF P
    <3>1. QED
      BY <2>5, <2>6, NumbersInduction
  <2>8. Lv(A, 0) = Lv(B, 0)
    <3>1. a - a = 0
      BY <2>4
    <3>2. QED
      BY <2>4, <2>7, <3>1
  <2>9. Len(A) = Len(B) /\ \A i \in 1 .. Len(A) : <<A[i]>> = <<B[i]>>
    BY <2>8, LeafFacts
  <2>10. \A i \in 1 .. Len(A) : A[i] = B[i]
    BY <2>9
  <2>11. A = [i \in 1 .. Len(A) |-> A[i]] /\ B = [i \in 1 .. Len(B) |-> B[i]]
    OBVIOUS
  <2>12. QED
    BY <2>9, <2>10, <2>11
<1>5. QED
  BY <1>3, <1>4

-----------------------------------------------------------------------------
(* What holds of every behaviour of the publisher.                            *)

TypeInv == transactions \in Seq(Data) /\ root = Root(transactions)

LEMMA TypeInvariance == Spec => []TypeInv
<1>1. Init => TypeInv
  BY EmptyRoot DEF Init, TypeInv
<1>2. TypeInv /\ [Next]_vars => TypeInv'
  <2> SUFFICES ASSUME TypeInv, [Next]_vars PROVE TypeInv'
    OBVIOUS
  <2> USE DEF TypeInv
  <2>1. ASSUME NEW list \in Seq(Data), Publish(list) PROVE TypeInv'
    BY <2>1 DEF Publish
  <2>2. ASSUME NEW index \in 0 .. Len(transactions) - 1, Prove(index) PROVE TypeInv'
    BY <2>2 DEF Prove
  <2>3. CASE UNCHANGED vars
    BY <2>3 DEF vars
  <2>4. QED
    BY <2>1, <2>2, <2>3 DEF Next
<1>3. QED
  BY <1>1, <1>2, PTL DEF Spec

\* Two different lists never have the same root, however long they are.
THEOREM RootBinding == Spec => RootBindsList
<1>1. TypeInv /\ TypeInv' /\ [Next]_vars => [transactions' # transactions => root' # root]_vars
  BY RootInjective DEF TypeInv
<1>2. QED
  BY <1>1, TypeInvariance, PTL DEF Spec, RootBindsList

-----------------------------------------------------------------------------
(* Proofs verify.                                                             *)

IsClimb(f, levels, index, m) ==
    f = [h \in 0 .. m |-> IF h = 0 THEN [proof |-> <<>>, index |-> index]
                          ELSE Rise(f[h - 1], levels[h])]

LEMMA ClimbExists ==
  ASSUME NEW levels, NEW index, NEW m \in Nat
  PROVE  \E f : IsClimb(f, levels, index, m)
<1> DEFINE First == [proof |-> <<>>, index |-> index]
           After(place, h) == Rise(place, levels[h])
           P == {n \in Nat : \E f : IsClimb(f, levels, index, n)}
<1>0. ASSUME NEW f, NEW n \in Nat
      PROVE  IsClimb(f, levels, index, n)
                <=> f = [h \in 0 .. n |-> IF h = 0 THEN First ELSE After(f[h - 1], h)]
  BY DEF IsClimb
<1> HIDE DEF First, After
<1>1. 0 \in P
  <2>1. [h \in 0 .. 0 |-> First] = [h \in 0 .. 0 |-> IF h = 0 THEN First
                                    ELSE After([g \in 0 .. 0 |-> First][h - 1], h)]
    OBVIOUS
  <2>2. IsClimb([h \in 0 .. 0 |-> First], levels, index, 0)
    BY <1>0, <2>1
  <2>3. QED
    BY <2>2
<1>2. ASSUME NEW n \in Nat, n \in P PROVE n + 1 \in P
  <2>1. PICK f : IsClimb(f, levels, index, n)
    BY <1>2
  <2> DEFINE g == [h \in 0 .. n + 1 |-> IF h = n + 1 THEN After(f[n], n + 1) ELSE f[h]]
  <2>2. \A h \in 0 .. n : f[h] = IF h = 0 THEN First ELSE After(f[h - 1], h)
    BY <1>0, <2>1
  <2>3. ASSUME NEW h \in 0 .. n + 1
        PROVE  g[h] = IF h = 0 THEN First ELSE After(g[h - 1], h)
    <3>1. CASE h = n + 1
      <4>1. g[h] = After(f[n], n + 1) /\ g[n] = f[n] /\ h - 1 = n /\ h # 0
        BY <3>1
      <4>2. QED
        BY <3>1, <4>1
    <3>2. CASE h \in 0 .. n
      <4>1. g[h] = f[h] /\ (h # 0 => g[h - 1] = f[h - 1])
        BY <3>2
      <4>2. QED
        BY <2>2, <3>2, <4>1
    <3>3. QED
      BY <3>1, <3>2
  <2>4. g = [h \in 0 .. n + 1 |-> IF h = 0 THEN First ELSE After(g[h - 1], h)]
    BY <2>3
  <2>5. IsClimb(g, levels, index, n + 1)
    BY <1>0, <2>4
  <2>6. QED
    BY <2>5
<1>3. \A n \in Nat : n \in P
  <2> HIDE DEF P
  <2>1. QED
    BY <1>1, <1>2, NumbersInduction
<1>4. QED
  BY <1>3

\* The loop of get_proof, level by level.
LEMMA ClimbFacts ==
  ASSUME NEW levels, NEW index, NEW m \in Nat, Len(levels) = m + 1
  PROVE  /\ Climb(levels, index)[0] = [proof |-> <<>>, index |-> index]
         /\ \A h \in 0 .. m - 1 :
               Climb(levels, index)[h + 1]
                  = Rise(Climb(levels, index)[h], levels[h + 1])
<1> DEFINE f == CHOOSE g : IsClimb(g, levels, index, m)
<1>0. Len(levels) - 1 = m
  OBVIOUS
<1>1. IsClimb(f, levels, index, m)
  BY ClimbExists
<1>2. Climb(levels, index) = f
  BY <1>0 DEF Climb, IsClimb
<1> HIDE DEF f
<1>3. f[0] = [proof |-> <<>>, index |-> index]
  BY <1>1 DEF IsClimb
<1>4. \A h \in 1 .. m : f[h] = Rise(f[h - 1], levels[h])
  BY <1>1 DEF IsClimb
<1>5. \A h \in 0 .. m - 1 : h + 1 \in 1 .. m /\ (h + 1) - 1 = h
  OBVIOUS
<1>6. QED
  BY <1>2, <1>3, <1>4, <1>5

IsFolded(f, tx, proof, m) ==
    f = [k \in 0 .. m |-> IF k = 0 THEN HashLeaf(tx) ELSE Combine(f[k - 1], proof[k])]

LEMMA FoldedExists ==
  ASSUME NEW tx, NEW proof, NEW m \in Nat
  PROVE  \E f : IsFolded(f, tx, proof, m)
<1> DEFINE P == {n \in Nat : \E f : IsFolded(f, tx, proof, n)}
<1>1. 0 \in P
  <2>1. IsFolded([h \in 0 .. 0 |-> HashLeaf(tx)], tx, proof, 0)
    BY DEF IsFolded
  <2>2. QED
    BY <2>1
<1>2. ASSUME NEW n \in Nat, n \in P PROVE n + 1 \in P
  <2>1. PICK f : IsFolded(f, tx, proof, n)
    BY <1>2
  <2> DEFINE g == [h \in 0 .. n + 1 |-> IF h = n + 1 THEN Combine(f[n], proof[n + 1]) ELSE f[h]]
  <2>2. \A h \in 0 .. n : f[h] = IF h = 0 THEN HashLeaf(tx) ELSE Combine(f[h - 1], proof[h])
    BY <2>1 DEF IsFolded
  <2>3. ASSUME NEW h \in 0 .. n + 1
        PROVE  g[h] = IF h = 0 THEN HashLeaf(tx) ELSE Combine(g[h - 1], proof[h])
    <3>1. CASE h = n + 1
      <4>1. g[h] = Combine(f[n], proof[n + 1]) /\ g[n] = f[n] /\ h - 1 = n /\ h # 0
        BY <3>1
      <4>2. QED
        BY <3>1, <4>1
    <3>2. CASE h \in 0 .. n
      <4>1. g[h] = f[h] /\ (h # 0 => g[h - 1] = f[h - 1])
        BY <3>2
      <4>2. QED
        BY <2>2, <3>2, <4>1
    <3>3. QED
      BY <3>1, <3>2
  <2>4. IsFolded(g, tx, proof, n + 1)
    BY <2>3 DEF IsFolded
  <2>5. QED
    BY <2>4
<1>3. \A n \in Nat : n \in P
  <2> HIDE DEF P
  <2>1. QED
    BY <1>1, <1>2, NumbersInduction
<1>4. QED
  BY <1>3

\* The loop of verify_proof, step by step.
LEMMA FoldedFacts ==
  ASSUME NEW tx, NEW proof, NEW m \in Nat, Len(proof) = m
  PROVE  /\ Folded(tx, proof)[0] = <<tx>>
         /\ \A k \in 1 .. m : Folded(tx, proof)[k] = Combine(Folded(tx, proof)[k - 1], proof[k])
<1> DEFINE f == CHOOSE g : IsFolded(g, tx, proof, m)
<1>1. IsFolded(f, tx, proof, m)
  BY FoldedExists
<1>2. Folded(tx, proof) = f
  BY DEF Folded, IsFolded
<1> HIDE DEF f
<1>3. f[0] = <<tx>>
  BY <1>1 DEF IsFolded, HashLeaf
<1>4. \A k \in 1 .. m : f[k] = Combine(f[k - 1], proof[k])
  BY <1>1 DEF IsFolded
<1>5. QED
  BY <1>2, <1>3, <1>4

\* One more step continues from where the proof before it ended.
LEMMA FoldedAppend ==
  ASSUME NEW tx, NEW T, NEW p \in Seq(T), NEW step \in T
  PROVE  Folded(tx, p \o <<step>>)[Len(p \o <<step>>)] = Combine(Folded(tx, p)[Len(p)], step)
<1> DEFINE q == p \o <<step>>
           m == Len(p)
           P == {k \in Nat : k <= m => Folded(tx, q)[k] = Folded(tx, p)[k]}
<1>1. /\ Len(p) = m /\ m \in Nat /\ Len(q) = m + 1 /\ m + 1 \in Nat
      /\ q[m + 1] = step /\ \A k \in 1 .. m : q[k] = p[k]
  OBVIOUS
<1> HIDE DEF q, m
<1>2. Folded(tx, p)[0] = <<tx>> /\ \A k \in 1 .. m : Folded(tx, p)[k] = Combine(Folded(tx, p)[k - 1], p[k])
  BY <1>1, FoldedFacts
<1>3. Folded(tx, q)[0] = <<tx>> /\ \A k \in 1 .. m + 1 : Folded(tx, q)[k] = Combine(Folded(tx, q)[k - 1], q[k])
  BY <1>1, FoldedFacts
<1>4. 0 \in P
  BY <1>2, <1>3
<1>5. ASSUME NEW k \in Nat, k \in P PROVE k + 1 \in P
  <2> SUFFICES ASSUME k + 1 <= m PROVE Folded(tx, q)[k + 1] = Folded(tx, p)[k + 1]
    OBVIOUS
  <2>1. k + 1 \in 1 .. m /\ k + 1 \in 1 .. m + 1 /\ (k + 1) - 1 = k /\ k <= m
    BY <1>1
  <2>2. Folded(tx, q)[k] = Folded(tx, p)[k]
    BY <1>5, <2>1
  <2>3. QED
    BY <1>1, <1>2, <1>3, <2>1, <2>2
<1>6. \A k \in Nat : k \in P
  <2> HIDE DEF P
  <2>1. QED
    BY <1>4, <1>5, NumbersInduction
<1>7. Folded(tx, q)[m] = Folded(tx, p)[m] /\ m + 1 \in 1 .. m + 1 /\ (m + 1) - 1 = m
  BY <1>1, <1>6
<1>8. Folded(tx, q)[m + 1] = Combine(Folded(tx, p)[m], step)
  BY <1>1, <1>3, <1>7
<1>9. QED
  BY <1>1, <1>8 DEF q, m

StepsOver(H) == [hash : H, position : {"left", "right"}]

Nodes(A) == UNION {{Lv(A, h)[i] : i \in 1 .. Len(Lv(A, h))} : h \in 0 .. Len(A)}

\* What level X adds to the proof of its node at j (from 0), and the parent of
\* that node in level N.
Rises(X, N, j) ==
    /\ j \div 2 \in Nat
    /\ j \div 2 + 1 \in 1 .. Len(N)
    /\ \/ /\ j = 2 * (j \div 2)
          /\ j + 2 \in 1 .. Len(X)
          /\ Step(X, j) = <<[hash |-> X[j + 2], position |-> "right"]>>
          /\ N[j \div 2 + 1] = <<X[j + 1], X[j + 2]>>
       \/ /\ j = 2 * (j \div 2)
          /\ Step(X, j) = <<>>
          /\ N[j \div 2 + 1] = X[j + 1]
       \/ /\ j = 2 * (j \div 2) + 1
          /\ j \in 1 .. Len(X)
          /\ Step(X, j) = <<[hash |-> X[j], position |-> "left"]>>
          /\ N[j \div 2 + 1] = <<X[j], X[j + 1]>>

LEMMA StepFacts ==
  ASSUME NEW S, NEW A \in Seq(S), A # <<>>, NEW h \in Nat, h + 1 <= Len(A),
         NEW j \in Nat, j + 1 \in 1 .. Len(Lv(A, h))
  PROVE  Rises(Lv(A, h), Lv(A, h + 1), j)
<1> DEFINE X == Lv(A, h)
           N == Lv(A, h + 1)
           k == j \div 2 + 1
<1>1. /\ Len(X) \in Nat /\ Len(N) \in Nat /\ Len(N) = (Len(X) + 1) \div 2
      /\ \A i \in 1 .. Len(N) :
            /\ 2 * i - 1 \in 1 .. Len(X)
            /\ \/ 2 * i \in 1 .. Len(X) /\ N[i] = <<X[2 * i - 1], X[2 * i]>>
               \/ 2 * i = Len(X) + 1 /\ N[i] = X[2 * i - 1]
  BY ParentFacts
<1>2. j + 1 \in 1 .. Len(X)
  OBVIOUS
<1> SUFFICES Rises(X, N, j)
  OBVIOUS
<1> HIDE DEF X, N
<1>3. /\ k \in Nat /\ j \div 2 \in Nat
      /\ \/ j = 2 * (j \div 2) /\ j % 2 = 0 /\ 2 * k - 1 = j + 1 /\ 2 * k = j + 2
         \/ j = 2 * (j \div 2) + 1 /\ j % 2 = 1 /\ 2 * k - 1 = j /\ 2 * k = j + 1
  OBVIOUS
<1>4. k \in 1 .. Len(N)
  <2>1. ASSUME NEW m \in Nat, NEW n \in Nat, n = (m + 1) \div 2, j + 1 \in 1 .. m
        PROVE  k \in 1 .. n
    BY <2>1
  <2>2. QED
    BY <1>1, <1>2, <2>1
<1>5. /\ 2 * k - 1 \in 1 .. Len(X)
      /\ \/ 2 * k \in 1 .. Len(X) /\ N[k] = <<X[2 * k - 1], X[2 * k]>>
         \/ 2 * k = Len(X) + 1 /\ N[k] = X[2 * k - 1]
  BY <1>1, <1>4
<1>6. CASE j = 2 * (j \div 2) /\ j % 2 = 0 /\ 2 * k - 1 = j + 1 /\ 2 * k = j + 2
  <2>1. CASE 2 * k \in 1 .. Len(X) /\ N[k] = <<X[2 * k - 1], X[2 * k]>>
    <3>1. j + 2 \in 1 .. Len(X) /\ N[k] = <<X[j + 1], X[j + 2]>>
      BY <1>6, <2>1
    <3>2. j + 1 < Len(X)
      <4>1. ASSUME NEW m \in Nat, j + 2 \in 1 .. m PROVE j + 1 < m
        BY <4>1
      <4>2. QED
        BY <1>1, <3>1, <4>1
    <3>3. Step(X, j) = <<[hash |-> X[j + 2], position |-> "right"]>>
      BY <1>6, <3>2 DEF Step
    <3>4. QED
      BY <1>3, <1>4, <1>6, <3>1, <3>3 DEF Rises
  <2>2. CASE 2 * k = Len(X) + 1 /\ N[k] = X[2 * k - 1]
    <3>1. N[k] = X[j + 1]
      BY <1>6, <2>2
    <3>2. ~(j + 1 < Len(X))
      <4>1. ASSUME NEW m \in Nat, j + 2 = m + 1 PROVE ~(j + 1 < m)
        BY <4>1
      <4>2. QED
        BY <1>1, <1>6, <2>2, <4>1
    <3>3. Step(X, j) = <<>>
      BY <1>6, <3>2 DEF Step
    <3>4. QED
      BY <1>3, <1>4, <1>6, <3>1, <3>3 DEF Rises
  <2>3. QED
    BY <1>5, <2>1, <2>2
<1>7. CASE j = 2 * (j \div 2) + 1 /\ j % 2 = 1 /\ 2 * k - 1 = j /\ 2 * k = j + 1
  <2>1. j + 1 \in 1 .. Len(X) /\ j \in 1 .. Len(X) /\ j + 1 # Len(X) + 1
    <3>1. ASSUME NEW m \in Nat, j + 1 \in 1 .. m PROVE j + 1 # m + 1
      BY <3>1
    <3>2. QED
      BY <1>1, <1>2, <1>5, <1>7, <3>1
  <2>2. N[k] = <<X[j], X[j + 1]>>
    BY <1>5, <1>7, <2>1
  <2>3. Step(X, j) = <<[hash |-> X[j], position |-> "left"]>>
    BY <1>7 DEF Step
  <2>4. QED
    BY <1>3, <1>4, <1>7, <2>1, <2>2, <2>3 DEF Rises
<1>8. QED
  BY <1>3, <1>6, <1>7

LEMMA NodesOfLevel ==
  ASSUME NEW A, Len(A) \in Nat, NEW h \in 0 .. Len(A), NEW i \in 1 .. Len(Lv(A, h))
  PROVE  Lv(A, h)[i] \in Nodes(A)
BY DEF Nodes

\* Up to any height, the proof of a transaction leads to its node there.
LEMMA ClimbVerifies ==
  ASSUME NEW S, NEW A \in Seq(S), A # <<>>, NEW i \in 0 .. Len(A) - 1,
         NEW top, IsTop(A, top),
         NEW c, c[0] = [proof |-> <<>>, index |-> i],
         \A h \in 0 .. top - 1 : c[h + 1] = Rise(c[h], Lv(A, h))
  PROVE  \A h \in 0 .. top :
            /\ c[h].index \in Nat /\ c[h].index + 1 \in 1 .. Len(Lv(A, h))
            /\ c[h].proof \in Seq(StepsOver(Nodes(A)))
            /\ Folded(A[i + 1], c[h].proof)[Len(c[h].proof)] = Lv(A, h)[c[h].index + 1]
<1> DEFINE T == StepsOver(Nodes(A))
           Good(h) == /\ c[h].index \in Nat /\ c[h].index + 1 \in 1 .. Len(Lv(A, h))
                      /\ c[h].proof \in Seq(T)
                      /\ Folded(A[i + 1], c[h].proof)[Len(c[h].proof)] = Lv(A, h)[c[h].index + 1]
           P == {h \in Nat : h <= top => Good(h)}
<1>0. top \in Nat /\ top <= Len(A) /\ Len(A) \in Nat /\ i \in Nat /\ i + 1 \in 1 .. Len(A)
  BY DEF IsTop
<1>1. 0 \in P
  <2>1. c[0].index = i /\ c[0].proof = <<>>
    OBVIOUS
  <2>2. Folded(A[i + 1], <<>>)[0] = <<A[i + 1]>>
    BY FoldedFacts
  <2>3. Len(Lv(A, 0)) = Len(A) /\ Lv(A, 0)[i + 1] = <<A[i + 1]>>
    BY <1>0, LeafFacts
  <2>4. <<>> \in Seq(T) /\ Len(<<>>) = 0
    OBVIOUS
  <2> HIDE DEF T
  <2>5. Good(0)
    BY <1>0, <2>1, <2>2, <2>3, <2>4
  <2>6. QED
    BY <2>5
<1>2. ASSUME NEW h \in Nat, h \in P PROVE h + 1 \in P
  <2> SUFFICES ASSUME h + 1 <= top PROVE Good(h + 1)
    OBVIOUS
  <2>1. Good(h) /\ h \in 0 .. top - 1 /\ h + 1 <= Len(A) /\ h \in 0 .. Len(A)
    BY <1>0, <1>2
  <2> DEFINE j == c[h].index
             p == c[h].proof
             X == Lv(A, h)
             N == Lv(A, h + 1)
             tx == A[i + 1]
  <2>2. c[h + 1].index = j \div 2 /\ c[h + 1].proof = p \o Step(X, j)
    <3>1. c[h + 1] = Rise(c[h], X)
      BY <2>1
    <3> HIDE DEF X
    <3>2. /\ Rise(c[h], X).index = c[h].index \div 2
          /\ Rise(c[h], X).proof = c[h].proof \o Step(X, c[h].index)
      BY DEF Rise
    <3>3. QED
      BY <3>1, <3>2
  <2>3. j \in Nat /\ j + 1 \in 1 .. Len(X) /\ p \in Seq(T) /\ Folded(tx, p)[Len(p)] = X[j + 1]
    BY <2>1
  <2>4. Rises(X, N, j)
    BY <2>1, <2>3, StepFacts
  <2>5. \A k \in 1 .. Len(X) : X[k] \in Nodes(A)
    BY <1>0, <2>1, NodesOfLevel
  <2>6. SUFFICES /\ p \o Step(X, j) \in Seq(T)
                 /\ Folded(tx, p \o Step(X, j))[Len(p \o Step(X, j))] = N[j \div 2 + 1]
    <3> HIDE DEF j, p, X, N, tx
    <3>1. j \div 2 \in Nat /\ j \div 2 + 1 \in 1 .. Len(N)
      BY <2>4 DEF Rises
    <3>2. QED
      BY <2>2, <3>1 DEF N, tx
  <2> HIDE DEF j, p, X, N, tx
  <2>7. ASSUME NEW step \in T, Step(X, j) = <<step>>, Combine(X[j + 1], step) = N[j \div 2 + 1]
        PROVE  /\ p \o Step(X, j) \in Seq(T)
               /\ Folded(tx, p \o Step(X, j))[Len(p \o Step(X, j))] = N[j \div 2 + 1]
    <3> HIDE DEF T
    <3>1. p \o <<step>> \in Seq(T)
      BY <2>3
    <3>2. Folded(tx, p \o <<step>>)[Len(p \o <<step>>)] = Combine(Folded(tx, p)[Len(p)], step)
      BY <2>3, FoldedAppend
    <3>3. QED
      BY <2>3, <2>7, <3>1, <3>2
  <2>8. CASE /\ j + 2 \in 1 .. Len(X)
             /\ Step(X, j) = <<[hash |-> X[j + 2], position |-> "right"]>>
             /\ N[j \div 2 + 1] = <<X[j + 1], X[j + 2]>>
    <3> DEFINE step == [hash |-> X[j + 2], position |-> "right"]
    <3>1. step \in T
      BY <2>5, <2>8 DEF StepsOver
    <3>2. Combine(X[j + 1], step) = N[j \div 2 + 1]
      BY <2>8 DEF Combine, HashNode
    <3>3. QED
      BY <2>7, <2>8, <3>1, <3>2
  <2>9. CASE /\ Step(X, j) = <<>>
             /\ N[j \div 2 + 1] = X[j + 1]
    <3> HIDE DEF T
    <3>1. p \o <<>> = p
      BY <2>3
    <3>2. QED
      BY <2>3, <2>9, <3>1
  <2>10. CASE /\ j \in 1 .. Len(X)
              /\ Step(X, j) = <<[hash |-> X[j], position |-> "left"]>>
              /\ N[j \div 2 + 1] = <<X[j], X[j + 1]>>
    <3> DEFINE step == [hash |-> X[j], position |-> "left"]
    <3>1. step \in T
      BY <2>5, <2>10 DEF StepsOver
    <3>2. Combine(X[j + 1], step) = N[j \div 2 + 1]
      BY <2>10 DEF Combine, HashNode
    <3>3. QED
      BY <2>7, <2>10, <3>1, <3>2
  <2>11. QED
    BY <2>4, <2>8, <2>9, <2>10 DEF Rises
<1>3. \A h \in Nat : h \in P
  <2> HIDE DEF P
  <2>1. QED
    BY <1>1, <1>2, NumbersInduction
<1>4. QED
  BY <1>0, <1>3

\* get_proof climbs from a leaf to the root.
LEMMA GetProofFacts ==
  ASSUME NEW S, NEW A \in Seq(S), A # <<>>, NEW top, IsTop(A, top), HasLevels(A, top),
         NEW i
  PROVE  /\ GetProof(A, i) = Climb(Levels(A), i)[top].proof
         /\ Climb(Levels(A), i)[0] = [proof |-> <<>>, index |-> i]
         /\ \A h \in 0 .. top - 1 :
               Climb(Levels(A), i)[h + 1] = Rise(Climb(Levels(A), i)[h], Lv(A, h))
<1>1. top \in Nat /\ (top + 1) - 1 = top
  BY DEF IsTop
<1>2. GetProof(A, i) = Climb(Levels(A), i)[top].proof
  BY <1>1 DEF GetProof, HasLevels
<1> DEFINE L == Levels(A)
<1>3. \A h \in 0 .. top - 1 : L[h + 1] = Lv(A, h)
  <2> SUFFICES ASSUME NEW h \in 0 .. top - 1 PROVE L[h + 1] = Lv(A, h)
    OBVIOUS
  <2>1. h + 1 \in 1 .. top + 1 /\ (h + 1) - 1 = h
    BY <1>1
  <2>2. QED
    BY <2>1 DEF HasLevels
<1>4. Len(L) = top + 1
  BY DEF HasLevels
<1> HIDE DEF L
<1>5. /\ Climb(L, i)[0] = [proof |-> <<>>, index |-> i]
      /\ \A h \in 0 .. top - 1 : Climb(L, i)[h + 1] = Rise(Climb(L, i)[h], L[h + 1])
  BY <1>1, <1>4, ClimbFacts
<1>6. QED
  BY <1>2, <1>3, <1>5 DEF L

\* The proof get_proof makes for a transaction verifies.
LEMMA HonestProofVerifies ==
  ASSUME NEW S, NEW A \in Seq(S), NEW i \in 1 .. Len(A)
  PROVE  /\ GetProof(A, i - 1) \in Seq(StepsOver(Nodes(A)))
         /\ VerifyProof(A[i], GetProof(A, i - 1), Root(A))
<1> DEFINE k == i - 1
<1>1. A # <<>> /\ k \in 0 .. Len(A) - 1 /\ k + 1 = i
  OBVIOUS
<1>2. PICK top : /\ IsTop(A, top)
                 /\ HasLevels(A, top)
                 /\ Root(A) = Lv(A, top)[1]
  BY <1>1, RootFacts
<1> HIDE DEF k
<1> DEFINE c == Climb(Levels(A), k)
<1>3. /\ GetProof(A, k) = c[top].proof
      /\ c[0] = [proof |-> <<>>, index |-> k]
      /\ \A h \in 0 .. top - 1 : c[h + 1] = Rise(c[h], Lv(A, h))
  BY <1>1, <1>2, GetProofFacts
<1> HIDE DEF c
<1>4. top \in 0 .. top /\ Len(Lv(A, top)) = 1 /\ top \in 0 .. Len(A)
  BY <1>2 DEF IsTop
<1>5. /\ c[top].index \in Nat /\ c[top].index + 1 \in 1 .. Len(Lv(A, top))
      /\ c[top].proof \in Seq(StepsOver(Nodes(A)))
      /\ Folded(A[k + 1], c[top].proof)[Len(c[top].proof)] = Lv(A, top)[c[top].index + 1]
  <2>1. \A h \in 0 .. top :
            /\ c[h].index \in Nat /\ c[h].index + 1 \in 1 .. Len(Lv(A, h))
            /\ c[h].proof \in Seq(StepsOver(Nodes(A)))
            /\ Folded(A[k + 1], c[h].proof)[Len(c[h].proof)] = Lv(A, h)[c[h].index + 1]
    BY <1>1, <1>2, <1>3, ClimbVerifies
  <2>2. QED
    BY <1>4, <2>1
<1>6. c[top].index + 1 = 1
  BY <1>4, <1>5
<1>7. Lv(A, top)[1] # NoRoot
  <2>1. 1 \in 1 .. Len(Lv(A, top))
    BY <1>4
  <2>2. QED
    BY <1>1, <1>4, <2>1, NodeFacts
<1>8. VerifyProof(A[i], GetProof(A, k), Root(A))
  BY <1>1, <1>2, <1>3, <1>5, <1>6, <1>7 DEF VerifyProof
<1>9. QED
  BY <1>3, <1>5, <1>8 DEF k

\* Every transaction of the current list has a proof that verifies.
THEOREM ProofsVerification == Spec => []ProofsVerify
<1>1. TypeInv => ProofsVerify
  <2> SUFFICES ASSUME TypeInv, NEW i \in DOMAIN transactions
               PROVE  VerifyProof(transactions[i], GetProof(transactions, i - 1), root)
    BY DEF ProofsVerify
  <2>1. transactions \in Seq(Data) /\ root = Root(transactions)
    BY DEF TypeInv
  <2>2. i \in 1 .. Len(transactions)
    BY <2>1
  <2>3. QED
    BY <2>1, <2>2, HonestProofVerifies
<1>2. QED
  BY <1>1, TypeInvariance, PTL

-----------------------------------------------------------------------------
(* A proof that verifies is the proof of a transaction of the list.           *)

\* The proof of each transaction below the node at j (from 0) of height h ends
\* with what follows the first k steps of proof.
LeadsTo(A, proof, k, h, j) ==
    \A i \in 0 .. Len(A) - 1 :
        Climb(Levels(A), i)[h].index = j =>
            GetProof(A, i) = Climb(Levels(A), i)[h].proof \o SubSeq(proof, k + 1, Len(proof))

\* Some prefix of proof leads from tx to a node of height h, and the rest goes
\* on as the proofs below that node do.
Meets(A, tx, proof, h) ==
    \E k \in 0 .. Len(proof), j \in Nat :
        /\ j + 1 \in 1 .. Len(Lv(A, h))
        /\ Folded(tx, proof)[k] = Lv(A, h)[j + 1]
        /\ LeadsTo(A, proof, k, h, j)

LEMMA OneStepFewer ==
  ASSUME NEW T, NEW p \in Seq(T), NEW q \in Seq(T), NEW k \in 1 .. Len(q)
  PROVE  (p \o <<q[k]>>) \o SubSeq(q, k + 1, Len(q)) = p \o SubSeq(q, (k - 1) + 1, Len(q))
<1> DEFINE n == Len(q)
           r == SubSeq(q, k + 1, n)
           t == SubSeq(q, k, n)
<1>1. n \in Nat /\ k \in Nat /\ k >= 1 /\ k <= n /\ q[k] \in T /\ (k - 1) + 1 = k
  OBVIOUS
<1>2. r \in Seq(T) /\ Len(r) = n - k /\ \A i \in 1 .. n - k : r[i] = q[k + i]
  <2>1. \A i \in 1 .. n - k : (k + 1) + i - 1 = k + i
    BY <1>1
  <2>2. QED
    BY <1>1, <2>1
<1>3. t \in Seq(T) /\ Len(t) = n - k + 1 /\ \A i \in 1 .. n - k + 1 : t[i] = q[k + i - 1]
  BY <1>1
<1>4. <<q[k]>> \o r = t
  <2> DEFINE u == <<q[k]>> \o r
  <2>1. u \in Seq(T) /\ Len(u) = n - k + 1
    BY <1>1, <1>2
  <2>2. ASSUME NEW i \in 1 .. n - k + 1 PROVE u[i] = t[i]
    <3>1. CASE i = 1
      BY <1>1, <1>2, <1>3, <3>1
    <3>2. CASE i # 1
      <4>1. i - 1 \in 1 .. n - k /\ k + (i - 1) = k + i - 1 /\ i \in Nat /\ i > 1
        BY <1>1, <3>2
      <4>2. u[i] = r[i - 1]
        BY <1>1, <1>2, <4>1
      <4>3. QED
        BY <1>2, <1>3, <4>1, <4>2
    <3>3. QED
      BY <3>1, <3>2
  <2> HIDE DEF u, t
  <2>3. u = t
    BY <1>3, <2>1, <2>2
  <2>4. QED
    BY <2>3 DEF u
<1> HIDE DEF r, t
<1>5. (p \o <<q[k]>>) \o r = p \o (<<q[k]>> \o r)
  <2>1. <<q[k]>> \in Seq(T)
    BY <1>1
  <2>2. QED
    BY <1>2, <2>1, ConcatAssociative
<1>6. QED
  BY <1>1, <1>4, <1>5 DEF r, t

\* From a node to the one of its children where the proof comes from.
LEMMA LeadsDown ==
  ASSUME NEW S, NEW A \in Seq(S), A # <<>>, NEW H, NEW proof \in Seq(StepsOver(H)),
         NEW top, IsTop(A, top), HasLevels(A, top), NEW h \in Nat, h + 1 <= top,
         NEW k \in 0 .. Len(proof), NEW j \in Nat, LeadsTo(A, proof, k, h + 1, j),
         NEW below \in Nat, below \div 2 = j, NEW kk,
         \/ Step(Lv(A, h), below) = <<>> /\ kk = k
         \/ Step(Lv(A, h), below) = <<proof[k]>> /\ k # 0 /\ kk = k - 1
  PROVE  LeadsTo(A, proof, kk, h, below)
<1> DEFINE C(i) == Climb(Levels(A), i)
           T == StepsOver(Nodes(A) \cup H)
           m == Len(proof)
<1> HIDE DEF T
<1>1. ASSUME NEW i \in 0 .. Len(A) - 1, C(i)[h].index = below
      PROVE  GetProof(A, i) = C(i)[h].proof \o SubSeq(proof, kk + 1, m)
  <2>1. h \in 0 .. top /\ h \in 0 .. top - 1
    BY DEF IsTop
  <2>2. /\ C(i)[0] = [proof |-> <<>>, index |-> i]
        /\ \A g \in 0 .. top - 1 : C(i)[g + 1] = Rise(C(i)[g], Lv(A, g))
    BY GetProofFacts
  <2> DEFINE c == C(i)
             p == c[h].proof
             X == Lv(A, h)
  <2> HIDE DEF c
  <2>3. c[0] = [proof |-> <<>>, index |-> i] /\ \A g \in 0 .. top - 1 : c[g + 1] = Rise(c[g], Lv(A, g))
    BY <2>2 DEF c
  <2>4. \A g \in 0 .. top : c[g].proof \in Seq(StepsOver(Nodes(A)))
    BY <2>3, ClimbVerifies
  <2>5. p \in Seq(T) /\ proof \in Seq(T)
    <3>1. StepsOver(Nodes(A)) \subseteq T /\ StepsOver(H) \subseteq T
      BY DEF T, StepsOver
    <3>2. p \in Seq(StepsOver(Nodes(A)))
      BY <2>1, <2>4
    <3>3. \A U, V : \A s \in Seq(U) : U \subseteq V => s \in Seq(V)
      OBVIOUS
    <3> HIDE DEF p
    <3>4. QED
      BY <3>1, <3>2, <3>3
  <2>6. c[h + 1] = Rise(c[h], X)
    BY <2>1, <2>3
  <2>7. c[h + 1].index = j /\ c[h + 1].proof = p \o Step(X, below)
    <3>1. c[h].index = below
      BY <1>1 DEF c
    <3> HIDE DEF X
    <3>2. Rise(c[h], X).index = c[h].index \div 2 /\ Rise(c[h], X).proof = p \o Step(X, c[h].index)
      BY DEF Rise
    <3>3. QED
      BY <2>6, <3>1, <3>2
  <2>8. GetProof(A, i) = (p \o Step(X, below)) \o SubSeq(proof, k + 1, m)
    <3>1. C(i)[h + 1].index = j => GetProof(A, i) = C(i)[h + 1].proof \o SubSeq(proof, k + 1, m)
      BY DEF LeadsTo
    <3> HIDE DEF p, X
    <3>2. QED
      BY <2>7, <3>1 DEF c
  <2>9. GetProof(A, i) = p \o SubSeq(proof, kk + 1, m)
    <3> HIDE DEF p, X
    <3>1. CASE Step(X, below) = <<>> /\ kk = k
      <4>1. p \o <<>> = p
        BY <2>5
      <4>2. QED
        BY <2>8, <3>1, <4>1
    <3>2. CASE Step(X, below) = <<proof[k]>> /\ k # 0 /\ kk = k - 1
      <4>1. k \in 1 .. Len(proof)
        BY <3>2
      <4>2. (p \o <<proof[k]>>) \o SubSeq(proof, k + 1, m) = p \o SubSeq(proof, (k - 1) + 1, m)
        BY <2>5, <4>1, OneStepFewer
      <4>3. QED
        BY <2>8, <3>2, <4>2
    <3>3. QED
      BY <3>1, <3>2 DEF X
  <2>10. QED
    BY <2>9 DEF c
<1>2. QED
  BY <1>1 DEF LeadsTo

\* A proof that verifies meets the path of a transaction at every height.
LEMMA MeetsBelow ==
  ASSUME NEW S, NEW A \in Seq(S), A # <<>>, NEW H, NEW proof \in Seq(StepsOver(H)), NEW tx,
         NEW top, IsTop(A, top), HasLevels(A, top), NEW h \in Nat, h + 1 <= top,
         Meets(A, tx, proof, h + 1)
  PROVE  Meets(A, tx, proof, h)
<1> DEFINE X == Lv(A, h)
           N == Lv(A, h + 1)
           F == Folded(tx, proof)
           m == Len(proof)
<1>1. PICK k \in 0 .. m, j \in Nat :
         j + 1 \in 1 .. Len(N) /\ F[k] = N[j + 1] /\ LeadsTo(A, proof, k, h + 1, j)
  BY DEF Meets
<1>2. h + 1 <= Len(A) /\ m \in Nat /\ top \in Nat
  BY DEF IsTop
<1>3. ASSUME NEW below \in Nat, below + 1 \in 1 .. Len(X) PROVE Rises(X, N, below)
  BY <1>2, <1>3, StepFacts
<1>4. F[0] = <<tx>> /\ \A i \in 1 .. m : F[i] = Combine(F[i - 1], proof[i])
  BY <1>2, FoldedFacts
<1>5. 2 * j \in Nat /\ 2 * j + 1 \in Nat /\ (2 * j) \div 2 = j /\ (2 * j + 1) \div 2 = j
      /\ 2 * (j + 1) - 1 = 2 * j + 1
  <2>1. \A n \in Nat : (2 * n) \div 2 = n /\ (2 * n + 1) \div 2 = n
    OBVIOUS
  <2>2. QED
    BY <2>1
<1>6. 2 * j + 1 \in 1 .. Len(X)
  <2>1. 2 * (j + 1) - 1 \in 1 .. Len(X)
    BY <1>1, <1>2, ParentFacts
  <2>2. QED
    BY <1>5, <2>1
<1>7. ASSUME NEW below \in Nat, below \div 2 = j, below + 1 \in 1 .. Len(X),
             NEW kk \in 0 .. m, F[kk] = X[below + 1],
             \/ Step(X, below) = <<>> /\ kk = k
             \/ Step(X, below) = <<proof[k]>> /\ k # 0 /\ kk = k - 1
      PROVE  Meets(A, tx, proof, h)
  <2>1. LeadsTo(A, proof, kk, h, below)
    BY <1>1, <1>7, LeadsDown
  <2>2. QED
    BY <1>7, <2>1 DEF Meets
<1>8. Rises(X, N, 2 * j)
  BY <1>3, <1>5, <1>6
<1> HIDE DEF X, N, F
<1>9. \/ Step(X, 2 * j) = <<>> /\ N[j + 1] = X[2 * j + 1]
      \/ /\ 2 * j + 2 \in 1 .. Len(X)
         /\ Step(X, 2 * j) = <<[hash |-> X[2 * j + 2], position |-> "right"]>>
         /\ N[j + 1] = <<X[2 * j + 1], X[2 * j + 2]>>
  <2>1. 2 * j # 2 * j + 1
    OBVIOUS
  <2>2. QED
    BY <1>5, <1>8, <2>1 DEF Rises
<1>10. CASE Step(X, 2 * j) = <<>> /\ N[j + 1] = X[2 * j + 1]
  BY <1>1, <1>5, <1>6, <1>7, <1>10
<1>11. CASE /\ 2 * j + 2 \in 1 .. Len(X)
            /\ Step(X, 2 * j) = <<[hash |-> X[2 * j + 2], position |-> "right"]>>
            /\ N[j + 1] = <<X[2 * j + 1], X[2 * j + 2]>>
  <2>1. k # 0
    <3>1. \A x, y, z : <<x>> # <<y, z>>
      OBVIOUS
    <3>2. QED
      BY <1>1, <1>4, <1>11, <3>1
  <2>2. k \in 1 .. m /\ k - 1 \in 0 .. m
    BY <1>1, <1>2, <2>1
  <2>3. F[k] = Combine(F[k - 1], proof[k]) /\ proof[k] \in StepsOver(H)
    BY <1>4, <2>2
  <2>4. /\ proof[k] = [hash |-> proof[k].hash, position |-> proof[k].position]
        /\ proof[k].position \in {"left", "right"}
    BY <2>3 DEF StepsOver
  <2>5. CASE proof[k].position = "right"
    <3>1. <<F[k - 1], proof[k].hash>> = <<X[2 * j + 1], X[2 * j + 2]>>
      BY <1>1, <1>11, <2>3, <2>5 DEF Combine, HashNode
    <3>2. F[k - 1] = X[2 * j + 1] /\ proof[k].hash = X[2 * j + 2]
      BY <3>1
    <3>3. Step(X, 2 * j) = <<proof[k]>>
      BY <1>11, <2>4, <2>5, <3>2
    <3>4. QED
      BY <1>5, <1>6, <1>7, <2>1, <2>2, <3>2, <3>3
  <2>6. CASE proof[k].position = "left"
    <3>1. <<proof[k].hash, F[k - 1]>> = <<X[2 * j + 1], X[2 * j + 2]>>
      BY <1>1, <1>11, <2>3, <2>6 DEF Combine, HashNode
    <3>2. F[k - 1] = X[2 * j + 2] /\ proof[k].hash = X[2 * j + 1]
      BY <3>1
    <3>3. (2 * j + 1) + 1 = 2 * j + 2
      BY <1>5
    <3>4. Rises(X, N, 2 * j + 1)
      BY <1>3, <1>5, <1>11, <3>3 DEF X, N
    <3>5. 2 * j + 1 # 2 * j
      OBVIOUS
    <3>6. Step(X, 2 * j + 1) = <<[hash |-> X[2 * j + 1], position |-> "left"]>>
      BY <1>5, <3>4, <3>5 DEF Rises
    <3>7. Step(X, 2 * j + 1) = <<proof[k]>>
      BY <2>4, <2>6, <3>2, <3>6
    <3>8. QED
      BY <1>5, <1>7, <1>11, <2>1, <2>2, <3>2, <3>3, <3>7
  <2>7. QED
    BY <2>4, <2>5, <2>6
<1>12. QED
  BY <1>9, <1>10, <1>11

LEMMA AcceptedProofIsTrue ==
  ASSUME NEW S, NEW A \in Seq(S), NEW H, NEW proof \in Seq(StepsOver(H)), NEW tx,
         VerifyProof(tx, proof, Root(A))
  PROVE  \E i \in 1 .. Len(A) : A[i] = tx /\ GetProof(A, i - 1) = proof
<1> DEFINE m == Len(proof)
           F == Folded(tx, proof)
<1>0. m \in Nat /\ Len(A) \in Nat
  OBVIOUS
<1>1. A # <<>>
  BY EmptyRoot DEF VerifyProof
<1>2. PICK top : IsTop(A, top) /\ HasLevels(A, top) /\ Root(A) = Lv(A, top)[1]
  BY <1>1, RootFacts
<1>3. top \in Nat /\ top \in 0 .. top /\ Len(Lv(A, top)) = 1
  BY <1>2 DEF IsTop
<1>4. ASSUME NEW i \in 0 .. Len(A) - 1
      PROVE  /\ GetProof(A, i) = Climb(Levels(A), i)[top].proof
             /\ Climb(Levels(A), i)[0] = [proof |-> <<>>, index |-> i]
             /\ Climb(Levels(A), i)[top].proof \in Seq(StepsOver(Nodes(A)))
  <2> DEFINE c == Climb(Levels(A), i)
  <2>1. /\ GetProof(A, i) = c[top].proof
        /\ c[0] = [proof |-> <<>>, index |-> i]
        /\ \A h \in 0 .. top - 1 : c[h + 1] = Rise(c[h], Lv(A, h))
    BY <1>1, <1>2, GetProofFacts
  <2> HIDE DEF c
  <2>2. \A h \in 0 .. top : c[h].proof \in Seq(StepsOver(Nodes(A)))
    BY <1>1, <1>2, <2>1, ClimbVerifies
  <2>3. QED
    BY <1>3, <2>1, <2>2 DEF c
<1> DEFINE P == {d \in Nat : d <= top => Meets(A, tx, proof, top - d)}
<1>5. 0 \in P
  <2>1. F[m] = Lv(A, top)[0 + 1] /\ 0 + 1 \in 1 .. Len(Lv(A, top)) /\ m \in 0 .. m
    BY <1>0, <1>2, <1>3 DEF VerifyProof
  <2>2. LeadsTo(A, proof, m, top, 0)
    <3>1. SubSeq(proof, m + 1, m) = <<>>
      BY <1>0
    <3>2. ASSUME NEW i \in 0 .. Len(A) - 1
          PROVE  GetProof(A, i) = Climb(Levels(A), i)[top].proof \o <<>>
      <4> DEFINE p == Climb(Levels(A), i)[top].proof
      <4>1. GetProof(A, i) = p /\ p \in Seq(StepsOver(Nodes(A)))
        BY <1>4
      <4> HIDE DEF p
      <4>2. p \o <<>> = p
        BY <4>1
      <4>3. QED
        BY <4>1, <4>2 DEF p
    <3>3. QED
      BY <3>1, <3>2 DEF LeadsTo
  <2>3. Meets(A, tx, proof, top)
    BY <2>1, <2>2 DEF Meets
  <2>4. top - 0 = top
    BY <1>3
  <2>5. QED
    BY <2>3, <2>4
<1>6. ASSUME NEW d \in Nat, d \in P PROVE d + 1 \in P
  <2> SUFFICES ASSUME d + 1 <= top PROVE Meets(A, tx, proof, top - (d + 1))
    OBVIOUS
  <2> DEFINE h == top - (d + 1)
  <2>1. h \in Nat /\ h + 1 = top - d /\ h + 1 <= top /\ d <= top
    BY <1>3
  <2>2. Meets(A, tx, proof, h + 1)
    BY <1>6, <2>1
  <2> HIDE DEF h
  <2>3. Meets(A, tx, proof, h)
    BY <1>1, <1>2, <2>1, <2>2, MeetsBelow
  <2>4. QED
    BY <2>3 DEF h
<1>7. \A d \in Nat : d \in P
  <2> HIDE DEF P
  <2>1. QED
    BY <1>5, <1>6, NumbersInduction
<1>8. Meets(A, tx, proof, 0)
  <2>1. top - top = 0 /\ top \in Nat /\ top <= top
    BY <1>3
  <2>2. top \in P
    BY <1>7, <2>1
  <2>3. Meets(A, tx, proof, top - top)
    BY <2>1, <2>2
  <2>4. QED
    BY <2>1, <2>3
<1>9. PICK k \in 0 .. m, j \in Nat :
         j + 1 \in 1 .. Len(Lv(A, 0)) /\ F[k] = Lv(A, 0)[j + 1] /\ LeadsTo(A, proof, k, 0, j)
  BY <1>8 DEF Meets
<1>10. F[0] = <<tx>> /\ \A i \in 1 .. m : F[i] = Combine(F[i - 1], proof[i])
  BY <1>0, FoldedFacts
<1>11. j + 1 \in 1 .. Len(A) /\ F[k] = <<A[j + 1]>>
  BY <1>9, LeafFacts
<1>12. k = 0
  <2> SUFFICES ASSUME k # 0 PROVE FALSE
    OBVIOUS
  <2>1. k \in 1 .. m
    BY <1>0, <1>9
  <2>2. \E x, y : F[k] = <<x, y>>
    BY <1>10, <2>1 DEF Combine, HashNode
  <2>3. \A x, y, z : <<x>> # <<y, z>>
    OBVIOUS
  <2>4. QED
    BY <1>11, <2>2, <2>3
<1>13. tx = A[j + 1]
  <2>1. <<tx>> = <<A[j + 1]>>
    BY <1>10, <1>11, <1>12
  <2>2. QED
    BY <2>1
<1>14. GetProof(A, j) = proof
  <2>1. j \in 0 .. Len(A) - 1
    BY <1>0, <1>11
  <2>2. Climb(Levels(A), j)[0].index = j /\ Climb(Levels(A), j)[0].proof = <<>>
    <3>1. Climb(Levels(A), j)[0] = [proof |-> <<>>, index |-> j]
      BY <1>4, <2>1
    <3>2. QED
      BY <3>1
  <2>3. GetProof(A, j) = <<>> \o SubSeq(proof, 0 + 1, m)
    BY <1>9, <1>12, <2>1, <2>2 DEF LeadsTo
  <2>4. <<>> \o SubSeq(proof, 1, m) = proof
    <3>1. SubSeq(proof, 1, m) = proof
      BY <1>0
    <3>2. <<>> \o proof = proof
      OBVIOUS
    <3>3. QED
      BY <3>1, <3>2
  <2>5. QED
    BY <2>3, <2>4
<1>15. (j + 1) - 1 = j
  OBVIOUS
<1>16. QED
  BY <1>11, <1>13, <1>14, <1>15

\* The proof handed out last is one get_proof made.
HeldInv == held # None => \E H : held.proof \in Seq(StepsOver(H))

LEMMA HeldInvariance == Spec => []HeldInv
<1>1. Init => HeldInv
  BY DEF Init, HeldInv
<1>2. TypeInv /\ HeldInv /\ [Next]_vars => HeldInv'
  <2> SUFFICES ASSUME TypeInv, HeldInv, [Next]_vars PROVE HeldInv'
    OBVIOUS
  <2>1. ASSUME NEW list \in Seq(Data), Publish(list) PROVE HeldInv'
    BY <2>1 DEF Publish, HeldInv
  <2>2. ASSUME NEW index \in 0 .. Len(transactions) - 1, Prove(index) PROVE HeldInv'
    <3>1. transactions \in Seq(Data)
      BY DEF TypeInv
    <3>2. index + 1 \in 1 .. Len(transactions) /\ (index + 1) - 1 = index
      BY <3>1
    <3>3. GetProof(transactions, index) \in Seq(StepsOver(Nodes(transactions)))
      <4> DEFINE i == index + 1
      <4>1. i \in 1 .. Len(transactions) /\ i - 1 = index
        BY <3>2
      <4> HIDE DEF i
      <4>2. GetProof(transactions, i - 1) \in Seq(StepsOver(Nodes(transactions)))
        BY <3>1, <4>1, HonestProofVerifies
      <4>3. QED
        BY <4>1, <4>2
    <3>4. held'.proof = GetProof(transactions, index)
      BY <2>2 DEF Prove
    <3>5. QED
      BY <3>3, <3>4 DEF HeldInv
  <2>3. CASE UNCHANGED vars
    BY <2>3 DEF vars, HeldInv
  <2>4. QED
    BY <2>1, <2>2, <2>3 DEF Next
<1>3. QED
  BY <1>1, <1>2, TypeInvariance, PTL DEF Spec

\* A proof that verifies under the current root is the proof of the
\* transaction it is checked for, in the current list.
THEOREM AcceptedProofs == Spec => []AcceptedProofsAreTrue
<1>1. TypeInv /\ HeldInv => AcceptedProofsAreTrue
  <2> SUFFICES ASSUME TypeInv, HeldInv, held # None, NEW tx \in Data,
                      VerifyProof(tx, held.proof, root)
               PROVE  \E i \in DOMAIN transactions :
                         transactions[i] = tx /\ GetProof(transactions, i - 1) = held.proof
    BY DEF AcceptedProofsAreTrue
  <2>1. PICK H : held.proof \in Seq(StepsOver(H))
    BY DEF HeldInv
  <2>2. transactions \in Seq(Data) /\ root = Root(transactions)
    BY DEF TypeInv
  <2>3. \E i \in 1 .. Len(transactions) :
           transactions[i] = tx /\ GetProof(transactions, i - 1) = held.proof
    BY <2>1, <2>2, AcceptedProofIsTrue
  <2>4. DOMAIN transactions = 1 .. Len(transactions)
    BY <2>2
  <2>5. QED
    BY <2>3, <2>4
<1>2. QED
  BY <1>1, TypeInvariance, HeldInvariance, PTL

-----------------------------------------------------------------------------
(* Powers of two.                                                             *)

ArePowers(f, m) == f = [e \in 0 .. m |-> IF e = 0 THEN 1 ELSE 2 * f[e - 1]]

LEMMA PowersExist == \A m \in Nat : \E f : ArePowers(f, m)
<1> DEFINE P == {n \in Nat : \E f : ArePowers(f, n)}
<1>1. 0 \in P
  <2>1. ArePowers([e \in 0 .. 0 |-> 1], 0)
    BY DEF ArePowers
  <2>2. QED
    BY <2>1
<1>2. ASSUME NEW n \in Nat, n \in P PROVE n + 1 \in P
  <2>1. PICK f : ArePowers(f, n)
    BY <1>2
  <2> DEFINE g == [e \in 0 .. n + 1 |-> IF e = n + 1 THEN 2 * f[n] ELSE f[e]]
  <2>2. \A e \in 0 .. n : f[e] = IF e = 0 THEN 1 ELSE 2 * f[e - 1]
    BY <2>1 DEF ArePowers
  <2>3. ASSUME NEW e \in 0 .. n + 1
        PROVE  g[e] = IF e = 0 THEN 1 ELSE 2 * g[e - 1]
    <3>1. CASE e = n + 1
      <4>1. g[e] = 2 * f[n] /\ g[n] = f[n] /\ e - 1 = n /\ e # 0
        BY <3>1
      <4>2. QED
        BY <4>1
    <3>2. CASE e \in 0 .. n
      <4>1. g[e] = f[e] /\ (e # 0 => g[e - 1] = f[e - 1])
        BY <3>2
      <4>2. QED
        BY <2>2, <3>2, <4>1
    <3>3. QED
      BY <3>1, <3>2
  <2>4. ArePowers(g, n + 1)
    BY <2>3 DEF ArePowers
  <2>5. QED
    BY <2>4
<1>3. \A n \in Nat : n \in P
  <2> HIDE DEF P
  <2>1. QED
    BY <1>1, <1>2, NumbersInduction
<1>4. QED
  BY <1>3

LEMMA PowersAgree ==
  ASSUME NEW m \in Nat, NEW n \in Nat, NEW f, ArePowers(f, m), NEW g, ArePowers(g, n)
  PROVE  \A e \in Nat : e <= m /\ e <= n => f[e] = g[e]
<1> DEFINE P == {e \in Nat : e <= m /\ e <= n => f[e] = g[e]}
<1>1. /\ \A e \in 0 .. m : f[e] = IF e = 0 THEN 1 ELSE 2 * f[e - 1]
      /\ \A e \in 0 .. n : g[e] = IF e = 0 THEN 1 ELSE 2 * g[e - 1]
  BY DEF ArePowers
<1>2. 0 \in P
  BY <1>1
<1>3. ASSUME NEW e \in Nat, e \in P PROVE e + 1 \in P
  <2> SUFFICES ASSUME e + 1 <= m, e + 1 <= n PROVE f[e + 1] = g[e + 1]
    OBVIOUS
  <2>1. e + 1 \in 0 .. m /\ e + 1 \in 0 .. n /\ e + 1 # 0 /\ (e + 1) - 1 = e
        /\ f[e] = g[e]
    BY <1>3
  <2>2. QED
    BY <1>1, <2>1
<1>4. \A e \in Nat : e \in P
  <2> HIDE DEF P
  <2>1. QED
    BY <1>2, <1>3, NumbersInduction
<1>5. QED
  BY <1>4

LEMMA PowerUnfolds ==
  PowerOfTwo[0] = 1 /\ \A e \in Nat : PowerOfTwo[e + 1] = 2 * PowerOfTwo[e]
<1> DEFINE f(m) == CHOOSE f : ArePowers(f, m)
           g == [e \in Nat |-> f(e)[e]]
<1>1. \A m \in Nat : ArePowers(f(m), m)
  BY PowersExist
<1> HIDE DEF f
<1>2. ASSUME NEW e \in Nat PROVE g[e] = IF e = 0 THEN 1 ELSE 2 * g[e - 1]
  <2>1. f(e)[e] = IF e = 0 THEN 1 ELSE 2 * f(e)[e - 1]
    <3>1. e \in 0 .. e
      OBVIOUS
    <3>2. QED
      BY <1>1, <3>1 DEF ArePowers
  <2>2. CASE e = 0
    BY <2>1, <2>2
  <2>3. CASE e # 0
    <3>1. e - 1 \in Nat /\ e - 1 <= e
      BY <2>3
    <3>2. f(e)[e - 1] = f(e - 1)[e - 1]
      <4> DEFINE d == e - 1
      <4>1. d \in Nat /\ d <= e /\ d <= d
        BY <3>1
      <4> HIDE DEF d
      <4>2. f(e)[d] = f(d)[d]
        BY <1>1, <4>1, PowersAgree
      <4>3. QED
        BY <4>2 DEF d
    <3>3. QED
      BY <2>1, <2>3, <3>1, <3>2
  <2>4. QED
    BY <2>2, <2>3
<1>3. g = [e \in Nat |-> IF e = 0 THEN 1 ELSE 2 * g[e - 1]]
  BY <1>2
<1> HIDE DEF g
<1>4. PowerOfTwo = [e \in Nat |-> IF e = 0 THEN 1 ELSE 2 * PowerOfTwo[e - 1]]
  BY <1>3 DEF PowerOfTwo
<1>5. \A e \in Nat : e + 1 \in Nat /\ e + 1 # 0 /\ (e + 1) - 1 = e
  OBVIOUS
<1>6. QED
  BY <1>4, <1>5

LEMMA PowerFacts ==
  /\ \A e \in Nat : PowerOfTwo[e] \in Nat /\ PowerOfTwo[e] >= e + 1
  /\ \A e, h \in Nat : e < h => 2 * PowerOfTwo[e] <= PowerOfTwo[h]
<1> DEFINE P == {e \in Nat : PowerOfTwo[e] \in Nat /\ PowerOfTwo[e] >= e + 1}
           R == {h \in Nat : \A e \in Nat : e < h => 2 * PowerOfTwo[e] <= PowerOfTwo[h]}
<1>1. 0 \in P
  BY PowerUnfolds
<1>2. ASSUME NEW e \in Nat, e \in P PROVE e + 1 \in P
  BY <1>2, PowerUnfolds
<1>3. \A e \in Nat : e \in P
  <2> HIDE DEF P
  <2>1. QED
    BY <1>1, <1>2, NumbersInduction
<1>4. 0 \in R
  OBVIOUS
<1>5. ASSUME NEW h \in Nat, h \in R PROVE h + 1 \in R
  <2> SUFFICES ASSUME NEW e \in Nat, e < h + 1 PROVE 2 * PowerOfTwo[e] <= PowerOfTwo[h + 1]
    OBVIOUS
  <2>1. PowerOfTwo[h + 1] = 2 * PowerOfTwo[h] /\ PowerOfTwo[h] \in Nat /\ PowerOfTwo[e] \in Nat
    BY <1>3, PowerUnfolds
  <2>2. CASE e = h
    BY <2>1, <2>2
  <2>3. CASE e < h
    BY <1>5, <2>1, <2>3
  <2>4. QED
    BY <2>2, <2>3
<1>6. \A h \in Nat : h \in R
  <2> HIDE DEF R
  <2>1. QED
    BY <1>4, <1>5, NumbersInduction
<1>7. QED
  BY <1>3, <1>6

\* There is one power of two below n that is at least half of it.
LEMMA SplitIs ==
  ASSUME NEW n \in Nat, NEW h \in Nat, PowerOfTwo[h] < n, n <= 2 * PowerOfTwo[h]
  PROVE  SplitPoint(n) = PowerOfTwo[h]
<1> DEFINE K == {PowerOfTwo[e] : e \in 0 .. n}
<1>1. h \in 0 .. n
  BY PowerFacts
<1>2. ASSUME NEW e \in 0 .. n, PowerOfTwo[e] < n, n <= 2 * PowerOfTwo[e]
      PROVE  e = h
  <2>1. /\ PowerOfTwo[e] \in Nat /\ PowerOfTwo[h] \in Nat
        /\ e < h => 2 * PowerOfTwo[e] <= PowerOfTwo[h]
        /\ h < e => 2 * PowerOfTwo[h] <= PowerOfTwo[e]
    BY PowerFacts
  <2>2. ~(e < h) /\ ~(h < e)
    BY <1>2, <2>1
  <2>3. QED
    BY <2>2
<1>3. PowerOfTwo[h] \in K /\ \A k \in K : k < n /\ n <= 2 * k => k = PowerOfTwo[h]
  BY <1>1, <1>2
<1>4. QED
  BY <1>3 DEF SplitPoint

LEMMA SplitExists ==
  \A n \in Nat : n >= 2 =>
     \E h \in Nat : PowerOfTwo[h] < n /\ n <= 2 * PowerOfTwo[h]
<1> DEFINE P == {n \in Nat : n >= 2 =>
                    \E h \in Nat : PowerOfTwo[h] < n /\ n <= 2 * PowerOfTwo[h]}
<1>1. 0 \in P
  OBVIOUS
<1>2. ASSUME NEW n \in Nat, n \in P PROVE n + 1 \in P
  <2> SUFFICES ASSUME n + 1 >= 2
               PROVE  \E h \in Nat : PowerOfTwo[h] < n + 1 /\ n + 1 <= 2 * PowerOfTwo[h]
    OBVIOUS
  <2>1. CASE n = 1
    BY <2>1, PowerUnfolds
  <2>2. CASE n >= 2
    <3>1. PICK h \in Nat : PowerOfTwo[h] < n /\ n <= 2 * PowerOfTwo[h]
      BY <1>2, <2>2
    <3>2. /\ PowerOfTwo[h] \in Nat /\ PowerOfTwo[h + 1] = 2 * PowerOfTwo[h] /\ h + 1 \in Nat
      BY PowerFacts, PowerUnfolds
    <3>3. CASE n = 2 * PowerOfTwo[h]
      <4>1. PowerOfTwo[h + 1] < n + 1 /\ n + 1 <= 2 * PowerOfTwo[h + 1]
        BY <2>2, <3>2, <3>3
      <4>2. QED
        BY <3>2, <4>1
    <3>4. CASE n # 2 * PowerOfTwo[h]
      <4>1. PowerOfTwo[h] < n + 1 /\ n + 1 <= 2 * PowerOfTwo[h]
        BY <3>1, <3>2, <3>4
      <4>2. QED
        BY <4>1
    <3>5. QED
      BY <3>3, <3>4
  <2>3. QED
    BY <2>1, <2>2
<1>3. \A n \in Nat : n \in P
  <2> HIDE DEF P
  <2>1. QED
    BY <1>1, <1>2, NumbersInduction
<1>4. QED
  BY <1>3

LEMMA SplitFacts ==
  ASSUME NEW n \in Nat, n >= 2
  PROVE  SplitPoint(n) \in 1 .. n - 1 /\ n - SplitPoint(n) \in 1 .. n - 1
<1>1. PICK h \in Nat : PowerOfTwo[h] < n /\ n <= 2 * PowerOfTwo[h]
  BY SplitExists
<1>2. SplitPoint(n) = PowerOfTwo[h] /\ PowerOfTwo[h] \in Nat /\ PowerOfTwo[h] >= 1
  BY <1>1, SplitIs, PowerFacts
<1>3. QED
  BY <1>1, <1>2

-----------------------------------------------------------------------------
(* The tree hash of RFC 6962.                                                 *)

AreParts(f, A, m) ==
    f = [n \in 1 .. m |-> [lo \in 1 .. Len(A) - n + 1 |-> Part(f, A, n, lo)]]

\* A part depends on shorter ones only.
LEMMA PartDepends ==
  ASSUME NEW A, NEW n \in Nat, n >= 1, NEW f, NEW g, \A k \in 1 .. n - 1 : f[k] = g[k], NEW lo
  PROVE  Part(f, A, n, lo) = Part(g, A, n, lo)
<1>1. CASE n = 1
  BY <1>1 DEF Part
<1>2. CASE n # 1
  <2>1. SplitPoint(n) \in 1 .. n - 1 /\ n - SplitPoint(n) \in 1 .. n - 1
    <3>1. n >= 2
      BY <1>2
    <3>2. QED
      BY <3>1, SplitFacts
  <2>2. f[SplitPoint(n)] = g[SplitPoint(n)] /\ f[n - SplitPoint(n)] = g[n - SplitPoint(n)]
    BY <2>1
  <2>3. QED
    BY <1>2, <2>2 DEF Part
<1>3. QED
  BY <1>1, <1>2

LEMMA PartsExist ==
  ASSUME NEW A
  PROVE  \A m \in Nat : \E f : AreParts(f, A, m)
<1> DEFINE Row(f, n) == [lo \in 1 .. Len(A) - n + 1 |-> Part(f, A, n, lo)]
           P == {m \in Nat : \E f : AreParts(f, A, m)}
<1>1. 0 \in P
  <2> DEFINE none == [n \in 1 .. 0 |-> 0]
  <2>1. none = [n \in 1 .. 0 |-> Row(none, n)]
    OBVIOUS
  <2>2. AreParts(none, A, 0)
    BY <2>1 DEF AreParts
  <2>3. QED
    BY <2>2
<1>2. ASSUME NEW m \in Nat, m \in P PROVE m + 1 \in P
  <2>1. PICK f : AreParts(f, A, m)
    BY <1>2
  <2> DEFINE g == [n \in 1 .. m + 1 |-> IF n = m + 1 THEN Row(f, m + 1) ELSE f[n]]
  <2>2. \A n \in 1 .. m : f[n] = Row(f, n)
    BY <2>1 DEF AreParts
  <2>3. \A n \in 1 .. m : g[n] = f[n]
    OBVIOUS
  <2>4. g[m + 1] = Row(f, m + 1)
    OBVIOUS
  <2>5. g = [n \in 1 .. m + 1 |-> g[n]]
    OBVIOUS
  <2> HIDE DEF g
  <2>6. ASSUME NEW n \in 1 .. m + 1 PROVE g[n] = Row(g, n)
    <3>1. \A k \in 1 .. n - 1 : f[k] = g[k]
      BY <2>3
    <3>2. n \in Nat /\ n >= 1
      OBVIOUS
    <3>3. \A lo \in 1 .. Len(A) - n + 1 : Part(f, A, n, lo) = Part(g, A, n, lo)
      BY <3>1, <3>2, PartDepends
    <3>4. Row(f, n) = Row(g, n)
      BY <3>3
    <3> HIDE DEF Row
    <3>5. CASE n = m + 1
      BY <2>4, <3>4, <3>5
    <3>6. CASE n \in 1 .. m
      BY <2>2, <2>3, <3>4, <3>6
    <3>7. QED
      BY <3>5, <3>6
  <2>7. g = [n \in 1 .. m + 1 |-> Row(g, n)]
    <3> HIDE DEF Row
    <3>1. QED
      BY <2>5, <2>6
  <2>8. AreParts(g, A, m + 1)
    BY <2>7 DEF AreParts
  <2>9. QED
    BY <2>8
<1>3. \A m \in Nat : m \in P
  <2> HIDE DEF P
  <2>1. QED
    BY <1>1, <1>2, NumbersInduction
<1>4. QED
  BY <1>3

LEMMA PartsFacts ==
  ASSUME NEW A, Len(A) \in Nat
  PROVE  \A n \in 1 .. Len(A), lo \in 1 .. Len(A) :
            lo + n <= Len(A) + 1 => Parts(A)[n][lo] = Part(Parts(A), A, n, lo)
<1> DEFINE f == CHOOSE g : AreParts(g, A, Len(A))
<1>1. AreParts(f, A, Len(A))
  BY PartsExist
<1>2. Parts(A) = f
  BY DEF Parts, AreParts
<1> HIDE DEF f
<1>3. \A n \in 1 .. Len(A) : f[n] = [lo \in 1 .. Len(A) - n + 1 |-> Part(f, A, n, lo)]
  BY <1>1 DEF AreParts
<1>4. \A n \in 1 .. Len(A), lo \in 1 .. Len(A) : lo + n <= Len(A) + 1 => lo \in 1 .. Len(A) - n + 1
  OBVIOUS
<1>5. QED
  BY <1>2, <1>3, <1>4

Smaller(m, n) == IF m <= n THEN m ELSE n

\* Node j of height h is the hash of the 2 ^ h leaves, or of those that are
\* left, from the one after the j - 1 nodes before it.
Covers(A, h, j) ==
    LET w     == PowerOfTwo[h]
        start == (j - 1) * w
    IN  /\ start < Len(A)
        /\ Lv(A, h)[j] = Parts(A)[Smaller(w, Len(A) - start)][start + 1]

Complete(A, h) == Len(A) <= Len(Lv(A, h)) * PowerOfTwo[h]

LEMMA LevelCovers ==
  ASSUME NEW S, NEW A \in Seq(S), A # <<>>
  PROVE  \A h \in Nat : h <= Len(A) =>
            Complete(A, h) /\ \A j \in 1 .. Len(Lv(A, h)) : Covers(A, h, j)
<1> DEFINE n == Len(A)
           P == {h \in Nat : h <= n =>
                    Complete(A, h) /\ \A j \in 1 .. Len(Lv(A, h)) : Covers(A, h, j)}
<1>0. n \in Nat /\ n >= 1
  OBVIOUS
<1>1. 0 \in P
  <2>1. Len(Lv(A, 0)) = n /\ \A j \in 1 .. n : Lv(A, 0)[j] = <<A[j]>>
    BY LeafFacts
  <2>2. PowerOfTwo[0] = 1
    BY PowerUnfolds
  <2>3. Complete(A, 0)
    BY <1>0, <2>1, <2>2 DEF Complete
  <2>4. ASSUME NEW j \in 1 .. n PROVE Covers(A, 0, j)
    <3>1. (j - 1) * 1 = j - 1 /\ j - 1 < n /\ (j - 1) + 1 = j /\ Smaller(1, n - (j - 1)) = 1
      BY <1>0 DEF Smaller
    <3>2. Parts(A)[1][j] = Part(Parts(A), A, 1, j)
      <4>1. 1 \in 1 .. n /\ j + 1 <= n + 1
        BY <1>0
      <4>2. QED
        BY <1>0, <4>1, PartsFacts
    <3>3. Part(Parts(A), A, 1, j) = <<A[j]>>
      BY DEF Part, HashLeaf
    <3>4. QED
      BY <2>1, <2>2, <3>1, <3>2, <3>3 DEF Covers
  <2>5. QED
    BY <2>1, <2>3, <2>4
<1>2. ASSUME NEW h \in Nat, h \in P PROVE h + 1 \in P
  <2> SUFFICES ASSUME h + 1 <= n
               PROVE  Complete(A, h + 1) /\ \A j \in 1 .. Len(Lv(A, h + 1)) : Covers(A, h + 1, j)
    OBVIOUS
  <2> DEFINE X == Lv(A, h)
             N == Lv(A, h + 1)
             w == PowerOfTwo[h]
             v == PowerOfTwo[h + 1]
  <2>1. Complete(A, h) /\ \A j \in 1 .. Len(X) : Covers(A, h, j)
    BY <1>0, <1>2
  <2>2. /\ Len(X) \in Nat /\ Len(N) \in Nat /\ Len(N) = (Len(X) + 1) \div 2
        /\ \A k \in 1 .. Len(N) :
              /\ 2 * k - 1 \in 1 .. Len(X)
              /\ \/ 2 * k \in 1 .. Len(X) /\ N[k] = <<X[2 * k - 1], X[2 * k]>>
                 \/ 2 * k = Len(X) + 1 /\ N[k] = X[2 * k - 1]
    BY <1>0, ParentFacts
  <2>3. w \in Nat /\ w >= 1 /\ v = 2 * w /\ v \in Nat
    <3>1. PowerOfTwo[h] \in Nat /\ PowerOfTwo[h] >= h + 1
      BY PowerFacts
    <3>2. PowerOfTwo[h + 1] = 2 * PowerOfTwo[h]
      BY PowerUnfolds
    <3>3. QED
      BY <3>1, <3>2
  <2>4. n <= Len(X) * w
    BY <2>1 DEF Complete
  <2>5. \A j \in 1 .. Len(X) :
           /\ (j - 1) * w < n
           /\ X[j] = Parts(A)[Smaller(w, n - (j - 1) * w)][(j - 1) * w + 1]
    BY <2>1 DEF Covers
  <2> HIDE DEF X, N, n, w, v
  <2>6. Complete(A, h + 1)
    <3>1. ASSUME NEW a \in Nat, NEW b \in Nat, b = (a + 1) \div 2, n <= a * w
          PROVE  n <= b * v
      <4>1. a <= 2 * b
        BY <3>1
      <4>2. a * w <= (2 * b) * w
        BY <2>3, <4>1
      <4>3. (2 * b) * w = b * v
        BY <2>3
      <4>4. a * w \in Nat /\ b * v \in Nat
        BY <2>3
      <4>5. QED
        BY <1>0, <3>1, <4>2, <4>3, <4>4
    <3>2. n <= Len(N) * v
      BY <2>2, <2>4, <3>1
    <3>3. QED
      BY <3>2 DEF Complete, n, N, v
  <2>7. ASSUME NEW k \in 1 .. Len(N) PROVE Covers(A, h + 1, k)
    <3> DEFINE start == (k - 1) * v
    <3>1. k \in Nat /\ k >= 1
      BY <2>2
    <3>2. /\ ((2 * k - 1) - 1) * w = start
          /\ (2 * k - 1) * w = start + w
          /\ start \in Nat
      BY <2>3, <3>1
    <3> HIDE DEF start
    <3>3. 2 * k - 1 \in 1 .. Len(X)
      BY <2>2
    <3>4. start < n /\ X[2 * k - 1] = Parts(A)[Smaller(w, n - start)][start + 1]
      BY <2>5, <3>2, <3>3
    <3>5. CASE 2 * k \in 1 .. Len(X) /\ N[k] = <<X[2 * k - 1], X[2 * k]>>
      <4>1. start + w < n /\ X[2 * k] = Parts(A)[Smaller(w, n - (start + w))][start + w + 1]
        BY <2>5, <3>2, <3>5
      <4> DEFINE s == Smaller(v, n - start)
      <4>2. /\ s \in Nat /\ w < s /\ s <= 2 * w /\ s <= n /\ s >= 2 /\ s # 1
            /\ start + 1 + s <= n + 1
            /\ Smaller(w, n - start) = w /\ Smaller(w, n - (start + w)) = s - w
        BY <1>0, <2>3, <3>2, <4>1 DEF Smaller
      <4> HIDE DEF s
      <4>3. SplitPoint(s) = w
        BY <4>2, SplitIs DEF w
      <4>4. Parts(A)[s][start + 1] = Part(Parts(A), A, s, start + 1)
        <5>1. s \in 1 .. n /\ start + 1 \in 1 .. n /\ (start + 1) + s <= n + 1
          BY <1>0, <3>2, <3>4, <4>2
        <5>2. QED
          BY <1>0, <5>1, PartsFacts DEF n
      <4>5. Part(Parts(A), A, s, start + 1)
               = <<Parts(A)[w][start + 1], Parts(A)[s - w][(start + 1) + w]>>
        BY <4>2, <4>3 DEF Part, HashNode
      <4>6. (start + 1) + w = start + w + 1
        BY <2>3, <3>2
      <4>7. N[k] = Parts(A)[s][start + 1]
        BY <3>4, <3>5, <4>1, <4>2, <4>4, <4>5, <4>6
      <4>8. QED
        BY <3>4, <4>7 DEF Covers, s, start, n, N, v
    <3>6. CASE 2 * k = Len(X) + 1 /\ N[k] = X[2 * k - 1]
      <4>1. n <= start + w
        <5>1. Len(X) = 2 * k - 1
          BY <2>2, <3>1, <3>6
        <5>2. QED
          BY <2>4, <3>2, <5>1
      <4>2. Smaller(w, n - start) = Smaller(v, n - start)
        BY <1>0, <2>3, <3>2, <3>4, <4>1 DEF Smaller
      <4>3. N[k] = Parts(A)[Smaller(v, n - start)][start + 1]
        BY <3>4, <3>6, <4>2
      <4>4. QED
        BY <3>4, <4>3 DEF Covers, start, n, N, v
    <3>7. QED
      BY <2>2, <3>5, <3>6
  <2>8. QED
    BY <2>6, <2>7 DEF N
<1>3. \A h \in Nat : h \in P
  <2> HIDE DEF P
  <2>1. QED
    BY <1>1, <1>2, NumbersInduction
<1>4. QED
  BY <1>3

LEMMA RootIsTreeHash ==
  ASSUME NEW S, NEW A \in Seq(S), A # <<>>
  PROVE  Root(A) = RFC6962(A)
<1>1. PICK top : IsTop(A, top) /\ Root(A) = Lv(A, top)[1]
  BY RootFacts
<1>2. top \in Nat /\ top <= Len(A) /\ Len(Lv(A, top)) = 1 /\ Len(A) \in Nat
  BY <1>1 DEF IsTop
<1>3. Complete(A, top) /\ Covers(A, top, 1)
  <2>1. 1 \in 1 .. Len(Lv(A, top))
    BY <1>2
  <2>2. QED
    BY <1>2, <2>1, LevelCovers
<1> DEFINE w == PowerOfTwo[top]
<1>4. w \in Nat
  BY <1>2, PowerFacts
<1>5. Len(A) <= w
  BY <1>2, <1>3, <1>4 DEF Complete
<1>6. Lv(A, top)[1] = Parts(A)[Smaller(w, Len(A) - (1 - 1) * w)][(1 - 1) * w + 1]
  BY <1>3 DEF Covers
<1> HIDE DEF w
<1>7. (1 - 1) * w + 1 = 1 /\ Smaller(w, Len(A) - (1 - 1) * w) = Len(A)
  BY <1>2, <1>4, <1>5 DEF Smaller
<1>8. QED
  BY <1>1, <1>6, <1>7 DEF RFC6962

\* The root of every list is its tree hash by RFC 6962.
THEOREM RootsAreTreeHashes == Spec => []RootIsRFC6962
<1>1. TypeInv => RootIsRFC6962
  BY EmptyRoot, RootIsTreeHash DEF TypeInv, RootIsRFC6962
<1>2. QED
  BY <1>1, TypeInvariance, PTL
=============================================================================
