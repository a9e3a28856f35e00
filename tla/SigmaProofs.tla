---------------------------- MODULE SigmaProofs ----------------------------
(* What Schnorr proofs promise, over every group with parameters like those   *)
(* of the code.                                                               *)
EXTENDS Sigma, Induction

-----------------------------------------------------------------------------
(* Remainders.                                                                *)

LEMMA ModRange ==
  ASSUME NEW m \in Nat, m > 0, NEW a \in Int
  PROVE  a % m \in 0 .. m - 1 /\ a % m \in Nat /\ a % m < m
OBVIOUS

LEMMA DivMod ==
  ASSUME NEW m \in Nat, m > 0, NEW a \in Int
  PROVE  a \div m \in Int /\ a = (a \div m) * m + (a % m)
OBVIOUS

LEMMA ModIs ==
  ASSUME NEW m \in Nat, m > 0, NEW q \in Int, NEW r \in 0 .. m - 1
  PROVE  (q * m + r) % m = r
OBVIOUS

LEMMA ModSmall ==
  ASSUME NEW m \in Nat, m > 0, NEW r \in 0 .. m - 1
  PROVE  r % m = r
OBVIOUS

LEMMA ModShift ==
  ASSUME NEW m \in Nat, m > 0, NEW a \in Int, NEW k \in Int
  PROVE  (a + k * m) % m = a % m
<1> DEFINE q == a \div m
           r == a % m
<1>1. q \in Int /\ a = q * m + r /\ r \in 0 .. m - 1
  BY ModRange, DivMod
<1> HIDE DEF q, r
<1>2. a + k * m = (q + k) * m + r /\ q + k \in Int
  BY <1>1
<1>3. ((q + k) * m + r) % m = r
  BY <1>1, <1>2, ModIs
<1>4. QED
  BY <1>2, <1>3 DEF r

LEMMA ModTimes ==
  ASSUME NEW m \in Nat, m > 0, NEW a \in Int, NEW b \in Int
  PROVE  ((a % m) * b) % m = (a * b) % m
<1> DEFINE q == a \div m
           r == a % m
<1>1. q \in Int /\ a = q * m + r /\ r \in Nat
  BY ModRange, DivMod
<1> HIDE DEF q, r
<1>2. a * b = r * b + (q * b) * m /\ r * b \in Int /\ q * b \in Int
  BY <1>1
<1>3. (r * b + (q * b) * m) % m = (r * b) % m
  BY <1>2, ModShift
<1>4. QED
  BY <1>2, <1>3 DEF r

\* Products modulo P.
Mul(a, b) == (a * b) % P

LEMMA Parameters ==
  /\ P \in Nat /\ P > 1 /\ Q \in Nat /\ Q > 1 /\ G \in Nat /\ Candidate \in Nat
  /\ Pow(G, Q) = 1 /\ Pow(H, Q) = 1
BY GroupParameters DEF VerifyGroupParameters, Q

LEMMA MulType ==
  ASSUME NEW a \in Int, NEW b \in Int
  PROVE  Mul(a, b) \in 0 .. P - 1 /\ Mul(a, b) \in Nat
<1>1. a * b \in Int
  OBVIOUS
<1>2. QED
  BY <1>1, Parameters, ModRange DEF Mul

LEMMA MulCommutes == \A a, b \in Int : Mul(a, b) = Mul(b, a)
<1>1. \A a, b \in Int : a * b = b * a
  OBVIOUS
<1>2. QED
  BY <1>1 DEF Mul

LEMMA MulLeft ==
  ASSUME NEW a \in Int, NEW b \in Int, NEW c \in Int
  PROVE  Mul(Mul(a, b), c) = (a * b * c) % P
<1> DEFINE ab == a * b
<1>1. ab \in Int /\ P \in Nat /\ P > 0
  BY Parameters
<1> HIDE DEF ab
<1>2. ((ab % P) * c) % P = (ab * c) % P
  BY <1>1, ModTimes
<1>3. QED
  BY <1>2 DEF Mul, ab

LEMMA MulAssociates ==
  ASSUME NEW a \in Int, NEW b \in Int, NEW c \in Int
  PROVE  Mul(Mul(a, b), c) = Mul(a, Mul(b, c))
<1>1. Mul(Mul(a, b), c) = (a * b * c) % P
  BY MulLeft
<1>2. Mul(Mul(b, c), a) = (b * c * a) % P
  BY MulLeft
<1>3. Mul(a, Mul(b, c)) = Mul(Mul(b, c), a)
  <2>1. Mul(b, c) \in Int
    BY MulType
  <2>2. QED
    BY <2>1, MulCommutes
<1>4. a * b * c = b * c * a
  OBVIOUS
<1>5. QED
  BY <1>1, <1>2, <1>3, <1>4

LEMMA MulOne == \A a \in 0 .. P - 1 : Mul(a, 1) = a /\ Mul(1, a) = a
<1> SUFFICES ASSUME NEW a \in 0 .. P - 1 PROVE Mul(a, 1) = a /\ Mul(1, a) = a
  OBVIOUS
<1>1. a * 1 = a /\ 1 * a = a /\ P > 0 /\ P \in Nat
  BY Parameters
<1>2. a % P = a
  BY <1>1, ModSmall
<1>3. QED
  BY <1>1, <1>2 DEF Mul

LEMMA MulReduced ==
  ASSUME NEW a \in Int, NEW b \in Int
  PROVE  Mul(a % P, b) = Mul(a, b)
<1>1. P \in Nat /\ P > 0
  BY Parameters
<1>2. ((a % P) * b) % P = (a * b) % P
  BY <1>1, ModTimes
<1>3. QED
  BY <1>2 DEF Mul

\* (a b) (c d) = (a c) (b d)
LEMMA MulSwaps ==
  ASSUME NEW a \in Nat, NEW b \in Nat, NEW c \in Nat, NEW d \in Nat
  PROVE  Mul(Mul(a, b), Mul(c, d)) = Mul(Mul(a, c), Mul(b, d))
<1>1. Mul(a, b) \in Nat /\ Mul(c, d) \in Nat /\ Mul(b, d) \in Nat /\ Mul(a, c) \in Nat
      /\ Mul(b, c) \in Nat /\ Mul(c, b) \in Nat
  BY MulType
<1>2. Mul(Mul(a, b), Mul(c, d)) = Mul(a, Mul(b, Mul(c, d)))
  BY <1>1, MulAssociates
<1>3. Mul(b, Mul(c, d)) = Mul(Mul(b, c), d) /\ Mul(Mul(c, b), d) = Mul(c, Mul(b, d))
  BY MulAssociates
<1>4. Mul(b, c) = Mul(c, b)
  BY MulCommutes
<1>5. Mul(a, Mul(c, Mul(b, d))) = Mul(Mul(a, c), Mul(b, d))
  BY <1>1, MulAssociates
<1>6. QED
  BY <1>2, <1>3, <1>4, <1>5
-----------------------------------------------------------------------------
(* Powers modulo P.                                                           *)

ArePowers(f, b, m) == f = [n \in 0 .. m |-> IF n = 0 THEN 1 ELSE (f[n - 1] * b) % P]

LEMMA PowersExist == \A b : \A m \in Nat : \E f : ArePowers(f, b, m)
<1> SUFFICES ASSUME NEW b PROVE \A m \in Nat : \E f : ArePowers(f, b, m)
  OBVIOUS
<1> DEFINE S == {n \in Nat : \E f : ArePowers(f, b, n)}
<1>1. 0 \in S
  <2>1. ArePowers([n \in 0 .. 0 |-> 1], b, 0)
    BY DEF ArePowers
  <2>2. QED
    BY <2>1
<1>2. ASSUME NEW m \in Nat, m \in S PROVE m + 1 \in S
  <2>1. PICK f : ArePowers(f, b, m)
    BY <1>2
  <2> DEFINE g == [n \in 0 .. m + 1 |-> IF n = m + 1 THEN (f[m] * b) % P ELSE f[n]]
  <2>2. \A n \in 0 .. m : f[n] = IF n = 0 THEN 1 ELSE (f[n - 1] * b) % P
    BY <2>1 DEF ArePowers
  <2>3. ASSUME NEW n \in 0 .. m + 1
        PROVE  g[n] = IF n = 0 THEN 1 ELSE (g[n - 1] * b) % P
    <3>1. CASE n = m + 1
      <4>1. g[n] = (f[m] * b) % P /\ g[m] = f[m] /\ n - 1 = m /\ n # 0
        BY <3>1
      <4>2. QED
        BY <4>1
    <3>2. CASE n \in 0 .. m
      <4>1. g[n] = f[n] /\ (n # 0 => g[n - 1] = f[n - 1])
        BY <3>2
      <4>2. QED
        BY <2>2, <3>2, <4>1
    <3>3. QED
      BY <3>1, <3>2
  <2> HIDE DEF g
  <2>4. g = [n \in 0 .. m + 1 |-> g[n]]
    BY DEF g
  <2>5. ArePowers(g, b, m + 1)
    BY <2>3, <2>4 DEF ArePowers
  <2>6. QED
    BY <2>5
<1>3. \A m \in Nat : m \in S
  <2> HIDE DEF S
  <2>1. QED
    BY <1>1, <1>2, NumbersInduction
<1>4. QED
  BY <1>3

LEMMA PowersStep ==
  ASSUME NEW b, NEW m, NEW f, ArePowers(f, b, m), NEW e \in 0 .. m
  PROVE  f[e] = IF e = 0 THEN 1 ELSE (f[e - 1] * b) % P
BY Zenon DEF ArePowers

LEMMA PowersAgree ==
  ASSUME NEW b, NEW m \in Nat, NEW n \in Nat,
         NEW f, ArePowers(f, b, m), NEW g, ArePowers(g, b, n)
  PROVE  \A e \in Nat : e <= m /\ e <= n => f[e] = g[e]
<1> DEFINE S == {e \in Nat : e <= m /\ e <= n => f[e] = g[e]}
<1>1. /\ \A e \in 0 .. m : f[e] = IF e = 0 THEN 1 ELSE (f[e - 1] * b) % P
      /\ \A e \in 0 .. n : g[e] = IF e = 0 THEN 1 ELSE (g[e - 1] * b) % P
  BY PowersStep
<1>2. 0 \in S
  BY <1>1
<1>3. ASSUME NEW e \in Nat, e \in S PROVE e + 1 \in S
  <2> SUFFICES ASSUME e + 1 <= m, e + 1 <= n PROVE f[e + 1] = g[e + 1]
    OBVIOUS
  <2>1. e + 1 \in 0 .. m /\ e + 1 \in 0 .. n /\ e + 1 # 0 /\ (e + 1) - 1 = e
        /\ f[e] = g[e]
    BY <1>3
  <2>2. QED
    BY <1>1, <2>1
<1>4. \A e \in Nat : e \in S
  <2> HIDE DEF S
  <2>1. QED
    BY <1>2, <1>3, NumbersInduction
<1>5. QED
  BY <1>4

\* Pow multiplies e times by b.
LEMMA PowUnfolds ==
  ASSUME NEW b
  PROVE  Pow(b, 0) = 1 /\ \A e \in Nat : Pow(b, e + 1) = Mul(Pow(b, e), b)
<1> DEFINE power(e) == CHOOSE f : ArePowers(f, b, e)
<1>1. \A e \in Nat : ArePowers(power(e), b, e)
  BY PowersExist
<1>2. \A e : Pow(b, e) = power(e)[e]
  BY DEF Pow, ArePowers
<1> HIDE DEF power
<1>3. power(0)[0] = 1
  BY <1>1 DEF ArePowers
<1>4. ASSUME NEW e \in Nat PROVE Pow(b, e + 1) = Mul(Pow(b, e), b)
  <2>1. e + 1 \in Nat /\ e + 1 # 0 /\ (e + 1) - 1 = e /\ e + 1 \in 0 .. e + 1
        /\ e <= e + 1 /\ e <= e
    OBVIOUS
  <2>2. ArePowers(power(e + 1), b, e + 1) /\ ArePowers(power(e), b, e)
    BY <1>1, <2>1
  <2>3. power(e + 1)[e + 1] = (power(e + 1)[e] * b) % P
    BY <2>1, <2>2 DEF ArePowers
  <2>4. power(e + 1)[e] = power(e)[e]
    BY <2>1, <2>2, PowersAgree
  <2>5. QED
    BY <1>2, <2>3, <2>4 DEF Mul
<1>5. QED
  BY <1>2, <1>3, <1>4

LEMMA PowType ==
  ASSUME NEW b \in Nat
  PROVE  \A e \in Nat : Pow(b, e) \in Nat /\ Pow(b, e) \in 0 .. P - 1
<1> DEFINE S == {e \in Nat : Pow(b, e) \in Nat /\ Pow(b, e) \in 0 .. P - 1}
<1>1. 0 \in S
  BY PowUnfolds, Parameters
<1>2. ASSUME NEW e \in Nat, e \in S PROVE e + 1 \in S
  <2>1. Pow(b, e + 1) = Mul(Pow(b, e), b)
    BY PowUnfolds
  <2> HIDE DEF S
  <2>2. Pow(b, e) \in Int /\ b \in Int
    BY <1>2 DEF S
  <2>3. Mul(Pow(b, e), b) \in 0 .. P - 1 /\ Mul(Pow(b, e), b) \in Nat
    BY <2>2, MulType
  <2>4. QED
    BY <2>1, <2>3 DEF S
<1>3. \A e \in Nat : e \in S
  <2> HIDE DEF S
  <2>1. QED
    BY <1>1, <1>2, NumbersInduction
<1>4. QED
  BY <1>3

\* b^d b^e = b^(d + e)
LEMMA PowAdds ==
  ASSUME NEW b \in Nat, NEW d \in Nat
  PROVE  \A e \in Nat : Mul(Pow(b, d), Pow(b, e)) = Pow(b, d + e)
<1> DEFINE S == {e \in Nat : Mul(Pow(b, d), Pow(b, e)) = Pow(b, d + e)}
<1>1. 0 \in S
  <2>1. Pow(b, 0) = 1 /\ Pow(b, d) \in 0 .. P - 1 /\ d + 0 = d
    BY PowUnfolds, PowType
  <2>2. QED
    BY <2>1, MulOne
<1>2. ASSUME NEW e \in Nat, e \in S PROVE e + 1 \in S
  <2>1. d + e \in Nat /\ d + (e + 1) = (d + e) + 1
    OBVIOUS
  <2>2. Pow(b, e + 1) = Mul(Pow(b, e), b) /\ Pow(b, (d + e) + 1) = Mul(Pow(b, d + e), b)
    BY <2>1, PowUnfolds
  <2>3. Pow(b, d) \in Int /\ Pow(b, e) \in Int /\ b \in Int
    BY PowType
  <2>4. Mul(Mul(Pow(b, d), Pow(b, e)), b) = Mul(Pow(b, d), Mul(Pow(b, e), b))
    BY <2>3, MulAssociates
  <2>5. QED
    BY <1>2, <2>1, <2>2, <2>4
<1>3. \A e \in Nat : e \in S
  <2> HIDE DEF S
  <2>1. QED
    BY <1>1, <1>2, NumbersInduction
<1>4. QED
  BY <1>3

\* b^(d e) = (b^d)^e
LEMMA PowTimes ==
  ASSUME NEW b \in Nat, NEW d \in Nat
  PROVE  \A e \in Nat : Pow(b, d * e) = Pow(Pow(b, d), e)
<1> DEFINE S == {e \in Nat : Pow(b, d * e) = Pow(Pow(b, d), e)}
<1>1. 0 \in S
  <2>1. d * 0 = 0
    OBVIOUS
  <2>2. QED
    BY <2>1, PowUnfolds
<1>2. ASSUME NEW e \in Nat, e \in S PROVE e + 1 \in S
  <2> DEFINE de == d * e
  <2>1. de \in Nat /\ d * (e + 1) = de + d
    OBVIOUS
  <2>2. Pow(b, de) = Pow(Pow(b, d), e)
    BY <1>2
  <2> HIDE DEF de
  <2>3. Pow(b, de + d) = Mul(Pow(b, de), Pow(b, d))
    BY <2>1, PowAdds
  <2>4. Pow(Pow(b, d), e + 1) = Mul(Pow(Pow(b, d), e), Pow(b, d))
    BY PowUnfolds
  <2>5. QED
    BY <2>1, <2>2, <2>3, <2>4
<1>3. \A e \in Nat : e \in S
  <2> HIDE DEF S
  <2>1. QED
    BY <1>1, <1>2, NumbersInduction
<1>4. QED
  BY <1>3

\* (a b)^e = a^e b^e
LEMMA PowDistributes ==
  ASSUME NEW a \in Nat, NEW b \in Nat
  PROVE  \A e \in Nat : Pow(Mul(a, b), e) = Mul(Pow(a, e), Pow(b, e))
<1> DEFINE S == {e \in Nat : Pow(Mul(a, b), e) = Mul(Pow(a, e), Pow(b, e))}
<1>1. 0 \in S
  <2>1. Pow(a, 0) = 1 /\ Pow(b, 0) = 1 /\ Pow(Mul(a, b), 0) = 1 /\ 1 \in 0 .. P - 1
    BY PowUnfolds, Parameters
  <2>2. QED
    BY <2>1, MulOne
<1>2. ASSUME NEW e \in Nat, e \in S PROVE e + 1 \in S
  <2>1. /\ Pow(Mul(a, b), e + 1) = Mul(Pow(Mul(a, b), e), Mul(a, b))
        /\ Pow(a, e + 1) = Mul(Pow(a, e), a) /\ Pow(b, e + 1) = Mul(Pow(b, e), b)
    BY PowUnfolds
  <2>2. Pow(a, e) \in Nat /\ Pow(b, e) \in Nat
    BY PowType
  <2>3. Mul(Mul(Pow(a, e), Pow(b, e)), Mul(a, b)) = Mul(Mul(Pow(a, e), a), Mul(Pow(b, e), b))
    BY <2>2, MulSwaps
  <2>4. QED
    BY <1>2, <2>1, <2>3
<1>3. \A e \in Nat : e \in S
  <2> HIDE DEF S
  <2>1. QED
    BY <1>1, <1>2, NumbersInduction
<1>4. QED
  BY <1>3

LEMMA PowOfOne == \A e \in Nat : Pow(1, e) = 1
<1> DEFINE S == {e \in Nat : Pow(1, e) = 1}
<1>1. 0 \in S
  BY PowUnfolds
<1>2. ASSUME NEW e \in Nat, e \in S PROVE e + 1 \in S
  <2>1. Pow(1, e + 1) = Mul(Pow(1, e), 1) /\ Pow(1, e) = 1
    BY <1>2, PowUnfolds
  <2>2. 1 \in 0 .. P - 1
    BY Parameters
  <2>3. QED
    BY <2>1, <2>2, MulOne
<1>3. \A e \in Nat : e \in S
  <2> HIDE DEF S
  <2>1. QED
    BY <1>1, <1>2, NumbersInduction
<1>4. QED
  BY <1>3

-----------------------------------------------------------------------------
(* The group.                                                                 *)

Group == {x \in Nat : 1 <= x /\ x < P /\ Pow(x, Q) = 1}

\* In a group of order Q exponents count modulo Q.
LEMMA ExponentsReduce ==
  ASSUME NEW b \in Nat, Pow(b, Q) = 1, NEW e \in Nat
  PROVE  Pow(b, e % Q) = Pow(b, e)
<1> DEFINE q == e \div Q
           r == e % Q
           n == Q * q
<1>1. Q \in Nat /\ Q > 0
  BY Parameters
<1>2. q \in Int /\ e = q * Q + r /\ r \in 0 .. Q - 1
  BY <1>1, ModRange, DivMod
<1> HIDE DEF q, r
<1>3. q \in Nat
  BY <1>1, <1>2
<1>4. n \in Nat /\ e = n + r /\ r \in Nat
  BY <1>1, <1>2, <1>3
<1>5. Pow(b, n) = 1
  <2>1. Pow(b, Q * q) = Pow(Pow(b, Q), q)
    BY <1>1, <1>3, PowTimes
  <2>2. QED
    BY <1>3, <2>1, PowOfOne
<1> HIDE DEF n
<1>6. Pow(b, e) = Mul(Pow(b, n), Pow(b, r))
  BY <1>4, PowAdds
<1>7. Pow(b, r) \in 0 .. P - 1
  BY <1>4, PowType
<1>8. QED
  BY <1>5, <1>6, <1>7, MulOne DEF r
LEMMA PowersOfMembers ==
  ASSUME NEW b \in Nat, Pow(b, Q) = 1, NEW e \in Nat
  PROVE  Pow(b, e) \in Nat /\ Pow(Pow(b, e), Q) = 1
<1>1. Q \in Nat /\ Q * e = e * Q
  BY Parameters
<1>2. Pow(b, Q * e) = Pow(Pow(b, Q), e) /\ Pow(b, e * Q) = Pow(Pow(b, e), Q)
  BY <1>1, PowTimes
<1>3. Pow(1, e) = 1 /\ Pow(b, e) \in Nat
  BY PowOfOne, PowType
<1>4. QED
  BY <1>1, <1>2, <1>3

\* The powers of 0 are 0, so that no product of members is.
LEMMA ZeroIsNoMember == Pow(0, Q) # 1
<1>1. Q - 1 \in Nat /\ (Q - 1) + 1 = Q /\ P \in Nat /\ P > 1
  BY Parameters
<1>2. Pow(0, Q) = Mul(Pow(0, Q - 1), 0)
  BY <1>1, PowUnfolds
<1>3. Pow(0, Q - 1) \in Int
  BY <1>1, PowType
<1>4. Pow(0, Q - 1) * 0 = 0
  BY <1>3
<1>5. 0 % P = 0
  BY <1>1
<1>6. QED
  BY <1>2, <1>4, <1>5 DEF Mul

LEMMA ProductsOfMembers ==
  ASSUME NEW a \in Nat, Pow(a, Q) = 1, NEW b \in Nat, Pow(b, Q) = 1
  PROVE  Mul(a, b) \in Group
<1>1. Q \in Nat /\ 1 \in 0 .. P - 1 /\ P \in Nat
  BY Parameters
<1>2. Pow(Mul(a, b), Q) = Mul(1, 1)
  BY <1>1, PowDistributes
<1>3. Mul(1, 1) = 1
  BY <1>1, MulOne
<1>4. Mul(a, b) \in 0 .. P - 1 /\ Mul(a, b) \in Nat
  BY MulType
<1>5. Mul(a, b) # 0
  BY <1>2, <1>3, ZeroIsNoMember
<1>6. QED
  BY <1>1, <1>2, <1>3, <1>4, <1>5 DEF Group

LEMMA HType == H \in Nat
BY PowType, Parameters DEF H

LEMMA CommitmentsAreMembers ==
  ASSUME NEW message \in Nat, NEW blinding \in Nat
  PROVE  Com(message, blinding) \in Group
<1>1. /\ Pow(G, message) \in Nat /\ Pow(Pow(G, message), Q) = 1
      /\ Pow(H, blinding) \in Nat /\ Pow(Pow(H, blinding), Q) = 1
  BY Parameters, HType, PowersOfMembers
<1>2. Mul(Pow(G, message), Pow(H, blinding)) \in Group
  BY <1>1, ProductsOfMembers
<1>3. QED
  BY <1>2 DEF Com, Mul

\* x^(Q - 1) undoes a factor x.
LEMMA Cancels ==
  ASSUME NEW x \in Group, NEW a \in 0 .. P - 1, NEW b \in 0 .. P - 1, Mul(x, a) = Mul(x, b)
  PROVE  a = b
<1> DEFINE y == Pow(x, Q - 1)
<1>1. x \in Nat /\ Pow(x, Q) = 1 /\ Q - 1 \in Nat /\ (Q - 1) + 1 = Q /\ P \in Nat
  BY Parameters DEF Group
<1>2. y \in Int /\ x \in Int /\ a \in Int /\ b \in Int
  BY <1>1, PowType
<1>3. Mul(y, x) = 1
  BY <1>1, PowUnfolds
<1> HIDE DEF y
<1>4. Mul(Mul(y, x), a) = Mul(y, Mul(x, a)) /\ Mul(Mul(y, x), b) = Mul(y, Mul(x, b))
  BY <1>2, MulAssociates
<1>5. Mul(1, a) = a /\ Mul(1, b) = b
  BY MulOne
<1>6. QED
  BY <1>3, <1>4, <1>5

\* Q is prime: every challenge but 0 has an inverse.
LEMMA InverseExists ==
  ASSUME NEW e \in 1 .. Q - 1
  PROVE  \E f \in Nat : (e * f) % Q = 1
<1> DEFINE T == {n \in Nat : n >= 1 /\ \E f \in Int : (e * f) % Q = n}
<1>1. Q \in Nat /\ Q > 1 /\ \A d \in 2 .. Q - 1 : Q % d # 0
  BY Parameters, GroupParameters
<1>2. T \in SUBSET Nat /\ T # {}
  <2>1. (e * 1) % Q = e /\ e \in Nat /\ e >= 1
    <3>1. e * 1 = e
      OBVIOUS
    <3>2. e % Q = e
      BY <1>1, ModSmall
    <3>3. QED
      BY <1>1, <3>1, <3>2
  <2>2. \E f \in Int : (e * f) % Q = e
    <3>1. 1 \in Int
      OBVIOUS
    <3>2. QED
      BY <2>1, <3>1, Zenon
  <2>3. e \in T
    BY <2>1, <2>2
  <2>4. QED
    BY <2>3
<1>3. PICK n \in T : \A m \in T : n <= m
  <2> HIDE DEF T
  <2>1. QED
    BY <1>2, LeastElement
<1>4. n \in Nat /\ n >= 1
  BY <1>3
<1>5. PICK f \in Int : (e * f) % Q = n
  BY <1>3
<1>6. n < Q
  BY <1>1, <1>5, ModRange
<1>7. n = 1
  <2> SUFFICES ASSUME n # 1 PROVE FALSE
    OBVIOUS
  <2> DEFINE q == Q \div n
             r == Q % n
             c == (e * f) \div Q
             ef == e * f
  <2>1. n \in 2 .. Q - 1 /\ n > 0
    BY <1>1, <1>4, <1>6
  <2>2. q \in Int /\ Q = q * n + r /\ r \in 0 .. n - 1 /\ r # 0
    BY <1>1, <1>4, <2>1, DivMod, ModRange
  <2>3. ef \in Int
    OBVIOUS
  <2>4. c \in Int /\ ef = c * Q + n
    <3> HIDE DEF ef
    <3>1. ef \div Q \in Int /\ ef = (ef \div Q) * Q + (ef % Q)
      BY <1>1, <2>3, DivMod
    <3>2. QED
      BY <1>5, <3>1 DEF ef
  <2> HIDE DEF q, r, c
  <2>5. e * (0 - q * f) = r + (0 - q * c - 1) * Q /\ 0 - q * f \in Int /\ 0 - q * c - 1 \in Int
    <3>1. e * (0 - q * f) = 0 - q * ef
      BY <2>2
    <3>2. 0 - q * ef = 0 - q * (c * Q + n)
      BY <2>4
    <3>3. q * (c * Q + n) = (q * c) * Q + q * n
      BY <1>1, <1>4, <2>2, <2>4
    <3>4. (0 - q * c - 1) * Q = 0 - (q * c) * Q - Q
      BY <1>1, <2>2, <2>4
    <3>5. q * n \in Int /\ (q * c) * Q \in Int /\ r \in Int
      BY <1>1, <1>4, <2>2, <2>4
    <3>6. 0 - q * f \in Int /\ 0 - q * c - 1 \in Int
      BY <2>2, <2>4
    <3>7. QED
      BY <1>1, <2>2, <3>1, <3>2, <3>3, <3>4, <3>5, <3>6
  <2>6. r \in 0 .. Q - 1 /\ r \in Nat /\ r < n /\ r >= 1
    BY <1>1, <1>4, <1>6, <2>2
  <2>7. (e * (0 - q * f)) % Q = r
    <3> DEFINE k == 0 - q * c - 1
    <3>1. k \in Int /\ e * (0 - q * f) = r + k * Q
      BY <2>5
    <3> HIDE DEF k
    <3>2. (r + k * Q) % Q = r % Q
      BY <1>1, <2>6, <3>1, ModShift
    <3>3. r % Q = r
      BY <1>1, <2>6, ModSmall
    <3>4. QED
      BY <3>1, <3>2, <3>3
  <2>8. r \in T
    BY <2>5, <2>6, <2>7
  <2>9. n <= r
    BY <1>3, <2>8
  <2>10. QED
    BY <1>4, <2>6, <2>9
<1>8. (f % Q) \in Nat /\ (e * (f % Q)) % Q = 1
  <2>1. f % Q \in Nat
    BY <1>1, ModRange
  <2>2. ((f % Q) * e) % Q = (f * e) % Q
    <3>1. Q \in Nat /\ Q > 0 /\ e \in Int /\ f \in Int
      BY <1>1
    <3>2. QED
      BY <3>1, ModTimes, Zenon
  <2>3. (f % Q) * e = e * (f % Q) /\ f * e = e * f
    BY <2>1
  <2>4. QED
    BY <1>5, <1>7, <2>1, <2>2, <2>3
<1>9. QED
  BY <1>8
-----------------------------------------------------------------------------
(* What the proofs are made of.                                               *)

\* Raising the group's elements to a sum, reduced or not.
LEMMA ResponsePower ==
  ASSUME NEW b \in Nat, Pow(b, Q) = 1,
         NEW k \in Nat, NEW e \in Nat, NEW secret \in Nat
  PROVE  Pow(b, Response(k, e, secret)) = Mul(Pow(b, k), Pow(Pow(b, secret), e))
<1> DEFINE se == secret * e
<1>1. se \in Nat /\ e * secret = se
  OBVIOUS
<1>2. Pow(b, se) = Pow(Pow(b, secret), e)
  BY PowTimes
<1>3. Response(k, e, secret) = (k + se) % Q
  BY <1>1 DEF Response
<1> HIDE DEF se
<1>4. k + se \in Nat
  BY <1>1
<1>5. Pow(b, (k + se) % Q) = Pow(b, k + se)
  BY <1>4, ExponentsReduce
<1>6. Mul(Pow(b, k), Pow(b, se)) = Pow(b, k + se)
  BY <1>1, PowAdds
<1>7. QED
  BY <1>2, <1>3, <1>5, <1>6

\* The equation that verify_proof checks, for any two numbers that the proof
\* was made from.
LEMMA ResponsesFit ==
  ASSUME NEW message \in Nat, NEW blinding \in Nat, NEW k1 \in Nat, NEW k2 \in Nat, NEW e \in Nat
  PROVE  Mul(Pow(G, Response(k1, e, message)), Pow(H, Response(k2, e, blinding)))
            = Mul(Com(k1, k2), Pow(Com(message, blinding), e))
<1> DEFINE gm == Pow(G, message)
           hb == Pow(H, blinding)
           g  == Pow(G, k1)
           h  == Pow(H, k2)
<1>1. G \in Nat /\ H \in Nat /\ Pow(G, Q) = 1 /\ Pow(H, Q) = 1
  BY Parameters, HType
<1>2. gm \in Nat /\ hb \in Nat /\ g \in Nat /\ h \in Nat
  BY <1>1, PowType
<1>3. /\ Pow(G, Response(k1, e, message)) = Mul(g, Pow(gm, e))
      /\ Pow(H, Response(k2, e, blinding)) = Mul(h, Pow(hb, e))
  BY <1>1, ResponsePower
<1>4. Com(k1, k2) = Mul(g, h) /\ Com(message, blinding) = Mul(gm, hb)
  BY DEF Com, Mul
<1> HIDE DEF gm, hb, g, h
<1>5. Pow(Mul(gm, hb), e) = Mul(Pow(gm, e), Pow(hb, e))
  BY <1>2, PowDistributes
<1>6. Pow(gm, e) \in Nat /\ Pow(hb, e) \in Nat
  BY <1>2, PowType
<1>7. Mul(Mul(g, Pow(gm, e)), Mul(h, Pow(hb, e))) = Mul(Mul(g, h), Mul(Pow(gm, e), Pow(hb, e)))
  BY <1>2, <1>6, MulSwaps
<1>8. QED
  BY <1>3, <1>4, <1>5, <1>7

\* Different members have different powers, for every exponent that is no
\* multiple of Q.
LEMMA PowersDiffer ==
  ASSUME NEW x \in Group, NEW y \in Group, NEW e \in 1 .. Q - 1, Pow(x, e) = Pow(y, e)
  PROVE  x = y
<1>1. PICK f \in Nat : (e * f) % Q = 1
  BY InverseExists
<1>2. e \in Nat
  BY Parameters
<1>3. ASSUME NEW z \in Group PROVE Pow(Pow(z, e), f) = z
  <2> DEFINE ef == e * f
  <2>1. z \in Nat /\ Pow(z, Q) = 1 /\ z \in 0 .. P - 1
    BY Parameters DEF Group
  <2>2. ef \in Nat /\ ef % Q = 1
    BY <1>1, <1>2
  <2>3. Pow(z, ef) = Pow(Pow(z, e), f)
    BY <1>2, <2>1, PowTimes
  <2> HIDE DEF ef
  <2>4. Pow(z, ef) = Pow(z, 1)
    BY <2>1, <2>2, ExponentsReduce
  <2>5. Pow(z, 1) = z
    <3>1. Pow(z, 0 + 1) = Mul(Pow(z, 0), z) /\ Pow(z, 0) = 1
      BY PowUnfolds
    <3>2. 0 + 1 = 1
      OBVIOUS
    <3>3. QED
      BY <2>1, <3>1, <3>2, MulOne
  <2>6. QED
    BY <2>3, <2>4, <2>5
<1>4. QED
  BY <1>3

-----------------------------------------------------------------------------
(* The inductive invariant: the commitment is in the group; the proof is made *)
(* from two numbers, two nonces and the digest of its transcript; and the     *)
(* result is what the equation says of the digest of the transcript checked.  *)

DigestsInv ==
    /\ \A d \in digests : d.digest \in Nat
    /\ \A c, d \in digests : c.commitment = d.commitment /\ c.t = d.t => c = d

ProofInv ==
    proof # None =>
        /\ value \in Group
        /\ made.message \in Scalars /\ made.blinding \in Scalars
        /\ \E k1, k2 \in Scalars :
              proof = [t |-> Com(k1, k2),
                       s1 |-> Response(k1, made.e, made.message),
                       s2 |-> Response(k2, made.e, made.blinding)]
        /\ \E d \in digests :
              d.commitment = made.commitment /\ d.t = proof.t /\ made.e = Reduce(d.digest)

ResultInv ==
    result # None =>
        /\ proof # None
        /\ \E d \in digests :
              /\ d.commitment = value /\ d.t = proof.t
              /\ result = Equation(value, proof, Reduce(d.digest))

SigmaInv == (value # None => value \in Group) /\ DigestsInv /\ ProofInv /\ ResultInv

LEMMA ScalarFacts ==
  /\ Scalars \subseteq Nat /\ Message \subseteq Scalars /\ Blinding \subseteq Scalars
  /\ Nonce \subseteq Scalars /\ Digest \subseteq Nat
  /\ \A d \in Nat : Reduce(d) \in Scalars
<1>1. Scalars \subseteq Nat /\ Q \in Nat /\ Q > 0
  BY Parameters DEF Scalars
<1>2. \A d \in Nat : d % Q \in 0 .. Q - 1
  BY <1>1, ModRange
<1>3. QED
  BY <1>1, <1>2, ScalarAssumption DEF Reduce, Scalars

\* A digest once given stays, and no transcript gets a second one.
LEMMA HashKeeps ==
  ASSUME DigestsInv, NEW commitment, NEW t, NEW digest \in Nat, Hash(commitment, t, digest)
  PROVE  /\ DigestsInv'
         /\ digests \subseteq digests'
         /\ \E d \in digests' : d.commitment = commitment /\ d.t = t /\ d.digest = digest
<1> DEFINE new == [commitment |-> commitment, t |-> t, digest |-> digest]
<1>1. new.commitment = commitment /\ new.t = t /\ new.digest = digest
  OBVIOUS
<1>2. \A d \in digests : d.commitment = commitment /\ d.t = t => d = new
  BY DEF Hash
<1>3. digests' = digests \cup {new}
  BY DEF Hash
<1> HIDE DEF new
<1>4. DigestsInv'
  BY <1>1, <1>2, <1>3 DEF DigestsInv
<1>5. QED
  BY <1>1, <1>3, <1>4

LEMMA CommitKeeps ==
  ASSUME SigmaInv, NEW message \in Scalars, NEW blinding \in Scalars, Commit(message, blinding)
  PROVE  SigmaInv'
<1>1. value' \in Group
  BY ScalarFacts, CommitmentsAreMembers DEF Commit
<1>2. UNCHANGED <<proof, made, digests>> /\ result' = None
  BY DEF Commit
<1>3. DigestsInv' /\ ResultInv'
  BY <1>2 DEF SigmaInv, DigestsInv, ResultInv
<1>4. ProofInv'
  BY <1>1, <1>2 DEF SigmaInv, ProofInv
<1>5. QED
  BY <1>1, <1>3, <1>4 DEF SigmaInv

LEMMA GenerateProofKeeps ==
  ASSUME SigmaInv, NEW message \in Scalars, NEW blinding \in Scalars,
         NEW k1 \in Scalars, NEW k2 \in Scalars, NEW digest \in Nat,
         GenerateProof(message, blinding, k1, k2, digest)
  PROVE  SigmaInv'
<1> DEFINE t == Com(k1, k2)
           e == Reduce(digest)
           s1 == Response(k1, e, message)
           s2 == Response(k2, e, blinding)
<1>1. /\ value # None /\ Hash(value, t, digest)
      /\ proof' = [t |-> t, s1 |-> s1, s2 |-> s2]
      /\ made' = [commitment |-> value, message |-> message, blinding |-> blinding, e |-> e]
      /\ result' = None /\ value' = value
  BY DEF GenerateProof
<1>2. made'.commitment = value /\ made'.message = message /\ made'.blinding = blinding
      /\ made'.e = e /\ proof'.t = t
  BY <1>1
<1>3. /\ DigestsInv'
      /\ \E d \in digests' : d.commitment = value /\ d.t = t /\ d.digest = digest
  BY <1>1, HashKeeps DEF SigmaInv
<1>4. ProofInv'
  <2>1. \E d \in digests' :
           d.commitment = made'.commitment /\ d.t = proof'.t /\ made'.e = Reduce(d.digest)
    BY <1>2, <1>3
  <2>2. \E j1, j2 \in Scalars :
           proof' = [t |-> Com(j1, j2),
                     s1 |-> Response(j1, made'.e, made'.message),
                     s2 |-> Response(j2, made'.e, made'.blinding)]
    BY <1>1, <1>2
  <2>3. value' \in Group
    BY <1>1 DEF SigmaInv
  <2>4. QED
    BY <1>2, <2>1, <2>2, <2>3 DEF ProofInv
<1>5. ResultInv' /\ (value' # None => value' \in Group)
  BY <1>1 DEF SigmaInv, ResultInv
<1>6. QED
  BY <1>3, <1>4, <1>5 DEF SigmaInv

\* All there is to InRange is that commitment and proof are in the group.
LEMMA MembersAreInRange ==
  ASSUME SigmaInv, proof # None
  PROVE  InRange(value, proof) /\ value \in Group /\ proof.t \in Group
<1>1. PICK k1, k2 \in Scalars :
         proof = [t |-> Com(k1, k2),
                  s1 |-> Response(k1, made.e, made.message),
                  s2 |-> Response(k2, made.e, made.blinding)]
  BY DEF SigmaInv, ProofInv
<1>2. proof.t \in Group
  BY <1>1, ScalarFacts, CommitmentsAreMembers
<1>3. QED
  BY <1>2 DEF SigmaInv, ProofInv, Group, InRange

LEMMA VerifyProofKeeps ==
  ASSUME SigmaInv, NEW digest \in Nat, VerifyProof(digest)
  PROVE  SigmaInv'
<1>1. proof # None /\ UNCHANGED <<value, commits, proof, made>>
  BY DEF VerifyProof
<1>2. Hash(value, proof.t, digest) /\ result' = Equation(value, proof, Reduce(digest))
  BY <1>1, MembersAreInRange DEF VerifyProof
<1>3. /\ DigestsInv' /\ digests \subseteq digests'
      /\ \E d \in digests' : d.commitment = value /\ d.t = proof.t /\ d.digest = digest
  BY <1>2, HashKeeps DEF SigmaInv
<1>4. ProofInv'
  BY <1>1, <1>3 DEF SigmaInv, ProofInv
<1>5. ResultInv'
  <2>1. PICK d \in digests' : d.commitment = value /\ d.t = proof.t /\ d.digest = digest
    BY <1>3
  <2>2. value' = value /\ proof' = proof /\ proof' # None
    BY <1>1
  <2>3. result' = Equation(value', proof', Reduce(d.digest))
    BY <1>2, <2>1, <2>2
  <2>4. QED
    BY <2>1, <2>2, <2>3 DEF ResultInv, Equation
<1>6. QED
  BY <1>1, <1>3, <1>4, <1>5 DEF SigmaInv

LEMMA SigmaInvariance == Spec => []SigmaInv
<1>1. Init => SigmaInv
  BY DEF Init, SigmaInv, DigestsInv, ProofInv, ResultInv
<1>2. ASSUME SigmaInv, [Next]_vars PROVE SigmaInv'
  <2>1. CASE Next
    <3>1. \A m \in Message \cup {Reduce(d) : d \in Digest} : m \in Scalars
      BY ScalarFacts
    <3>2. ASSUME NEW message \in Message \cup {Reduce(d) : d \in Digest},
                 NEW blinding \in Blinding, Commit(message, blinding)
          PROVE  SigmaInv'
      BY <1>2, <3>1, <3>2, ScalarFacts, CommitKeeps
    <3>3. ASSUME NEW message \in Message \cup {Reduce(d) : d \in Digest},
                 NEW blinding \in Blinding, NEW k1 \in Nonce, NEW k2 \in Nonce,
                 NEW digest \in Digest, GenerateProof(message, blinding, k1, k2, digest)
          PROVE  SigmaInv'
      <4>1. message \in Scalars /\ blinding \in Scalars /\ k1 \in Scalars /\ k2 \in Scalars
            /\ digest \in Nat
        BY <3>1, ScalarFacts
      <4>2. QED
        BY <1>2, <3>3, <4>1, GenerateProofKeeps
    <3>4. ASSUME NEW digest \in Digest, VerifyProof(digest) PROVE SigmaInv'
      BY <1>2, <3>4, ScalarFacts, VerifyProofKeeps
    <3>5. QED
      BY <2>1, <3>2, <3>3, <3>4 DEF Next
  <2>2. CASE UNCHANGED vars
    BY <1>2, <2>2 DEF vars, SigmaInv, DigestsInv, ProofInv, ResultInv, Equation
  <2>3. QED
    BY <1>2, <2>1, <2>2
<1>3. QED
  BY <1>1, <1>2, PTL DEF Spec
-----------------------------------------------------------------------------
(* What the proofs show.                                                      *)

\* The challenge is the one that verify_proof got.
LEMMA ResultIs ==
  ASSUME SigmaInv, result # None
  PROVE  /\ proof # None /\ Challenge \in Scalars
         /\ result = Equation(value, proof, Challenge)
         /\ made.commitment = value => Challenge = made.e
<1>1. PICK d \in digests :
         /\ d.commitment = value /\ d.t = proof.t
         /\ result = Equation(value, proof, Reduce(d.digest))
  BY DEF SigmaInv, ResultInv
<1>2. \A c \in digests : c.commitment = value /\ c.t = proof.t => c = d
  BY <1>1 DEF SigmaInv, DigestsInv
<1>3. (CHOOSE c \in digests : c.commitment = value /\ c.t = proof.t) = d
  BY <1>1, <1>2
<1>4. Challenge = Reduce(d.digest)
  BY <1>3 DEF Challenge
<1>5. proof # None /\ Reduce(d.digest) \in Scalars
  BY ScalarFacts DEF SigmaInv, ResultInv, DigestsInv
<1>6. made.commitment = value => Reduce(d.digest) = made.e
  BY <1>2, <1>5 DEF SigmaInv, ProofInv
<1>7. QED
  BY <1>1, <1>4, <1>5, <1>6

\* What the equation says of a proof that generate_proof made.
LEMMA EquationIs ==
  ASSUME SigmaInv, proof # None
  PROVE  /\ made.message \in Scalars /\ made.blinding \in Scalars
         /\ made.e \in Scalars /\ proof.t \in Group
         /\ Mul(Pow(G, proof.s1), Pow(H, proof.s2))
               = Mul(proof.t, Pow(Com(made.message, made.blinding), made.e))
<1>1. made.message \in Scalars /\ made.blinding \in Scalars /\ made.e \in Scalars
  BY ScalarFacts DEF SigmaInv, ProofInv, DigestsInv
<1>2. PICK k1, k2 \in Scalars :
         proof = [t |-> Com(k1, k2),
                  s1 |-> Response(k1, made.e, made.message),
                  s2 |-> Response(k2, made.e, made.blinding)]
  BY DEF SigmaInv, ProofInv
<1>3. /\ proof.t = Com(k1, k2)
      /\ proof.s1 = Response(k1, made.e, made.message)
      /\ proof.s2 = Response(k2, made.e, made.blinding)
  BY <1>2
<1>4. /\ made.message \in Nat /\ made.blinding \in Nat /\ made.e \in Nat
      /\ k1 \in Nat /\ k2 \in Nat
  BY <1>1, ScalarFacts
<1>5. Mul(Pow(G, proof.s1), Pow(H, proof.s2))
         = Mul(proof.t, Pow(Com(made.message, made.blinding), made.e))
  BY <1>3, <1>4, ResponsesFit
<1>6. proof.t \in Group
  BY MembersAreInRange
<1>7. QED
  BY <1>1, <1>5, <1>6

\* A proof made from an opening of the commitment verifies.
THEOREM HonestProofs == Spec => []HonestProofsVerify
<1>1. ASSUME SigmaInv PROVE HonestProofsVerify
  <2> SUFFICES ASSUME result # None, made.commitment = value,
                      VerifyOpening(value, made.message, made.blinding)
               PROVE  result = TRUE
    BY DEF HonestProofsVerify
  <2>1. /\ proof # None /\ Challenge = made.e
        /\ result = Equation(value, proof, Challenge)
    BY <1>1, ResultIs
  <2>2. value = Com(made.message, made.blinding)
    BY DEF VerifyOpening
  <2>3. Mul(Pow(G, proof.s1), Pow(H, proof.s2)) = Mul(proof.t, Pow(value, made.e))
    BY <1>1, <2>1, <2>2, EquationIs
  <2>4. Equation(value, proof, made.e)
    BY <2>3 DEF Equation, Mul
  <2>5. QED
    BY <2>1, <2>4
<1>2. QED
  BY <1>1, SigmaInvariance, PTL

\* Of the proofs that generate_proof makes, one that verifies was made from an
\* opening of the commitment it is checked against, or its challenges are an
\* accident (schnorr.py:63-126).
THEOREM AcceptedProofsKnowOpenings == Spec => []AcceptedProofsKnow
<1>1. ASSUME SigmaInv PROVE AcceptedProofsKnow
  <2> DEFINE message == made.message
             blinding == made.blinding
             com == Com(message, blinding)
  <2> SUFFICES ASSUME result = TRUE
               PROVE  \/ VerifyOpening(value, message, blinding)
                      \/ /\ Pow(com, made.e) = Pow(value, Challenge)
                         /\ made.commitment = value => made.e = 0
    BY DEF AcceptedProofsKnow
  <2>1. result # None
    BY NoneAssumption
  <2>2. /\ proof # None /\ Challenge \in Scalars /\ Equation(value, proof, Challenge)
        /\ made.commitment = value => Challenge = made.e
    BY <1>1, <2>1, ResultIs
  <2>3. /\ message \in Scalars /\ blinding \in Scalars /\ made.e \in Scalars /\ proof.t \in Group
        /\ Mul(Pow(G, proof.s1), Pow(H, proof.s2)) = Mul(proof.t, Pow(com, made.e))
    BY <1>1, <2>2, EquationIs
  <2>4. value \in Group /\ com \in Group
    BY <1>1, <2>2, <2>3, MembersAreInRange, ScalarFacts, CommitmentsAreMembers
  <2> HIDE DEF com
  <2>5. Mul(proof.t, Pow(com, made.e)) = Mul(proof.t, Pow(value, Challenge))
    BY <2>2, <2>3 DEF Equation, Mul
  <2>6. Pow(com, made.e) \in 0 .. P - 1 /\ Pow(value, Challenge) \in 0 .. P - 1
    BY <2>2, <2>3, <2>4, ScalarFacts, PowType DEF Group
  <2>7. Pow(com, made.e) = Pow(value, Challenge)
    BY <2>3, <2>5, <2>6, Cancels
  <2>8. ASSUME made.commitment = value, made.e # 0 PROVE VerifyOpening(value, message, blinding)
    <3>1. made.e \in 1 .. Q - 1 /\ Pow(com, made.e) = Pow(value, made.e)
      BY <2>2, <2>3, <2>7, <2>8, Parameters DEF Scalars
    <3>2. com = value
      BY <2>4, <3>1, PowersDiffer
    <3>3. QED
      BY <2>3, <3>2 DEF VerifyOpening, com
  <2>9. QED
    BY <2>7, <2>8
<1>2. QED
  BY <1>1, SigmaInvariance, PTL

\* Adding Q to a response changes nothing.
THEOREM ReencodedProofs == Spec => []ReencodedProofsVerifyAlike
<1>1. ASSUME SigmaInv PROVE ReencodedProofsVerifyAlike
  <2> SUFFICES ASSUME result # None,
                      NEW p \in {[proof EXCEPT !.s1 = @ + Q], [proof EXCEPT !.s2 = @ + Q]}
               PROVE  result = (InRange(value, p) /\ Equation(value, p, Challenge))
    BY DEF ReencodedProofsVerifyAlike
  <2>1. proof # None /\ result = Equation(value, proof, Challenge)
    BY <1>1, ResultIs
  <2>2. PICK k1, k2 \in Scalars :
           proof = [t |-> Com(k1, k2),
                    s1 |-> Response(k1, made.e, made.message),
                    s2 |-> Response(k2, made.e, made.blinding)]
    BY <1>1, <2>1 DEF SigmaInv, ProofInv
  <2>3. proof.s1 \in Nat /\ proof.s2 \in Nat
    <3>1. /\ made.message \in Nat /\ made.blinding \in Nat /\ made.e \in Nat
          /\ k1 \in Nat /\ k2 \in Nat
      BY <1>1, <2>1, EquationIs, ScalarFacts
    <3>2. \A a \in Nat : a % Q \in Nat
      BY Parameters, ModRange
    <3>3. k1 + made.e * made.message \in Nat /\ k2 + made.e * made.blinding \in Nat
      BY <3>1
    <3>4. proof.s1 = (k1 + made.e * made.message) % Q /\ proof.s2 = (k2 + made.e * made.blinding) % Q
      BY <2>2 DEF Response
    <3>5. QED
      BY <3>2, <3>3, <3>4
  <2>4. ASSUME NEW b \in Nat, Pow(b, Q) = 1, NEW s \in Nat PROVE Pow(b, s + Q) = Pow(b, s)
    <3>1. Q \in Nat /\ Pow(b, s) \in 0 .. P - 1
      BY Parameters, PowType
    <3>2. Pow(b, s + Q) = Mul(Pow(b, s), Pow(b, Q))
      BY <3>1, PowAdds
    <3>3. QED
      BY <2>4, <3>1, <3>2, MulOne
  <2>5. /\ p.t = proof.t
        /\ \/ p.s1 = proof.s1 + Q /\ p.s2 = proof.s2
           \/ p.s1 = proof.s1 /\ p.s2 = proof.s2 + Q
    BY <2>2
  <2>6. Pow(G, p.s1) = Pow(G, proof.s1) /\ Pow(H, p.s2) = Pow(H, proof.s2)
    BY <2>3, <2>4, <2>5, Parameters, HType
  <2>7. InRange(value, p)
    BY <1>1, <2>1, <2>5, MembersAreInRange DEF InRange
  <2>8. Equation(value, p, Challenge) = Equation(value, proof, Challenge)
    BY <2>5, <2>6 DEF Equation
  <2>9. (InRange(value, p) /\ Equation(value, p, Challenge)) = Equation(value, proof, Challenge)
    BY <2>7, <2>8, Zenon DEF Equation
  <2>10. QED
    BY <2>1, <2>9, Zenon
<1>2. QED
  BY <1>1, SigmaInvariance, PTL
-----------------------------------------------------------------------------
(* Every member is a power of H.  The powers of H and their negatives are     *)
(* 2 Q different numbers below P, and there are no more of them; and, Q being *)
(* odd, no negative of a member is a member.                                  *)

LEMMA HIsMember == H \in Group /\ H # 1
<1>1. Candidate \in Nat /\ P \in Nat
  BY Parameters
<1>2. H \in Nat /\ H \in 0 .. P - 1
  BY <1>1, PowType DEF H
<1>3. Pow(H, Q) = 1 /\ H # 0 /\ H # 1
  BY GroupParameters DEF VerifyGroupParameters
<1>4. QED
  BY <1>1, <1>2, <1>3 DEF Group

LEMMA PowersOfHDiffer ==
  ASSUME NEW i \in 0 .. Q - 1, NEW j \in 0 .. Q - 1, i < j
  PROVE  Pow(H, i) # Pow(H, j)
<1> SUFFICES ASSUME Pow(H, i) = Pow(H, j) PROVE FALSE
  OBVIOUS
<1> DEFINE d == j - i
<1>1. d \in 1 .. Q - 1 /\ d \in Nat /\ i \in Nat /\ i + d = j /\ P \in Nat /\ P > 1
  BY Parameters
<1> HIDE DEF d
<1>2. H \in Nat /\ Pow(H, Q) = 1 /\ 1 \in Group /\ 1 \in 0 .. P - 1
  BY <1>1, HIsMember, PowOfOne, Parameters DEF Group
<1>3. Pow(H, i) \in Group
  <2>1. Pow(H, i) \in Nat /\ Pow(H, i) \in 0 .. P - 1 /\ Pow(Pow(H, i), Q) = 1
    BY <1>1, <1>2, PowType, PowersOfMembers
  <2>2. Pow(H, i) # 0
    BY <2>1, ZeroIsNoMember
  <2>3. QED
    BY <1>1, <2>1, <2>2 DEF Group
<1>4. Mul(Pow(H, i), Pow(H, d)) = Pow(H, i)
  BY <1>1, <1>2, PowAdds
<1>5. Mul(Pow(H, i), 1) = Pow(H, i) /\ Pow(H, d) \in 0 .. P - 1
  BY <1>1, <1>2, <1>3, MulOne, PowType
<1>6. Pow(H, d) = 1
  BY <1>2, <1>3, <1>4, <1>5, Cancels
<1>7. Pow(1, d) = 1
  BY <1>1, PowOfOne
<1>8. H = 1
  BY <1>1, <1>2, <1>6, <1>7, HIsMember, PowersDiffer
<1>9. QED
  BY <1>8, HIsMember

LEMMA Sizes == P = 2 * Q + 1 /\ (Q = 2 \/ \E k \in Nat : Q = 2 * k + 1)
<1>1. P \in Nat /\ Q = (P - 1) \div 2 /\ Q \in Nat /\ Q > 1 /\ P > 2
  BY Parameters DEF Q
<1>2. P % 2 # 0
  BY <1>1, GroupParameters
<1>3. Q > 2 => Q % 2 # 0
  BY <1>1, GroupParameters
<1>4. P = 2 * Q + 1
  BY <1>1, <1>2
<1>5. Q > 2 => Q = 2 * (Q \div 2) + 1 /\ Q \div 2 \in Nat
  BY <1>1, <1>3
<1>6. QED
  BY <1>1, <1>4, <1>5

LEMMA NegativesAreNoMembers ==
  ASSUME NEW k \in Nat, Q = 2 * k + 1, NEW x \in Group
  PROVE  P - x \notin Group
<1> DEFINE n == P - 1
<1>1. P \in Nat /\ P > 2 /\ n \in Nat /\ n \in 0 .. P - 1 /\ n # 1 /\ Q \in Nat
  BY Parameters, Sizes
<1>2. x \in 1 .. P - 1 /\ Pow(x, Q) = 1
  BY Parameters DEF Group
<1>3. Mul(n, x) = P - x
  <2>1. n * x = (x - 1) * P + (P - x)
    BY <1>1, <1>2
  <2>2. ((x - 1) * P + (P - x)) % P = P - x
    <3> DEFINE q == x - 1
               y == P - x
    <3>1. q \in Int /\ y \in 0 .. P - 1 /\ P > 0
      BY <1>1, <1>2
    <3> HIDE DEF q, y
    <3>2. (q * P + y) % P = y
      BY <1>1, <3>1, ModIs
    <3>3. QED
      BY <3>2 DEF q, y
  <2>3. QED
    BY <2>1, <2>2 DEF Mul
<1>4. Mul(n, n) = 1
  <2>1. n * n = (P - 2) * P + 1
    BY <1>1
  <2>2. ((P - 2) * P + 1) % P = 1
    <3> DEFINE q == P - 2
    <3>1. q \in Int /\ 1 \in 0 .. P - 1 /\ P > 0
      BY <1>1
    <3> HIDE DEF q
    <3>2. (q * P + 1) % P = 1
      BY <1>1, <3>1, ModIs
    <3>3. QED
      BY <3>2 DEF q
  <2>3. QED
    BY <2>1, <2>2 DEF Mul
<1> HIDE DEF n
<1>5. Pow(n, 2) = 1
  <2>1. Pow(n, 0 + 1) = Mul(Pow(n, 0), n) /\ Pow(n, 0) = 1 /\ Pow(n, 1 + 1) = Mul(Pow(n, 1), n)
    BY PowUnfolds
  <2>2. 0 + 1 = 1 /\ 1 + 1 = 2
    OBVIOUS
  <2>3. Mul(1, n) = n
    BY <1>1, MulOne
  <2>4. QED
    BY <1>4, <2>1, <2>2, <2>3
<1>6. Pow(n, Q) = n
  <2> DEFINE kk == 2 * k
  <2>1. Pow(n, kk) = Pow(Pow(n, 2), k)
    BY <1>1, PowTimes
  <2>2. kk \in Nat /\ Q = kk + 1
    OBVIOUS
  <2> HIDE DEF kk
  <2>3. Pow(n, kk) = 1
    BY <1>5, <2>1, PowOfOne
  <2>4. Pow(n, kk + 1) = Mul(Pow(n, kk), n)
    BY <2>2, PowUnfolds
  <2>5. QED
    BY <1>1, <2>2, <2>3, <2>4, MulOne
<1>7. Pow(P - x, Q) = n
  <2>1. x \in Nat /\ Pow(Mul(n, x), Q) = Mul(Pow(n, Q), Pow(x, Q))
    BY <1>1, <1>2, PowDistributes
  <2>2. QED
    BY <1>1, <1>2, <1>3, <1>6, <2>1, MulOne
<1>8. QED
  BY <1>1, <1>7 DEF Group

LEMMA HGenerates ==
  ASSUME NEW x \in Group
  PROVE  \E i \in Scalars : x = Pow(H, i)
<1>1. /\ P \in Nat /\ P > 2 /\ Q \in Nat /\ Q > 1 /\ P = 2 * Q + 1
      /\ x \in 1 .. P - 1 /\ Pow(x, Q) = 1 /\ H \in Nat /\ Pow(H, Q) = 1
  BY Parameters, Sizes, HIsMember DEF Group
<1>2. CASE Q = 2
  <2>1. ASSUME NEW y \in Group PROVE y = 1 \/ y = 4
    <3>1. y \in 1 .. 4 /\ P = 5 /\ Pow(y, 2) = 1
      BY <1>1, <1>2 DEF Group
    <3>2. Pow(y, 0 + 1) = Mul(Pow(y, 0), y) /\ Pow(y, 0) = 1 /\ Pow(y, 1 + 1) = Mul(Pow(y, 1), y)
      BY PowUnfolds
    <3>3. 0 + 1 = 1 /\ 1 + 1 = 2 /\ Mul(1, y) = y
      BY <3>1, MulOne
    <3>4. (y * y) % 5 = 1
      BY <3>1, <3>2, <3>3 DEF Mul
    <3>5. (2 * 2) % 5 = 4 /\ (3 * 3) % 5 = 4
      OBVIOUS
    <3>6. y # 2 /\ y # 3
      BY <3>4, <3>5
    <3>7. QED
      BY <3>1, <3>6
  <2>2. H = 4
    BY <2>1, HIsMember
  <2>3. Pow(H, 0) = 1 /\ Pow(H, 1) = H
    <3>1. Pow(H, 0 + 1) = Mul(Pow(H, 0), H) /\ Pow(H, 0) = 1 /\ 0 + 1 = 1
      BY PowUnfolds
    <3>2. H \in 0 .. P - 1
      BY <1>1, <1>2, <2>2
    <3>3. QED
      BY <3>1, <3>2, MulOne
  <2>4. 0 \in Scalars /\ 1 \in Scalars
    BY <1>1 DEF Scalars
  <2>5. QED
    BY <2>1, <2>2, <2>3, <2>4
<1>3. CASE Q # 2
  <2>1. PICK k \in Nat : Q = 2 * k + 1
    BY <1>3, Sizes
  <2> DEFINE f == [i \in 0 .. 2 * Q - 1 |-> IF i < Q THEN Pow(H, i) ELSE P - Pow(H, i - Q)]
  <2>2. ASSUME NEW i \in 0 .. Q - 1 PROVE Pow(H, i) \in Group
    <3>1. i \in Nat
      BY <1>1
    <3>2. Pow(H, i) \in Nat /\ Pow(H, i) \in 0 .. P - 1 /\ Pow(Pow(H, i), Q) = 1
      BY <1>1, <3>1, PowType, PowersOfMembers
    <3>3. Pow(H, i) # 0
      BY <3>2, ZeroIsNoMember
    <3>4. QED
      BY <1>1, <3>2, <3>3 DEF Group
  <2>3. \A i, j \in 0 .. Q - 1 : Pow(H, i) = Pow(H, j) => i = j
    <3>1. \A i, j \in 0 .. Q - 1 : i < j => Pow(H, i) # Pow(H, j)
      BY PowersOfHDiffer
    <3>2. QED
      BY <1>1, <3>1
  <2>4. ASSUME NEW i \in 0 .. 2 * Q - 1
        PROVE  IF i < Q THEN i \in 0 .. Q - 1 /\ f[i] = Pow(H, i)
               ELSE i - Q \in 0 .. Q - 1 /\ f[i] = P - Pow(H, i - Q)
    BY <1>1
  <2>5. \A y \in Group : y \in 1 .. P - 1 /\ P - y \in 1 .. P - 1 /\ P - y \notin Group
    BY <1>1, <2>1, NegativesAreNoMembers DEF Group
  <2>6. f = [i \in 0 .. 2 * Q - 1 |-> f[i]]
    OBVIOUS
  <2> HIDE DEF f
  <2>7. ASSUME NEW i \in 0 .. 2 * Q - 1 PROVE f[i] \in 1 .. P - 1
    BY <2>2, <2>4, <2>5
  <2>8. ASSUME NEW i \in 0 .. 2 * Q - 1, NEW j \in 0 .. 2 * Q - 1, f[i] = f[j] PROVE i = j
    <3>1. CASE i < Q /\ j < Q
      BY <2>3, <2>4, <2>8, <3>1
    <3>2. CASE i < Q /\ ~(j < Q)
      BY <2>2, <2>4, <2>5, <2>8, <3>2
    <3>3. CASE ~(i < Q) /\ j < Q
      BY <2>2, <2>4, <2>5, <2>8, <3>3
    <3>4. CASE ~(i < Q) /\ ~(j < Q)
      <4>1. i - Q \in 0 .. Q - 1 /\ j - Q \in 0 .. Q - 1 /\ P - Pow(H, i - Q) = P - Pow(H, j - Q)
        BY <2>4, <2>8, <3>4
      <4>2. Pow(H, i - Q) \in 1 .. P - 1 /\ Pow(H, j - Q) \in 1 .. P - 1
        BY <2>2, <2>5, <4>1
      <4>3. Pow(H, i - Q) = Pow(H, j - Q)
        BY <1>1, <4>1, <4>2
      <4>4. i - Q = j - Q
        BY <2>3, <4>1, <4>3
      <4>5. QED
        BY <1>1, <4>4
    <3>5. QED
      BY <3>1, <3>2, <3>3, <3>4
  <2>9. f \in Surjection(0 .. 2 * Q - 1, 1 .. P - 1)
    <3>1. f \in Injection(0 .. 2 * Q - 1, 1 .. P - 1)
      BY <2>6, <2>7, <2>8 DEF Injection, IsInjective
    <3>2. /\ IsFiniteSet(0 .. 2 * Q - 1) /\ Cardinality(0 .. 2 * Q - 1) = 2 * Q
          /\ IsFiniteSet(1 .. P - 1) /\ Cardinality(1 .. P - 1) = 2 * Q
      <4> DEFINE m == 2 * Q - 1
      <4>1. m \in Int /\ P - 1 \in Int /\ m - 0 + 1 = 2 * Q /\ (P - 1) - 1 + 1 = 2 * Q
            /\ ~(0 > m) /\ ~(1 > P - 1)
        BY <1>1
      <4> HIDE DEF m
      <4>2. IsFiniteSet(0 .. m) /\ Cardinality(0 .. m) = 2 * Q
        BY <4>1, FS_Interval
      <4>3. IsFiniteSet(1 .. P - 1) /\ Cardinality(1 .. P - 1) = 2 * Q
        BY <4>1, FS_Interval
      <4>4. QED
        BY <4>2, <4>3 DEF m
    <3>3. QED
      BY <3>1, <3>2, FS_Injection
  <2>10. PICK i \in 0 .. 2 * Q - 1 : f[i] = x
    BY <1>1, <2>9 DEF Surjection
  <2>11. CASE i < Q
    BY <2>4, <2>10, <2>11 DEF Scalars
  <2>12. CASE ~(i < Q)
    BY <2>2, <2>4, <2>5, <2>10, <2>12
  <2>13. QED
    BY <2>11, <2>12
<1>4. QED
  BY <1>2, <1>3
-----------------------------------------------------------------------------
(* What a commitment and a proof hide.                                        *)

\* Some blinding opens a commitment to any message.
LEMMA AnyMessageOpens ==
  ASSUME NEW x \in Group, NEW message \in Scalars
  PROVE  \E blinding \in Scalars : x = Com(message, blinding)
<1> DEFINE rest == Q - message
           g == Pow(G, rest)
           y == Mul(x, g)
           gm == Pow(G, message)
<1>1. /\ message \in Nat /\ rest \in Nat /\ message + rest = Q /\ rest + message = Q
      /\ G \in Nat /\ Pow(G, Q) = 1 /\ H \in Nat
  BY Parameters, HIsMember DEF Scalars, Group
<1> HIDE DEF rest
<1>2. x \in Nat /\ Pow(x, Q) = 1 /\ x \in 0 .. P - 1
  BY Parameters DEF Group
<1>3. g \in Nat /\ Pow(g, Q) = 1 /\ gm \in Nat
  BY <1>1, PowersOfMembers, PowType
<1>4. Mul(g, gm) = 1
  BY <1>1, PowAdds
<1> HIDE DEF g, gm
<1>5. y \in Group
  BY <1>2, <1>3, ProductsOfMembers
<1>6. PICK blinding \in Scalars : y = Pow(H, blinding)
  <2> HIDE DEF y
  <2>1. QED
    BY <1>5, HGenerates
<1>7. Mul(gm, y) = x
  <2>1. Mul(Mul(x, g), gm) = Mul(x, Mul(g, gm))
    BY <1>2, <1>3, MulAssociates
  <2>2. Mul(x, g) \in Int /\ gm \in Int
    BY <1>2, <1>3, MulType
  <2>3. Mul(gm, Mul(x, g)) = Mul(Mul(x, g), gm)
    BY <2>2, MulCommutes
  <2>4. Mul(x, 1) = x
    BY <1>2, MulOne
  <2>5. QED
    BY <1>4, <2>1, <2>3, <2>4
<1>8. QED
  BY <1>6, <1>7 DEF Com, Mul, gm

\* Some nonce gives a response s for any secret.
LEMMA AnySecretResponds ==
  ASSUME NEW s \in Scalars, NEW e \in Nat, NEW secret \in Nat
  PROVE  \E k \in Scalars : s = Response(k, e, secret)
<1> DEFINE es == e * secret
           k == (s - es) % Q
           q == (s - es) \div Q
<1>1. Q \in Nat /\ Q > 0 /\ s \in Int /\ s \in 0 .. Q - 1 /\ es \in Int
  BY Parameters DEF Scalars
<1>2. Response(k, e, secret) = (k + es) % Q
  BY DEF Response
<1> HIDE DEF es
<1>3. k \in 0 .. Q - 1 /\ k \in Int /\ q \in Int /\ s - es = q * Q + k
  <2> DEFINE d == s - es
  <2>1. d \in Int
    BY <1>1
  <2> HIDE DEF d
  <2>2. d % Q \in 0 .. Q - 1 /\ d \div Q \in Int /\ d = (d \div Q) * Q + (d % Q)
    BY <1>1, <2>1, ModRange, DivMod
  <2>3. QED
    BY <2>2 DEF d
<1> HIDE DEF k, q
<1>4. k + es = s + (0 - q) * Q /\ 0 - q \in Int
  BY <1>1, <1>3
<1>5. (s + (0 - q) * Q) % Q = s
  <2>1. (s + (0 - q) * Q) % Q = s % Q
    BY <1>1, <1>4, ModShift
  <2>2. QED
    BY <1>1, <2>1, ModSmall
<1>6. QED
  BY <1>2, <1>3, <1>4, <1>5 DEF Scalars

\* The first message of a proof follows from the equation.
LEMMA FirstMessageIs ==
  ASSUME NEW c \in Group, NEW d \in Group, NEW x \in Group, NEW e \in Nat,
         Mul(c, Pow(x, e)) = Mul(d, Pow(x, e))
  PROVE  c = d
<1> DEFINE y == Pow(x, e)
<1>1. x \in Nat /\ Pow(x, Q) = 1 /\ P \in Nat
  BY Parameters DEF Group
<1>2. y \in Group
  <2>1. y \in Nat /\ y \in 0 .. P - 1 /\ Pow(y, Q) = 1
    BY <1>1, PowType, PowersOfMembers
  <2>2. y # 0
    BY <2>1, ZeroIsNoMember
  <2> HIDE DEF y
  <2>3. QED
    BY <1>1, <2>1, <2>2 DEF Group
<1> HIDE DEF y
<1>3. \A z \in Group : z \in Int /\ z \in 0 .. P - 1
  BY Parameters DEF Group
<1>4. Mul(y, c) = Mul(y, d)
  <2>1. Mul(c, y) = Mul(d, y)
    BY DEF y
  <2>2. QED
    BY <1>2, <1>3, <2>1, MulCommutes
<1>5. QED
  BY <1>2, <1>3, <1>4, Cancels

\* Neither a commitment nor a proof shows which opening was used.
THEOREM HiddenOpenings == Spec => []OpeningStaysHidden
<1>1. ASSUME SigmaInv, value # None
      PROVE  \A message \in Scalars : \E blinding \in Scalars : value = Com(message, blinding)
  BY <1>1, AnyMessageOpens DEF SigmaInv
<1>2. ASSUME SigmaInv, proof # None,
             VerifyOpening(made.commitment, made.message, made.blinding),
             NEW message \in Scalars, NEW blinding \in Scalars,
             made.commitment = Com(message, blinding)
      PROVE  \E k1, k2 \in Scalars :
                /\ proof.t = Com(k1, k2)
                /\ proof.s1 = Response(k1, made.e, message)
                /\ proof.s2 = Response(k2, made.e, blinding)
  <2>1. made.message \in Scalars /\ made.blinding \in Scalars /\ made.e \in Scalars
    BY <1>2, EquationIs
  <2>2. PICK j1, j2 \in Scalars :
           proof = [t |-> Com(j1, j2),
                    s1 |-> Response(j1, made.e, made.message),
                    s2 |-> Response(j2, made.e, made.blinding)]
    BY <1>2 DEF SigmaInv, ProofInv
  <2>3. /\ proof.t = Com(j1, j2)
        /\ proof.s1 = Response(j1, made.e, made.message)
        /\ proof.s2 = Response(j2, made.e, made.blinding)
    BY <2>2
  <2>4. /\ made.message \in Nat /\ made.blinding \in Nat /\ made.e \in Nat
        /\ message \in Nat /\ blinding \in Nat /\ j1 \in Nat /\ j2 \in Nat
    BY <2>1, ScalarFacts
  <2>5. \A k, e, secret \in Nat : Response(k, e, secret) \in Scalars
    <3> SUFFICES ASSUME NEW k \in Nat, NEW e \in Nat, NEW secret \in Nat
                 PROVE  Response(k, e, secret) \in Scalars
      OBVIOUS
    <3> DEFINE n == k + e * secret
    <3>1. n \in Int /\ Q \in Nat /\ Q > 0
      BY Parameters
    <3> HIDE DEF n
    <3>2. n % Q \in 0 .. Q - 1
      BY <3>1, ModRange
    <3>3. QED
      BY <3>2 DEF n, Response, Scalars
  <2> DEFINE e  == made.e
             m  == made.message
             b  == made.blinding
             s1 == proof.s1
             s2 == proof.s2
  <2>6. /\ s1 \in Scalars /\ s2 \in Scalars /\ e \in Nat /\ m \in Nat /\ b \in Nat
        /\ message \in Nat /\ blinding \in Nat /\ j1 \in Nat /\ j2 \in Nat
        /\ s1 = Response(j1, e, m) /\ s2 = Response(j2, e, b)
        /\ Com(m, b) = Com(message, blinding)
    BY <1>2, <2>3, <2>4, <2>5 DEF VerifyOpening
  <2>7. SUFFICES \E k1, k2 \in Scalars :
                    /\ Com(j1, j2) = Com(k1, k2)
                    /\ s1 = Response(k1, e, message) /\ s2 = Response(k2, e, blinding)
    BY <2>3
  <2> HIDE DEF e, m, b, s1, s2
  <2>8. PICK k1 \in Scalars : s1 = Response(k1, e, message)
    BY <2>6, AnySecretResponds
  <2>9. PICK k2 \in Scalars : s2 = Response(k2, e, blinding)
    BY <2>6, AnySecretResponds
  <2>10. k1 \in Nat /\ k2 \in Nat
    BY ScalarFacts
  <2>11. Com(j1, j2) = Com(k1, k2)
    <3> DEFINE x == Com(message, blinding)
    <3>1. Mul(Pow(G, s1), Pow(H, s2)) = Mul(Com(j1, j2), Pow(Com(m, b), e))
      BY <2>6, ResponsesFit
    <3>2. Mul(Pow(G, s1), Pow(H, s2)) = Mul(Com(k1, k2), Pow(x, e))
      BY <2>6, <2>8, <2>9, <2>10, ResponsesFit
    <3>3. x \in Group /\ Com(j1, j2) \in Group /\ Com(k1, k2) \in Group
      BY <2>6, <2>10, CommitmentsAreMembers
    <3>4. Mul(Com(j1, j2), Pow(x, e)) = Mul(Com(k1, k2), Pow(x, e))
      BY <2>6, <3>1, <3>2
    <3> HIDE DEF x
    <3>5. QED
      BY <2>6, <3>3, <3>4, FirstMessageIs
  <2>12. QED
    BY <2>8, <2>9, <2>11
<1>3. SigmaInv => OpeningStaysHidden
  BY <1>1, <1>2 DEF OpeningStaysHidden
<1>4. QED
  BY <1>3, SigmaInvariance, PTL
=============================================================================
