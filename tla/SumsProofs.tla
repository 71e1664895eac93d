----------------------------- MODULE SumsProofs -----------------------------
(***************************************************************************)
(* What the invariants need to know about sums: a sum of naturals is a     *)
(* natural, changing one summand changes the sum by as much, and a sum is  *)
(* monotone in its summands.  The provers cannot use the induction         *)
(* theorems of the library, so every induction below is on the least       *)
(* counterexample (NatMinimum).  Rounding and ProductGrows are what the    *)
(* prices and the minutes need of division and multiplication.             *)
(***************************************************************************)
EXTENDS Sums, WellFoundedInduction, TLAPS

\* Every nonempty set of naturals has a least element.
LEMMA NatMinimum ==
  ASSUME NEW T, T \subseteq Nat, T # {}
  PROVE  \E x \in T : \A y \in T : x <= y
<1>1. \E x \in T : \A y \in T : ~(<<y, x>> \in OpToRel(<, Nat))
  BY NatLessThanWellFounded, WFMin
<1>2. \A x, y \in Nat : <<y, x>> \in OpToRel(<, Nat) <=> y < x
  BY DEF OpToRel
<1>3. PICK x \in T : \A y \in T : ~(<<y, x>> \in OpToRel(<, Nat))
  BY <1>1
<1>4. \A y \in T : ~(y < x)
  BY <1>2, <1>3
<1>5. \A y \in T : x <= y
  BY <1>4
<1>6. QED
  BY <1>5

\* The equation that defines PrefixSum.
IsPrefixSum(F, f, n) ==
  F = [i \in 0..n |-> IF i = 0 THEN 0 ELSE F[i - 1] + f[i]]

\* A function that satisfies the equation exists, so PrefixSum is one.
LEMMA PrefixSumExists ==
  ASSUME NEW n \in Nat, NEW f
  PROVE  \E F : IsPrefixSum(F, f, n)
<1> DEFINE T == {m \in Nat : ~ \E F : IsPrefixSum(F, f, m)}
<1> SUFFICES ASSUME T # {} PROVE FALSE
  OBVIOUS
<1> HIDE DEF T
<1>1. PICK m \in T : \A y \in T : m <= y
  <2>1. T \subseteq Nat
    BY DEF T
  <2>2. QED
    BY <2>1, NatMinimum
<1>2. m \in Nat /\ ~ \E F : IsPrefixSum(F, f, m)
  BY <1>1 DEF T
<1>3. m # 0
  <2>1. IsPrefixSum([i \in 0..0 |-> 0], f, 0)
    BY DEF IsPrefixSum
  <2>2. QED
    BY <2>1, <1>2
<1>4. m - 1 \in Nat /\ m - 1 \notin T
  BY <1>1, <1>2, <1>3
<1>5. PICK F : IsPrefixSum(F, f, m - 1)
  BY <1>4 DEF T
<1> DEFINE G == [i \in 0..m |-> IF i = m THEN F[m - 1] + f[m] ELSE F[i]]
<1>6. IsPrefixSum(G, f, m)
  <2>1. F = [i \in 0..(m - 1) |-> IF i = 0 THEN 0 ELSE F[i - 1] + f[i]]
    BY <1>5 DEF IsPrefixSum
  <2>2. \A i \in 0..m : G[i] = IF i = 0 THEN 0 ELSE G[i - 1] + f[i]
    BY <1>2, <1>3, <2>1
  <2>3. G = [i \in 0..m |-> IF i = 0 THEN 0 ELSE G[i - 1] + f[i]]
    BY <2>2
  <2>4. QED
    BY <2>3 DEF IsPrefixSum
<1>7. QED
  BY <1>6, <1>2

\* PrefixSum unfolds as its definition says.
LEMMA PrefixSumUnfold ==
  ASSUME NEW n \in Nat, NEW f
  PROVE  /\ PrefixSum(f, n)[0] = 0
         /\ \A i \in 1..n : PrefixSum(f, n)[i] = PrefixSum(f, n)[i - 1] + f[i]
<1> DEFINE P == CHOOSE F : F = [i \in 0..n |-> IF i = 0 THEN 0 ELSE F[i - 1] + f[i]]
<1>1. PrefixSum(f, n) = P
  BY DEF PrefixSum
<1>2. P = [i \in 0..n |-> IF i = 0 THEN 0 ELSE P[i - 1] + f[i]]
  BY PrefixSumExists DEF IsPrefixSum
<1> HIDE DEF P
<1>3. /\ P[0] = 0
      /\ \A i \in 1..n : P[i] = P[i - 1] + f[i]
  BY <1>2
<1>4. QED
  BY <1>1, <1>3

\* A prefix sum of naturals is a natural.
LEMMA PrefixSumNat ==
  ASSUME NEW n \in Nat, NEW f \in [1..n -> Nat]
  PROVE  \A i \in 0..n : PrefixSum(f, n)[i] \in Nat
<1> DEFINE P == PrefixSum(f, n)
           T == {i \in 0..n : P[i] \notin Nat}
<1>1. P[0] = 0 /\ \A i \in 1..n : P[i] = P[i - 1] + f[i]
  BY PrefixSumUnfold
<1> HIDE DEF P
<1> SUFFICES ASSUME T # {} PROVE FALSE
  BY DEF P
<1>2. PICK m \in T : \A y \in T : m <= y
  <2>1. T \subseteq Nat
    OBVIOUS
  <2> HIDE DEF T
  <2>2. QED
    BY <2>1, NatMinimum
<1>3. m # 0
  BY <1>1, <1>2
<1>4. m - 1 \in 0..n /\ P[m - 1] \in Nat
  BY <1>2, <1>3
<1>5. QED
  BY <1>1, <1>2, <1>3, <1>4

\* The sum of a column of naturals is a natural.
LEMMA SumToNat ==
  ASSUME NEW n \in Nat, NEW f \in [1..n -> Nat]
  PROVE  SumTo(f, n) \in Nat
BY PrefixSumNat DEF SumTo

\* Adding d to row k adds d to the sum: one UPDATE of one row.
LEMMA SumToUpdate ==
  ASSUME NEW n \in Nat, NEW f \in [1..n -> Nat], NEW g \in [1..n -> Nat],
         NEW k \in 1..n, NEW d \in Int,
         g[k] = f[k] + d,
         \A i \in 1..n : i # k => g[i] = f[i]
  PROVE  SumTo(g, n) = SumTo(f, n) + d
<1> DEFINE P == PrefixSum(f, n)
           Q == PrefixSum(g, n)
           D(i) == IF i < k THEN 0 ELSE d
           T == {i \in 0..n : Q[i] # P[i] + D(i)}
<1>1. P[0] = 0 /\ \A i \in 1..n : P[i] = P[i - 1] + f[i]
  BY PrefixSumUnfold
<1>2. Q[0] = 0 /\ \A i \in 1..n : Q[i] = Q[i - 1] + g[i]
  BY PrefixSumUnfold
<1>3. \A i \in 0..n : P[i] \in Nat /\ Q[i] \in Nat
  BY PrefixSumNat
<1> HIDE DEF P, Q
<1> SUFFICES ASSUME T # {} PROVE FALSE
  BY DEF SumTo, P, Q
<1>4. PICK m \in T : \A y \in T : m <= y
  <2>1. T \subseteq Nat
    OBVIOUS
  <2> HIDE DEF T
  <2>2. QED
    BY <2>1, NatMinimum
<1>5. m # 0
  BY <1>1, <1>2, <1>4
<1>6. m - 1 \in 0..n /\ m \in 1..n /\ Q[m - 1] = P[m - 1] + D(m - 1)
  BY <1>4, <1>5
<1>7. Q[m] = Q[m - 1] + g[m] /\ P[m] = P[m - 1] + f[m]
  BY <1>1, <1>2, <1>6
<1>8. CASE m = k
  BY <1>3, <1>4, <1>6, <1>7, <1>8
<1>9. CASE m # k
  BY <1>3, <1>4, <1>6, <1>7, <1>9
<1>10. QED
  BY <1>8, <1>9

\* A column that is below another row by row has the smaller sum.
LEMMA SumToMonotone ==
  ASSUME NEW n \in Nat, NEW f \in [1..n -> Nat], NEW g \in [1..n -> Nat],
         \A i \in 1..n : f[i] <= g[i]
  PROVE  SumTo(f, n) <= SumTo(g, n)
<1> DEFINE P == PrefixSum(f, n)
           Q == PrefixSum(g, n)
           T == {i \in 0..n : ~(P[i] <= Q[i])}
<1>1. P[0] = 0 /\ \A i \in 1..n : P[i] = P[i - 1] + f[i]
  BY PrefixSumUnfold
<1>2. Q[0] = 0 /\ \A i \in 1..n : Q[i] = Q[i - 1] + g[i]
  BY PrefixSumUnfold
<1>3. \A i \in 0..n : P[i] \in Nat /\ Q[i] \in Nat
  BY PrefixSumNat
<1> HIDE DEF P, Q
<1> SUFFICES ASSUME T # {} PROVE FALSE
  BY DEF SumTo, P, Q
<1>4. PICK m \in T : \A y \in T : m <= y
  <2>1. T \subseteq Nat
    OBVIOUS
  <2> HIDE DEF T
  <2>2. QED
    BY <2>1, NatMinimum
<1>5. m # 0
  BY <1>1, <1>2, <1>4
<1>6. m - 1 \in 0..n /\ m \in 1..n /\ P[m - 1] <= Q[m - 1]
  BY <1>4, <1>5
<1>7. Q[m] = Q[m - 1] + g[m] /\ P[m] = P[m - 1] + f[m]
  BY <1>1, <1>2, <1>6
<1>8. QED
  BY <1>3, <1>4, <1>6, <1>7

\* A column of zeroes sums to zero: an empty table.
LEMMA SumToZero ==
  ASSUME NEW n \in Nat, NEW f, \A i \in 1..n : f[i] = 0
  PROVE  SumTo(f, n) = 0
<1> DEFINE P == PrefixSum(f, n)
           T == {i \in 0..n : P[i] # 0}
<1>1. P[0] = 0 /\ \A i \in 1..n : P[i] = P[i - 1] + f[i]
  BY PrefixSumUnfold
<1> HIDE DEF P
<1> SUFFICES ASSUME T # {} PROVE FALSE
  BY DEF SumTo, P
<1>2. PICK m \in T : \A y \in T : m <= y
  <2>1. T \subseteq Nat
    OBVIOUS
  <2> HIDE DEF T
  <2>2. QED
    BY <2>1, NatMinimum
<1>3. m # 0
  BY <1>1, <1>2
<1>4. m - 1 \in 0..n /\ m \in 1..n /\ P[m - 1] = 0
  BY <1>2, <1>3
<1>5. QED
  BY <1>1, <1>2, <1>4

\* The sum of two columns, row by row, is the sum of their sums.
LEMMA SumToPlus ==
  ASSUME NEW n \in Nat, NEW f \in [1..n -> Nat], NEW g \in [1..n -> Nat],
         NEW h \in [1..n -> Nat], \A i \in 1..n : h[i] = f[i] + g[i]
  PROVE  SumTo(h, n) = SumTo(f, n) + SumTo(g, n)
<1> DEFINE P == PrefixSum(f, n)
           Q == PrefixSum(g, n)
           R == PrefixSum(h, n)
           T == {i \in 0..n : R[i] # P[i] + Q[i]}
<1>1. /\ P[0] = 0 /\ \A i \in 1..n : P[i] = P[i - 1] + f[i]
      /\ Q[0] = 0 /\ \A i \in 1..n : Q[i] = Q[i - 1] + g[i]
      /\ R[0] = 0 /\ \A i \in 1..n : R[i] = R[i - 1] + h[i]
  BY PrefixSumUnfold
<1>2. \A i \in 0..n : P[i] \in Nat /\ Q[i] \in Nat /\ R[i] \in Nat
  BY PrefixSumNat
<1>0. SumTo(f, n) = P[n] /\ SumTo(g, n) = Q[n] /\ SumTo(h, n) = R[n]
  BY DEF SumTo
<1> HIDE DEF P, Q, R
<1> SUFFICES ASSUME T # {} PROVE FALSE
  <2>1. n \in 0..n  OBVIOUS
  <2>2. n \notin T => R[n] = P[n] + Q[n]  BY <2>1
  <2>3. QED  BY <1>0, <2>2
<1>3. PICK m \in T : \A y \in T : m <= y
  <2>1. T \subseteq Nat
    OBVIOUS
  <2> HIDE DEF T
  <2>2. QED
    BY <2>1, NatMinimum
<1>4. m # 0
  BY <1>1, <1>3
<1>5. m - 1 \in 0..n /\ m \in 1..n /\ R[m - 1] = P[m - 1] + Q[m - 1]
  BY <1>3, <1>4
<1>6. P[m] = P[m - 1] + f[m] /\ Q[m] = Q[m - 1] + g[m] /\ R[m] = R[m - 1] + h[m]
  BY <1>1, <1>5
<1>7. QED
  BY <1>2, <1>3, <1>5, <1>6

\* A column split over k groups, each row in one of them: the sums of the groups add
\* up to the sum of the column.
LEMMA SumByGroup ==
  ASSUME NEW n \in Nat, NEW k \in Nat, NEW h \in [1..n -> Nat], NEW p \in [1..n -> 1..k],
         NEW G \in [1..k -> [1..n -> Nat]],
         \A m \in 1..k, i \in 1..n : G[m][i] = IF p[i] = m THEN h[i] ELSE 0
  PROVE  SumTo([m \in 1..k |-> SumTo(G[m], n)], k) = SumTo(h, n)
<1> DEFINE P == PrefixSum(h, n)
<1>0. /\ PrefixSum(h, n)[0] = 0
      /\ \A i \in 1..n : PrefixSum(h, n)[i] = PrefixSum(h, n)[i - 1] + h[i]
  <2>1. n \in Nat  OBVIOUS
  <2>2. \A f : PrefixSum(f, n)[0] = 0 /\ \A i \in 1..n : PrefixSum(f, n)[i] = PrefixSum(f, n)[i - 1] + f[i]
    BY ONLY <2>1, PrefixSumUnfold
  <2>3. QED  BY ONLY <2>2
<1>1. P[0] = 0 /\ \A i \in 1..n : P[i] = P[i - 1] + h[i]
  BY <1>0
<1> DEFINE Part == [i \in 0..n |-> [m \in 1..k |-> PrefixSum(G[m], n)[i]]]
           S == [i \in 0..n |-> SumTo(Part[i], k)]
           T == {i \in 0..n : S[i] # P[i]}
<1>2. ASSUME NEW m \in 1..k
      PROVE  /\ Part[0][m] = 0
             /\ \A i \in 1..n : Part[i][m] = Part[i - 1][m] + G[m][i]
             /\ \A i \in 0..n : Part[i][m] \in Nat
  <2>1. /\ PrefixSum(G[m], n)[0] = 0
        /\ \A i \in 1..n : PrefixSum(G[m], n)[i] = PrefixSum(G[m], n)[i - 1] + G[m][i]
    BY PrefixSumUnfold
  <2>2. \A i \in 0..n : PrefixSum(G[m], n)[i] \in Nat
    <3>1. G[m] \in [1..n -> Nat]  OBVIOUS
    <3>2. QED  BY <3>1, PrefixSumNat
  <2>3. \A i \in 0..n : Part[i][m] = PrefixSum(G[m], n)[i]  OBVIOUS
  <2> HIDE DEF Part
  <2>4. 0 \in 0..n /\ \A i \in 1..n : i \in 0..n /\ i - 1 \in 0..n  OBVIOUS
  <2>5. QED  BY <2>1, <2>2, <2>3, <2>4
<1>3. \A i \in 0..n : Part[i] = [m \in 1..k |-> Part[i][m]]  OBVIOUS
<1>4. \A i \in 0..n : Part[i] \in [1..k -> Nat]
  <2> HIDE DEF Part
  <2>1. QED  BY <1>2, <1>3
<1>5. Part[n] = [m \in 1..k |-> SumTo(G[m], n)]  BY DEF SumTo
<1>6. SumTo(h, n) = P[n]  BY DEF SumTo
<1>7. \A i \in 0..n : S[i] = SumTo(Part[i], k)  OBVIOUS
<1> HIDE DEF P, Part, S
<1>8. 0 \in 0..n /\ n \in 0..n  OBVIOUS
<1> SUFFICES ASSUME T # {} PROVE FALSE
  <2>1. n \notin T => S[n] = P[n]  BY <1>8
  <2>2. QED  BY <1>5, <1>6, <1>7, <1>8, <2>1
<1>9. PICK j \in T : \A y \in T : j <= y
  <2>1. T \subseteq Nat
    OBVIOUS
  <2> HIDE DEF T
  <2>2. QED
    BY <2>1, NatMinimum
<1>10. j # 0
  <2>1. SumTo(Part[0], k) = 0  BY <1>2, SumToZero
  <2>2. QED  BY <1>1, <1>7, <1>8, <1>9, <2>1
<1>11. j - 1 \in 0..n /\ j \in 1..n /\ j \in 0..n /\ S[j - 1] = P[j - 1] /\ S[j] # P[j]
  <2>1. j \in 0..n /\ S[j] # P[j]  BY <1>9
  <2>2. j - 1 \in 0..n /\ j \in 1..n /\ ~ (j <= j - 1)  BY <1>10, <2>1
  <2>3. j - 1 \notin T  BY <1>9, <2>2
  <2>4. QED  BY <2>1, <2>2, <2>3
<1>12. SumTo(Part[j], k) = SumTo(Part[j - 1], k) + h[j]
  <2> DEFINE f == Part[j - 1]
             g == Part[j]
             d == h[j]
             x == p[j]
  <2>1. x \in 1..k /\ d \in Nat /\ d \in Int  BY <1>11
  <2>2. f \in [1..k -> Nat] /\ g \in [1..k -> Nat]  BY <1>4, <1>11
  <2>3. \A m \in 1..k : g[m] = f[m] + G[m][j]  BY <1>2, <1>11
  <2>4. \A m \in 1..k : G[m][j] = IF x = m THEN d ELSE 0  BY <1>11
  <2> HIDE DEF f, g, d, x
  <2>5. g[x] = f[x] + d /\ \A m \in 1..k : m # x => g[m] = f[m]
    <3>1. g[x] = f[x] + d  BY <2>1, <2>3, <2>4
    <3>2. ASSUME NEW m \in 1..k, m # x PROVE g[m] = f[m]
      <4>1. g[m] = f[m] + G[m][j] /\ G[m][j] = 0  BY <2>3, <2>4, <3>2
      <4>2. f[m] \in Nat  BY <2>2
      <4>3. QED  BY ONLY <4>1, <4>2
    <3>3. QED  BY ONLY <3>1, <3>2
  <2>6. SumTo(g, k) = SumTo(f, k) + d  BY <2>1, <2>2, <2>5, SumToUpdate
  <2>7. QED  BY <2>6 DEF f, g, d
<1>13. P[j] = P[j - 1] + h[j]  BY <1>1, <1>11
<1>14. QED
  BY <1>7, <1>11, <1>12, <1>13

\* Division by a positive number, rounded up and down.
LEMMA Rounding ==
  ASSUME NEW x \in Nat, NEW m \in Nat, m > 0
  PROVE  /\ (x + m - 1) \div m \in Nat
         /\ x \div m \in Nat
         /\ ((x + m - 1) \div m) * m - x \in 0..(m - 1)
         /\ x - (x \div m) * m \in 0..(m - 1)
         /\ x \div m \in (((x + m - 1) \div m) - 1)..((x + m - 1) \div m)
<1> DEFINE up == (x + m - 1) \div m
           down == x \div m
<1>1. up \in Int /\ x + m - 1 - up * m \in 0..(m - 1)
  OBVIOUS
<1>2. down \in Int /\ x - down * m \in 0..(m - 1)
  OBVIOUS
<1> HIDE DEF up, down
<1>3. up * m - x \in 0..(m - 1)
  BY <1>1
<1>4. up \in Nat /\ down \in Nat
  BY <1>1, <1>2, <1>3
<1>5. down \in (up - 1)..up
  BY <1>1, <1>2, <1>3
<1>6. QED  BY <1>2, <1>3, <1>4, <1>5 DEF up, down

\* A product grows with its first factor.
LEMMA ProductGrows ==
  ASSUME NEW a \in Nat, NEW b \in Nat, NEW m \in Nat, a <= b
  PROVE  a * m \in Nat /\ b * m \in Nat /\ a * m <= b * m
<1>1. a * m \in Nat /\ (b - a) * m \in Nat  OBVIOUS
<1>2. b * m = a * m + (b - a) * m  OBVIOUS
<1>3. QED  BY <1>1, <1>2
=============================================================================
