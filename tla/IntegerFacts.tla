---------------------------- MODULE IntegerFacts ----------------------------
(***************************************************************************)
(* What the proofs about several components need of integers: places in a  *)
(* table, least numbers, sums.                                             *)
(***************************************************************************)
EXTENDS Integers, FiniteSets, FiniteSetsExt, FiniteSetTheorems, WellFoundedInduction, TLAPS

-----------------------------------------------------------------------------
(* Quotients and remainders.                                               *)

(* The quotient and the remainder of a number with a remainder in range.   *)
LEMMA QuotientOf ==
    ASSUME NEW d \in Nat \ {0}, NEW q \in Int, NEW r \in 0 .. d - 1
    PROVE  (d * q + r) \div d = q /\ (d * q + r) % d = r
<1> DEFINE n == d * q + r
           k == n \div d
           m == n % d
<1>1. n \in Int /\ k \in Int /\ m \in 0 .. d - 1 /\ n = d * k + m
  BY Z3
<1>2. d * (k - q) = r - m
  BY <1>1
<1>3. k - q = 0
  <2>1. CASE k - q >= 1
    <3>1. d * (k - q) >= d
      BY <1>1, <2>1
    <3> QED
      BY <1>1, <1>2, <3>1
  <2>2. CASE k - q <= -1
    <3>1. d * (k - q) <= -d
      BY <1>1, <2>2
    <3> QED
      BY <1>1, <1>2, <3>1
  <2> QED
    BY <1>1, <2>1, <2>2
<1> QED
  BY <1>1, <1>3

(* The pairs of a row and a column of a table with d columns and n rows.   *)
LEMMA PairInTable ==
    ASSUME NEW n \in Nat \ {0}, NEW d \in Nat \ {0}
    PROVE  /\ \A i \in 0 .. n * d - 1 :
                i = d * (i \div d) + (i % d) /\ i \div d \in 0 .. n - 1 /\ i % d \in 0 .. d - 1
           /\ \A q \in 0 .. n - 1, r \in 0 .. d - 1 :
                /\ d * q + r \in 0 .. n * d - 1
                /\ (d * q + r) \div d = q /\ (d * q + r) % d = r
<1>1. ASSUME NEW i \in 0 .. n * d - 1
      PROVE  i = d * (i \div d) + (i % d) /\ i \div d \in 0 .. n - 1 /\ i % d \in 0 .. d - 1
  <2> DEFINE q == i \div d
             r == i % d
  <2>1. n * d \in Int
    OBVIOUS
  <2>2. i = d * q + r /\ q \in Int /\ r \in 0 .. d - 1
    BY <2>1, Z3
  <2>3. q >= 0
    <3> SUFFICES ASSUME q <= -1 PROVE FALSE
      BY <2>2
    <3>1. d * q <= -d
      BY <2>2
    <3> QED
      BY <2>1, <2>2, <3>1
  <2>4. q <= n - 1
    <3> SUFFICES ASSUME q >= n PROVE FALSE
      BY <2>2
    <3>1. d * q >= n * d
      BY <2>2
    <3> QED
      BY <2>1, <2>2, <3>1
  <2> QED
    BY <2>2, <2>3, <2>4
<1>2. ASSUME NEW q \in 0 .. n - 1, NEW r \in 0 .. d - 1
      PROVE  d * q + r \in 0 .. n * d - 1
  <2>1. d * q >= 0 /\ d * q \in Int /\ n * d \in Int
    OBVIOUS
  <2>2. d * q <= n * d - d
    <3>1. d * ((n - 1) - q) >= 0
      OBVIOUS
    <3> QED
      BY <2>1, <3>1
  <2> QED
    BY <2>1, <2>2
<1> QED
  BY <1>1, <1>2, QuotientOf

-----------------------------------------------------------------------------
(* Least numbers.  A statement about all numbers is proved from here: the  *)
(* least one that it is false of cannot be.                                *)
LEMMA LeastNatural ==
    ASSUME NEW S \in SUBSET Nat, S # {}
    PROVE  \E x \in S : \A y \in S : x <= y
<1> DEFINE R == {p \in Nat \X Nat : p[1] < p[2]}
<1>1. IsWellFoundedOn(R, Nat)
  BY NatLessThanWellFounded DEF OpToRel
<1>2. PICK x \in S : \A y \in S : ~ (<<y, x>> \in R)
  BY <1>1, WFMin, Zenon
<1>3. ASSUME NEW y \in S PROVE x <= y
  <2>1. <<y, x>> \in Nat \X Nat /\ <<y, x>>[1] = y /\ <<y, x>>[2] = x
    OBVIOUS
  <2> QED
    BY <1>2, <2>1
<1> QED
  BY <1>3

-----------------------------------------------------------------------------
(* Sums: the function that the recursion of MapThenSumSet defines takes    *)
(* each set of indices to the sum of F over it.                            *)
IsSum(g, F, S) ==
    g = [s \in SUBSET S |-> IF s = {} THEN 0
                            ELSE F[CHOOSE x \in s : TRUE] + g[s \ {CHOOSE x \in s : TRUE}]]

LEMMA SumStep ==
    ASSUME NEW S, NEW F, NEW g, IsSum(g, F, S)
    PROVE  /\ g[{}] = 0
           /\ \A s \in SUBSET S : s # {} =>
                g[s] = F[CHOOSE x \in s : TRUE] + g[s \ {CHOOSE x \in s : TRUE}]
<1>1. ASSUME NEW s \in SUBSET S
      PROVE  g[s] = IF s = {} THEN 0
                    ELSE F[CHOOSE x \in s : TRUE] + g[s \ {CHOOSE x \in s : TRUE}]
  BY Zenon DEF IsSum
<1> QED
  BY <1>1

LEMMA SumType ==
    ASSUME NEW S, IsFiniteSet(S), NEW F \in [S -> Int], NEW g, IsSum(g, F, S)
    PROVE  g[S] \in Int
<1> DEFINE Bad == {Cardinality(s) : s \in {t \in SUBSET S : g[t] \notin Int}}
<1>1. \A s \in SUBSET S : IsFiniteSet(s) /\ Cardinality(s) \in Nat
  BY FS_Subset, FS_CardinalityType
<1>2. SUFFICES ASSUME Bad # {} PROVE FALSE
  BY <1>1
<1>3. PICK n \in Bad : \A m \in Bad : n <= m
  BY <1>1, <1>2, LeastNatural
<1>4. PICK s \in SUBSET S : g[s] \notin Int /\ Cardinality(s) = n
  BY <1>3
<1> DEFINE x == CHOOSE y \in s : TRUE
           r == s \ {x}
<1>5. s # {}
  BY <1>4 DEF IsSum
<1>6. x \in s
  BY <1>5
<1>7. r \in SUBSET S /\ Cardinality(r) = n - 1 /\ n \in Nat
  BY <1>1, <1>4, <1>6, FS_RemoveElement
<1>8. g[r] \in Int
  BY <1>3, <1>7
<1>9. g[s] = F[x] + g[r]
  BY <1>5 DEF IsSum
<1> QED
  BY <1>4, <1>6, <1>8, <1>9

(* A set has one sum, whichever larger set it is taken with.               *)
LEMMA SumUnique ==
    ASSUME NEW A, NEW B, NEW F, NEW G, NEW g, NEW h, IsSum(g, F, A), IsSum(h, G, B),
           NEW s \in SUBSET A, s \in SUBSET B, IsFiniteSet(s), \A x \in s : F[x] = G[x]
    PROVE  g[s] = h[s]
<1> DEFINE Bad == {Cardinality(t) : t \in {u \in SUBSET s : g[u] # h[u]}}
<1>1. \A t \in SUBSET s : IsFiniteSet(t) /\ Cardinality(t) \in Nat
  BY FS_Subset, FS_CardinalityType
<1>2. SUFFICES ASSUME Bad # {} PROVE FALSE
  BY <1>1
<1>3. PICK n \in Bad : \A m \in Bad : n <= m
  BY <1>1, <1>2, LeastNatural
<1>4. PICK t \in SUBSET s : g[t] # h[t] /\ Cardinality(t) = n
  BY <1>3
<1> DEFINE x == CHOOSE y \in t : TRUE
           r == t \ {x}
<1>5. t # {}
  BY <1>4 DEF IsSum
<1>6. x \in t
  BY <1>5
<1>7. r \in SUBSET s /\ Cardinality(r) = n - 1 /\ n \in Nat
  BY <1>1, <1>4, <1>6, FS_RemoveElement
<1>8. g[r] = h[r]
  BY <1>3, <1>7
<1>9. g[t] = F[x] + g[r] /\ h[t] = G[x] + h[r]
  BY <1>5 DEF IsSum
<1>10. F[x] = G[x]
  BY <1>6
<1> QED
  BY <1>4, <1>8, <1>9, <1>10

LEMMA SumExists ==
    ASSUME NEW S, IsFiniteSet(S), NEW F
    PROVE  \E g : IsSum(g, F, S)
<1> DEFINE Bad == {Cardinality(s) : s \in {t \in SUBSET S : ~\E g : IsSum(g, F, t)}}
<1>1. \A s \in SUBSET S : IsFiniteSet(s) /\ Cardinality(s) \in Nat
  BY FS_Subset, FS_CardinalityType
<1>2. SUFFICES ASSUME Bad # {} PROVE FALSE
  BY <1>1
<1>3. PICK n \in Bad : \A m \in Bad : n <= m
  BY <1>1, <1>2, LeastNatural
<1>4. PICK s \in SUBSET S : ~(\E g : IsSum(g, F, s)) /\ Cardinality(s) = n
  BY <1>3
<1> DEFINE G(t) == CHOOSE g : IsSum(g, F, t)
           first(t) == CHOOSE x \in t : TRUE
           rest(t) == t \ {first(t)}
           h == [t \in SUBSET s |-> IF t = {} THEN 0 ELSE F[first(t)] + G(rest(t))[rest(t)]]
<1>5. ASSUME NEW t \in SUBSET s, t # s PROVE IsSum(G(t), F, t)
  <2>1. Cardinality(t) < n
    BY <1>1, <1>4, <1>5, FS_Subset
  <2>2. Cardinality(t) \in Nat /\ n \in Nat
    BY <1>1, <1>4
  <2>3. \E g : IsSum(g, F, t)
    BY <1>3, <2>1, <2>2
  <2> QED
    BY <2>3
<1>6. ASSUME NEW t \in SUBSET s, t # {} PROVE rest(t) \in SUBSET s /\ rest(t) # s /\ rest(t) \in SUBSET t
  BY <1>6
<1>7. ASSUME NEW t \in SUBSET s, t # s PROVE h[t] = G(t)[t]
  <2>1. CASE t = {}
    <3>1. IsSum(G(t), F, t)
      BY <1>5, <1>7
    <3>2. h[t] = 0
      BY <2>1
    <3> HIDE DEF G, h
    <3>3. G(t)[{}] = 0
      BY <3>1, SumStep
    <3> QED
      BY <2>1, <3>2, <3>3
  <2>2. CASE t # {}
    <3> DEFINE r == rest(t)
    <3>1. h[t] = F[first(t)] + G(r)[r]
      BY <2>2
    <3>2. G(t)[t] = F[first(t)] + G(t)[r]
      <4>1. IsSum(G(t), F, t) /\ t \in SUBSET t
        BY <1>5, <1>7
      <4> HIDE DEF G
      <4> QED
        BY <2>2, <4>1, SumStep
    <3>3. r \in SUBSET s /\ r # s /\ r \in SUBSET t
      BY <1>6, <2>2
    <3>4. IsSum(G(t), F, t) /\ IsSum(G(r), F, r)
      BY <1>5, <1>7, <3>3
    <3>5. IsFiniteSet(r) /\ r \in SUBSET r
      BY <1>1, <3>3
    <3> HIDE DEF G, r
    <3>6. G(t)[r] = G(r)[r]
      BY <3>3, <3>4, <3>5, SumUnique
    <3> QED
      BY <3>1, <3>2, <3>6
  <2> QED
    BY <2>1, <2>2
<1>8. ASSUME NEW t \in SUBSET s, t # {} PROVE h[t] = F[first(t)] + h[rest(t)]
  BY <1>6, <1>7, <1>8
<1>9. h = [t \in SUBSET s |-> IF t = {} THEN 0 ELSE F[first(t)] + h[rest(t)]]
  <2> DEFINE k == [t \in SUBSET s |-> IF t = {} THEN 0 ELSE F[first(t)] + h[rest(t)]]
  <2>1. ASSUME NEW t \in SUBSET s PROVE h[t] = k[t]
    <3>1. CASE t = {}
      BY <3>1
    <3>2. CASE t # {}
      <4>1. h[t] = F[first(t)] + h[rest(t)]
        BY <1>8, <3>2
      <4> HIDE DEF h
      <4> QED
        BY <3>2, <4>1
    <3> QED
      BY <3>1, <3>2
  <2>2. DOMAIN h = SUBSET s /\ DOMAIN k = SUBSET s
    OBVIOUS
  <2>3. h = [t \in DOMAIN h |-> h[t]] /\ k = [t \in DOMAIN k |-> k[t]]
    OBVIOUS
  <2> HIDE DEF h, k
  <2>4. h = k
    BY <2>1, <2>2, <2>3
  <2> QED
    BY <2>4 DEF k
<1>10. IsSum(h, F, s)
  BY <1>9 DEF IsSum
<1> QED
  BY <1>4, <1>10

(* Every part of a finite set has an integer sum, ...                      *)
LEMMA PartialSums ==
    ASSUME NEW S, IsFiniteSet(S), NEW F \in [S -> Int], NEW g, IsSum(g, F, S),
           NEW s \in SUBSET S
    PROVE  g[s] \in Int
<1> DEFINE R == [x \in s |-> F[x]]
<1>1. IsFiniteSet(s)
  BY FS_Subset
<1>2. PICK h : IsSum(h, R, s)
  BY <1>1, SumExists
<1>3. \A x \in s : R[x] = F[x]
  OBVIOUS
<1>4. h[s] = g[s]
  <2> HIDE DEF R
  <2> QED
    BY <1>1, <1>2, <1>3, SumUnique
<1>5. R \in [s -> Int]
  OBVIOUS
<1> QED
  BY <1>1, <1>2, <1>4, <1>5, SumType

(* ... whichever element is taken first.                                   *)
LEMMA SumAnyOrder ==
    ASSUME NEW S, IsFiniteSet(S), NEW F \in [S -> Int], NEW g, IsSum(g, F, S)
    PROVE  \A s \in SUBSET S : \A x \in s : g[s] = F[x] + g[s \ {x}]
<1> DEFINE Right(s) == \A x \in s : g[s] = F[x] + g[s \ {x}]
           Bad == {Cardinality(s) : s \in {t \in SUBSET S : ~Right(t)}}
<1>1. \A s \in SUBSET S : IsFiniteSet(s) /\ Cardinality(s) \in Nat /\ g[s] \in Int
  BY FS_Subset, FS_CardinalityType, PartialSums
<1>2. SUFFICES ASSUME Bad # {} PROVE FALSE
  OBVIOUS
<1>3. PICK n \in Bad : \A m \in Bad : n <= m
  <2> HIDE DEF Right
  <2>1. Bad \in SUBSET Nat
    BY <1>1
  <2> HIDE DEF Bad
  <2> QED
    BY <1>2, <2>1, LeastNatural
<1>4. PICK s \in SUBSET S : ~Right(s) /\ Cardinality(s) = n
  BY <1>3
<1>5. PICK x \in s : g[s] # F[x] + g[s \ {x}]
  BY <1>4
<1> DEFINE y == CHOOSE z \in s : TRUE
<1>6. y \in s /\ g[s] = F[y] + g[s \ {y}]
  <2>1. s # {}
    BY <1>5
  <2>2. y \in s
    BY <2>1
  <2>3. g[s] = F[y] + g[s \ {y}]
    BY <2>1 DEF IsSum
  <2> QED
    BY <2>2, <2>3
<1> HIDE DEF y
<1>7. x # y
  BY <1>5, <1>6
<1>8. \A z \in s : s \ {z} \in SUBSET S /\ Right(s \ {z})
  <2> SUFFICES ASSUME NEW z \in s PROVE s \ {z} \in SUBSET S /\ Right(s \ {z})
    OBVIOUS
  <2>1. s \ {z} \in SUBSET S /\ Cardinality(s \ {z}) = n - 1 /\ n \in Nat
    BY <1>1, <1>4, FS_RemoveElement
  <2>2. n - 1 \notin Bad
    BY <1>3, <2>1
  <2> HIDE DEF Right
  <2> QED
    BY <2>1, <2>2
<1>9. g[s \ {y}] = F[x] + g[(s \ {y}) \ {x}] /\ g[s \ {x}] = F[y] + g[(s \ {x}) \ {y}]
  BY <1>6, <1>7, <1>8
<1>10. (s \ {y}) \ {x} = (s \ {x}) \ {y} /\ (s \ {x}) \ {y} \in SUBSET S
  OBVIOUS
<1>11. F[x] \in Int /\ F[y] \in Int /\ g[(s \ {x}) \ {y}] \in Int
  BY <1>1, <1>6, <1>10
<1> DEFINE c == g[(s \ {x}) \ {y}]
<1>12. g[s] = F[y] + (F[x] + c) /\ g[s \ {x}] = F[y] + c
  BY <1>6, <1>9, <1>10, Zenon
<1>13. c \in Int
  BY <1>11
<1> HIDE DEF c
<1>14. F[y] + (F[x] + c) = F[x] + (F[y] + c)
  BY <1>11, <1>13
<1> QED
  BY <1>5, <1>12, <1>14

(* Nothing but zeros is nothing.                                           *)
LEMMA SumOfZeros ==
    ASSUME NEW S, IsFiniteSet(S), NEW F \in [S -> Int], NEW g, IsSum(g, F, S),
           NEW s \in SUBSET S, \A x \in s : F[x] = 0
    PROVE  g[s] = 0
<1> DEFINE Bad == {Cardinality(t) : t \in {u \in SUBSET s : g[u] # 0}}
<1>1. \A t \in SUBSET s : IsFiniteSet(t) /\ Cardinality(t) \in Nat /\ t \in SUBSET S
  BY FS_Subset, FS_CardinalityType
<1>2. SUFFICES ASSUME Bad # {} PROVE FALSE
  BY <1>1
<1>3. PICK n \in Bad : \A m \in Bad : n <= m
  <2>1. Bad \in SUBSET Nat
    BY <1>1
  <2> HIDE DEF Bad
  <2> QED
    BY <1>2, <2>1, LeastNatural
<1>4. PICK t \in SUBSET s : g[t] # 0 /\ Cardinality(t) = n
  BY <1>3
<1>5. t # {}
  <2>1. g[{}] = 0
    BY SumStep
  <2> QED
    BY <1>4, <2>1
<1>6. PICK x \in t : TRUE
  BY <1>5
<1>7. t \ {x} \in SUBSET s /\ Cardinality(t \ {x}) = n - 1 /\ n \in Nat
  BY <1>1, <1>4, FS_RemoveElement
<1>8. g[t \ {x}] = 0
  <2>1. n - 1 \notin Bad
    BY <1>3, <1>7
  <2> QED
    BY <1>7, <2>1
<1>9. g[t] = F[x] + g[t \ {x}]
  BY <1>1, SumAnyOrder
<1> QED
  BY <1>4, <1>8, <1>9

(* A sum of integers is one.                                               *)
LEMMA SumOfIntegers ==
    ASSUME NEW S, IsFiniteSet(S), NEW F \in [S -> Int]
    PROVE  MapThenSumSet(LAMBDA x : F[x], S) \in Int
<1> DEFINE g == CHOOSE g : IsSum(g, F, S)
<1>1. IsSum(g, F, S)
  BY SumExists
<1>2. MapThenSumSet(LAMBDA x : F[x], S) = g[S]
  BY DEF MapThenSumSet, MapThenFoldSet, IsSum
<1> QED
  BY <1>1, <1>2, SumType
=============================================================================
