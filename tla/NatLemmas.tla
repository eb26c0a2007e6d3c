----------------------------- MODULE NatLemmas -----------------------------
(* What the proofs need of numbers, stated once. *)
EXTENDS Integers, WellFoundedInduction, TLAPS

(* A nonempty set of naturals has a least element: what find_key's and
   export's scans, and the kernel's choice of a descriptor, rest on. *)
LEMMA Least ==
  ASSUME NEW S \in SUBSET Nat, S # {}
  PROVE  \E n \in S : \A m \in S : n <= m
<1>1. PICK n \in S : \A m \in S : ~ (<<m, n>> \in OpToRel(<, Nat))
  BY NatLessThanWellFounded, WFMin, Zenon
<1>2. \A m \in S : ~ (m < n)
  BY <1>1, Zenon DEF OpToRel
<1>3. QED
  BY <1>2

(* Division by a word size, and its multiples. *)
LEMMA Division ==
  ASSUME NEW w \in Nat \ {0}, NEW a \in Nat
  PROVE  a \div w \in Nat /\ a % w \in 0 .. w - 1 /\ a = w * (a \div w) + (a % w)
  BY SMTT(30)

LEMMA MultipleMod ==
  ASSUME NEW w \in Nat \ {0}, NEW q \in Nat
  PROVE  (q * w) % w = 0
  BY SMTT(30)

LEMMA MultiplesAdd ==
  ASSUME NEW w \in Nat \ {0}, NEW a \in Nat, NEW b \in Nat, a % w = 0, b % w = 0
  PROVE  (a + b) % w = 0
<1>1. /\ a \div w \in Nat /\ b \div w \in Nat
      /\ a = (a \div w) * w /\ b = (b \div w) * w
  BY SMTT(30)
<1>2. (a \div w) + (b \div w) \in Nat /\ a + b = ((a \div w) + (b \div w)) * w
  BY <1>1, SMTT(30)
<1>3. QED
  BY <1>2, MultipleMod

(* What holds at a, and at n + 1 if it holds at n, holds from a to b. *)
LEMMA Upward ==
  ASSUME NEW a \in Int, NEW b \in Int, NEW S, a \in S, \A n \in a .. b - 1 : n \in S => n + 1 \in S
  PROVE  \A n \in a .. b : n \in S
<1> DEFINE R == {n - a : n \in (a .. b) \ S}
<1>1. ASSUME R # {} PROVE FALSE
  <2>1. R \in SUBSET Nat
    OBVIOUS
  <2>2. PICK k \in R : \A m \in R : k <= m
    BY <1>1, <2>1, Least
  <2>3. PICK n \in (a .. b) \ S : k = n - a
    BY <2>2
  <2>4. n # a
    BY <2>3
  <2>5. n - 1 \in a .. b - 1 /\ (n - 1) + 1 = n /\ n - 1 \in a .. b /\ (n - 1) - a < k
    BY <2>3, <2>4
  <2>6. n - 1 \notin S
    BY <2>3, <2>5
  <2>7. (n - 1) - a \in R
    BY <2>5, <2>6
  <2>8. QED
    BY <2>2, <2>3, <2>5, <2>7
<1>2. QED
  BY <1>1

(* And downwards, from b to a. *)
LEMMA Downward ==
  ASSUME NEW a \in Int, NEW b \in Int, NEW S, b \in S, \A n \in a .. b - 1 : n + 1 \in S => n \in S
  PROVE  \A n \in a .. b : n \in S
<1> DEFINE T == {m \in Int : b - m \in S}
<1>1. 0 \in T
  OBVIOUS
<1>2. ASSUME NEW m \in 0 .. (b - a) - 1, m \in T PROVE m + 1 \in T
  <2>1. b - (m + 1) \in a .. b - 1 /\ (b - (m + 1)) + 1 = b - m
    BY <1>2
  <2>2. QED
    BY <1>2, <2>1
<1>3. \A m \in 0 .. b - a : m \in T
  <2> HIDE DEF T
  <2>1. \A m \in 0 .. (b - a) - 1 : m \in T => m + 1 \in T
    BY <1>2
  <2>2. QED
    BY <1>1, <2>1, Upward
<1>4. ASSUME NEW n \in a .. b PROVE n \in S
  <2>1. b - n \in 0 .. b - a /\ b - (b - n) = n
    OBVIOUS
  <2>2. QED
    BY <1>3, <2>1
<1>5. QED
  BY <1>4

-----------------------------------------------------------------------------
(* Induction and recursion along a rank, with sets and functions in place of
   predicates and definitions. *)

(* What holds of x as soon as it holds of everything of lower rank holds. *)
LEMMA ByRank ==
  ASSUME NEW D, NEW rank \in [D -> Nat], NEW S,
         \A x \in D : (\A y \in D : rank[y] < rank[x] => y \in S) => x \in S
  PROVE  \A x \in D : x \in S
<1> DEFINE R == {rank[x] : x \in D \ S}
<1>1. ASSUME R # {} PROVE FALSE
  <2>1. R \in SUBSET Nat
    OBVIOUS
  <2>2. PICK n \in R : \A m \in R : n <= m
    BY <1>1, <2>1, Least
  <2>3. PICK x \in D \ S : rank[x] = n
    BY <2>2
  <2>4. ASSUME NEW y \in D, rank[y] < rank[x] PROVE y \in S
    BY <2>2, <2>3, <2>4
  <2>5. QED
    BY <2>3, <2>4
<1>2. QED
  BY <1>1

(* The functions that satisfy a recursion on everything of rank below n. *)
Solves(D, V, rank, step, n) ==
    {f \in [D -> V] : \A x \in D : rank[x] < n => f[x] = step[<<x, f>>]}

(* A recursion in which step, at x, looks only at values of lower rank. *)
Descends(D, V, rank, step) ==
    /\ rank \in [D -> Nat]
    /\ step \in [D \X [D -> V] -> V]
    /\ \A x \in D : \A f, g \in [D -> V] :
          (\A y \in D : rank[y] < rank[x] => f[y] = g[y]) => step[<<x, f>>] = step[<<x, g>>]

(* Two solutions agree as far as both go. *)
LEMMA SolutionsAgree ==
  ASSUME NEW D, NEW V, NEW rank, NEW step, Descends(D, V, rank, step), NEW n \in Nat, NEW m \in Nat,
         NEW f \in Solves(D, V, rank, step, n), NEW g \in Solves(D, V, rank, step, m)
  PROVE  \A x \in D : rank[x] < n /\ rank[x] < m => f[x] = g[x]
<1> DEFINE S == {x \in D : rank[x] < n /\ rank[x] < m => f[x] = g[x]}
<1>1. rank \in [D -> Nat] /\ f \in [D -> V] /\ g \in [D -> V]
  BY DEF Descends, Solves
<1>2. ASSUME NEW x \in D, \A y \in D : rank[y] < rank[x] => y \in S PROVE x \in S
  <2>1. CASE rank[x] < n /\ rank[x] < m
    <3>1. \A y \in D : rank[y] < rank[x] => f[y] = g[y]
      BY <1>1, <1>2, <2>1
    <3>2. step[<<x, f>>] = step[<<x, g>>]
      BY <1>1, <3>1 DEF Descends
    <3>3. QED
      BY <2>1, <3>2 DEF Solves
  <2>2. QED
    BY <2>1
<1>3. \A x \in D : x \in S
  <2> HIDE DEF S
  <2>1. \A x \in D : (\A y \in D : rank[y] < rank[x] => y \in S) => x \in S
    BY <1>2
  <2>2. QED
    BY <1>1, <2>1, ByRank
<1>4. QED
  BY <1>3

(* There is a solution below every rank. *)
LEMMA SolvesBelow ==
  ASSUME NEW D, NEW V, NEW rank, NEW step, Descends(D, V, rank, step), V # {}, NEW n \in Nat
  PROVE  Solves(D, V, rank, step, n) # {}
<1> DEFINE S == {m \in Nat : Solves(D, V, rank, step, m) # {}}
<1>1. 0 \in S
  <2>1. PICK v \in V : TRUE
    OBVIOUS
  <2>2. PICK f : f = [x \in D |-> v]
    OBVIOUS
  <2>3. f \in Solves(D, V, rank, step, 0)
    BY <2>2 DEF Solves, Descends
  <2>4. QED
    BY <2>3
<1>2. ASSUME NEW m \in S PROVE m + 1 \in S
  <2>1. PICK f : f \in Solves(D, V, rank, step, m)
    OBVIOUS
  <2>2. PICK h : h = [x \in D |-> IF rank[x] < m THEN f[x] ELSE step[<<x, f>>]]
    OBVIOUS
  <2>3. f \in [D -> V] /\ rank \in [D -> Nat] /\ step \in [D \X [D -> V] -> V]
    BY <2>1 DEF Solves, Descends
  <2>4. h \in [D -> V]
    <3>1. \A x \in D : step[<<x, f>>] \in V
      BY <2>3
    <3>2. QED
      BY <2>2, <2>3, <3>1
  <2>5. ASSUME NEW x \in D, rank[x] < m + 1 PROVE h[x] = step[<<x, h>>]
    <3>1. \A y \in D : rank[y] < rank[x] => f[y] = h[y]
      BY <2>2, <2>3, <2>5
    <3>2. step[<<x, f>>] = step[<<x, h>>]
      BY <2>3, <2>4, <3>1 DEF Descends
    <3>3. h[x] = step[<<x, f>>]
      <4>1. CASE rank[x] < m
        BY <2>1, <2>2, <4>1 DEF Solves
      <4>2. CASE ~ (rank[x] < m)
        BY <2>2, <4>2
      <4>3. QED
        BY <4>1, <4>2
    <3>4. QED
      BY <3>2, <3>3
  <2>6. h \in Solves(D, V, rank, step, m + 1)
    BY <2>4, <2>5 DEF Solves
  <2>7. QED
    BY <2>6
<1>3. ASSUME Nat \ S # {} PROVE FALSE
  <2>1. PICK k \in Nat \ S : \A j \in Nat \ S : k <= j
    BY <1>3, Least
  <2>2. k # 0
    BY <1>1
  <2>3. k - 1 \in Nat /\ k - 1 \in S /\ (k - 1) + 1 = k
    BY <2>1, <2>2
  <2>4. QED
    BY <1>2, <2>1, <2>3
<1>4. QED
  BY <1>3

(* A recursion along a rank defines a function. *)
LEMMA Recursion ==
  ASSUME NEW D, NEW V, NEW rank, NEW step, Descends(D, V, rank, step), V # {}
  PROVE  \E f \in [D -> V] : \A x \in D : f[x] = step[<<x, f>>]
<1>1. rank \in [D -> Nat] /\ step \in [D \X [D -> V] -> V]
  BY DEF Descends
<1>2. \A n \in Nat : Solves(D, V, rank, step, n) # {}
  BY SolvesBelow
<1>3. PICK F : F = [n \in Nat |-> CHOOSE f : f \in Solves(D, V, rank, step, n)]
  OBVIOUS
<1>4. \A n \in Nat : F[n] \in Solves(D, V, rank, step, n)
  BY <1>2, <1>3
<1>5. PICK g : g = [x \in D |-> F[rank[x] + 1][x]]
  OBVIOUS
<1>6. \A n \in Nat : F[n] \in [D -> V]
  BY <1>4 DEF Solves
<1>7. g \in [D -> V]
  <2>1. \A x \in D : rank[x] + 1 \in Nat
    BY <1>1
  <2>2. QED
    BY <1>5, <1>6, <2>1
<1>8. ASSUME NEW x \in D PROVE g[x] = step[<<x, g>>]
  <2>1. PICK n \in Nat : n = rank[x] + 1
    BY <1>1
  <2>2. ASSUME NEW y \in D, rank[y] < rank[x] PROVE F[n][y] = g[y]
    <3>1. PICK m \in Nat : m = rank[y] + 1
      BY <1>1
    <3>2. rank[y] < n /\ rank[y] < m
      BY <1>1, <2>1, <2>2, <3>1
    <3>3. F[n][y] = F[m][y]
      BY <1>4, <3>2, SolutionsAgree
    <3>4. QED
      BY <1>5, <3>1, <3>3
  <2>3. step[<<x, F[n]>>] = step[<<x, g>>]
    BY <1>6, <1>7, <2>2 DEF Descends
  <2>4. F[n][x] = step[<<x, F[n]>>]
    <3>1. rank[x] < n
      BY <1>1, <2>1
    <3>2. QED
      BY <1>4, <3>1 DEF Solves
  <2>5. QED
    BY <1>5, <2>1, <2>3, <2>4
<1>9. QED
  BY <1>7, <1>8
=============================================================================
