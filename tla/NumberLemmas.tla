----------------------------- MODULE NumberLemmas -----------------------------
(***************************************************************************)
(* What the proofs of the other modules use about integers: division with  *)
(* a divisor that is a parameter (a cadence, a staleness), the least of a  *)
(* set, and induction over a SET of numbers, which needs no operator as a  *)
(* parameter, for what a recursive function computes.                      *)
(***************************************************************************)
EXTENDS Integers, WellFoundedInduction, TLAPS

-----------------------------------------------------------------------------
(* Division.                                                               *)

\* What a quotient is.
LEMMA Quotient ==
  ASSUME NEW n \in Nat, NEW k \in Nat \ {0}
  PROVE  /\ n \div k \in Nat
         /\ (n \div k) * k <= n /\ n < (n \div k) * k + k
OBVIOUS

\* Two multiples of k cannot both be the last one before n.
LEMMA QuotientUnique ==
  ASSUME NEW k \in Nat \ {0}, NEW n \in Int, NEW a \in Int, NEW b \in Int,
         a * k <= n, n < a * k + k, b * k <= n, n < b * k + k
  PROVE  a = b
<1>1. CASE a < b
  <2>1. (b - a) * k >= k
    BY <1>1
  <2> QED BY <2>1
<1>2. CASE b < a
  <2>1. (a - b) * k >= k
    BY <1>2
  <2> QED BY <2>1
<1> QED BY <1>1, <1>2

\* The quotient is the number with that property.
LEMMA QuotientIs ==
  ASSUME NEW n \in Nat, NEW k \in Nat \ {0}, NEW a \in Int, a * k <= n, n < a * k + k
  PROVE  n \div k = a
<1> DEFINE q == n \div k
<1>1. q \in Nat /\ q * k <= n /\ n < q * k + k
  BY Quotient
<1> HIDE DEF q
<1>2. q = a
  BY <1>1, QuotientUnique
<1> QED BY <1>2 DEF q

\* One block back, one quotient less.
LEMMA QuotientBefore ==
  ASSUME NEW n \in Nat, NEW k \in Nat \ {0}, n >= k
  PROVE  (n - k) \div k = (n \div k) - 1
<1> DEFINE q == n \div k
<1>1. q \in Nat /\ q * k <= n /\ n < q * k + k
  BY Quotient
<1> HIDE DEF q
<1>2. n - k \in Nat /\ q - 1 \in Int /\ (q - 1) * k <= n - k /\ n - k < (q - 1) * k + k
  BY <1>1
<1>3. (n - k) \div k = q - 1
  BY <1>2, QuotientIs
<1> QED BY <1>3 DEF q

\* The first block.
LEMMA QuotientSmall ==
  ASSUME NEW n \in Nat, NEW k \in Nat \ {0}, n < k
  PROVE  n \div k = 0
BY QuotientIs

\* The remainder is what the quotient leaves.
LEMMA Remainder ==
  ASSUME NEW n \in Nat, NEW k \in Nat \ {0}
  PROVE  /\ n % k \in 0 .. k - 1 /\ n % k \in Nat
         /\ n = (n \div k) * k + (n % k)
OBVIOUS

\* Counting on by one: the quotient grows where the remainder falls to zero.
LEMMA QuotientNext ==
  ASSUME NEW n \in Nat, NEW k \in Nat \ {0}
  PROVE  IF (n + 1) % k = 0
           THEN (n + 1) \div k = n \div k + 1
           ELSE (n + 1) \div k = n \div k /\ (n + 1) % k = (n % k) + 1
<1> DEFINE q == n \div k
           r == n % k
           p == (n + 1) \div k
           s == (n + 1) % k
<1>1. q \in Nat /\ r \in 0 .. k - 1 /\ n = q * k + r
  BY Quotient, Remainder
<1>2. p \in Nat /\ s \in 0 .. k - 1 /\ n + 1 = p * k + s
  <2>1. n + 1 \in Nat
    OBVIOUS
  <2> QED BY <2>1, Quotient, Remainder
<1> HIDE DEF q, r, p, s
<1>3. CASE s = 0
  <2>1. p - 1 \in Int /\ (p - 1) * k <= n /\ n < (p - 1) * k + k
    BY <1>2, <1>3
  <2>2. q * k <= n /\ n < q * k + k
    BY <1>1
  <2>3. p - 1 = q
    BY <1>1, <2>1, <2>2, QuotientUnique
  <2> QED BY <1>1, <1>2, <1>3, <2>3 DEF q, p, s
<1>4. CASE s # 0
  <2>1. p * k <= n /\ n < p * k + k
    BY <1>2, <1>4
  <2>2. q * k <= n /\ n < q * k + k
    BY <1>1
  <2>3. p = q
    BY <1>1, <1>2, <2>1, <2>2, QuotientUnique
  <2>4. s = r + 1
    BY <1>1, <1>2, <2>3
  <2> QED BY <1>4, <2>3, <2>4 DEF q, r, p, s
<1> QED BY <1>3, <1>4

\* A larger number has no smaller quotient.
LEMMA QuotientMonotone ==
  ASSUME NEW m \in Nat, NEW n \in Nat, m <= n, NEW k \in Nat \ {0}
  PROVE  m \div k <= n \div k
<1> DEFINE a == m \div k
           b == n \div k
<1>1. a \in Nat /\ a * k <= m /\ b \in Nat /\ n < b * k + k
  BY Quotient
<1> HIDE DEF a, b
<1>2. CASE b < a
  <2>1. (a - b) * k >= k
    BY <1>1, <1>2
  <2> QED BY <1>1, <2>1
<1>3. CASE a <= b
  BY <1>3 DEF a, b
<1> QED BY <1>1, <1>2, <1>3

-----------------------------------------------------------------------------
(* Induction and recursion.                                                *)

\* A set of natural numbers that is not empty has a least element.
LEMMA LeastNumber ==
  ASSUME NEW S, S \subseteq Nat, S # {}
  PROVE  \E n \in S : \A m \in S : n <= m
<1> DEFINE R == OpToRel(<, Nat)
<1>1. IsWellFoundedOn(R, Nat)
  BY NatLessThanWellFounded
<1>3. \A x, y \in Nat : <<y, x>> \in R <=> y < x
  BY DEF R, OpToRel
<1> HIDE DEF R
<1>2. PICK x \in S : \A y \in S : ~ (<<y, x>> \in R)
  BY <1>1, WFMin
<1>4. ASSUME NEW m \in S PROVE x <= m
  <2>1. m \in Nat /\ x \in Nat
    OBVIOUS
  <2>2. ~(m < x)
    BY <1>2, <1>3, <2>1
  <2> QED BY <2>1, <2>2
<1> QED BY <1>4

\* Induction over the natural numbers, for a set of them.
LEMMA SetInduction ==
  ASSUME NEW S, 0 \in S, \A n \in Nat : n \in S => n + 1 \in S
  PROVE  Nat \subseteq S
<1> DEFINE missing == {n \in Nat : n \notin S}
<1>1. SUFFICES missing = {}
  OBVIOUS
<1>2. SUFFICES ASSUME missing # {} PROVE FALSE
  OBVIOUS
<1>3. missing \subseteq Nat
  OBVIOUS
<1>4. PICK n \in missing : \A m \in missing : n <= m
  <2> HIDE DEF missing
  <2> QED BY <1>2, <1>3, LeastNumber
<1>5. n \in Nat /\ n # 0 /\ n \notin S
  OBVIOUS
<1>6. n - 1 \in Nat /\ ~(n <= n - 1)
  BY <1>5
<1>7. n - 1 \notin missing
  BY <1>4, <1>6
<1>8. n - 1 \in S
  BY <1>6, <1>7
<1>9. (n - 1) + 1 \in S
  BY <1>6, <1>8
<1> QED BY <1>5, <1>9

\* A backward recursion over 1 .. n has a solution, so that what a recursive
\* definition chooses does satisfy its equation.
LEMMA BackwardRecursion ==
  ASSUME NEW n \in Nat, NEW b \in [1 .. n -> Int], NEW c \in [1 .. n -> Int]
  PROVE  \E f \in [1 .. n + 1 -> Int] :
           f = [i \in 1 .. n + 1 |-> IF i = n + 1 THEN 0 ELSE b[i] + c[i] * f[i + 1]]
<1> DEFINE Solves(f, k) ==
             /\ f \in [k .. n + 1 -> Int]
             /\ \A i \in k .. n + 1 : f[i] = IF i = n + 1 THEN 0 ELSE b[i] + c[i] * f[i + 1]
           S == {k \in Nat : k <= n => \E f : Solves(f, n + 1 - k)}
<1>1. 0 \in S
  <2> DEFINE f == [i \in n + 1 .. n + 1 |-> 0]
  <2>1. Solves(f, n + 1 - 0)
    OBVIOUS
  <2> QED BY <2>1
<1>2. ASSUME NEW k \in Nat, k \in S PROVE k + 1 \in S
  <2>1. SUFFICES ASSUME k + 1 <= n PROVE \E f : Solves(f, n + 1 - (k + 1))
    <3> HIDE DEF Solves
    <3> QED BY <2>1
  <2>2. PICK f : Solves(f, n + 1 - k)
    <3>1. k \in S /\ k <= n
      BY <1>2, <2>1
    <3> HIDE DEF Solves
    <3> QED BY <3>1
  <2> DEFINE m == n - k
             x == b[m] + c[m] * f[m + 1]
             g == [i \in m .. n + 1 |-> IF i = m THEN x ELSE f[i]]
  <2>3. m \in 1 .. n /\ m + 1 = n + 1 - k /\ n + 1 - (k + 1) = m
    BY <2>1
  <2>4. f[m + 1] \in Int /\ b[m] \in Int /\ c[m] \in Int
    BY <2>2, <2>3
  <2>5. x \in Int
    BY <2>4
  <2>6. /\ f \in [m + 1 .. n + 1 -> Int]
        /\ \A i \in m + 1 .. n + 1 :
             f[i] = IF i = n + 1 THEN 0 ELSE b[i] + c[i] * f[i + 1]
    BY <2>2, <2>3
  <2> HIDE DEF x
  <2>7. g \in [m .. n + 1 -> Int]
    BY <2>3, <2>5, <2>6
  <2>8. ASSUME NEW i \in m .. n + 1
        PROVE  g[i] = IF i = n + 1 THEN 0 ELSE b[i] + c[i] * g[i + 1]
    <3>1. CASE i = m
      <4>1. g[i] = x /\ g[i + 1] = f[m + 1] /\ i # n + 1
        BY <2>3, <3>1
      <4> QED BY <3>1, <4>1 DEF x
    <3>2. CASE i # m
      <4>1. i \in m + 1 .. n + 1 /\ g[i] = f[i]
        BY <2>3, <3>2
      <4>2. CASE i = n + 1
        BY <2>6, <4>1, <4>2
      <4>3. CASE i # n + 1
        <5>1. g[i + 1] = f[i + 1]
          BY <2>3, <4>1, <4>3
        <5> QED BY <2>6, <4>1, <4>3, <5>1
      <4> QED BY <4>2, <4>3
    <3> QED BY <3>1, <3>2
  <2>9. Solves(g, m)
    <3> HIDE DEF g
    <3> QED BY <2>7, <2>8
  <2> QED BY <2>3, <2>9
<1>3. n \in S
  <2> HIDE DEF S
  <2> QED BY <1>1, <1>2, SetInduction
<1>4. PICK f : Solves(f, n + 1 - n)
  BY <1>3
<1>5. /\ f \in [1 .. n + 1 -> Int]
      /\ \A i \in 1 .. n + 1 : f[i] = IF i = n + 1 THEN 0 ELSE b[i] + c[i] * f[i + 1]
  <2>1. n + 1 - n = 1
    OBVIOUS
  <2> QED BY <1>4, <2>1
<1>6. f = [i \in 1 .. n + 1 |-> IF i = n + 1 THEN 0 ELSE b[i] + c[i] * f[i + 1]]
  BY <1>5
<1> QED BY <1>5, <1>6

\* Induction from the end of 1 .. n + 1 to its beginning.
LEMMA BackwardInduction ==
  ASSUME NEW n \in Nat, NEW S, n + 1 \in S, \A i \in 1 .. n : i + 1 \in S => i \in S
  PROVE  1 .. n + 1 \subseteq S
<1> DEFINE K == {k \in Nat : k <= n => n + 1 - k \in S}
<1>1. 0 \in K
  BY SMT
<1>2. ASSUME NEW k \in Nat, k \in K PROVE k + 1 \in K
  <2>1. SUFFICES ASSUME k + 1 <= n PROVE n + 1 - (k + 1) \in S
    OBVIOUS
  <2>2. n + 1 - k \in S
    BY <1>2, <2>1
  <2>3. n - k \in 1 .. n /\ (n - k) + 1 = n + 1 - k /\ n + 1 - (k + 1) = n - k
    BY <2>1
  <2> QED BY <2>2, <2>3
<1>3. Nat \subseteq K
  <2> HIDE DEF K
  <2> QED BY <1>1, <1>2, SetInduction
<1>4. ASSUME NEW i \in 1 .. n + 1 PROVE i \in S
  <2>1. n + 1 - i \in K /\ n + 1 - i <= n /\ n + 1 - (n + 1 - i) = i
    BY <1>3
  <2> QED BY <2>1
<1> QED BY <1>4

\* The solution of a backward recursion over integers is one of integers.
LEMMA BackwardSolution ==
  ASSUME NEW n \in Nat, NEW b \in [1 .. n -> Int], NEW c \in [1 .. n -> Int], NEW f,
         f = [i \in 1 .. n + 1 |-> IF i = n + 1 THEN 0 ELSE b[i] + c[i] * f[i + 1]]
  PROVE  f \in [1 .. n + 1 -> Int]
<1> DEFINE S == {i \in 1 .. n + 1 : f[i] \in Int}
<1>1. n + 1 \in S
  OBVIOUS
<1>2. ASSUME NEW i \in 1 .. n, i + 1 \in S PROVE i \in S
  <2>1. f[i + 1] \in Int /\ b[i] \in Int /\ c[i] \in Int
    BY <1>2
  <2>2. \A x, y, z \in Int : x + y * z \in Int
    OBVIOUS
  <2>3. f[i] = b[i] + c[i] * f[i + 1]
    OBVIOUS
  <2>4. b[i] + c[i] * f[i + 1] \in Int
    BY <2>1, <2>2, Zenon
  <2> QED BY <2>3, <2>4
<1>3. 1 .. n + 1 \subseteq S
  <2> HIDE DEF S
  <2> QED BY <1>1, <1>2, BackwardInduction
<1> QED BY <1>3

=============================================================================
