------------------------------ MODULE Numbers ------------------------------
(***************************************************************************)
(* Facts about natural numbers that the proofs about codes and counts      *)
(* need: induction, which follows from the order on them being             *)
(* well-founded, and what a division keeps of an order.                    *)
(***************************************************************************)
EXTENDS Integers, WellFoundedInduction, TLAPS

LessThan == {p \in Nat \X Nat : p[1] < p[2]}

\* The order on the naturals is well-founded.
LEMMA Less == IsWellFoundedOn(LessThan, Nat)
BY NatLessThanWellFounded DEF OpToRel, LessThan

\* A set of naturals has a smallest one.
LEMMA Smallest ==
  ASSUME NEW T \in SUBSET Nat, T # {}
  PROVE  \E m \in T : \A k \in T : m <= k
<1>1. PICK m \in T : \A k \in T : ~(<<k, m>> \in LessThan)
  BY Less, WFMin
<1>2. ASSUME NEW k \in T PROVE m <= k
  <2>1. <<k, m>> \in Nat \X Nat
    OBVIOUS
  <2> QED BY <1>1, <2>1 DEF LessThan
<1> QED BY <1>2

\* Induction, over a set.
LEMMA SetInduction ==
  ASSUME NEW T \in SUBSET Nat, 0 \in T, \A n \in T : n + 1 \in T
  PROVE  T = Nat
<1> SUFFICES ASSUME Nat \ T # {} PROVE FALSE
  OBVIOUS
<1>1. PICK m \in Nat \ T : \A k \in Nat \ T : m <= k
  BY Smallest
<1>2. m # 0 /\ m - 1 \in Nat /\ m - 1 \in T
  BY <1>1
<1> QED BY <1>2, <1>1

\* Induction up to a bound.
LEMMA InductionUpTo ==
  ASSUME NEW N \in Nat, NEW T \in SUBSET (0 .. N), 0 \in T,
         \A n \in 0 .. N - 1 : n \in T => n + 1 \in T
  PROVE  T = 0 .. N
<1> DEFINE U == {n \in Nat : n <= N => n \in T}
<1>1. 0 \in U
  OBVIOUS
<1>2. ASSUME NEW n \in U PROVE n + 1 \in U
  <2> SUFFICES ASSUME n + 1 <= N PROVE n + 1 \in T
    OBVIOUS
  <2>1. n \in 0 .. N - 1 /\ n \in T
    OBVIOUS
  <2> QED BY <2>1
<1>3. U = Nat
  <2> HIDE DEF U
  <2>1. U \in SUBSET Nat
    BY DEF U
  <2> QED BY <1>1, <1>2, <2>1, SetInduction
<1>4. ASSUME NEW n \in 0 .. N PROVE n \in T
  <2>1. n \in U /\ n <= N
    BY <1>3
  <2> QED BY <2>1
<1> QED BY <1>4

\* A function up to a bound that starts so, and whose next value each step makes of the last.
Recurs(g, N, start, step) ==
  g[0] = start /\ \A n \in 0 .. N - 1 : g[n + 1] = step[<<n, g[n]>>]

\* A start and a step define a function up to a bound.
LEMMA Recursion ==
  \A N \in Nat : \A S : \A start \in S : \A step \in [(0 .. N - 1) \X S -> S] :
    \E g : g \in [0 .. N -> S] /\ Recurs(g, N, start, step)
<1> TAKE N \in Nat
<1> TAKE S
<1> TAKE start \in S
<1> TAKE step \in [(0 .. N - 1) \X S -> S]
<1> DEFINE Steps(n, g) ==
             g[0] = start /\ \A k \in 0 .. N - 1 : k < n => g[k + 1] = step[<<k, g[k]>>]
           T == {n \in 0 .. N : \E g \in [0 .. n -> S] : Steps(n, g)}
<1> HIDE DEF Steps
<1>1. 0 \in T
  <2> DEFINE z == [n \in 0 .. 0 |-> start]
  <2>1. z \in [0 .. 0 -> S] /\ Steps(0, z)
    BY DEF Steps
  <2> QED BY <2>1
<1>2. ASSUME NEW n \in 0 .. N - 1, n \in T PROVE n + 1 \in T
  <2>1. PICK g \in [0 .. n -> S] : Steps(n, g)
    BY <1>2
  <2> DEFINE h == [k \in 0 .. n + 1 |-> IF k = n + 1 THEN step[<<n, g[n]>>] ELSE g[k]]
  <2>2. g[n] \in S /\ step[<<n, g[n]>>] \in S
    OBVIOUS
  <2>3. h \in [0 .. n + 1 -> S]
    BY <2>2
  <2>4. h[0] = start
    BY <2>1 DEF Steps
  <2>5. ASSUME NEW k \in 0 .. N - 1, k < n + 1 PROVE h[k + 1] = step[<<k, h[k]>>]
    <3>1. h[k] = g[k]
      BY <2>5
    <3>2. CASE k = n
      <4>1. h[n + 1] = step[<<n, g[n]>>]
        OBVIOUS
      <4> HIDE DEF h
      <4> QED BY <3>1, <3>2, <4>1
    <3>3. CASE k # n
      <4>1. k < n /\ h[k + 1] = g[k + 1]
        BY <2>5, <3>3
      <4> QED BY <2>1, <3>1, <4>1 DEF Steps
    <3> QED BY <3>2, <3>3
  <2>6. Steps(n + 1, h)
    BY <2>4, <2>5 DEF Steps
  <2> QED BY <2>3, <2>6
<1>3. T = 0 .. N
  <2> HIDE DEF T
  <2>1. T \in SUBSET (0 .. N)
    BY DEF T
  <2> QED BY <1>1, <1>2, <2>1, InductionUpTo
<1>4. PICK g \in [0 .. N -> S] : Steps(N, g)
  BY <1>3
<1>5. Recurs(g, N, start, step)
  <2>1. g[0] = start
    BY <1>4 DEF Steps
  <2>2. ASSUME NEW n \in 0 .. N - 1 PROVE g[n + 1] = step[<<n, g[n]>>]
    BY <1>4 DEF Steps
  <2> QED BY <2>1, <2>2 DEF Recurs
<1> QED BY <1>5

\* Each value of a function up to a bound is m times the last and what is added to it.
Growing(f, N, start, m, add) ==
  \A n \in 0 .. N : f[n] = IF n = 0 THEN start ELSE m * f[n - 1] + add[n - 1]

\* What such a function starts from and how it goes on.
GrowsFrom(f, N, start, m, add) ==
  f[0] = start /\ \A n \in 0 .. N - 1 : f[n + 1] = m * f[n] + add[n]

\* A function that grows has these natural values.
LEMMA Growth ==
  \A N \in Nat : \A start \in Nat : \A m \in Nat : \A add \in [0 .. N - 1 -> Nat] : \A f :
    Growing(f, N, start, m, add) =>
      (\A n \in 0 .. N : f[n] \in Nat) /\ GrowsFrom(f, N, start, m, add)
<1> TAKE N \in Nat
<1> TAKE start \in Nat
<1> TAKE m \in Nat
<1> TAKE add \in [0 .. N - 1 -> Nat]
<1> TAKE f
<1> HAVE Growing(f, N, start, m, add)
<1>1. f[0] = start
  BY DEF Growing
<1>2. ASSUME NEW n \in 0 .. N - 1 PROVE f[n + 1] = m * f[n] + add[n]
  <2>1. n + 1 \in 0 .. N /\ n + 1 # 0 /\ (n + 1) - 1 = n
    OBVIOUS
  <2> QED BY <2>1 DEF Growing
<1> DEFINE T == {n \in 0 .. N : f[n] \in Nat}
<1>3. 0 \in T
  BY <1>1
<1>4. ASSUME NEW n \in 0 .. N - 1, n \in T PROVE n + 1 \in T
  <2>1. f[n] \in Nat /\ add[n] \in Nat /\ n + 1 \in 0 .. N
    BY <1>4
  <2>2. PICK k \in Nat : k = f[n]
    BY <2>1
  <2>3. PICK a \in Nat : a = add[n]
    BY <2>1
  <2>4. m * k \in Nat
    OBVIOUS
  <2>5. m * k + a \in Nat
    BY <2>4
  <2>6. f[n + 1] = m * k + a
    BY <1>2, <2>2, <2>3
  <2> QED BY <2>1, <2>5, <2>6
<1>5. T = 0 .. N
  <2> HIDE DEF T
  <2>1. T \in SUBSET (0 .. N)
    BY DEF T
  <2> QED BY <1>3, <1>4, <2>1, InductionUpTo
<1> QED BY <1>1, <1>2, <1>5 DEF GrowsFrom

\* There is a function that grows so.
LEMMA GrowthExists ==
  \A N \in Nat : \A start \in Nat : \A m \in Nat : \A add \in [0 .. N - 1 -> Nat] :
    \E g : g \in [0 .. N -> Nat] /\ Growing(g, N, start, m, add)
<1> TAKE N \in Nat
<1> TAKE start \in Nat
<1> TAKE m \in Nat
<1> TAKE add \in [0 .. N - 1 -> Nat]
<1> DEFINE step == [x \in (0 .. N - 1) \X Nat |-> m * x[2] + add[x[1]]]
<1>1. step \in [(0 .. N - 1) \X Nat -> Nat]
  <2>1. ASSUME NEW x \in (0 .. N - 1) \X Nat PROVE m * x[2] + add[x[1]] \in Nat
    <3>1. PICK k \in Nat : k = x[2]
      OBVIOUS
    <3>2. PICK a \in Nat : a = add[x[1]]
      OBVIOUS
    <3>3. m * k \in Nat
      OBVIOUS
    <3>4. m * k + a \in Nat
      BY <3>3
    <3>5. m * x[2] + add[x[1]] = m * k + a
      BY <3>1, <3>2
    <3> QED BY <3>4, <3>5
  <2> QED BY <2>1
<1>2. \A n \in 0 .. N - 1 : \A k \in Nat : step[<<n, k>>] = m * k + add[n]
  OBVIOUS
<1> HIDE DEF step
<1>3. PICK g : g \in [0 .. N -> Nat] /\ Recurs(g, N, start, step)
  BY <1>1, Recursion
<1>4. ASSUME NEW n \in 0 .. N - 1 PROVE g[n + 1] = m * g[n] + add[n]
  <2>1. g[n] \in Nat
    BY <1>3
  <2> QED BY <1>2, <1>3, <2>1 DEF Recurs
<1>5. ASSUME NEW n \in 0 .. N
      PROVE  g[n] = IF n = 0 THEN start ELSE m * g[n - 1] + add[n - 1]
  <2>1. n # 0 => n - 1 \in 0 .. N - 1 /\ (n - 1) + 1 = n
    OBVIOUS
  <2> QED BY <1>3, <1>4, <2>1 DEF Recurs
<1> QED BY <1>3, <1>5 DEF Growing

-----------------------------------------------------------------------------
(***************************************************************************)
(* Arithmetic.                                                             *)
(***************************************************************************)

\* What a division leaves over.
LEMMA Division ==
  ASSUME NEW a \in Nat, NEW d \in Nat \ {0}
  PROVE  /\ a \div d \in Nat
         /\ d * (a \div d) <= a
         /\ a < d * (a \div d) + d
OBVIOUS

\* A product grows with its factors.
LEMMA Products ==
  ASSUME NEW k \in Nat, NEW a \in Nat, NEW b \in Nat, a <= b
  PROVE  k * a <= k * b /\ k * a \in Nat
OBVIOUS

\* As many as the divisor below a multiple of it are one below the quotient.
LEMMA QuotientBelow ==
  ASSUME NEW a \in Nat, NEW d \in Nat \ {0}, NEW k \in Nat, a < d * k
  PROVE  a \div d < k
<1>1. d * (a \div d) < d * k /\ a \div d \in Nat
  BY Division
<1>2. CASE k <= a \div d
  <2>1. d * k <= d * (a \div d)
    BY <1>1, <1>2, Products
  <2> QED BY <1>1, <2>1
<1> QED BY <1>1, <1>2

\* A multiple of the divisor divides exactly, and a quotient is at least any factor that fits.
LEMMA QuotientAtLeast ==
  ASSUME NEW a \in Nat, NEW d \in Nat \ {0}, NEW k \in Nat, d * k <= a
  PROVE  k <= a \div d
<1>1. a < d * (a \div d) + d /\ a \div d \in Nat
  BY Division
<1>2. CASE a \div d < k
  <2>1. d * (a \div d + 1) <= d * k
    BY <1>1, <1>2, Products
  <2>2. d * (a \div d + 1) = d * (a \div d) + d
    BY <1>1
  <2> QED BY <1>1, <2>1, <2>2
<1> QED BY <1>1, <1>2

\* A larger divisor gives no larger quotient.
LEMMA SmallerDivisor ==
  ASSUME NEW a \in Nat, NEW d \in Nat \ {0}, NEW e \in Nat \ {0}, d <= e
  PROVE  a \div e <= a \div d
<1>1. e * (a \div e) <= a /\ a \div e \in Nat
  BY Division
<1>2. (a \div e) * d <= (a \div e) * e
  BY <1>1, Products
<1>3. d * (a \div e) <= a
  BY <1>1, <1>2
<1> QED BY <1>1, <1>3, QuotientAtLeast

\* A number that is divided is a multiple of its divisor.
LEMMA Exact ==
  ASSUME NEW a \in Nat, NEW d \in Nat \ {0}, a % d = 0
  PROVE  a = d * (a \div d)
OBVIOUS

\* A quotient and a remainder are the only ones.
LEMMA QuotientIs ==
  ASSUME NEW a \in Nat, NEW d \in Nat \ {0}, NEW q \in Nat, NEW r \in Nat, a = d * q + r, r < d
  PROVE  a \div d = q /\ a % d = r
<1>1. d * (q + 1) = d * q + d /\ d * q \in Nat
  OBVIOUS
<1>2. a < d * (q + 1) /\ d * q <= a
  BY <1>1
<1>3. a \div d < q + 1 /\ q <= a \div d /\ a \div d \in Nat
  BY <1>2, QuotientBelow, QuotientAtLeast, Division
<1>4. a \div d = q
  BY <1>3
<1>5. a % d = a - d * (a \div d)
  OBVIOUS
<1> QED BY <1>1, <1>4, <1>5

\* What a division leaves over is less than the divisor.
LEMMA Remainder ==
  ASSUME NEW a \in Nat, NEW d \in Nat \ {0}
  PROVE  /\ a \div d \in Nat /\ a % d \in Nat /\ a % d < d
         /\ a = d * (a \div d) + (a % d)
<1>1. a % d = a - d * (a \div d)
  OBVIOUS
<1>2. a \div d \in Nat /\ d * (a \div d) <= a /\ a < d * (a \div d) + d
  BY Division
<1>3. d * (a \div d) \in Nat
  BY <1>2
<1> DEFINE m == d * (a \div d)
<1>4. a % d = a - m /\ m \in Nat /\ m <= a /\ a < m + d
  BY <1>1, <1>2, <1>3
<1> HIDE DEF m
<1>5. a % d \in Nat /\ a % d < d /\ a = m + (a % d)
  BY ONLY <1>4, d \in Nat, a \in Nat
<1> QED BY <1>2, <1>5 DEF m

\* Shifting by one more bit, and the bits below it.
LEMMA OneBitMore ==
  ASSUME NEW v \in Nat, NEW d \in Nat \ {0}
  PROVE  /\ v \div (2 * d) = (v \div d) \div 2
         /\ v % (2 * d) = (v % d) + d * ((v \div d) % 2)
<1> DEFINE q == v \div d
           r == v % d
<1>1. q \in Nat /\ r \in Nat /\ r < d /\ v = d * q + r
  BY Remainder
<1> HIDE DEF q, r
<1>2. q \div 2 \in Nat /\ q % 2 \in {0, 1} /\ q = 2 * (q \div 2) + (q % 2)
  <2>1. q \div 2 \in Nat /\ (q % 2) \in Nat /\ (q % 2) < 2 /\ q = 2 * (q \div 2) + (q % 2)
    BY <1>1, 2 \in Nat \ {0}, Remainder
  <2>2. \A x \in Nat : x < 2 => x \in {0, 1}
    OBVIOUS
  <2> QED BY <2>1, <2>2
<1>3. PICK h \in Nat : h = q \div 2
  BY <1>2
<1>4. PICK b \in {0, 1} : b = q % 2
  BY <1>2
<1>5. v = (2 * d) * h + (r + d * b)
  <2>1. v = d * (2 * h + b) + r
    BY <1>1, <1>2, <1>3, <1>4
  <2>2. d * (2 * h + b) = (2 * d) * h + d * b
    OBVIOUS
  <2>3. (2 * d) * h \in Nat /\ d * b \in Nat
    OBVIOUS
  <2> QED BY <1>1, <2>1, <2>2, <2>3
<1>6. r + d * b < 2 * d /\ r + d * b \in Nat /\ 2 * d \in Nat \ {0}
  BY <1>1
<1>7. v \div (2 * d) = h /\ v % (2 * d) = r + d * b
  BY <1>5, <1>6, QuotientIs
<1> QED BY <1>3, <1>4, <1>7 DEF q, r

\* Whole multiples of the divisor leave the remainder as it is.
LEMMA WholeMore ==
  ASSUME NEW d \in Nat \ {0}, NEW h \in Nat, NEW x \in Nat
  PROVE  (d * h + x) % d = x % d
<1>1. PICK q \in Nat : q = x \div d
  BY Remainder
<1>2. PICK r \in Nat : r = x % d
  BY Remainder
<1>3. x = d * q + r /\ r < d
  BY <1>1, <1>2, Remainder
<1>4. d * h + x = d * (h + q) + r
  <2>1. d * (h + q) = d * h + d * q /\ d * h \in Nat /\ d * q \in Nat
    OBVIOUS
  <2> QED BY <1>3, <2>1
<1>5. d * h \in Nat
  OBVIOUS
<1>6. d * h + x \in Nat /\ h + q \in Nat
  BY <1>5
<1>7. (d * h + x) % d = r
  BY <1>3, <1>4, <1>6, QuotientIs
<1> QED BY <1>2, <1>7

\* A word that wraps as it is doubled has what would be left without wrapping before.
LEMMA DoubledWraps ==
  ASSUME NEW d \in Nat \ {0}, NEW u \in Nat, NEW a \in Nat
  PROVE  (((u % d) + a) * 2) % d = ((u + a) * 2) % d
<1>1. PICK h \in Nat : h = u \div d
  BY Remainder
<1>2. PICK r \in Nat : r = u % d
  BY Remainder
<1>3. u = d * h + r
  BY <1>1, <1>2, Remainder
<1>4. (u + a) * 2 = d * (2 * h) + (r + a) * 2
  <2>1. d * (2 * h) = 2 * (d * h) /\ d * h \in Nat
    OBVIOUS
  <2> QED BY <1>3, <2>1
<1>5. PICK x \in Nat : x = (r + a) * 2
  OBVIOUS
<1>6. 2 * h \in Nat
  OBVIOUS
<1>7. (d * (2 * h) + x) % d = x % d
  BY <1>6, WholeMore
<1> QED BY <1>2, <1>4, <1>5, <1>7

=============================================================================
