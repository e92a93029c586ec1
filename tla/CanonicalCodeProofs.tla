------------------------ MODULE CanonicalCodeProofs ------------------------
(***************************************************************************)
(* Proofs about the canonical code of any code sizes, for every limit on   *)
(* them and every alphabet, before any table of HuffmanCode is filled. Put *)
(* side by side, by size and then by symbol, the codes cover intervals     *)
(* that leave no gap. The first code of a size counts, in a word that      *)
(* wraps, the codes of that size that all shorter ones take                *)
(* (FirstCodeStarts), so the reverse of what starts with a code is in its  *)
(* interval (OwnsItsInterval) as long as the interval is inside the code   *)
(* space; and the test of the total lets through a complete code, a single *)
(* symbol, and what wraps to the same word, where three codes collide      *)
(* (Overfull).                                                             *)
(***************************************************************************)
EXTENDS HuffmanCode, Numbers

-----------------------------------------------------------------------------
(***************************************************************************)
(* Powers of two and bits.                                                 *)
(***************************************************************************)

\* The assumptions on the sizes, under one name.
Widths == FastBits \in Nat \ {0} /\ MaxSize \in Nat /\ FastBits < MaxSize

\* The assumptions on the sizes, under one name.
LEMMA WidthsFact == Widths
BY CodeAssumption DEF Widths

\* Pow2 has the powers of two.
LEMMA Powers ==
  /\ Pow2 \in [0 .. MaxSize + 1 -> Nat \ {0}]
  /\ Pow2[0] = 1
  /\ \A n \in 0 .. MaxSize : Pow2[n + 1] = 2 * Pow2[n]
<1> USE WidthsFact DEF Widths
<1> DEFINE none == [n \in 0 .. MaxSize |-> 0]
           N == MaxSize + 1
<1>1. N \in Nat /\ 0 .. N - 1 = 0 .. MaxSize /\ none \in [0 .. N - 1 -> Nat]
  OBVIOUS
<1>2. \A n \in 0 .. MaxSize : none[n] = 0
  OBVIOUS
<1> HIDE DEF none
<1>3. PICK g : g \in [0 .. N -> Nat] /\ Growing(g, N, 1, 2, none)
  <2> HIDE DEF N
  <2> QED BY <1>1, GrowthExists
<1>4. ASSUME NEW n \in 0 .. N
      PROVE  g[n] = IF n = 0 THEN 1 ELSE 2 * g[n - 1]
  <2>1. n # 0 => none[n - 1] = 0 /\ n - 1 \in 0 .. N /\ g[n - 1] \in Nat
    BY <1>2, <1>3
  <2>2. g[n] = IF n = 0 THEN 1 ELSE 2 * g[n - 1] + none[n - 1]
    BY <1>3 DEF Growing
  <2> QED BY <2>1, <2>2
<1>5. g = [n \in 0 .. MaxSize + 1 |-> IF n = 0 THEN 1 ELSE 2 * g[n - 1]]
  BY <1>3, <1>4
<1> DEFINE pow == Pow2
<1>6. pow = [n \in 0 .. N |-> IF n = 0 THEN 1 ELSE 2 * pow[n - 1]]
  BY <1>5 DEF Pow2
<1> HIDE DEF pow
<1>7. pow[0] = 1
  BY <1>6
<1>8. ASSUME NEW n \in 0 .. MaxSize PROVE pow[n + 1] = 2 * pow[n]
  <2>1. n + 1 \in 0 .. N /\ n + 1 # 0 /\ (n + 1) - 1 = n
    OBVIOUS
  <2> QED BY <1>6, <2>1
<1> DEFINE T == {n \in 0 .. N : pow[n] \in Nat \ {0}}
<1>9. 0 \in T
  BY <1>7
<1>10. ASSUME NEW n \in 0 .. N - 1, n \in T PROVE n + 1 \in T
  BY <1>8, <1>10
<1>11. T = 0 .. N
  <2> HIDE DEF T, N
  <2>1. T \in SUBSET (0 .. N)
    BY DEF T
  <2> QED BY <1>1, <1>9, <1>10, <2>1, InductionUpTo
<1>12. pow \in [0 .. MaxSize + 1 -> Nat \ {0}]
  BY <1>6, <1>11
<1> QED BY <1>7, <1>8, <1>12 DEF pow

\* One power of two and the next.
LEMMA Power ==
  ASSUME NEW k \in 0 .. MaxSize
  PROVE  /\ k \in 0 .. MaxSize + 1 /\ k + 1 \in 0 .. MaxSize + 1
         /\ Pow2[k] \in Nat \ {0} /\ Pow2[k + 1] \in Nat \ {0}
         /\ Pow2[k + 1] = 2 * Pow2[k]
<1>1. MaxSize \in Nat /\ k \in 0 .. MaxSize + 1 /\ k + 1 \in 0 .. MaxSize + 1
  BY WidthsFact DEF Widths
<1> QED BY <1>1, Powers

\* The code space and the word that counts it.
LEMMA TopPower == Pow2[MaxSize] \in Nat \ {0} /\ Pow2[MaxSize + 1] = 2 * Pow2[MaxSize]
<1>1. MaxSize \in 0 .. MaxSize
  BY WidthsFact DEF Widths
<1> QED BY <1>1, Power

\* A bit is 0 or 1.
LEMMA Bits ==
  ASSUME NEW v \in Nat, NEW k \in 0 .. MaxSize
  PROVE  Bit(v, k) \in {0, 1}
<1>1. Pow2[k] \in Nat \ {0}
  BY Powers, WidthsFact, SMTT(30) DEF Widths
<1>2. v \div Pow2[k] \in Nat
  BY <1>1, Division
<1>3. \A q \in Nat : (q % 2) \in {0, 1}
  OBVIOUS
<1> QED BY <1>2, <1>3 DEF Bit

\* Reversed takes one more bit at a time.
LEMMA Reversals ==
  ASSUME NEW v \in Nat
  PROVE  /\ \A n \in 0 .. MaxSize : Reversed(v, n) \in Nat
         /\ Reversed(v, 0) = 0
         /\ \A n \in 0 .. MaxSize - 1 : Reversed(v, n + 1) = 2 * Reversed(v, n) + Bit(v, n)
<1> USE WidthsFact DEF Widths
<1> DEFINE bits == [n \in 0 .. MaxSize - 1 |-> Bit(v, n)]
           rev == LET rev[k \in 0 .. MaxSize] ==
                        IF k = 0 THEN 0 ELSE 2 * rev[k - 1] + Bit(v, k - 1)
                  IN rev
<1>1. bits \in [0 .. MaxSize - 1 -> Nat]
  BY Bits
<1>2. \A n \in 0 .. MaxSize - 1 : bits[n] = Bit(v, n)
  OBVIOUS
<1>3. \A n \in 0 .. MaxSize : Reversed(v, n) = rev[n]
  BY DEF Reversed
<1> HIDE DEF bits
<1>4. PICK g : g \in [0 .. MaxSize -> Nat] /\ Growing(g, MaxSize, 0, 2, bits)
  BY <1>1, GrowthExists
<1>5. ASSUME NEW k \in 0 .. MaxSize
      PROVE  g[k] = IF k = 0 THEN 0 ELSE 2 * g[k - 1] + Bit(v, k - 1)
  <2>1. k # 0 => bits[k - 1] = Bit(v, k - 1)
    BY <1>2
  <2> QED BY <1>4, <2>1 DEF Growing
<1>6. g = [k \in 0 .. MaxSize |-> IF k = 0 THEN 0 ELSE 2 * g[k - 1] + Bit(v, k - 1)]
  BY <1>4, <1>5
<1>7. rev = [k \in 0 .. MaxSize |-> IF k = 0 THEN 0 ELSE 2 * rev[k - 1] + Bit(v, k - 1)]
  BY <1>6
<1> HIDE DEF rev
<1>8. Growing(rev, MaxSize, 0, 2, bits)
  <2>1. ASSUME NEW k \in 0 .. MaxSize
        PROVE  rev[k] = IF k = 0 THEN 0 ELSE 2 * rev[k - 1] + bits[k - 1]
    <3>1. k # 0 => bits[k - 1] = Bit(v, k - 1)
      BY <1>2
    <3> QED BY <1>7, <3>1
  <2> QED BY <2>1 DEF Growing
<1>9. (\A n \in 0 .. MaxSize : rev[n] \in Nat) /\ GrowsFrom(rev, MaxSize, 0, 2, bits)
  BY <1>1, <1>8, Growth
<1>10. rev[0] = 0 /\ \A n \in 0 .. MaxSize - 1 : rev[n + 1] = 2 * rev[n] + bits[n]
  BY <1>9 DEF GrowsFrom
<1> QED BY <1>2, <1>3, <1>9, <1>10

\* The reverse of n bits has n bits.
LEMMA ReversedFits ==
  ASSUME NEW v \in Nat, NEW n \in 0 .. MaxSize
  PROVE  Reversed(v, n) < Pow2[n]
<1> USE WidthsFact DEF Widths
<1> DEFINE T == {k \in 0 .. MaxSize : Reversed(v, k) < Pow2[k]}
<1>1. 0 \in T
  BY Reversals, Powers
<1>2. ASSUME NEW k \in 0 .. MaxSize - 1, k \in T PROVE k + 1 \in T
  <2>1. k \in 0 .. MaxSize /\ k + 1 \in 0 .. MaxSize
    OBVIOUS
  <2>2. Reversed(v, k + 1) = 2 * Reversed(v, k) + Bit(v, k)
    BY Reversals
  <2>3. Reversed(v, k) \in Nat /\ Bit(v, k) \in {0, 1}
    BY <2>1, Reversals, Bits
  <2>4. Pow2[k + 1] = 2 * Pow2[k] /\ Pow2[k] \in Nat
    BY <2>1, Power
  <2>5. Reversed(v, k) < Pow2[k]
    BY <1>2
  <2>6. Reversed(v, k + 1) < Pow2[k + 1]
    BY <2>2, <2>3, <2>4, <2>5
  <2> QED BY <2>1, <2>6
<1>3. T = 0 .. MaxSize
  <2> HIDE DEF T
  <2>1. T \in SUBSET (0 .. MaxSize)
    BY DEF T
  <2> QED BY <1>1, <1>2, <2>1, InductionUpTo
<1> QED BY <1>3

\* The bits below one more.
LEMMA LowBits ==
  ASSUME NEW v \in Nat, NEW k \in 0 .. MaxSize
  PROVE  /\ v % Pow2[k + 1] = (v % Pow2[k]) + Pow2[k] * Bit(v, k)
         /\ v \div Pow2[k + 1] = (v \div Pow2[k]) \div 2
         /\ (v % Pow2[k]) \in 0 .. Pow2[k] - 1
<1>1. Pow2[k] \in Nat \ {0} /\ Pow2[k + 1] = 2 * Pow2[k]
  BY Power
<1>2. /\ v \div (2 * Pow2[k]) = (v \div Pow2[k]) \div 2
      /\ v % (2 * Pow2[k]) = (v % Pow2[k]) + Pow2[k] * ((v \div Pow2[k]) % 2)
  BY <1>1, OneBitMore
<1>3. (v % Pow2[k]) \in Nat /\ (v % Pow2[k]) < Pow2[k]
  BY <1>1, Remainder
<1> QED BY <1>1, <1>2, <1>3 DEF Bit

\* The bit after the first is a bit of the rest.
LEMMA BitOfRest ==
  ASSUME NEW v \in Nat, NEW k \in 0 .. MaxSize
  PROVE  (v \div 2) \div Pow2[k] = v \div Pow2[k + 1]
<1> USE WidthsFact DEF Widths
<1> DEFINE T == {n \in 0 .. MaxSize : (v \div 2) \div Pow2[n] = v \div Pow2[n + 1]}
<1>1. 0 \in T
  <2>1. Pow2[0] = 1 /\ Pow2[0 + 1] = 2
    BY Powers
  <2>2. v \div 2 \in Nat
    OBVIOUS
  <2>3. \A q \in Nat : q \div 1 = q
    OBVIOUS
  <2> QED BY <2>1, <2>2, <2>3
<1>2. ASSUME NEW n \in 0 .. MaxSize - 1, n \in T PROVE n + 1 \in T
  <2>1. v \div 2 \in Nat
    OBVIOUS
  <2>2. (v \div 2) \div Pow2[n + 1] = ((v \div 2) \div Pow2[n]) \div 2
    BY <2>1, LowBits
  <2>3. v \div Pow2[(n + 1) + 1] = (v \div Pow2[n + 1]) \div 2
    BY LowBits
  <2> QED BY <1>2, <2>2, <2>3
<1>3. T = 0 .. MaxSize
  <2> HIDE DEF T
  <2>1. T \in SUBSET (0 .. MaxSize)
    BY DEF T
  <2> QED BY <1>1, <1>2, <2>1, InductionUpTo
<1> QED BY <1>3

\* The first bit becomes the highest.
LEMMA FirstBitLast ==
  ASSUME NEW v \in Nat, NEW n \in 0 .. MaxSize - 1
  PROVE  Reversed(v, n + 1) = Reversed(v \div 2, n) + Pow2[n] * (v % 2)
<1> USE WidthsFact DEF Widths
<1> DEFINE T == {k \in 0 .. MaxSize - 1 :
                  Reversed(v, k + 1) = Reversed(v \div 2, k) + Pow2[k] * (v % 2)}
           h == v \div 2
<1>1. h \in Nat /\ MaxSize - 1 \in Nat
  OBVIOUS
<1>2. 0 \in T
  <2>1. Reversed(v, 0 + 1) = 2 * Reversed(v, 0) + Bit(v, 0) /\ Reversed(v, 0) = 0
    BY Reversals
  <2>2. Reversed(h, 0) = 0
    BY <1>1, Reversals
  <2>3. Pow2[0] = 1
    BY Powers
  <2>4. Bit(v, 0) = v % 2
    <3>1. \A q \in Nat : q \div 1 = q
      OBVIOUS
    <3> QED BY <2>3, <3>1 DEF Bit
  <2>5. (v % 2) \in Nat
    OBVIOUS
  <2> QED BY <2>1, <2>2, <2>3, <2>4, <2>5
<1>3. ASSUME NEW k \in 0 .. (MaxSize - 1) - 1, k \in T PROVE k + 1 \in T
  <2>1. Reversed(v, (k + 1) + 1) = 2 * Reversed(v, k + 1) + Bit(v, k + 1)
    BY Reversals
  <2>2. Reversed(h, k + 1) = 2 * Reversed(h, k) + Bit(h, k)
    BY <1>1, Reversals
  <2>3. Bit(h, k) = Bit(v, k + 1)
    BY BitOfRest DEF Bit
  <2>4. PICK p \in Nat : p = Pow2[k] /\ 2 * p = Pow2[k + 1]
    BY Power
  <2>5. PICK b \in Nat : b = v % 2
    OBVIOUS
  <2>6. Reversed(v, k + 1) = Reversed(h, k) + p * b
    BY <1>3, <2>4, <2>5
  <2>7. PICK x \in Nat : x = Reversed(h, k)
    BY <1>1, Reversals
  <2>8. PICK y \in Nat : y = Bit(h, k)
    BY <1>1, Bits
  <2>9. 2 * (x + p * b) + y = (2 * x + y) + (2 * p) * b
    <3>1. (2 * p) * b = 2 * (p * b) /\ p * b \in Nat
      OBVIOUS
    <3> QED BY <3>1
  <2>10. Reversed(v, (k + 1) + 1) = Reversed(h, k + 1) + Pow2[k + 1] * b
    BY <2>1, <2>2, <2>3, <2>4, <2>6, <2>7, <2>8, <2>9
  <2> QED BY <2>5, <2>10
<1>4. T = 0 .. MaxSize - 1
  <2> HIDE DEF T
  <2>1. T \in SUBSET (0 .. MaxSize - 1)
    BY DEF T
  <2> QED BY <1>1, <1>2, <1>3, <2>1, InductionUpTo
<1> QED BY <1>4

\* Bits that are reversed twice are as they were.
LEMMA Involution ==
  ASSUME NEW v \in Nat, NEW n \in 0 .. MaxSize
  PROVE  Reversed(Reversed(v, n), n) = v % Pow2[n]
<1> USE WidthsFact DEF Widths
<1> DEFINE T == {k \in 0 .. MaxSize : Reversed(Reversed(v, k), k) = v % Pow2[k]}
<1>1. 0 \in T
  <2>1. Reversed(v, 0) = 0 /\ Reversed(0, 0) = 0 /\ Pow2[0] = 1
    BY Reversals, Powers
  <2>2. v % 1 = 0
    OBVIOUS
  <2> QED BY <2>1, <2>2
<1>2. ASSUME NEW k \in 0 .. MaxSize - 1, k \in T PROVE k + 1 \in T
  <2>1. k \in 0 .. MaxSize /\ k + 1 \in 0 .. MaxSize
    OBVIOUS
  <2>2. PICK x \in Nat : x = Reversed(v, k)
    BY <2>1, Reversals
  <2>3. PICK b \in {0, 1} : b = Bit(v, k)
    BY <2>1, Bits
  <2>4. PICK w \in Nat : w = 2 * x + b
    OBVIOUS
  <2>5. w \div 2 = x /\ w % 2 = b
    BY <2>4
  <2>6. Reversed(v, k + 1) = w
    BY <2>2, <2>3, <2>4, Reversals
  <2>7. Reversed(w, k + 1) = Reversed(x, k) + Pow2[k] * b
    BY <2>5, FirstBitLast
  <2>8. Reversed(x, k) = v % Pow2[k]
    BY <1>2, <2>2
  <2>9. v % Pow2[k + 1] = (v % Pow2[k]) + Pow2[k] * b
    BY <2>1, <2>3, LowBits
  <2>10. Reversed(Reversed(v, k + 1), k + 1) = v % Pow2[k + 1]
    BY <2>6, <2>7, <2>8, <2>9
  <2> QED BY <2>1, <2>10
<1>3. T = 0 .. MaxSize
  <2> HIDE DEF T
  <2>1. T \in SUBSET (0 .. MaxSize)
    BY DEF T
  <2> QED BY <1>1, <1>2, <2>1, InductionUpTo
<1> QED BY <1>3

\* The reverse only depends on the bits that it takes.
LEMMA ReversedLow ==
  ASSUME NEW v \in Nat, NEW n \in 0 .. MaxSize
  PROVE  Reversed(v % Pow2[n], n) = Reversed(v, n)
<1>1. PICK x \in Nat : x = Reversed(v, n)
  BY Reversals
<1>2. x < Pow2[n] /\ Pow2[n] \in Nat \ {0}
  BY <1>1, ReversedFits, Power
<1>3. x % Pow2[n] = x
  BY <1>2
<1>4. PICK y \in Nat : y = Reversed(x, n)
  BY Reversals
<1>5. y = v % Pow2[n] /\ Reversed(y, n) = x % Pow2[n]
  BY <1>1, <1>4, Involution
<1> QED BY <1>1, <1>3, <1>5

\* Bits end in the reverse of a code exactly when their reverse is the code.
LEMMA ReversedSame ==
  ASSUME NEW v \in Nat, NEW c \in Nat, NEW n \in 0 .. MaxSize
  PROVE  v % Pow2[n] = Reversed(c, n) <=> Reversed(v, n) = c % Pow2[n]
<1>1. Reversed(Reversed(c, n), n) = c % Pow2[n] /\ Reversed(Reversed(v, n), n) = v % Pow2[n]
  BY Involution
<1>2. Reversed(v % Pow2[n], n) = Reversed(v, n) /\ Reversed(c % Pow2[n], n) = Reversed(c, n)
  BY ReversedLow
<1> QED BY <1>1, <1>2

\* The first bits of the reverse are the reverse of the first bits.
LEMMA TopBits ==
  ASSUME NEW v \in Nat, NEW n \in 0 .. MaxSize
  PROVE  Reversed(v, MaxSize) \div Pow2[MaxSize - n] = Reversed(v, n)
<1> USE WidthsFact DEF Widths
<1> DEFINE N == MaxSize - n
           T == {j \in 0 .. N : Reversed(v, n + j) \div Pow2[j] = Reversed(v, n)}
<1>1. N \in Nat
  OBVIOUS
<1>2. 0 \in T
  <2>1. Pow2[0] = 1
    BY Powers
  <2>2. n + 0 = n /\ Reversed(v, n) \in Nat
    BY Reversals
  <2>3. \A q \in Nat : q \div 1 = q
    OBVIOUS
  <2> QED BY <1>1, <2>1, <2>2, <2>3
<1>3. ASSUME NEW j \in 0 .. N - 1, j \in T PROVE j + 1 \in T
  <2>1. n + j \in 0 .. MaxSize - 1 /\ n + (j + 1) = (n + j) + 1 /\ j \in 0 .. MaxSize
    OBVIOUS
  <2>2. PICK x \in Nat : x = Reversed(v, n + j)
    BY <2>1, Reversals
  <2>3. PICK b \in {0, 1} : b = Bit(v, n + j)
    BY <2>1, Bits
  <2>4. PICK w \in Nat : w = 2 * x + b
    OBVIOUS
  <2>5. w \div 2 = x
    BY <2>4
  <2>6. Reversed(v, n + (j + 1)) = w
    BY <2>1, <2>2, <2>3, <2>4, Reversals
  <2>7. w \div Pow2[j + 1] = x \div Pow2[j]
    BY <2>1, <2>5, BitOfRest
  <2>8. x \div Pow2[j] = Reversed(v, n)
    BY <1>3, <2>2
  <2>9. j + 1 \in 0 .. N
    OBVIOUS
  <2> QED BY <2>6, <2>7, <2>8, <2>9
<1>4. T = 0 .. N
  <2> HIDE DEF T, N
  <2>1. T \in SUBSET (0 .. N)
    BY DEF T
  <2> QED BY <1>1, <1>2, <1>3, <2>1, InductionUpTo
<1>5. N \in T /\ n + N = MaxSize
  BY <1>1, <1>4
<1> QED BY <1>5

\* The code space of all sizes is as many codes of a size as each of them takes.
LEMMA PowerSplit ==
  ASSUME NEW n \in 0 .. MaxSize
  PROVE  Pow2[MaxSize] = Pow2[n] * Pow2[MaxSize - n]
<1> USE WidthsFact DEF Widths
<1> DEFINE T == {k \in 0 .. MaxSize : Pow2[MaxSize] = Pow2[k] * Pow2[MaxSize - k]}
<1>1. 0 \in T
  <2>1. Pow2[0] = 1
    BY Powers
  <2>2. PICK p \in Nat : p = Pow2[MaxSize]
    BY Power
  <2>3. MaxSize - 0 = MaxSize /\ 1 * p = p
    OBVIOUS
  <2> QED BY <2>1, <2>2, <2>3
<1>2. ASSUME NEW k \in 0 .. MaxSize - 1, k \in T PROVE k + 1 \in T
  <2>1. k \in 0 .. MaxSize /\ k + 1 \in 0 .. MaxSize /\ MaxSize - (k + 1) \in 0 .. MaxSize
    OBVIOUS
  <2>2. (MaxSize - (k + 1)) + 1 = MaxSize - k
    OBVIOUS
  <2>3. PICK x \in Nat : x = Pow2[k] /\ Pow2[k + 1] = 2 * x
    BY <2>1, Power
  <2>4. PICK y \in Nat : y = Pow2[MaxSize - (k + 1)] /\ Pow2[MaxSize - k] = 2 * y
    BY <2>1, <2>2, Power
  <2>5. Pow2[MaxSize] = x * (2 * y)
    BY <1>2, <2>3, <2>4
  <2>6. x * (2 * y) = (2 * x) * y
    OBVIOUS
  <2> QED BY <2>1, <2>3, <2>4, <2>5, <2>6
<1>3. T = 0 .. MaxSize
  <2> HIDE DEF T
  <2>1. T \in SUBSET (0 .. MaxSize)
    BY DEF T
  <2> QED BY <1>1, <1>2, <2>1, InductionUpTo
<1> QED BY <1>3

-----------------------------------------------------------------------------
(***************************************************************************)
(* The code sizes, counted.                                                *)
(***************************************************************************)

\* The sizes are read.
Sized == sizes \in Seq(0 .. MaxSize - 1) /\ total \in Counts /\ Len(sizes) = total

\* The alphabet, and the code size of a symbol.
Symbols == 0 .. total - 1
Size(s) == sizes[s + 1]

\* A symbol has a size, and a used one a size above 0.
LEMMA SizesAre ==
  ASSUME Sized
  PROVE  /\ total \in Nat /\ total # 0
         /\ \A s \in Symbols : s \in Nat /\ Size(s) \in 0 .. MaxSize - 1
         /\ \A s \in UsedSet : s \in Symbols /\ Size(s) \in 1 .. MaxSize - 1
         /\ \A s \in Symbols : Size(s) # 0 => s \in UsedSet
<1>1. total \in Nat /\ total # 0
  <2>1. PackedBase \in Nat
    BY DEF PackedBase
  <2> QED BY <2>1, CodeAssumption DEF Sized
<1> USE WidthsFact, CodeAssumption DEF Widths
<1>2. ASSUME NEW s \in Symbols PROVE s \in Nat /\ Size(s) \in 0 .. MaxSize - 1
  <2>1. s \in Nat /\ s + 1 \in 1 .. total
    BY <1>1 DEF Symbols
  <2>2. sizes \in Seq(0 .. MaxSize - 1) /\ s + 1 \in 1 .. Len(sizes)
    BY <2>1 DEF Sized
  <2>3. sizes[s + 1] \in 0 .. MaxSize - 1
    BY <2>2
  <2> QED BY <2>1, <2>3 DEF Size
<1>3. UsedSet = {s \in Symbols : Size(s) # 0}
  BY DEF UsedSet, Symbols, Size
<1>4. \A n \in 0 .. MaxSize - 1 : n # 0 => n \in 1 .. MaxSize - 1
  OBVIOUS
<1> QED BY <1>1, <1>2, <1>3, <1>4

\* How many symbols have a size, one symbol at a time.
LEMMA Counted ==
  ASSUME Sized, NEW k
  PROVE  /\ \A n \in 0 .. total : Count(k)[n] \in Nat
         /\ Count(k)[0] = 0
         /\ \A s \in Symbols : Count(k)[s + 1] = Count(k)[s] + (IF Size(s) = k THEN 1 ELSE 0)
         /\ Used(k) = Count(k)[total]
<1> DEFINE one == [n \in 0 .. total - 1 |-> IF Size(n) = k THEN 1 ELSE 0]
           count == Count(k)
<1>1. total \in Nat /\ Len(sizes) = total
  BY SizesAre DEF Sized
<1>2. one \in [0 .. total - 1 -> Nat]
  OBVIOUS
<1>3. \A n \in 0 .. total - 1 : one[n] = IF Size(n) = k THEN 1 ELSE 0
  OBVIOUS
<1> HIDE DEF one
<1>4. \A n \in 0 .. total : n # 0 => one[n - 1] = IF sizes[n] = k THEN 1 ELSE 0
  <2>1. \A n \in 0 .. total : n # 0 => n - 1 \in 0 .. total - 1 /\ (n - 1) + 1 = n
    BY <1>1
  <2> QED BY <1>3, <2>1 DEF Size
<1>5. PICK g : g \in [0 .. total -> Nat] /\ Growing(g, total, 0, 1, one)
  BY <1>1, <1>2, GrowthExists
<1>6. ASSUME NEW n \in 0 .. total
      PROVE  g[n] = IF n = 0 THEN 0 ELSE g[n - 1] + (IF sizes[n] = k THEN 1 ELSE 0)
  <2>1. n # 0 => one[n - 1] = (IF sizes[n] = k THEN 1 ELSE 0) /\ g[n - 1] \in Nat
    BY <1>1, <1>4, <1>5
  <2>2. g[n] = IF n = 0 THEN 0 ELSE 1 * g[n - 1] + one[n - 1]
    BY <1>5 DEF Growing
  <2> QED BY <2>1, <2>2
<1>7. g = [n \in 0 .. Len(sizes) |->
            IF n = 0 THEN 0 ELSE g[n - 1] + (IF sizes[n] = k THEN 1 ELSE 0)]
  BY <1>1, <1>5, <1>6
<1>8. count = [n \in 0 .. Len(sizes) |->
                IF n = 0 THEN 0 ELSE count[n - 1] + (IF sizes[n] = k THEN 1 ELSE 0)]
  BY <1>7 DEF Count
<1> HIDE DEF count
<1>9. count[0] = 0
  BY <1>1, <1>8
<1>10. ASSUME NEW s \in Symbols
       PROVE  count[s + 1] = count[s] + (IF Size(s) = k THEN 1 ELSE 0)
  <2>1. s + 1 \in 0 .. total /\ s + 1 # 0 /\ (s + 1) - 1 = s
    BY <1>1 DEF Symbols
  <2> QED BY <1>1, <1>8, <2>1 DEF Size
<1> DEFINE T == {n \in 0 .. total : count[n] \in Nat}
<1>11. 0 \in T
  BY <1>1, <1>9
<1>12. ASSUME NEW n \in 0 .. total - 1, n \in T PROVE n + 1 \in T
  BY <1>1, <1>10, <1>12 DEF Symbols
<1>13. T = 0 .. total
  <2> HIDE DEF T
  <2>1. T \in SUBSET (0 .. total)
    BY DEF T
  <2> QED BY <1>1, <1>11, <1>12, <2>1, InductionUpTo
<1>14. \A n \in 0 .. total : count[n] \in Nat
  BY <1>13
<1> QED BY <1>1, <1>9, <1>10, <1>14 DEF count, Used

\* A count grows with the symbols.
LEMMA CountGrows ==
  ASSUME Sized, NEW k, NEW m \in 0 .. total, NEW n \in 0 .. total, m <= n
  PROVE  Count(k)[m] <= Count(k)[n]
<1> DEFINE T == {i \in 0 .. total : m <= i => Count(k)[m] <= Count(k)[i]}
<1>1. total \in Nat
  BY SizesAre
<1>2. 0 \in T
  BY <1>1, Counted
<1>3. ASSUME NEW i \in 0 .. total - 1, i \in T PROVE i + 1 \in T
  <2>1. Count(k)[i + 1] = Count(k)[i] + (IF Size(i) = k THEN 1 ELSE 0)
    BY <1>1, Counted DEF Symbols
  <2>2. Count(k)[i] \in Nat /\ Count(k)[m] \in Nat /\ Count(k)[i + 1] \in Nat
    BY <1>1, Counted
  <2>3. CASE m <= i
    BY <1>1, <1>3, <2>1, <2>2, <2>3
  <2>4. CASE m = i + 1
    BY <1>1, <2>2, <2>4
  <2> QED BY <1>1, <2>3, <2>4
<1>4. T = 0 .. total
  <2> HIDE DEF T
  <2>1. T \in SUBSET (0 .. total)
    BY DEF T
  <2> QED BY <1>1, <1>2, <1>3, <2>1, InductionUpTo
<1> QED BY <1>4

\* The symbols of a size have the numbers below their count, in order.
LEMMA Numbered ==
  ASSUME Sized, NEW k, NEW s \in Symbols, Size(s) = k
  PROVE  /\ Count(k)[s] \in Nat /\ Count(k)[s] < Used(k)
         /\ \A t \in Symbols : s < t => Count(k)[s] < Count(k)[t]
<1>1. total \in Nat /\ s \in 0 .. total /\ s + 1 \in 0 .. total /\ total \in 0 .. total
  BY SizesAre DEF Symbols
<1>2. Count(k)[s + 1] = Count(k)[s] + 1 /\ Count(k)[s] \in Nat /\ Used(k) = Count(k)[total]
  BY <1>1, Counted
<1>3. ASSUME NEW t \in 0 .. total, s < t PROVE Count(k)[s] < Count(k)[t]
  <2>1. Count(k)[s + 1] <= Count(k)[t]
    BY <1>1, <1>3, CountGrows
  <2>2. Count(k)[t] \in Nat
    BY Counted
  <2> QED BY <1>2, <2>1, <2>2
<1>4. \A t \in Symbols : t \in 0 .. total
  BY <1>1 DEF Symbols
<1>5. s < total
  BY <1>1 DEF Symbols
<1> QED BY <1>1, <1>2, <1>3, <1>4, <1>5

\* Every number below the count of a size is that of a symbol.
LEMMA Nth ==
  ASSUME Sized, NEW k, NEW i \in Nat, i < Used(k)
  PROVE  \E s \in Symbols : Size(s) = k /\ Count(k)[s] = i
<1>1. total \in Nat /\ total \in 0 .. total
  BY SizesAre
<1> DEFINE T == {n \in 0 .. total : i < Count(k)[n]}
<1>2. T \in SUBSET Nat /\ T # {}
  BY <1>1, Counted
<1>3. PICK m \in T : \A n \in T : m <= n
  <2> HIDE DEF T
  <2> QED BY <1>2, Smallest
<1>4. m # 0 /\ m \in 0 .. total
  BY <1>1, <1>3, Counted
<1>5. PICK s \in Symbols : m = s + 1
  <2>1. m - 1 \in Symbols /\ m = (m - 1) + 1
    BY <1>1, <1>4 DEF Symbols
  <2> QED BY <2>1
<1>6. ~(i < Count(k)[s]) /\ s \in 0 .. total
  BY <1>1, <1>3, <1>5 DEF Symbols
<1>7. Count(k)[s + 1] = Count(k)[s] + (IF Size(s) = k THEN 1 ELSE 0) /\ Count(k)[s] \in Nat
  BY <1>6, Counted
<1>8. i < Count(k)[s + 1]
  BY <1>3, <1>5
<1>9. Size(s) = k /\ Count(k)[s] = i
  BY <1>6, <1>7, <1>8
<1> QED BY <1>9

-----------------------------------------------------------------------------
(***************************************************************************)
(* The code space.                                                         *)
(***************************************************************************)

\* A symbol takes room.
LEMMA Rooms ==
  ASSUME Sized, NEW s \in Symbols
  PROVE  /\ MaxSize - Size(s) \in 0 .. MaxSize
         /\ Room(s) = Pow2[MaxSize - Size(s)] /\ Room(s) \in Nat \ {0}
<1>1. Size(s) \in 0 .. MaxSize - 1 /\ MaxSize \in Nat
  BY SizesAre, WidthsFact DEF Widths
<1>2. MaxSize - Size(s) \in 0 .. MaxSize
  BY <1>1
<1> QED BY <1>2, Power DEF Room, Size

\* The partial sums of Space.
SpaceTo(S) ==
  LET sum[n \in 0 .. total] ==
        IF n = 0 THEN 0 ELSE sum[n - 1] + (IF n - 1 \in S THEN Room(n - 1) ELSE 0)
  IN sum

\* The space of a set, one symbol at a time.
LEMMA Sums ==
  ASSUME Sized, NEW S
  PROVE  /\ \A n \in 0 .. total : SpaceTo(S)[n] \in Nat
         /\ SpaceTo(S)[0] = 0
         /\ \A s \in Symbols : SpaceTo(S)[s + 1] = SpaceTo(S)[s] + (IF s \in S THEN Room(s) ELSE 0)
         /\ Space(S) = SpaceTo(S)[total]
<1> DEFINE room == [n \in 0 .. total - 1 |-> IF n \in S THEN Room(n) ELSE 0]
           sum == SpaceTo(S)
<1>1. total \in Nat
  BY SizesAre
<1>2. room \in [0 .. total - 1 -> Nat]
  BY Rooms DEF Symbols
<1>3. \A n \in 0 .. total - 1 : room[n] = IF n \in S THEN Room(n) ELSE 0
  OBVIOUS
<1> HIDE DEF room
<1>4. \A n \in 0 .. total : n # 0 => room[n - 1] = IF n - 1 \in S THEN Room(n - 1) ELSE 0
  <2>1. \A n \in 0 .. total : n # 0 => n - 1 \in 0 .. total - 1
    BY <1>1
  <2> QED BY <1>3, <2>1
<1>5. PICK g : g \in [0 .. total -> Nat] /\ Growing(g, total, 0, 1, room)
  BY <1>1, <1>2, GrowthExists
<1>6. ASSUME NEW n \in 0 .. total
      PROVE  g[n] = IF n = 0 THEN 0 ELSE g[n - 1] + (IF n - 1 \in S THEN Room(n - 1) ELSE 0)
  <2>1. n # 0 => /\ room[n - 1] = (IF n - 1 \in S THEN Room(n - 1) ELSE 0)
                 /\ g[n - 1] \in Nat
    BY <1>1, <1>4, <1>5
  <2>2. g[n] = IF n = 0 THEN 0 ELSE 1 * g[n - 1] + room[n - 1]
    BY <1>5 DEF Growing
  <2> QED BY <2>1, <2>2
<1>7. g = [n \in 0 .. total |->
            IF n = 0 THEN 0 ELSE g[n - 1] + (IF n - 1 \in S THEN Room(n - 1) ELSE 0)]
  BY <1>5, <1>6
<1>8. sum = [n \in 0 .. total |->
              IF n = 0 THEN 0 ELSE sum[n - 1] + (IF n - 1 \in S THEN Room(n - 1) ELSE 0)]
  BY <1>7 DEF SpaceTo
<1>9. Space(S) = sum[total]
  BY DEF Space, SpaceTo
<1> HIDE DEF sum
<1>10. sum[0] = 0
  BY <1>1, <1>8
<1>11. ASSUME NEW s \in Symbols
       PROVE  sum[s + 1] = sum[s] + (IF s \in S THEN Room(s) ELSE 0)
  <2>1. s + 1 \in 0 .. total /\ s + 1 # 0 /\ (s + 1) - 1 = s
    BY <1>1 DEF Symbols
  <2> QED BY <1>8, <2>1
<1> DEFINE T == {n \in 0 .. total : sum[n] \in Nat}
<1>12. 0 \in T
  BY <1>1, <1>10
<1>13. ASSUME NEW n \in 0 .. total - 1, n \in T PROVE n + 1 \in T
  BY <1>1, <1>11, <1>13, Rooms DEF Symbols
<1>14. T = 0 .. total
  <2> HIDE DEF T
  <2>1. T \in SUBSET (0 .. total)
    BY DEF T
  <2> QED BY <1>1, <1>12, <1>13, <2>1, InductionUpTo
<1>15. \A n \in 0 .. total : sum[n] \in Nat
  BY <1>14
<1> QED BY <1>9, <1>10, <1>11, <1>15 DEF sum

\* Sets without a common symbol take the room of both.
LEMMA SpaceAdds ==
  ASSUME Sized, NEW S, NEW R, S \cap R = {}
  PROVE  Space(S \cup R) = Space(S) + Space(R) /\ Space(S) \in Nat
<1> DEFINE a == SpaceTo(S)
           b == SpaceTo(R)
           c == SpaceTo(S \cup R)
           T == {n \in 0 .. total : c[n] = a[n] + b[n]}
<1>1. total \in Nat /\ total \in 0 .. total
  BY SizesAre
<1>2. /\ \A n \in 0 .. total : a[n] \in Nat /\ b[n] \in Nat /\ c[n] \in Nat
      /\ a[0] = 0 /\ b[0] = 0 /\ c[0] = 0
      /\ Space(S) = a[total] /\ Space(R) = b[total] /\ Space(S \cup R) = c[total]
  BY Sums
<1>3. ASSUME NEW s \in Symbols
      PROVE  /\ a[s + 1] = a[s] + (IF s \in S THEN Room(s) ELSE 0)
             /\ b[s + 1] = b[s] + (IF s \in R THEN Room(s) ELSE 0)
             /\ c[s + 1] = c[s] + (IF s \in S \cup R THEN Room(s) ELSE 0)
             /\ Room(s) \in Nat
  BY Sums, Rooms
<1> HIDE DEF a, b, c
<1>4. 0 \in T
  BY <1>1, <1>2
<1>5. ASSUME NEW n \in 0 .. total - 1, n \in T PROVE n + 1 \in T
  <2>1. n \in Symbols /\ n + 1 \in 0 .. total /\ n \in 0 .. total
    BY <1>1 DEF Symbols
  <2>2. c[n] = a[n] + b[n]
    BY <1>5
  <2>3. ~(n \in S /\ n \in R)
    OBVIOUS
  <2>4. c[n + 1] = a[n + 1] + b[n + 1]
    BY <1>2, <1>3, <2>1, <2>2, <2>3
  <2> QED BY <2>1, <2>4
<1>6. T = 0 .. total
  <2> HIDE DEF T
  <2>1. T \in SUBSET (0 .. total)
    BY DEF T
  <2> QED BY <1>1, <1>4, <1>5, <2>1, InductionUpTo
<1>7. c[total] = a[total] + b[total]
  BY <1>1, <1>6
<1> QED BY <1>1, <1>2, <1>7

\* No symbols take no room.
LEMMA SpaceOfNone ==
  ASSUME Sized
  PROVE  Space({}) = 0
<1>1. Symbols \cup {} = Symbols /\ Symbols \cap {} = {} /\ {} \cap Symbols = {}
  OBVIOUS
<1>2. Space(Symbols \cup {}) = Space(Symbols) + Space({}) /\ Space(Symbols) \in Nat
  BY <1>1, SpaceAdds
<1>3. Space({}) \in Nat
  BY <1>1, SpaceAdds
<1> QED BY <1>1, <1>2, <1>3

\* A symbol takes its room.
LEMMA SpaceOfOne ==
  ASSUME Sized, NEW s \in Symbols
  PROVE  Space({s}) = Room(s)
<1> DEFINE a == SpaceTo({s})
           T == {n \in 0 .. total : a[n] = IF n > s THEN Room(s) ELSE 0}
<1>1. total \in Nat /\ s \in 0 .. total - 1 /\ Room(s) \in Nat
  BY SizesAre, Rooms DEF Symbols
<1>2. /\ a[0] = 0 /\ Space({s}) = a[total]
      /\ \A t \in Symbols : a[t + 1] = a[t] + (IF t = s THEN Room(s) ELSE 0)
  BY Sums
<1> HIDE DEF a
<1>3. 0 \in T
  BY <1>1, <1>2
<1>4. ASSUME NEW n \in 0 .. total - 1, n \in T PROVE n + 1 \in T
  BY <1>1, <1>2, <1>4 DEF Symbols
<1>5. T = 0 .. total
  <2> HIDE DEF T
  <2>1. T \in SUBSET (0 .. total)
    BY DEF T
  <2> QED BY <1>1, <1>3, <1>4, <2>1, InductionUpTo
<1>6. total \in T /\ total > s
  BY <1>1, <1>5
<1> QED BY <1>1, <1>2, <1>6

\* What a part of a set takes is within what the set takes.
LEMMA SpaceOfPart ==
  ASSUME Sized, NEW S, NEW R, S \subseteq R
  PROVE  Space(S) <= Space(R) /\ Space(S) \in Nat /\ Space(R) \in Nat
<1>1. S \cup (R \ S) = R /\ S \cap (R \ S) = {}
  OBVIOUS
<1>2. Space(R) = Space(S) + Space(R \ S) /\ Space(S) \in Nat
  BY <1>1, SpaceAdds
<1>3. Space(R \ S) \in Nat
  <2>1. (R \ S) \cap {} = {}
    OBVIOUS
  <2> QED BY <2>1, SpaceAdds
<1> QED BY <1>2, <1>3

-----------------------------------------------------------------------------
(***************************************************************************)
(* The canonical code: where the interval of a symbol starts, and its key, *)
(* the bits that its slots end in.                                         *)
(***************************************************************************)

\* The code that init gives out to a symbol, its reverse, and where its interval starts.
Code(s) == FirstCodes[Size(s)] + Count(Size(s))[s]
Key(s) == Reversed(Code(s), Size(s))
Start(s) == Space(CodedBefore(s))

\* The symbols with shorter codes, and the first ones with codes of a size.
Shorter(k) == {s \in UsedSet : Size(s) < k}
Same(k, n) == {s \in Symbols : Size(s) = k /\ s < n}

\* The symbols of a size take as much as there are of them.
LEMMA SpaceOfSame ==
  ASSUME Sized, NEW k \in 1 .. MaxSize - 1, NEW n \in 0 .. total
  PROVE  Space(Same(k, n)) = Count(k)[n] * Pow2[MaxSize - k]
<1> USE WidthsFact DEF Widths
<1> DEFINE T == {m \in 0 .. total : Space(Same(k, m)) = Count(k)[m] * Pow2[MaxSize - k]}
<1>1. total \in Nat
  BY SizesAre
<1>2. PICK p \in Nat : p = Pow2[MaxSize - k]
  BY Power
<1>3. 0 \in T
  <2>1. Same(k, 0) = {}
    BY SizesAre DEF Same
  <2>2. Space(Same(k, 0)) = 0
    BY <2>1, SpaceOfNone
  <2>3. Count(k)[0] = 0 /\ 0 * p = 0
    BY Counted
  <2> QED BY <1>1, <1>2, <2>2, <2>3
<1>4. ASSUME NEW m \in 0 .. total - 1, m \in T PROVE m + 1 \in T
  <2>1. m \in Symbols /\ m + 1 \in 0 .. total /\ m \in 0 .. total
    BY <1>1 DEF Symbols
  <2>2. Count(k)[m + 1] = Count(k)[m] + (IF Size(m) = k THEN 1 ELSE 0) /\ Count(k)[m] \in Nat
    BY <2>1, Counted
  <2>3. Space(Same(k, m)) = Count(k)[m] * p
    BY <1>2, <1>4
  <2> DEFINE Upto(t) == t < m + 1
             Under(t) == t < m
  <2>4. \A t \in Symbols : (Upto(t) <=> Under(t) \/ t = m) /\ (Under(t) => t # m)
    <3>1. \A t \in Symbols : t \in Int
      BY SizesAre
    <3> QED BY <3>1, <2>1
  <2>5. /\ Same(k, m + 1) = {t \in Symbols : Size(t) = k /\ Upto(t)}
        /\ Same(k, m) = {t \in Symbols : Size(t) = k /\ Under(t)}
    BY DEF Same
  <2> HIDE DEF Upto, Under
  <2>6. CASE Size(m) = k
    <3>1. Same(k, m + 1) = Same(k, m) \cup {m} /\ Same(k, m) \cap {m} = {}
      BY <2>1, <2>6, <2>4, <2>5
    <3>2. Space(Same(k, m + 1)) = Space(Same(k, m)) + Space({m})
      BY <3>1, SpaceAdds
    <3>3. Space({m}) = p
      BY <1>2, <2>1, <2>6, SpaceOfOne, Rooms
    <3>4. PICK c \in Nat : c = Count(k)[m]
      BY <2>2
    <3>5. Count(k)[m + 1] = c + 1
      BY <2>2, <2>6, <3>4
    <3>6. (c + 1) * p = c * p + p
      OBVIOUS
    <3>7. Space(Same(k, m + 1)) = Count(k)[m + 1] * p
      BY <2>3, <3>2, <3>3, <3>4, <3>5, <3>6
    <3> QED BY <1>2, <2>1, <3>7
  <2>7. CASE Size(m) # k
    <3>1. Same(k, m + 1) = Same(k, m)
      BY <2>1, <2>7, <2>4, <2>5
    <3>2. Count(k)[m + 1] = Count(k)[m]
      BY <2>2, <2>7
    <3> QED BY <1>2, <2>1, <2>3, <3>1, <3>2
  <2> QED BY <2>6, <2>7
<1>5. T = 0 .. total
  <2> HIDE DEF T
  <2>1. T \in SUBSET (0 .. total)
    BY DEF T
  <2> QED BY <1>1, <1>3, <1>4, <2>1, InductionUpTo
<1> QED BY <1>5

\* The symbols up to a size.
LEMMA ShorterAnd ==
  ASSUME Sized, NEW k \in 1 .. MaxSize - 1
  PROVE  /\ Shorter(k + 1) = Shorter(k) \cup Same(k, total)
         /\ Shorter(k) \cap Same(k, total) = {}
         /\ Space(Shorter(k + 1)) = Space(Shorter(k)) + Used(k) * Pow2[MaxSize - k]
         /\ Space(Shorter(k)) \in Nat
<1>1. total \in Nat /\ total \in 0 .. total /\ \A s \in Symbols : s < total
  BY SizesAre DEF Symbols
<1>2. k \in Nat /\ k # 0
  BY WidthsFact DEF Widths
<1>3. \A s \in UsedSet : s \in Symbols /\ Size(s) \in Nat
  BY SizesAre, WidthsFact DEF Widths
<1>4. \A s \in Symbols : Size(s) = k => s \in UsedSet
  BY <1>2, SizesAre
<1>5. Shorter(k + 1) = Shorter(k) \cup Same(k, total)
  BY <1>1, <1>2, <1>3, <1>4 DEF Shorter, Same
<1>6. Shorter(k) \cap Same(k, total) = {}
  BY <1>2, <1>3 DEF Shorter, Same
<1>7. Space(Shorter(k + 1)) = Space(Shorter(k)) + Space(Same(k, total)) /\ Space(Shorter(k)) \in Nat
  BY <1>5, <1>6, SpaceAdds
<1>8. Space(Same(k, total)) = Used(k) * Pow2[MaxSize - k]
  BY <1>1, SpaceOfSame, Counted
<1> QED BY <1>5, <1>6, <1>7, <1>8

\* Used symbols are shorter than the longest size.
LEMMA AllShorter ==
  ASSUME Sized
  PROVE  Shorter(1) = {} /\ Shorter(MaxSize) = UsedSet
<1>1. \A s \in UsedSet : Size(s) \in 1 .. MaxSize - 1
  BY SizesAre
<1>2. \A n \in 1 .. MaxSize - 1 : ~(n < 1) /\ n < MaxSize
  BY WidthsFact DEF Widths
<1> QED BY <1>1, <1>2 DEF Shorter

\* Where an interval starts: after those of shorter codes and of earlier symbols.
LEMMA StartIs ==
  ASSUME Sized, NEW s \in UsedSet
  PROVE  Start(s) = Space(Shorter(Size(s))) + Count(Size(s))[s] * Room(s)
<1> DEFINE k == Size(s)
<1>1. s \in Symbols /\ k \in 1 .. MaxSize - 1 /\ s \in 0 .. total /\ k \in Nat /\ s \in Nat /\ k # 0
  BY SizesAre, WidthsFact DEF Widths, Symbols
<1>2. CodedBefore(s) = Shorter(k) \cup Same(k, s) /\ Shorter(k) \cap Same(k, s) = {}
  <2>1. \A t \in UsedSet : t \in Symbols /\ Size(t) \in Nat
    BY SizesAre, WidthsFact DEF Widths
  <2>2. \A t \in Symbols : Size(t) = k => t \in UsedSet
    BY <1>1, SizesAre
  <2>3. CodedBefore(s) = {t \in UsedSet : Size(t) < k \/ (Size(t) = k /\ t < s)}
    BY DEF CodedBefore, Size
  <2>4. Shorter(k) = {t \in UsedSet : Size(t) < k}
    BY DEF Shorter
  <2>5. Same(k, s) = {t \in Symbols : Size(t) = k /\ t < s}
    BY DEF Same
  <2> HIDE DEF k
  <2>6. CodedBefore(s) = Shorter(k) \cup Same(k, s)
    BY <2>1, <2>2, <2>3, <2>4, <2>5, Zenon
  <2>7. Shorter(k) \cap Same(k, s) = {}
    BY <1>1, <2>1, <2>4, <2>5
  <2> QED BY <2>6, <2>7
<1>3. Space(CodedBefore(s)) = Space(Shorter(k)) + Space(Same(k, s))
  BY <1>2, SpaceAdds
<1>4. Space(Same(k, s)) = Count(k)[s] * Pow2[MaxSize - k]
  BY <1>1, SpaceOfSame
<1>5. Room(s) = Pow2[MaxSize - k]
  BY <1>1, Rooms
<1> QED BY <1>3, <1>4, <1>5 DEF Start

\* The first codes, which wrap as they are doubled from size to size.
LEMMA FirstCodesAre ==
  ASSUME Sized
  PROVE  /\ FirstCodes \in [1 .. MaxSize -> Nat]
         /\ FirstCodes[1] = 0
         /\ \A k \in 1 .. MaxSize - 1 :
              FirstCodes[k + 1] = ((FirstCodes[k] + Used(k)) * 2) % Pow2[MaxSize + 1]
<1> USE WidthsFact DEF Widths
<1> DEFINE N == MaxSize - 1
           more == [x \in (0 .. N - 1) \X Nat |->
                     ((x[2] + Used(x[1] + 1)) * 2) % Pow2[MaxSize + 1]]
           first == FirstCodes
<1>1. N \in Nat /\ total \in 0 .. total
  BY SizesAre
<1>2. ASSUME NEW n \in Nat, NEW k PROVE ((n + Used(k)) * 2) % Pow2[MaxSize + 1] \in Nat
  <2>1. Used(k) \in Nat
    BY <1>1, Counted
  <2>2. PICK d \in Nat \ {0} : d = Pow2[MaxSize + 1]
    BY Powers
  <2>3. PICK a \in Nat : a = (n + Used(k)) * 2
    BY <2>1
  <2> QED BY <2>2, <2>3, Remainder
<1>3. more \in [(0 .. N - 1) \X Nat -> Nat]
  <2>1. ASSUME NEW x \in (0 .. N - 1) \X Nat
        PROVE  ((x[2] + Used(x[1] + 1)) * 2) % Pow2[MaxSize + 1] \in Nat
    <3>1. PICK n \in Nat : n = x[2]
      OBVIOUS
    <3> QED BY <1>2, <3>1
  <2> QED BY <2>1
<1>4. \A n \in 0 .. N - 1 : \A x \in Nat :
        more[<<n, x>>] = ((x + Used(n + 1)) * 2) % Pow2[MaxSize + 1]
  OBVIOUS
<1> HIDE DEF more
<1>5. PICK h : h \in [0 .. N -> Nat] /\ Recurs(h, N, 0, more)
  BY <1>1, <1>3, Recursion
<1> DEFINE g == [k \in 1 .. MaxSize |-> h[k - 1]]
<1>6. ASSUME NEW k \in 1 .. MaxSize
      PROVE  g[k] = IF k = 1 THEN 0 ELSE ((g[k - 1] + Used(k - 1)) * 2) % Pow2[MaxSize + 1]
  <2>1. CASE k = 1
    BY <1>5, <2>1 DEF Recurs
  <2>2. CASE k # 1
    <3>1. PICK n \in 0 .. N - 1 : n = k - 2
      BY <2>2
    <3>2. h[n] \in Nat /\ h[n + 1] = more[<<n, h[n]>>]
      BY <1>5 DEF Recurs
    <3>3. h[n + 1] = ((h[n] + Used(n + 1)) * 2) % Pow2[MaxSize + 1]
      BY <1>4, <3>2
    <3>4. g[k] = h[n + 1] /\ g[k - 1] = h[n] /\ n + 1 = k - 1
      BY <2>2, <3>1
    <3> QED BY <2>2, <3>3, <3>4
  <2> QED BY <2>1, <2>2
<1>7. g = [k \in 1 .. MaxSize |->
            IF k = 1 THEN 0 ELSE ((g[k - 1] + Used(k - 1)) * 2) % Pow2[MaxSize + 1]]
  <2>1. DOMAIN g = 1 .. MaxSize /\ g = [k \in 1 .. MaxSize |-> g[k]]
    OBVIOUS
  <2> HIDE DEF g
  <2> QED BY <1>6, <2>1
<1> HIDE DEF g
<1>8. first = [k \in 1 .. MaxSize |->
                IF k = 1 THEN 0 ELSE ((first[k - 1] + Used(k - 1)) * 2) % Pow2[MaxSize + 1]]
  BY <1>7 DEF FirstCodes
<1> HIDE DEF first
<1>9. first[1] = 0
  BY <1>8
<1>10. ASSUME NEW k \in 1 .. MaxSize - 1
       PROVE  first[k + 1] = ((first[k] + Used(k)) * 2) % Pow2[MaxSize + 1]
  <2>1. k + 1 \in 1 .. MaxSize /\ k + 1 # 1 /\ (k + 1) - 1 = k
    OBVIOUS
  <2> QED BY <1>8, <2>1
<1> DEFINE T == {n \in 0 .. N : first[n + 1] \in Nat}
<1>11. 0 \in T
  BY <1>9
<1>12. ASSUME NEW n \in 0 .. N - 1, n \in T PROVE n + 1 \in T
  <2>1. n + 1 \in 1 .. MaxSize - 1 /\ n + 1 \in 0 .. N /\ first[n + 1] \in Nat
    BY <1>12
  <2> QED BY <1>2, <1>10, <2>1
<1>13. T = 0 .. N
  <2> HIDE DEF T, N
  <2>1. T \in SUBSET (0 .. N)
    BY DEF T
  <2> QED BY <1>1, <1>11, <1>12, <2>1, InductionUpTo
<1>14. ASSUME NEW k \in 1 .. MaxSize PROVE first[k] \in Nat
  <2>1. k - 1 \in 0 .. N /\ (k - 1) + 1 = k
    OBVIOUS
  <2>2. k - 1 \in T
    BY <1>13, <2>1
  <2>3. first[(k - 1) + 1] \in Nat
    BY <2>2
  <2> QED BY <2>1, <2>3
<1>15. first \in [1 .. MaxSize -> Nat]
  BY <1>8, <1>14
<1> QED BY <1>9, <1>10, <1>15 DEF first

\* The shorter codes take as many codes of a size as the first code of the size counts,
\* which is what is left of that number in a word of one bit more than the longest size
\* (next_code of HuffmanDecodingTable::init).
THEOREM FirstCodeStarts ==
  ASSUME Sized, NEW k \in 1 .. MaxSize
  PROVE  \E u \in Nat :
           Space(Shorter(k)) = u * Pow2[MaxSize - k] /\ FirstCodes[k] = u % Pow2[MaxSize + 1]
<1> USE WidthsFact DEF Widths
<1> DEFINE N == MaxSize - 1
           Fits(j, u) == /\ Space(Shorter(j)) = u * Pow2[MaxSize - j]
                         /\ FirstCodes[j] = u % Pow2[MaxSize + 1]
           T == {n \in 0 .. N : \E u \in Nat : Fits(n + 1, u)}
<1> HIDE DEF Fits
<1>1. N \in Nat /\ total \in 0 .. total
  BY SizesAre
<1>2. PICK d \in Nat \ {0} : d = Pow2[MaxSize + 1]
  BY Power
<1>3. 0 \in T
  <2>1. Space(Shorter(1)) = 0
    BY AllShorter, SpaceOfNone
  <2>2. PICK p \in Nat : p = Pow2[MaxSize - 1]
    BY Power
  <2>3. 0 * p = 0 /\ 0 % d = 0
    OBVIOUS
  <2>4. Fits(1, 0)
    BY <1>2, <2>1, <2>2, <2>3, FirstCodesAre DEF Fits
  <2> QED BY <1>1, <2>4
<1>4. ASSUME NEW n \in 0 .. N - 1, n \in T PROVE n + 1 \in T
  <2>1. PICK j \in 1 .. MaxSize - 1 : j = n + 1
    OBVIOUS
  <2>2. PICK u \in Nat : Fits(j, u)
    BY <1>4, <2>1
  <2>3. PICK c \in Nat : c = Used(j)
    BY <1>1, Counted
  <2>4. PICK p \in Nat : p = Pow2[MaxSize - (j + 1)] /\ Pow2[MaxSize - j] = 2 * p
    <3>1. MaxSize - (j + 1) \in 0 .. MaxSize /\ (MaxSize - (j + 1)) + 1 = MaxSize - j
      OBVIOUS
    <3> QED BY <3>1, Power
  <2>5. Space(Shorter(j + 1)) = ((u + c) * 2) * p
    <3>1. Space(Shorter(j + 1)) = u * (2 * p) + c * (2 * p)
      BY <2>2, <2>3, <2>4, ShorterAnd DEF Fits
    <3>2. u * (2 * p) + c * (2 * p) = ((u + c) * 2) * p
      OBVIOUS
    <3> QED BY <3>1, <3>2
  <2>6. FirstCodes[j + 1] = ((u + c) * 2) % d
    <3>1. FirstCodes[j + 1] = (((u % d) + c) * 2) % d
      BY <1>2, <2>2, <2>3, FirstCodesAre DEF Fits
    <3> QED BY <3>1, DoubledWraps
  <2>7. Fits(j + 1, (u + c) * 2)
    BY <1>2, <2>4, <2>5, <2>6 DEF Fits
  <2>8. (u + c) * 2 \in Nat /\ j + 1 = (n + 1) + 1 /\ n + 1 \in 0 .. N
    BY <2>1
  <2> QED BY <2>7, <2>8
<1>5. T = 0 .. N
  <2> HIDE DEF T, N
  <2>1. T \in SUBSET (0 .. N)
    BY DEF T
  <2> QED BY <1>1, <1>3, <1>4, <2>1, InductionUpTo
<1>6. k - 1 \in 0 .. N /\ (k - 1) + 1 = k
  OBVIOUS
<1>7. k - 1 \in T
  BY <1>5, <1>6
<1>8. PICK u \in Nat : Fits((k - 1) + 1, u)
  BY <1>7
<1>9. Fits(k, u)
  BY <1>6, <1>8
<1> QED BY <1>9 DEF Fits

\* the bits v start with the code of s
Owns(s, v) == v % Pow2[Size(s)] = Key(s)

\* What is known of the size of a used symbol, under one name.
LEMMA UsedSize ==
  ASSUME Sized, NEW s \in UsedSet
  PROVE  /\ s \in Symbols /\ s \in 0 .. total /\ s \in Nat
         /\ Size(s) \in 1 .. MaxSize - 1 /\ Size(s) \in 0 .. MaxSize /\ Size(s) \in Nat
         /\ MaxSize - Size(s) \in 0 .. MaxSize /\ Room(s) = Pow2[MaxSize - Size(s)]
         /\ Room(s) \in Nat \ {0} /\ Pow2[Size(s)] \in Nat \ {0}
         /\ Pow2[MaxSize] = Pow2[Size(s)] * Room(s)
<1>1. s \in Symbols /\ Size(s) \in 1 .. MaxSize - 1 /\ total \in Nat
  BY SizesAre
<1>2. s \in 0 .. total /\ s \in Nat
  BY <1>1 DEF Symbols
<1>3. Size(s) \in 0 .. MaxSize /\ Size(s) \in Nat
  BY <1>1, WidthsFact DEF Widths
<1>4. /\ MaxSize - Size(s) \in 0 .. MaxSize
      /\ Room(s) = Pow2[MaxSize - Size(s)] /\ Room(s) \in Nat \ {0}
  BY <1>1, Rooms
<1>5. Pow2[Size(s)] \in Nat \ {0}
  BY <1>3, Power
<1>6. Pow2[MaxSize] = Pow2[Size(s)] * Room(s)
  BY <1>3, <1>4, PowerSplit
<1> QED BY <1>1, <1>2, <1>3, <1>4, <1>5, <1>6

\* The code of a symbol ends in the bits of the number of codes of its size before it.
LEMMA CodeStarts ==
  ASSUME Sized, NEW s \in UsedSet
  PROVE  \E q \in Nat :
           /\ Start(s) = q * Room(s)
           /\ Code(s) \in Nat /\ Code(s) % Pow2[Size(s)] = q % Pow2[Size(s)]
<1> DEFINE k == Size(s)
<1>1. s \in Symbols /\ k \in 1 .. MaxSize /\ k \in 0 .. MaxSize
  BY UsedSize, WidthsFact DEF Widths
<1>2. PICK u \in Nat :
        Space(Shorter(k)) = u * Pow2[MaxSize - k] /\ FirstCodes[k] = u % Pow2[MaxSize + 1]
  BY <1>1, FirstCodeStarts
<1>3. PICK c \in Nat : c = Count(k)[s]
  BY UsedSize, Counted
<1>4. PICK r \in Nat \ {0} : r = Room(s)
  BY UsedSize
<1>5. PICK p \in Nat \ {0} : p = Pow2[k]
  BY UsedSize
<1>6. PICK d \in Nat \ {0} : d = Pow2[MaxSize + 1] /\ d = p * (2 * r)
  <2>1. Pow2[MaxSize] = p * r
    BY <1>4, <1>5, UsedSize
  <2>2. Pow2[MaxSize + 1] = 2 * Pow2[MaxSize] /\ Pow2[MaxSize + 1] \in Nat \ {0}
    BY Powers, WidthsFact DEF Widths
  <2>3. 2 * (p * r) = p * (2 * r)
    OBVIOUS
  <2> QED BY <2>1, <2>2, <2>3
<1>7. Start(s) = (u + c) * r
  <2>1. Start(s) = u * r + c * r
    BY <1>2, <1>3, <1>4, StartIs, UsedSize
  <2>2. u * r + c * r = (u + c) * r
    OBVIOUS
  <2> QED BY <2>1, <2>2
<1>8. PICK w \in Nat : w = u % d
  BY Remainder
<1>9. PICK h \in Nat : h = u \div d
  BY Remainder
<1>10. Code(s) = w + c
  BY <1>2, <1>3, <1>6, <1>8 DEF Code
<1>11. u + c = p * ((2 * r) * h) + (w + c)
  <2>1. u = d * h + w
    BY <1>8, <1>9, Remainder
  <2>2. d * h = p * ((2 * r) * h) /\ d * h \in Nat
    BY <1>6
  <2> QED BY <2>1, <2>2
<1>12. (u + c) % p = (w + c) % p
  <2>1. PICK g \in Nat : g = (2 * r) * h
    <3>1. 2 * r \in Nat
      OBVIOUS
    <3>2. (2 * r) * h \in Nat
      BY <3>1
    <3> QED BY <3>2
  <2>2. PICK x \in Nat : x = w + c
    OBVIOUS
  <2>3. (p * g + x) % p = x % p
    BY WholeMore
  <2>4. u + c = p * g + x
    BY <1>11, <2>1, <2>2
  <2> QED BY <2>2, <2>3, <2>4
<1>13. u + c \in Nat /\ w + c \in Nat
  OBVIOUS
<1> QED BY <1>4, <1>5, <1>7, <1>10, <1>12, <1>13

\* The key of a symbol has the bits of its size.
LEMMA KeyFits ==
  ASSUME Sized, NEW s \in UsedSet
  PROVE  Key(s) \in Nat /\ Key(s) < Pow2[Size(s)]
<1>1. Code(s) \in Nat
  BY CodeStarts
<1> QED BY <1>1, UsedSize, Reversals, ReversedFits DEF Key

\* Which bits start with the code of a symbol.
LEMMA Owners ==
  ASSUME Sized, NEW s \in UsedSet
  PROVE  \E q \in Nat :
           /\ Start(s) = q * Room(s)
           /\ \A v \in Nat : Owns(s, v) <=> Reversed(v, MaxSize) \div Room(s) = q % Pow2[Size(s)]
<1>1. PICK q \in Nat :
        /\ Start(s) = q * Room(s)
        /\ Code(s) \in Nat /\ Code(s) % Pow2[Size(s)] = q % Pow2[Size(s)]
  BY CodeStarts
<1>2. ASSUME NEW v \in Nat
      PROVE  Owns(s, v) <=> Reversed(v, MaxSize) \div Room(s) = q % Pow2[Size(s)]
  <2>1. v % Pow2[Size(s)] = Reversed(Code(s), Size(s))
          <=> Reversed(v, Size(s)) = Code(s) % Pow2[Size(s)]
    BY <1>1, UsedSize, ReversedSame
  <2>2. Reversed(v, MaxSize) \div Pow2[MaxSize - Size(s)] = Reversed(v, Size(s))
    BY UsedSize, TopBits
  <2> QED BY <1>1, <2>1, <2>2, UsedSize DEF Owns, Key
<1> QED BY <1>1, <1>2

\* An interval inside the code space has the reverses of the bits that the symbol owns,
\* which are those that end in its reversed code (rev_code of init).
THEOREM OwnsItsInterval ==
  ASSUME Sized, NEW s \in UsedSet, Start(s) + Room(s) <= Pow2[MaxSize], NEW v \in Nat
  PROVE  Owns(s, v) <=> Reversed(v, MaxSize) \in Interval(s)
<1>1. PICK q \in Nat :
        /\ Start(s) = q * Room(s)
        /\ Owns(s, v) <=> Reversed(v, MaxSize) \div Room(s) = q % Pow2[Size(s)]
  BY Owners
<1>2. PICK r \in Nat \ {0} : r = Room(s)
  BY UsedSize
<1>3. PICK p \in Nat \ {0} : p = Pow2[Size(s)]
  BY UsedSize
<1>4. q < p
  <2>1. q * r + r <= p * r
    BY <1>1, <1>2, <1>3, UsedSize
  <2>2. q * r + r = r * (q + 1) /\ p * r = r * p
    OBVIOUS
  <2>3. CASE p <= q
    <3>1. r * p <= r * q /\ r * q \in Nat
      BY <2>3, Products
    <3>2. r * (q + 1) = r * q + r
      OBVIOUS
    <3> QED BY <2>1, <2>2, <3>1, <3>2
  <2> QED BY <2>3
<1>5. q % p = q
  BY <1>4
<1>6. PICK y \in Nat : y = Reversed(v, MaxSize)
  BY Reversals, WidthsFact DEF Widths
<1>7. Interval(s) = r * q .. r * q + r - 1 /\ r * q \in Nat
  BY <1>1, <1>2 DEF Interval, Start
<1>8. y \div r = q <=> r * q <= y /\ y < r * q + r
  <2>1. CASE y \div r = q
    BY <2>1, Division
  <2>2. CASE r * q <= y /\ y < r * q + r
    <3>1. PICK x \in Nat : y = r * q + x /\ x < r
      <4>1. y - r * q \in Nat
        BY <1>7, <2>2
      <4>2. y = r * q + (y - r * q) /\ y - r * q < r
        BY <1>7, <2>2
      <4> QED BY <4>1, <4>2
    <3> QED BY <2>2, <3>1, QuotientIs
  <2> QED BY <2>1, <2>2
<1>9. y \in Interval(s) <=> r * q <= y /\ y < r * q + r
  BY <1>7
<1> QED BY <1>1, <1>2, <1>3, <1>5, <1>6, <1>8, <1>9

\* Intervals follow each other.
LEMMA IntervalsApart ==
  ASSUME Sized, NEW s \in UsedSet, NEW t \in UsedSet, s # t
  PROVE  Start(s) + Room(s) <= Start(t) \/ Start(t) + Room(t) <= Start(s)
<1> DEFINE Before(a, b) == Size(a) < Size(b) \/ (Size(a) = Size(b) /\ a < b)
<1>1. \A a \in UsedSet : a \in Nat /\ Size(a) \in Nat /\ a \in Symbols
  BY UsedSize
<1>2. Before(s, t) \/ Before(t, s)
  BY <1>1
<1>3. \A a, b, c \in UsedSet : Before(a, b) /\ Before(b, c) => Before(a, c)
  BY <1>1
<1>4. \A a \in UsedSet : ~Before(a, a)
  BY <1>1
<1>5. \A a : CodedBefore(a) = {b \in UsedSet : Before(b, a)}
  BY DEF CodedBefore, Size
<1> HIDE DEF Before
<1>6. ASSUME NEW a \in UsedSet, NEW b \in UsedSet, Before(a, b)
      PROVE  Start(a) + Room(a) <= Start(b)
  <2>1. CodedBefore(a) \cup {a} \subseteq CodedBefore(b) /\ CodedBefore(a) \cap {a} = {}
    BY <1>3, <1>4, <1>5, <1>6
  <2>2. Space(CodedBefore(a) \cup {a}) = Space(CodedBefore(a)) + Space({a})
    BY <2>1, SpaceAdds
  <2>3. Space(CodedBefore(a) \cup {a}) <= Space(CodedBefore(b))
    BY <2>1, SpaceOfPart
  <2>4. Space({a}) = Room(a)
    BY <1>1, SpaceOfOne
  <2> QED BY <2>2, <2>3, <2>4 DEF Start
<1> QED BY <1>2, <1>6

\* Intervals are inside the space of all symbols.
LEMMA IntervalInside ==
  ASSUME Sized, NEW s \in UsedSet
  PROVE  Start(s) + Room(s) <= Space(UsedSet) /\ Start(s) \in Nat /\ Space(UsedSet) \in Nat
<1>1. s \in Nat /\ Size(s) \in Nat /\ s \in Symbols
  BY UsedSize
<1>2. CodedBefore(s) \subseteq UsedSet /\ s \notin CodedBefore(s)
  BY <1>1 DEF CodedBefore, Size
<1>3. CodedBefore(s) \cup {s} \subseteq UsedSet /\ CodedBefore(s) \cap {s} = {}
  BY <1>2
<1>4. /\ Space(CodedBefore(s) \cup {s}) = Space(CodedBefore(s)) + Space({s})
      /\ Space(CodedBefore(s)) \in Nat
  BY <1>3, SpaceAdds
<1>5. Space(CodedBefore(s) \cup {s}) <= Space(UsedSet) /\ Space(UsedSet) \in Nat
  BY <1>3, SpaceOfPart
<1>6. Space({s}) = Room(s)
  BY <1>1, SpaceOfOne
<1> QED BY <1>4, <1>5, <1>6 DEF Start

\* The intervals leave no gap.
LEMMA Covered ==
  ASSUME Sized, NEW y \in Nat, y < Space(UsedSet)
  PROVE  \E s \in UsedSet : y \in Interval(s)
<1> USE WidthsFact DEF Widths
<1> DEFINE T == {k \in 1 .. MaxSize : y < Space(Shorter(k))}
<1>1. MaxSize \in T /\ T \in SUBSET Nat
  BY AllShorter
<1>2. PICK m \in T : \A k \in T : m <= k
  <2> HIDE DEF T
  <2>1. T # {}
    BY <1>1
  <2> QED BY <1>1, <2>1, Smallest
<1>3. m # 1 /\ m \in 1 .. MaxSize
  BY <1>2, AllShorter, SpaceOfNone
<1>4. PICK k \in 1 .. MaxSize - 1 : m = k + 1
  <2>1. m - 1 \in 1 .. MaxSize - 1 /\ m = (m - 1) + 1
    BY <1>3
  <2> QED BY <2>1
<1>5. ~(y < Space(Shorter(k)))
  <2>1. k \in 1 .. MaxSize /\ ~(m <= k)
    BY <1>4
  <2> QED BY <1>2, <2>1
<1>6. Space(Shorter(m)) = Space(Shorter(k)) + Used(k) * Pow2[MaxSize - k]
  BY <1>4, ShorterAnd
<1>7. PICK b \in Nat : b = Space(Shorter(k))
  BY <1>4, ShorterAnd
<1>8. PICK p \in Nat \ {0} : p = Pow2[MaxSize - k]
  BY Power
<1>9. PICK c \in Nat : c = Used(k)
  BY Counted, SizesAre
<1>10. PICK x \in Nat : y = b + x
  <2>1. y - b \in Nat /\ y = b + (y - b)
    BY <1>5, <1>7
  <2> QED BY <2>1
<1>11. x < p * c
  <2>1. y < b + c * p /\ c * p = p * c /\ p * c \in Nat
    BY <1>2, <1>6, <1>7, <1>8, <1>9
  <2> QED BY <1>10, <2>1
<1>12. PICK i \in Nat : i = x \div p
  BY Division
<1>13. i < c /\ p * i <= x /\ x < p * i + p
  BY <1>11, <1>12, QuotientBelow, Division
<1>14. PICK s \in Symbols : Size(s) = k /\ Count(k)[s] = i
  BY <1>9, <1>13, Nth
<1>15. s \in UsedSet
  BY <1>14, SizesAre
<1>16. Start(s) = b + i * p /\ Room(s) = p
  BY <1>7, <1>8, <1>14, <1>15, StartIs, UsedSize
<1>17. i * p = p * i /\ p * i \in Nat
  OBVIOUS
<1>18. Interval(s) = b + p * i .. b + p * i + p - 1
  BY <1>16, <1>17 DEF Interval, Start
<1>19. y \in Interval(s)
  BY <1>10, <1>13, <1>17, <1>18
<1> QED BY <1>15, <1>19

-----------------------------------------------------------------------------
(***************************************************************************)
(* What the test of completeness lets through.                             *)
(***************************************************************************)

\* No bits start with two codes.
PrefixFree == \A s, t \in UsedSet : \A v \in Nat : Owns(s, v) /\ Owns(t, v) => s = t

\* The first code of the longest size is the space of all symbols, wrapped.
LEMMA CodeSpace ==
  ASSUME Sized
  PROVE  Space(UsedSet) \in Nat /\ FirstCodes[MaxSize] = Space(UsedSet) % Pow2[MaxSize + 1]
<1>1. MaxSize \in 1 .. MaxSize /\ MaxSize - MaxSize = 0
  BY WidthsFact DEF Widths
<1>2. PICK u \in Nat :
        /\ Space(Shorter(MaxSize)) = u * Pow2[MaxSize - MaxSize]
        /\ FirstCodes[MaxSize] = u % Pow2[MaxSize + 1]
  BY <1>1, FirstCodeStarts
<1>3. Pow2[MaxSize - MaxSize] = 1 /\ u * 1 = u
  BY <1>1, Powers
<1>4. Space(UsedSet) = u
  BY <1>2, <1>3, AllShorter
<1> QED BY <1>2, <1>4

\* The used symbols are counted size by size.
LEMMA UsedSymsAre ==
  ASSUME Sized
  PROVE  \E used : /\ UsedSyms = used[MaxSize - 1] /\ used[0] = 0
                   /\ \A k \in 0 .. MaxSize - 1 : used[k] \in Nat
                   /\ \A k \in 1 .. MaxSize - 1 : used[k] = used[k - 1] + Used(k)
<1> USE WidthsFact DEF Widths
<1> DEFINE N == MaxSize - 1
           more == [n \in 0 .. N - 1 |-> Used(n + 1)]
           used == LET used[k \in 0 .. MaxSize - 1] ==
                         IF k = 0 THEN 0 ELSE used[k - 1] + Used(k)
                   IN used
<1>1. N \in Nat /\ total \in 0 .. total
  BY SizesAre
<1>2. \A k : Used(k) \in Nat
  BY <1>1, Counted
<1>3. more \in [0 .. N - 1 -> Nat] /\ \A n \in 0 .. N - 1 : more[n] = Used(n + 1)
  BY <1>2
<1>4. UsedSyms = used[MaxSize - 1]
  BY DEF UsedSyms
<1> HIDE DEF more
<1>5. PICK g : g \in [0 .. N -> Nat] /\ Growing(g, N, 0, 1, more)
  BY <1>1, <1>3, GrowthExists
<1>6. ASSUME NEW k \in 0 .. MaxSize - 1
      PROVE  g[k] = IF k = 0 THEN 0 ELSE g[k - 1] + Used(k)
  <2>1. k # 0 => more[k - 1] = Used(k) /\ g[k - 1] \in Nat
    <3>1. k # 0 => k - 1 \in 0 .. N - 1 /\ (k - 1) + 1 = k /\ k - 1 \in 0 .. N
      OBVIOUS
    <3> QED BY <1>3, <1>5, <3>1
  <2>2. g[k] = IF k = 0 THEN 0 ELSE 1 * g[k - 1] + more[k - 1]
    BY <1>5 DEF Growing
  <2> QED BY <2>1, <2>2
<1>7. g = [k \in 0 .. MaxSize - 1 |-> IF k = 0 THEN 0 ELSE g[k - 1] + Used(k)]
  BY <1>5, <1>6
<1>8. used = [k \in 0 .. MaxSize - 1 |-> IF k = 0 THEN 0 ELSE used[k - 1] + Used(k)]
  BY <1>7
<1> HIDE DEF used
<1>9. used[0] = 0 /\ \A k \in 1 .. MaxSize - 1 : used[k] = used[k - 1] + Used(k)
  BY <1>8
<1> DEFINE T == {k \in 0 .. N : used[k] \in Nat}
<1>10. 0 \in T
  BY <1>1, <1>9
<1>11. ASSUME NEW k \in 0 .. N - 1, k \in T PROVE k + 1 \in T
  <2>1. k + 1 \in 1 .. MaxSize - 1 /\ k + 1 \in 0 .. N /\ (k + 1) - 1 = k
    OBVIOUS
  <2> QED BY <1>2, <1>9, <1>11, <2>1
<1>12. T = 0 .. N
  <2> HIDE DEF T, N
  <2>1. T \in SUBSET (0 .. N)
    BY DEF T
  <2> QED BY <1>1, <1>10, <1>11, <2>1, InductionUpTo
<1>13. \A k \in 0 .. MaxSize - 1 : used[k] \in Nat
  BY <1>12
<1> QED BY <1>4, <1>9, <1>13

\* The sum of the counts is 1 when a single size has a single symbol.
LEMMA SumIsOne ==
  ASSUME NEW N \in Nat, NEW used, NEW c,
         used[0] = 0, \A k \in 1 .. N : used[k] = used[k - 1] + c[k] /\ c[k] \in Nat
  PROVE  used[N] = 1 <=>
           \E k \in 1 .. N : c[k] = 1 /\ \A j \in 1 .. N : j # k => c[j] = 0
<1> DEFINE None(n) == \A j \in 1 .. n : c[j] = 0
           One(n) == \E k \in 1 .. n : c[k] = 1 /\ \A j \in 1 .. n : j # k => c[j] = 0
           T == {n \in 0 .. N : /\ used[n] \in Nat
                                /\ used[n] = 0 <=> None(n)
                                /\ used[n] = 1 <=> One(n)}
<1> HIDE DEF None, One
<1>1. 0 \in T
  BY DEF None, One
<1>2. ASSUME NEW n \in 0 .. N - 1, n \in T PROVE n + 1 \in T
  <2>1. n + 1 \in 1 .. N /\ n + 1 \in 0 .. N /\ (n + 1) - 1 = n /\ n \in Nat
    OBVIOUS
  <2>2. used[n + 1] = used[n] + c[n + 1] /\ c[n + 1] \in Nat
    BY <2>1
  <2>3. used[n] \in Nat /\ (used[n] = 0 <=> None(n)) /\ (used[n] = 1 <=> One(n))
    BY <1>2
  <2>4. None(n + 1) <=> None(n) /\ c[n + 1] = 0
    <3>1. \A j \in 1 .. n + 1 : j \in 1 .. n \/ j = n + 1
      BY <2>1
    <3>2. \A j \in 1 .. n : j \in 1 .. n + 1
      BY <2>1
    <3>3. n + 1 \in 1 .. n + 1
      BY <2>1
    <3> QED BY <3>1, <3>2, <3>3 DEF None
  <2>5. One(n + 1) <=> (One(n) /\ c[n + 1] = 0) \/ (None(n) /\ c[n + 1] = 1)
    <3>1. \A j \in 1 .. n + 1 : j \in 1 .. n \/ j = n + 1
      BY <2>1
    <3>2. \A j \in 1 .. n : j \in 1 .. n + 1 /\ j # n + 1
      BY <2>1
    <3>3. n + 1 \in 1 .. n + 1
      BY <2>1
    <3>4. ASSUME One(n + 1) PROVE (One(n) /\ c[n + 1] = 0) \/ (None(n) /\ c[n + 1] = 1)
      <4>1. PICK k \in 1 .. n + 1 : c[k] = 1 /\ \A j \in 1 .. n + 1 : j # k => c[j] = 0
        BY <3>4 DEF One
      <4>2. CASE k = n + 1
        BY <3>2, <4>1, <4>2 DEF None
      <4>3. CASE k \in 1 .. n
        BY <3>2, <3>3, <4>1, <4>3 DEF One
      <4> QED BY <3>1, <4>2, <4>3
    <3>5. ASSUME One(n), c[n + 1] = 0 PROVE One(n + 1)
      <4>1. PICK k \in 1 .. n : c[k] = 1 /\ \A j \in 1 .. n : j # k => c[j] = 0
        BY <3>5 DEF One
      <4> QED BY <3>1, <3>2, <3>5, <4>1 DEF One
    <3>6. ASSUME None(n), c[n + 1] = 1 PROVE One(n + 1)
      BY <3>1, <3>3, <3>6 DEF One, None
    <3> QED BY <3>4, <3>5, <3>6
  <2>6. used[n + 1] \in Nat
    BY <2>2, <2>3
  <2>7. used[n + 1] = 0 <=> None(n + 1)
    BY <2>2, <2>3, <2>4
  <2>8. used[n + 1] = 1 <=> One(n + 1)
    BY <2>2, <2>3, <2>5
  <2> QED BY <2>1, <2>6, <2>7, <2>8
<1>3. T = 0 .. N
  <2> HIDE DEF T
  <2>1. T \in SUBSET (0 .. N)
    BY DEF T
  <2> QED BY <1>1, <1>2, <2>1, InductionUpTo
<1>4. N \in T
  BY <1>3
<1> QED BY <1>4 DEF One

\* One symbol is used when the counts add up to one.
LEMMA LoneUsed ==
  ASSUME Sized
  PROVE  UsedSyms = 1 <=> Lone
<1> USE WidthsFact DEF Widths
<1> DEFINE N == MaxSize - 1
           c == [k \in 1 .. N |-> Used(k)]
<1>1. PICK used : /\ UsedSyms = used[MaxSize - 1] /\ used[0] = 0
                  /\ \A k \in 0 .. MaxSize - 1 : used[k] \in Nat
                  /\ \A k \in 1 .. MaxSize - 1 : used[k] = used[k - 1] + Used(k)
  BY UsedSymsAre
<1>2. N \in Nat /\ total \in 0 .. total
  BY SizesAre
<1>3. \A k \in 1 .. N : c[k] = Used(k) /\ Used(k) \in Nat
  BY <1>2, Counted
<1> HIDE DEF c
<1>4. UsedSyms = 1 <=> \E k \in 1 .. N : c[k] = 1 /\ \A j \in 1 .. N : j # k => c[j] = 0
  <2>1. used[0] = 0 /\ (\A k \in 1 .. N : used[k] = used[k - 1] + c[k] /\ c[k] \in Nat)
    BY <1>1, <1>3
  <2>2. UsedSyms = used[N]
    BY <1>1
  <2> HIDE DEF N
  <2> QED BY <1>2, <2>1, <2>2, SumIsOne
<1>5. \A s \in UsedSet : s \in Symbols /\ s \in Nat /\ Size(s) \in 1 .. N
  BY UsedSize
<1>6. ASSUME NEW s \in Symbols, NEW t \in Symbols, Size(s) = Size(t), Used(Size(s)) = 1
      PROVE  s = t
  <2>1. s \in Nat /\ t \in Nat
    BY SizesAre
  <2>2. /\ Count(Size(s))[s] \in Nat /\ Count(Size(s))[s] < 1
        /\ Count(Size(s))[t] \in Nat /\ Count(Size(s))[t] < 1
        /\ s < t => Count(Size(s))[s] < Count(Size(s))[t]
        /\ t < s => Count(Size(s))[t] < Count(Size(s))[s]
    BY <1>6, Numbered
  <2> QED BY <2>1, <2>2
<1>7. ASSUME NEW k \in 1 .. N, c[k] = 1, \A j \in 1 .. N : j # k => c[j] = 0
      PROVE  Lone
  <2>1. PICK s \in Symbols : Size(s) = k
    BY <1>3, <1>7, Nth
  <2>2. s \in UsedSet
    BY <1>7, <2>1, SizesAre
  <2>3. ASSUME NEW t \in UsedSet PROVE t = s
    <3>1. Used(Size(t)) # 0
      BY <1>5, Numbered
    <3>2. Size(t) = k
      BY <1>3, <1>5, <1>7, <3>1
    <3> QED BY <1>3, <1>5, <1>6, <1>7, <2>1, <3>2
  <2> QED BY <2>2, <2>3 DEF Lone
<1>8. ASSUME NEW s \in UsedSet, UsedSet = {s}
      PROVE  \E k \in 1 .. N : c[k] = 1 /\ \A j \in 1 .. N : j # k => c[j] = 0
  <2>1. ASSUME NEW j \in 1 .. N, NEW t \in Symbols, Size(t) = j PROVE t = s
    BY <1>8, <2>1, SizesAre
  <2>2. ASSUME NEW j \in 1 .. N, j # Size(s) PROVE c[j] = 0
    <3> SUFFICES ASSUME c[j] # 0 PROVE FALSE
      OBVIOUS
    <3>1. 0 < Used(j) /\ 0 \in Nat
      BY <1>3
    <3>2. PICK t \in Symbols : Size(t) = j
      BY <3>1, Nth
    <3> QED BY <2>1, <2>2, <3>2
  <2>3. c[Size(s)] = 1
    <3>1. Used(Size(s)) \in Nat /\ 0 < Used(Size(s))
      BY <1>3, <1>5, Numbered
    <3>2. ~(1 < Used(Size(s)))
      <4> SUFFICES ASSUME 1 < Used(Size(s)) PROVE FALSE
        OBVIOUS
      <4>1. PICK t \in Symbols : Size(t) = Size(s) /\ Count(Size(s))[t] = 0
        BY <3>1, Nth
      <4>2. PICK u \in Symbols : Size(u) = Size(s) /\ Count(Size(s))[u] = 1
        BY Nth
      <4>3. t = s /\ u = s
        BY <1>5, <2>1, <4>1, <4>2
      <4> QED BY <4>1, <4>2, <4>3
    <3> QED BY <1>3, <1>5, <3>1, <3>2
  <2> QED BY <1>5, <2>2, <2>3
<1> QED BY <1>4, <1>7, <1>8 DEF Lone

\* What is complete passes the test of the total in init, and its codes are apart.
THEOREM CompletePasses ==
  ASSUME Sized, IsComplete
  PROVE  /\ Complete /\ PrefixFree
         /\ \A s \in UsedSet, v \in Nat : Owns(s, v) <=> Reversed(v, MaxSize) \in Interval(s)
<1>1. PICK p \in Nat \ {0} : p = Pow2[MaxSize] /\ Pow2[MaxSize + 1] = 2 * p
  BY TopPower
<1>2. p % (2 * p) = p
  BY <1>1
<1>3. Space(UsedSet) = p
  BY <1>1 DEF IsComplete
<1>4. Complete
  BY <1>1, <1>2, <1>3, CodeSpace DEF Complete
<1>5. ASSUME NEW s \in UsedSet, NEW v \in Nat
      PROVE  Owns(s, v) <=> Reversed(v, MaxSize) \in Interval(s)
  <2>1. Start(s) + Room(s) <= Pow2[MaxSize]
    BY <1>1, <1>3, IntervalInside
  <2> QED BY <2>1, OwnsItsInterval
<1>6. ASSUME NEW s \in UsedSet, NEW t \in UsedSet, NEW v \in Nat, Owns(s, v), Owns(t, v), s # t
      PROVE  FALSE
  <2>1. PICK y \in Nat : y = Reversed(v, MaxSize)
    BY Reversals, WidthsFact DEF Widths
  <2>2. y \in Interval(s) /\ y \in Interval(t)
    BY <1>5, <1>6, <2>1
  <2>3. Start(s) + Room(s) <= Start(t) \/ Start(t) + Room(t) <= Start(s)
    BY <1>6, IntervalsApart
  <2>4. Start(s) \in Nat /\ Start(t) \in Nat /\ Room(s) \in Nat /\ Room(t) \in Nat
    BY IntervalInside, UsedSize
  <2> QED BY <2>2, <2>3, <2>4 DEF Interval, Start
<1> QED BY <1>4, <1>5, <1>6 DEF PrefixFree

\* A lone code passes the test.
LEMMA LonePasses ==
  ASSUME Sized, Lone
  PROVE  Complete /\ PrefixFree
BY LoneUsed DEF Complete, PrefixFree, Lone

\* What passes the test of init only in a word that wrapped has three codes that the same
\* bits start with, so two that are not of symbol 0.
THEOREM Overfull ==
  ASSUME Sized, Complete, ~IsComplete, ~Lone
  PROVE  \E s, t \in UsedSet : \E v \in Nat :
           s # 0 /\ t # 0 /\ s # t /\ Owns(s, v) /\ Owns(t, v)
<1>1. PICK p \in Nat \ {0} : p = Pow2[MaxSize] /\ Pow2[MaxSize + 1] = 2 * p
  BY TopPower
<1>2. PICK n \in Nat : n = Space(UsedSet)
  BY CodeSpace
<1>3. n % (2 * p) = p /\ n # p
  BY <1>1, <1>2, CodeSpace, LoneUsed DEF Complete, IsComplete
<1>4. 3 * p <= n
  <2>1. PICK d \in Nat \ {0} : d = 2 * p
    OBVIOUS
  <2>2. PICK h \in Nat : h = n \div d
    BY Remainder
  <2>3. n = d * h + p
    <3>1. n % d = p
      BY <1>3, <2>1
    <3> QED BY <2>2, <3>1, Remainder
  <2>4. h # 0
    <3>1. d * 0 = 0
      OBVIOUS
    <3> QED BY <1>3, <2>3, <3>1
  <2>5. d * 1 <= d * h /\ d * h \in Nat
    BY <2>4, Products
  <2> QED BY <2>1, <2>3, <2>5
<1>5. PICK v \in Nat : v = Reversed(0, MaxSize)
  BY Reversals, WidthsFact DEF Widths
<1>6. Reversed(v, MaxSize) = 0
  <2>1. Reversed(v, MaxSize) = 0 % p
    BY <1>1, <1>5, Involution, WidthsFact DEF Widths
  <2> QED BY <2>1
<1>7. ASSUME NEW j \in 0 .. 2
      PROVE  \E s \in UsedSet : j * p \in Interval(s) /\ Owns(s, v)
  <2>1. j * p \in Nat /\ j * p < n
    BY <1>4
  <2>2. PICK s \in UsedSet : j * p \in Interval(s)
    BY <1>2, <2>1, Covered
  <2>3. PICK q \in Nat :
          /\ Start(s) = q * Room(s)
          /\ Owns(s, v) <=> Reversed(v, MaxSize) \div Room(s) = q % Pow2[Size(s)]
    BY Owners
  <2>4. PICK r \in Nat \ {0} : r = Room(s)
    BY UsedSize
  <2>5. PICK d \in Nat \ {0} : d = Pow2[Size(s)]
    BY UsedSize
  <2>6. p = d * r
    BY <1>1, <2>4, <2>5, UsedSize
  <2>7. r * q <= j * p /\ j * p < r * q + r
    <3>1. q * r = r * q /\ r * q \in Nat
      OBVIOUS
    <3>2. Interval(s) = r * q .. r * q + r - 1
      BY <2>3, <2>4, <3>1 DEF Interval, Start
    <3> QED BY <2>1, <2>2, <3>1, <3>2
  <2>8. PICK e \in Nat : e = j * d
    OBVIOUS
  <2>9. j * p = r * e
    BY <2>6, <2>8
  <2>10. q = e
    <3>1. CASE q < e
      <4>1. r * (q + 1) <= r * e
        BY <3>1, Products
      <4>2. r * (q + 1) = r * q + r
        OBVIOUS
      <4> QED BY <2>7, <2>9, <4>1, <4>2
    <3>2. CASE e < q
      <4>1. r * (e + 1) <= r * q
        BY <3>2, Products
      <4>2. r * (e + 1) = r * e + r /\ r * e \in Nat
        OBVIOUS
      <4> QED BY <2>7, <2>9, <4>1, <4>2
    <3> QED BY <3>1, <3>2
  <2>11. q % d = 0
    <3>1. e = d * j + 0
      BY <2>8
    <3> QED BY <2>10, <3>1, QuotientIs
  <2>12. 0 \div r = 0
    OBVIOUS
  <2> QED BY <1>6, <2>2, <2>3, <2>4, <2>5, <2>11, <2>12
<1>8. PICK a \in UsedSet : 0 * p \in Interval(a) /\ Owns(a, v)
  BY <1>7
<1>9. PICK b \in UsedSet : 1 * p \in Interval(b) /\ Owns(b, v)
  BY <1>7
<1>10. PICK c \in UsedSet : 2 * p \in Interval(c) /\ Owns(c, v)
  BY <1>7
<1>11. ASSUME NEW s \in UsedSet, NEW i \in 0 .. 2, NEW j \in 0 .. 2, i < j,
              i * p \in Interval(s), j * p \in Interval(s)
       PROVE  FALSE
  <2>1. PICK r \in Nat \ {0} : r = Room(s)
    BY UsedSize
  <2>2. PICK d \in Nat \ {0} : d = Pow2[Size(s)]
    BY UsedSize
  <2>3. p = d * r
    BY <1>1, <2>1, <2>2, UsedSize
  <2>4. r <= p
    BY <2>3
  <2>5. PICK x \in Nat : x = Start(s)
    BY IntervalInside
  <2>6. x <= i * p /\ j * p < x + r
    BY <1>11, <2>1, <2>5 DEF Interval, Start
  <2>7. i * p + p <= j * p
    BY <1>11
  <2>8. i * p \in Nat /\ j * p \in Nat
    OBVIOUS
  <2> QED BY <2>4, <2>6, <2>7, <2>8
<1>12. a # b /\ a # c /\ b # c
  BY <1>8, <1>9, <1>10, <1>11
<1> QED BY <1>8, <1>9, <1>10, <1>12

=============================================================================
