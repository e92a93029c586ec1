--------------------------- MODULE HuffmanProofs ---------------------------
(***************************************************************************)
(* Proofs about HuffmanCode for every lookup width, limit on the sizes,    *)
(* alphabet and sizes that a stream can name. The tables are an encoding   *)
(* of a map from paths, the first bits of what is decoded, to what is at   *)
(* their end: a node, a symbol or nothing. The invariant (CodeInv) says    *)
(* that such a map exists, that the lookup and the tree hold it, and that  *)
(* it has the paths of the codes that are inserted and of no others. It    *)
(* gives that a table that is built decodes the canonical code, and that   *)
(* an insertion that finds its place taken is of a code that is no prefix  *)
(* code.                                                                   *)
(***************************************************************************)
EXTENDS CanonicalCodeProofs

-----------------------------------------------------------------------------
(***************************************************************************)
(* Paths: the first bits of what is decoded.                               *)
(***************************************************************************)

\* The first k bits of y and of z are the same.
Agree(k, y, z) == y % Pow2[k] = z % Pow2[k]

\* One bit more is the same, or it is not.
LEMMA AgreeMore ==
  ASSUME NEW k \in 0 .. MaxSize, NEW y \in Nat, NEW z \in Nat
  PROVE  Agree(k + 1, y, z) <=> Agree(k, y, z) /\ Bit(y, k) = Bit(z, k)
<1> USE WidthsFact DEF Widths
<1>1. PICK d \in Nat \ {0} : d = Pow2[k]
  BY Power
<1>2. PICK a \in Nat, b \in Nat : a = y % d /\ b = z % d /\ a < d /\ b < d
  BY Remainder
<1>3. Bit(y, k) \in {0, 1} /\ Bit(z, k) \in {0, 1}
  BY Bits
<1>4. y % Pow2[k + 1] = a + d * Bit(y, k) /\ z % Pow2[k + 1] = b + d * Bit(z, k)
  BY <1>1, <1>2, LowBits
<1>5. d * 0 = 0 /\ d * 1 = d
  OBVIOUS
<1>6. a + d * Bit(y, k) = b + d * Bit(z, k) <=> a = b /\ Bit(y, k) = Bit(z, k)
  <2>1. a < d /\ b < d
    BY <1>2
  <2>2. PICK p \in {0, 1}, q \in {0, 1} : p = Bit(y, k) /\ q = Bit(z, k)
    BY <1>3
  <2>3. a + d * p = b + d * q <=> a = b /\ p = q
    <3>1. CASE p = 0 /\ q = 0
      BY <1>5, <2>1, <3>1
    <3>2. CASE p = 0 /\ q = 1
      BY <1>5, <2>1, <3>2
    <3>3. CASE p = 1 /\ q = 0
      BY <1>5, <2>1, <3>3
    <3>4. CASE p = 1 /\ q = 1
      BY <1>5, <2>1, <3>4
    <3> QED BY <3>1, <3>2, <3>3, <3>4
  <2> QED BY <2>2, <2>3
<1>7. Agree(k, y, z) <=> a = b
  BY <1>1, <1>2 DEF Agree
<1>8. Agree(k + 1, y, z) <=> a + d * Bit(y, k) = b + d * Bit(z, k)
  <2>1. Agree(k + 1, y, z) <=> y % Pow2[k + 1] = z % Pow2[k + 1]
    BY DEF Agree
  <2> HIDE DEF Agree
  <2> QED BY <1>4, <2>1, Zenon
<1> QED BY <1>6, <1>7, <1>8

\* Bits that agree agree on fewer bits.
LEMMA AgreeLess ==
  ASSUME NEW k \in 0 .. MaxSize, NEW j \in 0 .. k, NEW y \in Nat, NEW z \in Nat, Agree(k, y, z)
  PROVE  Agree(j, y, z)
<1> USE WidthsFact DEF Widths
<1> DEFINE T == {n \in 0 .. k : Agree(k - n, y, z)}
<1>1. T \in SUBSET (0 .. k) /\ 0 \in T
  OBVIOUS
<1>2. ASSUME NEW n \in 0 .. k - 1, n \in T
      PROVE  n + 1 \in T
  <2>1. k - (n + 1) \in 0 .. MaxSize /\ (k - (n + 1)) + 1 = k - n /\ n + 1 \in 0 .. k
    OBVIOUS
  <2>2. Agree((k - (n + 1)) + 1, y, z)
    BY <1>2, <2>1
  <2>3. Agree(k - (n + 1), y, z)
    BY <2>1, <2>2, AgreeMore
  <2> QED BY <2>1, <2>3
<1>3. T = 0 .. k
  <2> HIDE DEF T
  <2>1. k \in Nat
    OBVIOUS
  <2> QED BY <1>1, <1>2, <2>1, InductionUpTo
<1>4. k - j \in 0 .. k /\ k - (k - j) = j
  OBVIOUS
<1> QED BY <1>3, <1>4

\* What is at the end of a path.
At(at, k, z) == at[<<k, z % Pow2[k]>>]

\* The paths that end in the lookup or the tree, and the slots of the lookup.
Paths == (FastBits .. MaxSize) \X Nat
Slots == 0 .. Pow2[FastBits] - 1

\* The types of an end.
LEMMA AtTypes ==
  ASSUME NEW at \in [Paths -> Int], NEW k \in FastBits .. MaxSize, NEW z \in Nat
  PROVE  k \in 0 .. MaxSize /\ k \in Nat /\ At(at, k, z) \in Int
<1> USE WidthsFact DEF Widths
<1>1. k \in 0 .. MaxSize
  OBVIOUS
<1>2. z % Pow2[k] \in Nat
  BY <1>1, Power, Remainder
<1> QED BY <1>1, <1>2 DEF At, Paths

\* Paths of the same bits have the same end.
LEMMA AtSame ==
  ASSUME NEW at, NEW k, NEW y, NEW z, Agree(k, y, z)
  PROVE  At(at, k, y) = At(at, k, z)
BY DEF At, Agree

\* One path is given the end n.
Puts(new, at, k, y, n) ==
  \A j \in FastBits .. MaxSize, z \in Nat :
    At(new, j, z) = IF j = k /\ Agree(k, y, z) THEN n ELSE At(at, j, z)

\* A path is given another end.
LEMMA Changed ==
  ASSUME NEW at \in [Paths -> Int], NEW k \in FastBits .. MaxSize, NEW y \in Nat, NEW n \in Int
  PROVE  \E new \in [Paths -> Int] : Puts(new, at, k, y, n)
<1> USE WidthsFact DEF Widths
<1> DEFINE new == [at EXCEPT ![<<k, y % Pow2[k]>>] = n]
<1>1. new \in [Paths -> Int]
  OBVIOUS
<1>2. ASSUME NEW j \in FastBits .. MaxSize, NEW z \in Nat
      PROVE  At(new, j, z) = IF j = k /\ Agree(k, y, z) THEN n ELSE At(at, j, z)
  <2>1. z % Pow2[j] \in Nat /\ y % Pow2[k] \in Nat
    BY Power, Remainder
  <2>2. <<j, z % Pow2[j]>> \in Paths
    BY <2>1 DEF Paths
  <2> QED BY <2>2 DEF At, Agree
<1> HIDE DEF new
<1>3. Puts(new, at, k, y, n)
  BY <1>2 DEF Puts
<1> QED BY <1>1, <1>3

\* What is left of fewer bits agrees with all of them.
LEMMA LowRest ==
  ASSUME NEW k \in 0 .. MaxSize, NEW i \in 0 .. k, NEW z \in Nat
  PROVE  Agree(i, z % Pow2[k], z)
<1> USE WidthsFact DEF Widths
<1>1. PICK d \in Nat \ {0} : d = Pow2[k]
  BY Power
<1>2. (z % d) % d = z % d /\ z % d \in Nat
  BY Remainder, Division
<1>3. Agree(k, z % Pow2[k], z) /\ z % Pow2[k] \in Nat
  BY <1>1, <1>2 DEF Agree
<1> QED BY <1>3, AgreeLess

\* All the paths of a short code are given another end.
LEMMA Filled ==
  ASSUME NEW at \in [Paths -> Int], NEW i \in 0 .. FastBits, NEW y \in Nat, NEW n \in Int
  PROVE  \E new \in [Paths -> Int] :
           \A j \in FastBits .. MaxSize, z \in Nat :
             At(new, j, z) = IF j = FastBits /\ Agree(i, y, z) THEN n ELSE At(at, j, z)
<1> USE WidthsFact DEF Widths
<1> DEFINE new == [x \in Paths |-> IF x[1] = FastBits /\ Agree(i, y, x[2]) THEN n ELSE at[x]]
<1>1. new \in [Paths -> Int]
  OBVIOUS
<1>2. ASSUME NEW j \in FastBits .. MaxSize, NEW z \in Nat
      PROVE  At(new, j, z) = IF j = FastBits /\ Agree(i, y, z) THEN n ELSE At(at, j, z)
  <2>1. z % Pow2[j] \in Nat
    BY Power, Remainder
  <2>2. <<j, z % Pow2[j]>> \in Paths
    BY <2>1 DEF Paths
  <2>3. j = FastBits => (Agree(i, y, z % Pow2[j]) <=> Agree(i, y, z))
    <3> SUFFICES ASSUME j = FastBits
                 PROVE  Agree(i, y, z % Pow2[j]) <=> Agree(i, y, z)
      OBVIOUS
    <3>1. Agree(i, z % Pow2[j], z)
      BY LowRest
    <3> QED BY <3>1 DEF Agree
  <2> QED BY <2>2, <2>3 DEF At
<1> HIDE DEF new
<1> QED BY <1>1, <1>2

-----------------------------------------------------------------------------
(***************************************************************************)
(* The tables while they are built: `at` says what is at the end of each   *)
(* path, a node, a symbol or nothing. The symbols below n are in, and      *)
(* symbol n is in down to its node at depth m.                             *)
(***************************************************************************)

\* A cell of the tree; those past its end are empty.
CellOf(cells, i) == IF i <= Len(cells) THEN cells[i] ELSE 0

\* The symbols that are in, and the paths of their nodes.
Done(s, n) == s \in UsedSet /\ s < n
Passes(s, k, n, m) ==
  s \in UsedSet /\ k \in FastBits .. Size(s) - 1 /\ (s < n \/ (s = n /\ k <= m))

\* the tables hold the tree: the lookup its first paths, the cells of a node its branches
Held(at, slots, cells) ==
  /\ \A z \in Nat : At(at, FastBits, z) = slots[z % Pow2[FastBits]]
  /\ \A k \in FastBits .. MaxSize - 1, z \in Nat :
       At(at, k, z) < 0 => At(at, k + 1, z) = CellOf(cells, Bit(z, k) - At(at, k, z))

\* nodes have cells of their own, and those of the nodes to come are empty
Apart(at, cells, next) ==
  /\ next \in Int /\ next < 0 /\ next % 2 = 1
  /\ \A k \in FastBits .. MaxSize, z \in Nat :
       At(at, k, z) < 0 => At(at, k, z) % 2 = 1 /\ next < At(at, k, z)
  /\ \A j, k \in FastBits .. MaxSize, y, z \in Nat :
       At(at, k, z) < 0 /\ At(at, j, y) = At(at, k, z) => j = k /\ Agree(k, y, z)
  /\ \A i \in Nat : i >= -next => CellOf(cells, i) = 0

\* what is at the end of a path was put there by a symbol
Owned(at, n, m) ==
  /\ \A k \in FastBits .. MaxSize, z \in Nat :
       At(at, k, z) < 0 => \E s \in UsedSet : Passes(s, k, n, m) /\ Agree(k, Key(s), z)
  /\ \A z \in Nat :
       At(at, FastBits, z) > 0 =>
         \E s \in UsedSet : /\ Done(s, n) /\ Size(s) <= FastBits /\ Owns(s, z)
                            /\ At(at, FastBits, z) = Packed(Size(s), s)
  /\ \A k \in FastBits + 1 .. MaxSize, z \in Nat :
       At(at, k, z) > 0 =>
         \E s \in UsedSet : Done(s, n) /\ Size(s) = k /\ Owns(s, z) /\ At(at, k, z) = s

\* a symbol that is in is found; where symbol 0 is, there seems to be nothing
Found(at, cells, n, m) ==
  /\ \A s \in UsedSet, k \in FastBits .. MaxSize : Passes(s, k, n, m) => At(at, k, Key(s)) < 0
  /\ \A s \in UsedSet, z \in Nat :
       Done(s, n) /\ Size(s) <= FastBits /\ Owns(s, z) =>
         At(at, FastBits, z) = Packed(Size(s), s)
  /\ \A s \in UsedSet :
       Done(s, n) /\ Size(s) > FastBits =>
         /\ s # 0 => At(at, Size(s), Key(s)) = s
         /\ Bit(Key(s), Size(s) - 1) - At(at, Size(s) - 1, Key(s)) <= Len(cells)

\* All of it: the tables hold the tree of the symbols that are in.
Shape(at, slots, cells, next, n, m) ==
  /\ slots \in [Slots -> Int] /\ cells \in Seq(Int)
  /\ Held(at, slots, cells) /\ Apart(at, cells, next)
  /\ Owned(at, n, m) /\ Found(at, cells, n, m)

\* What a symbol owns begins with its code.
LEMMA OwnsAgree ==
  ASSUME Sized, NEW s \in UsedSet, NEW z \in Nat
  PROVE  /\ Owns(s, z) <=> Agree(Size(s), Key(s), z)
         /\ Owns(s, Key(s)) /\ Key(s) \in Nat
<1>1. Key(s) \in Nat /\ Key(s) < Pow2[Size(s)] /\ Pow2[Size(s)] \in Nat \ {0}
  BY KeyFits, UsedSize
<1>2. Key(s) % Pow2[Size(s)] = Key(s)
  <2>1. PICK d \in Nat \ {0}, c \in Nat : d = Pow2[Size(s)] /\ c = Key(s) /\ c < d
    BY <1>1
  <2>2. c = d * 0 + c
    OBVIOUS
  <2>3. c % d = c
    BY <2>1, <2>2, QuotientIs
  <2> QED BY <2>1, <2>3
<1> QED BY <1>1, <1>2 DEF Owns, Agree

\* Two symbols at the end of one path of at most their sizes own bits in common.
LEMMA Common ==
  ASSUME Sized, NEW s \in UsedSet, NEW t \in UsedSet, Size(s) <= Size(t),
         NEW z \in Nat, Owns(s, z), NEW k \in Size(s) .. MaxSize, Agree(k, Key(t), z)
  PROVE  Owns(s, Key(t)) /\ Owns(t, Key(t))
<1> USE WidthsFact DEF Widths
<1>1. Size(s) \in 0 .. k /\ k \in 0 .. MaxSize
  BY UsedSize
<1>2. Key(t) \in Nat /\ Owns(t, Key(t))
  BY OwnsAgree
<1>3. Agree(Size(s), Key(t), z)
  BY <1>1, <1>2, AgreeLess
<1>4. Agree(Size(s), Key(s), z) /\ Key(s) \in Nat
  BY OwnsAgree
<1>5. Agree(Size(s), Key(s), Key(t))
  BY <1>3, <1>4 DEF Agree
<1> QED BY <1>2, <1>5, OwnsAgree

\* The parent of what there is is a node.
LEMMA Parent ==
  ASSUME Sized, NEW at, NEW cells, NEW n \in Nat, NEW m \in Nat,
         Owned(at, n, m), Found(at, cells, n, m), at \in [Paths -> Int],
         NEW k \in FastBits .. MaxSize - 1, NEW z \in Nat, At(at, k + 1, z) # 0
  PROVE  At(at, k, z) < 0
<1> USE WidthsFact DEF Widths
<1>1. /\ k \in FastBits .. MaxSize /\ k + 1 \in FastBits + 1 .. MaxSize
      /\ k + 1 \in FastBits .. MaxSize
      /\ k \in 0 .. MaxSize /\ At(at, k + 1, z) \in Int
  BY AtTypes
<1>2. PICK s \in UsedSet : Passes(s, k, n, m) /\ Agree(k + 1, Key(s), z)
  <2>1. CASE At(at, k + 1, z) < 0
    <3>1. PICK s \in UsedSet : Passes(s, k + 1, n, m) /\ Agree(k + 1, Key(s), z)
      BY <1>1, <2>1 DEF Owned
    <3>2. Size(s) \in 1 .. MaxSize - 1
      BY UsedSize
    <3>3. Passes(s, k, n, m)
      BY <3>1, <3>2 DEF Passes
    <3> QED BY <3>1, <3>3
  <2>2. CASE At(at, k + 1, z) > 0
    <3>1. PICK s \in UsedSet : Done(s, n) /\ Size(s) = k + 1 /\ Owns(s, z)
      BY <1>1, <2>2 DEF Owned
    <3>2. Passes(s, k, n, m)
      BY <3>1 DEF Passes, Done
    <3> QED BY <3>1, <3>2, OwnsAgree
  <2> QED BY <1>1, <2>1, <2>2
<1>3. Key(s) \in Nat
  BY OwnsAgree
<1>4. Agree(k, Key(s), z)
  BY <1>1, <1>2, <1>3, AgreeMore
<1>5. At(at, k, Key(s)) < 0
  BY <1>1, <1>2 DEF Found
<1> QED BY <1>4, <1>5, AtSame

\* A path that ended in nothing gets an end: no other end changes.
LEMMA PutKeeps ==
  ASSUME NEW at, NEW new, NEW k, NEW y, NEW v, Puts(new, at, k, y, v), At(at, k, y) = 0,
         NEW j \in FastBits .. MaxSize, NEW z \in Nat, At(at, j, z) # 0
  PROVE  At(new, j, z) = At(at, j, z) /\ ~(j = k /\ Agree(k, y, z))
<1>1. ~(j = k /\ Agree(k, y, z))
  BY AtSame
<1> QED BY <1>1 DEF Puts

(***************************************************************************)
(* A symbol goes down: a node at depth k of its path, which is the next.   *)
(***************************************************************************)

\* The node that symbol s reaches at depth k after depth m.
Onward(s, k, m) ==
  /\ s \in UsedSet /\ k \in FastBits .. Size(s) - 1
  /\ IF k = FastBits THEN m = 0 ELSE m = k - 1

\* The types that the steps of a walk need.
LEMMA OnwardTypes ==
  ASSUME Sized, NEW s, NEW k, NEW m, Onward(s, k, m)
  PROVE  /\ s \in UsedSet /\ s \in Nat /\ k \in FastBits .. MaxSize - 1 /\ k \in FastBits .. MaxSize
         /\ k \in Nat /\ m \in Nat /\ m <= k /\ Key(s) \in Nat
         /\ Passes(s, k, s, k)
         /\ \A t, j : Passes(t, j, s, k) <=> Passes(t, j, s, m) \/ (t = s /\ j = k)
<1> USE WidthsFact DEF Widths
<1>1. s \in UsedSet /\ Size(s) \in 1 .. MaxSize - 1 /\ s \in Nat /\ Key(s) \in Nat
  BY UsedSize, OwnsAgree DEF Onward
<1>2. k \in FastBits .. MaxSize - 1 /\ k \in FastBits .. MaxSize /\ k \in Nat /\ m \in Nat /\ m <= k
  BY <1>1 DEF Onward
<1>3. Passes(s, k, s, k)
  BY <1>1, <1>2 DEF Onward, Passes
<1>4. ASSUME NEW t, NEW j
      PROVE  Passes(t, j, s, k) <=> Passes(t, j, s, m) \/ (t = s /\ j = k)
  BY <1>1, <1>2 DEF Onward, Passes
<1> QED BY <1>1, <1>2, <1>3, <1>4

\* A node that is there is walked through.
LEMMA OldNode ==
  ASSUME Sized, NEW at, NEW cells, NEW new, NEW s, NEW k, NEW m, Onward(s, k, m),
         Owned(at, s, m), Found(at, cells, s, m), At(at, k, Key(s)) < 0,
         Len(cells) \in Nat, Len(new) \in Nat, Len(cells) <= Len(new),
         at \in [Paths -> Int]
  PROVE  Owned(at, s, k) /\ Found(at, new, s, k)
<1> USE WidthsFact DEF Widths
<1>1. /\ s \in UsedSet /\ k \in FastBits .. MaxSize /\ Key(s) \in Nat
      /\ \A t, j : Passes(t, j, s, k) <=> Passes(t, j, s, m) \/ (t = s /\ j = k)
  BY OnwardTypes
<1>2. Owned(at, s, k)
  BY <1>1 DEF Owned
<1>3. ASSUME NEW t \in UsedSet, NEW j \in FastBits .. MaxSize, Passes(t, j, s, k)
      PROVE  At(at, j, Key(t)) < 0
  BY <1>1, <1>3 DEF Found
<1>4. ASSUME NEW t \in UsedSet, Done(t, s), Size(t) > FastBits
      PROVE  /\ t # 0 => At(at, Size(t), Key(t)) = t
             /\ Bit(Key(t), Size(t) - 1) - At(at, Size(t) - 1, Key(t)) <= Len(new)
  <2>1. Size(t) - 1 \in 0 .. MaxSize /\ Size(t) - 1 \in FastBits .. MaxSize /\ Key(t) \in Nat
    BY <1>4, UsedSize, OwnsAgree
  <2>2. Bit(Key(t), Size(t) - 1) \in {0, 1} /\ At(at, Size(t) - 1, Key(t)) \in Int
    BY <2>1, Bits, AtTypes
  <2>3. /\ t # 0 => At(at, Size(t), Key(t)) = t
        /\ Bit(Key(t), Size(t) - 1) - At(at, Size(t) - 1, Key(t)) <= Len(cells)
    BY <1>4 DEF Found
  <2> QED BY <2>2, <2>3
<1>5. ASSUME NEW t \in UsedSet, NEW z \in Nat, Done(t, s), Size(t) <= FastBits, Owns(t, z)
      PROVE  At(at, FastBits, z) = Packed(Size(t), t)
  BY <1>5 DEF Found
<1>6. Found(at, new, s, k)
  BY <1>3, <1>4, <1>5 DEF Found
<1> QED BY <1>2, <1>6

\* A node is new.
LEMMA NewNode ==
  ASSUME Sized, NEW at, NEW cells, NEW new, NEW next, NEW s, NEW k, NEW m, Onward(s, k, m),
         Owned(at, s, m), Found(at, cells, s, m), At(at, k, Key(s)) = 0,
         Len(cells) \in Nat, Len(new) \in Nat, Len(cells) <= Len(new),
         at \in [Paths -> Int], next \in Int, next < 0,
         NEW to \in [Paths -> Int], Puts(to, at, k, Key(s), next)
  PROVE  Owned(to, s, k) /\ Found(to, new, s, k)
<1> USE WidthsFact DEF Widths
<1>1. /\ s \in UsedSet /\ k \in FastBits .. MaxSize /\ Key(s) \in Nat /\ Passes(s, k, s, k)
      /\ \A t, j : Passes(t, j, s, k) <=> Passes(t, j, s, m) \/ (t = s /\ j = k)
  BY OnwardTypes
<1>2. \A j \in FastBits .. MaxSize, z \in Nat :
        At(to, j, z) = IF j = k /\ Agree(k, Key(s), z) THEN next ELSE At(at, j, z)
  BY DEF Puts
<1>3. \A j \in FastBits .. MaxSize, z \in Nat : At(at, j, z) # 0 => At(to, j, z) = At(at, j, z)
  BY PutKeeps
<1>4. ASSUME NEW j \in FastBits .. MaxSize, NEW z \in Nat, At(to, j, z) < 0
      PROVE  \E t \in UsedSet : Passes(t, j, s, k) /\ Agree(j, Key(t), z)
  <2>1. CASE j = k /\ Agree(k, Key(s), z)
    BY <1>1, <2>1
  <2>2. CASE ~(j = k /\ Agree(k, Key(s), z))
    <3>1. At(at, j, z) < 0
      BY <1>2, <1>4, <2>2
    <3>2. PICK t \in UsedSet : Passes(t, j, s, m) /\ Agree(j, Key(t), z)
      BY <3>1 DEF Owned
    <3> QED BY <1>1, <3>2
  <2> QED BY <2>1, <2>2
<1>5. ASSUME NEW j \in FastBits .. MaxSize, NEW z \in Nat, At(to, j, z) > 0
      PROVE  At(at, j, z) > 0 /\ At(to, j, z) = At(at, j, z)
  BY <1>2, <1>5
<1>6. Owned(to, s, k)
  <2>1. ASSUME NEW z \in Nat, At(to, FastBits, z) > 0
        PROVE  \E t \in UsedSet : /\ Done(t, s) /\ Size(t) <= FastBits /\ Owns(t, z)
                                  /\ At(to, FastBits, z) = Packed(Size(t), t)
    <3>1. At(at, FastBits, z) > 0 /\ At(to, FastBits, z) = At(at, FastBits, z)
      BY <1>5, <2>1
    <3>2. PICK t \in UsedSet : /\ Done(t, s) /\ Size(t) <= FastBits /\ Owns(t, z)
                               /\ At(at, FastBits, z) = Packed(Size(t), t)
      BY <3>1 DEF Owned
    <3> QED BY <3>1, <3>2
  <2>2. ASSUME NEW j \in FastBits + 1 .. MaxSize, NEW z \in Nat, At(to, j, z) > 0
        PROVE  \E t \in UsedSet : Done(t, s) /\ Size(t) = j /\ Owns(t, z) /\ At(to, j, z) = t
    <3>1. At(at, j, z) > 0 /\ At(to, j, z) = At(at, j, z)
      BY <1>5, <2>2
    <3>2. PICK t \in UsedSet : Done(t, s) /\ Size(t) = j /\ Owns(t, z) /\ At(at, j, z) = t
      BY <3>1 DEF Owned
    <3> QED BY <3>1, <3>2
  <2> QED BY <1>4, <2>1, <2>2 DEF Owned
<1>7. ASSUME NEW t \in UsedSet, NEW j \in FastBits .. MaxSize, Passes(t, j, s, k)
      PROVE  At(to, j, Key(t)) < 0
  <2>1. CASE t = s /\ j = k
    BY <1>1, <1>2, <2>1 DEF Agree
  <2>2. CASE Passes(t, j, s, m)
    <3>1. At(at, j, Key(t)) < 0 /\ Key(t) \in Nat
      BY <2>2, OwnsAgree DEF Found
    <3> QED BY <1>3, <3>1
  <2> QED BY <1>1, <1>7, <2>1, <2>2
<1>8. ASSUME NEW t \in UsedSet, NEW z \in Nat, Done(t, s), Size(t) <= FastBits, Owns(t, z)
      PROVE  At(to, FastBits, z) = Packed(Size(t), t)
  <2>1. At(at, FastBits, z) = Packed(Size(t), t)
    BY <1>8 DEF Found
  <2>2. Packed(Size(t), t) # 0
    <3>1. PackedBase \in Nat /\ PackedBase > 0
      BY DEF PackedBase
    <3>2. Size(t) \in Nat /\ Size(t) >= 1 /\ t \in Nat
      BY UsedSize
    <3>3. Size(t) * PackedBase \in Nat /\ Size(t) * PackedBase > 0
      BY <3>1, <3>2
    <3> QED BY <3>2, <3>3 DEF Packed
  <2> QED BY <1>3, <2>1, <2>2
<1>9. ASSUME NEW t \in UsedSet, Done(t, s), Size(t) > FastBits
      PROVE  /\ t # 0 => At(to, Size(t), Key(t)) = t
             /\ Bit(Key(t), Size(t) - 1) - At(to, Size(t) - 1, Key(t)) <= Len(new)
  <2>1. Size(t) - 1 \in 0 .. MaxSize /\ Size(t) - 1 \in FastBits .. MaxSize /\ Key(t) \in Nat
        /\ Size(t) \in FastBits .. MaxSize
    BY <1>9, UsedSize, OwnsAgree
  <2>2. Bit(Key(t), Size(t) - 1) \in {0, 1} /\ At(at, Size(t) - 1, Key(t)) \in Int
    BY <2>1, Bits, AtTypes
  <2>3. /\ t # 0 => At(at, Size(t), Key(t)) = t
        /\ Bit(Key(t), Size(t) - 1) - At(at, Size(t) - 1, Key(t)) <= Len(cells)
    BY <1>9 DEF Found
  <2>4. Passes(t, Size(t) - 1, s, m)
    BY <1>9, <2>1 DEF Passes, Done
  <2>5. At(at, Size(t) - 1, Key(t)) < 0
    BY <2>1, <2>4 DEF Found
  <2>6. At(to, Size(t) - 1, Key(t)) = At(at, Size(t) - 1, Key(t))
    BY <1>3, <2>1, <2>5
  <2>7. t # 0 => At(to, Size(t), Key(t)) = t
    BY <1>3, <2>1, <2>3
  <2> QED BY <2>2, <2>3, <2>6, <2>7
<1>10. Found(to, new, s, k)
  BY <1>7, <1>8, <1>9 DEF Found
<1> QED BY <1>6, <1>10

\* The new node has cells of its own, and it is the last.
LEMMA NewApart ==
  ASSUME Sized, NEW at, NEW cells, NEW new, NEW next, NEW k \in FastBits .. MaxSize, NEW y \in Nat,
         Apart(at, cells, next), At(at, k, y) = 0, at \in [Paths -> Int],
         NEW to \in [Paths -> Int], Puts(to, at, k, y, next),
         \A i \in Nat : i >= -next => CellOf(new, i) = 0
  PROVE  Apart(to, new, next - 2)
<1> USE WidthsFact DEF Widths
<1>1. next \in Int /\ next < 0 /\ next % 2 = 1
  BY DEF Apart
<1>2. \A j \in FastBits .. MaxSize, z \in Nat :
        At(to, j, z) = IF j = k /\ Agree(k, y, z) THEN next ELSE At(at, j, z)
  BY DEF Puts
<1>3. ASSUME NEW j \in FastBits .. MaxSize, NEW z \in Nat, At(to, j, z) < 0
      PROVE  /\ At(to, j, z) \in Int /\ At(to, j, z) % 2 = 1 /\ next <= At(to, j, z)
             /\ At(to, j, z) = next <=> j = k /\ Agree(k, y, z)
  <2>1. CASE j = k /\ Agree(k, y, z)
    BY <1>1, <1>2, <2>1
  <2>2. CASE ~(j = k /\ Agree(k, y, z))
    <3>1. At(to, j, z) = At(at, j, z) /\ At(at, j, z) \in Int
      BY <1>2, <2>2, AtTypes
    <3>2. At(at, j, z) % 2 = 1 /\ next < At(at, j, z)
      BY <1>3, <3>1 DEF Apart
    <3> QED BY <1>1, <2>2, <3>1, <3>2
  <2> QED BY <2>1, <2>2
<1>4. ASSUME NEW j \in FastBits .. MaxSize, NEW h \in FastBits .. MaxSize,
             NEW z \in Nat, NEW x \in Nat,
             At(to, h, z) < 0, At(to, j, x) = At(to, h, z)
      PROVE  j = h /\ Agree(h, x, z)
  <2>1. CASE h = k /\ Agree(k, y, z)
    <3>1. At(to, h, z) = next
      BY <1>2, <2>1
    <3>2. j = k /\ Agree(k, y, x)
      BY <1>3, <1>4, <3>1
    <3> QED BY <2>1, <3>2 DEF Agree
  <2>2. CASE ~(h = k /\ Agree(k, y, z))
    <3>1. At(to, h, z) # next
      BY <1>3, <1>4, <2>2
    <3>2. ~(j = k /\ Agree(k, y, x))
      BY <1>2, <1>4, <3>1
    <3>3. At(at, h, z) < 0 /\ At(at, j, x) = At(at, h, z)
      BY <1>2, <1>4, <2>2, <3>2
    <3> QED BY <3>3 DEF Apart
  <2> QED BY <2>1, <2>2
<1>5. next - 2 \in Int /\ next - 2 < 0 /\ (next - 2) % 2 = 1
  BY <1>1
<1>6. \A j \in FastBits .. MaxSize, z \in Nat :
        At(to, j, z) < 0 => At(to, j, z) % 2 = 1 /\ next - 2 < At(to, j, z)
  BY <1>1, <1>3
<1>7. \A i \in Nat : i >= -(next - 2) => CellOf(new, i) = 0
  BY <1>1
<1> QED BY <1>4, <1>5, <1>6, <1>7 DEF Apart

\* What is no node changes nothing about the nodes.
LEMMA SameApart ==
  ASSUME NEW at, NEW cells, NEW new, NEW next, Apart(at, cells, next), NEW to,
         \A j \in FastBits .. MaxSize, z \in Nat : At(to, j, z) < 0 => At(to, j, z) = At(at, j, z),
         \A i \in Nat : i >= -next => CellOf(new, i) = 0
  PROVE  Apart(to, new, next)
<1>1. ASSUME NEW j \in FastBits .. MaxSize, NEW h \in FastBits .. MaxSize,
             NEW z \in Nat, NEW x \in Nat,
             At(to, h, z) < 0, At(to, j, x) = At(to, h, z)
      PROVE  j = h /\ Agree(h, x, z)
  <2>1. At(at, h, z) < 0 /\ At(at, j, x) = At(at, h, z)
    BY <1>1
  <2> QED BY <2>1 DEF Apart
<1>2. \A j \in FastBits .. MaxSize, z \in Nat :
        At(to, j, z) < 0 => At(to, j, z) % 2 = 1 /\ next < At(to, j, z)
  BY DEF Apart
<1> QED BY <1>1, <1>2 DEF Apart

\* The cell of a branch is the only one of its node and bit.
LEMMA OwnCell ==
  ASSUME NEW at, NEW cells, NEW next, Apart(at, cells, next), at \in [Paths -> Int],
         NEW j \in FastBits .. MaxSize - 1, NEW k \in FastBits .. MaxSize - 1,
         NEW y \in Nat, NEW z \in Nat,
         At(at, j, z) < 0, At(at, k, y) < 0, Bit(z, j) - At(at, j, z) = Bit(y, k) - At(at, k, y)
  PROVE  j = k /\ Agree(k + 1, y, z)
<1> USE WidthsFact DEF Widths
<1>1. PICK a \in Int, b \in Int : a = At(at, j, z) /\ b = At(at, k, y)
  BY AtTypes
<1>2. PICK p \in {0, 1}, q \in {0, 1} : p = Bit(z, j) /\ q = Bit(y, k)
  BY Bits
<1>3. /\ j \in FastBits .. MaxSize /\ k \in FastBits .. MaxSize
      /\ j \in 0 .. MaxSize /\ k \in 0 .. MaxSize
  OBVIOUS
<1>4. a % 2 = 1 /\ b % 2 = 1
  BY <1>1, <1>3 DEF Apart
<1>5. p - a = q - b
  BY <1>1, <1>2
<1>6. p = q /\ a = b
  BY <1>4, <1>5
<1>7. j = k /\ Agree(k, y, z)
  <2>1. At(at, k, y) < 0 /\ At(at, j, z) = At(at, k, y)
    BY <1>1, <1>6
  <2>2. j = k /\ Agree(k, z, y)
    BY <1>3, <2>1 DEF Apart
  <2> QED BY <2>2 DEF Agree
<1> QED BY <1>2, <1>3, <1>6, <1>7, AgreeMore

\* The cell of a branch comes before those of the nodes to come.
LEMMA CellBefore ==
  ASSUME NEW at, NEW cells, NEW next, Apart(at, cells, next), at \in [Paths -> Int],
         NEW k \in FastBits .. MaxSize - 1, NEW y \in Nat, At(at, k, y) < 0
  PROVE  /\ Bit(y, k) - At(at, k, y) \in Nat \ {0}
         /\ Bit(y, k) - At(at, k, y) < -next
<1> USE WidthsFact DEF Widths
<1>1. PICK a \in Int, p \in {0, 1} : a = At(at, k, y) /\ p = Bit(y, k)
  BY AtTypes, Bits
<1>2. a % 2 = 1 /\ next < a /\ next % 2 = 1 /\ next \in Int
  BY <1>1 DEF Apart
<1> QED BY <1>1, <1>2

\* Below a path that ends in nothing there is nothing.
LEMMA NothingBelow ==
  ASSUME Sized, NEW at, NEW cells, NEW n \in Nat, NEW m \in Nat,
         Owned(at, n, m), Found(at, cells, n, m), at \in [Paths -> Int],
         NEW k \in FastBits .. MaxSize - 1, NEW y \in Nat, At(at, k, y) = 0,
         NEW z \in Nat, Agree(k, y, z)
  PROVE  At(at, k + 1, z) = 0
<1>1. At(at, k, z) = 0
  BY AtSame
<1> QED BY <1>1, Parent

\* Cell c has v, and no other cell changes.
SetsCell(new, cells, c, v) ==
  \A i \in Nat \ {0} : CellOf(new, i) = IF i = c THEN v ELSE CellOf(cells, i)

\* The tables hold a new end below a node.
LEMMA HeldBelow ==
  ASSUME Sized, NEW at, NEW slots, NEW cells, NEW new, NEW next, NEW s \in Nat, NEW m \in Nat,
         Held(at, slots, cells), Apart(at, cells, next),
         Owned(at, s, m), Found(at, cells, s, m), at \in [Paths -> Int],
         NEW k \in FastBits .. MaxSize - 1, NEW y \in Nat, At(at, k, y) < 0, At(at, k + 1, y) = 0,
         NEW v \in Int, v >= 0 \/ (v = next /\ k + 1 < MaxSize),
         NEW to \in [Paths -> Int], Puts(to, at, k + 1, y, v),
         NEW c, c = Bit(y, k) - At(at, k, y), SetsCell(new, cells, c, v)
  PROVE  Held(to, slots, new)
<1> USE WidthsFact DEF Widths
<1>1. \A j \in FastBits .. MaxSize, z \in Nat :
        At(to, j, z) = IF j = k + 1 /\ Agree(k + 1, y, z) THEN v ELSE At(at, j, z)
  BY DEF Puts
<1>2. ASSUME NEW z \in Nat
      PROVE  At(to, FastBits, z) = slots[z % Pow2[FastBits]]
  <2>1. FastBits \in FastBits .. MaxSize /\ FastBits # k + 1
    OBVIOUS
  <2>2. At(to, FastBits, z) = At(at, FastBits, z)
    BY <1>1, <2>1
  <2> QED BY <2>2 DEF Held
<1>3. c \in Nat \ {0} /\ c < -next /\ next \in Int /\ next < 0
  <2>1. next \in Int /\ next < 0
    BY DEF Apart
  <2> QED BY <2>1, CellBefore
<1>4. ASSUME NEW j \in FastBits .. MaxSize - 1, NEW z \in Nat, At(to, j, z) < 0
      PROVE  At(to, j + 1, z) = CellOf(new, Bit(z, j) - At(to, j, z))
  <2> DEFINE i == Bit(z, j) - At(to, j, z)
  <2>1. j \in FastBits .. MaxSize /\ j + 1 \in FastBits .. MaxSize /\ j \in 0 .. MaxSize
    OBVIOUS
  <2>2. Bit(z, j) \in {0, 1} /\ At(to, j, z) \in Int
    BY <2>1, Bits, AtTypes
  <2>3. i \in Nat \ {0}
    BY <1>4, <2>2
  <2>4. CASE j = k + 1 /\ Agree(k + 1, y, z)
    <3>1. At(to, j, z) = v
      BY <1>1, <2>1, <2>4
    <3>2. v = next /\ k + 1 < MaxSize
      BY <1>4, <3>1
    <3>3. At(at, j + 1, z) = 0
      BY <2>4, NothingBelow
    <3>4. At(to, j + 1, z) = 0
      BY <1>1, <2>1, <2>4, <3>3
    <3>5. i >= -next /\ i # c
      BY <1>3, <2>2, <3>1, <3>2
    <3>6. CellOf(cells, i) = 0
      BY <2>3, <3>5 DEF Apart
    <3>7. CellOf(new, i) = 0
      BY <2>3, <3>5, <3>6 DEF SetsCell
    <3> QED BY <3>4, <3>7
  <2>5. CASE ~(j = k + 1 /\ Agree(k + 1, y, z))
    <3>1. At(to, j, z) = At(at, j, z) /\ At(at, j, z) < 0
      BY <1>1, <1>4, <2>1, <2>5
    <3>2. At(at, j + 1, z) = CellOf(cells, i)
      BY <3>1 DEF Held
    <3>3. CASE j = k /\ Agree(k + 1, y, z)
      <4>1. At(to, j + 1, z) = v
        BY <1>1, <2>1, <3>3
      <4>2. Agree(k, y, z) /\ Bit(y, k) = Bit(z, k)
        BY <2>1, <3>3, AgreeMore
      <4>3. At(at, k, y) = At(at, k, z)
        BY <4>2, AtSame
      <4>4. i = c
        BY <3>1, <3>3, <4>2, <4>3
      <4> QED BY <2>3, <4>1, <4>4 DEF SetsCell
    <3>4. CASE ~(j = k /\ Agree(k + 1, y, z))
      <4>1. At(to, j + 1, z) = At(at, j + 1, z)
        BY <1>1, <2>1, <3>4
      <4>2. i # c
        BY <3>1, <3>4, OwnCell
      <4> QED BY <2>3, <3>2, <4>1, <4>2 DEF SetsCell
    <3> QED BY <3>3, <3>4
  <2> QED BY <2>4, <2>5
<1> QED BY <1>2, <1>4 DEF Held

\* The tables hold a new node in the lookup.
LEMMA HeldFirst ==
  ASSUME Sized, NEW at, NEW slots, NEW cells, NEW next, NEW s \in Nat,
         Held(at, slots, cells), Apart(at, cells, next), slots \in [Slots -> Int],
         Owned(at, s, 0), Found(at, cells, s, 0), at \in [Paths -> Int],
         NEW y \in Nat, At(at, FastBits, y) = 0,
         NEW to \in [Paths -> Int], Puts(to, at, FastBits, y, next)
  PROVE  Held(to, [slots EXCEPT ![y % Pow2[FastBits]] = next], cells)
<1> USE WidthsFact DEF Widths
<1>1. \A j \in FastBits .. MaxSize, z \in Nat :
        At(to, j, z) = IF j = FastBits /\ Agree(FastBits, y, z) THEN next ELSE At(at, j, z)
  BY DEF Puts
<1>2. ASSUME NEW z \in Nat
      PROVE  At(to, FastBits, z) = [slots EXCEPT ![y % Pow2[FastBits]] = next][z % Pow2[FastBits]]
  <2>1. z % Pow2[FastBits] \in Slots
    <3>1. FastBits \in 0 .. MaxSize
      OBVIOUS
    <3> QED BY <3>1, LowBits DEF Slots
  <2>2. At(at, FastBits, z) = slots[z % Pow2[FastBits]]
    BY DEF Held
  <2>3. FastBits \in FastBits .. MaxSize
    OBVIOUS
  <2> QED BY <1>1, <2>1, <2>2, <2>3 DEF Agree
<1>3. ASSUME NEW j \in FastBits .. MaxSize - 1, NEW z \in Nat, At(to, j, z) < 0
      PROVE  At(to, j + 1, z) = CellOf(cells, Bit(z, j) - At(to, j, z))
  <2>1. /\ j \in FastBits .. MaxSize /\ j + 1 \in FastBits .. MaxSize
        /\ j + 1 # FastBits /\ j \in 0 .. MaxSize
    OBVIOUS
  <2>2. At(to, j + 1, z) = At(at, j + 1, z)
    BY <1>1, <2>1
  <2>3. CASE j = FastBits /\ Agree(FastBits, y, z)
    <3>1. At(to, j, z) = next
      BY <1>1, <2>1, <2>3
    <3>2. At(at, j + 1, z) = 0
      BY <2>3, NothingBelow
    <3>3. Bit(z, j) \in {0, 1} /\ next \in Int /\ next < 0
      BY <2>1, Bits DEF Apart
    <3>4. Bit(z, j) - next \in Nat /\ Bit(z, j) - next >= -next
      BY <3>3
    <3>5. CellOf(cells, Bit(z, j) - next) = 0
      BY <3>4 DEF Apart
    <3> QED BY <2>2, <3>1, <3>2, <3>5
  <2>4. CASE ~(j = FastBits /\ Agree(FastBits, y, z))
    <3>1. At(to, j, z) = At(at, j, z)
      BY <1>1, <2>1, <2>4
    <3> QED BY <1>3, <2>2, <3>1 DEF Held
  <2> QED BY <2>3, <2>4
<1> QED BY <1>2, <1>3 DEF Held

(***************************************************************************)
(* A symbol is in.                                                         *)
(***************************************************************************)

\* What a packed symbol is.
LEMMA PackedIs ==
  ASSUME Sized, NEW s \in UsedSet
  PROVE  /\ Packed(Size(s), s) \in Nat \ {0}
         /\ Packed(Size(s), s) % PackedBase = s
         /\ Packed(Size(s), s) \div PackedBase = Size(s)
<1>1. PICK b \in Nat \ {0} : b = PackedBase
  BY DEF PackedBase
<1>2. s \in Nat /\ Size(s) \in Nat \ {0}
  BY UsedSize
<1>3. PICK k \in Nat \ {0} : k = Size(s)
  BY <1>2
<1>4. s < b
  <2>1. total \in Counts /\ s < total
    BY UsedSize DEF Sized, Symbols
  <2>2. total <= PackedBase
    BY <1>1, <2>1, CodeAssumption
  <2>3. total \in Nat
    BY SizesAre
  <2> QED BY <1>1, <1>2, <2>1, <2>2, <2>3
<1>5. Packed(Size(s), s) = k * b + s
  BY <1>1, <1>3 DEF Packed
<1>6. k * b = b * k /\ b * k \in Nat /\ b * k > 0
  OBVIOUS
<1>7. PICK a \in Nat \ {0} : a = b * k + s
  BY <1>2, <1>6
<1>8. a \div b = k /\ a % b = s
  BY <1>2, <1>4, <1>7, QuotientIs
<1> QED BY <1>1, <1>3, <1>5, <1>6, <1>7, <1>8

\* Symbol s is in when its leaf is.
LEMMA LeafIn ==
  ASSUME Sized, NEW at, NEW cells, NEW new, NEW s \in UsedSet, Size(s) > FastBits,
         Owned(at, s, Size(s) - 1), Found(at, cells, s, Size(s) - 1), At(at, Size(s), Key(s)) = 0,
         Len(cells) \in Nat, Len(new) \in Nat, Len(cells) <= Len(new),
         Bit(Key(s), Size(s) - 1) - At(at, Size(s) - 1, Key(s)) <= Len(new),
         at \in [Paths -> Int],
         NEW to \in [Paths -> Int], Puts(to, at, Size(s), Key(s), s)
  PROVE  Owned(to, s + 1, 0) /\ Found(to, new, s + 1, 0)
<1> USE WidthsFact DEF Widths
<1> DEFINE m == Size(s) - 1
<1>1. /\ s \in Nat /\ Size(s) \in FastBits + 1 .. MaxSize - 1 /\ Size(s) \in FastBits .. MaxSize
      /\ m \in FastBits .. MaxSize /\ m \in FastBits .. Size(s) - 1 /\ Key(s) \in Nat
  BY UsedSize, OwnsAgree
<1>2. \A t, j : Passes(t, j, s + 1, 0) <=> Passes(t, j, s, m)
  <2>1. ASSUME NEW t, NEW j
        PROVE  Passes(t, j, s + 1, 0) <=> Passes(t, j, s, m)
    <3>1. CASE t \in UsedSet /\ j \in FastBits .. Size(t) - 1
      <4>1. t \in Nat /\ Size(t) \in Nat /\ j \in Nat /\ j >= FastBits /\ j <= Size(t) - 1
        BY <3>1, UsedSize
      <4>2. t < s + 1 <=> t < s \/ t = s
        BY <1>1, <4>1, SMTT(30)
      <4>3. t = s => j <= m
        BY <4>1
      <4>4. ~(j <= 0)
        BY <4>1
      <4> QED BY <3>1, <4>2, <4>3, <4>4 DEF Passes
    <3>2. CASE ~(t \in UsedSet /\ j \in FastBits .. Size(t) - 1)
      BY <3>2 DEF Passes
    <3> QED BY <3>1, <3>2
  <2> QED BY <2>1
<1>3. \A t \in UsedSet : Done(t, s + 1) <=> Done(t, s) \/ t = s
  <2>1. ASSUME NEW t \in UsedSet
        PROVE  Done(t, s + 1) <=> Done(t, s) \/ t = s
    <3>1. t \in Nat /\ s \in Nat
      BY UsedSize
    <3>2. t < s + 1 <=> t < s \/ t = s
      BY <3>1
    <3> QED BY <3>2, Zenon DEF Done
  <2> QED BY <2>1
<1>4. \A j \in FastBits .. MaxSize, z \in Nat :
        At(to, j, z) = IF j = Size(s) /\ Agree(Size(s), Key(s), z) THEN s ELSE At(at, j, z)
  BY DEF Puts
<1>5. \A j \in FastBits .. MaxSize, z \in Nat : At(at, j, z) # 0 => At(to, j, z) = At(at, j, z)
  BY PutKeeps
<1>6. \A j \in FastBits .. MaxSize, z \in Nat : At(to, j, z) < 0 => At(at, j, z) < 0
  BY <1>1, <1>4
<1>7. Owned(to, s + 1, 0)
  <2>1. ASSUME NEW j \in FastBits .. MaxSize, NEW z \in Nat, At(to, j, z) < 0
        PROVE  \E t \in UsedSet : Passes(t, j, s + 1, 0) /\ Agree(j, Key(t), z)
    <3>1. \E t \in UsedSet : Passes(t, j, s, m) /\ Agree(j, Key(t), z)
      BY <1>6, <2>1 DEF Owned
    <3> QED BY <1>2, <3>1
  <2>2. ASSUME NEW z \in Nat, At(to, FastBits, z) > 0
        PROVE  \E t \in UsedSet : /\ Done(t, s + 1) /\ Size(t) <= FastBits /\ Owns(t, z)
                                  /\ At(to, FastBits, z) = Packed(Size(t), t)
    <3>1. FastBits \in FastBits .. MaxSize /\ FastBits # Size(s)
      BY <1>1
    <3>2. At(to, FastBits, z) = At(at, FastBits, z)
      BY <1>4, <3>1
    <3>3. PICK t \in UsedSet : /\ Done(t, s) /\ Size(t) <= FastBits /\ Owns(t, z)
                               /\ At(at, FastBits, z) = Packed(Size(t), t)
      BY <2>2, <3>2 DEF Owned
    <3> QED BY <1>3, <3>2, <3>3
  <2>3. ASSUME NEW j \in FastBits + 1 .. MaxSize, NEW z \in Nat, At(to, j, z) > 0
        PROVE  \E t \in UsedSet : Done(t, s + 1) /\ Size(t) = j /\ Owns(t, z) /\ At(to, j, z) = t
    <3>1. CASE j = Size(s) /\ Agree(Size(s), Key(s), z)
      <4>1. At(to, j, z) = s
        BY <1>1, <1>4, <3>1
      <4>2. Owns(s, z) /\ Done(s, s + 1)
        BY <1>3, <3>1, OwnsAgree
      <4> QED BY <3>1, <4>1, <4>2
    <3>2. CASE ~(j = Size(s) /\ Agree(Size(s), Key(s), z))
      <4>1. At(to, j, z) = At(at, j, z)
        BY <1>4, <3>2
      <4>2. PICK t \in UsedSet : Done(t, s) /\ Size(t) = j /\ Owns(t, z) /\ At(at, j, z) = t
        BY <2>3, <4>1 DEF Owned
      <4> QED BY <1>3, <4>1, <4>2
    <3> QED BY <3>1, <3>2
  <2> QED BY <2>1, <2>2, <2>3 DEF Owned
<1>8. ASSUME NEW t \in UsedSet, NEW j \in FastBits .. MaxSize, Passes(t, j, s + 1, 0)
      PROVE  At(to, j, Key(t)) < 0
  <2>1. At(at, j, Key(t)) < 0 /\ Key(t) \in Nat
    BY <1>2, <1>8, OwnsAgree DEF Found
  <2> QED BY <1>5, <2>1
<1>9. ASSUME NEW t \in UsedSet, NEW z \in Nat, Done(t, s + 1), Size(t) <= FastBits, Owns(t, z)
      PROVE  At(to, FastBits, z) = Packed(Size(t), t)
  <2>1. Done(t, s)
    BY <1>1, <1>3, <1>9
  <2>2. At(at, FastBits, z) = Packed(Size(t), t)
    BY <1>9, <2>1 DEF Found
  <2>3. Packed(Size(t), t) # 0
    BY PackedIs
  <2> QED BY <1>5, <2>2, <2>3
<1>10. ASSUME NEW t \in UsedSet, Done(t, s + 1), Size(t) > FastBits
       PROVE  /\ t # 0 => At(to, Size(t), Key(t)) = t
              /\ Bit(Key(t), Size(t) - 1) - At(to, Size(t) - 1, Key(t)) <= Len(new)
  <2>1. Size(t) - 1 \in 0 .. MaxSize /\ Size(t) - 1 \in FastBits .. MaxSize /\ Key(t) \in Nat
        /\ Size(t) \in FastBits .. MaxSize /\ Size(t) - 1 \in FastBits .. Size(t) - 1 /\ t \in Nat
    <3>1. Key(t) \in Nat /\ t \in Nat /\ Size(t) \in 1 .. MaxSize - 1
      BY UsedSize, OwnsAgree
    <3>2. Size(t) > FastBits
      BY <1>10
    <3> QED BY <3>1, <3>2
  <2>2. Bit(Key(t), Size(t) - 1) \in {0, 1} /\ At(at, Size(t) - 1, Key(t)) \in Int
    BY <2>1, Bits, AtTypes
  <2>3. Passes(t, Size(t) - 1, s, m)
    <3>1. t < s + 1
      BY <1>10 DEF Done
    <3>2. Passes(t, Size(t) - 1, s + 1, 0)
      BY <2>1, <3>1 DEF Passes
    <3> QED BY <1>2, <3>2
  <2>4. At(at, Size(t) - 1, Key(t)) < 0
    BY <2>1, <2>3 DEF Found
  <2>5. At(to, Size(t) - 1, Key(t)) = At(at, Size(t) - 1, Key(t))
    BY <1>5, <2>1, <2>4
  <2>6. CASE t = s
    BY <1>1, <1>4, <2>5, <2>6 DEF Agree
  <2>7. CASE t # s
    <3>1. Done(t, s)
      BY <1>3, <1>10, <2>7
    <3>2. /\ t # 0 => At(at, Size(t), Key(t)) = t
          /\ Bit(Key(t), Size(t) - 1) - At(at, Size(t) - 1, Key(t)) <= Len(cells)
      BY <1>10, <3>1 DEF Found
    <3>3. t # 0 => At(to, Size(t), Key(t)) = t
      BY <1>5, <2>1, <3>2
    <3> QED BY <2>2, <2>5, <3>2, <3>3
  <2> QED BY <2>6, <2>7
<1>11. Found(to, new, s + 1, 0)
  BY <1>8, <1>9, <1>10 DEF Found
<1> QED BY <1>7, <1>11

\* Symbol s is in when all its slots have it.
LEMMA ShortIn ==
  ASSUME Sized, NEW at, NEW slots, NEW cells, NEW next, NEW s \in UsedSet, Size(s) <= FastBits,
         Shape(at, slots, cells, next, s, 0), at \in [Paths -> Int],
         \A z \in Nat : Owns(s, z) => slots[z % Pow2[FastBits]] = 0,
         NEW new \in [Slots -> Int],
         \A z \in Nat : new[z % Pow2[FastBits]] =
           IF Owns(s, z) THEN Packed(Size(s), s) ELSE slots[z % Pow2[FastBits]],
         NEW to \in [Paths -> Int],
         \A j \in FastBits .. MaxSize, z \in Nat :
           At(to, j, z) = IF j = FastBits /\ Owns(s, z) THEN Packed(Size(s), s) ELSE At(at, j, z)
  PROVE  Shape(to, new, cells, next, s + 1, 0)
<1> USE WidthsFact DEF Widths
<1>1. /\ cells \in Seq(Int) /\ Held(at, slots, cells) /\ Apart(at, cells, next)
      /\ Owned(at, s, 0) /\ Found(at, cells, s, 0)
  BY DEF Shape
<1>2. s \in Nat /\ Size(s) \in 1 .. FastBits /\ Packed(Size(s), s) \in Nat \ {0}
      /\ FastBits \in FastBits .. MaxSize
  BY UsedSize, PackedIs
<1>3. \A z \in Nat : At(at, FastBits, z) = slots[z % Pow2[FastBits]]
  BY <1>1 DEF Held
<1>4. ASSUME NEW j \in FastBits .. MaxSize, NEW z \in Nat
      PROVE  /\ At(to, j, z) < 0 => At(to, j, z) = At(at, j, z)
             /\ At(at, j, z) # 0 => At(to, j, z) = At(at, j, z)
  <2>1. CASE j = FastBits /\ Owns(s, z)
    BY <1>2, <1>3, <2>1
  <2>2. CASE ~(j = FastBits /\ Owns(s, z))
    BY <2>2
  <2> QED BY <2>1, <2>2
<1>5. Held(to, new, cells)
  <2>1. \A z \in Nat : At(to, FastBits, z) = new[z % Pow2[FastBits]]
    BY <1>2, <1>3
  <2>2. ASSUME NEW k \in FastBits .. MaxSize - 1, NEW z \in Nat, At(to, k, z) < 0
        PROVE  At(to, k + 1, z) = CellOf(cells, Bit(z, k) - At(to, k, z))
    <3>1. k \in FastBits .. MaxSize /\ k + 1 \in FastBits .. MaxSize /\ k + 1 # FastBits
      OBVIOUS
    <3>2. At(to, k, z) = At(at, k, z) /\ At(to, k + 1, z) = At(at, k + 1, z)
      BY <1>4, <2>2, <3>1
    <3> QED BY <1>1, <2>2, <3>2 DEF Held
  <2> QED BY <2>1, <2>2 DEF Held
<1>6. Apart(to, cells, next)
  <2>1. \A i \in Nat : i >= -next => CellOf(cells, i) = 0
    BY <1>1 DEF Apart
  <2>2. \A j \in FastBits .. MaxSize, z \in Nat : At(to, j, z) < 0 => At(to, j, z) = At(at, j, z)
    BY <1>4
  <2> QED BY <1>1, <2>1, <2>2, SameApart
<1>7. \A t, j : Passes(t, j, s + 1, 0) <=> Passes(t, j, s, 0)
  <2>1. ASSUME NEW t, NEW j
        PROVE  Passes(t, j, s + 1, 0) <=> Passes(t, j, s, 0)
    <3>1. CASE t \in UsedSet /\ j \in FastBits .. Size(t) - 1
      <4>1. t \in Nat /\ Size(t) \in Nat /\ j \in Nat /\ j >= FastBits /\ j <= Size(t) - 1
        BY <3>1, UsedSize
      <4>2. t # s /\ ~(j <= 0)
        BY <1>2, <4>1
      <4>3. t < s + 1 <=> t < s
        BY <1>2, <4>1, <4>2
      <4> QED BY <3>1, <4>2, <4>3 DEF Passes
    <3>2. CASE ~(t \in UsedSet /\ j \in FastBits .. Size(t) - 1)
      BY <3>2 DEF Passes
    <3> QED BY <3>1, <3>2
  <2> QED BY <2>1
<1>8. \A t \in UsedSet : Done(t, s + 1) <=> Done(t, s) \/ t = s
  BY <1>2, UsedSize DEF Done
<1>9. Owned(to, s + 1, 0)
  <2>1. ASSUME NEW j \in FastBits .. MaxSize, NEW z \in Nat, At(to, j, z) < 0
        PROVE  \E t \in UsedSet : Passes(t, j, s + 1, 0) /\ Agree(j, Key(t), z)
    <3>1. \E t \in UsedSet : Passes(t, j, s, 0) /\ Agree(j, Key(t), z)
      BY <1>1, <1>4, <2>1 DEF Owned
    <3> QED BY <1>7, <3>1
  <2>2. ASSUME NEW z \in Nat, At(to, FastBits, z) > 0
        PROVE  \E t \in UsedSet : /\ Done(t, s + 1) /\ Size(t) <= FastBits /\ Owns(t, z)
                                  /\ At(to, FastBits, z) = Packed(Size(t), t)
    <3>1. CASE Owns(s, z)
      BY <1>2, <1>8, <3>1
    <3>2. CASE ~Owns(s, z)
      <4>1. At(to, FastBits, z) = At(at, FastBits, z)
        BY <1>2, <3>2
      <4>2. PICK t \in UsedSet : /\ Done(t, s) /\ Size(t) <= FastBits /\ Owns(t, z)
                                 /\ At(at, FastBits, z) = Packed(Size(t), t)
        BY <1>1, <2>2, <4>1 DEF Owned
      <4> QED BY <1>8, <4>1, <4>2
    <3> QED BY <3>1, <3>2
  <2>3. ASSUME NEW j \in FastBits + 1 .. MaxSize, NEW z \in Nat, At(to, j, z) > 0
        PROVE  \E t \in UsedSet : Done(t, s + 1) /\ Size(t) = j /\ Owns(t, z) /\ At(to, j, z) = t
    <3>1. At(to, j, z) = At(at, j, z)
      OBVIOUS
    <3>2. PICK t \in UsedSet : Done(t, s) /\ Size(t) = j /\ Owns(t, z) /\ At(at, j, z) = t
      BY <1>1, <2>3, <3>1 DEF Owned
    <3> QED BY <1>8, <3>1, <3>2
  <2> QED BY <2>1, <2>2, <2>3 DEF Owned
<1>10. Found(to, cells, s + 1, 0)
  <2>1. ASSUME NEW t \in UsedSet, NEW j \in FastBits .. MaxSize, Passes(t, j, s + 1, 0)
        PROVE  At(to, j, Key(t)) < 0
    <3>1. At(at, j, Key(t)) < 0 /\ Key(t) \in Nat
      BY <1>1, <1>7, <2>1, OwnsAgree DEF Found
    <3> QED BY <1>4, <3>1
  <2>2. ASSUME NEW t \in UsedSet, NEW z \in Nat, Done(t, s + 1), Size(t) <= FastBits, Owns(t, z)
        PROVE  At(to, FastBits, z) = Packed(Size(t), t)
    <3>1. CASE t = s
      BY <1>2, <2>2, <3>1
    <3>2. CASE t # s
      <4>1. Done(t, s)
        BY <1>8, <2>2, <3>2
      <4>2. At(at, FastBits, z) = Packed(Size(t), t)
        BY <1>1, <2>2, <4>1 DEF Found
      <4>3. Packed(Size(t), t) # 0
        BY PackedIs
      <4> QED BY <1>2, <1>4, <4>2, <4>3
    <3> QED BY <3>1, <3>2
  <2>3. ASSUME NEW t \in UsedSet, Done(t, s + 1), Size(t) > FastBits
        PROVE  /\ t # 0 => At(to, Size(t), Key(t)) = t
               /\ Bit(Key(t), Size(t) - 1) - At(to, Size(t) - 1, Key(t)) <= Len(cells)
    <3>1. t # s
      BY <1>2, <2>3
    <3>2. Done(t, s)
      BY <1>8, <2>3, <3>1
    <3>3. Key(t) \in Nat /\ t \in Nat /\ Size(t) \in 1 .. MaxSize - 1
      BY UsedSize, OwnsAgree
    <3>4. /\ Size(t) \in FastBits .. MaxSize /\ Size(t) - 1 \in FastBits .. MaxSize
          /\ Size(t) - 1 \in FastBits .. Size(t) - 1
      BY <2>3, <3>3
    <3>5. Passes(t, Size(t) - 1, s, 0)
      BY <3>2, <3>4 DEF Passes, Done
    <3>6. At(at, Size(t) - 1, Key(t)) < 0
      BY <1>1, <3>4, <3>5 DEF Found
    <3>7. At(to, Size(t) - 1, Key(t)) = At(at, Size(t) - 1, Key(t))
      BY <1>4, <3>3, <3>4, <3>6
    <3>8. /\ t # 0 => At(at, Size(t), Key(t)) = t
          /\ Bit(Key(t), Size(t) - 1) - At(at, Size(t) - 1, Key(t)) <= Len(cells)
      BY <1>1, <2>3, <3>2 DEF Found
    <3>9. t # 0 => At(to, Size(t), Key(t)) = t
      BY <1>4, <3>3, <3>4, <3>8
    <3> QED BY <3>7, <3>8, <3>9
  <2> QED BY <2>1, <2>2, <2>3 DEF Found
<1> QED BY <1>1, <1>5, <1>6, <1>9, <1>10 DEF Shape

\* A symbol without a code is in as it is.
LEMMA AbsentIn ==
  ASSUME Sized, NEW at, NEW slots, NEW cells, NEW next, NEW s \in Nat, s \notin UsedSet,
         Shape(at, slots, cells, next, s, 0)
  PROVE  Shape(at, slots, cells, next, s + 1, 0)
<1> USE WidthsFact DEF Widths
<1>1. \A t : Done(t, s + 1) <=> Done(t, s)
  <2>1. ASSUME NEW t \in UsedSet
        PROVE  t < s + 1 <=> t < s
    BY UsedSize
  <2> QED BY <2>1 DEF Done
<1>2. \A t, j : Passes(t, j, s + 1, 0) <=> Passes(t, j, s, 0)
  <2>1. ASSUME NEW t, NEW j
        PROVE  Passes(t, j, s + 1, 0) <=> Passes(t, j, s, 0)
    <3>1. CASE t \in UsedSet /\ j \in FastBits .. Size(t) - 1
      <4>1. t \in Nat /\ j \in Nat /\ j >= FastBits /\ t # s
        BY <3>1, UsedSize
      <4>2. t < s + 1 <=> t < s
        BY <4>1
      <4>3. ~(j <= 0)
        BY <4>1
      <4> QED BY <3>1, <4>2, <4>3 DEF Passes
    <3>2. CASE ~(t \in UsedSet /\ j \in FastBits .. Size(t) - 1)
      BY <3>2 DEF Passes
    <3> QED BY <3>1, <3>2
  <2> QED BY <2>1
<1>3. Owned(at, s + 1, 0)
  BY <1>1, <1>2 DEF Shape, Owned
<1>4. Found(at, cells, s + 1, 0)
  BY <1>1, <1>2 DEF Shape, Found
<1> QED BY <1>3, <1>4 DEF Shape

\* Before the first symbol there is nothing.
LEMMA NothingIn ==
  ASSUME Sized, NEW slots, NEW cells \in Seq(Int), NEW next \in Int, next + 1 = 0,
         slots = [p \in Slots |-> 0], \A i \in Nat \ {0} : CellOf(cells, i) = 0
  PROVE  \E at \in [Paths -> Int] : Shape(at, slots, cells, next, 0, 0)
<1> USE WidthsFact DEF Widths
<1> DEFINE at == [x \in Paths |-> 0]
<1>1. at \in [Paths -> Int] /\ slots \in [Slots -> Int]
  OBVIOUS
<1>2. ASSUME NEW j \in FastBits .. MaxSize, NEW z \in Nat
      PROVE  At(at, j, z) = 0
  <2>1. z % Pow2[j] \in Nat
    <3>1. j \in 0 .. MaxSize
      OBVIOUS
    <3>2. PICK d \in Nat \ {0} : d = Pow2[j]
      BY <3>1, Power
    <3> QED BY <3>2, Remainder
  <2>2. PICK r \in Nat : r = z % Pow2[j]
    BY <2>1
  <2>3. <<j, r>> \in Paths
    BY DEF Paths
  <2>4. at[<<j, r>>] = 0
    BY <2>3
  <2> QED BY <2>2, <2>4 DEF At
<1>3. ASSUME NEW z \in Nat
      PROVE  slots[z % Pow2[FastBits]] = 0
  <2>1. FastBits \in 0 .. MaxSize
    OBVIOUS
  <2>2. z % Pow2[FastBits] \in Slots
    BY <2>1, LowBits DEF Slots
  <2> HIDE DEF at
  <2> QED BY <2>2
<1>4. \A s \in UsedSet : ~Done(s, 0) /\ \A k \in FastBits .. MaxSize : ~Passes(s, k, 0, 0)
  <2>1. ASSUME NEW s \in UsedSet, NEW k \in FastBits .. MaxSize
        PROVE  ~(s < 0) /\ ~(k <= 0)
    BY UsedSize
  <2> QED BY <2>1 DEF Done, Passes
<1> HIDE DEF at
<1>5. FastBits \in FastBits .. MaxSize
  OBVIOUS
<1>6. Held(at, slots, cells)
  BY <1>2, <1>3, <1>5 DEF Held
<1>7. Apart(at, cells, next)
  <2>1. next < 0 /\ next % 2 = 1
    OBVIOUS
  <2>2. \A j \in FastBits .. MaxSize, z \in Nat : ~(At(at, j, z) < 0)
    BY <1>2
  <2>3. \A i \in Nat : i >= -next => CellOf(cells, i) = 0
    OBVIOUS
  <2> QED BY <2>1, <2>2, <2>3, Zenon DEF Apart
<1>8. Owned(at, 0, 0)
  BY <1>2, <1>5 DEF Owned
<1>9. Found(at, cells, 0, 0)
  BY <1>2, <1>4 DEF Found
<1>10. Shape(at, slots, cells, next, 0, 0)
  BY <1>1, <1>6, <1>7, <1>8, <1>9 DEF Shape
<1> QED BY <1>1, <1>10

(***************************************************************************)
(* The steps of a long code, on the tables.                                *)
(***************************************************************************)

\* What it takes to end below the node at depth k of the path of symbol s.
LEMMA BranchIs ==
  ASSUME Sized, NEW at \in [Paths -> Int], NEW slots, NEW cells, NEW next,
         NEW s \in UsedSet, NEW k \in FastBits .. Size(s) - 1, Shape(at, slots, cells, next, s, k)
  PROVE  LET c == Bit(Key(s), k) - At(at, k, Key(s))
         IN /\ At(at, k, Key(s)) < 0 /\ c \in Nat \ {0} /\ c < -next
            /\ At(at, k + 1, Key(s)) = CellOf(cells, c)
<1> USE WidthsFact DEF Widths
<1>1. /\ s \in Nat /\ Size(s) \in 1 .. MaxSize - 1 /\ Key(s) \in Nat
      /\ k \in FastBits .. MaxSize - 1 /\ k \in FastBits .. MaxSize
  BY UsedSize, OwnsAgree
<1>2. Passes(s, k, s, k)
  BY <1>1 DEF Passes
<1>3. At(at, k, Key(s)) < 0
  BY <1>1, <1>2 DEF Shape, Found
<1>4. Bit(Key(s), k) - At(at, k, Key(s)) \in Nat \ {0} /\ Bit(Key(s), k) - At(at, k, Key(s)) < -next
  BY <1>1, <1>3, CellBefore DEF Shape
<1>5. At(at, k + 1, Key(s)) = CellOf(cells, Bit(Key(s), k) - At(at, k, Key(s)))
  BY <1>1, <1>3 DEF Shape, Held
<1> QED BY <1>3, <1>4, <1>5

\* The first node of a long code.
LEMMA LongIn ==
  ASSUME Sized, NEW at \in [Paths -> Int], NEW slots, NEW cells, NEW next,
         NEW s \in UsedSet, Size(s) > FastBits, Shape(at, slots, cells, next, s, 0),
         NEW node, LET first == slots[Key(s) % Pow2[FastBits]]
                   IN node = IF first = 0 THEN next ELSE first,
         node < 0
  PROVE  LET slot == Key(s) % Pow2[FastBits]
         IN \E to \in [Paths -> Int] :
              /\ Shape(to, [slots EXCEPT ![slot] = node], cells,
                       IF slots[slot] = 0 THEN next - 2 ELSE next, s, FastBits)
              /\ At(to, FastBits, Key(s)) = node
<1> USE WidthsFact DEF Widths
<1> DEFINE slot == Key(s) % Pow2[FastBits]
<1>1. /\ slots \in [Slots -> Int] /\ cells \in Seq(Int) /\ Held(at, slots, cells)
      /\ Apart(at, cells, next) /\ Owned(at, s, 0) /\ Found(at, cells, s, 0)
  BY DEF Shape
<1>2. /\ s \in Nat /\ Key(s) \in Nat /\ Onward(s, FastBits, 0) /\ FastBits \in FastBits .. MaxSize
      /\ FastBits \in 0 .. MaxSize /\ Len(cells) \in Nat
  <2>1. s \in Nat /\ Size(s) \in 1 .. MaxSize - 1 /\ Key(s) \in Nat
    BY UsedSize, OwnsAgree
  <2>2. Onward(s, FastBits, 0)
    BY <2>1 DEF Onward
  <2> QED BY <1>1, <2>1, <2>2
<1>3. slot \in Slots
  BY <1>2, LowBits DEF Slots
<1>4. At(at, FastBits, Key(s)) = slots[slot]
  BY <1>1, <1>2 DEF Held
<1>5. CASE slots[slot] = 0
  <2>1. node = next /\ next \in Int /\ next < 0
    BY <1>1, <1>5 DEF Apart
  <2>2. PICK to \in [Paths -> Int] : Puts(to, at, FastBits, Key(s), next)
    BY <1>2, <2>1, Changed
  <2>3. Owned(to, s, FastBits) /\ Found(to, cells, s, FastBits)
    <3>1. At(at, FastBits, Key(s)) = 0 /\ Len(cells) <= Len(cells)
      BY <1>2, <1>4, <1>5
    <3> HIDE DEF slot
    <3> QED BY <1>1, <1>2, <2>1, <2>2, <3>1, NewNode
  <2>4. \A i \in Nat : i >= -next => CellOf(cells, i) = 0
    BY <1>1 DEF Apart
  <2>5. Apart(to, cells, next - 2)
    BY <1>1, <1>2, <1>4, <1>5, <2>2, <2>4, NewApart
  <2>6. Held(to, [slots EXCEPT ![slot] = node], cells)
    BY <1>1, <1>2, <1>4, <1>5, <2>1, <2>2, HeldFirst
  <2>7. [slots EXCEPT ![slot] = node] \in [Slots -> Int]
    BY <1>1, <2>1
  <2>8. Shape(to, [slots EXCEPT ![slot] = node], cells, next - 2, s, FastBits)
    BY <1>1, <2>3, <2>5, <2>6, <2>7 DEF Shape
  <2>9. At(to, FastBits, Key(s)) = node
    BY <1>2, <2>1, <2>2 DEF Puts, Agree
  <2> QED BY <1>5, <2>8, <2>9
<1>6. CASE slots[slot] # 0
  <2>1. node = slots[slot] /\ At(at, FastBits, Key(s)) < 0
    BY <1>4, <1>6
  <2>2. Owned(at, s, FastBits) /\ Found(at, cells, s, FastBits)
    BY <1>1, <1>2, <2>1, OldNode
  <2>3. [slots EXCEPT ![slot] = node] = slots
    BY <1>1, <1>3, <2>1
  <2>4. Shape(at, slots, cells, next, s, FastBits)
    BY <1>1, <2>2 DEF Shape
  <2> QED BY <1>4, <1>6, <2>1, <2>3, <2>4
<1> QED BY <1>5, <1>6

\* The next node of a long code.
LEMMA DescendIn ==
  ASSUME Sized, NEW at \in [Paths -> Int], NEW slots, NEW cells, NEW next,
         NEW s \in UsedSet, NEW k \in FastBits .. Size(s) - 2, Shape(at, slots, cells, next, s, k),
         NEW c, c = Bit(Key(s), k) - At(at, k, Key(s)),
         NEW node, node = IF CellOf(cells, c) = 0 THEN next ELSE CellOf(cells, c), node < 0,
         NEW new \in Seq(Int), Len(cells) <= Len(new),
         SetsCell(new, cells, c, node)
  PROVE  \E to \in [Paths -> Int] :
           /\ Shape(to, slots, new, IF CellOf(cells, c) = 0 THEN next - 2 ELSE next, s, k + 1)
           /\ At(to, k + 1, Key(s)) = node
<1> USE WidthsFact DEF Widths
<1>1. /\ slots \in [Slots -> Int] /\ cells \in Seq(Int) /\ Held(at, slots, cells)
      /\ Apart(at, cells, next) /\ Owned(at, s, k) /\ Found(at, cells, s, k)
  BY DEF Shape
<1>2. /\ s \in Nat /\ Key(s) \in Nat /\ Onward(s, k + 1, k) /\ k \in Nat
      /\ k \in FastBits .. MaxSize - 1 /\ k + 1 \in FastBits .. MaxSize /\ k + 1 < MaxSize
      /\ Len(cells) \in Nat /\ Len(new) \in Nat /\ k \in FastBits .. Size(s) - 1
  <2>1. s \in Nat /\ Size(s) \in 1 .. MaxSize - 1 /\ Key(s) \in Nat
    BY UsedSize, OwnsAgree
  <2>2. Onward(s, k + 1, k)
    BY <2>1 DEF Onward
  <2> QED BY <1>1, <2>1, <2>2
<1>3. /\ At(at, k, Key(s)) < 0 /\ c \in Nat \ {0} /\ c < -next
      /\ At(at, k + 1, Key(s)) = CellOf(cells, c)
  BY <1>2, BranchIs, SMTT(30)
<1>4. next \in Int /\ next < 0
  BY <1>1 DEF Apart
<1>5. \A i \in Nat : i >= -next => CellOf(new, i) = 0
  <2>1. ASSUME NEW i \in Nat, i >= -next
        PROVE  CellOf(new, i) = 0
    <3>1. i # c /\ i \in Nat \ {0}
      BY <1>3, <1>4, <2>1
    <3>2. CellOf(cells, i) = 0
      BY <1>1, <2>1 DEF Apart
    <3> QED BY <3>1, <3>2 DEF SetsCell
  <2> QED BY <2>1
<1>6. CASE CellOf(cells, c) = 0
  <2>1. node = next /\ At(at, k + 1, Key(s)) = 0
    BY <1>3, <1>6
  <2>2. PICK to \in [Paths -> Int] : Puts(to, at, k + 1, Key(s), next)
    BY <1>2, <1>4, Changed
  <2>3. Owned(to, s, k + 1) /\ Found(to, new, s, k + 1)
    BY <1>1, <1>2, <1>4, <2>1, <2>2, NewNode
  <2>4. Apart(to, new, next - 2)
    BY <1>1, <1>2, <1>5, <2>1, <2>2, NewApart
  <2>5. SetsCell(new, cells, c, next)
    BY <2>1
  <2>6. Held(to, slots, new)
    BY <1>1, <1>2, <1>3, <1>4, <2>1, <2>2, <2>5, HeldBelow
  <2>7. Shape(to, slots, new, next - 2, s, k + 1)
    BY <1>1, <2>3, <2>4, <2>6 DEF Shape
  <2>8. At(to, k + 1, Key(s)) = node
    BY <1>2, <2>1, <2>2 DEF Puts, Agree
  <2> QED BY <1>6, <2>7, <2>8
<1>7. CASE CellOf(cells, c) # 0
  <2>1. node = CellOf(cells, c) /\ At(at, k + 1, Key(s)) < 0 /\ At(at, k + 1, Key(s)) = node
    BY <1>3, <1>7
  <2>2. Owned(at, s, k + 1) /\ Found(at, new, s, k + 1)
    BY <1>1, <1>2, <2>1, OldNode
  <2>3. Apart(at, new, next)
    <3>1. \A j \in FastBits .. MaxSize, z \in Nat : At(at, j, z) < 0 => At(at, j, z) = At(at, j, z)
      OBVIOUS
    <3> QED BY <1>1, <1>5, <3>1, SameApart
  <2>4. \A i \in Nat \ {0} : CellOf(new, i) = CellOf(cells, i)
    BY <2>1 DEF SetsCell
  <2>5. Held(at, slots, new)
    <3>1. ASSUME NEW j \in FastBits .. MaxSize - 1, NEW z \in Nat, At(at, j, z) < 0
          PROVE  At(at, j + 1, z) = CellOf(new, Bit(z, j) - At(at, j, z))
      <4>1. Bit(z, j) - At(at, j, z) \in Nat \ {0}
        BY <1>1, <3>1, CellBefore
      <4>2. At(at, j + 1, z) = CellOf(cells, Bit(z, j) - At(at, j, z))
        BY <1>1, <3>1 DEF Held
      <4> QED BY <2>4, <4>1, <4>2
    <3> QED BY <1>1, <3>1 DEF Held
  <2>6. Shape(at, slots, new, next, s, k + 1)
    BY <1>1, <2>2, <2>3, <2>5 DEF Shape
  <2> QED BY <1>7, <2>1, <2>6
<1> QED BY <1>6, <1>7

\* The leaf of a long code.
LEMMA LeafOf ==
  ASSUME Sized, NEW at \in [Paths -> Int], NEW slots, NEW cells, NEW next,
         NEW s \in UsedSet, Size(s) > FastBits, NEW k, k = Size(s) - 1,
         Shape(at, slots, cells, next, s, k),
         NEW c, c = Bit(Key(s), k) - At(at, k, Key(s)), CellOf(cells, c) = 0,
         NEW new \in Seq(Int), Len(cells) <= Len(new), c <= Len(new),
         SetsCell(new, cells, c, s)
  PROVE  \E to \in [Paths -> Int] : Shape(to, slots, new, next, s + 1, 0)
<1> USE WidthsFact DEF Widths
<1>1. /\ slots \in [Slots -> Int] /\ cells \in Seq(Int) /\ Held(at, slots, cells)
      /\ Apart(at, cells, next) /\ Owned(at, s, k) /\ Found(at, cells, s, k)
  BY DEF Shape
<1>2. /\ s \in Nat /\ s \in Int /\ s >= 0 /\ Key(s) \in Nat /\ k \in Nat /\ k + 1 = Size(s)
      /\ k \in FastBits .. MaxSize - 1 /\ k + 1 \in FastBits .. MaxSize
      /\ Len(cells) \in Nat /\ Len(new) \in Nat /\ k \in FastBits .. Size(s) - 1
  <2>1. s \in Nat /\ Size(s) \in 1 .. MaxSize - 1 /\ Key(s) \in Nat
    BY UsedSize, OwnsAgree
  <2> QED BY <1>1, <2>1
<1>3. /\ At(at, k, Key(s)) < 0 /\ c \in Nat \ {0} /\ c < -next
      /\ At(at, k + 1, Key(s)) = 0
  BY <1>2, BranchIs, SMTT(30)
<1>4. next \in Int /\ next < 0
  BY <1>1 DEF Apart
<1>5. \A i \in Nat : i >= -next => CellOf(new, i) = 0
  <2>1. ASSUME NEW i \in Nat, i >= -next
        PROVE  CellOf(new, i) = 0
    <3>1. i # c /\ i \in Nat \ {0}
      BY <1>3, <1>4, <2>1
    <3>2. CellOf(cells, i) = 0
      BY <1>1, <2>1 DEF Apart
    <3> QED BY <3>1, <3>2 DEF SetsCell
  <2> QED BY <2>1
<1>6. PICK to \in [Paths -> Int] : Puts(to, at, k + 1, Key(s), s)
  BY <1>2, Changed
<1>7. Puts(to, at, Size(s), Key(s), s)
  BY <1>2, <1>6
<1>8. Owned(to, s + 1, 0) /\ Found(to, new, s + 1, 0)
  BY <1>1, <1>2, <1>3, <1>7, LeafIn
<1>9. Held(to, slots, new)
  BY <1>1, <1>2, <1>3, <1>6, HeldBelow
<1>10. Apart(to, new, next)
  <2>1. \A j \in FastBits .. MaxSize, z \in Nat : At(to, j, z) < 0 => At(to, j, z) = At(at, j, z)
    BY <1>2, <1>6 DEF Puts
  <2> QED BY <1>1, <1>5, <2>1, SameApart
<1>11. Shape(to, slots, new, next, s + 1, 0)
  BY <1>1, <1>8, <1>9, <1>10 DEF Shape
<1> QED BY <1>11

(***************************************************************************)
(* What the tables say.                                                    *)
(***************************************************************************)

\* A code that finds its path taken has bits in common with another.
LEMMA Collides ==
  ASSUME Sized, NEW at \in [Paths -> Int], NEW n \in Nat, NEW m, Owned(at, n, m),
         NEW s \in UsedSet, n = s, NEW k \in FastBits .. MaxSize, NEW z \in Nat, Owns(s, z),
         At(at, k, z) > 0 \/ (At(at, k, z) < 0 /\ Size(s) <= k)
  PROVE  ~PrefixFree
<1> USE WidthsFact DEF Widths
<1>1. CASE At(at, k, z) > 0
  <2>1. PICK t \in UsedSet : Done(t, n) /\ Owns(t, z)
    <3>1. CASE k = FastBits
      BY <1>1, <3>1 DEF Owned
    <3>2. CASE k \in FastBits + 1 .. MaxSize
      BY <1>1, <3>2 DEF Owned
    <3> QED BY <3>1, <3>2
  <2>2. t # s
    BY <2>1, UsedSize DEF Done
  <2> QED BY <2>1, <2>2 DEF PrefixFree
<1>2. CASE At(at, k, z) < 0 /\ Size(s) <= k
  <2>1. PICK t \in UsedSet : Passes(t, k, n, m) /\ Agree(k, Key(t), z)
    BY <1>2 DEF Owned
  <2>2. Size(t) \in Nat /\ Size(s) \in Nat /\ Key(t) \in Nat
    BY UsedSize, OwnsAgree
  <2>3. Size(s) < Size(t)
    BY <1>2, <2>1, <2>2 DEF Passes
  <2>4. k \in Size(s) .. MaxSize
    BY <1>2, <2>2
  <2>5. Owns(s, Key(t)) /\ Owns(t, Key(t))
    BY <2>1, <2>2, <2>3, <2>4, Common
  <2> QED BY <2>2, <2>3, <2>5 DEF PrefixFree
<1> QED BY <1>1, <1>2

\* Of two symbols but 0 that are in no bits start with both codes.
LEMMA Distinct ==
  ASSUME Sized, NEW at \in [Paths -> Int], NEW slots, NEW cells, NEW next,
         Shape(at, slots, cells, next, total, 0),
         NEW s \in UsedSet, NEW t \in UsedSet, s # 0, t # 0, Size(s) <= Size(t),
         NEW v \in Nat, Owns(s, v), Owns(t, v)
  PROVE  s = t
<1> USE WidthsFact DEF Widths
<1>1. /\ s \in Nat /\ t \in Nat /\ Size(s) \in 1 .. MaxSize - 1 /\ Size(t) \in 1 .. MaxSize - 1
      /\ Key(s) \in Nat /\ Key(t) \in Nat /\ total \in Nat
  BY UsedSize, OwnsAgree, SizesAre
<1>2. Done(s, total) /\ Done(t, total) /\ \A k \in FastBits .. Size(t) - 1 : Passes(t, k, total, 0)
  <2>1. s < total /\ t < total
    BY <1>1, UsedSize DEF Symbols
  <2>2. \A k \in FastBits .. Size(t) - 1 : Passes(t, k, total, 0)
    BY <2>1 DEF Passes
  <2> QED BY <2>1, <2>2 DEF Done
<1>3. Agree(Size(s), Key(s), v) /\ Agree(Size(t), Key(t), v)
  BY OwnsAgree
<1>4. \A k \in 0 .. Size(t) : Agree(k, Key(t), v)
  BY <1>1, <1>3, AgreeLess
<1>5. CASE Size(s) <= FastBits
  <2>1. At(at, FastBits, v) = Packed(Size(s), s) /\ Packed(Size(s), s) \in Nat \ {0}
    BY <1>2, <1>5, PackedIs DEF Shape, Found
  <2>2. CASE Size(t) <= FastBits
    <3>1. At(at, FastBits, v) = Packed(Size(t), t)
      BY <1>2, <2>2 DEF Shape, Found
    <3>2. Packed(Size(s), s) % PackedBase = s /\ Packed(Size(t), t) % PackedBase = t
      BY PackedIs
    <3> QED BY <2>1, <3>1, <3>2
  <2>3. CASE Size(t) > FastBits
    <3>1. FastBits \in FastBits .. Size(t) - 1 /\ FastBits \in 0 .. Size(t)
          /\ FastBits \in FastBits .. MaxSize
      BY <1>1, <2>3
    <3>2. At(at, FastBits, Key(t)) < 0
      BY <1>2, <3>1 DEF Shape, Found
    <3>3. At(at, FastBits, Key(t)) = At(at, FastBits, v)
      BY <1>4, <3>1, AtSame
    <3> QED BY <2>1, <3>2, <3>3
  <2> QED BY <1>1, <2>2, <2>3
<1>6. CASE Size(s) > FastBits
  <2>1. At(at, Size(s), Key(s)) = s /\ At(at, Size(t), Key(t)) = t
    BY <1>1, <1>2, <1>6 DEF Shape, Found
  <2>2. At(at, Size(s), v) = s /\ At(at, Size(s), Key(t)) = At(at, Size(s), v)
    BY <1>1, <1>3, <1>4, <2>1, AtSame
  <2>3. CASE Size(s) = Size(t)
    BY <2>1, <2>2, <2>3
  <2>4. CASE Size(s) < Size(t)
    <3>1. Size(s) \in FastBits .. Size(t) - 1 /\ Size(s) \in FastBits .. MaxSize
      BY <1>1, <1>6, <2>4
    <3>2. At(at, Size(s), Key(t)) < 0
      BY <1>2, <3>1 DEF Shape, Found
    <3> QED BY <1>1, <2>2, <3>2
  <2> QED BY <1>1, <2>3, <2>4
<1> QED BY <1>1, <1>5, <1>6

\* A table that is done is of a complete code or of a single symbol.
LEMMA NoOverfull ==
  ASSUME Sized, Complete, NEW at \in [Paths -> Int], NEW slots, NEW cells, NEW next,
         Shape(at, slots, cells, next, total, 0)
  PROVE  IsComplete \/ Lone
<1> SUFFICES ASSUME ~IsComplete, ~Lone
             PROVE  FALSE
  OBVIOUS
<1>1. PICK s \in UsedSet, t \in UsedSet, v \in Nat :
        s # 0 /\ t # 0 /\ s # t /\ Owns(s, v) /\ Owns(t, v)
  BY Overfull
<1>2. Size(s) \in Nat /\ Size(t) \in Nat
  BY UsedSize
<1>3. CASE Size(s) <= Size(t)
  BY <1>1, <1>3, Distinct
<1>4. CASE Size(t) <= Size(s)
  BY <1>1, <1>4, Distinct
<1> QED BY <1>2, <1>3, <1>4

\* One turn of the loop of decode_huffman.
Turned(v, k, w) ==
  LET i == Bit(v, k) - w.sym
  IN IF w.sym >= 0 THEN w
     ELSE IF i > Len(tree) THEN OutOfTree
     ELSE [sym |-> tree[i], size |-> k + 1]

\* The loop turns once for each bit.
LEMMA Turns ==
  ASSUME tree \in Seq(Int), NEW v \in Nat, NEW root \in Int
  PROVE  \E walked :
           /\ Below(v, root) = walked[MaxSize]
           /\ walked[FastBits] = [sym |-> root, size |-> FastBits]
           /\ \A k \in FastBits .. MaxSize - 1 : walked[k + 1] = Turned(v, k, walked[k])
<1> USE WidthsFact DEF Widths
<1> DEFINE W == [sym : Int, size : Int]
           N == MaxSize - FastBits
           start == [sym |-> root, size |-> FastBits]
           turn == [x \in (0 .. N - 1) \X W |-> Turned(v, x[1] + FastBits, x[2])]
           next(f, k) ==
             IF k = FastBits THEN [sym |-> root, size |-> FastBits]
             ELSE LET w == f[k - 1]
                      i == Bit(v, k - 1) - w.sym
                  IN IF w.sym >= 0 THEN w
                     ELSE IF i > Len(tree) THEN OutOfTree
                     ELSE [sym |-> tree[i], size |-> k]
<1>1. N \in Nat /\ start \in W
  OBVIOUS
<1>2. ASSUME NEW k \in FastBits .. MaxSize - 1, NEW w \in W
      PROVE  Turned(v, k, w) \in W
  <2>1. Bit(v, k) \in {0, 1} /\ w.sym \in Int /\ k + 1 \in Int
    BY Bits
  <2>2. PICK i \in Int : i = Bit(v, k) - w.sym
    BY <2>1
  <2>3. CASE w.sym >= 0
    BY <2>3 DEF Turned
  <2>4. CASE ~(w.sym >= 0) /\ i > Len(tree)
    BY <2>2, <2>4 DEF Turned, OutOfTree
  <2>5. CASE ~(w.sym >= 0) /\ ~(i > Len(tree))
    <3>1. i \in 1 .. Len(tree)
      BY <2>1, <2>2, <2>5
    <3>2. tree[i] \in Int
      BY <3>1
    <3>3. Turned(v, k, w) = [sym |-> tree[i], size |-> k + 1]
      BY <2>2, <2>5 DEF Turned
    <3> QED BY <2>1, <3>2, <3>3
  <2> QED BY <2>3, <2>4, <2>5
<1>3. turn \in [(0 .. N - 1) \X W -> W]
  <2>1. ASSUME NEW x \in (0 .. N - 1) \X W
        PROVE  Turned(v, x[1] + FastBits, x[2]) \in W
    <3>1. x[1] + FastBits \in FastBits .. MaxSize - 1 /\ x[2] \in W
      OBVIOUS
    <3> HIDE DEF W
    <3> QED BY <1>2, <3>1
  <2> HIDE DEF W, N
  <2> QED BY <2>1
<1>4. \A n \in 0 .. N - 1 : \A w \in W : turn[<<n, w>>] = Turned(v, n + FastBits, w)
  <2> HIDE DEF W, N
  <2> QED OBVIOUS
<1> HIDE DEF turn, W, start
<1>5. PICK h : h \in [0 .. N -> W] /\ Recurs(h, N, start, turn)
  BY <1>1, <1>3, Recursion
<1> DEFINE g == [k \in FastBits .. MaxSize |-> h[k - FastBits]]
<1>6. ASSUME NEW k \in FastBits .. MaxSize
      PROVE  g[k] = next(g, k)
  <2>1. CASE k = FastBits
    BY <1>5, <2>1 DEF Recurs, start
  <2>2. CASE k # FastBits
    <3>1. PICK n \in 0 .. N - 1 : n = k - 1 - FastBits
      BY <2>2
    <3>2. h[n] \in W /\ h[n + 1] = turn[<<n, h[n]>>]
      BY <1>5 DEF Recurs
    <3>3. h[n + 1] = Turned(v, n + FastBits, h[n])
      BY <1>4, <3>2
    <3>4. g[k] = h[n + 1] /\ g[k - 1] = h[n] /\ n + FastBits = k - 1 /\ (k - 1) + 1 = k
      BY <2>2, <3>1
    <3>5. g[k] = Turned(v, k - 1, g[k - 1])
      BY <3>3, <3>4
    <3> HIDE DEF g
    <3> QED BY <2>2, <3>4, <3>5 DEF Turned
  <2> QED BY <2>1, <2>2
<1>7. g = [k \in FastBits .. MaxSize |-> next(g, k)]
  <2>1. g = [k \in FastBits .. MaxSize |-> g[k]]
    OBVIOUS
  <2> HIDE DEF g, next
  <2> QED BY <1>6, <2>1
<1> HIDE DEF g
<1> DEFINE walked == CHOOSE f : f = [k \in FastBits .. MaxSize |-> next(f, k)]
<1>8. walked = [k \in FastBits .. MaxSize |-> next(walked, k)]
  BY <1>7
<1>9. Below(v, root) = walked[MaxSize]
  BY Zenon DEF Below
<1> HIDE DEF walked
<1>10. walked[FastBits] = [sym |-> root, size |-> FastBits]
  <2>1. FastBits \in FastBits .. MaxSize
    OBVIOUS
  <2>2. walked[FastBits] = next(walked, FastBits)
    BY <1>8, <2>1
  <2> QED BY <2>2
<1>11. ASSUME NEW k \in FastBits .. MaxSize - 1
       PROVE  walked[k + 1] = Turned(v, k, walked[k])
  <2>1. k + 1 \in FastBits .. MaxSize /\ k + 1 # FastBits /\ (k + 1) - 1 = k
    OBVIOUS
  <2>2. walked[k + 1] = next(walked, k + 1)
    <3> HIDE DEF next
    <3> QED BY <1>8, <2>1
  <2> QED BY <2>1, <2>2 DEF Turned
<1> QED BY <1>9, <1>10, <1>11

\* In a table that is done, what starts with a code is decoded as its symbol.
LEMMA DecodeIs ==
  ASSUME Sized, NEW at \in [Paths -> Int], Shape(at, lookup, tree, treeNext, total, 0), PrefixFree,
         NEW s \in UsedSet, NEW v \in Nat, Owns(s, v)
  PROVE  Decode(v) = [sym |-> s, size |-> Size(s)]
<1> USE WidthsFact DEF Widths
<1>1. /\ lookup \in [Slots -> Int] /\ tree \in Seq(Int) /\ Held(at, lookup, tree)
      /\ Apart(at, tree, treeNext) /\ Owned(at, total, 0) /\ Found(at, tree, total, 0)
  BY DEF Shape
<1>2. /\ s \in Nat /\ Size(s) \in 1 .. MaxSize - 1 /\ Key(s) \in Nat /\ total \in Nat
      /\ Agree(Size(s), Key(s), v) /\ s < total
  BY UsedSize, OwnsAgree, SizesAre DEF Symbols
<1>3. Done(s, total) /\ \A k \in FastBits .. Size(s) - 1 : Passes(s, k, total, 0)
  BY <1>2 DEF Done, Passes
<1>4. \A k \in 0 .. Size(s) : Agree(k, Key(s), v)
  BY <1>2, AgreeLess
<1> DEFINE slot == lookup[v % Pow2[FastBits]]
<1>5. slot = At(at, FastBits, v)
  BY <1>1 DEF Held
<1>6. CASE Size(s) <= FastBits
  <2>1. slot = Packed(Size(s), s)
    BY <1>1, <1>3, <1>5, <1>6 DEF Found
  <2>2. slot >= 0 /\ slot % PackedBase = s /\ slot \div PackedBase = Size(s)
    BY <2>1, PackedIs
  <2> HIDE DEF slot
  <2>3. Decode(v) = IF slot >= 0 THEN [sym |-> slot % PackedBase, size |-> slot \div PackedBase]
                    ELSE Below(v, slot)
    BY Zenon DEF Decode, slot
  <2> QED BY <2>2, <2>3
<1>7. CASE Size(s) > FastBits
  <2>1. \A k \in FastBits .. Size(s) - 1 : At(at, k, v) < 0
    <3>1. ASSUME NEW k \in FastBits .. Size(s) - 1
          PROVE  At(at, k, v) < 0
      <4>1. k \in FastBits .. MaxSize /\ k \in 0 .. Size(s)
        BY <1>2
      <4>2. At(at, k, Key(s)) < 0
        BY <1>1, <1>3, <4>1 DEF Found
      <4> QED BY <1>4, <4>1, <4>2, AtSame
    <3> QED BY <3>1
  <2>2. slot < 0 /\ slot \in Int /\ Decode(v) = Below(v, slot)
    <3>1. FastBits \in FastBits .. Size(s) - 1 /\ FastBits \in FastBits .. MaxSize
      BY <1>2, <1>7
    <3>2. slot < 0 /\ slot \in Int
      BY <1>5, <2>1, <3>1, AtTypes
    <3> HIDE DEF slot
    <3>3. Decode(v) = IF slot >= 0 THEN [sym |-> slot % PackedBase, size |-> slot \div PackedBase]
                      ELSE Below(v, slot)
      BY Zenon DEF Decode, slot
    <3> QED BY <3>2, <3>3
  <2>3. PICK walked :
          /\ Below(v, slot) = walked[MaxSize]
          /\ walked[FastBits] = [sym |-> slot, size |-> FastBits]
          /\ \A k \in FastBits .. MaxSize - 1 : walked[k + 1] = Turned(v, k, walked[k])
    BY <1>1, <2>2, Turns
  <2> HIDE DEF slot
  <2> DEFINE i(k) == Bit(v, k) - At(at, k, v)
  <2>4. ASSUME NEW k \in FastBits .. Size(s) - 1
        PROVE  /\ i(k) \in 1 .. Len(tree) /\ tree[i(k)] = At(at, k + 1, v)
    <3>1. /\ k \in FastBits .. MaxSize - 1 /\ At(at, k, v) < 0 /\ k \in 0 .. MaxSize /\ k \in Nat
          /\ k + 1 \in FastBits .. MaxSize
      BY <1>2, <2>1
    <3>2. i(k) \in Nat \ {0} /\ i(k) < -treeNext
      BY <1>1, <3>1, CellBefore
    <3>3. At(at, k + 1, v) = CellOf(tree, i(k))
      BY <1>1, <3>1 DEF Held
    <3>4. i(k) <= Len(tree)
      <4>1. CASE k + 1 \in FastBits .. Size(s) - 1
        <5>1. At(at, k + 1, v) < 0
          BY <2>1, <4>1
        <5>2. CellOf(tree, i(k)) # 0
          BY <3>3, <5>1
        <5> QED BY <5>2 DEF CellOf
      <4>2. CASE k = Size(s) - 1
        <5>1. Bit(Key(s), k) - At(at, k, Key(s)) <= Len(tree)
          BY <1>1, <1>3, <1>7, <4>2 DEF Found
        <5>2. Agree(k + 1, Key(s), v)
          BY <1>2, <4>2
        <5>3. Agree(k, Key(s), v) /\ Bit(Key(s), k) = Bit(v, k)
          BY <1>2, <3>1, <5>2, AgreeMore
        <5>4. At(at, k, Key(s)) = At(at, k, v)
          BY <5>3, AtSame
        <5> QED BY <5>1, <5>3, <5>4
      <4> QED BY <1>2, <4>1, <4>2
    <3>5. CellOf(tree, i(k)) = tree[i(k)]
      BY <3>4 DEF CellOf
    <3>6. Len(tree) \in Nat
      BY <1>1
    <3> QED BY <3>2, <3>3, <3>4, <3>5, <3>6
  <2>5. ASSUME NEW k \in FastBits .. Size(s) - 1, walked[k] = [sym |-> At(at, k, v), size |-> k]
        PROVE  walked[k + 1] = [sym |-> At(at, k + 1, v), size |-> k + 1]
    <3>1. k \in FastBits .. MaxSize - 1 /\ At(at, k, v) < 0 /\ k \in FastBits .. MaxSize
          /\ At(at, k, v) \in Int
      BY <1>2, <2>1, AtTypes
    <3>2. walked[k + 1] = Turned(v, k, walked[k])
      BY <2>3, <3>1
    <3>3. ~(i(k) > Len(tree)) /\ tree[i(k)] = At(at, k + 1, v)
      BY <1>1, <2>4
    <3>4. walked[k].sym = At(at, k, v) /\ ~(At(at, k, v) >= 0)
      BY <2>5, <3>1
    <3>5. walked[k + 1] = [sym |-> tree[i(k)], size |-> k + 1]
      BY <3>2, <3>3, <3>4 DEF Turned
    <3> QED BY <3>3, <3>5
  <2> DEFINE S == {n \in 0 .. Size(s) - FastBits :
                     walked[n + FastBits] =
                       [sym |-> At(at, n + FastBits, v), size |-> n + FastBits]}
  <2>6. S = 0 .. Size(s) - FastBits
    <3>1. 0 \in S
      <4>1. 0 + FastBits = FastBits /\ 0 \in 0 .. Size(s) - FastBits
        BY <1>2, <1>7
      <4> QED BY <1>5, <2>3, <4>1
    <3>2. ASSUME NEW n \in 0 .. Size(s) - FastBits - 1, n \in S
          PROVE  n + 1 \in S
      <4>1. n + FastBits \in FastBits .. Size(s) - 1 /\ (n + 1) + FastBits = (n + FastBits) + 1
            /\ n + 1 \in 0 .. Size(s) - FastBits
        BY <1>2
      <4>2. walked[n + FastBits] = [sym |-> At(at, n + FastBits, v), size |-> n + FastBits]
        BY <3>2
      <4>3. walked[(n + FastBits) + 1] =
              [sym |-> At(at, (n + FastBits) + 1, v), size |-> (n + FastBits) + 1]
        BY <2>5, <4>1, <4>2
      <4> QED BY <4>1, <4>3
    <3>3. S \in SUBSET (0 .. Size(s) - FastBits) /\ Size(s) - FastBits \in Nat
      BY <1>2, <1>7
    <3> HIDE DEF S
    <3> QED BY <3>1, <3>2, <3>3, InductionUpTo
  <2>7. walked[Size(s)] = [sym |-> At(at, Size(s), v), size |-> Size(s)]
    <3>1. /\ Size(s) - FastBits \in 0 .. Size(s) - FastBits
          /\ (Size(s) - FastBits) + FastBits = Size(s)
      BY <1>2, <1>7
    <3>2. Size(s) - FastBits \in S
      BY <2>6, <3>1
    <3>3. walked[(Size(s) - FastBits) + FastBits] =
            [sym |-> At(at, (Size(s) - FastBits) + FastBits, v),
             size |-> (Size(s) - FastBits) + FastBits]
      BY <3>2
    <3> QED BY <3>1, <3>3
  <2> HIDE DEF S, i
  <2>8. At(at, Size(s), v) = s
    <3>1. At(at, Size(s), v) = At(at, Size(s), Key(s)) /\ At(at, Size(s), v) \in Int
          /\ Size(s) \in FastBits + 1 .. MaxSize /\ Size(s) \in FastBits .. MaxSize
      <4>1. Size(s) \in FastBits + 1 .. MaxSize /\ Size(s) \in FastBits .. MaxSize
        BY <1>2, <1>7
      <4> QED BY <1>2, <4>1, AtSame, AtTypes
    <3>2. CASE s # 0
      BY <1>1, <1>3, <1>7, <3>1, <3>2 DEF Found
    <3>3. CASE s = 0
      <4>1. ~(At(at, Size(s), v) < 0)
        <5> SUFFICES ASSUME At(at, Size(s), v) < 0
                     PROVE  FALSE
          OBVIOUS
        <5>1. PICK t \in UsedSet : Passes(t, Size(s), total, 0) /\ Agree(Size(s), Key(t), v)
          BY <1>1, <3>1 DEF Owned
        <5>2. Size(t) \in Nat /\ Key(t) \in Nat
          BY UsedSize, OwnsAgree
        <5>3. Size(s) < Size(t)
          BY <1>2, <5>1, <5>2 DEF Passes
        <5>4. Size(s) \in Size(s) .. MaxSize /\ Size(s) <= Size(t)
          BY <1>2, <5>2, <5>3
        <5>5. Owns(s, Key(t)) /\ Owns(t, Key(t))
          BY <5>1, <5>4, Common
        <5> QED BY <1>2, <5>2, <5>3, <5>5 DEF PrefixFree
      <4>2. ~(At(at, Size(s), v) > 0)
        <5> SUFFICES ASSUME At(at, Size(s), v) > 0
                     PROVE  FALSE
          OBVIOUS
        <5>1. PICK t \in UsedSet : Owns(t, v) /\ At(at, Size(s), v) = t
          BY <1>1, <3>1 DEF Owned
        <5> QED BY <3>3, <5>1 DEF PrefixFree
      <4> QED BY <3>1, <3>3, <4>1, <4>2
    <3> QED BY <3>2, <3>3
  <2>9. walked[Size(s)] = [sym |-> s, size |-> Size(s)]
    BY <2>7, <2>8
  <2> DEFINE R == {n \in 0 .. MaxSize - Size(s) :
                     walked[n + Size(s)] = [sym |-> s, size |-> Size(s)]}
  <2>10. R = 0 .. MaxSize - Size(s)
    <3>1. 0 \in R
      <4>1. 0 + Size(s) = Size(s) /\ 0 \in 0 .. MaxSize - Size(s)
        BY <1>2
      <4> QED BY <2>9, <4>1
    <3>2. ASSUME NEW n \in 0 .. MaxSize - Size(s) - 1, n \in R
          PROVE  n + 1 \in R
      <4>1. n + Size(s) \in FastBits .. MaxSize - 1 /\ (n + 1) + Size(s) = (n + Size(s)) + 1
            /\ n + 1 \in 0 .. MaxSize - Size(s)
        BY <1>2, <1>7
      <4>2. walked[n + Size(s)] = [sym |-> s, size |-> Size(s)]
        BY <3>2
      <4>3. walked[(n + Size(s)) + 1] = Turned(v, n + Size(s), walked[n + Size(s)])
        BY <2>3, <4>1
      <4>4. Turned(v, n + Size(s), walked[n + Size(s)]) = walked[n + Size(s)]
        BY <1>2, <4>2 DEF Turned
      <4> QED BY <4>1, <4>2, <4>3, <4>4
    <3>3. R \in SUBSET (0 .. MaxSize - Size(s)) /\ MaxSize - Size(s) \in Nat
      BY <1>2
    <3> HIDE DEF R
    <3> QED BY <3>1, <3>2, <3>3, InductionUpTo
  <2>11. walked[MaxSize] = [sym |-> s, size |-> Size(s)]
    <3>1. MaxSize - Size(s) \in 0 .. MaxSize - Size(s) /\ (MaxSize - Size(s)) + Size(s) = MaxSize
      BY <1>2
    <3>2. MaxSize - Size(s) \in R
      BY <2>10, <3>1
    <3>3. walked[(MaxSize - Size(s)) + Size(s)] = [sym |-> s, size |-> Size(s)]
      BY <3>2
    <3> QED BY <3>1, <3>3
  <2> QED BY <2>2, <2>3, <2>11
<1> QED BY <1>2, <1>6, <1>7

-----------------------------------------------------------------------------
(***************************************************************************)
(* The invariant.                                                          *)
(***************************************************************************)

\* How deep the symbol that is inserted is in.
Depth == IF step = "walk" THEN Size(sym) - walk.left ELSE 0

\* The walk of the symbol is at a node of its path.
OnPath(at) ==
  step = "walk" =>
    /\ sym \in UsedSet /\ walk.left \in 1 .. Size(sym) - FastBits
    /\ walk.bits = Key(sym) \div Pow2[Depth] /\ walk.node = At(at, Depth, Key(sym))

\* The codes of a size are given out in the order of the symbols.
InOrder ==
  /\ nextCode \in [1 .. MaxSize -> Nat]
  /\ \A k \in 1 .. MaxSize :
       nextCode[k] = FirstCodes[k] + Count(k)[IF step = "walk" THEN sym + 1 ELSE sym]

\* The tables hold a tree.
Tree(at) == Shape(at, lookup, tree, treeNext, sym, Depth) /\ OnPath(at)

\* What is read are sizes; nothing is in the tables before they are built.
SizesInv ==
  /\ sizes \in Seq(0 .. MaxSize - 1) /\ total \in Counts
  /\ step \in {"sizes", "build", "walk", "built", "refused"}
  /\ step = "sizes" => lookup = [p \in Slots |-> 0] /\ treeNext = -1 /\ sym = 0

\* The code passed the test, and the tables hold a tree of it.
BuildInv ==
  step \in {"build", "walk", "built"} =>
    /\ Len(sizes) = total /\ Complete /\ InOrder
    /\ sym \in 0 .. total /\ (step = "built" => sym = total)
    /\ \E at \in [Paths -> Int] : Tree(at)

\* What is refused failed the test or has codes in common.
RefusedInv == step = "refused" /\ Len(sizes) = total => ~Complete \/ ~PrefixFree

\* The inductive invariant.
CodeInv == SizesInv /\ BuildInv /\ RefusedInv

\* What depends on the sizes alone changes with them alone.
LEMMA Unmoved ==
  ASSUME sizes' = sizes, total' = total
  PROVE  /\ UsedSet' = UsedSet /\ Symbols' = Symbols /\ FirstCodes' = FirstCodes
         /\ \A s : Size(s)' = Size(s) /\ Key(s)' = Key(s)
         /\ \A k : Count(k)' = Count(k)
         /\ \A s, z : Owns(s, z)' <=> Owns(s, z)
         /\ Sized' <=> Sized
         /\ Complete' <=> Complete
         /\ PrefixFree' <=> PrefixFree
<1>1. UsedSet' = UsedSet
  BY Zenon DEF UsedSet
<1>2. Symbols' = Symbols
  BY Zenon DEF Symbols
<1>3. \A k : Count(k)' = Count(k)
  <2>1. ASSUME NEW k PROVE Count(k)' = Count(k)
    BY Zenon DEF Count
  <2> QED BY <2>1
<1>4. FirstCodes' = FirstCodes
  BY DEF FirstCodes, Used, Count
<1>5. \A s : Size(s)' = Size(s)
  BY Zenon DEF Size
<1>6. \A s : Key(s)' = Key(s)
  <2>1. ASSUME NEW s PROVE Key(s)' = Key(s)
    BY <1>3, <1>4, <1>5, Zenon DEF Key, Code
  <2> QED BY <2>1
<1>7. \A s, z : Owns(s, z)' <=> Owns(s, z)
  <2>1. ASSUME NEW s, NEW z PROVE Owns(s, z)' <=> Owns(s, z)
    BY <1>5, <1>6 DEF Owns
  <2> QED BY <2>1
<1>8. Sized' <=> Sized
  BY Zenon DEF Sized
<1>9. Complete' <=> Complete
  <2>1. UsedSyms' = UsedSyms
    BY DEF UsedSyms, Used, Count
  <2> QED BY <1>4, <2>1, Zenon DEF Complete
<1>10. PrefixFree' <=> PrefixFree
  BY <1>1, <1>7, Zenon DEF PrefixFree
<1> QED BY <1>1, <1>2, <1>3, <1>4, <1>5, <1>6, <1>7, <1>8, <1>9, <1>10

\* The tree that the next tables hold is one of the same sizes.
LEMMA ShapeNext ==
  ASSUME sizes' = sizes, total' = total, NEW at, NEW m, Depth' = m,
         Shape(at, lookup', tree', treeNext', sym', m)
  PROVE  Shape(at, lookup, tree, treeNext, sym, Depth)'
<1>1. /\ UsedSet' = UsedSet /\ \A s : Size(s)' = Size(s) /\ Key(s)' = Key(s)
      /\ \A s, z : Owns(s, z)' <=> Owns(s, z)
  BY Unmoved
<1>2. \A s : Done(s, sym)' <=> Done(s, sym')
  <2>1. ASSUME NEW s PROVE Done(s, sym)' <=> Done(s, sym')
    BY <1>1, Zenon DEF Done
  <2> QED BY <2>1
<1>3. \A s, k : Passes(s, k, sym, Depth)' <=> Passes(s, k, sym', m)
  <2>1. ASSUME NEW s, NEW k PROVE Passes(s, k, sym, Depth)' <=> Passes(s, k, sym', m)
    BY <1>1, Zenon DEF Passes
  <2> QED BY <2>1
<1>4. Held(at, lookup, tree)'
  BY Zenon DEF Shape, Held, CellOf
<1>5. Apart(at, tree, treeNext)'
  BY Zenon DEF Shape, Apart, CellOf
<1>6. Owned(at, sym, Depth)'
  <2>1. Owned(at, sym', m)
    BY DEF Shape
  <2> QED BY <1>1, <1>2, <1>3, <2>1 DEF Owned
<1>7. Found(at, tree, sym, Depth)'
  <2>1. Found(at, tree', sym', m)
    BY DEF Shape
  <2> QED BY <1>1, <1>2, <1>3, <2>1 DEF Found
<1>8. lookup' \in [Slots -> Int] /\ tree' \in Seq(Int)
  BY DEF Shape
<1> QED BY <1>4, <1>5, <1>6, <1>7, <1>8, Zenon DEF Shape

\* What the invariant says while the table is built.
LEMMA WhileBuilt ==
  ASSUME CodeInv, step \in {"build", "walk", "built"}
  PROVE  /\ Sized /\ Complete /\ InOrder /\ sym \in 0 .. total /\ sym \in Nat /\ total \in Nat
         /\ step = "built" => sym = total
         /\ sym < total => sym \in Symbols /\ SymSize = Size(sym)
         /\ \E at \in [Paths -> Int] : Tree(at)
<1>1. Sized
  BY DEF CodeInv, SizesInv, BuildInv, Sized
<1>2. total \in Nat
  BY <1>1, SizesAre
<1>3. /\ Complete /\ InOrder /\ sym \in 0 .. total /\ (step = "built" => sym = total)
      /\ \E at \in [Paths -> Int] : Tree(at)
  BY Zenon DEF CodeInv, BuildInv
<1>4. sym < total => sym \in Symbols /\ SymSize = Size(sym)
  BY <1>2, <1>3 DEF Symbols, SymSize, Size
<1> QED BY <1>1, <1>2, <1>3, <1>4

\* The invariant holds in a table that is built on.
LEMMA Goes ==
  ASSUME CodeInv, Sized, Complete, sizes' = sizes, total' = total,
         step' \in {"build", "walk", "built"}, InOrder', sym' \in 0 .. total,
         step' = "built" => sym' = total,
         NEW to \in [Paths -> Int], NEW m, Depth' = m,
         Shape(to, lookup', tree', treeNext', sym', m), OnPath(to)'
  PROVE  CodeInv'
<1>1. SizesInv'
  BY DEF CodeInv, SizesInv
<1>2. BuildInv'
  <2>1. Tree(to)'
    BY ShapeNext, Zenon DEF Tree
  <2>2. Len(sizes') = total' /\ Complete'
    BY Unmoved DEF Sized
  <2> QED BY <2>1, <2>2, Zenon DEF BuildInv
<1>3. RefusedInv'
  BY DEF RefusedInv
<1> QED BY <1>1, <1>2, <1>3, Zenon DEF CodeInv

\* It holds in a table that is refused for codes that have bits in common.
LEMMA Refuses ==
  ASSUME CodeInv, Refuse, ~PrefixFree
  PROVE  CodeInv'
<1>1. sizes' = sizes /\ total' = total /\ step' = "refused"
  BY DEF Refuse
<1>2. SizesInv'
  BY <1>1 DEF CodeInv, SizesInv
<1>3. BuildInv'
  BY <1>1 DEF BuildInv
<1>4. RefusedInv'
  BY <1>1, Unmoved, Zenon DEF RefusedInv
<1> QED BY <1>2, <1>3, <1>4, Zenon DEF CodeInv

\* The symbols whose codes are given out.
Given == IF step = "walk" THEN sym + 1 ELSE sym

\* A step that gives out no code keeps the order.
LEMMA OrderSame ==
  ASSUME sizes' = sizes, total' = total, InOrder, nextCode' = nextCode,
         \A k \in 1 .. MaxSize : Count(k)[Given'] = Count(k)[Given]
  PROVE  InOrder'
<1>1. FirstCodes' = FirstCodes /\ \A k : Count(k)' = Count(k)
  BY Unmoved
<1>2. \A k \in 1 .. MaxSize : nextCode'[k] = FirstCodes[k] + Count(k)[Given']
  BY DEF InOrder, Given
<1> QED BY <1>1, <1>2 DEF InOrder, Given

\* A step that gives out the code of the symbol keeps it.
LEMMA OrderMore ==
  ASSUME Sized, sizes' = sizes, total' = total, InOrder, sym \in UsedSet,
         nextCode' = [nextCode EXCEPT ![Size(sym)] = @ + 1], step # "walk", Given' = sym + 1
  PROVE  InOrder'
<1> USE WidthsFact DEF Widths
<1>1. FirstCodes' = FirstCodes /\ \A k : Count(k)' = Count(k)
  BY Unmoved
<1>2. sym \in Symbols /\ sym \in 0 .. total /\ Size(sym) \in 1 .. MaxSize
  BY UsedSize
<1>3. nextCode' \in [1 .. MaxSize -> Nat]
  BY <1>2 DEF InOrder
<1>4. ASSUME NEW k \in 1 .. MaxSize
      PROVE  nextCode'[k] = FirstCodes[k] + Count(k)[sym + 1]
  <2>1. nextCode[k] = FirstCodes[k] + Count(k)[sym] /\ nextCode[k] \in Nat
    BY DEF InOrder
  <2>2. /\ Count(k)[sym + 1] = Count(k)[sym] + (IF Size(sym) = k THEN 1 ELSE 0)
        /\ Count(k)[sym] \in Nat
    BY <1>2, Counted
  <2>3. FirstCodes[k] \in Nat
    BY FirstCodesAre
  <2>4. nextCode'[k] = nextCode[k] + (IF Size(sym) = k THEN 1 ELSE 0)
    BY <1>2 DEF InOrder
  <2> QED BY <2>1, <2>2, <2>3, <2>4
<1> QED BY <1>1, <1>3, <1>4 DEF InOrder, Given

\* The code of the symbol that is next.
LEMMA SymCodeIs ==
  ASSUME Sized, InOrder, sym \in Symbols, step = "build", SymSize # 0
  PROVE  /\ sym \in UsedSet /\ SymSize = Size(sym) /\ SymSize \in 1 .. MaxSize - 1
         /\ SymCode = Key(sym) /\ Key(sym) \in Nat
<1> USE WidthsFact DEF Widths
<1>1. SymSize = Size(sym)
  BY DEF SymSize, Size
<1>2. sym \in UsedSet
  BY <1>1, SizesAre
<1>3. Size(sym) \in 1 .. MaxSize - 1 /\ Key(sym) \in Nat
  BY <1>2, UsedSize, OwnsAgree
<1>4. nextCode[Size(sym)] = Code(sym)
  BY <1>3 DEF InOrder, Code
<1> QED BY <1>1, <1>2, <1>3, <1>4 DEF SymCode, Key

(***************************************************************************)
(* Each step keeps the invariant.                                          *)
(***************************************************************************)

\* Nothing is read at first.
LEMMA InitCode == TableInit => CodeInv
<1> SUFFICES ASSUME TableInit
             PROVE  CodeInv
  OBVIOUS
<1>1. SizesInv
  BY DEF TableInit, SizesInv, Slots
<1>2. BuildInv /\ RefusedInv
  BY DEF TableInit, BuildInv, RefusedInv
<1> QED BY <1>1, <1>2 DEF CodeInv

\* Reading goes on: the sizes stay sizes.
LEMMA ReadsOn ==
  ASSUME CodeInv, step = "sizes", total' = total, UnchangedTable, step' = step,
         sizes' \in Seq(0 .. MaxSize - 1)
  PROVE  CodeInv'
<1>1. SizesInv'
  BY DEF CodeInv, SizesInv, UnchangedTable
<1>2. BuildInv' /\ RefusedInv'
  BY DEF BuildInv, RefusedInv
<1> QED BY <1>1, <1>2 DEF CodeInv

\* A size that is named keeps the invariant.
LEMMA LiteralStep ==
  ASSUME CodeInv, NEW s \in Literals, Literal(s)
  PROVE  CodeInv'
<1>1. s \in 0 .. MaxSize - 1
  BY CodeAssumption
<1>2. sizes \in Seq(0 .. MaxSize - 1)
  BY DEF CodeInv, SizesInv
<1>3. sizes' \in Seq(0 .. MaxSize - 1)
  BY <1>1, <1>2 DEF Literal
<1> QED BY <1>3, ReadsOn DEF Literal, Reading

\* So does a run of zeros.
LEMMA ZeroRunStep ==
  ASSUME CodeInv, NEW n \in ZeroRuns, ZeroRun(n)
  PROVE  CodeInv'
<1> USE WidthsFact DEF Widths
<1>1. n \in Nat
  BY CodeAssumption
<1>2. sizes \in Seq(0 .. MaxSize - 1)
  BY DEF CodeInv, SizesInv
<1>3. [i \in 1 .. n |-> 0] \in Seq(0 .. MaxSize - 1)
  BY <1>1
<1>4. sizes' \in Seq(0 .. MaxSize - 1)
  BY <1>2, <1>3 DEF ZeroRun
<1> QED BY <1>4, ReadsOn DEF ZeroRun, Reading

\* So does a repeat; it is only refused before all sizes are read.
LEMMA RepeatStep ==
  ASSUME CodeInv, NEW n \in Repeats, Repeat(n)
  PROVE  CodeInv'
<1> USE WidthsFact DEF Widths
<1>1. n \in Nat
  BY CodeAssumption
<1>2. sizes \in Seq(0 .. MaxSize - 1) /\ step = "sizes" /\ Len(sizes) < total
  BY DEF CodeInv, SizesInv, Repeat, Reading
<1>3. CASE MayRepeat(n)
  <2>1. Last(sizes) \in 0 .. MaxSize - 1
    BY <1>2, <1>3 DEF MayRepeat, Last
  <2>2. [i \in 1 .. n |-> Last(sizes)] \in Seq(0 .. MaxSize - 1)
    BY <1>1, <2>1
  <2>3. sizes' = sizes \o [i \in 1 .. n |-> Last(sizes)]
    BY <1>3 DEF Repeat
  <2>4. sizes' \in Seq(0 .. MaxSize - 1)
    BY <1>2, <2>2, <2>3
  <2> QED BY <1>2, <1>3, <2>4, ReadsOn DEF Repeat
<1>4. CASE ~MayRepeat(n)
  <2>1. step' = "refused" /\ sizes' = sizes /\ total' = total
    BY <1>4 DEF Repeat
  <2>2. SizesInv'
    BY <2>1 DEF CodeInv, SizesInv
  <2>3. BuildInv'
    BY <2>1 DEF BuildInv
  <2>4. RefusedInv'
    <3>1. Len(sizes') # total'
      <4>1. total \in Nat
        BY CodeAssumption DEF CodeInv, SizesInv
      <4> QED BY <1>2, <2>1, <4>1
    <3> QED BY <3>1, Zenon DEF RefusedInv
  <2> QED BY <2>2, <2>3, <2>4, Zenon DEF CodeInv
<1> QED BY <1>3, <1>4

\* A table starts out empty, and with the first codes as the next ones.
LEMMA StartStep ==
  ASSUME CodeInv, StartBuild
  PROVE  CodeInv'
<1> USE WidthsFact DEF Widths
<1>1. /\ step = "sizes" /\ sizes' = sizes /\ total' = total /\ lookup' = lookup
      /\ treeNext' = treeNext /\ sym' = sym
  BY DEF StartBuild
<1>2. /\ sizes \in Seq(0 .. MaxSize - 1) /\ total \in Counts
      /\ lookup = [p \in Slots |-> 0] /\ treeNext = -1 /\ sym = 0
  BY <1>1 DEF CodeInv, SizesInv
<1>3. CASE Len(sizes) = total /\ Complete
  <2>1. Sized
    BY <1>2, <1>3 DEF Sized
  <2>2. /\ step' = "build" /\ nextCode' = FirstCodes /\ tree' = [i \in 1 .. 2 * total |-> 0]
    BY <1>3 DEF StartBuild
  <2>3. total \in Nat
    BY <2>1, SizesAre
  <2>4. tree' \in Seq(Int) /\ \A i \in Nat \ {0} : CellOf(tree', i) = 0
    <3>1. tree' \in Seq(Int) /\ Len(tree') = 2 * total
      BY <2>2, <2>3
    <3>2. ASSUME NEW i \in Nat \ {0}
          PROVE  CellOf(tree', i) = 0
      BY <2>2, <2>3, <3>1 DEF CellOf
    <3> QED BY <3>1, <3>2
  <2>5. treeNext' \in Int /\ treeNext' + 1 = 0 /\ sym' = 0
    BY <1>1, <1>2
  <2>6. PICK to \in [Paths -> Int] : Shape(to, lookup', tree', treeNext', 0, 0)
    BY <1>1, <1>2, <2>1, <2>4, <2>5, NothingIn
  <2>7. Depth' = 0 /\ OnPath(to)'
    BY <2>2 DEF Depth, OnPath
  <2>8. InOrder'
    <3>1. FirstCodes' = FirstCodes /\ \A k : Count(k)' = Count(k)
      BY <1>1, Unmoved
    <3>2. \A k \in 1 .. MaxSize : FirstCodes[k] \in Nat /\ Count(k)[0] = 0
      BY <2>1, FirstCodesAre, Counted
    <3>3. FirstCodes \in [1 .. MaxSize -> Nat]
      BY <2>1, FirstCodesAre
    <3> QED BY <2>2, <2>5, <3>1, <3>2, <3>3 DEF InOrder
  <2>9. sym' \in 0 .. total
    BY <2>3, <2>5
  <2>10. step' \in {"build", "walk", "built"} /\ step' # "built"
    BY <2>2
  <2> QED BY <1>1, <1>3, <2>1, <2>5, <2>6, <2>7, <2>8, <2>9, <2>10, Goes
<1>4. CASE ~(Len(sizes) = total /\ Complete)
  <2>1. step' = "refused"
    BY <1>4 DEF StartBuild
  <2>2. SizesInv'
    BY <1>1, <2>1 DEF CodeInv, SizesInv
  <2>3. BuildInv'
    BY <2>1 DEF BuildInv
  <2>4. RefusedInv'
    BY <1>1, <1>4, Unmoved, Zenon DEF RefusedInv
  <2> QED BY <2>2, <2>3, <2>4, Zenon DEF CodeInv
<1> QED BY <1>3, <1>4

\* A symbol without a code changes no table.
LEMMA AbsentStep ==
  ASSUME CodeInv, Absent
  PROVE  CodeInv'
<1> USE WidthsFact DEF Widths
<1>1. /\ step = "build" /\ sym < total /\ SymSize = 0 /\ sym' = sym + 1
      /\ sizes' = sizes /\ total' = total /\ nextCode' = nextCode /\ lookup' = lookup
      /\ tree' = tree /\ treeNext' = treeNext /\ step' = step
  BY DEF Absent, Building
<1>2. /\ Sized /\ Complete /\ InOrder /\ sym \in Nat /\ total \in Nat
      /\ sym \in Symbols /\ SymSize = Size(sym)
  BY <1>1, WhileBuilt
<1>3. PICK at \in [Paths -> Int] : Shape(at, lookup, tree, treeNext, sym, 0)
  <2>1. PICK at \in [Paths -> Int] : Tree(at)
    BY <1>1, WhileBuilt
  <2> QED BY <1>1, <2>1 DEF Tree, Depth
<1>4. sym \notin UsedSet
  BY <1>1, <1>2, UsedSize
<1>5. Shape(at, lookup', tree', treeNext', sym', 0)
  BY <1>1, <1>2, <1>3, <1>4, AbsentIn
<1>6. InOrder'
  <2>1. Given = sym /\ Given' = sym + 1
    BY <1>1 DEF Given
  <2>2. ASSUME NEW k \in 1 .. MaxSize
        PROVE  Count(k)[Given'] = Count(k)[Given]
    <3>1. Count(k)[sym + 1] = Count(k)[sym] + (IF Size(sym) = k THEN 1 ELSE 0)
          /\ Count(k)[sym] \in Nat
      BY <1>2, Counted DEF Symbols
    <3> QED BY <1>1, <1>2, <2>1, <3>1
  <2> QED BY <1>1, <1>2, <2>2, OrderSame
<1>7. sym' \in 0 .. total /\ step' \in {"build", "walk", "built"} /\ step' # "built"
  BY <1>1, <1>2
<1>8. Depth' = 0 /\ OnPath(at)'
  BY <1>1 DEF Depth, OnPath
<1> QED BY <1>1, <1>2, <1>5, <1>6, <1>7, <1>8, Goes

\* A short code gets the slots that are free, or has bits in common with another.
LEMMA ShortStep ==
  ASSUME CodeInv, ShortCode
  PROVE  CodeInv'
<1> USE WidthsFact DEF Widths
<1>1. step = "build" /\ sym < total /\ SymSize \in 1 .. FastBits
  BY DEF ShortCode, Building
<1>2. /\ Sized /\ Complete /\ InOrder /\ sym \in Nat /\ total \in Nat /\ sym \in Symbols
  BY <1>1, WhileBuilt
<1>3. /\ sym \in UsedSet /\ SymSize = Size(sym) /\ SymCode = Key(sym) /\ Size(sym) \in 1 .. FastBits
      /\ Size(sym) <= FastBits /\ Key(sym) \in Nat
  BY <1>1, <1>2, SymCodeIs
<1>4. PICK at \in [Paths -> Int] : Shape(at, lookup, tree, treeNext, sym, 0)
  <2>1. PICK at \in [Paths -> Int] : Tree(at)
    BY <1>1, WhileBuilt
  <2> QED BY <1>1, <2>1 DEF Tree, Depth
<1>5. lookup \in [Slots -> Int] /\ Held(at, lookup, tree) /\ Owned(at, sym, 0)
  BY <1>4 DEF Shape
<1>6. ASSUME NEW z \in Nat
      PROVE  /\ z % Pow2[FastBits] \in Slots
             /\ z % Pow2[FastBits] \in SymSlots <=> Owns(sym, z)
             /\ lookup[z % Pow2[FastBits]] = At(at, FastBits, z)
  <2>1. FastBits \in 0 .. MaxSize /\ Size(sym) \in 0 .. FastBits
    BY <1>3
  <2>2. PICK r \in Nat : r = z % Pow2[FastBits] /\ r \in Slots
    <3>1. z % Pow2[FastBits] \in Slots
      BY <2>1, LowBits DEF Slots
    <3>2. z % Pow2[FastBits] \in Nat
      BY <2>1, Power, Remainder
    <3> QED BY <3>1, <3>2
  <2>3. Agree(Size(sym), r, z)
    BY <2>1, <2>2, LowRest
  <2>4. r % Pow2[Size(sym)] = Key(sym) <=> Owns(sym, z)
    BY <2>3 DEF Agree, Owns
  <2>5. r \in SymSlots <=> r % Pow2[Size(sym)] = Key(sym)
    BY <1>3, <1>5, <2>2 DEF SymSlots
  <2> QED BY <1>5, <2>2, <2>4, <2>5 DEF Held
<1>7. CASE \E i \in SymSlots : lookup[i] # 0
  <2>1. PICK i \in SymSlots : lookup[i] # 0
    BY <1>7
  <2>2. i \in Slots /\ i % Pow2[Size(sym)] = Key(sym)
    BY <1>3, <1>5 DEF SymSlots
  <2>3. i \in Nat /\ i % Pow2[FastBits] = i
    <3>1. PICK d \in Nat \ {0} : d = Pow2[FastBits]
      BY Power
    <3>2. i \in Nat /\ i < d
      BY <2>2, <3>1 DEF Slots
    <3>3. i = d * 0 + i
      BY <3>2
    <3> QED BY <3>1, <3>2, <3>3, QuotientIs
  <2>4. Owns(sym, i)
    BY <2>2 DEF Owns
  <2>5. At(at, FastBits, i) \in Int /\ At(at, FastBits, i) # 0 /\ FastBits \in FastBits .. MaxSize
    BY <1>5, <1>6, <2>1, <2>2, <2>3
  <2>6. ~PrefixFree
    BY <1>2, <1>3, <1>5, <2>3, <2>4, <2>5, Collides
  <2>7. Refuse
    BY <1>7 DEF ShortCode
  <2> QED BY <2>6, <2>7, Refuses
<1>8. CASE ~(\E i \in SymSlots : lookup[i] # 0)
  <2> DEFINE packed == Packed(Size(sym), sym)
  <2>1. /\ lookup' = [i \in Slots |-> IF i \in SymSlots THEN packed ELSE lookup[i]]
        /\ nextCode' = [nextCode EXCEPT ![Size(sym)] = @ + 1] /\ sym' = sym + 1
        /\ total' = total /\ sizes' = sizes /\ tree' = tree /\ treeNext' = treeNext /\ step' = step
    BY <1>3, <1>5, <1>8 DEF ShortCode
  <2>2. packed \in Int
    BY <1>2, <1>3, PackedIs
  <2> HIDE DEF packed
  <2>3. lookup' \in [Slots -> Int]
    BY <1>5, <2>1, <2>2
  <2>4. \A z \in Nat : Owns(sym, z) => lookup[z % Pow2[FastBits]] = 0
    BY <1>6, <1>8
  <2>5. \A z \in Nat : lookup'[z % Pow2[FastBits]] =
          IF Owns(sym, z) THEN packed ELSE lookup[z % Pow2[FastBits]]
    BY <1>6, <2>1
  <2>6. PICK to \in [Paths -> Int] :
          \A j \in FastBits .. MaxSize, z \in Nat :
            At(to, j, z) = IF j = FastBits /\ Agree(Size(sym), Key(sym), z)
                           THEN packed ELSE At(at, j, z)
    <3>1. Size(sym) \in 0 .. FastBits
      BY <1>3
    <3> QED BY <1>3, <2>2, <3>1, Filled
  <2>7. \A j \in FastBits .. MaxSize, z \in Nat :
          At(to, j, z) = IF j = FastBits /\ Owns(sym, z) THEN packed ELSE At(at, j, z)
    BY <1>2, <1>3, <2>6, OwnsAgree
  <2>8. Shape(to, lookup', tree, treeNext, sym + 1, 0)
    BY <1>2, <1>3, <1>4, <2>3, <2>4, <2>5, <2>7, ShortIn DEF packed
  <2>9. Shape(to, lookup', tree', treeNext', sym', 0)
    BY <2>1, <2>8
  <2>10. Given' = sym + 1 /\ step # "walk"
    BY <1>1, <2>1 DEF Given
  <2>11. InOrder'
    BY <1>2, <1>3, <2>1, <2>10, OrderMore
  <2>12. sym' \in 0 .. total /\ step' \in {"build", "walk", "built"} /\ step' # "built"
    BY <1>1, <1>2, <2>1
  <2>13. Depth' = 0 /\ OnPath(to)'
    BY <1>1, <2>1 DEF Depth, OnPath
  <2> QED BY <1>2, <2>1, <2>9, <2>11, <2>12, <2>13, Goes
<1> QED BY <1>7, <1>8

\* A long code gets to its first node, or has bits in common with a short one.
LEMMA LongStep ==
  ASSUME CodeInv, LongCode
  PROVE  CodeInv'
<1> USE WidthsFact DEF Widths
<1>1. step = "build" /\ sym < total /\ SymSize > FastBits
  BY DEF LongCode, Building
<1>2. /\ Sized /\ Complete /\ InOrder /\ sym \in Nat /\ total \in Nat /\ sym \in Symbols
      /\ SymSize = Size(sym)
  BY <1>1, WhileBuilt
<1>3. /\ sym \in UsedSet /\ SymCode = Key(sym) /\ Size(sym) \in FastBits + 1 .. MaxSize - 1
      /\ Size(sym) > FastBits /\ Key(sym) \in Nat
  <2>1. SymSize # 0
    BY <1>1
  <2>2. /\ sym \in UsedSet /\ SymCode = Key(sym) /\ SymSize \in 1 .. MaxSize - 1 /\ Key(sym) \in Nat
    BY <1>1, <1>2, <2>1, SymCodeIs
  <2> QED BY <1>1, <1>2, <2>2
<1>4. PICK at \in [Paths -> Int] : Shape(at, lookup, tree, treeNext, sym, 0)
  <2>1. PICK at \in [Paths -> Int] : Tree(at)
    BY <1>1, WhileBuilt
  <2> QED BY <1>1, <2>1 DEF Tree, Depth
<1>5. /\ lookup \in [Slots -> Int] /\ Held(at, lookup, tree) /\ Owned(at, sym, 0)
      /\ treeNext \in Int /\ treeNext < 0
  BY <1>4 DEF Shape, Apart
<1> DEFINE slot == Key(sym) % Pow2[FastBits]
           node == IF lookup[slot] = 0 THEN treeNext ELSE lookup[slot]
<1>6. slot \in Slots /\ lookup[slot] \in Int /\ lookup[slot] = At(at, FastBits, Key(sym))
      /\ node \in Int
  <2>1. FastBits \in 0 .. MaxSize
    OBVIOUS
  <2>2. slot \in Slots
    BY <1>3, <2>1, LowBits DEF Slots
  <2> QED BY <1>3, <1>5, <2>2 DEF Held
<1>7. IF node >= 0
      THEN Refuse
      ELSE /\ lookup' = [lookup EXCEPT ![slot] = node]
           /\ treeNext' = IF lookup[slot] = 0 THEN treeNext - 2 ELSE treeNext
           /\ walk' = [node |-> node, bits |-> Key(sym) \div Pow2[FastBits],
                       left |-> Size(sym) - FastBits]
           /\ nextCode' = [nextCode EXCEPT ![Size(sym)] = @ + 1]
           /\ step' = "walk"
           /\ UNCHANGED <<total, sizes, tree, sym>>
  BY <1>2, <1>3, Zenon DEF LongCode
<1> HIDE DEF slot
<1>8. CASE node >= 0
  <2>1. At(at, FastBits, Key(sym)) > 0
    BY <1>5, <1>6, <1>8
  <2>2. Owns(sym, Key(sym)) /\ FastBits \in FastBits .. MaxSize
    BY <1>2, <1>3, OwnsAgree
  <2>3. ~PrefixFree
    BY <1>2, <1>3, <1>5, <2>1, <2>2, Collides
  <2> QED BY <1>7, <1>8, <2>3, Refuses
<1>9. CASE ~(node >= 0)
  <2>1. node < 0
    BY <1>6, <1>9
  <2> HIDE DEF node
  <2>2. /\ lookup' = [lookup EXCEPT ![slot] = node]
        /\ treeNext' = IF lookup[slot] = 0 THEN treeNext - 2 ELSE treeNext
        /\ walk' = [node |-> node, bits |-> Key(sym) \div Pow2[FastBits],
                    left |-> Size(sym) - FastBits]
        /\ nextCode' = [nextCode EXCEPT ![Size(sym)] = @ + 1]
        /\ step' = "walk"
        /\ total' = total /\ sizes' = sizes /\ tree' = tree /\ sym' = sym
    BY <1>7, <1>9
  <2>3. PICK to \in [Paths -> Int] :
          /\ Shape(to, [lookup EXCEPT ![slot] = node], tree,
                   IF lookup[slot] = 0 THEN treeNext - 2 ELSE treeNext, sym, FastBits)
          /\ At(to, FastBits, Key(sym)) = node
    BY <1>2, <1>3, <1>4, <2>1, LongIn DEF slot, node
  <2>4. Shape(to, lookup', tree', treeNext', sym', FastBits)
    BY <2>2, <2>3
  <2>5. Given' = sym + 1 /\ step # "walk"
    BY <1>1, <2>2 DEF Given
  <2>6. InOrder'
    BY <1>2, <1>3, <2>2, <2>5, OrderMore
  <2>7. sym' \in 0 .. total /\ step' \in {"build", "walk", "built"} /\ step' # "built"
    BY <1>1, <1>2, <2>2
  <2>8. /\ UsedSet' = UsedSet /\ Size(sym') = Size(sym) /\ Key(sym') = Key(sym)
        /\ \A s : Size(s)' = Size(s) /\ Key(s)' = Key(s)
    BY <2>2, Unmoved
  <2>9. Depth' = FastBits
    <3>1. Depth' = Size(sym) - (Size(sym) - FastBits)
      BY <2>2, <2>8 DEF Depth
    <3> QED BY <1>3, <3>1
  <2>10. OnPath(to)'
    <3>1. walk'.left \in 1 .. Size(sym) - FastBits
      BY <1>3, <2>2
    <3>2. walk'.bits = Key(sym) \div Pow2[FastBits] /\ walk'.node = At(to, FastBits, Key(sym))
      BY <2>2, <2>3
    <3> QED BY <1>3, <2>2, <2>8, <2>9, <3>1, <3>2 DEF OnPath
  <2> QED BY <1>2, <2>2, <2>4, <2>6, <2>7, <2>9, <2>10, Goes
<1> QED BY <1>8, <1>9

\* The walk of a symbol: what is known of it, and of the branch that its next bit takes.
LEMMA OnTheWalk ==
  ASSUME CodeInv, step = "walk"
  PROVE  \E at \in [Paths -> Int], k \in Nat :
           /\ Sized /\ Complete /\ InOrder /\ sym \in Nat /\ total \in Nat /\ sym < total
           /\ sym \in UsedSet /\ Size(sym) > FastBits /\ Size(sym) \in 1 .. MaxSize - 1
           /\ Depth = k /\ k \in FastBits .. Size(sym) - 1 /\ walk.left = Size(sym) - k
           /\ walk.bits = Key(sym) \div Pow2[k]
           /\ Shape(at, lookup, tree, treeNext, sym, k)
           /\ Branch + 1 = Bit(Key(sym), k) - At(at, k, Key(sym))
           /\ Branch + 1 \in Nat \ {0} /\ Branch \in Nat
           /\ Grown[Branch + 1] = CellOf(tree, Branch + 1)
           /\ At(at, k + 1, Key(sym)) = CellOf(tree, Branch + 1)
<1> USE WidthsFact DEF Widths
<1>1. Sized /\ Complete /\ InOrder /\ sym \in Nat /\ total \in Nat
  BY WhileBuilt
<1>2. PICK at \in [Paths -> Int] : Tree(at)
  BY WhileBuilt
<1>3. /\ sym \in UsedSet /\ walk.left \in 1 .. Size(sym) - FastBits
      /\ walk.bits = Key(sym) \div Pow2[Depth] /\ walk.node = At(at, Depth, Key(sym))
      /\ Depth = Size(sym) - walk.left /\ Shape(at, lookup, tree, treeNext, sym, Depth)
  BY <1>2 DEF Tree, OnPath, Depth
<1>4. Size(sym) \in 1 .. MaxSize - 1 /\ Key(sym) \in Nat /\ sym < total
  BY <1>1, <1>3, UsedSize, OwnsAgree DEF Symbols
<1>5. PICK k \in Nat : k = Depth
  BY <1>3, <1>4
<1>6. /\ k \in FastBits .. Size(sym) - 1 /\ walk.left = Size(sym) - k /\ Size(sym) > FastBits
      /\ k \in 0 .. MaxSize
  BY <1>3, <1>4, <1>5
<1>7. /\ At(at, k, Key(sym)) < 0 /\ Bit(Key(sym), k) - At(at, k, Key(sym)) \in Nat \ {0}
      /\ At(at, k + 1, Key(sym)) = CellOf(tree, Bit(Key(sym), k) - At(at, k, Key(sym)))
  BY <1>1, <1>3, <1>5, <1>6, BranchIs
<1>8. walk.bits % 2 = Bit(Key(sym), k)
  BY <1>3, <1>5 DEF Bit
<1>9. Bit(Key(sym), k) \in {0, 1} /\ At(at, k, Key(sym)) \in Int
  BY <1>4, <1>6, Bits, AtTypes
<1>10. Branch + 1 = Bit(Key(sym), k) - At(at, k, Key(sym)) /\ Branch \in Nat
  BY <1>3, <1>5, <1>7, <1>8, <1>9 DEF Branch
<1>11. Grown[Branch + 1] = CellOf(tree, Branch + 1)
  <2>1. tree \in Seq(Int)
    BY <1>3 DEF Shape
  <2>2. Branch + 1 \in 1 .. (IF Branch < Len(tree) THEN Len(tree) ELSE Branch + 1)
    BY <1>10, <2>1
  <2> HIDE DEF Branch
  <2> QED BY <2>2 DEF Grown, CellOf
<1> QED BY <1>1, <1>3, <1>4, <1>5, <1>6, <1>7, <1>10, <1>11

\* The tree grows by empty cells, and one of them gets an end.
LEMMA GrownCell ==
  ASSUME tree \in Seq(Int), Branch \in Nat, NEW v \in Int, NEW new,
         new = [Grown EXCEPT ![Branch + 1] = v]
  PROVE  /\ new \in Seq(Int) /\ Len(tree) <= Len(new) /\ Branch + 1 <= Len(new)
         /\ SetsCell(new, tree, Branch + 1, v)
<1> DEFINE n == IF Branch < Len(tree) THEN Len(tree) ELSE Branch + 1
<1>1. n \in Nat /\ Len(tree) \in Nat /\ Len(tree) <= n /\ Branch + 1 <= n /\ Branch + 1 \in 1 .. n
  OBVIOUS
<1> HIDE DEF n
<1>2. Grown = [i \in 1 .. n |-> IF i <= Len(tree) THEN tree[i] ELSE 0]
  BY DEF Grown, n
<1>3. new = [i \in 1 .. n |-> IF i = Branch + 1 THEN v ELSE IF i <= Len(tree) THEN tree[i] ELSE 0]
  BY <1>1, <1>2
<1>4. \A i \in 1 .. n : new[i] \in Int
  BY <1>1, <1>3
<1>5. new \in Seq(Int) /\ Len(new) = n
  <2>1. \A i \in 1 .. n : (IF i <= Len(tree) THEN tree[i] ELSE 0) \in Int
    BY <1>1
  <2>2. Grown \in Seq(Int) /\ Len(Grown) = n
    BY <1>1, <1>2, <2>1
  <2> QED BY <1>1, <2>2
<1>6. ASSUME NEW i \in Nat \ {0}
      PROVE  CellOf(new, i) = IF i = Branch + 1 THEN v ELSE CellOf(tree, i)
  <2>1. CASE i <= n
    BY <1>1, <1>3, <1>5, <2>1 DEF CellOf
  <2>2. CASE ~(i <= n)
    BY <1>1, <1>5, <2>2 DEF CellOf
  <2> QED BY <2>1, <2>2
<1> QED BY <1>1, <1>5, <1>6 DEF SetsCell

\* A walk gets to the next node, or meets the leaf of a code that it starts with.
LEMMA DescendStep ==
  ASSUME CodeInv, Descend
  PROVE  CodeInv'
<1> USE WidthsFact DEF Widths
<1>1. step = "walk" /\ walk.left > 1
  BY DEF Descend
<1>2. PICK at \in [Paths -> Int], k \in Nat :
        /\ Sized /\ Complete /\ InOrder /\ sym \in Nat /\ total \in Nat /\ sym < total
        /\ sym \in UsedSet /\ Size(sym) > FastBits /\ Size(sym) \in 1 .. MaxSize - 1
        /\ Depth = k /\ k \in FastBits .. Size(sym) - 1 /\ walk.left = Size(sym) - k
        /\ walk.bits = Key(sym) \div Pow2[k]
        /\ Shape(at, lookup, tree, treeNext, sym, k)
        /\ Branch + 1 = Bit(Key(sym), k) - At(at, k, Key(sym))
        /\ Branch + 1 \in Nat \ {0} /\ Branch \in Nat
        /\ Grown[Branch + 1] = CellOf(tree, Branch + 1)
        /\ At(at, k + 1, Key(sym)) = CellOf(tree, Branch + 1)
  BY <1>1, OnTheWalk
<1>3. /\ k \in FastBits .. Size(sym) - 2 /\ k + 1 \in FastBits .. Size(sym) - 1
      /\ k + 1 \in FastBits .. MaxSize /\ k \in 0 .. MaxSize /\ Key(sym) \in Nat
  BY <1>1, <1>2, OwnsAgree
<1>4. tree \in Seq(Int) /\ Owned(at, sym, k) /\ treeNext \in Int /\ treeNext < 0
  BY <1>2 DEF Shape, Apart
<1>5. CellOf(tree, Branch + 1) \in Int
  BY <1>2, <1>3, AtTypes
<1> DEFINE there == CellOf(tree, Branch + 1)
           node == IF there = 0 THEN treeNext ELSE there
<1>6. IF node >= 0
      THEN Refuse
      ELSE /\ tree' = [Grown EXCEPT ![Branch + 1] = node]
           /\ treeNext' = IF there = 0 THEN treeNext - 2 ELSE treeNext
           /\ walk' = [node |-> node, bits |-> walk.bits \div 2, left |-> walk.left - 1]
           /\ UNCHANGED <<total, sizes, nextCode, lookup, sym, step>>
  <2>1. Grown[Branch + 1] = there
    BY <1>2
  <2> HIDE DEF there
  <2> QED BY <2>1, Zenon DEF Descend
<1>7. CASE node >= 0
  <2>1. At(at, k + 1, Key(sym)) > 0
    BY <1>2, <1>4, <1>5, <1>7
  <2>2. Owns(sym, Key(sym))
    BY <1>2, OwnsAgree
  <2>3. ~PrefixFree
    BY <1>2, <1>3, <1>4, <2>1, <2>2, Collides
  <2> QED BY <1>6, <1>7, <2>3, Refuses
<1>8. CASE ~(node >= 0)
  <2>1. node < 0 /\ node \in Int
    BY <1>4, <1>5, <1>8
  <2> HIDE DEF node
  <2>2. /\ tree' = [Grown EXCEPT ![Branch + 1] = node]
        /\ treeNext' = IF there = 0 THEN treeNext - 2 ELSE treeNext
        /\ walk' = [node |-> node, bits |-> walk.bits \div 2, left |-> walk.left - 1]
        /\ total' = total /\ sizes' = sizes /\ nextCode' = nextCode /\ lookup' = lookup
        /\ sym' = sym /\ step' = step
    BY <1>6, <1>8
  <2>3. /\ tree' \in Seq(Int) /\ Len(tree) <= Len(tree')
        /\ SetsCell(tree', tree, Branch + 1, node)
    BY <1>2, <1>4, <2>1, <2>2, GrownCell
  <2>4. PICK to \in [Paths -> Int] :
          /\ Shape(to, lookup, tree', IF there = 0 THEN treeNext - 2 ELSE treeNext, sym, k + 1)
          /\ At(to, k + 1, Key(sym)) = node
    <3>1. PICK c \in Nat : c = Branch + 1
      BY <1>2
    <3>2. /\ c = Bit(Key(sym), k) - At(at, k, Key(sym)) /\ SetsCell(tree', tree, c, node)
          /\ node = IF CellOf(tree, c) = 0 THEN treeNext ELSE CellOf(tree, c)
      BY <1>2, <2>3, <3>1 DEF node
    <3>3. /\ Sized /\ sym \in UsedSet /\ k \in FastBits .. Size(sym) - 2
          /\ Shape(at, lookup, tree, treeNext, sym, k)
      BY <1>2, <1>3
    <3>4. node < 0 /\ tree' \in Seq(Int) /\ Len(tree) <= Len(tree')
      BY <2>1, <2>3
    <3>5. PICK to \in [Paths -> Int] :
            /\ Shape(to, lookup, tree', IF CellOf(tree, c) = 0 THEN treeNext - 2 ELSE treeNext,
                     sym, k + 1)
            /\ At(to, k + 1, Key(sym)) = node
      BY <3>2, <3>3, <3>4, DescendIn
    <3> QED BY <3>1, <3>5
  <2> HIDE DEF there
  <2>5. Shape(to, lookup', tree', treeNext', sym', k + 1)
    BY <2>2, <2>4
  <2>6. Given' = sym + 1 /\ Given = sym + 1
    BY <1>1, <2>2 DEF Given
  <2>7. InOrder'
    BY <1>2, <2>2, <2>6, OrderSame
  <2>8. sym' \in 0 .. total /\ step' \in {"build", "walk", "built"} /\ step' # "built"
    BY <1>1, <1>2, <2>2
  <2>9. /\ UsedSet' = UsedSet /\ \A s : Size(s)' = Size(s) /\ Key(s)' = Key(s)
    BY <2>2, Unmoved
  <2>10. Depth' = k + 1
    <3>1. Depth' = Size(sym) - (walk.left - 1)
      BY <1>1, <2>2, <2>9 DEF Depth
    <3> QED BY <1>2, <3>1
  <2>11. OnPath(to)'
    <3>1. walk'.left \in 1 .. Size(sym) - FastBits
      BY <1>1, <1>2, <2>2
    <3>2. walk'.bits = Key(sym) \div Pow2[k + 1]
      BY <1>2, <1>3, <2>2, LowBits
    <3>3. walk'.node = At(to, k + 1, Key(sym))
      BY <2>2, <2>4
    <3> QED BY <1>2, <2>2, <2>9, <2>10, <3>1, <3>2, <3>3 DEF OnPath
  <2> QED BY <1>2, <2>2, <2>5, <2>7, <2>8, <2>10, <2>11, Goes
<1> QED BY <1>7, <1>8

\* A walk ends at a free leaf, or at the node or the leaf of another code.
LEMMA LeafStep ==
  ASSUME CodeInv, Leaf
  PROVE  CodeInv'
<1> USE WidthsFact DEF Widths
<1>1. step = "walk" /\ walk.left = 1
  BY DEF Leaf
<1>2. PICK at \in [Paths -> Int], k \in Nat :
        /\ Sized /\ Complete /\ InOrder /\ sym \in Nat /\ total \in Nat /\ sym < total
        /\ sym \in UsedSet /\ Size(sym) > FastBits /\ Size(sym) \in 1 .. MaxSize - 1
        /\ Depth = k /\ k \in FastBits .. Size(sym) - 1 /\ walk.left = Size(sym) - k
        /\ walk.bits = Key(sym) \div Pow2[k]
        /\ Shape(at, lookup, tree, treeNext, sym, k)
        /\ Branch + 1 = Bit(Key(sym), k) - At(at, k, Key(sym))
        /\ Branch + 1 \in Nat \ {0} /\ Branch \in Nat
        /\ Grown[Branch + 1] = CellOf(tree, Branch + 1)
        /\ At(at, k + 1, Key(sym)) = CellOf(tree, Branch + 1)
  BY <1>1, OnTheWalk
<1>3. k = Size(sym) - 1 /\ k + 1 \in FastBits .. MaxSize /\ k + 1 = Size(sym) /\ Key(sym) \in Nat
  BY <1>1, <1>2, OwnsAgree
<1>4. tree \in Seq(Int) /\ Owned(at, sym, k)
  BY <1>2 DEF Shape
<1>5. CASE Grown[Branch + 1] # 0
  <2>1. Refuse
    BY <1>5, Zenon DEF Leaf
  <2>2. At(at, k + 1, Key(sym)) > 0 \/ (At(at, k + 1, Key(sym)) < 0 /\ Size(sym) <= k + 1)
    <3>1. At(at, k + 1, Key(sym)) \in Int
      BY <1>3, AtTypes
    <3>2. At(at, k + 1, Key(sym)) # 0
      BY <1>2, <1>5
    <3>3. Size(sym) <= k + 1
      BY <1>3
    <3> QED BY <3>1, <3>2, <3>3
  <2>3. Owns(sym, Key(sym))
    BY <1>2, OwnsAgree
  <2>4. ~PrefixFree
    BY <1>2, <1>3, <1>4, <2>2, <2>3, Collides
  <2> QED BY <2>1, <2>4, Refuses
<1>6. CASE Grown[Branch + 1] = 0
  <2>1. /\ tree' = [Grown EXCEPT ![Branch + 1] = sym] /\ sym' = sym + 1 /\ step' = "build"
        /\ total' = total /\ sizes' = sizes /\ nextCode' = nextCode /\ lookup' = lookup
        /\ treeNext' = treeNext
    BY <1>6 DEF Leaf
  <2>2. /\ tree' \in Seq(Int) /\ Len(tree) <= Len(tree') /\ Branch + 1 <= Len(tree')
        /\ SetsCell(tree', tree, Branch + 1, sym)
    <3>1. sym \in Int
      BY <1>2
    <3> QED BY <1>2, <1>4, <2>1, <3>1, GrownCell
  <2>3. PICK to \in [Paths -> Int] : Shape(to, lookup, tree', treeNext, sym + 1, 0)
    BY <1>2, <1>3, <1>6, <2>2, LeafOf
  <2>4. Shape(to, lookup', tree', treeNext', sym', 0)
    BY <2>1, <2>3
  <2>5. Given' = sym + 1 /\ Given = sym + 1
    BY <1>1, <2>1 DEF Given
  <2>6. InOrder'
    BY <1>2, <2>1, <2>5, OrderSame
  <2>7. sym' \in 0 .. total /\ step' \in {"build", "walk", "built"} /\ step' # "built"
    BY <1>2, <2>1
  <2>8. Depth' = 0 /\ OnPath(to)'
    BY <2>1 DEF Depth, OnPath
  <2> QED BY <1>2, <2>1, <2>4, <2>6, <2>7, <2>8, Goes
<1> QED BY <1>5, <1>6

\* A table with all its symbols is done.
LEMMA BuiltStep ==
  ASSUME CodeInv, Built
  PROVE  CodeInv'
<1>1. /\ step = "build" /\ sym = total /\ step' = "built" /\ sizes' = sizes /\ total' = total
      /\ nextCode' = nextCode /\ lookup' = lookup /\ tree' = tree /\ treeNext' = treeNext
      /\ sym' = sym
  BY DEF Built, UnchangedTable
<1>2. Sized /\ Complete /\ InOrder /\ sym \in 0 .. total
  BY <1>1, WhileBuilt
<1>3. PICK at \in [Paths -> Int] : Shape(at, lookup, tree, treeNext, sym, 0)
  <2>1. PICK at \in [Paths -> Int] : Tree(at)
    BY <1>1, WhileBuilt
  <2> QED BY <1>1, <2>1 DEF Tree, Depth
<1>4. Shape(at, lookup', tree', treeNext', sym', 0)
  BY <1>1, <1>3
<1>5. InOrder'
  <2>1. Given' = Given
    BY <1>1 DEF Given
  <2> QED BY <1>1, <1>2, <2>1, OrderSame
<1>6. Depth' = 0 /\ OnPath(at)'
  BY <1>1 DEF Depth, OnPath
<1>7. sym' \in 0 .. total /\ sym' = total /\ step' \in {"build", "walk", "built"}
  BY <1>1, <1>2
<1> QED BY <1>1, <1>2, <1>4, <1>5, <1>6, <1>7, Goes

\* What changes nothing keeps the invariant.
LEMMA Stutters ==
  ASSUME CodeInv, UNCHANGED tableVars
  PROVE  CodeInv'
<1>1. /\ sizes' = sizes /\ total' = total /\ nextCode' = nextCode /\ lookup' = lookup
      /\ tree' = tree /\ treeNext' = treeNext /\ sym' = sym /\ walk' = walk /\ step' = step
  BY DEF tableVars
<1>2. CASE step \in {"build", "walk", "built"}
  <2>1. Sized /\ Complete /\ InOrder /\ sym \in 0 .. total /\ (step = "built" => sym = total)
    BY <1>2, WhileBuilt
  <2>2. PICK at \in [Paths -> Int] : Tree(at)
    BY <1>2, WhileBuilt
  <2>3. UsedSet' = UsedSet /\ \A s : Size(s)' = Size(s) /\ Key(s)' = Key(s)
    BY <1>1, Unmoved
  <2>4. Depth' = Depth
    BY <1>1, <2>3 DEF Depth
  <2>5. OnPath(at)'
    BY <1>1, <2>2, <2>3, <2>4 DEF Tree, OnPath
  <2>6. PICK m : m = Depth
    OBVIOUS
  <2>7. Shape(at, lookup', tree', treeNext', sym', m)
    BY <1>1, <2>2, <2>6 DEF Tree
  <2>8. InOrder'
    <3>1. Given' = Given
      BY <1>1 DEF Given
    <3> QED BY <1>1, <2>1, <3>1, OrderSame
  <2> QED BY <1>1, <1>2, <2>1, <2>4, <2>5, <2>6, <2>7, <2>8, Goes
<1>3. CASE step \notin {"build", "walk", "built"}
  <2>1. SizesInv'
    BY <1>1 DEF CodeInv, SizesInv
  <2>2. BuildInv'
    BY <1>1, <1>3 DEF BuildInv
  <2>3. RefusedInv'
    BY <1>1, Unmoved, Zenon DEF CodeInv, RefusedInv
  <2> QED BY <2>1, <2>2, <2>3, Zenon DEF CodeInv
<1> QED BY <1>2, <1>3

\* Every step keeps the invariant.
LEMMA NextCode == CodeInv /\ [TableNext]_tableVars => CodeInv'
<1> SUFFICES ASSUME CodeInv, [TableNext]_tableVars
             PROVE  CodeInv'
  OBVIOUS
<1>1. CASE UNCHANGED tableVars
  BY <1>1, Stutters
<1>2. ASSUME NEW s \in Literals, Literal(s) PROVE CodeInv'
  BY <1>2, LiteralStep
<1>3. ASSUME NEW n \in ZeroRuns, ZeroRun(n) PROVE CodeInv'
  BY <1>3, ZeroRunStep
<1>4. ASSUME NEW n \in Repeats, Repeat(n) PROVE CodeInv'
  BY <1>4, RepeatStep
<1>5. CASE StartBuild
  BY <1>5, StartStep
<1>6. CASE Absent
  BY <1>6, AbsentStep
<1>7. CASE ShortCode
  BY <1>7, ShortStep
<1>8. CASE LongCode
  BY <1>8, LongStep
<1>9. CASE Descend
  BY <1>9, DescendStep
<1>10. CASE Leaf
  BY <1>10, LeafStep
<1>11. CASE Built
  BY <1>11, BuiltStep
<1> QED
  BY <1>1, <1>2, <1>3, <1>4, <1>5, <1>6, <1>7, <1>8, <1>9, <1>10, <1>11 DEF TableNext

-----------------------------------------------------------------------------
(***************************************************************************)
(* What the invariant says of the table that is built, or refused.         *)
(***************************************************************************)

\* The interval of a lone code is inside the code space.
LEMMA LoneOwns ==
  ASSUME Sized, Lone, NEW s \in UsedSet, NEW v \in Nat
  PROVE  Owns(s, v) <=> Reversed(v, MaxSize) \in Interval(s)
<1>1. UsedSet = {s}
  BY DEF Lone
<1>2. Space(UsedSet) = Room(s)
  BY <1>1, UsedSize, SpaceOfOne
<1>3. Room(s) <= Pow2[MaxSize]
  <2>1. /\ Pow2[MaxSize] = Pow2[Size(s)] * Room(s)
        /\ Room(s) \in Nat \ {0} /\ Pow2[Size(s)] \in Nat \ {0}
    BY UsedSize
  <2> QED BY <2>1
<1>4. Start(s) + Room(s) <= Pow2[MaxSize]
  <2>1. Start(s) + Room(s) <= Space(UsedSet) /\ Start(s) \in Nat /\ Space(UsedSet) \in Nat
    BY IntervalInside
  <2>2. Room(s) \in Nat /\ Pow2[MaxSize] \in Nat
    BY UsedSize, TopPower
  <2> QED BY <1>2, <1>3, <2>1, <2>2
<1> QED BY <1>4, OwnsItsInterval

\* A table that is done decodes the canonical code.
LEMMA Decodes ==
  ASSUME Sized, Complete, NEW at \in [Paths -> Int],
         Shape(at, lookup, tree, treeNext, total, 0), NEW v \in Windows
  PROVE  /\ IsComplete =>
              \E s \in UsedSet :
                /\ Reversed(v, MaxSize) \in Interval(s)
                /\ Decode(v) = [sym |-> s, size |-> sizes[s + 1]]
         /\ ~IsComplete =>
              /\ Lone
              /\ \A s \in UsedSet :
                   Reversed(v, MaxSize) \in Interval(s) =>
                     Decode(v) = [sym |-> s, size |-> sizes[s + 1]]
<1> USE WidthsFact DEF Widths
<1>1. v \in Nat /\ Reversed(v, MaxSize) \in Nat /\ Reversed(v, MaxSize) < Pow2[MaxSize]
  <2>1. MaxSize \in 0 .. MaxSize
    OBVIOUS
  <2>2. v \in Nat
    BY TopPower DEF Windows
  <2> QED BY <2>1, <2>2, Reversals, ReversedFits
<1>2. CASE IsComplete
  <2>1. PICK s \in UsedSet : Reversed(v, MaxSize) \in Interval(s)
    BY <1>1, <1>2, Covered DEF IsComplete
  <2>2. PrefixFree /\ Owns(s, v)
    BY <1>1, <1>2, <2>1, CompletePasses
  <2>3. Decode(v) = [sym |-> s, size |-> Size(s)]
    BY <1>1, <2>2, DecodeIs
  <2> QED BY <1>2, <2>1, <2>3 DEF Size
<1>3. CASE ~IsComplete
  <2>1. Lone
    BY <1>3, NoOverfull
  <2>2. ASSUME NEW s \in UsedSet, Reversed(v, MaxSize) \in Interval(s)
        PROVE  Decode(v) = [sym |-> s, size |-> sizes[s + 1]]
    <3>1. PrefixFree /\ Owns(s, v)
      BY <1>1, <2>1, <2>2, LonePasses, LoneOwns
    <3>2. Decode(v) = [sym |-> s, size |-> Size(s)]
      BY <1>1, <3>1, DecodeIs
    <3> QED BY <3>2 DEF Size
  <2> QED BY <1>3, <2>1, <2>2
<1> QED BY <1>2, <1>3

\* The code that the invariant lets through is decoded.
LEMMA CodeDecodes == CodeInv => DecodesTheCode
<1> SUFFICES ASSUME CodeInv, step = "built"
             PROVE  \A v \in Windows :
                      /\ IsComplete =>
                           \E s \in UsedSet :
                             /\ Reversed(v, MaxSize) \in Interval(s)
                             /\ Decode(v) = [sym |-> s, size |-> sizes[s + 1]]
                      /\ ~IsComplete =>
                           /\ Lone
                           /\ \A s \in UsedSet :
                                Reversed(v, MaxSize) \in Interval(s) =>
                                  Decode(v) = [sym |-> s, size |-> sizes[s + 1]]
  BY Zenon DEF DecodesTheCode
<1>1. Sized /\ Complete /\ sym = total
  BY WhileBuilt
<1>2. PICK at \in [Paths -> Int] : Tree(at)
  BY WhileBuilt
<1>3. Shape(at, lookup, tree, treeNext, total, 0)
  <2>1. Depth = 0
    BY DEF Depth
  <2>2. Shape(at, lookup, tree, treeNext, sym, Depth)
    BY <1>2 DEF Tree
  <2> QED BY <1>1, <2>1, <2>2, Zenon
<1> QED BY <1>1, <1>3, Decodes, Zenon

\* What the invariant lets be refused is no code.
LEMMA NoCodeRefused == CodeInv => RefusesOnlyWhatIsNoCode
<1> SUFFICES ASSUME CodeInv, step = "refused", Len(sizes) = total
             PROVE  ~IsComplete /\ ~Lone
  BY DEF RefusesOnlyWhatIsNoCode
<1>1. Sized
  BY DEF CodeInv, SizesInv, Sized
<1>2. ~Complete \/ ~PrefixFree
  BY Zenon DEF CodeInv, RefusedInv
<1> QED BY <1>1, <1>2, CompletePasses, LonePasses

-----------------------------------------------------------------------------
(***************************************************************************)
(* The theorems.                                                           *)
(***************************************************************************)

\* While a table is built, its lookup and its tree hold the paths of the codes that are
\* inserted, and of no others (HuffmanTable::init).
THEOREM TablesHold == TableSpec => []CodeInv
<1> QED BY InitCode, NextCode, PTL DEF TableSpec

\* For every alphabet and all code sizes: what init lets through decodes the canonical
\* code of its sizes (HuffmanTable::init, decode_huffman).
THEOREM CodesDecode == TableSpec => []DecodesTheCode
<1> QED BY TablesHold, CodeDecodes, PTL

\* No complete code and no single symbol is refused (HuffmanTable::init).
THEOREM CodesPass == TableSpec => []RefusesOnlyWhatIsNoCode
<1> QED BY TablesHold, NoCodeRefused, PTL

\* In a complete code no bits leave the tree, whatever follows: only the lone code, which
\* does not fill its space, can lead to a node that is not there (decode_huffman).
THEOREM CompleteStaysInside ==
  TableSpec => [](step = "built" /\ IsComplete => \A v \in Windows : Decode(v) # OutOfTree)
<1>1. ASSUME CodeInv, DecodesTheCode, step = "built", IsComplete, NEW v \in Windows
      PROVE  Decode(v) # OutOfTree
  <2>1. Sized
    BY <1>1, WhileBuilt
  <2>2. PICK s \in UsedSet : Decode(v) = [sym |-> s, size |-> sizes[s + 1]]
    BY <1>1, Zenon DEF DecodesTheCode
  <2>3. sizes[s + 1] \in Nat
    BY <2>1, UsedSize DEF Size
  <2>4. [sym |-> s, size |-> sizes[s + 1]].size # -1
    BY <2>3
  <2> QED BY <2>2, <2>4 DEF OutOfTree
<1>2. CodeInv /\ DecodesTheCode =>
        (step = "built" /\ IsComplete => \A v \in Windows : Decode(v) # OutOfTree)
  BY <1>1, Zenon
<1> QED BY <1>2, TablesHold, CodesDecode, PTL

=============================================================================
