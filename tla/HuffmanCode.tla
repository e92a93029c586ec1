----------------------------- MODULE HuffmanCode -----------------------------
(***************************************************************************)
(* A Huffman table is read and built (read_huffman_table of                *)
(* basislz/decoder.rs, basislz/huffman.rs), and what decode_huffman then   *)
(* makes of any bits.  The symbols that say the code sizes are whatever    *)
(* the stream yields.  The table is built one symbol, and in the overflow  *)
(* tree one bit, at a time.  The first bit of the stream is the low bit.   *)
(***************************************************************************)
EXTENDS Integers, Sequences, SequencesExt

CONSTANTS
  FastBits,   \* FAST_LOOKUP_BITS
  MaxSize,    \* MAX_INTERNAL_CODE_SIZE; `total` has one bit more
  Literals,   \* the code sizes that a stream can name
  Counts,     \* the numbers of symbols of a table
  ZeroRuns,   \* the lengths that the two zero runs can have
  Repeats     \* the lengths that the two repeats can have

PackedBase == 65536   \* 1 << 16: the low half of a slot is a symbol

ASSUME CodeAssumption ==
  /\ FastBits \in Nat \ {0} /\ MaxSize \in Nat /\ FastBits < MaxSize
  /\ Literals \subseteq 0 .. MaxSize - 1
  /\ Counts \subseteq 1 .. PackedBase
  /\ ZeroRuns \subseteq Nat \ {0} /\ Repeats \subseteq Nat \ {0}

VARIABLES
  total,      \* the number of symbols
  sizes,      \* code_sizes as far as they are read
  nextCode,   \* the next canonical code of each size
  lookup,     \* 0 is an empty slot, negative a node of the tree
  tree,       \* the pair of node -n is at n - 1 and n
  treeNext,   \* the next node
  sym,        \* the symbol that is inserted
  walk,       \* its walk through the tree: the node, the bits left and how many
  step        \* "sizes", "build", "walk", "built" or "refused"

tableVars == <<total, sizes, nextCode, lookup, tree, treeNext, sym, walk, step>>

\* 1 << n, for the shifts that codes need
Pow2 == LET pow[n \in 0 .. MaxSize + 1] == IF n = 0 THEN 1 ELSE 2 * pow[n - 1] IN pow

Bit(v, k) == (v \div Pow2[k]) % 2

\* the first n bits of v, the first of them as the highest
Reversed(v, n) ==
  LET rev[k \in 0 .. MaxSize] == IF k = 0 THEN 0 ELSE 2 * rev[k - 1] + Bit(v, k - 1)
  IN rev[n]

\* how many of the first n symbols have codes of size k
Count(k) ==
  LET count[n \in 0 .. Len(sizes)] ==
        IF n = 0 THEN 0 ELSE count[n - 1] + (IF sizes[n] = k THEN 1 ELSE 0)
  IN count

Used(k) == Count(k)[Len(sizes)]

TableInit ==
  /\ total \in Counts
  /\ sizes = << >> /\ step = "sizes" /\ sym = 0
  /\ nextCode = << >> /\ tree = << >> /\ treeNext = -1
  /\ lookup = [i \in 0 .. Pow2[FastBits] - 1 |-> 0]
  /\ walk = [node |-> 0, bits |-> 0, left |-> 0]

UnchangedTable == UNCHANGED <<nextCode, lookup, tree, treeNext, sym, walk>>

(***************************************************************************)
(* Reading the code sizes.                                                 *)
(***************************************************************************)
Reading == step = "sizes" /\ Len(sizes) < total

Literal(s) ==
  /\ Reading
  /\ sizes' = Append(sizes, s)
  /\ UNCHANGED <<total, step>> /\ UnchangedTable

\* it may run past the last symbol
ZeroRun(n) ==
  /\ Reading
  /\ sizes' = sizes \o [i \in 1 .. n |-> 0]
  /\ UNCHANGED <<total, step>> /\ UnchangedTable

MayRepeat(n) ==
  /\ sizes # << >> /\ Last(sizes) # 0
  /\ Len(sizes) + n <= total

Repeat(n) ==
  /\ Reading
  /\ \/ /\ MayRepeat(n)
        /\ sizes' = sizes \o [i \in 1 .. n |-> Last(sizes)]
        /\ UNCHANGED step
     \/ /\ ~MayRepeat(n)
        /\ step' = "refused"
        /\ UNCHANGED sizes
  /\ UNCHANGED total /\ UnchangedTable

(***************************************************************************)
(* Building the table: first the code space, in a word that wraps.         *)
(***************************************************************************)
FirstCodes ==
  LET first[k \in 1 .. MaxSize] ==
        IF k = 1 THEN 0 ELSE ((first[k - 1] + Used(k - 1)) * 2) % Pow2[MaxSize + 1]
  IN first

UsedSyms ==
  LET used[k \in 0 .. MaxSize - 1] == IF k = 0 THEN 0 ELSE used[k - 1] + Used(k)
  IN used[MaxSize - 1]

\* the bug of a completeness test that an overfull code passes
AtLeastComplete == FirstCodes[MaxSize] >= Pow2[MaxSize] \/ UsedSyms = 1

\* the bug of a completeness test without the exception
CompleteOnly == FirstCodes[MaxSize] = Pow2[MaxSize]

Complete == FirstCodes[MaxSize] = Pow2[MaxSize] \/ UsedSyms = 1

\* the sizes are read; they are as many as announced and fill the code space
StartBuild ==
  /\ step = "sizes" /\ Len(sizes) >= total
  /\ IF Len(sizes) = total /\ Complete
     THEN /\ step' = "build"
          /\ nextCode' = FirstCodes
          /\ tree' = [i \in 1 .. 2 * total |-> 0]
     ELSE /\ step' = "refused"
          /\ UNCHANGED <<nextCode, tree>>
  /\ UNCHANGED <<total, sizes, lookup, treeNext, sym, walk>>

SymSize == sizes[sym + 1]
SymCode == Reversed(nextCode[SymSize], SymSize)
Building == step = "build" /\ sym < total

Refuse ==
  /\ step' = "refused"
  /\ UNCHANGED <<total, sizes>> /\ UnchangedTable

Absent ==
  /\ Building /\ SymSize = 0
  /\ sym' = sym + 1
  /\ UNCHANGED <<total, sizes, nextCode, lookup, tree, treeNext, walk, step>>

SymSlots == {i \in DOMAIN lookup : i % Pow2[SymSize] = SymCode}
Packed(size, s) == size * PackedBase + s

\* a code that fits the lookup takes every slot that ends in it
ShortCode ==
  /\ Building /\ SymSize \in 1 .. FastBits
  /\ IF \E i \in SymSlots : lookup[i] # 0
     THEN Refuse
     ELSE /\ lookup' = [i \in DOMAIN lookup |->
               IF i \in SymSlots THEN Packed(SymSize, sym) ELSE lookup[i]]
          /\ nextCode' = [nextCode EXCEPT ![SymSize] = @ + 1]
          /\ sym' = sym + 1
          /\ UNCHANGED <<total, sizes, tree, treeNext, walk, step>>

\* a longer code hangs below the slot of its first bits
LongCode ==
  /\ Building /\ SymSize > FastBits
  /\ LET slot == SymCode % Pow2[FastBits]
         node == IF lookup[slot] = 0 THEN treeNext ELSE lookup[slot]
     IN IF node >= 0
        THEN Refuse
        ELSE /\ lookup' = [lookup EXCEPT ![slot] = node]
             /\ treeNext' = IF lookup[slot] = 0 THEN treeNext - 2 ELSE treeNext
             /\ walk' = [node |-> node, bits |-> SymCode \div Pow2[FastBits],
                         left |-> SymSize - FastBits]
             /\ nextCode' = [nextCode EXCEPT ![SymSize] = @ + 1]
             /\ step' = "walk"
             /\ UNCHANGED <<total, sizes, tree, sym>>

\* where the next bit leads in the tree, which grows on demand
Branch == (walk.bits % 2) - walk.node - 1
Grown == [i \in 1 .. (IF Branch < Len(tree) THEN Len(tree) ELSE Branch + 1) |->
           IF i <= Len(tree) THEN tree[i] ELSE 0]

Descend ==
  /\ step = "walk" /\ walk.left > 1
  /\ LET there == Grown[Branch + 1]
         node == IF there = 0 THEN treeNext ELSE there
     IN IF node >= 0
        THEN Refuse
        ELSE /\ tree' = [Grown EXCEPT ![Branch + 1] = node]
             /\ treeNext' = IF there = 0 THEN treeNext - 2 ELSE treeNext
             /\ walk' = [node |-> node, bits |-> walk.bits \div 2, left |-> walk.left - 1]
             /\ UNCHANGED <<total, sizes, nextCode, lookup, sym, step>>

\* symbol 0 at a leaf looks like an empty one
Leaf ==
  /\ step = "walk" /\ walk.left = 1
  /\ IF Grown[Branch + 1] # 0
     THEN Refuse
     ELSE /\ tree' = [Grown EXCEPT ![Branch + 1] = sym]
          /\ sym' = sym + 1
          /\ step' = "build"
          /\ UNCHANGED <<total, sizes, nextCode, lookup, treeNext, walk>>

Built ==
  /\ step = "build" /\ sym = total
  /\ step' = "built"
  /\ UNCHANGED <<total, sizes>> /\ UnchangedTable

TableNext ==
  \/ \E s \in Literals : Literal(s)
  \/ \E n \in ZeroRuns : ZeroRun(n)
  \/ \E n \in Repeats : Repeat(n)
  \/ StartBuild
  \/ Absent
  \/ ShortCode
  \/ LongCode
  \/ Descend
  \/ Leaf
  \/ Built

TableSpec == TableInit /\ [][TableNext]_tableVars

(***************************************************************************)
(* decode_huffman: the symbol that the bits v start with and its length.   *)
(* An empty slot reads as symbol 0 of no bits.  A walk that leaves the     *)
(* tree is the answer OutOfTree.                                           *)
(***************************************************************************)
OutOfTree == [sym |-> 0, size |-> -1]

\* the loop, which turns until it has a symbol
Below(v, root) ==
  LET walked[k \in FastBits .. MaxSize] ==
        IF k = FastBits THEN [sym |-> root, size |-> FastBits]
        ELSE LET w == walked[k - 1]
                 i == Bit(v, k - 1) - w.sym
             IN IF w.sym >= 0 THEN w
                ELSE IF i > Len(tree) THEN OutOfTree
                ELSE [sym |-> tree[i], size |-> k]
  IN walked[MaxSize]

Decode(v) ==
  LET slot == lookup[v % Pow2[FastBits]]
  IN IF slot >= 0 THEN [sym |-> slot % PackedBase, size |-> slot \div PackedBase] ELSE Below(v, slot)

-----------------------------------------------------------------------------
(***************************************************************************)
(* Properties.  The reference is the canonical code: put side by side, by  *)
(* size and then by symbol, the codes cover an interval of the code space  *)
(* each.                                                                   *)
(***************************************************************************)
Windows == 0 .. Pow2[MaxSize] - 1
UsedSet == {s \in 0 .. total - 1 : sizes[s + 1] # 0}
Room(s) == Pow2[MaxSize - sizes[s + 1]]

\* what the codes of a set of symbols cover
Space(S) ==
  LET sum[n \in 0 .. total] ==
        IF n = 0 THEN 0 ELSE sum[n - 1] + (IF n - 1 \in S THEN Room(n - 1) ELSE 0)
  IN sum[total]

CodedBefore(s) ==
  {t \in UsedSet : sizes[t + 1] < sizes[s + 1] \/ (sizes[t + 1] = sizes[s + 1] /\ t < s)}
Interval(s) == Space(CodedBefore(s)) .. Space(CodedBefore(s)) + Room(s) - 1
IsComplete == Space(UsedSet) = Pow2[MaxSize]
Lone == \E s \in UsedSet : UsedSet = {s}

\* A table that init lets through decodes the canonical code of its sizes: in a complete
\* code every bit string gives the symbol whose code it starts with, and the lone code of
\* a single symbol gives that symbol.  The tables are filled in symbol order over reversed
\* bits, with the leaf of symbol 0 looking empty, and a total that wraps in 32 bits could
\* pass a code that is far from complete (huffman.rs:80-187, decoder.rs:185-214).
DecodesTheCode ==
  step = "built" =>
    \A v \in Windows :
      /\ IsComplete =>
           \E s \in UsedSet :
             Reversed(v, MaxSize) \in Interval(s) /\ Decode(v) = [sym |-> s, size |-> sizes[s + 1]]
      /\ ~IsComplete =>
           /\ Lone
           /\ \A s \in UsedSet :
                Reversed(v, MaxSize) \in Interval(s) => Decode(v) = [sym |-> s, size |-> sizes[s + 1]]

\* No complete code and no single symbol is refused once its sizes are read (huffman.rs:89-185).
RefusesOnlyWhatIsNoCode ==
  step = "refused" /\ Len(sizes) = total =>
    ~IsComplete /\ ~Lone

\* Decoding never asks for a node that the tree does not have, whatever bits follow.
DecodeStaysInTree ==
  step = "built" => \A v \in Windows : Decode(v) # OutOfTree

=============================================================================
