---------------------------- MODULE BlockProofs ----------------------------
(***************************************************************************)
(* Proofs about the block commands of the two intermediate formats, for    *)
(* every picture, ring and stream.  What is kept of the logical blocks are *)
(* the last rows, in a ring whose current row moves along (Hdr6x6Blocks)   *)
(* or in one that is indexed by the row (XuastcBlocks).                    *)
(***************************************************************************)
EXTENDS Hdr6x6Blocks, XuastcBlocks, TLAPS

(***************************************************************************)
(* Hdr6x6Blocks.  The inductive invariant says where the ring holds a row  *)
(* by the code's own calc_row_index: moving the current row on, wrapped or *)
(* not, leaves the slot of every row within reach where it was.            *)
(***************************************************************************)
HdrBlocks == [mode : Modes \cup {0, SolidMode}, cem : Nat, ends : Int \X Int, weights : Int \X Int]

HdrTypes ==
  /\ curBx \in Cols /\ curBy \in 0 .. NY
  /\ row \in 0 .. Rows - 1
  /\ run \in Nat /\ source \in HdrBlocks
  /\ ring \in [0 .. Rows - 1 -> [Cols -> HdrBlocks]]
  /\ blocks \in [Lines -> [Cols -> HdrBlocks \cup {"none"}]]
  /\ \A y \in Lines, x \in Cols : HdrDecoded(x, y) => blocks[y][x] \in HdrBlocks

\* the ring holds the rows within reach, also when the last row is done
RingInv ==
  \A y \in Lines, x \in Cols :
    HdrDecoded(x, y) /\ y > curBy - Rows => Logical(x, y) = blocks[y][x]

\* a run has no more blocks left than the picture
RunInv == RunRepeatsBlockBefore /\ run <= Remaining

\* the endpoints of b are those that were coded at a block of its endpoint mode
EndsFit(b) ==
  /\ HdrDecoded(b.ends[1], b.ends[2])
  /\ blocks[b.ends[2]][b.ends[1]].ends = b.ends
  /\ blocks[b.ends[2]][b.ends[1]].cem = b.cem

WeightsFit(b) ==
  /\ HdrDecoded(b.weights[1], b.weights[2])
  /\ blocks[b.weights[2]][b.weights[1]].weights = b.weights
  /\ blocks[b.weights[2]][b.weights[1]].mode = b.mode

\* a block is solid and has no endpoint mode, or its data fit its mode
HdrFits(b) ==
  /\ IsSolid(b) => b.cem = 0
  /\ ~IsSolid(b) => b.mode \in Modes /\ b.cem = Cem[b.mode] /\ EndsFit(b) /\ WeightsFit(b)

HdrFitInv ==
  \A b \in HdrBlocks, y \in Lines, x \in Cols :
    HdrDecoded(x, y) /\ blocks[y][x] = b => HdrFits(b)

HdrInv == HdrTypes /\ RingInv /\ RunInv /\ HdrFitInv

-----------------------------------------------------------------------------
(* The raster order and the ring. *)

\* The assumptions on the constants, under one name.
HdrNumbers ==
  /\ NX \in Nat \ {0} /\ NY \in Nat \ {0} /\ Rows \in Nat /\ Rows > 1
  /\ Deltas \subseteq Int \X Int
  /\ \A d \in Deltas : d[2] > -Rows /\ (d[2] < 0 \/ (d[2] = 0 /\ d[1] < 0))
  /\ SolidMode \notin Modes /\ 0 # SolidMode
  /\ Cem \in [Modes -> Nat \ {0}]
  /\ RunLens \subseteq Nat

\* The assumptions on the constants, under one name.
LEMMA HdrFacts == HdrNumbers
BY GridAssumption, HdrAssumption DEF HdrNumbers

\* The row after the last one of the ring is the first.
LEMMA NextRowOf ==
  ASSUME NEW n \in Nat, n > 1, NEW r \in 0 .. n - 1
  PROVE  (r + 1) % n = IF r + 1 = n THEN 0 ELSE r + 1
<1>1. CASE r + 1 = n BY <1>1
<1>2. CASE r + 1 < n BY <1>2
<1> QED BY <1>1, <1>2

\* A picture with blocks remaining is not past its last row.
LEMMA RemainingInside ==
  ASSUME NEW c \in Cols, NEW r \in 0 .. NY, NEW n \in Nat, n > 0, n <= NX * NY - (c + r * NX)
  PROVE  r < NY
<1> NX \in Nat /\ NY \in Nat BY GridAssumption
<1> SUFFICES ASSUME r = NY PROVE FALSE OBVIOUS
<1>1. r * NX = NX * NY OBVIOUS
<1> QED BY <1>1 DEF Cols

\* Each block leaves one fewer.
LEMMA RemainingStep ==
  ASSUME NEW c \in Cols, NEW r \in 0 .. NY - 1
  PROVE  NX * NY - (NextX(c) + NextY(c, r) * NX) = NX * NY - (c + r * NX) - 1
<1> NX \in Nat /\ NY \in Nat BY GridAssumption
<1>1. CASE c + 1 = NX
  <2>1. (r + 1) * NX = r * NX + NX OBVIOUS
  <2>2. r * NX \in Int /\ NX * NY \in Int OBVIOUS
  <2> QED BY <1>1, <2>1, <2>2 DEF NextX, NextY, Cols
<1>2. CASE c + 1 # NX
  <2>1. r * NX \in Int /\ NX * NY \in Int OBVIOUS
  <2> QED BY <1>2, <2>1 DEF NextX, NextY, Cols
<1> QED BY <1>1, <1>2

\* The next block in raster order comes after this one and all before it.
LEMMA NextPlace ==
  ASSUME NEW c \in Cols, NEW r \in Lines, NEW x, NEW y
  PROVE  /\ NextX(c) \in Cols /\ NextY(c, r) \in 0 .. NY
         /\ NextX(c) # 0 \/ NextY(c, r) # 0
         /\ Precedes(c, r, NextX(c), NextY(c, r))
         /\ Precedes(x, y, c, r) => x \in Cols /\ y \in Lines /\ ~(x = c /\ y = r)
         /\ Precedes(x, y, NextX(c), NextY(c, r)) <=> Precedes(x, y, c, r) \/ (x = c /\ y = r)
         /\ x \in Cols /\ y \in Lines /\ NextX(x) = NextX(c) /\ NextY(x, y) = NextY(c, r)
              => x = c /\ y = r
BY GridAssumption DEF NextX, NextY, Precedes, Cols, Lines

\* The slot of a row within reach is in the ring, and the rows within reach have one each.
LEMMA RowInRing ==
  ASSUME HdrTypes, NEW y \in Lines, y <= curBy, y > curBy - Rows
  PROVE  /\ CalcRowIndex(y) \in 0 .. Rows - 1
         /\ CalcRowIndex(y) = row <=> y = curBy
BY HdrFacts DEF HdrNumbers, HdrTypes, CalcRowIndex, Lines

\* Moving the current row on leaves the slots of the rows within reach where they are.
LEMMA RowSlotMoves ==
  ASSUME HdrTypes, curBy < NY, row' = NextRow, curBy' = NextY(curBx, curBy),
         NEW y \in Lines, y <= curBy, y > curBy' - Rows
  PROVE  CalcRowIndex(y)' = CalcRowIndex(y)
<1>1. row \in 0 .. Rows - 1 /\ curBy \in Nat /\ y \in Nat /\ Rows \in Nat /\ Rows > 1
  BY HdrFacts DEF HdrNumbers, HdrTypes, Lines
<1>2. (row + 1) % Rows = IF row + 1 = Rows THEN 0 ELSE row + 1
  BY <1>1, NextRowOf
<1>3. CASE curBx + 1 = NX
  <2>1. row' = (IF row + 1 = Rows THEN 0 ELSE row + 1) /\ curBy' = curBy + 1
    BY <1>2, <1>3 DEF NextRow, NextY
  <2> QED BY <1>1, <2>1 DEF CalcRowIndex
<1>4. CASE curBx + 1 # NX
  BY <1>4 DEF NextRow, NextY, CalcRowIndex
<1> QED BY <1>3, <1>4

-----------------------------------------------------------------------------
(* Output of a block. *)

\* What was output before stays.
LEMMA EmitKeepsBlocks ==
  ASSUME HdrTypes, curBy < NY, NEW b \in HdrBlocks, Emit(b)
  PROVE  \A x, y : HdrDecoded(x, y) => HdrDecoded(x, y)' /\ blocks'[y][x] = blocks[y][x]
<1>1. curBx \in Cols /\ curBy \in Lines
  BY HdrFacts DEF HdrNumbers, HdrTypes, Lines
<1>2. ASSUME NEW x, NEW y, HdrDecoded(x, y)
      PROVE  HdrDecoded(x, y)' /\ blocks'[y][x] = blocks[y][x]
  <2>1. x \in Cols /\ y \in Lines /\ ~(x = curBx /\ y = curBy)
    BY <1>1, <1>2, NextPlace DEF HdrDecoded
  <2>2. HdrDecoded(x, y)'
    BY <1>1, <1>2, NextPlace DEF HdrDecoded, Emit
  <2>3. blocks'[y][x] = blocks[y][x]
    BY <1>1, <2>1 DEF Emit, HdrTypes
  <2> QED BY <2>2, <2>3
<1> QED BY <1>2

\* A block that fits still does after another block is output.
LEMMA EmitKeepsFit ==
  ASSUME HdrTypes, curBy < NY, NEW b \in HdrBlocks, Emit(b), NEW c
  PROVE  /\ EndsFit(c) => EndsFit(c)'
         /\ WeightsFit(c) => WeightsFit(c)'
         /\ HdrFits(c) => HdrFits(c)'
BY EmitKeepsBlocks DEF HdrFits, EndsFit, WeightsFit, IsSolid

\* What a block's data has to be for it to fit once it is output here.
Fitting(b) ==
  /\ IsSolid(b) => b.cem = 0
  /\ ~IsSolid(b) =>
       /\ b.mode \in Modes /\ b.cem = Cem[b.mode]
       /\ b.ends = Here \/ EndsFit(b)
       /\ b.weights = Here \/ WeightsFit(b)

\* Output keeps the types, the ring and the fit.
LEMMA EmitKeeps ==
  ASSUME HdrTypes, RingInv, HdrFitInv, curBy < NY, NEW b \in HdrBlocks, Emit(b), Fitting(b),
         run' \in Nat, source' \in HdrBlocks
  PROVE  HdrTypes' /\ RingInv' /\ HdrFitInv' /\ blocks'[curBy][curBx] = b
<1>1. curBx \in Cols /\ curBy \in Lines /\ row \in 0 .. Rows - 1
  BY HdrFacts DEF HdrNumbers, HdrTypes, Lines
<1>2. curBx' = NextX(curBx) /\ curBy' = NextY(curBx, curBy)
  BY DEF Emit
<1>3. blocks'[curBy][curBx] = b /\ ring'[row][curBx] = b
  BY <1>1 DEF Emit, HdrTypes
<1>4. ASSUME NEW x \in Cols, NEW y \in Lines, HdrDecoded(x, y)'
      PROVE  HdrDecoded(x, y) \/ (x = curBx /\ y = curBy)
  BY <1>1, <1>2, <1>4, NextPlace DEF HdrDecoded
<1>5. ASSUME NEW x \in Cols, NEW y \in Lines, HdrDecoded(x, y)
      PROVE  blocks'[y][x] = blocks[y][x]
  <2>1. ~(x = curBx /\ y = curBy)
    BY <1>1, <1>5, NextPlace DEF HdrDecoded
  <2> QED BY <1>1, <2>1 DEF Emit, HdrTypes
<1>6. HdrTypes'
  <2>1. curBx' \in Cols /\ curBy' \in 0 .. NY
    BY <1>1, <1>2, NextPlace
  <2>2. row' \in 0 .. Rows - 1
    BY <1>1, NextRowOf, HdrFacts DEF Emit, NextRow, HdrNumbers
  <2>3. ring' \in [0 .. Rows - 1 -> [Cols -> HdrBlocks]]
    BY <1>1 DEF Emit, HdrTypes
  <2>4. blocks' \in [Lines -> [Cols -> HdrBlocks \cup {"none"}]]
    BY <1>1 DEF Emit, HdrTypes
  <2>5. \A y \in Lines, x \in Cols : HdrDecoded(x, y)' => blocks'[y][x] \in HdrBlocks
    BY <1>3, <1>4, <1>5 DEF HdrTypes
  <2> QED BY <2>1, <2>2, <2>3, <2>4, <2>5 DEF HdrTypes
<1>7. RingInv'
  <2> SUFFICES ASSUME NEW y \in Lines, NEW x \in Cols, HdrDecoded(x, y)', y > curBy' - Rows
               PROVE  Logical(x, y)' = blocks'[y][x]
    BY DEF RingInv
  <2>1. y <= curBy /\ y > curBy - Rows
    BY <1>1, <1>2, <1>4, HdrFacts DEF HdrDecoded, Precedes, NextY, HdrNumbers, Lines
  <2>2. CalcRowIndex(y)' = CalcRowIndex(y)
    BY <1>1, <1>2, <2>1, RowSlotMoves, HdrFacts DEF Emit, Lines, HdrNumbers
  <2>3. Logical(x, y)' = ring'[CalcRowIndex(y)][x]
    BY <2>2 DEF Logical
  <2>4. CalcRowIndex(y) \in 0 .. Rows - 1 /\ (CalcRowIndex(y) = row <=> y = curBy)
    BY <2>1, RowInRing
  <2>5. CASE x = curBx /\ y = curBy
    BY <1>3, <2>3, <2>4, <2>5
  <2>6. CASE HdrDecoded(x, y) /\ ~(x = curBx /\ y = curBy)
    <3>1. ring'[CalcRowIndex(y)][x] = ring[CalcRowIndex(y)][x]
      BY <1>1, <2>4, <2>6 DEF Emit, HdrTypes
    <3>2. Logical(x, y) = blocks[y][x]
      BY <2>1, <2>6 DEF RingInv
    <3> QED BY <1>5, <2>3, <2>6, <3>1, <3>2 DEF Logical
  <2> QED BY <1>4, <2>5, <2>6
<1>8. HdrFits(b)'
  <2>1. \A c, r : c = curBx /\ r = curBy => HdrDecoded(c, r)'
    BY <1>1, <1>2, NextPlace DEF HdrDecoded
  <2>2. ASSUME b.ends = Here \/ EndsFit(b), ~IsSolid(b)
        PROVE  EndsFit(b)'
    <3>1. CASE b.ends = Here
      BY <1>3, <2>1, <3>1 DEF Here, EndsFit
    <3>2. CASE EndsFit(b)
      BY <3>2, EmitKeepsFit
    <3> QED BY <2>2, <3>1, <3>2
  <2>3. ASSUME b.weights = Here \/ WeightsFit(b), ~IsSolid(b)
        PROVE  WeightsFit(b)'
    <3>1. CASE b.weights = Here
      BY <1>3, <2>1, <3>1 DEF Here, WeightsFit
    <3>2. CASE WeightsFit(b)
      BY <3>2, EmitKeepsFit
    <3> QED BY <2>3, <3>1, <3>2
  <2> QED BY <2>2, <2>3 DEF HdrFits, Fitting, IsSolid
<1>9. HdrFitInv'
  <2> SUFFICES ASSUME NEW c \in HdrBlocks, NEW y \in Lines, NEW x \in Cols,
                      HdrDecoded(x, y)', blocks'[y][x] = c
               PROVE  HdrFits(c)'
    BY DEF HdrFitInv
  <2>1. CASE x = curBx /\ y = curBy
    <3>1. b = c BY <1>3, <2>1
    <3> QED BY <1>8, <3>1
  <2>2. CASE HdrDecoded(x, y)
    <3>1. HdrFits(c)
      BY <1>5, <2>2 DEF HdrFitInv
    <3> QED BY <3>1, EmitKeepsFit
  <2> QED BY <1>4, <2>1, <2>2
<1> QED BY <1>3, <1>6, <1>7, <1>9

-----------------------------------------------------------------------------
(* The commands. *)

\* The initial state.
LEMMA InitHdr == HdrInit => HdrInv
<1> SUFFICES ASSUME HdrInit PROVE HdrInv
  OBVIOUS
<1>1. Empty \in HdrBlocks
  BY DEF Empty, Nowhere, HdrBlocks
<1>2. HdrTypes /\ \A y \in Lines, x \in Cols : ~HdrDecoded(x, y)
  BY <1>1, HdrFacts
     DEF HdrNumbers, HdrInit, HdrTypes, HdrDecoded, Precedes, Cols, Lines, Undecoded
<1>3. RunInv
  BY HdrFacts DEF HdrNumbers, HdrInit, RunInv, RunRepeatsBlockBefore, Remaining
<1> QED BY <1>2, <1>3 DEF HdrInv, RingInv, HdrFitInv

\* What a command finds at a decoded place within reach is the block there, and it fits.
LEMMA HdrReadsBlock ==
  ASSUME HdrInv, NEW x, NEW y, HdrDecoded(x, y), y > curBy - Rows
  PROVE  /\ Logical(x, y) = blocks[y][x]
         /\ Logical(x, y) \in HdrBlocks
         /\ \A b : b = Logical(x, y) => HdrFits(b)
<1>1. x \in Cols /\ y \in Lines
  BY DEF HdrDecoded, Precedes
<1> QED BY <1>1 DEF HdrInv, HdrTypes, RingInv, HdrFitInv

\* A coded block that is fitting keeps the invariant.
LEMMA CodeKeeps ==
  ASSUME HdrInv, NEW b \in HdrBlocks, Fitting(b), CodeBlock(b)
  PROVE  HdrInv'
<1>1. curBy < NY /\ run = 0 /\ Emit(b) /\ run' = 0 /\ source' = source
  BY DEF CodeBlock, Commands, HdrDecoding
<1>2. HdrTypes' /\ RingInv' /\ HdrFitInv'
  BY <1>1, EmitKeeps DEF HdrInv, HdrTypes
<1>3. curBx \in Cols /\ curBy \in 0 .. NY - 1
  BY <1>1, HdrFacts DEF HdrInv, HdrTypes, HdrNumbers
<1>4. Remaining' = Remaining - 1 /\ Remaining \in Int
  BY <1>1, <1>3, RemainingStep, HdrFacts DEF Emit, Remaining, HdrNumbers, Cols
<1>5. Remaining > 0
  <2>1. curBy * NX <= (NY - 1) * NX
    BY <1>3, HdrFacts DEF HdrNumbers
  <2>2. (NY - 1) * NX = NX * NY - NX
    BY HdrFacts DEF HdrNumbers
  <2> QED BY <1>3, <2>1, <2>2, HdrFacts DEF Remaining, HdrNumbers, Cols
<1> QED BY <1>1, <1>2, <1>4, <1>5 DEF HdrInv, RunInv, RunRepeatsBlockBefore

\* A run starts with the block before it.
LEMMA RunStartKeeps ==
  ASSUME HdrInv, NEW n \in RunLens, RunStarts(n)
  PROVE  HdrInv'
<1> DEFINE p == BeforeHere[1]
           q == BeforeHere[2]
<1>1. curBx \in Cols /\ curBy \in 0 .. NY - 1 /\ (curBx # 0 \/ curBy # 0)
  BY HdrFacts DEF RunStarts, Commands, HdrDecoding, HdrInv, HdrTypes, HdrNumbers
<1>2. /\ HdrDecoded(p, q) /\ q > curBy - Rows
      /\ \A x \in Cols, y \in Lines :
           NextX(x) = curBx /\ NextY(x, y) = curBy => x = p /\ y = q
  BY <1>1, HdrFacts DEF BeforeHere, HdrDecoded, Precedes, NextX, NextY, Cols, Lines, HdrNumbers
<1> HIDE DEF p, q
<1>3. source' = blocks[q][p] /\ source' \in HdrBlocks
  <2>1. PICK x, y : x = p /\ y = q OBVIOUS
  <2>2. source' = Logical(x, y)
    BY <2>1 DEF RunStarts, p, q
  <2>3. Logical(x, y) = blocks[y][x] /\ Logical(x, y) \in HdrBlocks
    BY <1>2, <2>1, HdrReadsBlock
  <2> QED BY <2>1, <2>2, <2>3
<1>4. HdrTypes' /\ RingInv' /\ HdrFitInv'
  BY <1>3, HdrFacts, SMTT(30)
     DEF RunStarts, HdrInv, HdrTypes, RingInv, HdrFitInv, HdrDecoded, Logical, CalcRowIndex,
         HdrFits, EndsFit, WeightsFit, IsSolid, HdrNumbers
<1>5. RunInv'
  BY <1>1, <1>2, <1>3, HdrFacts
     DEF RunStarts, Commands, HdrDecoding, RunInv, RunRepeatsBlockBefore, Remaining, HdrNumbers
<1> QED BY <1>4, <1>5 DEF HdrInv

\* A run goes on with the block it has output last.
LEMMA RunKeeps ==
  ASSUME HdrInv, RunGoesOn
  PROVE  HdrInv'
<1>1. /\ run > 0 /\ Emit(source) /\ run' = run - 1 /\ source' = source
      /\ run \in Nat /\ run <= Remaining
      /\ curBy < NY /\ (curBx # 0 \/ curBy # 0)
  BY DEF RunGoesOn, HdrInv, RunInv, RunRepeatsBlockBefore, HdrTypes
<1>2. curBx \in Cols /\ curBy \in 0 .. NY - 1 /\ curBy \in Lines /\ source \in HdrBlocks
  BY <1>1, HdrFacts DEF HdrInv, HdrTypes, HdrNumbers, Lines
<1>3. PICK b \in HdrBlocks : b = source
  BY <1>2
<1>4. HdrFits(b)
  <2>1. PICK x \in Cols, y \in Lines : NextX(x) = curBx /\ NextY(x, y) = curBy /\ HdrDecoded(x, y)
    <3> DEFINE x == IF curBx # 0 THEN curBx - 1 ELSE NX - 1
               y == IF curBx # 0 THEN curBy ELSE curBy - 1
    <3>1. x \in Cols /\ y \in Lines /\ NextX(x) = curBx /\ NextY(x, y) = curBy /\ HdrDecoded(x, y)
      BY <1>1, <1>2, HdrFacts DEF HdrDecoded, Precedes, NextX, NextY, Cols, Lines, HdrNumbers
    <3> QED BY <3>1
  <2>2. blocks[y][x] = b
    BY <1>1, <1>3, <2>1 DEF HdrInv, RunInv, RunRepeatsBlockBefore
  <2> QED BY <2>1, <2>2 DEF HdrInv, HdrFitInv
<1>5. Fitting(b)
  BY <1>4 DEF HdrFits, Fitting
<1>6. HdrTypes' /\ RingInv' /\ HdrFitInv' /\ blocks'[curBy][curBx] = b
  BY <1>1, <1>2, <1>3, <1>5, EmitKeeps DEF HdrInv
<1>7. run' <= Remaining'
  BY <1>1, <1>2, RemainingStep, HdrFacts DEF Emit, Remaining, HdrNumbers, Cols
<1>8. RunRepeatsBlockBefore'
  <2> SUFFICES ASSUME run' > 0 PROVE RunRepeatsBlockBefore'
    BY DEF RunRepeatsBlockBefore
  <2>1. curBx' \in Cols /\ curBy' \in 0 .. NY
    BY <1>6 DEF HdrTypes
  <2>2. curBy' < NY
    <3>1. \A c \in Cols, r \in 0 .. NY, n \in Nat :
            n > 0 /\ n <= NX * NY - (c + r * NX) => r < NY
      BY RemainingInside
    <3>2. run' \in Nat /\ run' <= NX * NY - (curBx' + curBy' * NX)
      BY <1>6, <1>7 DEF HdrTypes, Remaining
    <3> QED BY <2>1, <3>1, <3>2
  <2>3. curBx' # 0 \/ curBy' # 0
    BY <1>1, <1>2, NextPlace DEF Emit
  <2>4. ASSUME NEW y \in Lines, NEW x \in Cols, NextX(x) = curBx', NextY(x, y) = curBy'
        PROVE  source' = blocks'[y][x]
    <3>1. x = curBx /\ y = curBy
      BY <1>1, <1>2, <2>4, NextPlace DEF Emit
    <3> QED BY <1>1, <1>3, <1>6, <3>1
  <2> QED BY <2>2, <2>3, <2>4 DEF RunRepeatsBlockBefore
<1> QED BY <1>6, <1>7, <1>8 DEF HdrInv, RunInv

\* The current block is at a place.
LEMMA HerePlace == HdrTypes => Here \in Int \X Int
BY HdrFacts DEF HdrTypes, Here, Cols, HdrNumbers

\* A solid block has no endpoint mode.
LEMMA SolidKeeps ==
  ASSUME HdrInv, SolidBlock
  PROVE  HdrInv'
<1> DEFINE s == [mode |-> SolidMode, cem |-> 0, ends |-> Here, weights |-> Here]
<1>1. s \in HdrBlocks
  BY HerePlace DEF HdrInv, HdrBlocks
<1>2. PICK b \in HdrBlocks : b = s
  BY <1>1
<1>3. Fitting(b)
  BY <1>2 DEF Fitting, IsSolid
<1>4. CodeBlock(b)
  BY <1>2 DEF SolidBlock
<1> QED BY <1>3, <1>4, CodeKeeps

\* A raw block has the endpoint mode of its mode.
LEMMA RawKeeps ==
  ASSUME HdrInv, NEW m \in Modes, RawBlock(m)
  PROVE  HdrInv'
<1> DEFINE s == [mode |-> m, cem |-> Cem[m], ends |-> Here, weights |-> Here]
<1>1. Cem[m] \in Nat /\ m # SolidMode
  BY HdrFacts DEF HdrNumbers
<1>2. s \in HdrBlocks
  BY <1>1, HerePlace DEF HdrInv, HdrBlocks
<1>3. PICK b \in HdrBlocks : b = s
  BY <1>2
<1>4. Fitting(b)
  BY <1>1, <1>3 DEF Fitting, IsSolid
<1>5. CodeBlock(b)
  BY <1>3 DEF RawBlock
<1> QED BY <1>4, <1>5, CodeKeeps

\* A reused block is not solid and stays what it is but for its weights.
LEMMA ReuseKeeps ==
  ASSUME HdrInv, NEW d \in Deltas, Reuse(d)
  PROVE  HdrInv'
<1>1. PICK x, y : x = curBx + d[1] /\ y = curBy + d[2]
  OBVIOUS
<1>2. /\ InPicture(x, y) /\ ~IsSolid(Logical(x, y))
      /\ CodeBlock([Logical(x, y) EXCEPT !.weights = Here])
  BY <1>1 DEF Reuse
<1>3. HdrDecoded(x, y) /\ y > curBy - Rows
  <2>1. curBy < NY
    BY <1>2 DEF CodeBlock, Commands, HdrDecoding
  <2>2. d[1] \in Int /\ d[2] \in Int /\ d[2] > -Rows /\ (d[2] < 0 \/ (d[2] = 0 /\ d[1] < 0))
    BY HdrFacts DEF HdrNumbers
  <2>3. curBx \in 0 .. NX - 1 /\ curBy \in 0 .. NY - 1 /\ NX \in Nat /\ NY \in Nat /\ Rows \in Nat
    BY <2>1, HdrFacts DEF HdrInv, HdrTypes, Cols, HdrNumbers
  <2>4. x >= 0 /\ x < NX /\ y >= 0
    BY <1>2 DEF InPicture
  <2>5. x \in Int /\ y \in Int
    BY <1>1, <2>2, <2>3
  <2>6. y > curBy - Rows /\ (y < curBy \/ (y = curBy /\ x < curBx))
    BY <1>1, <2>2, <2>3
  <2> QED BY <2>3, <2>4, <2>5, <2>6 DEF HdrDecoded, Precedes, Cols, Lines
<1>4. PICK c : c = Logical(x, y)
  OBVIOUS
<1>5. c \in HdrBlocks /\ HdrFits(c)
  BY <1>3, <1>4, HdrReadsBlock
<1>6. PICK b : b = [c EXCEPT !.weights = Here]
  OBVIOUS
<1>7. /\ b \in HdrBlocks
      /\ b.mode = c.mode /\ b.cem = c.cem /\ b.ends = c.ends /\ b.weights = Here
  <2>1. Here \in Int \X Int
    BY HerePlace DEF HdrInv
  <2> QED BY <1>5, <1>6, <2>1 DEF HdrBlocks
<1>8. Fitting(b)
  BY <1>2, <1>4, <1>5, <1>7 DEF Fitting, HdrFits, IsSolid, EndsFit
<1>9. CodeBlock(b)
  BY <1>2, <1>4, <1>6
<1> QED BY <1>7, <1>8, <1>9, CodeKeeps

\* A neighbor with the endpoint mode asked for is not solid.
LEMMA NeighborKeeps ==
  ASSUME HdrInv, NEW m \in Modes, NEW em \in 1 .. 4, FromNeighbor(m, em)
  PROVE  HdrInv'
<1>1. PICK x, y : x = Neighbor(em)[1] /\ y = Neighbor(em)[2]
  OBVIOUS
<1>2. PICK c : c = Logical(x, y)
  OBVIOUS
<1> DEFINE s == [mode |-> m, cem |-> Cem[m], weights |-> Here,
                 ends |-> IF em \in {1, 2} THEN c.ends ELSE Here]
<1>3. x >= 0 /\ y >= 0 /\ SameCem(m, c) /\ CodeBlock(s)
  BY <1>1, <1>2 DEF FromNeighbor
<1>4. HdrDecoded(x, y) /\ y > curBy - Rows
  <2>1. curBy < NY
    BY <1>3 DEF CodeBlock, Commands, HdrDecoding
  <2> QED BY <1>1, <1>3, <2>1, HdrFacts
          DEF Neighbor, HdrInv, HdrTypes, HdrDecoded, Precedes, Cols, Lines, HdrNumbers
<1>5. c \in HdrBlocks /\ HdrFits(c)
  BY <1>2, <1>4, HdrReadsBlock
<1>6. c.cem = Cem[m] /\ ~IsSolid(c) /\ EndsFit(c)
  BY <1>3, <1>5 DEF SameCem, HdrFits
<1>7. PICK b : b = s
  OBVIOUS
<1>8. /\ b.mode = m /\ b.cem = Cem[m] /\ b.weights = Here
      /\ b.ends = Here \/ (b.ends = c.ends /\ b.cem = c.cem)
  BY <1>6, <1>7
<1>9. b \in HdrBlocks
  <2>1. Here \in Int \X Int
    BY HerePlace DEF HdrInv
  <2>2. Cem[m] \in Nat
    BY HdrFacts DEF HdrNumbers
  <2> QED BY <1>5, <1>7, <2>1, <2>2 DEF HdrBlocks
<1>10. Fitting(b)
  BY <1>6, <1>8, HdrFacts DEF Fitting, IsSolid, EndsFit, HdrNumbers
<1>11. CodeBlock(b)
  BY <1>3, <1>7
<1> QED BY <1>9, <1>10, <1>11, CodeKeeps

\* Every step keeps the invariant.
LEMMA NextHdr == HdrInv /\ [HdrNext]_hdrVars => HdrInv'
<1> SUFFICES ASSUME HdrInv, [HdrNext]_hdrVars PROVE HdrInv'
  OBVIOUS
<1>1. CASE \E n \in RunLens : RunStarts(n)
  BY <1>1, RunStartKeeps
<1>2. CASE RunGoesOn
  BY <1>2, RunKeeps
<1>3. CASE SolidBlock
  BY <1>3, SolidKeeps
<1>4. CASE \E d \in Deltas : Reuse(d)
  BY <1>4, ReuseKeeps
<1>5. CASE \E m \in Modes : RawBlock(m)
  BY <1>5, RawKeeps
<1>6. CASE \E m \in Modes, em \in 1 .. 4 : FromNeighbor(m, em)
  BY <1>6, NeighborKeeps
<1>7. CASE UNCHANGED <<curBx, curBy, blocks, ring, row, run, source>>
  BY <1>7, SMTT(30) DEF HdrInv, HdrTypes, RingInv, RunInv, HdrFitInv, HdrFits, EndsFit, WeightsFit, IsSolid,
              HdrDecoded, Logical, CalcRowIndex, RunRepeatsBlockBefore, Remaining
<1> QED BY <1>1, <1>2, <1>3, <1>4, <1>5, <1>6, <1>7 DEF HdrNext, hdrVars, Malformed

-----------------------------------------------------------------------------
(* The theorems. *)

\* The invariant holds throughout.
LEMMA HdrInvariant == HdrSpec => []HdrInv
BY InitHdr, NextHdr, PTL DEF HdrSpec

\* The ring of rows holds the block of every place that a command can name (mod.rs:250-257,
\* 434-446), for every picture and every number of rows.
THEOREM RingSuffices == HdrSpec => []RingHoldsReach
<1>1. HdrInv => RingHoldsReach
  BY DEF HdrInv, RingInv, RingHoldsReach
<1> QED BY <1>1, HdrInvariant, PTL

\* A run repeats the block before it, however often it wraps around the ring, and never
\* leaves the picture (mod.rs:471-502).
THEOREM RunsRepeat == HdrSpec => []RunRepeatsBlockBefore
<1>1. HdrInv => RunRepeatsBlockBefore
  BY DEF HdrInv, RunInv
<1> QED BY <1>1, HdrInvariant, PTL

\* The endpoints and the weights of every block were coded for its modes, through any chain
\* of runs, reuses and neighbors (mod.rs:521-759).
THEOREM DataFits == HdrSpec => []DataFitsMode
<1>1. HdrInv => DataFitsMode
  <2> SUFFICES ASSUME HdrInv, NEW y \in Lines, NEW x \in Cols,
                      HdrDecoded(x, y), ~IsSolid(blocks[y][x])
               PROVE  LET b == blocks[y][x]
                          Coder(p) == blocks[p[2]][p[1]]
                      IN /\ b.cem = Cem[b.mode]
                         /\ Coder(b.ends).ends = b.ends /\ Coder(b.ends).cem = b.cem
                         /\ Coder(b.weights).weights = b.weights /\ Coder(b.weights).mode = b.mode
    BY DEF DataFitsMode
  <2>1. PICK b \in HdrBlocks : b = blocks[y][x]
    BY DEF HdrInv, HdrTypes
  <2>2. HdrFits(b)
    BY <2>1 DEF HdrInv, HdrFitInv
  <2> QED BY <2>1, <2>2 DEF HdrFits, EndsFit, WeightsFit, IsSolid
<1> QED BY <1>1, HdrInvariant, PTL

(***************************************************************************)
(* XuastcBlocks, for every set of trial modes and any ring of two rows or  *)
(* more.                                                                   *)
(***************************************************************************)
Ends == [at : Int \X Int, delta : Int \X Int, from : Int \X Int]
LogBlocks ==
  [tm : SolidTm .. TrialModes - 1, base : BOOLEAN, part : Int \X Int, weights : Int, ends : Ends]

XuastcTypes ==
  /\ bx \in Cols /\ by \in 0 .. NY
  /\ logRing \in [0 .. RingRows - 1 -> [Cols -> LogBlocks]]
  /\ tmStates \in [0 .. 1 -> [Cols -> Int]]
  /\ grid \in [Lines -> [Cols -> LogBlocks \cup {"none"}]]
  /\ \A y \in Lines, x \in Cols : Decoded(x, y) => grid[y][x] \in LogBlocks

\* A run ends with its row.
RunEndsInRow == runLen \in 0 .. NX - bx /\ (runLen # 0 => bx # 0)

\* an endpoint delta names a block that is decoded already
NamesDecoded(ends) ==
  ends.delta # Raw =>
    \E x \in Cols, y \in Lines :
      /\ x = ends.at[1] + ends.delta[1] /\ y = ends.at[2] + ends.delta[2]
      /\ Decoded(x, y)
      /\ grid[y][x].tm # SolidTm /\ grid[y][x].ends.at = ends.from

LogFits(b) == b.tm # SolidTm => WeightsAndPartsFit(b) /\ NamesDecoded(b.ends)

LogFitInv ==
  \A b \in LogBlocks, y \in Lines, x \in Cols :
    Decoded(x, y) /\ grid[y][x] = b => LogFits(b)

XuastcInv == XuastcTypes /\ RunEndsInRow /\ LogRingHoldsReach /\ StatesMatchBlocks /\ LogFitInv

-----------------------------------------------------------------------------
(* The raster order and the two rings. *)

\* The assumptions on the constants, under one name.
XuastcNumbers ==
  /\ NX \in Nat \ {0} /\ NY \in Nat \ {0}
  /\ RingRows \in Nat /\ RingRows > 1 /\ TrialModes \in Nat \ {0}
  /\ Parts \in [0 .. TrialModes - 1 -> 1 .. 3]
  /\ Direct \subseteq 0 .. TrialModes - 1
  /\ Patterns \in [2 .. 3 -> Nat]
  /\ \A d \in Deltas :
       d \in Int \X Int /\ d[2] > -RingRows /\ (d[2] < 0 \/ (d[2] = 0 /\ d[1] < 0))

\* The assumptions on the constants, under one name.
LEMMA XuastcFacts == XuastcNumbers
BY GridAssumption, XuastcAssumption DEF XuastcNumbers

\* Rows less than a ring apart have different slots.
LEMMA RowsApart ==
  ASSUME NEW n \in Nat, n > 0, NEW a \in Nat, NEW b \in Nat, a < b, b - a < n
  PROVE  a % n # b % n
<1> DEFINE p == a \div n
           q == b \div n
           r == a % n
<1> SUFFICES ASSUME b % n = r PROVE FALSE
  OBVIOUS
<1>1. p \in Int /\ q \in Int /\ r \in Int
  OBVIOUS
<1>2. a = n * p + r
  OBVIOUS
<1>3. b = n * q + r
  OBVIOUS
<1> HIDE DEF p, q, r
<1>4. b - a = n * (q - p)
  BY <1>1, <1>2, <1>3
<1>5. CASE q - p <= 0
  <2>1. n * (q - p) <= 0
    BY <1>1, <1>5
  <2> QED BY <1>4, <2>1
<1>6. CASE q - p >= 1
  <2>1. n * (q - p) >= n
    BY <1>1, <1>6
  <2> QED BY <1>1, <1>4, <2>1
<1> QED BY <1>1, <1>5, <1>6

\* A row has a slot in the ring, and one in the two rows of states.
LEMMA RowSlot ==
  ASSUME NEW r \in Nat, NEW y \in Nat, y <= r, y > r - RingRows
  PROVE  /\ y % RingRows \in 0 .. RingRows - 1
         /\ y % RingRows = r % RingRows <=> y = r
BY RowsApart, XuastcFacts, SMTT(30) DEF XuastcNumbers

-----------------------------------------------------------------------------
(* Output of a block. *)

\* What was stored before stays, and what fits still does.
LEMMA StoreKeepsBlocks ==
  ASSUME XuastcTypes, by < NY, NEW b \in LogBlocks, NEW tm \in Int, Store(b, tm)
  PROVE  /\ \A x, y : Decoded(x, y) => Decoded(x, y)' /\ grid'[y][x] = grid[y][x]
         /\ \A c : LogFits(c) => LogFits(c)'
<1>1. bx \in Cols /\ by \in Lines
  BY XuastcFacts DEF XuastcNumbers, XuastcTypes, Lines
<1>2. ASSUME NEW x, NEW y, Decoded(x, y)
      PROVE  Decoded(x, y)' /\ grid'[y][x] = grid[y][x]
  <2>1. x \in Cols /\ y \in Lines /\ ~(x = bx /\ y = by)
    BY <1>1, <1>2, NextPlace DEF Decoded
  <2>2. Decoded(x, y)'
    BY <1>1, <1>2, NextPlace DEF Decoded, Store
  <2>3. grid'[y][x] = grid[y][x]
    BY <1>1, <2>1 DEF Store, XuastcTypes
  <2> QED BY <2>2, <2>3
<1>3. ASSUME NEW c, LogFits(c) PROVE LogFits(c)'
  BY <1>2, <1>3 DEF LogFits, WeightsAndPartsFit, NamesDecoded
<1> QED BY <1>2, <1>3

\* A fitting block, stored with its trial mode as the state, keeps the invariant but for runs.
LEMMA StoreKeeps ==
  ASSUME XuastcInv, by < NY, NEW b \in LogBlocks, NEW tm \in Int, tm = b.tm,
         LogFits(b), Store(b, tm)
  PROVE  XuastcTypes' /\ LogRingHoldsReach' /\ StatesMatchBlocks' /\ LogFitInv'
<1>1. bx \in Cols /\ by \in Lines /\ by \in Nat /\ bx \in Nat /\ XuastcTypes
  <2>1. XuastcTypes
    BY DEF XuastcInv
  <2>2. bx \in Cols /\ by \in 0 .. NY
    BY <2>1 DEF XuastcTypes
  <2> QED BY <2>1, <2>2, XuastcFacts DEF XuastcNumbers, Lines, Cols
<1>2. bx' = NextX(bx) /\ by' = NextY(bx, by)
  BY DEF Store
<1>3. by % RingRows \in 0 .. RingRows - 1 /\ by % 2 \in 0 .. 1
  BY <1>1, XuastcFacts DEF XuastcNumbers
<1>4. /\ grid'[by][bx] = b
      /\ logRing'[by % RingRows][bx] = b
      /\ tmStates'[by % 2][bx] = tm
  BY <1>1, <1>3 DEF Store, Set, SetTm, XuastcTypes
<1>5. ASSUME NEW x \in Cols, NEW y \in Lines, Decoded(x, y)'
      PROVE  Decoded(x, y) \/ (x = bx /\ y = by)
  BY <1>1, <1>2, <1>5, NextPlace DEF Decoded
<1>6. ASSUME NEW x, NEW y, Decoded(x, y)
      PROVE  grid'[y][x] = grid[y][x] /\ x \in Cols /\ y \in Lines /\ ~(x = bx /\ y = by)
  BY <1>1, <1>6, StoreKeepsBlocks, NextPlace DEF Decoded
<1>7. XuastcTypes'
  <2>1. bx' \in Cols /\ by' \in 0 .. NY
    BY <1>1, <1>2, NextPlace
  <2>2. logRing' \in [0 .. RingRows - 1 -> [Cols -> LogBlocks]]
    BY <1>1, <1>3 DEF Store, Set, XuastcTypes
  <2>3. tmStates' \in [0 .. 1 -> [Cols -> Int]]
    BY <1>1, <1>3 DEF Store, SetTm, XuastcTypes
  <2>4. grid' \in [Lines -> [Cols -> LogBlocks \cup {"none"}]]
    BY <1>1 DEF Store, XuastcTypes
  <2>5. \A y \in Lines, x \in Cols : Decoded(x, y)' => grid'[y][x] \in LogBlocks
    BY <1>1, <1>4, <1>5, <1>6 DEF XuastcTypes
  <2> QED BY <2>1, <2>2, <2>3, <2>4, <2>5 DEF XuastcTypes
<1>8. LogRingHoldsReach'
  <2> SUFFICES ASSUME NEW y \in Lines, NEW x \in Cols, Decoded(x, y)', y > by' - RingRows
               PROVE  Get(x, y)' = grid'[y][x]
    BY DEF LogRingHoldsReach
  <2>1. y \in Nat /\ y <= by /\ y > by - RingRows
    <3>1. y \in Nat
      BY DEF Lines
    <3>2. y <= by
      BY <1>1, <1>5, <3>1 DEF Decoded, Precedes
    <3>3. by' = by \/ by' = by + 1
      BY <1>2 DEF NextY
    <3> QED BY <1>1, <3>1, <3>2, <3>3, XuastcFacts DEF XuastcNumbers
  <2>2. y % RingRows \in 0 .. RingRows - 1 /\ (y % RingRows = by % RingRows <=> y = by)
    BY <1>1, <2>1, RowSlot
  <2>3. CASE x = bx /\ y = by
    BY <1>4, <2>3 DEF Get
  <2>4. CASE Decoded(x, y)
    <3>1. logRing'[y % RingRows][x] = logRing[y % RingRows][x]
      BY <1>1, <1>3, <1>6, <2>2, <2>4 DEF Store, Set, XuastcTypes
    <3>2. Get(x, y) = grid[y][x]
      BY <2>1, <2>4 DEF XuastcInv, LogRingHoldsReach
    <3> QED BY <1>6, <2>4, <3>1, <3>2 DEF Get
  <2> QED BY <1>5, <2>3, <2>4
<1>9. StatesMatchBlocks'
  <2> SUFFICES ASSUME NEW y \in Lines, NEW x \in Cols, Decoded(x, y)',
                      y = by' \/ (y = by' - 1 /\ x >= bx' - 1)
               PROVE  TmAt(x, y)' = grid'[y][x].tm
    BY DEF StatesMatchBlocks
  <2>1. x \in Nat /\ y \in Nat /\ y % 2 \in 0 .. 1
    BY DEF Cols, Lines
  <2>2. CASE x = bx /\ y = by
    BY <1>4, <2>2 DEF TmAt
  <2>3. CASE Decoded(x, y)
    <3>1. y = by \/ (y = by - 1 /\ x >= bx - 1 /\ x # bx - 1)
      BY <1>1, <1>2, <2>1, <2>3, XuastcFacts
         DEF NextX, NextY, Decoded, Precedes, XuastcNumbers, Cols, Lines
    <3>2. y % 2 = by % 2 <=> y = by
      BY <1>1, <2>1, <3>1
    <3>3. tmStates'[y % 2][x] = tmStates[y % 2][x]
      BY <1>1, <1>3, <1>6, <2>1, <2>3, <3>2 DEF Store, SetTm, XuastcTypes
    <3>4. TmAt(x, y) = grid[y][x].tm
      BY <2>3, <3>1 DEF XuastcInv, StatesMatchBlocks
    <3> QED BY <1>6, <2>3, <3>3, <3>4 DEF TmAt
  <2> QED BY <1>5, <2>2, <2>3
<1>10. LogFitInv'
  <2> SUFFICES ASSUME NEW c \in LogBlocks, NEW y \in Lines, NEW x \in Cols,
                      Decoded(x, y)', grid'[y][x] = c
               PROVE  LogFits(c)'
    BY DEF LogFitInv
  <2>1. LogFits(c)
    BY <1>4, <1>5, <1>6 DEF XuastcInv, LogFitInv
  <2> QED BY <1>1, <2>1, StoreKeepsBlocks
<1> QED BY <1>7, <1>8, <1>9, <1>10

-----------------------------------------------------------------------------
(* The modes. *)

\* A slot that was never written holds a logical block.
LEMMA DefaultInBlocks == DefaultBlock \in LogBlocks
BY XuastcFacts DEF DefaultBlock, LogBlocks, Ends, Raw, SolidTm, XuastcNumbers

\* The initial state.
LEMMA InitXuastc == XuastcInit => XuastcInv
<1> SUFFICES ASSUME XuastcInit PROVE XuastcInv
  OBVIOUS
<1>1. DefaultBlock \in LogBlocks
  BY DefaultInBlocks
<1>2. XuastcTypes /\ \A y \in Lines, x \in Cols : ~Decoded(x, y)
  BY <1>1, XuastcFacts
     DEF XuastcNumbers, XuastcInit, XuastcTypes, Decoded, Precedes, Cols, Lines, Undecoded
<1>3. RunEndsInRow
  BY XuastcFacts DEF XuastcNumbers, XuastcInit, RunEndsInRow
<1> QED BY <1>2, <1>3 DEF XuastcInv, LogRingHoldsReach, StatesMatchBlocks, LogFitInv

\* What is found at a decoded place within reach is the block there, and it fits.
LEMMA XuastcReadsBlock ==
  ASSUME XuastcInv, NEW x, NEW y, Decoded(x, y), y > by - RingRows
  PROVE  /\ Get(x, y) = grid[y][x] /\ Get(x, y) \in LogBlocks
         /\ \A b : b = Get(x, y) => LogFits(b)
<1>1. x \in Cols /\ y \in Lines
  BY DEF Decoded, Precedes
<1> QED BY <1>1 DEF XuastcInv, XuastcTypes, LogRingHoldsReach, LogFitInv

\* So is the state of a neighbor.
LEMMA ReadsNeighbor ==
  ASSUME XuastcInv, by < NY, NEW d \in Neighbors, NEW x, NEW y,
         x = bx + d[1], y = by + d[2], x >= 0, y >= 0
  PROVE  /\ Decoded(x, y) /\ y > by - RingRows
         /\ TmAt(x, y) = Get(x, y).tm
<1>1. bx \in 0 .. NX - 1 /\ by \in 0 .. NY - 1 /\ RingRows \in Nat /\ RingRows > 1
      /\ NX \in Nat /\ NY \in Nat
  BY XuastcFacts DEF XuastcInv, XuastcTypes, Cols, XuastcNumbers
<1>2. \/ x = bx - 1 /\ y = by
      \/ x = bx /\ y = by - 1
      \/ x = bx - 1 /\ y = by - 1
  BY <1>1 DEF Neighbors
<1>3. x \in Cols /\ y \in Lines /\ Decoded(x, y) /\ y > by - RingRows
  BY <1>1, <1>2 DEF Decoded, Precedes, Cols, Lines
<1>4. y = by \/ (y = by - 1 /\ x >= bx - 1)
  BY <1>1, <1>2
<1>5. TmAt(x, y) = grid[y][x].tm
  BY <1>3, <1>4 DEF XuastcInv, StatesMatchBlocks
<1> QED BY <1>3, <1>5, XuastcReadsBlock

\* A mode that codes a block starts no run.
LEMMA ModeKeeps ==
  ASSUME XuastcInv, Mode, NEW b \in LogBlocks, NEW tm \in Int, tm = b.tm,
         LogFits(b), Store(b, tm)
  PROVE  XuastcInv'
<1>1. by < NY /\ runLen = 0 /\ runLen' = 0
  BY DEF Mode, Decoding
<1>2. XuastcTypes' /\ LogRingHoldsReach' /\ StatesMatchBlocks' /\ LogFitInv'
  BY <1>1, StoreKeeps
<1>3. RunEndsInRow'
  <2>1. \A c \in Cols : 0 \in 0 .. NX - c
    BY XuastcFacts DEF Cols, XuastcNumbers
  <2> QED BY <1>1, <1>2, <2>1 DEF RunEndsInRow, XuastcTypes
<1> QED BY <1>2, <1>3 DEF XuastcInv

\* A run repeats a neighbor and its state.
LEMMA RepeatKeeps ==
  ASSUME XuastcInv, Decoding, bx # 0 \/ by # 0, NEW n \in Nat, n + 1 <= NX - bx, RepeatBlock(n)
  PROVE  XuastcInv'
<1>1. by < NY /\ bx \in 0 .. NX - 1 /\ by \in 0 .. NY - 1 /\ NX \in Nat
  BY XuastcFacts DEF Decoding, XuastcInv, XuastcTypes, Cols, XuastcNumbers
<1>2. PICK d, x, y :
        d \in Neighbors /\ x = bx + d[1] /\ y = by + d[2] /\ x >= 0 /\ y >= 0
        /\ RunSource = <<x, y>>
  <2>1. CASE bx # 0
    <3>1. <<-1, 0>> \in Neighbors /\ RunSource = <<bx - 1, by>>
      BY <2>1 DEF Neighbors, RunSource
    <3>2. bx - 1 = bx + (-1) /\ by = by + 0 /\ bx - 1 >= 0 /\ by >= 0
      BY <1>1, <2>1
    <3> QED BY <3>1, <3>2
  <2>2. CASE bx = 0
    <3>1. <<0, -1>> \in Neighbors /\ RunSource = <<bx, by - 1>>
      BY <2>2 DEF Neighbors, RunSource
    <3>2. bx = bx + 0 /\ by - 1 = by + (-1) /\ bx >= 0 /\ by - 1 >= 0
      BY <1>1, <2>2
    <3> QED BY <3>1, <3>2
  <2> QED BY <2>1, <2>2
<1>3. PICK b, tm : b = Get(x, y) /\ tm = TmAt(x, y)
  OBVIOUS
<1>4. Decoded(x, y) /\ y > by - RingRows /\ tm = b.tm
  BY <1>1, <1>2, <1>3, ReadsNeighbor
<1>5. b \in LogBlocks /\ LogFits(b)
  BY <1>3, <1>4, XuastcReadsBlock
<1>6. tm \in Int
  BY <1>4, <1>5, XuastcFacts DEF LogBlocks, SolidTm, XuastcNumbers
<1>7. Store(b, tm) /\ runLen' = n
  BY <1>2, <1>3 DEF RepeatBlock
<1>8. XuastcTypes' /\ LogRingHoldsReach' /\ StatesMatchBlocks' /\ LogFitInv'
  BY <1>1, <1>4, <1>5, <1>6, <1>7, StoreKeeps
<1>9. RunEndsInRow'
  BY <1>1, <1>7 DEF RunEndsInRow, Store, NextX
<1> QED BY <1>8, <1>9 DEF XuastcInv

\* A run that goes on is not in the first column.
LEMMA RunContinuesKeeps ==
  ASSUME XuastcInv, RunContinues
  PROVE  XuastcInv'
<1>1. Decoding /\ runLen # 0 /\ RepeatBlock(runLen - 1) /\ RunEndsInRow
  BY DEF RunContinues, XuastcInv
<1>2. runLen - 1 \in Nat /\ (runLen - 1) + 1 <= NX - bx /\ bx # 0
  BY <1>1, XuastcFacts DEF RunEndsInRow, XuastcInv, XuastcTypes, Cols, XuastcNumbers
<1>3. PICK n \in Nat : n = runLen - 1
  BY <1>2
<1> QED BY <1>1, <1>2, <1>3, RepeatKeeps

\* The first block of a run copies its source as the later ones do.
LEMMA LogRunKeeps ==
  ASSUME XuastcInv, NEW n \in 1 .. NX, Run(n)
  PROVE  XuastcInv'
<1>1. n <= NX - bx /\ Decoding /\ (bx # 0 \/ by # 0) /\ RepeatBlock(n - 1)
  BY DEF Run
<1>2. n \in Nat /\ n - 1 \in Nat
  BY XuastcFacts DEF XuastcNumbers
<1>3. PICK k \in Nat : k = n - 1
  BY <1>2
<1>4. k + 1 = n
  BY <1>2, <1>3
<1> QED BY <1>1, <1>3, <1>4, RepeatKeeps

\* A solid block has nothing to fit.
LEMMA LogSolidKeeps ==
  ASSUME XuastcInv, CodeSolid
  PROVE  XuastcInv'
<1>1. SolidLog \in LogBlocks /\ SolidLog.tm = SolidTm /\ SolidTm \in Int
  <2>1. SolidTm \in SolidTm .. TrialModes - 1 /\ SolidTm \in Int
    BY XuastcFacts DEF SolidTm, XuastcNumbers
  <2>2. DefaultBlock \in LogBlocks
    BY DefaultInBlocks
  <2> QED BY <2>1, <2>2 DEF SolidLog, LogBlocks
<1>2. PICK b \in LogBlocks : b = SolidLog
  BY <1>1
<1>3. PICK tm \in Int : tm = SolidTm
  BY <1>1
<1>4. LogFits(b) /\ tm = b.tm
  BY <1>1, <1>2, <1>3 DEF LogFits
<1>5. Mode /\ Store(b, tm)
  BY <1>2, <1>3 DEF CodeSolid
<1> QED BY <1>4, <1>5, ModeKeeps

\* The configuration of a neighbor that is not solid fits.
LEMMA LogReuseKeeps ==
  ASSUME XuastcInv, NEW d \in Neighbors, ReuseConfigEndpoints(d)
  PROVE  XuastcInv'
<1>1. PICK x, y : x = bx + d[1] /\ y = by + d[2]
  OBVIOUS
<1>2. PICK c, tm : c = Get(x, y) /\ tm = TmAt(x, y)
  OBVIOUS
<1>3. Mode /\ by < NY /\ x >= 0 /\ y >= 0 /\ tm >= 0 /\ Store([c EXCEPT !.weights = tm], tm)
  BY <1>1, <1>2 DEF ReuseConfigEndpoints, Reusable, Mode, Decoding
<1>4. Decoded(x, y) /\ y > by - RingRows /\ tm = c.tm
  BY <1>1, <1>2, <1>3, ReadsNeighbor
<1>5. c \in LogBlocks /\ LogFits(c)
  BY <1>2, <1>4, XuastcReadsBlock
<1>6. tm \in Int
  BY <1>4, <1>5, XuastcFacts DEF LogBlocks, SolidTm, XuastcNumbers
<1>7. PICK b : b = [c EXCEPT !.weights = tm]
  OBVIOUS
<1>8. /\ b \in LogBlocks /\ b.tm = c.tm /\ b.base = c.base /\ b.part = c.part
      /\ b.ends = c.ends /\ b.weights = tm
  BY <1>5, <1>6, <1>7 DEF LogBlocks
<1>9. LogFits(b)
  BY <1>4, <1>5, <1>8 DEF LogFits, WeightsAndPartsFit
<1>10. Store(b, tm)
  BY <1>3, <1>7
<1> QED BY <1>3, <1>4, <1>6, <1>8, <1>9, <1>10, ModeKeeps

\* Endpoints that are coded here are predicted from a block that is decoded and not solid.
LEMMA EndsHereFit ==
  ASSUME XuastcInv, by < NY, NEW d \in Deltas \cup {Raw}, d # Raw => MayPredict(d)
  PROVE  EndsHere(d) \in Ends /\ NamesDecoded(EndsHere(d))
<1>1. bx \in 0 .. NX - 1 /\ by \in 0 .. NY - 1 /\ RingRows \in Nat /\ NX \in Nat /\ NY \in Nat
  BY XuastcFacts DEF XuastcInv, XuastcTypes, Cols, XuastcNumbers
<1>2. CASE d = Raw
  BY <1>1, <1>2 DEF EndsHere, Ends, NamesDecoded, Raw
<1>3. CASE d # Raw
  <2>1. d \in Int \X Int /\ d[2] > -RingRows /\ (d[2] < 0 \/ (d[2] = 0 /\ d[1] < 0))
    BY <1>3, XuastcFacts DEF XuastcNumbers
  <2>2. PICK x, y : x = bx + d[1] /\ y = by + d[2]
    OBVIOUS
  <2>3. x >= 0 /\ x < NX /\ y >= 0 /\ Get(x, y).tm # SolidTm
    BY <1>3, <2>2 DEF MayPredict, InPicture
  <2>4. d[1] \in Int /\ d[2] \in Int
    BY <2>1
  <2>5. x \in Cols /\ y \in Lines /\ Decoded(x, y) /\ y > by - RingRows
    BY <1>1, <2>1, <2>2, <2>3, <2>4 DEF Decoded, Precedes, Cols, Lines
  <2>6. Get(x, y) = grid[y][x] /\ Get(x, y) \in LogBlocks
    BY <2>5, XuastcReadsBlock
  <2>7. EndsHere(d) = [at |-> <<bx, by>>, delta |-> d, from |-> Get(x, y).ends.at]
    BY <1>3, <2>2 DEF EndsHere
  <2>8. EndsHere(d) \in Ends
    BY <1>1, <2>1, <2>6, <2>7 DEF Ends, LogBlocks
  <2>9. NamesDecoded(EndsHere(d))
    BY <2>2, <2>3, <2>5, <2>6, <2>7 DEF NamesDecoded
  <2> QED BY <2>8, <2>9
<1> QED BY <1>2, <1>3

\* A raw block like a neighbor takes its pattern, for the same number of parts.
LEMMA LikeNeighborKeeps ==
  ASSUME XuastcInv, NEW n \in Neighbors, NEW d \in Deltas \cup {Raw}, RawLikeNeighbor(n, d)
  PROVE  XuastcInv'
<1>1. PICK x, y : x = bx + n[1] /\ y = by + n[2]
  OBVIOUS
<1>2. PICK c, tm, ends : c = Get(x, y) /\ tm = TmAt(x, y) /\ ends = EndsHere(d)
  OBVIOUS
<1> DEFINE s == [tm |-> tm, base |-> c.base, part |-> c.part, weights |-> tm, ends |-> ends]
<1>3. /\ Mode /\ by < NY /\ x >= 0 /\ y >= 0 /\ tm >= 0
      /\ d # Raw => MayPredict(d)
      /\ Store(s, tm)
  BY <1>1, <1>2 DEF RawLikeNeighbor, Reusable, Mode, Decoding, Configured
<1>4. Decoded(x, y) /\ y > by - RingRows /\ tm = c.tm
  BY <1>1, <1>2, <1>3, ReadsNeighbor
<1>5. c \in LogBlocks /\ LogFits(c)
  BY <1>2, <1>4, XuastcReadsBlock
<1>6. ends \in Ends /\ NamesDecoded(ends)
  BY <1>2, <1>3, EndsHereFit
<1>7. tm \in Int /\ tm \in SolidTm .. TrialModes - 1 /\ tm # SolidTm
  BY <1>3, <1>4, <1>5, XuastcFacts DEF LogBlocks, SolidTm, XuastcNumbers
<1>8. PICK b : b = s
  OBVIOUS
<1>9. /\ b \in LogBlocks /\ b.tm = tm /\ b.base = c.base /\ b.part = c.part
      /\ b.ends = ends /\ b.weights = tm
  BY <1>5, <1>6, <1>7, <1>8 DEF LogBlocks
<1>10. LogFits(b)
  BY <1>4, <1>5, <1>6, <1>7, <1>9 DEF LogFits, WeightsAndPartsFit
<1>11. Store(b, tm)
  BY <1>3, <1>8
<1> QED BY <1>3, <1>7, <1>9, <1>10, <1>11, ModeKeeps

\* A raw block of its own configuration has a pattern in range.
LEMMA NewKeeps ==
  ASSUME XuastcInv, NEW tm \in 0 .. TrialModes - 1, NEW base \in BOOLEAN, NEW pattern \in Int,
         NEW d \in Deltas \cup {Raw}, RawNew(tm, base, pattern, d)
  PROVE  XuastcInv'
<1> DEFINE part == IF Parts[tm] = 1 THEN <<0, 0>> ELSE <<Parts[tm], pattern>>
<1>1. PICK ends : ends = EndsHere(d)
  OBVIOUS
<1> DEFINE s == [tm |-> tm, base |-> base, part |-> part, weights |-> tm, ends |-> ends]
<1>2. /\ Mode /\ by < NY /\ (base => tm \in Direct)
      /\ d # Raw => MayPredict(d)
      /\ Parts[tm] # 1 => InRange(pattern, Patterns[Parts[tm]])
      /\ Store(s, tm)
  BY <1>1 DEF RawNew, NewPattern, Mode, Decoding, Configured
<1>3. ends \in Ends /\ NamesDecoded(ends)
  BY <1>1, <1>2, EndsHereFit
<1>4. tm \in Int /\ tm \in SolidTm .. TrialModes - 1 /\ tm # SolidTm /\ Parts[tm] \in 1 .. 3
  BY XuastcFacts DEF SolidTm, XuastcNumbers
<1>5. part \in Int \X Int
  BY <1>4
<1>6. PICK b : b = s
  OBVIOUS
<1>7. /\ b \in LogBlocks /\ b.tm = tm /\ b.base = base /\ b.part = part
      /\ b.ends = ends /\ b.weights = tm
  BY <1>3, <1>4, <1>5, <1>6 DEF LogBlocks
<1>8. WeightsAndPartsFit(b)
  <2>1. CASE Parts[tm] = 1
    BY <1>2, <1>7, <2>1 DEF WeightsAndPartsFit
  <2>2. CASE Parts[tm] # 1
    <3>1. part[1] = Parts[tm] /\ part[2] = pattern
      BY <2>2
    <3>2. Patterns[Parts[tm]] \in Nat
      BY <1>4, <2>2, XuastcFacts DEF XuastcNumbers
    <3>3. pattern \in 0 .. Patterns[Parts[tm]] - 1
      BY <1>2, <2>2, <3>2 DEF InRange
    <3> QED BY <1>2, <1>7, <2>2, <3>1, <3>3 DEF WeightsAndPartsFit
  <2> QED BY <2>1, <2>2
<1>9. LogFits(b)
  BY <1>3, <1>7, <1>8 DEF LogFits
<1>10. Store(b, tm)
  BY <1>2, <1>6
<1> QED BY <1>2, <1>4, <1>7, <1>9, <1>10, ModeKeeps

\* Every step keeps the invariant.
LEMMA NextXuastc == XuastcInv /\ [XuastcNext]_xuastcVars => XuastcInv'
<1> SUFFICES ASSUME XuastcInv, [XuastcNext]_xuastcVars PROVE XuastcInv'
  OBVIOUS
<1>1. CASE RunContinues
  BY <1>1, RunContinuesKeeps
<1>2. CASE \E n \in 1 .. NX : Run(n)
  BY <1>2, LogRunKeeps
<1>3. CASE CodeSolid
  BY <1>3, LogSolidKeeps
<1>4. CASE \E n \in Neighbors : ReuseConfigEndpoints(n)
  BY <1>4, LogReuseKeeps
<1>5. CASE \E n \in Neighbors, d \in Deltas \cup {Raw} : RawLikeNeighbor(n, d)
  BY <1>5, LikeNeighborKeeps
<1>6. CASE \E tm \in 0 .. TrialModes - 1, base \in BOOLEAN, d \in Deltas \cup {Raw} :
             \E pattern \in -1 .. Patterns[2] + Patterns[3] : RawNew(tm, base, pattern, d)
  BY <1>6, NewKeeps
<1>7. CASE UNCHANGED <<bx, by, grid, logRing, tmStates, runLen>>
  BY <1>7 DEF XuastcInv, XuastcTypes, RunEndsInRow, LogRingHoldsReach, StatesMatchBlocks, LogFitInv,
              LogFits, WeightsAndPartsFit, NamesDecoded, Decoded, Get, TmAt
<1> QED BY <1>1, <1>2, <1>3, <1>4, <1>5, <1>6, <1>7 DEF XuastcNext, xuastcVars, Broken

-----------------------------------------------------------------------------
(* The theorems. *)

\* The invariant holds throughout.
LEMMA XuastcInvariant == XuastcSpec => []XuastcInv
BY InitXuastc, NextXuastc, PTL DEF XuastcSpec

\* The ring of logical blocks holds every block that a mode or a delta can name
\* (decode.rs:181-204, 294-300), for every picture and every number of rows.
THEOREM LogRingSuffices == XuastcSpec => []LogRingHoldsReach
<1>1. XuastcInv => LogRingHoldsReach
  BY DEF XuastcInv
<1> QED BY <1>1, XuastcInvariant, PTL

\* The two rows of trial modes say of every neighbor what its logical block was configured by
\* (decode.rs:488-518, 540, 570, 588-596, 723-730).
THEOREM StatesMatch == XuastcSpec => []StatesMatchBlocks
<1>1. XuastcInv => StatesMatchBlocks
  BY DEF XuastcInv
<1> QED BY <1>1, XuastcInvariant, PTL

\* What a block says of itself is what its data were read by, through any chain of runs,
\* reuses and predictions (decode.rs:294-325, 591-596, 645-651, 726-742).
THEOREM ConfigurationsFit == XuastcSpec => []ConfigurationFits
<1>1. XuastcInv => ConfigurationFits
  <2> SUFFICES ASSUME XuastcInv, NEW y \in Lines, NEW x \in Cols, Decoded(x, y),
                      grid[y][x].tm # SolidTm
               PROVE  WeightsAndPartsFit(grid[y][x]) /\ PredictedFromNamed(grid[y][x].ends)
    BY DEF ConfigurationFits
  <2>1. PICK b \in LogBlocks : b = grid[y][x]
    BY DEF XuastcInv, XuastcTypes
  <2>2. WeightsAndPartsFit(b) /\ NamesDecoded(b.ends)
    BY <2>1 DEF XuastcInv, LogFitInv, LogFits
  <2> QED BY <2>1, <2>2 DEF NamesDecoded, PredictedFromNamed
<1> QED BY <1>1, XuastcInvariant, PTL
=============================================================================
