---------------------------- MODULE Hdr6x6Blocks ----------------------------
(***************************************************************************)
(* The block commands of the UASTC HDR 6x6 intermediate format             *)
(* (decode_6x6_hdr of uastc_hdr_6x6/mod.rs) over any stream.  A block is   *)
(* known by its mode and by where its endpoints and its weights were       *)
(* coded.  The logical blocks of the last rows are in a ring whose current *)
(* row moves along; the physical blocks are what was output.               *)
(***************************************************************************)
EXTENDS BlockGrid

CONSTANTS
  Rows,       \* REUSE_MAX_BUFFER_ROWS: 5
  Modes,      \* the block modes
  Cem,        \* the endpoint mode of each, never 0
  SolidMode,  \* user_mode of a solid block: 255
  RunLens     \* the lengths of runs that a stream can name, 0 if the sum wraps

ASSUME HdrAssumption ==
  /\ Rows \in Nat /\ Rows > 1
  /\ \A d \in Deltas : d[2] > -Rows /\ (d[2] < 0 \/ (d[2] = 0 /\ d[1] < 0))
  /\ SolidMode \notin Modes /\ 0 # SolidMode
  /\ Cem \in [Modes -> Nat \ {0}]
  /\ RunLens \subseteq Nat

VARIABLES
  curBx, curBy,  \* cur_bx, cur_by
  blocks,        \* decoded_blocks, row by row
  ring,          \* log_rows
  row,           \* cur_row_index
  run,           \* blocks of the current run that are left
  source,        \* the snapshot of the block they repeat
  hdrStatus,     \* "decoding" or "refused"
  hdrSpent       \* counts towards the budget

hdrVars == <<curBx, curBy, blocks, ring, row, run, source, hdrStatus, hdrSpent>>

\* a slot that was never written: a block of mode 0 without endpoints
Nowhere == <<-1, -1>>
Empty == [mode |-> 0, cem |-> 0, ends |-> Nowhere, weights |-> Nowhere]
IsSolid(b) == b.mode = SolidMode

HdrInit ==
  /\ curBx = 0 /\ curBy = 0 /\ hdrStatus = "decoding" /\ hdrSpent = 0
  /\ blocks = Undecoded
  /\ row = 0 /\ run = 0 /\ source = Empty
  /\ ring = [r \in 0 .. Rows - 1 |-> [x \in Cols |-> Empty]]

\* the bug of a row above the first slot that is not wrapped
UnwrappedRowIndex(y) ==
  LET index == row + (y - curBy) IN IF index < 0 THEN 0 ELSE index

\* where the ring holds a row at most four above the current one
CalcRowIndex(y) ==
  LET index == row + (y - curBy) IN IF index < 0 THEN index + Rows ELSE index

Logical(x, y) == ring[CalcRowIndex(y)][x]

NextRow == IF curBx + 1 = NX THEN (row + 1) % Rows ELSE row

Emit(b) ==
  /\ ring' = [ring EXCEPT ![row][curBx] = b]
  /\ row' = NextRow
  /\ blocks' = [blocks EXCEPT ![curBy][curBx] = b]
  /\ curBx' = NextX(curBx) /\ curBy' = NextY(curBx, curBy)
  /\ UNCHANGED hdrStatus

HdrDecoding == hdrStatus = "decoding" /\ curBy < NY
Commands == HdrDecoding /\ run = 0

HdrDecoded(x, y) == Precedes(x, y, curBx, curBy)

(***************************************************************************)
(* A run repeats the block before it in raster order, over rows too.       *)
(***************************************************************************)
\* the bug of a run that repeats the block above at the start of a row
BlockAbove == IF curBx # 0 THEN <<curBx - 1, curBy>> ELSE <<curBx, curBy - 1>>

BeforeHere == IF curBx # 0 THEN <<curBx - 1, curBy>> ELSE <<NX - 1, curBy - 1>>

Remaining == NX * NY - (curBx + curBy * NX)

RunStarts(n) ==
  /\ Commands /\ (curBx # 0 \/ curBy # 0) /\ n <= Remaining
  /\ source' = Logical(BeforeHere[1], BeforeHere[2])
  /\ run' = n
  /\ UNCHANGED <<curBx, curBy, blocks, hdrStatus, hdrSpent, ring, row>>

RunGoesOn ==
  /\ hdrStatus = "decoding" /\ run > 0
  /\ Emit(source)
  /\ run' = run - 1
  /\ UNCHANGED <<hdrSpent, source>>

(***************************************************************************)
(* The commands that code a block.                                         *)
(***************************************************************************)
CodeBlock(b) ==
  /\ Commands /\ hdrSpent < Budget
  /\ Emit(b)
  /\ hdrSpent' = hdrSpent + 1
  /\ UNCHANGED <<run, source>>

Here == <<curBx, curBy>>
SolidBlock == CodeBlock([mode |-> SolidMode, cem |-> 0, ends |-> Here, weights |-> Here])

\* everything but the weights is that of an earlier block
Reuse(d) ==
  LET x == curBx + d[1]
      y == curBy + d[2]
  IN /\ curBx # 0 \/ curBy # 0
     /\ InPicture(x, y)
     /\ ~IsSolid(Logical(x, y))
     /\ CodeBlock([Logical(x, y) EXCEPT !.weights = Here])

\* the endpoints are coded here
RawBlock(m) == CodeBlock([mode |-> m, cem |-> Cem[m], ends |-> Here, weights |-> Here])

Neighbor(em) == IF em \in {1, 3} THEN <<curBx - 1, curBy>> ELSE <<curBx, curBy - 1>>

\* the bug of a neighbor that need not have the endpoint mode
AnyCem(m, b) == b.cem # 0

SameCem(m, b) == b.cem # 0 /\ Cem[m] = b.cem

\* the endpoints are those of the neighbor (1, 2), or deltas from them (3, 4)
FromNeighbor(m, em) ==
  LET n == Neighbor(em)
  IN /\ n[1] >= 0 /\ n[2] >= 0
     /\ SameCem(m, Logical(n[1], n[2]))
     /\ CodeBlock([mode |-> m, cem |-> Cem[m], weights |-> Here,
                   ends |-> IF em \in {1, 2} THEN Logical(n[1], n[2]).ends ELSE Here])

\* a command that is refused, a rank out of range, or the end of the stream
Malformed ==
  /\ HdrDecoding
  /\ hdrStatus' = "refused"
  /\ UNCHANGED <<curBx, curBy, blocks, ring, row, run, source, hdrSpent>>

HdrNext ==
  \/ \E n \in RunLens : RunStarts(n)
  \/ RunGoesOn
  \/ SolidBlock
  \/ \E d \in Deltas : Reuse(d)
  \/ \E m \in Modes : RawBlock(m)
  \/ \E m \in Modes, em \in 1 .. 4 : FromNeighbor(m, em)
  \/ Malformed

HdrSpec == HdrInit /\ [][HdrNext]_hdrVars

-----------------------------------------------------------------------------
(***************************************************************************)
(* Properties.                                                             *)
(***************************************************************************)
\* The ring holds the logical block of every place that a command can name, those of
\* the four rows above and those before in this row, and it is the block that was output
\* there (mod.rs:250-257, 434-446): a run that wraps around the ring, and a current row
\* that moves on in the middle of it, included.
RingHoldsReach ==
  curBy < NY =>
    \A y \in Lines, x \in Cols :
      HdrDecoded(x, y) /\ y > curBy - Rows => Logical(x, y) = blocks[y][x]

\* What a run writes is the block before it, also in a later row than it was read in
\* (mod.rs:487-501).
RunRepeatsBlockBefore ==
  run > 0 =>
    /\ curBy < NY
    /\ curBx # 0 \/ curBy # 0
    /\ \A y \in Lines, x \in Cols :
         NextX(x) = curBx /\ NextY(x, y) = curBy => source = blocks[y][x]

\* Through any chain of runs, reuses and neighbors: the endpoints of a block were coded
\* under its endpoint mode, and its weights under its own mode, so that its descriptor
\* unpacks what was packed, and no solid block is taken for one of a mode
\* (mod.rs:536-552, 582-603, 642-663).
DataFitsMode ==
  \A y \in Lines, x \in Cols :
    HdrDecoded(x, y) /\ ~IsSolid(blocks[y][x]) =>
      LET b == blocks[y][x]
          Coder(p) == blocks[p[2]][p[1]]
      IN /\ b.cem = Cem[b.mode]
         /\ Coder(b.ends).ends = b.ends /\ Coder(b.ends).cem = b.cem
         /\ Coder(b.weights).weights = b.weights /\ Coder(b.weights).mode = b.mode

=============================================================================
