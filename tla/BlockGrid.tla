------------------------------ MODULE BlockGrid ------------------------------
(***************************************************************************)
(* What the two intermediate formats have in common: a picture of NX by NY *)
(* blocks is decoded in raster order, and only the last rows of its        *)
(* logical blocks are kept, for later blocks to be built from.             *)
(***************************************************************************)
EXTENDS Integers

CONSTANTS
  NX, NY,   \* the picture in blocks
  Deltas,   \* REUSE_XY_DELTAS: where a reused block may lie
  Budget    \* bound: blocks that are not copies of the one before

ASSUME GridAssumption ==
  /\ NX \in Nat \ {0} /\ NY \in Nat \ {0} /\ Budget \in Nat
  /\ Deltas \subseteq Int \X Int

Cols == 0 .. NX - 1
Lines == 0 .. NY - 1
Undecoded == [y \in Lines |-> [x \in Cols |-> "none"]]

\* a place comes before the block at column c of row r
Precedes(x, y, c, r) == x \in Cols /\ y \in Lines /\ (y < r \/ (y = r /\ x < c))

\* the next block in raster order
NextX(c) == IF c + 1 = NX THEN 0 ELSE c + 1
NextY(c, r) == IF c + 1 = NX THEN r + 1 ELSE r

\* what is asked of a delta's target before it is read
InPicture(x, y) == x >= 0 /\ x < NX /\ y >= 0
=============================================================================
