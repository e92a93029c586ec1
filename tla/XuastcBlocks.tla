---------------------------- MODULE XuastcBlocks ----------------------------
(***************************************************************************)
(* The block modes of XUASTC (xuastc/decode.rs) over any stream.  The      *)
(* logical blocks of the last rows are in a ring; beside it, the trial     *)
(* mode of each block is kept for two rows, -1 for a solid block, and the  *)
(* partition patterns and trial modes of earlier blocks in hash tables.    *)
(* Both syntaxes walk the blocks alike; that of full zstd is followed, and *)
(* what only it has is the hash of trial modes.                            *)
(*                                                                         *)
(* A logical block is known by what its fields were filled from: the trial *)
(* mode of its configuration, whether its endpoints have base and offset,  *)
(* its partition pattern, the trial mode that its weights were decoded by, *)
(* and of its endpoints where they were coded and predicted from.          *)
(***************************************************************************)
EXTENDS BlockGrid

CONSTANTS
  RingRows,    \* rows of the LogRing: 8
  TrialModes,  \* the trial modes are 0 .. TrialModes - 1
  Parts,       \* num_parts of each: 1, 2 or 3
  Direct,      \* those whose endpoint mode has a variant with base and offset
  Patterns,    \* total_unique_patterns for 2 and 3 parts
  HashSize     \* slots of a hash table

ASSUME XuastcAssumption ==
  /\ RingRows \in Nat /\ RingRows > 1
  /\ HashSize \in Nat \ {0} /\ TrialModes \in Nat \ {0}
  /\ Parts \in [0 .. TrialModes - 1 -> 1 .. 3]
  /\ Direct \subseteq 0 .. TrialModes - 1
  /\ Patterns \in [2 .. 3 -> Nat]
  /\ \A d \in Deltas : d[2] > -RingRows /\ (d[2] < 0 \/ (d[2] = 0 /\ d[1] < 0))

VARIABLES
  bx, by,    \* the block that is decoded
  grid,      \* the blocks decoded so far, row by row
  logRing,   \* LogRing
  tmStates,  \* tm_states, the rows of an even and of an odd by
  runLen,    \* cur_run_len
  partHash,  \* part2_hash and part3_hash, -1 where nothing was stored
  tmHash,    \* tm_hash, in the same way
  status,    \* "decoding" or "refused"
  spent      \* counts towards the budget

xuastcVars == <<bx, by, grid, logRing, tmStates, runLen, partHash, tmHash, status, spent>>

HashSlots == 0 .. HashSize - 1
SolidTm == -1
Raw == <<0, 0>>  \* instead of the delta to a predicting block
DefaultBlock == [tm |-> 0, base |-> FALSE, part |-> <<0, 0>>, weights |-> 0,
                 ends |-> [at |-> <<-1, -1>>, delta |-> Raw, from |-> Raw]]
SolidLog == [DefaultBlock EXCEPT !.tm = SolidTm, !.weights = SolidTm]

XuastcInit ==
  /\ bx = 0 /\ by = 0 /\ status = "decoding" /\ spent = 0
  /\ grid = Undecoded
  /\ logRing = [r \in 0 .. RingRows - 1 |-> [x \in Cols |-> DefaultBlock]]
  /\ tmStates = [r \in 0 .. 1 |-> [x \in Cols |-> 0]]
  /\ runLen = 0
  /\ partHash = [n \in 2 .. 3 |-> [s \in HashSlots |-> -1]]
  /\ tmHash = [s \in HashSlots |-> -1]

Get(x, y) == logRing[y % RingRows][x]

\* the bug of a ring that does not wrap but stays at its last row
SetInLastRow(b) ==
  logRing' = [logRing EXCEPT ![IF by < RingRows THEN by ELSE RingRows - 1][bx] = b]

Set(b) == logRing' = [logRing EXCEPT ![by % RingRows][bx] = b]

TmAt(x, y) == tmStates[y % 2][x]
SetTm(tm) == tmStates' = [tmStates EXCEPT ![by % 2][bx] = tm]

Store(b, tm) ==
  /\ Set(b) /\ SetTm(tm)
  /\ grid' = [grid EXCEPT ![by][bx] = b]
  /\ bx' = NextX(bx) /\ by' = NextY(bx, by)
  /\ UNCHANGED status

Decoding == status = "decoding" /\ by < NY
Decoded(x, y) == Precedes(x, y, bx, by)

(***************************************************************************)
(* A run repeats the block to the left, or in the first column the one     *)
(* above, and ends with its row at the latest.                             *)
(***************************************************************************)
RunSource == IF bx # 0 THEN <<bx - 1, by>> ELSE <<bx, by - 1>>

RepeatBlock(n) ==
  /\ Store(Get(RunSource[1], RunSource[2]), TmAt(RunSource[1], RunSource[2]))
  /\ runLen' = n
  /\ UNCHANGED <<partHash, tmHash, spent>>

RunContinues == Decoding /\ runLen # 0 /\ RepeatBlock(runLen - 1)

Run(n) ==
  /\ Decoding /\ runLen = 0
  /\ bx # 0 \/ by # 0
  /\ n <= NX - bx
  /\ RepeatBlock(n - 1)

(***************************************************************************)
(* Modes that code a block.                                                *)
(***************************************************************************)
Mode ==
  /\ Decoding /\ runLen = 0
  /\ spent < Budget /\ spent' = spent + 1
  /\ UNCHANGED runLen

\* the bug of a solid block that leaves the state of the row before
SolidKeepsState == Mode /\ Store(SolidLog, TmAt(bx, by)) /\ UNCHANGED <<partHash, tmHash>>

CodeSolid == Mode /\ Store(SolidLog, SolidTm) /\ UNCHANGED <<partHash, tmHash>>

\* the neighbor to the left, above or diagonal, if there is one that is not solid
Neighbors == {<<-1, 0>>, <<0, -1>>, <<-1, -1>>}
Reusable(d) ==
  /\ bx + d[1] >= 0 /\ by + d[2] >= 0
  /\ TmAt(bx + d[1], by + d[2]) >= 0

\* configuration, partition and endpoints are those of a neighbor; the weights are
\* read for the grid and the planes of the trial mode kept for it
ReuseConfigEndpoints(d) ==
  LET tm == TmAt(bx + d[1], by + d[2])
  IN /\ Mode /\ Reusable(d)
     /\ Store([Get(bx + d[1], by + d[2]) EXCEPT !.weights = tm], tm)
     /\ UNCHANGED <<partHash, tmHash>>

\* the bug of a prediction from a solid block
PredictsAny(d) == InPicture(bx + d[1], by + d[2])

\* predict_endpoints refuses a solid block
MayPredict(d) ==
  /\ InPicture(bx + d[1], by + d[2])
  /\ Get(bx + d[1], by + d[2]).tm # SolidTm

\* endpoints coded here, raw or as deltas from those of an earlier block
EndsHere(d) ==
  [at |-> <<bx, by>>, delta |-> d,
   from |-> IF d = Raw THEN Raw ELSE Get(bx + d[1], by + d[2]).ends.at]

Configured(tm, base, part, d) ==
  [tm |-> tm, base |-> base, part |-> part, weights |-> tm, ends |-> EndsHere(d)]

\* a new block of the configuration of a neighbor
RawLikeNeighbor(n, d) ==
  LET tm == TmAt(bx + n[1], by + n[2])
      near == Get(bx + n[1], by + n[2])
  IN /\ Mode /\ Reusable(n)
     /\ d # Raw => MayPredict(d)
     /\ Store(Configured(tm, near.base, near.part, d), tm)
     /\ UNCHANGED <<partHash, tmHash>>

\* A value is named by the stream and kept in its slot, or it is what the slot holds.
HashIndex(v) == v % HashSize
Named(hash, v) == [hash EXCEPT ![HashIndex(v)] = v]
Held(hash) == {hash[s] : s \in HashSlots}

InRange(v, limit) == 0 <= v /\ v < limit

NewTrialMode(tm) ==
  /\ tm \in 0 .. TrialModes - 1
  /\ tmHash' = Named(tmHash, tm) \/ (tm \in Held(tmHash) /\ UNCHANGED tmHash)

NewPattern(n, pattern) ==
  /\ InRange(pattern, Patterns[n])
  /\ \/ pattern >= 0 /\ partHash' = [partHash EXCEPT ![n] = Named(@, pattern)]
     \/ pattern \in Held(partHash[n]) /\ UNCHANGED partHash

\* a new block of a configuration of its own
RawNew(tm, base, pattern, d) ==
  /\ Mode
  /\ NewTrialMode(tm)
  /\ base => tm \in Direct
  /\ d # Raw => MayPredict(d)
  /\ IF Parts[tm] = 1
     THEN pattern = 0 /\ UNCHANGED partHash
     ELSE NewPattern(Parts[tm], pattern)
  /\ Store(Configured(tm, base, IF Parts[tm] = 1 THEN <<0, 0>> ELSE <<Parts[tm], pattern>>, d), tm)

\* an unknown mode, a neighbor or a slot that is not there, or corrupt weights
Broken ==
  /\ Decoding
  /\ status' = "refused"
  /\ UNCHANGED <<bx, by, grid, logRing, tmStates, runLen, partHash, tmHash, spent>>

XuastcNext ==
  \/ RunContinues
  \/ \E n \in 1 .. NX : Run(n)
  \/ CodeSolid
  \/ \E n \in Neighbors : ReuseConfigEndpoints(n)
  \/ \E n \in Neighbors, d \in Deltas \cup {Raw} : RawLikeNeighbor(n, d)
  \/ \E tm \in 0 .. TrialModes - 1, base \in BOOLEAN, d \in Deltas \cup {Raw} :
       \E pattern \in -1 .. Patterns[2] + Patterns[3] : RawNew(tm, base, pattern, d)
  \/ Broken

XuastcSpec == XuastcInit /\ [][XuastcNext]_xuastcVars

-----------------------------------------------------------------------------
(***************************************************************************)
(* Properties.                                                             *)
(***************************************************************************)

\* The ring holds the block of every place that a mode or a delta can name
\* (decode.rs:186-204, 294-300).
LogRingHoldsReach ==
  \A y \in Lines, x \in Cols :
    Decoded(x, y) /\ y > by - RingRows => Get(x, y) = grid[y][x]

\* The trial mode kept for a neighbor is the one that its logical block was configured by,
\* and -1 exactly if that block is solid: the two are kept apart, in rings of different
\* length, and a run copies both (decode.rs:489-515, 540, 570, 588-596, 723-730).
StatesMatchBlocks ==
  \A y \in Lines, x \in Cols :
    Decoded(x, y) /\ (y = by \/ (y = by - 1 /\ x >= bx - 1)) => TmAt(x, y) = grid[y][x].tm

\* the weights are read for the grid and the planes that the block is configured for, and
\* its partition is a pattern of its number of parts
WeightsAndPartsFit(b) ==
  /\ b.weights = b.tm
  /\ b.base => b.tm \in Direct
  /\ IF Parts[b.tm] = 1 THEN b.part = <<0, 0>>
     ELSE b.part[1] = Parts[b.tm] /\ b.part[2] \in 0 .. Patterns[Parts[b.tm]] - 1

\* the endpoints are predicted from those of the block that the delta names
PredictedFromNamed(ends) ==
  ends.delta # Raw =>
    LET named == grid[ends.at[2] + ends.delta[2]][ends.at[1] + ends.delta[1]]
    IN named.tm # SolidTm /\ named.ends.at = ends.from

\* Through any chain of runs, reuses and predictions, what a block says of itself is what
\* its data were read by, and no solid block is predicted from or configured by
\* (decode.rs:294-325, 591-596, 645-651, 726-742).
ConfigurationFits ==
  \A y \in Lines, x \in Cols :
    Decoded(x, y) /\ grid[y][x].tm # SolidTm =>
      WeightsAndPartsFit(grid[y][x]) /\ PredictedFromNamed(grid[y][x].ends)
=============================================================================
