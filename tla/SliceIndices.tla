---------------------------- MODULE SliceIndices ----------------------------
(***************************************************************************)
(* The decode of one ETC1S slice, `Etc1sDecoder::decode_slice_indices`     *)
(* (src/basisu/src/basislz/etc1s.rs): from the entropy-coded symbols to an *)
(* (endpoint, selector) pair for each block, in raster order.              *)
(*                                                                         *)
(* The code keeps two rows of endpoints and prediction bits, a history of  *)
(* selectors, two run counters and, in a video, the previous frame's pairs,*)
(* which it overwrites as it goes.  The symbols are whatever the stream    *)
(* holds: each action takes any symbol the decoded models may yield.       *)
(* A block takes four steps: its prediction bits, its endpoint, its        *)
(* selector, and the store of the pair.                                    *)
(***************************************************************************)
EXTENDS ApproxMoveToFront, FiniteSets

CONSTANTS NX, NY,      \* num_blocks_x, num_blocks_y
          NEnd, NSel,  \* the sizes of the endpoint and selector palettes
          HistSize,    \* selector_history_buf_size
          PredSyms,    \* prediction symbols other than the repeat symbol
          Repeats,     \* repeat counts, less one
          Deltas,      \* endpoint delta symbols
          SelSyms,     \* selector symbols, the run symbol included
          Runs,        \* run lengths
          Video,       \* whether `video` is Some
          Leftover,    \* the pairs the previous frame may have left behind
          None

ASSUME SizeAssumption ==
  NX \in Nat \ {0} /\ NY \in Nat \ {0} /\ NEnd \in Nat \ {0} /\ NSel \in Nat \ {0}
\* `decode_tables` refuses an empty history (etc1s.rs:917).
ASSUME HistAssumption == HistSize \in Nat \ {0}
ASSUME SymAssumption ==
  /\ PredSyms \subseteq Nat /\ Deltas \subseteq Nat /\ SelSyms \subseteq Nat
  /\ Repeats \subseteq Nat /\ Runs \subseteq Nat \ {0}
ASSUME VideoAssumption == Video \in BOOLEAN
ASSUME LeftoverAssumption == Leftover \subseteq Nat \X Nat
ASSUME NoneAssumption == None \notin Nat /\ None \notin Nat \X Nat

Columns == 0..(NX - 1)
Rows == 0..(NY - 1)
Blocks == Columns \X Rows

\* The symbol that starts a run of the history's front entry.
RleSym == HistSize + NSel

VARIABLES
  at,        \* the step the current block is at, or the end: "ok", "corrupt"
  x, y,      \* the current block
  bits,      \* cur_pred_bits
  lastSym,   \* prev_endpoint_pred_sym
  repeats,   \* endpoint_pred_repeat_count
  lastEnd,   \* prev_endpoint_index
  low,       \* low[p][x]: preds[p][x].0, the bits of the row below
  ring,      \* ring[p][x]: preds[p][x].1, the endpoints of two rows
  hist,      \* selector_history_buf
  run,       \* cur_selector_rle_count
  pred,      \* pred
  endpoint,  \* endpoint_index
  selector,  \* selector_index, or None before it is decoded
  prev,      \* the previous frame's pairs, overwritten
  grid,      \* indices; None where nothing is decoded yet
  \* history, for the properties only
  syms,      \* syms[b]: the prediction symbol of the group that starts at b
  old,       \* prev when the decode started
  rle        \* the latest selector run: the block it began with and its length

preds == <<bits, lastSym, repeats, low, pred>>
ends == <<lastEnd, ring, endpoint>>
sels == <<hist, run, selector, rle>>
store == <<prev, grid, x, y>>
vars == <<at, preds, ends, sels, store, syms, old>>

Cur == y % 2
Other == 1 - Cur

Init ==
  /\ at = "pred" /\ x = 0 /\ y = 0
  /\ bits = 0 /\ lastSym = 0 /\ repeats = 0 /\ pred = 0
  /\ lastEnd = 0 /\ endpoint = 0
  /\ low = [p \in 0..1 |-> [c \in Columns |-> 0]]
  /\ ring = [p \in 0..1 |-> [c \in Columns |-> 0]]
  /\ hist = AmfNew(HistSize) /\ run = 0 /\ selector = None
  /\ prev \in [Blocks -> Leftover]
  /\ old = prev
  /\ grid = [b \in Blocks |-> None]
  /\ syms = [b \in Blocks |-> 0]
  /\ rle = [from |-> <<0, 0>>, len |-> 0]

Corrupt == at' = "corrupt"

----------------------------------------------------------------------------
(* The prediction bits. *)

\* The block's two bits are taken off the front.
Take(w) ==
  /\ pred' = w % 4
  /\ bits' = w \div 4
  /\ at' = "endpoint"

\* A group of two by two blocks starts with symbol w: its upper half is kept
\* for the row below, cast to u8.
OpenGroup(w) ==
  /\ Take(w)
  /\ low' = [low EXCEPT ![Other][x] = (w \div 16) % 256]
  /\ syms' = [syms EXCEPT ![<<x, y>>] = w]

GroupStarts == at = "pred" /\ x % 2 = 0 /\ y % 2 = 0

\* A run of equal symbols goes on.
RepeatedSymbol ==
  /\ GroupStarts
  /\ repeats # 0
  /\ repeats' = repeats - 1
  /\ OpenGroup(lastSym)
  /\ UNCHANGED <<lastSym, ends, sels, store, old>>

NewSymbol ==
  /\ GroupStarts
  /\ repeats = 0
  /\ \E w \in PredSyms : OpenGroup(w) /\ lastSym' = w
  /\ UNCHANGED <<repeats, ends, sels, store, old>>

\* The repeat symbol, with the length of its run: one of it is used here.
RepeatSymbol ==
  /\ GroupStarts
  /\ repeats = 0
  /\ repeats' \in Repeats
  /\ OpenGroup(lastSym)
  /\ UNCHANGED <<lastSym, ends, sels, store, old>>

\* The bits an odd row starts a group with.
RowBits == low[Cur][x]

LowerRow ==
  /\ at = "pred" /\ x % 2 = 0 /\ y % 2 = 1
  /\ Take(RowBits)
  /\ UNCHANGED <<lastSym, repeats, low, ends, sels, store, syms, old>>

SecondColumn ==
  /\ at = "pred" /\ x % 2 = 1
  /\ Take(bits)
  /\ UNCHANGED <<lastSym, repeats, low, ends, sels, store, syms, old>>

----------------------------------------------------------------------------
(* The endpoint. *)

\* The bug of the endpoint kept in the other row of the ring.
SetInOtherRow(e) ==
  /\ endpoint' = e
  /\ lastEnd' = e
  /\ ring' = [ring EXCEPT ![Other][x] = e]
  /\ at' = "selector"

\* The endpoint is kept for the blocks to the right and below.
SetEndpoint(e) ==
  /\ endpoint' = e
  /\ lastEnd' = e
  /\ ring' = [ring EXCEPT ![Cur][x] = e]
  /\ at' = "selector"

Left ==
  /\ at = "endpoint" /\ pred = 0
  /\ IF x = 0 THEN Corrupt /\ UNCHANGED ends ELSE SetEndpoint(lastEnd)
  /\ UNCHANGED <<preds, sels, store, syms, old>>

\* The bug of a ring whose rows are not swapped.
SameRow(c) == ring[Cur][c]

\* The endpoint of column c in the row above.
Above(c) == ring[Other][c]

Upper ==
  /\ at = "endpoint" /\ pred = 1
  /\ IF y = 0 THEN Corrupt /\ UNCHANGED ends ELSE SetEndpoint(Above(x))
  /\ UNCHANGED <<preds, sels, store, syms, old>>

UpperLeft ==
  /\ at = "endpoint" /\ pred = 2 /\ ~Video
  /\ IF x = 0 \/ y = 0 THEN Corrupt /\ UNCHANGED ends ELSE SetEndpoint(Above(x - 1))
  /\ UNCHANGED <<preds, sels, store, syms, old>>

\* The bug of a replenished block that counts as one of the run.
ReplenishInRun ==
  /\ at = "endpoint" /\ pred = 2 /\ Video
  /\ endpoint' = prev[<<x, y>>][1]
  /\ lastEnd' = endpoint'
  /\ ring' = [ring EXCEPT ![Cur][x] = endpoint']
  /\ selector' = prev[<<x, y>>][2]
  /\ at' = "store"
  /\ run' = IF run > 0 THEN run - 1 ELSE 0
  /\ UNCHANGED <<preds, hist, rle, store, syms, old>>

\* The bug of a replenished endpoint that still takes a selector of its own.
ReplenishEndpoint ==
  /\ at = "endpoint" /\ pred = 2 /\ Video
  /\ endpoint' = prev[<<x, y>>][1]
  /\ lastEnd' = endpoint'
  /\ ring' = [ring EXCEPT ![Cur][x] = endpoint']
  /\ at' = "selector"
  /\ UNCHANGED <<preds, sels, store, syms, old>>

\* Conditional replenishment: the previous frame's pair, selector included.
Replenish ==
  /\ at = "endpoint" /\ pred = 2 /\ Video
  /\ endpoint' = prev[<<x, y>>][1]
  /\ lastEnd' = endpoint'
  /\ ring' = [ring EXCEPT ![Cur][x] = endpoint']
  /\ selector' = prev[<<x, y>>][2]
  /\ at' = "store"
  /\ UNCHANGED <<preds, hist, run, rle, store, syms, old>>

\* A sum of a delta and an endpoint, wrapped once.
Wrapped(e) == IF e >= NEnd THEN e - NEnd ELSE e

\* A delta to the previous block's endpoint.
Delta ==
  /\ at = "endpoint" /\ pred = 3
  /\ \E d \in Deltas : SetEndpoint(Wrapped(d + lastEnd))
  /\ UNCHANGED <<preds, sels, store, syms, old>>

----------------------------------------------------------------------------
(* The selector. *)

\* The selector of history slot i, which is used.
FromHistory(i) ==
  IF i >= HistSize
  THEN Corrupt /\ UNCHANGED <<hist, selector>>
  ELSE /\ selector' = AmfGet(hist, i)
       /\ hist' = IF i # 0 THEN AmfUse(HistSize, hist, i) ELSE hist
       /\ at' = "store"

RunGoesOn ==
  /\ at = "selector" /\ run > 0
  /\ run' = run - 1
  /\ FromHistory(0)
  /\ UNCHANGED <<rle, preds, ends, store, syms, old>>

RunStarts ==
  /\ at = "selector" /\ run = 0 /\ RleSym \in SelSyms
  /\ \E n \in Runs :
       IF n > NX * NY
       THEN Corrupt /\ run' = n /\ UNCHANGED <<hist, selector, rle>>
       ELSE run' = n - 1 /\ FromHistory(0) /\ rle' = [from |-> <<x, y>>, len |-> n]
  /\ UNCHANGED <<preds, ends, store, syms, old>>

HistorySelector ==
  /\ at = "selector" /\ run = 0
  /\ \E v \in SelSyms : v >= NSel /\ v # RleSym /\ FromHistory(v - NSel)
  /\ UNCHANGED <<run, rle, preds, ends, store, syms, old>>

LiteralSelector ==
  /\ at = "selector" /\ run = 0
  /\ \E v \in SelSyms :
       /\ v < NSel
       /\ selector' = v
       /\ hist' = AmfAdd(HistSize, hist, v)
  /\ at' = "store"
  /\ UNCHANGED <<run, rle, preds, ends, store, syms, old>>

----------------------------------------------------------------------------
(* The store. *)

\* The check that makes every later palette lookup safe.
InPalettes == endpoint < NEnd /\ selector < NSel

\* The bug of the write-back ahead of the check.
WrittenUnchecked ==
  /\ at = "store"
  /\ ~InPalettes
  /\ Corrupt
  /\ prev' = [prev EXCEPT ![<<x, y>>] = <<endpoint, selector>>]
  /\ UNCHANGED <<preds, ends, sels, grid, x, y, syms, old>>

OutOfPalette ==
  /\ at = "store"
  /\ ~InPalettes
  /\ Corrupt
  /\ UNCHANGED <<preds, ends, sels, store, syms, old>>

\* The pair is written back for the next frame and to the output.
Store ==
  /\ at = "store"
  /\ InPalettes
  /\ prev' = IF Video THEN [prev EXCEPT ![<<x, y>>] = <<endpoint, selector>>] ELSE prev
  /\ grid' = [grid EXCEPT ![<<x, y>>] = <<endpoint, selector>>]
  /\ selector' = None
  /\ IF x + 1 < NX THEN x' = x + 1 /\ y' = y /\ at' = "pred"
     ELSE IF y + 1 < NY THEN x' = 0 /\ y' = y + 1 /\ at' = "pred"
     ELSE UNCHANGED <<x, y>> /\ at' = "ok"
  /\ UNCHANGED <<preds, ends, hist, run, rle, syms, old>>

----------------------------------------------------------------------------
Predict == RepeatedSymbol \/ NewSymbol \/ RepeatSymbol \/ LowerRow \/ SecondColumn
Endpoint == Left \/ Upper \/ UpperLeft \/ Replenish \/ Delta
Select == RunGoesOn \/ RunStarts \/ HistorySelector \/ LiteralSelector

Next == Predict \/ Endpoint \/ Select \/ OutOfPalette \/ Store
Spec == Init /\ [][Next]_vars

----------------------------------------------------------------------------
(* Properties. *)

Done(b) == grid[b] # None
Running == at \notin {"ok", "corrupt"}

\* What the format says of block b: the two bits its group's symbol has for
\* it, the group's blocks taken row by row.
PredOf(b) ==
  LET w == syms[<<b[1] - (b[1] % 2), b[2] - (b[2] % 2)>>]
      half == IF b[2] % 2 = 0 THEN w ELSE w \div 16
  IN  IF b[1] % 2 = 0 THEN half % 4 ELSE (half \div 4) % 4

\* Types: what the run counters, the ring and the history can hold.
TypeOK ==
  /\ at \in {"pred", "endpoint", "selector", "store", "ok", "corrupt"}
  /\ x \in Columns /\ y \in Rows
  /\ bits \in Nat /\ lastSym \in Nat /\ repeats \in Nat /\ pred \in 0..3
  /\ low \in [0..1 -> [Columns -> 0..255]]
  /\ lastEnd \in Nat /\ endpoint \in Nat
  /\ ring \in [0..1 -> [Columns -> Nat]]
  /\ hist \in AmfType(HistSize, Nat) /\ run \in Nat
  /\ selector \in Nat \cup {None} /\ (at = "store" => selector \in Nat)
  /\ prev \in [Blocks -> Nat \X Nat] /\ old \in [Blocks -> Nat \X Nat]
  /\ grid \in [Blocks -> (Nat \X Nat) \cup {None}]
  /\ syms \in [Blocks -> Nat]
  /\ rle \in [from : Blocks, len : Nat]

\* Two rows of endpoints are enough: whatever row the ring is in, column c of
\* the row above is what was decoded there (etc1s.rs:386, 441-457).
RingIsNeighbours ==
  at \in {"pred", "endpoint"} =>
    /\ \A c \in Columns : c < x => ring[Cur][c] = grid[<<c, y>>][1]
    /\ y > 0 => \A c \in Columns : ring[Other][c] = grid[<<c, y - 1>>][1]
    /\ x > 0 => lastEnd = grid[<<x - 1, y>>][1]

\* Each block follows the bits that its group's symbol has for it, though the
\* lower row reads them a row later out of the ring: its endpoint is the one
\* of the neighbour they name, or the previous frame's.
FollowsPrediction ==
  \A b \in Blocks : Done(b) =>
    LET c == b[1]
        r == b[2]
    IN  /\ PredOf(b) = 0 => c > 0 /\ grid[b][1] = grid[<<c - 1, r>>][1]
        /\ PredOf(b) = 1 => r > 0 /\ grid[b][1] = grid[<<c, r - 1>>][1]
        /\ PredOf(b) = 2 /\ ~Video =>
             c > 0 /\ r > 0 /\ grid[b][1] = grid[<<c - 1, r - 1>>][1]
        /\ PredOf(b) = 2 /\ Video => grid[b] = old[b]

\* The history only ever holds selectors of this palette, and its rover never
\* leaves the back half of the buffer (amf.rs:34-36).
HistoryIsValid ==
  /\ \A i \in Slots(HistSize) : hist.values[i] < NSel
  /\ RoverInBack(HistSize, hist)

\* The front half changes only by the promotion of a used entry, never by a
\* new one (amf.rs:34-36, "leaving the front half to entries promoted by
\* `use_index`").
FrontByPromotion ==
  [][(\E i \in 0..(Half(HistSize) - 1) : hist'.values[i] # hist.values[i]) =>
       \E j \in Slots(HistSize) : hist' = AmfUse(HistSize, hist, j)]_vars

\* A block that is replenished takes no selector symbol.
TakesSelector(b) == ~(Video /\ PredOf(b) = 2)

\* Block b is c, or comes after it.
FromOn(b, c) == c[2] < b[2] \/ (c[2] = b[2] /\ c[1] <= b[1])

\* The blocks since the latest run began that have taken their selector.
RunBlocks ==
  {b \in Blocks : /\ FromOn(b, rle.from) /\ TakesSelector(b)
                  /\ Done(b) \/ (b = <<x, y>> /\ at = "store")}

\* A run gives its selector to as many blocks as it is long, of those that take one: it
\* outlives the replenished blocks in between, counts none of them, and is not disturbed
\* by what they bring from the previous frame (etc1s.rs:429-451, 476-506).
RunTakesCodedBlocks ==
  Running /\ run > 0 =>
    /\ Cardinality(RunBlocks) + run = rle.len
    /\ \A b \in RunBlocks : Done(b) => grid[b][2] = AmfGet(hist, 0)

\* In a video the previous frame is replaced block by block: what is decoded
\* is there for the next frame, what is not is still the frame before; a
\* corrupt slice leaves exactly that mixture (etc1s.rs:519-522).
PrevMirrorsOutput ==
  \A b \in Blocks : prev[b] = IF Video /\ Done(b) THEN grid[b] ELSE old[b]

\* Why the properties above hold, step by step of a block: blocks are done in
\* raster order; the bits left over, and the bits kept for the row below, are
\* those the group's symbol has for the blocks to come; the endpoint in hand
\* is already in the ring, and was taken from where the prediction says.
Before(b) == b[2] < y \/ (b[2] = y /\ b[1] < x)

RasterOrder ==
  /\ at = "ok" => \A b \in Blocks : Done(b)
  /\ at # "ok" => \A b \in Blocks : Done(b) <=> Before(b)

\* The symbol of the group at the current pair of columns and rows.
GroupSym == syms[<<x - (x % 2), y - (y % 2)>>]

BitsInHand ==
  Running =>
    /\ at # "pred" => pred = PredOf(<<x, y>>)
    /\ at = "pred" /\ x % 2 = 1 => bits % 4 = PredOf(<<x, y>>)
    /\ at # "pred" /\ x % 2 = 0 =>
         bits % 4 = ((IF y % 2 = 0 THEN GroupSym ELSE GroupSym \div 16) \div 4) % 4
    /\ \A c \in Columns :
         c % 2 = 0 /\ (y % 2 = 1 \/ c < x \/ (c = x /\ at # "pred")) =>
           low[1][c] = (syms[<<c, y - (y % 2)>>] \div 16) % 256

EndpointInHand ==
  at \in {"selector", "store"} =>
    /\ \A c \in Columns : c < x => ring[Cur][c] = grid[<<c, y>>][1]
    /\ y > 0 => \A c \in Columns : ring[Other][c] = grid[<<c, y - 1>>][1]
    /\ ring[Cur][x] = endpoint /\ lastEnd = endpoint
    /\ pred = 0 => x > 0 /\ endpoint = grid[<<x - 1, y>>][1]
    /\ pred = 1 => y > 0 /\ endpoint = grid[<<x, y - 1>>][1]
    /\ pred = 2 /\ ~Video => x > 0 /\ y > 0 /\ endpoint = grid[<<x - 1, y - 1>>][1]
    /\ pred = 2 /\ Video => at = "store" /\ old[<<x, y>>] = <<endpoint, selector>>

BlockInHand == RasterOrder /\ BitsInHand /\ EndpointInHand
=============================================================================
