------------------------ MODULE SliceIndicesProofs ------------------------
(***************************************************************************)
(* Proofs about SliceIndices for every slice size, palette, history and    *)
(* stream.  First the types and the ranges, then the raster order and the  *)
(* ring of endpoints.                                                      *)
(***************************************************************************)
EXTENDS SliceIndices, FiniteSetTheorems, TLAPS

----------------------------------------------------------------------------
(* The selector history. *)

\* The middle of the buffer is in the buffer.
LEMMA HalfInside ==
  ASSUME NEW n \in Nat \ {0}
  PROVE  Half(n) \in Nat /\ Half(n) \in 0..(n - 1) /\ Half(n) \in Slots(n)
BY DEF Half, Slots

\* The rover stays in the back half, whatever is added.
LEMMA WrapInBack ==
  ASSUME NEW n \in Nat \ {0}, NEW r \in Half(n)..(n - 1)
  PROVE  Wrap(n, r) \in Half(n)..(n - 1) /\ Wrap(n, r) \in Slots(n)
BY HalfInside DEF Wrap, Slots

ValidHistory(h) ==
  /\ h \in AmfType(HistSize, Nat)
  /\ \A i \in Slots(HistSize) : h.values[i] < NSel
  /\ RoverInBack(HistSize, h)

\* A new history holds selector 0.
LEMMA NewHistory == ValidHistory(AmfNew(HistSize))
BY HalfInside, HistAssumption, SizeAssumption
   DEF ValidHistory, AmfType, AmfNew, RoverInBack, Slots

\* Adding a literal keeps the history valid.
LEMMA AddKeepsHistory ==
  ASSUME NEW h, ValidHistory(h), NEW v \in Nat, v < NSel
  PROVE  ValidHistory(AmfAdd(HistSize, h, v))
<1>1. h.rover \in Half(HistSize)..(HistSize - 1) /\ h.values \in [Slots(HistSize) -> Nat]
  BY DEF ValidHistory, RoverInBack, AmfType
<1>2. Wrap(HistSize, h.rover) \in Half(HistSize)..(HistSize - 1)
      /\ Wrap(HistSize, h.rover) \in Slots(HistSize)
  BY <1>1, WrapInBack, HistAssumption
<1> QED
  BY <1>1, <1>2 DEF ValidHistory, AmfType, AmfAdd, RoverInBack

\* Using an entry swaps it with another one of the buffer.
LEMMA UseKeepsHistory ==
  ASSUME NEW h, ValidHistory(h), NEW i \in Slots(HistSize)
  PROVE  ValidHistory(AmfUse(HistSize, h, i))
<1>1. h.values \in [Slots(HistSize) -> Nat] /\ h.rover \in Slots(HistSize)
  BY DEF ValidHistory, AmfType
<1>2. i \div 2 \in Slots(HistSize)
  BY HistAssumption DEF Slots
<1> DEFINE w == [h.values EXCEPT ![i \div 2] = h.values[i], ![i] = h.values[i \div 2]]
<1>3. w \in [Slots(HistSize) -> Nat] /\ \A k \in Slots(HistSize) : w[k] < NSel
  BY <1>1, <1>2 DEF ValidHistory
<1>4. AmfUse(HistSize, h, i) = [values |-> w, rover |-> h.rover]
  BY DEF AmfUse, ValidHistory, AmfType
<1> HIDE DEF w
<1> QED
  BY <1>1, <1>3, <1>4 DEF ValidHistory, AmfType, RoverInBack

----------------------------------------------------------------------------
(* Types and ranges. *)

Ranges == TypeOK /\ HistoryIsValid

\* What the models yield are numbers.
Numbers ==
  /\ NX \in Nat \ {0} /\ NY \in Nat \ {0} /\ NEnd \in Nat \ {0} /\ NSel \in Nat \ {0}
  /\ HistSize \in Nat \ {0}
  /\ PredSyms \subseteq Nat /\ Deltas \subseteq Nat /\ SelSyms \subseteq Nat
  /\ Repeats \subseteq Nat /\ Runs \subseteq Nat \ {0}

\* The assumptions on the constants, under one name.
LEMMA NumbersFact == Numbers
BY SizeAssumption, HistAssumption, SymAssumption DEF Numbers

\* The history part of Ranges is the validity of the buffer.
LEMMA HistoryFact == TypeOK => (HistoryIsValid <=> ValidHistory(hist))
BY DEF TypeOK, HistoryIsValid, ValidHistory

\* The two rows are told apart by the parity of y.
LEMMA Parity ==
  ASSUME y \in Nat
  PROVE  Cur \in 0..1 /\ Other \in 0..1 /\ Cur # Other /\ {Cur, Other} = {0, 1}
BY DEF Cur, Other

\* The initial state.
LEMMA InitRanges == Init => Ranges
<1> SUFFICES ASSUME Init PROVE Ranges
  OBVIOUS
<1>1. ValidHistory(hist)
  BY NewHistory DEF Init
<1>2. 0 \in Columns /\ 0 \in Rows
  BY SizeAssumption DEF Columns, Rows
<1>3. prev \in [Blocks -> Nat \X Nat] /\ old \in [Blocks -> Nat \X Nat]
  BY LeftoverAssumption DEF Init
<1>4. rle \in [from : Blocks, len : Nat]
  <2>1. <<0, 0>> \in Blocks
    BY <1>2 DEF Blocks
  <2> QED BY <2>1 DEF Init
<1>5. /\ low \in [0..1 -> [Columns -> 0..255]] /\ ring \in [0..1 -> [Columns -> Nat]]
      /\ grid \in [Blocks -> (Nat \X Nat) \cup {None}] /\ syms \in [Blocks -> Nat]
  BY DEF Init
<1>6. TypeOK
  BY <1>1, <1>2, <1>3, <1>4, <1>5 DEF Init, TypeOK, ValidHistory
<1> QED BY <1>1, <1>6, HistoryFact DEF Ranges

\* Opening a group keeps what it changes in range.
LEMMA OpenRanges ==
  ASSUME TypeOK, NEW w \in Nat, OpenGroup(w)
  PROVE  /\ at' = "endpoint" /\ pred' \in 0..3 /\ bits' \in Nat
         /\ low' \in [0..1 -> [Columns -> 0..255]]
         /\ syms' \in [Blocks -> Nat]
<1>1. w % 4 \in 0..3 /\ w \div 4 \in Nat /\ (w \div 16) % 256 \in 0..255
  OBVIOUS
<1>2. Other \in 0..1
  BY Parity DEF TypeOK, Rows
<1> QED BY <1>1, <1>2 DEF OpenGroup, Take, TypeOK, Blocks

\* Reading the prediction bits.
LEMMA PredictRanges == Ranges /\ Predict => Ranges'
<1> SUFFICES ASSUME Ranges, Predict PROVE Ranges'
  OBVIOUS
<1> USE NumbersFact DEF Numbers, Ranges
<1>0. UNCHANGED <<ends, sels, store, old>>
  BY DEF Predict, RepeatedSymbol, NewSymbol, RepeatSymbol, LowerRow, SecondColumn
<1>1. /\ at' = "endpoint" /\ pred' \in 0..3 /\ bits' \in Nat
      /\ low' \in [0..1 -> [Columns -> 0..255]]
      /\ syms' \in [Blocks -> Nat] /\ lastSym' \in Nat /\ repeats' \in Nat
  <2>1. CASE RepeatedSymbol
    <3>1. lastSym \in Nat /\ repeats' \in Nat
      BY <2>1 DEF RepeatedSymbol, TypeOK
    <3> QED BY <2>1, <3>1, OpenRanges DEF RepeatedSymbol, TypeOK
  <2>2. CASE NewSymbol
    BY <2>2, OpenRanges DEF NewSymbol, TypeOK
  <2>3. CASE RepeatSymbol
    <3>1. lastSym \in Nat
      BY DEF TypeOK
    <3> QED BY <2>3, <3>1, OpenRanges DEF RepeatSymbol, TypeOK
  <2>4. CASE LowerRow
    <3>1. RowBits \in 0..255
      BY Parity DEF RowBits, TypeOK, Rows
    <3>2. RowBits % 4 \in 0..3 /\ RowBits \div 4 \in Nat
      BY <3>1
    <3> QED BY <2>4, <3>2 DEF LowerRow, Take, TypeOK
  <2>5. CASE SecondColumn
    <3>1. bits % 4 \in 0..3 /\ bits \div 4 \in Nat
      BY DEF TypeOK
    <3> QED BY <2>5, <3>1 DEF SecondColumn, Take, TypeOK
  <2> QED BY <2>1, <2>2, <2>3, <2>4, <2>5 DEF Predict
<1>2. TypeOK'
  BY <1>0, <1>1 DEF TypeOK, ends, sels, store
<1> QED BY <1>0, <1>2 DEF HistoryIsValid, sels

\* Finding the endpoint.
LEMMA EndpointRanges == Ranges /\ Endpoint => Ranges'
<1> SUFFICES ASSUME Ranges, Endpoint PROVE Ranges'
  OBVIOUS
<1> USE NumbersFact DEF Numbers, Ranges
<1>0. /\ Cur \in 0..1 /\ Other \in 0..1 /\ x \in Columns /\ x \in Nat
      /\ <<x, y>> \in Blocks
  <2>1. x \in Columns /\ y \in Rows
    BY DEF TypeOK
  <2> QED BY <2>1, Parity DEF Rows, Columns, Blocks
<1>1. ASSUME NEW e \in Nat, SetEndpoint(e)
      PROVE  /\ endpoint' \in Nat /\ lastEnd' \in Nat
             /\ ring' \in [0..1 -> [Columns -> Nat]] /\ at' = "selector"
  BY <1>0, <1>1 DEF SetEndpoint, TypeOK
<1>2. UNCHANGED <<preds, hist, run, rle, store, syms, old>>
  BY DEF Endpoint, Left, Upper, UpperLeft, Replenish, Delta, sels
<1>3. /\ endpoint' \in Nat /\ lastEnd' \in Nat
      /\ ring' \in [0..1 -> [Columns -> Nat]]
      /\ at' \in {"selector", "corrupt", "store"} /\ selector' \in Nat \cup {None}
      /\ at' = "store" => selector' \in Nat
  <2>1. CASE Left
    BY <2>1, <1>1 DEF Left, Corrupt, TypeOK, ends, sels
  <2>2. CASE Upper
    <3>1. Above(x) \in Nat
      BY <1>0 DEF Above, TypeOK
    <3> QED BY <2>2, <3>1, <1>1 DEF Upper, Corrupt, TypeOK, ends, sels
  <2>3. CASE UpperLeft
    <3>0. x # 0 => x - 1 \in Columns
      BY <1>0 DEF Columns
    <3>1. x # 0 => Above(x - 1) \in Nat
      BY <1>0, <3>0 DEF Above, TypeOK
    <3> QED BY <2>3, <3>1, <1>1 DEF UpperLeft, Corrupt, TypeOK, ends, sels
  <2>4. CASE Replenish
    <3>1. prev[<<x, y>>] \in Nat \X Nat
      BY <1>0 DEF TypeOK
    <3> QED BY <2>4, <3>1, <1>0 DEF Replenish, TypeOK
  <2>5. CASE Delta
    <3>1. PICK d \in Deltas : SetEndpoint(Wrapped(d + lastEnd))
      BY <2>5, Zenon DEF Delta
    <3>2. Wrapped(d + lastEnd) \in Nat
      BY DEF TypeOK, Wrapped
    <3> QED BY <2>5, <3>1, <3>2, <1>1 DEF Delta, TypeOK, sels
  <2> QED BY <2>1, <2>2, <2>3, <2>4, <2>5 DEF Endpoint
<1>4. TypeOK'
  BY <1>2, <1>3 DEF TypeOK, preds, store
<1> QED BY <1>2, <1>4 DEF HistoryIsValid

\* A look into the history finds a selector of the palette.
LEMMA HistoryRanges ==
  ASSUME Ranges, NEW i \in Nat, FromHistory(i)
  PROVE  /\ at' \in {"corrupt", "store"} /\ selector' \in Nat \cup {None}
         /\ at' = "store" => selector' \in Nat
         /\ ValidHistory(hist')
<1>1. ValidHistory(hist)
  BY HistoryFact DEF Ranges
<1>2. CASE i >= HistSize
  BY <1>1, <1>2 DEF FromHistory, Corrupt, Ranges, TypeOK
<1>3. CASE ~(i >= HistSize)
  <2>1. i \in Slots(HistSize)
    BY <1>3, HistAssumption DEF Slots
  <2>2. ValidHistory(AmfUse(HistSize, hist, i))
    BY <1>1, <2>1, UseKeepsHistory
  <2>3. AmfGet(hist, i) \in Nat
    BY <1>1, <2>1 DEF AmfGet, ValidHistory, AmfType
  <2> QED BY <1>1, <1>3, <2>2, <2>3 DEF FromHistory
<1> QED BY <1>2, <1>3

\* Finding the selector.
LEMMA SelectRanges == Ranges /\ Select => Ranges'
<1> SUFFICES ASSUME Ranges, Select PROVE Ranges'
  OBVIOUS
<1> USE NumbersFact DEF Numbers
<1>1. UNCHANGED <<preds, ends, store, syms, old>>
  BY DEF Select, RunGoesOn, RunStarts, HistorySelector, LiteralSelector
<1>2. /\ at' \in {"corrupt", "store"} /\ selector' \in Nat \cup {None}
      /\ at' = "store" => selector' \in Nat
      /\ ValidHistory(hist') /\ run' \in Nat /\ rle' \in [from : Blocks, len : Nat]
  <2>0. /\ ValidHistory(hist) /\ run \in Nat
        /\ rle \in [from : Blocks, len : Nat] /\ <<x, y>> \in Blocks
    BY HistoryFact DEF Ranges, TypeOK, Blocks
  <2>1. CASE RunGoesOn
    BY <2>0, <2>1, HistoryRanges DEF RunGoesOn
  <2>2. CASE RunStarts
    <3>1. PICK n \in Runs :
            \/ Corrupt /\ run' = n /\ UNCHANGED <<hist, selector, rle>>
            \/ run' = n - 1 /\ FromHistory(0) /\ rle' = [from |-> <<x, y>>, len |-> n]
      BY <2>2 DEF RunStarts
    <3>2. n \in Nat /\ n - 1 \in Nat
      OBVIOUS
    <3>3. CASE Corrupt /\ run' = n /\ UNCHANGED <<hist, selector, rle>>
      BY <2>0, <3>2, <3>3 DEF Corrupt, Ranges, TypeOK
    <3>4. CASE run' = n - 1 /\ FromHistory(0) /\ rle' = [from |-> <<x, y>>, len |-> n]
      BY <2>0, <3>2, <3>4, HistoryRanges
    <3> QED BY <3>1, <3>3, <3>4
  <2>3. CASE HistorySelector
    <3>1. PICK v \in SelSyms : v >= NSel /\ FromHistory(v - NSel)
      BY <2>3 DEF HistorySelector
    <3>2. v - NSel \in Nat
      BY <3>1
    <3> QED BY <2>0, <2>3, <3>1, <3>2, HistoryRanges DEF HistorySelector
  <2>4. CASE LiteralSelector
    <3>1. PICK v \in SelSyms : v < NSel /\ selector' = v /\ hist' = AmfAdd(HistSize, hist, v)
      BY <2>4 DEF LiteralSelector
    <3>2. v \in Nat
      OBVIOUS
    <3>3. ValidHistory(hist')
      BY <2>0, <3>1, <3>2, AddKeepsHistory
    <3> QED BY <2>0, <2>4, <3>1, <3>2, <3>3 DEF LiteralSelector
  <2> QED BY <2>1, <2>2, <2>3, <2>4 DEF Select
<1>3. TypeOK'
  BY <1>1, <1>2 DEF Ranges, TypeOK, ValidHistory, preds, ends, store
<1> QED BY <1>2, <1>3 DEF Ranges, HistoryIsValid, ValidHistory

\* Storing the pair, or refusing it.
LEMMA StoreRanges == Ranges /\ (Store \/ OutOfPalette) => Ranges'
<1> SUFFICES ASSUME Ranges, Store \/ OutOfPalette PROVE Ranges'
  OBVIOUS
<1> USE NumbersFact DEF Numbers
<1>1. CASE OutOfPalette
  BY <1>1 DEF OutOfPalette, Corrupt, Ranges, TypeOK, HistoryIsValid,
              preds, ends, sels, store
<1>2. CASE Store
  <2>1. <<endpoint, selector>> \in Nat \X Nat /\ <<x, y>> \in Blocks
    BY <1>2 DEF Store, Ranges, TypeOK, Blocks
  <2>2. prev' \in [Blocks -> Nat \X Nat] /\ grid' \in [Blocks -> (Nat \X Nat) \cup {None}]
    BY <1>2, <2>1 DEF Store, Ranges, TypeOK
  <2>3. x' \in Columns /\ y' \in Rows /\ at' \in {"pred", "ok"}
    <3>1. x \in 0..(NX - 1) /\ y \in 0..(NY - 1) /\ 0 \in 0..(NX - 1)
      BY DEF Ranges, TypeOK, Columns, Rows
    <3>2. CASE x + 1 < NX
      BY <1>2, <3>1, <3>2 DEF Store, Columns, Rows
    <3>3. CASE ~(x + 1 < NX) /\ y + 1 < NY
      BY <1>2, <3>1, <3>3 DEF Store, Columns, Rows
    <3>4. CASE ~(x + 1 < NX) /\ ~(y + 1 < NY)
      BY <1>2, <3>1, <3>4 DEF Store, Columns, Rows
    <3> QED BY <3>2, <3>3, <3>4
  <2> QED
    BY <1>2, <2>2, <2>3 DEF Store, Ranges, TypeOK, HistoryIsValid, preds, ends
<1> QED BY <1>1, <1>2

\* Every step keeps the types and the ranges.
LEMMA StepRanges == Ranges /\ [Next]_vars => Ranges'
<1> SUFFICES ASSUME Ranges, [Next]_vars PROVE Ranges'
  OBVIOUS
<1>1. CASE UNCHANGED vars
  BY <1>1 DEF Ranges, TypeOK, HistoryIsValid, vars, preds, ends, sels, store
<1> QED
  BY <1>1, PredictRanges, EndpointRanges, SelectRanges, StoreRanges DEF Next

\* The types and the ranges hold throughout.
LEMMA RangesHold == Spec => []Ranges
BY InitRanges, StepRanges, PTL DEF Spec

\* Type correctness.
THEOREM TypeCorrect == Spec => []TypeOK
BY RangesHold, PTL DEF Ranges

\* The selector history only holds selectors of this palette, and its rover
\* stays inside the buffer (amf.rs:37-43).
THEOREM HistoryValid == Spec => []HistoryIsValid
BY RangesHold, PTL DEF Ranges

----------------------------------------------------------------------------
(* What is stored. *)

\* Only the store writes the output or the previous frame.
LEMMA OnlyStoreWrites == [Next]_vars => Store \/ UNCHANGED <<prev, grid, old, x, y>>
BY DEF Next, Predict, Endpoint, Select, RepeatedSymbol, NewSymbol, RepeatSymbol,
       LowerRow, SecondColumn, Left, Upper, UpperLeft, Replenish, Delta, RunGoesOn,
       RunStarts, HistorySelector, LiteralSelector, OutOfPalette, vars, store

\* The store writes the same pair to both, and nothing else writes either.
LEMMA StoredHolds == Spec => []PrevMirrorsOutput
<1>1. Init => PrevMirrorsOutput
  BY DEF Init, PrevMirrorsOutput, Done
<1>2. Ranges /\ PrevMirrorsOutput /\ [Next]_vars => PrevMirrorsOutput'
  <2> SUFFICES ASSUME Ranges, PrevMirrorsOutput, [Next]_vars PROVE PrevMirrorsOutput'
    OBVIOUS
  <2>1. CASE UNCHANGED <<prev, grid, old, x, y>>
    BY <2>1 DEF PrevMirrorsOutput, Done
  <2>2. CASE Store
    <3>1. /\ <<endpoint, selector>> \in Nat \X Nat /\ <<endpoint, selector>> # None
          /\ <<x, y>> \in Blocks
      BY <2>2, NoneAssumption DEF Store, Ranges, TypeOK, Blocks
    <3>2. grid' = [grid EXCEPT ![<<x, y>>] = <<endpoint, selector>>] /\ old' = old
      BY <2>2 DEF Store
    <3>3. grid \in [Blocks -> (Nat \X Nat) \cup {None}] /\ prev \in [Blocks -> Nat \X Nat]
      BY DEF Ranges, TypeOK
    <3> QED BY <2>2, <3>1, <3>2, <3>3 DEF PrevMirrorsOutput, Done, Store
  <2> QED BY <2>1, <2>2, OnlyStoreWrites
<1> QED BY <1>1, <1>2, RangesHold, PTL DEF Spec

\* The previous frame is replaced exactly by what is decoded
\* (etc1s.rs:519-522), also when the slice turns out corrupt.
THEOREM PrevFollowsOutput == Spec => []PrevMirrorsOutput
BY StoredHolds, PTL

----------------------------------------------------------------------------
(* The raster order and the ring. *)

Ring == RasterOrder /\ RingIsNeighbours /\ EndpointInHand

\* Nothing is done at first.
LEMMA InitRing == Init => Ring
<1> SUFFICES ASSUME Init PROVE Ring
  OBVIOUS
<1>1. RasterOrder
  BY SizeAssumption DEF Init, RasterOrder, Done, Before, Blocks, Columns, Rows
<1> QED
  BY <1>1, SizeAssumption DEF Init, Ring, RingIsNeighbours, EndpointInHand, Columns

\* Steps that leave the output, the ring and the position alone.
LEMMA PredictRing == Ranges /\ Ring /\ Predict => Ring'
<1> SUFFICES ASSUME Ranges, Ring, Predict PROVE Ring'
  OBVIOUS
<1>1. UNCHANGED <<ends, sels, store, old>> /\ at = "pred" /\ at' = "endpoint"
  BY DEF Predict, RepeatedSymbol, NewSymbol, RepeatSymbol, LowerRow, SecondColumn,
         GroupStarts, OpenGroup, Take
<1> QED
  BY <1>1 DEF Ring, RasterOrder, RingIsNeighbours, EndpointInHand, Done, Before,
              Cur, Other, ends, store

\* What SetEndpoint leaves in hand, given where the endpoint came from.
LEMMA SetEndpointRing ==
  ASSUME Ranges, Ring, at = "endpoint", NEW e \in Nat, SetEndpoint(e),
         UNCHANGED <<preds, sels, store, old>>,
         pred = 0 => x > 0 /\ e = grid[<<x - 1, y>>][1],
         pred = 1 => y > 0 /\ e = grid[<<x, y - 1>>][1],
         pred = 2 => ~Video /\ x > 0 /\ y > 0 /\ e = grid[<<x - 1, y - 1>>][1]
  PROVE  Ring'
<1>1. Cur \in 0..1 /\ Other \in 0..1 /\ Cur # Other /\ x \in Columns
  BY Parity DEF Ranges, TypeOK, Rows
<1>2. /\ Cur' = Cur /\ Other' = Other /\ UNCHANGED <<grid, x, y, old, pred>>
      /\ at' = "selector" /\ endpoint' = e /\ lastEnd' = e
      /\ ring' = [ring EXCEPT ![Cur][x] = e]
  BY DEF SetEndpoint, store, preds, Cur, Other
<1>3. ring \in [0..1 -> [Columns -> Nat]]
  BY DEF Ranges, TypeOK
<1>4. /\ ring'[Other] = ring[Other] /\ ring'[Cur][x] = e
      /\ \A c \in Columns : c # x => ring'[Cur][c] = ring[Cur][c]
  BY <1>1, <1>2, <1>3
<1>5. RasterOrder' /\ RingIsNeighbours'
  BY <1>2 DEF Ring, RasterOrder, RingIsNeighbours, Done, Before
<1>6. EndpointInHand'
  <2>1. /\ \A c \in Columns : c < x => ring[Cur][c] = grid[<<c, y>>][1]
        /\ y > 0 => \A c \in Columns : ring[Other][c] = grid[<<c, y - 1>>][1]
    BY DEF Ring, RingIsNeighbours
  <2>2. \A c \in Columns : c < x => c # x
    BY <1>1 DEF Columns
  <2> QED
    BY <1>2, <1>4, <2>1, <2>2 DEF EndpointInHand
<1> QED BY <1>5, <1>6 DEF Ring

\* Every way to an endpoint takes it from where the prediction says.
LEMMA EndpointRing == Ranges /\ PrevMirrorsOutput /\ Ring /\ Endpoint => Ring'
<1> SUFFICES ASSUME Ranges, PrevMirrorsOutput, Ring, Endpoint PROVE Ring'
  OBVIOUS
<1>0. /\ Cur \in 0..1 /\ Other \in 0..1 /\ Cur # Other
      /\ x \in Columns /\ x \in Nat /\ y \in Nat /\ at = "endpoint"
      /\ UNCHANGED <<preds, store, old>>
  BY Parity DEF Ranges, TypeOK, Rows, Columns, Endpoint, Left, Upper, UpperLeft,
                Replenish, Delta
<1>1. ASSUME Corrupt, UNCHANGED <<ends, preds, sels, store, old>> PROVE Ring'
  BY <1>0, <1>1 DEF Corrupt, Ring, RasterOrder, RingIsNeighbours, EndpointInHand,
                    Done, Before, store
<1>2. CASE Left
  <2>1. CASE x = 0
    BY <1>1, <1>2, <2>1 DEF Left
  <2>2. CASE x # 0
    <3>1. lastEnd \in Nat /\ lastEnd = grid[<<x - 1, y>>][1] /\ x > 0
      BY <1>0, <2>2 DEF Ring, RingIsNeighbours, Ranges, TypeOK
    <3> QED BY <1>0, <1>2, <2>2, <3>1, SetEndpointRing DEF Left
  <2> QED BY <2>1, <2>2
<1>3. CASE Upper
  <2>1. CASE y = 0
    BY <1>1, <1>3, <2>1 DEF Upper
  <2>2. CASE y # 0
    <3>1. Above(x) \in Nat /\ Above(x) = grid[<<x, y - 1>>][1] /\ y > 0
      BY <1>0, <2>2 DEF Above, Ring, RingIsNeighbours, Ranges, TypeOK
    <3> QED BY <1>0, <1>3, <2>2, <3>1, SetEndpointRing DEF Upper
  <2> QED BY <2>1, <2>2
<1>4. CASE UpperLeft
  <2>1. CASE x = 0 \/ y = 0
    BY <1>1, <1>4, <2>1 DEF UpperLeft
  <2>2. CASE ~(x = 0 \/ y = 0)
    <3>0. x - 1 \in Columns /\ x > 0 /\ y > 0
      <4>1. x # 0 /\ y # 0 /\ x \in Nat /\ y \in Nat /\ x \in 0..(NX - 1)
        BY <1>0, <2>2 DEF Columns
      <4>2. x - 1 \in 0..(NX - 1)
        BY <4>1, SizeAssumption
      <4> QED BY <4>1, <4>2 DEF Columns
    <3>1. Above(x - 1) \in Nat /\ Above(x - 1) = grid[<<x - 1, y - 1>>][1]
      BY <1>0, <3>0 DEF Above, Ring, RingIsNeighbours, Ranges, TypeOK
    <3> QED BY <1>0, <1>4, <2>2, <3>0, <3>1, SetEndpointRing DEF UpperLeft
  <2> QED BY <2>1, <2>2
<1>5. CASE Delta
  <2>1. PICK d \in Deltas : SetEndpoint(Wrapped(d + lastEnd))
    BY <1>5, Zenon DEF Delta
  <2>2. Wrapped(d + lastEnd) \in Nat
    BY NumbersFact DEF Ranges, TypeOK, Wrapped, Numbers
  <2>3. pred = 3 /\ UNCHANGED sels
    BY <1>5 DEF Delta
  <2> QED BY <1>0, <2>1, <2>2, <2>3, SetEndpointRing
<1>6. CASE Replenish
  <2>1. /\ Cur' = Cur /\ Other' = Other /\ UNCHANGED <<grid, x, y, old, pred>>
        /\ at' = "store" /\ lastEnd' = endpoint' /\ pred = 2 /\ Video
        /\ ring' = [ring EXCEPT ![Cur][x] = endpoint']
        /\ endpoint' = prev[<<x, y>>][1] /\ selector' = prev[<<x, y>>][2]
    BY <1>0, <1>6 DEF Replenish, store, preds, Cur, Other
  <2>2. ring \in [0..1 -> [Columns -> Nat]] /\ <<x, y>> \in Blocks
    BY DEF Ranges, TypeOK, Blocks
  <2>3. /\ ring'[Other] = ring[Other] /\ ring'[Cur][x] = endpoint'
        /\ \A c \in Columns : c # x => ring'[Cur][c] = ring[Cur][c]
    BY <1>0, <2>1, <2>2
  <2>4. old[<<x, y>>] = prev[<<x, y>>] /\ prev[<<x, y>>] \in Nat \X Nat
    <3>1. ~Done(<<x, y>>)
      BY <1>0, <2>2 DEF Ring, RasterOrder, Before
    <3> QED
      BY <2>2, <3>1 DEF PrevMirrorsOutput, Ranges, TypeOK
  <2>5. RasterOrder' /\ RingIsNeighbours'
    BY <1>0, <2>1 DEF Ring, RasterOrder, RingIsNeighbours, Done, Before
  <2>6. EndpointInHand'
    <3>1. /\ \A c \in Columns : c < x => ring[Cur][c] = grid[<<c, y>>][1]
          /\ y > 0 => \A c \in Columns : ring[Other][c] = grid[<<c, y - 1>>][1]
      BY <1>0 DEF Ring, RingIsNeighbours
    <3>2. \A c \in Columns : c < x => c # x
      BY <1>0 DEF Columns
    <3>3. <<endpoint', selector'>> = old'[<<x', y'>>]
      BY <2>1, <2>4
    <3> QED
      BY <2>1, <2>3, <3>1, <3>2, <3>3 DEF EndpointInHand
  <2> QED BY <2>5, <2>6 DEF Ring
<1> QED BY <1>2, <1>3, <1>4, <1>5, <1>6 DEF Endpoint

\* The selector does not touch what the endpoint left in hand.
LEMMA SelectRing == Ranges /\ Ring /\ Select => Ring'
<1> SUFFICES ASSUME Ranges, Ring, Select PROVE Ring'
  OBVIOUS
<1>1. UNCHANGED <<preds, ends, store, syms, old>> /\ at = "selector"
  BY DEF Select, RunGoesOn, RunStarts, HistorySelector, LiteralSelector
<1>2. at' \in {"store", "corrupt"}
  BY DEF Select, RunGoesOn, RunStarts, HistorySelector, LiteralSelector, FromHistory, Corrupt
<1>3. ~(pred = 2 /\ Video)
  BY <1>1 DEF Ring, EndpointInHand
<1> QED
  BY <1>1, <1>2, <1>3 DEF Ring, RasterOrder, RingIsNeighbours, EndpointInHand, Done,
     Before, Cur, Other, preds, ends, store

\* After a row the two rows of the ring change places.
LEMMA NextRow ==
  ASSUME NEW r \in Nat
  PROVE  (r + 1) % 2 = 1 - (r % 2) /\ 1 - ((r + 1) % 2) = r % 2
OBVIOUS

\* The store makes the block in hand the left neighbour of the next one, or
\* its row the row above.
LEMMA StoreRing == Ranges /\ Ring /\ Store => Ring'
<1> SUFFICES ASSUME Ranges, Ring, Store PROVE Ring'
  OBVIOUS
<1>0. /\ at = "store" /\ x \in Nat /\ y \in Nat /\ x \in Columns /\ y \in Rows
      /\ x <= NX - 1 /\ y <= NY - 1 /\ <<x, y>> \in Blocks
      /\ NX \in Nat /\ NY \in Nat /\ 0 \in Columns
      /\ <<endpoint, selector>> \in Nat \X Nat /\ <<endpoint, selector>> # None
  <2>1. NX \in Nat \ {0} /\ NY \in Nat \ {0} /\ x \in 0..(NX - 1) /\ y \in 0..(NY - 1)
    BY SizeAssumption DEF Ranges, TypeOK, Columns, Rows
  <2>2. at = "store" /\ endpoint \in Nat /\ selector \in Nat
    BY DEF Store, Ranges, TypeOK
  <2>3. <<endpoint, selector>> \in Nat \X Nat /\ <<endpoint, selector>> # None
    BY <2>2, NoneAssumption
  <2>4. x \in Columns /\ y \in Rows /\ <<x, y>> \in Blocks
    BY <2>1 DEF Columns, Rows, Blocks
  <2>5. x \in Nat /\ y \in Nat /\ x <= NX - 1 /\ y <= NY - 1 /\ 0 \in Columns
    BY <2>1 DEF Columns
  <2> QED BY <2>1, <2>2, <2>3, <2>4, <2>5
<1>1. grid' = [grid EXCEPT ![<<x, y>>] = <<endpoint, selector>>] /\ UNCHANGED ring
      /\ UNCHANGED <<lastEnd, endpoint>>
  BY DEF Store, ends
<1>2. /\ grid'[<<x, y>>] = <<endpoint, selector>>
      /\ \A b \in Blocks : b # <<x, y>> => grid'[b] = grid[b]
  BY <1>0, <1>1 DEF Ranges, TypeOK
<1>3. \A b \in Blocks : Done(b)' <=> Done(b) \/ b = <<x, y>>
  BY <1>0, <1>2 DEF Done
<1>4. \A b \in Blocks : Done(b) <=> Before(b)
  BY <1>0 DEF Ring, RasterOrder
<1>5. /\ \A c \in Columns : c < x => ring[Cur][c] = grid[<<c, y>>][1]
      /\ ring[Cur][x] = endpoint /\ lastEnd = endpoint
      /\ y > 0 => \A c \in Columns : ring[Other][c] = grid[<<c, y - 1>>][1]
  BY <1>0 DEF Ring, EndpointInHand
<1>6. \A c \in Columns : c <= x => ring[Cur][c] = grid'[<<c, y>>][1]
  <2>1. \A c \in Columns : c < x => <<c, y>> \in Blocks /\ <<c, y>> # <<x, y>>
    BY <1>0 DEF Blocks, Columns
  <2>2. \A c \in Columns : c <= x => c < x \/ c = x
    BY <1>0 DEF Columns
  <2> QED BY <1>2, <1>5, <2>1, <2>2
<1>7. EndpointInHand'
  BY DEF Store, EndpointInHand
<1>8. CASE x + 1 < NX
  <2>1. x' = x + 1 /\ y' = y /\ at' = "pred" /\ Cur' = Cur /\ Other' = Other
    BY <1>8 DEF Store, Cur, Other
  <2>2. RasterOrder'
    <3>1. \A b \in Blocks : Before(b)' <=> Before(b) \/ b = <<x, y>>
      BY <1>0, <2>1 DEF Before, Blocks, Columns, Rows
    <3> QED BY <1>3, <1>4, <2>1, <3>1 DEF RasterOrder
  <2>3. \A c \in Columns : c < x + 1 => c <= x
    BY <1>0 DEF Columns
  <2>4. y > 0 => \A c \in Columns : ring[Other][c] = grid'[<<c, y - 1>>][1]
    <3>1. y > 0 => \A c \in Columns : <<c, y - 1>> \in Blocks /\ <<c, y - 1>> # <<x, y>>
      BY <1>0 DEF Blocks, Rows
    <3> QED BY <1>2, <1>5, <3>1
  <2>5. x' - 1 = x
    BY <1>0, <2>1
  <2>6. RingIsNeighbours'
    <3>1. \A c \in Columns : c < x' => ring'[Cur'][c] = grid'[<<c, y'>>][1]
      BY <1>1, <1>6, <2>1, <2>3
    <3>2. y' > 0 => \A c \in Columns : ring'[Other'][c] = grid'[<<c, y' - 1>>][1]
      BY <1>1, <2>1, <2>4
    <3>3. lastEnd' = grid'[<<x' - 1, y'>>][1]
      <4>1. lastEnd' = endpoint /\ grid'[<<x, y>>][1] = endpoint
        BY <1>1, <1>2, <1>5
      <4> QED BY <2>1, <2>5, <4>1
    <3> QED BY <3>1, <3>2, <3>3 DEF RingIsNeighbours
  <2> QED BY <1>7, <2>2, <2>6 DEF Ring
<1>9. CASE ~(x + 1 < NX) /\ y + 1 < NY
  <2>1. x' = 0 /\ y' = y + 1 /\ at' = "pred" /\ x = NX - 1
    BY <1>0, <1>9 DEF Store
  <2>2. RasterOrder'
    <3>1. \A b \in Blocks : Before(b)' <=> Before(b) \/ b = <<x, y>>
      BY <1>0, <2>1 DEF Before, Blocks, Columns, Rows
    <3> QED BY <1>3, <1>4, <2>1, <3>1 DEF RasterOrder
  <2>3. Other' = Cur /\ y' - 1 = y
    BY <1>0, <2>1, NextRow DEF Cur, Other
  <2>4. \A c \in Columns : ring'[Other'][c] = grid'[<<c, y' - 1>>][1]
    <3>1. \A c \in Columns : c <= x
      BY <1>0, <2>1 DEF Columns
    <3> QED BY <1>1, <1>6, <2>3, <3>1
  <2>5. \A c \in Columns : ~(c < 0)
    BY DEF Columns
  <2>6. RingIsNeighbours'
    BY <2>1, <2>4, <2>5 DEF RingIsNeighbours
  <2> QED BY <1>7, <2>2, <2>6 DEF Ring
<1>10. CASE ~(x + 1 < NX) /\ ~(y + 1 < NY)
  <2>1. at' = "ok" /\ x = NX - 1 /\ y = NY - 1
    BY <1>0, <1>10 DEF Store
  <2>2. \A b \in Blocks : Before(b) \/ b = <<x, y>>
    BY <1>0, <2>1 DEF Before, Blocks, Columns, Rows
  <2>3. RasterOrder'
    BY <1>3, <1>4, <2>1, <2>2 DEF RasterOrder
  <2> QED BY <1>7, <2>1, <2>3 DEF Ring, RingIsNeighbours
<1> QED BY <1>8, <1>9, <1>10

\* Every step keeps the raster order and the ring.
LEMMA StepRing == Ranges /\ PrevMirrorsOutput /\ Ring /\ [Next]_vars => Ring'
<1> SUFFICES ASSUME Ranges, PrevMirrorsOutput, Ring, [Next]_vars PROVE Ring'
  OBVIOUS
<1>1. CASE UNCHANGED vars \/ OutOfPalette
  BY <1>1 DEF OutOfPalette, Corrupt, Ring, RasterOrder, RingIsNeighbours, EndpointInHand,
     Done, Before, Cur, Other, vars, preds, ends, sels, store
<1> QED
  BY <1>1, PredictRing, EndpointRing, SelectRing, StoreRing DEF Next

\* The ring holds the neighbours in every reachable state.
LEMMA RingHolds == Spec => []Ring
BY InitRing, StepRing, RangesHold, StoredHolds, PTL DEF Spec

\* Two rows are enough: the ring always holds the row above and the row so
\* far, for slices of any size (etc1s.rs:383-386, 436-469).
THEOREM RingSuffices == Spec => []RingIsNeighbours
BY RingHolds, PTL DEF Ring

----------------------------------------------------------------------------
(* The prediction bits. *)

Bits == BitsInHand /\ FollowsPrediction

\* The kept byte holds the upper two predictions of the symbol.
LEMMA KeptBits ==
  ASSUME NEW v \in Nat
  PROVE  /\ (v % 256) % 4 = v % 4
         /\ ((v % 256) \div 4) % 4 = (v \div 4) % 4
OBVIOUS

\* The parity of a number, and the even number below it.
LEMMA EvenOdd ==
  ASSUME NEW n \in Nat
  PROVE  /\ n % 2 \in 0..1
         /\ n % 2 = 0 => n - (n % 2) = n /\ (n + 1) % 2 = 1 /\ (n + 1) - ((n + 1) % 2) = n
         /\ n % 2 = 1 => n - (n % 2) = n - 1 /\ (n + 1) % 2 = 0
OBVIOUS

\* The prediction of a block from its group's symbol, place by place.
LEMMA PredOfPlace ==
  ASSUME NEW c \in Nat, NEW r \in Nat, NEW w,
         w = syms[<<c - (c % 2), r - (r % 2)>>]
  PROVE  /\ c % 2 = 0 /\ r % 2 = 0 => PredOf(<<c, r>>) = w % 4
         /\ c % 2 = 1 /\ r % 2 = 0 => PredOf(<<c, r>>) = (w \div 4) % 4
         /\ c % 2 = 0 /\ r % 2 = 1 => PredOf(<<c, r>>) = (w \div 16) % 4
         /\ c % 2 = 1 /\ r % 2 = 1 => PredOf(<<c, r>>) = ((w \div 16) \div 4) % 4
<1> DEFINE b == <<c, r>>
<1>1. b[1] = c /\ b[2] = r
  OBVIOUS
<1> HIDE DEF b
<1>2. PredOf(b) = LET half == IF r % 2 = 0 THEN w ELSE w \div 16
                  IN  IF c % 2 = 0 THEN half % 4 ELSE (half \div 4) % 4
  BY <1>1, Zenon DEF PredOf
<1>3. ~(1 = 0)
  OBVIOUS
<1>4. /\ c % 2 = 0 /\ r % 2 = 0 => PredOf(b) = w % 4
      /\ c % 2 = 1 /\ r % 2 = 0 => PredOf(b) = (w \div 4) % 4
      /\ c % 2 = 0 /\ r % 2 = 1 => PredOf(b) = (w \div 16) % 4
      /\ c % 2 = 1 /\ r % 2 = 1 => PredOf(b) = ((w \div 16) \div 4) % 4
  BY <1>2, <1>3
<1> QED BY <1>4 DEF b

\* Nothing is known at first.
LEMMA InitBits == Init => Bits
<1> SUFFICES ASSUME Init PROVE Bits
  OBVIOUS
<1>1. FollowsPrediction
  BY DEF Init, FollowsPrediction, Done
<1>2. \A c \in Columns : ~(c < 0)
  BY DEF Columns
<1>3. BitsInHand
  BY <1>2 DEF Init, BitsInHand, Running
<1> QED BY <1>1, <1>3 DEF Bits

\* Between the prediction bits and the store nothing the bits depend on moves.
LEMMA QuietBits ==
  ASSUME Bits, at \in {"endpoint", "selector", "store"}, at' # "pred",
         UNCHANGED <<preds, store, syms, old>>
  PROVE  Bits'
<1>1. Running /\ at # "pred"
  BY DEF Running
<1>2. UNCHANGED <<bits, low, pred, syms, old, grid, x, y>>
  BY DEF preds, store
<1>3. \A b : PredOf(b)' = PredOf(b)
  BY <1>2 DEF PredOf
<1>4. FollowsPrediction'
  BY <1>2, <1>3 DEF Bits, FollowsPrediction, Done
<1>5. BitsInHand'
  BY <1>1, <1>2, <1>3 DEF Bits, BitsInHand, GroupSym
<1> QED BY <1>4, <1>5 DEF Bits

\* A group's symbol says nothing of the blocks before the group.
LEMMA OtherGroups ==
  ASSUME NEW w, NEW b \in Blocks, TypeOK, Before(b), x % 2 = 0, y % 2 = 0,
         syms' = [syms EXCEPT ![<<x, y>>] = w]
  PROVE  PredOf(b)' = PredOf(b)
<1> DEFINE g == <<b[1] - (b[1] % 2), b[2] - (b[2] % 2)>>
<1>1. b[1] \in Nat /\ b[2] \in Nat /\ x \in Nat /\ y \in Nat
  BY DEF Blocks, Columns, Rows, TypeOK
<1>2. g # <<x, y>>
  <2>1. b[1] - (b[1] % 2) # x \/ b[2] - (b[2] % 2) # y
    BY <1>1 DEF Before
  <2> QED BY <2>1
<1>3. syms'[g] = syms[g]
  BY <1>2 DEF TypeOK
<1> QED BY <1>3 DEF PredOf

\* A group's symbol gives its first block the first two bits, and its second
\* block the next two.
LEMMA OpenBits ==
  ASSUME Ranges, Ring, Bits, GroupStarts, NEW w \in Nat, OpenGroup(w),
         UNCHANGED <<grid, old, x, y>>
  PROVE  Bits'
<1>1. /\ at = "pred" /\ x % 2 = 0 /\ y % 2 = 0 /\ x \in Columns /\ y \in Rows
      /\ x \in Nat /\ y \in Nat /\ <<x, y>> \in Blocks /\ Running
      /\ Other = 1
  <2>1. /\ at = "pred" /\ x % 2 = 0 /\ y % 2 = 0 /\ x \in Columns /\ y \in Rows
    BY DEF GroupStarts, Ranges, TypeOK
  <2>2. x \in Nat /\ y \in Nat /\ <<x, y>> \in Blocks
    BY <2>1 DEF Columns, Rows, Blocks
  <2>3. Running
    BY <2>1 DEF Running
  <2>4. Other = 1
    BY <2>1 DEF Cur, Other
  <2> QED BY <2>1, <2>2, <2>3, <2>4
<1>2. /\ pred' = w % 4 /\ bits' = w \div 4 /\ at' = "endpoint"
      /\ low' = [low EXCEPT ![1][x] = (w \div 16) % 256]
      /\ syms' = [syms EXCEPT ![<<x, y>>] = w]
  BY <1>1 DEF OpenGroup, Take
<1>3. syms'[<<x, y>>] = w /\ \A b \in Blocks : b # <<x, y>> => syms'[b] = syms[b]
  BY <1>1, <1>2 DEF Ranges, TypeOK
<1>4. x - (x % 2) = x /\ y - (y % 2) = y
  BY <1>1, EvenOdd
<1>5. PredOf(<<x, y>>)' = w % 4 /\ GroupSym' = w
  <2>1. w = syms'[<<x - (x % 2), y - (y % 2)>>]
    BY <1>3, <1>4
  <2>2. GroupSym' = w
    BY <2>1 DEF GroupSym
  <2>3. PredOf(<<x, y>>)' = w % 4
    BY <1>1, <2>1 DEF PredOf
  <2> QED BY <2>2, <2>3
<1>6. /\ low'[1][x] = (w \div 16) % 256
      /\ \A c \in Columns : c # x => low'[1][c] = low[1][c]
  <2>1. low \in [0..1 -> [Columns -> 0..255]] /\ 1 \in 0..1
    BY SMTT(30) DEF Ranges, TypeOK
  <2> QED BY <1>1, <1>2, <2>1
<1>7. \A c \in Columns : c % 2 = 0 /\ (c < x \/ c = x) =>
        low'[1][c] = (syms'[<<c, y>>] \div 16) % 256
  <2>1. \A c \in Columns : c % 2 = 0 /\ c < x =>
          low[1][c] = (syms[<<c, y>>] \div 16) % 256
    BY <1>1, <1>4 DEF Bits, BitsInHand
  <2>2. \A c \in Columns : c < x => c # x /\ <<c, y>> \in Blocks /\ <<c, y>> # <<x, y>>
    BY <1>1 DEF Columns, Blocks
  <2> QED BY <1>3, <1>6, <2>1, <2>2
<1>8. BitsInHand'
  <2>1. /\ at' # "pred" /\ x' = x /\ y' = y /\ y % 2 # 1 /\ ~(x % 2 = 1)
    BY <1>1, <1>2
  <2>2. pred' = PredOf(<<x, y>>)'
    BY <1>2, <1>5, <2>1
  <2>3. bits' % 4 = ((IF y' % 2 = 0 THEN GroupSym' ELSE GroupSym' \div 16) \div 4) % 4
    BY <1>1, <1>2, <1>5, <2>1
  <2>4. \A c \in Columns : c % 2 = 0 /\ (y' % 2 = 1 \/ c < x' \/ (c = x' /\ at' # "pred")) =>
           low'[1][c] = (syms'[<<c, y' - (y' % 2)>>] \div 16) % 256
    BY <1>4, <1>7, <2>1
  <2> QED BY <2>1, <2>2, <2>3, <2>4 DEF BitsInHand
<1>9. FollowsPrediction'
  <2>1. \A b \in Blocks : Done(b) => Before(b)
    BY <1>1 DEF Ring, RasterOrder
  <2>2. \A b \in Blocks : Done(b) => PredOf(b)' = PredOf(b)
    BY <1>1, <1>2, <2>1, OtherGroups DEF Ranges
  <2> QED BY <2>2 DEF Bits, FollowsPrediction, Done
<1> QED BY <1>8, <1>9 DEF Bits

\* The row below finds its group's upper predictions in the kept byte.
LEMMA LowerBits == Ranges /\ Bits /\ LowerRow => Bits'
<1> SUFFICES ASSUME Ranges, Bits, LowerRow PROVE Bits'
  OBVIOUS
<1>1. /\ at = "pred" /\ x % 2 = 0 /\ y % 2 = 1 /\ x \in Columns /\ y \in Rows
      /\ low \in [0..1 -> [Columns -> 0..255]] /\ syms \in [Blocks -> Nat]
  BY DEF LowerRow, Ranges, TypeOK
<1>2. x \in Nat /\ y \in Nat /\ Running /\ Cur = 1
  BY <1>1 DEF Columns, Rows, Running, Cur
<1>3. /\ pred' = low[1][x] % 4 /\ bits' = low[1][x] \div 4 /\ at' = "endpoint"
      /\ UNCHANGED <<low, syms, grid, old, x, y>>
  BY <1>2 DEF LowerRow, Take, RowBits, store
<1>4. x - (x % 2) = x /\ <<x, y - (y % 2)>> \in Blocks
  <2>1. y - (y % 2) = y - 1 /\ y - 1 \in Rows
    BY <1>1, <1>2, SizeAssumption DEF Rows
  <2> QED BY <1>1, <1>2, <2>1, EvenOdd DEF Blocks
<1> DEFINE w == syms[<<x, y - (y % 2)>>]
<1>5. w \in Nat /\ low[1][x] = (w \div 16) % 256 /\ GroupSym = w
  BY <1>1, <1>2, <1>4 DEF Bits, BitsInHand, GroupSym
<1>6. PredOf(<<x, y>>) = (w \div 16) % 4
  <2>1. w = syms[<<x - (x % 2), y - (y % 2)>>]
    BY <1>4
  <2> QED BY <1>1, <1>2, <2>1, PredOfPlace, ZenonT(60)
<1> HIDE DEF w
<1>7. pred' = PredOf(<<x, y>>) /\ bits' % 4 = ((w \div 16) \div 4) % 4
  <2>1. w \div 16 \in Nat
    BY <1>5
  <2> QED BY <1>3, <1>5, <1>6, <2>1, KeptBits
<1>8. \A b : PredOf(b)' = PredOf(b)
  BY <1>3 DEF PredOf
<1>9. BitsInHand'
  <2>1. at' # "pred" /\ y' % 2 = 1 /\ y' % 2 # 0 /\ x' % 2 # 1 /\ GroupSym' = w
    <3>1. GroupSym' = GroupSym
      BY <1>3 DEF GroupSym
    <3> QED BY <1>1, <1>3, <1>5, <3>1
  <2>2. pred' = PredOf(<<x, y>>)'
    BY <1>3, <1>7, <1>8
  <2>3. \A c \in Columns : c % 2 = 0 =>
           low'[1][c] = (syms'[<<c, y' - (y' % 2)>>] \div 16) % 256
    BY <1>1, <1>2, <1>3 DEF Bits, BitsInHand
  <2> QED BY <1>3, <1>7, <2>1, <2>2, <2>3 DEF BitsInHand
<1>10. FollowsPrediction'
  BY <1>3, <1>8 DEF Bits, FollowsPrediction, Done
<1> QED BY <1>9, <1>10 DEF Bits

\* The second block of a pair finds its bits at the front.
LEMMA SecondBits == Ranges /\ Bits /\ SecondColumn => Bits'
<1> SUFFICES ASSUME Ranges, Bits, SecondColumn PROVE Bits'
  OBVIOUS
<1>1. /\ at = "pred" /\ x % 2 = 1 /\ x % 2 # 0 /\ x \in Columns /\ at' = "endpoint"
      /\ pred' = bits % 4 /\ UNCHANGED <<low, syms, grid, old, x, y>>
  BY DEF SecondColumn, Take, Ranges, TypeOK, store
<1>2. Running /\ pred' = PredOf(<<x, y>>)
  <2>1. Running
    BY <1>1 DEF Running
  <2> QED BY <1>1, <2>1 DEF Bits, BitsInHand
<1>3. \A b : PredOf(b)' = PredOf(b)
  BY <1>1 DEF PredOf
<1>4. BitsInHand'
  <2>1. \A c \in Columns : c % 2 = 0 /\ (y' % 2 = 1 \/ c < x' \/ c = x') =>
           low'[1][c] = (syms'[<<c, y' - (y' % 2)>>] \div 16) % 256
    <3>1. \A c \in Columns : c % 2 = 0 => c # x
      BY <1>1
    <3> QED BY <1>1, <1>2, <3>1 DEF Bits, BitsInHand
  <2>2. pred' = PredOf(<<x, y>>)' /\ at' # "pred" /\ x' % 2 # 0
    BY <1>1, <1>2, <1>3
  <2> QED BY <2>1, <2>2 DEF BitsInHand
<1>5. FollowsPrediction'
  BY <1>1, <1>3 DEF Bits, FollowsPrediction, Done
<1> QED BY <1>4, <1>5 DEF Bits

\* Every way to read the prediction bits reads the block's own.
LEMMA PredictBits == Ranges /\ Ring /\ Bits /\ Predict => Bits'
<1> SUFFICES ASSUME Ranges, Ring, Bits, Predict PROVE Bits'
  OBVIOUS
<1>1. CASE RepeatedSymbol
  <2>1. lastSym \in Nat /\ GroupStarts /\ OpenGroup(lastSym) /\ UNCHANGED <<grid, old, x, y>>
    BY <1>1 DEF RepeatedSymbol, Ranges, TypeOK, store
  <2> QED BY <2>1, OpenBits
<1>2. CASE RepeatSymbol
  <2>1. lastSym \in Nat /\ GroupStarts /\ OpenGroup(lastSym) /\ UNCHANGED <<grid, old, x, y>>
    BY <1>2 DEF RepeatSymbol, Ranges, TypeOK, store
  <2> QED BY <2>1, OpenBits
<1>3. CASE NewSymbol
  <2>1. PICK w \in PredSyms : OpenGroup(w)
    BY <1>3, Zenon DEF NewSymbol
  <2>2. w \in Nat /\ GroupStarts /\ UNCHANGED <<grid, old, x, y>>
    BY <1>3, SymAssumption DEF NewSymbol, store
  <2> QED BY <2>1, <2>2, OpenBits
<1> QED BY <1>1, <1>2, <1>3, LowerBits, SecondBits DEF Predict

\* What block b got follows its prediction.
Follows(b) ==
  /\ PredOf(b) = 0 => b[1] > 0 /\ grid[b][1] = grid[<<b[1] - 1, b[2]>>][1]
  /\ PredOf(b) = 1 => b[2] > 0 /\ grid[b][1] = grid[<<b[1], b[2] - 1>>][1]
  /\ PredOf(b) = 2 /\ ~Video =>
       b[1] > 0 /\ b[2] > 0 /\ grid[b][1] = grid[<<b[1] - 1, b[2] - 1>>][1]
  /\ PredOf(b) = 2 /\ Video => grid[b] = old[b]

\* The store leaves the blocks before alone, and the block in hand was taken
\* from where its bits say.
LEMMA StoreFollows ==
  ASSUME Ranges, Ring, Bits, Store
  PROVE  FollowsPrediction'
<1>1. /\ at = "store" /\ x \in Nat /\ y \in Nat /\ <<x, y>> \in Blocks
      /\ <<endpoint, selector>> \in Nat \X Nat
      /\ grid' = [grid EXCEPT ![<<x, y>>] = <<endpoint, selector>>]
      /\ UNCHANGED <<syms, old, preds>>
  <2>1. at = "store" /\ x \in Columns /\ y \in Rows /\ endpoint \in Nat /\ selector \in Nat
    BY DEF Store, Ranges, TypeOK
  <2>2. x \in Nat /\ y \in Nat /\ <<x, y>> \in Blocks
    BY <2>1 DEF Blocks, Columns, Rows
  <2>3. grid' = [grid EXCEPT ![<<x, y>>] = <<endpoint, selector>>] /\ UNCHANGED <<syms, old, preds>>
    BY DEF Store
  <2> QED BY <2>1, <2>2, <2>3
<1>2. /\ grid'[<<x, y>>] = <<endpoint, selector>>
      /\ \A b : b # <<x, y>> => grid'[b] = grid[b]
  BY <1>1 DEF Ranges, TypeOK
<1>3. \A b \in Blocks : Done(b) <=> Before(b)
  BY <1>1 DEF Ring, RasterOrder
<1>4. \A b : PredOf(b)' = PredOf(b)
  BY <1>1 DEF PredOf
<1>5. \A b \in Blocks : Done(b) => Follows(b)
  BY DEF Bits, FollowsPrediction, Follows
<1>6. ASSUME NEW b \in Blocks, Before(b) PROVE Follows(b)'
  <2>1. b[1] \in Nat /\ b[2] \in Nat /\ (b[2] < y \/ (b[2] = y /\ b[1] < x))
    BY <1>6 DEF Before, Blocks, Columns, Rows
  <2>2. /\ b # <<x, y>> /\ <<b[1] - 1, b[2]>> # <<x, y>>
        /\ <<b[1], b[2] - 1>> # <<x, y>> /\ <<b[1] - 1, b[2] - 1>> # <<x, y>>
    BY <1>1, <2>1
  <2>3. Follows(b)
    BY <1>3, <1>5, <1>6
  <2> QED BY <1>1, <1>2, <1>4, <2>2, <2>3 DEF Follows
<1>7. ASSUME NEW b \in Blocks, b = <<x, y>> PROVE Follows(b)'
  <2>1. pred = PredOf(b)
    BY <1>1, <1>7 DEF Bits, BitsInHand, Running
  <2>2. /\ pred = 0 => x > 0 /\ endpoint = grid[<<x - 1, y>>][1]
        /\ pred = 1 => y > 0 /\ endpoint = grid[<<x, y - 1>>][1]
        /\ pred = 2 /\ ~Video => x > 0 /\ y > 0 /\ endpoint = grid[<<x - 1, y - 1>>][1]
        /\ pred = 2 /\ Video => old[b] = <<endpoint, selector>>
    BY <1>1, <1>7 DEF Ring, EndpointInHand
  <2>3. <<x - 1, y>> # <<x, y>> /\ <<x, y - 1>> # <<x, y>> /\ <<x - 1, y - 1>> # <<x, y>>
    BY <1>1
  <2>4. b[1] = x /\ b[2] = y /\ grid'[b] = <<endpoint, selector>> /\ PredOf(b)' = pred
    BY <1>2, <1>4, <1>7, <2>1
  <2>5. grid'[b][1] = endpoint /\ old'[b] = old[b]
    BY <1>1, <2>4
  <2>6. /\ grid'[<<x - 1, y>>] = grid[<<x - 1, y>>]
        /\ grid'[<<x, y - 1>>] = grid[<<x, y - 1>>]
        /\ grid'[<<x - 1, y - 1>>] = grid[<<x - 1, y - 1>>]
    BY <1>2, <2>3
  <2> QED BY <2>2, <2>4, <2>5, <2>6 DEF Follows
<1>8. \A b \in Blocks : Done(b)' => Before(b) \/ b = <<x, y>>
  BY <1>2, <1>3 DEF Done
<1>9. ASSUME NEW b \in Blocks, Done(b)' PROVE Follows(b)'
  <2>1. Before(b) \/ b = <<x, y>>
    BY <1>8, <1>9
  <2> QED BY <1>6, <1>7, <2>1
<1> QED BY <1>9 DEF FollowsPrediction, Follows

\* After the store the bits left over are the right neighbour's, and the kept
\* byte the next row's.
LEMMA StoreInHand ==
  ASSUME Ranges, Bits, Store
  PROVE  BitsInHand'
<1>1. /\ at = "store" /\ Running /\ x \in Columns /\ y \in Rows /\ x \in Nat /\ y \in Nat
      /\ x <= NX - 1 /\ NX \in Nat
      /\ UNCHANGED <<bits, low, pred, syms>>
  <2>1. at = "store" /\ x \in Columns /\ y \in Rows
    BY DEF Store, Ranges, TypeOK
  <2>2. x \in Nat /\ y \in Nat /\ x <= NX - 1 /\ NX \in Nat
    BY <2>1, SizeAssumption DEF Columns, Rows
  <2>3. UNCHANGED <<bits, low, pred, syms>>
    BY DEF Store, preds
  <2> QED BY <2>1, <2>2, <2>3 DEF Running
<1>2. \A c \in Columns : c % 2 = 0 /\ (y % 2 = 1 \/ c < x \/ c = x) =>
        low[1][c] = (syms[<<c, y - (y % 2)>>] \div 16) % 256
  BY <1>1 DEF Bits, BitsInHand
<1>3. x % 2 = 0 =>
        bits % 4 = ((IF y % 2 = 0 THEN GroupSym ELSE GroupSym \div 16) \div 4) % 4
  BY <1>1 DEF Bits, BitsInHand
<1>4. CASE x + 1 < NX
  <2>1. x' = x + 1 /\ y' = y /\ at' = "pred"
    BY <1>4 DEF Store
  <2>2. x' % 2 = 1 => bits' % 4 = PredOf(<<x, y>>)'
    <3>1. SUFFICES ASSUME x' % 2 = 1 PROVE bits' % 4 = PredOf(<<x, y>>)'
      OBVIOUS
    <3>2. x % 2 = 0 /\ x - (x % 2) = x /\ x' - (x' % 2) = x
      BY <1>1, <2>1, <3>1, EvenOdd
    <3> DEFINE w == syms[<<x, y - (y % 2)>>]
    <3>3. GroupSym = w /\ w = syms'[<<x' - (x' % 2), y' - (y' % 2)>>]
      BY <1>1, <2>1, <3>2 DEF GroupSym
    <3> HIDE DEF w
    <3>4. PredOf(<<x, y>>)' = ((IF y % 2 = 0 THEN w ELSE w \div 16) \div 4) % 4
      <4>1. y % 2 = 0 \/ y % 2 = 1
        BY <1>1, EvenOdd
      <4>2. x' % 2 # 0
        BY <3>1
      <4> QED BY <2>1, <3>3, <4>1, <4>2 DEF PredOf
    <3> QED BY <1>1, <1>3, <3>2, <3>3, <3>4
  <2>3. \A c \in Columns : c < x' => c < x \/ c = x
    BY <1>1, <2>1 DEF Columns
  <2>4. \A c \in Columns : c % 2 = 0 /\ (y' % 2 = 1 \/ c < x') =>
          low'[1][c] = (syms'[<<c, y' - (y' % 2)>>] \div 16) % 256
    BY <1>1, <1>2, <2>1, <2>3
  <2> QED BY <2>1, <2>2, <2>4 DEF BitsInHand
<1>5. CASE ~(x + 1 < NX) /\ y + 1 < NY
  <2>1. x' = 0 /\ y' = y + 1 /\ at' = "pred" /\ x = NX - 1
    BY <1>1, <1>5 DEF Store
  <2>2. x' % 2 # 1
    BY <2>1
  <2>3. \A c \in Columns : (c < x \/ c = x) /\ ~(c < x')
    BY <1>1, <2>1 DEF Columns
  <2>4. y' % 2 = 1 => y' - (y' % 2) = y - (y % 2)
    BY <1>1, <2>1
  <2>5. \A c \in Columns : c % 2 = 0 /\ (y' % 2 = 1 \/ c < x') =>
          low'[1][c] = (syms'[<<c, y' - (y' % 2)>>] \div 16) % 256
    BY <1>1, <1>2, <2>3, <2>4
  <2> QED BY <2>1, <2>2, <2>5 DEF BitsInHand
<1>6. CASE ~(x + 1 < NX) /\ ~(y + 1 < NY)
  BY <1>6 DEF Store, BitsInHand, Running
<1> QED BY <1>4, <1>5, <1>6

\* Every step keeps the bits in hand and what was decoded from them.
LEMMA StepBits == Ranges /\ Ring /\ Bits /\ [Next]_vars => Bits'
<1> SUFFICES ASSUME Ranges, Ring, Bits, [Next]_vars PROVE Bits'
  OBVIOUS
<1>1. CASE Predict
  BY <1>1, PredictBits
<1>2. CASE Endpoint
  <2>1. at = "endpoint" /\ at' # "pred" /\ UNCHANGED <<preds, store, syms, old>>
    BY <1>2 DEF Endpoint, Left, Upper, UpperLeft, Replenish, Delta, SetEndpoint, Corrupt
  <2> QED BY <2>1, QuietBits
<1>3. CASE Select
  <2>1. at = "selector" /\ at' # "pred" /\ UNCHANGED <<preds, store, syms, old>>
    BY <1>3 DEF Select, RunGoesOn, RunStarts, HistorySelector, LiteralSelector,
       FromHistory, Corrupt
  <2> QED BY <2>1, QuietBits
<1>4. CASE OutOfPalette
  <2>1. at = "store" /\ at' # "pred" /\ UNCHANGED <<preds, store, syms, old>>
    BY <1>4 DEF OutOfPalette, Corrupt
  <2> QED BY <2>1, QuietBits
<1>5. CASE Store
  BY <1>5, StoreFollows, StoreInHand DEF Bits
<1>6. CASE UNCHANGED vars
  BY <1>6, SMTT(30) DEF Bits, BitsInHand, FollowsPrediction, Done, PredOf, GroupSym, Running,
     vars, preds, store
<1> QED BY <1>1, <1>2, <1>3, <1>4, <1>5, <1>6 DEF Next

\* The bits in hand are the block's own in every reachable state.
LEMMA BitsHold == Spec => []Bits
BY InitBits, StepBits, RangesHold, RingHolds, PTL DEF Spec

\* Each decoded block has the endpoint of the neighbour that its own two bits
\* of its group's symbol name, or the previous frame's pair, in slices of any
\* size and for any stream (etc1s.rs:403-474).
THEOREM PredictionFollowed == Spec => []FollowsPrediction
BY BitsHold, PTL DEF Bits

\* What a block has in hand between its steps is its own: the raster order,
\* the bits and the endpoint (etc1s.rs:401-529).
THEOREM InHand == Spec => []BlockInHand
BY BitsHold, RingHolds, PTL DEF Bits, Ring, BlockInHand

----------------------------------------------------------------------------
(* What moves in the history. *)

\* Only a literal, or the use of an entry that no run repeats, moves the history.
LEMMA HistoryMoves ==
  ASSUME Ranges, [Next]_vars
  PROVE  \/ hist' = hist
         \/ run = 0 /\ \E i \in Slots(HistSize) : hist' = AmfUse(HistSize, hist, i)
         \/ run = 0 /\ \E v \in Nat : hist' = AmfAdd(HistSize, hist, v)
<1>1. CASE RunGoesOn \/ RunStarts
  BY <1>1 DEF RunGoesOn, RunStarts, FromHistory
<1>2. CASE HistorySelector
  <2>1. PICK v \in SelSyms : v >= NSel /\ FromHistory(v - NSel)
    BY <1>2 DEF HistorySelector
  <2>2. v - NSel \in Nat
    BY <2>1, NumbersFact DEF Numbers
  <2>3. ~(v - NSel >= HistSize) => v - NSel \in Slots(HistSize)
    BY <2>2, NumbersFact DEF Numbers, Slots
  <2> QED BY <1>2, <2>1, <2>3 DEF HistorySelector, FromHistory
<1>3. CASE LiteralSelector
  <2>1. PICK v \in SelSyms : hist' = AmfAdd(HistSize, hist, v)
    BY <1>3 DEF LiteralSelector
  <2> QED BY <1>3, <2>1, NumbersFact DEF LiteralSelector, Numbers
<1>4. CASE Predict \/ Endpoint \/ OutOfPalette \/ Store \/ UNCHANGED vars
  BY <1>4 DEF Predict, RepeatedSymbol, NewSymbol, RepeatSymbol, LowerRow, SecondColumn,
     Endpoint, Left, Upper, UpperLeft, Replenish, Delta, OutOfPalette, Store, vars, sels
<1> QED BY <1>1, <1>2, <1>3, <1>4 DEF Next, Select

\* A literal lands in the back half.
LEMMA AddBehind ==
  ASSUME ValidHistory(hist), NEW v, NEW i \in 0..(Half(HistSize) - 1)
  PROVE  AmfAdd(HistSize, hist, v).values[i] = hist.values[i]
<1>1. /\ hist.values \in [Slots(HistSize) -> Nat] /\ Half(HistSize) \in Nat
      /\ hist.rover \in Half(HistSize)..(HistSize - 1) /\ HistSize \in Nat
      /\ Half(HistSize) <= HistSize - 1
  BY HalfInside, HistAssumption DEF ValidHistory, AmfType, RoverInBack
<1>2. i # hist.rover /\ i \in Slots(HistSize)
  BY <1>1 DEF Slots
<1> QED BY <1>1, <1>2 DEF AmfAdd

\* The front half of the history is reached by promotion alone, in a buffer
\* of any size (amf.rs:34-36).
THEOREM FrontPromoted == Spec => FrontByPromotion
<1> DEFINE Promoted ==
      (\E i \in 0..(Half(HistSize) - 1) : hist'.values[i] # hist.values[i]) =>
         \E j \in Slots(HistSize) : hist' = AmfUse(HistSize, hist, j)
<1>1. ASSUME Ranges, [Next]_vars PROVE Promoted
  <2>1. ValidHistory(hist)
    BY <1>1, HistoryFact DEF Ranges
  <2>2. \A v : hist' = AmfAdd(HistSize, hist, v) =>
          \A i \in 0..(Half(HistSize) - 1) : hist'.values[i] = hist.values[i]
    BY <2>1, AddBehind
  <2> QED BY <1>1, <2>2, HistoryMoves
<1>2. ASSUME Ranges, [Next]_vars PROVE [Promoted]_vars
  BY <1>1, <1>2
<1> QED BY <1>2, RangesHold, PTL DEF Spec, FrontByPromotion

----------------------------------------------------------------------------
(* What a run covers. *)

\* The selector a block of the run has, in the output or in hand.
SelectorOf(b) == IF Done(b) THEN grid[b][2] ELSE selector

RunInv ==
  Running /\ run > 0 =>
    /\ FromOn(<<x, y>>, rle.from)
    /\ Cardinality(RunBlocks) + run = rle.len
    /\ \A b \in RunBlocks : SelectorOf(b) = AmfGet(hist, 0)

\* There are finitely many blocks.
LEMMA RunFinite == IsFiniteSet(RunBlocks) /\ Cardinality(RunBlocks) \in Nat
<1>1. IsFiniteSet(Columns) /\ IsFiniteSet(Rows)
  BY FS_Interval, NumbersFact DEF Numbers, Columns, Rows
<1>2. IsFiniteSet(Blocks)
  BY <1>1, FS_Product DEF Blocks
<1>3. RunBlocks \in SUBSET Blocks
  BY DEF RunBlocks
<1>4. IsFiniteSet(RunBlocks)
  BY <1>2, <1>3, FS_Subset
<1> QED BY <1>4, FS_CardinalityType

\* A step that neither takes a selector nor stores leaves the run as it is.
LEMMA QuietRun ==
  ASSUME RunInv, Running, at # "store",
         UNCHANGED <<hist, run, rle, grid, x, y>>,
         \A b \in Blocks : Done(b) => PredOf(b)' = PredOf(b),
         at' = "store" => ~TakesSelector(<<x, y>>)'
  PROVE  RunInv'
<1>1. \A b \in Blocks : Done(b)' <=> Done(b)
  BY DEF Done
<1>2. \A b \in Blocks : Done(b) => (TakesSelector(b)' <=> TakesSelector(b))
  BY DEF TakesSelector
<1>3. \A b \in Blocks : FromOn(b, rle.from)' <=> FromOn(b, rle.from)
  BY DEF FromOn
<1>4. \A b \in RunBlocks : b \in Blocks /\ Done(b)
  BY DEF RunBlocks
<1>5. RunBlocks' = RunBlocks
  <2>1. ASSUME NEW b \in Blocks, b \in RunBlocks PROVE b \in RunBlocks'
    BY <2>1, <1>1, <1>2, <1>3, <1>4 DEF RunBlocks
  <2>2. ASSUME NEW b \in Blocks, b \in RunBlocks' PROVE b \in RunBlocks
    <3>1. FromOn(b, rle.from)' /\ TakesSelector(b)' /\ (Done(b)' \/ (b = <<x, y>> /\ at' = "store"))
      BY <2>2 DEF RunBlocks
    <3>2. Done(b)
      BY <1>1, <3>1
    <3> QED BY <1>2, <1>3, <3>1, <3>2 DEF RunBlocks
  <2>3. RunBlocks \subseteq Blocks /\ RunBlocks' \subseteq Blocks
    BY DEF RunBlocks, Blocks, Columns, Rows
  <2> QED BY <2>1, <2>2, <2>3
<1>6. \A b \in RunBlocks : SelectorOf(b)' = SelectorOf(b)
  BY <1>1, <1>4 DEF SelectorOf
<1>7. AmfGet(hist, 0)' = AmfGet(hist, 0) /\ FromOn(<<x, y>>, rle.from)' = FromOn(<<x, y>>, rle.from)
  BY DEF AmfGet, FromOn
<1> QED BY <1>5, <1>6, <1>7 DEF RunInv

\* The prediction bits and the endpoint do not take a selector; a replenished block brings
\* its own.
LEMMA QuietSteps ==
  ASSUME Ranges, Ring, Bits, RunInv, Predict \/ Endpoint
  PROVE  RunInv'
<1>1. CASE Predict
  <2>1. at = "pred" /\ at' = "endpoint" /\ UNCHANGED <<hist, run, rle, grid, x, y>>
    BY <1>1 DEF Predict, RepeatedSymbol, NewSymbol, RepeatSymbol, LowerRow, SecondColumn,
       GroupStarts, OpenGroup, Take, sels, store
  <2>2. \/ syms' = syms
        \/ x % 2 = 0 /\ y % 2 = 0 /\ \E w : syms' = [syms EXCEPT ![<<x, y>>] = w]
    BY <1>1 DEF Predict, RepeatedSymbol, NewSymbol, RepeatSymbol, LowerRow, SecondColumn,
       GroupStarts, OpenGroup
  <2>3. \A b \in Blocks : Done(b) => Before(b)
    BY <2>1 DEF Ring, RasterOrder
  <2>4. \A b \in Blocks : Done(b) => PredOf(b)' = PredOf(b)
    <3>1. CASE syms' = syms
      BY <3>1 DEF PredOf
    <3>2. CASE x % 2 = 0 /\ y % 2 = 0 /\ \E w : syms' = [syms EXCEPT ![<<x, y>>] = w]
      BY <3>2, <2>3, OtherGroups DEF Ranges
    <3> QED BY <2>2, <3>1, <3>2
  <2> QED BY <2>1, <2>4, QuietRun DEF Running
<1>2. CASE Endpoint
  <2>1. at = "endpoint" /\ UNCHANGED <<hist, run, rle, grid, x, y, syms, pred>>
    BY <1>2 DEF Endpoint, Left, Upper, UpperLeft, Replenish, Delta, sels, store, preds
  <2>2. \A b : PredOf(b)' = PredOf(b)
    BY <2>1 DEF PredOf
  <2>3. at' = "store" => pred = 2 /\ Video
    BY <1>2 DEF Endpoint, Left, Upper, UpperLeft, Replenish, Delta, SetEndpoint, Corrupt
  <2>4. pred = PredOf(<<x, y>>)
    BY <2>1 DEF Bits, BitsInHand, Running
  <2>5. at' = "store" => ~TakesSelector(<<x, y>>)'
    BY <2>1, <2>2, <2>3, <2>4 DEF TakesSelector
  <2> QED BY <2>1, <2>2, <2>5, QuietRun DEF Running
<1> QED BY <1>1, <1>2

\* The block in hand is the next one of the run, or the first one of a new run.
LEMMA SelectRun ==
  ASSUME Ranges, Ring, Bits, RunInv, Select
  PROVE  RunInv'
<1>1. /\ at = "selector" /\ Running /\ UNCHANGED <<grid, x, y, syms, pred>>
      /\ x \in Nat /\ y \in Nat /\ <<x, y>> \in Blocks /\ run \in Nat
  <2>1. at = "selector" /\ UNCHANGED <<grid, x, y, syms, pred>>
    BY DEF Select, RunGoesOn, RunStarts, HistorySelector, LiteralSelector, store, preds
  <2>2. x \in Columns /\ y \in Rows /\ run \in Nat
    BY DEF Ranges, TypeOK
  <2> QED BY <2>1, <2>2 DEF Running, Blocks, Columns, Rows
<1>2. \A b : PredOf(b)' = PredOf(b)
  BY <1>1 DEF PredOf
<1>3. ~Done(<<x, y>>) /\ \A b \in Blocks : Done(b) <=> Before(b)
  BY <1>1 DEF Ring, RasterOrder, Before
<1>4. TakesSelector(<<x, y>>)
  <2>1. pred = PredOf(<<x, y>>)
    BY <1>1 DEF Bits, BitsInHand
  <2>2. ~(pred = 2 /\ Video)
    BY <1>1 DEF Ring, EndpointInHand
  <2> QED BY <2>1, <2>2 DEF TakesSelector
<1>5. \A b \in Blocks : (Done(b)' <=> Done(b)) /\ (TakesSelector(b)' <=> TakesSelector(b))
  BY <1>1, <1>2 DEF Done, TakesSelector
<1>6. \A b \in RunBlocks : b \in Blocks /\ Done(b)
  BY <1>1 DEF RunBlocks
<1>7. ASSUME run > 0, run' = run - 1, rle' = rle, FromHistory(0)
      PROVE  RunInv'
  <2>1. /\ at' = "store" /\ hist' = hist /\ selector' = AmfGet(hist, 0)
    BY <1>7, HistAssumption DEF FromHistory
  <2>2. /\ FromOn(<<x, y>>, rle.from) /\ Cardinality(RunBlocks) + run = rle.len
        /\ \A b \in RunBlocks : SelectorOf(b) = AmfGet(hist, 0)
    BY <1>1, <1>7 DEF RunInv
  <2>3. RunBlocks' = RunBlocks \cup {<<x, y>>}
    <3>1. \A b \in Blocks : FromOn(b, rle.from)' <=> FromOn(b, rle.from)
      BY <1>7 DEF FromOn
    <3>2. \A b \in Blocks : b \in RunBlocks' <=> b \in RunBlocks \/ b = <<x, y>>
      BY <1>1, <1>4, <1>5, <2>1, <2>2, <3>1 DEF RunBlocks
    <3>3. RunBlocks' \subseteq Blocks /\ RunBlocks \subseteq Blocks
      BY DEF RunBlocks, Blocks, Columns, Rows
    <3> QED BY <1>1, <3>2, <3>3
  <2>4. Cardinality(RunBlocks') = Cardinality(RunBlocks) + 1
    <3>1. <<x, y>> \notin RunBlocks
      BY <1>3, <1>6
    <3> QED BY <2>3, <3>1, RunFinite, FS_AddElement
  <2>5. Cardinality(RunBlocks)' + run' = rle'.len
    BY <1>1, <1>7, <2>2, <2>4, RunFinite
  <2>6. \A b \in RunBlocks' : SelectorOf(b)' = AmfGet(hist', 0)
    <3>1. \A b \in RunBlocks : SelectorOf(b)' = SelectorOf(b)
      BY <1>1, <1>5, <1>6 DEF SelectorOf
    <3>2. SelectorOf(<<x, y>>)' = selector'
      BY <1>1, <1>3, <1>5 DEF SelectorOf
    <3>3. ASSUME NEW b \in RunBlocks PROVE SelectorOf(b)' = AmfGet(hist', 0)
      BY <2>1, <2>2, <3>1
    <3>4. SelectorOf(<<x, y>>)' = AmfGet(hist', 0)
      BY <2>1, <3>2
    <3>5. ASSUME NEW b, b = <<x, y>> PROVE SelectorOf(b)' = AmfGet(hist', 0)
      <4>1. b = <<x, y>>'
        BY <1>1, <3>5
      <4> QED BY <3>4, <4>1
    <3> QED BY <2>3, <3>3, <3>5
  <2>7. FromOn(<<x, y>>, rle.from)'
    BY <1>1, <1>7, <2>2 DEF FromOn
  <2> QED BY <2>5, <2>6, <2>7 DEF RunInv
<1>8. ASSUME NEW n \in Nat \ {0}, run' = n - 1, FromHistory(0), rle' = [from |-> <<x, y>>, len |-> n]
      PROVE  RunInv'
  <2>1. at' = "store" /\ hist' = hist /\ selector' = AmfGet(hist, 0)
    BY <1>8, HistAssumption DEF FromHistory
  <2>2. rle'.from = <<x, y>> /\ rle'.len = n
    BY <1>8
  <2>3. RunBlocks' = {<<x, y>>}
    <3>1. ASSUME NEW b \in Blocks, FromOn(b, <<x, y>>) PROVE ~Done(b)
      BY <1>1, <1>3, <3>1 DEF FromOn, Before, Blocks, Columns, Rows
    <3>2. FromOn(<<x, y>>, <<x, y>>)
      BY <1>1 DEF FromOn
    <3>3. \A b \in Blocks : FromOn(b, rle.from)' <=> FromOn(b, <<x, y>>)
      BY <2>2 DEF FromOn
    <3>4. \A b \in Blocks : b \in RunBlocks' <=> b = <<x, y>>
      BY <1>1, <1>4, <1>5, <2>1, <3>1, <3>2, <3>3 DEF RunBlocks
    <3>5. RunBlocks' \subseteq Blocks
      BY DEF RunBlocks, Blocks, Columns, Rows
    <3> QED BY <1>1, <3>4, <3>5
  <2>4. Cardinality(RunBlocks)' + run' = rle'.len
    <3>1. Cardinality({<<x, y>>}) = 1
      BY FS_Singleton
    <3>2. Cardinality(RunBlocks') = 1
      BY <2>3, <3>1
    <3> QED BY <1>8, <2>2, <3>2
  <2>5. \A b \in RunBlocks' : SelectorOf(b)' = AmfGet(hist', 0)
    <3>1. ~Done(<<x, y>>)'
      BY <1>1, <1>3, <1>5
    <3>2. ASSUME NEW b, b = <<x, y>> PROVE SelectorOf(b)' = AmfGet(hist', 0)
      <4>1. b = <<x, y>>'
        BY <1>1, <3>2
      <4> QED BY <2>1, <3>1, <4>1 DEF SelectorOf
    <3> QED BY <2>3, <3>2
  <2>6. FromOn(<<x, y>>, rle.from)'
    BY <1>1, <2>2 DEF FromOn
  <2> QED BY <2>4, <2>5, <2>6 DEF RunInv
<1>9. CASE RunGoesOn
  BY <1>7, <1>9 DEF RunGoesOn
<1>10. CASE RunStarts
  <2>1. PICK n \in Runs :
          \/ Corrupt
          \/ run' = n - 1 /\ FromHistory(0) /\ rle' = [from |-> <<x, y>>, len |-> n]
    BY <1>10 DEF RunStarts
  <2>2. n \in Nat \ {0}
    BY NumbersFact DEF Numbers
  <2>3. CASE Corrupt
    BY <2>3 DEF Corrupt, RunInv, Running
  <2> QED BY <1>8, <2>1, <2>2, <2>3
<1>11. CASE HistorySelector \/ LiteralSelector
  <2>1. run' = 0
    BY <1>11 DEF HistorySelector, LiteralSelector
  <2> QED BY <2>1 DEF RunInv
<1> QED BY <1>9, <1>10, <1>11 DEF Select

\* What was in hand is in the output, with the same selector.
LEMMA StoreRun ==
  ASSUME Ranges, Ring, RunInv, Store
  PROVE  RunInv'
<1>1. /\ at = "store" /\ Running /\ UNCHANGED <<syms, hist, run, rle>>
      /\ x \in Nat /\ y \in Nat /\ <<x, y>> \in Blocks
      /\ <<endpoint, selector>> \in Nat \X Nat /\ <<endpoint, selector>> # None
      /\ grid' = [grid EXCEPT ![<<x, y>>] = <<endpoint, selector>>]
  <2>1. /\ at = "store" /\ UNCHANGED <<syms, hist, run, rle>>
        /\ grid' = [grid EXCEPT ![<<x, y>>] = <<endpoint, selector>>]
    BY DEF Store
  <2>2. x \in Columns /\ y \in Rows /\ endpoint \in Nat /\ selector \in Nat
    BY <2>1 DEF Ranges, TypeOK
  <2> QED BY <2>1, <2>2, NoneAssumption DEF Running, Blocks, Columns, Rows
<1>2. /\ grid'[<<x, y>>] = <<endpoint, selector>>
      /\ \A b \in Blocks : b # <<x, y>> => grid'[b] = grid[b]
  BY <1>1 DEF Ranges, TypeOK
<1>3. ~Done(<<x, y>>)
  BY <1>1 DEF Ring, RasterOrder, Before
<1>4. /\ \A b \in Blocks : Done(b)' <=> Done(b) \/ b = <<x, y>>
      /\ \A b \in Blocks : TakesSelector(b)' <=> TakesSelector(b)
  <2>1. \A b : PredOf(b)' = PredOf(b)
    BY <1>1 DEF PredOf
  <2> QED BY <1>1, <1>2, <2>1 DEF Done, TakesSelector
<1> SUFFICES ASSUME Running', run' > 0
             PROVE  /\ FromOn(<<x, y>>, rle.from)'
                    /\ Cardinality(RunBlocks)' + run' = rle'.len
                    /\ \A b \in RunBlocks' : SelectorOf(b)' = AmfGet(hist', 0)
  BY DEF RunInv
<1>5. /\ FromOn(<<x, y>>, rle.from) /\ Cardinality(RunBlocks) + run = rle.len
      /\ \A b \in RunBlocks : SelectorOf(b) = AmfGet(hist, 0)
  BY <1>1 DEF RunInv
<1>6. at' = "pred" /\ ((x' = x + 1 /\ y' = y) \/ (x' = 0 /\ y' = y + 1))
  BY DEF Store, Running
<1>7. FromOn(<<x, y>>, rle.from)'
  <2>1. rle.from \in Blocks
    BY DEF Ranges, TypeOK
  <2>2. rle.from[1] \in Nat /\ rle.from[2] \in Nat
    BY <2>1 DEF Blocks, Columns, Rows
  <2> QED BY <1>1, <1>5, <1>6, <2>2 DEF FromOn
<1>8. RunBlocks' = RunBlocks
  <2>1. \A b \in Blocks : FromOn(b, rle.from)' <=> FromOn(b, rle.from)
    BY <1>1 DEF FromOn
  <2>2. \A b \in Blocks : b \in RunBlocks' <=> b \in RunBlocks
    BY <1>1, <1>4, <1>6, <2>1 DEF RunBlocks
  <2>3. RunBlocks' \subseteq Blocks /\ RunBlocks \subseteq Blocks
    BY DEF RunBlocks, Blocks, Columns, Rows
  <2> QED BY <2>2, <2>3
<1>9. \A b \in RunBlocks : SelectorOf(b)' = SelectorOf(b)
  <2>1. \A b \in RunBlocks : b \in Blocks /\ (Done(b) \/ b = <<x, y>>)
    BY DEF RunBlocks
  <2>2. ASSUME NEW b \in Blocks, b = <<x, y>> PROVE SelectorOf(b)' = SelectorOf(b)
    <3>1. Done(b)' /\ ~Done(b)
      BY <1>3, <1>4, <2>2
    <3>2. grid'[b][2] = selector
      BY <1>2, <2>2
    <3> QED BY <3>1, <3>2 DEF SelectorOf
  <2>3. ASSUME NEW b \in Blocks, Done(b) PROVE SelectorOf(b)' = SelectorOf(b)
    BY <1>2, <1>3, <1>4, <2>3 DEF SelectorOf
  <2> QED BY <2>1, <2>2, <2>3
<1> QED BY <1>1, <1>5, <1>7, <1>8, <1>9

\* Every step keeps to the length and the selector of the run.
LEMMA StepRun == Ranges /\ Ring /\ Bits /\ RunInv /\ [Next]_vars => RunInv'
<1> SUFFICES ASSUME Ranges, Ring, Bits, RunInv, [Next]_vars PROVE RunInv'
  OBVIOUS
<1>1. CASE OutOfPalette
  BY <1>1 DEF OutOfPalette, Corrupt, RunInv, Running
<1>2. CASE UNCHANGED vars
  <2>1. UNCHANGED <<at, hist, run, rle, grid, x, y, syms, selector>>
    BY <1>2 DEF vars, preds, sels, store
  <2>2. \A b : /\ Done(b)' = Done(b) /\ TakesSelector(b)' = TakesSelector(b)
               /\ FromOn(b, rle.from)' = FromOn(b, rle.from) /\ SelectorOf(b)' = SelectorOf(b)
    BY <2>1 DEF Done, TakesSelector, PredOf, FromOn, SelectorOf
  <2>3. RunBlocks' = RunBlocks
    BY <2>1, <2>2 DEF RunBlocks, Blocks, Columns, Rows
  <2> QED BY <2>1, <2>2, <2>3 DEF RunInv, Running, AmfGet, FromOn
<1> QED BY <1>1, <1>2, QuietSteps, SelectRun, StoreRun DEF Next

\* A run of n gives its selector to n blocks that take one, whatever blocks are replenished
\* in between, for slices of any size (etc1s.rs:429-451, 476-506).
THEOREM RunCovers == Spec => []RunTakesCodedBlocks
<1>1. Init => RunInv
  BY DEF Init, RunInv
<1>2. RunInv => RunTakesCodedBlocks
  BY DEF RunInv, RunTakesCodedBlocks, SelectorOf
<1> QED BY <1>1, <1>2, StepRun, RangesHold, RingHolds, BitsHold, PTL DEF Spec
=============================================================================
