---------------------------- MODULE ArithDecoder ----------------------------
(***************************************************************************)
(* The arithmetic decoder of XUASTC (xuastc/arith.rs) over any stream: an  *)
(* interval that each decoded symbol narrows and each byte widens again,   *)
(* with an adaptive model of bits and one of symbols.  The probabilities   *)
(* that a symbol is decoded with are a snapshot of the counts, which is    *)
(* taken at intervals of growing length.  A turn of a loop is a step: a    *)
(* byte, a comparison of the search, a halving of the counts of symbols.   *)
(***************************************************************************)
EXTENDS Integers

CONSTANTS
  Radix,       \* values of a byte: 256
  MinLen,      \* ARITH_MIN_LEN: 2^24, so that a byte widens it to the whole word
  BitMax,      \* BM_MAX_COUNT: 2^13
  DataMax,     \* DM_MAX_COUNT: 2^15
  Symbols,     \* num_data_syms
  Shortest,    \* the least update interval: 4
  BitSpan,     \* the greatest of bits: 128
  SymSpan,     \* the greatest of n symbols: (n + 6) * 8
  RawBits,     \* the numbers of equiprobable bits that are read at once
  StreamBytes, FirstValues,  \* bound: the bytes of the stream, and what the first four make
  MaxSymbols   \* bound: decoded symbols

Top == MinLen * Radix
Half == Top \div 2

ASSUME ArithAssumption ==
  /\ Radix \in Nat /\ MinLen \in Nat /\ BitMax \in Nat /\ DataMax \in Nat /\ Symbols \in Nat
  /\ Shortest \in Nat \ {0} /\ BitSpan \in Nat /\ SymSpan \in Nat /\ MaxSymbols \in Nat
  /\ Shortest <= BitSpan /\ Shortest <= SymSpan
  /\ Radix > 1 /\ Symbols > 1 /\ Symbols < DataMax /\ BitSpan + 2 <= BitMax
  /\ BitMax <= MinLen /\ Half % BitMax = 0 /\ DataMax <= MinLen /\ Half % DataMax = 0
  /\ \A n \in RawBits : n \in Nat \ {0} /\ 2 ^ n \in 1 .. MinLen
  /\ StreamBytes \subseteq 0 .. Radix - 1 /\ FirstValues \subseteq 0 .. Top - 1

VARIABLES
  value, length,  \* of ArithDec
  bitModel,       \* a BitModel
  dataModel,      \* a DataModel
  turn,           \* "ready", or the loop of decode_sym that is at work: "search" or "update"
  low, high,      \* low_idx, hi_idx
  got,            \* what was decoded last, and of how many values it is
  strayed,        \* history: the stream is not one that an encoder writes
  decoded         \* counts towards the bound

arithVars == <<value, length, bitModel, dataModel, turn, low, high, got, strayed, decoded>>
searchVars == <<turn, low, high>>

DataSyms == 0 .. Symbols - 1

\* the sums of the frequencies below each symbol, and below the end of the alphabet
SumsBelow(freq) ==
  LET sum[s \in 0 .. Symbols] == IF s = 0 THEN 0 ELSE sum[s - 1] + freq[s - 1]
  IN sum

Clamped(n, longest) == IF n < Shortest THEN Shortest ELSE IF n > longest THEN longest ELSE n
LaterInterval(n, longest) == Clamped((5 * n) \div 4, longest)

(***************************************************************************)
(* Updates of the two models.                                              *)
(***************************************************************************)
\* the bug of a count of bits that may reach any size
NeverHalved(m) == m

\* the counts are halved, rounding up, and stay apart
HalvedBits(m) ==
  LET zero == (m.zero + 1) \div 2
      all == (m.all + 1) \div 2
  IN IF m.all < BitMax THEN m
     ELSE [m EXCEPT !.zero = zero, !.all = IF zero = all THEN all + 1 ELSE all]

UpdatedBits(m) ==
  LET h == HalvedBits(m)
      next == LaterInterval(m.interval, BitSpan)
  IN [h EXCEPT !.prob = (h.zero * (Half \div h.all)) \div (Half \div BitMax),
               !.interval = next, !.left = next]

\* all frequencies are halved, rounding up
HalvedSyms(m) ==
  LET freq == [s \in DataSyms |-> (m.freq[s] + 1) \div 2]
  IN [m EXCEPT !.freq = freq, !.total = SumsBelow(freq)[Symbols]]

\* what is decoded with from now on
Snapshot(m) ==
  LET scale == Half \div m.total
      next == LaterInterval(m.interval, SymSpan)
  IN [m EXCEPT
       !.cum = [s \in 0 .. Symbols |->
                 IF s = Symbols THEN DataMax
                 ELSE (scale * SumsBelow(m.freq)[s]) \div (Half \div DataMax)],
       !.interval = next, !.left = next]

\* a new model, and one that is updated sooner (`faster_update`)
FreshSyms ==
  Snapshot([freq |-> [s \in DataSyms |-> 1], total |-> Symbols, interval |-> Symbols, left |-> 0,
            cum |-> [s \in 0 .. Symbols |-> 0]])
FasterSyms ==
  LET sooner == Clamped((Symbols + 7) \div 8, SymSpan)
  IN [FreshSyms EXCEPT !.interval = sooner, !.left = sooner]

ArithInit ==
  /\ value \in FirstValues /\ length = Top - 1
  /\ bitModel = [zero |-> 1, all |-> 2, prob |-> BitMax \div 2,
                 interval |-> Shortest, left |-> Shortest]
  /\ dataModel \in {FreshSyms, FasterSyms}
  /\ turn = "ready" /\ low = 0 /\ high = Symbols
  /\ got = [of |-> 1, sym |-> 0]
  /\ strayed = (value >= length)
  /\ decoded = 0

(***************************************************************************)
(* Decoding.  A symbol takes its part of the interval; when the part is    *)
(* too short, bytes are shifted in before the next symbol.                 *)
(***************************************************************************)
Wide == length >= MinLen
Ready == turn = "ready" /\ Wide /\ decoded < MaxSymbols
Narrow(from, to) == value' = value - from /\ length' = to - from
Returns(n, sym) == got' = [of |-> n, sym |-> sym] /\ decoded' = decoded + 1

Renorm(byte) ==
  /\ ~Wide
  /\ value' = (value * Radix + byte) % Top
  /\ length' = (length * Radix) % Top
  /\ UNCHANGED <<bitModel, dataModel, searchVars, got, strayed, decoded>>

\* one equiprobable bit: of an odd interval the last value is left over
GetBit ==
  LET part == length \div 2
      bit == IF value >= part THEN 1 ELSE 0
  IN /\ Ready
     /\ value' = value - part * bit /\ length' = part
     /\ strayed' = (strayed \/ value >= 2 * part)
     /\ Returns(2, bit)
     /\ UNCHANGED <<bitModel, dataModel, searchVars>>

\* n of them: what is left over of the interval belongs to no value
GetRaw(n) ==
  LET part == length \div 2 ^ n
      v == value \div part
  IN /\ Ready
     /\ value' = value - part * v /\ length' = part
     /\ strayed' = (strayed \/ v >= 2 ^ n)
     /\ Returns(2 ^ n, v)
     /\ UNCHANGED <<bitModel, dataModel, searchVars>>

DecodeBit ==
  LET x == bitModel.prob * (length \div BitMax)
      bit == IF value >= x THEN 1 ELSE 0
      m == [bitModel EXCEPT !.zero = @ + 1 - bit, !.all = @ + 1, !.left = @ - 1]
  IN /\ Ready
     /\ IF bit = 0 THEN Narrow(0, x) ELSE Narrow(x, length)
     /\ bitModel' = IF m.left <= 0 THEN UpdatedBits(m) ELSE m
     /\ Returns(2, bit)
     /\ UNCHANGED <<dataModel, searchVars, strayed>>

\* where the part of symbol s starts
PartAt(s) == (length \div DataMax) * dataModel.cum[s]

PartEnd(s) == IF s = Symbols THEN length ELSE PartAt(s)

(***************************************************************************)
(* A symbol is found by a binary search for the part that the value is in. *)
(***************************************************************************)
Mid == (low + high) \div 2

SearchStarts ==
  /\ Ready
  /\ turn' = "search" /\ low' = 0 /\ high' = Symbols
  /\ UNCHANGED <<value, length, bitModel, dataModel, got, strayed, decoded>>

\* the bug of a comparison that takes the end of a part for its inside
Reaches(z) == z >= value

Exceeds(z) == z > value

SearchGoesOn ==
  /\ turn = "search" /\ Mid # low
  /\ IF Exceeds(PartAt(Mid))
     THEN high' = Mid /\ UNCHANGED low
     ELSE low' = Mid /\ UNCHANGED high
  /\ UNCHANGED <<value, length, bitModel, dataModel, turn, got, strayed, decoded>>

SearchEnds ==
  LET m == [dataModel EXCEPT !.freq[low] = @ + 1, !.total = @ + 1, !.left = @ - 1]
  IN /\ turn = "search" /\ Mid = low
     /\ Narrow(PartAt(low), PartEnd(high))
     /\ dataModel' = m
     /\ turn' = IF m.left <= 0 THEN "update" ELSE "ready"
     /\ Returns(Symbols, low)
     /\ UNCHANGED <<bitModel, low, high, strayed>>

\* the update halves the frequencies until their total is small enough
Update ==
  /\ turn = "update" /\ Wide
  /\ IF dataModel.total >= DataMax
     THEN dataModel' = HalvedSyms(dataModel) /\ UNCHANGED turn
     ELSE dataModel' = Snapshot(dataModel) /\ turn' = "ready"
  /\ UNCHANGED <<value, length, bitModel, low, high, got, strayed, decoded>>

ArithNext ==
  \/ \E byte \in StreamBytes : Renorm(byte)
  \/ GetBit
  \/ \E n \in RawBits : GetRaw(n)
  \/ DecodeBit
  \/ SearchStarts
  \/ SearchGoesOn
  \/ SearchEnds
  \/ Update

ArithSpec == ArithInit /\ [][ArithNext]_arithVars

-----------------------------------------------------------------------------
(***************************************************************************)
(* Properties.                                                             *)
(***************************************************************************)

\* Every value of every model has a part of the interval, however long the counts have
\* grown and whenever they were halved, so the interval never becomes empty and the
\* loop that widens it ends (arith.rs:46-60, 111-132, 164-181): the scale is rounded
\* down, and at the largest counts only just leaves one for the rarest.
IntervalNeverEmpty ==
  /\ length \in 1 .. Top - 1
  /\ bitModel.prob \in 1 .. BitMax - 1
  /\ dataModel.cum[0] = 0 /\ dataModel.cum[Symbols] = DataMax
  /\ \A s \in DataSyms : dataModel.cum[s] < dataModel.cum[s + 1]

\* A value inside the interval stays inside it, and the symbol is one of its alphabet, as
\* long as the stream is one that an encoder could have written.  It strays only
\* where equiprobable bits read what the division left over (arith.rs:181-200).
DecodesInside == ~strayed => value < length /\ got.sym \in 0 .. got.of - 1
=============================================================================
