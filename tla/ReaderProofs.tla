---------------------------- MODULE ReaderProofs ----------------------------
(***************************************************************************)
(* Proofs about the two readers of a compressed stream: BitReader for      *)
(* every width, split, look-ahead, stream and sequence of reads, and       *)
(* ArithDecoder for every radix, interval, alphabet and stream.            *)
(***************************************************************************)
EXTENDS BitReader, ArithDecoder, Numbers

-----------------------------------------------------------------------------
(***************************************************************************)
(* The bit reader. Its invariant bounds the buffer by what the call wants: *)
(* the last refill starts below that and adds one byte.                    *)
(***************************************************************************)

Cells == SUBSET Nat
Calls == [op : {"idle", "get", "huffman", "rice"}, want : 0 .. Split, rest : 0 .. 2 * Split]

ReaderTypes ==
  /\ pos \in 0 .. Bytes
  /\ bitBuf \in [0 .. Width - 1 -> Cells]
  /\ bitBufSize \in 0 .. Split + 7
  /\ taken \in Nat /\ start \in Nat
  /\ out \in Seq(Cells)
  /\ call \in Calls

\* the second part of a read fits, and codes are looked at through `Look` bits
CallFits ==
  /\ call.op = "get" => call.rest <= Split
  /\ call.op \in {"huffman", "rice"} => call.want = Look

\* bits in hand are those of the bytes read, and padding only after the last byte and
\* only as much as a call asked for
PaddingIsShort ==
  /\ taken + bitBufSize >= 8 * pos
  /\ pos < Bytes => taken + bitBufSize = 8 * pos
  /\ taken + bitBufSize # 8 * pos =>
       bitBufSize <= (IF call.want < Look THEN Look ELSE call.want) + 7

ReaderInv == ReaderTypes /\ CallFits /\ PaddingIsShort /\ ReadsInOrder

\* The assumptions on the constants, under one name.
Lengths ==
  /\ Width \in Nat /\ Split \in Nat /\ Look \in Nat /\ Bytes \in Nat /\ MaxTaken \in Nat
  /\ Look <= Split /\ Split + 7 <= Width
  /\ Reads \subseteq 0 .. 2 * Split

\* The assumptions on the constants, under one name.
LEMMA LengthsFact == Lengths
BY ReaderAssumption DEF Lengths

\* A reader starts with an empty buffer, where nothing has been taken.
LEMMA InitReader == ReaderInit => ReaderInv
<1> SUFFICES ASSUME ReaderInit PROVE ReaderInv
  OBVIOUS
<1>1. ReaderTypes
  BY LengthsFact DEF ReaderInit, ReaderTypes, Cells, Calls, Idle, Lengths
<1>2. CallFits
  BY DEF ReaderInit, CallFits, Idle
<1>3. PaddingIsShort
  BY LengthsFact DEF ReaderInit, PaddingIsShort, Lengths
<1>4. ReadsInOrder
  BY LengthsFact DEF ReaderInit, ReadsInOrder, BufferIsNextBits, OutIsNextBits, Lengths
<1> QED BY <1>1, <1>2, <1>3, <1>4 DEF ReaderInv

\* A call leaves the buffer alone.
LEMMA CallKeeps ==
  ASSUME ReaderInv, NEW op \in {"get", "huffman", "rice"}, NEW want \in 0 .. Split,
         NEW rest \in 0 .. 2 * Split,
         op = "get" => rest <= Split, op \in {"huffman", "rice"} => want = Look,
         Call(op, want, rest)
  PROVE  ReaderInv'
<1>1. /\ UNCHANGED <<pos, bitBuf, bitBufSize, taken>>
      /\ start' = taken /\ out' = << >> /\ call = Idle
      /\ call' = [op |-> op, want |-> want, rest |-> rest]
  BY DEF Call
<1>2. ReaderTypes'
  BY <1>1 DEF ReaderInv, ReaderTypes, Calls
<1>3. CallFits'
  BY <1>1 DEF CallFits
<1>4. PaddingIsShort'
  BY <1>1, LengthsFact DEF ReaderInv, ReaderTypes, PaddingIsShort, Calls, Idle, Lengths
<1>5. ReadsInOrder'
  BY <1>1 DEF ReaderInv, ReaderTypes, ReadsInOrder, BufferIsNextBits, OutIsNextBits
<1> QED BY <1>2, <1>3, <1>4, <1>5 DEF ReaderInv

\* A long read is split into parts that fit.
LEMMA PartsFit ==
  ASSUME NEW n \in 0 .. 2 * Split
  PROVE  FirstPart(n) \in 0 .. Split /\ n - FirstPart(n) \in 0 .. Split
BY LengthsFact DEF FirstPart, Lengths

\* A refill or-s the next byte in above the valid bits, and nothing is pushed out.
LEMMA RefillKeeps ==
  ASSUME ReaderInv, Refill
  PROVE  ReaderInv'
<1>1. /\ bitBufSize < call.want /\ bitBufSize' = bitBufSize + 8
      /\ UNCHANGED <<call, taken, start, out>>
  BY DEF Refill, RefillAt
<1>2. /\ pos \in 0 .. Bytes /\ bitBufSize \in Nat /\ taken \in Nat /\ call.want \in 0 .. Split
      /\ bitBuf \in [0 .. Width - 1 -> Cells]
      /\ Width \in Nat /\ Split \in Nat /\ Bytes \in Nat /\ Look \in Nat /\ Split + 7 <= Width
  BY LengthsFact DEF ReaderInv, ReaderTypes, Calls, Lengths
<1>3. ReaderTypes'
  <2>1. pos' \in 0 .. Bytes
    BY <1>2 DEF Refill
  <2>2. bitBufSize' \in 0 .. Split + 7
    BY <1>1, <1>2
  <2>3. bitBuf' \in [0 .. Width - 1 -> Cells]
    <3>1. \A i \in 0 .. Width - 1 :
            i \in bitBufSize .. bitBufSize + 7 => 8 * pos + (i - bitBufSize) + 1 \in Nat
      BY <1>2
    <3> QED BY <1>2, <3>1 DEF Refill, Cells
  <2> QED BY <1>1, <2>1, <2>2, <2>3 DEF ReaderInv, ReaderTypes
<1>4. CallFits'
  BY <1>1 DEF ReaderInv, CallFits
<1>5. PaddingIsShort'
  BY <1>1, <1>2 DEF Refill, ReaderInv, PaddingIsShort
<1>6. BufferIsNextBits'
  <2> SUFFICES ASSUME NEW i \in 0 .. Width - 1
               PROVE  bitBuf'[i] = IF i < bitBufSize' THEN StreamBit(taken + i + 1) ELSE {}
    BY <1>1 DEF BufferIsNextBits, StreamBit
  <2>1. bitBuf[i] = IF i < bitBufSize THEN StreamBit(taken + i + 1) ELSE {}
    BY DEF ReaderInv, ReadsInOrder, BufferIsNextBits
  <2>2. CASE i \in bitBufSize .. bitBufSize + 7 /\ pos < Bytes
    <3>1. 8 * pos + (i - bitBufSize) + 1 = taken + i + 1 /\ taken + i + 1 <= 8 * Bytes
      BY <1>2, <2>2 DEF ReaderInv, PaddingIsShort
    <3>2. bitBuf'[i] = {taken + i + 1}
      BY <1>2, <2>1, <2>2, <3>1 DEF Refill
    <3> QED BY <1>1, <1>2, <2>2, <3>1, <3>2 DEF StreamBit
  <2>3. CASE i \in bitBufSize .. bitBufSize + 7 /\ ~(pos < Bytes)
    <3>1. taken + i + 1 > 8 * Bytes
      BY <1>2, <2>3 DEF ReaderInv, PaddingIsShort
    <3>2. bitBuf'[i] = {}
      BY <1>2, <2>1, <2>3 DEF Refill
    <3> QED BY <1>2, <3>1, <3>2 DEF StreamBit
  <2>4. CASE i \notin bitBufSize .. bitBufSize + 7
    <3>1. bitBuf'[i] = bitBuf[i]
      BY <2>4 DEF Refill
    <3> QED BY <1>1, <1>2, <2>1, <2>4, <3>1
  <2> QED BY <2>2, <2>3, <2>4
<1>7. OutIsNextBits'
  BY <1>1 DEF ReaderInv, ReadsInOrder, OutIsNextBits, StreamBit
<1> QED BY <1>3, <1>4, <1>5, <1>6, <1>7 DEF ReaderInv, ReadsInOrder

\* What is taken is appended.
LEMMA Appended ==
  ASSUME NEW s \in Seq(Cells), NEW t \in Seq(Cells)
  PROVE  /\ s \o t \in Seq(Cells) /\ Len(s \o t) = Len(s) + Len(t)
         /\ \A i \in 1 .. Len(s) : (s \o t)[i] = s[i]
         /\ \A i \in 1 .. Len(t) : (s \o t)[Len(s) + i] = t[i]
OBVIOUS

\* Taking no more than the call wants gives the next bits and leaves the ones after them.
LEMMA TakeKeeps ==
  ASSUME ReaderInv, NEW k \in 0 .. Split, k <= call.want, Take(k),
         call' \in Calls,
         CallFits', k = call.want \/ call.want = Look
  PROVE  ReaderInv'
<1>1. /\ bitBufSize >= call.want /\ bitBufSize' = bitBufSize - k /\ taken' = taken + k
      /\ UNCHANGED <<pos, start>>
      /\ out' = out \o [i \in 1 .. k |-> bitBuf[i - 1]]
      /\ bitBuf' = [i \in 0 .. Width - 1 |-> IF i + k < Width THEN bitBuf[i + k] ELSE {}]
  <2>1. bitBufSize \in Int /\ call.want \in Int
    BY LengthsFact DEF ReaderInv, ReaderTypes, Calls, Lengths
  <2> QED BY <2>1 DEF Take, RefillAt
<1>2. /\ pos \in 0 .. Bytes /\ bitBufSize \in 0 .. Split + 7 /\ taken \in Nat /\ start \in Nat
      /\ call.want \in 0 .. Split /\ k \in Nat
      /\ bitBuf \in [0 .. Width - 1 -> Cells] /\ out \in Seq(Cells)
      /\ Width \in Nat /\ Split \in Nat /\ Bytes \in Nat /\ Look \in Nat
      /\ Split + 7 <= Width /\ Look <= Split
  BY LengthsFact DEF ReaderInv, ReaderTypes, Calls, Lengths
<1>3. \A i \in 0 .. Width - 1 : bitBuf[i] = IF i < bitBufSize THEN StreamBit(taken + i + 1) ELSE {}
  BY DEF ReaderInv, ReadsInOrder, BufferIsNextBits
<1> DEFINE part == [i \in 1 .. k |-> bitBuf[i - 1]]
<1>4. part \in Seq(Cells) /\ Len(part) = k
  <2>1. \A i \in 1 .. k : i - 1 \in 0 .. Width - 1
    BY <1>2
  <2>2. \A i \in 1 .. k : bitBuf[i - 1] \in Cells
    BY <1>2, <2>1
  <2>3. part \in [1 .. k -> Cells]
    BY <2>2
  <2> QED BY <1>2, <2>3
<1>5. \A i \in 1 .. k : part[i] = StreamBit(taken + i)
  <2> SUFFICES ASSUME NEW i \in 1 .. k PROVE part[i] = StreamBit(taken + i)
    OBVIOUS
  <2>1. i - 1 \in 0 .. Width - 1 /\ i - 1 < bitBufSize /\ taken + (i - 1) + 1 = taken + i
    BY <1>1, <1>2
  <2> QED BY <1>3, <2>1
<1> HIDE DEF part
<1>6. out' = out \o part
  BY <1>1 DEF part
<1>7. OutIsNextBits'
  <2>1. Len(out) = taken - start /\ \A i \in 1 .. Len(out) : out[i] = StreamBit(start + i)
    BY DEF ReaderInv, ReadsInOrder, OutIsNextBits
  <2>2. Len(out') = Len(out) + k
    BY <1>2, <1>4, <1>6, Appended
  <2>3. ASSUME NEW i \in 1 .. Len(out) + k PROVE out'[i] = StreamBit(start + i)
    <3>1. CASE i <= Len(out)
      BY <1>2, <1>4, <1>6, <2>1, <3>1
    <3>2. CASE i > Len(out)
      <4>1. Len(out) \in Nat
        BY <1>2
      <4>2. i - Len(out) \in 1 .. k /\ taken + (i - Len(out)) = start + i
        BY <1>2, <2>1, <3>2, <4>1
      <4>3. out'[i] = part[i - Len(out)]
        BY <1>2, <1>4, <1>6, <3>2, <4>1
      <4> QED BY <1>5, <4>2, <4>3
    <3> QED BY <1>2, <3>1, <3>2
  <2>4. Len(out') = taken' - start'
    BY <1>1, <1>2, <2>1, <2>2
  <2> QED BY <1>1, <2>2, <2>3, <2>4 DEF OutIsNextBits, StreamBit
<1>8. BufferIsNextBits'
  <2> SUFFICES ASSUME NEW i \in 0 .. Width - 1
               PROVE  bitBuf'[i] = IF i < bitBufSize' THEN StreamBit(taken' + i + 1) ELSE {}
    BY DEF BufferIsNextBits, StreamBit
  <2>1. CASE i + k < Width
    <3>1. i + k \in 0 .. Width - 1 /\ taken + (i + k) + 1 = taken' + i + 1
      BY <1>1, <1>2, <2>1
    <3>2. bitBuf'[i] = bitBuf[i + k]
      BY <1>1, <2>1
    <3>3. i + k < bitBufSize <=> i < bitBufSize'
      BY <1>1, <1>2
    <3> QED BY <1>3, <3>1, <3>2, <3>3
  <2>2. CASE ~(i + k < Width)
    BY <1>1, <1>2, <2>2
  <2> QED BY <2>1, <2>2
<1>9. ReaderTypes'
  <2>1. out' \in Seq(Cells)
    BY <1>2, <1>4, <1>6, Appended
  <2>2. bitBuf' \in [0 .. Width - 1 -> Cells]
    BY <1>1, <1>2 DEF Cells
  <2>3. bitBufSize' \in 0 .. Split + 7 /\ taken' \in Nat
    BY <1>1, <1>2
  <2> QED BY <1>1, <1>2, <2>1, <2>2, <2>3 DEF ReaderTypes
<1>10. PaddingIsShort'
  <2>1. taken' + bitBufSize' = taken + bitBufSize
    BY <1>1, <1>2
  <2>2. PICK w \in 0 .. Split : w = call'.want
    BY DEF Calls
  <2>3. taken + bitBufSize # 8 * pos => bitBufSize - k <= Look + 7
    BY <1>1, <1>2 DEF ReaderInv, PaddingIsShort
  <2>4. taken' + bitBufSize' # 8 * pos' => bitBufSize' <= (IF w < Look THEN Look ELSE w) + 7
    BY <1>1, <1>2, <2>1, <2>3
  <2> QED BY <1>1, <1>2, <2>1, <2>2, <2>4 DEF ReaderInv, PaddingIsShort
<1> QED BY <1>7, <1>8, <1>9, <1>10 DEF ReaderInv, ReadsInOrder

\* Every step keeps the invariant.
LEMMA NextReader == ReaderInv /\ [ReaderNext]_readerVars => ReaderInv'
<1> SUFFICES ASSUME ReaderInv, [ReaderNext]_readerVars PROVE ReaderInv'
  OBVIOUS
<1>1. /\ call \in Calls
      /\ call.want \in 0 .. Split /\ call.rest \in 0 .. 2 * Split
      /\ Look \in 0 .. Split /\ Split \in Nat
  BY LengthsFact DEF ReaderInv, ReaderTypes, Calls, Lengths
<1>2. ASSUME NEW n \in Reads, GetBits(n) PROVE ReaderInv'
  <2>1. n \in 0 .. 2 * Split
    BY LengthsFact DEF Lengths
  <2>2. PICK w \in 0 .. Split : w = FirstPart(n)
    BY <2>1, PartsFit
  <2>3. PICK r \in 0 .. Split : r = n - w
    BY <2>1, <2>2, PartsFit
  <2>4. r \in 0 .. 2 * Split /\ r <= Split
    BY <1>1
  <2> QED BY <1>2, <2>2, <2>3, <2>4, CallKeeps DEF GetBits
<1>3. ASSUME NEW n \in Reads, n + 1 \in Reads, DecodeRice(n) PROVE ReaderInv'
  <2>1. n + 1 \in 0 .. 2 * Split
    BY <1>3, LengthsFact DEF Lengths
  <2> QED BY <1>1, <1>3, <2>1, CallKeeps DEF DecodeRice
<1>4. CASE DecodeHuffman
  <2>1. 0 \in 0 .. 2 * Split
    BY <1>1
  <2> QED BY <1>1, <1>4, <2>1, CallKeeps DEF DecodeHuffman
<1>5. CASE Refill
  BY <1>5, RefillKeeps
<1>6. CASE GetFirstPart
  <2>1. call.op = "get" /\ call.rest \in 0 .. Split /\ Take(call.want)
        /\ call' = [call EXCEPT !.want = call.rest, !.rest = 0]
    BY <1>1, <1>6 DEF GetFirstPart, ReaderInv, CallFits, Calls
  <2>2. call' \in Calls
    <3>1. call' = [op |-> "get", want |-> call.rest, rest |-> 0]
      BY <1>1, <2>1 DEF Calls
    <3>2. 0 \in 0 .. 2 * Split
      BY <1>1
    <3> QED BY <2>1, <3>1, <3>2 DEF Calls
  <2>3. CallFits'
    BY <1>1, <2>1 DEF CallFits
  <2>4. PICK k \in 0 .. Split : k = call.want
    BY <1>1
  <2> QED BY <1>1, <2>1, <2>2, <2>3, <2>4, TakeKeeps
<1>7. CASE GetEnds
  <2>1. Take(call.want) /\ call' = Idle
    BY <1>7 DEF GetEnds
  <2>2. /\ Idle \in Calls
        /\ CallFits'
    BY <1>1, <2>1 DEF CallFits, Calls, Idle
  <2>3. PICK k \in 0 .. Split : k = call.want
    BY <1>1
  <2> QED BY <1>1, <2>1, <2>2, <2>3, TakeKeeps
<1>8. ASSUME NEW k \in 0 .. Look, HuffmanEnds(k) PROVE ReaderInv'
  <2>1. Take(k) /\ call' = Idle /\ call.want = Look /\ k \in 0 .. Split /\ k <= call.want
    BY <1>1, <1>8 DEF HuffmanEnds, ReaderInv, CallFits
  <2>2. /\ Idle \in Calls
        /\ CallFits'
    BY <1>1, <2>1 DEF CallFits, Calls, Idle
  <2> QED BY <2>1, <2>2, TakeKeeps
<1>9. CASE RiceGoesOn
  <2>1. Take(Look) /\ call' = call /\ call.want = Look /\ CallFits'
    BY <1>1, <1>9 DEF RiceGoesOn, ReaderInv, CallFits
  <2> QED BY <1>1, <2>1, TakeKeeps
<1>10. ASSUME NEW l \in 0 .. Look - 1, RiceRemainder(l) PROVE ReaderInv'
  <2>1. /\ Take(l) /\ call.want = Look /\ l \in 0 .. Split /\ l <= call.want
        /\ call' = [op |-> "get", want |-> FirstPart(call.rest),
                    rest |-> call.rest - FirstPart(call.rest)]
    BY <1>1, <1>10 DEF RiceRemainder, ReaderInv, CallFits
  <2>2. PICK r \in 0 .. 2 * Split : r = call.rest
    BY <1>1
  <2>3. FirstPart(r) \in 0 .. Split /\ r - FirstPart(r) \in 0 .. Split
    BY PartsFit
  <2>4. r - FirstPart(r) \in 0 .. 2 * Split /\ r - FirstPart(r) <= Split
    BY <1>1, <2>3
  <2>5. call' = [op |-> "get", want |-> FirstPart(r), rest |-> r - FirstPart(r)]
    BY <2>1, <2>2
  <2>6. /\ call' \in Calls
        /\ CallFits'
    BY <2>3, <2>4, <2>5 DEF CallFits, Calls
  <2> QED BY <2>1, <2>6, TakeKeeps
<1>11. CASE UNCHANGED readerVars
  BY <1>11 DEF readerVars, ReaderInv, ReaderTypes, CallFits, PaddingIsShort, ReadsInOrder,
               BufferIsNextBits, OutIsNextBits
<1> QED BY <1>2, <1>3, <1>4, <1>5, <1>6, <1>7, <1>8, <1>9, <1>10, <1>11 DEF ReaderNext

\* The invariant holds throughout.
LEMMA ReaderInvariant == ReaderSpec => []ReaderInv
BY InitReader, NextReader, PTL DEF ReaderSpec

\* Every read returns the next bits of the stream in order, for every split and look-ahead
\* that leave room for a byte (basislz/decoder.rs:81-118, 141-156, 185-214).
THEOREM ReadsAreInOrder == ReaderSpec => []ReadsInOrder
<1>1. ReaderInv => ReadsInOrder
  BY DEF ReaderInv
<1> QED BY <1>1, ReaderInvariant, PTL

\* bits_remaining never reports less than is left, and more only when down to what one look
\* leaves over (basislz/decoder.rs:122-124).
THEOREM RemainingClose == ReaderSpec => []RemainingIsClose
<1>1. ReaderInv => RemainingIsClose
  <2> SUFFICES ASSUME ReaderInv PROVE RemainingIsClose
    OBVIOUS
  <2>1. /\ pos \in 0 .. Bytes /\ bitBufSize \in Nat /\ taken \in Nat
        /\ Bytes \in Nat /\ Look \in Nat /\ Split \in Nat
    BY LengthsFact DEF ReaderInv, ReaderTypes, Calls, Lengths
  <2>2. (Bytes - pos) * 8 = 8 * Bytes - 8 * pos
    BY <2>1
  <2>3. BitsRemaining >= 8 * Bytes - taken
    BY <2>1, <2>2 DEF ReaderInv, PaddingIsShort, BitsRemaining
  <2>4. ASSUME call = Idle, BitsRemaining > Look + 7
        PROVE  BitsRemaining = 8 * Bytes - taken
    <3>1. taken + bitBufSize # 8 * pos => pos = Bytes /\ bitBufSize <= Look + 7
      BY <2>1, <2>4 DEF ReaderInv, PaddingIsShort, Idle
    <3> QED BY <2>1, <2>2, <2>4, <3>1 DEF BitsRemaining
  <2> QED BY <2>3, <2>4 DEF RemainingIsClose
<1> QED BY <1>1, ReaderInvariant, PTL

-----------------------------------------------------------------------------
(***************************************************************************)
(* The arithmetic decoder. What a snapshot is built from is a recursive    *)
(* sum of counts: its facts are proved by induction, and the rest is what  *)
(* divisions keep of an order.                                             *)
(***************************************************************************)

-----------------------------------------------------------------------------
(***************************************************************************)
(* The constants.                                                          *)
(***************************************************************************)
BitUnit == Half \div BitMax
DataUnit == Half \div DataMax

\* The assumptions on the constants, and what half the interval is in the units that
\* probabilities are counted in.
Sizes ==
  /\ Radix \in Nat /\ MinLen \in Nat /\ BitMax \in Nat /\ DataMax \in Nat /\ Symbols \in Nat
  /\ Shortest \in Nat \ {0} /\ BitSpan \in Nat /\ SymSpan \in Nat /\ MaxSymbols \in Nat
  /\ Shortest <= BitSpan /\ Shortest <= SymSpan
  /\ Radix > 1 /\ Symbols > 1 /\ Symbols < DataMax /\ BitSpan + 2 <= BitMax
  /\ BitMax <= MinLen /\ DataMax <= MinLen
  /\ StreamBytes \subseteq 0 .. Radix - 1 /\ FirstValues \subseteq 0 .. Top - 1
  /\ Top \in Nat /\ MinLen < Top
  /\ Half \in Nat /\ MinLen <= Half
  /\ BitUnit \in Nat \ {0} /\ Half = BitMax * BitUnit
  /\ DataUnit \in Nat \ {0} /\ Half = DataMax * DataUnit

\* The assumptions on the constants, and what half the interval is in the units that
\* probabilities are counted in.
LEMMA SizesFact == Sizes
<1>1. /\ Radix \in Nat /\ MinLen \in Nat /\ Radix >= 2 /\ MinLen >= 1
      /\ BitMax \in Nat \ {0} /\ DataMax \in Nat \ {0}
      /\ BitMax <= MinLen /\ DataMax <= MinLen
      /\ Half % BitMax = 0 /\ Half % DataMax = 0
  BY ArithAssumption DEF ArithAssumption
<1>2. MinLen * 2 <= MinLen * Radix /\ MinLen * Radix \in Nat
  BY <1>1, Products
<1>3. Top \in Nat /\ MinLen < Top /\ Half \in Nat /\ MinLen <= Half
  BY <1>1, <1>2 DEF Top, Half
<1>4. BitUnit \in Nat /\ Half = BitMax * BitUnit
  BY <1>1, <1>3, Division, Exact DEF BitUnit
<1>5. DataUnit \in Nat /\ Half = DataMax * DataUnit
  BY <1>1, <1>3, Division, Exact DEF DataUnit
<1>6. BitUnit # 0 /\ DataUnit # 0
  BY <1>1, <1>3, <1>4, <1>5
<1> QED BY <1>1, <1>3, <1>4, <1>5, <1>6, ArithAssumption DEF Sizes, ArithAssumption

-----------------------------------------------------------------------------
(***************************************************************************)
(* Sums of frequencies.                                                    *)
(***************************************************************************)
Freqs == [DataSyms -> Nat]

\* There is a function of the sums.
LEMMA SumsExist ==
  ASSUME NEW freq \in Freqs
  PROVE  \E g \in [0 .. Symbols -> Nat] :
           g = [s \in 0 .. Symbols |-> IF s = 0 THEN 0 ELSE g[s - 1] + freq[s - 1]]
<1> DEFINE add == [x \in (0 .. Symbols - 1) \X Nat |-> x[2] + freq[x[1]]]
<1>1. Symbols \in Nat
  BY SizesFact DEF Sizes
<1>2. add \in [(0 .. Symbols - 1) \X Nat -> Nat]
  BY DEF Freqs, DataSyms
<1>3. PICK g : g \in [0 .. Symbols -> Nat] /\ Recurs(g, Symbols, 0, add)
  <2> HIDE DEF add
  <2> QED BY <1>1, <1>2, Recursion
<1>4. \A n \in 0 .. Symbols - 1 : g[n + 1] = g[n] + freq[n]
  <2>1. \A n \in 0 .. Symbols - 1 : \A k \in Nat : add[<<n, k>>] = k + freq[n]
    OBVIOUS
  <2>2. \A n \in 0 .. Symbols - 1 : g[n] \in Nat
    BY <1>1, <1>3
  <2> HIDE DEF add
  <2> QED BY <1>3, <2>1, <2>2 DEF Recurs
<1>5. ASSUME NEW s \in 0 .. Symbols
      PROVE  g[s] = IF s = 0 THEN 0 ELSE g[s - 1] + freq[s - 1]
  <2>1. s # 0 => s - 1 \in 0 .. Symbols - 1 /\ (s - 1) + 1 = s
    BY <1>1
  <2> QED BY <1>3, <1>4, <2>1 DEF Recurs
<1> QED BY <1>3, <1>5

\* The sums below each symbol are what the loop of the update adds up.
LEMMA SumsAre ==
  ASSUME NEW freq \in Freqs
  PROVE  /\ SumsBelow(freq) \in [0 .. Symbols -> Nat]
         /\ SumsBelow(freq)[0] = 0
         /\ \A s \in DataSyms : SumsBelow(freq)[s + 1] = SumsBelow(freq)[s] + freq[s]
<1>1. PICK g \in [0 .. Symbols -> Nat] :
        g = [s \in 0 .. Symbols |-> IF s = 0 THEN 0 ELSE g[s - 1] + freq[s - 1]]
  BY SumsExist
<1> DEFINE sum == SumsBelow(freq)
<1>2. sum = [s \in 0 .. Symbols |-> IF s = 0 THEN 0 ELSE sum[s - 1] + freq[s - 1]]
  BY <1>1 DEF SumsBelow
<1> HIDE DEF sum
<1> USE SizesFact DEF Sizes
<1>3. sum[0] = 0
  BY <1>2
<1>4. ASSUME NEW s \in DataSyms PROVE sum[s + 1] = sum[s] + freq[s]
  <2>1. s + 1 \in 0 .. Symbols /\ s + 1 # 0 /\ (s + 1) - 1 = s
    BY DEF DataSyms
  <2> QED BY <1>2, <2>1
<1> DEFINE T == {n \in Nat : n <= Symbols => sum[n] \in Nat}
<1>5. 0 \in T
  BY <1>3
<1>6. ASSUME NEW n \in T PROVE n + 1 \in T
  <2> SUFFICES ASSUME n + 1 <= Symbols PROVE sum[n + 1] \in Nat
    OBVIOUS
  <2>1. n \in DataSyms /\ freq[n] \in Nat /\ sum[n] \in Nat
    BY DEF DataSyms, Freqs
  <2> QED BY <1>4, <2>1
<1>7. T = Nat
  <2> HIDE DEF T
  <2>1. T \in SUBSET Nat
    BY DEF T
  <2> QED BY <1>5, <1>6, <2>1, SetInduction
<1>8. \A s \in 0 .. Symbols : sum[s] \in Nat
  BY <1>7
<1>9. sum \in [0 .. Symbols -> Nat]
  BY <1>2, <1>8
<1> QED BY <1>3, <1>4, <1>9 DEF sum

\* Induction over the ends of the symbols.
LEMMA UpToTheEnd ==
  ASSUME NEW T \in SUBSET (0 .. Symbols), 0 \in T, \A n \in DataSyms : n \in T => n + 1 \in T
  PROVE  T = 0 .. Symbols
BY InductionUpTo, SizesFact DEF Sizes, DataSyms

\* The sum below a symbol and its own frequency are within the total.
LEMMA SumsGrow ==
  ASSUME NEW freq \in Freqs, NEW s \in DataSyms
  PROVE  SumsBelow(freq)[s] + freq[s] <= SumsBelow(freq)[Symbols]
<1> DEFINE sum == SumsBelow(freq)
           T == {n \in 0 .. Symbols : n > s => sum[s] + freq[s] <= sum[n]}
<1> HIDE DEF sum
<1> USE SizesFact DEF Sizes
<1>1. /\ sum \in [0 .. Symbols -> Nat]
      /\ \A t \in DataSyms : sum[t + 1] = sum[t] + freq[t] /\ freq[t] \in Nat
  BY SumsAre DEF sum, Freqs
<1>2. 0 \in T
  BY DEF DataSyms
<1>3. ASSUME NEW n \in DataSyms, n \in T PROVE n + 1 \in T
  <2>1. n + 1 \in 0 .. Symbols /\ sum[n + 1] = sum[n] + freq[n] /\ sum[n] \in Nat /\ freq[n] \in Nat
    BY <1>1 DEF DataSyms
  <2>2. CASE n = s
    BY <2>1, <2>2
  <2>3. CASE n # s
    <3>1. n > s => sum[s] + freq[s] <= sum[n]
      BY <1>3
    <3>2. sum[s] \in Nat /\ freq[s] \in Nat /\ s \in Nat /\ n \in Nat
      BY <1>1 DEF DataSyms
    <3> QED BY <2>1, <2>3, <3>1, <3>2
  <2> QED BY <2>2, <2>3
<1>4. T = 0 .. Symbols
  <2> HIDE DEF T
  <2>1. T \in SUBSET (0 .. Symbols)
    BY DEF T
  <2> QED BY <1>2, <1>3, <2>1, UpToTheEnd
<1>5. Symbols \in T /\ Symbols > s
  BY <1>4 DEF DataSyms
<1> QED BY <1>5 DEF sum

\* One more of a symbol is one more in the total.
LEMMA SumsCount ==
  ASSUME NEW freq \in Freqs, NEW s \in DataSyms
  PROVE  SumsBelow([freq EXCEPT ![s] = @ + 1])[Symbols] = SumsBelow(freq)[Symbols] + 1
<1> DEFINE more == [freq EXCEPT ![s] = @ + 1]
           sum == SumsBelow(freq)
           sumMore == SumsBelow(more)
           T == {n \in 0 .. Symbols : sumMore[n] = sum[n] + (IF n > s THEN 1 ELSE 0)}
<1>1. /\ more \in Freqs
      /\ \A t \in DataSyms : more[t] = freq[t] + (IF t = s THEN 1 ELSE 0) /\ freq[t] \in Nat
  BY DEF Freqs
<1> HIDE DEF more, sum, sumMore
<1> USE SizesFact DEF Sizes
<1>2. /\ sum \in [0 .. Symbols -> Nat] /\ sum[0] = 0
      /\ \A t \in DataSyms : sum[t + 1] = sum[t] + freq[t]
  BY SumsAre DEF sum
<1>3. /\ sumMore \in [0 .. Symbols -> Nat] /\ sumMore[0] = 0
      /\ \A t \in DataSyms : sumMore[t + 1] = sumMore[t] + more[t]
  BY <1>1, SumsAre DEF sumMore
<1>4. 0 \in T
  BY <1>2, <1>3 DEF DataSyms
<1>5. ASSUME NEW n \in DataSyms, n \in T PROVE n + 1 \in T
  <2>1. /\ n + 1 \in 0 .. Symbols /\ n \in Nat /\ s \in Nat /\ sum[n] \in Nat
        /\ sum[n + 1] = sum[n] + freq[n] /\ freq[n] \in Nat
        /\ sumMore[n + 1] = sumMore[n] + more[n]
        /\ more[n] = freq[n] + (IF n = s THEN 1 ELSE 0)
    BY <1>1, <1>2, <1>3 DEF DataSyms
  <2>2. sumMore[n] = sum[n] + (IF n > s THEN 1 ELSE 0)
    BY <1>5
  <2> QED BY <2>1, <2>2
<1>6. T = 0 .. Symbols
  <2> HIDE DEF T
  <2>1. T \in SUBSET (0 .. Symbols)
    BY DEF T
  <2> QED BY <1>4, <1>5, <2>1, UpToTheEnd
<1>7. Symbols \in T /\ Symbols > s
  BY <1>6 DEF DataSyms
<1> QED BY <1>7 DEF sum, sumMore, more

\* Halving every frequency, rounding up, all but halves the total.
LEMMA SumsHalve ==
  ASSUME NEW freq \in Freqs, NEW half \in Freqs,
         \A s \in DataSyms : half[s] = (freq[s] + 1) \div 2
  PROVE  2 * SumsBelow(half)[Symbols] <= SumsBelow(freq)[Symbols] + Symbols
<1> DEFINE sum == SumsBelow(freq)
           sumHalf == SumsBelow(half)
           T == {n \in 0 .. Symbols : 2 * sumHalf[n] <= sum[n] + n}
<1> HIDE DEF sum, sumHalf
<1> USE SizesFact DEF Sizes
<1>1. /\ sum \in [0 .. Symbols -> Nat] /\ sum[0] = 0
      /\ \A t \in DataSyms : sum[t + 1] = sum[t] + freq[t] /\ freq[t] \in Nat
  BY SumsAre DEF sum, Freqs
<1>2. /\ sumHalf \in [0 .. Symbols -> Nat] /\ sumHalf[0] = 0
      /\ \A t \in DataSyms : sumHalf[t + 1] = sumHalf[t] + half[t] /\ half[t] \in Nat
  BY SumsAre DEF sumHalf, Freqs
<1>3. 0 \in T
  BY <1>1, <1>2
<1>4. ASSUME NEW n \in DataSyms, n \in T PROVE n + 1 \in T
  <2>1. /\ n + 1 \in 0 .. Symbols /\ n \in Nat /\ sum[n] \in Nat /\ sumHalf[n] \in Nat
        /\ sum[n + 1] = sum[n] + freq[n] /\ freq[n] \in Nat
        /\ sumHalf[n + 1] = sumHalf[n] + half[n] /\ half[n] \in Nat
    BY <1>1, <1>2 DEF DataSyms
  <2>2. 2 * half[n] <= freq[n] + 1
    BY <2>1
  <2>3. 2 * sumHalf[n] <= sum[n] + n
    BY <1>4
  <2> QED BY <2>1, <2>2, <2>3
<1>5. T = 0 .. Symbols
  <2> HIDE DEF T
  <2>1. T \in SUBSET (0 .. Symbols)
    BY DEF T
  <2> QED BY <1>3, <1>4, <2>1, UpToTheEnd
<1>6. Symbols \in T
  BY <1>5
<1> QED BY <1>6 DEF sum, sumHalf

\* A new model has one of each symbol.
LEMMA SumsOfOnes ==
  SumsBelow([s \in DataSyms |-> 1])[Symbols] = Symbols
<1> DEFINE ones == [s \in DataSyms |-> 1]
           sum == SumsBelow(ones)
           T == {n \in 0 .. Symbols : sum[n] = n}
<1>1. ones \in Freqs /\ \A s \in DataSyms : ones[s] = 1
  BY DEF Freqs
<1> HIDE DEF ones, sum
<1> USE SizesFact DEF Sizes
<1>2. sum[0] = 0 /\ \A t \in DataSyms : sum[t + 1] = sum[t] + 1
  BY <1>1, SumsAre DEF sum
<1>3. 0 \in T
  BY <1>2
<1>4. ASSUME NEW n \in DataSyms, n \in T PROVE n + 1 \in T
  BY <1>2, <1>4 DEF DataSyms
<1>5. T = 0 .. Symbols
  <2> HIDE DEF T
  <2>1. T \in SUBSET (0 .. Symbols)
    BY DEF T
  <2> QED BY <1>3, <1>4, <2>1, UpToTheEnd
<1>6. Symbols \in T
  BY <1>5
<1> QED BY <1>6 DEF sum, ones

-----------------------------------------------------------------------------
(***************************************************************************)
(* The invariant.  A model is updated soon after its counts pass the       *)
(* bound, so they never grow far past it, and a snapshot is taken only of  *)
(* counts below it.  The search keeps the value between its two ends.      *)
(***************************************************************************)
BitModels ==
  [zero : Nat \ {0}, all : Nat, prob : 1 .. BitMax - 1,
   interval : Shortest .. BitSpan, left : 0 .. BitSpan]

BitCounts(m) == m.zero < m.all /\ m.all + m.left <= BitMax + BitSpan

DataModels ==
  [freq : [DataSyms -> Nat \ {0}], total : Nat, cum : [0 .. Symbols -> 0 .. DataMax],
   interval : Shortest .. SymSpan, left : 0 .. SymSpan]

SymCounts(m) ==
  /\ m.total = SumsBelow(m.freq)[Symbols]
  /\ m.total + m.left < DataMax + SymSpan

Apart(m) ==
  /\ m.cum[0] = 0 /\ m.cum[Symbols] = DataMax
  /\ \A s \in DataSyms : m.cum[s] < m.cum[s + 1]

ArithTypes ==
  /\ value \in 0 .. Top - 1 /\ length \in 1 .. Top - 1
  /\ bitModel \in BitModels /\ dataModel \in DataModels
  /\ turn \in {"ready", "search", "update"}
  /\ low \in DataSyms /\ high \in 1 .. Symbols
  /\ got \in [of : Nat, sym : Nat]
  /\ strayed \in BOOLEAN /\ decoded \in Nat

CountsInv ==
  /\ BitCounts(bitModel) /\ bitModel.left > 0
  /\ SymCounts(dataModel) /\ Apart(dataModel)
  /\ turn # "update" => dataModel.left > 0

\* the part of the symbol is between the two ends of the search
SearchInv ==
  /\ low < high
  /\ turn = "search" =>
       /\ Wide
       /\ PartAt(low) <= value
       /\ ~strayed => value < PartEnd(high)

ArithInv == ArithTypes /\ CountsInv /\ SearchInv /\ DecodesInside

\* Every turn of a loop brings its end nearer: the bytes that widen the interval, the binary
\* search, and the update that halves the counts until they are few enough (arith.rs:117-123,
\* 163-178, 268-281).
LoopTurn ==
  /\ (\E byte \in StreamBytes : Renorm(byte)) => length' > length
  /\ SearchGoesOn => high' - low' < high - low
  /\ (Update /\ dataModel.total >= DataMax) => dataModel'.total < dataModel.total
LoopsEnd == [][LoopTurn]_arithVars

-----------------------------------------------------------------------------
(***************************************************************************)
(* The models.                                                             *)
(***************************************************************************)

\* The next interval is between the least and the greatest.
LEMMA IntervalInRange ==
  ASSUME NEW n \in Nat, NEW longest \in Nat, Shortest <= longest
  PROVE  /\ Clamped(n, longest) \in Shortest .. longest
         /\ LaterInterval(n, longest) \in Shortest .. longest
<1>1. (5 * n) \div 4 \in Nat
  OBVIOUS
<1>2. ASSUME NEW k \in Nat PROVE Clamped(k, longest) \in Shortest .. longest
  BY SizesFact DEF Sizes, Clamped
<1> QED BY <1>1, <1>2 DEF LaterInterval

\* The probability that counts give is neither nothing nor everything.
LEMMA ProbInside ==
  ASSUME NEW zero \in Nat \ {0}, NEW all \in Nat, zero < all, all <= BitMax
  PROVE  (zero * (Half \div all)) \div BitUnit \in 1 .. BitMax - 1
<1> DEFINE scale == Half \div all
<1> USE SizesFact DEF Sizes
<1>1. BitMax * BitUnit = Half /\ BitMax \in Nat \ {0} /\ all \in Nat \ {0}
  OBVIOUS
<1>2. scale \in Nat /\ all * scale <= Half
  BY <1>1, Division
<1>3. all * BitUnit <= Half
  BY <1>1
<1>4. BitUnit <= scale
  BY <1>1, <1>3, QuotientAtLeast
<1> HIDE DEF scale
<1>5. scale <= zero * scale /\ zero * scale \in Nat
  BY <1>2
<1>6. zero * scale <= (all - 1) * scale
  BY <1>2
<1>7. (all - 1) * scale = all * scale - scale
  BY <1>2
<1>8. zero * scale <= Half - BitUnit
  BY <1>2, <1>4, <1>6, <1>7
<1>9. BitUnit * 1 <= zero * scale
  BY <1>4, <1>5, <1>2
<1>10. 1 <= (zero * scale) \div BitUnit
  BY <1>5, <1>9, QuotientAtLeast
<1>11. zero * scale < BitUnit * BitMax
  BY <1>1, <1>5, <1>8
<1>12. (zero * scale) \div BitUnit < BitMax
  BY <1>5, <1>11, <1>1, QuotientBelow
<1>13. (zero * scale) \div BitUnit \in Nat
  BY <1>5, Division
<1> QED BY <1>10, <1>12, <1>13 DEF scale

\* An update leaves a model of bits with counts that are apart and within bounds.
LEMMA BitUpdate ==
  ASSUME NEW m \in BitModels, BitCounts(m), m.left = 0
  PROVE  UpdatedBits(m) \in BitModels /\ BitCounts(UpdatedBits(m)) /\ UpdatedBits(m).left > 0
<1> DEFINE h == HalvedBits(m)
           next == LaterInterval(m.interval, BitSpan)
           prob == (h.zero * (Half \div h.all)) \div BitUnit
<1> USE SizesFact DEF Sizes
<1>1. /\ m.zero \in Nat \ {0} /\ m.all \in Nat /\ m.interval \in Nat
      /\ m.zero < m.all /\ m.all <= BitMax + BitSpan
  BY DEF BitModels, BitCounts
<1>2. /\ h \in BitModels /\ h.zero < h.all /\ h.all <= BitMax
  <2>1. CASE m.all < BitMax
    BY <1>1, <2>1 DEF HalvedBits
  <2>2. CASE ~(m.all < BitMax)
    <3> DEFINE zero == (m.zero + 1) \div 2
               all == (m.all + 1) \div 2
               apart == IF zero = all THEN all + 1 ELSE all
    <3>1. h = [m EXCEPT !.zero = zero, !.all = apart]
      BY <2>2 DEF HalvedBits
    <3>2. zero \in Nat \ {0} /\ all \in Nat /\ zero <= all /\ all + 1 <= BitMax
      BY <1>1
    <3>3. apart \in Nat /\ zero < apart /\ apart <= BitMax
      BY <3>2
    <3> HIDE DEF zero, all, apart, h
    <3>4. h \in BitModels /\ h.zero = zero /\ h.all = apart
      BY <3>1, <3>2, <3>3 DEF BitModels
    <3> QED BY <3>3, <3>4
  <2> QED BY <2>1, <2>2
<1>3. next \in Shortest .. BitSpan /\ next > 0
  <2>1. m.interval \in Nat /\ BitSpan \in Nat /\ Shortest <= BitSpan
    BY <1>1
  <2>2. next \in Shortest .. BitSpan
    BY <2>1, IntervalInRange, Zenon
  <2> HIDE DEF next
  <2> QED BY <2>2
<1>4. UpdatedBits(m) = [h EXCEPT !.prob = prob, !.interval = next, !.left = next]
  BY DEF UpdatedBits, BitUnit
<1> HIDE DEF h, next
<1>5. h.zero \in Nat \ {0} /\ h.all \in Nat
  BY <1>2 DEF BitModels
<1>6. prob \in 1 .. BitMax - 1
  BY <1>2, <1>5, ProbInside
<1> HIDE DEF prob
<1> DEFINE u == [h EXCEPT !.prob = prob, !.interval = next, !.left = next]
<1> HIDE DEF u
<1>7. /\ u \in BitModels /\ u.zero = h.zero /\ u.all = h.all /\ u.left = next
  <2>1. u = [h EXCEPT !.prob = prob, !.interval = next, !.left = next]
    BY DEF u
  <2>2. h \in BitModels /\ next \in 0 .. BitSpan
    BY <1>2, <1>3
  <2> QED BY ONLY <1>3, <1>6, <2>1, <2>2 DEF BitModels
<1>8. BitCounts(u)
  BY <1>2, <1>3, <1>5, <1>7 DEF BitCounts
<1> QED BY <1>3, <1>4, <1>7, <1>8 DEF u

\* Scaled by at least a unit, numbers that are apart stay apart when they are counted in units.
LEMMA ScaledApart ==
  ASSUME NEW scale \in Nat, NEW unit \in Nat \ {0}, unit <= scale,
         NEW a \in Nat, NEW b \in Nat, a < b
  PROVE  /\ (scale * a) \div unit \in Nat
         /\ (scale * a) \div unit < (scale * b) \div unit
<1>1. scale * a \in Nat /\ scale * b \in Nat
  OBVIOUS
<1>2. /\ (scale * a) \div unit \in Nat
      /\ unit * ((scale * a) \div unit) <= scale * a
  BY <1>1, Division
<1>3. scale * (a + 1) <= scale * b
  OBVIOUS
<1>4. scale * a + scale = scale * (a + 1)
  OBVIOUS
<1>5. unit * ((scale * a) \div unit + 1) = unit * ((scale * a) \div unit) + unit
  BY <1>2
<1>6. unit * ((scale * a) \div unit + 1) <= scale * b
  BY <1>1, <1>2, <1>3, <1>4, <1>5
<1>7. (scale * a) \div unit + 1 <= (scale * b) \div unit
  BY <1>1, <1>2, <1>6, QuotientAtLeast
<1>8. (scale * b) \div unit \in Nat
  BY <1>1, Division
<1> QED BY <1>2, <1>7, <1>8

\* A snapshot of counts below the bound gives every symbol a part.
LEMMA SnapshotApart ==
  ASSUME NEW freq \in [DataSyms -> Nat \ {0}], NEW total \in Nat,
         total = SumsBelow(freq)[Symbols], total < DataMax,
         NEW cum, cum = [s \in 0 .. Symbols |->
                          IF s = Symbols THEN DataMax
                          ELSE ((Half \div total) * SumsBelow(freq)[s]) \div DataUnit]
  PROVE  /\ cum \in [0 .. Symbols -> 0 .. DataMax]
         /\ cum[0] = 0 /\ cum[Symbols] = DataMax
         /\ \A s \in DataSyms : cum[s] < cum[s + 1]
<1> DEFINE sum == SumsBelow(freq)
           scale == Half \div total
           part(n) == (scale * n) \div DataUnit
<1>1. cum = [s \in 0 .. Symbols |-> IF s = Symbols THEN DataMax ELSE part(sum[s])]
  OBVIOUS
<1>2. freq \in Freqs
  BY DEF Freqs
<1>3. /\ sum \in [0 .. Symbols -> Nat] /\ sum[0] = 0
      /\ \A s \in DataSyms : sum[s + 1] = sum[s] + freq[s]
  BY <1>2, SumsAre
<1>4. \A s \in DataSyms : freq[s] \in Nat \ {0} /\ sum[s] \in Nat /\ sum[s] < total
  <2> SUFFICES ASSUME NEW s \in DataSyms
               PROVE  freq[s] \in Nat \ {0} /\ sum[s] \in Nat /\ sum[s] < total
    OBVIOUS
  <2>1. sum[s] + freq[s] <= sum[Symbols]
    BY <1>2, SumsGrow
  <2>2. s \in 0 .. Symbols
    BY SizesFact DEF DataSyms, Sizes
  <2> HIDE DEF sum
  <2> QED BY <1>3, <2>1, <2>2 DEF sum
<1> HIDE DEF sum
<1> USE SizesFact DEF Sizes
<1>5. 0 \in DataSyms /\ 0 < total /\ total \in Nat \ {0}
  BY <1>3, <1>4, SMTT(30) DEF DataSyms
<1>6. scale \in Nat /\ total * scale <= Half
  BY <1>5, Division
<1>7. DataUnit <= scale
  <2>1. total * DataUnit <= DataMax * DataUnit
    OBVIOUS
  <2> QED BY <1>5, <2>1, QuotientAtLeast
<1> HIDE DEF scale
<1>8. ASSUME NEW a \in Nat, NEW b \in Nat, a < b PROVE part(a) \in Nat /\ part(a) < part(b)
  BY <1>6, <1>7, <1>8, ScaledApart
<1>9. part(total) \in Nat /\ part(total) <= DataMax
  <2> DEFINE all == scale * total
  <2>0. all \in Nat /\ all <= Half
    BY <1>5, <1>6
  <2>1. all \in Nat /\ all < DataUnit * (DataMax + 1)
    <3>1. DataUnit * (DataMax + 1) = Half + DataUnit
      OBVIOUS
    <3> HIDE DEF all
    <3> QED BY <2>0, <3>1
  <2>2. \A a \in Nat : a < DataUnit * (DataMax + 1) => a \div DataUnit < DataMax + 1
    <3>1. DataUnit \in Nat \ {0} /\ DataMax + 1 \in Nat
      OBVIOUS
    <3> QED BY ONLY <3>1, QuotientBelow
  <2>3. part(total) \in Nat
    BY <2>1, Division
  <2>4. part(total) < DataMax + 1
    BY ONLY <2>1, <2>2
  <2> HIDE DEF part
  <2> QED BY <2>3, <2>4
<1>10. part(0) = 0
  BY <1>6
<1> HIDE DEF part
<1>11. \A s \in DataSyms : part(sum[s]) \in Nat /\ part(sum[s]) < DataMax
  BY <1>4, <1>8, <1>9
<1>12. cum[0] = 0 /\ cum[Symbols] = DataMax
  BY <1>1, <1>3, <1>10
<1>13. ASSUME NEW s \in 0 .. Symbols PROVE cum[s] \in 0 .. DataMax
  <2>1. CASE s = Symbols
    BY <2>1, <1>12
  <2>2. CASE s # Symbols
    <3>1. s \in DataSyms /\ cum[s] = part(sum[s])
      BY <1>1, <2>2 DEF DataSyms
    <3> QED BY <3>1, <1>11
  <2> QED BY <2>1, <2>2
<1>14. ASSUME NEW s \in DataSyms PROVE cum[s] < cum[s + 1]
  <2>1. s \in 0 .. Symbols /\ s # Symbols /\ cum[s] = part(sum[s])
    BY <1>1 DEF DataSyms
  <2>2. CASE s + 1 = Symbols
    BY <1>11, <1>12, <2>1, <2>2
  <2>3. CASE s + 1 # Symbols
    <3>1. s + 1 \in DataSyms
      BY <2>3 DEF DataSyms
    <3>2. cum[s + 1] = part(sum[s + 1])
      BY <1>1, <2>3, <3>1 DEF DataSyms
    <3>3. sum[s] \in Nat /\ sum[s + 1] \in Nat /\ sum[s] < sum[s + 1]
      BY <1>3, <1>4, <3>1, SMTT(30)
    <3> QED BY <1>8, <2>1, <3>2, <3>3
  <2> QED BY <2>2, <2>3
<1>15. cum \in [0 .. Symbols -> 0 .. DataMax]
  BY <1>1, <1>13
<1> QED BY <1>12, <1>14, <1>15

\* A snapshot is a model whose symbols have a part each.
LEMMA SnapshotGood ==
  ASSUME NEW m \in [freq : [DataSyms -> Nat \ {0}], total : Nat, cum : [0 .. Symbols -> Nat],
                    interval : Nat, left : Nat],
         m.total = SumsBelow(m.freq)[Symbols], m.total < DataMax
  PROVE  /\ Snapshot(m) \in DataModels /\ SymCounts(Snapshot(m)) /\ Apart(Snapshot(m))
         /\ Snapshot(m).left > 0
         /\ Snapshot(m).freq = m.freq /\ Snapshot(m).total = m.total
<1> DEFINE next == LaterInterval(m.interval, SymSpan)
           cum == [s \in 0 .. Symbols |->
                    IF s = Symbols THEN DataMax
                    ELSE ((Half \div m.total) * SumsBelow(m.freq)[s]) \div DataUnit]
           u == [m EXCEPT !.cum = cum, !.interval = next, !.left = next]
<1>1. Snapshot(m) = u
  BY DEF Snapshot, DataUnit
<1>2. m.freq \in [DataSyms -> Nat \ {0}] /\ m.total \in Nat /\ m.interval \in Nat
  OBVIOUS
<1>3. /\ cum \in [0 .. Symbols -> 0 .. DataMax]
      /\ cum[0] = 0 /\ cum[Symbols] = DataMax
      /\ \A s \in DataSyms : cum[s] < cum[s + 1]
  <2>1. \A c : c = cum => /\ c \in [0 .. Symbols -> 0 .. DataMax]
                          /\ c[0] = 0 /\ c[Symbols] = DataMax
                          /\ \A s \in DataSyms : c[s] < c[s + 1]
    BY <1>2, SnapshotApart
  <2> HIDE DEF cum
  <2> QED BY <2>1
<1>4. next \in Shortest .. SymSpan /\ next \in 0 .. SymSpan /\ next > 0
  <2>1. SymSpan \in Nat /\ Shortest <= SymSpan /\ Shortest \in Nat \ {0}
    BY SizesFact DEF Sizes
  <2>2. next \in Shortest .. SymSpan
    BY <1>2, <2>1, IntervalInRange, Zenon
  <2> HIDE DEF next
  <2> QED BY <2>1, <2>2
<1> HIDE DEF cum, next
<1>5. u \in DataModels /\ u.cum = cum /\ u.left = next /\ u.freq = m.freq /\ u.total = m.total
  BY <1>3, <1>4 DEF DataModels
<1> HIDE DEF u
<1>6. m.total + next < DataMax + SymSpan
  BY <1>2, <1>4, SizesFact DEF Sizes
<1>7. SymCounts(u) /\ Apart(u)
  BY <1>3, <1>5, <1>6 DEF SymCounts, Apart
<1> QED BY <1>1, <1>4, <1>5, <1>7

\* A new model gives every symbol a part, and so does one that is updated sooner.
LEMMA NewModel ==
  ASSUME NEW m \in {FreshSyms, FasterSyms}
  PROVE  m \in DataModels /\ SymCounts(m) /\ Apart(m) /\ m.left > 0
<1> DEFINE first == [freq |-> [s \in DataSyms |-> 1], total |-> Symbols, interval |-> Symbols,
                     left |-> 0, cum |-> [s \in 0 .. Symbols |-> 0]]
<1>1. /\ first \in [freq : [DataSyms -> Nat \ {0}], total : Nat, cum : [0 .. Symbols -> Nat],
                    interval : Nat, left : Nat]
      /\ first.total = Symbols
      /\ first.freq = [s \in DataSyms |-> 1]
  BY SizesFact DEF Sizes
<1>2. Symbols < DataMax
  BY SizesFact DEF Sizes
<1>3. FreshSyms = Snapshot(first)
  BY DEF FreshSyms
<1> HIDE DEF first
<1>4. first.total = SumsBelow(first.freq)[Symbols]
  BY <1>1, SumsOfOnes
<1>5. /\ FreshSyms \in DataModels /\ SymCounts(FreshSyms) /\ Apart(FreshSyms)
      /\ FreshSyms.left > 0 /\ FreshSyms.total = Symbols
  BY <1>1, <1>2, <1>3, <1>4, SnapshotGood
<1>6. ASSUME m = FasterSyms PROVE m \in DataModels /\ SymCounts(m) /\ Apart(m) /\ m.left > 0
  <2> DEFINE sooner == Clamped((Symbols + 7) \div 8, SymSpan)
  <2>1. SymSpan \in Nat /\ Shortest <= SymSpan /\ Shortest \in Nat \ {0} /\ DataMax \in Nat
        /\ Symbols \in Nat /\ (Symbols + 7) \div 8 \in Nat
    BY SizesFact DEF Sizes
  <2>2. sooner \in Shortest .. SymSpan
    BY <2>1, IntervalInRange, Zenon
  <2>3. m = [FreshSyms EXCEPT !.interval = sooner, !.left = sooner]
    BY <1>6 DEF FasterSyms
  <2> HIDE DEF sooner
  <2>4. sooner \in 0 .. SymSpan /\ sooner > 0 /\ Symbols + sooner < DataMax + SymSpan
    BY <1>2, <2>1, <2>2
  <2>5. /\ m \in DataModels /\ m.freq = FreshSyms.freq /\ m.total = FreshSyms.total
        /\ m.cum = FreshSyms.cum /\ m.left = sooner
    BY <1>5, <2>2, <2>3, <2>4 DEF DataModels
  <2> QED BY <1>5, <2>4, <2>5 DEF SymCounts, Apart
<1> QED BY <1>5, <1>6

\* Halving leaves every symbol counted and the total smaller.
LEMMA HalvingGood ==
  ASSUME NEW m \in DataModels, SymCounts(m), m.total >= DataMax
  PROVE  /\ HalvedSyms(m) \in DataModels /\ SymCounts(HalvedSyms(m))
         /\ HalvedSyms(m).total < m.total
         /\ HalvedSyms(m).cum = m.cum /\ HalvedSyms(m).left = m.left
<1> DEFINE half == [s \in DataSyms |-> (m.freq[s] + 1) \div 2]
           sum == SumsBelow(half)[Symbols]
           u == [m EXCEPT !.freq = half, !.total = sum]
<1>1. HalvedSyms(m) = u
  BY DEF HalvedSyms
<1>2. m.freq \in [DataSyms -> Nat \ {0}] /\ m.total \in Nat /\ m.left \in Nat
  BY DEF DataModels
<1>3. \A s \in DataSyms : (m.freq[s] + 1) \div 2 \in Nat \ {0}
  <2>1. \A n \in Nat \ {0} : (n + 1) \div 2 \in Nat \ {0}
    OBVIOUS
  <2> QED BY <1>2, <2>1
<1>4. half \in [DataSyms -> Nat \ {0}]
  BY <1>3
<1>5. m.freq \in Freqs /\ half \in Freqs /\ \A s \in DataSyms : half[s] = (m.freq[s] + 1) \div 2
  BY <1>2, <1>4 DEF Freqs
<1> HIDE DEF half
<1>6. 2 * sum <= m.total + Symbols
  BY <1>5, SumsHalve DEF SymCounts
<1>7. sum \in Nat
  BY <1>5, SumsAre, SizesFact DEF Sizes
<1>8. u \in DataModels /\ u.total = sum /\ u.cum = m.cum /\ u.left = m.left /\ u.freq = half
  BY <1>4, <1>7 DEF DataModels
<1>9. sum < m.total
  <2> HIDE DEF sum
  <2> QED BY <1>2, <1>6, <1>7, SizesFact DEF Sizes
<1>10. sum + m.left < DataMax + SymSpan
  <2> HIDE DEF sum
  <2> QED BY <1>2, <1>7, <1>9, SizesFact DEF Sizes, SymCounts
<1> QED BY <1>1, <1>8, <1>9, <1>10 DEF SymCounts

\* Counting a symbol keeps the total.
LEMMA CountingGood ==
  ASSUME NEW m \in DataModels, SymCounts(m), m.left > 0, NEW s \in DataSyms,
         NEW u, u = [m EXCEPT !.freq[s] = @ + 1, !.total = @ + 1, !.left = @ - 1]
  PROVE  u \in DataModels /\ SymCounts(u) /\ u.cum = m.cum /\ u.left = m.left - 1
<1> DEFINE more == [m.freq EXCEPT ![s] = @ + 1]
<1>1. m.freq \in [DataSyms -> Nat \ {0}] /\ m.total \in Nat /\ m.left \in 0 .. SymSpan
  BY DEF DataModels
<1>2. /\ u = [m EXCEPT !.freq = more, !.total = m.total + 1, !.left = m.left - 1]
  BY DEF DataModels
<1>3. m.freq \in Freqs /\ more \in [DataSyms -> Nat \ {0}]
  BY <1>1 DEF Freqs
<1>4. SumsBelow(more)[Symbols] = m.total + 1
  BY <1>3, SumsCount DEF SymCounts
<1> HIDE DEF more
<1>5. m.left - 1 \in 0 .. SymSpan /\ m.total + 1 \in Nat
      /\ m.total + 1 + (m.left - 1) < DataMax + SymSpan
  BY <1>1, SizesFact DEF Sizes, SymCounts
<1>6. /\ u \in DataModels /\ u.freq = more /\ u.total = m.total + 1 /\ u.left = m.left - 1
      /\ u.cum = m.cum
  BY <1>2, <1>3, <1>5 DEF DataModels
<1> QED BY <1>4, <1>5, <1>6 DEF SymCounts

-----------------------------------------------------------------------------
(***************************************************************************)
(* The interval.                                                           *)
(***************************************************************************)

\* A byte widens the interval, without loss, and what is inside stays inside.
LEMMA Widened ==
  ASSUME NEW l \in 1 .. Top - 1, l < MinLen, NEW v \in 0 .. Top - 1, NEW byte \in 0 .. Radix - 1
  PROVE  /\ (v * Radix + byte) % Top \in 0 .. Top - 1
         /\ (l * Radix) % Top \in 1 .. Top - 1
         /\ (l * Radix) % Top > l
         /\ v < l => (v * Radix + byte) % Top < (l * Radix) % Top
<1>1. /\ Radix \in Nat /\ Radix > 1 /\ MinLen \in Nat /\ Top \in Nat \ {0}
      /\ l \in Nat /\ v \in Nat /\ byte \in Nat
  BY SizesFact DEF Sizes
<1>2. (v * Radix + byte) % Top \in 0 .. Top - 1
  BY <1>1
<1>3. l * Radix < Top
  <2>1. l * Radix <= (MinLen - 1) * Radix
    BY <1>1
  <2>2. (MinLen - 1) * Radix = MinLen * Radix - Radix
    BY <1>1
  <2> QED BY <1>1, <2>1, <2>2 DEF Top
<1>4. l * Radix \in Nat /\ l * 2 <= l * Radix
  BY <1>1, Products
<1>5. (l * Radix) % Top = l * Radix
  BY <1>1, <1>3, <1>4
<1>6. ASSUME v < l PROVE (v * Radix + byte) % Top < l * Radix
  <2>1. v * Radix \in Nat /\ (v + 1) * Radix <= l * Radix
    BY <1>1, <1>6
  <2>2. (v + 1) * Radix = v * Radix + Radix
    BY <1>1
  <2>3. v * Radix + byte < l * Radix /\ v * Radix + byte \in Nat
    BY <1>1, <2>1, <2>2
  <2>4. (v * Radix + byte) % Top = v * Radix + byte
    BY <1>1, <1>3, <1>4, <2>3
  <2> QED BY <2>3, <2>4
<1> QED BY <1>1, <1>2, <1>3, <1>4, <1>5, <1>6

\* A value less the part of an interval before it.
LEMMA WithinPart ==
  ASSUME NEW v \in Nat, NEW part \in Nat \ {0}
  PROVE  /\ v - part * (v \div part) \in Nat
         /\ v - part * (v \div part) < part
         /\ v - part * (v \div part) <= v
         /\ v \div part \in Nat
<1>1. v \div part \in Nat /\ part * (v \div part) <= v /\ v < part * (v \div part) + part
  BY Division
<1>2. part * (v \div part) \in Nat
  BY <1>1
<1> QED BY <1>1, <1>2

\* Of a wide interval every power of two that is read at once has a part.
LEMMA PartOfRaw ==
  ASSUME NEW l \in 1 .. Top - 1, l >= MinLen, NEW k \in 1 .. MinLen
  PROVE  l \div k \in 1 .. Top - 1
<1>1. l \in Nat /\ k \in Nat \ {0} /\ k * 1 <= l /\ MinLen \in Nat /\ Top \in Nat
  BY SizesFact DEF Sizes
<1>2. 1 <= l \div k
  BY <1>1, QuotientAtLeast
<1>3. l < k * (l + 1)
  BY <1>1, Products
<1>4. l \div k < l + 1
  BY <1>1, <1>3, QuotientBelow
<1>5. l \div k \in Nat
  BY <1>1, Division
<1> QED BY <1>1, <1>2, <1>4, <1>5

\* A probability that is neither nothing nor everything leaves both bits a part.
LEMMA PartOfBit ==
  ASSUME NEW l \in 1 .. Top - 1, l >= MinLen, NEW prob \in 1 .. BitMax - 1
  PROVE  prob * (l \div BitMax) \in 1 .. l - 1
<1> DEFINE q == l \div BitMax
<1>1. l \in Nat /\ BitMax \in Nat \ {0} /\ BitMax * 1 <= l /\ prob \in Nat
  BY SizesFact DEF Sizes
<1>2. q \in Nat /\ BitMax * q <= l
  BY <1>1, Division
<1>3. 1 <= q
  BY <1>1, QuotientAtLeast
<1> HIDE DEF q
<1>4. 1 <= prob * q /\ prob * q \in Nat
  BY <1>1, <1>2, <1>3
<1>5. prob * q <= (BitMax - 1) * q /\ (BitMax - 1) * q = BitMax * q - q
  BY <1>1, <1>2
<1> QED BY <1>1, <1>2, <1>3, <1>4, <1>5 DEF q

\* The parts of two symbols are a unit apart at least, and the last ends within the interval.
LEMMA PartOfSymbol ==
  ASSUME NEW l \in 1 .. Top - 1, l >= MinLen, NEW a \in 0 .. DataMax, NEW b \in 0 .. DataMax,
         a < b
  PROVE  /\ (l \div DataMax) * a \in Nat /\ (l \div DataMax) * b \in Nat
         /\ (l \div DataMax) * a < (l \div DataMax) * b
         /\ (l \div DataMax) * b <= l
<1> DEFINE q == l \div DataMax
<1>1. l \in Nat /\ DataMax \in Nat \ {0} /\ DataMax * 1 <= l /\ a \in Nat /\ b \in Nat
  BY SizesFact DEF Sizes
<1>2. q \in Nat /\ DataMax * q <= l
  BY <1>1, Division
<1>3. 1 <= q
  BY <1>1, QuotientAtLeast
<1> HIDE DEF q
<1>4. q * a \in Nat /\ q * b \in Nat /\ q * a < q * b
  BY <1>1, <1>2, <1>3
<1>5. q * b <= q * DataMax
  BY <1>1, <1>2, Products
<1>6. q * DataMax = DataMax * q
  BY <1>1, <1>2
<1> QED BY <1>1, <1>2, <1>4, <1>5, <1>6 DEF q

-----------------------------------------------------------------------------
(***************************************************************************)
(* The invariant holds initially and every step preserves it.              *)
(***************************************************************************)

\* The decoder starts with new models and the whole interval.
LEMMA InitArith == ArithInit => ArithInv
<1> SUFFICES ASSUME ArithInit PROVE ArithInv
  OBVIOUS
<1> USE SizesFact DEF Sizes
<1>1. dataModel \in DataModels /\ SymCounts(dataModel) /\ Apart(dataModel) /\ dataModel.left > 0
  BY NewModel DEF ArithInit
<1>2. BitMax \div 2 \in 1 .. BitMax - 1
  OBVIOUS
<1>3. bitModel \in BitModels /\ BitCounts(bitModel) /\ bitModel.left > 0
  BY <1>2 DEF ArithInit, BitModels, BitCounts
<1>4. value \in 0 .. Top - 1 /\ length \in 1 .. Top - 1 /\ length = Top - 1
  BY DEF ArithInit
<1>5. ArithTypes
  BY <1>1, <1>3, <1>4 DEF ArithInit, ArithTypes, DataSyms
<1>6. CountsInv
  BY <1>1, <1>3 DEF CountsInv
<1>7. SearchInv
  BY DEF ArithInit, SearchInv
<1>8. DecodesInside
  <2>1. ~strayed => ~(value >= length)
    BY Zenon DEF ArithInit
  <2>2. ~(value >= length) => value < length
    BY <1>4
  <2>3. got.sym \in 0 .. got.of - 1
    BY DEF ArithInit
  <2> QED BY <2>1, <2>2, <2>3 DEF DecodesInside
<1> QED BY <1>5, <1>6, <1>7, <1>8 DEF ArithInv

\* A byte keeps the models, and there is no search while one is needed.
LEMMA RenormKeeps ==
  ASSUME ArithInv, NEW byte \in StreamBytes, Renorm(byte)
  PROVE  ArithInv' /\ length' > length
<1> USE DEF ArithInv
<1>1. /\ value \in 0 .. Top - 1 /\ length \in 1 .. Top - 1 /\ length < MinLen
      /\ byte \in 0 .. Radix - 1
  BY SizesFact DEF ArithTypes, Renorm, Wide, Sizes
<1>2. /\ value' \in 0 .. Top - 1 /\ length' \in 1 .. Top - 1 /\ length' > length
      /\ value < length => value' < length'
  BY <1>1, Widened DEF Renorm
<1>3. ArithTypes'
  BY <1>2 DEF ArithTypes, Renorm, searchVars
<1>4. CountsInv'
  BY DEF CountsInv, Renorm, searchVars
<1>5. SearchInv'
  BY DEF SearchInv, Renorm, searchVars
<1>6. DecodesInside'
  BY <1>2 DEF DecodesInside, Renorm
<1> QED BY <1>2, <1>3, <1>4, <1>5, <1>6

\* A bit takes half of the interval.
LEMMA GetBitKeeps == ASSUME ArithInv, GetBit PROVE ArithInv'
<1> DEFINE part == length \div 2
           bit == IF value >= part THEN 1 ELSE 0
<1> USE DEF ArithInv
<1>1. /\ value \in 0 .. Top - 1 /\ length \in 1 .. Top - 1 /\ length >= MinLen
      /\ Top \in Nat /\ MinLen \in Nat /\ MinLen >= 2
      /\ turn = "ready" /\ decoded \in Nat
  BY SizesFact DEF ArithTypes, GetBit, Ready, Wide, Sizes
<1>2. part \in 1 .. Top - 1
  BY <1>1, PartOfRaw
<1>3. value - part * bit \in 0 .. Top - 1
  BY <1>1, <1>2
<1>4. /\ value' = value - part * bit /\ length' = part
      /\ strayed' = (strayed \/ value >= 2 * part)
      /\ got' = [of |-> 2, sym |-> bit] /\ decoded' = decoded + 1
      /\ UNCHANGED <<bitModel, dataModel, turn, low, high>>
  BY DEF GetBit, Returns, searchVars
<1>5. ArithTypes'
  BY <1>1, <1>2, <1>3, <1>4 DEF ArithTypes
<1>6. CountsInv'
  BY <1>4 DEF CountsInv
<1>7. SearchInv'
  BY <1>1, <1>4 DEF SearchInv
<1>8. ASSUME ~strayed' PROVE value' < length' /\ got'.sym \in 0 .. got'.of - 1
  <2>0. ~(value >= 2 * part)
    BY ONLY <1>4, <1>8, Zenon
  <2>1. value < 2 * part
    BY <1>1, <1>2, <2>0
  <2>2. value - part * bit < part
    BY <1>1, <1>2, <2>1
  <2>3. bit \in 0 .. 2 - 1
    OBVIOUS
  <2> QED BY <1>4, <2>2, <2>3
<1>9. DecodesInside'
  BY <1>8 DEF DecodesInside
<1> QED BY <1>5, <1>6, <1>7, <1>9

\* Several bits take one of as many parts as they have values.
LEMMA GetRawKeeps == ASSUME ArithInv, NEW n \in RawBits, GetRaw(n) PROVE ArithInv'
<1> DEFINE k == 2 ^ n
           part == length \div k
           v == value \div part
<1> USE DEF ArithInv
<1>1. k \in 1 .. MinLen
  BY ArithAssumption DEF ArithAssumption
<1>2. /\ value' = value - part * v /\ length' = part
      /\ strayed' = (strayed \/ v >= k)
      /\ got' = [of |-> k, sym |-> v] /\ decoded' = decoded + 1
      /\ UNCHANGED <<bitModel, dataModel, turn, low, high>>
  BY DEF GetRaw, Returns, searchVars
<1> HIDE DEF k
<1>3. /\ value \in 0 .. Top - 1 /\ length \in 1 .. Top - 1 /\ length >= MinLen
      /\ Top \in Nat /\ MinLen \in Nat /\ value \in Nat
      /\ turn = "ready" /\ decoded \in Nat
  BY SizesFact DEF ArithTypes, GetRaw, Ready, Wide, Sizes
<1>4. part \in 1 .. Top - 1 /\ part \in Nat \ {0}
  BY <1>1, <1>3, PartOfRaw
<1> HIDE DEF part
<1>5. /\ value - part * v \in Nat /\ value - part * v < part /\ value - part * v <= value
      /\ v \in Nat
  BY <1>3, <1>4, WithinPart
<1> HIDE DEF v
<1>6. ArithTypes'
  BY <1>1, <1>2, <1>3, <1>4, <1>5 DEF ArithTypes
<1>7. CountsInv'
  BY <1>2 DEF CountsInv
<1>8. SearchInv'
  BY <1>2, <1>3 DEF SearchInv
<1>9. ASSUME ~strayed' PROVE value' < length' /\ got'.sym \in 0 .. got'.of - 1
  <2>0. ~(v >= k)
    BY ONLY <1>2, <1>9, Zenon
  <2>1. v \in 0 .. k - 1
    BY <1>1, <1>3, <1>5, <2>0
  <2> QED BY <1>2, <1>5, <2>1
<1>10. DecodesInside'
  BY <1>9 DEF DecodesInside
<1> QED BY <1>6, <1>7, <1>8, <1>10

\* Counting a bit keeps the counts apart.
LEMMA BitCounted ==
  ASSUME NEW m \in BitModels, BitCounts(m), m.left > 0, NEW bit \in {0, 1},
         NEW u, u = [m EXCEPT !.zero = @ + 1 - bit, !.all = @ + 1, !.left = @ - 1]
  PROVE  u \in BitModels /\ BitCounts(u)
<1>1. /\ m.zero \in Nat \ {0} /\ m.all \in Nat /\ m.left \in 0 .. BitSpan
      /\ m.zero < m.all /\ m.all + m.left <= BitMax + BitSpan
  BY DEF BitModels, BitCounts
<1>2. /\ m.zero + 1 - bit \in Nat \ {0} /\ m.all + 1 \in Nat /\ m.left - 1 \in 0 .. BitSpan
      /\ m.zero + 1 - bit < m.all + 1
      /\ m.all + 1 + (m.left - 1) <= BitMax + BitSpan
  BY <1>1, SizesFact DEF Sizes
<1>3. u \in BitModels /\ u.zero = m.zero + 1 - bit /\ u.all = m.all + 1 /\ u.left = m.left - 1
  BY <1>2 DEF BitModels
<1> QED BY <1>2, <1>3 DEF BitCounts

\* A modelled bit takes its part, and is counted.
LEMMA DecodeBitKeeps == ASSUME ArithInv, DecodeBit PROVE ArithInv'
<1> DEFINE x == bitModel.prob * (length \div BitMax)
           bit == IF value >= x THEN 1 ELSE 0
           m == [bitModel EXCEPT !.zero = @ + 1 - bit, !.all = @ + 1, !.left = @ - 1]
<1> USE DEF ArithInv
<1>1. /\ value \in 0 .. Top - 1 /\ length \in 1 .. Top - 1 /\ length >= MinLen
      /\ Top \in Nat /\ turn = "ready" /\ decoded \in Nat
      /\ bitModel \in BitModels /\ BitCounts(bitModel) /\ bitModel.left > 0
  BY SizesFact DEF ArithTypes, CountsInv, DecodeBit, Ready, Wide, Sizes
<1>2. x \in 1 .. length - 1
  <2>1. bitModel.prob \in 1 .. BitMax - 1
    BY <1>1 DEF BitModels
  <2> QED BY <1>1, <2>1, PartOfBit
<1>3. /\ IF bit = 0 THEN value' = value - 0 /\ length' = x - 0
                    ELSE value' = value - x /\ length' = length - x
      /\ bitModel' = IF m.left <= 0 THEN UpdatedBits(m) ELSE m
      /\ got' = [of |-> 2, sym |-> bit] /\ decoded' = decoded + 1
      /\ UNCHANGED <<dataModel, turn, low, high, strayed>>
  BY DEF DecodeBit, Narrow, Returns, searchVars
<1>4. m \in BitModels /\ BitCounts(m)
  <2>1. bit \in {0, 1}
    OBVIOUS
  <2> HIDE DEF bit
  <2> QED BY <1>1, <2>1, BitCounted
<1> HIDE DEF m
<1>5. bitModel' \in BitModels /\ BitCounts(bitModel)' /\ bitModel'.left > 0
  <2>1. m.left \in Nat
    BY <1>4 DEF BitModels
  <2>2. CASE m.left <= 0
    <3>1. m.left = 0
      BY <2>1, <2>2
    <3>2. /\ UpdatedBits(m) \in BitModels /\ BitCounts(UpdatedBits(m))
          /\ UpdatedBits(m).left > 0
      BY <1>4, <3>1, BitUpdate
    <3>3. bitModel' = UpdatedBits(m)
      BY <1>3, <2>2
    <3> QED BY ONLY <3>2, <3>3 DEF BitCounts
  <2>3. CASE ~(m.left <= 0)
    <3>1. bitModel' = m /\ m.left > 0
      BY <1>3, <2>1, <2>3
    <3> QED BY ONLY <1>4, <3>1 DEF BitCounts
  <2> QED BY <2>2, <2>3
<1> HIDE DEF x
<1>6. /\ value' \in 0 .. Top - 1 /\ length' \in 1 .. Top - 1
      /\ value < length => value' < length'
  <2>1. CASE value >= x
    BY <1>1, <1>2, <1>3, <2>1
  <2>2. CASE ~(value >= x)
    BY <1>1, <1>2, <1>3, <2>2
  <2> QED BY <2>1, <2>2
<1>7. bit \in Nat /\ bit \in 0 .. 2 - 1
  OBVIOUS
<1> HIDE DEF bit
<1>8. ArithTypes'
  BY <1>1, <1>3, <1>5, <1>6, <1>7 DEF ArithTypes
<1>9. CountsInv'
  BY <1>3, <1>5 DEF CountsInv, BitCounts
<1>10. SearchInv'
  BY <1>1, <1>3 DEF SearchInv
<1>11. DecodesInside'
  BY <1>3, <1>6, <1>7 DEF DecodesInside
<1> QED BY <1>8, <1>9, <1>10, <1>11

\* A search starts with the whole alphabet.
LEMMA SearchStartsKeeps == ASSUME ArithInv, SearchStarts PROVE ArithInv'
<1> USE DEF ArithInv
<1>1. /\ turn' = "search" /\ low' = 0 /\ high' = Symbols
      /\ UNCHANGED <<value, length, bitModel, dataModel, got, strayed, decoded>>
      /\ length >= MinLen /\ turn = "ready"
  BY DEF SearchStarts, Ready, Wide
<1>2. ArithTypes'
  BY <1>1, SizesFact DEF ArithTypes, Sizes, DataSyms
<1>3. CountsInv'
  BY <1>1 DEF CountsInv
<1>4. PartAt(0) = 0
  <2>1. dataModel.cum[0] = 0 /\ length \in Nat /\ DataMax \in Nat \ {0}
    BY SizesFact DEF CountsInv, Apart, ArithTypes, Sizes
  <2>2. length \div DataMax \in Nat
    BY <2>1
  <2> QED BY <2>1, <2>2 DEF PartAt
<1>5. 0 < Symbols /\ 0 <= value /\ (~strayed => value < PartEnd(Symbols))
  BY SizesFact DEF ArithTypes, DecodesInside, PartEnd, Sizes
<1>6. SearchInv'
  <2>1. PartAt(low)' = PartAt(0)
    BY <1>1 DEF PartAt
  <2>2. PartEnd(high)' = PartEnd(Symbols)
    BY <1>1 DEF PartEnd
  <2>3. Wide'
    BY <1>1 DEF Wide
  <2> QED BY <1>1, <1>4, <1>5, <2>1, <2>2, <2>3 DEF SearchInv
<1>7. DecodesInside'
  BY <1>1 DEF DecodesInside
<1> QED BY <1>2, <1>3, <1>6, <1>7

\* A comparison keeps the value between the ends, which come nearer.
LEMMA SearchGoesOnKeeps ==
  ASSUME ArithInv, SearchGoesOn
  PROVE  ArithInv' /\ high' - low' < high - low
<1> USE DEF ArithInv
<1> DEFINE mid == Mid
<1>1. /\ turn = "search" /\ mid # low
      /\ IF PartAt(mid) > value THEN high' = mid /\ low' = low ELSE low' = mid /\ high' = high
      /\ UNCHANGED <<value, length, bitModel, dataModel, turn, got, strayed, decoded>>
  BY DEF SearchGoesOn, Exceeds
<1>2. /\ low \in DataSyms /\ high \in 1 .. Symbols /\ low < high
      /\ low \in Nat /\ high \in Nat /\ Symbols \in Nat
  BY SizesFact DEF ArithTypes, SearchInv, DataSyms, Sizes
<1>3. mid \in Nat /\ low < mid /\ mid < high
  BY <1>1, <1>2 DEF Mid
<1> HIDE DEF mid
<1>4. mid \in DataSyms /\ mid \in 1 .. Symbols /\ mid # Symbols
  BY <1>2, <1>3 DEF DataSyms
<1>5. /\ low' \in DataSyms /\ high' \in 1 .. Symbols /\ low' < high'
      /\ high' - low' < high - low
  BY <1>1, <1>2, <1>3, <1>4
<1>6. ArithTypes'
  BY <1>1, <1>5 DEF ArithTypes
<1>7. CountsInv'
  BY <1>1 DEF CountsInv
<1>8. /\ value \in Nat /\ PartAt(mid) \in Int
      /\ Wide /\ PartAt(low) <= value /\ (~strayed => value < PartEnd(high))
  <2>1. length \div DataMax \in Nat
    BY SizesFact DEF ArithTypes, Sizes
  <2>2. dataModel.cum[mid] \in Nat
    <3>1. dataModel.cum \in [0 .. Symbols -> 0 .. DataMax] /\ mid \in 0 .. Symbols
      BY <1>4 DEF ArithTypes, DataModels
    <3> QED BY <3>1, SizesFact DEF Sizes
  <2>3. PartAt(mid) \in Int
    BY <2>1, <2>2 DEF PartAt
  <2> QED BY <1>1, <2>3, SizesFact DEF SearchInv, ArithTypes, Sizes
<1>9. Wide'
  BY <1>1, <1>8 DEF Wide
<1>10. SearchInv'
  <2>1. CASE PartAt(mid) > value
    <3>1. PartAt(low)' = PartAt(low) /\ PartEnd(high)' = PartAt(mid)
      BY <1>1, <1>4, <2>1 DEF PartAt, PartEnd
    <3> QED BY <1>1, <1>5, <1>8, <1>9, <2>1, <3>1 DEF SearchInv
  <2>2. CASE ~(PartAt(mid) > value)
    <3>1. PartAt(low)' = PartAt(mid) /\ PartEnd(high)' = PartEnd(high)
      BY <1>1, <2>2 DEF PartAt, PartEnd
    <3> QED BY <1>1, <1>5, <1>8, <1>9, <2>2, <3>1 DEF SearchInv
  <2> QED BY <2>1, <2>2
<1>11. DecodesInside'
  BY <1>1 DEF DecodesInside
<1> QED BY <1>5, <1>6, <1>7, <1>10, <1>11

\* The part of every symbol is not empty, and ends within the interval.
LEMMA PartsApart ==
  ASSUME ArithInv, Wide, NEW s \in DataSyms
  PROVE  /\ PartAt(s) \in Nat /\ PartEnd(s + 1) \in Nat
         /\ PartAt(s) < PartEnd(s + 1) /\ PartEnd(s + 1) <= length
<1> USE SizesFact DEF Sizes
<1>1. length \in 1 .. Top - 1 /\ length >= MinLen /\ Top \in Nat
  BY DEF ArithInv, ArithTypes, Wide
<1>2. s \in Nat /\ s \in 0 .. Symbols /\ s + 1 \in 0 .. Symbols /\ Symbols \in Nat
  BY DEF DataSyms
<1>3. /\ dataModel.cum[s] \in 0 .. DataMax /\ dataModel.cum[s + 1] \in 0 .. DataMax
      /\ dataModel.cum[s] < dataModel.cum[s + 1]
  BY <1>2 DEF ArithInv, ArithTypes, DataModels, CountsInv, Apart
<1>4. /\ PartAt(s) \in Nat /\ PartAt(s + 1) \in Nat
      /\ PartAt(s) < PartAt(s + 1) /\ PartAt(s + 1) <= length
  BY <1>1, <1>3, PartOfSymbol DEF PartAt
<1> QED BY <1>1, <1>4 DEF PartEnd

\* The search ends at the symbol whose part the value is in, and counts it.
LEMMA SearchEndsKeeps == ASSUME ArithInv, SearchEnds PROVE ArithInv'
<1> DEFINE m == [dataModel EXCEPT !.freq[low] = @ + 1, !.total = @ + 1, !.left = @ - 1]
<1> USE DEF ArithInv
<1>1. /\ turn = "search" /\ Mid = low
      /\ value' = value - PartAt(low) /\ length' = PartEnd(high) - PartAt(low)
      /\ dataModel' = m
      /\ turn' = IF m.left <= 0 THEN "update" ELSE "ready"
      /\ got' = [of |-> Symbols, sym |-> low] /\ decoded' = decoded + 1
      /\ UNCHANGED <<bitModel, low, high, strayed>>
  BY DEF SearchEnds, Narrow, Returns
<1>2. /\ low \in DataSyms /\ high \in 1 .. Symbols /\ low < high /\ Symbols \in Nat
      /\ low \in Nat /\ high \in Nat /\ low \in 0 .. Symbols - 1
      /\ Wide /\ PartAt(low) <= value /\ (~strayed => value < PartEnd(high))
      /\ value \in 0 .. Top - 1 /\ length \in 1 .. Top - 1 /\ Top \in Nat /\ decoded \in Nat
  BY <1>1, SizesFact DEF ArithTypes, SearchInv, DataSyms, Sizes
<1>3. high = low + 1
  <2>1. \A l, h \in Nat : l < h /\ (l + h) \div 2 = l => h = l + 1
    OBVIOUS
  <2>2. (low + high) \div 2 = low
    BY <1>1 DEF Mid
  <2> QED BY <1>2, <2>1, <2>2
<1>4. /\ PartAt(low) \in Nat /\ PartEnd(high) \in Nat
      /\ PartAt(low) < PartEnd(high) /\ PartEnd(high) <= length
  BY <1>2, <1>3, PartsApart
<1>5. /\ value' \in 0 .. Top - 1 /\ length' \in 1 .. Top - 1
      /\ ~strayed => value' < length'
  BY <1>1, <1>2, <1>4
<1>6. /\ dataModel \in DataModels /\ SymCounts(dataModel) /\ Apart(dataModel)
      /\ dataModel.left > 0
  BY <1>1 DEF ArithTypes, CountsInv
<1>7. m \in DataModels /\ SymCounts(m) /\ m.cum = dataModel.cum /\ m.left = dataModel.left - 1
  BY <1>2, <1>6, CountingGood
<1> HIDE DEF m
<1>8. Apart(m)
  BY <1>6, <1>7 DEF Apart
<1>9. m.left \in Nat /\ (m.left <= 0 \/ m.left > 0)
  BY <1>7 DEF DataModels
<1>10. ArithTypes'
  <2>1. turn' \in {"ready", "search", "update"}
    BY <1>1
  <2> QED BY <1>1, <1>2, <1>5, <1>7, <2>1 DEF ArithTypes
<1>11. CountsInv'
  <2>1. SymCounts(dataModel)' /\ Apart(dataModel)'
    BY ONLY <1>1, <1>7, <1>8 DEF SymCounts, Apart
  <2>2. turn' # "update" => dataModel'.left > 0
    BY <1>1, <1>9
  <2>3. BitCounts(bitModel)' /\ bitModel'.left > 0
    BY <1>1 DEF CountsInv, BitCounts
  <2> QED BY <2>1, <2>2, <2>3 DEF CountsInv
<1>12. SearchInv'
  BY <1>1, <1>2 DEF SearchInv
<1>13. DecodesInside'
  BY <1>1, <1>2, <1>5 DEF DecodesInside
<1> QED BY <1>10, <1>11, <1>12, <1>13

\* An update halves the counts, or takes a snapshot when they are few enough.
LEMMA UpdateKeeps ==
  ASSUME ArithInv, Update
  PROVE  ArithInv' /\ (dataModel.total >= DataMax => dataModel'.total < dataModel.total)
<1> USE DEF ArithInv
<1>1. /\ turn = "update"
      /\ IF dataModel.total >= DataMax
         THEN dataModel' = HalvedSyms(dataModel) /\ turn' = turn
         ELSE dataModel' = Snapshot(dataModel) /\ turn' = "ready"
      /\ UNCHANGED <<value, length, bitModel, low, high, got, strayed, decoded>>
  BY DEF Update
<1>2. /\ dataModel \in DataModels /\ SymCounts(dataModel) /\ Apart(dataModel)
      /\ dataModel.total \in Nat /\ DataMax \in Nat
  BY SizesFact DEF ArithTypes, CountsInv, DataModels, Sizes
<1>3. /\ dataModel' \in DataModels /\ SymCounts(dataModel)' /\ Apart(dataModel)'
      /\ turn' # "update" => dataModel'.left > 0
      /\ dataModel.total >= DataMax => dataModel'.total < dataModel.total
  <2>1. CASE dataModel.total >= DataMax
    <3> DEFINE m == HalvedSyms(dataModel)
    <3>1. /\ m \in DataModels /\ SymCounts(m) /\ m.total < dataModel.total
          /\ m.cum = dataModel.cum
      BY <1>2, <2>1, HalvingGood
    <3>2. dataModel' = m /\ turn' = "update"
      BY <1>1, <2>1
    <3> HIDE DEF m
    <3>3. Apart(m)
      BY <1>2, <3>1 DEF Apart
    <3> QED BY ONLY <3>1, <3>2, <3>3 DEF SymCounts, Apart
  <2>2. CASE ~(dataModel.total >= DataMax)
    <3> DEFINE m == Snapshot(dataModel)
    <3>1. dataModel \in [freq : [DataSyms -> Nat \ {0}], total : Nat,
                         cum : [0 .. Symbols -> Nat], interval : Nat, left : Nat]
      BY <1>2, SizesFact DEF DataModels, Sizes
    <3>2. dataModel.total = SumsBelow(dataModel.freq)[Symbols] /\ dataModel.total < DataMax
      BY <1>2, <2>2 DEF SymCounts
    <3>3. m \in DataModels /\ SymCounts(m) /\ Apart(m) /\ m.left > 0
      BY <3>1, <3>2, SnapshotGood
    <3>4. dataModel' = m
      BY <1>1, <2>2
    <3> HIDE DEF m
    <3> QED BY ONLY <2>2, <3>3, <3>4 DEF SymCounts, Apart
  <2> QED BY <2>1, <2>2
<1>4. ArithTypes'
  <2>1. turn' \in {"ready", "search", "update"}
    BY <1>1
  <2> QED BY <1>1, <1>3, <2>1 DEF ArithTypes
<1>5. CountsInv'
  BY <1>1, <1>3 DEF CountsInv, BitCounts
<1>6. SearchInv'
  <2>1. low' < high' /\ turn' # "search"
    BY <1>1 DEF SearchInv
  <2> QED BY <2>1 DEF SearchInv
<1>7. DecodesInside'
  BY <1>1 DEF DecodesInside
<1> QED BY <1>3, <1>4, <1>5, <1>6, <1>7

\* A step in which nothing changes keeps it too.
LEMMA ArithStutter == ASSUME ArithInv, UNCHANGED arithVars PROVE ArithInv'
<1>1. UNCHANGED <<value, length, bitModel, dataModel, turn, low, high, got, strayed, decoded>>
  BY DEF arithVars
<1> QED BY <1>1 DEF ArithInv, ArithTypes, CountsInv, BitCounts, SymCounts, Apart, SearchInv,
                    Wide, PartAt, PartEnd, DecodesInside

\* Every step preserves the invariant.
LEMMA StepArith == ASSUME ArithInv, [ArithNext]_arithVars PROVE ArithInv'
<1>1. ASSUME NEW byte \in StreamBytes, Renorm(byte) PROVE ArithInv'
  BY <1>1, RenormKeeps
<1>2. CASE GetBit
  BY <1>2, GetBitKeeps
<1>3. ASSUME NEW n \in RawBits, GetRaw(n) PROVE ArithInv'
  BY <1>3, GetRawKeeps
<1>4. CASE DecodeBit
  BY <1>4, DecodeBitKeeps
<1>5. CASE SearchStarts
  BY <1>5, SearchStartsKeeps
<1>6. CASE SearchGoesOn
  BY <1>6, SearchGoesOnKeeps
<1>7. CASE SearchEnds
  BY <1>7, SearchEndsKeeps
<1>8. CASE Update
  BY <1>8, UpdateKeeps
<1>9. CASE UNCHANGED arithVars
  BY <1>9, ArithStutter
<1> QED BY <1>1, <1>2, <1>3, <1>4, <1>5, <1>6, <1>7, <1>8, <1>9 DEF ArithNext

\* The invariant always holds.
LEMMA ArithInvariant == ArithSpec => []ArithInv
<1>1. ArithInit => ArithInv
  BY InitArith
<1>2. ArithInv /\ [ArithNext]_arithVars => ArithInv'
  BY StepArith
<1> QED BY <1>1, <1>2, PTL DEF ArithSpec

\* The interval never becomes empty, and every value of every model has a part of it.
THEOREM NeverEmpty == ArithSpec => []IntervalNeverEmpty
<1>1. ArithInv => IntervalNeverEmpty
  BY DEF ArithInv, ArithTypes, CountsInv, BitModels, Apart, IntervalNeverEmpty
<1> QED BY <1>1, ArithInvariant, PTL

\* The counts stay within one interval of updates of their bounds, the total is their sum,
\* and no product of the decoder or of an update, of a count and its scale or of a
\* probability and its unit, exceeds half the word or the interval (arith.rs:46-56, 117-133,
\* 220, 269).
ProductsFit ==
  /\ bitModel.all <= BitMax + BitSpan
  /\ dataModel.total = SumsBelow(dataModel.freq)[Symbols]
  /\ dataModel.total < DataMax + SymSpan
  /\ bitModel.zero * (Half \div bitModel.all) <= Half
  /\ bitModel.prob * (length \div BitMax) <= length
  /\ \A s \in 0 .. Symbols :
       /\ (Half \div dataModel.total) * SumsBelow(dataModel.freq)[s] <= Half
       /\ PartAt(s) <= length

\* A product with a scale fits what was scaled.
LEMMA ScaledFits ==
  ASSUME NEW a \in Nat, NEW d \in Nat \ {0}, NEW k \in Nat, k <= d
  PROVE  (a \div d) * k <= a /\ k * (a \div d) <= a
<1>1. a \div d \in Nat /\ d * (a \div d) <= a
  BY Division
<1>2. (a \div d) * k <= (a \div d) * d
  BY <1>1, Products
<1>3. (a \div d) * d = d * (a \div d) /\ k * (a \div d) = (a \div d) * k
  BY <1>1
<1> QED BY <1>1, <1>2, <1>3

\* No count or product ever leaves the word.
THEOREM NothingOverflows == ArithSpec => []ProductsFit
<1>1. ASSUME ArithInv PROVE ProductsFit
  <2> USE SizesFact DEF Sizes
  <2>1. /\ bitModel.zero \in Nat \ {0} /\ bitModel.all \in Nat \ {0} /\ bitModel.prob \in Nat
        /\ bitModel.zero <= bitModel.all /\ bitModel.prob <= BitMax
        /\ bitModel.all <= BitMax + BitSpan /\ BitMax \in Nat \ {0}
        /\ length \in Nat
    BY <1>1 DEF ArithInv, ArithTypes, CountsInv, BitModels, BitCounts
  <2>2. /\ dataModel.freq \in [DataSyms -> Nat \ {0}] /\ dataModel.total \in Nat
        /\ dataModel.total = SumsBelow(dataModel.freq)[Symbols]
        /\ dataModel.total < DataMax + SymSpan
        /\ dataModel.cum \in [0 .. Symbols -> 0 .. DataMax]
    BY <1>1, SMTT(30) DEF ArithInv, ArithTypes, CountsInv, DataModels, SymCounts
  <2>3. dataModel.freq \in Freqs
    BY <2>2 DEF Freqs
  <2>4. /\ bitModel.zero * (Half \div bitModel.all) <= Half
        /\ bitModel.prob * (length \div BitMax) <= length
    BY <2>1, ScaledFits
  <2>5. dataModel.total # 0
    <3>0. 0 \in DataSyms
      BY DEF DataSyms
    <3>1. 0 \in DataSyms /\ dataModel.freq[0] \in Nat \ {0}
      BY ONLY <2>2, <3>0
    <3>2. SumsBelow(dataModel.freq)[0] + dataModel.freq[0] <= SumsBelow(dataModel.freq)[Symbols]
      BY ONLY <2>3, <3>1, SumsGrow
    <3>3. SumsBelow(dataModel.freq)[0] = 0
      BY <2>3, SumsAre
    <3> QED BY <2>2, <3>1, <3>2, <3>3
  <2>6. ASSUME NEW s \in 0 .. Symbols
        PROVE  (Half \div dataModel.total) * SumsBelow(dataModel.freq)[s] <= Half
               /\ PartAt(s) <= length
    <3>1. SumsBelow(dataModel.freq)[s] \in Nat
      BY <2>3, SumsAre
    <3>2. SumsBelow(dataModel.freq)[s] <= dataModel.total
      <4>1. CASE s = Symbols
        BY <2>2, <4>1
      <4>2. CASE s # Symbols
        <5>1. s \in DataSyms /\ dataModel.freq[s] \in Nat
          BY <2>2, <4>2 DEF DataSyms
        <5>2. SumsBelow(dataModel.freq)[s] + dataModel.freq[s] <= dataModel.total
          BY <2>2, <2>3, <5>1, SumsGrow
        <5> QED BY <2>2, <3>1, <5>1, <5>2
      <4> QED BY <4>1, <4>2
    <3>3. (Half \div dataModel.total) * SumsBelow(dataModel.freq)[s] <= Half
      <4>1. dataModel.total \in Nat \ {0} /\ Half \in Nat
        BY <2>2, <2>5
      <4> QED BY ONLY <3>1, <3>2, <4>1, ScaledFits
    <3>4. dataModel.cum[s] \in Nat /\ dataModel.cum[s] <= DataMax /\ DataMax \in Nat \ {0}
      BY <2>2
    <3>5. (length \div DataMax) * dataModel.cum[s] <= length
      BY ONLY <2>1, <3>4, ScaledFits
    <3> QED BY <3>3, <3>5 DEF PartAt
  <2> QED BY <2>1, <2>2, <2>4, <2>6 DEF ProductsFit
<1> QED BY <1>1, ArithInvariant, PTL

\* A value inside the interval stays inside it and decodes to a symbol of the alphabet.
THEOREM StaysInside == ArithSpec => []DecodesInside
<1>1. ArithInv => DecodesInside
  BY DEF ArithInv
<1> QED BY <1>1, ArithInvariant, PTL

\* Every turn of each loop brings its end nearer.
THEOREM LoopsShrink == ArithSpec => LoopsEnd
<1>1. ArithInv /\ [ArithNext]_arithVars => [LoopTurn]_arithVars
  <2>1. ASSUME ArithInv, NEW byte \in StreamBytes, Renorm(byte) PROVE length' > length
    BY <2>1, RenormKeeps
  <2>2. ASSUME ArithInv, SearchGoesOn PROVE high' - low' < high - low
    BY <2>2, SearchGoesOnKeeps
  <2>3. ASSUME ArithInv, Update, dataModel.total >= DataMax
        PROVE  dataModel'.total < dataModel.total
    BY <2>3, UpdateKeeps
  <2> QED BY <2>1, <2>2, <2>3 DEF LoopTurn
<1>2. [][LoopTurn]_arithVars => LoopsEnd
  BY DEF LoopsEnd
<1> QED BY <1>1, <1>2, ArithInvariant, PTL DEF ArithSpec

=============================================================================
