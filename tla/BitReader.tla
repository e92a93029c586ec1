------------------------------ MODULE BitReader ------------------------------
(***************************************************************************)
(* The BasisLZ bit reader (basislz/decoder.rs).  A read fills a small      *)
(* buffer byte by byte and takes bits off its low end.  What a bit says    *)
(* does not matter here, only which bit of the stream it is: bit b of the  *)
(* stream is the number b, counted from 1, and a cell of the buffer is the *)
(* set of the stream bits that were or-ed into it.  A zero bit, also one   *)
(* of the padding past the end, is the empty set.                          *)
(***************************************************************************)
EXTENDS Integers, Sequences

CONSTANTS
  Width,    \* bits of bit_buf: 32
  Split,    \* the longest read that is not split: 25
  Look,     \* bits that Huffman and Rice decoding look at: 16
  Bytes,    \* length of the stream in bytes
  Reads,    \* the lengths that get_bits is called with
  MaxTaken  \* bound: no new call once this many bits are taken

ASSUME ReaderAssumption ==
  /\ Width \in Nat /\ Split \in Nat /\ Look \in Nat /\ Bytes \in Nat /\ MaxTaken \in Nat
  /\ Look <= Split /\ Split + 7 <= Width
  /\ Reads \subseteq 0 .. 2 * Split

VARIABLES
  pos,         \* bytes taken from the stream
  bitBuf,      \* the cells of bit_buf, the oldest at 0
  bitBufSize,  \* how many of them are valid
  call,        \* the read in progress: what it is, the bits it wants now and after that
  taken,       \* history: bits consumed so far
  start,       \* history: bits consumed before the current call
  out          \* the bits that the current or the last call took

readerVars == <<pos, bitBuf, bitBufSize, call, taken, start, out>>

Idle == [op |-> "idle", want |-> 0, rest |-> 0]

ReaderInit ==
  /\ pos = 0 /\ bitBufSize = 0 /\ taken = 0 /\ start = 0
  /\ bitBuf = [i \in 0 .. Width - 1 |-> {}]
  /\ call = Idle
  /\ out = << >>

(***************************************************************************)
(* Calls.  Each first says how many bits have to be in the buffer.         *)
(***************************************************************************)
Call(op, want, rest) ==
  /\ call = Idle /\ taken < MaxTaken
  /\ call' = [op |-> op, want |-> want, rest |-> rest]
  /\ start' = taken /\ out' = << >>
  /\ UNCHANGED <<pos, bitBuf, bitBufSize, taken>>

\* the bug of a read of up to 32 bits that is not split
NotSplit(n) == n

FirstPart(n) == IF n > Split THEN Split ELSE n

GetBits(n) == Call("get", FirstPart(n), n - FirstPart(n))

DecodeHuffman == Call("huffman", Look, 0)

\* the m is for the remainder, which get_bits reads as m + 1 bits
DecodeRice(m) == Call("rice", Look, m + 1)

(***************************************************************************)
(* One turn of the refill loop: the next byte, or zeros past the end, is   *)
(* or-ed in above the valid bits.  A bit shifted past the width is lost.   *)
(***************************************************************************)
StreamBit(b) == IF b <= 8 * Bytes THEN {b} ELSE {}

RefillAt(n) == bitBufSize < n

Refill ==
  /\ call # Idle /\ RefillAt(call.want)
  /\ pos' = IF pos < Bytes THEN pos + 1 ELSE pos
  /\ bitBuf' = [i \in 0 .. Width - 1 |->
       IF i \in bitBufSize .. bitBufSize + 7 /\ pos < Bytes
       THEN bitBuf[i] \cup {8 * pos + (i - bitBufSize) + 1}
       ELSE bitBuf[i]]
  /\ bitBufSize' = bitBufSize + 8
  /\ UNCHANGED <<call, taken, start, out>>

\* the buffer holds what the call wants, and k bits are taken off its low end
Take(k) ==
  /\ ~RefillAt(call.want)
  /\ out' = out \o [i \in 1 .. k |-> bitBuf[i - 1]]
  /\ bitBuf' = [i \in 0 .. Width - 1 |-> IF i + k < Width THEN bitBuf[i + k] ELSE {}]
  /\ bitBufSize' = bitBufSize - k
  /\ taken' = taken + k
  /\ UNCHANGED <<pos, start>>

\* the first 25 bits of a long read
GetFirstPart ==
  /\ call.op = "get" /\ call.rest > 0
  /\ Take(call.want)
  /\ call' = [call EXCEPT !.want = call.rest, !.rest = 0]

GetEnds ==
  /\ call.op = "get" /\ call.rest = 0
  /\ Take(call.want)
  /\ call' = Idle

\* a code of k bits was found among the bits looked at
HuffmanEnds(k) ==
  /\ call.op = "huffman"
  /\ Take(k)
  /\ call' = Idle

\* all the bits looked at are ones, and none of them is padding
RiceGoesOn ==
  /\ call.op = "rice" /\ taken + Look <= 8 * Bytes
  /\ Take(Look)
  /\ UNCHANGED call

\* the run of ones ends after l bits, and the remainder is read
RiceRemainder(l) ==
  /\ call.op = "rice"
  /\ Take(l)
  /\ call' = [op |-> "get", want |-> FirstPart(call.rest),
              rest |-> call.rest - FirstPart(call.rest)]

ReaderNext ==
  \/ \E n \in Reads : GetBits(n) \/ (n + 1 \in Reads /\ DecodeRice(n))
  \/ DecodeHuffman
  \/ Refill
  \/ GetFirstPart
  \/ GetEnds
  \/ \E k \in 0 .. Look : HuffmanEnds(k)
  \/ RiceGoesOn
  \/ \E l \in 0 .. Look - 1 : RiceRemainder(l)

ReaderSpec == ReaderInit /\ [][ReaderNext]_readerVars

\* the bug of buffered bits that are not counted
RemainingOfBytes == (Bytes - pos) * 8

BitsRemaining == (Bytes - pos) * 8 + bitBufSize

-----------------------------------------------------------------------------
(***************************************************************************)
(* Properties.                                                             *)
(***************************************************************************)

\* the buffer holds the next bits of the stream, then the padding, and nothing above
BufferIsNextBits ==
  \A i \in 0 .. Width - 1 :
    bitBuf[i] = IF i < bitBufSize THEN StreamBit(taken + i + 1) ELSE {}

\* a call has returned the bits that follow the call before it
OutIsNextBits ==
  /\ Len(out) = taken - start
  /\ \A i \in 1 .. Len(out) : out[i] = StreamBit(start + i)

\* Whatever calls come one after another, each returns the next bits of the stream in
\* order: no refill pushes a bit over the top of the buffer, no bit that was taken is left
\* behind for a later byte to be or-ed into, and none is missing or doubled where a long
\* read is put together of two (basislz/decoder.rs:81-118, 185-214).
ReadsInOrder == BufferIsNextBits /\ OutIsNextBits

\* bits_remaining (decoder.rs:122-124) never reports less than is left, so a sound stream
\* is never refused as truncated.  It may report more, the padding that a refill has
\* pulled in, but between calls only when it is down to what one look leaves over.
RemainingIsClose ==
  /\ BitsRemaining >= 8 * Bytes - taken
  /\ call = Idle /\ BitsRemaining > Look + 7 => BitsRemaining = 8 * Bytes - taken

=============================================================================
