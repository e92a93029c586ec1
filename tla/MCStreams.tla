------------------------------ MODULE MCStreams ------------------------------
(* The decoders of a stream, one of them in each behaviour and the others at *)
(* rest: the bit reader, the Huffman tables, the arithmetic decoder and the  *)
(* block commands of the two intermediate formats.                           *)
EXTENDS BitReader, HuffmanCode, ArithDecoder, Hdr6x6Blocks, XuastcBlocks

VARIABLE which

MCDeltas == {<<-1, 0>>, <<1, -1>>, <<-1, -1>>, <<0, -2>>}
MCCem == <<7, 7, 11>>
MCParts == [tm \in 0 .. 1 |-> tm + 1]
MCPatterns == [n \in 2 .. 3 |-> IF n = 2 THEN 2 ELSE 0]

MCInit ==
  /\ which \in {"bits", "codes", "symbols", "hdr", "xuastc"}
  /\ ReaderInit /\ TableInit /\ ArithInit /\ HdrInit /\ XuastcInit
  /\ which # "codes" => total = Max(Counts)
  /\ which # "symbols" => value = Max(FirstValues) /\ dataModel = FreshSyms

Bits == UNCHANGED readerVars
Codes == UNCHANGED tableVars
Symb == UNCHANGED arithVars
Hdr == UNCHANGED hdrVars
Xuastc == UNCHANGED xuastcVars

MCNext ==
  /\ UNCHANGED which
  /\ \/ which = "bits" /\ ReaderNext /\ Codes /\ Symb /\ Hdr /\ Xuastc
     \/ which = "codes" /\ TableNext /\ Bits /\ Symb /\ Hdr /\ Xuastc
     \/ which = "symbols" /\ ArithNext /\ Bits /\ Codes /\ Hdr /\ Xuastc
     \/ which = "hdr" /\ HdrNext /\ Bits /\ Codes /\ Symb /\ Xuastc
     \/ which = "xuastc" /\ XuastcNext /\ Bits /\ Codes /\ Symb /\ Hdr

MCSpec == MCInit /\ [][MCNext]_<<which, readerVars, tableVars, arithVars, hdrVars, xuastcVars>>
=============================================================================
