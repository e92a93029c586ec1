--------------------------- MODULE MCSliceIndices ---------------------------
(* A slice of a few blocks, wide enough for a second column and a second     *)
(* group, high enough for the two rows of the ring to come round.            *)
EXTENDS SliceIndices

\* Prediction symbols, as the predictions of the group's four blocks.
Sym(a, b, c, d) == a + 4 * b + 16 * c + 64 * d

MCStillSyms == {Sym(3, 0, 1, 2), Sym(3, 3, 3, 1), Sym(1, 2, 3, 0)}
MCVideoSyms == {Sym(3, 0, 2, 3), Sym(2, 3, 1, 2)}
MCVideoBefore == {<<1, 0>>, <<0, 2>>}
MCOldZero == {<<0, 0>>}
=============================================================================
