------------------------- MODULE ApproxMoveToFront -------------------------
(***************************************************************************)
(* The selector history of an ETC1S slice (src/basisu/src/basislz/amf.rs): *)
(* a ring over the back half of a buffer, whose entries move halfway to    *)
(* the front each time they are used.  Slots are numbered from 0.          *)
(***************************************************************************)
EXTENDS Integers

Slots(n) == 0..(n - 1)
Half(n) == n \div 2

\* A buffer of n slots.
AmfType(n, Values) == [values : [Slots(n) -> Values], rover : Slots(n)]

AmfNew(n) == [values |-> [i \in Slots(n) |-> 0], rover |-> Half(n)]

AmfGet(h, i) == h.values[i]

\* The bug of a ring that wraps to the start of the buffer.
WrapToZero(n, r) == IF r + 1 = n THEN 0 ELSE r + 1

\* The rover's next position.
Wrap(n, r) == IF r + 1 = n THEN Half(n) ELSE r + 1

AmfAdd(n, h, v) ==
  [values |-> [h.values EXCEPT ![h.rover] = v], rover |-> Wrap(n, h.rover)]

\* The swap of slots i and i / 2; slot 0 stays where it is.
AmfUse(n, h, i) ==
  [h EXCEPT !.values = [@ EXCEPT ![i \div 2] = h.values[i],
                                 ![i] = h.values[i \div 2]]]

\* The rover stays in the back half (amf.rs:34-36), and so never leaves the
\* buffer (the index at amf.rs:38).
RoverInBack(n, h) == h.rover \in Half(n)..(n - 1)
=============================================================================
