---------------------------- MODULE MCEtc1sVideo ----------------------------
(* Files of a few frames and three blocks: the third block is coded relative *)
(* to the first, as one row below it.                                        *)
EXTENDS Etc1sVideo

MCRef == <<0, 1, 1>>

\* The same blocks for every level; the two slices differ in their values.
File(hasAlpha, colour, alpha, replenished, corrupt) ==
  [value |-> [p \in Places |->
                IF p[1][2] = "colour" THEN colour[p[2] + 1][p[3]] ELSE alpha[p[2] + 1][p[3]]],
   of |-> [p \in Places |-> MCRef[p[3]]],
   cr |-> {p \in Places : <<p[1][2], p[2], p[3]>> \in replenished},
   bad |-> {p \in Places : <<p[1][2], p[2], p[3]>> \in corrupt},
   alpha |-> hasAlpha]

\* Three frames. The first leaves an unset block to the fresh state, the
\* second replenishes the block the others are coded relative to.
MCColour == << <<1, 0, 2>>, <<1, 2, 0>>, <<2, 2, 0>> >>
MCAlpha == << <<2, 1, 0>>, <<2, 1, 1>>, <<2, 0, 1>> >>
MCReplenished ==
  {<<"colour", 0, 2>>, <<"colour", 1, 1>>, <<"colour", 2, 2>>,
   <<"alpha", 0, 3>>, <<"alpha", 1, 1>>, <<"alpha", 2, 1>>, <<"alpha", 2, 3>>}

MCFiles ==
  {File(TRUE, MCColour, MCAlpha, MCReplenished, {}),
   File(FALSE, MCColour, MCAlpha, MCReplenished, {}),
   File(TRUE, MCColour, MCAlpha, MCReplenished, {<<"colour", 1, 2>>, <<"alpha", 2, 1>>})}
MCWhole == {File(TRUE, MCColour, MCAlpha, MCReplenished, {})}
=============================================================================
