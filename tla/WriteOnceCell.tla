--------------------------- MODULE WriteOnceCell ---------------------------
(***************************************************************************)
(* What a `OnceBox` promises to its users (src/basisu/src/once.rs, the     *)
(* doc comments of the type, of `get` and of `get_or_init`): a cell that   *)
(* is written at most once, whose readers all see that one value, for as   *)
(* long as the cell lives.  There are no addresses, no allocation and no   *)
(* memory ordering here; OnceBox.tla is the code and implements this.      *)
(***************************************************************************)

CONSTANTS Callers,  \* the threads that share the cell
          Values,   \* what an `init` closure may build
          Unset     \* the content of an empty cell

VARIABLES cell,     \* the content of the cell
          seen      \* seen[t]: the contents of the references t holds

cellVars == <<cell, seen>>

CellInit ==
  /\ cell = Unset
  /\ seen = [t \in Callers |-> {}]

\* A call returns a reference: to what the cell holds, or, when it holds
\* nothing yet, to the value one of the racing closures built.
Return(t) ==
  \E v \in Values :
    /\ cell' = IF cell = Unset THEN v ELSE cell
    /\ seen' = [seen EXCEPT ![t] = @ \cup {cell'}]

\* A thread ends its borrows.
Forget(t) ==
  /\ seen' = [seen EXCEPT ![t] = {}]
  /\ cell' = cell

\* The cell dies, when no reference into it is left.
Discard ==
  /\ \A t \in Callers : seen[t] = {}
  /\ cell' = Unset
  /\ seen' = seen

CellNext ==
  \/ \E t \in Callers : Return(t) \/ Forget(t)
  \/ Discard

CellSpec == CellInit /\ [][CellNext]_cellVars
=============================================================================
