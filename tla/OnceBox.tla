------------------------------ MODULE OnceBox ------------------------------
(***************************************************************************)
(* The lock-free write-once cell of src/basisu/src/once.rs: an atomic      *)
(* pointer, null until the first `get_or_init` publishes a box with a      *)
(* compare-exchange.  Callers that race the first call each build a box;   *)
(* one is stored and the others free theirs.                               *)
(*                                                                         *)
(* Memory is explicit: `heap` says what is allocated, an address that was  *)
(* freed may be handed out again, and `synced` records the happens-before  *)
(* order, i.e. whose boxes' contents a thread is allowed to read.  Reading *)
(* a box whose construction is not in `synced` is a data race.             *)
(***************************************************************************)
EXTENDS FiniteSets

CONSTANTS Callers,  \* the threads that call into the cell
          Addrs,    \* the addresses the allocator hands out
          Values,   \* what an `init` closure may build
          Null,     \* the null pointer
          Free      \* the content of an address that is not allocated

ASSUME NullAssumption == Null \notin Addrs
ASSUME FreeAssumption == Free \notin Values

VARIABLES
  heap,       \* [Addrs -> Values or Free]
  ptr,        \* the atomic pointer
  released,   \* the constructions that the last store to ptr released
  synced,     \* synced[t]: the constructions that happen before t's next step
  pc,         \* where each thread is inside get_or_init
  own,        \* own[t]: the box t built and has not published or dropped
  winner,     \* winner[t]: the pointer t's failed compare-exchange returned
  held        \* held[t]: the references t holds (they borrow the cell)

boxVars == <<heap, ptr, released, synced, pc, own, winner, held>>

----------------------------------------------------------------------------
(* State predicates and helpers. *)

NoBorrow == \A t \in Callers : pc[t] = "idle" /\ held[t] = {}

\* What thread t may read after an Acquire access that saw ptr.
AcquireView(t) == synced[t] \cup released

\* A load whose ordering was weakened to Relaxed.
RelaxedView(t) == synced[t]

\* The view after the load at once.rs:43 and once.rs:56.
LoadView(t) == AcquireView(t)

\* The view after the compare-exchange failed (its second ordering).
FailureView(t) == AcquireView(t)

\* What a successful AcqRel compare-exchange releases.
ReleaseOf(t) == synced[t]

\* A box is dropped: its address may be allocated again, and nothing about
\* the next construction at that address is known to anyone.
FreeBox(a) ==
  /\ heap' = [heap EXCEPT ![a] = Free]
  /\ synced' = [t \in Callers |-> synced[t] \ {a}]
  /\ released' = released \ {a}

----------------------------------------------------------------------------
(* Actions. *)

BoxInit ==
  /\ heap = [a \in Addrs |-> Free]
  /\ ptr = Null
  /\ released = {}
  /\ synced = [t \in Callers |-> {}]
  /\ pc = [t \in Callers |-> "idle"]
  /\ own = [t \in Callers |-> Null]
  /\ winner = [t \in Callers |-> Null]
  /\ held = [t \in Callers |-> {}]

\* The bug of a load whose result is not tested against null.
LoadUnchecked(t) ==
  /\ pc[t] = "idle"
  /\ held' = [held EXCEPT ![t] = @ \cup {ptr}]
  /\ synced' = [synced EXCEPT ![t] = LoadView(t)]
  /\ UNCHANGED <<heap, ptr, released, pc, own, winner>>

\* `get` (or the first load of `get_or_init`) finds a stored box.
LoadHit(t) ==
  /\ pc[t] = "idle"
  /\ ptr # Null
  /\ held' = [held EXCEPT ![t] = @ \cup {ptr}]
  /\ synced' = [synced EXCEPT ![t] = LoadView(t)]
  /\ UNCHANGED <<heap, ptr, released, pc, own, winner>>

\* The first load of `get_or_init` finds null: run the closure.  (`get`
\* returns None here and changes nothing.)
LoadMiss(t) ==
  /\ pc[t] = "idle"
  /\ ptr = Null
  /\ pc' = [pc EXCEPT ![t] = "init"]
  /\ UNCHANGED <<heap, ptr, released, synced, own, winner, held>>

\* `Box::into_raw(init())`.
BuildBox(t) ==
  /\ pc[t] = "init"
  /\ \E a \in Addrs, v \in Values :
       /\ heap[a] = Free
       /\ heap' = [heap EXCEPT ![a] = v]
       /\ own' = [own EXCEPT ![t] = a]
       /\ synced' = [synced EXCEPT ![t] = @ \cup {a}]
  /\ pc' = [pc EXCEPT ![t] = "cas"]
  /\ UNCHANGED <<ptr, released, winner, held>>

\* The bug of a plain store in place of the compare-exchange.
StoreAlways(t) ==
  /\ pc[t] = "cas"
  /\ ptr' = own[t]
  /\ released' = ReleaseOf(t)
  /\ held' = [held EXCEPT ![t] = @ \cup {own[t]}]
  /\ own' = [own EXCEPT ![t] = Null]
  /\ pc' = [pc EXCEPT ![t] = "idle"]
  /\ UNCHANGED <<heap, synced, winner>>

\* The compare-exchange succeeds: the box is published and returned.
CasWin(t) ==
  /\ pc[t] = "cas"
  /\ ptr = Null
  /\ ptr' = own[t]
  /\ released' = ReleaseOf(t)
  /\ held' = [held EXCEPT ![t] = @ \cup {own[t]}]
  /\ own' = [own EXCEPT ![t] = Null]
  /\ pc' = [pc EXCEPT ![t] = "idle"]
  /\ UNCHANGED <<heap, synced, winner>>

\* The bug of retrying until the cell is null again.
CasSpin(t) ==
  /\ pc[t] = "cas"
  /\ ptr # Null
  /\ UNCHANGED boxVars

\* The compare-exchange fails and returns the winner's pointer.
CasLose(t) ==
  /\ pc[t] = "cas"
  /\ ptr # Null
  /\ winner' = [winner EXCEPT ![t] = ptr]
  /\ synced' = [synced EXCEPT ![t] = FailureView(t)]
  /\ pc' = [pc EXCEPT ![t] = "lost"]
  /\ UNCHANGED <<heap, ptr, released, own, held>>

\* The bug of returning the winner without reclaiming the loser's box.
KeepOwn(t) ==
  /\ pc[t] = "lost"
  /\ own' = [own EXCEPT ![t] = Null]
  /\ held' = [held EXCEPT ![t] = @ \cup {winner[t]}]
  /\ winner' = [winner EXCEPT ![t] = Null]
  /\ pc' = [pc EXCEPT ![t] = "idle"]
  /\ UNCHANGED <<ptr, heap, synced, released>>

\* The bug of reclaiming one's own box and then returning it anyway.
ReturnOwn(t) ==
  /\ pc[t] = "lost"
  /\ FreeBox(own[t])
  /\ own' = [own EXCEPT ![t] = Null]
  /\ held' = [held EXCEPT ![t] = @ \cup {own[t]}]
  /\ winner' = [winner EXCEPT ![t] = Null]
  /\ pc' = [pc EXCEPT ![t] = "idle"]
  /\ UNCHANGED ptr

\* The loser frees its own box and returns the winner's.
DropOwn(t) ==
  /\ pc[t] = "lost"
  /\ FreeBox(own[t])
  /\ own' = [own EXCEPT ![t] = Null]
  /\ held' = [held EXCEPT ![t] = @ \cup {winner[t]}]
  /\ winner' = [winner EXCEPT ![t] = Null]
  /\ pc' = [pc EXCEPT ![t] = "idle"]
  /\ UNCHANGED ptr

\* The references a thread holds go out of scope.
EndBorrow(t) ==
  /\ pc[t] = "idle"
  /\ held[t] # {}
  /\ held' = [held EXCEPT ![t] = {}]
  /\ UNCHANGED <<heap, ptr, released, synced, pc, own, winner>>

\* `Drop` of a non-static cell, and `new` of the next one at its place.  The
\* borrow checker grants `&mut self` only when no borrow is left; handing the
\* cell over orders this after everything the other threads did.
DropCell ==
  /\ NoBorrow
  /\ ptr # Null
  /\ FreeBox(ptr)
  /\ ptr' = Null
  /\ UNCHANGED <<pc, own, winner, held>>

Step(t) ==
  LoadHit(t) \/ LoadMiss(t) \/ BuildBox(t) \/ CasWin(t) \/ CasLose(t)
    \/ DropOwn(t) \/ EndBorrow(t)

BoxNext == DropCell \/ \E t \in Callers : Step(t)

\* A started call is run to its end by its thread's scheduler; nobody is
\* obliged to start one, to end a borrow or to drop the cell.
Fairness ==
  \A t \in Callers : WF_boxVars(BuildBox(t) \/ CasWin(t) \/ CasLose(t) \/ DropOwn(t))

BoxSpec == BoxInit /\ [][BoxNext]_boxVars
BoxFairSpec == BoxSpec /\ Fairness

----------------------------------------------------------------------------
(* Properties. *)

BoxTypeOK ==
  /\ heap \in [Addrs -> Values \cup {Free}]
  /\ ptr \in Addrs \cup {Null}
  /\ released \in SUBSET Addrs
  /\ synced \in [Callers -> SUBSET Addrs]
  /\ pc \in [Callers -> {"idle", "init", "cas", "lost"}]
  /\ own \in [Callers -> Addrs \cup {Null}]
  /\ winner \in [Callers -> Addrs \cup {Null}]
  /\ held \in [Callers -> SUBSET Addrs]

\* Every allocated box has exactly one owner, the cell or one thread that
\* is still in the race: no leak, no double free, no box freed while stored.
\* (once.rs:58-71 hands a box over between `into_raw` and `from_raw`.)
OneOwner ==
  /\ \A a \in Addrs :
       heap[a] # Free <=> a = ptr \/ \E t \in Callers : own[t] = a
  /\ \A t \in Callers : own[t] # Null => own[t] # ptr
  /\ \A t, u \in Callers : t # u /\ own[t] # Null => own[t] # own[u]

\* Every reference ever returned and still held is to the stored box: racing
\* callers agree (once.rs:52-54, "both then read the stored value").
Agreement == \A t \in Callers : held[t] \subseteq {ptr}

\* No reference is dangling and no thread reads a box whose construction is
\* not ordered before the read (the two SAFETY comments, once.rs:47 and 75).
NoRace ==
  \A t \in Callers : \A a \in held[t] : heap[a] # Free /\ a \in synced[t]

\* What makes the three above inductive: the stored box's construction was
\* released with it; a thread owns a box exactly between `into_raw` and the
\* end of the race, and may read it; a loser knows the stored box, and may
\* read it (the Acquire failure ordering at once.rs:63).
Handover ==
  /\ ptr # Null => ptr \in released
  /\ \A t \in Callers : pc[t] \in {"cas", "lost"} <=> own[t] # Null
  /\ \A t \in Callers : own[t] # Null => own[t] \in synced[t]
  /\ \A t \in Callers :
       pc[t] = "lost" => ptr # Null /\ winner[t] = ptr /\ ptr \in synced[t]

\* While anything is borrowed, the cell neither changes nor moves.
StableWhileHeld ==
  [][(\E t \in Callers : held[t] # {}) => ptr' = ptr /\ heap'[ptr] = heap[ptr]]_boxVars

\* Lock freedom as callers see it: a started call returns.
CallsReturn == \A t \in Callers : pc[t] # "idle" ~> pc[t] = "idle"

----------------------------------------------------------------------------
(* The abstract cell this implements. *)

Cell ==
  INSTANCE WriteOnceCell WITH
    Unset <- Free,
    cell <- IF ptr = Null THEN Free ELSE heap[ptr],
    seen <- [t \in Callers |-> {heap[a] : a \in held[t]}]

ImplementsCell == Cell!CellSpec
=============================================================================
