---------------------------- MODULE LazyTables ----------------------------
(***************************************************************************)
(* The ETC1S solution tables supplied at runtime                           *)
(* (src/basisu/src/tables/lazy.rs), and the code that reads them.          *)
(*                                                                         *)
(* Each table lives in a static write-once cell, a slot; a family is the   *)
(* group of slots one bundle fills.  `install` fills the slots of a family *)
(* one by one, `installed` looks at them one by one, and a transcode that  *)
(* was let through by `Transcoder::supports` loads them again, block after *)
(* block, with an `expect` that panics on an empty slot.  Any thread may   *)
(* do any of the three at any time.  The ASTC path also caches a mapping   *)
(* derived from each of its tables (basislz/astc_tables.rs).               *)
(*                                                                         *)
(* A slot is used at the granularity of the write-once cell that           *)
(* once.rs implements (OnceBox.tla, theorem Implementation): one call, one *)
(* step.  A table is the name of the bundle it came from.                  *)
(***************************************************************************)
EXTENDS Naturals, Sequences, FiniteSets

CONSTANTS Threads,
          Contents,       \* what distinguishes the tables of two bundles
          None,           \* the content of an empty slot
          EmbeddedTables, \* the `embedded-tables` feature
          MaxBlocks       \* blocks of one transcode (a bound of the model)

ASSUME ContentsAssumption == Contents # {}
ASSUME NoneAssumption == None \notin Contents
ASSUME EmbeddedAssumption == EmbeddedTables \in BOOLEAN
ASSUME BlocksAssumption == MaxBlocks \in Nat \ {0}

----------------------------------------------------------------------------
(* Families, slots, targets and bundle headers. *)

Families == {"Astc", "Bc"}
NoFamily == "NoFamily"
Slots == {"ASTC", "ASTC_0_255", "BC7_M5_COLOR", "DXT_5", "DXT_6"}
Targets == {"Astc4x4Rgba", "Bc1Rgb", "Bc3Rgba", "Bc7Rgba", "Rgba32"}

SlotsOf(f) ==
  IF f = "Astc" THEN <<"ASTC", "ASTC_0_255">> ELSE <<"BC7_M5_COLOR", "DXT_5", "DXT_6">>

TableCount(f) == Len(SlotsOf(f))

\* The bug of a target whose tables are read but not gated.
ForgetsBc3(target) ==
  CASE target = "Astc4x4Rgba" -> "Astc"
    [] target \in {"Bc1Rgb", "Bc7Rgba"} -> "Bc"
    [] OTHER -> NoFamily

\* The family an ETC1S transcode to `target` must have.
ForTarget(target) ==
  CASE target = "Astc4x4Rgba" -> "Astc"
    [] target \in {"Bc1Rgb", "Bc3Rgba", "Bc7Rgba"} -> "Bc"
    [] OTHER -> NoFamily

\* The slots its block converters load for every block, in order.
Loads(target) ==
  CASE target = "Astc4x4Rgba" -> <<"ASTC", "ASTC_0_255">>
    [] target \in {"Bc1Rgb", "Bc3Rgba"} -> <<"DXT_5", "DXT_6">>
    [] target = "Bc7Rgba" -> <<"BC7_M5_COLOR">>
    [] OTHER -> << >>

\* A bundle: its header fields and, for its tables, where they come from.
\* Lengths count the header as one unit and a table as one.
Bundle ==
  [magic : BOOLEAN, id : 0..2, count : 2..3, len : 0..5, content : Contents]

FamilyOfId(id) == IF id = 0 THEN "Astc" ELSE IF id = 1 THEN "Bc" ELSE NoFamily

BundleLen(f) == 1 + TableCount(f)

\* The bug of trusting the header's count for the length.
UncheckedLength(b) ==
  LET f == FamilyOfId(b.id)
  IN  IF b.len < 1 \/ ~b.magic THEN "BadMagic"
      ELSE IF f = NoFamily THEN "UnknownFamily"
      ELSE IF b.count # TableCount(f) THEN "BadTableCount"
      ELSE "Ok"

\* `bundle_family`: the checks in their order, and the first that fails.
BundleFamily(b) ==
  LET f == FamilyOfId(b.id)
  IN  IF b.len < 1 \/ ~b.magic THEN "BadMagic"
      ELSE IF f = NoFamily THEN "UnknownFamily"
      ELSE IF b.count # TableCount(f) THEN "BadTableCount"
      ELSE IF b.len # BundleLen(f) THEN "BadLength"
      ELSE "Ok"

----------------------------------------------------------------------------
VARIABLES
  slot,     \* [Slots -> Contents or None]
  cache,    \* the derived mapping per slot: what it was derived from
  job,      \* job[t]: what thread t is doing, with its local variables
  \* history, for the properties only
  first,    \* first[f]: the content of the first install of f that started
  raced,    \* raced[f]: two installs of f were in progress at once
  returned  \* returned[f]: an install of f returned Ok

shared == <<slot, cache>>
history == <<first, raced, returned>>
vars == <<shared, job, history>>

\* Whether a slot's cell is set.
Stored(s) == slot[s] # None
Complete(f) == EmbeddedTables \/ \A i \in 1..TableCount(f) : Stored(SlotsOf(f)[i])

\* Whether `table` returns at all, and the table it returns.
Readable(s) == EmbeddedTables \/ Stored(s)
Embedded == CHOOSE c \in Contents : TRUE
TableAt(s) == IF EmbeddedTables THEN Embedded ELSE slot[s]

\* A thread outside every call.  at: the point in the call; fam, next: the
\* family and the next of its slots (or of the loads) to visit; content, len:
\* of an install's bundle; target, block: of a transcode, with the blocks
\* finished; seen: the tables loaded from each slot so far; key, value: the
\* mapping a closure is building and the table it is built from.
Idle ==
  [at |-> "idle", fam |-> NoFamily, next |-> 1, content |-> None, len |-> 0,
   target |-> "Rgba32", block |-> 0, seen |-> [s \in Slots |-> {}],
   key |-> "ASTC", value |-> None]

Init ==
  /\ slot = [s \in Slots |-> None]
  /\ cache = [s \in Slots |-> None]
  /\ job = [t \in Threads |-> Idle]
  /\ first = [f \in Families |-> None]
  /\ raced = [f \in Families |-> FALSE]
  /\ returned = [f \in Families |-> FALSE]

Becomes(t, j) == job' = [job EXCEPT ![t] = j]

----------------------------------------------------------------------------
(* install *)

Installing(t, f) == job[t].at = "install" /\ job[t].fam = f

\* The bundle passes `bundle_family`; with embedded tables that is all.
\* (A refused bundle changes nothing.)
InstallStart(t, b) ==
  LET f == FamilyOfId(b.id)
  IN  /\ job[t].at = "idle"
      /\ BundleFamily(b) = "Ok"
      /\ IF EmbeddedTables
         THEN /\ returned' = [returned EXCEPT ![f] = TRUE]
              /\ UNCHANGED <<job, first, raced>>
         ELSE /\ Becomes(t, [Idle EXCEPT !.at = "install", !.fam = f,
                                         !.content = b.content, !.len = b.len])
              /\ first' = [first EXCEPT ![f] = IF @ = None THEN b.content ELSE @]
              /\ raced' = [raced EXCEPT
                             ![f] = @ \/ \E u \in Threads : Installing(u, f)]
              /\ UNCHANGED returned
      /\ UNCHANGED shared

\* The bug of a plain store in place of `get_or_init`.
Overwrite(s, c) == slot' = [slot EXCEPT ![s] = c]

\* `slot.get_or_init(|| parse_table(..))`: the cell keeps what it holds.
GetOrInit(s, c) == slot' = [slot EXCEPT ![s] = IF @ = None THEN c ELSE @]

\* The bug of stopping one slot early.
LastButOne(j) == j.next >= TableCount(j.fam) - 1

\* Whether the loop is at the family's last slot.
AtLast(j) == j.next = TableCount(j.fam)

\* One iteration of the loop over the family's slots, and Ok after the last.
InstallSlot(t) ==
  LET j == job[t]
  IN  /\ j.at = "install"
      /\ GetOrInit(SlotsOf(j.fam)[j.next], j.content)
      /\ Becomes(t, IF AtLast(j) THEN Idle ELSE [j EXCEPT !.next = @ + 1])
      /\ returned' = [returned EXCEPT ![j.fam] = @ \/ AtLast(j)]
      /\ UNCHANGED <<cache, first, raced>>

----------------------------------------------------------------------------
(* supports, then the transcode it gates *)

\* An ETC1S transcode is requested: `supports` runs first.  A target that
\* loads no table is done with this module at once.
TranscodeStart(t, tg) ==
  /\ job[t].at = "idle"
  /\ Loads(tg) # << >> \/ ForTarget(tg) # NoFamily
  /\ Becomes(t, [Idle EXCEPT !.target = tg, !.fam = ForTarget(tg),
                   !.at = IF ForTarget(tg) # NoFamily /\ ~EmbeddedTables
                          THEN "check" ELSE "load"])
  /\ UNCHANGED <<shared, history>>

\* The bug of `any` in place of `all` in `installed`.
CheckAny(t) ==
  LET j == job[t]
      here == Stored(SlotsOf(j.fam)[j.next])
  IN  /\ j.at = "check"
      /\ Becomes(t, IF here THEN [j EXCEPT !.at = "load", !.next = 1]
                    ELSE IF AtLast(j) THEN Idle
                    ELSE [j EXCEPT !.next = @ + 1])
      /\ UNCHANGED <<shared, history>>

\* The bug of waiting for an install in place of refusing.
CheckWait(t) ==
  LET j == job[t]
      here == Stored(SlotsOf(j.fam)[j.next])
  IN  /\ j.at = "check"
      /\ Becomes(t, IF ~here THEN j
                    ELSE IF AtLast(j) THEN [j EXCEPT !.at = "load", !.next = 1]
                    ELSE [j EXCEPT !.next = @ + 1])
      /\ UNCHANGED <<shared, history>>

\* `installed`: one slot of the family is looked at; an empty one ends the
\* call with Error::Unsupported, the last full one lets the transcode start.
CheckSlot(t) ==
  LET j == job[t]
      here == Stored(SlotsOf(j.fam)[j.next])
  IN  /\ j.at = "check"
      /\ Becomes(t, IF ~here THEN Idle
                    ELSE IF AtLast(j) THEN [j EXCEPT !.at = "load", !.next = 1]
                    ELSE [j EXCEPT !.next = @ + 1])
      /\ UNCHANGED <<shared, history>>

\* The next block of the transcode, or its end.
Resume(j) ==
  IF j.block < MaxBlocks THEN [j EXCEPT !.at = "load", !.next = 1] ELSE Idle

\* The thread panicked and is gone.
Panic == [Idle EXCEPT !.at = "panic"]

\* `table(slot)`: one load; on an empty slot the `expect` panics.  After a
\* block's last load an ASTC block may go on to ask for a derived mapping.
LoadTable(t) ==
  LET j == job[t]
      s == Loads(j.target)[j.next]
      loaded == [j EXCEPT !.seen[s] = @ \cup {TableAt(s)}]
      finished == [loaded EXCEPT !.block = @ + 1]
  IN  /\ j.at = "load"
      /\ IF ~Readable(s) THEN Becomes(t, Panic)
         ELSE IF j.next < Len(Loads(j.target))
              THEN Becomes(t, [loaded EXCEPT !.next = @ + 1])
         ELSE \/ Becomes(t, Resume(finished))
              \/ /\ j.target = "Astc4x4Rgba"
                 /\ Becomes(t, [finished EXCEPT !.at = "derive"])
      /\ UNCHANGED <<shared, history>>

\* A grey block asks for the cached best mapping of one of the ASTC tables:
\* a hit returns it; a miss runs the closure, which loads both tables.
DeriveStart(t, s) ==
  LET j == job[t]
  IN  /\ j.at = "derive"
      /\ Becomes(t,
           IF cache[s] # None THEN Resume(j)
           ELSE IF Readable("ASTC") /\ Readable("ASTC_0_255")
           THEN [j EXCEPT !.at = "publish", !.key = s, !.value = TableAt(s)]
           ELSE Panic)
      /\ UNCHANGED <<shared, history>>

\* The bug of the two mappings' closures mixed up.
OtherKey(j) == IF j.key = "ASTC" THEN "ASTC_0_255" ELSE "ASTC"

\* The cell a derived mapping is cached in: that of the table it was built from.
CacheKey(j) == j.key

\* The mapping is published, unless another thread was first.
DerivePublish(t) ==
  LET j == job[t]
  IN  /\ j.at = "publish"
      /\ cache' = [cache EXCEPT ![CacheKey(j)] = IF @ = None THEN j.value ELSE @]
      /\ Becomes(t, Resume(j))
      /\ UNCHANGED <<slot, history>>

----------------------------------------------------------------------------
AstcSlots == {"ASTC", "ASTC_0_255"}

Advance(t) ==
  \/ InstallSlot(t) \/ CheckSlot(t) \/ LoadTable(t) \/ DerivePublish(t)
  \/ \E s \in AstcSlots : DeriveStart(t, s)

Begin(t) ==
  \/ \E b \in Bundle : InstallStart(t, b)
  \/ \E tg \in Targets : TranscodeStart(t, tg)

Next == \E t \in Threads : Begin(t) \/ Advance(t)

\* A call that was started is scheduled; nobody must start one.
Spec == Init /\ [][Next]_vars
FairSpec == Spec /\ \A t \in Threads : WF_vars(Advance(t))

----------------------------------------------------------------------------
(* Properties. *)

Contained(f) == {SlotsOf(f)[i] : i \in 1..TableCount(f)}

Job ==
  [at : {"idle", "install", "check", "load", "derive", "publish", "panic"},
   fam : Families \cup {NoFamily}, next : 1..3,
   content : Contents \cup {None}, len : 0..5,
   target : Targets, block : 0..MaxBlocks,
   seen : [Slots -> SUBSET Contents],
   key : AstcSlots, value : Contents \cup {None}]

TypeOK ==
  /\ slot \in [Slots -> Contents \cup {None}]
  /\ cache \in [Slots -> Contents \cup {None}]
  /\ job \in [Threads -> Job]
  /\ first \in [Families -> Contents \cup {None}]
  /\ raced \in [Families -> BOOLEAN]
  /\ returned \in [Families -> BOOLEAN]

\* The `expect` in `table` never fires ("a reader only runs behind
\* `ready_for`", lazy.rs:235): no load of a transcode, and none of a derived
\* mapping's closure, meets an empty slot, whatever installs are going on.
NoUnreadyRead == \A t \in Threads : job[t].at # "panic"

\* Once an install of a family has returned Ok to anyone, `installed` holds,
\* also when the loop found some of the slots filled by a racing install.
ReturnedMeansInstalled == \A f \in Families : returned[f] => Complete(f)

\* Without racing installs "a family installed twice keeps the first tables" (lazy.rs:158)
\* is the whole truth: all of them are those of the install that started first.
SerialInstallKeepsFirst ==
  \A f \in Families : ~raced[f] =>
    \A s \in Contained(f) : slot[s] \in {None, first[f]}

\* A transcode reads one and the same table in all of its blocks.
OneTablePerCall ==
  \A t \in Threads : \A s \in Slots : Cardinality(job[t].seen[s]) <= 1

\* What a transcode reads is the tables of one bundle, in all slots and all blocks, and so
\* is a mapping that it finds in the cache, whatever other installs and transcodes do
\* between its reads: only installs that raced can mix them (lazy.rs:158-169, 243-270).
OneBundlePerTranscode ==
  \A t \in Threads : \A f \in Families :
    f = ForTarget(job[t].target) /\ ~raced[f] =>
      \A s, r \in Contained(f) : \A c \in job[t].seen[s] :
        job[t].seen[r] \subseteq {c} /\ cache[r] \in {None, c}

\* A cached mapping is the mapping of the table that is used with it, though
\* it was built from a read made before the publication.
DerivedFresh == \A s \in Slots : cache[s] # None => cache[s] = TableAt(s)

\* The slice of the bundle an install cuts for a table lies in the bundle.
SliceInBounds ==
  \A t \in Threads : job[t].at = "install" => 1 + job[t].next <= job[t].len

\* Why the properties above hold: what a thread in the middle of a call knows
\* stays true, whatever the others do.  The slots an install or a check has
\* passed are filled; past the check, the target's whole family is; what was
\* read is what the slot still holds, in a transcode, in a closure and in the
\* cache.
Passed(j) ==
  j.at \in {"install", "check"} =>
    /\ ~EmbeddedTables
    /\ j.fam \in Families
    /\ j.next \in 1..TableCount(j.fam)
    /\ \A i \in 1..TableCount(j.fam) : i < j.next => Stored(SlotsOf(j.fam)[i])
    /\ j.at = "install" => j.content \in Contents /\ j.len = BundleLen(j.fam)
    /\ j.at = "check" => j.fam = ForTarget(j.target) /\ j.block = 0

Gated(j) ==
  j.at \in {"load", "derive", "publish"} =>
    /\ j.target # "Rgba32"
    /\ \A i \in 1..TableCount(ForTarget(j.target)) :
         Readable(SlotsOf(ForTarget(j.target))[i])
    /\ j.at = "load" => j.next \in 1..Len(Loads(j.target)) /\ j.block < MaxBlocks
    /\ j.at # "load" => j.target = "Astc4x4Rgba"
    /\ j.at = "publish" => j.value = TableAt(j.key)

StillTrue(j) ==
  \A s \in Slots : j.seen[s] # {} => Readable(s) /\ j.seen[s] = {TableAt(s)}

CacheTrue == \A s \in Slots : cache[s] # None => Readable(s) /\ cache[s] = TableAt(s)

KnowledgeLasts ==
  /\ \A t \in Threads : Passed(job[t]) /\ Gated(job[t]) /\ StillTrue(job[t])
  /\ CacheTrue

\* lazy.rs:158 for racing installs too: a complete family has the tables of
\* one bundle.
FamilyFromOneBundle ==
  \A f \in Families : Complete(f) =>
    \A s, r \in Contained(f) : TableAt(s) = TableAt(r)

\* A started install or transcode ends; nobody waits for anybody.
CallsEnd == \A t \in Threads : job[t].at # "idle" ~> job[t].at = "idle"
=============================================================================
