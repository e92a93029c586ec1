---------------------------- MODULE TableProofs ----------------------------
(***************************************************************************)
(* Proofs about the runtime tables: OnceBox for any number of threads,     *)
(* addresses and values, and LazyTables for any number of threads, bundles *)
(* and blocks.                                                             *)
(***************************************************************************)
EXTENDS OnceBox, LazyTables, FiniteSetTheorems, TLAPS

----------------------------------------------------------------------------
(***************************************************************************)
(* The write-once cell: the conjunction of its invariants is inductive,    *)
(* and the code implements the abstract cell.                              *)
(***************************************************************************)

BoxInv == BoxTypeOK /\ OneOwner /\ Agreement /\ NoRace /\ Handover

\* The initial state satisfies the invariant: nothing is allocated or held.
LEMMA InitBox == BoxInit => BoxInv
BY NullAssumption, FreeAssumption
   DEF BoxInit, BoxInv, BoxTypeOK, OneOwner, Agreement, NoRace, Handover

\* Every step of every thread, and the drop of the cell, keeps it.
LEMMA NextBox == BoxInv /\ [BoxNext]_boxVars => BoxInv'
<1> SUFFICES ASSUME BoxInv, [BoxNext]_boxVars PROVE BoxInv'
  OBVIOUS
<1> USE NullAssumption, FreeAssumption
<1>1. ASSUME NEW t \in Callers, LoadHit(t) PROVE BoxInv'
  BY <1>1 DEF BoxInv, BoxTypeOK, OneOwner, Agreement, NoRace, Handover,
              LoadHit, LoadView, AcquireView
<1>2. ASSUME NEW t \in Callers, LoadMiss(t) PROVE BoxInv'
  BY <1>2 DEF BoxInv, BoxTypeOK, OneOwner, Agreement, NoRace, Handover, LoadMiss
<1>3. ASSUME NEW t \in Callers, BuildBox(t) PROVE BoxInv'
  BY <1>3 DEF BoxInv, BoxTypeOK, OneOwner, Agreement, NoRace, Handover, BuildBox
<1>4. ASSUME NEW t \in Callers, CasWin(t) PROVE BoxInv'
  BY <1>4 DEF BoxInv, BoxTypeOK, OneOwner, Agreement, NoRace, Handover,
              CasWin, ReleaseOf
<1>5. ASSUME NEW t \in Callers, CasLose(t) PROVE BoxInv'
  BY <1>5 DEF BoxInv, BoxTypeOK, OneOwner, Agreement, NoRace, Handover,
              CasLose, FailureView, AcquireView
<1>6. ASSUME NEW t \in Callers, DropOwn(t) PROVE BoxInv'
  BY <1>6 DEF BoxInv, BoxTypeOK, OneOwner, Agreement, NoRace, Handover,
              DropOwn, FreeBox
<1>7. ASSUME NEW t \in Callers, EndBorrow(t) PROVE BoxInv'
  BY <1>7 DEF BoxInv, BoxTypeOK, OneOwner, Agreement, NoRace, Handover, EndBorrow
<1>8. ASSUME DropCell PROVE BoxInv'
  BY <1>8 DEF BoxInv, BoxTypeOK, OneOwner, Agreement, NoRace, Handover,
              DropCell, FreeBox, NoBorrow
<1>9. CASE UNCHANGED boxVars
  BY <1>9 DEF BoxInv, BoxTypeOK, OneOwner, Agreement, NoRace, Handover, boxVars
<1> QED
  BY <1>1, <1>2, <1>3, <1>4, <1>5, <1>6, <1>7, <1>8, <1>9 DEF BoxNext, Step

\* The invariant holds throughout.
LEMMA BoxInvariance == BoxSpec => []BoxInv
BY InitBox, NextBox, PTL DEF BoxSpec

\* Type correctness.
THEOREM BoxTypeCorrect == BoxSpec => []BoxTypeOK
BY BoxInvariance, PTL DEF BoxInv

\* No leak, no double free: each box has exactly one owner at every moment
\* of the race (once.rs:55-78).
THEOREM NoLeak == BoxSpec => []OneOwner
BY BoxInvariance, PTL DEF BoxInv

\* All references returned while the cell lives are to the one stored box
\* (once.rs:52-54).
THEOREM CallersAgree == BoxSpec => []Agreement
BY BoxInvariance, PTL DEF BoxInv

\* Every dereference reads a live, fully constructed box: the two SAFETY
\* comments of once.rs hold for any number of racing threads.
THEOREM DereferenceSafe == BoxSpec => []NoRace
BY BoxInvariance, PTL DEF BoxInv

----------------------------------------------------------------------------
(* The code implements the write-once cell. *)

\* While somebody holds a reference the cell keeps its box and its content:
\* no second `get_or_init` replaces it (once.rs:59-64).
THEOREM Stable == BoxSpec => StableWhileHeld
<1>1. ASSUME BoxInv, [BoxNext]_boxVars, NEW u \in Callers, held[u] # {}
      PROVE  ptr' = ptr /\ heap'[ptr] = heap[ptr]
  <2> USE <1>1, NullAssumption, FreeAssumption
      DEF BoxInv, BoxTypeOK, OneOwner, Agreement, NoRace, Handover
  <2>0. ptr # Null /\ ptr \in Addrs /\ heap[ptr] # Free
    OBVIOUS
  <2>1. ASSUME NEW t \in Callers, BuildBox(t) PROVE ptr' = ptr /\ heap'[ptr] = heap[ptr]
    BY <2>0, <2>1 DEF BuildBox
  <2>2. ASSUME NEW t \in Callers, DropOwn(t) PROVE ptr' = ptr /\ heap'[ptr] = heap[ptr]
    BY <2>0, <2>2 DEF DropOwn, FreeBox
  <2>3. ASSUME NEW t \in Callers, CasWin(t) PROVE FALSE
    BY <2>0, <2>3 DEF CasWin
  <2>4. ASSUME DropCell PROVE FALSE
    BY <2>4 DEF DropCell, NoBorrow
  <2> QED
    BY <2>1, <2>2, <2>3, <2>4
       DEF BoxNext, Step, boxVars, LoadHit, LoadMiss, CasLose, EndBorrow
<1>2. BoxInv /\ [BoxNext]_boxVars =>
        [(\E t \in Callers : held[t] # {}) => ptr' = ptr /\ heap'[ptr] = heap[ptr]]_boxVars
  BY <1>1
<1> QED
  BY <1>2, BoxInvariance, PTL DEF BoxSpec, StableWhileHeld

\* A step of the code is a step of the cell, or leaves it unchanged.
LEMMA NextImplements == BoxInv /\ [BoxNext]_boxVars => [Cell!CellNext]_(Cell!cellVars)
<1> SUFFICES ASSUME BoxInv, [BoxNext]_boxVars
             PROVE  [Cell!CellNext]_(Cell!cellVars)
  OBVIOUS
<1> USE NullAssumption, FreeAssumption
<1> DEFINE c == IF ptr = Null THEN Free ELSE heap[ptr]
           s == [t \in Callers |-> {heap[a] : a \in held[t]}]
<1>1. ASSUME NEW t \in Callers, LoadHit(t) PROVE Cell!Return(t)
  <2>1. heap[ptr] \in Values /\ c = heap[ptr] /\ c' = c
    BY <1>1 DEF BoxInv, BoxTypeOK, OneOwner, LoadHit
  <2>2. held'[t] = held[t] \cup {ptr} /\ heap' = heap
    BY <1>1 DEF BoxInv, BoxTypeOK, LoadHit
  <2>3. {heap'[a] : a \in held'[t]} = {heap[a] : a \in held[t]} \cup {c'}
    BY <2>1, <2>2
  <2>4. \A u \in Callers : u # t => held'[u] = held[u]
    BY <1>1 DEF BoxInv, BoxTypeOK, LoadHit
  <2>5. s' = [s EXCEPT ![t] = @ \cup {c'}]
    <3>1. \A u \in Callers :
            u # t => {heap'[a] : a \in held'[u]} = {heap[a] : a \in held[u]}
      BY <2>2, <2>4
    <3> QED
      BY <2>3, <3>1
  <2> QED
    BY <2>1, <2>5 DEF Cell!Return
<1>2. ASSUME NEW t \in Callers, LoadMiss(t) \/ CasLose(t) PROVE c' = c /\ s' = s
  BY <1>2 DEF LoadMiss, CasLose
<1>3. ASSUME NEW t \in Callers, BuildBox(t) PROVE c' = c /\ s' = s
  <2>1. \A u \in Callers : \A a \in held[u] : a \in Addrs /\ heap'[a] = heap[a]
    BY <1>3 DEF BoxInv, BoxTypeOK, NoRace, BuildBox
  <2>2. ptr # Null => heap'[ptr] = heap[ptr]
    BY <1>3 DEF BoxInv, BoxTypeOK, OneOwner, BuildBox
  <2> QED
    BY <1>3, <2>1, <2>2 DEF BuildBox
<1>4. ASSUME NEW t \in Callers, CasWin(t) PROVE Cell!Return(t)
  <2>1. c = Free /\ heap[own[t]] \in Values /\ c' = heap[own[t]]
    BY <1>4 DEF BoxInv, BoxTypeOK, OneOwner, Handover, CasWin
  <2>2. held'[t] = held[t] \cup {own[t]} /\ heap' = heap
    BY <1>4 DEF BoxInv, BoxTypeOK, CasWin
  <2>3. {heap'[a] : a \in held'[t]} = {heap[a] : a \in held[t]} \cup {c'}
    BY <2>1, <2>2
  <2>4. \A u \in Callers : u # t => held'[u] = held[u]
    BY <1>4 DEF BoxInv, BoxTypeOK, CasWin
  <2>5. s' = [s EXCEPT ![t] = @ \cup {c'}]
    <3>1. \A u \in Callers :
            u # t => {heap'[a] : a \in held'[u]} = {heap[a] : a \in held[u]}
      BY <2>2, <2>4
    <3> QED
      BY <2>3, <3>1
  <2> QED
    BY <2>1, <2>5 DEF Cell!Return
<1>5. ASSUME NEW t \in Callers, DropOwn(t) PROVE Cell!Return(t)
  <2>1. /\ ptr \in Addrs /\ ptr # Null /\ winner[t] = ptr /\ ptr' = ptr
        /\ own[t] \in Addrs /\ own[t] # ptr
    BY <1>5 DEF BoxInv, BoxTypeOK, OneOwner, Handover, DropOwn
  <2>2. heap[ptr] \in Values /\ heap'[ptr] = heap[ptr]
    BY <1>5, <2>1 DEF BoxInv, BoxTypeOK, OneOwner, DropOwn, FreeBox
  <2>3. c = heap[ptr] /\ c' = c
    BY <2>1, <2>2
  <2>4. \A u \in Callers : \A a \in held[u] : heap'[a] = heap[a]
    BY <2>2 DEF BoxInv, Agreement
  <2>5. held'[t] = held[t] \cup {ptr}
    BY <1>5, <2>1 DEF BoxInv, BoxTypeOK, DropOwn
  <2>6. \A u \in Callers : {heap'[a] : a \in held[u]} = {heap[a] : a \in held[u]}
    BY <2>4
  <2>7. {heap'[a] : a \in held'[t]} = {heap[a] : a \in held[t]} \cup {c'}
    BY <2>2, <2>3, <2>5, <2>6
  <2>8. \A u \in Callers : u # t => held'[u] = held[u]
    BY <1>5 DEF BoxInv, BoxTypeOK, DropOwn
  <2>9. s' = [s EXCEPT ![t] = @ \cup {c'}]
    BY <2>6, <2>7, <2>8
  <2> QED
    BY <2>2, <2>3, <2>9 DEF Cell!Return
<1>6. ASSUME NEW t \in Callers, EndBorrow(t) PROVE Cell!Forget(t)
  <2>1. c' = c /\ heap' = heap /\ held'[t] = {}
    BY <1>6 DEF BoxInv, BoxTypeOK, EndBorrow
  <2>2. \A u \in Callers : u # t => held'[u] = held[u]
    BY <1>6 DEF BoxInv, BoxTypeOK, EndBorrow
  <2>3. {heap'[a] : a \in held'[t]} = {}
    BY <2>1
  <2>4. s' = [s EXCEPT ![t] = {}]
    BY <2>1, <2>2, <2>3
  <2> QED
    BY <2>1, <2>4 DEF Cell!Forget
<1>7. ASSUME DropCell PROVE Cell!Discard
  <2>1. c' = Free /\ s = [t \in Callers |-> {}] /\ s' = s
    BY <1>7 DEF BoxInv, BoxTypeOK, DropCell, NoBorrow
  <2> QED
    BY <2>1 DEF Cell!Discard
<1>8. CASE UNCHANGED boxVars
  BY <1>8 DEF boxVars, Cell!cellVars
<1> QED
  BY <1>1, <1>2, <1>3, <1>4, <1>5, <1>6, <1>7, <1>8
     DEF BoxNext, Step, Cell!CellNext, Cell!cellVars

\* once.rs is a write-once cell: racing threads, freed boxes and reused
\* addresses are invisible to its callers.
THEOREM Implementation == BoxSpec => ImplementsCell
<1>1. BoxInit => Cell!CellInit
  BY DEF BoxInit, Cell!CellInit
<1> QED
  BY <1>1, InitBox, NextBox, NextImplements, BoxInvariance, PTL
     DEF BoxSpec, ImplementsCell, Cell!CellSpec

----------------------------------------------------------------------------
(***************************************************************************)
(* The tables. The argument: slots are only ever filled (Grows), so        *)
(* whatever a thread learned about filled slots stays true                 *)
(* (KnowledgeLasts), so no step that relies on it goes wrong; and installs *)
(* that do not race find their family complete (Serial).                   *)
(***************************************************************************)

\* No step empties or refills a slot.
Grows == \A s \in Slots : slot[s] # None => slot'[s] = slot[s]

\* Every target that reads tables has a family, and every slot it loads is
\* one of that family's (lazy.rs:69-77 against the readers' lines).
LEMMA TargetFamily ==
  ASSUME NEW tg \in Targets, tg # "Rgba32"
  PROVE  /\ ForTarget(tg) \in Families
         /\ Len(Loads(tg)) \in 1..2
         /\ \A k \in 1..Len(Loads(tg)) :
              /\ Loads(tg)[k] \in Slots
              /\ \E i \in 1..TableCount(ForTarget(tg)) :
                   SlotsOf(ForTarget(tg))[i] = Loads(tg)[k]
<1>1. CASE tg = "Astc4x4Rgba"
  <2>1. ForTarget(tg) = "Astc" /\ Loads(tg) = <<"ASTC", "ASTC_0_255">>
    BY <1>1 DEF ForTarget, Loads
  <2>2. SlotsOf("Astc") = <<"ASTC", "ASTC_0_255">>
    BY DEF SlotsOf
  <2> QED BY <2>1, <2>2 DEF TableCount, Families, Slots
<1>2. CASE tg \in {"Bc1Rgb", "Bc3Rgba"}
  <2>1. ForTarget(tg) = "Bc" /\ Loads(tg) = <<"DXT_5", "DXT_6">>
    BY <1>2 DEF ForTarget, Loads
  <2>2. SlotsOf("Bc") = <<"BC7_M5_COLOR", "DXT_5", "DXT_6">>
    BY DEF SlotsOf
  <2> QED BY <2>1, <2>2 DEF TableCount, Families, Slots
<1>3. CASE tg = "Bc7Rgba"
  <2>1. ForTarget(tg) = "Bc" /\ Loads(tg) = <<"BC7_M5_COLOR">>
    BY <1>3 DEF ForTarget, Loads
  <2>2. SlotsOf("Bc") = <<"BC7_M5_COLOR", "DXT_5", "DXT_6">>
    BY DEF SlotsOf
  <2> QED BY <2>1, <2>2 DEF TableCount, Families, Slots
<1> QED BY <1>1, <1>2, <1>3 DEF Targets

\* It loads one table or two.
LEMMA LoadCounts ==
  \A tg \in Targets : tg # "Rgba32" =>
    Len(Loads(tg)) \in 1..2 /\ 1 \in 1..Len(Loads(tg))
<1> SUFFICES ASSUME NEW tg \in Targets, tg # "Rgba32"
             PROVE  Len(Loads(tg)) \in 1..2 /\ 1 \in 1..Len(Loads(tg))
  OBVIOUS
<1>1. Len(Loads(tg)) \in 1..2
  BY TargetFamily
<1> QED BY <1>1

\* The slots of a family are slots, two or three of them.
LEMMA FamilySlots ==
  ASSUME NEW f \in Families
  PROVE  /\ TableCount(f) \in 2..3
         /\ \A i \in 1..TableCount(f) : SlotsOf(f)[i] \in Slots
BY DEF Families, TableCount, SlotsOf, Slots

\* A bundle that `bundle_family` accepts names a family and has its length.
LEMMA AcceptedBundle ==
  ASSUME NEW b \in Bundle, BundleFamily(b) = "Ok"
  PROVE  /\ FamilyOfId(b.id) \in Families
         /\ b.len = BundleLen(FamilyOfId(b.id))
         /\ b.content \in Contents
BY DEF Bundle, BundleFamily, FamilyOfId, Families, NoFamily

\* A thread outside every call.
LEMMA IdleJob == Idle \in Job /\ Panic \in Job
<1>1. Idle \in Job
  BY BlocksAssumption, SMT DEF Idle, Job, Families, NoFamily, Targets, AstcSlots, Slots
<1> QED
  BY <1>1 DEF Panic, Job

\* A job that goes back to its first load.
LEMMA Reloads ==
  ASSUME NEW o \in Job
  PROVE  /\ [o EXCEPT !.at = "load", !.next = 1] \in Job
         /\ [o EXCEPT !.at = "load", !.next = 1].at = "load"
         /\ [o EXCEPT !.at = "load", !.next = 1].next = 1
<1> DEFINE m == [o EXCEPT !.at = "load"]
<1>1. m \in Job /\ m.at = "load"
  BY DEF Job
<1>2. [o EXCEPT !.at = "load", !.next = 1] = [m EXCEPT !.next = 1]
  OBVIOUS
<1> HIDE DEF m
<1>3. [m EXCEPT !.next = 1] \in Job
  BY <1>1 DEF Job
<1>4. [m EXCEPT !.next = 1].at = "load" /\ [m EXCEPT !.next = 1].next = 1
  BY <1>1 DEF Job
<1> QED BY <1>2, <1>3, <1>4

NeverPanics == NoUnreadyRead /\ ReturnedMeansInstalled

IInv == TypeOK /\ KnowledgeLasts /\ NeverPanics

\* Initially no thread knows anything.
LEMMA InitIInv == Init => IInv
<1> SUFFICES ASSUME Init PROVE IInv
  OBVIOUS
<1>1. TypeOK
  BY IdleJob DEF Init, TypeOK
<1>2. KnowledgeLasts
  BY DEF Init, KnowledgeLasts, Passed, Gated, StillTrue, CacheTrue, Idle
<1>3. NeverPanics
  BY DEF Init, NeverPanics, NoUnreadyRead, ReturnedMeansInstalled, Idle
<1> QED BY <1>1, <1>2, <1>3 DEF IInv

\* The slots only ever fill up (`get_or_init` keeps what is there).
LEMMA StepGrows ==
  ASSUME TypeOK, [Next]_vars
  PROVE  Grows
<1>1. ASSUME NEW t \in Threads, InstallSlot(t) PROVE Grows
  BY <1>1 DEF InstallSlot, GetOrInit, Grows, TypeOK
<1>2. ASSUME UNCHANGED slot PROVE Grows
  BY <1>2 DEF Grows
<1> QED
  BY <1>1, <1>2 DEF Next, Begin, Advance, InstallStart, TranscodeStart,
     CheckSlot, LoadTable, DeriveStart, DerivePublish, shared, vars

\* What a thread that takes no part in a step knows stays true.
LEMMA OthersKnow ==
  ASSUME IInv, Grows, NEW u \in Threads, job'[u] = job[u]
  PROVE  Passed(job[u])' /\ Gated(job[u])' /\ StillTrue(job[u])'
<1> USE DEF IInv, KnowledgeLasts, Grows
<1>0. job[u] \in Job
  BY DEF TypeOK
<1>1. Passed(job[u])'
  BY FamilySlots DEF Passed, Stored
<1>2. Gated(job[u])'
  <2>1. CASE job[u].at \in {"load", "derive", "publish"}
    <3>1. Gated(job[u]) /\ job[u].target \in Targets /\ job[u].key \in Slots
      BY <1>0 DEF Job, AstcSlots, Slots
    <3>2. ForTarget(job[u].target) \in Families
      BY <3>1, <2>1, TargetFamily DEF Gated
    <3>3. \A i \in 1..TableCount(ForTarget(job[u].target)) :
            Readable(SlotsOf(ForTarget(job[u].target))[i])'
      BY <3>1, <3>2, <2>1, FamilySlots DEF Gated, Readable, Stored
    <3>4. job[u].at = "publish" => Readable(job[u].key)
      <4>1. job[u].at = "publish" => job[u].target = "Astc4x4Rgba"
        BY <3>1, <2>1 DEF Gated
      <4>2. ForTarget("Astc4x4Rgba") = "Astc" /\ TableCount("Astc") = 2
            /\ SlotsOf("Astc")[1] = "ASTC" /\ SlotsOf("Astc")[2] = "ASTC_0_255"
        BY DEF ForTarget, TableCount, SlotsOf
      <4> QED
        BY <4>1, <4>2, <3>1, <2>1, <1>0 DEF Gated, Job, AstcSlots
    <3>5. job[u].at = "publish" => job[u].value = TableAt(job[u].key)'
      BY <3>1, <3>4, <2>1 DEF Gated, Readable, Stored, TableAt
    <3> QED BY <3>1, <3>3, <3>5, <2>1 DEF Gated
  <2>2. CASE job[u].at \notin {"load", "derive", "publish"}
    BY <2>2 DEF Gated
  <2> QED BY <2>1, <2>2
<1>3. StillTrue(job[u])'
  BY DEF StillTrue, Readable, Stored, TableAt
<1> QED BY <1>1, <1>2, <1>3

\* What is said of the cache stays true of it while it is not written.
LEMMA CacheKept ==
  ASSUME CacheTrue, Grows, UNCHANGED cache
  PROVE  CacheTrue'
BY DEF CacheTrue, Grows, Readable, Stored, TableAt

\* A complete family stays complete.
LEMMA ReturnedKept ==
  ASSUME ReturnedMeansInstalled, Grows, NEW f \in Families, returned[f]
  PROVE  Complete(f)'
BY FamilySlots DEF ReturnedMeansInstalled, Grows, Complete, Stored

\* It is enough to look at the thread that moves.
LEMMA FromMover ==
  ASSUME IInv, Grows, NEW t \in Threads, NEW j \in Job,
         job' = [job EXCEPT ![t] = j],
         Passed(job[t])', Gated(job[t])', StillTrue(job[t])', j.at # "panic",
         slot' \in [Slots -> Contents \cup {None}],
         cache' \in [Slots -> Contents \cup {None}], CacheTrue',
         first' \in [Families -> Contents \cup {None}],
         raced' \in [Families -> BOOLEAN],
         returned' \in [Families -> BOOLEAN], ReturnedMeansInstalled'
  PROVE  IInv'
<1>1. job[t]' = j /\ \A u \in Threads : u # t => job[u]' = job[u]
  BY DEF IInv, TypeOK
<1>2. TypeOK'
  BY DEF IInv, TypeOK
<1>3. \A u \in Threads : Passed(job[u])' /\ Gated(job[u])' /\ StillTrue(job[u])'
  <2> SUFFICES ASSUME NEW u \in Threads, u # t
               PROVE  Passed(job[u])' /\ Gated(job[u])' /\ StillTrue(job[u])'
    OBVIOUS
  <2> QED BY <1>1, OthersKnow
<1>4. NoUnreadyRead'
  BY <1>1 DEF NoUnreadyRead, IInv, NeverPanics
<1> QED
  BY <1>2, <1>3, <1>4 DEF IInv, KnowledgeLasts, NeverPanics

\* An idle thread knows nothing, so there is nothing to keep.
LEMMA IdleKnows ==
  ASSUME NEW t \in Threads, job'[t] = Idle
  PROVE  Passed(job[t])' /\ Gated(job[t])' /\ StillTrue(job[t])' /\ Idle.at # "panic"
BY DEF Passed, Gated, StillTrue, Idle

\* An install starts with the family and the length that were checked.
LEMMA StepInstallStart ==
  ASSUME IInv, Grows, NEW t \in Threads, NEW b \in Bundle, InstallStart(t, b)
  PROVE  IInv'
<1> DEFINE f == FamilyOfId(b.id)
<1>1. f \in Families /\ b.len = BundleLen(f) /\ b.content \in Contents
  BY AcceptedBundle DEF InstallStart
<1>2. CASE EmbeddedTables
  <2>1. returned' = [returned EXCEPT ![f] = TRUE] /\ UNCHANGED <<job, first, raced, slot, cache>>
    BY <1>2 DEF InstallStart, shared
  <2>2. TypeOK'
    BY <1>1, <2>1 DEF IInv, TypeOK
  <2>3. KnowledgeLasts'
    BY <2>1, OthersKnow, CacheKept DEF IInv, KnowledgeLasts
  <2>4. NeverPanics'
    BY <2>1, <1>2 DEF IInv, NeverPanics, NoUnreadyRead, ReturnedMeansInstalled, Complete
  <2> QED BY <2>2, <2>3, <2>4 DEF IInv
<1>3. CASE ~EmbeddedTables
  <2> DEFINE j == [Idle EXCEPT !.at = "install", !.fam = f,
                               !.content = b.content, !.len = b.len]
  <2>1. /\ job' = [job EXCEPT ![t] = j]
        /\ first' = [first EXCEPT ![f] = IF @ = None THEN b.content ELSE @]
        /\ raced' = [raced EXCEPT ![f] = @ \/ \E u \in Threads : Installing(u, f)]
        /\ UNCHANGED <<returned, slot, cache>>
    BY <1>3 DEF InstallStart, Becomes, shared
  <2>2. j \in Job
    BY <1>1, IdleJob DEF Job, Bundle
  <2>3. job'[t] = j
    BY <2>1 DEF IInv, TypeOK
  <2>4. /\ j.at = "install" /\ j.fam = f /\ j.content = b.content
        /\ j.len = b.len /\ j.next = 1 /\ j.seen = [s \in Slots |-> {}]
    BY DEF Idle
  <2>5. Passed(job[t])'
    BY <2>3, <2>4, <1>1, <1>3, FamilySlots DEF Passed
  <2>6. Gated(job[t])' /\ StillTrue(job[t])'
    BY <2>3, <2>4 DEF Gated, StillTrue
  <2>7. first' \in [Families -> Contents \cup {None}] /\ raced' \in [Families -> BOOLEAN]
    BY <2>1, <1>1 DEF IInv, TypeOK
  <2>8. CacheTrue' /\ ReturnedMeansInstalled'
    BY <2>1, CacheKept, ReturnedKept
       DEF IInv, KnowledgeLasts, NeverPanics, ReturnedMeansInstalled
  <2> HIDE DEF j
  <2> QED
    BY <2>1, <2>2, <2>4, <2>5, <2>6, <2>7, <2>8, FromMover DEF IInv, TypeOK
<1> QED BY <1>2, <1>3

\* After the step at index i the slots up to i are filled; after the last one
\* the family is complete, which is what Ok says.
LEMMA StepInstallSlot ==
  ASSUME IInv, Grows, NEW t \in Threads, InstallSlot(t)
  PROVE  IInv'
<1> DEFINE o == job[t]
           s == SlotsOf(o.fam)[o.next]
           j == IF AtLast(o) THEN Idle ELSE [o EXCEPT !.next = o.next + 1]
<1>1. /\ o \in Job /\ o.at = "install" /\ ~EmbeddedTables
      /\ o.fam \in Families /\ o.next \in 1..TableCount(o.fam)
      /\ \A i \in 1..TableCount(o.fam) : i < o.next => Stored(SlotsOf(o.fam)[i])
      /\ o.content \in Contents /\ o.len = BundleLen(o.fam)
  BY DEF IInv, KnowledgeLasts, TypeOK, InstallSlot, Passed
<1>2. /\ job' = [job EXCEPT ![t] = j]
      /\ slot' = [slot EXCEPT ![s] = IF @ = None THEN o.content ELSE @]
      /\ returned' = [returned EXCEPT ![o.fam] = @ \/ AtLast(o)]
      /\ UNCHANGED <<cache, first, raced>>
  BY DEF InstallSlot, Becomes, GetOrInit
<1>3. s \in Slots /\ TableCount(o.fam) \in 2..3
  BY <1>1, FamilySlots
<1>4. slot' \in [Slots -> Contents \cup {None}] /\ slot'[s] # None
  BY <1>1, <1>2, <1>3, NoneAssumption DEF IInv, TypeOK
<1>5. \A i \in 1..TableCount(o.fam) : i <= o.next => slot'[SlotsOf(o.fam)[i]] # None
  BY <1>1, <1>3, <1>4, FamilySlots DEF Grows, Stored
<1>6. ReturnedMeansInstalled' /\ returned' \in [Families -> BOOLEAN]
  <2>1. returned' \in [Families -> BOOLEAN]
    BY <1>1, <1>2, Zenon DEF IInv, TypeOK, AtLast
  <2>2. \A f \in Families : f = o.fam /\ AtLast(o) => Complete(f)'
    BY <1>1, <1>3, <1>5 DEF AtLast, Complete, Stored
  <2>3. \A f \in Families : returned'[f] => returned[f] \/ (f = o.fam /\ AtLast(o))
    BY <1>1, <1>2 DEF IInv, TypeOK
  <2> QED
    BY <2>1, <2>2, <2>3, ReturnedKept DEF ReturnedMeansInstalled, IInv, NeverPanics
<1>7. CacheTrue'
  BY <1>2, CacheKept DEF IInv, KnowledgeLasts
<1>8. job'[t] = j
  BY <1>2 DEF IInv, TypeOK
<1>9. /\ j \in Job /\ j.at # "panic"
      /\ Passed(job[t])' /\ Gated(job[t])' /\ StillTrue(job[t])'
  <2>1. CASE AtLast(o)
    BY <2>1, <1>8, IdleJob, IdleKnows
  <2>2. CASE ~AtLast(o)
    <3>1. o.next + 1 \in 1..TableCount(o.fam) /\ o.next + 1 \in 1..3
      BY <2>2, <1>1, <1>3 DEF AtLast
    <3>2. j \in Job
      BY <2>2, <3>1, <1>1 DEF Job
    <3>3. /\ j.at = "install" /\ j.fam = o.fam /\ j.next = o.next + 1
          /\ j.content = o.content /\ j.len = o.len /\ j.seen = o.seen
      BY <2>2, <1>1 DEF Job
    <3>4. Passed(job[t])'
      BY <3>1, <3>3, <1>1, <1>3, <1>5, <1>8 DEF Passed, Stored
    <3>5. Gated(job[t])'
      BY <3>3, <1>8 DEF Gated
    <3>6. StillTrue(job[t])'
      BY <3>3, <1>8, <1>1 DEF StillTrue, IInv, KnowledgeLasts, Grows, Readable, Stored, TableAt
    <3> QED BY <3>2, <3>3, <3>4, <3>5, <3>6
  <2> QED BY <2>1, <2>2
<1> HIDE DEF j
<1> QED
  BY <1>2, <1>4, <1>6, <1>7, <1>9, FromMover DEF IInv, TypeOK

\* A step that only moves one thread's job.
LEMMA FromJob ==
  ASSUME IInv, Grows, NEW t \in Threads, NEW j \in Job, Becomes(t, j),
         UNCHANGED <<shared, history>>, j.at # "panic",
         Passed(job[t])', Gated(job[t])', StillTrue(job[t])'
  PROVE  IInv'
<1>1. CacheTrue' /\ ReturnedMeansInstalled'
  BY CacheKept, ReturnedKept DEF IInv, KnowledgeLasts, NeverPanics,
     ReturnedMeansInstalled, shared, history
<1> QED
  BY <1>1, FromMover DEF IInv, TypeOK, Becomes, shared, history

\* A transcode starts with the family `for_target` names; with embedded
\* tables nothing needs to be looked at.
LEMMA StepTranscodeStart ==
  ASSUME IInv, Grows, NEW t \in Threads, NEW tg \in Targets, TranscodeStart(t, tg)
  PROVE  IInv'
<1> DEFINE p == IF ForTarget(tg) # NoFamily /\ ~EmbeddedTables THEN "check" ELSE "load"
           j == [Idle EXCEPT !.target = tg, !.fam = ForTarget(tg), !.at = p]
<1>1. Becomes(t, j) /\ UNCHANGED <<shared, history>>
  BY DEF TranscodeStart
<1>2. job'[t] = j
  BY <1>1 DEF Becomes, IInv, TypeOK
<1>3. tg # "Rgba32"
  BY DEF TranscodeStart, Loads, ForTarget
<1>4. /\ ForTarget(tg) \in Families /\ ForTarget(tg) # NoFamily
      /\ 1 \in 1..Len(Loads(tg))
  BY <1>3, TargetFamily DEF Families, NoFamily
<1>5. j \in Job
  BY <1>4, IdleJob DEF Job
<1>6. /\ j.at = p /\ j.fam = ForTarget(tg) /\ j.target = tg /\ j.next = 1
      /\ j.block = 0 /\ j.seen = [s \in Slots |-> {}]
  BY DEF Idle
<1>7. Passed(job[t])'
  BY <1>2, <1>4, <1>6, FamilySlots DEF Passed
<1>8. Gated(job[t])'
  BY <1>2, <1>3, <1>4, <1>6, FamilySlots, BlocksAssumption DEF Gated, Readable
<1>9. StillTrue(job[t])'
  BY <1>2, <1>6 DEF StillTrue
<1> HIDE DEF j
<1> QED BY <1>1, <1>5, <1>6, <1>7, <1>8, <1>9, FromJob

\* Each look of `installed` passes one more slot, and the last lets the
\* transcode into a complete family.
LEMMA StepCheckSlot ==
  ASSUME IInv, Grows, NEW t \in Threads, CheckSlot(t)
  PROVE  IInv'
<1> DEFINE o == job[t]
           here == Stored(SlotsOf(o.fam)[o.next])
           j == IF ~here THEN Idle
                ELSE IF AtLast(o) THEN [o EXCEPT !.at = "load", !.next = 1]
                ELSE [o EXCEPT !.next = o.next + 1]
<1>1. Becomes(t, j) /\ UNCHANGED <<shared, history>>
  BY DEF CheckSlot
<1>2. job'[t] = j
  BY <1>1 DEF Becomes, IInv, TypeOK
<1>3. /\ o \in Job /\ o.at = "check" /\ ~EmbeddedTables
      /\ o.fam \in Families /\ o.next \in 1..TableCount(o.fam)
      /\ \A i \in 1..TableCount(o.fam) : i < o.next => Stored(SlotsOf(o.fam)[i])
      /\ o.fam = ForTarget(o.target) /\ o.block = 0 /\ StillTrue(o)
  BY DEF IInv, KnowledgeLasts, TypeOK, CheckSlot, Passed
<1>4. TableCount(o.fam) \in 2..3 /\ UNCHANGED slot
  BY <1>1, <1>3, FamilySlots DEF shared
<1>5. CASE ~here
  BY <1>5, <1>1, <1>2, IdleJob, IdleKnows, FromJob
<1>6. CASE here /\ ~AtLast(o)
  <2>1. o.next + 1 \in 1..TableCount(o.fam) /\ o.next + 1 \in 1..3
    BY <1>6, <1>3, <1>4 DEF AtLast
  <2>2. j \in Job
    BY <1>6, <2>1, <1>3 DEF Job
  <2>3. /\ j.at = "check" /\ j.fam = o.fam /\ j.next = o.next + 1
        /\ j.target = o.target /\ j.seen = o.seen
    BY <1>6, <1>3 DEF Job
  <2>4. Passed(job[t])'
    BY <2>1, <2>3, <1>2, <1>3, <1>4, <1>6 DEF Passed, Stored
  <2>5. Gated(job[t])' /\ StillTrue(job[t])'
    BY <2>3, <1>2, <1>3, <1>4, ZenonT(60) DEF Gated, StillTrue, Readable, Stored, TableAt
  <2> HIDE DEF j
  <2> QED BY <1>1, <2>2, <2>3, <2>4, <2>5, FromJob
<1>7. CASE here /\ AtLast(o)
  <2>0. j = [o EXCEPT !.at = "load", !.next = 1]
    BY <1>7
  <2> HIDE DEF j, here
  <2>1. j \in Job
    BY <2>0, <1>3, Reloads
  <2>2. /\ j.at = "load" /\ j.next = 1 /\ j.target = o.target
        /\ j.seen = o.seen /\ j.block = o.block
    BY <2>0, <1>3 DEF Job
  <2>3. \A i \in 1..TableCount(o.fam) : Stored(SlotsOf(o.fam)[i])
    BY <1>3, <1>4, <1>7 DEF AtLast, here
  <2>4. o.target \in Targets /\ o.target # "Rgba32"
    BY <1>3 DEF Job, Families, ForTarget, NoFamily
  <2>5. 1 \in 1..Len(Loads(o.target))
    BY <2>4, LoadCounts
  <2>6. o.block < MaxBlocks
    BY <1>3, BlocksAssumption
  <2>7. Passed(job[t])' /\ Gated(job[t])' /\ StillTrue(job[t])'
    BY <2>2, <2>3, <2>4, <2>5, <2>6, <1>2, <1>3, <1>4
       DEF Passed, Gated, StillTrue, Readable, Stored, TableAt
  <2> QED BY <1>1, <2>1, <2>2, <2>7, FromJob
<1> QED BY <1>5, <1>6, <1>7

\* The slots of the target's family can all be read.
MayRead(tg) ==
  /\ tg # "Rgba32"
  /\ \A i \in 1..TableCount(ForTarget(tg)) : Readable(SlotsOf(ForTarget(tg))[i])

\* A slot the target loads can be read then.
LEMMA LoadsReadable ==
  ASSUME NEW tg \in Targets, MayRead(tg), NEW k \in 1..Len(Loads(tg))
  PROVE  Loads(tg)[k] \in Slots /\ Readable(Loads(tg)[k])
BY TargetFamily DEF MayRead

\* The next block starts with what the thread already knew.
LEMMA ResumeKnows ==
  ASSUME NEW t \in Threads, NEW m \in Job, m.at # "panic", MayRead(m.target), StillTrue(m),
         job'[t] = Resume(m), UNCHANGED slot
  PROVE  /\ Resume(m) \in Job /\ Resume(m).at # "panic"
         /\ Passed(job[t])' /\ Gated(job[t])' /\ StillTrue(job[t])'
<1>1. CASE m.block < MaxBlocks
  <2> DEFINE j == [m EXCEPT !.at = "load", !.next = 1]
  <2>1. Resume(m) = j
    BY <1>1 DEF Resume
  <2>2. j \in Job /\ j.at = "load" /\ j.next = 1
    BY Reloads
  <2>3. j.target = m.target /\ j.seen = m.seen /\ j.block = m.block /\ m.target \in Targets
    BY DEF Job
  <2> HIDE DEF j
  <2>4. 1 \in 1..Len(Loads(m.target))
    BY <2>3, LoadCounts DEF MayRead
  <2>5. Passed(job[t])' /\ StillTrue(job[t])'
    BY <2>1, <2>2, <2>3 DEF Passed, StillTrue, Readable, Stored, TableAt
  <2>6. Gated(job[t])'
    BY <2>1, <2>2, <2>3, <2>4, <1>1 DEF Gated, MayRead, Readable, Stored
  <2> QED BY <2>1, <2>2, <2>5, <2>6
<1>2. CASE ~(m.block < MaxBlocks)
  BY <1>2, IdleJob, IdleKnows DEF Resume
<1> QED BY <1>1, <1>2

\* A load meets a full slot, and finds there what it found before.
LEMMA StepLoadTable ==
  ASSUME IInv, Grows, NEW t \in Threads, LoadTable(t)
  PROVE  IInv'
<1> DEFINE o == job[t]
           s == Loads(o.target)[o.next]
           loaded == [o EXCEPT !.seen[s] = @ \cup {TableAt(s)}]
           finished == [loaded EXCEPT !.block = loaded.block + 1]
<1>1. /\ o \in Job /\ o.at = "load" /\ MayRead(o.target) /\ StillTrue(o)
      /\ o.next \in 1..Len(Loads(o.target)) /\ o.block < MaxBlocks
      /\ o.target \in Targets
  BY DEF IInv, KnowledgeLasts, TypeOK, LoadTable, Gated, MayRead, Job
<1>2. s \in Slots /\ Readable(s)
  BY <1>1, LoadsReadable
<1>3. UNCHANGED <<shared, history>> /\ UNCHANGED slot
  BY DEF LoadTable, shared
<1>4. \/ o.next < Len(Loads(o.target)) /\ Becomes(t, [loaded EXCEPT !.next = loaded.next + 1])
      \/ o.next >= Len(Loads(o.target)) /\ Becomes(t, Resume(finished))
      \/ /\ o.next >= Len(Loads(o.target)) /\ o.target = "Astc4x4Rgba"
         /\ Becomes(t, [finished EXCEPT !.at = "derive"])
  BY <1>1, <1>2, TargetFamily DEF LoadTable
<1>5. TableAt(s) \in Contents
  BY <1>2, ContentsAssumption DEF TableAt, Embedded, Readable, Stored, IInv, TypeOK
<1>6. /\ loaded \in Job /\ loaded.at = "load" /\ loaded.target = o.target
      /\ loaded.next = o.next /\ loaded.block = o.block
      /\ loaded.seen = [o.seen EXCEPT ![s] = @ \cup {TableAt(s)}]
  BY <1>1, <1>2, <1>5 DEF Job
<1> HIDE DEF loaded
<1>7. StillTrue(loaded)
  <2>1. o.seen \in [Slots -> SUBSET Contents]
    BY <1>1 DEF Job
  <2>2. ASSUME NEW q \in Slots, loaded.seen[q] # {}
        PROVE  Readable(q) /\ loaded.seen[q] = {TableAt(q)}
    <3>1. CASE q = s
      <4>1. loaded.seen[s] = o.seen[s] \cup {TableAt(s)}
        BY <1>2, <1>6, <2>1
      <4>2. o.seen[s] # {} => o.seen[s] = {TableAt(s)}
        BY <1>1, <1>2 DEF StillTrue
      <4> QED BY <1>2, <3>1, <4>1, <4>2
    <3>2. CASE q # s
      <4>1. loaded.seen[q] = o.seen[q]
        BY <1>6, <2>1, <3>2
      <4> QED BY <1>1, <2>2, <4>1 DEF StillTrue
    <3> QED BY <3>1, <3>2
  <2> QED BY <2>2 DEF StillTrue
<1>8. /\ finished \in Job /\ finished.at = "load" /\ finished.target = o.target
      /\ finished.seen = loaded.seen
  <2>1. loaded.block + 1 \in 0..MaxBlocks
    BY <1>1, <1>6, BlocksAssumption DEF Job
  <2> QED BY <2>1, <1>6 DEF Job
<1> HIDE DEF finished
<1>9. StillTrue(finished)
  BY <1>7, <1>8 DEF StillTrue
<1>10. CASE o.next < Len(Loads(o.target)) /\ Becomes(t, [loaded EXCEPT !.next = loaded.next + 1])
  <2> DEFINE j == [loaded EXCEPT !.next = loaded.next + 1]
  <2>1. o.next + 1 \in 1..Len(Loads(o.target)) /\ o.next + 1 \in 1..3
    <3> DEFINE n == Len(Loads(o.target))
               k == o.next
    <3>1. n \in 1..2 /\ k \in 1..n /\ k < n
      BY LoadCounts, <1>1, <1>10 DEF MayRead
    <3> HIDE DEF n, k
    <3>2. k + 1 \in 1..n /\ k + 1 \in 1..3
      BY <3>1
    <3> QED BY <3>2 DEF n, k
  <2>2. j \in Job /\ j.at = "load" /\ j.next = o.next + 1 /\ j.target = o.target
        /\ j.block = o.block /\ j.seen = loaded.seen
    BY <2>1, <1>6 DEF Job
  <2>3. job'[t] = j
    BY <1>10 DEF Becomes, IInv, TypeOK
  <2> HIDE DEF j
  <2>4. Passed(job[t])' /\ StillTrue(job[t])'
    BY <2>2, <2>3, <1>3, <1>7 DEF Passed, StillTrue, Readable, Stored, TableAt
  <2>5. Gated(job[t])'
    BY <2>1, <2>2, <2>3, <1>1, <1>3 DEF Gated, MayRead, Readable, Stored
  <2> QED BY <1>3, <1>10, <2>2, <2>4, <2>5, FromJob DEF j
<1>11. CASE Becomes(t, Resume(finished))
  <2>1. job'[t] = Resume(finished)
    BY <1>11 DEF Becomes, IInv, TypeOK
  <2> QED BY <2>1, <1>1, <1>3, <1>8, <1>9, <1>11, ResumeKnows, FromJob
<1>12. CASE o.target = "Astc4x4Rgba" /\ Becomes(t, [finished EXCEPT !.at = "derive"])
  <2> DEFINE j == [finished EXCEPT !.at = "derive"]
  <2>1. j \in Job /\ j.at = "derive" /\ j.target = o.target /\ j.seen = finished.seen
    BY <1>8 DEF Job
  <2>2. job'[t] = j
    BY <1>12 DEF Becomes, IInv, TypeOK
  <2> HIDE DEF j
  <2>3. Passed(job[t])' /\ Gated(job[t])' /\ StillTrue(job[t])'
    BY <2>1, <2>2, <1>1, <1>3, <1>9, <1>12
       DEF Passed, Gated, StillTrue, MayRead, Readable, Stored, TableAt
  <2> QED BY <1>3, <1>12, <2>1, <2>3, FromJob DEF j
<1> QED BY <1>4, <1>10, <1>11, <1>12

\* The closure of a derived mapping runs behind the same gate, and builds
\* from the table that its cell is for.
LEMMA StepDeriveStart ==
  ASSUME IInv, Grows, NEW t \in Threads, NEW s \in AstcSlots, DeriveStart(t, s)
  PROVE  IInv'
<1> DEFINE o == job[t]
           j == [o EXCEPT !.at = "publish", !.key = s, !.value = TableAt(s)]
<1>1. /\ o \in Job /\ o.at = "derive" /\ MayRead(o.target) /\ StillTrue(o)
      /\ o.target = "Astc4x4Rgba"
  BY DEF IInv, KnowledgeLasts, TypeOK, DeriveStart, Gated, MayRead
<1>2. UNCHANGED <<shared, history>> /\ UNCHANGED slot
  BY DEF DeriveStart, shared
<1>3. Readable("ASTC") /\ Readable("ASTC_0_255")
  <2>1. \A k \in 1..2 : Readable(<<"ASTC", "ASTC_0_255">>[k])
    BY <1>1, LoadsReadable DEF Targets, Loads
  <2> QED BY <2>1
<1>4. Becomes(t, Resume(o)) \/ Becomes(t, j)
  BY <1>3 DEF DeriveStart
<1>5. CASE Becomes(t, Resume(o))
  <2>1. job'[t] = Resume(o)
    BY <1>5 DEF Becomes, IInv, TypeOK
  <2>2. o.at # "panic"
    BY <1>1
  <2> HIDE DEF o
  <2> QED BY <2>1, <2>2, <1>1, <1>2, <1>5, ResumeKnows, FromJob
<1>6. CASE Becomes(t, j)
  <2>1. Readable(s) /\ s \in Slots
    BY <1>3 DEF AstcSlots, Slots
  <2>2. TableAt(s) \in Contents
    BY <2>1, ContentsAssumption DEF TableAt, Embedded, Readable, Stored, IInv, TypeOK
  <2>3. j \in Job /\ j.at = "publish" /\ j.key = s /\ j.value = TableAt(s)
        /\ j.target = o.target /\ j.seen = o.seen
    BY <1>1, <2>2 DEF Job
  <2>4. job'[t] = j
    BY <1>6 DEF Becomes, IInv, TypeOK
  <2> HIDE DEF j
  <2>5. Passed(job[t])' /\ Gated(job[t])' /\ StillTrue(job[t])'
    BY <2>3, <2>4, <1>1, <1>2 DEF Passed, Gated, StillTrue, MayRead, Readable, Stored, TableAt
  <2> QED BY <1>2, <1>6, <2>3, <2>5, FromJob
<1> QED BY <1>4, <1>5, <1>6

\* What is published is what the slot still holds.
LEMMA StepDerivePublish ==
  ASSUME IInv, Grows, NEW t \in Threads, DerivePublish(t)
  PROVE  IInv'
<1> DEFINE o == job[t]
           k == o.key
<1>1. /\ o \in Job /\ o.at = "publish" /\ MayRead(o.target) /\ StillTrue(o)
      /\ o.target = "Astc4x4Rgba" /\ o.value = TableAt(k)
      /\ k \in AstcSlots /\ k \in Slots
  BY DEF IInv, KnowledgeLasts, TypeOK, DerivePublish, Gated, MayRead, Job, AstcSlots, Slots
<1>2. /\ Becomes(t, Resume(o)) /\ UNCHANGED <<slot, history>>
      /\ cache' = [cache EXCEPT ![k] = IF @ = None THEN o.value ELSE @]
  BY DEF DerivePublish, CacheKey
<1>3. Readable(k)
  <2>1. \A i \in 1..2 : Readable(<<"ASTC", "ASTC_0_255">>[i])
    BY <1>1, LoadsReadable DEF Targets, Loads
  <2> QED BY <2>1, <1>1 DEF AstcSlots
<1>4. o.value \in Contents
  BY <1>1, <1>3, ContentsAssumption DEF TableAt, Embedded, Readable, Stored, IInv, TypeOK
<1>5. cache' \in [Slots -> Contents \cup {None}]
  BY <1>2, <1>4 DEF IInv, TypeOK
<1>6. CacheTrue'
  BY <1>1, <1>2, <1>3 DEF CacheTrue, IInv, KnowledgeLasts, Readable, Stored, TableAt, TypeOK
<1>7. ReturnedMeansInstalled'
  BY <1>2, ReturnedKept DEF IInv, NeverPanics, ReturnedMeansInstalled, history
<1>8. job'[t] = Resume(o) /\ o.at # "panic"
  BY <1>1, <1>2 DEF Becomes, IInv, TypeOK
<1>9. /\ Resume(o) \in Job /\ Resume(o).at # "panic"
      /\ Passed(job[t])' /\ Gated(job[t])' /\ StillTrue(job[t])'
  <2> HIDE DEF o
  <2> QED BY <1>1, <1>2, <1>8, ResumeKnows
<1> HIDE DEF o, k
<1> QED
  BY <1>2, <1>5, <1>6, <1>7, <1>9, FromMover DEF IInv, TypeOK, Becomes, history, o

----------------------------------------------------------------------------
\* Every step keeps the invariant.
LEMMA StepIInv == IInv /\ [Next]_vars => IInv'
<1> SUFFICES ASSUME IInv, [Next]_vars PROVE IInv'
  OBVIOUS
<1>0. Grows
  BY StepGrows DEF IInv
<1>1. ASSUME NEW t \in Threads, Begin(t) PROVE IInv'
  BY <1>0, <1>1, StepInstallStart, StepTranscodeStart DEF Begin
<1>2. ASSUME NEW t \in Threads, Advance(t) PROVE IInv'
  BY <1>0, <1>2, StepInstallSlot, StepCheckSlot, StepLoadTable,
     StepDeriveStart, StepDerivePublish DEF Advance
<1>3. CASE UNCHANGED vars
  <2>1. UNCHANGED <<slot, cache, job, first, raced, returned>>
    BY <1>3 DEF vars, shared, history
  <2>2. KnowledgeLasts'
    BY <1>0, <2>1, OthersKnow, CacheKept DEF IInv, KnowledgeLasts
  <2>3. TypeOK' /\ NeverPanics'
    BY <1>0, <2>1, ReturnedKept
       DEF IInv, TypeOK, NeverPanics, NoUnreadyRead, ReturnedMeansInstalled
  <2> QED BY <2>2, <2>3 DEF IInv
<1> QED BY <1>1, <1>2, <1>3 DEF Next

\* The invariant holds throughout.
LEMMA Invariance == Spec => []IInv
BY InitIInv, StepIInv, PTL DEF Spec

----------------------------------------------------------------------------
(* Installs of a family that never race. *)

\* While a family was never raced for: it has one install at a time; its slots
\* have the first one's tables only; and between installs it is complete, as
\* an install that has started runs to its end, so that a later install with
\* other tables finds nothing to fill.
SerialFamily(f) ==
  /\ \A t, u \in Threads : Installing(t, f) /\ Installing(u, f) => t = u
  /\ \A s \in Contained(f) : slot[s] \in {None, first[f]}
  /\ first[f] # None => Complete(f) \/ \E t \in Threads : Installing(t, f)
  /\ \A t \in Threads :
       Installing(t, f) => Complete(f) \/ (job[t].content = first[f] /\ first[f] # None)

Serial == \A f \in Families : ~raced[f] => SerialFamily(f)

\* A family keeps what is said of it while none of its slots, its history and
\* its installs change.
LEMMA SerialKept ==
  ASSUME NEW f \in Families, SerialFamily(f),
         \A s \in Contained(f) : slot'[s] = slot[s],
         first'[f] = first[f],
         \A t \in Threads :
           /\ Installing(t, f)' <=> Installing(t, f)
           /\ Installing(t, f) => job'[t].content = job[t].content
  PROVE  SerialFamily(f)'
<1>1. Complete(f)' <=> Complete(f)
  BY DEF Complete, Stored, Contained
<1> QED BY <1>1 DEF SerialFamily

\* No other step has to do with an install.
LEMMA NoInstall ==
  ASSUME TypeOK, NEW t \in Threads,
         \/ \E tg \in Targets : TranscodeStart(t, tg)
         \/ CheckSlot(t) \/ LoadTable(t) \/ DerivePublish(t)
         \/ \E s \in AstcSlots : DeriveStart(t, s)
  PROVE  /\ UNCHANGED <<slot, first, raced>>
         /\ job[t].at # "install" /\ job'[t].at # "install"
         /\ \A u \in Threads : u # t => job'[u] = job[u]
<1> DEFINE o == job[t]
<1>0. o \in Job
  BY DEF TypeOK
<1>1. \A j : Becomes(t, j) =>
        job'[t] = j /\ \A u \in Threads : u # t => job'[u] = job[u]
  BY DEF Becomes, TypeOK
<1>2. Idle.at # "install" /\ Panic.at # "install"
  BY DEF Idle, Panic
<1>3. ASSUME NEW j, "at" \in DOMAIN j PROVE Resume(j).at # "install"
  <2>1. [j EXCEPT !.at = "load", !.next = 1].at = "load"
    BY <1>3
  <2> QED BY <2>1, <1>2 DEF Resume
<1>4. ASSUME NEW tg \in Targets, TranscodeStart(t, tg)
      PROVE  \E j : Becomes(t, j) /\ j.at # "install" /\ o.at # "install"
  <2> DEFINE j == [Idle EXCEPT !.target = tg, !.fam = ForTarget(tg),
                     !.at = IF ForTarget(tg) # NoFamily /\ ~EmbeddedTables
                            THEN "check" ELSE "load"]
  <2>1. j.at \in {"check", "load"}
    BY DEF Idle
  <2>2. Becomes(t, j) /\ o.at = "idle"
    BY <1>4 DEF TranscodeStart
  <2> HIDE DEF j
  <2> QED BY <2>1, <2>2
<1>5. ASSUME CheckSlot(t)
      PROVE  \E j : Becomes(t, j) /\ j.at # "install" /\ o.at # "install"
  <2>1. o.at = "check"
    BY <1>5 DEF CheckSlot
  <2>2. [o EXCEPT !.at = "load", !.next = 1].at = "load"
    BY <1>0, Reloads
  <2>3. [o EXCEPT !.next = @ + 1].at = "check"
    BY <1>0, <2>1 DEF Job
  <2>4. \/ Becomes(t, Idle) \/ Becomes(t, [o EXCEPT !.at = "load", !.next = 1])
        \/ Becomes(t, [o EXCEPT !.next = @ + 1])
    BY <1>5 DEF CheckSlot
  <2> QED BY <1>2, <2>1, <2>2, <2>3, <2>4
<1>6. ASSUME LoadTable(t)
      PROVE  \E j : Becomes(t, j) /\ j.at # "install" /\ o.at # "install"
  <2> DEFINE s == Loads(o.target)[o.next]
             loaded == [o EXCEPT !.seen[s] = @ \cup {TableAt(s)}]
             finished == [loaded EXCEPT !.block = loaded.block + 1]
  <2>1. o.at = "load"
    BY <1>6 DEF LoadTable
  <2>2. DOMAIN loaded = DOMAIN o /\ loaded.at = "load"
    BY <1>0, <2>1 DEF Job
  <2>3. "at" \in DOMAIN o
    BY <1>0 DEF Job
  <2>4. \/ Becomes(t, Panic) \/ Becomes(t, [loaded EXCEPT !.next = loaded.next + 1])
        \/ Becomes(t, Resume(finished)) \/ Becomes(t, [finished EXCEPT !.at = "derive"])
    BY <1>6 DEF LoadTable
  <2> HIDE DEF loaded
  <2>5. "at" \in DOMAIN finished
    BY <2>2, <2>3
  <2>6. [loaded EXCEPT !.next = loaded.next + 1].at = "load"
    BY <2>2, <2>3
  <2> HIDE DEF finished
  <2>7. [finished EXCEPT !.at = "derive"].at = "derive"
    BY <2>5
  <2>8. Resume(finished).at # "install"
    BY <1>3, <2>5
  <2> QED BY <1>2, <2>1, <2>4, <2>6, <2>7, <2>8
<1>7. ASSUME NEW s \in AstcSlots, DeriveStart(t, s)
      PROVE  \E j : Becomes(t, j) /\ j.at # "install" /\ o.at # "install"
  <2>1. o.at = "derive" /\ "at" \in DOMAIN o
    BY <1>0, <1>7 DEF DeriveStart, Job
  <2>2. [o EXCEPT !.at = "publish", !.key = s, !.value = TableAt(s)].at = "publish"
    BY <2>1
  <2>3. \/ Becomes(t, Resume(o)) \/ Becomes(t, Panic)
        \/ Becomes(t, [o EXCEPT !.at = "publish", !.key = s, !.value = TableAt(s)])
    BY <1>7 DEF DeriveStart
  <2> QED BY <1>2, <1>3, <2>1, <2>2, <2>3
<1>8. ASSUME DerivePublish(t)
      PROVE  \E j : Becomes(t, j) /\ j.at # "install" /\ o.at # "install"
  <2>1. o.at = "publish" /\ "at" \in DOMAIN o
    BY <1>0, <1>8 DEF DerivePublish, Job
  <2> QED BY <1>3, <1>8, <2>1 DEF DerivePublish
<1>9. \E j : Becomes(t, j) /\ j.at # "install" /\ o.at # "install"
  BY <1>4, <1>5, <1>6, <1>7, <1>8
<1>10. UNCHANGED <<slot, first, raced>>
  BY DEF TranscodeStart, CheckSlot, LoadTable, DeriveStart, DerivePublish, shared, history
<1> QED BY <1>1, <1>9, <1>10

\* The families have no slot in common.
LEMMA OwnSlots ==
  ASSUME NEW f \in Families, NEW g \in Families, f # g, NEW i \in 1..TableCount(f)
  PROVE  SlotsOf(f)[i] \notin Contained(g)
<1>1. TableCount("Astc") = 2 /\ TableCount("Bc") = 3
  BY DEF TableCount, SlotsOf
<1>2. CASE f = "Astc"
  BY <1>1, <1>2 DEF Families, SlotsOf, Contained
<1>3. CASE f = "Bc"
  BY <1>1, <1>3 DEF Families, SlotsOf, Contained
<1> QED BY <1>2, <1>3 DEF Families

\* An install that starts alone is the first, or finds its family complete.
LEMMA StartSerial ==
  ASSUME IInv, Serial, NEW t \in Threads, NEW b \in Bundle, InstallStart(t, b)
  PROVE  Serial'
<1> DEFINE f == FamilyOfId(b.id)
<1>1. f \in Families /\ b.content \in Contents /\ job[t].at = "idle"
  BY AcceptedBundle DEF InstallStart
<1>2. CASE EmbeddedTables
  <2>1. UNCHANGED <<job, first, raced, slot>>
    BY <1>2 DEF InstallStart, shared
  <2> QED BY <2>1 DEF Serial, SerialFamily, Contained, Complete, Stored, Installing
<1>3. CASE ~EmbeddedTables
  <2> DEFINE j == [Idle EXCEPT !.at = "install", !.fam = f,
                               !.content = b.content, !.len = b.len]
  <2>1. /\ job' = [job EXCEPT ![t] = j]
        /\ first' = [first EXCEPT ![f] = IF @ = None THEN b.content ELSE @]
        /\ raced' = [raced EXCEPT ![f] = @ \/ \E u \in Threads : Installing(u, f)]
        /\ UNCHANGED slot
    BY <1>3 DEF InstallStart, Becomes, shared
  <2>2. j.at = "install" /\ j.fam = f /\ j.content = b.content
    BY DEF Idle
  <2>3. job'[t] = j /\ \A u \in Threads : u # t => job'[u] = job[u]
    BY <2>1 DEF IInv, TypeOK
  <2> HIDE DEF j
  <2> SUFFICES ASSUME NEW g \in Families, ~raced'[g] PROVE SerialFamily(g)'
    BY DEF Serial
  <2>4. ~raced[g]
    BY <1>1, <2>1 DEF IInv, TypeOK
  <2>5. SerialFamily(g)
    BY <2>4 DEF Serial
  <2>6. CASE g # f
    <3>1. first'[g] = first[g]
      BY <1>1, <2>1, <2>6 DEF IInv, TypeOK
    <3>2. \A u \in Threads : /\ Installing(u, g)' <=> Installing(u, g)
                             /\ Installing(u, g) => job'[u].content = job[u].content
      BY <1>1, <2>2, <2>3, <2>6 DEF Installing
    <3> QED BY <2>1, <2>5, <3>1, <3>2, SerialKept
  <2>7. CASE g = f
    <3>1. \A u \in Threads : ~Installing(u, f)
      BY <1>1, <2>1, <2>7 DEF IInv, TypeOK
    <3>2. \A u \in Threads : Installing(u, f)' <=> u = t
      BY <2>2, <2>3, <3>1 DEF Installing
    <3>3. Complete(f)' <=> Complete(f)
      BY <2>1 DEF Complete, Stored
    <3>4. first'[f] = (IF first[f] = None THEN b.content ELSE first[f]) /\ b.content # None
      BY <1>1, <2>1, NoneAssumption DEF IInv, TypeOK
    <3>5. \A s \in Contained(f) : slot'[s] \in {None, first'[f]}
      BY <2>1, <2>5, <2>7, <3>4 DEF SerialFamily
    <3>6. Complete(f) \/ first[f] = None
      BY <2>5, <2>7, <3>1 DEF SerialFamily
    <3>7. job'[t].content = b.content
      BY <2>2, <2>3
    <3> QED BY <2>7, <3>2, <3>3, <3>4, <3>5, <3>6, <3>7 DEF SerialFamily, Contained
  <2> QED BY <2>6, <2>7
<1> QED BY <1>2, <1>3

\* A slot is filled with the first install's table, or was full before; and the
\* last step of an install leaves its family complete.
LEMMA SlotSerial ==
  ASSUME IInv, IInv', Grows, Serial, NEW t \in Threads, InstallSlot(t)
  PROVE  Serial'
<1> DEFINE o == job[t]
           f == o.fam
           s == SlotsOf(f)[o.next]
           j == IF AtLast(o) THEN Idle ELSE [o EXCEPT !.next = o.next + 1]
<1>1. /\ o \in Job /\ o.at = "install" /\ f \in Families /\ o.next \in 1..TableCount(f)
  BY DEF IInv, KnowledgeLasts, TypeOK, InstallSlot, Passed
<1>2. /\ job' = [job EXCEPT ![t] = j]
      /\ slot' = [slot EXCEPT ![s] = IF @ = None THEN o.content ELSE @]
      /\ returned' = [returned EXCEPT ![f] = @ \/ AtLast(o)]
      /\ UNCHANGED <<first, raced>>
  BY DEF InstallSlot, Becomes, GetOrInit
<1>3. job'[t] = j /\ \A u \in Threads : u # t => job'[u] = job[u]
  BY <1>2 DEF IInv, TypeOK
<1>4. IF AtLast(o) THEN j.at = "idle" ELSE j.at = "install" /\ j.fam = f /\ j.content = o.content
  <2>1. CASE AtLast(o)
    BY <2>1 DEF Idle
  <2>2. CASE ~AtLast(o)
    BY <2>2, <1>1 DEF Job
  <2> QED BY <2>1, <2>2
<1>5. \A g \in Families : g = f /\ AtLast(o) => Complete(g)'
  <2>1. \A g \in Families : g = f /\ AtLast(o) => returned'[g]
    BY <1>1, <1>2 DEF IInv, TypeOK
  <2> QED BY <2>1 DEF IInv, NeverPanics, ReturnedMeansInstalled
<1>6. \A g \in Families : Complete(g) => Complete(g)'
  BY FamilySlots DEF Complete, Stored, Grows
<1>7. s \in Slots /\ \A r \in Slots : r # s => slot'[r] = slot[r]
  BY <1>1, <1>2, FamilySlots DEF IInv, TypeOK
<1>8. slot'[s] = IF slot[s] = None THEN o.content ELSE slot[s]
  BY <1>2, <1>7 DEF IInv, TypeOK
<1> SUFFICES ASSUME NEW g \in Families, ~raced'[g] PROVE SerialFamily(g)'
  BY DEF Serial
<1>9. SerialFamily(g)
  BY <1>2 DEF Serial
<1>10. \A r \in Contained(g) : r \in Slots
  BY FamilySlots DEF Contained
<1> HIDE DEF j
<1>11. CASE g # f
  <2>1. \A r \in Contained(g) : slot'[r] = slot[r]
    BY <1>1, <1>7, <1>10, <1>11, OwnSlots
  <2>2. \A u \in Threads : /\ Installing(u, g)' <=> Installing(u, g)
                           /\ Installing(u, g) => job'[u].content = job[u].content
    BY <1>1, <1>3, <1>4, <1>11 DEF Installing
  <2> QED BY <1>2, <1>9, <2>1, <2>2, SerialKept
<1>12. CASE g = f
  <2>1. Installing(t, g) /\ \A u \in Threads : Installing(u, g) => u = t
    BY <1>1, <1>9, <1>12 DEF SerialFamily, Installing
  <2>2. /\ \A u \in Threads : Installing(u, g)' => u = t
        /\ Installing(t, g)' <=> ~AtLast(o)
        /\ Installing(t, g)' => job'[t].content = o.content
    <3>1. \A u \in Threads : u # t => ~Installing(u, g)'
      BY <1>3, <2>1 DEF Installing
    <3> QED BY <1>3, <1>4, <1>12, <3>1 DEF Installing
  <2>3. Complete(g) \/ (o.content = first[g] /\ first[g] # None)
    BY <1>9, <2>1 DEF SerialFamily
  <2>4. Complete(g) /\ ~EmbeddedTables => slot[s] # None
    BY <1>1, <1>12 DEF Complete, Stored
  <2>5. ~EmbeddedTables
    BY <1>1 DEF IInv, KnowledgeLasts, Passed
  <2>6. slot[s] \in {None, first[g]}
    BY <1>1, <1>9, <1>12 DEF SerialFamily, Contained
  <2>7. slot'[s] \in {None, first[g]}
    BY <1>8, <2>3, <2>4, <2>5, <2>6
  <2>8. \A r \in Contained(g) : slot'[r] \in {None, first'[g]}
    BY <1>2, <1>7, <1>9, <1>10, <2>7 DEF SerialFamily
  <2>9. \A u \in Threads : Installing(u, g)' =>
          Complete(g)' \/ (job'[u].content = first'[g] /\ first'[g] # None)
    BY <1>2, <1>6, <2>2, <2>3
  <2>10. Complete(g)' \/ \E u \in Threads : Installing(u, g)'
    BY <1>5, <1>12, <2>2
  <2> QED BY <2>2, <2>8, <2>9, <2>10 DEF SerialFamily, Contained
<1> QED BY <1>11, <1>12

\* Every step.
LEMMA StepSerial == IInv /\ IInv' /\ Serial /\ [Next]_vars => Serial'
<1> SUFFICES ASSUME IInv, IInv', Serial, [Next]_vars PROVE Serial'
  OBVIOUS
<1>1. ASSUME NEW t \in Threads, NEW b \in Bundle, InstallStart(t, b) PROVE Serial'
  BY <1>1, StartSerial
<1>2. ASSUME NEW t \in Threads, InstallSlot(t) PROVE Serial'
  BY <1>2, SlotSerial, StepGrows DEF IInv
<1>3. ASSUME NEW t \in Threads,
             \/ \E tg \in Targets : TranscodeStart(t, tg)
             \/ CheckSlot(t) \/ LoadTable(t) \/ DerivePublish(t)
             \/ \E s \in AstcSlots : DeriveStart(t, s)
      PROVE  Serial'
  <2>1. /\ UNCHANGED <<slot, first, raced>>
        /\ job[t].at # "install" /\ job'[t].at # "install"
        /\ \A u \in Threads : u # t => job'[u] = job[u]
    BY <1>3, NoInstall DEF IInv
  <2>2. \A f \in Families : \A u \in Threads :
          /\ Installing(u, f)' <=> Installing(u, f)
          /\ Installing(u, f) => job'[u].content = job[u].content
    BY <2>1 DEF Installing
  <2> QED BY <2>1, <2>2, SerialKept DEF Serial
<1>4. CASE UNCHANGED vars
  BY <1>4 DEF Serial, SerialFamily, Contained, Complete, Stored, Installing, vars, shared, history
<1> QED BY <1>1, <1>2, <1>3, <1>4 DEF Next, Begin, Advance

\* Nothing is installed at first.
LEMMA InitSerial == Init => Serial
<1> SUFFICES ASSUME Init, NEW f \in Families PROVE SerialFamily(f)
  BY DEF Serial
<1>1. first[f] = None /\ \A t \in Threads : ~Installing(t, f)
  BY DEF Init, Installing, Idle
<1>2. \A s \in Contained(f) : slot[s] = None
  BY FamilySlots DEF Init, Contained
<1> QED BY <1>1, <1>2 DEF SerialFamily

\* Installs of a family that do not race leave it with the tables of the one
\* that started first (lazy.rs:158-159).
THEOREM FirstInstallStays == Spec => []SerialInstallKeepsFirst
<1>1. Serial => SerialInstallKeepsFirst
  BY DEF Serial, SerialFamily, SerialInstallKeepsFirst
<1> QED BY <1>1, InitSerial, StepSerial, Invariance, PTL DEF Spec

\* Type correctness.
THEOREM TypeCorrect == Spec => []TypeOK
BY Invariance, PTL DEF IInv

\* The `expect` of lazy.rs:238-240 never fires, whatever the number of
\* threads that install and transcode at once.
THEOREM ExpectNeverFires == Spec => []NoUnreadyRead
BY Invariance, PTL DEF IInv, NeverPanics

\* An install that returned Ok made its family available, also when it lost
\* every slot to another one (lazy.rs:166-170).
THEOREM OkMeansInstalled == Spec => []ReturnedMeansInstalled
BY Invariance, PTL DEF IInv, NeverPanics

\* What a thread learned in the middle of a call stays true.
THEOREM KnowledgeKept == Spec => []KnowledgeLasts
BY Invariance, PTL DEF IInv

\* What a transcode knows of one slot of a family that no racing installs filled.
LEMMA KnownOfSlot ==
  ASSUME IInv, Serial, NEW t \in Threads, NEW f \in Families, ~raced[f],
         NEW s \in Contained(f), NEW r \in Contained(f)
  PROVE  /\ \A c \in job[t].seen[s] : c = TableAt(s) /\ Readable(s)
         /\ cache[s] # None => cache[s] = TableAt(s) /\ Readable(s)
         /\ Readable(s) /\ Readable(r) => TableAt(s) = TableAt(r)
<1>1. s \in Slots /\ r \in Slots
  BY FamilySlots DEF Contained
<1>2. StillTrue(job[t]) /\ CacheTrue
  BY DEF IInv, KnowledgeLasts
<1>3. \A c \in job[t].seen[s] : c = TableAt(s) /\ Readable(s)
  BY <1>1, <1>2 DEF StillTrue
<1>4. cache[s] # None => cache[s] = TableAt(s) /\ Readable(s)
  BY <1>1, <1>2 DEF CacheTrue
<1>5. slot[s] \in {None, first[f]} /\ slot[r] \in {None, first[f]}
  BY DEF Serial, SerialFamily
<1>6. Readable(s) /\ Readable(r) => TableAt(s) = TableAt(r)
  BY <1>5 DEF Readable, Stored, TableAt
<1> QED BY <1>3, <1>4, <1>6

\* Installs that do not race let a transcode read the tables of one bundle only, in all
\* of its slots and blocks and out of the cache (lazy.rs:158-169, 243-270).
THEOREM TranscodeFromOneBundle == Spec => []OneBundlePerTranscode
<1>1. ASSUME IInv, Serial PROVE OneBundlePerTranscode
  <2> SUFFICES ASSUME NEW t \in Threads, NEW f \in Families, ~raced[f],
                      NEW s \in Contained(f), NEW r \in Contained(f),
                      NEW c \in job[t].seen[s]
               PROVE  job[t].seen[r] \subseteq {c} /\ cache[r] \in {None, c}
    BY DEF OneBundlePerTranscode
  <2>1. c = TableAt(s) /\ Readable(s)
    BY <1>1, KnownOfSlot
  <2>2. /\ \A d \in job[t].seen[r] : d = TableAt(r) /\ Readable(r)
        /\ cache[r] # None => cache[r] = TableAt(r) /\ Readable(r)
        /\ Readable(s) /\ Readable(r) => TableAt(s) = TableAt(r)
    BY <1>1, KnownOfSlot
  <2> QED BY <2>1, <2>2
<1> QED BY <1>1, InitSerial, StepSerial, Invariance, PTL DEF Spec

\* Every derived mapping belongs to the table it is used with
\* (astc_tables.rs:96-102, 139-148).
THEOREM MappingsFresh == Spec => []DerivedFresh
<1>1. IInv => DerivedFresh
  BY DEF IInv, KnowledgeLasts, CacheTrue, DerivedFresh
<1> QED BY <1>1, Invariance, PTL

\* The slice cut for each table lies within the bundle (lazy.rs:167-168).
THEOREM SlicesFit == Spec => []SliceInBounds
<1>1. IInv => SliceInBounds
  BY FamilySlots DEF IInv, KnowledgeLasts, Passed, SliceInBounds, BundleLen
<1> QED BY <1>1, Invariance, PTL

\* All blocks of one transcode read the same tables (lazy.rs:229-241).
THEOREM SameTables == Spec => []OneTablePerCall
<1>1. IInv => OneTablePerCall
  <2> SUFFICES ASSUME IInv, NEW t \in Threads, NEW s \in Slots
               PROVE  Cardinality(job[t].seen[s]) <= 1
    BY DEF OneTablePerCall
  <2>1. job[t].seen[s] = {} \/ job[t].seen[s] = {TableAt(s)}
    BY DEF IInv, KnowledgeLasts, StillTrue
  <2>2. Cardinality({}) = 0 /\ Cardinality({TableAt(s)}) = 1
    BY FS_EmptySet, FS_Singleton
  <2>3. CASE job[t].seen[s] = {}
    <3>1. Cardinality(job[t].seen[s]) = 0
      BY <2>2, <2>3, Zenon
    <3> QED BY <3>1
  <2>4. CASE job[t].seen[s] = {TableAt(s)}
    <3>1. Cardinality(job[t].seen[s]) = 1
      BY <2>2, <2>4, Zenon
    <3> QED BY <3>1
  <2> QED BY <2>1, <2>3, <2>4
<1> QED BY <1>1, Invariance, PTL
=============================================================================
