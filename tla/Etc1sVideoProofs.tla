-------------------------- MODULE Etc1sVideoProofs --------------------------
(***************************************************************************)
(* Proofs about Etc1sVideo for every set of sound files, of any number of  *)
(* levels, frames and blocks, and for calls in any order.                  *)
(***************************************************************************)
EXTENDS Etc1sVideo, TLAPS

----------------------------------------------------------------------------
(* The numbers. *)

\* What an encoder meant for a block is an endpoint.
LEMMA MeantType ==
  ASSUME NEW v \in Files, NEW slot \in Slots, NEW f \in FrameSet \cup {Fresh}, NEW b \in 0..N
  PROVE  Meant(v, slot, f, b) \in Ends
<1>1. 0 \in Ends
  BY SizeAssumption DEF Ends
<1>2. CASE b = 0 \/ f = Fresh
  BY <1>1, <1>2 DEF Meant
<1>3. CASE ~(b = 0 \/ f = Fresh)
  <2>1. b \in Blocks /\ f \in FrameSet
    BY <1>3, SizeAssumption DEF Blocks
  <2>2. <<slot, f, b>> \in Places
    BY <2>1 DEF Places
  <2>3. v.value \in [Places -> Ends]
    BY FileAssumption DEF FileType
  <2> QED BY <1>3, <2>2, <2>3 DEF Meant
<1> QED BY <1>2, <1>3

\* A wrapped sum of two endpoints is one.
LEMMA WrapType ==
  ASSUME NEW d \in Ends, NEW e \in Ends
  PROVE  Wrapped(e + d) \in Ends
BY SizeAssumption DEF Wrapped, Ends

\* A place of a file has its frame, its slot and its reference.
LEMMA PlaceFacts ==
  ASSUME NEW v \in Files, NEW slot \in Slots, NEW f \in FrameSet, NEW b \in Blocks
  PROVE  /\ <<slot, f, b>> \in Places
         /\ v.value[<<slot, f, b>>] \in Ends
         /\ v.value[<<slot, f, b>>] = Meant(v, slot, f, b)
         /\ v.of[<<slot, f, b>>] \in 0..N /\ v.of[<<slot, f, b>>] < b
         /\ Meant(v, slot, f, v.of[<<slot, f, b>>]) \in Ends
<1> DEFINE p == <<slot, f, b>>
<1>1. p \in Places /\ p[1] = slot /\ p[2] = f /\ p[3] = b
  BY DEF Places
<1>2. v.value \in [Places -> Ends] /\ v.of \in [Places -> 0..N] /\ v.of[p] < p[3]
  BY <1>1, FileAssumption DEF FileType, Sound
<1>3. b # 0 /\ f # Fresh
  BY SizeAssumption DEF Blocks, FrameSet, Fresh
<1>4. v.value[p] = Meant(v, slot, f, b)
  BY <1>3 DEF Meant
<1>5. v.of[p] \in 0..N
  BY <1>1, <1>2
<1>6. Meant(v, slot, f, v.of[p]) \in Ends
  BY <1>5, MeantType
<1> QED BY <1>1, <1>2, <1>4, <1>5, <1>6

\* A delta is an endpoint, and takes what is meant to what is meant.
LEMMA DeltaRight ==
  ASSUME NEW v \in Files, NEW slot \in Slots, NEW f \in FrameSet, NEW b \in Blocks
  PROVE  LET p == <<slot, f, b>>
         IN  /\ Delta(v, p) \in Ends
             /\ Wrapped(Meant(v, slot, f, v.of[p]) + Delta(v, p)) = Meant(v, slot, f, b)
<1> DEFINE p == <<slot, f, b>>
           m == Meant(v, slot, f, v.of[p])
           w == v.value[p]
<1>1. w \in Ends /\ m \in Ends /\ w = Meant(v, slot, f, b)
  BY PlaceFacts
<1>2. Delta(v, p) = IF w - m < 0 THEN w - m + NEnd ELSE w - m
  BY DEF Delta
<1> HIDE DEF m, w, p
<1>3. Delta(v, p) \in Ends /\ Wrapped(m + Delta(v, p)) = w
  BY <1>1, <1>2, SizeAssumption DEF Ends, Wrapped
<1> QED BY <1>1, <1>3 DEF m, w, p

\* A replenished block has what the frame before had.
LEMMA ReplenishedSame ==
  ASSUME NEW v \in Files, NEW slot \in Slots, NEW f \in FrameSet, NEW b \in Blocks,
         <<slot, f, b>> \in v.cr
  PROVE  Meant(v, slot, f, b) = Meant(v, slot, f - 1, b)
<1>1. <<slot, f, b>>[1] = slot /\ <<slot, f, b>>[2] = f /\ <<slot, f, b>>[3] = b
  OBVIOUS
<1>2. Sound(v)
  BY FileAssumption
<1>3. v.value[<<slot, f, b>>] = Meant(v, slot, f - 1, b)
  BY <1>1, <1>2 DEF Sound
<1> QED BY <1>3, PlaceFacts

----------------------------------------------------------------------------
(* Types. *)

\* The block at hand.
LEMMA HereFacts ==
  ASSUME TypeOK
  PROVE  /\ Here \in Slots /\ Slot(level, now) = Here /\ Place = <<Here, frame, pos>>
         /\ frame \in FrameSet /\ pos \in Blocks /\ pos \in 1..N /\ file \in Files
         /\ N \in Nat /\ prev[Here] \in [Blocks -> Ends] /\ out \in [Blocks -> Ends]
<1>1. level \in Levels /\ now \in Slices
  BY DEF TypeOK
<1>2. Here \in Slots
  BY <1>1 DEF Here, Slots
<1> QED BY <1>2, SizeAssumption DEF TypeOK, Here, Slot, Place, Blocks

\* What is decoded for a block is an endpoint.
LEMMA DecodedType ==
  ASSUME TypeOK
  PROVE  Decoded \in Ends
<1> DEFINE r == file.of[Place]
<1>1. CASE Place \in file.cr
  BY <1>1, HereFacts DEF Decoded
<1>2. CASE Place \notin file.cr
  <2>1. r \in 0..N /\ Delta(file, Place) \in Ends
    BY HereFacts, PlaceFacts, DeltaRight
  <2>2. Got(r) \in Ends
    <3>1. 0 \in Ends
      BY SizeAssumption DEF Ends
    <3>2. r # 0 => r \in Blocks
      BY <2>1, SizeAssumption DEF Blocks
    <3> QED BY <3>1, <3>2, HereFacts DEF Got
  <2>3. Wrapped(Got(r) + Delta(file, Place)) \in Ends
    BY <2>1, <2>2, WrapType
  <2> QED BY <1>2, <2>3 DEF Decoded
<1> QED BY <1>1, <1>2

\* Nothing decoded yet.
LEMMA ZerosType == Zeros \in [Blocks -> Ends]
BY SizeAssumption DEF Zeros, Ends

\* The two slices of a target differ.
LEMMA SlicesOfTarget ==
  ASSUME NEW t
  PROVE  First(t) \in Slices /\ Second(t) \in Slices \cup {"none"} /\ Second(t) # First(t)
BY DEF First, Second, Slices

\* The initial state.
LEMMA InitType == Init => TypeOK
<1> SUFFICES ASSUME Init PROVE TypeOK
  OBVIOUS
<1>1. 1 \in Blocks /\ 0 \in FrameSet
  BY SizeAssumption DEF Blocks, FrameSet
<1>2. [s \in Slices |-> Unshown] \in [Slices -> [set : BOOLEAN, sure : BOOLEAN, out : [Blocks -> Ends]]]
  BY ZerosType DEF Unshown
<1> QED BY <1>1, <1>2, ZerosType DEF Init, TypeOK, Slices

\* A block, in the middle of a slice or at its end.
LEMMA BlockType ==
  ASSUME TypeOK, Block
  PROVE  TypeOK'
<1>1. Decoded \in Ends
  BY DecodedType
<1>2. prev' \in [Slots -> [Blocks -> Ends]]
  <2>1. prev' = [prev EXCEPT ![Here][pos] = Decoded]
    BY HereFacts DEF Block
  <2> QED BY <1>1, <2>1, HereFacts DEF TypeOK
<1> DEFINE o == [out EXCEPT ![pos] = Decoded]
<1>3. o \in [Blocks -> Ends]
  BY <1>1, HereFacts
<1>4. UNCHANGED <<file, level, frame, target, seen>>
  BY DEF Block, args
<1>5. CASE pos < N
  <2>1. pos + 1 \in Blocks
    BY <1>5, HereFacts DEF Blocks
  <2>2. out' = o /\ pos' = pos + 1 /\ UNCHANGED <<phase, now, then, clean, done, shown>>
    BY <1>5 DEF Block
  <2> HIDE DEF o
  <2> QED BY <1>2, <1>3, <1>4, <2>1, <2>2 DEF TypeOK
<1>6. CASE ~(pos < N)
  <2> DEFINE c == IF RightBase(Here, frame) THEN frame ELSE Lost
             h == [set |-> TRUE, sure |-> RightBase(Here, frame), out |-> o]
  <2>1. /\ clean' = [clean EXCEPT ![Here] = c] /\ done' = [done EXCEPT ![Here] = frame]
        /\ shown' = [shown EXCEPT ![now] = h] /\ out' = Zeros /\ pos' = 1
        /\ \/ then = "none" /\ phase' = "pack" /\ UNCHANGED <<now, then>>
           \/ then # "none" /\ now' = then /\ then' = "none" /\ UNCHANGED phase
    BY <1>6 DEF Block
  <2>2. c \in FrameSet \cup {Fresh, Lost}
    BY HereFacts
  <2>3. RightBase(Here, frame) \in BOOLEAN
    BY DEF RightBase
  <2> HIDE DEF o, c
  <2>4. h \in [set : BOOLEAN, sure : BOOLEAN, out : [Blocks -> Ends]]
    BY <1>3, <2>3
  <2> HIDE DEF h
  <2>5. clean' \in [Slots -> FrameSet \cup {Fresh, Lost}]
    BY <2>1, <2>2 DEF TypeOK
  <2>6. done' \in [Slots -> FrameSet \cup {Lost}]
    BY <2>1, HereFacts DEF TypeOK
  <2>7. shown' \in [Slices -> [set : BOOLEAN, sure : BOOLEAN, out : [Blocks -> Ends]]]
    BY <2>1, <2>4 DEF TypeOK
  <2>8. pos' \in Blocks /\ out' \in [Blocks -> Ends]
    BY <2>1, ZerosType, SizeAssumption DEF Blocks
  <2>9. now' \in Slices /\ then' \in Slices \cup {"none"} /\ then' # now'
        /\ phase' \in {"idle", "decode", "pack", "ok", "failed", "refused"}
    BY <2>1 DEF TypeOK, Slices
  <2> QED BY <1>2, <1>4, <2>5, <2>6, <2>7, <2>8, <2>9 DEF TypeOK
<1> QED BY <1>5, <1>6

\* Every step keeps the types.
LEMMA StepType == TypeOK /\ [Next]_vars => TypeOK'
<1> SUFFICES ASSUME TypeOK, [Next]_vars PROVE TypeOK'
  OBVIOUS
<1>1. CASE UNCHANGED vars
  BY <1>1 DEF TypeOK, vars, args, decode, ghosts
<1>2. CASE \E l \in Levels, f \in 0..Frames : Refuse(l, f)
  BY <1>2 DEF Refuse, TypeOK, args, decode, ghosts
<1>3. CASE \E l \in Levels, f \in FrameSet, t \in Targets : Start(l, f, t)
  <2>1. PICK l \in Levels, f \in FrameSet, t \in Targets : Start(l, f, t)
    BY <1>3
  <2>2. 1 \in Blocks
    BY SizeAssumption DEF Blocks
  <2>3. [s \in Slices |-> Unshown] \in [Slices -> [set : BOOLEAN, sure : BOOLEAN, out : [Blocks -> Ends]]]
    BY ZerosType DEF Unshown
  <2> QED BY <2>1, <2>2, <2>3, ZerosType, SlicesOfTarget DEF Start, TypeOK
<1>4. CASE Block
  BY <1>4, BlockType
<1>5. CASE Corrupt
  <2>1. clean' \in [Slots -> FrameSet \cup {Fresh, Lost}]
        /\ done' \in [Slots -> FrameSet \cup {Lost}]
        /\ seen' \in [Levels -> FrameSet \cup {Fresh, Lost}]
    BY <1>5, HereFacts DEF Corrupt, TypeOK
  <2> QED BY <1>5, <2>1 DEF Corrupt, TypeOK, args, decode
<1>6. CASE Pack
  <2>1. seen' \in [Levels -> FrameSet \cup {Fresh, Lost}]
    BY <1>6 DEF Pack, TypeOK
  <2> QED BY <1>6, <2>1 DEF Pack, TypeOK, args, decode
<1>7. CASE Reset
  <2>1. prev' \in [Slots -> [Blocks -> Ends]]
    BY <1>7, ZerosType DEF Reset
  <2> QED BY <1>7, <2>1 DEF Reset, TypeOK, args, decode
<1> QED BY <1>1, <1>2, <1>3, <1>4, <1>5, <1>6, <1>7 DEF Next

\* The state stays well typed.
THEOREM TypeCorrect == Spec => []TypeOK
BY InitType, StepType, PTL DEF Spec

----------------------------------------------------------------------------
(* The state is the encoder's. *)

\* A slot in the middle of its decode: the frame so far, and behind it what
\* the slot held.
Progress ==
  phase = "decode" =>
    /\ \A b \in Blocks : b < pos =>
         /\ prev[Here][b] = out[b]
         /\ RightBase(Here, frame) => out[b] = Meant(file, Here, frame, b)
    /\ clean[Here] # Lost =>
         \A b \in Blocks : b >= pos => prev[Here][b] = Meant(file, Here, clean[Here], b)

Faithful == StateIsFrame /\ SureIsRight /\ Progress

\* From the right base a block is decoded to what was meant.
LEMMA DecodedRight ==
  ASSUME TypeOK, Progress, phase = "decode", RightBase(Here, frame)
  PROVE  Decoded = Meant(file, Here, frame, pos)
<1> USE HereFacts
<1>1. CASE Place \in file.cr
  <2>1. clean[Here] \in {frame - 1, frame}
    BY <1>1 DEF RightBase
  <2>2. clean[Here] # Lost
    BY <2>1 DEF Lost, FrameSet
  <2>3. pos >= pos
    OBVIOUS
  <2>4. Decoded = Meant(file, Here, clean[Here], pos)
    BY <1>1, <2>2, <2>3 DEF Decoded, Progress
  <2>5. Meant(file, Here, frame, pos) = Meant(file, Here, frame - 1, pos)
    BY <1>1, ReplenishedSame
  <2> QED BY <2>1, <2>4, <2>5
<1>2. CASE Place \notin file.cr
  <2> DEFINE r == file.of[Place]
  <2>1. r \in 0..N /\ r < pos
    BY PlaceFacts
  <2>2. Got(r) = Meant(file, Here, frame, r)
    <3>1. CASE r = 0
      BY <3>1 DEF Got, Meant
    <3>2. CASE r # 0
      <4>1. r \in Blocks
        BY <2>1, <3>2 DEF Blocks
      <4> QED BY <2>1, <3>2, <4>1 DEF Got, Progress
    <3> QED BY <3>1, <3>2
  <2>3. Wrapped(Got(r) + Delta(file, Place)) = Meant(file, Here, frame, pos)
    BY <2>2, DeltaRight
  <2> QED BY <1>2, <2>3 DEF Decoded
<1> QED BY <1>1, <1>2

\* A new state reads as the frame before the first.
LEMMA ZerosFresh ==
  ASSUME NEW v, NEW slot, NEW b \in Blocks
  PROVE  Zeros[b] = Meant(v, slot, Fresh, b)
BY DEF Zeros, Meant

\* At first.
LEMMA InitFaithful == Init => Faithful
<1> SUFFICES ASSUME Init PROVE Faithful
  OBVIOUS
<1>1. StateIsFrame
  BY ZerosFresh DEF Init, StateIsFrame
<1>2. SureIsRight /\ Progress
  BY DEF Init, SureIsRight, Unshown, Progress
<1> QED BY <1>1, <1>2 DEF Faithful

\* A call starts.
LEMMA StartFaithful ==
  ASSUME TypeOK, Faithful, NEW l \in Levels, NEW f \in FrameSet, NEW t \in Targets,
         Start(l, f, t)
  PROVE  Faithful'
<1>1. /\ phase' = "decode" /\ pos' = 1 /\ UNCHANGED <<file, prev, clean>>
      /\ shown' = [s \in Slices |-> Unshown] /\ phase # "decode"
      /\ now' \in Slices /\ level' = l
  BY SlicesOfTarget DEF Start, Idle
<1>2. Here' \in Slots
  BY <1>1 DEF Here, Slots
<1>3. StateIsFrame'
  BY <1>1 DEF Faithful, StateIsFrame, Busy
<1>4. SureIsRight'
  BY <1>1 DEF SureIsRight, Unshown
<1>5. Progress'
  <2>1. \A b \in Blocks : ~(b < 1) /\ b >= 1
    BY DEF Blocks
  <2>2. \A slot \in Slots : clean[slot] # Lost =>
          \A b \in Blocks : prev[slot][b] = Meant(file, slot, clean[slot], b)
    BY <1>1 DEF Faithful, StateIsFrame, Busy
  <2>3. clean'[Here'] # Lost =>
          \A b \in Blocks : prev'[Here'][b] = Meant(file', Here', clean'[Here'], b)
    BY <1>1, <1>2, <2>2
  <2> QED BY <1>1, <2>1, <2>3 DEF Progress
<1> QED BY <1>3, <1>4, <1>5 DEF Faithful

\* A block in the middle of a slice.
LEMMA MiddleFaithful ==
  ASSUME TypeOK, Faithful, Block, pos < N
  PROVE  Faithful'
<1> USE HereFacts
<1>1. /\ prev' = [prev EXCEPT ![Here][pos] = Decoded]
      /\ out' = [out EXCEPT ![pos] = Decoded] /\ pos' = pos + 1
      /\ UNCHANGED <<file, level, frame, phase, now, clean, shown>> /\ phase = "decode"
  BY DEF Block, args
<1>2. Here' = Here /\ \A f : RightBase(Here, f)' = RightBase(Here, f)
  BY <1>1 DEF Here, RightBase
<1>3. /\ prev'[Here][pos] = Decoded /\ out'[pos] = Decoded
      /\ \A b \in Blocks : b # pos => prev'[Here][b] = prev[Here][b] /\ out'[b] = out[b]
      /\ \A slot \in Slots : slot # Here => prev'[slot] = prev[slot]
  BY <1>1 DEF TypeOK
<1>4. StateIsFrame'
  BY <1>1, <1>2, <1>3 DEF Faithful, StateIsFrame, Busy
<1>5. SureIsRight'
  BY <1>1 DEF Faithful, SureIsRight
<1>6. Progress'
  <2>1. \A b \in Blocks : b < pos + 1 => b < pos \/ b = pos
    BY DEF Blocks
  <2>2. \A b \in Blocks : b >= pos + 1 => b >= pos /\ b # pos
    BY DEF Blocks
  <2>3. RightBase(Here, frame) => Decoded = Meant(file, Here, frame, pos)
    BY <1>1, DecodedRight DEF Faithful
  <2>4. \A b \in Blocks : b < pos + 1 =>
          /\ prev'[Here][b] = out'[b]
          /\ RightBase(Here, frame) => out'[b] = Meant(file, Here, frame, b)
    <3>1. ASSUME NEW b \in Blocks, b < pos
          PROVE  /\ prev'[Here][b] = out'[b]
                 /\ RightBase(Here, frame) => out'[b] = Meant(file, Here, frame, b)
      <4>1. b # pos
        BY <3>1
      <4> QED BY <1>1, <1>3, <3>1, <4>1 DEF Faithful, Progress
    <3> QED BY <1>3, <2>1, <2>3, <3>1
  <2>5. clean[Here] # Lost =>
          \A b \in Blocks : b >= pos + 1 => prev'[Here][b] = Meant(file, Here, clean[Here], b)
    BY <1>1, <1>3, <2>2 DEF Faithful, Progress
  <2> QED BY <1>1, <1>2, <2>4, <2>5 DEF Progress
<1> QED BY <1>4, <1>5, <1>6 DEF Faithful

\* The last block of a slice.
LEMMA LastFaithful ==
  ASSUME TypeOK, Faithful, Block, ~(pos < N)
  PROVE  Faithful'
<1> USE HereFacts
<1> DEFINE o == [out EXCEPT ![pos] = Decoded]
<1>1. /\ prev' = [prev EXCEPT ![Here][pos] = Decoded]
      /\ pos' = 1 /\ UNCHANGED <<file, level, frame>> /\ phase = "decode"
      /\ clean' = [clean EXCEPT ![Here] = IF RightBase(Here, frame) THEN frame ELSE Lost]
      /\ shown' = [shown EXCEPT ![now] =
                     [set |-> TRUE, sure |-> RightBase(Here, frame), out |-> o]]
      /\ \/ then = "none" /\ phase' = "pack" /\ UNCHANGED now
         \/ then \in Slices /\ now' = then /\ phase' = "decode" /\ then # now
  BY DEF Block, args, TypeOK
<1>2. /\ prev'[Here][pos] = Decoded /\ o[pos] = Decoded
      /\ \A b \in Blocks : b # pos => prev'[Here][b] = prev[Here][b] /\ o[b] = out[b]
      /\ \A slot \in Slots : slot # Here => prev'[slot] = prev[slot] /\ clean'[slot] = clean[slot]
      /\ clean'[Here] = IF RightBase(Here, frame) THEN frame ELSE Lost
  BY <1>1 DEF TypeOK
<1>3. pos = N /\ \A b \in Blocks : b < pos \/ b = pos
  BY DEF Blocks
<1>4. RightBase(Here, frame) =>
        \A b \in Blocks : prev'[Here][b] = Meant(file, Here, frame, b)
                          /\ o[b] = Meant(file, Here, frame, b)
  <2>1. SUFFICES ASSUME RightBase(Here, frame), NEW b \in Blocks
                 PROVE  /\ prev'[Here][b] = Meant(file, Here, frame, b)
                        /\ o[b] = Meant(file, Here, frame, b)
    OBVIOUS
  <2>2. CASE b = pos
    BY <1>1, <1>2, <2>1, <2>2, DecodedRight DEF Faithful
  <2>3. CASE b # pos
    <3>1. b < pos
      BY <1>3, <2>3
    <3> QED BY <1>1, <1>2, <2>1, <2>3, <3>1 DEF Faithful, Progress
  <2> QED BY <2>2, <2>3
<1>5. \A slot \in Slots : clean'[slot] # Lost =>
        \A b \in Blocks : prev'[slot][b] = Meant(file, slot, clean'[slot], b)
  <2>1. ASSUME NEW slot \in Slots, clean'[slot] # Lost, NEW b \in Blocks
        PROVE  prev'[slot][b] = Meant(file, slot, clean'[slot], b)
    <3>1. CASE slot = Here
      BY <1>2, <1>4, <2>1, <3>1
    <3>2. CASE slot # Here
      BY <1>2, <2>1, <3>2 DEF Faithful, StateIsFrame, Busy
    <3> QED BY <3>1, <3>2
  <2> QED BY <2>1
<1>6. StateIsFrame'
  BY <1>1, <1>5 DEF StateIsFrame
<1>7. SureIsRight'
  <2> HIDE DEF o
  <2>1. ASSUME NEW s \in Slices, shown'[s].set, shown'[s].sure, NEW b \in Blocks
        PROVE  shown'[s].out[b] = Meant(file, <<level, s>>, frame, b)
    <3>1. CASE s = now
      <4>1. shown'[s] = [set |-> TRUE, sure |-> RightBase(Here, frame), out |-> o]
        BY <1>1, <3>1 DEF TypeOK
      <4> QED BY <1>4, <2>1, <3>1, <4>1 DEF Here
    <3>2. CASE s # now
      <4>1. shown'[s] = shown[s]
        BY <1>1, <3>2 DEF TypeOK
      <4> QED BY <2>1, <4>1 DEF Faithful, SureIsRight
    <3> QED BY <3>1, <3>2
  <2> QED BY <1>1, <2>1 DEF SureIsRight
<1>8. Progress'
  <2>1. CASE phase' = "pack"
    BY <2>1 DEF Progress
  <2>2. CASE phase' = "decode"
    <3>1. Here' \in Slots
      BY <1>1, <2>2 DEF Here, Slots, TypeOK
    <3>2. \A b \in Blocks : ~(b < 1) /\ b >= 1
      BY DEF Blocks
    <3>3. clean'[Here'] # Lost =>
            \A b \in Blocks : prev'[Here'][b] = Meant(file', Here', clean'[Here'], b)
      BY <1>1, <1>5, <3>1
    <3> QED BY <1>1, <3>2, <3>3 DEF Progress
  <2> QED BY <1>1, <2>1, <2>2
<1> QED BY <1>6, <1>7, <1>8 DEF Faithful

\* A corrupt slice loses its frame, unless it fails before its first block.
LEMMA CorruptFaithful ==
  ASSUME TypeOK, Faithful, Corrupt
  PROVE  Faithful'
<1> USE HereFacts
<1>1. /\ phase = "decode" /\ phase' = "failed" /\ UNCHANGED <<file, prev, level, frame, shown>>
      /\ clean' = [clean EXCEPT ![Here] = IF pos = 1 THEN @ ELSE Lost]
  BY DEF Corrupt, args
<1>2. /\ \A slot \in Slots : slot # Here => clean'[slot] = clean[slot]
      /\ clean'[Here] # Lost => pos = 1 /\ clean'[Here] = clean[Here]
  BY <1>1 DEF TypeOK
<1>3. StateIsFrame'
  <2>1. ASSUME NEW slot \in Slots, clean'[slot] # Lost, NEW b \in Blocks
        PROVE  prev[slot][b] = Meant(file, slot, clean'[slot], b)
    <3>1. CASE slot = Here
      <4>1. pos = 1 => b >= pos
        BY DEF Blocks
      <4> QED BY <1>1, <1>2, <2>1, <3>1, <4>1 DEF Faithful, Progress
    <3>2. CASE slot # Here
      BY <1>2, <2>1, <3>2 DEF Faithful, StateIsFrame, Busy
    <3> QED BY <3>1, <3>2
  <2> QED BY <1>1, <2>1 DEF StateIsFrame
<1>4. SureIsRight'
  BY <1>1 DEF Faithful, SureIsRight
<1> QED BY <1>1, <1>3, <1>4 DEF Faithful, Progress

\* Every step.
LEMMA StepFaithful == TypeOK /\ Faithful /\ [Next]_vars => Faithful'
<1> SUFFICES ASSUME TypeOK, Faithful, [Next]_vars PROVE Faithful'
  OBVIOUS
<1>1. CASE UNCHANGED vars
  BY <1>1 DEF Faithful, StateIsFrame, SureIsRight, Progress, Busy, Here, RightBase,
     vars, args, decode, ghosts
<1>2. CASE \E l \in Levels, f \in 0..Frames : Refuse(l, f)
  BY <1>2 DEF Refuse, Idle, Faithful, StateIsFrame, SureIsRight, Progress, Busy, Here,
     args, decode, ghosts
<1>3. CASE \E l \in Levels, f \in FrameSet, t \in Targets : Start(l, f, t)
  BY <1>3, StartFaithful
<1>4. CASE Block
  BY <1>4, MiddleFaithful, LastFaithful
<1>5. CASE Corrupt
  BY <1>5, CorruptFaithful
<1>6. CASE Pack
  <2>1. phase = "pack" /\ phase' \in {"failed", "ok"}
        /\ UNCHANGED <<file, prev, level, frame, now, clean, shown>>
    BY <1>6 DEF Pack, args, decode
  <2> QED BY <2>1 DEF Faithful, StateIsFrame, SureIsRight, Progress, Busy, Here
<1>7. CASE Reset
  <2>1. /\ phase # "decode" /\ UNCHANGED <<file, phase, level, frame, shown>>
        /\ prev' = [slot \in Slots |-> Zeros] /\ clean' = [slot \in Slots |-> Fresh]
    BY <1>7 DEF Reset, Idle, args
  <2>2. StateIsFrame'
    BY <2>1, ZerosFresh DEF StateIsFrame
  <2>3. SureIsRight' /\ Progress'
    BY <2>1 DEF Faithful, SureIsRight, Progress
  <2> QED BY <2>2, <2>3 DEF Faithful
<1> QED BY <1>1, <1>2, <1>3, <1>4, <1>5, <1>6, <1>7 DEF Next

\* The state and the output are right in every reachable state.
LEMMA FaithfulHolds == Spec => []Faithful
BY InitFaithful, StepFaithful, TypeCorrect, PTL DEF Spec

\* The state holds the encoder's frame wherever each decode started from the
\* right base, for any interleaving of levels, slices, failures and resets
\* (etc1s.rs:138-184).
THEOREM StateFaithful == Spec => []StateIsFrame
BY FaithfulHolds, PTL DEF Faithful

\* What is decoded from the right base is what was meant (etc1s.rs:429-474).
THEOREM OutputFaithful == Spec => []SureIsRight
BY FaithfulHolds, PTL DEF Faithful

----------------------------------------------------------------------------
(* To decode a frame again changes nothing. *)

\* The pair a slot's own block is coded relative to.
Own(slot, r) == IF r = 0 THEN 0 ELSE prev[slot][r]

\* Block b of a slot is as the decode of frame f leaves it.
Settled(slot, f, b) ==
  <<slot, f, b>> \notin file.cr =>
    prev[slot][b] = Wrapped(Own(slot, file.of[<<slot, f, b>>]) + Delta(file, <<slot, f, b>>))

Steady ==
  /\ \A slot \in Slots : done[slot] # Lost /\ ~(Busy(slot) /\ done[slot] # frame) =>
       \A b \in Blocks : Settled(slot, done[slot], b)
  /\ phase = "decode" =>
       \A b \in Blocks : b < pos => prev[Here][b] = out[b] /\ Settled(Here, frame, b)

\* What a block that is not replenished is decoded to.
LEMMA OwnDecoded ==
  ASSUME TypeOK, Steady, phase = "decode", Place \notin file.cr
  PROVE  Decoded = Wrapped(Own(Here, file.of[Place]) + Delta(file, Place))
<1> USE HereFacts
<1> DEFINE r == file.of[Place]
<1>1. r \in 0..N /\ r < pos
  BY PlaceFacts
<1>2. r # 0 => r \in Blocks
  BY <1>1 DEF Blocks
<1>3. Got(r) = Own(Here, r)
  BY <1>1, <1>2 DEF Got, Own, Steady
<1> QED BY <1>3 DEF Decoded

\* A block of a frame that is decoded again is what it was.
LEMMA Again ==
  ASSUME TypeOK, Steady, phase = "decode", done[Here] = frame
  PROVE  Decoded = prev[Here][pos]
<1> USE HereFacts
<1>1. CASE Place \in file.cr
  BY <1>1 DEF Decoded
<1>2. CASE Place \notin file.cr
  <2>1. done[Here] # Lost
    BY DEF FrameSet, Lost
  <2>2. Settled(Here, frame, pos)
    BY <2>1 DEF Steady
  <2> QED BY <1>2, <2>2, OwnDecoded DEF Settled
<1> QED BY <1>1, <1>2

\* The block at hand settles, and those before it stay settled.
LEMMA BlockSettles ==
  ASSUME TypeOK, Steady, Block
  PROVE  /\ \A h, f : h = Here /\ f = frame =>
              \A b \in Blocks : b < pos \/ b = pos => Settled(h, f, b)'
         /\ \A slot \in Slots : slot # Here =>
              \A f, b : Settled(slot, f, b) => Settled(slot, f, b)'
<1> USE HereFacts
<1>1. /\ prev' = [prev EXCEPT ![Here][pos] = Decoded]
      /\ UNCHANGED <<file, level, frame>> /\ phase = "decode"
  BY DEF Block, args
<1>2. /\ prev'[Here][pos] = Decoded
      /\ \A b \in Blocks : b # pos => prev'[Here][b] = prev[Here][b]
      /\ \A slot \in Slots : slot # Here => prev'[slot] = prev[slot]
  BY <1>1 DEF TypeOK
<1>3. ASSUME NEW slot \in Slots, slot # Here, NEW f, NEW b, Settled(slot, f, b)
      PROVE  Settled(slot, f, b)'
  BY <1>1, <1>2, <1>3 DEF Settled, Own
<1>4. ASSUME NEW h, h = Here, NEW f, f = frame, NEW b \in Blocks, b < pos \/ b = pos
      PROVE  Settled(h, f, b)'
  <2> DEFINE r == file.of[<<h, f, b>>]
  <2>1. r \in 0..N /\ r < b
    BY <1>4, PlaceFacts
  <2>2. r # pos /\ (r # 0 => r \in Blocks)
    BY <1>4, <2>1 DEF Blocks
  <2>3. Own(h, r) = IF r = 0 THEN 0 ELSE prev'[h][r]
    BY <1>2, <1>4, <2>2 DEF Own
  <2>4. CASE b = pos
    <3>1. <<h, f, b>> = Place
      BY <1>4, <2>4
    <3>2. Place \notin file.cr => Decoded = Wrapped(Own(Here, file.of[Place]) + Delta(file, Place))
      BY <1>1, OwnDecoded
    <3>3. <<h, f, b>> \notin file.cr => prev'[h][b] = Wrapped(Own(h, r) + Delta(file, <<h, f, b>>))
      BY <1>2, <1>4, <2>4, <3>1, <3>2
    <3> QED BY <1>1, <2>3, <3>3 DEF Settled, Own, Delta, Meant
  <2>5. CASE b # pos
    <3>1. Settled(h, f, b)
      BY <1>1, <1>4, <2>5 DEF Steady
    <3>2. <<h, f, b>> \notin file.cr => prev'[h][b] = Wrapped(Own(h, r) + Delta(file, <<h, f, b>>))
      BY <1>2, <1>4, <2>5, <3>1 DEF Settled
    <3> QED BY <1>1, <2>3, <3>2 DEF Settled, Own, Delta, Meant
  <2> QED BY <2>4, <2>5
<1> QED BY <1>1, <1>3, <1>4

\* A block keeps what is steady.
LEMMA BlockSteady ==
  ASSUME TypeOK, Steady, Block
  PROVE  Steady'
<1> USE HereFacts
<1>1. /\ prev' = [prev EXCEPT ![Here][pos] = Decoded]
      /\ UNCHANGED <<file, level, frame>> /\ phase = "decode"
  BY DEF Block, args
<1>2. /\ \A b \in Blocks : b < pos \/ b = pos => Settled(Here, frame, b) \/ b = pos
      /\ \A h, f : h = Here /\ f = frame =>
           \A b \in Blocks : b < pos \/ b = pos => Settled(h, f, b)'
      /\ \A slot \in Slots : slot # Here => \A f, b : Settled(slot, f, b) => Settled(slot, f, b)'
  BY <1>1, BlockSettles DEF Steady
<1>3. CASE done[Here] = frame
  <2>1. prev' = prev
    <3>1. Decoded = prev[Here][pos]
      BY <1>1, <1>3, Again
    <3> QED BY <1>1, <3>1 DEF TypeOK
  <2>2. \A slot, f, b : Settled(slot, f, b)' = Settled(slot, f, b)
    BY <1>1, <2>1 DEF Settled, Own, Delta, Meant
  <2>3. done' = done
    BY <1>3 DEF Block, TypeOK
  <2>4. \A slot \in Slots : done[slot] # Lost => \A b \in Blocks : Settled(slot, done[slot], b)
    BY <1>3 DEF Steady, Busy
  <2>5. ASSUME NEW slot \in Slots, done'[slot] # Lost, NEW b \in Blocks, NEW f, f = done'[slot]
        PROVE  Settled(slot, f, b)'
    BY <2>2, <2>3, <2>4, <2>5
  <2>6. phase' = "decode" => \A b \in Blocks : b < pos' => prev'[Here'][b] = out'[b] /\ Settled(Here, frame, b)'
    <3>1. CASE pos < N
      <4>1. pos' = pos + 1 /\ out' = [out EXCEPT ![pos] = Decoded] /\ Here' = Here
        BY <1>1, <3>1 DEF Block, Here
      <4>2. \A b \in Blocks : b < pos + 1 => b < pos \/ b = pos
        BY DEF Blocks
      <4>3. Decoded = prev[Here][pos]
        BY <1>1, <1>3, Again
      <4>4. \A b \in Blocks : b < pos + 1 => prev'[Here][b] = out'[b]
        <5>1. \A b \in Blocks : b < pos => prev[Here][b] = out[b]
          BY <1>1 DEF Steady
        <5> QED BY <2>1, <4>1, <4>2, <4>3, <5>1
      <4>5. ASSUME NEW b \in Blocks, b < pos', NEW h, h = Here, NEW f, f = frame
            PROVE  Settled(h, f, b)'
        BY <1>2, <4>1, <4>2, <4>5
      <4> QED BY <1>1, <4>1, <4>4, <4>5
    <3>2. CASE ~(pos < N)
      <4>1. pos' = 1
        BY <3>2 DEF Block
      <4>2. \A b \in Blocks : ~(b < 1)
        BY DEF Blocks
      <4> QED BY <4>1, <4>2
    <3> QED BY <3>1, <3>2
  <2> QED BY <2>5, <2>6 DEF Steady
<1>4. CASE done[Here] # frame /\ pos < N
  <2>1. /\ pos' = pos + 1 /\ out' = [out EXCEPT ![pos] = Decoded] /\ Here' = Here
        /\ done' = done /\ phase' = "decode"
    BY <1>1, <1>4 DEF Block, Here
  <2>2. \A b \in Blocks : b < pos + 1 => b < pos \/ b = pos
    BY DEF Blocks
  <2>3. \A b \in Blocks : b < pos + 1 => prev'[Here][b] = out'[b]
    <3>1. \A b \in Blocks : b < pos => prev[Here][b] = out[b]
      BY <1>1 DEF Steady
    <3> QED BY <1>1, <2>1, <2>2, <3>1 DEF TypeOK
  <2>4. ASSUME NEW b \in Blocks, b < pos', NEW h, h = Here, NEW f, f = frame
        PROVE  Settled(h, f, b)'
    BY <1>2, <2>1, <2>2, <2>4
  <2>5. ASSUME NEW slot \in Slots, done[slot] # Lost, slot # Here,
               NEW b \in Blocks, NEW f, f = done[slot]
        PROVE  Settled(slot, f, b)'
    BY <1>2, <2>5 DEF Steady, Busy
  <2>6. \A slot \in Slots : done'[slot] # Lost /\ ~(Busy(slot)' /\ done'[slot] # frame') =>
          slot # Here
    BY <1>1, <1>4, <2>1 DEF Busy
  <2> QED BY <1>1, <2>1, <2>3, <2>4, <2>5, <2>6 DEF Steady
<1>5. CASE done[Here] # frame /\ ~(pos < N)
  <2>1. /\ pos' = 1 /\ done' = [done EXCEPT ![Here] = frame]
    BY <1>5 DEF Block
  <2>2. \A b \in Blocks : (b < pos \/ b = pos) /\ ~(b < 1)
    BY <1>5 DEF Blocks
  <2>3. ASSUME NEW slot \in Slots, done'[slot] # Lost, NEW b \in Blocks, NEW f, f = done'[slot]
        PROVE  Settled(slot, f, b)'
    <3>1. CASE slot = Here
      BY <1>2, <2>1, <2>2, <2>3, <3>1 DEF TypeOK
    <3>2. CASE slot # Here
      <4>1. done'[slot] = done[slot]
        BY <2>1, <3>2 DEF TypeOK
      <4>2. Settled(slot, f, b)
        BY <2>3, <3>2, <4>1 DEF Steady, Busy
      <4> QED BY <1>2, <3>2, <4>2
    <3> QED BY <3>1, <3>2
  <2> QED BY <2>1, <2>2, <2>3 DEF Steady
<1> QED BY <1>3, <1>4, <1>5

\* Every step.
LEMMA StepSteady == TypeOK /\ Steady /\ [Next]_vars => Steady'
<1> SUFFICES ASSUME TypeOK, Steady, [Next]_vars PROVE Steady'
  OBVIOUS
<1>1. CASE UNCHANGED vars
  BY <1>1 DEF Steady, Busy, Here, Settled, Own, Delta, Meant, vars, args, decode, ghosts
<1>2. CASE \E l \in Levels, f \in 0..Frames : Refuse(l, f)
  BY <1>2 DEF Refuse, Idle, Steady, Busy, Here, Settled, Own, Delta, Meant, args, decode, ghosts
<1>3. CASE \E l \in Levels, f \in FrameSet, t \in Targets : Start(l, f, t)
  <2>1. /\ pos' = 1 /\ UNCHANGED <<file, prev, done>> /\ phase # "decode"
    BY <1>3 DEF Start, Idle
  <2>2. \A slot, f, b : Settled(slot, f, b)' = Settled(slot, f, b)
    BY <2>1 DEF Settled, Own, Delta, Meant
  <2>3. \A b \in Blocks : ~(b < 1)
    BY DEF Blocks
  <2>4. ASSUME NEW slot \in Slots, done[slot] # Lost, NEW b \in Blocks, NEW f, f = done[slot]
        PROVE  Settled(slot, f, b)'
    BY <2>1, <2>2, <2>4 DEF Steady, Busy
  <2> QED BY <2>1, <2>3, <2>4 DEF Steady
<1>4. CASE Block
  BY <1>4, BlockSteady
<1>5. CASE Corrupt
  <2>1. /\ phase = "decode" /\ phase' = "failed" /\ UNCHANGED <<file, prev, frame>>
        /\ done' = [done EXCEPT ![Here] = Lost]
    BY <1>5 DEF Corrupt, args
  <2>2. \A slot, f, b : Settled(slot, f, b)' = Settled(slot, f, b)
    BY <2>1 DEF Settled, Own, Delta, Meant
  <2>3. ASSUME NEW slot \in Slots, done'[slot] # Lost, NEW b \in Blocks, NEW f, f = done'[slot]
        PROVE  Settled(slot, f, b)'
    <3>1. slot # Here /\ done'[slot] = done[slot]
      BY <2>1, <2>3 DEF TypeOK
    <3> QED BY <2>2, <2>3, <3>1 DEF Steady, Busy
  <2> QED BY <2>1, <2>3 DEF Steady
<1>6. CASE Pack
  <2>1. phase = "pack" /\ phase' \in {"failed", "ok"} /\ UNCHANGED <<file, prev, done>>
    BY <1>6 DEF Pack
  <2> QED BY <2>1 DEF Steady, Busy, Settled, Own, Delta, Meant
<1>7. CASE Reset
  <2>1. phase # "decode" /\ phase' = phase /\ done' = [slot \in Slots |-> Lost]
    BY <1>7 DEF Reset, Idle
  <2> QED BY <2>1 DEF Steady
<1> QED BY <1>1, <1>2, <1>3, <1>4, <1>5, <1>6, <1>7 DEF Next

\* The settled slots stay settled in every reachable state.
LEMMA SteadyHolds == Spec => []Steady
<1>1. Init => Steady
  BY DEF Init, Steady
<1> QED BY <1>1, StepSteady, TypeCorrect, PTL DEF Spec

\* To decode a frame again changes nothing, right or wrong, so that a frame
\* may go to several targets or be retried (dispatch.rs:95, etc1s.rs:519-522).
THEOREM RepeatsAreIdempotent == Spec => RepeatChangesNothing
<1>1. ASSUME TypeOK, Steady, [Next]_vars
      PROVE  [phase = "decode" /\ done[Here] = frame => prev' = prev]_vars
  <2>1. SUFFICES ASSUME phase = "decode", done[Here] = frame PROVE prev' = prev
    OBVIOUS
  <2>2. CASE Block
    <3>1. Decoded = prev[Here][pos]
      BY <1>1, <2>1, Again
    <3>2. prev' = [prev EXCEPT ![Here][pos] = Decoded]
      BY <1>1, <2>2, HereFacts DEF Block
    <3> QED BY <1>1, <3>1, <3>2, HereFacts DEF TypeOK
  <2>3. CASE ~Block
    BY <1>1, <2>1, <2>3 DEF Next, Refuse, Start, Corrupt, Pack, Reset, Idle, vars
  <2> QED BY <2>2, <2>3
<1> QED BY <1>1, TypeCorrect, SteadyHolds, PTL DEF Spec, RepeatChangesNothing

----------------------------------------------------------------------------
(* Frames in order, for targets of one kind. *)

\* All targets are opaque, or none is.
OneKind == Opaque = {} \/ ColourFirst \cup AlphaFirst = {}

\* The slices a target decodes, and those of the call still to come.
Used(t) == {First(t), Second(t)} \ {"none"}
Left == IF phase = "decode" THEN {now, then} ELSE {}
Calling == phase \in {"decode", "pack"}

Ordered ==
  /\ phase = "decode" => Left \subseteq Used(target) \cup {"none"}
  /\ \A s \in Slices : shown[s].set => s \in Used(target)
  /\ \A l \in Levels, s \in Slices :
       seen[l] # Lost /\ s \in Used(target) /\ (~Calling \/ l # level \/ s \in Left) =>
         clean[<<l, s>>] = seen[l]
  /\ Calling /\ frame = seen[level] + 1 =>
       \A s \in Used(target) \ Left : clean[<<level, s>>] = frame /\ shown[s].sure
  /\ phase = "ok" /\ seen[level] = frame =>
       \A s \in Slices : shown[s].set => shown[s].sure

\* Targets of one kind decode the same slices.
LEMMA UsedSame ==
  ASSUME OneKind, NEW t \in Targets, NEW u \in Targets
  PROVE  Used(t) = Used(u)
<1>1. CASE Opaque = {}
  <2>1. t \in ColourFirst \cup AlphaFirst /\ u \in ColourFirst \cup AlphaFirst
        /\ t \notin Opaque /\ u \notin Opaque
    BY <1>1 DEF Targets
  <2> QED BY <2>1 DEF Used, First, Second
<1>2. CASE ColourFirst \cup AlphaFirst = {}
  <2>1. t \in Opaque /\ u \in Opaque /\ t \notin AlphaFirst /\ u \notin AlphaFirst
    BY <1>2 DEF Targets
  <2> QED BY <2>1 DEF Used, First, Second
<1> QED BY <1>1, <1>2 DEF OneKind

\* The slices a call starts with.
LEMMA UsedSlices ==
  ASSUME NEW t
  PROVE  /\ Used(t) \subseteq Slices
         /\ {First(t), Second(t)} \subseteq Used(t) \cup {"none"}
         /\ Used(t) \subseteq {First(t), Second(t)}
BY DEF Used, First, Second, Slices

\* A call starts.
LEMMA StartOrdered ==
  ASSUME OneKind, TypeOK, Ordered, NEW l \in Levels, NEW f \in FrameSet, NEW t \in Targets,
         Start(l, f, t)
  PROVE  Ordered'
<1>1. /\ phase' = "decode" /\ now' = First(t) /\ then' = Second(t) /\ target' = t /\ level' = l
      /\ UNCHANGED <<file, clean, seen>> /\ shown' = [s \in Slices |-> Unshown]
      /\ ~Calling /\ target \in Targets
  BY DEF Start, Idle, Calling, TypeOK
<1>2. \A u : Used(u)' = Used(u)
  BY <1>1 DEF Used, First, Second
<1>3. Used(target)' = Used(target) /\ Left' = {First(t), Second(t)} /\ Calling'
  <2>1. Used(target)' = Used(t)
    BY <1>1 DEF Used, First, Second
  <2> QED BY <1>1, <2>1, UsedSame DEF Left, Calling
<1>4. Left' \subseteq Used(target)' \cup {"none"} /\ Used(target)' \subseteq Left'
  <2>1. Used(target)' = Used(t)
    BY <1>1 DEF Used, First, Second
  <2> QED BY <1>3, <2>1, UsedSlices
<1>5. \A s \in Slices : ~shown'[s].set
  BY <1>1 DEF Unshown
<1>6. \A k \in Levels, s \in Slices :
        seen[k] # Lost /\ s \in Used(target) => clean[<<k, s>>] = seen[k]
  BY <1>1 DEF Ordered
<1>7. phase' # "ok"
  BY <1>1
<1> QED BY <1>1, <1>3, <1>4, <1>5, <1>6, <1>7 DEF Ordered

\* A block: within a slice nothing is done; at its end the slice has the frame.
LEMMA BlockOrdered ==
  ASSUME TypeOK, Ordered, Block
  PROVE  Ordered'
<1> USE HereFacts
<1>1. /\ phase = "decode" /\ UNCHANGED <<file, level, frame, target, seen>>
      /\ level \in Levels /\ now \in Slices
  BY DEF Block, args, TypeOK
<1>2. \A u : Used(u)' = Used(u)
  BY <1>1 DEF Used, First, Second
<1>3. Used(target)' = Used(target) /\ Used(target) \subseteq Slices
  BY <1>1, UsedSlices DEF Used, First, Second
<1>4. Left = {now, then} /\ now \in Used(target) /\ Calling
  BY <1>1 DEF Ordered, Left, Calling, Slices
<1>5. CASE pos < N
  <2>1. UNCHANGED <<phase, now, then, clean, shown>>
    BY <1>5 DEF Block
  <2>2. Left' = Left /\ Calling' = Calling
    BY <2>1 DEF Left, Calling
  <2> QED BY <1>1, <1>3, <2>1, <2>2 DEF Ordered
<1>6. CASE ~(pos < N)
  <2> DEFINE h == [set |-> TRUE, sure |-> RightBase(Here, frame), out |-> [out EXCEPT ![pos] = Decoded]]
  <2>1. /\ clean' = [clean EXCEPT ![Here] = IF RightBase(Here, frame) THEN frame ELSE Lost]
        /\ shown' = [shown EXCEPT ![now] = h]
        /\ \/ then = "none" /\ phase' = "pack" /\ UNCHANGED <<now, then>>
           \/ then # "none" /\ now' = then /\ then' = "none" /\ UNCHANGED phase
    BY <1>6 DEF Block
  <2>2. h.set = TRUE /\ h.sure = RightBase(Here, frame)
    OBVIOUS
  <2> HIDE DEF h
  <2>3. /\ shown'[now] = h /\ \A s \in Slices : s # now => shown'[s] = shown[s]
        /\ clean'[Here] = IF RightBase(Here, frame) THEN frame ELSE Lost
        /\ \A slot \in Slots : slot # Here => clean'[slot] = clean[slot]
    BY <1>1, <2>1 DEF TypeOK
  <2>4. Calling' /\ phase' # "ok" /\ Left' \cap Slices = (Left \ {now}) \cap Slices
        /\ Left' \subseteq Left \cup {"none"}
    <3>1. "none" \notin Slices /\ then # now
      BY DEF Slices, TypeOK
    <3>2. CASE then = "none"
      BY <1>1, <1>4, <2>1, <3>1, <3>2 DEF Calling, Left
    <3>3. CASE then # "none"
      BY <1>1, <1>4, <2>1, <3>1, <3>3 DEF Calling, Left
    <3> QED BY <3>2, <3>3
  <2>5. Left' \subseteq Used(target) \cup {"none"}
    BY <1>1, <2>4 DEF Ordered
  <2>6. \A s \in Slices : shown'[s].set => s \in Used(target)
    BY <1>4, <2>3 DEF Ordered
  <2>7. ASSUME NEW l \in Levels, NEW s \in Slices, seen[l] # Lost, s \in Used(target),
               l # level \/ s \in Left'
        PROVE  clean'[<<l, s>>] = seen[l]
    <3>1. l # level \/ (s \in Left /\ s # now)
      BY <2>4, <2>7
    <3>2. <<l, s>> # Here /\ <<l, s>> \in Slots
      BY <3>1 DEF Here, Slots
    <3> QED BY <1>4, <2>3, <2>7, <3>1, <3>2 DEF Ordered
  <2>8. ASSUME frame = seen[level] + 1, NEW s \in Used(target) \ Left'
        PROVE  clean'[<<level, s>>] = frame /\ shown'[s].sure
    <3>1. s \in Slices /\ <<level, s>> \in Slots
      BY <1>1, <1>3 DEF Slots
    <3>2. CASE s = now
      <4>1. seen[level] # Lost /\ seen[level] = frame - 1
        BY <1>1, <2>8 DEF TypeOK, FrameSet, Fresh, Lost
      <4>2. clean[Here] = frame - 1
        BY <1>1, <1>4, <4>1 DEF Ordered, Here
      <4>3. RightBase(Here, frame)
        BY <4>2 DEF RightBase
      <4> QED BY <2>2, <2>3, <3>2, <4>3 DEF Here
    <3>3. CASE s # now
      <4>1. s \in Used(target) \ Left
        BY <2>4, <3>1, <3>3
      <4>2. <<level, s>> # Here
        BY <3>3 DEF Here
      <4> QED BY <1>4, <2>3, <2>8, <3>1, <3>3, <4>1, <4>2 DEF Ordered
    <3> QED BY <3>2, <3>3
  <2> QED BY <1>1, <1>3, <2>4, <2>5, <2>6, <2>7, <2>8 DEF Ordered
<1> QED BY <1>5, <1>6

\* Every step.
LEMMA StepOrdered == OneKind /\ TypeOK /\ Ordered /\ [Next]_vars => Ordered'
<1> SUFFICES ASSUME OneKind, TypeOK, Ordered, [Next]_vars PROVE Ordered'
  OBVIOUS
<1>1. CASE UNCHANGED vars
  BY <1>1 DEF Ordered, Left, Calling, Used, First, Second, vars, args, decode, ghosts
<1>2. CASE \E l \in Levels, f \in 0..Frames : Refuse(l, f)
  BY <1>2 DEF Refuse, Idle, Ordered, Left, Calling, Used, First, Second, args, decode, ghosts
<1>3. CASE \E l \in Levels, f \in FrameSet, t \in Targets : Start(l, f, t)
  BY <1>3, StartOrdered
<1>4. CASE Block
  BY <1>4, BlockOrdered
<1>5. CASE Corrupt
  <2>1. /\ phase = "decode" /\ phase' = "failed" /\ UNCHANGED <<file, level, frame, target, shown>>
        /\ seen' = [seen EXCEPT ![level] = Lost] /\ level \in Levels
        /\ clean' = [clean EXCEPT ![Here] = IF pos = 1 THEN @ ELSE Lost]
    BY <1>5 DEF Corrupt, args, TypeOK
  <2>2. Used(target)' = Used(target)
    BY <2>1 DEF Used, First, Second
  <2>3. ASSUME NEW l \in Levels, NEW s \in Slices, seen'[l] # Lost, s \in Used(target)
        PROVE  clean'[<<l, s>>] = seen'[l]
    <3>1. l # level /\ seen'[l] = seen[l]
      BY <2>1, <2>3 DEF TypeOK
    <3>2. <<l, s>> # Here
      BY <3>1 DEF Here
    <3>3. <<l, s>> \in Slots
      BY DEF Slots
    <3>4. clean'[<<l, s>>] = clean[<<l, s>>]
      BY <2>1, <3>2, <3>3 DEF TypeOK
    <3> QED BY <2>3, <3>1, <3>4 DEF Ordered
  <2>4. ~Calling' /\ phase' # "ok" /\ phase' # "decode"
    BY <2>1 DEF Calling
  <2> QED BY <2>1, <2>2, <2>3, <2>4 DEF Ordered
<1>6. CASE Pack
  <2>1. /\ phase = "pack" /\ phase' \in {"failed", "ok"} /\ level \in Levels
        /\ UNCHANGED <<file, level, frame, target, shown, clean>>
        /\ \A l \in Levels : l # level => seen'[l] = seen[l]
        /\ seen'[level] = IF phase' = "ok" /\ frame = seen[level] + 1 THEN frame ELSE Lost
    BY <1>6 DEF Pack, args, TypeOK
  <2>2. Used(target)' = Used(target) /\ Calling /\ Left = {} /\ ~Calling' /\ phase' # "decode"
    BY <2>1 DEF Used, First, Second, Calling, Left
  <2>3. seen'[level] # Lost => seen'[level] = frame /\
          \A s \in Used(target) : clean[<<level, s>>] = frame /\ shown[s].sure
    BY <2>1, <2>2 DEF Ordered
  <2>4. \A l \in Levels, s \in Slices :
          seen'[l] # Lost /\ s \in Used(target) => clean[<<l, s>>] = seen'[l]
    BY <2>1, <2>2, <2>3 DEF Ordered
  <2>5. seen'[level] = frame => \A s \in Slices : shown[s].set => shown[s].sure
    <3>1. frame # Lost
      BY HereFacts DEF FrameSet, Lost
    <3> QED BY <2>3, <3>1 DEF Ordered
  <2>6. \A s \in Slices : shown[s].set => s \in Used(target)
    BY DEF Ordered
  <2> QED BY <2>1, <2>2, <2>4, <2>5, <2>6 DEF Ordered
<1>7. CASE Reset
  <2>1. /\ ~Calling /\ phase # "decode" /\ UNCHANGED <<file, phase, level, frame, target, shown>>
        /\ clean' = [slot \in Slots |-> Fresh] /\ seen' = [l \in Levels |-> Fresh]
        /\ frame # Fresh /\ level \in Levels
    BY <1>7, HereFacts DEF Reset, Idle, Calling, args, TypeOK, FrameSet, Fresh
  <2>2. Used(target)' = Used(target) /\ Calling' = Calling
    BY <2>1 DEF Used, First, Second, Calling
  <2>3. \A l \in Levels, s \in Slices : clean'[<<l, s>>] = seen'[l]
    BY <2>1 DEF Slots
  <2>4. seen'[level] # frame
    BY <2>1
  <2>5. \A s \in Slices : shown[s].set => s \in Used(target)
    BY DEF Ordered
  <2> QED BY <2>1, <2>2, <2>3, <2>4, <2>5 DEF Ordered
<1> QED BY <1>1, <1>2, <1>3, <1>4, <1>5, <1>6, <1>7 DEF Next

\* Nothing is decoded yet.
LEMMA InitOrdered == Init => Ordered
<1> SUFFICES ASSUME Init PROVE Ordered
  OBVIOUS
<1>1. phase = "idle" /\ ~Calling /\ \A s \in Slices : ~shown[s].set
  BY DEF Init, Calling, Unshown
<1>2. \A l \in Levels, s \in Slices : clean[<<l, s>>] = seen[l]
  BY DEF Init, Slots
<1> QED BY <1>1, <1>2 DEF Ordered

\* Frames transcoded in order are right when all targets are of one kind,
\* opaque or not; the order alone, which is all the documentation asks for,
\* does not suffice (api.rs:838-841, dispatch.rs:95-197).
THEOREM OrderSuffices == OneKind => (Spec => []InOrderIsRight)
<1> SUFFICES ASSUME OneKind PROVE Spec => []InOrderIsRight
  OBVIOUS
<1>1. TypeOK /\ Ordered /\ [Next]_vars => Ordered'
  BY StepOrdered
<1>2. SureIsRight /\ Ordered => InOrderIsRight
  BY DEF SureIsRight, Ordered, InOrderIsRight
<1> QED BY <1>1, <1>2, InitOrdered, TypeCorrect, OutputFaithful, PTL DEF Spec
=============================================================================
