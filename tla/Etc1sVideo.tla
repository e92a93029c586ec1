----------------------------- MODULE Etc1sVideo -----------------------------
(***************************************************************************)
(* ETC1S video: `Transcoder::transcode_video_frame` over a caller's        *)
(* `VideoState` (src/basisu/src/api.rs, dispatch.rs, basislz/etc1s.rs).    *)
(*                                                                         *)
(* A replenished block repeats the pair that the frame before left in the  *)
(* state; every other block is coded relative to a block decoded before it *)
(* in the same frame, so one wrong pair spoils blocks that are not         *)
(* replenished too.  The caller picks the frames, levels and targets in    *)
(* any order and may reset the state; a target decides which of the two    *)
(* slices are decoded, and in which order.                                 *)
(*                                                                         *)
(* SliceIndices has the decode of one slice in full.  Here a pair is its   *)
(* endpoint alone, a slice is what an encoder meant by it, and one step    *)
(* decodes one block.  The encoder's frames are sound: it replenishes a    *)
(* block only where the frame before has the same pair.                    *)
(***************************************************************************)
EXTENDS Integers

CONSTANTS Levels,      \* the file's mip levels
          MaxLevels,   \* MAX_PREV_FRAME_LEVELS
          Frames,      \* how many frames a file has
          N,           \* blocks of a slice
          NEnd,        \* endpoints of the palette
          Files,       \* the files that may be open
          ColourFirst, AlphaFirst, Opaque,  \* the targets, by what they decode
          Refused      \* targets that refuse the image when they pack it

Targets == ColourFirst \cup AlphaFirst \cup Opaque
Slices == {"colour", "alpha"}
Slots == Levels \X Slices
Blocks == 1..N
FrameSet == 0..(Frames - 1)
Ends == 0..(NEnd - 1)

\* A place in a file: a slot, a frame and a block.
Places == Slots \X FrameSet \X Blocks

\* value: the endpoints the encoder meant; of: the block each block is coded
\* relative to, 0 for the start; cr: the replenished blocks; bad: where a
\* corrupt slice stops its decode; alpha: whether there are alpha slices.
FileType ==
  [value : [Places -> Ends], of : [Places -> 0..N],
   cr : SUBSET Places, bad : SUBSET Places, alpha : BOOLEAN]

\* A frame before the first one: what a new or a reset state reads as.
Fresh == -1
Lost == -2

\* The endpoint the encoder meant for block b of frame f; 0 before the start.
Meant(v, slot, f, b) ==
  IF b = 0 \/ f = Fresh THEN 0 ELSE v.value[<<slot, f, b>>]

Sound(v) ==
  /\ \A p \in Places : v.of[p] < p[3]
  /\ \A p \in v.cr : v.value[p] = Meant(v, p[1], p[2] - 1, p[3])

ASSUME SizeAssumption == N \in Nat \ {0} /\ NEnd \in Nat \ {0} /\ Frames \in Nat \ {0}
ASSUME LevelAssumption == Levels \subseteq Nat /\ MaxLevels \in Nat
ASSUME FileAssumption == \A v \in Files : v \in FileType /\ Sound(v)

VARIABLES
  file,    \* the open file
  prev,    \* prev[slot]: VideoState.prev_frame_indices
  \* the call in progress, or the last one; anything before the first
  phase, level, frame, target,
  now,     \* the slice being decoded
  then,    \* the slice to decode after it, or "none"
  pos,     \* the block to decode next
  out,     \* what is decoded of the slice
  \* history, for the properties only
  clean,   \* clean[slot]: the frame that prev surely is, or Lost
  done,    \* done[slot]: the frame that was decoded last, or Lost
  seen,    \* seen[l]: the last frame, if all so far came in order, or Lost
  shown    \* shown[s]: what the call decoded of slice s, if it did

args == <<level, frame, target>>
decode == <<now, then, pos, out>>
ghosts == <<clean, done, seen, shown>>
vars == <<file, prev, phase, args, decode, ghosts>>

Zeros == [b \in Blocks |-> 0]
Unshown == [set |-> FALSE, sure |-> FALSE, out |-> Zeros]

Init ==
  /\ file \in Files
  /\ prev = [slot \in Slots |-> Zeros]
  /\ phase = "idle" /\ level \in Levels /\ frame = 0 /\ target \in Targets
  /\ now = "colour" /\ then = "none" /\ pos = 1 /\ out = Zeros
  /\ clean = [slot \in Slots |-> Fresh]
  /\ done = [slot \in Slots |-> Lost]
  /\ seen = [l \in Levels |-> Fresh]
  /\ shown = [s \in Slices |-> Unshown]

\* The state is the caller's own while no call has it.
Idle == phase \notin {"decode", "pack"}

\* The bug of one array for both slices of a level.
OneSlot(l, s) == <<l, "colour">>

\* The bug of one array for all levels of a slice.
OneLevel(l, s) == <<CHOOSE k \in Levels : \A j \in Levels : k <= j, s>>

\* The array that a slice's pairs are kept in.
Slot(l, s) == <<l, s>>

\* RGBA4444 decodes the alpha slice first, every other target the colour slice.
First(t) == IF t \in AlphaFirst /\ file.alpha THEN "alpha" ELSE "colour"

\* An opaque target leaves the alpha slice alone.
Second(t) ==
  IF ~file.alpha \/ t \in Opaque THEN "none"
  ELSE IF t \in AlphaFirst THEN "colour" ELSE "alpha"

----------------------------------------------------------------------------
\* A level or a frame that the file or the state does not have.
Refuse(l, f) ==
  /\ Idle
  /\ l >= MaxLevels \/ f >= Frames
  /\ phase' = "refused"
  /\ UNCHANGED <<file, prev, args, decode, ghosts>>

Start(l, f, t) ==
  /\ Idle
  /\ l < MaxLevels /\ f < Frames
  /\ phase' = "decode" /\ level' = l /\ frame' = f /\ target' = t
  /\ now' = First(t) /\ then' = Second(t) /\ pos' = 1 /\ out' = Zeros
  /\ shown' = [s \in Slices |-> Unshown]
  /\ UNCHANGED <<file, prev, clean, done, seen>>

----------------------------------------------------------------------------
(* The decode of a block. *)

Here == <<level, now>>
Place == <<Here, frame, pos>>

\* A block's delta to the block it is coded relative to.
Delta(v, p) ==
  LET d == v.value[p] - Meant(v, p[1], p[2], v.of[p])
  IN  IF d < 0 THEN d + NEnd ELSE d

\* The endpoint decoded for block b of this slice; 0 before the start.
Got(b) == IF b = 0 THEN 0 ELSE out[b]

\* The bug of a wrap one too late.
WrapLate(e) == IF e > NEnd THEN e - NEnd ELSE e

\* A sum of a delta and an endpoint, wrapped once.
Wrapped(e) == IF e >= NEnd THEN e - NEnd ELSE e

Decoded ==
  IF Place \in file.cr
  THEN prev[Slot(level, now)][pos]
  ELSE Wrapped(Got(file.of[Place]) + Delta(file, Place))

\* What the decode of frame f of a slot may start from to be right: the frame
\* before, the frame itself, or anything if it replenishes nothing.
RightBase(slot, f) ==
  \/ clean[slot] \in {f - 1, f}
  \/ \A b \in Blocks : <<slot, f, b>> \notin file.cr

\* One block, and after the last one the slice's output.
Block ==
  /\ phase = "decode"
  /\ Place \notin file.bad
  /\ prev' = [prev EXCEPT ![Slot(level, now)][pos] = Decoded]
  /\ IF pos < N
     THEN /\ out' = [out EXCEPT ![pos] = Decoded]
          /\ pos' = pos + 1
          /\ UNCHANGED <<phase, now, then, clean, done, shown>>
     ELSE /\ clean' = [clean EXCEPT ![Here] = IF RightBase(Here, frame) THEN frame ELSE Lost]
          /\ done' = [done EXCEPT ![Here] = frame]
          /\ shown' = [shown EXCEPT ![now] =
                         [set |-> TRUE, sure |-> RightBase(Here, frame),
                          out |-> [out EXCEPT ![pos] = Decoded]]]
          /\ out' = Zeros /\ pos' = 1
          /\ IF then = "none" THEN phase' = "pack" /\ UNCHANGED <<now, then>>
             ELSE now' = then /\ then' = "none" /\ UNCHANGED phase
  /\ UNCHANGED <<file, args, seen>>

\* The slice is corrupt at this block: the call fails, and keeps what it has
\* written to the state.
Corrupt ==
  /\ phase = "decode"
  /\ Place \in file.bad
  /\ phase' = "failed"
  /\ clean' = [clean EXCEPT ![Here] = IF pos = 1 THEN @ ELSE Lost]
  /\ done' = [done EXCEPT ![Here] = Lost]
  /\ seen' = [seen EXCEPT ![level] = Lost]
  /\ UNCHANGED <<file, prev, args, decode, shown>>

\* The image is packed for its target, or refused only now.
Pack ==
  /\ phase = "pack"
  /\ phase' = IF target \in Refused THEN "failed" ELSE "ok"
  /\ seen' = [seen EXCEPT ![level] =
                IF phase' = "ok" /\ frame = seen[level] + 1 THEN frame ELSE Lost]
  /\ UNCHANGED <<file, prev, args, decode, clean, done, shown>>

----------------------------------------------------------------------------
\* The bug of a reset that forgets the alpha slices.
ResetColour ==
  /\ Idle
  /\ prev' = [slot \in Slots |-> IF slot[2] = "colour" THEN Zeros ELSE prev[slot]]
  /\ clean' = [slot \in Slots |-> Fresh]
  /\ done' = [slot \in Slots |-> Lost]
  /\ seen' = [l \in Levels |-> Fresh]
  /\ UNCHANGED <<file, phase, args, decode, shown>>

\* The arrays are emptied, and grow again with zeros.
Reset ==
  /\ Idle
  /\ prev' = [slot \in Slots |-> Zeros]
  /\ clean' = [slot \in Slots |-> Fresh]
  /\ done' = [slot \in Slots |-> Lost]
  /\ seen' = [l \in Levels |-> Fresh]
  /\ UNCHANGED <<file, phase, args, decode, shown>>

Next ==
  \/ \E l \in Levels, f \in 0..Frames : Refuse(l, f)
  \/ \E l \in Levels, f \in FrameSet, t \in Targets : Start(l, f, t)
  \/ Block
  \/ Corrupt
  \/ Pack
  \/ Reset

Spec == Init /\ [][Next]_vars

----------------------------------------------------------------------------
(* Properties. *)

\* Types.
TypeOK ==
  /\ file \in Files
  /\ prev \in [Slots -> [Blocks -> Ends]]
  /\ phase \in {"idle", "decode", "pack", "ok", "failed", "refused"}
  /\ level \in Levels /\ frame \in FrameSet /\ target \in Targets
  /\ now \in Slices /\ then \in Slices \cup {"none"} /\ then # now
  /\ pos \in Blocks /\ out \in [Blocks -> Ends]
  /\ clean \in [Slots -> FrameSet \cup {Fresh, Lost}]
  /\ done \in [Slots -> FrameSet \cup {Lost}]
  /\ seen \in [Levels -> FrameSet \cup {Fresh, Lost}]
  /\ shown \in [Slices -> [set : BOOLEAN, sure : BOOLEAN, out : [Blocks -> Ends]]]

\* Whether a decode is in the middle of a slot.
Busy(slot) == phase = "decode" /\ slot = Here

\* A slot whose decodes each started from the frame before, from the frame
\* itself or from a reset holds exactly what the encoder meant by its last
\* frame, whatever happened to the other slots in between: other levels and
\* slices, failed calls, resets (etc1s.rs:138-184).
StateIsFrame ==
  \A slot \in Slots : clean[slot] # Lost /\ ~Busy(slot) =>
    \A b \in Blocks : prev[slot][b] = Meant(file, slot, clean[slot], b)

\* What is decoded from the right base is what the encoder meant, though it is
\* coded relative to blocks that were only replenished (etc1s.rs:429-474).
SureIsRight ==
  \A s \in Slices : shown[s].set /\ shown[s].sure =>
    \A b \in Blocks : shown[s].out[b] = Meant(file, <<level, s>>, frame, b)

\* To decode the same frame again changes nothing in the state, also when the
\* state was wrong: a frame may be transcoded to several targets, or retried
\* after its target refused it (dispatch.rs:95, etc1s.rs:519-522).
RepeatChangesNothing ==
  [][phase = "decode" /\ done[Here] = frame => prev' = prev]_vars

\* Frames transcoded in order with one state, each with success, are right,
\* as the documentation has it: "Frames of a level must be transcoded in ascending frame order with the
\* same `state`" (api.rs:838-839).
InOrderIsRight ==
  phase = "ok" /\ seen[level] = frame =>
    \A s \in Slices : shown[s].set =>
      \A b \in Blocks : shown[s].out[b] = Meant(file, <<level, s>>, frame, b)
=============================================================================
