# A TLA+ verification of basisu

`basisu` is a transcoder for Basis Universal textures: it reads a `.ktx2` or
`.basis` file and rewrites its blocks in the format a GPU wants.  Most of it is
pure arithmetic on blocks, which the repository pins byte for byte against the
reference transcoder.  What a conformance suite reaches badly is the state around
that arithmetic: tables that are installed at run time while other threads
transcode, a write-once cell made of a raw pointer, a decoder that keeps two rows
of a picture and a history of selectors, a video state that survives from call
to call, also from a failed one, and entropy decoders and block commands whose every
step depends on what the stream said before.  This directory models that state, checks it with
TLC and proves the main results for all sizes with TLAPS.

Paths below are relative to `src/basisu/src/`.

## 1. The system

| Component | State | Operations | What makes it correct |
|---|---|---|---|
| Write-once cell (`once.rs`) | one atomic pointer, the boxes on the heap | `get`, `get_or_init`, `Drop` | one owner per box; all callers agree; every dereference is ordered after the construction; no caller waits for another |
| Runtime solution tables (`tables/lazy.rs`, `basislz/astc_tables.rs`) | five static cells in two families, two cached mappings | `install`, `installed`, `ready_for`, the reads behind them, the derived mappings | a read behind the gate never meets an empty cell; `Ok` means installed; tables never change once seen |
| ETC1S slice decode (`basislz/etc1s.rs`, `basislz/amf.rs`) | two rows of endpoints and prediction bits, a selector history, two run counters, the previous frame | `decode_slice_indices` | every pair indexes the palettes; each block has the endpoint its prediction names; the history and the rings stay in step |
| ETC1S video (`basislz/etc1s.rs`, `dispatch.rs`, `api.rs`) | `VideoState`: the last pairs for each level and slice | `transcode_video_frame`, `VideoState::reset` | a frame is decoded over the frame before it; repeats and failures do no more harm than they must |
| Entropy decoder (`basislz/decoder.rs`, `basislz/huffman.rs`) | position, bit buffer; lookup and tree of a code | bits, truncated binary, Rice, VLC, Huffman, table reading | decodes what was encoded; never loses bits in the refill; refuses tables that are no code |
| Public API (`api.rs`, `support.rs`) | none of its own | `transcode`, `transcode_image`, `transcode_into`, `transcode_video_frame`, `supports`, `output_size` | gates everything the inner layers rely on, in an order that callers can rely on |
| Containers (`ktx2.rs`, `basis.rs`, `transcoder.rs`) | the parsed header, levels, slices, palettes | `parse`, `new`, `new_with_codebook`, slice lookups | no range outside the file; the right slice for an image |
| Target dispatch (`dispatch.rs`) | none | one arm per target | decodes the slices a target needs, in a fixed order |
| ETC1S emitters (`basislz/etc1s_*.rs`) | none | a block converter per target | bit exactness |
| UASTC HDR 6x6 intermediate (`uastc_hdr_6x6/`) | a ring of five rows of logical blocks | a command stream: run, solid, reuse, block | reads only rows the ring still holds |
| XUASTC (`xuastc/`) | a ring of eight rows, trial modes of two rows, hash tables, adaptive arithmetic models | two syntaxes of a block stream | as above; what a block says of itself is what its data were read by; the interval never empties |
| UASTC LDR, HDR 4x4 (`uastc/`, `uastc_hdr/`) | none | unpack and repack a block | bit exactness |
| Block packers (`astc/`, `etc/`, `fastenc/`, `pvrtc/`) | none | texels to blocks | bit exactness |
| Generated tables (`tables/`) | constants | - | - |
| Tooling (`xtask`, `conformance`, `qemu-check`) | - | - | not part of the library |

How they interact.  A `Transcoder` owns the parsed container and the palettes and is
shared by reference between threads; each `transcode` checks the level, the video
flag and `supports`, then calls the container, which finds the slice bytes, and the
dispatch, which decodes the slices (ETC1S) or the blocks and calls an emitter per
block.  Two things outlive a call.  The solution tables are process-wide: `supports`
looks at them once, the emitters read them again for every block.  The `VideoState`
belongs to the caller, who passes it by `&mut`: calls on one state are sequential,
but the caller chooses frames, levels and targets, and keeps the state after a
failure.

Where it is hard.  *Concurrency*: racing installs, transcodes in the middle of an
install, racing initialisations of a cell.  *Ordering*: two-row and five-row rings
written while they are read, prediction bits kept for a row, symbol runs that
outlive blocks.  *Numeric edges*: a bit buffer at its width, counts at their limit, codes
that do not fill their space.  *Partial failure*: a corrupt symbol in the middle of a frame, a
target that refuses an image after its decode.  *Stale state*: a gate checked once
and relied on later, pairs of an earlier frame or even of another texture.  There
are no timeouts, no messages and nothing is persisted.

`PROJECT.json` lists the hazards one by one, each at its line.

## 2. Modules

```
WriteOnceCell  <- implemented by -  OnceBox     }
                                       |  (one call = one step)
                                    LazyTables  }  TableProofs
ApproxMoveToFront  <- extended by - SliceIndices   SliceIndicesProofs
                                       |  (one slice = its endpoints)
                                    Etc1sVideo     Etc1sVideoProofs

BlockGrid  <- extended by - Hdr6x6Blocks, XuastcBlocks     BlockProofs
                            BitReader, ArithDecoder        ReaderProofs             } Numbers
                            HuffmanCode                    CanonicalCodeProofs      }
                                                           - HuffmanProofs
```

`MCStreams` puts the five models of the last lines side by side in one run.  `Numbers` has the
facts about natural numbers, division and recursion that the last three modules of proofs need.

Each `MC*` module fixes the inputs of one of them for TLC.  Definitions that a
comment calls *the bug of ...* are not part of any specification: each is a plausible
mistake in the definition that follows it, and the property that catches it is named
in `PROJECT.json`.

### OnceBox and WriteOnceCell

`OnceBox` is `once.rs` at the granularity of its atomic accesses.  `ptr` is the
atomic pointer; `heap` says which addresses are allocated and with what, so that a
freed address can come back; `own`, `winner` and `pc` are the locals of a thread in
`get_or_init`; `held` are the references that borrow the cell.  The happens-before
order is explicit: `synced[t]` are the constructions ordered before thread `t`'s next
step, `released` those that the last store to `ptr` released, and the orderings in the
code decide what an access moves from one to the other (`LoadView`, `FailureView`,
`ReleaseOf`).  Reading a box outside `synced` is a data race.

| Code | Action |
|---|---|
| the Acquire load at `once.rs:43` and `:56` | `LoadHit`, `LoadMiss` |
| `Box::into_raw(Box::new(init()))` | `BuildBox` |
| `compare_exchange(null, raw, AcqRel, Acquire)` | `CasWin`, `CasLose` |
| `drop(Box::from_raw(raw))` and the return of the winner | `DropOwn` |
| the end of the returned borrows | `EndBorrow` |
| `Drop` of a cell that is not static | `DropCell` |

An `init` closure that panics is not modelled: it unwinds before `into_raw`, and
leaves the cell as it was.  `WriteOnceCell` is what the doc comments promise: a cell
that is unset or has a value for good, and what each thread has seen of it.  `OnceBox`
implements it, with `cell` the content behind the pointer.

### LazyTables

`slot` are the five static cells, `cache` the two derived mappings, `job[t]` the call a
thread is in with its locals.  A cell is used at the granularity `OnceBox` implements:
one call, one step.  `install` is `InstallStart` (the checks of `bundle_family`, with
the first that fails) and one `InstallSlot` for each cell; `installed` is one
`CheckSlot` for each cell, because another thread may run between two looks; a
transcode then takes a `LoadTable` for each table of each block, where an empty cell is
the `expect` that panics.  ASTC blocks may also ask for a mapping derived from a
table (`DeriveStart`, `DerivePublish`): the closure reads the table, builds, and
publishes later.  `EmbeddedTables` is the cargo feature: with it a slot that is empty is
still read, so that nothing can panic; the runs are of the build without it, the theorems
hold for both.  Tables are named by the
bundle they came from; `first`, `raced` and `returned` are history.

### SliceIndices and ApproxMoveToFront

`decode_slice_indices` in full, over any stream: each action takes any symbol that
the decoded models can yield, so that corrupt streams are behaviours too.  A block takes four steps,
prediction bits, endpoint, selector and store; `at` is the step, or how the decode ended.

| Code (`basislz/etc1s.rs`) | Actions |
|---|---|
| the two prediction bits, 403-428 | `RepeatedSymbol`, `NewSymbol`, `RepeatSymbol`, `LowerRow`, `SecondColumn` |
| the endpoint, 429-470 | `Left`, `Upper`, `UpperLeft`, `Replenish`, `Delta` |
| the selector, 474-512 | `RunGoesOn`, `RunStarts`, `HistorySelector`, `LiteralSelector` |
| check, write-back and output, 515-530 | `OutOfPalette`, `Store` |

`low` and `ring` are the two halves of `preds` (bits for the row below, endpoints of two
rows), `hist` is the selector history of `ApproxMoveToFront`, `prev` the previous frame, `grid`
the output.  `Leftover` is what an earlier call may have left in `prev`, pairs outside
this texture's palettes included.  `syms`, `old` and `rle` (where the
latest run began, and its length) are history.

### Etc1sVideo

The calls on one `VideoState`.  `prev[slot]` is its array for a level and a slice;
`phase`, `level`, `frame`, `target`, `now`, `then` and `pos` are the call in progress.

| Code | Action |
|---|---|
| a level or frame out of range, `api.rs:851-859` | `Refuse` |
| `transcode_video_frame`, the choice of slices in `dispatch.rs:82-197` | `Start` |
| one block of a slice, with its write-back | `Block` |
| a corrupt symbol | `Corrupt` |
| the emitter, which may refuse the image (PVRTC1 wants powers of two) | `Pack` |
| `VideoState::reset` | `Reset` |

What differs from `SliceIndices`: a pair is its endpoint alone, the prediction of a
block is "relative to an earlier block of the slice", and a file is what an encoder
meant, with a sound choice of replenished blocks (`FileAssumption`): it replenishes a
block only where the frame before has the same pair.  Without that assumption no decode
is right.  One texture uses the state; a state that is passed to textures of different
sizes is seen only by `SliceIndices`, through `Leftover`.

Targets are sorted by what they decode: colour and then alpha, alpha and then colour
(RGBA4444), colour only (the opaque targets).  The size check of RGBA4444 is left out,
because the API sizes the buffer.  `clean`, `done`, `seen` and `shown` are history: the
frame a slot surely is, the frame decoded last, the frames seen in order, and what the
last call decoded.

### BitReader

`BitwiseDecoder` of `basislz/decoder.rs`.  `bitBuf` is the 32-bit buffer as cells, each the set of stream bits
that were or-ed into it: what a bit says does not matter, only which one it is, and a
bit that is lost, doubled or left behind for a later byte shows.

| Code | Action |
|---|---|
| `get_bits`, split in two above 25 | `GetBits`, `GetFirstPart`, `GetEnds` |
| `decode_huffman` with a code of any length | `DecodeHuffman`, `HuffmanEnds` |
| `decode_rice` | `DecodeRice`, `RiceGoesOn`, `RiceRemainder` |
| one turn of the refill loop | `Refill` |

`decode_truncated_binary` and `decode_vlc` are loops of `get_bits` and are covered as
such.  A run of ones in `decode_rice` is taken to end in the padding, which is zeros.

### HuffmanCode

`read_huffman_table` from the first code size on and `HuffmanDecodingTable::init`: `sizes`, then
`lookup` and `tree`, filled one symbol and one bit at a time, with the arrays' sentinels as they are (an empty
slot is 0, and so is symbol 0 at a leaf).  The sizes are any that a stream can name; the code
those are coded by is one of these tables itself.

| Code | Definitions |
|---|---|
| the loop over code sizes, `decoder.rs:247-284` | `Literal`, `ZeroRun`, `Repeat` |
| `syms_using_codesize`, `next_code`, the test of `total`, `huffman.rs:65-91` | `Count`, `FirstCodes`, `UsedSyms`, `Complete`, `StartBuild` |
| the reversed code, 96-109 | `SymCode`, `Reversed` |
| a code that fits the lookup, 111-127 | `ShortCode` |
| a longer one: its slot, its nodes, its leaf, 129-187 | `LongCode`, `Descend`, `Leaf` |
| `decode_huffman`, `decoder.rs:193-214` | `Decode`, `Below` |

`total` is a `u32` with one bit more than the longest size (`Pow2[MaxSize + 1]`), and so are the
first codes: what fills the code space more than once wraps.

### ArithDecoder

`xuastc/arith.rs`: the interval (`value`, `length`), one `BitModel` and one `DataModel` with
their counts and the snapshots that symbols are decoded with.

| Code (`xuastc/arith.rs`) | Actions |
|---|---|
| `renorm`, a byte at a time | `Renorm` |
| `get_bit`, `get_bits` | `GetBit`, `GetRaw` |
| `decode_bit` with the update of its model | `DecodeBit` |
| `decode_sym`: the binary search, a comparison at a time | `SearchStarts`, `SearchGoesOn`, `SearchEnds` |
| `DataModel::update`: a halving at a time, then the snapshot | `Update` |

A turn of a loop is a step, so that how long a loop turns is part of the model.  A read waits for
`Wide`: the code widens at the end of the read before.  `BitSpan` and `SymSpan` are the
longest update intervals of the two models.  `strayed` is
history: a stream that no encoder writes can put the value into what the division of a raw
read leaves over.  Then `get_bits` returns `2^n` or more, and its callers check ranges.

### BlockGrid, Hdr6x6Blocks and XuastcBlocks

The two intermediate formats.  `BlockGrid` has the raster order and what asks whether a
delta stays in the picture.  A logical block is not its numbers but where they came
from: its mode, and the place where its endpoints and its weights were coded, which
is what copying can get wrong.

`Hdr6x6Blocks` is `decode_6x6_hdr`: `ring`, `row` and `CalcRowIndex` are `log_rows`,
`cur_row_index` and `calc_row_index`; `blocks` is what was output.

| Code (`uastc_hdr_6x6/mod.rs`) | Actions |
|---|---|
| run, 471-502 | `RunStarts`, `RunGoesOn` |
| solid, 503-520 | `SolidBlock` |
| reuse, 521-561 | `Reuse` |
| block, 562-757, endpoint modes 0 to 4 | `RawBlock`, `FromNeighbor` |
| every refusal | `Malformed` |

Of a block mode with two or three partitions, coded from a neighbour, the code copies the
endpoints of one partition (568-606).  The model has no partitions and does not see this.

`XuastcBlocks` is `decompress_full_zstd` of `xuastc/decode.rs`: `logRing` (eight rows), `tmStates` (two
rows), `partHash` and `tmHash`.

| Code (`xuastc/decode.rs`) | Actions |
|---|---|
| run, 505-542 | `Run`, `RunContinues` |
| solid, 543-572 | `CodeSolid` |
| configuration and endpoints of a neighbour, 713-812 | `ReuseConfigEndpoints` |
| new block of a neighbour's configuration, 573-596 and 653-712 | `RawLikeNeighbor` |
| new block, 597-651 and 653-712 | `RawNew` |
| every refusal | `Broken` |

The arithmetic syntax (958-1417) walks the blocks in the same way, with the reads of
`ArithDecoder` instead of bytes and without the hash of trial modes.

## 3. What TLC checks

| Run | States | Shows |
|---|---|---|
| `once_box` | 9 thousand | ownership, agreement, happens-before, that every call returns, and the refinement |
| `lazy_tables` | 770 thousand | the gate, the installs and the mappings, with two threads |
| `lazy_tables_live` | 15 thousand | every install and transcode ends |
| `lazy_tables_race` | - | a finding, see section 5 |
| `slice_still` | 41 thousand | ring, prediction, history, on 3 by 3 blocks |
| `slice_video` | 54 thousand | replenishment, leftovers, runs across replenished blocks, on 3 by 2 blocks |
| `video` | 11 thousand | frames, targets, failures, resets in any order |
| `video_in_order` | 46 thousand | two levels; frames in order are right |
| `video_mixed_targets` | - | a finding, see section 5 |
| `streams` | 730 thousand | bits, codes, intervals, and the blocks of the two intermediate formats, over any stream |
| `huffman_lone_code` | - | a finding, see section 5 |

Properties, by what they are about:

* *once_box*: `OneOwner` (no leak, no double free), `Agreement`, `NoRace` (each
  dereference reads a live box whose construction happens before), `StableWhileHeld`, `ImplementsCell`, `CallsReturn`.
* *lazy_tables*: `NoUnreadyRead` (the `expect` never fires), `ReturnedMeansInstalled`,
  `SerialInstallKeepsFirst` ("a family installed twice keeps the first tables",
  as long as installs do not race), `OneTablePerCall`, `OneBundlePerTranscode` (the reads of one
  transcode, in all slots and blocks and through mappings, are of one bundle unless installs
  raced), `DerivedFresh`, `SliceInBounds`,
  `KnowledgeLasts` (whatever a thread learned in the middle of a call is still true),
  `CallsEnd`.
* *slice_still, slice_video*: `RingIsNeighbours`, `FollowsPrediction` (of each kind of slice, because
  prediction 2 is up-left in a still image and replenishment in a video), `HistoryIsValid`,
  `FrontByPromotion`, `PrevMirrorsOutput`, `RunTakesCodedBlocks` (a run of n gives its selector
  to n blocks that take one, whatever is replenished in between).
* *video*: `StateIsFrame`, `SureIsRight`, `RepeatChangesNothing`, `InOrderIsRight`.
* *streams*: `ReadsInOrder`, `RemainingIsClose`; `DecodesTheCode` and `RefusesOnlyWhatIsNoCode`
  (`init` against the definition of a canonical prefix code); `IntervalNeverEmpty`, `DecodesInside`;
  `RingHoldsReach`, `RunRepeatsBlockBefore`, `DataFitsMode`; `LogRingHoldsReach`,
  `StatesMatchBlocks`, `ConfigurationFits`.

Strengthenings that the theorems alone need (`Handover`, `BlockInHand`, some of the type
invariants) are proved and not repeated as runs.

Bounds, and why they suffice.  Three threads give a winner, a loser and a latecomer of
a cell, with one address more than threads so that every box can be built while one is
stored, and freed addresses come back.  Two threads give every race of the tables: the
invariant is about one thread against the rest; the theorems hold for any number.  Two
contents tell any two bundles apart; two blocks (`MaxBlocks`) give a second read
after a first.  Bundle lengths count the header and each table as one, up to one more
than the longest bundle.  Three columns give a whole group and a group cut short; three
rows bring the ring of two round once and reach a second group row; two selectors and a
history of two or three (one of them odd) give a front and a back half.  Symbols, deltas
and runs are small sets chosen so that each path, each corrupt path and each kind of run
is taken; TLC's coverage shows every action of every module fired.  Three frames of
three blocks give a replenished block whose base was itself replenished, and two levels,
one of them beyond the state's room in `video`, give the slots their meaning.

In `streams` each behaviour runs one of the five decoders (`which`) while the others
rest, so that the state space is the sum of theirs.  The bit reader has the code's own
widths (32, 25, 16) over a stream of nine bytes, more than two buffers, and takes up to
`MaxTaken` bits, past its end.  Codes have a lookup of one bit and sizes up to three, so
that short and long codes, trees of one and two levels, overfull and incomplete codes and repeats
across the end all occur with up to seven symbols.  The arithmetic decoder has words of six bits and
counts that are halved after a few symbols (`MaxSymbols`); its assumptions say which ratios of the real constants
these keep.  The pictures of blocks are two columns by four rows over rings of three
rows, so that both rings wrap (three is the least that holds two rows above the current one), with deltas to the left, up, up-right and two up,
and `Budget` blocks that are not copies; one hash slot makes every value collide.

The two slice runs and `streams` switch deadlock checking off, because a decode that is
over takes no further step; so does `huffman_lone_code`, for a table that is built.  In all other runs somebody can always start another call.

Symmetry is used for the threads in the safety runs of `LazyTables` only.

Fairness is assumed in two places.  `once_box` has weak fairness of the steps inside a
started call of each thread, `lazy_tables_live` the same of `Advance(t)`: a thread that
is runnable is scheduled by the operating system.  Both are weak fairness for one
thread alone, which is what makes the result worth having: no thread depends on another one to
move on.  Nobody has to start a call, to end a borrow or to drop a cell.

## 4. What is proved

All theorems are about the specification that TLC checks, for every value of the
constants that meets the named assumptions: markers such as `None` are not values,
sizes are positive, symbols are numbers, the files of a video are sound, a word has room for
a byte above the longest read, the scale of the counts divides the interval.  Every safety
property that a passing run checks, invariant or action property, is stated by a theorem.

* **TableProofs**, the cell.  `BoxInv` is `BoxTypeOK`, `OneOwner`, `Agreement`, `NoRace` and `Handover`.
  `Handover` is the part the others need: the stored box was released with its pointer,
  a thread owns a box exactly between `into_raw` and the end of its race, and a loser
  knows the stored box and may read it.  `NoLeak`, `CallersAgree`, `DereferenceSafe` and
  `Stable` follow; `Implementation` shows each step to be a step or a stutter of
  `WriteOnceCell`.
* **TableProofs**, the tables.  `IInv` is `TypeOK`, `KnowledgeLasts`, and that no thread has
  panicked and no finished install left a family incomplete.  The argument: cells only
  fill up, so what a thread has passed stays passed (lemma `OthersKnow`), and each step of
  the thread itself extends it.  `ExpectNeverFires`, `OkMeansInstalled`, `KnowledgeKept`,
  `MappingsFresh`, `SlicesFit`, `SameTables`.  A second invariant, `Serial`, is
  about installs that do not race: between two of them the family is complete, so the
  later one finds nothing to fill (`FirstInstallStays`), and a transcode, which starts at a
complete family, reads one bundle (`TranscodeFromOneBundle`).
* **SliceIndicesProofs.**  Five invariants, each resting on those before: `Ranges` (types and the history,
  `HistoryValid`), output and previous frame (`PrevFollowsOutput`), `Ring` (raster order, the endpoints of two rows and the endpoint in
  hand, `RingSuffices`) and `Bits` (the bits in hand and those kept for the row below,
  `PredictionFollowed`) and `RunInv` (the blocks a run has served and what is left of it add up
  to its length, the one in hand included, and all have the front entry, `RunCovers`).  It rests on
  `Bits`, because the bits in hand say that a block is replenished, and on the raster order,
  because the count must not meet a block twice.  `InHand` is the strengthening of `Ring` and `Bits`
  as a theorem; `FrontPromoted` is about steps.
* **Etc1sVideoProofs.**  `Faithful` adds to `StateIsFrame` and `SureIsRight` how far the slice in
  progress has got (`StateFaithful`, `OutputFaithful`); `Steady` says that a slot decoded to
  its end is a fixed point of decoding the same frame (`RepeatsAreIdempotent`, which holds
  for wrong states too); `Ordered` relates the frames seen to the frames decoded and gives
  `OrderSuffices`: if the targets are all opaque or none is, frames in order are right.
* **BlockProofs**, HDR 6x6.  `HdrInv` is the types with the blocks before the current one known, the ring as the output's
  last rows, the run's snapshot as the block before it, and data that fit.  The ring argument
  is arithmetic: two rows less than `Rows` apart never share a slot, and the row index moves with the
  block row (`RowSlot`, `RowSlotMoves`).  A chain of copies stays right because a copy names the block that
  coded its data, not the one it was taken from.  `RingSuffices`, `RunsRepeat`, `DataFits`.
* **BlockProofs**, XUASTC.  `XuastcInv` joins the ring, the kept states and the fit of each block; it needs in addition that a hash
  table holds -1 or a value that was checked when it was named, and that a run
  ends with its row.  `LogRingSuffices`, `StatesMatch`, `ConfigurationsFit`.
* **ReaderProofs**, the bit reader.  `ReaderInv` adds to the order of the bits that a call never asks for
  more than the buffer can hold, and that the padding in it is at most what one look
  pulls in.  `ReadsAreInOrder` holds for every width that has seven bits above the longest unsplit read,
  which is why 25 is the limit for 32; `RemainingClose`.
* **ReaderProofs**, the arithmetic decoder.  `ArithInv` needs more than the two properties of the run.  The
  counts may pass their bound before an update is due, so it says how far: by as many as the
  update interval has left.  A snapshot is a sum of rounded counts: a recursive function,
  whose parts are apart because each count is at least one and the total is at most the
  scale when it is taken.  The search keeps the value between the parts of its two ends.
  `NeverEmpty`, `StaysInside`; `NothingOverflows` bounds every product of the decoder by half the
  word; `LoopsShrink` says of each loop what shrinks with every turn.
* **CanonicalCodeProofs.**  The code before any table.  The intervals of the canonical code
  lie side by side without a gap (`IntervalsApart`, `Covered`).  `FirstCodeStarts`: the codes of a
  size begin where the shorter ones end, in a word that wraps.  `OwnsItsInterval`: reversed
  twice, bits are as they were, so the slots that `init` fills for a code are
  the interval of that code.  `CompletePasses`, and its converse, which fails because of the
  word: `Overfull` says what is let through although its code is not complete, and
  that bits then start with the codes of two symbols other than 0.
* **HuffmanProofs.**  `CodeInv`.  The properties speak of a table that is done, where no
  induction can start, so the invariant says what a table holds while it is built: there is
  a map `at` from paths to ends (a node, a symbol, nothing) such that the lookup has the first
  part of each path and the cells of a node its two branches (`Held`), no two nodes share a
  cell (`Apart`), each end was put there by a symbol that is in (`Owned`), and each symbol that is in
  is found (`Found`).  The exception is symbol 0 at a leaf, which looks like nothing: what comes
  after it could write over it.  Why that does no harm is the heart of the argument.  A
  code that collides with any other symbol is refused (`Collides`); an overfull code has a
  collision without symbol 0 (`Overfull`, `Distinct`), so it is never built (`NoOverfull`); and in a complete
  code nothing collides at all.  `DecodeIs` walks the tree along `at`.  `TablesHold`,
  `CodesDecode`, `CodesPass`; and `CompleteStaysInside`: in a complete code no bits leave the tree,
  so the third disagreement of section 5 is about lone codes only.

What is defined by recursion over data (the sums, the counts, the first codes, the reversed bits,
the loop of `decode_huffman`) is written as recursive functions on an interval of numbers.  `Numbers`
derives, from the order on the natural numbers being well-founded, that such a function exists
and has its defining equations (`Recursion`), and induction as a statement about sets
(`InductionUpTo`), so no step needs an operator as a parameter.

Only model-checked: the liveness properties (`CallsReturn`, `CallsEnd`), because liveness
under fairness is out of this prover's reach, and what the three runs with a finding show.

## 5. Three disagreements between code and documentation

* `lazy_tables_race`.  "A family installed twice keeps the first tables"
  (`tables/lazy.rs:158-159`) holds for installs one after another.  Two racing installs
  of different bundles interleave their cells, and the family ends up with tables of both.
* `video_mixed_targets`.  The documentation asks for "ascending frame order with the same
  `state`" (`api.rs:838-839`).  An opaque target decodes the colour slice only, so the
  alpha array stays a frame behind, and a later frame that is decoded with alpha is
  replenished from the wrong frame.  Frames 0, 1, 2 in order, each a success, with an
  opaque target for frame 1, suffice.  `OrderSuffices` says what does make it right.
* `huffman_lone_code`.  A code of a single symbol is let through although it does not fill
  its space (`basislz/huffman.rs:86-91`).  If it is at least two bits longer than the lookup, the
  overflow tree can end before the second slot of its last node, and other bits than
  the code lead there: `ct.tree[...]` at `basislz/decoder.rs:203` is out of bounds and
  panics, where "malformed [...] input must return an error, never panic"
  (`src/basisu/tests/api.rs:2-3`).  No well-formed stream does this (`DecodesTheCode`).

## 6. What is not modelled, and why

* Emitters, UASTC block codecs and packers: stateless arithmetic on independent blocks,
  compared byte for byte with the reference by the repository's own tests.  A model would repeat the code.
* Generated tables and tooling: data, and programs outside the library.  The tables are
  639 thousand of the 683 thousand lines of implementation, so the share of lines that the models map
  is small by nature; what there is of stateful logic in the rest is modelled.
* The API's gates, the support matrix and the output sizes: checks without state, in one
  expression each.  Where an inner layer relies on one it is part of that model
  (`TranscodeStart`, `Refuse`).
* The containers, and the palette and table readers of `basislz/etc1s.rs`: one pass over bytes, with nothing
  that an operation could find changed.  The code of the code sizes is read by plain `get_bits`.
* Of the entropy decoders: truncated binary and VLC codes (loops of `get_bits`), the gamma
  code and the truncated binary code of the arithmetic decoder (loops of `GetBit` and `GetRaw`), and the sizing of its models.
* Of the intermediate formats: endpoint and weight values, DCT, partitions of HDR blocks, and
  the field order of the arithmetic syntax.
* Panics of a caller's closure, and allocation failure.

## 7. How the parts were ordered, and what could follow

First came what crosses threads and calls (`OnceBox`, `LazyTables`, `SliceIndices`, `Etc1sVideo`), then what depends on
the whole stream so far (`BitReader`, `HuffmanCode`, `ArithDecoder`, `Hdr6x6Blocks`, `XuastcBlocks`).  A
further step would be the two refinements between neighbours: a `SliceIndices` frame
as one implementation of a slice of `Etc1sVideo`, and the arithmetic syntax of XUASTC as another
implementation of the block walk of `XuastcBlocks`.
