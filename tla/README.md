# Formal models of libyaz0

TLA+ specifications of libyaz0 (its compression and decompression streams,
their life from init to end, the search kernels and their selection) and of the
loops that test it, the TLC configurations that model-check them on small instances, and
TLAPS proofs of their main properties for every value of the parameters.

Run from this directory: `tlasany M.tla`, `tlc -config X.cfg M`, `tlapm M.tla`.

## The system

libyaz0 is a single-threaded C library. A caller keeps a `struct yaz0_stream`,
points it at an input and an output buffer of any size, and calls
`yaz0_compress` or `yaz0_decompress` until it says `YAZ0_STREAM_END`. What is
hard is that a call can run out of input or of room at *any byte*, and the
next call must go on as if nothing had happened: everything the algorithm
needs must survive in the stream's state, in a fixed amount of memory, and
none of it may show in the result.

| Component | State | Operations | Interacts with |
|---|---|---|---|
| Format (`common.h`, `yaz0.c`) | none | header codec, size parameters | both streams |
| Stream I/O (`stream.c`) | `next_in`/`avail_in`/`total_in`, the same for output | read, write and copy of bytes, bounded by what is available | caller's buffers, both streams |
| Decompression stream (`decompress.c`) | `mode`, `error`, `history` ring (4096), `history_pos`, `remaining`, code byte and count, partial pair, partial copy | `yaz0_decompress` (eight modes), `_init`, `_reset`, `_end` | stream I/O, header codec, allocator |
| Compression stream (`compress.c`) | `mode`, `error`, sliding `window` (2 x 4096 + 273), `window_pos`, `window_size`, `received`, current match, `block` being packed and written | `yaz0_compress` (eight modes), `_init*`, `_reset`, `_end`, `_bound` | stream I/O, matcher, allocator |
| Standard matcher (`matcher_std.c`) | a token held back (`deferred`), search distance | `find`, `init`, `slide` | called by FIND_MATCH, calls a search kernel |
| Search kernels (`search*.c`) | none | longest match: reference, scalar, SWAR64, SSE2, AVX2, NEON, SIMD128 | called by the matcher |
| Lifecycle (`common.c`, `matcher.c`, parts of both streams) | allocator copied into the state, matcher memory | init, reset, end; allocate, free, select, validate | caller's allocator, which may fail and be replaced |
| Selection, CPU detection (`search.c`, `cpu.c`) | none | choose the best kernel that is built and supported | validation, matcher |
| Test driver (`test/test_driver.c`, `test_compress.c`) | counter of a loop | feed chunks until the end, twice | both streams, composed |
| Other tests, corpus, benchmark (`test/`) | none | single calls on given files | the library |

What makes each of them correct, and what is hard about it:

* *Format.* What `compress.c` packs is what `decompress.c` unpacks, at every
  boundary: lengths 17 and 18, distance 4096, the last bit of a code byte.
* *Decompression.* However the bytes are dealt out, the output, the verdict and
  the number of bytes consumed are those of decoding the whole input at once.
  The ring is indexed by position modulo its size; it first holds the header;
  a reset leaves it dirty; a copy may overlap itself, reach back the whole ring
  and be suspended in the middle. Running out of input means "wait" or
  "truncated", depending on `flush`, in four handlers.
* *Compression.* However the bytes are dealt out, the output is the same, so no
  token may be chosen before enough lookahead has come; what it encodes must
  be what was read, across slides of the window; a token held back by the
  matcher must still be right when it is used; the output must stay within
  `yaz0_compress_bound`; a size that was declared wrongly must be noticed.
* *Lifecycle.* Two blocks of memory per compression stream, taken and given back
  in several places, through an allocator remembered in one of them; an init
  that may configure twice and fail in either; a matcher called unchecked later.
  The kernel is selected three times (to validate, to report, to use).
* *Test driver.* It gives up after a number of calls, so it is right only if a
  call that wants another has moved a byte.
* *Both streams.* A call always returns; one that returns unfinished has used up one of
  its buffers (or the caller could never make it go on); an error or the end
  is reported again at every later call; a reset starts cleanly from anywhere.

There are no threads, no files and no clock in the library, so nothing here is
about races, crashes or timeouts: the interleavings are those of the calls, of
the sizes of their buffers, of resets, and of failures to allocate.

## Modules

| Module | What it is |
|---|---|
| `Yaz0Format` | size parameters, header codec, code byte, pair layouts; everything else extends it |
| `Stream` | the caller's buffers, read and write, entry and exit of a call, the stall check |
| `Decompressor` | `decompress.c`, one action per handler; extends `Stream` |
| `Compressor` | `compress.c` with `matcher_std.c`, one action per handler; extends `Stream` |
| `SearchKernels` | `search.c` and the five `search_*.c`: the longest-match kernels as one algorithm; extends `Yaz0Format` |
| `SearchWords` | the words `search_swar64.c` and `search_neon.c` make masks and lengths with; extends `SearchKernels` |
| `Selection` | tables and probes of `search.c`, `matcher.c`, `cpu.c`: operators over a machine |
| `Lifecycle` | init, reset and end of several streams over a heap; extends `Selection` |
| `TestDriver` | the two loops of `test_driver.c` around both streams; extends `Compressor`, instantiates `Decompressor` |
| `Lz77` | abstract specification of decompression: a decoder that remembers its whole output |
| `Yaz0Encodings` | when a sequence of bytes is a Yaz0 encoding of another, for the proofs; extends `Yaz0Format` |
| `ReferenceDecoder` | a whole-input decoder, written after `doc/ALGORITHM`, as a recursive function; `ChunkingInvisible` of `Decompressor` and `RoundTrips` of `Compressor` measure the streams against it |
| `ReferenceEncoder` | a whole-input encoder, written after `doc/ALGORITHM`, as a recursive function; `ChunkingInvisible` of `Compressor` measures the stream against it |
| `MCDecompressor`, `MCCompressor`, `MCSearchKernels`, `MCLifecycle`, `MCTestDriver` | inputs, machines and files of the runs; `MCCompressor` also has what `doc/ALGORITHM` says of putting a match off |
| `Yaz0FormatProofs`, `ReferenceProofs`, `DecompressorProofs`, `CompressorProofs`, `CompressorOutputProofs`, `SearchKernelProofs`, `LifecycleProofs`, `TestDriverProofs` | the proofs |

How the models correspond to the code:

* The variables have the names of the struct members. Of the caller's buffers,
  `input` is everything the caller will ever supply and `total_in` how much of
  it is consumed, so `next_in` is implied; `out` is everything put out, so
  `total_out` is its length. `reference_pos` and `block_pos` are the lengths
  of `reference` and `block`; `search_distance` of the stream and
  `max_distance` of the matcher are the same number.
* A call is the action `Call` (the caller picks the buffers and the flush
  argument), then one action per turn of the `while (true)` loop, and the
  handler's last step when it suspends, fails or finishes. The locals of a
  call (`flush`, `before_in`, `before_out`) are set to a fixed value when it
  returns, for they are dead. The copy loop of `decompress_copy` is one action
  per byte, since it can be left at each.
* The code loops over `YAZ0_STEP_CONTINUE`; here that is `running` staying
  TRUE.
* A byte is a digit in base `NIBBLE * NIBBLE`; shifts and masks are division,
  multiplication and remainder. With `NIBBLE` = 16, `MAX_DISTANCE` = 4096,
  `MAX_MATCH` = 273 and `TOKENS_PER_BLOCK` = 8 the layout is that of the code.
  The header has one magic byte and a two-digit size in place of four and four;
  the alignment hint and the reserved bytes, which the code copies and never
  looks at, are left out.
* `LITERAL` tokens of the matcher carry, as in the code, whatever distance it
  leaves in them; only the length counts.
* In `Compressor` the search is stated by its result (the longest match, the
  earliest of equals). `SearchKernels` models the kernels that compute it: a
  kernel is a record of its block loops (step, and the multiple at which the
  loop ends) and whether it filters; the rest is the same in all seven. One
  action per block loaded, per lane tried, per candidate of the tail. Lanes and
  mask bits are positions; `memchr` is a `Skip` per byte. The padding behind the
  window is zeroes, which would match some of the data.
* `SearchWords` adds no steps: at each state of a kernel it computes the words the
  C code has there. A word is a number, a lane a digit of it, `^`, `&` and `|`
  are those of `Bitwise`, and addition is modulo the width of the word. For
  SWAR that is the whole mask formula; for NEON the comparison, shift and narrow
  of a block of 16, and the nibble arithmetic of its loop; for both the length
  counted word by word. The movemask instructions of SSE2, AVX2 and SIMD128, and
  the pairwise additions of NEON's blocks of 64, are taken by what they yield.
* Memory that was never written is the value `STALE`, which is not a byte: were
  one ever put out, `TypeOK` would fail. After a reset the ring and the window
  keep the old bytes, as in the code.
* A definition called `X_Y` with a comment "Mistake" is a wrong version of `X`
  that takes part in no specification. Each property is known to fail when one
  such mistake is put in the place of `X`; `PROJECT.json` says which.
* `Init` of the two streams is a successful `_init`. Everything else about init,
  reset and end is in `Lifecycle`, which leaves out what happens between them: a
  stream is its state block, its matcher's block, the allocator remembered and
  what was requested and selected. Each function is one action, for nothing can
  come between its steps; inside it the steps are composed in the order of the
  code (`Outcome` is the state, the memory and the result after a step), and
  each allocation fails or succeeds at any free address. `heap` says who has
  given out the block at an address, and its size; a block returned twice or to
  another allocator stays behind with a size of 0, where `BlocksAccounted`
  finds it. The caller may set `alloc`, `free` and `opaque` at any time, one of
  them only included (`HALF`).
* A machine of `Selection` is a build target with what was disabled, and what
  CPUID and XGETBV would say; it is chosen once, at the start.
* `TestDriver` makes the caller's choices of `Compressor` and `Decompressor` the
  ones the driver makes: its actions are their `Enter` with `give`, `want` and
  `flush` computed as in the loop, and their own next-step actions while a call
  runs. The output of the first stream is the input of the second.

## Runs

`Spec` has no fairness; `FairSpec` adds `WF_vars(yaz0_decompress)` or
`WF_vars(yaz0_compress)`, or `WF_vars(search)` for a kernel: while a call is on
the stack the loop goes on, which is what a running C function does. Nothing is
assumed of the caller: it may stop calling at any time, and no property says it
will not. `FairTestSpec` is a whole program, the caller included, that runs:
`WF_testVars(TestNext)`.

| Run | Question | Properties |
|---|---|---|
| `DecompressorShort` | every body of at most 4 bytes behind every size up to 5 (and longer ones with a pair up front), in every chunking | `TypeOK`, `ModeOK`, `SuspendedMeansExhausted`, `ChunkingInvisible`, refinement `DecodesLz77` |
| `DecompressorRing` | streams that go round the ring of 8, with copies over its seam, at distance 8, overlapping | `RingHoldsTail`, `ChunkingInvisible`, `DecodesLz77` |
| `DecompressorReset` | two resets at any moment, also after errors; the new input may try to reach the old history | `ChunkingInvisible`, `CallReturns` |
| `CompressorLong` | inputs longer than the window of 20, levels 0 and 9 | `TypeOK`, `ModeOK`, `WindowHoldsInput`, `MatchCopiesInput`, `WithinBound`, `ChunkingInvisible` |
| `CompressorShort` | all binary inputs up to 6 bytes and those of 10 where lazy matching may bite | `ChunkingInvisible`, `RoundTrips` |
| `CompressorCaller` | sizes declared wrong by one, FINISH too early, a reset, also while a token is held back, other levels | `SuspendedMeansExhausted`, `RoundTrips`, `CallReturns` |
| `CompressorEarly` | FINISH too early on an input that makes the window slide, one byte of room a call; the same input declared empty | `WindowHoldsInput`, `MatchCopiesInput`, `SuspendedMeansExhausted`, `RoundTrips`, `ReceivedInReach` |
| `SearchKernels` | seven kernels in small (steps 3 of 3, 2 of 4, 4 of 4 then 2 of 2, none), every binary window to 10 bytes and ternary ones, every start and offset | `TypeOK`, `NeverReadsPadding`, `NothingMissed`, `FindsLongest`, `WordsAreLanes`, `Returns` |
| `Lifecycle` | two streams of either kind on four machines, allocations that fail, bad options, a caller that changes its allocator at any time | `TypeOK`, `BlocksAccounted`, `MatcherUsable`, `RequestsHonoured`, `FailuresUndone` |
| `TestDriver` | 65 files, the longest of 160 bytes, two levels, four input and four output chunk sizes: the compression test | `Restored`, `NeverGivesUp`, `TestEnds` |
| `CompressorLazyProse` | is a match put off for *any* longer one? | `DefersLongerMatch`, violated |
| `LifecycleDocs` | are the kernels yaz0.h marks "unimplemented" never in use? | `UnimplementedRejected`, violated |

What the properties say:

* `ChunkingInvisible` (both streams): what a stream has put out is a prefix of
  what the whole-input codec makes of the whole input, all of it in the end,
  and the verdict is the same. Every call returns how the stream stands: the end
  or the error, once it has come to it, again at every call, and before that
  only that it goes on or could not. For the compressor this holds for callers that
  keep the contract of `FINISH` ("no further data is coming"); a caller that
  breaks it gets other tokens, and `CompressorEarly` and `CompressorCaller`
  show that these are still right.
* `RingHoldsTail`, `WindowHoldsInput`: what the bounded memory holds, in terms
  of the whole output or input.
* `MatchCopiesInput`: the assertions of `compress_find_match`, said of the input
  and not of the window, and of the token held back as well.
* `WithinBound`: the output never outgrows `yaz0_compress_bound`, even on streams
  that end in an error, counting a block before it is written.
* `SuspendedMeansExhausted`: yaz0.h tells the caller to refill "whichever buffer
  ran out"; so one has. It is what makes `YAZ0_BUFFER_ERROR` something a caller
  can recover from.
* `RoundTrips`: a compressed stream that ends well decodes to what was read,
  whatever the caller did.
* `FindsLongest`, `NothingMissed`: a kernel returns the longest match and the
  earliest place that has it; on the way there, what its filter skipped could
  not have won, although the filter moves on in the middle of a block whose
  mask was formed with the old one. Two kernels that return something different
  would make the compressed file depend on the processor.
* `NeverReadsPadding`: `test_search.c` says that searches never read the padding;
  none does, so the padding that `compress.h` keeps for them is a precaution.
* `WordsAreLanes`: whenever a kernel has formed a mask, the words of the C code
  stand for exactly that set of lanes (no carry makes a candidate or hides one);
  taking and clearing the lowest lane of the word takes and clears the lowest
  candidate; a length counted by words is the length.
* `ReceivedInReach`: `received` is at most the declared size and a window, whatever
  is supplied. Sizes are naturals in the model; this is why a `size_t` that holds
  such a number cannot wrap before the check. One of 32 bits is wide enough
  unless the declared size itself lies within a window of 2^32.
* `BlocksAccounted`: the blocks given out are those the live streams answer for,
  each owned once and due to the allocator it came from: no leak, no double
  free, no mixing of allocators. `MatcherUsable`: `compress_find_match` calls
  the matcher without a check; there is one, with enough aligned memory.
* `RequestsHonoured`: what `yaz0_compress_search` reports is what the matcher uses,
  though the two are selected apart; it is built in, its probe accepts this
  machine, and (`Runs`, said of the machine without the probes) the machine has its
  instructions and saves its registers. A kernel or a matcher asked for by name
  is the one in use, from one reset to the next. The code forgets which kernel
  was asked for; the model remembers it in `requested_search`, an auxiliary field
  that no step reads.
* `FailuresUndone`: a call that fails changes nothing, also when it repeats the
  failure before it (the property is about every step that changes a stream, the
  memory or the last call, and one that changes none of them has nothing to undo);
  and a reset, which promises
  to reuse what the stream has, never allocates. The code relies here on there
  being one matcher: the branch of `compress_configure_matcher` that frees the
  old one's memory before it has the new one's is in the model, but no reset
  takes it. A second matcher in the table would make `MatcherUsable` and
  `FailuresUndone` worth a new run.
* `Restored`: what `test_compress.c` asserts, over all chunk sizes. `NeverGivesUp`:
  neither loop ends for want of iterations. `TestEnds`: the test does.
* `CallReturns`, `Returns`: no call and no search hangs.
* `ModeOK`: what holds in each mode of the automaton; the control part of the
  inductive invariant.

**The findings.** `doc/ALGORITHM` says in prose that a match is put off if the one
a byte later "is longer than the current match"; `matcher_std.c` wants it longer
by two, and so does the pseudocode in the same document. `CompressorLazyProse`
shows an input where the two differ. And `yaz0.h` marks the AVX2, AVX512, NEON and
SIMD128 kernels "(unimplemented)" where the table of `search.c` has all but
AVX512: `LifecycleDocs` shows a stream that uses AVX2.

### Bounds

Decompressor: `NIBBLE` = 2 (bytes 0..3, so that *every* byte string can be
tried), ring of 8, two tokens a block, matches of 3 to 7. Lengths 3 are short
pairs (their high nibble is 1) and from 4 on long ones, so both layouts occur;
distances 1 to 8 use the whole field. Compressor: `NIBBLE` = 4, reach 7, matches
up to 6, window 20, so inputs of 21 bytes make it slide. The reach is one short
of a power of two on purpose: nothing in the compressor depends on it. Kernels: blocks
of 2 to 4 lanes over windows of up to 10, so that a search crosses several
blocks and ends in the tail, with several candidates in one mask and runs both
shorter and longer than a block. Lanes there have four bits (`LANE_BITS`; `NIBBLE` = 4),
and the byte values 0, 7 and 15 differ in all bits, in the top one and in all
others, the cases a carry between lanes depends on. Bounds on
the caller: `MAX_GIVE` input bytes and `MAX_ROOM` bytes of room a call (with 0
among the choices), `MAX_RESETS` resets. Chunks of 0 to 2 or 3 bytes already
end a call between any two bytes, and combine into any larger chunk; the runs
with large `MAX_GIVE` or `MAX_ROOM` add calls that do everything at once. A
counter that grows without limit in the code (`total_in`, `total_out`,
`history_pos`, `received`) is limited by the length of the input.

The inputs in `LongInputs` were chosen because on them a token is held back
while the window slides, and needs its oldest byte afterwards: sliding one
`MAX_DISTANCE` too soon, for example, is noticed on them.

`Lifecycle`: two streams, two allocators beside `malloc`, and three addresses,
one block fewer than two compression streams want, so that memory also runs
out by itself; of the addresses one is aligned, one just past a boundary and
one just before one. Level 9 is good and 10 is bad; of the requests AVX2 is there
on one of the four machines only, and SWAR64 on all; the matcher "OTHER" is one
that no table has.

`TestDriver`: every binary file of up to 5 bytes, one with a token held back, and
one of 160 bytes, which goes twice round the ring of 64 (both streams share one
format here, so the ring is as long as the distance field can say) and makes
the window of 149 slide. Chunks of 0 (all at once), 1, 2 and 7 or 50 bytes.
`MARGIN` is the 64 that the code adds to `max_iterations`; the run takes 1, so
that the bytes have to pay for every call, and the proof any number from 1 on.

## Proofs

All proofs are for arbitrary constants under the assumptions named in the
modules: `FormatAssumption` (the fields are wide enough, and
`MAX_MATCH < MAX_DISTANCE`), `CodeByteAssumption` (the code byte has a bit for
every token, each half of the one before, the first the top one), `StreamAssumption`, `DecompressorAssumption` (the ring is exactly
as long as the distance field can say, because the code masks by it; the header
fits in it) and `CompressorAssumption` (levels -1 to 9). The numbers of
`common.h` satisfy the arithmetic ones, and TLC evaluates them on every run.
`KernelAssumption`, `LifecycleAssumption` and `DriverAssumption` are named where
they matter below; the last says that the caller's choices of `Compressor` include
those of the driver.

* **Format** (`Yaz0FormatProofs`): `HeaderRoundTrip`, `ReferenceInRange`,
  `ReferenceRoundTrip`, with the arithmetic lemmas on digits that they rest on.
* **Encodings** (`Yaz0Encodings`, `Yaz0FormatProofs`): `Encodes(bytes, data)` says
  that there is a path through the bytes, from the header to the end, each step of
  which is a code byte, a literal or a pair that spells the next bytes of the data.
  The path is a set of points (bytes behind, data behind, tokens of the block
  behind, and what they contribute to the code byte), each of which leads to
  another; so nothing is recursive, and what follows needs no induction but that
  of the two streams' own steps. The lemmas say how a path grows: by a code byte
  (`BlockOpened`), a literal, which sets a bit of the code byte put down before it
  (`LiteralAdded`), a pair (`PairAdded`); and that the decoder, shifting the code
  byte left, sees the bit of the token it is at (`TokenBit`).
* **Decompressor** (`DecompressorProofs`): `Spec => []IInv` with
  `IInv == TypeOK /\ ModeOK /\ RingHoldsTail`. None of the three is inductive
  alone: that a byte put out is a byte (`TypeOK`) needs the slot it is copied
  from to have been written (`RingHoldsTail`), which needs the distance to be
  no more than the output so far and the ring (`ModeOK`). The step is proved
  one handler at a time; the heart is that two positions less than
  `MAX_DISTANCE` apart have different slots. From it follow `TypeCorrect`,
  `RingCorrect`, `ControlCorrect` and `SuspendedCorrect`, and `Refinement`:
  `Spec => DecodesLz77`, each handler mapped to a step of `Lz77` or a stutter
  under `size = Len(out) + remaining`.
* **Compressor** (`CompressorProofs`): `Spec => []IInv` with
  `IInv == TypeOK /\ ModeOK /\ WindowHoldsInput /\ MatchCopiesInput`. That
  positions stay in the window needs a token no longer than what is left of
  it, so `TypeOK` needs `MatchCopiesInput`; that a match found in the window
  is a match in the input needs `WindowHoldsInput`. From it follow
  `TypeCorrect`, `ControlCorrect` (which includes that the `STREAM_ERROR` of
  `compress_emit` is unreachable), `WindowCorrect`, `MatchCorrect`,
  `SuspendedCorrect` and `ReceivedCorrect`: a fill starts from a count within the
  declared size and takes in at most what the window has room for.
* **Bound** (`CompressorOutputProofs`): `Spec => []WithinBound`. The bound is not
  inductive; `Accounted` is: the bytes put out and in the block are the header,
  at most one byte of output per byte of input, and one code byte per block, of
  which all but the current one stand for at least `TOKENS_PER_BLOCK` bytes of
  input.
* **Output** (`CompressorOutputProofs`): `CompressEncodes`, that a stream that ends
  well has put out an encoding of the bytes it has received. Its invariant is
  `EInv == IInv /\ EncodesSoFar`: the output with the block in progress behind it
  has a path that ends where the tokens emitted so far do. `compress_emit` adds a
  point, and `MatchCopiesInput` says that its pair repeats the input; a block
  written to the caller in pieces leaves the whole as it was.
* **Reference decoder** (`ReferenceProofs`): `EncodingDecodes`, that of any
  encoding of any data `RefDecode` makes the data, read to the end. The decoder is a
  function over the number of turns taken, `RefPlaces(bytes)`; its values are the
  *trail*, each place `RefTurn` of the one before. The provers cannot instantiate
  an induction theorem, so what is said of every place is proved by the least
  number for which it fails (`LeastMember`, from the well-ordering of the naturals,
  which is a theorem without operator parameters). Every turn but the last uses a
  byte, so after as many turns as there are bytes the trail has ended (`RefLast`,
  `TrailEnds`); from a place on it the output only grows (`Onward`), so that what it
  has is a prefix of the verdict's (`TrailSays`). Along an encoding's path the
  places meet its points one by one (`Holds`, `PlacesOnPath`).
* **Round trip of the stream** (`CompressorOutputProofs`): `RoundTripsCorrect`,
  `Spec => []RoundTrips`, from `CompressEncodes` and `EncodingDecodes`.
* **Reference encoder** (`ReferenceProofs`): the encoder is a function over the
  number of tokens chosen, `Stages(data, reach)`. A set of pairs that is not empty
  has a longest one, and a most distant among those (`LongestFacts`); a stage short of
  the end goes on to one further on (`StageGoesOn`), so after as many turns as
  there are bytes the encoder is at the end of the data (`StagesAdvance`), and
  the complete groups of any stage are how the encoding begins (`StageSays`).
* **Chunking of the compressor** (`CompressorOutputProofs`): `ChunkingCorrect`,
  `Spec => []ChunkingInvisible`, for callers that keep the contract of `FINISH`
  (`EARLY_FINISH = FALSE`, the one hypothesis; the theorems on what is put out, `MatchCorrect`
  and `RoundTripsCorrect`, have none). The encoder has neither window nor lookahead to wait
  for, so this is where the sizes of `common.h` and `compress_fill` matter. The
  invariant is `CInv`, which adds five parts to `EInv`:
  - `Follows`: the stream is at a stage of the encoder, with as many bytes behind it,
    the same token held back, the same groups out and the same group in the block; in
    `EMIT` it has the token the encoder picks there;
  - `Slid`: a window that has slid keeps `MAX_DISTANCE` bytes behind the position, so the
    candidates of `search` are those of the encoder (`MatchRepeats`, `SameMatches`);
  - `Ready`: `FIND_MATCH` runs with more than `MAX_MATCH` bytes of lookahead, or with
    all the input. So the match at the position, and the one a byte later that may defer
    it, are as long as the data allow (`FindsLongest`). With a byte less they are not,
    and the output would depend on the chunks;
  - `Finishing`: in a call with FINISH the caller has handed over the rest of the input;
    `Ready` rests on it, since `compress_fill` goes on with less lookahead only then;
  - `Reported`: the last call has returned how the stream stands.
* **What the decompressor makes of any input** (`DecompressorProofs`):
  `ChunkingCorrect`, `Spec => []ChunkingInvisible`, for every input, an encoding of
  something or not. Its invariant `FInv` adds to `IInv` where the stream is
  on the trail (`Tracks`): between tokens it *stands* at a place, with the same
  output, bytes used and rest of the code byte; inside a pair or a copy it is on the
  way from one place to the next (`OnPair`, `OnCopy`: the bytes of the pair read so
  far are those of the input, what is still to be copied is the rest of the next
  place's output); and when it settles there is a place with its output, its count
  and its verdict (`SettledAs`). That running out of input means "truncated" only at the
  end of the input needs `Finishing`: a call with FINISH has all of it before it.
  `Answered` is that every call returns how the stream stands, so every later one
  says the same again. `DecodesEncodings` follows
  with `EncodingDecodes`: if the input is an encoding of some data, by this or
  another encoder, the stream never fails, what it has put out is a prefix of the data, and
  when it ends it is all of them.
* **Kernels** (`SearchKernelProofs`): `Spec => []IInv`, with `NothingMissed` in it,
  for any number of block loops whose steps divide their units and the steps
  before them (`KernelAssumption`). A block never reaches the position searched
  for because the scan is a whole number of steps from its start (`Aligned`);
  what a stale mask lets through is measured anyway, and what it leaves out
  differed in a byte that a longer run would need too. From it follow
  `TypeCorrect`, `KernelsFindLongest`, `KernelsMissNothing` and
  `KernelsReadInside`.
* **Lifecycle** (`LifecycleProofs`): `Spec => []IInv` with
  `IInv == TypeOK /\ BlocksAccounted /\ MatcherUsable /\ RequestsHonoured`, for any
  number of streams, allocators, addresses and machines, any sizes and any
  alignment. That nothing is freed twice needs the blocks of a stream to be its
  own (`BlocksAccounted`), also while an init is half done: its lemmas are said
  of a stream being configured (`Outcome`), before it is put back among the
  others. That the kernel in use runs and is the one asked for follows from
  `yaz0_search_select` alone (`SelectedFits`, `KernelRuns`), whatever the machine. That a
  reset keeps its matcher needs the matcher to be the one that
  was requested (`RequestsHonoured`), and that it does not allocate needs
  `MatcherUsable`; `FailuresCorrect` follows from both.
* **Test driver** (`TestDriverProofs`): `DriverIsCaller`, `TestSpec => Spec`: the
  driver is one of the callers `Compressor` admits, so everything proved of
  `Spec` holds of it; the invariant of the decompressor is carried over in the
  same way. `NeverGivesUpCorrect` rests on a count, `Counted` and `d_Counted`: when a
  call has returned and asks for another, the calls made are at most the bytes
  moved; while one runs, the bytes moved before it pay for all calls but its own.
  It can only ask for another if it has moved a byte, by the stall check, and no
  more bytes can move than there are in the file and in the room for its outcome.
* **Round trip of the driver** (`TestDriverProofs`): `RestoredCorrect`, `TestSpec => []Restored`, for
  any file, sizes, level, chunks and margin. The output of the first loop is an
  encoding of the file (`CompressEncodes`) within the bound (`BoundCorrect`), the
  second makes the file of it (`DecodesEncodings`). What is left is that both end:
  the driver declares the right size (`Healthy`), supplies bytes and room while
  there are any, so that the call before the last has used up one of them
  (`Supplied`, `Handed`), and says FINISH with the last; `NeverGivesUp` excludes the
  other way out of a loop.

Only model-checked: `CallReturns`, `Returns` and `TestEnds` (liveness under
fairness, out of the prover's reach), and `WordsAreLanes`, whose bitwise operators the
prover has no theory of. Every other property of the passing runs is a theorem.

## Not modelled, and why

* The movemask instructions of SSE2, AVX2 and SIMD128 are the compiler's; the mask
  of NEON's blocks of 64 (`yaz0_move_mask4`) is a tree of pairwise additions of
  distinct bits, taken by what it yields. Big-endian machines have no kernel that
  uses words.
* Misuse the library does not promise to survive: init of a stream that is in use,
  a copy of a `struct yaz0_stream` used beside the original (the state points
  back to the stream it was made for), NULL arguments (asserted, then refused).
* That a caller's `free` may be called with NULL (`compress.c:67`, when a stream gets
  its first matcher) is in the model a step that does nothing.
* Getters (`yaz0_compress_search`, `yaz0_compress_matcher`, `yaz0_default_search`),
  names, version, default options: they read what is modelled, or constants.
* The alignment hint and reserved bytes of the header: copied, never looked at.
* `slide` of the matcher: the one there is does nothing, and `compress.c` calls it
  with no effect.
* The test driver's refusal of files of 4 GiB and failures of its own `malloc`; the
  other tests, the corpus and the benchmark, which call the library once on
  given files and have no protocol of their own; the build.
* Widths: counters are naturals; `ReceivedInReach` says what width is enough for
  the one that grows with what the caller supplies. `total_in` and `total_out`
  only count.

## Plan

Done: the format, the streams, the matcher, the search kernels and their words,
selection, the lifecycle, the test driver; all their runs and the proofs above.
The round trip of the two streams through buffers of any size, planned as a
module of its own, is `TestDriver`.

Left: should a second matcher join the table, a run of `Lifecycle` in which a reset
changes matcher, see `FailuresUndone`; `ChunkingInvisible` would then be measured
against an encoder for each.
