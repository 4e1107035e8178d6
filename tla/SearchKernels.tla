---------------------------- MODULE SearchKernels ----------------------------
(***************************************************************************)
(* The search kernels: search.c (reference and scalar), search_swar64.c,   *)
(* search_sse2.c, search_avx2.c, search_simd128.c and search_neon.c.  Each *)
(* looks in data[start_pos .. offset-1] for the place that agrees longest  *)
(* with what begins at offset.  Compressor takes the result for granted.   *)
(*                                                                         *)
(* They are one algorithm.  A kernel goes through its block loops, each of *)
(* which takes `step` candidates at a time up to the last multiple of      *)
(* `unit`, and then through what is left one by one.  A block loop forms a *)
(* mask of the candidates that pass a two-byte filter and tries them from  *)
(* the lowest; the filter moves on with each longer run, the mask of the   *)
(* block does not.  Lanes and mask bits are positions here, and i moves on *)
(* when the mask is formed, since the code uses it for nothing else.       *)
(***************************************************************************)
EXTENDS Yaz0Format

CONSTANTS
    Windows,   \* the windows searched, sequences of bytes
    Kernels    \* the kernels, see KernelAssumption

Loop == [step : Nat \ {0}, unit : Nat \ {0}]
Kernel == [filters : BOOLEAN, loops : Seq(Loop)]
Divides(m, n) == \E k \in 0 .. n : n = m * k

(***************************************************************************)
(* A kernel says whether it filters candidates before it measures them     *)
(* (all but the reference do) and what block loops it has: none in         *)
(* search.c, 8 by 8 for SWAR, 32 by 32 for SSE2 and AVX2, 16 up to a       *)
(* multiple of 32 for SIMD128, 64 by 64 and then 16 by 16 for NEON.  They  *)
(* end on a multiple of their step, and so does any loop before them.      *)
(***************************************************************************)
ASSUME KernelAssumption ==
    /\ Windows \subseteq Seq(Byte)
    /\ Kernels \subseteq Kernel
    /\ \A k \in Kernels : \A p \in 1 .. Len(k.loops) :
          /\ Divides(k.loops[p].step, k.loops[p].unit)
          /\ p > 1 => Divides(k.loops[p].step, k.loops[p - 1].step)

VARIABLES
    kernel, data, start_pos, offset, max_lookahead,  \* the call
    loop,          \* the block loop the kernel is in, or past the last
    i, mask,       \* next candidate; those of this block yet to be tried
    want_offset,   \* the second byte a block compares
    longest_run, match_pos,
    running,       \* it has not returned ...
    result         \* ... or returned this

callVars == <<kernel, data, start_pos, offset, max_lookahead>>
vars == <<kernel, data, start_pos, offset, max_lookahead,
          loop, i, mask, want_offset, longest_run, match_pos, running, result>>

\* Behind the window comes its padding, of zeroes.
At(pos) == IF pos < Len(data) THEN data[pos + 1] ELSE 0

-----------------------------------------------------------------------------
(* What a search is measured against. *)

Agree(pos, length) == \A k \in 0 .. length - 1 : At(pos + k) = At(offset + k)

IsLength(pos, length) ==
    /\ Agree(pos, length)
    /\ length < max_lookahead => At(pos + length) # At(offset + length)

-----------------------------------------------------------------------------

\* A call as the matcher makes it: as much lookahead as the window holds or a
\* match can have, and enough for a match.  The start is anywhere before.
Init ==
    /\ kernel \in Kernels
    /\ data \in Windows
    /\ offset \in 0 .. Len(data) - MIN_MATCH
    /\ start_pos \in 0 .. offset
    /\ max_lookahead = Least(Len(data) - offset, MAX_MATCH)
    /\ loop = 1 /\ i = start_pos /\ mask = {}
    /\ want_offset = MIN_MATCH - 1
    /\ longest_run = 0 /\ match_pos = 0
    /\ running = TRUE /\ result = 0

Blocks == loop <= Len(kernel.loops)
Step == kernel.loops[loop].step

\* Mistake: rounded up, not down.
BlockEnd_RoundedUp ==
    LET unit == kernel.loops[loop].unit IN
    offset + ((unit - ((offset - start_pos) % unit)) % unit)

BlockEnd == offset - ((offset - start_pos) % kernel.loops[loop].unit)

\* Mistake: one byte too far for a longer run.
WantOffset_TooFar(run) == IF run < MIN_MATCH - 1 THEN MIN_MATCH - 1 ELSE run + 1

WantOffset(run) == IF run < MIN_MATCH - 1 THEN MIN_MATCH - 1 ELSE run

Hits ==
    {pos \in i .. i + Step - 1 : /\ At(pos) = At(offset)
                                 /\ At(pos + want_offset) = At(offset + want_offset)}

\* Mistake: a run that takes up all the lookahead does not end the search.
Consider_GoesOn(pos) ==
    \E run \in 0 .. max_lookahead :
        /\ IsLength(pos, run)
        /\ longest_run' = IF run > longest_run THEN run ELSE longest_run
        /\ match_pos' = IF run > longest_run THEN pos ELSE match_pos
        /\ UNCHANGED <<running, result>>

\* Mistake: of equal runs the last one wins.
Consider_TakesLast(pos) ==
    \E run \in 0 .. max_lookahead :
        /\ IsLength(pos, run)
        /\ longest_run' = IF run >= longest_run THEN run ELSE longest_run
        /\ match_pos' = IF run >= longest_run THEN pos ELSE match_pos
        /\ running' = (run < max_lookahead)
        /\ result' = IF run < max_lookahead THEN result ELSE run

\* A candidate is measured; a longer run replaces the longest, and one that
\* takes up all the lookahead is returned at once.
Consider(pos) ==
    \E run \in 0 .. max_lookahead :
        /\ IsLength(pos, run)
        /\ longest_run' = IF run > longest_run THEN run ELSE longest_run
        /\ match_pos' = IF run > longest_run THEN pos ELSE match_pos
        /\ running' = (run < max_lookahead)
        /\ result' = IF run < max_lookahead THEN result ELSE run

LoadBlock ==
    /\ running /\ mask = {} /\ Blocks /\ i < BlockEnd
    /\ mask' = Hits
    /\ i' = i + Step
    /\ UNCHANGED <<callVars, loop, want_offset, longest_run, match_pos, running, result>>

\* Mistake: the lane stays in the mask.
TryLane_KeepsLane ==
    /\ running
    /\ \E pos \in mask :
          /\ \A other \in mask : pos <= other
          /\ Consider(pos)
    /\ want_offset' = IF longest_run' > longest_run /\ running'
                      THEN WantOffset(longest_run') ELSE want_offset
    /\ UNCHANGED <<callVars, loop, i, mask>>

TryLane ==
    /\ running
    /\ \E pos \in mask :
          /\ \A other \in mask : pos <= other
          /\ mask' = mask \ {pos}
          /\ Consider(pos)
    /\ want_offset' = IF longest_run' > longest_run /\ running'
                      THEN WantOffset(longest_run') ELSE want_offset
    /\ UNCHANGED <<callVars, loop, i>>

EndBlocks ==
    /\ running /\ mask = {} /\ Blocks /\ i >= BlockEnd
    /\ loop' = loop + 1
    /\ UNCHANGED <<callVars, i, mask, want_offset, longest_run, match_pos, running, result>>

\* The byte that must match for a longer run, and the first one.
Rejected ==
    /\ kernel.filters
    /\ \/ At(i) # At(offset)
       \/ longest_run > 0 /\ At(i + longest_run) # At(offset + longest_run)

Skip ==
    /\ running /\ mask = {} /\ ~Blocks /\ i < offset
    /\ Rejected
    /\ i' = i + 1
    /\ UNCHANGED <<callVars, loop, mask, want_offset, longest_run, match_pos, running, result>>

TryNext ==
    /\ running /\ mask = {} /\ ~Blocks /\ i < offset
    /\ ~Rejected
    /\ Consider(i)
    /\ i' = i + 1
    /\ UNCHANGED <<callVars, loop, mask, want_offset>>

\* A run too short for a pair is no match.
Finish ==
    /\ running /\ mask = {} /\ ~Blocks /\ i >= offset
    /\ running' = FALSE
    /\ result' = IF longest_run >= MIN_MATCH THEN longest_run ELSE 0
    /\ UNCHANGED <<callVars, loop, i, mask, want_offset, longest_run, match_pos>>

search == LoadBlock \/ TryLane \/ EndBlocks \/ Skip \/ TryNext \/ Finish

Next == search

Spec == Init /\ [][Next]_vars
FairSpec == Spec /\ WF_vars(search)

-----------------------------------------------------------------------------
(* Properties. *)

\* The variables have their types and the scan stays in the stretch searched.
TypeOK ==
    /\ kernel \in Kernels /\ data \in Windows
    /\ offset \in 0 .. Len(data) - MIN_MATCH /\ start_pos \in 0 .. offset
    /\ max_lookahead = Least(Len(data) - offset, MAX_MATCH)
    /\ loop \in 1 .. Len(kernel.loops) + 1
    /\ i \in start_pos .. offset
    /\ mask \subseteq start_pos .. i - 1
    /\ want_offset \in Nat /\ longest_run \in 0 .. max_lookahead
    /\ match_pos \in Nat
    /\ running \in BOOLEAN /\ result \in 0 .. max_lookahead

\* No kernel reads past the lookahead, whatever it loads at once: neither the
\* bytes of the block it loads next, nor the two it compares them with, nor
\* those of the filter of a single candidate.  So the padding behind the
\* window of compress.h is never looked at, as test_search.c:240 wants it.
NeverReadsPadding ==
    LET end == offset + max_lookahead IN
    running =>
        /\ Blocks => offset + want_offset < end
        /\ Blocks /\ i < BlockEnd => i + Step - 1 + want_offset < end
        /\ ~Blocks /\ i < offset => offset + longest_run < end

\* A candidate that is neither longer than run nor as long and before best.
Beaten(pos, run, best) ==
    /\ ~Agree(pos, IF run < MIN_MATCH THEN MIN_MATCH ELSE run + 1)
    /\ pos < best /\ run >= MIN_MATCH => ~Agree(pos, run)

\* No kernel passes over a match that would win: the candidates it has left
\* behind, by its filter or measured, are beaten by the match it holds, also
\* when the filter has moved on since their block was loaded.
NothingMissed ==
    running => \A pos \in start_pos .. i - 1 :
                   pos \notin mask => Beaten(pos, longest_run, match_pos)

\* Every kernel returns what the reference is for: the length of the longest
\* match worth a pair and the earliest place that has it, or 0.
FindsLongest ==
    ~running =>
        LET Candidates == start_pos .. offset - 1 IN
        \/ result = 0 /\ \A pos \in Candidates : ~Agree(pos, MIN_MATCH)
        \/ /\ result >= MIN_MATCH
           /\ match_pos \in Candidates /\ Agree(match_pos, result)
           /\ \A pos \in Candidates :
                 /\ Agree(pos, result) => pos >= match_pos
                 /\ result < max_lookahead => ~Agree(pos, result + 1)

\* A search comes to an end.
Returns == <>~running
=============================================================================
