----------------------------- MODULE TestDriver -----------------------------
(***************************************************************************)
(* The compression test of src/test: run_compress_chunked_with_matcher of  *)
(* test_driver.c compresses a file, run_decompress_chunked decompresses    *)
(* the outcome, and main of test_compress.c compares.  The two streams of  *)
(* the library are composed here: `out` of the first is input to the       *)
(* second, whose variables have the prefix d_.                             *)
(***************************************************************************)
EXTENDS Compressor

CONSTANTS
    InChunks,   \* chunk sizes a test may ask for (0: all at once)
    OutChunks,
    MARGIN      \* what max_iterations adds to the bytes to move: 64

\* The chunks, and the largest output there is, are within what callers of
\* Compressor offer; the rest is what the decompressor needs of the format.
ASSUME DriverAssumption ==
    /\ MAX_DISTANCE = NIBBLE * Radix /\ HEADER_SIZE <= MAX_DISTANCE
    /\ InChunks \subseteq 0 .. MAX_GIVE /\ OutChunks \subseteq 0 .. MAX_ROOM
    /\ \A bytes \in Inputs : yaz0_compress_bound(Len(bytes)) <= MAX_ROOM
    /\ MARGIN \in Nat \ {0}

VARIABLES
    stage,                \* "compress", "decompress", "finished"
    in_chunk, out_chunk,
    iterations,           \* i of the loop being run
    d_total_in, d_avail_in, d_out, d_avail_out,
    d_running, d_flush, d_before_in, d_before_out, d_result,
    d_mode, d_error, d_history, d_history_pos, d_remaining,
    d_group_bitmask, d_group_remaining, d_reference,
    d_copy_distance, d_copy_length

D == INSTANCE Decompressor WITH
    Inputs <- Seq(Byte), input <- out, total_in <- d_total_in, avail_in <- d_avail_in,
    out <- d_out, avail_out <- d_avail_out,
    running <- d_running, flush <- d_flush, before_in <- d_before_in,
    before_out <- d_before_out, result <- d_result,
    mode <- d_mode, error <- d_error, history <- d_history,
    history_pos <- d_history_pos, remaining <- d_remaining,
    group_bitmask <- d_group_bitmask, group_remaining <- d_group_remaining,
    reference <- d_reference, copy_distance <- d_copy_distance,
    copy_length <- d_copy_length

driverVars == <<stage, in_chunk, out_chunk, iterations>>
handlerVars == <<d_mode, d_error, d_history, d_history_pos, d_remaining,
                 d_group_bitmask, d_group_remaining, d_reference,
                 d_copy_distance, d_copy_length>>
d_vars == <<d_total_in, d_avail_in, d_out, d_avail_out, d_running, d_flush,
            d_before_in, d_before_out, d_result, handlerVars>>
testVars == <<vars, driverVars, d_vars>>

\* The stream is told the size of the file.
TestInit ==
    /\ Init /\ uncompressed_size = Len(input)
    /\ D!Init
    /\ stage = "compress"
    /\ in_chunk \in InChunks /\ out_chunk \in OutChunks
    /\ iterations = 0

-----------------------------------------------------------------------------
(* The loop, of which there are two. *)

\* Mistake: only the input is counted.
max_iterations_Input(size, out_size) == size + MARGIN

max_iterations(size, out_size) == size + out_size + MARGIN

\* give and want: a chunk, or all, of what is left.
Portion(chunk, size, done) == Least(IF chunk > 0 THEN chunk ELSE size, size - done)

\* Mistake: the last chunk is not taken for the last.
FlushFor_Never(done, give, size) == IF done + give > size THEN "FINISH" ELSE "NO_FLUSH"

FlushFor(done, give, size) == IF done + give >= size THEN "FINISH" ELSE "NO_FLUSH"

-----------------------------------------------------------------------------
(* run_compress_chunked_with_matcher. *)

out_size == yaz0_compress_bound(Len(input))

Continues ==
    ~running /\ result = "OK" /\ iterations < max_iterations(Len(input), out_size)

CompressCall ==
    /\ stage = "compress" /\ Continues
    /\ LET give == Portion(in_chunk, Len(input), total_in)
           want == Portion(out_chunk, out_size, Len(out))
       IN Enter(give, want, FlushFor(total_in, give, Len(input)))
    /\ iterations' = iterations + 1
    /\ UNCHANGED <<mode, error, configVars, windowVars, match, matcherVars, blockVars,
                   resets, d_vars, stage, in_chunk, out_chunk>>

CompressRuns ==
    /\ stage = "compress"
    /\ yaz0_compress
    /\ UNCHANGED <<driverVars, d_vars>>

-----------------------------------------------------------------------------
(* run_decompress_chunked, whatever has become of the first. *)

\* yaz0_read_header and the check of the magic bytes behind it.
read_header_result ==
    IF Len(out) < HEADER_SIZE THEN "BUFFER_ERROR"
    ELSE IF out[1] # MAGIC THEN "BAD_HEADER" ELSE "OK"

d_out_size == read_be32(out[2], out[3])

DecompressBegins ==
    /\ stage = "compress" /\ ~running /\ ~Continues
    /\ stage' = IF read_header_result = "OK" THEN "decompress" ELSE "finished"
    /\ d_result' = read_header_result
    /\ iterations' = 0
    /\ UNCHANGED <<vars, in_chunk, out_chunk, d_total_in, d_avail_in, d_out, d_avail_out,
                   d_running, d_flush, d_before_in, d_before_out, handlerVars>>

d_Continues ==
    ~d_running /\ d_result = "OK" /\ iterations < max_iterations(Len(out), d_out_size)

DecompressCall ==
    /\ stage = "decompress" /\ d_Continues
    /\ LET give == Portion(in_chunk, Len(out), d_total_in)
           want == Portion(out_chunk, d_out_size, Len(d_out))
       IN D!Enter(give, want, FlushFor(d_total_in, give, Len(out)))
    /\ iterations' = iterations + 1
    /\ UNCHANGED <<vars, handlerVars, stage, in_chunk, out_chunk>>

DecompressRuns ==
    /\ stage = "decompress"
    /\ D!yaz0_decompress
    /\ UNCHANGED <<vars, driverVars>>

Finishes ==
    /\ stage = "decompress" /\ ~d_running /\ ~d_Continues
    /\ stage' = "finished"
    /\ UNCHANGED <<vars, d_vars, in_chunk, out_chunk, iterations>>

TestNext ==
    \/ CompressCall \/ CompressRuns
    \/ DecompressBegins
    \/ DecompressCall \/ DecompressRuns
    \/ Finishes

TestSpec == TestInit /\ [][TestNext]_testVars

\* A program that runs.
FairTestSpec == TestSpec /\ WF_testVars(TestNext)

-----------------------------------------------------------------------------
(* Properties. *)

\* What main asserts: whatever the chunks, compression ends well having read
\* all of the file, within yaz0_compress_bound, and decompression of the
\* outcome ends well having read all of that, and gives the file back.
Restored ==
    stage = "finished" =>
        /\ result = "STREAM_END" /\ total_in = Len(input)
        /\ Len(out) <= out_size
        /\ d_result = "STREAM_END" /\ d_total_in = Len(out)
        /\ d_out = input

\* Neither loop is ever left because it ran out of iterations, which would
\* report a healthy stream as failed: every call that asks to be called again
\* has moved a byte.
NeverGivesUp ==
    /\ stage = "compress" /\ ~running /\ result = "OK" =>
          iterations < max_iterations(Len(input), out_size)
    /\ stage = "decompress" /\ ~d_running /\ d_result = "OK" =>
          iterations < max_iterations(Len(out), d_out_size)

\* The test ends.
TestEnds == <>(stage = "finished")
=============================================================================
