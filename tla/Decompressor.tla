---------------------------- MODULE Decompressor ----------------------------
(***************************************************************************)
(* The decompression stream of src/decompress.c.                           *)
(*                                                                         *)
(* A caller lends buffers to yaz0_decompress again and again; inside a     *)
(* call the loop dispatches on `mode`, and each handler is one action (the *)
(* copy loop is one action per byte).  A handler that finds its buffer     *)
(* empty suspends the call, and the next call resumes in the same mode.    *)
(*                                                                         *)
(* The last MAX_DISTANCE bytes of output are kept in the ring `history`,   *)
(* which also holds the header while it is being collected.                *)
(***************************************************************************)
EXTENDS Stream, ReferenceDecoder

CONSTANTS
    MAX_RESETS,   \* bound: how often the caller starts the stream over
    STALE         \* a byte of history that was never written

ASSUME DecompressorAssumption ==
    /\ MAX_DISTANCE = NIBBLE * Radix     \* the ring mask is the field width
    /\ HEADER_SIZE <= MAX_DISTANCE
    /\ MAX_RESETS \in Nat
    /\ STALE \notin Byte

VARIABLES
    mode, error,
    history, history_pos,        \* ring, and bytes ever put into it
    remaining,                   \* bytes of output still owed
    group_bitmask, group_remaining,
    reference,                   \* bytes of the pair so far (reference_pos = Len)
    copy_distance, copy_length,
    resets                       \* resets so far (only to bound them)

groupVars == <<group_bitmask, group_remaining>>
copyVars  == <<copy_distance, copy_length>>
ringVars  == <<history, history_pos>>
vars == <<streamVars, callVars, mode, error, ringVars, remaining, groupVars,
          reference, copyVars, resets>>

Mode == {"HEADER", "START_BLOCK", "TOKEN", "LITERAL", "REFERENCE", "COPY",
         "ERROR", "DONE"}

Slots == 0 .. MAX_DISTANCE - 1

\* yaz0_decompress_init: decompress_configure on fresh memory.
Init ==
    /\ StreamInit
    /\ mode = "HEADER" /\ error = "OK"
    /\ history = [slot \in Slots |-> STALE] /\ history_pos = 0
    /\ remaining = 0
    /\ group_bitmask = 0 /\ group_remaining = 0
    /\ reference = <<>>
    /\ copy_distance = 0 /\ copy_length = 0
    /\ resets = 0

-----------------------------------------------------------------------------
(* How a handler ends. *)

decompress_continue(next) ==
    /\ mode' = next
    /\ UNCHANGED <<callVars, error>>

\* Mistake: the handler gives up but the loop goes on.
decompress_suspend_Spins == UNCHANGED <<callVars, mode, error>>

decompress_suspend == Suspend /\ UNCHANGED <<mode, error>>

decompress_error(code) ==
    /\ mode' = "ERROR" /\ error' = code
    /\ Return(code)

\* Mistake: every end of a buffer is taken for the end of the stream.
Starved_Truncates == decompress_error("TRUNCATED")

\* Out of input: the end of the stream if this was the last call.
Starved ==
    IF flush = "FINISH" THEN decompress_error("TRUNCATED") ELSE decompress_suspend

-----------------------------------------------------------------------------
(* The handlers. *)

\* The loop of a running call dispatches on the mode.
At(m) == running /\ mode = m /\ UNCHANGED resets

\* The header is collected at the start of the ring, across calls if need be.
decompress_header ==
    /\ At("HEADER")
    /\ UNCHANGED <<out, avail_out, groupVars, reference, copyVars>>
    /\ LET have == Readable(HEADER_SIZE - history_pos)
           read == [slot \in Slots |->
                      IF slot \in history_pos .. history_pos + have - 1
                      THEN input[total_in + 1 + slot - history_pos]
                      ELSE history[slot]]
           size == read_be32(read[1], read[2])
       IN /\ Read(have)
          /\ history' = read
          /\ \/ /\ history_pos + have < HEADER_SIZE
                /\ history_pos' = history_pos + have
                /\ Starved
                /\ UNCHANGED remaining
             \/ /\ history_pos + have = HEADER_SIZE
                /\ read[0] # MAGIC
                /\ history_pos' = HEADER_SIZE
                /\ decompress_error("BAD_HEADER")
                /\ UNCHANGED remaining
             \/ /\ history_pos + have = HEADER_SIZE
                /\ read[0] = MAGIC
                /\ history_pos' = 0
                /\ remaining' = size
                /\ decompress_continue(IF size = 0 THEN "DONE" ELSE "START_BLOCK")

decompress_start_block ==
    /\ At("START_BLOCK")
    /\ \/ /\ HasInput
          /\ Read(1)
          /\ group_bitmask' = NextByte
          /\ group_remaining' = TOKENS_PER_BLOCK
          /\ decompress_continue("TOKEN")
       \/ /\ ~HasInput
          /\ UNCHANGED <<input, total_in, avail_in, avail_out, groupVars>>
          /\ Starved
    /\ UNCHANGED <<out, avail_out, ringVars, remaining, reference, copyVars>>

decompress_token ==
    /\ At("TOKEN")
    /\ \/ /\ remaining = 0
          /\ decompress_continue("DONE")
          /\ UNCHANGED <<groupVars, reference>>
       \/ /\ remaining # 0 /\ group_remaining = 0
          /\ decompress_continue("START_BLOCK")
          /\ UNCHANGED <<groupVars, reference>>
       \/ /\ remaining # 0 /\ group_remaining # 0
          /\ group_bitmask' = NextToken(group_bitmask)
          /\ group_remaining' = group_remaining - 1
          /\ reference' = <<>>
          /\ decompress_continue(IF IsLiteral(group_bitmask)
                                 THEN "LITERAL" ELSE "REFERENCE")
    /\ UNCHANGED <<streamVars, ringVars, remaining, copyVars>>

\* Mistake: the ring wraps a slot too early.
Emit_SmallRing(b) ==
    /\ WriteByte(b)
    /\ history' = [history EXCEPT ![history_pos % (MAX_DISTANCE - 1)] = b]
    /\ history_pos' = history_pos + 1
    /\ remaining' = remaining - 1

\* One byte of output, written to the caller and remembered in the ring.
Emit(b) ==
    /\ WriteByte(b)
    /\ history' = [history EXCEPT ![history_pos % MAX_DISTANCE] = b]
    /\ history_pos' = history_pos + 1
    /\ remaining' = remaining - 1

NoEmit == UNCHANGED <<out, avail_out, ringVars, remaining>>

\* yaz0_stream_copy_byte looks for input first, then for room.
decompress_literal ==
    /\ At("LITERAL")
    /\ \/ /\ HasInput /\ HasRoom
          /\ Read(1)
          /\ Emit(NextByte)
          /\ decompress_continue("TOKEN")
       \/ /\ ~HasInput
          /\ UNCHANGED <<input, total_in, avail_in>> /\ NoEmit
          /\ Starved
       \/ /\ HasInput /\ ~HasRoom
          /\ UNCHANGED <<input, total_in, avail_in>> /\ NoEmit
          /\ decompress_suspend
    /\ UNCHANGED <<groupVars, reference, copyVars>>

\* Mistake: only one of the two limits of a pair is checked.
BadReference_NoReach(distance, length) == length > remaining
BadReference_NoSize(distance, length)  == distance > history_pos

\* A pair that reaches before the output or past its declared size.
BadReference(distance, length) == distance > history_pos \/ length > remaining

decompress_reference ==
    /\ At("REFERENCE")
    /\ \/ /\ ~HasInput
          /\ UNCHANGED <<input, total_in, avail_in, avail_out, reference, copyVars>>
          /\ Starved
       \/ /\ HasInput
          /\ Read(1)
          /\ reference' = Append(reference, NextByte)
          /\ UNCHANGED avail_out
          /\ LET distance == ReferenceDistance(reference')
                 length   == ReferenceLength(reference')
             IN \/ /\ ~ReferenceComplete(reference')
                   /\ decompress_continue("REFERENCE")
                   /\ UNCHANGED copyVars
                \/ /\ ReferenceComplete(reference')
                   /\ BadReference(distance, length)
                   /\ decompress_error("DATA_ERROR")
                   /\ UNCHANGED copyVars
                \/ /\ ReferenceComplete(reference')
                   /\ ~BadReference(distance, length)
                   /\ copy_distance' = distance /\ copy_length' = length
                   /\ decompress_continue("COPY")
    /\ UNCHANGED <<out, ringVars, remaining, groupVars>>

\* Mistake: the longest distance is not reached.
CopySource_ShortReach ==
    history[(history_pos - Least(copy_distance, MAX_DISTANCE - 1)) % MAX_DISTANCE]

CopySource == history[(history_pos - copy_distance) % MAX_DISTANCE]

\* One turn of the copy loop; it may be left for want of room at any byte.
decompress_copy ==
    /\ At("COPY")
    /\ \/ /\ copy_length > 0 /\ HasRoom
          /\ Emit(CopySource)
          /\ copy_length' = copy_length - 1
          /\ decompress_continue("COPY")
          /\ UNCHANGED <<input, total_in, avail_in>>
       \/ /\ copy_length > 0 /\ ~HasRoom
          /\ UNCHANGED <<streamVars, ringVars, remaining, copy_length>>
          /\ decompress_suspend
       \/ /\ copy_length = 0
          /\ UNCHANGED <<streamVars, ringVars, remaining, copy_length>>
          /\ decompress_continue("TOKEN")
    /\ UNCHANGED <<groupVars, reference, copy_distance>>

\* Mistake: a finished stream is taken for one that waits for its caller.
Settled_Waits ==
    /\ UNCHANGED <<streamVars, mode, error, ringVars, remaining, groupVars,
                   reference, copyVars>>
    /\ \/ At("ERROR") /\ Return(error)
       \/ At("DONE")  /\ Suspend

\* A stream that has failed or finished says so again at every call.
Settled ==
    /\ \/ At("ERROR") /\ Return(error)
       \/ At("DONE")  /\ Return("STREAM_END")
    /\ UNCHANGED <<streamVars, mode, error, ringVars, remaining, groupVars,
                   reference, copyVars>>

-----------------------------------------------------------------------------
(* The caller. *)

Call ==
    /\ \E kind \in {"NO_FLUSH", "FINISH"} :
         \E give \in Offers(kind), room \in 0 .. MAX_ROOM : Enter(give, room, kind)
    /\ UNCHANGED <<mode, error, ringVars, remaining, groupVars, reference,
                   copyVars, resets>>

yaz0_decompress ==
    \/ decompress_header
    \/ decompress_start_block
    \/ decompress_token
    \/ decompress_literal
    \/ decompress_reference
    \/ decompress_copy
    \/ Settled

\* Mistake: a stream that has failed cannot be started over.
yaz0_decompress_reset_KeepsError ==
    /\ ~running
    /\ resets < MAX_RESETS /\ resets' = resets + 1
    /\ input' \in Inputs
    /\ total_in' = 0 /\ avail_in' = 0
    /\ out' = <<>> /\ avail_out' = 0
    /\ result' = "OK"
    /\ mode' = IF mode = "ERROR" THEN "ERROR" ELSE "HEADER"
    /\ history_pos' = 0 /\ remaining' = 0
    /\ group_bitmask' = 0 /\ group_remaining' = 0
    /\ reference' = <<>>
    /\ copy_distance' = 0 /\ copy_length' = 0
    /\ UNCHANGED <<error, history, running, flush, before_in, before_out>>

\* decompress_configure, which leaves the ring as it was, and a new input.
yaz0_decompress_reset ==
    /\ ~running
    /\ resets < MAX_RESETS /\ resets' = resets + 1
    /\ input' \in Inputs
    /\ total_in' = 0 /\ avail_in' = 0
    /\ out' = <<>> /\ avail_out' = 0
    /\ result' = "OK"
    /\ mode' = "HEADER" /\ error' = "OK"
    /\ history_pos' = 0 /\ remaining' = 0
    /\ group_bitmask' = 0 /\ group_remaining' = 0
    /\ reference' = <<>>
    /\ copy_distance' = 0 /\ copy_length' = 0
    /\ UNCHANGED <<history, running, flush, before_in, before_out>>

Next == Call \/ yaz0_decompress \/ yaz0_decompress_reset

Spec == Init /\ [][Next]_vars

\* The code's loop does not stop of its own accord.
FairSpec == Spec /\ WF_vars(yaz0_decompress)

-----------------------------------------------------------------------------
(* Properties. *)

\* Every variable has its type; in particular no byte the caller receives
\* comes from a slot of the ring that was never written.
TypeOK ==
    /\ StreamTypeOK
    /\ mode \in Mode /\ error \in Result
    /\ history \in [Slots -> Byte \cup {STALE}] /\ history_pos \in Nat
    /\ remaining \in Nat
    /\ group_bitmask \in Byte /\ group_remaining \in 0 .. TOKENS_PER_BLOCK
    /\ reference \in Seq(Byte) /\ Len(reference) <= 3
    /\ copy_distance \in 0 .. MAX_DISTANCE /\ copy_length \in Nat
    /\ resets \in 0 .. MAX_RESETS

\* The part of the inductive invariant about control: a pair is never read
\* past its last byte, a copy has a source and never outgrows what is owed.
ModeOK ==
    /\ mode = "HEADER" =>
          /\ out = <<>> /\ remaining = 0
          /\ history_pos < HEADER_SIZE
          /\ \A slot \in Slots : slot < history_pos => history[slot] \in Byte
    /\ mode \in {"START_BLOCK", "TOKEN", "LITERAL", "REFERENCE", "COPY"} =>
          history_pos = Len(out)
    /\ mode \in {"LITERAL", "REFERENCE"} => remaining > 0
    /\ mode = "REFERENCE" =>
          /\ Len(reference) < 3
          /\ ~ReferenceComplete(reference)
    /\ mode = "COPY" =>
          /\ copy_distance \in 1 .. Len(out)
          /\ copy_length <= remaining
    /\ mode # "COPY" => copy_length = 0
    /\ mode = "ERROR" => error \notin {"OK", "BUFFER_ERROR", "STREAM_END"}

\* The ring of decompress.c holds the last MAX_DISTANCE bytes of output, each
\* in the slot its position names, whatever the calls and whatever a reset
\* left behind: `history_pos - copy_distance` masked is the right slot even
\* when the copy overlaps itself or reaches back the whole ring.
RingHoldsTail ==
    mode \in {"START_BLOCK", "TOKEN", "LITERAL", "REFERENCE", "COPY"} =>
        \A i \in 1 .. Len(out) :
            i > Len(out) - MAX_DISTANCE =>
                history[(i - 1) % MAX_DISTANCE] = out[i]

\* The ring, the suspended calls and the resets implement a decoder that
\* remembers its whole output.
Abstract == INSTANCE Lz77 WITH
    Symbol <- Byte, MinLength <- MIN_MATCH, Reach <- MAX_DISTANCE,
    size <- Len(out) + remaining, distance <- copy_distance,
    length <- copy_length

DecodesLz77 == Abstract!Spec

\* However the bytes are dealt out over the calls, a stream delivers a prefix
\* of what the whole input decodes to, and when it settles it has delivered
\* exactly that, having consumed the same bytes.  Every call reports how it has
\* settled, and none does that before it has.
ChunkingInvisible ==
    LET expected == RefDecode(input) IN
    /\ out = SubSeq(expected.out, 1, Len(out))
    /\ mode \in {"DONE", "ERROR"} =>
          /\ out = expected.out /\ total_in = expected.used
          /\ expected.code = IF mode = "DONE" THEN "STREAM_END" ELSE error
    /\ ~running => result \in IF mode \in {"DONE", "ERROR"} THEN {expected.code}
                             ELSE {"OK", "BUFFER_ERROR"}

\* yaz0_decompress always comes back to its caller.
CallReturns == running ~> ~running
=============================================================================
