------------------------------- MODULE Stream -------------------------------
(***************************************************************************)
(* struct yaz0_stream: the two buffers a caller lends to a call of         *)
(* yaz0_compress or yaz0_decompress, and the read and write primitives of  *)
(* src/stream.c.                                                           *)
(*                                                                         *)
(* The caller owns `input`, all the bytes it will ever supply; next_in is  *)
(* the suffix of input after total_in, of which the call may see avail_in  *)
(* bytes.  `out` is everything written so far, so total_out = Len(out).    *)
(***************************************************************************)
EXTENDS Yaz0Format

CONSTANTS
    Inputs,     \* the inputs a caller may hold
    MAX_GIVE,   \* bound: input bytes offered by one call without FINISH
    MAX_ROOM    \* bound: output bytes offered by one call

ASSUME StreamAssumption ==
    /\ Inputs \subseteq Seq(Byte)
    /\ MAX_GIVE \in Nat /\ MAX_ROOM \in Nat

VARIABLES
    input,      \* what the caller will supply in all
    total_in,   \* bytes of input consumed
    avail_in,   \* bytes of input the current call may still read
    out,        \* bytes produced, in order
    avail_out,  \* bytes the current call may still write
    running,    \* a call is on the stack
    flush,      \* its flush argument
    before_in,  \* its locals: avail_in and avail_out at entry
    before_out,
    result      \* what the last call returned

streamVars == <<input, total_in, avail_in, out, avail_out>>
callVars   == <<running, flush, before_in, before_out, result>>

Result == {"OK", "STREAM_END", "STREAM_ERROR", "DATA_ERROR", "BUFFER_ERROR",
           "TRUNCATED", "BAD_HEADER", "SIZE_MISMATCH"}

StreamTypeOK ==
    /\ input \in Seq(Byte)
    /\ total_in \in Nat /\ avail_in \in Nat
    /\ total_in + avail_in <= Len(input)
    /\ out \in Seq(Byte) /\ avail_out \in Nat
    /\ running \in BOOLEAN /\ flush \in {"NO_FLUSH", "FINISH"}
    /\ before_in \in Nat /\ before_out \in Nat
    /\ result \in Result

StreamInit ==
    /\ input \in Inputs
    /\ total_in = 0 /\ avail_in = 0
    /\ out = <<>> /\ avail_out = 0
    /\ running = FALSE /\ flush = "NO_FLUSH"
    /\ before_in = 0 /\ before_out = 0
    /\ result = "OK"

-----------------------------------------------------------------------------
(* The primitives. *)

Left     == Len(input) - total_in
NextByte == input[total_in + 1]

\* How much of what a handler wants to read or write a call can satisfy.
Readable(n) == Least(n, avail_in)
HasInput == avail_in > 0

\* Mistake: the last byte of room is never used.
Writable_KeepsOne(n) == Least(n, IF avail_out = 0 THEN 0 ELSE avail_out - 1)
HasRoom_KeepsOne     == avail_out > 1

Writable(n) == Least(n, avail_out)
HasRoom     == avail_out > 0

\* yaz0_stream_read: the n bytes leave the input buffer.
Read(n) ==
    /\ total_in' = total_in + n
    /\ avail_in' = avail_in - n
    /\ UNCHANGED input

\* yaz0_stream_write_byte, after its check that there is room.
WriteByte(b) ==
    /\ out' = Append(out, b)
    /\ avail_out' = avail_out - 1

\* yaz0_stream_write of bytes clipped to what is Writable.
Write(bytes) ==
    /\ out' = out \o bytes
    /\ avail_out' = avail_out - Len(bytes)

-----------------------------------------------------------------------------
(* A call: entry, and the ways out of its loop. *)

\* FINISH promises that the call is offered everything that is left.
Enter(give, room, mode) ==
    /\ ~running
    /\ running' = TRUE /\ flush' = mode /\ result' = "OK"
    /\ avail_in' = give /\ before_in' = give
    /\ avail_out' = room /\ before_out' = room
    /\ UNCHANGED <<input, total_in, out>>

Offers(mode) ==
    IF mode = "FINISH" THEN {Left} ELSE 0 .. Least(MAX_GIVE, Left)

\* The locals of the call die with it.
Return(code) ==
    /\ running' = FALSE /\ result' = code
    /\ flush' = "NO_FLUSH" /\ before_in' = 0 /\ before_out' = 0

\* A call that moved no byte reports that it stalled.
Suspend ==
    Return(IF avail_in' = before_in /\ avail_out' = before_out
           THEN "BUFFER_ERROR" ELSE "OK")

-----------------------------------------------------------------------------

\* yaz0.h: a call that suspends is resumed by refilling "whichever buffer ran
\* out", so a call that returns without having finished has used up one.
SuspendedMeansExhausted ==
    ~running /\ result \in {"OK", "BUFFER_ERROR"} =>
        avail_in = 0 \/ avail_out = 0
=============================================================================
