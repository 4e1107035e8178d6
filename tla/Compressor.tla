----------------------------- MODULE Compressor -----------------------------
(***************************************************************************)
(* The compression stream of src/compress.c with the standard matcher of   *)
(* src/matcher_std.c.                                                      *)
(*                                                                         *)
(* Input is gathered in a sliding window of WINDOW_SIZE bytes; as long as  *)
(* more may follow, no token is chosen with less than MAX_MATCH + 1 bytes  *)
(* of lookahead.  Tokens are packed behind a code byte in `block`, which   *)
(* is written out when it holds TOKENS_PER_BLOCK of them.  The matcher is  *)
(* lazy: a match may be put off for a literal and a longer match one byte  *)
(* later, which it then remembers in `deferred`.                           *)
(***************************************************************************)
EXTENDS Stream, ReferenceDecoder, ReferenceEncoder

CONSTANTS
    LEVELS,        \* compression levels a caller asks for
    SLACK,         \* by how much the declared size may miss the real one
    EARLY_FINISH,  \* whether the caller may say FINISH before its last byte
    MAX_RESETS,    \* bound: how often the caller starts the stream over
    STALE          \* a byte of the window that was never written

\* Mistake: a window a byte short.
WINDOW_SIZE_Short == 2 * MAX_DISTANCE + MAX_MATCH - 1

WINDOW_SIZE == 2 * MAX_DISTANCE + MAX_MATCH

ASSUME CompressorAssumption ==
    /\ LEVELS \subseteq -1 .. 9
    /\ SLACK \subseteq Int
    /\ EARLY_FINISH \in BOOLEAN
    /\ MAX_RESETS \in Nat
    /\ STALE \notin Byte

VARIABLES
    mode, error,
    uncompressed_size,      \* as declared at init
    max_distance,           \* how far the matcher looks back, less one
    received,               \* bytes of input taken into the window
    window, window_pos, window_size,
    match,                  \* the token about to be emitted
    deferred,               \* the matcher holds a token for the next call ...
    deferred_match,         \* ... this one
    block,                  \* code byte and tokens so far (block_pos = Len)
    block_out,              \* bytes of the block already written
    block_tokens,
    resets                  \* resets so far (only to bound them)

configVars  == <<uncompressed_size, max_distance>>
windowVars  == <<received, window, window_pos, window_size>>
matcherVars == <<deferred, deferred_match>>
blockVars   == <<block, block_out, block_tokens>>
vars == <<streamVars, callVars, mode, error, configVars, windowVars, match,
          matcherVars, blockVars, resets>>

Mode == {"HEADER", "FILL", "FIND_MATCH", "EMIT", "WRITE_BLOCK", "FLUSH",
         "ERROR", "DONE"}

-----------------------------------------------------------------------------
(* Configuration. *)

compress_effective_level(level) == IF level = -1 THEN 9 ELSE level

\* Mistake: the biased distance is scaled without its bias.
compress_search_distance_Unbiased(level) ==
    IF level = 0 THEN 0 ELSE (MAX_DISTANCE * (level + 1)) \div 10

compress_search_distance(level) ==
    IF level = 0 THEN 0 ELSE ((MAX_DISTANCE - 1) * (level + 1)) \div 10

SearchDistances ==
    {compress_search_distance(compress_effective_level(level)) : level \in LEVELS}

\* The sizes a caller may declare for an input: any uint32_t near its length.
DeclaredSizes(bytes) ==
    {size \in 0 .. Radix * Radix - 1 : size - Len(bytes) \in SLACK}

\* Mistake: a last, partial group is not counted.
yaz0_compress_bound_FullGroups(size) == HEADER_SIZE + size + size \div TOKENS_PER_BLOCK

yaz0_compress_bound(size) ==
    HEADER_SIZE + size + (size + TOKENS_PER_BLOCK - 1) \div TOKENS_PER_BLOCK

Init ==
    /\ StreamInit
    /\ mode = "HEADER" /\ error = "OK"
    /\ uncompressed_size \in DeclaredSizes(input)
    /\ max_distance \in SearchDistances
    /\ received = 0
    /\ window = [i \in 0 .. WINDOW_SIZE - 1 |-> STALE]
    /\ window_pos = 0 /\ window_size = 0
    /\ match = NoToken
    /\ deferred = FALSE /\ deferred_match = NoToken
    /\ block = <<0>> /\ block_out = 0 /\ block_tokens = 0
    /\ resets = 0

-----------------------------------------------------------------------------
(* How a handler ends. *)

compress_continue(next) ==
    /\ mode' = next
    /\ UNCHANGED <<callVars, error>>

\* Mistake: the handler gives up but the loop goes on.
compress_suspend_Spins == UNCHANGED <<callVars, mode, error>>

compress_suspend == Suspend /\ UNCHANGED <<mode, error>>

compress_error(code) ==
    /\ mode' = "ERROR" /\ error' = code
    /\ Return(code)

-----------------------------------------------------------------------------
(* The matcher. *)

\* Mistake: a match may run past the input received.
Lookahead_Unclipped(at) == MAX_MATCH

Lookahead(at) == Least(window_size - at, MAX_MATCH)

StartPos(at) == IF at > max_distance THEN at - (max_distance + 1) ELSE 0

\* The longest distance it looks back.
Reach == IF max_distance = 0 THEN 0 ELSE max_distance + 1

Searches(at) == max_distance # 0 /\ Lookahead(at) >= MIN_MATCH

\* Mistake: the first byte is not compared.
IsMatch_SkipsFirst(from, at, length) ==
    \A k \in 1 .. length - 1 : window[from + k] = window[at + k]

IsMatch(from, at, length) ==
    \A k \in 0 .. length - 1 : window[from + k] = window[at + k]

\* search.c: the longest match that starts in the searched stretch and is
\* worth a pair, and of those the earliest.
Search(at, token) ==
    LET froms == StartPos(at) .. at - 1 IN
    \/ /\ token = Literal
       /\ \A from \in froms : ~IsMatch(from, at, MIN_MATCH)
    \/ /\ token.length \in MIN_MATCH .. Lookahead(at)
       /\ at - token.distance \in froms
       /\ IsMatch(at - token.distance, at, token.length)
       /\ \A from \in froms :
             /\ IsMatch(from, at, token.length) => from >= at - token.distance
             /\ token.length < Lookahead(at) => ~IsMatch(from, at, token.length + 1)

Finds(at, token) ==
    IF Searches(at) THEN Search(at, token) ELSE token = Literal

\* A token held back comes out first.  Otherwise a match is put off when the
\* one a byte later is longer by two.
find_match ==
    \/ /\ deferred
       /\ match' = deferred_match
       /\ deferred' = FALSE /\ UNCHANGED deferred_match
    \/ /\ ~deferred
       /\ \E now \in Token :
            /\ Finds(window_pos, now)
            /\ \E next \in Token :
                 /\ IF now.length >= MIN_MATCH
                    THEN Finds(window_pos + 1, next) ELSE next = Literal
                 /\ \/ /\ next.length >= now.length + 2
                       /\ match' = [length |-> 1, distance |-> next.distance]
                       /\ deferred' = TRUE /\ deferred_match' = next
                    \/ /\ next.length < now.length + 2
                       /\ match' = now
                       /\ UNCHANGED matcherVars

-----------------------------------------------------------------------------
(* The handlers. *)

\* The loop of a running call dispatches on the mode.
At(m) == running /\ mode = m /\ UNCHANGED resets

\* The header is written from wherever window_pos says it was left.
compress_header ==
    /\ At("HEADER")
    /\ UNCHANGED <<input, total_in, avail_in, configVars, received, window, match,
                   matcherVars, blockVars>>
    /\ LET header == yaz0_write_header(uncompressed_size)
           have   == Writable(HEADER_SIZE - window_pos)
       IN /\ Write(SubSeq(header, window_pos + 1, window_pos + have))
          /\ \/ /\ window_pos + have < HEADER_SIZE
                /\ window_pos' = window_pos + have
                /\ UNCHANGED window_size
                /\ compress_suspend
             \/ /\ window_pos + have = HEADER_SIZE
                /\ window_pos' = 0 /\ window_size' = 0
                /\ compress_continue("FILL")

\* Mistake: the window slides while its oldest bytes are still in reach.
Drop_TooSoon == IF window_pos < MAX_DISTANCE THEN 0 ELSE MAX_DISTANCE

\* compress_slide_window: how many of its oldest bytes the window gives up, once
\* the position has left two stretches of MAX_DISTANCE behind.
Drop == IF window_pos < 2 * MAX_DISTANCE THEN 0 ELSE MAX_DISTANCE

\* Mistake: what is kept stays where it is.
Filled_Unmoved(drop, bytes) ==
    LET kept == window_size - drop IN
    [i \in 0 .. WINDOW_SIZE - 1 |->
        IF i >= kept /\ i < kept + bytes THEN input[total_in + 1 + i - kept]
        ELSE window[i]]

\* What is kept moves to the front, and the next input follows it.
Filled(drop, bytes) ==
    LET kept == window_size - drop IN
    [i \in 0 .. WINDOW_SIZE - 1 |->
        IF i < kept THEN window[i + drop]
        ELSE IF i < kept + bytes THEN input[total_in + 1 + i - kept]
        ELSE window[i]]

\* Mistakes: an empty lookahead will do; the look one byte on is forgotten.
MinLookahead_Empty  == IF flush = "FINISH" THEN 0 ELSE MAX_MATCH + 1
MinLookahead_NoLazy == IF flush = "FINISH" THEN 1 ELSE MAX_MATCH

\* As long as more may come, room for a longest match and a look one byte on.
MinLookahead == IF flush = "FINISH" THEN 1 ELSE MAX_MATCH + 1

\* Mistake: the size is left to be checked in the end.
TooMuch_InTheEnd(bytes) == FALSE

\* More than the caller has declared.
TooMuch(bytes) == bytes > uncompressed_size

compress_fill ==
    /\ At("FILL")
    /\ UNCHANGED <<out, avail_out, configVars, match, matcherVars, blockVars>>
    /\ LET bytes == Readable(WINDOW_SIZE - (window_size - Drop))
           lookahead == window_size' - window_pos'
       IN /\ Read(bytes)
          /\ received' = received + bytes
          /\ window_pos' = window_pos - Drop
          /\ window_size' = window_size - Drop + bytes
          /\ window' = Filled(Drop, bytes)
          /\ \/ /\ TooMuch(received')
                /\ compress_error("SIZE_MISMATCH")
             \/ /\ ~TooMuch(received')
                /\ lookahead >= MinLookahead
                /\ compress_continue("FIND_MATCH")
             \/ /\ ~TooMuch(received')
                /\ lookahead < MinLookahead
                /\ IF flush = "FINISH" THEN compress_continue("FLUSH")
                                       ELSE compress_suspend

compress_find_match ==
    /\ At("FIND_MATCH")
    /\ find_match
    /\ compress_continue("EMIT")
    /\ UNCHANGED <<streamVars, configVars, windowVars, blockVars>>

compress_emit ==
    /\ At("EMIT")
    /\ UNCHANGED <<streamVars, configVars, received, window, window_size, match,
                   matcherVars, block_out>>
    /\ LET l == match.length
           consumed == IF l < MIN_MATCH THEN 1 ELSE l
       IN \/ /\ consumed > window_size - window_pos
             /\ compress_error("STREAM_ERROR")
             /\ UNCHANGED <<window_pos, block, block_tokens>>
          \/ /\ consumed <= window_size - window_pos
             /\ block' =
                  IF l < MIN_MATCH
                  THEN Append([block EXCEPT ![1] = (@ + CodeBit(block_tokens)) % Radix],
                              window[window_pos])
                  ELSE block \o EncodeReference(l, match.distance)
             /\ block_tokens' = block_tokens + 1
             /\ window_pos' = window_pos + consumed
             /\ compress_continue(IF block_tokens' = TOKENS_PER_BLOCK
                                  THEN "WRITE_BLOCK" ELSE "FILL")

\* What is left of the block goes out as far as there is room for it.
WriteBlock(have) ==
    /\ Write(SubSeq(block, block_out + 1, block_out + have))
    /\ UNCHANGED <<input, total_in, avail_in, configVars, windowVars, match,
                   matcherVars>>

compress_write_block ==
    /\ At("WRITE_BLOCK")
    /\ LET have == Writable(Len(block) - block_out) IN
       /\ WriteBlock(have)
       /\ \/ /\ block_out + have # Len(block)
             /\ block_out' = block_out + have
             /\ UNCHANGED <<block, block_tokens>>
             /\ compress_suspend
          \/ /\ block_out + have = Len(block)
             /\ block' = <<0>> /\ block_out' = 0 /\ block_tokens' = 0
             /\ compress_continue("FILL")

\* Mistake: a caller may supply less than it declared.
Complete_AtMost == received <= uncompressed_size

\* The caller has supplied the size it declared.
Complete == received = uncompressed_size

compress_flush ==
    /\ At("FLUSH")
    /\ \/ /\ ~Complete
          /\ compress_error("SIZE_MISMATCH")
          /\ UNCHANGED <<streamVars, configVars, windowVars, match, matcherVars,
                         blockVars>>
       \/ /\ Complete /\ block_tokens = 0
          /\ compress_continue("DONE")
          /\ UNCHANGED <<streamVars, configVars, windowVars, match, matcherVars,
                         blockVars>>
       \/ /\ Complete /\ block_tokens # 0
          /\ LET have == Writable(Len(block) - block_out) IN
             /\ WriteBlock(have)
             /\ block_out' = block_out + have
             /\ UNCHANGED <<block, block_tokens>>
             /\ IF block_out' = Len(block) THEN compress_continue("DONE")
                                           ELSE compress_suspend

\* Mistake: a finished stream is taken for one that waits for its caller.
Settled_Waits ==
    /\ UNCHANGED <<streamVars, mode, error, configVars, windowVars, match,
                   matcherVars, blockVars>>
    /\ \/ At("ERROR") /\ Return(error)
       \/ At("DONE")  /\ Suspend

\* A stream that has failed or finished says so again at every call.
Settled ==
    /\ \/ At("ERROR") /\ Return(error)
       \/ At("DONE")  /\ Return("STREAM_END")
    /\ UNCHANGED <<streamVars, mode, error, configVars, windowVars, match,
                   matcherVars, blockVars>>

-----------------------------------------------------------------------------
(* The caller. *)

Call ==
    /\ \E kind \in {"NO_FLUSH", "FINISH"} :
         \E give \in Offers(kind) \cup (IF EARLY_FINISH THEN Offers("NO_FLUSH") ELSE {}),
            room \in 0 .. MAX_ROOM : Enter(give, room, kind)
    /\ UNCHANGED <<mode, error, configVars, windowVars, match, matcherVars,
                   blockVars, resets>>

yaz0_compress ==
    \/ compress_header
    \/ compress_fill
    \/ compress_find_match
    \/ compress_emit
    \/ compress_write_block
    \/ compress_flush
    \/ Settled

\* compress_configure, which leaves the window as it was, and a new input.
yaz0_compress_reset ==
    /\ ~running
    /\ resets < MAX_RESETS /\ resets' = resets + 1
    /\ input' \in Inputs
    /\ total_in' = 0 /\ avail_in' = 0
    /\ out' = <<>> /\ avail_out' = 0
    /\ result' = "OK"
    /\ mode' = "HEADER" /\ error' = "OK"
    /\ uncompressed_size' \in DeclaredSizes(input')
    /\ max_distance' \in SearchDistances
    /\ received' = 0 /\ window_pos' = 0 /\ window_size' = 0
    /\ match' = NoToken
    /\ deferred' = FALSE /\ deferred_match' = NoToken
    /\ block' = <<0>> /\ block_out' = 0 /\ block_tokens' = 0
    /\ UNCHANGED <<window, running, flush, before_in, before_out>>

Next == Call \/ yaz0_compress \/ yaz0_compress_reset

Spec == Init /\ [][Next]_vars

FairSpec == Spec /\ WF_vars(yaz0_compress)

-----------------------------------------------------------------------------
(* Properties. *)

\* Every variable has its type.
TypeOK ==
    /\ StreamTypeOK
    /\ mode \in Mode /\ error \in Result
    /\ uncompressed_size \in Nat /\ max_distance \in 0 .. MAX_DISTANCE - 1
    /\ received \in Nat
    /\ window \in [0 .. WINDOW_SIZE - 1 -> Byte \cup {STALE}]
    /\ window_pos \in 0 .. WINDOW_SIZE /\ window_size \in 0 .. WINDOW_SIZE
    /\ match \in Token \cup {NoToken}
    /\ deferred \in BOOLEAN /\ deferred_match \in Token \cup {NoToken}
    /\ block \in Seq(Byte) /\ block_out \in 0 .. Len(block)
    /\ block_tokens \in 0 .. TOKENS_PER_BLOCK
    /\ resets \in 0 .. MAX_RESETS

Encoding == mode \in {"FILL", "FIND_MATCH", "EMIT", "WRITE_BLOCK", "FLUSH", "DONE"}

\* The part of the inductive invariant about control: a block is neither
\* overfull nor half written when a token is added to it, the matcher holds a
\* token back only behind a literal, and the only way to fail is to declare a
\* wrong size (so the STREAM_ERROR of compress_emit never happens).
ModeOK ==
    /\ mode = "HEADER" =>
          /\ Len(out) = window_pos /\ window_pos < HEADER_SIZE
          /\ received = 0 /\ total_in = 0 /\ ~deferred
          /\ block_tokens = 0 /\ block_out = 0 /\ Len(block) = 1
    /\ Encoding => received <= uncompressed_size /\ Len(block) > block_tokens
    /\ mode \in {"FILL", "FIND_MATCH", "EMIT"} =>
          block_tokens < TOKENS_PER_BLOCK /\ block_out = 0
    /\ mode = "FIND_MATCH" => window_pos < window_size
    /\ mode = "EMIT" => match \in Token /\ (deferred => match.length = 1)
    /\ mode = "WRITE_BLOCK" => block_tokens = TOKENS_PER_BLOCK
    /\ deferred => deferred_match \in Token
    /\ mode = "ERROR" => error = "SIZE_MISMATCH"

\* How much of the input the tokens so far stand for.
Consumed == received - (window_size - window_pos)

\* The window holds the input from the oldest byte a match may reach to the
\* last byte received, however it was filled and however often it has slid.
WindowHoldsInput ==
    Encoding =>
        /\ received = total_in /\ window_pos <= window_size
        /\ window_size <= received
        /\ \A i \in 0 .. window_size - 1 :
              window[i] = input[received - window_size + i + 1]

\* A token stands for the next bytes of the input: the pair repeats, from
\* inside the input already encoded, exactly the bytes it replaces.
CopiesInput(token, from) ==
    /\ from + token.length <= received
    /\ token.length >= MIN_MATCH =>
          /\ token.distance \in 1 .. Least(MAX_DISTANCE, from)
          /\ \A k \in 1 .. token.length :
                input[from + k] = input[from + k - token.distance]

\* compress.c asserts this of a token as it comes out of the matcher.  It must
\* hold of the token the matcher holds back, too: the window may slide, and
\* any number of calls may pass, before that one is used.
MatchCopiesInput ==
    /\ mode = "EMIT" => CopiesInput(match, Consumed)
    /\ Encoding /\ deferred =>
          CopiesInput(deferred_match, Consumed + IF mode = "EMIT" THEN 1 ELSE 0)

\* The output never outgrows yaz0_compress_bound of the declared size, at any
\* point and whatever becomes of the stream: a caller that allocates that
\* much never runs out of room.  (A block is counted before it is written.)
WithinBound ==
    /\ Len(out) <= yaz0_compress_bound(uncompressed_size)
    /\ Encoding /\ mode # "DONE" /\ block_tokens > 0 =>
          Len(out) - block_out + Len(block) <= yaz0_compress_bound(uncompressed_size)

\* The count of bytes received stays within a window of the declared size,
\* even if the caller supplies far more: it cannot wrap where size_t holds
\* that much, and compress_fill does not mistake a long input for a short one.
ReceivedInReach == received <= uncompressed_size + WINDOW_SIZE

\* Whatever the caller does, a stream that ends well decodes to what was read.
RoundTrips ==
    mode = "DONE" =>
        /\ uncompressed_size <= Len(input)
        /\ RefDecode(out) = Verdict(SubSeq(input, 1, uncompressed_size), Len(out),
                                    "STREAM_END")

\* However the bytes are dealt out over the calls, a caller that keeps the
\* contract of FINISH has received, whenever a call returns, a prefix of what
\* the reference encoder makes of the whole input, and in the end all of it;
\* it is told of an error exactly when it has declared a wrong size.  Every call
\* tells it so: the end and the error again and again, and before them neither.
ChunkingInvisible ==
    ~running =>
    LET all == yaz0_write_header(uncompressed_size) \o RefEncode(input, Reach)
    IN /\ Len(out) <= Len(all) /\ out = SubSeq(all, 1, Len(out))
       /\ mode = "DONE" => out = all /\ uncompressed_size = Len(input)
       /\ mode = "ERROR" => error = "SIZE_MISMATCH"
                            /\ uncompressed_size # Len(input)
       /\ result \in CASE mode = "DONE"  -> {"STREAM_END"}
                       [] mode = "ERROR" -> {"SIZE_MISMATCH"}
                       [] OTHER          -> {"OK", "BUFFER_ERROR"}

\* yaz0_compress always comes back to its caller.
CallReturns == running ~> ~running
=============================================================================
