-------------------------- MODULE CompressorProofs --------------------------
(***************************************************************************)
(* The theorems about Compressor: its type invariant, that the window      *)
(* holds the input it stands for, that every token repeats the input it    *)
(* replaces, and that a call never stalls while it could move a byte.      *)
(* They rest on one inductive invariant, TypeOK /\ ModeOK /\               *)
(* WindowHoldsInput /\ MatchCopiesInput.                                   *)
(***************************************************************************)
EXTENDS Compressor, Yaz0FormatProofs

\* Abbreviations of the model.
USE DEF Readable, Writable, Drop, Filled, MinLookahead, Complete

LEMMA SizeFacts ==
    /\ MAX_DISTANCE \in Nat /\ MAX_MATCH \in Nat
    /\ 3 <= MAX_MATCH /\ MAX_MATCH < MAX_DISTANCE
    /\ WINDOW_SIZE = 2 * MAX_DISTANCE + MAX_MATCH /\ WINDOW_SIZE \in Nat
    /\ TOKENS_PER_BLOCK \in Nat \ {0}
  BY FormatAssumption DEF WINDOW_SIZE, MIN_MATCH

\* A stretch of a sequence, as SubSeq takes it.
LEMMA Stretch ==
    ASSUME NEW s \in Seq(Byte), NEW m \in Nat, NEW n \in Nat, m + n <= Len(s)
    PROVE  /\ SubSeq(s, m + 1, m + n) \in Seq(Byte)
           /\ Len(SubSeq(s, m + 1, m + n)) = n
  OBVIOUS

\* Every level looks back less than MAX_DISTANCE.
LEMMA SearchDistanceInReach ==
    ASSUME NEW d \in SearchDistances
    PROVE  d \in 0 .. MAX_DISTANCE - 1
  <1> DEFINE top == MAX_DISTANCE - 1
  <1>1. PICK level \in 0 .. 9 : d = compress_search_distance(level)
    BY CompressorAssumption DEF SearchDistances, compress_effective_level
  <1>2. top \in Nat
    BY SizeFacts
  <1> HIDE DEF top
  <1>3. top * (level + 1) \in Nat /\ top * (level + 1) <= top * 10
    BY <1>1, <1>2
  <1>4. (top * (level + 1)) \div 10 \in 0 .. top
    BY <1>2, <1>3
  <1> QED BY <1>1, <1>2, <1>4 DEF compress_search_distance, top

-----------------------------------------------------------------------------
(* TypeOK in parts. *)

BufferType ==
    /\ input \in Seq(Byte)
    /\ total_in \in Nat /\ avail_in \in Nat
    /\ total_in + avail_in <= Len(input)
    /\ out \in Seq(Byte) /\ avail_out \in Nat

ControlType ==
    /\ running \in BOOLEAN /\ flush \in {"NO_FLUSH", "FINISH"}
    /\ before_in \in Nat /\ before_out \in Nat
    /\ result \in Result
    /\ mode \in Mode /\ error \in Result

WindowType ==
    /\ uncompressed_size \in Nat /\ max_distance \in 0 .. MAX_DISTANCE - 1
    /\ received \in Nat
    /\ window \in [0 .. WINDOW_SIZE - 1 -> Byte \cup {STALE}]
    /\ window_pos \in 0 .. WINDOW_SIZE /\ window_size \in 0 .. WINDOW_SIZE
    /\ resets \in 0 .. MAX_RESETS

TokenType ==
    /\ match \in Token \cup {NoToken}
    /\ deferred \in BOOLEAN /\ deferred_match \in Token \cup {NoToken}

BlockType ==
    /\ block \in Seq(Byte) /\ block_out \in 0 .. Len(block)
    /\ block_tokens \in 0 .. TOKENS_PER_BLOCK

\* The type invariant in parts that a handler disturbs one by one.
LEMMA TypeParts ==
    TypeOK <=> BufferType /\ ControlType /\ WindowType /\ TokenType /\ BlockType
  BY DEF TypeOK, StreamTypeOK, BufferType, ControlType, WindowType, TokenType,
         BlockType

IInv == TypeOK /\ ModeOK /\ WindowHoldsInput /\ MatchCopiesInput

\* Reading no more than there is leaves the buffers well formed.
LEMMA ReadBuffers ==
    ASSUME BufferType, NEW n \in Nat, n <= avail_in, Read(n), UNCHANGED <<out, avail_out>>
    PROVE  BufferType'
  <1>1. /\ input' = input /\ out' = out /\ avail_out' = avail_out
        /\ total_in' = total_in + n /\ avail_in' = avail_in - n
    BY DEF Read
  <1>2. /\ total_in \in Nat /\ avail_in \in Nat /\ Len(input) \in Nat
        /\ total_in + avail_in <= Len(input)
    BY DEF BufferType
  <1>3. /\ total_in' \in Nat /\ avail_in' \in Nat
        /\ total_in' + avail_in' <= Len(input')
    BY <1>1, <1>2
  <1> QED BY <1>1, <1>3 DEF BufferType

\* ... and the inductive invariant put together from its parts.
LEMMA Whole ==
    ASSUME BufferType', ControlType', WindowType', TokenType', BlockType',
           ModeOK', WindowHoldsInput', MatchCopiesInput'
    PROVE  IInv'
  BY DEF IInv, TypeOK, StreamTypeOK, BufferType, ControlType, WindowType, TokenType,
         BlockType

\* However a handler ends, control stays well typed.
LEMMA ContinueControl ==
    ASSUME ControlType, NEW next \in Mode, compress_continue(next)
    PROVE  ControlType' /\ mode' = next
  BY DEF ControlType, compress_continue, callVars

LEMMA ErrorControl ==
    ASSUME ControlType, NEW code \in Result, compress_error(code)
    PROVE  ControlType' /\ mode' = "ERROR" /\ error' = code
  BY DEF ControlType, compress_error, Return, Mode

LEMMA SuspendControl ==
    ASSUME ControlType, compress_suspend
    PROVE  ControlType' /\ mode' = mode /\ error' = error
  BY DEF ControlType, compress_suspend, Suspend, Return, Result

-----------------------------------------------------------------------------
(* The caller. *)

LEMMA CallStep ==
    ASSUME IInv, Call
    PROVE  IInv'
  <1> USE DEF Call, Enter
  <1>1. BufferType'
    BY StreamAssumption, TypeParts DEF IInv, BufferType, Offers, Left, Least
  <1>2. ControlType'
    BY StreamAssumption, TypeParts
       DEF IInv, BufferType, ControlType, Offers, Left, Least, Result
  <1>3. WindowType' /\ TokenType' /\ BlockType'
    BY TypeParts DEF IInv, WindowType, TokenType, BlockType, configVars, windowVars,
       matcherVars, blockVars
  <1>4. ModeOK' /\ WindowHoldsInput' /\ MatchCopiesInput'
    BY DEF IInv, ModeOK, WindowHoldsInput, MatchCopiesInput, CopiesInput, Encoding,
       Consumed, configVars, windowVars, matcherVars, blockVars
  <1> QED BY <1>1, <1>2, <1>3, <1>4, Whole

LEMMA ResetStep ==
    ASSUME IInv, yaz0_compress_reset
    PROVE  IInv'
  <1> USE DEF yaz0_compress_reset
  <1>1. BufferType'
    BY StreamAssumption DEF BufferType
  <1>2. ControlType'
    BY TypeParts DEF IInv, ControlType, Mode, Result
  <1>3. WindowType'
    <2>1. uncompressed_size' \in Nat
      BY RadixFacts DEF DeclaredSizes
    <2>2. max_distance' \in 0 .. MAX_DISTANCE - 1
      BY SearchDistanceInReach
    <2> QED BY <2>1, <2>2, TypeParts, SizeFacts, CompressorAssumption
            DEF IInv, WindowType
  <1>4. TokenType' /\ ~deferred'
    BY DEF TokenType
  <1>5. BlockType' /\ Len(block') = 1
    BY RadixFacts, SizeFacts DEF BlockType, Byte
  <1>6. ModeOK' /\ WindowHoldsInput' /\ MatchCopiesInput'
    BY <1>4, <1>5 DEF ModeOK, Encoding, WindowHoldsInput, MatchCopiesInput, HEADER_SIZE
  <1> QED BY <1>1, <1>2, <1>3, <1>4, <1>5, <1>6, Whole

-----------------------------------------------------------------------------
(* Handlers that write: the header and the block. *)

LEMMA WriteBuffers ==
    ASSUME BufferType, NEW bytes \in Seq(Byte), Len(bytes) <= avail_out,
           Write(bytes), UNCHANGED <<input, total_in, avail_in>>
    PROVE  BufferType' /\ Len(out') = Len(out) + Len(bytes)
  BY DEF BufferType, Write

LEMMA HeaderBytes ==
    ASSUME NEW size \in Nat
    PROVE  yaz0_write_header(size) \in Seq(Byte)
           /\ Len(yaz0_write_header(size)) = HEADER_SIZE
  <1>1. size \div Radix \in Nat /\ size % Radix \in Byte /\ MAGIC \in Byte
    <2>1. size \div Radix \in Nat /\ size % Radix \in 0 .. Radix - 1
      BY RadixFacts, DivMod
    <2> QED BY <2>1, RadixFacts DEF Byte, MAGIC
  <1>2. (size \div Radix) % Radix \in Byte
    BY <1>1, RadixFacts, DivMod DEF Byte
  <1> QED BY <1>1, <1>2 DEF yaz0_write_header, write_be32, HEADER_SIZE

LEMMA HeaderStep ==
    ASSUME IInv, compress_header
    PROVE  IInv'
  <1> DEFINE header == yaz0_write_header(uncompressed_size)
             have   == Least(HEADER_SIZE - window_pos, avail_out)
  <1>1. BufferType /\ ControlType /\ WindowType /\ TokenType /\ BlockType /\ ModeOK
        /\ mode = "HEADER"
    BY TypeParts DEF IInv, compress_header, At
  <1>2. Len(out) = window_pos /\ window_pos \in 0 .. HEADER_SIZE - 1
        /\ received = 0 /\ total_in = 0 /\ ~deferred
        /\ block_tokens = 0 /\ block_out = 0 /\ Len(block) = 1
    BY <1>1 DEF ModeOK, WindowType, HEADER_SIZE
  <1>3. have \in 0 .. HEADER_SIZE - window_pos /\ have <= avail_out
    BY <1>1, <1>2 DEF BufferType, Least, HEADER_SIZE
  <1>4. /\ UNCHANGED <<input, total_in, avail_in, configVars, received, window, match,
                       matcherVars, blockVars, resets>>
        /\ Write(SubSeq(header, window_pos + 1, window_pos + have))
        /\ \/ window_pos + have < HEADER_SIZE /\ window_pos' = window_pos + have
              /\ UNCHANGED window_size /\ compress_suspend
           \/ window_pos' = 0 /\ window_size' = 0 /\ compress_continue("FILL")
    BY DEF compress_header, At
  <1>5. header \in Seq(Byte) /\ Len(header) = HEADER_SIZE
    BY <1>1, HeaderBytes DEF WindowType
  <1> HIDE DEF have, header
  <1>6. SubSeq(header, window_pos + 1, window_pos + have) \in Seq(Byte)
        /\ Len(SubSeq(header, window_pos + 1, window_pos + have)) = have
    <2>1. window_pos \in Nat /\ have \in Nat /\ window_pos + have <= Len(header)
      BY <1>2, <1>3, <1>5 DEF HEADER_SIZE
    <2> QED BY <1>5, <2>1, Stretch
  <1>7. BufferType' /\ Len(out') = Len(out) + have
    BY <1>1, <1>3, <1>4, <1>6, WriteBuffers
  <1>8. TokenType' /\ BlockType' /\ received' = 0 /\ total_in' = 0 /\ ~deferred'
        /\ block_tokens' = 0 /\ block_out' = 0 /\ Len(block') = 1
    BY <1>1, <1>2, <1>4 DEF TokenType, BlockType, matcherVars, blockVars
  <1>9. CASE window_pos + have < HEADER_SIZE /\ window_pos' = window_pos + have
             /\ UNCHANGED window_size /\ compress_suspend
    <2>1. ControlType' /\ mode' = "HEADER" /\ error' = error
      BY <1>1, <1>9, SuspendControl
    <2>2. window_pos' \in 0 .. WINDOW_SIZE /\ window_pos' < HEADER_SIZE
      BY <1>2, <1>3, <1>9, SizeFacts DEF HEADER_SIZE
    <2>3. WindowType'
      BY <1>1, <1>4, <1>9, <2>2 DEF WindowType, configVars
    <2>4. ModeOK' /\ WindowHoldsInput' /\ MatchCopiesInput'
      BY <1>2, <1>7, <1>8, <1>9, <2>1, <2>2
         DEF ModeOK, Encoding, WindowHoldsInput, MatchCopiesInput
    <2> QED BY <1>7, <1>8, <2>1, <2>3, <2>4, Whole
  <1>10. CASE window_pos' = 0 /\ window_size' = 0 /\ compress_continue("FILL")
    <2>1. ControlType' /\ mode' = "FILL"
      BY <1>1, <1>10, ContinueControl DEF Mode
    <2>2. WindowType'
      BY <1>1, <1>4, <1>10, SizeFacts DEF WindowType, configVars
    <2>3. uncompressed_size' \in Nat /\ TOKENS_PER_BLOCK \in Nat \ {0}
      BY <2>2, SizeFacts DEF WindowType
    <2>4. ModeOK' /\ WindowHoldsInput' /\ MatchCopiesInput'
      BY <1>8, <1>10, <2>1, <2>3 DEF ModeOK, Encoding, WindowHoldsInput, MatchCopiesInput
    <2> QED BY <1>7, <1>8, <2>1, <2>2, <2>4, Whole
  <1> QED BY <1>4, <1>9, <1>10

\* Writing out of the block disturbs neither the window nor the tokens.
LEMMA BlockOut ==
    ASSUME IInv, mode \in {"WRITE_BLOCK", "FLUSH"}, UNCHANGED resets,
           NEW have, have = Least(Len(block) - block_out, avail_out), WriteBlock(have)
    PROVE  /\ BufferType' /\ WindowType' /\ TokenType'
           /\ have \in Nat /\ block_out + have \in 0 .. Len(block)
           /\ WindowHoldsInput /\ MatchCopiesInput
           /\ block_out + have < Len(block) => avail_out' = 0
  <1>1. BufferType /\ WindowType /\ TokenType /\ BlockType
        /\ WindowHoldsInput /\ MatchCopiesInput
    BY TypeParts DEF IInv
  <1>2. have \in Nat /\ block_out + have \in 0 .. Len(block) /\ have <= avail_out
        /\ block_out \in Nat /\ block \in Seq(Byte)
        /\ (block_out + have < Len(block) => have = avail_out)
    BY <1>1 DEF BlockType, BufferType, Least
  <1>3. SubSeq(block, block_out + 1, block_out + have) \in Seq(Byte)
        /\ Len(SubSeq(block, block_out + 1, block_out + have)) = have
    <2>1. block_out + have <= Len(block)
      BY <1>2
    <2> QED BY <1>2, <2>1, Stretch
  <1>4. BufferType'
    BY <1>1, <1>2, <1>3, WriteBuffers DEF WriteBlock
  <1>5. WindowType' /\ TokenType'
    BY <1>1 DEF WriteBlock, WindowType, TokenType, configVars, windowVars, matcherVars
  <1>6. block_out + have < Len(block) => avail_out' = 0
    BY <1>1, <1>2, <1>3 DEF WriteBlock, Write, BufferType
  <1> QED BY <1>1, <1>2, <1>4, <1>5, <1>6

\* What holds of the window and the tokens does not depend on the block.
LEMMA SameTokens ==
    ASSUME WindowHoldsInput, MatchCopiesInput, Encoding, mode # "EMIT", mode' # "EMIT",
           UNCHANGED <<input, total_in, windowVars, matcherVars>>
    PROVE  WindowHoldsInput' /\ MatchCopiesInput'
  BY DEF WindowHoldsInput, MatchCopiesInput, CopiesInput, Consumed, Encoding,
     windowVars, matcherVars

LEMMA WriteBlockStep ==
    ASSUME IInv, compress_write_block
    PROVE  IInv'
  <1> DEFINE have == Least(Len(block) - block_out, avail_out)
  <1>1. ControlType /\ BlockType /\ ModeOK /\ mode = "WRITE_BLOCK" /\ UNCHANGED resets
        /\ WindowHoldsInput /\ MatchCopiesInput /\ Encoding
    BY TypeParts DEF IInv, compress_write_block, At, Encoding
  <1>2. /\ WriteBlock(have)
        /\ \/ block_out + have # Len(block) /\ block_out' = block_out + have
              /\ UNCHANGED <<block, block_tokens>> /\ compress_suspend
           \/ block' = <<0>> /\ block_out' = 0 /\ block_tokens' = 0
              /\ compress_continue("FILL")
    BY DEF compress_write_block
  <1> HIDE DEF have
  <1>3. BufferType' /\ WindowType' /\ TokenType'
        /\ have \in Nat /\ block_out + have \in 0 .. Len(block)
    BY <1>1, <1>2, BlockOut DEF have
  <1>4. UNCHANGED <<input, total_in, configVars, windowVars, match, matcherVars>>
    BY <1>2 DEF WriteBlock
  <1>5. CASE block_out' = block_out + have /\ UNCHANGED <<block, block_tokens>>
             /\ compress_suspend
    <2>1. ControlType' /\ mode' = mode /\ error' = error
      BY <1>1, <1>5, SuspendControl
    <2>2. BlockType'
      BY <1>1, <1>3, <1>5 DEF BlockType
    <2>3. ModeOK'
      BY <1>1, <1>4, <1>5, <2>1
         DEF ModeOK, Encoding, configVars, windowVars, matcherVars
    <2> QED BY <1>1, <1>3, <1>4, <2>1, <2>2, <2>3, SameTokens, Whole
  <1>6. CASE block' = <<0>> /\ block_out' = 0 /\ block_tokens' = 0
             /\ compress_continue("FILL")
    <2>1. ControlType' /\ mode' = "FILL"
      BY <1>1, <1>6, ContinueControl DEF Mode
    <2>2. BlockType' /\ Len(block') = 1
      BY <1>6, RadixFacts, SizeFacts DEF BlockType, Byte
    <2>3. ModeOK'
      BY <1>1, <1>4, <1>6, <2>1, <2>2, SizeFacts
         DEF ModeOK, Encoding, configVars, windowVars, matcherVars
    <2> QED BY <1>1, <1>3, <1>4, <2>1, <2>2, <2>3, SameTokens, Whole
  <1> QED BY <1>2, <1>5, <1>6

LEMMA FlushStep ==
    ASSUME IInv, compress_flush
    PROVE  IInv'
  <1> DEFINE have == Least(Len(block) - block_out, avail_out)
  <1>1. BufferType /\ ControlType /\ WindowType /\ TokenType /\ BlockType /\ ModeOK
        /\ mode = "FLUSH" /\ UNCHANGED resets
        /\ WindowHoldsInput /\ MatchCopiesInput /\ Encoding
    BY TypeParts DEF IInv, compress_flush, At, Encoding
  <1>2. CASE /\ UNCHANGED <<streamVars, configVars, windowVars, match, matcherVars,
                            blockVars>>
             /\ compress_error("SIZE_MISMATCH") \/ compress_continue("DONE")
    <2>1. BufferType' /\ WindowType' /\ TokenType' /\ BlockType'
      BY <1>1, <1>2 DEF BufferType, WindowType, TokenType, BlockType, streamVars,
         configVars, windowVars, matcherVars, blockVars
    <2>2. CASE compress_error("SIZE_MISMATCH")
      <3>1. ControlType' /\ mode' = "ERROR" /\ error' = "SIZE_MISMATCH"
        BY <1>1, <2>2, ErrorControl DEF Result
      <3>2. ModeOK' /\ WindowHoldsInput' /\ MatchCopiesInput'
        BY <1>1, <1>2, <3>1 DEF ModeOK, Encoding, WindowHoldsInput, MatchCopiesInput,
           matcherVars
      <3> QED BY <2>1, <3>1, <3>2, Whole
    <2>3. CASE compress_continue("DONE")
      <3>1. ControlType' /\ mode' = "DONE"
        BY <1>1, <2>3, ContinueControl DEF Mode
      <3>2. ModeOK'
        BY <1>1, <1>2, <3>1 DEF ModeOK, Encoding, configVars, windowVars, matcherVars,
           blockVars
      <3> QED BY <1>1, <1>2, <2>1, <3>1, <3>2, SameTokens, Whole DEF streamVars
    <2> QED BY <1>2, <2>2, <2>3
  <1>3. CASE /\ WriteBlock(have)
             /\ block_out' = block_out + have
             /\ UNCHANGED <<block, block_tokens>>
             /\ compress_continue("DONE") \/ compress_suspend
    <2> HIDE DEF have
    <2>1. BufferType' /\ WindowType' /\ TokenType'
          /\ have \in Nat /\ block_out + have \in 0 .. Len(block)
      BY <1>1, <1>3, BlockOut DEF have
    <2>2. UNCHANGED <<input, total_in, configVars, windowVars, match, matcherVars>>
      BY <1>3 DEF WriteBlock
    <2>3. BlockType'
      BY <1>1, <1>3, <2>1 DEF BlockType
    <2>4. ControlType' /\ mode' \in {"FLUSH", "DONE"}
      BY <1>1, <1>3, ContinueControl, SuspendControl DEF Mode
    <2>5. ModeOK'
      BY <1>1, <1>3, <2>2, <2>4
         DEF ModeOK, Encoding, configVars, windowVars, matcherVars
    <2> QED BY <1>1, <2>1, <2>2, <2>3, <2>4, <2>5, SameTokens, Whole
  <1> QED BY <1>2, <1>3 DEF compress_flush

LEMMA SettledStep ==
    ASSUME IInv, Settled
    PROVE  IInv'
  <1>1. BufferType /\ ControlType /\ WindowType /\ TokenType /\ BlockType
    BY TypeParts DEF IInv
  <1>2. UNCHANGED <<streamVars, mode, error, configVars, windowVars, match, matcherVars,
                    blockVars, resets>>
    BY DEF Settled, At
  <1>3. BufferType' /\ WindowType' /\ TokenType' /\ BlockType'
    BY <1>1, <1>2 DEF BufferType, WindowType, TokenType, BlockType, streamVars,
       configVars, windowVars, matcherVars, blockVars
  <1>4. ControlType'
    <2>1. CASE Return(error)
      BY <1>1, <1>2, <2>1 DEF ControlType, Return
    <2>2. CASE Return("STREAM_END")
      BY <1>1, <1>2, <2>2 DEF ControlType, Return, Result
    <2> QED BY <2>1, <2>2 DEF Settled
  <1>5. ModeOK' /\ WindowHoldsInput' /\ MatchCopiesInput'
    BY <1>2 DEF IInv, ModeOK, WindowHoldsInput, MatchCopiesInput, CopiesInput,
       Encoding, Consumed, streamVars, configVars, windowVars, matcherVars, blockVars
  <1> QED BY <1>3, <1>4, <1>5, Whole

-----------------------------------------------------------------------------
(* Filling the window. *)

\* A full window has lookahead enough wherever the position is after a slide.
LEMMA FullWindow ==
    ASSUME NEW pos \in Nat, pos < 2 * MAX_DISTANCE
    PROVE  WINDOW_SIZE - pos >= MAX_MATCH + 1
  BY SizeFacts

LEMMA SomeLookahead ==
    ASSUME NEW pos \in Nat, NEW size \in Nat, NEW min \in Nat, min >= 1,
           size - pos >= min
    PROVE  pos < size
  OBVIOUS

\* What a fill does to the numbers, and that it leaves Consumed alone.
LEMMA FillNumbers ==
    ASSUME BufferType, WindowType, WindowHoldsInput, Encoding,
           NEW drop, drop = (IF window_pos < 2 * MAX_DISTANCE THEN 0 ELSE MAX_DISTANCE),
           NEW bytes, bytes = Least(WINDOW_SIZE - (window_size - drop), avail_in)
    PROVE  /\ drop \in 0 .. window_pos
           /\ window_pos - drop < 2 * MAX_DISTANCE
           /\ window_pos \in Nat /\ window_size \in Nat /\ window_pos <= window_size
           /\ received \in Nat /\ received = total_in /\ window_size <= received
           /\ bytes \in 0 .. avail_in
           /\ window_size - drop + bytes <= WINDOW_SIZE
           /\ bytes < avail_in => window_size - drop + bytes = WINDOW_SIZE
  <1>1. drop \in 0 .. window_pos /\ window_pos - drop < 2 * MAX_DISTANCE
    BY SizeFacts DEF WindowType
  <1>2. window_pos \in Nat /\ window_size \in Nat /\ received \in Nat
        /\ window_pos <= window_size /\ window_size <= WINDOW_SIZE
        /\ received = total_in /\ window_size <= received
    BY SizeFacts DEF WindowType, WindowHoldsInput
  <1>3. WINDOW_SIZE - (window_size - drop) \in Nat
    BY <1>1, <1>2, SizeFacts
  <1>4. bytes \in 0 .. avail_in /\ bytes <= WINDOW_SIZE - (window_size - drop)
        /\ (bytes < avail_in => bytes = WINDOW_SIZE - (window_size - drop))
    BY <1>3 DEF BufferType, Least
  <1> QED BY <1>1, <1>2, <1>3, <1>4, SizeFacts

LEMMA FillStep ==
    ASSUME IInv, compress_fill
    PROVE  /\ IInv'
           /\ compress_suspend => avail_in' = 0
  <1> DEFINE drop  == IF window_pos < 2 * MAX_DISTANCE THEN 0 ELSE MAX_DISTANCE
             size  == window_size - drop
             bytes == Least(WINDOW_SIZE - size, avail_in)
             filled == [i \in 0 .. WINDOW_SIZE - 1 |->
                          IF i < size THEN window[i + drop]
                          ELSE IF i < size + bytes THEN input[total_in + 1 + i - size]
                               ELSE window[i]]
             lookahead == window_size' - window_pos'
             min_lookahead == IF flush = "FINISH" THEN 1 ELSE MAX_MATCH + 1
  <1>1. BufferType /\ ControlType /\ WindowType /\ TokenType /\ BlockType /\ ModeOK
        /\ WindowHoldsInput /\ MatchCopiesInput /\ mode = "FILL" /\ Encoding
        /\ UNCHANGED resets
    BY TypeParts DEF IInv, compress_fill, At, Encoding
  <1>2. /\ drop \in 0 .. window_pos /\ window_pos - drop < 2 * MAX_DISTANCE
        /\ window_pos \in Nat /\ window_size \in Nat /\ window_pos <= window_size
        /\ received \in Nat /\ received = total_in /\ window_size <= received
        /\ bytes \in 0 .. avail_in
        /\ size + bytes <= WINDOW_SIZE
        /\ bytes < avail_in => size + bytes = WINDOW_SIZE
    BY <1>1, FillNumbers
  <1>3. /\ UNCHANGED <<out, avail_out, configVars, match, matcherVars, blockVars>>
        /\ Read(bytes)
        /\ received' = received + bytes
        /\ window_pos' = window_pos - drop
        /\ window_size' = size + bytes
        /\ window' = filled
        /\ \/ received' > uncompressed_size /\ compress_error("SIZE_MISMATCH")
           \/ /\ received' <= uncompressed_size /\ lookahead >= min_lookahead
              /\ compress_continue("FIND_MATCH")
           \/ /\ received' <= uncompressed_size /\ lookahead < min_lookahead
              /\ IF flush = "FINISH" THEN compress_continue("FLUSH") ELSE compress_suspend
    <2>1. TooMuch(received') <=> received' > uncompressed_size
      BY DEF TooMuch
    <2>2. received' \in Nat /\ uncompressed_size \in Nat
      BY <1>1, <1>2 DEF compress_fill, WindowType
    <2> QED BY <2>1, <2>2 DEF compress_fill
  <1> HIDE DEF drop, bytes
  <1>4. BufferType'
    <2>1. bytes \in Nat /\ bytes <= avail_in
      BY <1>1, <1>2 DEF BufferType
    <2> QED BY <1>1, <1>3, <2>1, ReadBuffers
  <1>5. size \in Nat /\ size <= window_size /\ drop \in Nat /\ bytes \in Nat
        /\ total_in \in Nat /\ total_in + bytes <= Len(input)
    BY <1>1, <1>2 DEF BufferType
  <1> HIDE DEF size
  <1>6. filled \in [0 .. WINDOW_SIZE - 1 -> Byte \cup {STALE}]
    <2>1. ASSUME NEW i \in 0 .. WINDOW_SIZE - 1, i < size
          PROVE  window[i + drop] \in Byte \cup {STALE}
      <3>1. i + drop \in 0 .. WINDOW_SIZE - 1
        BY <1>1, <1>2, <1>5, <2>1, SizeFacts DEF WindowType, size
      <3> QED BY <1>1, <3>1 DEF WindowType
    <2>2. ASSUME NEW i \in 0 .. WINDOW_SIZE - 1, ~(i < size), i < size + bytes
          PROVE  input[total_in + 1 + i - size] \in Byte
      <3>1. total_in + 1 + i - size \in 1 .. Len(input)
        BY <1>5, <2>2, SizeFacts
      <3> QED BY <1>1, <3>1 DEF BufferType
    <2>3. ASSUME NEW i \in 0 .. WINDOW_SIZE - 1
          PROVE  window[i] \in Byte \cup {STALE}
      BY <1>1 DEF WindowType
    <2> QED BY <2>1, <2>2, <2>3
  <1>7. WindowType'
    <2>1. window_pos' \in 0 .. WINDOW_SIZE /\ window_size' \in 0 .. WINDOW_SIZE
          /\ received' \in Nat
      BY <1>1, <1>2, <1>3, <1>5, SizeFacts DEF WindowType
    <2> HIDE DEF filled
    <2> QED BY <1>1, <1>3, <1>6, <2>1 DEF WindowType, configVars
  <1>8. TokenType' /\ BlockType'
    BY <1>1, <1>3 DEF TokenType, BlockType, matcherVars, blockVars
  <1>9. /\ received' = total_in' /\ window_pos' <= window_size'
        /\ window_size' <= received' /\ Consumed' = Consumed
        /\ received <= received' /\ input' = input
        /\ received' - window_size' = received - window_size + drop
    <2>1. total_in' = total_in + bytes /\ input' = input
      BY <1>3 DEF Read
    <2>2. size = window_size - drop
      BY DEF size
    <2> QED BY <1>2, <1>3, <1>5, <2>1, <2>2 DEF Consumed
  <1>10. \A i \in 0 .. window_size' - 1 :
            window'[i] = input'[received' - window_size' + i + 1]
    <2> TAKE i \in 0 .. window_size' - 1
    <2>1. i \in 0 .. WINDOW_SIZE - 1 /\ i < size + bytes
      BY <1>2, <1>3, <1>5, SizeFacts
    <2>2. CASE i < size
      <3>1. window'[i] = window[i + drop]
        BY <1>3, <2>1, <2>2
      <3>2. i + drop \in 0 .. window_size - 1
        BY <1>2, <1>5, <2>1, <2>2 DEF size
      <3>3. window[i + drop] = input[received - window_size + (i + drop) + 1]
        BY <1>1, <3>2 DEF WindowHoldsInput
      <3>4. received - window_size + (i + drop) + 1 = received' - window_size' + i + 1
        BY <1>2, <1>5, <1>9, <2>1
      <3> QED BY <1>9, <3>1, <3>3, <3>4
    <2>3. CASE ~(i < size)
      <3>1. window'[i] = input[total_in + 1 + i - size]
        BY <1>3, <2>1, <2>3
      <3>2. total_in + 1 + i - size = received' - window_size' + i + 1
        BY <1>2, <1>3, <1>5, <2>1, SizeFacts
      <3> QED BY <1>9, <3>1, <3>2
    <2> QED BY <2>2, <2>3
  <1>11. WindowHoldsInput'
    BY <1>9, <1>10 DEF WindowHoldsInput
  <1>12. ASSUME mode' # "EMIT" PROVE MatchCopiesInput'
    <2>1. deferred => CopiesInput(deferred_match, Consumed)
      <3>1. Consumed + 0 = Consumed
        BY <1>2 DEF Consumed
      <3> QED BY <1>1, <3>1 DEF MatchCopiesInput
    <2>2. ASSUME deferred PROVE CopiesInput(deferred_match, Consumed)'
      <3>1. deferred_match' = deferred_match
        BY <1>3 DEF matcherVars
      <3>2. deferred_match.length \in Nat /\ Consumed \in Int
        BY <1>1, <1>2, <2>2, SizeFacts
           DEF ModeOK, Token, Consumed, MIN_MATCH
      <3>3. Consumed + deferred_match.length <= received'
        BY <1>2, <1>3, <1>5, <2>1, <2>2, <3>2 DEF CopiesInput
      <3>4. /\ deferred_match.length >= MIN_MATCH =>
                  /\ deferred_match.distance \in 1 .. Least(MAX_DISTANCE, Consumed)
                  /\ \A k \in 1 .. deferred_match.length :
                        input[Consumed + k] = input[Consumed + k - deferred_match.distance]
        BY <2>1, <2>2 DEF CopiesInput
      <3> HIDE DEF filled, lookahead, min_lookahead
      <3>5. Consumed' + deferred_match'.length <= received'
        BY <1>9, <3>1, <3>3
      <3>6. /\ deferred_match'.length >= MIN_MATCH =>
                  /\ deferred_match'.distance \in 1 .. Least(MAX_DISTANCE, Consumed')
                  /\ \A k \in 1 .. deferred_match'.length :
                        input'[Consumed' + k] = input'[Consumed' + k - deferred_match'.distance]
        BY <1>9, <3>1, <3>4
      <3> QED BY <3>5, <3>6 DEF CopiesInput
    <2>3. Consumed' + 0 = Consumed'
      <3>1. Consumed \in Int
        BY <1>2 DEF Consumed
      <3> QED BY <1>9, <3>1
    <2>4. deferred' = deferred
      BY <1>3 DEF matcherVars
    <2> QED BY <1>12, <2>2, <2>3, <2>4 DEF MatchCopiesInput
  <1>13. block_tokens' < TOKENS_PER_BLOCK /\ block_out' = 0 /\ Len(block') > block_tokens'
         /\ (deferred' => deferred_match' \in Token)
    BY <1>1, <1>3 DEF ModeOK, blockVars, matcherVars
  <1>14. uncompressed_size' = uncompressed_size
    BY <1>3 DEF configVars
  <1>15. CASE received' > uncompressed_size /\ compress_error("SIZE_MISMATCH")
    <2>1. ControlType' /\ mode' = "ERROR" /\ error' = "SIZE_MISMATCH"
          /\ ~running' /\ result' = "SIZE_MISMATCH"
      BY <1>1, <1>15, ErrorControl DEF Result, compress_error, Return
    <2>2. ModeOK'
      BY <1>13, <2>1 DEF ModeOK, Encoding
    <2>3. ~compress_suspend
      BY <2>1 DEF compress_suspend, Suspend, Return
    <2> QED BY <1>4, <1>7, <1>8, <1>11, <1>12, <2>1, <2>2, <2>3, Whole
  <1>16. CASE received' <= uncompressed_size /\ lookahead >= min_lookahead
              /\ compress_continue("FIND_MATCH")
    <2>1. ControlType' /\ mode' = "FIND_MATCH"
      BY <1>1, <1>16, ContinueControl DEF Mode
    <2>2. window_pos' < window_size'
      <3>1. min_lookahead \in Nat /\ min_lookahead >= 1
        BY SizeFacts
      <3>2. window_pos' \in Nat /\ window_size' \in Nat
        BY <1>7, SizeFacts DEF WindowType
      <3> HIDE DEF min_lookahead
      <3> QED BY <1>16, <3>1, <3>2, SomeLookahead
    <2>3. ModeOK'
      BY <1>13, <1>14, <1>16, <2>1, <2>2 DEF ModeOK, Encoding
    <2>4. ~compress_suspend
      BY <1>1, <2>1 DEF compress_suspend
    <2> QED BY <1>4, <1>7, <1>8, <1>11, <1>12, <2>1, <2>3, <2>4, Whole
  <1>17. CASE received' <= uncompressed_size /\ compress_continue("FLUSH")
    <2>1. ControlType' /\ mode' = "FLUSH"
      BY <1>1, <1>17, ContinueControl DEF Mode
    <2>2. ModeOK'
      BY <1>13, <1>14, <1>17, <2>1 DEF ModeOK, Encoding
    <2>3. ~compress_suspend
      BY <1>1, <2>1 DEF compress_suspend
    <2> QED BY <1>4, <1>7, <1>8, <1>11, <1>12, <2>1, <2>2, <2>3, Whole
  <1>18. CASE received' <= uncompressed_size /\ lookahead < MAX_MATCH + 1
              /\ compress_suspend
    <2>1. ControlType' /\ mode' = "FILL"
      BY <1>1, <1>18, SuspendControl
    <2>2. ModeOK'
      BY <1>13, <1>14, <1>18, <2>1 DEF ModeOK, Encoding
    <2>3. bytes = avail_in
      <3> SUFFICES ASSUME bytes # avail_in PROVE FALSE
        OBVIOUS
      <3>1. size + bytes = WINDOW_SIZE
        BY <1>1, <1>2 DEF BufferType
      <3>2. window_size' = WINDOW_SIZE /\ window_pos' < 2 * MAX_DISTANCE
            /\ window_pos' \in Nat
        BY <1>2, <1>3, <3>1
      <3>3. window_size' - window_pos' >= MAX_MATCH + 1
        BY <3>2, FullWindow
      <3>4. window_size' - window_pos' \in Int
        BY <3>2, SizeFacts
      <3> QED BY <1>18, <3>3, <3>4, SizeFacts
    <2>4. avail_in' = 0
      BY <1>1, <1>3, <2>3 DEF Read, BufferType
    <2> QED BY <1>4, <1>7, <1>8, <1>11, <1>12, <2>1, <2>2, <2>4, Whole
  <1> QED BY <1>3, <1>15, <1>16, <1>17, <1>18

-----------------------------------------------------------------------------
(* Finding a match. *)

\* What the search finds in the window repeats the input.
LEMMA FoundCopies ==
    ASSUME BufferType, WindowType, WindowHoldsInput, Encoding,
           NEW at \in Nat, at <= window_size,
           NEW token \in Token, Finds(at, token),
           NEW from, from = received - (window_size - at)
    PROVE  /\ token.length >= MIN_MATCH =>
                 /\ from + token.length <= received
                 /\ token.distance \in 1 .. Least(MAX_DISTANCE, from)
                 /\ \A k \in 1 .. token.length :
                       input[from + k] = input[from + k - token.distance]
           /\ token.length < MIN_MATCH => token.length = 1
  <1>1. /\ window_size \in Nat /\ received \in Nat /\ window_size <= received
        /\ max_distance \in Nat /\ max_distance + 1 <= MAX_DISTANCE
        /\ from \in Nat /\ at <= from
        /\ token.length \in Nat
    BY SizeFacts DEF WindowType, WindowHoldsInput, Token, MIN_MATCH
  <1>2. token.length < MIN_MATCH => token.length = 1
    BY SizeFacts DEF Token, MIN_MATCH
  <1> SUFFICES ASSUME token.length >= MIN_MATCH
               PROVE  /\ from + token.length <= received
                      /\ token.distance \in 1 .. Least(MAX_DISTANCE, from)
                      /\ \A k \in 1 .. token.length :
                            input[from + k] = input[from + k - token.distance]
    BY <1>2
  <1> DEFINE d == token.distance
             l == token.length
  <1>3. token # Literal
    BY DEF Literal, MIN_MATCH
  <1>4. /\ l \in MIN_MATCH .. Lookahead(at)
        /\ at - d \in StartPos(at) .. at - 1
        /\ IsMatch(at - d, at, l)
    BY <1>3 DEF Finds, Search
  <1>5. d \in Nat
    BY SizeFacts DEF Token
  <1> HIDE DEF d, l
  <1>6. at + l <= window_size /\ l \in Nat
    BY <1>1, <1>4, SizeFacts DEF Lookahead, Least, MIN_MATCH, l
  <1>7. d >= 1 /\ d <= at /\ d <= MAX_DISTANCE
    BY <1>1, <1>4, <1>5, SizeFacts DEF StartPos
  <1>8. d \in 1 .. Least(MAX_DISTANCE, from)
    BY <1>1, <1>5, <1>7, SizeFacts DEF Least
  <1>9. from + l <= received
    BY <1>1, <1>6
  <1>10. ASSUME NEW k \in 1 .. l
         PROVE  input[from + k] = input[from + k - d]
    <2>1. k - 1 \in 0 .. l - 1
      BY <1>6
    <2>2. window[(at - d) + (k - 1)] = window[at + (k - 1)]
      BY <1>4, <2>1 DEF IsMatch
    <2>3. at + (k - 1) \in 0 .. window_size - 1
          /\ (at - d) + (k - 1) \in 0 .. window_size - 1
      BY <1>1, <1>5, <1>6, <1>7, <2>1
    <2>4. /\ window[at + (k - 1)] = input[received - window_size + (at + (k - 1)) + 1]
          /\ window[(at - d) + (k - 1)]
               = input[received - window_size + ((at - d) + (k - 1)) + 1]
      BY <2>3 DEF WindowHoldsInput
    <2>5. received - window_size + (at + (k - 1)) + 1 = from + k
          /\ received - window_size + ((at - d) + (k - 1)) + 1 = from + k - d
      BY <1>1, <1>5, <1>6, <2>1
    <2> QED BY <2>2, <2>4, <2>5
  <1> QED BY <1>8, <1>9, <1>10 DEF d, l

LEMMA FindMatchStep ==
    ASSUME IInv, compress_find_match
    PROVE  IInv'
  <1>1. BufferType /\ ControlType /\ WindowType /\ TokenType /\ BlockType /\ ModeOK
        /\ WindowHoldsInput /\ MatchCopiesInput /\ mode = "FIND_MATCH" /\ Encoding
        /\ UNCHANGED resets
    BY TypeParts DEF IInv, compress_find_match, At, Encoding
  <1>2. find_match /\ compress_continue("EMIT")
        /\ UNCHANGED <<streamVars, configVars, windowVars, blockVars>>
    BY DEF compress_find_match
  <1>3. ControlType' /\ mode' = "EMIT"
    BY <1>1, <1>2, ContinueControl DEF Mode
  <1>4. BufferType' /\ WindowType' /\ BlockType' /\ WindowHoldsInput'
    BY <1>1, <1>2, <1>3 DEF BufferType, WindowType, BlockType, WindowHoldsInput, Encoding,
       streamVars, configVars, windowVars, blockVars
  <1>5. window_pos \in Nat /\ window_size \in Nat /\ window_pos < window_size
        /\ received \in Nat /\ Consumed \in Int /\ Consumed + 1 <= received
        /\ Consumed = received - (window_size - window_pos)
        /\ Consumed + 1 = received - (window_size - (window_pos + 1))
        /\ Consumed' = Consumed
    BY <1>1, <1>2, SizeFacts DEF WindowType, ModeOK, Consumed, windowVars
  <1>6. received' = received /\ input' = input
    BY <1>2 DEF windowVars, streamVars
  <1> DEFINE Chosen ==
        /\ match' \in Token /\ CopiesInput(match', Consumed)
        /\ deferred' \in BOOLEAN /\ deferred_match' \in Token \cup {NoToken}
        /\ deferred' => /\ match'.length = 1 /\ deferred_match' \in Token
                        /\ CopiesInput(deferred_match', Consumed + 1)
  <1>7. Chosen
    <2>1. CASE deferred /\ match' = deferred_match /\ deferred' = FALSE
               /\ UNCHANGED deferred_match
      <3>1. Consumed + 0 = Consumed
        BY <1>5
      <3>2. CopiesInput(deferred_match, Consumed) /\ deferred_match \in Token
        BY <1>1, <2>1, <3>1 DEF MatchCopiesInput, ModeOK
      <3> QED BY <1>1, <2>1, <3>2 DEF TokenType
    <2>2. ASSUME NEW now \in Token, NEW next \in Token,
                 Finds(window_pos, now),
                 IF now.length >= MIN_MATCH
                     THEN Finds(window_pos + 1, next) ELSE next = Literal,
                 \/ /\ next.length >= now.length + 2
                    /\ match' = [length |-> 1, distance |-> next.distance]
                    /\ deferred' = TRUE /\ deferred_match' = next
                 \/ /\ next.length < now.length + 2
                    /\ match' = now
                    /\ UNCHANGED matcherVars,
                 ~deferred
          PROVE  Chosen
      <3>1. now.length \in Nat /\ next.length \in Nat /\ MIN_MATCH = 3
        BY SizeFacts DEF Token, MIN_MATCH
      <3>2. CopiesInput(now, Consumed)
        <4>1. /\ now.length >= MIN_MATCH =>
                    /\ Consumed + now.length <= received
                    /\ now.distance \in 1 .. Least(MAX_DISTANCE, Consumed)
                    /\ \A k \in 1 .. now.length :
                          input[Consumed + k] = input[Consumed + k - now.distance]
              /\ now.length < MIN_MATCH => now.length = 1
          <5>1. window_pos <= window_size /\ Finds(window_pos, now)
            BY <1>5, <2>2
          <5> QED BY <1>1, <1>5, <5>1, FoundCopies
        <4>2. Consumed + now.length <= received
          BY <1>5, <3>1, <4>1
        <4> QED BY <4>1, <4>2 DEF CopiesInput
      <3>3. CASE /\ next.length >= now.length + 2
                 /\ match' = [length |-> 1, distance |-> next.distance]
                 /\ deferred' = TRUE /\ deferred_match' = next
        <4>1. next # Literal \/ now.length = 0
          BY <3>1, <3>3 DEF Literal
        <4>2. now.length # 0
          BY <2>2, SizeFacts DEF Token, MIN_MATCH
        <4>3. Finds(window_pos + 1, next)
          BY <2>2, <4>1, <4>2
        <4>4. next.length >= MIN_MATCH
          BY <3>1, <3>3, <4>2
        <4>5. CopiesInput(next, Consumed + 1)
          <5>1. window_pos + 1 \in Nat /\ window_pos + 1 <= window_size
            BY <1>5
          <5> QED BY <1>1, <1>5, <2>2, <4>3, <4>4, <5>1, FoundCopies DEF CopiesInput
        <4>6. match'.length = 1 /\ match' \in Token
          BY <2>2, <3>3 DEF Token
        <4>7. CopiesInput(match', Consumed)
          BY <1>5, <3>1, <4>6 DEF CopiesInput
        <4> QED BY <2>2, <3>3, <4>5, <4>6, <4>7
      <3>4. CASE match' = now /\ UNCHANGED matcherVars
        BY <1>1, <2>2, <3>2, <3>4 DEF matcherVars, TokenType
      <3> QED BY <2>2, <3>3, <3>4
    <2> QED BY <1>2, <2>1, <2>2 DEF find_match
  <1>8. TokenType'
    BY <1>7 DEF TokenType
  <1>9. ModeOK'
    BY <1>1, <1>2, <1>3, <1>7
       DEF ModeOK, Encoding, configVars, windowVars, blockVars
  <1>10. MatchCopiesInput'
    BY <1>3, <1>5, <1>6, <1>7 DEF MatchCopiesInput, CopiesInput
  <1> QED BY <1>3, <1>4, <1>8, <1>9, <1>10, Whole

-----------------------------------------------------------------------------
(* Emitting a token. *)

\* A pair takes two bytes or three, and never more than it stands for.
LEMMA PairBytes ==
    ASSUME NEW token \in Token, token.length >= MIN_MATCH, token.distance >= 1
    PROVE  /\ EncodeReference(token.length, token.distance) \in Seq(Byte)
           /\ Len(EncodeReference(token.length, token.distance)) >= 2
           /\ Len(EncodeReference(token.length, token.distance)) <= token.length
  <1>1. /\ token.length \in Nat /\ token.length < LONG_LENGTH_BIAS + Radix
        /\ token.distance \in Nat /\ token.distance <= NIBBLE * Radix
    BY FormatAssumption, RadixFacts, SizeFacts
       DEF Token, MIN_MATCH, LONG_LENGTH_BIAS, SHORT_LENGTH_BIAS
  <1>2. EncodeReference(token.length, token.distance) \in Seq(Byte)
    BY <1>1, ReferenceRoundTrip
  <1>3. Len(EncodeReference(token.length, token.distance)) \in {2, 3}
    <2>1. CASE token.length < LONG_LENGTH_BIAS
      BY <2>1 DEF EncodeReference
    <2>2. CASE ~(token.length < LONG_LENGTH_BIAS)
      BY <2>2 DEF EncodeReference
    <2> QED BY <2>1, <2>2
  <1> DEFINE n == Len(EncodeReference(token.length, token.distance))
  <1>4. n \in {2, 3} /\ token.length \in Nat /\ token.length >= 3
    BY <1>1, <1>3 DEF MIN_MATCH
  <1> HIDE DEF n
  <1>5. n >= 2 /\ n <= token.length
    BY <1>4
  <1> QED BY <1>2, <1>5 DEF n

\* A literal joins the block: its bit, then its byte.
LEMMA LiteralInBlock ==
    ASSUME BlockType, block_tokens < TOKENS_PER_BLOCK, Len(block) > block_tokens,
           NEW byte \in Byte
    PROVE  LET marked == Append([block EXCEPT ![1] = (@ + CodeBit(block_tokens)) % Radix],
                                byte)
           IN marked \in Seq(Byte) /\ Len(marked) = Len(block) + 1
  <1> DEFINE code == (block[1] + CodeBit(block_tokens)) % Radix
  <1>1. block \in Seq(Byte) /\ Len(block) \in Nat \ {0} /\ block_tokens \in Nat
    BY SizeFacts DEF BlockType
  <1>2. code \in Byte
    <2>1. block[1] \in Nat /\ CodeBit(block_tokens) \in Nat
      <3>1. block[1] \in Byte
        BY <1>1
      <3>2. block_tokens \in 0 .. TOKENS_PER_BLOCK - 1
        BY <1>1, SizeFacts
      <3>3. CodeBit(block_tokens) \in 1 .. Radix - 1
        BY <3>2, CodeByteAssumption
      <3> QED BY <3>1, <3>3, RadixFacts DEF Byte
    <2>2. block[1] + CodeBit(block_tokens) \in Nat
      BY <2>1
    <2> QED BY <2>2, RadixFacts, DivMod DEF Byte
  <1>3. [block EXCEPT ![1] = code] \in Seq(Byte)
        /\ Len([block EXCEPT ![1] = code]) = Len(block)
    BY <1>1, <1>2
  <1> QED BY <1>1, <1>3

LEMMA EmitStep ==
    ASSUME IInv, compress_emit
    PROVE  IInv'
  <1> DEFINE l == match.length
             consumed == IF l < MIN_MATCH THEN 1 ELSE l
             literal == Append([block EXCEPT ![1] = (@ + CodeBit(block_tokens)) % Radix],
                               window[window_pos])
             pair == block \o EncodeReference(l, match.distance)
  <1>1. BufferType /\ ControlType /\ WindowType /\ TokenType /\ BlockType /\ ModeOK
        /\ WindowHoldsInput /\ MatchCopiesInput /\ mode = "EMIT" /\ Encoding
        /\ UNCHANGED resets
    BY TypeParts DEF IInv, compress_emit, At, Encoding
  <1>2. /\ match \in Token /\ CopiesInput(match, Consumed)
        /\ block_tokens < TOKENS_PER_BLOCK /\ block_out = 0
        /\ Len(block) > block_tokens
        /\ received <= uncompressed_size
        /\ deferred => /\ l = 1 /\ deferred_match \in Token
                       /\ CopiesInput(deferred_match, Consumed + 1)
    BY <1>1 DEF ModeOK, MatchCopiesInput
  <1>3. window_pos \in Nat /\ window_size \in Nat /\ received \in Nat /\ l \in Nat
        /\ window_pos <= window_size /\ window_size <= WINDOW_SIZE
        /\ Consumed = received - (window_size - window_pos) /\ Consumed \in Int
    BY <1>1, <1>2, SizeFacts DEF WindowType, WindowHoldsInput, Consumed, Token, MIN_MATCH
  <1>4. l < MIN_MATCH => l = 1
    BY <1>2, SizeFacts DEF Token, MIN_MATCH
  <1>5. consumed = l /\ l >= 1 /\ window_pos + l <= window_size
    <2>1. Consumed + l <= received
      BY <1>2 DEF CopiesInput
    <2>2. l >= 1
      BY <1>2, SizeFacts DEF Token, MIN_MATCH
    <2> QED BY <1>3, <1>4, <2>1, <2>2
  <1>6. /\ UNCHANGED <<streamVars, configVars, received, window, window_size, match,
                       matcherVars, block_out>>
        /\ block' = IF l < MIN_MATCH THEN literal ELSE pair
        /\ block_tokens' = block_tokens + 1
        /\ window_pos' = window_pos + l
        /\ compress_continue(IF block_tokens' = TOKENS_PER_BLOCK
                             THEN "WRITE_BLOCK" ELSE "FILL")
    <2>1. ~(consumed > window_size - window_pos)
      BY <1>3, <1>5
    <2> QED BY <1>5, <2>1 DEF compress_emit
  <1> HIDE DEF literal, pair, l, consumed
  <1>7. block' \in Seq(Byte) /\ Len(block') > block_tokens'
    <2>1. CASE l < MIN_MATCH
      <3>1. window[window_pos] \in Byte
        <4>1. window_pos \in 0 .. window_size - 1
          BY <1>3, <1>5
        <4>2. window[window_pos] = input[received - window_size + window_pos + 1]
          BY <1>1, <4>1 DEF WindowHoldsInput
        <4>3. received - window_size + window_pos + 1 \in 1 .. Len(input)
          BY <1>1, <1>3, <4>1 DEF WindowHoldsInput, BufferType
        <4> QED BY <1>1, <4>2, <4>3 DEF BufferType
      <3>2. literal \in Seq(Byte) /\ Len(literal) = Len(block) + 1
        BY <1>1, <1>2, <3>1, LiteralInBlock DEF literal
      <3> QED BY <1>1, <1>2, <1>6, <2>1, <3>2, SizeFacts DEF BlockType
    <2>2. CASE ~(l < MIN_MATCH)
      <3>1. match.length >= MIN_MATCH /\ match.distance >= 1
        <4>1. match.length >= MIN_MATCH
          BY <1>3, <2>2 DEF MIN_MATCH, l
        <4>2. match.distance \in 1 .. Least(MAX_DISTANCE, Consumed)
          BY <1>2, <4>1 DEF CopiesInput
        <4>3. match.distance \in Nat
          BY <1>2, SizeFacts DEF Token
        <4> QED BY <4>1, <4>2, <4>3
      <3>2. EncodeReference(l, match.distance) \in Seq(Byte)
            /\ Len(EncodeReference(l, match.distance)) >= 2
        BY <1>2, <3>1, PairBytes DEF l
      <3>3. pair \in Seq(Byte) /\ Len(pair) >= Len(block) + 2
        BY <1>1, <3>2 DEF BlockType, pair
      <3> QED BY <1>1, <1>2, <1>6, <2>2, <3>3, SizeFacts DEF BlockType
    <2> QED BY <2>1, <2>2
  <1>8. block_tokens' \in 0 .. TOKENS_PER_BLOCK /\ block_out' = 0
        /\ Len(block') \in Nat
    BY <1>1, <1>2, <1>6, <1>7, SizeFacts DEF BlockType
  <1>9. BufferType' /\ TokenType' /\ BlockType'
    BY <1>1, <1>6, <1>7, <1>8 DEF BufferType, TokenType, BlockType, streamVars,
       matcherVars
  <1>10. window_pos' \in 0 .. WINDOW_SIZE /\ window_pos' <= window_size
    BY <1>3, <1>5, <1>6, SizeFacts
  <1>11. WindowType' /\ WindowHoldsInput'
    BY <1>1, <1>6, <1>10 DEF WindowType, WindowHoldsInput, configVars, streamVars
  <1>12. ControlType'
         /\ mode' = IF block_tokens' = TOKENS_PER_BLOCK THEN "WRITE_BLOCK" ELSE "FILL"
    BY <1>1, <1>6, ContinueControl DEF Mode
  <1>13. ModeOK'
    <2>1. block_tokens' < TOKENS_PER_BLOCK \/ block_tokens' = TOKENS_PER_BLOCK
      BY <1>8, SizeFacts
    <2> QED BY <1>2, <1>6, <1>7, <1>8, <1>12, <2>1
            DEF ModeOK, Encoding, configVars, matcherVars
  <1>14. MatchCopiesInput'
    <2>1. ASSUME deferred PROVE Consumed' + 0 = Consumed + 1
      BY <1>2, <1>3, <1>6, <2>1 DEF Consumed
    <2>2. input' = input /\ received' = received /\ UNCHANGED matcherVars
      BY <1>6 DEF streamVars
    <2>3. mode' # "EMIT"
      BY <1>12
    <2> QED BY <1>2, <2>1, <2>2, <2>3 DEF MatchCopiesInput, CopiesInput, matcherVars
  <1> QED BY <1>9, <1>11, <1>12, <1>13, <1>14, Whole

-----------------------------------------------------------------------------
(* The inductive invariant, and the theorems. *)

LEMMA InitIInv == Init => IInv
  <1> SUFFICES ASSUME Init PROVE IInv
    OBVIOUS
  <1> USE DEF Init, StreamInit
  <1>1. BufferType
    BY StreamAssumption DEF BufferType
  <1>2. ControlType
    BY DEF ControlType, Mode, Result
  <1>3. WindowType
    <2>1. uncompressed_size \in Nat
      BY RadixFacts DEF DeclaredSizes
    <2>2. max_distance \in 0 .. MAX_DISTANCE - 1
      BY SearchDistanceInReach
    <2> QED BY <2>1, <2>2, SizeFacts, CompressorAssumption DEF WindowType
  <1>4. TokenType
    BY DEF TokenType
  <1>5. BlockType /\ Len(block) = 1
    BY RadixFacts, SizeFacts DEF BlockType, Byte
  <1>6. ModeOK /\ WindowHoldsInput /\ MatchCopiesInput
    BY <1>5 DEF ModeOK, Encoding, WindowHoldsInput, MatchCopiesInput, HEADER_SIZE
  <1> QED BY <1>1, <1>2, <1>3, <1>4, <1>5, <1>6, TypeParts DEF IInv

LEMMA NextIInv == IInv /\ [Next]_vars => IInv'
  <1> SUFFICES ASSUME IInv, [Next]_vars PROVE IInv'
    OBVIOUS
  <1>1. CASE Call
    BY <1>1, CallStep
  <1>2. CASE yaz0_compress
    BY <1>2, HeaderStep, FillStep, FindMatchStep, EmitStep, WriteBlockStep, FlushStep,
       SettledStep DEF yaz0_compress
  <1>3. CASE yaz0_compress_reset
    BY <1>3, ResetStep
  <1>4. CASE UNCHANGED vars
    BY <1>4 DEF IInv, TypeOK, StreamTypeOK, ModeOK, WindowHoldsInput, MatchCopiesInput,
       CopiesInput, Encoding, Consumed, vars, streamVars, callVars, configVars,
       windowVars, matcherVars, blockVars
  <1> QED BY <1>1, <1>2, <1>3, <1>4 DEF Next

LEMMA AlwaysIInv == Spec => []IInv
  BY InitIInv, NextIInv, PTL DEF Spec

(***************************************************************************)
(* Every variable keeps its type under any sequence of calls and resets:   *)
(* no position leaves the window, no byte of the window that was never     *)
(* written is encoded, and the block never holds more than its tokens.     *)
(***************************************************************************)
THEOREM TypeCorrect == Spec => []TypeOK
  <1>1. IInv => TypeOK
    BY DEF IInv
  <1> QED BY <1>1, AlwaysIInv, PTL

(***************************************************************************)
(* Control is where it should be in every mode; in particular the check of *)
(* compress_emit that would fail with STREAM_ERROR never does, so a stream *)
(* fails only when the declared size is wrong.                             *)
(***************************************************************************)
THEOREM ControlCorrect == Spec => []ModeOK
  <1>1. IInv => ModeOK
    BY DEF IInv
  <1> QED BY <1>1, AlwaysIInv, PTL

(***************************************************************************)
(* However the input is dealt out and however often the window has slid,   *)
(* the window is the last window_size bytes received (compress.c:          *)
(* compress_slide_window, compress_fill).                                  *)
(***************************************************************************)
THEOREM WindowCorrect == Spec => []WindowHoldsInput
  <1>1. IInv => WindowHoldsInput
    BY DEF IInv
  <1> QED BY <1>1, AlwaysIInv, PTL

(***************************************************************************)
(* The assertions of compress_find_match, in terms of the input: each      *)
(* token repeats the bytes it stands for from within MAX_DISTANCE of them, *)
(* and so does the one the matcher holds back across slides and calls.     *)
(***************************************************************************)
THEOREM MatchCorrect == Spec => []MatchCopiesInput
  <1>1. IInv => MatchCopiesInput
    BY DEF IInv
  <1> QED BY <1>1, AlwaysIInv, PTL

-----------------------------------------------------------------------------
(* No stall. *)

LEMMA HeaderSuspends ==
    ASSUME IInv, compress_header, compress_suspend
    PROVE  avail_out' = 0
  <1> DEFINE header == yaz0_write_header(uncompressed_size)
             have   == Least(HEADER_SIZE - window_pos, avail_out)
  <1>1. BufferType /\ WindowType /\ ModeOK /\ mode = "HEADER"
    BY TypeParts DEF IInv, compress_header, At
  <1>2. Write(SubSeq(header, window_pos + 1, window_pos + have))
        /\ window_pos + have < HEADER_SIZE
    BY <1>1 DEF compress_header, compress_suspend, compress_continue
  <1>3. window_pos \in 0 .. HEADER_SIZE - 1 /\ avail_out \in Nat
    BY <1>1 DEF BufferType, WindowType, ModeOK, HEADER_SIZE
  <1>4. have = avail_out
    BY <1>2, <1>3 DEF Least, HEADER_SIZE
  <1>5. header \in Seq(Byte) /\ Len(header) = HEADER_SIZE
    BY <1>1, HeaderBytes DEF WindowType
  <1> HIDE DEF header, have
  <1>6. Len(SubSeq(header, window_pos + 1, window_pos + have)) = have
    <2>1. window_pos \in Nat /\ have \in Nat /\ window_pos + have <= Len(header)
      BY <1>2, <1>3, <1>4, <1>5 DEF HEADER_SIZE
    <2> QED BY <1>5, <2>1, Stretch
  <1> QED BY <1>2, <1>3, <1>4, <1>6 DEF Write

LEMMA BlockSuspends ==
    ASSUME IInv, compress_write_block \/ compress_flush, compress_suspend
    PROVE  avail_out' = 0
  <1> DEFINE have == Least(Len(block) - block_out, avail_out)
  <1>1. mode \in {"WRITE_BLOCK", "FLUSH"} /\ UNCHANGED resets /\ BlockType /\ BufferType
        /\ mode' = mode /\ ~running'
    BY TypeParts DEF IInv, compress_write_block, compress_flush, At, compress_suspend,
       Suspend, Return
  <1>2. WriteBlock(have) /\ block_out + have # Len(block)
    <2>1. CASE compress_write_block
      BY <1>1, <2>1 DEF compress_write_block, compress_continue
    <2>2. CASE compress_flush
      BY <1>1, <2>2 DEF compress_flush, compress_continue, compress_error, At
    <2> QED BY <2>1, <2>2
  <1>3. block_out + have \in 0 .. Len(block) /\ have \in Nat
        /\ (block_out + have < Len(block) => avail_out' = 0)
    BY <1>1, <1>2, BlockOut
  <1>4. block_out + have < Len(block)
    BY <1>1, <1>2, <1>3 DEF BlockType
  <1> QED BY <1>3, <1>4

LEMMA InitSuspended == Init => SuspendedMeansExhausted
  BY DEF Init, StreamInit, SuspendedMeansExhausted

LEMMA NextSuspended ==
    IInv /\ SuspendedMeansExhausted /\ [Next]_vars => SuspendedMeansExhausted'
  <1> SUFFICES ASSUME IInv, SuspendedMeansExhausted, [Next]_vars
               PROVE  SuspendedMeansExhausted'
    OBVIOUS
  <1> DEFINE Excused == running' \/ result' \notin {"OK", "BUFFER_ERROR"}
                        \/ avail_in' = 0 \/ avail_out' = 0
  <1> SUFFICES Excused
    BY DEF SuspendedMeansExhausted
  <1>1. ASSUME NEW next \in Mode, compress_continue(next), running PROVE Excused
    BY <1>1 DEF compress_continue, callVars
  <1>2. ASSUME NEW code, code \notin {"OK", "BUFFER_ERROR"}, compress_error(code)
        PROVE  Excused
    BY <1>2 DEF compress_error, Return
  <1>3. CASE Call
    BY <1>3 DEF Call, Enter
  <1>4. CASE compress_header
    BY <1>1, <1>4, HeaderSuspends DEF compress_header, At, Mode
  <1>5. CASE compress_fill
    BY <1>1, <1>2, <1>5, FillStep DEF compress_fill, At, Mode
  <1>6. CASE compress_find_match
    BY <1>1, <1>6 DEF compress_find_match, At, Mode
  <1>7. CASE compress_emit
    BY <1>1, <1>2, <1>7 DEF compress_emit, At, Mode
  <1>8. CASE compress_write_block
    BY <1>1, <1>8, BlockSuspends DEF compress_write_block, At, Mode
  <1>9. CASE compress_flush
    BY <1>1, <1>2, <1>9, BlockSuspends DEF compress_flush, At, Mode
  <1>10. CASE Settled
    <2>1. mode = "ERROR" => error = "SIZE_MISMATCH"
      BY DEF IInv, ModeOK
    <2> QED BY <1>10, <2>1 DEF Settled, At, Return
  <1>11. CASE yaz0_compress_reset
    BY <1>11 DEF yaz0_compress_reset
  <1>12. CASE UNCHANGED vars
    BY <1>12 DEF SuspendedMeansExhausted, vars, streamVars, callVars
  <1> QED BY <1>3, <1>4, <1>5, <1>6, <1>7, <1>8, <1>9, <1>10, <1>11, <1>12
          DEF Next, yaz0_compress

(***************************************************************************)
(* A call gives up only for want of what the caller can supply: it returns *)
(* without having finished only when it has used up one of its buffers.    *)
(* This is where WINDOW_SIZE matters, since a window without room for      *)
(* MAX_MATCH + 1 bytes ahead would stop a call that has both.              *)
(***************************************************************************)
THEOREM SuspendedCorrect == Spec => []SuspendedMeansExhausted
  BY AlwaysIInv, InitSuspended, NextSuspended, PTL DEF Spec

LEMMA NextReceived == IInv /\ ReceivedInReach /\ [Next]_vars => ReceivedInReach'
  <1> SUFFICES ASSUME IInv, ReceivedInReach, [Next]_vars PROVE ReceivedInReach'
    OBVIOUS
  <1>0. BufferType /\ WindowType /\ ModeOK /\ WindowHoldsInput
    BY TypeParts DEF IInv
  <1>1. CASE compress_fill
    <2> DEFINE bytes == Least(WINDOW_SIZE - (window_size - Drop), avail_in)
    <2>1. Encoding /\ received <= uncompressed_size
      BY <1>0, <1>1 DEF compress_fill, At, Encoding, ModeOK
    <2>2. window_size - Drop + bytes <= WINDOW_SIZE /\ bytes \in Nat /\ received \in Nat
      BY <1>0, <2>1, FillNumbers DEF Drop, BufferType
    <2>3. window_size - Drop \in Nat
      BY <1>0, <2>1, SizeFacts DEF Drop, WindowType, WindowHoldsInput
    <2>4. received' = received + bytes /\ UNCHANGED uncompressed_size
      BY <1>1 DEF compress_fill, configVars
    <2>5. uncompressed_size \in Nat
      BY <1>0 DEF WindowType
    <2> HIDE DEF bytes
    <2> QED BY <2>1, <2>2, <2>3, <2>4, <2>5, SizeFacts DEF ReceivedInReach
  <1>2. CASE yaz0_compress_reset
    <2>1. received' = 0 /\ uncompressed_size' \in Nat
      BY <1>2, RadixFacts DEF yaz0_compress_reset, DeclaredSizes
    <2>2. \A size \in Nat : 0 <= size + WINDOW_SIZE
      BY SizeFacts
    <2> QED BY <2>1, <2>2 DEF ReceivedInReach
  <1>3. CASE UNCHANGED <<received, uncompressed_size>>
    BY <1>3 DEF ReceivedInReach
  <1> QED BY <1>1, <1>2, <1>3 DEF Next, yaz0_compress, Call, compress_header, compress_find_match,
          compress_emit, compress_write_block, compress_flush, WriteBlock, Settled,
          configVars, windowVars, vars

\* With a size_t that holds the largest declared size and a window more, the
\* count of bytes received never wraps.
THEOREM ReceivedCorrect == Spec => []ReceivedInReach
  <1>1. Init => ReceivedInReach
    BY InitIInv, TypeParts, SizeFacts DEF Init, IInv, WindowType, ReceivedInReach
  <1> QED BY <1>1, AlwaysIInv, NextReceived, PTL DEF Spec
=============================================================================
