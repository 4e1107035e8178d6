-------------------------- MODULE TestDriverProofs --------------------------
(***************************************************************************)
(* The compression test is one of the callers of Compressor, so all that   *)
(* is proved there holds of it, and neither of its loops gives up on a     *)
(* stream: iterations is never more than the bytes moved, for a call that  *)
(* asks to be called again has moved one.                                  *)
(***************************************************************************)
EXTENDS TestDriver, CompressorOutputProofs

\* Abbreviations of the model.
USE DEF Readable, Writable, D!Readable, D!Writable

-----------------------------------------------------------------------------
(* The bytes a call moves. *)

\* What the buffers lose the totals gain.
Moves ==
    /\ input' = input
    /\ total_in' + avail_in' = total_in + avail_in
    /\ avail_in' <= avail_in
    /\ Len(out') + avail_out' = Len(out) + avail_out
    /\ avail_out' <= avail_out

\* A handler passes the turn, or returns; with OK only if a byte has moved.
Returned ==
    \/ UNCHANGED callVars
    \/ /\ ~running'
       /\ result' = "OK" => avail_in' # before_in \/ avail_out' # before_out

LEMMA Unmoved ==
    ASSUME BufferType, UNCHANGED streamVars
    PROVE  Moves
BY DEF BufferType, streamVars, Moves

LEMMA WriteMoves ==
    ASSUME BufferType, NEW bytes \in Seq(Byte), Write(bytes),
           UNCHANGED <<input, total_in, avail_in>>
    PROVE  Moves
<1>1. /\ Len(bytes) \in Nat /\ Len(out) \in Nat /\ avail_out \in Nat
      /\ Len(out') = Len(out) + Len(bytes) /\ avail_out' = avail_out - Len(bytes)
  BY DEF BufferType, Write
<1>2. QED
  BY <1>1 DEF BufferType, Moves

LEMMA Endings ==
    /\ \A next : compress_continue(next) => Returned
    /\ compress_suspend => Returned
    /\ \A code : compress_error(code) /\ code # "OK" => Returned
BY DEF Returned, compress_continue, compress_suspend, compress_error, Suspend, Return

\* Every handler of yaz0_compress.
LEMMA CompressMoves ==
    ASSUME IInv, yaz0_compress
    PROVE  running /\ Moves /\ Returned
<1> USE DEF At
<1>0. BufferType /\ ControlType /\ WindowType /\ BlockType /\ ModeOK
  BY TypeParts DEF IInv
<1>1. CASE compress_header
  <2> DEFINE header == yaz0_write_header(uncompressed_size)
             have == Least(HEADER_SIZE - window_pos, avail_out)
  <2>1. /\ Write(SubSeq(header, window_pos + 1, window_pos + have))
        /\ UNCHANGED <<input, total_in, avail_in>>
    BY <1>1 DEF compress_header
  <2>2. /\ header \in Seq(Byte) /\ have \in Nat /\ window_pos \in Nat
        /\ window_pos + have <= Len(header)
    <3>1. header \in Seq(Byte) /\ Len(header) = HEADER_SIZE
      BY <1>0, HeaderBytes DEF WindowType
    <3>2. window_pos \in Nat /\ window_pos < HEADER_SIZE /\ avail_out \in Nat
      BY <1>0, <1>1 DEF WindowType, BufferType, ModeOK, compress_header
    <3> HIDE DEF header
    <3>3. QED
      BY <3>1, <3>2 DEF Least, HEADER_SIZE
  <2>3. SubSeq(header, window_pos + 1, window_pos + have) \in Seq(Byte)
    <3> HIDE DEF header, have
    <3>1. QED
      BY <2>2, Stretch
  <2>4. Returned
    BY <1>1, Endings DEF compress_header
  <2>5. Moves
    BY <1>0, <2>1, <2>3, WriteMoves
  <2>6. QED
    BY <1>1, <2>4, <2>5 DEF compress_header
<1>2. CASE compress_fill
  <2>1. PICK n \in Nat : Read(n) /\ UNCHANGED <<out, avail_out>>
    <3> DEFINE n == Least(WINDOW_SIZE - (window_size - Drop), avail_in)
    <3>1. Read(n) /\ UNCHANGED <<out, avail_out>>
      BY <1>2 DEF compress_fill
    <3>2. n \in Nat
      BY <1>0, SizeFacts DEF WindowType, BufferType, Drop, Least
    <3>3. QED
      BY <3>1, <3>2
  <2>2. Moves
    BY <1>0, <2>1 DEF Read, BufferType, Moves
  <2>3. Returned
    BY <1>2, Endings DEF compress_fill
  <2>4. QED
    BY <1>2, <2>2, <2>3 DEF compress_fill
<1>3. CASE compress_find_match
  BY <1>0, <1>3, Unmoved, Endings DEF compress_find_match
<1>4. CASE compress_emit
  BY <1>0, <1>4, Unmoved, Endings DEF compress_emit
<1>5. CASE compress_write_block \/ compress_flush
  <2> DEFINE have == Least(Len(block) - block_out, avail_out)
  <2>1. \/ WriteBlock(have)
        \/ UNCHANGED streamVars
    BY <1>5 DEF compress_write_block, compress_flush
  <2>2. SubSeq(block, block_out + 1, block_out + have) \in Seq(Byte)
    <3>1. /\ block \in Seq(Byte) /\ block_out \in Nat /\ have \in Nat
          /\ block_out + have <= Len(block)
      BY <1>0 DEF BlockType, BufferType, Least
    <3> HIDE DEF have
    <3>2. QED
      BY <3>1, Stretch
  <2>3. Moves
    BY <1>0, <2>1, <2>2, WriteMoves, Unmoved DEF WriteBlock
  <2>4. Returned
    BY <1>5, Endings DEF compress_write_block, compress_flush
  <2>5. QED
    BY <1>5, <2>3, <2>4 DEF compress_write_block, compress_flush
<1>6. CASE Settled
  <2>1. mode = "ERROR" => error # "OK"
    BY <1>0 DEF ModeOK
  <2>2. Returned
    BY <1>6, <2>1 DEF Settled, Return, Returned
  <2>3. QED
    BY <1>0, <1>6, <2>2, Unmoved DEF Settled
<1>7. QED
  BY <1>1, <1>2, <1>3, <1>4, <1>5, <1>6 DEF yaz0_compress

-----------------------------------------------------------------------------
(* The same of the decompressor.                                           *)

d_Byte == Byte \cup {STALE}

\* As much of its type as the count of the bytes needs.
d_Type ==
    /\ d_total_in \in Nat /\ d_avail_in \in Nat /\ d_total_in + d_avail_in <= Len(out)
    /\ d_out \in Seq(d_Byte) /\ d_avail_out \in Nat
    /\ d_running \in BOOLEAN /\ d_before_in \in Nat /\ d_before_out \in Nat
    /\ d_history \in [D!Slots -> d_Byte] /\ d_history_pos \in Nat
    /\ d_reference \in Seq(Byte) /\ d_copy_distance \in Nat
    /\ d_mode = "HEADER" => d_history_pos < HEADER_SIZE
    /\ d_mode = "ERROR" => d_error # "OK"

d_Moves ==
    /\ d_total_in' + d_avail_in' = d_total_in + d_avail_in
    /\ d_avail_in' <= d_avail_in
    /\ Len(d_out') + d_avail_out' = Len(d_out) + d_avail_out
    /\ d_avail_out' <= d_avail_out

d_Returned ==
    \/ UNCHANGED D!callVars
    \/ /\ d_running' = FALSE
       /\ d_before_in' = 0 /\ d_before_out' = 0
       /\ d_result' = "OK" => d_avail_in' # d_before_in \/ d_avail_out' # d_before_out

\* The part of the type that reading and writing disturb, and the rest.
d_Buffers ==
    /\ d_total_in \in Nat /\ d_avail_in \in Nat /\ d_total_in + d_avail_in <= Len(out)
    /\ d_out \in Seq(d_Byte) /\ d_avail_out \in Nat

d_Control ==
    /\ d_running \in BOOLEAN /\ d_before_in \in Nat /\ d_before_out \in Nat
    /\ d_mode = "ERROR" => d_error # "OK"

d_Ring == d_history \in [D!Slots -> d_Byte] /\ d_history_pos \in Nat

d_Begun == d_mode = "HEADER" => d_history_pos < HEADER_SIZE

d_Pair == d_reference \in Seq(Byte) /\ d_copy_distance \in Nat

LEMMA d_Parts ==
    /\ d_Type => d_Buffers /\ d_Control /\ d_Ring /\ d_Begun /\ d_Pair
    /\ d_Buffers' /\ d_Control' /\ d_Ring' /\ d_Begun' /\ d_Pair' => d_Type'
BY DEF d_Type, d_Buffers, d_Control, d_Ring, d_Begun, d_Pair

LEMMA d_Endings ==
    ASSUME d_Control
    PROVE  /\ \A next : D!decompress_continue(next) /\ next # "ERROR"
                   => d_Returned /\ d_Control'
           /\ D!decompress_suspend => d_Returned /\ d_Control'
           /\ \A code : D!decompress_error(code) /\ code # "OK" => d_Returned /\ d_Control'
<1>1. ASSUME NEW next, D!decompress_continue(next), next # "ERROR"
      PROVE  d_Returned /\ d_Control'
  BY <1>1 DEF d_Returned, d_Control, D!decompress_continue, D!callVars
<1>2. ASSUME D!decompress_suspend
      PROVE  d_Returned /\ d_Control'
  <2>1. /\ d_running' = FALSE /\ d_before_in' = 0 /\ d_before_out' = 0
        /\ d_result' = "OK" => ~(d_avail_in' = d_before_in /\ d_avail_out' = d_before_out)
        /\ d_mode' = d_mode /\ d_error' = d_error
    BY <1>2 DEF D!decompress_suspend, D!Suspend, D!Return
  <2>2. QED
    BY <2>1 DEF d_Returned, d_Control
<1>3. ASSUME NEW code, D!decompress_error(code), code # "OK"
      PROVE  d_Returned /\ d_Control'
  <2>1. /\ d_running' = FALSE /\ d_before_in' = 0 /\ d_before_out' = 0
        /\ d_result' = code /\ d_mode' = "ERROR" /\ d_error' = code
    BY <1>3 DEF D!decompress_error, D!Return
  <2>2. QED
    BY <1>3, <2>1 DEF d_Returned, d_Control
<1>4. QED
  BY <1>1, <1>2, <1>3

LEMMA d_Starved ==
    ASSUME d_Control, D!Starved
    PROVE  d_Returned /\ d_Control'
BY d_Endings DEF D!Starved

\* Behind the header no handler goes back to it.
LEMMA d_Ends ==
    ASSUME d_mode # "HEADER",
           \/ \E next : D!decompress_continue(next) /\ next # "HEADER"
           \/ \E code : D!decompress_error(code)
           \/ D!decompress_suspend \/ D!Starved
    PROVE  d_mode' # "HEADER"
BY DEF D!decompress_continue, D!decompress_error, D!decompress_suspend, D!Starved

LEMMA d_ReadMoves ==
    ASSUME out \in Seq(Byte), d_Buffers, NEW n \in Nat, n <= d_avail_in, D!Read(n),
           UNCHANGED <<d_out, d_avail_out>>
    PROVE  d_Buffers' /\ d_Moves
<1>1. /\ out' = out /\ Len(out) \in Nat /\ d_out' = d_out /\ d_avail_out' = d_avail_out
      /\ d_total_in' = d_total_in + n /\ d_avail_in' = d_avail_in - n
  BY DEF D!Read
<1>2. QED
  BY <1>1 DEF d_Buffers, d_Moves

LEMMA d_Unmoved ==
    ASSUME d_Buffers, UNCHANGED D!streamVars
    PROVE  d_Buffers' /\ d_Moves
BY DEF d_Buffers, d_Moves, D!streamVars

\* A byte is put out, and perhaps one read for it.
LEMMA d_EmitMoves ==
    ASSUME out \in Seq(Byte), d_Buffers, d_Ring, NEW b \in d_Byte, D!Emit(b), D!HasRoom,
           NEW n \in {0, 1}, n <= d_avail_in,
           d_total_in' = d_total_in + n, d_avail_in' = d_avail_in - n, out' = out
    PROVE  d_Buffers' /\ d_Ring' /\ d_Moves
<1>1. /\ d_out' = Append(d_out, b) /\ d_avail_out' = d_avail_out - 1
      /\ d_history' = [d_history EXCEPT ![d_history_pos % MAX_DISTANCE] = b]
      /\ d_history_pos' = d_history_pos + 1
  BY DEF D!Emit, D!WriteByte
<1>2. /\ d_out' \in Seq(d_Byte) /\ Len(d_out') = Len(d_out) + 1 /\ Len(d_out) \in Nat
      /\ d_avail_out' \in Nat
  BY <1>1 DEF d_Buffers, D!HasRoom
<1>3. d_Buffers' /\ d_Moves
  BY <1>1, <1>2 DEF d_Buffers, d_Moves
<1>4. d_Ring'
  <2> DEFINE slot == d_history_pos % MAX_DISTANCE
  <2> HIDE DEF slot
  <2>1. d_history' = [d_history EXCEPT ![slot] = b]
    BY <1>1 DEF slot
  <2>2. d_history' \in [D!Slots -> d_Byte]
    BY <2>1 DEF d_Ring
  <2>3. QED
    BY <1>1, <2>2 DEF d_Ring, D!Slots
<1>5. QED
  BY <1>3, <1>4

LEMMA d_HeaderMoves ==
    ASSUME out \in Seq(Byte), out' = out, d_Type, D!decompress_header
    PROVE  d_Type' /\ d_Moves /\ d_Returned
<1> DEFINE have == D!Least(D!HEADER_SIZE - d_history_pos, d_avail_in)
           read == [slot \in D!Slots |->
                      IF slot \in d_history_pos .. d_history_pos + have - 1
                      THEN out[d_total_in + 1 + slot - d_history_pos]
                      ELSE d_history[slot]]
<1>0. d_Buffers /\ d_Control /\ d_Ring /\ d_Begun /\ d_Pair
  BY d_Parts
<1>1. /\ d_mode = "HEADER"
      /\ D!Read(have) /\ UNCHANGED <<d_out, d_avail_out>>
      /\ d_history' = read
      /\ UNCHANGED <<d_reference, d_copy_distance>>
  BY DEF D!decompress_header, D!copyVars, D!At
<1>2. /\ have \in Nat /\ have <= d_avail_in /\ d_history_pos + have <= HEADER_SIZE
      /\ d_history_pos \in Nat
  BY <1>0, <1>1 DEF d_Begun, d_Ring, d_Buffers, D!Least, D!HEADER_SIZE, HEADER_SIZE
<1>3. read \in [D!Slots -> d_Byte]
  <2> HIDE DEF have
  <2>1. ASSUME NEW slot \in D!Slots
        PROVE  read[slot] \in d_Byte
    <3>1. CASE slot \in d_history_pos .. d_history_pos + have - 1
      <4>1. d_total_in + 1 + slot - d_history_pos \in 1 .. Len(out)
        BY <1>0, <1>2, <2>1, <3>1 DEF d_Buffers
      <4>2. QED
        BY <2>1, <3>1, <4>1 DEF d_Byte
    <3>2. CASE slot \notin d_history_pos .. d_history_pos + have - 1
      BY <1>0, <2>1, <3>2 DEF d_Ring
    <3>3. QED
      BY <3>1, <3>2
  <2>2. QED
    BY <2>1
<1>4. d_Buffers' /\ d_Moves
  <2> HIDE DEF have
  <2>1. QED
    BY <1>0, <1>1, <1>2, d_ReadMoves
<1>5. \/ /\ d_history_pos + have < HEADER_SIZE
         /\ d_history_pos' = d_history_pos + have
         /\ D!Starved
      \/ /\ d_history_pos' = HEADER_SIZE
         /\ D!decompress_error("BAD_HEADER")
      \/ /\ d_history_pos' = 0
         /\ \E next \in {"DONE", "START_BLOCK"} : D!decompress_continue(next)
  BY DEF D!decompress_header, D!HEADER_SIZE, HEADER_SIZE
<1> HIDE DEF have, read
<1>6. d_Control' /\ d_Returned
  BY <1>0, <1>5, d_Endings, d_Starved
<1>7. d_history_pos' \in Nat /\ d_Begun'
  BY <1>0, <1>1, <1>2, <1>5 DEF d_Begun, HEADER_SIZE, D!decompress_error, D!decompress_continue
<1>8. d_Ring' /\ d_Pair'
  BY <1>0, <1>1, <1>3, <1>7 DEF d_Ring, d_Pair
<1>9. QED
  BY <1>4, <1>6, <1>7, <1>8, d_Parts

LEMMA d_StartBlockMoves ==
    ASSUME out \in Seq(Byte), out' = out, d_Type, D!decompress_start_block
    PROVE  d_Type' /\ d_Moves /\ d_Returned
<1>0. d_Buffers /\ d_Control /\ d_Ring /\ d_Begun /\ d_Pair
  BY d_Parts
<1>1. /\ d_mode = "START_BLOCK"
      /\ UNCHANGED <<d_out, d_avail_out, d_history, d_history_pos,
                     d_reference, d_copy_distance>>
      /\ \/ D!HasInput /\ D!Read(1) /\ D!decompress_continue("TOKEN")
         \/ UNCHANGED D!streamVars /\ D!Starved
  BY DEF D!decompress_start_block, D!copyVars, D!ringVars, D!streamVars, D!At
<1>2. d_Buffers' /\ d_Moves
  BY <1>0, <1>1, d_ReadMoves, d_Unmoved DEF D!HasInput, d_Buffers
<1>3. d_Control' /\ d_Returned
  BY <1>0, <1>1, d_Endings, d_Starved
<1>4. d_mode' # "HEADER"
  BY <1>1, d_Ends
<1>5. QED
  BY <1>0, <1>1, <1>2, <1>3, <1>4, d_Parts DEF d_Ring, d_Begun, d_Pair

LEMMA d_TokenMoves ==
    ASSUME out \in Seq(Byte), out' = out, d_Type, D!decompress_token
    PROVE  d_Type' /\ d_Moves /\ d_Returned
<1>0. d_Buffers /\ d_Control /\ d_Ring /\ d_Begun /\ d_Pair
  BY d_Parts
<1>1. /\ UNCHANGED D!streamVars
      /\ UNCHANGED <<d_history, d_history_pos, d_copy_distance>>
      /\ d_reference' \in {d_reference, <<>>}
      /\ \E next \in {"DONE", "START_BLOCK", "LITERAL", "REFERENCE"} :
            D!decompress_continue(next)
  BY DEF D!decompress_token, D!copyVars, D!ringVars
<1>2. d_Buffers' /\ d_Moves
  BY <1>0, <1>1, d_Unmoved
<1>3. d_Control' /\ d_Returned
  BY <1>0, <1>1, d_Endings
<1>4. d_mode' # "HEADER"
  BY <1>1 DEF D!decompress_continue
<1>5. d_Pair'
  <2>1. <<>> \in Seq(Byte)
    OBVIOUS
  <2>2. QED
    BY <1>0, <1>1, <2>1 DEF d_Pair
<1>6. QED
  BY <1>0, <1>1, <1>2, <1>3, <1>4, <1>5, d_Parts DEF d_Ring, d_Begun

LEMMA d_LiteralMoves ==
    ASSUME out \in Seq(Byte), out' = out, d_Type, D!decompress_literal
    PROVE  d_Type' /\ d_Moves /\ d_Returned
<1>0. d_Buffers /\ d_Control /\ d_Ring /\ d_Begun /\ d_Pair
  BY d_Parts
<1>1. /\ d_mode = "LITERAL"
      /\ UNCHANGED <<d_reference, d_copy_distance>>
      /\ \/ /\ D!HasInput /\ D!HasRoom /\ D!Read(1) /\ D!Emit(D!NextByte)
            /\ D!decompress_continue("TOKEN")
         \/ /\ UNCHANGED D!streamVars /\ UNCHANGED <<d_history, d_history_pos>>
            /\ D!Starved \/ D!decompress_suspend
  BY DEF D!decompress_literal, D!copyVars, D!ringVars, D!streamVars, D!NoEmit, D!At
<1>2. d_Buffers' /\ d_Ring' /\ d_Moves
  <2>1. CASE D!HasInput /\ D!HasRoom /\ D!Read(1) /\ D!Emit(D!NextByte)
    <3>1. D!NextByte \in d_Byte /\ 1 <= d_avail_in
      <4>1. d_avail_in \in Nat \ {0} /\ d_total_in + 1 \in 1 .. Len(out)
        BY <1>0, <2>1 DEF d_Buffers, D!HasInput
      <4>2. QED
        BY <4>1 DEF D!NextByte, d_Byte
    <3>2. QED
      BY <1>0, <2>1, <3>1, d_EmitMoves DEF D!Read
  <2>2. CASE UNCHANGED D!streamVars /\ UNCHANGED <<d_history, d_history_pos>>
    BY <1>0, <2>2, d_Unmoved DEF d_Ring
  <2>3. QED
    BY <1>1, <2>1, <2>2
<1>3. d_Control' /\ d_Returned
  BY <1>0, <1>1, d_Endings, d_Starved
<1>4. d_mode' # "HEADER"
  BY <1>1, d_Ends
<1>5. QED
  BY <1>0, <1>1, <1>2, <1>3, <1>4, d_Parts DEF d_Begun, d_Pair

LEMMA d_ReferenceMoves ==
    ASSUME out \in Seq(Byte), out' = out, d_Type, D!decompress_reference
    PROVE  d_Type' /\ d_Moves /\ d_Returned
<1>0. d_Buffers /\ d_Control /\ d_Ring /\ d_Begun /\ d_Pair
  BY d_Parts
<1>1. /\ d_mode = "REFERENCE"
      /\ UNCHANGED <<d_out, d_avail_out, d_history, d_history_pos>>
      /\ \/ /\ UNCHANGED D!streamVars /\ D!Starved
            /\ UNCHANGED <<d_reference, d_copy_distance>>
         \/ /\ D!HasInput /\ D!Read(1) /\ d_reference' = Append(d_reference, D!NextByte)
            /\ \/ d_copy_distance' = d_copy_distance
               \/ /\ D!ReferenceComplete(d_reference')
                  /\ d_copy_distance' = D!ReferenceDistance(d_reference')
            /\ \/ \E next \in {"REFERENCE", "COPY"} : D!decompress_continue(next)
               \/ D!decompress_error("DATA_ERROR")
  BY DEF D!decompress_reference, D!copyVars, D!ringVars, D!streamVars, D!At
<1>2. d_Buffers' /\ d_Moves
  BY <1>0, <1>1, d_ReadMoves, d_Unmoved DEF D!HasInput, d_Buffers
<1>3. d_Control' /\ d_Returned
  BY <1>0, <1>1, d_Endings, d_Starved
<1>4. d_mode' # "HEADER"
  BY <1>1, d_Ends
<1>5. d_Pair'
  <2>1. CASE UNCHANGED <<d_reference, d_copy_distance>>
    BY <1>0, <2>1 DEF d_Pair
  <2>2. CASE /\ D!HasInput /\ d_reference' = Append(d_reference, D!NextByte)
             /\ \/ d_copy_distance' = d_copy_distance
                \/ /\ D!ReferenceComplete(d_reference')
                   /\ d_copy_distance' = D!ReferenceDistance(d_reference')
    <3>1. D!NextByte \in Byte
      <4>1. d_avail_in \in Nat \ {0} /\ d_total_in + 1 \in 1 .. Len(out)
        BY <1>0, <2>2 DEF d_Buffers, D!HasInput
      <4>2. QED
        BY <4>1 DEF D!NextByte
    <3>2. d_reference' \in Seq(Byte)
      BY <1>0, <2>2, <3>1 DEF d_Pair
    <3>3. CASE D!ReferenceComplete(d_reference')
      <4>1. d_reference'[1] \in Byte /\ d_reference'[2] \in Byte
        <5>1. Len(d_reference') \in {2, 3}
          BY <3>3 DEF D!ReferenceComplete
        <5>2. QED
          BY <3>2, <5>1
      <4>2. D!ReferenceDistance(d_reference') \in Nat
        <5>1. \A b, c \in Byte : (b % NIBBLE) * Radix + c + D!DISTANCE_BIAS \in Nat
          <6>1. Radix \in Nat /\ NIBBLE \in Nat \ {0}
            BY FormatAssumption DEF Radix
          <6>2. \A b, c \in Byte : b \in Nat /\ c \in Nat
            BY <6>1 DEF Byte
          <6>3. \A b \in Nat : b % NIBBLE \in Nat
            BY <6>1
          <6>4. \A b \in Byte : (b % NIBBLE) * Radix \in Nat
            BY <6>1, <6>2, <6>3
          <6>5. QED
            BY <6>2, <6>4 DEF D!DISTANCE_BIAS
        <5>2. QED
          BY <4>1, <5>1 DEF D!ReferenceDistance, D!Radix, Radix
      <4>3. QED
        BY <1>0, <2>2, <3>2, <4>2 DEF d_Pair
    <3>4. QED
      BY <1>0, <2>2, <3>2, <3>3 DEF d_Pair
  <2>3. QED
    BY <1>1, <2>1, <2>2
<1>6. QED
  BY <1>0, <1>1, <1>2, <1>3, <1>4, <1>5, d_Parts DEF d_Ring, d_Begun

LEMMA d_CopyMoves ==
    ASSUME out \in Seq(Byte), out' = out, d_Type, D!decompress_copy
    PROVE  d_Type' /\ d_Moves /\ d_Returned
<1>0. d_Buffers /\ d_Control /\ d_Ring /\ d_Begun /\ d_Pair
  BY d_Parts
<1>1. /\ d_mode = "COPY"
      /\ UNCHANGED <<d_reference, d_copy_distance>>
      /\ \/ /\ D!HasRoom /\ D!Emit(D!CopySource)
            /\ UNCHANGED <<d_total_in, d_avail_in>>
            /\ D!decompress_continue("COPY")
         \/ /\ UNCHANGED D!streamVars /\ UNCHANGED <<d_history, d_history_pos>>
            /\ D!decompress_suspend \/ D!decompress_continue("TOKEN")
  BY DEF D!decompress_copy, D!ringVars, D!streamVars, D!At
<1>2. d_Buffers' /\ d_Ring' /\ d_Moves
  <2>1. CASE D!HasRoom /\ D!Emit(D!CopySource) /\ UNCHANGED <<d_total_in, d_avail_in>>
    <3>1. D!CopySource \in d_Byte
      <4>1. d_history_pos - d_copy_distance \in Int
        BY <1>0 DEF d_Ring, d_Pair
      <4>2. MAX_DISTANCE \in Nat /\ MAX_DISTANCE > 0
        BY SizeFacts
      <4>3. (d_history_pos - d_copy_distance) % MAX_DISTANCE \in D!Slots
        BY <4>1, <4>2 DEF D!Slots
      <4>4. QED
        BY <1>0, <4>3 DEF d_Ring, D!CopySource
    <3>2. d_total_in' = d_total_in + 0 /\ d_avail_in' = d_avail_in - 0 /\ 0 <= d_avail_in
      BY <1>0, <2>1 DEF d_Buffers
    <3>3. QED
      BY <1>0, <2>1, <3>1, <3>2, d_EmitMoves
  <2>2. CASE UNCHANGED D!streamVars /\ UNCHANGED <<d_history, d_history_pos>>
    BY <1>0, <2>2, d_Unmoved DEF d_Ring
  <2>3. QED
    BY <1>1, <2>1, <2>2
<1>3. d_Control' /\ d_Returned
  BY <1>0, <1>1, d_Endings
<1>4. d_mode' # "HEADER"
  BY <1>1, d_Ends
<1>5. QED
  BY <1>0, <1>1, <1>2, <1>3, <1>4, d_Parts DEF d_Begun, d_Pair

LEMMA d_SettledMoves ==
    ASSUME out \in Seq(Byte), out' = out, d_Type, D!Settled
    PROVE  d_Type' /\ d_Moves /\ d_Returned
<1>0. d_Buffers /\ d_Control /\ d_Ring /\ d_Begun /\ d_Pair
  BY d_Parts
<1>1. /\ d_mode \in {"ERROR", "DONE"}
      /\ UNCHANGED D!streamVars
      /\ UNCHANGED <<d_mode, d_error, d_history, d_history_pos,
                     d_reference, d_copy_distance>>
      /\ D!Return(IF d_mode = "ERROR" THEN d_error ELSE "STREAM_END")
  BY DEF D!Settled, D!copyVars, D!ringVars, D!At
<1>2. /\ d_running' = FALSE /\ d_before_in' = 0 /\ d_before_out' = 0
      /\ d_result' # "OK"
  BY <1>0, <1>1 DEF D!Return, d_Control
<1>3. d_Buffers' /\ d_Moves
  BY <1>0, <1>1, d_Unmoved
<1>4. d_Control' /\ d_Returned
  BY <1>0, <1>1, <1>2 DEF d_Control, d_Returned
<1>5. QED
  BY <1>0, <1>1, <1>3, <1>4, d_Parts DEF d_Ring, d_Begun, d_Pair

\* Every handler of yaz0_decompress.
LEMMA DecompressMoves ==
    ASSUME out \in Seq(Byte), out' = out, d_Type, D!yaz0_decompress
    PROVE  d_running /\ d_Type' /\ d_Moves /\ d_Returned
<1>1. d_running
  BY DEF D!yaz0_decompress, D!At, D!decompress_header, D!decompress_start_block,
         D!decompress_token, D!decompress_literal, D!decompress_reference,
         D!decompress_copy, D!Settled
<1>2. QED
  BY <1>1, d_HeaderMoves, d_StartBlockMoves, d_TokenMoves, d_LiteralMoves,
     d_ReferenceMoves, d_CopyMoves, d_SettledMoves DEF D!yaz0_decompress

-----------------------------------------------------------------------------
(* The inductive invariant of the test.                                    *)

DriverType ==
    /\ IInv /\ input \in Inputs
    /\ d_Type
    /\ stage \in {"compress", "decompress", "finished"}
    /\ in_chunk \in InChunks /\ out_chunk \in OutChunks
    /\ iterations \in Nat

\* What has been moved before the call that runs, if one does, pays for all
\* iterations but its own.
Counted ==
    stage = "compress" =>
        /\ Len(out) + avail_out <= out_size
        /\ ~running /\ result = "OK" => iterations <= total_in + Len(out)
        /\ running =>
              /\ avail_in <= before_in /\ avail_out <= before_out
              /\ iterations <= 1 + (total_in + avail_in - before_in)
                                 + (Len(out) + avail_out - before_out)

d_Counted ==
    stage = "decompress" =>
        /\ d_out_size \in Nat
        /\ Len(d_out) + d_avail_out <= d_out_size
        /\ ~d_running /\ d_result = "OK" => iterations <= d_total_in + Len(d_out)
        /\ d_running =>
              /\ d_avail_in <= d_before_in /\ d_avail_out <= d_before_out
              /\ iterations <= 1 + (d_total_in + d_avail_in - d_before_in)
                                 + (Len(d_out) + d_avail_out - d_before_out)

\* The second stream waits for the first.
d_Waits ==
    stage = "compress" =>
        /\ d_total_in = 0 /\ d_avail_in = 0 /\ d_out = <<>> /\ d_avail_out = 0
        /\ ~d_running

TInv == DriverType /\ Counted /\ d_Counted /\ d_Waits

LEMMA PortionFits ==
    ASSUME NEW chunk \in Nat, NEW size \in Nat, NEW done \in Nat, done <= size
    PROVE  /\ Portion(chunk, size, done) \in 0 .. size - done
           /\ chunk > 0 => Portion(chunk, size, done) <= chunk
           /\ FlushFor(done, Portion(chunk, size, done), size) = "FINISH" =>
                 Portion(chunk, size, done) = size - done
           /\ FlushFor(done, Portion(chunk, size, done), size) = "NO_FLUSH" =>
                 chunk > 0
           /\ FlushFor(done, Portion(chunk, size, done), size) \in {"FINISH", "NO_FLUSH"}
BY DEF Portion, FlushFor, Least

\* The driver calls as callers of Compressor do.
LEMMA DriverCalls ==
    ASSUME TInv, CompressCall
    PROVE  Call
<1> DEFINE give == Portion(in_chunk, Len(input), total_in)
           want == Portion(out_chunk, out_size, Len(out))
           kind == FlushFor(total_in, give, Len(input))
<1>1. /\ Enter(give, want, kind)
      /\ UNCHANGED <<mode, error, configVars, windowVars, match, matcherVars, blockVars,
                     resets>>
  BY DEF CompressCall
<1>2. /\ Len(input) \in Nat /\ total_in \in Nat /\ total_in <= Len(input)
      /\ Len(out) \in Nat /\ Len(out) <= out_size /\ out_size \in Nat
      /\ out_size <= MAX_ROOM /\ in_chunk \in 0 .. MAX_GIVE /\ out_chunk \in 0 .. MAX_ROOM
  <2>1. BufferType /\ stage = "compress"
    BY TypeParts DEF TInv, DriverType, IInv, CompressCall
  <2>2. out_size \in Nat /\ out_size <= MAX_ROOM
    BY <2>1, BoundInNat, DriverAssumption DEF TInv, DriverType, BufferType, out_size
  <2>3. QED
    BY <2>1, <2>2, DriverAssumption DEF TInv, DriverType, BufferType, Counted
<1>3. /\ give \in 0 .. Len(input) - total_in
      /\ in_chunk > 0 => give <= in_chunk
      /\ kind = "FINISH" => give = Len(input) - total_in
      /\ kind = "NO_FLUSH" => in_chunk > 0
      /\ kind \in {"FINISH", "NO_FLUSH"}
  BY <1>2, PortionFits
<1>4. want \in 0 .. MAX_ROOM
  <2>1. want \in 0 .. out_size - Len(out)
    BY <1>2, PortionFits
  <2> HIDE DEF want
  <2>2. QED
    BY <1>2, <2>1, StreamAssumption
<1> HIDE DEF give, want, kind
<1>5. give \in Offers(kind)
  BY <1>2, <1>3, StreamAssumption DEF Offers, Left, Least
<1>6. QED
  BY <1>1, <1>3, <1>4, <1>5 DEF Call

LEMMA DriverSteps ==
    ASSUME TInv, [TestNext]_testVars
    PROVE  [Next]_vars
<1>1. CASE CompressCall
  BY <1>1, DriverCalls DEF Next
<1>2. CASE CompressRuns
  BY <1>2 DEF CompressRuns, Next
<1>3. CASE UNCHANGED vars
  BY <1>3
<1>4. QED
  BY <1>1, <1>2, <1>3 DEF TestNext, testVars, DecompressBegins, DecompressCall,
     DecompressRuns, Finishes

\* How many bytes a call has moved: i iterations, n bytes of input in all and a
\* still to read, b to read at first, and likewise for output.
LEMMA Count ==
    ASSUME NEW i \in Nat,
           NEW n1 \in Nat, NEW a1 \in Nat, NEW n2 \in Nat, NEW a2 \in Nat, NEW b \in Nat,
           NEW m1 \in Nat, NEW r1 \in Nat, NEW m2 \in Nat, NEW r2 \in Nat, NEW c \in Nat,
           n2 + a2 = n1 + a1, a2 <= a1, a1 <= b,
           m2 + r2 = m1 + r1, r2 <= r1, r1 <= c,
           i <= 1 + (n1 + a1 - b) + (m1 + r1 - c)
    PROVE  /\ a2 <= b /\ r2 <= c
           /\ i <= 1 + (n2 + a2 - b) + (m2 + r2 - c)
           /\ a2 # b \/ r2 # c => i <= n2 + m2
OBVIOUS

LEMMA InitTInv == TestInit => TInv
<1> SUFFICES ASSUME TestInit PROVE TInv
  OBVIOUS
<1>0. IInv /\ input \in Inputs /\ out = <<>> /\ iterations = 0 /\ stage = "compress"
  BY InitIInv DEF TestInit, Init, StreamInit
<1>1. out_size \in Nat
  BY <1>0, StreamAssumption, BoundInNat DEF out_size
<1>2. d_Waits
  BY DEF TestInit, D!Init, D!StreamInit, d_Waits
<1>3. d_Type
  <2>1. d_Buffers
    BY <1>0 DEF TestInit, D!Init, D!StreamInit, d_Buffers
  <2>2. d_Control /\ d_Begun
    <3>1. /\ d_running = FALSE /\ d_before_in = 0 /\ d_before_out = 0
          /\ d_mode = "HEADER" /\ d_history_pos = 0
      BY DEF TestInit, D!Init, D!StreamInit
    <3>2. d_Begun
      BY <3>1 DEF d_Begun, HEADER_SIZE
    <3>3. d_Control
      BY <3>1 DEF d_Control
    <3>4. QED
      BY <3>2, <3>3
  <2>3. d_Ring
    BY DEF TestInit, D!Init, d_Ring, d_Byte
  <2>4. d_Pair
    BY DEF TestInit, D!Init, d_Pair
  <2>5. QED
    BY <2>1, <2>2, <2>3, <2>4 DEF d_Type, d_Buffers, d_Control, d_Ring, d_Begun, d_Pair
<1>4. DriverType
  BY <1>0, <1>3 DEF TestInit, DriverType
<1>5. Counted
  BY <1>0, <1>1 DEF TestInit, Init, StreamInit, Counted
<1>6. d_Counted
  BY <1>0 DEF d_Counted
<1>7. QED
  BY <1>2, <1>4, <1>5, <1>6 DEF TInv

\* A call of yaz0_compress is entered.
LEMMA CompressCallTInv ==
    ASSUME TInv, CompressCall, IInv'
    PROVE  TInv'
<1> DEFINE give == Portion(in_chunk, Len(input), total_in)
           want == Portion(out_chunk, out_size, Len(out))
<1>1. /\ stage = "compress" /\ ~running /\ result = "OK"
      /\ Enter(give, want, FlushFor(total_in, give, Len(input)))
      /\ iterations' = iterations + 1
      /\ UNCHANGED <<d_vars, stage, in_chunk, out_chunk>>
  BY DEF CompressCall, Continues
<1>2. input \in Inputs /\ IInv /\ d_Type /\ iterations \in Nat
  BY DEF TInv, DriverType
<1>3. Len(out) \in Nat /\ total_in \in Nat /\ input \in Seq(Byte)
  BY <1>2, TypeParts DEF IInv, BufferType
<1>4. out_size \in Nat /\ out_chunk \in Nat
  BY <1>2, <1>3, BoundInNat, DriverAssumption, StreamAssumption
     DEF out_size, TInv, DriverType
<1>5. want \in 0 .. out_size - Len(out)
  <2>1. Len(out) <= out_size
    <3>1. Len(out) + avail_out <= out_size
      BY <1>1 DEF TInv, Counted
    <3>2. avail_out \in Nat
      BY <1>2, TypeParts DEF IInv, BufferType
    <3>3. QED
      BY <1>3, <1>4, <3>1, <3>2
  <2>2. QED
    BY <1>3, <1>4, <2>1, PortionFits
<1>6. /\ UNCHANGED <<input, total_in, out>>
      /\ avail_in' = give /\ before_in' = give
      /\ avail_out' = want /\ before_out' = want
      /\ running' = TRUE
  BY <1>1 DEF Enter
<1>7. out_size' = out_size
  BY <1>6 DEF out_size
<1>8. give \in Nat
  BY <1>2, <1>6, TypeParts DEF IInv, TypeOK, StreamTypeOK
<1> HIDE DEF give, want
<1>9. Counted'
  BY <1>1, <1>2, <1>3, <1>4, <1>5, <1>6, <1>7, <1>8 DEF TInv, Counted
<1>10. d_Type' /\ d_Waits'
  <2>1. UNCHANGED <<d_vars, out>>
    BY <1>1, <1>6
  <2>2. QED
    BY <1>1, <1>2, <2>1 DEF d_vars, handlerVars, d_Type, TInv, d_Waits
<1>11. DriverType'
  BY <1>1, <1>2, <1>6, <1>10 DEF TInv, DriverType
<1>12. d_Counted'
  BY <1>1 DEF d_Counted
<1>13. QED
  BY <1>9, <1>10, <1>11, <1>12 DEF TInv

\* yaz0_compress takes a step.
LEMMA CompressRunsTInv ==
    ASSUME TInv, CompressRuns, IInv'
    PROVE  TInv'
<1>1. /\ stage = "compress" /\ yaz0_compress
      /\ UNCHANGED <<stage, in_chunk, out_chunk, iterations, d_vars>>
  BY DEF CompressRuns, driverVars
<1>2. input \in Inputs /\ IInv /\ d_Type /\ iterations \in Nat
  BY DEF TInv, DriverType
<1>3. running /\ Moves /\ Returned
  BY <1>1, <1>2, CompressMoves
<1>4. /\ Len(out) \in Nat /\ avail_out \in Nat /\ total_in \in Nat /\ avail_in \in Nat
      /\ before_in \in Nat /\ before_out \in Nat
  BY <1>2, TypeParts DEF IInv, BufferType, ControlType
<1>5. /\ Len(out') \in Nat /\ avail_out' \in Nat /\ total_in' \in Nat /\ avail_in' \in Nat
      /\ out' \in Seq(Byte)
  BY DEF IInv, TypeOK, StreamTypeOK
<1>6. out_size' = out_size /\ out_size \in Nat
  BY <1>2, <1>3, BoundInNat, StreamAssumption DEF Moves, out_size
<1>7. Counted'
  <2>0. iterations' = iterations
    BY <1>1
  <2>1. /\ avail_in' <= before_in /\ avail_out' <= before_out
        /\ iterations <= 1 + (total_in' + avail_in' - before_in)
                           + (Len(out') + avail_out' - before_out)
        /\ avail_in' # before_in \/ avail_out' # before_out =>
              iterations <= total_in' + Len(out')
    <3>1. /\ avail_in <= before_in /\ avail_out <= before_out
          /\ iterations <= 1 + (total_in + avail_in - before_in)
                             + (Len(out) + avail_out - before_out)
      BY <1>1, <1>3 DEF TInv, Counted
    <3>2. /\ total_in' + avail_in' = total_in + avail_in /\ avail_in' <= avail_in
          /\ Len(out') + avail_out' = Len(out) + avail_out /\ avail_out' <= avail_out
      BY <1>3 DEF Moves
    <3>3. iterations \in Nat
      BY <1>2
    <3> DEFINE n2 == total_in'  a2 == avail_in'  m2 == Len(out')  r2 == avail_out'
    <3>4. /\ n2 \in Nat /\ a2 \in Nat /\ m2 \in Nat /\ r2 \in Nat
          /\ n2 + a2 = total_in + avail_in /\ a2 <= avail_in
          /\ m2 + r2 = Len(out) + avail_out /\ r2 <= avail_out
      BY <1>5, <3>2
    <3> HIDE DEF n2, a2, m2, r2
    <3>5. /\ a2 <= before_in /\ r2 <= before_out
          /\ iterations <= 1 + (n2 + a2 - before_in) + (m2 + r2 - before_out)
          /\ a2 # before_in \/ r2 # before_out => iterations <= n2 + m2
      BY <1>4, <3>1, <3>3, <3>4, Count
    <3>6. QED
      BY <3>5 DEF n2, a2, m2, r2
  <2>2. Len(out') + avail_out' <= out_size'
    BY <1>1, <1>3, <1>6 DEF TInv, Counted, Moves
  <2>3. CASE UNCHANGED callVars
    BY <1>3, <2>0, <2>1, <2>2, <2>3 DEF callVars, Counted
  <2>4. CASE ~running' /\ (result' = "OK" => avail_in' # before_in \/ avail_out' # before_out)
    BY <2>0, <2>1, <2>2, <2>4 DEF Counted
  <2>5. QED
    BY <1>3, <2>3, <2>4 DEF Returned
<1>8. d_Type' /\ d_Waits'
  BY <1>1, <1>2, <1>5 DEF d_vars, handlerVars, d_Type, TInv, d_Waits
<1>9. DriverType'
  BY <1>1, <1>2, <1>3, <1>8 DEF TInv, DriverType, Moves
<1>10. d_Counted'
  BY <1>1 DEF d_Counted
<1>11. QED
  BY <1>7, <1>8, <1>9, <1>10 DEF TInv

LEMMA DecompressBeginsTInv ==
    ASSUME TInv, DecompressBegins, IInv'
    PROVE  TInv'
<1>1. /\ stage = "compress"
      /\ stage' = IF read_header_result = "OK" THEN "decompress" ELSE "finished"
      /\ iterations' = 0
      /\ UNCHANGED <<vars, in_chunk, out_chunk, d_total_in, d_avail_in, d_out, d_avail_out,
                     d_running, d_flush, d_before_in, d_before_out, handlerVars>>
  BY DEF DecompressBegins
<1>2. input \in Inputs /\ IInv /\ d_Type
  BY DEF TInv, DriverType
<1>3. input' = input /\ out' = out
  BY <1>1 DEF vars, streamVars
<1>4. d_Type'
  BY <1>1, <1>2, <1>3 DEF handlerVars, d_Type
<1>5. DriverType'
  BY <1>1, <1>2, <1>3, <1>4 DEF TInv, DriverType
<1>6. d_Counted'
  <2>1. CASE read_header_result = "OK"
    <3>1. d_out_size \in Nat
      <4>1. out \in Seq(Byte) /\ Len(out) >= 3
        BY <1>2, <2>1, TypeParts DEF IInv, BufferType, read_header_result, HEADER_SIZE
      <4>2. out[2] \in Byte /\ out[3] \in Byte
        BY <4>1
      <4>3. Radix \in Nat /\ \A b \in Byte : b \in Nat
        BY FormatAssumption DEF Radix, Byte
      <4>4. out[2] * Radix \in Nat
        BY <4>2, <4>3
      <4>5. QED
        BY <4>2, <4>3, <4>4 DEF d_out_size, read_be32
    <3>2. d_out_size' = d_out_size
      BY <1>3 DEF d_out_size
    <3>3. /\ d_total_in' = 0 /\ d_out' = <<>> /\ d_avail_out' = 0 /\ d_running' = FALSE
          /\ iterations' = 0 /\ d_out_size' \in Nat
      BY <1>1, <3>1, <3>2 DEF TInv, d_Waits, d_Type, DriverType
    <3>4. Len(d_out') = 0
      BY <3>3
    <3>5. QED
      BY <3>3, <3>4 DEF d_Counted
  <2>2. CASE read_header_result # "OK"
    BY <1>1, <2>2 DEF d_Counted
  <2>3. QED
    BY <2>1, <2>2
<1>7. stage' # "compress"
  BY <1>1
<1>8. QED
  BY <1>5, <1>6, <1>7 DEF TInv, Counted, d_Waits

\* A call of yaz0_decompress is entered.
LEMMA DecompressCallTInv ==
    ASSUME TInv, DecompressCall, IInv'
    PROVE  TInv'
<1> DEFINE give == Portion(in_chunk, Len(out), d_total_in)
           want == Portion(out_chunk, d_out_size, Len(d_out))
<1>1. /\ stage = "decompress" /\ ~d_running /\ d_result = "OK"
      /\ D!Enter(give, want, FlushFor(d_total_in, give, Len(out)))
      /\ iterations' = iterations + 1
      /\ UNCHANGED <<vars, handlerVars, stage, in_chunk, out_chunk>>
  BY DEF DecompressCall, d_Continues
<1>2. input \in Inputs /\ IInv /\ d_Type /\ iterations \in Nat
  BY DEF TInv, DriverType
<1>3. /\ Len(d_out) \in Nat /\ d_total_in \in Nat /\ d_avail_out \in Nat
      /\ Len(out) \in Nat /\ d_total_in <= Len(out)
  <2>1. out \in Seq(Byte)
    BY <1>2, TypeParts DEF IInv, BufferType
  <2>2. QED
    BY <1>2, <2>1 DEF d_Type
<1>4. d_out_size \in Nat /\ Len(d_out) <= d_out_size
  <2>1. d_out_size \in Nat /\ Len(d_out) + d_avail_out <= d_out_size
    BY <1>1 DEF TInv, d_Counted
  <2>2. QED
    BY <1>3, <2>1
<1>5. in_chunk \in Nat /\ out_chunk \in Nat
  BY DriverAssumption, StreamAssumption DEF TInv, DriverType
<1>6. give \in 0 .. Len(out) - d_total_in /\ want \in 0 .. d_out_size - Len(d_out)
  BY <1>3, <1>4, <1>5, PortionFits
<1>7. /\ UNCHANGED <<d_total_in, d_out>> /\ UNCHANGED <<input, out>>
      /\ d_avail_in' = give /\ d_before_in' = give
      /\ d_avail_out' = want /\ d_before_out' = want
      /\ d_running' = TRUE
  BY <1>1 DEF D!Enter, vars, streamVars
<1>8. d_out_size' = d_out_size
  BY <1>7 DEF d_out_size
<1> HIDE DEF give, want
<1>9. d_Counted'
  <2>1. iterations <= d_total_in + Len(d_out)
    BY <1>1 DEF TInv, d_Counted
  <2>2. /\ iterations + 1 <= 1 + (d_total_in + give - give) + (Len(d_out) + want - want)
        /\ Len(d_out) + want <= d_out_size
    BY <1>2, <1>3, <1>4, <1>6, <2>1
  <2>3. give <= give /\ want <= want
    BY <1>6
  <2>4. QED
    BY <1>1, <1>4, <1>7, <1>8, <2>2, <2>3 DEF d_Counted
<1>10. d_Type'
  <2>1. give \in Nat /\ want \in Nat /\ d_total_in + give <= Len(out)
    BY <1>3, <1>4, <1>6
  <2>2. QED
    BY <1>1, <1>2, <1>7, <2>1 DEF d_Type, handlerVars
<1>11. DriverType'
  BY <1>1, <1>2, <1>7, <1>10 DEF TInv, DriverType
<1>12. QED
  BY <1>1, <1>9, <1>11 DEF TInv, Counted, d_Waits

\* yaz0_decompress takes a step.
LEMMA DecompressRunsTInv ==
    ASSUME TInv, DecompressRuns, IInv'
    PROVE  TInv'
<1>1. /\ stage = "decompress" /\ D!yaz0_decompress
      /\ UNCHANGED <<vars, stage, in_chunk, out_chunk, iterations>>
  BY DEF DecompressRuns, driverVars
<1>2. input \in Inputs /\ IInv /\ d_Type /\ iterations \in Nat
  BY DEF TInv, DriverType
<1>3. input' = input /\ out' = out /\ out \in Seq(Byte)
  BY <1>1, <1>2, TypeParts DEF vars, streamVars, IInv, BufferType
<1>4. d_running /\ d_Type' /\ d_Moves /\ d_Returned
  BY <1>1, <1>2, <1>3, DecompressMoves
<1>5. d_out_size' = d_out_size /\ d_out_size \in Nat
  BY <1>1, <1>3 DEF d_out_size, TInv, d_Counted
<1> DEFINE n2 == d_total_in'  a2 == d_avail_in'  m2 == Len(d_out')  r2 == d_avail_out'
<1>6. /\ n2 \in Nat /\ a2 \in Nat /\ m2 \in Nat /\ r2 \in Nat
      /\ n2 + a2 = d_total_in + d_avail_in /\ a2 <= d_avail_in
      /\ m2 + r2 = Len(d_out) + d_avail_out /\ r2 <= d_avail_out
  <2>1. /\ d_total_in' \in Nat /\ d_avail_in' \in Nat /\ d_avail_out' \in Nat
        /\ d_out' \in Seq(d_Byte)
    BY <1>4 DEF d_Type
  <2>2. Len(d_out') \in Nat
    BY <2>1
  <2>3. QED
    BY <1>4, <2>1, <2>2 DEF d_Moves
<1>7. /\ Len(d_out) \in Nat /\ d_total_in \in Nat /\ d_avail_in \in Nat
      /\ d_avail_out \in Nat /\ d_before_in \in Nat /\ d_before_out \in Nat
  BY <1>2 DEF d_Type
<1>8. /\ d_avail_in <= d_before_in /\ d_avail_out <= d_before_out
      /\ iterations <= 1 + (d_total_in + d_avail_in - d_before_in)
                         + (Len(d_out) + d_avail_out - d_before_out)
      /\ Len(d_out) + d_avail_out <= d_out_size
  BY <1>1, <1>4 DEF TInv, d_Counted
<1>9. /\ a2 <= d_before_in /\ r2 <= d_before_out
      /\ iterations <= 1 + (n2 + a2 - d_before_in) + (m2 + r2 - d_before_out)
      /\ a2 # d_before_in \/ r2 # d_before_out => iterations <= n2 + m2
      /\ m2 + r2 <= d_out_size
  <2> HIDE DEF n2, a2, m2, r2
  <2>1. QED
    BY <1>2, <1>6, <1>7, <1>8, Count
<1>10. d_Counted'
  <2>1. CASE UNCHANGED D!callVars
    BY <1>1, <1>4, <1>5, <1>9, <2>1 DEF D!callVars, d_Counted
  <2>2. CASE /\ d_running' = FALSE
             /\ d_result' = "OK" => d_avail_in' # d_before_in \/ d_avail_out' # d_before_out
    BY <1>1, <1>5, <1>9, <2>2 DEF d_Counted
  <2>3. QED
    BY <1>4, <2>1, <2>2 DEF d_Returned
<1>11. DriverType'
  BY <1>1, <1>2, <1>3, <1>4 DEF TInv, DriverType
<1>12. QED
  BY <1>1, <1>10, <1>11 DEF TInv, Counted, d_Waits

LEMMA IdleTInv ==
    ASSUME TInv, Finishes \/ UNCHANGED testVars, IInv'
    PROVE  TInv'
<1>1. UNCHANGED <<vars, d_vars, in_chunk, out_chunk, iterations>>
  BY DEF Finishes, testVars, driverVars
<1>2. UNCHANGED <<input, total_in, avail_in, out, avail_out, running, before_in, before_out,
                  result>>
  BY <1>1 DEF vars, streamVars, callVars
<1>3. d_Type'
  BY <1>1, <1>2 DEF TInv, DriverType, d_Type, d_vars, handlerVars
<1>4. DriverType'
  BY <1>1, <1>2, <1>3 DEF TInv, DriverType, Finishes, testVars, driverVars
<1>5. CASE Finishes
  BY <1>4, <1>5 DEF Finishes, TInv, Counted, d_Counted, d_Waits
<1>6. CASE UNCHANGED testVars
  <2>1. stage' = stage /\ out_size' = out_size /\ d_out_size' = d_out_size
    BY <1>2, <1>6 DEF testVars, driverVars, out_size, d_out_size
  <2>2. Counted'
    BY <1>1, <1>2, <2>1 DEF TInv, Counted
  <2>3. d_Counted' /\ d_Waits'
    BY <1>1, <1>2, <2>1 DEF TInv, d_Counted, d_Waits, d_vars
  <2>4. QED
    BY <1>4, <2>2, <2>3 DEF TInv
<1>7. QED
  BY <1>5, <1>6

LEMMA NextTInv == TInv /\ [TestNext]_testVars => TInv'
<1> SUFFICES ASSUME TInv, [TestNext]_testVars PROVE TInv'
  OBVIOUS
<1>1. IInv'
  BY DriverSteps, NextIInv DEF TInv, DriverType
<1>2. QED
  BY <1>1, CompressCallTInv, CompressRunsTInv, DecompressBeginsTInv, DecompressCallTInv,
     DecompressRunsTInv, IdleTInv DEF TestNext

LEMMA AlwaysTInv == TestSpec => []TInv
<1>1. QED
  BY InitTInv, NextTInv, PTL DEF TestSpec

\* No more iterations than bytes moved are fewer than the loop allows.
LEMMA CountedLasts ==
    ASSUME TInv
    PROVE  NeverGivesUp
<1>1. MARGIN \in Nat \ {0} /\ IInv /\ d_Type /\ input \in Inputs /\ iterations \in Nat
  BY DriverAssumption DEF TInv, DriverType
<1>2. /\ total_in \in Nat /\ avail_in \in Nat /\ avail_out \in Nat
      /\ Len(out) \in Nat /\ Len(input) \in Nat /\ total_in + avail_in <= Len(input)
  BY <1>1, TypeParts DEF IInv, BufferType
<1>3. /\ d_total_in \in Nat /\ d_avail_in \in Nat /\ d_avail_out \in Nat
      /\ Len(d_out) \in Nat /\ d_total_in + d_avail_in <= Len(out)
  BY <1>1 DEF d_Type
<1>4. ASSUME stage = "compress", ~running, result = "OK"
      PROVE  iterations < max_iterations(Len(input), out_size)
  <2>1. /\ Len(out) + avail_out <= out_size /\ iterations <= total_in + Len(out)
        /\ out_size \in Nat
    BY <1>1, <1>2, <1>4, BoundInNat DEF TInv, Counted, out_size
  <2>2. QED
    BY <1>1, <1>2, <2>1 DEF max_iterations
<1>5. ASSUME stage = "decompress", ~d_running, d_result = "OK"
      PROVE  iterations < max_iterations(Len(out), d_out_size)
  <2>1. /\ Len(d_out) + d_avail_out <= d_out_size /\ iterations <= d_total_in + Len(d_out)
        /\ d_out_size \in Nat
    BY <1>5 DEF TInv, d_Counted
  <2>2. QED
    BY <1>1, <1>2, <1>3, <2>1 DEF max_iterations
<1>6. QED
  BY <1>4, <1>5 DEF NeverGivesUp

-----------------------------------------------------------------------------
(* The theorems. *)

\* test_driver.c uses the compressor as Compressor has its callers do, so that
\* the invariants and the bound proved there hold while the test runs.
THEOREM DriverIsCaller == TestSpec => Spec
<1>1. TestInit => Init
  BY DEF TestInit
<1>2. TInv /\ [TestNext]_testVars => [Next]_vars
  BY DriverSteps
<1>3. QED
  BY <1>1, <1>2, AlwaysTInv, PTL DEF TestSpec, Spec

\* Whatever the file, the chunks and the margin, no loop of test_driver.c is
\* left because it ran out of iterations.
THEOREM NeverGivesUpCorrect == TestSpec => []NeverGivesUp
<1>1. TInv => NeverGivesUp
  BY CountedLasts
<1>2. QED
  BY <1>1, AlwaysTInv, PTL

-----------------------------------------------------------------------------
(***************************************************************************)
(* The compression test restores every file.  What CompressorOutputProofs  *)
(* proves of the output of yaz0_compress, and DecompressorProofs of what   *)
(* yaz0_decompress makes of it, is put together by the driver: it declares *)
(* the size the file has, it offers room and input while there is any to   *)
(* offer, so that no call stalls, and it says FINISH with the last of it.  *)
(***************************************************************************)

HIDE DEF D!Readable, D!Writable
\* Abbreviations of the model.
USE DEF Readable, Writable, Drop, MinLookahead, TooMuch, Complete

-----------------------------------------------------------------------------
(* The compressor, called as it asks to be. *)

\* The stream is told the truth about its input, and has not failed.
Healthy ==
    /\ uncompressed_size = Len(input)
    /\ mode # "ERROR" /\ (mode = "FLUSH" => received = Len(input))
    /\ running /\ flush = "FINISH" => total_in + avail_in = Len(input)

\* Nothing declared is exceeded, and what is flushed is all there is.
LEMMA FillHealthy ==
    ASSUME IInv, Healthy, compress_fill
    PROVE  mode' # "ERROR" /\ (mode' = "FLUSH" => received' = Len(input))
<1> DEFINE bytes == Least(WINDOW_SIZE - (window_size - Drop), avail_in)
           size  == window_size - Drop + bytes
           pos   == window_pos - Drop
<1>1. BufferType /\ WindowType /\ WindowHoldsInput /\ Encoding /\ running
  BY TypeParts DEF IInv, compress_fill, At, Encoding
<1>2. /\ pos < 2 * MAX_DISTANCE /\ pos \in Nat /\ received = total_in /\ received \in Nat
      /\ bytes \in 0 .. avail_in /\ (bytes < avail_in => size = WINDOW_SIZE)
  <2>1. window_pos \in Nat /\ Drop \in 0 .. window_pos
    BY <1>1, FillNumbers
  <2>2. QED
    BY <1>1, <2>1, FillNumbers
<1>3. /\ total_in \in Nat /\ avail_in \in Nat /\ Len(input) \in Nat
      /\ total_in + avail_in <= Len(input)
  BY <1>1 DEF BufferType
<1>4. /\ received' = received + bytes /\ window_size' = size /\ window_pos' = pos
      /\ UNCHANGED configVars
  BY DEF compress_fill
<1> HIDE DEF bytes, size, pos
<1>5. ~TooMuch(received')
  <2>1. received + bytes <= Len(input)
    BY <1>2, <1>3
  <2>2. QED
    BY <1>2, <1>3, <1>4, <2>1 DEF Healthy, configVars
<1>6. ASSUME window_size' - window_pos' < MinLookahead, flush = "FINISH"
      PROVE  received' = Len(input)
  <2>1. ~(bytes < avail_in)
    <3>1. WINDOW_SIZE - pos >= 1 /\ WINDOW_SIZE \in Nat
      BY <1>2, FullWindow, SizeFacts
    <3>2. size - pos < 1
      BY <1>4, <1>6
    <3>3. QED
      BY <1>2, <3>1, <3>2
  <2>2. total_in + avail_in = Len(input)
    BY <1>1, <1>6 DEF Healthy
  <2>3. QED
    BY <1>2, <1>3, <1>4, <2>1, <2>2
<1>7. QED
  BY <1>5, <1>6 DEF compress_fill, compress_continue, compress_suspend, Healthy, At

LEMMA RunsHealthy ==
    ASSUME IInv, Healthy, yaz0_compress, IInv'
    PROVE  Healthy'
<1>1. running /\ Moves /\ Returned
  BY CompressMoves
<1>2. UNCHANGED uncompressed_size
  BY DEF yaz0_compress, compress_header, compress_fill, compress_find_match, compress_emit,
         compress_write_block, compress_flush, Settled, WriteBlock, configVars
<1>3. running' /\ flush' = "FINISH" => total_in' + avail_in' = Len(input')
  BY <1>1 DEF Moves, Returned, callVars, Healthy
<1>4. mode' # "ERROR" /\ (mode' = "FLUSH" => received' = Len(input))
  <2>1. CASE compress_header \/ compress_find_match \/ compress_write_block
    BY <2>1 DEF compress_header, compress_find_match, compress_write_block,
       compress_continue, compress_suspend, Healthy, At
  <2>2. CASE compress_fill
    BY <2>2, FillHealthy
  <2>3. CASE compress_emit
    <3>1. mode' = "ERROR" => error' = "STREAM_ERROR"
      BY <2>3 DEF compress_emit, compress_error, compress_continue
    <3>2. mode' # "FLUSH"
      BY <2>3 DEF compress_emit, compress_error, compress_continue
    <3>3. QED
      BY <3>1, <3>2 DEF IInv, ModeOK
  <2>4. CASE compress_flush
    <3>1. mode = "FLUSH" /\ Complete
      BY <2>4 DEF compress_flush, At, Healthy
    <3>2. QED
      BY <2>4, <3>1 DEF compress_flush, compress_continue, compress_suspend, Healthy,
         WriteBlock, windowVars
  <2>5. CASE Settled
    BY <2>5 DEF Settled, Healthy, windowVars
  <2>6. QED
    BY <2>1, <2>2, <2>3, <2>4, <2>5 DEF yaz0_compress
<1>5. QED
  BY <1>1, <1>2, <1>3, <1>4 DEF Healthy, Moves

\* A call passes on, or has come to an end of some kind: an error, the end of
\* the stream, the end of its input or that of its room.
LEMMA CompressEnds ==
    ASSUME IInv, yaz0_compress, IInv', WithinBound'
    PROVE  \/ UNCHANGED callVars
           \/ mode = "ERROR" \/ mode' = "ERROR"
           \/ mode' = "DONE" /\ Return("STREAM_END")
           \/ flush # "FINISH" /\ avail_in' = 0 /\ Suspend
           \/ /\ avail_out' = 0 /\ Suspend
              /\ Len(out') < yaz0_compress_bound(uncompressed_size')
<1> USE DEF compress_continue, compress_error
<1>0. uncompressed_size' \in Nat /\ out' \in Seq(Byte)
  BY DEF IInv, TypeOK, StreamTypeOK
<1>1. CASE compress_header
  <2>1. ASSUME compress_suspend
        PROVE  avail_out' = 0 /\ Len(out') < yaz0_compress_bound(uncompressed_size')
    <3>1. avail_out' = 0
      BY <1>1, <2>1, HeaderSuspends
    <3>2. mode' = "HEADER"
      BY <1>1, <2>1 DEF compress_header, compress_suspend, At
    <3>3. Len(out') < HEADER_SIZE /\ Len(out') \in Nat
      BY <1>0, <3>2 DEF IInv, ModeOK
    <3>4. HEADER_SIZE <= yaz0_compress_bound(uncompressed_size')
      BY <1>0, BoundInNat
    <3>5. QED
      BY <1>0, <3>1, <3>3, <3>4, BoundInNat DEF HEADER_SIZE
  <2>2. QED
    BY <1>1, <2>1 DEF compress_header, compress_suspend
<1>2. CASE compress_fill
  BY <1>2, FillStep DEF compress_fill, compress_suspend
<1>3. CASE compress_find_match \/ compress_emit
  BY <1>3 DEF compress_find_match, compress_emit
<1>4. CASE compress_write_block \/ compress_flush
  <2>1. ASSUME compress_suspend
        PROVE  avail_out' = 0 /\ Len(out') < yaz0_compress_bound(uncompressed_size')
    <3>1. avail_out' = 0
      BY <1>4, <2>1, BlockSuspends
    <3>2. mode' \in {"WRITE_BLOCK", "FLUSH"} /\ block_tokens' > 0 /\ block_out' # Len(block')
      <4>1. mode \in {"WRITE_BLOCK", "FLUSH"} /\ mode' = mode /\ ~running' /\ running
        BY <1>4, <2>1 DEF compress_write_block, compress_flush, At, compress_suspend,
           Suspend, Return
      <4>2. CASE compress_write_block
        <5>1. UNCHANGED block_tokens /\ block_out' # Len(block')
          BY <2>1, <4>1, <4>2 DEF compress_write_block
        <5>2. block_tokens > 0
          BY <4>2, SizeFacts DEF compress_write_block, At, IInv, ModeOK
        <5>3. QED
          BY <4>1, <5>1, <5>2
      <4>3. CASE compress_flush
        <5>1. UNCHANGED block_tokens /\ block_out' # Len(block') /\ block_tokens # 0
          BY <2>1, <4>1, <4>3 DEF compress_flush
        <5>2. block_tokens \in Nat
          BY SizeFacts DEF IInv, TypeOK
        <5>3. QED
          BY <4>1, <5>1, <5>2
      <4>4. QED
        BY <1>4, <4>2, <4>3
    <3>3. Len(out') - block_out' + Len(block') <= yaz0_compress_bound(uncompressed_size')
      BY <3>2 DEF WithinBound, Encoding
    <3>4. block_out' \in 0 .. Len(block') /\ block' \in Seq(Byte)
      BY DEF IInv, TypeOK
    <3>5. QED
      BY <1>0, <3>1, <3>2, <3>3, <3>4, BoundInNat
  <2>2. QED
    BY <1>4, <2>1 DEF compress_write_block, compress_flush, compress_suspend
<1>5. CASE Settled
  BY <1>5 DEF Settled, At
<1>6. QED
  BY <1>1, <1>2, <1>3, <1>4, <1>5 DEF yaz0_compress

-----------------------------------------------------------------------------
(* The first loop. *)

\* A call that runs has been offered input, unless it has all there is, and
\* room, unless the output is as long as it can get.
Supplied ==
    running => /\ before_in = 0 => flush = "FINISH"
               /\ before_out = 0 => Len(out) = out_size

\* A call has answered that it would like to go on, or that it is done.
Answered == ~running => result = "OK" \/ (result = "STREAM_END" /\ mode = "DONE")

SInv == TInv /\ BInv /\ EInv /\ Healthy /\ Supplied /\ Answered

LEMMA InitSInv == TestInit => SInv
<1> SUFFICES ASSUME TestInit PROVE SInv
  OBVIOUS
<1>1. TInv /\ BInv /\ EInv
  BY InitTInv, InitBInv, InitEInv DEF TestInit
<1>2. Healthy /\ Supplied /\ Answered
  BY DEF TestInit, Init, StreamInit, Healthy, Supplied, Answered
<1>3. QED
  BY <1>1, <1>2 DEF SInv

\* A portion is nothing only when nothing is left.
LEMMA PortionNone ==
    ASSUME NEW chunk \in Nat, NEW size \in Nat, NEW done \in Nat, done <= size,
           Portion(chunk, size, done) = 0
    PROVE  done = size /\ FlushFor(done, 0, size) = "FINISH"
BY DEF Portion, FlushFor, Least

\* The call is offered all that is left, or does not say FINISH.
LEMMA CallsSupplied ==
    ASSUME SInv, CompressCall
    PROVE  Healthy' /\ Supplied' /\ Answered'
<1> DEFINE give == Portion(in_chunk, Len(input), total_in)
           want == Portion(out_chunk, out_size, Len(out))
<1>1. /\ stage = "compress" /\ Enter(give, want, FlushFor(total_in, give, Len(input)))
      /\ UNCHANGED <<mode, configVars, windowVars>>
  BY DEF CompressCall
<1>2. /\ input \in Seq(Byte) /\ total_in \in Nat /\ avail_in \in Nat /\ avail_out \in Nat
      /\ Len(input) \in Nat /\ Len(out) \in Nat /\ total_in <= Len(input)
  BY TypeParts DEF SInv, TInv, DriverType, IInv, BufferType
<1>3. /\ in_chunk \in Nat /\ out_chunk \in Nat /\ out_size \in Nat
      /\ Len(out) <= out_size
  <2>1. out_size \in Nat
    BY <1>2, BoundInNat DEF out_size
  <2>2. QED
    BY <1>1, <1>2, <2>1, DriverAssumption, StreamAssumption
       DEF SInv, TInv, DriverType, Counted
<1>4. /\ give \in Nat /\ total_in + give <= Len(input)
      /\ FlushFor(total_in, give, Len(input)) = "FINISH" => give = Len(input) - total_in
      /\ give = 0 => FlushFor(total_in, give, Len(input)) = "FINISH"
      /\ want = 0 => Len(out) = out_size
  <2>1. give \in 0 .. Len(input) - total_in
    BY <1>2, <1>3, PortionFits
  <2>2. FlushFor(total_in, give, Len(input)) = "FINISH" => give = Len(input) - total_in
    BY <1>2, <1>3, PortionFits
  <2>3. give = 0 => FlushFor(total_in, 0, Len(input)) = "FINISH"
    BY <1>2, <1>3, PortionNone
  <2>4. want = 0 => Len(out) = out_size
    BY <1>2, <1>3, PortionNone
  <2> HIDE DEF give, want
  <2>5. QED
    BY <1>2, <2>1, <2>2, <2>3, <2>4
<1> HIDE DEF give, want
<1>5. /\ input' = input /\ out' = out /\ total_in' = total_in /\ running' = TRUE
      /\ avail_in' = give /\ before_in' = give /\ before_out' = want
      /\ flush' = FlushFor(total_in, give, Len(input))
  BY <1>1 DEF Enter
<1>6. Healthy'
  BY <1>1, <1>2, <1>4, <1>5 DEF SInv, Healthy, configVars, windowVars
<1>7. Supplied' /\ Answered'
  BY <1>4, <1>5 DEF Supplied, Answered, out_size
<1>8. QED
  BY <1>6, <1>7

\* No call stalls and none fails.
LEMMA RunsSupplied ==
    ASSUME SInv, CompressRuns, BInv', IInv'
    PROVE  Healthy' /\ Supplied' /\ Answered'
<1>1. stage = "compress" /\ yaz0_compress /\ IInv /\ Healthy /\ TInv
  BY DEF CompressRuns, SInv, TInv, DriverType
<1>2. Healthy'
  BY <1>1, RunsHealthy
<1>3. running /\ Moves /\ Returned
  BY <1>1, CompressMoves
<1>4. /\ Len(out) \in Nat /\ avail_out \in Nat /\ avail_in \in Nat
      /\ Len(out') \in Nat /\ avail_out' \in Nat /\ avail_in' \in Nat
      /\ before_in \in Nat /\ before_out \in Nat /\ avail_out <= before_out
      /\ out_size \in Nat /\ Len(out) + avail_out <= out_size /\ Len(input) \in Nat
  <2>1. /\ Len(out) \in Nat /\ avail_out \in Nat /\ avail_in \in Nat /\ Len(input) \in Nat
        /\ before_in \in Nat /\ before_out \in Nat
        /\ Len(out') \in Nat /\ avail_out' \in Nat /\ avail_in' \in Nat
    <3>1. StreamTypeOK /\ StreamTypeOK'
      BY <1>1 DEF IInv, TypeOK
    <3>2. QED
      BY <3>1 DEF StreamTypeOK
  <2>2. QED
    BY <1>1, <1>3, <2>1, BoundInNat DEF TInv, Counted, out_size
<1>5. out_size' = out_size /\ out_size = yaz0_compress_bound(uncompressed_size')
  BY <1>2, <1>3 DEF out_size, Moves, Healthy
<1>6. before_out = 0 => Len(out') = out_size /\ Len(out) = out_size
  <2>1. Len(out') + avail_out' = Len(out) + avail_out
    BY <1>3 DEF Moves
  <2>2. before_out = 0 => Len(out) = out_size
    BY <1>3 DEF SInv, Supplied
  <2>3. QED
    BY <1>3, <1>4, <2>1, <2>2 DEF Moves
<1>7. before_in = 0 => flush = "FINISH"
  BY <1>3 DEF SInv, Supplied
<1>8. \/ UNCHANGED callVars
      \/ ~running' /\ (result' = "OK" \/ (result' = "STREAM_END" /\ mode' = "DONE"))
  <2>1. WithinBound'
    BY DEF BInv
  <2>2. CASE flush # "FINISH" /\ avail_in' = 0 /\ Suspend
    BY <1>7, <2>2 DEF Suspend, Return
  <2>3. CASE /\ avail_out' = 0 /\ Suspend
             /\ Len(out') < yaz0_compress_bound(uncompressed_size')
    <3>1. before_out # 0
      BY <1>4, <1>5, <1>6, <2>3
    <3>2. QED
      BY <2>3, <3>1 DEF Suspend, Return
  <2>4. QED
    BY <1>1, <1>2, <2>1, <2>2, <2>3, CompressEnds DEF Healthy, Return
<1>9. Supplied' /\ Answered'
  BY <1>3, <1>5, <1>6, <1>7, <1>8 DEF callVars, Supplied, Answered
<1>10. QED
  BY <1>2, <1>9

LEMMA NextSInv == SInv /\ [TestNext]_testVars => SInv'
<1> SUFFICES ASSUME SInv, [TestNext]_testVars PROVE SInv'
  OBVIOUS
<1>1. [Next]_vars
  BY DriverSteps DEF SInv
<1>2. TInv' /\ BInv' /\ EInv' /\ IInv'
  BY <1>1, NextTInv, NextBInv, NextEInv DEF SInv, BInv
<1>3. CASE UNCHANGED vars
  BY <1>2, <1>3 DEF SInv, Healthy, Supplied, Answered, vars, streamVars, callVars, configVars,
     windowVars, out_size
<1>4. QED
  BY <1>2, <1>3, CallsSupplied, RunsSupplied DEF SInv, TestNext, testVars, DecompressBegins,
     DecompressCall, DecompressRuns, Finishes

-----------------------------------------------------------------------------
(* The decompressor, and what has been proved of it. *)

DP == INSTANCE DecompressorProofs WITH
    Inputs <- Seq(Byte), input <- out, total_in <- d_total_in, avail_in <- d_avail_in,
    out <- d_out, avail_out <- d_avail_out,
    running <- d_running, flush <- d_flush, before_in <- d_before_in,
    before_out <- d_before_out, result <- d_result,
    mode <- d_mode, error <- d_error, history <- d_history,
    history_pos <- d_history_pos, remaining <- d_remaining,
    group_bitmask <- d_group_bitmask, group_remaining <- d_group_remaining,
    reference <- d_reference, copy_distance <- d_copy_distance,
    copy_length <- d_copy_length

\* The decompressor of the driver is that of the proofs.
LEMMA SameDecompressor ==
    /\ D!Init => DP!Init
    /\ D!yaz0_decompress => DP!yaz0_decompress
    /\ \A give, room, kind : D!Enter(give, room, kind) => DP!Enter(give, room, kind)
<1>1. D!Init => DP!Init
  BY DEF D!Init, DP!Init, D!StreamInit, DP!StreamInit, D!Slots, DP!Slots
<1>2. D!yaz0_decompress => DP!yaz0_decompress
  BY DEF D!yaz0_decompress, D!At, D!decompress_header, D!decompress_start_block,
         D!decompress_token, D!decompress_literal, D!decompress_reference,
         D!decompress_copy, D!Settled, D!decompress_continue, D!decompress_suspend,
         D!decompress_error, D!Starved, D!Suspend, D!Return, D!Read, D!NextByte,
         D!WriteByte, D!Emit, D!NoEmit, D!HasInput, D!HasRoom, D!Readable, D!Least,
         D!HEADER_SIZE, D!Slots, D!MAGIC, D!read_be32, D!Radix, D!NextToken,
         D!IsLiteral, D!ReferenceComplete, D!ReferenceDistance, D!ReferenceLength,
         D!DISTANCE_BIAS, D!SHORT_LENGTH_BIAS, D!LONG_LENGTH_BIAS, D!BadReference,
         D!CopySource, D!callVars, D!streamVars, D!ringVars, D!groupVars, D!copyVars,
         DP!yaz0_decompress, DP!At, DP!decompress_header, DP!decompress_start_block,
         DP!decompress_token, DP!decompress_literal, DP!decompress_reference,
         DP!decompress_copy, DP!Settled, DP!decompress_continue, DP!decompress_suspend,
         DP!decompress_error, DP!Starved, DP!Suspend, DP!Return, DP!Read, DP!NextByte,
         DP!WriteByte, DP!Emit, DP!NoEmit, DP!HasInput, DP!HasRoom, DP!Readable,
         DP!Least, DP!HEADER_SIZE, DP!Slots, DP!MAGIC, DP!read_be32, DP!Radix,
         DP!NextToken, DP!IsLiteral, DP!ReferenceComplete, DP!ReferenceDistance,
         DP!ReferenceLength, DP!DISTANCE_BIAS, DP!SHORT_LENGTH_BIAS,
         DP!LONG_LENGTH_BIAS, DP!BadReference, DP!CopySource, DP!callVars,
         DP!streamVars, DP!ringVars, DP!groupVars, DP!copyVars
<1>3. \A give, room, kind : D!Enter(give, room, kind) => DP!Enter(give, room, kind)
  BY DEF D!Enter, DP!Enter
<1>4. QED
  BY <1>1, <1>2, <1>3

\* It reads the format that the compressor writes.
LEMMA SameFormat ==
    /\ DP!Byte = Byte /\ DP!HEADER_SIZE = HEADER_SIZE
    /\ \A bytes, data : Encodes(bytes, data) => DP!Encodes(bytes, data)
<1>1. DP!Byte = Byte /\ DP!HEADER_SIZE = HEADER_SIZE
  BY DEF Byte, Radix, DP!Byte, DP!Radix, HEADER_SIZE, DP!HEADER_SIZE
<1>2. ASSUME NEW bytes, NEW data, Encodes(bytes, data)
      PROVE  DP!Encodes(bytes, data)
  BY <1>2 DEF Encodes, HasHeader, Spans, Path, InForce, Leads, OpensBlock, AddsLiteral,
              AddsPair, Repeats, Point, Start, Weight, EncodeReference,
              yaz0_write_header, write_be32, CodeBit, Radix, HEADER_SIZE, MAGIC,
              MIN_MATCH, Least, DISTANCE_BIAS, SHORT_LENGTH_BIAS, LONG_LENGTH_BIAS,
              DP!Encodes, DP!HasHeader, DP!Spans, DP!Path, DP!InForce, DP!Leads,
              DP!OpensBlock, DP!AddsLiteral, DP!AddsPair, DP!Repeats, DP!Point,
              DP!Start, DP!Weight, DP!EncodeReference, DP!yaz0_write_header,
              DP!write_be32, DP!CodeBit, DP!Radix, DP!HEADER_SIZE, DP!MAGIC,
              DP!MIN_MATCH, DP!Least, DP!DISTANCE_BIAS, DP!SHORT_LENGTH_BIAS,
              DP!LONG_LENGTH_BIAS
<1>3. QED
  BY <1>1, <1>2

\* What its proofs assume of the constants.
Assumed ==
    /\ /\ MAX_DISTANCE = NIBBLE * DP!Radix
       /\ DP!HEADER_SIZE <= MAX_DISTANCE
       /\ MAX_RESETS \in Nat
       /\ STALE \notin DP!Byte
    /\ /\ Seq(Byte) \subseteq Seq(DP!Byte)
       /\ MAX_GIVE \in Nat /\ MAX_ROOM \in Nat
    /\ /\ \A index \in 0 .. TOKENS_PER_BLOCK - 1 : DP!CodeBit(index) \in 1 .. DP!Radix - 1
       /\ DP!CodeBit(0) * 2 = DP!Radix
       /\ \A index \in 1 .. TOKENS_PER_BLOCK - 1 :
             DP!CodeBit(index) * 2 = DP!CodeBit(index - 1)
    /\ /\ NIBBLE \in Nat /\ NIBBLE >= 2
       /\ TOKENS_PER_BLOCK \in Nat \ {0}
       /\ MAX_DISTANCE \in Nat /\ MAX_DISTANCE <= NIBBLE * DP!Radix
       /\ MAX_MATCH \in Nat
       /\ DP!MIN_MATCH <= MAX_MATCH /\ MAX_MATCH < DP!LONG_LENGTH_BIAS + DP!Radix
       /\ MAX_MATCH < MAX_DISTANCE

LEMMA DecoderAssumed == Assumed
<1>1. /\ DP!Radix = Radix /\ DP!Byte = Byte /\ DP!HEADER_SIZE = HEADER_SIZE
      /\ DP!MIN_MATCH = MIN_MATCH /\ DP!LONG_LENGTH_BIAS = LONG_LENGTH_BIAS
      /\ \A index : DP!CodeBit(index) = CodeBit(index)
  BY DEF Byte, Radix, DP!Byte, DP!Radix, HEADER_SIZE, DP!HEADER_SIZE, MIN_MATCH, DP!MIN_MATCH,
     LONG_LENGTH_BIAS, DP!LONG_LENGTH_BIAS, SHORT_LENGTH_BIAS, DP!SHORT_LENGTH_BIAS,
     CodeBit, DP!CodeBit
<1>2. QED
  BY <1>1, FormatAssumption, CodeByteAssumption, StreamAssumption, CompressorAssumption,
     DriverAssumption DEF Assumed

LEMMA DecoderStep ==
    /\ DP!Init => DP!FInv
    /\ DP!FInv /\ [DP!Next]_(DP!vars) => DP!FInv'
BY DecoderAssumed, DP!InitFInv, DP!NextFInv DEF Assumed

LEMMA DecoderMakes ==
    ASSUME DP!FInv, NEW data \in Seq(DP!Byte), DP!Encodes(out, data)
    PROVE  DP!DecodesTo(data)
BY DecoderAssumed, DP!FollowsEncoding DEF Assumed

LEMMA DecoderEnds ==
    ASSUME DP!FInv, DP!yaz0_decompress, NEW data \in Seq(DP!Byte), DP!Encodes(out, data),
           d_before_in = 0 => d_flush = "FINISH",
           d_before_out = 0 => Len(d_out) = Len(data)
    PROVE  \/ UNCHANGED D!callVars
           \/ /\ ~d_running'
              /\ d_result' = "OK" \/ (d_result' = "STREAM_END" /\ d_mode' = "DONE")
BY DecoderAssumed, DP!CallEndsWell DEF Assumed, D!callVars, DP!callVars

-----------------------------------------------------------------------------
(* The second loop. *)

\* When the first is over without failure the file is encoded in full.
Encoded ==
    /\ total_in = Len(input) /\ Len(out) <= out_size
    /\ Encodes(out, input)

LEMMA DoneIsEncoded ==
    ASSUME SInv, mode = "DONE"
    PROVE  /\ Encoded /\ read_header_result = "OK" /\ d_out_size = Len(input)
           /\ Len(input) <= MAX_ROOM
<1>1. /\ IInv /\ EInv /\ WithinBound /\ input \in Inputs
      /\ uncompressed_size = Len(input) /\ input \in Seq(Byte) /\ out \in Seq(Byte)
  BY DEF SInv, BInv, TInv, DriverType, Healthy, IInv, TypeOK, StreamTypeOK
<1>2. /\ Encodes(out, SubSeq(input, 1, received))
      /\ received = Len(input) /\ received = total_in
  <2>1. Encoding
    BY DEF Encoding
  <2>2. QED
    BY <1>1, <2>1, DoneEncodes DEF IInv, WindowHoldsInput
<1>3. SubSeq(input, 1, received) = input
  <2>1. SubSeq(input, 1, Len(input)) = input
    BY ONLY <1>1
  <2>2. QED
    BY <1>2, <2>1
<1>4. Encoded
  BY <1>1, <1>2, <1>3 DEF Encoded, WithinBound, out_size
<1>5. /\ Len(out) >= HEADER_SIZE /\ Len(input) < Radix * Radix
      /\ \A i \in 1 .. HEADER_SIZE : out[i] = yaz0_write_header(Len(input))[i]
  BY <1>4 DEF Encoded, Encodes, HasHeader
<1>6. out[1] = MAGIC /\ d_out_size = Len(input)
  <2> DEFINE header == yaz0_write_header(Len(input))
  <2>1. header[1] = MAGIC /\ read_be32(header[2], header[3]) = Len(input)
    BY <1>1, <1>5, HeaderRoundTrip
  <2>2. out[1] = header[1] /\ out[2] = header[2] /\ out[3] = header[3]
    BY <1>5 DEF HEADER_SIZE
  <2>3. QED
    BY <2>1, <2>2 DEF d_out_size
<1>7. read_header_result = "OK"
  <2>1. ~(Len(out) < HEADER_SIZE)
    BY <1>1, <1>5 DEF HEADER_SIZE
  <2>2. QED
    BY <1>6, <2>1 DEF read_header_result
<1>8. Len(input) <= MAX_ROOM
  <2>1. Len(input) \in Nat /\ yaz0_compress_bound(Len(input)) <= MAX_ROOM
    BY <1>1, DriverAssumption
  <2>2. yaz0_compress_bound(Len(input)) >= Len(input)
    BY <2>1, BoundInNat
  <2>3. QED
    BY <2>1, <2>2, BoundInNat, StreamAssumption
<1>9. QED
  BY <1>4, <1>6, <1>7, <1>8

\* Likewise of the calls of the second.
d_Supplied ==
    d_running => /\ d_before_in = 0 => d_flush = "FINISH"
                 /\ d_before_out = 0 => Len(d_out) = d_out_size

d_Answered ==
    ~d_running => d_result = "OK" \/ (d_result = "STREAM_END" /\ d_mode = "DONE")

\* The first loop is left only when it is done.
Handed == stage # "compress" => ~running /\ mode = "DONE" /\ result = "STREAM_END"

d_Ready == stage = "compress" => D!Init

d_Healthy == stage = "decompress" => DP!FInv /\ d_Supplied /\ d_Answered

RInv == SInv /\ Handed /\ d_Ready /\ d_Healthy /\ Restored

LEMMA InitRInv == TestInit => RInv
BY InitSInv DEF TestInit, RInv, Handed, d_Ready, d_Healthy, Restored

\* While the first loop runs the second stream stays as it was set up.
LEMMA StillReady ==
    ASSUME RInv, SInv', CompressCall \/ CompressRuns
    PROVE  RInv'
<1>1. stage = "compress" /\ stage' = "compress" /\ UNCHANGED d_vars
  BY DEF CompressCall, CompressRuns, driverVars
<1>2. UNCHANGED resets
  BY DEF CompressCall, CompressRuns, yaz0_compress, compress_header, compress_fill,
         compress_find_match, compress_emit, compress_write_block, compress_flush, Settled, At
<1>3. out' \in Seq(Byte)
  BY DEF SInv, TInv, DriverType, IInv, TypeOK, StreamTypeOK
<1>4. D!Init'
  <2>1. D!Init
    BY <1>1 DEF RInv, d_Ready
  <2>2. QED
    BY <1>1, <1>2, <1>3, <2>1 DEF D!Init, D!StreamInit, d_vars, handlerVars
<1>5. QED
  BY <1>1, <1>4 DEF RInv, Handed, d_Ready, d_Healthy, Restored

LEMMA BeginsHealthy ==
    ASSUME RInv, SInv', DecompressBegins
    PROVE  RInv'
<1>1. /\ stage = "compress" /\ ~running /\ ~Continues
      /\ stage' = IF read_header_result = "OK" THEN "decompress" ELSE "finished"
      /\ d_result' = read_header_result
      /\ UNCHANGED <<vars, d_total_in, d_avail_in, d_out, d_avail_out, d_running, d_flush,
                     d_before_in, d_before_out, handlerVars>>
  BY DEF DecompressBegins
<1>2. result = "STREAM_END" /\ mode = "DONE"
  <2>1. result # "OK"
    BY <1>1, CountedLasts DEF RInv, SInv, NeverGivesUp, Continues
  <2>2. QED
    BY <1>1, <2>1 DEF RInv, SInv, Answered
<1>3. read_header_result = "OK"
  BY <1>2, DoneIsEncoded DEF RInv
<1>4. D!Init
  BY <1>1 DEF RInv, d_Ready
<1>5. d_running = FALSE /\ d_result = "OK"
  BY <1>4 DEF D!Init, D!StreamInit
<1>6. DP!FInv'
  <2>1. DP!FInv
    BY <1>4, SameDecompressor, DecoderStep
  <2>2. UNCHANGED DP!vars
    BY <1>1, <1>3, <1>5 DEF DP!vars, DP!streamVars, DP!callVars, DP!ringVars, DP!groupVars,
       DP!copyVars, handlerVars, vars, streamVars
  <2>3. QED
    BY <2>1, <2>2, DecoderStep
<1>7. d_Supplied' /\ d_Answered'
  BY <1>1, <1>3, <1>5 DEF d_Supplied, d_Answered
<1>8. Handed'
  BY <1>1, <1>2 DEF Handed, vars, callVars
<1>9. QED
  BY <1>1, <1>3, <1>6, <1>7, <1>8 DEF RInv, d_Ready, d_Healthy, Restored

\* test_driver.c uses the decompressor as Decompressor has its callers do.
LEMMA CallHealthy ==
    ASSUME RInv, SInv', DecompressCall
    PROVE  RInv'
<1> DEFINE give == Portion(in_chunk, Len(out), d_total_in)
           want == Portion(out_chunk, d_out_size, Len(d_out))
           kind == FlushFor(d_total_in, give, Len(out))
<1>1. /\ stage = "decompress" /\ stage' = "decompress" /\ D!Enter(give, want, kind)
      /\ UNCHANGED <<vars, handlerVars>>
  BY DEF DecompressCall
<1>2. DP!FInv /\ mode = "DONE" /\ SInv /\ TInv
  BY <1>1 DEF RInv, d_Healthy, Handed, SInv
<1>3. d_out_size = Len(input) /\ Len(input) <= MAX_ROOM
  BY <1>2, DoneIsEncoded
<1>4. /\ out \in Seq(Byte) /\ input \in Seq(Byte) /\ d_total_in \in Nat
      /\ d_total_in <= Len(out) /\ Len(out) \in Nat /\ d_out_size \in Nat
      /\ Len(d_out) \in Nat /\ Len(d_out) <= d_out_size
      /\ in_chunk \in Nat /\ in_chunk <= MAX_GIVE /\ MAX_GIVE \in Nat
      /\ out_chunk \in Nat /\ out_chunk <= MAX_ROOM /\ MAX_ROOM \in Nat
  <2>1. out \in Seq(Byte) /\ input \in Seq(Byte)
    BY <1>2 DEF TInv, DriverType, IInv, TypeOK, StreamTypeOK
  <2>2. /\ d_total_in \in Nat /\ d_avail_in \in Nat /\ d_total_in + d_avail_in <= Len(out)
        /\ Len(d_out) \in Nat /\ d_avail_out \in Nat
    BY <1>2, <2>1 DEF TInv, DriverType, d_Type
  <2>3. d_out_size \in Nat /\ Len(d_out) + d_avail_out <= d_out_size
    BY <1>1, <1>2 DEF TInv, d_Counted
  <2>4. /\ in_chunk \in Nat /\ in_chunk <= MAX_GIVE /\ MAX_GIVE \in Nat
        /\ out_chunk \in Nat /\ out_chunk <= MAX_ROOM /\ MAX_ROOM \in Nat
    BY <1>2, DriverAssumption, StreamAssumption DEF TInv, DriverType
  <2>5. QED
    BY <2>1, <2>2, <2>3, <2>4
<1>5. /\ give \in 0 .. Len(out) - d_total_in /\ want \in 0 .. d_out_size - Len(d_out)
      /\ kind \in {"FINISH", "NO_FLUSH"}
      /\ kind = "FINISH" => give = Len(out) - d_total_in
      /\ kind = "NO_FLUSH" => give <= in_chunk
      /\ give = 0 => kind = "FINISH"
      /\ want = 0 => Len(d_out) = d_out_size
  <2>1. /\ give \in 0 .. Len(out) - d_total_in /\ kind \in {"FINISH", "NO_FLUSH"}
        /\ kind = "FINISH" => give = Len(out) - d_total_in
        /\ kind = "NO_FLUSH" => give <= in_chunk
    BY <1>4, PortionFits
  <2>2. want \in 0 .. d_out_size - Len(d_out)
    BY <1>4, PortionFits
  <2>3. give = 0 => kind = "FINISH"
    BY <1>4, PortionNone
  <2>4. want = 0 => Len(d_out) = d_out_size
    BY <1>4, PortionNone
  <2>5. QED
    BY <2>1, <2>2, <2>3, <2>4
<1> HIDE DEF give, want, kind
<1>6. DP!Call
  <2>1. DP!Enter(give, want, kind)
    BY <1>1, SameDecompressor
  <2>2. want \in 0 .. MAX_ROOM
    BY <1>3, <1>4, <1>5
  <2>3. give \in DP!Offers(kind)
    <3>1. kind = "NO_FLUSH" => give \in 0 .. MAX_GIVE /\ give <= Len(out) - d_total_in
      BY <1>4, <1>5
    <3>2. QED
      BY <1>4, <1>5, <3>1 DEF DP!Offers, DP!Left, DP!Least
  <2>4. UNCHANGED <<d_mode, d_error, DP!ringVars, d_remaining, DP!groupVars, d_reference,
                    DP!copyVars, resets>>
    BY <1>1 DEF handlerVars, vars, DP!ringVars, DP!groupVars, DP!copyVars
  <2>5. QED
    BY <1>5, <2>1, <2>2, <2>3, <2>4 DEF DP!Call
<1>7. DP!FInv'
  BY <1>2, <1>6, DecoderStep DEF DP!Next
<1>8. d_Supplied' /\ d_Answered'
  <2>1. /\ d_running' = TRUE /\ d_before_in' = give /\ d_before_out' = want
        /\ d_flush' = kind /\ d_out' = d_out /\ out' = out
    BY <1>1 DEF D!Enter
  <2>2. QED
    BY <1>5, <2>1 DEF d_Supplied, d_Answered, d_out_size
<1>9. QED
  BY <1>1, <1>7, <1>8 DEF RInv, Handed, d_Ready, d_Healthy, Restored, vars, callVars

\* No call stalls and none fails.
LEMMA StepHealthy ==
    ASSUME RInv, SInv', DecompressRuns
    PROVE  RInv'
<1>1. /\ stage = "decompress" /\ stage' = "decompress" /\ D!yaz0_decompress
      /\ UNCHANGED vars
  BY DEF DecompressRuns, driverVars
<1>2. DP!FInv /\ mode = "DONE" /\ SInv /\ TInv /\ d_Supplied
  BY <1>1 DEF RInv, d_Healthy, Handed, SInv
<1>3. d_out_size = Len(input) /\ Encodes(out, input)
  BY <1>2, DoneIsEncoded DEF Encoded
<1>4. out \in Seq(Byte) /\ input \in Seq(Byte) /\ out' = out /\ d_Type
  BY <1>1, <1>2 DEF TInv, DriverType, IInv, TypeOK, StreamTypeOK, vars, streamVars
<1>5. d_running /\ d_Type' /\ d_Moves /\ d_Returned
  BY <1>1, <1>4, DecompressMoves
<1>6. DP!yaz0_decompress /\ DP!FInv'
  BY <1>1, <1>2, SameDecompressor, DecoderStep DEF DP!Next
<1>7. \/ UNCHANGED D!callVars
      \/ /\ ~d_running'
         /\ d_result' = "OK" \/ (d_result' = "STREAM_END" /\ d_mode' = "DONE")
  <2>1. DP!Encodes(out, input) /\ input \in Seq(DP!Byte)
    BY <1>3, <1>4, SameFormat
  <2>2. /\ d_before_in = 0 => d_flush = "FINISH"
        /\ d_before_out = 0 => Len(d_out) = Len(input)
    BY <1>2, <1>3, <1>5 DEF d_Supplied
  <2>3. QED
    BY <1>2, <1>6, <2>1, <2>2, DecoderEnds
<1>8. d_before_out = 0 => Len(d_out') = Len(d_out)
  <2>1. d_avail_out <= d_before_out
    BY <1>1, <1>2, <1>5 DEF TInv, d_Counted
  <2>2. /\ d_avail_out \in Nat /\ d_avail_out' \in Nat /\ d_before_out \in Nat
        /\ Len(d_out) \in Nat /\ Len(d_out') \in Nat
    BY <1>4, <1>5 DEF d_Type
  <2>3. /\ Len(d_out') + d_avail_out' = Len(d_out) + d_avail_out
        /\ d_avail_out' <= d_avail_out
    BY <1>5 DEF d_Moves
  <2>4. QED
    BY <2>1, <2>2, <2>3
<1>9. d_Supplied' /\ d_Answered'
  BY <1>2, <1>4, <1>5, <1>7, <1>8 DEF d_Supplied, d_Answered, d_out_size, D!callVars
<1>10. QED
  BY <1>1, <1>6, <1>9 DEF RInv, Handed, d_Ready, d_Healthy, Restored, vars, callVars

LEMMA EndsRestored ==
    ASSUME RInv, SInv', Finishes
    PROVE  RInv'
<1>1. /\ stage = "decompress" /\ stage' = "finished" /\ ~d_running /\ ~d_Continues
      /\ UNCHANGED <<vars, d_vars>>
  BY DEF Finishes
<1>2. /\ DP!FInv /\ d_Answered /\ SInv /\ TInv
      /\ mode = "DONE" /\ result = "STREAM_END" /\ ~running
  BY <1>1 DEF RInv, d_Healthy, Handed, SInv
<1>3. d_result = "STREAM_END" /\ d_mode = "DONE"
  BY <1>1, <1>2, CountedLasts DEF d_Answered, d_Continues, NeverGivesUp
<1>4. Encoded /\ input \in Seq(Byte)
  BY <1>2, DoneIsEncoded DEF TInv, DriverType, IInv, TypeOK, StreamTypeOK
<1>5. d_out = input /\ d_total_in = Len(out)
  <2>1. DP!DecodesTo(input)
    BY <1>2, <1>4, SameFormat, DecoderMakes DEF Encoded
  <2>2. QED
    BY <1>3, <2>1 DEF DP!DecodesTo
<1>6. Restored'
  BY <1>1, <1>2, <1>3, <1>4, <1>5 DEF Restored, Encoded, vars, streamVars, callVars, d_vars,
     out_size
<1>7. QED
  BY <1>1, <1>2, <1>6 DEF RInv, Handed, d_Ready, d_Healthy, vars, callVars

LEMMA NextRInv == RInv /\ [TestNext]_testVars => RInv'
<1> SUFFICES ASSUME RInv, [TestNext]_testVars PROVE RInv'
  OBVIOUS
<1>1. SInv'
  BY NextSInv DEF RInv
<1>2. CASE UNCHANGED testVars
  <2>1. UNCHANGED <<vars, driverVars, d_vars>>
    BY <1>2 DEF testVars
  <2>2. Handed' /\ Restored'
    BY <2>1 DEF RInv, Handed, Restored, vars, streamVars, callVars, driverVars, d_vars, out_size
  <2>3. d_Ready'
    BY <2>1 DEF RInv, d_Ready, vars, streamVars, driverVars, d_vars, handlerVars, D!Init,
       D!StreamInit
  <2>4. d_Healthy'
    <3>1. UNCHANGED DP!vars
      BY <2>1 DEF DP!vars, DP!streamVars, DP!callVars, DP!ringVars, DP!groupVars,
         DP!copyVars, d_vars, handlerVars, vars, streamVars
    <3>2. DP!FInv => DP!FInv'
      BY <3>1, DecoderStep
    <3>3. QED
      BY <2>1, <3>2 DEF RInv, d_Healthy, d_Supplied, d_Answered, d_out_size, driverVars,
         d_vars, handlerVars, vars, streamVars
  <2>5. QED
    BY <1>1, <2>2, <2>3, <2>4 DEF RInv
<1>3. QED
  BY <1>1, <1>2, StillReady, BeginsHealthy, CallHealthy, StepHealthy, EndsRestored
     DEF TestNext

(***************************************************************************)
(* What main of test_compress.c asserts: whatever the file, the level and  *)
(* the chunks, yaz0_compress ends well within yaz0_compress_bound, and     *)
(* yaz0_decompress gives the file back.                                    *)
(***************************************************************************)
THEOREM RestoredCorrect == TestSpec => []Restored
<1>1. RInv => Restored
  BY DEF RInv
<1>2. QED
  BY <1>1, InitRInv, NextRInv, PTL DEF TestSpec
=============================================================================
