------------------------ MODULE CompressorOutputProofs ------------------------
(***************************************************************************)
(* What a compression stream puts out: never more than yaz0_compress_bound *)
(* and, when it is done, an encoding of the input it has received; and the *)
(* same encoding however the input is dealt out over the calls.            *)
(*                                                                         *)
(* A pair is never longer than the bytes it stands for, so only the code   *)
(* bytes can make the output grow, and each full block has one for at      *)
(* least TOKENS_PER_BLOCK bytes of input.  The invariant Accounted splits  *)
(* the bytes encoded so far into those of the full blocks, `covered`, and  *)
(* those of the block in progress, and counts the full blocks.             *)
(*                                                                         *)
(* The invariant EncodesSoFar says that the output, with the block in      *)
(* progress behind it, is the path of an encoding as far as it has grown;  *)
(* compress_emit adds a point to it, every other handler leaves it alone.  *)
(*                                                                         *)
(* The invariant Follows says that the stream is at some stage of the      *)
(* encoder that sees the whole input: the same bytes have their tokens,    *)
(* the same token is held back, the same groups are out and the same one   *)
(* is in the block.  The search in the window finds what the encoder finds *)
(* in the input because a window that has slid still has all that is in    *)
(* reach (Slid), and because no search is made before as much has come as  *)
(* a token and a look one byte on may want (Ready).                        *)
(***************************************************************************)
EXTENDS CompressorProofs, ReferenceProofs

\* Abbreviations of the model.
USE DEF Readable, Writable, Drop, Filled, MinLookahead, Complete

Accounted ==
    Encoding =>
        /\ block_tokens = 0 => block_out = 0
        /\ \E blocks, covered \in Nat :
              /\ Len(out) - block_out <= HEADER_SIZE + covered + blocks
              /\ blocks * TOKENS_PER_BLOCK <= covered
              /\ covered + Len(block) - 1 <= Consumed

BInv == IInv /\ Accounted /\ WithinBound

\* The rounded quotient is the least multiple that covers a number.
LEMMA RoundedUp ==
    ASSUME NEW n \in Nat \ {0}, NEW size \in Nat, NEW q \in Nat,
           q * n <= size + n - 1
    PROVE  /\ (size + n - 1) \div n \in Nat
           /\ q <= (size + n - 1) \div n
  <1> DEFINE a == size + n - 1
             d == a \div n
  <1>1. a \in Nat
    OBVIOUS
  <1> HIDE DEF a
  <1>2. d \in Nat /\ a = n * d + (a % n) /\ a % n \in 0 .. n - 1
    BY <1>1, DivMod
  <1> HIDE DEF d
  <1>3. CASE q > d
    <2>1. q * n >= (d + 1) * n
      BY <1>2, <1>3
    <2>2. (d + 1) * n = n * d + n
      BY <1>2
    <2>3. a < n * d + n
      BY <1>2
    <2>4. n * d \in Nat /\ q * n \in Nat
      BY <1>2
    <2>5. q * n <= a
      BY DEF a
    <2> QED BY <1>1, <2>1, <2>2, <2>3, <2>4, <2>5
  <1> QED BY <1>2, <1>3 DEF a, d

LEMMA BoundInNat ==
    ASSUME NEW size \in Nat
    PROVE  /\ yaz0_compress_bound(size) \in Nat
           /\ yaz0_compress_bound(size) >= HEADER_SIZE /\ yaz0_compress_bound(size) >= size
  <1>1. 0 * TOKENS_PER_BLOCK <= size + TOKENS_PER_BLOCK - 1
    BY SizeFacts
  <1>2. (size + TOKENS_PER_BLOCK - 1) \div TOKENS_PER_BLOCK \in Nat
    BY <1>1, SizeFacts, RoundedUp
  <1> QED BY <1>2 DEF yaz0_compress_bound, HEADER_SIZE

\* So many full blocks for so much input, and the block in progress, fit.
LEMMA AccountFits ==
    ASSUME NEW size \in Nat, NEW consumed \in Nat, consumed <= size,
           NEW blocks \in Nat, NEW covered \in Nat, NEW held \in Nat,
           blocks * TOKENS_PER_BLOCK <= covered, covered + held <= consumed
    PROVE  /\ HEADER_SIZE + covered + blocks <= yaz0_compress_bound(size)
           /\ held >= 1 =>
                HEADER_SIZE + covered + blocks + held + 1 <= yaz0_compress_bound(size)
  <1> DEFINE t == TOKENS_PER_BLOCK
             over == (size + t - 1) \div t
  <1>1. t \in Nat \ {0} /\ blocks * t \in Nat /\ (blocks + 1) * t = blocks * t + t
    BY SizeFacts
  <1> HIDE DEF t
  <1>2. blocks * t <= covered
    BY DEF t
  <1>3. blocks <= over /\ over \in Nat
    <2>1. blocks * t <= size + t - 1
      BY <1>1, <1>2
    <2> QED BY <1>1, <2>1, RoundedUp
  <1>4. ASSUME held >= 1 PROVE blocks + 1 <= over
    <2>1. (blocks + 1) * t <= size + t - 1
      BY <1>1, <1>2, <1>4
    <2>2. blocks + 1 \in Nat
      OBVIOUS
    <2> QED BY <1>1, <2>1, <2>2, RoundedUp
  <1>5. yaz0_compress_bound(size) = HEADER_SIZE + size + over
    BY DEF yaz0_compress_bound, t
  <1> HIDE DEF over
  <1> QED BY <1>3, <1>4, <1>5 DEF HEADER_SIZE

LEMMA AccountedFits ==
    ASSUME IInv, Accounted, Encoding
    PROVE  WithinBound
  <1>1. BufferType /\ WindowType /\ BlockType /\ ModeOK /\ WindowHoldsInput
    BY TypeParts DEF IInv
  <1>2. PICK blocks \in Nat, covered \in Nat :
              /\ Len(out) - block_out <= HEADER_SIZE + covered + blocks
              /\ blocks * TOKENS_PER_BLOCK <= covered
              /\ covered + Len(block) - 1 <= Consumed
    BY DEF Accounted
  <1>3. /\ Len(out) \in Nat /\ Len(block) \in Nat /\ block_out \in Nat
        /\ block_tokens \in Nat /\ uncompressed_size \in Nat
        /\ Len(block) > block_tokens /\ block_out <= Len(block)
        /\ received \in Nat /\ received <= uncompressed_size
        /\ window_size \in Nat /\ window_pos \in Nat
        /\ window_pos <= window_size /\ window_size <= received
        /\ Consumed = received - (window_size - window_pos)
        /\ block_tokens = 0 => block_out = 0
    BY <1>1, SizeFacts
       DEF BufferType, WindowType, BlockType, ModeOK, WindowHoldsInput, Consumed, Accounted
  <1>4. Consumed \in Nat /\ Consumed <= uncompressed_size
        /\ Len(block) - 1 \in Nat /\ covered + (Len(block) - 1) <= Consumed
    BY <1>2, <1>3
  <1>5. /\ HEADER_SIZE + covered + blocks <= yaz0_compress_bound(uncompressed_size)
        /\ Len(block) - 1 >= 1 =>
             HEADER_SIZE + covered + blocks + (Len(block) - 1) + 1
               <= yaz0_compress_bound(uncompressed_size)
    BY <1>2, <1>3, <1>4, AccountFits
  <1>6. yaz0_compress_bound(uncompressed_size) \in Nat
    BY <1>3, BoundInNat
  <1>7. CASE block_tokens = 0
    BY <1>2, <1>3, <1>5, <1>6, <1>7 DEF WithinBound, HEADER_SIZE
  <1>8. CASE block_tokens # 0
    BY <1>2, <1>3, <1>5, <1>6, <1>8 DEF WithinBound, HEADER_SIZE
  <1> QED BY <1>7, <1>8

LEMMA AccountedFitsNext == IInv' /\ Accounted' /\ Encoding' => WithinBound'
  <1>1. IInv /\ Accounted /\ Encoding => WithinBound
    BY AccountedFits
  <1> QED BY <1>1, PTL

-----------------------------------------------------------------------------
(* The account under each handler. *)

\* A step that leaves output, block and the count of encoded bytes alone.
LEMMA AccountKept ==
    ASSUME Accounted, Encoding, UNCHANGED <<out, blockVars>>, Consumed' = Consumed
    PROVE  Accounted'
  BY DEF Accounted, blockVars

\* What is written is added to what was.
LEMMA ConcatLength ==
    \A s, t \in Seq(Byte) : Len(s \o t) = Len(s) + Len(t)
  OBVIOUS

LEMMA HeaderAccount ==
    ASSUME IInv, compress_header, IInv'
    PROVE  Accounted'
  <1>1. CASE mode' = "FILL"
    <2>1. /\ mode = "HEADER" /\ Len(out) = window_pos /\ received = 0
          /\ block_tokens = 0 /\ block_out = 0 /\ Len(block) = 1
          /\ window_pos \in 0 .. HEADER_SIZE - 1
      <3>1. mode = "HEADER"
        BY DEF compress_header, At
      <3>2. ModeOK /\ window_pos \in 0 .. WINDOW_SIZE
        BY DEF IInv, TypeOK
      <3>3. window_pos \in Nat /\ window_pos < HEADER_SIZE
        BY <3>1, <3>2, SizeFacts DEF ModeOK
      <3>4. window_pos \in 0 .. HEADER_SIZE - 1
        BY <3>3 DEF HEADER_SIZE
      <3> QED BY <3>1, <3>2, <3>4 DEF ModeOK
    <2> DEFINE header == yaz0_write_header(uncompressed_size)
               have   == Least(HEADER_SIZE - window_pos, avail_out)
    <2>2. /\ Write(SubSeq(header, window_pos + 1, window_pos + have))
          /\ window_pos + have = HEADER_SIZE
          /\ window_pos' = 0 /\ window_size' = 0
          /\ UNCHANGED <<received, blockVars>>
      BY <1>1, <2>1 DEF compress_header, compress_suspend
    <2>3. uncompressed_size \in Nat /\ out \in Seq(Byte)
      BY DEF IInv, TypeOK, StreamTypeOK
    <2>4. header \in Seq(Byte) /\ Len(header) = HEADER_SIZE
      BY <2>3, HeaderBytes
    <2>5. have \in Int
      BY <2>1, <2>2 DEF IInv, TypeOK, StreamTypeOK, Least, HEADER_SIZE
    <2> HIDE DEF header, have
    <2>6. Len(SubSeq(header, window_pos + 1, window_pos + have)) = have
          /\ SubSeq(header, window_pos + 1, window_pos + have) \in Seq(Byte)
      <3>1. window_pos \in Nat /\ have \in Nat /\ window_pos + have <= Len(header)
        BY <2>1, <2>2, <2>4, <2>5 DEF HEADER_SIZE
      <3> QED BY <2>4, <3>1, Stretch
    <2>7. Len(out') = HEADER_SIZE
      <3> DEFINE piece == SubSeq(header, window_pos + 1, window_pos + have)
      <3>0. out' = out \o piece
        BY <2>2 DEF Write
      <3>1. out' = out \o piece /\ piece \in Seq(Byte) /\ Len(piece) = have
        BY <3>0, <2>6
      <3> HIDE DEF piece
      <3>2. Len(out \o piece) = Len(out) + Len(piece)
        BY <2>3, <3>1, ConcatLength
      <3>3. Len(out') = Len(out) + have
        BY <3>1, <3>2
      <3> QED BY <2>1, <2>2, <3>3
    <2>8. block_tokens' = 0 /\ block_out' = 0 /\ Len(block') = 1 /\ Consumed' = 0
      BY <2>1, <2>2 DEF blockVars, Consumed
    <2>9. /\ Len(out') - block_out' <= HEADER_SIZE + 0 + 0
          /\ 0 * TOKENS_PER_BLOCK <= 0
          /\ 0 + Len(block') - 1 <= Consumed'
      BY <2>7, <2>8, SizeFacts DEF HEADER_SIZE
    <2> QED BY <2>8, <2>9 DEF Accounted
  <1>2. CASE mode' # "FILL"
    BY <1>2 DEF compress_header, At, compress_suspend, compress_continue, Accounted, Encoding
  <1> QED BY <1>1, <1>2

LEMMA FillAccount ==
    ASSUME IInv, compress_fill, Accounted
    PROVE  Accounted'
  <1> DEFINE drop  == IF window_pos < 2 * MAX_DISTANCE THEN 0 ELSE MAX_DISTANCE
             bytes == Least(WINDOW_SIZE - (window_size - drop), avail_in)
  <1>1. BufferType /\ WindowType /\ WindowHoldsInput /\ Encoding
    BY TypeParts DEF IInv, compress_fill, At, Encoding
  <1>2. /\ drop \in 0 .. window_pos
        /\ window_pos \in Nat /\ window_size \in Nat /\ window_pos <= window_size
        /\ received \in Nat /\ window_size <= received
        /\ bytes \in 0 .. avail_in /\ avail_in \in Nat
    BY <1>1, FillNumbers DEF BufferType
  <1>3. /\ received' = received + bytes /\ window_pos' = window_pos - drop
        /\ window_size' = (window_size - drop) + bytes
        /\ UNCHANGED <<out, blockVars>>
    BY DEF compress_fill
  <1> HIDE DEF drop, bytes
  <1>4. Consumed' = Consumed
    BY <1>2, <1>3 DEF Consumed
  <1> QED BY <1>1, <1>3, <1>4, AccountKept

LEMMA EmitAccount ==
    ASSUME IInv, compress_emit, Accounted
    PROVE  Accounted'
  <1> DEFINE l == match.length
             consumed == IF l < MIN_MATCH THEN 1 ELSE l
  <1>1. /\ match \in Token /\ Encoding /\ block \in Seq(Byte) /\ mode = "EMIT"
        /\ block_out = 0 /\ block_tokens \in Nat /\ Len(block) > block_tokens
        /\ out \in Seq(Byte)
        /\ CopiesInput(match, Consumed)
    BY SizeFacts
       DEF IInv, TypeOK, StreamTypeOK, ModeOK, MatchCopiesInput, compress_emit, At, Encoding
  <1>2. /\ l \in Nat /\ l >= 1 /\ (l < MIN_MATCH => l = 1)
        /\ window_pos \in Nat /\ window_size \in Nat /\ received \in Nat
        /\ Consumed = received - (window_size - window_pos) /\ Consumed \in Int
    BY <1>1, SizeFacts DEF IInv, TypeOK, Consumed, Token, MIN_MATCH
  <1>3. consumed = l /\ ~(consumed > window_size - window_pos)
    <2>1. Consumed + l <= received
      BY <1>1 DEF CopiesInput
    <2> QED BY <1>2, <2>1
  <1>4. /\ UNCHANGED <<out, received, window_size, block_out>>
        /\ window_pos' = window_pos + l /\ block_tokens' = block_tokens + 1
        /\ block' = IF l < MIN_MATCH
                    THEN Append([block EXCEPT ![1] = (@ + CodeBit(block_tokens)) % Radix],
                                window[window_pos])
                    ELSE block \o EncodeReference(l, match.distance)
    BY <1>3 DEF compress_emit, streamVars
  <1>5. Len(block') <= Len(block) + l /\ Len(block') \in Nat
    <2>1. CASE l < MIN_MATCH
      BY <1>1, <1>2, <1>4, <2>1
    <2>2. CASE ~(l < MIN_MATCH)
      <3>1. EncodeReference(l, match.distance) \in Seq(Byte)
            /\ Len(EncodeReference(l, match.distance)) <= l
        <4>1. match.length >= MIN_MATCH
          BY <1>2, <2>2 DEF MIN_MATCH
        <4>2. match.distance \in 1 .. Least(MAX_DISTANCE, Consumed)
          BY <1>1, <4>1 DEF CopiesInput
        <4>3. match.distance \in Nat
          BY <1>1, SizeFacts DEF Token
        <4> QED BY <1>1, <4>1, <4>2, <4>3, PairBytes
      <3> QED BY <1>1, <1>2, <1>4, <2>2, <3>1
    <2> QED BY <2>1, <2>2
  <1>6. Consumed' = Consumed + l
    <2>1. /\ received' = received /\ window_size' = window_size
          /\ window_pos' = window_pos + l
      BY <1>4
    <2> HIDE DEF l
    <2> QED BY <1>2, <2>1 DEF Consumed
  <1>7. PICK blocks \in Nat, covered \in Nat :
              /\ Len(out) - block_out <= HEADER_SIZE + covered + blocks
              /\ blocks * TOKENS_PER_BLOCK <= covered
              /\ covered + Len(block) - 1 <= Consumed
    BY <1>1 DEF Accounted
  <1> HIDE DEF l
  <1>8. covered + Len(block') - 1 <= Consumed'
    BY <1>1, <1>2, <1>5, <1>6, <1>7
  <1>9. Len(out') - block_out' <= HEADER_SIZE + covered + blocks
    BY <1>4, <1>7
  <1>10. block_out' = 0
    BY <1>1, <1>4
  <1> QED BY <1>7, <1>8, <1>9, <1>10 DEF Accounted

\* A block that has gone out in full becomes one of the full blocks.
LEMMA WriteBlockAccount ==
    ASSUME IInv, compress_write_block, Accounted
    PROVE  Accounted'
  <1> DEFINE have == Least(Len(block) - block_out, avail_out)
  <1>1. /\ mode = "WRITE_BLOCK" /\ UNCHANGED resets /\ Encoding
        /\ block \in Seq(Byte) /\ block_out \in 0 .. Len(block)
        /\ block_tokens = TOKENS_PER_BLOCK /\ Len(block) > block_tokens
        /\ out \in Seq(Byte) /\ avail_out \in Nat
    BY DEF IInv, TypeOK, StreamTypeOK, ModeOK, compress_write_block, At, Encoding
  <1>2. /\ WriteBlock(have)
        /\ \/ block_out' = block_out + have /\ UNCHANGED <<block, block_tokens>>
           \/ block' = <<0>> /\ block_out' = 0 /\ block_tokens' = 0
              /\ block_out + have = Len(block)
    BY DEF compress_write_block
  <1>3. have \in Nat /\ block_out + have \in 0 .. Len(block)
    BY <1>1 DEF Least
  <1> HIDE DEF have
  <1>4. Len(out') = Len(out) + have
    <2>1. block_out \in Nat /\ block_out + have <= Len(block)
      BY <1>1, <1>3
    <2>2. SubSeq(block, block_out + 1, block_out + have) \in Seq(Byte)
          /\ Len(SubSeq(block, block_out + 1, block_out + have)) = have
      BY <1>1, <1>3, <2>1, Stretch
    <2> QED BY <1>1, <1>2, <2>2 DEF WriteBlock, Write
  <1>5. Consumed' = Consumed
    BY <1>2 DEF WriteBlock, windowVars, Consumed
  <1>6. PICK blocks \in Nat, covered \in Nat :
              /\ Len(out) - block_out <= HEADER_SIZE + covered + blocks
              /\ blocks * TOKENS_PER_BLOCK <= covered
              /\ covered + Len(block) - 1 <= Consumed
    BY <1>1 DEF Accounted
  <1>7. CASE block_out' = block_out + have /\ UNCHANGED <<block, block_tokens>>
    <2>1. Len(out') - block_out' = Len(out) - block_out
      BY <1>1, <1>3, <1>4, <1>7
    <2>2. block_tokens' # 0
      BY <1>1, <1>7, SizeFacts
    <2> QED BY <1>5, <1>6, <1>7, <2>1, <2>2 DEF Accounted
  <1>8. CASE block' = <<0>> /\ block_out' = 0 /\ block_tokens' = 0
             /\ block_out + have = Len(block)
    <2> DEFINE k == Len(block) - 1
    <2>1. k \in Nat /\ k >= TOKENS_PER_BLOCK /\ Len(block') = 1
      BY <1>1, <1>8, SizeFacts
    <2>2. Len(out') - block_out' <= HEADER_SIZE + (covered + k) + (blocks + 1)
      BY <1>1, <1>3, <1>4, <1>6, <1>8 DEF HEADER_SIZE
    <2>3. (blocks + 1) * TOKENS_PER_BLOCK <= covered + k
      <3>1. (blocks + 1) * TOKENS_PER_BLOCK = blocks * TOKENS_PER_BLOCK + TOKENS_PER_BLOCK
            /\ blocks * TOKENS_PER_BLOCK \in Nat
        BY SizeFacts
      <3> HIDE DEF k
      <3> QED BY <1>6, <2>1, <3>1, SizeFacts
    <2>4. (covered + k) + Len(block') - 1 <= Consumed'
      BY <1>1, <1>5, <1>6, <2>1
    <2>5. covered + k \in Nat /\ blocks + 1 \in Nat
      BY <2>1
    <2> QED BY <1>8, <2>2, <2>3, <2>4, <2>5 DEF Accounted
  <1> QED BY <1>2, <1>7, <1>8

LEMMA FlushAccount ==
    ASSUME IInv, compress_flush, Accounted
    PROVE  Accounted'
  <1> DEFINE have == Least(Len(block) - block_out, avail_out)
  <1>1. /\ mode = "FLUSH" /\ UNCHANGED resets /\ Encoding
        /\ block \in Seq(Byte) /\ block_out \in 0 .. Len(block)
        /\ out \in Seq(Byte) /\ avail_out \in Nat
    BY DEF IInv, TypeOK, StreamTypeOK, compress_flush, At, Encoding
  <1>2. CASE UNCHANGED <<streamVars, configVars, windowVars, match, matcherVars, blockVars>>
    BY <1>1, <1>2, AccountKept DEF streamVars, windowVars, Consumed
  <1>3. CASE /\ WriteBlock(have) /\ block_tokens # 0
             /\ block_out' = block_out + have
             /\ UNCHANGED <<block, block_tokens>>
    <2>1. have \in Nat /\ block_out + have \in 0 .. Len(block)
      BY <1>1 DEF Least
    <2> HIDE DEF have
    <2>2. Len(out') = Len(out) + have
      <3>1. block_out \in Nat /\ block_out + have <= Len(block)
        BY <1>1, <2>1
      <3>2. SubSeq(block, block_out + 1, block_out + have) \in Seq(Byte)
            /\ Len(SubSeq(block, block_out + 1, block_out + have)) = have
        BY <1>1, <2>1, <3>1, Stretch
      <3> QED BY <1>1, <1>3, <3>2 DEF WriteBlock, Write
    <2>3. Len(out') - block_out' = Len(out) - block_out /\ Consumed' = Consumed
      BY <1>1, <1>3, <2>1, <2>2 DEF WriteBlock, windowVars, Consumed
    <2> QED BY <1>1, <1>3, <2>3 DEF Accounted
  <1> QED BY <1>2, <1>3 DEF compress_flush

-----------------------------------------------------------------------------

LEMMA InitBInv == Init => BInv
  <1> SUFFICES ASSUME Init PROVE BInv
    OBVIOUS
  <1>1. IInv
    BY InitIInv
  <1>2. mode = "HEADER" /\ out = <<>> /\ uncompressed_size \in Nat
    BY <1>1 DEF Init, StreamInit, IInv, TypeOK
  <1>3. WithinBound /\ Accounted
    BY <1>2, BoundInNat DEF WithinBound, Accounted, Encoding, HEADER_SIZE
  <1> QED BY <1>1, <1>3 DEF BInv

\* While nothing is being encoded the bound is about the output alone.
LEMMA QuietBound ==
    ASSUME ~Encoding', WithinBound, UNCHANGED <<out, uncompressed_size>>
    PROVE  WithinBound'
  BY DEF WithinBound

LEMMA NextBInv == BInv /\ [Next]_vars => BInv'
  <1> SUFFICES ASSUME BInv, [Next]_vars PROVE BInv'
    OBVIOUS
  <1>1. IInv /\ Accounted /\ WithinBound /\ IInv'
    BY NextIInv DEF BInv
  <1>2. Accounted'
    <2>1. CASE Call
      BY <1>1, <2>1 DEF Call, Enter, Accounted, Encoding, Consumed, blockVars, windowVars
    <2>2. CASE compress_find_match
      <3>1. Encoding /\ UNCHANGED <<out, blockVars>> /\ Consumed' = Consumed
        BY <2>2 DEF compress_find_match, At, Encoding, streamVars, windowVars, Consumed
      <3> QED BY <1>1, <3>1, AccountKept
    <2>3. CASE Settled
      BY <1>1, <2>3 DEF Settled, Accounted, Encoding, Consumed, streamVars, windowVars,
         blockVars
    <2>4. CASE yaz0_compress_reset
      BY <2>4 DEF yaz0_compress_reset, Accounted, Encoding
    <2>5. CASE UNCHANGED vars
      BY <1>1, <2>5 DEF vars, Accounted, Encoding, Consumed, streamVars, windowVars,
         blockVars
    <2> QED BY <1>1, <2>1, <2>2, <2>3, <2>4, <2>5, HeaderAccount, FillAccount,
               EmitAccount, WriteBlockAccount, FlushAccount DEF Next, yaz0_compress
  <1>3. CASE Encoding'
    BY <1>1, <1>2, <1>3, AccountedFitsNext DEF BInv
  <1>4. CASE ~Encoding' /\ UNCHANGED <<out, uncompressed_size>>
    BY <1>1, <1>2, <1>4, QuietBound DEF BInv
  <1>5. CASE mode' = "HEADER"
    <2>1. Len(out') < HEADER_SIZE /\ uncompressed_size' \in Nat /\ ~Encoding'
          /\ Len(out') \in Nat
      <3>1. ModeOK' /\ out' \in Seq(Byte) /\ uncompressed_size' \in Nat
        BY <1>1 DEF IInv, TypeOK, StreamTypeOK
      <3>2. Len(out') = window_pos' /\ window_pos' < HEADER_SIZE
        BY <1>5, <3>1 DEF ModeOK
      <3> QED BY <1>5, <3>1, <3>2 DEF Encoding
    <2>2. yaz0_compress_bound(uncompressed_size') \in Nat
          /\ yaz0_compress_bound(uncompressed_size') >= HEADER_SIZE
      BY <2>1, BoundInNat
    <2>3. yaz0_compress_bound(uncompressed_size') = yaz0_compress_bound(uncompressed_size)'
      BY DEF yaz0_compress_bound
    <2>4. WithinBound'
      BY <2>1, <2>2, <2>3 DEF WithinBound, HEADER_SIZE
    <2> QED BY <1>1, <1>2, <2>4 DEF BInv
  <1>6. mode' \in Mode
    BY <1>1 DEF IInv, TypeOK
  <1>7. Encoding' \/ mode' = "HEADER" \/ mode' = "ERROR"
    BY <1>6 DEF Mode, Encoding
  <1>8. CASE mode' = "ERROR"
    <2>1. UNCHANGED <<out, uncompressed_size>>
      BY <1>8 DEF Next, yaz0_compress, vars, Call, Enter, Settled, streamVars, configVars,
         compress_header, compress_fill, compress_find_match, compress_emit,
         compress_write_block, compress_flush, yaz0_compress_reset, At,
         compress_suspend, compress_continue, WriteBlock
    <2>2. ~Encoding'
      BY <1>8 DEF Encoding
    <2> QED BY <1>4, <2>1, <2>2
  <1>9. WithinBound' => BInv'
    BY <1>1, <1>2 DEF BInv
  <1> QED BY <1>3, <1>5, <1>7, <1>8, <1>9

(***************************************************************************)
(* A caller that sets aside yaz0_compress_bound(uncompressed_size) bytes   *)
(* never runs out of them: whatever the input, the calls and the errors,   *)
(* neither what has been written nor what the block still holds goes       *)
(* beyond (compress.c: yaz0_compress_bound).                               *)
(***************************************************************************)
THEOREM BoundCorrect == Spec => []WithinBound
  <1>1. BInv => WithinBound
    BY DEF BInv
  <1> QED BY <1>1, InitBInv, NextBInv, PTL DEF Spec

-----------------------------------------------------------------------------
(* The output is an encoding. *)

\* The output, and what the block will add to it.
Produced ==
    IF block_tokens = 0 THEN out ELSE out \o SubSeq(block, block_out + 1, Len(block))

\* Where the tokens of the block in progress are.
InBlock(last) ==
    /\ last.index = IF block_tokens = 0 THEN TOKENS_PER_BLOCK ELSE block_tokens
    /\ block_tokens > 0 =>
          last.code = Len(out) - block_out + 1 /\ last.bits = block[1]

HasPath ==
    \E points \in SUBSET Point, last \in Point :
        /\ Growing(Produced, input, points, last)
        /\ last.from = Consumed
        /\ InBlock(last)

EncodesSoFar ==
    /\ uncompressed_size < Radix * Radix
    /\ mode = "HEADER" =>
          \A i \in 1 .. Len(out) : out[i] = yaz0_write_header(uncompressed_size)[i]
    /\ block_tokens = 0 => block = <<0>> /\ block_out = 0
    /\ Encoding =>
          /\ HasHeader(out, uncompressed_size)
          /\ HasPath
          /\ mode \in {"FLUSH", "DONE"} => window_pos = window_size
          /\ mode = "DONE" =>
                /\ received = uncompressed_size
                /\ block_tokens = 0 \/ block_out = Len(block)

EInv == IInv /\ EncodesSoFar

\* A step that moves neither the output nor what has been encoded.
LEMMA PathKept ==
    ASSUME HasPath, UNCHANGED <<input, out, blockVars>>, Consumed' = Consumed
    PROVE  HasPath'
  BY DEF HasPath, InBlock, Produced, blockVars

LEMMA EncodingKept ==
    ASSUME EncodesSoFar, Encoding, Encoding',
           UNCHANGED <<input, out, blockVars, uncompressed_size>>, Consumed' = Consumed,
           mode' \in {"FLUSH", "DONE"} => window_pos' = window_size',
           mode' = "DONE" => /\ received' = uncompressed_size
                             /\ block_tokens = 0 \/ block_out = Len(block)
    PROVE  EncodesSoFar'
  <1>1. HasPath'
    BY PathKept DEF EncodesSoFar
  <1> QED BY <1>1 DEF EncodesSoFar, HasHeader, blockVars, Encoding

LEMMA HeaderEncodes ==
    ASSUME IInv, EncodesSoFar, compress_header
    PROVE  EncodesSoFar'
  <1> DEFINE header == yaz0_write_header(uncompressed_size)
             have   == Least(HEADER_SIZE - window_pos, avail_out)
             piece  == SubSeq(header, window_pos + 1, window_pos + have)
  <1>1. BufferType /\ WindowType /\ BlockType /\ ModeOK /\ mode = "HEADER"
    BY TypeParts DEF IInv, compress_header, At
  <1>2. Len(out) = window_pos /\ window_pos \in 0 .. HEADER_SIZE - 1
        /\ received = 0 /\ block_tokens = 0 /\ block_out = 0 /\ Len(block) = 1
    BY <1>1 DEF ModeOK, WindowType, HEADER_SIZE
  <1>3. have \in 0 .. HEADER_SIZE - window_pos
    BY <1>1, <1>2 DEF BufferType, Least, HEADER_SIZE
  <1>4. /\ UNCHANGED <<input, configVars, received, blockVars>>
        /\ out' = out \o piece
        /\ \/ window_pos + have < HEADER_SIZE /\ mode' = "HEADER"
           \/ /\ window_pos + have = HEADER_SIZE
              /\ window_pos' = 0 /\ window_size' = 0 /\ mode' = "FILL"
    BY <1>1 DEF compress_header, Write, compress_suspend, compress_continue
  <1>5. header \in Seq(Byte) /\ Len(header) = HEADER_SIZE
    BY <1>1, HeaderBytes DEF WindowType
  <1> HIDE DEF header, have
  <1>6. /\ Len(out') = window_pos + have
        /\ \A i \in 1 .. Len(out') : out'[i] = header[i]
    <2>1. piece \in Seq(Byte) /\ Len(piece) = have
          /\ \A i \in 1 .. have : piece[i] = header[window_pos + i]
      <3>1. window_pos \in Nat /\ have \in Nat /\ window_pos + have <= Len(header)
        BY <1>2, <1>3, <1>5 DEF HEADER_SIZE
      <3> QED BY <1>5, <3>1, StretchParts
    <2>2. \A i \in 1 .. Len(out) : out[i] = header[i]
      BY <1>1 DEF EncodesSoFar, header
    <2>3. out \in Seq(Byte)
      BY <1>1 DEF BufferType
    <2> HIDE DEF piece
    <2>4. /\ Len(out') = Len(out) + have
          /\ \A i \in 1 .. Len(out) : out'[i] = out[i]
          /\ \A k \in 1 .. have : out'[Len(out) + k] = piece[k]
      BY <1>4, <2>1, <2>3, ConcatParts
    <2>5. ASSUME NEW i \in 1 .. window_pos + have PROVE out'[i] = header[i]
      <3>1. CASE i <= window_pos
        <4>1. i \in 1 .. Len(out)
          BY <1>2, <3>1
        <4> QED BY <2>2, <2>4, <4>1
      <3>2. CASE i > window_pos
        <4>1. i - window_pos \in 1 .. have /\ i = window_pos + (i - window_pos)
          BY <1>2, <1>3, <2>5, <3>2 DEF HEADER_SIZE
        <4> QED BY <1>2, <2>1, <2>4, <4>1
      <3> QED BY <1>2, <3>1, <3>2
    <2> QED BY <1>2, <2>4, <2>5
  <1>7. CASE window_pos + have < HEADER_SIZE /\ mode' = "HEADER"
    BY <1>4, <1>6, <1>7 DEF EncodesSoFar, Encoding, configVars, blockVars, header
  <1>8. CASE /\ window_pos + have = HEADER_SIZE
             /\ window_pos' = 0 /\ window_size' = 0 /\ mode' = "FILL"
    <2>1. Len(out') = HEADER_SIZE /\ HasHeader(out', uncompressed_size')
      <3>1. Len(out') = HEADER_SIZE /\ \A i \in 1 .. HEADER_SIZE : out'[i] = header[i]
        BY <1>6, <1>8
      <3>2. uncompressed_size' = uncompressed_size
        BY <1>4 DEF configVars
      <3> QED BY <3>1, <3>2 DEF HasHeader, header, HEADER_SIZE
    <2>2. /\ block_tokens' = 0 /\ block_out' = 0 /\ Consumed' = 0
          /\ Produced' = out'
      BY <1>2, <1>4, <1>8 DEF blockVars, Consumed, Produced
    <2>3. Growing(Produced', input', {Start}, Start)
      BY <2>1, <2>2, StartGrows
    <2>4. Start.from = Consumed' /\ Start.index = TOKENS_PER_BLOCK
      BY <2>2 DEF Start
    <2>5. HasPath'
      BY <2>2, <2>3, <2>4, StartIsPoint DEF HasPath, InBlock
    <2>6. block' = <<0>>
      BY <1>2, <1>4 DEF EncodesSoFar, blockVars
    <2> QED BY <1>4, <1>8, <2>1, <2>2, <2>5, <2>6 DEF EncodesSoFar, Encoding, configVars
  <1> QED BY <1>4, <1>7, <1>8

\* A step that leaves the encoding, whatever it leads to.
LEMMA EncodingLeft ==
    ASSUME EncodesSoFar, UNCHANGED <<blockVars, uncompressed_size>>,
           ~Encoding', mode' # "HEADER"
    PROVE  EncodesSoFar'
  BY DEF EncodesSoFar, blockVars

LEMMA FillEncodes ==
    ASSUME IInv, compress_fill, EncodesSoFar, IInv'
    PROVE  EncodesSoFar'
  <1> DEFINE drop  == IF window_pos < 2 * MAX_DISTANCE THEN 0 ELSE MAX_DISTANCE
             bytes == Least(WINDOW_SIZE - (window_size - drop), avail_in)
  <1>1. BufferType /\ WindowType /\ WindowHoldsInput /\ Encoding /\ mode = "FILL"
    BY TypeParts DEF IInv, compress_fill, At, Encoding
  <1>2. /\ drop \in 0 .. window_pos
        /\ window_pos \in Nat /\ window_size \in Nat /\ window_pos <= window_size
        /\ received \in Nat /\ window_size <= received
        /\ bytes \in 0 .. avail_in /\ avail_in \in Nat
    BY <1>1, FillNumbers DEF BufferType
  <1>3. /\ received' = received + bytes /\ window_pos' = window_pos - drop
        /\ window_size' = (window_size - drop) + bytes
        /\ UNCHANGED <<input, out, blockVars, uncompressed_size>>
    BY DEF compress_fill, configVars, Read
  <1> HIDE DEF drop, bytes
  <1>4. Consumed' = Consumed
    BY <1>2, <1>3 DEF Consumed
  <1>5. CASE mode' = "ERROR"
    BY <1>3, <1>5, EncodingLeft DEF Encoding
  <1>6. CASE mode' \in {"FILL", "FIND_MATCH"}
    BY <1>1, <1>3, <1>4, <1>6, EncodingKept DEF Encoding
  <1>7. CASE mode' = "FLUSH"
    <2>1. Encoding' /\ window_pos' <= window_size'
      BY <1>7 DEF IInv, WindowHoldsInput, Encoding
    <2>2. window_size' - window_pos' < 1
      BY <1>1, <1>7 DEF compress_fill, compress_error, compress_continue,
                        compress_suspend
    <2>3. window_pos' = window_size'
      BY <1>2, <1>3, <2>1, <2>2
    <2> QED BY <1>1, <1>3, <1>4, <1>7, <2>1, <2>3, EncodingKept
  <1> QED BY <1>1, <1>5, <1>6, <1>7
          DEF compress_fill, compress_error, compress_continue, compress_suspend

LEMMA FindMatchEncodes ==
    ASSUME compress_find_match, EncodesSoFar
    PROVE  EncodesSoFar'
  <1>1. /\ Encoding /\ Encoding' /\ mode' = "EMIT"
        /\ UNCHANGED <<input, out, blockVars, uncompressed_size>> /\ Consumed' = Consumed
    BY DEF compress_find_match, compress_continue, At, Encoding, streamVars, configVars,
           windowVars, Consumed
  <1> QED BY <1>1, EncodingKept

-----------------------------------------------------------------------------
(* A token is added to the block. *)

\* Behind the output and the tokens of the block in progress there is room for
\* one more; the code byte of a new block is put down for it.
LEMMA BlockReady ==
    ASSUME IInv, EncodesSoFar, mode = "EMIT"
    PROVE  /\ out \o block \in Seq(Byte)
           /\ \E points \in SUBSET Point, last \in Point :
                 /\ Growing(out \o block, input, points, last)
                 /\ last.from = Consumed /\ last.index = block_tokens
                 /\ last.code = Len(out) + 1 /\ last.bits = block[1]
  <1>1. /\ Encoding /\ out \in Seq(Byte) /\ block \in Seq(Byte)
        /\ block_out = 0 /\ block_tokens \in Nat /\ Len(block) > block_tokens
    BY SizeFacts DEF Encoding, IInv, TypeOK, StreamTypeOK, ModeOK
  <1>2. PICK points \in SUBSET Point, last \in Point :
        /\ Growing(Produced, input, points, last)
        /\ last.from = Consumed
        /\ InBlock(last)
    BY <1>1 DEF EncodesSoFar, HasPath
  <1>3. CASE block_tokens > 0
    <2>1. SubSeq(block, 1, Len(block)) = block
      BY <1>1
    <2>2. Produced = out \o block
      BY <1>1, <1>3, <2>1 DEF Produced
    <2>3. /\ last.index = block_tokens /\ last.code = Len(out) + 1
          /\ last.bits = block[1]
      BY <1>1, <1>2, <1>3 DEF InBlock
    <2> QED BY <1>1, <1>2, <2>2, <2>3
  <1>4. CASE block_tokens = 0
    <2>1. Produced = out /\ block = <<0>> /\ last.index = TOKENS_PER_BLOCK
      BY <1>2, <1>4 DEF Produced, EncodesSoFar, InBlock
    <2> DEFINE grown == out \o block
    <2>2. grown = Append(out, 0) /\ Growing(out, input, points, last)
      BY <1>1, <1>2, <2>1
    <2> HIDE DEF grown
    <2>3. PICK q \in Point :
              /\ Growing(grown, input, points \cup {q}, q)
              /\ q.from = last.from /\ q.index = 0 /\ q.bits = 0
              /\ q.code = Len(out) + 1
      <3>1. out \in Seq(Byte) /\ last.index = TOKENS_PER_BLOCK /\ grown = Append(out, 0)
        BY <1>1, <2>1, <2>2
      <3>2. Growing(out, input, points, last)
        BY <2>2
      <3>3. PutsCodeByte(out, input, points, last, grown)
        BY <3>1, <3>2 DEF PutsCodeByte
      <3>4. GrowsBy(grown, input, points, last.from, 0, Len(out) + 1, 0)
        BY <3>3, BlockOpened
      <3> QED BY <3>4 DEF GrowsBy
    <2>4. points \cup {q} \in SUBSET Point /\ block[1] = 0
      BY <2>1
    <2> QED BY <1>1, <1>2, <1>4, <2>3, <2>4 DEF grown
  <1> QED BY <1>1, <1>3, <1>4

\* The block with the token in it.
LEMMA TokenAdded ==
    ASSUME EncodesSoFar, Encoding, Encoding', mode' \in {"FILL", "WRITE_BLOCK"},
           UNCHANGED <<input, out, block_out, uncompressed_size>>,
           block_out = 0, block_tokens' \in Nat \ {0}, block' \in Seq(Byte),
           NEW points \in SUBSET Point, NEW q \in Point,
           Growing(out \o block', input, points, q),
           q.from = Consumed', q.index = block_tokens',
           q.code = Len(out) + 1, q.bits = block'[1], Len(out) \in Nat
    PROVE  EncodesSoFar'
  <1>1. SubSeq(block', 1, Len(block')) = block'
    OBVIOUS
  <1>2. Produced' = out' \o block'
    BY <1>1 DEF Produced
  <1>3. InBlock(q)'
    BY DEF InBlock
  <1>4. Growing(Produced', input', points, q)
    BY <1>2
  <1>5. HasPath'
    BY <1>3, <1>4 DEF HasPath
  <1> QED BY <1>5 DEF EncodesSoFar, HasHeader, Encoding

\* The step that emits: the bit of a literal finds room in the code byte, and its
\* byte is the next of the input.
LEMMA EmitBlock ==
    ASSUME IInv, compress_emit, EncodesSoFar
    PROVE  /\ mode = "EMIT" /\ block_out = 0 /\ block_tokens \in Nat
           /\ UNCHANGED <<streamVars, configVars, matcherVars, received, window_size,
                          block_out, running, flush>>
           /\ match.length \in Nat /\ window_pos \in Nat
           /\ window_pos' = window_pos + match.length
           /\ Consumed' = Consumed + match.length
           /\ block_tokens' = block_tokens + 1
           /\ block' = IF match.length < MIN_MATCH
                       THEN Append([block EXCEPT ![1] = @ + CodeBit(block_tokens)],
                                   input[Consumed + 1])
                       ELSE block \o EncodeReference(match.length, match.distance)
           /\ mode' = IF block_tokens + 1 = TOKENS_PER_BLOCK THEN "WRITE_BLOCK" ELSE "FILL"
  <1> DEFINE l == match.length
             consumed == IF l < MIN_MATCH THEN 1 ELSE l
             bit == CodeBit(block_tokens)
             byte == window[window_pos]
             bytes == out \o block
  <1>1. /\ match \in Token /\ Encoding /\ block \in Seq(Byte) /\ mode = "EMIT"
        /\ block_out = 0 /\ block_tokens \in Nat /\ block_tokens < TOKENS_PER_BLOCK
        /\ Len(block) > block_tokens /\ out \in Seq(Byte) /\ input \in Seq(Byte)
        /\ CopiesInput(match, Consumed)
    BY SizeFacts
       DEF IInv, TypeOK, StreamTypeOK, ModeOK, MatchCopiesInput, compress_emit, At, Encoding
  <1>2. /\ l \in Nat /\ l >= 1 /\ (l < MIN_MATCH => l = 1)
        /\ window_pos \in Nat /\ window_size \in Nat /\ received \in Nat
        /\ Consumed = received - (window_size - window_pos) /\ Consumed \in Int
    <2>1. l \in Nat /\ l >= 1 /\ (l < MIN_MATCH => l = 1)
      BY <1>1, SizeFacts DEF Token, MIN_MATCH
    <2>2. window_pos \in Nat /\ window_size \in Nat /\ received \in Nat
      BY SizeFacts DEF IInv, TypeOK
    <2> HIDE DEF l
    <2> QED BY <2>1, <2>2 DEF Consumed
  <1>3. consumed = l /\ ~(consumed > window_size - window_pos) /\ Consumed + l <= received
    <2>1. Consumed + l <= received
      BY <1>1 DEF CopiesInput
    <2> QED BY <1>2, <2>1
  <1>4. /\ UNCHANGED <<streamVars, configVars, matcherVars, received, window_size,
                       block_out, running, flush>>
        /\ window_pos' = window_pos + l /\ block_tokens' = block_tokens + 1
        /\ block' = IF l < MIN_MATCH
                    THEN Append([block EXCEPT ![1] = (@ + bit) % Radix], byte)
                    ELSE block \o EncodeReference(l, match.distance)
        /\ mode' = IF block_tokens' = TOKENS_PER_BLOCK THEN "WRITE_BLOCK" ELSE "FILL"
    BY <1>3 DEF compress_emit, compress_continue, callVars
  <1>5. Consumed' = Consumed + l
    <2>1. /\ received' = received /\ window_size' = window_size
          /\ window_pos' = window_pos + l
      BY <1>4
    <2> HIDE DEF l
    <2> QED BY <1>2, <2>1 DEF Consumed
  <1>6. PICK points \in SUBSET Point, last \in Point :
              /\ Growing(bytes, input, points, last)
              /\ last.from = Consumed /\ last.index = block_tokens
              /\ last.code = Len(out) + 1 /\ last.bits = block[1]
    BY <1>1, BlockReady
  <1>7. bytes \in Seq(Byte)
    BY <1>1, BlockReady
  <1> HIDE DEF l, consumed, bit, byte, bytes
  <1>8. byte = input[Consumed + 1]
    <2>1. WindowHoldsInput /\ window_size <= received /\ window_pos < window_size
      BY <1>1, <1>2, <1>3 DEF IInv, WindowHoldsInput
    <2>2. window_pos \in 0 .. window_size - 1
      BY <1>2, <2>1
    <2>3. byte = input[received - window_size + window_pos + 1]
      BY <1>1, <2>1, <2>2 DEF WindowHoldsInput, byte
    <2>4. received - window_size + window_pos + 1 = Consumed + 1
      BY <1>2
    <2> QED BY <2>3, <2>4
  <1>9. (block[1] + bit) % Radix = block[1] + bit
    <2>1. last.bits + bit + bit <= Radix
      BY <1>1, <1>6, <1>7, CodeInPlace DEF bit
    <2>2. bit \in Nat \ {0} /\ block[1] \in Nat
      BY <1>1, BitFacts, RadixFacts, SizeFacts DEF bit, Byte
    <2>3. last.bits = block[1]
      BY <1>6
    <2>4. block[1] + bit < Radix
      BY <2>1, <2>2, <2>3, RadixFacts
    <2> QED BY <2>2, <2>4, RadixFacts
  <1>10. block' = IF l < MIN_MATCH
                  THEN Append([block EXCEPT ![1] = @ + bit], input[Consumed + 1])
                  ELSE block \o EncodeReference(l, match.distance)
    BY <1>4, <1>8, <1>9
  <1> QED BY <1>1, <1>2, <1>4, <1>5, <1>10 DEF l, bit

LEMMA EmitEncodes ==
    ASSUME IInv, compress_emit, EncodesSoFar, IInv'
    PROVE  EncodesSoFar'
  <1> DEFINE l == match.length
             bit == CodeBit(block_tokens)
             byte == input[Consumed + 1]
             bytes == out \o block
             grown == out \o block'
  <1>1. /\ match \in Token /\ Encoding /\ block \in Seq(Byte) /\ mode = "EMIT"
        /\ block_out = 0 /\ block_tokens \in Nat /\ block_tokens < TOKENS_PER_BLOCK
        /\ Len(block) > block_tokens /\ out \in Seq(Byte) /\ input \in Seq(Byte)
        /\ CopiesInput(match, Consumed)
    BY SizeFacts
       DEF IInv, TypeOK, StreamTypeOK, ModeOK, MatchCopiesInput, compress_emit, At, Encoding
  <1>2. /\ l \in Nat /\ l >= 1 /\ (l < MIN_MATCH => l = 1)
        /\ Consumed \in Nat /\ Consumed + l <= Len(input)
    <2>1. l \in Nat /\ l >= 1 /\ (l < MIN_MATCH => l = 1)
      BY <1>1, SizeFacts DEF Token, MIN_MATCH
    <2>2. /\ window_pos \in Nat /\ window_size \in Nat /\ received \in Nat
          /\ window_size <= received /\ received <= Len(input)
      BY <1>1, SizeFacts DEF IInv, TypeOK, StreamTypeOK, WindowHoldsInput
    <2>3. Consumed \in Nat
      BY <2>2 DEF Consumed
    <2>4. Consumed + l <= received
      BY <1>1 DEF CopiesInput
    <2> HIDE DEF l
    <2> QED BY <2>1, <2>2, <2>3, <2>4
  <1>4. /\ UNCHANGED <<input, out, received, window_size, block_out, uncompressed_size>>
        /\ block_tokens' = block_tokens + 1
        /\ block' = IF l < MIN_MATCH
                    THEN Append([block EXCEPT ![1] = @ + bit], byte)
                    ELSE block \o EncodeReference(l, match.distance)
        /\ mode' \in {"FILL", "WRITE_BLOCK"} /\ Consumed' = Consumed + l
    BY EmitBlock DEF streamVars, configVars
  <1>6. block' \in Seq(Byte)
    BY DEF IInv, TypeOK
  <1>7. /\ bytes \in Seq(Byte)
        /\ \E points \in SUBSET Point, last \in Point :
              /\ Growing(bytes, input, points, last)
              /\ last.from = Consumed /\ last.index = block_tokens
              /\ last.code = Len(out) + 1 /\ last.bits = block[1]
    BY <1>1, BlockReady
  <1>8. PICK points \in SUBSET Point, last \in Point :
              /\ Growing(bytes, input, points, last)
              /\ last.from = Consumed /\ last.index = block_tokens
              /\ last.code = Len(out) + 1 /\ last.bits = block[1]
    BY <1>7
  <1> HIDE DEF l, bit, byte, bytes
  <1>9. \E q \in Point :
              /\ Growing(grown, input, points \cup {q}, q)
              /\ q.from = Consumed + l /\ q.index = block_tokens + 1
              /\ q.code = Len(out) + 1 /\ q.bits = block'[1]
    <2>1. CASE l < MIN_MATCH
      <3>1. byte \in Byte
        <4>1. Consumed + 1 \in 1 .. Len(input)
          BY <1>2, <2>1
        <4> QED BY <1>1, <4>1 DEF byte
      <3>2. /\ bytes[last.code] = last.bits
            /\ last.bits + bit + bit <= Radix
        BY <1>1, <1>8, CodeInPlace DEF bit
      <3>3. bit \in Nat \ {0} /\ block[1] \in Nat
        BY <1>1, BitFacts, RadixFacts, SizeFacts DEF bit, Byte
      <3>4. block[1] + bit < Radix
        BY <1>8, <3>2, <3>3, RadixFacts
      <3>5. block' = Append([block EXCEPT ![1] = @ + bit], byte)
        BY <1>4, <2>1
      <3>6. /\ block'[1] = block[1] + bit
            /\ grown \in Seq(Byte) /\ Len(grown) = Len(bytes) + 1
            /\ \A i \in 1 .. Len(bytes) : i # Len(out) + 1 => grown[i] = bytes[i]
            /\ grown[Len(out) + 1] = block[1] + bit
            /\ grown[Len(grown)] = byte
        <4>1. Len(block) >= 1
          BY <1>1
        <4>2. out \in Seq(Byte) /\ block \in Seq(Byte) /\ bit \in Nat
          BY <1>1, <3>3
        <4> HIDE DEF grown
        <4>3. /\ block'[1] = block[1] + bit
              /\ out \o block' \in Seq(Byte) /\ Len(out \o block') = Len(out \o block) + 1
              /\ \A i \in 1 .. Len(out \o block) :
                    i # Len(out) + 1 => (out \o block')[i] = (out \o block)[i]
              /\ (out \o block')[Len(out) + 1] = block[1] + bit
              /\ (out \o block')[Len(out \o block')] = byte
          <5>1. Marks(out, block, bit, byte, block')
            BY <3>1, <3>4, <3>5, <4>1, <4>2 DEF Marks
          <5> QED BY <5>1, FirstByteChanged
        <4> QED BY <4>3 DEF bytes, grown
      <3> HIDE DEF grown
      <3>7. \E q \in Point :
              /\ Growing(grown, input, points \cup {q}, q)
              /\ q.from = last.from + 1 /\ q.index = last.index + 1
              /\ q.code = last.code /\ q.bits = last.bits + CodeBit(last.index)
        <4>1. /\ bytes \in Seq(Byte) /\ grown \in Seq(Byte)
              /\ Growing(bytes, input, points, last) /\ last.index < TOKENS_PER_BLOCK
              /\ Len(grown) = Len(bytes) + 1
          BY <1>1, <1>7, <1>8, <3>6
        <4>2. \A i \in 1 .. Len(bytes) : i # last.code => grown[i] = bytes[i]
          BY <1>8, <3>6
        <4>3. grown[last.code] = last.bits + CodeBit(last.index)
          BY <1>8, <3>6 DEF bit
        <4>4. grown[Len(grown)] = input[last.from + 1]
          BY <1>8, <3>1, <3>6 DEF byte
        <4>5. PutsLiteral(bytes, input, points, last, grown)
          BY <4>1, <4>2, <4>3, <4>4 DEF PutsLiteral
        <4>6. GrowsBy(grown, input, points, last.from + 1, last.index + 1, last.code,
                      last.bits + CodeBit(last.index))
          BY <4>5, LiteralAdded
        <4> QED BY <4>6 DEF GrowsBy
      <3>8. l = 1
        BY <1>2, <2>1
      <3> QED BY <1>8, <3>6, <3>7, <3>8 DEF bit
    <2>2. CASE ~(l < MIN_MATCH)
      <3> DEFINE pair == EncodeReference(l, match.distance)
      <3>1. l \in MIN_MATCH .. MAX_MATCH
        BY <1>1, <1>2, <2>2, SizeFacts DEF Token, MIN_MATCH, l
      <3>2. /\ match.distance \in 1 .. Least(MAX_DISTANCE, Consumed)
            /\ \A k \in 1 .. l : input[Consumed + k] = input[Consumed + k - match.distance]
        BY <1>1, <3>1 DEF CopiesInput, l, MIN_MATCH
      <3>3. Repeats(input, last.from, l, match.distance)
        <4>1. ASSUME NEW k \in Consumed + 1 .. Consumed + l
              PROVE  input[k] = input[k - match.distance]
          <5>1. PICK j \in 1 .. l : k = Consumed + j
            <6>1. k - Consumed \in 1 .. l /\ k = Consumed + (k - Consumed)
              BY <1>2, <4>1
            <6> QED BY <6>1
          <5>2. input[Consumed + j] = input[Consumed + j - match.distance]
            BY <3>2, <5>1
          <5>3. Consumed \in Int /\ match.distance \in Int
            BY <1>1, <1>2, SizeFacts DEF Token
          <5> QED BY ONLY <5>1, <5>2, <5>3
        <4> QED BY <1>8, <3>2, <4>1 DEF Repeats
      <3>4. match.distance \in 1 .. MAX_DISTANCE
        BY <1>2, <3>2, SizeFacts DEF Least
      <3>5. pair \in Seq(Byte)
        BY <3>1, <3>4, PairFacts
      <3>6. block' = block \o pair
        BY <1>4, <2>2
      <3> HIDE DEF pair
      <3>7. grown = bytes \o pair
        BY <1>1, <3>5, <3>6, ConcatTwice DEF bytes
      <3>8. block'[1] = block[1]
        BY <1>1, <3>5, <3>6
      <3> HIDE DEF grown
      <3>9. \E q \in Point :
              /\ Growing(grown, input, points \cup {q}, q)
              /\ q.from = last.from + l /\ q.index = last.index + 1
              /\ q.code = last.code /\ q.bits = last.bits
        <4>1. /\ bytes \in Seq(Byte) /\ Growing(bytes, input, points, last)
              /\ last.index < TOKENS_PER_BLOCK
          BY <1>1, <1>7, <1>8
        <4>2. grown = bytes \o EncodeReference(l, match.distance)
          BY <3>7 DEF pair
        <4>3. PutsPair(bytes, input, points, last, l, match.distance, grown)
          BY <3>1, <3>3, <4>1, <4>2 DEF PutsPair
        <4>4. GrowsBy(grown, input, points, last.from + l, last.index + 1, last.code,
                      last.bits)
          BY <4>3, PairAdded
        <4> QED BY <4>4 DEF GrowsBy
      <3> QED BY <1>8, <3>8, <3>9
    <2> QED BY <2>1, <2>2
  <1>10. PICK q \in Point :
              /\ Growing(grown, input, points \cup {q}, q)
              /\ q.from = Consumed + l /\ q.index = block_tokens + 1
              /\ q.code = Len(out) + 1 /\ q.bits = block'[1]
    BY <1>9
  <1> DEFINE more == points \cup {q}
  <1>11. more \in SUBSET Point /\ Len(out) \in Nat /\ block_tokens' \in Nat \ {0}
    BY <1>1, <1>4
  <1>12. Encoding'
    BY <1>4 DEF Encoding
  <1> HIDE DEF more
  <1>13. Growing(out \o block', input, more, q)
    BY <1>10 DEF more
  <1>14. q.from = Consumed' /\ q.index = block_tokens' /\ q.code = Len(out) + 1
         /\ q.bits = block'[1]
    BY <1>4, <1>10
  <1> QED BY <1>1, <1>4, <1>6, <1>11, <1>12, <1>13, <1>14, TokenAdded

-----------------------------------------------------------------------------
(* The block goes out. *)

LEMMA BlockFlows ==
    ASSUME IInv, EncodesSoFar, Encoding, block_tokens # 0,
           NEW have \in Nat, block_out + have <= Len(block), WriteBlock(have)
    PROVE  /\ Len(out') = Len(out) + have /\ HasHeader(out', uncompressed_size)
           /\ out' \o SubSeq(block, (block_out + have) + 1, Len(block)) = Produced
           /\ UNCHANGED <<input, uncompressed_size, windowVars>> /\ Consumed' = Consumed
  <1> DEFINE piece == SubSeq(block, block_out + 1, block_out + have)
  <1>1. out \in Seq(Byte) /\ block \in Seq(Byte) /\ block_out \in Nat
    BY DEF IInv, TypeOK, StreamTypeOK
  <1>2. out' = out \o piece /\ UNCHANGED <<input, uncompressed_size, windowVars>>
    BY DEF WriteBlock, Write, configVars
  <1>3. piece \in Seq(Byte) /\ Len(piece) = have
    BY <1>1, StretchParts
  <1>4. out' \o SubSeq(block, (block_out + have) + 1, Len(block))
          = out \o SubSeq(block, block_out + 1, Len(block))
    BY <1>1, <1>2, Rejoined
  <1> HIDE DEF piece
  <1>5. Len(out') = Len(out) + have /\ \A i \in 1 .. Len(out) : out'[i] = out[i]
    BY <1>1, <1>2, <1>3, ConcatParts
  <1>6. HasHeader(out', uncompressed_size)
    <2>1. Len(out) \in Nat /\ HEADER_SIZE <= Len(out)
          /\ \A i \in 1 .. HEADER_SIZE : out[i] = yaz0_write_header(uncompressed_size)[i]
      BY <1>1 DEF EncodesSoFar, HasHeader
    <2>2. HEADER_SIZE <= Len(out')
      BY <1>5, <2>1 DEF HEADER_SIZE
    <2>3. \A i \in 1 .. HEADER_SIZE : out'[i] = out[i]
      BY <1>5, <2>1 DEF HEADER_SIZE
    <2> QED BY <2>1, <2>2, <2>3 DEF HasHeader
  <1>7. Produced = out \o SubSeq(block, block_out + 1, Len(block))
    BY DEF Produced
  <1>8. Consumed' = Consumed
    BY <1>2 DEF Consumed, windowVars
  <1> QED BY <1>2, <1>4, <1>5, <1>6, <1>7, <1>8

LEMMA WriteBlockEncodes ==
    ASSUME IInv, compress_write_block, EncodesSoFar, IInv'
    PROVE  EncodesSoFar'
  <1> DEFINE have == Least(Len(block) - block_out, avail_out)
  <1>1. /\ mode = "WRITE_BLOCK" /\ Encoding
        /\ block \in Seq(Byte) /\ block_out \in 0 .. Len(block) /\ avail_out \in Nat
        /\ block_tokens = TOKENS_PER_BLOCK /\ TOKENS_PER_BLOCK \in Nat \ {0}
        /\ Len(out) \in Nat
    BY SizeFacts
       DEF IInv, TypeOK, StreamTypeOK, ModeOK, compress_write_block, At, Encoding
  <1>2. /\ WriteBlock(have)
        /\ \/ /\ block_out' = block_out + have /\ UNCHANGED <<block, block_tokens>>
              /\ mode' = mode
           \/ /\ block' = <<0>> /\ block_out' = 0 /\ block_tokens' = 0
              /\ block_out + have = Len(block) /\ mode' = "FILL"
    BY DEF compress_write_block, compress_suspend, compress_continue
  <1>3. have \in Nat /\ block_out + have \in 0 .. Len(block)
    BY <1>1 DEF Least
  <1> HIDE DEF have
  <1>4. /\ Len(out') = Len(out) + have /\ HasHeader(out', uncompressed_size)
        /\ out' \o SubSeq(block, (block_out + have) + 1, Len(block)) = Produced
        /\ UNCHANGED <<input, uncompressed_size, windowVars>> /\ Consumed' = Consumed
    <2>1. block_tokens # 0 /\ block_out + have <= Len(block)
      BY <1>1, <1>3
    <2> QED BY <1>1, <1>2, <1>3, <2>1, BlockFlows
  <1>5. PICK points \in SUBSET Point, last \in Point :
        /\ Growing(Produced, input, points, last)
        /\ last.from = Consumed
        /\ InBlock(last)
    BY <1>1 DEF EncodesSoFar, HasPath
  <1>6. /\ last.index = TOKENS_PER_BLOCK /\ last.code = Len(out) - block_out + 1
        /\ last.bits = block[1]
    BY <1>1, <1>5 DEF InBlock
  <1>7. CASE /\ block_out' = block_out + have /\ UNCHANGED <<block, block_tokens>>
             /\ mode' = mode
    <2>1. Produced' = Produced
      BY <1>1, <1>4, <1>7 DEF Produced
    <2>2. Len(out') - block_out' = Len(out) - block_out
      BY <1>1, <1>3, <1>4, <1>7
    <2>3. InBlock(last)'
      BY <1>1, <1>6, <1>7, <2>2 DEF InBlock
    <2>4. HasPath'
      BY <1>4, <1>5, <2>1, <2>3 DEF HasPath
    <2>5. block_tokens' # 0 /\ mode' = "WRITE_BLOCK"
      BY <1>1, <1>7
    <2>6. HasHeader(out, uncompressed_size)'
      BY <1>4
    <2> QED BY <1>4, <2>4, <2>5, <2>6 DEF EncodesSoFar, HasHeader
  <1>8. CASE /\ block' = <<0>> /\ block_out' = 0 /\ block_tokens' = 0
             /\ block_out + have = Len(block) /\ mode' = "FILL"
    <2>1. Produced' = Produced
      <3>1. out' \in Seq(Byte) /\ SubSeq(block, Len(block) + 1, Len(block)) = <<>>
        BY <1>1 DEF IInv, TypeOK, StreamTypeOK
      <3>2. out' \o SubSeq(block, Len(block) + 1, Len(block)) = out'
        BY <3>1
      <3> QED BY <1>4, <1>8, <3>2 DEF Produced
    <2>2. InBlock(last)'
      BY <1>6, <1>8 DEF InBlock
    <2>3. HasPath'
      BY <1>4, <1>5, <2>1, <2>2 DEF HasPath
    <2> QED BY <1>4, <1>8, <2>3 DEF EncodesSoFar, HasHeader
  <1> QED BY <1>2, <1>7, <1>8

LEMMA FlushEncodes ==
    ASSUME IInv, compress_flush, EncodesSoFar
    PROVE  EncodesSoFar'
  <1> DEFINE have == Least(Len(block) - block_out, avail_out)
  <1>1. /\ mode = "FLUSH" /\ Encoding
        /\ block \in Seq(Byte) /\ block_out \in 0 .. Len(block) /\ avail_out \in Nat
        /\ block_tokens \in Nat /\ Len(out) \in Nat /\ window_pos = window_size
    BY SizeFacts
       DEF IInv, TypeOK, StreamTypeOK, compress_flush, At, Encoding, EncodesSoFar
  <1>2. CASE /\ UNCHANGED <<streamVars, configVars, windowVars, match, matcherVars,
                            blockVars>>
             /\ mode' = "ERROR"
    BY <1>2, EncodingLeft DEF Encoding, configVars
  <1>3. CASE /\ UNCHANGED <<streamVars, configVars, windowVars, match, matcherVars,
                            blockVars>>
             /\ mode' = "DONE" /\ received = uncompressed_size /\ block_tokens = 0
    BY <1>1, <1>3, EncodingKept DEF Encoding, configVars, streamVars, windowVars, Consumed
  <1>4. CASE /\ WriteBlock(have) /\ block_tokens # 0
             /\ block_out' = block_out + have
             /\ UNCHANGED <<block, block_tokens>>
             /\ received = uncompressed_size
             /\ mode' = IF block_out' = Len(block) THEN "DONE" ELSE "FLUSH"
    <2>1. have \in Nat /\ block_out + have \in 0 .. Len(block)
      BY <1>1 DEF Least
    <2> HIDE DEF have
    <2>2. /\ Len(out') = Len(out) + have /\ HasHeader(out', uncompressed_size)
          /\ out' \o SubSeq(block, (block_out + have) + 1, Len(block)) = Produced
          /\ UNCHANGED <<input, uncompressed_size, windowVars>> /\ Consumed' = Consumed
      <3>1. block_tokens # 0 /\ block_out + have <= Len(block)
        BY <1>1, <1>4, <2>1
      <3> QED BY <1>1, <1>4, <2>1, <3>1, BlockFlows
    <2>3. PICK points \in SUBSET Point, last \in Point :
          /\ Growing(Produced, input, points, last)
          /\ last.from = Consumed
          /\ InBlock(last)
      BY <1>1 DEF EncodesSoFar, HasPath
    <2>4. Produced' = Produced
      BY <1>4, <2>2 DEF Produced
    <2>5. InBlock(last)'
      <3>1. Len(out') - block_out' = Len(out) - block_out
        BY <1>1, <1>4, <2>1, <2>2
      <3> QED BY <1>4, <2>3, <3>1 DEF InBlock
    <2>6. HasPath'
      BY <2>2, <2>3, <2>4, <2>5 DEF HasPath
    <2>7. window_pos' = window_size' /\ received' = uncompressed_size'
      BY <1>1, <1>4, <2>2 DEF windowVars
    <2>8. /\ block_tokens' # 0 /\ mode' # "HEADER"
          /\ mode' = "DONE" => block_out' = Len(block')
      BY <1>4
    <2>9. /\ HasHeader(out, uncompressed_size)' /\ uncompressed_size' < Radix * Radix
      BY <2>2 DEF EncodesSoFar
    <2> QED BY <2>6, <2>7, <2>8, <2>9 DEF EncodesSoFar, HasHeader
  <1> QED BY <1>1, <1>2, <1>3, <1>4
          DEF compress_flush, compress_error, compress_continue, compress_suspend

-----------------------------------------------------------------------------

LEMMA DeclaredFits ==
    ASSUME NEW bytes, NEW size \in DeclaredSizes(bytes)
    PROVE  size < Radix * Radix
  <1>1. Radix * Radix \in Nat
    BY RadixFacts
  <1> QED BY <1>1 DEF DeclaredSizes

LEMMA InitEInv == Init => EInv
  <1> SUFFICES ASSUME Init PROVE EInv
    OBVIOUS
  <1>1. uncompressed_size < Radix * Radix
    BY DeclaredFits DEF Init
  <1>2. EncodesSoFar
    BY <1>1 DEF Init, StreamInit, EncodesSoFar, Encoding
  <1> QED BY <1>2, InitIInv DEF EInv

LEMMA NextEInv == EInv /\ [Next]_vars => EInv'
  <1> SUFFICES ASSUME EInv, [Next]_vars PROVE EInv'
    OBVIOUS
  <1>1. IInv /\ EncodesSoFar /\ IInv'
    BY NextIInv DEF EInv
  <1>2. ASSUME UNCHANGED <<input, out, mode, configVars, windowVars, blockVars>>
        PROVE  EncodesSoFar'
    BY <1>1, <1>2 DEF EncodesSoFar, HasHeader, HasPath, InBlock, Produced, Encoding,
       Consumed, configVars, windowVars, blockVars
  <1>3. EncodesSoFar'
    <2>1. CASE Call
      BY <1>2, <2>1 DEF Call, Enter
    <2>2. CASE Settled
      BY <1>2, <2>2 DEF Settled, streamVars
    <2>3. CASE UNCHANGED vars
      BY <1>2, <2>3 DEF vars, streamVars
    <2>4. CASE yaz0_compress_reset
      <3>1. uncompressed_size' < Radix * Radix
        BY <2>4, DeclaredFits DEF yaz0_compress_reset
      <3> QED BY <2>4, <3>1 DEF yaz0_compress_reset, EncodesSoFar, Encoding
    <2> QED BY <1>1, <2>1, <2>2, <2>3, <2>4, HeaderEncodes, FillEncodes,
               FindMatchEncodes, EmitEncodes, WriteBlockEncodes, FlushEncodes
            DEF Next, yaz0_compress
  <1> QED BY <1>1, <1>3 DEF EInv

LEMMA DoneEncodes ==
    ASSUME EInv, mode = "DONE"
    PROVE  /\ Encodes(out, SubSeq(input, 1, received))
           /\ received \in 0 .. Len(input) /\ received = uncompressed_size
  <1> DEFINE data == SubSeq(input, 1, received)
  <1>1. /\ Encoding /\ input \in Seq(Byte) /\ out \in Seq(Byte) /\ block \in Seq(Byte)
        /\ received \in Nat /\ received <= Len(input)
        /\ window_size \in Nat /\ window_pos = window_size
        /\ received = uncompressed_size /\ uncompressed_size < Radix * Radix
        /\ block_tokens \in Nat /\ (block_tokens = 0 \/ block_out = Len(block))
        /\ HasHeader(out, uncompressed_size) /\ HasPath
    <2>1. Encoding
      BY DEF Encoding
    <2>2. received = total_in /\ total_in \in Nat /\ total_in <= Len(input)
      BY <2>1 DEF EInv, IInv, TypeOK, StreamTypeOK, WindowHoldsInput
    <2> QED BY <2>1, <2>2, SizeFacts DEF EInv, IInv, TypeOK, StreamTypeOK, EncodesSoFar
  <1>2. data \in Seq(Byte) /\ Len(data) = received
        /\ \A i \in 1 .. received : data[i] = input[i]
    BY <1>1
  <1> HIDE DEF data
  <1>3. PICK points \in SUBSET Point, last \in Point :
        /\ Growing(Produced, input, points, last)
        /\ last.from = Consumed
        /\ InBlock(last)
    BY <1>1 DEF HasPath
  <1>4. Produced = out
    <2>1. CASE block_tokens = 0
      BY <2>1 DEF Produced
    <2>2. CASE block_tokens # 0
      <3>1. SubSeq(block, Len(block) + 1, Len(block)) = <<>>
        BY <1>1
      <3>2. out \o SubSeq(block, Len(block) + 1, Len(block)) = out
        BY <1>1, <3>1
      <3> QED BY <1>1, <2>2, <3>2 DEF Produced
    <2> QED BY <2>1, <2>2
  <1>5. last.from = Len(data)
    BY <1>1, <1>2, <1>3 DEF Consumed
  <1>6. last.index # 0
    BY <1>1, <1>3, SizeFacts DEF InBlock
  <1>7. Spans(out, data, points, last)
    <2>1. Growing(out, input, points, last)
      BY <1>3, <1>4
    <2>2. \A i \in 1 .. Len(data) : data[i] = input[i]
      BY <1>2
    <2> QED BY ONLY <1>1, <1>2, <1>5, <1>6, <2>1, <2>2, GrownSpans, Zenon
  <1>8. HasHeader(out, Len(data)) /\ Len(data) < Radix * Radix
    BY <1>1, <1>2
  <1>9. Encodes(out, data)
    BY <1>7, <1>8 DEF Encodes
  <1> QED BY <1>1, <1>9 DEF data

(***************************************************************************)
(* When yaz0_compress ends a stream its output is a Yaz0 encoding of the   *)
(* input it has received, however that came in and however the output went *)
(* out: the header declares its size, every code bit tells the kind of its *)
(* token, every literal is the next byte and every pair repeats bytes      *)
(* already encoded (compress.c: emit_token, compress_write_block).         *)
(***************************************************************************)
THEOREM CompressEncodes ==
    Spec => [](mode = "DONE" => Encodes(out, SubSeq(input, 1, received)))
  <1>1. EInv => (mode = "DONE" => Encodes(out, SubSeq(input, 1, received)))
    BY DoneEncodes
  <1> QED BY <1>1, InitEInv, NextEInv, PTL DEF Spec

-----------------------------------------------------------------------------
(* What the output decodes to. *)

(***************************************************************************)
(* A stream that ends well has read exactly the bytes it declared, and the *)
(* reference decoder turns its output back into them, using all of it:     *)
(* compress.c loses no byte and adds none, whatever the calls, the matcher *)
(* and the token that was held back.                                       *)
(***************************************************************************)
THEOREM RoundTripsCorrect == Spec => []RoundTrips
  <1>1. EInv => RoundTrips
    <2> SUFFICES ASSUME EInv, mode = "DONE"
                 PROVE  /\ uncompressed_size <= Len(input)
                        /\ RefDecode(out) = Verdict(SubSeq(input, 1, uncompressed_size),
                                                    Len(out), "STREAM_END")
      BY DEF RoundTrips
    <2> DEFINE data == SubSeq(input, 1, received)
    <2>1. /\ Encodes(out, data) /\ received \in 0 .. Len(input)
          /\ received = uncompressed_size
      BY DoneEncodes
    <2>2. input \in Seq(Byte) /\ out \in Seq(Byte)
      BY DEF EInv, IInv, TypeOK, StreamTypeOK
    <2>3. data \in Seq(Byte)
      BY <2>1, <2>2
    <2> HIDE DEF data
    <2>4. RefDecode(out) = Verdict(data, Len(out), "STREAM_END")
      BY <2>1, <2>2, <2>3, EncodingDecodes
    <2> QED BY <2>1, <2>2, <2>4 DEF data
  <1> QED BY <1>1, InitEInv, NextEInv, PTL DEF Spec

-----------------------------------------------------------------------------
(* The search in the window finds what the reference encoder finds in the data. *)

\* A window that has slid has kept as much as a match may reach.
Slid == Encoding /\ received > window_size => window_pos >= MAX_DISTANCE

\* Bytes that match in the window repeat in the input.
LEMMA MatchRepeats ==
    ASSUME BufferType, WindowType, WindowHoldsInput, Encoding,
           NEW at \in Nat, NEW d \in 1 .. MAX_DISTANCE, d <= at,
           NEW l \in Nat, at + l <= window_size,
           NEW from, from = received - (window_size - at)
    PROVE  IsMatch(at - d, at, l) <=> Repeats(input, from, l, d)
  <1>1. /\ window_size \in Nat /\ received \in Nat /\ window_size <= received
        /\ from \in Nat /\ at <= from /\ d \in Nat /\ d >= 1
    BY SizeFacts DEF WindowType, WindowHoldsInput
  <1>2. d \in 1 .. Least(MAX_DISTANCE, from)
    BY <1>1, SizeFacts DEF Least
  <1>3. ASSUME NEW k \in 0 .. l - 1
        PROVE  /\ window[at + k] = input[from + k + 1]
               /\ window[(at - d) + k] = input[from + k + 1 - d]
    <2>1. at + k \in 0 .. window_size - 1 /\ (at - d) + k \in 0 .. window_size - 1
      BY <1>1
    <2>2. /\ window[at + k] = input[received - window_size + (at + k) + 1]
          /\ window[(at - d) + k] = input[received - window_size + ((at - d) + k) + 1]
      BY <2>1 DEF WindowHoldsInput
    <2>3. /\ received - window_size + (at + k) + 1 = from + k + 1
          /\ received - window_size + ((at - d) + k) + 1 = from + k + 1 - d
      BY <1>1
    <2> QED BY <2>2, <2>3
  <1>4. ASSUME IsMatch(at - d, at, l) PROVE Repeats(input, from, l, d)
    <2>1. ASSUME NEW j \in from + 1 .. from + l PROVE input[j] = input[j - d]
      <3>1. PICK k \in 0 .. l - 1 : k = j - from - 1
        BY <1>1
      <3>2. from + k + 1 = j
        BY <1>1, <3>1
      <3>3. window[(at - d) + k] = window[at + k]
        BY <1>4 DEF IsMatch
      <3> QED BY <1>3, <3>2, <3>3
    <2> QED BY <1>2, <2>1 DEF Repeats
  <1>5. ASSUME Repeats(input, from, l, d) PROVE IsMatch(at - d, at, l)
    <2>1. ASSUME NEW k \in 0 .. l - 1 PROVE window[(at - d) + k] = window[at + k]
      <3>1. PICK j \in from + 1 .. from + l : j = from + k + 1
        BY <1>1
      <3>2. input[j] = input[j - d]
        BY <1>5 DEF Repeats
      <3> QED BY <1>3, <3>1, <3>2
    <2> QED BY <2>1 DEF IsMatch
  <1> QED BY <1>4, <1>5

\* There is as much to look at, and as far to look back, as in the whole data.
LEMMA SameScope ==
    ASSUME BufferType, WindowType, WindowHoldsInput, Encoding, Slid,
           NEW at \in {window_pos, window_pos + 1}, at <= window_size,
           NEW from, from = received - (window_size - at),
           window_size - at >= MAX_MATCH \/ received = Len(input)
    PROVE  /\ from \in Nat /\ from <= Len(input) /\ at \in Nat /\ Reach \in 0 .. MAX_DISTANCE
           /\ Lookahead(at) = Least(MAX_MATCH, Len(input) - from)
           /\ Lookahead(at) \in Nat /\ at + Lookahead(at) <= window_size
           /\ max_distance # 0 =>
                 Least(Reach, from) = at - StartPos(at) /\ StartPos(at) \in 0 .. at
           /\ Least(Reach, from) \in 0 .. MAX_DISTANCE
           /\ max_distance = 0 => Reach = 0
  <1>1. /\ window_size \in Nat /\ received \in Nat /\ window_size <= received
        /\ received <= Len(input) /\ Len(input) \in Nat /\ at \in Nat /\ window_pos \in Nat
        /\ max_distance \in 0 .. MAX_DISTANCE - 1
        /\ from \in Nat /\ at <= from
    BY SizeFacts DEF WindowType, WindowHoldsInput, BufferType
  <1>2. from <= Len(input) /\ Reach \in 0 .. MAX_DISTANCE /\ (max_distance = 0 => Reach = 0)
    BY <1>1, SizeFacts DEF Reach
  <1>3. /\ Lookahead(at) = Least(MAX_MATCH, Len(input) - from)
        /\ Lookahead(at) \in Nat /\ at + Lookahead(at) <= window_size
    BY <1>1, SizeFacts DEF Lookahead, Least
  <1>4. ASSUME max_distance # 0
        PROVE  Least(Reach, from) = at - StartPos(at) /\ StartPos(at) \in 0 .. at
    <2>1. Reach = max_distance + 1
      BY <1>4 DEF Reach
    <2>2. CASE at > max_distance
      BY <1>1, <2>1, <2>2, SizeFacts DEF StartPos, Least
    <2>3. CASE ~(at > max_distance)
      <3>1. received = window_size
        BY <1>1, <2>3, SizeFacts DEF Slid
      <3> QED BY <1>1, <2>1, <2>3, <3>1, SizeFacts DEF StartPos, Least
    <2> QED BY <2>2, <2>3
  <1>5. Least(Reach, from) \in 0 .. MAX_DISTANCE
    BY <1>1, <1>2, SizeFacts DEF Least
  <1> QED BY <1>1, <1>2, <1>3, <1>4, <1>5

\* What may be found in the window: the pairs the reference encoder may choose from.
LEMMA SameMatches ==
    ASSUME BufferType, WindowType, WindowHoldsInput, Encoding, Slid,
           NEW at \in {window_pos, window_pos + 1}, at <= window_size,
           NEW from, from = received - (window_size - at),
           window_size - at >= MAX_MATCH \/ received = Len(input),
           max_distance # 0,
           NEW l \in Nat, NEW d \in Nat
    PROVE  [length |-> l, distance |-> d] \in Matches(input, from, Reach)
             <=> /\ l \in MIN_MATCH .. Lookahead(at) /\ at - d \in StartPos(at) .. at - 1
                 /\ IsMatch(at - d, at, l)
  <1> DEFINE a == Lookahead(at)
             b == Least(Reach, from)
             p == StartPos(at)
  <1>1. /\ at \in Nat /\ a \in Nat /\ at + a <= window_size
        /\ a = Least(MAX_MATCH, Len(input) - from)
        /\ b = at - p /\ p \in 0 .. at /\ b \in 0 .. MAX_DISTANCE
    BY SameScope
  <1>2. window_size \in Nat /\ MAX_DISTANCE \in Nat
    BY SizeFacts DEF WindowType
  <1>3. Matches(input, from, Reach) =
           {m \in [length : MIN_MATCH .. a, distance : 1 .. b] :
               Repeats(input, from, m.length, m.distance)}
    BY <1>1 DEF Matches
  <1> HIDE DEF a, b, p
  <1>4. [length |-> l, distance |-> d] \in Matches(input, from, Reach)
          <=> l \in MIN_MATCH .. a /\ d \in 1 .. b /\ Repeats(input, from, l, d)
    BY <1>3
  <1>5. d \in 1 .. b <=> at - d \in p .. at - 1
    BY <1>1
  <1>6. ASSUME l \in MIN_MATCH .. a, d \in 1 .. b
        PROVE  IsMatch(at - d, at, l) <=> Repeats(input, from, l, d)
    <2>1. d \in 1 .. MAX_DISTANCE /\ d <= at /\ at + l <= window_size
      BY <1>1, <1>2, <1>6
    <2> QED BY <1>1, <2>1, MatchRepeats
  <1> QED BY <1>4, <1>5, <1>6 DEF a, p

\* What the matcher finds is the longest match, and of equals the most distant.
LEMMA FindsLongest ==
    ASSUME BufferType, WindowType, WindowHoldsInput, Encoding, Slid,
           NEW at \in {window_pos, window_pos + 1}, at <= window_size,
           NEW from, from = received - (window_size - at),
           window_size - at >= MAX_MATCH \/ received = Len(input),
           NEW token \in Token, Finds(at, token)
    PROVE  token = Longest(input, from, Reach)
  <1> DEFINE found == Matches(input, from, Reach)
  <1>1. /\ from \in Nat /\ from <= Len(input) /\ at \in Nat /\ Reach \in 0 .. MAX_DISTANCE
        /\ Lookahead(at) \in Nat /\ StartPos(at) \in Int
        /\ Lookahead(at) = Least(MAX_MATCH, Len(input) - from)
        /\ input \in Seq(Byte)
        /\ max_distance = 0 => Reach = 0
    <2>1. StartPos(at) \in Int
      BY SizeFacts DEF StartPos, WindowType
    <2> QED BY <2>1, SameScope DEF BufferType
  <1>2. ASSUME found = {} PROVE Longest(input, from, Reach) = Literal
    BY <1>1, <1>2, LongestFacts
  <1>3. ASSUME NEW m \in found
        PROVE  /\ m = [length |-> m.length, distance |-> m.distance]
               /\ m.length \in Nat /\ m.distance \in Nat
    BY <1>1, MatchFacts
  <1>4. CASE ~Searches(at)
    <2>1. found = {}
      <3>1. CASE max_distance = 0
        BY <1>1, <3>1 DEF Matches, Least
      <3>2. CASE ~(Lookahead(at) >= MIN_MATCH)
        BY <1>1, <3>2 DEF Matches, MIN_MATCH
      <3> QED BY <1>4, <3>1, <3>2 DEF Searches
    <2> QED BY <1>2, <1>4, <2>1 DEF Finds
  <1>5. CASE Searches(at)
    <2> DEFINE Fits(l, d) == /\ l \in MIN_MATCH .. Lookahead(at)
                             /\ at - d \in StartPos(at) .. at - 1
                             /\ IsMatch(at - d, at, l)
    <2>1. max_distance # 0 /\ Lookahead(at) >= MIN_MATCH /\ Search(at, token)
      BY <1>5 DEF Searches, Finds
    <2>2. \A l, d \in Nat : [length |-> l, distance |-> d] \in found <=> Fits(l, d)
      BY <2>1, SameMatches
    <2>3. CASE /\ token = Literal
               /\ \A start \in StartPos(at) .. at - 1 : ~IsMatch(start, at, MIN_MATCH)
      <3>1. ASSUME NEW m \in found PROVE FALSE
        <4>1. Fits(m.length, m.distance)
          BY <1>3, <2>2
        <4>2. IsMatch(at - m.distance, at, MIN_MATCH)
          <5> DEFINE l == m.length
          <5>1. l \in MIN_MATCH .. Lookahead(at) /\ IsMatch(at - m.distance, at, l)
            BY <4>1
          <5> HIDE DEF l
          <5>2. \A k \in 0 .. MIN_MATCH - 1 : k \in 0 .. l - 1
            BY <1>1, <5>1 DEF MIN_MATCH
          <5> QED BY <5>1, <5>2 DEF IsMatch
        <4> QED BY <2>3, <4>1, <4>2
      <3> QED BY <1>2, <2>3, <3>1
    <2>4. CASE /\ token.length \in MIN_MATCH .. Lookahead(at)
               /\ at - token.distance \in StartPos(at) .. at - 1
               /\ IsMatch(at - token.distance, at, token.length)
               /\ \A start \in StartPos(at) .. at - 1 :
                    /\ IsMatch(start, at, token.length) => start >= at - token.distance
                    /\ token.length < Lookahead(at) => ~IsMatch(start, at, token.length + 1)
      <3>1. /\ token.length \in Nat /\ token.distance \in Nat
            /\ token = [length |-> token.length, distance |-> token.distance]
        BY SizeFacts DEF Token, MIN_MATCH
      <3>2. token \in found
        BY <2>2, <2>4, <3>1
      <3>3. ASSUME NEW m \in found PROVE NoWorse(token, m)
        <4> DEFINE l == m.length
                   d == m.distance
                   k == token.length
                   e == token.distance
        <4>1. Fits(l, d) /\ l \in Nat /\ d \in Nat /\ k \in Nat /\ e \in Nat
          BY <1>3, <2>2, <3>1
        <4>2. /\ IsMatch(at - d, at, k) => at - d >= at - e
              /\ k < Lookahead(at) => ~IsMatch(at - d, at, k + 1)
          BY <2>4, <4>1
        <4>3. l \in MIN_MATCH .. Lookahead(at) /\ IsMatch(at - d, at, l)
          BY <4>1
        <4> HIDE DEF l, d, k, e, Fits
        <4>4. ~(k < l)
          <5> SUFFICES ASSUME k < l PROVE FALSE
            OBVIOUS
          <5>1. k < Lookahead(at)
            BY <1>1, <4>1, <4>3
          <5>2. IsMatch(at - d, at, k + 1)
            BY <4>1, <4>3 DEF IsMatch
          <5> QED BY <4>2, <5>1, <5>2
        <4>5. l = k => d <= e
          BY <1>1, <4>1, <4>2, <4>3
        <4>6. l < k \/ (l = k /\ d <= e)
          BY <4>1, <4>4, <4>5
        <4> QED BY <4>6 DEF NoWorse, l, d, k, e
      <3> QED BY <1>1, <3>2, <3>3, LongestIs
    <2> QED BY <2>1, <2>3, <2>4 DEF Search
  <1> QED BY <1>4, <1>5

-----------------------------------------------------------------------------
(* The stream keeps step with the reference encoder. *)

Header == yaz0_write_header(uncompressed_size)

\* What the matcher holds back.
Held == IF deferred THEN deferred_match ELSE NoToken

\* Under FINISH a call has all of the input before it.
Finishing == running /\ flush = "FINISH" => total_in + avail_in = Len(input)

\* A token is only chosen with a full lookahead, unless nothing more will come.
Ready == mode = "FIND_MATCH" => window_size - window_pos > MAX_MATCH \/ received = Len(input)

\* The token that has come out of the matcher is the one picked at stage s.
Chose(s) ==
    /\ s.at < Len(input)
    /\ Picked(input, s, Reach).token.length = match.length
    /\ match.length >= MIN_MATCH => Picked(input, s, Reach).token = match
    /\ Picked(input, s, Reach).held = Held

\* The stream is where the reference encoder is at stage s.
AtStage(s) ==
    /\ s.at = Consumed
    /\ IF mode = "EMIT" THEN Chose(s) ELSE s.held = Held
    /\ mode \in {"FILL", "FIND_MATCH", "EMIT"} =>
          out = Header \o s.done /\ block = s.group /\ block_tokens = s.count
    /\ mode = "WRITE_BLOCK" =>
          Produced = Header \o s.done /\ s.group = <<0>> /\ s.count = 0
    /\ mode \in {"FLUSH", "DONE"} =>
          s.at = Len(input) /\ Produced = Header \o Finished(s)
    /\ mode = "DONE" => out = Produced

Follows ==
    /\ Encoding => \E s : InStages(input, Reach, s) /\ AtStage(s)
    /\ mode = "ERROR" =>
          Begins(out, Header \o RefEncode(input, Reach)) /\ uncompressed_size # Len(input)

\* What a call reports is how the stream stands.
Reported ==
    ~running => result \in CASE mode = "DONE"  -> {"STREAM_END"}
                             [] mode = "ERROR" -> {error}
                             [] OTHER          -> {"OK", "BUFFER_ERROR"}

CInv == EInv /\ Finishing /\ Slid /\ Ready /\ Follows /\ Reported

LEMMA InputFacts ==
    ASSUME IInv
    PROVE  /\ input \in Seq(Byte) /\ Reach \in 0 .. MAX_DISTANCE /\ Header \in Seq(Nat)
           /\ out \in Seq(Nat) /\ block \in Seq(Nat) /\ uncompressed_size \in Nat
           /\ Len(input) \in Nat
           /\ Header \in Seq(Byte) /\ Len(Header) = HEADER_SIZE
  <1>1. BufferType /\ WindowType /\ BlockType
    BY TypeParts DEF IInv
  <1>2. Reach \in 0 .. MAX_DISTANCE
    BY <1>1, SizeFacts DEF Reach, WindowType
  <1>3. Header \in Seq(Byte) /\ Len(Header) = HEADER_SIZE
    BY <1>1, HeaderBytes DEF Header, WindowType
  <1> QED BY <1>1, <1>2, <1>3, BytesAreNaturals DEF BufferType, WindowType, BlockType

\* A stage the stream may be at.
LEMMA StageHere ==
    ASSUME IInv, NEW s, InStages(input, Reach, s)
    PROVE  /\ StageSound(input, s, Reach) /\ s \in StageType
           /\ s.at \in Nat /\ s.at <= Len(input)
           /\ s.done \in Seq(Nat) /\ s.group \in Seq(Nat) /\ Finished(s) \in Seq(Nat)
           /\ s.count \in Nat /\ s.count < TOKENS_PER_BLOCK
           /\ RefEncode(input, Reach) \in Seq(Nat)
           /\ Begins(s.done, RefEncode(input, Reach))
           /\ s.at = Len(input) => RefEncode(input, Reach) = Finished(s)
  <1>1. StageSound(input, s, Reach)
    BY InputFacts, StageTurn
  <1>2. s \in StageType /\ s.at <= Len(input)
    BY <1>1 DEF StageSound
  <1> QED BY <1>1, <1>2, StageFields, FinishedFacts, InputFacts, StageSays

\* What is out begins what is produced.
LEMMA OutBegins ==
    ASSUME IInv
    PROVE  Produced \in Seq(Nat) /\ Begins(out, Produced)
  <1>1. out \in Seq(Byte) /\ block \in Seq(Byte) /\ block_out \in 0 .. Len(block)
    BY TypeParts DEF IInv, BufferType, BlockType
  <1> DEFINE rest == SubSeq(block, block_out + 1, Len(block))
  <1>2. rest \in Seq(Byte)
    BY <1>1
  <1> HIDE DEF rest
  <1>3. Produced = out \/ Produced = out \o rest
    BY DEF Produced, rest
  <1>4. out \in Seq(Nat) /\ rest \in Seq(Nat)
    BY <1>1, <1>2, BytesAreNaturals
  <1> QED BY <1>3, <1>4, BeginsWhole, ConcatNaturals

\* The output so far, and the block, are how the whole begins.
LEMMA StageBegins ==
    ASSUME IInv, Encoding, NEW s, InStages(input, Reach, s), AtStage(s)
    PROVE  Begins(out, Header \o RefEncode(input, Reach))
  <1> DEFINE all == RefEncode(input, Reach)
  <1>1. /\ all \in Seq(Nat) /\ Begins(s.done, all) /\ Header \in Seq(Nat)
        /\ s.done \in Seq(Nat) /\ (s.at = Len(input) => all = Finished(s))
    BY StageHere, InputFacts
  <1>2. Begins(Header \o s.done, Header \o all)
    BY <1>1, BeginsBehind
  <1> HIDE DEF all
  <1>3. Header \o all \in Seq(Nat) /\ Begins(Header \o all, Header \o all)
    BY <1>1, ConcatNaturals, BeginsWhole
  <1>4. Begins(out, Produced) /\ Produced \in Seq(Nat) /\ out \in Seq(Nat)
    BY OutBegins, InputFacts
  <1>5. out = Header \o s.done \/ Produced = Header \o s.done \/ Produced = Header \o all
    BY <1>1 DEF AtStage, Encoding
  <1>6. ASSUME Begins(Produced, Header \o all) PROVE Begins(out, Header \o all)
    <2> DEFINE whole == Header \o all
    <2>1. /\ Len(out) \in Nat /\ Len(Produced) \in Nat /\ Len(whole) \in Nat
          /\ Begins(out, Produced) /\ Begins(Produced, whole)
      BY <1>3, <1>4, <1>6
    <2> HIDE DEF whole
    <2>2. Begins(out, whole)
      BY <2>1 DEF Begins
    <2> QED BY <2>2 DEF whole
  <1> QED BY <1>2, <1>3, <1>5, <1>6 DEF all

LEMMA FollowsChunking ==
    ASSUME CInv, ~running
    PROVE  ChunkingInvisible
  <1> DEFINE all == Header \o RefEncode(input, Reach)
  <1>1. IInv /\ EncodesSoFar /\ Follows /\ mode \in Mode /\ ModeOK
    BY DEF CInv, EInv, IInv, TypeOK
  <1>2. Begins(out, all)
    <2>1. CASE Encoding
      BY <1>1, <2>1, StageBegins DEF Follows
    <2>2. CASE mode = "ERROR"
      BY <1>1, <2>2 DEF Follows
    <2>3. CASE mode = "HEADER"
      <3>1. /\ Len(out) \in Nat /\ Len(out) <= HEADER_SIZE /\ Len(Header) = HEADER_SIZE
            /\ \A i \in 1 .. Len(out) : out[i] = Header[i]
        <4>1. Len(out) = window_pos /\ window_pos < HEADER_SIZE /\ window_pos \in Nat
          BY <1>1, <2>3, SizeFacts DEF ModeOK, IInv, TypeOK
        <4> QED BY <1>1, <2>3, <4>1, InputFacts DEF EncodesSoFar, Header, HEADER_SIZE
      <3>2. PICK r \in Seq(Nat) : r = RefEncode(input, Reach)
        <4>1. InStages(input, Reach, Stages(input, Reach)[0])
          BY DEF InStages
        <4> QED BY <1>1, <4>1, StageHere
      <3>3. PICK h \in Seq(Nat) : h = Header
        BY <1>1, InputFacts
      <3>4. /\ Len(h \o r) = Len(h) + Len(r) /\ Len(h) \in Nat /\ Len(r) \in Nat
            /\ \A i \in 1 .. Len(h) : (h \o r)[i] = h[i]
        BY ConcatNaturals
      <3>5. Begins(out, h \o r)
        <4>1. /\ Len(out) \in Nat /\ Len(out) <= Len(h)
              /\ \A i \in 1 .. Len(out) : i \in 1 .. Len(h) /\ out[i] = h[i]
          <5>1. Len(h) = HEADER_SIZE
            BY <3>1, <3>3
          <5>2. Len(out) \in Nat /\ Len(out) <= Len(h)
            BY <3>1, <5>1
          <5>3. \A i \in 1 .. Len(out) : out[i] = h[i]
            BY <3>1, <3>3
          <5>4. \A i \in 1 .. Len(out) : i \in 1 .. Len(h)
            BY <3>4, <5>2
          <5> QED BY <5>2, <5>3, <5>4
        <4>2. Len(out) <= Len(h \o r)
          BY <3>4, <4>1
        <4>3. \A i \in 1 .. Len(out) : (h \o r)[i] = out[i]
          BY <3>4, <4>1
        <4> QED BY <4>2, <4>3 DEF Begins
      <3> QED BY <3>2, <3>3, <3>5
    <2> QED BY <1>1, <2>1, <2>2, <2>3 DEF Mode, Encoding
  <1>3. all \in Seq(Nat) /\ out \in Seq(Nat)
    <2>1. InStages(input, Reach, Stages(input, Reach)[0])
      BY DEF InStages
    <2>2. RefEncode(input, Reach) \in Seq(Nat) /\ Header \in Seq(Nat) /\ out \in Seq(Nat)
      BY <1>1, <2>1, StageHere, InputFacts
    <2> QED BY <2>2, ConcatNaturals
  <1>4. Len(out) <= Len(all) /\ out = SubSeq(all, 1, Len(out))
    <2> HIDE DEF all
    <2> QED BY <1>2, <1>3, BeginsWhole
  <1>5. ASSUME mode = "DONE" PROVE out = all /\ uncompressed_size = Len(input)
    <2>1. PICK s : InStages(input, Reach, s) /\ AtStage(s)
      BY <1>1, <1>5 DEF Follows, Encoding
    <2>2. out = Header \o Finished(s) /\ s.at = Len(input) /\ s.at = Consumed
      BY <1>5, <2>1 DEF AtStage
    <2>3. RefEncode(input, Reach) = Finished(s)
      BY <1>1, <2>1, <2>2, StageHere
    <2>4. received = uncompressed_size /\ window_pos = window_size /\ received \in Nat
          /\ window_size \in Nat
      BY <1>1, <1>5, SizeFacts DEF EncodesSoFar, Encoding, IInv, TypeOK
    <2>5. Consumed = received
      BY <2>4 DEF Consumed
    <2> QED BY <2>2, <2>3, <2>4, <2>5
  <1>6. mode = "ERROR" => error = "SIZE_MISMATCH" /\ uncompressed_size # Len(input)
    BY <1>1 DEF ModeOK, Follows
  <1>7. result \in CASE mode = "DONE"  -> {"STREAM_END"}
                     [] mode = "ERROR" -> {"SIZE_MISMATCH"}
                     [] OTHER          -> {"OK", "BUFFER_ERROR"}
    BY <1>6 DEF CInv, Reported
  <1> QED BY <1>4, <1>5, <1>6, <1>7 DEF ChunkingInvisible, Header

\* Nothing the reference encoder is compared with changes.
SameView ==
    UNCHANGED <<input, out, configVars, blockVars, matcherVars, match>> /\ Consumed' = Consumed

LEMMA ViewFacts ==
    ASSUME SameView
    PROVE  /\ input' = input /\ out' = out /\ Reach' = Reach /\ Header' = Header
           /\ uncompressed_size' = uncompressed_size /\ Held' = Held /\ match' = match
           /\ block' = block /\ block_tokens' = block_tokens /\ Produced' = Produced
  BY DEF SameView, configVars, blockVars, matcherVars, Reach, Header, Held, Produced

\* A step from mode to mode between which stages look the same.
LEMMA StageKept ==
    ASSUME SameView, NEW s, InStages(input, Reach, s), AtStage(s),
           \/ mode' = mode
           \/ mode = "FILL" /\ mode' = "FIND_MATCH"
    PROVE  InStages(input, Reach, s)' /\ AtStage(s)'
  <1>1. /\ input' = input /\ out' = out /\ Reach' = Reach /\ Header' = Header
        /\ uncompressed_size' = uncompressed_size /\ Held' = Held /\ match' = match
        /\ block' = block /\ block_tokens' = block_tokens /\ Produced' = Produced
        /\ Consumed' = Consumed
    BY ViewFacts DEF SameView
  <1>2. InStages(input, Reach, s)'
    BY <1>1
  <1>3. Chose(s) => Chose(s)'
    BY <1>1 DEF Chose
  <1> QED BY <1>1, <1>2, <1>3 DEF AtStage

LEMMA FollowsKept ==
    ASSUME Follows, SameView, mode' = mode
    PROVE  Follows'
  <1>1. /\ input' = input /\ out' = out /\ Reach' = Reach /\ Header' = Header
        /\ uncompressed_size' = uncompressed_size
    BY ViewFacts
  <1>2. CASE Encoding
    <2>1. PICK s : InStages(input, Reach, s) /\ AtStage(s)
      BY <1>2 DEF Follows
    <2>2. InStages(input, Reach, s)' /\ AtStage(s)'
      BY <2>1, StageKept
    <2>3. mode' # "ERROR"
      BY <1>2 DEF Encoding
    <2> QED BY <2>2, <2>3 DEF Follows
  <1>3. CASE ~Encoding
    BY <1>1, <1>3 DEF Follows, Encoding
  <1> QED BY <1>2, <1>3

\* The caller keeps the contract of FINISH.
LEMMA CallFinishing ==
    ASSUME IInv, EARLY_FINISH = FALSE, Call
    PROVE  Finishing'
  <1>1. PICK kind \in {"NO_FLUSH", "FINISH"} :
          \E give \in Offers(kind), room \in 0 .. MAX_ROOM : Enter(give, room, kind)
    BY DEF Call
  <1>2. PICK give \in Offers(kind), room \in 0 .. MAX_ROOM : Enter(give, room, kind)
    BY <1>1
  <1>3. flush' = kind /\ avail_in' = give /\ UNCHANGED <<input, total_in>>
    BY <1>2 DEF Enter
  <1>4. total_in \in Nat /\ Len(input) \in Nat
    BY DEF IInv, TypeOK, StreamTypeOK
  <1>5. CASE kind = "FINISH"
    <2>1. give = Len(input) - total_in
      BY <1>5 DEF Offers, Left
    <2> QED BY <1>3, <1>4, <2>1 DEF Finishing
  <1>6. CASE kind # "FINISH"
    BY <1>3, <1>6 DEF Finishing
  <1> QED BY <1>5, <1>6

\* What leaves the input alone, or returns, keeps it too.
LEMMA FinishingKept ==
    ASSUME Finishing, UNCHANGED <<input, total_in, avail_in>>,
           ~running' \/ UNCHANGED <<running, flush>>
    PROVE  Finishing'
  BY DEF Finishing

LEMMA CallCInv ==
    ASSUME CInv, Call, EARLY_FINISH = FALSE
    PROVE  Finishing' /\ Slid' /\ Ready' /\ Follows'
  <1>1. IInv /\ Follows /\ Slid /\ Ready
    BY DEF CInv, EInv
  <1>2. /\ UNCHANGED <<input, out, mode, configVars, windowVars, match, matcherVars, blockVars>>
    BY DEF Call, Enter
  <1>3. SameView
    BY <1>2 DEF SameView, windowVars, Consumed
  <1>4. Follows'
    BY <1>1, <1>2, <1>3, FollowsKept
  <1>5. Slid' /\ Ready'
    BY <1>1, <1>2 DEF Slid, Ready, Encoding, windowVars
  <1> QED BY <1>1, <1>4, <1>5, CallFinishing

LEMMA SettledCInv ==
    ASSUME CInv, Settled \/ UNCHANGED vars
    PROVE  Finishing' /\ Slid' /\ Ready' /\ Follows'
  <1>1. IInv /\ Follows /\ Slid /\ Ready /\ Finishing
    BY DEF CInv, EInv
  <1>2. /\ UNCHANGED <<streamVars, mode, configVars, windowVars, match, matcherVars, blockVars>>
        /\ ~running' \/ UNCHANGED <<running, flush>>
    BY DEF Settled, Return, vars, callVars
  <1>3. SameView
    BY <1>2 DEF SameView, windowVars, Consumed, streamVars
  <1>4. Follows'
    BY <1>1, <1>2, <1>3, FollowsKept
  <1>5. Slid' /\ Ready'
    BY <1>1, <1>2 DEF Slid, Ready, Encoding, windowVars, streamVars
  <1>6. Finishing'
    BY <1>1, <1>2, FinishingKept DEF streamVars
  <1> QED BY <1>4, <1>5, <1>6

LEMMA ResetCInv ==
    ASSUME yaz0_compress_reset
    PROVE  Finishing' /\ Slid' /\ Ready' /\ Follows'
  BY DEF yaz0_compress_reset, Finishing, Slid, Ready, Follows, Encoding

LEMMA InitCInv == Init => CInv
  <1> SUFFICES ASSUME Init PROVE CInv
    OBVIOUS
  <1>1. EInv
    BY InitEInv
  <1>2. Finishing /\ Slid /\ Ready /\ Follows /\ Reported
    BY DEF Init, StreamInit, Finishing, Slid, Ready, Follows, Reported, Encoding
  <1> QED BY <1>1, <1>2 DEF CInv

-----------------------------------------------------------------------------
(* The header. *)

LEMMA HeaderOut ==
    ASSUME IInv, compress_header, mode' = "FILL"
    PROVE  /\ Len(out') = HEADER_SIZE /\ Consumed' = 0 /\ received' = 0
           /\ window_size' = 0 /\ block_tokens' = 0
  <1> DEFINE header == yaz0_write_header(uncompressed_size)
             have   == Least(HEADER_SIZE - window_pos, avail_out)
             piece  == SubSeq(header, window_pos + 1, window_pos + have)
  <1>1. BufferType /\ WindowType /\ BlockType /\ ModeOK /\ mode = "HEADER"
    BY TypeParts DEF IInv, compress_header, At
  <1>2. Len(out) = window_pos /\ window_pos \in 0 .. HEADER_SIZE - 1
        /\ received = 0 /\ block_tokens = 0
    BY <1>1 DEF ModeOK, WindowType, HEADER_SIZE
  <1>3. have \in 0 .. HEADER_SIZE - window_pos
    BY <1>1, <1>2 DEF BufferType, Least, HEADER_SIZE
  <1>4. /\ out' = out \o piece
        /\ window_pos + have = HEADER_SIZE
        /\ window_pos' = 0 /\ window_size' = 0
        /\ received' = 0 /\ block_tokens' = 0
    BY <1>1, <1>2 DEF compress_header, Write, compress_suspend, blockVars
  <1>5. header \in Seq(Byte) /\ Len(header) = HEADER_SIZE
    BY <1>1, HeaderBytes DEF WindowType
  <1> HIDE DEF header, have
  <1>6. piece \in Seq(Byte) /\ Len(piece) = have
    <2>1. window_pos \in Nat /\ have \in Nat /\ window_pos + have <= Len(header)
      BY <1>2, <1>3, <1>5 DEF HEADER_SIZE
    <2> QED BY <1>5, <2>1, StretchParts
  <1> HIDE DEF piece
  <1>7. Len(out') = Len(out) + have
    BY <1>1, <1>4, <1>6, ConcatParts DEF BufferType
  <1>8. Len(out') = HEADER_SIZE
    BY <1>2, <1>4, <1>7
  <1>9. Consumed' = 0
    BY <1>4 DEF Consumed
  <1> QED BY <1>4, <1>8, <1>9

\* The same of the state after a step.
LEMMA InputNext ==
    IInv' => /\ input' \in Seq(Byte) /\ Reach' \in 0 .. MAX_DISTANCE
             /\ out' \in Seq(Byte) /\ Header' \in Seq(Byte) /\ Len(Header') = HEADER_SIZE
  <1>1. IInv => /\ input \in Seq(Byte) /\ Reach \in 0 .. MAX_DISTANCE
                /\ out \in Seq(Byte) /\ Header \in Seq(Byte) /\ Len(Header) = HEADER_SIZE
    BY InputFacts DEF IInv, TypeOK, StreamTypeOK
  <1>2. (IInv => /\ input \in Seq(Byte) /\ Reach \in 0 .. MAX_DISTANCE
                 /\ out \in Seq(Byte) /\ Header \in Seq(Byte) /\ Len(Header) = HEADER_SIZE)'
    BY <1>1, PTL
  <1> QED BY <1>2

LEMMA HeaderCInv ==
    ASSUME CInv, compress_header, IInv', EncodesSoFar'
    PROVE  Finishing' /\ Slid' /\ Ready' /\ Follows'
  <1>1. IInv /\ mode = "HEADER" /\ Finishing /\ ModeOK
    BY DEF CInv, EInv, IInv, compress_header, At
  <1>2. /\ UNCHANGED <<input, total_in, avail_in, configVars, match, matcherVars, blockVars>>
        /\ \/ mode' = "HEADER" /\ ~running'
           \/ mode' = "FILL" /\ UNCHANGED callVars
    BY <1>1 DEF compress_header, compress_suspend, compress_continue, Suspend, Return
  <1>3. Finishing'
    BY <1>1, <1>2, FinishingKept DEF callVars
  <1>4. CASE mode' = "HEADER"
    BY <1>3, <1>4 DEF Slid, Ready, Follows, Encoding
  <1>5. CASE mode' = "FILL"
    <2>1. /\ Len(out') = HEADER_SIZE /\ Consumed' = 0 /\ received' = 0
          /\ window_size' = 0 /\ block_tokens' = 0
      BY <1>1, <1>5, HeaderOut
    <2>2. Slid' /\ Ready'
      BY <1>5, <2>1 DEF Slid, Ready
    <2>3. InStages(input, Reach, FirstStage)'
      <3>1. input' \in Seq(Byte) /\ Reach' \in 0 .. MAX_DISTANCE
        BY InputNext
      <3>2. FirstStage = Stages(input', Reach')[0]
        BY <3>1, StagesFacts
      <3> QED BY <3>2 DEF InStages
    <2>4. FirstStage.at = 0 /\ FirstStage.held = NoToken /\ FirstStage.done = <<>>
          /\ FirstStage.group = <<0>> /\ FirstStage.count = 0
      BY DEF FirstStage, Stage
    <2>5. out' = Header'
      <3>1. /\ out' \in Seq(Byte) /\ Header' \in Seq(Byte) /\ Len(Header') = HEADER_SIZE
        BY InputNext
      <3>2. \A i \in 1 .. HEADER_SIZE : out'[i] = Header'[i]
        BY <1>5 DEF EncodesSoFar, Encoding, HasHeader, Header
      <3> DEFINE o == out'
                 h == Header'
      <3>3. /\ o \in Seq(Byte) /\ h \in Seq(Byte) /\ Len(h) = HEADER_SIZE
            /\ Len(o) = HEADER_SIZE /\ \A i \in 1 .. HEADER_SIZE : o[i] = h[i]
        BY <2>1, <3>1, <3>2
      <3> HIDE DEF o, h
      <3>4. o = h
        BY <3>3 DEF HEADER_SIZE
      <3> QED BY <3>4 DEF o, h
    <2>6. out' = Header' \o <<>>
      <3>1. Header' \in Seq(Byte)
        BY InputNext
      <3> DEFINE h == Header'
      <3>2. h \in Seq(Byte)
        BY <3>1
      <3> HIDE DEF h
      <3>3. h \o <<>> = h
        BY <3>2
      <3> QED BY <2>5, <3>3 DEF h
    <2>7. block' = <<0>>
      BY <2>1 DEF EncodesSoFar
    <2>8. Held' = NoToken
      BY <1>1, <1>2 DEF Held, matcherVars, ModeOK
    <2>9. AtStage(FirstStage)'
      BY <1>5, <2>1, <2>4, <2>6, <2>7, <2>8 DEF AtStage
    <2> QED BY <1>3, <1>5, <2>2, <2>3, <2>9 DEF Follows
  <1> QED BY <1>2, <1>4, <1>5

LEMMA ConcatNaturalsTwice ==
    ASSUME NEW s \in Seq(Nat), NEW t \in Seq(Nat), NEW u \in Seq(Nat)
    PROVE  (s \o t) \o u = s \o (t \o u)
  OBVIOUS

-----------------------------------------------------------------------------
(* The window is filled. *)

\* The end of the input: what is in the block is the last group.
LEMMA LastGroup ==
    ASSUME IInv, mode = "FILL", NEW s, InStages(input, Reach, s), AtStage(s)
    PROVE  Produced = Header \o Finished(s)
  <1>1. /\ out = Header \o s.done /\ block = s.group /\ block_tokens = s.count
    BY DEF AtStage
  <1>2. block_out = 0 /\ block \in Seq(Byte)
    BY DEF IInv, TypeOK, ModeOK
  <1>3. PICK h \in Seq(Nat) : h = Header
    BY InputFacts
  <1>4. PICK done \in Seq(Nat) : done = s.done
    BY StageHere
  <1>5. PICK group \in Seq(Nat) : group = s.group
    BY StageHere
  <1>6. CASE block_tokens = 0
    BY <1>1, <1>6 DEF Produced, Finished
  <1>7. CASE block_tokens # 0
    <2>1. SubSeq(block, block_out + 1, Len(block)) = block
      BY <1>2
    <2>2. Produced = out \o block
      BY <1>7, <2>1 DEF Produced
    <2>3. Produced = (h \o done) \o group
      BY <1>1, <1>3, <1>4, <1>5, <2>2
    <2>4. Finished(s) = done \o group
      BY <1>1, <1>4, <1>5, <1>7 DEF Finished
    <2> QED BY <1>3, <2>3, <2>4, ConcatNaturalsTwice
  <1> QED BY <1>6, <1>7

\* How far ahead the window goes.
LEMMA Ahead ==
    ASSUME NEW pos \in Nat, NEW size \in Nat, NEW all \in Nat
    PROVE  /\ size - pos >= MAX_MATCH + 1 => size - pos > MAX_MATCH
           /\ size - pos < 1 => ~(size - pos > MAX_MATCH)
           /\ size - pos < 1 /\ pos <= size => all - (size - pos) = all
  BY SizeFacts

LEMMA FillCInv ==
    ASSUME CInv, compress_fill, IInv'
    PROVE  Finishing' /\ Slid' /\ Ready' /\ Follows'
  <1> DEFINE drop  == IF window_pos < 2 * MAX_DISTANCE THEN 0 ELSE MAX_DISTANCE
             bytes == Least(WINDOW_SIZE - (window_size - drop), avail_in)
  <1>1. IInv /\ Follows /\ Slid /\ Finishing /\ mode = "FILL" /\ Encoding /\ running
    BY DEF CInv, EInv, compress_fill, At, Encoding
  <1>2. BufferType /\ WindowType /\ WindowHoldsInput
    BY <1>1, TypeParts DEF IInv
  <1>3. /\ drop \in 0 .. window_pos /\ window_pos - drop < 2 * MAX_DISTANCE
        /\ window_pos \in Nat /\ window_size \in Nat /\ window_pos <= window_size
        /\ received \in Nat /\ received = total_in /\ window_size <= received
        /\ bytes \in 0 .. avail_in /\ avail_in \in Nat /\ Len(input) \in Nat
        /\ bytes < avail_in => window_size - drop + bytes = WINDOW_SIZE
        /\ total_in + avail_in <= Len(input)
        /\ drop = 0 \/ (drop = MAX_DISTANCE /\ window_pos >= 2 * MAX_DISTANCE)
    BY <1>1, <1>2, FillNumbers DEF BufferType
  <1>4. /\ received' = received + bytes /\ window_pos' = window_pos - drop
        /\ window_size' = (window_size - drop) + bytes
        /\ total_in' = total_in + bytes /\ avail_in' = avail_in - bytes
        /\ UNCHANGED <<input, out, configVars, blockVars, matcherVars, match>>
    BY DEF compress_fill, Read
  <1>5. \/ /\ mode' = "ERROR" /\ received' > uncompressed_size /\ ~running'
        \/ /\ mode' = "FIND_MATCH" /\ UNCHANGED <<running, flush>>
           /\ window_size' - window_pos' >= (IF flush = "FINISH" THEN 1 ELSE MAX_MATCH + 1)
        \/ /\ mode' = "FLUSH" /\ UNCHANGED <<running, flush>>
           /\ window_size' - window_pos' < 1 /\ flush = "FINISH"
        \/ /\ mode' = "FILL" /\ ~running'
    BY <1>1 DEF compress_fill, compress_error, compress_continue, compress_suspend,
                Suspend, Return, callVars, TooMuch
  <1> HIDE DEF drop, bytes
  <1>6. Consumed' = Consumed
    BY <1>3, <1>4 DEF Consumed
  <1>7. SameView
    BY <1>4, <1>6 DEF SameView
  <1>8. Finishing'
    <2>1. total_in' + avail_in' = total_in + avail_in
      BY <1>3, <1>4
    <2> QED BY <1>1, <1>4, <1>5, <2>1 DEF Finishing
  <1>9. Slid'
    <2>1. ASSUME received' > window_size' PROVE window_pos' >= MAX_DISTANCE
      <3>1. CASE drop = 0
        BY <1>1, <1>3, <1>4, <2>1, <3>1 DEF Slid
      <3>2. CASE drop = MAX_DISTANCE /\ window_pos >= 2 * MAX_DISTANCE
        BY <1>3, <1>4, <3>2, SizeFacts
      <3> QED BY <1>3, <3>1, <3>2
    <2> QED BY <2>1 DEF Slid
  <1>10. window_pos' \in Nat /\ window_size' \in Nat /\ received' \in Nat
    BY <1>3, <1>4
  \* Under FINISH the window is full, or has the last of the input.
  <1>11. ASSUME flush = "FINISH"
         PROVE  window_size' - window_pos' > MAX_MATCH \/ received' = Len(input)
    <2>1. CASE bytes < avail_in
      <3>1. window_size' = WINDOW_SIZE /\ window_pos' \in Nat /\ window_pos' < 2 * MAX_DISTANCE
        BY <1>3, <1>4, <2>1
      <3>2. window_size' - window_pos' >= MAX_MATCH + 1
        BY <3>1, FullWindow
      <3> QED BY <1>10, <3>2, Ahead
    <2>2. CASE bytes = avail_in
      BY <1>1, <1>3, <1>4, <1>11, <2>2 DEF Finishing
    <2> QED BY <1>3, <2>1, <2>2
  <1>12. Ready'
    <2>1. ASSUME mode' = "FIND_MATCH"
          PROVE  window_size' - window_pos' > MAX_MATCH \/ received' = Len(input)
      <3>1. CASE flush = "FINISH"
        BY <1>11, <3>1
      <3>2. CASE flush # "FINISH"
        <4>1. window_size' - window_pos' >= MAX_MATCH + 1
          BY <1>5, <2>1, <3>2
        <4> QED BY <1>10, <4>1, Ahead
      <3> QED BY <3>1, <3>2
    <2> QED BY <1>4, <2>1 DEF Ready
  <1>13. PICK s : InStages(input, Reach, s) /\ AtStage(s)
    BY <1>1 DEF Follows
  <1>14. CASE mode' \in {"FILL", "FIND_MATCH"}
    <2>1. InStages(input, Reach, s)' /\ AtStage(s)'
      BY <1>1, <1>7, <1>13, <1>14, StageKept
    <2> QED BY <1>8, <1>9, <1>12, <1>14, <2>1 DEF Follows
  <1>15. CASE mode' = "FLUSH"
    <2>1. /\ input' = input /\ out' = out /\ Reach' = Reach /\ Header' = Header
          /\ Held' = Held /\ Produced' = Produced
      BY <1>7, ViewFacts
    <2>2. s.at = Consumed /\ s.held = Held
      BY <1>1, <1>13 DEF AtStage
    <2>3. Consumed = Len(input)
      <3>1. window_size' - window_pos' < 1 /\ flush = "FINISH"
        BY <1>5, <1>15
      <3>2. received' = Len(input)
        BY <1>11, <1>10, <3>1, Ahead
      <3>3. WindowHoldsInput' /\ Encoding'
        BY <1>15 DEF IInv, Encoding
      <3>4. window_pos' <= window_size'
        BY <3>3 DEF WindowHoldsInput
      <3>5. Consumed' = received'
        BY <1>10, <3>1, <3>4, Ahead DEF Consumed
      <3> QED BY <1>6, <3>2, <3>5
    <2>4. Produced = Header \o Finished(s)
      BY <1>1, <1>13, LastGroup
    <2>5. AtStage(s)'
      BY <1>6, <1>15, <2>1, <2>2, <2>3, <2>4 DEF AtStage
    <2>6. InStages(input, Reach, s)'
      BY <1>13, <2>1
    <2> QED BY <1>8, <1>9, <1>12, <1>15, <2>5, <2>6 DEF Follows
  <1>16. CASE mode' = "ERROR"
    <2>1. /\ input' = input /\ out' = out /\ Reach' = Reach /\ Header' = Header
          /\ uncompressed_size' = uncompressed_size
      BY <1>7, ViewFacts
    <2>2. Begins(out, Header \o RefEncode(input, Reach))
      BY <1>1, <1>13, StageBegins
    <2>3. uncompressed_size # Len(input)
      <3>1. received' > uncompressed_size /\ received' <= Len(input)
        BY <1>3, <1>4, <1>5, <1>16
      <3>2. uncompressed_size \in Nat
        BY <1>2 DEF WindowType
      <3> QED BY <1>3, <1>10, <3>1, <3>2
    <2> QED BY <1>8, <1>9, <1>12, <1>16, <2>1, <2>2, <2>3 DEF Follows, Encoding
  <1> QED BY <1>5, <1>14, <1>15, <1>16

-----------------------------------------------------------------------------
(* A token comes out of the matcher. *)

LEMMA TokenKinds ==
    /\ Literal.length = 1 /\ Literal \in Token /\ NoToken \notin Token
    /\ \A token \in Token : token.length \in Nat /\ (token.length < MIN_MATCH => token.length = 1)
                            /\ token.length >= 1
  <1>1. Literal.length = 1 /\ Literal \in Token
    BY SizeFacts DEF Literal, Token
  <1>2. \A token \in Token : token.length \in {1} \cup MIN_MATCH .. MAX_MATCH
    BY DEF Token
  <1>3. \A l \in {1} \cup MIN_MATCH .. MAX_MATCH : l \in Nat /\ (l < MIN_MATCH => l = 1) /\ l >= 1
    BY SizeFacts DEF MIN_MATCH
  <1>4. NoToken \notin Token
    BY <1>2, <1>3 DEF NoToken
  <1> QED BY <1>1, <1>2, <1>3, <1>4

\* A longest token that is no match is a literal.
LEMMA LongestKinds ==
    ASSUME NEW data \in Seq(Byte), NEW at \in Nat, at <= Len(data),
           NEW reach \in 0 .. MAX_DISTANCE
    PROVE  LET longest == Longest(data, at, reach) IN
           longest = Literal <=> longest.length < MIN_MATCH
  <1> DEFINE longest == Longest(data, at, reach)
  <1>1. longest = Literal \/ longest \in Matches(data, at, reach)
    BY LongestFacts
  <1> SUFFICES longest = Literal <=> longest.length < MIN_MATCH
    OBVIOUS
  <1> HIDE DEF longest
  <1>2. CASE longest = Literal
    <2>1. Literal.length < MIN_MATCH
      BY TokenKinds DEF MIN_MATCH
    <2> QED BY <1>2, <2>1
  <1>3. CASE longest \in Matches(data, at, reach)
    <2>1. longest # Literal /\ longest.length \in MIN_MATCH .. MAX_MATCH
      BY <1>3, MatchFacts
    <2> DEFINE l == longest.length
    <2>2. l \in MIN_MATCH .. MAX_MATCH
      BY <2>1
    <2> HIDE DEF l
    <2>3. ~(l < MIN_MATCH)
      BY <2>2, SizeFacts DEF MIN_MATCH
    <2> QED BY <2>1, <2>3 DEF l
  <1> QED BY <1>1, <1>2, <1>3

LEMMA FindMatchCInv ==
    ASSUME CInv, compress_find_match
    PROVE  Finishing' /\ Slid' /\ Ready' /\ Follows'
  <1>1. /\ IInv /\ Follows /\ Slid /\ Finishing /\ Ready /\ mode = "FIND_MATCH" /\ Encoding
        /\ BufferType /\ WindowType /\ WindowHoldsInput /\ ModeOK
    BY TypeParts DEF CInv, EInv, IInv, compress_find_match, At, Encoding
  <1>2. /\ mode' = "EMIT" /\ find_match
        /\ UNCHANGED <<streamVars, configVars, windowVars, blockVars, running, flush>>
    BY DEF compress_find_match, compress_continue, callVars
  <1>3. Finishing' /\ Slid' /\ Ready'
    BY <1>1, <1>2 DEF Finishing, Slid, Ready, Encoding, streamVars, windowVars
  <1>4. PICK s : InStages(input, Reach, s) /\ AtStage(s)
    BY <1>1 DEF Follows
  <1>5. /\ s.at = Consumed /\ s.held = Held
        /\ out = Header \o s.done /\ block = s.group /\ block_tokens = s.count
    BY <1>1, <1>4 DEF AtStage
  <1>6. /\ input' = input /\ out' = out /\ Reach' = Reach /\ Header' = Header
        /\ block' = block /\ block_tokens' = block_tokens /\ Consumed' = Consumed
    BY <1>2 DEF streamVars, configVars, windowVars, blockVars, Reach, Header, Consumed
  <1>7. /\ window_pos \in Nat /\ window_size \in Nat /\ window_pos < window_size
        /\ received \in Nat /\ window_size <= received /\ received <= Len(input)
        /\ Consumed = received - (window_size - window_pos)
        /\ Consumed + 1 = received - (window_size - (window_pos + 1))
        /\ Consumed \in Nat /\ Consumed < Len(input) /\ Len(input) \in Nat
        /\ window_size - window_pos > MAX_MATCH \/ received = Len(input)
        /\ input \in Seq(Byte) /\ Reach \in 0 .. MAX_DISTANCE
    BY <1>1, SizeFacts, InputFacts
       DEF WindowType, BufferType, ModeOK, WindowHoldsInput, Consumed, Ready
  <1> DEFINE now  == Longest(input, s.at, Reach)
             next == Longest(input, s.at + 1, Reach)
             c    == Picked(input, s, Reach)
  <1>8. c = IF s.held # NoToken THEN Choice(s.held, NoToken)
            ELSE IF now # Literal /\ next.length >= now.length + 2
            THEN Choice(Literal, next) ELSE Choice(now, NoToken)
    BY DEF Picked
  <1>9. now = Literal <=> now.length < MIN_MATCH
    BY <1>5, <1>7, LongestKinds
  <1> HIDE DEF now, next, c
  <1>10. c.token.length = match'.length /\ (match'.length >= MIN_MATCH => c.token = match')
         /\ c.held = Held'
    <2>1. CASE deferred /\ match' = deferred_match /\ deferred' = FALSE
      <3>1. s.held = deferred_match /\ deferred_match \in Token
        BY <1>1, <1>5, <2>1 DEF Held, ModeOK
      <3>2. c = Choice(match', NoToken)
        BY <1>8, <2>1, <3>1, TokenKinds
      <3> QED BY <2>1, <3>2 DEF Choice, Held
    <2>2. ASSUME ~deferred, NEW first \in Token, NEW second \in Token,
                 Finds(window_pos, first),
                 IF first.length >= MIN_MATCH THEN Finds(window_pos + 1, second)
                                              ELSE second = Literal,
                 \/ /\ second.length >= first.length + 2
                    /\ match' = [length |-> 1, distance |-> second.distance]
                    /\ deferred' = TRUE /\ deferred_match' = second
                 \/ /\ second.length < first.length + 2
                    /\ match' = first
                    /\ UNCHANGED matcherVars
          PROVE  c.token.length = match'.length /\ c.held = Held'
                 /\ (match'.length >= MIN_MATCH => c.token = match')
      <3>1. s.held = NoToken
        BY <1>5, <2>2 DEF Held
      <3>2. first = now
        <4>1. window_pos \in {window_pos, window_pos + 1} /\ window_pos <= window_size
              /\ (window_size - window_pos >= MAX_MATCH \/ received = Len(input))
          BY <1>7, SizeFacts
        <4> QED BY <1>1, <1>5, <1>7, <2>2, <4>1, FindsLongest DEF now
      <3>3. ASSUME first.length >= MIN_MATCH PROVE second = next
        <4>1. PICK at \in {window_pos, window_pos + 1} : at = window_pos + 1
          OBVIOUS
        <4>2. at <= window_size /\ Consumed + 1 = received - (window_size - at)
              /\ (window_size - at >= MAX_MATCH \/ received = Len(input))
          BY <1>7, <4>1, SizeFacts
        <4>3. Finds(at, second)
          BY <2>2, <3>3, <4>1
        <4> QED BY <1>1, <1>5, <4>2, <4>3, FindsLongest DEF next
      <3>4. /\ first.length \in Nat /\ second.length \in Nat
            /\ first.length < MIN_MATCH => first.length = 1
            /\ Literal.length = 1
        BY TokenKinds
      <3>5. first = Literal <=> ~(first.length >= MIN_MATCH)
        BY <1>9, <3>2, <3>4 DEF MIN_MATCH
      <3>6. CASE second.length >= first.length + 2
        <4>1. first.length >= MIN_MATCH
          BY <2>2, <3>4, <3>6 DEF MIN_MATCH
        <4>2. c = Choice(Literal, second)
          BY <1>8, <3>1, <3>2, <3>3, <3>5, <3>6, <4>1
        <4>3. c.token = Literal /\ c.held = second
          BY <4>2 DEF Choice
        <4>4. match'.length = 1 /\ Held' = second
          BY <2>2, <3>4, <3>6 DEF Held
        <4> QED BY <3>4, <4>3, <4>4 DEF MIN_MATCH
      <3>7. CASE ~(second.length >= first.length + 2)
        <4>1. ~(now # Literal /\ next.length >= now.length + 2)
          BY <3>2, <3>3, <3>5, <3>7
        <4>2. c = Choice(first, NoToken)
          BY <1>8, <3>1, <3>2, <4>1
        <4>3. c.token = first /\ c.held = NoToken
          BY <4>2 DEF Choice
        <4>4. match' = first /\ Held' = NoToken
          BY <2>2, <3>7 DEF Held, matcherVars
        <4> QED BY <4>3, <4>4
      <3> QED BY <3>6, <3>7
    <2> QED BY <1>2, <2>1, <2>2 DEF find_match
  <1>11. Chose(s)'
    BY <1>5, <1>6, <1>7, <1>10 DEF Chose, c
  <1>12. AtStage(s)'
    BY <1>2, <1>5, <1>6, <1>11 DEF AtStage
  <1>13. InStages(input, Reach, s)'
    BY <1>4, <1>6
  <1> QED BY <1>2, <1>3, <1>12, <1>13 DEF Follows

-----------------------------------------------------------------------------
(* A token is put into the block. *)

\* What the token does to the stage it was picked at.
LEMMA StageJoined ==
    ASSUME IInv, mode = "EMIT", NEW s, InStages(input, Reach, s), AtStage(s)
    PROVE  LET l == match.length
               group == IF l < MIN_MATCH
                        THEN Append([block EXCEPT ![1] = @ + CodeBit(block_tokens)],
                                    input[Consumed + 1])
                        ELSE block \o EncodeReference(l, match.distance)
           IN NextStage(input, s, Reach) =
                  IF block_tokens + 1 < TOKENS_PER_BLOCK
                  THEN Stage(Consumed + l, Held, s.done, group, block_tokens + 1)
                  ELSE Stage(Consumed + l, Held, s.done \o group, <<0>>, 0)
  <1> DEFINE c == Picked(input, s, Reach)
             group == IF match.length < MIN_MATCH
                      THEN Append([block EXCEPT ![1] = @ + CodeBit(block_tokens)],
                                  input[Consumed + 1])
                      ELSE block \o EncodeReference(match.length, match.distance)
  <1>1. /\ s.at = Consumed /\ block = s.group /\ block_tokens = s.count
        /\ s.at < Len(input) /\ c.held = Held /\ c.token.length = match.length
        /\ match.length >= MIN_MATCH => c.token = match
    BY DEF AtStage, Chose
  <1>2. match.length \in Nat /\ Consumed \in Int /\ Len(input) \in Nat
    <2>1. match \in Token /\ window_pos \in Nat /\ window_size \in Nat /\ received \in Nat
      BY SizeFacts DEF IInv, ModeOK, TypeOK
    <2> QED BY <2>1, SizeFacts, InputFacts DEF Token, MIN_MATCH, Consumed
  <1> HIDE DEF c
  <1>3. Joined(input, s, c.token) = group
    <2>1. CASE match.length < MIN_MATCH
      BY <1>1, <2>1 DEF Joined
    <2>2. CASE ~(match.length < MIN_MATCH)
      <3>1. c.token = match
        BY <1>1, <1>2, <2>2 DEF MIN_MATCH
      <3> QED BY <1>1, <2>2, <3>1 DEF Joined
    <2> QED BY <2>1, <2>2
  <1>4. s.at # Len(input)
    BY <1>1, <1>2
  <1> QED BY <1>1, <1>3, <1>4 DEF NextStage, c

LEMMA EmitCInv ==
    ASSUME CInv, compress_emit, IInv'
    PROVE  Finishing' /\ Slid' /\ Ready' /\ Follows'
  <1>1. IInv /\ EncodesSoFar /\ Follows /\ Slid /\ Finishing
    BY DEF CInv, EInv
  <1> DEFINE l == match.length
             group == IF l < MIN_MATCH
                      THEN Append([block EXCEPT ![1] = @ + CodeBit(block_tokens)],
                                  input[Consumed + 1])
                      ELSE block \o EncodeReference(l, match.distance)
  <1>2. /\ mode = "EMIT" /\ block_out = 0 /\ block_tokens \in Nat
        /\ UNCHANGED <<streamVars, configVars, matcherVars, received, window_size,
                       block_out, running, flush>>
        /\ l \in Nat /\ window_pos \in Nat
        /\ window_pos' = window_pos + l
        /\ Consumed' = Consumed + l
        /\ block_tokens' = block_tokens + 1
        /\ block' = group
        /\ mode' = IF block_tokens + 1 = TOKENS_PER_BLOCK THEN "WRITE_BLOCK" ELSE "FILL"
    BY <1>1, EmitBlock
  <1>3. Encoding /\ block_tokens < TOKENS_PER_BLOCK /\ Encoding'
    BY <1>1, <1>2 DEF IInv, ModeOK, Encoding
  <1>4. PICK s : InStages(input, Reach, s) /\ AtStage(s)
    BY <1>1, <1>3 DEF Follows
  <1> PICK t : t = NextStage(input, s, Reach)
    OBVIOUS
  <1>5. t = IF block_tokens + 1 < TOKENS_PER_BLOCK
            THEN Stage(Consumed + l, Held, s.done, group, block_tokens + 1)
            ELSE Stage(Consumed + l, Held, s.done \o group, <<0>>, 0)
    BY <1>1, <1>2, <1>4, StageJoined
  <1>6. InStages(input, Reach, t)
    BY <1>1, <1>4, InputFacts, StageTurn
  <1>7. out = Header \o s.done
    BY <1>2, <1>4 DEF AtStage
  <1> HIDE DEF l, group
  <1>8. /\ input' = input /\ out' = out /\ Reach' = Reach /\ Header' = Header /\ Held' = Held
        /\ total_in' = total_in /\ avail_in' = avail_in
    BY <1>2 DEF streamVars, configVars, matcherVars, Reach, Header, Held
  <1>9. Finishing'
    BY <1>1, <1>2, <1>8, FinishingKept
  <1>10. Slid'
    <2>1. ASSUME received > window_size PROVE window_pos' >= MAX_DISTANCE
      <3>1. window_pos >= MAX_DISTANCE
        BY <1>1, <1>3, <2>1 DEF Slid
      <3> QED BY <1>2, <3>1, SizeFacts
    <2> QED BY <1>2, <2>1 DEF Slid
  <1>11. Ready'
    BY <1>2 DEF Ready
  <1>12. AtStage(t)'
    <2>1. CASE block_tokens + 1 < TOKENS_PER_BLOCK
      <3>1. /\ t.at = Consumed + l /\ t.held = Held /\ t.done = s.done
            /\ t.group = group /\ t.count = block_tokens + 1
        BY <1>5, <2>1 DEF Stage
      <3>2. mode' = "FILL"
        BY <1>2, <2>1, SizeFacts
      <3> QED BY <1>2, <1>7, <1>8, <3>1, <3>2 DEF AtStage
    <2>2. CASE ~(block_tokens + 1 < TOKENS_PER_BLOCK)
      <3>1. /\ t.at = Consumed + l /\ t.held = Held /\ t.done = s.done \o group
            /\ t.group = <<0>> /\ t.count = 0
        BY <1>5, <2>2 DEF Stage
      <3>2. mode' = "WRITE_BLOCK"
        BY <1>2, <1>3, <2>2, SizeFacts
      <3>3. Produced' = Header \o (s.done \o group)
        <4>1. block' \in Seq(Byte)
          BY DEF IInv, TypeOK
        <4> DEFINE b == block'
        <4>2. b \in Seq(Byte) /\ b \in Seq(Nat)
          BY <4>1, BytesAreNaturals
        <4> HIDE DEF b
        <4>3. SubSeq(b, 0 + 1, Len(b)) = b
          BY <4>2
        <4>4. Produced' = out' \o SubSeq(block', block_out' + 1, Len(block'))
          BY <1>2 DEF Produced
        <4>5. Produced' = (Header \o s.done) \o b
          BY <1>2, <1>7, <1>8, <4>3, <4>4 DEF b
        <4>6. Header \in Seq(Nat) /\ s.done \in Seq(Nat)
          BY <1>1, <1>4, InputFacts, StageHere
        <4>7. PICK h \in Seq(Nat) : h = Header
          BY <4>6
        <4>8. PICK done \in Seq(Nat) : done = s.done
          BY <4>6
        <4> QED BY <1>2, <4>2, <4>5, <4>7, <4>8, ConcatNaturalsTwice DEF b
      <3> QED BY <1>2, <1>8, <3>1, <3>2, <3>3 DEF AtStage
    <2> QED BY <2>1, <2>2
  <1>13. InStages(input, Reach, t)'
    BY <1>6, <1>8
  <1> QED BY <1>2, <1>9, <1>10, <1>11, <1>12, <1>13 DEF Follows

-----------------------------------------------------------------------------
(* The block goes out, stage by stage. *)

LEMMA WriteBlockCInv ==
    ASSUME CInv, compress_write_block, IInv'
    PROVE  Finishing' /\ Slid' /\ Ready' /\ Follows'
  <1> DEFINE have == Least(Len(block) - block_out, avail_out)
  <1>1. /\ mode = "WRITE_BLOCK" /\ Encoding /\ IInv /\ EncodesSoFar
        /\ Follows /\ Slid /\ Finishing
        /\ block \in Seq(Byte) /\ block_out \in 0 .. Len(block) /\ avail_out \in Nat
        /\ block_tokens # 0
    BY SizeFacts DEF CInv, EInv, IInv, TypeOK, StreamTypeOK, ModeOK, compress_write_block,
                     At, Encoding
  <1>2. /\ WriteBlock(have)
        /\ \/ /\ block_out' = block_out + have /\ UNCHANGED <<block, block_tokens>>
              /\ mode' = mode /\ ~running'
           \/ /\ block' = <<0>> /\ block_out' = 0 /\ block_tokens' = 0
              /\ block_out + have = Len(block) /\ mode' = "FILL"
              /\ UNCHANGED <<running, flush>>
    BY DEF compress_write_block, compress_suspend, compress_continue, Suspend, Return,
           callVars
  <1>3. have \in Nat /\ block_out + have \in 0 .. Len(block)
    BY <1>1 DEF Least
  <1> HIDE DEF have
  <1>4. /\ out' \o SubSeq(block, (block_out + have) + 1, Len(block)) = Produced
        /\ UNCHANGED <<input, configVars, windowVars, matcherVars, total_in, avail_in>>
        /\ Consumed' = Consumed
    <2>1. block_out + have <= Len(block)
      BY <1>3
    <2> QED BY <1>1, <1>2, <1>3, <2>1, BlockFlows DEF WriteBlock
  <1>5. /\ input' = input /\ Reach' = Reach /\ Header' = Header /\ Held' = Held
    BY <1>4 DEF configVars, matcherVars, Reach, Header, Held
  <1>6. Finishing' /\ Slid' /\ Ready'
    <2>1. Finishing'
      BY <1>1, <1>2, <1>4, FinishingKept
    <2> QED BY <1>1, <1>2, <1>4, <2>1 DEF Slid, Ready, windowVars
  <1>7. PICK s : InStages(input, Reach, s) /\ AtStage(s)
    BY <1>1 DEF Follows
  <1>8. /\ s.at = Consumed /\ s.held = Held /\ Produced = Header \o s.done
        /\ s.group = <<0>> /\ s.count = 0
    BY <1>1, <1>7 DEF AtStage
  <1>9. InStages(input, Reach, s)'
    BY <1>5, <1>7
  <1>10. CASE /\ block_out' = block_out + have /\ UNCHANGED <<block, block_tokens>>
              /\ mode' = mode
    <2>1. Produced' = Produced
      BY <1>1, <1>4, <1>10 DEF Produced
    <2>2. AtStage(s)'
      BY <1>1, <1>4, <1>5, <1>8, <1>10, <2>1 DEF AtStage
    <2> QED BY <1>1, <1>6, <1>9, <1>10, <2>2 DEF Follows
  <1>11. CASE /\ block' = <<0>> /\ block_out' = 0 /\ block_tokens' = 0
              /\ block_out + have = Len(block) /\ mode' = "FILL"
    <2>1. out' = Produced
      <3>1. out' \in Seq(Byte) /\ SubSeq(block, Len(block) + 1, Len(block)) = <<>>
        BY <1>1 DEF IInv, TypeOK, StreamTypeOK
      <3>2. out' \o SubSeq(block, Len(block) + 1, Len(block)) = out'
        BY <3>1
      <3> QED BY <1>4, <1>11, <3>2
    <2>2. AtStage(s)'
      BY <1>4, <1>5, <1>8, <1>11, <2>1 DEF AtStage
    <2> QED BY <1>6, <1>9, <1>11, <2>2 DEF Follows
  <1> QED BY <1>2, <1>10, <1>11

LEMMA FlushCInv ==
    ASSUME CInv, compress_flush
    PROVE  Finishing' /\ Slid' /\ Ready' /\ Follows'
  <1> DEFINE have == Least(Len(block) - block_out, avail_out)
  <1>1. /\ mode = "FLUSH" /\ Encoding /\ IInv /\ EncodesSoFar
        /\ Follows /\ Slid /\ Finishing
        /\ block \in Seq(Byte) /\ block_out \in 0 .. Len(block) /\ avail_out \in Nat
        /\ window_pos = window_size /\ window_size \in Nat /\ received \in Nat
    BY SizeFacts DEF CInv, EInv, IInv, TypeOK, StreamTypeOK, compress_flush, At, Encoding,
                     EncodesSoFar
  <1>2. PICK s : InStages(input, Reach, s) /\ AtStage(s)
    BY <1>1 DEF Follows
  <1>3. /\ s.at = Consumed /\ s.held = Held /\ s.at = Len(input)
        /\ Produced = Header \o Finished(s)
    BY <1>1, <1>2 DEF AtStage
  <1>4. CASE /\ UNCHANGED <<streamVars, configVars, windowVars, match, matcherVars,
                            blockVars>>
             /\ mode' = "ERROR" /\ ~running' /\ received # uncompressed_size
    <2>1. SameView
      BY <1>4 DEF SameView, windowVars, streamVars, Consumed
    <2>2. /\ input' = input /\ out' = out /\ Reach' = Reach /\ Header' = Header
          /\ uncompressed_size' = uncompressed_size
      BY <2>1, ViewFacts
    <2>3. Begins(out, Header \o RefEncode(input, Reach))
      BY <1>1, <1>2, StageBegins
    <2>4. uncompressed_size # Len(input)
      <3>1. Consumed = received
        BY <1>1 DEF Consumed
      <3> QED BY <1>3, <1>4, <3>1
    <2>5. Finishing' /\ Slid' /\ Ready'
      BY <1>4 DEF Finishing, Slid, Ready, Encoding
    <2> QED BY <1>4, <2>2, <2>3, <2>4, <2>5 DEF Follows, Encoding
  <1>5. CASE /\ UNCHANGED <<streamVars, configVars, windowVars, match, matcherVars,
                            blockVars>>
             /\ mode' = "DONE" /\ UNCHANGED callVars /\ block_tokens = 0
    <2>1. SameView
      BY <1>5 DEF SameView, windowVars, streamVars, Consumed
    <2>2. /\ input' = input /\ out' = out /\ Reach' = Reach /\ Header' = Header
          /\ Held' = Held /\ Produced' = Produced /\ Consumed' = Consumed
      BY <2>1, ViewFacts DEF SameView
    <2>3. Produced = out
      BY <1>5 DEF Produced
    <2>4. InStages(input, Reach, s)' /\ AtStage(s)'
      BY <1>2, <1>3, <1>5, <2>2, <2>3 DEF AtStage
    <2>5. Finishing' /\ Slid' /\ Ready'
      BY <1>1, <1>5 DEF Finishing, Slid, Ready, windowVars, streamVars, callVars
    <2> QED BY <1>5, <2>4, <2>5 DEF Follows
  <1>6. CASE /\ WriteBlock(have) /\ block_tokens # 0
             /\ block_out' = block_out + have
             /\ UNCHANGED <<block, block_tokens>>
             /\ \/ block_out' = Len(block) /\ mode' = "DONE" /\ UNCHANGED callVars
                \/ mode' = "FLUSH" /\ ~running'
    <2>1. have \in Nat /\ block_out + have \in 0 .. Len(block)
      BY <1>1 DEF Least
    <2> HIDE DEF have
    <2>2. /\ out' \o SubSeq(block, (block_out + have) + 1, Len(block)) = Produced
          /\ UNCHANGED <<input, configVars, windowVars, matcherVars, total_in, avail_in>>
          /\ Consumed' = Consumed /\ out' \in Seq(Byte)
      <3>1. block_out + have <= Len(block)
        BY <2>1
      <3>2. out' = out \o SubSeq(block, block_out + 1, block_out + have)
            /\ out \in Seq(Byte)
        BY <1>1, <1>6 DEF WriteBlock, Write, IInv, TypeOK, StreamTypeOK
      <3>3. out' \in Seq(Byte)
        BY <1>1, <2>1, <3>1, <3>2, StretchParts, ConcatParts
      <3> QED BY <1>1, <1>6, <2>1, <3>1, <3>3, BlockFlows DEF WriteBlock
    <2>3. /\ input' = input /\ Reach' = Reach /\ Header' = Header /\ Held' = Held
      BY <2>2 DEF configVars, matcherVars, Reach, Header, Held
    <2>4. Produced' = Produced
      BY <1>6, <2>2 DEF Produced
    <2>5. mode' = "DONE" => out' = Produced'
      <3>1. SubSeq(block, Len(block) + 1, Len(block)) = <<>>
        BY <1>1
      <3>2. out' \o <<>> = out'
        BY <2>2
      <3> QED BY <1>6, <2>2, <2>4, <3>1, <3>2
    <2>6. InStages(input, Reach, s)'
      BY <1>2, <2>3
    <2>7. AtStage(s)'
      BY <1>3, <1>6, <2>2, <2>3, <2>4, <2>5 DEF AtStage
    <2>8. Finishing'
      BY <1>1, <1>6, <2>2, FinishingKept DEF callVars
    <2>9. Slid' /\ Ready'
      BY <1>1, <1>6, <2>2 DEF Slid, Ready, windowVars
    <2> QED BY <1>6, <2>6, <2>7, <2>8, <2>9 DEF Follows
  <1>7. CASE received # uncompressed_size
    BY <1>4, <1>7 DEF compress_flush, compress_error, Return
  <1>8. CASE received = uncompressed_size /\ block_tokens = 0
    BY <1>5, <1>8 DEF compress_flush, compress_continue
  <1>9. CASE received = uncompressed_size /\ block_tokens # 0
    <2>1. /\ WriteBlock(have) /\ block_out' = block_out + have
          /\ UNCHANGED <<block, block_tokens>>
          /\ IF block_out' = Len(block) THEN compress_continue("DONE") ELSE compress_suspend
      BY <1>9 DEF compress_flush
    <2> HIDE DEF have
    <2>2. CASE block_out' = Len(block)
      BY <1>6, <1>9, <2>1, <2>2 DEF compress_continue
    <2>3. CASE block_out' # Len(block)
      BY <1>1, <1>6, <1>9, <2>1, <2>3 DEF compress_suspend, Suspend, Return
    <2> QED BY <2>2, <2>3
  <1> QED BY <1>7, <1>8, <1>9

-----------------------------------------------------------------------------

\* A handler that hands back reports how the stream stands when it does.
LEMMA HandlerReports ==
    ASSUME yaz0_compress
    PROVE  Reported'
  <1>1. running /\ mode \in Mode
    BY DEF yaz0_compress, compress_header, compress_fill, compress_find_match, compress_emit,
       compress_write_block, compress_flush, Settled, At, Mode
  <1>2. CASE Settled
    BY <1>2 DEF Settled, At, Return, Reported
  <1>3. CASE ~Settled
    <2>1. mode \notin {"DONE", "ERROR"}
      BY <1>3 DEF yaz0_compress, compress_header, compress_fill, compress_find_match,
         compress_emit, compress_write_block, compress_flush, At
    <2>2. \/ UNCHANGED callVars
          \/ \E code : compress_error(code)
          \/ compress_suspend
      BY <1>3 DEF yaz0_compress, compress_header, compress_fill, compress_find_match,
         compress_emit, compress_write_block, compress_flush, compress_continue
    <2>3. CASE UNCHANGED callVars
      BY <1>1, <2>3 DEF callVars, Reported
    <2>4. ASSUME NEW code, compress_error(code)
          PROVE  Reported'
      BY <2>4 DEF compress_error, Return, Reported
    <2>5. CASE compress_suspend
      BY <2>1, <2>5 DEF compress_suspend, Suspend, Return, Reported
    <2> QED BY <2>2, <2>3, <2>4, <2>5
  <1> QED BY <1>2, <1>3

LEMMA NextReported ==
    ASSUME Reported, [Next]_vars
    PROVE  Reported'
  <1>1. CASE Call
    BY <1>1 DEF Call, Enter, Reported
  <1>2. CASE yaz0_compress_reset
    BY <1>2 DEF yaz0_compress_reset, Reported
  <1>3. CASE UNCHANGED vars
    BY <1>3 DEF vars, callVars, Reported
  <1> QED BY <1>1, <1>2, <1>3, HandlerReports DEF Next

LEMMA NextCInv ==
    ASSUME EARLY_FINISH = FALSE
    PROVE  CInv /\ [Next]_vars => CInv'
  <1> SUFFICES ASSUME CInv, [Next]_vars PROVE CInv'
    OBVIOUS
  <1>1. EInv'
    BY NextEInv DEF CInv
  <1>2. IInv' /\ EncodesSoFar'
    BY <1>1 DEF EInv
  <1>3. Finishing' /\ Slid' /\ Ready' /\ Follows'
    BY <1>2, CallCInv, SettledCInv, ResetCInv, HeaderCInv, FillCInv, FindMatchCInv,
       EmitCInv, WriteBlockCInv, FlushCInv
       DEF Next, yaz0_compress
  <1>4. Reported'
    BY NextReported DEF CInv
  <1> QED BY <1>1, <1>3, <1>4 DEF CInv

(***************************************************************************)
(* As long as the caller says FINISH only with the last of its input, what *)
(* yaz0_compress writes depends on the input and on nothing else: not on   *)
(* how the input is dealt out over the calls, nor on the room each call    *)
(* has, nor on when the window slides.  It is, byte for byte, the header   *)
(* and what a lazy encoder makes that sees all of the input at once; the   *)
(* stream ends well only if the declared size is that of the input, and    *)
(* fails only if it is not; and every call returns how the stream stands   *)
(* (compress.c: compress_fill, compress_emit, compress_slide_window,       *)
(* compress_flush, yaz0_compress; matcher_std.c: find_match).              *)
(***************************************************************************)
THEOREM ChunkingCorrect ==
    ASSUME EARLY_FINISH = FALSE
    PROVE  Spec => []ChunkingInvisible
  <1>1. CInv => ChunkingInvisible
    BY FollowsChunking DEF ChunkingInvisible
  <1>2. CInv /\ [Next]_vars => CInv'
    BY NextCInv
  <1> QED BY <1>1, <1>2, InitCInv, PTL DEF Spec
=============================================================================
