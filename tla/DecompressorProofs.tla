------------------------- MODULE DecompressorProofs -------------------------
(***************************************************************************)
(* The theorems about Decompressor: its type invariant, the ring that      *)
(* holds the tail of the output, what a suspended call has used up, and    *)
(* that it implements Lz77.  They rest on one inductive invariant,         *)
(* TypeOK /\ ModeOK /\ RingHoldsTail.  The last part adds where on the     *)
(* trail of the reference decoder the stream is, and so what it makes of   *)
(* any input: FInv.                                                        *)
(***************************************************************************)
EXTENDS Decompressor, ReferenceProofs

\* Abbreviations of the model.
USE DEF HasInput, HasRoom, Readable, Writable, BadReference, CopySource

LEMMA RingFacts ==
    /\ MAX_DISTANCE \in Nat \ {0} /\ MAX_DISTANCE >= 3
    /\ \A n \in Nat : n % MAX_DISTANCE \in Slots
    /\ 0 \in Slots /\ 1 \in Slots /\ 2 \in Slots
  <1>1. MAX_DISTANCE \in Nat \ {0} /\ MAX_DISTANCE >= 3
    BY FormatAssumption, DecompressorAssumption DEF HEADER_SIZE
  <1>2. \A n \in Nat : n % MAX_DISTANCE \in 0 .. MAX_DISTANCE - 1
    BY <1>1, DivMod
  <1> QED BY <1>1, <1>2 DEF Slots

LEMMA InputByte ==
    ASSUME StreamTypeOK, avail_in > 0
    PROVE  NextByte \in Byte /\ total_in + 1 <= Len(input)
  BY DEF StreamTypeOK, NextByte

(***************************************************************************)
(* TypeOK in three parts: the buffers, the call and its outcome, and the   *)
(* state of the decoder.                                                   *)
(***************************************************************************)
BufferType ==
    /\ input \in Seq(Byte)
    /\ total_in \in Nat /\ avail_in \in Nat
    /\ total_in + avail_in <= Len(input)
    /\ out \in Seq(Byte) /\ avail_out \in Nat

ControlType ==
    /\ running \in BOOLEAN /\ flush \in {"NO_FLUSH", "FINISH"}
    /\ before_in \in Nat /\ before_out \in Nat
    /\ result \in Result
    /\ mode \in Mode /\ error \in Result

DecoderType ==
    /\ history \in [Slots -> Byte \cup {STALE}] /\ history_pos \in Nat
    /\ remaining \in Nat
    /\ group_bitmask \in Byte /\ group_remaining \in 0 .. TOKENS_PER_BLOCK
    /\ reference \in Seq(Byte) /\ Len(reference) <= 3
    /\ copy_distance \in 0 .. MAX_DISTANCE /\ copy_length \in Nat
    /\ resets \in 0 .. MAX_RESETS

\* The type invariant in parts that a handler disturbs one by one.
LEMMA TypeParts == TypeOK <=> BufferType /\ ControlType /\ DecoderType
  BY DEF TypeOK, StreamTypeOK, BufferType, ControlType, DecoderType

\* Reading no more than there is leaves the buffers well formed.
LEMMA ReadBuffers ==
    ASSUME BufferType, NEW n \in Nat, n <= avail_in, Read(n), UNCHANGED <<out, avail_out>>
    PROVE  BufferType'
  <1>1. /\ input' = input /\ out' = out /\ avail_out' = avail_out
        /\ total_in' = total_in + n /\ avail_in' = avail_in - n
    BY DEF Read
  <1>2. /\ total_in \in Nat /\ avail_in \in Nat /\ Len(input) \in Nat
        /\ total_in + avail_in <= Len(input)
    BY DEF BufferType
  <1>3. /\ total_in' \in Nat /\ avail_in' \in Nat
        /\ total_in' + avail_in' <= Len(input')
    BY <1>1, <1>2
  <1> QED BY <1>1, <1>3 DEF BufferType

IInv == TypeOK /\ ModeOK /\ RingHoldsTail

\* However a handler ends, control stays well typed.
LEMMA ContinueControl ==
    ASSUME ControlType, NEW next \in Mode, decompress_continue(next)
    PROVE  ControlType'
  BY DEF ControlType, decompress_continue, callVars

LEMMA ErrorControl ==
    ASSUME ControlType, NEW code \in Result, decompress_error(code)
    PROVE  ControlType'
  BY DEF ControlType, decompress_error, Return, Mode

LEMMA SuspendControl ==
    ASSUME ControlType, decompress_suspend
    PROVE  ControlType' /\ mode' = mode /\ error' = error
  BY DEF ControlType, decompress_suspend, Suspend, Return, Result

LEMMA StarvedControl ==
    ASSUME ControlType, Starved
    PROVE  /\ ControlType'
           /\ \/ mode' = mode /\ error' = error
              \/ mode' = "ERROR" /\ error' = "TRUNCATED"
  <1>1. CASE flush = "FINISH"
    BY <1>1, ErrorControl DEF Starved, decompress_error, Result
  <1>2. CASE flush # "FINISH"
    BY <1>2, SuspendControl DEF Starved
  <1> QED BY <1>1, <1>2

\* A byte appended to the output and stored in the next slot of the ring.
LEMMA EmitStep ==
    ASSUME BufferType, DecoderType, history_pos = Len(out), RingHoldsTail,
           mode \in {"LITERAL", "COPY"},
           avail_out > 0, remaining > 0, NEW b \in Byte, Emit(b)
    PROVE  /\ out' = Append(out, b) /\ out' \in Seq(Byte) /\ avail_out' \in Nat
           /\ history' \in [Slots -> Byte \cup {STALE}]
           /\ history_pos' = Len(out') /\ history_pos' \in Nat
           /\ remaining' = remaining - 1 /\ remaining' \in Nat
           /\ RingHoldsTail'
  <1> DEFINE p == history_pos % MAX_DISTANCE
  <1>1. /\ out' = Append(out, b) /\ Len(out') = Len(out) + 1
        /\ out' \in Seq(Byte) /\ avail_out' \in Nat
        /\ history' = [history EXCEPT ![p] = b]
        /\ history_pos' = Len(out')
        /\ remaining' = remaining - 1 /\ remaining' \in Nat
    BY DEF Emit, WriteByte, BufferType, DecoderType
  <1>2. p \in Slots
    BY RingFacts DEF DecoderType
  <1>3. history' \in [Slots -> Byte \cup {STALE}]
    BY <1>1, <1>2 DEF DecoderType
  <1>4. ASSUME NEW i \in 1 .. Len(out'), i > Len(out') - MAX_DISTANCE
        PROVE  history'[(i - 1) % MAX_DISTANCE] = out'[i]
    <2> DEFINE m == Len(out)
    <2>0. m \in Nat /\ Len(out') = m + 1 /\ history_pos = m /\ MAX_DISTANCE \in Nat
      BY <1>1, RingFacts DEF BufferType
    <2> HIDE DEF m
    <2>1. i \in Nat /\ i - 1 \in Nat /\ i <= m + 1 /\ i > m + 1 - MAX_DISTANCE
          /\ (i - 1) % MAX_DISTANCE \in Slots
      <3>1. i \in Nat /\ i - 1 \in Nat /\ i <= m + 1 /\ i > m + 1 - MAX_DISTANCE
        BY <2>0, <1>4
      <3> QED BY <3>1, RingFacts
    <2>2. CASE i = m + 1
      <3>1. (i - 1) % MAX_DISTANCE = p /\ out'[i] = b
        BY <1>1, <2>0, <2>2 DEF BufferType, m
      <3> QED BY <3>1, <1>1, <1>2 DEF DecoderType
    <2>3. CASE i # m + 1
      <3>1. i \in 1 .. Len(out) /\ i > Len(out) - MAX_DISTANCE
        BY <2>0, <2>1, <2>3 DEF m
      <3>2. p # (i - 1) % MAX_DISTANCE
        <4>1. i - 1 < history_pos /\ history_pos - (i - 1) < MAX_DISTANCE
          BY <2>0, <2>1, <2>3
        <4> QED BY <4>1, <2>0, <2>1, RingFacts, RingSlotsDiffer
      <3>3. history[(i - 1) % MAX_DISTANCE] = out[i]
        BY <3>1 DEF RingHoldsTail
      <3>4. out'[i] = out[i]
        BY <1>1, <3>1 DEF BufferType
      <3> QED BY <3>2, <3>3, <3>4, <2>1, <1>1 DEF DecoderType
    <2> QED BY <2>2, <2>3
  <1>5. RingHoldsTail'
    BY <1>4 DEF RingHoldsTail
  <1> QED BY <1>1, <1>3, <1>5 DEF BufferType

-----------------------------------------------------------------------------
(* The caller. *)

LEMMA CallStep ==
    ASSUME IInv, Call
    PROVE  IInv'
  <1>1. StreamTypeOK'
    BY StreamAssumption
       DEF IInv, Call, TypeOK, StreamTypeOK, Enter, Offers, Left, Least, Result
  <1>2. TypeOK'
    BY <1>1 DEF IInv, Call, TypeOK, ringVars, groupVars, copyVars, Enter
  <1>3. ModeOK' /\ RingHoldsTail'
    BY DEF IInv, Call, Enter, ModeOK, RingHoldsTail, ringVars, groupVars, copyVars
  <1> QED BY <1>2, <1>3 DEF IInv

LEMMA ResetStep ==
    ASSUME IInv, yaz0_decompress_reset
    PROVE  IInv'
  <1> USE DEF yaz0_decompress_reset
  <1>1. BufferType'
    BY StreamAssumption DEF BufferType
  <1>2. ControlType'
    BY TypeParts DEF IInv, ControlType, Mode, Result
  <1>3. DecoderType'
    <2>1. DecoderType /\ 0 \in Byte
      BY TypeParts, RadixFacts DEF IInv, Byte
    <2>2. /\ history_pos' = 0 /\ remaining' = 0 /\ history' = history
          /\ group_bitmask' = 0 /\ group_remaining' = 0 /\ reference' = <<>>
          /\ copy_distance' = 0 /\ copy_length' = 0
          /\ resets' = resets + 1 /\ resets < MAX_RESETS
      OBVIOUS
    <2>3. /\ 0 \in 0 .. TOKENS_PER_BLOCK /\ 0 \in 0 .. MAX_DISTANCE
          /\ resets + 1 \in 0 .. MAX_RESETS
      BY <2>1, <2>2, FormatAssumption, DecompressorAssumption DEF DecoderType
    <2> QED BY <2>1, <2>2, <2>3 DEF DecoderType
  <1>4. TypeOK'
    BY <1>1, <1>2, <1>3, TypeParts DEF TypeOK, StreamTypeOK, BufferType, ControlType,
       DecoderType
  <1>5. ModeOK' /\ RingHoldsTail'
    BY RingFacts DEF ModeOK, RingHoldsTail, HEADER_SIZE, Slots
  <1> QED BY <1>4, <1>5 DEF IInv

-----------------------------------------------------------------------------
(* The handlers. *)

LEMMA HeaderStep ==
    ASSUME IInv, decompress_header
    PROVE  IInv'
  <1> DEFINE have == Least(HEADER_SIZE - history_pos, avail_in)
             read == [slot \in Slots |->
                        IF slot \in history_pos .. history_pos + have - 1
                        THEN input[total_in + 1 + slot - history_pos]
                        ELSE history[slot]]
             size == read_be32(read[1], read[2])
  <1> USE DEF HEADER_SIZE
  <1>1. BufferType /\ ControlType /\ DecoderType /\ ModeOK /\ mode = "HEADER" /\ UNCHANGED resets
    BY TypeParts DEF IInv, decompress_header, At
  <1>2. /\ history_pos \in 0 .. 2 /\ have \in 0 .. 3 - history_pos /\ have <= avail_in
        /\ history_pos + have < 3 => have = avail_in
    BY <1>1 DEF BufferType, DecoderType, ModeOK, Least
  <1>3. /\ Read(have) /\ history' = read
        /\ UNCHANGED <<out, avail_out, groupVars, reference, copyVars>>
    BY DEF decompress_header
  <1> HIDE DEF have
  <1>4. BufferType'
    BY <1>1, <1>2, <1>3, ReadBuffers
  <1>5. /\ read \in [Slots -> Byte \cup {STALE}]
        /\ \A slot \in Slots : slot < history_pos + have => read[slot] \in Byte
    <2>1. ASSUME NEW slot \in Slots, slot \in history_pos .. history_pos + have - 1
          PROVE  input[total_in + 1 + slot - history_pos] \in Byte
      <3>1. total_in + 1 + slot - history_pos \in 1 .. Len(input)
        BY <2>1, <1>1, <1>2 DEF BufferType
      <3> QED BY <3>1, <1>1 DEF BufferType
    <2>2. ASSUME NEW slot \in Slots, slot < history_pos + have,
                 slot \notin history_pos .. history_pos + have - 1
          PROVE  slot < history_pos
      BY <2>2, <1>2, RingFacts DEF Slots
    <2>3. \A slot \in Slots : history[slot] \in Byte \cup {STALE}
                              /\ (slot < history_pos => history[slot] \in Byte)
      BY <1>1 DEF DecoderType, ModeOK
    <2> QED BY <2>1, <2>2, <2>3
  <1>6. history_pos + have = 3 => size \in Nat
    <2> SUFFICES ASSUME history_pos + have = 3 PROVE size \in Nat
      OBVIOUS
    <2>1. read[1] \in Byte /\ read[2] \in Byte
      BY <1>5, RingFacts
    <2> HIDE DEF read
    <2> QED BY <2>1, RadixFacts DEF Byte, read_be32
  <1> HIDE DEF read
  <1>7. CASE /\ history_pos + have < 3
             /\ history_pos' = history_pos + have
             /\ Starved /\ UNCHANGED remaining
    <2>1. ControlType' /\ mode' \in {"HEADER", "ERROR"}
          /\ (mode' = "ERROR" => error' = "TRUNCATED")
      BY <1>1, <1>7, StarvedControl
    <2>2. DecoderType'
      BY <1>1, <1>2, <1>3, <1>5, <1>7 DEF DecoderType, groupVars, copyVars
    <2>3. ModeOK'
      BY <1>1, <1>2, <1>3, <1>5, <1>7, <2>1 DEF ModeOK, copyVars
    <2>4. RingHoldsTail'
      BY <2>1 DEF RingHoldsTail
    <2> QED BY <1>4, <2>1, <2>2, <2>3, <2>4 DEF IInv, TypeOK, StreamTypeOK,
            BufferType, ControlType, DecoderType
  <1>8. CASE /\ history_pos + have = 3
             /\ history_pos' = 3
             /\ decompress_error("BAD_HEADER") /\ UNCHANGED remaining
    <2>1. ControlType' /\ mode' = "ERROR" /\ error' = "BAD_HEADER"
      BY <1>1, <1>8, ErrorControl DEF decompress_error, Result
    <2>2. DecoderType'
      BY <1>1, <1>3, <1>5, <1>8 DEF DecoderType, groupVars, copyVars
    <2>3. ModeOK' /\ RingHoldsTail'
      BY <1>1, <1>3, <2>1 DEF ModeOK, RingHoldsTail, copyVars
    <2> QED BY <1>4, <2>1, <2>2, <2>3 DEF IInv, TypeOK, StreamTypeOK,
            BufferType, ControlType, DecoderType
  <1>9. CASE /\ history_pos + have = 3
             /\ history_pos' = 0 /\ remaining' = size
             /\ decompress_continue(IF size = 0 THEN "DONE" ELSE "START_BLOCK")
    <2>1. ControlType' /\ mode' \in {"DONE", "START_BLOCK"}
      BY <1>1, <1>9, ContinueControl DEF decompress_continue, Mode
    <2>2. DecoderType'
      BY <1>1, <1>3, <1>5, <1>6, <1>9 DEF DecoderType, groupVars, copyVars
    <2>3. out' = <<>> /\ Len(out') = 0
      BY <1>1, <1>3 DEF ModeOK
    <2>4. ModeOK'
      BY <1>1, <1>3, <1>9, <2>1, <2>3 DEF ModeOK, copyVars
    <2>5. RingHoldsTail'
      BY <2>3 DEF RingHoldsTail
    <2> QED BY <1>4, <2>1, <2>2, <2>4, <2>5 DEF IInv, TypeOK, StreamTypeOK,
            BufferType, ControlType, DecoderType
  <1> QED BY <1>7, <1>8, <1>9 DEF decompress_header, have, read, size

LEMMA StartBlockStep ==
    ASSUME IInv, decompress_start_block
    PROVE  IInv'
  <1>1. /\ BufferType /\ ControlType /\ DecoderType /\ ModeOK /\ RingHoldsTail
        /\ mode = "START_BLOCK" /\ UNCHANGED resets
        /\ UNCHANGED <<out, avail_out, ringVars, remaining, reference, copyVars>>
    BY TypeParts DEF IInv, decompress_start_block, At
  <1>2. CASE /\ avail_in > 0 /\ Read(1)
             /\ group_bitmask' = NextByte /\ group_remaining' = TOKENS_PER_BLOCK
             /\ decompress_continue("TOKEN")
    <2>1. BufferType' /\ group_bitmask' \in Byte
      BY <1>1, <1>2 DEF BufferType, Read, NextByte
    <2>2. ControlType' /\ mode' = "TOKEN"
      BY <1>1, <1>2, ContinueControl DEF decompress_continue, Mode
    <2>3. DecoderType'
      BY <1>1, <1>2, <2>1, FormatAssumption DEF DecoderType, ringVars, copyVars
    <2>4. ModeOK' /\ RingHoldsTail'
      BY <1>1, <2>2 DEF ModeOK, RingHoldsTail, ringVars, copyVars
    <2> QED BY <2>1, <2>2, <2>3, <2>4 DEF IInv, TypeOK, StreamTypeOK,
            BufferType, ControlType, DecoderType
  <1>3. CASE /\ UNCHANGED <<input, total_in, avail_in, avail_out, groupVars>>
             /\ Starved
    <2>1. BufferType' /\ DecoderType'
      BY <1>1, <1>3 DEF BufferType, DecoderType, ringVars, copyVars, groupVars
    <2>2. /\ ControlType' /\ mode' \in {"START_BLOCK", "ERROR"}
          /\ mode' = "ERROR" => error' = "TRUNCATED"
      BY <1>1, <1>3, StarvedControl
    <2>3. ModeOK' /\ RingHoldsTail'
      BY <1>1, <2>2 DEF ModeOK, RingHoldsTail, ringVars, copyVars
    <2> QED BY <2>1, <2>2, <2>3 DEF IInv, TypeOK, StreamTypeOK,
            BufferType, ControlType, DecoderType
  <1> QED BY <1>2, <1>3 DEF decompress_start_block

LEMMA TokenStep ==
    ASSUME IInv, decompress_token
    PROVE  IInv'
  <1>1. /\ BufferType /\ ControlType /\ DecoderType /\ ModeOK /\ RingHoldsTail
        /\ mode = "TOKEN" /\ UNCHANGED resets
        /\ UNCHANGED <<streamVars, ringVars, remaining, copyVars>>
    BY TypeParts DEF IInv, decompress_token, At
  <1>2. BufferType'
    BY <1>1 DEF BufferType, streamVars
  <1>3. ASSUME NEW next \in {"DONE", "START_BLOCK"}, decompress_continue(next),
               UNCHANGED <<groupVars, reference>>
        PROVE  IInv'
    <2>1. ControlType' /\ mode' = next
      BY <1>1, <1>3, ContinueControl DEF decompress_continue, Mode
    <2>2. DecoderType'
      BY <1>1, <1>3 DEF DecoderType, ringVars, copyVars, groupVars
    <2>3. ModeOK' /\ RingHoldsTail'
      BY <1>1, <1>3, <2>1 DEF ModeOK, RingHoldsTail, ringVars, copyVars, streamVars
    <2> QED BY <1>2, <2>1, <2>2, <2>3 DEF IInv, TypeOK, StreamTypeOK,
            BufferType, ControlType, DecoderType
  <1>4. CASE /\ remaining # 0 /\ group_remaining # 0
             /\ group_bitmask' = NextToken(group_bitmask)
             /\ group_remaining' = group_remaining - 1
             /\ reference' = <<>>
             /\ decompress_continue(IF IsLiteral(group_bitmask)
                                    THEN "LITERAL" ELSE "REFERENCE")
    <2>1. ControlType' /\ mode' \in {"LITERAL", "REFERENCE"}
      BY <1>1, <1>4, ContinueControl DEF decompress_continue, Mode
    <2>2. NextToken(group_bitmask) \in Byte
      <3>1. group_bitmask * 2 \in Nat
        BY <1>1, RadixFacts DEF DecoderType, Byte
      <3> QED BY <3>1, RadixFacts, DivMod DEF NextToken, Byte
    <2>3. group_remaining - 1 \in 0 .. TOKENS_PER_BLOCK
      BY <1>1, <1>4, FormatAssumption DEF DecoderType
    <2>4. reference' \in Seq(Byte) /\ Len(reference') = 0
      BY <1>4
    <2>5. DecoderType'
      BY <1>1, <1>4, <2>2, <2>3, <2>4 DEF DecoderType, ringVars, copyVars
    <2>6. remaining' > 0 /\ ~ReferenceComplete(reference')
      BY <1>1, <1>4, <2>4 DEF DecoderType, ReferenceComplete
    <2>7. ModeOK' /\ RingHoldsTail'
      BY <1>1, <2>1, <2>4, <2>6
         DEF ModeOK, RingHoldsTail, ringVars, copyVars, streamVars
    <2> QED BY <1>2, <2>1, <2>5, <2>7 DEF IInv, TypeOK, StreamTypeOK,
            BufferType, ControlType, DecoderType
  <1> QED BY <1>3, <1>4 DEF decompress_token

LEMMA LiteralStep ==
    ASSUME IInv, decompress_literal
    PROVE  IInv'
  <1>1. /\ BufferType /\ ControlType /\ DecoderType /\ ModeOK /\ RingHoldsTail
        /\ mode = "LITERAL" /\ UNCHANGED resets
        /\ UNCHANGED <<groupVars, reference, copyVars>>
    BY TypeParts DEF IInv, decompress_literal, At
  <1>2. CASE /\ avail_in > 0 /\ avail_out > 0 /\ Read(1)
             /\ Emit(NextByte) /\ decompress_continue("TOKEN")
    <2>1. NextByte \in Byte
      BY <1>1, <1>2 DEF BufferType, NextByte
    <2>2. /\ out' = Append(out, NextByte) /\ out' \in Seq(Byte) /\ avail_out' \in Nat
          /\ history' \in [Slots -> Byte \cup {STALE}]
          /\ history_pos' = Len(out') /\ history_pos' \in Nat
          /\ remaining' = remaining - 1 /\ remaining' \in Nat
          /\ RingHoldsTail'
      <3>1. history_pos = Len(out) /\ remaining > 0
        BY <1>1 DEF ModeOK
      <3> QED BY <3>1, <1>1, <1>2, <2>1, EmitStep
    <2>3. BufferType'
      BY <1>1, <1>2, <2>2 DEF BufferType, Read
    <2>4. ControlType' /\ mode' = "TOKEN"
      BY <1>1, <1>2, ContinueControl DEF decompress_continue, Mode
    <2>5. DecoderType'
      BY <1>1, <2>2 DEF DecoderType, groupVars, copyVars
    <2>6. ModeOK'
      BY <1>1, <2>2, <2>4 DEF ModeOK, copyVars
    <2> QED BY <2>2, <2>3, <2>4, <2>5, <2>6 DEF IInv, TypeOK, StreamTypeOK,
            BufferType, ControlType, DecoderType
  <1>3. CASE /\ UNCHANGED <<input, total_in, avail_in>> /\ NoEmit
             /\ Starved \/ decompress_suspend
    <2>1. BufferType' /\ DecoderType'
      BY <1>1, <1>3 DEF BufferType, DecoderType, NoEmit, ringVars, copyVars, groupVars
    <2>2. /\ ControlType' /\ mode' \in {"LITERAL", "ERROR"}
          /\ mode' = "ERROR" => error' = "TRUNCATED"
      BY <1>1, <1>3, StarvedControl, SuspendControl
    <2>3. ModeOK' /\ RingHoldsTail'
      BY <1>1, <1>3, <2>2 DEF ModeOK, RingHoldsTail, NoEmit, ringVars, copyVars
    <2> QED BY <2>1, <2>2, <2>3 DEF IInv, TypeOK, StreamTypeOK,
            BufferType, ControlType, DecoderType
  <1> QED BY <1>2, <1>3 DEF decompress_literal

LEMMA ReferenceStep ==
    ASSUME IInv, decompress_reference
    PROVE  IInv'
  <1> DEFINE distance == ReferenceDistance(reference')
             length   == ReferenceLength(reference')
  <1>1. /\ BufferType /\ ControlType /\ DecoderType /\ ModeOK /\ RingHoldsTail
        /\ mode = "REFERENCE" /\ UNCHANGED resets
        /\ UNCHANGED <<out, ringVars, remaining, groupVars>>
    BY TypeParts DEF IInv, decompress_reference, At
  <1>2. CASE /\ UNCHANGED <<input, total_in, avail_in, avail_out, reference, copyVars>>
             /\ Starved
    <2>1. BufferType' /\ DecoderType'
      BY <1>1, <1>2 DEF BufferType, DecoderType, ringVars, copyVars, groupVars
    <2>2. /\ ControlType' /\ mode' \in {"REFERENCE", "ERROR"}
          /\ mode' = "ERROR" => error' = "TRUNCATED"
      BY <1>1, <1>2, StarvedControl
    <2>3. ModeOK' /\ RingHoldsTail'
      BY <1>1, <1>2, <2>2 DEF ModeOK, RingHoldsTail, ringVars, copyVars
    <2> QED BY <2>1, <2>2, <2>3 DEF IInv, TypeOK, StreamTypeOK,
            BufferType, ControlType, DecoderType
  <1>3. ASSUME avail_in > 0, Read(1), reference' = Append(reference, NextByte),
               UNCHANGED avail_out
        PROVE  BufferType' /\ reference' \in Seq(Byte) /\ Len(reference') <= 3
    BY <1>1, <1>3 DEF BufferType, DecoderType, ModeOK, Read, NextByte
  <1>4. CASE /\ avail_in > 0 /\ Read(1) /\ reference' = Append(reference, NextByte)
             /\ UNCHANGED avail_out
             /\ ~ReferenceComplete(reference')
             /\ decompress_continue("REFERENCE") /\ UNCHANGED copyVars
    <2>1. ControlType' /\ mode' = "REFERENCE"
      BY <1>1, <1>4, ContinueControl DEF decompress_continue, Mode
    <2>2. DecoderType'
      BY <1>1, <1>3, <1>4 DEF DecoderType, ringVars, copyVars, groupVars
    <2>3. Len(reference') < 3
      BY <1>3, <1>4 DEF ReferenceComplete
    <2>4. ModeOK' /\ RingHoldsTail'
      BY <1>1, <1>4, <2>1, <2>3 DEF ModeOK, RingHoldsTail, ringVars, copyVars
    <2> QED BY <1>3, <1>4, <2>1, <2>2, <2>4 DEF IInv, TypeOK, StreamTypeOK,
            BufferType, ControlType, DecoderType
  <1>5. CASE /\ avail_in > 0 /\ Read(1) /\ reference' = Append(reference, NextByte)
             /\ UNCHANGED avail_out
             /\ decompress_error("DATA_ERROR") /\ UNCHANGED copyVars
    <2>1. ControlType' /\ mode' = "ERROR" /\ error' = "DATA_ERROR"
      BY <1>1, <1>5, ErrorControl DEF decompress_error, Result
    <2>2. DecoderType'
      BY <1>1, <1>3, <1>5 DEF DecoderType, ringVars, copyVars, groupVars
    <2>3. ModeOK' /\ RingHoldsTail'
      BY <1>1, <1>5, <2>1 DEF ModeOK, RingHoldsTail, ringVars, copyVars
    <2> QED BY <1>3, <1>5, <2>1, <2>2, <2>3 DEF IInv, TypeOK, StreamTypeOK,
            BufferType, ControlType, DecoderType
  <1>6. CASE /\ avail_in > 0 /\ Read(1) /\ reference' = Append(reference, NextByte)
             /\ UNCHANGED avail_out
             /\ ReferenceComplete(reference')
             /\ ~BadReference(distance, length)
             /\ copy_distance' = distance /\ copy_length' = length
             /\ decompress_continue("COPY")
    <2>1. ControlType' /\ mode' = "COPY"
      BY <1>1, <1>6, ContinueControl DEF decompress_continue, Mode
    <2>2. distance \in 1 .. MAX_DISTANCE /\ length \in Nat
      BY <1>3, <1>6, ReferenceInRange, DecompressorAssumption
    <2> HIDE DEF distance, length
    <2>3. DecoderType'
      BY <1>1, <1>3, <1>6, <2>2, RingFacts DEF DecoderType, ringVars, groupVars
    <2>4. history_pos = Len(out) /\ history_pos \in Nat
      BY <1>1 DEF ModeOK, DecoderType
    <2>5. copy_distance' \in 1 .. Len(out') /\ copy_length' <= remaining'
      <3>1. distance <= history_pos /\ length <= remaining
        BY <1>1, <1>6, <2>2, <2>4 DEF DecoderType
      <3> QED BY <1>1, <1>6, <2>2, <2>4, <3>1, RingFacts
    <2>6. ModeOK' /\ RingHoldsTail'
      BY <1>1, <2>1, <2>4, <2>5 DEF ModeOK, RingHoldsTail, ringVars
    <2> QED BY <1>3, <1>6, <2>1, <2>3, <2>6 DEF IInv, TypeOK, StreamTypeOK,
            BufferType, ControlType, DecoderType
  <1> QED BY <1>2, <1>4, <1>5, <1>6 DEF decompress_reference

\* The byte a copy takes from the ring is the one `copy_distance` back.
LEMMA RingCopies ==
    ASSUME IInv, mode = "COPY"
    PROVE  LET b == history[(history_pos - copy_distance) % MAX_DISTANCE]
           IN  b = out[Len(out) + 1 - copy_distance] /\ b \in Byte
  <1> DEFINE i == Len(out) + 1 - copy_distance
  <1>1. /\ Len(out) \in Nat /\ history_pos = Len(out) /\ out \in Seq(Byte)
        /\ copy_distance \in 1 .. Len(out) /\ copy_distance <= MAX_DISTANCE
    BY RingFacts DEF IInv, TypeOK, StreamTypeOK, ModeOK
  <1>2. i \in 1 .. Len(out) /\ i > Len(out) - MAX_DISTANCE
        /\ i - 1 = history_pos - copy_distance
    BY <1>1, RingFacts
  <1>3. history[(i - 1) % MAX_DISTANCE] = out[i]
    BY <1>2 DEF IInv, RingHoldsTail
  <1>4. out[i] \in Byte
    BY <1>1, <1>2
  <1> QED BY <1>2, <1>3, <1>4

LEMMA CopyStep ==
    ASSUME IInv, decompress_copy
    PROVE  IInv'
  <1> DEFINE b == history[(history_pos - copy_distance) % MAX_DISTANCE]
  <1>1. /\ BufferType /\ ControlType /\ DecoderType /\ ModeOK /\ RingHoldsTail
        /\ mode = "COPY" /\ UNCHANGED resets
        /\ UNCHANGED <<groupVars, reference, copy_distance>>
    BY TypeParts DEF IInv, decompress_copy, At
  <1>2. b = out[Len(out) + 1 - copy_distance] /\ b \in Byte
    BY <1>1, RingCopies
  <1>3. CASE /\ copy_length > 0 /\ avail_out > 0 /\ Emit(b)
             /\ copy_length' = copy_length - 1
             /\ decompress_continue("COPY")
             /\ UNCHANGED <<input, total_in, avail_in>>
    <2> HIDE DEF b
    <2>1. /\ out' = Append(out, b) /\ out' \in Seq(Byte) /\ avail_out' \in Nat
          /\ history' \in [Slots -> Byte \cup {STALE}]
          /\ history_pos' = Len(out') /\ history_pos' \in Nat
          /\ remaining' = remaining - 1 /\ remaining' \in Nat
          /\ RingHoldsTail'
      <3>1. history_pos = Len(out) /\ remaining > 0
        BY <1>1, <1>3 DEF ModeOK, DecoderType
      <3> QED BY <3>1, <1>1, <1>2, <1>3, EmitStep
    <2>2. BufferType'
      BY <1>1, <1>3, <2>1 DEF BufferType
    <2>3. ControlType' /\ mode' = "COPY"
      BY <1>1, <1>3, ContinueControl DEF decompress_continue, Mode
    <2>4. DecoderType'
      BY <1>1, <1>3, <2>1 DEF DecoderType, groupVars
    <2>5. Len(out') = Len(out) + 1
      BY <1>1, <2>1 DEF BufferType
    <2>6. ModeOK'
      BY <1>1, <1>3, <2>1, <2>3, <2>5 DEF ModeOK, DecoderType, BufferType
    <2> QED BY <2>1, <2>2, <2>3, <2>4, <2>6 DEF IInv, TypeOK, StreamTypeOK,
            BufferType, ControlType, DecoderType
  <1>4. CASE /\ UNCHANGED <<streamVars, ringVars, remaining, copy_length>>
             /\ \/ decompress_suspend
                \/ copy_length = 0 /\ decompress_continue("TOKEN")
    <2>1. BufferType' /\ DecoderType'
      BY <1>1, <1>4 DEF BufferType, DecoderType, streamVars, ringVars, groupVars
    <2>2. /\ ControlType' /\ mode' \in {"COPY", "TOKEN"}
          /\ mode' = "TOKEN" => copy_length = 0
      BY <1>1, <1>4, ContinueControl, SuspendControl DEF decompress_continue, Mode
    <2>3. ModeOK' /\ RingHoldsTail'
      BY <1>1, <1>4, <2>2 DEF ModeOK, RingHoldsTail, ringVars, streamVars
    <2> QED BY <2>1, <2>2, <2>3 DEF IInv, TypeOK, StreamTypeOK,
            BufferType, ControlType, DecoderType
  <1> QED BY <1>3, <1>4 DEF decompress_copy

LEMMA SettledStep ==
    ASSUME IInv, Settled
    PROVE  IInv'
  <1> USE DEF Settled, At
  <1>1. BufferType' /\ DecoderType'
    BY TypeParts DEF IInv, BufferType, DecoderType, streamVars, ringVars, groupVars,
       copyVars
  <1>2. ControlType'
    <2>1. PICK code \in Result : Return(code) /\ UNCHANGED <<mode, error>>
      BY TypeParts DEF IInv, ControlType, Result
    <2> QED BY <2>1, TypeParts DEF IInv, ControlType, Return
  <1>3. ModeOK' /\ RingHoldsTail'
    BY DEF IInv, ModeOK, RingHoldsTail, ringVars, copyVars, streamVars
  <1> QED BY <1>1, <1>2, <1>3 DEF IInv, TypeOK, StreamTypeOK,
          BufferType, ControlType, DecoderType

-----------------------------------------------------------------------------
(* The inductive invariant. *)

LEMMA InitIInv == Init => IInv
  <1> SUFFICES ASSUME Init PROVE IInv
    OBVIOUS
  <1>1. BufferType
    BY StreamAssumption DEF Init, StreamInit, BufferType
  <1>2. ControlType
    BY DEF Init, StreamInit, ControlType, Mode, Result
  <1>3. DecoderType
    BY RadixFacts, FormatAssumption, RingFacts, DecompressorAssumption
       DEF Init, DecoderType, Byte
  <1>4. ModeOK /\ RingHoldsTail
    BY RingFacts DEF Init, StreamInit, ModeOK, RingHoldsTail, HEADER_SIZE, Slots
  <1> QED BY <1>1, <1>2, <1>3, <1>4, TypeParts DEF IInv

LEMMA NextIInv == IInv /\ [Next]_vars => IInv'
  <1> SUFFICES ASSUME IInv, [Next]_vars PROVE IInv'
    OBVIOUS
  <1>1. CASE Call
    BY <1>1, CallStep
  <1>2. CASE yaz0_decompress
    BY <1>2, HeaderStep, StartBlockStep, TokenStep, LiteralStep, ReferenceStep,
       CopyStep, SettledStep DEF yaz0_decompress
  <1>3. CASE yaz0_decompress_reset
    BY <1>3, ResetStep
  <1>4. CASE UNCHANGED vars
    BY <1>4 DEF IInv, TypeOK, StreamTypeOK, ModeOK, RingHoldsTail, vars, streamVars,
       callVars, ringVars, groupVars, copyVars
  <1> QED BY <1>1, <1>2, <1>3, <1>4 DEF Next

LEMMA AlwaysIInv == Spec => []IInv
  BY InitIInv, NextIInv, PTL DEF Spec

(***************************************************************************)
(* Every variable keeps its type under any sequence of calls, whatever the *)
(* input: in particular no byte of the ring that was never written, or     *)
(* that a reset left behind, reaches the caller.                           *)
(***************************************************************************)
THEOREM TypeCorrect == Spec => []TypeOK
  <1>1. IInv => TypeOK
    BY DEF IInv
  <1> QED BY <1>1, AlwaysIInv, PTL

(***************************************************************************)
(* A slot of the ring that a copy may read holds the byte of the output    *)
(* that lies that many places back, for every ring size and every way the  *)
(* output is interrupted (decompress.c: decompress_literal,                *)
(* decompress_copy).                                                       *)
(***************************************************************************)
THEOREM RingCorrect == Spec => []RingHoldsTail
  <1>1. IInv => RingHoldsTail
    BY DEF IInv
  <1> QED BY <1>1, AlwaysIInv, PTL

(***************************************************************************)
(* Control never reaches a handler with state it cannot handle: a pair is  *)
(* never read past its last byte, a copy has its source in the output and  *)
(* never outgrows what is owed.                                            *)
(***************************************************************************)
THEOREM ControlCorrect == Spec => []ModeOK
  <1>1. IInv => ModeOK
    BY DEF IInv
  <1> QED BY <1>1, AlwaysIInv, PTL

-----------------------------------------------------------------------------
(* Suspended calls. *)

LEMMA StarvedExhausted ==
    ASSUME Starved, avail_in' = 0
    PROVE  SuspendedMeansExhausted'
  BY DEF Starved, decompress_error, decompress_suspend, Suspend, Return,
         SuspendedMeansExhausted

LEMMA NextExhausted ==
    ASSUME IInv, SuspendedMeansExhausted, [Next]_vars
    PROVE  SuspendedMeansExhausted'
  <1> USE DEF SuspendedMeansExhausted
  <1>0. avail_in \in Nat /\ avail_out \in Nat
    BY DEF IInv, TypeOK, StreamTypeOK
  <1>1. CASE Call
    BY <1>1 DEF Call, Enter
  <1>2. CASE yaz0_decompress_reset
    BY <1>2 DEF yaz0_decompress_reset
  <1>3. CASE UNCHANGED vars
    BY <1>3 DEF vars, streamVars, callVars
  <1>4. ASSUME running, NEW next, decompress_continue(next)
        PROVE  SuspendedMeansExhausted'
    BY <1>4 DEF decompress_continue, callVars
  <1>5. ASSUME NEW code \in {"DATA_ERROR", "BAD_HEADER"}, decompress_error(code)
        PROVE  SuspendedMeansExhausted'
    BY <1>5 DEF decompress_error, Return
  <1>6. ASSUME decompress_header
        PROVE  SuspendedMeansExhausted'
    <2> DEFINE have == Least(HEADER_SIZE - history_pos, avail_in)
    <2>1. history_pos + have < HEADER_SIZE => have = avail_in
      BY <1>6 DEF IInv, TypeOK, StreamTypeOK, ModeOK, decompress_header, At, Least,
         HEADER_SIZE
    <2>2. Read(have) => avail_in' = avail_in - have
      BY DEF Read
    <2>3. avail_in \in Nat
      BY DEF IInv, TypeOK, StreamTypeOK
    <2> HIDE DEF have
    <2>4. CASE history_pos + have < HEADER_SIZE /\ Read(have) /\ Starved
      BY <2>1, <2>2, <2>3, <2>4, StarvedExhausted
    <2> QED BY <1>4, <1>5, <1>6, <2>4 DEF decompress_header, At, have
  <1>7. ASSUME decompress_start_block
        PROVE  SuspendedMeansExhausted'
    BY <1>0, <1>4, <1>7, StarvedExhausted DEF decompress_start_block, At
  <1>8. ASSUME decompress_token
        PROVE  SuspendedMeansExhausted'
    BY <1>4, <1>8 DEF decompress_token, At
  <1>9. ASSUME decompress_literal
        PROVE  SuspendedMeansExhausted'
    BY <1>0, <1>4, <1>9, StarvedExhausted DEF decompress_literal, At, NoEmit
  <1>10. ASSUME decompress_reference
         PROVE  SuspendedMeansExhausted'
    BY <1>0, <1>4, <1>5, <1>10, StarvedExhausted DEF decompress_reference, At
  <1>11. ASSUME decompress_copy
         PROVE  SuspendedMeansExhausted'
    BY <1>0, <1>4, <1>11 DEF decompress_copy, At, streamVars
  <1>12. ASSUME Settled
         PROVE  SuspendedMeansExhausted'
    BY <1>12 DEF Settled, At, Return, IInv, ModeOK
  <1> QED BY <1>1, <1>2, <1>3, <1>6, <1>7, <1>8, <1>9, <1>10, <1>11, <1>12
          DEF Next, yaz0_decompress

(***************************************************************************)
(* yaz0_decompress never hands back control with both input left to read   *)
(* and room left to write unless the stream is settled: a caller that      *)
(* refills whichever buffer ran out always makes progress.                 *)
(***************************************************************************)
THEOREM SuspendedCorrect == Spec => []SuspendedMeansExhausted
  <1>1. Init => SuspendedMeansExhausted
    BY DEF Init, StreamInit, SuspendedMeansExhausted
  <1>2. IInv /\ SuspendedMeansExhausted /\ [Next]_vars => SuspendedMeansExhausted'
    BY NextExhausted
  <1> QED BY <1>1, <1>2, AlwaysIInv, PTL DEF Spec

-----------------------------------------------------------------------------
(* Refinement of Lz77. *)

LEMMA StutterRefines ==
    ASSUME UNCHANGED <<out, remaining, copyVars>>
    PROVE  [Abstract!Next]_(Abstract!vars)
  BY DEF Abstract!vars, copyVars

LEMMA HeaderRefines ==
    ASSUME IInv, IInv', decompress_header
    PROVE  [Abstract!Next]_(Abstract!vars)
  <1>1. out = <<>> /\ remaining = 0 /\ UNCHANGED <<out, copyVars>>
    BY DEF IInv, ModeOK, decompress_header, At
  <1>2. Len(out) + remaining = 0
    BY <1>1
  <1>3. Len(out') \in Nat /\ remaining' \in Nat
    BY DEF IInv, TypeOK, StreamTypeOK
  <1>4. Len(out') + remaining' \in Nat
    BY <1>3
  <1>5. Abstract!Header
    BY <1>1, <1>2, <1>4 DEF Abstract!Header, copyVars
  <1> QED BY <1>5 DEF Abstract!Next

LEMMA LiteralRefines ==
    ASSUME IInv, decompress_literal
    PROVE  [Abstract!Next]_(Abstract!vars)
  <1>1. /\ out \in Seq(Byte) /\ remaining \in Nat /\ remaining > 0
        /\ copy_length = 0 /\ UNCHANGED copyVars
    BY DEF IInv, TypeOK, StreamTypeOK, ModeOK, decompress_literal, At
  <1>2. CASE avail_in > 0 /\ Emit(NextByte)
    <2>1. out' = Append(out, NextByte) /\ remaining' = remaining - 1
          /\ Len(out') = Len(out) + 1 /\ Len(out) \in Nat /\ NextByte \in Byte
      BY <1>1, <1>2, InputByte DEF IInv, TypeOK, Emit, WriteByte
    <2>2. Len(out') + remaining' = Len(out) + remaining
          /\ Len(out) < Len(out) + remaining
      BY <1>1, <2>1
    <2>3. Abstract!Literal
      BY <1>1, <2>1, <2>2 DEF Abstract!Literal, copyVars
    <2> QED BY <2>3 DEF Abstract!Next
  <1>3. CASE NoEmit
    BY <1>1, <1>3, StutterRefines DEF NoEmit
  <1> QED BY <1>2, <1>3 DEF decompress_literal

LEMMA ReferenceRefines ==
    ASSUME IInv, IInv', decompress_reference
    PROVE  [Abstract!Next]_(Abstract!vars)
  <1>1. /\ out \in Seq(Byte) /\ Len(out) \in Nat /\ remaining \in Nat
        /\ copy_length = 0 /\ UNCHANGED <<out, remaining>>
        /\ history_pos = Len(out)
    BY DEF IInv, TypeOK, StreamTypeOK, ModeOK, decompress_reference, At
  <1>2. CASE UNCHANGED copyVars
    BY <1>1, <1>2, StutterRefines
  <1>3. CASE /\ ReferenceComplete(reference')
             /\ ~BadReference(ReferenceDistance(reference'), ReferenceLength(reference'))
             /\ copy_distance' = ReferenceDistance(reference')
             /\ copy_length' = ReferenceLength(reference')
    <2>1. reference' \in Seq(Byte)
      BY DEF IInv, TypeOK
    <2>2. copy_distance' \in 1 .. MAX_DISTANCE /\ copy_length' \in Nat
          /\ copy_length' >= MIN_MATCH
      BY <1>3, <2>1, ReferenceInRange, DecompressorAssumption
    <2>3. copy_distance' <= Len(out) /\ copy_length' <= remaining
      BY <1>1, <1>3, <2>2
    <2>4. copy_length' \in MIN_MATCH .. Len(out) + remaining - Len(out)
      BY <1>1, <2>2, <2>3 DEF MIN_MATCH
    <2>5. Abstract!Reference
      BY <1>1, <2>2, <2>3, <2>4 DEF Abstract!Reference
    <2> QED BY <2>5 DEF Abstract!Next
  <1> QED BY <1>2, <1>3 DEF decompress_reference

LEMMA CopyRefines ==
    ASSUME IInv, decompress_copy
    PROVE  [Abstract!Next]_(Abstract!vars)
  <1>1. /\ out \in Seq(Byte) /\ Len(out) \in Nat /\ remaining \in Nat
        /\ copy_length \in Nat /\ copy_length <= remaining
        /\ UNCHANGED copy_distance
    BY DEF IInv, TypeOK, StreamTypeOK, ModeOK, decompress_copy, At
  <1>2. CASE /\ copy_length > 0
             /\ Emit(history[(history_pos - copy_distance) % MAX_DISTANCE])
             /\ copy_length' = copy_length - 1
    <2>1. mode = "COPY"
      BY DEF decompress_copy, At
    <2>2. history[(history_pos - copy_distance) % MAX_DISTANCE]
            = out[Len(out) + 1 - copy_distance]
      BY <2>1, RingCopies
    <2>3. out' = Append(out, out[Len(out) + 1 - copy_distance])
          /\ remaining' = remaining - 1
      BY <1>2, <2>2 DEF Emit, WriteByte
    <2>4. Len(out') = Len(out) + 1
      BY <1>1, <2>3
    <2>5. Len(out') + remaining' = Len(out) + remaining
      BY <1>1, <2>3, <2>4
    <2>6. Abstract!Copy
      BY <1>1, <1>2, <2>3, <2>5 DEF Abstract!Copy
    <2> QED BY <2>6 DEF Abstract!Next
  <1>3. CASE UNCHANGED <<out, remaining, copy_length>>
    BY <1>1, <1>3, StutterRefines DEF copyVars
  <1> QED BY <1>2, <1>3 DEF decompress_copy, streamVars

LEMMA NextRefines ==
    ASSUME IInv, IInv', [Next]_vars
    PROVE  [Abstract!Next]_(Abstract!vars)
  <1>1. CASE Call
    BY <1>1, StutterRefines DEF Call, Enter
  <1>2. CASE yaz0_decompress_reset
    <2>1. Len(out') + remaining' = 0
      BY <1>2 DEF yaz0_decompress_reset
    <2>2. Abstract!Restart
      BY <1>2, <2>1 DEF yaz0_decompress_reset, Abstract!Restart
    <2> QED BY <2>2 DEF Abstract!Next
  <1>3. CASE decompress_start_block
    BY <1>3, StutterRefines DEF decompress_start_block
  <1>4. CASE decompress_token
    BY <1>4, StutterRefines DEF decompress_token, streamVars
  <1>5. CASE Settled
    BY <1>5, StutterRefines DEF Settled, streamVars
  <1>6. CASE UNCHANGED vars
    BY <1>6, StutterRefines DEF vars, streamVars
  <1> QED BY <1>1, <1>2, <1>3, <1>4, <1>5, <1>6, HeaderRefines, LiteralRefines,
             ReferenceRefines, CopyRefines DEF Next, yaz0_decompress

(***************************************************************************)
(* The decompressor implements the decoder that remembers its whole        *)
(* output: suspended calls, the ring and resets add no behaviour of their  *)
(* own, and each byte it delivers is the literal, or the byte `distance`   *)
(* back, that the format says it is.                                       *)
(***************************************************************************)
THEOREM Refinement == Spec => DecodesLz77
  <1>1. Init => Abstract!Init
    BY DEF Init, StreamInit, Abstract!Init
  <1>2. IInv /\ IInv' /\ [Next]_vars => [Abstract!Next]_(Abstract!vars)
    BY NextRefines
  <1> QED BY <1>1, <1>2, AlwaysIInv, PTL DEF Spec, DecodesLz77, Abstract!Spec


-----------------------------------------------------------------------------
(***************************************************************************)
(* What becomes of an input, in whatever pieces it comes.  The decoder     *)
(* follows the trail of the reference decoder: between tokens it stands at *)
(* one of its places, inside a token it is on the way from one to the      *)
(* next, and it settles where the reference does.                          *)
(***************************************************************************)

\* The tokens left in the group behind `index` of them, and their bits.
GroupIs(index, bits) ==
    /\ group_remaining = TOKENS_PER_BLOCK - index
    /\ group_bitmask * Weight(index) = Radix * bits

\* A place whose output is what has been delivered.
Stands(s) == InTrail(input, s) /\ s.code = "OK" /\ s.out = out

OnLiteral(s) ==
    /\ s.used = total_in /\ s.index < TOKENS_PER_BLOCK
    /\ s.bits >= CodeBit(s.index) /\ GroupIs(s.index + 1, s.bits - CodeBit(s.index))

OnPair(s) ==
    /\ s.index < TOKENS_PER_BLOCK
    /\ s.bits < CodeBit(s.index) /\ GroupIs(s.index + 1, s.bits)
    /\ total_in = s.used + Len(reference)
    /\ \A k \in 1 .. Len(reference) : reference[k] = input[s.used + k]

\* What is still to be copied is the rest of the output of place s.
OnCopy(s) ==
    /\ InTrail(input, s) /\ s.code = "OK" /\ s.used = total_in
    /\ GroupIs(s.index, s.bits)
    /\ Len(s.out) = Len(out) + copy_length
    /\ \A i \in 1 .. Len(out) : s.out[i] = out[i]
    /\ \A i \in Len(out) + 1 .. Len(s.out) : s.out[i] = s.out[i - copy_distance]

SettledAs(code) ==
    \E s : InTrail(input, s) /\ s.code = code /\ s.out = out /\ s.used = total_in

Decoding == mode \in {"START_BLOCK", "TOKEN", "LITERAL", "REFERENCE", "COPY"}

\* Where on the trail the decoder is.
Tracks ==
    /\ mode = "HEADER" =>
          /\ total_in = history_pos
          /\ \A slot \in Slots : slot < history_pos => history[slot] = input[slot + 1]
    /\ Decoding => Len(out) + remaining = RefSize(input)
    /\ mode = "START_BLOCK" =>
          /\ remaining > 0
          /\ \E s : Stands(s) /\ s.used = total_in /\ s.index = TOKENS_PER_BLOCK
    /\ mode = "TOKEN" =>
          \E s : Stands(s) /\ s.used = total_in /\ GroupIs(s.index, s.bits)
    /\ mode = "LITERAL"   => \E s : Stands(s) /\ OnLiteral(s)
    /\ mode = "REFERENCE" => \E s : Stands(s) /\ OnPair(s)
    /\ mode = "COPY"      => \E s : OnCopy(s)
    /\ mode = "ERROR"     => SettledAs(error)
    /\ mode = "DONE"      => SettledAs("STREAM_END")

\* A call with FINISH has all the rest of the input before it.
Finishing == running /\ flush = "FINISH" => total_in + avail_in = Len(input)

\* What is reported is how the stream has settled.
Answered ==
    ~running => result \in CASE mode = "DONE"  -> {"STREAM_END"}
                             [] mode = "ERROR" -> {error}
                             [] OTHER          -> {"OK", "BUFFER_ERROR"}

FInv == IInv /\ Finishing /\ Answered /\ Tracks

LEMMA TracksKept ==
    ASSUME Tracks, UNCHANGED <<input, total_in, out, mode, error, ringVars, remaining,
                               groupVars, reference, copyVars>>
    PROVE  Tracks'
  BY DEF Tracks, Decoding, Stands, OnLiteral, OnPair, OnCopy, SettledAs, GroupIs,
         ringVars, groupVars, copyVars

\* Starved of input the decoder waits, unless that was all of it.
LEMMA StarvedWaits ==
    ASSUME IInv, Finishing, running, Starved, avail_in = 0
    PROVE  \/ decompress_suspend
           \/ total_in = Len(input) /\ decompress_error("TRUNCATED")
  <1>1. total_in \in Nat /\ avail_in \in Nat
    BY DEF IInv, TypeOK, StreamTypeOK
  <1> QED BY <1>1 DEF Starved, Finishing

\* What is known of a place, and of the one after it.
LEMMA TrailPlace ==
    ASSUME NEW bytes \in Seq(Byte), NEW s, InTrail(bytes, s)
    PROVE  /\ RefSound(bytes, s) /\ s \in RefPlace
           /\ s.out \in Seq(Byte) /\ Len(s.out) \in Nat /\ s.used \in Nat
           /\ s.index \in 0 .. TOKENS_PER_BLOCK /\ s.bits \in Nat
           /\ s.used <= Len(bytes)
           /\ InTrail(bytes, RefTurn(bytes, s)) /\ RefSound(bytes, RefTurn(bytes, s))
  <1>1. RefSound(bytes, s) /\ InTrail(bytes, RefTurn(bytes, s))
    BY TrailEnds, TrailMembers
  <1>2. RefSound(bytes, RefTurn(bytes, s))
    BY <1>1, TrailEnds
  <1>3. s \in RefPlace /\ s.used <= Len(bytes)
    BY <1>1 DEF RefSound
  <1> QED BY <1>1, <1>2, <1>3, PlaceFields

\* Where the reference stops next, there is a place to settle at.
LEMMA TurnStops ==
    ASSUME NEW bytes \in Seq(Byte), NEW s, InTrail(bytes, s), NEW used \in Nat,
           NEW code \in RefCode, RefTurn(bytes, s) = Stopped(s, used, code)
    PROVE  \E t : InTrail(bytes, t) /\ t.code = code /\ t.out = s.out /\ t.used = used
  <1> DEFINE t == Stopped(s, used, code)
  <1>1. s \in RefPlace /\ InTrail(bytes, RefTurn(bytes, s))
    BY TrailPlace
  <1>2. t.out = s.out /\ t.used = used /\ t.code = code
    BY <1>1, PlaceStopped
  <1> HIDE DEF t
  <1>3. InTrail(bytes, t)
    BY <1>1 DEF t
  <1> QED BY <1>2, <1>3

\* The end of the input where a code byte or a token must begin.
LEMMA EndsHere ==
    ASSUME BufferType, NEW s, Stands(s), s.used = total_in, total_in = Len(input),
           Len(out) # RefSize(input), decompress_error("TRUNCATED"),
           UNCHANGED <<input, total_in, out>>
    PROVE  Tracks'
  <1>1. InTrail(input, s) /\ s.out = out /\ s.code = "OK"
    BY DEF Stands
  <1>2. RefTurn(input, s) = Stopped(s, total_in, "TRUNCATED")
    BY <1>1 DEF RefTurn
  <1>3. input \in Seq(Byte) /\ total_in \in Nat
    BY DEF BufferType
  <1>4. \E t : InTrail(input, t) /\ t.code = "TRUNCATED" /\ t.out = s.out /\ t.used = total_in
    BY <1>1, <1>2, <1>3, TurnStops, RefCodes
  <1>5. mode' = "ERROR" /\ error' = "TRUNCATED"
    BY DEF decompress_error
  <1>6. SettledAs("TRUNCATED")'
    BY <1>1, <1>4 DEF SettledAs
  <1> QED BY <1>5, <1>6 DEF Tracks, Decoding

LEMMA HeaderTracks ==
    ASSUME FInv, decompress_header
    PROVE  Tracks'
  <1> DEFINE have == Least(HEADER_SIZE - history_pos, avail_in)
             read == [slot \in Slots |->
                        IF slot \in history_pos .. history_pos + have - 1
                        THEN input[total_in + 1 + slot - history_pos]
                        ELSE history[slot]]
             size == read_be32(read[1], read[2])
  <1> USE DEF HEADER_SIZE
  <1>1. /\ BufferType /\ DecoderType /\ mode = "HEADER" /\ running /\ out = <<>>
        /\ total_in = history_pos /\ Finishing
        /\ \A slot \in Slots : slot < history_pos => history[slot] = input[slot + 1]
        /\ history_pos < 3
    BY TypeParts DEF FInv, IInv, ModeOK, decompress_header, At, Tracks
  <1>2. /\ history_pos \in 0 .. 2 /\ have \in 0 .. 3 - history_pos /\ have <= avail_in
        /\ history_pos + have < 3 => have = avail_in
        /\ total_in \in Nat /\ avail_in \in Nat /\ Len(input) \in Nat
        /\ total_in + avail_in <= Len(input) /\ input \in Seq(Byte)
    BY <1>1 DEF BufferType, DecoderType, Least
  <1>3. /\ input' = input /\ total_in' = total_in + have /\ avail_in' = avail_in - have
        /\ history' = read /\ out' = <<>>
    BY <1>1 DEF decompress_header, Read
  <1> HIDE DEF have
  <1>4. \A slot \in Slots : slot < history_pos + have => read[slot] = input[slot + 1]
    <2> SUFFICES ASSUME NEW slot \in Slots, slot < history_pos + have
                 PROVE  read[slot] = input[slot + 1]
      OBVIOUS
    <2>1. slot \in Nat
      BY RingFacts DEF Slots
    <2>2. CASE slot < history_pos
      BY <1>1, <1>2, <2>1, <2>2
    <2>3. CASE slot >= history_pos
      <3>1. slot \in history_pos .. history_pos + have - 1
            /\ total_in + 1 + slot - history_pos = slot + 1
        BY <1>1, <1>2, <2>1, <2>3
      <3> QED BY <3>1
    <2> QED BY <1>2, <2>1, <2>2, <2>3
  <1>5. history_pos + have = 3 => read[0] = input[1] /\ size = RefSize(input)
    <2> HIDE DEF read
    <2>1. ASSUME history_pos + have = 3
          PROVE  read[0] = input[1] /\ read[1] = input[2] /\ read[2] = input[3]
      BY <1>4, <2>1, RingFacts
    <2> QED BY <2>1 DEF RefSize
  <1> HIDE DEF read, size
  <1>6. PICK s : s = RefHeader(input) /\ InTrail(input, s)
    BY <1>2, TrailMembers
  <1>7. CASE /\ history_pos + have < 3
             /\ history_pos' = history_pos + have
             /\ Starved
    <2>1. CASE flush # "FINISH"
      <3>1. mode' = "HEADER"
        BY <1>1, <1>7, <2>1 DEF Starved, decompress_suspend
      <3>2. total_in' = history_pos'
        BY <1>1, <1>3, <1>7
      <3>3. \A slot \in Slots : slot < history_pos' => history'[slot] = input'[slot + 1]
        BY <1>3, <1>4, <1>7
      <3> QED BY <3>1, <3>2, <3>3 DEF Tracks, Decoding
    <2>2. CASE flush = "FINISH"
      <3>1. mode' = "ERROR" /\ error' = "TRUNCATED"
        BY <1>7, <2>2 DEF Starved, decompress_error
      <3>2. total_in' = Len(input) /\ Len(input) < 3
        BY <1>1, <1>2, <1>3, <1>7, <2>2 DEF Finishing
      <3>3. s = Place(<<>>, Len(input), TOKENS_PER_BLOCK, 0, "TRUNCATED")
        BY <1>6, <3>2 DEF RefHeader
      <3>4. s.code = "TRUNCATED" /\ s.out = <<>> /\ s.used = Len(input)
        BY <3>3 DEF Place
      <3>5. SettledAs("TRUNCATED")'
        BY <1>3, <1>6, <3>2, <3>4 DEF SettledAs
      <3> QED BY <3>1, <3>5 DEF Tracks, Decoding
    <2> QED BY <2>1, <2>2
  <1>8. history_pos + have = 3 => total_in' = 3 /\ ~(Len(input) < 3)
    BY <1>1, <1>2, <1>3
  <1>9. CASE /\ history_pos + have = 3 /\ read[0] # MAGIC
             /\ decompress_error("BAD_HEADER")
    <2>1. mode' = "ERROR" /\ error' = "BAD_HEADER"
      BY <1>9 DEF decompress_error
    <2>2. s = Place(<<>>, 3, TOKENS_PER_BLOCK, 0, "BAD_HEADER")
      BY <1>5, <1>6, <1>8, <1>9 DEF RefHeader
    <2>3. s.code = "BAD_HEADER" /\ s.out = <<>> /\ s.used = 3
      BY <2>2 DEF Place
    <2>4. SettledAs("BAD_HEADER")'
      BY <1>3, <1>6, <1>8, <1>9, <2>3 DEF SettledAs
    <2> QED BY <2>1, <2>4 DEF Tracks, Decoding
  <1>10. CASE /\ history_pos + have = 3 /\ read[0] = MAGIC /\ remaining' = size
              /\ decompress_continue(IF size = 0 THEN "DONE" ELSE "START_BLOCK")
    <2>1. s = Place(<<>>, 3, TOKENS_PER_BLOCK, 0, "OK")
      BY <1>5, <1>6, <1>8, <1>10 DEF RefHeader
    <2>2. s.code = "OK" /\ s.out = <<>> /\ s.used = 3 /\ s.index = TOKENS_PER_BLOCK
      BY <2>1 DEF Place
    <2>3. remaining' = RefSize(input) /\ RefSize(input) \in Nat /\ total_in' = 3
      BY <1>2, <1>5, <1>8, <1>10, SizeInHeader
    <2>4. CASE RefSize(input) = 0
      <3>1. mode' = "DONE"
        BY <1>5, <1>10, <2>4 DEF decompress_continue
      <3>2. RefTurn(input, s) = Stopped(s, 3, "STREAM_END")
        BY <2>2, <2>4 DEF RefTurn
      <3>3. \E t : InTrail(input, t) /\ t.code = "STREAM_END" /\ t.out = s.out /\ t.used = 3
        BY <1>2, <1>6, <3>2, TurnStops, RefCodes
      <3>4. SettledAs("STREAM_END")'
        BY <1>3, <2>2, <2>3, <3>3 DEF SettledAs
      <3> QED BY <3>1, <3>4 DEF Tracks, Decoding
    <2>5. CASE RefSize(input) # 0
      <3>1. mode' = "START_BLOCK"
        BY <1>5, <1>10, <2>5 DEF decompress_continue
      <3>2. Len(out') + remaining' = RefSize(input') /\ remaining' > 0
        BY <1>3, <2>3, <2>5
      <3>3. Stands(s)' /\ s.used = total_in' /\ s.index = TOKENS_PER_BLOCK
        BY <1>3, <1>6, <2>2, <2>3 DEF Stands
      <3> QED BY <3>1, <3>2, <3>3 DEF Tracks, Decoding
    <2> QED BY <2>4, <2>5
  <1> QED BY <1>1, <1>2, <1>7, <1>9, <1>10 DEF decompress_header, have, read, size

LEMMA StartBlockTracks ==
    ASSUME FInv, decompress_start_block
    PROVE  Tracks'
  <1>1. /\ BufferType /\ DecoderType /\ mode = "START_BLOCK" /\ running /\ remaining > 0
        /\ IInv /\ Finishing /\ Tracks /\ Len(out) + remaining = RefSize(input)
        /\ UNCHANGED <<out, avail_out, ringVars, remaining, reference, copyVars>>
    BY TypeParts DEF FInv, IInv, decompress_start_block, At, Tracks, Decoding
  <1>2. PICK s : Stands(s) /\ s.used = total_in /\ s.index = TOKENS_PER_BLOCK
    BY <1>1 DEF Tracks
  <1>3. /\ input \in Seq(Byte) /\ total_in \in Nat /\ avail_in \in Nat
        /\ total_in + avail_in <= Len(input) /\ Len(out) \in Nat /\ remaining \in Nat
        /\ InTrail(input, s) /\ s.code = "OK" /\ s.out = out
    BY <1>1, <1>2 DEF BufferType, DecoderType, Stands
  <1>4. Len(out) # RefSize(input)
    BY <1>1, <1>3
  <1>5. CASE /\ avail_in > 0 /\ Read(1)
             /\ group_bitmask' = NextByte /\ group_remaining' = TOKENS_PER_BLOCK
             /\ decompress_continue("TOKEN")
    <2> DEFINE b == input[total_in + 1]
    <2>1. total_in # Len(input) /\ b \in Byte
      BY <1>3, <1>5
    <2>2. RefTurn(input, s) = Place(out, total_in + 1, 0, b, "OK")
      BY <1>2, <1>3, <1>4, <2>1 DEF RefTurn
    <2>3. b \in Nat /\ Radix \in Nat
      BY <2>1, RadixFacts DEF Byte
    <2> HIDE DEF b
    <2>0. PICK t : t = Place(out, total_in + 1, 0, b, "OK")
      OBVIOUS
    <2>4. /\ t.code = "OK" /\ t.out = out /\ t.used = total_in + 1 /\ t.index = 0
          /\ t.bits = b
      BY <2>0 DEF Place
    <2>5. InTrail(input, t)
      BY <1>3, <2>0, <2>2, TrailPlace
    <2>6. input' = input /\ total_in' = total_in + 1 /\ mode' = "TOKEN" /\ out' = out
          /\ group_bitmask' = b
      BY <1>1, <1>5 DEF Read, decompress_continue, NextByte, b
    <2>7. GroupIs(t.index, t.bits)'
      <3>1. group_remaining' = TOKENS_PER_BLOCK - 0
        BY <1>5, FormatSizes
      <3>2. b * Radix = Radix * b
        BY <2>3
      <3> QED BY <2>4, <2>6, <3>1, <3>2 DEF GroupIs, Weight
    <2>8. Stands(t)' /\ t.used = total_in'
      BY <2>4, <2>5, <2>6 DEF Stands
    <2> QED BY <1>1, <2>6, <2>7, <2>8 DEF Tracks, Decoding
  <1>6. CASE /\ ~(avail_in > 0) /\ UNCHANGED <<input, total_in, avail_in, avail_out, groupVars>>
             /\ Starved
    <2>1. CASE decompress_suspend
      BY <1>1, <1>6, <2>1, TracksKept DEF decompress_suspend
    <2>2. CASE total_in = Len(input) /\ decompress_error("TRUNCATED")
      BY <1>1, <1>2, <1>4, <1>6, <2>2, EndsHere
    <2> QED BY <1>1, <1>3, <1>6, <2>1, <2>2, StarvedWaits
  <1> QED BY <1>5, <1>6 DEF decompress_start_block

LEMMA TokenTracks ==
    ASSUME FInv, decompress_token
    PROVE  Tracks'
  <1>1. /\ BufferType /\ DecoderType /\ mode = "TOKEN" /\ Tracks
        /\ Len(out) + remaining = RefSize(input)
        /\ UNCHANGED <<streamVars, ringVars, remaining, copyVars>>
    BY TypeParts DEF FInv, IInv, decompress_token, At, Tracks, Decoding
  <1>2. PICK s : Stands(s) /\ s.used = total_in /\ GroupIs(s.index, s.bits)
    BY <1>1 DEF Tracks
  <1>3. /\ input \in Seq(Byte) /\ total_in \in Nat /\ Len(out) \in Nat /\ remaining \in Nat
        /\ InTrail(input, s) /\ s.code = "OK" /\ s.out = out
        /\ group_bitmask \in Byte
    BY <1>1, <1>2 DEF BufferType, DecoderType, Stands
  <1>4. s.index \in 0 .. TOKENS_PER_BLOCK /\ s.bits \in Nat
    BY <1>3, TrailPlace
  <1>5. input' = input /\ total_in' = total_in /\ out' = out /\ remaining' = remaining
    BY <1>1 DEF streamVars
  <1>6. CASE remaining = 0 /\ decompress_continue("DONE")
    <2>1. RefTurn(input, s) = Stopped(s, total_in, "STREAM_END")
      BY <1>1, <1>2, <1>3, <1>6 DEF RefTurn
    <2>2. \E t : InTrail(input, t) /\ t.code = "STREAM_END" /\ t.out = s.out
                 /\ t.used = total_in
      BY <1>3, <2>1, TurnStops, RefCodes
    <2>3. mode' = "DONE" /\ SettledAs("STREAM_END")'
      BY <1>3, <1>5, <1>6, <2>2 DEF SettledAs, decompress_continue
    <2> QED BY <2>3 DEF Tracks, Decoding
  <1>7. CASE remaining # 0 /\ group_remaining = 0 /\ decompress_continue("START_BLOCK")
    <2>1. s.index = TOKENS_PER_BLOCK
      BY <1>2, <1>4, <1>7, FormatSizes DEF GroupIs
    <2>2. mode' = "START_BLOCK" /\ remaining' > 0 /\ Len(out') + remaining' = RefSize(input')
      BY <1>1, <1>3, <1>5, <1>7 DEF decompress_continue
    <2>3. Stands(s)' /\ s.used = total_in'
      BY <1>2, <1>5 DEF Stands
    <2> QED BY <2>1, <2>2, <2>3 DEF Tracks, Decoding
  <1>8. CASE /\ remaining # 0 /\ group_remaining # 0
             /\ group_bitmask' = NextToken(group_bitmask)
             /\ group_remaining' = group_remaining - 1
             /\ reference' = <<>>
             /\ decompress_continue(IF IsLiteral(group_bitmask)
                                    THEN "LITERAL" ELSE "REFERENCE")
    <2> DEFINE bit == CodeBit(s.index)
    <2>0. PICK rest : rest = IF IsLiteral(group_bitmask) THEN s.bits - bit ELSE s.bits
      OBVIOUS
    <2>1. /\ s.index \in 0 .. TOKENS_PER_BLOCK - 1 /\ s.index < TOKENS_PER_BLOCK
          /\ group_remaining = TOKENS_PER_BLOCK - s.index
          /\ group_bitmask * Weight(s.index) = Radix * s.bits
      BY <1>2, <1>4, <1>8, FormatSizes DEF GroupIs
    <2>2. /\ IsLiteral(group_bitmask) <=> s.bits >= bit
          /\ NextToken(group_bitmask) * Weight(s.index + 1) = Radix * rest
      BY <1>3, <1>4, <2>0, <2>1, MaskStep DEF bit
    <2>3. bit \in Nat
      BY <2>1, BitFacts
    <2> HIDE DEF bit
    <2>4. GroupIs(s.index + 1, rest)'
      <3>1. group_remaining' = TOKENS_PER_BLOCK - (s.index + 1)
        <4> DEFINE i == s.index
        <4>1. i \in Nat /\ group_remaining' = TOKENS_PER_BLOCK - i - 1
          BY <1>4, <1>8, <2>1
        <4> HIDE DEF i
        <4>2. group_remaining' = TOKENS_PER_BLOCK - (i + 1)
          BY <4>1, FormatSizes
        <4> QED BY <4>2 DEF i
      <3> QED BY <1>8, <2>2, <3>1 DEF GroupIs
    <2>5. Stands(s)' /\ s.used = total_in' /\ Len(out') + remaining' = RefSize(input')
      BY <1>1, <1>2, <1>5 DEF Stands
    <2>6. CASE IsLiteral(group_bitmask)
      <3>1. mode' = "LITERAL"
        BY <1>8, <2>6 DEF decompress_continue
      <3>2. OnLiteral(s)'
        BY <2>0, <2>1, <2>2, <2>4, <2>5, <2>6 DEF OnLiteral, bit
      <3> QED BY <2>5, <3>1, <3>2 DEF Tracks, Decoding
    <2>7. CASE ~IsLiteral(group_bitmask)
      <3>1. mode' = "REFERENCE"
        BY <1>8, <2>7 DEF decompress_continue
      <3>2. s.bits < bit
        <4> DEFINE x == s.bits
        <4>1. x \in Nat /\ ~(x >= bit)
          BY <1>4, <2>2, <2>7
        <4> HIDE DEF x
        <4>2. x < bit
          BY <2>3, <4>1
        <4> QED BY <4>2 DEF x
      <3>3. Len(reference') = 0 /\ \A k \in 1 .. Len(reference') : FALSE
        BY <1>8
      <3>4. total_in' = s.used + Len(reference')
        <4>1. total_in + 0 = total_in
          BY <1>3
        <4>2. s.used = total_in /\ total_in' = total_in
          BY <1>2, <1>5
        <4> QED BY ONLY <3>3, <4>1, <4>2
      <3>5. OnPair(s)'
        BY <2>0, <2>1, <2>4, <2>7, <3>2, <3>3, <3>4 DEF OnPair, bit
      <3> QED BY <2>5, <3>1, <3>5 DEF Tracks, Decoding
    <2> QED BY <2>6, <2>7
  <1> QED BY <1>6, <1>7, <1>8 DEF decompress_token

LEMMA LiteralTracks ==
    ASSUME FInv, decompress_literal
    PROVE  Tracks'
  <1>1. /\ BufferType /\ DecoderType /\ mode = "LITERAL" /\ running /\ remaining > 0
        /\ IInv /\ Finishing /\ Tracks /\ Len(out) + remaining = RefSize(input)
        /\ UNCHANGED <<groupVars, reference, copyVars>>
    BY TypeParts DEF FInv, IInv, ModeOK, decompress_literal, At, Tracks, Decoding
  <1>2. PICK s : Stands(s) /\ OnLiteral(s)
    BY <1>1 DEF Tracks
  <1>3. /\ input \in Seq(Byte) /\ total_in \in Nat /\ avail_in \in Nat
        /\ total_in + avail_in <= Len(input) /\ Len(out) \in Nat /\ remaining \in Nat
        /\ InTrail(input, s) /\ s.code = "OK" /\ s.out = out /\ out \in Seq(Byte)
        /\ s.used = total_in
    BY <1>1, <1>2 DEF BufferType, DecoderType, Stands, OnLiteral
  <1>4. Len(out) # RefSize(input)
    BY <1>1, <1>3
  <1>5. CASE /\ avail_in > 0 /\ avail_out > 0
             /\ Read(1) /\ Emit(NextByte) /\ decompress_continue("TOKEN")
    <2> DEFINE b == input[total_in + 1]
    <2>1. total_in # Len(input)
      BY <1>3, <1>5
    <2>0. PICK rest, t :
             /\ rest = s.bits - CodeBit(s.index)
             /\ t = Place(Append(out, b), total_in + 1, s.index + 1, rest, "OK")
      OBVIOUS
    <2>2. s.index # TOKENS_PER_BLOCK /\ s.bits >= CodeBit(s.index)
          /\ GroupIs(s.index + 1, rest)
      BY <1>2, <2>0, FormatSizes DEF OnLiteral
    <2>3. RefTurn(input, s) = t
      BY <1>3, <1>4, <2>0, <2>1, <2>2 DEF RefTurn
    <2>4. InTrail(input, t)
      BY <1>3, <2>3, TrailPlace
    <2>5. input' = input /\ total_in' = total_in + 1 /\ mode' = "TOKEN"
          /\ out' = Append(out, b) /\ remaining' = remaining - 1
      BY <1>5 DEF Read, decompress_continue, NextByte, Emit, WriteByte
    <2>6. /\ t.code = "OK" /\ t.out = Append(out, b) /\ t.used = total_in + 1
          /\ t.index = s.index + 1 /\ t.bits = rest
      BY <2>0 DEF Place
    <2>7. Len(out') = Len(out) + 1
      BY <1>3, <2>5
    <2> HIDE DEF b
    <2>8. Len(out') + remaining' = RefSize(input')
      BY <1>1, <1>3, <2>5, <2>7
    <2>9. GroupIs(t.index, t.bits)'
      BY <1>1, <2>2, <2>6 DEF GroupIs, groupVars
    <2>10. Stands(t)' /\ t.used = total_in'
      BY <2>4, <2>5, <2>6 DEF Stands
    <2> QED BY <2>5, <2>8, <2>9, <2>10 DEF Tracks, Decoding
  <1>6. CASE /\ ~(avail_in > 0) /\ UNCHANGED <<input, total_in, avail_in>>
             /\ NoEmit /\ Starved
    <2>1. CASE decompress_suspend
      BY <1>1, <1>6, <2>1, TracksKept DEF decompress_suspend, NoEmit
    <2>2. CASE total_in = Len(input) /\ decompress_error("TRUNCATED")
      BY <1>1, <1>2, <1>3, <1>4, <1>6, <2>2, EndsHere DEF NoEmit
    <2> QED BY <1>1, <1>3, <1>6, <2>1, <2>2, StarvedWaits
  <1>7. CASE /\ UNCHANGED <<input, total_in, avail_in>> /\ NoEmit
             /\ decompress_suspend
    BY <1>1, <1>7, TracksKept DEF NoEmit, decompress_suspend
  <1> QED BY <1>5, <1>6, <1>7 DEF decompress_literal

\* As long as a pair is incomplete its size is not reached.
LEMMA PairUnread ==
    ASSUME NEW bytes \in Seq(Byte), NEW used \in Nat, NEW r \in Seq(Byte),
           Len(r) < 3, ~ReferenceComplete(r),
           \A k \in 1 .. Len(r) : r[k] = bytes[used + k]
    PROVE  Len(r) < IF bytes[used + 1] \div NIBBLE = 0 THEN 3 ELSE 2
  <1> DEFINE m    == Len(r)
             size == IF bytes[used + 1] \div NIBBLE = 0 THEN 3 ELSE 2
  <1>1. m \in 0 .. 2
    <2>1. m \in Nat /\ m < 3
      OBVIOUS
    <2> HIDE DEF m
    <2> QED BY ONLY <2>1
  <1>4. size \in {2, 3}
    BY ONLY TRUE
  <1>2. ASSUME m = 2 PROVE size = 3
    BY <1>2 DEF ReferenceComplete
  <1> HIDE DEF m, size
  <1>3. m < size
    BY ONLY <1>1, <1>2, <1>4
  <1> QED BY <1>3 DEF m, size

\* It is complete with the byte that makes up its size.
OneMore(bytes, used, r) ==
    LET size == IF bytes[used + 1] \div NIBBLE = 0 THEN 3 ELSE 2
        more == Append(r, bytes[used + Len(r) + 1])
    IN /\ Len(more) = Len(r) + 1
       /\ \A k \in 1 .. Len(more) : more[k] = bytes[used + k]
       /\ ReferenceComplete(more) =>
             Len(more) = size /\ more = SubSeq(bytes, used + 1, used + size)

LEMMA PairGrows ==
    ASSUME NEW bytes \in Seq(Byte), NEW used \in Nat, NEW r \in Seq(Byte),
           used + Len(r) < Len(bytes), Len(r) < 3, ~ReferenceComplete(r),
           \A k \in 1 .. Len(r) : r[k] = bytes[used + k]
    PROVE  OneMore(bytes, used, r)
  <1> DEFINE m    == Len(r)
             size == IF bytes[used + 1] \div NIBBLE = 0 THEN 3 ELSE 2
             b    == bytes[used + m + 1]
             more == Append(r, b)
  <1>1. m \in 0 .. 2 /\ size \in {2, 3} /\ m < size
    <2>1. m \in 0 .. 2
      <3>1. m \in Nat /\ m < 3
        OBVIOUS
      <3> HIDE DEF m
      <3> QED BY ONLY <3>1
    <2>3. size \in {2, 3}
      BY ONLY TRUE
    <2>2. m < size
      BY PairUnread
    <2> QED BY <2>1, <2>2, <2>3
  <1>2. b \in Byte /\ used + m + 1 = used + (m + 1)
    BY <1>1
  <1> HIDE DEF b
  <1>3. more \in Seq(Byte) /\ Len(more) = m + 1 /\ more[m + 1] = b
        /\ \A k \in 1 .. m : more[k] = r[k]
    BY <1>2
  <1>4. \A k \in 1 .. m + 1 : more[k] = bytes[used + k]
    BY <1>1, <1>2, <1>3 DEF b
  <1> HIDE DEF more
  <1>5. ASSUME ReferenceComplete(more)
        PROVE  m + 1 = size
    <2>1. more[1] = bytes[used + 1]
      BY <1>1, <1>4
    <2>2. m + 1 = 3 \/ (m + 1 = 2 /\ size = 2)
      BY <1>3, <1>5, <2>1 DEF ReferenceComplete
    <2> QED BY <1>1, <2>2
  <1>6. ASSUME m + 1 = size
        PROVE  more = SubSeq(bytes, used + 1, used + size)
    <2> HIDE DEF size
    <2>1. size \in Nat /\ used + size <= Len(bytes)
      BY <1>1, <1>6
    <2> DEFINE pair == SubSeq(bytes, used + 1, used + size)
    <2>2. pair \in Seq(Byte) /\ Len(pair) = size
          /\ \A k \in 1 .. size : pair[k] = bytes[used + k]
      BY <2>1, StretchParts
    <2> HIDE DEF pair
    <2>3. more = pair
      BY <1>3, <1>4, <1>6, <2>2
    <2> QED BY <2>3 DEF pair
  <1> HIDE DEF size
  <1>7. Len(more) = m + 1 /\ (\A k \in 1 .. Len(more) : more[k] = bytes[used + k])
    BY <1>3, <1>4
  <1> QED BY <1>3, <1>5, <1>6, <1>7 DEF more, b, size, OneMore

LEMMA ReferenceTracks ==
    ASSUME FInv, decompress_reference
    PROVE  Tracks'
  <1>1. /\ BufferType /\ DecoderType /\ mode = "REFERENCE" /\ running /\ remaining > 0
        /\ IInv /\ Finishing /\ Tracks /\ Len(out) + remaining = RefSize(input)
        /\ history_pos = Len(out) /\ Len(reference) < 3 /\ ~ReferenceComplete(reference)
        /\ UNCHANGED <<out, ringVars, remaining, groupVars>>
    BY TypeParts DEF FInv, IInv, ModeOK, decompress_reference, At, Tracks, Decoding
  <1>2. PICK s : Stands(s) /\ OnPair(s)
    BY <1>1 DEF Tracks
  <1>0. PICK u, m, bytes, size :
           /\ u = s.used /\ m = Len(reference) /\ bytes = input
           /\ size = IF bytes[u + 1] \div NIBBLE = 0 THEN 3 ELSE 2
    <2>1. PICK u, m, bytes : u = s.used /\ m = Len(reference) /\ bytes = input
      OBVIOUS
    <2>2. PICK size : size = IF bytes[u + 1] \div NIBBLE = 0 THEN 3 ELSE 2
      OBVIOUS
    <2> QED BY <2>1, <2>2
  <1>3. /\ bytes \in Seq(Byte) /\ total_in \in Nat /\ avail_in \in Nat
        /\ total_in + avail_in <= Len(bytes) /\ Len(out) \in Nat /\ remaining \in Nat
        /\ InTrail(bytes, s) /\ s.code = "OK" /\ s.out = out /\ out \in Seq(Byte)
        /\ reference \in Seq(Byte) /\ Len(bytes) \in Nat
    BY <1>0, <1>1, <1>2 DEF BufferType, DecoderType, Stands
  <1>4. /\ u \in Nat /\ total_in = u + m /\ m \in 0 .. 2
        /\ \A k \in 1 .. m : reference[k] = bytes[u + k]
    <2>1. u \in Nat
      BY <1>0, <1>3, TrailPlace
    <2>2. total_in = u + m /\ \A k \in 1 .. m : reference[k] = bytes[u + k]
      BY <1>0, <1>2 DEF OnPair
    <2>3. m \in 0 .. 2
      BY <1>0, <1>1, <1>3
    <2> QED BY <2>1, <2>2, <2>3
  <1>5. s.index # TOKENS_PER_BLOCK /\ ~(s.bits >= CodeBit(s.index))
        /\ s.index < TOKENS_PER_BLOCK /\ s.bits < CodeBit(s.index)
        /\ GroupIs(s.index + 1, s.bits)
    <2>1. s.index < TOKENS_PER_BLOCK /\ s.bits < CodeBit(s.index)
          /\ GroupIs(s.index + 1, s.bits)
      BY <1>2 DEF OnPair
    <2>2. s.index \in 0 .. TOKENS_PER_BLOCK /\ s.bits \in Nat
      BY <1>3, TrailPlace
    <2>3. CodeBit(s.index) \in Nat
      <3>1. s.index \in 0 .. TOKENS_PER_BLOCK - 1
        BY <2>1, <2>2, FormatSizes
      <3> QED BY <3>1, BitFacts
    <2> QED BY <2>1, <2>2, <2>3, FormatSizes
  <1>6. Len(out) # RefSize(bytes)
    BY <1>0, <1>1, <1>3
  <1>7. u # Len(bytes) => RefTurn(bytes, s) = RefPair(bytes, s)
    BY <1>0, <1>3, <1>5, <1>6 DEF RefTurn
  <1>8. m < size /\ size \in {2, 3}
    BY <1>0, <1>1, <1>3, <1>4, PairUnread
  <1>9. CASE /\ ~(avail_in > 0)
             /\ UNCHANGED <<input, total_in, avail_in, avail_out, reference, copyVars>>
             /\ Starved
    <2>1. CASE decompress_suspend
      BY <1>1, <1>9, <2>1, TracksKept DEF decompress_suspend
    <2>2. CASE total_in = Len(bytes) /\ decompress_error("TRUNCATED")
      <3>1. CASE m = 0
        BY <1>0, <1>1, <1>2, <1>3, <1>4, <1>6, <1>9, <2>2, <3>1, EndsHere
      <3>2. CASE m # 0
        <4>1. u # Len(bytes) /\ u + size > Len(bytes)
          BY <1>3, <1>4, <1>8, <2>2, <3>2
        <4>2. RefPair(bytes, s) = Stopped(s, Len(bytes), "TRUNCATED")
          BY <1>0, <4>1 DEF RefPair
        <4>3. RefTurn(bytes, s) = Stopped(s, Len(bytes), "TRUNCATED")
          BY <1>7, <4>1, <4>2
        <4>4. \E t : InTrail(bytes, t) /\ t.code = "TRUNCATED" /\ t.out = s.out
                     /\ t.used = Len(bytes)
          BY <1>3, <4>3, TurnStops, RefCodes
        <4>5. mode' = "ERROR" /\ error' = "TRUNCATED"
          BY <2>2 DEF decompress_error
        <4>6. SettledAs("TRUNCATED")'
          BY <1>0, <1>1, <1>3, <1>9, <2>2, <4>4 DEF SettledAs
        <4> QED BY <4>5, <4>6 DEF Tracks, Decoding
      <3> QED BY <3>1, <3>2
    <2> QED BY <1>0, <1>1, <1>3, <1>9, <2>1, <2>2, StarvedWaits
  <1>10. CASE /\ avail_in > 0 /\ Read(1)
              /\ reference' = Append(reference, NextByte)
    <2>1. u + m < Len(bytes) /\ u # Len(bytes)
      BY <1>3, <1>4, <1>10
    <2>2. input' = bytes /\ total_in' = u + m + 1 /\ NextByte = bytes[u + m + 1]
      BY <1>0, <1>4, <1>10 DEF Read, NextByte
    <2>3. /\ Len(reference') = m + 1
          /\ \A k \in 1 .. Len(reference') : reference'[k] = bytes[u + k]
          /\ ReferenceComplete(reference') =>
                m + 1 = size /\ reference' = SubSeq(bytes, u + 1, u + size)
      <3>1. /\ u + Len(reference) < Len(bytes) /\ Len(reference) < 3
            /\ ~ReferenceComplete(reference)
            /\ \A k \in 1 .. Len(reference) : reference[k] = bytes[u + k]
        BY <1>0, <1>1, <1>4, <2>1
      <3>2. reference' = Append(reference, bytes[u + Len(reference) + 1])
        BY <1>0, <1>10, <2>2
      <3>3. LET whole == IF bytes[u + 1] \div NIBBLE = 0 THEN 3 ELSE 2
                more  == Append(reference, bytes[u + Len(reference) + 1])
            IN /\ Len(more) = Len(reference) + 1
               /\ \A k \in 1 .. Len(more) : more[k] = bytes[u + k]
               /\ ReferenceComplete(more) =>
                     Len(more) = whole /\ more = SubSeq(bytes, u + 1, u + whole)
        <4>1. OneMore(bytes, u, reference)
          BY ONLY <1>3, <1>4, <3>1, PairGrows
        <4> QED BY ONLY <4>1 DEF OneMore
      <3> QED BY ONLY <1>0, <3>2, <3>3
    <2>4. RefTurn(bytes, s) = RefPair(bytes, s)
      BY <1>7, <2>1
    <2>5. Len(out') + remaining' = RefSize(input')
      BY <1>0, <1>1, <2>2
    <2>6. CASE ~ReferenceComplete(reference') /\ decompress_continue("REFERENCE")
      <3>1. total_in' = s.used + Len(reference')
        <4>1. u + m + 1 = u + (m + 1)
          BY <1>4
        <4> QED BY <1>0, <2>2, <2>3, <4>1
      <3>2. \A k \in 1 .. Len(reference') : reference'[k] = input'[s.used + k]
        BY <1>0, <2>2, <2>3
      <3>3. OnPair(s)'
        BY <1>1, <1>5, <3>1, <3>2 DEF OnPair, GroupIs, groupVars
      <3>4. Stands(s)' /\ mode' = "REFERENCE"
        BY <1>1, <1>3, <2>2, <2>6 DEF Stands, decompress_continue
      <3> QED BY <2>5, <3>3, <3>4 DEF Tracks, Decoding
    <2>7. ASSUME ReferenceComplete(reference')
          PROVE  /\ total_in' = u + size /\ ~(u + size > Len(bytes))
                 /\ reference' = SubSeq(bytes, u + 1, u + size)
      BY <1>3, <1>4, <1>8, <2>1, <2>2, <2>3, <2>7
    <2>8. PICK distance, length : distance = ReferenceDistance(reference')
                                  /\ length = ReferenceLength(reference')
      OBVIOUS
    <2>9. CASE /\ ReferenceComplete(reference')
               /\ BadReference(ReferenceDistance(reference'), ReferenceLength(reference'))
               /\ decompress_error("DATA_ERROR")
      <3>1. distance > Len(out) \/ length > remaining
        BY <1>1, <2>8, <2>9
      <3>2. remaining = RefSize(bytes) - Len(out)
        BY <1>0, <1>1, <1>3
      <3>3. RefPair(bytes, s) = Stopped(s, u + size, "DATA_ERROR")
        BY <1>0, <1>3, <2>7, <2>8, <2>9, <3>1, <3>2 DEF RefPair
      <3>4. u + size \in Nat
        BY <1>4, <1>8
      <3>5. \E t : InTrail(bytes, t) /\ t.code = "DATA_ERROR" /\ t.out = s.out
                   /\ t.used = u + size
        BY <1>3, <2>4, <3>3, <3>4, TurnStops, RefCodes
      <3>6. mode' = "ERROR" /\ error' = "DATA_ERROR"
        BY <2>9 DEF decompress_error
      <3>7. SettledAs("DATA_ERROR")'
        BY <1>0, <1>1, <1>3, <2>2, <2>7, <2>9, <3>5 DEF SettledAs
      <3> QED BY <3>6, <3>7 DEF Tracks, Decoding
    <2>10. CASE /\ ReferenceComplete(reference')
                /\ ~BadReference(ReferenceDistance(reference'), ReferenceLength(reference'))
                /\ copy_distance' = ReferenceDistance(reference')
                /\ copy_length' = ReferenceLength(reference')
                /\ decompress_continue("COPY")
      <3>1. ~(distance > Len(out)) /\ ~(length > remaining)
            /\ copy_distance' = distance /\ copy_length' = length
        BY <1>1, <2>8, <2>10
      <3>2. remaining = RefSize(bytes) - Len(out)
        BY <1>0, <1>1, <1>3
      <3>3. PICK more, t : /\ more = Repeated(out, distance, length)
                           /\ t = Place(more, u + size, s.index + 1, s.bits, "OK")
        OBVIOUS
      <3>4. RefPair(bytes, s) = t
        BY <1>0, <1>3, <2>7, <2>8, <2>10, <3>1, <3>2, <3>3 DEF RefPair
      <3>5. InTrail(bytes, t)
        BY <1>3, <2>4, <3>4, TrailPlace
      <3>6. /\ t.out = more /\ t.used = u + size /\ t.index = s.index + 1
            /\ t.bits = s.bits /\ t.code = "OK"
        BY <3>3 DEF Place
      <3>7. distance \in 1 .. NIBBLE * Radix /\ length \in Nat
        <4>1. u < Len(bytes) /\ u + size <= Len(bytes)
          <5>1. ~(u + size > Len(bytes))
            BY <2>7, <2>10
          <5> QED BY <1>3, <1>4, <1>8, <2>1, <5>1
        <4> DEFINE pair == SubSeq(bytes, u + 1, u + size)
        <4>2. ReferenceDistance(pair) \in 1 .. NIBBLE * Radix /\ ReferenceLength(pair) \in Nat
          BY ONLY <1>0, <1>3, <1>4, <4>1, PairRead, RadixFacts, FormatAssumption,
                  CodeByteAssumption
        <4>3. reference' = pair
          BY <2>7, <2>10
        <4> HIDE DEF pair
        <4> QED BY ONLY <2>8, <4>2, <4>3
      <3>8. distance \in 1 .. Len(out)
        BY <1>3, <3>1, <3>7, FormatSizes
      <3>9. /\ Len(more) = Len(out) + length
            /\ \A i \in 1 .. Len(out) : more[i] = out[i]
            /\ \A i \in Len(out) + 1 .. Len(more) : more[i] = more[i - distance]
        BY ONLY <1>3, <3>3, <3>7, <3>8, RepeatedFacts
      <3>10. GroupIs(t.index, t.bits)'
        BY <1>1, <1>5, <3>6 DEF GroupIs, groupVars
      <3>11. OnCopy(t)'
        BY <1>1, <2>2, <2>7, <2>10, <3>1, <3>5, <3>6, <3>9, <3>10 DEF OnCopy
      <3>12. mode' = "COPY"
        BY <2>10 DEF decompress_continue
      <3> QED BY <2>5, <3>11, <3>12 DEF Tracks, Decoding
    <2> QED BY <1>10, <2>6, <2>9, <2>10 DEF decompress_reference
  <1> QED BY <1>9, <1>10 DEF decompress_reference

LEMMA CopyTracks ==
    ASSUME FInv, decompress_copy
    PROVE  Tracks'
  <1> DEFINE b == history[(history_pos - copy_distance) % MAX_DISTANCE]
             m == Len(out)
  <1>1. /\ BufferType /\ DecoderType /\ mode = "COPY" /\ IInv /\ Tracks
        /\ m + remaining = RefSize(input)
        /\ copy_distance \in 1 .. m /\ copy_length <= remaining
        /\ UNCHANGED <<groupVars, reference, copy_distance>>
    BY TypeParts DEF FInv, IInv, ModeOK, decompress_copy, At, Tracks, Decoding
  <1>2. PICK s : OnCopy(s)
    BY <1>1 DEF Tracks
  <1>3. b = out[m + 1 - copy_distance]
    BY <1>1, RingCopies
  <1>4. /\ m \in Nat /\ remaining \in Nat /\ copy_length \in Nat
        /\ copy_distance \in Nat /\ out \in Seq(Byte) /\ input \in Seq(Byte)
    BY <1>1 DEF BufferType, DecoderType
  <1>5. /\ InTrail(input, s) /\ s.code = "OK" /\ s.used = total_in
        /\ GroupIs(s.index, s.bits) /\ Len(s.out) = m + copy_length
        /\ \A i \in 1 .. m : s.out[i] = out[i]
        /\ \A i \in m + 1 .. Len(s.out) : s.out[i] = s.out[i - copy_distance]
    BY <1>2 DEF OnCopy
  <1>6. CASE /\ copy_length > 0 /\ avail_out > 0 /\ Emit(b)
             /\ copy_length' = copy_length - 1
             /\ decompress_continue("COPY")
             /\ UNCHANGED <<input, total_in, avail_in>>
    <2> HIDE DEF b
    <2>0. PICK whole : whole = s.out
      OBVIOUS
    <2>1. /\ out' = Append(out, b) /\ Len(out') = m + 1 /\ remaining' = remaining - 1
      BY <1>4, <1>6 DEF Emit, WriteByte
    <2>2. /\ Len(whole) = m + copy_length
          /\ \A i \in 1 .. m : whole[i] = out[i]
          /\ \A i \in m + 1 .. Len(whole) : whole[i] = whole[i - copy_distance]
      BY <1>5, <2>0
    <2> HIDE DEF m
    <2>3. whole[m + 1] = b
      <3>1. m + 1 - copy_distance \in 1 .. m /\ m + 1 \in m + 1 .. Len(whole)
        BY <1>1, <1>4, <1>6, <2>2
      <3>2. whole[m + 1] = whole[m + 1 - copy_distance]
        <4> DEFINE n == m + 1
        <4>1. n \in m + 1 .. Len(whole)
          BY <3>1
        <4> HIDE DEF n
        <4>2. whole[n] = whole[n - copy_distance]
          BY <2>2, <4>1
        <4> QED BY <1>4, <4>2 DEF n
      <3>3. whole[m + 1 - copy_distance] = out[m + 1 - copy_distance]
        BY <2>2, <3>1
      <3> QED BY <1>3, <3>2, <3>3
    <2>4. \A i \in 1 .. m + 1 : whole[i] = out'[i]
      <3>1. ASSUME NEW i \in 1 .. m + 1
            PROVE  Append(out, b)[i] = IF i = m + 1 THEN b ELSE out[i]
        BY <1>4, <3>1 DEF m
      <3> QED BY <1>4, <2>1, <2>2, <2>3, <3>1
    <2>5. Len(whole) = Len(out') + copy_length'
      BY <1>4, <1>6, <2>1, <2>2
    <2>6. \A i \in Len(out') + 1 .. Len(whole) : whole[i] = whole[i - copy_distance]
      BY <1>4, <2>1, <2>2
    <2>7. Len(out') + remaining' = RefSize(input')
      BY <1>1, <1>4, <1>6, <2>1
    <2>8. GroupIs(s.index, s.bits)' /\ mode' = "COPY"
      BY <1>1, <1>5, <1>6 DEF GroupIs, groupVars, decompress_continue
    <2>9. OnCopy(s)'
      BY <1>1, <1>5, <1>6, <2>0, <2>1, <2>4, <2>5, <2>6, <2>8 DEF OnCopy
    <2> QED BY <2>7, <2>8, <2>9 DEF Tracks, Decoding
  <1>7. CASE /\ UNCHANGED <<streamVars, ringVars, remaining, copy_length>>
             /\ decompress_suspend
    BY <1>1, <1>7, TracksKept DEF streamVars, copyVars, decompress_suspend
  <1>8. CASE /\ copy_length = 0
             /\ UNCHANGED <<streamVars, ringVars, remaining, copy_length>>
             /\ decompress_continue("TOKEN")
    <2>1. s.out = out
      <3>1. s.out \in Seq(Byte)
        BY <1>4, <1>5, TrailPlace
      <3>2. Len(s.out) = m
        BY <1>4, <1>5, <1>8
      <3> QED BY <1>4, <1>5, <3>1, <3>2
    <2>2. input' = input /\ total_in' = total_in /\ out' = out /\ mode' = "TOKEN"
          /\ remaining' = remaining
      BY <1>8 DEF streamVars, decompress_continue
    <2>3. Stands(s)' /\ s.used = total_in'
      BY <1>5, <2>1, <2>2 DEF Stands
    <2>4. GroupIs(s.index, s.bits)' /\ Len(out') + remaining' = RefSize(input')
      BY <1>1, <1>5, <2>2 DEF GroupIs, groupVars
    <2> QED BY <2>2, <2>3, <2>4 DEF Tracks, Decoding
  <1> QED BY <1>6, <1>7, <1>8 DEF decompress_copy

LEMMA StartTracks ==
    ASSUME mode = "HEADER", total_in = 0, history_pos = 0
    PROVE  Tracks
  <1>1. \A slot \in Slots : ~(slot < 0)
    BY RingFacts DEF Slots
  <1> QED BY <1>1 DEF Tracks, Decoding

LEMMA HandlerTracks ==
    ASSUME FInv, yaz0_decompress
    PROVE  Tracks'
  <1>1. CASE Settled
    BY <1>1, TracksKept DEF FInv, Settled, streamVars
  <1> QED BY <1>1, HeaderTracks, StartBlockTracks, TokenTracks, LiteralTracks,
             ReferenceTracks, CopyTracks DEF yaz0_decompress
\* No handler lets go of input it has not read.
LEMMA HandlerFinishes ==
    ASSUME IInv, Finishing, yaz0_decompress
    PROVE  Finishing' /\ input' = input
  <1>1. total_in \in Nat /\ avail_in \in Nat
    BY DEF IInv, TypeOK, StreamTypeOK
  <1>2. ASSUME NEW n \in Nat, Read(n)
        PROVE  total_in' + avail_in' = total_in + avail_in /\ input' = input
    BY <1>1, <1>2 DEF Read
  <1>3. Readable(HEADER_SIZE - history_pos) \in Nat \/ mode # "HEADER"
    BY <1>1 DEF IInv, TypeOK, ModeOK, HEADER_SIZE, Least
  <1>4. total_in' + avail_in' = total_in + avail_in /\ input' = input
    <2>1. CASE decompress_header
      BY <1>2, <1>3, <2>1 DEF decompress_header, At
    <2>2. CASE decompress_start_block \/ decompress_literal \/ decompress_reference
      <3>1. Read(1) \/ UNCHANGED <<input, total_in, avail_in>>
        BY <2>2 DEF decompress_start_block, decompress_literal, decompress_reference
      <3> QED BY <1>2, <3>1
    <2>3. CASE decompress_token \/ Settled
      BY <2>3 DEF decompress_token, Settled, streamVars
    <2>4. CASE decompress_copy
      BY <2>4 DEF decompress_copy, streamVars
    <2> QED BY <2>1, <2>2, <2>3, <2>4 DEF yaz0_decompress
  <1>5. (running' => flush' = flush) /\ running
    <2>1. running
      BY DEF yaz0_decompress, decompress_header, decompress_start_block, decompress_token,
         decompress_literal, decompress_reference, decompress_copy, Settled, At
    <2>2. \/ \E code : Return(code)
          \/ UNCHANGED callVars
      BY DEF yaz0_decompress, decompress_header, decompress_start_block, decompress_token,
         decompress_literal, decompress_reference, decompress_copy, Settled, Starved,
         decompress_continue, decompress_error, decompress_suspend, Suspend
    <2> QED BY <2>1, <2>2 DEF Return, callVars
  <1> QED BY <1>4, <1>5 DEF Finishing

LEMMA CallFinishes ==
    ASSUME IInv, Call
    PROVE  Finishing' /\ input' = input
  <1>1. PICK kind \in {"NO_FLUSH", "FINISH"} :
           \E give \in Offers(kind), room \in 0 .. MAX_ROOM : Enter(give, room, kind)
    BY DEF Call
  <1>2. PICK give \in Offers(kind) :
           /\ flush' = kind /\ avail_in' = give /\ input' = input /\ total_in' = total_in
    BY <1>1 DEF Enter
  <1>3. total_in \in Nat /\ Len(input) \in Nat
    BY DEF IInv, TypeOK, StreamTypeOK
  <1> QED BY <1>2, <1>3 DEF Offers, Left, Finishing

LEMMA HandlerAnswers ==
    ASSUME yaz0_decompress
    PROVE  Answered'
  <1>1. CASE Settled
    BY <1>1 DEF Settled, At, Return, Answered
  <1>2. CASE ~Settled
    <2>1. \/ UNCHANGED callVars
          \/ \E code : decompress_error(code)
          \/ decompress_suspend
      BY <1>2 DEF yaz0_decompress, decompress_header, decompress_start_block,
         decompress_token, decompress_literal, decompress_reference, decompress_copy,
         Starved, decompress_continue
    <2>2. running /\ mode \notin {"DONE", "ERROR"}
      BY <1>2 DEF yaz0_decompress, decompress_header, decompress_start_block, decompress_token,
         decompress_literal, decompress_reference, decompress_copy, At
    <2>3. CASE UNCHANGED callVars
      BY <2>2, <2>3 DEF callVars, Answered
    <2>4. ASSUME NEW code, decompress_error(code)
          PROVE  Answered'
      BY <2>4 DEF decompress_error, Return, Answered
    <2>5. CASE decompress_suspend
      BY <2>2, <2>5 DEF decompress_suspend, Suspend, Return, Answered
    <2> QED BY <2>1, <2>3, <2>4, <2>5
  <1> QED BY <1>1, <1>2

-----------------------------------------------------------------------------
(* The invariant, and what it says of every sequence of calls. *)

LEMMA InitFInv == Init => FInv
  BY InitIInv, StartTracks DEF Init, StreamInit, FInv, Finishing, Answered

LEMMA NextFInv == FInv /\ [Next]_vars => FInv'
  <1> SUFFICES ASSUME FInv, [Next]_vars PROVE FInv'
    OBVIOUS
  <1>1. IInv /\ Finishing /\ Answered /\ Tracks /\ IInv'
    BY NextIInv DEF FInv
  <1>2. CASE yaz0_decompress
    BY <1>1, <1>2, HandlerFinishes, HandlerAnswers, HandlerTracks DEF FInv
  <1>3. CASE Call
    <2>1. UNCHANGED <<input, total_in, out, mode, error, ringVars, remaining, groupVars,
                      reference, copyVars>>
      BY <1>3 DEF Call, Enter
    <2>2. Answered'
      BY <1>3 DEF Call, Enter, Answered
    <2> QED BY <1>1, <1>3, <2>1, <2>2, CallFinishes, TracksKept DEF FInv
  <1>4. CASE yaz0_decompress_reset
    <2>1. Finishing' /\ Answered'
      BY <1>4 DEF yaz0_decompress_reset, Finishing, Answered
    <2>2. mode' = "HEADER" /\ total_in' = 0 /\ history_pos' = 0
      BY <1>4 DEF yaz0_decompress_reset
    <2>3. Tracks'
      <3>1. \A slot \in Slots : ~(slot < 0)
        BY RingFacts DEF Slots
      <3> QED BY <2>2, <3>1 DEF Tracks, Decoding
    <2> QED BY <1>1, <2>1, <2>3 DEF FInv
  <1>5. CASE UNCHANGED vars
    <2>1. UNCHANGED <<input, total_in, out, mode, error, ringVars, remaining, groupVars,
                      reference, copyVars>> /\ Finishing' /\ Answered'
      BY <1>1, <1>5 DEF vars, streamVars, callVars, Finishing, Answered
    <2> QED BY <1>1, <2>1, TracksKept DEF FInv
  <1> QED BY <1>2, <1>3, <1>4, <1>5 DEF Next

LEMMA AlwaysFInv == Spec => []FInv
  BY InitFInv, NextFInv, PTL DEF Spec

\* What the place the decoder stands at says of the whole input.
LEMMA SettledSays ==
    ASSUME FInv, NEW code, SettledAs(code), code # "OK"
    PROVE  RefDecode(input) = Verdict(out, total_in, code)
  <1>1. PICK s : InTrail(input, s) /\ s.code = code /\ s.out = out /\ s.used = total_in
    BY DEF SettledAs
  <1>2. input \in Seq(Byte)
    BY DEF FInv, IInv, TypeOK, StreamTypeOK
  <1> DEFINE expected == RefDecode(input)
  <1>3. expected.out = s.out /\ expected.used = s.used /\ expected.code = s.code
    BY <1>1, <1>2, TrailSays
  <1>4. expected = Verdict(expected.out, expected.used, expected.code)
    BY DEF RefDecode, Verdict
  <1> HIDE DEF expected
  <1> QED BY <1>1, <1>3, <1>4 DEF expected

LEMMA PrefixOfAll ==
    ASSUME FInv
    PROVE  out = SubSeq(RefDecode(input).out, 1, Len(out))
  <1> DEFINE whole == RefDecode(input).out
  <1>1. input \in Seq(Byte) /\ out \in Seq(Byte) /\ mode \in Mode /\ copy_length \in Nat
    BY DEF FInv, IInv, TypeOK, StreamTypeOK
  <1>2. ASSUME NEW s, InTrail(input, s), s.out = out
        PROVE  out = SubSeq(whole, 1, Len(out))
    BY <1>1, <1>2, TrailSays
  <1>3. CASE mode = "HEADER"
    <2>1. out = <<>>
      BY <1>3 DEF FInv, IInv, ModeOK
    <2> HIDE DEF whole
    <2>2. Len(out) = 0 /\ SubSeq(whole, 1, 0) = <<>>
      BY <2>1
    <2> QED BY <2>1, <2>2
  <1>4. CASE mode = "COPY"
    <2>1. PICK s : OnCopy(s)
      BY <1>4 DEF FInv, Tracks
    <2> DEFINE more == s.out
    <2>2. /\ InTrail(input, s) /\ Len(more) = Len(out) + copy_length
          /\ \A i \in 1 .. Len(out) : more[i] = out[i]
      BY <2>1 DEF OnCopy
    <2>3. /\ whole \in Seq(Byte) /\ Len(more) <= Len(whole)
          /\ more = SubSeq(whole, 1, Len(more)) /\ more \in Seq(Byte)
      BY <1>1, <2>2, TrailSays, TrailPlace
    <2> HIDE DEF whole, more
    <2>4. Len(out) \in Nat /\ Len(more) \in Nat /\ Len(whole) \in Nat
          /\ Len(out) <= Len(more)
      BY <1>1, <2>2, <2>3
    <2>5. \A i \in 1 .. Len(more) : more[i] = whole[i]
      <3>1. \A i \in 1 .. Len(more) : SubSeq(whole, 1, Len(more))[i] = whole[i]
        BY <2>3, <2>4
      <3> QED BY <2>3, <3>1
    <2>6. Len(out) <= Len(whole) /\ \A i \in 1 .. Len(out) : whole[i] = out[i]
      BY <2>2, <2>3, <2>4, <2>5
    <2> QED BY <1>1, <2>3, <2>6, PrefixSaid DEF whole
  <1>5. CASE mode \notin {"HEADER", "COPY"}
    <2>1. PICK s : InTrail(input, s) /\ s.out = out
      BY <1>1, <1>5 DEF FInv, Tracks, Stands, SettledAs, Mode
    <2> QED BY <1>2, <2>1
  <1> QED BY <1>3, <1>4, <1>5

(***************************************************************************)
(* Whatever the input, valid or not, and however it and the room for the   *)
(* output are dealt out over the calls, the stream delivers a prefix of    *)
(* what the reference decoder makes of the input in one piece, and when it *)
(* settles, exactly that, with the same bytes used and the same verdict,   *)
(* which every later call repeats (decompress.c: all handlers).            *)
(***************************************************************************)
THEOREM ChunkingCorrect == Spec => []ChunkingInvisible
  <1>1. ASSUME FInv PROVE ChunkingInvisible
    <2> DEFINE expected == RefDecode(input)
               code == IF mode = "DONE" THEN "STREAM_END" ELSE error
    <2>1. out = SubSeq(expected.out, 1, Len(out))
      BY <1>1, PrefixOfAll
    <2>2. mode \in {"DONE", "ERROR"} => expected = Verdict(out, total_in, code)
      <3>1. mode = "ERROR" => error # "OK"
        BY <1>1 DEF FInv, IInv, ModeOK
      <3>2. mode \in {"DONE", "ERROR"} => SettledAs(code)
        BY <1>1 DEF FInv, Tracks
      <3>3. mode \in {"DONE", "ERROR"} => code # "OK"
        BY <3>1
      <3> HIDE DEF code
      <3> QED BY <1>1, <3>2, <3>3, SettledSays
    <2>3. ~running => result \in IF mode \in {"DONE", "ERROR"} THEN {code}
                                ELSE {"OK", "BUFFER_ERROR"}
      BY <1>1 DEF FInv, Answered
    <2> HIDE DEF expected, code
    <2>4. mode \in {"DONE", "ERROR"} =>
             out = expected.out /\ total_in = expected.used /\ expected.code = code
      BY <2>2 DEF Verdict
    <2> QED BY <2>1, <2>3, <2>4 DEF ChunkingInvisible, expected, code
  <1> QED BY <1>1, AlwaysFInv, PTL

(***************************************************************************)
(* Of an encoding the decoder makes exactly the data, in however many      *)
(* calls and with however little room: it never reports an error, what it  *)
(* has written is the beginning of the data, and when it is done the data  *)
(* is whole and the encoding read to its end.                              *)
(***************************************************************************)
DecodesTo(data) ==
    /\ mode # "ERROR"
    /\ out = SubSeq(data, 1, Len(out))
    /\ mode = "DONE" => out = data /\ total_in = Len(input)

LEMMA FollowsEncoding ==
    ASSUME FInv, NEW data \in Seq(Byte), Encodes(input, data)
    PROVE  DecodesTo(data)
  <1> DEFINE expected == RefDecode(input)
  <1>1. expected = Verdict(data, Len(input), "STREAM_END")
    BY EncodingDecodes DEF FInv, IInv, TypeOK, StreamTypeOK
  <1>2. out = SubSeq(expected.out, 1, Len(out))
    BY PrefixOfAll
  <1>3. mode = "ERROR" => expected = Verdict(out, total_in, error) /\ error # "STREAM_END"
    BY SettledSays DEF FInv, IInv, ModeOK, Tracks
  <1>4. mode = "DONE" => expected = Verdict(out, total_in, "STREAM_END")
    BY SettledSays DEF FInv, Tracks
  <1> HIDE DEF expected
  <1> QED BY <1>1, <1>2, <1>3, <1>4 DEF Verdict, DecodesTo

THEOREM DecodesEncodings ==
    Spec => [](\A data \in Seq(Byte) : Encodes(input, data) => DecodesTo(data))
  <1>1. FInv => \A data \in Seq(Byte) : Encodes(input, data) => DecodesTo(data)
    BY FollowsEncoding
  <1> QED BY <1>1, AlwaysFInv, PTL

-----------------------------------------------------------------------------
(* How a call ends. *)

\* A call passes on, or has come to an end of some kind: an error, the end of
\* the stream, the end of its input or that of its room.
LEMMA CallEnds ==
    ASSUME IInv, yaz0_decompress
    PROVE  \/ UNCHANGED callVars
           \/ mode = "ERROR" \/ mode' = "ERROR"
           \/ mode' = "DONE" /\ Return("STREAM_END")
           \/ flush # "FINISH" /\ avail_in' = 0 /\ Suspend
           \/ /\ mode \in {"LITERAL", "COPY"} /\ remaining > 0
              /\ avail_out = 0 /\ avail_out' = 0 /\ Suspend
  <1> USE DEF decompress_continue, decompress_suspend, decompress_error, At
  <1>1. CASE decompress_header
    <2>1. total_in \in Nat /\ avail_in \in Nat /\ history_pos \in Nat /\ history_pos < 3
      BY <1>1 DEF decompress_header, IInv, TypeOK, StreamTypeOK, ModeOK, HEADER_SIZE
    <2> DEFINE have == Least(HEADER_SIZE - history_pos, avail_in)
    <2>2. /\ Read(have)
          /\ \/ history_pos + have < HEADER_SIZE /\ Starved
             \/ mode' = "ERROR" \/ UNCHANGED callVars
      BY <1>1 DEF decompress_header
    <2>3. history_pos + have < HEADER_SIZE => avail_in' = 0
      BY <2>1, <2>2 DEF Read, Least, HEADER_SIZE
    <2> HIDE DEF have
    <2> QED BY <2>2, <2>3 DEF Starved
  <1>2. CASE decompress_start_block \/ decompress_literal \/ decompress_reference
    <2>1. avail_in \in Nat /\ avail_out \in Nat
      BY DEF IInv, TypeOK, StreamTypeOK
    <2>2. \/ UNCHANGED callVars \/ mode' = "ERROR"
          \/ ~HasInput /\ avail_in' = avail_in /\ Starved
          \/ mode = "LITERAL" /\ ~HasRoom /\ avail_out' = avail_out /\ Suspend
      BY <1>2 DEF decompress_start_block, decompress_literal, decompress_reference, NoEmit
    <2>3. mode = "LITERAL" => remaining > 0
      BY DEF IInv, ModeOK
    <2> QED BY <2>1, <2>2, <2>3 DEF Starved
  <1>3. CASE decompress_token
    BY <1>3 DEF decompress_token
  <1>4. CASE decompress_copy
    <2>1. avail_out \in Nat /\ remaining \in Nat /\ copy_length \in Nat
      BY DEF IInv, TypeOK, StreamTypeOK
    <2>2. copy_length <= remaining
      BY <1>4 DEF decompress_copy, IInv, ModeOK
    <2>3. \/ UNCHANGED callVars
          \/ copy_length > 0 /\ ~HasRoom /\ avail_out' = avail_out /\ Suspend
      BY <1>4 DEF decompress_copy, streamVars
    <2>4. mode = "COPY"
      BY <1>4 DEF decompress_copy
    <2> QED BY <2>1, <2>2, <2>3, <2>4
  <1>5. CASE Settled
    BY <1>5 DEF Settled
  <1> QED BY <1>1, <1>2, <1>3, <1>4, <1>5 DEF yaz0_decompress

\* A call that is offered input, unless it has all that is left, and room, unless
\* all of the data has been written, ends well.
LEMMA CallEndsWell ==
    ASSUME FInv, yaz0_decompress, NEW data \in Seq(Byte), Encodes(input, data),
           before_in = 0 => flush = "FINISH",
           before_out = 0 => Len(out) = Len(data)
    PROVE  \/ UNCHANGED callVars
           \/ ~running' /\ (result' = "OK" \/ (result' = "STREAM_END" /\ mode' = "DONE"))
  <1>1. IInv /\ Finishing /\ Tracks /\ FInv'
    BY NextFInv DEF FInv, Next
  <1>2. mode # "ERROR"
    BY FollowsEncoding DEF DecodesTo
  <1>3. mode' # "ERROR"
    <2>1. input' = input /\ input \in Seq(Byte)
      BY <1>1, HandlerFinishes DEF IInv, TypeOK, StreamTypeOK
    <2> SUFFICES ASSUME mode' = "ERROR" PROVE FALSE
      OBVIOUS
    <2>2. PICK s : InTrail(input, s) /\ s.code = error'
      BY <1>1, <2>1 DEF FInv, Tracks, SettledAs
    <2>3. error' # "OK" /\ error' # "STREAM_END"
      BY <1>1 DEF FInv, IInv, ModeOK
    <2>4. RefDecode(input).code = error'
      BY <2>1, <2>2, <2>3, TrailSays
    <2>5. RefDecode(input).code = "STREAM_END"
      BY <2>1, EncodingDecodes DEF Verdict
    <2> QED BY <2>3, <2>4, <2>5
  <1>4. CASE flush # "FINISH" /\ avail_in' = 0 /\ Suspend
    BY <1>4 DEF Suspend, Return
  <1>5. CASE /\ mode \in {"LITERAL", "COPY"} /\ remaining > 0
             /\ avail_out = 0 /\ avail_out' = 0 /\ Suspend
    <2>1. RefSize(input) = Len(data)
      BY <1>1, HeaderOnPath DEF Encodes, IInv, TypeOK, StreamTypeOK
    <2>2. Len(out) + remaining = Len(data) /\ Len(out) \in Nat /\ remaining \in Nat
      BY <1>1, <1>5, <2>1 DEF Tracks, Decoding, IInv, TypeOK, StreamTypeOK
    <2>3. before_out # 0
      BY <1>5, <2>2
    <2> QED BY <1>5, <2>3 DEF Suspend, Return
  <1> QED BY <1>1, <1>2, <1>3, <1>4, <1>5, CallEnds DEF Return
=============================================================================
