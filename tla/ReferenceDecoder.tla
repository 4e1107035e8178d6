-------------------------- MODULE ReferenceDecoder --------------------------
(***************************************************************************)
(* A decoder that is given the whole input at once and keeps its whole     *)
(* output, the way doc/ALGORITHM describes one: no ring, no modes, no      *)
(* buffers.  It is what the streams are measured against.                  *)
(***************************************************************************)
EXTENDS Yaz0Format

Verdict(out, used, code) == [out |-> out, used |-> used, code |-> code]

(***************************************************************************)
(* Where the decoder is between two tokens: the output, the bytes used for *)
(* it, the tokens of the block that are behind it and what they have left  *)
(* of its code byte.  As long as `code` is OK there is more to decode.     *)
(***************************************************************************)
Place(out, used, index, bits, code) ==
    [out |-> out, used |-> used, index |-> index, bits |-> bits, code |-> code]

Stopped(s, used, code) == [s EXCEPT !.used = used, !.code = code]

\* Behind the header a block must be opened.
RefHeader(bytes) ==
    LET At(used, code) == Place(<<>>, used, TOKENS_PER_BLOCK, 0, code) IN
    IF Len(bytes) < HEADER_SIZE THEN At(Len(bytes), "TRUNCATED")
    ELSE IF bytes[1] # MAGIC    THEN At(HEADER_SIZE, "BAD_HEADER")
    ELSE At(HEADER_SIZE, "OK")

RefSize(bytes) == read_be32(bytes[2], bytes[3])

\* A pair repeats what lies `distance` back, over and over if it is the longer.
Repeated(out, distance, length) ==
    out \o [k \in 1 .. length |-> out[Len(out) - distance + 1 + ((k - 1) % distance)]]

RefPair(bytes, s) ==
    LET room   == RefSize(bytes) - Len(s.out)
        size   == IF bytes[s.used + 1] \div NIBBLE = 0 THEN 3 ELSE 2
        pair   == SubSeq(bytes, s.used + 1, s.used + size)
        distance == ReferenceDistance(pair)
        length   == ReferenceLength(pair)
    IN IF s.used + size > Len(bytes)
       THEN Stopped(s, Len(bytes), "TRUNCATED")
       ELSE IF distance > Len(s.out) \/ length > room
       THEN Stopped(s, s.used + size, "DATA_ERROR")
       ELSE Place(Repeated(s.out, distance, length), s.used + size, s.index + 1,
                  s.bits, "OK")

\* One code byte, or one token.
RefTurn(bytes, s) ==
    IF s.code # "OK" THEN s
    ELSE IF Len(s.out) = RefSize(bytes) THEN Stopped(s, s.used, "STREAM_END")
    ELSE IF s.used = Len(bytes)         THEN Stopped(s, s.used, "TRUNCATED")
    ELSE IF s.index = TOKENS_PER_BLOCK
         THEN Place(s.out, s.used + 1, 0, bytes[s.used + 1], "OK")
    ELSE IF s.bits >= CodeBit(s.index)
         THEN Place(Append(s.out, bytes[s.used + 1]), s.used + 1, s.index + 1,
                    s.bits - CodeBit(s.index), "OK")
    ELSE RefPair(bytes, s)

RefPlaces(bytes) ==
    LET place[n \in Nat] ==
          IF n = 0 THEN RefHeader(bytes) ELSE RefTurn(bytes, place[n - 1])
    IN place

\* Every turn but the last uses a byte, so there are no more of them than bytes.
RefDecode(bytes) ==
    LET last == RefPlaces(bytes)[Len(bytes)] IN Verdict(last.out, last.used, last.code)
=============================================================================
