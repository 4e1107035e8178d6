----------------------------- MODULE Yaz0Format -----------------------------
(***************************************************************************)
(* The Yaz0 container format: the size parameters of src/common.h, the     *)
(* header codec of src/yaz0.c, and the byte layout of the code byte and of *)
(* the length-distance pairs that compress.c writes and decompress.c       *)
(* reads.                                                                  *)
(*                                                                         *)
(* A byte is a digit in base Radix = NIBBLE * NIBBLE (256 = 16 * 16 in the *)
(* code), so every shift and mask of the code is a division, a product or  *)
(* a remainder here and small values of NIBBLE give a small format with    *)
(* the same layout.  The header keeps one magic byte and a two-digit       *)
(* big-endian size; its alignment hint and reserved bytes are copied       *)
(* through by the code and never inspected, and are left out.              *)
(***************************************************************************)
EXTENDS Integers, Sequences

CONSTANTS
    NIBBLE,            \* values of a half byte: 16
    TOKENS_PER_BLOCK,  \* tokens behind one code byte: 8
    MAX_DISTANCE,      \* reach of a back-reference: 4096
    MAX_MATCH          \* longest match: 273

MIN_MATCH         == 3
DISTANCE_BIAS     == 1
SHORT_LENGTH_BIAS == 2
LONG_LENGTH_BIAS  == SHORT_LENGTH_BIAS + NIBBLE

Radix == NIBBLE * NIBBLE
Byte  == 0 .. Radix - 1

(***************************************************************************)
(* What the #defines of common.h satisfy: a distance fits the three half   *)
(* bytes left for it, a length fits the third byte, and a match is shorter *)
(* than the reach of a back-reference.                                     *)
(***************************************************************************)
ASSUME FormatAssumption ==
    /\ NIBBLE \in Nat /\ NIBBLE >= 2
    /\ TOKENS_PER_BLOCK \in Nat \ {0}
    /\ MAX_DISTANCE \in Nat /\ MAX_DISTANCE <= NIBBLE * Radix
    /\ MAX_MATCH \in Nat
    /\ MIN_MATCH <= MAX_MATCH /\ MAX_MATCH < LONG_LENGTH_BIAS + Radix
    /\ MAX_MATCH < MAX_DISTANCE

Least(m, n) == IF m <= n THEN m ELSE n

-----------------------------------------------------------------------------
(* The header. *)

MAGIC       == 1
HEADER_SIZE == 3

write_be32(v) == <<(v \div Radix) % Radix, v % Radix>>
read_be32(hi, lo) == hi * Radix + lo

yaz0_write_header(size) == <<MAGIC>> \o write_be32(size)

-----------------------------------------------------------------------------
(* The code byte: its most significant bit belongs to the first token. *)

CodeBit(index)    == Radix \div (2 ^ (index + 1))
IsLiteral(mask)   == mask >= Radix \div 2
NextToken(mask)   == (mask * 2) % Radix

\* A code byte has a bit for every token of its block: halving the highest of
\* them loses nothing on the way to the lowest.
ASSUME CodeByteAssumption ==
    /\ \A index \in 0 .. TOKENS_PER_BLOCK - 1 : CodeBit(index) \in 1 .. Radix - 1
    /\ CodeBit(0) * 2 = Radix
    /\ \A index \in 1 .. TOKENS_PER_BLOCK - 1 : CodeBit(index) * 2 = CodeBit(index - 1)

-----------------------------------------------------------------------------
(* Length-distance pairs: two bytes for a short match, three for a long. *)

\* Mistake: the distance is stored as it is.
EncodeReference_Unbiased(length, distance) ==
    IF length < LONG_LENGTH_BIAS
    THEN << (length - SHORT_LENGTH_BIAS) * NIBBLE + distance \div Radix,
            distance % Radix >>
    ELSE << distance \div Radix, distance % Radix, length - LONG_LENGTH_BIAS >>

EncodeReference(length, distance) ==
    LET d == distance - DISTANCE_BIAS IN
    IF length < LONG_LENGTH_BIAS
    THEN << (length - SHORT_LENGTH_BIAS) * NIBBLE + d \div Radix, d % Radix >>
    ELSE << d \div Radix, d % Radix, length - LONG_LENGTH_BIAS >>

ReferenceComplete(r) ==
    \/ Len(r) = 3
    \/ Len(r) = 2 /\ r[1] \div NIBBLE # 0

ReferenceDistance(r) == (r[1] % NIBBLE) * Radix + r[2] + DISTANCE_BIAS

\* Mistake: a short length has the wrong bias.
ReferenceLength_WrongBias(r) ==
    IF r[1] \div NIBBLE # 0
    THEN r[1] \div NIBBLE + DISTANCE_BIAS
    ELSE r[3] + LONG_LENGTH_BIAS

ReferenceLength(r) ==
    IF r[1] \div NIBBLE # 0
    THEN r[1] \div NIBBLE + SHORT_LENGTH_BIAS
    ELSE r[3] + LONG_LENGTH_BIAS
=============================================================================
