---------------------------- MODULE Yaz0Encodings ----------------------------
(***************************************************************************)
(* What it means for a sequence of bytes to be a Yaz0 encoding of another. *)
(* There is a path through it, from the end of the header to its last      *)
(* byte, each step of which is a code byte or a token: a literal that is   *)
(* the next byte of the data, or a pair that repeats, from inside the data *)
(* already encoded, the bytes that come next.  The path is a set of points *)
(* in which every point but the last leads to another; nothing is counted  *)
(* and nothing recursive, so that it can be reasoned about.                *)
(***************************************************************************)
EXTENDS Yaz0Format

\* A place between the tokens: `at` bytes of the encoding stand for `from` bytes
\* of the data.  The code byte in force is byte `code` of the encoding, `index`
\* of its tokens are behind us, and `bits` is what they contribute to it.
Point == [at : Nat, from : Nat, index : 0 .. TOKENS_PER_BLOCK, code : Nat, bits : Nat]

\* Behind the header a block must be opened.
Start == [at |-> HEADER_SIZE, from |-> 0, index |-> TOKENS_PER_BLOCK, code |-> 0, bits |-> 0]

\* The bits left behind `index` tokens make up less than this.
Weight(index) == IF index = 0 THEN Radix ELSE CodeBit(index - 1)

\* Bytes from + 1 .. from + length of the data are those `distance` before them.
Repeats(data, from, length, distance) ==
    /\ distance \in 1 .. Least(MAX_DISTANCE, from)
    /\ \A k \in from + 1 .. from + length : data[k] = data[k - distance]

OpensBlock(p, q) ==
    /\ p.index = TOKENS_PER_BLOCK
    /\ q = [at |-> p.at + 1, from |-> p.from, index |-> 0, code |-> p.at + 1, bits |-> 0]

AddsLiteral(bytes, data, p, q) ==
    /\ p.index < TOKENS_PER_BLOCK
    /\ q = [at |-> p.at + 1, from |-> p.from + 1, index |-> p.index + 1,
            code |-> p.code, bits |-> p.bits + CodeBit(p.index)]
    /\ bytes[q.at] = data[q.from]

AddsPair(bytes, data, p, q, length, distance) ==
    LET pair == EncodeReference(length, distance) IN
    /\ p.index < TOKENS_PER_BLOCK
    /\ q = [at |-> p.at + Len(pair), from |-> p.from + length, index |-> p.index + 1,
            code |-> p.code, bits |-> p.bits]
    /\ length \in MIN_MATCH .. MAX_MATCH
    /\ Repeats(data, p.from, length, distance)
    /\ \A k \in 1 .. Len(pair) : bytes[p.at + k] = pair[k]

Leads(bytes, data, p, q) ==
    \/ OpensBlock(p, q)
    \/ AddsLiteral(bytes, data, p, q)
    \/ \E length, distance \in Nat : AddsPair(bytes, data, p, q, length, distance)

\* The code byte in force still holds the bits of the tokens to come.
InForce(bytes, p) ==
    /\ p.code \in HEADER_SIZE + 1 .. p.at
    /\ bytes[p.code] - p.bits \in 0 .. Weight(p.index) - 1

\* The points lead to `last`.
Path(bytes, data, points, last) ==
    /\ points \subseteq Point /\ Start \in points /\ last \in points
    /\ \A p \in points :
          /\ p.at \in HEADER_SIZE .. last.at /\ p.from <= last.from
          /\ p = Start \/ InForce(bytes, p)
          /\ p = last \/ \E q \in points : Leads(bytes, data, p, q)

\* They account for every byte, and no block is opened for nothing.
Spans(bytes, data, points, last) ==
    /\ Path(bytes, data, points, last)
    /\ last.at = Len(bytes) /\ last.from = Len(data) /\ last.index # 0

HasHeader(bytes, size) ==
    /\ HEADER_SIZE <= Len(bytes)
    /\ \A i \in 1 .. HEADER_SIZE : bytes[i] = yaz0_write_header(size)[i]

Encodes(bytes, data) ==
    /\ Len(data) < Radix * Radix
    /\ HasHeader(bytes, Len(data))
    /\ \E points \in SUBSET Point, last \in Point : Spans(bytes, data, points, last)
=============================================================================
