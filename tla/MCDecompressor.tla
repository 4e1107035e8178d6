--------------------------- MODULE MCDecompressor ---------------------------
(***************************************************************************)
(* The inputs of the runs of Decompressor.                                 *)
(***************************************************************************)
EXTENDS Decompressor

\* Every body of at most n bytes behind every declared size up to 5, and the
\* headers that are cut short or carry the wrong magic.
HeaderOf(size) == yaz0_write_header(size)
Bodies(n) == UNION {[1 .. k -> Byte] : k \in 0 .. n}
Headless == {SubSeq(HeaderOf(4), 1, k) : k \in 0 .. 2} \cup {<<2, 0, 1, 3>>}

\* ... and those of five that open with a literal and a pair, long or short.
ShortInputs ==
    Headless
    \cup {HeaderOf(size) \o body : size \in 0 .. 5, body \in Bodies(4)}
    \cup {HeaderOf(size) \o <<2, 1>> \o rest :
              size \in 3 .. 6, rest \in [1 .. 3 -> Byte]}

\* Streams that fill the ring more than once and copy across its seam, with
\* the longest distance, overlapping runs and a last group cut short.
Lit2(a, b) == <<3, a, b>>
LitRef(a, length, distance) == <<2, a>> \o EncodeReference(length, distance)
RefRef(l1, d1, l2, d2) == <<0>> \o EncodeReference(l1, d1) \o EncodeReference(l2, d2)

RingInputs == {
    HeaderOf(15) \o Lit2(1, 2) \o Lit2(3, 0) \o Lit2(0, 2) \o Lit2(3, 1)
                 \o LitRef(3, 3, 8) \o Lit2(2, 0) \o Lit2(1, 1),
    HeaderOf(15) \o Lit2(1, 2) \o LitRef(3, 7, 2) \o LitRef(0, 4, 8),
    HeaderOf(14) \o Lit2(1, 2) \o Lit2(3, 0) \o RefRef(5, 4, 5, 8),
    HeaderOf(13) \o LitRef(1, 7, 1) \o LitRef(2, 3, 8) \o Lit2(3, 3),
    HeaderOf(11) \o Lit2(1, 2) \o LitRef(3, 7, 3) \o LitRef(0, 3, 8),
    HeaderOf(12) \o Lit2(1, 2) \o LitRef(3, 7, 4) }

\* A long stream, one that fails and one that trusts what a reset left behind.
ResetInputs == {
    HeaderOf(9) \o Lit2(1, 2) \o LitRef(3, 5, 2) \o Lit2(0, 0),
    HeaderOf(4) \o LitRef(3, 3, 2),
    HeaderOf(5) \o LitRef(2, 3, 1) \o Lit2(1, 0),
    <<2, 0, 1, 3>> }

=============================================================================
