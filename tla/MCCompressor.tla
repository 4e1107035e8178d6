---------------------------- MODULE MCCompressor ----------------------------
(***************************************************************************)
(* The inputs of the runs of Compressor, and what doc/ALGORITHM says of    *)
(* the tokens it puts off.                                                 *)
(***************************************************************************)
EXTENDS Compressor

\* Longer than the window: the first holds a match back while the window
\* slides, and then needs the oldest byte left in it; the second and third
\* use the longest distance and length after a slide; the last has no matches.
LongInputs == {
    <<2, 1, 1, 2, 2, 0, 0, 1, 2, 2, 2, 2, 1, 2, 1, 2, 2, 2, 2, 1, 1>>,
    <<0, 0, 2, 0, 1, 0, 2, 0, 0, 2, 1, 0, 2, 0, 2, 0, 2, 1, 0, 2, 0>>,
    <<2, 1, 1, 2, 1, 2, 0, 1, 2, 1, 2, 0, 2, 0, 1, 2, 1, 2, 2, 2, 2, 0, 2>>,
    <<0, 1, 2, 3, 4, 5, 6, 7, 8, 9, 10, 11, 12, 13, 14, 15, 0, 2, 4, 6, 8>> }

\* Every input of up to six bytes over two values, and those that go on from
\* an opening behind which a match may be put off for a longer one; and one
\* where only the byte beyond the longest match tells whether to put it off.
ShortInputs ==
    UNION {[1 .. n -> 0 .. 1] : n \in 0 .. 6}
    \cup {<<0, 0, 0, 1>> \o rest : rest \in [1 .. 6 -> 0 .. 1]}
    \cup {<<0, 0, 0, 0, 1, 0, 0, 0, 0, 0, 0, 0, 1>>}

\* A few short ones, for callers that misjudge their size or give up early; in
\* the last, a match is held back when the second block waits for room.
FewInputs == {<<>>, <<0, 1, 0, 1, 0, 1, 0>>, <<2, 0, 0, 0, 1, 0, 0, 0, 0, 0, 0>>}

OneLongInput == {<<2, 1, 1, 2, 2, 0, 0, 1, 2, 2, 2, 2, 1, 2, 1, 2, 2, 2, 2, 1, 1>>}

\* The shortest input where the match a byte later is longer by just one.
LazyInput == {<<0, 0, 0, 1, 0, 0, 0, 0, 0, 1>>}

AnySlack  == -1 .. 1
AnyLevel  == {-1, 4}

\* OneLongInput declared by its length, and declared empty.
RightOrNothing == {0, -21}

-----------------------------------------------------------------------------

\* doc/ALGORITHM: "If the found match is longer than the current match, the
\* compressor will encode a literal now and encode the deferred match later."
DefersLongerMatch ==
    [][mode = "FIND_MATCH" /\ mode' = "EMIT" /\ ~deferred =>
          \A now, next \in Token :
             /\ Finds(window_pos, now) /\ now.length >= MIN_MATCH
             /\ Finds(window_pos + 1, next) /\ next.length > now.length
             => deferred']_vars
=============================================================================
