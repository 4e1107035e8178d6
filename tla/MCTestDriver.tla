---------------------------- MODULE MCTestDriver ----------------------------
(***************************************************************************)
(* The files of the run of TestDriver.                                     *)
(***************************************************************************)
EXTENDS TestDriver

\* Longer than the window, which slides and is filled up again, and than twice
\* the history ring: a stretch with few repetitions, one that repeats it from
\* nearly the longest distance, a long run, and some more.
LongFile ==
    [i \in 1 .. 160 |->
        IF i <= 63 THEN ((i * i) \div 3 + i) % 16
        ELSE IF i <= 90 THEN (((i - 63) * (i - 63)) \div 3 + i - 63) % 16
        ELSE IF i <= 130 THEN 7
        ELSE (i * i) % 11]

\* Every file of up to five bytes over two values, one with a match put off for
\* a longer one, and the long one.
Files ==
    UNION {[1 .. n -> 0 .. 1] : n \in 0 .. 5}
        \cup {<<0, 0, 0, 1, 0, 0, 0, 0, 0, 1, 0>>, LongFile}
=============================================================================
