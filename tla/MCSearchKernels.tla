--------------------------- MODULE MCSearchKernels ---------------------------
(***************************************************************************)
(* The kernels in small, and the windows they are tried on.                *)
(***************************************************************************)
EXTENDS SearchWords

Blocks1(step, unit) == [filters |-> TRUE, loops |-> <<[step |-> step, unit |-> unit]>>]

AllKernels == {
    [filters |-> FALSE, loops |-> <<>>],                      \* reference
    [filters |-> TRUE, loops |-> <<>>],                       \* scalar
    Blocks1(3, 3),                                            \* SWAR, SSE2, AVX2
    Blocks1(2, 4),                                            \* SIMD128
    [filters |-> TRUE, loops |-> <<[step |-> 4, unit |-> 4],
                                   [step |-> 2, unit |-> 2]>>] }  \* NEON

\* Every window of two byte values up to 10 long, and of three that begins
\* like what is searched for.  Bytes differ in all bits, in the top one, or in
\* all others.
Binary == UNION {[1 .. n -> {0, 15}] : n \in MIN_MATCH .. 10}
Ternary == {w \in [1 .. 8 -> {0, 7, 15}] : w[1] = 0 /\ w[2] = 7 /\ w[6] = 0 /\ w[7] = 7}
AllWindows == Binary \cup Ternary
=============================================================================
