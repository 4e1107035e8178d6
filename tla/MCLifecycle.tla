----------------------------- MODULE MCLifecycle -----------------------------
(***************************************************************************)
(* The machines and memory of the runs of Lifecycle.                       *)
(***************************************************************************)
EXTENDS Lifecycle

Intel(avx2, saved) ==
    [target |-> "X64", little_endian |-> TRUE, disabled |-> {}, leaves |-> 7,
     sse2 |-> TRUE, osxsave |-> TRUE, avx |-> TRUE, avx2 |-> avx2, ymm_saved |-> saved]

\* With AVX2; with it, but an operating system that does not save its
\* registers; one with no vector unit; and a 64-bit ARM.
SomeMachines == {
    Intel(TRUE, TRUE),
    Intel(TRUE, FALSE),
    [Intel(FALSE, FALSE) EXCEPT !.target = "X86", !.leaves = 0, !.sse2 = FALSE],
    [Intel(FALSE, FALSE) EXCEPT !.target = "AARCH64", !.leaves = 0] }

OneMachine == {Intel(TRUE, TRUE)}

\* Far enough apart for the blocks; one is aligned, one just past a boundary.
SomeAddresses == {64, 129, 195}
=============================================================================
