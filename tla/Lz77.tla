-------------------------------- MODULE Lz77 --------------------------------
(***************************************************************************)
(* What a decompression stream promises (doc/ALGORITHM, "Decompression     *)
(* Algorithm"): the output grows one byte at a time, each byte a literal   *)
(* or the byte `distance` places back in the WHOLE output so far, and the  *)
(* output never outgrows the declared size.  There are no buffers, no ring *)
(* and no suspended calls here: the decoder remembers everything.          *)
(***************************************************************************)
EXTENDS Integers, Sequences

CONSTANTS Symbol,        \* the values of a byte
          MinLength,     \* shortest match
          Reach          \* longest distance

VARIABLES size,          \* declared size of the output, 0 before the header
          out,           \* bytes decoded so far
          distance,      \* the reference being expanded: its distance ...
          length         \* ... and what is left of its length

vars == <<size, out, distance, length>>

Init == size = 0 /\ out = <<>> /\ distance = 0 /\ length = 0

Header ==
    /\ size = 0 /\ out = <<>>
    /\ size' \in Nat
    /\ UNCHANGED <<out, distance, length>>

Literal ==
    /\ length = 0 /\ Len(out) < size
    /\ \E b \in Symbol : out' = Append(out, b)
    /\ UNCHANGED <<size, distance, length>>

Reference ==
    /\ length = 0
    /\ distance' \in 1 .. Reach /\ distance' <= Len(out)
    /\ length' \in MinLength .. size - Len(out)
    /\ UNCHANGED <<size, out>>

Copy ==
    /\ length > 0
    /\ out' = Append(out, out[Len(out) + 1 - distance])
    /\ length' = length - 1
    /\ UNCHANGED <<size, distance>>

\* The caller starts the stream over.
Restart == size' = 0 /\ out' = <<>> /\ distance' = 0 /\ length' = 0

Next == Header \/ Literal \/ Reference \/ Copy \/ Restart

Spec == Init /\ [][Next]_vars
=============================================================================
