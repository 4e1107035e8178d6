----------------------------- MODULE SearchWords -----------------------------
(***************************************************************************)
(* The words behind the masks of SearchKernels: how search_swar64.c and    *)
(* search_neon.c, which have no instruction for it, make a mask of the     *)
(* lanes that pass the filter, walk through it, and find the first byte in *)
(* which two words differ.  A word of n lanes is a number below Radix^n,   *)
(* lane 0 its lowest digit, as on the little-endian machines they run on.  *)
(***************************************************************************)
EXTENDS SearchKernels, Bitwise
LOCAL INSTANCE FiniteSetsExt

CONSTANTS LANE_BITS   \* 8

ASSUME WordAssumption == Radix = 2 ^ LANE_BITS

HALF_BITS == LANE_BITS \div 2

\* The word with Lane(k) in lane k of n.
Word(n, Lane(_)) == MapThenSumSet(LAMBDA k : Lane(k) * Radix ^ k, 0 .. n - 1)

yaz0_load64(pos, n) == Word(n, LAMBDA k : At(pos + k))
yaz0_splat64(b, n)  == Word(n, LAMBDA k : 1) * b
Complement(w, n)    == yaz0_splat64(Radix - 1, n) ^^ w

yaz0_ctz64(w) ==
    CHOOSE b \in 0 .. w : (w \div 2 ^ b) % 2 = 1 /\ \A lower \in 0 .. b - 1 : (w \div 2 ^ lower) % 2 = 0

-----------------------------------------------------------------------------
(* search_swar64.c. *)

High == Radix \div 2   \* 0x80, and 0x7f below it

\* Mistake: without its mask the addition carries from lane to lane.
ZeroLanes_Carries(diff, n) ==
    LET t0 == (Complement(diff, n) + yaz0_splat64(1, n)) % Radix ^ n
        t1 == Complement(diff, n) & yaz0_splat64(High, n)
    IN t0 & t1

\* The top bit of every lane of diff that is zero.
ZeroLanes(diff, n) ==
    LET t0 == ((Complement(diff, n) & yaz0_splat64(High - 1, n)) + yaz0_splat64(1, n))
                  % Radix ^ n
        t1 == Complement(diff, n) & yaz0_splat64(High, n)
    IN t0 & t1

swar_mask(n) ==
    ZeroLanes((yaz0_load64(i, n) ^^ yaz0_splat64(At(offset), n))
                  | (yaz0_load64(i + want_offset, n)
                         ^^ yaz0_splat64(At(offset + want_offset), n)), n)

swar_rest(word) == word & (word - 1)

\* The first byte that differs: whole words, then one by one.
FirstDifference(pos, n, Differ(_)) ==
    LET whole == {n * k : k \in 0 .. (max_lookahead \div n) - 1}
        end   == n * (max_lookahead \div n)
        words == {k \in whole : Differ(k) # 0}
        bytes == {k \in end .. max_lookahead - 1 : At(pos + k) # At(offset + k)}
    IN IF words # {} THEN Min(words) + Differ(Min(words)) - 1
       ELSE Min(bytes \cup {max_lookahead})

\* For FirstDifference: one more than the lane that differs, or 0.
swar_differs(pos, n, k) ==
    LET diff == yaz0_load64(pos + k, n) ^^ yaz0_load64(offset + k, n)
    IN IF diff = 0 THEN 0 ELSE 1 + yaz0_ctz64(diff) \div LANE_BITS

yaz0_length_swar64(pos, n) == FirstDifference(pos, n, LAMBDA k : swar_differs(pos, n, k))

-----------------------------------------------------------------------------
(* search_neon.c: a comparison sets all bits of a lane or none, and half of *)
(* them are left of each when pairs of lanes are shifted and narrowed.      *)

vceq(x, y) == IF x = y THEN Radix - 1 ELSE 0

yaz0_move_mask(n, Lane(_)) ==
    Word(n \div 2,
         LAMBDA k : ((Lane(2 * k) + Radix * Lane(2 * k + 1)) \div NIBBLE) % Radix)

neon_mask(n) ==
    yaz0_move_mask(n, LAMBDA k : vceq(At(i + k), At(offset))
                                     & vceq(At(i + want_offset + k), At(offset + want_offset)))

neon_rest(word, n) ==
    word & ((NIBBLE ^ n - 1) ^^ ((NIBBLE - 1) * 2 ^ yaz0_ctz64(word)))

neon_differs(pos, n, k) ==
    LET same == yaz0_move_mask(n, LAMBDA m : vceq(At(pos + k + m), At(offset + k + m)))
        diff == (NIBBLE ^ n - 1) ^^ same
    IN IF diff = 0 THEN 0 ELSE 1 + yaz0_ctz64(diff) \div HALF_BITS

yaz0_length_neon(pos, n) == FirstDifference(pos, n, LAMBDA k : neon_differs(pos, n, k))

-----------------------------------------------------------------------------
(* Properties. *)

\* The words that stand for a set of candidates of the block from base on.
swar_word(S, base) == MapThenSumSet(LAMBDA pos : High * Radix ^ (pos - base), S)
neon_word(S, base) == MapThenSumSet(LAMBDA pos : (NIBBLE - 1) * NIBBLE ^ (pos - base), S)

Paired == Step % 2 = 0   \* NEON takes lanes in pairs

\* The word formed for a block stands for its hits: no carry makes one or
\* hides one.
MasksAreHits ==
    running /\ mask = {} /\ Blocks /\ i < BlockEnd =>
        /\ swar_mask(Step) = swar_word(Hits, i)
        /\ Paired => neon_mask(Step) = neon_word(Hits, i)

\* What is left of it names its lowest candidate, and clears that one alone.
LanesInOrder ==
    running /\ mask # {} =>
        LET base == i - Step
            word == swar_word(mask, base)
            nibbles == neon_word(mask, base)
        IN /\ base + yaz0_ctz64(word) \div LANE_BITS = Min(mask)
           /\ swar_rest(word) = swar_word(mask \ {Min(mask)}, base)
           /\ Paired =>
                 /\ base + yaz0_ctz64(nibbles) \div HALF_BITS = Min(mask)
                 /\ neon_rest(nibbles, Step) = neon_word(mask \ {Min(mask)}, base)

\* Word by word or byte by byte, the run is as long.
WordsMeasure ==
    running => \A pos \in mask :
        /\ IsLength(pos, yaz0_length_swar64(pos, Step))
        /\ Paired => IsLength(pos, yaz0_length_neon(pos, Step))

\* The words of search_swar64.c and search_neon.c do what the sets of lanes of
\* SearchKernels do.
WordsAreLanes == MasksAreHits /\ LanesInOrder /\ WordsMeasure
=============================================================================
