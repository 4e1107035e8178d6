------------------------------ MODULE Selection ------------------------------
(***************************************************************************)
(* Which search kernel and which matcher a compression stream gets: the    *)
(* tables of src/search.c and src/matcher.c, and the probes of src/cpu.c   *)
(* that say what the processor and its operating system can run.           *)
(***************************************************************************)
EXTENDS Integers, Sequences

NONE == "NONE"

Searches == {"AUTO", "REFERENCE", "SCALAR", "SSE2", "AVX2", "AVX512", "NEON",
             "SIMD128", "SWAR64"}

\* A build and the processor it runs on.  ymm_saved: the operating system has
\* enabled bits 1 and 2 of XCR0.
Machine == [
    target : {"X86", "X64", "AARCH64", "WASM", "OTHER"},
    little_endian : BOOLEAN,
    disabled : SUBSET Searches,     \* YAZ0_DISABLE_SSE2 and so on
    leaves : Nat,                   \* highest leaf of CPUID, 0 without CPUID
    sse2 : BOOLEAN, osxsave : BOOLEAN, avx : BOOLEAN, avx2 : BOOLEAN,
    ymm_saved : BOOLEAN ]

-----------------------------------------------------------------------------
(* Search kernels. *)

\* What is compiled in (YAZ0_HAVE_*, YAZ0_LITTLE_ENDIAN).
Built(machine, id) ==
    \/ id \in {"SSE2", "AVX2"} /\ machine.target \in {"X86", "X64"}
                               /\ id \notin machine.disabled
    \/ id = "NEON"    /\ machine.target = "AARCH64" /\ id \notin machine.disabled
    \/ id = "SIMD128" /\ machine.target = "WASM"    /\ id \notin machine.disabled
    \/ id = "SWAR64"  /\ machine.little_endian
    \/ id \in {"SCALAR", "REFERENCE"}

\* Mistake: a compiler that has the instructions is taken for a processor that has.
yaz0_sse2_supported_Assumed(machine) == TRUE

yaz0_sse2_supported(machine) ==
    machine.target = "X64" \/ (machine.leaves >= 1 /\ machine.sse2)

\* Mistake: the operating system is not asked whether it saves the registers.
yaz0_avx2_supported_NoSave(machine) ==
    machine.leaves >= 7 /\ machine.osxsave /\ machine.avx /\ machine.avx2

yaz0_avx2_supported(machine) ==
    machine.leaves >= 7 /\ machine.osxsave /\ machine.avx /\ machine.ymm_saved
        /\ machine.avx2

is_impl_supported(machine, id) ==
    CASE id = "SSE2" -> yaz0_sse2_supported(machine)
      [] id = "AVX2" -> yaz0_avx2_supported(machine)
      [] OTHER       -> TRUE

\* The fastest first.
implementations ==
    <<"AVX2", "SSE2", "NEON", "SIMD128", "SWAR64", "SCALAR", "REFERENCE">>

\* Mistake: a kernel that cannot be had is replaced by the portable one.
yaz0_search_select_FallsBack(machine, search) ==
    IF Built(machine, search) /\ is_impl_supported(machine, search)
    THEN search ELSE "SCALAR"

\* The first entry of the table that is built, supported and wanted.
yaz0_search_select(machine, search) ==
    LET Fits(i) == /\ Built(machine, implementations[i])
                   /\ is_impl_supported(machine, implementations[i])
                   /\ search \in {"AUTO", implementations[i]}
        fitting == {i \in DOMAIN implementations : Fits(i)}
    IN IF fitting = {} THEN NONE
       ELSE implementations[CHOOSE i \in fitting : \A j \in fitting : i <= j]

-----------------------------------------------------------------------------
(* Matchers.  The one there is runs everywhere. *)

matchers == <<"STANDARD">>

find_matcher(id) ==
    IF \E i \in DOMAIN matchers : matchers[i] = id THEN id ELSE NONE

matcher_for_level(level) == "STANDARD"

\* A request that cannot be met is an error; a policy that cannot is not.
yaz0_matcher_select(level, matcher) ==
    IF matcher # "AUTO" THEN find_matcher(matcher)
    ELSE IF find_matcher(matcher_for_level(level)) # NONE
         THEN find_matcher(matcher_for_level(level))
    ELSE IF matchers # <<>> THEN matchers[1]
    ELSE NONE
=============================================================================
