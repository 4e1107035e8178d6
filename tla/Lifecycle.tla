------------------------------ MODULE Lifecycle ------------------------------
(***************************************************************************)
(* The life of the streams of a program: the init, reset and end functions *)
(* of src/compress.c and src/decompress.c, the allocation functions of     *)
(* src/common.c, and a caller who supplies allocators of its own, which    *)
(* may fail, and replaces them as it likes.                                *)
(*                                                                         *)
(* A stream's state is one block of memory, and a compression stream has a *)
(* second one for its matcher.  The allocator a stream was initialised     *)
(* with is remembered in the first of them.                                *)
(***************************************************************************)
EXTENDS Selection

CONSTANTS
    Streams,        \* the program's struct yaz0_stream objects
    Allocators,     \* the caller's allocators (alloc, free and opaque)
    Addresses,      \* where a block may be placed
    Machines,       \* the machines considered
    Levels,         \* levels asked for, good and bad
    Requests,       \* search implementations asked for
    MatcherRequests,\* matchers asked for
    STATE_SIZE,     \* sizeof struct yaz0_compress_state, and the other
    MATCHER_SIZE, MATCHER_ALIGN

NULL == 0
DEFAULT == "malloc"   \* alloc and free not set
HALF == "half"        \* one of them set

ASSUME LifecycleAssumption ==
    /\ Machines \subseteq Machine
    /\ Addresses \subseteq Nat \ {NULL}
    /\ Requests \subseteq Searches
    /\ {DEFAULT, HALF, NONE} \cap Allocators = {}
    /\ STATE_SIZE \in Nat \ {0} /\ MATCHER_SIZE \in Nat \ {0}
    /\ MATCHER_ALIGN \in Nat \ {0}

VARIABLES
    machine,     \* never changes
    allocator,   \* the alloc, free and opaque of each stream now
    state,       \* the state of each stream
    heap,        \* who has given out the block at each address, and its size
    call         \* the last call: its function, its stream and its result

vars == <<machine, allocator, state, heap, call>>

Block == [by : Allocators \cup {DEFAULT, NONE}, size : Nat]
Unused == [by |-> NONE, size |-> 0]

CompressState == [
    kind : {"COMPRESSOR"}, at : Addresses, via : Allocators \cup {DEFAULT},
    requested_matcher : MatcherRequests \cup {"AUTO"},
    matcher : {"STANDARD", NONE},
    matcher_alloc : Addresses \cup {NULL}, matcher_state : Nat,
    search_id : Searches \cup {NONE},
    impl : Searches \cup {NONE},            \* the kernel inside the matcher
    requested_search : Searches \cup {NONE} ]
        \* auxiliary: the code keeps no more than what was selected, and no
        \* step reads what was asked for

DecompressState == [kind : {"DECOMPRESSOR"}, at : Addresses, via : Allocators \cup {DEFAULT}]

NoState == [kind |-> NONE]

Init ==
    /\ machine \in Machines
    /\ allocator = [s \in Streams |-> DEFAULT]
    /\ state = [s \in Streams |-> NoState]
    /\ heap = [a \in Addresses |-> Unused]
    /\ call = [function |-> NONE, stream |-> NONE, result |-> "OK"]

-----------------------------------------------------------------------------
(* Memory. *)

\* Mistake: the allocator is the stream's at the time of the call.
Via_Current(s, self) == IF allocator[s] = HALF THEN DEFAULT ELSE allocator[s]

\* The allocator a stream's memory comes from and goes back to: the one in its
\* state, or as long as it has none, the one of the stream.
Via(s, self) == IF self = NoState THEN allocator[s] ELSE self.via

\* Every way to allocate: it fails, or there is a block at some free address.
Allocations(mem, size, by) ==
    {[mem |-> mem, at |-> NULL]} \cup
    {[mem |-> [mem EXCEPT ![a] = [by |-> by, size |-> size]], at |-> a] :
        a \in {a \in Addresses : mem[a] = Unused}}

\* A block goes back to the allocator it is handed to.  One that is given back
\* twice, or to the wrong allocator, stays behind, marked by a size of 0.
Freed(mem, a, by) ==
    IF a = NULL THEN mem
    ELSE IF mem[a].by = by /\ mem[a].size > 0 THEN [mem EXCEPT ![a] = Unused]
    ELSE [mem EXCEPT ![a] = [by |-> DEFAULT, size |-> 0]]

\* Mistake: the raw pointer, moved past a boundary that may not be there.
align_up_Past(raw) == ((raw \div MATCHER_ALIGN) + 1) * MATCHER_ALIGN

\* The first aligned address of a block.
align_up(raw) == ((raw + MATCHER_ALIGN - 1) \div MATCHER_ALIGN) * MATCHER_ALIGN

-----------------------------------------------------------------------------
(* Configuration: the outcomes of a call as records of the state, the heap *)
(* and the result it leaves.                                               *)

Outcome(self, mem, result) == [self |-> self, mem |-> mem, result |-> result]

compress_validate_options(options) ==
    IF options.level \notin -1 .. 9 THEN "STREAM_ERROR"
    ELSE IF yaz0_search_select(machine, options.search) = NONE THEN "UNSUPPORTED"
    ELSE "OK"

\* Another matcher than before gives its memory back first.  Memory is only
\* asked for when there is none.
compress_configure_matcher(s, self, mem, options) ==
    LET matcher == yaz0_matcher_select(options.level, self.requested_matcher)
        kept    == self.matcher = matcher
        old     == IF kept THEN self
                   ELSE [self EXCEPT !.matcher_alloc = NULL, !.matcher_state = NULL]
        left    == IF kept THEN mem ELSE Freed(mem, self.matcher_alloc, Via(s, self))
        impl    == yaz0_search_select(machine, options.search)
    IN IF matcher = NONE THEN {Outcome(self, mem, "UNSUPPORTED")}
       ELSE IF old.matcher_alloc # NULL
            THEN {Outcome([old EXCEPT !.matcher = matcher, !.impl = impl], left, "OK")}
       ELSE {IF t.at = NULL THEN Outcome(old, t.mem, "MEMORY_ERROR")
             ELSE Outcome([old EXCEPT !.matcher = matcher, !.impl = impl,
                                      !.matcher_alloc = t.at,
                                      !.matcher_state = align_up(t.at)], t.mem, "OK") :
                t \in Allocations(left, MATCHER_SIZE + MATCHER_ALIGN - 1, Via(s, self))}

compress_configure(s, self, mem, options) ==
    compress_configure_matcher(
        s, [self EXCEPT !.search_id = yaz0_search_select(machine, options.search),
                        !.requested_search = options.search],
        mem, options)

-----------------------------------------------------------------------------
(* The functions a caller uses. *)

Options == [level : Levels, search : Requests]

IsCompressor(s)   == state[s].kind = "COMPRESSOR"
IsDecompressor(s) == state[s].kind = "DECOMPRESSOR"

NewCompressState(s, a) ==
    [kind |-> "COMPRESSOR", at |-> a, via |-> allocator[s],
     requested_matcher |-> "AUTO", matcher |-> NONE,
     matcher_alloc |-> NULL, matcher_state |-> NULL,
     search_id |-> NONE, impl |-> NONE, requested_search |-> NONE]

\* Both blocks, the state last, for it says where they go.
Released(s, self, mem) ==
    LET left == IF self.kind = "COMPRESSOR"
                THEN Freed(mem, self.matcher_alloc, Via(s, self)) ELSE mem
    IN Freed(left, self.at, Via(s, self))

\* Mistake: one of the two functions is taken for both.
Checked_Half(s, options) == compress_validate_options(options)

\* What init refuses before it takes any memory.
Checked(s, options) ==
    IF allocator[s] = HALF THEN "STREAM_ERROR" ELSE compress_validate_options(options)

\* Mistake: a state that cannot be configured is only forgotten.
Undone_Forgets(s, o) == Outcome(NoState, o.mem, o.result)

\* A state that could not be configured is given back, and the stream is left
\* without one.
Undone(s, o) == Outcome(NoState, Freed(o.mem, o.self.at, Via(s, o.self)), o.result)

InitWithOptions(s, options) ==
    LET Configured(t) ==
            {IF o.result = "OK" THEN o ELSE Undone(s, o) :
                o \in compress_configure(s, NewCompressState(s, t.at), t.mem, options)}
    IN IF Checked(s, options) # "OK"
       THEN {Outcome(NoState, heap, Checked(s, options))}
       ELSE UNION {IF t.at = NULL THEN {Outcome(NoState, t.mem, "MEMORY_ERROR")}
                   ELSE Configured(t) :
                       t \in Allocations(heap, STATE_SIZE, Via(s, NoState))}

\* yaz0_compress_init_with_matcher: an init, then a second configuration.
InitWithMatcher(s, options, matcher) ==
    LET Then(o) ==
          IF o.result # "OK" \/ matcher = "AUTO" THEN {o}
          ELSE {IF again.result = "OK" THEN again
                ELSE Outcome(NoState, Released(s, again.self, again.mem), again.result) :
                  again \in compress_configure(
                      s, [o.self EXCEPT !.requested_matcher = matcher], o.mem, options)}
    IN UNION {Then(o) : o \in InitWithOptions(s, options)}

\* A function returns, leaving a state in the stream.
Returns(function, s, outcome) ==
    /\ state' = [state EXCEPT ![s] = outcome.self]
    /\ heap' = outcome.mem
    /\ call' = [function |-> function, stream |-> s, result |-> outcome.result]
    /\ UNCHANGED <<machine, allocator>>

\* The caller zero-initialises a stream before use, so it has no state yet.
yaz0_compress_init_with_matcher(s) ==
    /\ state[s] = NoState
    /\ \E options \in Options, matcher \in MatcherRequests :
          \E outcome \in InitWithMatcher(s, options, matcher) :
              Returns("init", s, outcome)

yaz0_compress_reset(s) ==
    \E options \in Options :
        \/ ~IsCompressor(s) /\ Returns("reset", s, Outcome(state[s], heap, "STREAM_ERROR"))
        \/ /\ IsCompressor(s) /\ compress_validate_options(options) # "OK"
           /\ Returns("reset", s,
                      Outcome(state[s], heap, compress_validate_options(options)))
        \/ /\ IsCompressor(s) /\ compress_validate_options(options) = "OK"
           /\ \E outcome \in compress_configure(s, state[s], heap, options) :
                  Returns("reset", s, outcome)

\* It says nothing of a stream that is not one of its own.
yaz0_compress_end(s) ==
    IF IsCompressor(s)
    THEN Returns("end", s, Outcome(NoState, Released(s, state[s], heap), "OK"))
    ELSE Returns("end", s, Outcome(state[s], heap, "OK"))

yaz0_decompress_init(s) ==
    /\ state[s] = NoState
    /\ \/ /\ allocator[s] = HALF
          /\ Returns("init", s, Outcome(NoState, heap, "STREAM_ERROR"))
       \/ /\ allocator[s] # HALF
          /\ \E t \in Allocations(heap, STATE_SIZE, Via(s, NoState)) :
                Returns("init", s,
                    IF t.at = NULL THEN Outcome(NoState, t.mem, "MEMORY_ERROR")
                    ELSE Outcome([kind |-> "DECOMPRESSOR", at |-> t.at,
                                  via |-> allocator[s]], t.mem, "OK"))

yaz0_decompress_reset(s) ==
    Returns("reset", s,
        Outcome(state[s], heap, IF IsDecompressor(s) THEN "OK" ELSE "STREAM_ERROR"))

yaz0_decompress_end(s) ==
    IF IsDecompressor(s)
    THEN Returns("end", s, Outcome(NoState, Released(s, state[s], heap), "OK"))
    ELSE Returns("end", s, Outcome(state[s], heap, "OK"))

\* The caller may set other functions at any time, even by halves.
SetAllocator(s) ==
    /\ \E a \in Allocators \cup {DEFAULT, HALF} : allocator' = [allocator EXCEPT ![s] = a]
    /\ UNCHANGED <<machine, state, heap, call>>

Next ==
    \E s \in Streams :
        \/ yaz0_compress_init_with_matcher(s)
        \/ yaz0_compress_reset(s)
        \/ yaz0_compress_end(s)
        \/ yaz0_decompress_init(s)
        \/ yaz0_decompress_reset(s)
        \/ yaz0_decompress_end(s)
        \/ SetAllocator(s)

Spec == Init /\ [][Next]_vars

-----------------------------------------------------------------------------
(* Properties. *)

Live(s) == state[s] # NoState

\* The blocks a stream answers for: its state and its matcher's memory.
Owned(s) ==
    IF ~Live(s) THEN {}
    ELSE {state[s].at} \cup (IF IsCompressor(s) THEN {state[s].matcher_alloc} \ {NULL} ELSE {})

\* Every variable has its type.
TypeOK ==
    /\ machine \in Machines
    /\ allocator \in [Streams -> Allocators \cup {DEFAULT, HALF}]
    /\ state \in [Streams -> CompressState \cup DecompressState \cup {NoState}]
    /\ heap \in [Addresses -> Block]
    /\ call.function \in {NONE, "init", "reset", "end"}

\* Nothing is leaked and nothing is given back twice, or to an allocator it did
\* not come from, although the caller may have changed the stream's: the blocks
\* given out are those of the live streams, each of one stream, each from the
\* allocator its stream will hand it to.
BlocksAccounted ==
    /\ \A a \in Addresses : heap[a] # Unused <=> \E s \in Streams : a \in Owned(s)
    /\ \A s, r \in Streams : s # r => Owned(s) \cap Owned(r) = {}
    /\ \A s \in Streams : \A a \in Owned(s) :
          heap[a].by = state[s].via /\ heap[a].size > 0
    /\ \A s \in Streams : IsCompressor(s) => state[s].matcher_alloc # state[s].at

\* Whatever has failed before, a compression stream the caller may use has a
\* matcher, and for it as much memory as it wants, aligned, in a block of its
\* own: compress_find_match calls it unchecked.
MatcherUsable ==
    \A s \in Streams : IsCompressor(s) =>
        LET self == state[s] IN
        /\ self.matcher # NONE /\ self.matcher_alloc # NULL
        /\ self.matcher_state % MATCHER_ALIGN = 0
        /\ self.matcher_alloc <= self.matcher_state
        /\ self.matcher_state + MATCHER_SIZE
              <= self.matcher_alloc + heap[self.matcher_alloc].size

\* What the processor and its operating system must do for a kernel: have the
\* instructions, as every X64 has those of SSE2, and for AVX2 keep the wide
\* registers across a context switch, or it corrupts silently.
Runs(id) ==
    /\ id = "SSE2" => machine.target = "X64" \/ machine.sse2
    /\ id = "AVX2" => machine.avx /\ machine.avx2 /\ machine.osxsave /\ machine.ymm_saved

\* The kernel inside the matcher is the one yaz0_compress_search reports, though
\* each is selected on its own; it is built, the probe for it accepts this
\* machine, and the machine does run it.  A kernel or a matcher that was asked
\* for by name is the one in use, and no other in its place (matcher.c: "an
\* error rather than a fallback"), from one reset to the next.
RequestsHonoured ==
    \A s \in Streams : IsCompressor(s) =>
        /\ state[s].requested_matcher \in {"AUTO", state[s].matcher}
        /\ state[s].requested_search \in {"AUTO", state[s].impl}
        /\ state[s].impl = state[s].search_id
        /\ state[s].impl \notin {NONE, "AUTO"}
        /\ Built(machine, state[s].impl)
        /\ is_impl_supported(machine, state[s].impl)
        /\ Runs(state[s].impl)

\* A call that fails has changed nothing, neither the streams nor the memory,
\* the second time as the first; and a reset neither takes memory nor gives it
\* back, so it cannot fail for want of it, and "the matcher survives" it
\* (yaz0bench.c).
FailuresUndone ==
    [][\A s \in Streams : call'.stream = s =>
        /\ call'.result # "OK" => UNCHANGED <<state, heap>>
        /\ call'.function = "reset" =>
              /\ call'.result # "MEMORY_ERROR" /\ UNCHANGED heap
              /\ IsCompressor(s) => state'[s].matcher = state[s].matcher
                                    /\ state'[s].matcher_alloc = state[s].matcher_alloc]_<<state, heap, call>>

\* yaz0.h calls the kernels for AVX2, AVX512, NEON and SIMD128 unimplemented,
\* so no stream can come to use one.
UnimplementedRejected ==
    \A s \in Streams : IsCompressor(s) =>
        state[s].search_id \notin {"AVX2", "AVX512", "NEON", "SIMD128"}
=============================================================================
