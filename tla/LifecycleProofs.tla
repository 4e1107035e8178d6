--------------------------- MODULE LifecycleProofs ---------------------------
(***************************************************************************)
(* Proofs about Lifecycle, for any number of streams, any allocators, any  *)
(* machines and any options.                                               *)
(***************************************************************************)
EXTENDS Lifecycle, TLAPS

IInv == TypeOK /\ BlocksAccounted /\ MatcherUsable /\ RequestsHonoured

-----------------------------------------------------------------------------
(* Selection. *)

\* A table of seven has a first fitting entry.
LEMMA FirstOfTable ==
    ASSUME NEW S \in SUBSET (1 .. 7), S # {}
    PROVE  \E i \in S : \A j \in S : i <= j
<1>1. PICK n \in S : TRUE
  OBVIOUS
<1>2. \A k \in S : k = 1 \/ k = 2 \/ k = 3 \/ k = 4 \/ k = 5 \/ k = 6 \/ k = 7
  OBVIOUS
<1>4. CASE 1 \in S \/ 2 \in S \/ 3 \in S
  <2>1. CASE 1 \in S
    BY <1>2, <2>1
  <2>2. CASE 1 \notin S /\ 2 \in S
    BY <1>2, <2>2
  <2>3. CASE 1 \notin S /\ 2 \notin S /\ 3 \in S
    BY <1>2, <2>3
  <2>4. QED
    BY <1>4, <2>1, <2>2, <2>3
<1>5. CASE 1 \notin S /\ 2 \notin S /\ 3 \notin S
  <2>1. CASE 4 \in S
    BY <1>2, <1>5, <2>1
  <2>2. CASE 4 \notin S /\ 5 \in S
    BY <1>2, <1>5, <2>2
  <2>3. CASE 4 \notin S /\ 5 \notin S /\ 6 \in S
    BY <1>2, <1>5, <2>3
  <2>4. CASE 4 \notin S /\ 5 \notin S /\ 6 \notin S
    BY <1>1, <1>2, <1>5, <2>4
  <2>5. QED
    BY <2>1, <2>2, <2>3, <2>4
<1>6. QED
  BY <1>4, <1>5

\* search.c never selects anything but an entry that is built and supported.
LEMMA SelectedFits ==
    ASSUME NEW m, NEW search
    PROVE  LET id == yaz0_search_select(m, search) IN
           /\ id \in Searches \cup {NONE}
           /\ id # NONE => /\ id # "AUTO" /\ Built(m, id)
                           /\ is_impl_supported(m, id) /\ search \in {"AUTO", id}
<1> DEFINE Fits(i) == /\ Built(m, implementations[i])
                      /\ is_impl_supported(m, implementations[i])
                      /\ search \in {"AUTO", implementations[i]}
           fitting == {i \in DOMAIN implementations : Fits(i)}
           first == CHOOSE i \in fitting : \A j \in fitting : i <= j
<1>1. DOMAIN implementations = 1 .. 7
  BY DEF implementations
<1>2. CASE fitting = {}
  BY <1>2 DEF yaz0_search_select
<1>3. CASE fitting # {}
  <2>1. fitting \in SUBSET (1 .. 7)
    BY <1>1
  <2>2. first \in fitting
    <3> HIDE DEF fitting
    <3>1. \E i \in fitting : \A j \in fitting : i <= j
      BY <1>3, <2>1, FirstOfTable
    <3>2. QED
      BY <3>1
  <2>3. yaz0_search_select(m, search) = implementations[first]
    BY <1>3 DEF yaz0_search_select
  <2>4. implementations[first] \in Searches \ {"AUTO", NONE}
    <3>1. first \in 1 .. 7
      BY <2>1, <2>2
    <3> HIDE DEF first
    <3>2. first = 1 \/ first = 2 \/ first = 3 \/ first = 4 \/ first = 5 \/ first = 6 \/ first = 7
      BY <3>1
    <3>3. QED
      BY <3>2 DEF implementations, Searches, NONE
  <2>5. Fits(first)
    BY <2>2
  <2>6. QED
    BY <2>3, <2>4, <2>5
<1>4. QED
  BY <1>2, <1>3

\* There is one matcher, and it is what any request gets that gets one.
LEMMA MatcherSelected ==
    ASSUME NEW level, NEW request
    PROVE  yaz0_matcher_select(level, request) =
               IF request \in {"AUTO", "STANDARD"} THEN "STANDARD" ELSE NONE
<1>1. find_matcher("STANDARD") = "STANDARD"
  BY DEF find_matcher, matchers
<1>2. request # "STANDARD" => find_matcher(request) = NONE
  BY DEF find_matcher, matchers
<1>3. QED
  BY <1>1, <1>2 DEF yaz0_matcher_select, matcher_for_level, NONE

-----------------------------------------------------------------------------
(* Memory. *)

Heap == [Addresses -> Block]

\* compress_configure_matcher asks for enough to move the pointer up.
LEMMA AlignedInside ==
    ASSUME NEW raw \in Nat
    PROVE  /\ align_up(raw) \in Nat
           /\ align_up(raw) % MATCHER_ALIGN = 0
           /\ raw <= align_up(raw)
           /\ align_up(raw) <= raw + MATCHER_ALIGN - 1
<1> DEFINE n == MATCHER_ALIGN
           x == raw + n - 1
           q == x \div n
           r == x % n
<1>1. n \in Nat /\ n > 0 /\ x \in Nat
  BY LifecycleAssumption
<1>2. q \in Nat /\ r \in 0 .. n - 1 /\ x = q * n + r
  BY <1>1
<1>3. align_up(raw) = q * n
  BY DEF align_up
<1>4. q * n \in Nat /\ (q * n) % n = 0
  <2> HIDE DEF q, n
  <2>1. q * n \in Nat
    BY <1>1, <1>2
  <2>2. QED
    BY <1>1, <1>2, <2>1
<1>5. QED
  <2> HIDE DEF q, r
  <2>1. q * n = raw + n - 1 - r
    BY <1>1, <1>2
  <2>2. QED
    BY <1>1, <1>2, <1>3, <1>4, <2>1

\* A block goes back to the allocator it came from.
LEMMA FreedBlock ==
    ASSUME NEW mem \in Heap, NEW a \in Addresses, NEW by,
           mem[a].by = by, mem[a].size > 0
    PROVE  Freed(mem, a, by) = [mem EXCEPT ![a] = Unused]
BY LifecycleAssumption DEF Freed, NULL

\* What there is to know of a new block.
LEMMA NewBlock ==
    ASSUME NEW mem \in Heap, NEW size \in Nat, NEW by \in Allocators \cup {DEFAULT},
           NEW t \in Allocations(mem, size, by)
    PROVE  \/ t.at = NULL /\ t.mem = mem
           \/ /\ t.at \in Addresses /\ t.at # NULL /\ mem[t.at] = Unused
              /\ t.mem = [mem EXCEPT ![t.at] = [by |-> by, size |-> size]]
              /\ t.mem \in Heap
<1>1. CASE t = [mem |-> mem, at |-> NULL]
  BY <1>1
<1>2. CASE \E a \in Addresses : /\ mem[a] = Unused
               /\ t = [mem |-> [mem EXCEPT ![a] = [by |-> by, size |-> size]], at |-> a]
  BY <1>2, LifecycleAssumption DEF Heap, Block
<1>3. QED
  BY <1>1, <1>2 DEF Allocations

\* Giving a new block back leaves the memory as it was.
LEMMA GivenBack ==
    ASSUME NEW mem \in Heap, NEW a \in Addresses, mem[a] = Unused, NEW b
    PROVE  [[mem EXCEPT ![a] = b] EXCEPT ![a] = Unused] = mem
BY DEF Heap

-----------------------------------------------------------------------------
(* Sound outcomes: what a function may leave in a stream and the memory.   *)

\* The blocks a state answers for.
Own(self) ==
    IF self = NoState THEN {}
    ELSE {self.at} \cup (IF self.kind = "COMPRESSOR" THEN {self.matcher_alloc} \ {NULL} ELSE {})

Backed(self, mem) ==
    \A a \in Own(self) : mem[a].by = self.via /\ mem[a].size > 0

Usable(self, mem) ==
    /\ self.matcher # NONE /\ self.matcher_alloc # NULL
    /\ self.matcher_state % MATCHER_ALIGN = 0
    /\ self.matcher_alloc <= self.matcher_state
    /\ self.matcher_state + MATCHER_SIZE <= self.matcher_alloc + mem[self.matcher_alloc].size

Honoured(self) ==
    /\ self.requested_matcher \in {"AUTO", self.matcher}
    /\ self.requested_search \in {"AUTO", self.impl}
    /\ self.impl = self.search_id
    /\ self.impl \notin {NONE, "AUTO"}
    /\ Built(machine, self.impl)
    /\ is_impl_supported(machine, self.impl)
    /\ Runs(self.impl)

Good(self, mem) ==
    \/ self = NoState
    \/ self \in DecompressState /\ Backed(self, mem)
    \/ /\ self \in CompressState /\ Backed(self, mem)
       /\ self.matcher_alloc # self.at
       /\ Usable(self, mem) /\ Honoured(self)

\* An outcome for stream s: a good state, whose blocks were the stream's or
\* unused; the stream's other blocks given back; and no other block touched.
Sound(s, self, mem) ==
    /\ mem \in Heap
    /\ Good(self, mem)
    /\ \A a \in Own(self) : a \in Own(state[s]) \/ heap[a] = Unused
    /\ \A a \in Own(state[s]) \ Own(self) : mem[a] = Unused
    /\ \A a \in Addresses \ (Own(self) \cup Own(state[s])) : mem[a] = heap[a]

LEMMA Kinds ==
    /\ \A self \in CompressState : self.kind = "COMPRESSOR" /\ self # NoState
    /\ \A self \in DecompressState : self.kind = "DECOMPRESSOR" /\ self # NoState
    /\ NoState.kind # "COMPRESSOR" /\ NoState.kind # "DECOMPRESSOR"
BY DEF CompressState, DecompressState, NoState, NONE

\* The invariant, stream by stream.
AllGood ==
    /\ TypeOK
    /\ \A s \in Streams : Good(state[s], heap)
    /\ \A a \in Addresses : heap[a] # Unused => \E s \in Streams : a \in Own(state[s])
    /\ \A s, r \in Streams : s # r => Own(state[s]) \cap Own(state[r]) = {}

LEMMA Streamwise == IInv <=> AllGood
<1>1. \A s \in Streams : Owned(s) = Own(state[s])
  BY DEF Owned, Own, Live, IsCompressor
<1>2. ASSUME TypeOK, NEW s \in Streams
      PROVE  /\ Own(state[s]) \subseteq Addresses
             /\ Good(state[s], heap) <=>
                   /\ \A a \in Owned(s) : heap[a].by = state[s].via /\ heap[a].size > 0
                   /\ IsCompressor(s) => /\ state[s].matcher_alloc # state[s].at
                                         /\ Usable(state[s], heap) /\ Honoured(state[s])
  <2>1. state[s] \in CompressState \cup DecompressState \cup {NoState}
    BY <1>2 DEF TypeOK
  <2>2. CASE state[s] = NoState
    BY <2>2, Kinds DEF Good, Own, Owned, Live, IsCompressor
  <2>3. CASE state[s] \in DecompressState
    <3>1. state[s].at \in Addresses
      BY <2>3 DEF DecompressState
    <3>2. state[s] \notin CompressState
      BY <2>3, Kinds
    <3>3. QED
      BY <1>1, <2>3, <3>1, <3>2, Kinds DEF Good, Backed, Own, IsCompressor
  <2>4. CASE state[s] \in CompressState
    <3>1. state[s].at \in Addresses /\ state[s].matcher_alloc \in Addresses \cup {NULL}
      BY <2>4 DEF CompressState
    <3>2. state[s] \notin DecompressState
      BY <2>4, Kinds
    <3>3. QED
      BY <1>1, <2>4, <3>1, <3>2, Kinds DEF Good, Backed, Own, IsCompressor
  <2>5. QED
    BY <2>1, <2>2, <2>3, <2>4
<1>3. ASSUME TypeOK, NEW s \in Streams, Good(state[s], heap), NEW a \in Owned(s)
      PROVE  a \in Addresses /\ heap[a] # Unused
  BY <1>1, <1>2, <1>3 DEF Unused
<1>4. MatcherUsable <=> \A s \in Streams : IsCompressor(s) => Usable(state[s], heap)
  BY DEF MatcherUsable, Usable
<1>5. RequestsHonoured <=> \A s \in Streams : IsCompressor(s) => Honoured(state[s])
  BY DEF RequestsHonoured, Honoured
<1>6. ASSUME IInv PROVE AllGood
  <2>1. \A s \in Streams : Good(state[s], heap)
    BY <1>2, <1>4, <1>5, <1>6 DEF IInv, BlocksAccounted
  <2>2. QED
    BY <1>1, <1>6, <2>1 DEF IInv, BlocksAccounted, AllGood
<1>7. ASSUME AllGood PROVE IInv
  <2>1. MatcherUsable /\ RequestsHonoured
    BY <1>2, <1>4, <1>5, <1>7 DEF AllGood
  <2>2. \A s \in Streams : /\ \A a \in Owned(s) : heap[a].by = state[s].via /\ heap[a].size > 0
                           /\ IsCompressor(s) => state[s].matcher_alloc # state[s].at
    BY <1>2, <1>7 DEF AllGood
  <2>3. \A a \in Addresses : heap[a] # Unused <=> \E s \in Streams : a \in Owned(s)
    BY <1>1, <1>3, <1>7 DEF AllGood
  <2>4. \A s, r \in Streams : s # r => Owned(s) \cap Owned(r) = {}
    BY <1>1, <1>7 DEF AllGood
  <2>5. QED
    BY <1>7, <2>1, <2>2, <2>3, <2>4 DEF IInv, BlocksAccounted, AllGood
<1>8. QED
  BY <1>6, <1>7

\* Leaving a sound outcome in a stream preserves the invariant.
LEMMA SoundStep ==
    ASSUME IInv, NEW s \in Streams, NEW function \in {"init", "reset", "end"},
           NEW self, NEW mem, NEW result, Sound(s, self, mem),
           Returns(function, s, Outcome(self, mem, result))
    PROVE  IInv'
<1> DEFINE others == Streams \ {s}
<1>1. /\ TypeOK
      /\ \A r \in Streams : Good(state[r], heap)
      /\ \A a \in Addresses : heap[a] # Unused => \E r \in Streams : a \in Own(state[r])
      /\ \A q, r \in Streams : q # r => Own(state[q]) \cap Own(state[r]) = {}
  BY Streamwise DEF AllGood
<1>2. /\ state' = [state EXCEPT ![s] = self]
      /\ heap' = mem /\ call'.function = function
      /\ machine' = machine /\ allocator' = allocator
  BY DEF Returns, Outcome
<1>3. state'[s] = self /\ \A r \in others : state'[r] = state[r]
  BY <1>1, <1>2 DEF TypeOK
<1>4. self \in CompressState \cup DecompressState \cup {NoState}
  BY DEF Sound, Good
<1>5. TypeOK'
  BY <1>1, <1>2, <1>4 DEF TypeOK, Sound, Heap
<1>6. ASSUME NEW r \in others, NEW a \in Own(state[r])
      PROVE  /\ a \in Addresses /\ heap[a] # Unused /\ a \notin Own(state[s])
             /\ a \notin Own(self) /\ mem[a] = heap[a]
  <2>1. a \in Addresses /\ heap[a] # Unused
    <3>1. heap[a].size > 0
      BY <1>1, <1>6, Kinds DEF Good, Backed, Own
    <3>2. a \in Addresses
      BY <1>1, <1>6, Kinds DEF Good, Own, CompressState, DecompressState
    <3>3. QED
      BY <3>1, <3>2 DEF Unused
  <2>2. a \notin Own(state[s])
    BY <1>1, <1>6
  <2>3. a \notin Own(self)
    BY <2>1, <2>2 DEF Sound
  <2>4. QED
    BY <2>1, <2>2, <2>3 DEF Sound
<1>7. \A r \in Streams : Good(state[r], heap)'
  <2>0. \A id : Runs(id)' <=> Runs(id)
    BY <1>2, Zenon DEF Runs
  <2>1. Good(self, mem)'
    BY <1>2, <2>0 DEF Sound, Good, Backed, Usable, Honoured
  <2>2. ASSUME NEW r \in others
        PROVE  Good(state[r], mem)
    <3>1. Good(state[r], heap) /\ \A a \in Own(state[r]) : mem[a] = heap[a]
      BY <1>1, <1>6
    <3>2. state[r] \in CompressState /\ Usable(state[r], heap) =>
              state[r].matcher_alloc \in Own(state[r])
      BY Kinds DEF Usable, Own
    <3>3. QED
      BY <3>1, <3>2 DEF Good, Backed, Usable
  <2>3. QED
    BY <1>2, <1>3, <2>0, <2>1, <2>2 DEF Good, Backed, Usable, Honoured
<1>8. \A a \in Addresses : heap'[a] # Unused => \E r \in Streams : a \in Own(state'[r])
  <2> SUFFICES ASSUME NEW a \in Addresses, mem[a] # Unused
               PROVE  \E r \in Streams : a \in Own(state'[r])
    BY <1>2
  <2>1. CASE a \in Own(self)
    BY <1>3, <2>1
  <2>2. CASE a \notin Own(self)
    <3>1. a \notin Own(state[s]) /\ heap[a] # Unused
      BY <2>2 DEF Sound
    <3>2. PICK r \in others : a \in Own(state[r])
      BY <1>1, <3>1
    <3>3. QED
      BY <1>3, <3>2
  <2>3. QED
    BY <2>1, <2>2
<1>9. \A q, r \in Streams : q # r => Own(state'[q]) \cap Own(state'[r]) = {}
  <2> SUFFICES ASSUME NEW q \in Streams, NEW r \in Streams, q # r
               PROVE  Own(state'[q]) \cap Own(state'[r]) = {}
    OBVIOUS
  <2>1. CASE q = s
    BY <1>3, <1>6, <2>1
  <2>2. CASE r = s
    BY <1>3, <1>6, <2>2
  <2>3. CASE q # s /\ r # s
    BY <1>1, <1>3, <2>3
  <2>4. QED
    BY <2>1, <2>2, <2>3
<1>10. QED
  <2>1. AllGood'
    BY <1>5, <1>7, <1>8, <1>9 DEF AllGood, Own, Unused
  <2>2. QED
    BY <2>1, Streamwise, PTL

-----------------------------------------------------------------------------
(* Configuration. *)

Chosen(options) == yaz0_search_select(machine, options.search)

\* The outcomes of a second configuration.
Reconfigured(self, mem, options, o) ==
    \/ /\ self.requested_matcher \in {"AUTO", "STANDARD"}
       /\ o = Outcome([self EXCEPT !.search_id = Chosen(options),
                                   !.requested_search = options.search,
                                   !.impl = Chosen(options)], mem, "OK")
    \/ /\ self.requested_matcher \notin {"AUTO", "STANDARD"}
       /\ o = Outcome([self EXCEPT !.search_id = Chosen(options),
                                   !.requested_search = options.search], mem, "UNSUPPORTED")

\* Configuring a stream that has its matcher touches no memory.
LEMMA ConfigureKept ==
    ASSUME NEW s \in Streams, NEW self \in CompressState, NEW mem, NEW options \in Options,
           self.matcher = "STANDARD", self.matcher_alloc # NULL,
           NEW o \in compress_configure(s, self, mem, options)
    PROVE  Reconfigured(self, mem, options, o)
<1> DEFINE id == Chosen(options)
           begun == [self EXCEPT !.search_id = id, !.requested_search = options.search]
           chosen == yaz0_matcher_select(options.level, begun.requested_matcher)
<1>1. /\ begun.requested_matcher = self.requested_matcher
      /\ begun.matcher = "STANDARD" /\ begun.matcher_alloc # NULL
  BY DEF CompressState
<1>2. o \in compress_configure_matcher(s, begun, mem, options)
  BY DEF compress_configure, Chosen
<1>3. CASE self.requested_matcher \in {"AUTO", "STANDARD"}
  <2>1. chosen = "STANDARD" /\ chosen # NONE
    BY <1>1, <1>3, MatcherSelected DEF NONE
  <2>2. o = Outcome([begun EXCEPT !.matcher = "STANDARD", !.impl = id], mem, "OK")
    BY <1>1, <1>2, <2>1 DEF compress_configure_matcher, Chosen
  <2>3. [begun EXCEPT !.matcher = "STANDARD", !.impl = id]
            = [self EXCEPT !.search_id = id, !.requested_search = options.search,
                           !.impl = id]
    BY DEF CompressState
  <2>4. QED
    BY <1>3, <2>2, <2>3 DEF Reconfigured
<1>4. CASE self.requested_matcher \notin {"AUTO", "STANDARD"}
  <2>1. chosen = NONE
    BY <1>1, <1>4, MatcherSelected
  <2>2. QED
    BY <1>2, <1>4, <2>1 DEF compress_configure_matcher, Reconfigured
<1>5. QED
  BY <1>3, <1>4

\* Configuring a new stream gives its matcher a block, or fails without a trace.
LEMMA ConfigureNew ==
    ASSUME NEW s \in Streams, NEW self \in CompressState, NEW mem \in Heap,
           NEW options \in Options,
           self.matcher = NONE, self.matcher_alloc = NULL, self.requested_matcher = "AUTO",
           NEW o \in compress_configure(s, self, mem, options)
    PROVE  \/ /\ o.result = "MEMORY_ERROR" /\ o.mem = mem
              /\ o.self.kind = "COMPRESSOR" /\ o.self.at = self.at /\ o.self.via = self.via
           \/ \E a \in Addresses :
                 /\ a # NULL /\ mem[a] = Unused
                 /\ o = Outcome([self EXCEPT !.search_id = Chosen(options),
                                             !.requested_search = options.search,
                                             !.impl = Chosen(options),
                                             !.matcher = "STANDARD", !.matcher_alloc = a,
                                             !.matcher_state = align_up(a)],
                        [mem EXCEPT ![a] = [by |-> self.via,
                                            size |-> MATCHER_SIZE + MATCHER_ALIGN - 1]],
                        "OK")
                 /\ o.mem \in Heap
<1> DEFINE id == Chosen(options)
           begun == [self EXCEPT !.search_id = id, !.requested_search = options.search]
           chosen == yaz0_matcher_select(options.level, begun.requested_matcher)
           old == [begun EXCEPT !.matcher_alloc = NULL, !.matcher_state = NULL]
           size == MATCHER_SIZE + MATCHER_ALIGN - 1
           given(t) == [old EXCEPT !.matcher = "STANDARD", !.impl = id,
                                   !.matcher_alloc = t.at, !.matcher_state = align_up(t.at)]
<1>1. /\ begun.requested_matcher = "AUTO" /\ begun.matcher = NONE
      /\ begun.matcher_alloc = NULL /\ begun.via = self.via /\ begun # NoState
  BY Kinds DEF CompressState
<1>2. o \in compress_configure_matcher(s, begun, mem, options)
  BY DEF compress_configure, Chosen
<1>3. chosen = "STANDARD" /\ chosen # NONE
  BY <1>1, MatcherSelected DEF NONE
<1>4. Via(s, begun) = self.via /\ Freed(mem, NULL, self.via) = mem
  BY <1>1 DEF Via, Freed
<1>5. old.matcher_alloc = NULL
  BY DEF CompressState
<1>6. PICK t \in Allocations(mem, size, self.via) :
          o = IF t.at = NULL THEN Outcome(old, t.mem, "MEMORY_ERROR")
              ELSE Outcome(given(t), t.mem, "OK")
  <2> HIDE DEF begun
  <2>1. begun.matcher # chosen
    BY <1>1, <1>3 DEF NONE
  <2>2. QED
    BY <1>1, <1>2, <1>3, <1>4, <1>5, <2>1 DEF compress_configure_matcher, Chosen
<1>7. size \in Nat /\ self.via \in Allocators \cup {DEFAULT}
  BY LifecycleAssumption DEF CompressState
<1>8. CASE t.at = NULL /\ t.mem = mem
  <2>1. o = Outcome(old, mem, "MEMORY_ERROR")
    BY <1>6, <1>8
  <2>2. old.kind = "COMPRESSOR" /\ old.at = self.at /\ old.via = self.via
    BY DEF CompressState
  <2> HIDE DEF old
  <2>3. QED
    BY <2>1, <2>2 DEF Outcome
<1>9. CASE /\ t.at \in Addresses /\ t.at # NULL /\ mem[t.at] = Unused
           /\ t.mem = [mem EXCEPT ![t.at] = [by |-> self.via, size |-> size]]
           /\ t.mem \in Heap
  <2>1. o = Outcome(given(t), t.mem, "OK")
    BY <1>6, <1>9
  <2>2. given(t) = [self EXCEPT !.search_id = id, !.requested_search = options.search,
                                !.impl = id, !.matcher = "STANDARD",
                                !.matcher_alloc = t.at, !.matcher_state = align_up(t.at)]
    BY DEF CompressState
  <2>3. QED
    BY <1>9, <2>1, <2>2 DEF Outcome
<1>10. QED
  <2>1. \/ t.at = NULL /\ t.mem = mem
        \/ /\ t.at \in Addresses /\ t.at # NULL /\ mem[t.at] = Unused
           /\ t.mem = [mem EXCEPT ![t.at] = [by |-> self.via, size |-> size]]
           /\ t.mem \in Heap
    <3> HIDE DEF size
    <3>1. QED
      BY <1>7, NewBlock
  <2>2. QED
    BY <1>8, <1>9, <2>1

-----------------------------------------------------------------------------
(* What each function leaves. *)

\* A new state, before it is configured.
LEMMA NewState ==
    ASSUME IInv, NEW s \in Streams, allocator[s] # HALF, NEW a \in Addresses
    PROVE  LET self == NewCompressState(s, a) IN
           /\ self \in CompressState
           /\ self.at = a /\ self.via = allocator[s]
           /\ self.matcher = NONE /\ self.matcher_alloc = NULL
           /\ self.requested_matcher = "AUTO"
<1>1. allocator[s] \in Allocators \cup {DEFAULT}
  BY DEF IInv, TypeOK
<1>2. QED
  BY <1>1 DEF NewCompressState, CompressState, NULL, NONE

\* What a configured new stream looks like: Configured is the state that
\* yaz0_compress_init leaves, wanted and request the kernel and the matcher
\* asked for.
Configured(s, a, b, id, wanted, request) ==
    [kind |-> "COMPRESSOR", at |-> a, via |-> allocator[s],
     requested_matcher |-> request, matcher |-> "STANDARD",
     matcher_alloc |-> b, matcher_state |-> align_up(b),
     search_id |-> id, impl |-> id, requested_search |-> wanted]

\* Two states with the same fields are the same.
LEMMA SameState ==
    ASSUME NEW x \in CompressState, NEW y \in CompressState,
           x.kind = y.kind, x.at = y.at, x.via = y.via,
           x.requested_matcher = y.requested_matcher,
           x.matcher = y.matcher, x.matcher_alloc = y.matcher_alloc,
           x.matcher_state = y.matcher_state,
           x.search_id = y.search_id, x.impl = y.impl,
           x.requested_search = y.requested_search
    PROVE  x = y
BY DEF CompressState

LEMMA ConfiguredState ==
    ASSUME IInv, NEW s \in Streams, allocator[s] # HALF,
           NEW a \in Addresses, NEW b \in Addresses,
           NEW id \in Searches \cup {NONE}, NEW wanted \in Searches,
           NEW request \in MatcherRequests \cup {"AUTO"}
    PROVE  Configured(s, a, b, id, wanted, request) \in CompressState
<1>1. allocator[s] \in Allocators \cup {DEFAULT}
  BY DEF IInv, TypeOK
<1>2. align_up(b) \in Nat
  BY AlignedInside, LifecycleAssumption
<1>3. QED
  BY <1>1, <1>2 DEF Configured, CompressState

Taken(s, a, b) ==
    [[heap EXCEPT ![a] = [by |-> allocator[s], size |-> STATE_SIZE]]
          EXCEPT ![b] = [by |-> allocator[s], size |-> MATCHER_SIZE + MATCHER_ALIGN - 1]]

\* An init takes two blocks and selects a kernel, or leaves no trace.
LEMMA InitOutcome ==
    ASSUME IInv, NEW s \in Streams, NEW options \in Options,
           NEW o \in InitWithOptions(s, options)
    PROVE  \/ o.result # "OK" /\ o = Outcome(NoState, heap, o.result)
           \/ /\ allocator[s] # HALF /\ Chosen(options) # NONE
              /\ \E a, b \in Addresses :
                    /\ a # b /\ heap[a] = Unused /\ heap[b] = Unused
                    /\ o = Outcome(Configured(s, a, b, Chosen(options), options.search, "AUTO"),
                                   Taken(s, a, b), "OK")
<1>1. heap \in Heap
  BY DEF IInv, TypeOK, Heap
<1>2. CASE Checked(s, options) # "OK"
  BY <1>2 DEF InitWithOptions, Outcome
<1>3. CASE Checked(s, options) = "OK"
  <2>1. allocator[s] # HALF /\ Chosen(options) # NONE
    BY <1>3 DEF Checked, compress_validate_options, Chosen
  <2>2. allocator[s] \in Allocators \cup {DEFAULT} /\ Via(s, NoState) = allocator[s]
    BY <2>1 DEF IInv, TypeOK, Via
  <2>3. PICK t \in Allocations(heap, STATE_SIZE, allocator[s]) :
            \/ t.at = NULL /\ o = Outcome(NoState, t.mem, "MEMORY_ERROR")
            \/ /\ t.at # NULL
               /\ \E p \in compress_configure(s, NewCompressState(s, t.at), t.mem, options) :
                      o = IF p.result = "OK" THEN p ELSE Undone(s, p)
    BY <1>3, <2>2 DEF InitWithOptions
  <2>4. CASE t.at = NULL /\ t.mem = heap
    BY <2>3, <2>4 DEF Outcome
  <2>5. CASE /\ t.at \in Addresses /\ t.at # NULL /\ heap[t.at] = Unused
             /\ t.mem = [heap EXCEPT ![t.at] = [by |-> allocator[s], size |-> STATE_SIZE]]
             /\ t.mem \in Heap
    <3> DEFINE self == NewCompressState(s, t.at)
    <3>1. /\ self \in CompressState
          /\ self.at = t.at /\ self.via = allocator[s]
          /\ self.matcher = NONE /\ self.matcher_alloc = NULL
          /\ self.requested_matcher = "AUTO"
      BY <2>1, <2>5, NewState
    <3>2. PICK p \in compress_configure(s, self, t.mem, options) :
              o = IF p.result = "OK" THEN p ELSE Undone(s, p)
      BY <2>3, <2>5
    <3>3. CASE /\ p.result = "MEMORY_ERROR" /\ p.mem = t.mem
               /\ p.self.kind = "COMPRESSOR" /\ p.self.at = t.at
               /\ p.self.via = allocator[s]
      <4>1. o = Outcome(NoState, Freed(t.mem, t.at, allocator[s]), "MEMORY_ERROR")
        BY <3>2, <3>3, Kinds DEF Undone, Via
      <4>2. t.mem[t.at] = [by |-> allocator[s], size |-> STATE_SIZE]
        BY <1>1, <2>5 DEF Heap
      <4>3. Freed(t.mem, t.at, allocator[s]) = [t.mem EXCEPT ![t.at] = Unused]
        <5>1. t.mem[t.at].by = allocator[s] /\ t.mem[t.at].size > 0
          BY <4>2, LifecycleAssumption
        <5>2. QED
          BY <2>5, <5>1, FreedBlock
      <4>4. [t.mem EXCEPT ![t.at] = Unused] = heap
        BY <1>1, <2>5, GivenBack
      <4>5. QED
        BY <4>1, <4>3, <4>4 DEF Outcome
    <3>4. CASE \E b \in Addresses :
                 /\ b # NULL /\ t.mem[b] = Unused
                 /\ p = Outcome([self EXCEPT !.search_id = Chosen(options),
                                             !.requested_search = options.search,
                                             !.impl = Chosen(options),
                                             !.matcher = "STANDARD", !.matcher_alloc = b,
                                             !.matcher_state = align_up(b)],
                        [t.mem EXCEPT ![b] = [by |-> self.via,
                                              size |-> MATCHER_SIZE + MATCHER_ALIGN - 1]],
                        "OK")
                 /\ p.mem \in Heap
      <4>1. PICK b \in Addresses :
                 /\ t.mem[b] = Unused
                 /\ p = Outcome([self EXCEPT !.search_id = Chosen(options),
                                             !.requested_search = options.search,
                                             !.impl = Chosen(options),
                                             !.matcher = "STANDARD", !.matcher_alloc = b,
                                             !.matcher_state = align_up(b)],
                        [t.mem EXCEPT ![b] = [by |-> self.via,
                                              size |-> MATCHER_SIZE + MATCHER_ALIGN - 1]],
                        "OK")
        BY <3>4
      <4>2. b # t.at /\ heap[b] = Unused
        BY <1>1, <2>5, <4>1, LifecycleAssumption DEF Heap, Unused
      <4>3. [self EXCEPT !.search_id = Chosen(options),
                         !.requested_search = options.search, !.impl = Chosen(options),
                         !.matcher = "STANDARD", !.matcher_alloc = b,
                         !.matcher_state = align_up(b)]
                = Configured(s, t.at, b, Chosen(options), options.search, "AUTO")
        <5> DEFINE id == Chosen(options)
                   pointer == align_up(b)
                   left == [self EXCEPT !.search_id = id,
                                        !.requested_search = options.search, !.impl = id,
                                        !.matcher = "STANDARD", !.matcher_alloc = b, !.matcher_state = pointer]
                   right == Configured(s, t.at, b, id, options.search, "AUTO")
        <5>1. id \in Searches \cup {NONE} /\ pointer \in Nat /\ options.search \in Searches
          BY SelectedFits, AlignedInside, LifecycleAssumption DEF Chosen, Options
        <5>2. right \in CompressState
          BY <2>1, <2>5, <5>1, ConfiguredState
        <5>3. /\ left.kind = right.kind /\ left.at = right.at /\ left.via = right.via
              /\ left.requested_matcher = right.requested_matcher
              /\ left.matcher = right.matcher /\ left.matcher_alloc = right.matcher_alloc
              /\ left.matcher_state = right.matcher_state
              /\ left.search_id = right.search_id /\ left.impl = right.impl
              /\ left.requested_search = right.requested_search
              /\ left \in CompressState
          <6> HIDE DEF id, pointer
          <6>1. right = [kind |-> "COMPRESSOR", at |-> t.at, via |-> allocator[s],
                         requested_matcher |-> "AUTO", matcher |-> "STANDARD",
                         matcher_alloc |-> b, matcher_state |-> pointer,
                         search_id |-> id, impl |-> id, requested_search |-> options.search]
            BY DEF Configured, pointer
          <6>2. self.kind = "COMPRESSOR"
            BY <3>1, Kinds
          <6> HIDE DEF self, right
          <6>3. QED
            BY <3>1, <5>1, <6>1, <6>2 DEF CompressState
        <5> HIDE DEF left, right
        <5>4. left = right
          BY <5>2, <5>3, SameState
        <5>5. QED
          BY <5>4 DEF left, right
      <4>4. [t.mem EXCEPT ![b] = [by |-> self.via, size |-> MATCHER_SIZE + MATCHER_ALIGN - 1]]
                = Taken(s, t.at, b)
        BY <2>5, <3>1 DEF Taken
      <4>5. p.result = "OK" /\ o = p
        BY <3>2, <4>1 DEF Outcome
      <4>6. o = Outcome(Configured(s, t.at, b, Chosen(options), options.search, "AUTO"),
                        Taken(s, t.at, b), "OK")
        BY <4>1, <4>3, <4>4, <4>5
      <4>7. QED
        BY <2>1, <2>5, <4>2, <4>6
    <3>5. QED
      <4>1. \/ /\ p.result = "MEMORY_ERROR" /\ p.mem = t.mem
               /\ p.self.kind = "COMPRESSOR" /\ p.self.at = self.at
               /\ p.self.via = self.via
            \/ \E b \in Addresses :
                 /\ b # NULL /\ t.mem[b] = Unused
                 /\ p = Outcome([self EXCEPT !.search_id = Chosen(options),
                                             !.requested_search = options.search,
                                             !.impl = Chosen(options),
                                             !.matcher = "STANDARD", !.matcher_alloc = b,
                                             !.matcher_state = align_up(b)],
                        [t.mem EXCEPT ![b] = [by |-> self.via,
                                              size |-> MATCHER_SIZE + MATCHER_ALIGN - 1]],
                        "OK")
                 /\ p.mem \in Heap
        <5> HIDE DEF self
        <5>1. QED
          BY <2>5, <3>1, <3>2, ConfigureNew
      <4>2. QED
        BY <3>1, <3>3, <3>4, <4>1
  <2>6. \/ t.at = NULL /\ t.mem = heap
        \/ /\ t.at \in Addresses /\ t.at # NULL /\ heap[t.at] = Unused
           /\ t.mem = [heap EXCEPT ![t.at] = [by |-> allocator[s], size |-> STATE_SIZE]]
           /\ t.mem \in Heap
    <3>1. STATE_SIZE \in Nat
      BY LifecycleAssumption
    <3>2. QED
      BY <1>1, <2>2, <3>1, NewBlock
  <2>7. QED
    BY <2>4, <2>5, <2>6
<1>4. QED
  BY <1>2, <1>3

\* A kernel that is selected is built, can run, and is what was asked for.
LEMMA KernelRuns ==
    ASSUME NEW options \in Options, Chosen(options) # NONE
    PROVE  /\ Chosen(options) \in Searches \ {"AUTO"}
           /\ Built(machine, Chosen(options))
           /\ is_impl_supported(machine, Chosen(options))
           /\ Runs(Chosen(options))
           /\ options.search \in {"AUTO", Chosen(options)}
<1> DEFINE id == Chosen(options)
<1>1. /\ id \in Searches /\ id # "AUTO" /\ Built(machine, id)
      /\ is_impl_supported(machine, id) /\ options.search \in {"AUTO", id}
  BY SelectedFits DEF Chosen
<1> HIDE DEF id
<1>2. /\ id = "SSE2" => yaz0_sse2_supported(machine)
      /\ id = "AVX2" => yaz0_avx2_supported(machine)
  BY <1>1 DEF is_impl_supported
<1>3. id = "SSE2" => machine.target = "X64" \/ machine.sse2
  BY <1>2, Zenon DEF yaz0_sse2_supported
<1>4. id = "AVX2" => machine.avx /\ machine.avx2 /\ machine.osxsave /\ machine.ymm_saved
  BY <1>2, Zenon DEF yaz0_avx2_supported
<1>5. Runs(id)
  BY <1>3, <1>4, Zenon DEF Runs
<1>6. QED
  BY <1>1, <1>5 DEF id

\* A configured new stream is a sound outcome.
LEMMA ConfiguredSound ==
    ASSUME IInv, NEW s \in Streams, state[s] = NoState, allocator[s] # HALF,
           NEW a \in Addresses, NEW b \in Addresses, a # b,
           heap[a] = Unused, heap[b] = Unused,
           NEW options \in Options, Chosen(options) # NONE,
           NEW request \in MatcherRequests \cup {"AUTO"}, request \in {"AUTO", "STANDARD"}
    PROVE  Sound(s, Configured(s, a, b, Chosen(options), options.search, request), Taken(s, a, b))
<1> DEFINE id == Chosen(options)
           self == Configured(s, a, b, id, options.search, request)
           mem == Taken(s, a, b)
           more == MATCHER_SIZE + MATCHER_ALIGN - 1
<1>1. /\ id \in Searches \ {"AUTO"} /\ id # NONE /\ Built(machine, id)
      /\ is_impl_supported(machine, id) /\ Runs(id)
      /\ options.search \in Searches /\ options.search \in {"AUTO", id}
  BY KernelRuns, LifecycleAssumption DEF Options
<1>2. allocator[s] \in Allocators \cup {DEFAULT} /\ heap \in Heap
  BY DEF IInv, TypeOK, Heap
<1>3. a \in Nat /\ b \in Nat /\ a # NULL /\ b # NULL
      /\ MATCHER_SIZE \in Nat /\ MATCHER_ALIGN \in Nat /\ STATE_SIZE \in Nat
      /\ MATCHER_SIZE > 0 /\ MATCHER_ALIGN > 0 /\ STATE_SIZE > 0 /\ more \in Nat /\ more > 0
  BY LifecycleAssumption
<1>4. self \in CompressState
  BY <1>1, ConfiguredState
<1>5. /\ self.at = a /\ self.via = allocator[s] /\ self.requested_matcher = request
      /\ self.matcher = "STANDARD" /\ self.matcher_alloc = b
      /\ self.matcher_state = align_up(b) /\ self.search_id = id /\ self.impl = id
      /\ self.requested_search = options.search
  BY DEF Configured
<1>6. Own(self) = {a, b}
  <2> HIDE DEF self
  <2>1. QED
    BY <1>3, <1>4, <1>5, Kinds DEF Own
<1>7. Own(state[s]) = {}
  BY DEF Own
<1>8. /\ mem \in Heap
      /\ mem[a] = [by |-> allocator[s], size |-> STATE_SIZE]
      /\ mem[b] = [by |-> allocator[s], size |-> more]
      /\ \A c \in Addresses \ {a, b} : mem[c] = heap[c]
  BY <1>2, <1>3 DEF Taken, Heap, Block
<1> HIDE DEF self, mem
<1>9. Backed(self, mem)
  <2> HIDE DEF more
  <2>1. QED
    BY <1>3, <1>5, <1>6, <1>8 DEF Backed
<1>10. Usable(self, mem)
  <2>1. /\ align_up(b) \in Nat /\ align_up(b) % MATCHER_ALIGN = 0 /\ b <= align_up(b)
        /\ align_up(b) <= b + MATCHER_ALIGN - 1
    BY <1>3, AlignedInside
  <2>2. mem[b].size = MATCHER_SIZE + MATCHER_ALIGN - 1
    BY <1>8
  <2>3. align_up(b) + MATCHER_SIZE <= b + mem[b].size
    BY <1>3, <2>1, <2>2
  <2>4. QED
    BY <1>3, <1>5, <2>1, <2>3 DEF Usable, NONE
<1>11. Honoured(self)
  <2> HIDE DEF id
  <2>1. QED
    BY <1>1, <1>3, <1>5 DEF Honoured
<1>12. Good(self, mem)
  BY <1>4, <1>5, <1>9, <1>10, <1>11 DEF Good
<1>13. Sound(s, self, mem)
  BY <1>6, <1>7, <1>8, <1>12 DEF Sound
<1>14. QED
  BY <1>13 DEF self, mem

\* Both blocks of a configured new stream, given back, leave no trace.
LEMMA ReleasedNew ==
    ASSUME IInv, NEW s \in Streams, allocator[s] # HALF,
           NEW a \in Addresses, NEW b \in Addresses, a # b,
           heap[a] = Unused, heap[b] = Unused,
           NEW self \in CompressState, self.at = a, self.matcher_alloc = b,
           self.via = allocator[s]
    PROVE  Released(s, self, Taken(s, a, b)) = heap
<1> DEFINE mem == Taken(s, a, b)
           left == [mem EXCEPT ![b] = Unused]
           more == MATCHER_SIZE + MATCHER_ALIGN - 1
<1>1. allocator[s] \in Allocators \cup {DEFAULT} /\ heap \in Heap
  BY DEF IInv, TypeOK, Heap
<1>2. more \in Nat /\ more > 0 /\ STATE_SIZE \in Nat /\ STATE_SIZE > 0
  BY LifecycleAssumption
<1>3. self.kind = "COMPRESSOR" /\ Via(s, self) = allocator[s]
  BY Kinds DEF Via
<1>4. mem \in Heap /\ mem[b] = [by |-> allocator[s], size |-> more]
  BY <1>1, <1>2 DEF Taken, Heap, Block
<1>5. Freed(mem, b, allocator[s]) = left
  <2> HIDE DEF mem, left, more
  <2>1. mem[b].by = allocator[s] /\ mem[b].size > 0
    BY <1>2, <1>4
  <2>2. QED
    BY <1>4, <2>1, FreedBlock DEF left
<1>6. left \in Heap /\ left[a] = [by |-> allocator[s], size |-> STATE_SIZE]
  BY <1>1, <1>2 DEF Taken, Heap, Block, Unused
<1>7. Freed(left, a, allocator[s]) = [left EXCEPT ![a] = Unused]
  <2> HIDE DEF left
  <2>1. left[a].by = allocator[s] /\ left[a].size > 0
    BY <1>2, <1>6
  <2>2. QED
    BY <1>6, <2>1, FreedBlock
<1>8. [left EXCEPT ![a] = Unused] = heap
  BY <1>1 DEF Taken, Heap
<1>9. QED
  <2> HIDE DEF mem, left
  <2>1. Released(s, self, mem) = heap
    BY <1>3, <1>5, <1>7, <1>8 DEF Released
  <2>2. QED
    BY <2>1 DEF mem

\* The same of an init that asks for a matcher.
LEMMA InitWithMatcherOutcome ==
    ASSUME IInv, NEW s \in Streams, NEW options \in Options, NEW matcher \in MatcherRequests,
           NEW o \in InitWithMatcher(s, options, matcher)
    PROVE  \/ o.result # "OK" /\ o = Outcome(NoState, heap, o.result)
           \/ /\ allocator[s] # HALF /\ Chosen(options) # NONE
              /\ matcher \in {"AUTO", "STANDARD"}
              /\ \E a, b \in Addresses :
                    /\ a # b /\ heap[a] = Unused /\ heap[b] = Unused
                    /\ o = Outcome(Configured(s, a, b, Chosen(options), options.search, matcher),
                                   Taken(s, a, b), "OK")
<1> DEFINE id == Chosen(options)
<1>1. PICK p \in InitWithOptions(s, options) :
          \/ /\ p.result # "OK" \/ matcher = "AUTO"
             /\ o = p
          \/ /\ p.result = "OK" /\ matcher # "AUTO"
             /\ \E again \in compress_configure(
                       s, [p.self EXCEPT !.requested_matcher = matcher], p.mem, options) :
                   o = IF again.result = "OK" THEN again
                       ELSE Outcome(NoState, Released(s, again.self, again.mem), again.result)
  BY DEF InitWithMatcher
<1>2. CASE p.result # "OK"
  <2>1. p = Outcome(NoState, heap, p.result)
    BY <1>2, InitOutcome DEF Outcome
  <2>2. QED
    BY <1>1, <1>2, <2>1
<1>3. CASE p.result = "OK"
  <2>1. /\ allocator[s] # HALF /\ id # NONE
        /\ \E a, b \in Addresses :
              /\ a # b /\ heap[a] = Unused /\ heap[b] = Unused
              /\ p = Outcome(Configured(s, a, b, id, options.search, "AUTO"), Taken(s, a, b), "OK")
    BY <1>3, InitOutcome
  <2>2. PICK a \in Addresses, b \in Addresses :
              /\ a # b /\ heap[a] = Unused /\ heap[b] = Unused
              /\ p = Outcome(Configured(s, a, b, id, options.search, "AUTO"), Taken(s, a, b), "OK")
    BY <2>1
  <2>3. CASE matcher = "AUTO"
    BY <1>1, <1>3, <2>1, <2>2, <2>3
  <2>4. CASE matcher # "AUTO"
    <3> DEFINE mem == Taken(s, a, b)
               self == Configured(s, a, b, id, options.search, matcher)
    <3>1. id \in Searches /\ options.search \in Searches /\ self \in CompressState
      BY <2>1, KernelRuns, ConfiguredState, LifecycleAssumption DEF Options
    <3>2. [p.self EXCEPT !.requested_matcher = matcher] = self
      <4>1. p.self = Configured(s, a, b, id, options.search, "AUTO")
        BY <2>2 DEF Outcome
      <4>2. p.self \in CompressState
        BY <2>1, <3>1, <4>1, ConfiguredState
      <4> DEFINE first == [p.self EXCEPT !.requested_matcher = matcher]
      <4>3. /\ first \in CompressState
            /\ first.kind = p.self.kind /\ first.at = p.self.at /\ first.via = p.self.via
            /\ first.requested_matcher = matcher
            /\ first.matcher = p.self.matcher /\ first.matcher_alloc = p.self.matcher_alloc
            /\ first.matcher_state = p.self.matcher_state
            /\ first.search_id = p.self.search_id /\ first.impl = p.self.impl
            /\ first.requested_search = p.self.requested_search
        BY <4>2 DEF CompressState
      <4>4. /\ p.self.kind = self.kind /\ p.self.at = self.at /\ p.self.via = self.via
            /\ self.requested_matcher = matcher
            /\ p.self.matcher = self.matcher /\ p.self.matcher_alloc = self.matcher_alloc
            /\ p.self.matcher_state = self.matcher_state
            /\ p.self.search_id = self.search_id /\ p.self.impl = self.impl
            /\ p.self.requested_search = self.requested_search
        BY <4>1 DEF Configured
      <4> HIDE DEF first, self
      <4>5. first = self
        BY <3>1, <4>3, <4>4, SameState
      <4>6. QED
        BY <4>5 DEF first
    <3>3. p.mem = mem
      BY <2>2 DEF Outcome
    <3>4. PICK again \in compress_configure(s, self, mem, options) :
              o = IF again.result = "OK" THEN again
                  ELSE Outcome(NoState, Released(s, again.self, again.mem), again.result)
      BY <1>1, <1>3, <2>4, <3>2, <3>3
    <3>5. /\ self.matcher = "STANDARD" /\ self.matcher_alloc = b /\ self.at = a
          /\ self.via = allocator[s] /\ self.requested_matcher = matcher
          /\ self.search_id = id /\ self.impl = id /\ self.requested_search = options.search
      BY DEF Configured
    <3>6. b # NULL
      BY LifecycleAssumption
    <3> HIDE DEF self, mem, id
    <3>7. \/ /\ self.requested_matcher \in {"AUTO", "STANDARD"}
             /\ again = Outcome([self EXCEPT !.search_id = id, !.requested_search = options.search,
                                          !.impl = id], mem, "OK")
          \/ /\ self.requested_matcher \notin {"AUTO", "STANDARD"}
             /\ again = Outcome([self EXCEPT !.search_id = id, !.requested_search = options.search],
                             mem, "UNSUPPORTED")
      <4>1. /\ self.matcher = "STANDARD" /\ self.matcher_alloc # NULL
            /\ self \in CompressState
            /\ again \in compress_configure(s, self, mem, options)
        BY <3>1, <3>4, <3>5, <3>6
      <4>2. Reconfigured(self, mem, options, again)
        BY <4>1, ConfigureKept
      <4>3. QED
        BY <4>2 DEF Reconfigured, id
    <3>8. /\ [self EXCEPT !.search_id = id, !.requested_search = options.search, !.impl = id] = self
          /\ [self EXCEPT !.search_id = id, !.requested_search = options.search] = self
      BY <3>1, <3>5 DEF CompressState
    <3>9. CASE matcher \in {"AUTO", "STANDARD"}
      <4>1. again = Outcome(self, mem, "OK") /\ again.result = "OK"
        BY <3>5, <3>7, <3>8, <3>9 DEF Outcome
      <4>2. o = Outcome(self, mem, "OK")
        BY <3>4, <4>1
      <4>3. QED
        BY <2>1, <2>2, <3>9, <4>2 DEF self, mem, id
    <3>10. CASE matcher \notin {"AUTO", "STANDARD"}
      <4>1. again = Outcome(self, mem, "UNSUPPORTED")
        BY <3>5, <3>7, <3>8, <3>10
      <4>2. again.result = "UNSUPPORTED" /\ again.self = self /\ again.mem = mem
        BY <4>1 DEF Outcome
      <4>3. o = Outcome(NoState, Released(s, self, mem), "UNSUPPORTED")
        BY <3>4, <4>2
      <4>4. Released(s, self, mem) = heap
        BY <2>1, <2>2, <3>1, <3>5, ReleasedNew DEF mem
      <4>5. QED
        BY <4>3, <4>4 DEF Outcome
    <3>11. QED
      BY <3>9, <3>10
  <2>5. QED
    BY <2>3, <2>4
<1>4. QED
  BY <1>2, <1>3

\* The blocks of a stream, given back, and nothing else.
LEMMA ReleasedSound ==
    ASSUME IInv, NEW s \in Streams, state[s] # NoState
    PROVE  Sound(s, NoState, Released(s, state[s], heap))
<1> DEFINE self == state[s]
           left == [heap EXCEPT ![self.matcher_alloc] = Unused]
<1>1. Good(self, heap) /\ heap \in Heap
  BY Streamwise DEF AllGood, TypeOK, Heap
<1>2. Via(s, self) = self.via
  BY DEF Via
<1>3. Own(NoState) = {} /\ Unused \in Block
  BY DEF Own, Unused, Block
<1>4. CASE self \in DecompressState /\ Backed(self, heap)
  <2>1. Own(self) = {self.at} /\ self.at \in Addresses
    BY <1>4, Kinds DEF Own, DecompressState
  <2>2. Released(s, self, heap) = Freed(heap, self.at, self.via)
    BY <1>2, <1>4, Kinds DEF Released
  <2>3. Freed(heap, self.at, self.via) = [heap EXCEPT ![self.at] = Unused]
    BY <1>1, <1>4, <2>1, FreedBlock DEF Backed
  <2>4. QED
    BY <1>1, <1>3, <2>1, <2>2, <2>3 DEF Sound, Good, Heap
<1>5. CASE /\ self \in CompressState /\ Backed(self, heap)
           /\ self.matcher_alloc # self.at /\ self.matcher_alloc # NULL
  <2>1. /\ Own(self) = {self.at, self.matcher_alloc}
        /\ self.at \in Addresses /\ self.matcher_alloc \in Addresses
    BY <1>5, Kinds DEF Own, CompressState
  <2>2. Released(s, self, heap) = Freed(Freed(heap, self.matcher_alloc, self.via), self.at, self.via)
    BY <1>2, <1>5, Kinds DEF Released
  <2>3. Freed(heap, self.matcher_alloc, self.via) = left
    BY <1>1, <1>5, <2>1, FreedBlock DEF Backed
  <2>4. left \in Heap /\ left[self.at] = heap[self.at]
    BY <1>1, <1>3, <1>5, <2>1 DEF Heap
  <2>5. left[self.at].by = self.via /\ left[self.at].size > 0
    BY <1>5, <2>1, <2>4 DEF Backed
  <2>6. Freed(left, self.at, self.via) = [left EXCEPT ![self.at] = Unused]
    <3> HIDE DEF left
    <3>1. QED
      BY <2>1, <2>4, <2>5, FreedBlock
  <2> DEFINE mem == [left EXCEPT ![self.at] = Unused]
  <2>7. /\ mem \in Heap /\ \A a \in Own(self) : mem[a] = Unused
        /\ \A a \in Addresses \ Own(self) : mem[a] = heap[a]
    BY <1>1, <1>3, <2>1, <2>4 DEF Heap
  <2>8. Released(s, self, heap) = mem
    BY <2>2, <2>3, <2>6
  <2> HIDE DEF mem
  <2>9. QED
    BY <1>3, <2>7, <2>8 DEF Sound, Good
<1>6. QED
  BY <1>1, <1>4, <1>5 DEF Good, Usable

\* Configuring a live stream again leaves a sound outcome, and always can.
LEMMA ResetSound ==
    ASSUME IInv, NEW s \in Streams, IsCompressor(s), NEW options \in Options,
           compress_validate_options(options) = "OK",
           NEW o \in compress_configure(s, state[s], heap, options)
    PROVE  /\ Sound(s, o.self, heap) /\ o = Outcome(o.self, heap, "OK")
           /\ o.self.matcher = state[s].matcher /\ o.self.matcher_alloc = state[s].matcher_alloc
<1> DEFINE self == state[s]
           id == Chosen(options)
           new == [self EXCEPT !.search_id = id, !.requested_search = options.search, !.impl = id]
<1>1. Good(self, heap) /\ heap \in Heap
  BY Streamwise DEF AllGood, TypeOK, Heap
<1>2. /\ self \in CompressState /\ Backed(self, heap)
      /\ self.matcher_alloc # self.at
      /\ Usable(self, heap) /\ Honoured(self)
  BY <1>1, Kinds DEF Good, IsCompressor
<1>3. id # NONE
  BY DEF compress_validate_options, Chosen
<1>4. /\ id \in Searches \ {"AUTO"} /\ Built(machine, id)
      /\ is_impl_supported(machine, id) /\ Runs(id)
      /\ options.search \in Searches /\ options.search \in {"AUTO", id}
  BY <1>3, KernelRuns, LifecycleAssumption DEF Options
<1>5. /\ self.matcher = "STANDARD" /\ self.matcher_alloc # NULL
      /\ self.requested_matcher \in {"AUTO", "STANDARD"}
  BY <1>2 DEF CompressState, Usable, Honoured
<1>6. Reconfigured(self, heap, options, o)
  <2> HIDE DEF self
  <2>1. QED
    BY <1>2, <1>5, ConfigureKept DEF self
<1> HIDE DEF id, self
<1>7. o = Outcome(new, heap, "OK") /\ o.self = new
  BY <1>5, <1>6 DEF Reconfigured, Outcome, id
<1>8. /\ new \in CompressState /\ new.at = self.at /\ new.via = self.via
      /\ new.kind = self.kind /\ new.requested_matcher = self.requested_matcher
      /\ new.matcher = self.matcher /\ new.matcher_alloc = self.matcher_alloc
      /\ new.matcher_state = self.matcher_state
      /\ new.search_id = id /\ new.impl = id /\ new.requested_search = options.search
  BY <1>2, <1>4 DEF CompressState
<1> HIDE DEF new
<1>9. Own(new) = Own(self)
  BY <1>2, <1>8, Kinds DEF Own
<1>10. Backed(new, heap) /\ Usable(new, heap)
  BY <1>2, <1>8, <1>9 DEF Backed, Usable
<1>11. Honoured(new)
  BY <1>2, <1>3, <1>4, <1>8 DEF Honoured
<1>12. Good(new, heap)
  BY <1>2, <1>8, <1>10, <1>11 DEF Good
<1>13. Sound(s, new, heap)
  BY <1>1, <1>9, <1>12 DEF Sound, self
<1>14. QED
  BY <1>7, <1>8, <1>13 DEF self

-----------------------------------------------------------------------------
(* Steps. *)

\* What FailuresUndone says of a step that is a call for stream s.
StepUndone(s) ==
    /\ call'.stream = s
    /\ call'.result # "OK" => UNCHANGED <<state, heap>>
    /\ call'.function = "reset" =>
          /\ call'.result # "MEMORY_ERROR" /\ UNCHANGED heap
          /\ IsCompressor(s) => state'[s].matcher = state[s].matcher
                                /\ state'[s].matcher_alloc = state[s].matcher_alloc

\* A function that leaves everything as it was.
LEMMA NothingDone ==
    ASSUME IInv, NEW s \in Streams, NEW function \in {"init", "reset", "end"}, NEW result,
           result # "MEMORY_ERROR" \/ function # "reset",
           Returns(function, s, Outcome(state[s], heap, result))
    PROVE  IInv' /\ StepUndone(s)
<1>1. Good(state[s], heap) /\ heap \in Heap
  BY Streamwise DEF AllGood, TypeOK, Heap
<1>2. Sound(s, state[s], heap)
  BY <1>1 DEF Sound
<1>3. IInv'
  BY <1>2, SoundStep
<1>4. state' = state /\ heap' = heap
  BY DEF Returns, Outcome, IInv, TypeOK
<1>5. call' = [function |-> function, stream |-> s, result |-> result]
  BY DEF Returns, Outcome
<1>6. QED
  BY <1>3, <1>4, <1>5 DEF StepUndone

\* One that leaves a sound outcome and has not failed.
LEMMA Succeeded ==
    ASSUME IInv, NEW s \in Streams, NEW function \in {"init", "end"},
           NEW self, NEW mem, Sound(s, self, mem),
           Returns(function, s, Outcome(self, mem, "OK"))
    PROVE  IInv' /\ StepUndone(s)
<1>1. IInv'
  BY SoundStep
<1>2. call' = [function |-> function, stream |-> s, result |-> "OK"]
  BY DEF Returns, Outcome
<1>3. QED
  BY <1>1, <1>2 DEF StepUndone

LEMMA CompressInitStep ==
    ASSUME IInv, NEW s \in Streams, yaz0_compress_init_with_matcher(s)
    PROVE  IInv' /\ StepUndone(s)
<1>1. PICK options \in Options, matcher \in MatcherRequests :
          \E o \in InitWithMatcher(s, options, matcher) : Returns("init", s, o)
  BY DEF yaz0_compress_init_with_matcher
<1>2. PICK o \in InitWithMatcher(s, options, matcher) : Returns("init", s, o)
  BY <1>1
<1>3. state[s] = NoState
  BY DEF yaz0_compress_init_with_matcher
<1>4. CASE o = Outcome(NoState, heap, o.result)
  BY <1>2, <1>3, <1>4, NothingDone
<1>5. CASE /\ allocator[s] # HALF /\ Chosen(options) # NONE
           /\ matcher \in {"AUTO", "STANDARD"}
           /\ \E a, b \in Addresses :
                 /\ a # b /\ heap[a] = Unused /\ heap[b] = Unused
                 /\ o = Outcome(Configured(s, a, b, Chosen(options), options.search, matcher),
                                Taken(s, a, b), "OK")
  <2>1. PICK a \in Addresses, b \in Addresses :
                 /\ a # b /\ heap[a] = Unused /\ heap[b] = Unused
                 /\ o = Outcome(Configured(s, a, b, Chosen(options), options.search, matcher),
                                Taken(s, a, b), "OK")
    BY <1>5
  <2>2. Sound(s, Configured(s, a, b, Chosen(options), options.search, matcher), Taken(s, a, b))
    BY <1>3, <1>5, <2>1, ConfiguredSound
  <2>3. QED
    BY <1>2, <2>1, <2>2, Succeeded
<1>6. QED
  BY <1>2, <1>4, <1>5, InitWithMatcherOutcome

LEMMA CompressResetStep ==
    ASSUME IInv, NEW s \in Streams, yaz0_compress_reset(s)
    PROVE  IInv' /\ StepUndone(s)
<1>1. PICK options \in Options :
        \/ ~IsCompressor(s) /\ Returns("reset", s, Outcome(state[s], heap, "STREAM_ERROR"))
        \/ /\ IsCompressor(s) /\ compress_validate_options(options) # "OK"
           /\ Returns("reset", s,
                      Outcome(state[s], heap, compress_validate_options(options)))
        \/ /\ IsCompressor(s) /\ compress_validate_options(options) = "OK"
           /\ \E o \in compress_configure(s, state[s], heap, options) :
                  Returns("reset", s, o)
  BY DEF yaz0_compress_reset
<1>2. CASE Returns("reset", s, Outcome(state[s], heap, "STREAM_ERROR"))
  BY <1>2, NothingDone
<1>3. CASE Returns("reset", s, Outcome(state[s], heap, compress_validate_options(options)))
  <2>1. compress_validate_options(options) # "MEMORY_ERROR"
    BY DEF compress_validate_options
  <2>2. QED
    BY <1>3, <2>1, NothingDone
<1>4. CASE /\ IsCompressor(s) /\ compress_validate_options(options) = "OK"
           /\ \E o \in compress_configure(s, state[s], heap, options) :
                  Returns("reset", s, o)
  <2>1. PICK o \in compress_configure(s, state[s], heap, options) : Returns("reset", s, o)
    BY <1>4
  <2>2. /\ Sound(s, o.self, heap) /\ o = Outcome(o.self, heap, "OK")
        /\ o.self.matcher = state[s].matcher
        /\ o.self.matcher_alloc = state[s].matcher_alloc
    BY <1>4, <2>1, ResetSound
  <2>3. IInv'
    BY <2>1, <2>2, SoundStep
  <2>4. /\ state'[s] = o.self /\ heap' = heap
        /\ call' = [function |-> "reset", stream |-> s, result |-> "OK"]
    BY <2>1, <2>2 DEF Returns, Outcome, IInv, TypeOK
  <2>5. QED
    BY <2>2, <2>3, <2>4 DEF StepUndone
<1>5. QED
  BY <1>1, <1>2, <1>3, <1>4

LEMMA DecompressInitStep ==
    ASSUME IInv, NEW s \in Streams, yaz0_decompress_init(s)
    PROVE  IInv' /\ StepUndone(s)
<1>1. state[s] = NoState
  BY DEF yaz0_decompress_init
<1>2. CASE Returns("init", s, Outcome(NoState, heap, "STREAM_ERROR"))
  BY <1>1, <1>2, NothingDone
<1>3. CASE /\ allocator[s] # HALF
           /\ \E t \in Allocations(heap, STATE_SIZE, Via(s, NoState)) :
                 Returns("init", s,
                     IF t.at = NULL THEN Outcome(NoState, t.mem, "MEMORY_ERROR")
                     ELSE Outcome([kind |-> "DECOMPRESSOR", at |-> t.at,
                                   via |-> allocator[s]], t.mem, "OK"))
  <2>1. PICK t \in Allocations(heap, STATE_SIZE, Via(s, NoState)) :
                 Returns("init", s,
                     IF t.at = NULL THEN Outcome(NoState, t.mem, "MEMORY_ERROR")
                     ELSE Outcome([kind |-> "DECOMPRESSOR", at |-> t.at,
                                   via |-> allocator[s]], t.mem, "OK"))
    BY <1>3
  <2>2. /\ allocator[s] \in Allocators \cup {DEFAULT} /\ Via(s, NoState) = allocator[s]
        /\ heap \in Heap /\ STATE_SIZE \in Nat /\ STATE_SIZE > 0
    BY <1>3, LifecycleAssumption DEF IInv, TypeOK, Via, Heap
  <2>3. CASE t.at = NULL /\ t.mem = heap
    BY <1>1, <2>1, <2>3, NothingDone
  <2>4. CASE /\ t.at \in Addresses /\ t.at # NULL /\ heap[t.at] = Unused
             /\ t.mem = [heap EXCEPT ![t.at] = [by |-> allocator[s], size |-> STATE_SIZE]]
             /\ t.mem \in Heap
    <3> DEFINE self == [kind |-> "DECOMPRESSOR", at |-> t.at, via |-> allocator[s]]
    <3>1. self \in DecompressState /\ self.at = t.at /\ self.via = allocator[s]
      BY <2>2, <2>4 DEF DecompressState
    <3> HIDE DEF self
    <3>2. Own(self) = {t.at} /\ Own(state[s]) = {}
      BY <1>1, <3>1, Kinds DEF Own
    <3>3. /\ t.mem[t.at].by = allocator[s] /\ t.mem[t.at].size > 0
          /\ \A a \in Addresses \ {t.at} : t.mem[a] = heap[a]
      BY <2>2, <2>4 DEF Heap
    <3>4. Sound(s, self, t.mem)
      BY <2>4, <3>1, <3>2, <3>3 DEF Sound, Good, Backed
    <3>5. Returns("init", s, Outcome(self, t.mem, "OK"))
      BY <2>1, <2>4 DEF self
    <3>6. QED
      BY <3>4, <3>5, Succeeded
  <2>5. QED
    BY <2>1, <2>2, <2>3, <2>4, NewBlock
<1>4. QED
  BY <1>2, <1>3 DEF yaz0_decompress_init

LEMMA EndStep ==
    ASSUME IInv, NEW s \in Streams, yaz0_compress_end(s) \/ yaz0_decompress_end(s)
    PROVE  IInv' /\ StepUndone(s)
<1>1. CASE Returns("end", s, Outcome(state[s], heap, "OK"))
  BY <1>1, NothingDone
<1>2. CASE /\ IsCompressor(s) \/ IsDecompressor(s)
           /\ Returns("end", s, Outcome(NoState, Released(s, state[s], heap), "OK"))
  <2>1. state[s] # NoState
    BY <1>2, Kinds DEF IsCompressor, IsDecompressor
  <2>2. QED
    BY <1>2, <2>1, ReleasedSound, Succeeded
<1>3. QED
  BY <1>1, <1>2 DEF yaz0_compress_end, yaz0_decompress_end

LEMMA DecompressResetStep ==
    ASSUME IInv, NEW s \in Streams, yaz0_decompress_reset(s)
    PROVE  IInv' /\ StepUndone(s)
BY NothingDone DEF yaz0_decompress_reset

\* The invariant says nothing of the streams' allocators, but their type, nor of
\* the last call.
LEMMA Kept ==
    ASSUME IInv, UNCHANGED <<machine, state, heap>>, TypeOK'
    PROVE  IInv'
<1>1. machine' = machine /\ state' = state /\ heap' = heap
  OBVIOUS
<1>2. BlocksAccounted'
  <2>1. \A s \in Streams : Owned(s)' = Owned(s) /\ IsCompressor(s)' = IsCompressor(s)
    BY <1>1 DEF Owned, Live, IsCompressor
  <2>2. Unused' = Unused
    OBVIOUS
  <2>3. QED
    BY <1>1, <2>1, <2>2 DEF IInv, BlocksAccounted
<1>3. MatcherUsable'
  BY <1>1 DEF IInv, MatcherUsable, IsCompressor
<1>4. RequestsHonoured'
  <2>1. \A id : Runs(id)' <=> Runs(id)
    BY <1>1, Zenon DEF Runs
  <2>2. QED
    BY <1>1, <2>1, Zenon DEF IInv, RequestsHonoured, IsCompressor
<1>5. QED
  BY <1>2, <1>3, <1>4 DEF IInv

LEMMA SetAllocatorStep ==
    ASSUME IInv, NEW s \in Streams, SetAllocator(s)
    PROVE  IInv' /\ UNCHANGED <<state, heap, call>>
<1>1. TypeOK'
  BY DEF SetAllocator, IInv, TypeOK
<1>2. UNCHANGED <<machine, state, heap, call>>
  BY DEF SetAllocator
<1>3. QED
  BY <1>1, <1>2, Kept

\* Every step is a call for one stream, or changes none.
LEMMA Step ==
    ASSUME IInv, [Next]_vars
    PROVE  IInv' /\ (UNCHANGED <<state, heap, call>> \/ \E s \in Streams : StepUndone(s))
<1>1. CASE UNCHANGED vars
  <2>1. TypeOK'
    BY <1>1 DEF vars, IInv, TypeOK
  <2>2. QED
    BY <1>1, <2>1, Kept DEF vars
<1>2. CASE \E s \in Streams : yaz0_compress_init_with_matcher(s)
  BY <1>2, CompressInitStep
<1>3. CASE \E s \in Streams : yaz0_compress_reset(s)
  BY <1>3, CompressResetStep
<1>4. CASE \E s \in Streams : yaz0_compress_end(s) \/ yaz0_decompress_end(s)
  BY <1>4, EndStep
<1>5. CASE \E s \in Streams : yaz0_decompress_init(s)
  BY <1>5, DecompressInitStep
<1>6. CASE \E s \in Streams : yaz0_decompress_reset(s)
  BY <1>6, DecompressResetStep
<1>7. CASE \E s \in Streams : SetAllocator(s)
  BY <1>7, SetAllocatorStep
<1>8. QED
  BY <1>1, <1>2, <1>3, <1>4, <1>5, <1>6, <1>7 DEF Next

-----------------------------------------------------------------------------
(* Theorems. *)

LEMMA Start == Init => IInv
<1> SUFFICES ASSUME Init PROVE IInv
  OBVIOUS
<1>1. \A s \in Streams : state[s] = NoState
  BY DEF Init
<1>2. TypeOK
  BY <1>1, LifecycleAssumption DEF Init, TypeOK, Block, Unused
<1>3. QED
  BY <1>1, <1>2, Kinds DEF Init, IInv, BlocksAccounted, MatcherUsable, RequestsHonoured, Owned, Live,
       IsCompressor

\* The inductive invariant holds in every state.
THEOREM Invariance == Spec => []IInv
BY Start, Step, PTL DEF Spec

\* Every variable has its type, however many streams there are.
THEOREM TypeCorrect == Spec => []TypeOK
<1>1. IInv => TypeOK
  BY DEF IInv
<1>2. QED
  BY <1>1, Invariance, PTL

\* No sequence of inits, resets, ends and failures leaks a block, gives one back
\* twice or gives one to an allocator it did not come from, whatever the caller
\* does to the allocator of a stream in the meantime.
THEOREM BlocksCorrect == Spec => []BlocksAccounted
<1>1. IInv => BlocksAccounted
  BY DEF IInv
<1>2. QED
  BY <1>1, Invariance, PTL

\* Every compression stream has a matcher and enough aligned memory for it.
THEOREM MatcherCorrect == Spec => []MatcherUsable
<1>1. IInv => MatcherUsable
  BY DEF IInv
<1>2. QED
  BY <1>1, Invariance, PTL

\* The kernel and the matcher in use are those reported; the kernel is built,
\* accepted by its probe and one the machine runs; and a kernel or a matcher
\* asked for by name is the one in use.
THEOREM RequestsCorrect == Spec => []RequestsHonoured
<1>1. IInv => RequestsHonoured
  BY DEF IInv
<1>2. QED
  BY <1>1, Invariance, PTL

\* A call that fails leaves no trace, the second time as the first, and a reset never touches memory.
THEOREM FailuresCorrect == Spec => FailuresUndone
<1>1. IInv /\ [Next]_vars =>
        [\A s \in Streams : call'.stream = s =>
            /\ call'.result # "OK" => UNCHANGED <<state, heap>>
            /\ call'.function = "reset" =>
                  /\ call'.result # "MEMORY_ERROR" /\ UNCHANGED heap
                  /\ IsCompressor(s) => state'[s].matcher = state[s].matcher
                                        /\ state'[s].matcher_alloc = state[s].matcher_alloc]_<<state, heap, call>>
  BY Step DEF StepUndone
<1>2. QED
  BY <1>1, Invariance, PTL DEF Spec, FailuresUndone
=============================================================================
