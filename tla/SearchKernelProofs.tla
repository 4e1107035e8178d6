------------------------- MODULE SearchKernelProofs -------------------------
(***************************************************************************)
(* Every kernel returns the longest match and the earliest place that has  *)
(* it, whatever its block loops, and reads nothing behind the lookahead.   *)
(* The invariant follows the scan: the candidates it has left behind, but  *)
(* for those in the mask, are beaten by the match it holds.                *)
(***************************************************************************)
EXTENDS SearchKernels, Yaz0FormatProofs

\* A block loop is always a whole number of steps from where it began.
Aligned == Blocks => \E n \in Nat : i - start_pos = Step * n

\* The search is not over yet, and the filter is that of the longest run.
FilterCurrent ==
    running => /\ longest_run < max_lookahead
               /\ Blocks => want_offset = WantOffset(longest_run)

\* The match it holds is one, and lies before all that is still to be tried.
HoldsMatch ==
    running /\ longest_run > 0 =>
        /\ match_pos \in start_pos .. i - 1
        /\ Agree(match_pos, longest_run)
        /\ \A pos \in mask : match_pos < pos

IInv == /\ TypeOK /\ Aligned /\ FilterCurrent /\ HoldsMatch
        /\ NothingMissed /\ FindsLongest

-----------------------------------------------------------------------------

LEMMA Constants ==
    /\ MAX_MATCH \in Nat /\ MIN_MATCH = 3 /\ MIN_MATCH <= MAX_MATCH
    /\ Windows \subseteq Seq(Byte)
BY FormatAssumption, KernelAssumption DEF MIN_MATCH

\* The numbers of a call, out of its type.
LEMMA CallTypes ==
    ASSUME TypeOK
    PROVE  /\ offset \in Nat /\ start_pos \in Nat /\ start_pos <= offset
           /\ i \in Nat /\ start_pos <= i /\ i <= offset
           /\ max_lookahead \in Nat /\ MIN_MATCH <= max_lookahead
           /\ longest_run \in Nat /\ longest_run <= max_lookahead
           /\ match_pos \in Nat /\ want_offset \in Nat
           /\ Len(data) \in Nat /\ offset + max_lookahead <= Len(data)
           /\ mask \subseteq start_pos .. i - 1
<1>1. Len(data) \in Nat
  BY Constants DEF TypeOK
<1> QED
  BY <1>1, Constants DEF TypeOK, Least

\* To agree in more places is to agree in fewer.
LEMMA AgreeLess ==
    ASSUME NEW pos, NEW m \in Nat, NEW n \in Nat, n <= m, Agree(pos, m)
    PROVE  Agree(pos, n)
<1>1. 0 .. n - 1 \subseteq 0 .. m - 1
  OBVIOUS
<1> QED
  BY <1>1 DEF Agree

\* A candidate that differs in one place agrees in no more than that.
LEMMA Differs ==
    ASSUME NEW pos, NEW k \in Nat, At(pos + k) # At(offset + k),
           NEW length \in Nat, k < length
    PROVE  ~Agree(pos, length)
<1>1. k \in 0 .. length - 1
  OBVIOUS
<1> QED
  BY <1>1 DEF Agree

\* A step leaves the call alone, and so what its candidates agree in.
LEMMA AgreeStays ==
    ASSUME UNCHANGED callVars
    PROVE  /\ UNCHANGED <<kernel, data, start_pos, offset, max_lookahead>>
           /\ \A pos, length : Agree(pos, length)' <=> Agree(pos, length)
           /\ \A pos, run, best : Beaten(pos, run, best)' <=> Beaten(pos, run, best)
BY DEF callVars, Agree, At, Beaten

LEMMA LoopTypes ==
    ASSUME TypeOK, Blocks
    PROVE  /\ Step \in Nat \ {0}
           /\ kernel.loops[loop].unit \in Nat \ {0}
           /\ \E k \in Nat : kernel.loops[loop].unit = Step * k
<1>1. kernel \in Kernel /\ loop \in 1 .. Len(kernel.loops)
  BY KernelAssumption DEF TypeOK, Blocks, Kernel
<1>2. kernel.loops[loop] \in Loop
  BY <1>1 DEF Kernel
<1>3. Divides(Step, kernel.loops[loop].unit)
  BY <1>1, KernelAssumption DEF TypeOK, Step
<1> QED
  BY <1>2, <1>3 DEF Loop, Step, Divides

\* Of two multiples of a step the larger is at least a step away.
LEMMA NextMultiple ==
    ASSUME NEW s \in Nat, NEW m \in Nat, NEW n \in Nat, s * m < s * n
    PROVE  s * m + s <= s * n
<1>1. m < n
  <2>1. SUFFICES ASSUME n <= m PROVE s * n <= s * m
    OBVIOUS
  <2>2. PICK d \in Nat : m = n + d
    BY <2>1
  <2>3. s * m = s * n + s * d /\ s * d \in Nat
    BY <2>2
  <2> QED BY <2>3
<1>2. PICK d \in Nat : n = m + 1 + d
  BY <1>1
<1>3. s * n = s * m + s + s * d /\ s * d \in Nat
  BY <1>2
<1> QED BY <1>3

\* What a block loop takes at once lies before the position searched for.
LEMMA BlockFits ==
    ASSUME TypeOK, Aligned, Blocks, i < BlockEnd
    PROVE  i + Step <= offset
<1> DEFINE unit == kernel.loops[loop].unit
           far == offset - start_pos
<1>1. Step \in Nat \ {0} /\ unit \in Nat \ {0}
  BY LoopTypes
<1>2. PICK k \in Nat : unit = Step * k
  BY LoopTypes
<1>3. PICK n \in Nat : i - start_pos = Step * n
  BY DEF Aligned
<1>4. far \in Nat /\ i \in Nat /\ start_pos \in Nat /\ offset \in Nat
  BY CallTypes
<1> HIDE DEF unit, far
<1>5. PICK q \in Nat : far - (far % unit) = unit * q
  <2>1. far \div unit \in Nat /\ far % unit \in Nat
        /\ far = unit * (far \div unit) + (far % unit)
    BY <1>1, <1>4, DivMod
  <2>2. unit * (far \div unit) \in Nat
    BY <1>1, <2>1
  <2> QED BY <2>1, <2>2
<1>6. unit * q = Step * (k * q) /\ k * q \in Nat
  BY <1>1, <1>2
<1>7. BlockEnd = start_pos + Step * (k * q) /\ BlockEnd <= offset
  <2>1. far % unit \in Nat
    BY <1>1, <1>4, DivMod
  <2>2. BlockEnd = offset - (far % unit) /\ far = offset - start_pos
    BY DEF BlockEnd, unit, far
  <2>3. Step * (k * q) \in Nat
    BY <1>1, <1>6
  <2> QED BY <1>4, <1>5, <1>6, <2>1, <2>2, <2>3
<1>8. Step * n < Step * (k * q)
  BY <1>1, <1>3, <1>4, <1>6, <1>7
<1>9. Step * n + Step <= Step * (k * q)
  BY <1>1, <1>6, <1>8, NextMultiple
<1>10. Step * n \in Nat /\ Step * (k * q) \in Nat /\ Step \in Nat
  BY <1>1, <1>6
<1> QED
  BY <1>3, <1>4, <1>7, <1>9, <1>10

-----------------------------------------------------------------------------
(* What measuring a candidate does, of a block or not. *)

LEMMA Considered ==
    ASSUME TypeOK, FilterCurrent, running,
           NEW Passed, NEW pos \in start_pos .. offset - 1, Consider(pos),
           \A c \in start_pos .. pos - 1 : c \in Passed,
           Passed \subseteq start_pos .. offset - 1,
           \A c \in Passed : Beaten(c, longest_run, match_pos),
           longest_run > 0 => /\ match_pos \in start_pos .. pos - 1
                              /\ Agree(match_pos, longest_run)
    PROVE  /\ longest_run' \in 0 .. max_lookahead /\ match_pos' \in Nat
           /\ running' \in BOOLEAN /\ result' \in 0 .. max_lookahead
           /\ longest_run' > longest_run \/ longest_run' = longest_run
           /\ running' =>
                 /\ longest_run' < max_lookahead
                 /\ \A c \in Passed \cup {pos} : Beaten(c, longest_run', match_pos')
                 /\ longest_run' > 0 => /\ match_pos' \in start_pos .. pos
                                        /\ Agree(match_pos', longest_run')
           /\ ~running' =>
                 /\ result' = max_lookahead /\ match_pos' = pos
                 /\ Agree(pos, max_lookahead)
                 /\ \A c \in start_pos .. pos - 1 : ~Agree(c, max_lookahead)
<1>1. PICK run \in 0 .. max_lookahead :
        /\ IsLength(pos, run)
        /\ longest_run' = IF run > longest_run THEN run ELSE longest_run
        /\ match_pos' = IF run > longest_run THEN pos ELSE match_pos
        /\ running' = (run < max_lookahead)
        /\ result' = IF run < max_lookahead THEN result ELSE run
  BY DEF Consider
<1>2. /\ offset \in Nat /\ start_pos \in Nat /\ pos \in Nat /\ run \in Nat
      /\ max_lookahead \in Nat /\ MIN_MATCH = 3 /\ MIN_MATCH <= max_lookahead
      /\ longest_run \in Nat /\ longest_run < max_lookahead /\ match_pos \in Nat
  BY <1>1, CallTypes, Constants DEF FilterCurrent
<1>3. result \in 0 .. max_lookahead
  BY DEF TypeOK
<1>4. /\ running' \in BOOLEAN
      /\ run < max_lookahead => running'
      /\ run = max_lookahead => ~running'
  <2>1. running' \in BOOLEAN
    <3>1. (run < max_lookahead) \in BOOLEAN
      BY <1>2
    <3> QED BY <1>1, <3>1, Zenon
  <2>2. (run < max_lookahead) => running'
    BY <1>1, Zenon
  <2>3. ~(run < max_lookahead) => ~running'
    BY <1>1, Zenon
  <2>4. run = max_lookahead => ~(run < max_lookahead)
    BY <1>2
  <2> QED BY <2>1, <2>2, <2>3, <2>4
<1> DEFINE floor == IF longest_run < MIN_MATCH THEN MIN_MATCH ELSE longest_run + 1
<1>5. CASE run <= longest_run
  <2>1. longest_run' = longest_run /\ match_pos' = match_pos /\ result' = result
    BY <1>1, <1>2, <1>5
  <2>2. At(pos + run) # At(offset + run)
    BY <1>1, <1>2, <1>5 DEF IsLength
  <2>3. ~Agree(pos, floor)
    <3>1. floor \in Nat /\ run < floor
      BY <1>2, <1>5
    <3> HIDE DEF floor
    <3> QED BY <1>2, <2>2, <3>1, Differs
  <2>4. Beaten(pos, longest_run, match_pos)
    <3>1. ~(pos < match_pos /\ longest_run >= MIN_MATCH)
      BY <1>2
    <3> QED BY <2>3, <3>1 DEF Beaten
  <2>5. running'
    BY <1>2, <1>5, <1>4
  <2> QED
    BY <1>2, <1>3, <1>4, <2>1, <2>4, <2>5
<1>6. CASE run > longest_run
  <2>1. longest_run' = run /\ match_pos' = pos /\ Agree(pos, run)
    BY <1>1, <1>2, <1>6 DEF IsLength
  <2>2. ASSUME NEW c \in Passed, run >= MIN_MATCH
        PROVE  ~Agree(c, run)
    <3>1. ~Agree(c, floor)
      BY DEF Beaten
    <3> QED BY <1>2, <1>6, <2>2, <3>1, AgreeLess
  <2>3. CASE run = max_lookahead
    BY <1>1, <1>2, <1>4, <1>6, <2>1, <2>2, <2>3
  <2>4. CASE run < max_lookahead
    <3> DEFINE next == IF run < MIN_MATCH THEN MIN_MATCH ELSE run + 1
    <3>1. running' /\ result' = result
      BY <1>1, <1>4, <2>4
    <3>2. ~Agree(pos, next)
      <4>1. At(pos + run) # At(offset + run)
        BY <1>1, <2>4 DEF IsLength
      <4>2. next \in Nat /\ run < next
        BY <1>2
      <4> HIDE DEF next
      <4> QED BY <1>2, <4>1, <4>2, Differs
    <3>3. Beaten(pos, run, pos)
      BY <1>2, <3>2 DEF Beaten
    <3>4. ASSUME NEW c \in Passed
          PROVE  Beaten(c, run, pos)
      <4>1. ~Agree(c, floor)
        BY DEF Beaten
      <4>2. ~Agree(c, next)
        BY <1>2, <1>6, <4>1, AgreeLess
      <4>3. run >= MIN_MATCH => ~Agree(c, run)
        BY <2>2
      <4> QED BY <4>2, <4>3 DEF Beaten
    <3> QED BY <1>2, <1>3, <1>4, <1>6, <2>1, <2>4, <3>1, <3>3, <3>4
  <2> QED BY <1>1, <1>2, <2>3, <2>4
<1> QED
  BY <1>1, <1>2, <1>5, <1>6

-----------------------------------------------------------------------------

LEMMA InitInv == Init => IInv
<1> SUFFICES ASSUME Init PROVE IInv
  OBVIOUS
<1>1. /\ Len(data) \in Nat /\ offset \in Nat /\ start_pos \in Nat
      /\ start_pos <= offset /\ offset + MIN_MATCH <= Len(data)
  BY Constants DEF Init
<1>2. max_lookahead \in Nat /\ MIN_MATCH <= max_lookahead
  BY <1>1, Constants DEF Init, Least
<1>3. kernel \in Kernel
  BY KernelAssumption DEF Init
<1>4. Len(kernel.loops) \in Nat
  BY <1>3 DEF Kernel
<1>5. TypeOK
  BY <1>1, <1>2, <1>4, Constants DEF Init, TypeOK
<1>6. Aligned
  <2>1. SUFFICES ASSUME Blocks PROVE i - start_pos = Step * 0
    BY DEF Aligned
  <2>2. Step \in Nat
    BY <1>5, <2>1, LoopTypes
  <2> QED BY <1>1, <2>2 DEF Init
<1>7. FilterCurrent
  BY <1>2, Constants DEF Init, FilterCurrent, WantOffset
<1>8. HoldsMatch /\ NothingMissed /\ FindsLongest
  BY <1>1 DEF Init, HoldsMatch, NothingMissed, FindsLongest
<1> QED BY <1>5, <1>6, <1>7, <1>8 DEF IInv

\* The mask takes in all of a block that could win.
LEMMA HitsComplete ==
    ASSUME IInv, running, Blocks, i < BlockEnd,
           NEW pos \in (i .. i + Step - 1) \ Hits
    PROVE  ~Agree(pos, IF longest_run < MIN_MATCH THEN MIN_MATCH ELSE longest_run + 1)
<1> DEFINE length == IF longest_run < MIN_MATCH THEN MIN_MATCH ELSE longest_run + 1
<1>1. /\ i \in Nat /\ Step \in Nat /\ offset \in Nat /\ longest_run \in Nat
      /\ MIN_MATCH = 3 /\ want_offset = WantOffset(longest_run)
  BY CallTypes, LoopTypes, Constants DEF IInv, FilterCurrent
<1>2. /\ length \in Nat /\ 0 < length
      /\ want_offset \in Nat /\ want_offset < length
      /\ pos + 0 = pos /\ offset + 0 = offset
  BY <1>1 DEF WantOffset
<1>3. \/ At(pos + 0) # At(offset + 0)
      \/ At(pos + want_offset) # At(offset + want_offset)
  BY <1>2 DEF Hits
<1> SUFFICES ~Agree(pos, length)
  OBVIOUS
<1> HIDE DEF length
<1> QED BY <1>2, <1>3, Differs

LEMMA LoadBlockStep ==
    ASSUME IInv, LoadBlock
    PROVE  IInv'
<1>1. /\ running /\ mask = {} /\ Blocks /\ i < BlockEnd
      /\ mask' = Hits /\ i' = i + Step
      /\ UNCHANGED callVars
      /\ UNCHANGED <<loop, want_offset, longest_run, match_pos, running, result>>
  BY DEF LoadBlock
<1>2. TypeOK /\ Aligned /\ FilterCurrent /\ HoldsMatch /\ NothingMissed
  BY DEF IInv
<1>3. /\ i \in Nat /\ start_pos \in Nat /\ offset \in Nat /\ start_pos <= i
      /\ Step \in Nat \ {0} /\ i + Step <= offset
      /\ longest_run \in Nat /\ match_pos \in Nat
  BY <1>1, <1>2, CallTypes, LoopTypes, BlockFits
<1>4. /\ UNCHANGED <<kernel, data, start_pos, offset, max_lookahead>>
      /\ \A pos, length : Agree(pos, length)' <=> Agree(pos, length)
      /\ \A pos, run, best : Beaten(pos, run, best)' <=> Beaten(pos, run, best)
  BY <1>1, AgreeStays
<1>5. Hits \subseteq i .. i + Step - 1
  BY DEF Hits
<1>6. TypeOK'
  BY <1>1, <1>2, <1>3, <1>4, <1>5 DEF TypeOK
<1>7. Aligned'
  <2>1. PICK n \in Nat : i - start_pos = Step * n
    BY <1>1, <1>2 DEF Aligned
  <2>2. i + Step - start_pos = Step * (n + 1)
    BY <1>3, <2>1
  <2>3. Blocks' /\ Step' = Step
    BY <1>1, <1>4 DEF Blocks, Step
  <2>4. i' - start_pos' = Step * (n + 1) /\ n + 1 \in Nat
    <3>1. i' - start_pos' = i + Step - start_pos
      BY <1>1, <1>3, <1>4
    <3> QED BY <2>2, <3>1
  <2> QED BY <2>3, <2>4, Zenon DEF Aligned
<1>8. FilterCurrent'
  BY <1>1, <1>2, <1>4 DEF FilterCurrent, Blocks, WantOffset
<1>9. HoldsMatch'
  BY <1>1, <1>2, <1>3, <1>4, <1>5 DEF HoldsMatch
<1>10. NothingMissed'
  <2>1. SUFFICES ASSUME NEW pos \in start_pos .. i + Step - 1, pos \notin Hits
                 PROVE  Beaten(pos, longest_run, match_pos)
    BY <1>1, <1>3, <1>4 DEF NothingMissed
  <2>2. CASE pos < i
    BY <1>1, <1>2, <1>3, <2>1, <2>2 DEF NothingMissed
  <2>3. CASE pos >= i
    <3>1. pos \in (i .. i + Step - 1) \ Hits
      BY <1>3, <2>1, <2>3
    <3>2. ~(pos < match_pos /\ longest_run >= MIN_MATCH)
      BY <1>1, <1>2, <1>3, <2>3, Constants DEF HoldsMatch
    <3> QED BY <1>1, <3>1, <3>2, HitsComplete DEF Beaten
  <2> QED BY <1>3, <2>1, <2>2, <2>3
<1>11. FindsLongest'
  BY <1>1 DEF FindsLongest
<1> QED BY <1>6, <1>7, <1>8, <1>9, <1>10, <1>11 DEF IInv

LEMMA EndBlocksStep ==
    ASSUME IInv, EndBlocks
    PROVE  IInv'
<1>1. /\ running /\ mask = {} /\ Blocks /\ loop' = loop + 1
      /\ UNCHANGED callVars
      /\ UNCHANGED <<i, mask, want_offset, longest_run, match_pos, running, result>>
  BY DEF EndBlocks
<1>2. TypeOK /\ Aligned /\ FilterCurrent /\ HoldsMatch /\ NothingMissed
  BY DEF IInv
<1>3. /\ UNCHANGED <<kernel, data, start_pos, offset, max_lookahead>>
      /\ \A pos, length : Agree(pos, length)' <=> Agree(pos, length)
      /\ \A pos, run, best : Beaten(pos, run, best)' <=> Beaten(pos, run, best)
  BY <1>1, AgreeStays
<1>4. kernel \in Kernel /\ Len(kernel.loops) \in Nat /\ loop \in 1 .. Len(kernel.loops)
  BY <1>1, <1>2, KernelAssumption DEF TypeOK, Kernel, Blocks
<1>5. TypeOK'
  BY <1>1, <1>2, <1>3, <1>4 DEF TypeOK
<1>6. Aligned'
  <2>1. SUFFICES ASSUME Blocks' PROVE \E n \in Nat : i - start_pos = Step' * n
    BY <1>1, <1>3 DEF Aligned
  <2>2. loop + 1 \in 1 .. Len(kernel.loops) /\ loop + 1 > 1 /\ loop + 1 - 1 = loop
    BY <1>1, <1>3, <1>4, <2>1 DEF Blocks
  <2>3. Divides(kernel.loops[loop + 1].step, kernel.loops[loop].step)
    BY <1>2, <2>2, KernelAssumption DEF TypeOK
  <2>4. Step' = kernel.loops[loop + 1].step
    BY <1>1, <1>3 DEF Step
  <2>5. PICK k \in Nat : Step = Step' * k
    <3>1. Step \in Nat
      BY <1>1, <1>2, LoopTypes
    <3> QED BY <2>3, <2>4, <3>1 DEF Divides, Step
  <2>6. PICK n \in Nat : i - start_pos = Step * n
    BY <1>1, <1>2 DEF Aligned
  <2>7. Step' \in Nat
    <3>1. kernel.loops[loop + 1] \in Loop
      BY <1>4, <2>2 DEF Kernel
    <3> QED BY <2>4, <3>1 DEF Loop
  <2>8. k * n \in Nat /\ (Step' * k) * n = Step' * (k * n)
    BY <2>7
  <2> QED BY <2>5, <2>6, <2>8
<1>7. FilterCurrent'
  <2>1. Blocks
    BY <1>1
  <2> QED BY <1>1, <1>2, <1>3 DEF FilterCurrent, WantOffset
<1>8. HoldsMatch' /\ NothingMissed' /\ FindsLongest'
  BY <1>1, <1>2, <1>3 DEF HoldsMatch, NothingMissed, FindsLongest
<1> QED BY <1>5, <1>6, <1>7, <1>8 DEF IInv

LEMMA TryLaneStep ==
    ASSUME IInv, TryLane
    PROVE  IInv'
<1>1. PICK pos \in mask : /\ \A other \in mask : pos <= other
                          /\ mask' = mask \ {pos}
                          /\ Consider(pos)
  BY DEF TryLane
<1>2. /\ running /\ UNCHANGED callVars /\ UNCHANGED <<loop, i>>
      /\ want_offset' = IF longest_run' > longest_run /\ running'
                        THEN WantOffset(longest_run') ELSE want_offset
  BY DEF TryLane
<1>3. TypeOK /\ Aligned /\ FilterCurrent /\ HoldsMatch /\ NothingMissed
  BY DEF IInv
<1>4. /\ i \in Nat /\ start_pos \in Nat /\ offset \in Nat /\ start_pos <= i /\ i <= offset
      /\ longest_run \in Nat /\ match_pos \in Nat /\ want_offset \in Nat
      /\ max_lookahead \in Nat /\ MIN_MATCH <= max_lookahead
      /\ mask \subseteq start_pos .. i - 1
  BY <1>3, CallTypes
<1>5. /\ UNCHANGED <<kernel, data, start_pos, offset, max_lookahead>>
      /\ \A p, length : Agree(p, length)' <=> Agree(p, length)
      /\ \A p, run, best : Beaten(p, run, best)' <=> Beaten(p, run, best)
  BY <1>2, AgreeStays
<1> DEFINE Passed == (start_pos .. i - 1) \ mask
<1>6. pos \in start_pos .. offset - 1
  BY <1>1, <1>4
<1>7. \A c \in start_pos .. pos - 1 : c \in Passed
  BY <1>1, <1>4
<1>8. Passed \subseteq start_pos .. offset - 1
  BY <1>4
<1>9. \A c \in Passed : Beaten(c, longest_run, match_pos)
  BY <1>2, <1>3 DEF NothingMissed
<1>10. longest_run > 0 => match_pos \in start_pos .. pos - 1 /\ Agree(match_pos, longest_run)
  BY <1>1, <1>2, <1>3, <1>4 DEF HoldsMatch
<1>11. /\ longest_run' \in 0 .. max_lookahead /\ match_pos' \in Nat
       /\ running' \in BOOLEAN /\ result' \in 0 .. max_lookahead
       /\ longest_run' > longest_run \/ longest_run' = longest_run
       /\ running' =>
             /\ longest_run' < max_lookahead
             /\ \A c \in Passed \cup {pos} : Beaten(c, longest_run', match_pos')
             /\ longest_run' > 0 => /\ match_pos' \in start_pos .. pos
                                    /\ Agree(match_pos', longest_run')
       /\ ~running' =>
             /\ result' = max_lookahead /\ match_pos' = pos
             /\ Agree(pos, max_lookahead)
             /\ \A c \in start_pos .. pos - 1 : ~Agree(c, max_lookahead)
  <2> HIDE DEF Passed
  <2> QED BY <1>1, <1>2, <1>3, <1>6, <1>7, <1>8, <1>9, <1>10, Considered
<1>12. TypeOK'
  <2>1. WantOffset(longest_run') \in Nat
    BY <1>11, Constants DEF WantOffset
  <2>2. want_offset' \in Nat
    BY <1>2, <1>4, <2>1
  <2>3. mask' \subseteq start_pos' .. i' - 1
    BY <1>1, <1>2, <1>4, <1>5
  <2> HIDE DEF Passed
  <2> QED BY <1>2, <1>3, <1>5, <1>11, <2>2, <2>3 DEF TypeOK
<1>13. Aligned'
  BY <1>2, <1>3, <1>5 DEF Aligned, Blocks, Step
<1>14. FilterCurrent'
  <2>1. SUFFICES ASSUME running'
                 PROVE  /\ longest_run' < max_lookahead'
                        /\ Blocks' => want_offset' = WantOffset(longest_run')
    BY DEF FilterCurrent, WantOffset
  <2>2. longest_run' < max_lookahead'
    BY <1>5, <1>11, <2>1
  <2>3. ASSUME Blocks' PROVE want_offset' = WantOffset(longest_run')
    <3>1. Blocks
      BY <1>2, <1>5, <2>3 DEF Blocks
    <3>2. CASE longest_run' > longest_run
      BY <1>2, <2>1, <3>2
    <3>3. CASE longest_run' = longest_run
      BY <1>2, <1>3, <1>4, <3>1, <3>3 DEF FilterCurrent
    <3> QED BY <1>11, <3>2, <3>3
  <2> QED BY <2>2, <2>3
<1>15. HoldsMatch'
  <2>1. SUFFICES ASSUME running', longest_run' > 0
                 PROVE  /\ match_pos' \in start_pos' .. i' - 1
                        /\ Agree(match_pos', longest_run')
                        /\ \A p \in mask' : match_pos' < p
    BY <1>5 DEF HoldsMatch
  <2>2. match_pos' \in start_pos .. pos /\ Agree(match_pos', longest_run')
    BY <1>11, <2>1
  <2>3. \A p \in mask' : pos < p
    BY <1>1, <1>4
  <2> HIDE DEF Passed
  <2> QED BY <1>1, <1>2, <1>4, <1>5, <2>2, <2>3
<1>16. NothingMissed'
  <2>1. SUFFICES ASSUME running', NEW c \in start_pos .. i - 1, c \notin mask'
                 PROVE  Beaten(c, longest_run', match_pos')
    BY <1>2, <1>4, <1>5 DEF NothingMissed
  <2>2. c \in Passed \cup {pos}
    BY <1>1, <2>1
  <2> QED BY <1>11, <2>1, <2>2
<1>17. FindsLongest'
  <2>1. SUFFICES ASSUME ~running'
                 PROVE  /\ result' >= MIN_MATCH
                        /\ match_pos' \in start_pos .. offset - 1
                        /\ Agree(match_pos', result')
                        /\ \A p \in start_pos .. offset - 1 :
                              /\ Agree(p, result') => p >= match_pos'
                              /\ result' < max_lookahead => ~Agree(p, result' + 1)
    BY <1>4, <1>5 DEF FindsLongest
  <2>2. /\ result' = max_lookahead /\ match_pos' = pos /\ Agree(pos, max_lookahead)
        /\ \A c \in start_pos .. pos - 1 : ~Agree(c, max_lookahead)
    BY <1>11, <2>1
  <2> HIDE DEF Passed
  <2> QED BY <1>4, <1>6, <2>2
<1> QED BY <1>12, <1>13, <1>14, <1>15, <1>16, <1>17 DEF IInv

LEMMA SkipStep ==
    ASSUME IInv, Skip
    PROVE  IInv'
<1>1. /\ running /\ mask = {} /\ ~Blocks /\ i < offset /\ Rejected
      /\ i' = i + 1 /\ UNCHANGED callVars
      /\ UNCHANGED <<loop, mask, want_offset, longest_run, match_pos, running, result>>
  BY DEF Skip
<1>2. TypeOK /\ Aligned /\ FilterCurrent /\ HoldsMatch /\ NothingMissed
  BY DEF IInv
<1>3. /\ i \in Nat /\ start_pos \in Nat /\ offset \in Nat /\ start_pos <= i
      /\ longest_run \in Nat /\ match_pos \in Nat /\ MIN_MATCH = 3
      /\ i + 0 = i /\ offset + 0 = offset
  BY <1>2, CallTypes, Constants
<1>4. /\ UNCHANGED <<kernel, data, start_pos, offset, max_lookahead>>
      /\ \A pos, length : Agree(pos, length)' <=> Agree(pos, length)
      /\ \A pos, run, best : Beaten(pos, run, best)' <=> Beaten(pos, run, best)
  BY <1>1, AgreeStays
<1>5. TypeOK'
  BY <1>1, <1>2, <1>3, <1>4 DEF TypeOK
<1>6. ~Blocks'
  BY <1>1, <1>4 DEF Blocks
<1>7. Aligned' /\ FilterCurrent' /\ HoldsMatch' /\ FindsLongest'
  BY <1>1, <1>2, <1>3, <1>4, <1>6
  DEF Aligned, FilterCurrent, HoldsMatch, FindsLongest
<1>8. Beaten(i, longest_run, match_pos)
  <2> DEFINE length == IF longest_run < MIN_MATCH THEN MIN_MATCH ELSE longest_run + 1
  <2>1. length \in Nat /\ 0 < length /\ longest_run < length
    BY <1>3
  <2>2. ~Agree(i, length)
    <3>1. \/ At(i + 0) # At(offset + 0)
          \/ At(i + longest_run) # At(offset + longest_run)
      BY <1>1, <1>3 DEF Rejected
    <3> HIDE DEF length
    <3> QED BY <1>3, <2>1, <3>1, Differs
  <2>3. ~(i < match_pos /\ longest_run >= MIN_MATCH)
    BY <1>1, <1>2, <1>3 DEF HoldsMatch
  <2> QED BY <2>2, <2>3 DEF Beaten
<1>9. NothingMissed'
  <2>1. SUFFICES ASSUME NEW pos \in start_pos .. i
                 PROVE  Beaten(pos, longest_run, match_pos)
    BY <1>1, <1>3, <1>4 DEF NothingMissed
  <2> QED BY <1>1, <1>2, <1>3, <1>8, <2>1 DEF NothingMissed
<1> QED BY <1>5, <1>7, <1>9 DEF IInv

LEMMA TryNextStep ==
    ASSUME IInv, TryNext
    PROVE  IInv'
<1>1. /\ running /\ mask = {} /\ ~Blocks /\ i < offset /\ Consider(i)
      /\ i' = i + 1 /\ UNCHANGED callVars /\ UNCHANGED <<loop, mask, want_offset>>
  BY DEF TryNext
<1>2. TypeOK /\ FilterCurrent /\ HoldsMatch /\ NothingMissed
  BY DEF IInv
<1>3. /\ i \in Nat /\ start_pos \in Nat /\ offset \in Nat /\ start_pos <= i
      /\ max_lookahead \in Nat /\ MIN_MATCH <= max_lookahead
      /\ i \in start_pos .. offset - 1
  BY <1>1, <1>2, CallTypes
<1>4. /\ UNCHANGED <<kernel, data, start_pos, offset, max_lookahead>>
      /\ \A pos, length : Agree(pos, length)' <=> Agree(pos, length)
      /\ \A pos, run, best : Beaten(pos, run, best)' <=> Beaten(pos, run, best)
  BY <1>1, AgreeStays
<1> DEFINE Passed == start_pos .. i - 1
<1>5. Passed \subseteq start_pos .. offset - 1
  BY <1>3
<1>6. \A c \in Passed : Beaten(c, longest_run, match_pos)
  BY <1>1, <1>2 DEF NothingMissed
<1>7. longest_run > 0 => match_pos \in start_pos .. i - 1 /\ Agree(match_pos, longest_run)
  BY <1>1, <1>2 DEF HoldsMatch
<1>8. /\ longest_run' \in 0 .. max_lookahead /\ match_pos' \in Nat
      /\ running' \in BOOLEAN /\ result' \in 0 .. max_lookahead
      /\ running' =>
            /\ longest_run' < max_lookahead
            /\ \A c \in Passed \cup {i} : Beaten(c, longest_run', match_pos')
            /\ longest_run' > 0 => /\ match_pos' \in start_pos .. i
                                   /\ Agree(match_pos', longest_run')
      /\ ~running' =>
            /\ result' = max_lookahead /\ match_pos' = i
            /\ Agree(i, max_lookahead)
            /\ \A c \in start_pos .. i - 1 : ~Agree(c, max_lookahead)
  BY <1>1, <1>2, <1>3, <1>5, <1>6, <1>7, Considered
<1>9. TypeOK'
  BY <1>1, <1>2, <1>3, <1>4, <1>8 DEF TypeOK
<1>10. Aligned' /\ FilterCurrent' /\ HoldsMatch'
  <2>1. ~Blocks'
    BY <1>1, <1>4 DEF Blocks
  <2> QED BY <1>1, <1>3, <1>4, <1>8, <2>1 DEF Aligned, FilterCurrent, HoldsMatch
<1>11. NothingMissed'
  <2>1. SUFFICES ASSUME running', NEW c \in start_pos .. i
                 PROVE  Beaten(c, longest_run', match_pos')
    BY <1>1, <1>3, <1>4 DEF NothingMissed
  <2>2. c \in Passed \cup {i}
    BY <1>3, <2>1
  <2> QED BY <1>8, <2>1, <2>2
<1>12. FindsLongest'
  <2>1. SUFFICES ASSUME ~running'
                 PROVE  /\ result' >= MIN_MATCH
                        /\ match_pos' \in start_pos .. offset - 1
                        /\ Agree(match_pos', result')
                        /\ \A p \in start_pos .. offset - 1 :
                              /\ Agree(p, result') => p >= match_pos'
                              /\ result' < max_lookahead => ~Agree(p, result' + 1)
    BY <1>3, <1>4 DEF FindsLongest
  <2>2. /\ result' = max_lookahead /\ match_pos' = i /\ Agree(i, max_lookahead)
        /\ \A c \in start_pos .. i - 1 : ~Agree(c, max_lookahead)
    BY <1>8, <2>1
  <2> QED BY <1>3, <2>2
<1> QED BY <1>9, <1>10, <1>11, <1>12 DEF IInv

\* The scan is over: all candidates are behind, so the match held wins.
LEMMA FinishStep ==
    ASSUME IInv, Finish
    PROVE  IInv'
<1>1. /\ running /\ mask = {} /\ ~Blocks /\ i >= offset /\ running' = FALSE
      /\ result' = IF longest_run >= MIN_MATCH THEN longest_run ELSE 0
      /\ UNCHANGED callVars
      /\ UNCHANGED <<loop, i, mask, want_offset, longest_run, match_pos>>
  BY DEF Finish
<1>2. TypeOK /\ FilterCurrent /\ HoldsMatch /\ NothingMissed
  BY DEF IInv
<1>3. /\ i = offset /\ start_pos \in Nat /\ offset \in Nat /\ start_pos <= offset
      /\ longest_run \in Nat /\ longest_run <= max_lookahead /\ match_pos \in Nat
      /\ max_lookahead \in Nat /\ MIN_MATCH = 3
  BY <1>1, <1>2, CallTypes, Constants
<1>4. /\ UNCHANGED <<kernel, data, start_pos, offset, max_lookahead>>
      /\ \A pos, length : Agree(pos, length)' <=> Agree(pos, length)
  BY <1>1, AgreeStays
<1>5. TypeOK'
  <2>1. result' \in 0 .. max_lookahead
    BY <1>1, <1>3
  <2> QED BY <1>1, <1>2, <1>4, <2>1 DEF TypeOK
<1>6. Aligned' /\ FilterCurrent' /\ HoldsMatch' /\ NothingMissed'
  <2>1. ~Blocks' /\ ~running'
    BY <1>1, <1>4 DEF Blocks
  <2> QED BY <2>1 DEF Aligned, FilterCurrent, HoldsMatch, NothingMissed
<1>7. \A pos \in start_pos .. offset - 1 : Beaten(pos, longest_run, match_pos)
  BY <1>1, <1>2, <1>3 DEF NothingMissed
<1>8. FindsLongest'
  <2>1. CASE longest_run < MIN_MATCH
    <3>1. \A pos \in start_pos .. offset - 1 : ~Agree(pos, MIN_MATCH)
      BY <1>7, <2>1 DEF Beaten
    <3>2. result' = 0
      BY <1>1, <1>3, <2>1
    <3> QED BY <1>4, <3>1, <3>2 DEF FindsLongest
  <2>2. CASE longest_run >= MIN_MATCH
    <3>1. result' = longest_run /\ match_pos' = match_pos
      BY <1>1, <2>2
    <3>2. match_pos \in start_pos .. offset - 1 /\ Agree(match_pos, longest_run)
      BY <1>1, <1>2, <1>3, <2>2 DEF HoldsMatch
    <3>3. \A pos \in start_pos .. offset - 1 :
             /\ Agree(pos, longest_run) => pos >= match_pos
             /\ ~Agree(pos, longest_run + 1)
      BY <1>3, <1>7, <2>2 DEF Beaten
    <3> QED BY <1>4, <2>2, <3>1, <3>2, <3>3 DEF FindsLongest
  <2> QED BY <1>3, <2>1, <2>2
<1> QED BY <1>5, <1>6, <1>8 DEF IInv

-----------------------------------------------------------------------------

\* The kernels keep to their types, and between them to IInv.
THEOREM Invariance == Spec => []IInv
<1>1. IInv /\ [Next]_vars => IInv'
  <2> SUFFICES ASSUME IInv, [Next]_vars PROVE IInv'
    OBVIOUS
  <2>1. CASE LoadBlock
    BY <2>1, LoadBlockStep
  <2>2. CASE TryLane
    BY <2>2, TryLaneStep
  <2>3. CASE EndBlocks
    BY <2>3, EndBlocksStep
  <2>4. CASE Skip
    BY <2>4, SkipStep
  <2>5. CASE TryNext
    BY <2>5, TryNextStep
  <2>6. CASE Finish
    BY <2>6, FinishStep
  <2>7. CASE UNCHANGED vars
    BY <2>7 DEF vars, IInv, TypeOK, Aligned, FilterCurrent, HoldsMatch,
                NothingMissed, FindsLongest, Blocks, Step, WantOffset,
                Beaten, Agree, At
  <2> QED
    BY <2>1, <2>2, <2>3, <2>4, <2>5, <2>6, <2>7 DEF Next, search
<1> QED BY InitInv, <1>1, PTL DEF Spec

\* Every kernel, of however many lanes, returns the longest match and the
\* earliest place that has it (what yaz0_search_reference is the measure of).
THEOREM KernelsFindLongest == Spec => []FindsLongest
<1>1. IInv => FindsLongest
  BY DEF IInv
<1> QED BY <1>1, Invariance, PTL

\* No candidate that would win is passed over, filter and stale mask or not.
THEOREM KernelsMissNothing == Spec => []NothingMissed
<1>1. IInv => NothingMissed
  BY DEF IInv
<1> QED BY <1>1, Invariance, PTL

\* What a kernel loads, of a block or of one candidate, lies before the end of
\* the lookahead, so the padding of the window is never looked at.
THEOREM KernelsReadInside == Spec => []NeverReadsPadding
<1>1. ASSUME IInv PROVE NeverReadsPadding
  <2>1. TypeOK /\ Aligned /\ FilterCurrent
    BY <1>1 DEF IInv
  <2>2. /\ i \in Nat /\ offset \in Nat /\ want_offset \in Nat
        /\ longest_run \in Nat /\ max_lookahead \in Nat
        /\ MIN_MATCH <= max_lookahead /\ MIN_MATCH = 3
    BY <2>1, CallTypes, Constants
  <2>3. SUFFICES ASSUME running
        PROVE  /\ Blocks => offset + want_offset < offset + max_lookahead
               /\ Blocks /\ i < BlockEnd =>
                     i + Step - 1 + want_offset < offset + max_lookahead
               /\ ~Blocks /\ i < offset =>
                     offset + longest_run < offset + max_lookahead
    BY DEF NeverReadsPadding
  <2>4. longest_run < max_lookahead
    BY <2>1, <2>3 DEF FilterCurrent
  <2>5. Blocks => want_offset < max_lookahead
    BY <2>1, <2>2, <2>3, <2>4 DEF FilterCurrent, WantOffset
  <2>6. Blocks /\ i < BlockEnd => i + Step <= offset /\ Step \in Nat
    BY <2>1, BlockFits, LoopTypes
  <2> QED BY <2>2, <2>4, <2>5, <2>6
<1> QED BY <1>1, Invariance, PTL

\* The variables keep their types.
THEOREM TypeCorrect == Spec => []TypeOK
<1>1. IInv => TypeOK
  BY DEF IInv
<1> QED BY <1>1, Invariance, PTL
=============================================================================
