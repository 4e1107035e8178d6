--------------------------- MODULE ReferenceProofs ---------------------------
(***************************************************************************)
(* What the two reference codecs compute, for every sequence of bytes.     *)
(* Both are recursive functions; that every nonempty set of naturals has a *)
(* least member does for them what induction would.                        *)
(*                                                                         *)
(* The places the decoder goes through are its trail: a decoder that       *)
(* stands at one of them has delivered a beginning of the whole output,    *)
(* and one that stands at one where the reference stops has delivered all  *)
(* of it.  The stages of the encoder are told by how far it is in the      *)
(* data: the groups complete at any of them are how the encoding begins,   *)
(* and one at the end of the data has all of it.                           *)
(***************************************************************************)
EXTENDS Yaz0FormatProofs, ReferenceDecoder, ReferenceEncoder, WellFoundedInduction

-----------------------------------------------------------------------------
(* The recursion. *)

\* A set of naturals that is not empty has a least member.
LEMMA LeastMember ==
    ASSUME NEW T, T \subseteq Nat, T # {}
    PROVE  \E m \in T : \A k \in T : m <= k
  <1>1. PICK m \in T : \A k \in T : ~(<<k, m>> \in OpToRel(<, Nat))
    BY NatLessThanWellFounded, WFMin, Zenon
  <1>2. \A k \in T : ~(k < m)
    BY <1>1 DEF OpToRel
  <1> QED BY <1>2

\* What holds of 0 and passes from every natural to the next holds of them all.
LEMMA CountingUp ==
    ASSUME NEW T, 0 \in T, \A n \in Nat : n \in T => n + 1 \in T
    PROVE  Nat \subseteq T
  <1> DEFINE Bad == Nat \ T
  <1>1. ASSUME Bad # {} PROVE FALSE
    <2>1. PICK m \in Bad : \A k \in Bad : m <= k
      <3>1. Bad \subseteq Nat
        OBVIOUS
      <3> HIDE DEF Bad
      <3> QED BY <1>1, <3>1, LeastMember
    <2>2. m \in Nat /\ m # 0 /\ m \notin T
      OBVIOUS
    <2>3. m - 1 \in Nat /\ (m - 1) + 1 = m /\ m - 1 \notin Bad
      BY <2>1, <2>2
    <2> QED BY <2>2, <2>3
  <1> QED BY <1>1

\* The beginning of a recursion, as far as place n.
IsRun(first, step, h, n) ==
    h = [k \in 0 .. n |-> IF k = 0 THEN first ELSE step[h[k - 1]]]

LEMMA RunFacts ==
    ASSUME NEW first, NEW step, NEW n \in Nat, NEW h, IsRun(first, step, h, n)
    PROVE  h[0] = first /\ \A k \in 1 .. n : h[k] = step[h[k - 1]]
  BY DEF IsRun

LEMMA RunExists ==
    ASSUME NEW first, NEW step
    PROVE  \A n \in Nat : \E h : IsRun(first, step, h, n)
  <1> DEFINE T == {n \in Nat : \E h : IsRun(first, step, h, n)}
  <1>1. 0 \in T
    <2> DEFINE h == [k \in 0 .. 0 |-> first]
    <2>1. IsRun(first, step, h, 0)
      BY DEF IsRun
    <2> QED BY <2>1
  <1>2. ASSUME NEW n \in Nat, n \in T PROVE n + 1 \in T
    <2>1. PICK g : IsRun(first, step, g, n)
      BY <1>2
    <2>2. g[0] = first /\ \A k \in 1 .. n : g[k] = step[g[k - 1]]
      BY <2>1, RunFacts
    <2> DEFINE h == [k \in 0 .. n + 1 |-> IF k = n + 1 THEN step[g[n]] ELSE g[k]]
    <2>3. \A k \in 0 .. n + 1 : h[k] = IF k = 0 THEN first ELSE step[h[k - 1]]
      BY <2>2
    <2>4. h = [k \in 0 .. n + 1 |-> h[k]]
      OBVIOUS
    <2> HIDE DEF h
    <2>5. IsRun(first, step, h, n + 1)
      BY <2>3, <2>4 DEF IsRun
    <2> QED BY <2>5
  <1> HIDE DEF T
  <1>3. Nat \subseteq T
    BY <1>1, <1>2, CountingUp
  <1> QED BY <1>3 DEF T

LEMMA RunsAgree ==
    ASSUME NEW first, NEW step, NEW n \in Nat, NEW m \in Nat, m = n + 1,
           NEW g, NEW h, IsRun(first, step, g, n), IsRun(first, step, h, m)
    PROVE  g[n] = h[n]
  <1> DEFINE T == {k \in Nat : k <= n => g[k] = h[k]}
  <1>1. /\ g[0] = first /\ h[0] = first
        /\ \A k \in 1 .. n : g[k] = step[g[k - 1]]
        /\ \A k \in 1 .. m : h[k] = step[h[k - 1]]
    BY RunFacts
  <1>2. 0 \in T
    BY <1>1
  <1>3. ASSUME NEW k \in Nat, k \in T PROVE k + 1 \in T
    <2>1. k + 1 <= n => /\ g[k] = h[k] /\ (k + 1) - 1 = k
                        /\ k + 1 \in 1 .. n /\ k + 1 \in 1 .. m
      BY <1>3
    <2>2. k + 1 <= n => g[k + 1] = h[k + 1]
      BY <1>1, <2>1
    <2> QED BY <2>2
  <1> HIDE DEF T
  <1>4. Nat \subseteq T
    BY <1>2, <1>3, CountingUp
  <1> QED BY <1>4 DEF T

\* A recursion over the naturals that stays in a set has a solution.
StaysIn(S, first, step) == first \in S /\ step \in [S -> S]

Iterates(S, first, step, f) ==
    f \in [Nat -> S] /\ f[0] = first /\ \A n \in Nat : f[n + 1] = step[f[n]]

LEMMA RecursionSolved ==
    ASSUME NEW S, NEW first, NEW step, StaysIn(S, first, step)
    PROVE  \E f : Iterates(S, first, step, f)
  <1> DEFINE Run(n) == CHOOSE h : IsRun(first, step, h, n)
             f == [n \in Nat |-> Run(n)[n]]
             T == {n \in Nat : f[n] \in S}
  <1>1. \A n \in Nat : IsRun(first, step, Run(n), n)
    BY RunExists
  <1> HIDE DEF Run
  <1>2. f[0] = first
    <2>1. IsRun(first, step, Run(0), 0) /\ 0 \in Nat
      BY <1>1
    <2>2. Run(0)[0] = first
      BY <2>1, RunFacts
    <2> QED BY <2>2
  <1>3. ASSUME NEW n \in Nat PROVE f[n + 1] = step[f[n]]
    <2>1. PICK m \in Nat : m = n + 1
      OBVIOUS
    <2>2. IsRun(first, step, Run(n), n) /\ IsRun(first, step, Run(m), m)
      BY <1>1
    <2>3. Run(n)[n] = Run(m)[n]
      BY <2>1, <2>2, RunsAgree
    <2>4. \A k \in 1 .. m : Run(m)[k] = step[Run(m)[k - 1]]
      BY <2>2, RunFacts
    <2>5. Run(m)[m] = step[Run(m)[n]]
      BY <2>1, <2>4
    <2> QED BY <2>1, <2>3, <2>5
  <1>4. f = [n \in Nat |-> f[n]]
    OBVIOUS
  <1> HIDE DEF f
  <1>5. 0 \in T /\ \A n \in Nat : n \in T => n + 1 \in T
    BY <1>2, <1>3 DEF StaysIn
  <1> HIDE DEF T
  <1>6. Nat \subseteq T
    BY <1>5, CountingUp
  <1>7. \A n \in Nat : f[n] \in S
    BY <1>6 DEF T
  <1> QED BY <1>2, <1>3, <1>4, <1>7 DEF Iterates

-----------------------------------------------------------------------------
(* One turn of the reference decoder. *)

RefCode == {"OK", "STREAM_END", "TRUNCATED", "BAD_HEADER", "DATA_ERROR"}

RefPlace == [out : Seq(Byte), used : Nat, index : 0 .. TOKENS_PER_BLOCK, bits : Nat,
             code : RefCode]

\* What is true of every place it comes to: while it goes on there is a header,
\* and the bits left of the code byte are those of the tokens left.
RefSound(bytes, s) ==
    /\ s \in RefPlace /\ s.used <= Len(bytes)
    /\ s.code = "OK" =>
          /\ HEADER_SIZE <= s.used /\ bytes[1] = MAGIC
          /\ Len(s.out) <= RefSize(bytes)
          /\ s.bits < Weight(s.index)

\* The output grows, and stops with the decoder.
Onward(s, t) ==
    /\ Len(s.out) <= Len(t.out) /\ \A i \in 1 .. Len(s.out) : t.out[i] = s.out[i]
    /\ s.used <= t.used
    /\ s.code # "OK" => t = s

LEMMA RefCodes ==
    /\ "OK" \in RefCode /\ RefCode \ {"OK"} \subseteq RefCode
    /\ {"STREAM_END", "TRUNCATED", "BAD_HEADER", "DATA_ERROR"} \subseteq RefCode \ {"OK"}
  BY DEF RefCode

LEMMA PlaceFields ==
    ASSUME NEW s \in RefPlace
    PROVE  /\ s.out \in Seq(Byte) /\ Len(s.out) \in Nat /\ s.used \in Nat
           /\ s.index \in 0 .. TOKENS_PER_BLOCK /\ s.bits \in Nat /\ s.code \in RefCode
  BY DEF RefPlace

LEMMA PlaceMade ==
    ASSUME NEW out \in Seq(Byte), NEW used \in Nat, NEW index \in 0 .. TOKENS_PER_BLOCK,
           NEW bits \in Nat, NEW code \in RefCode
    PROVE  LET s == Place(out, used, index, bits, code) IN
           /\ s \in RefPlace /\ s.out = out /\ s.used = used /\ s.index = index
           /\ s.bits = bits /\ s.code = code
  BY DEF Place, RefPlace

LEMMA PlaceStopped ==
    ASSUME NEW s \in RefPlace, NEW used \in Nat, NEW code \in RefCode
    PROVE  LET t == Stopped(s, used, code) IN
           /\ t \in RefPlace /\ t.out = s.out /\ t.used = used /\ t.code = code
  BY DEF Stopped, RefPlace

LEMMA OnwardTrans ==
    ASSUME NEW r \in RefPlace, NEW s \in RefPlace, NEW t \in RefPlace,
           Onward(r, s), Onward(s, t)
    PROVE  Onward(r, t)
  <1>1. /\ Len(r.out) \in Nat /\ Len(s.out) \in Nat /\ Len(t.out) \in Nat
        /\ r.used \in Nat /\ s.used \in Nat /\ t.used \in Nat
    BY PlaceFields
  <1>2. /\ Len(r.out) <= Len(s.out) /\ Len(s.out) <= Len(t.out)
        /\ \A i \in 1 .. Len(r.out) : s.out[i] = r.out[i]
        /\ \A i \in 1 .. Len(s.out) : t.out[i] = s.out[i]
        /\ r.used <= s.used /\ s.used <= t.used
        /\ r.code # "OK" => s = r
        /\ s.code # "OK" => t = s
    BY DEF Onward
  <1> DEFINE a == Len(r.out)
             b == Len(s.out)
             c == Len(t.out)
  <1>3. a <= c /\ \A i \in 1 .. a : i \in 1 .. b
    <2>1. a \in Nat /\ b \in Nat /\ c \in Nat /\ a <= b /\ b <= c
      BY <1>1, <1>2
    <2> HIDE DEF a, b, c
    <2> QED BY <2>1
  <1>4. r.used <= t.used
    <2> DEFINE u == r.used
               v == s.used
               w == t.used
    <2>1. u \in Nat /\ v \in Nat /\ w \in Nat /\ u <= v /\ v <= w
      BY <1>1, <1>2
    <2> HIDE DEF u, v, w
    <2>2. u <= w
      BY <2>1
    <2> QED BY <2>2 DEF u, w
  <1> QED BY <1>2, <1>3, <1>4 DEF Onward

LEMMA OnwardRefl ==
    ASSUME NEW s \in RefPlace
    PROVE  Onward(s, s)
  BY PlaceFields DEF Onward

\* One turn of `distance` more leaves the remainder as it is.
LEMMA RemainderBack ==
    ASSUME NEW n \in Nat \ {0}, NEW x \in Nat
    PROVE  (x + n) % n = x % n
  <1> DEFINE q == x \div n
             r == x % n
  <1>1. q \in Nat /\ r \in 0 .. n - 1 /\ x = n * q + r
    BY DivMod
  <1> HIDE DEF q, r
  <1>2. (n * (q + 1) + r) % n = r
    BY <1>1, DivModUnique
  <1>3. x + n = n * (q + 1) + r
    BY <1>1
  <1> QED BY <1>2, <1>3 DEF r

\* Every byte of a repetition is the one `distance` before it.
LEMMA RepeatedFacts ==
    ASSUME NEW out \in Seq(Byte), NEW distance \in 1 .. Len(out), NEW length \in Nat
    PROVE  LET r == Repeated(out, distance, length) IN
           /\ r \in Seq(Byte) /\ Len(r) = Len(out) + length
           /\ \A i \in 1 .. Len(out) : r[i] = out[i]
           /\ \A i \in Len(out) + 1 .. Len(r) : r[i] = r[i - distance]
  <1> DEFINE n == Len(out)
             At(k) == n - distance + 1 + ((k - 1) % distance)
             tail == [k \in 1 .. length |-> out[At(k)]]
             r == Repeated(out, distance, length)
  <1>1. n \in Nat /\ distance \in Nat \ {0} /\ distance <= n
    OBVIOUS
  <1>2. r = out \o tail
    BY DEF Repeated
  <1> HIDE DEF n, r
  <1>3. ASSUME NEW k \in 1 .. length PROVE At(k) \in n - distance + 1 .. n
    <2>1. (k - 1) % distance \in 0 .. distance - 1
      <3>1. k - 1 \in Nat
        OBVIOUS
      <3> QED BY <1>1, <3>1, DivMod
    <2> DEFINE m == (k - 1) % distance
    <2> HIDE DEF m
    <2>2. m \in 0 .. distance - 1 => n - distance + 1 + m \in n - distance + 1 .. n
      BY <1>1
    <2> QED BY <2>1, <2>2 DEF m
  <1> HIDE DEF At
  <1>4. /\ tail \in Seq(Byte) /\ Len(tail) = length
        /\ \A k \in 1 .. length : tail[k] = out[At(k)]
    <2>1. \A k \in 1 .. length : At(k) \in 1 .. Len(out)
      BY <1>1, <1>3 DEF n
    <2>2. \A k \in 1 .. length : out[At(k)] \in Byte
      BY <2>1
    <2> QED BY <2>2
  <1> HIDE DEF tail
  <1>5. /\ r \in Seq(Byte) /\ Len(r) = n + length
        /\ \A i \in 1 .. n : r[i] = out[i]
        /\ \A k \in 1 .. length : r[n + k] = tail[k]
    BY <1>2, <1>4, ConcatParts DEF n
  <1>6. ASSUME NEW i \in n + 1 .. n + length PROVE r[i] = r[i - distance]
    <2> DEFINE k == i - n
    <2>1. k \in 1 .. length /\ i = n + k
      BY <1>1
    <2> HIDE DEF k
    <2>2. r[i] = out[At(k)]
      BY <1>4, <1>5, <2>1
    <2>3. CASE k <= distance
      <3>1. (k - 1) % distance = k - 1
        BY <1>1, <2>1, <2>3, SmallNumber
      <3>2. At(k) = i - distance
        BY <1>1, <2>1, <3>1 DEF At
      <3>3. i - distance \in 1 .. n
        BY <1>1, <2>1, <2>3
      <3> QED BY <1>5, <2>2, <3>2, <3>3
    <2>4. CASE k > distance
      <3> DEFINE j == k - distance
      <3>1. j \in 1 .. length /\ i - distance = n + j /\ j - 1 \in Nat
            /\ k - 1 = (j - 1) + distance
        BY <1>1, <2>1, <2>4
      <3> HIDE DEF j
      <3>2. (k - 1) % distance = (j - 1) % distance
        BY <1>1, <3>1, RemainderBack
      <3>3. r[i - distance] = out[At(j)]
        BY <1>4, <1>5, <3>1
      <3> QED BY <2>2, <3>2, <3>3 DEF At
    <2> QED BY <1>1, <2>1, <2>3, <2>4
  <1> QED BY <1>5, <1>6 DEF n, r

\* The pair a reader finds behind `used` bytes, and when it has it whole.
LEMMA PairRead ==
    ASSUME NEW bytes \in Seq(Byte), NEW used \in Nat, used < Len(bytes),
           NEW size, size = (IF bytes[used + 1] \div NIBBLE = 0 THEN 3 ELSE 2),
           used + size <= Len(bytes)
    PROVE  LET pair == SubSeq(bytes, used + 1, used + size) IN
           /\ size \in {2, 3} /\ pair \in Seq(Byte) /\ Len(pair) = size
           /\ \A k \in 1 .. size : pair[k] = bytes[used + k]
           /\ ReferenceComplete(pair)
           /\ ReferenceDistance(pair) \in 1 .. NIBBLE * Radix
           /\ ReferenceLength(pair) \in Nat /\ ReferenceLength(pair) >= MIN_MATCH
  <1> DEFINE pair == SubSeq(bytes, used + 1, used + size)
  <1>1. size \in {2, 3} /\ size \in Nat
    OBVIOUS
  <1>2. /\ pair \in Seq(Byte) /\ Len(pair) = size
        /\ \A k \in 1 .. size : pair[k] = bytes[used + k]
    BY <1>1, StretchParts
  <1> HIDE DEF pair
  <1>3. pair[1] = bytes[used + 1]
    BY <1>1, <1>2
  <1>4. ReferenceComplete(pair)
    BY <1>1, <1>2, <1>3 DEF ReferenceComplete
  <1> QED BY <1>1, <1>2, <1>4, ReferenceInRange DEF pair

LEMMA SizeInHeader ==
    ASSUME NEW bytes \in Seq(Byte), HEADER_SIZE <= Len(bytes)
    PROVE  RefSize(bytes) \in Nat
  <1>1. bytes[2] \in Nat /\ bytes[3] \in Nat
    BY RadixFacts DEF HEADER_SIZE, Byte
  <1> QED BY <1>1, RadixFacts DEF RefSize, read_be32

LEMMA HeaderSound ==
    ASSUME NEW bytes \in Seq(Byte)
    PROVE  RefSound(bytes, RefHeader(bytes))
  <1> DEFINE At(used, code) == Place(<<>>, used, TOKENS_PER_BLOCK, 0, code)
  <1>1. <<>> \in Seq(Byte) /\ Len(<<>>) = 0 /\ TOKENS_PER_BLOCK \in 0 .. TOKENS_PER_BLOCK
        /\ Len(bytes) \in Nat /\ HEADER_SIZE \in Nat
    BY FormatSizes DEF HEADER_SIZE
  <1>2. CASE Len(bytes) < HEADER_SIZE
    <2>1. RefHeader(bytes) = At(Len(bytes), "TRUNCATED")
      BY <1>2 DEF RefHeader
    <2>2. /\ At(Len(bytes), "TRUNCATED") \in RefPlace
          /\ At(Len(bytes), "TRUNCATED").used = Len(bytes)
          /\ At(Len(bytes), "TRUNCATED").code = "TRUNCATED"
      BY <1>1, RefCodes DEF Place, RefPlace
    <2> QED BY <2>1, <2>2 DEF RefSound
  <1>3. CASE ~(Len(bytes) < HEADER_SIZE) /\ bytes[1] # MAGIC
    <2>1. RefHeader(bytes) = At(HEADER_SIZE, "BAD_HEADER")
      BY <1>3 DEF RefHeader
    <2>2. /\ At(HEADER_SIZE, "BAD_HEADER") \in RefPlace
          /\ At(HEADER_SIZE, "BAD_HEADER").used = HEADER_SIZE
          /\ At(HEADER_SIZE, "BAD_HEADER").code = "BAD_HEADER"
      BY <1>1, RefCodes DEF Place, RefPlace
    <2> QED BY <1>1, <1>3, <2>1, <2>2 DEF RefSound
  <1>4. CASE ~(Len(bytes) < HEADER_SIZE) /\ bytes[1] = MAGIC
    <2> DEFINE s == At(HEADER_SIZE, "OK")
    <2>1. RefHeader(bytes) = s
      BY <1>4 DEF RefHeader
    <2>2. s \in RefPlace /\ s.used = HEADER_SIZE /\ s.out = <<>> /\ s.bits = 0
          /\ s.index = TOKENS_PER_BLOCK
      BY <1>1, RefCodes DEF Place, RefPlace
    <2> HIDE DEF s
    <2>3. Len(s.out) <= RefSize(bytes)
      BY <1>1, <1>4, <2>2, SizeInHeader
    <2>4. 0 < Weight(TOKENS_PER_BLOCK)
      BY <1>1, WeightInRange, RadixFacts
    <2> QED BY <1>1, <1>4, <2>1, <2>2, <2>3, <2>4 DEF RefSound
  <1> QED BY <1>2, <1>3, <1>4

\* What a turn leaves behind: a place as sound, further on.
Turned(bytes, s, t) ==
    RefSound(bytes, t) /\ Onward(s, t) /\ (t.code = "OK" => s.used < t.used)

\* The decoder stops where it is, or at a later byte.
LEMMA StopTurned ==
    ASSUME NEW bytes \in Seq(Byte), NEW s, RefSound(bytes, s), s.code = "OK",
           NEW used \in Nat, s.used <= used, used <= Len(bytes),
           NEW code \in RefCode \ {"OK"}
    PROVE  Turned(bytes, s, Stopped(s, used, code))
  <1> DEFINE t == Stopped(s, used, code)
  <1>1. t \in RefPlace /\ t.out = s.out /\ t.used = used /\ t.code = code
    BY RefCodes, PlaceStopped DEF RefSound
  <1>2. s \in RefPlace /\ Len(s.out) \in Nat
    BY PlaceFields DEF RefSound
  <1> HIDE DEF t
  <1>3. RefSound(bytes, t)
    BY <1>1 DEF RefSound
  <1>4. Onward(s, t)
    BY <1>1, <1>2 DEF Onward
  <1> QED BY <1>1, <1>3, <1>4 DEF Turned, t

LEMMA PairTurned ==
    ASSUME NEW bytes \in Seq(Byte), NEW s, RefSound(bytes, s), s.code = "OK",
           s.used < Len(bytes), s.index < TOKENS_PER_BLOCK, s.bits < CodeBit(s.index)
    PROVE  Turned(bytes, s, RefPair(bytes, s))
  <1> DEFINE u    == s.used
             n    == Len(bytes)
             m    == Len(s.out)
             room == RefSize(bytes) - m
             size == IF bytes[u + 1] \div NIBBLE = 0 THEN 3 ELSE 2
             pair == SubSeq(bytes, u + 1, u + size)
             distance == ReferenceDistance(pair)
             length   == ReferenceLength(pair)
  <1>1. /\ s \in RefPlace /\ s.out \in Seq(Byte) /\ m \in Nat /\ u \in Nat
        /\ s.index \in 0 .. TOKENS_PER_BLOCK /\ s.bits \in Nat /\ n \in Nat
        /\ HEADER_SIZE <= u /\ u < n /\ bytes[1] = MAGIC /\ m <= RefSize(bytes)
    BY PlaceFields DEF RefSound
  <1>2. RefSize(bytes) \in Nat /\ size \in {2, 3}
    BY <1>1, SizeInHeader DEF HEADER_SIZE
  <1>3. CASE u + size > n
    <2>1. RefPair(bytes, s) = Stopped(s, n, "TRUNCATED")
      BY <1>3 DEF RefPair
    <2>2. n \in Nat /\ u <= n /\ n <= n /\ "TRUNCATED" \in RefCode \ {"OK"}
      BY <1>1, RefCodes
    <2> QED BY <2>1, <2>2, StopTurned
  <1>4. CASE ~(u + size > n) /\ (distance > m \/ length > room)
    <2>1. RefPair(bytes, s) = Stopped(s, u + size, "DATA_ERROR")
      BY <1>4 DEF RefPair
    <2>2. u + size \in Nat /\ u <= u + size /\ u + size <= n
          /\ "DATA_ERROR" \in RefCode \ {"OK"}
      BY <1>1, <1>2, <1>4, RefCodes
    <2> QED BY <2>1, <2>2, StopTurned
  <1>5. CASE ~(u + size > n) /\ ~(distance > m \/ length > room)
    <2> DEFINE more == Repeated(s.out, distance, length)
               t == Place(more, u + size, s.index + 1, s.bits, "OK")
    <2>1. RefPair(bytes, s) = t
      BY <1>5 DEF RefPair
    <2>2. /\ distance \in 1 .. NIBBLE * Radix /\ length \in Nat
      <3>1. u + size <= Len(bytes)
        BY <1>1, <1>2, <1>5
      <3> QED BY <1>1, <3>1, PairRead
    <2> HIDE DEF size, distance, length
    <2>3. distance \in 1 .. Len(s.out)
      BY <1>1, <1>5, <2>2, FormatSizes DEF m
    <2>4. /\ more \in Seq(Byte) /\ Len(more) = m + length
          /\ \A i \in 1 .. m : more[i] = s.out[i]
      BY <1>1, <2>2, <2>3, RepeatedFacts
    <2> HIDE DEF more
    <2>5. /\ t \in RefPlace /\ t.out = more /\ t.used = u + size
          /\ t.index = s.index + 1 /\ t.bits = s.bits /\ t.code = "OK"
      <3>1. u + size \in Nat
        BY <1>1, <1>2
      <3>2. s.index + 1 \in 0 .. TOKENS_PER_BLOCK
        <4> DEFINE i == s.index
        <4>1. i \in 0 .. TOKENS_PER_BLOCK /\ i < TOKENS_PER_BLOCK
          BY <1>1
        <4> HIDE DEF i
        <4>2. i + 1 \in 0 .. TOKENS_PER_BLOCK
          BY <4>1, FormatSizes
        <4> QED BY <4>2 DEF i
      <3> QED BY <1>1, <2>4, <3>1, <3>2, RefCodes DEF Place, RefPlace
    <2> HIDE DEF t
    <2>6. Len(t.out) <= RefSize(bytes) /\ m <= Len(t.out)
      <3> HIDE DEF m
      <3> QED BY <1>1, <1>2, <1>5, <2>2, <2>4, <2>5
    <2>7. HEADER_SIZE <= t.used /\ t.used <= n /\ u < t.used
      <3> HIDE DEF u, n
      <3> QED BY <1>1, <1>2, <1>5, <2>5 DEF HEADER_SIZE
    <2>8. t.bits < Weight(t.index)
      <3>1. s.index \in 0 .. TOKENS_PER_BLOCK - 1
        BY <1>1, FormatSizes
      <3>2. Weight(s.index + 1) = CodeBit(s.index)
        BY <3>1, BitFacts
      <3> QED BY <2>5, <3>2
    <2>9. RefSound(bytes, t)
      BY <1>1, <2>5, <2>6, <2>7, <2>8 DEF RefSound
    <2>10. Onward(s, t)
      <3>1. u <= t.used
        <4> HIDE DEF u
        <4> QED BY <1>1, <1>2, <2>5
      <3> QED BY <2>4, <2>5, <2>6, <3>1 DEF Onward
    <2> QED BY <2>1, <2>7, <2>9, <2>10 DEF Turned
  <1> QED BY <1>3, <1>4, <1>5

\* A sequence that another begins with.
LEMMA PrefixSaid ==
    ASSUME NEW S, NEW x \in Seq(S), NEW y \in Seq(S), Len(x) <= Len(y),
           \A i \in 1 .. Len(x) : y[i] = x[i]
    PROVE  x = SubSeq(y, 1, Len(x))
  <1> DEFINE z == SubSeq(y, 1, Len(x))
  <1>1. z \in Seq(S) /\ Len(z) = Len(x) /\ \A i \in 1 .. Len(x) : z[i] = y[i]
    OBVIOUS
  <1> HIDE DEF z
  <1>2. \A i \in 1 .. Len(x) : z[i] = x[i]
    BY <1>1
  <1>3. x = z
    BY <1>1, <1>2
  <1> QED BY <1>3 DEF z

LEMMA TurnTurned ==
    ASSUME NEW bytes \in Seq(Byte), NEW s, RefSound(bytes, s), s.code = "OK"
    PROVE  Turned(bytes, s, RefTurn(bytes, s))
  <1> DEFINE u == s.used
             n == Len(bytes)
             b == bytes[u + 1]
             bit == CodeBit(s.index)
  <1>1. /\ s \in RefPlace /\ s.out \in Seq(Byte) /\ Len(s.out) \in Nat /\ u \in Nat
        /\ s.index \in 0 .. TOKENS_PER_BLOCK /\ s.bits \in Nat /\ n \in Nat
        /\ HEADER_SIZE <= u /\ u <= n /\ bytes[1] = MAGIC
        /\ Len(s.out) <= RefSize(bytes) /\ s.bits < Weight(s.index)
    BY PlaceFields DEF RefSound
  <1>2. RefSize(bytes) \in Nat
    BY <1>1, SizeInHeader DEF HEADER_SIZE
  <1>3. CASE Len(s.out) = RefSize(bytes)
    <2>1. RefTurn(bytes, s) = Stopped(s, u, "STREAM_END")
      BY <1>3 DEF RefTurn
    <2> QED BY <1>1, <2>1, RefCodes, StopTurned
  <1>4. CASE Len(s.out) # RefSize(bytes) /\ u = n
    <2>1. RefTurn(bytes, s) = Stopped(s, u, "TRUNCATED")
      BY <1>4 DEF RefTurn
    <2> QED BY <1>1, <2>1, RefCodes, StopTurned
  <1>5. CASE Len(s.out) # RefSize(bytes) /\ u # n /\ s.index = TOKENS_PER_BLOCK
    <2> DEFINE t == Place(s.out, u + 1, 0, b, "OK")
    <2>1. RefTurn(bytes, s) = t
      BY <1>5 DEF RefTurn
    <2>2. b \in Byte /\ b \in Nat /\ b < Radix
      <3>1. u + 1 \in 1 .. Len(bytes)
        BY <1>1, <1>5
      <3> QED BY <3>1, RadixFacts DEF Byte
    <2> HIDE DEF b
    <2>3. /\ t \in RefPlace /\ t.out = s.out /\ t.used = u + 1 /\ t.index = 0
          /\ t.bits = b /\ t.code = "OK"
      <3>1. u + 1 \in Nat /\ 0 \in 0 .. TOKENS_PER_BLOCK /\ "OK" \in RefCode
        BY <1>1, FormatSizes, RefCodes
      <3> QED BY <1>1, <2>2, <3>1 DEF Place, RefPlace
    <2> HIDE DEF t
    <2>4. HEADER_SIZE <= t.used /\ t.used <= n /\ u < t.used
      <3> HIDE DEF u, n
      <3> QED BY <1>1, <1>5, <2>3 DEF HEADER_SIZE
    <2>5. t.bits < Weight(t.index)
      BY <2>2, <2>3 DEF Weight
    <2>6. RefSound(bytes, t)
      BY <1>1, <2>3, <2>4, <2>5 DEF RefSound
    <2>7. Onward(s, t)
      <3>1. u <= t.used
        <4> HIDE DEF u
        <4> QED BY <1>1, <2>3
      <3> QED BY <1>1, <2>3, <3>1 DEF Onward
    <2> QED BY <2>1, <2>4, <2>6, <2>7 DEF Turned
  <1>6. CASE /\ Len(s.out) # RefSize(bytes) /\ u # n /\ s.index # TOKENS_PER_BLOCK
             /\ s.bits >= bit
    <2> DEFINE more == Append(s.out, b)
               t == Place(more, u + 1, s.index + 1, s.bits - bit, "OK")
    <2>1. RefTurn(bytes, s) = t
      BY <1>6 DEF RefTurn
    <2>2. b \in Byte
      <3>1. u + 1 \in 1 .. Len(bytes)
        BY <1>1, <1>6
      <3> QED BY <3>1
    <2>3. /\ more \in Seq(Byte) /\ Len(more) = Len(s.out) + 1
          /\ \A i \in 1 .. Len(s.out) : more[i] = s.out[i]
      BY <1>1, <2>2
    <2> HIDE DEF b, more
    <2>4. /\ s.index \in 0 .. TOKENS_PER_BLOCK - 1 /\ bit \in Nat
          /\ Weight(s.index) = 2 * bit /\ Weight(s.index + 1) = bit
      <3>1. s.index \in 0 .. TOKENS_PER_BLOCK - 1
        BY <1>1, <1>6, FormatSizes
      <3> QED BY <3>1, BitFacts
    <2>5. s.bits - bit \in Nat /\ s.bits - bit < Weight(s.index + 1)
      <3> DEFINE x == s.bits
                 w == Weight(s.index)
                 v == Weight(s.index + 1)
      <3>1. x \in Nat /\ bit \in Nat /\ x >= bit /\ x < w /\ w = 2 * bit /\ v = bit
        BY <1>1, <1>6, <2>4
      <3> HIDE DEF x, w, v, bit
      <3>2. x - bit \in Nat /\ x - bit < v
        BY <3>1
      <3> QED BY <3>2 DEF x, v
    <2> HIDE DEF bit
    <2>6. /\ t \in RefPlace /\ t.out = more /\ t.used = u + 1 /\ t.index = s.index + 1
          /\ t.bits = s.bits - bit /\ t.code = "OK"
      <3>1. u + 1 \in Nat /\ s.index + 1 \in 0 .. TOKENS_PER_BLOCK /\ "OK" \in RefCode
        BY <1>1, <2>4, FormatSizes, RefCodes
      <3> QED BY <2>3, <2>5, <3>1 DEF Place, RefPlace
    <2> HIDE DEF t
    <2>7. HEADER_SIZE <= t.used /\ t.used <= n /\ u < t.used
      <3> HIDE DEF u, n
      <3> QED BY <1>1, <1>6, <2>6 DEF HEADER_SIZE
    <2>8. Len(t.out) <= RefSize(bytes) /\ Len(s.out) <= Len(t.out)
      <3> DEFINE m == Len(s.out)
                 k == Len(t.out)
                 z == RefSize(bytes)
      <3>1. m \in Nat /\ z \in Nat /\ m <= z /\ m # z /\ k = m + 1
        BY <1>1, <1>2, <1>6, <2>3, <2>6
      <3> HIDE DEF m, k, z
      <3>2. k <= z /\ m <= k
        BY <3>1
      <3> QED BY <3>2 DEF m, k, z
    <2>9. RefSound(bytes, t)
      BY <1>1, <2>5, <2>6, <2>7, <2>8 DEF RefSound
    <2>10. Onward(s, t)
      <3>1. u <= t.used
        <4> HIDE DEF u
        <4> QED BY <1>1, <2>6
      <3> QED BY <1>6, <2>3, <2>6, <2>8, <3>1 DEF Onward
    <2> QED BY <2>1, <2>7, <2>9, <2>10 DEF Turned
  <1>7. CASE /\ Len(s.out) # RefSize(bytes) /\ u # n /\ s.index # TOKENS_PER_BLOCK
             /\ ~(s.bits >= bit)
    <2>1. RefTurn(bytes, s) = RefPair(bytes, s)
      BY <1>7 DEF RefTurn
    <2>2. s.index \in 0 .. TOKENS_PER_BLOCK - 1
      BY <1>1, <1>7, FormatSizes
    <2>3. bit \in Nat
      BY <2>2, BitFacts
    <2>4. u < n /\ s.index < TOKENS_PER_BLOCK
      BY <1>1, <1>7, <2>2, FormatSizes
    <2>5. s.bits < bit
      <3> DEFINE x == s.bits
      <3>1. x \in Nat /\ ~(x >= bit)
        BY <1>1, <1>7
      <3> HIDE DEF x, bit
      <3>2. x < bit
        BY <2>3, <3>1
      <3> QED BY <3>2 DEF x
    <2> QED BY <2>1, <2>4, <2>5, PairTurned
  <1> QED BY <1>3, <1>4, <1>5, <1>6, <1>7

-----------------------------------------------------------------------------
(* The places of the reference decoder, all of them. *)

\* RefPlaces is what its definition says: the recursion has a solution.
LEMMA PlacesFacts ==
    ASSUME NEW bytes \in Seq(Byte)
    PROVE  /\ RefPlaces(bytes)[0] = RefHeader(bytes)
           /\ \A n \in Nat :
                 /\ RefSound(bytes, RefPlaces(bytes)[n])
                 /\ RefPlaces(bytes)[n + 1] = RefTurn(bytes, RefPlaces(bytes)[n])
  <1> DEFINE S == {s \in RefPlace : RefSound(bytes, s)}
             step == [s \in S |-> RefTurn(bytes, s)]
             Solves(f) == f = [n \in Nat |-> IF n = 0 THEN RefHeader(bytes)
                                              ELSE RefTurn(bytes, f[n - 1])]
  <1>1. \A s : RefSound(bytes, s) => s \in S
    BY DEF RefSound
  <1>2. ASSUME NEW s \in S PROVE RefTurn(bytes, s) \in S
    <2>1. CASE s.code = "OK"
      BY <1>1, <2>1, TurnTurned DEF Turned
    <2>2. CASE s.code # "OK"
      BY <2>2 DEF RefTurn
    <2> QED BY <2>1, <2>2
  <1>3. RefHeader(bytes) \in S
    BY <1>1, HeaderSound
  <1>4. \A s \in S : RefSound(bytes, s)
    OBVIOUS
  <1> HIDE DEF S
  <1>5. StaysIn(S, RefHeader(bytes), step)
    BY <1>2, <1>3 DEF StaysIn
  <1>6. PICK f : Iterates(S, RefHeader(bytes), step, f)
    BY <1>5, RecursionSolved
  <1>7. \A n \in Nat : f[n] = IF n = 0 THEN RefHeader(bytes) ELSE RefTurn(bytes, f[n - 1])
    <2> TAKE n \in Nat
    <2>1. CASE n # 0
      <3>1. n - 1 \in Nat /\ (n - 1) + 1 = n
        BY <2>1
      <3>2. f[n] = step[f[n - 1]] /\ f[n - 1] \in S
        BY <1>6, <3>1 DEF Iterates
      <3> QED BY <2>1, <3>2
    <2> QED BY <1>6, <2>1 DEF Iterates
  <1>8. Solves(f)
    <2>1. f = [n \in Nat |-> f[n]]
      BY <1>6 DEF Iterates
    <2> QED BY <1>7, <2>1
  <1>9. RefPlaces(bytes) = CHOOSE g : Solves(g)
    BY DEF RefPlaces
  <1> DEFINE places == RefPlaces(bytes)
  <1> HIDE DEF Solves, step, places
  <1>10. Solves(places)
    BY <1>8, <1>9 DEF places
  <1>11. places[0] = RefHeader(bytes)
         /\ \A n \in Nat : places[n + 1] = RefTurn(bytes, places[n])
    BY <1>10 DEF Solves
  <1> DEFINE T == {n \in Nat : places[n] \in S}
  <1>12. 0 \in T /\ \A n \in Nat : n \in T => n + 1 \in T
    <2>1. ASSUME NEW n \in Nat, places[n] \in S PROVE places[n + 1] \in S
      BY <1>2, <1>11, <2>1
    <2> QED BY <1>3, <1>11, <2>1
  <1> HIDE DEF T
  <1>13. Nat \subseteq T
    BY <1>12, CountingUp
  <1>14. \A n \in Nat : RefSound(bytes, places[n])
    BY <1>4, <1>13 DEF T
  <1> QED BY <1>11, <1>14 DEF places

InTrail(bytes, s) == \E n \in Nat : s = RefPlaces(bytes)[n]

\* Where it comes to rest.
RefLast(bytes) == RefPlaces(bytes)[Len(bytes)]

LEMMA TrailMembers ==
    ASSUME NEW bytes \in Seq(Byte)
    PROVE  /\ InTrail(bytes, RefHeader(bytes))
           /\ \A s : InTrail(bytes, s) => InTrail(bytes, RefTurn(bytes, s))
  <1>1. 0 \in Nat /\ \A n \in Nat : n + 1 \in Nat
    OBVIOUS
  <1>2. InTrail(bytes, RefHeader(bytes))
    BY <1>1, PlacesFacts DEF InTrail
  <1>3. ASSUME NEW s, InTrail(bytes, s) PROVE InTrail(bytes, RefTurn(bytes, s))
    <2>1. PICK n \in Nat : s = RefPlaces(bytes)[n]
      BY <1>3 DEF InTrail
    <2>2. RefPlaces(bytes)[n + 1] = RefTurn(bytes, s)
      BY <2>1, PlacesFacts
    <2> QED BY <1>1, <2>2 DEF InTrail
  <1> QED BY <1>2, <1>3

\* Every turn that goes on uses a byte.
Reached(bytes, n) ==
    LET s == RefPlaces(bytes)[n] IN
    RefSound(bytes, s) /\ (s.code = "OK" => HEADER_SIZE + n <= s.used)

LEMMA PlacesReached ==
    ASSUME NEW bytes \in Seq(Byte), NEW n \in Nat
    PROVE  Reached(bytes, n)
  <1> DEFINE Bad == {k \in Nat : ~Reached(bytes, k)}
  <1>1. SUFFICES ASSUME Bad # {} PROVE FALSE
    OBVIOUS
  <1>2. PICK m \in Bad : \A k \in Bad : m <= k
    <2>1. Bad \subseteq Nat
      OBVIOUS
    <2> HIDE DEF Bad
    <2> QED BY <1>1, <2>1, LeastMember
  <1>3. m \in Nat /\ ~Reached(bytes, m)
    OBVIOUS
  <1>4. CASE m = 0
    <2>1. RefSound(bytes, RefPlaces(bytes)[0])
      BY PlacesFacts, HeaderSound
    <2> QED BY <1>3, <1>4, <2>1 DEF Reached, RefSound, HEADER_SIZE
  <1>5. CASE m # 0
    <2> DEFINE s == RefPlaces(bytes)[m - 1]
               t == RefPlaces(bytes)[m]
    <2>1. m - 1 \in Nat /\ (m - 1) + 1 = m /\ m - 1 \notin Bad
      BY <1>2, <1>3, <1>5
    <2>2. RefSound(bytes, s) /\ (s.code = "OK" => HEADER_SIZE + (m - 1) <= s.used)
      BY <2>1 DEF Reached
    <2>3. t = RefTurn(bytes, s)
      BY <2>1, PlacesFacts
    <2> HIDE DEF s, t
    <2>4. CASE s.code # "OK"
      <3>1. t = s
        BY <2>3, <2>4 DEF RefTurn
      <3> QED BY <1>3, <2>2, <2>4, <3>1 DEF Reached, t
    <2>5. CASE s.code = "OK"
      <3>1. Turned(bytes, s, t)
        BY <2>2, <2>3, <2>5, TurnTurned
      <3>2. RefSound(bytes, t) /\ (t.code = "OK" => s.used < t.used)
        BY <3>1 DEF Turned
      <3>3. t.code = "OK" => HEADER_SIZE + m <= t.used
        <4> DEFINE u == s.used
                   v == t.used
        <4>1. u \in Nat /\ v \in Nat
          BY <2>2, <3>2, PlaceFields DEF RefSound
        <4>2. HEADER_SIZE + (m - 1) <= u /\ (t.code = "OK" => u < v)
          BY <2>2, <2>5, <3>2
        <4> HIDE DEF u, v
        <4>3. t.code = "OK" => HEADER_SIZE + m <= v
          BY <1>3, <4>1, <4>2 DEF HEADER_SIZE
        <4> QED BY <4>3 DEF v
      <3> QED BY <1>3, <3>2, <3>3 DEF Reached, t
    <2> QED BY <2>4, <2>5
  <1> QED BY <1>4, <1>5

LEMMA PlacesOnward ==
    ASSUME NEW bytes \in Seq(Byte), NEW n \in Nat, NEW m \in Nat, n <= m
    PROVE  Onward(RefPlaces(bytes)[n], RefPlaces(bytes)[m])
  <1> DEFINE P(k) == RefPlaces(bytes)[k]
             Bad == {k \in Nat : n <= k /\ ~Onward(P(n), P(k))}
  <1>1. \A k \in Nat : RefSound(bytes, P(k)) /\ P(k) \in RefPlace
    BY PlacesReached DEF Reached, RefSound
  <1>2. SUFFICES ASSUME Bad # {} PROVE FALSE
    OBVIOUS
  <1>3. PICK i \in Bad : \A k \in Bad : i <= k
    <2>1. Bad \subseteq Nat
      OBVIOUS
    <2> HIDE DEF Bad
    <2> QED BY <1>2, <2>1, LeastMember
  <1>4. i \in Nat /\ n <= i /\ ~Onward(P(n), P(i))
    OBVIOUS
  <1>5. i # n
    BY <1>1, <1>4, OnwardRefl
  <1>6. i - 1 \in Nat /\ n <= i - 1 /\ (i - 1) + 1 = i /\ i - 1 \notin Bad
    BY <1>3, <1>4, <1>5
  <1>7. Onward(P(n), P(i - 1))
    BY <1>6
  <1>8. P(i) = RefTurn(bytes, P(i - 1))
    BY <1>6, PlacesFacts
  <1> HIDE DEF P
  <1>9. Onward(P(i - 1), P(i))
    <2>1. CASE P(i - 1).code # "OK"
      <3>1. P(i) = P(i - 1)
        BY <1>8, <2>1 DEF RefTurn
      <3> QED BY <1>1, <1>6, <3>1, OnwardRefl
    <2>2. CASE P(i - 1).code = "OK"
      BY <1>1, <1>6, <1>8, <2>2, TurnTurned DEF Turned
    <2> QED BY <2>1, <2>2
  <1> QED BY <1>1, <1>4, <1>6, <1>7, <1>9, OnwardTrans

\* From every place the way leads to the last one, where there is no going on.
LEMMA TrailEnds ==
    ASSUME NEW bytes \in Seq(Byte)
    PROVE  /\ RefSound(bytes, RefLast(bytes)) /\ RefLast(bytes).code # "OK"
           /\ \A s : InTrail(bytes, s) =>
                 RefSound(bytes, s) /\ Onward(s, RefLast(bytes))
  <1> DEFINE n == Len(bytes)
             z == RefLast(bytes)
  <1>1. n \in Nat /\ z = RefPlaces(bytes)[n]
    BY DEF RefLast
  <1> HIDE DEF n
  <1>2. RefSound(bytes, z) /\ (z.code = "OK" => HEADER_SIZE + n <= z.used)
    BY <1>1, PlacesReached DEF Reached
  <1>3. z.used \in Nat /\ z.used <= n
    BY <1>2, PlaceFields DEF RefSound, n
  <1>4. z.code # "OK"
    <2> DEFINE u == z.used
    <2>1. u \in Nat /\ u <= n /\ (z.code = "OK" => HEADER_SIZE + n <= u)
      BY <1>2, <1>3
    <2> HIDE DEF u, z
    <2> QED BY <1>1, <2>1 DEF HEADER_SIZE
  <1>5. ASSUME NEW s, InTrail(bytes, s) PROVE RefSound(bytes, s) /\ Onward(s, z)
    <2>1. PICK k \in Nat : s = RefPlaces(bytes)[k]
      BY <1>5 DEF InTrail
    <2>2. RefSound(bytes, s)
      BY <2>1, PlacesReached DEF Reached
    <2> HIDE DEF z
    <2>3. CASE k <= n
      BY <1>1, <2>1, <2>2, <2>3, PlacesOnward
    <2>4. CASE n <= k
      <3>1. Onward(z, s)
        BY <1>1, <2>1, <2>4, PlacesOnward
      <3>2. s = z
        BY <1>4, <3>1 DEF Onward
      <3>3. z \in RefPlace
        BY <1>2 DEF RefSound
      <3> QED BY <2>2, <3>2, <3>3, OnwardRefl
    <2> QED BY <1>1, <2>1, <2>2, <2>3, <2>4
  <1> QED BY <1>2, <1>4, <1>5

\* What a place says of the whole decoding.
LEMMA TrailSays ==
    ASSUME NEW bytes \in Seq(Byte), NEW s, InTrail(bytes, s)
    PROVE  LET expected == RefDecode(bytes) IN
           /\ RefSound(bytes, s)
           /\ expected.out \in Seq(Byte) /\ Len(s.out) <= Len(expected.out)
           /\ s.out = SubSeq(expected.out, 1, Len(s.out))
           /\ s.code # "OK" => /\ expected.out = s.out /\ expected.used = s.used
                               /\ expected.code = s.code
  <1> DEFINE z == RefLast(bytes)
             expected == RefDecode(bytes)
  <1>1. expected.out = z.out /\ expected.used = z.used /\ expected.code = z.code
    BY DEF RefDecode, Verdict, RefLast
  <1>2. RefSound(bytes, s) /\ Onward(s, z) /\ RefSound(bytes, z)
    BY TrailEnds
  <1> HIDE DEF z, expected
  <1>3. s.out \in Seq(Byte) /\ z.out \in Seq(Byte)
    BY <1>2, PlaceFields DEF RefSound
  <1>4. Len(s.out) <= Len(z.out) /\ \A i \in 1 .. Len(s.out) : z.out[i] = s.out[i]
    BY <1>2 DEF Onward
  <1>5. s.out = SubSeq(z.out, 1, Len(s.out))
    BY <1>3, <1>4, PrefixSaid
  <1> QED BY <1>1, <1>2, <1>3, <1>4, <1>5 DEF Onward, expected

-----------------------------------------------------------------------------
(* The reference decoder gives back what the bytes are an encoding of. *)

\* Place s of the decoder is point p of the encoding's path.
Holds(bytes, data, p, s) ==
    /\ s.code = "OK" /\ s.used = p.at /\ s.index = p.index
    /\ s.bits = IF p = Start THEN 0 ELSE bytes[p.code] - p.bits
    /\ s.out \in Seq(Byte) /\ Len(s.out) = p.from
    /\ \A i \in 1 .. p.from : s.out[i] = data[i]

Agrees(r, data, n) == \A i \in 1 .. n : r[i] = data[i]

CopiesBack(r, from, length, distance) ==
    \A i \in from + 1 .. from + length : r[i] = r[i - distance]

\* A repetition extends what agrees with the data as the data does.
LEMMA RepeatsAlike ==
    ASSUME NEW data, NEW r, NEW from \in Nat, NEW length \in Nat, NEW distance,
           Repeats(data, from, length, distance),
           Agrees(r, data, from), CopiesBack(r, from, length, distance)
    PROVE  Agrees(r, data, from + length)
  <1> DEFINE Bad == {i \in 1 .. from + length : r[i] # data[i]}
  <1>1. /\ distance \in Nat \ {0} /\ distance <= from
        /\ \A k \in from + 1 .. from + length : data[k] = data[k - distance]
    BY FormatSizes DEF Repeats, Least
  <1>2. /\ \A i \in 1 .. from : r[i] = data[i]
        /\ \A i \in from + 1 .. from + length : r[i] = r[i - distance]
    BY DEF Agrees, CopiesBack
  <1>3. SUFFICES ASSUME Bad # {} PROVE FALSE
    BY DEF Agrees
  <1>4. PICK m \in Bad : \A k \in Bad : m <= k
    <2>1. Bad \subseteq Nat
      OBVIOUS
    <2> HIDE DEF Bad
    <2> QED BY <1>3, <2>1, LeastMember
  <1>5. m \in 1 .. from + length /\ r[m] # data[m] /\ m \in from + 1 .. from + length
    BY <1>2
  <1>6. m - distance \in 1 .. from + length /\ m - distance \notin Bad
    BY <1>1, <1>4, <1>5
  <1>7. r[m - distance] = data[m - distance]
    BY <1>6
  <1> QED BY <1>2, <1>1, <1>5, <1>7

LEMMA BlockDecodes ==
    ASSUME NEW bytes \in Seq(Byte), NEW data, NEW p \in Point, NEW q \in Point,
           OpensBlock(p, q), NEW s, Holds(bytes, data, p, s),
           p.at < Len(bytes), Len(s.out) # RefSize(bytes)
    PROVE  Holds(bytes, data, q, RefTurn(bytes, s))
  <1> DEFINE t == Place(s.out, s.used + 1, 0, bytes[s.used + 1], "OK")
  <1>1. /\ p.at \in Nat /\ p.from \in Nat /\ p.index = TOKENS_PER_BLOCK
        /\ q.at = p.at + 1 /\ q.from = p.from /\ q.index = 0
        /\ q.code = p.at + 1 /\ q.bits = 0 /\ q # Start
    BY PointFields, FormatSizes DEF OpensBlock, Start
  <1>2. RefTurn(bytes, s) = t
    BY <1>1 DEF RefTurn, Holds
  <1>3. bytes[p.at + 1] \in Nat
    <2>1. p.at + 1 \in 1 .. Len(bytes)
      BY <1>1
    <2> QED BY <2>1, RadixFacts DEF Byte
  <1>4. /\ t.code = "OK" /\ t.used = p.at + 1 /\ t.index = 0 /\ t.out = s.out
        /\ t.bits = bytes[p.at + 1]
    BY DEF Place, Holds
  <1> HIDE DEF t
  <1>5. t.bits = bytes[q.code] - q.bits
    <2> DEFINE b == bytes[p.at + 1]
    <2> HIDE DEF b
    <2>1. b \in Nat /\ t.bits = b /\ bytes[q.code] = b
      BY <1>1, <1>3, <1>4 DEF b
    <2>2. b - 0 = b
      BY <2>1
    <2> QED BY <1>1, <2>1, <2>2
  <1>6. t.out \in Seq(Byte) /\ Len(t.out) = q.from /\ \A i \in 1 .. q.from : t.out[i] = data[i]
    BY <1>1, <1>4 DEF Holds
  <1>7. Holds(bytes, data, q, t)
    BY <1>1, <1>4, <1>5, <1>6 DEF Holds
  <1> QED BY <1>2, <1>7

\* What the bits of the code byte say of the token between p and q.
LEMMA TokenDecodes ==
    ASSUME NEW bytes \in Seq(Byte), NEW data, NEW p \in Point, NEW q \in Point,
           p.index < TOKENS_PER_BLOCK, q.index = p.index + 1, q.code = p.code,
           InForce(bytes, q), q.at <= Len(bytes), NEW s, Holds(bytes, data, p, s)
    PROVE  LET bit == CodeBit(p.index) IN
           /\ q # Start => /\ q.bits = p.bits + bit =>
                                /\ s.bits >= bit
                                /\ s.bits - bit = bytes[q.code] - q.bits
                           /\ q.bits = p.bits =>
                                ~(s.bits >= bit) /\ s.bits = bytes[q.code] - q.bits
  <1> DEFINE bit == CodeBit(p.index)
             b == p.bits
             c == q.bits
             v == bytes[p.code]
             x == s.bits
  <1>1. p.index \in 0 .. TOKENS_PER_BLOCK - 1 /\ b \in Nat /\ c \in Nat /\ p # Start
    BY PointFields, FormatSizes DEF Start
  <1>2. v \in Nat
    <2>1. p.code \in 1 .. Len(bytes)
      BY PointFields DEF InForce, HEADER_SIZE
    <2> QED BY <2>1, RadixFacts DEF Byte
  <1>3. bit \in Nat \ {0} /\ Weight(q.index) = bit
    BY <1>1, BitFacts
  <1>4. v - c \in 0 .. bit - 1
    BY <1>3 DEF InForce
  <1>5. x = v - b
    BY <1>1 DEF Holds
  <1> HIDE DEF bit, b, c, v, x
  <1>6. c = b + bit => x >= bit /\ x - bit = v - c
    BY <1>1, <1>2, <1>3, <1>4, <1>5
  <1>7. c = b => ~(x >= bit) /\ x = v - c
    BY <1>1, <1>2, <1>3, <1>4, <1>5
  <1> QED BY <1>6, <1>7 DEF bit, b, c, v, x

LEMMA LiteralDecodes ==
    ASSUME NEW bytes \in Seq(Byte), NEW data, NEW p \in Point, NEW q \in Point,
           AddsLiteral(bytes, data, p, q), InForce(bytes, q), q.at <= Len(bytes),
           NEW s, Holds(bytes, data, p, s), Len(s.out) # RefSize(bytes)
    PROVE  Holds(bytes, data, q, RefTurn(bytes, s))
  <1> DEFINE bit == CodeBit(p.index)
             b == bytes[s.used + 1]
             more == Append(s.out, b)
             t == Place(more, s.used + 1, s.index + 1, s.bits - bit, "OK")
  <1>1. /\ p.at \in Nat /\ p.from \in Nat /\ p.index < TOKENS_PER_BLOCK
        /\ p.index \in 0 .. TOKENS_PER_BLOCK
        /\ q.at = p.at + 1 /\ q.from = p.from + 1 /\ q.index = p.index + 1
        /\ q.code = p.code /\ q.bits = p.bits + bit /\ bytes[q.at] = data[q.from]
    BY PointFields DEF AddsLiteral
  <1>2. q # Start
    BY <1>1 DEF Start
  <1> HIDE DEF bit
  <1>3. s.bits >= bit /\ s.bits - bit = bytes[q.code] - q.bits
    BY <1>1, <1>2, TokenDecodes DEF bit
  <1>4. RefTurn(bytes, s) = t
    <2>1. s.used # Len(bytes) /\ s.index # TOKENS_PER_BLOCK /\ s.code = "OK"
          /\ s.index = p.index
      BY <1>1, FormatSizes DEF Holds
    <2> QED BY <1>3, <2>1 DEF RefTurn, bit
  <1>5. b \in Byte /\ b = data[q.from]
    <2>1. s.used + 1 = q.at /\ q.at \in 1 .. Len(bytes)
      BY <1>1 DEF Holds
    <2> QED BY <1>1, <2>1
  <1> HIDE DEF b
  <1>6. /\ more \in Seq(Byte) /\ Len(more) = p.from + 1
        /\ \A i \in 1 .. p.from : more[i] = data[i]
        /\ more[p.from + 1] = b
    <2>1. s.out \in Seq(Byte) /\ Len(s.out) = p.from /\ \A i \in 1 .. p.from : s.out[i] = data[i]
      BY DEF Holds
    <2> QED BY <1>1, <1>5, <2>1
  <1> HIDE DEF more
  <1>7. /\ t.code = "OK" /\ t.used = p.at + 1 /\ t.index = p.index + 1 /\ t.out = more
        /\ t.bits = s.bits - bit
    BY DEF Place, Holds
  <1> HIDE DEF t
  <1>8. \A i \in 1 .. q.from : more[i] = data[i]
    <2> DEFINE n == p.from
    <2>1. n \in Nat /\ q.from = n + 1
      BY <1>1
    <2> HIDE DEF n
    <2>2. \A i \in 1 .. n + 1 : i \in 1 .. n \/ i = n + 1
      BY <2>1
    <2> QED BY <1>5, <1>6, <2>1, <2>2 DEF n
  <1>9. Holds(bytes, data, q, t)
    BY <1>1, <1>2, <1>3, <1>6, <1>7, <1>8 DEF Holds
  <1> QED BY <1>4, <1>9

LEMMA PairDecodes ==
    ASSUME NEW bytes \in Seq(Byte), NEW data, NEW p \in Point, NEW q \in Point,
           NEW length \in Nat, NEW distance \in Nat,
           AddsPair(bytes, data, p, q, length, distance),
           InForce(bytes, q), q.at <= Len(bytes),
           NEW s, Holds(bytes, data, p, s), Len(s.out) # RefSize(bytes),
           RefSize(bytes) \in Nat, q.from <= RefSize(bytes)
    PROVE  Holds(bytes, data, q, RefTurn(bytes, s))
  <1> DEFINE bit  == CodeBit(p.index)
             pair == EncodeReference(length, distance)
             n    == Len(pair)
             size == IF bytes[s.used + 1] \div NIBBLE = 0 THEN 3 ELSE 2
             read == SubSeq(bytes, s.used + 1, s.used + size)
             more == Repeated(s.out, distance, length)
             t    == Place(more, p.at + n, p.index + 1, s.bits, "OK")
  <1>1. /\ pair \in Seq(Byte) /\ n \in {2, 3}
        /\ ReferenceComplete(pair) /\ ~ReferenceComplete(SubSeq(pair, 1, n - 1))
        /\ ReferenceDistance(pair) = distance /\ ReferenceLength(pair) = length
        /\ distance \in 1 .. MAX_DISTANCE /\ distance <= p.from
        /\ length \in MIN_MATCH .. MAX_MATCH
    BY PairOfStep
  <1>2. /\ p.at \in Nat /\ p.from \in Nat /\ p.index < TOKENS_PER_BLOCK
        /\ p.index \in 0 .. TOKENS_PER_BLOCK
        /\ Repeats(data, p.from, length, distance)
        /\ \A k \in 1 .. n : bytes[p.at + k] = pair[k]
    BY PointFields DEF AddsPair
  <1>3. /\ q.at = p.at + n /\ q.from = p.from + length /\ q.index = p.index + 1
        /\ q.code = p.code /\ q.bits = p.bits
    <2>1. q = [at |-> p.at + n, from |-> p.from + length, index |-> p.index + 1,
               code |-> p.code, bits |-> p.bits]
      BY DEF AddsPair
    <2> HIDE DEF pair, n
    <2> QED BY <2>1
  <1> HIDE DEF pair, n
  <1>4. q # Start /\ n \in Nat
    BY <1>1, <1>2, <1>3 DEF Start
  <1>5. ~(s.bits >= bit) /\ s.bits = bytes[q.code] - q.bits
    BY <1>2, <1>3, <1>4, TokenDecodes
  <1>6. /\ s.out \in Seq(Byte) /\ Len(s.out) = p.from /\ s.used = p.at /\ s.index = p.index
        /\ s.code = "OK" /\ \A i \in 1 .. p.from : s.out[i] = data[i]
    BY DEF Holds
  <1>7. size = n
    <2>1. bytes[s.used + 1] = pair[1]
      <3>1. 1 \in 1 .. n
        BY <1>1
      <3> QED BY <1>2, <1>6, <3>1
    <2>2. CASE n = 2
      BY <1>1, <2>1, <2>2 DEF ReferenceComplete, n
    <2>3. CASE n = 3
      <3> DEFINE cut == SubSeq(pair, 1, 2)
      <3>1. Len(cut) = 2 /\ cut[1] = pair[1]
        BY <1>1, <2>3 DEF n
      <3>2. ~ReferenceComplete(cut)
        BY <1>1, <2>3
      <3> QED BY <2>1, <2>3, <3>1, <3>2 DEF ReferenceComplete
    <2> QED BY <1>1, <2>2, <2>3
  <1> HIDE DEF size
  <1>8. read = pair
    <2>1. p.at + n <= Len(bytes)
      BY <1>3
    <2> HIDE DEF read
    <2>2. read = SubSeq(bytes, p.at + 1, p.at + n)
      BY <1>6, <1>7 DEF read
    <2>3. /\ read \in Seq(Byte) /\ Len(read) = n
          /\ \A k \in 1 .. n : read[k] = bytes[p.at + k]
      <3> DEFINE a == p.at
      <3>1. a \in Nat /\ a + n <= Len(bytes) /\ read = SubSeq(bytes, a + 1, a + n)
        BY <1>2, <2>1, <2>2
      <3> HIDE DEF a
      <3>2. /\ read \in Seq(Byte) /\ Len(read) = n
            /\ \A k \in 1 .. n : read[k] = bytes[a + k]
        BY <1>4, <3>1, StretchParts
      <3> QED BY <3>2 DEF a
    <2>4. \A k \in 1 .. n : read[k] = pair[k]
      BY <1>2, <2>3
    <2> QED BY <1>1, <2>3, <2>4 DEF n
  <1>9. RefTurn(bytes, s) = RefPair(bytes, s)
    <2>1. s.used # Len(bytes) /\ s.index # TOKENS_PER_BLOCK
      <3> DEFINE m == Len(bytes)
      <3>1. m \in Nat /\ p.at + n <= m /\ n > 0
        BY <1>1, <1>3
      <3> HIDE DEF m
      <3>2. p.at # m
        BY <1>2, <1>4, <3>1
      <3> QED BY <1>2, <1>6, <3>2, FormatSizes DEF m
    <2> QED BY <1>5, <1>6, <2>1 DEF RefTurn
  <1>10. RefPair(bytes, s) = t
    <2>1. ~(s.used + size > Len(bytes))
      <3> DEFINE m == Len(bytes)
      <3>1. m \in Nat /\ p.at + n <= m
        BY <1>3
      <3> HIDE DEF m
      <3>2. ~(p.at + n > m)
        BY <1>2, <1>4, <3>1
      <3> QED BY <1>6, <1>7, <3>2 DEF m
    <2>2. ~(distance > Len(s.out) \/ length > RefSize(bytes) - Len(s.out))
      <3> DEFINE m == Len(s.out)
                 z == RefSize(bytes)
      <3>1. m = p.from /\ z \in Nat /\ p.from + length <= z
        BY <1>3, <1>6
      <3> HIDE DEF m, z
      <3>2. ~(distance > m) /\ ~(length > z - m)
        BY <1>1, <1>2, <3>1
      <3> QED BY <3>2 DEF m, z
    <2> QED BY <1>1, <1>6, <1>7, <1>8, <2>1, <2>2 DEF RefPair, size, read
  <1> HIDE DEF bit
  <1>11. /\ more \in Seq(Byte) /\ Len(more) = p.from + length
         /\ \A i \in 1 .. p.from : more[i] = data[i]
         /\ \A i \in p.from + 1 .. p.from + length : more[i] = more[i - distance]
    <2>1. distance \in 1 .. Len(s.out)
      BY <1>1, <1>2, <1>6, FormatSizes
    <2>2. /\ more \in Seq(Byte) /\ Len(more) = Len(s.out) + length
          /\ \A i \in 1 .. Len(s.out) : more[i] = s.out[i]
          /\ \A i \in Len(s.out) + 1 .. Len(more) : more[i] = more[i - distance]
      BY <1>6, <2>1, RepeatedFacts
    <2> HIDE DEF more
    <2> QED BY <1>6, <2>2
  <1> HIDE DEF more
  <1>12. \A i \in 1 .. p.from + length : more[i] = data[i]
    <2>1. /\ Agrees(more, data, p.from) /\ CopiesBack(more, p.from, length, distance)
      BY <1>11 DEF Agrees, CopiesBack
    <2>2. Agrees(more, data, p.from + length)
      BY <1>2, <2>1, RepeatsAlike
    <2> QED BY <2>2 DEF Agrees
  <1>13. /\ t.code = "OK" /\ t.used = p.at + n /\ t.index = p.index + 1 /\ t.out = more
         /\ t.bits = s.bits
    BY DEF Place
  <1> HIDE DEF t
  <1>14. Holds(bytes, data, q, t)
    BY <1>3, <1>4, <1>5, <1>11, <1>12, <1>13 DEF Holds
  <1> QED BY <1>9, <1>10, <1>14

\* From point to point of the path, a turn at a time.
LEMMA StepDecodes ==
    ASSUME NEW bytes \in Seq(Byte), NEW data, NEW points, NEW last,
           Spans(bytes, data, points, last), Len(data) \in Nat, RefSize(bytes) = Len(data),
           NEW p \in points, p.from # Len(data), NEW s, Holds(bytes, data, p, s)
    PROVE  \E q \in points : Holds(bytes, data, q, RefTurn(bytes, s))
  <1>1. p \in Point /\ p.from \in Nat /\ p.from <= Len(data)
    BY PointInside, PointFields
  <1>2. p.from < Len(data)
    <2> DEFINE f == p.from
               n == Len(data)
    <2>1. f \in Nat /\ n \in Nat /\ f <= n /\ f # n
      BY <1>1
    <2> HIDE DEF f, n
    <2>2. f < n
      BY <2>1
    <2> QED BY <2>2 DEF f, n
  <1>3. p.at < Len(bytes) /\ \E q \in points : Leads(bytes, data, p, q)
    BY <1>2, PathMore
  <1>4. PICK q \in points : Leads(bytes, data, p, q)
    BY <1>3
  <1>5. /\ q \in Point /\ q.at <= Len(bytes) /\ q.from <= RefSize(bytes)
        /\ q = Start \/ InForce(bytes, q)
    <2>1. q \in Point /\ q.at \in HEADER_SIZE .. Len(bytes) /\ q.from <= Len(data)
          /\ (q = Start \/ InForce(bytes, q))
      BY PointInside
    <2> QED BY <2>1, PointFields
  <1>6. q # Start
    <2>1. q.at > p.at /\ p.at \in HEADER_SIZE .. Len(bytes)
      BY <1>1, <1>4, <1>5, StepFields, PointInside
    <2> DEFINE a == p.at
               b == q.at
    <2>2. b > a /\ a \in HEADER_SIZE .. Len(bytes)
      BY <2>1
    <2> HIDE DEF a, b
    <2>3. b # HEADER_SIZE
      BY <2>2 DEF HEADER_SIZE
    <2> QED BY <2>3 DEF b, Start
  <1>7. Len(s.out) # RefSize(bytes)
    BY DEF Holds
  <1>8. CASE OpensBlock(p, q)
    BY <1>1, <1>3, <1>5, <1>7, <1>8, BlockDecodes
  <1>9. CASE AddsLiteral(bytes, data, p, q)
    BY <1>1, <1>5, <1>6, <1>7, <1>9, LiteralDecodes
  <1>10. ASSUME NEW length \in Nat, NEW distance \in Nat,
                AddsPair(bytes, data, p, q, length, distance)
         PROVE  Holds(bytes, data, q, RefTurn(bytes, s))
    BY <1>1, <1>5, <1>6, <1>7, <1>10, PairDecodes
  <1> QED BY <1>4, <1>8, <1>9, <1>10 DEF Leads

\* Where the decoder is after n turns: on the path, or at rest at its end.
PlaceOnPath(bytes, data, points, n) ==
    LET s == RefPlaces(bytes)[n] IN
    \/ \E p \in points : Holds(bytes, data, p, s)
    \/ /\ s.code = "STREAM_END" /\ s.used = Len(bytes)
       /\ s.out \in Seq(Byte) /\ Len(s.out) = Len(data) /\ Agrees(s.out, data, Len(data))

LEMMA HeaderOnPath ==
    ASSUME NEW bytes \in Seq(Byte), NEW data \in Seq(Byte), Len(data) < Radix * Radix,
           HasHeader(bytes, Len(data))
    PROVE  /\ RefSize(bytes) = Len(data)
           /\ Holds(bytes, data, Start, RefHeader(bytes))
  <1> DEFINE header == yaz0_write_header(Len(data))
             s == Place(<<>>, HEADER_SIZE, TOKENS_PER_BLOCK, 0, "OK")
  <1>1. /\ header[1] = MAGIC /\ read_be32(header[2], header[3]) = Len(data)
    BY HeaderRoundTrip
  <1>2. /\ HEADER_SIZE <= Len(bytes) /\ \A i \in 1 .. HEADER_SIZE : bytes[i] = header[i]
    BY DEF HasHeader
  <1> HIDE DEF header
  <1>3. bytes[1] = header[1] /\ bytes[2] = header[2] /\ bytes[3] = header[3]
    BY <1>2 DEF HEADER_SIZE
  <1>4. RefSize(bytes) = Len(data)
    BY <1>1, <1>3 DEF RefSize
  <1>5. RefHeader(bytes) = s
    <2>1. ~(Len(bytes) < HEADER_SIZE)
      BY <1>2 DEF HEADER_SIZE
    <2> QED BY <1>1, <1>3, <2>1 DEF RefHeader
  <1>6. /\ s.code = "OK" /\ s.used = HEADER_SIZE /\ s.index = TOKENS_PER_BLOCK
        /\ s.bits = 0 /\ s.out = <<>>
    BY DEF Place
  <1>7. Start.at = HEADER_SIZE /\ Start.from = 0 /\ Start.index = TOKENS_PER_BLOCK
    BY DEF Start
  <1> HIDE DEF s
  <1>8. Holds(bytes, data, Start, s)
    BY <1>6, <1>7 DEF Holds
  <1> QED BY <1>4, <1>5, <1>8

LEMMA PlacesOnPath ==
    ASSUME NEW bytes \in Seq(Byte), NEW data \in Seq(Byte), NEW points, NEW last,
           Spans(bytes, data, points, last), RefSize(bytes) = Len(data),
           Holds(bytes, data, Start, RefHeader(bytes)), NEW n \in Nat
    PROVE  PlaceOnPath(bytes, data, points, n)
  <1> DEFINE Bad == {k \in Nat : ~PlaceOnPath(bytes, data, points, k)}
  <1>1. SUFFICES ASSUME Bad # {} PROVE FALSE
    OBVIOUS
  <1>2. PICK m \in Bad : \A k \in Bad : m <= k
    <2>1. Bad \subseteq Nat
      OBVIOUS
    <2> HIDE DEF Bad
    <2> QED BY <1>1, <2>1, LeastMember
  <1>3. m \in Nat /\ ~PlaceOnPath(bytes, data, points, m)
    OBVIOUS
  <1>4. CASE m = 0
    <2>1. Start \in points
      BY DEF Spans, Path
    <2> QED BY <1>3, <1>4, <2>1, PlacesFacts DEF PlaceOnPath
  <1>5. CASE m # 0
    <2> DEFINE s == RefPlaces(bytes)[m - 1]
               t == RefPlaces(bytes)[m]
    <2>1. m - 1 \in Nat /\ (m - 1) + 1 = m /\ m - 1 \notin Bad
      BY <1>2, <1>3, <1>5
    <2>2. PlaceOnPath(bytes, data, points, m - 1)
      BY <2>1
    <2>3. t = RefTurn(bytes, s)
      BY <2>1, PlacesFacts
    <2>4. ASSUME s.code # "OK" PROVE PlaceOnPath(bytes, data, points, m)
      <3>1. t = s
        BY <2>3, <2>4 DEF RefTurn
      <3> QED BY <2>2, <3>1 DEF PlaceOnPath
    <2>5. ASSUME NEW p \in points, Holds(bytes, data, p, s), p.from # Len(data)
          PROVE  PlaceOnPath(bytes, data, points, m)
      <3>1. \E q \in points : Holds(bytes, data, q, RefTurn(bytes, s))
        BY <2>5, StepDecodes
      <3> QED BY <2>3, <3>1 DEF PlaceOnPath
    <2>6. ASSUME NEW p \in points, Holds(bytes, data, p, s), p.from = Len(data)
          PROVE  PlaceOnPath(bytes, data, points, m)
      <3> HIDE DEF s, t
      <3>1. /\ s.code = "OK" /\ s.used = p.at /\ s.out \in Seq(Byte)
            /\ Len(s.out) = Len(data) /\ Agrees(s.out, data, Len(data))
        BY <2>6 DEF Holds, Agrees
      <3>2. p.at = Len(bytes)
        BY <2>6, PointInside
      <3>3. t = Stopped(s, s.used, "STREAM_END")
        BY <2>3, <3>1 DEF RefTurn
      <3>4. s.used \in Nat
        BY <3>1, <3>2
      <3>5. t.out = s.out /\ t.used = s.used /\ t.code = "STREAM_END"
        <4>1. s \in RefPlace
          <5>1. RefSound(bytes, RefPlaces(bytes)[m - 1])
            BY <2>1, PlacesReached DEF Reached
          <5> QED BY <5>1 DEF RefSound, s
        <4> QED BY <3>3, <4>1 DEF Stopped, RefPlace
      <3> QED BY <3>1, <3>2, <3>5 DEF PlaceOnPath, t
    <2>7. CASE \E p \in points : Holds(bytes, data, p, s)
      BY <1>3, <2>5, <2>6, <2>7
    <2>8. CASE s.code = "STREAM_END"
      BY <1>3, <2>4, <2>8
    <2> QED BY <2>2, <2>7, <2>8 DEF PlaceOnPath
  <1> QED BY <1>4, <1>5

\* The reference decoder turns every encoding into the data it encodes, using
\* all of it: what compress.c promises is what decompress.c is measured by.
THEOREM EncodingDecodes ==
    ASSUME NEW bytes \in Seq(Byte), NEW data \in Seq(Byte), Encodes(bytes, data)
    PROVE  RefDecode(bytes) = Verdict(data, Len(bytes), "STREAM_END")
  <1> DEFINE n == Len(bytes)
             s == RefPlaces(bytes)[n]
  <1>1. /\ RefSize(bytes) = Len(data)
        /\ Holds(bytes, data, Start, RefHeader(bytes))
    BY HeaderOnPath DEF Encodes
  <1>2. PICK points \in SUBSET Point, last \in Point : Spans(bytes, data, points, last)
    BY DEF Encodes
  <1>3. PlaceOnPath(bytes, data, points, n)
    BY <1>1, <1>2, PlacesOnPath
  <1>4. s.code # "OK"
    BY TrailEnds DEF RefLast
  <1> HIDE DEF n
  <1>5. /\ s.code = "STREAM_END" /\ s.used = Len(bytes)
        /\ s.out \in Seq(Byte) /\ Len(s.out) = Len(data) /\ Agrees(s.out, data, Len(data))
    BY <1>3, <1>4 DEF PlaceOnPath, Holds
  <1> HIDE DEF s
  <1>6. s.out = data
    BY <1>5 DEF Agrees
  <1> QED BY <1>5, <1>6 DEF RefDecode, n, s

-----------------------------------------------------------------------------
(* The reference encoder. *)

LEMMA EncoderSizes ==
    /\ MAX_DISTANCE \in Nat /\ MAX_MATCH \in Nat /\ MIN_MATCH <= MAX_MATCH
    /\ MIN_MATCH = 3 /\ TOKENS_PER_BLOCK \in Nat \ {0}
  BY FormatAssumption DEF MIN_MATCH

LEMMA ReachFacts ==
    ASSUME NEW reach \in 0 .. MAX_DISTANCE
    PROVE  reach \in Nat /\ reach <= MAX_DISTANCE
  BY EncoderSizes

LEMMA MatchFacts ==
    ASSUME NEW data \in Seq(Byte), NEW at \in Nat, at <= Len(data),
           NEW reach \in 0 .. MAX_DISTANCE, NEW m \in Matches(data, at, reach)
    PROVE  /\ m \in Token /\ m # Literal /\ m # NoToken
           /\ m.length \in MIN_MATCH .. MAX_MATCH /\ m.distance \in 1 .. MAX_DISTANCE
           /\ m.length \in Nat /\ m.distance \in Nat
           /\ at + m.length <= Len(data) /\ m.distance <= at /\ m.distance <= reach
           /\ Repeats(data, at, m.length, m.distance)
           /\ m = [length |-> m.length, distance |-> m.distance]
  <1> DEFINE a == Least(MAX_MATCH, Len(data) - at)
             b == Least(reach, at)
  <1>1. /\ m \in [length : MIN_MATCH .. a, distance : 1 .. b]
        /\ Repeats(data, at, m.length, m.distance)
    BY DEF Matches
  <1>2. a \in Nat /\ a <= MAX_MATCH /\ a <= Len(data) - at /\ Len(data) \in Nat
    BY EncoderSizes DEF Least
  <1>3. b \in Nat /\ b <= reach /\ b <= at /\ b <= MAX_DISTANCE
    BY EncoderSizes DEF Least
  <1> HIDE DEF a, b
  <1>4. m.length \in MIN_MATCH .. a /\ m.distance \in 1 .. b
        /\ m = [length |-> m.length, distance |-> m.distance]
    BY <1>1
  <1>5. m.length \in MIN_MATCH .. MAX_MATCH /\ m.distance \in 1 .. MAX_DISTANCE
    BY <1>2, <1>3, <1>4, EncoderSizes
  <1>6. m \in Token
    BY <1>4, <1>5, EncoderSizes DEF Token
  <1>7. m # Literal /\ m # NoToken
    BY <1>5 DEF Literal, NoToken, MIN_MATCH
  <1> DEFINE l == m.length
             d == m.distance
  <1>8. l \in Nat /\ d \in Nat /\ at + l <= Len(data) /\ d <= at /\ d <= reach
    <2>1. l \in MIN_MATCH .. a /\ d \in 1 .. b
      BY <1>4
    <2> HIDE DEF l, d
    <2> QED BY <1>2, <1>3, <2>1 DEF MIN_MATCH
  <1> QED BY <1>1, <1>4, <1>5, <1>6, <1>7, <1>8

\* The first of two pairs is at least as good as the second.
NoWorse(m, other) ==
    \/ other.length < m.length
    \/ other.length = m.length /\ other.distance <= m.distance

\* A set of naturals with a bound has a greatest member.
LEMMA GreatestMember ==
    ASSUME NEW T, NEW bound \in Nat, T \subseteq 0 .. bound, T # {}
    PROVE  \E m \in T : \A k \in T : k <= m
  <1> DEFINE U == {bound - k : k \in T}
  <1>1. U \subseteq Nat /\ U # {}
    <2>1. PICK k \in T : TRUE
      OBVIOUS
    <2>2. bound - k \in U
      OBVIOUS
    <2>3. \A j \in T : bound - j \in Nat
      OBVIOUS
    <2> QED BY <2>2, <2>3
  <1>2. PICK u \in U : \A v \in U : u <= v
    <2> HIDE DEF U
    <2> QED BY <1>1, LeastMember
  <1>3. PICK m \in T : u = bound - m
    OBVIOUS
  <1>4. ASSUME NEW k \in T PROVE k <= m
    <2>1. bound - m <= bound - k
      BY <1>2, <1>3
    <2> QED BY <2>1
  <1> QED BY <1>4

LEMMA LongestFacts ==
    ASSUME NEW data \in Seq(Byte), NEW at \in Nat, at <= Len(data),
           NEW reach \in 0 .. MAX_DISTANCE
    PROVE  LET found == Matches(data, at, reach)
               longest == Longest(data, at, reach)
           IN /\ found = {} => longest = Literal
              /\ found # {} => longest \in found /\ \A other \in found : NoWorse(longest, other)
  <1> DEFINE found == Matches(data, at, reach)
  <1>1. \A m \in found : m.length \in 0 .. MAX_MATCH /\ m.distance \in 0 .. MAX_DISTANCE
    BY MatchFacts, EncoderSizes
  <1>2. Longest(data, at, reach) =
           IF found = {} THEN Literal
           ELSE CHOOSE m \in found : \A other \in found : NoWorse(m, other)
    BY DEF Longest, NoWorse
  <1> HIDE DEF found
  <1>3. ASSUME found # {} PROVE \E m \in found : \A other \in found : NoWorse(m, other)
    <2> DEFINE lengths == {m.length : m \in found}
    <2>1. PICK l \in lengths : \A k \in lengths : k <= l
      <3>1. lengths \subseteq 0 .. MAX_MATCH /\ lengths # {} /\ MAX_MATCH \in Nat
        BY <1>1, <1>3, EncoderSizes
      <3> HIDE DEF lengths
      <3> QED BY <3>1, GreatestMember
    <2> DEFINE distances == {m.distance : m \in {o \in found : o.length = l}}
    <2>2. PICK d \in distances : \A k \in distances : k <= d
      <3>1. distances \subseteq 0 .. MAX_DISTANCE /\ distances # {} /\ MAX_DISTANCE \in Nat
        BY <1>1, EncoderSizes
      <3> HIDE DEF distances
      <3> QED BY <3>1, GreatestMember
    <2>3. PICK m \in found : m.length = l /\ m.distance = d
      OBVIOUS
    <2>4. ASSUME NEW other \in found PROVE NoWorse(m, other)
      <3>1. other.length <= l /\ (other.length = l => other.distance <= d)
        BY <2>1, <2>2
      <3>2. other.length \in Nat /\ l \in Nat
        BY <1>1, EncoderSizes
      <3> QED BY <2>3, <3>1, <3>2 DEF NoWorse
    <2> QED BY <2>4
  <1> QED BY <1>2, <1>3 DEF found

\* Only one pair is as good as every other.
LEMMA LongestIs ==
    ASSUME NEW data \in Seq(Byte), NEW at \in Nat, at <= Len(data),
           NEW reach \in 0 .. MAX_DISTANCE, NEW m \in Matches(data, at, reach),
           \A other \in Matches(data, at, reach) : NoWorse(m, other)
    PROVE  m = Longest(data, at, reach)
  <1> DEFINE n == Longest(data, at, reach)
  <1>1. n \in Matches(data, at, reach) /\ NoWorse(n, m) /\ NoWorse(m, n)
    BY LongestFacts
  <1> HIDE DEF n
  <1>2. /\ m.length \in Nat /\ m.distance \in Nat /\ n.length \in Nat /\ n.distance \in Nat
        /\ m = [length |-> m.length, distance |-> m.distance]
        /\ n = [length |-> n.length, distance |-> n.distance]
    BY <1>1, MatchFacts
  <1>3. m.length = n.length /\ m.distance = n.distance
    BY <1>1, <1>2 DEF NoWorse
  <1> QED BY <1>2, <1>3 DEF n

LEMMA ConcatNaturals ==
    ASSUME NEW s \in Seq(Nat), NEW t \in Seq(Nat)
    PROVE  /\ s \o t \in Seq(Nat) /\ Len(s \o t) = Len(s) + Len(t)
           /\ Len(s) \in Nat /\ Len(t) \in Nat
           /\ \A i \in 1 .. Len(s) : (s \o t)[i] = s[i]
  OBVIOUS

LEMMA BytesAreNaturals == Seq(Byte) \subseteq Seq(Nat)
  <1>1. Byte \subseteq Nat
    BY RadixFacts DEF Byte
  <1>2. ASSUME NEW s \in Seq(Byte) PROVE s \in Seq(Nat)
    <2>1. Len(s) \in Nat /\ s \in [1 .. Len(s) -> Byte]
      OBVIOUS
    <2>2. s \in [1 .. Len(s) -> Nat]
      BY <1>1, <2>1
    <2> QED BY <2>1, <2>2
  <1> QED BY <1>2

StageType == [at : Nat, held : Token \cup {NoToken}, done : Seq(Nat), group : Seq(Nat),
              count : 0 .. TOKENS_PER_BLOCK - 1]

\* What is true of every stage: a token held back is a match for what comes next.
StageSound(data, s, reach) ==
    /\ s \in StageType /\ s.at <= Len(data) /\ Len(s.group) >= 1
    /\ s.held # NoToken => s.held \in Matches(data, s.at, reach)

\* One stage comes no later than another.
Precedes(s, t) ==
    /\ s.at <= t.at
    /\ Len(s.done) <= Len(t.done) /\ \A i \in 1 .. Len(s.done) : t.done[i] = s.done[i]

LEMMA StageFields ==
    ASSUME NEW s \in StageType
    PROVE  /\ s.at \in Nat /\ s.held \in Token \cup {NoToken}
           /\ s.done \in Seq(Nat) /\ s.group \in Seq(Nat)
           /\ Len(s.done) \in Nat /\ Len(s.group) \in Nat
           /\ s.count \in Nat /\ s.count < TOKENS_PER_BLOCK
  BY EncoderSizes DEF StageType

LEMMA StageMade ==
    ASSUME NEW at \in Nat, NEW held \in Token \cup {NoToken}, NEW done \in Seq(Nat),
           NEW group \in Seq(Nat), NEW count \in 0 .. TOKENS_PER_BLOCK - 1
    PROVE  LET s == Stage(at, held, done, group, count) IN
           /\ s \in StageType /\ s.at = at /\ s.held = held /\ s.done = done
           /\ s.group = group /\ s.count = count
  BY DEF Stage, StageType

\* The token picked fits, and so does the one that is held back for it.
LEMMA PickedFacts ==
    ASSUME NEW data \in Seq(Byte), NEW reach \in 0 .. MAX_DISTANCE,
           NEW s, StageSound(data, s, reach), s.at < Len(data)
    PROVE  LET c == Picked(data, s, reach) IN
           /\ c.token.length \in Nat /\ c.token.length >= 1
           /\ s.at + c.token.length <= Len(data)
           /\ c.token = Literal \/ c.token \in Matches(data, s.at, reach)
           /\ c.held # NoToken => c.held \in Matches(data, s.at + c.token.length, reach)
  <1> DEFINE c == Picked(data, s, reach)
             now == Longest(data, s.at, reach)
             next == Longest(data, s.at + 1, reach)
  <1>1. /\ s.at \in Nat /\ s.at + 1 \in Nat /\ s.at + 1 <= Len(data) /\ s.at <= Len(data)
        /\ s.held # NoToken => s.held \in Matches(data, s.at, reach)
    BY StageFields DEF StageSound
  <1>2. now = Literal \/ now \in Matches(data, s.at, reach)
    BY <1>1, LongestFacts
  <1>3. next = Literal \/ next \in Matches(data, s.at + 1, reach)
    BY <1>1, LongestFacts
  <1>4. Literal.length = 1 /\ Literal \in Token
    BY EncoderSizes DEF Literal, Token
  <1>5. ASSUME NEW m \in Matches(data, s.at, reach)
        PROVE  m.length \in Nat /\ m.length >= 1 /\ s.at + m.length <= Len(data)
    BY <1>1, MatchFacts DEF MIN_MATCH
  <1> HIDE DEF now, next
  <1>6. CASE s.held # NoToken
    <2>1. c = Choice(s.held, NoToken)
      BY <1>6 DEF Picked
    <2>2. c.token = s.held /\ c.held = NoToken
      BY <2>1 DEF Choice
    <2> HIDE DEF c
    <2> QED BY <1>1, <1>5, <1>6, <2>2 DEF c
  <1>7. CASE s.held = NoToken /\ now # Literal /\ next.length >= now.length + 2
    <2>1. c = Choice(Literal, next)
      BY <1>7 DEF Picked, now, next
    <2>2. c.token = Literal /\ c.held = next
      BY <2>1 DEF Choice
    <2>3. next \in Matches(data, s.at + 1, reach)
      <3>1. now.length \in Nat /\ now.length >= 1
        BY <1>2, <1>5, <1>7
      <3>2. next # Literal
        BY <1>4, <1>7, <3>1
      <3> QED BY <1>3, <3>2
    <2> HIDE DEF c
    <2> QED BY <1>1, <1>4, <2>2, <2>3 DEF c
  <1>8. CASE s.held = NoToken /\ ~(now # Literal /\ next.length >= now.length + 2)
    <2>1. c = Choice(now, NoToken)
      BY <1>8 DEF Picked, now, next
    <2>2. c.token = now /\ c.held = NoToken
      BY <2>1 DEF Choice
    <2> HIDE DEF c
    <2> QED BY <1>1, <1>2, <1>4, <1>5, <2>2 DEF c
  <1> QED BY <1>6, <1>7, <1>8

LEMMA JoinedFacts ==
    ASSUME NEW data \in Seq(Byte), NEW reach \in 0 .. MAX_DISTANCE,
           NEW s, StageSound(data, s, reach), s.at < Len(data),
           NEW token, token = Literal \/ token \in Matches(data, s.at, reach)
    PROVE  Joined(data, s, token) \in Seq(Nat) /\ Len(Joined(data, s, token)) >= 1
  <1>1. /\ s.at \in Nat /\ s.group \in Seq(Nat) /\ Len(s.group) >= 1
        /\ s.count \in 0 .. TOKENS_PER_BLOCK - 1
    BY StageFields, EncoderSizes DEF StageSound
  <1>2. CASE token = Literal
    <2>1. data[s.at + 1] \in Nat
      BY <1>1, RadixFacts DEF Byte
    <2>2. CodeBit(s.count) \in Nat
      BY <1>1, BitFacts
    <2> DEFINE marked == [s.group EXCEPT ![1] = @ + CodeBit(s.count)]
    <2>3. marked \in Seq(Nat) /\ Len(marked) = Len(s.group)
      BY <1>1, <2>2
    <2>4. Joined(data, s, token) = Append(marked, data[s.at + 1])
      BY <1>2 DEF Joined, Literal, MIN_MATCH
    <2> HIDE DEF marked
    <2> QED BY <1>1, <2>1, <2>3, <2>4
  <1>3. CASE token \in Matches(data, s.at, reach)
    <2> DEFINE pair == EncodeReference(token.length, token.distance)
    <2>1. token.length \in MIN_MATCH .. MAX_MATCH /\ token.distance \in 1 .. MAX_DISTANCE
      BY <1>1, <1>3, MatchFacts
    <2>2. pair \in Seq(Nat)
      BY <2>1, PairFacts, BytesAreNaturals
    <2>3. ~(token.length < MIN_MATCH)
      <3> DEFINE l == token.length
      <3>1. l \in MIN_MATCH .. MAX_MATCH /\ MAX_MATCH \in Nat
        BY <2>1, EncoderSizes
      <3> HIDE DEF l
      <3>2. ~(l < MIN_MATCH)
        BY <3>1 DEF MIN_MATCH
      <3> QED BY <3>2 DEF l
    <2>4. Joined(data, s, token) = s.group \o pair
      BY <2>3 DEF Joined
    <2> HIDE DEF pair
    <2> QED BY <1>1, <2>2, <2>4, ConcatNaturals
  <1> QED BY <1>2, <1>3

\* A turn of the encoder goes on, and keeps what is done.
LEMMA StageGoesOn ==
    ASSUME NEW data \in Seq(Byte), NEW reach \in 0 .. MAX_DISTANCE,
           NEW s, StageSound(data, s, reach), s.at < Len(data)
    PROVE  LET t == NextStage(data, s, reach) IN
           StageSound(data, t, reach) /\ Precedes(s, t) /\ s.at < t.at
  <1> DEFINE c == Picked(data, s, reach)
             at == s.at + c.token.length
             group == Joined(data, s, c.token)
             t == NextStage(data, s, reach)
  <1>1. /\ c.token.length \in Nat /\ c.token.length >= 1 /\ at <= Len(data)
        /\ c.token = Literal \/ c.token \in Matches(data, s.at, reach)
        /\ c.held # NoToken => c.held \in Matches(data, at, reach)
    BY PickedFacts
  <1>2. group \in Seq(Nat) /\ Len(group) >= 1
    BY <1>1, JoinedFacts
  <1>3. /\ s.at \in Nat /\ s.done \in Seq(Nat) /\ Len(s.done) \in Nat
        /\ s.count \in Nat /\ s.count < TOKENS_PER_BLOCK
    BY StageFields DEF StageSound
  <1>4. at \in Nat /\ s.at < at
    BY <1>1, <1>3
  <1>5. t = IF s.count + 1 < TOKENS_PER_BLOCK
            THEN Stage(at, c.held, s.done, group, s.count + 1)
            ELSE Stage(at, c.held, s.done \o group, <<0>>, 0)
    BY <1>3 DEF NextStage
  <1> HIDE DEF c, at, group, t
  <1>6. c.held \in Token \cup {NoToken}
    BY <1>1, <1>4, MatchFacts
  <1>7. ASSUME NEW done \in Seq(Nat), NEW next \in Seq(Nat), Len(next) >= 1,
               NEW count \in 0 .. TOKENS_PER_BLOCK - 1,
               t = Stage(at, c.held, done, next, count),
               Len(s.done) <= Len(done), \A i \in 1 .. Len(s.done) : done[i] = s.done[i]
        PROVE  StageSound(data, t, reach) /\ Precedes(s, t) /\ s.at < t.at
    <2>1. PICK held \in Token \cup {NoToken} : held = c.held
      BY <1>6
    <2>2. t = Stage(at, held, done, next, count)
      BY <1>7, <2>1
    <2>3. /\ t \in StageType /\ t.at = at /\ t.held = held /\ t.done = done
          /\ t.group = next
      BY <1>4, <2>2 DEF Stage, StageType
    <2>4. StageSound(data, t, reach)
      BY <1>1, <1>7, <2>1, <2>3 DEF StageSound
    <2>5. Precedes(s, t)
      <3>1. s.at <= t.at
        BY <1>3, <1>4, <2>3
      <3>2. Len(s.done) <= Len(t.done) /\ \A i \in 1 .. Len(s.done) : t.done[i] = s.done[i]
        BY <1>7, <2>3
      <3> QED BY <3>1, <3>2 DEF Precedes
    <2> QED BY <1>4, <2>3, <2>4, <2>5
  <1>8. CASE s.count + 1 < TOKENS_PER_BLOCK
    <2>1. s.count + 1 \in 0 .. TOKENS_PER_BLOCK - 1
      BY <1>3, <1>8, EncoderSizes
    <2>2. t = Stage(at, c.held, s.done, group, s.count + 1)
      BY <1>5, <1>8
    <2>3. PICK count \in 0 .. TOKENS_PER_BLOCK - 1 : count = s.count + 1
      BY <2>1
    <2>4. PICK done \in Seq(Nat) : done = s.done
      BY <1>3
    <2>5. Len(s.done) <= Len(done) /\ \A i \in 1 .. Len(s.done) : done[i] = s.done[i]
      BY <1>3, <2>4
    <2>6. t = Stage(at, c.held, done, group, count)
      BY <2>2, <2>3, <2>4
    <2> QED BY <1>2, <1>7, <2>5, <2>6 DEF t
  <1>9. CASE ~(s.count + 1 < TOKENS_PER_BLOCK)
    <2>1. 0 \in 0 .. TOKENS_PER_BLOCK - 1 /\ <<0>> \in Seq(Nat) /\ Len(<<0>>) >= 1
      BY EncoderSizes
    <2>2. /\ s.done \o group \in Seq(Nat) /\ Len(s.done) <= Len(s.done \o group)
          /\ \A i \in 1 .. Len(s.done) : (s.done \o group)[i] = s.done[i]
      BY <1>2, <1>3, ConcatNaturals
    <2>3. t = Stage(at, c.held, s.done \o group, <<0>>, 0)
      BY <1>5, <1>9
    <2>4. PICK done \in Seq(Nat) : done = s.done \o group
      BY <2>2
    <2>5. PICK zero \in 0 .. TOKENS_PER_BLOCK - 1 : zero = 0
      BY <2>1
    <2>6. PICK next \in Seq(Nat) : next = <<0>> /\ Len(next) >= 1
      BY <2>1
    <2>7. t = Stage(at, c.held, done, next, zero)
      BY <2>3, <2>4, <2>5, <2>6
    <2>8. Len(s.done) <= Len(done) /\ \A i \in 1 .. Len(s.done) : done[i] = s.done[i]
      BY <2>2, <2>4
    <2> QED BY <1>7, <2>6, <2>7, <2>8 DEF t
  <1> QED BY <1>8, <1>9

LEMMA FirstStageSound ==
    ASSUME NEW data \in Seq(Byte), NEW reach \in 0 .. MAX_DISTANCE
    PROVE  StageSound(data, FirstStage, reach)
  <1>1. 0 \in 0 .. TOKENS_PER_BLOCK - 1 /\ <<>> \in Seq(Nat) /\ <<0>> \in Seq(Nat)
        /\ Len(<<0>>) >= 1 /\ 0 <= Len(data)
    BY EncoderSizes
  <1> QED BY <1>1 DEF StageSound, FirstStage, Stage, StageType

\* The stages are what their definition says: the recursion has a solution.
LEMMA StagesFacts ==
    ASSUME NEW data \in Seq(Byte), NEW reach \in 0 .. MAX_DISTANCE
    PROVE  /\ Stages(data, reach)[0] = FirstStage
           /\ \A n \in Nat :
                 /\ StageSound(data, Stages(data, reach)[n], reach)
                 /\ Stages(data, reach)[n + 1] = NextStage(data, Stages(data, reach)[n], reach)
  <1> DEFINE S == {s \in StageType : StageSound(data, s, reach)}
             step == [s \in S |-> NextStage(data, s, reach)]
             Solves(f) == f = [n \in Nat |-> IF n = 0 THEN FirstStage
                                              ELSE NextStage(data, f[n - 1], reach)]
  <1>1. \A s : StageSound(data, s, reach) => s \in S
    BY DEF StageSound
  <1>2. ASSUME NEW s \in S PROVE NextStage(data, s, reach) \in S
    <2>1. CASE s.at = Len(data)
      BY <2>1 DEF NextStage
    <2>2. CASE s.at # Len(data)
      <3>1. s.at < Len(data)
        <4> DEFINE a == s.at
                   n == Len(data)
        <4>1. a \in Nat /\ n \in Nat /\ a <= n /\ a # n
          BY <2>2, StageFields DEF StageSound
        <4> HIDE DEF a, n
        <4>2. a < n
          BY <4>1
        <4> QED BY <4>2 DEF a, n
      <3> QED BY <1>1, <3>1, StageGoesOn
    <2> QED BY <2>1, <2>2
  <1>3. FirstStage \in S
    BY <1>1, FirstStageSound
  <1>4. \A s \in S : StageSound(data, s, reach)
    OBVIOUS
  <1> HIDE DEF S
  <1>5. StaysIn(S, FirstStage, step)
    BY <1>2, <1>3 DEF StaysIn
  <1>6. PICK f : Iterates(S, FirstStage, step, f)
    BY <1>5, RecursionSolved
  <1>7. \A n \in Nat : f[n] = IF n = 0 THEN FirstStage ELSE NextStage(data, f[n - 1], reach)
    <2> TAKE n \in Nat
    <2>1. CASE n # 0
      <3>1. n - 1 \in Nat /\ (n - 1) + 1 = n
        BY <2>1
      <3>2. f[n] = step[f[n - 1]] /\ f[n - 1] \in S
        BY <1>6, <3>1 DEF Iterates
      <3> QED BY <2>1, <3>2
    <2> QED BY <1>6, <2>1 DEF Iterates
  <1>8. Solves(f)
    <2>1. f = [n \in Nat |-> f[n]]
      BY <1>6 DEF Iterates
    <2> QED BY <1>7, <2>1
  <1>9. Stages(data, reach) = CHOOSE g : Solves(g)
    BY DEF Stages
  <1> DEFINE stages == Stages(data, reach)
  <1> HIDE DEF Solves, step, stages
  <1>10. Solves(stages)
    BY <1>8, <1>9 DEF stages
  <1>11. stages[0] = FirstStage
         /\ \A n \in Nat : stages[n + 1] = NextStage(data, stages[n], reach)
    BY <1>10 DEF Solves
  <1> DEFINE T == {n \in Nat : stages[n] \in S}
  <1>12. 0 \in T /\ \A n \in Nat : n \in T => n + 1 \in T
    <2>1. ASSUME NEW n \in Nat, stages[n] \in S PROVE stages[n + 1] \in S
      BY <1>2, <1>11, <2>1
    <2>2. stages[0] \in S
      BY <1>3, <1>11
    <2> QED BY <2>1, <2>2
  <1> HIDE DEF T
  <1>13. Nat \subseteq T
    BY <1>12, CountingUp
  <1>14. \A n \in Nat : StageSound(data, stages[n], reach)
    BY <1>4, <1>13 DEF T
  <1> QED BY <1>11, <1>14 DEF stages

InStages(data, reach, s) == \E n \in Nat : s = Stages(data, reach)[n]

\* A stage is sound, and so is the next; an encoder at the end of the data stays.
LEMMA StageTurn ==
    ASSUME NEW data \in Seq(Byte), NEW reach \in 0 .. MAX_DISTANCE,
           NEW s, InStages(data, reach, s)
    PROVE  /\ StageSound(data, s, reach)
           /\ InStages(data, reach, NextStage(data, s, reach))
           /\ IF s.at = Len(data) THEN NextStage(data, s, reach) = s
              ELSE s.at < Len(data) /\ s.at < NextStage(data, s, reach).at
           /\ Precedes(s, NextStage(data, s, reach))
  <1>1. PICK n \in Nat : s = Stages(data, reach)[n]
    BY DEF InStages
  <1>2. StageSound(data, s, reach)
    BY <1>1, StagesFacts
  <1>3. InStages(data, reach, NextStage(data, s, reach))
    <2>1. NextStage(data, s, reach) = Stages(data, reach)[n + 1] /\ n + 1 \in Nat
      BY <1>1, StagesFacts
    <2> QED BY <2>1 DEF InStages
  <1>4. CASE s.at = Len(data)
    <2>1. NextStage(data, s, reach) = s
      BY <1>4 DEF NextStage
    <2>2. Precedes(s, s)
      BY <1>2, StageFields DEF StageSound, Precedes
    <2> QED BY <1>2, <1>3, <1>4, <2>1, <2>2
  <1>5. CASE s.at # Len(data)
    <2>1. s.at < Len(data)
      <3> DEFINE a == s.at
                 m == Len(data)
      <3>1. a \in Nat /\ m \in Nat /\ a <= m /\ a # m
        BY <1>2, <1>5, StageFields DEF StageSound
      <3> HIDE DEF a, m
      <3>2. a < m
        BY <3>1
      <3> QED BY <3>2 DEF a, m
    <2>2. Precedes(s, NextStage(data, s, reach)) /\ s.at < NextStage(data, s, reach).at
      BY <1>2, <2>1, StageGoesOn
    <2> QED BY <1>2, <1>3, <1>5, <2>1, <2>2
  <1> QED BY <1>4, <1>5

LEMMA PrecedesTrans ==
    ASSUME NEW r \in StageType, NEW s \in StageType, NEW t \in StageType,
           Precedes(r, s), Precedes(s, t)
    PROVE  Precedes(r, t)
  <1> DEFINE a == Len(r.done)
             b == Len(s.done)
             c == Len(t.done)
             u == r.at
             v == s.at
             w == t.at
  <1>1. /\ a \in Nat /\ b \in Nat /\ c \in Nat /\ a <= b /\ b <= c
        /\ u \in Nat /\ v \in Nat /\ w \in Nat /\ u <= v /\ v <= w
        /\ \A i \in 1 .. a : s.done[i] = r.done[i]
        /\ \A i \in 1 .. b : t.done[i] = s.done[i]
    BY StageFields DEF Precedes
  <1> HIDE DEF a, b, c, u, v, w
  <1>2. a <= c /\ u <= w /\ \A i \in 1 .. a : i \in 1 .. b
    BY <1>1
  <1>3. \A i \in 1 .. a : t.done[i] = r.done[i]
    BY <1>1, <1>2
  <1> QED BY <1>2, <1>3 DEF a, c, u, w, Precedes

\* After so many turns so many bytes have their tokens, or all of them.
LEMMA StagesAdvance ==
    ASSUME NEW data \in Seq(Byte), NEW reach \in 0 .. MAX_DISTANCE, NEW n \in Nat
    PROVE  n <= Stages(data, reach)[n].at \/ Stages(data, reach)[n].at = Len(data)
  <1> DEFINE stages == Stages(data, reach)
             T == {k \in Nat : k <= stages[k].at \/ stages[k].at = Len(data)}
  <1>1. stages[0] = FirstStage /\ FirstStage.at = 0
    BY StagesFacts DEF FirstStage, Stage
  <1>2. ASSUME NEW k \in Nat, k <= stages[k].at \/ stages[k].at = Len(data)
        PROVE  k + 1 <= stages[k + 1].at \/ stages[k + 1].at = Len(data)
    <2> DEFINE s == stages[k]
               t == stages[k + 1]
    <2>1. t = NextStage(data, s, reach) /\ InStages(data, reach, s) /\ InStages(data, reach, t)
      BY StagesFacts DEF InStages
    <2>2. s.at \in Nat /\ t.at \in Nat
      <3>1. StageSound(data, s, reach) /\ StageSound(data, t, reach)
        BY <2>1, StageTurn
      <3> HIDE DEF s, t
      <3> QED BY <3>1, StageFields DEF StageSound
    <2>3. s.at = Len(data) => t.at = Len(data)
      BY <2>1, StageTurn
    <2>4. s.at # Len(data) => s.at < t.at
      BY <2>1, StageTurn
    <2>5. k <= s.at \/ s.at = Len(data)
      BY <1>2
    <2> HIDE DEF s, t
    <2>6. k + 1 <= t.at \/ t.at = Len(data)
      <3> DEFINE a == s.at
                 b == t.at
      <3>1. /\ a \in Nat /\ b \in Nat /\ (a = Len(data) => b = Len(data))
            /\ a # Len(data) => a < b
            /\ k <= a \/ a = Len(data)
        BY <2>2, <2>3, <2>4, <2>5
      <3> HIDE DEF a, b
      <3>2. k + 1 <= b \/ b = Len(data)
        BY <3>1
      <3> QED BY <3>2 DEF b
    <2> QED BY <2>6 DEF t
  <1> HIDE DEF stages
  <1>3. 0 \in T /\ \A k \in Nat : k \in T => k + 1 \in T
    BY <1>1, <1>2
  <1> HIDE DEF T
  <1>4. n \in T
    BY <1>3, CountingUp
  <1> QED BY <1>4 DEF T, stages

\* From any stage on, the stages come later; from one at the end they are the same.
LEMMA StagesOnward ==
    ASSUME NEW data \in Seq(Byte), NEW reach \in 0 .. MAX_DISTANCE,
           NEW n \in Nat, NEW m \in Nat, n <= m
    PROVE  LET s == Stages(data, reach)[n]
               t == Stages(data, reach)[m]
           IN Precedes(s, t) /\ (s.at = Len(data) => t = s)
  <1> DEFINE stages == Stages(data, reach)
             Good(k) == /\ Precedes(stages[n], stages[n + k])
                        /\ stages[n].at = Len(data) => stages[n + k] = stages[n]
             T == {k \in Nat : Good(k)}
  <1>1. \A k \in Nat : /\ stages[k + 1] = NextStage(data, stages[k], reach)
                       /\ InStages(data, reach, stages[k]) /\ stages[k] \in StageType
    BY StagesFacts DEF InStages, StageSound
  <1> HIDE DEF stages
  <1>2. Good(0)
    <2>1. Precedes(stages[n], stages[n])
      <3>1. stages[n] \in StageType
        BY <1>1
      <3> QED BY <3>1, StageFields DEF Precedes
    <2>2. n + 0 = n
      OBVIOUS
    <2> QED BY <2>1, <2>2
  <1>3. ASSUME NEW k \in Nat, Good(k) PROVE Good(k + 1)
    <2>1. PICK j \in Nat : j = n + k
      OBVIOUS
    <2>2. PICK i \in Nat : i = j + 1 /\ i = n + (k + 1)
      BY <2>1
    <2>3. stages[i] = NextStage(data, stages[j], reach) /\ InStages(data, reach, stages[j])
          /\ stages[j] \in StageType /\ stages[i] \in StageType /\ stages[n] \in StageType
      BY <1>1, <2>2
    <2>4. Precedes(stages[j], stages[i])
      BY <2>3, StageTurn
    <2>5. Precedes(stages[n], stages[j]) /\ (stages[n].at = Len(data) => stages[j] = stages[n])
      BY <1>3, <2>1
    <2>6. Precedes(stages[n], stages[i])
      BY <2>3, <2>4, <2>5, PrecedesTrans
    <2>7. stages[n].at = Len(data) => stages[i] = stages[n]
      BY <2>3, <2>5, StageTurn
    <2> QED BY <2>2, <2>6, <2>7
  <1>4. 0 \in T /\ \A k \in Nat : k \in T => k + 1 \in T
    <2> HIDE DEF Good
    <2> QED BY <1>2, <1>3
  <1> HIDE DEF T
  <1>5. m - n \in Nat /\ n + (m - n) = m
    OBVIOUS
  <1>6. m - n \in T
    BY <1>4, <1>5, CountingUp
  <1>7. Good(m - n)
    <2> HIDE DEF Good
    <2> QED BY <1>6 DEF T
  <1> QED BY <1>5, <1>7 DEF stages

-----------------------------------------------------------------------------
(* What the reference encoder makes of the data, seen from a stage. *)

\* One sequence is how another begins.
Begins(s, t) == Len(s) <= Len(t) /\ \A i \in 1 .. Len(s) : t[i] = s[i]

LEMMA FinishedFacts ==
    ASSUME NEW s \in StageType
    PROVE  Finished(s) \in Seq(Nat) /\ Begins(s.done, Finished(s))
  <1>1. s.done \in Seq(Nat) /\ s.group \in Seq(Nat) /\ Len(s.done) \in Nat
    BY StageFields
  <1>2. CASE s.count = 0
    BY <1>1, <1>2 DEF Finished, Begins
  <1>3. CASE s.count # 0
    <2>1. Finished(s) = s.done \o s.group
      BY <1>3 DEF Finished
    <2>2. PICK a \in Seq(Nat) : a = s.done
      BY <1>1
    <2>3. PICK b \in Seq(Nat) : b = s.group
      BY <1>1
    <2>4. /\ a \o b \in Seq(Nat) /\ Len(a \o b) = Len(a) + Len(b)
          /\ Len(a) \in Nat /\ Len(b) \in Nat
          /\ \A i \in 1 .. Len(a) : (a \o b)[i] = a[i]
      BY ConcatNaturals
    <2>5. Len(a) <= Len(a \o b)
      BY <2>4
    <2> QED BY <2>1, <2>2, <2>3, <2>4, <2>5 DEF Begins
  <1> QED BY <1>2, <1>3

LEMMA StageSays ==
    ASSUME NEW data \in Seq(Byte), NEW reach \in 0 .. MAX_DISTANCE,
           NEW s, InStages(data, reach, s)
    PROVE  /\ RefEncode(data, reach) \in Seq(Nat)
           /\ Begins(s.done, RefEncode(data, reach))
           /\ s.at = Len(data) => RefEncode(data, reach) = Finished(s)
  <1> DEFINE l == Len(data)
             z == Stages(data, reach)[l]
             all == RefEncode(data, reach)
  <1>1. PICK n \in Nat : s = Stages(data, reach)[n]
    BY DEF InStages
  <1>2. l \in Nat /\ InStages(data, reach, z)
    BY DEF InStages
  <1>3. s \in StageType /\ z \in StageType /\ z.at \in Nat /\ z.at <= l
    <2>1. StageSound(data, s, reach) /\ StageSound(data, z, reach)
      BY <1>2, StageTurn
    <2> HIDE DEF z
    <2> QED BY <2>1, StageFields DEF StageSound
  <1>4. z.at = l
    <2>1. l <= z.at \/ z.at = l
      <3> HIDE DEF l
      <3>1. l <= Stages(data, reach)[l].at \/ Stages(data, reach)[l].at = Len(data)
        BY <1>2, StagesAdvance
      <3> QED BY <3>1 DEF l
    <2> DEFINE a == z.at
    <2>2. a \in Nat /\ a <= l /\ (l <= a \/ a = l)
      BY <1>3, <2>1
    <2> HIDE DEF a, l
    <2>3. a = l
      BY <1>2, <2>2
    <2> QED BY <2>3 DEF a
  <1>5. all = Finished(z)
    BY DEF RefEncode
  <1>6. CASE l <= n
    <2>1. s = z
      BY <1>1, <1>2, <1>4, <1>6, StagesOnward
    <2> QED BY <1>3, <1>5, <2>1, FinishedFacts
  <1>7. CASE n <= l
    <2>1. Precedes(s, z) /\ (s.at = l => z = s)
      BY <1>1, <1>2, <1>7, StagesOnward
    <2> HIDE DEF z
    <2>2. Begins(s.done, z.done) /\ Begins(z.done, all) /\ all \in Seq(Nat)
      BY <1>3, <1>5, <2>1, FinishedFacts DEF Precedes, Begins
    <2>3. Begins(s.done, all)
      <3> DEFINE a == s.done
                 b == z.done
      <3>1. Len(a) \in Nat /\ Len(b) \in Nat /\ Len(all) \in Nat
            /\ Begins(a, b) /\ Begins(b, all)
        BY <1>3, <2>2, StageFields
      <3> HIDE DEF a, b, all
      <3>2. Begins(a, all)
        BY <3>1 DEF Begins
      <3> QED BY <3>2 DEF a
    <2> QED BY <1>5, <2>1, <2>2, <2>3
  <1>8. l <= n \/ n <= l
    BY <1>2
  <1> QED BY <1>6, <1>7, <1>8

\* The header goes before all of it.
LEMMA BeginsBehind ==
    ASSUME NEW h \in Seq(Nat), NEW s \in Seq(Nat), NEW t \in Seq(Nat), Begins(s, t)
    PROVE  Begins(h \o s, h \o t)
  <1>1. /\ Len(s) \in Nat /\ Len(t) \in Nat /\ Len(h) \in Nat /\ Len(s) <= Len(t)
        /\ Len(h \o s) = Len(h) + Len(s) /\ Len(h \o t) = Len(h) + Len(t)
    BY ConcatNaturals DEF Begins
  <1>2. ASSUME NEW i \in 1 .. Len(h) + Len(s) PROVE (h \o t)[i] = (h \o s)[i]
    <2>1. CASE i <= Len(h)
      BY <1>1, <2>1
    <2>2. CASE i > Len(h)
      <3>1. i - Len(h) \in 1 .. Len(s)
        BY <1>1, <2>2
      <3>2. t[i - Len(h)] = s[i - Len(h)]
        BY <3>1 DEF Begins
      <3>3. (h \o s)[i] = s[i - Len(h)] /\ (h \o t)[i] = t[i - Len(h)]
        BY <1>1, <2>2
      <3> QED BY <3>2, <3>3
    <2> QED BY <1>1, <2>1, <2>2
  <1> QED BY <1>1, <1>2 DEF Begins

LEMMA BeginningStretch ==
    ASSUME NEW t \in Seq(Nat), NEW n \in Nat, n <= Len(t)
    PROVE  LET u == SubSeq(t, 1, n) IN
           u \in Seq(Nat) /\ Len(u) = n /\ \A i \in 1 .. n : u[i] = t[i]
  <1>1. PICK m \in Nat : m = 0
    OBVIOUS
  <1>2. LET u == SubSeq(t, m + 1, m + n) IN
        u \in Seq(Nat) /\ Len(u) = n /\ \A i \in 1 .. n : u[i] = t[m + i]
    BY <1>1
  <1> QED BY <1>1, <1>2

LEMMA BeginsWhole ==
    ASSUME NEW s \in Seq(Nat), NEW t \in Seq(Nat)
    PROVE  /\ Begins(s, s \o t) /\ Begins(s, s)
           /\ Begins(s, t) => Len(s) <= Len(t) /\ s = SubSeq(t, 1, Len(s))
  <1>1. Begins(s, s \o t) /\ Begins(s, s)
    BY ConcatNaturals DEF Begins
  <1>2. ASSUME Begins(s, t) PROVE Len(s) <= Len(t) /\ s = SubSeq(t, 1, Len(s))
    <2>1. PICK n \in Nat : n = Len(s)
      OBVIOUS
    <2>2. n <= Len(t) /\ \A i \in 1 .. n : t[i] = s[i]
      BY <1>2, <2>1 DEF Begins
    <2> DEFINE u == SubSeq(t, 1, n)
    <2>3. u \in Seq(Nat) /\ Len(u) = n /\ \A i \in 1 .. n : u[i] = t[i]
      BY <2>2, BeginningStretch
    <2> HIDE DEF u
    <2>4. u = [i \in 1 .. n |-> u[i]] /\ s = [i \in 1 .. n |-> s[i]]
      BY <2>1, <2>3
    <2>5. u = s
      BY <2>2, <2>3, <2>4
    <2> QED BY <2>1, <2>2, <2>5 DEF u
  <1> QED BY <1>1, <1>2
=============================================================================
