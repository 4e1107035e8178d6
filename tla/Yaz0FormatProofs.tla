-------------------------- MODULE Yaz0FormatProofs --------------------------
(***************************************************************************)
(* What the byte layouts of Yaz0Format guarantee for every size of byte:   *)
(* a header and a length-distance pair are read back as they were written, *)
(* and whatever bytes arrive, a pair names a distance within reach and a   *)
(* length of at least MIN_MATCH.                                           *)
(***************************************************************************)
EXTENDS Yaz0Encodings, TLAPS

(***************************************************************************)
(* Division and remainder by a positive number, which the C code spells    *)
(* with shifts and masks.                                                  *)
(***************************************************************************)
LEMMA DivMod ==
    ASSUME NEW a \in Nat, NEW n \in Nat \ {0}
    PROVE  /\ a \div n \in Nat
           /\ a % n \in 0 .. n - 1
           /\ a = n * (a \div n) + (a % n)
  OBVIOUS

\* Quotient and remainder are the only way to split a number.
LEMMA DivModUnique ==
    ASSUME NEW n \in Nat \ {0}, NEW q \in Nat, NEW r \in 0 .. n - 1
    PROVE  (n * q + r) \div n = q /\ (n * q + r) % n = r
  OBVIOUS

LEMMA SmallNumber ==
    ASSUME NEW n \in Nat \ {0}, NEW r \in 0 .. n - 1
    PROVE  r \div n = 0 /\ r % n = r
  OBVIOUS

\* Two positions less than n apart fall into different slots of a ring of n.
LEMMA RingSlotsDiffer ==
    ASSUME NEW n \in Nat \ {0}, NEW a \in Nat, NEW b \in Nat, b < a, a - b < n
    PROVE  a % n # b % n
  <1> DEFINE x == a \div n
             y == b \div n
  <1>1. x \in Nat /\ y \in Nat /\ a = n * x + (a % n) /\ b = n * y + (b % n)
        /\ a % n \in 0 .. n - 1 /\ b % n \in 0 .. n - 1
    BY DivMod
  <1> SUFFICES ASSUME a % n = b % n PROVE FALSE
    OBVIOUS
  <1>2. n * x - n * y > 0 /\ n * x - n * y < n
    BY <1>1
  <1> HIDE DEF x, y
  <1>3. CASE x <= y
    <2>1. n * x <= n * y
      BY <1>1, <1>3
    <2> QED BY <2>1, <1>1, <1>2
  <1>4. CASE x >= y + 1
    <2>1. n * x >= n * (y + 1)
      BY <1>1, <1>4
    <2>2. n * (y + 1) = n * y + n
      BY <1>1
    <2> QED BY <2>1, <2>2, <1>1, <1>2
  <1> QED BY <1>1, <1>3, <1>4

-----------------------------------------------------------------------------

LEMMA RadixFacts ==
    /\ NIBBLE \in Nat \ {0} /\ NIBBLE >= 2
    /\ Radix \in Nat \ {0} /\ Radix >= 4
  <1>1. NIBBLE * NIBBLE >= 2 * NIBBLE
    BY FormatAssumption
  <1> QED BY <1>1, FormatAssumption DEF Radix

LEMMA DivBelow ==
    ASSUME NEW n \in Nat \ {0}, NEW m \in Nat, NEW a \in Nat, a < n * m
    PROVE  a \div n \in 0 .. m - 1
  <1> DEFINE q == a \div n
  <1>1. q \in Nat /\ a = n * q + (a % n) /\ a % n \in 0 .. n - 1
    BY DivMod
  <1> HIDE DEF q
  <1>2. CASE q >= m
    <2>1. n * q >= n * m
      BY <1>1, <1>2
    <2> QED BY <2>1, <1>1
  <1> QED BY <1>1, <1>2 DEF q

(***************************************************************************)
(* A size that fits the field of the header is read back by                *)
(* yaz0_read_header as yaz0_write_header wrote it (yaz0.c: read_be32,      *)
(* write_be32).                                                            *)
(***************************************************************************)
THEOREM HeaderRoundTrip ==
    ASSUME NEW size \in Nat, size < Radix * Radix
    PROVE  LET header == yaz0_write_header(size) IN
           /\ Len(header) = HEADER_SIZE /\ header[1] = MAGIC
           /\ read_be32(header[2], header[3]) = size
  <1> DEFINE hi == size \div Radix
             lo == size % Radix
  <1>1. hi \in 0 .. Radix - 1 /\ lo \in 0 .. Radix - 1 /\ size = Radix * hi + lo
    <2>1. hi \in 0 .. Radix - 1
      BY RadixFacts, DivBelow
    <2> QED BY <2>1, RadixFacts, DivMod
  <1>2. hi % Radix = hi
    BY <1>1, RadixFacts, SmallNumber
  <1> HIDE DEF hi, lo
  <1>3. LET h == yaz0_write_header(size) IN
        Len(h) = 3 /\ h[1] = MAGIC /\ h[2] = hi /\ h[3] = lo
    <2>1. write_be32(size) = <<hi, lo>>
      BY <1>2 DEF write_be32, hi, lo
    <2>2. <<MAGIC>> \in Seq(Nat) /\ <<hi, lo>> \in Seq(Nat)
      BY <1>1 DEF MAGIC
    <2> QED BY <2>1, <2>2 DEF yaz0_write_header
  <1>4. hi * Radix + lo = size
    BY <1>1, RadixFacts
  <1> QED BY <1>3, <1>4 DEF HEADER_SIZE, read_be32

(***************************************************************************)
(* Whatever bytes make up a complete pair, the distance decompress.c       *)
(* derives from it is within the ring and the length is one a copy may     *)
(* have: the decoder only has to compare them with what it has produced    *)
(* and with what it owes.                                                  *)
(***************************************************************************)
THEOREM ReferenceInRange ==
    ASSUME NEW r \in Seq(Byte), ReferenceComplete(r)
    PROVE  /\ ReferenceDistance(r) \in 1 .. NIBBLE * Radix
           /\ ReferenceLength(r) \in Nat
           /\ ReferenceLength(r) >= MIN_MATCH
  <1>1. r[1] \in Nat /\ r[2] \in 0 .. Radix - 1
        /\ r[1] \div NIBBLE \in Nat /\ r[1] % NIBBLE \in 0 .. NIBBLE - 1
    <2>1. r[1] \in Byte /\ r[2] \in Byte
      BY DEF ReferenceComplete
    <2>2. r[1] \in Nat /\ r[2] \in 0 .. Radix - 1
      BY <2>1, RadixFacts DEF Byte
    <2> QED BY <2>2, RadixFacts, DivMod
  <1>2. ReferenceDistance(r) \in 1 .. NIBBLE * Radix
    <2> DEFINE top == r[1] % NIBBLE
    <2>1. top \in 0 .. NIBBLE - 1
      BY <1>1
    <2> HIDE DEF top
    <2>2. top * Radix \in Nat /\ top * Radix <= (NIBBLE - 1) * Radix
      BY <2>1, RadixFacts
    <2>3. (NIBBLE - 1) * Radix = NIBBLE * Radix - Radix
      BY RadixFacts
    <2>4. NIBBLE * Radix \in Nat
      BY RadixFacts
    <2>5. ReferenceDistance(r) = top * Radix + r[2] + 1
      BY DEF ReferenceDistance, DISTANCE_BIAS, top
    <2>6. r[2] \in Nat /\ r[2] <= Radix - 1 /\ Radix \in Nat
      BY <1>1, RadixFacts
    <2> DEFINE scaled == top * Radix
               all    == NIBBLE * Radix
    <2>7. /\ scaled \in Nat /\ all \in Nat /\ scaled <= all - Radix
          /\ ReferenceDistance(r) = scaled + r[2] + 1
      BY <2>2, <2>3, <2>4, <2>5
    <2> HIDE DEF scaled, all
    <2>8. ReferenceDistance(r) \in 1 .. all
      BY <2>6, <2>7
    <2> QED BY <2>8 DEF all
  <1>3. CASE r[1] \div NIBBLE # 0
    BY <1>1, <1>2, <1>3 DEF ReferenceLength, SHORT_LENGTH_BIAS, MIN_MATCH
  <1>4. CASE r[1] \div NIBBLE = 0
    <2>1. r[3] \in Nat
      BY <1>4, RadixFacts DEF ReferenceComplete, Byte
    <2> QED BY <2>1, <1>2, <1>4, RadixFacts
            DEF ReferenceLength, LONG_LENGTH_BIAS, SHORT_LENGTH_BIAS, MIN_MATCH
  <1> QED BY <1>3, <1>4

(***************************************************************************)
(* The pair that emit_token of compress.c writes for a match is the match  *)
(* that decompress_reference reads: the same distance and length, complete *)
(* at its last byte and at no byte before.                                 *)
(***************************************************************************)
THEOREM ReferenceRoundTrip ==
    ASSUME NEW length \in Nat, NEW distance \in Nat,
           MIN_MATCH <= length, length < LONG_LENGTH_BIAS + Radix,
           1 <= distance, distance <= NIBBLE * Radix
    PROVE  LET r == EncodeReference(length, distance) IN
           /\ r \in Seq(Byte) /\ ReferenceComplete(r)
           /\ ~ReferenceComplete(SubSeq(r, 1, Len(r) - 1))
           /\ ReferenceDistance(r) = distance
           /\ ReferenceLength(r) = length
  <1> DEFINE d == distance - DISTANCE_BIAS
             hi == d \div Radix
             lo == d % Radix
  <1>1. d \in Nat /\ d + 1 = distance /\ d < Radix * NIBBLE
    <2>1. NIBBLE * Radix \in Nat /\ Radix * NIBBLE = NIBBLE * Radix
      BY RadixFacts
    <2> QED BY <2>1 DEF DISTANCE_BIAS
  <1>2. hi \in 0 .. NIBBLE - 1 /\ lo \in 0 .. Radix - 1 /\ d = Radix * hi + lo
    <2> HIDE DEF d
    <2>1. hi \in 0 .. NIBBLE - 1
      BY <1>1, RadixFacts, DivBelow
    <2> QED BY <2>1, <1>1, RadixFacts, DivMod
  <1>3. hi * Radix + lo + 1 = distance
    BY <1>1, <1>2, RadixFacts
  <1>4. CASE length < LONG_LENGTH_BIAS
    <2> DEFINE k == length - SHORT_LENGTH_BIAS
               b == k * NIBBLE + hi
    <2>1. k \in 1 .. NIBBLE - 1 /\ k + 2 = length
      BY <1>4, RadixFacts DEF LONG_LENGTH_BIAS, SHORT_LENGTH_BIAS, MIN_MATCH
    <2>2. b \div NIBBLE = k /\ b % NIBBLE = hi
      <3>1. b = NIBBLE * k + hi
        BY <2>1, <1>2, RadixFacts
      <3>2. k \in Nat /\ hi \in 0 .. NIBBLE - 1
        BY <2>1, <1>2
      <3> HIDE DEF b, k, hi
      <3> QED BY <3>1, <3>2, RadixFacts, DivModUnique
    <2>3. b \in Byte
      <3> HIDE DEF hi, k
      <3>1. k * NIBBLE \in Nat /\ k * NIBBLE <= (NIBBLE - 1) * NIBBLE
        BY <2>1, RadixFacts
      <3>2. (NIBBLE - 1) * NIBBLE = Radix - NIBBLE
        BY RadixFacts DEF Radix
      <3> QED BY <3>1, <3>2, <1>2, RadixFacts DEF Byte
    <2>4. EncodeReference(length, distance) = <<b, lo>>
      BY <1>4 DEF EncodeReference
    <2> HIDE DEF b, k, hi, lo, d
    <2>5. lo \in Byte
      BY <1>2 DEF Byte
    <2>6. /\ <<b, lo>> \in Seq(Byte) /\ ReferenceComplete(<<b, lo>>)
          /\ Len(SubSeq(<<b, lo>>, 1, Len(<<b, lo>>) - 1)) = 1
      BY <2>1, <2>2, <2>3, <2>5 DEF ReferenceComplete
    <2>7. /\ ReferenceDistance(<<b, lo>>) = distance
          /\ ReferenceLength(<<b, lo>>) = length
      BY <2>1, <2>2, <1>3 DEF ReferenceDistance, ReferenceLength, DISTANCE_BIAS,
                              SHORT_LENGTH_BIAS
    <2> QED BY <2>4, <2>6, <2>7 DEF ReferenceComplete
  <1>5. CASE length >= LONG_LENGTH_BIAS
    <2> DEFINE k == length - LONG_LENGTH_BIAS
    <2>1. k \in 0 .. Radix - 1 /\ k + LONG_LENGTH_BIAS = length
      BY <1>5, RadixFacts DEF LONG_LENGTH_BIAS, SHORT_LENGTH_BIAS
    <2>2. hi \div NIBBLE = 0 /\ hi % NIBBLE = hi
      <3> HIDE DEF hi
      <3> QED BY <1>2, RadixFacts, SmallNumber
    <2>3. EncodeReference(length, distance) = <<hi, lo, k>>
      BY <1>5, RadixFacts DEF EncodeReference, LONG_LENGTH_BIAS, SHORT_LENGTH_BIAS
    <2>4. hi \in Byte /\ lo \in Byte /\ k \in Byte
      <3>1. NIBBLE <= Radix
        <4>1. NIBBLE * NIBBLE >= 1 * NIBBLE
          BY RadixFacts
        <4> QED BY <4>1, RadixFacts DEF Radix
      <3> HIDE DEF hi, lo, k
      <3> QED BY <3>1, <1>2, <2>1, RadixFacts DEF Byte
    <2> HIDE DEF hi, lo, k, d
    <2>5. /\ <<hi, lo, k>> \in Seq(Byte) /\ ReferenceComplete(<<hi, lo, k>>)
          /\ ~ReferenceComplete(SubSeq(<<hi, lo, k>>, 1, Len(<<hi, lo, k>>) - 1))
      <3>1. <<hi, lo, k>> \in Seq(Byte) /\ Len(<<hi, lo, k>>) = 3
        BY <2>4
      <3> DEFINE short == SubSeq(<<hi, lo, k>>, 1, 2)
      <3>2. Len(short) = 2 /\ short[1] = hi
        BY <2>4
      <3> HIDE DEF short
      <3>3. ~ReferenceComplete(short)
        BY <3>2, <2>2 DEF ReferenceComplete
      <3> QED BY <3>1, <3>3 DEF ReferenceComplete, short
    <2>6. /\ ReferenceDistance(<<hi, lo, k>>) = distance
          /\ ReferenceLength(<<hi, lo, k>>) = length
      BY <2>1, <2>2, <1>3 DEF ReferenceDistance, ReferenceLength, DISTANCE_BIAS
    <2> QED BY <2>3, <2>5, <2>6
  <1> QED BY <1>4, <1>5, RadixFacts DEF LONG_LENGTH_BIAS, SHORT_LENGTH_BIAS

-----------------------------------------------------------------------------
(***************************************************************************)
(* The code byte.                                                          *)
(***************************************************************************)

LEMMA FormatSizes ==
    /\ TOKENS_PER_BLOCK \in Nat \ {0}
    /\ MAX_DISTANCE \in Nat /\ MAX_DISTANCE <= NIBBLE * Radix /\ NIBBLE * Radix \in Nat
    /\ MAX_MATCH \in Nat /\ MAX_MATCH < LONG_LENGTH_BIAS + Radix
  BY FormatAssumption, RadixFacts

\* Every bit is half of what the tokens from its own on make up.
LEMMA BitFacts ==
    ASSUME NEW index \in 0 .. TOKENS_PER_BLOCK - 1
    PROVE  /\ CodeBit(index) \in Nat \ {0}
           /\ Weight(index) = 2 * CodeBit(index)
           /\ Weight(index + 1) = CodeBit(index)
  <1>1. CodeBit(index) \in Nat \ {0}
    BY CodeByteAssumption, RadixFacts
  <1>2. CASE index = 0
    BY <1>1, <1>2, CodeByteAssumption, RadixFacts DEF Weight
  <1>3. CASE index # 0
    <2>1. index \in 1 .. TOKENS_PER_BLOCK - 1 /\ index + 1 - 1 = index /\ index + 1 # 0
      BY <1>3, FormatSizes
    <2>2. CodeBit(index) * 2 = CodeBit(index - 1)
      BY <2>1, CodeByteAssumption
    <2> QED BY <1>1, <1>3, <2>1, <2>2 DEF Weight
  <1> QED BY <1>2, <1>3

LEMMA WeightInRange ==
    ASSUME NEW index \in 0 .. TOKENS_PER_BLOCK
    PROVE  Weight(index) \in 1 .. Radix
  <1>1. CASE index = 0
    BY <1>1, RadixFacts DEF Weight
  <1>2. CASE index # 0
    <2>1. index - 1 \in 0 .. TOKENS_PER_BLOCK - 1
      BY <1>2, FormatSizes
    <2> QED BY <1>2, <2>1, CodeByteAssumption, RadixFacts DEF Weight
  <1> QED BY <1>1, <1>2

(***************************************************************************)
(* decompress.c shifts the code byte one bit to the left at every token    *)
(* and looks at the highest; compress.c sets its bits one by one.  The     *)
(* shifted byte, scaled down, is what the tokens to come still contribute. *)
(***************************************************************************)
LEMMA MaskStep ==
    ASSUME NEW index \in 0 .. TOKENS_PER_BLOCK - 1, NEW mask \in Byte,
           NEW rest \in Nat, mask * Weight(index) = Radix * rest
    PROVE  LET bit == CodeBit(index) IN
           /\ NextToken(mask) \in Byte
           /\ IsLiteral(mask) <=> rest >= bit
           /\ NextToken(mask) * Weight(index + 1)
                = Radix * (IF IsLiteral(mask) THEN rest - bit ELSE rest)
  <1> DEFINE bit == CodeBit(index)
             high == CodeBit(0)
  <1>1. /\ bit \in Nat \ {0} /\ Weight(index) = 2 * bit /\ Weight(index + 1) = bit
        /\ high \in Nat \ {0} /\ Radix = 2 * high /\ Radix \in Nat \ {0}
        /\ mask \in Nat /\ mask < Radix
    <2>1. 0 \in 0 .. TOKENS_PER_BLOCK - 1
      BY FormatSizes
    <2>2. high \in Nat \ {0} /\ Radix = 2 * high
      BY <2>1, BitFacts, CodeByteAssumption, RadixFacts
    <2> QED BY <2>2, BitFacts, RadixFacts DEF Byte
  <1>2. IsLiteral(mask) <=> mask >= high
    BY <1>1 DEF IsLiteral
  <1> HIDE DEF bit, high
  <1>3. mask * bit = high * rest
    <2>1. 2 * (mask * bit) = 2 * (high * rest)
      BY <1>1
    <2>2. mask * bit \in Nat /\ high * rest \in Nat
      BY <1>1
    <2> DEFINE a == mask * bit
               b == high * rest
    <2> HIDE DEF a, b
    <2>3. a \in Nat /\ b \in Nat /\ 2 * a = 2 * b
      BY <2>1, <2>2 DEF a, b
    <2>4. a = b
      BY <2>3
    <2> QED BY <2>4 DEF a, b
  <1>4. CASE mask >= high
    <2>1. mask * bit >= high * bit
      BY <1>1, <1>4
    <2>2. rest >= bit
      <3>1. CASE rest < bit
        <4>1. high * rest < high * bit
          BY <1>1, <3>1
        <4> QED BY <1>1, <1>3, <2>1, <4>1
      <3> QED BY <1>1, <3>1
    <2> DEFINE low == mask * 2 - Radix
    <2>3. mask * 2 = Radix * 1 + low /\ low \in 0 .. Radix - 1
      BY <1>1, <1>4
    <2>4. NextToken(mask) = low
      <3> HIDE DEF low
      <3>1. (Radix * 1 + low) % Radix = low
        BY <1>1, <2>3, DivModUnique
      <3> QED BY <2>3, <3>1 DEF NextToken
    <2>5. (mask * 2 - Radix) * bit = Radix * (rest - bit)
      <3>1. (mask * 2 - Radix) * bit = 2 * (mask * bit) - Radix * bit
        BY <1>1
      <3>2. Radix * (rest - bit) = 2 * (high * rest) - Radix * bit
        BY <1>1
      <3> QED BY <1>3, <3>1, <3>2
    <2> QED BY <1>1, <1>2, <1>4, <2>2, <2>3, <2>4, <2>5 DEF bit, Byte
  <1>5. CASE mask < high
    <2>1. mask * bit < high * bit
      BY <1>1, <1>5
    <2>2. rest < bit
      <3>1. CASE rest >= bit
        <4>1. high * rest >= high * bit
          BY <1>1, <3>1
        <4> QED BY <1>1, <1>3, <2>1, <4>1
      <3> QED BY <1>1, <3>1
    <2>3. mask * 2 \in 0 .. Radix - 1
      BY <1>1, <1>5
    <2>4. NextToken(mask) = mask * 2
      BY <1>1, <2>3, SmallNumber DEF NextToken
    <2>5. (mask * 2) * bit = Radix * rest
      <3>1. (mask * 2) * bit = 2 * (mask * bit)
        BY <1>1
      <3>2. Radix * rest = 2 * (high * rest)
        BY <1>1
      <3> QED BY <1>3, <3>1, <3>2
    <2> QED BY <1>1, <1>2, <1>5, <2>2, <2>3, <2>4, <2>5 DEF bit, Byte
  <1> QED BY <1>1, <1>4, <1>5

-----------------------------------------------------------------------------
(* Sequences of bytes. *)

LEMMA ConcatParts ==
    ASSUME NEW s \in Seq(Byte), NEW t \in Seq(Byte)
    PROVE  /\ s \o t \in Seq(Byte) /\ Len(s \o t) = Len(s) + Len(t)
           /\ \A i \in 1 .. Len(s) : (s \o t)[i] = s[i]
           /\ \A k \in 1 .. Len(t) : (s \o t)[Len(s) + k] = t[k]
  OBVIOUS

LEMMA ConcatTwice ==
    ASSUME NEW s \in Seq(Byte), NEW t \in Seq(Byte), NEW u \in Seq(Byte)
    PROVE  (s \o t) \o u = s \o (t \o u)
  OBVIOUS

LEMMA StretchParts ==
    ASSUME NEW t \in Seq(Byte), NEW m \in Nat, NEW n \in Nat, m + n <= Len(t)
    PROVE  LET s == SubSeq(t, m + 1, m + n) IN
           s \in Seq(Byte) /\ Len(s) = n /\ \A i \in 1 .. n : s[i] = t[m + i]
  OBVIOUS

\* A stretch from the middle of a sequence and the rest of it.
LEMMA Rejoined ==
    ASSUME NEW s \in Seq(Byte), NEW t \in Seq(Byte), NEW m \in Nat, NEW n \in Nat,
           m + n <= Len(t)
    PROVE  (s \o SubSeq(t, m + 1, m + n)) \o SubSeq(t, (m + n) + 1, Len(t))
              = s \o SubSeq(t, m + 1, Len(t))
  <1> DEFINE a == SubSeq(t, m + 1, m + n)
             b == SubSeq(t, (m + n) + 1, Len(t))
             c == SubSeq(t, m + 1, Len(t))
             r == Len(t) - (m + n)
  <1>1. /\ r \in Nat
        /\ a \in Seq(Byte) /\ Len(a) = n /\ \A i \in 1 .. n : a[i] = t[m + i]
        /\ b \in Seq(Byte) /\ Len(b) = r /\ \A i \in 1 .. r : b[i] = t[(m + n) + i]
        /\ c \in Seq(Byte) /\ Len(c) = n + r /\ \A i \in 1 .. n + r : c[i] = t[m + i]
    OBVIOUS
  <1> HIDE DEF a, b, c, r
  <1>2. a \o b = c
    <2> DEFINE ab == a \o b
    <2>1. /\ ab \in Seq(Byte) /\ Len(ab) = n + r
          /\ \A i \in 1 .. n : ab[i] = a[i]
          /\ \A i \in 1 .. r : ab[n + i] = b[i]
      <3>1. a \in Seq(Byte) /\ b \in Seq(Byte) /\ Len(a) = n /\ Len(b) = r
        BY <1>1
      <3>2. /\ ab \in Seq(Byte) /\ Len(ab) = Len(a) + Len(b)
            /\ \A i \in 1 .. Len(a) : ab[i] = a[i]
            /\ \A i \in 1 .. Len(b) : ab[Len(a) + i] = b[i]
        BY <3>1, ConcatParts
      <3> QED BY <3>1, <3>2
    <2> HIDE DEF ab
    <2>2. ASSUME NEW i \in 1 .. n + r PROVE ab[i] = c[i]
      <3>1. CASE i <= n
        <4>1. i \in 1 .. n
          BY <2>2, <3>1
        <4> QED BY <1>1, <2>1, <4>1
      <3>2. CASE i > n
        <4>1. PICK k \in 1 .. r : i = n + k
          <5>1. i - n \in 1 .. r /\ i = n + (i - n)
            BY <1>1, <3>2
          <5> QED BY <5>1
        <4>2. ab[i] = t[(m + n) + k]
          BY <1>1, <2>1, <4>1
        <4>3. c[i] = t[m + (n + k)] /\ m + (n + k) = (m + n) + k
          BY <1>1, <4>1
        <4> QED BY <4>2, <4>3
      <3> QED BY <3>1, <3>2
    <2>3. ab = c
      BY <1>1, <2>1, <2>2
    <2> QED BY <2>3 DEF ab
  <1>3. (s \o a) \o b = s \o (a \o b)
    BY <1>1, ConcatTwice
  <1> QED BY <1>2, <1>3 DEF a, b, c

\* A bit is set in the first byte of a block, and a byte put behind it.
Marks(s, t, bit, b, next) ==
    /\ s \in Seq(Byte) /\ t \in Seq(Byte) /\ Len(t) >= 1 /\ b \in Byte
    /\ bit \in Nat /\ t[1] + bit < Radix
    /\ next = Append([t EXCEPT ![1] = @ + bit], b)

LEMMA FirstByteChanged ==
    ASSUME NEW s, NEW t, NEW b, NEW bit, NEW next, Marks(s, t, bit, b, next)
    PROVE  /\ next \in Seq(Byte) /\ next[1] = t[1] + bit
           /\ s \o next \in Seq(Byte) /\ Len(s \o next) = Len(s \o t) + 1
           /\ \A i \in 1 .. Len(s \o t) : i # Len(s) + 1 => (s \o next)[i] = (s \o t)[i]
           /\ (s \o next)[Len(s) + 1] = t[1] + bit
           /\ (s \o next)[Len(s \o next)] = b
  <1> DEFINE n == Len(s)
             m == Len(t)
             c == t[1] + bit
             marked == [t EXCEPT ![1] = c]
  <1>0. /\ s \in Seq(Byte) /\ t \in Seq(Byte) /\ Len(t) >= 1 /\ b \in Byte
        /\ bit \in Nat /\ t[1] + bit < Radix
        /\ next = Append([t EXCEPT ![1] = @ + bit], b)
    BY DEF Marks
  <1> USE <1>0
  <1>1. /\ n \in Nat /\ m \in Nat /\ m >= 1
        /\ c \in Byte
    <2>1. t[1] \in Byte /\ bit \in Nat /\ t[1] + bit < Radix
      OBVIOUS
    <2>2. c \in 0 .. Radix - 1
      BY ONLY <2>1, RadixFacts DEF Byte, c
    <2>3. m >= 1
      OBVIOUS
    <2> QED BY <2>2, <2>3 DEF Byte
  <1> HIDE DEF c
  <1>2. /\ marked \in Seq(Byte) /\ Len(marked) = m /\ marked[1] = c
        /\ \A i \in 2 .. m : marked[i] = t[i]
        /\ next = Append(marked, b)
    BY <1>1 DEF c
  <1> HIDE DEF marked
  <1>3. /\ next \in Seq(Byte) /\ Len(next) = m + 1 /\ next[1] = c /\ next[m + 1] = b
        /\ \A i \in 2 .. m : next[i] = t[i]
    BY <1>1, <1>2
  <1> DEFINE old == s \o t
             new == s \o next
  <1>4. /\ old \in Seq(Byte) /\ Len(old) = n + m
        /\ \A i \in 1 .. n : old[i] = s[i]
        /\ \A k \in 1 .. m : old[n + k] = t[k]
    BY ConcatParts
  <1>5. /\ new \in Seq(Byte) /\ Len(new) = n + (m + 1)
        /\ \A i \in 1 .. n : new[i] = s[i]
        /\ \A k \in 1 .. m + 1 : new[n + k] = next[k]
    BY <1>3, ConcatParts
  <1> HIDE DEF old, new, n, m
  <1>6. ASSUME NEW i \in 1 .. n + m, i # n + 1 PROVE new[i] = old[i]
    <2>1. CASE i <= n
      <3>1. i \in 1 .. n
        BY <1>1, <1>6, <2>1
      <3> QED BY <1>4, <1>5, <3>1
    <2>2. CASE i > n
      <3>1. PICK k \in 2 .. m : i = n + k
        <4>1. i - n \in 2 .. m /\ i = n + (i - n)
          BY <1>1, <1>6, <2>2
        <4> QED BY <4>1
      <3>2. k \in 1 .. m /\ k \in 1 .. m + 1
        BY <1>1, <3>1
      <3>3. new[n + k] = next[k] /\ next[k] = t[k] /\ old[n + k] = t[k]
        BY <1>3, <1>4, <1>5, <3>1, <3>2
      <3> QED BY <3>1, <3>3
    <2> QED BY <1>1, <1>6, <2>1, <2>2
  <1>7. new[n + 1] = c /\ new[n + (m + 1)] = b /\ n + (m + 1) = (n + m) + 1
    <2>1. 1 \in 1 .. m + 1 /\ m + 1 \in 1 .. m + 1
      BY <1>1
    <2>2. new[n + 1] = next[1] /\ new[n + (m + 1)] = next[m + 1]
      BY <1>5, <2>1
    <2>3. n + (m + 1) = (n + m) + 1
      BY <1>1
    <2> QED BY <1>3, <2>2, <2>3
  <1> QED BY <1>3, <1>4, <1>5, <1>6, <1>7 DEF old, new, n, c

-----------------------------------------------------------------------------
(***************************************************************************)
(* Paths.                                                                  *)
(***************************************************************************)

LEMMA PointFields ==
    ASSUME NEW p \in Point
    PROVE  /\ p.at \in Nat /\ p.from \in Nat /\ p.code \in Nat /\ p.bits \in Nat
           /\ p.index \in 0 .. TOKENS_PER_BLOCK
  BY DEF Point

LEMMA StartIsPoint == Start \in Point
  BY FormatSizes DEF Start, Point, HEADER_SIZE

\* What emit_token writes for a pair within the limits.
LEMMA PairFacts ==
    ASSUME NEW length \in MIN_MATCH .. MAX_MATCH, NEW distance \in 1 .. MAX_DISTANCE
    PROVE  LET pair == EncodeReference(length, distance) IN
           /\ pair \in Seq(Byte) /\ Len(pair) \in {2, 3}
           /\ ReferenceComplete(pair)
           /\ ~ReferenceComplete(SubSeq(pair, 1, Len(pair) - 1))
           /\ ReferenceDistance(pair) = distance /\ ReferenceLength(pair) = length
  <1>1. /\ length \in Nat /\ distance \in Nat
        /\ MIN_MATCH <= length /\ length < LONG_LENGTH_BIAS + Radix
        /\ 1 <= distance /\ distance <= NIBBLE * Radix
    BY FormatSizes, RadixFacts DEF MIN_MATCH, LONG_LENGTH_BIAS, SHORT_LENGTH_BIAS
  <1> DEFINE pair == EncodeReference(length, distance)
  <1>2. /\ pair \in Seq(Byte) /\ ReferenceComplete(pair)
        /\ ~ReferenceComplete(SubSeq(pair, 1, Len(pair) - 1))
        /\ ReferenceDistance(pair) = distance /\ ReferenceLength(pair) = length
    BY <1>1, ReferenceRoundTrip
  <1>3. Len(pair) \in {2, 3}
    BY <1>2 DEF ReferenceComplete
  <1> QED BY <1>2, <1>3

\* The pair of a step is such a pair.
LEMMA PairOfStep ==
    ASSUME NEW bytes, NEW data, NEW p \in Point, NEW q,
           NEW length \in Nat, NEW distance \in Nat,
           AddsPair(bytes, data, p, q, length, distance)
    PROVE  LET pair == EncodeReference(length, distance) IN
           /\ length \in MIN_MATCH .. MAX_MATCH
           /\ distance \in 1 .. MAX_DISTANCE /\ distance <= p.from
           /\ pair \in Seq(Byte) /\ Len(pair) \in {2, 3}
           /\ ReferenceComplete(pair)
           /\ ~ReferenceComplete(SubSeq(pair, 1, Len(pair) - 1))
           /\ ReferenceDistance(pair) = distance /\ ReferenceLength(pair) = length
  <1>1. length \in MIN_MATCH .. MAX_MATCH /\ distance \in 1 .. Least(MAX_DISTANCE, p.from)
    BY DEF AddsPair, Repeats
  <1>2. distance \in 1 .. MAX_DISTANCE /\ distance <= p.from
    BY <1>1, FormatSizes, PointFields DEF Least
  <1> QED BY <1>1, <1>2, PairFacts

\* Every step moves on through the encoding, and every token through the data.
LEMMA StepFields ==
    ASSUME NEW bytes, NEW data, NEW p \in Point, NEW q \in Point,
           Leads(bytes, data, p, q)
    PROVE  /\ q.at > p.at /\ q.from >= p.from
           /\ \/ /\ OpensBlock(p, q) /\ p.index = TOKENS_PER_BLOCK
                 /\ q.from = p.from /\ q.index = 0 /\ q.code = p.at + 1 /\ q.bits = 0
              \/ /\ p.index < TOKENS_PER_BLOCK
                 /\ q.from > p.from /\ q.index = p.index + 1 /\ q.code = p.code
  <1>1. CASE OpensBlock(p, q)
    BY <1>1, PointFields DEF OpensBlock, Point
  <1>2. CASE AddsLiteral(bytes, data, p, q)
    BY <1>2, PointFields DEF AddsLiteral, Point
  <1>3. ASSUME NEW length \in Nat, NEW distance \in Nat,
               AddsPair(bytes, data, p, q, length, distance)
        PROVE  /\ q.at > p.at /\ q.from > p.from
               /\ p.index < TOKENS_PER_BLOCK
               /\ q.index = p.index + 1 /\ q.code = p.code
    <2> DEFINE pair == EncodeReference(length, distance)
    <2>1. length \in MIN_MATCH .. MAX_MATCH /\ Len(pair) \in {2, 3}
      BY <1>3, PairOfStep
    <2>2. /\ p.index < TOKENS_PER_BLOCK
          /\ q = [at |-> p.at + Len(pair), from |-> p.from + length,
                  index |-> p.index + 1, code |-> p.code, bits |-> p.bits]
      BY <1>3 DEF AddsPair
    <2>3. /\ q.at = p.at + Len(pair) /\ q.from = p.from + length
          /\ q.index = p.index + 1 /\ q.code = p.code
      <3> HIDE DEF pair
      <3> QED BY <2>2 DEF Point
    <2>4. length > 0
      BY <2>1 DEF MIN_MATCH
    <2>5. p.at \in Nat /\ p.from \in Nat
      BY PointFields
    <2> DEFINE n == Len(pair)
    <2> HIDE DEF n
    <2>6. n \in {2, 3} /\ q.at = p.at + n
      BY <2>1, <2>3 DEF n
    <2>7. q.at > p.at
      BY <2>5, <2>6
    <2> QED BY <2>2, <2>3, <2>4, <2>5, <2>7
  <1> QED BY <1>1, <1>2, <1>3, PointFields DEF Leads

\* Where the data ends the path ends.
LEMMA EndIsLast ==
    ASSUME NEW bytes, NEW data, NEW points, NEW last,
           Path(bytes, data, points, last), last.index # 0,
           NEW p \in points, p.from = last.from
    PROVE  p = last
  <1>1. /\ points \subseteq Point /\ last \in points
        /\ \A r \in points : /\ r.from <= last.from
                             /\ r = last \/ \E s \in points : Leads(bytes, data, r, s)
    BY DEF Path
  <1> SUFFICES ASSUME p # last PROVE FALSE
    OBVIOUS
  <1>2. PICK q \in points : Leads(bytes, data, p, q)
    BY <1>1
  <1>3. q.from <= p.from /\ q.from \in Nat /\ p.from \in Nat
    BY <1>1, PointFields
  <1>4. q.from = p.from /\ q.index = 0
    BY <1>1, <1>2, <1>3, StepFields
  <1>5. q # last
    BY <1>4
  <1>6. PICK r \in points : Leads(bytes, data, q, r)
    BY <1>1, <1>5
  <1>7. r.from > q.from
    BY <1>1, <1>4, <1>6, StepFields, FormatSizes
  <1> QED BY <1>1, <1>3, <1>4, <1>7, PointFields

(***************************************************************************)
(* How an encoding grows.  The tokens of the block in progress have left   *)
(* their bits, and nothing else, in its code byte; the code bytes before   *)
(* are final.                                                              *)
(***************************************************************************)
Growing(bytes, data, points, last) ==
    /\ Path(bytes, data, points, last)
    /\ last.at = Len(bytes)
    /\ last.bits + Weight(last.index) <= Radix
    /\ last = Start \/ bytes[last.code] = last.bits
    /\ \A p \in points :
          \/ p.at < last.code
          \/ /\ p.code = last.code
             /\ last.bits - p.bits \in 0 .. Weight(p.index) - Weight(last.index)

\* Only the code byte in force changes, by no more than the new token's bit.
GrowsTo(bytes, grown, last, q) ==
    /\ q.at = Len(grown) /\ Len(bytes) < Len(grown)
    /\ \A i \in 1 .. Len(bytes) : i # q.code => grown[i] = bytes[i]
    /\ q.code \in HEADER_SIZE + 1 .. q.at /\ grown[q.code] = q.bits
    /\ \/ q.code = last.at + 1 /\ q.bits = 0 /\ q.index = 0
       \/ /\ q.code = last.code /\ last.index < TOKENS_PER_BLOCK
          /\ q.bits - last.bits \in 0 .. Weight(last.index) - Weight(q.index)

LEMMA StepKept ==
    ASSUME NEW bytes, NEW grown, NEW data, NEW p \in Point, NEW q \in Point,
           Leads(bytes, data, p, q),
           OpensBlock(p, q) \/ \A i \in p.at + 1 .. q.at : grown[i] = bytes[i]
    PROVE  Leads(grown, data, p, q)
  <1>0. p.at \in Nat /\ q.at \in Nat
    BY PointFields
  <1>1. CASE OpensBlock(p, q)
    BY <1>1 DEF Leads
  <1> SUFFICES ASSUME \A i \in p.at + 1 .. q.at : grown[i] = bytes[i]
               PROVE  Leads(grown, data, p, q)
    BY <1>1
  <1>2. CASE AddsLiteral(bytes, data, p, q)
    <2>1. q.at = p.at + 1
      BY <1>2, <1>0 DEF AddsLiteral, Point
    <2>2. grown[q.at] = bytes[q.at]
      BY <1>0, <2>1
    <2> QED BY <1>2, <2>2 DEF AddsLiteral, Leads
  <1>3. ASSUME NEW length \in Nat, NEW distance \in Nat,
               AddsPair(bytes, data, p, q, length, distance)
        PROVE  Leads(grown, data, p, q)
    <2> DEFINE pair == EncodeReference(length, distance)
    <2>1. q.at = p.at + Len(pair)
      BY <1>3, <1>0 DEF AddsPair, Point
    <2>2. ASSUME NEW k \in 1 .. Len(pair) PROVE grown[p.at + k] = pair[k]
      <3>1. bytes[p.at + k] = pair[k]
        BY <1>3, <2>2 DEF AddsPair
      <3>2. Len(pair) \in {2, 3}
        BY <1>3, PairOfStep
      <3> HIDE DEF pair
      <3>3. p.at + k \in p.at + 1 .. q.at
        BY <1>0, <2>1, <2>2, <3>2
      <3> QED BY <3>1, <3>3
    <2>3. AddsPair(grown, data, p, q, length, distance)
      BY <1>3, <2>2 DEF AddsPair
    <2> QED BY <2>3 DEF Leads
  <1> QED BY <1>1, <1>2, <1>3 DEF Leads

LEMMA PathGrows ==
    ASSUME NEW bytes \in Seq(Byte), NEW grown \in Seq(Byte), NEW data,
           NEW points, NEW last, Growing(bytes, data, points, last),
           NEW q \in Point, Leads(grown, data, last, q),
           GrowsTo(bytes, grown, last, q),
           q.bits + Weight(q.index) <= Radix
    PROVE  Growing(grown, data, points \cup {q}, q)
  <1> DEFINE qa == q.at
             qf == q.from
             qc == q.code
             qb == q.bits
             qw == Weight(q.index)
             la == last.at
             lf == last.from
             lc == last.code
             lb == last.bits
             lw == Weight(last.index)
             n  == Len(bytes)
  <1>1. /\ points \subseteq Point /\ Start \in points /\ last \in points
        /\ last \in Point /\ la = n
    BY DEF Growing, Path
  <1>2. /\ qa \in Nat /\ qf \in Nat /\ qc \in Nat /\ qb \in Nat
        /\ qw \in 1 .. Radix /\ la \in Nat /\ lf \in Nat /\ lc \in Nat /\ lb \in Nat
        /\ lw \in 1 .. Radix /\ qf >= lf /\ qa > la
    BY <1>1, PointFields, WeightInRange, StepFields
  <1>3. /\ qc \in HEADER_SIZE + 1 .. qa
        /\ \/ qc = la + 1
           \/ qc = lc /\ qb - lb \in 0 .. lw - qw
    BY DEF GrowsTo
  <1> HIDE DEF qa, qf, qc, qb, qw, la, lf, lc, lb, lw, n
  <1>4. \A i \in 1 .. n : i # qc => grown[i] = bytes[i]
    BY DEF GrowsTo, n, qc
  <1>5. ASSUME NEW p \in points
        PROVE  /\ p.at \in HEADER_SIZE .. qa /\ p.from <= qf
               /\ \/ p.at < qc
                  \/ p.code = qc /\ qb - p.bits \in 0 .. Weight(p.index) - qw
               /\ p = Start \/ InForce(grown, p)
    <2> DEFINE pa == p.at
               pf == p.from
               pc == p.code
               pb == p.bits
               pw == Weight(p.index)
    <2>1. /\ pa \in HEADER_SIZE .. la /\ pf <= lf
          /\ pa \in Nat /\ pf \in Nat /\ pc \in Nat /\ pb \in Nat /\ pw \in 1 .. Radix
      BY <1>1, PointFields, WeightInRange DEF Growing, Path, la, lf
    <2>2. pa < lc \/ (pc = lc /\ lb - pb \in 0 .. pw - lw)
      BY DEF Growing, lc, lb, lw
    <2>3. p # Start => pc \in HEADER_SIZE + 1 .. pa /\ bytes[pc] - pb \in 0 .. pw - 1
      BY DEF Growing, Path, InForce
    <2> SUFFICES /\ pa \in HEADER_SIZE .. qa /\ pf <= qf
                 /\ pa < qc \/ (pc = qc /\ qb - pb \in 0 .. pw - qw)
                 /\ p # Start => pc \in HEADER_SIZE + 1 .. pa /\ grown[pc] - pb \in 0 .. pw - 1
      BY DEF InForce
    <2> HIDE DEF pa, pf, pc, pb, pw
    <2>4. pa \in HEADER_SIZE .. qa /\ pf <= qf
      BY <1>2, <2>1 DEF HEADER_SIZE
    <2>5. pa < qc \/ (pc = qc /\ qb - pb \in 0 .. pw - qw)
      BY <1>2, <1>3, <2>1, <2>2 DEF HEADER_SIZE
    <2>6. ASSUME p # Start PROVE grown[pc] - pb \in 0 .. pw - 1
      <3>1. CASE pa < qc
        <4>1. pc \in 1 .. n /\ pc # qc
          BY <1>1, <1>2, <2>1, <2>3, <2>6, <3>1 DEF HEADER_SIZE
        <4> QED BY <1>4, <2>3, <2>6, <4>1
      <3>2. CASE pc = qc /\ qb - pb \in 0 .. pw - qw
        <4>1. grown[pc] = qb
          BY <3>2 DEF GrowsTo, qc, qb
        <4> QED BY <1>2, <2>1, <3>2, <4>1
      <3> QED BY <2>5, <3>1, <3>2
    <2> QED BY <2>3, <2>4, <2>5, <2>6
  <1>6. ASSUME NEW p \in points
        PROVE  \E r \in points \cup {q} : Leads(grown, data, p, r)
    <2>1. CASE p = last
      BY <2>1
    <2>2. CASE p # last
      <3>1. PICK r \in points : Leads(bytes, data, p, r)
        BY <1>6, <2>2 DEF Growing, Path
      <3> DEFINE pa == p.at
                 pc == p.code
                 ra == r.at
                 rc == r.code
      <3>2. /\ p \in Point /\ r \in Point /\ ra \in HEADER_SIZE .. la
            /\ pa \in Nat /\ ra \in Nat /\ pa >= HEADER_SIZE /\ pc \in Nat /\ rc \in Nat
        BY <1>1, <1>6, <3>1, PointFields DEF Growing, Path, HEADER_SIZE, la
      <3>3. ASSUME ~OpensBlock(p, r), NEW i \in pa + 1 .. ra
            PROVE  grown[i] = bytes[i]
        <4>1. rc = pc /\ pc \in HEADER_SIZE + 1 .. pa /\ (ra < lc \/ rc = lc)
          <5>1. rc = pc /\ p.index < TOKENS_PER_BLOCK
            BY <3>1, <3>2, <3>3, StepFields
          <5>2. p # Start
            BY <5>1, FormatSizes DEF Start
          <5>3. pc \in HEADER_SIZE + 1 .. pa
            BY <1>6, <5>2 DEF Growing, Path, InForce
          <5> QED BY <3>1, <5>1, <5>3 DEF Growing, lc
        <4> HIDE DEF pa, pc, ra, rc
        <4>2. i \in 1 .. n /\ i # qc
          BY <1>1, <1>2, <1>3, <3>2, <3>3, <4>1 DEF HEADER_SIZE
        <4> QED BY <1>4, <4>2
      <3>4. Leads(grown, data, p, r)
        BY <3>1, <3>2, <3>3, StepKept
      <3> QED BY <3>4
    <2> QED BY <2>1, <2>2
  <1>7. q.at \in HEADER_SIZE .. qa /\ InForce(grown, q)
    <2>1. qa \in HEADER_SIZE .. qa /\ qb - qb \in 0 .. qw - 1
      BY <1>2, <1>3 DEF HEADER_SIZE
    <2> QED BY <1>3, <2>1 DEF InForce, GrowsTo, qa, qc, qb, qw
  <1>8. Path(grown, data, points \cup {q}, q)
    <2> DEFINE all == points \cup {q}
    <2>1. all \subseteq Point /\ Start \in all /\ q \in all
      BY <1>1
    <2>2. ASSUME NEW p \in all
          PROVE  /\ p.at \in HEADER_SIZE .. q.at /\ p.from <= q.from
                 /\ p = Start \/ InForce(grown, p)
                 /\ p = q \/ \E r \in all : Leads(grown, data, p, r)
      <3>1. CASE p \in points
        BY <1>5, <1>6, <3>1 DEF qa, qf
      <3>2. CASE p = q
        <4>1. q.from <= q.from
          BY <1>2 DEF qf
        <4> QED BY <1>7, <3>2, <4>1 DEF qa
      <3> QED BY <3>1, <3>2
    <2> HIDE DEF all
    <2>3. Path(grown, data, all, q)
      BY <2>1, <2>2 DEF Path
    <2> QED BY <2>3 DEF all
  <1>9. ASSUME NEW p \in points \cup {q}
        PROVE  \/ p.at < q.code
               \/ /\ p.code = q.code
                  /\ q.bits - p.bits \in 0 .. Weight(p.index) - Weight(q.index)
    <2>1. qb - qb \in 0 .. qw - qw
      BY <1>2
    <2> QED BY <1>5, <2>1 DEF qc, qb, qw
  <1> QED BY <1>8, <1>9 DEF Growing, GrowsTo

LEMMA StartGrows ==
    ASSUME NEW bytes, NEW data, Len(bytes) = HEADER_SIZE
    PROVE  Growing(bytes, data, {Start}, Start)
  <1>1. /\ Start.at = HEADER_SIZE /\ Start.from = 0 /\ Start.bits = 0 /\ Start.code = 0
        /\ Start.index \in 0 .. TOKENS_PER_BLOCK
    BY FormatSizes DEF Start
  <1>2. Path(bytes, data, {Start}, Start)
    BY <1>1, StartIsPoint DEF Path, HEADER_SIZE
  <1>3. Weight(Start.index) \in 1 .. Radix /\ Radix \in Nat
    BY <1>1, WeightInRange, RadixFacts
  <1> DEFINE w == Weight(Start.index)
  <1> HIDE DEF w
  <1>4. 0 + w <= Radix /\ 0 - 0 \in 0 .. w - w
    BY <1>3 DEF w
  <1> QED BY <1>1, <1>2, <1>4 DEF Growing, w

\* One more point ends the path, with these fields.
GrowsBy(grown, data, points, from, index, code, bits) ==
    \E q \in Point :
        /\ Growing(grown, data, points \cup {q}, q)
        /\ q.from = from /\ q.index = index /\ q.code = code /\ q.bits = bits

\* The code byte of a new block is put down.
PutsCodeByte(bytes, data, points, last, grown) ==
    /\ bytes \in Seq(Byte) /\ Growing(bytes, data, points, last)
    /\ last.index = TOKENS_PER_BLOCK /\ grown = Append(bytes, 0)

LEMMA BlockOpened ==
    ASSUME NEW bytes, NEW data, NEW points, NEW last, NEW grown,
           PutsCodeByte(bytes, data, points, last, grown)
    PROVE  GrowsBy(grown, data, points, last.from, 0, Len(bytes) + 1, 0)
  <1> DEFINE q == [at |-> last.at + 1, from |-> last.from, index |-> 0,
                   code |-> last.at + 1, bits |-> 0]
  <1>0. /\ bytes \in Seq(Byte) /\ Growing(bytes, data, points, last)
        /\ last.index = TOKENS_PER_BLOCK /\ grown = Append(bytes, 0)
    BY DEF PutsCodeByte
  <1> USE <1>0
  <1>1. /\ last \in Point /\ last.at = Len(bytes) /\ last.at >= HEADER_SIZE
        /\ last.at \in Nat /\ last.from \in Nat
    <2>1. last \in Point /\ last.at = Len(bytes) /\ last.at >= HEADER_SIZE
      BY DEF Growing, Path
    <2> QED BY <2>1, PointFields
  <1>2. /\ q \in Point /\ q.at = last.at + 1 /\ q.from = last.from /\ q.index = 0
        /\ q.code = last.at + 1 /\ q.bits = 0
    BY <1>1, FormatSizes DEF Point
  <1>3. OpensBlock(last, q)
    BY DEF OpensBlock
  <1> HIDE DEF q
  <1>4. 0 \in Byte /\ Weight(q.index) = Radix
    BY <1>2, RadixFacts DEF Byte, Weight
  <1>5. /\ grown \in Seq(Byte) /\ Len(grown) = Len(bytes) + 1
        /\ grown[Len(bytes) + 1] = 0
        /\ \A i \in 1 .. Len(bytes) : grown[i] = bytes[i]
    BY <1>4
  <1>6. GrowsTo(bytes, grown, last, q)
    <2>1. q.code \in HEADER_SIZE + 1 .. q.at
      BY <1>1, <1>2 DEF HEADER_SIZE
    <2>2. Len(bytes) < Len(grown)
      BY <1>5
    <2> QED BY <1>1, <1>2, <1>5, <2>1, <2>2 DEF GrowsTo
  <1>7. Leads(grown, data, last, q) /\ q.bits + Weight(q.index) <= Radix
    BY <1>2, <1>3, <1>4, RadixFacts DEF Leads
  <1>8. Growing(grown, data, points \cup {q}, q)
    BY <1>2, <1>5, <1>6, <1>7, PathGrows
  <1> QED BY <1>1, <1>2, <1>8 DEF GrowsBy

\* A code byte belongs to the block it is in force for.
LEMMA CodeInPlace ==
    ASSUME NEW bytes, NEW data, NEW points, NEW last,
           Growing(bytes, data, points, last), last.index < TOKENS_PER_BLOCK
    PROVE  /\ last \in Point /\ last.at = Len(bytes)
           /\ last.code \in HEADER_SIZE + 1 .. last.at
           /\ bytes[last.code] = last.bits
           /\ last.bits + CodeBit(last.index) + CodeBit(last.index) <= Radix
  <1>1. last \in Point /\ last.at = Len(bytes) /\ last # Start
    BY FormatSizes DEF Growing, Path, Start
  <1>2. last.code \in HEADER_SIZE + 1 .. last.at /\ bytes[last.code] = last.bits
    BY <1>1 DEF Growing, Path, InForce
  <1>3. last.index \in 0 .. TOKENS_PER_BLOCK - 1 /\ last.bits \in Nat
    BY <1>1, PointFields, FormatSizes
  <1>4. /\ CodeBit(last.index) \in Nat \ {0}
        /\ Weight(last.index) = 2 * CodeBit(last.index)
    BY <1>3, BitFacts
  <1>5. last.bits + Weight(last.index) <= Radix
    BY DEF Growing
  <1> DEFINE bit == CodeBit(last.index)
             b == last.bits
  <1>6. b \in Nat /\ bit \in Nat /\ b + 2 * bit <= Radix
    BY <1>3, <1>4, <1>5
  <1> HIDE DEF bit, b
  <1>7. b + bit + bit <= Radix
    BY <1>6, RadixFacts
  <1> QED BY <1>1, <1>2, <1>7 DEF bit, b

\* A literal sets its bit and is the next byte.
PutsLiteral(bytes, data, points, last, grown) ==
    /\ bytes \in Seq(Byte) /\ grown \in Seq(Byte)
    /\ Growing(bytes, data, points, last) /\ last.index < TOKENS_PER_BLOCK
    /\ Len(grown) = Len(bytes) + 1
    /\ \A i \in 1 .. Len(bytes) : i # last.code => grown[i] = bytes[i]
    /\ grown[last.code] = last.bits + CodeBit(last.index)
    /\ grown[Len(grown)] = data[last.from + 1]

LEMMA LiteralAdded ==
    ASSUME NEW bytes, NEW data, NEW points, NEW last, NEW grown,
           PutsLiteral(bytes, data, points, last, grown)
    PROVE  GrowsBy(grown, data, points, last.from + 1, last.index + 1, last.code,
                   last.bits + CodeBit(last.index))
  <1> DEFINE bit == CodeBit(last.index)
             q == [at |-> last.at + 1, from |-> last.from + 1, index |-> last.index + 1,
                   code |-> last.code, bits |-> last.bits + bit]
  <1>0. /\ bytes \in Seq(Byte) /\ grown \in Seq(Byte)
        /\ Growing(bytes, data, points, last) /\ last.index < TOKENS_PER_BLOCK
        /\ Len(grown) = Len(bytes) + 1
        /\ \A i \in 1 .. Len(bytes) : i # last.code => grown[i] = bytes[i]
        /\ grown[last.code] = last.bits + CodeBit(last.index)
        /\ grown[Len(grown)] = data[last.from + 1]
    BY DEF PutsLiteral
  <1> USE <1>0
  <1>1. /\ last \in Point /\ last.at = Len(bytes)
        /\ last.code \in HEADER_SIZE + 1 .. last.at
        /\ last.bits + bit + bit <= Radix
    BY CodeInPlace
  <1>2. /\ last.at \in Nat /\ last.from \in Nat /\ last.code \in Nat /\ last.bits \in Nat
        /\ last.index \in 0 .. TOKENS_PER_BLOCK - 1
    BY <1>1, PointFields, FormatSizes
  <1>3. /\ bit \in Nat \ {0} /\ Weight(last.index) = 2 * bit
        /\ Weight(last.index + 1) = bit
    BY <1>2, BitFacts
  <1> HIDE DEF bit
  <1>4. /\ q \in Point /\ q.at = last.at + 1 /\ q.from = last.from + 1
        /\ q.index = last.index + 1 /\ q.code = last.code /\ q.bits = last.bits + bit
    <2>1. last.index + 1 \in 0 .. TOKENS_PER_BLOCK
      BY <1>2, FormatSizes
    <2>2. bit \in Nat
      BY <1>3
    <2>3. last.at + 1 \in Nat /\ last.from + 1 \in Nat /\ last.bits + bit \in Nat
      BY <1>2, <2>2
    <2> QED BY <1>2, <2>1, <2>3 DEF Point
  <1>5. Leads(grown, data, last, q)
    <2>1. AddsLiteral(grown, data, last, q)
      BY <1>1, <1>4 DEF AddsLiteral, bit
    <2> QED BY <2>1 DEF Leads
  <1> HIDE DEF q
  <1>6. GrowsTo(bytes, grown, last, q)
    <2>1. q.code \in HEADER_SIZE + 1 .. q.at /\ Len(bytes) < Len(grown)
      BY <1>1, <1>2, <1>4 DEF HEADER_SIZE
    <2>2. q.bits - last.bits \in 0 .. Weight(last.index) - Weight(q.index)
      <3> DEFINE b == last.bits
      <3>1. b \in Nat
        BY <1>2
      <3> HIDE DEF b
      <3>2. (b + bit) - b \in 0 .. 2 * bit - bit
        BY <1>3, <3>1
      <3> QED BY <1>3, <1>4, <3>2 DEF b
    <2>3. q.at = Len(grown) /\ grown[q.code] = q.bits
      BY <1>1, <1>4 DEF bit
    <2> QED BY <1>4, <2>1, <2>2, <2>3 DEF GrowsTo
  <1>7. q.bits + Weight(q.index) <= Radix
    BY <1>1, <1>3, <1>4
  <1>8. Growing(grown, data, points \cup {q}, q)
    BY <1>4, <1>5, <1>6, <1>7, PathGrows
  <1> QED BY <1>4, <1>8 DEF GrowsBy, bit

\* A pair leaves the code byte as it is.
PutsPair(bytes, data, points, last, length, distance, grown) ==
    /\ bytes \in Seq(Byte) /\ Growing(bytes, data, points, last)
    /\ last.index < TOKENS_PER_BLOCK /\ length \in MIN_MATCH .. MAX_MATCH
    /\ Repeats(data, last.from, length, distance)
    /\ grown = bytes \o EncodeReference(length, distance)

LEMMA PairAdded ==
    ASSUME NEW bytes, NEW data, NEW points, NEW last, NEW length, NEW distance, NEW grown,
           PutsPair(bytes, data, points, last, length, distance, grown)
    PROVE  GrowsBy(grown, data, points, last.from + length, last.index + 1, last.code,
                   last.bits)
  <1> DEFINE bit == CodeBit(last.index)
             pair == EncodeReference(length, distance)
             q == [at |-> last.at + Len(pair), from |-> last.from + length,
                   index |-> last.index + 1, code |-> last.code, bits |-> last.bits]
  <1>0. /\ bytes \in Seq(Byte) /\ Growing(bytes, data, points, last)
        /\ last.index < TOKENS_PER_BLOCK /\ length \in MIN_MATCH .. MAX_MATCH
        /\ Repeats(data, last.from, length, distance)
        /\ grown = bytes \o EncodeReference(length, distance)
    BY DEF PutsPair
  <1> USE <1>0
  <1>1. /\ last \in Point /\ last.at = Len(bytes)
        /\ last.code \in HEADER_SIZE + 1 .. last.at
        /\ bytes[last.code] = last.bits
        /\ last.bits + bit + bit <= Radix
    BY CodeInPlace
  <1>2. /\ last.at \in Nat /\ last.from \in Nat /\ last.code \in Nat /\ last.bits \in Nat
        /\ last.index \in 0 .. TOKENS_PER_BLOCK - 1
    BY <1>1, PointFields, FormatSizes
  <1>3. /\ bit \in Nat \ {0} /\ Weight(last.index) = 2 * bit
        /\ Weight(last.index + 1) = bit
    BY <1>2, BitFacts
  <1>4. distance \in 1 .. MAX_DISTANCE /\ length \in Nat /\ distance \in Nat
    BY <1>2, FormatSizes DEF Repeats, Least, MIN_MATCH
  <1>5. pair \in Seq(Byte) /\ Len(pair) \in {2, 3} /\ grown = bytes \o pair
    BY <1>4, PairFacts
  <1> HIDE DEF bit, pair
  <1>6. /\ q \in Point /\ q.at = last.at + Len(pair) /\ q.from = last.from + length
        /\ q.index = last.index + 1 /\ q.code = last.code /\ q.bits = last.bits
    BY <1>1, <1>2, <1>4, <1>5, FormatSizes DEF Point
  <1>7. /\ grown \in Seq(Byte) /\ Len(grown) = Len(bytes) + Len(pair)
        /\ \A i \in 1 .. Len(bytes) : grown[i] = bytes[i]
        /\ \A k \in 1 .. Len(pair) : grown[Len(bytes) + k] = pair[k]
    BY <1>5
  <1>8. Leads(grown, data, last, q)
    <2>1. \A k \in 1 .. Len(pair) : grown[last.at + k] = pair[k]
      BY <1>1, <1>7
    <2>2. AddsPair(grown, data, last, q, length, distance)
      BY <2>1 DEF AddsPair, pair
    <2> QED BY <1>4, <2>2 DEF Leads
  <1> HIDE DEF q
  <1>9. GrowsTo(bytes, grown, last, q)
    <2>1. q.code \in HEADER_SIZE + 1 .. q.at /\ Len(bytes) < Len(grown)
      <3> DEFINE n == Len(bytes)
                 k == Len(pair)
      <3>1. n \in Nat /\ k \in {2, 3} /\ last.at = n /\ Len(grown) = n + k
        BY <1>1, <1>5, <1>7
      <3> HIDE DEF n, k
      <3>2. n < n + k
        BY <3>1
      <3>3. last.code \in HEADER_SIZE + 1 .. n => last.code \in HEADER_SIZE + 1 .. n + k
        BY <3>1 DEF HEADER_SIZE
      <3> QED BY <1>1, <1>6, <3>1, <3>2, <3>3 DEF n, k
    <2>2. q.bits - last.bits \in 0 .. Weight(last.index) - Weight(q.index)
      BY <1>2, <1>3, <1>6
    <2>3. q.at = Len(grown) /\ grown[q.code] = q.bits
      <3>1. last.code \in 1 .. Len(bytes)
        BY <1>1, <1>2 DEF HEADER_SIZE
      <3> QED BY <1>1, <1>6, <1>7, <3>1
    <2> QED BY <1>6, <1>7, <2>1, <2>2, <2>3 DEF GrowsTo
  <1>10. q.bits + Weight(q.index) <= Radix
    BY <1>1, <1>2, <1>3, <1>6, RadixFacts
  <1>11. Growing(grown, data, points \cup {q}, q)
    BY <1>6, <1>7, <1>8, <1>9, <1>10, PathGrows
  <1> QED BY <1>6, <1>11 DEF GrowsBy, pair

(***************************************************************************)
(* An encoding that has grown to the end of the data it stands for is one: *)
(* the path says nothing of data beyond.                                   *)
(***************************************************************************)
LEMMA GrownSpans ==
    ASSUME NEW bytes, NEW data \in Seq(Byte), NEW points, NEW last,
           Growing(bytes, data, points, last), last.index # 0,
           NEW whole \in Seq(Byte), last.from = Len(whole),
           \A i \in 1 .. Len(whole) : whole[i] = data[i]
    PROVE  Spans(bytes, whole, points, last)
  <1>1. /\ points \subseteq Point /\ last \in points /\ last.at = Len(bytes)
        /\ Path(bytes, data, points, last)
    BY DEF Growing, Path
  <1>2. ASSUME NEW p \in points, NEW q \in points, Leads(bytes, data, p, q)
        PROVE  Leads(bytes, whole, p, q)
    <2>1. /\ p \in Point /\ q \in Point /\ p.from \in Nat /\ q.from \in Nat
          /\ q.from <= Len(whole)
      BY <1>1, PointFields DEF Path
    <2>2. CASE OpensBlock(p, q)
      BY <2>2 DEF Leads
    <2>3. CASE AddsLiteral(bytes, data, p, q)
      <3>1. q.from = p.from + 1 /\ bytes[q.at] = data[q.from]
        BY <2>3 DEF AddsLiteral
      <3>2. q.from \in 1 .. Len(whole)
        BY <2>1, <3>1
      <3>3. bytes[q.at] = whole[q.from]
        BY <3>1, <3>2
      <3> QED BY <2>3, <3>3 DEF AddsLiteral, Leads
    <2>4. ASSUME NEW length \in Nat, NEW distance \in Nat,
                 AddsPair(bytes, data, p, q, length, distance)
          PROVE  Leads(bytes, whole, p, q)
      <3>1. /\ q.from = p.from + length
            /\ distance \in 1 .. Least(MAX_DISTANCE, p.from) /\ distance <= p.from
        <4>1. distance <= p.from
          BY <2>1, <2>4, PairOfStep
        <4> QED BY <2>4, <4>1 DEF AddsPair, Repeats
      <3>2. ASSUME NEW k \in p.from + 1 .. p.from + length
            PROVE  whole[k] = whole[k - distance]
        <4>1. k \in 1 .. Len(whole) /\ k - distance \in 1 .. Len(whole)
          BY <2>1, <3>1, <3>2
        <4>2. data[k] = data[k - distance]
          BY <2>4, <3>2 DEF AddsPair, Repeats
        <4> QED BY <4>1, <4>2
      <3>3. Repeats(whole, p.from, length, distance)
        BY <3>1, <3>2 DEF Repeats
      <3>4. AddsPair(bytes, whole, p, q, length, distance)
        BY <2>4, <3>3 DEF AddsPair
      <3> QED BY <3>4 DEF Leads
    <2> QED BY <1>2, <2>2, <2>3, <2>4 DEF Leads
  <1>3. Path(bytes, whole, points, last)
    BY <1>1, <1>2 DEF Path
  <1> QED BY <1>1, <1>3 DEF Spans

-----------------------------------------------------------------------------
(***************************************************************************)
(* How an encoding is read.                                                *)
(***************************************************************************)

\* The code byte as decompress.c has shifted it behind `index` tokens.
Shifted(bytes, p, mask) == mask * Weight(p.index) = Radix * (bytes[p.code] - p.bits)

\* As long as data is owed the encoding goes on.
LEMMA PathMore ==
    ASSUME NEW bytes, NEW data, NEW points, NEW last, Spans(bytes, data, points, last),
           NEW p \in points, p.from < Len(data)
    PROVE  /\ p \in Point
           /\ \E q \in points : Leads(bytes, data, p, q)
           /\ p.at < Len(bytes)
  <1>1. /\ points \subseteq Point /\ Path(bytes, data, points, last)
        /\ last.at = Len(bytes) /\ last.from = Len(data)
    BY DEF Spans, Path
  <1>2. p # last /\ p \in Point /\ p.from \in Nat /\ p.at \in Nat
    BY <1>1, PointFields
  <1>3. PICK q \in points : Leads(bytes, data, p, q)
    BY <1>1, <1>2 DEF Path
  <1>4. q.at > p.at /\ q \in Point /\ q.at \in Nat
    BY <1>1, <1>2, <1>3, StepFields, PointFields
  <1>5. q.at \in HEADER_SIZE .. last.at
    BY <1>1 DEF Path
  <1>6. p.at < last.at
    <2> DEFINE a == p.at
               b == q.at
               c == last.at
    <2>1. a \in Nat /\ b \in Nat /\ b > a /\ b \in HEADER_SIZE .. c /\ c \in Nat
      <3>1. last \in Point
        BY <1>1 DEF Path
      <3> QED BY <1>2, <1>4, <1>5, <3>1, PointFields
    <2> HIDE DEF a, b, c
    <2>2. a < c
      BY <2>1 DEF HEADER_SIZE
    <2> QED BY <2>2 DEF a, c
  <1> QED BY <1>1, <1>2, <1>3, <1>6

\* Every point lies within the encoding and the data.
LEMMA PointInside ==
    ASSUME NEW bytes, NEW data, NEW points, NEW last, Spans(bytes, data, points, last),
           NEW p \in points
    PROVE  /\ p \in Point /\ p.at \in HEADER_SIZE .. Len(bytes) /\ p.from <= Len(data)
           /\ p.from = Len(data) => p.at = Len(bytes)
           /\ p = Start \/ InForce(bytes, p)
  <1>1. p.from = last.from => p = last
    BY EndIsLast DEF Spans
  <1> QED BY <1>1 DEF Spans, Path

\* The code byte of a block is shifted by nothing.
LEMMA BlockBits ==
    ASSUME NEW bytes \in Seq(Byte), NEW p \in Point, NEW q \in Point, OpensBlock(p, q),
           p.at < Len(bytes)
    PROVE  /\ q.at = p.at + 1 /\ q.from = p.from /\ q.index = 0
           /\ bytes[p.at + 1] \in Byte /\ Shifted(bytes, q, bytes[p.at + 1])
  <1>1. /\ q.at = p.at + 1 /\ q.from = p.from /\ q.index = 0
        /\ q.code = p.at + 1 /\ q.bits = 0
    BY DEF OpensBlock
  <1>2. bytes[p.at + 1] \in Byte
    <2>1. p.at + 1 \in 1 .. Len(bytes)
      BY PointFields
    <2> QED BY <2>1
  <1> DEFINE code == bytes[p.at + 1]
  <1>3. code \in Nat /\ Radix \in Nat
    BY <1>2, RadixFacts DEF Byte
  <1> HIDE DEF code
  <1>4. code * Radix = Radix * (code - 0)
    BY <1>3
  <1>5. Shifted(bytes, q, code)
    BY <1>1, <1>4 DEF Shifted, Weight, code
  <1> QED BY <1>1, <1>2, <1>5 DEF code

\* The highest bit of the shifted code byte tells a literal from a pair, and
\* shifting it once more makes it that of the next token.
LEMMA TokenBit ==
    ASSUME NEW bytes \in Seq(Byte), NEW p \in Point, NEW q \in Point,
           p.index < TOKENS_PER_BLOCK, q.index = p.index + 1, q.code = p.code,
           p = Start \/ InForce(bytes, p), InForce(bytes, q), q.at <= Len(bytes),
           NEW mask \in Byte, Shifted(bytes, p, mask)
    PROVE  /\ NextToken(mask) \in Byte
           /\ q.bits = p.bits + CodeBit(p.index) =>
                 IsLiteral(mask) /\ Shifted(bytes, q, NextToken(mask))
           /\ q.bits = p.bits =>
                 ~IsLiteral(mask) /\ Shifted(bytes, q, NextToken(mask))
  <1> DEFINE bit == CodeBit(p.index)
             rest == bytes[p.code] - p.bits
             left == bytes[p.code] - q.bits
             b == p.bits
             c == q.bits
             v == bytes[p.code]
  <1>1. p.index \in 0 .. TOKENS_PER_BLOCK - 1 /\ b \in Nat /\ c \in Nat
        /\ q.at \in Nat /\ p # Start
    BY PointFields, FormatSizes DEF Start
  <1>2. v \in Nat
    <2>1. p.code \in 1 .. Len(bytes)
      BY <1>1 DEF InForce, HEADER_SIZE
    <2> QED BY <2>1, RadixFacts DEF Byte
  <1>3. bit \in Nat \ {0} /\ Weight(p.index + 1) = bit
    BY <1>1, BitFacts
  <1>4. v - b >= 0 /\ v - c >= 0 /\ v - c < bit
    <2>1. v - b \in 0 .. Weight(p.index) - 1 /\ v - c \in 0 .. Weight(q.index) - 1
      BY <1>1 DEF InForce
    <2> HIDE DEF v, b, c
    <2>2. Weight(q.index) = bit
      BY <1>3
    <2>3. Weight(p.index) \in 1 .. Radix
      BY <1>1, FormatSizes, WeightInRange
    <2> QED BY <1>1, <1>2, <1>3, <2>1, <2>2, <2>3, RadixFacts
  <1>5. rest = v - b /\ rest \in Nat
    <2> HIDE DEF v, b
    <2>1. v - b \in Nat
      BY <1>1, <1>2, <1>4
    <2> QED BY <2>1 DEF v, b
  <1>6. mask * Weight(p.index) = Radix * rest
    BY DEF Shifted
  <1>7. /\ NextToken(mask) \in Byte
        /\ IsLiteral(mask) <=> rest >= bit
        /\ NextToken(mask) * bit = Radix * (IF IsLiteral(mask) THEN rest - bit ELSE rest)
    BY <1>1, <1>3, <1>5, <1>6, MaskStep
  <1>8. Shifted(bytes, q, NextToken(mask)) <=> NextToken(mask) * bit = Radix * (v - c)
    BY <1>3 DEF Shifted
  <1> HIDE DEF v, b, c, rest, bit
  <1>9. ASSUME c = b + bit PROVE IsLiteral(mask) /\ Shifted(bytes, q, NextToken(mask))
    <2>1. v - c = rest - bit /\ rest >= bit
      BY <1>1, <1>2, <1>3, <1>4, <1>5, <1>9
    <2> QED BY <1>7, <1>8, <2>1
  <1>10. ASSUME c = b PROVE ~IsLiteral(mask) /\ Shifted(bytes, q, NextToken(mask))
    <2>1. v - c = rest /\ ~(rest >= bit)
      BY <1>1, <1>2, <1>3, <1>4, <1>5, <1>10
    <2> QED BY <1>7, <1>8, <2>1
  <1> QED BY <1>7, <1>9, <1>10 DEF b, c, bit
=============================================================================
