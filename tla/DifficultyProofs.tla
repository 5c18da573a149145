-------------------------- MODULE DifficultyProofs --------------------------
(* Lemmas about the operators of Difficulty, for every word size.          *)
EXTENDS Difficulty, FiniteSetTheorems, WellFoundedInduction, TLAPS

-----------------------------------------------------------------------------
(* Every set of natural numbers has a least element: the numbers below one *)
(* are a finite set, and strict inclusion of finite sets is well-founded.  *)
LEMMA LeastNatural ==
  ASSUME NEW T \in SUBSET Nat, T # {}
  PROVE  \E n \in T : \A m \in T : n <= m
<1>. DEFINE Below(n) == {i \in Nat : i < n}
            F == {Below(n) : n \in T}
<1>1. ASSUME NEW n \in Nat PROVE IsFiniteSet(Below(n))
  <2>1. Below(n) \subseteq 0..n
    OBVIOUS
  <2>2. IsFiniteSet(0..n)
    BY FS_Interval
  <2>. QED  BY <2>1, <2>2, FS_Subset
<1>2. F \subseteq FiniteSubsetsOf(Nat) /\ F # {}
  BY <1>1 DEF FiniteSubsetsOf
<1>3. PICK X \in F : \A Y \in F : ~(<<Y, X>> \in StrictSubsetOrdering(Nat))
  BY <1>2, FS_StrictSubsetOrderingWellFounded, WFMin
<1>4. PICK n \in T : X = Below(n)
  BY <1>3
<1>5. ASSUME NEW m \in T, m < n PROVE FALSE
  <2>1. Below(m) \subseteq Below(n) /\ m \in Below(n) /\ ~(m \in Below(m)) /\ Below(m) \subseteq Nat /\ Below(n) \subseteq Nat
    BY <1>5
  <2>2. <<Below(m), Below(n)>> \in StrictSubsetOrdering(Nat)
    <3>. HIDE DEF Below
    <3>. QED BY <2>1 DEF StrictSubsetOrdering
  <2>. QED  BY <1>3, <1>4, <2>2
<1>. QED  BY <1>5

(* Induction, with a set in place of a predicate.                          *)
LEMMA NaturalInduction ==
  ASSUME NEW S, 0 \in S, \A n \in Nat : n \in S => n + 1 \in S
  PROVE  Nat \subseteq S
<1>. SUFFICES ASSUME Nat \ S # {} PROVE FALSE
  OBVIOUS
<1>1. PICK n \in Nat \ S : \A m \in Nat \ S : n <= m
  BY LeastNatural
<1>2. n - 1 \in Nat /\ ~(n <= n - 1)
  BY <1>1
<1>3. n - 1 \in S
  BY <1>1, <1>2
<1>. QED  BY <1>1, <1>2, <1>3

-----------------------------------------------------------------------------
(***************************************************************************)
(* Remainders modulo a symbolic number: the slots of the ring buffers and  *)
(* the sums of words that wrap.                                            *)
(***************************************************************************)
(* Division with remainder.                                               *)
LEMMA DivMod ==
  ASSUME NEW x \in Int, NEW m \in Nat \ {0}
  PROVE  x = m * (x \div m) + (x % m) /\ x % m \in 0 .. m - 1 /\ x \div m \in Int
  OBVIOUS

(* Quotient and remainder are unique.                                      *)
LEMMA ModUnique ==
  ASSUME NEW m \in Nat \ {0}, NEW q \in Int, NEW r \in 0 .. m - 1
  PROVE  (m * q + r) % m = r
  OBVIOUS

(* The quotient, too.                                                      *)
LEMMA QuotientUnique ==
  ASSUME NEW d \in Nat \ {0}, NEW q \in Int, NEW r \in 0 .. d - 1
  PROVE  (d * q + r) \div d = q
  OBVIOUS

(* Dividing twice is dividing by the product.                              *)
LEMMA DivTwice ==
  ASSUME NEW t \in Nat, NEW a \in Nat \ {0}, NEW b \in Nat \ {0}
  PROVE  (t \div a) \div b = t \div (a * b)
<1>. DEFINE p == t \div a
            r == t % a
            q == p \div b
            s == p % b
<1>1. t = a * p + r /\ r \in 0 .. a - 1 /\ p \in Int
  BY DivMod
<1>2. p = b * q + s /\ s \in 0 .. b - 1 /\ q \in Int
  <2>1. p \in Int
    BY <1>1
  <2>. HIDE DEF p
  <2>. QED  BY <2>1, DivMod
<1>. HIDE DEF p, r, q, s
<1>. DEFINE ab == a * b
            rest == a * s
<1>3. ab \in Nat \ {0} /\ rest \in Nat /\ rest <= ab - a
  <2>1. ab \in Nat \ {0} /\ rest \in Nat
    BY <1>2
  <2>2. s <= b - 1 /\ a * s <= a * (b - 1)
    BY <1>2
  <2>3. a * (b - 1) = a * b - a
    OBVIOUS
  <2>. QED  BY <2>1, <2>2, <2>3
<1>4. t = ab * q + (rest + r)
  <2>1. a * p = (a * b) * q + a * s
    BY <1>2
  <2>2. ab * q \in Int
    BY <1>2, <1>3
  <2>. HIDE DEF ab, rest
  <2>3. a * p = ab * q + rest
    BY <2>1 DEF ab, rest
  <2>. DEFINE ap == a * p
              abq == ab * q
  <2>4. t = ap + r /\ ap = abq + rest /\ abq \in Int /\ rest \in Int /\ r \in Int
    BY <1>1, <1>3, <2>2, <2>3
  <2>. HIDE DEF ap, abq
  <2>5. t = abq + (rest + r)
    BY <2>4
  <2>. QED  BY <2>5 DEF abq
<1>5. rest + r \in 0 .. ab - 1
  <2>1. r \in 0 .. a - 1
    BY <1>1
  <2>. HIDE DEF ab, rest
  <2>. QED  BY <2>1, <1>3
<1>6. t \div ab = q
  <2>. HIDE DEF ab, rest
  <2>. QED  BY <1>2, <1>3, <1>4, <1>5, QuotientUnique
<1>. QED  BY <1>6 DEF q, p, ab

(* A multiple of the modulus changes no remainder.                         *)
LEMMA ModPlusMultiple ==
  ASSUME NEW m \in Nat \ {0}, NEW q \in Int, NEW z \in Int
  PROVE  (z + m * q) % m = z % m
<1>1. z = m * (z \div m) + (z % m) /\ z % m \in 0 .. m - 1 /\ z \div m \in Int
  BY DivMod
<1>2. z + m * q = m * ((z \div m) + q) + (z % m)
  BY <1>1
<1>3. (z \div m) + q \in Int
  BY <1>1
<1>. QED  BY <1>1, <1>2, <1>3, ModUnique

(* A term of a sum may be reduced first.                                   *)
LEMMA ModOfSum ==
  ASSUME NEW m \in Nat \ {0}, NEW x \in Int, NEW y \in Int
  PROVE  ((x % m) + y) % m = (x + y) % m
<1>1. x = m * (x \div m) + (x % m) /\ x % m \in 0 .. m - 1 /\ x \div m \in Int
  BY DivMod
<1>2. x + y = ((x % m) + y) + m * (x \div m)
  BY <1>1
<1>3. (x % m) + y \in Int
  BY <1>1
<1>. QED  BY <1>1, <1>2, <1>3, ModPlusMultiple

(* Two numbers less than a modulus apart have different remainders.        *)
LEMMA ModDistinct ==
  ASSUME NEW m \in Nat \ {0}, NEW i \in Int, NEW k \in 1 .. m - 1
  PROVE  i % m # (i - k) % m
<1>1. SUFFICES ASSUME i % m = (i - k) % m PROVE FALSE
  OBVIOUS
<1>. DEFINE a == i \div m
            b == (i - k) \div m
<1>2. i = m * a + (i % m) /\ a \in Int /\ i % m \in Int
  BY DivMod
<1>3. i - k = m * b + ((i - k) % m) /\ b \in Int
  <2>1. i - k \in Int
    OBVIOUS
  <2>. QED  BY <2>1, DivMod
<1>. HIDE DEF a, b
<1>4. k = m * (a - b)
  BY <1>1, <1>2, <1>3
<1>5. a - b \in Int /\ (a - b <= 0 \/ a - b >= 1)
  BY <1>2, <1>3
<1>6. CASE a - b <= 0
  <2>. DEFINE c == a - b
  <2>1. c \in Int /\ c <= 0 /\ k = m * c
    BY <1>4, <1>5, <1>6
  <2>. HIDE DEF c
  <2>2. m * c <= 0
    BY <2>1
  <2>. QED  BY <2>1, <2>2
<1>7. CASE a - b >= 1
  <2>. DEFINE c == a - b
  <2>1. c \in Int /\ c >= 1 /\ k = m * c
    BY <1>4, <1>5, <1>7
  <2>. HIDE DEF c
  <2>2. m * c >= m
    BY <2>1
  <2>. QED  BY <2>1, <2>2
<1>. QED  BY <1>5, <1>6, <1>7

(* The remainder of the successor: one more, or zero at a multiple.        *)
LEMMA ModSuccessor ==
  ASSUME NEW m \in Nat \ {0}, NEW h \in Nat
  PROVE  (h + 1) % m = IF h % m = m - 1 THEN 0 ELSE (h % m) + 1
<1>1. h = m * (h \div m) + (h % m) /\ h % m \in 0 .. m - 1 /\ h \div m \in Int
  BY DivMod
<1>2. CASE h % m = m - 1
  <2>1. h + 1 = m * ((h \div m) + 1) + 0
    BY <1>1, <1>2
  <2>2. (h \div m) + 1 \in Int /\ 0 \in 0 .. m - 1
    BY <1>1
  <2>3. (m * ((h \div m) + 1) + 0) % m = 0
    BY <2>2, ModUnique
  <2>. QED  BY <2>1, <2>3, <1>2
<1>3. CASE h % m # m - 1
  <2>1. h + 1 = m * (h \div m) + ((h % m) + 1)
    BY <1>1
  <2>2. (h % m) + 1 \in 0 .. m - 1
    BY <1>1, <1>3
  <2>. QED  BY <1>1, <1>3, <2>1, <2>2, ModUnique
<1>. QED  BY <1>2, <1>3

-----------------------------------------------------------------------------
(* The modulus of the words is a positive natural number.                  *)
LEMMA WordModType == WordMod \in Nat \ {0} /\ Words \subseteq Nat
  BY WordAssumption DEF WordMod, Words

(* ChainWork addition and multiplication stay in the word.                 *)
LEMMA WordOpsType ==
  ASSUME NEW a \in Nat, NEW b \in Nat
  PROVE  WordAdd(a, b) \in Words /\ WordMul(a, b) \in Words
<1>1. a + b \in Nat /\ a * b \in Nat
  OBVIOUS
<1>2. \A x \in Nat : x % WordMod \in 0 .. WordMod - 1
  BY WordModType
<1>. QED  BY <1>1, <1>2 DEF WordAdd, WordMul, Words

(* SignificantBytes counts what target_to_bits counts: the digits below    *)
(* and including the highest nonzero one.                                  *)
LEMMA SignificantBytesCounts ==
  ASSUME NEW t \in Words
  PROVE  /\ SignificantBytes(t) \in 0 .. NBYTES
         /\ t < BytePow[SignificantBytes(t)]
         /\ \A k \in 0 .. SignificantBytes(t) - 1 : BytePow[k] <= t
<1>. DEFINE S == {k \in 0 .. NBYTES - 1 : BytePow[k] <= t}
            n == Cardinality(S)
<1>. USE WordAssumption
<1>0. t \in Nat /\ t < BytePow[NBYTES]
  BY WordModType DEF Words, WordMod
<1>1. IsFiniteSet(0 .. NBYTES - 1) /\ Cardinality(0 .. NBYTES - 1) = NBYTES
  BY FS_Interval
<1>2. IsFiniteSet(S) /\ n <= NBYTES /\ n \in Nat
  BY <1>1, FS_Subset, FS_CardinalityType
<1>3. \A k \in 0 .. NBYTES : BytePow[k] \in Nat
  OBVIOUS
<1>4. ASSUME NEW k \in 0 .. n - 1
      PROVE  BytePow[k] <= t
  <2>1. SUFFICES ASSUME ~(BytePow[k] <= t) PROVE FALSE
    OBVIOUS
  <2>2. k \in 0 .. NBYTES - 1
    BY <1>2
  <2>3. S \subseteq 0 .. k - 1
    <3>1. SUFFICES ASSUME NEW j \in S, ~(j \in 0 .. k - 1) PROVE FALSE
      OBVIOUS
    <3>2. BytePow[k] <= BytePow[j]
      BY <3>1, <2>2, BytePowGrows
    <3>. QED  BY <3>1, <3>2, <2>1, <2>2, <1>0, <1>3
  <2>4. IsFiniteSet(0 .. k - 1) /\ Cardinality(0 .. k - 1) = k
    BY <2>2, FS_Interval
  <2>5. n <= k
    BY <2>3, <2>4, FS_Subset
  <2>. QED  BY <2>5, <1>2, <2>2
<1>5. t < BytePow[n]
  <2>1. SUFFICES ASSUME ~(t < BytePow[n]) PROVE FALSE
    OBVIOUS
  <2>2. n \in 0 .. NBYTES - 1 /\ BytePow[n] <= t
    BY <2>1, <1>0, <1>2, <1>3
  <2>3. 0 .. n \subseteq S
    <3>1. SUFFICES ASSUME NEW j \in 0 .. n PROVE j \in S
      OBVIOUS
    <3>2. BytePow[j] <= BytePow[n]
      BY <2>2, BytePowGrows
    <3>. QED  BY <3>1, <3>2, <2>2, <1>0, <1>3
  <2>4. IsFiniteSet(0 .. n) /\ Cardinality(0 .. n) = n + 1
    BY <1>2, FS_Interval
  <2>5. Cardinality(0 .. n) <= n
    <3>. HIDE DEF S
    <3>. QED  BY <2>3, <1>2, FS_Subset
  <2>. QED  BY <2>4, <2>5, <1>2
<1>. QED  BY <1>2, <1>4, <1>5 DEF SignificantBytes

(* The sign bit is a positive number, so a mantissa modulo it is below it. *)
LEMMA SignBitType == SignBit \in Nat \ {0}
<1>1. BytePow[3] \in Nat \ {0} /\ BytePow[3] % 2 = 0
  BY WordAssumption, BytePowAssumption
<1>. QED  BY <1>1 DEF SignBit

(* A target encodes to a compact target of the right shape.                *)
LEMMA ToBitsType ==
  ASSUME NEW t \in Words
  PROVE  target_to_bits(t) \in CompactTarget
<1>. DEFINE n == SignificantBytes(t)
            c == LeadingDigits(t, n)
<1>1. n \in 0 .. NBYTES
  BY SignificantBytesCounts
<1>2. c \in Nat
  <2>1. CASE n <= 3
    <3>1. BytePow[3 - n] \in Nat
      BY <2>1, <1>1, WordAssumption
    <3>. QED  BY <2>1, <3>1, WordModType DEF LeadingDigits
  <2>2. CASE ~(n <= 3)
    <3>1. BytePow[n - 3] \in Nat \ {0}
      BY <2>2, <1>1, WordAssumption
    <3>2. t \div BytePow[n - 3] \in Nat
      BY <3>1, WordModType
    <3>. QED  BY <2>2, <3>2 DEF LeadingDigits
  <2>. QED  BY <2>1, <2>2
<1>3. c \div BYTE \in Nat
  BY <1>2, WordAssumption
<1>4. (c \div BYTE) % SignBit \in 0 .. SignBit - 1
  BY <1>3, SignBitType
<1>5. c < SignBit => c \in 0 .. SignBit - 1
  BY <1>2, SignBitType
<1>6. n \in 0 .. NBYTES + 1 /\ n + 1 \in 0 .. NBYTES + 1 /\ 0 \in 0 .. NBYTES + 1
  BY <1>1, WordAssumption
<1>7. 0 \in 0 .. SignBit - 1
  BY SignBitType
<1>. QED  BY <1>2, <1>4, <1>5, <1>6, <1>7, SignBitType DEF target_to_bits, CompactTarget

(* A compact target expands to a word.                                     *)
LEMMA FromBitsType ==
  ASSUME NEW bits \in CompactTarget
  PROVE  target_from_bits(bits) \in Words
<1>. DEFINE m == bits.mantissa % SignBit
<1>1. bits.size \in 0 .. NBYTES + 1 /\ bits.mantissa \in 0 .. SignBit - 1
  BY DEF CompactTarget
<1>2. m = bits.mantissa /\ m \in Nat /\ m < SignBit
  BY <1>1, SignBitType
<1>3. SignBit <= BytePow[3] /\ BytePow[3] <= WordMod
  <2>1. BytePow[3] \in Nat /\ SignBit <= BytePow[3]
    BY WordAssumption DEF SignBit
  <2>2. BytePow[3] <= WordMod
    BY WordAssumption, BytePowGrows DEF WordMod
  <2>. QED  BY <2>1, <2>2
<1>4. CASE bits.size <= 3
  <2>1. BytePow[3 - bits.size] \in Nat \ {0}
    BY <1>1, <1>4, WordAssumption
  <2>2. m \div BytePow[3 - bits.size] \in 0 .. m
    BY <2>1, <1>2
  <2>3. m \div BytePow[3 - bits.size] \in Words
    BY <2>2, <1>2, <1>3, SignBitType, WordModType, WordAssumption DEF Words
  <2>. QED  BY <2>3, <1>4 DEF target_from_bits
<1>5. CASE ~(bits.size <= 3) /\ bits.size - 3 < NBYTES
  <2>1. BytePow[bits.size - 3] \in Nat
    BY <1>1, <1>5, WordAssumption
  <2>2. WordMul(m, BytePow[bits.size - 3]) \in Words
    BY <2>1, <1>2, WordOpsType
  <2>. QED  BY <2>2, <1>5, <1>1, WordAssumption DEF target_from_bits, WordMul
<1>6. CASE bits.size - 3 >= NBYTES
  <2>1. 0 \in Words
    BY WordModType DEF Words
  <2>. QED  BY <2>1, <1>6, <1>1, WordAssumption DEF target_from_bits
<1>. QED  BY <1>4, <1>5, <1>6, <1>1, WordAssumption

(* The work of a block is a word.                                          *)
LEMMA WorkType ==
  ASSUME NEW t \in Words
  PROVE  work_from_target(t) \in Words
<1>1. t + 1 \in Nat \ {0}
  BY WordModType
<1>2. WordMod \div (t + 1) \in Nat
  BY <1>1, WordModType
<1>3. \A x \in Nat : x % WordMod \in 0 .. WordMod - 1
  BY WordModType
<1>. QED  BY <1>2, <1>3 DEF work_from_target, Words

(* A timespan is clamped to a natural number, whatever the timestamps are. *)
LEMMA ClampedTimespanType ==
  ASSUME NEW start \in Int, NEW previous \in Int
  PROVE  ClampedTimespan(start, previous) \in MIN_EPOCH_TIMESPAN .. MAX_EPOCH_TIMESPAN
<1>1. EXPECTED_EPOCH_TIMESPAN \in Nat \ {0}
  BY ConsensusAssumption DEF EXPECTED_EPOCH_TIMESPAN
<1>2. /\ MIN_EPOCH_TIMESPAN \in Nat /\ MAX_EPOCH_TIMESPAN \in Nat
      /\ MIN_EPOCH_TIMESPAN <= MAX_EPOCH_TIMESPAN
  BY <1>1 DEF MIN_EPOCH_TIMESPAN, MAX_EPOCH_TIMESPAN
<1>. QED  BY <1>2 DEF ClampedTimespan, Clamp

(* The required target and its compact form have their types, so the next  *)
(* epoch can be validated with them.                                       *)
LEMMA NextTargetType ==
  ASSUME NEW old \in Words, NEW start \in Int, NEW previous \in Int
  PROVE  LET next == calculate_next_target_required(old, start, previous)
         IN  next.nbits \in CompactTarget /\ next.target \in Words
             /\ next.target = target_from_bits(next.nbits)
<1>. DEFINE span    == ClampedTimespan(start, previous)
            scaled  == ScaledTarget(old, span)
            clamped == IF scaled < POW_LIMIT THEN scaled ELSE POW_LIMIT
<1>1. EXPECTED_EPOCH_TIMESPAN \in Nat \ {0}
  BY ConsensusAssumption DEF EXPECTED_EPOCH_TIMESPAN
<1>2. span \in Nat
  <2>1. MIN_EPOCH_TIMESPAN \in Nat /\ MAX_EPOCH_TIMESPAN \in Nat
    BY <1>1 DEF MIN_EPOCH_TIMESPAN, MAX_EPOCH_TIMESPAN
  <2>. QED  BY <2>1, ClampedTimespanType
<1>3. (old * span) % WordMod \in Nat
  BY <1>2, WordModType, WordOpsType DEF WordMul, Words
<1>4. scaled \in Nat
  <2>. DEFINE p == (old * span) % WordMod
  <2>1. p \in Nat
    BY <1>3
  <2>. HIDE DEF p
  <2>2. p \div EXPECTED_EPOCH_TIMESPAN \in Nat
    BY <2>1, <1>1
  <2>. QED  BY <2>2 DEF p, ScaledTarget
<1>5. POW_LIMIT \in Words
  BY ConsensusAssumption, WordAssumption DEF Words, WordMod
<1>6. clamped \in Words
  <2>. HIDE DEF scaled
  <2>. QED  BY <1>4, <1>5, WordModType DEF Words
<1>7. target_to_bits(clamped) \in CompactTarget
  BY <1>6, ToBitsType
<1>8. target_from_bits(target_to_bits(clamped)) \in Words
  BY <1>7, FromBitsType
<1>. QED  BY <1>7, <1>8 DEF calculate_next_target_required

-----------------------------------------------------------------------------
(* Division rounds down.                                                   *)
LEMMA DivisionRoundsDown ==
  ASSUME NEW a \in Nat, NEW d \in Nat \ {0}
  PROVE  a \div d \in Nat /\ (a \div d) * d <= a /\ a \div d <= a
  OBVIOUS

(* A product is monotone in a factor, and associates.                      *)
LEMMA ProductFacts ==
  ASSUME NEW a \in Nat, NEW b \in Nat, NEW c \in Nat
  PROVE  /\ a * b \in Nat
         /\ a <= b => a * c <= b * c
         /\ a * (b * c) = (a * b) * c
  OBVIOUS

(* A remainder is not above what it is taken of.                           *)
LEMMA RemainderBelow ==
  ASSUME NEW a \in Nat, NEW d \in Nat \ {0}
  PROVE  a % d \in Nat /\ a % d <= a
  OBVIOUS

(* An exact multiple divides back.                                         *)
LEMMA ExactDivision ==
  ASSUME NEW a \in Nat, NEW d \in Nat \ {0}
  PROVE  (a * d) \div d = a
  OBVIOUS

(* Expanding a compact target gives at most mantissa * 256^(size - 3); the *)
(* two cuts, to the sign bit and to the word, only make it smaller.        *)
LEMMA FromBitsBound ==
  ASSUME NEW bits, bits.size \in Nat, bits.mantissa \in Nat,
         NEW t \in Nat,
         bits.size <= 3 => bits.mantissa \div BytePow[3 - bits.size] <= t,
         bits.size > 3 /\ bits.size - 3 < NBYTES => bits.mantissa * BytePow[bits.size - 3] <= t
  PROVE  target_from_bits(bits) <= t
<1>. DEFINE m == bits.mantissa % SignBit
<1>1. m \in Nat /\ m <= bits.mantissa
  BY SignBitType, RemainderBelow
<1>. HIDE DEF m
<1>2. CASE bits.size <= 3
  <2>. DEFINE d == BytePow[3 - bits.size]
  <2>1. d \in Nat \ {0}
    BY <1>2, WordAssumption
  <2>. HIDE DEF d
  <2>2. m \div d <= bits.mantissa \div d
    BY <1>1, <2>1
  <2>3. m \div d \in Nat /\ bits.mantissa \div d \in Nat
    BY <1>1, <2>1
  <2>4. m \div d <= t
    BY <2>2, <2>3, <1>2 DEF d
  <2>. QED  BY <2>4, <1>2 DEF target_from_bits, m, d
<1>3. CASE bits.size > 3 /\ bits.size - 3 < NBYTES
  <2>. DEFINE d == BytePow[bits.size - 3]
  <2>1. d \in Nat \ {0}
    BY <1>3, WordAssumption
  <2>2. bits.mantissa * d <= t
    BY <1>3
  <2>. HIDE DEF d
  <2>3. m * d \in Nat /\ m * d <= bits.mantissa * d /\ bits.mantissa * d \in Nat
    BY <1>1, <2>1, ProductFacts
  <2>4. (m * d) % WordMod \in Nat /\ (m * d) % WordMod <= m * d
    BY <2>3, WordModType, RemainderBelow
  <2>5. (m * d) % WordMod <= t
    BY <2>2, <2>3, <2>4
  <2>. QED  BY <2>5, <1>3, WordAssumption DEF target_from_bits, m, d
<1>4. CASE bits.size - 3 >= NBYTES
  BY <1>4, WordAssumption DEF target_from_bits
<1>. QED  BY <1>2, <1>3, <1>4, WordAssumption

(* The round trip of a target through nbits, which every retarget makes,   *)
(* only ever rounds it down, whatever the target and the word size: no     *)
(* carry out of the mantissa, no lost size, no case of the sign bit makes  *)
(* a target easier than the one computed.                                  *)
THEOREM RoundTripRoundsDown ==
  ASSUME NEW t \in Words
  PROVE  target_from_bits(target_to_bits(t)) <= t
<1>. DEFINE n == SignificantBytes(t)
            c == LeadingDigits(t, n)
            b == target_to_bits(t)
<1>0. t \in Nat /\ n \in 0 .. NBYTES /\ BYTE \in Nat \ {0} /\ NBYTES \in Nat
  BY WordModType, WordAssumption, SignificantBytesCounts
<1>1. CASE t = 0
  <2>1. b = [size |-> 0, mantissa |-> 0]
    BY <1>1 DEF target_to_bits
  <2>2. BytePow[3] \in Nat \ {0}
    BY WordAssumption
  <2>3. 0 \div BytePow[3] <= 0
    BY <2>2
  <2>. HIDE DEF b
  <2>4. b.size = 0 /\ b.mantissa = 0
    BY <2>1
  <2>. QED  BY <2>3, <2>4, <1>1, FromBitsBound DEF b
<1>2. CASE t # 0 /\ n <= 3
  <2>. DEFINE d == BytePow[3 - n]
  <2>1. d \in Nat \ {0}
    BY <1>2, <1>0, WordAssumption
  <2>2. c = t * d /\ c \in Nat
    BY <2>1, <1>0, <1>2 DEF LeadingDigits
  <2>3. CASE c < SignBit
    <3>1. b.size = n /\ b.mantissa = c
      BY <2>2, <2>3, <1>2, SignBitType DEF target_to_bits
    <3>2. c \div d = t
      <4>. HIDE DEF d, c
      <4>. QED  BY <2>1, <2>2, <1>0, ExactDivision
    <3>. HIDE DEF b, c, n
    <3>. QED  BY <3>1, <3>2, <2>2, <1>0, <1>2, FromBitsBound DEF b
  <2>4. CASE c >= SignBit
    <3>1. b.size = n + 1 /\ b.mantissa = (c \div BYTE) % SignBit
      BY <2>2, <2>4, <1>2, SignBitType DEF target_to_bits
    <3>2. c \div BYTE \in Nat /\ (c \div BYTE) * BYTE <= c
      <4>. HIDE DEF c
      <4>. QED  BY <2>2, <1>0, DivisionRoundsDown
    <3>3. b.mantissa \in Nat /\ b.mantissa <= c \div BYTE
      <4>. HIDE DEF c, b
      <4>. QED  BY <3>1, <3>2, SignBitType, RemainderBelow
    <3>4. CASE n = 3
      <4>1. d = 1 /\ BytePow[1] = BYTE
        BY <3>4, <1>0, WordAssumption, BytePowAssumption
      <4>2. b.mantissa * BYTE <= t
        <5>1. b.mantissa * BYTE <= (c \div BYTE) * BYTE
          <6>. HIDE DEF b, c
          <6>. QED  BY <3>2, <3>3, <1>0, ProductFacts
        <5>2. b.mantissa * BYTE \in Nat /\ (c \div BYTE) * BYTE \in Nat
          <6>. HIDE DEF b, c
          <6>. QED  BY <3>2, <3>3, <1>0, ProductFacts
        <5>3. c = t
          <6>. HIDE DEF d, c
          <6>. QED  BY <2>2, <4>1, <1>0
        <5>. HIDE DEF b, c
        <5>. QED  BY <5>1, <5>2, <5>3, <3>2, <1>0
      <4>. HIDE DEF b, c, n
      <4>. QED  BY <4>1, <4>2, <3>1, <3>3, <3>4, <1>0, FromBitsBound DEF b
    <3>5. CASE n < 3
      <4>. DEFINE e == BytePow[2 - n]
      <4>1. e \in Nat \ {0} /\ d = BYTE * e
        <5>1. 2 - n \in 0 .. NBYTES - 1 /\ (2 - n) + 1 = 3 - n
          BY <3>5, <1>0, WordAssumption
        <5>. QED  BY <5>1, WordAssumption, BytePowAssumption
      <4>2. (c \div BYTE) \div e = t
        <5>. HIDE DEF d, c, e
        <5>1. c = (t * e) * BYTE
          BY <4>1, <2>2, <1>0
        <5>2. c \div BYTE = t * e
          BY <5>1, <4>1, <1>0, ProductFacts, ExactDivision
        <5>. QED  BY <5>2, <4>1, <1>0, ExactDivision
      <4>3. b.mantissa \div e <= (c \div BYTE) \div e
        <5>. HIDE DEF d, c, e, b
        <5>. QED  BY <3>2, <3>3, <4>1
      <4>4. b.size = 3 - (2 - n) /\ b.size <= 3 /\ 3 - b.size = 2 - n
        <5>. HIDE DEF b, n
        <5>. QED  BY <3>1, <3>5, <1>0
      <4>. HIDE DEF b, c, n
      <4>. QED  BY <4>2, <4>3, <4>4, <3>1, <3>3, <3>5, <1>0, FromBitsBound DEF b, e
    <3>. QED  BY <3>4, <3>5, <1>2, <1>0
  <2>. QED  BY <2>2, <2>3, <2>4, SignBitType
<1>3. CASE t # 0 /\ n > 3
  <2>. DEFINE d == BytePow[n - 3]
  <2>1. d \in Nat \ {0}
    BY <1>3, <1>0, WordAssumption
  <2>2. c = t \div d
    BY <1>0, <1>3 DEF LeadingDigits
  <2>3. c \in Nat /\ c * d <= t /\ c * d \in Nat
    <3>. HIDE DEF d, c
    <3>. QED  BY <2>1, <2>2, <1>0, DivisionRoundsDown, ProductFacts
  <2>4. CASE c < SignBit
    <3>1. b.size = n /\ b.mantissa = c
      BY <2>3, <2>4, <1>3, SignBitType DEF target_to_bits
    <3>. HIDE DEF b, c, n
    <3>. QED  BY <3>1, <2>3, <1>0, <1>3, FromBitsBound DEF b
  <2>5. CASE c >= SignBit
    <3>1. b.size = n + 1 /\ b.mantissa = (c \div BYTE) % SignBit
      BY <2>3, <2>5, <1>3, SignBitType DEF target_to_bits
    <3>2. c \div BYTE \in Nat /\ (c \div BYTE) * BYTE <= c
      <4>. HIDE DEF c
      <4>. QED  BY <2>3, <1>0, DivisionRoundsDown
    <3>3. b.mantissa \in Nat /\ b.mantissa <= c \div BYTE
      <4>. HIDE DEF c, b
      <4>. QED  BY <3>1, <3>2, SignBitType, RemainderBelow
    <3>4. BytePow[n - 2] = BYTE * d /\ BYTE * d \in Nat
      <4>1. n - 3 \in 0 .. NBYTES - 1 /\ (n - 3) + 1 = n - 2
        BY <1>3, <1>0
      <4>. QED  BY <4>1, <2>1, <1>0, BytePowAssumption, ProductFacts
    <3>5. b.mantissa * (BYTE * d) <= t
      <4>. HIDE DEF c, d, b
      <4>1. b.mantissa * BYTE <= (c \div BYTE) * BYTE
        BY <3>2, <3>3, <1>0, ProductFacts
      <4>2. b.mantissa * BYTE \in Nat /\ (c \div BYTE) * BYTE \in Nat
        BY <3>2, <3>3, <1>0, ProductFacts
      <4>3. b.mantissa * BYTE <= c
        BY <4>1, <4>2, <3>2, <2>3
      <4>4. (b.mantissa * BYTE) * d <= c * d
        BY <4>2, <4>3, <2>1, <2>3, ProductFacts
      <4>5. b.mantissa * (BYTE * d) = (b.mantissa * BYTE) * d
        BY <3>3, <2>1, <1>0, ProductFacts
      <4>6. (b.mantissa * BYTE) * d \in Nat
        BY <4>2, <2>1, ProductFacts
      <4>. QED  BY <4>4, <4>5, <4>6, <2>3, <1>0
    <3>. HIDE DEF b, c, n, d
    <3>. QED  BY <3>1, <3>3, <3>4, <3>5, <1>0, <1>3, FromBitsBound DEF b
  <2>. QED  BY <2>3, <2>4, <2>5, SignBitType
<1>. QED  BY <1>0, <1>1, <1>2, <1>3

(* The target a boundary requires is never easier than the limit.          *)
THEOREM NextTargetBelowLimit ==
  ASSUME NEW old \in Words, NEW start \in Int, NEW previous \in Int
  PROVE  calculate_next_target_required(old, start, previous).target <= POW_LIMIT
<1>. DEFINE scaled  == ScaledTarget(old, ClampedTimespan(start, previous))
            clamped == IF scaled < POW_LIMIT THEN scaled ELSE POW_LIMIT
<1>1. POW_LIMIT \in Words
  BY ConsensusAssumption, WordAssumption DEF Words, WordMod
<1>2. scaled \in Nat
  <2>. DEFINE span == ClampedTimespan(start, previous)
  <2>1. EXPECTED_EPOCH_TIMESPAN \in Nat \ {0}
    BY ConsensusAssumption DEF EXPECTED_EPOCH_TIMESPAN
  <2>2. MIN_EPOCH_TIMESPAN \in Nat /\ MAX_EPOCH_TIMESPAN \in Nat
    BY <2>1 DEF MIN_EPOCH_TIMESPAN, MAX_EPOCH_TIMESPAN
  <2>3. span \in Nat
    BY <2>2, ClampedTimespanType
  <2>4. (old * span) % WordMod \in Nat
    BY <2>3, WordModType, WordOpsType DEF WordMul, Words
  <2>5. ((old * span) % WordMod) \div EXPECTED_EPOCH_TIMESPAN \in Nat
    <3>. DEFINE p == (old * span) % WordMod
    <3>1. p \in Nat
      BY <2>4
    <3>. HIDE DEF p
    <3>2. p \div EXPECTED_EPOCH_TIMESPAN \in Nat
      BY <3>1, <2>1
    <3>. QED  BY <3>2 DEF p
  <2>. QED  BY <2>5 DEF ScaledTarget
<1>. HIDE DEF scaled
<1>3. clamped \in Words /\ clamped <= POW_LIMIT
  BY <1>1, <1>2, WordModType DEF Words
<1>4. target_from_bits(target_to_bits(clamped)) <= clamped
  BY <1>3, RoundTripRoundsDown
<1>5. target_from_bits(target_to_bits(clamped)) \in Words
  BY <1>3, ToBitsType, FromBitsType
<1>6. target_from_bits(target_to_bits(clamped)) <= POW_LIMIT
  <2>. DEFINE r == target_from_bits(target_to_bits(clamped))
  <2>1. r \in Int /\ clamped \in Int /\ POW_LIMIT \in Int
    <3>1. r \in Words /\ clamped \in Words
      BY <1>3, <1>5
    <3>. HIDE DEF r, clamped
    <3>. QED  BY <3>1, <1>1, WordModType
  <2>2. r <= clamped
    BY <1>4
  <2>. HIDE DEF r, clamped
  <2>3. r <= POW_LIMIT
    BY <2>1, <2>2, <1>3
  <2>. QED  BY <2>3 DEF r
<1>. QED  BY <1>6 DEF calculate_next_target_required, scaled

-----------------------------------------------------------------------------
(* The base is even, and the sign bit is half of its third power.          *)
LEMMA BaseIsEven ==
  /\ BytePow[1] = BYTE /\ BytePow[2] = BYTE * BYTE /\ BytePow[3] = BYTE * BytePow[2]
  /\ \E h \in Nat \ {0} : BYTE = 2 * h /\ SignBit = h * BytePow[2]
<1>1. 0 \in 0..NBYTES-1 /\ 1 \in 0..NBYTES-1 /\ 2 \in 0..NBYTES-1 /\ BYTE \in Nat /\ BYTE > 1
  BY WordAssumption
<1>2. BytePow[1] = BYTE /\ BytePow[2] = BYTE * BYTE /\ BytePow[3] = BYTE * BytePow[2]
  <2>1. BytePow[0+1] = BYTE * 1 /\ BytePow[1+1] = BYTE * BytePow[1] /\ BytePow[2+1] = BYTE * BytePow[2]
    BY <1>1, BytePowAssumption
  <2>. QED  BY <1>1, <2>1
<1>. DEFINE h == BYTE \div 2
<1>3. h \in Nat \ {0} /\ (BYTE = 2 * h \/ BYTE = 2 * h + 1)
  BY <1>1
<1>. HIDE DEF h
<1>4. BYTE = 2 * h
  <2>1. ASSUME BYTE = 2 * h + 1 PROVE FALSE
    <3>. DEFINE k == 2 * (h * h) + 2 * h
    <3>1. k \in Nat /\ BytePow[2] = 2 * k + 1
      BY <1>2, <1>3, <2>1
    <3>. HIDE DEF k
    <3>. DEFINE j == 2 * (h * k) + h + k
    <3>2. j \in Nat /\ BytePow[3] = 2 * j + 1
      BY <1>2, <1>3, <2>1, <3>1
    <3>. HIDE DEF j
    <3>. QED  BY <3>2, BytePowAssumption
  <2>. QED  BY <1>3, <2>1
<1>5. SignBit = h * BytePow[2]
  <2>. DEFINE p == BytePow[2]
  <2>1. p \in Nat
    BY <1>1, WordAssumption
  <2>. HIDE DEF p
  <2>. DEFINE hp == h * p
  <2>2. hp \in Nat /\ BYTE * p = 2 * hp
    BY <1>3, <1>4, <2>1
  <2>. HIDE DEF hp
  <2>3. (2 * hp) \div 2 = hp
    BY <2>2
  <2>. QED  BY <1>2, <2>2, <2>3 DEF SignBit, p, hp
<1>. QED  BY <1>2, <1>3, <1>4, <1>5

(* A power of the base divides the higher ones.                            *)
LEMMA PowFactor ==
  ASSUME NEW j \in 0 .. NBYTES, NEW k \in 0 .. NBYTES, j <= k
  PROVE  \E q \in Nat \ {0} : BytePow[k] = q * BytePow[j]
<1>. DEFINE S == {d \in Nat : j + d <= NBYTES => \E q \in Nat \ {0} : BytePow[j + d] = q * BytePow[j]}
<1>0. BytePow[j] \in Nat /\ BYTE \in Nat \ {0} /\ NBYTES \in Nat
  BY WordAssumption
<1>1. 0 \in S
  BY <1>0
<1>2. ASSUME NEW d \in Nat, d \in S PROVE d + 1 \in S
  <2>. SUFFICES ASSUME j + (d + 1) <= NBYTES
                PROVE  \E q \in Nat \ {0} : BytePow[j + (d + 1)] = q * BytePow[j]
    OBVIOUS
  <2>1. PICK q \in Nat \ {0} : BytePow[j + d] = q * BytePow[j]
    BY <1>0, <1>2
  <2>2. j + d \in 0 .. NBYTES - 1 /\ j + (d + 1) = (j + d) + 1
    BY <1>0
  <2>3. BytePow[j + (d + 1)] = BYTE * (q * BytePow[j])
    BY <2>1, <2>2, BytePowAssumption
  <2>4. BYTE * (q * BytePow[j]) = (BYTE * q) * BytePow[j] /\ BYTE * q \in Nat \ {0}
    BY <1>0
  <2>. QED  BY <2>3, <2>4
<1>3. Nat \subseteq S
  <2>. HIDE DEF S
  <2>. QED  BY <1>1, <1>2, NaturalInduction
<1>4. k - j \in Nat /\ j + (k - j) = k
  BY <1>0
<1>. QED  BY <1>0, <1>3, <1>4

(* Three digits above a power are twice the sign bit above it.             *)
LEMMA ThreeDigitsAbove ==
  ASSUME NEW j \in Nat, j + 3 <= NBYTES
  PROVE  BytePow[j + 3] = 2 * (SignBit * BytePow[j])
<1>. DEFINE p == BytePow[j]
            p2 == BytePow[2]
<1>0. NBYTES \in Nat /\ NBYTES >= 3 /\ BYTE \in Nat /\ \A k \in 0 .. NBYTES : BytePow[k] \in Nat
  BY WordAssumption
<1>1. /\ j \in 0..NBYTES-1 /\ j + 1 \in 0..NBYTES-1 /\ j + 2 \in 0..NBYTES-1
      /\ (j + 1) + 1 = j + 2 /\ (j + 2) + 1 = j + 3 /\ j \in 0..NBYTES /\ 2 \in 0..NBYTES
  BY <1>0
<1>2. /\ BytePow[j + 1] = BYTE * p /\ BytePow[j + 2] = BYTE * BytePow[j + 1]
      /\ BytePow[j + 3] = BYTE * BytePow[j + 2] /\ p \in Nat /\ p2 \in Nat
  BY <1>0, <1>1, BytePowAssumption
<1>3. PICK h \in Nat \ {0} : BYTE = 2 * h /\ SignBit = h * p2
  BY BaseIsEven
<1>4. p2 = BYTE * BYTE
  BY BaseIsEven
<1>. HIDE DEF p, p2
<1>5. BytePow[j + 3] = BYTE * (BYTE * (BYTE * p))
  BY <1>2
<1>6. BYTE * (BYTE * (BYTE * p)) = BYTE * ((BYTE * BYTE) * p)
  BY <1>0, <1>2
<1>7. (2 * h) * (p2 * p) = 2 * ((h * p2) * p)
  BY <1>2
<1>. QED  BY <1>3, <1>4, <1>5, <1>6, <1>7 DEF p

(* A word between two powers of the base has as many digits as the lower   *)
(* exponent says, plus one.                                                *)
LEMMA DigitsBetweenPowers ==
  ASSUME NEW n \in 1 .. NBYTES, NEW v \in Nat, BytePow[n - 1] <= v, v < BytePow[n]
  PROVE  v \in Words /\ SignificantBytes(v) = n
<1>0. NBYTES \in Nat /\ \A k \in 0 .. NBYTES : BytePow[k] \in Nat
  BY WordAssumption
<1>1. v \in Words
  <2>1. BytePow[n] <= WordMod /\ n \in 0..NBYTES
    BY <1>0, BytePowGrows DEF WordMod
  <2>. QED  BY <1>0, <2>1, WordModType DEF Words
<1>. DEFINE d == SignificantBytes(v)
<1>2. d \in 0 .. NBYTES /\ v < BytePow[d] /\ \A k \in 0 .. d - 1 : BytePow[k] <= v
  BY <1>1, SignificantBytesCounts
<1>. HIDE DEF d
<1>3. d >= n
  <2>1. ASSUME d <= n - 1 PROVE FALSE
    <3>1. BytePow[d] <= BytePow[n - 1] /\ BytePow[d] \in Nat /\ BytePow[n - 1] \in Nat
      <4>1. n - 1 \in 0 .. NBYTES
        BY <1>0
      <4>. QED  BY <1>0, <1>2, <2>1, <4>1, BytePowGrows
    <3>. QED  BY <1>2, <3>1
  <2>. QED  BY <1>0, <1>2, <2>1
<1>4. d <= n
  <2>1. ASSUME n <= d - 1 PROVE FALSE
    <3>1. BytePow[n] <= v /\ BytePow[n] \in Nat
      BY <1>0, <1>2, <2>1
    <3>. QED  BY <3>1
  <2>. QED  BY <1>0, <1>2, <2>1
<1>. QED  BY <1>0, <1>1, <1>2, <1>3, <1>4 DEF d

(* Cutting a number at a multiple leaves the greatest multiple below it.   *)
LEMMA CutIsGreatestMultiple ==
  ASSUME NEW t \in Nat, NEW u \in Nat \ {0}, NEW q \in Int, q * u <= t
  PROVE  q * u <= (t \div u) * u
<1>. DEFINE p == t \div u
            r == t % u
<1>1. t = u * p + r /\ r \in 0 .. u - 1 /\ p \in Int
  BY DivMod
<1>. HIDE DEF p, r
<1>2. q <= p
  <2>1. ASSUME q >= p + 1 PROVE FALSE
    <3>1. q * u >= (p + 1) * u
      BY <1>1, <2>1
    <3>2. (p + 1) * u = u * p + u /\ q * u \in Int /\ u * p \in Int
      BY <1>1
    <3>. QED  BY <1>1, <3>1, <3>2
  <2>. QED  BY <1>1, <2>1
<1>. QED  BY <1>1, <1>2 DEF p

\* What is left of a target after its three leading digits, as encoded: the
\* power of the base its compact form is a multiple of.
CutExponent(t) ==
  LET n == SignificantBytes(t)
  IN  IF LeadingDigits(t, n) >= SignBit
      THEN (IF n < 3 THEN 0 ELSE n - 2)
      ELSE (IF n <= 3 THEN 0 ELSE n - 3)

(* Expanding a compact target whose value is a word below the modulus.     *)
LEMMA FromBitsValue ==
  ASSUME NEW bits, bits.size \in 0 .. NBYTES + 1, bits.mantissa \in 0 .. SignBit - 1
  PROVE  /\ bits.size <= 3 => target_from_bits(bits) = bits.mantissa \div BytePow[3 - bits.size]
         /\ bits.size > 3 /\ bits.mantissa * BytePow[bits.size - 3] < WordMod =>
              target_from_bits(bits) = bits.mantissa * BytePow[bits.size - 3]
<1>0. NBYTES \in Nat /\ NBYTES >= 3 /\ SignBit \in Nat \ {0}
  BY WordAssumption, SignBitType
<1>1. bits.mantissa % SignBit = bits.mantissa
  BY <1>0
<1>2. bits.size <= 3 => target_from_bits(bits) = bits.mantissa \div BytePow[3 - bits.size]
  BY <1>1 DEF target_from_bits
<1>3. ASSUME bits.size > 3, bits.mantissa * BytePow[bits.size - 3] < WordMod
      PROVE  target_from_bits(bits) = bits.mantissa * BytePow[bits.size - 3]
  <2>1. bits.size - 3 \in 0 .. NBYTES /\ ~(bits.size <= 3) /\ ~(bits.size - 3 >= NBYTES)
    BY <1>0, <1>3
  <2>. DEFINE p == bits.mantissa * BytePow[bits.size - 3]
  <2>2. p \in Nat /\ p < WordMod
    BY <1>0, <1>3, <2>1, WordAssumption
  <2>. HIDE DEF p
  <2>3. p % WordMod = p
    BY <2>2, WordModType
  <2>. QED  BY <1>1, <2>1, <2>3 DEF target_from_bits, p
<1>. QED  BY <1>2, <1>3

(* What a target encodes to: its leading digits, or one digit less of them *)
(* when they would reach the sign bit.                                     *)
LEMMA EncodedFields ==
  ASSUME NEW t \in Words, t > 0
  PROVE  LET n == SignificantBytes(t)
             c == LeadingDigits(t, n)
             b == target_to_bits(t)
         IN  /\ n \in 1 .. NBYTES /\ BytePow[n - 1] <= t /\ t < BytePow[n]
             /\ c \in Nat /\ b \in CompactTarget
             /\ c < SignBit => b.size = n /\ b.mantissa = c
             /\ c >= SignBit => b.size = n + 1 /\ b.mantissa = c \div BYTE
<1>. DEFINE n == SignificantBytes(t)
            c == LeadingDigits(t, n)
            b == target_to_bits(t)
<1>0. /\ t \in Nat /\ n \in 0 .. NBYTES /\ BYTE \in Nat /\ BYTE > 1 /\ NBYTES \in Nat /\ NBYTES >= 3
      /\ t < BytePow[n] /\ \A k \in 0 .. n - 1 : BytePow[k] <= t
      /\ \A k \in 0 .. NBYTES : BytePow[k] \in Nat \ {0}
      /\ SignBit \in Nat \ {0} /\ t < WordMod /\ BytePow[0] = 1
  BY WordModType, WordAssumption, SignificantBytesCounts, SignBitType, BytePowAssumption DEF Words
<1>1. n \in 1 .. NBYTES /\ BytePow[n - 1] <= t /\ n - 1 \in 0..NBYTES
  <2>1. n # 0
    <3>1. ASSUME n = 0 PROVE FALSE
      <4>1. t < 1
        BY <1>0, <3>1
      <4>. QED  BY <1>0, <4>1
    <3>. QED  BY <3>1
  <2>. HIDE DEF n
  <2>. QED  BY <1>0, <2>1
<1>2. b \in CompactTarget
  BY ToBitsType
<1>5. PICK h \in Nat \ {0} : BYTE = 2 * h /\ SignBit = h * BytePow[2]
  BY BaseIsEven
<1>6. BytePow[1] = BYTE /\ BytePow[2] = BYTE * BYTE /\ BytePow[3] = BYTE * BytePow[2] /\ BytePow[2] \in Nat \ {0}
  <2>1. 2 \in 0..NBYTES
    BY <1>0
  <2>. QED  BY <1>0, <2>1, BaseIsEven
<1>7. c \in Nat
  <2>1. CASE n <= 3
    <3>1. BytePow[3 - n] \in Nat
      BY <1>0, <2>1
    <3>. QED  BY <2>1, <3>1, <1>0 DEF LeadingDigits
  <2>2. CASE ~(n <= 3)
    <3>1. BytePow[n - 3] \in Nat \ {0}
      BY <2>2, <1>0
    <3>2. t \div BytePow[n - 3] \in Nat
      BY <3>1, <1>0
    <3>. QED  BY <2>2, <3>2 DEF LeadingDigits
  <2>. QED  BY <2>1, <2>2
<1>8. c < SignBit => b.size = n /\ b.mantissa = c
  BY <1>0, <1>7 DEF target_to_bits
<1>9. c >= SignBit => b.size = n + 1 /\ b.mantissa = (c \div BYTE) % SignBit
  BY <1>0, <1>7 DEF target_to_bits
<1>10. c >= SignBit => b.mantissa = c \div BYTE /\ c \div BYTE \in Nat
  <2>. SUFFICES ASSUME c >= SignBit PROVE b.mantissa = c \div BYTE /\ c \div BYTE \in Nat
    OBVIOUS
  <2>1. c < BytePow[3]
    <3>1. CASE n <= 3
      <4>1. PICK q \in Nat \ {0} : BytePow[3] = q * BytePow[n]
        <5>1. 3 \in 0 .. NBYTES /\ n <= 3 /\ n \in 0 .. NBYTES
          BY <1>0, <3>1
        <5>. HIDE DEF n
        <5>. QED  BY <5>1, PowFactor
      <4>2. BytePow[3] = BytePow[3 - n] * BytePow[n]
        <5>1. n = 1 \/ n = 2 \/ n = 3
          <6>. HIDE DEF n
          <6>. QED  BY <1>1, <3>1
        <5>2. CASE n = 1
          BY <5>2, <1>0, <1>6
        <5>3. CASE n = 2
          BY <5>3, <1>0, <1>6
        <5>4. CASE n = 3
          <6>1. 3 - n = 0 /\ BytePow[3] \in Nat
            BY <5>4, <1>0
          <6>. QED  BY <5>4, <6>1, <1>0
        <5>. QED  BY <5>1, <5>2, <5>3, <5>4
      <4>. DEFINE d == BytePow[3 - n]
                  pn == BytePow[n]
      <4>3. d \in Nat \ {0} /\ pn \in Nat /\ t < pn /\ c = t * d
        <5>1. 3 - n \in 0 .. NBYTES
          BY <1>0, <3>1
        <5>. QED  BY <5>1, <1>0, <3>1 DEF LeadingDigits
      <4>. HIDE DEF d, pn
      <4>4. t * d < d * pn
        BY <4>3, <1>0
      <4>. QED  BY <4>2, <4>3, <4>4 DEF d, pn
    <3>2. CASE n > 3
      <4>. DEFINE d == BytePow[n - 3]
      <4>1. d \in Nat \ {0} /\ c = t \div d
        <5>1. n - 3 \in 0 .. NBYTES
          BY <1>0, <3>2
        <5>. QED  BY <5>1, <1>0, <3>2 DEF LeadingDigits
      <4>2. BytePow[n] = BytePow[3] * d
        <5>1. /\ n - 3 \in 0..NBYTES-1 /\ n - 2 \in 0..NBYTES-1 /\ n - 1 \in 0..NBYTES-1
              /\ (n - 3) + 1 = n - 2 /\ (n - 2) + 1 = n - 1 /\ (n - 1) + 1 = n
          BY <1>0, <3>2
        <5>2. BytePow[n - 2] = BYTE * d /\ BytePow[n - 1] = BYTE * BytePow[n - 2] /\ BytePow[n] = BYTE * BytePow[n - 1]
          BY <5>1, BytePowAssumption
        <5>. HIDE DEF d
        <5>. QED  BY <5>2, <4>1, <1>0, <1>6
      <4>3. c * d <= t /\ c * d \in Int
        <5>. HIDE DEF d
        <5>1. (t \div d) * d <= t /\ t \div d \in Nat
          BY <4>1, <1>0, DivisionRoundsDown
        <5>. QED  BY <5>1, <4>1
      <4>. DEFINE p3 == BytePow[3]
      <4>4. p3 \in Nat /\ t < p3 * d
        <5>1. 3 \in 0..NBYTES
          BY <1>0
        <5>. QED  BY <5>1, <4>2, <1>0
      <4>. HIDE DEF d, p3, c
      <4>5. ASSUME c >= p3 PROVE FALSE
        <5>1. c * d >= p3 * d /\ p3 * d \in Int
          BY <4>5, <4>1, <4>4, <1>7
        <5>. QED  BY <5>1, <4>3, <4>4, <1>0
      <4>. QED  BY <4>5, <4>4, <1>7 DEF p3
    <3>. QED  BY <3>1, <3>2, <1>0
  <2>. DEFINE k == c \div BYTE
  <2>2. c = BYTE * k + (c % BYTE) /\ c % BYTE \in 0 .. BYTE - 1 /\ k \in Int
    <3>. HIDE DEF c
    <3>. QED  BY <1>0, <1>7, DivMod
  <2>3. k \in Nat
    <3>. HIDE DEF c
    <3>. QED  BY <1>0, <1>7
  <2>. DEFINE p2 == BytePow[2]
              cm == c % BYTE
  <2>. HIDE DEF k, c, p2, cm
  <2>4. k < p2
    <3>1. ASSUME k >= p2 PROVE FALSE
      <4>1. BYTE * k >= BYTE * p2 /\ BYTE * k \in Int /\ BYTE * p2 \in Int
        BY <3>1, <1>0, <1>6, <2>3 DEF p2
      <4>2. BytePow[3] = BYTE * p2
        BY <1>6 DEF p2
      <4>. QED  BY <4>1, <4>2, <2>1, <2>2 DEF cm
    <3>. QED  BY <3>1, <2>3, <1>6 DEF p2
  <2>5. p2 <= SignBit
    BY <1>5, <1>6 DEF p2
  <2>6. k % SignBit = k
    <3>1. k \in Nat /\ k < SignBit
      BY <2>3, <2>4, <2>5, <1>0, <1>6 DEF p2
    <3>. QED  BY <3>1, <1>0
  <2>. QED  BY <1>9, <2>3, <2>6 DEF k
<1>. QED  BY <1>0, <1>1, <1>2, <1>7, <1>8, <1>9, <1>10

(* The round trip through nbits cuts a target at a power of the base, and  *)
(* keeps at least the sign bit's worth of digits above it.                 *)
LEMMA RoundTripCuts ==
  ASSUME NEW t \in Words, t > 0
  PROVE  LET e == CutExponent(t)
             n == SignificantBytes(t)
             v == target_from_bits(target_to_bits(t))
         IN  /\ e \in 0 .. NBYTES - 2
             /\ v = (t \div BytePow[e]) * BytePow[e]
             /\ v \in Nat /\ v <= t /\ BytePow[n - 1] <= v
             /\ e > 0 => v >= SignBit * BytePow[e - 1]
             /\ e > 0 => n > 3 \/ LeadingDigits(t, n) >= SignBit
<1>. DEFINE e == CutExponent(t)
            n == SignificantBytes(t)
            c == LeadingDigits(t, n)
            b == target_to_bits(t)
            v == target_from_bits(b)
            Goal == /\ e \in 0 .. NBYTES - 2
                    /\ v = (t \div BytePow[e]) * BytePow[e]
                    /\ v \in Nat /\ v <= t /\ BytePow[n - 1] <= v
                    /\ e > 0 => v >= SignBit * BytePow[e - 1]
                    /\ e > 0 => n > 3 \/ c >= SignBit
<1>. SUFFICES Goal
  OBVIOUS
<1>0. /\ t \in Nat /\ BYTE \in Nat \ {0} /\ NBYTES \in Nat /\ NBYTES >= 3
      /\ \A k \in 0 .. NBYTES : BytePow[k] \in Nat \ {0}
      /\ SignBit \in Nat \ {0} /\ t < WordMod /\ BytePow[0] = 1
  BY WordModType, WordAssumption, SignBitType, BytePowAssumption DEF Words
<1>1. /\ n \in 1 .. NBYTES /\ BytePow[n - 1] <= t /\ t < BytePow[n]
      /\ c \in Nat /\ b \in CompactTarget
      /\ c < SignBit => b.size = n /\ b.mantissa = c
      /\ c >= SignBit => b.size = n + 1 /\ b.mantissa = c \div BYTE
  BY EncodedFields
<1>2. b.size \in 0 .. NBYTES + 1 /\ b.mantissa \in 0 .. SignBit - 1
  <2>. HIDE DEF b
  <2>. QED  BY <1>1 DEF CompactTarget
<1>3. v \in Nat /\ v <= t
  <2>1. v \in Words
    BY <1>1, FromBitsType
  <2>2. v \in Nat
    <3>. HIDE DEF v
    <3>. QED  BY <2>1, WordModType
  <2>. QED  BY <2>2, RoundTripRoundsDown
<1>4. PICK h \in Nat \ {0} : BYTE = 2 * h /\ SignBit = h * BytePow[2]
  BY BaseIsEven
<1>5. BytePow[1] = BYTE /\ BytePow[2] = BYTE * BYTE /\ BytePow[3] = BYTE * BytePow[2] /\ BytePow[2] \in Nat \ {0}
  <2>1. 2 \in 0..NBYTES
    BY <1>0
  <2>. QED  BY <1>0, <2>1, BaseIsEven
<1>6. e = IF c >= SignBit THEN (IF n < 3 THEN 0 ELSE n - 2) ELSE (IF n <= 3 THEN 0 ELSE n - 3)
  BY DEF CutExponent
<1>7. e \in 0 .. NBYTES - 2
  <2>. HIDE DEF e, c, n
  <2>. QED  BY <1>0, <1>1, <1>6
<1>a. \A x \in Nat : x <= t => x < WordMod
  BY <1>0, WordModType
<1>b. \A d \in Nat \ {0}, q \in Int : q * d <= t => q * d <= (t \div d) * d
  BY <1>0, CutIsGreatestMultiple
<1>8. CASE c < SignBit /\ n > 3
  <2>. DEFINE d == BytePow[n - 3]
  <2>1. d \in Nat \ {0} /\ c = t \div d /\ n - 3 \in 0 .. NBYTES /\ ~(n <= 3)
    <3>1. n - 3 \in 0 .. NBYTES /\ ~(n <= 3)
      BY <1>0, <1>1, <1>8
    <3>. QED  BY <3>1, <1>0 DEF LeadingDigits
  <2>2. c * d <= t /\ c * d \in Nat
    <3>. HIDE DEF d
    <3>1. (t \div d) * d <= t /\ t \div d \in Nat
      BY <2>1, <1>0, DivisionRoundsDown
    <3>. QED  BY <3>1, <2>1
  <2>3. v = c * d
    <3>1. b.size > 3 /\ b.mantissa * BytePow[b.size - 3] = c * d /\ c * d < WordMod
      <4>1. c * d < WordMod
        BY <1>a, <2>2
      <4>. HIDE DEF b
      <4>. QED  BY <1>0, <1>1, <1>8, <2>2, <4>1
    <3>. HIDE DEF b, c, d
    <3>. QED  BY <1>2, <3>1, FromBitsValue DEF v
  <2>4. PICK q \in Nat \ {0} : BytePow[n - 1] = q * d
    <3>1. n - 3 \in 0..NBYTES /\ n - 1 \in 0 .. NBYTES /\ n - 3 <= n - 1
      BY <1>0, <1>1, <2>1
    <3>. QED  BY <3>1, PowFactor
  <2>5. BytePow[n - 1] <= c * d
    <3>1. q * d <= t /\ q \in Int
      BY <1>1, <2>4
    <3>2. q * d <= (t \div d) * d
      BY <1>b, <2>1, <3>1
    <3>. HIDE DEF d, c
    <3>. QED  BY <2>1, <2>4, <3>2
  <2>6. SignBit * BytePow[n - 4] <= BytePow[n - 1]
    <3>. DEFINE w == BytePow[n - 4]
    <3>1. /\ n - 4 \in 0..NBYTES-1 /\ n - 3 \in 0..NBYTES-1 /\ n - 2 \in 0..NBYTES-1
          /\ (n - 4) + 1 = n - 3 /\ (n - 3) + 1 = n - 2 /\ (n - 2) + 1 = n - 1
      BY <1>0, <1>1, <1>8
    <3>2. BytePow[n - 3] = BYTE * w /\ BytePow[n - 2] = BYTE * BytePow[n - 3] /\ BytePow[n - 1] = BYTE * BytePow[n - 2]
          /\ w \in Nat
      BY <3>1, <1>0, BytePowAssumption
    <3>. HIDE DEF w
    <3>3. BytePow[n - 1] = BytePow[3] * w
      BY <3>2, <1>0, <1>5
    <3>4. SignBit <= BytePow[3] /\ BytePow[3] \in Nat
      BY <1>0 DEF SignBit
    <3>5. SignBit * w <= BytePow[3] * w
      BY <3>2, <3>4, <1>0
    <3>. QED  BY <3>3, <3>5 DEF w
  <2>7. e = n - 3 /\ e - 1 = n - 4
    <3>. HIDE DEF e, c, n
    <3>. QED  BY <1>1, <1>6, <1>8, <1>0
  <2>8. v >= SignBit * BytePow[n - 4] /\ BytePow[n - 1] <= v
    <3>. DEFINE x == SignBit * BytePow[n - 4]
                y == BytePow[n - 1]
                z == c * d
    <3>1. x \in Int /\ y \in Int /\ z \in Int
      <4>1. n - 4 \in 0 .. NBYTES /\ n - 1 \in 0 .. NBYTES
        BY <1>0, <1>1, <1>8
      <4>2. BytePow[n - 4] \in Int /\ BytePow[n - 1] \in Int
        BY <4>1, <1>0
      <4>. QED  BY <4>2, <1>0, <2>2
    <3>2. v = z /\ y <= z /\ x <= y
      BY <2>3, <2>5, <2>6
    <3>. HIDE DEF x, y, z, v
    <3>3. v >= x /\ y <= v
      BY <3>1, <3>2
    <3>. QED  BY <3>3 DEF x, y
  <2>. HIDE DEF v, c, n, e, d
  <2>. QED  BY <1>3, <1>7, <1>8, <2>1, <2>3, <2>7, <2>8 DEF d
<1>9. CASE c < SignBit /\ n <= 3
  <2>. DEFINE d == BytePow[3 - n]
  <2>1. d \in Nat \ {0} /\ c = t * d
    <3>1. 3 - n \in 0 .. NBYTES
      BY <1>0, <1>1, <1>9
    <3>. QED  BY <3>1, <1>0, <1>9 DEF LeadingDigits
  <2>2. v = c \div d
    <3>1. b.size <= 3 /\ b.size = n /\ b.mantissa = c
      BY <1>1, <1>9
    <3>. HIDE DEF b, c, n
    <3>. QED  BY <1>2, <3>1, FromBitsValue DEF v, d
  <2>3. v = t
    <3>. HIDE DEF d, c, v
    <3>. QED  BY <1>0, <2>1, <2>2, ExactDivision
  <2>4. e = 0
    <3>. HIDE DEF e, c, n
    <3>. QED  BY <1>1, <1>6, <1>9, <1>0
  <2>. HIDE DEF v, c, n, e
  <2>. QED  BY <1>0, <1>1, <1>3, <1>7, <2>3, <2>4
<1>10. CASE c >= SignBit /\ n < 3
  <2>. DEFINE d == BytePow[3 - n]
              f == BytePow[2 - n]
  <2>1. d \in Nat \ {0} /\ c = t * d /\ f \in Nat \ {0} /\ d = BYTE * f
    <3>1. 3 - n \in 0 .. NBYTES /\ 2 - n \in 0 .. NBYTES - 1 /\ (2 - n) + 1 = 3 - n
      BY <1>0, <1>1, <1>10
    <3>2. d = BYTE * f
      BY <3>1, BytePowAssumption
    <3>3. c = t * d
      <4>1. n <= 3
        <5>. HIDE DEF n
        <5>. QED  BY <1>1, <1>10
      <4>. QED  BY <4>1 DEF LeadingDigits
    <3>. QED  BY <3>1, <3>2, <3>3, <1>0
  <2>2. c \div BYTE = t * f /\ t * f \in Nat
    <3>. HIDE DEF d, f, c
    <3>1. c = (t * f) * BYTE /\ t * f \in Nat
      BY <1>0, <2>1
    <3>. QED  BY <3>1, <1>0, ExactDivision
  <2>3. v = (t * f) \div f
    <3>1. b.size = n + 1 /\ b.mantissa = t * f
      BY <1>1, <1>10, <2>2
    <3>2. b.size <= 3 /\ 3 - b.size = 2 - n
      <4>. HIDE DEF b, n
      <4>. QED  BY <1>1, <1>10, <3>1
    <3>. HIDE DEF b, c, n
    <3>. QED  BY <1>2, <3>1, <3>2, FromBitsValue DEF v, f
  <2>4. v = t
    <3>. HIDE DEF f, c, v
    <3>. QED  BY <1>0, <2>1, <2>3, ExactDivision
  <2>5. e = 0
    <3>. HIDE DEF e, c, n
    <3>. QED  BY <1>1, <1>6, <1>10, <1>0
  <2>. HIDE DEF v, c, n, e
  <2>. QED  BY <1>0, <1>1, <1>3, <1>7, <2>4, <2>5
<1>11. CASE c >= SignBit /\ n >= 3
  <2>. DEFINE d == BytePow[n - 3]
              f == BytePow[n - 2]
              k == c \div BYTE
  <2>1. /\ d \in Nat \ {0} /\ f \in Nat \ {0} /\ f = BYTE * d /\ n - 2 \in 0 .. NBYTES
        /\ n - 3 \in 0 .. NBYTES
    <3>1. n - 3 \in 0 .. NBYTES - 1 /\ n - 2 \in 0 .. NBYTES /\ (n - 3) + 1 = n - 2 /\ n - 3 \in 0..NBYTES
      BY <1>0, <1>1, <1>11
    <3>2. f = BYTE * d
      BY <3>1, BytePowAssumption
    <3>. QED  BY <3>1, <3>2, <1>0
  <2>2. c = t \div d
    <3>1. CASE n > 3
      <4>1. ~(n <= 3)
        <5>. HIDE DEF n
        <5>. QED  BY <1>1, <3>1
      <4>. QED  BY <4>1 DEF LeadingDigits
    <3>2. CASE n = 3
      <4>1. c = t * 1 /\ d = 1
        <5>1. n <= 3 /\ 3 - n = 0 /\ n - 3 = 0
          BY <3>2
        <5>. QED  BY <5>1, <1>0 DEF LeadingDigits
      <4>. HIDE DEF c, d
      <4>. QED  BY <4>1, <1>0
    <3>. HIDE DEF c, d, n
    <3>. QED  BY <3>1, <3>2, <1>1, <1>11
  <2>3. k = t \div f /\ k \in Nat
    <3>1. c \in Nat
      BY <1>1
    <3>2. (t \div d) \div BYTE = t \div (d * BYTE)
      <4>. HIDE DEF d
      <4>. QED  BY <2>1, <1>0, DivTwice
    <3>3. d * BYTE = f
      <4>. HIDE DEF d, f
      <4>. QED  BY <2>1, <1>0
    <3>. HIDE DEF c, d, f
    <3>. QED  BY <2>2, <3>1, <3>2, <3>3, <1>0
  <2>4. k * f <= t /\ k * f \in Nat
    <3>. HIDE DEF k, f, c
    <3>1. (t \div f) * f <= t /\ t \div f \in Nat
      BY <2>1, <1>0, DivisionRoundsDown
    <3>. QED  BY <3>1, <2>1, <2>3
  <2>5. v = k * f
    <3>1. /\ b.size > 3 /\ b.mantissa * BytePow[b.size - 3] = k * f /\ k * f < WordMod
      <4>1. k * f < WordMod
        BY <1>a, <2>4
      <4>2. b.size = n + 1 /\ b.mantissa = k
        BY <1>1, <1>11
      <4>3. b.size > 3 /\ b.size - 3 = n - 2
        <5>. HIDE DEF b, n
        <5>. QED  BY <4>2, <1>1, <1>11
      <4>. HIDE DEF b, k, c
      <4>. QED  BY <4>1, <4>2, <4>3
    <3>. HIDE DEF b, c, k, f
    <3>. QED  BY <1>2, <3>1, FromBitsValue DEF v
  <2>. DEFINE sd == SignBit * d
              hB == h * BYTE
  <2>6. sd \in Nat /\ sd = hB * f /\ hB \in Nat
    <3>. HIDE DEF d, f
    <3>1. SignBit = h * (BYTE * BYTE)
      BY <1>4, <1>5
    <3>2. hB \in Nat /\ sd \in Nat
      BY <1>0, <2>1, <1>4
    <3>3. (h * (BYTE * BYTE)) * d = (h * BYTE) * (BYTE * d)
      BY <1>0, <2>1, <1>4
    <3>. QED  BY <2>1, <3>1, <3>2, <3>3
  <2>7. sd <= t
    <3>. HIDE DEF d, c, sd
    <3>1. (t \div d) * d <= t /\ t \div d \in Nat
      BY <2>1, <1>0, DivisionRoundsDown
    <3>2. SignBit * d <= c * d /\ c * d \in Int /\ SignBit * d \in Int
      BY <1>1, <1>11, <2>1, <1>0
    <3>. QED  BY <3>1, <3>2, <2>2, <1>0 DEF sd
  <2>8. sd <= v
    <3>1. hB * f <= (t \div f) * f
      <4>1. hB * f <= t /\ hB \in Int
        BY <2>6, <2>7
      <4>. QED  BY <1>b, <2>1, <4>1
    <3>. HIDE DEF hB, f, d, c, sd, v, k
    <3>. QED  BY <2>3, <2>5, <2>6, <3>1
  <2>9. BytePow[n - 1] <= v
    <3>1. n - 2 \in 0..NBYTES /\ n - 1 \in 0 .. NBYTES /\ n - 2 <= n - 1
      BY <1>0, <1>1, <2>1
    <3>2. PICK q \in Nat \ {0} : BytePow[n - 1] = q * f
      BY <3>1, PowFactor
    <3>3. q * f <= (t \div f) * f
      <4>1. q * f <= t /\ q \in Int
        BY <1>1, <3>2
      <4>. QED  BY <1>b, <2>1, <4>1
    <3>. HIDE DEF k, f, v, d
    <3>. QED  BY <2>3, <2>5, <3>2, <3>3
  <2>10. e = n - 2 /\ e - 1 = n - 3
    <3>. HIDE DEF e, c, n
    <3>. QED  BY <1>1, <1>6, <1>11, <1>0
  <2>11. v = (t \div BytePow[e]) * BytePow[e]
    BY <2>3, <2>5, <2>10
  <2>12. SignBit * BytePow[e - 1] <= v
    BY <2>8, <2>10
  <2>. HIDE DEF v, c, n, e, d, f, k, sd
  <2>13. v >= SignBit * BytePow[e - 1]
    BY <2>12
  <2>. QED  BY <1>3, <1>7, <1>11, <2>9, <2>11, <2>13
<1>12. (c < SignBit /\ n > 3) \/ (c < SignBit /\ n <= 3) \/ (c >= SignBit /\ n < 3) \/ (c >= SignBit /\ n >= 3)
  <2>. HIDE DEF c, n
  <2>. QED  BY <1>0, <1>1
<1>. QED  BY <1>8, <1>9, <1>10, <1>11, <1>12

(* Encoding the expansion of an encoded target gives the same compact      *)
(* target: nbits are a normal form.                                        *)
LEMMA EncodingIsCanonical ==
  ASSUME NEW t \in Words
  PROVE  target_to_bits(target_from_bits(target_to_bits(t))) = target_to_bits(t)
<1>. DEFINE e == CutExponent(t)
            n == SignificantBytes(t)
            c == LeadingDigits(t, n)
            b == target_to_bits(t)
            v == target_from_bits(b)
<1>0. /\ t \in Nat /\ BYTE \in Nat \ {0} /\ NBYTES \in Nat /\ NBYTES >= 3
      /\ \A k \in 0 .. NBYTES : BytePow[k] \in Nat \ {0}
      /\ SignBit \in Nat \ {0} /\ BytePow[0] = 1
  BY WordModType, WordAssumption, SignBitType, BytePowAssumption
<1>1. CASE t = 0
  <2>1. b = [size |-> 0, mantissa |-> 0]
    BY <1>1 DEF target_to_bits
  <2>2. BytePow[3] \in Nat \ {0} /\ 0 \div BytePow[3] = 0
    BY <1>0
  <2>3. 0 % SignBit = 0
    BY <1>0
  <2>. HIDE DEF b
  <2>4. v = 0
    BY <2>1, <2>2, <2>3 DEF target_from_bits
  <2>. QED  BY <1>1, <2>4 DEF b
<1>2. CASE t > 0
  <2>1. /\ n \in 1 .. NBYTES /\ t < BytePow[n] /\ c \in Nat
    BY <1>2, EncodedFields
  <2>2. /\ e \in 0 .. NBYTES - 2
        /\ v = (t \div BytePow[e]) * BytePow[e]
        /\ v \in Nat /\ v <= t /\ BytePow[n - 1] <= v
        /\ e > 0 => v >= SignBit * BytePow[e - 1]
    BY <1>2, RoundTripCuts
  <2>3. e = IF c >= SignBit THEN (IF n < 3 THEN 0 ELSE n - 2) ELSE (IF n <= 3 THEN 0 ELSE n - 3)
    BY DEF CutExponent
  <2>4. n - 1 \in 0..NBYTES /\ BytePow[n - 1] \in Nat \ {0} /\ BytePow[n] \in Nat
    <3>1. n - 1 \in 0..NBYTES /\ n \in 0..NBYTES
      BY <1>0, <2>1
    <3>. QED  BY <1>0, <3>1
  <2>. HIDE DEF v
  <2>5. v # 0 /\ SignificantBytes(v) = n
    <3>1. v < BytePow[n] /\ v # 0
      BY <1>0, <2>1, <2>2, <2>4
    <3>. HIDE DEF n
    <3>. QED  BY <2>1, <2>2, <3>1, DigitsBetweenPowers
  <2>. DEFINE cv == LeadingDigits(v, n)
  <2>6. target_to_bits(v) = IF cv >= SignBit THEN [size |-> n + 1, mantissa |-> (cv \div BYTE) % SignBit]
                                             ELSE [size |-> n, mantissa |-> cv]
    BY <2>5 DEF target_to_bits
  <2>7. b = IF c >= SignBit THEN [size |-> n + 1, mantissa |-> (c \div BYTE) % SignBit]
                            ELSE [size |-> n, mantissa |-> c]
    <3>1. t # 0
      BY <1>0, <1>2
    <3>. QED  BY <3>1 DEF target_to_bits
  <2>8. CASE e = 0
    <3>1. v = t
      <4>1. v = (t \div 1) * 1
        BY <1>0, <2>2, <2>8
      <4>. QED  BY <1>0, <4>1
    <3>. QED  BY <3>1 DEF v
  <2>9. CASE e > 0 /\ c < SignBit
    <3>1. n > 3 /\ e = n - 3 /\ n - 3 \in 0 .. NBYTES /\ ~(n <= 3) /\ ~(c >= SignBit)
      <4>. HIDE DEF e, c, n
      <4>. QED  BY <1>0, <2>1, <2>3, <2>9
    <3>. DEFINE d == BytePow[n - 3]
    <3>2. d \in Nat \ {0} /\ c = t \div d /\ cv = v \div d
      BY <1>0, <3>1 DEF LeadingDigits
    <3>3. v = c * d
      BY <2>2, <3>1, <3>2
    <3>4. cv = c
      <4>. HIDE DEF cv, c, d
      <4>. QED  BY <2>1, <3>2, <3>3, ExactDivision
    <3>. QED  BY <2>6, <2>7, <3>4 DEF v
  <2>10. CASE e > 0 /\ c >= SignBit
    <3>1. n >= 3 /\ e = n - 2 /\ e - 1 = n - 3 /\ n - 2 \in 0 .. NBYTES /\ n - 3 \in 0 .. NBYTES - 1
      <4>. HIDE DEF e, c, n
      <4>. QED  BY <1>0, <2>1, <2>3, <2>10
    <3>. DEFINE d == BytePow[n - 3]
                f == BytePow[n - 2]
                k == c \div BYTE
    <3>2. d \in Nat \ {0} /\ f \in Nat \ {0} /\ f = BYTE * d
      <4>1. (n - 3) + 1 = n - 2 /\ n - 3 \in 0..NBYTES
        BY <1>0, <2>1, <3>1
      <4>2. f = BYTE * d
        BY <3>1, <4>1, BytePowAssumption
      <4>. QED  BY <1>0, <3>1, <4>1, <4>2
    <3>3. /\ c = t \div d /\ cv = v \div d
      <4>1. CASE n > 3
        <5>1. ~(n <= 3)
          <6>. HIDE DEF n
          <6>. QED  BY <2>1, <4>1
        <5>. QED  BY <5>1 DEF LeadingDigits
      <4>2. CASE n = 3
        <5>1. c = t * 1 /\ cv = v * 1 /\ d = 1
          <6>1. n <= 3 /\ 3 - n = 0 /\ n - 3 = 0
            BY <4>2
          <6>. QED  BY <6>1, <1>0 DEF LeadingDigits
        <5>. HIDE DEF c, d, cv
        <5>. QED  BY <1>0, <2>2, <5>1
      <4>. HIDE DEF c, d, n, cv
      <4>. QED  BY <2>1, <3>1, <4>1, <4>2
    <3>4. k = t \div f /\ k \in Nat
      <4>1. c \in Nat
        BY <2>1
      <4>2. (t \div d) \div BYTE = t \div (d * BYTE)
        <5>. HIDE DEF d
        <5>. QED  BY <1>0, <3>2, DivTwice
      <4>3. d * BYTE = f
        <5>. HIDE DEF d, f
        <5>. QED  BY <1>0, <3>2
      <4>. HIDE DEF c, d, f
      <4>. QED  BY <1>0, <3>3, <4>1, <4>2, <4>3
    <3>5. v = k * f
      BY <2>2, <3>1, <3>4
    <3>. DEFINE kB == k * BYTE
    <3>6. kB \in Nat /\ v = kB * d
      <4>. HIDE DEF k, d, f
      <4>1. k * (BYTE * d) = (k * BYTE) * d /\ k * BYTE \in Nat
        BY <1>0, <3>2, <3>4
      <4>. QED  BY <3>2, <3>5, <4>1
    <3>7. cv = kB
      <4>. HIDE DEF cv, kB, d, c, k
      <4>. QED  BY <3>2, <3>3, <3>6, ExactDivision
    <3>8. cv \div BYTE = k
      <4>. HIDE DEF k, cv
      <4>. QED  BY <1>0, <3>4, <3>7, ExactDivision
    <3>9. cv >= SignBit
      <4>. DEFINE x == cv
      <4>1. x * d >= SignBit * d
        BY <2>2, <2>10, <3>1, <3>6, <3>7
      <4>2. x \in Nat
        BY <3>6, <3>7
      <4>. HIDE DEF x, d, c, n, e
      <4>3. ASSUME x <= SignBit - 1 PROVE FALSE
        <5>1. x * d <= (SignBit - 1) * d
          BY <1>0, <3>2, <4>2, <4>3
        <5>2. (SignBit - 1) * d = SignBit * d - d /\ SignBit * d \in Int /\ x * d \in Int
          BY <1>0, <3>2, <4>2
        <5>. QED  BY <3>2, <4>1, <5>1, <5>2
      <4>4. x >= SignBit
        BY <1>0, <4>2, <4>3
      <4>. QED  BY <4>4 DEF x
    <3>. QED  BY <2>6, <2>7, <2>10, <3>8, <3>9 DEF v
  <2>11. e = 0 \/ (e > 0 /\ c < SignBit) \/ (e > 0 /\ c >= SignBit)
    <3>. HIDE DEF e, c
    <3>. QED  BY <1>0, <2>1, <2>2
  <2>. QED  BY <2>8, <2>9, <2>10, <2>11
<1>. QED  BY <1>0, <1>1, <1>2

(* What a target encodes to expands to the greatest multiple of a power of *)
(* the base, with a mantissa below the sign bit, that is not above it.     *)
LEMMA RoundTripIsGreatest ==
  ASSUME NEW t \in Words, NEW m \in 0 .. SignBit - 1, NEW k \in 0 .. NBYTES, m * BytePow[k] <= t
  PROVE  m * BytePow[k] <= target_from_bits(target_to_bits(t))
<1>. DEFINE e == CutExponent(t)
            v == target_from_bits(target_to_bits(t))
            r == m * BytePow[k]
<1>0. /\ t \in Nat /\ NBYTES \in Nat /\ NBYTES >= 3 /\ BytePow[k] \in Nat \ {0} /\ m \in Nat
      /\ \A j \in 0 .. NBYTES : BytePow[j] \in Nat \ {0}
      /\ SignBit \in Nat \ {0} /\ BytePow[0] = 1 /\ r \in Nat /\ v \in Nat
  <2>1. v \in Words
    BY ToBitsType, FromBitsType
  <2>2. v \in Nat
    <3>. HIDE DEF v
    <3>. QED  BY <2>1, WordModType
  <2>3. m \in Nat /\ BytePow[k] \in Nat
    BY SignBitType, WordAssumption
  <2>4. r \in Nat
    BY <2>3
  <2>. QED  BY <2>2, <2>3, <2>4, WordModType, WordAssumption, SignBitType, BytePowAssumption
<1>1. CASE t = 0
  BY <1>0, <1>1
<1>2. CASE t > 0
  <2>1. /\ e \in 0 .. NBYTES - 2
        /\ v = (t \div BytePow[e]) * BytePow[e]
        /\ e > 0 => v >= SignBit * BytePow[e - 1]
    BY <1>2, RoundTripCuts
  <2>. DEFINE u == BytePow[e]
  <2>2. u \in Nat \ {0} /\ e \in 0..NBYTES
    <3>1. e \in 0 .. NBYTES
      <4>. HIDE DEF e
      <4>. QED  BY <1>0, <2>1
    <3>. QED  BY <1>0, <3>1
  <2>3. CASE e <= k
    <3>1. PICK q \in Nat \ {0} : BytePow[k] = q * u
      BY <2>2, <2>3, PowFactor
    <3>. HIDE DEF u, e, v
    <3>2. m * (q * u) = (m * q) * u /\ m * q \in Int
      BY <1>0, <2>2
    <3>3. (m * q) * u <= t
      BY <3>1, <3>2
    <3>4. (m * q) * u <= (t \div u) * u
      <4>. DEFINE mq == m * q
      <4>1. mq \in Int /\ mq * u <= t
        BY <3>2, <3>3
      <4>. HIDE DEF mq
      <4>2. mq * u <= (t \div u) * u
        BY <1>0, <2>2, <4>1, CutIsGreatestMultiple
      <4>. QED  BY <4>2 DEF mq
    <3>5. r <= v
      BY <2>1, <3>1, <3>2, <3>4 DEF u
    <3>. QED  BY <3>5 DEF v
  <2>4. CASE k <= e - 1
    <3>. DEFINE w == BytePow[e - 1]
    <3>1. e > 0 /\ e - 1 \in 0 .. NBYTES /\ k <= e - 1
      <4>. HIDE DEF e
      <4>. QED  BY <1>0, <2>1, <2>4
    <3>2. w \in Nat \ {0} /\ BytePow[k] <= w
      BY <1>0, <3>1, BytePowGrows
    <3>3. SignBit * w <= v
      BY <2>1, <3>1, <1>0
    <3>. HIDE DEF w, v, e
    <3>4. m * BytePow[k] <= m * w /\ m * w <= SignBit * w
      BY <1>0, <3>2
    <3>5. m * w \in Int /\ SignBit * w \in Int
      BY <1>0, <3>2
    <3>. DEFINE mw == m * w
                sw == SignBit * w
    <3>6. r <= mw /\ mw <= sw /\ sw <= v /\ mw \in Int /\ sw \in Int
      BY <3>3, <3>4, <3>5
    <3>. HIDE DEF mw, sw, r
    <3>7. r <= v
      BY <1>0, <3>6
    <3>. QED  BY <3>7 DEF r, v
  <2>5. e <= k \/ k <= e - 1
    <3>. HIDE DEF e
    <3>. QED  BY <2>1, <1>0
  <2>. QED  BY <2>3, <2>4, <2>5
<1>. QED  BY <1>0, <1>1, <1>2

-----------------------------------------------------------------------------
(* A run of n blocks flushed at once and one block added afterwards is a   *)
(* run of n + 1 flushed at once, also when the sums wrap.                  *)
LEMMA RunExtends ==
  ASSUME NEW cw \in Words, NEW w \in Words, NEW n \in Nat
  PROVE  WordAdd(WordAdd(cw, WordMul(w, n)), w) = WordAdd(cw, WordMul(w, n + 1))
<1>. DEFINE M == WordMod
            p == w * n
            q == w * (n + 1)
            pm == p % M
            qm == q % M
<1>0. M \in Nat \ {0} /\ cw \in Nat /\ w \in Nat
  BY WordModType
<1>1. p \in Nat /\ q = p + w /\ q \in Nat
  BY <1>0
<1>. HIDE DEF M, p, q
<1>2. pm \in Nat /\ qm \in Nat
  BY <1>0, <1>1
<1>s. \A x, y \in Int : ((x % M) + y) % M = (x + y) % M
  BY <1>0, ModOfSum
<1>t. cw + pm \in Int /\ cw + w \in Int /\ p \in Int /\ q \in Int /\ cw \in Int /\ w \in Int
  <2>. HIDE DEF pm
  <2>. QED  BY <1>0, <1>1, <1>2
<1>3. (((cw + pm) % M) + w) % M = ((cw + pm) + w) % M
  BY <1>s, <1>t, Zenon
<1>4. (pm + (cw + w)) % M = (p + (cw + w)) % M
  BY <1>s, <1>t, Zenon
<1>5. (qm + cw) % M = (q + cw) % M
  BY <1>s, <1>t, Zenon
<1>. HIDE DEF pm, qm
<1>6. (cw + pm) + w = pm + (cw + w) /\ p + (cw + w) = q + cw /\ cw + qm = qm + cw
  BY <1>0, <1>1, <1>2
<1>7. (((cw + pm) % M) + w) % M = (cw + qm) % M
  BY <1>3, <1>4, <1>5, <1>6
<1>. QED  BY <1>7 DEF WordAdd, WordMul, M, p, q, pm, qm
=============================================================================
