--------------------------- MODULE EpochLimbsProofs ---------------------------
(***************************************************************************)
(* Arithmetic on limbs is arithmetic on the integers they stand for, for   *)
(* every width of a limb, and so each iteration of the loop on limbs is    *)
(* one iteration of long division.                                         *)
(*                                                                         *)
(* Everything is done one limb at a time: an operation on four limbs       *)
(* relates the column of each limb to the columns above it, and the        *)
(* relation is carried from the top limb down.                             *)
(***************************************************************************)
EXTENDS EpochLimbs, DifficultyProofs

DivProofs == INSTANCE WorkDivisionProofs WITH
  target <- Value(call.target), divisor <- Value(divisor), bit <- bit,
  remainder <- Value(remainder), quotient <- Value(quotient)

M == Pow2[BITS]

-----------------------------------------------------------------------------
(* A limb is even in size, and a word is four of them.                     *)
LEMMA LimbSize ==
  /\ LIMB \in Nat /\ LIMB >= 2 /\ LIMB % 2 = 0
  /\ M = LIMB * (LIMB * (LIMB * LIMB)) /\ M \in Nat /\ M >= 2
<1>1. /\ WIDTH \in Nat \ {0} /\ BITS = 4 * WIDTH
      /\ WIDTH \in 0..BITS /\ 2 * WIDTH \in 0..BITS /\ 3 * WIDTH \in 0..BITS
      /\ WIDTH + WIDTH = 2 * WIDTH /\ WIDTH + 2 * WIDTH = 3 * WIDTH
      /\ WIDTH + 3 * WIDTH = BITS /\ WIDTH - 1 \in 0..BITS-1 /\ BITS \in 0..BITS
  BY WidthAssumption
<1>2. Pow2[2 * WIDTH] = LIMB * LIMB
  BY <1>1, PowersMultiply DEF LIMB
<1>3. Pow2[3 * WIDTH] = LIMB * (LIMB * LIMB)
  BY <1>1, <1>2, PowersMultiply DEF LIMB
<1>4. M = LIMB * (LIMB * (LIMB * LIMB))
  BY <1>1, <1>3, PowersMultiply DEF LIMB, M
<1>5. /\ Pow2[WIDTH] \in Nat \ {0} /\ Pow2[WIDTH - 1] \in Nat \ {0}
      /\ Pow2[WIDTH] = 2 * Pow2[WIDTH - 1]
  <2>1. WIDTH - 1 \in 0..BITS-1 /\ WIDTH - 1 \in 0..BITS /\ (WIDTH - 1) + 1 = WIDTH
    BY <1>1
  <2>. QED  BY <1>1, <2>1, Pow2Assumption
<1>6. LIMB \in Nat /\ LIMB >= 2 /\ LIMB % 2 = 0
  BY <1>5 DEF LIMB
<1>7. M \in Nat /\ M >= 2
  BY Pow2Assumption, DivProofs!WordSize DEF M, DivProofs!M
<1>. QED  BY <1>4, <1>6, <1>7

(* A column of one limb over N values above it.                            *)
LEMMA HornerBound ==
  ASSUME NEW L \in Nat \ {0}, NEW N \in Nat \ {0}, NEW x \in 0..L-1, NEW y \in 0..N-1
  PROVE  x + L * y \in 0 .. L * N - 1
<1>1. L * y <= L * (N - 1) /\ L * y >= 0 /\ L * y \in Int
  OBVIOUS
<1>2. L * (N - 1) = L * N - L
  OBVIOUS
<1>3. L * N \in Int /\ x + L * y \in Int
  OBVIOUS
<1>. QED  BY <1>1, <1>2, <1>3

LEMMA HornerLess ==
  ASSUME NEW L \in Nat \ {0}, NEW x \in 0..L-1, NEW z \in 0..L-1, NEW a \in Nat, NEW b \in Nat
  PROVE  /\ x + L * a < z + L * b <=> (a < b \/ (a = b /\ x < z))
         /\ x + L * a = z + L * b <=> (a = b /\ x = z)
<1>1. ASSUME NEW p \in Nat, NEW q \in Nat, NEW u \in 0..L-1, NEW v \in 0..L-1, p < q
      PROVE  u + L * p < v + L * q
  <2>1. L * (p + 1) <= L * q
    BY <1>1
  <2>2. L * (p + 1) = L * p + L
    OBVIOUS
  <2>3. L * p \in Int /\ L * q \in Int
    OBVIOUS
  <2>. QED  BY <2>1, <2>2, <2>3
<1>2. L * a \in Int /\ L * b \in Int
  OBVIOUS
<1>3. CASE a < b
  BY <1>1, <1>3
<1>4. CASE a = b
  BY <1>2, <1>4
<1>5. CASE b < a
  <2>1. z + L * b < x + L * a
    BY <1>1, <1>5
  <2>. QED  BY <2>1, <1>2, <1>5
<1>. QED  BY <1>3, <1>4, <1>5

(* A column as an operator, which the provers can tell from its sum.       *)
Over(x, y) == x + LIMB * y

LEMMA OverLess ==
  \A x, z \in 0..LIMB-1 : \A a, b \in Nat :
    /\ Over(x, a) < Over(z, b) <=> (a < b \/ (a = b /\ x < z))
    /\ Over(x, a) = Over(z, b) <=> (a = b /\ x = z)
<1>1. LIMB \in Nat \ {0}
  BY LimbSize
<1>. SUFFICES ASSUME NEW x \in 0..LIMB-1, NEW z \in 0..LIMB-1, NEW a \in Nat, NEW b \in Nat
              PROVE  /\ x + LIMB * a < z + LIMB * b <=> (a < b \/ (a = b /\ x < z))
                     /\ x + LIMB * a = z + LIMB * b <=> (a = b /\ x = z)
  BY DEF Over
<1>. QED  BY <1>1, HornerLess

LEMMA OverType == \A x \in 0..LIMB-1 : \A a \in Nat : Over(x, a) \in Nat
  BY LimbSize DEF Over

LEMMA ValueType ==
  ASSUME NEW a \in u256
  PROVE  /\ Value(a) \in 0 .. M - 1
         /\ a[0] \in 0..LIMB-1 /\ a[1] \in 0..LIMB-1 /\ a[2] \in 0..LIMB-1 /\ a[3] \in 0..LIMB-1
<1>1. /\ a[0] \in 0..LIMB-1 /\ a[1] \in 0..LIMB-1 /\ a[2] \in 0..LIMB-1 /\ a[3] \in 0..LIMB-1
      /\ LIMB \in Nat \ {0} /\ LIMB * LIMB \in Nat \ {0} /\ LIMB * (LIMB * LIMB) \in Nat \ {0}
  BY LimbSize DEF u256, Index
<1>2. a[2] + LIMB * a[3] \in 0 .. LIMB * LIMB - 1
  BY <1>1, HornerBound
<1>3. a[1] + LIMB * (a[2] + LIMB * a[3]) \in 0 .. LIMB * (LIMB * LIMB) - 1
  BY <1>1, <1>2, HornerBound
<1>4. Value(a) \in 0 .. LIMB * (LIMB * (LIMB * LIMB)) - 1
  BY <1>1, <1>3, HornerBound DEF Value
<1>. QED  BY <1>1, <1>4, LimbSize

-----------------------------------------------------------------------------
(* The order of limbs, the most significant one first, is the order of the *)
(* integers.                                                               *)
LEMMA LessIsLess ==
  ASSUME NEW a \in u256, NEW b \in u256
  PROVE  Less(a, b) <=> Value(a) < Value(b)
<1>1. /\ a[0] \in 0..LIMB-1 /\ a[1] \in 0..LIMB-1 /\ a[2] \in 0..LIMB-1 /\ a[3] \in 0..LIMB-1
      /\ b[0] \in 0..LIMB-1 /\ b[1] \in 0..LIMB-1 /\ b[2] \in 0..LIMB-1 /\ b[3] \in 0..LIMB-1
      /\ LIMB \in Nat \ {0}
  BY ValueType, LimbSize
<1>. DEFINE a2 == Over(a[2], a[3])
            b2 == Over(b[2], b[3])
            a1 == Over(a[1], a2)
            b1 == Over(b[1], b2)
<1>2. a[3] \in Nat /\ b[3] \in Nat
  BY <1>1
<1>3. /\ a2 < b2 <=> (a[3] < b[3] \/ (a[3] = b[3] /\ a[2] < b[2]))
      /\ a2 = b2 <=> (a[3] = b[3] /\ a[2] = b[2])
  BY <1>1, <1>2, OverLess
<1>4. a2 \in Nat /\ b2 \in Nat
  BY <1>1, <1>2, OverType
<1>. HIDE DEF a2, b2
<1>5. /\ a1 < b1 <=> (a2 < b2 \/ (a2 = b2 /\ a[1] < b[1]))
      /\ a1 = b1 <=> (a2 = b2 /\ a[1] = b[1])
  BY <1>1, <1>4, OverLess
<1>7. a1 \in Nat /\ b1 \in Nat
  BY <1>1, <1>4, OverType
<1>. HIDE DEF a1, b1
<1>8. Value(a) < Value(b) <=> (a1 < b1 \/ (a1 = b1 /\ a[0] < b[0]))
  <2>1. Value(a) = Over(a[0], a1) /\ Value(b) = Over(b[0], b1)
    BY DEF Value, Over, a1, b1, a2, b2
  <2>. QED  BY <2>1, <1>1, <1>7, OverLess
<1>9. Less(a, b) <=> \/ a[3] < b[3]
                     \/ a[3] = b[3] /\ a[2] < b[2]
                     \/ a[3] = b[3] /\ a[2] = b[2] /\ a[1] < b[1]
                     \/ a[3] = b[3] /\ a[2] = b[2] /\ a[1] = b[1] /\ a[0] < b[0]
  BY <1>1 DEF Less, Index
<1>. QED  BY <1>1, <1>3, <1>5, <1>8, <1>9

(* One limb of a subtraction: the two borrows together make one.           *)
LEMMA SubLimb ==
  ASSUME NEW x \in 0..LIMB-1, NEW y \in 0..LIMB-1, NEW c \in {0, 1}
  PROVE  /\ Borrow(x, y, c) \in {0, 1}
         /\ Wrapped(Wrapped(x, y), c) = x - y - c + LIMB * Borrow(x, y, c)
         /\ Wrapped(Wrapped(x, y), c) \in 0..LIMB-1
<1>1. LIMB \in Nat /\ LIMB >= 2
  BY LimbSize
<1>. DEFINE Cut(z) == IF z < 0 THEN z + LIMB ELSE z
<1>2. \A u, v \in 0..LIMB-1 : Wrapped(u, v) = Cut(u - v)
  <2>1. ASSUME NEW u \in 0..LIMB-1, NEW v \in 0..LIMB-1 PROVE Wrapped(u, v) = Cut(u - v)
    <3>1. CASE u < v
      <4>1. u - v = LIMB * (-1) + (u - v + LIMB) /\ u - v + LIMB \in 0 .. LIMB - 1
        BY <1>1, <3>1
      <4>2. (LIMB * (-1) + (u - v + LIMB)) % LIMB = u - v + LIMB
        BY <1>1, <4>1, ModUnique
      <4>. QED  BY <3>1, <4>1, <4>2 DEF Wrapped
    <3>2. CASE u >= v
      <4>1. u - v = LIMB * 0 + (u - v) /\ u - v \in 0 .. LIMB - 1
        BY <1>1, <3>2
      <4>2. (LIMB * 0 + (u - v)) % LIMB = u - v
        BY <1>1, <4>1, ModUnique
      <4>. QED  BY <3>2, <4>1, <4>2 DEF Wrapped
    <3>. QED  BY <3>1, <3>2
  <2>. QED  BY <2>1
<1>3. Wrapped(x, y) = Cut(x - y) /\ Wrapped(x, y) \in 0..LIMB-1
  BY <1>1, <1>2
<1>4. c \in 0..LIMB-1 /\ Wrapped(Wrapped(x, y), c) = Cut(Wrapped(x, y) - c)
  BY <1>1, <1>2, <1>3
<1>5. LIMB * 0 = 0 /\ LIMB * 1 = LIMB
  BY <1>1
<1>. QED  BY <1>1, <1>3, <1>4, <1>5 DEF Borrow

(* The columns above, and one more limb below them.                        *)
LEMMA SubHorner ==
  ASSUME NEW L \in Int, NEW x \in Int, NEW y \in Int, NEW c \in Int, NEW d \in Int,
         NEW S \in Int, NEW T \in Int, NEW K \in Int, NEW o \in Int
  PROVE  (x - y - c + L * d) + L * (S - T - d + K * o)
           = (x + L * S) - (y + L * T) - c + (L * K) * o
  OBVIOUS

LEMMA SubIsSub ==
  ASSUME NEW a \in u256, NEW b \in u256
  PROVE  /\ sub_assign(a, b) \in u256
         /\ Value(sub_assign(a, b)) = (Value(a) - Value(b)) % M
<1>. DEFINE b1 == Borrow(a[0], b[0], 0)
            b2 == Borrow(a[1], b[1], b1)
            b3 == Borrow(a[2], b[2], b2)
            b4 == Borrow(a[3], b[3], b3)
            r  == sub_assign(a, b)
<1>1. /\ a[0] \in 0..LIMB-1 /\ a[1] \in 0..LIMB-1 /\ a[2] \in 0..LIMB-1 /\ a[3] \in 0..LIMB-1
      /\ b[0] \in 0..LIMB-1 /\ b[1] \in 0..LIMB-1 /\ b[2] \in 0..LIMB-1 /\ b[3] \in 0..LIMB-1
      /\ LIMB \in Nat /\ LIMB >= 2 /\ M \in Nat /\ M = LIMB * (LIMB * (LIMB * LIMB))
      /\ Value(a) \in 0..M-1 /\ Value(b) \in 0..M-1
  BY ValueType, LimbSize
<1>2. /\ r[0] = Wrapped(Wrapped(a[0], b[0]), 0)
      /\ r[1] = Wrapped(Wrapped(a[1], b[1]), b1)
      /\ r[2] = Wrapped(Wrapped(a[2], b[2]), b2)
      /\ r[3] = Wrapped(Wrapped(a[3], b[3]), b3)
      /\ r = [i \in Index |-> r[i]]
  BY DEF sub_assign, Index
<1>. HIDE DEF r
<1>3. b1 \in {0, 1} /\ r[0] = a[0] - b[0] - 0 + LIMB * b1 /\ r[0] \in 0..LIMB-1
  BY <1>1, <1>2, SubLimb
<1>. HIDE DEF b1
<1>4. b2 \in {0, 1} /\ r[1] = a[1] - b[1] - b1 + LIMB * b2 /\ r[1] \in 0..LIMB-1
  BY <1>1, <1>2, <1>3, SubLimb
<1>. HIDE DEF b2
<1>5. b3 \in {0, 1} /\ r[2] = a[2] - b[2] - b2 + LIMB * b3 /\ r[2] \in 0..LIMB-1
  BY <1>1, <1>2, <1>4, SubLimb
<1>. HIDE DEF b3
<1>6. b4 \in {0, 1} /\ r[3] = a[3] - b[3] - b3 + LIMB * b4 /\ r[3] \in 0..LIMB-1
  BY <1>1, <1>2, <1>5, SubLimb
<1>. HIDE DEF b4
<1>7. r \in u256
  <2>1. \A i \in Index : r[i] \in 0..LIMB-1
    BY <1>3, <1>4, <1>5, <1>6 DEF Index
  <2>. QED  BY <1>2, <2>1 DEF u256
<1>8. r[2] + LIMB * r[3] = (a[2] + LIMB * a[3]) - (b[2] + LIMB * b[3]) - b2 + (LIMB * LIMB) * b4
  <2>1. /\ a[2] \in Int /\ b[2] \in Int /\ b2 \in Int /\ b3 \in Int /\ a[3] \in Int
        /\ b[3] \in Int /\ b4 \in Int /\ LIMB \in Int
    BY <1>1, <1>4, <1>5, <1>6
  <2>2. (a[2] - b[2] - b2 + LIMB * b3) + LIMB * (a[3] - b[3] - b3 + LIMB * b4)
          = (a[2] + LIMB * a[3]) - (b[2] + LIMB * b[3]) - b2 + (LIMB * LIMB) * b4
    BY <2>1, SubHorner
  <2>. QED  BY <2>2, <1>5, <1>6
<1>. DEFINE A2 == a[2] + LIMB * a[3]
            B2 == b[2] + LIMB * b[3]
            A1 == a[1] + LIMB * A2
            B1 == b[1] + LIMB * B2
<1>9. A2 \in Int /\ B2 \in Int /\ LIMB * LIMB \in Int
  BY <1>1
<1>10. r[1] + LIMB * (r[2] + LIMB * r[3]) = A1 - B1 - b1 + (LIMB * (LIMB * LIMB)) * b4
  <2>. HIDE DEF A2, B2
  <2>1. r[2] + LIMB * r[3] = A2 - B2 - b2 + (LIMB * LIMB) * b4
    BY <1>8 DEF A2, B2
  <2>2. a[1] \in Int /\ b[1] \in Int /\ b1 \in Int /\ b2 \in Int /\ b4 \in Int /\ LIMB \in Int
    BY <1>1, <1>3, <1>4, <1>6
  <2>3. (a[1] - b[1] - b1 + LIMB * b2) + LIMB * (A2 - B2 - b2 + (LIMB * LIMB) * b4)
          = (a[1] + LIMB * A2) - (b[1] + LIMB * B2) - b1 + (LIMB * (LIMB * LIMB)) * b4
    BY <2>2, <1>9, SubHorner
  <2>. QED  BY <2>1, <2>3, <1>4
<1>11. A1 \in Int /\ B1 \in Int /\ LIMB * (LIMB * LIMB) \in Int
  <2>. HIDE DEF A2, B2
  <2>. QED  BY <1>1, <1>9
<1>12. Value(r) = Value(a) - Value(b) + M * b4
  <2>1. Value(a) = a[0] + LIMB * A1 /\ Value(b) = b[0] + LIMB * B1
    BY DEF Value
  <2>. HIDE DEF A1, B1
  <2>2. a[0] \in Int /\ b[0] \in Int /\ b1 \in Int /\ b4 \in Int /\ LIMB \in Int
    BY <1>1, <1>3, <1>6
  <2>3. (a[0] - b[0] - 0 + LIMB * b1) + LIMB * (A1 - B1 - b1 + (LIMB * (LIMB * LIMB)) * b4)
          = (a[0] + LIMB * A1) - (b[0] + LIMB * B1) - 0 + (LIMB * (LIMB * (LIMB * LIMB))) * b4
    BY <2>2, <1>11, SubHorner
  <2>4. Value(r) = r[0] + LIMB * (r[1] + LIMB * (r[2] + LIMB * r[3]))
    BY DEF Value
  <2>5. Value(r) = (a[0] + LIMB * A1) - (b[0] + LIMB * B1) - 0 + M * b4
    BY <2>3, <2>4, <1>3, <1>10, <1>1
  <2>. QED  BY <2>1, <2>5, <1>1, <2>2, <1>11
<1>13. Value(r) \in 0 .. M - 1 /\ M \in Nat \ {0}
  BY <1>7, ValueType, LimbSize
<1>14. Value(a) - Value(b) = M * (-b4) + Value(r) /\ -b4 \in Int
  <2>1. b4 = 0 \/ b4 = 1
    BY <1>6
  <2>. QED  BY <2>1, <1>1, <1>12, <1>13
<1>15. (M * (-b4) + Value(r)) % M = Value(r)
  BY <1>13, <1>14, ModUnique
<1>. QED  BY <1>7, <1>14, <1>15 DEF r

-----------------------------------------------------------------------------
(* One limb of a shift: the bit that leaves it is the bit that comes out.  *)
LEMMA ShlLimb ==
  ASSUME NEW x \in 0..LIMB-1
  PROVE  /\ TopBit(x) \in {0, 1}
         /\ (2 * x) % LIMB = 2 * x - LIMB * TopBit(x)
         /\ (2 * x) % LIMB \in 0 .. LIMB - 2
         /\ ((2 * x) % LIMB) % 2 = 0
<1>1. LIMB \in Nat \ {0} /\ LIMB >= 2 /\ LIMB % 2 = 0 /\ LIMB * 1 = LIMB /\ LIMB * 0 = 0
  BY LimbSize
<1>. DEFINE y == 2 * x - LIMB * TopBit(x)
<1>2. TopBit(x) \in {0, 1} /\ y \in 0 .. LIMB - 1 /\ y % 2 = 0
  BY <1>1 DEF TopBit
<1>3. 2 * x = LIMB * TopBit(x) + y /\ TopBit(x) \in Int
  <2>1. TopBit(x) = 0 \/ TopBit(x) = 1
    BY <1>2
  <2>. QED  BY <1>1, <2>1
<1>. HIDE DEF y
<1>4. (2 * x) % LIMB = y
  BY <1>1, <1>2, <1>3, ModUnique
<1>5. y \in 0 .. LIMB - 2
  BY <1>1, <1>2
<1>. QED  BY <1>2, <1>4, <1>5 DEF y

LEMMA ShlHorner ==
  ASSUME NEW L \in Int, NEW x \in Int, NEW c \in Int, NEW d \in Int,
         NEW S \in Int, NEW K \in Int, NEW o \in Int
  PROVE  (2 * x - L * d + c) + L * (2 * S - K * o + d) = 2 * (x + L * S) - (L * K) * o + c
  OBVIOUS

LEMMA ShlIsDouble ==
  ASSUME NEW a \in u256
  PROVE  /\ shl1(a) \in u256
         /\ Value(shl1(a)) = (2 * Value(a)) % M
         /\ shl1_carry(a) <=> 2 * Value(a) >= M
         /\ shl1(a)[0] % 2 = 0
<1>. DEFINE t0 == TopBit(a[0])
            t1 == TopBit(a[1])
            t2 == TopBit(a[2])
            t3 == TopBit(a[3])
            lo(x) == (2 * x) % LIMB
            r  == shl1(a)
<1>1. /\ a[0] \in 0..LIMB-1 /\ a[1] \in 0..LIMB-1 /\ a[2] \in 0..LIMB-1 /\ a[3] \in 0..LIMB-1
      /\ LIMB \in Nat /\ LIMB >= 2 /\ M \in Nat /\ M = LIMB * (LIMB * (LIMB * LIMB))
      /\ Value(a) \in 0..M-1
  BY ValueType, LimbSize
<1>2. /\ r[0] = lo(a[0]) + 0
      /\ r[1] = lo(a[1]) + t0
      /\ r[2] = lo(a[2]) + t1
      /\ r[3] = lo(a[3]) + t2
      /\ r = [i \in Index |-> r[i]]
  BY DEF shl1, Index
<1>. HIDE DEF r
<1>0. \A x \in 0..LIMB-1 : /\ TopBit(x) \in {0, 1} /\ lo(x) = 2 * x - LIMB * TopBit(x)
                           /\ lo(x) \in 0 .. LIMB - 2 /\ lo(x) % 2 = 0
  BY ShlLimb
<1>. HIDE DEF lo
<1>3. t0 \in {0, 1} /\ r[0] = 2 * a[0] - LIMB * t0 + 0 /\ r[0] \in 0..LIMB-1 /\ r[0] % 2 = 0
  BY <1>0, <1>1, <1>2
<1>. HIDE DEF t0
<1>4. t1 \in {0, 1} /\ r[1] = 2 * a[1] - LIMB * t1 + t0 /\ r[1] \in 0..LIMB-1
  <2>1. /\ t1 \in {0, 1} /\ lo(a[1]) = 2 * a[1] - LIMB * t1
        /\ lo(a[1]) \in 0 .. LIMB - 2
    BY <1>0, <1>1
  <2>2. t0 \in {0, 1} /\ r[1] = lo(a[1]) + t0
    BY <1>2, <1>3
  <2>. HIDE DEF t1
  <2>. QED  BY <1>1, <2>1, <2>2
<1>. HIDE DEF t1
<1>5. t2 \in {0, 1} /\ r[2] = 2 * a[2] - LIMB * t2 + t1 /\ r[2] \in 0..LIMB-1
  <2>1. /\ t2 \in {0, 1} /\ lo(a[2]) = 2 * a[2] - LIMB * t2
        /\ lo(a[2]) \in 0 .. LIMB - 2
    BY <1>0, <1>1
  <2>2. t1 \in {0, 1} /\ r[2] = lo(a[2]) + t1
    BY <1>2, <1>4
  <2>. HIDE DEF t2
  <2>. QED  BY <1>1, <2>1, <2>2
<1>. HIDE DEF t2
<1>6. t3 \in {0, 1} /\ r[3] = 2 * a[3] - LIMB * t3 + t2 /\ r[3] \in 0..LIMB-1
  <2>1. /\ t3 \in {0, 1} /\ lo(a[3]) = 2 * a[3] - LIMB * t3
        /\ lo(a[3]) \in 0 .. LIMB - 2
    BY <1>0, <1>1
  <2>2. t2 \in {0, 1} /\ r[3] = lo(a[3]) + t2
    BY <1>2, <1>5
  <2>. HIDE DEF t3
  <2>. QED  BY <1>1, <2>1, <2>2
<1>7. shl1_carry(a) <=> t3 = 1
  BY DEF shl1_carry
<1>. HIDE DEF t3
<1>8. r \in u256
  <2>1. \A i \in Index : r[i] \in 0..LIMB-1
    BY <1>3, <1>4, <1>5, <1>6 DEF Index
  <2>. QED  BY <1>2, <2>1 DEF u256
<1>. DEFINE A2 == a[2] + LIMB * a[3]
            A1 == a[1] + LIMB * A2
<1>9. r[2] + LIMB * r[3] = 2 * A2 - (LIMB * LIMB) * t3 + t1
  <2>1. /\ a[2] \in Int /\ t2 \in Int /\ t1 \in Int /\ a[3] \in Int /\ t3 \in Int /\ LIMB \in Int
    BY <1>1, <1>4, <1>5, <1>6
  <2>2. (2 * a[2] - LIMB * t2 + t1) + LIMB * (2 * a[3] - LIMB * t3 + t2)
          = 2 * (a[2] + LIMB * a[3]) - (LIMB * LIMB) * t3 + t1
    BY <2>1, ShlHorner
  <2>. QED  BY <2>2, <1>5, <1>6
<1>10. A2 \in Int /\ LIMB * LIMB \in Int
  BY <1>1
<1>11. r[1] + LIMB * (r[2] + LIMB * r[3]) = 2 * A1 - (LIMB * (LIMB * LIMB)) * t3 + t0
  <2>. HIDE DEF A2
  <2>1. a[1] \in Int /\ t1 \in Int /\ t0 \in Int /\ t3 \in Int /\ LIMB \in Int
    BY <1>1, <1>3, <1>4, <1>6
  <2>2. (2 * a[1] - LIMB * t1 + t0) + LIMB * (2 * A2 - (LIMB * LIMB) * t3 + t1)
          = 2 * (a[1] + LIMB * A2) - (LIMB * (LIMB * LIMB)) * t3 + t0
    BY <2>1, <1>10, ShlHorner
  <2>. QED  BY <2>2, <1>4, <1>9
<1>12. A1 \in Int /\ LIMB * (LIMB * LIMB) \in Int
  <2>. HIDE DEF A2
  <2>. QED  BY <1>1, <1>10
<1>13. Value(r) = 2 * Value(a) - M * t3
  <2>1. Value(a) = a[0] + LIMB * A1
    BY DEF Value
  <2>. HIDE DEF A1
  <2>2. a[0] \in Int /\ t0 \in Int /\ t3 \in Int /\ LIMB \in Int
    BY <1>1, <1>3, <1>6
  <2>3. (2 * a[0] - LIMB * t0 + 0) + LIMB * (2 * A1 - (LIMB * (LIMB * LIMB)) * t3 + t0)
          = 2 * (a[0] + LIMB * A1) - (LIMB * (LIMB * (LIMB * LIMB))) * t3 + 0
    BY <2>2, <1>12, ShlHorner
  <2>4. Value(r) = r[0] + LIMB * (r[1] + LIMB * (r[2] + LIMB * r[3]))
    BY DEF Value
  <2>5. Value(r) = 2 * (a[0] + LIMB * A1) - M * t3 + 0
    BY <2>3, <2>4, <1>3, <1>11, <1>1
  <2>. QED  BY <2>1, <2>5, <2>2, <1>1, <1>12
<1>14. Value(r) \in 0 .. M - 1 /\ M \in Nat \ {0}
  BY <1>8, ValueType, LimbSize
<1>15. 2 * Value(a) = M * t3 + Value(r) /\ t3 \in Int /\ (t3 = 1 <=> 2 * Value(a) >= M)
  <2>1. t3 = 0 \/ t3 = 1
    BY <1>6
  <2>. QED  BY <2>1, <1>1, <1>13, <1>14
<1>16. (M * t3 + Value(r)) % M = Value(r)
  BY <1>14, <1>15, ModUnique
<1>. QED  BY <1>3, <1>7, <1>8, <1>15, <1>16 DEF r

(* The increment ripples through the saturated limbs below the first one   *)
(* that is not.                                                            *)
LEMMA IncrementIsPlusOne ==
  ASSUME NEW a \in u256, ~Saturated(a)
  PROVE  /\ increment_target(a) \in u256
         /\ Value(increment_target(a)) = Value(a) + 1
<1>1. /\ a[0] \in 0..LIMB-1 /\ a[1] \in 0..LIMB-1 /\ a[2] \in 0..LIMB-1 /\ a[3] \in 0..LIMB-1
      /\ LIMB \in Nat /\ LIMB >= 2
  BY ValueType, LimbSize
<1>. DEFINE First(i) == a[i] < LIMB - 1 /\ \A j \in 0..i-1 : a[j] = LIMB - 1
            f == CHOOSE i \in Index : First(i)
            r == increment_target(a)
<1>2. First(0) \/ First(1) \/ First(2) \/ First(3)
  BY <1>1 DEF Saturated, Index
<1>3. f \in Index /\ First(f)
  <2>1. \E i \in Index : First(i)
    BY <1>2 DEF Index
  <2>. HIDE DEF First
  <2>. QED  BY <2>1
<1>4. r = [i \in Index |-> IF i < f THEN 0 ELSE IF i = f THEN a[i] + 1 ELSE a[i]]
  BY DEF increment_target
<1>. HIDE DEF f
<1>5. r \in u256
  BY <1>1, <1>3, <1>4 DEF u256, Index
<1>6. /\ Value(a) = a[0] + LIMB * (a[1] + LIMB * (a[2] + LIMB * a[3]))
      /\ Value(r) = r[0] + LIMB * (r[1] + LIMB * (r[2] + LIMB * r[3]))
  BY DEF Value
<1>. DEFINE A2 == a[2] + LIMB * a[3]
            A1 == a[1] + LIMB * A2
<1>7. CASE f = 0
  <2>1. r[0] = a[0] + 1 /\ r[1] = a[1] /\ r[2] = a[2] /\ r[3] = a[3]
    BY <1>4, <1>7 DEF Index
  <2>2. LIMB * (a[1] + LIMB * (a[2] + LIMB * a[3])) \in Int
    BY <1>1
  <2>. QED  BY <1>1, <1>5, <1>6, <2>1, <2>2
<1>8. CASE f = 1
  <2>1. r[0] = 0 /\ r[1] = a[1] + 1 /\ r[2] = a[2] /\ r[3] = a[3] /\ a[0] = LIMB - 1
    BY <1>1, <1>3, <1>4, <1>8 DEF Index
  <2>2. A2 \in Int /\ LIMB * A2 \in Int
    BY <1>1
  <2>. HIDE DEF A2
  <2>3. LIMB * ((a[1] + 1) + LIMB * A2) = LIMB * (a[1] + LIMB * A2) + LIMB
    BY <1>1, <2>2
  <2>4. LIMB * (a[1] + LIMB * A2) \in Int
    BY <1>1, <2>2
  <2>. QED  BY <1>1, <1>5, <1>6, <2>1, <2>3, <2>4 DEF A2
<1>9. CASE f = 2
  <2>1. r[0] = 0 /\ r[1] = 0 /\ r[2] = a[2] + 1 /\ r[3] = a[3] /\ a[0] = LIMB - 1 /\ a[1] = LIMB - 1
    BY <1>1, <1>3, <1>4, <1>9 DEF Index
  <2>2. A2 \in Int /\ LIMB * A2 \in Int /\ (a[2] + 1) + LIMB * a[3] = A2 + 1
    BY <1>1
  <2>. HIDE DEF A2
  <2>3. 0 + LIMB * (A2 + 1) = ((LIMB - 1) + LIMB * A2) + 1
    BY <1>1, <2>2
  <2>4. LIMB * (((LIMB - 1) + LIMB * A2) + 1) = LIMB * ((LIMB - 1) + LIMB * A2) + LIMB
    BY <1>1, <2>2
  <2>5. LIMB * ((LIMB - 1) + LIMB * A2) \in Int
    BY <1>1, <2>2
  <2>6. Value(r) = 0 + LIMB * (0 + LIMB * (A2 + 1))
    BY <1>6, <2>1, <2>2
  <2>7. Value(a) = (LIMB - 1) + LIMB * ((LIMB - 1) + LIMB * A2)
    BY <1>6, <2>1 DEF A2
  <2>. QED  BY <1>1, <1>5, <2>3, <2>4, <2>5, <2>6, <2>7
<1>10. CASE f = 3
  <2>1. /\ r[0] = 0 /\ r[1] = 0 /\ r[2] = 0 /\ r[3] = a[3] + 1
        /\ a[0] = LIMB - 1 /\ a[1] = LIMB - 1 /\ a[2] = LIMB - 1
    BY <1>1, <1>3, <1>4, <1>10 DEF Index
  <2>. DEFINE B2 == (LIMB - 1) + LIMB * a[3]
  <2>2. 0 + LIMB * (a[3] + 1) = B2 + 1 /\ B2 \in Int
    BY <1>1
  <2>. HIDE DEF B2
  <2>3. 0 + LIMB * (B2 + 1) = ((LIMB - 1) + LIMB * B2) + 1
    BY <1>1, <2>2
  <2>. DEFINE B1 == (LIMB - 1) + LIMB * B2
  <2>4. B1 \in Int
    BY <1>1, <2>2
  <2>. HIDE DEF B1
  <2>5. 0 + LIMB * (B1 + 1) = ((LIMB - 1) + LIMB * B1) + 1
    BY <1>1, <2>4
  <2>6. Value(r) = 0 + LIMB * (0 + LIMB * (0 + LIMB * (a[3] + 1)))
    BY <1>6, <2>1
  <2>7. Value(a) = (LIMB - 1) + LIMB * B1
    BY <1>6, <2>1 DEF B1, B2
  <2>. QED  BY <1>5, <2>2, <2>3, <2>5, <2>6, <2>7 DEF B1
<1>. QED  BY <1>3, <1>7, <1>8, <1>9, <1>10 DEF Index

-----------------------------------------------------------------------------
(* Quotient and remainder of a sum of a multiple and a small rest.         *)
LEMMA DivUnique ==
  ASSUME NEW m \in Nat \ {0}, NEW q \in Int, NEW r \in 0 .. m - 1
  PROVE  (m * q + r) \div m = q /\ (m * q + r) % m = r
  OBVIOUS

LEMMA CommonFactor ==
  ASSUME NEW P \in Nat \ {0}, NEW c \in Nat, NEW N \in Nat, P * c < P * N
  PROVE  P * c <= P * N - P
<1>1. c < N
  <2>1. ASSUME c >= N PROVE FALSE
    <3>1. P * c >= P * N
      BY <2>1
    <3>2. P * c \in Int /\ P * N \in Int
      OBVIOUS
    <3>. QED  BY <3>1, <3>2
  <2>. QED  BY <2>1
<1>2. P * c <= P * (N - 1)
  BY <1>1
<1>3. P * (N - 1) = P * N - P
  OBVIOUS
<1>. QED  BY <1>2, <1>3

(* The powers of two within a limb, and those of the limbs' positions.     *)
LEMMA BitWeights ==
  ASSUME NEW k \in 0..WIDTH-1
  PROVE  /\ Pow2[k] \in Nat \ {0} /\ Pow2[k+1] \in Nat \ {0} /\ Pow2[k+1] = 2 * Pow2[k]
         /\ \E N \in Nat \ {0} : LIMB = Pow2[k+1] * N
         /\ Pow2[WIDTH * 0 + k] = Pow2[k]
         /\ Pow2[WIDTH * 1 + k] = LIMB * Pow2[k]
         /\ Pow2[WIDTH * 2 + k] = LIMB * (LIMB * Pow2[k])
         /\ Pow2[WIDTH * 3 + k] = LIMB * (LIMB * (LIMB * Pow2[k]))
<1>1. /\ WIDTH \in Nat \ {0} /\ BITS = 4 * WIDTH /\ k \in 0..BITS-1 /\ k \in 0..BITS
      /\ k + 1 \in 0..BITS /\ WIDTH - (k + 1) \in 0..BITS /\ WIDTH \in 0..BITS
      /\ (k + 1) + (WIDTH - (k + 1)) = WIDTH
      /\ WIDTH + k \in 0..BITS /\ WIDTH + (WIDTH + k) \in 0..BITS
      /\ WIDTH + (WIDTH + (WIDTH + k)) \in 0..BITS
  BY WidthAssumption
<1>2. Pow2[k] \in Nat \ {0} /\ Pow2[k+1] \in Nat \ {0} /\ Pow2[k+1] = 2 * Pow2[k]
  BY <1>1, Pow2Assumption
<1>3. \E N \in Nat \ {0} : LIMB = Pow2[k+1] * N
  <2>1. Pow2[(k + 1) + (WIDTH - (k + 1))] = Pow2[k + 1] * Pow2[WIDTH - (k + 1)]
    BY <1>1, PowersMultiply
  <2>2. Pow2[WIDTH - (k + 1)] \in Nat \ {0}
    BY <1>1, Pow2Assumption
  <2>. QED  BY <1>1, <2>1, <2>2 DEF LIMB
<1>4. /\ Pow2[WIDTH + k] = LIMB * Pow2[k]
      /\ Pow2[WIDTH + (WIDTH + k)] = LIMB * Pow2[WIDTH + k]
      /\ Pow2[WIDTH + (WIDTH + (WIDTH + k))] = LIMB * Pow2[WIDTH + (WIDTH + k)]
  BY <1>1, PowersMultiply DEF LIMB
<1>5. /\ WIDTH * 0 + k = k /\ WIDTH * 1 + k = WIDTH + k
      /\ WIDTH * 2 + k = WIDTH + (WIDTH + k)
      /\ WIDTH * 3 + k = WIDTH + (WIDTH + (WIDTH + k))
  BY <1>1
<1>. QED  BY <1>2, <1>3, <1>4, <1>5

(* Adding to one limb adds its weight to the value.                        *)
LEMMA ValueOfAdded ==
  ASSUME NEW q \in u256, NEW i \in Index, NEW p \in Nat, q[i] + p \in 0..LIMB-1
  PROVE  LET r == [q EXCEPT ![i] = q[i] + p] IN
           /\ r \in u256
           /\ i = 0 => Value(r) = Value(q) + p
           /\ i = 1 => Value(r) = Value(q) + LIMB * p
           /\ i = 2 => Value(r) = Value(q) + LIMB * (LIMB * p)
           /\ i = 3 => Value(r) = Value(q) + LIMB * (LIMB * (LIMB * p))
<1>. DEFINE r == [q EXCEPT ![i] = q[i] + p]
<1>1. /\ q[0] \in 0..LIMB-1 /\ q[1] \in 0..LIMB-1 /\ q[2] \in 0..LIMB-1 /\ q[3] \in 0..LIMB-1
      /\ LIMB \in Nat /\ p \in Int
  BY ValueType, LimbSize
<1>2. r \in u256
  BY DEF u256
<1>3. \A j \in Index : r[j] = IF j = i THEN q[i] + p ELSE q[j]
  BY DEF u256
<1>. HIDE DEF r
<1>4. \A L, x, S, d \in Int : x + L * (S + d) = (x + L * S) + L * d
  OBVIOUS
<1>. DEFINE Q2 == q[2] + LIMB * q[3]
            Q1 == q[1] + LIMB * Q2
<1>5. Q2 \in Int
  BY <1>1
<1>6. Q1 \in Int
  <2>. HIDE DEF Q2
  <2>. QED  BY <1>1, <1>5
<1>7. Value(q) = q[0] + LIMB * Q1 /\ Value(r) = r[0] + LIMB * (r[1] + LIMB * (r[2] + LIMB * r[3]))
  BY DEF Value
<1>8. LIMB * p \in Int /\ LIMB * (LIMB * p) \in Int /\ LIMB * Q1 \in Int /\ LIMB * Q2 \in Int
  <2>. HIDE DEF Q2, Q1
  <2>1. LIMB * p \in Int
    BY <1>1
  <2>. DEFINE y == LIMB * p
  <2>. HIDE DEF y
  <2>2. LIMB * y \in Int
    BY <1>1, <2>1 DEF y
  <2>. QED  BY <1>1, <1>5, <1>6, <2>1, <2>2 DEF y
<1>9. CASE i = 0
  <2>1. r[0] = q[0] + p /\ r[1] = q[1] /\ r[2] = q[2] /\ r[3] = q[3]
    BY <1>3, <1>9 DEF Index
  <2>2. Value(r) = (q[0] + p) + LIMB * Q1
    BY <1>7, <2>1
  <2>. HIDE DEF Q1
  <2>. QED  BY <1>1, <1>2, <1>7, <1>8, <1>9, <2>2 DEF r
<1>10. CASE i = 1
  <2>1. r[0] = q[0] /\ r[1] = q[1] + p /\ r[2] = q[2] /\ r[3] = q[3]
    BY <1>3, <1>10 DEF Index
  <2>2. (q[1] + p) + LIMB * Q2 = Q1 + p
    <3>. HIDE DEF Q2
    <3>. QED  BY <1>1, <1>8
  <2>3. Value(r) = q[0] + LIMB * (Q1 + p)
    BY <1>7, <2>1, <2>2
  <2>. HIDE DEF Q1
  <2>4. Value(r) = (q[0] + LIMB * Q1) + LIMB * p
    BY <1>1, <1>4, <1>6, <2>3
  <2>. QED  BY <1>2, <1>7, <1>10, <2>4 DEF r
<1>11. CASE i = 2
  <2>1. r[0] = q[0] /\ r[1] = q[1] /\ r[2] = q[2] + p /\ r[3] = q[3]
    BY <1>3, <1>11 DEF Index
  <2>2. (q[2] + p) + LIMB * q[3] = Q2 + p
    BY <1>1
  <2>3. q[1] + LIMB * (Q2 + p) = Q1 + LIMB * p
    <3>. HIDE DEF Q2
    <3>. QED  BY <1>1, <1>4, <1>5
  <2>4. Value(r) = q[0] + LIMB * (Q1 + LIMB * p)
    BY <1>7, <2>1, <2>2, <2>3
  <2>. HIDE DEF Q1
  <2>5. Value(r) = (q[0] + LIMB * Q1) + LIMB * (LIMB * p)
    BY <1>1, <1>4, <1>6, <1>8, <2>4
  <2>. QED  BY <1>2, <1>7, <1>11, <2>5 DEF r
<1>12. CASE i = 3
  <2>1. r[0] = q[0] /\ r[1] = q[1] /\ r[2] = q[2] /\ r[3] = q[3] + p
    BY <1>3, <1>12 DEF Index
  <2>2. q[2] + LIMB * (q[3] + p) = Q2 + LIMB * p
    BY <1>1, <1>4
  <2>3. q[1] + LIMB * (Q2 + LIMB * p) = Q1 + LIMB * (LIMB * p)
    <3>. HIDE DEF Q2
    <3>. QED  BY <1>1, <1>4, <1>5, <1>8
  <2>4. Value(r) = q[0] + LIMB * (Q1 + LIMB * (LIMB * p))
    BY <1>7, <2>1, <2>2, <2>3
  <2>. HIDE DEF Q1
  <2>5. Value(r) = (q[0] + LIMB * Q1) + LIMB * (LIMB * (LIMB * p))
    BY <1>1, <1>4, <1>6, <1>8, <2>4
  <2>. QED  BY <1>2, <1>7, <1>12, <2>5 DEF r
<1>. QED  BY <1>9, <1>10, <1>11, <1>12 DEF Index

(* The quotient bit lands in the limb and at the place its weight says.    *)
LEMMA SetBitIsPlus ==
  ASSUME NEW q \in u256, NEW i \in Index, NEW k \in 0..WIDTH-1, NEW c \in Nat, NEW b,
         b = WIDTH * i + k, q[i] = Pow2[k+1] * c
  PROVE  /\ SetBit(q, b) \in u256
         /\ Value(SetBit(q, b)) = Value(q) + Pow2[b]
         /\ SetBit(q, b) = [q EXCEPT ![i] = q[i] + Pow2[k]]
         /\ q[i] + Pow2[k] = Pow2[k] * (2 * c + 1)
<1>. DEFINE p == Pow2[k]
<1>1. /\ p \in Nat \ {0} /\ Pow2[k+1] = 2 * p /\ WIDTH \in Nat \ {0} /\ i \in Int
  BY BitWeights, WidthAssumption DEF Index
<1>2. b \div WIDTH = i /\ b % WIDTH = k
  <2>1. (WIDTH * i + k) \div WIDTH = i /\ (WIDTH * i + k) % WIDTH = k
    BY <1>1, DivUnique
  <2>. QED  BY <2>1
<1>3. q[i] \in 0..LIMB-1 /\ LIMB \in Nat
  BY LimbSize DEF u256
<1>4. q[i] = p * (2 * c) + 0 /\ q[i] + p = p * (2 * c + 1)
  <2>. HIDE DEF p
  <2>1. q[i] = (2 * p) * c
    BY <1>1
  <2>2. (2 * p) * c = p * (2 * c) + 0 /\ (2 * p) * c + p = p * (2 * c + 1)
    BY <1>1
  <2>. QED  BY <2>1, <2>2
<1>5. q[i] \div p = 2 * c
  <2>. HIDE DEF p
  <2>1. (p * (2 * c) + 0) \div p = 2 * c
    BY <1>1, DivUnique
  <2>. QED  BY <1>4, <2>1
<1>6. WithBit(q[i], k) = q[i] + p
  <2>1. (2 * c) % 2 = 0
    OBVIOUS
  <2>. QED  BY <1>5, <2>1 DEF WithBit
<1>7. SetBit(q, b) = [q EXCEPT ![i] = q[i] + p]
  BY <1>2, <1>6 DEF SetBit
<1>8. q[i] + p \in 0..LIMB-1
  <2>1. PICK N \in Nat \ {0} : LIMB = Pow2[k+1] * N
    BY BitWeights
  <2>2. Pow2[k+1] \in Nat \ {0}
    BY BitWeights
  <2>3. Pow2[k+1] * c <= Pow2[k+1] * N - Pow2[k+1]
    <3>1. Pow2[k+1] * c < Pow2[k+1] * N
      BY <1>3, <2>1
    <3>. QED  BY <2>2, <3>1, CommonFactor
  <2>4. q[i] <= LIMB - 2 * p
    BY <1>1, <2>1, <2>3
  <2>. HIDE DEF p
  <2>. QED  BY <1>1, <1>3, <2>4
<1>. DEFINE r == [q EXCEPT ![i] = q[i] + p]
<1>9. /\ r \in u256
      /\ i = 0 => Value(r) = Value(q) + p
      /\ i = 1 => Value(r) = Value(q) + LIMB * p
      /\ i = 2 => Value(r) = Value(q) + LIMB * (LIMB * p)
      /\ i = 3 => Value(r) = Value(q) + LIMB * (LIMB * (LIMB * p))
  <2>. HIDE DEF p
  <2>. QED  BY <1>1, <1>8, ValueOfAdded
<1>10. Value(r) = Value(q) + Pow2[b]
  <2>. HIDE DEF r
  <2>1. /\ Pow2[WIDTH * 0 + k] = p
        /\ Pow2[WIDTH * 1 + k] = LIMB * p
        /\ Pow2[WIDTH * 2 + k] = LIMB * (LIMB * p)
        /\ Pow2[WIDTH * 3 + k] = LIMB * (LIMB * (LIMB * p))
    BY BitWeights
  <2>. HIDE DEF p
  <2>2. i = 0 \/ i = 1 \/ i = 2 \/ i = 3
    BY DEF Index
  <2>. QED  BY <1>9, <2>1, <2>2
<1>. QED  BY <1>4, <1>7, <1>9, <1>10

-----------------------------------------------------------------------------
(* Columns cut to limbs: what is above a limb goes into the next column.   *)
LEMMA CarryHorner ==
  ASSUME NEW L \in Int, NEW x \in Int, NEW c \in Int, NEW d \in Int,
         NEW S \in Int, NEW K \in Int, NEW o \in Int
  PROVE  (x + c - L * d) + L * (S + d - K * o) = (x + L * S) + c - (L * K) * o
  OBVIOUS

LEMMA CarriedValue ==
  ASSUME NEW v \in [Index -> Nat]
  PROVE  Carried(v) \in u256 /\ Value(Carried(v)) = Value(v) % M
<1>. DEFINE d0 == v[0] \div LIMB
            c1 == v[1] + d0
            d1 == c1 \div LIMB
            c2 == v[2] + d1
            d2 == c2 \div LIMB
            c3 == v[3] + d2
            d3 == c3 \div LIMB
            r  == Carried(v)
<1>1. /\ v[0] \in Nat /\ v[1] \in Nat /\ v[2] \in Nat /\ v[3] \in Nat
      /\ LIMB \in Nat \ {0} /\ M \in Nat \ {0} /\ M = LIMB * (LIMB * (LIMB * LIMB))
  BY LimbSize DEF Index
<1>2. /\ r[0] = v[0] % LIMB /\ r[1] = c1 % LIMB /\ r[2] = c2 % LIMB /\ r[3] = c3 % LIMB
      /\ r = [i \in Index |-> r[i]]
  BY DEF Carried, Index
<1>. HIDE DEF r
<1>3. \A x \in Int : x % LIMB = x - LIMB * (x \div LIMB) /\ x % LIMB \in 0..LIMB-1 /\ x \div LIMB \in Int
  <2>1. ASSUME NEW x \in Int
        PROVE  x % LIMB = x - LIMB * (x \div LIMB) /\ x % LIMB \in 0..LIMB-1 /\ x \div LIMB \in Int
    <3>1. x = LIMB * (x \div LIMB) + (x % LIMB) /\ x % LIMB \in 0..LIMB-1 /\ x \div LIMB \in Int
      BY <1>1, DivMod
    <3>2. LIMB * (x \div LIMB) \in Int
      BY <1>1, <3>1
    <3>. QED  BY <3>1, <3>2
  <2>. QED  BY <2>1
<1>4. d0 \in Int /\ r[0] = v[0] + 0 - LIMB * d0 /\ r[0] \in 0..LIMB-1
  BY <1>1, <1>2, <1>3
<1>. HIDE DEF d0
<1>5a. c1 \in Int /\ c1 = v[1] + d0
  BY <1>1, <1>4
<1>. HIDE DEF c1
<1>5. d1 \in Int /\ r[1] = v[1] + d0 - LIMB * d1 /\ r[1] \in 0..LIMB-1
  <2>1. /\ c1 % LIMB = c1 - LIMB * d1 /\ c1 % LIMB \in 0..LIMB-1 /\ d1 \in Int
    BY <1>3, <1>5a
  <2>. HIDE DEF d1
  <2>2. LIMB * d1 \in Int /\ v[1] \in Int /\ d0 \in Int
    BY <1>1, <1>4, <2>1
  <2>. QED  BY <1>2, <1>5a, <2>1, <2>2
<1>. HIDE DEF d1
<1>6a. c2 \in Int /\ c2 = v[2] + d1
  BY <1>1, <1>5
<1>. HIDE DEF c2
<1>6. d2 \in Int /\ r[2] = v[2] + d1 - LIMB * d2 /\ r[2] \in 0..LIMB-1
  <2>1. /\ c2 % LIMB = c2 - LIMB * d2 /\ c2 % LIMB \in 0..LIMB-1 /\ d2 \in Int
    BY <1>3, <1>6a
  <2>. HIDE DEF d2
  <2>2. LIMB * d2 \in Int /\ v[2] \in Int /\ d1 \in Int
    BY <1>1, <1>5, <2>1
  <2>. QED  BY <1>2, <1>6a, <2>1, <2>2
<1>. HIDE DEF d2
<1>7a. c3 \in Int /\ c3 = v[3] + d2
  BY <1>1, <1>6
<1>. HIDE DEF c3
<1>7. d3 \in Int /\ r[3] = v[3] + d2 - LIMB * d3 /\ r[3] \in 0..LIMB-1
  <2>1. /\ c3 % LIMB = c3 - LIMB * d3 /\ c3 % LIMB \in 0..LIMB-1 /\ d3 \in Int
    BY <1>3, <1>7a
  <2>. HIDE DEF d3
  <2>2. LIMB * d3 \in Int /\ v[3] \in Int /\ d2 \in Int
    BY <1>1, <1>6, <2>1
  <2>. QED  BY <1>2, <1>7a, <2>1, <2>2
<1>. HIDE DEF d3
<1>8. r \in u256
  <2>1. \A i \in Index : r[i] \in 0..LIMB-1
    BY <1>4, <1>5, <1>6, <1>7 DEF Index
  <2>. QED  BY <1>2, <2>1 DEF u256
<1>. DEFINE V2 == v[2] + LIMB * v[3]
            V1 == v[1] + LIMB * V2
<1>9. r[2] + LIMB * r[3] = V2 + d1 - (LIMB * LIMB) * d3
  <2>1. v[2] \in Int /\ v[3] \in Int /\ LIMB \in Int
    BY <1>1
  <2>2. (v[2] + d1 - LIMB * d2) + LIMB * (v[3] + d2 - LIMB * d3)
          = (v[2] + LIMB * v[3]) + d1 - (LIMB * LIMB) * d3
    BY <2>1, <1>5, <1>6, <1>7, CarryHorner
  <2>. QED  BY <2>2, <1>6, <1>7
<1>10. V2 \in Int /\ LIMB * LIMB \in Int
  BY <1>1
<1>11. r[1] + LIMB * (r[2] + LIMB * r[3]) = V1 + d0 - (LIMB * (LIMB * LIMB)) * d3
  <2>. HIDE DEF V2
  <2>1. v[1] \in Int /\ LIMB \in Int
    BY <1>1
  <2>2. (v[1] + d0 - LIMB * d1) + LIMB * (V2 + d1 - (LIMB * LIMB) * d3)
          = (v[1] + LIMB * V2) + d0 - (LIMB * (LIMB * LIMB)) * d3
    BY <2>1, <1>4, <1>5, <1>7, <1>10, CarryHorner
  <2>. QED  BY <2>2, <1>5, <1>9
<1>12. V1 \in Int /\ LIMB * (LIMB * LIMB) \in Int
  <2>. HIDE DEF V2
  <2>. QED  BY <1>1, <1>10
<1>13. Value(r) = Value(v) - M * d3 /\ Value(v) \in Int
  <2>1. Value(v) = v[0] + LIMB * V1
    BY DEF Value
  <2>. HIDE DEF V1
  <2>2. v[0] \in Int /\ LIMB \in Int /\ v[0] + LIMB * V1 \in Int /\ M * d3 \in Int
    BY <1>1, <1>7, <1>12
  <2>3. (v[0] + 0 - LIMB * d0) + LIMB * (V1 + d0 - (LIMB * (LIMB * LIMB)) * d3)
          = (v[0] + LIMB * V1) + 0 - (LIMB * (LIMB * (LIMB * LIMB))) * d3
    BY <2>2, <1>4, <1>7, <1>12, CarryHorner
  <2>4. Value(r) = r[0] + LIMB * (r[1] + LIMB * (r[2] + LIMB * r[3]))
    BY DEF Value
  <2>5. Value(r) = (v[0] + LIMB * V1) + 0 - M * d3
    BY <2>3, <2>4, <1>4, <1>11, <1>1
  <2>. QED  BY <2>1, <2>2, <2>5
<1>14. Value(r) \in 0 .. M - 1
  BY <1>8, ValueType
<1>15. Value(v) = M * d3 + Value(r)
  <2>1. M * d3 \in Int
    BY <1>1, <1>7
  <2>. QED  BY <2>1, <1>13, <1>14
<1>16. (M * d3 + Value(r)) % M = Value(r)
  BY <1>1, <1>7, <1>14, ModUnique
<1>. QED  BY <1>8, <1>15, <1>16 DEF r

(* The product with a number, limb by limb.                                *)
LEMMA MulIsMul ==
  ASSUME NEW a \in u256, NEW n \in Nat
  PROVE  Mul(a, n) \in u256 /\ Value(Mul(a, n)) = (Value(a) * n) % M
<1>. DEFINE v == [i \in Index |-> a[i] * n]
<1>1. /\ a[0] \in 0..LIMB-1 /\ a[1] \in 0..LIMB-1 /\ a[2] \in 0..LIMB-1 /\ a[3] \in 0..LIMB-1
      /\ LIMB \in Nat
  BY ValueType, LimbSize
<1>2. v \in [Index -> Nat]
  BY <1>1 DEF Index
<1>3. v[0] = a[0] * n /\ v[1] = a[1] * n /\ v[2] = a[2] * n /\ v[3] = a[3] * n
  BY DEF Index
<1>. HIDE DEF v
<1>4. \A L, x, S \in Int : x * n + L * (S * n) = (x + L * S) * n
  OBVIOUS
<1>. DEFINE A2 == a[2] + LIMB * a[3]
            A1 == a[1] + LIMB * A2
<1>5. v[2] + LIMB * v[3] = A2 * n /\ A2 \in Int
  BY <1>1, <1>3, <1>4
<1>6. v[1] + LIMB * (v[2] + LIMB * v[3]) = A1 * n /\ A1 \in Int
  <2>. HIDE DEF A2
  <2>. QED  BY <1>1, <1>3, <1>4, <1>5
<1>7. Value(v) = Value(a) * n
  <2>1. Value(a) = a[0] + LIMB * A1 /\ Value(v) = v[0] + LIMB * (v[1] + LIMB * (v[2] + LIMB * v[3]))
    BY DEF Value
  <2>. HIDE DEF A1
  <2>. QED  BY <1>1, <1>3, <1>4, <1>6, <2>1
<1>. QED  BY <1>2, <1>7, CarriedValue DEF Mul, v

-----------------------------------------------------------------------------
(* One limb of a division: the remainder from above and the limb itself.   *)
LEMMA DivLimb ==
  ASSUME NEW L \in Nat \ {0}, NEW n \in Nat \ {0}, NEW m \in 0..n-1, NEW x \in 0..L-1
  PROVE  LET v == m * L + x IN
           /\ v \div n \in 0..L-1 /\ v % n \in 0..n-1
           /\ v = n * (v \div n) + (v % n)
<1>. DEFINE v == m * L + x
<1>1. v \in Nat /\ v < n * L
  <2>1. m * L <= (n - 1) * L /\ m * L >= 0
    OBVIOUS
  <2>2. (n - 1) * L = n * L - L
    OBVIOUS
  <2>3. m * L \in Int /\ n * L \in Int
    OBVIOUS
  <2>. QED  BY <2>1, <2>2, <2>3
<1>. HIDE DEF v
<1>2. v = n * (v \div n) + (v % n) /\ v % n \in 0 .. n - 1 /\ v \div n \in Int
  BY <1>1, DivMod
<1>. DEFINE q == v \div n
            s == v % n
<1>. HIDE DEF q, s
<1>3. q \in Int /\ n * q <= v /\ v < n * q + n
  <2>1. v = n * q + s /\ s \in 0 .. n - 1 /\ q \in Int
    BY <1>2 DEF q, s
  <2>2. n * q \in Int
    BY <2>1
  <2>. QED  BY <2>1, <2>2
<1>4. q >= 0
  <2>1. ASSUME q <= -1 PROVE FALSE
    <3>1. n * q <= n * (-1) /\ n * (-1) = -n
      BY <2>1, <1>3
    <3>. QED  BY <3>1, <1>1, <1>3
  <2>. QED  BY <2>1, <1>3
<1>5. q < L
  <2>1. ASSUME q >= L PROVE FALSE
    <3>1. n * q >= n * L
      BY <2>1, <1>3
    <3>2. n * q \in Int /\ n * L \in Int
      BY <1>3
    <3>. QED  BY <3>1, <3>2, <1>1, <1>3
  <2>. QED  BY <2>1, <1>3
<1>. QED  BY <1>2, <1>3, <1>4, <1>5 DEF v, q

LEMMA DivHorner ==
  ASSUME NEW L \in Int, NEW n \in Int, NEW Q \in Int, NEW m \in Int, NEW x \in Int,
         NEW q \in Int, NEW s \in Int
  PROVE  /\ x + L * (n * Q + m) = L * (n * Q) + (m * L + x)
         /\ L * (n * Q) + (n * q + s) = n * (q + L * Q) + s
  OBVIOUS

(* Long division by a number, from the top limb down.                      *)
LEMMA DivIsDiv ==
  ASSUME NEW a \in u256, NEW n \in Nat \ {0}
  PROVE  Div(a, n) \in u256 /\ Value(Div(a, n)) = Value(a) \div n
<1>. DEFINE v2 == (a[3] % n) * LIMB + a[2]
            v1 == (v2 % n) * LIMB + a[1]
            v0 == (v1 % n) * LIMB + a[0]
            r  == Div(a, n)
<1>1. /\ a[0] \in 0..LIMB-1 /\ a[1] \in 0..LIMB-1 /\ a[2] \in 0..LIMB-1 /\ a[3] \in 0..LIMB-1
      /\ LIMB \in Nat \ {0}
  BY ValueType, LimbSize
<1>2. /\ r[0] = v0 \div n /\ r[1] = v1 \div n /\ r[2] = v2 \div n /\ r[3] = a[3] \div n
      /\ r = [i \in Index |-> r[i]]
  BY DEF Div, Index
<1>. HIDE DEF r
<1>. DEFINE m3 == a[3] % n
            m2 == v2 % n
            m1 == v1 % n
            m0 == v0 % n
<1>3. r[3] \in 0..LIMB-1 /\ m3 \in 0..n-1 /\ a[3] = n * r[3] + m3
  <2>1. 0 \in 0..n-1 /\ 0 * LIMB + a[3] = a[3]
    BY <1>1
  <2>. QED  BY <1>1, <1>2, <2>1, DivLimb
<1>4. r[2] \in 0..LIMB-1 /\ m2 \in 0..n-1 /\ m3 * LIMB + a[2] = n * r[2] + m2
  <2>. HIDE DEF m3
  <2>1. v2 = m3 * LIMB + a[2]
    BY DEF m3
  <2>. QED  BY <1>1, <1>2, <1>3, <2>1, DivLimb
<1>5. r[1] \in 0..LIMB-1 /\ m1 \in 0..n-1 /\ m2 * LIMB + a[1] = n * r[1] + m1
  <2>. HIDE DEF m2
  <2>1. v1 = m2 * LIMB + a[1]
    BY DEF m2
  <2>. QED  BY <1>1, <1>2, <1>4, <2>1, DivLimb
<1>6. r[0] \in 0..LIMB-1 /\ m0 \in 0..n-1 /\ m1 * LIMB + a[0] = n * r[0] + m0
  <2>. HIDE DEF m1
  <2>1. v0 = m1 * LIMB + a[0]
    BY DEF m1
  <2>. QED  BY <1>1, <1>2, <1>5, <2>1, DivLimb
<1>. HIDE DEF m0, m1, m2, m3, v0, v1, v2
<1>7. r \in u256
  <2>1. \A i \in Index : r[i] \in 0..LIMB-1
    BY <1>3, <1>4, <1>5, <1>6 DEF Index
  <2>. QED  BY <1>2, <2>1 DEF u256
<1>. DEFINE R2 == r[2] + LIMB * r[3]
            R1 == r[1] + LIMB * R2
<1>8. a[2] + LIMB * a[3] = n * R2 + m2 /\ R2 \in Int
  <2>1. /\ LIMB \in Int /\ n \in Int /\ r[3] \in Int /\ m3 \in Int /\ a[2] \in Int
        /\ r[2] \in Int /\ m2 \in Int
    BY <1>1, <1>3, <1>4
  <2>2. a[2] + LIMB * (n * r[3] + m3) = n * (r[2] + LIMB * r[3]) + m2
    <3>1. a[2] + LIMB * (n * r[3] + m3) = LIMB * (n * r[3]) + (m3 * LIMB + a[2])
      BY <2>1, DivHorner
    <3>2. LIMB * (n * r[3]) + (n * r[2] + m2) = n * (r[2] + LIMB * r[3]) + m2
      BY <2>1, DivHorner
    <3>. QED  BY <1>4, <3>1, <3>2
  <2>. QED  BY <1>3, <2>1, <2>2
<1>9. a[1] + LIMB * (a[2] + LIMB * a[3]) = n * R1 + m1 /\ R1 \in Int
  <2>. HIDE DEF R2
  <2>1. /\ LIMB \in Int /\ n \in Int /\ R2 \in Int /\ m2 \in Int /\ a[1] \in Int
        /\ r[1] \in Int /\ m1 \in Int
    BY <1>1, <1>4, <1>5, <1>8
  <2>2. a[1] + LIMB * (n * R2 + m2) = n * (r[1] + LIMB * R2) + m1
    <3>1. a[1] + LIMB * (n * R2 + m2) = LIMB * (n * R2) + (m2 * LIMB + a[1])
      BY <2>1, DivHorner
    <3>2. LIMB * (n * R2) + (n * r[1] + m1) = n * (r[1] + LIMB * R2) + m1
      BY <2>1, DivHorner
    <3>. QED  BY <1>5, <3>1, <3>2
  <2>. QED  BY <1>8, <2>1, <2>2
<1>10. Value(a) = n * Value(r) + m0 /\ Value(r) \in Int
  <2>1. /\ Value(a) = a[0] + LIMB * (a[1] + LIMB * (a[2] + LIMB * a[3]))
        /\ Value(r) = r[0] + LIMB * R1
    BY DEF Value
  <2>. HIDE DEF R1
  <2>2. /\ LIMB \in Int /\ n \in Int /\ R1 \in Int /\ m1 \in Int /\ a[0] \in Int
        /\ r[0] \in Int /\ m0 \in Int
    BY <1>1, <1>5, <1>6, <1>9
  <2>3. a[0] + LIMB * (n * R1 + m1) = n * (r[0] + LIMB * R1) + m0
    <3>1. a[0] + LIMB * (n * R1 + m1) = LIMB * (n * R1) + (m1 * LIMB + a[0])
      BY <2>2, DivHorner
    <3>2. LIMB * (n * R1) + (n * r[0] + m0) = n * (r[0] + LIMB * R1) + m0
      BY <2>2, DivHorner
    <3>. QED  BY <1>6, <3>1, <3>2
  <2>. QED  BY <1>9, <2>1, <2>2, <2>3
<1>11. (n * Value(r) + m0) \div n = Value(r)
  BY <1>6, <1>10, DivUnique
<1>. QED  BY <1>7, <1>10, <1>11 DEF r

(* A word survives the split into limbs.                                   *)
LEMMA FromValueIsInverse ==
  ASSUME NEW w \in 0..M-1
  PROVE  FromValue(w) \in u256 /\ Value(FromValue(w)) = w
<1>. DEFINE q1 == w \div LIMB
            q2 == q1 \div LIMB
            q3 == q2 \div LIMB
            r  == FromValue(w)
<1>1. LIMB \in Nat \ {0} /\ M = LIMB * (LIMB * (LIMB * LIMB))
  BY LimbSize
<1>2. /\ r[0] = w % LIMB /\ r[1] = q1 % LIMB /\ r[2] = q2 % LIMB /\ r[3] = q3 % LIMB
      /\ r = [i \in Index |-> r[i]]
  BY DEF FromValue, Index
<1>. HIDE DEF r
<1>3. \A N \in Nat \ {0} : \A x \in 0 .. LIMB * N - 1 :
        /\ x \div LIMB \in 0..N-1 /\ x % LIMB \in 0..LIMB-1
        /\ x = LIMB * (x \div LIMB) + (x % LIMB)
  <2>1. ASSUME NEW N \in Nat \ {0}, NEW x \in 0 .. LIMB * N - 1
        PROVE  /\ x \div LIMB \in 0..N-1 /\ x % LIMB \in 0..LIMB-1
               /\ x = LIMB * (x \div LIMB) + (x % LIMB)
    <3>1. x = LIMB * (x \div LIMB) + (x % LIMB) /\ x % LIMB \in 0..LIMB-1 /\ x \div LIMB \in Int
      BY <1>1, DivMod
    <3>. DEFINE y == x \div LIMB
                L == LIMB
    <3>2. y \in Int /\ L * y <= x /\ x < L * y + L /\ x \in Nat /\ L \in Nat \ {0} /\ x < L * N
      <4>1. LIMB * y \in Int /\ LIMB * N \in Int
        BY <1>1, <3>1
      <4>. QED  BY <1>1, <3>1, <4>1
    <3>. HIDE DEF y, L
    <3>3. y >= 0
      <4>1. ASSUME y <= -1 PROVE FALSE
        <5>1. L * y <= L * (-1) /\ L * (-1) = -L
          BY <4>1, <3>2
        <5>. QED  BY <5>1, <3>2
      <4>. QED  BY <4>1, <3>2
    <3>4. y < N
      <4>1. ASSUME y >= N PROVE FALSE
        <5>1. L * y >= L * N
          BY <4>1, <3>2
        <5>2. L * y \in Int /\ L * N \in Int
          BY <3>2
        <5>. QED  BY <5>1, <5>2, <3>2
      <4>. QED  BY <4>1, <3>2
    <3>. QED  BY <3>1, <3>2, <3>3, <3>4 DEF y
  <2>. QED  BY <2>1
<1>4. /\ LIMB * (LIMB * LIMB) \in Nat \ {0} /\ LIMB * LIMB \in Nat \ {0}
  BY <1>1
<1>5. /\ q1 \in 0 .. LIMB * (LIMB * LIMB) - 1 /\ r[0] \in 0..LIMB-1 /\ w = LIMB * q1 + r[0]
  BY <1>1, <1>2, <1>3, <1>4
<1>. HIDE DEF q1
<1>6. /\ q2 \in 0 .. LIMB * LIMB - 1 /\ r[1] \in 0..LIMB-1 /\ q1 = LIMB * q2 + r[1]
  BY <1>2, <1>3, <1>4, <1>5
<1>. HIDE DEF q2
<1>7. /\ q3 \in 0 .. LIMB - 1 /\ r[2] \in 0..LIMB-1 /\ q2 = LIMB * q3 + r[2]
  BY <1>1, <1>2, <1>3, <1>6
<1>. HIDE DEF q3
<1>8. r[3] = q3
  <2>1. q3 = LIMB * 0 + q3
    BY <1>7, <1>1
  <2>2. (LIMB * 0 + q3) % LIMB = q3
    BY <1>1, <1>7, ModUnique
  <2>. QED  BY <1>2, <2>1, <2>2
<1>9. r \in u256
  <2>1. \A i \in Index : r[i] \in 0..LIMB-1
    BY <1>5, <1>6, <1>7, <1>8 DEF Index
  <2>. QED  BY <1>2, <2>1 DEF u256
<1>10. r[2] + LIMB * r[3] = q2
  <2>1. LIMB * q3 \in Int
    BY <1>1, <1>7
  <2>. QED  BY <1>7, <1>8, <2>1
<1>11. r[1] + LIMB * q2 = q1
  <2>1. LIMB * q2 \in Int
    BY <1>1, <1>6
  <2>. QED  BY <1>6, <2>1
<1>12. r[0] + LIMB * q1 = w
  <2>1. LIMB * q1 \in Int
    BY <1>1, <1>5
  <2>. QED  BY <1>5, <2>1
<1>. QED  BY <1>9, <1>10, <1>11, <1>12 DEF Value, r

-----------------------------------------------------------------------------
(* The next target computed on limbs is the one computed on words.         *)
LEMMA LimitedIsMinimum ==
  ASSUME NEW a \in u256
  PROVE  /\ Limited(a) \in u256
         /\ Value(Limited(a)) = IF Value(a) < POW_LIMIT THEN Value(a) ELSE POW_LIMIT
<1>1. POW_LIMIT \in 0..M-1
  BY SameWord, ConsensusAssumption, LimbSize DEF WordMod, M
<1>2. FromValue(POW_LIMIT) \in u256 /\ Value(FromValue(POW_LIMIT)) = POW_LIMIT
  BY <1>1, FromValueIsInverse
<1>3. Less(a, FromValue(POW_LIMIT)) <=> Value(a) < POW_LIMIT
  BY <1>2, LessIsLess
<1>. QED  BY <1>2, <1>3 DEF Limited

LEMMA NextTargetOnLimbs ==
  ASSUME NEW old \in u256, NEW epoch_start \in Nat, NEW previous \in Nat
  PROVE  LET next == next_target(old, ClampedTimespan(epoch_start, previous))
             word == calculate_next_target_required(Value(old), epoch_start, previous)
         IN  /\ next.target \in u256
             /\ Value(next.target) = word.target
             /\ next.nbits = word.nbits
<1>. DEFINE span    == ClampedTimespan(epoch_start, previous)
            limbs   == Limited(Div(Mul(old, span), EXPECTED_EPOCH_TIMESPAN))
            scaled  == ScaledTarget(Value(old), span)
            clamped == IF scaled < POW_LIMIT THEN scaled ELSE POW_LIMIT
            compact == target_to_bits(clamped)
<1>1. EXPECTED_EPOCH_TIMESPAN \in Nat \ {0} /\ span \in Nat
  <2>1. EXPECTED_EPOCH_TIMESPAN \in Nat \ {0}
    BY ConsensusAssumption DEF EXPECTED_EPOCH_TIMESPAN
  <2>2. span \in MIN_EPOCH_TIMESPAN .. MAX_EPOCH_TIMESPAN
    BY ClampedTimespanType
  <2>. QED  BY <2>1, <2>2 DEF MIN_EPOCH_TIMESPAN, MAX_EPOCH_TIMESPAN
<1>. HIDE DEF span
<1>2. M = WordMod
  BY SameWord DEF M
<1>3. Mul(old, span) \in u256 /\ Value(Mul(old, span)) = (Value(old) * span) % WordMod
  BY <1>1, <1>2, MulIsMul
<1>4. /\ Div(Mul(old, span), EXPECTED_EPOCH_TIMESPAN) \in u256
      /\ Value(Div(Mul(old, span), EXPECTED_EPOCH_TIMESPAN)) = scaled
  BY <1>1, <1>3, DivIsDiv DEF ScaledTarget
<1>5. limbs \in u256 /\ Value(limbs) = clamped
  BY <1>4, LimitedIsMinimum
<1>6. clamped \in Words
  BY <1>2, <1>5, ValueType DEF Words
<1>. HIDE DEF limbs, clamped
<1>7. target_from_bits(compact) \in 0..M-1
  BY <1>2, <1>6, ToBitsType, FromBitsType DEF Words
<1>8. /\ FromValue(target_from_bits(compact)) \in u256
      /\ Value(FromValue(target_from_bits(compact))) = target_from_bits(compact)
  BY <1>7, FromValueIsInverse
<1>9. next_target(old, span) = [nbits |-> compact, target |-> FromValue(target_from_bits(compact))]
  BY <1>5 DEF next_target, limbs
<1>10. calculate_next_target_required(Value(old), epoch_start, previous)
         = [nbits |-> compact, target |-> target_from_bits(compact)]
  BY DEF calculate_next_target_required, clamped, span
<1>. QED  BY <1>8, <1>9, <1>10 DEF span

-----------------------------------------------------------------------------
(* No bit of the quotient is set yet at or below the next one.             *)
BitsToCome ==
  bit \in 0..BITS-1 =>
    \E i \in Index, k \in 0..WIDTH-1, c \in Nat :
      /\ bit = WIDTH * i + k
      /\ quotient[i] = Pow2[k+1] * c
      /\ \A j \in Index : j < i => quotient[j] = 0

Registers ==
  /\ call.target \in u256 /\ call.at_boundary \in BOOLEAN
  /\ divisor \in u256 /\ remainder \in u256 /\ quotient \in u256
  /\ bit \in -1 .. BITS

\* What a call made at a boundary will give the state besides the work.
CallIsBoundary ==
  call.at_boundary =>
    \E epoch_start, previous \in TIMESTAMPS :
      LET next == calculate_next_target_required(Value(current_target), epoch_start, previous)
      IN  /\ Value(call.target) = next.target /\ call.nbits = next.nbits
          /\ call.timespan = ClampedTimespan(epoch_start, previous)

Inv ==
  /\ current_target \in u256
  /\ running \in BOOLEAN
  /\ running => /\ Registers /\ DivProofs!Division /\ CallIsBoundary /\ BitsToCome
                /\ (bit = BITS => quotient = Zero)

LEMMA ZeroType == Zero \in u256 /\ Value(Zero) = 0
<1>1. LIMB \in Nat /\ LIMB >= 2 /\ LIMB * 0 = 0
  BY LimbSize
<1>2. Zero[0] = 0 /\ Zero[1] = 0 /\ Zero[2] = 0 /\ Zero[3] = 0
  BY DEF Zero, Index
<1>3. Value(Zero) = 0 + LIMB * (0 + LIMB * (0 + LIMB * 0))
  BY <1>2 DEF Value
<1>. QED  BY <1>1, <1>3 DEF Zero, u256

(* The shifted remainder of the limbs is the one of the integers.          *)
LEMMA ShiftedOnLimbs ==
  ASSUME Inv, running
  PROVE  /\ shifted \in u256
         /\ Value(shifted) = DivProofs!shifted
         /\ fits <=> DivProofs!fits
<1>1. remainder \in u256 /\ divisor \in u256 /\ bit \in -1 .. BITS
  BY DEF Inv, Registers
<1>2. /\ shl1(remainder) \in u256
      /\ Value(shl1(remainder)) = (2 * Value(remainder)) % M
      /\ shl1_carry(remainder) <=> 2 * Value(remainder) >= M
      /\ shl1(remainder)[0] % 2 = 0
  BY <1>1, ShlIsDouble
<1>3. shifted \in u256 /\ Value(shifted) = DivProofs!shifted
  <2>1. CASE bit = BITS
    <3>. DEFINE s == shl1(remainder)
    <3>1. s[0] \in 0..LIMB-1 /\ LIMB \in Nat /\ LIMB >= 2 /\ LIMB % 2 = 0
      BY <1>2, ValueType, LimbSize
    <3>2. Pow2[0] = 1
      BY Pow2Assumption
    <3>3. WithBit(s[0], 0) = s[0] + 1
      <4>. HIDE DEF s
      <4>1. s[0] \div 1 = s[0] /\ s[0] % 2 = 0
        BY <1>2, <3>1 DEF s
      <4>. QED  BY <3>2, <4>1 DEF WithBit
    <3>4. s[0] + 1 \in 0..LIMB-1
      <4>. HIDE DEF s
      <4>1. s[0] % 2 = 0
        BY <1>2 DEF s
      <4>. QED  BY <3>1, <4>1
    <3>5. shifted = [s EXCEPT ![0] = s[0] + 1]
      BY <2>1, <3>3 DEF shifted
    <3>6. 0 \in Index /\ 1 \in Nat
      BY DEF Index
    <3>. HIDE DEF s
    <3>7. shifted \in u256 /\ Value(shifted) = Value(s) + 1
      <4>1. s \in u256
        BY <1>2 DEF s
      <4>. QED  BY <3>4, <3>5, <3>6, <4>1, ValueOfAdded
    <3>. QED  BY <1>2, <2>1, <3>7 DEF s, DivProofs!shifted, DivProofs!M, M
  <2>2. CASE bit # BITS
    <3>1. shifted = shl1(remainder)
      BY <2>2 DEF shifted
    <3>2. Value(shl1(remainder)) \in 0..M-1
      BY <1>2, ValueType
    <3>3. DivProofs!shifted = Value(shl1(remainder)) + 0
      BY <1>2, <2>2 DEF DivProofs!shifted, DivProofs!M, M
    <3>. QED  BY <1>2, <3>1, <3>2, <3>3
  <2>. QED  BY <2>1, <2>2
<1>4. Less(shifted, divisor) <=> Value(shifted) < Value(divisor)
  BY <1>1, <1>3, LessIsLess
<1>5. Value(shifted) \in 0..M-1 /\ Value(divisor) \in 0..M-1 /\ M \in Nat
  BY <1>1, <1>3, ValueType, LimbSize
<1>6. fits <=> DivProofs!fits
  BY <1>2, <1>3, <1>4, <1>5 DEF fits, DivProofs!fits, DivProofs!carry, DivProofs!M, M
<1>. QED  BY <1>3, <1>6

(* An iteration on limbs is one on integers, and leaves the lower bits of  *)
(* the quotient clear.                                                     *)
LEMMA SkipIsSkip ==
  ASSUME Inv, Skip
  PROVE  DivProofs!Skip /\ Registers' /\ quotient' = quotient /\ bit' = bit - 1
<1>1. /\ running /\ bit >= 0 /\ ~fits /\ remainder' = shifted /\ bit' = bit - 1
      /\ call' = call /\ divisor' = divisor /\ quotient' = quotient
  BY DEF Skip
<1>2. Registers
  BY <1>1 DEF Inv
<1>3. shifted \in u256 /\ Value(shifted) = DivProofs!shifted /\ ~DivProofs!fits
  BY <1>1, ShiftedOnLimbs
<1>4. Registers'
  BY <1>1, <1>2, <1>3, Pow2Assumption DEF Registers
<1>. QED  BY <1>1, <1>3, <1>4 DEF DivProofs!Skip

LEMMA BitPosition ==
  ASSUME Inv, running, bit \in 0..BITS-1
  PROVE  \E i \in Index, k \in 0..WIDTH-1, c \in Nat :
           /\ bit = WIDTH * i + k
           /\ quotient[i] = Pow2[k+1] * c
           /\ \A j \in Index : j < i => quotient[j] = 0
  BY DEF Inv, BitsToCome

LEMMA SubtractIsSubtract ==
  ASSUME Inv, Subtract
  PROVE  /\ DivProofs!Subtract /\ Registers' /\ bit' = bit - 1
         /\ quotient' = IF bit < BITS THEN SetBit(quotient, bit) ELSE quotient
<1>1. /\ running /\ bit >= 0 /\ fits /\ remainder' = sub_assign(shifted, divisor)
      /\ bit' = bit - 1 /\ call' = call /\ divisor' = divisor
      /\ quotient' = IF bit < BITS THEN SetBit(quotient, bit) ELSE quotient
  BY DEF Subtract
<1>2. Registers
  BY <1>1 DEF Inv
<1>3. shifted \in u256 /\ Value(shifted) = DivProofs!shifted /\ DivProofs!fits
  BY <1>1, ShiftedOnLimbs
<1>4. /\ remainder' \in u256
      /\ Value(remainder') = (DivProofs!shifted - Value(divisor)) % DivProofs!M
  BY <1>1, <1>2, <1>3, SubIsSub DEF Registers, DivProofs!M, M
<1>5. /\ quotient' \in u256
      /\ Value(quotient') = IF bit < BITS THEN Value(quotient) + Pow2[bit] ELSE Value(quotient)
  <2>1. CASE bit < BITS
    <3>1. bit \in 0..BITS-1
      BY <1>1, <1>2, <2>1, Pow2Assumption DEF Registers
    <3>2. PICK i \in Index, k \in 0..WIDTH-1, c \in Nat :
            bit = WIDTH * i + k /\ quotient[i] = Pow2[k+1] * c
      BY <1>1, <3>1, BitPosition
    <3>3. SetBit(quotient, bit) \in u256 /\ Value(SetBit(quotient, bit)) = Value(quotient) + Pow2[bit]
      <4>1. quotient \in u256
        BY <1>2 DEF Registers
      <4>. QED  BY <3>2, <4>1, SetBitIsPlus
    <3>. QED  BY <1>1, <2>1, <3>3
  <2>2. CASE ~(bit < BITS)
    BY <1>1, <1>2, <2>2 DEF Registers
  <2>. QED  BY <2>1, <2>2
<1>6. Registers'
  BY <1>1, <1>2, <1>4, <1>5, Pow2Assumption DEF Registers
<1>. QED  BY <1>1, <1>3, <1>4, <1>5, <1>6 DEF DivProofs!Subtract

LEMMA BitsToComeStep ==
  ASSUME Inv, running, bit >= 0, bit' = bit - 1,
         \/ quotient' = quotient
         \/ quotient' = IF bit < BITS THEN SetBit(quotient, bit) ELSE quotient
  PROVE  BitsToCome'
<1>1. /\ WIDTH \in Nat \ {0} /\ BITS = 4 * WIDTH /\ bit \in 0..BITS /\ quotient \in u256
      /\ (bit = BITS => quotient = Zero)
  BY WidthAssumption DEF Inv, Registers
<1>. SUFFICES ASSUME bit' \in 0..BITS-1
              PROVE  \E i \in Index, k \in 0..WIDTH-1, c \in Nat :
                       /\ bit' = WIDTH * i + k
                       /\ quotient'[i] = Pow2[k+1] * c
                       /\ \A j \in Index : j < i => quotient'[j] = 0
  BY DEF BitsToCome
<1>2. CASE bit = BITS
  <2>1. quotient' = Zero /\ bit' = WIDTH * 3 + (WIDTH - 1)
    BY <1>1, <1>2
  <2>2. 3 \in Index /\ WIDTH - 1 \in 0..WIDTH-1 /\ 0 \in Nat /\ Pow2[(WIDTH - 1) + 1] * 0 = 0
    <3>1. Pow2[(WIDTH - 1) + 1] \in Nat \ {0}
      <4>1. WIDTH - 1 \in 0..WIDTH-1
        BY <1>1
      <4>. QED  BY <4>1, BitWeights
    <3>. QED  BY <1>1, <3>1 DEF Index
  <2>3. \A j \in Index : quotient'[j] = 0
    BY <2>1 DEF Zero
  <2>. QED  BY <2>1, <2>2, <2>3
<1>3. CASE bit # BITS
  <2>1. bit \in 0..BITS-1
    BY <1>1, <1>3
  <2>2. PICK i \in Index, k \in 0..WIDTH-1, c \in Nat :
          /\ bit = WIDTH * i + k
          /\ quotient[i] = Pow2[k+1] * c
          /\ \A j \in Index : j < i => quotient[j] = 0
    BY <2>1, BitPosition
  <2>3. Pow2[k] \in Nat \ {0} /\ Pow2[k+1] = 2 * Pow2[k]
    BY BitWeights
  <2>4. PICK d \in Nat : /\ quotient'[i] = Pow2[k] * d
                         /\ \A j \in Index : j < i => quotient'[j] = 0
    <3>1. CASE quotient' = quotient
      <4>1. quotient'[i] = Pow2[k] * (2 * c)
        <5>1. (2 * Pow2[k]) * c = Pow2[k] * (2 * c)
          BY <2>3
        <5>. QED  BY <2>2, <2>3, <3>1, <5>1
      <4>2. 2 * c \in Nat
        OBVIOUS
      <4>. QED  BY <2>2, <3>1, <4>1, <4>2
    <3>2. CASE quotient' = IF bit < BITS THEN SetBit(quotient, bit) ELSE quotient
      <4>1. quotient' = SetBit(quotient, bit)
        <5>1. bit < BITS
          BY <1>1, <2>1
        <5>. QED  BY <3>2, <5>1
      <4>2. /\ SetBit(quotient, bit) = [quotient EXCEPT ![i] = quotient[i] + Pow2[k]]
            /\ quotient[i] + Pow2[k] = Pow2[k] * (2 * c + 1)
        BY <1>1, <2>2, SetBitIsPlus
      <4>3. quotient' = [quotient EXCEPT ![i] = quotient[i] + Pow2[k]]
        BY <4>1, <4>2
      <4>4. quotient'[i] = Pow2[k] * (2 * c + 1)
        BY <1>1, <4>2, <4>3 DEF u256
      <4>5. ASSUME NEW j \in Index, j < i PROVE quotient'[j] = 0
        <5>1. j # i
          BY <4>5 DEF Index
        <5>. QED  BY <1>1, <2>2, <4>3, <4>5, <5>1 DEF u256
      <4>6. 2 * c + 1 \in Nat
        OBVIOUS
      <4>. QED  BY <4>4, <4>5, <4>6
    <3>. QED  BY <3>1, <3>2
  <2>5. CASE k > 0
    <3>1. k - 1 \in 0..WIDTH-1 /\ bit' = WIDTH * i + (k - 1)
      <4>1. WIDTH * i \in Int
        BY <1>1 DEF Index
      <4>. QED  BY <1>1, <2>2, <2>5, <4>1
    <3>2. (k - 1) + 1 = k
      OBVIOUS
    <3>. QED  BY <2>4, <3>1, <3>2
  <2>6. CASE k = 0
    <3>1. i - 1 \in Index /\ i - 1 < i
      <4>1. i # 0
        <5>1. ASSUME i = 0 PROVE FALSE
          <6>1. bit = 0
            BY <1>1, <2>2, <2>6, <5>1
          <6>. QED  BY <6>1
        <5>. QED  BY <5>1
      <4>. QED  BY <4>1 DEF Index
    <3>2. bit' = WIDTH * (i - 1) + (WIDTH - 1) /\ WIDTH - 1 \in 0..WIDTH-1
      <4>1. WIDTH * (i - 1) = WIDTH * i - WIDTH /\ WIDTH * i \in Int
        BY <1>1 DEF Index
      <4>. QED  BY <1>1, <2>2, <2>6, <4>1
    <3>3. quotient'[i - 1] = Pow2[(WIDTH - 1) + 1] * 0
      <4>1. Pow2[(WIDTH - 1) + 1] \in Nat
        BY <3>2, BitWeights
      <4>. QED  BY <2>4, <3>1, <4>1
    <3>4. \A j \in Index : j < i - 1 => quotient'[j] = 0
      <4>1. \A j \in Index : j < i - 1 => j < i
        BY DEF Index
      <4>. QED  BY <2>4, <4>1
    <3>. QED  BY <3>1, <3>2, <3>3, <3>4
  <2>. QED  BY <2>5, <2>6
<1>. QED  BY <1>2, <1>3

-----------------------------------------------------------------------------
(* A call is entered with the registers of long division.                  *)
LEMMA StartIsInit ==
  ASSUME NEW c, c.target \in u256, c.at_boundary \in BOOLEAN, StartDivision(c)
  PROVE  /\ DivProofs!Init' /\ DivProofs!Division' /\ Registers' /\ BitsToCome'
         /\ running' = TRUE /\ call' = c /\ quotient' = Zero
<1>1. /\ ~Saturated(c.target) /\ running' = TRUE /\ call' = c
      /\ divisor' = increment_target(c.target)
      /\ bit' = BITS /\ remainder' = Zero /\ quotient' = Zero
  BY DEF StartDivision
<1>2. divisor' \in u256 /\ Value(divisor') = Value(c.target) + 1
  BY <1>1, IncrementIsPlusOne
<1>3. Value(c.target) \in 0 .. M - 2
  <2>1. Value(c.target) \in 0 .. M - 1 /\ Value(divisor') \in 0 .. M - 1 /\ M \in Nat
    BY <1>2, ValueType, LimbSize
  <2>. QED  BY <1>2, <2>1
<1>4. DivProofs!Init'
  BY <1>1, <1>2, <1>3, ZeroType DEF DivProofs!Init, DivProofs!M, M
<1>5. BITS \in Nat \ {0} /\ Value(Zero) = 0 /\ Zero \in u256
  BY Pow2Assumption, ZeroType
<1>6. DivProofs!Division'
  BY <1>4, <1>5 DEF DivProofs!Init, DivProofs!Division
<1>7. Registers' /\ BitsToCome'
  BY <1>1, <1>2, <1>5 DEF Registers, BitsToCome
<1>. QED  BY <1>1, <1>4, <1>6, <1>7

LEMMA InvInit == Init => Inv
<1>1. POW_LIMIT \in 0..M-1
  BY SameWord, ConsensusAssumption, LimbSize DEF WordMod, M
<1>. QED  BY <1>1, FromValueIsInverse DEF Init, Inv

LEMMA BoundaryStep ==
  ASSUME Inv, NEW epoch_start \in TIMESTAMPS, NEW previous \in TIMESTAMPS,
         prepare_new_epoch(epoch_start, previous)
  PROVE  Inv' /\ DivProofs!Init' /\ UNCHANGED state
<1>. DEFINE next == next_target(current_target, ClampedTimespan(epoch_start, previous))
            word == calculate_next_target_required(Value(current_target), epoch_start, previous)
            c    == [target |-> next.target, nbits |-> next.nbits, at_boundary |-> TRUE,
                     timespan |-> ClampedTimespan(epoch_start, previous)]
<1>1. current_target \in u256 /\ epoch_start \in Nat /\ previous \in Nat
  BY TimestampAssumption DEF Inv
<1>2. next.target \in u256 /\ Value(next.target) = word.target /\ next.nbits = word.nbits
  BY <1>1, NextTargetOnLimbs
<1>3. StartDivision(c) /\ UNCHANGED state
  BY DEF prepare_new_epoch
<1>4. current_target' = current_target
  BY <1>3 DEF state
<1>5. /\ c.target = next.target /\ c.nbits = next.nbits /\ c.at_boundary = TRUE
      /\ c.timespan = ClampedTimespan(epoch_start, previous)
  OBVIOUS
<1>. HIDE DEF c, next
<1>6. /\ DivProofs!Init' /\ DivProofs!Division' /\ Registers' /\ BitsToCome'
      /\ running' = TRUE /\ call' = c /\ quotient' = Zero
  <2>1. c.target \in u256 /\ c.at_boundary \in BOOLEAN
    BY <1>2, <1>5
  <2>. QED  BY <1>3, <2>1, StartIsInit
<1>7. CallIsBoundary'
  BY <1>2, <1>4, <1>5, <1>6 DEF CallIsBoundary
<1>. QED  BY <1>1, <1>3, <1>4, <1>6, <1>7 DEF Inv

LEMMA RowWorkStep ==
  ASSUME Inv, NEW t \in ROW_TARGETS, RowWork(t)
  PROVE  Inv' /\ DivProofs!Init' /\ UNCHANGED state
<1>. DEFINE c == [Idle EXCEPT !.target = FromValue(t)]
<1>1. t \in 0..M-1
  BY TimestampAssumption, SameWord DEF Words, M
<1>2. c.target = FromValue(t) /\ c.at_boundary = FALSE
  BY DEF Idle
<1>3. StartDivision(c) /\ UNCHANGED state
  BY DEF RowWork
<1>. HIDE DEF c
<1>4. c.target \in u256
  BY <1>1, <1>2, FromValueIsInverse
<1>5. /\ DivProofs!Init' /\ DivProofs!Division' /\ Registers' /\ BitsToCome'
      /\ running' = TRUE /\ call' = c /\ quotient' = Zero
  BY <1>2, <1>3, <1>4, StartIsInit
<1>6. CallIsBoundary'
  BY <1>2, <1>5 DEF CallIsBoundary
<1>. QED  BY <1>3, <1>5, <1>6 DEF Inv, state

LEMMA LoopStep ==
  ASSUME Inv, Subtract \/ Skip
  PROVE  Inv' /\ DivProofs!Next /\ UNCHANGED state
<1>1. /\ running /\ running' = running /\ call' = call /\ bit' = bit - 1 /\ bit >= 0
      /\ UNCHANGED state /\ current_target' = current_target
      /\ \/ quotient' = quotient
         \/ quotient' = IF bit < BITS THEN SetBit(quotient, bit) ELSE quotient
  BY DEF Subtract, Skip, state
<1>2. DivProofs!Next /\ Registers'
  BY SkipIsSkip, SubtractIsSubtract DEF DivProofs!Next
<1>3. DivProofs!Division'
  <2>1. DivProofs!Division
    BY <1>1 DEF Inv
  <2>. QED  BY <1>2, <2>1, Pow2Assumption, DivProofs!DivisionStep
<1>4. BitsToCome'
  BY <1>1, BitsToComeStep
<1>5. CallIsBoundary'
  BY <1>1 DEF Inv, CallIsBoundary
<1>6. bit' # BITS
  BY <1>1, Pow2Assumption DEF Inv, Registers
<1>. QED  BY <1>1, <1>2, <1>3, <1>4, <1>5, <1>6 DEF Inv

LEMMA ReturnStep ==
  ASSUME Inv, running, Adopt \/ ReturnRowWork
  PROVE  Inv' /\ running' = FALSE
<1>1. running' = FALSE
  BY DEF Adopt, ReturnRowWork, Return
<1>2. current_target' \in u256
  BY DEF Adopt, ReturnRowWork, Inv, Registers, state
<1>. QED  BY <1>1, <1>2 DEF Inv

LEMMA StepInv == Inv /\ [Next]_vars => Inv'
<1>. SUFFICES ASSUME Inv, [Next]_vars PROVE Inv'
  OBVIOUS
<1>1. ASSUME NEW epoch_start \in TIMESTAMPS, NEW previous \in TIMESTAMPS,
             prepare_new_epoch(epoch_start, previous)
      PROVE  Inv'
  BY <1>1, BoundaryStep
<1>2. ASSUME NEW t \in ROW_TARGETS, RowWork(t) PROVE Inv'
  BY <1>2, RowWorkStep
<1>3. CASE Subtract \/ Skip
  BY <1>3, LoopStep
<1>4. CASE Adopt \/ ReturnRowWork
  <2>1. running
    BY <1>4 DEF Adopt, ReturnRowWork, Return
  <2>. QED  BY <1>4, <2>1, ReturnStep
<1>5. CASE UNCHANGED vars
  BY <1>5 DEF vars, state, registers, Inv, Registers, CallIsBoundary, BitsToCome,
              DivProofs!Division, DivProofs!Dropped
<1>. QED  BY <1>1, <1>2, <1>3, <1>4, <1>5 DEF Next

LEMMA LimbInvariant == Spec => []Inv
  BY InvInit, StepInv, PTL DEF Spec

-----------------------------------------------------------------------------
(* The limbs of the quotient hold floor(2^BITS / (target + 1)) when the    *)
(* loop ends, for every width of a limb and every target.                  *)
THEOREM WorkOnLimbs == Spec => []WorkIsQuotient
<1>1. Inv => WorkIsQuotient
  BY Pow2Assumption, DivProofs!QuotientAtEnd
     DEF Inv, WorkIsQuotient, Division!QuotientIsWork, DivProofs!QuotientIsWork,
         Division!M, DivProofs!M
<1>. QED  BY <1>1, LimbInvariant, PTL

(* Each iteration on limbs is one iteration of long division on integers.  *)
THEOREM LimbsImplementLoop == Spec => LoopDivides
<1>1. Inv /\ [Next]_vars =>
        [running' => IF running THEN Division!Next ELSE Division!Init']_registers
  <2>. SUFFICES ASSUME Inv, [Next]_vars, running', registers' # registers
                PROVE  IF running THEN Division!Next ELSE Division!Init'
    OBVIOUS
  <2>1. Next
    BY DEF vars
  <2>2. CASE running
    <3>1. Subtract \/ Skip
      BY <2>1, <2>2 DEF Next, prepare_new_epoch, RowWork, StartDivision, Adopt, ReturnRowWork, Return
    <3>2. DivProofs!Next
      BY <3>1, LoopStep
    <3>. QED  BY <2>2, <3>2 DEF DivProofs!Next, DivProofs!Subtract, DivProofs!Skip, DivProofs!fits,
                    DivProofs!carry, DivProofs!shifted, DivProofs!M, Division!Next,
                    Division!Subtract, Division!Skip, Division!fits, Division!carry,
                    Division!shifted, Division!M
  <2>3. CASE ~running
    <3>1. DivProofs!Init'
      BY <2>1, <2>3, BoundaryStep, RowWorkStep DEF Next, Subtract, Skip, Adopt, ReturnRowWork, Return
    <3>. QED  BY <2>3, <3>1 DEF DivProofs!Init, Division!Init, DivProofs!M, Division!M
  <2>. QED  BY <2>2, <2>3 DEF Inv
<1>. QED  BY <1>1, LimbInvariant, PTL DEF Spec, LoopDivides

(* Retarget.tla has the difficulty arithmetic of this module.              *)
LEMMA SameDifficulty ==
  /\ Epochs!EXPECTED_EPOCH_TIMESPAN = EXPECTED_EPOCH_TIMESPAN
  /\ \A t : Epochs!target_to_bits(t) = target_to_bits(t)
  /\ \A t : Epochs!work_from_target(t) = work_from_target(t)
  /\ \A s, p : Epochs!ClampedTimespan(s, p) = ClampedTimespan(s, p)
  /\ \A t, s, p : Epochs!calculate_next_target_required(t, s, p)
                    = calculate_next_target_required(t, s, p)
<1>1. /\ Epochs!EXPECTED_EPOCH_TIMESPAN = EXPECTED_EPOCH_TIMESPAN
      /\ Epochs!WordMod = WordMod /\ Epochs!SignBit = SignBit
  BY DEF Epochs!EXPECTED_EPOCH_TIMESPAN, EXPECTED_EPOCH_TIMESPAN, Epochs!WordMod, WordMod,
         Epochs!SignBit, SignBit
<1>2. \A t, n : Epochs!SignificantBytes(t) = SignificantBytes(t)
              /\ Epochs!LeadingDigits(t, n) = LeadingDigits(t, n)
  <2>1. \A S : Epochs!Cardinality(S) = Cardinality(S)
    BY DEF Epochs!Cardinality, Cardinality
  <2>. QED  BY <2>1 DEF Epochs!SignificantBytes, SignificantBytes, Epochs!LeadingDigits, LeadingDigits
<1>3. \A t : Epochs!target_to_bits(t) = target_to_bits(t)
  BY <1>1, <1>2 DEF Epochs!target_to_bits, target_to_bits
<1>4. \A t : Epochs!target_from_bits(t) = target_from_bits(t)
              /\ Epochs!work_from_target(t) = work_from_target(t)
  BY <1>1 DEF Epochs!target_from_bits, target_from_bits, Epochs!work_from_target, work_from_target
<1>5. \A s, p : Epochs!ClampedTimespan(s, p) = ClampedTimespan(s, p)
  BY <1>1 DEF Epochs!ClampedTimespan, ClampedTimespan, Epochs!Clamp, Clamp,
              Epochs!MIN_EPOCH_TIMESPAN, MIN_EPOCH_TIMESPAN,
              Epochs!MAX_EPOCH_TIMESPAN, MAX_EPOCH_TIMESPAN
<1>6. \A t, n : Epochs!ScaledTarget(t, n) = ScaledTarget(t, n)
  BY <1>1 DEF Epochs!ScaledTarget, ScaledTarget
<1>7. \A t, s, p : Epochs!calculate_next_target_required(t, s, p)
                     = calculate_next_target_required(t, s, p)
  BY <1>3, <1>4, <1>5, <1>6
     DEF Epochs!calculate_next_target_required, calculate_next_target_required
<1>. QED  BY <1>1, <1>3, <1>4, <1>5, <1>7

(* Boundaries computed on limbs are boundaries of the arithmetic without   *)
(* limbs: target, nbits and work change together, to the very values.      *)
THEOREM LimbsImplementRetarget == Spec => RefinesRetarget
<1>1. Init => Epochs!Init
  <2>. SUFFICES ASSUME Init PROVE Epochs!Init
    OBVIOUS
  <2>1. M = WordMod /\ POW_LIMIT \in 0..M-1
    BY SameWord, ConsensusAssumption, LimbSize DEF WordMod, M
  <2>2. work_from_target(POW_LIMIT) \in 0..M-1
    BY <2>1, WorkType DEF Words
  <2>3. /\ Value(FromValue(POW_LIMIT)) = POW_LIMIT
        /\ Value(FromValue(work_from_target(POW_LIMIT))) = work_from_target(POW_LIMIT)
    BY <2>1, <2>2, FromValueIsInverse
  <2>4. /\ current_target = FromValue(POW_LIMIT) /\ current_nbits = target_to_bits(POW_LIMIT)
        /\ current_work = FromValue(work_from_target(POW_LIMIT))
        /\ boundary.old = FromValue(POW_LIMIT) /\ boundary.timespan = EXPECTED_EPOCH_TIMESPAN
    BY DEF Init, GenesisBoundary
  <2>. QED  BY <2>3, <2>4, SameDifficulty DEF Epochs!Init
<1>2. Inv /\ [Next]_vars => [Epochs!Next]_(Epochs!vars)
  <2>. SUFFICES ASSUME Inv, [Next]_vars PROVE Epochs!Next \/ UNCHANGED Epochs!vars
    OBVIOUS
  <2>1. ASSUME UNCHANGED state PROVE UNCHANGED Epochs!vars
    BY <2>1 DEF state, Epochs!vars
  <2>2. CASE Adopt
    <3>1. /\ running /\ bit = -1 /\ call.at_boundary
          /\ current_target' = call.target /\ current_nbits' = call.nbits
          /\ current_work' = quotient
          /\ boundary' = [old |-> current_target, timespan |-> call.timespan]
      BY <2>2 DEF Adopt, Return
    <3>2. PICK epoch_start \in TIMESTAMPS, previous \in TIMESTAMPS :
            LET next == calculate_next_target_required(Value(current_target), epoch_start, previous)
            IN  /\ Value(call.target) = next.target /\ call.nbits = next.nbits
                /\ call.timespan = ClampedTimespan(epoch_start, previous)
      BY <3>1 DEF Inv, CallIsBoundary
    <3>3. Value(quotient) = work_from_target(Value(call.target))
      <4>1. DivProofs!QuotientIsWork
        BY <3>1, Pow2Assumption, DivProofs!QuotientAtEnd DEF Inv
      <4>. QED  BY <3>1, <4>1, SameWord DEF DivProofs!QuotientIsWork, DivProofs!M, work_from_target
    <3>4. /\ boundary'.old = current_target /\ boundary'.timespan = call.timespan
      BY <3>1
    <3>5. Epochs!prepare_new_epoch(epoch_start, previous)
      BY <3>1, <3>2, <3>3, <3>4, SameDifficulty DEF Epochs!prepare_new_epoch
    <3>. QED  BY <3>5 DEF Epochs!Next
  <2>3. CASE UNCHANGED vars
    BY <2>1, <2>3 DEF vars
  <2>4. CASE Next /\ ~Adopt
    <3>1. UNCHANGED state
      BY <2>4, BoundaryStep, RowWorkStep, LoopStep DEF Next, ReturnRowWork
    <3>. QED  BY <2>1, <3>1
  <2>. QED  BY <2>2, <2>3, <2>4
<1>. QED  BY <1>1, <1>2, LimbInvariant, PTL DEF Spec, RefinesRetarget, Epochs!Spec

-----------------------------------------------------------------------------
(* A smaller target, not zero, is at least as much work.                   *)
LEMMA WorkOfSmallerTarget ==
  ASSUME NEW t \in Words, NEW u \in Words, t > 0, t <= u
  PROVE  work_from_target(t) >= work_from_target(u)
<1>1. WordMod \in Nat \ {0} /\ t \in Nat /\ u \in Nat
  BY WordModType
<1>. DEFINE p == WordMod \div (t + 1)
            q == WordMod \div (u + 1)
<1>2. /\ p \in Int /\ (t + 1) * p <= WordMod /\ WordMod < (t + 1) * (p + 1)
      /\ q \in Int /\ (u + 1) * q <= WordMod /\ WordMod < (u + 1) * (q + 1)
  <2>1. ASSUME NEW d \in Nat \ {0}
        PROVE  /\ WordMod \div d \in Int /\ d * (WordMod \div d) <= WordMod
               /\ WordMod < d * ((WordMod \div d) + 1)
    <3>1. /\ WordMod = d * (WordMod \div d) + (WordMod % d) /\ WordMod % d \in 0..d-1
          /\ WordMod \div d \in Int
      BY <1>1, DivMod
    <3>. DEFINE v == WordMod \div d
                r == WordMod % d
    <3>. HIDE DEF v, r
    <3>2. WordMod = d * v + r /\ r \in 0..d-1 /\ v \in Int
      BY <3>1 DEF v, r
    <3>3. d * (v + 1) = d * v + d /\ d * v \in Int
      BY <3>2
    <3>. QED  BY <1>1, <3>2, <3>3 DEF v
  <2>. QED  BY <1>1, <2>1
<1>. HIDE DEF p, q
<1>3. q <= p
  <2>1. ASSUME q >= p + 1 PROVE FALSE
    <3>1. (t + 1) * (p + 1) <= (t + 1) * q
      BY <1>1, <1>2, <2>1
    <3>2. q >= 0
      <4>1. ASSUME q <= -1 PROVE FALSE
        <5>1. (u + 1) * (q + 1) <= 0
          BY <1>1, <1>2, <4>1
        <5>. QED  BY <1>1, <1>2, <5>1
      <4>. QED  BY <1>2, <4>1
    <3>3. (t + 1) * q <= (u + 1) * q
      BY <1>1, <1>2, <3>2
    <3>4. (t + 1) * (p + 1) \in Int /\ (t + 1) * q \in Int /\ (u + 1) * q \in Int
      BY <1>1, <1>2
    <3>. QED  BY <1>1, <1>2, <3>1, <3>3, <3>4
  <2>. QED  BY <1>2, <2>1
<1>4. ASSUME NEW d \in Nat, d >= 2, NEW v \in Int, d * v <= WordMod, WordMod < d * (v + 1)
      PROVE  v \in 0 .. WordMod - 1
  <2>1. v >= 0
    <3>1. ASSUME v <= -1 PROVE FALSE
      <4>1. d * (v + 1) <= 0
        BY <1>4, <3>1
      <4>. QED  BY <1>1, <1>4, <4>1
    <3>. QED  BY <3>1
  <2>2. 2 * v <= d * v
    BY <1>4, <2>1
  <2>3. d * v \in Int
    OBVIOUS
  <2>. QED  BY <1>1, <1>4, <2>1, <2>2, <2>3
<1>5. p \in 0 .. WordMod - 1 /\ q \in 0 .. WordMod - 1
  <2>1. t + 1 \in Nat /\ t + 1 >= 2 /\ u + 1 \in Nat /\ u + 1 >= 2
    BY <1>1
  <2>. QED  BY <1>2, <1>4, <2>1
<1>6. p % WordMod = p /\ q % WordMod = q
  BY <1>1, <1>5
<1>. QED  BY <1>1, <1>3, <1>5, <1>6 DEF work_from_target, p, q

TargetInv ==
  /\ Inv
  /\ Value(current_target) <= POW_LIMIT
  /\ Value(current_work) = work_from_target(Value(current_target))

(* The target never exceeds the limit, over any sequence of boundaries,    *)
(* and the work of a nonzero target never falls below the limit's.         *)
THEOREM LimbsStayBelowLimit == Spec => []WorkNeverBelowMinimum
<1>1. M = WordMod /\ POW_LIMIT \in 0..M-1 /\ POW_LIMIT \in Words
  BY SameWord, ConsensusAssumption, LimbSize DEF WordMod, M, Words
<1>2. Init => TargetInv
  <2>. SUFFICES ASSUME Init PROVE TargetInv
    OBVIOUS
  <2>1. work_from_target(POW_LIMIT) \in 0..M-1
    BY <1>1, WorkType DEF Words
  <2>. QED  BY <1>1, <2>1, InvInit, FromValueIsInverse DEF Init, TargetInv
<1>3. TargetInv /\ [Next]_vars => TargetInv'
  <2>. SUFFICES ASSUME TargetInv, [Next]_vars PROVE TargetInv'
    OBVIOUS
  <2>1. Inv /\ Inv'
    BY StepInv DEF TargetInv
  <2>2. CASE Adopt
    <3>1. /\ running /\ bit = -1 /\ call.at_boundary
          /\ current_target' = call.target /\ current_work' = quotient
      BY <2>2 DEF Adopt, Return
    <3>2. PICK epoch_start \in TIMESTAMPS, previous \in TIMESTAMPS :
            Value(call.target)
              = calculate_next_target_required(Value(current_target), epoch_start, previous).target
      BY <2>1, <3>1 DEF Inv, CallIsBoundary
    <3>3. Value(current_target) \in Words /\ epoch_start \in Int /\ previous \in Int
      BY <1>1, <2>1, ValueType, TimestampAssumption DEF Inv, Words
    <3>4. Value(call.target) <= POW_LIMIT
      BY <3>2, <3>3, NextTargetBelowLimit
    <3>5. Value(quotient) = work_from_target(Value(call.target))
      <4>1. DivProofs!QuotientIsWork
        BY <2>1, <3>1, Pow2Assumption, DivProofs!QuotientAtEnd DEF Inv
      <4>. QED  BY <3>1, <4>1, SameWord DEF DivProofs!QuotientIsWork, DivProofs!M, work_from_target
    <3>. QED  BY <2>1, <3>1, <3>4, <3>5 DEF TargetInv
  <2>3. CASE ~Adopt
    <3>1. UNCHANGED state
      BY <2>1, <2>3, BoundaryStep, RowWorkStep, LoopStep DEF Next, ReturnRowWork, vars
    <3>. QED  BY <2>1, <3>1 DEF TargetInv, state
  <2>. QED  BY <2>2, <2>3
<1>4. TargetInv => WorkNeverBelowMinimum
  <2>. SUFFICES ASSUME TargetInv PROVE WorkNeverBelowMinimum
    OBVIOUS
  <2>1. Value(current_target) \in Words
    BY <1>1, ValueType DEF TargetInv, Inv, Words
  <2>2. Value(current_target) > 0 =>
          work_from_target(Value(current_target)) >= work_from_target(POW_LIMIT)
    BY <1>1, <2>1, WorkOfSmallerTarget DEF TargetInv
  <2>. QED  BY <2>2, SameDifficulty
            DEF TargetInv, WorkNeverBelowMinimum, Epochs!WorkNeverBelowMinimum
<1>. QED  BY <1>2, <1>3, <1>4, PTL DEF Spec

-----------------------------------------------------------------------------
(* What calculate_next_target_required rounds down, without any width.     *)
NewTarget(old, timespan) ==
  LET scaled == (old * timespan) \div EXPECTED_EPOCH_TIMESPAN
  IN  IF scaled < POW_LIMIT THEN scaled ELSE POW_LIMIT

LEMMA NewTargetType ==
  ASSUME NEW old \in Nat, NEW timespan \in Nat
  PROVE  NewTarget(old, timespan) \in Words /\ NewTarget(old, timespan) <= POW_LIMIT
<1>. DEFINE product == old * timespan
            scaled  == product \div EXPECTED_EPOCH_TIMESPAN
<1>1. EXPECTED_EPOCH_TIMESPAN \in Nat \ {0}
  BY ConsensusAssumption DEF EXPECTED_EPOCH_TIMESPAN
<1>2. product \in Nat
  OBVIOUS
<1>3. scaled \in Nat
  <2>. HIDE DEF product
  <2>. QED  BY <1>1, <1>2
<1>4. POW_LIMIT \in Nat /\ POW_LIMIT <= WordMod - 1 /\ WordMod \in Nat
  BY ConsensusAssumption, WordAssumption DEF WordMod
<1>. HIDE DEF scaled
<1>5. NewTarget(old, timespan) = IF scaled < POW_LIMIT THEN scaled ELSE POW_LIMIT
  BY DEF NewTarget, scaled
<1>. QED  BY <1>3, <1>4, <1>5 DEF Words

(* Up to the limit, the product with a timespan does not wrap, so the      *)
(* required target is the exact one, rounded down by its encoding.         *)
LEMMA ProductIsExact ==
  ASSUME NEW old \in Nat, old <= POW_LIMIT, NEW start \in Int, NEW previous \in Int
  PROVE  LET timespan == ClampedTimespan(start, previous)
             next     == calculate_next_target_required(old, start, previous)
         IN  /\ next.nbits = target_to_bits(NewTarget(old, timespan))
             /\ next.target = target_from_bits(next.nbits)
<1>. DEFINE timespan == ClampedTimespan(start, previous)
            product  == old * timespan
<1>1. EXPECTED_EPOCH_TIMESPAN \in Nat \ {0}
  BY ConsensusAssumption DEF EXPECTED_EPOCH_TIMESPAN
<1>2. timespan \in Nat /\ timespan <= MAX_EPOCH_TIMESPAN /\ MAX_EPOCH_TIMESPAN \in Nat
  <2>1. timespan \in MIN_EPOCH_TIMESPAN .. MAX_EPOCH_TIMESPAN
    BY ClampedTimespanType
  <2>2. MIN_EPOCH_TIMESPAN \in Nat /\ MAX_EPOCH_TIMESPAN \in Nat
    BY <1>1 DEF MIN_EPOCH_TIMESPAN, MAX_EPOCH_TIMESPAN
  <2>. HIDE DEF timespan
  <2>. QED  BY <2>1, <2>2
<1>. HIDE DEF timespan
<1>3. product \in Nat /\ product < WordMod
  <2>1. POW_LIMIT \in Nat /\ WordMod \in Nat
    BY ConsensusAssumption, WordAssumption DEF WordMod
  <2>2. old * timespan <= POW_LIMIT * timespan /\ POW_LIMIT * timespan <= POW_LIMIT * MAX_EPOCH_TIMESPAN
    BY <1>2, <2>1
  <2>3. old * timespan \in Nat /\ POW_LIMIT * timespan \in Nat /\ POW_LIMIT * MAX_EPOCH_TIMESPAN \in Nat
    BY <1>2, <2>1
  <2>. QED  BY <2>1, <2>2, <2>3, ProductFits
<1>4. product % WordMod = product
  <2>. HIDE DEF product
  <2>. QED  BY <1>3, WordModType
<1>5. ScaledTarget(old, timespan) = product \div EXPECTED_EPOCH_TIMESPAN
  BY <1>4 DEF ScaledTarget
<1>. QED  BY <1>5 DEF calculate_next_target_required, NewTarget, timespan

(* Targets up to the limit leave the top bit of a word clear.              *)
LEMMA LimitLeavesTopBit ==
  ASSUME NEW t \in Nat, t <= POW_LIMIT
  PROVE  2 * t < WordMod
<1>1. EXPECTED_EPOCH_TIMESPAN \in Nat \ {0}
  BY ConsensusAssumption DEF EXPECTED_EPOCH_TIMESPAN
<1>2. MAX_EPOCH_TIMESPAN \in Nat /\ MAX_EPOCH_TIMESPAN >= 2
  BY <1>1 DEF MAX_EPOCH_TIMESPAN
<1>3. POW_LIMIT \in Nat /\ WordMod \in Nat
  BY ConsensusAssumption, WordAssumption DEF WordMod
<1>4. POW_LIMIT * 2 <= POW_LIMIT * MAX_EPOCH_TIMESPAN /\ POW_LIMIT * MAX_EPOCH_TIMESPAN \in Nat
  BY <1>2, <1>3
<1>. QED  BY <1>3, <1>4, ProductFits

(* What an encoding expands to is the greatest expressible target not      *)
(* above the one encoded, for every target up to the limit.                *)
LEMMA EncodingRoundsToExpressible ==
  ASSUME NEW t \in Words, t <= POW_LIMIT
  PROVE  target_from_bits(target_to_bits(t)) = Epochs!RoundedDown(t)
<1>. DEFINE b == target_to_bits(t)
            v == target_from_bits(b)
            n == SignificantBytes(t)
            R == {r \in Epochs!Expressible : r <= t}
<1>0. /\ NBYTES \in Nat /\ NBYTES >= 3 /\ SignBit \in Nat \ {0} /\ t \in Nat /\ BytePow[0] = 1
      /\ \A k \in 0 .. NBYTES : BytePow[k] \in Nat \ {0}
  BY WordAssumption, SignBitType, WordModType, BytePowAssumption
<1>1. Epochs!SignBit = SignBit
  BY DEF Epochs!SignBit, SignBit
<1>2. b \in CompactTarget /\ v \in Words /\ v <= t
  BY ToBitsType, FromBitsType, RoundTripRoundsDown
<1>3. b.size \in 0 .. NBYTES /\ b.mantissa \in 0 .. SignBit - 1
  <2>1. CASE t = 0
    <3>1. b = [size |-> 0, mantissa |-> 0]
      BY <2>1 DEF target_to_bits
    <3>. HIDE DEF b
    <3>. QED  BY <1>0, <3>1
  <2>2. CASE t > 0
    <3>. DEFINE c == LeadingDigits(t, n)
    <3>1. /\ n \in 1 .. NBYTES /\ c \in Nat
          /\ c < SignBit => b.size = n
          /\ c >= SignBit => b.size = n + 1
      BY <2>2, EncodedFields
    <3>2. n = NBYTES => c < SignBit
      <4>. SUFFICES ASSUME n = NBYTES PROVE c < SignBit
        OBVIOUS
      <4>. DEFINE d == BytePow[NBYTES - 3]
      <4>1. c = t \div d /\ d \in Nat \ {0} /\ NBYTES - 3 \in 0 .. NBYTES
        <5>1. NBYTES - 3 \in 0 .. NBYTES /\ d \in Nat \ {0}
          BY <1>0
        <5>2. CASE NBYTES > 3
          <6>1. ~(NBYTES <= 3)
            BY <5>2, <1>0
          <6>. QED  BY <5>1, <6>1 DEF LeadingDigits
        <5>3. CASE NBYTES = 3
          <6>1. c = t * 1 /\ d = 1
            <7>1. 3 - n = 0 /\ NBYTES - 3 = 0 /\ n <= 3
              <8>. HIDE DEF n
              <8>. QED  BY <5>3
            <7>. QED  BY <7>1, <1>0 DEF LeadingDigits
          <6>. HIDE DEF c, d
          <6>. QED  BY <1>0, <5>1, <6>1
        <5>. QED  BY <1>0, <5>2, <5>3
      <4>2. 2 * t < WordMod
        BY <1>0, LimitLeavesTopBit
      <4>3. WordMod = 2 * (SignBit * d)
        <5>1. NBYTES - 3 \in Nat /\ (NBYTES - 3) + 3 = NBYTES
          BY <1>0
        <5>. QED  BY <5>1, ThreeDigitsAbove DEF WordMod
      <4>. HIDE DEF d, c
      <4>6. c * d <= t /\ c * d \in Int
        <5>1. (t \div d) * d <= t /\ t \div d \in Nat
          BY <1>0, <4>1, DivisionRoundsDown
        <5>. QED  BY <4>1, <5>1
      <4>7. ASSUME c >= SignBit PROVE FALSE
        <5>1. SignBit * d <= c * d /\ SignBit * d \in Int
          BY <1>0, <3>1, <4>1, <4>7
        <5>. DEFINE x == SignBit * d
                    y == c * d
        <5>3. x \in Int /\ y \in Int /\ x <= y /\ y <= t /\ WordMod = 2 * x
          BY <4>3, <4>6, <5>1
        <5>. HIDE DEF x, y
        <5>. QED  BY <1>0, <4>2, <5>3
      <4>. QED  BY <1>0, <3>1, <4>7
    <3>3. b.mantissa \in 0 .. SignBit - 1
      <4>. HIDE DEF b
      <4>. QED  BY <1>2 DEF CompactTarget
    <3>4. b.size \in 0 .. NBYTES
      <4>. HIDE DEF b, c, n
      <4>. QED  BY <1>0, <3>1, <3>2
    <3>. QED  BY <3>3, <3>4
  <2>. QED  BY <1>0, <2>1, <2>2
<1>4. v \in R
  <2>. HIDE DEF b
  <2>1. CASE b.size <= 3
    <3>1. v = b.mantissa \div BytePow[3 - b.size]
      BY <1>0, <1>3, <2>1, FromBitsValue
    <3>2. b.size \in 0 .. 3
      BY <1>3, <2>1
    <3>. QED  BY <1>1, <1>2, <1>3, <3>1, <3>2 DEF Epochs!Expressible
  <2>2. CASE b.size > 3
    <3>1. v = b.mantissa * BytePow[b.size - 3]
      <4>. DEFINE d == BytePow[b.size - 3]
                  p == BytePow[b.size]
                  m == b.mantissa
      <4>1. b.size - 3 \in Nat /\ (b.size - 3) + 3 = b.size /\ b.size - 3 \in 0..NBYTES
        BY <1>0, <1>3, <2>2
      <4>2. p = 2 * (SignBit * d)
        BY <1>3, <4>1, ThreeDigitsAbove
      <4>3. p <= WordMod /\ p \in Nat /\ d \in Nat \ {0} /\ WordMod \in Nat
        BY <1>0, <1>3, <4>1, BytePowGrows DEF WordMod
      <4>4. m \in Nat /\ m < SignBit
        BY <1>0, <1>3
      <4>. HIDE DEF d, p, m
      <4>5. m * d < WordMod
        <5>1. m * d <= SignBit * d /\ SignBit * d \in Nat \ {0} /\ m * d \in Nat
          BY <1>0, <4>3, <4>4
        <5>. DEFINE x == m * d
                    y == SignBit * d
        <5>2. x \in Nat /\ y \in Nat \ {0} /\ x <= y /\ p = 2 * y
          BY <4>2, <5>1
        <5>. HIDE DEF x, y
        <5>3. x < WordMod
          BY <4>3, <5>2
        <5>. QED  BY <5>3 DEF x
      <4>. QED  BY <1>0, <1>3, <2>2, <4>5, FromBitsValue DEF m, d
    <3>2. b.size \in 4 .. NBYTES
      BY <1>0, <1>3, <2>2
    <3>. QED  BY <1>1, <1>2, <1>3, <3>1, <3>2 DEF Epochs!Expressible
  <2>. QED  BY <1>0, <1>3, <2>1, <2>2
<1>5. \A r \in R : v >= r
  <2>. SUFFICES ASSUME NEW r \in Epochs!Expressible, r <= t
                PROVE  r <= v /\ r \in Int /\ v \in Int
    OBVIOUS
  <2>0. v \in Int
    <3>. HIDE DEF v
    <3>. QED  BY <1>2, WordModType
  <2>1. ASSUME NEW m \in 0 .. SignBit - 1, NEW s \in 0 .. 3, r = m \div BytePow[3 - s]
        PROVE  r <= v /\ r \in Int
    <3>. DEFINE d == BytePow[3 - s]
    <3>1. d \in Nat \ {0} /\ m \in Nat
      <4>1. 3 - s \in 0..NBYTES
        BY <1>0
      <4>. QED  BY <1>0, <4>1
    <3>. HIDE DEF d
    <3>2. m \div d \in Nat /\ m \div d <= m
      BY <3>1, DivisionRoundsDown
    <3>3. r \in 0 .. SignBit - 1 /\ r * BytePow[0] = r
      BY <1>0, <2>1, <3>1, <3>2 DEF d
    <3>4. 0 \in 0 .. NBYTES
      BY <1>0
    <3>5. r * BytePow[0] <= t
      BY <3>3
    <3>6. r * BytePow[0] <= v
      BY <3>3, <3>4, <3>5, RoundTripIsGreatest
    <3>. QED  BY <3>3, <3>6
  <2>2. ASSUME NEW m \in 0 .. SignBit - 1, NEW s \in 4 .. NBYTES, r = m * BytePow[s - 3]
        PROVE  r <= v /\ r \in Int
    <3>1. s - 3 \in 0 .. NBYTES
      BY <1>0
    <3>2. m * BytePow[s - 3] <= t
      BY <2>2
    <3>3. m * BytePow[s - 3] <= v
      BY <3>1, <3>2, RoundTripIsGreatest
    <3>4. BytePow[s - 3] \in Int /\ m \in Int
      BY <1>0, <3>1
    <3>. QED  BY <2>2, <3>3, <3>4
  <2>. QED  BY <1>1, <2>0, <2>1, <2>2 DEF Epochs!Expressible
<1>6. Epochs!RoundedDown(t) = CHOOSE x \in R : \A y \in R : x >= y
  BY DEF Epochs!RoundedDown, Epochs!Max
<1>. DEFINE g == CHOOSE x \in R : \A y \in R : x >= y
<1>7. g \in R /\ \A y \in R : g >= y
  BY <1>4, <1>5
<1>8. g >= v /\ v >= g
  <2>. HIDE DEF g, v, R
  <2>. QED  BY <1>4, <1>5, <1>7
<1>9. g \in Int /\ v \in Int
  <2>1. v \in Int
    <3>. HIDE DEF v
    <3>. QED  BY <1>2, WordModType
  <2>2. Epochs!Expressible \subseteq Int
    <3>1. ASSUME NEW m \in 0 .. SignBit - 1, NEW s \in 0 .. 3 PROVE m \div BytePow[3 - s] \in Int
      <4>. DEFINE d == BytePow[3 - s]
      <4>1. 3 - s \in 0 .. NBYTES
        BY <1>0
      <4>2. d \in Nat \ {0} /\ m \in Int
        BY <1>0, <4>1
      <4>. HIDE DEF d
      <4>3. m \div d \in Int
        BY <4>2
      <4>. QED  BY <4>3 DEF d
    <3>2. ASSUME NEW m \in 0 .. SignBit - 1, NEW s \in 4 .. NBYTES PROVE m * BytePow[s - 3] \in Int
      <4>1. s - 3 \in 0 .. NBYTES
        BY <1>0
      <4>2. BytePow[s - 3] \in Int /\ m \in Int
        BY <1>0, <4>1
      <4>. QED  BY <4>2
    <3>. QED  BY <1>1, <3>1, <3>2 DEF Epochs!Expressible
  <2>3. g \in Epochs!Expressible
    <3>. HIDE DEF g
    <3>. QED  BY <1>7
  <2>. HIDE DEF g, v
  <2>. QED  BY <2>1, <2>2, <2>3
<1>10. g = v
  <2>. HIDE DEF g, v
  <2>. QED  BY <1>8, <1>9
<1>. QED  BY <1>6, <1>10

(* Where the state is, between two boundaries.                             *)
ExactInv ==
  /\ Inv
  /\ boundary.old \in u256 /\ Value(boundary.old) <= POW_LIMIT
  /\ boundary.timespan \in Nat
  /\ current_nbits = target_to_bits(NewTarget(Value(boundary.old), boundary.timespan))
  /\ Value(current_target) = target_from_bits(current_nbits)

LEMMA ExactInvBelowLimit ==
  ASSUME ExactInv
  PROVE  Value(current_target) \in Nat /\ Value(current_target) <= POW_LIMIT
<1>. DEFINE t == NewTarget(Value(boundary.old), boundary.timespan)
            v == target_from_bits(target_to_bits(t))
<1>1. t \in Words /\ t <= POW_LIMIT
  BY ValueType, NewTargetType DEF ExactInv
<1>2. v \in Words /\ v <= t
  BY <1>1, ToBitsType, FromBitsType, RoundTripRoundsDown
<1>3. Value(current_target) = v
  BY DEF ExactInv
<1>4. POW_LIMIT \in Nat
  BY ConsensusAssumption, WordAssumption
<1>. HIDE DEF t, v
<1>. QED  BY <1>1, <1>2, <1>3, <1>4, WordModType

LEMMA ExactInvariant == Spec => []ExactInv
<1>1. Init => ExactInv
  <2>. SUFFICES ASSUME Init PROVE ExactInv
    OBVIOUS
  <2>1. M = WordMod /\ POW_LIMIT \in 0..M-1 /\ POW_LIMIT \in Nat
    BY SameWord, ConsensusAssumption, LimbSize DEF WordMod, M
  <2>2. FromValue(POW_LIMIT) \in u256 /\ Value(FromValue(POW_LIMIT)) = POW_LIMIT
    BY <2>1, FromValueIsInverse
  <2>3. EXPECTED_EPOCH_TIMESPAN \in Nat \ {0}
    BY ConsensusAssumption DEF EXPECTED_EPOCH_TIMESPAN
  <2>4. NewTarget(POW_LIMIT, EXPECTED_EPOCH_TIMESPAN) = POW_LIMIT
    <3>1. (POW_LIMIT * EXPECTED_EPOCH_TIMESPAN) \div EXPECTED_EPOCH_TIMESPAN = POW_LIMIT
      BY <2>1, <2>3, ExactDivision
    <3>. QED  BY <3>1 DEF NewTarget
  <2>. QED  BY <2>1, <2>2, <2>3, <2>4, InvInit, LimitExpressible DEF Init, GenesisBoundary, ExactInv
<1>2. ExactInv /\ [Next]_vars => ExactInv'
  <2>. SUFFICES ASSUME ExactInv, [Next]_vars PROVE ExactInv'
    OBVIOUS
  <2>1. Inv /\ Inv'
    BY StepInv DEF ExactInv
  <2>2. CASE Adopt
    <3>1. /\ running /\ call.at_boundary
          /\ current_target' = call.target /\ current_nbits' = call.nbits
          /\ boundary' = [old |-> current_target, timespan |-> call.timespan]
      BY <2>2 DEF Adopt, Return
    <3>2. PICK epoch_start \in TIMESTAMPS, previous \in TIMESTAMPS :
            LET next == calculate_next_target_required(Value(current_target), epoch_start, previous)
            IN  /\ Value(call.target) = next.target /\ call.nbits = next.nbits
                /\ call.timespan = ClampedTimespan(epoch_start, previous)
      BY <2>1, <3>1 DEF Inv, CallIsBoundary
    <3>3. Value(current_target) \in Nat /\ Value(current_target) <= POW_LIMIT
      BY ExactInvBelowLimit
    <3>4. epoch_start \in Int /\ previous \in Int
      BY TimestampAssumption
    <3>5. call.timespan \in Nat
      <4>1. call.timespan \in MIN_EPOCH_TIMESPAN .. MAX_EPOCH_TIMESPAN
        BY <3>2, <3>4, ClampedTimespanType
      <4>2. MIN_EPOCH_TIMESPAN \in Nat /\ MAX_EPOCH_TIMESPAN \in Nat
        <5>1. EXPECTED_EPOCH_TIMESPAN \in Nat \ {0}
          BY ConsensusAssumption DEF EXPECTED_EPOCH_TIMESPAN
        <5>. QED  BY <5>1 DEF MIN_EPOCH_TIMESPAN, MAX_EPOCH_TIMESPAN
      <4>. QED  BY <4>1, <4>2
    <3>6. /\ call.nbits = target_to_bits(NewTarget(Value(current_target), call.timespan))
          /\ Value(call.target) = target_from_bits(call.nbits)
      BY <3>2, <3>3, <3>4, ProductIsExact
    <3>7. boundary'.old = current_target /\ boundary'.timespan = call.timespan
      BY <3>1
    <3>8. current_target \in u256
      BY <2>1 DEF Inv
    <3>. QED  BY <2>1, <3>1, <3>3, <3>5, <3>6, <3>7, <3>8 DEF ExactInv
  <2>3. CASE ~Adopt
    <3>1. UNCHANGED state
      BY <2>1, <2>3, BoundaryStep, RowWorkStep, LoopStep DEF Next, ReturnRowWork, vars
    <3>. QED  BY <2>1, <3>1 DEF ExactInv, state
  <2>. QED  BY <2>2, <2>3
<1>. QED  BY <1>1, <1>2, PTL DEF Spec

(* The target of an epoch is the greatest expressible target not above     *)
(* old * timespan / expected and the limit, for every word and limb size:  *)
(* no carry is lost, no product wraps, and the encoding only truncates.    *)
THEOREM TargetIsExact == Spec => []RetargetIsExact
<1>1. ExactInv => RetargetIsExact
  <2>. SUFFICES ASSUME ExactInv PROVE Epochs!RetargetIsExact
    BY DEF RetargetIsExact
  <2>. DEFINE scaled == (Value(boundary.old) * boundary.timespan) \div EXPECTED_EPOCH_TIMESPAN
              t == NewTarget(Value(boundary.old), boundary.timespan)
              S == {scaled, POW_LIMIT}
  <2>1. t \in Words /\ t <= POW_LIMIT
    BY ValueType, NewTargetType DEF ExactInv
  <2>2. Value(current_target) = Epochs!RoundedDown(t)
    <3>1. Value(current_target) = target_from_bits(target_to_bits(t))
      BY DEF ExactInv
    <3>. HIDE DEF t
    <3>. QED  BY <2>1, <3>1, EncodingRoundsToExpressible
  <2>3. scaled \in Int /\ POW_LIMIT \in Int
    <3>. DEFINE product == Value(boundary.old) * boundary.timespan
    <3>1. product \in Nat
      <4>1. Value(boundary.old) \in Nat /\ boundary.timespan \in Nat
        BY ValueType, LimbSize DEF ExactInv
      <4>. QED  BY <4>1
    <3>2. EXPECTED_EPOCH_TIMESPAN \in Nat \ {0}
      BY ConsensusAssumption DEF EXPECTED_EPOCH_TIMESPAN
    <3>. HIDE DEF product
    <3>3. product \div EXPECTED_EPOCH_TIMESPAN \in Int
      BY <3>1, <3>2
    <3>. QED  BY <3>3, ConsensusAssumption, WordAssumption DEF product
  <2>4. t = IF scaled < POW_LIMIT THEN scaled ELSE POW_LIMIT
    BY DEF NewTarget
  <2>5. Epochs!Min(S) = CHOOSE x \in S : \A y \in S : x <= y
    BY DEF Epochs!Min
  <2>6. Epochs!Min(S) = t
    <3>. DEFINE g == CHOOSE x \in S : \A y \in S : x <= y
    <3>. HIDE DEF scaled, t
    <3>1. t \in S /\ \A y \in S : t <= y
      BY <2>3, <2>4
    <3>2. g \in S /\ \A y \in S : g <= y
      BY <3>1
    <3>3. g <= t /\ t <= g /\ g \in Int /\ t \in Int
      <4>. HIDE DEF g
      <4>. QED  BY <2>3, <3>1, <3>2
    <3>4. g = t
      <4>. HIDE DEF g
      <4>. QED  BY <3>3
    <3>. QED  BY <2>5, <3>4
  <2>. QED  BY <2>2, <2>6, SameDifficulty DEF Epochs!RetargetIsExact
<1>. QED  BY <1>1, ExactInvariant, PTL

(* The nbits of the state and its target determine each other, so whoever  *)
(* rebuilds one from the other validates with the same difficulty.         *)
THEOREM NbitsDetermineTarget == Spec => []NbitsAndTargetAgree
<1>1. ExactInv => NbitsAndTargetAgree
  <2>. SUFFICES ASSUME ExactInv PROVE NbitsAndTargetAgree
    OBVIOUS
  <2>. DEFINE t == NewTarget(Value(boundary.old), boundary.timespan)
  <2>1. t \in Words
    BY ValueType, NewTargetType DEF ExactInv
  <2>2. /\ current_nbits = target_to_bits(t)
        /\ Value(current_target) = target_from_bits(current_nbits)
    BY DEF ExactInv
  <2>. HIDE DEF t
  <2>3. target_to_bits(Value(current_target)) = current_nbits
    BY <2>1, <2>2, EncodingIsCanonical
  <2>4. \A b : Epochs!target_from_bits(b) = target_from_bits(b)
    BY DEF Epochs!target_from_bits, target_from_bits, Epochs!SignBit, SignBit, Epochs!WordMod, WordMod
  <2>. QED  BY <2>2, <2>3, <2>4, SameDifficulty DEF NbitsAndTargetAgree, Epochs!NbitsAndTargetAgree
<1>. QED  BY <1>1, ExactInvariant, PTL
====
