-------------------------- MODULE WorkDivisionProofs --------------------------
(***************************************************************************)
(* The bit loop computes the work for every word width and every target.   *)
(*                                                                         *)
(* The inductive invariant is the one of long division: the dividend is    *)
(* the quotient found so far times the divisor, plus the remainder scaled  *)
(* by the weight of the last bit.  Only for target 0 does the quotient     *)
(* have a bit the register cannot hold; Dropped stands for it.             *)
(***************************************************************************)
EXTENDS WorkDivision, TLAPS

Dropped == IF target = 0 THEN M ELSE 0

Division ==
  /\ target \in 0 .. M - 2
  /\ divisor = target + 1
  /\ bit \in -1 .. BITS
  /\ remainder \in Nat
  /\ quotient \in Nat
  /\ bit = BITS => remainder = 0 /\ quotient = 0
  /\ bit < BITS => /\ remainder < divisor
                   /\ (Dropped + quotient) * divisor + remainder * Pow2[bit + 1] = M

-----------------------------------------------------------------------------
(* The word has at least two values.                                       *)
LEMMA WordSize == M \in Nat /\ M >= 2
<1>1. BITS \in Nat \ {0} /\ BITS - 1 \in 0 .. BITS - 1 /\ BITS \in 0 .. BITS
  BY Pow2Assumption
<1>2. Pow2[BITS - 1] \in Nat \ {0} /\ Pow2[BITS] \in Nat \ {0}
  BY <1>1, Pow2Assumption
<1>3. Pow2[(BITS - 1) + 1] = 2 * Pow2[BITS - 1]
  BY <1>1, Pow2Assumption
<1>4. (BITS - 1) + 1 = BITS
  BY <1>1
<1>. QED  BY <1>2, <1>3, <1>4 DEF M

LEMMA Weights ==
  ASSUME NEW b \in 0 .. BITS - 1
  PROVE  Pow2[b] \in Nat \ {0} /\ Pow2[b + 1] \in Nat \ {0} /\ Pow2[b + 1] = 2 * Pow2[b]
  BY Pow2Assumption

(* Multiplication facts the provers need one by one.                       *)
LEMMA SubtractedBit ==
  ASSUME NEW q \in Nat, NEW d \in Nat, NEW r \in Nat, NEW p \in Nat
  PROVE  (q + p) * d + (2 * r - d) * p = q * d + r * (2 * p)
  OBVIOUS

LEMMA SkippedBit ==
  ASSUME NEW r \in Nat, NEW p \in Nat
  PROVE  (2 * r) * p = r * (2 * p)
  OBVIOUS

LEMMA QuotientBounds ==
  ASSUME NEW m \in Nat, NEW q \in Nat, NEW d \in Nat \ {0}, NEW r \in Nat, NEW p \in Nat \ {0},
         r < d, q * d + r * p = m
  PROVE  q <= m \div d /\ m \div d < q + p
<1>. DEFINE v == m \div d
<1>1. v \in Nat /\ v * d <= m /\ m < (v + 1) * d
  OBVIOUS
<1>. HIDE DEF v
<1>2. r * p \in Nat /\ q * d \in Nat
  OBVIOUS
<1>3. q * d < (v + 1) * d
  BY <1>1, <1>2
<1>4. q < v + 1
  BY <1>3, <1>1
<1>5. r * p < d * p
  OBVIOUS
<1>6. (q + p) * d = q * d + d * p
  OBVIOUS
<1>7. v * d < (q + p) * d
  BY <1>1, <1>2, <1>5, <1>6
<1>8. v < q + p
  BY <1>7, <1>1
<1>. QED  BY <1>4, <1>8, <1>1 DEF v

-----------------------------------------------------------------------------
(* The registers of one iteration: the shift and the carry it evicts stand *)
(* for twice the remainder, so a fit subtracts the divisor exactly.        *)
LEMMA ShiftIsExact ==
  ASSUME Division, bit \in 0 .. BITS - 1
  PROVE  /\ fits <=> 2 * remainder >= divisor
         /\ fits => (shifted - divisor) % M = 2 * remainder - divisor
         /\ ~fits => shifted = 2 * remainder
<1>1. /\ remainder \in Nat /\ divisor \in Nat /\ remainder < divisor
      /\ divisor <= M - 1 /\ M \in Nat /\ M >= 2 /\ bit # BITS
  BY WordSize, Pow2Assumption DEF Division
<1>2. shifted = (2 * remainder) % M
  <2>1. (2 * remainder) % M \in Nat
    BY <1>1
  <2>. QED  BY <1>1, <2>1 DEF shifted
<1>3. CASE 2 * remainder >= M
  <2>1. 2 * remainder = M * 1 + (2 * remainder - M) /\ 2 * remainder - M \in 0 .. M - 1
    BY <1>1, <1>3
  <2>2. (2 * remainder) % M = 2 * remainder - M
    BY <2>1, <1>1
  <2>3. (shifted - divisor) % M = 2 * remainder - divisor
    <3>1. shifted - divisor = (2 * remainder - divisor) - M
          /\ 2 * remainder - divisor \in 0 .. M - 1
      BY <1>1, <1>2, <1>3, <2>2
    <3>. QED  BY <3>1, <1>1
  <2>4. carry
    BY <1>3 DEF carry
  <2>. QED  BY <2>3, <2>4, <1>1, <1>3 DEF fits
<1>4. CASE 2 * remainder < M
  <2>1. (2 * remainder) % M = 2 * remainder
    BY <1>1, <1>4
  <2>2. ~carry
    BY <1>1, <1>4 DEF carry
  <2>3. fits <=> 2 * remainder >= divisor
    BY <2>1, <2>2, <1>2 DEF fits
  <2>4. ASSUME 2 * remainder >= divisor
        PROVE  (shifted - divisor) % M = 2 * remainder - divisor
    <3>1. shifted - divisor \in 0 .. M - 1
      BY <2>4, <2>1, <1>2, <1>1, <1>4
    <3>. QED  BY <3>1, <2>1, <1>2, <1>1
  <2>. QED  BY <2>3, <2>4, <2>1, <1>2
<1>. QED  BY <1>1, <1>3, <1>4

(* The first iteration brings down the leading one of the dividend.        *)
LEMMA FirstBit ==
  ASSUME Division, bit = BITS
  PROVE  /\ fits <=> target = 0
         /\ shifted = 1
         /\ fits => (shifted - divisor) % M = 0
<1>1. /\ remainder = 0 /\ target \in Nat /\ divisor = target + 1 /\ M \in Nat /\ M >= 2
  BY WordSize DEF Division
<1>2. ~carry /\ shifted = 1
  <2>1. 2 * remainder = 0 /\ 0 % M = 0
    BY <1>1
  <2>. QED  BY <2>1, <1>1 DEF carry, shifted
<1>. QED  BY <1>1, <1>2 DEF fits

LEMMA DivisionStep == Division /\ [Next]_vars => Division'
<1>. SUFFICES ASSUME Division, [Next]_vars PROVE Division'
  OBVIOUS
<1>0. /\ target \in 0 .. M - 2 /\ divisor = target + 1 /\ bit \in -1 .. BITS
      /\ remainder \in Nat /\ quotient \in Nat /\ M \in Nat /\ M >= 2
      /\ BITS \in Nat \ {0} /\ Dropped \in Nat
  BY WordSize, Pow2Assumption DEF Division, Dropped
<1>1. CASE Subtract \/ Skip
  <2>1. CASE bit = BITS
    <3>1. /\ target' = target /\ divisor' = divisor /\ bit' = BITS - 1
          /\ quotient' = 0 /\ quotient = 0
      BY <1>0, <1>1, <2>1 DEF Subtract, Skip, Division
    <3>2. remainder' = IF target = 0 THEN 0 ELSE 1
      BY <1>1, <2>1, FirstBit DEF Subtract, Skip
    <3>3. Pow2[bit' + 1] = M
      <4>1. BITS - 1 + 1 = BITS
        BY <1>0
      <4>. QED  BY <3>1, <4>1 DEF M
    <3>4. (Dropped + 0) * divisor + remainder' * M = M
      BY <1>0, <3>2 DEF Dropped
    <3>5. Dropped' = Dropped
      BY <3>1 DEF Dropped
    <3>6. remainder' < divisor' /\ remainder' \in Nat /\ quotient' \in Nat
          /\ bit' \in -1 .. BITS /\ bit' < BITS
      BY <1>0, <3>1, <3>2
    <3>7. (Dropped' + quotient') * divisor' + remainder' * Pow2[bit' + 1] = M
      BY <3>1, <3>3, <3>4, <3>5
    <3>8. bit' = BITS => remainder' = 0 /\ quotient' = 0
      BY <1>0, <3>1
    <3>. QED  BY <1>0, <3>1, <3>6, <3>7, <3>8 DEF Division
  <2>2. CASE bit # BITS
    <3>0. bit \in 0 .. BITS - 1
      BY <1>0, <1>1, <2>2 DEF Subtract, Skip
    <3>. DEFINE p == Pow2[bit]
                q == Dropped + quotient
    <3>1. p \in Nat /\ Pow2[bit + 1] = 2 * p
      BY <3>0, Weights
    <3>2. remainder < divisor /\ q * divisor + remainder * (2 * p) = M /\ q \in Nat
      BY <1>0, <3>0, <3>1 DEF Division
    <3>3. CASE Subtract
      <4>1. 2 * remainder >= divisor /\ remainder' = 2 * remainder - divisor
        BY <3>0, <3>3, ShiftIsExact DEF Subtract
      <4>2. /\ target' = target /\ divisor' = divisor /\ bit' = bit - 1
            /\ quotient' = quotient + p
        BY <1>0, <3>0, <3>3 DEF Subtract
      <4>3. Dropped' = Dropped
        BY <4>2 DEF Dropped
      <4>. HIDE DEF p
      <4>4. (Dropped' + quotient') = q + p
        BY <4>2, <4>3, <3>1, <1>0
      <4>. HIDE DEF q
      <4>5. (q + p) * divisor + remainder' * p = M
        BY <4>1, <3>2, <3>1, <1>0, SubtractedBit
      <4>6. bit' + 1 = bit /\ bit' \in -1 .. BITS /\ bit' < BITS
        BY <1>0, <3>0, <4>2
      <4>7. (Dropped' + quotient') * divisor' + remainder' * Pow2[bit' + 1] = M
        BY <4>2, <4>4, <4>5, <4>6 DEF p
      <4>8. remainder' \in Nat /\ remainder' < divisor' /\ quotient' \in Nat
        BY <4>1, <4>2, <3>1, <3>2, <1>0
      <4>. QED  BY <1>0, <4>2, <4>6, <4>7, <4>8 DEF Division
    <3>4. CASE Skip
      <4>1. 2 * remainder < divisor /\ remainder' = 2 * remainder
        BY <1>0, <3>0, <3>4, ShiftIsExact DEF Skip
      <4>2. /\ target' = target /\ divisor' = divisor /\ bit' = bit - 1
            /\ quotient' = quotient
        BY <3>0, <3>4 DEF Skip
      <4>3. Dropped' = Dropped
        BY <4>2 DEF Dropped
      <4>. HIDE DEF p, q
      <4>5. q * divisor + remainder' * p = M
        BY <4>1, <3>2, <3>1, <1>0, SkippedBit
      <4>6. bit' + 1 = bit /\ bit' \in -1 .. BITS /\ bit' < BITS
        BY <1>0, <3>0, <4>2
      <4>7. (Dropped' + quotient') * divisor' + remainder' * Pow2[bit' + 1] = M
        BY <4>2, <4>3, <4>5, <4>6 DEF p, q
      <4>8. remainder' \in Nat /\ remainder' < divisor' /\ quotient' \in Nat
        BY <4>1, <4>2, <1>0
      <4>. QED  BY <1>0, <4>2, <4>6, <4>7, <4>8 DEF Division
    <3>. QED  BY <1>1, <3>3, <3>4
  <2>. QED  BY <2>1, <2>2
<1>2. CASE UNCHANGED vars
  BY <1>2 DEF Division, Dropped, vars
<1>. QED  BY <1>1, <1>2 DEF Next

(* A quotient that divides the dividend fits the register.                 *)
LEMMA QuotientFits ==
  ASSUME Division
  PROVE  quotient < M /\ (target = 0 => quotient = 0)
<1>0. /\ target \in 0 .. M - 2 /\ divisor = target + 1 /\ bit \in -1 .. BITS
      /\ remainder \in Nat /\ quotient \in Nat /\ M \in Nat /\ M >= 2 /\ BITS \in Nat
  BY WordSize, Pow2Assumption DEF Division
<1>1. CASE bit = BITS
  BY <1>0, <1>1 DEF Division
<1>2. CASE bit # BITS
  <2>1. bit < BITS /\ bit + 1 \in 0 .. BITS
    BY <1>0, <1>2
  <2>. DEFINE p == Pow2[bit + 1]
  <2>2. p \in Nat /\ remainder * p \in Nat
    BY <1>0, <2>1, Pow2Assumption
  <2>. HIDE DEF p
  <2>3. (Dropped + quotient) * divisor + remainder * p = M
    BY <2>1 DEF Division, p
  <2>4. CASE target = 0
    <3>1. Dropped = M /\ divisor = 1
      BY <2>4, <1>0 DEF Dropped
    <3>. QED  BY <3>1, <2>2, <2>3, <1>0
  <2>5. CASE target # 0
    <3>1. Dropped = 0 /\ divisor >= 2 /\ divisor \in Nat
      BY <2>5, <1>0 DEF Dropped
    <3>2. quotient * divisor <= M
      BY <3>1, <2>2, <2>3, <1>0
    <3>3. quotient * 2 <= quotient * divisor
      BY <3>1, <1>0
    <3>. QED  BY <3>1, <3>2, <3>3, <1>0, <2>5
  <2>. QED  BY <2>4, <2>5
<1>. QED  BY <1>1, <1>2

LEMMA DivisionInit == Init => Division
  BY WordSize, Pow2Assumption DEF Init, Division

LEMMA DivisionInvariant == Spec => []Division
  BY DivisionInit, DivisionStep, PTL DEF Spec

-----------------------------------------------------------------------------
(* No register of the loop ever needs more than the width of the word.     *)
THEOREM RegistersFit == Spec => [](TypeOK /\ RemainderSmall)
<1>1. Division => TypeOK /\ RemainderSmall
  <2>. SUFFICES ASSUME Division PROVE TypeOK /\ RemainderSmall
    OBVIOUS
  <2>0. /\ target \in 0 .. M - 2 /\ divisor = target + 1 /\ bit \in -1 .. BITS
        /\ remainder \in Nat /\ quotient \in Nat /\ M \in Nat /\ M >= 2
        /\ bit = BITS => remainder = 0
        /\ bit < BITS => remainder < divisor
    BY WordSize DEF Division
  <2>1. remainder < M
    BY <2>0, Pow2Assumption
  <2>2. quotient < M
    BY QuotientFits
  <2>. QED  BY <2>0, <2>1, <2>2 DEF TypeOK, RemainderSmall, Words
<1>. QED  BY <1>1, DivisionInvariant, PTL

(* At the end of the loop nothing is left of the dividend but a remainder. *)
LEMMA QuotientAtEnd == Division => QuotientIsWork
<1>. SUFFICES ASSUME Division, bit = -1 PROVE quotient = (M \div (target + 1)) % M
  BY DEF QuotientIsWork
<1>0. /\ target \in 0 .. M - 2 /\ divisor = target + 1
      /\ remainder \in Nat /\ quotient \in Nat /\ M \in Nat /\ M >= 2
      /\ Dropped \in Nat
  BY WordSize DEF Division, Dropped
<1>1. bit < BITS /\ bit + 1 = 0 /\ Pow2[0] = 1
  BY Pow2Assumption
<1>2. remainder < divisor /\ (Dropped + quotient) * divisor + remainder * 1 = M
  BY <1>1 DEF Division
<1>3. Dropped + quotient = M \div divisor
  <2>. DEFINE q == Dropped + quotient
  <2>1. q \in Nat /\ divisor \in Nat \ {0}
    BY <1>0
  <2>2. q * divisor + remainder * 1 = M
    BY <1>2
  <2>. HIDE DEF q
  <2>3. q <= M \div divisor /\ M \div divisor < q + 1
    BY <2>1, <2>2, <1>0, <1>2, QuotientBounds
  <2>4. M \div divisor \in Int
    BY <2>1, <1>0
  <2>5. q = M \div divisor
    BY <2>1, <2>3, <2>4
  <2>. QED  BY <2>5 DEF q
<1>4. quotient < M /\ (target = 0 => quotient = 0)
  BY QuotientFits
<1>5. CASE target = 0
  <2>1. M \div (target + 1) = M /\ M % M = 0
    BY <1>0, <1>5
  <2>. QED  BY <2>1, <1>4, <1>5
<1>6. CASE target # 0
  <2>1. Dropped = 0
    BY <1>6 DEF Dropped
  <2>2. quotient = M \div (target + 1)
    BY <2>1, <1>3, <1>0
  <2>3. quotient % M = quotient
    BY <1>4, <1>0
  <2>. QED  BY <2>2, <2>3
<1>. QED  BY <1>5, <1>6

(* The loop of work_from_target returns floor(2^BITS / (target + 1)), cut  *)
(* to the word, for every target that has a successor in the word.         *)
THEOREM LoopComputesWork == Spec => []QuotientIsWork
  BY QuotientAtEnd, DivisionInvariant, PTL

(* No bit of the quotient is set that the exact quotient does not have,    *)
(* and the bits still to come make up for what is missing.                 *)
THEOREM LoopConverges == Spec => []QuotientConverges
<1>1. Division => QuotientConverges
  <2>. SUFFICES ASSUME Division, bit < BITS, target > 0
                PROVE  quotient <= M \div divisor /\ M \div divisor < quotient + Pow2[bit + 1]
    BY DEF QuotientConverges
  <2>0. /\ target \in 0 .. M - 2 /\ divisor = target + 1 /\ bit \in -1 .. BITS
        /\ remainder \in Nat /\ quotient \in Nat /\ M \in Nat /\ M >= 2
    BY WordSize DEF Division
  <2>1. bit + 1 \in 0 .. BITS
    BY <2>0, Pow2Assumption
  <2>. DEFINE p == Pow2[bit + 1]
  <2>2. p \in Nat \ {0}
    BY <2>1, Pow2Assumption
  <2>3. remainder < divisor /\ quotient * divisor + remainder * p = M
    <3>1. Dropped = 0
      BY <2>0 DEF Dropped
    <3>2. Dropped + quotient = quotient
      BY <3>1, <2>0
    <3>. QED  BY <3>2 DEF Division
  <2>4. divisor \in Nat \ {0}
    BY <2>0
  <2>. HIDE DEF p
  <2>5. quotient <= M \div divisor /\ M \div divisor < quotient + p
    BY <2>0, <2>2, <2>3, <2>4, QuotientBounds
  <2>. QED  BY <2>5 DEF p
<1>. QED  BY <1>1, DivisionInvariant, PTL

=============================================================================
