---------------------------- MODULE WorkDivision ----------------------------
(***************************************************************************)
(* The bit loop of work_from_target (src/crates/core/src/lib.rs): the long *)
(* division of the (BITS + 1)-bit dividend 2^BITS by target + 1, with      *)
(* every register only BITS wide.  The program has BITS = 256.             *)
(*                                                                         *)
(* One step is one iteration of the loop, the shift, the injected leading  *)
(* one, the comparison and the subtraction included.                       *)
(***************************************************************************)
EXTENDS Powers

M     == Pow2[BITS]
Words == 0 .. M - 1

VARIABLES
  target,
  divisor,
  bit,        \* the next bit to process; -1 when the loop has ended
  remainder,
  quotient

vars == <<target, divisor, bit, remainder, quotient>>

TypeOK ==
  /\ target \in Words /\ divisor \in Words
  /\ bit \in -1 .. BITS
  /\ remainder \in Words
  /\ quotient \in Words

\* increment_target fails on the word of all ones, so target + 1 fits.
Init ==
  /\ target \in 0 .. M - 2
  /\ divisor = target + 1
  /\ bit = BITS
  /\ remainder = 0
  /\ quotient = 0

\* The remainder shifted left, with the carry it evicts.
carry   == 2 * remainder >= M

shifted == ((2 * remainder) % M) + (IF bit = BITS THEN 1 ELSE 0)

fits == carry \/ shifted >= divisor

Subtract ==
  /\ bit >= 0
  /\ fits
  /\ remainder' = (shifted - divisor) % M
  /\ quotient' = IF bit < BITS THEN quotient + Pow2[bit] ELSE quotient
  /\ bit' = bit - 1
  /\ UNCHANGED <<target, divisor>>

Skip ==
  /\ bit >= 0
  /\ ~fits
  /\ remainder' = shifted
  /\ bit' = bit - 1
  /\ UNCHANGED <<target, divisor, quotient>>

Next == Subtract \/ Skip

Spec == Init /\ [][Next]_vars

-----------------------------------------------------------------------------
(* The remainder is always smaller than the divisor after an iteration, so *)
(* the carry out of the shift stands for one bit the subtraction cancels.  *)
RemainderSmall == bit < BITS => remainder < divisor

(* When the loop ends, the quotient is floor(2^BITS / (target + 1)) cut to *)
(* the word, the value work_from_target in Difficulty.tla states.          *)
QuotientIsWork == bit = -1 => quotient = (M \div (target + 1)) % M

(* The quotient bits are set once each, from the top down: what is already *)
(* found is never revised, and lies between the quotient and the quotient  *)
(* less the weight of the bits still to come.                              *)
QuotientConverges ==
  bit < BITS /\ target > 0 =>
    /\ quotient <= M \div divisor
    /\ M \div divisor < quotient + Pow2[bit + 1]

=============================================================================
