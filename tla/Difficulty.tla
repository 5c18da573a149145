----------------------------- MODULE Difficulty -----------------------------
(***************************************************************************)
(* The difficulty arithmetic of zkpow-core (src/crates/core/src/lib.rs):   *)
(* compact targets, expanded targets, the work of a block and the target   *)
(* an epoch boundary requires.                                             *)
(*                                                                         *)
(* The arithmetic is on unsigned words of NBYTES digits in base BYTE: the  *)
(* program has BYTE = 256 and NBYTES = 32, a small instance keeps every    *)
(* case distinction (the three digit mantissa, the sign bit, the shifts,   *)
(* the wrap of a product at the word's width) with short words.            *)
(***************************************************************************)
EXTENDS Integers, FiniteSets

CONSTANTS
  BYTE,              \* base of a digit (256)
  NBYTES,            \* digits of a word (32)
  BytePow,           \* BytePow[k] = BYTE^k, a table up to one full word
  POW_LIMIT,         \* GENESIS_TARGET, the easiest target allowed
  EPOCH_LENGTH,      \* blocks per difficulty epoch (2016)
  TARGET_BLOCK_TIME  \* expected seconds between blocks (600)

ASSUME WordAssumption ==
  /\ BYTE \in Nat /\ BYTE > 1
  /\ NBYTES \in Nat /\ NBYTES >= 3
  /\ \A k \in 0..NBYTES : BytePow[k] \in Nat \ {0}

ASSUME BytePowAssumption ==
  /\ BytePow[0] = 1
  /\ \A k \in 0..NBYTES-1 : BytePow[k+1] = BYTE * BytePow[k]
  /\ BytePow[3] % 2 = 0

ASSUME BytePowGrows == \A j, k \in 0..NBYTES : j <= k => BytePow[j] <= BytePow[k]

ASSUME ConsensusAssumption ==
  /\ EPOCH_LENGTH \in Nat \ {0}
  /\ TARGET_BLOCK_TIME \in Nat \ {0}
  /\ POW_LIMIT \in 0 .. BytePow[NBYTES] - 2

WordMod == BytePow[NBYTES]
Words   == 0 .. WordMod - 1

EXPECTED_EPOCH_TIMESPAN == EPOCH_LENGTH * TARGET_BLOCK_TIME
MIN_EPOCH_TIMESPAN      == EXPECTED_EPOCH_TIMESPAN \div 4
MAX_EPOCH_TIMESPAN      == EXPECTED_EPOCH_TIMESPAN * 4

-----------------------------------------------------------------------------
(* ChainWork arithmetic: Add and Mul<u32> drop the carry out of the word.  *)

WordAdd(a, b) == (a + b) % WordMod
WordMul(a, n) == (a * n) % WordMod

-----------------------------------------------------------------------------
(***************************************************************************)
(* Compact targets.  The program packs size and mantissa in one u32; the   *)
(* record keeps the two fields apart.  The top bit of the mantissa is the  *)
(* sign bit of the encoding and is never set in a result.                  *)
(***************************************************************************)
SignBit == BytePow[3] \div 2

CompactTarget == [size : 0 .. NBYTES + 1, mantissa : 0 .. SignBit - 1]

\* The number of digits of t: one for each power of the base up to t.
SignificantBytes(t) == Cardinality({k \in 0 .. NBYTES - 1 : BytePow[k] <= t})

\* The three leading digits of a word of n digits, padded on the right.
LeadingDigits(t, n) ==
  IF n <= 3 THEN t * BytePow[3 - n] ELSE t \div BytePow[n - 3]

target_to_bits(t) ==
  LET n       == SignificantBytes(t)
      compact == LeadingDigits(t, n)
  IN  IF t = 0 THEN [size |-> 0, mantissa |-> 0]
      ELSE IF compact >= SignBit
           THEN [size |-> n + 1, mantissa |-> (compact \div BYTE) % SignBit]
           ELSE [size |-> n, mantissa |-> compact]

\* Digits that would land above the word are dropped.
target_from_bits(bits) ==
  LET mantissa == bits.mantissa % SignBit
  IN  IF bits.size <= 3
      THEN mantissa \div BytePow[3 - bits.size]
      ELSE IF bits.size - 3 >= NBYTES
           THEN 0
           ELSE (mantissa * BytePow[bits.size - 3]) % WordMod

\* GENESIS_TARGET is itself the expansion of a compact target, 0x1d00ffff.
ASSUME LimitExpressible == target_from_bits(target_to_bits(POW_LIMIT)) = POW_LIMIT

check_proof_of_work(hash, target) == hash <= target

-----------------------------------------------------------------------------
(***************************************************************************)
(* The work of one block: floor(2^256 / (target + 1)), with the quotient   *)
(* bit that does not fit in the word dropped (target 0).  WorkDivision.tla *)
(* has the bit loop that computes it.                                      *)
(***************************************************************************)
work_from_target(target) == (WordMod \div (target + 1)) % WordMod

Clamp(x, lo, hi) == IF x < lo THEN lo ELSE IF x > hi THEN hi ELSE x

ClampedTimespan(epoch_start, previous) ==
  Clamp(previous - epoch_start, MIN_EPOCH_TIMESPAN, MAX_EPOCH_TIMESPAN)

\* The raw next target: the product wraps at the word, then the division.
ScaledTarget(old_target, timespan) ==
  ((old_target * timespan) % WordMod) \div EXPECTED_EPOCH_TIMESPAN

calculate_next_target_required(old_target, epoch_start, previous) ==
  LET scaled  == ScaledTarget(old_target, ClampedTimespan(epoch_start, previous))
      clamped == IF scaled < POW_LIMIT THEN scaled ELSE POW_LIMIT
      compact == target_to_bits(clamped)
  IN  [nbits |-> compact, target |-> target_from_bits(compact)]

=============================================================================
