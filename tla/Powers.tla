------------------------------- MODULE Powers -------------------------------
(* The powers of two up to the width of a word, as a table.                *)
EXTENDS Integers

CONSTANTS
  BITS,   \* width of a word (256)
  Pow2    \* Pow2[k] = 2^k, a table up to one full word

ASSUME Pow2Assumption ==
  /\ BITS \in Nat \ {0}
  /\ Pow2 \in [0..BITS -> Nat \ {0}]
  /\ Pow2[0] = 1
  /\ \A k \in 0..BITS-1 : Pow2[k+1] = 2 * Pow2[k]

=============================================================================
