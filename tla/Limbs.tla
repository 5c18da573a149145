------------------------------- MODULE Limbs --------------------------------
(***************************************************************************)
(* The 256-bit integers of zkpow-core (src/crates/core/src/types.rs and    *)
(* lib.rs): four limbs of WIDTH bits, the least significant one first, and *)
(* the arithmetic the program does on them one limb at a time.             *)
(*                                                                         *)
(* The accumulators of the code are wide enough for a limb times a 32-bit  *)
(* factor plus a carry, so they are integers here; what is stored in a     *)
(* limb is cut to its width.                                               *)
(***************************************************************************)
EXTENDS Powers

CONSTANT WIDTH   \* bits of a limb (64)

ASSUME WidthAssumption ==
  /\ WIDTH \in Nat \ {0}
  /\ BITS = 4 * WIDTH

\* The table is one of powers: what is true of 2^k by induction on k.
ASSUME PowersMultiply ==
  \A j, k \in 0..BITS : j + k \in 0..BITS => Pow2[j + k] = Pow2[j] * Pow2[k]

LIMB  == Pow2[WIDTH]
Index == 0..3
u256  == [Index -> 0..LIMB-1]

Zero == [i \in Index |-> 0]

\* The integer four limbs, or four columns not yet cut to limbs, stand for.
Value(a) == a[0] + LIMB * (a[1] + LIMB * (a[2] + LIMB * a[3]))

FromValue(v) ==
  LET q1 == v \div LIMB
      q2 == q1 \div LIMB
      q3 == q2 \div LIMB
  IN  [i \in Index |-> CASE i = 0 -> v % LIMB [] i = 1 -> q1 % LIMB
                         [] i = 2 -> q2 % LIMB [] i = 3 -> q3 % LIMB]

\* A wrong variant: the least significant limb decides.
LessFromBelow(a, b) == \E i \in Index : a[i] < b[i] /\ \A j \in 0..i-1 : a[j] = b[j]

Less(a, b) == \E i \in Index : a[i] < b[i] /\ \A j \in i+1..3 : a[j] = b[j]

-----------------------------------------------------------------------------
(* Columns of limbs cut to the width of a limb from below, what a column   *)
(* holds above it carried into the next one; the last carry is dropped.    *)
Carried(v) ==
  LET c1 == v[1] + v[0] \div LIMB
      c2 == v[2] + c1 \div LIMB
      c3 == v[3] + c2 \div LIMB
  IN  [i \in Index |-> CASE i = 0 -> v[0] % LIMB [] i = 1 -> c1 % LIMB
                         [] i = 2 -> c2 % LIMB [] i = 3 -> c3 % LIMB]

Add(a, b) == Carried([i \in Index |-> a[i] + b[i]])

\* A wrong variant: the limbs are multiplied each on its own.
MulWithoutCarry(a, n) == [i \in Index |-> (a[i] * n) % LIMB]

Mul(a, n) == Carried([i \in Index |-> a[i] * n])

\* Division by a word, from the most significant limb down.
Div(a, n) ==
  LET v2 == (a[3] % n) * LIMB + a[2]
      v1 == (v2 % n) * LIMB + a[1]
      v0 == (v1 % n) * LIMB + a[0]
  IN  [i \in Index |-> CASE i = 0 -> v0 \div n [] i = 1 -> v1 \div n
                         [] i = 2 -> v2 \div n [] i = 3 -> a[3] \div n]

-----------------------------------------------------------------------------
\* overflowing_sub, and the one limb subtraction with a borrow built of two.
Wrapped(x, y) == (x - y) % LIMB

\* A wrong variant: an underflow of the borrow itself is not passed on.
BorrowOnce(x, y, b) == IF x < y THEN 1 ELSE 0

Borrow(x, y, b) == IF x < y \/ Wrapped(x, y) < b THEN 1 ELSE 0

sub_assign(a, b) ==
  LET b1 == Borrow(a[0], b[0], 0)
      b2 == Borrow(a[1], b[1], b1)
      b3 == Borrow(a[2], b[2], b2)
      in == [i \in Index |-> CASE i = 0 -> 0 [] i = 1 -> b1 [] i = 2 -> b2 [] i = 3 -> b3]
  IN  [i \in Index |-> Wrapped(Wrapped(a[i], b[i]), in[i])]

Saturated(a) == \A i \in Index : a[i] = LIMB - 1

\* A wrong variant: the limbs below the one that takes the carry keep their bits.
increment_no_ripple(a) ==
  LET first == CHOOSE i \in Index : a[i] < LIMB - 1 /\ \A j \in 0..i-1 : a[j] = LIMB - 1
  IN  [a EXCEPT ![first] = @ + 1]

\* Defined for a word that is not saturated; the other one is an error.
increment_target(a) ==
  LET first == CHOOSE i \in Index : a[i] < LIMB - 1 /\ \A j \in 0..i-1 : a[j] = LIMB - 1
  IN  [i \in Index |-> IF i < first THEN 0 ELSE IF i = first THEN a[i] + 1 ELSE a[i]]

TopBit(x) == IF 2 * x >= LIMB THEN 1 ELSE 0

\* A wrong variant: the carry of every limb goes into the lowest one only.
shl1_without_carry(a) == [i \in Index |-> (2 * a[i]) % LIMB]

shl1(a) == [i \in Index |-> ((2 * a[i]) % LIMB) + (IF i = 0 THEN 0 ELSE TopBit(a[i-1]))]

shl1_carry(a) == TopBit(a[3]) = 1

\* limb | 1 << k
WithBit(x, k) == IF (x \div Pow2[k]) % 2 = 1 THEN x ELSE x + Pow2[k]

\* A wrong variant: the bits of a limb are numbered from the top.
SetBitReversed(q, b) == [q EXCEPT ![b \div WIDTH] = WithBit(@, WIDTH - 1 - (b % WIDTH))]

SetBit(q, b) == [q EXCEPT ![b \div WIDTH] = WithBit(@, b % WIDTH)]

=============================================================================
