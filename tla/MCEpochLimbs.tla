---------------------------- MODULE MCEpochLimbs ----------------------------
(* Words of four 3-bit limbs, which are also six base-4 digits.  The limit *)
(* has the shape of the main net one, two full digits under a clear sign   *)
(* bit, and four spare bits above it as the program has thirty-two.        *)
EXTENDS EpochLimbs

MCBytePow    == [k \in 0..NBYTES |-> BYTE^k]
MCPow2       == [k \in 0..BITS |-> 2^k]
MCTimestamps == {0, 1, 2, 3, 8, 13, 17}   \* every difference up to 17
MCRowTargets == 0 .. 2^BITS - 2
=============================================================================
