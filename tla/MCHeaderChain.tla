---------------------------- MODULE MCHeaderChain ----------------------------
(* Epochs of four blocks and windows of three, shorter than the epoch as in *)
(* the program: a chain of nine blocks laps the ring twice and crosses two  *)
(* boundaries.  The timestamps make the timespan of an epoch negative,      *)
(* below the clamp, exact, or above the clamp, and the hashes lie at and    *)
(* one above the targets an epoch can get.                                  *)
EXTENDS HeaderDb

MCBytePow    == [k \in 0..NBYTES |-> BYTE^k]
MCTimestamps == {0, 1, 2, 3, 4, 5, 6, 20}
MCHashes     == {0, 15, 16, 30, 31, 60, 61}
=============================================================================
