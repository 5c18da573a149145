---------------------------- MODULE MCAllocTracker ----------------------------
(* Three threads on two blocks of one of two sizes: a block that is freed,  *)
(* handed out again and freed again before its first release is counted,    *)
(* and peaks raised in another order than they were reached.                *)
EXTENDS AllocTracker, TLC

ThreadSymmetry == Permutations(Threads) \cup Permutations(Blocks)
=============================================================================
