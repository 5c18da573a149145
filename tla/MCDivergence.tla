---------------------------- MODULE MCDivergence ----------------------------
(* Every set of differing rows in batches of one to seven headers: searches*)
(* of none to three halvings, in intervals of even and of odd length; and  *)
(* every pair of values of three bytes, or of halves of two, zero or not.  *)
EXTENDS Divergence
=============================================================================
