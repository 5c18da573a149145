------------------------------ MODULE MCSession ------------------------------
(* Every mode, tables of up to five headers in batches of two, at most      *)
(* three batches; started from nothing, from a proof of two or of three     *)
(* headers, from the Groth16 form of one, from a file that holds no proof   *)
(* to extend.                                                               *)
EXTENDS Session

File(first, end, groth16) ==
  [session |-> 0, first |-> first, end |-> end, groth16 |-> groth16]

MCGiven == {NoProof, File(1, 2, FALSE), File(1, 3, FALSE), File(1, 2, TRUE)}
=============================================================================
