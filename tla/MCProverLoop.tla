----------------------------- MODULE MCProverLoop -----------------------------
(* Batches of one header in sessions of up to three, heights written in     *)
(* base three: 1, 2, 10, 11, 12, so names and heights sort differently once *)
(* a session passes height 2.  The table has up to five headers, two        *)
(* sessions fail or are killed.                                             *)
EXTENDS ProverLoop

MCModes == {m \in Modes : m.prover_backend = "cuda" /\ ~m.execute_only}
MCRadixPow == [k \in 0..MAX_HEIGHT |-> RADIX^k]
=============================================================================
