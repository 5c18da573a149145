----------------------------- MODULE MCExchange -----------------------------
(* Two batches of two headers; a byte becomes 0, which makes a failure a   *)
(* success, 2, which makes a success a failure, or 255, which no field     *)
(* has; buffers lose or gain a byte, a word, a header.                     *)
EXTENDS Exchange

MCOtherBytes == {0, 2, 255}
MCResized    == {-44, -4, -1, 1, 4, 44}
=============================================================================
