------------------------------- MODULE MCGuest -------------------------------
(* Blocks are named by their ancestry.  The first header settles whether   *)
(* what follows is hard, and then "weak" ones lack proof of work; "old"    *)
(* ones are always rejected.  The other program commits the claim of a     *)
(* real block with more work, with other continuation data, and of a block *)
(* no valid header leads to.                                               *)
EXTENDS Guest

MCOutcome(height, cont, header) ==
  CASE header = "old"                                    -> "TimestampTooOld"
    [] header = "weak" /\ cont = "hard" /\ height > 0    -> "PowInsufficient"
    [] OTHER                                             -> "Success"

MCNextCont(height, cont, header) ==
  IF height > 0 THEN cont ELSE IF header = "fast" THEN "hard" ELSE "easy"

MCHashOf(prev, cont, header) == Append(prev, <<header, cont>>)
MCBlockWork(cont) == IF cont = "hard" THEN 2 ELSE 1

AnchorOf(cont) ==
  [genesis_hash |-> <<"g">>, block_hash |-> <<"g">>, height |-> 0,
   chain_work |-> 1, cont |-> cont]
MCAnchors == {AnchorOf("easy")}

First == Extended(AnchorOf("easy"), "fast")
Stray == [First EXCEPT !.block_hash = MCHashOf(<<"g">>, "hard", "old")]
MCForeign == UNION {
  {Success(public_claim([First EXCEPT !.chain_work = 9]), "hard", key),
   Success(public_claim(First), "easy", key),
   Success(public_claim(Stray), "hard", key)} : key \in KEYS}
=============================================================================
