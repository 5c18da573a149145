------------------------------- MODULE MCRelay -------------------------------
(* Two branches that part above block 3, each block provable with two       *)
(* proofs; a ring of three, lapped more than twice by a branch.  Next to    *)
(* the blocks: children of block 2 that repeat its height or its work, have *)
(* another genesis or another schema, and a block that was never proven.    *)
EXTENDS Relay

Block(id, prev, height, work) ==
  [schemaVersion |-> 1, genesisBlockHash |-> "g", currentBlockHash |-> id,
   prevBlockHash |-> prev, height |-> height, cumulativeChainWork |-> work]

MainBlocks == {Block(h, h - 1, h, h + 1) : h \in 1..10}
ForkBlocks == {Block(10 + h, IF h = 4 THEN 3 ELSE 9 + h, h, h + 2) : h \in 4..6}
OddBlocks  == {Block(21, 2, 2, 9), Block(22, 2, 3, 3),
               [Block(23, 2, 3, 4) EXCEPT !.genesisBlockHash = "h"],
               [Block(24, 2, 3, 4) EXCEPT !.schemaVersion = 2]}
Unproven   == Block(25, 2, 3, 4)

MCProven      == (MainBlocks \cup ForkBlocks \cup OddBlocks) \X {"p", "q"}
MCSubmissions == MCProven \cup {<<Unproven, "p">>}
MCNoRecord    == Block(0, 0, 0, 0)
=============================================================================
