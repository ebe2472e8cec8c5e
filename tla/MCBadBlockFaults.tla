--------------------------- MODULE MCBadBlockFaults ---------------------------
(* The blocks of MCBadBlocks, with failing loads.                           *)
EXTENDS BadBlockFaults

CONSTANTS x1, x2, y2, x3, y3, x4, y4

MCBNum == [b \in {x1, x2, y2, x3, y3, x4, y4} |->
             CASE b = x1 -> 1 [] b \in {x2, y2} -> 2 [] b \in {x3, y3} -> 3 [] OTHER -> 4]

=============================================================================
