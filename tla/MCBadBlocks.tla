----------------------------- MODULE MCBadBlocks -----------------------------
(* Seven candidate blocks, three pairs of them at the same number, and a  *)
(* bound of three, so that writes overflow the list, evict, tie at the    *)
(* cut and re-report evicted blocks.                                       *)
EXTENDS BadBlocks

CONSTANTS x1, x2, y2, x3, y3, x4, y4

MCBNum == [b \in {x1, x2, y2, x3, y3, x4, y4} |->
             CASE b = x1 -> 1 [] b = x2 -> 2 [] b = y2 -> 2
               [] b = x3 -> 3 [] b = y3 -> 3 [] b = x4 -> 4 [] b = y4 -> 4]
=============================================================================
