--------------------------- MODULE MCChainReaders ---------------------------
(* A genesis block g, block a1 and a competing block b1 at number 1.       *)
EXTENDS ChainReaders

CONSTANTS g, a1, b1

MCNum == [h \in {g, a1, b1} |-> IF h = g THEN 0 ELSE 1]

=============================================================================
