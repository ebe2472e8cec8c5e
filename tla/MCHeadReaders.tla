---------------------------- MODULE MCHeadReaders ----------------------------
(* Genesis g, blocks a1 and b1 at number 1 and a2 (child of a1) at 2.      *)
EXTENDS HeadReaders

CONSTANTS g, a1, b1, a2

MCNum == [h \in {g, a1, b1, a2} |-> IF h = g THEN 0 ELSE IF h = a2 THEN 2 ELSE 1]

=============================================================================
