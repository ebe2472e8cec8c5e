-------------------------- MODULE MCCommonAncestor --------------------------
(* Genesis g; two blocks at height 1, a1 and b1; two children of a1 at     *)
(* height 2, a2 and c2.  The walks reach fork points at heights 0 and 1,   *)
(* from equal and from different heights.                                  *)
EXTENDS CommonAncestor

CONSTANTS g, a1, b1, a2, c2

MCNum == [h \in {g, a1, b1, a2, c2} |->
            IF h = g THEN 0 ELSE IF h \in {a1, b1} THEN 1 ELSE 2]

MCParent == [h \in {g, a1, b1, a2, c2} |->
               IF h = g THEN None ELSE IF h \in {a1, b1} THEN g ELSE a1]
=============================================================================
