------------------------------ MODULE MCKeyScan ------------------------------
(* Genesis at 0 and three blocks at 1 whose hashes begin below, at and     *)
(* above the canonical suffix byte "n" (110), two of them ending in it, so *)
(* headers sort on both sides of the canonical entry of their number and   *)
(* can be mistaken for one by their last byte.                             *)
EXTENDS KeyScan, TLC

CONSTANTS hg, hx, hy, hz

MCNum == [h \in {hg, hx, hy, hz} |-> IF h = hg THEN 0 ELSE 1]

MCHashBytes == (hg :> <<48, 1, 2>>) @@ (hx :> <<16, 0, 110>>)
            @@ (hy :> <<110, 0, 1>>) @@ (hz :> <<128, 0, 110>>)
=============================================================================
