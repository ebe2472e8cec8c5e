---------------------------- MODULE BadBlockFaults ----------------------------
(***************************************************************************)
(* BadBlocks with a failing store read.  WriteBadBlock's db.Get of         *)
(* badBlockKey can fail for a reason other than a missing key (a closed    *)
(* or corrupted database); the error is only logged, the list is taken as  *)
(* empty, and the new block is written back as the whole list.  A decode   *)
(* error, by contrast, stops the node (log.Crit).                          *)
(***************************************************************************)
EXTENDS BadBlocks

\* WriteBadBlock after a failed load: the blob is nil, so no old entry is
\* decoded, the duplicate check sees nothing, and the stored list becomes
\* the new block alone.
WriteBadBlockLoadFailed(b) ==
    /\ badBlocks' = << b >>
    /\ recorded' = recorded \cup {b}

FaultNext ==
    \/ Next
    \/ \E b \in Blocks : WriteBadBlockLoadFailed(b)

FaultSpec == Init /\ [][FaultNext]_vars

=============================================================================
