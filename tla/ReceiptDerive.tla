---------------------------- MODULE ReceiptDerive ----------------------------
(***************************************************************************)
(* ReadLogs and deriveLogFields of core/rawdb/accessors_chain.go.  Stored  *)
(* receipts keep only their logs; ReadLogs reads them and the block body   *)
(* and fills in each log's transaction hash, transaction index and log     *)
(* index.  A receipt list may carry one extra "block finalization" receipt *)
(* (IBFT), whose logs are attributed to the block hash itself.             *)
(*                                                                         *)
(* One block is modelled.  Its receipts and its body are written           *)
(* independently (headers, bodies and receipts are downloaded              *)
(* concurrently), so ReadLogs may meet any receipt count for the body's    *)
(* transaction count.  A receipt is its number of logs; a transaction is   *)
(* its hash.                                                               *)
(***************************************************************************)
EXTENDS Naturals, Sequences, SequencesExt

CONSTANTS
    BlockHash,   \* the hash of the block
    TxHashes,    \* hashes of the transactions the body may hold
    MaxTx,       \* most transactions in the body
    MaxLogs,     \* most logs in one receipt
    None         \* absent: nil returned or nothing stored

ASSUME /\ BlockHash \notin TxHashes
       /\ None \notin TxHashes \cup {BlockHash}
       /\ MaxTx \in Nat /\ MaxLogs \in Nat

\* Bodies: sequences of distinct transactions.  Receipt lists: up to two
\* receipts more than the most transactions, so that every count relation
\* the deriver tells apart (fewer, N, N+1, N+2) occurs.
Bodies == { b \in BoundedSeq(TxHashes, MaxTx) : \A i, j \in DOMAIN b : i # j => b[i] # b[j] }
ReceiptLists == BoundedSeq(0..MaxLogs, MaxTx + 2)

\* The fields deriveLogFields fills in.  BlockNumber and BlockHash are the
\* same for every log of the block and are left out.
LogRecord == [txHash : TxHashes \cup {BlockHash}, txIndex : Nat, index : Nat]

VARIABLES
    receipts,  \* the receipt list stored for the block, or None
    body,      \* the block body's transactions stored, or None
    logs,      \* what the last ReadLogs call returned, or None
    readOf     \* the stored receipts and body that call saw

vars == <<receipts, body, logs, readOf>>

TypeOK ==
    /\ receipts \in ReceiptLists \cup {None}
    /\ body \in Bodies \cup {None}
    /\ logs \in Seq(Seq(LogRecord)) \cup {None}
    /\ readOf \in [rc : ReceiptLists \cup {None}, txs : Bodies \cup {None}]

Init ==
    /\ receipts = None
    /\ body = None
    /\ logs = None
    /\ readOf = [rc |-> None, txs |-> None]

-----------------------------------------------------------------------------
(* deriveLogFields, one loop iteration per recursion step.                 *)

\* Mutation: the finalization receipt is not allowed for.
CountsMatchStrict(rc, txs) == Len(txs) = Len(rc)

\* The count check: N transactions take N receipts, or N+1 with the
\* finalization receipt.
CountsMatch(rc, txs) == Len(txs) = Len(rc) \/ Len(txs) + 1 = Len(rc)

\* Mutation: the finalization receipt's logs keep an unset TxHash.
TxHashOfUnset(txs, i) == IF i < Len(txs) THEN txs[i + 1] ELSE None

\* The transaction hash the logs of receipt i (0-based) get: the i-th
\* transaction's, and for the finalization receipt (i = len(txs)) the block
\* hash.
TxHashOf(txs, i) == IF i < Len(txs) THEN txs[i + 1] ELSE BlockHash

\* Mutation: logIndex restarts at each receipt.
RECURSIVE DeriveFromPerReceipt(_, _, _, _)
DeriveFromPerReceipt(rc, txs, i, logIndex) ==
    IF i >= Len(rc) THEN << >>
    ELSE << [j \in 1..rc[i + 1] |->
               [txHash |-> TxHashOf(txs, i), txIndex |-> i, index |-> j - 1]] >>
         \o DeriveFromPerReceipt(rc, txs, i + 1, 0)

\* The logs of receipts i, i+1, ... with logIndex the index of the first:
\* the j-th log of receipt i gets TxHash, TxIndex = i and Index = logIndex,
\* and logIndex is incremented after each log.
RECURSIVE DeriveFrom(_, _, _, _)
DeriveFrom(rc, txs, i, logIndex) ==
    IF i >= Len(rc) THEN << >>
    ELSE << [j \in 1..rc[i + 1] |->
               [txHash |-> TxHashOf(txs, i), txIndex |-> i,
                index |-> logIndex + j - 1]] >>
         \o DeriveFrom(rc, txs, i + 1, logIndex + rc[i + 1])

\* deriveLogFields: the count check, then the transactions' receipts and
\* the finalization receipt, logIndex running on from the first into the
\* second loop; None stands for the error.
DeriveLogFields(rc, txs) ==
    IF CountsMatch(rc, txs) THEN DeriveFrom(rc, txs, 0, 0) ELSE None

-----------------------------------------------------------------------------
(* The store and the reader.                                               *)

\* WriteReceipts stores the block's receipt list (replacing any earlier).
WriteReceipts(rc) ==
    /\ receipts' = rc
    /\ UNCHANGED <<body, logs, readOf>>

\* WriteBody stores the block body.
WriteBody(txs) ==
    /\ body' = txs
    /\ UNCHANGED <<receipts, logs, readOf>>

\* DeleteBlock removes the block's receipts and body together.
DeleteBlock ==
    /\ receipts # None \/ body # None
    /\ receipts' = None /\ body' = None
    /\ UNCHANGED <<logs, readOf>>

\* ReadLogs: nil without receipts, nil without a body, nil when the
\* derivation fails, otherwise the logs of every receipt in order.
ReadLogs ==
    /\ logs' = IF receipts = None \/ body = None THEN None
               ELSE DeriveLogFields(receipts, body)
    /\ readOf' = [rc |-> receipts, txs |-> body]
    /\ UNCHANGED <<receipts, body>>

Next ==
    \/ \E rc \in ReceiptLists : WriteReceipts(rc)
    \/ \E txs \in Bodies : WriteBody(txs)
    \/ DeleteBlock
    \/ ReadLogs

Spec == Init /\ [][Next]_vars

-----------------------------------------------------------------------------
(* Properties.                                                             *)

\* The logs of a receipt list as one sequence, in block order.
AllLogs(ls) == FlattenSeq(ls)

\* Reference (spec 4.5): with N or N+1 receipts for N transactions,
\* ReadLogs returns one log list per receipt, and the log indices across
\* the whole block are 0, 1, 2, ... in receipt and log order.
LogIndicesContiguous ==
    logs # None =>
        /\ Len(logs) = Len(readOf.rc)
        /\ \A k \in DOMAIN AllLogs(logs) : AllLogs(logs)[k].index = k - 1

\* Reference (spec 4.5): ReadLogs returns logs exactly when receipts and
\* body are stored and there are N or N+1 receipts for N transactions, and
\* then the logs of the i-th receipt carry the i-th transaction's hash and
\* index, those of the extra receipt the block hash and index N.
LogsAttributed ==
    LET rc == readOf.rc
        txs == readOf.txs
        ok == rc # None /\ txs # None
              /\ Len(rc) \in {Len(txs), Len(txs) + 1}
    IN  /\ (logs # None) = ok
        /\ ok => \A i \in DOMAIN logs :
                    /\ Len(logs[i]) = rc[i]
                    /\ \A j \in DOMAIN logs[i] :
                          /\ logs[i][j].txIndex = i - 1
                          /\ logs[i][j].txHash =
                               IF i <= Len(txs) THEN txs[i] ELSE BlockHash

=============================================================================
