---------------------------- MODULE AbstractStore ----------------------------
(***************************************************************************)
(* What the chain accessors promise their callers: a single store in which *)
(* each table holds a record for a set of blocks, the hash->number index   *)
(* holds a set of blocks, and the canonical index maps each number to a    *)
(* hash or to nothing.  Records appear only when a writer puts them and    *)
(* disappear only when a writer deletes them; there is no second tier and  *)
(* no migration.  The two-tier store of ChainStore is shown to implement   *)
(* this specification in StoreRefinement.                                  *)
(***************************************************************************)
EXTENDS Naturals

CONSTANTS Hashes, Genesis, Num, Tables, None

VARIABLES
    records,    \* records[t]: the blocks whose table-t record can be read
    numbers,    \* the blocks whose number can be looked up by hash
    canonical   \* canonical[n]: the canonical hash of number n, or None

avars == <<records, numbers, canonical>>

Numbers == {Num[h] : h \in Hashes}

AInit ==
    /\ records = [t \in Tables |-> {Genesis}]
    /\ numbers = {Genesis}
    /\ canonical = [n \in Numbers |-> IF n = 0 THEN Genesis ELSE None]

\* The canonical entry of a number is set to one of its blocks or cleared.
SetCanonical(n, v) ==
    /\ v = None \/ Num[v] = n
    /\ canonical' = [canonical EXCEPT ![n] = v]
    /\ UNCHANGED <<records, numbers>>

\* Records of block h are put into some tables, with or without its number:
\* each table gains h or stays as it was.
AddRecords(h, withNumber) ==
    /\ UNCHANGED canonical
    /\ numbers' = IF withNumber THEN numbers \cup {h} ELSE numbers
    /\ records' \in [Tables -> SUBSET Hashes]
    /\ \A t \in Tables : records'[t] \in {records[t], records[t] \cup {h}}

\* All records of block h are deleted, with or without its number.
RemoveRecords(h, withNumber) ==
    /\ UNCHANGED canonical
    /\ numbers' = IF withNumber THEN numbers \ {h} ELSE numbers
    /\ records' = [t \in Tables |-> records[t] \ {h}]

ANext ==
    \/ \E n \in Numbers, v \in Hashes \cup {None} : SetCanonical(n, v)
    \/ \E h \in Hashes, w \in BOOLEAN : AddRecords(h, w)
    \/ \E h \in Hashes, w \in BOOLEAN : RemoveRecords(h, w)

ASpec == AInit /\ [][ANext]_avars

=============================================================================
