----------------------------- MODULE ChainStore -----------------------------
(***************************************************************************)
(* The two storage tiers of core/rawdb/accessors_chain.go and the calls    *)
(* that change them.                                                       *)
(*                                                                         *)
(* The live key/value store holds, per table, the records keyed by         *)
(* (number, hash), the hash->number index and the canonical number->hash  *)
(* index.  The ancient store ("freezer") holds the canonical chain from    *)
(* block 0 upward, one entry per number in each of its parallel tables,   *)
(* written only by WriteAncientBlocks and never rewritten.                 *)
(*                                                                         *)
(* Data is abstracted to its identity: a block hash determines the block's *)
(* number and the bytes of its header, body, receipts and total            *)
(* difficulty, so a record is the hash it belongs to and a read returns    *)
(* the hash whose data it found, or None.                                  *)
(***************************************************************************)
EXTENDS Naturals, Sequences, FiniteSets

CONSTANTS
    Hashes,     \* block hashes
    Genesis,    \* hash of the genesis block, written at start-up
    Num,        \* Num[h]: the number in the header of block h
    Tables,     \* the (number, hash)-keyed tables modelled, a subset of AllTables
    None,       \* the absent value: an empty byte slice or the zero hash
    MaxBatch,   \* most blocks one WriteAncientBlocks call appends
    MaxFrozen   \* bound on the length of the ancient store

AllTables == {"header", "body", "receipts", "td"}

ASSUME /\ Genesis \in Hashes
       /\ Num \in [Hashes -> Nat] /\ Num[Genesis] = 0
       /\ {"header", "body"} \subseteq Tables /\ Tables \subseteq AllTables
       /\ None \notin Hashes
       /\ MaxBatch \in Nat \ {0} /\ MaxFrozen \in Nat

Numbers == {Num[h] : h \in Hashes}

VARIABLES
    live,     \* live[t]: hashes whose table-t record is in the key/value store
    numIdx,   \* hashes with a hash->number entry (headerNumberKey)
    canon,    \* canon[n]: hash stored under headerHashKey(n), or None
    ancient,  \* ancient[n+1]: hash of block n in the freezer hash table; the
              \* header, body, receipts and td tables hold that block's data
    cleaned   \* numbers below cleaned have had their live copies removed

storeVars == <<live, numIdx, canon, ancient, cleaned>>

\* The store as one record, so that predicates can be evaluated in the next
\* state as Store'.
Store == [live |-> live, canon |-> canon, ancient |-> ancient]

StoreTypeOK ==
    /\ live \in [Tables -> SUBSET Hashes]
    /\ numIdx \subseteq Hashes
    /\ canon \in [Numbers -> Hashes \cup {None}]
    /\ ancient \in Seq(Hashes) /\ Len(ancient) <= MaxFrozen
    /\ cleaned \in 0..Len(ancient)

\* The genesis block as the node writes it at start-up: all of its records,
\* its number entry and its canonical entry, in the live store.
StoreInit ==
    /\ live = [t \in Tables |-> {Genesis}]
    /\ numIdx = {Genesis}
    /\ canon = [n \in Numbers |-> IF n = 0 THEN Genesis ELSE None]
    /\ ancient = << >>
    /\ cleaned = 0

-----------------------------------------------------------------------------
(* The two tiers as the readers see them.                                  *)

\* db.Ancient(kind, number) returns data exactly for the frozen numbers.
Frozen(s, n) == n < Len(s.ancient)
AncientHash(s, n) == s.ancient[n + 1]

\* Whether the record of table t for block h can be found in either tier: in
\* the live store, or in the ancient store where h is the frozen block.
RecordAvailable(s, t, h) ==
    \/ h \in s.live[t]
    \/ Frozen(s, Num[h]) /\ AncientHash(s, Num[h]) = h

\* Whether the canonical hash of number n can be found in either tier.
CanonAvailable(s, n) == s.canon[n] # None \/ Frozen(s, n)

\* Whether block h is the one the ancient store holds at its number.
IsFrozenBlock(h) == Frozen(Store, Num[h]) /\ AncientHash(Store, Num[h]) = h

-----------------------------------------------------------------------------
(* Writers of the live store.  Each is called with a database batch by the *)
(* block import pipeline, so the puts of one call land together.  Writers   *)
(* never touch the genesis block, and the chain never changes the canonical *)
(* entry of a number the freezer already holds, nor deletes a block it     *)
(* holds (the freezer only takes blocks below the immutability threshold,  *)
(* which the chain never rewinds past).                                    *)

\* WriteCanonicalHash stores the hash assigned to a canonical block number.
WriteCanonicalHash(h) ==
    /\ ~Frozen(Store, Num[h])
    /\ canon' = [canon EXCEPT ![Num[h]] = h]
    /\ UNCHANGED <<live, numIdx, ancient, cleaned>>

\* DeleteCanonicalHash removes the number to hash canonical mapping.
DeleteCanonicalHash(n) ==
    /\ ~Frozen(Store, n)
    /\ canon' = [canon EXCEPT ![n] = None]
    /\ UNCHANGED <<live, numIdx, ancient, cleaned>>

\* Mutation: WriteHeader without its WriteHeaderNumber.
WriteBlockNoNumber(h) ==
    /\ live' = [live EXCEPT !["body"] = @ \cup {h}, !["header"] = @ \cup {h}]
    /\ UNCHANGED <<numIdx, canon, ancient, cleaned>>

\* WriteBlock: WriteBody, then WriteHeader, which writes the hash->number
\* mapping before the encoded header.
WriteBlock(h) ==
    /\ live' = [live EXCEPT !["body"] = @ \cup {h}, !["header"] = @ \cup {h}]
    /\ numIdx' = numIdx \cup {h}
    /\ UNCHANGED <<canon, ancient, cleaned>>

\* WriteReceipts and WriteTd each put one record.
WriteReceipts(h) ==
    /\ "receipts" \in Tables
    /\ live' = [live EXCEPT !["receipts"] = @ \cup {h}]
    /\ UNCHANGED <<numIdx, canon, ancient, cleaned>>

WriteTd(h) ==
    /\ "td" \in Tables
    /\ live' = [live EXCEPT !["td"] = @ \cup {h}]
    /\ UNCHANGED <<numIdx, canon, ancient, cleaned>>

\* DeleteBlock: DeleteReceipts, DeleteHeader (header and hash->number),
\* DeleteBody, DeleteTd.
DeleteBlock(h) ==
    /\ ~IsFrozenBlock(h)
    /\ live' = [t \in Tables |-> live[t] \ {h}]
    /\ numIdx' = numIdx \ {h}
    /\ UNCHANGED <<canon, ancient, cleaned>>

\* DeleteBlockWithoutNumber: the same, but deleteHeaderWithoutNumber keeps
\* the hash->number mapping.
DeleteBlockWithoutNumber(h) ==
    /\ ~IsFrozenBlock(h)
    /\ live' = [t \in Tables |-> live[t] \ {h}]
    /\ UNCHANGED <<numIdx, canon, ancient, cleaned>>

-----------------------------------------------------------------------------
(* The freezer: a single background goroutine, not synchronised with any   *)
(* reader, that appends the oldest canonical blocks to the ancient store   *)
(* and afterwards removes their live copies.                               *)

\* Mutation: the freezer appends the number's canonical entry without
\* checking that the entry and the block's live data exist.
WriteAncientBlocksUnchecked ==
    \E k \in 1..MaxBatch :
        LET first == Len(ancient) IN
        /\ first + k <= MaxFrozen
        /\ ancient' = ancient \o [i \in 1..k |-> canon[first + i - 1]]
        /\ UNCHANGED <<live, numIdx, canon, cleaned>>

\* WriteAncientBlocks appends, inside one ModifyAncients operation, k
\* contiguous canonical blocks read from the live store: for each block the
\* hash, header, body, receipts and total difficulty (writeAncientBlock).  An
\* append that fails aborts the whole operation, so a call lands entirely.
WriteAncientBlocks ==
    \E k \in 1..MaxBatch :
        LET first == Len(ancient)
            nums  == first .. (first + k - 1)
        IN  /\ first + k <= MaxFrozen
            /\ \A n \in nums :
                  /\ n \in Numbers
                  /\ canon[n] # None
                  /\ \A t \in Tables : canon[n] \in live[t]
            /\ ancient' = ancient \o [i \in 1..k |-> canon[first + i - 1]]
            /\ UNCHANGED <<live, numIdx, canon, cleaned>>

\* Mutation: the live copies are removed with DeleteBlock, which also drops
\* the hash->number entry.
FreezerDeleteWithNumber ==
    /\ cleaned < Len(ancient)
    /\ LET h == AncientHash(Store, cleaned) IN
          /\ live' = [t \in Tables |-> live[t] \ {h}]
          /\ numIdx' = numIdx \ {h}
    /\ canon' = [canon EXCEPT ![cleaned] = None]
    /\ cleaned' = cleaned + 1
    /\ UNCHANGED ancient

\* Once a block is in the ancient store the freezer deletes its live copy
\* with DeleteBlockWithoutNumber and its canonical entry with
\* DeleteCanonicalHash, one number at a time, oldest first.
FreezerDelete ==
    /\ cleaned < Len(ancient)
    /\ LET h == AncientHash(Store, cleaned) IN
          live' = [t \in Tables |-> live[t] \ {h}]
    /\ canon' = [canon EXCEPT ![cleaned] = None]
    /\ cleaned' = cleaned + 1
    /\ UNCHANGED <<numIdx, ancient>>

\* Steps of the import pipeline and of chain reorganisation.
ImportStep ==
    \E h \in Hashes \ {Genesis} :
        \/ WriteCanonicalHash(h)
        \/ DeleteCanonicalHash(Num[h])
        \/ WriteBlock(h)
        \/ WriteReceipts(h)
        \/ WriteTd(h)
        \/ DeleteBlock(h)
        \/ DeleteBlockWithoutNumber(h)

FreezerStep == WriteAncientBlocks \/ FreezerDelete

-----------------------------------------------------------------------------
(* Properties of the store.                                                *)

\* Every header that can be read from either tier can also be located by
\* hash: ReadHeaderNumber finds its number in the live store.  The freezer
\* removes the live copy of a frozen block with DeleteBlockWithoutNumber
\* precisely so that ReadHeadHeader and ReadHeadBlock, which look the number
\* up first, still work for frozen blocks.
HeaderNumberResolvable ==
    \A h \in Hashes : RecordAvailable(Store, "header", h) => h \in numIdx

=============================================================================
