------------------------------ MODULE BadBlocks ------------------------------
(***************************************************************************)
(* The bad-block list of core/rawdb/accessors_chain.go: one RLP list under *)
(* badBlockKey, kept sorted by number in descending order, without         *)
(* duplicates, and cut to badBlockToKeep entries.  WriteBadBlock loads the *)
(* list, appends, sorts, truncates and stores it back; DeleteBadBlocks     *)
(* drops the whole list.  A block is its hash; BNum gives its number.      *)
(***************************************************************************)
EXTENDS Naturals, Sequences, FiniteSets, SequencesExt

CONSTANTS
    Blocks,          \* hashes of the blocks that may be reported bad
    BNum,            \* BNum[b]: the number in the header of block b
    BadBlockToKeep   \* badBlockToKeep (10 in the code)

ASSUME /\ BNum \in [Blocks -> Nat]
       /\ BadBlockToKeep \in Nat \ {0}

VARIABLES
    badBlocks,  \* the list stored under badBlockKey
    recorded    \* history: the distinct blocks written since the last delete

vars == <<badBlocks, recorded>>

\* The stored list is a list of blocks no longer than badBlockToKeep.
TypeOK ==
    /\ badBlocks \in Seq(Blocks) /\ Len(badBlocks) <= BadBlockToKeep
    /\ recorded \subseteq Blocks

Init ==
    /\ badBlocks = << >>
    /\ recorded = {}

\* The orderings of the entries of list s, duplicates kept.
Reorderings(s) == { [i \in 1..Len(s) |-> s[p[i]]] : p \in SetToSeqs(1..Len(s)) }

\* sort.Sort(sort.Reverse(badBlocks)): the orderings of s that are
\* non-increasing in the header number.  sort.Sort is not stable, so blocks
\* of equal number may end up in any order.
SortedByNumberDesc(s) ==
    { p \in Reorderings(s) :
        \A i \in 1..(Len(p) - 1) : BNum[p[i]] >= BNum[p[i + 1]] }

\* Mutation: sort.Sort without sort.Reverse, in ascending order.
SortedByNumberAsc(s) ==
    { p \in Reorderings(s) :
        \A i \in 1..(Len(p) - 1) : BNum[p[i]] <= BNum[p[i + 1]] }

\* Mutation: the duplicate check is left out.
WriteBadBlockNoDedup(b) ==
    \E sorted \in SortedByNumberDesc(Append(badBlocks, b)) :
        /\ badBlocks' = IF Len(sorted) > BadBlockToKeep
                        THEN SubSeq(sorted, 1, BadBlockToKeep) ELSE sorted
        /\ recorded' = recorded \cup {b}

\* Mutation: the list is truncated one entry too late.
WriteBadBlockOffByOne(b) ==
    /\ b \notin ToSet(badBlocks)
    /\ \E sorted \in SortedByNumberDesc(Append(badBlocks, b)) :
          badBlocks' = IF Len(sorted) > BadBlockToKeep + 1
                       THEN SubSeq(sorted, 1, BadBlockToKeep + 1) ELSE sorted
    /\ recorded' = recorded \cup {b}

\* Mutation: the list is sorted in ascending order before the cut.
WriteBadBlockAscending(b) ==
    /\ b \notin ToSet(badBlocks)
    /\ \E sorted \in SortedByNumberAsc(Append(badBlocks, b)) :
          badBlocks' = IF Len(sorted) > BadBlockToKeep
                       THEN SubSeq(sorted, 1, BadBlockToKeep) ELSE sorted
    /\ recorded' = recorded \cup {b}

\* WriteBadBlock: a block already in the list (same number and hash) is
\* skipped; otherwise it is appended, the list is sorted by number in
\* reverse, cut to badBlockToKeep entries and written back.  The first
\* conjunct is the duplicate check; the early return leaves the store
\* unchanged.
WriteBadBlock(b) ==
    \/ /\ b \in ToSet(badBlocks)
       /\ UNCHANGED badBlocks
       /\ recorded' = recorded \cup {b}
    \/ /\ b \notin ToSet(badBlocks)
       /\ \E sorted \in SortedByNumberDesc(Append(badBlocks, b)) :
             badBlocks' = IF Len(sorted) > BadBlockToKeep
                          THEN SubSeq(sorted, 1, BadBlockToKeep) ELSE sorted
       /\ recorded' = recorded \cup {b}

\* DeleteBadBlocks deletes badBlockKey: the whole list at once.
DeleteBadBlocks ==
    /\ badBlocks # << >>
    /\ badBlocks' = << >>
    /\ recorded' = {}

\* ReadAllBadBlocks decodes and returns the stored list as it is.
ReadAllBadBlocks == badBlocks

\* Mutation: the scan starts at the second entry.
ReadBadBlockSkipFirst(h) == \E i \in 2..Len(badBlocks) : badBlocks[i] = h

\* ReadBadBlock scans the stored list for an entry with the hash: whether
\* it returns a block.
ReadBadBlock(h) == \E i \in DOMAIN badBlocks : badBlocks[i] = h

Next ==
    \/ \E b \in Blocks : WriteBadBlock(b)
    \/ DeleteBadBlocks

Spec == Init /\ [][Next]_vars

-----------------------------------------------------------------------------
(* Properties.                                                             *)

\* The list ReadAllBadBlocks returns holds each (number, hash) at most once
\* and is in descending number order, after any sequence of WriteBadBlock
\* calls, repeated and evicted blocks included.
WellFormed ==
    /\ \A i, j \in DOMAIN ReadAllBadBlocks : i # j => badBlocks[i] # badBlocks[j]
    /\ \A i \in 1..(Len(badBlocks) - 1) : BNum[badBlocks[i]] >= BNum[badBlocks[i + 1]]

\* Retention: the list holds as many of the blocks written since the last
\* delete as it can, and a written block ReadBadBlock no longer finds was
\* dropped only in favour of blocks with the same or a higher number: "the
\* oldest will be dropped".  This holds across evictions and re-reports of
\* evicted blocks.
RetainsHighest ==
    /\ Len(badBlocks) = IF Cardinality(recorded) < BadBlockToKeep
                        THEN Cardinality(recorded) ELSE BadBlockToKeep
    /\ \A d, k \in recorded :
          ~ReadBadBlock(d) /\ ReadBadBlock(k) => BNum[d] <= BNum[k]

=============================================================================
