----------------------------- MODULE HeadReaders -----------------------------
(***************************************************************************)
(* The head pointers of core/rawdb/accessors_chain.go and the readers      *)
(* built on them.  ReadHeadHeader and ReadHeadBlock read the head hash     *)
(* (headHeaderKey, headBlockKey), look its number up with ReadHeaderNumber *)
(* and then read the header (ReadHeader) or the block (ReadBlock) through  *)
(* the probes of ChainReaders.  Each of these database accesses is one     *)
(* step, so the import pipeline, a reorg or the freezer may act between    *)
(* any two of them.                                                        *)
(*                                                                         *)
(* The chain's contract with this layer is part of the model: a head       *)
(* pointer is moved only to a block whose header, body and number entry    *)
(* are written and whose canonical entry is set, the block a head pointer  *)
(* names is not deleted while it does, and the freezer only freezes        *)
(* numbers at least Threshold below the head block.                        *)
(***************************************************************************)
EXTENDS ChainReaders

CONSTANT Threshold   \* the immutability threshold (90000 in the node)

ASSUME Threshold \in Nat \ {0}

\* The head pointers modelled: headHeaderKey and headBlockKey.
HeadKinds == {"header", "block"}

\* The read each head accessor ends with.
HeadRead == [header |-> "ReadHeaderRLP", block |-> "ReadBlock"]

ASSUME \A k \in HeadKinds : HeadRead[k] \in Ops

VARIABLES
    head,  \* head[k]: the hash stored under the head key of kind k
    hd     \* hd[r]: reader r's ReadHeadHeader / ReadHeadBlock call

hvars == <<storeVars, rd, head, hd>>

HeadPcs == {"idle", "pointer", "number", "read", "done"}

HeadTypeOK ==
    /\ TypeOK
    /\ head \in [HeadKinds -> Hashes]
    /\ hd \in [Readers -> [kind : HeadKinds, pc : HeadPcs, h : Hashes \cup {None},
                           avail : BOOLEAN, disturbed : BOOLEAN]]

HeadInit ==
    /\ StoreInit
    /\ rd = [r \in Readers |-> [Call(HeadRead["header"], Genesis, 0) EXCEPT !.pc = "idle"]]
    /\ head = [k \in HeadKinds |-> Genesis]
    /\ hd = [r \in Readers |-> [kind |-> "header", pc |-> "idle", h |-> None,
                                avail |-> FALSE, disturbed |-> FALSE]]

-----------------------------------------------------------------------------
(* The single-key accessors.                                               *)

\* ReadHeadHeaderHash and ReadHeadBlockHash: the stored hash, the zero hash
\* (None) when the key is empty.
ReadHeadHeaderHash == head["header"]
ReadHeadBlockHash == head["block"]

ReadHeadHash(k) == IF k = "header" THEN ReadHeadHeaderHash ELSE ReadHeadBlockHash

\* ReadHeaderNumber: the number under headerNumberKey(hash), nil without
\* one.  The stored number is the block's (WriteHeaderNumber).
ReadHeaderNumber(h) == IF h \in numIdx THEN Num[h] ELSE None

\* Whether block h is at least Threshold above every frozen number: the
\* chain never rewinds its heads into the frozen part.
AboveFrozen(h) == Len(ancient) + Threshold <= Num[h] + 1

\* WriteHeadHeaderHash and WriteHeadBlockHash, called by the chain once the
\* block is written and made canonical.
WriteHeadHeaderHash(h) ==
    /\ AboveFrozen(h)
    /\ h \in live["header"] /\ h \in numIdx /\ canon[Num[h]] = h
    /\ head' = [head EXCEPT !["header"] = h]
    /\ UNCHANGED <<storeVars, rd, hd>>

WriteHeadBlockHash(h) ==
    /\ AboveFrozen(h)
    /\ h \in live["header"] /\ h \in live["body"] /\ h \in numIdx /\ canon[Num[h]] = h
    /\ head' = [head EXCEPT !["block"] = h]
    /\ UNCHANGED <<storeVars, rd, hd>>

-----------------------------------------------------------------------------
(* The composite readers.                                                  *)

\* Whether the data ReadHeadHeader / ReadHeadBlock needs for head hash h is
\* in store s: the number entry and the header (and body) in either tier.
HeadAvailable(s, num, k, h) ==
    h \in num /\ Available(s, HeadRead[k], h, Num[h])

StartHeadRead(r) ==
    /\ hd[r].pc \in {"idle", "done"}
    /\ \E k \in HeadKinds :
          hd' = [hd EXCEPT ![r] = [kind |-> k, pc |-> "pointer", h |-> None,
                                   avail |-> FALSE, disturbed |-> FALSE]]
    /\ UNCHANGED <<storeVars, rd, head>>

\* headHash := ReadHeadHeaderHash(db) (or ReadHeadBlockHash); the zero hash
\* returns nil.
ReadPointer(r) ==
    LET c == hd[r]
        h == ReadHeadHash(c.kind)
    IN  /\ c.pc = "pointer"
        /\ hd' = [hd EXCEPT ![r].h = h,
                            ![r].pc = IF h = None THEN "done" ELSE "number",
                            ![r].avail = HeadAvailable(Store, numIdx, c.kind, h)]
        /\ UNCHANGED <<storeVars, rd, head>>

\* number := ReadHeaderNumber(db, headHash); nil returns nil; otherwise
\* return ReadHeader(db, headHash, number) (or ReadBlock).
ReadNumber(r) ==
    LET c == hd[r]
        n == ReadHeaderNumber(c.h)
    IN  /\ c.pc = "number"
        /\ IF n = None
           THEN /\ hd' = [hd EXCEPT ![r].pc = "done"]
                /\ UNCHANGED rd
           ELSE /\ hd' = [hd EXCEPT ![r].pc = "read"]
                /\ rd' = [rd EXCEPT ![r] = Call(HeadRead[c.kind], c.h, n)]
        /\ UNCHANGED <<storeVars, head>>

\* The result of a head read: nil from an early return, or what the final
\* ReadHeader / ReadBlock returned.
HeadDone(r) == hd[r].pc = "done" \/ (hd[r].pc = "read" /\ rd[r].pc = "done")
HeadOut(r) == IF hd[r].pc = "done" THEN None ELSE rd[r].out

\* A head read is disturbed when a delete of the import pipeline or a reorg
\* removes the number entry or the data of the hash it read before the
\* final read starts (ChainReaders tracks the final read).  The freezer
\* moving data disturbs nothing.
ObserveHead(byImport) ==
    hd' = [r \in Readers |->
             IF hd[r].pc = "number" /\ byImport
             THEN [hd[r] EXCEPT !.disturbed =
                     @ \/ ~HeadAvailable(Store', numIdx', hd[r].kind, hd[r].h)]
             ELSE hd[r]]

\* The chain never deletes the blocks the head pointers name.
HeadsKept ==
    \A k \in HeadKinds : HeadAvailable(Store', numIdx', k, head[k])

\* The freezer freezes only numbers at least Threshold below the heads.
BelowThreshold == \A k \in HeadKinds : Len(ancient') + Threshold <= Num[head[k]] + 1

HeadNext ==
    \/ ImportStep /\ HeadsKept /\ Observe(TRUE) /\ ObserveHead(TRUE) /\ UNCHANGED head
    \/ FreezerStep /\ BelowThreshold /\ Observe(FALSE) /\ ObserveHead(FALSE) /\ UNCHANGED head
    \/ \E h \in Hashes : WriteHeadHeaderHash(h) \/ WriteHeadBlockHash(h)
    \/ \E r \in Readers :
          \/ StartHeadRead(r) \/ ReadPointer(r) \/ ReadNumber(r)
          \/ (ReadHeaderRLP(r) \/ ReadBody(r)) /\ UNCHANGED <<head, hd>>

HeadSpec == HeadInit /\ [][HeadNext]_hvars

-----------------------------------------------------------------------------
(* Properties.                                                             *)

\* ReadHeadHeader and ReadHeadBlock find the head they read: when the
\* header (and body) and the number entry of the hash read from the head
\* key were in one of the tiers and stayed there until the call returned,
\* the call returns them, even when the head has moved on and the freezer
\* has frozen the block and deleted its live copy in between.
HeadFound ==
    \A r \in Readers :
        ( /\ HeadDone(r) /\ hd[r].h # None /\ hd[r].avail /\ ~hd[r].disturbed
          /\ (hd[r].pc = "read" => ~rd[r].disturbed) )
        => HeadOut(r) # None

=============================================================================
