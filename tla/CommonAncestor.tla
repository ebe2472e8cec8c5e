--------------------------- MODULE CommonAncestor ---------------------------
(***************************************************************************)
(* FindCommonAncestor of core/rawdb/accessors_chain.go, walking parent     *)
(* links through ReadHeader while the import pipeline, reorgs and the      *)
(* freezer of ChainStore change the store.  Each ReadHeader call is one    *)
(* step; the probes inside it are taken together (ChainReaders checks them *)
(* one by one), so its third probe coincides with the first.               *)
(***************************************************************************)
EXTENDS ChainStore

CONSTANT Parent   \* Parent[h]: the ParentHash in h's header (None for genesis)

ASSUME /\ Parent \in [Hashes -> Hashes \cup {None}]
       /\ Parent[Genesis] = None
       /\ \A h \in Hashes \ {Genesis} : Parent[h] # None /\ Num[Parent[h]] + 1 = Num[h]

VARIABLE wk   \* the caller's FindCommonAncestor call

vars == <<storeVars, wk>>

Pcs == {"idle", "raiseA", "raiseB", "stepA", "stepB", "done"}

TypeOK ==
    /\ StoreTypeOK
    /\ wk \in [pc : Pcs, a0 : Hashes, b0 : Hashes, a : Hashes, b : Hashes,
               res : Hashes \cup {None}, avail : BOOLEAN, disturbed : BOOLEAN]

\* The ancestors of h, h included, along the parent links of the headers.
RECURSIVE Ancestors(_)
Ancestors(h) == IF h = None THEN {} ELSE {h} \cup Ancestors(Parent[h])

\* The last common ancestor: the highest block both descend from.
LCA(x, y) ==
    CHOOSE c \in Ancestors(x) \cap Ancestors(y) :
        \A d \in Ancestors(x) \cap Ancestors(y) : Num[d] <= Num[c]

\* The headers the walk from x and y reads: the proper ancestors of each
\* down to the height of the last common ancestor.
WalkPath(x, y) ==
    { d \in (Ancestors(x) \ {x}) \cup (Ancestors(y) \ {y}) :
        Num[d] >= Num[LCA(x, y)] }

PathAvailable(s, x, y) ==
    \A d \in WalkPath(x, y) : RecordAvailable(s, "header", d)

Init ==
    /\ StoreInit
    /\ wk = [pc |-> "idle", a0 |-> Genesis, b0 |-> Genesis, a |-> Genesis,
             b |-> Genesis, res |-> None, avail |-> FALSE, disturbed |-> FALSE]

-----------------------------------------------------------------------------

\* ReadHeader(hash, number): the frozen header at the number if there is
\* one, with no hash comparison (ReadHeaderRLP), else the live header under
\* (number, hash), else nil.  The parent hash of genesis is the zero hash,
\* and its number 0 - 1 wraps to 2^64 - 1: no header is found.
ReadHeader(h, n) ==
    IF h = None THEN None
    ELSE IF Frozen(Store, n) THEN AncientHash(Store, n)
    ELSE IF h \in live["header"] THEN h
    ELSE None

\* The caller passes two headers it holds.
StartWalk ==
    /\ wk.pc \in {"idle", "done"}
    /\ \E x, y \in Hashes :
          wk' = [pc |-> "raiseA", a0 |-> x, b0 |-> y, a |-> x, b |-> y,
                 res |-> None, avail |-> PathAvailable(Store, x, y),
                 disturbed |-> FALSE]
    /\ UNCHANGED storeVars

\* Mutation: the nil check after ReadHeader is dropped.
StepNoNilCheck(side, next, nextPc) ==
    wk' = [wk EXCEPT ![side] = next, !.pc = nextPc]

\* One parent lookup of the walk: nil ends the call with nil.
Step(side, next, nextPc) ==
    IF next = None THEN wk' = [wk EXCEPT !.pc = "done", !.res = None]
    ELSE wk' = [wk EXCEPT ![side] = next, !.pc = nextPc]

\* Mutation: the first loop runs while a is not below b.
RaiseANotBelow ==
    /\ wk.pc = "raiseA"
    /\ IF Num[wk.a] >= Num[wk.b]
       THEN Step("a", ReadHeader(Parent[wk.a], Num[wk.a] - 1), "raiseA")
       ELSE wk' = [wk EXCEPT !.pc = "raiseB"]
    /\ UNCHANGED storeVars

\* First loop: while a is above b's number, a = ReadHeader(a.ParentHash).
RaiseA ==
    /\ wk.pc = "raiseA"
    /\ IF Num[wk.a] > Num[wk.b]
       THEN Step("a", ReadHeader(Parent[wk.a], Num[wk.a] - 1), "raiseA")
       ELSE wk' = [wk EXCEPT !.pc = "raiseB"]
    /\ UNCHANGED storeVars

\* Second loop: while b is above a's number, b = ReadHeader(b.ParentHash).
RaiseB ==
    /\ wk.pc = "raiseB"
    /\ IF Num[wk.a] < Num[wk.b]
       THEN Step("b", ReadHeader(Parent[wk.b], Num[wk.b] - 1), "raiseB")
       ELSE wk' = [wk EXCEPT !.pc = "stepA"]
    /\ UNCHANGED storeVars

\* Mutation: the lockstep loop compares numbers instead of hashes.
StepANumbers ==
    /\ wk.pc = "stepA"
    /\ IF Num[wk.a] # Num[wk.b]
       THEN Step("a", ReadHeader(Parent[wk.a], Num[wk.a] - 1), "stepB")
       ELSE wk' = [wk EXCEPT !.pc = "done", !.res = wk.a]
    /\ UNCHANGED storeVars

\* Third loop: while a.Hash() != b.Hash(), step a and then b to their
\* parents; once equal, return a.
StepA ==
    /\ wk.pc = "stepA"
    /\ IF wk.a # wk.b
       THEN Step("a", ReadHeader(Parent[wk.a], Num[wk.a] - 1), "stepB")
       ELSE wk' = [wk EXCEPT !.pc = "done", !.res = wk.a]
    /\ UNCHANGED storeVars

StepB ==
    /\ wk.pc = "stepB"
    /\ Step("b", ReadHeader(Parent[wk.b], Num[wk.b] - 1), "stepA")
    /\ UNCHANGED storeVars

\* A store step during a walk disturbs it when a header the walk still
\* needs stops being available in both tiers.
ObserveStore ==
    wk' = IF wk.pc \in {"idle", "done"} THEN wk
          ELSE [wk EXCEPT !.disturbed =
                  @ \/ ~PathAvailable(Store', wk.a0, wk.b0)]

Next ==
    \/ (ImportStep \/ FreezerStep) /\ ObserveStore
    \/ StartWalk \/ RaiseA \/ RaiseB \/ StepA \/ StepB

Spec == Init /\ [][Next]_vars

-----------------------------------------------------------------------------
(* Properties.                                                             *)

\* A header FindCommonAncestor returns is the last common ancestor of the
\* two headers it was given: the block at the fork point, by hash.
AncestorIsLCA ==
    wk.pc = "done" /\ wk.res # None => wk.res = LCA(wk.a0, wk.b0)

\* FindCommonAncestor fails only when a parent lookup misses: when every
\* header between the two given ones and their fork point was stored when
\* the call started and stayed stored throughout, it returns a header.
AncestorFound ==
    wk.pc = "done" /\ wk.avail /\ ~wk.disturbed => wk.res # None

=============================================================================
