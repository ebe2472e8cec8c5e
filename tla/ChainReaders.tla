---------------------------- MODULE ChainReaders ----------------------------
(***************************************************************************)
(* Readers of the two-tier store, running concurrently with the import     *)
(* pipeline and the freezer of ChainStore.  Every database access of a     *)
(* read accessor is one step, so the freezer and the writers can act       *)
(* between any two probes of one read, as the code allows: the accessors   *)
(* take no lock and the freezer does not coordinate with readers.          *)
(***************************************************************************)
EXTENDS StoreRefinement

CONSTANTS
    Readers,    \* reader goroutines
    Ops         \* the accessors the readers call

\* The tables each read accessor goes through, in order.  "canon" stands for
\* the number->hash tables, freezerHashTable and headerHashKey.
\* ReadBlock reads the header, returning nil if it is missing, then the body.
ReadBlockTables == <<"header", "body">>

\* ReadReceipts reads the raw receipts (ReadRawReceipts), returning nil if
\* they are missing, then the body through ReadBody, returning nil ("Missing
\* body but have receipt") if it is missing; the fields are then derived
\* from the body's transactions.
ReadReceiptsTables == <<"receipts", "body">>

\* Each other accessor reads one table; ReadCanonicalBodyRLP reads the
\* canonical hash before the body (see below).
Program ==
    [ReadHeaderRLP     |-> <<"header">>,
     ReadBodyRLP       |-> <<"body">>,
     ReadReceiptsRLP   |-> <<"receipts">>,
     ReadTdRLP         |-> <<"td">>,
     ReadBlock         |-> ReadBlockTables,
     ReadReceipts      |-> ReadReceiptsTables,
     ReadCanonicalHash |-> <<"canon">>,
     ReadCanonicalBodyRLP |-> <<"canon">>]

\* Existence checks and the table each consults.
HasTable == [HasHeader |-> "header", HasBody |-> "body", HasReceipts |-> "receipts"]

ProgramOps == DOMAIN Program
HasOps == DOMAIN HasTable
NumberOps == {"ReadCanonicalHash", "ReadCanonicalBodyRLP"}

ASSUME /\ Ops \subseteq ProgramOps \cup HasOps
       /\ \A op \in Ops \cap ProgramOps :
             \A i \in DOMAIN Program[op] : Program[op][i] \in Tables \cup {"canon"}
       /\ \A op \in Ops \cap HasOps : HasTable[op] \in Tables

VARIABLE rd  \* rd[r]: the call reader r is executing and where it is in it

vars == <<storeVars, rd>>

Pcs == {"idle", "cbAncient1", "ancient1", "live", "ancient2", "cbLive", "cbAncient2", "done"}

TypeOK ==
    /\ StoreTypeOK
    /\ rd \in [Readers ->
                 [op : Ops, h : Hashes \cup {None}, n : Numbers, pc : Pcs,
                  todo : Seq(Tables \cup {"canon"}), got : Seq(Hashes),
                  out : Seq(Hashes) \cup {None},
                  avail : BOOLEAN, disturbed : BOOLEAN, moved : BOOLEAN]]

\* Whether the data a call of op asks for is in one of the tiers of store s.
Available(s, op, h, n) ==
    CASE op \in HasOps ->
            RecordAvailable(s, HasTable[op], h)
      [] op = "ReadCanonicalBodyRLP" ->
            Frozen(s, n) \/ (s.canon[n] # None /\ s.canon[n] \in s.live["body"])
      [] OTHER ->
            \A i \in DOMAIN Program[op] :
               IF Program[op][i] = "canon" THEN CanonAvailable(s, n)
                                           ELSE RecordAvailable(s, Program[op][i], h)

Init ==
    /\ StoreInit
    /\ rd = [r \in Readers |->
               [op |-> CHOOSE op \in Ops : TRUE, h |-> None, n |-> 0,
                pc |-> "idle", todo |-> << >>, got |-> << >>, out |-> None,
                avail |-> FALSE, disturbed |-> FALSE, moved |-> FALSE]]

-----------------------------------------------------------------------------
(* The probes.                                                             *)

\* db.Ancient(table, number); when checked, accepted only if
\* db.Ancient(freezerHashTable, number) is the requested hash.
AncientProbe(checked, h, n) ==
    IF Frozen(Store, n) /\ (~checked \/ AncientHash(Store, n) = h)
    THEN AncientHash(Store, n)
    ELSE None

\* db.Ancient(freezerBodiesTable, number) with no hash check.
AncientBody(n) == IF Frozen(Store, n) THEN AncientHash(Store, n) ELSE None

\* db.Get(key): headerHashKey(n) for "canon", else the (number, hash) key.
LiveProbe(t, h, n) ==
    IF t = "canon" THEN canon[n]
    ELSE IF h \in live[t] THEN h ELSE None

-----------------------------------------------------------------------------
(* Reader steps.                                                           *)

\* A call of accessor op with hash h and number n, as it starts.
Call(op, h, n) ==
    [op |-> op, h |-> h, n |-> n,
     pc |-> IF op = "ReadCanonicalBodyRLP" THEN "cbAncient1" ELSE "ancient1",
     todo |-> IF op \in ProgramOps THEN Program[op] ELSE << >>,
     got |-> << >>, out |-> None,
     avail |-> Available(Store, op, h, n),
     disturbed |-> FALSE, moved |-> FALSE]

\* A reader calls an accessor with a hash and its number, or with a number.
StartRead(r) ==
    /\ rd[r].pc \in {"idle", "done"}
    /\ \E op \in Ops, h \in Hashes, n \in Numbers :
          IF op \in NumberOps THEN rd' = [rd EXCEPT ![r] = Call(op, None, n)]
                              ELSE rd' = [rd EXCEPT ![r] = Call(op, h, Num[h])]
    /\ UNCHANGED storeVars

\* Where a program read goes once its last table has been read.
Finished(op) == IF op = "ReadCanonicalBodyRLP" THEN "cbLive" ELSE "done"

\* The result of a probe: a hit moves to the next table (or finishes); a
\* miss moves to the next probe of the same table, and a miss in the last
\* probe ends the call with nil.
ProbeResult(r, v, missPc) ==
    LET c == rd[r] IN
    IF v # None
    THEN LET got == Append(c.got, v) IN
         rd' = [rd EXCEPT ![r].got = got, ![r].todo = Tail(c.todo),
                          ![r].pc = IF Len(c.todo) = 1 THEN Finished(c.op) ELSE "ancient1",
                          ![r].out = IF Len(c.todo) = 1 THEN got ELSE None]
    ELSE rd' = [rd EXCEPT ![r].pc = IF missPc = "done" THEN Finished(c.op) ELSE missPc]

\* Mutation: the third probe is left out, so a miss in the live store ends
\* the read.
ReadStepNoRecheck(r, t, checked) ==
    LET c == rd[r] IN
    /\ c.todo # << >> /\ Head(c.todo) = t
    /\ \/ c.pc = "ancient1" /\ ProbeResult(r, AncientProbe(checked, c.h, c.n), "live")
       \/ c.pc = "live"     /\ ProbeResult(r, LiveProbe(t, c.h, c.n), "done")
    /\ UNCHANGED storeVars

\* One probe of the read of table t: the ancient store, then the live store,
\* then the ancient store once more, for a record the freezer moved between
\* the first two probes ("the data was already moved").
ReadStep(r, t, checked) ==
    LET c == rd[r] IN
    /\ c.todo # << >> /\ Head(c.todo) = t
    /\ \/ c.pc = "ancient1" /\ ProbeResult(r, AncientProbe(checked, c.h, c.n), "live")
       \/ c.pc = "live"     /\ ProbeResult(r, LiveProbe(t, c.h, c.n), "ancient2")
       \/ c.pc = "ancient2" /\ ProbeResult(r, AncientProbe(checked, c.h, c.n), "done")
    /\ UNCHANGED storeVars

\* The accessors built on that probe sequence.  ReadHeaderRLP and
\* ReadCanonicalHash take the frozen entry at the number as it is; ReadBody
\* (through ReadBodyRLP), ReadReceiptsRLP and ReadTdRLP compare the frozen
\* hash with the requested one first.
ReadHeaderRLP(r)     == ReadStep(r, "header", FALSE)
ReadBody(r)          == ReadStep(r, "body", TRUE)
ReadReceiptsRLP(r)   == ReadStep(r, "receipts", TRUE)
ReadTdRLP(r)         == ReadStep(r, "td", TRUE)
ReadCanonicalHash(r) == ReadStep(r, "canon", FALSE)

\* ReadCanonicalBodyRLP: the ancient bodies table without a hash check,
\* then ReadCanonicalHash, then the live body under that hash, then the
\* ancient bodies table again.
ReadCanonicalBodyRLP(r) ==
    LET c  == rd[r]
        ch == IF c.got = << >> THEN None ELSE c.got[1]
        Return(v) == rd' = [rd EXCEPT ![r].pc = "done",
                                      ![r].out = IF v = None THEN None ELSE <<v>>]
    IN  /\ c.op = "ReadCanonicalBodyRLP"
        /\ \/ /\ c.pc = "cbAncient1"
              /\ LET v == AncientBody(c.n) IN
                    IF v # None THEN Return(v)
                    ELSE rd' = [rd EXCEPT ![r].pc = "ancient1"]
           \/ /\ c.pc = "cbLive"
              /\ LET v == LiveProbe("body", ch, c.n) IN
                    IF v # None THEN Return(v)
                    ELSE rd' = [rd EXCEPT ![r].pc = "cbAncient2"]
           \/ c.pc = "cbAncient2" /\ Return(AncientBody(c.n))
        /\ UNCHANGED storeVars

\* Mutation: the frozen hash is not consulted, only db.Has.
HasRecordLiveOnly(r) ==
    LET c == rd[r]
        t == HasTable[c.op]
    IN  /\ c.op \in HasOps
        /\ c.pc \in {"ancient1", "live"}
        /\ rd' = [rd EXCEPT ![r].pc = "done", ![r].out = IF c.h \in live[t] THEN <<c.h>> ELSE None]
        /\ UNCHANGED storeVars

\* HasHeader, HasBody, HasReceipts: the frozen hash at the number, then
\* db.Has on the live record; there is no second ancient probe.  A true
\* answer is recorded as <<h>>, a false one as None.
HasRecord(r) ==
    LET c == rd[r]
        t == HasTable[c.op]
    IN  /\ c.op \in HasOps
        /\ \/ /\ c.pc = "ancient1"
              /\ IF Frozen(Store, c.n) /\ AncientHash(Store, c.n) = c.h
                 THEN rd' = [rd EXCEPT ![r].pc = "done", ![r].out = <<c.h>>]
                 ELSE rd' = [rd EXCEPT ![r].pc = "live"]
           \/ /\ c.pc = "live"
              /\ rd' = [rd EXCEPT ![r].pc = "done", ![r].out = IF c.h \in live[t] THEN <<c.h>> ELSE None]
        /\ UNCHANGED storeVars

-----------------------------------------------------------------------------
(* History: a read in progress is disturbed when its data stops being      *)
(* available in both tiers, or when the import pipeline changes the        *)
(* canonical entry a canonical-body read depends on.  The freezer moving   *)
(* data does not disturb a read.  An existence check is marked moved when  *)
(* the tiers holding its record change during the call.                    *)

\* The tiers of store s that hold the record of table t for block h.
Tiers(s, t, h) ==
    {x \in {"live", "ancient"} :
        IF x = "live" THEN h \in s.live[t]
        ELSE Frozen(s, Num[h]) /\ AncientHash(s, Num[h]) = h}

Observe(byImport) ==
    rd' = [r \in Readers |->
             IF rd[r].pc \in {"idle", "done"} THEN rd[r]
             ELSE [rd[r] EXCEPT !.disturbed =
                     \/ @
                     \/ ~Available(Store', rd[r].op, rd[r].h, rd[r].n)
                     \/ /\ byImport
                        /\ rd[r].op = "ReadCanonicalBodyRLP"
                        /\ canon'[rd[r].n] # canon[rd[r].n],
                   !.moved =
                     \/ @
                     \/ /\ rd[r].op \in HasOps
                        /\ Tiers(Store', HasTable[rd[r].op], rd[r].h)
                              # Tiers(Store, HasTable[rd[r].op], rd[r].h)]]

Next ==
    \/ ImportStep /\ Observe(TRUE)
    \/ FreezerStep /\ Observe(FALSE)
    \/ \E r \in Readers :
          \/ StartRead(r)
          \/ ReadHeaderRLP(r)
          \/ ReadBody(r)
          \/ ReadReceiptsRLP(r)
          \/ ReadTdRLP(r)
          \/ ReadCanonicalHash(r)
          \/ ReadCanonicalBodyRLP(r)
          \/ HasRecord(r)

Spec == Init /\ [][Next]_vars

-----------------------------------------------------------------------------
(* Properties.                                                             *)

\* Migration tolerance (the double check of ReadHeaderRLP, ReadBodyRLP,
\* ReadCanonicalHash, ...): a read whose data was in one of the tiers when
\* it started, and stayed in one of them while only the freezer moved it,
\* finds it, however the freezer's append and delete interleave with the
\* read's probes.
NoSpuriousMiss ==
    \A r \in Readers :
        rd[r].pc = "done" /\ rd[r].avail /\ ~rd[r].disturbed
            => rd[r].out # None

\* What each accessor finds in the presence of the freezer: a read whose
\* data stayed in one of the tiers finds it (the third probe covers a move
\* between the first two), and HasHeader, HasBody and HasReceipts, which
\* have only two probes, find a record that stayed in the same tiers for
\* the whole call, whether that is the live store, the ancient store (the
\* frozen hash probe) or both.  Only a move during the call excuses a miss
\* of an existence check.
FindsStableData ==
    \A r \in Readers :
        LET c == rd[r] IN
        (/\ c.pc = "done" /\ c.avail /\ ~c.disturbed
         /\ c.op \in HasOps => ~c.moved)
            => c.out # None

=============================================================================
