--------------------------- MODULE StoreRefinement ---------------------------
(***************************************************************************)
(* The two-tier store of ChainStore implements the single store of         *)
(* AbstractStore.  A record is in the abstract store when it can be read   *)
(* from either tier; the canonical hash of a number is the frozen one once *)
(* the number is frozen, and the live entry before.  Under this mapping    *)
(* every import and reorg step is an abstract write or delete, and every   *)
(* step of the freezer (append to the ancient store, removal of the live   *)
(* copies) is a stuttering step: migration is invisible to readers that    *)
(* probe both tiers.  ChainReaders extends this module, and its           *)
(* specification, which adds the readers, is checked against the         *)
(* property below.                                                         *)
(***************************************************************************)
EXTENDS ChainStore

\* Refinement mapping.
AbsRecords == [t \in Tables |-> {h \in Hashes : RecordAvailable(Store, t, h)}]
AbsCanonical == [n \in Numbers |-> IF Frozen(Store, n) THEN AncientHash(Store, n)
                                                       ELSE canon[n]]

A == INSTANCE AbstractStore
        WITH records <- AbsRecords, numbers <- numIdx, canonical <- AbsCanonical

-----------------------------------------------------------------------------
(* Properties.                                                             *)

\* Every behaviour of the writers and the freezer, seen through both tiers,
\* is a behaviour of the single store: no record appears or disappears and
\* no canonical entry changes except by an import or reorg call on that
\* block or number.  WriteAncientBlocks and the freezer's deletes of live
\* copies change nothing a two-tier reader can observe.
RefinesAbstractStore == A!ASpec

=============================================================================
