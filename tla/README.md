# TLA+ models of the chain storage accessors

This directory holds TLA+ models of `src/core/rawdb/accessors_chain.go`, the
layer that stores headers, bodies, receipts, total difficulty (TD), the
canonical number->hash index and the bad-block list. Everything is checked
with TLC. The modules follow the code, not the spec, except for the freezer,
which is not in `src/`: it is modelled from `spec.md` and marked
`spec_modelled` in `PROJECT.json`.

## The system

The layer works over two stores:

- the **live** key/value store. It holds records keyed by (number, hash), the
  hash->number index (`headerNumberKey`) and the canonical index
  (`headerHashKey(n)`). These can be rewritten and deleted on reorgs.
- the **ancient** store ("freezer"). It holds the canonical chain from block
  0 upward, in parallel tables (hash, header, body, receipts, td). It is
  append-only.

Three kinds of actor use it. None of them takes a lock:

- the **import pipeline and reorg logic**. They call `WriteBlock`,
  `WriteReceipts`, `WriteTd`, `WriteCanonicalHash`, `DeleteCanonicalHash`,
  `DeleteBlock` and `DeleteBlockWithoutNumber`, each inside a database batch.
- the **freezer**, a background goroutine. It appends old canonical blocks
  with `WriteAncientBlocks` inside one `ModifyAncients` call. Afterwards it
  deletes their live copies: `DeleteBlockWithoutNumber` and
  `DeleteCanonicalHash`, oldest first.
- **readers**, such as consensus and RPC. Each `Read*RLP` accessor probes the
  ancient store, then the live store, then the ancient store once more. The
  third probe catches a record the freezer moved between the first two. A
  reader probing by hash must compare the frozen hash with the requested one,
  because the ancient store only holds canonical blocks.

Independent of the read path is the **bad-block list**: one key holding at
most 10 blocks, sorted by number in descending order.

Further parts of the file are:

- `deriveLogFields`/`ReadLogs`;
- `FindCommonAncestor`;
- the range scans `ReadAllHashes`, `ReadAllHashesInRange` and
  `ReadAllCanonicalHashes`;
- the head pointers with `ReadHeadHeader`/`ReadHeadBlock`;
- the single-key scalar stores: the fast-sync head hash, the last pivot,
  the fast-trie progress, the tx-index tail, the fast tx lookup limit, the
  randomness commitment cache and the epoch uptime.

Separate from the store is the **marker** command-line tool
(`src/cmd/marker/main.go` and its `config` package). Its root action parses
the command line against `app.Flags`, then `MigrateFlags` copies the set flags
to the global context. `AssemblyConfig` builds a `Config` from defaults and
flags and loads the account, `startLogger` sets the log level from
`config.Verbosity`, and the listener, writer and `registerValidator` handler
run.

## Modules

| Module | Models | State | Actions |
|---|---|---|---|
| `ChainStore` | both tiers, the writers, the freezer | `live[t]` (hashes with a record in table t), `numIdx`, `canon[n]`, `ancient` (sequence of frozen hashes), `cleaned` (freezer delete cursor) | `WriteCanonicalHash`, `DeleteCanonicalHash`, `WriteBlock`, `WriteReceipts`, `WriteTd`, `DeleteBlock`, `DeleteBlockWithoutNumber`, `WriteAncientBlocks`, `FreezerDelete` |
| `ChainReaders` | the read accessors as reader processes | `rd[r]`: the call, its program counter, the results so far, and history flags | `StartRead`; `ReadHeaderRLP`, `ReadBody`, `ReadReceiptsRLP`, `ReadTdRLP`, `ReadCanonicalHash` (one probe per step via `ReadStep`), composed into `ReadBlock` (header, body) and `ReadReceipts` (raw receipts, body); `ReadCanonicalBodyRLP`; `HasRecord` (HasHeader/HasBody/HasReceipts) |
| `AbstractStore` | what the accessors promise: one store, no tiers | `records[t]`, `numbers`, `canonical[n]` | `SetCanonical`, `AddRecords`, `RemoveRecords` |
| `StoreRefinement` | `ChainStore` as an implementation of `AbstractStore` | the refinement mapping: a record exists when `RecordAvailable` in either tier; the canonical hash is the frozen one once frozen | none of its own; `ChainReaders` extends it, and its `Spec` is checked against the mapping |
| `HeadReaders` | the head pointers, `ReadHeaderNumber`, `ReadHeadHeader`, `ReadHeadBlock`, composed with `ChainReaders` | `head[k]` (headHeaderKey, headBlockKey), `hd[r]`: the head call's program counter, the hash it read, history flags; the final `ReadHeader`/`ReadBlock` runs in `rd[r]` | `WriteHeadHeaderHash`, `WriteHeadBlockHash`, `StartHeadRead`, `ReadPointer` (head key), `ReadNumber` (number lookup, then starts the final read), the probes of `ChainReaders` |
| `BadBlocks` | `WriteBadBlock`, `DeleteBadBlocks`, `ReadAllBadBlocks` | `badBlocks` (the stored list), `recorded` (history: blocks reported since the last delete) | `WriteBadBlock(b)`, `DeleteBadBlocks` |
| `BadBlockFaults` | `BadBlocks` with a failing `db.Get` in `WriteBadBlock` | as `BadBlocks` | `WriteBadBlockLoadFailed(b)` besides the `BadBlocks` actions |
| `ReceiptDerive` | `deriveLogFields` (RECURSIVE `DeriveFrom`, one loop iteration per call) and `ReadLogs` | `receipts`, `body` (one block, written independently), `logs` and `readOf` (the last read and what it saw) | `WriteReceipts`, `WriteBody`, `DeleteBlock`, `ReadLogs` |
| `CommonAncestor` | `FindCommonAncestor` composed with `ChainStore` | `wk`: the call's program counter, its two inputs, the cursors `a`, `b`, the result, and history flags | `StartWalk`, `RaiseA`, `RaiseB` (first two loops), `StepA`, `StepB` (lockstep loop), one `ReadHeader` per step |
| `KeyScan` | `ReadAllHashes`, `ReadAllHashesInRange`, `ReadAllCanonicalHashes` over a byte-level key space | `db`: key (byte sequence) -> value | `WriteCanonicalHash`, `DeleteCanonicalHash`, `WriteHeader`, `DeleteHeader`, `WriteTd`, `DeleteTd`; the scans are operators over `db` |
| `ScalarStores` | every reader and writer of the single-key stores, with their encodings byte by byte: `encodeBlockNumber` (fixed width, big-endian), `big.Int` bytes (minimal, empty for 0), RLP of a uint64 (`RlpUint`, `RlpDecodeUint` with each decode error) | `kv[k]` (the bytes under each single key), `commit[c]`, `uptime[e]`; history `written`, `wCommit`, `wUptime` (the value last written) | `WriteHeadFastBlockHash`, `WriteLastPivotNumber`, `WriteFastTrieProgress`, `WriteTxIndexTail`, `WriteFastTxLookupLimit`, `WriteRandomCommitmentCache`, `WriteAccumulatedEpochUptime`; the readers are operators over the bytes |
| `MarkerStartup` | the marker tool's root action: `main`/`app.Run`'s parse against `Flags`, `MigrateFlags`, `AssemblyConfig`, `startLogger`, the hand-over to the handler | `pc` (the start-up step), `args` (the command line: set flags with the class of their value, numeral or word), `global` (what `IsSet`/`Global*` see), `config` (the `*Config`, `None` for nil) | `AppRun`, `ParseError`, `MigrateFlags`, `AssemblyConfig` (fields, then BLS key ok / error / a `Must` helper panics), `StartLogger` (the `LvlFromString` panic is dead code), `RunHandler` |
| `MC*` | TLC instances (model values, `Num`) | | |

Data is abstracted to identity:

- a record is the hash of its block;
- `Num[h]` is the block's number;
- a read returns the hashes whose data it found (`ReadBlock` returns
  `<<header, body>>`), or `None`.

This is enough to tell "found the right block", "found another block" and
"found nothing" apart. `KeyScan` is the exception: there the key layout is the
subject, so keys are byte sequences built as the code builds them, with the
number and hash widths scaled down (2 and 3 bytes instead of 8 and 32). The
four key kinds under prefix `h` keep distinct lengths, and the hashes are
chosen so that a header hash can end in byte `n` (the canonical suffix) or
begin with it.

Each database access of a reader is one TLC step. The ancient probe of a
hash-checked reader (data table, then hash table) is one step. This is sound
because a frozen number is never rewritten. In `CommonAncestor` each
`ReadHeader` call is one step.

Writers' batches are atomic. Their callers' contract is part of the guards:

- no canonical entry changes at a frozen number;
- no frozen block is deleted;
- genesis is never touched.

This is the immutability threshold the freezer relies on.

Each mutation used to validate a property is written next to the
definition it mutates, marked "Mutation:".

## Runs

| Run | Expect | What it shows |
|---|---|---|
| `migration` | pass | Reads interleaved with imports, reorgs and the freezer never miss data that stayed available (`NoSpuriousMiss`). The freezer keeps every readable header resolvable by hash (`HeaderNumberResolvable`). Seen through both tiers, the store implements `AbstractStore` (`RefinesAbstractStore`): the freezer's append and deletes are stuttering steps, and every other step is a write or delete of the block or number it names. |
| `stable_reads` | pass | Over all four tables, with the freezer moving data mid-call, each accessor finds what stayed stored (`FindsStableData`). The body, receipts and td reads, and `ReadReceipts` (receipts then body), find data that stayed in one of the tiers. `HasHeader`, `HasBody` and `HasReceipts` find a record that stayed in the same tiers for the whole call, live, frozen or both. So a move during the call is the only thing that excuses a miss by an existence check; `has_recheck` shows that such a move does cause one. |
| `has_recheck` | violation | `HasBody` says "absent" for a body the freezer moved between its two probes: the Has accessors lack the third probe the spec requires. |
| `head_readers` | pass | `ReadHeadHeader` and `ReadHeadBlock` find the head they read whenever its header (and body) and number entry stayed stored (`HeadFound`). This holds while imports, reorgs and head moves interleave with the head key read, the number lookup and each probe, and while the freezer freezes the block and deletes its live copy (keeping the number entry) mid-call. |
| `bad_block_loadfail` | violation | `WriteBadBlock` after a failed load of the list stores the new block alone: `x1` is written, then `x2` with a failing load, and `x1` is gone although the list has room (`RetainsHighest`). |
| `bad_blocks` | pass | After any sequence of writes and deletes, the bad-block list has these properties: <ul><li>it is bounded (`TypeOK`);</li><li>it is duplicate-free and sorted (`WellFormed`);</li><li>it holds the highest-numbered blocks reported since the last delete, as `ReadBadBlock` finds them (`RetainsHighest`).</li></ul> |
| `receipts` | pass | For every receipt list of up to 4 receipts (0-2 logs each) and every body of up to 2 transactions, written in any order, `ReadLogs` returns logs exactly for N or N+1 receipts. The logs are those of spec 4.5: contiguous log indices across the block (`LogIndicesContiguous`), and the i-th receipt's logs carry the i-th transaction's hash and index, the finalization receipt's the block hash (`LogsAttributed`). |
| `ancestor_live` | pass | With imports and reorgs running and nothing frozen, `FindCommonAncestor` returns only the fork point (`AncestorIsLCA`), and returns nil only if a header on its path was missing at the start or deleted during the walk (`AncestorFound`). |
| `ancestor_frozen` | violation | With the freezer running, `FindCommonAncestor(a2, b1)` returns `b1`, which is not an ancestor of `a2`: the parent `a1` is looked up at a frozen height, and `ReadHeader` returns the frozen header `b1` there without a hash check, even when `a1` is not stored at all. The root cause is `ReadHeaderRLP` (line 312) skipping the hash comparison its own comment calls necessary; the same missing check makes `ReadBlock` of a fork block at a frozen height join the canonical header to the fork's body. |
| `marker_verbosity` | violation | `marker --commission 5 --Verbosity 4` exits with a parse error: `AssemblyConfig` reads `VerbosityFlag` (line 230), but marker's `Flags` (lines 19-32), registered as `app.Flags`, omit it, so the log level can never be configured and `startLogger`'s `LvlFromString` path is dead (`ConfigFlagsAccepted`). |
| `scalar_readback` | pass | After any sequence of writes, each single-key reader returns the value last written, or its default (nil, 0, the zero hash) for a key never written (`ScalarReadBack`), for numbers at every encoding boundary; the stored bytes are bytes (`ScalarTypeOK`). |
| `key_scan` | pass | In every reachable key space, the three scans return exactly their reference results: the canonical entries in `[from, to)` up to `limit` (`CanonicalScanExact`), the header hashes in `[first, last]` for every call that returns (`RangeScanExact`), and the header hashes at a number (`AllHashesExact`). `ReadAllHashesInRange` panics for `first >= last+2`: `make`'s capacity `1+last-first` wraps in uint64 (line 100). The model computes that panic (`CapOutOfRange`). Spec 4.3 says nothing about inverted ranges, so no run asserts a result for them. |

`disturbed` is a history flag. It marks a read during which its data left
both tiers, or during which a reorg changed the canonical entry that
`ReadCanonicalBodyRLP` depends on. Such reads may legitimately miss.
`moved` marks an existence check during which the tiers holding its record
changed. In
`CommonAncestor`, `avail` and `disturbed` record whether every header on the
walk's path was stored at the start and stayed stored.

Every passing property has a mutant: a plausible bug in the definition it is
about, under which TLC finds the property violated with the run's own
configuration (`PROJECT.json`, `mutants`).

## Bounds

- **Chain store and readers.** There are three hashes: genesis `g` at 0, and
  two competing blocks `a1` and `b1` at 1. The freezer appends batches of 1-2
  blocks, up to 2 frozen blocks. There is one reader. This gives:
  - a frozen canonical block and a fork at the same height;
  - a reorg before freezing;
  - every order of freezer append, freezer delete and reader probe.

  A second reader adds no new interaction, because readers do not write.
- **Head readers.** Four hashes: `g`, `a1` and `b1` at 1, `a2` at 2, so the
  head can move forward, sideways (a reorg at 1) and back. Tables `header`
  and `body`, one reader, up to 2 frozen blocks, and `Threshold = 1` (90000
  in the node): a block is frozen only once both heads are above it, so a
  head read that read the hash before the heads moved on meets its block
  frozen and its live copy deleted.
- **Refinement.** Checked in `migration`, with its
  bounds: a batched append of two blocks, deletes trailing appends, a fork
  block at a frozen height and every reorg step occur. Its tables are
  `header` and `body`, so `WriteReceipts` and `WriteTd`, which each put a
  single table's record, are not among the steps checked against the
  mapping; with all four tables the readers' state space takes too long
  to check.
- **Scalar stores.** `Width = 3` bytes (8 in the node) keeps the numbers
  within TLC's integers. The values written are 0, 1, 127, 128, 256 and
  2^24-1: zero (empty for `big.Int`, 0x80 for RLP), both sides of RLP's
  single-byte limit, one and two significant bytes, and the largest value
  of the width. There is one hash besides the zero hash, one commitment, one
  epoch and one uptime array; hashes and uptimes have no encoding edge.
- **Bad blocks.** There are seven blocks at numbers 1-4, three of the numbers
  shared by two blocks, and `BadBlockToKeep = 3` (10 in the code). Writes
  overflow the list, ties fall at the cut, and evicted blocks are reported
  again. The truncation logic does not depend on the bound.
- **Receipts.** Two transaction hashes, bodies of 0-2 transactions, receipt
  lists of 0-4 receipts with 0-2 logs each. Every count relation the deriver
  tells apart (fewer, N, N+1, N+2 receipts) occurs, with empty and non-empty
  receipts before and after the finalization receipt.
- **Common ancestor.** A tree `g <- a1 <- {a2, c2}`, `g <- b1`: fork points at
  0 and 1, inputs at equal and different heights, and inputs that are
  ancestors of each other. Tables `header` and `body`, batches of 2; up to 2
  frozen blocks in the `frozen` run and none in the `live` run.
- **Key scan.** Four hashes: genesis, and three blocks at number 1. One hash
  begins with byte `n`; two end in `n`, one sorting below and one above the
  canonical key of their number. Scan bounds `from`, `to`,
  `first`, `last` range over 0-2 and `limit` over 0-3.

The caller contract of the head pointers is part of `HeadReaders`:
- a head moves only to a block that is written, numbered and canonical;
- the chain never deletes the block a head names;
- the freezer stays `Threshold` below both heads.

Under these small bounds a head read can lag the head by more than the
threshold. `ReadHeadBlock` can then meet the frozen-header mix-up of
`ReadHeaderRLP` (see `ancestor_frozen`), where a stale fork head returns the
canonical header. With the node's threshold of 90000 blocks that lag does not
happen, so `head_readers` checks that head reads find their head
(`HeadFound`), and the mix-up is reported only through `ancestor_frozen`.

`MarkerStartup` lets a command line set any of `commission` (int),
`Lesser` (string), `keystore` (string) and `Verbosity` (defined, not
registered), each to a numeral or a word: 81 command lines. They cover every
parse outcome (accepted, unregistered flag, non-numeral int) and both kinds
of `AssemblyConfig` field; the other flags follow one of these patterns.

## Fairness

No run checks a liveness property, and no specification assumes fairness.
The one progress property that suggested itself, that the freezer
eventually removes the live copies of what it froze, would rest only on
fairness of the freezer's delete step. That step is modelled from the spec
(the freezer is not in `src/`), so the property would hold whatever the code
under `src/` does. The readers and the import pipeline are driven by the
network, and the code gives them no fairness.

## Not modelled

- RLP of headers, bodies and receipts, and the key encoding outside
  `KeyScan`: these are pure conversions, and data is abstracted to
  identity. The RLP of a uint64 is modelled in `ScalarStores`.
- The contents of the uptime array and the key function
  `RandomnessCommitmentDBLocation` (in `consensus/istanbul`, outside
  `src/`): uptimes are opaque, and each commitment has its own key.
- The running total difficulty of `WriteAncientBlocks` (line 801). It adds
  `block.TotalDifficulty()`, defined in `core/types` outside `src/`, so what
  the sum computes cannot be modelled from this repository.
- Concurrent bad-block writers: block import reports bad blocks one at a
  time.
- The nil `Config` of `AssemblyConfig` (line 236) when
  `account.BLSPublicKey()` fails. The model keeps the branch: `MigrateFlags`
  would hand the nil to `startLogger`, which dereferences it. But the account
  package is not in this repository, and nothing here shows that call
  failing, so no run asserts it.
- `ReadReceipts`: it delegates to `types.Receipts.DeriveFields`, outside
  `src/`.
- The consensus interface declarations and genesis state initialisation in
  `src/unnamed/part_000`.
- Of the command-line tools, the `validator` and `voter` subcommands of
  marker and everything of `validator_cli` beyond its flag table and copy
  loop: their actions, `validator_cli`'s `AssemblyConfig`, the listener, the
  writer and the account loader are not in `src/`. The urfave/cli parser is
  modelled only by what it does at the root context (reject unregistered
  flags and non-numeral int values; `IsSet` and `Global*` read the root flag
  set).
- `ModifyAncients` is taken as all-or-nothing. Its implementation is not in
  `src/`.

## Plan

Done:
1. ChainStore and ChainReaders.
2. BadBlocks, with its load-failure fault.
3. `deriveLogFields` and `ReadLogs`.
4. `FindCommonAncestor`, which shows the frozen-header mix-up as a wrong
   ancestor.
5. The range scans at the byte level.
6. The abstract store and the refinement of `ChainStore`.
7. The head pointers, `ReadHeadHeader` and `ReadHeadBlock`.
8. `ReadReceipts` as a two-table read.
9. The single-key stores with their number encodings (`ScalarStores`). The
   refinement check now runs inside `migration`, against the readers'
   specification.

10. The marker tool's start-up (`MarkerStartup`), which shows that
    `--Verbosity` cannot be given.
11. After review, some properties were removed:
    - the freezer liveness, which rested only on the spec-modelled freezer;
    - `ReadReturnsRequested`, true by construction of the checked probes;
    - `ScanResultsTyped`, implied by the exact-scan properties.

    `FindsStableData` replaces `ReadReturnsRequested`, and the range scan's
    panic is now modelled.

Left:

12. A refinement of the readers themselves: each `ChainReaders` read,
   undisturbed, returns the `AbstractStore` value at some point of its
   execution.
13. Termination of reads and walks under fairness of the reader, once a
    property needs it.
