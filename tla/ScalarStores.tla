---------------------------- MODULE ScalarStores ----------------------------
(***************************************************************************)
(* The single-key stores of core/rawdb/accessors_chain.go: the fast-sync   *)
(* head hash, the last pivot number, the fast-trie progress counter, the   *)
(* transaction index tail, the fast transaction lookup limit, the random   *)
(* commitment cache and the accumulated epoch uptime.  Each writer puts    *)
(* one encoded value under its key; each reader gets the bytes, ignoring   *)
(* the error, and decodes them, falling back to a default (nil, 0 or the   *)
(* zero hash) when the key is empty or the bytes do not decode.            *)
(*                                                                         *)
(* The numbers are encoded three ways, each modelled byte by byte: a       *)
(* fixed-width big-endian string (encodeBlockNumber), the minimal          *)
(* big-endian string of big.Int (empty for 0), and the RLP encoding of a   *)
(* uint64 (0x80 for 0).  A byte is an integer in 0..255; the width of      *)
(* encodeBlockNumber, 8 in the node, is the constant Width, so that the    *)
(* values stay within TLC's integers.  Hashes and uptime arrays are        *)
(* opaque: their bytes are a one-element sequence holding the value.       *)
(***************************************************************************)
EXTENDS Naturals, Sequences, SequencesExt

CONSTANTS
    Width,        \* bytes of encodeBlockNumber (8 in the node)
    Values,       \* the uint64 arguments the writers are called with
    BlockHashes,  \* the hashes the writers are called with
    ZeroHash,     \* common.Hash{}
    Commitments,  \* random beacon commitments
    Epochs,       \* epoch numbers
    Uptimes,      \* accumulated uptime arrays
    None          \* nil, and a key with no value

WordSpan == 256 ^ Width   \* 2^64 in the node

ASSUME /\ Width \in Nat \ {0}
       /\ Values \subseteq 0..(WordSpan - 1)
       /\ ZeroHash \in BlockHashes
       /\ None \notin BlockHashes \cup Uptimes \cup Nat

Bytes == Seq(0..255)

\* The keys with one value each: headFastBlockKey, lastPivotKey,
\* fastTrieProgressKey, txIndexTailKey, fastTxLookupLimitKey.
SingleKeys == {"headFastBlock", "lastPivot", "fastTrieProgress",
               "txIndexTail", "fastTxLookupLimit"}

VARIABLES
    kv,       \* kv[k]: the bytes stored under single key k, or None
    commit,   \* commit[c]: the bytes under RandomnessCommitmentDBLocation(c)
    uptime,   \* uptime[e]: the bytes under uptimeKey(e)
    written,  \* written[k]: the value last written to key k, None if none
    wCommit,  \* the parent hash last written for each commitment
    wUptime   \* the uptime array last written for each epoch

scalarVars == <<kv, commit, uptime, written, wCommit, wUptime>>

ScalarInit ==
    /\ kv = [k \in SingleKeys |-> None]
    /\ commit = [c \in Commitments |-> None]
    /\ uptime = [e \in Epochs |-> None]
    /\ written = [k \in SingleKeys |-> None]
    /\ wCommit = [c \in Commitments |-> None]
    /\ wUptime = [e \in Epochs |-> None]

-----------------------------------------------------------------------------
(* The encodings.                                                          *)

\* Mutation: encodeBlockNumber without reducing each digit to a byte.
EncodeBlockNumberUnmasked(v) == [i \in 1..Width |-> v \div 256 ^ (Width - i)]

\* encodeBlockNumber: the number as Width big-endian bytes.
EncodeBlockNumber(v) == [i \in 1..Width |-> (v \div 256 ^ (Width - i)) % 256]

\* The big-endian value of a byte string (binary.BigEndian.Uint64,
\* big.Int.SetBytes).
BigEndianValue(s) == FoldLeft(LAMBDA acc, b : acc * 256 + b, 0, s)

\* big.Int.Bytes: the big-endian bytes of v without leading zeros, so the
\* empty string for 0.
RECURSIVE MinimalBytes(_)
MinimalBytes(v) == IF v = 0 THEN << >> ELSE Append(MinimalBytes(v \div 256), v % 256)

\* rlp.EncodeToBytes of a uint64: 0x80 (the empty string) for 0, the byte
\* itself below 0x80, and otherwise 0x80 + length before the minimal bytes.
RlpUint(v) ==
    IF v = 0 THEN <<128>>
    ELSE IF v < 128 THEN <<v>>
    ELSE <<128 + Len(MinimalBytes(v))>> \o MinimalBytes(v)

\* rlp.DecodeBytes into a uint64, None for each error it reports: a single
\* byte 0x00 (non-canonical integer), trailing bytes after the value, a
\* string whose length disagrees with its prefix, a one-byte string below
\* 0x80 (non-canonical size), a leading zero byte, more bytes than the
\* integer holds, and a long string or a list.
RlpDecodeUint(s) ==
    LET b    == s[1]
        body == SubSeq(s, 2, Len(s))
    IN  CASE b < 128 -> IF Len(s) = 1 /\ b # 0 THEN b ELSE None
          [] b < 184 ->
                IF \/ Len(body) # b - 128
                   \/ Len(body) > Width
                   \/ Len(body) = 1 /\ body[1] < 128
                   \/ Len(body) > 0 /\ body[1] = 0
                THEN None
                ELSE BigEndianValue(body)
          [] OTHER -> None

-----------------------------------------------------------------------------
(* The readers.  data, _ := db.Get(key) yields the empty string for a key  *)
(* with no value.                                                          *)

Get(k) == IF kv[k] = None THEN << >> ELSE kv[k]

\* ReadHeadFastBlockHash: the zero hash for no data, else BytesToHash.
ReadHeadFastBlockHash == IF Get("headFastBlock") = << >> THEN ZeroHash
                                                       ELSE Get("headFastBlock")[1]

\* ReadLastPivotNumber: nil for no data and for data that does not decode.
ReadLastPivotNumber == IF Get("lastPivot") = << >> THEN None
                                                   ELSE RlpDecodeUint(Get("lastPivot"))

\* ReadFastTrieProgress: 0 for no data, else SetBytes(data).Uint64(), the
\* low 64 bits.
ReadFastTrieProgress == BigEndianValue(Get("fastTrieProgress")) % WordSpan

\* Mutation: the eight bytes decoded little-endian.
ReadFixedNumberLittleEndian(k) ==
    IF Len(Get(k)) # Width THEN None ELSE BigEndianValue(Reverse(Get(k)))

\* ReadTxIndexTail and ReadFastTxLookupLimit: nil unless the data has
\* exactly eight bytes, else binary.BigEndian.Uint64.
ReadFixedNumber(k) ==
    IF Len(Get(k)) # Width THEN None ELSE BigEndianValue(Get(k))

ReadTxIndexTail       == ReadFixedNumber("txIndexTail")
ReadFastTxLookupLimit == ReadFixedNumber("fastTxLookupLimit")

\* ReadRandomCommitmentCache: the zero hash when db.Get fails (no entry).
ReadRandomCommitmentCache(c) == IF commit[c] = None THEN ZeroHash ELSE commit[c][1]

\* ReadAccumulatedEpochUptime: nil for no data.
ReadAccumulatedEpochUptime(e) == IF uptime[e] = None THEN None ELSE uptime[e][1]

\* What each single-key reader returns, and what it returns for a key never
\* written.
Read == [headFastBlock     |-> ReadHeadFastBlockHash,
         lastPivot         |-> ReadLastPivotNumber,
         fastTrieProgress  |-> ReadFastTrieProgress,
         txIndexTail       |-> ReadTxIndexTail,
         fastTxLookupLimit |-> ReadFastTxLookupLimit]

Default == [headFastBlock |-> ZeroHash, lastPivot |-> None, fastTrieProgress |-> 0,
            txIndexTail |-> None, fastTxLookupLimit |-> None]

-----------------------------------------------------------------------------
(* The writers: one db.Put of the encoded value each (log.Crit ends the    *)
(* process when the Put fails).                                            *)

Put(k, bytes, v) ==
    /\ kv' = [kv EXCEPT ![k] = bytes]
    /\ written' = [written EXCEPT ![k] = v]
    /\ UNCHANGED <<commit, uptime, wCommit, wUptime>>

WriteHeadFastBlockHash(h)   == Put("headFastBlock", <<h>>, h)
WriteLastPivotNumber(v)     == Put("lastPivot", RlpUint(v), v)
WriteFastTrieProgress(v)    == Put("fastTrieProgress", MinimalBytes(v), v)
WriteTxIndexTail(v)         == Put("txIndexTail", EncodeBlockNumber(v), v)
WriteFastTxLookupLimit(v)   == Put("fastTxLookupLimit", EncodeBlockNumber(v), v)

WriteRandomCommitmentCache(c, h) ==
    /\ commit' = [commit EXCEPT ![c] = <<h>>]
    /\ wCommit' = [wCommit EXCEPT ![c] = h]
    /\ UNCHANGED <<kv, uptime, written, wUptime>>

WriteAccumulatedEpochUptime(e, u) ==
    /\ uptime' = [uptime EXCEPT ![e] = <<u>>]
    /\ wUptime' = [wUptime EXCEPT ![e] = u]
    /\ UNCHANGED <<kv, commit, written, wCommit>>

ScalarNext ==
    \/ \E h \in BlockHashes : WriteHeadFastBlockHash(h)
    \/ \E v \in Values :
          \/ WriteLastPivotNumber(v)
          \/ WriteFastTrieProgress(v)
          \/ WriteTxIndexTail(v)
          \/ WriteFastTxLookupLimit(v)
    \/ \E c \in Commitments, h \in BlockHashes : WriteRandomCommitmentCache(c, h)
    \/ \E e \in Epochs, u \in Uptimes : WriteAccumulatedEpochUptime(e, u)

ScalarSpec == ScalarInit /\ [][ScalarNext]_scalarVars

-----------------------------------------------------------------------------
(* Properties.                                                             *)

ScalarTypeOK ==
    /\ kv \in [SingleKeys -> Bytes \cup {<<h>> : h \in BlockHashes} \cup {None}]
    /\ commit \in [Commitments -> {<<h>> : h \in BlockHashes} \cup {None}]
    /\ uptime \in [Epochs -> {<<u>> : u \in Uptimes} \cup {None}]
    /\ written \in [SingleKeys -> Values \cup BlockHashes \cup {None}]
    /\ wCommit \in [Commitments -> BlockHashes \cup {None}]
    /\ wUptime \in [Epochs -> Uptimes \cup {None}]

\* Every reader returns the value its writer last stored, and its default
\* when the key was never written, at every width boundary: 0, which
\* WriteFastTrieProgress stores as the empty string that the reader must
\* take for "no data" and WriteLastPivotNumber stores as 0x80; the values
\* around RLP's single-byte limit 0x80; one and several significant bytes;
\* and the largest value of the width, which encodeBlockNumber's fixed
\* eight bytes must carry whole for ReadTxIndexTail's length check to pass.
ScalarReadBack ==
    /\ \A k \in SingleKeys :
          Read[k] = IF written[k] = None THEN Default[k] ELSE written[k]
    /\ \A c \in Commitments :
          ReadRandomCommitmentCache(c) = IF wCommit[c] = None THEN ZeroHash ELSE wCommit[c]
    /\ \A e \in Epochs : ReadAccumulatedEpochUptime(e) = wUptime[e]

=============================================================================
