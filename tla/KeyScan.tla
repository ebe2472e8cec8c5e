------------------------------- MODULE KeyScan -------------------------------
(***************************************************************************)
(* The iterator scans of core/rawdb/accessors_chain.go over the header key *)
(* space of the live store: ReadAllHashes, ReadAllHashesInRange and        *)
(* ReadAllCanonicalHashes.  They find their entries by key layout alone    *)
(* (prefix, length, suffix byte) in a key space where headers, total       *)
(* difficulties, canonical entries and hash->number entries share the      *)
(* prefix "h", so the model keeps keys as byte strings in byte order.      *)
(*                                                                         *)
(* Widths are scaled down: a number is NumberWidth bytes big-endian (8 in  *)
(* the code), a hash HashWidth bytes (32).  The four key kinds keep        *)
(* distinct lengths, as they have in the code, and every length check of   *)
(* the code is written with the same constants.                            *)
(***************************************************************************)
EXTENDS Naturals, Sequences, FiniteSets

CONSTANTS
    Hashes,     \* block hashes
    Num,        \* Num[h]: the number of block h
    HashBytes,  \* HashBytes[h]: the bytes of hash h
    None        \* absent

NumberWidth == 2
HashWidth == 3

\* The schema's prefix and suffix bytes: headerPrefix "h", headerTDSuffix
\* "t", headerHashSuffix "n", and the "h" suffix of the hash->number entry.
HP == 104
TD == 116
HN == 110
NS == 104

ASSUME /\ Num \in [Hashes -> 0..255]
       /\ HashBytes \in [Hashes -> [1..HashWidth -> 0..255]]
       /\ \A x, y \in Hashes : x # y => HashBytes[x] # HashBytes[y]

Numbers == {Num[h] : h \in Hashes}

\* encodeBlockNumber: big-endian, NumberWidth bytes.
EncodeNumber(n) == <<n \div 256, n % 256>>
DecodeNumber(b) == b[1] * 256 + b[2]

\* The keys of schema.go.
HeaderKey(n, h)     == <<HP>> \o EncodeNumber(n) \o HashBytes[h]
HeaderTDKey(n, h)   == HeaderKey(n, h) \o <<TD>>
HeaderHashKey(n)    == <<HP>> \o EncodeNumber(n) \o <<HN>>
HeaderNumberKey(h)  == <<HP>> \o HashBytes[h] \o <<NS>>

\* Stored values, as bytes: a canonical entry stores the hash, a number
\* entry the encoded number; a header and a td store RLP, abstracted to one
\* byte string each (their content is never decoded by a scan).
HeaderData == <<249>>
TdData == <<130>>
Values == {HashBytes[h] : h \in Hashes} \cup {EncodeNumber(n) : n \in Numbers}
            \cup {HeaderData, TdData}

VARIABLE db   \* the live store's header key space: key -> value

TypeOK == db \in [DOMAIN db -> Values]

Init == db = [k \in {} |-> None]

-----------------------------------------------------------------------------
(* bytes.Compare and the iterator.                                         *)

\* Byte-wise lexicographic order; a proper prefix sorts first.
RECURSIVE BytesLess(_, _)
BytesLess(a, b) ==
    IF b = << >> THEN FALSE
    ELSE IF a = << >> THEN TRUE
    ELSE IF Head(a) # Head(b) THEN Head(a) < Head(b)
    ELSE BytesLess(Tail(a), Tail(b))

IsPrefixOf(p, k) == Len(p) <= Len(k) /\ SubSeq(k, 1, Len(p)) = p

\* db.NewIterator(prefix, start): the keys with the prefix that are not
\* below prefix ++ start, in byte order.
RECURSIVE Ascending(_)
Ascending(S) ==
    IF S = {} THEN << >>
    ELSE LET m == CHOOSE k \in S : \A j \in S : ~BytesLess(j, k)
         IN  <<m>> \o Ascending(S \ {m})

NewIterator(prefix, start) ==
    Ascending({ k \in DOMAIN db : IsPrefixOf(prefix, k)
                                  /\ ~BytesLess(k, prefix \o start) })

Put(k, v) == db' = [x \in DOMAIN db \cup {k} |-> IF x = k THEN v ELSE db[x]]
Del(K) == db' = [x \in DOMAIN db \ K |-> db[x]]

-----------------------------------------------------------------------------
(* Writers.                                                                *)

WriteCanonicalHash(h) == Put(HeaderHashKey(Num[h]), HashBytes[h])

DeleteCanonicalHash(n) ==
    /\ HeaderHashKey(n) \in DOMAIN db
    /\ Del({HeaderHashKey(n)})

\* WriteHeader: the hash->number entry, then the header.
WriteHeader(h) ==
    db' = [x \in DOMAIN db \cup {HeaderNumberKey(h), HeaderKey(Num[h], h)} |->
             IF x = HeaderNumberKey(h) THEN EncodeNumber(Num[h])
             ELSE IF x = HeaderKey(Num[h], h) THEN HeaderData ELSE db[x]]

\* DeleteHeader: the header and the hash->number entry.
DeleteHeader(h) ==
    /\ HeaderKey(Num[h], h) \in DOMAIN db
    /\ Del({HeaderKey(Num[h], h), HeaderNumberKey(h)})

WriteTd(h) == Put(HeaderTDKey(Num[h], h), TdData)

DeleteTd(h) ==
    /\ HeaderTDKey(Num[h], h) \in DOMAIN db
    /\ Del({HeaderTDKey(Num[h], h)})

Next ==
    \E h \in Hashes :
        \/ WriteCanonicalHash(h)
        \/ DeleteCanonicalHash(Num[h])
        \/ WriteHeader(h)
        \/ DeleteHeader(h)
        \/ WriteTd(h)
        \/ DeleteTd(h)

vars == <<db>>

Spec == Init /\ [][Next]_vars

-----------------------------------------------------------------------------
(* The scans.                                                              *)

KeyNumber(k) == DecodeNumber(SubSeq(k, 2, 1 + NumberWidth))
KeyHash(k) == SubSeq(k, Len(k) - HashWidth + 1, Len(k))

\* Mutation: the length check is left out.
ReadAllHashesAnyLength(n) ==
    LET it == NewIterator(<<HP>> \o EncodeNumber(n), << >>)
    IN  [i \in DOMAIN it |-> KeyHash(it[i])]

\* ReadAllHashes(number): the keys under headerKeyPrefix(number) that are
\* exactly one hash longer than the prefix, i.e. the headers at the number.
ReadAllHashes(n) ==
    LET prefix == <<HP>> \o EncodeNumber(n)
        it == SelectSeq(NewIterator(prefix, << >>),
                        LAMBDA k : Len(k) = Len(prefix) + HashWidth)
    IN  [i \in DOMAIN it |-> KeyHash(it[i])]

\* Mutation: the loop stops at the last number instead of after it.
RECURSIVE RangeLoopExclusive(_, _, _)
RangeLoopExclusive(keys, last, acc) ==
    IF keys = << >> THEN acc
    ELSE LET key == Head(keys) IN
         IF Len(key) # 1 + NumberWidth + HashWidth
         THEN RangeLoopExclusive(Tail(keys), last, acc)
         ELSE IF KeyNumber(key) >= last THEN acc
         ELSE RangeLoopExclusive(Tail(keys), last,
                                 Append(acc, <<KeyNumber(key), KeyHash(key)>>))

\* The loop of ReadAllHashesInRange: skip keys not of header length, stop
\* at the first header above last, collect (number, hash).
RECURSIVE RangeLoop(_, _, _)
RangeLoop(keys, last, acc) ==
    IF keys = << >> THEN acc
    ELSE LET key == Head(keys) IN
         IF Len(key) # 1 + NumberWidth + HashWidth
         THEN RangeLoop(Tail(keys), last, acc)
         ELSE IF KeyNumber(key) > last THEN acc
         ELSE RangeLoop(Tail(keys), last,
                        Append(acc, <<KeyNumber(key), KeyHash(key)>>))

\* make([]*NumberHash, 0, 1+last-first) computes the capacity in uint64:
\* for first > last + 1 it wraps to 2^64 - (first - last - 1), beyond any
\* slice the runtime can allocate, and make panics ("cap out of range")
\* before the iterator is opened.  For first = last + 1 it is 0.
CapOutOfRange(first, last) == first > last + 1

\* ReadAllHashesInRange: whether the call panics, and what it returns.
ReadAllHashesInRange(first, last) ==
    IF CapOutOfRange(first, last)
    THEN [panicked |-> TRUE, hashes |-> << >>]
    ELSE [panicked |-> FALSE,
          hashes |-> RangeLoop(NewIterator(<<HP>>, EncodeNumber(first)), last, << >>)]

\* A canonical entry: prefix, number and the one suffix byte "n".
IsCanonicalKey(k) == Len(k) = 1 + NumberWidth + 1 /\ k[Len(k)] = HN

\* Mutation: the limit check stops only once past the limit.
RECURSIVE CanonLoopPastLimit(_, _, _, _)
CanonLoopPastLimit(keys, end, limit, acc) ==
    IF keys = << >> THEN acc
    ELSE LET key == Head(keys) IN
         IF ~BytesLess(key, end) THEN acc
         ELSE IF IsCanonicalKey(key)
         THEN LET acc2 == Append(acc, <<KeyNumber(key), db[key]>>) IN
              IF Len(acc2) > limit THEN acc2
              ELSE CanonLoopPastLimit(Tail(keys), end, limit, acc2)
         ELSE CanonLoopPastLimit(Tail(keys), end, limit, acc)

\* The loop of ReadAllCanonicalHashes: stop at the end key, collect the
\* canonical entries with their stored hash, stop once limit are
\* collected.
RECURSIVE CanonLoop(_, _, _, _)
CanonLoop(keys, end, limit, acc) ==
    IF keys = << >> THEN acc
    ELSE LET key == Head(keys) IN
         IF ~BytesLess(key, end) THEN acc
         ELSE IF IsCanonicalKey(key)
         THEN LET acc2 == Append(acc, <<KeyNumber(key), db[key]>>) IN
              IF Len(acc2) >= limit THEN acc2
              ELSE CanonLoop(Tail(keys), end, limit, acc2)
         ELSE CanonLoop(Tail(keys), end, limit, acc)

\* ReadAllCanonicalHashes(from, to, limit): nothing for limit 0, else the
\* loop over the whole key space from headerHashKey(from) up to
\* headerHashKey(to).  The two result slices are zipped into pairs.
ReadAllCanonicalHashes(from, to, limit) ==
    IF limit = 0 THEN << >>
    ELSE CanonLoop(NewIterator(<< >>, HeaderHashKey(from)), HeaderHashKey(to),
                   limit, << >>)

-----------------------------------------------------------------------------
(* Properties, over every call argument in a small range.                  *)

Bounds == 0..2
Limits == 0..3
HashValues == {HashBytes[h] : h \in Hashes}

\* The blocks whose header is stored, and the canonical numbers.
Stored == {h \in Hashes : HeaderKey(Num[h], h) \in DOMAIN db}
CanonNumbers == {n \in Numbers : HeaderHashKey(n) \in DOMAIN db}

\* ReadAllCanonicalHashes returns the canonical entries with from <= n < to
\* in ascending order, each with its stored hash, and of them exactly the
\* first limit ("the semi-finish result").
CanonicalScanExact ==
    \A from, to \in Bounds, limit \in Limits :
        LET r == ReadAllCanonicalHashes(from, to, limit)
            want == {n \in CanonNumbers : from <= n /\ n < to}
        IN  /\ Len(r) = IF Cardinality(want) < limit THEN Cardinality(want) ELSE limit
            /\ \A i \in DOMAIN r :
                  /\ r[i][1] \in want
                  /\ r[i][2] = db[HeaderHashKey(r[i][1])]
                  /\ \A n \in want : n < r[i][1] =>
                        \E j \in 1..(i - 1) : r[j][1] = n
            /\ \A i \in 1..(Len(r) - 1) : r[i][1] < r[i + 1][1]

\* Every call of ReadAllHashesInRange that returns (first <= last + 1; the
\* others panic, see CapOutOfRange) returns every stored header with first <= n <= last,
\* canonical and forks alike, each once, in (number, hash) order, skipping
\* the td, canonical and number entries interleaved with them.
RangeScanExact ==
    \A first, last \in Bounds :
        ~CapOutOfRange(first, last) =>
        LET r == ReadAllHashesInRange(first, last).hashes
            want == {<<Num[h], HashBytes[h]>> : h \in {x \in Stored : first <= Num[x] /\ Num[x] <= last}}
        IN  /\ {r[i] : i \in DOMAIN r} = want
            /\ Len(r) = Cardinality(want)
            /\ \A i \in 1..(Len(r) - 1) :
                  \/ r[i][1] < r[i + 1][1]
                  \/ r[i][1] = r[i + 1][1] /\ BytesLess(r[i][2], r[i + 1][2])

\* ReadAllHashes(n) returns the hash of every header stored at n, and
\* nothing from the td entries stored under the same prefix.
AllHashesExact ==
    \A n \in Bounds :
        LET r == ReadAllHashes(n) IN
        /\ {r[i] : i \in DOMAIN r} = {HashBytes[h] : h \in {x \in Stored : Num[x] = n}}
        /\ Len(r) = Cardinality({x \in Stored : Num[x] = n})

=============================================================================
