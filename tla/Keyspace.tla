---------------------------- MODULE Keyspace ----------------------------
(***************************************************************************)
(* The data operations of internal/store as operators on a key space: a    *)
(* function from keys to entries.  An operator takes the key space before  *)
(* the call and gives [db |-> the key space after it, n |-> what the call  *)
(* returns].  The memory limit is zero here (no eviction, no OOM):         *)
(* StoreMemory models the accounting and the eviction.                     *)
(*                                                                         *)
(* Data.  A string is a sequence of tokens: letters of Elems, the NUL byte *)
(* that SETRANGE pads with, and one-digit integers.  A list is a sequence  *)
(* of Elems, a set a subset of Elems, a hash a function that gives Nil to  *)
(* the fields it does not have.                                            *)
(*                                                                         *)
(* Time.  A deadline x and the clock are numbers of milliseconds.  While   *)
(* clock = x less than a millisecond is left: the entry is still there and *)
(* its remaining time in whole milliseconds is 0.                          *)
(***************************************************************************)
EXTENDS Integers, Sequences, FiniteSets, SequencesExt

CONSTANTS Keys, Fields, Elems,
          NUL,                  \* the zero byte
          Nil,                  \* a nil []byte, a field that is not there
          MinInt64, MaxInt64    \* the ends of the integer range, scaled down

ASSUME IntRange == MinInt64 \in Int /\ MaxInt64 \in Int /\ MinInt64 <= 0 /\ 0 <= MaxInt64

VARIABLE clock

NoTTL == 0
Fail  == -1     \* the call returned an error (or LInsert found no pivot)
None  == <<"none">>

Entry(t, x, v) == <<t, x, v>>
TypeOf(e) == e[1]
Deadline(e) == e[2]
Val(e) == e[3]

Res(d, n) == [db |-> d, n |-> n]

isExpired(e) == e # None /\ Deadline(e) # NoTTL /\ clock > Deadline(e)

\* What a call finds under k once it has purged the entry if it is expired.
Lookup(d, k) == IF isExpired(d[k]) THEN None ELSE d[k]

WrongType(d, k, t) == Lookup(d, k) # None /\ TypeOf(Lookup(d, k)) # t

purgeEntryLocked(d, k) == [d EXCEPT ![k] = None]
replaceEntry(d, k, e) == [d EXCEPT ![k] = e]

\* A call that changes nothing still purges the entry when it is expired.
Untouched(d, k) == [d EXCEPT ![k] = Lookup(d, k)]

\* The TTL an update keeps: that of the entry it replaces.
Kept(d, k) == IF Lookup(d, k) = None THEN NoTTL ELSE Deadline(Lookup(d, k))

-----------------------------------------------------------------------------
(* Strings: store.go *)

\* An empty value is stored as a nil slice, which Get returns like a missing key.
Get(d, k) ==
    IF Lookup(d, k) = None \/ Val(Lookup(d, k)) = <<>> THEN Nil ELSE Val(Lookup(d, k))

Set(d, k, v, x) == replaceEntry(d, k, Entry("string", x, v))

SetNX(d, k, v, x) ==
    IF Lookup(d, k) # None THEN Res(d, 0) ELSE Res(Set(d, k, v, x), 1)

SetXX(d, k, v, x) ==
    IF Lookup(d, k) = None THEN Res(purgeEntryLocked(d, k), 0) ELSE Res(Set(d, k, v, x), 1)

GetSet(d, k, v, x) ==
    IF WrongType(d, k, "string") THEN Res(d, Fail) ELSE Res(Set(d, k, v, x), 1)

AppendStr(d, k, tail) ==
    IF WrongType(d, k, "string") THEN Res(d, Fail)
    ELSE LET old == IF Lookup(d, k) = None THEN <<>> ELSE Val(Lookup(d, k))
         IN Res(Set(d, k, old \o tail, Kept(d, k)), Len(old \o tail))

\* strconv.ParseInt after TrimSpace; the empty string counts as 0.
IsInteger(s) == s = <<>> \/ (Len(s) = 1 /\ s[1] \in MinInt64 .. MaxInt64)
ToInteger(s) == IF s = <<>> THEN 0 ELSE s[1]

\* strconv.ParseFloat: a number out of the integers' range is a float as well.
IsFloat(s) == s = <<>> \/ (Len(s) = 1 /\ s[1] \notin Elems \cup {NUL})

addInt64(a, b) ==
    IF \/ b > 0 /\ a > MaxInt64 - b
       \/ b < 0 /\ a < MinInt64 - b
    THEN Nil ELSE a + b

incrBy(d, k, delta) ==
    LET old == IF Lookup(d, k) = None THEN <<>> ELSE Val(Lookup(d, k))
    IN IF WrongType(d, k, "string") THEN Res(d, Fail)
       ELSE IF ~IsInteger(old) THEN Res(d, Fail)
       ELSE LET next == addInt64(ToInteger(old), delta)
            IN IF next = Nil THEN Res(Untouched(d, k), Fail)
               ELSE Res(Set(d, k, <<next>>, Kept(d, k)), 1)

MSet(d, vals) ==
    [k \in Keys |-> IF vals[k] = Nil THEN d[k] ELSE Entry("string", NoTTL, vals[k])]

\* None of the keys may exist; expired ones are purged on the way to the write only.
MSetNX(d, vals) ==
    IF \E k \in Keys : vals[k] # Nil /\ Lookup(d, k) # None THEN Res(d, 0)
    ELSE Res(MSet(d, vals), 1)

-----------------------------------------------------------------------------
(* Hashes: store_collections.go, store_hash_incr.go *)

EmptyHash == [f \in Fields |-> Nil]
HashOf(d, k) == IF Lookup(d, k) = None THEN EmptyHash ELSE Val(Lookup(d, k))

HSet(d, k, pairs) ==
    IF WrongType(d, k, "hash") THEN Res(d, Fail)
    ELSE LET h == HashOf(d, k)
             nh == [f \in Fields |-> IF pairs[f] # Nil THEN pairs[f] ELSE h[f]]
         IN Res(replaceEntry(d, k, Entry("hash", Kept(d, k), nh)), 1)

HSetNX(d, k, f, v) ==
    IF WrongType(d, k, "hash") THEN Res(d, Fail)
    ELSE IF HashOf(d, k)[f] # Nil THEN Res(d, 0)
    ELSE Res(replaceEntry(d, k, Entry("hash", Kept(d, k), [HashOf(d, k) EXCEPT ![f] = v])), 1)

\* The hash is replaced even when no field was there, and purged when none is left.
HDel(d, k, fs) ==
    IF Lookup(d, k) = None THEN Res(purgeEntryLocked(d, k), 0)
    ELSE IF WrongType(d, k, "hash") THEN Res(d, Fail)
    ELSE LET h == HashOf(d, k)
             nh == [f \in Fields |-> IF f \in fs THEN Nil ELSE h[f]]
             n == Cardinality({f \in fs : h[f] # Nil})
         IN IF nh = EmptyHash THEN Res(purgeEntryLocked(d, k), n)
            ELSE Res(replaceEntry(d, k, Entry("hash", Kept(d, k), nh)), n)

HIncrBy(d, k, f, delta) ==
    IF WrongType(d, k, "hash") THEN Res(d, Fail)
    ELSE LET h == HashOf(d, k)
             old == IF h[f] = Nil THEN <<>> ELSE h[f]
         IN IF ~IsInteger(old) \/ addInt64(ToInteger(old), delta) = Nil
            THEN Res(Untouched(d, k), Fail)
            ELSE Res(replaceEntry(d, k, Entry("hash", Kept(d, k),
                         [h EXCEPT ![f] = <<addInt64(ToInteger(old), delta)>>])), 1)

\* Floats do not overflow.
HIncrByFloat(d, k, f, delta) ==
    IF WrongType(d, k, "hash") THEN Res(d, Fail)
    ELSE LET h == HashOf(d, k)
             old == IF h[f] = Nil THEN <<>> ELSE h[f]
         IN IF ~IsFloat(old) THEN Res(Untouched(d, k), Fail)
            ELSE Res(replaceEntry(d, k, Entry("hash", Kept(d, k),
                         [h EXCEPT ![f] = <<ToInteger(old) + delta>>])), 1)

-----------------------------------------------------------------------------
(* Sets: store_collections.go *)

SetOf(d, k) == IF Lookup(d, k) = None THEN {} ELSE Val(Lookup(d, k))

SAdd(d, k, ms) ==
    IF WrongType(d, k, "set") THEN Res(d, Fail)
    ELSE Res(replaceEntry(d, k, Entry("set", Kept(d, k), SetOf(d, k) \cup ms)),
             Cardinality(ms \ SetOf(d, k)))

\* An empty set is purged, also one that was empty before (a *STORE made it).
SRem(d, k, ms) ==
    IF Lookup(d, k) = None THEN Res(purgeEntryLocked(d, k), 0)
    ELSE IF WrongType(d, k, "set") THEN Res(d, Fail)
    ELSE LET left == SetOf(d, k) \ ms
             n == Cardinality(SetOf(d, k) \cap ms)
         IN IF left = {} THEN Res(purgeEntryLocked(d, k), n)
            ELSE Res(replaceEntry(d, k, Entry("set", Kept(d, k), left)), n)

\* Any type is overwritten, its TTL is kept, an empty set is stored.
ReplaceSet(d, k, ms) == replaceEntry(d, k, Entry("set", Kept(d, k), ms))

-----------------------------------------------------------------------------
(* Lists: store_collections.go, store_list_extra.go *)

ListOf(d, k) == IF Lookup(d, k) = None THEN <<>> ELSE Val(Lookup(d, k))

\* The elements of s at the positions of I, in order.
At(s, I) ==
    [n \in 1 .. Cardinality(I) |->
        s[CHOOSE i \in I : Cardinality({j \in I : j <= i}) = n]]

\* A mutant of StoreList: an empty list stays.
StoreListEmpty(d, k, l) == replaceEntry(d, k, Entry("list", Kept(d, k), l))

\* A list operation that leaves no element purges the key.
StoreList(d, k, l) ==
    IF l = <<>> THEN purgeEntryLocked(d, k) ELSE replaceEntry(d, k, Entry("list", Kept(d, k), l))

listPush(d, k, vals, left) ==
    IF WrongType(d, k, "list") THEN Res(d, Fail)
    ELSE LET l == IF left THEN Reverse(vals) \o ListOf(d, k) ELSE ListOf(d, k) \o vals
         IN Res(StoreList(d, k, l), Len(l))

listPushX(d, k, vals, left) ==
    IF Lookup(d, k) = None THEN Res(purgeEntryLocked(d, k), 0) ELSE listPush(d, k, vals, left)

LPop(d, k, count) ==
    IF Lookup(d, k) = None THEN Res(purgeEntryLocked(d, k), 0)
    ELSE IF WrongType(d, k, "list") THEN Res(d, Fail)
    ELSE LET l == ListOf(d, k)
             n == Min({count, Len(l)})
         IN Res(StoreList(d, k, SubSeq(l, n + 1, Len(l))), n)

RPop(d, k, count) ==
    IF Lookup(d, k) = None THEN Res(purgeEntryLocked(d, k), 0)
    ELSE IF WrongType(d, k, "list") THEN Res(d, Fail)
    ELSE LET l == ListOf(d, k)
             n == Min({count, Len(l)})
         IN Res(StoreList(d, k, SubSeq(l, 1, Len(l) - n)), n)

\* 0-based; an index before the head is the head, one past the tail is the tail.
normalizeListIndex(idx, n) ==
    LET i == IF idx < 0 THEN n + idx ELSE idx
    IN IF i < 0 THEN 0 ELSE IF i >= n THEN n - 1 ELSE i

LSet(d, k, idx, v) ==
    IF Lookup(d, k) = None THEN Res(purgeEntryLocked(d, k), Fail)
    ELSE IF WrongType(d, k, "list") THEN Res(d, Fail)
    ELSE LET l == ListOf(d, k)
         IN IF idx >= Len(l) THEN Res(d, Fail)
            ELSE Res(StoreList(d, k, ReplaceAt(l, normalizeListIndex(idx, Len(l)) + 1, v)), 1)

\* count > 0: the first count occurrences; count < 0: the last ones; 0: all.
LRem(d, k, count, v) ==
    IF Lookup(d, k) = None THEN Res(purgeEntryLocked(d, k), 0)
    ELSE IF WrongType(d, k, "list") THEN Res(d, Fail)
    ELSE LET l == ListOf(d, k)
             occ == {i \in DOMAIN l : l[i] = v}
             gone == CASE count = 0 -> occ
                       [] count > 0 -> {i \in occ : Cardinality({j \in occ : j <= i}) <= count}
                       [] OTHER     -> {i \in occ : Cardinality({j \in occ : j >= i}) <= -count}
         IN Res(StoreList(d, k, At(l, (DOMAIN l) \ gone)), Cardinality(gone))

\* The elements LRANGE returns: a start past the tail is an empty range.
LRange(l, start, stop) ==
    IF l = <<>> \/ start >= Len(l) THEN <<>>
    ELSE SubSeq(l, normalizeListIndex(start, Len(l)) + 1, normalizeListIndex(stop, Len(l)) + 1)

\* LTrim has no such test: a start past the tail is the tail.
LTrimmed(l, start, stop) ==
    SubSeq(l, normalizeListIndex(start, Len(l)) + 1, normalizeListIndex(stop, Len(l)) + 1)

LTrim(d, k, start, stop) ==
    IF Lookup(d, k) = None THEN Res(purgeEntryLocked(d, k), 1)
    ELSE IF WrongType(d, k, "list") THEN Res(d, Fail)
    ELSE Res(StoreList(d, k, LTrimmed(ListOf(d, k), start, stop)), 1)

LInsert(d, k, before, pivot, v) ==
    IF Lookup(d, k) = None THEN Res(purgeEntryLocked(d, k), 0)
    ELSE IF WrongType(d, k, "list") THEN Res(d, Fail)
    ELSE LET l == ListOf(d, k)
             at == SelectInSeq(l, LAMBDA e : e = pivot)
         IN IF at = 0 THEN Res(d, Fail)
            ELSE Res(StoreList(d, k, InsertAt(l, IF before THEN at ELSE at + 1, v)), Len(l) + 1)

-----------------------------------------------------------------------------
(* Keys of any type: store.go *)

Del(d, ks) ==
    [db |-> [k \in Keys |-> IF k \in ks THEN None ELSE d[k]],
     n  |-> Cardinality({k \in ks : Lookup(d, k) # None})]

\* A key renamed to itself is left alone, whether it exists or not.
Rename(d, src, dst) ==
    IF src = dst THEN Res(d, 1)
    ELSE IF Lookup(d, src) = None THEN Res(purgeEntryLocked(d, src), Fail)
    ELSE Res([d EXCEPT ![src] = None, ![dst] = d[src]], 1)

RenameNX(d, src, dst) ==
    IF src = dst THEN Res(d, 1)
    ELSE IF Lookup(d, src) = None THEN Res(purgeEntryLocked(d, src), 0)
    ELSE IF Lookup(d, dst) # None THEN Res(d, 0)
    ELSE Res([d EXCEPT ![src] = None, ![dst] = d[src]], 1)

ExpireAt(d, k, x) ==
    IF Lookup(d, k) = None THEN Res(purgeEntryLocked(d, k), 0)
    ELSE Res(replaceEntry(d, k, Entry(TypeOf(d[k]), x, Val(d[k]))), 1)

Persist(d, k) ==
    IF Lookup(d, k) = None THEN Res(purgeEntryLocked(d, k), 0)
    ELSE IF Deadline(d[k]) = NoTTL THEN Res(d, 0)
    ELSE Res(replaceEntry(d, k, Entry(TypeOf(d[k]), NoTTL, Val(d[k]))), 1)

\* Whole milliseconds left; -1 without a TTL, -2 without a key.
TTLMs(d, k) ==
    IF Lookup(d, k) = None THEN -2
    ELSE IF Deadline(d[k]) = NoTTL THEN -1
    ELSE Deadline(d[k]) - clock

FlushDB == [k \in Keys |-> None]

\* What clients see: the entries that are not expired.
View(d) == [k \in Keys |-> Lookup(d, k)]
=============================================================================
