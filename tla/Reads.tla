------------------------------ MODULE Reads ------------------------------
(***************************************************************************)
(* The replies of the commands that only read, as operators on a key space *)
(* (see Keyspace).  A reply is a tuple: its kind, then what it carries.    *)
(* Members and keys, which the code sorts by name, are given as sets.  The *)
(* only thing a read changes is that it purges an entry it finds expired;  *)
(* that is Untouched of Keyspace, and not repeated here.                   *)
(***************************************************************************)
EXTENDS Keyspace

CONSTANTS Second,     \* milliseconds in a second, scaled down
          Slashed     \* the keys with one '/' in their name; the others have none

ASSUME SlashedKeys == Slashed \subseteq Keys

WRONGTYPE == <<"error">>
Closed    == <<"closed">>       \* the handler returned an error: no reply, the connection ends
NilBulk   == <<"nil">>
Bulk(v)   == <<"bulk", v>>
Num(n)    == <<"int", n>>
Many(s)   == <<"array", s>>

\* writeBulk: a nil slice, which a copy of an empty value is, is written as a null reply.
writeBulk(v) == IF v = Nil THEN NilBulk ELSE Bulk(v)

-----------------------------------------------------------------------------
(* strings.go *)

cmdGet(d, k) == IF WrongType(d, k, "string") THEN WRONGTYPE ELSE writeBulk(Get(d, k))

\* MGet gives up at the first key of another type, and the handler passes the error on.
MGet(d, ks) ==
    IF \E i \in DOMAIN ks : WrongType(d, ks[i], "string") THEN Nil
    ELSE [i \in DOMAIN ks |-> Get(d, ks[i])]

cmdMGet(d, ks) ==
    IF MGet(d, ks) = Nil THEN Closed
    ELSE Many([i \in DOMAIN ks |-> writeBulk(MGet(d, ks)[i])])

cmdStrLen(d, k) ==
    IF WrongType(d, k, "string") THEN WRONGTYPE
    ELSE Num(IF Get(d, k) = Nil THEN 0 ELSE Len(Get(d, k)))

\* A mutant of normRange: the last byte is -2.
NormRangeShort(idx, n) ==
    LET i == IF idx < 0 THEN n + idx + 1 ELSE idx
    IN IF i < 0 THEN 0 ELSE IF i >= n THEN n - 1 ELSE i

normRange(idx, n) ==
    LET i == IF idx < 0 THEN n + idx ELSE idx
    IN IF i < 0 THEN 0 ELSE IF i >= n THEN n - 1 ELSE i

cmdGetRange(d, k, start, end) ==
    IF WrongType(d, k, "string") THEN WRONGTYPE
    ELSE IF Get(d, k) = Nil THEN Bulk(<<>>)
    ELSE LET s == Get(d, k)
         IN Bulk(SubSeq(s, normRange(start, Len(s)) + 1, normRange(end, Len(s)) + 1))

-----------------------------------------------------------------------------
(* hashes.go *)

\* The field names of a hash in their sorted order.
FieldNames(h) == SelectSeq(SetToSeq(Fields), LAMBDA f : h[f] # Nil)

\* HGet copies the value: an empty one comes back as nil, like a missing field.
HGet(d, k, f) == IF HashOf(d, k)[f] = <<>> THEN Nil ELSE HashOf(d, k)[f]

cmdHGet(d, k, f) == IF WrongType(d, k, "hash") THEN WRONGTYPE ELSE writeBulk(HGet(d, k, f))

cmdHMGet(d, k, fs) ==
    IF WrongType(d, k, "hash") THEN WRONGTYPE
    ELSE Many([i \in DOMAIN fs |-> writeBulk(HGet(d, k, fs[i]))])

cmdHGetAll(d, k) ==
    IF WrongType(d, k, "hash") THEN WRONGTYPE
    ELSE LET names == FieldNames(HashOf(d, k))
         IN Many([i \in 1 .. 2 * Len(names) |->
                    IF i % 2 = 1 THEN <<"name", names[(i + 1) \div 2]>>
                    ELSE <<"value", HashOf(d, k)[names[i \div 2]]>>])

HExists(d, k, f) == HashOf(d, k)[f] # Nil
HLen(d, k) == Cardinality({f \in Fields : HExists(d, k, f)})

cmdHExists(d, k, f) ==
    IF WrongType(d, k, "hash") THEN WRONGTYPE ELSE Num(IF HExists(d, k, f) THEN 1 ELSE 0)

cmdHLen(d, k) == IF WrongType(d, k, "hash") THEN WRONGTYPE ELSE Num(HLen(d, k))

cmdHKeys(d, k) == IF WrongType(d, k, "hash") THEN WRONGTYPE ELSE Many(FieldNames(HashOf(d, k)))

cmdHVals(d, k) ==
    IF WrongType(d, k, "hash") THEN WRONGTYPE
    ELSE LET names == FieldNames(HashOf(d, k))
         IN Many([i \in DOMAIN names |-> HashOf(d, k)[names[i]]])

-----------------------------------------------------------------------------
(* sets.go *)

cmdSMembers(d, k) == IF WrongType(d, k, "set") THEN WRONGTYPE ELSE Many(SetOf(d, k))

SIsMember(d, k, m) == m \in SetOf(d, k)
SCard(d, k) == Cardinality(SetOf(d, k))

cmdSIsMember(d, k, m) ==
    IF WrongType(d, k, "set") THEN WRONGTYPE ELSE Num(IF SIsMember(d, k, m) THEN 1 ELSE 0)

cmdSCard(d, k) == IF WrongType(d, k, "set") THEN WRONGTYPE ELSE Num(SCard(d, k))

\* Two source keys a, b; Nil for a key of another type.  A missing first key ends the
\* intersection and the difference before b is read.
unionMembers(d, a, b) ==
    IF WrongType(d, a, "set") \/ WrongType(d, b, "set") THEN Nil
    ELSE SetOf(d, a) \cup SetOf(d, b)

interMembers(d, a, b) ==
    IF WrongType(d, a, "set") THEN Nil
    ELSE IF Lookup(d, a) = None THEN {}
    ELSE IF WrongType(d, b, "set") THEN Nil
    ELSE SetOf(d, a) \cap SetOf(d, b)

diffMembers(d, a, b) ==
    IF WrongType(d, a, "set") THEN Nil
    ELSE IF Lookup(d, a) = None THEN {}
    ELSE IF WrongType(d, b, "set") THEN Nil
    ELSE SetOf(d, a) \ SetOf(d, b)

writeMembers(ms) == IF ms = Nil THEN WRONGTYPE ELSE Many(ms)

cmdSUnion(d, a, b) == writeMembers(unionMembers(d, a, b))
cmdSInter(d, a, b) == writeMembers(interMembers(d, a, b))
cmdSDiff(d, a, b) == writeMembers(diffMembers(d, a, b))

-----------------------------------------------------------------------------
(* lists.go *)

listLenLocked(d, k) == Len(ListOf(d, k))

cmdLLen(d, k) == IF WrongType(d, k, "list") THEN WRONGTYPE ELSE Num(listLenLocked(d, k))

\* An index past the tail has no element; one before the head is the head.
LIndex(l, idx) ==
    IF l = <<>> \/ idx >= Len(l) THEN Nil ELSE <<l[normalizeListIndex(idx, Len(l)) + 1]>>

cmdLIndex(d, k, idx) ==
    IF WrongType(d, k, "list") THEN WRONGTYPE ELSE writeBulk(LIndex(ListOf(d, k), idx))

cmdLRange(d, k, start, stop) ==
    IF WrongType(d, k, "list") THEN WRONGTYPE ELSE Many(LRange(ListOf(d, k), start, stop))

-----------------------------------------------------------------------------
(* generic.go *)

\* A key named twice counts twice.
Exists(d, ks) == Cardinality({i \in DOMAIN ks : Lookup(d, ks[i]) # None})
cmdExists(d, ks) == Num(Exists(d, ks))

Type(d, k) == IF Lookup(d, k) = None THEN "none" ELSE TypeOf(Lookup(d, k))
cmdType(d, k) == <<"simple", Type(d, k)>>

\* Whole seconds left: 0 in the last second.
TTL(d, k) ==
    IF Lookup(d, k) = None THEN -2
    ELSE IF Deadline(d[k]) = NoTTL THEN -1
    ELSE (Deadline(d[k]) - clock) \div Second

cmdTTL(d, k) == Num(TTL(d, k))
cmdPTTL(d, k) == Num(TTLMs(d, k))

\* path.Match, for the patterns "*" and "*/*": a '*' does not match a '/'.
matchGlob(pattern, k) == IF pattern = "*" THEN k \notin Slashed ELSE k \in Slashed

\* Keys and DBSize walk over every shard and purge nothing.
KeysIn(d, part, pattern) == {k \in part : d[k] # None /\ ~isExpired(d[k]) /\ matchGlob(pattern, k)}
cmdKeys(d, pattern) == Many(KeysIn(d, Keys, pattern))

\* RANDOMKEY replies with any of the keys that match "*".
cmdRandomKey(d) ==
    LET keys == KeysIn(d, Keys, "*") IN IF keys = {} THEN {NilBulk} ELSE {Bulk(k) : k \in keys}

\* A mutant of DBSize: expired entries count.
DBSizeAll(d) == Cardinality({k \in Keys : d[k] # None})

DBSize(d) == Cardinality({k \in Keys : d[k] # None /\ ~isExpired(d[k])})
cmdDBSize(d) == Num(DBSize(d))
=============================================================================
