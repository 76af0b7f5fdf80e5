------------------------------- MODULE Scan -------------------------------
(***************************************************************************)
(* A client walks the key space with SCAN while other clients write to it: *)
(* store_scan.go, with Keys of store.go and cmdScan of generic.go.  A      *)
(* cursor is a position in the sorted list of the keys that match, and the *)
(* list is made anew for every call.  One call of Scan is not atomic: Keys *)
(* locks one shard after another, and the TYPE filter reads the type of    *)
(* one key after another.  Keys are numbers; their order is that of the    *)
(* names.                                                                  *)
(***************************************************************************)
EXTENDS Reads

CONSTANTS Shards,       \* a sequence of sets of keys: the shards in the order Keys visits them
          Start,        \* the key spaces to begin with
          Count,        \* the COUNT option
          Match,        \* the MATCH option: "*" (also without the option) or "*/*"
          Wants,        \* what the TYPE option may be: type names, "" without the option
          TTLs,
          MaxTime,      \* bound: the clock stops here
          MaxWrites     \* bound: writes in a behaviour

ASSUME ShardsPartition ==
    /\ UNION Range(Shards) = Keys
    /\ \A i, j \in DOMAIN Shards : i # j => Shards[i] \cap Shards[j] = {}
ASSUME CountPositive == Count \in Nat \ {0}

VARIABLES db,       \* the key space
          writes,   \* writes so far
          want,     \* the TYPE option of this iteration
          pc,       \* where the call of Scan is: "idle", "keys", "types"
          cursor,   \* the cursor the client holds
          step,     \* the shard or the key the call looks at next
          all,      \* the keys the call has collected
          done,     \* the iteration has come back to cursor 0
          got,      \* history: how often each key was returned in this iteration
          stayed,   \* history: keys that matched all through this iteration
          gone,     \* history: keys that matched and ceased to during this iteration
          came      \* history: keys that did not match and began to during this iteration

vars == <<clock, db, writes, want, pc, cursor, step, all, done, got, stayed, gone, came>>
scanner == <<want, pc, cursor, step, all, done, got>>

Matches(d) ==
    {k \in Keys : Lookup(d, k) # None /\ matchGlob(Match, k) /\ want \in {"", Type(d, k)}}

Init ==
    /\ clock = 1
    /\ db \in Start
    /\ writes = 0
    /\ want \in Wants
    /\ pc = "idle" /\ cursor = 0 /\ step = 1 /\ all = {}
    /\ done = FALSE
    /\ got = [k \in Keys |-> 0]
    /\ stayed = Matches(db)
    /\ gone = {} /\ came = {}

\* The histories follow every change of the clock or the key space.
Watch ==
    /\ stayed' = stayed \cap Matches(db)'
    /\ gone' = gone \cup (Matches(db) \ Matches(db)')
    /\ came' = came \cup (Matches(db)' \ Matches(db))

-----------------------------------------------------------------------------
(* The scanning client *)

Call ==
    /\ pc = "idle" /\ ~done
    /\ pc' = "keys" /\ step' = 1 /\ all' = {}
    /\ UNCHANGED <<clock, db, writes, want, cursor, done, got, stayed, gone, came>>

\* Keys collects what is not expired in one shard; it purges nothing.
KeysShard ==
    /\ pc = "keys" /\ step <= Len(Shards)
    /\ all' = all \cup KeysIn(db, Shards[step], Match)
    /\ step' = step + 1
    /\ UNCHANGED <<clock, db, writes, want, pc, cursor, done, got, stayed, gone, came>>

Filter ==
    /\ pc = "keys" /\ step > Len(Shards) /\ want # ""
    /\ pc' = "types" /\ step' = 1
    /\ UNCHANGED <<clock, db, writes, want, cursor, all, done, got, stayed, gone, came>>

\* Type purges the key if it is expired; a key of another type is dropped.
FilterKey ==
    /\ pc = "types"
    /\ \E k \in all :
         /\ step <= k /\ \A j \in all : j >= step => k <= j
         /\ all' = IF Type(db, k) = want THEN all ELSE all \ {k}
         /\ db' = Untouched(db, k)
         /\ step' = k + 1
    /\ UNCHANGED <<clock, writes, want, pc, cursor, done, got>>
    /\ Watch

\* A mutant of Page: it starts one position late.
PageLate == {k \in all : LET pos == Cardinality({j \in all : j < k})
                         IN cursor < pos /\ pos <= cursor + Count}

\* A mutant of Page: it ends one position late.
PageLong == {k \in all : LET pos == Cardinality({j \in all : j < k})
                         IN cursor <= pos /\ pos <= cursor + Count}

\* A mutant of NextCursor: it stops at the end and does not come back to 0.
NextCursorStays == IF cursor + Count <= Cardinality(all) THEN cursor + Count ELSE cursor

\* The page of all that begins at the cursor, and the next cursor: 0 at the end.
Page == {k \in all : LET pos == Cardinality({j \in all : j < k})
                     IN cursor <= pos /\ pos < cursor + Count}
NextCursor == IF cursor + Count < Cardinality(all) THEN cursor + Count ELSE 0

Reply ==
    /\ \/ pc = "keys" /\ step > Len(Shards) /\ want = ""
       \/ pc = "types" /\ \A k \in all : k < step
    /\ pc' = "idle"
    /\ cursor' = NextCursor
    /\ got' = [k \in Keys |-> IF k \in Page THEN got[k] + 1 ELSE got[k]]
    /\ done' = (NextCursor = 0)
    /\ all' = {} /\ step' = 1
    /\ UNCHANGED <<clock, db, writes, want, stayed, gone, came>>

Scanner == Call \/ KeysShard \/ Filter \/ FilterKey \/ Reply

-----------------------------------------------------------------------------
(* The other clients, and time *)

Write(d) ==
    /\ writes < MaxWrites
    /\ writes' = writes + 1
    /\ db' = d
    /\ UNCHANGED <<clock, scanner>>
    /\ Watch

WriteString == \E k \in Keys, x \in {NoTTL} \cup {clock + t : t \in TTLs} :
                  Write(Set(db, k, <<1>>, x))
WriteSet == \E k \in Keys : Write(ReplaceSet(db, k, Elems))
Delete == \E k \in Keys : Write(Del(db, {k}).db)
Flush == Write(FlushDB)

Tick ==
    /\ clock < MaxTime
    /\ clock' = clock + 1
    /\ db' = db
    /\ UNCHANGED <<writes, scanner>>
    /\ Watch

Next == Scanner \/ WriteString \/ WriteSet \/ Delete \/ Flush \/ Tick

\* The client goes on with its iteration and the call runs to its end.
Spec == Init /\ [][Next]_vars /\ WF_vars(Scanner)

-----------------------------------------------------------------------------
(* Properties *)

(***************************************************************************)
(* A completed iteration has returned every key that matched all through   *)
(* it, unless a key that sorts before it ceased to match meanwhile: then   *)
(* the positions move down and the next page starts too late.  About Scan, *)
(* whose cursor is a position in a list that is made anew for each call.   *)
(***************************************************************************)
ScanMissesOnlyShifted ==
    done => \A k \in stayed : got[k] = 0 => \E j \in gone : j < k

(***************************************************************************)
(* An iteration returns no key twice, unless a key that sorts before it    *)
(* began to match meanwhile.  About the same positions moving up.          *)
(***************************************************************************)
ScanRepeatsOnlyShifted ==
    \A k \in Keys : got[k] > 1 => \E j \in came : j < k

(***************************************************************************)
(* An iteration ends, however the other clients write: each call moves the *)
(* cursor on, or past the end of the list.  About the cursor arithmetic of *)
(* Scan.                                                                   *)
(***************************************************************************)
ScanEnds == <>done

\* The indexes of a value of n elements from both ends, and one past each end.
Indexes(n) == -(n + 1) .. n + 1

\* What Redis shows of s from the index i to the index j: the elements at the positions
\* between the two, a negative index counting from the end.
RedisRange(s, i, j) ==
    LET pos(x) == IF x < 0 THEN Len(s) + x ELSE x
    IN At(s, {p \in DOMAIN s : pos(i) < p /\ p <= pos(j) + 1})

(***************************************************************************)
(* The four implementations of index ranges show the same elements as      *)
(* Redis does, with two differences, both against the comments in          *)
(* store_list_extra.go ("Redis semantics" at 165, "nil if out of range" at *)
(* 27, "index out of range" at 101).  An index before the head that says   *)
(* where a range ends, or which element LINDEX and LSET take, is the head. *)
(* A start past the end is the end for LTRIM, which keeps the last element *)
(* where Redis removes the key, and for GETRANGE; LRANGE has it right.     *)
(* LSET changes exactly the element LINDEX shows, and fails where it shows *)
(* none.  About normalizeListIndex and normRange and the tests before      *)
(* them.                                                                   *)
(***************************************************************************)
RangesAgree ==
    \A k \in Keys :
        LET NotBefore(i, n) == IF n + i < 0 THEN 0 ELSE i
            NotPast(i, n) == IF i < n THEN i ELSE n - 1
            l == ListOf(db, k)
            n == Len(l)
            s == Get(db, k)
        IN /\ Type(db, k) = "list" =>
                \A i \in Indexes(n) :
                  /\ \A j \in Indexes(n) :
                       /\ LRange(l, i, j) = RedisRange(l, i, NotBefore(j, n))
                       /\ ListOf(LTrim(db, k, i, j).db, k) =
                             RedisRange(l, NotPast(i, n), NotBefore(j, n))
                  /\ LIndex(l, i) = LET e == RedisRange(l, NotBefore(i, n), NotBefore(i, n))
                                    IN IF e = <<>> THEN Nil ELSE e
                  /\ \A e \in Elems :
                       LET r == LSet(db, k, i, e)
                           at == IF i < 0 THEN Max({n + i, 0}) ELSE i
                       IN IF LIndex(l, i) = Nil THEN r.n = Fail
                          ELSE \A j \in 0 .. n - 1 : LIndex(ListOf(r.db, k), j) =
                                                       (IF j = at THEN <<e>> ELSE LIndex(l, j))
           /\ Type(db, k) = "string" /\ s # Nil =>
                \A i, j \in Indexes(Len(s)) :
                  cmdGetRange(db, k, i, j) =
                    Bulk(RedisRange(s, NotPast(i, Len(s)), NotBefore(j, Len(s))))

(***************************************************************************)
(* Commands that show the same data tell the same story, in every state    *)
(* (expired entries still in the map included): the counting commands      *)
(* count what the listing ones list, HGET shows nothing exactly for a      *)
(* missing field or one that holds the empty string, the set algebra of a  *)
(* key with itself is its members, and EXISTS, TYPE, TTL, PTTL and DBSIZE  *)
(* agree on which keys there are.  KEYS * and RANDOMKEY show those of them *)
(* that have no '/' in their names and no other: RANDOMKEY replies nil     *)
(* when all the keys have one.  About the read handlers and matchGlob.     *)
(***************************************************************************)
RepliesAgree ==
    /\ cmdDBSize(db) = Num(Cardinality(cmdKeys(db, "*")[2]) + Cardinality(cmdKeys(db, "*/*")[2]))
    /\ (NilBulk \in cmdRandomKey(db)) = \A k \in Keys \ Slashed : Type(db, k) = "none"
    /\ \A k \in Keys :
         LET t == Type(db, k)
         IN /\ (k \in cmdKeys(db, "*")[2]) = (t # "none" /\ k \notin Slashed)
            /\ (k \in cmdKeys(db, "*/*")[2]) = (t # "none" /\ k \in Slashed)
            /\ (Bulk(k) \in cmdRandomKey(db)) = (t # "none" /\ k \notin Slashed)
            /\ cmdExists(db, <<k, k>>) = Num(IF t = "none" THEN 0 ELSE 2)
            /\ (cmdTTL(db, k) = Num(-2)) = (t = "none")
            /\ cmdTTL(db, k) = (IF TTLMs(db, k) < 0 THEN cmdPTTL(db, k)
                                ELSE Num(TTLMs(db, k) \div Second))
            /\ t \in {"string", "none"} =>
                 /\ cmdStrLen(db, k) = Num(Len(cmdGetRange(db, k, 0, -1)[2]))
                 /\ cmdMGet(db, <<k>>) = Many(<<cmdGet(db, k)>>)
            /\ t \in {"hash", "none"} =>
                 /\ cmdHLen(db, k) = Num(Len(cmdHKeys(db, k)[2]))
                 /\ Len(cmdHGetAll(db, k)[2]) = 2 * Len(cmdHVals(db, k)[2])
                 /\ \A i \in DOMAIN cmdHKeys(db, k)[2] :
                      LET f == cmdHKeys(db, k)[2][i]
                          v == cmdHVals(db, k)[2][i]
                      IN /\ cmdHExists(db, k, f) = Num(1)
                         /\ cmdHGet(db, k, f) = (IF v = <<>> THEN NilBulk ELSE Bulk(v))
                         /\ cmdHMGet(db, k, <<f>>) = Many(<<cmdHGet(db, k, f)>>)
                         /\ cmdHGetAll(db, k)[2][2 * i] = <<"value", v>>
            /\ t \in {"set", "none"} =>
                 /\ cmdSCard(db, k) = Num(Cardinality(cmdSMembers(db, k)[2]))
                 /\ \A m \in Elems : cmdSIsMember(db, k, m) = Num(1) <=> m \in cmdSMembers(db, k)[2]
                 /\ cmdSUnion(db, k, k) = cmdSMembers(db, k)
                 /\ cmdSInter(db, k, k) = cmdSMembers(db, k)
                 /\ cmdSDiff(db, k, k) = Many({})
            /\ t \in {"list", "none"} =>
                 cmdLLen(db, k) = Num(Len(cmdLRange(db, k, 0, -1)[2]))
=============================================================================
