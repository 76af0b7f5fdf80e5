--------------------------- MODULE StoreMemory ---------------------------
(***************************************************************************)
(* The memory account and the eviction of internal/store under concurrent  *)
(* calls: store.go, eviction.go and expiry.go.  Every shard has a lock; a  *)
(* call that needs memory releases the lock of its shard while it evicts   *)
(* (ensureMemoryWithRetry) and takes it again; the account is one atomic   *)
(* counter for all shards.                                                 *)
(*                                                                         *)
(* An entry is abstracted to its type, its deadline and a number n: the    *)
(* length of a string or of a list.  Its size is Overhead + n.  The calls  *)
(* that build a new value and then ask for memory (Append, listPush and,   *)
(* in the same way, HSet, HSetNX, HIncrBy, SAdd, ReplaceSet, LInsert and   *)
(* listPushX) are represented by Append, listPush and GetSet.              *)
(***************************************************************************)
EXTENDS Integers, Sequences, FiniteSets, SequencesExt

CONSTANTS Procs,            \* goroutines that call the store
          Keys,
          NumShards,
          shardIndex,       \* the shard of each key
          MaxMemory,        \* maxmemory, 0 for no limit
          Start,            \* pairs of an eviction policy and the entries to begin with
          Reloads,          \* pairs of a policy and the policy a hot reload switches to
          Overhead,         \* entryOverhead, scaled down
          Lengths,          \* lengths of the strings that are set
          Deadlines,        \* deadlines that are set, 0 for none
          MaxLen,           \* bound: length of a string or a list
          MaxTime,          \* bound: the clock stops here
          MaxOps            \* bound: calls in a behaviour

ASSUME ShardsKnown == NumShards \in Nat \ {0} /\ shardIndex \in [Keys -> 1 .. NumShards]

VARIABLES clock,
          policy,   \* policyCache
          st,       \* [m: the entries, mem: the account, all, vol: the LRU list of each shard]
          cursor,   \* evictCursor
          held,     \* the owner of each shard's lock
          pc,       \* per process: where it is in its call
          w,        \* per process: the local variables of its call
          ops,      \* calls begun so far
          due,      \* history: the length each entry would have if every call were atomic
          crowded,  \* history: processes whose eviction overlapped that of another
          stirred,  \* history: processes that evict while others changed the store
          alone,    \* history: processes whose call nothing else has interfered with
          causes    \* history: what has happened that lets account or lists go wrong

vars == <<clock, policy, st, cursor, held, pc, w, ops, due, crowded, stirred, alone, causes>>

Shards == 1 .. NumShards
free == "free"
NoEntry == [t |-> "none", dl |-> 0, n |-> 0, all |-> FALSE, vol |-> FALSE]
Entry(t, x, n) == [t |-> t, dl |-> x, n |-> n, all |-> FALSE, vol |-> FALSE]
Data(e) == <<e.t, e.dl, e.n>>

NoCall == [kind |-> "none", keys |-> {}, ne |-> NoEntry, delta |-> 0, seen |-> NoEntry,
           evicted |-> FALSE, need |-> <<>>, dest |-> {}, pol |-> "", tries |-> 0, best |-> {}]

-----------------------------------------------------------------------------
(* store.go: the account and the LRU lists.  s is a value of st. *)

estimateMem(e) == Overhead + e.n

addMem(s, delta) == [s EXCEPT !.mem = IF @ + delta < 0 THEN 0 ELSE @ + delta]

isExpired(e) == e # NoEntry /\ e.dl # 0 /\ clock > e.dl
Live(s, k) == s.m[k] # NoEntry /\ ~isExpired(s.m[k])

MoveToFront(l, k) == <<k>> \o SelectSeq(l, LAMBDA j : j # k)
Removed(l, k) == SelectSeq(l, LAMBDA j : j # k)

removeFromLRU(s, k, e) ==
    LET i == shardIndex[k]
    IN [s EXCEPT !.all[i] = IF e.all THEN Removed(@, k) ELSE @,
                 !.vol[i] = IF e.vol THEN Removed(@, k) ELSE @]

\* A mutant of purgeEntryLocked: the list elements stay.
PurgeKeepsElements(s, k) == addMem([s EXCEPT !.m[k] = NoEntry], -estimateMem(s.m[k]))

purgeEntryLocked(s, k) ==
    addMem([removeFromLRU(s, k, s.m[k]) EXCEPT !.m[k] = NoEntry], -estimateMem(s.m[k]))

\* eviction.go: an entry is linked only when its key has no list element yet.
touchAllKeysLRU(s, k) ==
    IF policy # "allkeys-lru" THEN s
    ELSE LET i == shardIndex[k]
         IN [s EXCEPT !.all[i] = MoveToFront(@, k),
                      !.m[k].all = @ \/ ~Contains(s.all[i], k)]

touchVolatileLRU(s, k) ==
    IF policy # "volatile-lru" THEN s
    ELSE LET i == shardIndex[k]
         IN IF s.m[k].dl = 0
            THEN [s EXCEPT !.vol[i] = IF s.m[k].vol THEN Removed(@, k) ELSE @, !.m[k].vol = FALSE]
            ELSE [s EXCEPT !.vol[i] = MoveToFront(@, k),
                           !.m[k].vol = @ \/ ~Contains(s.vol[i], k)]

touchLRU(s, k) == touchVolatileLRU(touchAllKeysLRU(s, k), k)

\* After a write the same is done for the new entry.
lruAfterSet(s, k) == touchVolatileLRU(touchAllKeysLRU(s, k), k)

\* A mutant of replaceEntry: the old entry stays on the account.
ReplaceAddsOnly(s, k, old, ne) ==
    LET s1 == IF old = NoEntry THEN s ELSE removeFromLRU(s, k, old)
    IN lruAfterSet(addMem([s1 EXCEPT !.m[k] = ne], estimateMem(ne)), k)

\* old is the entry that is replaced, NoEntry for none.
replaceEntry(s, k, old, ne) ==
    LET s1 == IF old = NoEntry THEN s
              ELSE addMem(removeFromLRU(s, k, old), -estimateMem(old))
    IN lruAfterSet(addMem([s1 EXCEPT !.m[k] = ne], estimateMem(ne)), k)

Purged(s, k) == IF isExpired(s.m[k]) THEN purgeEntryLocked(s, k) ELSE s

-----------------------------------------------------------------------------
InitStore(m) ==
    LET s0 == [m |-> m, mem |-> MapThenSumSet(LAMBDA k : IF m[k] = NoEntry THEN 0
                                                         ELSE estimateMem(m[k]), Keys),
               all |-> [i \in Shards |-> <<>>], vol |-> [i \in Shards |-> <<>>]]
    IN FoldSet(LAMBDA k, s : IF m[k] = NoEntry THEN s ELSE lruAfterSet(s, k), s0, Keys)

Init ==
    /\ clock = 1
    /\ \E x \in Start : policy = x[1] /\ st = InitStore(x[2])
    /\ cursor = 0
    /\ held = [i \in Shards |-> free]
    /\ pc = [p \in Procs |-> "idle"]
    /\ w = [p \in Procs |-> NoCall]
    /\ ops = 0
    /\ due = [k \in Keys |-> st.m[k].n]
    /\ crowded = {}
    /\ stirred = {}
    /\ alone = {}
    /\ causes = {}

-----------------------------------------------------------------------------
(* Calls *)

Unlocked(k) == held[shardIndex[k]] = free

\* What each entry's length is due to be after a step from st to s that changes no length.
Follow(s) == [k \in Keys |-> IF s.m[k] = NoEntry THEN 0 ELSE due[k]]

Busy(p) == {q \in Procs \ {p} : pc[q] # "idle"}

\* p begins a call.
Enter(p) ==
    /\ ops' = ops + 1
    /\ alone' = IF Busy(p) = {} THEN {p} ELSE {}

\* The whole call of p is one critical section: it leaves s behind.
Brief(p, k, s, d, why) ==
    /\ Enter(p) /\ Unlocked(k)
    /\ st' = s
    /\ due' = d
    /\ causes' = causes \cup why
    /\ UNCHANGED <<clock, policy, cursor, held, pc, w, crowded>>

\* p has taken the lock, looked at the key (leaving s) and is about to ask for the memory
\* that ne needs.
Ask(p, k, s, kind, ne, old) ==
    /\ Unlocked(k)
    /\ held' = [held EXCEPT ![shardIndex[k]] = p]
    /\ pc' = [pc EXCEPT ![p] = "ask"]
    /\ w' = [w EXCEPT ![p] = [NoCall EXCEPT
                !.kind = kind, !.keys = {k}, !.ne = ne, !.seen = old,
                !.delta = estimateMem(ne) - (IF Live(s, k) THEN estimateMem(s.m[k]) ELSE 0)]]
    /\ st' = s
    /\ due' = Follow(s)
    /\ UNCHANGED <<clock, policy, cursor, crowded, causes>>

Begin(p, k, s, kind, ne) ==
    /\ Enter(p)
    /\ ne.n <= MaxLen
    /\ Ask(p, k, s, kind, ne, s.m[k])

Fits(delta) == MaxMemory = 0 \/ delta <= 0 \/ st.mem + delta <= MaxMemory

\* evictFromStore is called; it reads the policy once.
StartEviction(p) ==
    LET others == {q \in Procs \ {p} : pc[q] = "evict"}
    IN /\ pc' = [pc EXCEPT ![p] = "evict"]
       /\ w' = [w EXCEPT ![p].evicted = TRUE, ![p].pol = policy]
       /\ crowded' = IF others = {} THEN crowded \ {p} ELSE crowded \cup others \cup {p}

\* ensureMemoryWithRetry: there is room, or the lock is released to evict.
ensureMemoryWithRetry(p) ==
    /\ pc[p] = "ask"
    /\ \/ /\ Fits(w[p].delta)
          /\ pc' = [pc EXCEPT ![p] = "store"]
          /\ UNCHANGED <<held, w, crowded>>
       \/ /\ ~Fits(w[p].delta)
          /\ \A k \in w[p].keys : held' = [held EXCEPT ![shardIndex[k]] = free]
          /\ StartEviction(p)
    /\ UNCHANGED <<clock, policy, st, cursor, ops, alone, due, causes>>

\* The call is over.
Return(p) ==
    /\ pc' = [pc EXCEPT ![p] = "idle"]
    /\ w' = [w EXCEPT ![p] = NoCall]
    /\ held' = [i \in Shards |-> IF held[i] = p THEN free ELSE held[i]]

\* evictFromStore has answered ok; the lock is taken again before anything else.
Evicted(p, ok) ==
    /\ pc' = [pc EXCEPT ![p] = IF ok THEN "relock" ELSE "oom"]
    /\ w' = [w EXCEPT ![p].pol = "", ![p].tries = 0, ![p].best = {}]

\* MSetNX evicts without a key to avoid and takes its locks later.
Relock(p) ==
    /\ pc[p] \in {"relock", "oom"}
    /\ IF w[p].kind = "msetnx"
       THEN IF pc[p] = "oom" THEN Return(p)
            ELSE pc' = [pc EXCEPT ![p] = "fit"] /\ UNCHANGED <<w, held>>
       ELSE \A k \in w[p].keys :
              /\ Unlocked(k)
              /\ IF pc[p] = "oom" THEN Return(p)
                 ELSE /\ pc' = [pc EXCEPT ![p] = "ask"]
                      /\ held' = [held EXCEPT ![shardIndex[k]] = p]
                      /\ UNCHANGED w
    /\ UNCHANGED <<clock, policy, st, cursor, ops, alone, due, crowded, causes>>

-----------------------------------------------------------------------------
(* store.go, store_collections.go: up to the request for memory *)

Str(n, x) == Entry("string", x, n)

Set(p) ==
    \E k \in Keys, n \in Lengths, x \in Deadlines : Begin(p, k, Purged(st, k), "set", Str(n, x))

SetNX(p) ==
    \E k \in Keys, n \in 1 .. MaxLen :
        IF Live(st, k) THEN Brief(p, k, st, due, {})
        ELSE Begin(p, k, Purged(st, k), "nx", Str(n, 0))

SetXX(p) ==
    \E k \in Keys, n \in Lengths :
        IF ~Live(st, k) THEN Brief(p, k, Purged(st, k), Follow(Purged(st, k)), {})
        ELSE Begin(p, k, st, "xx", Str(n, 0))

GetSet(p) ==
    \E k \in Keys, n \in Lengths :
        /\ Live(st, k) => st.m[k].t = "string"
        /\ Begin(p, k, Purged(st, k), "update", Str(n, 0))

AppendStr(p) ==
    \E k \in Keys :
        IF ~Live(st, k) THEN Begin(p, k, Purged(st, k), "append", Str(1, 0))
        ELSE /\ st.m[k].t = "string"
             /\ Begin(p, k, st, "grow", Str(st.m[k].n + 1, st.m[k].dl))

\* The local variable e still names the entry that was just purged.
incrBy(p) ==
    \E k \in Keys, carry \in {0, 1} :
        IF ~Live(st, k)
        THEN /\ Enter(p)
             /\ Ask(p, k, Purged(st, k), "incr", Str(1, 0),
                    [st.m[k] EXCEPT !.all = FALSE, !.vol = FALSE])
        ELSE /\ st.m[k].t = "string"
             /\ Begin(p, k, st, "update", Str(Max({1, st.m[k].n}) + carry, st.m[k].dl))

listPush(p) ==
    \E k \in Keys :
        IF ~Live(st, k) THEN Begin(p, k, Purged(st, k), "grow", Entry("list", 0, 1))
        ELSE /\ st.m[k].t = "list"
             /\ Begin(p, k, st, "grow", Entry("list", st.m[k].dl, st.m[k].n + 1))

\* INCRBYFLOAT and SETRANGE: a call of Get, then one of Set with what is made of it.
GetToSet(p) ==
    \E k \in Keys :
        /\ Enter(p) /\ Unlocked(k)
        /\ st.m[k].n < MaxLen
        /\ Live(st, k) => st.m[k].t = "string"
        /\ st' = IF Live(st, k) THEN touchLRU(st, k) ELSE Purged(st, k)
        /\ due' = Follow(st')
        /\ pc' = [pc EXCEPT ![p] = "between"]
        /\ w' = [w EXCEPT ![p] = [NoCall EXCEPT !.keys = {k}, !.seen = st'.m[k]]]
        /\ UNCHANGED <<clock, policy, cursor, held, crowded, causes>>

SetWhatWasGot(p) ==
    /\ pc[p] = "between"
    /\ \E k \in w[p].keys :
         Ask(p, k, Purged(st, k), "reset", Str(w[p].seen.n + 1, 0), w[p].seen)
    /\ UNCHANGED <<ops, alone>>

-----------------------------------------------------------------------------
(* store.go, store_collections.go: once there is room *)

Changed(p, k) == Data(st.m[k]) # Data(w[p].seen)

\* The call stores e in place of old; its length is due to be n.
StoreEntry(p, k, s, old, e, n, why) ==
    /\ st' = replaceEntry(s, k, old, e)
    /\ due' = [due EXCEPT ![k] = n]
    /\ causes' = causes \cup why

StoreNothing(s) == st' = s /\ due' = Follow(s) /\ UNCHANGED causes

\* An update computed before the lock was released is stored as it is.
Raced(p, k) == IF w[p].evicted /\ Changed(p, k) THEN {"unlocked"} ELSE {}

StoreSet(p, k) ==
    LET s == Purged(st, k) IN StoreEntry(p, k, s, s.m[k], w[p].ne, w[p].ne.n, {})

\* A mutant of StoreNX: no second look.
StoreNXBlind(p, k) == StoreEntry(p, k, Purged(st, k), NoEntry, w[p].ne, w[p].ne.n, {})

StoreNX(p, k) ==
    IF w[p].evicted /\ Live(st, k) THEN StoreNothing(st)
    ELSE StoreEntry(p, k, Purged(st, k), NoEntry, w[p].ne, w[p].ne.n, {})

StoreXX(p, k) ==
    IF w[p].evicted /\ ~Live(st, k) THEN StoreNothing(Purged(st, k))
    ELSE StoreEntry(p, k, st, st.m[k], w[p].ne, w[p].ne.n, {})

StoreUpdate(p, k) == StoreEntry(p, k, st, st.m[k], w[p].ne, w[p].ne.n, {})

StoreGrown(p, k) ==
    StoreEntry(p, k, st, st.m[k], w[p].ne, (IF Live(st, k) THEN due[k] ELSE 0) + 1, Raced(p, k))

\* incrBy on an expired key takes the entry off the account that purging it took off before.
StoreIncr(p, k) ==
    LET old == IF w[p].evicted THEN st.m[k] ELSE w[p].seen
    IN StoreEntry(p, k, st, old, w[p].ne, w[p].ne.n,
                  IF ~w[p].evicted /\ w[p].seen # NoEntry THEN {"incr expired"} ELSE {})

\* A mutant of StoreAppend: no second look.
StoreAppendBlind(p, k) ==
    StoreEntry(p, k, st, st.m[k], w[p].ne, (IF Live(st, k) THEN due[k] ELSE 0) + 1, {})

\* Append to a missing key looks again, but only at an entry that is not expired.
StoreAppend(p, k) ==
    IF w[p].evicted /\ Live(st, k)
    THEN IF st.m[k].t # "string" THEN StoreNothing(st)
         ELSE StoreEntry(p, k, st, st.m[k], Str(st.m[k].n + 1, st.m[k].dl), due[k] + 1, {})
    ELSE StoreEntry(p, k, st, NoEntry, w[p].ne, 1,
                    IF st.m[k] # NoEntry THEN {"append expired"} ELSE {})

\* The Set of a Get-then-Set: what others stored in between is overwritten.
StoreReset(p, k) ==
    LET s == Purged(st, k)
    IN StoreEntry(p, k, s, s.m[k], w[p].ne, (IF Live(st, k) THEN due[k] ELSE 0) + 1,
                  IF Changed(p, k) \/ isExpired(st.m[k]) THEN {"get, then set"} ELSE {})

Store(p) ==
    /\ pc[p] = "store"
    /\ \E k \in w[p].keys :
         \/ w[p].kind = "set" /\ StoreSet(p, k)
         \/ w[p].kind = "nx" /\ StoreNX(p, k)
         \/ w[p].kind = "xx" /\ StoreXX(p, k)
         \/ w[p].kind = "update" /\ StoreUpdate(p, k)
         \/ w[p].kind = "grow" /\ StoreGrown(p, k)
         \/ w[p].kind = "incr" /\ StoreIncr(p, k)
         \/ w[p].kind = "append" /\ StoreAppend(p, k)
         \/ w[p].kind = "reset" /\ StoreReset(p, k)
    /\ Return(p)
    /\ UNCHANGED <<clock, policy, cursor, ops, alone, crowded>>

-----------------------------------------------------------------------------
(* Calls that ask for no memory *)

Del(p) ==
    \E k \in Keys :
        LET s == IF st.m[k] = NoEntry THEN st ELSE purgeEntryLocked(st, k)
        IN Brief(p, k, s, Follow(s), {})

Get(p) ==
    \E k \in Keys :
        LET s == IF Live(st, k) /\ st.m[k].t = "string" THEN touchLRU(st, k) ELSE Purged(st, k)
        IN Brief(p, k, s, Follow(s), {})

ExpireAt(p) ==
    \E k \in Keys, x \in Deadlines \ {0} :
        LET s == IF Live(st, k)
                 THEN replaceEntry(st, k, st.m[k], Entry(st.m[k].t, x, st.m[k].n))
                 ELSE Purged(st, k)
        IN Brief(p, k, s, Follow(s), {})

\* LPop (RPop, LRem) shortens the list in place: when the old entry is taken off the
\* account, it has its new length already.
LPop(p) ==
    \E k \in Keys :
        IF ~Live(st, k) THEN Brief(p, k, Purged(st, k), Follow(Purged(st, k)), {})
        ELSE /\ st.m[k].t = "list"
             /\ LET s0 == touchLRU(st, k)
                    s1 == [s0 EXCEPT !.m[k].n = @ - 1]
                    s2 == IF s1.m[k].n = 0 THEN purgeEntryLocked(s1, k)
                          ELSE replaceEntry(s1, k, s1.m[k], Entry("list", s1.m[k].dl, s1.m[k].n))
                IN Brief(p, k, s2, [due EXCEPT ![k] = @ - 1], {"popped in place"})

-----------------------------------------------------------------------------
(* Calls on two keys: the locks are taken one after another, in shard order *)

ShardsOf(ks) == SetToSortSeq({shardIndex[k] : k \in ks}, <)

\* A mutant of BeginMulti: the shard of the key to be renamed is locked first.
BeginMultiUnordered(p, call) ==
    /\ Enter(p)
    /\ pc' = [pc EXCEPT ![p] = "lock"]
    /\ LET last == {shardIndex[k] : k \in call.dest}
       IN w' = [w EXCEPT ![p] = [call EXCEPT !.need = SetToSeq({shardIndex[k] : k \in call.keys} \ last)
                                                      \o SetToSeq(last)]]
    /\ UNCHANGED <<clock, policy, st, cursor, held, due, crowded, causes>>

BeginMulti(p, call) ==
    /\ Enter(p)
    /\ pc' = [pc EXCEPT ![p] = "lock"]
    /\ w' = [w EXCEPT ![p] = [call EXCEPT !.need = ShardsOf(call.keys)]]
    /\ UNCHANGED <<clock, policy, st, cursor, held, due, crowded, causes>>

CallRename(p) ==
    \E src, dst \in Keys :
        src # dst /\ BeginMulti(p, [NoCall EXCEPT !.kind = "rename", !.keys = {src, dst}, !.dest = {dst}])

CallMSetNX(p) ==
    \E ks \in SUBSET Keys, n \in 1 .. MaxLen :
        Cardinality(ks) = 2 /\ BeginMulti(p, [NoCall EXCEPT !.kind = "msetnx", !.keys = ks, !.ne = Str(n, 0)])

LockNext(p) ==
    /\ pc[p] = "lock" /\ w[p].need # <<>>
    /\ held[Head(w[p].need)] = free
    /\ held' = [held EXCEPT ![Head(w[p].need)] = p]
    /\ w' = [w EXCEPT ![p].need = Tail(@)]
    /\ UNCHANGED <<clock, policy, st, cursor, pc, ops, alone, due, crowded, causes>>

AllLocked(p, kind) == pc[p] = "lock" /\ w[p].need = <<>> /\ w[p].kind = kind

Rename(p) ==
    /\ AllLocked(p, "rename")
    /\ \E dst \in w[p].dest : \E src \in w[p].keys \ {dst} :
         IF ~Live(st, src) THEN st' = Purged(st, src) /\ due' = Follow(st')
         ELSE LET e == st.m[src]
                  s1 == IF st.m[dst] = NoEntry THEN st ELSE purgeEntryLocked(st, dst)
                  s2 == purgeEntryLocked(s1, src)
              IN /\ st' = replaceEntry(s2, dst, NoEntry, Entry(e.t, e.dl, e.n))
                 /\ due' = [due EXCEPT ![dst] = due[src], ![src] = 0]
    /\ Return(p)
    /\ UNCHANGED <<clock, policy, cursor, ops, alone, crowded, causes>>

\* The first pass of MSetNX purges what is expired and adds up the memory; the locks are
\* released to evict.
MSetNXFirst(p) ==
    /\ AllLocked(p, "msetnx") /\ ~w[p].evicted
    /\ IF \E k \in w[p].keys : Live(st, k) THEN Return(p) /\ UNCHANGED <<st, due>>
       ELSE /\ st' = FoldSet(LAMBDA k, s : Purged(s, k), st, w[p].keys)
            /\ due' = Follow(st')
            /\ held' = [i \in Shards |-> IF held[i] = p THEN free ELSE held[i]]
            /\ pc' = [pc EXCEPT ![p] = "fit"]
            /\ w' = [w EXCEPT ![p].evicted = TRUE,
                             ![p].delta = Cardinality(w[p].keys) * estimateMem(w[p].ne)]
    /\ UNCHANGED <<clock, policy, cursor, ops, alone, crowded, causes>>

evictUntilFits(p) ==
    /\ pc[p] = "fit"
    /\ \/ /\ Fits(w[p].delta)
          /\ pc' = [pc EXCEPT ![p] = "lock"]
          /\ w' = [w EXCEPT ![p].need = ShardsOf(w[p].keys)]
          /\ UNCHANGED crowded
       \/ /\ ~Fits(w[p].delta)
          /\ StartEviction(p)
    /\ UNCHANGED <<clock, policy, st, cursor, held, ops, alone, due, causes>>

MSetNXSecond(p) ==
    /\ AllLocked(p, "msetnx") /\ w[p].evicted
    /\ IF \E k \in w[p].keys : Live(st, k) THEN UNCHANGED <<st, due>>
       ELSE /\ st' = FoldSet(LAMBDA k, s : replaceEntry(Purged(s, k), k, NoEntry, w[p].ne),
                             st, w[p].keys)
            /\ due' = [k \in Keys |-> IF k \in w[p].keys THEN w[p].ne.n ELSE due[k]]
    /\ Return(p)
    /\ UNCHANGED <<clock, policy, cursor, ops, alone, crowded, causes>>

-----------------------------------------------------------------------------
(* eviction.go *)

\* A mutant of avoidKey: the key that is written may be evicted.
AvoidNothing(p) == {}

avoidKey(p) == IF w[p].kind = "msetnx" THEN {} ELSE w[p].keys

Evicting(p, pols) == pc[p] = "evict" /\ w[p].pol \in pols

\* One victim is purged.
Victim(p, k) ==
    /\ st' = purgeEntryLocked(st, k)
    /\ due' = Follow(st')
    /\ Evicted(p, TRUE)

NoVictim(p) == Evicted(p, FALSE) /\ UNCHANGED <<st, due>>

\* A mutant of evictLRU: one round less one shard.
EvictLRUShort(p, list, eligible) ==
    IF w[p].tries = NumShards - 1 THEN NoVictim(p) /\ UNCHANGED cursor
    ELSE LET i == cursor + 1
         IN /\ held[i] = free
            /\ cursor' = (cursor + 1) % NumShards
            /\ IF list[i] # <<>> /\ Last(list[i]) \in eligible \ avoidKey(p)
               THEN Victim(p, Last(list[i]))
               ELSE w' = [w EXCEPT ![p].tries = @ + 1] /\ UNCHANGED <<st, due, pc>>

\* One attempt of evictAllKeysLRU or evictVolatileLRU: only the back of a shard's list is a
\* candidate.  All evictions share the cursor.
evictLRU(p, list, eligible) ==
    IF w[p].tries = 2 * NumShards THEN NoVictim(p) /\ UNCHANGED cursor
    ELSE LET i == cursor + 1
         IN /\ held[i] = free
            /\ cursor' = (cursor + 1) % NumShards
            /\ IF list[i] # <<>> /\ Last(list[i]) \in eligible \ avoidKey(p)
               THEN Victim(p, Last(list[i]))
               ELSE w' = [w EXCEPT ![p].tries = @ + 1] /\ UNCHANGED <<st, due, pc>>

Stored == {k \in Keys : st.m[k] # NoEntry}
Volatile == {k \in Stored : st.m[k].dl # 0}

evictAllKeysLRU(p) ==
    /\ Evicting(p, {"allkeys-lru"})
    /\ evictLRU(p, st.all, Stored)
    /\ UNCHANGED <<clock, policy, held, ops, alone, crowded, causes>>

evictVolatileLRU(p) ==
    /\ Evicting(p, {"volatile-lru"})
    /\ evictLRU(p, st.vol, Volatile)
    /\ UNCHANGED <<clock, policy, held, ops, alone, crowded, causes>>

\* Random tries may all miss.
evictRandom(p) ==
    /\ Evicting(p, {"allkeys-random", "volatile-random"})
    /\ \/ \E k \in (IF w[p].pol = "allkeys-random" THEN Stored ELSE Volatile) \ avoidKey(p) :
            Unlocked(k) /\ Victim(p, k)
       \/ NoVictim(p)
    /\ UNCHANGED <<clock, policy, cursor, held, ops, alone, crowded, causes>>

\* The shards are searched one after another for the nearest deadline; the winner is purged
\* if it still has a TTL, whatever it has become.
evictVolatileTTL(p) ==
    /\ Evicting(p, {"volatile-ttl"})
    /\ IF w[p].tries < NumShards
       THEN LET i == w[p].tries + 1
                found == w[p].best \cup
                         {<<k, st.m[k].dl>> : k \in {j \in Volatile \ avoidKey(p) : shardIndex[j] = i}}
            IN /\ held[i] = free
               /\ \E best \in (IF found = {} THEN {{}} ELSE {{f} : f \in found}) :
                    /\ \A b \in best, f \in found : b[2] <= f[2]
                    /\ \A b \in best, old \in w[p].best : b = old \/ b[2] < old[2]
                    /\ w' = [w EXCEPT ![p].tries = i, ![p].best = best]
               /\ UNCHANGED <<st, due, pc>>
       ELSE \/ w[p].best = {} /\ NoVictim(p)
            \/ \E b \in w[p].best :
                 /\ Unlocked(b[1])
                 /\ IF b[1] \in Volatile THEN Victim(p, b[1]) ELSE NoVictim(p)
    /\ UNCHANGED <<clock, policy, cursor, held, ops, alone, crowded, causes>>

noeviction(p) ==
    /\ Evicting(p, {"noeviction"})
    /\ NoVictim(p)
    /\ UNCHANGED <<clock, policy, cursor, held, ops, alone, crowded, causes>>

evictFromStore(p) ==
    \/ evictAllKeysLRU(p) \/ evictVolatileLRU(p) \/ evictRandom(p) \/ evictVolatileTTL(p)
    \/ noeviction(p)

-----------------------------------------------------------------------------
(* expiry.go, time and configuration *)

\* The shards of the model are smaller than a sample: sampleOnceShard sees every key.
sampleOnceShard(i) ==
    LET dead == {k \in Stored : shardIndex[k] = i /\ isExpired(st.m[k])}
    IN /\ held[i] = free /\ dead # {}
       /\ st' = FoldSet(LAMBDA k, s : purgeEntryLocked(s, k), st, dead)
       /\ due' = Follow(st')
       /\ alone' = {p \in alone : w[p].keys \cap dead = {}}
       /\ UNCHANGED <<clock, policy, cursor, held, pc, w, ops, crowded, causes>>

Tick ==
    /\ clock < MaxTime
    /\ clock' = clock + 1
    /\ UNCHANGED <<policy, st, cursor, held, pc, w, ops, alone, due, crowded, stirred, causes>>

\* A hot reload changes the policy; entries stored before stay out of the new policy's list
\* until they are touched.
ReplaceConfig ==
    /\ \E x \in Reloads : policy = x[1] /\ policy' = x[2]
    /\ causes' = causes \cup {"reloaded"}
    /\ UNCHANGED <<clock, st, cursor, held, pc, w, ops, alone, due, crowded, stirred>>

\* Every step notes whose search for a victim it disturbs.
Stir ==
    stirred' = {p \in Procs : pc[p] = "evict" /\ pc'[p] = "evict" /\ (p \in stirred \/ st' # st)}

\* One idle goroutine is as good as another: the next call is always made by the same one.
StartCall(p) ==
    /\ pc[p] = "idle" /\ ops < MaxOps
    /\ p = CHOOSE q \in Procs : pc[q] = "idle"
    /\ \/ Set(p) \/ SetNX(p) \/ SetXX(p) \/ GetSet(p) \/ AppendStr(p) \/ incrBy(p) \/ listPush(p)
       \/ GetToSet(p) \/ CallRename(p) \/ CallMSetNX(p)
       \/ Del(p) \/ Get(p) \/ ExpireAt(p) \/ LPop(p)
    /\ Stir

Continue(p) ==
    /\ \/ SetWhatWasGot(p) \/ ensureMemoryWithRetry(p) \/ evictFromStore(p) \/ Relock(p) \/ Store(p)
       \/ LockNext(p) \/ Rename(p) \/ MSetNXFirst(p) \/ evictUntilFits(p) \/ MSetNXSecond(p)
    /\ Stir

Next ==
    \/ \E p \in Procs : StartCall(p) \/ Continue(p)
    \/ \E i \in Shards : sampleOnceShard(i) /\ Stir
    \/ Tick
    \/ ReplaceConfig

\* As long as a goroutine can go on with its call, one does: nothing is asked of the scheduler
\* about which.  Each such step changes pc or w.
Fairness == WF_<<pc, w>>(\E p \in Procs : Continue(p))

Spec == Init /\ [][Next]_vars /\ Fairness

-----------------------------------------------------------------------------
(* Properties *)

Sum == MapThenSumSet(LAMBDA k : IF st.m[k] = NoEntry THEN 0 ELSE estimateMem(st.m[k]), Keys)

(***************************************************************************)
(* The memory account is the sum of the sizes of the entries stored, in    *)
(* every interleaving of calls, evictions and expiry.  Three calls break   *)
(* it, and no other: LPop (RPop, LRem), which shortens a list before its   *)
(* old size is taken off; incrBy on an expired key, which takes the entry  *)
(* off twice; and Append to a missing key that appeared and expired while  *)
(* memory was made.  About addMem, purgeEntryLocked, replaceEntry and the  *)
(* calls of them.                                                          *)
(***************************************************************************)
AccountExact ==
    causes \cap {"popped in place", "incr expired", "append expired"} = {} => st.mem = Sum

(***************************************************************************)
(* Under an LRU policy the lists hold exactly the keys they should, each   *)
(* once, in its shard, linked from its entry: all keys, or those that      *)
(* expire.  Only Append to a key that appeared and expired meanwhile, and  *)
(* a reload of the configuration, break this.  About removeFromLRU,        *)
(* touchLRU and lruAfterSet; a key that is not listed can never be         *)
(* evicted, and a listed key without an entry stops the eviction in its    *)
(* shard.                                                                  *)
(***************************************************************************)
ListsTrackKeys ==
    causes \cap {"append expired", "reloaded"} = {} =>
        \A k \in Keys :
            LET i == shardIndex[k]
                In(l) == Cardinality({x \in DOMAIN l : l[x] = k})
                Should(b) == IF b THEN 1 ELSE 0
            IN /\ In(st.all[i]) = Should(policy = "allkeys-lru" /\ k \in Stored)
               /\ In(st.vol[i]) = Should(policy = "volatile-lru" /\ k \in Volatile)
               /\ \A j \in Shards \ {i} : In(st.all[j]) = 0 /\ In(st.vol[j]) = 0
               /\ st.m[k].all = (In(st.all[i]) = 1)
               /\ st.m[k].vol = (In(st.vol[i]) = 1)

(***************************************************************************)
(* A string or list that grows by APPEND or a push has the length the      *)
(* calls add up to: no growth is lost.  Two things lose some, and no       *)
(* other: the entry was changed while the call had released the lock to    *)
(* evict, and a value was read with one call and written back with another *)
(* (INCRBYFLOAT, SETRANGE).  About the values that are computed before     *)
(* ensureMemoryWithRetry and stored after it.                              *)
(***************************************************************************)
GrowthKept ==
    causes \cap {"unlocked", "get, then set"} = {} =>
        \A k \in Keys : Live(st, k) => st.m[k].n = due[k]

(***************************************************************************)
(* SetNX and MSetNX store only where there is nothing, and SetXX only      *)
(* where there is something, at the moment they store: not when they       *)
(* looked first.  About the second look after the lock was released.       *)
(***************************************************************************)
StoresWhereAllowed ==
    [][\A p \in Procs :
         \A k \in w[p].keys :
            /\ w[p].kind \in {"nx", "msetnx"} /\ held[shardIndex[k]] = p /\ Live(st, k)
               => Data(st'.m[k]) = Data(st.m[k])
            /\ w[p].kind = "xx" /\ pc[p] = "store" /\ w[p].evicted /\ ~Live(st, k)
               => ~(pc'[p] = "idle" /\ st'.m[k] # NoEntry /\ st'.m[k] # st.m[k])]_vars

(***************************************************************************)
(* A call that nothing interferes with leaves the account within           *)
(* maxmemory, or no higher than it found it: the eviction it asks for does *)
(* not take the entry whose size it counts on.  Calls that overlap may     *)
(* share the same room and overshoot.  About ensureMemoryWithRetry, the    *)
(* key it passes to be avoided, and evictUntilFits.                        *)
(***************************************************************************)
StaysWithinLimit ==
    [][\A p \in alone :
         (pc[p] = "store" \/ AllLocked(p, "msetnx")) /\ pc'[p] = "idle" =>
             st'.mem <= MaxMemory \/ st'.mem <= st.mem]_vars

(***************************************************************************)
(* Under allkeys-lru a call is told that memory is out only if no shard    *)
(* offers a victim: each is empty, or the least recently used key in it is *)
(* the very key being written.  Two things make the eviction give up       *)
(* early: another eviction at the same time, which takes turns on the      *)
(* shared cursor, and a store that changed during the search.  About       *)
(* evictAllKeysLRU and its limit of two rounds.                            *)
(***************************************************************************)
OOMOnlyWhenStuck ==
    [][\A p \in Procs :
         pc[p] = "evict" /\ pc'[p] = "oom" /\ w[p].pol = "allkeys-lru" =>
             \/ causes \cap {"append expired", "reloaded"} # {} \/ p \in crowded \cup stirred
             \/ \A k \in Stored :
                  Last(st.all[shardIndex[k]]) \in avoidKey(p)]_vars

(***************************************************************************)
(* Once no new calls are made, every call in progress returns: no call     *)
(* waits for ever for a lock, and the loop of evictions ends.  About the   *)
(* order in which Rename and MSetNX take locks and the release of the lock *)
(* before an eviction.                                                     *)
(***************************************************************************)
CallsReturn == ops = MaxOps ~> \A p \in Procs : pc[p] = "idle"
=============================================================================
