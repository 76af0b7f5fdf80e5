---------------------------- MODULE Commands ----------------------------
(***************************************************************************)
(* The write commands of internal/commands, and the copy of the data that  *)
(* internal/peer/apply.go keeps at another node.  The clients of one node  *)
(* (the origin) run commands; a command handler first changes the origin's *)
(* store and then, without a lock that spans both, hands its events to     *)
(* Replicate.  The link delivers them in the order of the Replicate calls  *)
(* and loses nothing (ReplLinks and GapTracker model the link itself), and *)
(* the replica applies them one at a time.  Both nodes read one clock.     *)
(*                                                                         *)
(* Every call a handler makes on the store is a step of its own, and so is *)
(* every Replicate call: DEL looks at all its keys before it removes the   *)
(* first, MSET and FLUSHDB go from key to key, APPEND reads its value back,*)
(* and other clients run in between.  The one exception is a SET with      *)
(* KEEPTTL or GET: what it reads first only picks the deadline or ends the *)
(* command, and the model lets both be anything they might have been.      *)
(* An error reply leaves the store alone and replicates nothing: such a    *)
(* command is a step with no events.  Argument errors never reach the      *)
(* store and are left out.                                                 *)
(***************************************************************************)
EXTENDS Reads

CONSTANTS Clients,
          Start,        \* the key spaces a replica may share with the origin to begin with
          Strings,      \* the string values commands carry
          Hashes,       \* the field-value pairs HSET carries
          Deltas,       \* the increments
          Ranges,       \* the pairs of indexes LTRIM is given
          TTLs,         \* the relative times to live
          MaxTime,      \* bound: the clock stops here
          MaxCmds,      \* bound: commands run in a behaviour
          MaxLen        \* bound: tokens of a string, elements of a list

VARIABLES org,      \* the origin's key space
          todo,     \* per client: the store calls its command has still to make
          pend,     \* per client: the events its command will then hand to Replicate
          turns,    \* history, per key: the clients that changed it and have still to say so, in order
          wire,     \* events on their way to the replica
          rep,      \* the replica's key space
          cmds,     \* commands run so far
          causes,   \* history: what has happened that lets the two key spaces differ
          ahead     \* history, per key: what org held after each change the replica has not applied

vars == <<clock, org, todo, pend, turns, wire, rep, cmds, causes, ahead>>

Deadlines == 1 .. MaxTime
Pushes == {<<e>> : e \in Elems} \cup (Elems \X Elems)
Indexes == -MaxLen - 1 .. MaxLen

Init ==
    /\ clock = 1
    /\ org \in Start /\ rep = org
    /\ todo = [c \in Clients |-> <<>>]
    /\ pend = [c \in Clients |-> {}]
    /\ turns = [k \in Keys |-> <<>>]
    /\ wire = <<>>
    /\ cmds = 0
    /\ causes = {}
    /\ ahead = [k \in Keys |-> <<>>]

-----------------------------------------------------------------------------
(* The replica: apply.go.  An event that does not fit what is there (an    *)
(* error of the store call) is logged and skipped.                         *)

apply(d, ev) ==
    CASE ev.op = "SET"        -> Set(d, ev.key, ev.val, IF ev.ttl > 0 THEN clock + ev.ttl ELSE NoTTL)
      [] ev.op = "DEL"        -> Del(d, {ev.key}).db
      [] ev.op = "HSET"       -> HSet(d, ev.key, ev.fields).db
      [] ev.op = "HDEL"       -> HDel(d, ev.key, ev.fields).db
      [] ev.op = "SADD"       -> SAdd(d, ev.key, ev.members).db
      [] ev.op = "SREM"       -> SRem(d, ev.key, ev.members).db
      [] ev.op = "REPLACESET" -> ReplaceSet(d, ev.key, ev.members)
      [] ev.op = "LPUSH"      -> listPush(d, ev.key, ev.vals, TRUE).db
      [] ev.op = "RPUSH"      -> listPush(d, ev.key, ev.vals, FALSE).db
      [] ev.op = "FLUSHDB"    -> FlushDB
      [] ev.op = "EXPIRE"     -> ExpireAt(d, ev.key, clock + ev.cnt).db
      [] ev.op = "EXPIREAT"   -> ExpireAt(d, ev.key, ev.cnt).db
      [] ev.op = "PERSIST"    -> Persist(d, ev.key).db
      [] ev.op = "RENAME"     -> Rename(d, ev.key, ev.dest).db
      [] ev.op = "LPOP"       -> LPop(d, ev.key, ev.cnt).db
      [] ev.op = "RPOP"       -> RPop(d, ev.key, ev.cnt).db
      [] ev.op = "LREM"       -> LRem(d, ev.key, ev.cnt, ev.val).db
      [] ev.op = "LSET"       -> LSet(d, ev.key, ev.cnt, ev.val).db
      [] ev.op = "LTRIM"      -> LTrim(d, ev.key, ev.start, ev.stop).db
      [] ev.op = "LINSERT"    -> LInsert(d, ev.key, ev.before, ev.pivot, ev.val).db

(* The events: the Replicate helpers of helpers.go. *)

ReplicateListPush(k, left, vals) == [op |-> IF left THEN "LPUSH" ELSE "RPUSH", key |-> k, vals |-> vals]
ReplicateHDel(k, fs) == [op |-> "HDEL", key |-> k, fields |-> fs]
ReplicateSAdd(k, ms) == [op |-> "SADD", key |-> k, members |-> ms]
ReplicateSRem(k, ms) == [op |-> "SREM", key |-> k, members |-> ms]
ReplicateDel(k) == [op |-> "DEL", key |-> k]
ReplicateHash(k, h) == [op |-> "HSET", key |-> k, fields |-> h]
ReplicateExpire(k, t) == [op |-> "EXPIRE", key |-> k, cnt |-> t]
ReplicateExpireAtUnix(k, x) == [op |-> "EXPIREAT", key |-> k, cnt |-> x]
ReplicatePersist(k) == [op |-> "PERSIST", key |-> k]
ReplicateRename(src, dst) == [op |-> "RENAME", key |-> src, dest |-> dst]
ReplicateLPop(k, n) == [op |-> "LPOP", key |-> k, cnt |-> n]
ReplicateRPop(k, n) == [op |-> "RPOP", key |-> k, cnt |-> n]
ReplicateLRem(k, n, v) == [op |-> "LREM", key |-> k, cnt |-> n, val |-> v]
ReplicateLSet(k, idx, v) == [op |-> "LSET", key |-> k, cnt |-> idx, val |-> v]
ReplicateReplaceSet(k, ms) == [op |-> "REPLACESET", key |-> k, members |-> ms]
ReplicateLTrim(k, start, stop) == [op |-> "LTRIM", key |-> k, start |-> start, stop |-> stop]
ReplicateLInsert(k, before, pivot, v) ==
    [op |-> "LINSERT", key |-> k, before |-> before, pivot |-> pivot, val |-> v]

\* A SET to be replicated.  What goes out is what is left of its TTL at that moment, and 0
\* (no TTL) when nothing is left.
SetEvent(k, v, x) == [op |-> "SET", key |-> k, val |-> v, deadline |-> x]

ReplicateSet(ev) ==
    [op |-> "SET", key |-> ev.key, val |-> ev.val,
     ttl |-> IF ev.deadline = NoTTL THEN 0 ELSE Max({0, ev.deadline - clock})]

OnWire(ev) == IF ev.op = "SET" THEN ReplicateSet(ev) ELSE ev

-----------------------------------------------------------------------------
\* The keys an event is about.
About(ev) ==
    CASE ev.op = "RENAME"  -> {ev.key, ev.dest}
      [] ev.op = "FLUSHDB" -> Keys
      [] OTHER             -> {ev.key}

(* Client c makes a store call: d is the key space it leaves, told the     *)
(* keys whose change an event is going to tell of, evs what this call adds *)
(* to the command's events, rest the calls still to make, why the causes   *)
(* of difference it adds.                                                  *)

Step(c, d, told, evs, rest, why) ==
    /\ org' = d
    /\ todo' = [todo EXCEPT ![c] = rest]
    /\ pend' = [pend EXCEPT ![c] = @ \cup evs]
    /\ turns' = [k \in Keys |-> IF k \in told THEN Append(turns[k], c) ELSE turns[k]]
    /\ ahead' = [k \in Keys |-> IF k \in told THEN Append(ahead[k], d[k]) ELSE ahead[k]]
    /\ causes' = causes \cup why
    /\ UNCHANGED <<clock, wire, rep>>

\* A command that makes a single store call.
Run(c, d, evs, why) ==
    /\ cmds' = cmds + 1
    /\ Step(c, d, UNION {About(ev) : ev \in evs}, evs, <<>>, why)

\* A command whose first call (or none yet) tells nothing; calls is what it goes on with.
Begin(c, d, calls) ==
    /\ cmds' = cmds + 1
    /\ Step(c, d, {}, {}, calls, {})

\* A handler that replicates ev when its store call r did not fail.
Apply(c, r, ev) == Run(c, r.db, IF r.n = Fail THEN {} ELSE {ev}, {})

\* A handler that replicates ev when its store call r changed something.
ApplyIfAny(c, r, ev) == Run(c, r.db, IF r.n > 0 THEN {ev} ELSE {}, {})

\* A command that keeps the TTL of k replicates a SET, which has none.
TTLDropped(k) == IF Kept(org, k) # NoTTL THEN {"ttl dropped"} ELSE {}

-----------------------------------------------------------------------------
(* strings.go *)

applySet(c, k, v, x, mode) ==
    ApplyIfAny(c, CASE mode = "NX" -> SetNX(org, k, v, x)
                    [] mode = "XX" -> SetXX(org, k, v, x)
                    [] OTHER       -> Res(Set(org, k, v, x), 1),
               SetEvent(k, v, x))

\* The deadline is the one EX, PX, EXAT or PXAT gave or, under KEEPTTL, that of the key
\* if a whole millisecond of it is left.  The option GET refuses a key of another type.
cmdSet(c) ==
    \E k \in Keys :
        \/ WrongType(org, k, "string") /\ Run(c, org, {}, {})
        \/ \E v \in Strings, mode \in {"", "NX", "XX"}, x \in {NoTTL} \cup Deadlines :
              applySet(c, k, v, x, mode)

cmdSetNX(c) ==
    \E k \in Keys, v \in Strings :
        ApplyIfAny(c, SetNX(org, k, v, NoTTL), SetEvent(k, v, NoTTL))

\* PSETEX is the same in milliseconds.
cmdSetEX(c) ==
    \E k \in Keys, v \in Strings, t \in TTLs :
        Run(c, Set(org, k, v, clock + t), {SetEvent(k, v, clock + t)}, {})

cmdGetSet(c) ==
    \E k \in Keys, v \in Strings :
        Apply(c, GetSet(org, k, v, NoTTL), SetEvent(k, v, NoTTL))

\* A key that holds the empty string is taken for a missing one and stays.
NothingToGet(k) == WrongType(org, k, "string") \/ Get(org, k) = Nil

\* Get, then Del, which is replicated whatever it found.
cmdGetDel(c) ==
    \E k \in Keys :
        Begin(c, Untouched(org, k),
              IF NothingToGet(k) THEN <<>> ELSE <<[op |-> "del", key |-> k, always |-> TRUE]>>)

\* Get, then ExpireAt, which is replicated whatever it found.  The option PERSIST is carried
\* out, and replicated, before the Get: it is a command of its own, which this one may follow.
cmdGetEx(c) ==
    \E k \in Keys :
        \/ Run(c, Persist(org, k).db, {ReplicatePersist(k)}, {})
        \/ \E x \in Deadlines \cup {clock + t : t \in TTLs} :
              Begin(c, Untouched(org, k),
                    IF NothingToGet(k) THEN <<>>
                    ELSE <<[op |-> "expireat", key |-> k, deadline |-> x]>>)

\* The events of MSET and MSETNX go out in the order a map iteration gives.
SetEvents(ks, vs) == {SetEvent(k, vs[k], NoTTL) : k \in ks}

\* One Set for each key, in the order of the keys.
cmdMSet(c) ==
    \E ks \in (SUBSET Keys) \ {{}} : \E vs \in [ks -> Strings], order \in SetToSeqs(ks) :
        Begin(c, org, [i \in DOMAIN order |-> [op |-> "set", key |-> order[i], val |-> vs[order[i]]]])

\* All the shards are locked while the keys are looked up again and set.
cmdMSetNX(c) ==
    \E ks \in (SUBSET Keys) \ {{}} : \E vs \in [ks -> Strings] :
        LET r == MSetNX(org, [k \in Keys |-> IF k \in ks THEN vs[k] ELSE Nil])
        IN Run(c, r.db, IF r.n = 1 THEN SetEvents(ks, vs) ELSE {}, {})

\* Exists for each key, then Del for each key; only the keys found by the former are replicated.
cmdDel(c) ==
    \E ks \in (SUBSET Keys) \ {{}} : \E order \in SetToSeqs(ks) :
        Begin(c, org, [i \in DOMAIN order |-> [op |-> "exists", key |-> order[i]]] \o
                      [i \in DOMAIN order |-> [op |-> "del", key |-> order[i], always |-> FALSE]])

\* INCR, DECR, INCRBY and DECRBY keep the TTL at the origin.
doIncr(c) ==
    \E k \in Keys, delta \in Deltas :
        LET r == incrBy(org, k, delta)
        IN IF r.n = Fail THEN Run(c, r.db, {}, {})
           ELSE Run(c, r.db, {SetEvent(k, Val(r.db[k]), NoTTL)}, TTLDropped(k))

\* Get, add, Set: the new value has no TTL on either side.
cmdIncrByFloat(c) ==
    \E k \in Keys, delta \in Deltas :
        LET old == IF Get(org, k) = Nil THEN <<>> ELSE Get(org, k)
        IN Begin(c, Untouched(org, k),
                 IF WrongType(org, k, "string") \/ ~IsFloat(old) THEN <<>>
                 ELSE <<[op |-> "set", key |-> k, val |-> <<ToInteger(old) + delta>>]>>)

\* The value is read back to replicate it, and an empty one is not replicated.
cmdAppend(c) ==
    \E k \in Keys, tail \in Strings :
        LET r == AppendStr(org, k, tail)
            new == Get(r.db, k)
        IN /\ r.n <= MaxLen
           /\ \A i \in DOMAIN tail : tail[i] \in Elems
           /\ cmds' = cmds + 1
           /\ IF r.n = Fail THEN Step(c, r.db, {}, {}, <<>>, {})
              ELSE Step(c, r.db, IF new = Nil THEN {} ELSE {k}, {},
                        <<[op |-> "readback", key |-> k, val |-> new]>>,
                        TTLDropped(k) \cup
                        (IF new = Nil /\ Lookup(org, k) = None THEN {"empty append"} ELSE {}))

\* base padded with NUL up to offset, then overwritten from there.
SetRange(base, offset, val) ==
    [i \in 1 .. Max({Len(base), offset + Len(val)}) |->
        IF i > offset /\ i <= offset + Len(val) THEN val[i - offset]
        ELSE IF i <= Len(base) THEN base[i] ELSE NUL]

\* Get, overwrite, Set.
cmdSetRange(c) ==
    \E k \in Keys, offset \in 0 .. MaxLen - 1, val \in Strings :
        /\ \A i \in DOMAIN val : val[i] \in Elems
        /\ LET base == IF Get(org, k) = Nil THEN <<>> ELSE Get(org, k)
           IN Begin(c, Untouched(org, k),
                    IF WrongType(org, k, "string") THEN <<>>
                    ELSE <<[op |-> "set", key |-> k, val |-> SetRange(base, offset, val)]>>)

-----------------------------------------------------------------------------
(* hashes.go *)

\* HMSET differs in its reply only.
cmdHSet(c) ==
    \E k \in Keys, h \in Hashes :
        Apply(c, HSet(org, k, h), ReplicateHash(k, h))

cmdHDel(c) ==
    \E k \in Keys, fs \in (SUBSET Fields) \ {{}} :
        ApplyIfAny(c, HDel(org, k, fs), ReplicateHDel(k, fs))

OneField(f, v) == [EmptyHash EXCEPT ![f] = v]

\* The result is replicated, not the increment.
cmdHIncrBy(c) ==
    \E k \in Keys, f \in Fields, delta \in Deltas :
        LET r == HIncrBy(org, k, f, delta)
        IN IF r.n = Fail THEN Run(c, r.db, {}, {})
           ELSE Run(c, r.db, {ReplicateHash(k, OneField(f, Val(r.db[k])[f]))}, {})

cmdHIncrByFloat(c) ==
    \E k \in Keys, f \in Fields, delta \in Deltas :
        LET r == HIncrByFloat(org, k, f, delta)
        IN IF r.n = Fail THEN Run(c, r.db, {}, {})
           ELSE Run(c, r.db, {ReplicateHash(k, OneField(f, Val(r.db[k])[f]))}, {})

\* A mutant of cmdHSetNX: the field is replicated also when it was there.
cmdHSetNXAlways(c) ==
    \E k \in Keys, f \in Fields, v \in Strings :
        Apply(c, HSetNX(org, k, f, v), ReplicateHash(k, OneField(f, v)))

cmdHSetNX(c) ==
    \E k \in Keys, f \in Fields, v \in Strings :
        ApplyIfAny(c, HSetNX(org, k, f, v), ReplicateHash(k, OneField(f, v)))

-----------------------------------------------------------------------------
(* sets.go *)

cmdSAdd(c) ==
    \E k \in Keys, ms \in (SUBSET Elems) \ {{}} :
        ApplyIfAny(c, SAdd(org, k, ms), ReplicateSAdd(k, ms))

\* SREM on an empty set purges it and, having removed nothing, does not say so.
cmdSRem(c) ==
    \E k \in Keys, ms \in (SUBSET Elems) \ {{}} :
        LET r == SRem(org, k, ms)
        IN Run(c, r.db, IF r.n > 0 THEN {ReplicateSRem(k, ms)} ELSE {},
               IF r.n = 0 /\ Lookup(org, k) # None /\ r.db[k] = None THEN {"empty srem"} ELSE {})

\* SMembers of the first key.  An intersection or a difference that is empty by then reads no
\* further; otherwise SMembers of the second key is to come, and ReplaceSet after it.
StoreMembers(c, how) ==
    \E dest, a, b \in Keys :
        LET members == IF WrongType(org, a, "set") THEN Nil ELSE SetOf(org, a)
            replace == [op |-> "replaceset", key |-> dest, members |-> members]
        IN Begin(c, Untouched(org, a),
                 IF members = Nil THEN <<>>
                 ELSE IF members = {} /\ how # "union" THEN <<replace>>
                 ELSE <<[op |-> how, key |-> b], replace>>)

cmdSUnionStore(c) == StoreMembers(c, "union")
cmdSInterStore(c) == StoreMembers(c, "inter")
cmdSDiffStore(c) == StoreMembers(c, "diff")

-----------------------------------------------------------------------------
(* lists.go *)

Room(k, vals) == ~WrongType(org, k, "list") => Len(ListOf(org, k)) + Len(vals) <= MaxLen

cmdLPush(c) ==
    \E k \in Keys, vals \in Pushes :
        /\ Room(k, vals)
        /\ Apply(c, listPush(org, k, vals, TRUE), ReplicateListPush(k, TRUE, vals))

cmdRPush(c) ==
    \E k \in Keys, vals \in Pushes :
        /\ Room(k, vals)
        /\ Apply(c, listPush(org, k, vals, FALSE), ReplicateListPush(k, FALSE, vals))

cmdLPushX(c) ==
    \E k \in Keys, vals \in Pushes :
        /\ Room(k, vals)
        /\ ApplyIfAny(c, listPushX(org, k, vals, TRUE), ReplicateListPush(k, TRUE, vals))

cmdRPushX(c) ==
    \E k \in Keys, vals \in Pushes :
        /\ Room(k, vals)
        /\ ApplyIfAny(c, listPushX(org, k, vals, FALSE), ReplicateListPush(k, FALSE, vals))

\* The number of elements really removed is replicated.
cmdLPop(c) ==
    \E k \in Keys, count \in 1 .. MaxLen :
        LET r == LPop(org, k, count) IN ApplyIfAny(c, r, ReplicateLPop(k, r.n))

cmdRPop(c) ==
    \E k \in Keys, count \in 1 .. MaxLen :
        LET r == RPop(org, k, count) IN ApplyIfAny(c, r, ReplicateRPop(k, r.n))

cmdLSet(c) ==
    \E k \in Keys, idx \in Indexes, v \in Elems :
        Apply(c, LSet(org, k, idx, v), ReplicateLSet(k, idx, v))

cmdLRem(c) ==
    \E k \in Keys, count \in -1 .. 1, v \in Elems :
        ApplyIfAny(c, LRem(org, k, count, v), ReplicateLRem(k, count, v))

cmdLTrim(c) ==
    \E k \in Keys, r \in Ranges :
        Apply(c, LTrim(org, k, r[1], r[2]),
              ReplicateLTrim(k, r[1], r[2]))

cmdLInsert(c) ==
    \E k \in Keys, before \in BOOLEAN, pivot, v \in Elems :
        /\ Room(k, <<v>>)
        /\ Apply(c, LInsert(org, k, before, pivot, v),
                 ReplicateLInsert(k, before, pivot, v))

-----------------------------------------------------------------------------
(* generic.go, server.go *)

\* EXPIRE and PEXPIRE replicate the time to live, which counts from the arrival; EXPIREAT and
\* PEXPIREAT replicate the deadline, which may have passed.
cmdExpire(c) ==
    \E k \in Keys :
        \/ \E t \in TTLs : ApplyIfAny(c, ExpireAt(org, k, clock + t), ReplicateExpire(k, t))
        \/ \E x \in Deadlines : ApplyIfAny(c, ExpireAt(org, k, x), ReplicateExpireAtUnix(k, x))

cmdPersist(c) ==
    \E k \in Keys : ApplyIfAny(c, Persist(org, k), ReplicatePersist(k))

cmdRename(c) ==
    \E src, dst \in Keys :
        Apply(c, Rename(org, src, dst), ReplicateRename(src, dst))

\* Exists, then RenameNX.
cmdRenameNX(c) ==
    \E src, dst \in Keys :
        Begin(c, Untouched(org, src),
              IF Lookup(org, src) = None THEN <<>>
              ELSE <<[op |-> "renamenx", key |-> src, dest |-> dst]>>)

\* FlushDB empties one shard after the other.
flushClusterDB(c) ==
    \E order \in SetToSeqs(Keys) :
        Begin(c, org, [i \in DOMAIN order |-> [op |-> "flush", key |-> order[i]]])

\* A command that only reads purges the keys it finds expired.
ReadKey(c) == \E k \in Keys : isExpired(org[k]) /\ Run(c, Untouched(org, k), {}, {})

-----------------------------------------------------------------------------
(* The further store calls of a command. *)

\* A Set may also run out of memory, which ends the command.  MSET has then set some of its
\* keys and replicates none of them.
SetCall(c, s, rest) ==
    \/ Step(c, Set(org, s.key, s.val, NoTTL), {s.key}, {SetEvent(s.key, s.val, NoTTL)}, rest, {})
    \/ /\ todo' = [todo EXCEPT ![c] = <<>>]
       /\ pend' = [pend EXCEPT ![c] = {}]
       /\ causes' = causes \cup (IF pend[c] # {} THEN {"half an mset"} ELSE {})
       /\ UNCHANGED <<clock, org, turns, wire, rep, ahead>>

ExistsCall(c, s, rest) ==
    Step(c, Untouched(org, s.key), {},
         IF Lookup(org, s.key) # None THEN {ReplicateDel(s.key)} ELSE {}, rest, {})

\* A key that appeared after DEL looked for it is removed like the others and not replicated.
DelCall(c, s, rest) ==
    LET told == s.always \/ ReplicateDel(s.key) \in pend[c]
    IN Step(c, Del(org, {s.key}).db,
            IF told THEN {s.key} ELSE {}, IF told THEN {ReplicateDel(s.key)} ELSE {}, rest,
            IF ~told /\ Lookup(org, s.key) # None THEN {"unseen by del"} ELSE {})

ExpireAtCall(c, s, rest) ==
    Step(c, ExpireAt(org, s.key, s.deadline).db, {s.key},
         {ReplicateExpireAtUnix(s.key, s.deadline)}, rest, {})

\* What APPEND reads back is another client's value if that one got in between.
ReadBackCall(c, s, rest) ==
    LET v == IF WrongType(org, s.key, "string") THEN Nil ELSE Get(org, s.key)
    IN Step(c, Untouched(org, s.key), {},
            IF v = Nil THEN {} ELSE {SetEvent(s.key, v, NoTTL)}, rest,
            IF v # s.val THEN {"another's value"} ELSE {})

SMembersCall(c, s, rest) ==
    LET ms == Head(rest).members
        other == SetOf(org, s.key)
        all == CASE s.op = "union" -> ms \cup other
                 [] s.op = "inter" -> ms \cap other
                 [] s.op = "diff"  -> ms \ other
    IN Step(c, Untouched(org, s.key), {}, {},
            IF WrongType(org, s.key, "set") THEN <<>> ELSE <<[Head(rest) EXCEPT !.members = all]>>, {})

ReplaceSetCall(c, s, rest) ==
    Step(c, ReplaceSet(org, s.key, s.members), {s.key},
         {ReplicateReplaceSet(s.key, s.members)}, rest, {})

RenameNXCall(c, s, rest) ==
    LET r == RenameNX(org, s.key, s.dest)
    IN Step(c, r.db, IF r.n > 0 THEN {s.key, s.dest} ELSE {},
            IF r.n > 0 THEN {ReplicateRename(s.key, s.dest)} ELSE {}, rest, {})

FlushCall(c, s, rest) ==
    Step(c, purgeEntryLocked(org, s.key), {s.key}, {[op |-> "FLUSHDB"]}, rest, {})

NextCall(c) ==
    /\ todo[c] # <<>>
    /\ LET s == Head(todo[c])
           rest == Tail(todo[c])
       IN \/ s.op = "set" /\ SetCall(c, s, rest)
          \/ s.op = "exists" /\ ExistsCall(c, s, rest)
          \/ s.op = "del" /\ DelCall(c, s, rest)
          \/ s.op = "expireat" /\ ExpireAtCall(c, s, rest)
          \/ s.op = "readback" /\ ReadBackCall(c, s, rest)
          \/ s.op \in {"union", "inter", "diff"} /\ SMembersCall(c, s, rest)
          \/ s.op = "replaceset" /\ ReplaceSetCall(c, s, rest)
          \/ s.op = "renamenx" /\ RenameNXCall(c, s, rest)
          \/ s.op = "flush" /\ FlushCall(c, s, rest)
    /\ UNCHANGED cmds

-----------------------------------------------------------------------------
\* A SET whose deadline leaves no whole millisecond is sent without a TTL.
NoTimeLeft(ev) == ev.op = "SET" /\ ev.deadline # NoTTL /\ ev.deadline <= clock

\* Once its store calls are made the handler hands its events to Replicate, those of DEL, MSET
\* and MSETNX in any order.  No lock keeps it behind a command that changed the same key earlier.
Replicate(c) ==
    /\ todo[c] = <<>>
    /\ \E ev \in pend[c] :
         /\ wire' = Append(wire, OnWire(ev))
         /\ pend' = [pend EXCEPT ![c] = @ \ {ev}]
         /\ turns' = [k \in Keys |-> IF k \in About(ev) THEN Remove(turns[k], c) ELSE turns[k]]
         /\ causes' = causes
              \cup (IF \E k \in About(ev) : Head(turns[k]) # c THEN {"overtaken"} ELSE {})
              \cup (IF NoTimeLeft(ev) THEN {"no time left"} ELSE {})
    /\ UNCHANGED <<clock, org, todo, rep, cmds, ahead>>

Applied(ev) == [k \in Keys |-> IF k \in About(ev) THEN Tail(ahead[k]) ELSE ahead[k]]

\* A mutant of applyReplicatePayload: the newest event first.
ApplyNewest ==
    /\ wire # <<>>
    /\ rep' = apply(rep, Last(wire))
    /\ wire' = Front(wire)
    /\ ahead' = Applied(Last(wire))
    /\ UNCHANGED <<clock, org, todo, pend, turns, cmds, causes>>

applyReplicatePayload ==
    /\ wire # <<>>
    /\ rep' = apply(rep, Head(wire))
    /\ wire' = Tail(wire)
    /\ ahead' = Applied(Head(wire))
    /\ UNCHANGED <<clock, org, todo, pend, turns, cmds, causes>>

\* No command is under way, and nothing is between the origin's store and the replica's.
Drained == wire = <<>> /\ \A c \in Clients : todo[c] = <<>> /\ pend[c] = {}

\* Events that carry a time to live rather than a deadline: that of a SET is worked out when
\* it is sent, that of an EXPIRE when the command runs.
LateTTL == \/ \E i \in DOMAIN wire : wire[i].op = "EXPIRE"
           \/ \E i \in DOMAIN wire : wire[i].op = "SET" /\ wire[i].ttl > 0
           \/ \E c \in Clients : \E ev \in pend[c] : ev.op = "EXPIRE"

\* The next tick expires an entry of a key that changes are on their way for.
Ending(e) == e # None /\ Deadline(e) = clock
ExpiryInFlight ==
    \E k \in Keys : /\ ahead[k] # <<>>
                    /\ \/ Ending(org[k]) \/ Ending(rep[k])
                       \/ \E n \in DOMAIN ahead[k] : Ending(ahead[k][n])

Tick ==
    /\ clock < MaxTime
    /\ clock' = clock + 1
    /\ causes' = causes
         \cup (IF LateTTL THEN {"late ttl"} ELSE {})
         \cup (IF ExpiryInFlight THEN {"expiry in flight"} ELSE {})
    /\ UNCHANGED <<org, todo, pend, turns, wire, rep, cmds, ahead>>

\* The active expiry of either node removes an expired entry.
Sweep ==
    /\ \E k \in Keys :
         \/ isExpired(org[k]) /\ org' = purgeEntryLocked(org, k) /\ rep' = rep
         \/ isExpired(rep[k]) /\ rep' = purgeEntryLocked(rep, k) /\ org' = org
    /\ UNCHANGED <<clock, todo, pend, turns, wire, cmds, causes, ahead>>

\* A session runs its commands one after the other.
Idle(c) == todo[c] = <<>> /\ pend[c] = {} /\ cmds < MaxCmds

Command(c) ==
    /\ Idle(c)
    /\ \/ cmdSet(c) \/ cmdSetNX(c) \/ cmdSetEX(c) \/ cmdGetSet(c) \/ cmdGetDel(c) \/ cmdGetEx(c)
       \/ cmdMSet(c) \/ cmdMSetNX(c) \/ cmdDel(c) \/ doIncr(c) \/ cmdIncrByFloat(c)
       \/ cmdAppend(c) \/ cmdSetRange(c)
       \/ cmdHSet(c) \/ cmdHDel(c) \/ cmdHIncrBy(c) \/ cmdHIncrByFloat(c) \/ cmdHSetNX(c)
       \/ cmdSAdd(c) \/ cmdSRem(c) \/ cmdSUnionStore(c) \/ cmdSInterStore(c) \/ cmdSDiffStore(c)
       \/ cmdLPush(c) \/ cmdRPush(c) \/ cmdLPushX(c) \/ cmdRPushX(c) \/ cmdLPop(c) \/ cmdRPop(c)
       \/ cmdLSet(c) \/ cmdLRem(c) \/ cmdLTrim(c) \/ cmdLInsert(c)
       \/ cmdExpire(c) \/ cmdPersist(c) \/ cmdRename(c) \/ cmdRenameNX(c)
       \/ flushClusterDB(c) \/ ReadKey(c)

Next ==
    \/ \E c \in Clients : Command(c) \/ NextCall(c) \/ Replicate(c)
    \/ applyReplicatePayload
    \/ Tick
    \/ Sweep

Spec == Init /\ [][Next]_vars

-----------------------------------------------------------------------------
(* Properties *)

EntryOK(e) ==
    \/ e = None
    \/ /\ Deadline(e) \in Nat
       /\ \/ TypeOf(e) = "string" /\ Len(Val(e)) \in 0 .. MaxLen
          \/ TypeOf(e) = "list" /\ Len(Val(e)) \in 1 .. MaxLen
          \/ TypeOf(e) = "hash" /\ Val(e) # EmptyHash
          \/ TypeOf(e) = "set" /\ Val(e) \subseteq Elems

\* No call leaves an empty list or an empty hash behind; an empty set may be stored.
TypeOK ==
    /\ clock \in 1 .. MaxTime
    /\ \A k \in Keys : EntryOK(org[k]) /\ EntryOK(rep[k])
    /\ cmds \in 0 .. MaxCmds
    /\ causes \subseteq {"ttl dropped", "no time left", "empty append", "empty srem",
                         "late ttl", "expiry in flight", "overtaken",
                         "half an mset", "unseen by del", "another's value"}

(***************************************************************************)
(* Once every event of every command has been applied, the replica's data  *)
(* are the origin's: same keys, types, values and deadlines.  Ten things   *)
(* excuse a difference:                                                    *)
(*   "ttl dropped"       INCR, DECR, INCRBY, DECRBY or APPEND on a key with *)
(*                       a TTL (the SET they replicate has none);          *)
(*   "no time left"      a SET replicated with less than a millisecond to  *)
(*                       its deadline (its TTL is sent as 0);              *)
(*   "empty append"      APPEND of nothing to a missing key;               *)
(*   "empty srem"        SREM on an empty set;                             *)
(*   "half an mset"      MSET ran out of memory after its first key;       *)
(*   "unseen by del"     DEL removed a key that was not there when it      *)
(*                       looked;                                           *)
(*   "another's value"   APPEND read back what another client had written; *)
(*   "late ttl"          time passed while a relative TTL was on its way;  *)
(*   "expiry in flight"  an entry of a key expired while an event about    *)
(*                       that key was on its way;                          *)
(*   "overtaken"         a client's Replicate call about a key came before *)
(*                       that of a command that had changed it earlier.    *)
(* About the handlers of internal/commands, the Replicate helpers and      *)
(* applyReplicatePayload taken together.                                   *)
(***************************************************************************)
DrainedAgree == Drained /\ causes = {} => View(org) = View(rep)

\* What clients see of an entry.
Seen(e) == IF isExpired(e) THEN None ELSE e

Copying(k) == INSTANCE LaggingCopy WITH
    Absent <- None,
    primary <- Seen(org[k]), copy <- Seen(rep[k]),
    lag <- [n \in DOMAIN ahead[k] |-> Seen(ahead[k][n])],
    excused <- causes # {}

(***************************************************************************)
(* The commands of the clients implement LaggingCopy key by key: what the  *)
(* replica holds under a key goes through everything the origin held there *)
(* after each change it replicated, in order and leaving none out, until   *)
(* one of the ten causes excuses a difference.  About every handler's      *)
(* choice of the event it replicates for the change it made.               *)
(***************************************************************************)
CopiesInOrder ==
    /\ \A k \in Keys : Copying(k)!Init
    /\ [][\A k \in Keys : [Copying(k)!Next]_(Copying(k)!lcvars)]_vars
=============================================================================
