--------------------------- MODULE Transactions ---------------------------
(***************************************************************************)
(* MULTI, EXEC, DISCARD, WATCH and UNWATCH over the per-key versions of    *)
(* the store: commands/transaction.go, the dispatch of server/conn.go,     *)
(* store/store_watch.go, and the goroutine of store/expiry.go that purges  *)
(* expired keys and prunes versions.                                       *)
(*                                                                         *)
(* A call of the store changes an entry under the lock of its shard and    *)
(* then bumps the version of the key, which has a mutex of its own: WATCH  *)
(* and EXEC read versions without the lock of the shard.  A call is        *)
(* therefore a sequence of small steps, planned when the call has its      *)
(* locks.  (The order in which several locks are taken is a subject of     *)
(* StoreMemory; here they are taken together.)                             *)
(*                                                                         *)
(* An entry is abstracted to what decides which steps a call takes:        *)
(* absent, a string without or with a deadline, past its deadline, a list. *)
(***************************************************************************)
EXTENDS Integers, Sequences, FiniteSets, Functions

CONSTANTS Clients,
          Keys,
          NumShards,
          shardIndex,    \* the shard of each key
          Entries,       \* the entries of the store in the beginning
          Repertoire,    \* the commands each client may send
          maxMultiQueueLen,
          MaxCalls,      \* bound: the commands each client sends
          MaxPrunes      \* bound: passes of PruneWatch

ASSUME KeysSharded == NumShards \in Nat \ {0} /\ shardIndex \in [Keys -> 1 .. NumShards]
ASSUME KeysFinite == IsFiniteSet(Keys)

Kinds == {"none", "string", "mortal", "expired", "list"}
ASSUME EntriesKnown == Entries \subseteq [Keys -> Kinds]

VARIABLES entry,     \* the shards' maps: what each key holds
          watch,     \* the version of each key, 0 for none recorded
          sess,      \* per client: InMulti, MultiQueue, WatchedKeys
          pc,        \* per client: idle, or in EXEC: checking versions or running the queue
          todo,      \* per process: the steps left of its call of the store
          locked,    \* per process: the shards it has locked
          pruner,    \* where PruneWatch is: keys to look at, keys found dead
          calls,     \* commands sent by each client
          prunes,    \* passes of PruneWatch
          news       \* history: per client, what happened to each watched key since its WATCH,
                     \* until the queue begins to run

vars == <<entry, watch, sess, pc, todo, locked, pruner, calls, prunes, news>>

expiry == "expiry"          \* the goroutine of runActiveExpiry
Procs == Clients \cup {expiry}
Shards == 1 .. NumShards

NewSession == [InMulti |-> FALSE, MultiQueue |-> <<>>, WatchedKeys |-> <<>>,
               check |-> {}, vouched |-> {}]
NoPass == [at |-> "idle", keys |-> {}, dead |-> {}]

Init == /\ entry \in Entries
        /\ watch = [k \in Keys |-> IF entry[k] = "none" THEN 0 ELSE 1]
        /\ sess = [c \in Clients |-> NewSession]
        /\ pc = [c \in Clients |-> "idle"]
        /\ todo = [p \in Procs |-> <<>>]
        /\ locked = [p \in Procs |-> {}]
        /\ pruner = NoPass
        /\ calls = [c \in Clients |-> 0]
        /\ prunes = 0
        /\ news = [c \in Clients |-> [k \in Keys |-> {}]]

-----------------------------------------------------------------------------
(* The steps of the calls of the store. *)

purgeEntryLocked(k) == << <<"remove", k>> >>
replaceEntry(k, e) == << <<"store", k, e>> >>

\* A mutant of Bumps: a deletion does not tell the watchers.
BumpsStored(s) == s[1] = "store"

\* Both of them end with a bump of the version, a step of its own.
Bumps(s) == s[1] \in {"remove", "store"}

PurgeExpired(k) == IF entry[k] = "expired" THEN purgeEntryLocked(k) ELSE <<>>

Set(k) == PurgeExpired(k) \o replaceEntry(k, "string")

Del(k) == IF entry[k] = "none" THEN <<>> ELSE purgeEntryLocked(k)

listPush(k) ==
    IF entry[k] \in {"string", "mortal"} THEN <<>>
    ELSE PurgeExpired(k) \o replaceEntry(k, "list")

\* The source leaves without a bump; what it held, deadline included, is stored at dst.
Rename(src, dst) ==
    IF src = dst THEN <<>>
    ELSE IF entry[src] \in {"none", "expired"} THEN PurgeExpired(src)
    ELSE Del(dst) \o << <<"move", src>> >> \o replaceEntry(dst, entry[src])

Get(k) == PurgeExpired(k)

\* The members of S in the order a map iteration happens to give.
InSomeOrder(S) == CHOOSE s \in [1 .. Cardinality(S) -> S] : IsInjective(s)

\* purgeEntryLocked for one key after another, in the order of the map.
PurgeAll(ks) == [i \in DOMAIN InSomeOrder(ks) |-> <<"remove", InSomeOrder(ks)[i]>>]

sampleOnceShard(sh) == PurgeAll({k \in Keys : shardIndex[k] = sh /\ entry[k] = "expired"})

PurgeShard(sh) == PurgeAll({k \in Keys : shardIndex[k] = sh /\ entry[k] /= "none"})

DataCommands == {"set", "del", "rpush", "rename", "mget", "flushdb"}
ASSUME CommandsKnown ==
    \A c \in Clients : \A cmd \in Repertoire[c] : cmd[1] \in DataCommands =>
        \/ cmd = <<"flushdb">>
        \/ cmd \in {"set", "del", "rpush", "mget"} \X Keys
        \/ cmd \in {"rename"} \X Keys \X Keys

Plan(cmd) == CASE cmd[1] = "set"    -> Set(cmd[2])
               [] cmd[1] = "del"    -> Del(cmd[2])
               [] cmd[1] = "rpush"  -> listPush(cmd[2])
               [] cmd[1] = "rename" -> Rename(cmd[2], cmd[3])
               [] cmd[1] = "mget"   -> Get(cmd[2])

KeysOf(cmd) == Range(Tail(cmd))
ShardsOf(ks) == {shardIndex[k] : k \in ks}
Unlocked(shs) == \A p \in Procs : locked[p] \cap shs = {}

\* cmdMGet hands the error of a wrong type back to the caller instead of replying.
Fails(cmd) == cmd[1] = "mget" /\ entry[cmd[2]] = "list"

-----------------------------------------------------------------------------
(* What the watchers of k live through until they have checked its version, *)
(* and the changes that come after that and before the queue runs.         *)
Unchecked(c, k) == k \in DOMAIN sess[c].WatchedKeys /\ k \notin sess[c].vouched

Told(c, k, what) ==
    IF Unchecked(c, k) THEN {what}
    ELSE IF k \in sess[c].vouched /\ what = "changed" THEN {"changed", "late"}
    ELSE {}

Tell(ks, what) ==
    news' = [c \in Clients |-> [k \in Keys |->
                IF k \in ks THEN news[c][k] \cup Told(c, k, what) ELSE news[c][k]]]

\* Calls that have changed k and are about to bump its version.
Halfway(k) == \E p \in Procs : todo[p] /= <<>> /\ Head(todo[p]) = <<"bump", k>>

bumpWatchKey(k) == watch' = [watch EXCEPT ![k] = @ + 1]

(* One step of a call.  The locks are released after the last step in their shard. *)
Step(p) ==
    /\ todo[p] /= <<>>
    /\ LET s == Head(todo[p])
       IN  /\ \/ /\ s[1] \in {"remove", "move"}
                 /\ entry' = [entry EXCEPT ![s[2]] = "none"]
                 /\ IF entry[s[2]] = "expired" THEN UNCHANGED news
                    ELSE Tell({s[2]}, IF s[1] = "move" THEN "renamed" ELSE "changed")
                 /\ UNCHANGED watch
              \/ /\ s[1] = "store"
                 /\ entry' = [entry EXCEPT ![s[2]] = s[3]]
                 /\ Tell({s[2]}, "changed")
                 /\ UNCHANGED watch
              \/ /\ s[1] = "bump"
                 /\ bumpWatchKey(s[2])
                 /\ UNCHANGED <<entry, news>>
              \/ /\ s[1] = "lock"                  \* FlushDB goes on to its next shard
                 /\ Unlocked({s[2]})
                 /\ UNCHANGED <<entry, watch, news>>
              \/ /\ s[1] = "reset"
                 /\ watch' = [k \in Keys |-> 0]
                 /\ Tell({k \in Keys : watch[k] /= 0}, "forgotten")
                 /\ UNCHANGED entry
           /\ LET next == IF s[1] = "lock" THEN PurgeShard(s[2])
                         ELSE IF Bumps(s) THEN << <<"bump", s[2]>> >> ELSE <<>>
                  rest == next \o Tail(todo[p])
              IN  /\ todo' = [todo EXCEPT ![p] = rest]
                  /\ locked' = [locked EXCEPT ![p] =
                                  IF rest = <<>> \/ Head(rest)[1] \in {"lock", "reset"} THEN {}
                                  ELSE IF s[1] = "lock" THEN {s[2]} ELSE @]
    /\ UNCHANGED <<sess, pc, pruner, calls, prunes>>

(* FlushDB, shard by shard, then the whole map of versions. *)
FlushDB == [sh \in Shards |-> <<"lock", sh>>] \o << <<"reset">> >>

(* Process p calls the store to carry out cmd. *)
Call(p, cmd) ==
    IF cmd[1] = "flushdb"
    THEN /\ todo' = [todo EXCEPT ![p] = FlushDB]
         /\ UNCHANGED locked
    ELSE LET plan == Plan(cmd)
         IN  /\ Unlocked(ShardsOf(KeysOf(cmd)))
             /\ todo' = [todo EXCEPT ![p] = plan]
             /\ locked' = [locked EXCEPT ![p] = IF plan = <<>> THEN {} ELSE ShardsOf(KeysOf(cmd))]

-----------------------------------------------------------------------------
(* The commands of a client.  The connection's goroutine handles one at a  *)
(* time: dispatch looks at InMulti first.                                  *)
Idle(c) == pc[c] = "idle" /\ todo[c] = <<>>

Send(c) == /\ Idle(c)
           /\ calls[c] < MaxCalls[c]
           /\ calls' = [calls EXCEPT ![c] = @ + 1]

cmdMulti(c) == /\ Send(c)
               /\ ~sess[c].InMulti                  \* nested: refused, nothing changes
               /\ sess' = [sess EXCEPT ![c].InMulti = TRUE, ![c].MultiQueue = <<>>]
               /\ UNCHANGED <<entry, watch, pc, todo, locked, pruner, prunes, news>>

\* DISCARD leaves the watched keys watched.
cmdDiscard(c) == /\ Send(c)
                 /\ sess[c].InMulti
                 /\ sess' = [sess EXCEPT ![c].InMulti = FALSE, ![c].MultiQueue = <<>>]
                 /\ UNCHANGED <<entry, watch, pc, todo, locked, pruner, prunes, news>>

\* What is already under way with k when it is watched.
AtWatch(k) == (IF Halfway(k) THEN {"early"} ELSE {}) \cup (IF entry[k] = "expired" THEN {"dead"} ELSE {})

\* A mutant of Record: a second WATCH of a key keeps the version of the first.
RecordFirst(versions, k, v) ==
    [j \in DOMAIN versions \cup {k} |-> IF j \in DOMAIN versions THEN versions[j] ELSE v]

\* WatchedKeys[k] = v
Record(versions, k, v) ==
    [j \in DOMAIN versions \cup {k} |-> IF j = k THEN v ELSE versions[j]]

cmdWatch(c, k) == /\ Send(c)
                  /\ ~sess[c].InMulti
                  /\ sess' = [sess EXCEPT ![c].WatchedKeys = Record(@, k, watch[k])]
                  /\ news' = [news EXCEPT ![c][k] = AtWatch(k)]
                  /\ UNCHANGED <<entry, watch, pc, todo, locked, pruner, prunes>>

cmdUnwatch(c) == /\ Send(c)
                 /\ sess[c].WatchedKeys /= <<>>
                 /\ sess' = [sess EXCEPT ![c].WatchedKeys = <<>>]
                 /\ news' = [news EXCEPT ![c] = [k \in Keys |-> {}]]
                 /\ UNCHANGED <<entry, watch, pc, todo, locked, pruner, prunes>>

(* dispatch inside MULTI: the command is queued, or refused when the queue is full. *)
Enqueue(c, cmd) ==
    /\ Send(c)
    /\ sess[c].InMulti
    /\ sess' = [sess EXCEPT ![c].MultiQueue =
                    IF Len(@) >= maxMultiQueueLen THEN @ ELSE Append(@, cmd)]
    /\ UNCHANGED <<entry, watch, pc, todo, locked, pruner, prunes, news>>

\* Nothing queued, nothing watched: the session after EXEC, or that of the client's
\* next connection when this one is closed.
Fresh(c) == /\ sess' = [sess EXCEPT ![c] = NewSession]
            /\ pc' = [pc EXCEPT ![c] = "idle"]
            /\ news' = [news EXCEPT ![c] = [k \in Keys |-> {}]]

(* dispatch outside MULTI: the command runs; an error of its handler closes the connection. *)
Run(c, cmd) ==
    /\ Send(c)
    /\ ~sess[c].InMulti
    /\ IF Fails(cmd)
       THEN /\ Unlocked(ShardsOf(KeysOf(cmd)))
            /\ Fresh(c)
            /\ UNCHANGED <<todo, locked>>
       ELSE /\ Call(c, cmd)
            /\ UNCHANGED <<sess, pc, news>>
    /\ UNCHANGED <<entry, watch, pruner, prunes>>

cmdExec(c) ==
    /\ Send(c)
    /\ sess[c].InMulti
    /\ sess' = [sess EXCEPT ![c].InMulti = FALSE,
                            ![c].check = DOMAIN sess[c].WatchedKeys]
    /\ pc' = [pc EXCEPT ![c] = "check"]
    /\ UNCHANGED <<entry, watch, todo, locked, pruner, prunes, news>>

\* EXEC compares the version of one more watched key.
CheckVersion(c, k) ==
    /\ pc[c] = "check"
    /\ k \in sess[c].check
    /\ IF watch[k] = sess[c].WatchedKeys[k]
       THEN /\ sess' = [sess EXCEPT ![c].check = @ \ {k}, ![c].vouched = @ \cup {k}]
            /\ news' = IF Halfway(k) THEN [news EXCEPT ![c][k] = @ \cup {"halfway"}] ELSE news
            /\ UNCHANGED pc
       ELSE Fresh(c)
    /\ UNCHANGED <<entry, watch, todo, locked, pruner, calls, prunes>>

\* Every version is unchanged: the queue runs, and nothing is watched any more.
Checked(c) ==
    /\ pc[c] = "check"
    /\ sess[c].check = {}
    /\ pc' = [pc EXCEPT ![c] = "run"]
    /\ sess' = [sess EXCEPT ![c].WatchedKeys = <<>>]
    /\ UNCHANGED <<entry, watch, todo, locked, pruner, calls, prunes, news>>

\* Commands run through dispatch while the session still counts as in MULTI: queued again.
RunQueuedAgain(c) ==
    /\ pc[c] = "run"
    /\ todo[c] = <<>>
    /\ sess[c].MultiQueue /= <<>>
    /\ sess' = [sess EXCEPT ![c].MultiQueue = Append(Tail(@), Head(@))]
    /\ UNCHANGED <<entry, watch, pc, todo, locked, pruner, calls, prunes, news>>

\* The next command of the queue; an error of its handler ends EXEC and the connection.
RunQueued(c) ==
    /\ pc[c] = "run"
    /\ todo[c] = <<>>
    /\ sess[c].MultiQueue /= <<>>
    /\ LET cmd == Head(sess[c].MultiQueue)
       IN  IF Fails(cmd)
           THEN /\ Unlocked(ShardsOf(KeysOf(cmd)))
                /\ Fresh(c)
                /\ UNCHANGED <<todo, locked>>
           ELSE /\ Call(c, cmd)
                /\ sess' = [sess EXCEPT ![c].MultiQueue = Tail(@), ![c].vouched = {}]
                /\ UNCHANGED <<pc, news>>
    /\ UNCHANGED <<entry, watch, pruner, calls, prunes>>

ExecReplies(c) ==
    /\ pc[c] = "run"
    /\ todo[c] = <<>>
    /\ sess[c].MultiQueue = <<>>
    /\ Fresh(c)
    /\ UNCHANGED <<entry, watch, todo, locked, pruner, calls, prunes>>

-----------------------------------------------------------------------------
(* Time passes, and the goroutine of runActiveExpiry. *)
Lapse(k) == /\ entry[k] = "mortal"
            /\ entry' = [entry EXCEPT ![k] = "expired"]
            /\ Tell({k}, "lapsed")
            /\ UNCHANGED <<watch, sess, pc, todo, locked, pruner, calls, prunes>>

Sample(sh) == /\ todo[expiry] = <<>> /\ pruner.at = "idle"
              /\ Unlocked({sh})
              /\ sampleOnceShard(sh) /= <<>>
              /\ todo' = [todo EXCEPT ![expiry] = sampleOnceShard(sh)]
              /\ locked' = [locked EXCEPT ![expiry] = {sh}]
              /\ UNCHANGED <<entry, watch, sess, pc, pruner, calls, prunes, news>>

(* PruneWatch copies the keys that have a version, ... *)
PruneWatch == /\ todo[expiry] = <<>> /\ pruner.at = "idle"
              /\ prunes < MaxPrunes
              /\ prunes' = prunes + 1
              /\ pruner' = [at |-> "look", keys |-> {k \in Keys : watch[k] /= 0}, dead |-> {}]
              /\ UNCHANGED <<entry, watch, sess, pc, todo, locked, calls, news>>

\* ... looks each of them up, ...
PruneLook(k) == /\ pruner.at = "look" /\ k \in pruner.keys
                /\ Unlocked({shardIndex[k]})
                /\ pruner' = [pruner EXCEPT !.keys = @ \ {k},
                                            !.dead = IF entry[k] = "none" THEN @ \cup {k} ELSE @]
                /\ UNCHANGED <<entry, watch, sess, pc, todo, locked, calls, prunes, news>>

\* ... and deletes the versions of those it did not find.
PruneDelete == /\ pruner.at = "look" /\ pruner.keys = {}
               /\ pruner' = NoPass
               /\ watch' = [k \in Keys |-> IF k \in pruner.dead THEN 0 ELSE watch[k]]
               /\ Tell(pruner.dead, "forgotten")
               /\ UNCHANGED <<entry, sess, pc, todo, locked, calls, prunes>>

Expiry == \/ \E sh \in Shards : Sample(sh)
          \/ PruneWatch
          \/ \E k \in Keys : PruneLook(k)
          \/ PruneDelete
          \/ Step(expiry)

Request(c) == \/ <<"multi">> \in Repertoire[c] /\ cmdMulti(c)
              \/ <<"discard">> \in Repertoire[c] /\ cmdDiscard(c)
              \/ \E k \in Keys : <<"watch", k>> \in Repertoire[c] /\ cmdWatch(c, k)
              \/ <<"unwatch">> \in Repertoire[c] /\ cmdUnwatch(c)
              \/ <<"exec">> \in Repertoire[c] /\ cmdExec(c)
              \/ \E cmd \in {x \in Repertoire[c] : x[1] \in DataCommands} :
                    Enqueue(c, cmd) \/ Run(c, cmd)

Progress(c) == \/ \E k \in Keys : CheckVersion(c, k)
               \/ Checked(c)
               \/ RunQueued(c)
               \/ ExecReplies(c)
               \/ Step(c)

Next == \/ \E c \in Clients : Request(c) \/ Progress(c)
        \/ \E k \in Keys : Lapse(k)
        \/ Expiry

\* As long as a call or an EXEC can go on, one does, whoever's it is.
Fairness == WF_<<sess, pc, todo, locked>>(Step(expiry) \/ \E c \in Clients : Progress(c))
Spec == Init /\ [][Next]_vars /\ Fairness

-----------------------------------------------------------------------------
(* When EXEC begins to run its queue, nothing has happened to a watched    *)
(* key since its WATCH (cmdExec), with five exceptions.  The key was moved *)
(* away by RENAME, or has passed its deadline: neither bumps its version.  *)
(* The version was forgotten meanwhile (FlushDB, PruneWatch) and counted   *)
(* up again to the same number.  When EXEC compared it, a call had changed *)
(* the entry and was about to bump the version, which it does not do in    *)
(* one step (replaceEntry, purgeEntryLocked).  Or the key was changed      *)
(* after EXEC had compared it: no lock is held until the queue runs.       *)
ExecTrustsWatch ==
    \A c \in Clients : \A k \in sess[c].vouched :
        \/ news[c][k] \cap {"changed", "renamed", "lapsed"} \subseteq {"renamed", "lapsed"}
        \/ news[c][k] \cap {"forgotten", "halfway", "late"} /= {}

(* EXEC gives up only when a watched key was stored, deleted or passed its *)
(* deadline after its WATCH.  The exceptions: its version was forgotten    *)
(* (FlushDB, PruneWatch), the bump of an earlier change came after the     *)
(* WATCH, or WATCH was given a key past its deadline, which it does not    *)
(* purge (cmdWatch, WatchVersion).                                         *)
AbortsOnlyOnChange ==
    [][\A c \in Clients :
        pc[c] = "check" /\ pc'[c] = "idle" =>
            \E k \in sess[c].check :
                news[c][k] \cap {"changed", "lapsed", "forgotten", "early", "dead"} /= {}]_vars

(* Every EXEC comes to an end, whatever calls and passes of the expiry     *)
(* goroutine hold the locks of shards meanwhile: clients are free again.   *)
ExecEnds == []<>(\A c \in Clients : pc[c] = "idle")

=============================================================================
