------------------------- MODULE TransactionsProofs -------------------------
(***************************************************************************)
(* Proofs about Transactions: an EXEC that goes through can rely on the    *)
(* keys it watched, and one that aborts has a reason.  The inductive       *)
(* invariant, WatchInv, says for every watched key that EXEC has not yet   *)
(* compared what the history in news tells about its version: where it     *)
(* stands against the recorded one, and that a change no bump has followed *)
(* yet is one some call is in the middle of.                               *)
(***************************************************************************)
EXTENDS Transactions, FiniteSetTheorems, TLAPS

-----------------------------------------------------------------------------
(* Sequences. *)

\* A sequence is a function on 1 .. n.
LEMMA SeqDef == \A S : Seq(S) = UNION {[1 .. n -> S] : n \in Nat}
OBVIOUS

\* Sequences with the same elements are equal.
LEMMA SeqEqual ==
  ASSUME NEW S, NEW s \in Seq(S), NEW t \in Seq(S), Len(s) = Len(t),
         \A i \in 1 .. Len(s) : s[i] = t[i]
  PROVE  s = t
OBVIOUS

\* A sequence is empty or has a length.
LEMMA EmptySeq ==
  ASSUME NEW S
  PROVE  <<>> \in Seq(S) /\ Len(<<>>) = 0 /\ \A s \in Seq(S) : s # <<>> => Len(s) \in Nat \ {0}
OBVIOUS

-----------------------------------------------------------------------------
PlanSteps == ({"remove", "move"} \X Keys) \cup ({"store"} \X Keys \X Kinds)
               \cup ({"lock"} \X Shards) \cup {<<"reset">>}

Commands == {cmd \in UNION {Repertoire[c] : c \in Clients} : cmd[1] \in DataCommands}

Versions == UNION {[D -> Nat] : D \in SUBSET Keys}

Sessions == [InMulti : BOOLEAN, MultiQueue : Seq(Commands),
             WatchedKeys : Versions,
             check : SUBSET Keys, vouched : SUBSET Keys]

\* A call in progress: the steps planned, the first of which may have come to its bump.
InProgress(t) == \/ t = <<>>
                 \/ /\ t # <<>>
                    /\ Head(t) \in PlanSteps \cup ({"bump"} \X Keys)
                    /\ Tail(t) \in Seq(PlanSteps)

News == {"changed", "renamed", "lapsed", "forgotten", "early", "dead", "halfway", "late"}

TypeInv == /\ entry \in [Keys -> Kinds]
           /\ watch \in [Keys -> Nat]
           /\ sess \in [Clients -> Sessions]
           /\ pc \in [Clients -> {"idle", "check", "run"}]
           /\ DOMAIN todo = Procs
           /\ \A p \in Procs : InProgress(todo[p])
           /\ news \in [Clients -> [Keys -> SUBSET News]]

\* The version a client recorded for k, and what excuses an abort.
Recorded(c, k) == sess[c].WatchedKeys[k]
Excuses == {"changed", "lapsed", "forgotten", "early", "dead"}

\* What the news of a watched key say about its version, as long as EXEC has not compared it.
VersionTold(c, k) ==
    /\ "forgotten" \in news[c][k] \/ watch[k] >= Recorded(c, k)
    /\ "changed" \in news[c][k] => \/ "forgotten" \in news[c][k]
                                  \/ watch[k] > Recorded(c, k)
                                  \/ Halfway(k)
    /\ watch[k] # Recorded(c, k) \/ Halfway(k) \/ entry[k] = "expired" => news[c][k] \cap Excuses # {}

ClientInv(c) ==
    /\ pc[c] = "idle" => sess[c].vouched = {} /\ sess[c].check = {}
    /\ pc[c] = "run" => DOMAIN sess[c].WatchedKeys = {}
    /\ sess[c].check \subseteq DOMAIN sess[c].WatchedKeys \ sess[c].vouched
    /\ \A k \in Keys : Unchecked(c, k) => VersionTold(c, k)
    /\ \A k \in sess[c].vouched :
          "changed" \in news[c][k] => news[c][k] \cap {"forgotten", "halfway", "late"} # {}

WatchInv == \A c \in Clients : ClientInv(c)

-----------------------------------------------------------------------------
\* The order in which InSomeOrder puts a finite set is a sequence of its members.
LEMMA InSomeOrderType == ASSUME NEW S, IsFiniteSet(S) PROVE InSomeOrder(S) \in Seq(S)
<1>1. Cardinality(S) \in Nat /\ ExistsBijection(1 .. Cardinality(S), S)
  BY FS_CardinalityType, Zenon
<1>2. \E f \in [1 .. Cardinality(S) -> S] : IsInjective(f)
  BY <1>1, Zenon DEF ExistsBijection, Bijection, Injection, IsInjective
<1>3. InSomeOrder(S) \in [1 .. Cardinality(S) -> S]
  BY <1>2, Zenon DEF InSomeOrder
<1> QED
  BY <1>1, <1>3, SeqDef, Zenon

\* Purging some keys is a plan of removals (sampleOnceShard, FlushDB).
LEMMA PurgeAllType == ASSUME NEW ks \in SUBSET Keys PROVE PurgeAll(ks) \in Seq(PlanSteps)
<1>1. IsFiniteSet(ks)
  BY KeysFinite, FS_Subset, Zenon
<1> DEFINE s == InSomeOrder(ks)
<1>2. s \in Seq(ks)
  BY <1>1, InSomeOrderType, Zenon
<1> HIDE DEF s
<1>3. Len(s) \in Nat /\ DOMAIN s = 1 .. Len(s) /\ \A i \in 1 .. Len(s) : s[i] \in Keys
  BY <1>2
<1>4. [i \in DOMAIN s |-> <<"remove", s[i]>>] \in [1 .. Len(s) -> PlanSteps]
  BY <1>3, Zenon DEF PlanSteps
<1> QED
  BY <1>3, <1>4, SeqDef DEF PurgeAll, s

\* Every command but FLUSHDB is planned as a sequence of steps none of which is a bump.
LEMMA PlanType ==
  ASSUME TypeInv, NEW cmd \in Commands, cmd[1] # "flushdb"
  PROVE  Plan(cmd) \in Seq(PlanSteps)
<1>1. \/ cmd \in {"set", "del", "rpush", "mget"} \X Keys
      \/ cmd \in {"rename"} \X Keys \X Keys
  BY CommandsKnown DEF Commands
<1>2. ASSUME NEW k \in Keys
      PROVE  /\ PurgeExpired(k) \in Seq(PlanSteps)
             /\ Del(k) \in Seq(PlanSteps)
             /\ \A e \in Kinds : replaceEntry(k, e) \in Seq(PlanSteps)
  BY <1>2 DEF PurgeExpired, Del, purgeEntryLocked, replaceEntry, PlanSteps
<1>3. ASSUME NEW k \in Keys
      PROVE  /\ Set(k) \in Seq(PlanSteps)
             /\ listPush(k) \in Seq(PlanSteps)
             /\ Get(k) \in Seq(PlanSteps)
  BY <1>2, <1>3 DEF Set, listPush, Get, Kinds
<1>4. ASSUME NEW src \in Keys, NEW dst \in Keys
      PROVE  Rename(src, dst) \in Seq(PlanSteps)
  <2>1. << <<"move", src>> >> \in Seq(PlanSteps) /\ entry[src] \in Kinds
    BY DEF PlanSteps, TypeInv
  <2> QED
    BY <1>2, <2>1 DEF Rename
<1> QED
  BY <1>1, <1>2, <1>3, <1>4, Zenon DEF Plan

\* FLUSHDB locks one shard after the other and then resets the versions.
LEMMA FlushDBType == FlushDB \in Seq(PlanSteps)
<1>1. [sh \in Shards |-> <<"lock", sh>>] \in Seq(PlanSteps)
  <2>1. [sh \in 1 .. NumShards |-> <<"lock", sh>>] \in [1 .. NumShards -> PlanSteps]
    BY Zenon DEF PlanSteps, Shards
  <2> QED
    BY <2>1, KeysSharded, SeqDef DEF Shards
<1>2. << <<"reset">> >> \in Seq(PlanSteps)
  BY DEF PlanSteps
<1> QED
  BY <1>1, <1>2 DEF FlushDB

\* A plan of which nothing is carried out yet is a call in progress.
LEMMA InProgressPlan == ASSUME NEW t \in Seq(PlanSteps) PROVE InProgress(t)
BY DEF InProgress

\* A call of the store gives its process a plan and leaves the other processes alone.
LEMMA Called ==
  ASSUME TypeInv, NEW p \in Procs, NEW cmd \in Commands, Call(p, cmd)
  PROVE  DOMAIN todo' = Procs /\ todo'[p] \in Seq(PlanSteps) /\ \A q \in Procs \ {p} : todo'[q] = todo[q]
<1>1. CASE cmd[1] = "flushdb"
  BY <1>1, FlushDBType, Zenon DEF Call, TypeInv
<1>2. CASE cmd[1] # "flushdb"
  BY <1>2, PlanType, Zenon DEF Call, TypeInv
<1> QED
  BY <1>1, <1>2, Zenon

\* Head and tail of a sequence with one element put in front.
LEMMA Prefixed ==
  ASSUME NEW S, NEW x, NEW t \in Seq(S)
  PROVE  <<x>> \o t # <<>> /\ Head(<<x>> \o t) = x /\ Tail(<<x>> \o t) = t
<1> DEFINE u == <<x>> \o t
<1>1. <<x>> \in Seq({x} \cup S) /\ t \in Seq({x} \cup S)
  OBVIOUS
<1>2. u \in Seq({x} \cup S) /\ Len(u) = 1 + Len(t) /\ u[1] = x
  BY <1>1
<1>3. \A i \in 1 .. Len(t) : u[i + 1] = t[i]
  BY <1>1
<1> HIDE DEF u
<1>4. Tail(u) \in Seq({x} \cup S) /\ Len(Tail(u)) = Len(t)
  BY <1>2
<1>5. \A i \in 1 .. Len(t) : Tail(u)[i] = t[i]
  BY <1>2, <1>3
<1>6. Tail(u) = t
  BY <1>1, <1>4, <1>5, SeqEqual, Zenon
<1> QED
  BY <1>2, <1>6 DEF u

\* The steps of a call that process p makes, by what they touch: a version, the entry of
\* a key, nothing but the locks, all versions.
BumpStep(p, k) == /\ Head(todo[p]) = <<"bump", k>>
                  /\ watch' = [watch EXCEPT ![k] = @ + 1]
                  /\ UNCHANGED <<entry, news>>
                  /\ todo'[p] \in Seq(PlanSteps)

EntryStep(p, k, e) == /\ Head(todo[p]) \in PlanSteps
                      /\ entry' = [entry EXCEPT ![k] = e]
                      /\ watch' = watch
                      /\ \/ /\ todo'[p] # <<>>
                            /\ Head(todo'[p]) = <<"bump", k>>
                            /\ Tail(todo'[p]) \in Seq(PlanSteps)
                            /\ \/ entry[k] = "expired" /\ e = "none" /\ UNCHANGED news
                               \/ Tell({k}, "changed")
                         \/ /\ todo'[p] \in Seq(PlanSteps)
                            /\ e = "none"
                            /\ UNCHANGED news \/ Tell({k}, "renamed")

LockStep(p) == /\ Head(todo[p]) \in PlanSteps
               /\ UNCHANGED <<entry, watch, news>>
               /\ todo'[p] \in Seq(PlanSteps)

ResetStep(p) == /\ Head(todo[p]) \in PlanSteps
                /\ watch' = [k \in Keys |-> 0]
                /\ Tell({k \in Keys : watch[k] /= 0}, "forgotten")
                /\ UNCHANGED entry
                /\ todo'[p] \in Seq(PlanSteps)

\* Every step of a call is one of these four.
LEMMA StepCases ==
  ASSUME TypeInv, NEW p \in Procs, Step(p)
  PROVE  /\ DOMAIN todo' = Procs
         /\ \A q \in Procs \ {p} : todo'[q] = todo[q]
         /\ todo[p] # <<>>
         /\ \/ \E k \in Keys : BumpStep(p, k)
            \/ \E k \in Keys, e \in Kinds : EntryStep(p, k, e)
            \/ LockStep(p)
            \/ ResetStep(p)
<1> DEFINE s == Head(todo[p])
           next == IF s[1] = "lock" THEN PurgeShard(s[2])
                   ELSE IF Bumps(s) THEN << <<"bump", s[2]>> >> ELSE <<>>
<1>1. /\ todo[p] # <<>>
      /\ s \in PlanSteps \cup ({"bump"} \X Keys)
      /\ Tail(todo[p]) \in Seq(PlanSteps)
  BY Zenon DEF Step, TypeInv, InProgress
<1>2. todo' = [todo EXCEPT ![p] = next \o Tail(todo[p])]
  BY Zenon DEF Step
<1>3. DOMAIN todo' = Procs /\ (\A q \in Procs \ {p} : todo'[q] = todo[q]) /\ todo'[p] = next \o Tail(todo[p])
  BY <1>2, Zenon DEF TypeInv
<1>s. s = Head(todo[p])
  BY Zenon
<1>n. /\ s[1] = "lock" => next = PurgeShard(s[2])
      /\ s[1] # "lock" /\ Bumps(s) => next = << <<"bump", s[2]>> >>
      /\ s[1] # "lock" /\ ~Bumps(s) => next = <<>>
  BY Zenon
<1>e. /\ s[1] = "remove" =>
            /\ entry' = [entry EXCEPT ![s[2]] = "none"] /\ watch' = watch
            /\ IF entry[s[2]] = "expired" THEN UNCHANGED news ELSE Tell({s[2]}, "changed")
      /\ s[1] = "move" =>
            /\ entry' = [entry EXCEPT ![s[2]] = "none"] /\ watch' = watch
            /\ IF entry[s[2]] = "expired" THEN UNCHANGED news ELSE Tell({s[2]}, "renamed")
      /\ s[1] = "store" => entry' = [entry EXCEPT ![s[2]] = s[3]] /\ watch' = watch /\ Tell({s[2]}, "changed")
      /\ s[1] = "bump" => bumpWatchKey(s[2]) /\ UNCHANGED <<entry, news>>
      /\ s[1] = "lock" => UNCHANGED <<entry, watch, news>>
      /\ s[1] = "reset" => /\ watch' = [k \in Keys |-> 0]
                           /\ Tell({k \in Keys : watch[k] /= 0}, "forgotten")
                           /\ UNCHANGED entry
  BY Zenon DEF Step
<1> HIDE DEF s, next
<1>4. CASE s \in {"bump"} \X Keys
  <2>1. PICK k \in Keys : s = <<"bump", k>>
    BY <1>4
  <2>2. next = <<>>
    BY <1>n, <2>1, Zenon DEF Bumps
  <2>3. todo'[p] \in Seq(PlanSteps)
    BY <1>1, <1>3, <2>2
  <2>4. watch' = [watch EXCEPT ![k] = @ + 1] /\ UNCHANGED <<entry, news>>
    BY <1>e, <2>1, Zenon DEF bumpWatchKey
  <2> QED
    BY <1>1, <1>3, <1>s, <2>1, <2>3, <2>4, Zenon DEF BumpStep
<1>5. CASE s \in {"remove"} \X Keys
  <2>1. PICK k \in Keys : s = <<"remove", k>>
    BY <1>5
  <2>2. next = << <<"bump", k>> >>
    BY <1>n, <2>1, Zenon DEF Bumps
  <2>3. Head(todo'[p]) = <<"bump", k>> /\ todo'[p] # <<>> /\ Tail(todo'[p]) \in Seq(PlanSteps)
    <3> DEFINE b == <<"bump", k>>
               rest == Tail(todo[p])
    <3>1. todo'[p] = <<b>> \o rest /\ rest \in Seq(PlanSteps)
      BY <1>1, <1>3, <2>2, Zenon
    <3> HIDE DEF b, rest
    <3>2. <<b>> \o rest # <<>> /\ Head(<<b>> \o rest) = b /\ Tail(<<b>> \o rest) = rest
      BY <3>1, Prefixed, Zenon
    <3> QED
      BY <3>1, <3>2, Zenon DEF b
  <2>4. /\ entry' = [entry EXCEPT ![k] = "none"] /\ watch' = watch
        /\ IF entry[k] = "expired" THEN UNCHANGED news ELSE Tell({k}, "changed")
    BY <1>e, <2>1, Zenon
  <2>5. s \in PlanSteps
    BY <2>1, Zenon DEF PlanSteps
  <2> QED
    BY <1>1, <1>3, <1>s, <2>1, <2>3, <2>4, <2>5, Zenon DEF EntryStep, Kinds
<1>6. CASE s \in {"store"} \X Keys \X Kinds
  <2>1. PICK k \in Keys, e \in Kinds : s = <<"store", k, e>>
    BY <1>6
  <2>2. next = << <<"bump", k>> >>
    BY <1>n, <2>1, Zenon DEF Bumps
  <2>3. Head(todo'[p]) = <<"bump", k>> /\ todo'[p] # <<>> /\ Tail(todo'[p]) \in Seq(PlanSteps)
    <3> DEFINE b == <<"bump", k>>
               rest == Tail(todo[p])
    <3>1. todo'[p] = <<b>> \o rest /\ rest \in Seq(PlanSteps)
      BY <1>1, <1>3, <2>2, Zenon
    <3> HIDE DEF b, rest
    <3>2. <<b>> \o rest # <<>> /\ Head(<<b>> \o rest) = b /\ Tail(<<b>> \o rest) = rest
      BY <3>1, Prefixed, Zenon
    <3> QED
      BY <3>1, <3>2, Zenon DEF b
  <2>4. entry' = [entry EXCEPT ![k] = e] /\ watch' = watch /\ Tell({k}, "changed")
    BY <1>e, <2>1, Zenon
  <2>5. s \in PlanSteps
    BY <2>1, Zenon DEF PlanSteps
  <2> QED
    BY <1>1, <1>3, <1>s, <2>1, <2>3, <2>4, <2>5, Zenon DEF EntryStep
<1>7. CASE s \in {"move"} \X Keys
  <2>1. PICK k \in Keys : s = <<"move", k>>
    BY <1>7
  <2>2. next = <<>>
    BY <1>n, <2>1, Zenon DEF Bumps
  <2>3. todo'[p] \in Seq(PlanSteps) /\ s \in PlanSteps
    BY <1>1, <1>3, <2>1, <2>2 DEF PlanSteps
  <2>4. /\ entry' = [entry EXCEPT ![k] = "none"] /\ watch' = watch
        /\ UNCHANGED news \/ Tell({k}, "renamed")
    BY <1>e, <2>1, Zenon
  <2> QED
    BY <1>1, <1>3, <1>s, <2>3, <2>4, Zenon DEF EntryStep, Kinds
<1>8. CASE s \in {"lock"} \X Shards
  <2>1. PICK sh \in Shards : s = <<"lock", sh>>
    BY <1>8
  <2>2. next \in Seq(PlanSteps)
    BY <1>n, <2>1, PurgeAllType, Zenon DEF PurgeShard
  <2>3. todo'[p] \in Seq(PlanSteps) /\ s \in PlanSteps
    BY <1>1, <1>3, <2>1, <2>2 DEF PlanSteps
  <2>4. UNCHANGED <<entry, watch, news>>
    BY <1>e, <2>1, Zenon
  <2> QED
    BY <1>1, <1>3, <1>s, <2>3, <2>4, Zenon DEF LockStep
<1>9. CASE s = <<"reset">>
  <2>1. next = <<>>
    BY <1>n, <1>9, Zenon DEF Bumps
  <2>2. todo'[p] \in Seq(PlanSteps) /\ s \in PlanSteps
    BY <1>1, <1>3, <1>9, <2>1 DEF PlanSteps
  <2>3. /\ watch' = [k \in Keys |-> 0]
        /\ Tell({k \in Keys : watch[k] /= 0}, "forgotten")
        /\ UNCHANGED entry
    BY <1>e, <1>9, Zenon
  <2> QED
    BY <1>1, <1>3, <1>s, <2>2, <2>3, Zenon DEF ResetStep
<1> QED
  BY <1>1, <1>4, <1>5, <1>6, <1>7, <1>8, <1>9, Zenon DEF PlanSteps

-----------------------------------------------------------------------------
\* Nothing is watched when WatchedKeys is empty.
LEMMA EmptyDomain == \A f : f = <<>> => DOMAIN f = {}
OBVIOUS

\* No watched keys is one of the values WatchedKeys takes.
LEMMA NoneWatched == <<>> \in Versions
<1>1. <<>> \in [{} -> Nat]
  OBVIOUS
<1> QED
  BY <1>1, Zenon DEF Versions

\* The session of a new connection is a session.
LEMMA NewSessionType == NewSession \in Sessions
BY NoneWatched DEF NewSession, Sessions

\* What the end of EXEC, or of the connection, does to the client and leaves of the others.
LEMMA Freshened ==
  ASSUME TypeInv, NEW c \in Clients, Fresh(c)
  PROVE  /\ sess' \in [Clients -> Sessions]
         /\ pc' \in [Clients -> {"idle", "check", "run"}]
         /\ news' \in [Clients -> [Keys -> SUBSET News]]
         /\ sess'[c] = NewSession /\ pc'[c] = "idle"
         /\ \A d \in Clients \ {c} : sess'[d] = sess[d] /\ pc'[d] = pc[d] /\ news'[d] = news[d]
BY NewSessionType, Zenon DEF Fresh, TypeInv

\* The fields of a session, and the versions it recorded.
LEMMA SessionFields ==
  ASSUME TypeInv, NEW c \in Clients
  PROVE  /\ sess[c] \in Sessions
         /\ sess[c].InMulti \in BOOLEAN
         /\ sess[c].MultiQueue \in Seq(Commands)
         /\ sess[c].WatchedKeys \in Versions
         /\ sess[c].check \in SUBSET Keys
         /\ sess[c].vouched \in SUBSET Keys
         /\ DOMAIN sess[c].WatchedKeys \subseteq Keys
         /\ \A k \in DOMAIN sess[c].WatchedKeys : Recorded(c, k) \in Nat
<1>1. sess[c] \in Sessions
  BY Zenon DEF TypeInv
<1>2. /\ sess[c].WatchedKeys \in Versions
      /\ sess[c].InMulti \in BOOLEAN
      /\ sess[c].MultiQueue \in Seq(Commands)
      /\ sess[c].check \in SUBSET Keys
      /\ sess[c].vouched \in SUBSET Keys
  BY <1>1, Zenon DEF Sessions
<1>3. PICK D \in SUBSET Keys : sess[c].WatchedKeys \in [D -> Nat]
  BY <1>2, Zenon DEF Versions
<1> QED
  BY <1>1, <1>2, <1>3, Zenon DEF Recorded

\* The initial states are typed.
LEMMA TypeInit == Init => TypeInv
<1> SUFFICES ASSUME Init PROVE TypeInv
  BY Zenon
<1>1. entry \in [Keys -> Kinds] /\ watch \in [Keys -> Nat]
  BY EntriesKnown, Zenon DEF Init
<1>2. sess \in [Clients -> Sessions]
  BY NewSessionType, Zenon DEF Init
<1>3. DOMAIN todo = Procs /\ \A p \in Procs : InProgress(todo[p])
  BY Zenon DEF Init, InProgress
<1> QED
  BY <1>1, <1>2, <1>3, Zenon DEF Init, TypeInv

\* A call of the store that c makes for a command outside or inside its transaction.
LEMMA CalledType ==
  ASSUME TypeInv, NEW p \in Procs, NEW cmd \in Commands, Call(p, cmd)
  PROVE  DOMAIN todo' = Procs /\ \A q \in Procs : InProgress(todo'[q])
BY Called, InProgressPlan, Zenon DEF TypeInv

\* What the watchers of the keys in ks are told: those that have not compared the version
\* learn what happened, and for those that have it comes too late or means nothing.
Informed(c, ks, what) ==
    /\ \A j \in Keys : j \notin ks => news'[c][j] = news[c][j]
    /\ \A j \in Keys : news[c][j] \subseteq news'[c][j]
    /\ \A j \in Keys : j \in ks /\ Unchecked(c, j) => news'[c][j] = news[c][j] \cup {what}
    /\ \A j \in Keys : ~Unchecked(c, j) => news'[c][j] = news[c][j] \/ "late" \in news'[c][j]

LEMMA Telling ==
  ASSUME NEW ks, NEW what, Tell(ks, what), NEW c \in Clients
  PROVE  Informed(c, ks, what)
<1>1. \A j \in Keys : news'[c][j] = IF j \in ks THEN news[c][j] \cup Told(c, j, what) ELSE news[c][j]
  BY Zenon DEF Tell
<1>2. ASSUME NEW j \in Keys
      PROVE  /\ Unchecked(c, j) => Told(c, j, what) = {what}
             /\ ~Unchecked(c, j) => Told(c, j, what) = {} \/ "late" \in Told(c, j, what)
  BY Zenon DEF Told
<1>3. ASSUME NEW j \in Keys, Told(c, j, what) = {} PROVE news'[c][j] = news[c][j]
  BY <1>1, <1>3, Zenon
<1> QED
  BY <1>1, <1>2, <1>3, Zenon DEF Informed

\* What they are told are news.
LEMMA TellType ==
  ASSUME TypeInv, NEW ks, NEW what \in News, Tell(ks, what)
  PROVE  news' \in [Clients -> [Keys -> SUBSET News]]
<1>1. ASSUME NEW c \in Clients, NEW k \in Keys
      PROVE  (IF k \in ks THEN news[c][k] \cup Told(c, k, what) ELSE news[c][k]) \in SUBSET News
  <2>1. news[c][k] \in SUBSET News
    BY Zenon DEF TypeInv
  <2>2. "changed" \in News /\ "late" \in News
    BY Zenon DEF News
  <2>3. Told(c, k, what) \in SUBSET News
    BY <2>2, Zenon DEF Told
  <2> QED
    BY <2>1, <2>3, Zenon
<1> QED
  BY <1>1, Zenon DEF Tell

\* A step of a call keeps the types.
LEMMA StepType ==
  ASSUME TypeInv, NEW p \in Procs, Step(p)
  PROVE  TypeInv'
<1>1. /\ UNCHANGED <<sess, pc>>
      /\ DOMAIN todo' = Procs
      /\ \A q \in Procs \ {p} : todo'[q] = todo[q]
  BY StepCases, Zenon DEF Step
<1>2. ASSUME InProgress(todo'[p]),
             entry' \in [Keys -> Kinds],
             watch' \in [Keys -> Nat],
             news' \in [Clients -> [Keys -> SUBSET News]]
      PROVE  TypeInv'
  BY <1>1, <1>2, Zenon DEF TypeInv, InProgress
<1>3. ASSUME NEW k \in Keys, BumpStep(p, k) PROVE TypeInv'
  BY <1>2, <1>3, InProgressPlan DEF BumpStep, TypeInv
<1>4. ASSUME NEW k \in Keys, NEW e \in Kinds, EntryStep(p, k, e) PROVE TypeInv'
  <2>1. entry' \in [Keys -> Kinds] /\ watch' \in [Keys -> Nat]
    BY <1>4, Zenon DEF EntryStep, TypeInv
  <2>2. news' \in [Clients -> [Keys -> SUBSET News]]
    <3>1. UNCHANGED news \/ Tell({k}, "changed") \/ Tell({k}, "renamed")
      BY <1>4, Zenon DEF EntryStep
    <3>2. ASSUME NEW what \in {"changed", "renamed"}, Tell({k}, what)
          PROVE  news' \in [Clients -> [Keys -> SUBSET News]]
      BY <3>2, TellType, Zenon DEF News
    <3> QED
      BY <3>1, <3>2, Zenon DEF TypeInv
  <2>3. InProgress(todo'[p])
    BY <1>4, InProgressPlan DEF EntryStep, InProgress
  <2> QED
    BY <1>2, <2>1, <2>2, <2>3, Zenon
<1>5. CASE LockStep(p)
  BY <1>2, <1>5, InProgressPlan, Zenon DEF LockStep, TypeInv
<1>6. CASE ResetStep(p)
  <2>1. news' \in [Clients -> [Keys -> SUBSET News]]
    <3> DEFINE ks == {k \in Keys : watch[k] /= 0}
    <3>1. Tell(ks, "forgotten")
      BY <1>6, Zenon DEF ResetStep
    <3> HIDE DEF ks
    <3> QED
      BY <3>1, TellType, Zenon DEF News
  <2> QED
    BY <1>2, <1>6, <2>1, InProgressPlan, Zenon DEF ResetStep, TypeInv
<1> QED
  BY <1>3, <1>4, <1>5, <1>6, StepCases, Zenon

\* Replacing one client's session.
LEMMA SessionSet ==
  ASSUME TypeInv, NEW c \in Clients, NEW s \in Sessions, sess' = [sess EXCEPT ![c] = s]
  PROVE  /\ sess' \in [Clients -> Sessions]
         /\ sess'[c] = s
         /\ \A d \in Clients \ {c} : sess'[d] = sess[d]
BY Zenon DEF TypeInv

\* The changes commands make to a session leave a session.
LEMMA SessionChange ==
  ASSUME NEW s \in Sessions, NEW b \in BOOLEAN, NEW q \in Seq(Commands), NEW w \in Versions,
         NEW ch \in SUBSET Keys, NEW vo \in SUBSET Keys
  PROVE  /\ [s EXCEPT !.InMulti = b, !.MultiQueue = q] \in Sessions
         /\ [s EXCEPT !.MultiQueue = q] \in Sessions
         /\ [s EXCEPT !.WatchedKeys = w] \in Sessions
         /\ [s EXCEPT !.InMulti = b, !.check = ch] \in Sessions
         /\ [s EXCEPT !.check = ch, !.vouched = vo] \in Sessions
BY Zenon DEF Sessions

\* The session of a client whose queue runs is one.
LEMMA SessionRun ==
  ASSUME NEW s \in Sessions, NEW q \in Seq(Commands)
  PROVE  [s EXCEPT !.MultiQueue = q, !.vouched = {}] \in Sessions
BY Zenon DEF Sessions

\* A command keeps the types.
LEMMA RequestType ==
  ASSUME TypeInv, NEW c \in Clients, Request(c)
  PROVE  TypeInv'
<1> USE SessionFields
<1>1. CASE cmdMulti(c)
  <2>1. sess' \in [Clients -> Sessions]
    <3>1. sess' = [sess EXCEPT ![c] = [sess[c] EXCEPT !.InMulti = TRUE, !.MultiQueue = <<>>]]
      BY <1>1, Zenon DEF cmdMulti, TypeInv
    <3>2. [sess[c] EXCEPT !.InMulti = TRUE, !.MultiQueue = <<>>] \in Sessions
      BY SessionChange, EmptySeq, Zenon
    <3> QED
      BY <3>1, <3>2, SessionSet, Zenon
  <2> QED
    BY <1>1, <2>1, Zenon DEF cmdMulti, TypeInv, InProgress
<1>2. CASE cmdDiscard(c)
  <2>1. sess' \in [Clients -> Sessions]
    <3>1. sess' = [sess EXCEPT ![c] = [sess[c] EXCEPT !.InMulti = FALSE, !.MultiQueue = <<>>]]
      BY <1>2, Zenon DEF cmdDiscard, TypeInv
    <3>2. [sess[c] EXCEPT !.InMulti = FALSE, !.MultiQueue = <<>>] \in Sessions
      BY SessionChange, EmptySeq, Zenon
    <3> QED
      BY <3>1, <3>2, SessionSet, Zenon
  <2> QED
    BY <1>2, <2>1, Zenon DEF cmdDiscard, TypeInv, InProgress
<1>3. ASSUME NEW k \in Keys, cmdWatch(c, k) PROVE TypeInv'
  <2> DEFINE W == Record(sess[c].WatchedKeys, k, watch[k])
  <2>1. W \in [DOMAIN sess[c].WatchedKeys \cup {k} -> Nat]
    BY Zenon DEF Record, TypeInv, Recorded
  <2>2. W \in Versions
    BY <2>1 DEF Versions
  <2>3. sess' = [sess EXCEPT ![c] = [sess[c] EXCEPT !.WatchedKeys = W]]
    BY <1>3, Zenon DEF cmdWatch, TypeInv
  <2> HIDE DEF W
  <2>4. sess' \in [Clients -> Sessions]
    BY <2>2, <2>3, SessionSet, SessionChange, Zenon
  <2>5. news' \in [Clients -> [Keys -> SUBSET News]]
    BY <1>3, Zenon DEF cmdWatch, TypeInv, AtWatch, News
  <2> QED
    BY <1>3, <2>4, <2>5, Zenon DEF cmdWatch, TypeInv, InProgress
<1>4. CASE cmdUnwatch(c)
  <2>1. sess' \in [Clients -> Sessions]
    <3>1. sess' = [sess EXCEPT ![c] = [sess[c] EXCEPT !.WatchedKeys = <<>>]]
      BY <1>4, Zenon DEF cmdUnwatch, TypeInv
    <3> QED
      BY <3>1, NoneWatched, SessionSet, SessionChange, Zenon
  <2>2. news' \in [Clients -> [Keys -> SUBSET News]]
    BY <1>4, Zenon DEF cmdUnwatch, TypeInv
  <2> QED
    BY <1>4, <2>1, <2>2, Zenon DEF cmdUnwatch, TypeInv, InProgress
<1>5. CASE cmdExec(c)
  <2>1. sess' \in [Clients -> Sessions]
    <3>1. sess' = [sess EXCEPT ![c] = [sess[c] EXCEPT !.InMulti = FALSE,
                                                      !.check = DOMAIN sess[c].WatchedKeys]]
      BY <1>5, Zenon DEF cmdExec, TypeInv
    <3> QED
      BY <3>1, SessionSet, SessionChange, Zenon
  <2> QED
    BY <1>5, <2>1, Zenon DEF cmdExec, TypeInv, InProgress
<1>6. ASSUME NEW cmd \in Commands, Enqueue(c, cmd) PROVE TypeInv'
  <2>1. sess' \in [Clients -> Sessions]
    <3> DEFINE q == IF Len(sess[c].MultiQueue) >= maxMultiQueueLen
                    THEN sess[c].MultiQueue ELSE Append(sess[c].MultiQueue, cmd)
    <3>1. sess' = [sess EXCEPT ![c] = [sess[c] EXCEPT !.MultiQueue = q]]
      BY <1>6, Zenon DEF Enqueue, TypeInv
    <3>2. q \in Seq(Commands)
      OBVIOUS
    <3> HIDE DEF q
    <3> QED
      BY <3>1, <3>2, SessionSet, SessionChange, Zenon
  <2> QED
    BY <1>6, <2>1, Zenon DEF Enqueue, TypeInv, InProgress
<1>7. ASSUME NEW cmd \in Commands, Run(c, cmd) PROVE TypeInv'
  <2>1. CASE Fails(cmd)
    BY <1>7, <2>1, Freshened, Zenon DEF Run, TypeInv, InProgress
  <2>2. CASE ~Fails(cmd)
    <3>1. Call(c, cmd) /\ UNCHANGED <<entry, watch, sess, pc, news>> /\ c \in Procs
      BY <1>7, <2>2, Zenon DEF Run, Procs
    <3> QED
      BY <3>1, CalledType, Zenon DEF TypeInv, InProgress
  <2> QED
    BY <2>1, <2>2, Zenon
<1> QED
  BY <1>1, <1>2, <1>3, <1>4, <1>5, <1>6, <1>7, Zenon DEF Request, Commands

\* A step of EXEC or of a call keeps the types.
LEMMA ProgressType ==
  ASSUME TypeInv, NEW c \in Clients, Progress(c)
  PROVE  TypeInv'
<1> USE SessionFields
<1>1. ASSUME NEW k \in Keys, CheckVersion(c, k) PROVE TypeInv'
  <2>1. CASE watch[k] = sess[c].WatchedKeys[k]
    <3>1. sess' = [sess EXCEPT ![c] = [sess[c] EXCEPT !.check = sess[c].check \ {k},
                                                      !.vouched = sess[c].vouched \cup {k}]]
      BY <1>1, <2>1, Zenon DEF CheckVersion, TypeInv
    <3>2. sess' \in [Clients -> Sessions]
      BY <3>1, SessionSet, SessionChange, Zenon
    <3>3. news' \in [Clients -> [Keys -> SUBSET News]]
      <4> DEFINE row == [news[c] EXCEPT ![k] = @ \cup {"halfway"}]
      <4>1. news' = [news EXCEPT ![c] = row] \/ news' = news
        BY <1>1, <2>1, Zenon DEF CheckVersion
      <4>2. row \in [Keys -> SUBSET News]
        BY DEF TypeInv, News
      <4> HIDE DEF row
      <4> QED
        BY <4>1, <4>2, Zenon DEF TypeInv
    <3> QED
      BY <1>1, <2>1, <3>2, <3>3, Zenon DEF CheckVersion, TypeInv, InProgress
  <2>2. CASE watch[k] # sess[c].WatchedKeys[k]
    BY <1>1, <2>2, Freshened, Zenon DEF CheckVersion, TypeInv, InProgress
  <2> QED
    BY <2>1, <2>2, Zenon
<1>2. CASE Checked(c)
  <2>1. sess' = [sess EXCEPT ![c] = [sess[c] EXCEPT !.WatchedKeys = <<>>]]
    BY <1>2, Zenon DEF Checked, TypeInv
  <2>2. sess' \in [Clients -> Sessions]
    BY <2>1, NoneWatched, SessionSet, SessionChange, Zenon
  <2> QED
    BY <1>2, <2>2, Zenon DEF Checked, TypeInv, InProgress
<1>3. CASE RunQueued(c)
  <2> DEFINE cmd == Head(sess[c].MultiQueue)
  <2>1. cmd \in Commands /\ Tail(sess[c].MultiQueue) \in Seq(Commands)
    BY <1>3 DEF RunQueued
  <2>2. CASE Fails(cmd)
    BY <1>3, <2>2, Freshened DEF RunQueued, TypeInv, InProgress
  <2>3. CASE ~Fails(cmd)
    <3>1. /\ Call(c, cmd) /\ UNCHANGED <<entry, watch, pc, news>> /\ c \in Procs
          /\ sess' = [sess EXCEPT ![c] = [sess[c] EXCEPT !.MultiQueue = Tail(sess[c].MultiQueue), !.vouched = {}]]
      BY <1>3, <2>3, Zenon DEF RunQueued, Procs, TypeInv
    <3>2. sess' \in [Clients -> Sessions]
      BY <2>1, <3>1, SessionSet, SessionRun, Zenon
    <3>3. DOMAIN todo' = Procs /\ \A q \in Procs : InProgress(todo'[q])
      BY <2>1, <3>1, CalledType, Zenon
    <3> QED
      BY <3>1, <3>2, <3>3, Zenon DEF TypeInv, InProgress
  <2> QED
    BY <2>2, <2>3, Zenon
<1>4. CASE ExecReplies(c)
  BY <1>4, Freshened, Zenon DEF ExecReplies, TypeInv, InProgress
<1>5. CASE Step(c)
  BY <1>5, StepType, Zenon DEF Procs
<1> QED
  BY <1>1, <1>2, <1>3, <1>4, <1>5, Zenon DEF Progress

\* The goroutine of runActiveExpiry keeps the types.
LEMMA ExpiryType ==
  ASSUME TypeInv, Expiry
  PROVE  TypeInv'
<1>1. ASSUME NEW sh \in Shards, Sample(sh) PROVE TypeInv'
  <2>1. sampleOnceShard(sh) \in Seq(PlanSteps)
    BY PurgeAllType, Zenon DEF sampleOnceShard
  <2>2. InProgress(sampleOnceShard(sh))
    BY <2>1, InProgressPlan, Zenon
  <2> QED
    BY <1>1, <2>2, Zenon DEF Sample, TypeInv, InProgress
<1>2. CASE PruneWatch
  BY <1>2, Zenon DEF PruneWatch, TypeInv, InProgress
<1>3. ASSUME NEW k \in Keys, PruneLook(k) PROVE TypeInv'
  BY <1>3, Zenon DEF PruneLook, TypeInv, InProgress
<1>4. CASE PruneDelete
  <2>1. watch' \in [Keys -> Nat]
    BY <1>4, Zenon DEF PruneDelete, TypeInv
  <2>2. news' \in [Clients -> [Keys -> SUBSET News]]
    BY <1>4, TellType, Zenon DEF PruneDelete, News
  <2> QED
    BY <1>4, <2>1, <2>2, Zenon DEF PruneDelete, TypeInv, InProgress
<1>5. CASE Step(expiry)
  BY <1>5, StepType, Zenon DEF Procs
<1> QED
  BY <1>1, <1>2, <1>3, <1>4, <1>5, Zenon DEF Expiry

\* Every step keeps the types.
LEMMA TypeNext == TypeInv /\ [Next]_vars => TypeInv'
<1> SUFFICES ASSUME TypeInv, [Next]_vars PROVE TypeInv'
  BY Zenon
<1>1. ASSUME NEW k \in Keys, Lapse(k) PROVE TypeInv'
  <2>1. entry' \in [Keys -> Kinds] /\ news' \in [Clients -> [Keys -> SUBSET News]]
    BY <1>1, TellType, Zenon DEF Lapse, TypeInv, Kinds, News
  <2> QED
    BY <1>1, <2>1, Zenon DEF Lapse, TypeInv, InProgress
<1>2. CASE UNCHANGED vars
  BY <1>2, Zenon DEF vars, TypeInv, InProgress
<1> QED
  BY <1>1, <1>2, RequestType, ProgressType, ExpiryType, Zenon DEF Next

-----------------------------------------------------------------------------
\* A process that is not at a bump, before or after, changes nothing about who is.
LEMMA HalfwaySame ==
  ASSUME DOMAIN todo = Procs, NEW p \in Procs,
         todo[p] = <<>> \/ Head(todo[p]) \in PlanSteps,
         todo'[p] \in Seq(PlanSteps),
         \A q \in Procs \ {p} : todo'[q] = todo[q],
         NEW k \in Keys
  PROVE  Halfway(k)' <=> Halfway(k)
<1>1. <<"bump", k>> \notin PlanSteps
  BY Zenon DEF PlanSteps
<1>2. todo'[p] # <<>> => Head(todo'[p]) \in PlanSteps
  OBVIOUS
<1> QED
  BY <1>1, <1>2, Zenon DEF Halfway

\* A client whom a step neither moves nor tells anything.
LEMMA Unmoved ==
  ASSUME NEW c \in Clients, ClientInv(c),
         sess'[c] = sess[c], pc'[c] = pc[c], news'[c] = news[c],
         watch' = watch, entry' = entry,
         \A k \in Keys : Halfway(k)' <=> Halfway(k)
  PROVE  ClientInv(c)'
<1>1. ASSUME NEW k \in Keys, Unchecked(c, k)' PROVE VersionTold(c, k)'
  BY <1>1, Zenon DEF ClientInv, Unchecked, VersionTold, Recorded
<1> QED
  BY <1>1, Zenon DEF ClientInv

\* A client that watches nothing has nothing to keep.
LEMMA NewInv ==
  ASSUME NEW c \in Clients, sess'[c] = NewSession, pc'[c] = "idle"
  PROVE  ClientInv(c)'
BY DEF ClientInv, NewSession, Unchecked

\* A client whose session a step leaves alone: what it must still keep is what the
\* news say about the versions.
LEMMA SessionKept ==
  ASSUME NEW c \in Clients, ClientInv(c),
         sess'[c] = sess[c], pc'[c] = pc[c],
         \A k \in sess[c].vouched : news'[c][k] = news[c][k] \/ "late" \in news'[c][k],
         \A k \in Keys : Unchecked(c, k) => VersionTold(c, k)'
  PROVE  ClientInv(c)'
BY Zenon DEF ClientInv, Unchecked

\* A step of a call keeps what the news say: a change is followed by its bump
\* before the process does anything else, and FlushDB's reset is told.
LEMMA StepWatch ==
  ASSUME TypeInv, WatchInv, NEW p \in Procs, Step(p)
  PROVE  WatchInv'
<1>1. UNCHANGED <<sess, pc>>
  BY Zenon DEF Step
<1> SUFFICES ASSUME NEW c \in Clients PROVE ClientInv(c)'
  BY Zenon DEF WatchInv
<1>2. ClientInv(c)
  BY Zenon DEF WatchInv
<1>3. DOMAIN todo = Procs /\ DOMAIN todo' = Procs /\ \A q \in Procs \ {p} : todo'[q] = todo[q]
  BY StepCases, Zenon DEF TypeInv
<1>4. sess[c].vouched \subseteq Keys /\ \A k \in Keys : Unchecked(c, k) => Recorded(c, k) \in Nat
  BY SessionFields, Zenon DEF Unchecked
<1>5. ASSUME NEW k \in Keys, BumpStep(p, k) PROVE ClientInv(c)'
  <2>1. /\ Head(todo[p]) = <<"bump", k>>
        /\ watch' = [watch EXCEPT ![k] = @ + 1]
        /\ UNCHANGED <<entry, news>>
        /\ todo'[p] \in Seq(PlanSteps)
    BY <1>5, Zenon DEF BumpStep
  <2>2. Halfway(k)
    BY <2>1, StepCases, Zenon DEF Halfway
  <2>3. ASSUME NEW j \in Keys, j # k PROVE Halfway(j)' <=> Halfway(j)
    <3>1. Head(todo[p]) # <<"bump", j>>
      BY <2>1, <2>3
    <3>2. todo'[p] # <<>> => Head(todo'[p]) # <<"bump", j>>
      BY <2>1 DEF PlanSteps
    <3> QED
      BY <1>3, <3>1, <3>2, Zenon DEF Halfway
  <2>4. ASSUME NEW j \in Keys, Unchecked(c, j) PROVE VersionTold(c, j)'
    <3>1. VersionTold(c, j) /\ Recorded(c, j) \in Nat /\ Recorded(c, j)' = Recorded(c, j)
      BY <1>1, <1>2, <1>4, <2>4, Zenon DEF ClientInv, Recorded
    <3>2. CASE j = k
      BY <2>1, <2>2, <3>1, <3>2 DEF VersionTold, TypeInv
    <3>3. CASE j # k
      BY <2>1, <2>3, <3>1, <3>3, Zenon DEF VersionTold, TypeInv
    <3> QED
      BY <3>2, <3>3, Zenon
  <2> QED
    BY <1>1, <1>2, <2>1, <2>4, SessionKept, Zenon
<1>6. ASSUME NEW k \in Keys, NEW e \in Kinds, EntryStep(p, k, e) PROVE ClientInv(c)'
  <2>1. UNCHANGED news \/ Tell({k}, "changed") \/ Tell({k}, "renamed")
    BY <1>6, Zenon DEF EntryStep
  <2>2. /\ \A j \in sess[c].vouched : news'[c][j] = news[c][j] \/ "late" \in news'[c][j]
        /\ \A j \in Keys : j # k => news'[c][j] = news[c][j]
        /\ \A j \in Keys : news[c][j] \subseteq news'[c][j]
    <3>1. CASE UNCHANGED news
      BY <3>1, Zenon
    <3>2. CASE Tell({k}, "changed")
      <4>1. Informed(c, {k}, "changed")
        BY <3>2, Telling, Zenon
      <4> QED
        BY <1>4, <4>1, Zenon DEF Informed, Unchecked
    <3>3. CASE Tell({k}, "renamed")
      <4>1. Informed(c, {k}, "renamed")
        BY <3>3, Telling, Zenon
      <4> QED
        BY <1>4, <4>1, Zenon DEF Informed, Unchecked
    <3> QED
      BY <2>1, <3>1, <3>2, <3>3, Zenon
  <2>3. ASSUME NEW j \in Keys PROVE Halfway(j) => Halfway(j)'
    <3>1. <<"bump", j>> \notin PlanSteps /\ Head(todo[p]) \in PlanSteps
      BY <1>6, Zenon DEF PlanSteps, EntryStep
    <3> QED
      BY <1>3, <3>1, Zenon DEF Halfway
  <2>4. ASSUME NEW j \in Keys, j # k PROVE Halfway(j)' => Halfway(j)
    <3>1. todo'[p] # <<>> => Head(todo'[p]) # <<"bump", j>>
      BY <1>6, <2>4 DEF PlanSteps, EntryStep
    <3> QED
      BY <1>3, <3>1, Zenon DEF Halfway
  <2>5. watch' = watch /\ (\A j \in Keys : j # k => entry'[j] = entry[j]) /\ entry'[k] = e
    BY <1>6, Zenon DEF EntryStep, TypeInv
  <2>6. ASSUME NEW j \in Keys, Unchecked(c, j) PROVE VersionTold(c, j)'
    <3>1. VersionTold(c, j) /\ Recorded(c, j)' = Recorded(c, j)
      BY <1>1, <1>2, <2>6, Zenon DEF ClientInv, Recorded
    <3>2. CASE j # k
      BY <2>2, <2>3, <2>4, <2>5, <3>1, <3>2, Zenon DEF VersionTold
    <3>3. CASE j = k /\ Head(todo'[p]) = <<"bump", k>> /\ todo'[p] # <<>> /\ Tell({k}, "changed")
      <4>1. news'[c][k] = news[c][k] \cup {"changed"}
        <5>1. Informed(c, {k}, "changed")
          BY <3>3, Telling, Zenon
        <5> QED
          BY <2>6, <3>3, <5>1, Zenon DEF Informed
      <4>2. Halfway(k)'
        BY <3>3, Zenon DEF Halfway
      <4> QED
        BY <2>5, <3>1, <3>3, <4>1, <4>2, Zenon DEF VersionTold, Excuses
    <3>4. CASE j = k /\ entry[k] = "expired" /\ UNCHANGED news
      BY <2>3, <2>5, <3>1, <3>4, Zenon DEF VersionTold
    <3>5. CASE j = k /\ e = "none" /\ todo'[p] \in Seq(PlanSteps) /\ (UNCHANGED news \/ Tell({k}, "renamed"))
      <4>1. news'[c][k] = news[c][k] \/ news'[c][k] = news[c][k] \cup {"renamed"}
        <5>1. Tell({k}, "renamed") => Informed(c, {k}, "renamed")
          BY Telling, Zenon
        <5> QED
          BY <2>6, <3>5, <5>1, Zenon DEF Informed
      <4>2. Halfway(k)' <=> Halfway(k)
        BY <1>3, <1>6, <3>5, HalfwaySame, Zenon DEF EntryStep
      <4> QED
        BY <2>5, <3>1, <3>5, <4>1, <4>2, Zenon DEF VersionTold
    <3> QED
      BY <1>6, <3>2, <3>3, <3>4, <3>5, Zenon DEF EntryStep
  <2> QED
    BY <1>1, <1>2, <2>2, <2>6, SessionKept, Zenon
<1>7. CASE LockStep(p)
  BY <1>1, <1>2, <1>3, <1>7, HalfwaySame, Unmoved, Zenon DEF LockStep
<1>8. CASE ResetStep(p)
  <2>1. /\ \A j \in Keys : watch[j] # 0 /\ Unchecked(c, j) => news'[c][j] = news[c][j] \cup {"forgotten"}
        /\ \A j \in Keys : watch[j] = 0 => news'[c][j] = news[c][j]
        /\ \A j \in Keys : ~Unchecked(c, j) => news'[c][j] = news[c][j] \/ "late" \in news'[c][j]
    <3> DEFINE ks == {k \in Keys : watch[k] /= 0}
    <3>1. Tell(ks, "forgotten")
      BY <1>8, Zenon DEF ResetStep
    <3>2. \A j \in Keys : j \in ks <=> watch[j] # 0
      BY Zenon
    <3> HIDE DEF ks
    <3>3. Informed(c, ks, "forgotten")
      BY <3>1, Telling, Zenon
    <3> QED
      BY <3>2, <3>3, Zenon DEF Informed
  <2>2. \A j \in Keys : Halfway(j)' <=> Halfway(j)
    BY <1>3, <1>8, HalfwaySame, Zenon DEF ResetStep
  <2>3. ASSUME NEW j \in Keys, Unchecked(c, j) PROVE VersionTold(c, j)'
    <3>1. VersionTold(c, j) /\ Recorded(c, j) \in Nat /\ Recorded(c, j)' = Recorded(c, j)
      BY <1>1, <1>2, <1>4, <2>3, Zenon DEF ClientInv, Recorded
    <3>2. watch'[j] = 0 /\ entry' = entry
      BY <1>8, Zenon DEF ResetStep
    <3>3. CASE watch[j] = 0
      BY <2>1, <2>2, <3>1, <3>2, <3>3, Zenon DEF VersionTold
    <3>4. CASE watch[j] # 0
      BY <2>1, <2>2, <2>3, <3>1, <3>2, <3>4, Zenon DEF VersionTold, Excuses
    <3> QED
      BY <3>3, <3>4, Zenon
  <2>4. \A j \in sess[c].vouched : news'[c][j] = news[c][j] \/ "late" \in news'[c][j]
    BY <1>4, <2>1, Zenon DEF Unchecked
  <2> QED
    BY <1>1, <1>2, <2>3, <2>4, SessionKept, Zenon
<1> QED
  BY <1>5, <1>6, <1>7, <1>8, StepCases, Zenon

\* A command keeps what the news say; WATCH starts them.
LEMMA RequestWatch ==
  ASSUME TypeInv, WatchInv, NEW c \in Clients, Request(c)
  PROVE  WatchInv'
<1> SUFFICES ASSUME NEW d \in Clients PROVE ClientInv(d)'
  BY Zenon DEF WatchInv
<1>i. ClientInv(c) /\ ClientInv(d)
  BY Zenon DEF WatchInv
<1>f. sess[c] \in Sessions /\ DOMAIN sess[c].WatchedKeys \subseteq Keys
  BY SessionFields, Zenon
<1>s. ASSUME NEW s, sess' = [sess EXCEPT ![c] = s]
      PROVE  sess'[c] = s /\ (d # c => sess'[d] = sess[d])
  BY <1>s, Zenon DEF TypeInv
<1>h. ASSUME todo' = todo PROVE \A k \in Keys : Halfway(k)' <=> Halfway(k)
  BY <1>h, Zenon DEF Halfway
<1>1. ASSUME NEW s, sess' = [sess EXCEPT ![c] = s], s.WatchedKeys = sess[c].WatchedKeys,
             s.check = sess[c].check, s.vouched = sess[c].vouched,
             UNCHANGED <<entry, watch, pc, todo, news>>
      PROVE  ClientInv(d)'
  <2>1. CASE d # c
    BY <1>1, <1>h, <1>i, <1>s, <2>1, Unmoved, Zenon
  <2>2. CASE d = c
    <3>1. ASSUME NEW k \in Keys, Unchecked(c, k)' PROVE VersionTold(c, k)'
      BY <1>1, <1>h, <1>i, <1>s, <3>1 DEF ClientInv, Unchecked, VersionTold, Recorded
    <3> QED
      BY <1>1, <1>i, <1>s, <2>2, <3>1, SMTT(30) DEF ClientInv
  <2> QED
    BY <2>1, <2>2, Zenon
<1>2. CASE cmdMulti(c)
  <2> DEFINE s == [sess[c] EXCEPT !.InMulti = TRUE, !.MultiQueue = <<>>]
  <2>1. sess' = [sess EXCEPT ![c] = s] /\ UNCHANGED <<entry, watch, pc, todo, news>>
    BY <1>2, Zenon DEF cmdMulti, TypeInv
  <2>2. s.WatchedKeys = sess[c].WatchedKeys /\ s.check = sess[c].check /\ s.vouched = sess[c].vouched
    BY <1>f, Zenon DEF Sessions
  <2> HIDE DEF s
  <2> QED
    BY <1>1, <2>1, <2>2, Zenon
<1>3. CASE cmdDiscard(c)
  <2> DEFINE s == [sess[c] EXCEPT !.InMulti = FALSE, !.MultiQueue = <<>>]
  <2>1. sess' = [sess EXCEPT ![c] = s] /\ UNCHANGED <<entry, watch, pc, todo, news>>
    BY <1>3, Zenon DEF cmdDiscard, TypeInv
  <2>2. s.WatchedKeys = sess[c].WatchedKeys /\ s.check = sess[c].check /\ s.vouched = sess[c].vouched
    BY <1>f, Zenon DEF Sessions
  <2> HIDE DEF s
  <2> QED
    BY <1>1, <2>1, <2>2, Zenon
<1>4. ASSUME NEW cmd, Enqueue(c, cmd) PROVE ClientInv(d)'
  <2> DEFINE q == IF Len(sess[c].MultiQueue) >= maxMultiQueueLen
                  THEN sess[c].MultiQueue ELSE Append(sess[c].MultiQueue, cmd)
             s == [sess[c] EXCEPT !.MultiQueue = q]
  <2>1. sess' = [sess EXCEPT ![c] = s] /\ UNCHANGED <<entry, watch, pc, todo, news>>
    BY <1>4, Zenon DEF Enqueue, TypeInv
  <2> HIDE DEF q
  <2>2. s.WatchedKeys = sess[c].WatchedKeys /\ s.check = sess[c].check /\ s.vouched = sess[c].vouched
    BY <1>f, Zenon DEF Sessions
  <2> HIDE DEF s
  <2> QED
    BY <1>1, <2>1, <2>2, Zenon
<1>5. ASSUME NEW k \in Keys, cmdWatch(c, k) PROVE ClientInv(d)'
  <2> DEFINE W == Record(sess[c].WatchedKeys, k, watch[k])
             s == [sess[c] EXCEPT !.WatchedKeys = W]
  <2>1. /\ sess' = [sess EXCEPT ![c] = s]
        /\ UNCHANGED <<entry, watch, pc, todo>>
        /\ news'[c][k] = AtWatch(k)
        /\ \A j \in Keys \ {k} : news'[c][j] = news[c][j]
        /\ d # c => news'[d] = news[d]
    BY <1>5, Zenon DEF cmdWatch, TypeInv
  <2>2. /\ DOMAIN W = DOMAIN sess[c].WatchedKeys \cup {k}
        /\ W[k] = watch[k]
        /\ \A j \in DOMAIN sess[c].WatchedKeys \ {k} : W[j] = sess[c].WatchedKeys[j]
    BY Zenon DEF Record
  <2> HIDE DEF W
  <2>3. s.WatchedKeys = W /\ s.check = sess[c].check /\ s.vouched = sess[c].vouched
    BY <1>f, Zenon DEF Sessions
  <2> HIDE DEF s
  <2>4. pc[c] = "idle" /\ sess[c].vouched = {} /\ sess[c].check = {}
    BY <1>5, <1>i, Zenon DEF cmdWatch, Send, Idle, ClientInv
  <2>5. CASE d # c
    BY <1>h, <1>i, <1>s, <2>1, <2>5, Unmoved, Zenon
  <2>6. CASE d = c
    <3>1. sess'[c] = s /\ pc'[c] = pc[c]
      BY <1>s, <2>1, Zenon
    <3>2. ASSUME NEW j \in Keys, Unchecked(c, j)' PROVE VersionTold(c, j)'
      <4>1. CASE j = k
        <5>1. Recorded(c, k)' = watch[k] /\ watch'[k] = watch[k] /\ watch[k] \in Nat
          BY <2>1, <2>2, <2>3, <3>1, Zenon DEF Recorded, TypeInv
        <5> QED
          BY <1>h, <2>1, <4>1, <5>1 DEF VersionTold, AtWatch, Excuses
      <4>2. CASE j # k
        <5>1. Unchecked(c, j) /\ Recorded(c, j)' = Recorded(c, j)
          BY <2>2, <2>3, <3>1, <3>2, <4>2, Zenon DEF Unchecked, Recorded
        <5> QED
          BY <1>h, <1>i, <2>1, <4>2, <5>1, Zenon DEF VersionTold, ClientInv
      <4> QED
        BY <4>1, <4>2, Zenon
    <3> QED
      BY <2>3, <2>4, <2>6, <3>1, <3>2, Zenon DEF ClientInv
  <2> QED
    BY <2>5, <2>6, Zenon
<1>6. CASE cmdUnwatch(c)
  <2> DEFINE s == [sess[c] EXCEPT !.WatchedKeys = <<>>]
  <2>1. /\ sess' = [sess EXCEPT ![c] = s]
        /\ UNCHANGED <<entry, watch, pc, todo>>
        /\ d # c => news'[d] = news[d]
    BY <1>6, Zenon DEF cmdUnwatch, TypeInv
  <2>2. s.WatchedKeys = <<>> /\ s.check = sess[c].check /\ s.vouched = sess[c].vouched
    BY <1>f, Zenon DEF Sessions
  <2> HIDE DEF s
  <2>3. pc[c] = "idle" /\ sess[c].vouched = {} /\ sess[c].check = {}
    BY <1>6, <1>i, Zenon DEF cmdUnwatch, Send, Idle, ClientInv
  <2>4. CASE d # c
    BY <1>h, <1>i, <1>s, <2>1, <2>4, Unmoved, Zenon
  <2>5. CASE d = c
    <3>1. sess'[c] = s /\ pc'[c] = pc[c] /\ DOMAIN s.WatchedKeys = {}
      BY <1>s, <2>1, <2>2, EmptyDomain, Zenon
    <3>2. \A k \in Keys : ~Unchecked(c, k)'
      BY <3>1, Zenon DEF Unchecked
    <3> QED
      BY <2>2, <2>3, <2>5, <3>1, <3>2, Zenon DEF ClientInv
  <2> QED
    BY <2>4, <2>5, Zenon
<1>7. CASE cmdExec(c)
  <2> DEFINE s == [sess[c] EXCEPT !.InMulti = FALSE, !.check = DOMAIN sess[c].WatchedKeys]
  <2>1. /\ sess' = [sess EXCEPT ![c] = s]
        /\ UNCHANGED <<entry, watch, todo, news>>
        /\ pc'[c] = "check"
        /\ d # c => pc'[d] = pc[d]
    BY <1>7, Zenon DEF cmdExec, TypeInv
  <2>2. s.WatchedKeys = sess[c].WatchedKeys /\ s.check = DOMAIN sess[c].WatchedKeys /\ s.vouched = sess[c].vouched
    BY <1>f, Zenon DEF Sessions
  <2> HIDE DEF s
  <2>3. pc[c] = "idle" /\ sess[c].vouched = {}
    BY <1>7, <1>i, Zenon DEF cmdExec, Send, Idle, ClientInv
  <2>4. CASE d # c
    BY <1>h, <1>i, <1>s, <2>1, <2>4, Unmoved, Zenon
  <2>5. CASE d = c
    <3>1. ASSUME NEW k \in Keys, Unchecked(c, k)' PROVE VersionTold(c, k)'
      BY <1>h, <1>i, <1>s, <2>1, <2>2, <3>1, SMTT(30) DEF ClientInv, Unchecked, VersionTold, Recorded
    <3> QED
      BY <1>s, <2>1, <2>2, <2>3, <2>5, <3>1, Zenon DEF ClientInv
  <2> QED
    BY <2>4, <2>5, Zenon
<1>8. ASSUME NEW cmd \in Commands, Run(c, cmd) PROVE ClientInv(d)'
  <2>1. CASE Fails(cmd)
    <3>1. Fresh(c) /\ UNCHANGED <<entry, watch, todo>>
      BY <1>8, <2>1, Zenon DEF Run
    <3> QED
      BY <1>h, <1>i, <3>1, Freshened, NewInv, Unmoved, Zenon
  <2>2. CASE ~Fails(cmd)
    <3>1. /\ Call(c, cmd) /\ UNCHANGED <<entry, watch, sess, pc, news>> /\ c \in Procs
          /\ todo[c] = <<>>
      BY <1>8, <2>2, Zenon DEF Run, Send, Idle, Procs
    <3>2. \A k \in Keys : Halfway(k)' <=> Halfway(k)
      BY <3>1, Called, HalfwaySame, Zenon DEF TypeInv
    <3> QED
      BY <1>i, <3>1, <3>2, Unmoved, Zenon
  <2> QED
    BY <2>1, <2>2, Zenon
<1> QED
  BY <1>2, <1>3, <1>4, <1>5, <1>6, <1>7, <1>8, Zenon DEF Request, Commands

\* EXEC's comparison vouches for a key whose version is the recorded one.
LEMMA ProgressWatch ==
  ASSUME TypeInv, WatchInv, NEW c \in Clients, Progress(c)
  PROVE  WatchInv'
<1> SUFFICES ASSUME NEW d \in Clients PROVE ClientInv(d)'
  BY Zenon DEF WatchInv
<1>i. ClientInv(c) /\ ClientInv(d)
  BY Zenon DEF WatchInv
<1>f. /\ sess[c] \in Sessions /\ DOMAIN sess[c].WatchedKeys \subseteq Keys /\ sess[c].vouched \subseteq Keys
      /\ sess[c].MultiQueue \in Seq(Commands)
  BY SessionFields, Zenon
<1>s. ASSUME NEW s, sess' = [sess EXCEPT ![c] = s]
      PROVE  sess'[c] = s /\ (d # c => sess'[d] = sess[d])
  BY <1>s, Zenon DEF TypeInv
<1>h. ASSUME todo' = todo PROVE \A k \in Keys : Halfway(k)' <=> Halfway(k)
  BY <1>h, Zenon DEF Halfway
<1>1. ASSUME NEW k \in Keys, CheckVersion(c, k) PROVE ClientInv(d)'
  <2>1. CASE watch[k] = sess[c].WatchedKeys[k]
    <3> DEFINE s == [sess[c] EXCEPT !.check = sess[c].check \ {k}, !.vouched = sess[c].vouched \cup {k}]
               row == [news[c] EXCEPT ![k] = @ \cup {"halfway"}]
    <3>1. /\ sess' = [sess EXCEPT ![c] = s]
          /\ UNCHANGED <<entry, watch, todo, pc>>
          /\ news' = IF Halfway(k) THEN [news EXCEPT ![c] = row] ELSE news
          /\ k \in sess[c].check /\ pc[c] = "check"
      BY <1>1, <2>1, Zenon DEF CheckVersion, TypeInv
    <3>2. /\ \A j \in Keys \ {k} : row[j] = news[c][j]
          /\ row[k] = news[c][k] \cup {"halfway"}
      BY Zenon DEF TypeInv
    <3>3. /\ s.WatchedKeys = sess[c].WatchedKeys
          /\ s.check = sess[c].check \ {k}
          /\ s.vouched = sess[c].vouched \cup {k}
      BY <1>f, Zenon DEF Sessions
    <3> HIDE DEF s, row
    <3>4. /\ \A j \in Keys \ {k} : news'[c][j] = news[c][j]
          /\ news'[c][k] = IF Halfway(k) THEN news[c][k] \cup {"halfway"} ELSE news[c][k]
          /\ d # c => news'[d] = news[d]
      BY <3>1, <3>2, Zenon DEF TypeInv
    <3>5. CASE d # c
      BY <1>h, <1>i, <1>s, <3>1, <3>4, <3>5, Unmoved, Zenon
    <3>6. CASE d = c
      <4>1. sess'[c] = s /\ pc'[c] = "check"
        BY <1>s, <3>1, Zenon
      <4>2. Unchecked(c, k)
        BY <1>i, <3>1, Zenon DEF ClientInv, Unchecked
      <4>3. ASSUME "changed" \in news'[c][k] PROVE news'[c][k] \cap {"forgotten", "halfway", "late"} # {}
        <5>1. "changed" \in news[c][k]
          BY <3>4, <4>3, SMTT(30)
        <5>2. "forgotten" \in news[c][k] \/ watch[k] > Recorded(c, k) \/ Halfway(k)
          BY <1>i, <4>2, <5>1, Zenon DEF ClientInv, VersionTold
        <5>3. ~(watch[k] > Recorded(c, k))
          BY <2>1 DEF Recorded, TypeInv
        <5> QED
          BY <3>4, <5>2, <5>3, Zenon
      <4>4. ASSUME NEW j \in Keys, Unchecked(c, j)' PROVE VersionTold(c, j)'
        <5>1. Unchecked(c, j) /\ j # k
          BY <3>3, <4>1, <4>4, Zenon DEF Unchecked
        <5> QED
          BY <1>h, <1>i, <3>1, <3>3, <3>4, <4>1, <5>1, Zenon DEF ClientInv, VersionTold, Recorded
      <4>5. ASSUME NEW j \in s.vouched, "changed" \in news'[c][j]
            PROVE  news'[c][j] \cap {"forgotten", "halfway", "late"} # {}
        BY <1>f, <1>i, <3>3, <3>4, <4>3, <4>5, Zenon DEF ClientInv
      <4> QED
        BY <1>i, <3>3, <3>6, <4>1, <4>4, <4>5, Zenon DEF ClientInv
    <3> QED
      BY <3>5, <3>6, Zenon
  <2>2. CASE watch[k] # sess[c].WatchedKeys[k]
    <3>1. Fresh(c) /\ UNCHANGED <<entry, watch, todo>>
      BY <1>1, <2>2, Zenon DEF CheckVersion
    <3> QED
      BY <1>h, <1>i, <3>1, Freshened, NewInv, Unmoved, Zenon
  <2> QED
    BY <2>1, <2>2, Zenon
<1>2. CASE Checked(c)
  <2> DEFINE s == [sess[c] EXCEPT !.WatchedKeys = <<>>]
  <2>1. /\ sess' = [sess EXCEPT ![c] = s]
        /\ UNCHANGED <<entry, watch, todo, news>>
        /\ sess[c].check = {} /\ pc'[c] = "run"
        /\ d # c => pc'[d] = pc[d]
    BY <1>2, Zenon DEF Checked, TypeInv
  <2>2. s.WatchedKeys = <<>> /\ s.check = sess[c].check /\ s.vouched = sess[c].vouched
    BY <1>f, Zenon DEF Sessions
  <2> HIDE DEF s
  <2>3. CASE d # c
    BY <1>h, <1>i, <1>s, <2>1, <2>3, Unmoved, Zenon
  <2>4. CASE d = c
    <3>1. sess'[c] = s /\ DOMAIN s.WatchedKeys = {}
      BY <1>s, <2>1, <2>2, EmptyDomain, Zenon
    <3>2. \A k \in Keys : ~Unchecked(c, k)'
      BY <3>1, Zenon DEF Unchecked
    <3> QED
      BY <1>i, <2>1, <2>2, <2>4, <3>1, <3>2, Zenon DEF ClientInv
  <2> QED
    BY <2>3, <2>4, Zenon
<1>3. CASE RunQueued(c)
  <2> DEFINE cmd == Head(sess[c].MultiQueue)
  <2>1. cmd \in Commands
    BY <1>3, <1>f DEF RunQueued
  <2>2. CASE Fails(cmd)
    <3>1. Fresh(c) /\ UNCHANGED <<entry, watch, todo>>
      BY <1>3, <2>2, Zenon DEF RunQueued
    <3> QED
      BY <1>h, <1>i, <3>1, Freshened, NewInv, Unmoved, Zenon
  <2>3. CASE ~Fails(cmd)
    <3> DEFINE s == [sess[c] EXCEPT !.MultiQueue = Tail(sess[c].MultiQueue), !.vouched = {}]
    <3>1. /\ Call(c, cmd) /\ UNCHANGED <<entry, watch, pc, news>> /\ c \in Procs /\ pc[c] = "run"
          /\ todo[c] = <<>>
          /\ sess' = [sess EXCEPT ![c] = s]
      BY <1>3, <2>3, Zenon DEF RunQueued, Procs, TypeInv
    <3>2. s.WatchedKeys = sess[c].WatchedKeys /\ s.check = sess[c].check /\ s.vouched = {}
      BY <1>f, Zenon DEF Sessions
    <3> HIDE DEF s, cmd
    <3>3. \A k \in Keys : Halfway(k)' <=> Halfway(k)
      BY <2>1, <3>1, Called, HalfwaySame, Zenon DEF TypeInv
    <3>4. CASE d # c
      BY <1>i, <1>s, <3>1, <3>3, <3>4, Unmoved, Zenon
    <3>5. CASE d = c
      <4>1. ASSUME NEW k \in Keys, Unchecked(c, k)' PROVE VersionTold(c, k)'
        BY <1>i, <1>s, <3>1, <3>2, <3>3, <4>1 DEF ClientInv, Unchecked, VersionTold, Recorded
      <4> QED
        BY <1>i, <1>s, <3>1, <3>2, <3>5, <4>1 DEF ClientInv
    <3> QED
      BY <3>4, <3>5, Zenon
  <2> QED
    BY <2>2, <2>3, Zenon
<1>4. CASE ExecReplies(c)
  <2>1. Fresh(c) /\ UNCHANGED <<entry, watch, todo>>
    BY <1>4, Zenon DEF ExecReplies
  <2> QED
    BY <1>h, <1>i, <2>1, Freshened, NewInv, Unmoved, Zenon
<1>5. CASE Step(c)
  BY <1>5, StepWatch, Zenon DEF Procs, WatchInv
<1> QED
  BY <1>1, <1>2, <1>3, <1>4, <1>5, Zenon DEF Progress

\* Sampling and pruning keep what the news say; a version PruneWatch deletes is told.
LEMMA ExpiryWatch ==
  ASSUME TypeInv, WatchInv, Expiry
  PROVE  WatchInv'
<1> SUFFICES ASSUME NEW c \in Clients PROVE ClientInv(c)'
  BY Zenon DEF WatchInv
<1>i. ClientInv(c)
  BY Zenon DEF WatchInv
<1>f. sess[c].vouched \subseteq Keys /\ \A k \in Keys : Unchecked(c, k) => Recorded(c, k) \in Nat
  BY SessionFields, Zenon DEF Unchecked
<1>h. ASSUME todo' = todo PROVE \A k \in Keys : Halfway(k)' <=> Halfway(k)
  BY <1>h, Zenon DEF Halfway
<1>1. ASSUME NEW sh \in Shards, Sample(sh) PROVE ClientInv(c)'
  <2>1. sampleOnceShard(sh) \in Seq(PlanSteps)
    BY PurgeAllType, Zenon DEF sampleOnceShard
  <2>2. /\ expiry \in Procs /\ todo[expiry] = <<>> /\ todo'[expiry] = sampleOnceShard(sh)
        /\ \A q \in Procs \ {expiry} : todo'[q] = todo[q]
        /\ UNCHANGED <<entry, watch, sess, pc, news>>
    BY <1>1, Zenon DEF Sample, Procs, TypeInv
  <2>3. \A k \in Keys : Halfway(k)' <=> Halfway(k)
    BY <2>1, <2>2, HalfwaySame, Zenon DEF TypeInv
  <2> QED
    BY <1>i, <2>2, <2>3, Unmoved, Zenon
<1>2. CASE PruneWatch
  BY <1>2, <1>h, <1>i, Unmoved, Zenon DEF PruneWatch
<1>3. ASSUME NEW k \in Keys, PruneLook(k) PROVE ClientInv(c)'
  BY <1>3, <1>h, <1>i, Unmoved, Zenon DEF PruneLook
<1>4. CASE PruneDelete
  <2>1. /\ \A j \in Keys : j \in pruner.dead /\ Unchecked(c, j) => news'[c][j] = news[c][j] \cup {"forgotten"}
        /\ \A j \in Keys : j \notin pruner.dead => news'[c][j] = news[c][j]
        /\ \A j \in Keys : ~Unchecked(c, j) => news'[c][j] = news[c][j] \/ "late" \in news'[c][j]
    <3>1. Tell(pruner.dead, "forgotten")
      BY <1>4, Zenon DEF PruneDelete
    <3>2. Informed(c, pruner.dead, "forgotten")
      BY <3>1, Telling, Zenon
    <3> QED
      BY <3>2, Zenon DEF Informed
  <2>2. ASSUME NEW j \in Keys, Unchecked(c, j) PROVE VersionTold(c, j)'
    <3>1. VersionTold(c, j) /\ Recorded(c, j) \in Nat /\ Recorded(c, j)' = Recorded(c, j)
      BY <1>4, <1>f, <1>i, <2>2, Zenon DEF ClientInv, Recorded, PruneDelete
    <3>2. /\ entry' = entry /\ (Halfway(j)' <=> Halfway(j))
          /\ watch'[j] = IF j \in pruner.dead THEN 0 ELSE watch[j]
      BY <1>4, <1>h, Zenon DEF PruneDelete
    <3>3. CASE j \notin pruner.dead
      BY <2>1, <3>1, <3>2, <3>3, Zenon DEF VersionTold
    <3>4. CASE j \in pruner.dead
      BY <2>1, <2>2, <3>1, <3>2, <3>4, Zenon DEF VersionTold, Excuses
    <3> QED
      BY <3>3, <3>4, Zenon
  <2>3. \A j \in sess[c].vouched : news'[c][j] = news[c][j] \/ "late" \in news'[c][j]
    BY <1>f, <2>1, Zenon DEF Unchecked
  <2> QED
    BY <1>4, <1>i, <2>2, <2>3, SessionKept, Zenon DEF PruneDelete
<1>5. CASE Step(expiry)
  BY <1>5, StepWatch, Zenon DEF Procs, WatchInv
<1> QED
  BY <1>1, <1>2, <1>3, <1>4, <1>5, Zenon DEF Expiry

\* A deadline that passes is told.
LEMMA LapseWatch ==
  ASSUME TypeInv, WatchInv, NEW k \in Keys, Lapse(k)
  PROVE  WatchInv'
<1> SUFFICES ASSUME NEW c \in Clients PROVE ClientInv(c)'
  BY Zenon DEF WatchInv
<1>1. ClientInv(c) /\ UNCHANGED <<watch, sess, pc, todo>> /\ sess[c].vouched \subseteq Keys
  BY SessionFields, Zenon DEF WatchInv, Lapse
<1>2. /\ Unchecked(c, k) => news'[c][k] = news[c][k] \cup {"lapsed"}
      /\ \A j \in Keys : j # k => news'[c][j] = news[c][j]
      /\ \A j \in Keys : ~Unchecked(c, j) => news'[c][j] = news[c][j] \/ "late" \in news'[c][j]
  <2>1. Informed(c, {k}, "lapsed")
    BY Telling, Zenon DEF Lapse
  <2> QED
    BY <2>1, Zenon DEF Informed
<1>3. \A j \in Keys : (Halfway(j)' <=> Halfway(j)) /\ (j # k => entry'[j] = entry[j])
  BY <1>1, Zenon DEF Halfway, Lapse, TypeInv
<1>4. ASSUME NEW j \in Keys, Unchecked(c, j) PROVE VersionTold(c, j)'
  <2>1. VersionTold(c, j) /\ Recorded(c, j)' = Recorded(c, j)
    BY <1>1, <1>4, Zenon DEF ClientInv, Recorded
  <2>2. CASE j = k
    <3>1. news'[c][j] = news[c][j] \cup {"lapsed"}
      BY <1>2, <1>4, <2>2, Zenon
    <3>2. watch' = watch /\ (Halfway(j)' <=> Halfway(j))
      BY <1>1, <1>3, Zenon
    <3> QED
      BY <2>1, <3>1, <3>2, Zenon DEF VersionTold, Excuses
  <2>3. CASE j # k
    BY <1>1, <1>2, <1>3, <2>1, <2>3, Zenon DEF VersionTold
  <2> QED
    BY <2>2, <2>3, Zenon
<1>5. \A j \in sess[c].vouched : news'[c][j] = news[c][j] \/ "late" \in news'[c][j]
  BY <1>1, <1>2, Zenon DEF Unchecked
<1> QED
  BY <1>1, <1>4, <1>5, SessionKept, Zenon

\* Nobody watches anything in the beginning.
LEMMA WatchInit == Init => WatchInv
BY EmptyDomain DEF Init, WatchInv, ClientInv, NewSession, Unchecked

\* Every step keeps the invariant of the watchers.
LEMMA WatchNext == TypeInv /\ WatchInv /\ [Next]_vars => WatchInv'
<1> SUFFICES ASSUME TypeInv, WatchInv, [Next]_vars PROVE WatchInv'
  BY Zenon
<1>1. CASE UNCHANGED vars
  <2> SUFFICES ASSUME NEW c \in Clients PROVE ClientInv(c)'
    BY Zenon DEF WatchInv
  <2>1. \A k \in Keys : Halfway(k)' <=> Halfway(k)
    BY <1>1, Zenon DEF vars, Halfway
  <2> QED
    BY <1>1, <2>1, Unmoved, Zenon DEF WatchInv, vars
<1> QED
  BY <1>1, RequestWatch, ProgressWatch, ExpiryWatch, LapseWatch, Zenon DEF Next

(* The inductive invariant: the types and what the news of every watched   *)
(* key say about its version (store_watch.go, transaction.go).             *)
THEOREM TypeAndWatch == Spec => [](TypeInv /\ WatchInv)
BY TypeInit, WatchInit, TypeNext, WatchNext, PTL DEF Spec

(* EXEC begins to run a transaction over keys to which nothing has         *)
(* happened since WATCH (cmdExec, WatchVersion), the five exceptions of    *)
(* the property apart, for any clients, keys, shards and commands.         *)
THEOREM ExecTrust == Spec => []ExecTrustsWatch
<1>1. ASSUME NEW n, "changed" \notin n
      PROVE  n \cap {"changed", "renamed", "lapsed"} \subseteq {"renamed", "lapsed"}
  BY <1>1, Zenon
<1>2. WatchInv => ExecTrustsWatch
  BY <1>1, Zenon DEF WatchInv, ClientInv, ExecTrustsWatch
<1> QED
  BY <1>2, TypeAndWatch, PTL

(* EXEC aborts for a reason: a version that differs from the recorded one  *)
(* is one that a change, a deadline or a forgotten version explains.       *)
THEOREM Aborts == Spec => AbortsOnlyOnChange
<1> DEFINE A == \A c \in Clients :
                  pc[c] = "check" /\ pc'[c] = "idle" =>
                    \E k \in sess[c].check :
                        news[c][k] \cap {"changed", "lapsed", "forgotten", "early", "dead"} /= {}
<1>1. TypeInv /\ WatchInv /\ [Next]_vars => [A]_vars
  <2> SUFFICES ASSUME TypeInv, WatchInv, Next, NEW c \in Clients, pc[c] = "check", pc'[c] = "idle"
               PROVE  \E k \in sess[c].check : news[c][k] \cap Excuses # {}
    BY Zenon DEF Excuses
  <2>1. \E k \in Keys : k \in sess[c].check /\ watch[k] # sess[c].WatchedKeys[k]
    <3>t. pc'[c] # pc[c] /\ pc \in [Clients -> {"idle", "check", "run"}]
      BY Zenon DEF TypeInv
    <3>1. ASSUME NEW d \in Clients, Request(d) PROVE FALSE
      <4>1. pc[d] = "idle"
        BY <3>1, Zenon DEF Request, cmdMulti, cmdDiscard, cmdWatch, cmdUnwatch, cmdExec, Enqueue, Run, Send, Idle
      <4>2. pc' = pc \/ \E v : pc' = [pc EXCEPT ![d] = v]
        BY <3>1, Zenon DEF Request, cmdMulti, cmdDiscard, cmdWatch, cmdUnwatch, cmdExec, Enqueue, Run, Fresh
      <4> QED
        BY <3>t, <4>1, <4>2, Zenon
    <3>2. ASSUME NEW d \in Clients, Progress(d) PROVE \E k \in Keys : CheckVersion(c, k)
      <4>1. CASE Step(d)
        BY <3>t, <4>1, Zenon DEF Step
      <4>2. CASE Checked(d)
        BY <3>t, <4>2, Zenon DEF Checked
      <4>3. CASE RunQueued(d) \/ ExecReplies(d)
        <5>1. pc[d] = "run" /\ (pc' = pc \/ pc' = [pc EXCEPT ![d] = "idle"])
          BY <4>3, Zenon DEF RunQueued, ExecReplies, Fresh
        <5> QED
          BY <3>t, <5>1, Zenon
      <4>4. ASSUME NEW k \in Keys, CheckVersion(d, k) PROVE d = c
        <5>1. pc' = pc \/ pc' = [pc EXCEPT ![d] = "idle"]
          BY <4>4, Zenon DEF CheckVersion, Fresh
        <5> QED
          BY <3>t, <5>1, Zenon
      <4> QED
        BY <3>2, <4>1, <4>2, <4>3, <4>4, Zenon DEF Progress
    <3>3. ASSUME NEW k \in Keys, Lapse(k) PROVE FALSE
      BY <3>t, <3>3, Zenon DEF Lapse
    <3>4. ASSUME Expiry PROVE FALSE
      BY <3>t, <3>4, Zenon DEF Expiry, Sample, PruneWatch, PruneLook, PruneDelete, Step
    <3>5. PICK k \in Keys : CheckVersion(c, k)
      BY <3>1, <3>2, <3>3, <3>4, Zenon DEF Next
    <3>6. k \in sess[c].check /\ (watch[k] = sess[c].WatchedKeys[k] => pc' = pc)
      BY <3>5, Zenon DEF CheckVersion
    <3> QED
      BY <3>t, <3>6, Zenon
  <2>2. PICK k \in sess[c].check : watch[k] # Recorded(c, k)
    BY <2>1, Zenon DEF Recorded
  <2>3. Unchecked(c, k) /\ k \in Keys
    BY <2>2, SessionFields, Zenon DEF WatchInv, ClientInv, Unchecked
  <2> QED
    BY <2>2, <2>3, Zenon DEF WatchInv, ClientInv, VersionTold
<1> QED
  BY <1>1, TypeAndWatch, PTL DEF Spec, AbortsOnlyOnChange
=============================================================================
