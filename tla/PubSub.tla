------------------------------ MODULE PubSub ------------------------------
(***************************************************************************)
(* Publish and subscribe on one node: client/subscription.go (the registry *)
(* of subscribers behind a read-write mutex), client/session.go (a mutex   *)
(* per session around everything written to its connection),               *)
(* commands/pubsub.go, and serveConn and dispatch of server/conn.go, which *)
(* hold the mutex of the session while a command runs.                     *)
(*                                                                         *)
(* A command is a sequence of tasks, each of which needs the registry: for *)
(* writing (join, part, drop, leave) or reading (publish).  A writer that  *)
(* waits keeps new readers out, as sync.RWMutex does.  A critical section  *)
(* in which nothing can block is one step.  Writing to a connection blocks *)
(* while its client does not read: no write has a deadline (the one of     *)
(* Shutdown is left out).                                                  *)
(***************************************************************************)
EXTENDS Integers, Sequences, FiniteSets, Functions

CONSTANTS Clients,
          Channels,
          Patterns,
          Matches,      \* path.Match: pairs of a pattern and a channel
          Repertoire,   \* the commands each client may send
          MaxCalls,     \* bound: the commands each client sends
          Idlers        \* the clients that may stop reading

Names == Channels \cup Patterns
ASSUME NamesFinite == IsFiniteSet(Names) /\ Channels \cap Patterns = {}

\* The commands of commands/pubsub.go, (P)SUBSCRIBE and (P)UNSUBSCRIBE told apart by their names.
PlainCommands == ({"subscribe", "unsubscribe"} \X Seq(Names)) \cup {<<"punsubscribe">>}
                    \cup ({"publish"} \X Channels)
ASSUME CommandsKnown ==
    \A c \in Clients : Repertoire[c] \subseteq PlainCommands \cup ({"exec"} \X Seq(PlainCommands))

VARIABLES chans, psubs,      \* the registry: the subscribers of each channel and pattern
          readers, waiting,  \* its mutex: who reads, who waits to write
          outMu,             \* per session: is its mutex taken by its own goroutine?
          writing,           \* the publishers inside a write that blocks, with the mutex of its session
          replies,           \* per session: when its own goroutine writes what it replies
          stalled,           \* the clients that do not read: the buffers of their connections are full
          sess,              \* per session: SubChannels, PSubPatterns, open
          tasks,             \* per session: what is left of its command
          push,              \* per session: the sessions its PUBLISH has yet to write to
          got,               \* per session: the messages written to it
          calls,             \* commands sent by each client
          audience           \* history: per publisher, the subscribers when it read the registry

registry == <<chans, psubs, readers, waiting>>
conns == <<writing, replies, stalled>>
vars == <<chans, psubs, readers, waiting, outMu, writing, replies, stalled, sess, tasks, push, got,
          calls, audience>>

NewSession == [SubChannels |-> {}, PSubPatterns |-> {}, open |-> TRUE]

Init == /\ chans = [ch \in Channels |-> <<>>]
        /\ psubs = [pat \in Patterns |-> <<>>]
        /\ readers = {} /\ waiting = {}
        /\ outMu = [c \in Clients |-> FALSE]
        /\ writing = {}
        /\ replies = [c \in Clients |-> "each"]
        /\ stalled = {}
        /\ sess = [c \in Clients |-> NewSession]
        /\ tasks = [c \in Clients |-> <<>>]
        /\ push = [c \in Clients |-> <<>>]
        /\ got = [c \in Clients |-> <<>>]
        /\ calls = [c \in Clients |-> 0]
        /\ audience = [c \in Clients |-> {}]

InSubscribeMode(c) == sess[c].SubChannels /= {} \/ sess[c].PSubPatterns /= {}

-----------------------------------------------------------------------------
\* The members of S in the order a map iteration happens to give.
InSomeOrder(S) == CHOOSE s \in [1 .. Cardinality(S) -> S] : IsInjective(s)

\* The sequences of ss one after the other.
Concat(ss) ==
    LET upTo[i \in 0 .. Len(ss)] == IF i = 0 THEN <<>> ELSE upTo[i - 1] \o ss[i]
    IN  upTo[Len(ss)]

(* commands/pubsub.go: the tasks of a command. *)
cmdSubscribe(names) == [i \in DOMAIN names |-> <<"join", names[i]>>]
cmdUnsubscribe(names) == [i \in DOMAIN names |-> <<"part", names[i]>>]

TasksOf(cmd) ==
    CASE cmd[1] = "subscribe"   -> cmdSubscribe(cmd[2])
      [] cmd[1] = "unsubscribe" -> IF cmd[2] = <<>> THEN << <<"part all", "channels">> >>
                                   ELSE cmdUnsubscribe(cmd[2])
      [] cmd[1] = "punsubscribe" -> << <<"part all", "patterns">> >>
      [] cmd[1] = "publish"     -> << <<"publish", cmd[2]>> >>

subscribeAllowed == {"subscribe", "unsubscribe", "punsubscribe", "ping", "quit"}

\* The mutex of the session is taken: by its own goroutine, or by a publisher inside a write.
Locked(s) == outMu[s] \/ \E c \in writing : Head(push[c]) = s

(* serveConn takes the mutex of the session and dispatches.  What a command *)
(* replies is written as it goes, task by task ("each"; "owed": now).  EXEC *)
(* runs a queue of commands (queueing is modelled in Transactions), writes  *)
(* all their replies at the end ("end") and does not ask whether the        *)
(* session is in subscribe mode.                                            *)
Receive(c, cmd) ==
    /\ sess[c].open /\ tasks[c] = <<>> /\ ~Locked(c)
    /\ calls[c] < MaxCalls[c]
    /\ calls' = [calls EXCEPT ![c] = @ + 1]
    /\ outMu' = [outMu EXCEPT ![c] = TRUE]
    /\ IF InSubscribeMode(c) /\ cmd[1] \notin subscribeAllowed
       THEN replies' = [replies EXCEPT ![c] = "owed"] /\ UNCHANGED tasks          \* refused
       ELSE /\ replies' = [replies EXCEPT ![c] = IF cmd[1] = "exec" THEN "end" ELSE "each"]
            /\ tasks' = [tasks EXCEPT ![c] =
                            IF cmd[1] = "exec"
                            THEN Concat([i \in DOMAIN cmd[2] |-> TasksOf(cmd[2][i])])
                            ELSE TasksOf(cmd)]
    /\ UNCHANGED <<registry, writing, stalled, sess, push, got, audience>>

\* QUIT, or the client closes its end: only the deferred RemoveSessionFromAll is left.
Close(c) == /\ sess[c].open /\ tasks[c] = <<>> /\ ~outMu[c]
            /\ sess' = [sess EXCEPT ![c].open = FALSE]
            /\ tasks' = [tasks EXCEPT ![c] = << <<"leave">> >>]
            /\ UNCHANGED <<registry, outMu, conns, push, got, calls, audience>>

\* Without arguments: every channel (UNSUBSCRIBE) or every pattern (PUNSUBSCRIBE).
PartAll(c) == /\ tasks[c] /= <<>> /\ Head(tasks[c])[1] = "part all"
              /\ replies[c] /= "owed"
              /\ LET names == InSomeOrder(IF Head(tasks[c])[2] = "channels" THEN sess[c].SubChannels
                                       ELSE sess[c].PSubPatterns)
                 IN  tasks' = [tasks EXCEPT ![c] = [i \in DOMAIN names |-> <<"drop", names[i]>>] \o Tail(@)]
              /\ UNCHANGED <<registry, outMu, conns, sess, push, got, calls, audience>>

\* After a task the goroutine owes a reply, unless the command is an EXEC.
Owing(c) == [replies EXCEPT ![c] = IF @ = "each" THEN "owed" ELSE @]

\* Something is to be written now: a reply, or the replies of an EXEC.
Due(c) == replies[c] = "owed" \/ (replies[c] = "end" /\ tasks[c] = <<>>)

\* writeSubscribeAck, writeInt and the rest, once the client reads; then the next task or Unlock.
Acknowledge(c) ==
    /\ Due(c) /\ c \notin stalled
    /\ replies' = [replies EXCEPT ![c] = "each"]
    /\ outMu' = [outMu EXCEPT ![c] = tasks[c] /= <<>>]
    /\ UNCHANGED <<registry, writing, stalled, sess, tasks, push, got, calls, audience>>

\* The connection is gone: what is left of the command is not done, and serveConn returns.
WriteFails(c) ==
    /\ Due(c)
    /\ replies' = [replies EXCEPT ![c] = "each"]
    /\ outMu' = [outMu EXCEPT ![c] = FALSE]
    /\ sess' = [sess EXCEPT ![c].open = FALSE]
    /\ tasks' = [tasks EXCEPT ![c] = << <<"leave">> >>]
    /\ UNCHANGED <<registry, writing, stalled, push, got, calls, audience>>

\* A command that had nothing to reply.
Unlock(c) == /\ outMu[c] /\ tasks[c] = <<>> /\ ~Due(c)
             /\ outMu' = [outMu EXCEPT ![c] = FALSE]
             /\ UNCHANGED <<registry, conns, sess, tasks, push, got, calls, audience>>

\* The client stops reading, or reads again.
Stall(c) == /\ c \in Idlers \ stalled /\ sess[c].open
            /\ stalled' = stalled \cup {c}
            /\ UNCHANGED <<registry, outMu, writing, replies, sess, tasks, push, got, calls, audience>>
Resume(c) == /\ c \in stalled /\ sess[c].open
             /\ stalled' = stalled \ {c}
             /\ UNCHANGED <<registry, outMu, writing, replies, sess, tasks, push, got, calls, audience>>

-----------------------------------------------------------------------------
(* The registry. *)
removeSession(subs, c) ==
    LET out[i \in 0 .. Len(subs)] ==
            IF i = 0 THEN <<>>
            ELSE IF subs[i] /= c THEN Append(out[i - 1], subs[i]) ELSE out[i - 1]
    IN  out[Len(subs)]

\* The pattern's subscribers are not looked through.
RemoveFromChannels(c) == /\ chans' = [ch \in Channels |-> removeSession(chans[ch], c)]
                         /\ UNCHANGED psubs

RemoveSessionFromAll(c) == /\ chans' = [ch \in Channels |-> removeSession(chans[ch], c)]
                           /\ psubs' = [pat \in Patterns |-> removeSession(psubs[pat], c)]

Subscribe(subs, c) == IF c \in Range(subs) THEN subs ELSE Append(subs, c)

Enter(c, t) ==
    \/ /\ t[1] = "join" /\ t[2] \in Channels
       /\ chans' = [chans EXCEPT ![t[2]] = Subscribe(@, c)]
       /\ UNCHANGED psubs
    \/ /\ t[1] = "join" /\ t[2] \in Patterns
       /\ psubs' = [psubs EXCEPT ![t[2]] = Subscribe(@, c)]
       /\ UNCHANGED chans
    \/ /\ t[1] \in {"part", "drop"} /\ t[2] \in Channels
       /\ chans' = [chans EXCEPT ![t[2]] = removeSession(@, c)]
       /\ UNCHANGED psubs
    \/ /\ t[1] \in {"part", "drop"} /\ t[2] \in Patterns
       /\ psubs' = [psubs EXCEPT ![t[2]] = removeSession(@, c)]
       /\ UNCHANGED chans
    \/ t[1] = "leave" /\ RemoveSessionFromAll(c)

Joined(c, name) == IF name \in Channels THEN [sess EXCEPT ![c].SubChannels = @ \cup {name}]
                   ELSE [sess EXCEPT ![c].PSubPatterns = @ \cup {name}]
Parted(c, name) == [sess EXCEPT ![c].SubChannels = @ \ {name}, ![c].PSubPatterns = @ \ {name}]

(* The session asks for the registry.  It has noted its subscription by    *)
(* then (join) or dropped it (part); UNSUBSCRIBE without arguments drops   *)
(* it afterwards.                                                          *)
WantWrite(c) ==
    /\ tasks[c] /= <<>> /\ c \notin waiting /\ replies[c] /= "owed"
    /\ LET t == Head(tasks[c])
       IN  /\ t[1] \in {"join", "part", "drop", "leave"}
           /\ sess' = CASE t[1] = "join" -> Joined(c, t[2])
                        [] t[1] = "part" -> Parted(c, t[2])
                        [] OTHER -> sess
    /\ waiting' = waiting \cup {c}
    /\ UNCHANGED <<chans, psubs, readers, outMu, conns, tasks, push, got, calls, audience>>

Write(c) == /\ c \in waiting /\ readers = {}
            /\ LET t == Head(tasks[c])
               IN  /\ Enter(c, t)
                   /\ sess' = IF t[1] = "drop" THEN Parted(c, t[2]) ELSE sess
            /\ waiting' = waiting \ {c}
            /\ tasks' = [tasks EXCEPT ![c] = Tail(@)]
            /\ replies' = IF Head(tasks[c])[1] = "leave" THEN replies ELSE Owing(c)
            /\ UNCHANGED <<readers, outMu, writing, stalled, push, got, calls, audience>>

\* The sessions Publish comes across: those of the channel, then those of the patterns.
Encounters(ch) ==
    LET pats == InSomeOrder({pat \in Patterns : <<pat, ch>> \in Matches})
    IN  chans[ch] \o Concat([i \in DOMAIN pats |-> psubs[pats[i]]])

\* A mutant of Unseen: a session is written to once per list it is in.
Encountered(subs) == subs

\* Each session the first time it comes up (seen).
Unseen(subs) ==
    LET out[i \in 0 .. Len(subs)] ==
            IF i = 0 THEN <<>>
            ELSE IF subs[i] \in Range(out[i - 1]) THEN out[i - 1] ELSE Append(out[i - 1], subs[i])
    IN  out[Len(subs)]

Registered(ch) == {c \in Clients : \/ c \in Range(chans[ch])
                                   \/ \E pat \in Patterns : <<pat, ch>> \in Matches /\ c \in Range(psubs[pat])}

Publishing(c) == c \in readers

Publish(c) ==
    /\ tasks[c] /= <<>> /\ Head(tasks[c])[1] = "publish"
    /\ ~Publishing(c) /\ replies[c] /= "owed"
    /\ waiting = {}
    /\ readers' = readers \cup {c}
    /\ push' = [push EXCEPT ![c] = Unseen(Encounters(Head(tasks[c])[2]))]
    /\ audience' = [audience EXCEPT ![c] = Registered(Head(tasks[c])[2])]
    /\ UNCHANGED <<chans, psubs, waiting, outMu, conns, sess, tasks, got, calls>>

Message(c) == <<c, calls[c], Len(tasks[c]), Head(tasks[c])[2]>>

\* The client of s takes in what is written to it, or is gone and the write fails.
Accepts(s) == s \notin stalled \/ ~sess[s].open

(* pushPubSubMessage, pushPMessage: under the mutex of the session.  What is *)
(* written to a connection that is closed is lost, and no error is heard of. *)
WriteMessage(c) ==
    /\ Publishing(c) /\ push[c] /= <<>> /\ Accepts(Head(push[c]))
    /\ LET s == Head(push[c])
       IN  got' = [got EXCEPT ![s] = IF sess[s].open THEN Append(@, Message(c)) ELSE @]
    /\ push' = [push EXCEPT ![c] = Tail(@)]
    /\ writing' = writing \ {c}
    /\ UNCHANGED <<registry, outMu, replies, stalled, sess, tasks, calls, audience>>

Push(c) ==
    /\ Publishing(c) /\ push[c] /= <<>>
    /\ c \in writing \/ ~Locked(Head(push[c]))
    /\ WriteMessage(c)

\* The write blocks, the mutex of the session and the registry stay taken.
PushBlocks(c) ==
    /\ Publishing(c) /\ push[c] /= <<>>
    /\ ~Locked(Head(push[c])) /\ ~Accepts(Head(push[c]))
    /\ writing' = writing \cup {c}
    /\ UNCHANGED <<registry, outMu, replies, stalled, sess, tasks, push, got, calls, audience>>

\* A return that does not unlock the registry.
PublishedHolding(c) ==
    /\ Publishing(c) /\ push[c] = <<>>
    /\ tasks[c] /= <<>>
    /\ tasks' = [tasks EXCEPT ![c] = Tail(@)]
    /\ replies' = Owing(c)
    /\ UNCHANGED <<registry, outMu, writing, stalled, sess, push, got, calls, audience>>

Published(c) ==
    /\ Publishing(c) /\ push[c] = <<>>
    /\ readers' = readers \ {c}
    /\ tasks' = [tasks EXCEPT ![c] = Tail(@)]
    /\ replies' = Owing(c)
    /\ UNCHANGED <<chans, psubs, waiting, outMu, writing, stalled, sess, push, got, calls, audience>>

-----------------------------------------------------------------------------
Progress(c) == \/ PartAll(c)
               \/ WantWrite(c)
               \/ Write(c)
               \/ Publish(c)
               \/ Push(c)
               \/ PushBlocks(c)
               \/ Published(c)
               \/ Acknowledge(c)
               \/ Unlock(c)

Next == \E c \in Clients : \/ \E cmd \in Repertoire[c] : Receive(c, cmd)
                          \/ Close(c) \/ WriteFails(c)
                          \/ Stall(c) \/ Resume(c)
                          \/ Progress(c)

(* The goroutine of a connection goes on while it can.  It waits for a     *)
(* mutex, where sync.Mutex and sync.RWMutex starve nobody, or in a write,  *)
(* which goes on when the client reads.  Nothing makes a client read.      *)
Fairness == \A c \in Clients : SF_vars(Progress(c))
Spec == Init /\ [][Next]_vars /\ Fairness

-----------------------------------------------------------------------------
(* No session is in a list twice.  Between two commands the session and    *)
(* the registry agree on what the client subscribes to, and a session      *)
(* whose connection is gone is in no list once RemoveSessionFromAll has    *)
(* run.                                                                    *)
RegistryAgrees ==
    /\ \A ch \in Channels : IsInjective(chans[ch])
    /\ \A pat \in Patterns : IsInjective(psubs[pat])
    /\ \A c \in Clients : tasks[c] = <<>> =>
          /\ \A ch \in Channels : c \in Range(chans[ch]) <=> sess[c].open /\ ch \in sess[c].SubChannels
          /\ \A pat \in Patterns : c \in Range(psubs[pat]) <=> sess[c].open /\ pat \in sess[c].PSubPatterns

(* A message is written only to a session that subscribes to its channel   *)
(* at that moment, by its own account: nothing arrives once an UNSUBSCRIBE *)
(* has begun (the mutex of the session keeps Publish out).                 *)
PushedToSubscribers ==
    [][\A c, s \in Clients : got'[s] /= got[s] /\ push'[c] /= push[c] =>
            LET ch == Head(tasks[c])[2]
            IN  \/ ch \in sess[s].SubChannels
                \/ \E pat \in sess[s].PSubPatterns : <<pat, ch>> \in Matches]_vars

\* Where message m is among the messages written to s.
Copies(s, m) == {i \in DOMAIN got[s] : got[s][i] = m}

(* When Publish returns, every session that was registered when it took    *)
(* the registry has the message exactly once, however many of its          *)
(* subscriptions match, and nobody else has it; only a connection closed   *)
(* meanwhile may be without it.                                            *)
ReachesAudience ==
    [][\A c \in Clients : Publishing(c) /\ ~Publishing(c)' =>
            \A s \in Clients :
                IF s \in audience[c]
                THEN \/ \E i \in DOMAIN got[s] : Copies(s, Message(c)) = {i}
                     \/ Copies(s, Message(c)) = {} /\ ~sess[s].open
                ELSE Copies(s, Message(c)) = {}]_vars

\* c, in Publish, waits for the mutex of a session that cannot release it.
WaitsFor(c, s) == Publishing(c) /\ push[c] /= <<>> /\ Head(push[c]) = s /\ outMu[s]
Crossed(c) == \E s \in Clients : /\ WaitsFor(c, s)
                                 /\ \/ s = c
                                    \/ s \in waiting
                                    \/ waiting /= {} /\ tasks[s] /= <<>> /\ Head(tasks[s])[1] = "publish" /\ ~Publishing(s)

(* A PUBLISH that has the registry gives it back if no client stops         *)
(* reading for ever, unless some PUBLISH waits for a session that holds its  *)
(* own mutex while it waits for the registry (serveConn, cmdSubscribe), or   *)
(* for its own session (SUBSCRIBE and PUBLISH in one EXEC).                  *)
PublishReturns ==
    (\A s \in Clients : []<>Accepts(s)) =>
        \A c \in Clients : Publishing(c) ~> (~Publishing(c) \/ \E d \in Clients : Crossed(d))

(* "Publish delivers a message to subscribers; returns the number of        *)
(* clients that received the payload" (subscription.go): it returns.       *)
PublishAlwaysReturns == \A c \in Clients : Publishing(c) ~> ~Publishing(c)

=============================================================================
