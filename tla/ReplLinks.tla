------------------------------ MODULE ReplLinks ------------------------------
(***************************************************************************)
(* The sending half of replication on one node (internal/peer/service.go   *)
(* and outbound.go): links to peers come and go, every write is given a    *)
(* sequence number and put on the queue of exactly one link per peer, and  *)
(* each link's writer goroutine moves its queue to the socket.             *)
(*                                                                         *)
(* A member of Links is one outPeer object, so a reconnection is another   *)
(* member.  The bytes of a frame are abstracted to its sequence number.    *)
(* The clock appears only as a choice: a deadline may pass at any time.    *)
(***************************************************************************)
EXTENDS Integers, Sequences, FiniteSets

CONSTANTS
  Links,       \* the outPeer objects that may exist
  Nodes,       \* the peers they lead to
  Addrs,       \* peer addresses
  NoID,        \* the remoteID of a peer too old to send one
  remoteNode,  \* [Links -> Nodes]: who is really at the far end
  remoteID,    \* [Links -> Nodes \cup {NoID}]: outPeer.remoteID
  addr,        \* [Links -> Addrs]: outPeer.addr
  inbound,     \* [Links -> BOOLEAN]: outPeer.inbound
  Writers,     \* goroutines that call Replicate (client handlers)
  QueueDepth,  \* peer_queue_depth
  MaxSeq       \* bound: events replicated in a behaviour

NoCache == [gen |-> 0, links |-> {}, valid |-> FALSE]

ASSUME LinksAssumption ==
  /\ NoID \notin Nodes
  /\ remoteNode \in [Links -> Nodes]
  /\ remoteID \in [Links -> Nodes \cup {NoID}]
  /\ addr \in [Links -> Addrs]
  /\ inbound \in [Links -> BOOLEAN]
  /\ QueueDepth \in Nat \ {0}
  /\ MaxSeq \in Nat

(***************************************************************************)
(* What the code relies on about identities (service.go:364-369): a peer   *)
(* either always names itself, truthfully, or never does and is then known *)
(* under one address only.                                                 *)
(***************************************************************************)
ASSUME IdentityAssumption ==
  /\ \A l \in Links : remoteID[l] \in {NoID, remoteNode[l]}
  /\ \A l, k \in Links :
       remoteNode[l] = remoteNode[k] =>
         /\ remoteID[l] = remoteID[k]
         /\ remoteID[l] = NoID => addr[l] = addr[k]

VARIABLES
  phase,      \* [Links -> phase]: where the goroutine owning the link is
  linkSeq,    \* [Links -> Nat]: outPeer.linkSeq
  linkCtr,    \* Service.linkSeq
  out,        \* Service.out: the registered links
  replStop,   \* [Links -> BOOLEAN]: outPeer.replStop
  cancelled,  \* [Links -> BOOLEAN]: the session context is done
  writerDone, \* [Links -> BOOLEAN]: outPeer.writerDone is closed
  queue,      \* [Links -> Seq]: outPeer.replCh
  writing,    \* [Links -> Nat]: the frame the writer took and is flushing, or 0
  gen,        \* Service.targetsGen
  cache,      \* Service.targetsCache
  replSeq,    \* Service.replSeq
  wpc,        \* [Writers -> step]: where each Replicate call is
  wseq,       \* [Writers -> Nat]: the sequence number it allocated
  wgen,       \* [Writers -> Nat]: the generation it loaded
  wlinks,     \* [Writers -> SUBSET Links]: the selection, then what is left of it
  fate        \* [Links -> [events -> fate]]: history of what became of each frame

linkVars   == <<phase, linkSeq, linkCtr, out, replStop, cancelled, gen>>
queueVars  == <<writerDone, queue, writing, fate>>
callVars   == <<cache, replSeq, wpc, wseq, wgen, wlinks>>
vars == <<phase, linkSeq, linkCtr, out, replStop, cancelled, writerDone, queue,
          writing, gen, cache, replSeq, wpc, wseq, wgen, wlinks, fate>>

Events == 1 .. MaxSeq
Phases == {"new", "numbered", "up", "ending", "stopped", "removed", "gone", "serving", "closed"}
Fates  == {"none", "queued", "sent", "error", "dropped"}

Init ==
  /\ phase = [l \in Links |-> "new"]
  /\ linkSeq = [l \in Links |-> 0]
  /\ linkCtr = 0
  /\ out = {}
  /\ replStop = [l \in Links |-> FALSE]
  /\ cancelled = [l \in Links |-> FALSE]
  /\ writerDone = [l \in Links |-> FALSE]
  /\ queue = [l \in Links |-> <<>>]
  /\ writing = [l \in Links |-> 0]
  /\ gen = 0
  /\ cache = NoCache
  /\ replSeq = 0
  /\ wpc = [w \in Writers |-> "idle"]
  /\ wseq = [w \in Writers |-> 0]
  /\ wgen = [w \in Writers |-> 0]
  /\ wlinks = [w \in Writers |-> {}]
  /\ fate = [l \in Links |-> [s \in Events |-> "none"]]
-----------------------------------------------------------------------------
(* Link selection. *)

\* A mutant of linkKey: links are told apart by address alone.
KeyByAddress(l) == <<"addr", addr[l]>>

\* The map key computeReplicationTargets de-duplicates on.
linkKey(l) ==
  IF remoteID[l] = NoID THEN <<"addr", addr[l]>> ELSE <<"id", remoteID[l]>>

preferLink(a, b) ==
  IF inbound[a] # inbound[b] THEN ~inbound[a] ELSE linkSeq[a] < linkSeq[b]

usable == {l \in out : ~replStop[l]}

\* The loop keeps, for each key, the link preferred to every other one.
computeReplicationTargets ==
  {l \in usable : \A k \in usable :
                    linkKey(k) = linkKey(l) => k = l \/ preferLink(l, k)}

-----------------------------------------------------------------------------
(* The life of a link, taken by the goroutine that owns its connection. *)

\* outboundPeerSession and startInboundReplLink build the link and start its
\* writer; registerOut numbers it before taking the lock.
StartLink(l) ==
  /\ phase[l] = "new"
  /\ linkCtr' = linkCtr + 1
  /\ linkSeq' = [linkSeq EXCEPT ![l] = linkCtr + 1]
  /\ phase' = [phase EXCEPT ![l] = "numbered"]
  /\ UNCHANGED <<out, replStop, cancelled, gen, queueVars, callVars>>

\* The part of registerOut under Service.mu.
registerOut(l) ==
  /\ phase[l] = "numbered"
  /\ out' = out \cup {l}
  /\ gen' = gen + 1
  /\ phase' = [phase EXCEPT ![l] = "up"]
  /\ UNCHANGED <<linkSeq, linkCtr, replStop, cancelled, queueVars, callVars>>

\* A heartbeat that cannot be written cancels the session context of a dialled
\* link; the link stays registered until its read loop ends.
HeartbeatFails(l) ==
  /\ phase[l] = "up"
  /\ ~inbound[l]
  /\ ~cancelled[l]
  /\ cancelled' = [cancelled EXCEPT ![l] = TRUE]
  /\ UNCHANGED <<phase, linkSeq, linkCtr, out, replStop, gen, queueVars, callVars>>

\* The deferred teardown of outboundPeerSession, in its order: cancel, then
\* replStop and close, then unregisterLink.
EndSession(l) ==
  /\ phase[l] = "up"
  /\ ~inbound[l]
  /\ cancelled' = [cancelled EXCEPT ![l] = TRUE]
  /\ phase' = [phase EXCEPT ![l] = "ending"]
  /\ UNCHANGED <<linkSeq, linkCtr, out, replStop, gen, queueVars, callVars>>

StopDialled(l) ==
  /\ phase[l] = "ending"
  /\ replStop' = [replStop EXCEPT ![l] = TRUE]
  /\ phase' = [phase EXCEPT ![l] = "stopped"]
  /\ UNCHANGED <<linkSeq, linkCtr, out, cancelled, gen, queueVars, callVars>>

\* stopInboundReplLink, in its order: replStop, unregisterLink, cancel.
StopAccepted(l) ==
  /\ phase[l] = "up"
  /\ inbound[l]
  /\ replStop' = [replStop EXCEPT ![l] = TRUE]
  /\ phase' = [phase EXCEPT ![l] = "stopped"]
  /\ UNCHANGED <<linkSeq, linkCtr, out, cancelled, gen, queueVars, callVars>>

\* unregisterLink: the last step of a dialled link's teardown.
unregisterLink(l) ==
  /\ phase[l] = "stopped"
  /\ out' = out \ {l}
  /\ gen' = gen + 1
  /\ phase' = [phase EXCEPT ![l] = IF inbound[l] THEN "removed" ELSE "gone"]
  /\ UNCHANGED <<linkSeq, linkCtr, replStop, cancelled, queueVars, callVars>>

CancelAccepted(l) ==
  /\ phase[l] = "removed"
  /\ cancelled' = [cancelled EXCEPT ![l] = TRUE]
  /\ phase' = [phase EXCEPT ![l] = "gone"]
  /\ UNCHANGED <<linkSeq, linkCtr, out, replStop, gen, queueVars, callVars>>

\* It then waits for the writer, but no longer than two seconds.  If the link
\* ends because the peer asked for a snapshot, serveInbound goes on to stream it
\* on the same socket; otherwise the connection is closed.
AfterStop == {"serving", "closed"}

WriterStopped(l) ==
  /\ phase[l] = "gone"
  /\ inbound[l]
  /\ writerDone[l]
  /\ \E next \in AfterStop : phase' = [phase EXCEPT ![l] = next]
  /\ UNCHANGED <<linkSeq, linkCtr, out, replStop, cancelled, gen, queueVars, callVars>>

WaitTimesOut(l) ==
  /\ phase[l] = "gone"
  /\ inbound[l]
  /\ ~writerDone[l]
  /\ \E next \in AfterStop : phase' = [phase EXCEPT ![l] = next]
  /\ UNCHANGED <<linkSeq, linkCtr, out, replStop, cancelled, gen, queueVars, callVars>>

\* When the stream ends the deferred stopInboundReplLink runs a second time: it
\* finds the link already removed and only advances the generation.
FinishSnapshot(l) ==
  /\ phase[l] = "serving"
  /\ out' = out \ {l}
  /\ gen' = gen + 1
  /\ phase' = [phase EXCEPT ![l] = "closed"]
  /\ UNCHANGED <<linkSeq, linkCtr, replStop, cancelled, queueVars, callVars>>

-----------------------------------------------------------------------------
(* outboundReplWriter, one goroutine per link. *)

\* Receives from replCh, in the main loop or while draining.
WriterTakes(l) ==
  /\ phase[l] # "new"
  /\ ~writerDone[l]
  /\ writing[l] = 0
  /\ queue[l] # <<>>
  /\ writing' = [writing EXCEPT ![l] = Head(queue[l])]
  /\ queue' = [queue EXCEPT ![l] = Tail(@)]
  /\ UNCHANGED <<writerDone, fate, linkVars, callVars>>

\* flushOutboundReplLine: the write succeeds, or fails and the frame is counted
\* as a send error.
WriterFlushes(l) ==
  /\ writing[l] # 0
  /\ \E f \in {"sent", "error"} : fate' = [fate EXCEPT ![l][writing[l]] = f]
  /\ writing' = [writing EXCEPT ![l] = 0]
  /\ UNCHANGED <<writerDone, queue, linkVars, callVars>>

\* Once the session is cancelled the writer drains until the queue is empty or
\* its deadline, 500ms after the writer STARTED, has passed.
WriterExits(l) ==
  /\ cancelled[l]
  /\ ~writerDone[l]
  /\ writing[l] = 0
  /\ writerDone' = [writerDone EXCEPT ![l] = TRUE]
  /\ UNCHANGED <<queue, writing, fate, linkVars, callVars>>

-----------------------------------------------------------------------------
(* Replicate, called by any number of client handlers at once. *)

\* buildWireRepl: the event takes the next sequence number.
buildWireRepl(w) ==
  /\ wpc[w] = "idle"
  /\ replSeq < MaxSeq
  /\ replSeq' = replSeq + 1
  /\ wseq' = [wseq EXCEPT ![w] = replSeq + 1]
  /\ wpc' = [wpc EXCEPT ![w] = "loadGen"]
  /\ UNCHANGED <<cache, wgen, wlinks, linkVars, queueVars>>

\* replicationTargets: targetsGen.Load().
LoadGen(w) ==
  /\ wpc[w] = "loadGen"
  /\ wgen' = [wgen EXCEPT ![w] = gen]
  /\ wpc' = [wpc EXCEPT ![w] = "lookup"]
  /\ UNCHANGED <<cache, replSeq, wseq, wlinks, linkVars, queueVars>>

\* targetsCache.Load(): a hit only for the generation loaded before.
CacheHit(w) == cache.valid /\ cache.gen = wgen[w]

LookupCache(w) ==
  /\ wpc[w] = "lookup"
  /\ IF CacheHit(w)
       THEN /\ wlinks' = [wlinks EXCEPT ![w] = cache.links]
            /\ wpc' = [wpc EXCEPT ![w] = "enqueue"]
       ELSE /\ wpc' = [wpc EXCEPT ![w] = "compute"]
            /\ UNCHANGED wlinks
  /\ UNCHANGED <<cache, replSeq, wseq, wgen, linkVars, queueVars>>

\* computeReplicationTargets under the read lock.
Compute(w) ==
  /\ wpc[w] = "compute"
  /\ wlinks' = [wlinks EXCEPT ![w] = computeReplicationTargets]
  /\ wpc' = [wpc EXCEPT ![w] = "store"]
  /\ UNCHANGED <<cache, replSeq, wseq, wgen, linkVars, queueVars>>

\* A mutant of StoreCache: the entry is tagged with the generation of now.
StoreTaggedNow(w) ==
  /\ wpc[w] = "store"
  /\ cache' = [gen |-> gen, links |-> wlinks[w], valid |-> TRUE]
  /\ wpc' = [wpc EXCEPT ![w] = "enqueue"]
  /\ UNCHANGED <<replSeq, wseq, wgen, wlinks, linkVars, queueVars>>

\* targetsCache.Store, tagged with the generation loaded before the computation.
StoreCache(w) ==
  /\ wpc[w] = "store"
  /\ cache' = [gen |-> wgen[w], links |-> wlinks[w], valid |-> TRUE]
  /\ wpc' = [wpc EXCEPT ![w] = "enqueue"]
  /\ UNCHANGED <<replSeq, wseq, wgen, wlinks, linkVars, queueVars>>

\* Mutants of offer: no bound on the queue; wait for room instead of dropping.
OfferUnbounded(l, s) ==
  /\ queue' = [queue EXCEPT ![l] = Append(@, s)]
  /\ fate' = [fate EXCEPT ![l][s] = "queued"]

OfferBlocking(l, s) ==
  /\ Len(queue[l]) < QueueDepth
  /\ queue' = [queue EXCEPT ![l] = Append(@, s)]
  /\ fate' = [fate EXCEPT ![l][s] = "queued"]

\* The non-blocking send: a full queue drops the event.
offer(l, s) ==
  IF Len(queue[l]) < QueueDepth
    THEN /\ queue' = [queue EXCEPT ![l] = Append(@, s)]
         /\ fate' = [fate EXCEPT ![l][s] = "queued"]
    ELSE /\ fate' = [fate EXCEPT ![l][s] = "dropped"]
         /\ UNCHANGED queue

\* One turn of Replicate's loop over its targets.
Enqueue(w) ==
  /\ wpc[w] = "enqueue"
  /\ \E l \in wlinks[w] :
       /\ offer(l, wseq[w])
       /\ wlinks' = [wlinks EXCEPT ![w] = @ \ {l}]
  /\ UNCHANGED <<cache, replSeq, wpc, wseq, wgen, writerDone, writing, linkVars>>

\* The call ends and its locals with it.
Return(w) ==
  /\ wpc[w] = "enqueue"
  /\ wlinks[w] = {}
  /\ wpc' = [wpc EXCEPT ![w] = "idle"]
  /\ wseq' = [wseq EXCEPT ![w] = 0]
  /\ wgen' = [wgen EXCEPT ![w] = 0]
  /\ UNCHANGED <<cache, replSeq, wlinks, linkVars, queueVars>>

-----------------------------------------------------------------------------
Link(l) ==
  \/ StartLink(l) \/ registerOut(l) \/ HeartbeatFails(l)
  \/ EndSession(l) \/ StopDialled(l) \/ StopAccepted(l) \/ unregisterLink(l)
  \/ CancelAccepted(l) \/ WriterStopped(l) \/ WaitTimesOut(l)
  \/ FinishSnapshot(l)

Writer(l) == WriterTakes(l) \/ WriterFlushes(l) \/ WriterExits(l)

Replicate(w) ==
  \/ buildWireRepl(w) \/ LoadGen(w) \/ LookupCache(w) \/ Compute(w)
  \/ StoreCache(w) \/ Enqueue(w) \/ Return(w)

Next ==
  \/ \E l \in Links : Link(l) \/ Writer(l)
  \/ \E w \in Writers : Replicate(w)

Spec == Init /\ [][Next]_vars

-----------------------------------------------------------------------------
(* Properties. *)

LinkTypes ==
  /\ phase \in [Links -> Phases]
  /\ linkSeq \in [Links -> Nat]
  /\ linkCtr \in Nat
  /\ out \subseteq Links
  /\ replStop \in [Links -> BOOLEAN]
  /\ cancelled \in [Links -> BOOLEAN]
  /\ gen \in Nat

QueueTypes ==
  /\ writerDone \in [Links -> BOOLEAN]
  /\ queue \in [Links -> Seq(Events)]
  /\ \A l \in Links : Len(queue[l]) <= QueueDepth
  /\ writing \in [Links -> 0 .. MaxSeq]
  /\ fate \in [Links -> [Events -> Fates]]

CallTypes ==
  /\ cache \in [gen : Nat, links : SUBSET Links, valid : BOOLEAN]
  /\ replSeq \in 0 .. MaxSeq
  /\ wpc \in [Writers -> {"idle", "loadGen", "lookup", "compute", "store", "enqueue"}]
  /\ wseq \in [Writers -> 0 .. MaxSeq]
  /\ \A w \in Writers : wpc[w] # "idle" => wseq[w] # 0
  /\ wgen \in [Writers -> Nat]
  /\ wlinks \in [Writers -> SUBSET Links]

\* Every variable has its type; in particular no link's channel ever holds more
\* frames than peer_queue_depth, whatever its writer does.
TypeOK == LinkTypes /\ QueueTypes /\ CallTypes

\* "Exactly one live link per remote node": however links register, fail over and
\* disappear while calls of Replicate run, and however stale the selection they
\* hold, no event is offered to two links that lead to the same peer.  A list
\* operation delivered twice would be applied twice.
OneLinkPerNode ==
  \A s \in Events : \A l, k \in Links :
    /\ remoteNode[l] = remoteNode[k]
    /\ fate[l][s] # "none"
    /\ fate[k][s] # "none"
    => l = k

\* S is what computeReplicationTargets would return now, except that a link may
\* have been stopped since and is about to be unregistered.
IsCurrent(S) ==
  /\ S \subseteq out
  /\ {l \in S : ~replStop[l]} \subseteq computeReplicationTargets
  /\ \A l \in computeReplicationTargets :
       l \in S \/ \E c \in S : replStop[c] /\ linkKey(c) = linkKey(l)

\* The lock-free cache of the selection (load the generation, look up, compute,
\* store) never pairs the current generation with an outdated selection: a
\* registration or removal that races the computation leaves an entry no later
\* call will accept.
CacheFresh == cache.valid /\ cache.gen = gen => IsCurrent(cache.links)

\* Replicate never blocks: at no point of a call does it have to wait for a
\* writer, a link or another call before its next step, however full the queues
\* are and whether or not their writers are still there.
ReplicateNeverBlocks == \A w \in Writers : wpc[w] # "idle" => ENABLED Replicate(w)
====
