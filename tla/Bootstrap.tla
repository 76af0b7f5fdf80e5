----------------------------- MODULE Bootstrap ------------------------------
(***************************************************************************)
(* One bootstrap of a joining node from one source: bootstrapUntilSynced   *)
(* and bootstrapOnce (internal/server/server.go), pullSnapshotOnce         *)
(* (internal/peer/bootstrap.go), the inbound worker and the buffer of      *)
(* replicated writes that waits for the snapshot (internal/peer/service.go)*)
(*                                                                         *)
(* A write is its number.  A key's value is the sequence of the writes it  *)
(* shows: SET leaves one, a push on a list (the keys in Lists) adds one.   *)
(* The source applies and sends its writes in order, and the link delivers *)
(* them in order (GapTracker and ReplLinks have the links that do not).    *)
(* The worker's channel is part of the wire.                               *)
(***************************************************************************)
EXTENDS Integers, Sequences

CONSTANTS
  Keys,
  Lists,       \* the keys that hold lists, and are pushed to; the others are SET
  MaxWrites,   \* bound: writes of the source
  MaxSyncs,    \* bound: bootstraps of the node, the first one and resyncs
  MaxFails,    \* bound: failed attempts
  QueueDepth,  \* bootstrap_queue_depth
  DrainRounds  \* rounds of DrainBootstrapInboundQueue (500 in the code)

ASSUME BootstrapAssumption ==
  /\ MaxWrites \in Nat /\ MaxSyncs \in Nat \ {0} /\ MaxFails \in Nat
  /\ QueueDepth \in Nat \ {0} /\ DrainRounds \in Nat \ {0}
  /\ Lists \subseteq Keys

VARIABLES
  written,    \* how many writes the source has applied
  source,     \* [Keys -> value]: the source's store
  unsent,     \* writes applied at the source, on their way to Replicate
  sourceLink, \* the source has registered a link to the joiner
  ownLink,    \* the joiner has registered a link to the source
  wire,       \* writes between the source's queue and the joiner's worker
  worker,     \* the write the worker holds, with the flag it has read
  active,     \* bootstrapActive
  buffer,     \* bootstrapReplBuf
  store,      \* [Keys -> value]: the joiner's store
  jpc,        \* where bootstrapUntilSynced is
  ok,         \* the attempt being closed has succeeded
  toRead,     \* keys the source's snapshot has yet to read
  chunks,     \* snapshot entries read and not yet applied
  held,       \* the write DrainBootstrapInboundQueue is applying
  drained,    \* its flag of the same name
  round,      \* its round
  syncs, fails,
  lost,       \* history: writes no snapshot read since can repair, see below
  last        \* history: the last replicated write applied to the store

writer == <<written, source, unsent>>
links == <<sourceLink, ownLink>>
snapshot == <<toRead, chunks>>
drain == <<held, drained, round>>
attempts == <<ok, syncs, fails>>
vars == <<writer, links, wire, worker, active, buffer, store, jpc, snapshot,
          drain, attempts, lost, last>>

Empty == [k \in Keys |-> <<>>]
None == [n |-> 0]

Init ==
  /\ written = 0
  /\ source = Empty
  /\ unsent = <<>>
  /\ sourceLink = FALSE
  /\ ownLink = FALSE
  /\ wire = <<>>
  /\ worker = None
  /\ active = FALSE
  /\ buffer = <<>>
  /\ store = Empty
  /\ jpc = "start"
  /\ ok = FALSE
  /\ toRead = {}
  /\ chunks = <<>>
  /\ held = None
  /\ drained = FALSE
  /\ round = 0
  /\ syncs = 0
  /\ fails = 0
  /\ lost = {}
  /\ last = 0

-----------------------------------------------------------------------------
(* The source. *)

\* applyWireRepl on a store: what a write leaves of a key's value.
applyWireRepl(st, w) ==
  [st EXCEPT ![w.key] = IF w.key \in Lists THEN Append(@, w.n) ELSE <<w.n>>]

\* A client's write, applied to the source's store.
Write(k) ==
  LET w == [n |-> written + 1, key |-> k] IN
  /\ written < MaxWrites
  /\ written' = w.n
  /\ source' = applyWireRepl(source, w)
  /\ unsent' = Append(unsent, w)
  /\ UNCHANGED <<links, wire, worker, active, buffer, store, jpc, snapshot,
                 drain, attempts, lost, last>>

\* The joiner no longer needs a snapshot to see a write: it is being read.
SnapshotTaken == jpc \in {"pulling", "drain", "apply", "off", "clear", "ready"}

\* Replicate: the write goes to the joiner if there is a link to it.
Send ==
  /\ unsent # <<>>
  /\ unsent' = Tail(unsent)
  /\ wire' = IF sourceLink THEN Append(wire, Head(unsent)) ELSE wire
  /\ lost' = IF ~sourceLink /\ SnapshotTaken THEN lost \cup {Head(unsent).n} ELSE lost
  /\ UNCHANGED <<written, source, links, worker, active, buffer, store, jpc,
                 snapshot, drain, attempts, last>>

\* registerOut on either side of the connections between the two nodes.
SourceLinks ==
  /\ ~sourceLink
  /\ sourceLink' = TRUE
  /\ UNCHANGED <<writer, ownLink, wire, worker, active, buffer, store, jpc,
                 snapshot, drain, attempts, lost, last>>

JoinerLinks ==
  /\ ~ownLink
  /\ ownLink' = TRUE
  /\ UNCHANGED <<writer, sourceLink, wire, worker, active, buffer, store, jpc,
                 snapshot, drain, attempts, lost, last>>

\* serveBootstrapSnapshot: Store.Snapshot reads one key after another while
\* writes go on; a key without a value has no entry.
ReadKey(k) ==
  /\ k \in toRead
  /\ toRead' = toRead \ {k}
  /\ chunks' = IF source[k] = <<>> THEN chunks
               ELSE Append(chunks, [key |-> k, value |-> source[k]])
  /\ UNCHANGED <<writer, links, wire, worker, active, buffer, store, jpc,
                 drain, attempts, lost, last>>

-----------------------------------------------------------------------------
(* inboundWorkerLoop: the flag is read, and then acted on. *)

Take ==
  /\ worker = None
  /\ wire # <<>>
  /\ worker' = [n |-> Head(wire).n, key |-> Head(wire).key, buffering |-> active]
  /\ wire' = Tail(wire)
  /\ UNCHANGED <<writer, links, active, buffer, store, jpc, snapshot, drain,
                 attempts, lost, last>>

\* enqueueBootstrapRepl on a write, with what becomes of it: dropped at a full
\* buffer, or left behind in one that nothing will drain.
enqueueBootstrapRepl(w) ==
  LET full == Len(buffer) >= QueueDepth IN
  /\ buffer' = IF full THEN buffer ELSE Append(buffer, w)
  /\ lost' = IF full \/ ~active THEN lost \cup {w.n} ELSE lost

Act ==
  LET w == [n |-> worker.n, key |-> worker.key] IN
  /\ worker # None
  /\ worker' = None
  /\ \/ /\ worker.buffering
        /\ enqueueBootstrapRepl(w)
        /\ UNCHANGED <<store, last>>
     \/ /\ ~worker.buffering
        /\ store' = applyWireRepl(store, w)
        /\ last' = w.n
        /\ UNCHANGED <<buffer, lost>>
  /\ UNCHANGED <<writer, links, wire, active, jpc, snapshot, drain, attempts>>

-----------------------------------------------------------------------------
(* bootstrapOnce. *)

goto(step) == jpc' = step

\* A mutant of Activate: buffering is not switched on.
ActivateNothing ==
  /\ \/ jpc \in {"start", "backoff"} /\ syncs' = syncs
     \/ jpc = "ready" /\ syncs < MaxSyncs - 1 /\ syncs' = syncs + 1
  /\ goto("await")
  /\ UNCHANGED <<writer, links, wire, worker, active, buffer, store, snapshot,
                 drain, ok, fails, lost, last>>

\* A mutant of Activate: a failed attempt is not repeated.
ActivateOnce ==
  /\ \/ jpc = "start" /\ syncs' = syncs
     \/ jpc = "ready" /\ syncs < MaxSyncs - 1 /\ syncs' = syncs + 1
  /\ active' = TRUE
  /\ goto("await")
  /\ UNCHANGED <<writer, links, wire, worker, buffer, store, snapshot, drain,
                 ok, fails, lost, last>>

\* SetBootstrapInboundActive(true, depth), on the first attempt, on a retry
\* after the backoff, or on the first attempt of a resync.
Activate ==
  /\ \/ jpc \in {"start", "backoff"} /\ syncs' = syncs
     \/ jpc = "ready" /\ syncs < MaxSyncs - 1 /\ syncs' = syncs + 1
  /\ active' = TRUE
  /\ goto("await")
  /\ UNCHANGED <<writer, links, wire, worker, buffer, store, snapshot, drain,
                 ok, fails, lost, last>>

\* awaitPeerLink, then pullSnapshotOnce up to its FlushDB.  The source reads its
\* store from here on, so a write lost earlier is no longer lost, unless it or an
\* older one waits in the buffer to be applied on top of the snapshot.
Request ==
  /\ jpc = "await"
  /\ ownLink
  /\ store' = Empty
  /\ toRead' = Keys
  /\ lost' = {n \in lost : \E i \in DOMAIN buffer : buffer[i].n <= n}
  /\ goto("pulling")
  /\ UNCHANGED <<writer, links, wire, worker, active, buffer, chunks, drain,
                 attempts, last>>

\* The attempt fails: no link within the wait, or the source cannot be reached,
\* refuses, or goes away.  A failed pull empties the store.
AttemptFails ==
  /\ fails < MaxFails
  /\ \/ jpc = "await" /\ ~ownLink /\ UNCHANGED store
     \/ jpc = "await" /\ ownLink /\ store' = Empty
     \/ jpc = "pulling" /\ store' = Empty
  /\ fails' = fails + 1
  /\ ok' = FALSE
  /\ toRead' = {}
  /\ chunks' = <<>>
  /\ goto("off")
  /\ UNCHANGED <<writer, links, wire, worker, active, buffer, drain, syncs,
                 lost, last>>

\* PullSnapshotFailover goes on to the next address: same flag, same buffer.
NextSource ==
  /\ fails < MaxFails
  /\ jpc = "pulling"
  /\ fails' = fails + 1
  /\ store' = Empty
  /\ toRead' = {}
  /\ chunks' = <<>>
  /\ goto("await")
  /\ UNCHANGED <<writer, links, wire, worker, active, buffer, drain, ok, syncs,
                 lost, last>>

\* ApplySnapshotEntry on the next entry: it replaces the key.
ApplyChunk ==
  /\ chunks # <<>>
  /\ store' = [store EXCEPT ![Head(chunks).key] = Head(chunks).value]
  /\ chunks' = Tail(chunks)
  /\ UNCHANGED <<writer, links, wire, worker, active, buffer, jpc, toRead,
                 drain, attempts, lost, last>>

\* BS_DONE, after the last entry.
SnapshotDone ==
  /\ jpc = "pulling"
  /\ toRead = {}
  /\ chunks = <<>>
  /\ drained' = FALSE
  /\ round' = 0
  /\ goto("drain")
  /\ UNCHANGED <<writer, links, wire, worker, active, buffer, store, snapshot,
                 held, attempts, lost, last>>

-----------------------------------------------------------------------------
(* DrainBootstrapInboundQueue. *)

\* A mutant of DrainTake: the newest write first.
DrainTakeNewest ==
  /\ jpc = "drain"
  /\ buffer # <<>>
  /\ held' = buffer[Len(buffer)]
  /\ buffer' = SubSeq(buffer, 1, Len(buffer) - 1)
  /\ drained' = TRUE
  /\ goto("apply")
  /\ UNCHANGED <<writer, links, wire, worker, active, store, snapshot, round,
                 attempts, lost, last>>

\* Under the lock, the oldest write leaves the buffer ...
DrainTake ==
  /\ jpc = "drain"
  /\ buffer # <<>>
  /\ held' = Head(buffer)
  /\ buffer' = Tail(buffer)
  /\ drained' = TRUE
  /\ goto("apply")
  /\ UNCHANGED <<writer, links, wire, worker, active, store, snapshot, round,
                 attempts, lost, last>>

\* ... and is applied after the unlock.
DrainApply ==
  /\ jpc = "apply"
  /\ store' = applyWireRepl(store, held)
  /\ last' = held.n
  /\ held' = None
  /\ goto("drain")
  /\ UNCHANGED <<writer, links, wire, worker, active, buffer, snapshot, drained,
                 round, attempts, lost>>

\* Applying it fails: the attempt ends with the rest of the buffer in place.
DrainFails ==
  /\ fails < MaxFails
  /\ jpc = "apply"
  /\ fails' = fails + 1
  /\ held' = None
  /\ drained' = FALSE
  /\ round' = 0
  /\ ok' = FALSE
  /\ goto("off")
  /\ UNCHANGED <<writer, links, wire, worker, active, buffer, store, snapshot,
                 syncs, lost, last>>

\* The buffer is found empty: another round after a rest, unless nothing was
\* drained in this one or the rounds are used up.
DrainRest ==
  /\ jpc = "drain"
  /\ buffer = <<>>
  /\ drained /\ round + 1 < DrainRounds
  /\ drained' = FALSE
  /\ round' = round + 1
  /\ UNCHANGED <<writer, links, wire, worker, active, buffer, store, jpc,
                 snapshot, held, attempts, lost, last>>

DrainReturns ==
  /\ jpc = "drain"
  /\ buffer = <<>>
  /\ ~drained \/ round + 1 >= DrainRounds
  /\ ok' = TRUE
  /\ drained' = FALSE
  /\ round' = 0
  /\ goto("off")
  /\ UNCHANGED <<writer, links, wire, worker, active, buffer, store, snapshot,
                 held, syncs, fails, lost, last>>

-----------------------------------------------------------------------------
(* The deferred SetBootstrapInboundActive(false, 0). *)

FlagOff ==
  /\ jpc = "off"
  /\ active' = FALSE
  /\ goto("clear")
  /\ UNCHANGED <<writer, links, wire, worker, buffer, store, snapshot, drain,
                 attempts, lost, last>>

\* The buffer is emptied, whatever has come into it since the drain; then
\* bootstrapUntilSynced lets clients in or waits to try again.
ClearBuffer ==
  /\ jpc = "clear"
  /\ buffer' = <<>>
  /\ lost' = lost \cup {buffer[i].n : i \in DOMAIN buffer}
  /\ goto(IF ok THEN "ready" ELSE "backoff")
  /\ UNCHANGED <<writer, links, wire, worker, active, store, snapshot, drain,
                 attempts, last>>

Joiner ==
  \/ Activate \/ Request \/ NextSource \/ AttemptFails \/ ApplyChunk \/ SnapshotDone
  \/ DrainTake \/ DrainApply \/ DrainFails \/ DrainRest \/ DrainReturns
  \/ FlagOff \/ ClearBuffer

Worker == Take \/ Act

Next ==
  \/ \E k \in Keys : Write(k) \/ ReadKey(k)
  \/ Send \/ SourceLinks \/ JoinerLinks \/ Worker \/ Joiner

Spec == Init /\ [][Next]_vars

\* The joiner's goroutine and the snapshot go on, and the joiner gets its link;
\* attempts fail finitely often (MaxFails).
FairSpec ==
  /\ Spec
  /\ WF_vars(JoinerLinks)
  /\ WF_vars(Joiner)
  /\ \A k \in Keys : WF_vars(ReadKey(k))

-----------------------------------------------------------------------------
(* Properties. *)

Writes == [n : 1..MaxWrites, key : Keys]

\* What the variables hold; the buffer keeps to its depth (enqueueBootstrapRepl).
TypeOK ==
  /\ written \in 0..MaxWrites
  /\ source \in [Keys -> Seq(1..MaxWrites)] /\ store \in [Keys -> Seq(1..MaxWrites)]
  /\ unsent \in Seq(Writes) /\ wire \in Seq(Writes)
  /\ buffer \in Seq(Writes) /\ Len(buffer) <= QueueDepth
  /\ sourceLink \in BOOLEAN /\ ownLink \in BOOLEAN /\ active \in BOOLEAN
  /\ ok \in BOOLEAN /\ drained \in BOOLEAN
  /\ worker \in {None} \cup [n : 1..MaxWrites, key : Keys, buffering : BOOLEAN]
  /\ held \in {None} \cup Writes
  /\ jpc \in {"start", "await", "pulling", "drain", "apply", "off", "clear",
              "ready", "backoff"}
  /\ toRead \subseteq Keys
  /\ chunks \in Seq([key : Keys, value : Seq(1..MaxWrites)])
  /\ round \in 0..DrainRounds - 1
  /\ syncs \in 0..MaxSyncs - 1 /\ fails \in 0..MaxFails
  /\ lost \subseteq 1..MaxWrites
  /\ last \in 0..MaxWrites

\* Everything the source has written has come to the joiner's store or nowhere.
Settled == jpc = "ready" /\ unsent = <<>> /\ wire = <<>> /\ worker = None

\* The writes a value shows, each where it shows first.
FirstShown(value) ==
  LET shown[i \in 0..Len(value)] ==
        IF i = 0 THEN <<>>
        ELSE IF \E j \in 1..i - 1 : value[j] = value[i] THEN shown[i - 1]
        ELSE Append(shown[i - 1], value[i])
  IN shown[Len(value)]

\* A node that serves and has nothing more to receive holds what the source
\* holds, unless a write was dropped at a full buffer, wiped or left behind with
\* the buffer, or never sent for want of a link.  A list may show pushes again
\* that are in the snapshot and in the buffer, but shows the same ones in order.
OnlyLossDiverges ==
  Settled /\ lost = {} => \A k \in Keys : FirstShown(store[k]) = source[k]

\* Replicated writes reach the store in the order they were made, through the
\* change from buffering to applying and back, unless one was lost as above.
AppliedInOrder == [][lost = {} /\ last' # last => last' > last]_vars

\* The node does not give up: it serves in the end (bootstrapUntilSynced).
GetsReady == []<>(jpc = "ready")
=============================================================================
