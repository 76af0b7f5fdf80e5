----------------------------- MODULE ResyncGate -----------------------------
(***************************************************************************)
(* When a node refetches its dataset (RequestResync and runResyncDeferred  *)
(* in internal/server/discovery.go, and the readiness flag that            *)
(* bootstrapUntilSynced sets in server.go).  Goroutines that confirm a     *)
(* loss ask for a resync; one runs at a time, not too soon after the last, *)
(* and a refused request is remembered for a ticker to repeat.             *)
(*                                                                         *)
(* Every atomic operation is a step of its own.  The clock is a choice:    *)
(* the minimum interval may end at any time.  The server is running: its   *)
(* context is set and not cancelled, and resync_on_gap is enabled.         *)
(***************************************************************************)
EXTENDS Integers, FiniteSets

CONSTANTS
  Detectors,  \* goroutines that confirm loss: watchGaps and connection readers
  Ticker,     \* the goroutine of runResyncDeferred
  MaxLosses   \* bound: losses in a behaviour

ASSUME GateAssumption ==
  /\ Ticker \notin Detectors
  /\ MaxLosses \in Nat

Callers == Detectors \cup {Ticker}

VARIABLES
  resyncing,   \* Server.resyncing
  pending,     \* Server.resyncPending
  recent,      \* lastResync is less than resync_min_interval ago
  clientReady, \* Server.clientReady
  cpc,         \* [Callers -> step]: where each RequestResync call is
  first,       \* the bootstrap started by Run: "pulling" or "done"
  job,         \* the goroutine RequestResync starts
  losses,      \* how many writes have been lost on the way to this node
  noted,       \* a gap waits out its grace period in the gap tracker
  owed,        \* history: a loss was confirmed and no resync has settled it since
  short,       \* history: a write was lost and no resync took a snapshot since
  alone,       \* history: a resync since the last loss found nobody to fetch from
  beside       \* history: the last resync began beside the first bootstrap

gate == <<resyncing, pending, recent>>
calls == <<cpc, noted, owed>>
syncs == <<clientReady, first, job, beside>>
lost == <<losses, short, alone>>
vars == <<gate, calls, syncs, lost>>

\* Run starts a bootstrap, or serves at once when there is nobody to ask.
Init ==
  /\ resyncing = FALSE
  /\ pending = FALSE
  /\ recent = FALSE
  /\ cpc = [c \in Callers |-> "idle"]
  /\ first \in {"pulling", "done"}
  /\ clientReady = (first = "done")
  /\ job = "none"
  /\ losses = 0
  /\ noted = FALSE
  /\ owed = FALSE
  /\ short = FALSE
  /\ alone = FALSE
  /\ beside = FALSE

-----------------------------------------------------------------------------
(* Who asks. *)

goto(c, step) == cpc' = [cpc EXCEPT ![c] = step]

\* A write is lost, and the next arrival from its sender shows the gap.
Lose ==
  /\ losses < MaxLosses
  /\ losses' = losses + 1
  /\ noted' = TRUE
  /\ short' = TRUE
  /\ alone' = FALSE
  /\ UNCHANGED <<gate, cpc, owed, syncs>>

\* watchGaps finds the gap expired, or a reader finds it too large to be
\* reordering (confirmLoss): either calls RequestResync.
Detect(c) ==
  /\ c \in Detectors
  /\ cpc[c] = "idle"
  /\ noted
  /\ noted' = FALSE
  /\ owed' = TRUE
  /\ goto(c, "swap")
  /\ UNCHANGED <<gate, syncs, lost>>

\* A tick of runResyncDeferred that finds a request to repeat.
Tick ==
  /\ cpc[Ticker] = "idle"
  /\ pending
  /\ goto(Ticker, "swap")
  /\ UNCHANGED <<gate, noted, owed, syncs, lost>>

-----------------------------------------------------------------------------
(* RequestResync. *)

\* A mutant of Swap: the flag is set without looking at it.
SwapAlways(c) ==
  /\ cpc[c] = "swap"
  /\ resyncing' = TRUE
  /\ goto(c, "interval")
  /\ UNCHANGED <<pending, recent, noted, owed, syncs, lost>>

\* resyncing.CompareAndSwap(false, true)
Swap(c) ==
  /\ cpc[c] = "swap"
  /\ resyncing' = TRUE
  /\ goto(c, IF resyncing THEN "remember" ELSE "interval")
  /\ UNCHANGED <<pending, recent, noted, owed, syncs, lost>>

\* resyncPending.Store(true), on either refusal.
Remember(c) ==
  /\ cpc[c] = "remember"
  /\ pending' = TRUE
  /\ goto(c, "idle")
  /\ UNCHANGED <<resyncing, recent, noted, owed, syncs, lost>>

\* A resync ran recently: refuse this one.
TooSoon(c) ==
  /\ cpc[c] = "interval"
  /\ recent
  /\ goto(c, "release")
  /\ UNCHANGED <<gate, noted, owed, syncs, lost>>

\* A mutant of Release: a refused request is forgotten.
ReleaseAndForget(c) ==
  /\ cpc[c] = "release"
  /\ resyncing' = FALSE
  /\ goto(c, "idle")
  /\ UNCHANGED <<pending, recent, noted, owed, syncs, lost>>

Release(c) ==
  /\ cpc[c] = "release"
  /\ resyncing' = FALSE
  /\ goto(c, "remember")
  /\ UNCHANGED <<pending, recent, noted, owed, syncs, lost>>

\* lastResync.Store(now)
Accept(c) ==
  /\ cpc[c] = "interval"
  /\ ~recent
  /\ recent' = TRUE
  /\ goto(c, "accepted")
  /\ UNCHANGED <<resyncing, pending, noted, owed, syncs, lost>>

\* resyncPending.Store(false)
ClearPending(c) ==
  /\ cpc[c] = "accepted"
  /\ pending' = FALSE
  /\ goto(c, "cleared")
  /\ UNCHANGED <<resyncing, recent, noted, owed, syncs, lost>>

\* A mutant of StartJob: clients are still served during the resync.
StartJobServing(c) ==
  /\ cpc[c] = "cleared"
  /\ job' = "reset"
  /\ beside' = (first = "pulling")
  /\ goto(c, "idle")
  /\ UNCHANGED <<gate, noted, owed, clientReady, first, lost>>

\* clientReady.Store(false), then the goroutine is started.  Nothing on the way
\* here has asked whether the first bootstrap is done.
StartJob(c) ==
  /\ cpc[c] = "cleared"
  /\ clientReady' = FALSE
  /\ job' = "reset"
  /\ beside' = (first = "pulling")
  /\ goto(c, "idle")
  /\ UNCHANGED <<gate, noted, owed, first, lost>>

RequestResync(c) ==
  \/ Swap(c) \/ Remember(c) \/ TooSoon(c) \/ Release(c) \/ Accept(c)
  \/ ClearPending(c) \/ StartJob(c)

-----------------------------------------------------------------------------
(* The goroutine of a resync, and the first bootstrap. *)

\* ResetReplicationTracking, then bootstrapUntilSynced.
BeginPull ==
  /\ job = "reset"
  /\ job' = "pulling"
  /\ noted' = FALSE
  /\ UNCHANGED <<gate, cpc, owed, clientReady, first, beside, lost>>

\* The attempt that will succeed has a link, and its source starts to send: what
\* it sends repairs every loss before.  Attempts that fail are repeated.
TakeSnapshot ==
  /\ job = "pulling"
  /\ job' = "loading"
  /\ owed' = FALSE
  /\ short' = FALSE
  /\ UNCHANGED <<gate, cpc, noted, clientReady, first, beside, losses, alone>>

\* The snapshot is in and the buffer drained: clients are allowed in.
PullDone ==
  /\ job = "loading"
  /\ job' = "resetAgain"
  /\ clientReady' = TRUE
  /\ UNCHANGED <<gate, calls, first, beside, lost>>

\* The exits without a snapshot: every source has been forgotten and discovery
\* lists none, or no link came up and the node was launched to found a cluster.
\* It serves as a standalone node with the dataset it has.
ServeAlone ==
  /\ job = "pulling"
  /\ job' = "resetAgain"
  /\ clientReady' = TRUE
  /\ owed' = FALSE
  /\ alone' = TRUE
  /\ UNCHANGED <<gate, cpc, noted, first, beside, losses, short>>

\* The second ResetReplicationTracking.
ResetAgain ==
  /\ job = "resetAgain"
  /\ job' = "ending"
  /\ noted' = FALSE
  /\ UNCHANGED <<gate, cpc, owed, clientReady, first, beside, lost>>

\* A mutant of JobDone: the tracker is reset once more on the way out.
JobDoneResets ==
  /\ job = "ending"
  /\ job' = "none"
  /\ resyncing' = FALSE
  /\ noted' = FALSE
  /\ UNCHANGED <<pending, recent, cpc, owed, clientReady, first, beside, lost>>

\* The deferred resyncing.Store(false).
JobDone ==
  /\ job = "ending"
  /\ job' = "none"
  /\ resyncing' = FALSE
  /\ UNCHANGED <<pending, recent, calls, clientReady, first, beside, lost>>

\* The bootstrap of Run ends, by any of its exits.
FirstSyncDone ==
  /\ first = "pulling"
  /\ first' = "done"
  /\ clientReady' = TRUE
  /\ UNCHANGED <<gate, calls, job, beside, lost>>

IntervalEnds ==
  /\ recent
  /\ recent' = FALSE
  /\ UNCHANGED <<resyncing, pending, calls, syncs, lost>>

Job == BeginPull \/ TakeSnapshot \/ PullDone \/ ServeAlone \/ ResetAgain \/ JobDone

Next ==
  \/ Lose \/ Tick \/ Job \/ FirstSyncDone \/ IntervalEnds
  \/ \E c \in Callers : Detect(c) \/ RequestResync(c)

Spec == Init /\ [][Next]_vars

\* The watcher and the ticker fire again and again, a call runs to its end, the
\* interval is finite, and a bootstrap finds a source or finds that the node is
\* alone.  Losses need not happen.
FairSpec ==
  /\ Spec
  /\ WF_vars(Tick)
  /\ WF_vars(Job)
  /\ WF_vars(FirstSyncDone)
  /\ WF_vars(IntervalEnds)
  /\ WF_vars(\E c \in Detectors : Detect(c))
  /\ \A c \in Callers : WF_vars(RequestResync(c))

-----------------------------------------------------------------------------
(* Properties. *)

\* Steps of a call that has won resyncing.
Holding == {"interval", "release", "accepted", "cleared"}

Steps == {"idle", "swap", "remember"} \cup Holding

TypeOK ==
  /\ resyncing \in BOOLEAN /\ pending \in BOOLEAN /\ recent \in BOOLEAN
  /\ clientReady \in BOOLEAN
  /\ cpc \in [Callers -> Steps]
  /\ first \in {"pulling", "done"}
  /\ job \in {"none", "reset", "pulling", "loading", "resetAgain", "ending"}
  /\ losses \in 0..MaxLosses
  /\ noted \in BOOLEAN /\ owed \in BOOLEAN /\ short \in BOOLEAN
  /\ alone \in BOOLEAN /\ beside \in BOOLEAN

\* Two resyncs never overlap: a call about to start the goroutine is alone, and
\* the goroutine of the one before has finished (resyncing, released only at
\* the end of the goroutine or on a refusal).
OneResync ==
  \A c \in Callers : cpc[c] = "cleared" =>
    /\ job = "none"
    /\ \A d \in Callers : cpc[d] = "cleared" => d = c

\* A confirmed loss is never forgotten: until a resync takes a snapshot after it,
\* or finds that there is nobody to take one from, a call is still running, a
\* request is pending, or a resync has yet to fetch, however the two stores to
\* resyncPending interleave.
NeedRemembered ==
  owed =>
    \/ pending
    \/ job \in {"reset", "pulling"}
    \/ \E c \in Callers : cpc[c] # "idle"

\* A confirmed loss is eventually settled by a later resync, though resyncs are
\* rate limited and refused requests return (runResyncDeferred).
NeedServed == owed ~> ~owed

\* A snapshot is on its way into the store, or about to be.
Fetching == first = "pulling" \/ job \in {"reset", "pulling", "loading"}

\* Whatever the callers of RequestResync and the two kinds of bootstrap do, no
\* client is let in while a dataset is being fetched, with one exception, which
\* the comment in RequestResync rules out and its compare-and-swap does not: a
\* resync that begins before the first bootstrap is done runs beside it, and
\* whichever of the two ends first lets clients in on the other.
ReadyMeansSynced == clientReady /\ Fetching => beside

\* A gap in the tracker while no snapshot is being fetched is repaired by a later
\* one, whichever goroutine reports it and however often it is refused, unless
\* the resync finds nobody to fetch from.  (What is noted during the fetch is
\* not: the second reset drops it unreported.)
LossRepaired ==
  noted /\ job \notin {"pulling", "loading", "resetAgain"} ~> ~short \/ alone
=============================================================================
