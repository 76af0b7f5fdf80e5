# Super-Cache in TLA+

Super-Cache is an in-memory key-value store that speaks the Redis protocol and
replicates every write to every peer of a full mesh. There is no leader and no
log: a write is applied locally, given a sequence number and pushed to each peer
without waiting. A node that joins, or that finds it has missed writes, fetches
a snapshot of the whole dataset from one peer.

These modules specify the parts of that design where goroutines, connections and
restarts interleave, and the data operations that replication has to repeat at
another node. `PROJECT.json` maps every definition to the source lines it stands
for, and lists the hazards of the code with the properties that watch them.

## 1. The system

| Part | State | Operations | What makes it hard | Module |
|---|---|---|---|---|
| Replication links (`peer/service.go`, `peer/outbound.go`) | `out`, `replStop`, `replCh`, `targetsGen`, `targetsCache`, `replSeq` | `registerOut`, `unregisterLink`, `stopInboundReplLink`, `Replicate`, `outboundReplWriter` | two links to one peer, a lock-free cache, queues that fill, writers that stop | `ReplLinks` |
| Loss detection (`noteReplArrival`, `peer/resync.go`) | `originSeq`, `gapTracker.missing` | `noteReplArrival`, `note`, `arrived`, `watchGaps`, `ResetReplicationTracking` | several connections per origin, reordering, restarts | `GapTracker` |
| Resync control (`server/discovery.go`) | `resyncing`, `resyncPending`, `lastResync`, `clientReady` | `RequestResync`, `runResyncDeferred` | concurrent requests, rate limit, refusals | `ResyncGate` |
| Bootstrap (`server/server.go`, `peer/bootstrap.go`) | `bootstrapActive`, `bootstrapReplBuf`, the store | `bootstrapOnce`, `pullSnapshotOnce`, the drain, `inboundWorkerLoop` | writes before, during and after the snapshot; failover; overflow | `Bootstrap` |
| Commands (`commands/`, `peer/apply.go`) | none of their own | one per command | each pairs a store call with an event by hand; no lock spans both | `Commands`, `Reads` |
| Store, data (`store/`) | keys, types, values, deadlines | every data operation, SCAN | indexes, empty values, expired entries, cursors | `Keyspace`, `Reads`, `Scan` |
| Store, memory (`store/store.go`, `store/eviction.go`) | shard locks, account, LRU lists, cursor | writes, eviction, expiry, reload | the shard is unlocked during eviction | `StoreMemory` |
| Transactions (`commands/transaction.go`, `store/store_watch.go`) | versions, queued commands | WATCH, MULTI, EXEC, DISCARD, `PruneWatch` | check-then-run, versions that restart | `Transactions` |
| Publish/subscribe (`client/`, `server/conn.go`) | registry, session locks | SUBSCRIBE, UNSUBSCRIBE, PUBLISH, end of a connection | two locks taken in both orders, clients that do not read | `PubSub` |
| Membership (`peer/service.go`, `peer/forget.go`) | peer list, `activeDial`, `peerMeta` | `AddPeerFrom`, `RemovePeer`, `ensureDial`, forgetting, LEAVE, reload | check-then-act on copied lists, a reload that takes no lock | `Membership` |

How they interact: a command changes the store and hands events to the links;
links deliver to the loss detection and the apply path of a peer; a confirmed
loss asks for a resync; a resync is a bootstrap; membership decides which links
there are. Each module takes its neighbours at what the other module shows of
them: `Commands` has a link that delivers in order and loses nothing,
`GapTracker` one that loses and reorders, `Bootstrap` one that delivers in order.

## 2. Modules

`MC*` modules give the constants of a module their values for TLC, `*Proofs`
modules hold theorems. Definitions keep the names of the code.

**ReplLinks.** A member of `Links` is one `outPeer` object; a reconnection is
another member. `phase` says where the goroutine that owns the link is. The
teardown of dialled links (cancel, `replStop`, unregister) and of accepted ones
(`replStop`, unregister, cancel, wait for the writer) are in the order of the
code, a step each. `Replicate` is seven steps per caller: number the event, load
the generation, look in the cache, compute, store, offer to each target, return.
Abstractions: a frame is its sequence number; `replStop` of all links is read at
one instant in `computeReplicationTargets`; the order of targets is arbitrary;
deadlines may pass at any time; links cancelled by the shutdown of the service are
left out. `unregisterOut` is never called by the program.

**GapTracker.** Readers are the goroutines of the connections to one origin. Each
runs `noteReplArrival` as load-or-store, load, compare (four cases), note. Counter
objects are kept in a sequence because a reader may hold one that
`ResetReplicationTracking` has removed. The wire is a set, so it reorders; `Lose`
removes a frame; `Restart` makes the sender number from 1 again.

**ResyncGate.** Callers of `RequestResync` are the goroutines that confirm a loss
and the ticker of `runResyncDeferred`. Every atomic load, store and
compare-and-swap is a step. `job` is the goroutine of a resync, `first` the
bootstrap that `Run` starts. A resync takes a snapshot after any number of failed
attempts (`TakeSnapshot`, then `PullDone` when it is loaded) or ends without one
(`ServeAlone`: discovery lists nobody, or the node was launched to found a cluster and
reaches nobody). `alone` and `beside` are histories: a resync since the last loss
found nobody to fetch from; the last resync began before the first bootstrap was done.
`resync_on_gap` is taken as enabled.

**Bootstrap.** A write is a number; a key's value is the sequence of writes it
shows, so SET replaces it and a push on one of `Lists` extends it. The worker reads
`bootstrapActive` in one step and acts on it in the next. The snapshot reads one
key at a time (a key stands for a shard) while writes go on.
`DrainBootstrapInboundQueue` takes under the lock and applies after it. `lost`
collects the writes that were dropped at a full buffer, wiped with it, left behind
in it, or not sent for want of a link, and that no later snapshot has repaired.

**Keyspace** has the store's data operations as operators from a key space to a
key space and a result; **Reads** the read commands and their replies; both are
pure. A string is a short sequence of tokens, so that lengths, offsets, padding
and the empty string (stored as a nil slice and taken for a missing key by `Get`)
are kept. Of a key's name only this is kept: whether it has a '/' (`Slashed`), which
`path.Match`, and so KEYS, RANDOMKEY and SCAN, do not match with '*'. An entry is still there while the clock equals its deadline, with a
remaining time of 0 ms.

**Commands** puts them to work: clients of one node run any write command. Each store
call of a handler is a step, so those of GETDEL, GETEX, MSET, DEL, INCRBYFLOAT, APPEND,
SETRANGE, RENAMENX and the set commands with a destination, and the shards of FLUSHDB,
interleave with another client's; `todo` holds the calls a handler has left. MSET may run out of memory at any key. Each `Replicate`
call is another step, and a replica applies the events one at a time. `causes` records
which of ten named things has happened that lets the two sides differ. **LaggingCopy**
is the abstract specification of one key: the copy goes through what the primary held
after each announced change, in order, except that it may vanish from both sides by
expiry, until something excuses it. `CopiesInOrder` is the refinement, key by key; the
mapping shows an expired entry as absent.

**Scan** has a client that walks the key space with SCAN while others write. One
call locks a shard after another, then (with TYPE) reads the type of a key after
another. The histories `stayed`, `gone` and `came` say which keys matched all
through the iteration, ceased to, or began to. The pattern is `Match`.

**StoreMemory.** An entry is its type, deadline and length. Calls take the lock of
the shard, ask for memory, release the lock to evict one victim, take it again,
and store; each is a step, as is each attempt of an eviction. The calls that build
a value and then ask for memory (`HSet`, `SAdd`, `LInsert` and others) behave like
`GetSet` or `listPush` and have no action of their own.

**Transactions.** A call of the store is a plan of small steps: the change of
an entry and the bump of its version are two, because WATCH and EXEC read versions
without the lock of the shard. `news` is a history, per
client and watched key, of what happened to it since WATCH, until EXEC begins to run
its queue: the comparison of versions and the first queued command are steps apart. The goroutine of
`expiry.go` samples shards and prunes versions between the steps of the clients.

**PubSub.** A command is a sequence of tasks that need the registry for writing or
for reading; the session's output lock is held from dispatch to reply. A waiting
writer keeps new readers out, as `sync.RWMutex` does. Publish pushes to one
subscriber after another and needs each one's output lock. Members of `Idlers` may
stop reading and read again (`Stall`, `Resume`); a write to one that has stopped, a
push or a reply, blocks with the locks its goroutine holds (`PushBlocks`), until the
client reads or its connection ends. SUBSCRIBE acknowledges each channel before it
goes on to the next; inside EXEC the replies are buffered and written at the end.

**Membership.** Operations (add, learn, gossip, remove, LEAVE, reap, discover,
reload) are sequences of the steps the code takes under its different locks:
list, meta data, dial table; `todo` holds the steps an operation has left. Adding and
removing copy the list under `configMu` (`newCfg`) and store the copy in a step of
its own; a reload stores its list without that lock (`SwapConfig`). The list a
behaviour begins with is that of the configuration file followed by peers of another
source. A file is taken to name no address twice (`StartsKnown`, `OperationsKnown`);
what gossip and discovery bring may. A dial loop links, loses its link, notices that it
was cancelled, and takes itself out of the table in a step of its own. Ages are
0, 1 or 2: fresh, one tick, past `peer_forget_after`. `odd` is a history of named
races.

## 3. Runs

| Run | Instance | Properties | Distinct states |
|---|---|---|---|
| `links` | a dialled and an accepted link to one peer, two callers, two events, queues of one | `TypeOK`, `OneLinkPerNode`, `CacheFresh`, `ReplicateNeverBlocks` | 1,714,381 |
| `gap_noticed` | two readers, a restart, four frames before it and two after, a limit of one | `NoSilentLoss`, `LossSettled` | 195,980 |
| `resync` | two detectors and the ticker, four losses, nodes with and without a first bootstrap | `OneResync`, `NeedRemembered`, `ReadyMeansSynced`, `NeedServed`, `LossRepaired` | 32,018 |
| `bootstrap` | a string key and a list, three writes, three bootstraps, a failure, a buffer of two | `OnlyLossDiverges`, `AppliedInOrder`, `GetsReady` | 413,822 |
| `commands` | two clients, two keys, two commands of any kind on four starting key spaces, two ticks | `TypeOK`, `DrainedAgree`, `CopiesInOrder` | 386,944 |
| `scan` | four keys in two shards, one of them with a '/' in its name, pages of one, two writes, entries of every type | `ScanMissesOnlyShifted`, `ScanRepeatsOnlyShifted`, `ScanEnds`, `RangesAgree`, `RepliesAgree` | 295,493 |
| `memory` | two goroutines, two calls, three keys in two shards, the memory used up, five policies and a reload | `AccountExact`, `ListsTrackKeys`, `GrowthKept`, `StoresWhereAllowed`, `StaysWithinLimit`, `OOMOnlyWhenStuck`, `CallsReturn` | 600,363 |
| `transactions` | a client with up to four commands of a transaction, another with two data commands, two keys in two shards, a pruning | `ExecTrustsWatch`, `AbortsOnlyOnChange`, `ExecEnds` | 1,092,758 |
| `pubsub` | two clients with two commands each that may stop reading, a third that publishes once, two channels, a pattern | `RegistryAgrees`, `PushedToSubscribers`, `ReachesAudience`, `PublishReturns` | 223,816 |
| `membership` | a process with one operation of four kinds, one with two of four others, three addresses, one of which is the node itself | `DialsWhatItKnows`, `DialsOnlyWhatItKnows`, `KeepsOnePeer`, `OperatorPeersStay` | 2,923,433 |
| `pubsub_stuck` | three clients that always read, SUBSCRIBE and PUBLISH only | `PublishAlwaysReturns` (violated) | |
| `membership_reaped` | one learned peer and the reaper | `ForgottenWhenUnreachable` (violated) | |

The bounds are the smallest in which the cases of interest happen. A queue of one
is full after one event. With a gap limit of one and four frames both a held and
a reported jump occur. Three bootstraps let what one leaves behind disturb the
next; a buffer of two holds an order to get wrong and overflows with three writes.
Two commands are enough for every pair of commands of two clients to race or to
follow each other; a page of one makes every position of a key space a boundary.
Two calls at the memory limit are enough for every pair to meet in the window in
which the lock is released; each policy begins with keys it can go wrong on (for the
two that compare or list deadlines, one deadline per shard). Ranges are compared for
all indexes up to one past each end of the value. `commands` follows a behaviour until something excuses
a difference (`CONSTRAINT Promised`): after that `DrainedAgree` and the refinement
promise nothing. `TypeOK` is checked where it says more than the shape of the
variables: the bound of the queues in `ReplLinks`, the absence of empty lists and
hashes in `Commands`. That of `Bootstrap`, `GapTracker` and `ResyncGate` is proved.

Many properties have the form "this holds, except after one of these": the
exceptions are the ones TLC found and each is a behaviour of the code. A run shows that
there is no further one in its instance, and a theorem of section 4, where there is one,
that there is none in any. What may follow an exception is not always covered:
`commands` stops at the first, and an entry of `odd` in `Membership` excuses its address
from then on. They are:

* `DrainedAgree`: INCR, DECR and APPEND keep a TTL that their SET event drops; a
  SET with less than a millisecond left is sent without TTL; an APPEND of nothing
  to a missing key and an SREM on an empty set change the origin and are not
  replicated; an MSET that runs out of memory keeps the keys it has stored and
  replicates none; DEL removes a key that appeared after it looked which keys there
  are, and replicates only those it saw; APPEND replicates what it reads back, which
  may be another client's; a relative TTL counts from its arrival; an entry may expire
  while events are on their way; a Replicate call may overtake that of an earlier change.
* `RangesAgree`: an index before the head counts as the head where a range ends and for
  LINDEX and LSET; a start past the end counts as the end for LTRIM, which keeps an
  element where Redis removes the key, and for GETRANGE.
* `RepliesAgree`: KEYS * and RANDOMKEY do not show keys with a '/' in their names, which
  DBSIZE counts and EXISTS finds.
* `AccountExact`: pops and LREM shorten a list before its size is taken off; INCR
  on an expired key takes it off twice; APPEND overwrites an entry that appeared and
  expired while memory was freed.
* `GrowthKept`: a value computed before the shard was unlocked is stored as it is,
  and INCRBYFLOAT and SETRANGE read and write in two calls.
* `ListsTrackKeys`: the same APPEND, and a reload of the policy, which leaves the
  lists of the old one as they are.
* `OOMOnlyWhenStuck`: evictions share one cursor, so two at a time may both give up;
  a store that changes during the search may offer its victim behind the searcher.
* `ExecTrustsWatch`, `AbortsOnlyOnChange`: versions are forgotten by FLUSHDB and
  pruning and count up again; an entry changes before its version does; RENAME away
  and a passed deadline change no version; and for `ExecTrustsWatch` a key may change
  after EXEC has compared it, since no lock is held until the queue runs.
* `ScanMissesOnlyShifted`, `ScanRepeatsOnlyShifted`: positions shift when a key that
  sorts before vanishes or appears.
* `PublishReturns`: the two locks, see below; a SUBSCRIBE and a PUBLISH in one EXEC, where
  Publish waits for its own session; and a subscriber that never reads again, in whose
  write Publish stays with the registry held.
* Membership: a peer added again while its cancelled loop winds down is not
  dialled; a reload drops learned peers from the list while their loops go on, and
  records nothing of the peers it names, so one that was learned stays forgettable;
  an address that is added and removed at once may be dialled without being listed;
  a reload's list is lost when an operation that copied the list before stores its copy
  after; overlapping passes of forgetting can empty the list; an operator who adds a peer
  that is known already is refused, and nothing is recorded; a pass may judge a peer
  while the operator's claim is being recorded, or before it is made.
* `OnlyLossDiverges`: the losses `lost` names, and a list push that is in the
  snapshot and in the buffer and is applied twice.
* `LossRepaired`: gaps noted during a fetch are dropped by the second reset; a resync that
  finds nobody to fetch from repairs nothing. `NeedServed` counts it as settled then.
* `ReadyMeansSynced`: the first bootstrap does not hold `resyncing` (`server.go:454`),
  though the comment in `RequestResync` says "or still doing its first sync"
  (`discovery.go:162`). A resync may run beside it, and the one that ends first lets
  clients in on the other.

### Where the code does not do what is said of it

Two runs end in a counterexample. `findings` in `PROJECT.json` quotes the sentence
each one contradicts.

* `pubsub_stuck`: Publish holds the registry and waits for the output lock of a
  session whose SUBSCRIBE holds that lock and waits for the registry. Neither ends,
  and every later PUBLISH waits behind the writer.
* `membership_reaped`: a peer's age counts from its last handshake, so a learned
  peer whose link stood longer than `peer_forget_after` is forgotten at the first
  pass after the link drops, and not after that time without a link.

Earlier runs of the first four modules ended in counterexamples too. They are
behaviours of the modules still, but no run singles them out any more, so
what follows is not re-checked: after a failed heartbeat a dialled link stays
selected without a writer though another link works (`outbound.go:106`); the
two-second wait expires and the snapshot is streamed beside a writer still in its
write (`service.go:861`); a late frame of the sender's previous life moves the
counter past what the restarted sender has sent (`service.go:720`). Four
others are now exceptions named by passing properties: a resync beside the first
bootstrap (`ReadyMeansSynced`), a gap noted during a fetch (`LossRepaired`), a write
buffered after the drain's last look and wiped, and a push applied twice
(`OnlyLossDiverges`).

### Fairness

* `ReplLinks`: none. `ReplicateNeverBlocks` says that a caller's next step is
  enabled in every state; nothing is assumed of links, writers or peers.
* `GapTracker`: a call goes on, time passes, the `watchGaps` ticker fires. Nothing
  is assumed of the wire, the sender or the resync.
* `ResyncGate`: the tickers fire, calls go on, the interval ends, a bootstrap finds
  a source, or that there is none, in the end. The last is an assumption about the cluster.
* `Bootstrap`: the joiner's goroutine and the source's snapshot go on and the joiner
  gets a link; attempts fail at most `MaxFails` times. A node none of whose sources
  ever answers never serves, as the comment of `bootstrapUntilSynced` says.
* `Scan`: the scanning client goes on.
* `StoreMemory`, `Transactions`: as long as some call (or EXEC, or pass of the expiry
  goroutine) can take its next step, one of them does. Nothing is assumed about which,
  so the Go scheduler need not be fair between goroutines: the calls of a behaviour are
  finitely many, and what is to be excluded is that all of them wait.
* `PubSub`: strong fairness of each client's steps, because a session lock may be
  free and taken again infinitely often: Go's mutexes hand the lock to a waiter
  that has waited for a millisecond, so a waiter is not passed over for ever. Nothing
  makes a client read: that is the premise of `PublishReturns`.

## 4. Proofs

For all values of the constants, checked by TLAPS.

`ReplLinksProofs`
* `TypeCorrect`: the types and the bound of the queues.
* `CacheIsNeverStale`: `CacheFresh`. By itself it is not inductive: a caller about
  to store a selection must hold a fresh one if its generation is still current.
  `FreshInv` adds that (`SelectionFresh`), that no generation held is ahead of
  the present one (`GenerationsBehind`), and that registered links have distinct
  numbers (`Numbered`), which makes `preferLink` a strict order. Setting `replStop`
  changes the selection without a new generation; `IsCurrent` allows the stopped
  link until it is unregistered.
* `ExactlyOnceOffered`: `OneLinkPerNode`. `OnceInv` says that every selection held
  or cached has one link per key, that an event number belongs to one call, and
  that what a call has offered and what it has left are together such a selection.
  It uses `IdentityAssumption`: a peer always names itself, truthfully, or never
  does and is known under one address.

`GapTrackerProofs`
* `TypeCorrect`, and `LossIsNoticed`: `NoSilentLoss`. `IInv` adds that the counter
  and every value loaded from it are not above `hw`, and that the number a call
  handles has arrived.

`ResyncGateProofs`
* `TypeCorrect`; `ResyncsNeverOverlap`: `OneResync`, from `OneHolder` (`resyncing` is
  held by one call or by the goroutine); `LossIsNeverForgotten`: `NeedRemembered`,
  inductive with the types; `ServesOnlyInSync`: `ReadyMeansSynced`, on every node.
  `ReadyInv` adds `BesideIsKnown`: a resync that has yet to load its dataset while the
  first bootstrap has too is recorded in `beside`.

`BootstrapProofs`
* `TypeCorrect`: the types and the depth of the buffer.
* `WritesInOrder`: `AppliedInOrder`. A write on its way is in one of five places:
  the drain's hand, the buffer, the worker, the wire, the source. `InOrder` says
  that their numbers increase in that order, that what the worker has and what
  follows is above the write applied last, and that nothing is above the last write
  made. A worker that read the flag before it was switched and acts after may apply
  a write ahead of the buffer; `Overtaken` says that what was passed over is then in
  `lost`. `OrderInv` is these two and the types, with a lemma for each action that
  moves a write.
* `LossAloneDiverges`: `OnlyLossDiverges`, the promise of the whole bootstrap. With
  `OrderInv` it takes `CopyOfSource`: where the joiner's goroutine is says whether
  the flag is set and what is in flight (`Phases`); every write after one on its way
  is on its way too, unless one of the two is lost (`FlowInv`); and a value taken
  from the snapshot shows the source's writes of its key in order up to some point,
  perhaps a stretch of them again, while all that are missing are still to come
  (`Copy` in `DataInv`). Each way of applying a write is a lemma about `Copy`.

`MembershipProofs`
* `OneLoopPerPeer`: `TableTracksLoops`, an address has an entry in `activeDial` just
  when a dial loop runs for it. Inductive with the domains of the two functions.
* `MembershipCorrect` proves `MembershipInv`, which says what holds in the middle of
  operations: what the steps left of one may look like (`ListInv`), what a copy of the
  list held under `configMu` may have missed (`CopyInv`), that a listed
  peer has a loop or somebody is about to dial or to delete it (`DialInv`), that a
  loop is for a listed peer nobody is about to take away (`KnownInv`), that a pass of
  forgetting spares a peer as long as the list is as it read it (`OneInv`), and that
  what the operator asked for is recorded or about to be (`ClaimInv`), each up to the
  races in `odd`. From it: `KnownAreDialled` (`DialsWhatItKnows`), `DialledAreKnown`
  (`DialsOnlyWhatItKnows`), `OnePeerIsKept` (`KeepsOnePeer`) and
  `OperatorPeersAreKept` (`OperatorPeersStay`), the last two about steps.

`PubSubProofs`
* `PubSubCorrect` proves `PubSubInv`: who holds or awaits the registry is at a task
  that needs it (`LockInv`); session and registry agree on every name but the one a
  session is joining or parting (`AgreeInv`); those a PUBLISH has yet to write to are
  still subscribers and the others have the message once (`PushInv`); a message
  already written is not one that a later PUBLISH sends (`FreshInv`). From it
  `Registry` (`RegistryAgrees`), `OnlySubscribers` (`PushedToSubscribers`) and
  `Audience` (`ReachesAudience`). What the loops of `subscription.go` compute
  (removing a session from a list, leaving out subscribers seen before) is shown by
  induction on their turns.

`TransactionsProofs`
* `TypeAndWatch` proves `WatchInv`: for a watched key that EXEC has not compared yet,
  the version is the recorded one or higher unless it was forgotten; a change is
  followed by a bump or some call is between the two; and a version that moved has
  its reason in `news`. From it `ExecTrust` (`ExecTrustsWatch`: what EXEC found
  unchanged is so when the queue begins to run, up to the windows named) and `Aborts`
  (`AbortsOnlyOnChange`: it gives up only for a reason).

The assumptions are those named in the modules: bounds are natural numbers, keys and
names are finite sets, the commands and operations of a `Repertoire` are ones the
code has, every key has a shard, and the two of `ReplLinks` and `Membership` stated
above. TLC evaluates them in the runs.

Only model-checked: the liveness properties and `ReplicateNeverBlocks`, since fairness
and ENABLED are out of the prover's reach; `Scan`, `Reads` and `StoreMemory`, where
the properties compare results of data operations or count entries; and `Commands`
with its refinement of `LaggingCopy`.

## 5. Not modelled, and why

* Several nodes that bootstrap from each other (`refuseBootstrapWhileSyncing`): two
  joiners have the state of `Bootstrap` squared. With one write and one attempt each
  nothing of interest is left. The exits of `bootstrapUntilSynced` without a snapshot
  are in `ResyncGate`, not in `Bootstrap`.
* Graceful shutdown and the spill file: nothing in the program reads the file back.
  What a shutdown loses is, to a receiver, a loss followed by a restart, which
  `GapTracker` has.
* The peer handshake (HELLO, AUTH, capabilities): request and answer on one
  connection, over cryptographic values. The modules start from authenticated links.
* The RESP parser and the peer wire format: byte grammars without shared state.
  Frames, names and payloads are model values.
* A command let in just before `clientReady` was cleared: it would take the client,
  the resync and the bootstrap in one module.
* Time in the snapshot: `Bootstrap` has no deadlines, so the rounding of a remaining
  time in `Store.Snapshot` is not there; `Commands` has the same computation.
* Configuration checks, INFO and statistics, metrics, logging, TLS set-up, the cloud
  discovery client, the command-line tool, node identity: no protocol state.
