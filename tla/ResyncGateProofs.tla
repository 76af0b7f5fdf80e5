-------------------------- MODULE ResyncGateProofs --------------------------
(***************************************************************************)
(* Proofs about ResyncGate for any number of detectors and losses.         *)
(***************************************************************************)
EXTENDS ResyncGate, TLAPS

-----------------------------------------------------------------------------
(* Types. *)

\* The gate starts with values of its types.
LEMMA TypesStart == Init => TypeOK
<1> SUFFICES ASSUME Init PROVE TypeOK
  BY Zenon
<1>1. clientReady \in BOOLEAN
  BY Zenon DEF Init
<1>2. losses \in 0..MaxLosses
  BY SMT, GateAssumption DEF Init
<1>3. cpc \in [Callers -> Steps] /\ first \in {"pulling", "done"}
  BY Zenon DEF Init, Steps
<1>4. QED
  BY <1>1, <1>2, <1>3, Zenon DEF Init, TypeOK

\* Every step keeps the types.
LEMMA TypesKept == TypeOK /\ [Next]_vars => TypeOK'
<1> SUFFICES ASSUME TypeOK, [Next]_vars PROVE TypeOK'
  BY Zenon
<1> USE GateAssumption DEF TypeOK, Steps, Holding, gate, calls, syncs, lost, goto
<1>1. CASE Lose
  <2>1. losses' \in 0..MaxLosses
    BY <1>1, SMT DEF Lose
  <2>2. QED
    BY <1>1, <2>1, Zenon DEF Lose
<1>2. CASE Tick
  BY <1>2, Zenon DEF Tick
<1>3. CASE Job
  <2>1. CASE BeginPull \/ TakeSnapshot
    BY <2>1, Zenon DEF BeginPull, TakeSnapshot
  <2>2. CASE PullDone \/ ServeAlone
    BY <2>2, Zenon DEF PullDone, ServeAlone
  <2>3. CASE ResetAgain \/ JobDone
    BY <2>3, Zenon DEF ResetAgain, JobDone
  <2>4. QED
    BY <1>3, <2>1, <2>2, <2>3, Zenon DEF Job
<1>4. CASE FirstSyncDone
  BY <1>4, Zenon DEF FirstSyncDone
<1>5. CASE IntervalEnds
  BY <1>5, Zenon DEF IntervalEnds
<1>6. CASE \E c \in Callers : Detect(c)
  BY <1>6, Zenon DEF Detect
<1>7. ASSUME NEW c \in Callers, RequestResync(c) PROVE TypeOK'
  <2>1. CASE Swap(c)
    BY <2>1 DEF Swap
  <2>2. CASE Remember(c)
    BY <2>2, Zenon DEF Remember
  <2>3. CASE TooSoon(c)
    BY <2>3, Zenon DEF TooSoon
  <2>4. CASE Release(c)
    BY <2>4, Zenon DEF Release
  <2>5. CASE Accept(c)
    BY <2>5, Zenon DEF Accept
  <2>6. CASE ClearPending(c)
    BY <2>6, Zenon DEF ClearPending
  <2>7. CASE StartJob(c)
    BY <2>7, Zenon DEF StartJob
  <2>8. QED
    BY <1>7, <2>1, <2>2, <2>3, <2>4, <2>5, <2>6, <2>7, Zenon DEF RequestResync
<1>8. CASE UNCHANGED vars
  BY <1>8 DEF vars
<1>9. QED
  BY <1>1, <1>2, <1>3, <1>4, <1>5, <1>6, <1>7, <1>8, Zenon DEF Next

\* Every variable of the gate keeps its type.
THEOREM TypeCorrect == Spec => []TypeOK
  BY TypesStart, TypesKept, PTL DEF Spec

-----------------------------------------------------------------------------
(* Mutual exclusion.  OneResync is not inductive: a second call must be kept   *)
(* out from the moment the first wins the flag, and as long as the goroutine   *)
(* it starts has not released it.                                              *)

\* resyncing is held by at most one call, or else by the goroutine, and is
\* never released under its holder.
OneHolder ==
  /\ \A c \in Callers : cpc[c] \in Holding =>
       /\ resyncing
       /\ job = "none"
       /\ \A d \in Callers : cpc[d] \in Holding => d = c
  /\ job # "none" => resyncing

\* Nobody holds resyncing in the beginning.
LEMMA HolderStart == Init => OneHolder
  BY Zenon DEF Init, OneHolder, Holding

\* A compare-and-swap takes resyncing, and only its holder or the goroutine it starts lets go of it.
LEMMA HolderKept == TypeOK /\ OneHolder /\ [Next]_vars => OneHolder'
<1> SUFFICES ASSUME TypeOK, OneHolder, [Next]_vars PROVE OneHolder'
  BY Zenon
<1> USE DEF OneHolder, Holding, TypeOK, gate, calls, syncs, lost, goto
<1>1. CASE Lose
  BY <1>1, Zenon DEF Lose
<1>2. CASE Tick
  BY <1>2, Zenon DEF Tick
<1>3. CASE Job
  BY <1>3, Zenon DEF Job, BeginPull, TakeSnapshot, PullDone, ServeAlone,
                   ResetAgain, JobDone
<1>4. CASE FirstSyncDone
  BY <1>4, Zenon DEF FirstSyncDone
<1>5. CASE IntervalEnds
  BY <1>5, Zenon DEF IntervalEnds
<1>6. CASE \E c \in Callers : Detect(c)
  BY <1>6 DEF Detect
<1>7. ASSUME NEW c \in Callers, RequestResync(c) PROVE OneHolder'
  <2>1. CASE Swap(c)
    BY <2>1, Zenon DEF Swap
  <2>2. CASE Remember(c)
    BY <2>2, Zenon DEF Remember
  <2>3. CASE TooSoon(c)
    BY <2>3, Zenon DEF TooSoon
  <2>4. CASE Release(c)
    BY <2>4, Zenon DEF Release
  <2>5. CASE Accept(c)
    BY <2>5, Zenon DEF Accept
  <2>6. CASE ClearPending(c)
    BY <2>6, Zenon DEF ClearPending
  <2>7. CASE StartJob(c)
    BY <2>7, Zenon DEF StartJob
  <2>8. QED
    BY <1>7, <2>1, <2>2, <2>3, <2>4, <2>5, <2>6, <2>7, Zenon DEF RequestResync
<1>8. CASE UNCHANGED vars
  BY <1>8, Zenon DEF vars
<1>9. QED
  BY <1>1, <1>2, <1>3, <1>4, <1>5, <1>6, <1>7, <1>8, Zenon DEF Next

\* One holder, one resync.
LEMMA HolderGivesOne == OneHolder => OneResync
  BY Zenon DEF OneHolder, OneResync, Holding

\* Resyncs never overlap, however many goroutines ask for one at once.
THEOREM ResyncsNeverOverlap == Spec => []OneResync
<1>1. Spec => []OneHolder
  BY TypeCorrect, HolderStart, HolderKept, PTL DEF Spec
<1>2. QED
  BY <1>1, HolderGivesOne, PTL

-----------------------------------------------------------------------------
(* Confirmed losses.  A call ends only by leaving a request behind or by       *)
(* starting the goroutine; a request is cleared only by a call that has yet to *)
(* start it; so NeedRemembered carries itself over every step.                 *)

\* Every step keeps a confirmed loss in somebody's hands.
LEMMA NeedKept == TypeOK /\ NeedRemembered /\ [Next]_vars => NeedRemembered'
<1> SUFFICES ASSUME TypeOK, NeedRemembered, [Next]_vars PROVE NeedRemembered'
  BY Zenon
<1> USE DEF NeedRemembered, TypeOK, gate, calls, syncs, lost, goto
<1>1. CASE Lose \/ FirstSyncDone \/ IntervalEnds
  BY <1>1, Zenon DEF Lose, FirstSyncDone, IntervalEnds
<1>2. CASE Tick
  BY <1>2, Zenon DEF Tick, Callers
<1>3. CASE Job
  BY <1>3, Zenon DEF Job, BeginPull, TakeSnapshot, PullDone, ServeAlone,
                   ResetAgain, JobDone
<1>4. CASE \E c \in Callers : Detect(c)
  BY <1>4, Zenon DEF Detect
<1>5. ASSUME NEW c \in Callers, RequestResync(c) PROVE NeedRemembered'
  <2>1. CASE Remember(c) \/ StartJob(c)
    BY <2>1, Zenon DEF Remember, StartJob
  <2>2. CASE Swap(c) \/ TooSoon(c) \/ Release(c) \/ Accept(c) \/ ClearPending(c)
    <3>1. cpc'[c] # "idle"
      BY <2>2, Zenon DEF Swap, TooSoon, Release, Accept, ClearPending
    <3>2. QED
      BY <3>1, Zenon
  <2>3. QED
    BY <1>5, <2>1, <2>2, Zenon DEF RequestResync
<1>6. CASE UNCHANGED vars
  BY <1>6, Zenon DEF vars
<1>7. QED
  BY <1>1, <1>2, <1>3, <1>4, <1>5, <1>6, Zenon DEF Next

\* No interleaving of requests, refusals and ticks forgets a confirmed loss.
THEOREM LossIsNeverForgotten == Spec => []NeedRemembered
<1>1. Init => NeedRemembered
  BY Zenon DEF Init, NeedRemembered
<1>2. QED
  BY <1>1, TypeCorrect, NeedKept, PTL DEF Spec

-----------------------------------------------------------------------------
(* Readiness.  ReadyMeansSynced is not inductive: whichever of two bootstraps  *)
(* ends first opens the gate on the other, so it must be known before that     *)
(* they run beside each other.                                                 *)

\* A resync that has not fetched its dataset while the first bootstrap has not
\* either began beside it.
BesideIsKnown ==
  job \in {"reset", "pulling", "loading"} /\ first = "pulling" => beside

ReadyInv == BesideIsKnown /\ ReadyMeansSynced

\* clientReady is cleared before a resync fetches and set only by a bootstrap
\* that ends, so nobody but a bootstrap running beside it lets clients in early.
LEMMA ReadyKept == TypeOK /\ ReadyInv /\ [Next]_vars => ReadyInv'
<1> SUFFICES ASSUME TypeOK, ReadyInv, [Next]_vars PROVE ReadyInv'
  BY Zenon
<1> USE DEF ReadyInv, BesideIsKnown, ReadyMeansSynced, Fetching, TypeOK,
            gate, calls, syncs, lost
<1>1. CASE Lose \/ Tick \/ IntervalEnds
  BY <1>1 DEF Lose, Tick, IntervalEnds
<1>2. CASE Job
  BY <1>2 DEF Job, BeginPull, TakeSnapshot, PullDone, ServeAlone,
                     ResetAgain, JobDone
<1>3. CASE FirstSyncDone
  BY <1>3, Zenon DEF FirstSyncDone
<1>4. CASE \E c \in Callers : Detect(c)
  BY <1>4 DEF Detect
<1>5. ASSUME NEW c \in Callers, RequestResync(c) PROVE ReadyInv'
  <2>1. CASE StartJob(c)
    BY <2>1, Zenon DEF StartJob
  <2>2. CASE Swap(c) \/ Remember(c) \/ TooSoon(c) \/ Release(c) \/ Accept(c) \/ ClearPending(c)
    BY <2>2 DEF Swap, Remember, TooSoon, Release, Accept, ClearPending
  <2>3. QED
    BY <1>5, <2>1, <2>2, Zenon DEF RequestResync
<1>6. CASE UNCHANGED vars
  BY <1>6, Zenon DEF vars
<1>7. QED
  BY <1>1, <1>2, <1>3, <1>4, <1>5, <1>6, Zenon DEF Next

\* On every node, clients are let in on a dataset that is being fetched only when
\* a resync began before the first bootstrap was done.
THEOREM ServesOnlyInSync == Spec => []ReadyMeansSynced
<1>1. Init => ReadyInv
  BY Zenon DEF Init, ReadyInv, BesideIsKnown, ReadyMeansSynced, Fetching
<1>2. ReadyInv => ReadyMeansSynced
  BY Zenon DEF ReadyInv
<1>3. QED
  BY <1>1, <1>2, TypeCorrect, ReadyKept, PTL DEF Spec
=============================================================================
