----------------------------- MODULE GapTracker -----------------------------
(***************************************************************************)
(* The receiving half of loss detection on one node, for one origin        *)
(* (noteReplArrival in internal/peer/service.go, internal/peer/resync.go). *)
(* Every connection to the origin has a goroutine that reads frames and    *)
(* compares their sequence numbers with a shared counter; skipped numbers  *)
(* are held for a grace period and reported as lost when it ends.          *)
(*                                                                         *)
(* The sender numbers its frames from 1 and again from 1 after a restart.  *)
(* The wire may lose a frame or overtake one with another: frames of       *)
(* concurrent writers are queued out of order, and a replaced link         *)
(* delivers stragglers.  The clock is a choice: a deadline may pass at any *)
(* time after it is set.                                                   *)
(***************************************************************************)
EXTENDS Integers, Sequences, FiniteSets

CONSTANTS
  Readers,        \* goroutines reading connections to the origin
  gapTrackLimit,  \* the largest jump that is held rather than reported
  MaxSeq,         \* bound: sequence numbers
  MaxInc,         \* bound: incarnations of the sender
  MaxSent         \* [1 .. MaxInc -> 0 .. MaxSeq], bound: frames of each incarnation

ASSUME BoundsAssumption ==
  /\ gapTrackLimit \in Nat
  /\ MaxSeq \in Nat
  /\ MaxInc \in Nat \ {0}
  /\ MaxSent \in [1 .. MaxInc -> 0 .. MaxSeq]

Seqs == 1 .. MaxSeq

VARIABLES
  inc, sent,   \* the sender: its incarnation and replSeq
  wire,        \* frames <<incarnation, sequence>> on their way
  counters,    \* Seq(Nat): every counter object ever stored in originSeq
  cur,         \* which of them originSeq holds, 0 for none
  rpc,         \* [Readers -> step]: where each noteReplArrival call is
  rseq,        \* [Readers -> Nat]: the sequence number it handles
  robj,        \* [Readers -> Nat]: the counter LoadOrStore gave it
  rprev,       \* [Readers -> Nat]: the value it loaded from that counter
  missing,     \* [Seqs -> {"no", "waiting", "due"}]: gapTracker.missing
  resync,      \* where the resync that a report asks for is
  base, hw,    \* history: first and highest number stored in the counter
  arrived,     \* history: numbers some frame of which was received
  reported,    \* history: numbers reported as lost
  wiped        \* history: numbers gapTracker.reset forgot

senderVars  == <<inc, sent>>
trackerVars == <<counters, cur, base, hw>>
readerVars  == <<rpc, rseq, robj, rprev>>
historyVars == <<arrived>>
vars == <<inc, sent, wire, counters, cur, rpc, rseq, robj, rprev, missing, resync,
          base, hw, arrived, reported, wiped>>

Init ==
  /\ inc = 1
  /\ sent = 0
  /\ wire = {}
  /\ counters = <<>>
  /\ cur = 0
  /\ rpc = [r \in Readers |-> "idle"]
  /\ rseq = [r \in Readers |-> 0]
  /\ robj = [r \in Readers |-> 0]
  /\ rprev = [r \in Readers |-> 0]
  /\ missing = [x \in Seqs |-> "no"]
  /\ resync = "none"
  /\ base = 0
  /\ hw = 0
  /\ arrived = {}
  /\ reported = {}
  /\ wiped = {}

-----------------------------------------------------------------------------
(* The origin and the network. *)

Send ==
  /\ sent < MaxSent[inc]
  /\ sent' = sent + 1
  /\ wire' = wire \cup {<<inc, sent + 1>>}
  /\ UNCHANGED <<inc, trackerVars, readerVars, missing, resync, reported, wiped, historyVars>>

\* The sender's replSeq is not kept across a restart.
Restart ==
  /\ inc < MaxInc
  /\ inc' = inc + 1
  /\ sent' = 0
  /\ UNCHANGED <<wire, trackerVars, readerVars, missing, resync, reported, wiped, historyVars>>

Lose ==
  /\ \E f \in wire : wire' = wire \ {f}
  /\ UNCHANGED <<senderVars, trackerVars, readerVars, missing, resync, reported, wiped, historyVars>>

-----------------------------------------------------------------------------
(* noteReplArrival, one call per frame, concurrent across connections. *)

Higher(a, b) == IF a > b THEN a ELSE b

\* LoadOrStore: the first frame stores a new counter and is not compared with
\* anything; a later one gets the counter that is there.
LoadOrStore(r) ==
  /\ rpc[r] = "idle"
  /\ \E f \in wire :
       /\ wire' = wire \ {f}
       /\ arrived' = arrived \cup {f[2]}
       /\ IF cur = 0
            THEN /\ counters' = Append(counters, f[2])
                 /\ cur' = Len(counters) + 1
                 /\ base' = f[2]
                 /\ hw' = f[2]
                 /\ UNCHANGED readerVars
            ELSE /\ rseq' = [rseq EXCEPT ![r] = f[2]]
                 /\ robj' = [robj EXCEPT ![r] = cur]
                 /\ rpc' = [rpc EXCEPT ![r] = "load"]
                 /\ UNCHANGED <<rprev, trackerVars>>
  /\ UNCHANGED <<senderVars, missing, resync, reported, wiped>>

\* prev := last.Load()
LoadPrev(r) ==
  /\ rpc[r] = "load"
  /\ rprev' = [rprev EXCEPT ![r] = counters[robj[r]]]
  /\ rpc' = [rpc EXCEPT ![r] = "compare"]
  /\ UNCHANGED <<senderVars, wire, trackerVars, rseq, robj, missing, resync,
                 reported, wiped, historyVars>>

\* last.Store(wr.Seq).  The counter may have been replaced in originSeq since.
StoreSeq(r) ==
  /\ counters' = [counters EXCEPT ![robj[r]] = rseq[r]]
  /\ hw' = IF robj[r] = cur THEN Higher(hw, rseq[r]) ELSE hw
  /\ UNCHANGED <<cur, base>>

\* The call ends and its locals with it.
Done(r) ==
  /\ rpc' = [rpc EXCEPT ![r] = "idle"]
  /\ rseq' = [rseq EXCEPT ![r] = 0]
  /\ robj' = [robj EXCEPT ![r] = 0]
  /\ rprev' = [rprev EXCEPT ![r] = 0]

\* The four cases of the switch: the next number, a jump, a restart, a straggler.
NextInLine(r) ==
  /\ rpc[r] = "compare"
  /\ rseq[r] = rprev[r] + 1
  /\ StoreSeq(r)
  /\ Done(r)
  /\ UNCHANGED <<senderVars, wire, missing, resync, reported, wiped, historyVars>>

Jump(r) ==
  /\ rpc[r] = "compare"
  /\ rseq[r] > rprev[r] + 1
  /\ StoreSeq(r)
  /\ rpc' = [rpc EXCEPT ![r] = "note"]
  /\ UNCHANGED <<senderVars, wire, rseq, robj, rprev, missing, resync, reported,
                 wiped, historyVars>>

Restarted(r) ==
  /\ rpc[r] = "compare"
  /\ rseq[r] <= rprev[r]
  /\ rseq[r] = 1
  /\ StoreSeq(r)
  /\ Done(r)
  /\ UNCHANGED <<senderVars, wire, missing, resync, reported, wiped, historyVars>>

Straggler(r) ==
  /\ rpc[r] = "compare"
  /\ rseq[r] <= rprev[r]
  /\ rseq[r] # 1
  /\ missing' = [missing EXCEPT ![rseq[r]] = "no"]
  /\ Done(r)
  /\ UNCHANGED <<senderVars, wire, trackerVars, resync, reported, wiped, historyVars>>

-----------------------------------------------------------------------------
(* gapTracker and watchGaps. *)

\* A mutant of Skipped: the last skipped number is left out.
SkippedShort(r) == rprev[r] + 1 .. rseq[r] - 2

\* The numbers a jump skipped.
Skipped(r) == rprev[r] + 1 .. rseq[r] - 1

\* RequestResync, as far as this node's tracking is concerned (ResyncGate has
\* its conditions): a resync starts unless one is already on its way.
RequestResync == resync' = IF resync = "none" THEN "asked" ELSE resync

\* gapTracker.note holds what was skipped, with a deadline.
Note(r) ==
  /\ rpc[r] = "note"
  /\ rseq[r] - rprev[r] - 1 <= gapTrackLimit
  /\ missing' = [x \in Seqs |-> IF x \in Skipped(r) THEN "waiting" ELSE missing[x]]
  /\ Done(r)
  /\ UNCHANGED <<senderVars, wire, trackerVars, resync, reported, wiped, historyVars>>

\* Too large a jump is reported at once (confirmLoss).
ConfirmLoss(r) ==
  /\ rpc[r] = "note"
  /\ rseq[r] - rprev[r] - 1 > gapTrackLimit
  /\ reported' = reported \cup Skipped(r)
  /\ RequestResync
  /\ Done(r)
  /\ UNCHANGED <<senderVars, wire, trackerVars, missing, wiped, historyVars>>

GracePasses(x) ==
  /\ missing[x] = "waiting"
  /\ missing' = [missing EXCEPT ![x] = "due"]
  /\ UNCHANGED <<senderVars, wire, trackerVars, readerVars, resync, reported, wiped, historyVars>>

Due == {x \in Seqs : missing[x] = "due"}

\* A mutant of Sweep: what has expired is forgotten but not reported.
SweepSilently ==
  /\ Due # {}
  /\ missing' = [x \in Seqs |-> IF x \in Due THEN "no" ELSE missing[x]]
  /\ UNCHANGED <<senderVars, wire, trackerVars, readerVars, resync, reported, wiped, historyVars>>

\* A tick of watchGaps that finds something: expired, then RequestResync.
Sweep ==
  /\ Due # {}
  /\ reported' = reported \cup Due
  /\ missing' = [x \in Seqs |-> IF x \in Due THEN "no" ELSE missing[x]]
  /\ RequestResync
  /\ UNCHANGED <<senderVars, wire, trackerVars, readerVars, wiped, historyVars>>

-----------------------------------------------------------------------------
(* ResetReplicationTracking, called before and after a resync: the counter is *)
(* deleted, then the tracker is emptied.                                      *)

DeleteCounter ==
  /\ \/ resync = "asked" /\ resync' = "deleted"
     \/ resync = "pulling" /\ resync' = "deletedAgain"
  /\ cur' = 0
  /\ base' = 0
  /\ hw' = 0
  /\ UNCHANGED <<senderVars, wire, counters, readerVars, missing, reported, wiped, historyVars>>

ResetGaps ==
  /\ \/ resync = "deleted" /\ resync' = "pulling"
     \/ resync = "deletedAgain" /\ resync' = "none"
  /\ wiped' = wiped \cup {x \in Seqs : missing[x] # "no"}
  /\ missing' = [x \in Seqs |-> "no"]
  /\ UNCHANGED <<senderVars, wire, trackerVars, readerVars, reported, historyVars>>

-----------------------------------------------------------------------------
Compare(r) == NextInLine(r) \/ Jump(r) \/ Restarted(r) \/ Straggler(r)

noteReplArrival(r) ==
  LoadOrStore(r) \/ LoadPrev(r) \/ Compare(r) \/ Note(r) \/ ConfirmLoss(r)

Next ==
  \/ Send \/ Restart \/ Lose
  \/ \E r \in Readers : noteReplArrival(r)
  \/ \E x \in Seqs : GracePasses(x)
  \/ Sweep \/ DeleteCounter \/ ResetGaps

Spec == Init /\ [][Next]_vars

\* A call of noteReplArrival that began runs to its end, time passes and the
\* watchGaps ticker fires.  Nothing is assumed of the wire, the sender or the
\* resync.
Fairness ==
  /\ \A r \in Readers : WF_vars(LoadPrev(r) \/ Compare(r) \/ Note(r) \/ ConfirmLoss(r))
  /\ \A x \in Seqs : WF_vars(GracePasses(x))
  /\ WF_vars(Sweep)

FairSpec == Spec /\ Fairness

-----------------------------------------------------------------------------
(* Properties. *)

TypeOK ==
  /\ inc \in 1 .. MaxInc
  /\ sent \in 0 .. MaxSeq
  /\ wire \subseteq (1 .. MaxInc) \X Seqs
  /\ counters \in Seq(Seqs)
  /\ cur \in 0 .. Len(counters)
  /\ rpc \in [Readers -> {"idle", "load", "compare", "note"}]
  /\ rseq \in [Readers -> 0 .. MaxSeq]
  /\ robj \in [Readers -> Nat]
  /\ rprev \in [Readers -> 0 .. MaxSeq]
  /\ missing \in [Seqs -> {"no", "waiting", "due"}]
  /\ resync \in {"none", "asked", "deleted", "pulling", "deletedAgain"}
  /\ base \in 0 .. MaxSeq
  /\ hw \in 0 .. MaxSeq
  /\ arrived \subseteq Seqs
  /\ reported \subseteq Seqs
  /\ wiped \subseteq Seqs

\* A reader is about to record that x was skipped.
AboutToNote(x) == \E r \in Readers : rpc[r] = "note" /\ x \in Skipped(r)

\* No loss goes unnoticed: every number between the first and the highest one the
\* counter has held was received, is being waited for, has been reported, was
\* forgotten by a resync, or is about to be noted.  Connections update the counter
\* with separate loads and stores, so two readers can act on the same stale value
\* and move the counter backwards; none of that may hide a skipped number.
NoSilentLoss ==
  \A x \in base + 1 .. hw :
    x \in arrived \cup reported \cup wiped \/ missing[x] # "no" \/ AboutToNote(x)

\* A skipped number is settled in the end: it arrives, is reported as lost (which
\* asks for a resync) or is forgotten by one.
LossSettled ==
  \A x \in Seqs :
    (base < x /\ x <= hw /\ x \notin arrived) ~> (x \in arrived \cup reported \cup wiped)
====
