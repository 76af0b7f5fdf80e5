-------------------------- MODULE GapTrackerProofs --------------------------
(***************************************************************************)
(* NoSilentLoss of GapTracker, for any number of readers, any bounds and   *)
(* any number of restarts of the sender.                                   *)
(***************************************************************************)
EXTENDS GapTracker, SequenceTheorems, TLAPS

\* The counter originSeq holds never passes the highest number it has held.
CounterBelowHigh == cur # 0 => counters[cur] <= hw

\* A call in progress holds a counter that exists and a number that was received.
CallsHoldArrived ==
  \A r \in Readers : rpc[r] # "idle" => robj[r] \in 1 .. Len(counters) /\ rseq[r] \in arrived

\* A call that read the counter still in place read no more than its highest
\* value: so what it finds skipped begins no higher than what is already covered.
PrevBelowHigh ==
  \A r \in Readers :
    rpc[r] \in {"compare", "note"} /\ robj[r] = cur => rprev[r] <= hw

IInv ==
  /\ TypeOK
  /\ CounterBelowHigh
  /\ CallsHoldArrived
  /\ PrevBelowHigh
  /\ NoSilentLoss

\* Every step keeps the types of the state of noteReplArrival and the tracker.
LEMMA TypeStep ==
  ASSUME TypeOK, CallsHoldArrived, [Next]_vars
  PROVE  TypeOK'
<1>0. MaxSeq \in Nat /\ MaxInc \in Nat \ {0} /\ gapTrackLimit \in Nat
  BY BoundsAssumption, Zenon
<1> USE <1>0 DEF Seqs
<1> USE DEF TypeOK, senderVars, trackerVars, readerVars, historyVars
<1>1. CASE Send
  <2>1. MaxSent[inc] \in 0 .. MaxSeq
    BY BoundsAssumption, Zenon
  <2>2. sent + 1 \in Seqs
    BY <1>1, <2>1 DEF Send
  <2> QED
    BY <1>1, <2>2 DEF Send
<1>2. CASE Restart
  BY <1>2 DEF Restart
<1>3. CASE Lose
  BY <1>3, Zenon DEF Lose
<1>4. ASSUME NEW r \in Readers, LoadOrStore(r) PROVE TypeOK'
  <2>1. PICK f \in wire :
          /\ wire' = wire \ {f}
          /\ arrived' = arrived \cup {f[2]}
          /\ IF cur = 0
               THEN /\ counters' = Append(counters, f[2])
                    /\ cur' = Len(counters) + 1
                    /\ base' = f[2]
                    /\ hw' = f[2]
                    /\ UNCHANGED readerVars
               ELSE /\ rseq' = [rseq EXCEPT ![r] = f[2]]
                    /\ robj' = [robj EXCEPT ![r] = cur]
                    /\ rpc' = [rpc EXCEPT ![r] = "load"]
                    /\ UNCHANGED <<rprev, trackerVars>>
    BY <1>4, Zenon DEF LoadOrStore
  <2>2. f[1] \in 1 .. MaxInc /\ f[2] \in 1 .. MaxSeq
    BY Zenon
  <2>4. counters \in Seq(Seqs) /\ f[2] \in Seqs /\ cur \in 0 .. Len(counters)
    BY <2>2, Zenon
  <2>7. wire' \subseteq (1 .. MaxInc) \X Seqs /\ arrived' \subseteq Seqs
    BY <2>1, <2>2, Zenon
  <2>5. CASE cur = 0
    <3>1. counters' \in Seq(Seqs) /\ Len(counters') = Len(counters) + 1
      <4> HIDE DEF TypeOK, Seqs
      <4> QED
        BY <2>1, <2>4, <2>5, AppendProperties
    <3>2. cur' \in 0 .. Len(counters')
      <4> HIDE DEF TypeOK, Seqs
      <4>1. cur' = Len(counters) + 1 /\ Len(counters) \in Nat
        BY <2>1, <2>4, <2>5, LenProperties, Zenon
      <4> QED
        BY <4>1, <3>1
    <3>3. UNCHANGED <<inc, sent, rpc, rseq, robj, rprev, missing, resync, reported, wiped>>
      BY <1>4, <2>1, <2>5, Zenon DEF LoadOrStore
    <3>4. base' \in 0 .. MaxSeq /\ hw' \in 0 .. MaxSeq
      BY <2>1, <2>2, <2>5
    <3> QED
      BY <2>7, <3>1, <3>2, <3>3, <3>4, Zenon
  <2>6. CASE cur # 0
    <3>1. UNCHANGED <<inc, sent, counters, cur, base, hw, rprev, missing, resync,
                      reported, wiped>>
      BY <1>4, <2>1, <2>6, Zenon DEF LoadOrStore
    <3>2. robj' \in [Readers -> Nat]
      <4>1. Len(counters) \in Nat
        BY LenProperties, Zenon
      <4>2. cur \in Nat /\ robj \in [Readers -> Nat] /\ robj' = [robj EXCEPT ![r] = cur]
        BY <2>1, <2>6, <4>1
      <4> HIDE DEF TypeOK
      <4> QED
        BY <4>2, Zenon
    <3>3. /\ rpc' \in [Readers -> {"idle", "load", "compare", "note"}]
          /\ rseq' \in [Readers -> 0 .. MaxSeq]
      <4>1. rpc' = [rpc EXCEPT ![r] = "load"] /\ rseq' = [rseq EXCEPT ![r] = f[2]]
        <5> HIDE DEF TypeOK
        <5> QED
          BY <2>1, <2>6, Zenon DEF LoadOrStore
      <4>2. /\ rpc \in [Readers -> {"idle", "load", "compare", "note"}]
            /\ rseq \in [Readers -> 0 .. MaxSeq]
            /\ f[2] \in 0 .. MaxSeq
        BY <2>2
      <4> HIDE DEF TypeOK
      <4> QED
        BY <4>1, <4>2, Zenon
    <3> QED
      BY <2>7, <3>1, <3>2, <3>3, Zenon
  <2> QED
    BY <2>5, <2>6, Zenon
<1>5. ASSUME NEW r \in Readers, LoadPrev(r) PROVE TypeOK'
  <2>1. counters \in Seq(Seqs) /\ robj[r] \in 1 .. Len(counters)
    BY <1>5, Zenon DEF LoadPrev, CallsHoldArrived
  <2>2. counters[robj[r]] \in Seqs
    <3> HIDE DEF TypeOK, Seqs
    <3> QED
      BY <2>1, ElementOfSeq, Zenon
  <2>3. counters[robj[r]] \in 0 .. MaxSeq
    BY <2>2
  <2> QED
    BY <1>5, <2>3, Zenon DEF LoadPrev
<1>6. ASSUME NEW r \in Readers, rpc[r] = "compare", StoreSeq(r)
      PROVE  /\ counters' \in Seq(Seqs)
             /\ cur' \in 0 .. Len(counters')
             /\ hw' \in 0 .. MaxSeq
             /\ base' \in 0 .. MaxSeq
  <2>1. rseq[r] \in 1 .. MaxSeq /\ robj[r] \in 1 .. Len(counters)
    BY <1>6, Zenon DEF CallsHoldArrived
  <2> QED
    BY <1>6, <2>1 DEF StoreSeq, Higher
<1>18. ASSUME NEW r \in Readers, Done(r)
       PROVE  /\ rpc' \in [Readers -> {"idle", "load", "compare", "note"}]
              /\ rseq' \in [Readers -> 0 .. MaxSeq]
              /\ robj' \in [Readers -> Nat]
              /\ rprev' \in [Readers -> 0 .. MaxSeq]
  BY <1>18 DEF Done
<1>7. ASSUME NEW r \in Readers, NextInLine(r) PROVE TypeOK'
  <2>1. /\ rpc[r] = "compare" /\ StoreSeq(r) /\ Done(r)
        /\ UNCHANGED <<senderVars, wire, missing, resync, reported, wiped, historyVars>>
    BY <1>7, Zenon DEF NextInLine
  <2> QED
    BY <1>6, <1>18, <2>1, Zenon
<1>8. ASSUME NEW r \in Readers, Jump(r) PROVE TypeOK'
  <2>1. /\ rpc[r] = "compare" /\ StoreSeq(r)
        /\ UNCHANGED <<senderVars, wire, rseq, robj, rprev, missing, resync, reported,
                       wiped, historyVars>>
    BY <1>8, Zenon DEF Jump
  <2>2. rpc' \in [Readers -> {"idle", "load", "compare", "note"}]
    BY <1>8, Zenon DEF Jump
  <2> QED
    BY <1>6, <2>1, <2>2, Zenon
<1>9. ASSUME NEW r \in Readers, Restarted(r) PROVE TypeOK'
  <2>1. /\ rpc[r] = "compare" /\ StoreSeq(r) /\ Done(r)
        /\ UNCHANGED <<senderVars, wire, missing, resync, reported, wiped, historyVars>>
    BY <1>9, Zenon DEF Restarted
  <2> QED
    BY <1>6, <1>18, <2>1, Zenon
<1>10. ASSUME NEW r \in Readers, Straggler(r) PROVE TypeOK'
  <2>1. missing' = [missing EXCEPT ![rseq[r]] = "no"]
    BY <1>10, Zenon DEF Straggler
  <2>2. missing' \in [Seqs -> {"no", "waiting", "due"}]
    <3>1. missing \in [Seqs -> {"no", "waiting", "due"}]
      BY Zenon
    <3> HIDE DEF TypeOK, Seqs
    <3> QED
      BY <2>1, <3>1, Zenon
  <2>3. /\ rpc' \in [Readers -> {"idle", "load", "compare", "note"}]
        /\ rseq' \in [Readers -> 0 .. MaxSeq]
        /\ robj' \in [Readers -> Nat]
        /\ rprev' \in [Readers -> 0 .. MaxSeq]
    BY <1>10, <1>18, Zenon DEF Straggler
  <2> QED
    BY <1>10, <2>2, <2>3, Zenon DEF Straggler
<1>11. ASSUME NEW r \in Readers, Note(r) PROVE TypeOK'
  <2>1. missing' \in [Seqs -> {"no", "waiting", "due"}]
    BY <1>11, Zenon DEF Note
  <2> QED
    BY <1>11, <1>18, <2>1, Zenon DEF Note
<1>12. ASSUME NEW r \in Readers, ConfirmLoss(r) PROVE TypeOK'
  <2>1. Skipped(r) \subseteq 1 .. MaxSeq
    BY DEF Skipped
  <2> QED
    <3>1. /\ rpc' \in [Readers -> {"idle", "load", "compare", "note"}]
          /\ rseq' \in [Readers -> 0 .. MaxSeq]
          /\ robj' \in [Readers -> Nat]
          /\ rprev' \in [Readers -> 0 .. MaxSeq]
      BY <1>12, <1>18, Zenon DEF ConfirmLoss
    <3>2. resync' \in {"none", "asked", "deleted", "pulling", "deletedAgain"}
      BY <1>12, Zenon DEF ConfirmLoss, RequestResync
    <3>3. reported' \subseteq Seqs
      BY <1>12, <2>1, Zenon DEF ConfirmLoss
    <3> QED
      BY <1>12, <3>1, <3>2, <3>3, Zenon DEF ConfirmLoss
<1>13. ASSUME NEW x \in Seqs, GracePasses(x) PROVE TypeOK'
  BY <1>13, Zenon DEF GracePasses
<1>14. CASE Sweep
  BY <1>14, Zenon DEF Sweep, Due, RequestResync
<1>15. CASE DeleteCounter
  BY <1>15 DEF DeleteCounter
<1>16. CASE ResetGaps
  BY <1>16, Zenon DEF ResetGaps
<1>17. CASE UNCHANGED vars
  BY <1>17, Zenon DEF vars
<1> QED
  BY <1>1, <1>2, <1>3, <1>4, <1>5, <1>7, <1>8, <1>9, <1>10, <1>11, <1>12, <1>13,
     <1>14, <1>15, <1>16, <1>17, Zenon DEF Next, noteReplArrival, Compare

\* Every step keeps what calls in progress know about the counter they hold.
LEMMA CallStep ==
  ASSUME IInv, [Next]_vars
  PROVE  CounterBelowHigh' /\ CallsHoldArrived' /\ PrevBelowHigh'
<1> DEFINE CallInv == CounterBelowHigh /\ CallsHoldArrived /\ PrevBelowHigh
<1> SUFFICES CallInv'
  BY Zenon
<1> USE DEF IInv, CounterBelowHigh, CallsHoldArrived, PrevBelowHigh
<1>0. /\ counters \in Seq(Seqs)
      /\ Len(counters) \in Nat
      /\ cur \in 0 .. Len(counters)
      /\ rpc \in [Readers -> {"idle", "load", "compare", "note"}]
      /\ rseq \in [Readers -> 0 .. MaxSeq]
      /\ robj \in [Readers -> Nat]
      /\ rprev \in [Readers -> 0 .. MaxSeq]
      /\ hw \in 0 .. MaxSeq
      /\ MaxSeq \in Nat
      /\ Seqs = 1 .. MaxSeq
      /\ wire \subseteq (1 .. MaxInc) \X Seqs
  BY BoundsAssumption, LenProperties, Zenon DEF TypeOK, Seqs
<1>1. CASE UNCHANGED <<trackerVars, readerVars, arrived>>
  BY <1>1, Zenon DEF trackerVars, readerVars
<1>2. ASSUME NEW r \in Readers, LoadOrStore(r) PROVE CallInv'
  <2>1. PICK f \in wire :
          /\ arrived' = arrived \cup {f[2]}
          /\ IF cur = 0
               THEN /\ counters' = Append(counters, f[2])
                    /\ cur' = Len(counters) + 1
                    /\ hw' = f[2]
                    /\ UNCHANGED readerVars
               ELSE /\ rseq' = [rseq EXCEPT ![r] = f[2]]
                    /\ robj' = [robj EXCEPT ![r] = cur]
                    /\ rpc' = [rpc EXCEPT ![r] = "load"]
                    /\ UNCHANGED <<rprev, trackerVars>>
    BY <1>2, Zenon DEF LoadOrStore
  <2>2. f[2] \in Seqs
    BY <1>0, Zenon
  <2>3. CASE cur = 0
    <3>1. /\ Len(counters') = Len(counters) + 1
          /\ counters'[cur'] = f[2]
      BY <1>0, <2>1, <2>2, <2>3, AppendProperties
    <3>2. CounterBelowHigh'
      BY <1>0, <2>1, <2>2, <2>3, <3>1
    <3>3. CallsHoldArrived'
      BY <1>0, <2>1, <2>3, <3>1 DEF readerVars
    <3>4. PrevBelowHigh'
      <4>1. \A q \in Readers : rpc[q] # "idle" => robj[q] # cur'
        BY <1>0, <2>1, <2>3
      <4> QED
        BY <2>1, <2>3, <4>1, Zenon DEF readerVars
    <3> QED
      BY <3>2, <3>3, <3>4, Zenon
  <2>4. CASE cur # 0
    <3>1. UNCHANGED <<counters, cur, hw, rprev>>
      BY <2>1, <2>4, Zenon DEF trackerVars
    <3>2. CounterBelowHigh'
      BY <3>1, Zenon
    <3>3. CallsHoldArrived'
      <4>1. ASSUME NEW q \in Readers, rpc'[q] # "idle", q # r
            PROVE  robj'[q] \in 1 .. Len(counters') /\ rseq'[q] \in arrived'
        <5>1. rpc'[q] = rpc[q] /\ robj'[q] = robj[q] /\ rseq'[q] = rseq[q]
          BY <1>0, <2>1, <2>4, <4>1
        <5> QED
          BY <2>1, <3>1, <4>1, <5>1, Zenon
      <4>2. robj'[r] \in 1 .. Len(counters') /\ rseq'[r] \in arrived'
        <5>1. robj'[r] = cur /\ rseq'[r] = f[2]
          BY <1>0, <2>1, <2>4
        <5> QED
          BY <1>0, <2>1, <2>4, <3>1, <5>1
      <4> QED
        BY <4>1, <4>2, Zenon
    <3>4. ASSUME NEW q \in Readers, rpc'[q] \in {"compare", "note"}
          PROVE  rpc'[q] = rpc[q] /\ robj'[q] = robj[q]
      BY <1>0, <2>1, <2>4, <3>4, Zenon
    <3>5. PrevBelowHigh'
      BY <3>1, <3>4, Zenon
    <3> QED
      BY <3>2, <3>3, <3>5, Zenon
  <2> QED
    BY <2>3, <2>4, Zenon
<1>3. ASSUME NEW r \in Readers, LoadPrev(r) PROVE CallInv'
  BY <1>0, <1>3 DEF LoadPrev, trackerVars, historyVars
<1>4. ASSUME NEW r \in Readers, StoreSeq(r), rpc[r] = "compare", UNCHANGED arrived,
             \/ Done(r)
             \/ rpc' = [rpc EXCEPT ![r] = "note"] /\ UNCHANGED <<rseq, robj, rprev>>
      PROVE  CallInv'
  <2>1. robj[r] \in 1 .. Len(counters) /\ rseq[r] \in Seqs
    BY <1>0, <1>4, Zenon DEF TypeOK
  <2>2. /\ Len(counters') = Len(counters)
        /\ cur' = cur
        /\ \A j \in 1 .. Len(counters) :
             counters'[j] = IF j = robj[r] THEN rseq[r] ELSE counters[j]
    BY <1>0, <1>4, <2>1, ExceptSeq DEF StoreSeq
  <2>3. /\ hw' \in Nat
        /\ hw <= hw'
        /\ robj[r] = cur => rseq[r] <= hw'
    BY <1>0, <1>4, <2>1 DEF StoreSeq, Higher
  <2>4. CounterBelowHigh'
    <3>1. CASE cur = 0
      BY <2>2, <3>1, Zenon
    <3>2. CASE cur # 0
      <4>1. counters[cur] \in Seqs
        BY <1>0, <3>2, ElementOfSeq
      <4> QED
        BY <1>0, <2>1, <2>2, <2>3, <3>2, <4>1
    <3> QED
      BY <3>1, <3>2, Zenon
  <2>5. CallsHoldArrived'
    BY <1>0, <1>4, <2>2 DEF Done
  <2>6. PrevBelowHigh'
    <3>1. ASSUME NEW q \in Readers, rpc'[q] \in {"compare", "note"}, robj'[q] = cur'
          PROVE  rprev'[q] <= hw'
      <4>1. /\ rpc[q] \in {"compare", "note"}
            /\ robj'[q] = robj[q]
            /\ rprev'[q] = rprev[q]
        BY <1>0, <1>4, <3>1, Zenon DEF Done
      <4>2. rprev[q] <= hw /\ rprev[q] \in Nat
        BY <1>0, <2>2, <3>1, <4>1
      <4> QED
        BY <1>0, <2>3, <4>1, <4>2
    <3> QED
      BY <3>1, Zenon
  <2> QED
    BY <2>4, <2>5, <2>6, Zenon
<1>5. ASSUME NEW r \in Readers, Compare(r) \/ Note(r) \/ ConfirmLoss(r) PROVE CallInv'
  <2>1. CASE NextInLine(r)
    BY <1>4, <2>1, Zenon DEF NextInLine, historyVars
  <2>2. CASE Jump(r)
    BY <1>4, <2>2, Zenon DEF Jump, historyVars
  <2>3. CASE Restarted(r)
    BY <1>4, <2>3, Zenon DEF Restarted, historyVars
  <2>4. CASE Straggler(r) \/ Note(r) \/ ConfirmLoss(r)
    <3>1. Done(r) /\ UNCHANGED <<counters, cur, hw, arrived>>
      BY <2>4, Zenon DEF Straggler, Note, ConfirmLoss, trackerVars, historyVars
    <3> QED
      BY <1>0, <3>1, Zenon DEF Done
  <2> QED
    BY <1>5, <2>1, <2>2, <2>3, <2>4, Zenon DEF Compare
<1>6. CASE DeleteCounter
  BY <1>0, <1>6 DEF DeleteCounter, readerVars, historyVars
<1>7. ASSUME \/ Send \/ Restart \/ Lose \/ Sweep \/ ResetGaps \/ UNCHANGED vars
             \/ \E x \in Seqs : GracePasses(x)
      PROVE  CallInv'
  BY <1>1, <1>7, Zenon DEF Send, Restart, Lose, Sweep, ResetGaps, GracePasses, vars,
                    trackerVars, readerVars, historyVars
<1> QED
  BY <1>2, <1>3, <1>5, <1>6, <1>7, Zenon DEF Next, noteReplArrival

\* Every step keeps NoSilentLoss: the counter's highest value only rises past
\* numbers that the same call is about to note.
LEMMA LossStep ==
  ASSUME IInv, [Next]_vars
  PROVE  NoSilentLoss'
<1> DEFINE Settled(x) == x \in arrived \cup reported \cup wiped \/ missing[x] # "no"
<1>0. /\ rpc \in [Readers -> {"idle", "load", "compare", "note"}]
      /\ rseq \in [Readers -> 0 .. MaxSeq]
      /\ robj \in [Readers -> Nat]
      /\ rprev \in [Readers -> 0 .. MaxSeq]
      /\ missing \in [Seqs -> {"no", "waiting", "due"}]
      /\ base \in 0 .. MaxSeq
      /\ hw \in 0 .. MaxSeq
      /\ MaxSeq \in Nat
      /\ Seqs = 1 .. MaxSeq
  BY BoundsAssumption, Zenon DEF IInv, TypeOK, Seqs
<1>1. \A x \in base + 1 .. hw : Settled(x) \/ AboutToNote(x)
  BY Zenon DEF IInv, NoSilentLoss
\* A call that ends from a step other than "note" noted nothing.
<1>2. ASSUME NEW r \in Readers, rpc[r] # "note", Done(r), NEW x, AboutToNote(x)
      PROVE  AboutToNote(x)'
  <2>1. PICK q \in Readers : rpc[q] = "note" /\ x \in Skipped(q)
    BY <1>2, Zenon DEF AboutToNote
  <2>2. rpc'[q] = "note" /\ rseq'[q] = rseq[q] /\ rprev'[q] = rprev[q]
    BY <1>0, <1>2, <2>1, Zenon DEF Done
  <2> QED
    BY <2>1, <2>2, Zenon DEF AboutToNote, Skipped
<1>3. CASE UNCHANGED <<trackerVars, readerVars, missing, arrived, reported, wiped>>
  BY <1>3, Zenon DEF IInv, NoSilentLoss, AboutToNote, Skipped, trackerVars, readerVars
<1>4. ASSUME NEW r \in Readers, LoadOrStore(r) PROVE NoSilentLoss'
  <2>1. PICK f \in wire :
          /\ arrived' = arrived \cup {f[2]}
          /\ IF cur = 0
               THEN base' = f[2] /\ hw' = f[2]
               ELSE /\ rseq' = [rseq EXCEPT ![r] = f[2]]
                    /\ rpc' = [rpc EXCEPT ![r] = "load"]
                    /\ UNCHANGED <<rprev, trackerVars>>
    BY <1>4, Zenon DEF LoadOrStore
  <2>2. f[2] \in Nat
    BY <1>0 DEF IInv, TypeOK
  <2>3. CASE cur = 0
    BY <2>1, <2>2, <2>3 DEF NoSilentLoss
  <2>4. CASE cur # 0
    <3>1. UNCHANGED <<base, hw, missing, reported, wiped>>
      BY <1>4, <2>1, <2>4, Zenon DEF LoadOrStore, trackerVars
    <3>2. ASSUME NEW x, AboutToNote(x) PROVE AboutToNote(x)'
      <4>1. PICK q \in Readers : rpc[q] = "note" /\ x \in Skipped(q)
        BY <3>2, Zenon DEF AboutToNote
      <4>2. rpc'[q] = "note" /\ rseq'[q] = rseq[q] /\ rprev'[q] = rprev[q]
        BY <1>0, <1>4, <2>1, <2>4, <4>1 DEF LoadOrStore
      <4> QED
        BY <4>1, <4>2, Zenon DEF AboutToNote, Skipped
    <3> QED
      BY <1>1, <2>1, <3>1, <3>2, Zenon DEF NoSilentLoss
  <2> QED
    BY <2>3, <2>4, Zenon
<1>5. ASSUME NEW r \in Readers, LoadPrev(r) PROVE NoSilentLoss'
  <2>1. ASSUME NEW x, AboutToNote(x) PROVE AboutToNote(x)'
    <3>1. PICK q \in Readers : rpc[q] = "note" /\ x \in Skipped(q)
      BY <2>1, Zenon DEF AboutToNote
    <3>2. rpc'[q] = "note" /\ rseq'[q] = rseq[q] /\ rprev'[q] = rprev[q]
      BY <1>0, <1>5, <3>1, Zenon DEF LoadPrev
    <3> QED
      BY <3>1, <3>2, Zenon DEF AboutToNote, Skipped
  <2> QED
    BY <1>1, <1>5, <2>1, Zenon DEF LoadPrev, NoSilentLoss, trackerVars, historyVars
\* A store moves the highest value only as far as the number that was received.
<1>6. ASSUME NEW r \in Readers, rpc[r] = "compare", StoreSeq(r)
      PROVE  /\ base' = base
             /\ rseq[r] \in arrived /\ rseq[r] \in Nat /\ rprev[r] \in Nat
             /\ hw' # hw => rprev[r] <= hw /\ hw < rseq[r] /\ hw' = rseq[r]
  BY <1>0, <1>6 DEF StoreSeq, Higher, IInv, CallsHoldArrived, PrevBelowHigh
<1>7. ASSUME NEW r \in Readers, NextInLine(r) \/ Restarted(r) PROVE NoSilentLoss'
  <2>1. /\ rpc[r] = "compare" /\ StoreSeq(r) /\ Done(r)
        /\ UNCHANGED <<missing, arrived, reported, wiped>>
        /\ rseq[r] <= rprev[r] + 1
    BY <1>0, <1>7 DEF NextInLine, Restarted, historyVars
  <2>2. ASSUME NEW x \in base' + 1 .. hw' PROVE Settled(x)' \/ AboutToNote(x)'
    <3>1. CASE x <= hw
      <4>1. x \in base + 1 .. hw
        BY <1>0, <1>6, <2>1, <3>1
      <4> QED
        BY <1>1, <1>2, <2>1, <4>1, Zenon
    <3>2. CASE ~(x <= hw)
      <4>5. /\ base' = base
            /\ rseq[r] \in Nat /\ rprev[r] \in Nat
            /\ hw' # hw => rprev[r] <= hw /\ hw < rseq[r] /\ hw' = rseq[r]
        BY <1>6, <2>1, Zenon
      <4>6. x \in Int /\ x <= hw' /\ hw' # hw
        BY <1>0, <3>2, <4>5
      <4>1. x = rseq[r]
        BY <1>0, <2>1, <3>2, <4>5, <4>6
      <4>2. x \in arrived'
        BY <1>6, <2>1, <4>1, Zenon
      <4> QED
        BY <4>2, Zenon
    <3> QED
      BY <3>1, <3>2, Zenon
  <2> QED
    BY <2>2, Zenon DEF NoSilentLoss
<1>8. ASSUME NEW r \in Readers, Jump(r) PROVE NoSilentLoss'
  <2>1. /\ rpc[r] = "compare" /\ StoreSeq(r)
        /\ rpc' = [rpc EXCEPT ![r] = "note"]
        /\ UNCHANGED <<rseq, rprev, missing, arrived, reported, wiped>>
    BY <1>8, Zenon DEF Jump, historyVars
  <2>2. ASSUME NEW x, AboutToNote(x) PROVE AboutToNote(x)'
    BY <1>0, <2>1, <2>2, Zenon DEF AboutToNote, Skipped
  <2>3. ASSUME NEW x \in base' + 1 .. hw' PROVE Settled(x)' \/ AboutToNote(x)'
    <3>1. CASE x <= hw
      <4>1. x \in base + 1 .. hw
        BY <1>0, <1>6, <2>1, <3>1
      <4> QED
        BY <1>1, <2>1, <2>2, <4>1, Zenon
    <3>2. CASE ~(x <= hw)
      <4>5. /\ base' = base
            /\ rseq[r] \in Nat /\ rprev[r] \in Nat
            /\ hw' # hw => rprev[r] <= hw /\ hw < rseq[r] /\ hw' = rseq[r]
        BY <1>6, <2>1, Zenon
      <4>6. x \in Int /\ x <= hw' /\ hw' # hw
        BY <1>0, <3>2, <4>5
      <4>1. x = rseq[r] \/ x \in rprev[r] + 1 .. rseq[r] - 1
        BY <1>0, <3>2, <4>5, <4>6
      <4>2. CASE x = rseq[r]
        <5>1. x \in arrived'
          BY <1>6, <2>1, <4>2, Zenon
        <5> QED
          BY <5>1, Zenon
      <4>3. CASE x \in rprev[r] + 1 .. rseq[r] - 1
        BY <1>0, <2>1, <4>3, Zenon DEF AboutToNote, Skipped
      <4> QED
        BY <4>1, <4>2, <4>3, Zenon
    <3> QED
      BY <3>1, <3>2, Zenon
  <2> QED
    BY <2>3, Zenon DEF NoSilentLoss
<1>9. ASSUME NEW r \in Readers, Straggler(r) PROVE NoSilentLoss'
  <2>1. /\ rpc[r] = "compare" /\ Done(r)
        /\ missing' = [missing EXCEPT ![rseq[r]] = "no"]
        /\ UNCHANGED <<base, hw, arrived, reported, wiped>>
    BY <1>9, Zenon DEF Straggler, trackerVars, historyVars
  <2>2. rseq[r] \in arrived
    BY <2>1, Zenon DEF IInv, CallsHoldArrived
  <2>3. ASSUME NEW x \in base + 1 .. hw PROVE Settled(x)' \/ AboutToNote(x)'
    <3>1. x \in Seqs
      BY <1>0
    <3>2. CASE x = rseq[r]
      BY <2>1, <2>2, <3>2, Zenon
    <3>3. CASE x # rseq[r]
      <4>1. missing'[x] = missing[x]
        BY <1>0, <2>1, <3>1, <3>3, Zenon
      <4> QED
        BY <1>1, <1>2, <2>1, <4>1, Zenon
    <3> QED
      BY <3>2, <3>3, Zenon
  <2> QED
    BY <2>1, <2>3, Zenon DEF NoSilentLoss
\* What a call was about to note is noted or reported when it ends.
<1>10. ASSUME NEW r \in Readers, Note(r) \/ ConfirmLoss(r) PROVE NoSilentLoss'
  <2>1. Done(r) /\ UNCHANGED <<base, hw, arrived, wiped>>
    BY <1>10, Zenon DEF Note, ConfirmLoss, trackerVars, historyVars
  <2>2. ASSUME NEW x \in Seqs, Settled(x) \/ x \in Skipped(r) PROVE Settled(x)'
    <3>1. CASE Note(r)
      BY <1>0, <2>1, <2>2, <3>1, Zenon DEF Note
    <3>2. CASE ConfirmLoss(r)
      BY <2>1, <2>2, <3>2, Zenon DEF ConfirmLoss
    <3> QED
      BY <1>10, <3>1, <3>2, Zenon
  <2>3. ASSUME NEW x, AboutToNote(x) PROVE x \in Skipped(r) \/ AboutToNote(x)'
    <3>1. PICK q \in Readers : rpc[q] = "note" /\ x \in Skipped(q)
      BY <2>3, Zenon DEF AboutToNote
    <3>2. CASE q = r
      BY <3>1, <3>2, Zenon
    <3>3. CASE q # r
      <4>1. rpc'[q] = "note" /\ rseq'[q] = rseq[q] /\ rprev'[q] = rprev[q]
        BY <1>0, <2>1, <3>1, <3>3, Zenon DEF Done
      <4> QED
        BY <3>1, <4>1, Zenon DEF AboutToNote, Skipped
    <3> QED
      BY <3>2, <3>3, Zenon
  <2>4. \A x \in base + 1 .. hw : x \in Seqs
    BY <1>0
  <2> QED
    BY <1>1, <2>1, <2>2, <2>3, <2>4, Zenon DEF NoSilentLoss
<1>11. ASSUME NEW y \in Seqs, GracePasses(y) PROVE NoSilentLoss'
  <2>1. /\ missing' = [missing EXCEPT ![y] = "due"]
        /\ UNCHANGED <<base, hw, arrived, reported, wiped, rpc, rseq, rprev>>
    BY <1>11, Zenon DEF GracePasses, trackerVars, readerVars, historyVars
  <2>2. \A x \in base + 1 .. hw : x \in Seqs
    BY <1>0
  <2>3. ASSUME NEW x \in Seqs, missing[x] # "no" PROVE missing'[x] # "no"
    BY <1>0, <2>1, <2>3, Zenon
  <2> QED
    BY <1>1, <2>1, <2>2, <2>3, Zenon DEF NoSilentLoss, AboutToNote, Skipped
<1>12. CASE Sweep \/ ResetGaps
  <2>1. UNCHANGED <<base, hw, arrived, rpc, rseq, rprev>>
    BY <1>12, Zenon DEF Sweep, ResetGaps, trackerVars, readerVars, historyVars
  <2>2. ASSUME NEW x \in Seqs, Settled(x) PROVE Settled(x)'
    BY <1>12, <2>1, <2>2, Zenon DEF Sweep, ResetGaps, Due
  <2>3. \A x \in base + 1 .. hw : x \in Seqs
    BY <1>0
  <2> QED
    BY <1>1, <2>1, <2>2, <2>3, Zenon DEF NoSilentLoss, AboutToNote, Skipped
<1>13. CASE DeleteCounter
  BY <1>13 DEF DeleteCounter, NoSilentLoss
<1>14. CASE Send \/ Restart \/ Lose \/ UNCHANGED vars
  BY <1>3, <1>14, Zenon DEF Send, Restart, Lose, vars, trackerVars, readerVars, historyVars
<1> QED
  BY <1>4, <1>5, <1>7, <1>8, <1>9, <1>10, <1>11, <1>12, <1>13, <1>14, Zenon
     DEF Next, noteReplArrival, Compare

\* The invariant holds initially and is kept by every step.
LEMMA Inductive == Spec => []IInv
<1>1. Init => IInv
  BY BoundsAssumption, EmptySeq
     DEF Init, IInv, TypeOK, CounterBelowHigh, CallsHoldArrived, PrevBelowHigh,
         NoSilentLoss, Seqs
<1>2. IInv /\ [Next]_vars => IInv'
  <2> SUFFICES ASSUME IInv, [Next]_vars PROVE IInv'
    BY Zenon
  <2>1. TypeOK'
    BY TypeStep, Zenon DEF IInv
  <2> QED
    BY <2>1, CallStep, LossStep, Zenon DEF IInv
<1> QED
  BY <1>1, <1>2, PTL DEF Spec

\* The state of the tracker, the counters and the readers keeps its types.
THEOREM TypeCorrect == Spec => []TypeOK
<1>1. IInv => TypeOK
  BY Zenon DEF IInv
<1> QED
  BY <1>1, Inductive, PTL

\* However many connections race on the counter of an origin, whatever the wire
\* loses or reorders and however often the sender restarts, no skipped sequence
\* number goes unnoticed by noteReplArrival and the gap tracker.
THEOREM LossIsNoticed == Spec => []NoSilentLoss
<1>1. IInv => NoSilentLoss
  BY Zenon DEF IInv
<1> QED
  BY <1>1, Inductive, PTL
====
