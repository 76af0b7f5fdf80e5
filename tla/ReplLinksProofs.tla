--------------------------- MODULE ReplLinksProofs ---------------------------
(***************************************************************************)
(* OneLinkPerNode and CacheFresh of ReplLinks, for any links, peers,       *)
(* callers of Replicate, queue depth and number of events.                 *)
(***************************************************************************)
EXTENDS ReplLinks, TLAPS

-----------------------------------------------------------------------------
(* Sequences. *)

\* An element of a sequence.
LEMMA ElementOfSeq == ASSUME NEW S, NEW s \in Seq(S), NEW n \in 1 .. Len(s) PROVE s[n] \in S
OBVIOUS

\* A sequence is empty or has a length.
LEMMA EmptySeq ==
  ASSUME NEW S
  PROVE  <<>> \in Seq(S) /\ Len(<<>>) = 0 /\ \A s \in Seq(S) : s # <<>> => Len(s) \in Nat \ {0}
OBVIOUS

\* A sequence is a function on 1 .. Len.
LEMMA LenProperties ==
  ASSUME NEW S, NEW s \in Seq(S)
  PROVE  Len(s) \in Nat /\ s \in [1 .. Len(s) -> S] /\ DOMAIN s = 1 .. Len(s)
OBVIOUS

\* The first element, and the others.
LEMMA HeadTailProperties ==
  ASSUME NEW S, NEW s \in Seq(S), s # <<>>
  PROVE  /\ Head(s) \in S /\ Tail(s) \in Seq(S) /\ Len(Tail(s)) = Len(s) - 1
         /\ \A i \in 1 .. Len(Tail(s)) : Tail(s)[i] = s[i + 1]
OBVIOUS

\* A sequence with one element more.
LEMMA AppendProperties ==
  ASSUME NEW S, NEW s \in Seq(S), NEW e \in S
  PROVE  /\ Append(s, e) \in Seq(S) /\ Append(s, e) # <<>> /\ Len(Append(s, e)) = Len(s) + 1
         /\ \A i \in 1 .. Len(s) : Append(s, e)[i] = s[i]
         /\ Append(s, e)[Len(s) + 1] = e
OBVIOUS

-----------------------------------------------------------------------------
-----------------------------------------------------------------------------
(* Types. *)

\* The goroutine that owns a link changes only the state of links.
LEMMA LinkTypeStep ==
  ASSUME LinkTypes, NEW l \in Links, Link(l)
  PROVE  LinkTypes' /\ UNCHANGED <<queueVars, callVars>>
<1> USE DEF LinkTypes, Phases
<1>1. CASE StartLink(l)
  BY <1>1 DEF StartLink
<1>2. CASE registerOut(l)
  BY <1>2 DEF registerOut
<1>3. CASE HeartbeatFails(l)
  BY <1>3, Zenon DEF HeartbeatFails
<1>4. CASE EndSession(l)
  BY <1>4, Zenon DEF EndSession
<1>5. CASE StopDialled(l)
  BY <1>5, Zenon DEF StopDialled
<1>6. CASE StopAccepted(l)
  BY <1>6, Zenon DEF StopAccepted
<1>7. CASE unregisterLink(l)
  BY <1>7 DEF unregisterLink
<1>8. CASE CancelAccepted(l)
  BY <1>8, Zenon DEF CancelAccepted
<1>9. CASE WriterStopped(l)
  BY <1>9, Zenon DEF WriterStopped, AfterStop
<1>10. CASE WaitTimesOut(l)
  BY <1>10, Zenon DEF WaitTimesOut, AfterStop
<1>11. CASE FinishSnapshot(l)
  BY <1>11 DEF FinishSnapshot
<1> QED
  BY <1>1, <1>2, <1>3, <1>4, <1>5, <1>6, <1>7, <1>8, <1>9, <1>10, <1>11, Zenon DEF Link

\* A link's writer changes only its queue.
LEMMA WriterTypeStep ==
  ASSUME QueueTypes, NEW l \in Links, Writer(l)
  PROVE  QueueTypes' /\ UNCHANGED <<linkVars, callVars>>
<1> USE LinksAssumption
<1>1. CASE WriterTakes(l)
  <2>1. queue[l] \in Seq(Events) /\ queue[l] # <<>> /\ Len(queue[l]) <= QueueDepth
    BY <1>1, Zenon DEF WriterTakes, QueueTypes
  <2>2. /\ Head(queue[l]) \in Events
        /\ Tail(queue[l]) \in Seq(Events)
        /\ Len(Tail(queue[l])) = Len(queue[l]) - 1
        /\ Len(queue[l]) \in Nat
    BY <2>1, HeadTailProperties, LenProperties, Zenon
  <2>3. queue' \in [Links -> Seq(Events)]
    BY <1>1, <2>2, Zenon DEF WriterTakes, QueueTypes
  <2>4. \A k \in Links : Len(queue'[k]) <= QueueDepth
    BY <1>1, <2>1, <2>2 DEF WriterTakes, QueueTypes
  <2>5. writing' \in [Links -> 0 .. MaxSeq]
    BY <1>1, <2>2 DEF WriterTakes, QueueTypes, Events
  <2> QED
    BY <1>1, <2>3, <2>4, <2>5, Zenon DEF WriterTakes, QueueTypes
<1>2. CASE WriterFlushes(l)
  <2>1. writing[l] \in Events
    BY <1>2 DEF WriterFlushes, QueueTypes, Events
  <2>2. fate' \in [Links -> [Events -> Fates]]
    BY <1>2, <2>1 DEF WriterFlushes, QueueTypes, Fates
  <2>3. writing' \in [Links -> 0 .. MaxSeq]
    BY <1>2 DEF WriterFlushes, QueueTypes
  <2> QED
    BY <1>2, <2>2, <2>3, Zenon DEF WriterFlushes, QueueTypes
<1>3. CASE WriterExits(l)
  BY <1>3, Zenon DEF WriterExits, QueueTypes
<1> QED
  BY <1>1, <1>2, <1>3, Zenon DEF Writer, WriterTakes, WriterFlushes, WriterExits

\* A non-blocking send keeps the channel within its depth.
LEMMA OfferType ==
  ASSUME QueueTypes, NEW l \in Links, NEW s \in Events, offer(l, s),
         UNCHANGED <<writerDone, writing>>
  PROVE  QueueTypes'
<1> USE LinksAssumption
<1>1. fate' \in [Links -> [Events -> Fates]]
  <2>1. PICK f \in {"queued", "dropped"} : fate' = [fate EXCEPT ![l][s] = f]
    BY Zenon DEF offer
  <2> QED
    BY <2>1, Zenon DEF QueueTypes, Fates
<1>2. CASE Len(queue[l]) < QueueDepth
  <2>1. queue' = [queue EXCEPT ![l] = Append(queue[l], s)]
    BY <1>2, Zenon DEF offer
  <2>2. /\ Append(queue[l], s) \in Seq(Events)
        /\ Len(Append(queue[l], s)) = Len(queue[l]) + 1
        /\ Len(queue[l]) \in Nat
    BY AppendProperties, LenProperties DEF QueueTypes
  <2> QED
    BY <1>1, <1>2, <2>1, <2>2 DEF QueueTypes
<1>3. CASE ~(Len(queue[l]) < QueueDepth)
  BY <1>1, <1>3, Zenon DEF offer, QueueTypes
<1> QED
  BY <1>2, <1>3, Zenon

\* A call of Replicate leaves the links alone.
LEMMA CallTypeStep ==
  ASSUME TypeOK, NEW w \in Writers, Replicate(w)
  PROVE  QueueTypes' /\ CallTypes' /\ UNCHANGED linkVars
<1> USE LinksAssumption
<1>0. UNCHANGED linkVars
  BY Zenon DEF Replicate, buildWireRepl, LoadGen, LookupCache, Compute, StoreCache, Enqueue, Return
<1>1. CASE buildWireRepl(w)
  <2>1. replSeq + 1 \in 0 .. MaxSeq /\ replSeq + 1 # 0
    BY <1>1 DEF buildWireRepl, TypeOK, CallTypes
  <2>2. replSeq' \in 0 .. MaxSeq /\ wseq' \in [Writers -> 0 .. MaxSeq]
    BY <1>1, <2>1, Zenon DEF buildWireRepl, TypeOK, CallTypes
  <2>3. \A v \in Writers : wpc'[v] # "idle" => wseq'[v] # 0
    BY <1>1, <2>1, Zenon DEF buildWireRepl, TypeOK, CallTypes
  <2> QED
    BY <1>1, <2>2, <2>3, Zenon DEF buildWireRepl, TypeOK, QueueTypes, CallTypes, queueVars
<1>2. CASE LoadGen(w)
  BY <1>0, <1>2, Zenon DEF LoadGen, TypeOK, LinkTypes, QueueTypes, CallTypes, queueVars
<1>3. CASE LookupCache(w)
  <2>1. cache.links \subseteq Links
    BY Zenon DEF TypeOK, CallTypes
  <2>2. /\ wlinks' \in [Writers -> SUBSET Links]
        /\ wpc' \in [Writers -> {"idle", "loadGen", "lookup", "compute", "store", "enqueue"}]
    <3>1. CASE CacheHit(w)
      BY <1>3, <2>1, <3>1 DEF LookupCache, TypeOK, CallTypes
    <3>2. CASE ~CacheHit(w)
      BY <1>3, <3>2 DEF LookupCache, TypeOK, CallTypes
    <3> QED
      BY <3>1, <3>2, Zenon
  <2>3. \A v \in Writers : wpc'[v] # "idle" => wseq[v] # 0
    BY <1>3, Zenon DEF LookupCache, TypeOK, CallTypes
  <2> QED
    BY <1>3, <2>2, <2>3, Zenon DEF LookupCache, TypeOK, QueueTypes, CallTypes, queueVars
<1>4. CASE Compute(w)
  <2>1. computeReplicationTargets \subseteq Links
    BY Zenon DEF computeReplicationTargets, usable, TypeOK, LinkTypes
  <2> QED
    BY <1>0, <1>4, <2>1, Zenon DEF Compute, TypeOK, QueueTypes, CallTypes, queueVars
<1>5. CASE StoreCache(w)
  BY <1>0, <1>5, Zenon DEF StoreCache, TypeOK, QueueTypes, CallTypes, queueVars
<1>6. CASE Enqueue(w)
  <2>1. PICK l \in wlinks[w] :
          offer(l, wseq[w]) /\ wlinks' = [wlinks EXCEPT ![w] = @ \ {l}]
    BY <1>6, Zenon DEF Enqueue
  <2>2. l \in Links /\ wseq[w] \in Events
    BY <1>6 DEF Enqueue, TypeOK, CallTypes, Events
  <2>3. QueueTypes'
    BY <1>6, <2>1, <2>2, OfferType, Zenon DEF Enqueue, TypeOK
  <2> QED
    BY <1>0, <1>6, <2>1, <2>3, Zenon DEF Enqueue, TypeOK, CallTypes
<1>7. CASE Return(w)
  BY <1>0, <1>7 DEF Return, TypeOK, QueueTypes, CallTypes, queueVars
<1> QED
  BY <1>0, <1>1, <1>2, <1>3, <1>4, <1>5, <1>6, <1>7, Zenon DEF Replicate

\* Every step keeps the types.
LEMMA TypeStep ==
  ASSUME TypeOK, [Next]_vars
  PROVE  TypeOK'
<1>1. ASSUME NEW l \in Links, Link(l) PROVE TypeOK'
  BY <1>1, LinkTypeStep, Zenon DEF TypeOK, QueueTypes, CallTypes, queueVars, callVars
<1>2. ASSUME NEW l \in Links, Writer(l) PROVE TypeOK'
  BY <1>2, WriterTypeStep, Zenon DEF TypeOK, LinkTypes, CallTypes, linkVars, callVars
<1>3. ASSUME NEW w \in Writers, Replicate(w) PROVE TypeOK'
  BY <1>3, CallTypeStep, Zenon DEF TypeOK, LinkTypes, linkVars
<1>4. CASE UNCHANGED vars
  BY <1>4, Zenon DEF TypeOK, LinkTypes, QueueTypes, CallTypes, vars
<1> QED
  BY <1>1, <1>2, <1>3, <1>4, Zenon DEF Next

\* The state of links, queues and calls keeps its types; no queue outgrows
\* peer_queue_depth.
THEOREM TypeCorrect == Spec => []TypeOK
<1>1. Init => TypeOK
  BY LinksAssumption, EmptySeq
     DEF Init, NoCache, TypeOK, LinkTypes, QueueTypes, CallTypes, Phases, Fates
<1>2. TypeOK /\ [Next]_vars => TypeOK'
  BY TypeStep, Zenon
<1> QED
  BY <1>1, <1>2, PTL DEF Spec

-----------------------------------------------------------------------------
(* The cache of the selection. *)

\* A registered link has a number no other link has.
Numbered ==
  /\ \A l \in Links : linkSeq[l] <= linkCtr
  /\ \A l \in out : phase[l] # "new"
  /\ \A l, k \in Links :
       phase[l] # "new" /\ phase[k] # "new" /\ linkSeq[l] = linkSeq[k] => l = k

\* No generation is ahead of the service's.
GenerationsBehind ==
  /\ cache.gen <= gen
  /\ \A w \in Writers : wgen[w] <= gen

\* A call that has computed a selection and not yet stored it holds a current one,
\* unless the generation has moved on since the call loaded it.
SelectionFresh ==
  \A w \in Writers : wpc[w] = "store" /\ wgen[w] = gen => IsCurrent(wlinks[w])

FreshInv == TypeOK /\ Numbered /\ GenerationsBehind /\ CacheFresh /\ SelectionFresh

\* preferLink is a strict order on registered links that ranks any two of them.
LEMMA PreferOrder ==
  ASSUME TypeOK, Numbered, NEW a \in out, NEW b \in out, NEW c \in out
  PROVE  /\ ~(preferLink(a, b) /\ preferLink(b, a))
         /\ a # b => preferLink(a, b) \/ preferLink(b, a)
         /\ preferLink(a, b) /\ preferLink(b, c) => preferLink(a, c)
<1>1. /\ a \in Links /\ b \in Links /\ c \in Links
      /\ linkSeq[a] \in Nat /\ linkSeq[b] \in Nat /\ linkSeq[c] \in Nat
      /\ inbound[a] \in BOOLEAN /\ inbound[b] \in BOOLEAN /\ inbound[c] \in BOOLEAN
      /\ linkSeq[a] = linkSeq[b] => a = b
  BY LinksAssumption, Zenon DEF TypeOK, LinkTypes, Numbered
<1> QED
  BY <1>1 DEF preferLink

\* S, as it is now, is current after the step.
StaysCurrent(S) ==
  /\ S \subseteq out'
  /\ {l \in S : ~replStop'[l]} \subseteq computeReplicationTargets'
  /\ \A l \in computeReplicationTargets' :
       l \in S \/ \E c \in S : replStop'[c] /\ linkKey(c) = linkKey(l)

\* Stopping one registered link keeps a current selection current: if that lets
\* another link win its key, the stopped one was the winner and is still in S.
LEMMA StopKeepsCurrent ==
  ASSUME TypeOK, Numbered, NEW l \in Links, NEW S, IsCurrent(S),
         replStop' = [replStop EXCEPT ![l] = TRUE],
         UNCHANGED <<out, linkSeq>>
  PROVE  StaysCurrent(S)
<1>1. /\ out \subseteq Links /\ replStop \in [Links -> BOOLEAN]
      /\ S \subseteq out
  BY Zenon DEF TypeOK, LinkTypes, IsCurrent
<1>2. usable' = usable \ {l}
  BY <1>1, Zenon DEF usable
<1>3. \A a, b : preferLink(a, b)' = preferLink(a, b)
  BY Zenon DEF preferLink
<1>4. ASSUME NEW k \in computeReplicationTargets, k # l
      PROVE  k \in computeReplicationTargets'
  BY <1>2, <1>3, <1>4, Zenon DEF computeReplicationTargets
<1>5. {k \in S : ~replStop'[k]} \subseteq computeReplicationTargets'
  BY <1>1, <1>4, Zenon DEF IsCurrent
<1>6. ASSUME NEW k \in computeReplicationTargets'
      PROVE  k \in S \/ \E c \in S : replStop'[c] /\ linkKey(c) = linkKey(k)
  <2>0. k \in usable /\ k # l
    BY <1>2, <1>6, Zenon DEF computeReplicationTargets
  <2>1. CASE k \in computeReplicationTargets
    BY <1>1, <2>1, Zenon DEF IsCurrent
  <2>2. CASE k \notin computeReplicationTargets
    <3>1. PICK j \in usable : linkKey(j) = linkKey(k) /\ j # k /\ ~preferLink(k, j)
      BY <2>0, <2>2, Zenon DEF computeReplicationTargets
    <3>2. j = l
      BY <1>2, <1>3, <1>6, <3>1, Zenon DEF computeReplicationTargets
    <3>3. l \in usable /\ linkKey(l) = linkKey(k) /\ preferLink(l, k)
      BY <2>0, <3>1, <3>2, PreferOrder, Zenon DEF usable
    <3>4. ASSUME NEW m \in usable, linkKey(m) = linkKey(l), m # l
          PROVE  preferLink(l, m)
      <4>1. CASE m = k
        BY <3>3, <4>1, Zenon
      <4>2. CASE m # k
        <5>1. preferLink(k, m)
          BY <1>2, <1>3, <1>6, <3>3, <3>4, <4>2, Zenon DEF computeReplicationTargets
        <5>2. l \in out /\ k \in out /\ m \in out
          BY <2>0, <3>3, Zenon DEF usable
        <5> QED
          BY <3>3, <5>1, <5>2, PreferOrder, Zenon
      <4> QED
        BY <4>1, <4>2, Zenon
    <3>5. l \in computeReplicationTargets
      BY <3>3, <3>4, Zenon DEF computeReplicationTargets
    <3>6. CASE l \in S
      BY <1>1, <3>3, <3>6, Zenon
    <3>7. CASE l \notin S
      BY <1>1, <3>3, <3>5, <3>7, Zenon DEF IsCurrent
    <3> QED
      BY <3>6, <3>7, Zenon
  <2> QED
    BY <2>1, <2>2, Zenon
<1> QED
  BY <1>1, <1>5, <1>6, Zenon DEF StaysCurrent

\* A step that changes no registered link keeps a current selection current.
LEMMA SameLinksKeepCurrent ==
  ASSUME TypeOK, NEW S, IsCurrent(S), UNCHANGED <<out, replStop>>,
         \A k \in out : linkSeq'[k] = linkSeq[k]
  PROVE  StaysCurrent(S)
<1>1. usable' = usable /\ usable \subseteq out
  BY Zenon DEF usable
<1>2. \A a, b \in usable : preferLink(a, b)' <=> preferLink(a, b)
  BY <1>1, Zenon DEF preferLink
<1>3. computeReplicationTargets' = computeReplicationTargets
  BY <1>1, <1>2, Zenon DEF computeReplicationTargets
<1> QED
  BY <1>3, Zenon DEF IsCurrent, StaysCurrent

\* What a link's goroutine does to the numbers and to the selection: it advances
\* the generation, or it keeps current selections current.
LEMMA LinkStep ==
  ASSUME TypeOK, Numbered, NEW l \in Links, Link(l)
  PROVE  /\ Numbered'
         /\ gen' = gen \/ gen' = gen + 1
         /\ gen' = gen => \A S : IsCurrent(S) => StaysCurrent(S)
<1> USE DEF TypeOK, LinkTypes
<1>1. CASE StartLink(l)
  <2>1. \A k \in out : k # l
    BY <1>1, Zenon DEF StartLink, Numbered
  <2>2. \A k \in out : linkSeq'[k] = linkSeq[k]
    BY <1>1, <2>1, Zenon DEF StartLink
  <2>3. Numbered'
    <3>1. linkCtr' = linkCtr + 1 /\ linkSeq'[l] = linkCtr + 1 /\ phase'[l] = "numbered"
      BY <1>1, Zenon DEF StartLink
    <3>2. \A k \in Links : k # l => linkSeq'[k] = linkSeq[k] /\ phase'[k] = phase[k]
      BY <1>1, Zenon DEF StartLink
    <3>3. out' = out
      BY <1>1, Zenon DEF StartLink
    <3>4. \A k \in Links : linkSeq[k] \in Nat /\ linkSeq[k] <= linkCtr /\ linkCtr \in Nat
      BY Zenon DEF Numbered
    <3> QED
      BY <2>1, <3>1, <3>2, <3>3, <3>4 DEF Numbered
  <2> QED
    BY <1>1, <2>2, <2>3, SameLinksKeepCurrent, Zenon DEF StartLink
<1>2. CASE registerOut(l)
  BY <1>2 DEF registerOut, Numbered
<1>3. CASE HeartbeatFails(l) \/ EndSession(l) \/ CancelAccepted(l) \/ WriterStopped(l) \/ WaitTimesOut(l)
  <2>1. /\ UNCHANGED <<out, replStop, linkSeq, linkCtr, gen>>
        /\ \A k \in Links : (phase'[k] = "new") <=> (phase[k] = "new")
    BY <1>3, Zenon DEF HeartbeatFails, EndSession, CancelAccepted, WriterStopped, WaitTimesOut, AfterStop
  <2>2. Numbered'
    BY <2>1, Zenon DEF Numbered
  <2> QED
    BY <2>1, <2>2, SameLinksKeepCurrent, Zenon
<1>4. CASE StopDialled(l) \/ StopAccepted(l)
  <2>1. /\ UNCHANGED <<out, linkSeq, linkCtr, gen>>
        /\ replStop' = [replStop EXCEPT ![l] = TRUE]
        /\ \A k \in Links : (phase'[k] = "new") <=> (phase[k] = "new")
    BY <1>4, Zenon DEF StopDialled, StopAccepted
  <2>2. Numbered'
    BY <2>1, Zenon DEF Numbered
  <2> QED
    BY <2>1, <2>2, StopKeepsCurrent, Zenon
<1>5. CASE unregisterLink(l) \/ FinishSnapshot(l)
  <2>1. /\ UNCHANGED <<linkSeq, linkCtr>>
        /\ gen' = gen + 1
        /\ out' = out \ {l}
        /\ \A k \in Links : (phase'[k] = "new") <=> (phase[k] = "new")
    BY <1>5, Zenon DEF unregisterLink, FinishSnapshot
  <2>2. Numbered'
    BY <2>1, Zenon DEF Numbered
  <2> QED
    BY <2>1, <2>2
<1> QED
  BY <1>1, <1>2, <1>3, <1>4, <1>5, Zenon DEF Link

\* Every step keeps the invariant behind CacheFresh.
LEMMA FreshStep ==
  ASSUME FreshInv, [Next]_vars
  PROVE  FreshInv'
<1>0. TypeOK' /\ TypeOK
  BY TypeStep, Zenon DEF FreshInv
<1>7. /\ gen \in Nat /\ cache.gen \in Nat
      /\ wgen \in [Writers -> Nat]
      /\ wpc \in [Writers -> {"idle", "loadGen", "lookup", "compute", "store", "enqueue"}]
      /\ wlinks \in [Writers -> SUBSET Links]
      /\ \A w \in Writers : wgen[w] \in Nat
  BY <1>0, Zenon DEF TypeOK, LinkTypes, CallTypes
<1>1. ASSUME NEW l \in Links, Link(l) PROVE FreshInv'
  <2>1. UNCHANGED <<cache, wpc, wgen, wlinks>>
    BY <1>0, <1>1, LinkTypeStep, Zenon DEF TypeOK, callVars
  <2>2. /\ Numbered'
        /\ gen' = gen \/ gen' = gen + 1
        /\ gen' = gen => \A S : IsCurrent(S) => StaysCurrent(S)
    BY <1>0, <1>1, LinkStep, Zenon DEF FreshInv
  <2>3. GenerationsBehind'
    BY <1>7, <2>1, <2>2 DEF FreshInv, GenerationsBehind
  <2>4. CASE gen' = gen
    <3>1. CacheFresh'
      BY <2>1, <2>2, <2>4, Zenon DEF FreshInv, CacheFresh, IsCurrent, StaysCurrent
    <3>2. SelectionFresh'
      BY <2>1, <2>2, <2>4, Zenon DEF FreshInv, SelectionFresh, IsCurrent, StaysCurrent
    <3> QED
      BY <1>0, <2>2, <2>3, <3>1, <3>2, Zenon DEF FreshInv
  <2>5. CASE gen' = gen + 1
    <3>1. cache.gen # gen' /\ \A w \in Writers : wgen[w] # gen'
      BY <1>7, <2>5 DEF FreshInv, GenerationsBehind
    <3>2. CacheFresh' /\ SelectionFresh'
      BY <2>1, <3>1, Zenon DEF CacheFresh, SelectionFresh
    <3> QED
      BY <1>0, <2>2, <2>3, <3>2, Zenon DEF FreshInv
  <2> QED
    BY <2>2, <2>4, <2>5, Zenon
\* The remaining steps leave the links alone.
<1>2. ASSUME UNCHANGED linkVars
      PROVE  Numbered' /\ \A S : IsCurrent(S) <=> StaysCurrent(S)
  <2>1. Numbered'
    BY <1>2, Zenon DEF FreshInv, Numbered, linkVars
  <2>2. computeReplicationTargets' = computeReplicationTargets
    BY <1>2, Zenon DEF computeReplicationTargets, usable, preferLink, linkVars
  <2> QED
    BY <1>2, <2>1, <2>2, Zenon DEF IsCurrent, StaysCurrent, linkVars
<1>3. ASSUME UNCHANGED linkVars, UNCHANGED <<cache, wpc, wgen, wlinks>> PROVE FreshInv'
  <2>1. GenerationsBehind'
    BY <1>3, Zenon DEF FreshInv, GenerationsBehind, linkVars
  <2>2. CacheFresh' /\ SelectionFresh'
    BY <1>2, <1>3, Zenon DEF FreshInv, CacheFresh, SelectionFresh, IsCurrent, StaysCurrent, linkVars
  <2> QED
    BY <1>0, <1>2, <1>3, <2>1, <2>2, Zenon DEF FreshInv
<1>4. ASSUME NEW w \in Writers, Replicate(w) PROVE FreshInv'
  <2>0. UNCHANGED linkVars /\ gen' = gen
    BY <1>0, <1>4, CallTypeStep, Zenon DEF linkVars
  <2>1. ASSUME UNCHANGED <<cache, wgen>>,
               \A v \in Writers : wpc'[v] = "store" =>
                 \/ wpc[v] = "store" /\ wlinks'[v] = wlinks[v]
                 \/ wlinks'[v] = computeReplicationTargets
        PROVE  FreshInv'
    <3>1. GenerationsBehind'
      BY <2>0, <2>1, Zenon DEF FreshInv, GenerationsBehind
    <3>2. CacheFresh'
      BY <1>2, <2>0, <2>1, Zenon DEF FreshInv, CacheFresh, IsCurrent, StaysCurrent
    <3>3. IsCurrent(computeReplicationTargets)
      BY Zenon DEF IsCurrent, computeReplicationTargets, usable
    <3>4. ASSUME NEW v \in Writers, wpc'[v] = "store", wgen'[v] = gen'
          PROVE  StaysCurrent(wlinks'[v])
      BY <1>2, <2>0, <2>1, <3>3, <3>4, Zenon DEF FreshInv, SelectionFresh
    <3>5. SelectionFresh'
      BY <3>4, Zenon DEF SelectionFresh, IsCurrent, StaysCurrent
    <3> QED
      BY <1>0, <1>2, <2>0, <3>1, <3>2, <3>5, Zenon DEF FreshInv
  <2>2. CASE buildWireRepl(w) \/ LookupCache(w) \/ Compute(w) \/ Enqueue(w)
    <3>1. UNCHANGED <<cache, wgen>>
      BY <2>2, Zenon DEF buildWireRepl, LookupCache, Compute, Enqueue
    <3>2. ASSUME NEW v \in Writers, wpc'[v] = "store"
          PROVE  \/ wpc[v] = "store" /\ wlinks'[v] = wlinks[v]
                 \/ wlinks'[v] = computeReplicationTargets
      BY <1>7, <2>2, <3>2, Zenon DEF buildWireRepl, LookupCache, Compute, Enqueue
    <3> QED
      BY <2>1, <3>1, <3>2, Zenon
  <2>3. CASE LoadGen(w) \/ Return(w)
    <3>1. /\ UNCHANGED <<cache, wlinks>>
          /\ \A v \in Writers : wgen'[v] <= gen
          /\ \A v \in Writers :
               wpc'[v] = "store" => wpc[v] = "store" /\ wgen'[v] = wgen[v]
      <4>1. 0 <= gen /\ gen <= gen
        BY <1>7
      <4>2. CASE LoadGen(w)
        BY <1>7, <2>0, <4>1, <4>2, Zenon DEF LoadGen, FreshInv, GenerationsBehind
      <4>3. CASE Return(w)
        BY <1>7, <2>0, <4>1, <4>3, Zenon DEF Return, FreshInv, GenerationsBehind
      <4> QED
        BY <2>3, <4>2, <4>3, Zenon
    <3>2. GenerationsBehind'
      BY <2>0, <3>1, Zenon DEF FreshInv, GenerationsBehind
    <3>3. CacheFresh' /\ SelectionFresh'
      BY <1>2, <2>0, <3>1, Zenon DEF FreshInv, CacheFresh, SelectionFresh, IsCurrent, StaysCurrent
    <3> QED
      BY <1>0, <1>2, <2>0, <3>2, <3>3, Zenon DEF FreshInv
  <2>4. CASE StoreCache(w)
    <3>1. /\ cache' = [gen |-> wgen[w], links |-> wlinks[w], valid |-> TRUE]
          /\ wpc[w] = "store"
          /\ UNCHANGED <<wgen, wlinks>>
          /\ \A v \in Writers : wpc'[v] = "store" => wpc[v] = "store"
      BY <1>7, <2>4, Zenon DEF StoreCache
    <3>2. GenerationsBehind'
      BY <2>0, <3>1, Zenon DEF FreshInv, GenerationsBehind
    <3>3. CacheFresh'
      BY <1>2, <2>0, <3>1, Zenon DEF FreshInv, SelectionFresh, CacheFresh, IsCurrent, StaysCurrent
    <3>4. SelectionFresh'
      BY <1>2, <2>0, <3>1, Zenon DEF FreshInv, SelectionFresh, IsCurrent, StaysCurrent
    <3> QED
      BY <1>0, <1>2, <2>0, <3>2, <3>3, <3>4, Zenon DEF FreshInv
  <2> QED
    BY <1>4, <2>2, <2>3, <2>4, Zenon DEF Replicate
<1>5. ASSUME NEW l \in Links, Writer(l) PROVE FreshInv'
  BY <1>0, <1>3, <1>5, WriterTypeStep, Zenon DEF TypeOK, callVars
<1>6. CASE UNCHANGED vars
  BY <1>3, <1>6, Zenon DEF vars, linkVars
<1> QED
  BY <1>1, <1>4, <1>5, <1>6, Zenon DEF Next

\* A registration or removal that races a computation of the selection never
\* leaves a stale selection in the cache under the current generation.
THEOREM CacheIsNeverStale == Spec => []CacheFresh
<1>1. Init => FreshInv
  <2> SUFFICES ASSUME Init PROVE FreshInv
    BY Zenon
  <2>1. TypeOK
    BY LinksAssumption, EmptySeq
       DEF Init, NoCache, TypeOK, LinkTypes, QueueTypes, CallTypes, Phases, Fates
  <2> QED
    BY <2>1 DEF Init, NoCache, FreshInv, Numbered, GenerationsBehind, CacheFresh, SelectionFresh
<1>2. FreshInv /\ [Next]_vars => FreshInv'
  BY FreshStep, Zenon
<1>3. FreshInv => CacheFresh
  BY Zenon DEF FreshInv
<1> QED
  BY <1>1, <1>2, <1>3, PTL DEF Spec

-----------------------------------------------------------------------------
(* One link per peer. *)

OneOfEachKey(S) == \A l, k \in S : linkKey(l) = linkKey(k) => l = k

Offered(l, s) == fate[l][s] # "none"

\* Whatever selection is cached or held, it has one link for each key.
SelectionsDistinct ==
  OneOfEachKey(cache.links) /\ \A w \in Writers : OneOfEachKey(wlinks[w])

\* Calls in progress have numbers of their own, none above the last one given out.
CallsDistinct ==
  /\ \A w \in Writers : wseq[w] <= replSeq
  /\ \A w, v \in Writers :
       wpc[w] # "idle" /\ wpc[v] # "idle" /\ wseq[w] = wseq[v] => w = v

\* A number not given out has been offered to no link, nor has one whose call has
\* no selection yet; a call is left with links of keys it has not offered to.
OfferedOnlySelected ==
  /\ \A l \in Links, s \in Events : s > replSeq => ~Offered(l, s)
  /\ \A w \in Writers, l \in Links :
       wpc[w] \notin {"idle", "enqueue"} => ~Offered(l, wseq[w])
  /\ \A w \in Writers, l \in Links : \A k \in wlinks[w] :
       wpc[w] = "enqueue" /\ Offered(l, wseq[w]) => linkKey(l) # linkKey(k)

\* What a link's writer holds was offered to that link.
HeldWasOffered ==
  \A l \in Links :
    /\ writing[l] # 0 => Offered(l, writing[l])
    /\ \A i \in 1 .. Len(queue[l]) : Offered(l, queue[l][i])

OneLinkPerKey ==
  \A s \in Events : \A l, k \in Links :
    linkKey(l) = linkKey(k) /\ Offered(l, s) /\ Offered(k, s) => l = k

OnceInv ==
  /\ TypeOK
  /\ SelectionsDistinct
  /\ CallsDistinct
  /\ OfferedOnlySelected
  /\ HeldWasOffered
  /\ OneLinkPerKey

\* A selection has one link per key: two would each have to be preferred to the
\* other.
LEMMA SelectionIsDistinct ==
  ASSUME TypeOK
  PROVE  OneOfEachKey(computeReplicationTargets)
<1> SUFFICES ASSUME NEW l \in computeReplicationTargets, NEW k \in computeReplicationTargets,
                    linkKey(l) = linkKey(k), l # k
             PROVE  FALSE
  BY Zenon DEF OneOfEachKey
<1>1. preferLink(l, k) /\ preferLink(k, l)
  BY Zenon DEF computeReplicationTargets
<1>2. /\ linkSeq[l] \in Nat /\ linkSeq[k] \in Nat
      /\ inbound[l] \in BOOLEAN /\ inbound[k] \in BOOLEAN
  BY LinksAssumption, Zenon DEF computeReplicationTargets, usable, TypeOK, LinkTypes
<1> QED
  BY <1>1, <1>2 DEF preferLink

\* Links to one peer have one key.
LEMMA SameNodeSameKey ==
  ASSUME NEW l \in Links, NEW k \in Links, remoteNode[l] = remoteNode[k]
  PROVE  linkKey(l) = linkKey(k)
BY LinksAssumption, IdentityAssumption, Zenon DEF linkKey

\* A link's writer offers nothing.
LEMMA WriterOffersNothing ==
  ASSUME OnceInv, NEW l \in Links, Writer(l)
  PROVE  /\ \A k \in Links, s \in Events : Offered(k, s)' <=> Offered(k, s)
         /\ HeldWasOffered'
<1>0. /\ fate \in [Links -> [Events -> Fates]]
      /\ queue \in [Links -> Seq(Events)]
      /\ writing \in [Links -> 0 .. MaxSeq]
  BY Zenon DEF OnceInv, TypeOK, QueueTypes
<1>1. CASE WriterTakes(l)
  <2>1. /\ fate' = fate
        /\ queue[l] \in Seq(Events) /\ queue[l] # <<>>
        /\ writing' = [writing EXCEPT ![l] = Head(queue[l])]
        /\ queue' = [queue EXCEPT ![l] = Tail(queue[l])]
    BY <1>0, <1>1, Zenon DEF WriterTakes
  <2>2. /\ Len(queue[l]) \in Nat \ {0}
        /\ Head(queue[l]) = queue[l][1]
        /\ Len(Tail(queue[l])) = Len(queue[l]) - 1
        /\ \A i \in 1 .. Len(Tail(queue[l])) : Tail(queue[l])[i] = queue[l][i + 1]
    BY <2>1, HeadTailProperties, LenProperties, EmptySeq
  <2>3. ASSUME NEW k \in Links
        PROVE  /\ writing'[k] # 0 => fate[k][writing'[k]] # "none"
               /\ \A i \in 1 .. Len(queue'[k]) : fate[k][queue'[k][i]] # "none"
    <3>1. CASE k = l
      <4>1. writing'[k] = queue[l][1] /\ queue'[k] = Tail(queue[l])
        BY <1>0, <2>1, <2>2, <3>1, Zenon
      <4>2. \A i \in 1 .. Len(queue[l]) : Offered(l, queue[l][i])
        BY Zenon DEF OnceInv, HeldWasOffered
      <4> QED
        BY <2>2, <3>1, <4>1, <4>2 DEF Offered
    <3>2. CASE k # l
      BY <1>0, <2>1, <3>2, Zenon DEF OnceInv, HeldWasOffered, Offered
    <3> QED
      BY <3>1, <3>2, Zenon
  <2> QED
    BY <2>1, <2>3, Zenon DEF HeldWasOffered, Offered
<1>2. CASE WriterFlushes(l)
  <2>1. PICK f \in {"sent", "error"} : fate' = [fate EXCEPT ![l][writing[l]] = f]
    BY <1>2, Zenon DEF WriterFlushes
  <2>2. writing[l] \in Events /\ Offered(l, writing[l])
    BY <1>0, <1>2 DEF WriterFlushes, Events, OnceInv, HeldWasOffered
  <2>3. \A k \in Links, s \in Events : Offered(k, s)' <=> Offered(k, s)
    BY <1>0, <2>1, <2>2, Zenon DEF Offered
  <2>4. writing' = [writing EXCEPT ![l] = 0] /\ queue' = queue
    BY <1>2, Zenon DEF WriterFlushes
  <2>5. ASSUME NEW k \in Links
        PROVE  /\ writing'[k] # 0 => fate'[k][writing'[k]] # "none"
               /\ \A i \in 1 .. Len(queue'[k]) : fate'[k][queue'[k][i]] # "none"
    <3>1. writing'[k] # 0 => writing[k] # 0 /\ writing'[k] = writing[k] /\ writing[k] \in Events
      BY <1>0, <2>4 DEF Events
    <3>2. \A i \in 1 .. Len(queue[k]) : queue[k][i] \in Events
      BY <1>0, ElementOfSeq, Zenon
    <3>3. writing[k] # 0 => Offered(k, writing[k])
      BY Zenon DEF OnceInv, HeldWasOffered
    <3>4. \A i \in 1 .. Len(queue[k]) : Offered(k, queue[k][i])
      BY Zenon DEF OnceInv, HeldWasOffered
    <3> QED
      BY <2>3, <2>4, <3>1, <3>2, <3>3, <3>4, Zenon DEF Offered
  <2> QED
    BY <2>3, <2>5, Zenon DEF HeldWasOffered, Offered
<1>3. CASE WriterExits(l)
  BY <1>3, Zenon DEF WriterExits, OnceInv, HeldWasOffered, Offered
<1> QED
  BY <1>1, <1>2, <1>3, Zenon DEF Writer

\* Offering an event to a link of a key it was not offered to yet.
LEMMA EnqueueStep ==
  ASSUME OnceInv, NEW w \in Writers, Enqueue(w)
  PROVE  /\ SelectionsDistinct' /\ CallsDistinct' /\ OfferedOnlySelected'
         /\ HeldWasOffered' /\ OneLinkPerKey'
<1>0. /\ fate \in [Links -> [Events -> Fates]]
      /\ queue \in [Links -> Seq(Events)]
      /\ wlinks \in [Writers -> SUBSET Links]
      /\ wseq \in [Writers -> 0 .. MaxSeq]
      /\ replSeq \in 0 .. MaxSeq /\ MaxSeq \in Nat
  BY LinksAssumption, Zenon DEF OnceInv, TypeOK, QueueTypes, CallTypes
<1>1. PICK m \in wlinks[w] :
        offer(m, wseq[w]) /\ wlinks' = [wlinks EXCEPT ![w] = wlinks[w] \ {m}]
  BY Zenon DEF Enqueue
<1> DEFINE e == wseq[w]
<1>2. /\ wpc[w] = "enqueue" /\ m \in Links /\ e \in Events
      /\ UNCHANGED <<cache, replSeq, wpc, wseq, writing>>
  BY <1>0 DEF Enqueue, OnceInv, TypeOK, CallTypes, Events
<1>3. PICK f \in {"queued", "dropped"} : fate' = [fate EXCEPT ![m][e] = f]
  BY <1>1, Zenon DEF offer
<1>4. \A l \in Links, s \in Events :
        Offered(l, s)' <=> Offered(l, s) \/ (l = m /\ s = e)
  BY <1>0, <1>2, <1>3, Zenon DEF Offered
<1> HIDE DEF e
<1>5. SelectionsDistinct'
  BY <1>0, <1>1, <1>2, SMTT(30) DEF OnceInv, SelectionsDistinct, OneOfEachKey
<1>6. CallsDistinct'
  BY <1>2, Zenon DEF OnceInv, CallsDistinct
<1>7. \A v \in Writers : wpc[v] # "idle" => wseq[v] \in Events /\ (wseq[v] = e => v = w)
  BY <1>0, <1>2, SMTT(30) DEF OnceInv, TypeOK, CallTypes, CallsDistinct, Events, e
<1>8. OfferedOnlySelected'
  <2>1. \A l \in Links, s \in Events : s > replSeq => ~Offered(l, s)'
    <3>1. e <= replSeq /\ e \in Nat
      BY <1>0 DEF OnceInv, CallsDistinct, e
    <3> QED
      BY <1>0, <1>4, <3>1 DEF OnceInv, OfferedOnlySelected, Events
  <2>2. ASSUME NEW v \in Writers, NEW l \in Links, wpc[v] \notin {"idle", "enqueue"}
        PROVE  fate'[l][wseq[v]] = "none"
    <3>1. wseq[v] \in Events /\ wseq[v] # e
      BY <1>2, <1>7, <2>2, Zenon
    <3>2. ~Offered(l, wseq[v])
      BY <2>2, Zenon DEF OnceInv, OfferedOnlySelected
    <3> QED
      BY <1>4, <3>1, <3>2, Zenon DEF Offered
  <2>3. ASSUME NEW v \in Writers, NEW l \in Links, NEW k \in wlinks'[v],
               wpc[v] = "enqueue", fate'[l][wseq[v]] # "none"
        PROVE  linkKey(l) # linkKey(k)
    <3>1. wseq[v] \in Events /\ k \in wlinks[v]
      BY <1>0, <1>1, <1>7, <2>3, Zenon
    <3>2. CASE Offered(l, wseq[v])
      BY <2>3, <3>1, <3>2, Zenon DEF OnceInv, OfferedOnlySelected
    <3>3. CASE ~Offered(l, wseq[v])
      <4>1. l = m /\ wseq[v] = e
        BY <1>4, <2>3, <3>1, <3>3, Zenon DEF Offered
      <4>2. v = w
        BY <1>7, <2>3, <4>1, Zenon
      <4>3. k # m /\ k \in wlinks[w] /\ m \in wlinks[w]
        BY <1>0, <1>1, <2>3, <4>2, Zenon
      <4> QED
        BY <4>1, <4>3, Zenon DEF OnceInv, SelectionsDistinct, OneOfEachKey
    <3> QED
      BY <3>2, <3>3, Zenon
  <2> QED
    BY <1>2, <2>1, <2>2, <2>3, Zenon DEF OfferedOnlySelected, Offered
<1>9. HeldWasOffered'
  <2>1. ASSUME NEW l \in Links, NEW s \in Events, Offered(l, s) PROVE fate'[l][s] # "none"
    BY <1>4, <2>1, Zenon DEF Offered
  <2>2. ASSUME NEW l \in Links, writing[l] # 0 PROVE fate'[l][writing[l]] # "none"
    <3>1. writing[l] \in Events /\ Offered(l, writing[l])
      BY <1>0, <2>2 DEF OnceInv, TypeOK, QueueTypes, HeldWasOffered, Events
    <3> QED
      BY <2>1, <3>1, Zenon
  <2>3. ASSUME NEW l \in Links, NEW i \in 1 .. Len(queue'[l])
        PROVE  fate'[l][queue'[l][i]] # "none"
    <3>1. ASSUME NEW j \in 1 .. Len(queue[l]) PROVE fate'[l][queue[l][j]] # "none"
      <4>1. queue[l][j] \in Events
        BY <1>0, <3>1, ElementOfSeq, Zenon
      <4>2. Offered(l, queue[l][j])
        BY <3>1, Zenon DEF OnceInv, HeldWasOffered
      <4> QED
        BY <2>1, <4>1, <4>2, Zenon
    <3>2. CASE queue'[l] = queue[l]
      BY <3>1, <3>2, Zenon
    <3>3. CASE queue'[l] # queue[l]
      <4>1. l = m /\ queue'[l] = Append(queue[m], e)
        BY <1>0, <1>1, <1>2, <3>3, Zenon DEF offer, e
      <4>2. /\ Len(queue'[l]) = Len(queue[l]) + 1
            /\ Len(queue[l]) \in Nat
            /\ \A j \in 1 .. Len(queue[l]) : queue'[l][j] = queue[l][j]
            /\ queue'[l][Len(queue[l]) + 1] = e
        BY <1>0, <1>2, <4>1, AppendProperties, LenProperties
      <4>3. CASE i \in 1 .. Len(queue[l])
        BY <3>1, <4>2, <4>3, Zenon
      <4>4. CASE i = Len(queue[l]) + 1
        BY <1>2, <1>4, <4>1, <4>2, <4>4, Zenon DEF Offered
      <4> QED
        BY <4>2, <4>3, <4>4
    <3> QED
      BY <3>2, <3>3, Zenon
  <2> QED
    BY <1>2, <2>2, <2>3, Zenon DEF HeldWasOffered, Offered
<1>10. OneLinkPerKey'
  <2>1. ASSUME NEW l \in Links, Offered(l, e) PROVE linkKey(l) # linkKey(m)
    BY <1>1, <1>2, <2>1, Zenon DEF OnceInv, OfferedOnlySelected, e
  <2>2. ASSUME NEW s \in Events, NEW l \in Links, NEW k \in Links,
               linkKey(l) = linkKey(k), Offered(l, s)', Offered(k, s)'
        PROVE  l = k
    BY <1>4, <2>1, <2>2 DEF OnceInv, OneLinkPerKey
  <2> QED
    BY <2>2, Zenon DEF OneLinkPerKey
<1> QED
  BY <1>5, <1>6, <1>8, <1>9, <1>10, Zenon

\* Every step keeps the invariant behind OneLinkPerNode.
LEMMA OnceStep ==
  ASSUME OnceInv, [Next]_vars
  PROVE  OnceInv'
<1>0. TypeOK' /\ TypeOK
  BY TypeStep, Zenon DEF OnceInv
<1>1. /\ cache.links \subseteq Links
      /\ replSeq \in Nat
      /\ wpc \in [Writers -> {"idle", "loadGen", "lookup", "compute", "store", "enqueue"}]
      /\ wseq \in [Writers -> 0 .. MaxSeq]
      /\ wlinks \in [Writers -> SUBSET Links]
      /\ MaxSeq \in Nat
  BY <1>0, LinksAssumption, SMTT(30) DEF TypeOK, CallTypes
<1>2. CASE UNCHANGED <<queueVars, callVars>>
  BY <1>0, <1>2 DEF OnceInv, SelectionsDistinct, CallsDistinct, OfferedOnlySelected,
       HeldWasOffered, OneLinkPerKey, Offered, queueVars, callVars
<1>3. ASSUME NEW l \in Links, Link(l) PROVE OnceInv'
  BY <1>0, <1>2, <1>3, LinkTypeStep, Zenon DEF TypeOK
<1>4. ASSUME NEW l \in Links, Writer(l) PROVE OnceInv'
  <2>1. UNCHANGED callVars
    BY <1>0, <1>4, WriterTypeStep, Zenon DEF TypeOK
  <2>2. /\ \A k \in Links, s \in Events : Offered(k, s)' <=> Offered(k, s)
        /\ HeldWasOffered'
    BY <1>4, WriterOffersNothing, Zenon
  <2>3. SelectionsDistinct' /\ CallsDistinct'
    BY <2>1, Zenon DEF OnceInv, SelectionsDistinct, CallsDistinct, callVars
  <2>4. \A w \in Writers : wpc[w] # "idle" => wseq[w] \in Events
    BY <1>0, <1>1 DEF TypeOK, CallTypes, Events
  <2>5. OfferedOnlySelected'
    BY <2>1, <2>2, <2>4 DEF OnceInv, OfferedOnlySelected, Offered, callVars
  <2>6. OneLinkPerKey'
    BY <2>2, Zenon DEF OnceInv, OneLinkPerKey
  <2> QED
    BY <1>0, <2>2, <2>3, <2>5, <2>6, Zenon DEF OnceInv
<1>5. ASSUME NEW w \in Writers, Replicate(w) PROVE OnceInv'
  <2>1. CASE Enqueue(w)
    BY <1>0, <2>1, EnqueueStep, Zenon DEF OnceInv
  \* The other steps touch neither queues nor fates.
  <2>2. ASSUME UNCHANGED queueVars
        PROVE  HeldWasOffered' /\ OneLinkPerKey' /\ fate' = fate
    BY <2>2, Zenon DEF OnceInv, HeldWasOffered, OneLinkPerKey, Offered, queueVars
  <2>3. CASE buildWireRepl(w)
    <3>1. /\ UNCHANGED <<queueVars, cache, wlinks>>
          /\ replSeq' = replSeq + 1 /\ replSeq + 1 \in Events
          /\ wseq' = [wseq EXCEPT ![w] = replSeq + 1]
          /\ wpc' = [wpc EXCEPT ![w] = "loadGen"]
      BY <1>1, <2>3 DEF buildWireRepl, Events
    <3>2. SelectionsDistinct'
      BY <3>1, Zenon DEF OnceInv, SelectionsDistinct
    <3>3. CallsDistinct'
      <4>1. \A v \in Writers : wseq[v] <= replSeq /\ wseq[v] \in Nat
        BY <1>1 DEF OnceInv, CallsDistinct
      <4>2. wseq'[w] = replSeq + 1 /\ \A v \in Writers : v # w => wseq'[v] = wseq[v] /\ wpc'[v] = wpc[v]
        BY <1>1, <3>1, Zenon
      <4> QED
        BY <1>1, <3>1, <4>1, <4>2 DEF OnceInv, CallsDistinct
    <3>4. OfferedOnlySelected'
      <4>1. \A l \in Links, s \in Events : s > replSeq' => fate'[l][s] = "none"
        BY <1>1, <2>2, <3>1, SMTT(30) DEF OnceInv, OfferedOnlySelected, Offered, Events
      <4>2. \A l \in Links : fate'[l][replSeq + 1] = "none"
        BY <1>1, <2>2, <3>1 DEF OnceInv, OfferedOnlySelected, Offered
      <4>3. wseq'[w] = replSeq + 1 /\ wpc'[w] = "loadGen"
        BY <1>1, <3>1, Zenon
      <4>4. \A v \in Writers : v # w => wseq'[v] = wseq[v] /\ wpc'[v] = wpc[v]
        BY <1>1, <3>1, Zenon
      <4> QED
        BY <2>2, <3>1, <4>1, <4>2, <4>3, <4>4, SMTT(30) DEF OnceInv, OfferedOnlySelected, Offered
    <3> QED
      BY <1>0, <2>2, <3>1, <3>2, <3>3, <3>4, Zenon DEF OnceInv
  <2>4. CASE Return(w)
    <3>1. /\ UNCHANGED <<queueVars, cache, replSeq, wlinks>>
          /\ wseq' = [wseq EXCEPT ![w] = 0]
          /\ wpc' = [wpc EXCEPT ![w] = "idle"]
      BY <2>4, Zenon DEF Return
    <3>2. SelectionsDistinct'
      BY <3>1, Zenon DEF OnceInv, SelectionsDistinct
    <3>3. /\ wpc'[w] = "idle" /\ wseq'[w] = 0
          /\ \A v \in Writers : v # w => wseq'[v] = wseq[v] /\ wpc'[v] = wpc[v]
      BY <1>1, <3>1, Zenon
    <3>4. CallsDistinct'
      BY <1>1, <3>1, <3>3 DEF OnceInv, CallsDistinct
    <3>5. OfferedOnlySelected'
      BY <2>2, <3>1, <3>3 DEF OnceInv, OfferedOnlySelected, Offered
    <3> QED
      BY <1>0, <2>2, <3>1, <3>2, <3>4, <3>5, Zenon DEF OnceInv
  <2>5. CASE LoadGen(w) \/ LookupCache(w) \/ Compute(w) \/ StoreCache(w)
    <3>1. UNCHANGED <<queueVars, replSeq, wseq>> /\ wpc[w] \notin {"idle", "enqueue"}
      BY <2>5, Zenon DEF LoadGen, LookupCache, Compute, StoreCache
    <3>2. /\ wpc'[w] # "idle"
          /\ \A v \in Writers : v # w => wlinks'[v] = wlinks[v] /\ wpc'[v] = wpc[v]
      BY <1>1, <2>5, Zenon DEF LoadGen, LookupCache, Compute, StoreCache
    <3>3. OneOfEachKey(wlinks'[w]) /\ OneOfEachKey(cache'.links)
      BY <1>0, <1>1, <2>5, SelectionIsDistinct, SMTT(30)
         DEF OnceInv, SelectionsDistinct, LoadGen, LookupCache, Compute, StoreCache
    <3>4. SelectionsDistinct'
      BY <3>2, <3>3, Zenon DEF OnceInv, SelectionsDistinct, OneOfEachKey
    <3>5. CallsDistinct'
      BY <3>1, <3>2 DEF OnceInv, CallsDistinct
    <3>6. OfferedOnlySelected'
      BY <2>2, <3>1, <3>2 DEF OnceInv, OfferedOnlySelected, Offered
    <3> QED
      BY <1>0, <2>2, <3>1, <3>4, <3>5, <3>6, Zenon DEF OnceInv
  <2> QED
    BY <1>5, <2>1, <2>3, <2>4, <2>5, Zenon DEF Replicate
<1>6. CASE UNCHANGED vars
  BY <1>2, <1>6, Zenon DEF vars, queueVars, callVars
<1> QED
  BY <1>3, <1>4, <1>5, <1>6, Zenon DEF Next

\* No event is ever offered to two links that lead to the same peer, for any set
\* of links and any interleaving of their lives with calls of Replicate.
THEOREM ExactlyOnceOffered == Spec => []OneLinkPerNode
<1>1. Init => OnceInv
  <2> SUFFICES ASSUME Init PROVE OnceInv
    BY Zenon
  <2>1. TypeOK
    BY LinksAssumption, EmptySeq
       DEF Init, NoCache, TypeOK, LinkTypes, QueueTypes, CallTypes, Phases, Fates
  <2>2. \A l \in Links, s \in Events : ~Offered(l, s)
    BY Zenon DEF Init, Offered
  <2>3. HeldWasOffered
    BY EmptySeq DEF Init, HeldWasOffered
  <2> QED
    BY <2>1, <2>2, <2>3 DEF Init, NoCache, OnceInv, SelectionsDistinct, OneOfEachKey,
         CallsDistinct, OfferedOnlySelected, OneLinkPerKey
<1>2. OnceInv /\ [Next]_vars => OnceInv'
  BY OnceStep, Zenon
<1>3. OnceInv => OneLinkPerNode
  BY SameNodeSameKey, Zenon DEF OnceInv, OneLinkPerKey, OneLinkPerNode, Offered
<1> QED
  BY <1>1, <1>2, <1>3, PTL DEF Spec
====
