--------------------------- MODULE BootstrapProofs ---------------------------
(***************************************************************************)
(* AppliedInOrder and OnlyLossDiverges of Bootstrap (and its types), for   *)
(* any keys, writes, depth of the buffer, number of attempts and resyncs.  *)
(*                                                                         *)
(* A write goes from the source's handler over the wire to the worker and  *)
(* from there to the store, directly or through the buffer and the drain.  *)
(* The two ways to the store could overtake each other; the argument is    *)
(* that a write the worker applies directly overtakes only writes of the   *)
(* buffer that are lost, or are about to be wiped (Overtaken).             *)
(*                                                                         *)
(* That the joiner holds what the source holds (CopyOfSource) takes two    *)
(* things more: no write is missing between those on their way but the     *)
(* lost ones (FlowInv), and what the snapshot has shown of a key, with the *)
(* writes still to come, makes up the source's value of it (DataInv).      *)
(***************************************************************************)
EXTENDS Bootstrap, WellFoundedInduction, TLAPS

-----------------------------------------------------------------------------
(* Sequences. *)

\* An element of a sequence.
LEMMA ElementOfSeq == ASSUME NEW S, NEW s \in Seq(S), NEW n \in 1 .. Len(s) PROVE s[n] \in S
OBVIOUS

\* A sequence is empty or has a length.
LEMMA EmptySeq ==
  ASSUME NEW S
  PROVE  <<>> \in Seq(S) /\ Len(<<>>) = 0 /\ \A s \in Seq(S) : s # <<>> => Len(s) \in Nat \ {0}
OBVIOUS

\* A sequence is a function on 1 .. Len.
LEMMA LenProperties ==
  ASSUME NEW S, NEW s \in Seq(S)
  PROVE  Len(s) \in Nat /\ s \in [1 .. Len(s) -> S] /\ DOMAIN s = 1 .. Len(s)
OBVIOUS

\* The first i elements of a sequence, one by one.
Upto(v, i) == {v[j] : j \in 1 .. i}

LEMMA UptoTurn ==
  ASSUME NEW v
  PROVE  /\ Upto(v, 0) = {}
         /\ \A i \in Nat \ {0} : Upto(v, i) = Upto(v, i - 1) \cup {v[i]}
BY DEF Upto

\* Sequences with the same elements are equal.
LEMMA SeqEqual ==
  ASSUME NEW S, NEW s \in Seq(S), NEW t \in Seq(S), Len(s) = Len(t),
         \A i \in 1 .. Len(s) : s[i] = t[i]
  PROVE  s = t
OBVIOUS

\* The first element, and the others.
LEMMA HeadTailProperties ==
  ASSUME NEW S, NEW s \in Seq(S), s # <<>>
  PROVE  /\ Head(s) \in S /\ Tail(s) \in Seq(S) /\ Len(Tail(s)) = Len(s) - 1
         /\ \A i \in 1 .. Len(Tail(s)) : Tail(s)[i] = s[i + 1]
OBVIOUS

\* A sequence with one element more.
LEMMA AppendProperties ==
  ASSUME NEW S, NEW s \in Seq(S), NEW e \in S
  PROVE  /\ Append(s, e) \in Seq(S) /\ Append(s, e) # <<>> /\ Len(Append(s, e)) = Len(s) + 1
         /\ \A i \in 1 .. Len(s) : Append(s, e)[i] = s[i]
         /\ Append(s, e)[Len(s) + 1] = e
OBVIOUS

-----------------------------------------------------------------------------
\* The numbers of the writes in a queue, or in the hands of a goroutine.
Nums(s) == {s[i].n : i \in DOMAIN s}
InHand(w) == {w.n} \ {0}

Below(S, T) == \A m \in S : \A n \in T : m < n
Ascending(s) == \A i, j \in DOMAIN s : i < j => s[i].n < s[j].n

Taken == [n : 1..MaxWrites, key : Keys, buffering : BOOLEAN]

Types ==
  /\ written \in 0..MaxWrites
  /\ last \in 0..MaxWrites
  /\ unsent \in Seq(Writes) /\ wire \in Seq(Writes) /\ buffer \in Seq(Writes)
  /\ worker \in {None} \cup Taken
  /\ held \in {None} \cup Writes
  /\ active \in BOOLEAN

\* The stations a write passes hold ever newer writes, back to the source: l was
\* applied last, H is in the hands of the drain, B in the buffer, W in the hands of
\* the worker, Q on the wire, U not sent, and the source has made top writes.
Chain(l, H, B, W, Q, U, top) ==
  /\ Below(H, B \cup W \cup Q \cup U)
  /\ Below(B, W \cup Q \cup U)
  /\ Below({l} \cup W, Q \cup U)
  /\ Below({l}, W)
  /\ Below(Q, U)
  /\ Below({l} \cup H \cup B \cup W \cup Q \cup U, {top + 1})

InOrder ==
  /\ Ascending(buffer) /\ Ascending(wire) /\ Ascending(unsent)
  /\ Chain(last, InHand(held), Nums(buffer), InHand(worker), Nums(wire), Nums(unsent), written)

\* What the drain has yet to apply is newer than what was applied last, except
\* for lost writes; a write to be applied directly has only lost ones before it.
Overtaken ==
  /\ jpc # "clear" => \A n \in Nums(buffer) : last < n \/ n \in lost
  /\ \A n \in InHand(held) : last < n \/ n \in lost
  /\ worker # None /\ ~worker.buffering /\ jpc # "clear" =>
       Nums(buffer) \cup InHand(held) \subseteq lost
  /\ ~active /\ jpc # "clear" => Nums(buffer) \subseteq lost
  /\ jpc \in {"await", "pulling", "drain", "apply", "off"} => active
  /\ jpc = "apply" <=> held # None

OrderInv == Types /\ InOrder /\ Overtaken

-----------------------------------------------------------------------------
(* Queues. *)

\* An empty queue.
LEMMA NumsEmpty == Nums(<<>>) = {} /\ Ascending(<<>>)
  BY DEF Nums, Ascending

\* The numbers of a queue are numbers of writes.
LEMMA NumsRange ==
  ASSUME NEW s \in Seq(Writes)
  PROVE  Nums(s) \subseteq 1..MaxWrites
<1>1. \A i \in DOMAIN s : s[i] \in Writes
  BY LenProperties, ElementOfSeq, Zenon
<1> QED
  BY <1>1, Zenon DEF Nums, Writes

\* A write added at the end of a queue of older ones.
LEMMA NumsAppend ==
  ASSUME NEW s \in Seq(Writes), NEW w \in Writes,
         Ascending(s), Below(Nums(s), {w.n})
  PROVE  /\ Append(s, w) \in Seq(Writes)
         /\ Nums(Append(s, w)) = Nums(s) \cup {w.n}
         /\ Ascending(Append(s, w))
<1> DEFINE t == Append(s, w)
<1>1. /\ t \in Seq(Writes) /\ Len(t) = Len(s) + 1
      /\ \A i \in 1 .. Len(s) : t[i] = s[i]
      /\ t[Len(s) + 1] = w
  BY AppendProperties
<1>2. Len(s) \in Nat /\ DOMAIN s = 1 .. Len(s) /\ DOMAIN t = 1 .. Len(s) + 1
  BY <1>1, LenProperties, Zenon
<1> HIDE DEF t
<1>3. Nums(t) = Nums(s) \cup {w.n}
  BY <1>1, <1>2 DEF Nums
<1>4. Ascending(t)
  <2> SUFFICES ASSUME NEW i \in DOMAIN t, NEW j \in DOMAIN t, i < j
               PROVE  t[i].n < t[j].n
    BY Zenon DEF Ascending
  <2>1. i \in 1 .. Len(s) /\ t[i] = s[i] /\ s[i].n \in Nums(s)
    BY <1>1, <1>2 DEF Nums
  <2>2. CASE j = Len(s) + 1
    BY <1>1, <2>1, <2>2, Zenon DEF Below
  <2>3. CASE j # Len(s) + 1
    BY <1>1, <1>2, <2>1, <2>3 DEF Ascending
  <2> QED
    BY <2>2, <2>3, Zenon
<1> QED
  BY <1>1, <1>3, <1>4, Zenon DEF t

\* The oldest write leaves a queue.
LEMMA NumsTail ==
  ASSUME NEW s \in Seq(Writes), s # <<>>, Ascending(s)
  PROVE  /\ Head(s) \in Writes /\ Tail(s) \in Seq(Writes)
         /\ Nums(s) = {Head(s).n} \cup Nums(Tail(s))
         /\ Below({Head(s).n}, Nums(Tail(s)))
         /\ Ascending(Tail(s))
<1> DEFINE t == Tail(s)
           h == Head(s)
<1>1. /\ h \in Writes /\ t \in Seq(Writes) /\ Len(t) = Len(s) - 1
      /\ \A i \in 1 .. Len(t) : t[i] = s[i + 1]
  BY HeadTailProperties, Zenon
<1>2. Len(s) \in Nat \ {0} /\ DOMAIN s = 1 .. Len(s) /\ h = s[1]
  BY LenProperties, EmptySeq
<1>3. DOMAIN t = 1 .. Len(s) - 1
  BY <1>1, LenProperties, Zenon
<1> HIDE DEF t, h
<1>4. \A i \in DOMAIN t : i + 1 \in DOMAIN s /\ t[i] = s[i + 1]
  BY <1>1, <1>2, <1>3
<1>5. Nums(s) = {h.n} \cup Nums(t)
  <2>1. ASSUME NEW i \in DOMAIN s PROVE s[i].n \in {h.n} \cup Nums(t)
    <3>1. CASE i = 1
      BY <1>2, <3>1, Zenon
    <3>2. CASE i # 1
      <4>1. i - 1 \in DOMAIN t /\ t[i - 1] = s[i]
        BY <1>1, <1>2, <1>3, <3>2
      <4> QED
        BY <4>1, Zenon DEF Nums
    <3> QED
      BY <3>1, <3>2, Zenon
  <2>2. 1 \in DOMAIN s
    BY <1>2
  <2> QED
    BY <1>2, <1>4, <2>1, <2>2 DEF Nums
<1>6. Below({h.n}, Nums(t))
  <2>1. ASSUME NEW i \in DOMAIN t PROVE h.n < t[i].n
    BY <1>2, <1>3, <1>4 DEF Ascending
  <2> QED
    BY <2>1, Zenon DEF Below, Nums
<1>7. Ascending(t)
  <2> SUFFICES ASSUME NEW i \in DOMAIN t, NEW j \in DOMAIN t, i < j
               PROVE  t[i].n < t[j].n
    BY Zenon DEF Ascending
  <2>1. i + 1 \in DOMAIN s /\ j + 1 \in DOMAIN s /\ i + 1 < j + 1
    BY <1>2, <1>3
  <2> QED
    BY <1>4, <2>1, Zenon DEF Ascending
<1> QED
  BY <1>1, <1>5, <1>6, <1>7, Zenon DEF t, h

\* What a goroutine holds is a write or nothing.
LEMMA HandRange ==
  ASSUME NEW w \in {None} \cup Writes \cup Taken
  PROVE  /\ w = None => InHand(w) = {}
         /\ w # None => w.n \in 1..MaxWrites /\ InHand(w) = {w.n}
<1>1. CASE w = None
  BY <1>1, Zenon DEF None, InHand
<1>2. CASE w # None
  <2>1. w.n \in 1..MaxWrites
    BY <1>2, Zenon DEF Writes, Taken
  <2> QED
    BY <1>2, <2>1 DEF InHand
<1> QED
  BY <1>1, <1>2, Zenon

\* In every state the queues hold numbers.
LEMMA Numbers ==
  ASSUME Types
  PROVE  /\ Nums(unsent) \subseteq Int /\ Nums(wire) \subseteq Int /\ Nums(buffer) \subseteq Int
         /\ InHand(worker) \subseteq Int /\ InHand(held) \subseteq Int
         /\ last \in Int /\ written \in Int
<1>1. InHand(worker) \subseteq Int /\ InHand(held) \subseteq Int
  <2>1. worker \in {None} \cup Writes \cup Taken /\ held \in {None} \cup Writes \cup Taken
    BY Zenon DEF Types
  <2>2. \A w \in {None} \cup Writes \cup Taken :
           InHand(w) = {} \/ (w.n \in 1..MaxWrites /\ InHand(w) = {w.n})
    BY HandRange, Zenon
  <2>3. {} \subseteq Int /\ \A n \in 1..MaxWrites : {n} \subseteq Int
    OBVIOUS
  <2>4. ASSUME NEW w \in {None} \cup Writes \cup Taken PROVE InHand(w) \subseteq Int
    <3>1. CASE InHand(w) = {}
      BY <2>3, <3>1, Zenon
    <3>2. CASE w.n \in 1..MaxWrites /\ InHand(w) = {w.n}
      BY <2>3, <3>2, Zenon
    <3> QED
      BY <2>2, <3>1, <3>2, Zenon
  <2> QED
    BY <2>1, <2>4, Zenon
<1> QED
  BY <1>1, NumsRange, BootstrapAssumption DEF Types

-----------------------------------------------------------------------------
(* Every action preserves OrderInv. *)

queues == <<written, unsent, wire, worker, buffer, held, last>>

\* The steps that only move bootstrapUntilSynced, the links or the snapshot.
Elsewhere ==
  \/ SourceLinks \/ JoinerLinks \/ (\E k \in Keys : ReadKey(k))
  \/ Activate \/ NextSource \/ AttemptFails \/ ApplyChunk \/ SnapshotDone
  \/ DrainRest \/ DrainReturns \/ FlagOff

\* They leave the writes on their way where they are.
LEMMA ElsewhereKeeps ==
  ASSUME OrderInv, Elsewhere
  PROVE  OrderInv'
<1>1. /\ UNCHANGED queues /\ UNCHANGED lost /\ active' \in BOOLEAN
      /\ jpc' = "clear" => jpc \in {"clear", "off"}
      /\ jpc = "clear" => jpc' = "clear"
      /\ jpc' = "apply" <=> jpc = "apply"
      /\ ~active' => ~active \/ jpc' = "clear"
      /\ jpc' \in {"await", "pulling", "drain", "apply", "off"} => active'
  BY Zenon DEF Elsewhere, OrderInv, Types, Overtaken, queues, SourceLinks, JoinerLinks, ReadKey,
         Activate, NextSource, AttemptFails, ApplyChunk, SnapshotDone, DrainRest,
         DrainReturns, FlagOff, goto, writer, links, drain, attempts, snapshot
<1>2. Types'
  BY <1>1, Zenon DEF OrderInv, Types, queues
<1>3. InOrder'
  BY <1>1, Zenon DEF OrderInv, InOrder, queues
<1>4. Overtaken'
  BY <1>1, Zenon DEF OrderInv, Overtaken, queues
<1> QED
  BY <1>2, <1>3, <1>4, Zenon DEF OrderInv

\* The source's write is the newest.
LEMMA WriteKeeps ==
  ASSUME OrderInv, NEW k \in Keys, Write(k)
  PROVE  OrderInv'
<1> DEFINE w == [n |-> written + 1, key |-> k]
<1>1. /\ w \in Writes /\ written' = written + 1 /\ written' \in 0..MaxWrites
      /\ unsent' = Append(unsent, w)
      /\ UNCHANGED <<wire, worker, buffer, held, last, active, jpc, lost>>
  BY BootstrapAssumption DEF Write, OrderInv, Types, Writes, links, snapshot, drain, attempts
<1>2. Below(Nums(unsent), {w.n})
  BY Zenon DEF OrderInv, InOrder, Chain, Below
<1>3. /\ unsent' \in Seq(Writes) /\ Ascending(unsent')
      /\ Nums(unsent') = Nums(unsent) \cup {written + 1}
  BY <1>1, <1>2, NumsAppend, Zenon DEF OrderInv, InOrder, Types
<1>4. Types'
  BY <1>1, <1>3, Zenon DEF OrderInv, Types
<1>5. InOrder'
  <2>1. Chain(last, InHand(held), Nums(buffer), InHand(worker), Nums(wire),
              Nums(unsent) \cup {written + 1}, written + 1)
    BY Numbers DEF OrderInv, InOrder, Chain, Below
  <2> QED
    BY <1>1, <1>3, <2>1, Zenon DEF OrderInv, InOrder
<1>6. Overtaken'
  BY <1>1, Zenon DEF OrderInv, Overtaken
<1> QED
  BY <1>4, <1>5, <1>6, Zenon DEF OrderInv

\* Replicate sends the oldest unsent write or, without a link, nothing.
LEMMA SendKeeps ==
  ASSUME OrderInv, Send
  PROVE  OrderInv'
<1> DEFINE w == Head(unsent)
           U == Nums(Tail(unsent))
<1>1. /\ unsent # <<>> /\ unsent' = Tail(unsent)
      /\ wire' = IF sourceLink THEN Append(wire, w) ELSE wire
      /\ lost \subseteq lost'
      /\ UNCHANGED <<written, worker, buffer, held, last, active, jpc>>
  BY Zenon DEF Send, links, snapshot, drain, attempts
<1>2. /\ w \in Writes /\ unsent' \in Seq(Writes) /\ Ascending(unsent')
      /\ Nums(unsent) = {w.n} \cup U /\ Below({w.n}, U)
  BY <1>1, NumsTail, Zenon DEF OrderInv, InOrder, Types
<1>3. Below(Nums(wire), {w.n})
  BY <1>2, Zenon DEF OrderInv, InOrder, Chain, Below
<1>4. /\ wire' \in Seq(Writes) /\ Ascending(wire')
      /\ Nums(wire') = Nums(wire) \cup {w.n} \/ Nums(wire') = Nums(wire)
  BY <1>1, <1>2, <1>3, NumsAppend, Zenon DEF OrderInv, InOrder, Types
<1>5. Types'
  BY <1>1, <1>2, <1>4, Zenon DEF OrderInv, Types
<1>6. InOrder'
  <2> HIDE DEF w, U
  <2>1. Chain(last, InHand(held), Nums(buffer), InHand(worker), Nums(wire) \cup {w.n}, U, written)
    BY <1>2, <1>3, Zenon DEF OrderInv, InOrder, Chain, Below
  <2>2. Chain(last, InHand(held), Nums(buffer), InHand(worker), Nums(wire), U, written)
    BY <2>1, Zenon DEF Chain, Below
  <2>3. U = Nums(unsent')
    BY <1>1, Zenon DEF U
  <2> QED
    BY <1>1, <1>2, <1>4, <2>1, <2>2, <2>3, Zenon DEF OrderInv, InOrder
<1>7. Overtaken'
  BY <1>1, Zenon DEF OrderInv, Overtaken
<1> QED
  BY <1>5, <1>6, <1>7, Zenon DEF OrderInv

\* The worker takes the oldest write from the wire and notes the flag.
LEMMA TakeKeeps ==
  ASSUME OrderInv, Take
  PROVE  OrderInv'
<1> DEFINE w == Head(wire)
           Q == Nums(Tail(wire))
<1>1. /\ worker = None /\ wire # <<>> /\ wire' = Tail(wire)
      /\ worker' = [n |-> w.n, key |-> w.key, buffering |-> active]
      /\ UNCHANGED <<written, unsent, buffer, held, last, active, jpc, lost>>
  BY Zenon DEF Take, writer, links, snapshot, drain, attempts
<1>2. /\ w \in Writes /\ wire' \in Seq(Writes) /\ Ascending(wire')
      /\ Nums(wire) = {w.n} \cup Q /\ Below({w.n}, Q)
  BY <1>1, NumsTail, Zenon DEF OrderInv, InOrder, Types
<1>3. worker' \in Taken /\ worker' # None /\ InHand(worker') = {w.n} /\ worker'.buffering = active
  <2>1. worker' \in Taken /\ worker'.n = w.n /\ w.n \in 1..MaxWrites
    BY <1>1, <1>2, Zenon DEF Writes, Taken, OrderInv, Types
  <2> QED
    BY <1>1, <2>1 DEF None, InHand
<1>4. Types'
  BY <1>1, <1>2, <1>3, Zenon DEF OrderInv, Types
<1>5. InOrder'
  <2> HIDE DEF w, Q
  <2>1. Chain(last, InHand(held), Nums(buffer), {w.n}, Q, Nums(unsent), written)
    BY <1>2, Zenon DEF OrderInv, InOrder, Chain, Below
  <2>2. Q = Nums(wire')
    BY <1>1, Zenon DEF Q
  <2> QED
    BY <1>1, <1>2, <1>3, <2>1, <2>2, Zenon DEF OrderInv, InOrder
<1>6. Overtaken'
  <2>1. held = None => InHand(held) = {}
    BY DEF None, InHand
  <2> QED
    BY <1>1, <1>3, <2>1, Zenon DEF OrderInv, Overtaken
<1> QED
  BY <1>4, <1>5, <1>6, Zenon DEF OrderInv

\* The worker buffers its write, which may be dropped or left behind.
LEMMA BufferKeeps ==
  ASSUME OrderInv, Act, worker.buffering
  PROVE  OrderInv'
<1> DEFINE w == [n |-> worker.n, key |-> worker.key]
<1>1. /\ worker # None /\ worker' = None
      /\ buffer' \in {buffer, Append(buffer, w)}
      /\ lost \subseteq lost' /\ (~active => w.n \in lost')
      /\ UNCHANGED <<written, unsent, wire, held, last, active, jpc>>
  BY Zenon DEF Act, enqueueBootstrapRepl, writer, links, snapshot, drain, attempts
<1>2. w \in Writes /\ InHand(worker) = {w.n} /\ InHand(worker') = {}
  <2>1. worker \in Taken
    BY <1>1, Zenon DEF OrderInv, Types
  <2> QED
    BY <1>1, <2>1, HandRange, Zenon DEF Taken, Writes
<1>3. Below(Nums(buffer), {w.n}) /\ last < w.n
  BY <1>2, Zenon DEF OrderInv, InOrder, Chain, Below
<1>4. /\ buffer' \in Seq(Writes) /\ Ascending(buffer')
      /\ Nums(buffer') \in {Nums(buffer), Nums(buffer) \cup {w.n}}
  <2>1. buffer \in Seq(Writes) /\ Ascending(buffer)
    BY Zenon DEF OrderInv, InOrder, Types
  <2> HIDE DEF w
  <2>2. CASE buffer' = Append(buffer, w)
    BY <1>2, <1>3, <2>1, <2>2, NumsAppend, Zenon
  <2>3. CASE buffer' = buffer
    BY <2>1, <2>3, Zenon
  <2> QED
    BY <1>1, <2>2, <2>3, Zenon
<1>5. Types'
  BY <1>1, <1>4, Zenon DEF OrderInv, Types
<1> HIDE DEF w
<1>6. InOrder'
  <2>1. Chain(last, InHand(held), Nums(buffer) \cup {w.n}, {}, Nums(wire), Nums(unsent), written)
    BY <1>2, Zenon DEF OrderInv, InOrder, Chain, Below
  <2>2. Chain(last, InHand(held), Nums(buffer), {}, Nums(wire), Nums(unsent), written)
    BY <2>1, Zenon DEF Chain, Below
  <2> QED
    BY <1>1, <1>2, <1>4, <2>1, <2>2, Zenon DEF OrderInv, InOrder
<1>7. Overtaken'
  <2>1. \A n \in Nums(buffer') : n \in Nums(buffer) \/ n = w.n
    BY <1>4, Zenon
  <2>2. jpc' # "clear" => \A n \in Nums(buffer') : last' < n \/ n \in lost'
    BY <1>1, <1>3, <2>1, Zenon DEF OrderInv, Overtaken
  <2>3. ~active' /\ jpc' # "clear" => Nums(buffer') \subseteq lost'
    BY <1>1, <2>1, Zenon DEF OrderInv, Overtaken
  <2> QED
    BY <1>1, <2>2, <2>3, Zenon DEF OrderInv, Overtaken
<1> QED
  BY <1>5, <1>6, <1>7, Zenon DEF OrderInv

\* The worker applies its write: what the buffer still holds is lost or will be.
LEMMA ApplyKeeps ==
  ASSUME OrderInv, Act, ~worker.buffering
  PROVE  OrderInv' /\ last < last'
<1>1. /\ worker # None /\ worker' = None /\ last' = worker.n
      /\ UNCHANGED <<written, unsent, wire, buffer, held, active, jpc, lost>>
  BY Zenon DEF Act, writer, links, snapshot, drain, attempts
<1>2. worker.n \in 1..MaxWrites /\ InHand(worker) = {worker.n} /\ InHand(worker') = {}
  BY <1>1, HandRange, Zenon DEF OrderInv, Types
<1>3. last < worker.n
  BY <1>2, Zenon DEF OrderInv, InOrder, Chain, Below
<1>4. Types'
  BY <1>1, <1>2 DEF OrderInv, Types
<1>5. InOrder'
  <2>1. Chain(worker.n, InHand(held), Nums(buffer), {}, Nums(wire), Nums(unsent), written)
    BY <1>2, Zenon DEF OrderInv, InOrder, Chain, Below
  <2> QED
    BY <1>1, <1>2, <2>1, Zenon DEF OrderInv, InOrder
<1>6. Overtaken'
  <2>1. held = None => InHand(held) = {}
    BY DEF None, InHand
  <2> QED
    BY <1>1, <2>1, Zenon DEF OrderInv, Overtaken
<1> QED
  BY <1>1, <1>3, <1>4, <1>5, <1>6, Zenon DEF OrderInv

\* A new snapshot repairs losses, but not those that wait in the buffer.
LEMMA RequestKeeps ==
  ASSUME OrderInv, Request
  PROVE  OrderInv'
<1>1. /\ jpc = "await" /\ jpc' = "pulling"
      /\ lost' = {n \in lost : \E i \in DOMAIN buffer : buffer[i].n <= n}
      /\ UNCHANGED <<queues, active>>
  BY Zenon DEF Request, goto, queues, writer, links, drain, attempts
<1>2. Nums(buffer) \cap lost \subseteq lost'
  <2>1. \A n \in Nums(buffer) : n \in Int /\ \E i \in DOMAIN buffer : buffer[i].n = n
    BY Numbers, Zenon DEF OrderInv, Nums
  <2> QED
    BY <1>1, <2>1
<1>3. held = None /\ InHand(held) = {}
  BY <1>1 DEF OrderInv, Overtaken, None, InHand
<1>4. Types' /\ InOrder'
  BY <1>1, Zenon DEF OrderInv, Types, InOrder, queues
<1>5. Overtaken'
  BY <1>1, <1>2, <1>3, Zenon DEF OrderInv, Overtaken, queues
<1> QED
  BY <1>4, <1>5, Zenon DEF OrderInv

\* The drain takes the oldest write of the buffer.
LEMMA DrainTakeKeeps ==
  ASSUME OrderInv, DrainTake
  PROVE  OrderInv'
<1> DEFINE w == Head(buffer)
           B == Nums(Tail(buffer))
<1>1. /\ jpc = "drain" /\ jpc' = "apply" /\ buffer # <<>>
      /\ held' = w /\ buffer' = Tail(buffer)
      /\ UNCHANGED <<written, unsent, wire, worker, last, active, lost>>
  BY Zenon DEF DrainTake, goto, writer, links, snapshot, attempts
<1>2. /\ w \in Writes /\ buffer' \in Seq(Writes) /\ Ascending(buffer')
      /\ Nums(buffer) = {w.n} \cup B /\ Below({w.n}, B)
  BY <1>1, NumsTail, Zenon DEF OrderInv, InOrder, Types
<1>3. InHand(held') = {w.n} /\ held' # None
  BY <1>1, <1>2 DEF Writes, InHand, None
<1>4. Types'
  BY <1>1, <1>2, Zenon DEF OrderInv, Types
<1>5. B = Nums(buffer')
  BY <1>1, Zenon
<1> HIDE DEF w, B
<1>6. InOrder'
  <2>1. Chain(last, {w.n}, B, InHand(worker), Nums(wire), Nums(unsent), written)
    BY <1>2, Zenon DEF OrderInv, InOrder, Chain, Below
  <2> QED
    BY <1>1, <1>2, <1>3, <1>5, <2>1, Zenon DEF OrderInv, InOrder
<1>7. Overtaken'
  BY <1>1, <1>2, <1>3, <1>5, Zenon DEF OrderInv, Overtaken
<1> QED
  BY <1>4, <1>6, <1>7, Zenon DEF OrderInv

\* It applies the write, which is newer than the last one unless it is lost.
LEMMA DrainApplyKeeps ==
  ASSUME OrderInv, DrainApply
  PROVE  OrderInv' /\ (lost = {} => last < last')
<1>1. /\ jpc = "apply" /\ jpc' = "drain" /\ last' = held.n /\ held' = None
      /\ UNCHANGED <<written, unsent, wire, worker, buffer, active, lost>>
  BY Zenon DEF DrainApply, goto, writer, links, snapshot, attempts
<1>2. held.n \in 1..MaxWrites /\ InHand(held) = {held.n} /\ InHand(held') = {}
  BY <1>1, HandRange, Zenon DEF OrderInv, Types, Overtaken
<1>3. Types'
  BY <1>1, <1>2 DEF OrderInv, Types
<1>4. InOrder'
  <2>1. Chain(held.n, {}, Nums(buffer), InHand(worker), Nums(wire), Nums(unsent), written)
    BY <1>2, Zenon DEF OrderInv, InOrder, Chain, Below
  <2> QED
    BY <1>1, <1>2, <2>1, Zenon DEF OrderInv, InOrder
<1>5. Overtaken'
  <2>1. \A n \in Nums(buffer) : held.n < n
    BY <1>2, Zenon DEF OrderInv, InOrder, Chain, Below
  <2> QED
    BY <1>1, <1>2, <2>1, Zenon DEF OrderInv, Overtaken
<1> QED
  BY <1>1, <1>2, <1>3, <1>4, <1>5, Zenon DEF OrderInv, Overtaken

\* The drain gives up over a write it could not apply.
LEMMA DrainFailsKeeps ==
  ASSUME OrderInv, DrainFails
  PROVE  OrderInv'
<1>1. /\ jpc = "apply" /\ jpc' = "off" /\ held' = None
      /\ UNCHANGED <<written, unsent, wire, worker, buffer, last, active, lost>>
  BY Zenon DEF DrainFails, goto, writer, links, snapshot
<1>2. InHand(held') = {}
  BY <1>1, Zenon DEF None, InHand
<1>3. Types'
  BY <1>1, Zenon DEF OrderInv, Types
<1>4. InOrder'
  <2>1. Chain(last, {}, Nums(buffer), InHand(worker), Nums(wire), Nums(unsent), written)
    BY Zenon DEF OrderInv, InOrder, Chain, Below
  <2> QED
    BY <1>1, <1>2, <2>1, Zenon DEF OrderInv, InOrder
<1>5. Overtaken'
  BY <1>1, <1>2, Zenon DEF OrderInv, Overtaken
<1> QED
  BY <1>3, <1>4, <1>5, Zenon DEF OrderInv

\* The switch-off wipes what is left in the buffer.
LEMMA ClearKeeps ==
  ASSUME OrderInv, ClearBuffer
  PROVE  OrderInv'
<1>1. /\ jpc = "clear" /\ jpc' \in {"ready", "backoff"} /\ buffer' = <<>>
      /\ UNCHANGED <<written, unsent, wire, worker, held, last, active>>
  BY Zenon DEF ClearBuffer, goto, writer, links, snapshot, drain, attempts
<1>2. Nums(buffer') = {} /\ Ascending(buffer') /\ buffer' \in Seq(Writes)
  BY <1>1, NumsEmpty, EmptySeq, Zenon
<1>3. held = None /\ InHand(held) = {}
  BY <1>1 DEF OrderInv, Overtaken, None, InHand
<1>4. Types'
  BY <1>1, <1>2, Zenon DEF OrderInv, Types
<1>5. InOrder'
  <2>1. Chain(last, InHand(held), {}, InHand(worker), Nums(wire), Nums(unsent), written)
    BY Zenon DEF OrderInv, InOrder, Chain, Below
  <2> QED
    BY <1>1, <1>2, <2>1, Zenon DEF OrderInv, InOrder
<1>6. Overtaken'
  BY <1>1, <1>2, <1>3, Zenon DEF OrderInv, Overtaken
<1> QED
  BY <1>4, <1>5, <1>6, Zenon DEF OrderInv

-----------------------------------------------------------------------------
\* Every step of Bootstrap keeps OrderInv, and a replicated write that it applies
\* is newer than the one before.
LEMMA OrderStep ==
  ASSUME OrderInv, [Next]_vars
  PROVE  OrderInv' /\ (lost = {} /\ last' # last => last' > last)
<1> USE DEF OrderInv
<1>1. last \in Int
  BY Numbers, Zenon
<1>2. CASE Elsewhere
  BY <1>2, ElsewhereKeeps, Zenon DEF Elsewhere, SourceLinks, JoinerLinks, ReadKey, Activate, NextSource,
         AttemptFails, ApplyChunk, SnapshotDone, DrainRest, DrainReturns, FlagOff
<1>3. ASSUME NEW k \in Keys, Write(k) PROVE OrderInv' /\ last' = last
  BY <1>3, WriteKeeps, Zenon DEF Write
<1>4. CASE Send
  BY <1>4, SendKeeps, Zenon DEF Send
<1>5. CASE Take
  BY <1>5, TakeKeeps, Zenon DEF Take
<1>6. CASE Act
  <2>1. CASE worker.buffering
    BY <1>6, <2>1, BufferKeeps, Zenon DEF Act
  <2>2. CASE ~worker.buffering
    <3>1. OrderInv' /\ last < last'
      BY <1>6, <2>2, ApplyKeeps, Zenon
    <3>2. last' \in Int
      BY <3>1 DEF Types
    <3> QED
      BY <1>1, <3>1, <3>2, Zenon
  <2> QED
    BY <2>1, <2>2, Zenon
<1>7. CASE Request
  BY <1>7, RequestKeeps, Zenon DEF Request
<1>8. CASE DrainTake
  BY <1>8, DrainTakeKeeps, Zenon DEF DrainTake
<1>9. CASE DrainApply
  <2>1. OrderInv' /\ (lost = {} => last < last')
    BY <1>9, DrainApplyKeeps, Zenon
  <2>2. last' \in Int
    BY <2>1 DEF Types
  <2> QED
    BY <1>1, <2>1, <2>2, Zenon
<1>10. CASE DrainFails
  BY <1>10, DrainFailsKeeps, Zenon DEF DrainFails
<1>11. CASE ClearBuffer
  BY <1>11, ClearKeeps, Zenon DEF ClearBuffer
<1>12. CASE UNCHANGED vars
  BY <1>12, Zenon DEF vars, writer, drain, Types, InOrder, Overtaken
<1> QED
  BY <1>2, <1>3, <1>4, <1>5, <1>6, <1>7, <1>8, <1>9, <1>10, <1>11, <1>12, Zenon
     DEF Next, Joiner, Worker, Elsewhere

\* The stations keep their order.
LEMMA OrderInvariant == Spec => []OrderInv
<1>1. Init => OrderInv
  <2> SUFFICES ASSUME Init PROVE OrderInv
    BY Zenon
  <2>1. Types
    <3>1. 0 \in 0..MaxWrites
      BY BootstrapAssumption
    <3>2. <<>> \in Seq(Writes)
      BY EmptySeq, Zenon
    <3> QED
      BY <3>1, <3>2, Zenon DEF Init, Types
  <2>2. InHand(None) = {}
    BY Zenon DEF InHand, None
  <2>3. InOrder
    <3>1. Chain(0, {}, {}, {}, {}, {}, 0)
      BY DEF Chain, Below
    <3> QED
      BY <2>2, <3>1, NumsEmpty, Zenon DEF Init, InOrder
  <2>4. Overtaken
    BY <2>2, NumsEmpty, Zenon DEF Init, Overtaken
  <2> QED
    BY <2>1, <2>3, <2>4, Zenon DEF OrderInv
<1>2. OrderInv /\ [Next]_vars => OrderInv'
  BY OrderStep, Zenon
<1> QED
  BY <1>1, <1>2, PTL DEF Spec

\* Replicated writes reach the joiner's store in the order the source made them,
\* unless one was lost, whatever the numbers of keys, writes, attempts and resyncs
\* and the depth of the buffer (SetBootstrapInboundActive, inboundWorkerLoop,
\* DrainBootstrapInboundQueue).
THEOREM WritesInOrder == Spec => AppliedInOrder
<1>1. OrderInv /\ [Next]_vars => [lost = {} /\ last' # last => last' > last]_vars
  BY OrderStep, Zenon
<1> QED
  BY <1>1, OrderInvariant, PTL DEF Spec, AppliedInOrder

-----------------------------------------------------------------------------
(* Types, and the depth of the buffer. *)

Values == Seq(1..MaxWrites)
Chunks == [key : Keys, value : Values]

\* A write applied to a store.
LEMMA ApplyType ==
  ASSUME NEW st \in [Keys -> Values], NEW w \in Writes
  PROVE  applyWireRepl(st, w) \in [Keys -> Values]
<1>1. w.n \in 1..MaxWrites /\ w.key \in Keys /\ st[w.key] \in Values
  BY Zenon DEF Writes
<1>2. Append(st[w.key], w.n) \in Values /\ <<w.n>> \in Values
  BY <1>1, AppendProperties DEF Values
<1> HIDE DEF Values
<1> QED
  BY <1>1, <1>2, Zenon DEF applyWireRepl

\* The source, the links and the snapshot it reads.
LEMMA SourceTypes ==
  ASSUME TypeOK, BootstrapAssumption,
         (\E k \in Keys : Write(k) \/ ReadKey(k)) \/ Send \/ SourceLinks \/ JoinerLinks
  PROVE  TypeOK'
<1>1. ASSUME NEW k \in Keys, Write(k)
      PROVE  TypeOK'
  <2> DEFINE w == [n |-> written + 1, key |-> k]
  <2>1. w \in Writes /\ written' \in 0..MaxWrites
    <3>1. written < MaxWrites /\ written' = w.n /\ written \in 0..MaxWrites
      BY <1>1, Zenon DEF Write, TypeOK
    <3>2. written + 1 \in 1..MaxWrites /\ written + 1 \in 0..MaxWrites
      BY <3>1, BootstrapAssumption
    <3>3. w \in Writes /\ w.n = written + 1
      BY <3>2, Zenon DEF Writes
    <3> QED
      BY <3>1, <3>2, <3>3, Zenon
  <2>2. source' \in [Keys -> Values] /\ unsent' \in Seq(Writes)
    BY <1>1, <2>1, ApplyType, AppendProperties, Zenon DEF Write, TypeOK, Values
  <2> QED
    BY <1>1, <2>1, <2>2 DEF Write, TypeOK, Values, links, snapshot, drain, attempts
<1>2. ASSUME NEW k \in Keys, ReadKey(k)
      PROVE  TypeOK'
  <2>1. source[k] \in Values /\ [key |-> k, value |-> source[k]] \in Chunks
    BY Zenon DEF TypeOK, Values, Chunks
  <2>2. chunks' \in Seq(Chunks) /\ toRead' \subseteq Keys
    BY <1>2, <2>1, AppendProperties, Zenon DEF ReadKey, TypeOK, Values, Chunks
  <2> QED
    BY <1>2, <2>2 DEF ReadKey, TypeOK, Values, Chunks, writer, links, drain, attempts
<1>3. CASE Send
  <2>1. Head(unsent) \in Writes /\ unsent' \in Seq(Writes)
    BY <1>3, HeadTailProperties, Zenon DEF Send, TypeOK
  <2>2. wire' \in Seq(Writes) /\ lost' \subseteq 1..MaxWrites
    BY <1>3, <2>1, AppendProperties, Zenon DEF Send, TypeOK, Writes
  <2> QED
    BY <1>3, <2>1, <2>2 DEF Send, TypeOK, links, snapshot, drain, attempts
<1>4. CASE SourceLinks \/ JoinerLinks
  BY <1>4, Zenon DEF SourceLinks, JoinerLinks, TypeOK, writer, snapshot, drain, attempts
<1> QED
  BY <1>1, <1>2, <1>3, <1>4, Zenon

\* The worker.
LEMMA WorkerTypes ==
  ASSUME TypeOK, BootstrapAssumption, Worker
  PROVE  TypeOK'
<1>1. CASE Take
  <2>1. Head(wire) \in Writes /\ wire' \in Seq(Writes)
    BY <1>1, HeadTailProperties, Zenon DEF Take, TypeOK
  <2>2. worker' \in Taken
    BY <1>1, <2>1, Zenon DEF Take, TypeOK, Writes, Taken
  <2> QED
    BY <1>1, <2>1, <2>2, Zenon DEF Take, TypeOK, Taken, writer, links, snapshot, drain, attempts
<1>2. CASE Act
  <2> DEFINE w == [n |-> worker.n, key |-> worker.key]
  <2>1. w \in Writes /\ w.n \in 1..MaxWrites
    BY <1>2, Zenon DEF Act, TypeOK, Writes
  <2>2. worker' \in {None}
    BY <1>2, Zenon DEF Act
  <2>3. CASE worker.buffering /\ enqueueBootstrapRepl(w) /\ UNCHANGED <<store, last>>
    <3>1. /\ buffer' \in Seq(Writes) /\ Len(buffer') <= QueueDepth
          /\ lost' \subseteq 1..MaxWrites
      <4>1. CASE Len(buffer) >= QueueDepth
        BY <2>1, <2>3, <4>1, Zenon DEF enqueueBootstrapRepl, TypeOK
      <4>2. CASE ~(Len(buffer) >= QueueDepth)
        <5>1. Len(buffer) \in Nat /\ Len(Append(buffer, w)) = Len(buffer) + 1
              /\ Append(buffer, w) \in Seq(Writes)
          BY <2>1, AppendProperties, LenProperties DEF TypeOK
        <5>2. buffer' = Append(buffer, w) /\ lost' \subseteq lost \cup {w.n}
          BY <2>3, <4>2, Zenon DEF enqueueBootstrapRepl
        <5>3. Len(buffer) + 1 <= QueueDepth
          BY <4>2, <5>1, BootstrapAssumption
        <5> HIDE DEF w
        <5> QED
          BY <2>1, <5>1, <5>2, <5>3, Zenon DEF TypeOK
      <4> QED
        BY <4>1, <4>2, Zenon
    <3> QED
      BY <1>2, <2>2, <2>3, <3>1, SMTT(30) DEF Act, TypeOK, writer, links, snapshot, drain, attempts
  <2>4. CASE /\ ~worker.buffering /\ store' = applyWireRepl(store, w) /\ last' = w.n
             /\ UNCHANGED <<buffer, lost>>
    <3>1. store' \in [Keys -> Values]
      BY <2>1, <2>4, ApplyType, Zenon DEF TypeOK, Values
    <3>2. last' \in 0..MaxWrites
      BY <2>1, <2>4
    <3> QED
      BY <1>2, <2>2, <2>4, <3>1, <3>2 DEF Act, TypeOK, Values, writer, links, snapshot, drain, attempts
  <2> QED
    BY <1>2, <2>3, <2>4, Zenon DEF Act
<1> QED
  BY <1>1, <1>2, Zenon DEF Worker

\* The joiner's goroutine, up to the end of the snapshot.
LEMMA PullTypes ==
  ASSUME TypeOK, BootstrapAssumption,
         Activate \/ Request \/ NextSource \/ AttemptFails \/ ApplyChunk \/ SnapshotDone
  PROVE  TypeOK'
<1>1. Empty \in [Keys -> Values] /\ <<>> \in Seq(Chunks)
  BY DEF Empty, Values
<1>2. CASE Activate
  <2>1. syncs' \in 0..MaxSyncs - 1
    BY <1>2, BootstrapAssumption DEF Activate, TypeOK
  <2> QED
    BY <1>2, <2>1 DEF Activate, goto, TypeOK, writer, links, snapshot, drain
<1>3. CASE Request
  BY <1>1, <1>3, Zenon DEF Request, goto, TypeOK, Values, writer, links, drain, attempts
<1>4. CASE NextSource
  <2>1. fails' \in 0..MaxFails
    BY <1>4, BootstrapAssumption DEF NextSource, TypeOK
  <2>2. store' \in [Keys -> Values] /\ toRead' \subseteq Keys /\ chunks' \in Seq(Chunks)
    BY <1>1, <1>4, Zenon DEF NextSource, TypeOK, Values
  <2> QED
    BY <1>4, <2>1, <2>2 DEF NextSource, goto, TypeOK, Values, Chunks, writer, links, drain
<1>5. CASE AttemptFails
  <2>1. fails' \in 0..MaxFails
    BY <1>5, BootstrapAssumption DEF AttemptFails, TypeOK
  <2>2. store' \in [Keys -> Values] /\ toRead' \subseteq Keys /\ chunks' \in Seq(Chunks)
    BY <1>1, <1>5, Zenon DEF AttemptFails, TypeOK, Values
  <2> QED
    BY <1>5, <2>1, <2>2, Zenon DEF AttemptFails, goto, TypeOK, Values, Chunks, writer, links, drain
<1>6. CASE ApplyChunk
  <2>1. Head(chunks) \in Chunks /\ chunks' \in Seq(Chunks)
    BY <1>6, HeadTailProperties, Zenon DEF ApplyChunk, TypeOK, Chunks, Values
  <2>2. store' \in [Keys -> Values]
    BY <1>6, <2>1, Zenon DEF ApplyChunk, TypeOK, Chunks, Values
  <2> QED
    BY <1>6, <2>1, <2>2, Zenon DEF ApplyChunk, TypeOK, Chunks, Values, writer, links, drain, attempts
<1>7. CASE SnapshotDone
  <2>1. round' \in 0..DrainRounds - 1
    BY <1>7, BootstrapAssumption DEF SnapshotDone
  <2> QED
    BY <1>7, <2>1, Zenon DEF SnapshotDone, goto, TypeOK, writer, links, snapshot, attempts
<1> QED
  BY <1>2, <1>3, <1>4, <1>5, <1>6, <1>7, Zenon

\* The joiner's goroutine, from the drain on.  Only in "apply" is a write held.
LEMMA DrainTypes ==
  ASSUME TypeOK, BootstrapAssumption, Overtaken,
         DrainTake \/ DrainApply \/ DrainFails \/ DrainRest \/ DrainReturns \/ FlagOff \/ ClearBuffer
  PROVE  TypeOK'
<1>1. CASE DrainTake
  <2>1. /\ Head(buffer) \in Writes /\ Tail(buffer) \in Seq(Writes)
        /\ Len(Tail(buffer)) = Len(buffer) - 1 /\ Len(buffer) \in Nat
    BY <1>1, HeadTailProperties, LenProperties, Zenon DEF DrainTake, TypeOK
  <2>2. Len(buffer') <= QueueDepth
    BY <1>1, <2>1, BootstrapAssumption, SMTT(30) DEF DrainTake, TypeOK
  <2> QED
    BY <1>1, <2>1, <2>2, Zenon DEF DrainTake, goto, TypeOK, writer, links, snapshot, attempts
<1>2. CASE DrainApply
  <2>1. held \in Writes /\ held.n \in 1..MaxWrites
    BY <1>2, Zenon DEF DrainApply, Overtaken, TypeOK, Writes
  <2>2. store' \in [Keys -> Values]
    BY <1>2, <2>1, ApplyType, Zenon DEF DrainApply, TypeOK, Values
  <2>3. last' \in 0..MaxWrites
    BY <1>2, <2>1 DEF DrainApply
  <2> QED
    BY <1>2, <2>2, <2>3, Zenon DEF DrainApply, goto, TypeOK, Values, writer, links, snapshot, attempts
<1>3. CASE DrainFails
  <2>1. fails' \in 0..MaxFails /\ round' \in 0..DrainRounds - 1
    BY <1>3, BootstrapAssumption DEF DrainFails, TypeOK
  <2> QED
    BY <1>3, <2>1, Zenon DEF DrainFails, goto, TypeOK, writer, links, snapshot
<1>4. CASE DrainRest
  <2>1. round' \in 0..DrainRounds - 1
    BY <1>4, BootstrapAssumption DEF DrainRest, TypeOK
  <2> QED
    BY <1>4, <2>1, Zenon DEF DrainRest, TypeOK, writer, links, snapshot, attempts
<1>5. CASE DrainReturns
  <2>1. round' \in 0..DrainRounds - 1
    BY <1>5, BootstrapAssumption DEF DrainReturns
  <2> QED
    BY <1>5, <2>1, Zenon DEF DrainReturns, goto, TypeOK, writer, links, snapshot
<1>6. CASE FlagOff
  BY <1>6, Zenon DEF FlagOff, goto, TypeOK, writer, links, snapshot, drain, attempts
<1>7. CASE ClearBuffer
  <2>1. <<>> \in Seq(Writes) /\ Len(<<>>) = 0
    OBVIOUS
  <2>2. {buffer[i].n : i \in DOMAIN buffer} \subseteq 1..MaxWrites
    BY NumsRange, Zenon DEF Nums, TypeOK
  <2>3. buffer' \in Seq(Writes) /\ Len(buffer') <= QueueDepth
    BY <1>7, <2>1, BootstrapAssumption, SMTT(30) DEF ClearBuffer
  <2>4. lost' \subseteq 1..MaxWrites
    BY <1>7, <2>2, Zenon DEF ClearBuffer, TypeOK
  <2>5. jpc' \in {"ready", "backoff"}
    BY <1>7, Zenon DEF ClearBuffer, goto
  <2> QED
    BY <1>7, <2>3, <2>4, <2>5, SMTT(30) DEF ClearBuffer, TypeOK, writer, links, snapshot, drain, attempts
<1> QED
  BY <1>1, <1>2, <1>3, <1>4, <1>5, <1>6, <1>7, Zenon

(* Every variable keeps its type, and the buffer never holds more writes   *)
(* than bootstrap_queue_depth (enqueueBootstrapRepl).                      *)
THEOREM TypeCorrect == Spec => []TypeOK
<1>1. Init => TypeOK
  <2>1. /\ Empty \in [Keys -> Seq(1..MaxWrites)] /\ <<>> \in Seq(Writes) /\ Len(<<>>) = 0
        /\ <<>> \in Seq([key : Keys, value : Seq(1..MaxWrites)])
    BY DEF Empty
  <2>2. /\ 0 \in 0..MaxWrites /\ 0 \in 0..DrainRounds - 1 /\ 0 \in 0..MaxSyncs - 1
        /\ 0 \in 0..MaxFails /\ 0 <= QueueDepth
    BY BootstrapAssumption
  <2> QED
    BY <2>1, <2>2, Zenon DEF Init, TypeOK
<1>2. TypeOK /\ OrderInv /\ [Next]_vars => TypeOK'
  <2> SUFFICES ASSUME TypeOK, OrderInv, [Next]_vars
               PROVE  TypeOK'
    BY Zenon
  <2>1. CASE (\E k \in Keys : Write(k) \/ ReadKey(k)) \/ Send \/ SourceLinks \/ JoinerLinks
    BY <2>1, SourceTypes, BootstrapAssumption, Zenon
  <2>2. CASE Worker
    BY <2>2, WorkerTypes, BootstrapAssumption, Zenon
  <2>3. CASE Joiner
    BY <2>3, PullTypes, DrainTypes, BootstrapAssumption, Zenon DEF Joiner, OrderInv
  <2>4. CASE UNCHANGED vars
    BY <2>4 DEF vars, TypeOK, writer, links, snapshot, drain, attempts
  <2> QED
    BY <2>1, <2>2, <2>3, <2>4, Zenon DEF Next
<1> QED
  BY <1>1, <1>2, OrderInvariant, PTL DEF Spec

-----------------------------------------------------------------------------
(* Values of keys.  A value is the numbers of the writes it shows.         *)

Shows(v) == {v[i] : i \in DOMAIN v}
Rises(v) == \A i, j \in DOMAIN v : i < j => v[i] < v[j]

\* What a value shows for the first time is newer than all it shows before.
Rising(v) ==
  \A i, j \in DOMAIN v : i < j /\ v[j] <= v[i] => \E h \in DOMAIN v : h < j /\ v[h] = v[j]

\* Nothing in v is newer than what u shows.
AtMost(v, u) == \A m \in Shows(v) : \E n \in Shows(u) : m <= n

\* What a value shows after a write more.
LEMMA ShowsAppend ==
  ASSUME NEW v \in Values, NEW n \in 1..MaxWrites
  PROVE  /\ Append(v, n) \in Values
         /\ Shows(Append(v, n)) = Shows(v) \cup {n}
         /\ Len(Append(v, n)) = Len(v) + 1 /\ DOMAIN Append(v, n) = 1 .. Len(v) + 1
         /\ DOMAIN v = 1 .. Len(v) /\ Len(v) \in Nat
         /\ Append(v, n)[Len(v) + 1] = n
         /\ \A i \in DOMAIN v : Append(v, n)[i] = v[i]
<1> DEFINE t == Append(v, n)
<1>1. /\ t \in Values /\ Len(t) = Len(v) + 1
      /\ \A i \in 1 .. Len(v) : t[i] = v[i]
      /\ t[Len(v) + 1] = n
  BY AppendProperties DEF Values
<1>2. Len(v) \in Nat /\ DOMAIN v = 1 .. Len(v) /\ DOMAIN t = 1 .. Len(v) + 1
  BY <1>1, LenProperties, Zenon DEF Values
<1> HIDE DEF t
<1>3. Shows(t) = Shows(v) \cup {n}
  BY <1>1, <1>2 DEF Shows
<1> QED
  BY <1>1, <1>2, <1>3, Zenon DEF t

\* A value is a finite list of numbers.
LEMMA ValueList ==
  /\ <<>> \in Values
  /\ \A v \in Values : /\ Len(v) \in Nat /\ DOMAIN v = 1 .. Len(v)
                       /\ \A i \in DOMAIN v : v[i] \in 1..MaxWrites /\ v[i] \in Int
<1>1. <<>> \in Values
  BY EmptySeq, Zenon DEF Values
<1>2. ASSUME NEW v \in Values
      PROVE  /\ Len(v) \in Nat /\ DOMAIN v = 1 .. Len(v)
             /\ \A i \in DOMAIN v : v[i] \in 1..MaxWrites
  BY LenProperties, ElementOfSeq, Zenon DEF Values
<1> QED
  BY <1>1, <1>2

\* A value shows numbers of writes.
LEMMA ShowsNumbers == ASSUME NEW v \in Values PROVE Shows(v) \subseteq 1..MaxWrites
<1>1. \A i \in DOMAIN v : v[i] \in 1..MaxWrites
  BY LenProperties, ElementOfSeq, Zenon DEF Values
<1> QED
  BY <1>1, Zenon DEF Shows

\* The value of a key after one write, and the value of none.
LEMMA ShowsOne ==
  /\ \A n : Shows(<<n>>) = {n} /\ Len(<<n>>) = 1 /\ Rises(<<n>>) /\ Rising(<<n>>)
  /\ Shows(<<>>) = {} /\ Len(<<>>) = 0 /\ Rises(<<>>) /\ Rising(<<>>)
<1>1. ASSUME NEW n PROVE Shows(<<n>>) = {n} /\ Len(<<n>>) = 1 /\ Rises(<<n>>) /\ Rising(<<n>>)
  <2>1. DOMAIN <<n>> = {1} /\ <<n>>[1] = n /\ Len(<<n>>) = 1
    OBVIOUS
  <2> QED
    BY <2>1 DEF Shows, Rises, Rising
<1>2. Shows(<<>>) = {} /\ Len(<<>>) = 0 /\ Rises(<<>>) /\ Rising(<<>>)
  BY DEF Shows, Rises, Rising
<1> QED
  BY <1>1, <1>2, Zenon

\* A write newer than all of a value keeps it rising strictly.
LEMMA RisesAppend ==
  ASSUME NEW v \in Values, NEW n \in 1..MaxWrites, Rises(v), \A m \in Shows(v) : m < n
  PROVE  Rises(Append(v, n))
<1> DEFINE t == Append(v, n)
<1>1. /\ DOMAIN t = 1 .. Len(v) + 1 /\ DOMAIN v = 1 .. Len(v) /\ Len(v) \in Nat
      /\ t[Len(v) + 1] = n /\ \A i \in DOMAIN v : t[i] = v[i]
  BY ShowsAppend, Zenon
<1>2. \A i \in DOMAIN v : v[i] < n
  BY Zenon DEF Shows
<1> HIDE DEF t
<1>3. Rises(t)
  <2> SUFFICES ASSUME NEW i \in DOMAIN t, NEW j \in DOMAIN t, i < j PROVE t[i] < t[j]
    BY Zenon DEF Rises
  <2>1. i \in DOMAIN v
    BY <1>1
  <2>2. CASE j = Len(v) + 1
    BY <1>1, <1>2, <2>1, <2>2, Zenon
  <2>3. CASE j # Len(v) + 1
    BY <1>1, <2>1, <2>3 DEF Rises
  <2> QED
    BY <2>2, <2>3, Zenon
<1> QED
  BY <1>3, Zenon DEF t

\* A write that is shown already, or newer than all that is, keeps it rising.
LEMMA RisingAppend ==
  ASSUME NEW v \in Values, NEW n \in 1..MaxWrites, Rising(v),
         n \in Shows(v) \/ \A m \in Shows(v) : m < n
  PROVE  Rising(Append(v, n))
<1> DEFINE t == Append(v, n)
<1>1. /\ DOMAIN t = 1 .. Len(v) + 1 /\ DOMAIN v = 1 .. Len(v) /\ Len(v) \in Nat
      /\ t[Len(v) + 1] = n /\ \A i \in DOMAIN v : t[i] = v[i]
  BY ShowsAppend, Zenon
<1>2. \A i \in DOMAIN v : v[i] \in Shows(v) /\ v[i] \in 1..MaxWrites
  BY ShowsNumbers, Zenon DEF Shows
<1> HIDE DEF t
<1>3. Rising(t)
  <2> SUFFICES ASSUME NEW i \in DOMAIN t, NEW j \in DOMAIN t, i < j, t[j] <= t[i]
               PROVE  \E h \in DOMAIN t : h < j /\ t[h] = t[j]
    BY Zenon DEF Rising
  <2>1. i \in DOMAIN v /\ t[i] = v[i]
    BY <1>1
  <2>2. CASE j = Len(v) + 1
    <3>1. n <= v[i] /\ v[i] \in Shows(v) /\ v[i] \in 1..MaxWrites
      BY <1>1, <1>2, <2>1, <2>2, Zenon
    <3>2. n \in Shows(v)
      BY <3>1
    <3>3. PICK h \in DOMAIN v : v[h] = n
      BY <3>2, Zenon DEF Shows
    <3> QED
      BY <1>1, <2>2, <3>3
  <2>3. CASE j # Len(v) + 1
    <3>1. j \in DOMAIN v /\ v[j] <= v[i]
      BY <1>1, <2>1, <2>3
    <3>2. PICK h \in DOMAIN v : h < j /\ v[h] = v[j]
      BY <2>1, <3>1, Zenon DEF Rising
    <3> QED
      BY <1>1, <3>1, <3>2
  <2> QED
    BY <2>2, <2>3, Zenon
<1> QED
  BY <1>3, Zenon DEF t

\* v is a copy of what the source shows of k, s, that the writes in C are yet to
\* complete: it shows its writes first in order, and none before an older one.
Copy(k, v, s, C) ==
  /\ Rising(v)
  /\ k \in Lists => Shows(v) \subseteq Shows(s)
  /\ k \notin Lists => Len(v) <= 1
  /\ \A m \in Shows(v), n \in Shows(s) : n < m => n \in Shows(v)
  /\ \A n \in Shows(s) : n \in Shows(v) \/ n \in C

\* The value that a write leaves of v.
After(k, v, n) == IF k \in Lists THEN Append(v, n) ELSE <<n>>

\* A snapshot entry is a copy when it is read.
LEMMA CopyRead ==
  ASSUME NEW k, NEW s \in Values, NEW C, Rises(s), k \notin Lists => Len(s) <= 1
  PROVE  Copy(k, s, s, C)
<1>1. Rising(s)
  <2>1. \A i \in DOMAIN s : s[i] \in Int
    BY ShowsNumbers DEF Shows
  <2> QED
    BY <2>1 DEF Rising, Rises
<1> QED
  BY <1>1, Zenon DEF Copy

\* Other writes may come.
LEMMA CopyMore ==
  ASSUME NEW k, NEW v, NEW s, NEW C, NEW E, Copy(k, v, s, C), C \cap Shows(s) \subseteq E
  PROVE  Copy(k, v, s, E)
BY Zenon DEF Copy

\* The source makes a write: it is to come.
LEMMA CopyWrite ==
  ASSUME NEW k, NEW v \in Values, NEW s \in Values, NEW C, NEW E, NEW n \in 1..MaxWrites,
         Copy(k, v, s, C), C \subseteq E, n \in E,
         \A m \in Shows(v) \cup Shows(s) : m < n
  PROVE  Copy(k, v, After(k, s, n), E)
<1>1. Shows(v) \subseteq 1..MaxWrites
  BY ShowsNumbers, Zenon
<1>2. CASE k \in Lists
  <2> DEFINE t == Append(s, n)
  <2>1. Shows(t) = Shows(s) \cup {n}
    BY ShowsAppend, Zenon
  <2> HIDE DEF t
  <2>2. \A m \in Shows(v), i \in Shows(t) : i < m => i \in Shows(v)
    BY <1>1, <2>1 DEF Copy
  <2>3. \A i \in Shows(t) : i \in Shows(v) \/ i \in E
    BY <2>1, Zenon DEF Copy
  <2>4. Copy(k, v, t, E)
    BY <1>2, <2>1, <2>2, <2>3, Zenon DEF Copy
  <2> QED
    BY <1>2, <2>4, Zenon DEF After, t
<1>3. CASE k \notin Lists
  <2> DEFINE t == <<n>>
  <2>1. Shows(t) = {n}
    BY ShowsOne, Zenon
  <2> HIDE DEF t
  <2>2. Copy(k, v, t, E)
    BY <1>1, <1>3, <2>1 DEF Copy
  <2> QED
    BY <1>3, <2>2, Zenon DEF After, t
<1> QED
  BY <1>2, <1>3, Zenon

\* A write is applied to the copy, the oldest of those to come or one of an older
\* attempt; one of a list's is on the list, and a SET of a key is not the last to come.
LEMMA CopyApply ==
  ASSUME NEW k, NEW v \in Values, NEW s \in Values, NEW C \in SUBSET Int, NEW E,
         NEW n \in 1..MaxWrites,
         Copy(k, v, s, C),
         \A c \in C : n <= c /\ (c = n \/ c \in E),
         k \in Lists => n \in Shows(s),
         k \notin Lists => Len(s) <= 1,
         \E m \in Shows(s) : n <= m,
         \A m \in Shows(s) : n < m => m \in E
  PROVE  Copy(k, After(k, v, n), s, E)
<1>1. Shows(v) \subseteq 1..MaxWrites /\ Shows(s) \subseteq 1..MaxWrites
  BY ShowsNumbers, Zenon
<1>2. CASE k \in Lists
  <2> DEFINE t == Append(v, n)
  <2>1. Shows(t) = Shows(v) \cup {n}
    BY ShowsAppend, Zenon
  <2>2. n \in Shows(v) \/ \A m \in Shows(v) : m < n
    BY <1>1, <1>2 DEF Copy
  <2>3. Rising(t)
    BY <2>2, RisingAppend, Zenon DEF Copy
  <2> HIDE DEF t
  <2>4. \A m \in Shows(t), i \in Shows(s) : i < m => i \in Shows(t)
    BY <1>1, <1>2, <2>1 DEF Copy
  <2>5. Copy(k, t, s, E)
    BY <1>1, <1>2, <2>1, <2>3, <2>4, Zenon DEF Copy
  <2> QED
    BY <1>2, <2>5, Zenon DEF After, t
<1>3. CASE k \notin Lists
  <2> DEFINE t == <<n>>
  <2>1. Shows(t) = {n} /\ Len(t) = 1 /\ Rising(t)
    BY ShowsOne, Zenon
  <2> HIDE DEF t
  <2>2. \A i, j \in Shows(s) : i = j
    <3>1. Len(s) \in Nat /\ DOMAIN s = 1 .. Len(s) /\ Len(s) <= 1
      BY <1>3, LenProperties, Zenon DEF Values
    <3>2. \A i, j \in DOMAIN s : i = j
      BY <3>1
    <3> QED
      BY <3>2, Zenon DEF Shows
  <2>3. Copy(k, t, s, E)
    BY <1>1, <1>3, <2>1, <2>2 DEF Copy
  <2> QED
    BY <1>3, <2>3, Zenon DEF After, t
<1> QED
  BY <1>2, <1>3, Zenon

-----------------------------------------------------------------------------
(* What FirstShown computes, turn by turn. *)

\* A set of numbers has a least one.
LEMMA Least == ASSUME NEW T \in SUBSET Nat, T # {} PROVE \E n \in T : \A m \in T : n <= m
<1> DEFINE R == OpToRel(<, Nat)
<1>1. IsWellFoundedOn(R, Nat)
  BY NatLessThanWellFounded, Zenon
<1>2. \A i, j \in Nat : i < j => <<i, j>> \in R
  BY Zenon DEF OpToRel
<1> HIDE DEF R
<1>3. PICK x \in T : \A y \in T : ~ (<<y, x>> \in R)
  BY <1>1, WFMin, Zenon
<1>4. ASSUME NEW y \in T PROVE x <= y
  <2>1. x \in Nat /\ y \in Nat
    BY Zenon
  <2>2. ~(y < x)
    BY <1>2, <1>3, <2>1, Zenon
  <2> QED
    BY <2>1, <2>2
<1> QED
  BY <1>4, Zenon

\* What holds before the first turn and is kept by every turn holds after the last.
LEMMA Turns ==
  ASSUME NEW n \in Nat, NEW A \in SUBSET (0 .. n), 0 \in A, \A i \in 1 .. n : i - 1 \in A => i \in A
  PROVE  \A i \in 0 .. n : i \in A
<1> SUFFICES ASSUME {i \in 0 .. n : i \notin A} # {} PROVE FALSE
  BY Zenon
<1> DEFINE T == {i \in 0 .. n : i \notin A}
<1>0. T \in SUBSET Nat /\ T # {}
  OBVIOUS
<1>1. PICK i \in T : \A j \in T : i <= j
  <2> HIDE DEF T
  <2> QED
    BY <1>0, Least, Zenon
<1>2. i \in 1 .. n /\ i - 1 \in 0 .. n /\ i - 1 \notin T
  BY <1>1
<1> QED
  BY <1>1, <1>2, Zenon

\* Turn i makes step[<<i, x>>] of the x that the turns before it have made.
IsStep(step, n, S) == step \in [(1 .. n) \X S -> S]
IsLoop(f, n, S, x0, step) ==
    f \in [0 .. n -> S] /\ f[0] = x0 /\ \A i \in 1 .. n : f[i] = step[<<i, f[i - 1]>>]

\* A loop has a result.
LEMMA LoopRuns ==
  ASSUME NEW n \in Nat, NEW S, NEW x0 \in S, NEW step, IsStep(step, n, S)
  PROVE  \E f : IsLoop(f, n, S, x0, step)
<1> DEFINE Runs(m) == \E f \in [0 .. m -> S] : f[0] = x0 /\ \A i \in 1 .. m : f[i] = step[<<i, f[i - 1]>>]
           A == {m \in 0 .. n : Runs(m)}
<1>0. step \in [(1 .. n) \X S -> S]
  BY Zenon DEF IsStep
<1>1. 0 \in A
  <2> DEFINE h == [i \in 0 .. 0 |-> x0]
  <2>1. h \in [0 .. 0 -> S] /\ h[0] = x0 /\ \A i \in 1 .. 0 : FALSE
    OBVIOUS
  <2> HIDE DEF h
  <2>2. Runs(0)
    BY <2>1, Zenon
  <2> HIDE DEF Runs
  <2> QED
    BY <2>2
<1>2. ASSUME NEW m \in 1 .. n, m - 1 \in A PROVE m \in A
  <2>1. PICK g \in [0 .. m - 1 -> S] : g[0] = x0 /\ \A i \in 1 .. m - 1 : g[i] = step[<<i, g[i - 1]>>]
    BY <1>2, Zenon
  <2>2. g[m - 1] \in S /\ step[<<m, g[m - 1]>>] \in S
    BY <1>0, <2>1
  <2> DEFINE f == [i \in 0 .. m |-> IF i = m THEN step[<<m, g[m - 1]>>] ELSE g[i]]
  <2>3. f \in [0 .. m -> S]
    BY <2>1, <2>2
  <2>4. f[0] = x0
    BY <2>1, SMTT(30)
  <2>5. ASSUME NEW i \in 1 .. m PROVE f[i] = step[<<i, f[i - 1]>>]
    <3>1. i - 1 \in 0 .. m - 1 /\ f[i - 1] = g[i - 1]
      OBVIOUS
    <3>2. CASE i = m
      <4>1. f[m] = step[<<m, g[m - 1]>>]
        OBVIOUS
      <4> HIDE DEF f
      <4> QED
        BY <3>1, <3>2, <4>1, Zenon
    <3>3. CASE i # m
      <4>1. i \in 1 .. m - 1 /\ f[i] = g[i]
        BY <3>3
      <4> QED
        BY <2>1, <3>1, <4>1, Zenon
    <3> QED
      BY <3>2, <3>3, Zenon
  <2> HIDE DEF f
  <2>6. Runs(m)
    BY <2>3, <2>4, <2>5, Zenon
  <2> QED
    BY <2>6
<1> HIDE DEF A
<1>3. A \in SUBSET (0 .. n)
  BY Zenon DEF A
<1>4. \A i \in 0 .. n : i \in A
  BY <1>1, <1>2, <1>3, Turns, Zenon
<1> QED
  BY <1>4 DEF A, IsLoop

Shown(f, v) ==
  /\ f \in [0 .. Len(v) -> Values] /\ f[0] = <<>>
  /\ \A i \in 1 .. Len(v) :
       f[i] = IF \E j \in 1 .. i - 1 : v[j] = v[i] THEN f[i - 1] ELSE Append(f[i - 1], v[i])

\* FirstShown is a loop over the value.
LEMMA FirstShownLoop ==
  ASSUME NEW v \in Values
  PROVE  \E f : Shown(f, v) /\ FirstShown(v) = f[Len(v)]
<1> DEFINE n == Len(v)
           e == <<>>
           Add(i, y) == IF \E j \in 1 .. i - 1 : v[j] = v[i] THEN y ELSE Append(y, v[i])
           Turn(g) == [i \in 0 .. n |-> IF i = 0 THEN e ELSE Add(i, g[i - 1])]
           out == CHOOSE g : g = Turn(g)
           step == [p \in (1 .. n) \X Values |-> Add(p[1], p[2])]
<1>1. n \in Nat /\ e \in Values /\ \A i \in 1 .. n : v[i] \in 1..MaxWrites
  BY ValueList, Zenon
<1>2. FirstShown(v) = out[n]
  <2>1. \A g : Turn(g) = [i \in 0 .. n |-> IF i = 0 THEN e
                         ELSE IF \E j \in 1 .. i - 1 : v[j] = v[i] THEN g[i - 1]
                         ELSE Append(g[i - 1], v[i])]
    BY Zenon
  <2> QED
    BY <2>1, Zenon DEF FirstShown
<1>3. \A i \in 1 .. n, y \in Values : Add(i, y) \in Values
  <2>1. \A i \in 1 .. n, y \in Values : Append(y, v[i]) \in Values
    BY <1>1, ShowsAppend, Zenon
  <2> QED
    BY <2>1, Zenon
<1> HIDE DEF Add, n, e
<1>4. step \in [(1 .. n) \X Values -> Values] /\ \A i \in 1 .. n, y \in Values : step[<<i, y>>] = Add(i, y)
  BY <1>3, Zenon
<1> HIDE DEF step
<1>a. PICK f : IsLoop(f, n, Values, e, step)
  <2>1. IsStep(step, n, Values)
    BY <1>4, Zenon DEF IsStep
  <2> QED
    BY <1>1, <2>1, LoopRuns, Zenon
<1>5. f \in [0 .. n -> Values] /\ f[0] = e /\ \A i \in 1 .. n : f[i] = step[<<i, f[i - 1]>>]
  BY <1>a, Zenon DEF IsLoop
<1>6. f = Turn(f)
  <2>1. \A i \in 1 .. n : i - 1 \in 0 .. n
    BY <1>1
  <2>2. \A i \in 1 .. n : f[i] = Add(i, f[i - 1])
    BY <1>4, <1>5, <2>1, Zenon
  <2>3. \A i \in 0 .. n : f[i] = IF i = 0 THEN e ELSE Add(i, f[i - 1])
    BY <1>1, <1>5, <2>2
  <2> QED
    BY <1>5, <2>3, Zenon
<1>7. out = Turn(out)
  BY <1>6, Zenon
<1> HIDE DEF out
<1>8. out[0] = e /\ \A i \in 1 .. n : out[i] = Add(i, out[i - 1])
  <2>1. \A i \in 0 .. n : out[i] = IF i = 0 THEN e ELSE Add(i, out[i - 1])
    BY <1>7, Zenon
  <2> QED
    BY <1>1, <2>1
<1>9. \A i \in 0 .. n : out[i] \in Values
  <2> DEFINE A == {i \in 0 .. n : out[i] \in Values}
  <2>1. 0 \in A /\ \A i \in 1 .. n : i - 1 \in A => i \in A
    BY <1>1, <1>3, <1>8
  <2>2. A \in SUBSET (0 .. n)
    BY Zenon
  <2> HIDE DEF A
  <2>3. \A i \in 0 .. n : i \in A
    BY <1>1, <2>1, <2>2, Turns, Zenon
  <2> QED
    BY <2>3, Zenon DEF A
<1>10. out \in [0 .. n -> Values]
  <2>1. DOMAIN out = 0 .. n /\ out = [i \in DOMAIN out |-> out[i]]
    BY <1>7, Zenon
  <2> QED
    BY <1>9, <2>1, Zenon
<1> QED
  BY <1>2, <1>8, <1>10, Zenon DEF n, e, Add, Shown

\* The first showings of a rising value are in order, and are all of it.
LEMMA FirstShownRises ==
  ASSUME NEW v \in Values, Rising(v)
  PROVE  FirstShown(v) \in Values /\ Rises(FirstShown(v)) /\ Shows(FirstShown(v)) = Shows(v)
<1>1. PICK f : Shown(f, v) /\ FirstShown(v) = f[Len(v)]
  BY FirstShownLoop, Zenon
<1> DEFINE n == Len(v)
           A == {i \in 0 .. n : Rises(f[i]) /\ Shows(f[i]) = Upto(v, i)}
<1>0. n \in Nat /\ DOMAIN v = 1 .. n /\ \A i \in 1 .. n : v[i] \in 1..MaxWrites
  BY ValueList, Zenon
<1>2. /\ n \in Nat /\ DOMAIN v = 1 .. n /\ n \in 0 .. n
      /\ \A i \in 1 .. n : v[i] \in 1..MaxWrites /\ i - 1 \in 0 .. n
      /\ \A i \in 0 .. n : f[i] \in Values
      /\ f[0] = <<>>
      /\ \A i \in 1 .. n :
           f[i] = IF \E j \in 1 .. i - 1 : v[j] = v[i] THEN f[i - 1] ELSE Append(f[i - 1], v[i])
  BY <1>0, <1>1 DEF Shown
<1> HIDE DEF n
<1>3. A \in SUBSET (0 .. n)
  BY Zenon
<1>4. 0 \in A
  <2>1. Upto(v, 0) = {}
    BY UptoTurn, Zenon
  <2>2. Rises(f[0]) /\ Shows(f[0]) = {} /\ 0 \in 0 .. n
    BY <1>2, ShowsOne
  <2> QED
    BY <2>1, <2>2, Zenon
<1>5. ASSUME NEW i \in 1 .. n, i - 1 \in A PROVE i \in A
  <2>1. Rises(f[i - 1]) /\ Shows(f[i - 1]) = Upto(v, i - 1) /\ f[i - 1] \in Values
    BY <1>2, <1>5, Zenon
  <2>2. Upto(v, i) = Upto(v, i - 1) \cup {v[i]}
    <3>1. i \in Nat \ {0}
      BY <1>2
    <3> QED
      BY <3>1, UptoTurn, Zenon
  <2>3. CASE \E j \in 1 .. i - 1 : v[j] = v[i]
    <3>1. v[i] \in Upto(v, i - 1) /\ f[i] = f[i - 1]
      BY <1>2, <2>3, Zenon DEF Upto
    <3> QED
      BY <2>1, <2>2, <3>1
  <2>4. CASE ~\E j \in 1 .. i - 1 : v[j] = v[i]
    <3>1. f[i] = Append(f[i - 1], v[i])
      BY <1>2, <2>4, Zenon
    <3>2. ASSUME NEW j \in 1 .. i - 1 PROVE v[j] < v[i]
      <4>1. j \in DOMAIN v /\ i \in DOMAIN v /\ j < i /\ v[i] \in Int /\ v[j] \in Int
        BY <1>2
      <4>2. \A h \in DOMAIN v : h < i => h \in 1 .. i - 1
        BY <1>2
      <4> QED
        BY <2>4, <4>1, <4>2 DEF Rising
    <3>3. \A m \in Shows(f[i - 1]) : m < v[i]
      BY <2>1, <3>2, Zenon DEF Upto
    <3>4. Rises(f[i])
      BY <1>2, <2>1, <3>1, <3>3, RisesAppend, Zenon
    <3>5. Shows(f[i]) = Upto(v, i)
      <4>1. Shows(Append(f[i - 1], v[i])) = Shows(f[i - 1]) \cup {v[i]}
        BY <1>2, <2>1, ShowsAppend, Zenon
      <4> QED
        BY <2>1, <2>2, <3>1, <4>1, Zenon
    <3> QED
      BY <3>4, <3>5
  <2> QED
    BY <2>3, <2>4, Zenon
<1>6. \A i \in 0 .. n : i \in A
  <2> HIDE DEF A
  <2> QED
    BY <1>2, <1>3, <1>4, <1>5, Turns, Zenon
<1>7. Shows(v) = Upto(v, n)
  BY <1>2, Zenon DEF Shows, Upto
<1> QED
  BY <1>1, <1>2, <1>6, <1>7, Zenon DEF n

\* Of two values that show the same writes, each in order, one begins with the other.
LEMMA RisesPrefix ==
  ASSUME NEW s \in Values, NEW t \in Values, Rises(s), Rises(t), Shows(s) = Shows(t)
  PROVE  \A i \in DOMAIN s : i \in DOMAIN t /\ s[i] = t[i]
<1> DEFINE T == {i \in DOMAIN s : ~(i \in DOMAIN t /\ s[i] = t[i])}
<1> SUFFICES ASSUME T # {} PROVE FALSE
  BY Zenon
<1>1. /\ Len(s) \in Nat /\ DOMAIN s = 1 .. Len(s) /\ Len(t) \in Nat /\ DOMAIN t = 1 .. Len(t)
      /\ (\A i \in DOMAIN s : s[i] \in Int) /\ \A i \in DOMAIN t : t[i] \in Int
  BY ValueList, Zenon
<1>2. T \in SUBSET Nat
  BY <1>1
<1>3. PICK i \in T : \A j \in T : i <= j
  <2> HIDE DEF T
  <2> QED
    BY <1>2, Least, Zenon
<1>4. i \in DOMAIN s /\ \A j \in DOMAIN s : j < i => j \in DOMAIN t /\ s[j] = t[j]
  BY <1>1, <1>3
<1>5. PICK j \in DOMAIN t : t[j] = s[i]
  BY <1>4, Zenon DEF Shows
<1>6. i <= j
  <2>1. ASSUME j < i PROVE FALSE
    <3>1. j \in DOMAIN s
      BY <1>1, <1>4, <2>1
    <3> QED
      BY <1>1, <1>4, <1>5, <2>1, <3>1 DEF Rises
  <2> QED
    BY <1>1, <1>4, <2>1
<1>7. i \in DOMAIN t /\ t[i] <= s[i]
  <2>1. i \in DOMAIN t
    BY <1>1, <1>4, <1>6, SMTT(30)
  <2> QED
    BY <1>1, <1>4, <1>5, <1>6, <2>1 DEF Rises
<1>8. PICK h \in DOMAIN s : s[h] = t[i]
  BY <1>7, Zenon DEF Shows
<1>9. i <= h
  <2>1. ASSUME h < i PROVE FALSE
    <3>1. h \in DOMAIN t /\ s[h] = t[h]
      BY <1>4, <2>1, Zenon
    <3>2. t[h] < t[i]
      BY <1>7, <2>1, <3>1, Zenon DEF Rises
    <3> QED
      BY <1>1, <1>7, <1>8, <3>1, <3>2
  <2> QED
    BY <1>1, <1>4, <2>1
<1>10. s[i] <= t[i]
  BY <1>1, <1>4, <1>8, <1>9 DEF Rises
<1>11. s[i] = t[i]
  BY <1>1, <1>4, <1>7, <1>10
<1> QED
  BY <1>3, <1>7, <1>11, Zenon

\* A copy that nothing is to come to shows what the source shows.
LEMMA CopyEnd ==
  ASSUME NEW k, NEW v \in Values, NEW s \in Values, Copy(k, v, s, {}),
         AtMost(v, s), Rises(s)
  PROVE  FirstShown(v) = s
<1> DEFINE u == FirstShown(v)
<1>1. u \in Values /\ Rises(u) /\ Shows(u) = Shows(v)
  BY FirstShownRises, Zenon DEF Copy
<1> HIDE DEF u
<1>2. Shows(v) = Shows(s)
  <2>1. Shows(s) \subseteq Shows(v)
    BY Zenon DEF Copy
  <2>2. CASE k \in Lists
    BY <2>1, <2>2, Zenon DEF Copy
  <2>3. CASE k \notin Lists
    <3>1. Len(v) \in Nat /\ DOMAIN v = 1 .. Len(v) /\ Len(v) <= 1
      BY <2>3 DEF Copy, Values
    <3>2. \A i, j \in DOMAIN v : i = j
      BY <3>1
    <3>3. \A i, j \in Shows(v) : i = j
      BY <3>2, Zenon DEF Shows
    <3> QED
      BY <2>1, <3>3, Zenon DEF AtMost
  <2> QED
    BY <2>2, <2>3, Zenon
<1>3. \A i \in DOMAIN u : i \in DOMAIN s /\ u[i] = s[i]
  BY <1>1, <1>2, RisesPrefix
<1>4. \A i \in DOMAIN s : i \in DOMAIN u /\ s[i] = u[i]
  BY <1>1, <1>2, RisesPrefix
<1>5. u = s
  <2>1. DOMAIN u = DOMAIN s
    BY <1>3, <1>4, Zenon
  <2>2. Len(u) \in Nat /\ Len(s) \in Nat /\ DOMAIN u = 1 .. Len(u) /\ DOMAIN s = 1 .. Len(s)
    BY <1>1, ValueList, Zenon
  <2>3. Len(u) = Len(s)
    <3>1. \A a, b \in Nat : 1 .. a = 1 .. b => a <= b
      <4> SUFFICES ASSUME NEW a \in Nat, NEW b \in Nat, 1 .. a = 1 .. b, a # 0 PROVE a <= b
        OBVIOUS
      <4>1. a \in 1 .. a
        OBVIOUS
      <4>2. a \in 1 .. b
        BY <4>1, Zenon
      <4> QED
        BY <4>2
    <3>2. \A a, b \in Nat : 1 .. a = 1 .. b => a = b
      <4>1. \A a, b \in Nat : a <= b /\ b <= a => a = b
        OBVIOUS
      <4> QED
        BY <3>1, <4>1, Zenon
    <3> QED
      BY <2>1, <2>2, <3>2, Zenon
  <2> QED
    BY <1>1, <1>3, <2>2, <2>3, SeqEqual, Zenon DEF Values
<1> QED
  BY <1>5, Zenon DEF u

-----------------------------------------------------------------------------
(* What is on its way. *)

Items(s) == {s[i] : i \in DOMAIN s}
Entry(w) == IF w = None THEN {} ELSE {[n |-> w.n, key |-> w.key]}

Pending == Entry(held) \cup Items(buffer) \cup Entry(worker) \cup Items(wire) \cup Items(unsent)
PendNums == InHand(held) \cup Nums(buffer) \cup InHand(worker) \cup Nums(wire) \cup Nums(unsent)

\* w comes to a queue s, which is t then, or leaves it.
Enters(s, t, w) == Items(t) = Items(s) \cup {w} /\ Nums(t) = Nums(s) \cup {w.n}
Leaves(s, t, w) == Items(s) = {w} \cup Items(t) /\ Nums(s) = {w.n} \cup Nums(t)

\* The numbers of a queue are those of its items.
LEMMA ItemNums ==
  ASSUME NEW s
  PROVE  (\A w \in Items(s) : w.n \in Nums(s)) /\ \A n \in Nums(s) : \E w \in Items(s) : w.n = n
BY Zenon DEF Items, Nums

\* Append and Tail on a queue.
LEMMA QueueAppend ==
  ASSUME NEW s \in Seq(Writes), NEW w \in Writes
  PROVE  Enters(s, Append(s, w), w)
<1> DEFINE t == Append(s, w)
<1>1. Len(t) = Len(s) + 1 /\ (\A i \in 1 .. Len(s) : t[i] = s[i]) /\ t[Len(s) + 1] = w
  BY AppendProperties
<1>2. Len(s) \in Nat /\ DOMAIN s = 1 .. Len(s) /\ DOMAIN t = 1 .. Len(s) + 1
  BY <1>1, AppendProperties, LenProperties
<1> HIDE DEF t
<1>3. Items(t) = Items(s) \cup {w}
  BY <1>1, <1>2 DEF Items
<1>4. Nums(t) = Nums(s) \cup {w.n}
  BY <1>1, <1>2 DEF Nums
<1> QED
  BY <1>3, <1>4, Zenon DEF t, Enters

LEMMA QueueTail ==
  ASSUME NEW s \in Seq(Writes), s # <<>>
  PROVE  Head(s) \in Writes /\ Leaves(s, Tail(s), Head(s))
<1> DEFINE t == Tail(s)
           h == Head(s)
<1>1. /\ h \in Writes /\ t \in Seq(Writes) /\ Len(t) = Len(s) - 1
      /\ \A i \in 1 .. Len(t) : t[i] = s[i + 1]
  BY HeadTailProperties, Zenon
<1>2. Len(s) \in Nat \ {0} /\ DOMAIN s = 1 .. Len(s) /\ h = s[1] /\ DOMAIN t = 1 .. Len(s) - 1
  BY <1>1, LenProperties, EmptySeq
<1> HIDE DEF t, h
<1>3. /\ 1 \in DOMAIN s
      /\ \A i \in DOMAIN t : i + 1 \in DOMAIN s /\ t[i] = s[i + 1]
      /\ \A i \in DOMAIN s : i = 1 \/ (i - 1 \in DOMAIN t /\ t[i - 1] = s[i])
  BY <1>1, <1>2
<1>4. Items(s) = {h} \cup Items(t)
  <2>1. ASSUME NEW i \in DOMAIN s PROVE s[i] \in {h} \cup Items(t)
    BY <1>2, <1>3 DEF Items
  <2> QED
    BY <1>2, <1>3, <2>1 DEF Items
<1>5. Nums(s) = {h.n} \cup Nums(t)
  BY <1>2, <1>3 DEF Nums
<1> QED
  BY <1>1, <1>4, <1>5, Zenon DEF t, h, Leaves

\* What a goroutine holds is one item.
LEMMA HandItem ==
  ASSUME NEW w \in {None} \cup Writes \cup Taken
  PROVE  /\ w = None => Entry(w) = {} /\ InHand(w) = {}
         /\ w # None => \E x \in Writes : x.n = w.n /\ x.key = w.key /\ Entry(w) = {x} /\ InHand(w) = {x.n}
         /\ w # None /\ w \in Writes => Entry(w) = {w} /\ InHand(w) = {w.n}
<1>1. CASE w = None
  BY <1>1, HandRange, Zenon DEF Entry
<1>2. CASE w # None
  <2> DEFINE x == [n |-> w.n, key |-> w.key]
  <2>1. x \in Writes /\ x.n = w.n /\ x.key = w.key
    BY <1>2, Zenon DEF Writes, Taken
  <2>2. InHand(w) = {w.n} /\ Entry(w) = {x}
    BY <1>2, HandRange, Zenon DEF Entry
  <2>3. w \in Writes => x = w
    BY Zenon DEF Writes
  <2> HIDE DEF x
  <2> QED
    BY <1>2, <2>1, <2>2, <2>3, Zenon
<1> QED
  BY <1>1, <1>2, Zenon

\* What is pending are writes, under their numbers.
LEMMA PendingWrites ==
  ASSUME Types
  PROVE  /\ Pending \subseteq Writes /\ PendNums \subseteq Int
         /\ \A w \in Pending : w.n \in PendNums
         /\ \A n \in PendNums : \E w \in Pending : w.n = n
<1>1. \A s \in Seq(Writes) : Items(s) \subseteq Writes
  <2> SUFFICES ASSUME NEW s \in Seq(Writes), NEW i \in DOMAIN s PROVE s[i] \in Writes
    BY Zenon DEF Items
  <2> QED
    BY LenProperties, ElementOfSeq, Zenon
<1>2. /\ Entry(held) \subseteq Writes /\ Entry(worker) \subseteq Writes
      /\ (\A w \in Entry(held) : w.n \in InHand(held)) /\ \A n \in InHand(held) : \E w \in Entry(held) : w.n = n
      /\ (\A w \in Entry(worker) : w.n \in InHand(worker)) /\ \A n \in InHand(worker) : \E w \in Entry(worker) : w.n = n
  <2>1. held \in {None} \cup Writes \cup Taken /\ worker \in {None} \cup Writes \cup Taken
    BY Zenon DEF Types
  <2> QED
    BY <2>1, HandItem, Zenon
<1>3. Pending \subseteq Writes
  BY <1>1, <1>2, Zenon DEF Pending, Types
<1>4. PendNums \subseteq Int
  BY Numbers, Zenon DEF PendNums
<1> QED
  BY <1>2, <1>3, <1>4, ItemNums, Zenon DEF Pending, PendNums

-----------------------------------------------------------------------------
(* Where the goroutine of bootstrapUntilSynced is, and what that says. *)

Phases ==
  /\ active <=> jpc \in {"await", "pulling", "drain", "apply", "off"}
  /\ jpc # "pulling" => chunks = <<>> /\ toRead = {}
  /\ ~sourceLink => wire = <<>> /\ worker = None /\ buffer = <<>> /\ held = None

\* Every step keeps the phases.
LEMMA PhasesStep ==
  ASSUME TypeOK, Phases, [Next]_vars
  PROVE  Phases'
<1> USE DEF Phases, TypeOK
<1>1. ASSUME NEW k \in Keys, Write(k) PROVE Phases'
  BY <1>1, Zenon DEF Write, links, snapshot, drain, attempts
<1>2. ASSUME NEW k \in Keys, ReadKey(k) PROVE Phases'
  BY <1>2, Zenon DEF ReadKey, writer, links, drain, attempts
<1>3. CASE Send
  BY <1>3, Zenon DEF Send, links, snapshot, drain, attempts
<1>4. CASE SourceLinks \/ JoinerLinks
  BY <1>4, SMTT(30) DEF SourceLinks, JoinerLinks, writer, snapshot, drain, attempts
<1>5. CASE Take
  BY <1>5, Zenon DEF Take, writer, links, snapshot, drain, attempts
<1>6. CASE Act
  BY <1>6, Zenon DEF Act, writer, links, snapshot, drain, attempts
<1>7. CASE Activate
  BY <1>7, Zenon DEF Activate, goto, writer, links, snapshot, drain, attempts
<1>8. CASE Request
  BY <1>8, Zenon DEF Request, goto, writer, links, snapshot, drain, attempts
<1>9. CASE NextSource
  BY <1>9, Zenon DEF NextSource, goto, writer, links, snapshot, drain, attempts
<1>10. CASE AttemptFails
  BY <1>10, Zenon DEF AttemptFails, goto, writer, links, snapshot, drain, attempts
<1>11. CASE ApplyChunk
  BY <1>11, Zenon DEF ApplyChunk, goto, writer, links, snapshot, drain, attempts
<1>12. CASE SnapshotDone
  BY <1>12, Zenon DEF SnapshotDone, goto, writer, links, snapshot, drain, attempts
<1>13. CASE DrainTake
  BY <1>13, Zenon DEF DrainTake, goto, writer, links, snapshot, drain, attempts
<1>14. CASE DrainApply
  BY <1>14, Zenon DEF DrainApply, goto, writer, links, snapshot, drain, attempts
<1>15. CASE DrainFails
  BY <1>15, Zenon DEF DrainFails, goto, writer, links, snapshot, drain, attempts
<1>16. CASE DrainRest
  BY <1>16, Zenon DEF DrainRest, goto, writer, links, snapshot, drain, attempts
<1>17. CASE DrainReturns
  BY <1>17, Zenon DEF DrainReturns, goto, writer, links, snapshot, drain, attempts
<1>18. CASE FlagOff
  BY <1>18, Zenon DEF FlagOff, goto, writer, links, snapshot, drain, attempts
<1>19. CASE ClearBuffer
  BY <1>19, Zenon DEF ClearBuffer, goto, writer, links, snapshot, drain, attempts
<1>20. CASE UNCHANGED vars
  BY <1>20, Zenon DEF vars, writer, links, snapshot, drain, attempts
<1> QED
  BY <1>1, <1>2, <1>3, <1>4, <1>5, <1>6, <1>7, <1>8, <1>9, <1>10, <1>11, <1>12, <1>13,
     <1>14, <1>15, <1>16, <1>17, <1>18, <1>19, <1>20, Zenon DEF Next, Joiner, Worker

-----------------------------------------------------------------------------
(* The flow of writes has no gaps but the lost ones. *)

\* Every write after a pending one is pending too, unless one of them is lost or
\* the pending one is in a buffer that is about to be wiped.
NoGap(P, X, L, top) == \A n \in P : \A m \in n..top : m \in P \/ m \in L \/ n \in L \/ n \in X

Wiped == IF jpc = "clear" THEN Nums(buffer) ELSE {}

FlowInv ==
  /\ Below(lost, InHand(worker) \cup Nums(wire) \cup Nums(unsent) \cup {written + 1})
  /\ NoGap(PendNums, Wiped, lost, written)

\* The source's write comes last.
LEMMA FlowWrite ==
  ASSUME OrderInv, FlowInv, lost \subseteq Int, NEW k \in Keys, Write(k)
  PROVE  /\ FlowInv'
         /\ \E w \in Writes : /\ w.n = written + 1 /\ w.key = k
                              /\ Pending' = Pending \cup {w} /\ PendNums' = PendNums \cup {w.n}
                              /\ Enters(unsent, unsent', w)
<1> DEFINE w == [n |-> written + 1, key |-> k]
<1>1. /\ w \in Writes /\ w.n = written + 1 /\ w.key = k /\ written' = written + 1 /\ written \in Int
      /\ unsent' = Append(unsent, w)
      /\ UNCHANGED <<wire, worker, buffer, held, jpc, lost>>
  BY BootstrapAssumption DEF Write, OrderInv, Types, Writes, links, snapshot, drain, attempts
<1>2. Enters(unsent, unsent', w)
  BY <1>1, QueueAppend, Zenon DEF OrderInv, Types
<1> HIDE DEF w
<1>3. Pending' = Pending \cup {w} /\ PendNums' = PendNums \cup {w.n}
  BY <1>1, <1>2, Zenon DEF Pending, PendNums, Enters
<1>4. Below(lost, InHand(worker) \cup Nums(wire) \cup Nums(unsent') \cup {written' + 1})
  BY <1>1, <1>2 DEF FlowInv, Below, Enters
<1>5. NoGap(PendNums \cup {written + 1}, Wiped, lost, written + 1)
  <2>1. PendNums \subseteq Int
    BY PendingWrites, Zenon DEF OrderInv
  <2>2. \A n \in PendNums : n <= written
    BY <1>1, <2>1 DEF OrderInv, InOrder, Chain, Below, PendNums
  <2> QED
    BY <1>1, <2>1, <2>2 DEF FlowInv, NoGap
<1>6. FlowInv'
  BY <1>1, <1>3, <1>4, <1>5, Zenon DEF FlowInv, Wiped
<1> QED
  BY <1>1, <1>2, <1>3, <1>6, Zenon

\* Replicate sends the oldest unsent write, or drops it before all the others.
LEMMA FlowSend ==
  ASSUME OrderInv, Phases, FlowInv, Send
  PROVE  FlowInv' /\ Pending' \subseteq Pending /\ (sourceLink => PendNums' = PendNums)
<1>1. PICK h \in Writes : Leaves(unsent, unsent', h) /\ h = Head(unsent)
  BY QueueTail, Zenon DEF OrderInv, Types, Send
<1>2. /\ UNCHANGED <<written, worker, buffer, held, jpc>>
      /\ sourceLink => wire' = Append(wire, h) /\ lost' = lost
      /\ ~sourceLink => wire' = wire /\ lost' \in {lost, lost \cup {h.n}}
  BY <1>1, Zenon DEF Send, links, snapshot, drain, attempts
<1>3. sourceLink => Enters(wire, wire', h)
  BY <1>2, QueueAppend, Zenon DEF OrderInv, Types
<1>4. Below({h.n}, Nums(unsent') \cup {written + 1})
  <2>1. Below({h.n}, Nums(Tail(unsent))) /\ unsent' = Tail(unsent) /\ h.n \in Nums(unsent)
    BY <1>1, NumsTail, Zenon DEF OrderInv, InOrder, Types, Send, Leaves
  <2> QED
    BY <2>1, Zenon DEF OrderInv, InOrder, Chain, Below
<1>5. CASE sourceLink
  <2>1. Pending' = Pending /\ PendNums' = PendNums
    BY <1>1, <1>2, <1>3, <1>5, Zenon DEF Pending, PendNums, Enters, Leaves
  <2>2. Below(lost', InHand(worker') \cup Nums(wire') \cup Nums(unsent') \cup {written' + 1})
    BY <1>1, <1>2, <1>3, <1>5, Zenon DEF FlowInv, Below, Enters, Leaves
  <2> QED
    BY <1>2, <1>5, <2>1, <2>2, Zenon DEF FlowInv, Wiped
<1>6. CASE ~sourceLink
  <2>1. wire = <<>> /\ worker = None /\ buffer = <<>> /\ held = None
    BY <1>6, Zenon DEF Phases
  <2>2. Nums(wire) = {} /\ InHand(worker) = {} /\ Nums(buffer) = {} /\ InHand(held) = {}
    BY <2>1, NumsEmpty, Zenon DEF InHand, None
  <2>3. Pending' \subseteq Pending
    BY <1>1, <1>2, <1>6, Zenon DEF Pending, Leaves
  <2>4. PendNums = Nums(unsent) /\ PendNums' = Nums(unsent')
    BY <1>2, <1>6, <2>2, Zenon DEF PendNums
  <2>5. Below(lost', InHand(worker') \cup Nums(wire') \cup Nums(unsent') \cup {written' + 1})
    BY <1>1, <1>2, <1>4, <1>6, <2>2 DEF FlowInv, Below, Leaves
  <2>6. PendNums \subseteq Int /\ h.n \in Int /\ written \in Int
    BY PendingWrites DEF OrderInv, Types, Writes
  <2>7. NoGap(PendNums', Wiped', lost', written')
    <3> SUFFICES ASSUME NEW n \in PendNums', NEW m \in n..written'
                 PROVE  m \in PendNums' \/ m \in lost' \/ n \in lost' \/ n \in Wiped'
      BY Zenon DEF NoGap
    <3>1. n \in PendNums /\ h.n < n /\ n \in Int /\ m \in n..written /\ m # h.n
      BY <1>1, <1>2, <1>4, <2>4, <2>6 DEF Leaves, Below
    <3>2. m \in PendNums \/ m \in lost \/ n \in lost \/ n \in Wiped
      BY <3>1, Zenon DEF FlowInv, NoGap
    <3> QED
      BY <1>1, <1>2, <1>6, <2>4, <3>1, <3>2, Zenon DEF Leaves, Wiped
  <2> QED
    BY <1>6, <2>3, <2>5, <2>7, Zenon DEF FlowInv
<1> QED
  BY <1>5, <1>6, Zenon

\* The worker takes a write.
LEMMA FlowTake ==
  ASSUME OrderInv, FlowInv, Take
  PROVE  FlowInv' /\ Pending' = Pending /\ PendNums' = PendNums
<1>1. PICK h \in Writes : Leaves(wire, wire', h) /\ h = Head(wire)
  BY QueueTail, Zenon DEF OrderInv, Types, Take
<1>2. /\ worker = None /\ worker' = [n |-> h.n, key |-> h.key, buffering |-> active]
      /\ UNCHANGED <<written, unsent, buffer, held, jpc, lost>>
  BY <1>1, Zenon DEF Take, writer, links, snapshot, drain, attempts
<1>3. Entry(worker) = {} /\ InHand(worker) = {} /\ Entry(worker') = {h} /\ InHand(worker') = {h.n}
  <2>1. worker' \in Taken /\ worker' # None /\ worker'.n = h.n /\ worker'.key = h.key
    BY <1>2, Zenon DEF OrderInv, Types, Writes, Taken, None
  <2>2. h = [n |-> h.n, key |-> h.key] /\ h.n # 0
    BY SMTT(30) DEF Writes
  <2> QED
    BY <1>2, <2>1, <2>2, Zenon DEF Entry, InHand, None
<1>4. Pending' = Pending /\ PendNums' = PendNums
  BY <1>1, <1>2, <1>3, Zenon DEF Pending, PendNums, Leaves
<1>5. InHand(worker') \cup Nums(wire') = InHand(worker) \cup Nums(wire)
  BY <1>1, <1>3, Zenon DEF Leaves
<1> QED
  BY <1>2, <1>4, <1>5 DEF FlowInv, Wiped, Below

\* The worker puts its write into the buffer, or drops it at a full one.
LEMMA FlowBuffer ==
  ASSUME OrderInv, FlowInv, Act, worker.buffering
  PROVE  /\ FlowInv' /\ Pending' \subseteq Pending
         /\ lost' = {} => PendNums' = PendNums /\ lost = {}
<1>1. PICK w \in Writes : /\ w.n = worker.n /\ w.key = worker.key
                          /\ Entry(worker) = {w} /\ InHand(worker) = {w.n}
  <2>1. worker \in {None} \cup Writes \cup Taken /\ worker # None
    BY Zenon DEF OrderInv, Types, Act
  <2> QED
    BY <2>1, HandItem, Zenon
<1>2. w = [n |-> worker.n, key |-> worker.key]
  BY <1>1, Zenon DEF Writes
<1>3. /\ Entry(worker') = {} /\ InHand(worker') = {}
      /\ UNCHANGED <<written, unsent, wire, held, jpc>>
      /\ \/ buffer' = Append(buffer, w) /\ lost' \in {lost, lost \cup {w.n}}
         \/ buffer' = buffer /\ lost' = lost \cup {w.n}
  BY <1>2, Zenon DEF Act, enqueueBootstrapRepl, writer, links, snapshot, drain, attempts, Entry, InHand, None
<1>4. Below({w.n}, Nums(wire) \cup Nums(unsent) \cup {written + 1}) /\ w.n \in Int /\ written \in Int
  BY <1>1 DEF OrderInv, InOrder, Chain, Below, Types, Writes
<1>5. Below(lost', InHand(worker') \cup Nums(wire') \cup Nums(unsent') \cup {written' + 1})
  BY <1>3, <1>4 DEF FlowInv, Below
<1>6. CASE buffer' = Append(buffer, w) /\ lost' \in {lost, lost \cup {w.n}}
  <2>1. Enters(buffer, buffer', w)
    BY <1>6, QueueAppend, Zenon DEF OrderInv, Types
  <2>2. Pending' = Pending /\ PendNums' = PendNums
    BY <1>1, <1>3, <2>1, Zenon DEF Pending, PendNums, Enters
  <2>3. Wiped \subseteq Wiped'
    BY <1>3, <2>1, Zenon DEF Wiped, Enters
  <2>4. NoGap(PendNums', Wiped', lost', written')
    BY <1>3, <1>6, <2>2, <2>3, Zenon DEF FlowInv, NoGap
  <2> QED
    BY <1>5, <1>6, <2>2, <2>4, Zenon DEF FlowInv
<1>7. CASE buffer' = buffer /\ lost' = lost \cup {w.n}
  <2>1. Pending' \subseteq Pending /\ PendNums = PendNums' \cup {w.n}
    BY <1>1, <1>3, <1>7, Zenon DEF Pending, PendNums
  <2>2. NoGap(PendNums', Wiped', lost', written')
    BY <1>3, <1>7, <2>1, Zenon DEF FlowInv, NoGap, Wiped
  <2> QED
    BY <1>5, <1>7, <2>1, <2>2, Zenon DEF FlowInv
<1> QED
  BY <1>3, <1>6, <1>7, Zenon

\* Nothing is lost, nor about to be.
Sound == lost = {} /\ (jpc = "clear" => buffer = <<>>)

\* A step applies w, the oldest of what is pending if nothing is lost.
Applies(w) ==
  /\ w \in Pending /\ store' = applyWireRepl(store, w)
  /\ PendNums \subseteq PendNums' \cup {w.n}
  /\ Sound => \A n \in PendNums : w.n <= n

\* The worker applies its write.
LEMMA FlowApply ==
  ASSUME OrderInv, FlowInv, Act, ~worker.buffering
  PROVE  /\ FlowInv' /\ Pending' \subseteq Pending
         /\ \E w \in Writes : w.n = worker.n /\ Applies(w)
<1>1. PICK w \in Writes : /\ w.n = worker.n /\ w.key = worker.key
                          /\ Entry(worker) = {w} /\ InHand(worker) = {w.n}
  <2>1. worker \in {None} \cup Writes \cup Taken /\ worker # None
    BY Zenon DEF OrderInv, Types, Act
  <2> QED
    BY <2>1, HandItem, Zenon
<1>2. w = [n |-> worker.n, key |-> worker.key]
  BY <1>1, Zenon DEF Writes
<1>3. /\ Entry(worker') = {} /\ InHand(worker') = {} /\ worker # None
      /\ UNCHANGED <<written, unsent, wire, held, jpc, buffer, lost>>
      /\ store' = applyWireRepl(store, w)
  BY <1>2, Zenon DEF Act, writer, links, snapshot, drain, attempts, Entry, InHand, None
<1>4. Below({w.n}, Nums(wire) \cup Nums(unsent) \cup {written + 1}) /\ w.n \in Int /\ written \in Int
  BY <1>1 DEF OrderInv, InOrder, Chain, Below, Types, Writes
<1>5. Below(lost', InHand(worker') \cup Nums(wire') \cup Nums(unsent') \cup {written' + 1})
  BY <1>3, Zenon DEF FlowInv, Below
<1>6. w \in Pending /\ Pending' \subseteq Pending /\ PendNums = PendNums' \cup {w.n}
  BY <1>1, <1>3, Zenon DEF Pending, PendNums
<1>7. jpc # "clear" => Nums(buffer) \cup InHand(held) \subseteq lost
  BY <1>3, Zenon DEF OrderInv, Overtaken
<1>8. jpc = "clear" => InHand(held) = {}
  BY DEF OrderInv, Overtaken, InHand, None
<1>9. PendNums \subseteq Int
  BY PendingWrites, Zenon DEF OrderInv
<1>10. NoGap(PendNums', Wiped', lost', written')
  <2> SUFFICES ASSUME NEW n \in PendNums', NEW m \in n..written'
               PROVE  m \in PendNums' \/ m \in lost' \/ n \in lost' \/ n \in Wiped'
    BY Zenon DEF NoGap
  <2>1. n \in PendNums /\ n \in Int /\ m \in n..written
    BY <1>3, <1>6, <1>9, Zenon
  <2>2. m \in PendNums \/ m \in lost \/ n \in lost \/ n \in Wiped
    BY <2>1, Zenon DEF FlowInv, NoGap
  <2>3. CASE m = w.n
    <3>1. n \in InHand(held) \cup Nums(buffer) \cup Nums(wire) \cup Nums(unsent) /\ n <= w.n
      BY <1>3, <1>4, <2>1, <2>3 DEF PendNums
    <3>2. n \in InHand(held) \cup Nums(buffer)
      BY <1>4, <2>1, <3>1 DEF Below
    <3> QED
      BY <1>3, <1>7, <1>8, <3>2, Zenon DEF Wiped
  <2>4. CASE m # w.n
    BY <1>3, <1>6, <2>2, <2>4, Zenon DEF Wiped
  <2> QED
    BY <2>3, <2>4, Zenon
<1>11. Sound => \A n \in PendNums : w.n <= n
  <2> SUFFICES ASSUME Sound, NEW n \in PendNums PROVE w.n <= n
    BY Zenon
  <2>1. Nums(buffer) = {} /\ InHand(held) = {}
    BY <1>7, <1>8, NumsEmpty, Zenon DEF Sound
  <2>2. n \in {w.n} \cup Nums(wire) \cup Nums(unsent)
    BY <1>1, <2>1, Zenon DEF PendNums
  <2> QED
    BY <1>4, <1>9, <2>2 DEF Below
<1> QED
  BY <1>1, <1>3, <1>5, <1>6, <1>10, <1>11, Zenon DEF FlowInv, Applies

\* A new snapshot: what is no longer lost is older than all that is pending.
LEMMA FlowRequest ==
  ASSUME OrderInv, FlowInv, lost \subseteq Int, Request
  PROVE  FlowInv' /\ Pending' = Pending
<1>1. /\ jpc = "await" /\ jpc' = "pulling"
      /\ lost' = {n \in lost : \E i \in DOMAIN buffer : buffer[i].n <= n}
      /\ UNCHANGED queues
  BY Zenon DEF Request, goto, queues, writer, links, drain, attempts
<1>2. InHand(held) = {}
  BY <1>1 DEF OrderInv, Overtaken, None, InHand
<1>3. Pending' = Pending /\ PendNums' = PendNums /\ PendNums \subseteq Int
  BY <1>1, PendingWrites, Zenon DEF OrderInv, Pending, PendNums, queues
<1>4. Below(lost', InHand(worker') \cup Nums(wire') \cup Nums(unsent') \cup {written' + 1})
  BY <1>1, Zenon DEF FlowInv, Below, queues
<1>5. \A n \in Nums(buffer) : \A m \in lost : n <= m => m \in lost'
  BY <1>1, Zenon DEF Nums
<1>6. \A n \in PendNums : n \in Nums(buffer) \/ \A m \in lost : m < n
  BY <1>2, Zenon DEF FlowInv, Below, PendNums
<1>7. NoGap(PendNums, {}, lost', written)
  <2> SUFFICES ASSUME NEW n \in PendNums, NEW m \in n..written
               PROVE  m \in PendNums \/ m \in lost' \/ n \in lost'
    BY Zenon DEF NoGap
  <2>1. m \in PendNums \/ m \in lost \/ n \in lost
    BY <1>1, Zenon DEF FlowInv, NoGap, Wiped
  <2>2. n \in Int /\ m \in Int /\ n <= m
    BY <1>3 DEF OrderInv, Types
  <2> QED
    BY <1>5, <1>6, <2>1, <2>2
<1>8. Wiped' = {} /\ written' = written
  BY <1>1, Zenon DEF Wiped, queues
<1> QED
  BY <1>3, <1>4, <1>7, <1>8, Zenon DEF FlowInv

\* The drain takes a write out of the buffer.
LEMMA FlowDrainTake ==
  ASSUME OrderInv, FlowInv, DrainTake
  PROVE  FlowInv' /\ Pending' = Pending /\ PendNums' = PendNums
<1>1. PICK h \in Writes : Leaves(buffer, buffer', h) /\ h = Head(buffer)
  BY QueueTail, Zenon DEF OrderInv, Types, DrainTake
<1>2. /\ jpc = "drain" /\ jpc' = "apply" /\ held' = h
      /\ UNCHANGED <<written, unsent, wire, worker, lost>>
  BY <1>1, Zenon DEF DrainTake, goto, writer, links, snapshot, attempts
<1>3. Entry(held) = {} /\ InHand(held) = {} /\ Entry(held') = {h} /\ InHand(held') = {h.n}
  <2>1. held = None /\ held' # None
    BY <1>2 DEF OrderInv, Overtaken, Writes, None
  <2> QED
    BY <1>2, <2>1, HandItem, Zenon
<1>4. Pending' = Pending /\ PendNums' = PendNums
  BY <1>1, <1>2, <1>3, Zenon DEF Pending, PendNums, Leaves
<1> QED
  BY <1>2, <1>4, Zenon DEF FlowInv, Wiped, Below

\* The drain applies the write it holds, or gives up over it.
LEMMA FlowDrainApply ==
  ASSUME OrderInv, FlowInv, DrainApply \/ DrainFails
  PROVE  /\ FlowInv' /\ Pending' \subseteq Pending
         /\ DrainApply => \E w \in Writes : Applies(w)
<1>1. /\ jpc = "apply" /\ jpc' \in {"drain", "off"} /\ held' = None
      /\ UNCHANGED <<written, unsent, wire, worker, buffer, lost>>
  BY Zenon DEF DrainApply, DrainFails, goto, writer, links, snapshot, attempts
<1>2. held \in Writes /\ Entry(held) = {held} /\ InHand(held) = {held.n}
  <2>1. held \in Writes /\ held # None
    BY <1>1, Zenon DEF OrderInv, Overtaken, Types
  <2> QED
    BY <2>1, HandItem, Zenon
<1>3. Entry(held') = {} /\ InHand(held') = {}
  BY <1>1, Zenon DEF Entry, InHand, None
<1>4. held \in Pending /\ Pending' \subseteq Pending /\ PendNums = PendNums' \cup {held.n}
  BY <1>1, <1>2, <1>3, Zenon DEF Pending, PendNums
<1>5. PendNums \subseteq Int /\ written \in Int
  BY PendingWrites, SMTT(30) DEF OrderInv, Types
<1>6. \A n \in PendNums : held.n <= n /\ (n \in PendNums' => held.n < n)
  <2>1. Below({held.n}, Nums(buffer) \cup InHand(worker) \cup Nums(wire) \cup Nums(unsent))
    BY <1>2, Zenon DEF OrderInv, InOrder, Chain
  <2>2. PendNums' = Nums(buffer) \cup InHand(worker) \cup Nums(wire) \cup Nums(unsent)
    BY <1>1, <1>3, Zenon DEF PendNums
  <2>3. \A n \in PendNums' : held.n < n
    BY <2>1, <2>2, Zenon DEF Below
  <2>4. held.n \in Int /\ PendNums' \subseteq Int
    BY <1>4, <1>5, Zenon
  <2>5. \A m, n \in Int : (m < n => m <= n) /\ m <= m
    OBVIOUS
  <2> QED
    BY <1>4, <2>3, <2>4, <2>5, Zenon
<1>7. NoGap(PendNums', Wiped', lost', written')
  BY <1>1, <1>4, <1>5, <1>6 DEF FlowInv, NoGap, Wiped
<1>8. Below(lost', InHand(worker') \cup Nums(wire') \cup Nums(unsent') \cup {written' + 1})
  BY <1>1, Zenon DEF FlowInv, Below
<1>9. DrainApply => Applies(held)
  BY <1>4, <1>6, Zenon DEF Applies, DrainApply
<1> QED
  BY <1>2, <1>4, <1>7, <1>8, <1>9, Zenon DEF FlowInv

\* The buffer is wiped.
LEMMA FlowClear ==
  ASSUME OrderInv, FlowInv, ClearBuffer
  PROVE  /\ FlowInv' /\ Pending' \subseteq Pending
         /\ lost' = {} => lost = {} /\ buffer = <<>> /\ PendNums' = PendNums
<1>1. /\ jpc = "clear" /\ jpc' \in {"ready", "backoff"} /\ buffer' = <<>>
      /\ lost' = lost \cup Nums(buffer)
      /\ UNCHANGED <<written, unsent, wire, worker, held>>
  BY Zenon DEF ClearBuffer, goto, writer, links, snapshot, drain, attempts, Nums
<1>2. Nums(buffer') = {} /\ Items(buffer') = {} /\ Wiped' = {} /\ Wiped = Nums(buffer)
  BY <1>1, NumsEmpty DEF Items, Wiped
<1>3. InHand(held) = {}
  BY <1>1, SMTT(30) DEF OrderInv, Overtaken, None, InHand
<1>4. Pending' \subseteq Pending /\ PendNums = PendNums' \cup Nums(buffer) /\ PendNums \subseteq Int
  BY <1>1, <1>2, PendingWrites, Zenon DEF OrderInv, Pending, PendNums
<1>5. Below(Nums(buffer), InHand(worker) \cup Nums(wire) \cup Nums(unsent) \cup {written + 1})
  BY Zenon DEF OrderInv, InOrder, Chain, Below
<1>6. Below(lost', InHand(worker') \cup Nums(wire') \cup Nums(unsent') \cup {written' + 1})
  BY <1>1, <1>5, Zenon DEF FlowInv, Below
<1>7. NoGap(PendNums', Wiped', lost', written')
  BY <1>1, <1>2, <1>4, Zenon DEF FlowInv, NoGap
<1>8. Nums(buffer) = {} => buffer = <<>>
  <2>1. buffer # <<>> => Head(buffer).n \in Nums(buffer)
    BY QueueTail, Zenon DEF OrderInv, Types, Leaves
  <2> QED
    BY <2>1, Zenon
<1> QED
  BY <1>1, <1>4, <1>6, <1>7, <1>8, Zenon DEF FlowInv

\* The other steps leave the writes where they are.
LEMMA FlowElsewhere ==
  ASSUME OrderInv, FlowInv, Elsewhere \/ UNCHANGED vars
  PROVE  FlowInv' /\ Pending' = Pending /\ PendNums' = PendNums
<1>1. UNCHANGED queues /\ UNCHANGED lost /\ (jpc = "clear" => jpc' = "clear")
  BY Zenon DEF Elsewhere, queues, SourceLinks, JoinerLinks, ReadKey,
         Activate, NextSource, AttemptFails, ApplyChunk, SnapshotDone, DrainRest,
         DrainReturns, FlagOff, goto, writer, links, drain, attempts, snapshot, vars
<1>2. Pending' = Pending /\ PendNums' = PendNums /\ Wiped \subseteq Wiped'
  BY <1>1, Zenon DEF queues, Pending, PendNums, Wiped
<1>3. NoGap(PendNums', Wiped', lost', written')
  BY <1>1, <1>2, Zenon DEF FlowInv, NoGap, queues
<1> QED
  BY <1>1, <1>2, <1>3, Zenon DEF FlowInv, queues

-----------------------------------------------------------------------------
(* What the stores show. *)

\* A key's value shows its writes in order; a SET leaves only the last.
SourceInv ==
  \A k \in Keys : /\ Rises(source[k])
                  /\ \A n \in Shows(source[k]) : n <= written
                  /\ k \notin Lists => Len(source[k]) <= 1

\* A pending write is one of its key's, and the source shows it or a later one.
Owned(w, s) ==
  /\ \A k \in Keys : w.n \in Shows(s[k]) => w.key = k
  /\ \E m \in Shows(s[w.key]) : w.n <= m
  /\ w.key \in Lists => w.n \in Shows(s[w.key])

OwnInv == \A w \in Pending : Owned(w, source)

\* The joiner shows nothing newer than the source.
BoundInv ==
  /\ \A k \in Keys : AtMost(store[k], source[k])
  /\ \A i \in DOMAIN chunks : AtMost(chunks[i].value, source[chunks[i].key])

\* What is yet to be applied on top of the snapshot: not what the worker took
\* before the attempt and applies while the snapshot is being read.
Coming ==
  IF jpc = "pulling" /\ worker # None /\ ~worker.buffering THEN PendNums \ {worker.n} ELSE PendNums

\* The joiner's value of k comes from this attempt's snapshot.
Loaded(k) ==
  \/ jpc = "pulling" /\ k \notin toRead /\ \A i \in DOMAIN chunks : chunks[i].key # k
  \/ jpc \in {"drain", "apply", "ready"}
  \/ jpc \in {"off", "clear"} /\ ok

CopyInv ==
  Sound => /\ \A i \in DOMAIN chunks : Copy(chunks[i].key, chunks[i].value, source[chunks[i].key], Coming)
           /\ \A k \in Keys : Loaded(k) => Copy(k, store[k], source[k], Coming)

DataTypes == source \in [Keys -> Values] /\ store \in [Keys -> Values] /\ chunks \in Seq(Chunks)

DataInv == SourceInv /\ OwnInv /\ BoundInv /\ CopyInv

\* TypeOK says so.
LEMMA DataTyped == ASSUME TypeOK PROVE DataTypes /\ Types /\ lost \subseteq Int
BY BootstrapAssumption DEF TypeOK, DataTypes, Types, Values, Chunks, Taken

\* The entries of a snapshot.
LEMMA ChunkTyped ==
  ASSUME NEW cs \in Seq(Chunks), NEW i \in DOMAIN cs
  PROVE  cs[i] \in Chunks /\ cs[i].key \in Keys /\ cs[i].value \in Values
<1>1. cs[i] \in Chunks
  BY LenProperties, ElementOfSeq, Zenon
<1> QED
  BY <1>1, Zenon DEF Chunks

\* What a write leaves of a store.
LEMMA ApplyAfter ==
  ASSUME NEW st \in [Keys -> Values], NEW w \in Writes
  PROVE  /\ applyWireRepl(st, w) \in [Keys -> Values]
         /\ applyWireRepl(st, w)[w.key] = After(w.key, st[w.key], w.n)
         /\ \A k \in Keys \ {w.key} : applyWireRepl(st, w)[k] = st[k]
<1>1. w.key \in Keys
  BY Zenon DEF Writes
<1> QED
  BY <1>1, ApplyType, Zenon DEF applyWireRepl, After

\* What is shown after a write.
LEMMA AfterShows ==
  ASSUME NEW k, NEW v \in Values, NEW n \in 1..MaxWrites
  PROVE  /\ k \in Lists => Shows(After(k, v, n)) = Shows(v) \cup {n}
         /\ k \notin Lists => Shows(After(k, v, n)) = {n} /\ Len(After(k, v, n)) = 1
<1>1. Shows(Append(v, n)) = Shows(v) \cup {n}
  BY ShowsAppend, Zenon
<1>2. Shows(<<n>>) = {n} /\ Len(<<n>>) = 1
  BY ShowsOne, Zenon
<1> QED
  BY <1>1, <1>2, Zenon DEF After

\* The source's write.
LEMMA DataWrite ==
  ASSUME TypeOK, OrderInv, FlowInv, DataInv, NEW k \in Keys, Write(k)
  PROVE  DataInv'
<1>1. DataTypes /\ Types /\ lost \subseteq Int
  BY DataTyped, Zenon
<1>2. PICK w \in Writes : /\ w.n = written + 1 /\ w.key = k
                          /\ Pending' = Pending \cup {w} /\ PendNums' = PendNums \cup {w.n}
  BY <1>1, FlowWrite, Zenon
<1>3. /\ source' = applyWireRepl(source, w) /\ written' = written + 1
      /\ UNCHANGED <<store, chunks, toRead, worker, buffer, jpc, ok, lost>>
  <2>1. w = [n |-> written + 1, key |-> k]
    BY <1>2, Zenon DEF Writes
  <2> QED
    BY <2>1, Zenon DEF Write, links, snapshot, drain, attempts
<1>4. /\ source' \in [Keys -> Values]
      /\ source'[k] = After(k, source[k], w.n)
      /\ \A x \in Keys \ {k} : source'[x] = source[x]
  BY <1>1, <1>2, <1>3, ApplyAfter DEF DataTypes
<1>5. /\ w.n \in 1..MaxWrites /\ source[k] \in Values /\ written \in Int
      /\ \A x \in Keys : source[x] \in Values /\ store[x] \in Values /\ Shows(source[x]) \subseteq Int
                         /\ Shows(store[x]) \subseteq Int
  BY <1>1, ShowsNumbers, SMTT(30) DEF Writes, DataTypes, Types
<1>6. /\ k \in Lists => Shows(source'[k]) = Shows(source[k]) \cup {w.n}
      /\ k \notin Lists => Shows(source'[k]) = {w.n} /\ Len(source'[k]) = 1
  BY <1>4, <1>5, AfterShows, SMTT(30)
<1>a. ASSUME NEW x \in Keys, NEW n \in Shows(source[x])
      PROVE  n \in Int /\ n <= written /\ n < w.n /\ n <= written + 1
  <2>1. n <= written
    BY Zenon DEF DataInv, SourceInv
  <2>2. n \in Int
    BY <1>5, Zenon
  <2> QED
    BY <1>2, <1>5, <2>1, <2>2
<1>7. \A n \in Shows(source[k]) : n < w.n
  BY <1>a, Zenon
<1>8. SourceInv'
  <2>1. Rises(source'[k])
    <3>1. CASE k \in Lists
      BY <1>4, <1>5, <1>7, <3>1, RisesAppend, Zenon DEF DataInv, SourceInv, After
    <3>2. CASE k \notin Lists
      BY <1>4, <3>2, ShowsOne, Zenon DEF After
    <3> QED
      BY <3>1, <3>2, Zenon
  <2>2. \A n \in Shows(source'[k]) : n <= written + 1
    <3>1. \A n \in Shows(source'[k]) : n = w.n \/ n \in Shows(source[k])
      BY <1>6, Zenon
    <3>2. w.n \in Int /\ Shows(source[k]) \subseteq Int
      BY <1>5
    <3>3. \A m, n \in Int : (m < n => m <= n) /\ n <= n
      OBVIOUS
    <3> QED
      BY <1>2, <1>7, <3>1, <3>2, <3>3, Zenon
  <2>3. \A x \in Keys : \A n \in Shows(source[x]) : n <= written + 1
    BY <1>a, Zenon
  <2>4. k \notin Lists => Len(source'[k]) <= 1
    <3>1. \A a : a = 1 => a <= 1
      OBVIOUS
    <3> QED
      BY <1>6, <3>1, Zenon
  <2>5. \A x \in Keys : Rises(source[x]) /\ (x \notin Lists => Len(source[x]) <= 1)
    BY Zenon DEF DataInv, SourceInv
  <2>6. \A x \in Keys : /\ Rises(source'[x]) /\ (x \notin Lists => Len(source'[x]) <= 1)
                        /\ \A n \in Shows(source'[x]) : n <= written'
    BY <1>3, <1>4, <2>1, <2>2, <2>3, <2>4, <2>5, Zenon
  <2> QED
    BY <2>6, Zenon DEF SourceInv
<1>9. \A p \in Pending : p \in Writes /\ p.n \in Int /\ p.n < w.n
  <2>1. \A p \in Pending : p \in Writes /\ p.n \in PendNums
    BY <1>1, PendingWrites, Zenon
  <2>2. \A n \in PendNums : n < written + 1
    BY Zenon DEF OrderInv, InOrder, Chain, Below, PendNums
  <2> QED
    BY <1>2, <2>1, <2>2 DEF Writes
<1>10. OwnInv'
  <2>1. ASSUME NEW p \in Pending PROVE Owned(p, source')
    <3>1. p.key \in Keys /\ p.n # w.n /\ p.n <= w.n
      <4>1. p \in Writes /\ p.n \in Int /\ p.n < w.n
        BY <1>9, Zenon
      <4>2. p.key \in Keys /\ w.n \in Int
        BY <1>5, <4>1 DEF Writes
      <4>3. \A m, n \in Int : m < n => m # n /\ m <= n
        OBVIOUS
      <4> QED
        BY <4>1, <4>2, <4>3, Zenon
    <3>2. Owned(p, source)
      BY Zenon DEF DataInv, OwnInv
    <3>3. \A x \in Keys : p.n \in Shows(source'[x]) => p.n \in Shows(source[x])
      BY <1>4, <1>6, <3>1, SMTT(30)
    <3>4. p.key \in Lists => p.n \in Shows(source'[p.key])
      BY <1>4, <1>6, <3>1, <3>2, Zenon DEF Owned
    <3>5. \E m \in Shows(source'[p.key]) : p.n <= m
      BY <1>4, <1>6, <3>1, <3>2, Zenon DEF Owned
    <3> QED
      BY <3>2, <3>3, <3>4, <3>5, Zenon DEF Owned
  <2>2. Owned(w, source')
    <3>1. \A x \in Keys : w.n \notin Shows(source[x])
      <4>1. \A n \in Int : ~(n < n)
        OBVIOUS
      <4> QED
        BY <1>a, <4>1, Zenon
    <3>2. w.n \in Shows(source'[k])
      BY <1>6, Zenon
    <3>3. \A x \in Keys : w.n \in Shows(source'[x]) => x = k
      BY <1>4, <3>1, Zenon
    <3>4. w.n <= w.n
      BY <1>5
    <3> QED
      BY <1>2, <3>2, <3>3, <3>4, Zenon DEF Owned
  <2> QED
    BY <1>2, <2>1, <2>2, Zenon DEF OwnInv
<1>11. ASSUME NEW x \in Keys, NEW v \in Values, AtMost(v, source[x])
       PROVE  AtMost(v, source'[x])
  <2>1. CASE x = k
    <3> SUFFICES ASSUME NEW m \in Shows(v) PROVE \E n \in Shows(source'[k]) : m <= n
      BY <2>1, Zenon DEF AtMost
    <3>2. PICK n \in Shows(source[k]) : m <= n
      BY <1>11, <2>1, Zenon DEF AtMost
    <3>3. CASE k \in Lists
      BY <1>6, <3>2, <3>3, Zenon
    <3>4. CASE k \notin Lists
      <4>1. m \in Int /\ n \in Int /\ n < w.n
        BY <1>a, <3>2, ShowsNumbers, SMTT(30)
      <4>2. m <= w.n
        BY <1>5, <3>2, <4>1
      <4> QED
        BY <1>6, <3>4, <4>2, Zenon
    <3> QED
      BY <3>3, <3>4, Zenon
  <2>2. CASE x # k
    BY <1>4, <1>11, <2>2, Zenon
  <2> QED
    BY <2>1, <2>2, Zenon
<1>12. BoundInv'
  BY <1>1, <1>3, <1>11, ChunkTyped, Zenon DEF DataInv, BoundInv, DataTypes
<1>13. CopyInv'
  <2> SUFFICES ASSUME Sound' PROVE CopyInv'
    BY Zenon DEF CopyInv
  <2>1. Sound /\ \A x \in Keys : Loaded(x)' = Loaded(x)
    BY <1>3, Zenon DEF Sound, Loaded
  <2>2. Coming \cup {w.n} \subseteq Coming'
    <3>1. worker # None => worker.n # w.n
      <4>1. worker # None => worker.n \in InHand(worker)
        BY <1>1, HandRange, Zenon DEF Types
      <4>2. \A n \in InHand(worker) : n < written + 1
        BY Zenon DEF OrderInv, InOrder, Chain, Below
      <4>3. ~(written + 1 < written + 1)
        BY <1>5
      <4> QED
        BY <1>2, <4>1, <4>2, <4>3, Zenon
    <3> QED
      BY <1>2, <1>3, <3>1, Zenon DEF Coming
  <2>3. ASSUME NEW x \in Keys, NEW v \in Values, Copy(x, v, source[x], Coming), AtMost(v, source[x])
        PROVE  Copy(x, v, source'[x], Coming')
    <3>1. CASE x = k
      <4>1. \A m \in Shows(v) : m < w.n
        <5>1. Shows(v) \subseteq Int
          BY ShowsNumbers, SMTT(30)
        <5>2. \A m \in Shows(v) : \E n \in Shows(source[k]) : m <= n
          BY <2>3, <3>1, Zenon DEF AtMost
        <5>3. w.n \in Int /\ Shows(source[k]) \subseteq Int
          BY <1>5
        <5>4. \A a, b, c \in Int : a <= b /\ b < c => a < c
          OBVIOUS
        <5> QED
          BY <1>7, <5>1, <5>2, <5>3, <5>4, Zenon
      <4> QED
        BY <1>4, <1>5, <1>7, <2>2, <2>3, <3>1, <4>1, CopyWrite, Zenon
    <3>2. CASE x # k
      <4>1. source'[x] = source[x] /\ Coming \cap Shows(source[x]) \subseteq Coming'
        BY <1>4, <2>2, <3>2, Zenon
      <4> QED
        BY <2>3, <4>1, CopyMore, Zenon
    <3> QED
      BY <3>1, <3>2, Zenon
  <2>4. ASSUME NEW i \in DOMAIN chunks
        PROVE  Copy(chunks[i].key, chunks[i].value, source'[chunks[i].key], Coming')
    BY <1>1, <2>1, <2>3, ChunkTyped, Zenon DEF DataInv, CopyInv, BoundInv, DataTypes
  <2>5. ASSUME NEW x \in Keys, Loaded(x)
        PROVE  Copy(x, store[x], source'[x], Coming')
    BY <1>5, <2>1, <2>3, <2>5, Zenon DEF DataInv, CopyInv, BoundInv
  <2> QED
    BY <1>3, <2>1, <2>4, <2>5, Zenon DEF CopyInv
<1> QED
  BY <1>8, <1>10, <1>12, <1>13, Zenon DEF DataInv

\* A step that writes nothing at the source and brings nothing new.
LEMMA SourceKept ==
  ASSUME SourceInv, OwnInv, UNCHANGED <<source, written>>, Pending' \subseteq Pending
  PROVE  SourceInv' /\ OwnInv'
BY Zenon DEF SourceInv, OwnInv

\* A step that leaves the joiner's store as it is, or empties it.
LEMMA BoundKept ==
  ASSUME BoundInv, source' = source, store' \in {store, Empty}, chunks' \in {chunks, <<>>}
  PROVE  BoundInv'
<1>1. Shows(<<>>) = {} /\ DOMAIN <<>> = {}
  BY ShowsOne
<1>2. \A k \in Keys : AtMost(Empty[k], source[k])
  BY <1>1, Zenon DEF AtMost, Empty
<1> QED
  BY <1>1, <1>2, Zenon DEF BoundInv

\* A step that applies nothing: what comes after the snapshot still does.
LEMMA CopyKept ==
  ASSUME CopyInv, UNCHANGED source, Sound' => Sound,
         chunks' \in {chunks, <<>>},
         Sound' /\ chunks' # <<>> => Coming \subseteq Coming',
         \A k \in Keys : Sound' /\ Loaded(k)' => Loaded(k) /\ store' = store /\ Coming \subseteq Coming'
  PROVE  CopyInv'
<1> SUFFICES ASSUME Sound' PROVE CopyInv'
  BY Zenon DEF CopyInv
<1>1. ASSUME NEW i \in DOMAIN chunks'
      PROVE  Copy(chunks'[i].key, chunks'[i].value, source'[chunks'[i].key], Coming')
  <2>1. chunks' = chunks /\ Coming \subseteq Coming'
    <3>1. DOMAIN <<>> = {}
      BY SMTT(30)
    <3> QED
      BY <1>1, <3>1, Zenon
  <2>2. Copy(chunks[i].key, chunks[i].value, source[chunks[i].key], Coming)
    BY <1>1, <2>1, Zenon DEF CopyInv
  <2>3. Coming \cap Shows(source[chunks[i].key]) \subseteq Coming'
    BY <2>1, Zenon
  <2>4. Copy(chunks[i].key, chunks[i].value, source[chunks[i].key], Coming')
    BY <2>2, <2>3, CopyMore, Zenon
  <2> QED
    BY <2>1, <2>4, Zenon
<1>2. ASSUME NEW k \in Keys, Loaded(k)' PROVE Copy(k, store'[k], source'[k], Coming')
  <2>1. store' = store /\ Copy(k, store[k], source[k], Coming)
    BY <1>2, Zenon DEF CopyInv
  <2>2. Coming \cap Shows(source[k]) \subseteq Coming'
    BY <1>2, Zenon
  <2>3. Copy(k, store[k], source[k], Coming')
    BY <2>1, <2>2, CopyMore, Zenon
  <2> QED
    BY <2>1, <2>3, Zenon
<1> QED
  BY <1>1, <1>2, Zenon DEF CopyInv

\* A write is applied, by the worker or the drain.
LEMMA DataApply ==
  ASSUME TypeOK, OrderInv, FlowInv, DataInv, NEW w \in Writes, Applies(w),
         UNCHANGED <<source, written, chunks>>, Pending' \subseteq Pending,
         Sound' => Sound, Coming' = PendNums',
         chunks # <<>> => Coming \subseteq Coming',
         \A k \in Keys : Loaded(k)' => Loaded(k)
  PROVE  DataInv'
<1>1. DataTypes /\ Types
  BY DataTyped, Zenon
<1>2. w \in Pending /\ Owned(w, source) /\ w.key \in Keys /\ w.n \in 1..MaxWrites
  BY Zenon DEF Applies, DataInv, OwnInv, Writes
<1>3. /\ store' \in [Keys -> Values]
      /\ store'[w.key] = After(w.key, store[w.key], w.n)
      /\ \A k \in Keys \ {w.key} : store'[k] = store[k]
  BY <1>1, ApplyAfter DEF DataTypes, Applies
<1>4. \A k \in Keys : source[k] \in Values /\ store[k] \in Values
  BY <1>1, Zenon DEF DataTypes
<1>5. BoundInv'
  <2>1. AtMost(store'[w.key], source[w.key])
    <3>1. Shows(store'[w.key]) \subseteq Shows(store[w.key]) \cup {w.n}
      <4> DEFINE v == store[w.key]
                 x == w.key
                 n == w.n
                 u == After(x, v, n)
      <4>1. v \in Values /\ n \in 1..MaxWrites
        BY <1>2, <1>4, Zenon
      <4> HIDE DEF v, x, n
      <4>2. /\ x \in Lists => Shows(u) = Shows(v) \cup {n}
            /\ x \notin Lists => Shows(u) = {n} /\ Len(u) = 1
        BY <4>1, AfterShows, Zenon
      <4> HIDE DEF u
      <4>3. Shows(u) \subseteq Shows(v) \cup {n}
        BY <4>2, Zenon
      <4> QED
        BY <1>3, <4>3, Zenon DEF u, v, x, n
    <3> QED
      BY <1>2, <3>1, Zenon DEF AtMost, DataInv, BoundInv, Owned
  <2> QED
    BY <1>3, <2>1, Zenon DEF DataInv, BoundInv
<1>6. CopyInv'
  <2> SUFFICES ASSUME Sound' PROVE CopyInv'
    BY Zenon DEF CopyInv
  <2>1. Sound /\ Coming \subseteq PendNums /\ Coming \subseteq Int /\ PendNums \subseteq Int
    BY <1>1, PendingWrites, Zenon DEF Coming
  <2>2. \A c \in Coming : w.n <= c /\ (c = w.n \/ c \in Coming')
    BY <2>1, Zenon DEF Applies
  <2>3. ASSUME NEW i \in DOMAIN chunks'
        PROVE  Copy(chunks'[i].key, chunks'[i].value, source'[chunks'[i].key], Coming')
    <3>1. Coming \subseteq Coming'
      BY <2>3, SMTT(30)
    <3>2. Copy(chunks[i].key, chunks[i].value, source[chunks[i].key], Coming)
      BY <2>1, <2>3, Zenon DEF DataInv, CopyInv
    <3>3. Coming \cap Shows(source[chunks[i].key]) \subseteq Coming'
      BY <3>1, Zenon
    <3>4. Copy(chunks[i].key, chunks[i].value, source[chunks[i].key], Coming')
      BY <3>2, <3>3, CopyMore, Zenon
    <3> QED
      BY <3>4, Zenon
  <2>4. ASSUME NEW k \in Keys, Loaded(k)' PROVE Copy(k, store'[k], source'[k], Coming')
    <3>1. Copy(k, store[k], source[k], Coming)
      BY <2>1, <2>4, Zenon DEF DataInv, CopyInv
    <3>2. CASE k = w.key
      <4>1. \A m \in Shows(source[k]) : w.n < m => m \in Coming'
        <5> SUFFICES ASSUME NEW m \in Shows(source[k]), w.n < m PROVE m \in Coming'
          BY Zenon
        <5>1. m \in Int /\ m <= written
          <6>1. m \in 1..MaxWrites
            BY <1>4, ShowsNumbers, Zenon
          <6>2. m <= written
            BY Zenon DEF DataInv, SourceInv
          <6> QED
            BY <6>1, <6>2
        <5>2. w.n \in PendNums /\ w.n \in Int /\ written \in Int
          <6>1. written \in Int
            BY <1>1 DEF Types
          <6> QED
            BY <1>1, <1>2, <6>1, PendingWrites, Zenon
        <5>3. m \in w.n .. written
          BY <5>1, <5>2
        <5>4. lost = {} /\ Wiped = {}
          BY <2>1, NumsEmpty, Zenon DEF Sound, Wiped
        <5>5. m \in PendNums
          BY <5>2, <5>3, <5>4, Zenon DEF FlowInv, NoGap
        <5> QED
          BY <5>1, <5>2, <5>5 DEF Applies
      <4>2. k \notin Lists => Len(source[k]) <= 1
        BY Zenon DEF DataInv, SourceInv
      <4>3. \E m \in Shows(source[k]) : w.n <= m
        BY <1>2, <3>2, Zenon DEF Owned
      <4>4. k \in Lists => w.n \in Shows(source[k])
        BY <1>2, <3>2, Zenon DEF Owned
      <4>5. Copy(k, After(k, store[k], w.n), source[k], Coming')
        BY <1>2, <1>4, <2>1, <2>2, <3>1, <4>1, <4>2, <4>3, <4>4, CopyApply, Zenon
      <4> QED
        BY <1>3, <3>2, <4>5, Zenon
    <3>3. CASE k # w.key
      <4>1. w.n \notin Shows(source[k])
        BY <1>2, <3>3, Zenon DEF Owned
      <4>2. Coming \cap Shows(source[k]) \subseteq Coming'
        BY <2>2, <4>1, Zenon
      <4>3. Copy(k, store[k], source[k], Coming')
        BY <3>1, <4>2, CopyMore, Zenon
      <4> QED
        BY <1>3, <3>3, <4>3, Zenon
    <3> QED
      BY <3>2, <3>3, Zenon
  <2> QED
    BY <2>3, <2>4, Zenon DEF CopyInv
<1> QED
  BY <1>5, <1>6, SourceKept, Zenon DEF DataInv

\* The source reads a key for the snapshot.
LEMMA DataRead ==
  ASSUME TypeOK, OrderInv, Phases, FlowInv, DataInv, NEW k \in Keys, ReadKey(k)
  PROVE  DataInv'
<1>1. DataTypes /\ Types
  BY DataTyped, Zenon
<1>2. /\ k \in toRead /\ toRead' = toRead \ {k}
      /\ UNCHANGED <<writer, queues, lost, store, jpc, ok, buffer>>
      /\ chunks' = IF source[k] = <<>> THEN chunks ELSE Append(chunks, [key |-> k, value |-> source[k]])
  BY Zenon DEF ReadKey, writer, queues, links, drain, attempts
<1>3. jpc = "pulling" /\ jpc' = "pulling"
  BY <1>2, Zenon DEF Phases
<1>4. Pending' = Pending /\ PendNums' = PendNums /\ Coming' = Coming /\ Sound' = Sound
  BY <1>2, Zenon DEF queues, Pending, PendNums, Coming, Sound
<1>5. /\ source[k] \in Values /\ store[k] \in Values /\ Rises(source[k])
      /\ k \notin Lists => Len(source[k]) <= 1
  BY <1>1, Zenon DEF DataTypes, DataInv, SourceInv
<1>6. Copy(k, source[k], source[k], Coming)
  BY <1>5, CopyRead, Zenon
<1>7. AtMost(source[k], source[k])
  <2>1. Shows(source[k]) \subseteq Int
    BY <1>5, ShowsNumbers
  <2> QED
    BY <2>1 DEF AtMost
<1>8. SourceInv' /\ OwnInv'
  BY <1>2, <1>4, SourceKept, Zenon DEF DataInv, writer
<1>9. CASE source[k] = <<>>
  <2>1. chunks' = chunks
    BY <1>2, <1>9, Zenon
  <2>2. BoundInv'
    BY <1>2, <2>1, BoundKept, Zenon DEF DataInv, writer
  <2>3. store[k] = source[k]
    <3>1. Shows(source[k]) = {}
      BY <1>9, ShowsOne, Zenon
    <3>2. Shows(store[k]) = {}
      BY <3>1, Zenon DEF DataInv, BoundInv, AtMost
    <3>3. Len(store[k]) \in Nat /\ DOMAIN store[k] = 1 .. Len(store[k])
      BY <1>5, ValueList, Zenon
    <3>4. Len(store[k]) = 0
      <4>1. 1 \notin DOMAIN store[k]
        BY <3>2, Zenon DEF Shows
      <4> QED
        BY <3>3, <4>1
    <3> QED
      BY <1>5, <1>9, <3>4, EmptySeq, Zenon DEF Values
  <2>4. \A x \in Keys : Loaded(x)' => x = k \/ Loaded(x)
    BY <1>2, <1>3, <2>1, Zenon DEF Loaded
  <2>5. CopyInv'
    <3> SUFFICES ASSUME Sound' PROVE CopyInv'
      BY Zenon DEF CopyInv
    <3>1. \A i \in DOMAIN chunks : Copy(chunks[i].key, chunks[i].value, source[chunks[i].key], Coming)
      BY <1>4, Zenon DEF DataInv, CopyInv
    <3>2. ASSUME NEW x \in Keys, Loaded(x)' PROVE Copy(x, store[x], source[x], Coming)
      BY <1>4, <1>6, <2>3, <2>4, <3>2, Zenon DEF DataInv, CopyInv
    <3> QED
      BY <1>2, <1>4, <2>1, <3>1, <3>2, Zenon DEF CopyInv, writer
  <2> QED
    BY <1>8, <2>2, <2>5, Zenon DEF DataInv
<1>10. CASE source[k] # <<>>
  <2> DEFINE c == [key |-> k, value |-> source[k]]
  <2>1. c \in Chunks /\ c.key = k /\ c.value = source[k] /\ chunks' = Append(chunks, c)
    BY <1>2, <1>5, <1>10, Zenon DEF Chunks
  <2> HIDE DEF c
  <2>2. /\ Len(chunks) \in Nat /\ DOMAIN chunks = 1 .. Len(chunks) /\ DOMAIN chunks' = 1 .. Len(chunks) + 1
        /\ chunks'[Len(chunks) + 1] = c /\ \A i \in DOMAIN chunks : chunks'[i] = chunks[i]
    <3>1. chunks \in Seq(Chunks)
      BY <1>1, Zenon DEF DataTypes
    <3> QED
      BY <2>1, <3>1, AppendProperties, LenProperties
  <2>3. /\ \A i \in DOMAIN chunks' : (i \in DOMAIN chunks /\ chunks'[i] = chunks[i]) \/ chunks'[i] = c
        /\ \A i \in DOMAIN chunks : i \in DOMAIN chunks'
        /\ \E i \in DOMAIN chunks' : chunks'[i] = c
    BY <2>2
  <2>4. BoundInv'
    BY <1>2, <1>7, <2>1, <2>3, Zenon DEF DataInv, BoundInv, writer
  <2>5. \A x \in Keys : Loaded(x)' => Loaded(x)
    BY <1>2, <1>3, <2>1, <2>2, <2>3, Zenon DEF Loaded
  <2>6. CopyInv'
    <3> SUFFICES ASSUME Sound' PROVE CopyInv'
      BY Zenon DEF CopyInv
    <3>1. ASSUME NEW i \in DOMAIN chunks'
          PROVE  Copy(chunks'[i].key, chunks'[i].value, source[chunks'[i].key], Coming)
      BY <1>4, <1>6, <2>1, <2>3, Zenon DEF DataInv, CopyInv
    <3>2. ASSUME NEW x \in Keys, Loaded(x)' PROVE Copy(x, store[x], source[x], Coming)
      BY <1>4, <2>5, <3>2, Zenon DEF DataInv, CopyInv
    <3> QED
      BY <1>2, <1>4, <3>1, <3>2, Zenon DEF CopyInv, writer
  <2> QED
    BY <1>8, <2>4, <2>6, Zenon DEF DataInv
<1> QED
  BY <1>9, <1>10, Zenon

\* The next entry of the snapshot replaces its key.
LEMMA DataChunk ==
  ASSUME TypeOK, OrderInv, Phases, FlowInv, DataInv, ApplyChunk
  PROVE  DataInv'
<1>1. DataTypes /\ Types
  BY DataTyped, Zenon
<1> DEFINE c == Head(chunks)
<1>2. /\ chunks # <<>> /\ chunks' = Tail(chunks)
      /\ store' = [store EXCEPT ![c.key] = c.value]
      /\ UNCHANGED <<writer, queues, lost, jpc, toRead, ok>>
  BY Zenon DEF ApplyChunk, writer, queues, links, drain, attempts
<1>3. /\ c \in Chunks /\ c = chunks[1] /\ 1 \in DOMAIN chunks
      /\ \A i \in DOMAIN chunks' : i + 1 \in DOMAIN chunks /\ chunks'[i] = chunks[i + 1]
      /\ \A i \in DOMAIN chunks : i = 1 \/ (i - 1 \in DOMAIN chunks' /\ chunks'[i - 1] = chunks[i])
  <2>1. chunks \in Seq(Chunks)
    BY <1>1, Zenon DEF DataTypes
  <2>2. /\ Head(chunks) \in Chunks /\ Tail(chunks) \in Seq(Chunks) /\ Len(Tail(chunks)) = Len(chunks) - 1
        /\ \A i \in 1 .. Len(Tail(chunks)) : Tail(chunks)[i] = chunks[i + 1]
    BY <1>2, <2>1, HeadTailProperties, Zenon
  <2>3. /\ Len(chunks) \in Nat \ {0} /\ DOMAIN chunks = 1 .. Len(chunks) /\ Head(chunks) = chunks[1]
        /\ DOMAIN Tail(chunks) = 1 .. Len(chunks) - 1
    BY <1>2, <2>1, <2>2, LenProperties, EmptySeq
  <2> QED
    BY <1>2, <2>2, <2>3
<1> HIDE DEF c
<1>4. jpc = "pulling" /\ jpc' = "pulling"
  BY <1>2, Zenon DEF Phases
<1>5. Pending' = Pending /\ PendNums' = PendNums /\ Coming' = Coming /\ Sound' = Sound
  BY <1>2, Zenon DEF queues, Pending, PendNums, Coming, Sound
<1>6. /\ c.key \in Keys /\ c.value \in Values /\ store'[c.key] = c.value
      /\ \A k \in Keys \ {c.key} : store'[k] = store[k]
  BY <1>1, <1>2, <1>3, Zenon DEF Chunks, DataTypes
<1>7. SourceInv' /\ OwnInv'
  BY <1>2, <1>5, SourceKept, Zenon DEF DataInv, writer
<1>8. BoundInv'
  <2>1. AtMost(c.value, source[c.key])
    BY <1>3, Zenon DEF DataInv, BoundInv
  <2>2. \A k \in Keys : AtMost(store'[k], source[k])
    BY <1>6, <2>1, Zenon DEF DataInv, BoundInv
  <2>3. \A i \in DOMAIN chunks' : AtMost(chunks'[i].value, source[chunks'[i].key])
    BY <1>3, Zenon DEF DataInv, BoundInv
  <2> QED
    BY <1>2, <2>2, <2>3, Zenon DEF BoundInv, writer
<1>9. \A k \in Keys \ {c.key} : Loaded(k)' => Loaded(k)
  <2> SUFFICES ASSUME NEW k \in Keys \ {c.key}, Loaded(k)', NEW i \in DOMAIN chunks
               PROVE  chunks[i].key # k /\ k \notin toRead
    BY <1>3, <1>4, Zenon DEF Loaded
  <2>1. k \notin toRead /\ \A j \in DOMAIN chunks' : chunks'[j].key # k
    BY <1>2, <1>4, Zenon DEF Loaded
  <2> QED
    BY <1>3, <2>1, Zenon
<1>10. CopyInv'
  <2> SUFFICES ASSUME Sound' PROVE CopyInv'
    BY Zenon DEF CopyInv
  <2>1. /\ \A i \in DOMAIN chunks : Copy(chunks[i].key, chunks[i].value, source[chunks[i].key], Coming)
        /\ \A k \in Keys : Loaded(k) => Copy(k, store[k], source[k], Coming)
    BY <1>5, Zenon DEF DataInv, CopyInv
  <2>2. \A i \in DOMAIN chunks' : Copy(chunks'[i].key, chunks'[i].value, source[chunks'[i].key], Coming)
    BY <1>3, <2>1, Zenon
  <2>3. ASSUME NEW k \in Keys, Loaded(k)' PROVE Copy(k, store'[k], source[k], Coming)
    <3>1. CASE k = c.key
      BY <1>3, <1>6, <2>1, <3>1, Zenon
    <3>2. CASE k # c.key
      BY <1>6, <1>9, <2>1, <2>3, <3>2, Zenon
    <3> QED
      BY <3>1, <3>2, Zenon
  <2> QED
    BY <1>2, <1>5, <2>2, <2>3, Zenon DEF CopyInv, writer
<1> QED
  BY <1>7, <1>8, <1>10, Zenon DEF DataInv

\* The steps that apply a write.
LEMMA DataApplies ==
  ASSUME TypeOK, OrderInv, Phases, FlowInv, DataInv, (Act /\ ~worker.buffering) \/ DrainApply
  PROVE  DataInv'
<1>1. CASE Act /\ ~worker.buffering
  <2>1. PICK w \in Writes : w.n = worker.n /\ Applies(w)
    BY <1>1, FlowApply, Zenon
  <2>2. Pending' \subseteq Pending
    BY <1>1, FlowApply, Zenon
  <2>3. /\ worker # None /\ worker' = None
        /\ UNCHANGED <<source, written, chunks, toRead, lost, buffer, jpc, ok>>
    BY <1>1, Zenon DEF Act, writer, links, snapshot, drain, attempts
  <2>4. Coming' = PendNums' /\ (Sound' => Sound) /\ \A k \in Keys : Loaded(k)' => Loaded(k)
    BY <2>3, Zenon DEF Coming, Sound, Loaded
  <2>5. chunks # <<>> => Coming \subseteq Coming'
    <3>1. chunks # <<>> => jpc = "pulling"
      BY Zenon DEF Phases
    <3> QED
      BY <1>1, <2>1, <2>3, <2>4, <3>1, Zenon DEF Coming, Applies
  <2> QED
    BY <2>1, <2>2, <2>3, <2>4, <2>5, DataApply, Zenon
<1>2. CASE DrainApply
  <2>1. PICK w \in Writes : Applies(w)
    BY <1>2, FlowDrainApply, Zenon
  <2>2. Pending' \subseteq Pending
    BY <1>2, FlowDrainApply, Zenon
  <2>3. /\ jpc = "apply" /\ jpc' = "drain"
        /\ UNCHANGED <<source, written, chunks, lost>>
    BY <1>2, Zenon DEF DrainApply, goto, writer, links, snapshot, attempts
  <2>4. Coming' = PendNums' /\ (Sound' => Sound) /\ \A k \in Keys : Loaded(k)' => Loaded(k)
    BY <2>3, Zenon DEF Coming, Sound, Loaded
  <2>5. chunks = <<>>
    BY <2>3, Zenon DEF Phases
  <2> QED
    BY <2>1, <2>2, <2>3, <2>4, <2>5, DataApply, Zenon
<1> QED
  BY <1>1, <1>2, Zenon

\* The steps that move writes and apply none.
LEMMA DataMoves ==
  ASSUME TypeOK, OrderInv, Phases, FlowInv, DataInv,
         Send \/ Take \/ (Act /\ worker.buffering) \/ DrainTake \/ DrainFails \/ ClearBuffer
  PROVE  DataInv'
<1>1. CASE Send
  <2>1. /\ UNCHANGED <<source, written, store, chunks, toRead, worker, buffer, jpc, ok>>
        /\ sourceLink => lost' = lost
        /\ ~sourceLink /\ SnapshotTaken => lost' # {}
        /\ lost \subseteq lost'
    BY <1>1, Zenon DEF Send, links, snapshot, drain, attempts
  <2>2. Pending' \subseteq Pending /\ (sourceLink => PendNums' = PendNums)
    BY <1>1, FlowSend, Zenon
  <2>3. Sound' => Sound
    BY <2>1, Zenon DEF Sound
  <2>4. Sound' /\ SnapshotTaken => Coming' = Coming
    BY <2>1, <2>2, Zenon DEF Sound, Coming
  <2>5. chunks # <<>> => SnapshotTaken
    BY Zenon DEF Phases, SnapshotTaken
  <2>6. \A k \in Keys : Loaded(k)' => Loaded(k) /\ SnapshotTaken
    BY <2>1, Zenon DEF Loaded, SnapshotTaken
  <2>7. CopyInv'
    BY <2>1, <2>3, <2>4, <2>5, <2>6, CopyKept, Zenon DEF DataInv
  <2> QED
    BY <2>1, <2>2, <2>7, SourceKept, BoundKept, Zenon DEF DataInv
<1>2. CASE Take
  <2>1. /\ UNCHANGED <<source, written, store, chunks, toRead, buffer, jpc, ok, lost>>
        /\ worker = None /\ worker'.buffering = active
    BY <1>2, Zenon DEF Take, writer, links, snapshot, drain, attempts
  <2>2. Pending' \subseteq Pending /\ PendNums' = PendNums
    BY <1>2, FlowTake, Zenon
  <2>3. Coming' = Coming
    BY <2>1, <2>2, Zenon DEF Coming, Phases
  <2>4. (Sound' => Sound) /\ \A k \in Keys : Loaded(k)' => Loaded(k)
    BY <2>1, Zenon DEF Sound, Loaded
  <2>5. CopyInv'
    BY <2>1, <2>3, <2>4, CopyKept, Zenon DEF DataInv
  <2> QED
    BY <2>1, <2>2, <2>5, SourceKept, BoundKept, Zenon DEF DataInv
<1>3. CASE Act /\ worker.buffering
  <2>1. /\ UNCHANGED <<source, written, store, chunks, toRead, jpc, ok>>
        /\ worker' = None /\ (jpc = "clear" => lost' # {})
    BY <1>3, Zenon DEF Act, enqueueBootstrapRepl, writer, links, snapshot, drain, attempts, Phases
  <2>2. Pending' \subseteq Pending /\ (lost' = {} => PendNums' = PendNums /\ lost = {})
    BY <1>3, FlowBuffer, Zenon
  <2>3. Sound' => Coming' = Coming /\ Sound
    BY <1>3, <2>1, <2>2, Zenon DEF Coming, Sound
  <2>4. \A k \in Keys : Loaded(k)' => Loaded(k)
    BY <2>1, Zenon DEF Loaded
  <2>5. CopyInv'
    BY <2>1, <2>3, <2>4, CopyKept, Zenon DEF DataInv
  <2> QED
    BY <2>1, <2>2, <2>5, SourceKept, BoundKept, Zenon DEF DataInv
<1>4. CASE DrainTake
  <2>1. /\ UNCHANGED <<source, written, store, chunks, lost>>
        /\ jpc = "drain" /\ jpc' = "apply"
    BY <1>4, Zenon DEF DrainTake, goto, writer, links, snapshot, attempts
  <2>2. Pending' \subseteq Pending /\ PendNums' = PendNums
    BY <1>4, FlowDrainTake, Zenon
  <2>3. Coming' = Coming /\ (Sound' => Sound) /\ \A k \in Keys : Loaded(k)
    BY <2>1, <2>2, Zenon DEF Coming, Sound, Loaded
  <2>4. CopyInv'
    BY <2>1, <2>3, CopyKept, Zenon DEF DataInv
  <2> QED
    BY <2>1, <2>2, <2>4, SourceKept, BoundKept, Zenon DEF DataInv
<1>5. CASE DrainFails
  <2>1. /\ UNCHANGED <<source, written, store, chunks, lost>>
        /\ jpc = "apply" /\ jpc' = "off" /\ ok' = FALSE
    BY <1>5, Zenon DEF DrainFails, goto, writer, links, snapshot
  <2>2. Pending' \subseteq Pending
    BY <1>5, FlowDrainApply, Zenon
  <2>3. chunks' = <<>> /\ (Sound' => Sound) /\ \A k \in Keys : ~Loaded(k)'
    BY <2>1, Zenon DEF Phases, Sound, Loaded
  <2>4. CopyInv'
    BY <2>1, <2>3, CopyKept, Zenon DEF DataInv
  <2> QED
    BY <2>1, <2>2, <2>4, SourceKept, BoundKept, Zenon DEF DataInv
<1>6. CASE ClearBuffer
  <2>1. /\ UNCHANGED <<source, written, store, chunks, ok>>
        /\ jpc = "clear" /\ jpc' = (IF ok THEN "ready" ELSE "backoff")
    BY <1>6, Zenon DEF ClearBuffer, goto, writer, links, snapshot, drain, attempts
  <2>2. Pending' \subseteq Pending /\ (lost' = {} => lost = {} /\ buffer = <<>> /\ PendNums' = PendNums)
    BY <1>6, FlowClear, Zenon
  <2>3. (Sound' => Sound /\ Coming' = Coming) /\ \A k \in Keys : Loaded(k)' => Loaded(k)
    BY <2>1, <2>2, Zenon DEF Coming, Sound, Loaded
  <2>4. CopyInv'
    BY <2>1, <2>3, CopyKept, Zenon DEF DataInv
  <2> QED
    BY <2>1, <2>2, <2>4, SourceKept, BoundKept, Zenon DEF DataInv
<1> QED
  BY <1>1, <1>2, <1>3, <1>4, <1>5, <1>6, Zenon

\* The steps of bootstrapUntilSynced that move no write.
LEMMA DataPhases ==
  ASSUME TypeOK, OrderInv, Phases, FlowInv, DataInv,
         \/ SourceLinks \/ JoinerLinks \/ Activate \/ Request \/ NextSource \/ AttemptFails
         \/ SnapshotDone \/ DrainRest \/ DrainReturns \/ FlagOff \/ UNCHANGED vars
  PROVE  DataInv'
<1>1. CASE Request
  <2>1. /\ UNCHANGED <<source, written, chunks>> /\ store' = Empty
        /\ jpc = "await" /\ jpc' = "pulling" /\ toRead' = Keys
    BY <1>1, Zenon DEF Request, goto, writer, links, drain, attempts
  <2>2. Pending' \subseteq Pending
    BY <1>1, FlowRequest, DataTyped, Zenon
  <2>3. chunks' = <<>> /\ \A k \in Keys : ~Loaded(k)'
    BY <2>1, Zenon DEF Phases, Loaded
  <2>4. CopyInv'
    <3>1. DOMAIN <<>> = {}
      OBVIOUS
    <3> QED
      BY <2>3, <3>1, Zenon DEF CopyInv
  <2> QED
    BY <2>1, <2>2, <2>4, SourceKept, BoundKept, Zenon DEF DataInv
<1>2. CASE \/ SourceLinks \/ JoinerLinks \/ Activate \/ NextSource \/ AttemptFails
           \/ SnapshotDone \/ DrainRest \/ DrainReturns \/ FlagOff \/ UNCHANGED vars
  <2>1. Pending' = Pending /\ PendNums' = PendNums
    BY <1>2, FlowElsewhere, Zenon DEF Elsewhere
  <2>2. /\ UNCHANGED <<source, written, worker, buffer, lost>>
        /\ store' \in {store, Empty} /\ chunks' \in {chunks, <<>>}
        /\ jpc' = "clear" => jpc \in {"clear", "off"}
        /\ jpc = "clear" => jpc' = "clear"
        /\ jpc' = "pulling" => jpc = "pulling"
    BY <1>2, Zenon DEF SourceLinks, JoinerLinks, Activate, NextSource, AttemptFails, SnapshotDone, DrainRest,
                DrainReturns, FlagOff, goto, writer, links, drain, attempts, snapshot, vars
  <2>3. Coming \subseteq Coming' /\ (Sound' => Sound)
    BY <2>1, <2>2, Zenon DEF Coming, Sound
  <2>4. \A k \in Keys : Loaded(k)' => Loaded(k) /\ store' = store
    <3>1. CASE SourceLinks \/ JoinerLinks \/ DrainRest \/ FlagOff \/ UNCHANGED vars
      BY <3>1, Zenon DEF SourceLinks, JoinerLinks, DrainRest, FlagOff, goto, writer, links, drain,
                  attempts, snapshot, vars, Loaded
    <3>2. CASE Activate \/ NextSource \/ AttemptFails
      BY <3>2, Zenon DEF Activate, NextSource, AttemptFails, goto, Loaded
    <3>3. CASE DrainReturns
      BY <3>3, Zenon DEF DrainReturns, goto, Loaded
    <3>4. CASE SnapshotDone
      <4>1. /\ jpc = "pulling" /\ toRead = {} /\ chunks = <<>> /\ store' = store
        BY <3>4, Zenon DEF SnapshotDone
      <4>2. DOMAIN <<>> = {}
        OBVIOUS
      <4> QED
        BY <4>1, <4>2, Zenon DEF Loaded
    <3> QED
      BY <1>2, <3>1, <3>2, <3>3, <3>4, Zenon
  <2>5. CopyInv'
    BY <2>2, <2>3, <2>4, CopyKept, Zenon DEF DataInv
  <2> QED
    BY <2>1, <2>2, <2>5, SourceKept, BoundKept, Zenon DEF DataInv
<1> QED
  BY <1>1, <1>2, Zenon

-----------------------------------------------------------------------------
CopyOfSource == Phases /\ FlowInv /\ DataInv

\* Every step of Bootstrap keeps the flow and the data.
LEMMA CopyStep ==
  ASSUME TypeOK, OrderInv, CopyOfSource, [Next]_vars
  PROVE  CopyOfSource'
<1> USE DEF CopyOfSource
<1>1. Phases'
  BY PhasesStep, Zenon
<1>2. FlowInv'
  <2>1. lost \subseteq Int
    BY DataTyped, Zenon
  <2>2. ASSUME NEW k \in Keys, Write(k) PROVE FlowInv'
    BY <2>1, <2>2, FlowWrite, Zenon
  <2>3. CASE Elsewhere \/ UNCHANGED vars
    BY <2>3, FlowElsewhere, Zenon
  <2>4. CASE Act
    BY <2>4, FlowApply, FlowBuffer, Zenon
  <2> QED
    BY <2>1, <2>2, <2>3, <2>4, FlowSend, FlowTake, FlowRequest, FlowDrainTake, FlowDrainApply, FlowClear, Zenon
       DEF Next, Joiner, Worker, Elsewhere
<1>3. DataInv'
  <2>1. ASSUME NEW k \in Keys, Write(k) \/ ReadKey(k) PROVE DataInv'
    BY <2>1, DataWrite, DataRead, Zenon
  <2>2. CASE Act
    BY <2>2, DataApplies, DataMoves, Zenon
  <2> QED
    BY <2>1, <2>2, DataChunk, DataApplies, DataMoves, DataPhases, Zenon DEF Next, Joiner, Worker
<1> QED
  BY <1>1, <1>2, <1>3, Zenon

\* A joiner that serves and has nothing more to receive shows, key by key, what the
\* source shows, unless a write was lost on the way: for any keys, any interleaving
\* of the snapshot, the writes, the drain and the switch-off, and any number of
\* failed attempts and resyncs (pullSnapshotOnce, DrainBootstrapInboundQueue).
THEOREM LossAloneDiverges == Spec => []OnlyLossDiverges
<1>1. Init => CopyOfSource
  <2> SUFFICES ASSUME Init PROVE CopyOfSource
    BY Zenon
  <2>1. /\ Nums(<<>>) = {} /\ Items(<<>>) = {} /\ InHand(None) = {} /\ Entry(None) = {}
        /\ DOMAIN <<>> = {} /\ Shows(<<>>) = {} /\ Rises(<<>>) /\ Len(<<>>) = 0
    BY NumsEmpty, ShowsOne DEF Items, InHand, Entry, None
  <2>2. Pending = {} /\ PendNums = {}
    BY <2>1, Zenon DEF Init, Pending, PendNums
  <2>3. Phases
    BY Zenon DEF Init, Phases
  <2>4. FlowInv
    BY <2>2, Zenon DEF Init, FlowInv, Below, NoGap
  <2>5. \A k \in Keys : source[k] = <<>> /\ store[k] = <<>> /\ ~Loaded(k)
    BY Zenon DEF Init, Empty, Loaded
  <2>6. SourceInv
    <3>1. Len(<<>>) <= 1
      OBVIOUS
    <3> QED
      BY <2>1, <2>5, <3>1, Zenon DEF SourceInv
  <2>7. OwnInv /\ BoundInv /\ CopyInv
    BY <2>1, <2>2, <2>5, Zenon DEF Init, OwnInv, BoundInv, CopyInv, AtMost
  <2> QED
    BY <2>3, <2>4, <2>6, <2>7, Zenon DEF CopyOfSource, DataInv
<1>2. TypeOK /\ OrderInv /\ CopyOfSource /\ [Next]_vars => CopyOfSource'
  BY CopyStep, Zenon
<1>3. TypeOK /\ OrderInv /\ CopyOfSource => OnlyLossDiverges
  <2> SUFFICES ASSUME TypeOK, OrderInv, CopyOfSource, Settled, lost = {}, NEW k \in Keys
               PROVE  FirstShown(store[k]) = source[k]
    BY Zenon DEF OnlyLossDiverges
  <2>1. /\ source[k] \in Values /\ store[k] \in Values /\ Rises(source[k])
        /\ AtMost(store[k], source[k])
    BY DataTyped, Zenon DEF DataTypes, CopyOfSource, DataInv, SourceInv, BoundInv
  <2>2. Sound /\ Loaded(k)
    BY Zenon DEF Settled, Sound, Loaded
  <2>3. Coming = {}
    <3>1. held = None /\ ~active
      BY Zenon DEF Settled, OrderInv, Overtaken, CopyOfSource, Phases
    <3>2. Nums(buffer) = {}
      BY <3>1, Zenon DEF Settled, OrderInv, Overtaken
    <3> QED
      BY <3>1, <3>2, NumsEmpty, Zenon DEF Settled, Coming, PendNums, InHand, None
  <2>4. Copy(k, store[k], source[k], {})
    BY <2>2, <2>3, Zenon DEF CopyOfSource, DataInv, CopyInv
  <2> QED
    BY <2>1, <2>4, CopyEnd, Zenon
<1>4. Spec => []CopyOfSource
  BY <1>1, <1>2, TypeCorrect, OrderInvariant, PTL DEF Spec
<1> QED
  BY <1>3, <1>4, TypeCorrect, OrderInvariant, PTL
=============================================================================
