---------------------------- MODULE Membership ----------------------------
(***************************************************************************)
(* The peers one node knows, and the goroutines that dial them:            *)
(* AddPeerFrom, RemovePeer, ensureDial, dialLoop and peerMeta of           *)
(* peer/service.go, forgetting (peer/forget.go), what discovery, inbound   *)
(* connections, gossip, LEAVE, the management API and a hot reload do to   *)
(* the list (server/discovery.go, server/mgmt.go, server/server.go).       *)
(*                                                                         *)
(* The list, the records and the table of dial loops have a lock each, so  *)
(* an operation is a sequence of steps that interleave with those of other *)
(* goroutines.  Time is a tick every peer_forget_after: what happened two  *)
(* ticks ago is older than that.                                           *)
(***************************************************************************)
EXTENDS Integers, Sequences, FiniteSets, Functions

CONSTANTS Addrs,
          Alias,        \* addresses that turn out to reach this node itself
          Starts,       \* the peers in the beginning: [file, others, source], source of the others
          Procs,        \* goroutines that change the membership
          Repertoire,   \* the operations each of them may carry out
          MaxOps,       \* bound: the operations each of them carries out
          MaxTicks      \* bound: ticks of the clock

Sources == {"config", "manual", "learned", "discovery"}

\* No file names an address twice; what discovery and gossip bring may.
Lists == {ps \in Seq(Addrs) : IsInjective(ps)}
ASSUME StartsKnown ==
    \A s \in Starts : s.file \o s.others \in Lists /\ s.file \in Seq(Addrs) /\ s.others \in Seq(Addrs)
                      /\ s.source \in Sources
ASSUME OperationsKnown ==
    \A p \in Procs : Repertoire[p] \subseteq
        ({"learn", "add", "remove", "leave"} \X Addrs) \cup ({"gossip", "discover"} \X Seq(Addrs))
            \cup {<<"reap">>} \cup ({"reload"} \X Lists)

VARIABLES peers,     \* cfg.Peers
          configMu,  \* who holds the lock of AddPeerFrom and RemovePeer
          newCfg,    \* the list its holder has made and is about to store
          meta,      \* peerMeta: the source of an address and its age since it last worked
          dial,      \* activeDial: does an address have an entry?
          loop,      \* the dial loop of an address: none, dialing, linked or ending
          cancelled, \* addresses whose loop has been cancelled
          accepted,  \* addresses with an accepted link
          todo,      \* per process: the jobs left of its operation
          ops, ticks,
          quiet,     \* history: addresses without a link since the last tick
          silent,    \* history: addresses without a link for a whole tick
          claimed,   \* history: what the operator has asked for, in the file or by hand
          alone,     \* history: processes for which the list is as they read it
          odd        \* history: pairs of an address and what got in the way

vars == <<peers, configMu, newCfg, meta, dial, loop, cancelled, accepted, todo, ops, ticks, quiet, silent, claimed, alone, odd>>
history == <<quiet, silent, claimed, alone, odd>>
copying == <<configMu, newCfg>>

NoMeta == [source |-> "none", age |-> 0]
forgettable(src) == src \in {"learned", "discovery"}
Connected == {x \in Addrs : loop[x] = "linked"} \cup accepted

Init == \E s \in Starts :
        /\ peers = s.file \o s.others
        /\ configMu = {} /\ newCfg = <<>>
        /\ meta = [x \in Addrs |-> IF x \in Range(s.file) THEN [source |-> "config", age |-> 1]
                                   ELSE IF x \in Range(s.others) THEN [source |-> s.source, age |-> 1]
                                   ELSE NoMeta]
        /\ dial = [x \in Addrs |-> x \in Range(peers)]
        /\ loop = [x \in Addrs |-> IF x \in Range(peers) THEN "dialing" ELSE "none"]
        /\ cancelled = {} /\ accepted = {}
        /\ todo = [p \in Procs |-> <<>>]
        /\ ops = [p \in Procs |-> 0] /\ ticks = 0
        /\ quiet = Addrs /\ silent = {}
        /\ claimed = Range(s.file)
        /\ alone = {} /\ odd = {}

-----------------------------------------------------------------------------
(* The operations, as sequences of jobs.  The first job goes on in steps. *)
AddPeerFrom(x, src) == <<"append", x, src>>     \* then "record" and "dial"
RemovePeer(x, why) == <<"cancel", x, why>>      \* then "delete"
SyncNothing(ps) == <<>>     \* a reload that starts no loops
SyncPeersFromConfig(ps) == [i \in DOMAIN ps |-> <<"dial", ps[i]>>]
AddAll(ps, src) == [i \in DOMAIN ps |-> AddPeerFrom(ps[i], src)]
RemoveAll(ps) == [i \in DOMAIN ps |-> RemovePeer(ps[i], "forgotten")]

\* Why a pass wants to forget: nothing else than <<kind, addresses>>.  Then "choose".
ForgetUnreachablePeers == <<"look", "unreachable", {}>>
ForgetPeersMissingFrom(listed) == <<"look", "missing", Addrs \ listed>>
handleLeave(x) == <<"look", "leave", {x}>>

Operation(op) ==
    CASE op[1] = "learn"    -> <<AddPeerFrom(op[2], "learned"), <<"accept", op[2]>> >>   \* learnPeerFromInbound
      [] op[1] = "gossip"   -> AddAll(op[2], "learned")               \* consumeOptionalPeerAnnounce
      [] op[1] = "add"      -> <<AddPeerFrom(op[2], "manual")>>       \* PeersAdd
      [] op[1] = "remove"   -> <<RemovePeer(op[2], "asked")>>         \* PeersRemove
      [] op[1] = "discover" -> Append(AddAll(op[2], "discovery"), ForgetPeersMissingFrom(Range(op[2])))
      [] op[1] = "reap"     -> <<ForgetUnreachablePeers>>             \* runPeerReaper
      [] op[1] = "leave"    -> <<handleLeave(op[2])>>
      [] op[1] = "reload"   -> << <<"swap", op[2]>> >>                \* ApplyHotReload

Begin(p, op) == /\ todo[p] = <<>>
                /\ ops[p] < MaxOps[p]
                /\ ops' = [ops EXCEPT ![p] = @ + 1]
                /\ todo' = [todo EXCEPT ![p] = Operation(op)]
                /\ UNCHANGED <<peers, copying, meta, dial, loop, cancelled, accepted, ticks, history>>

AtStep(p, kind) == todo[p] /= <<>> /\ Head(todo[p])[1] = kind
GoesOn(p, jobs) == todo' = [todo EXCEPT ![p] = jobs \o Tail(@)]
Done(p) == todo' = [todo EXCEPT ![p] = Tail(@)]
ListChangedBy(p) == alone' = alone \ (Procs \ {p})

\* A pass has chosen x to be forgotten and has yet to remove it.
Forgetting(p, x) == \E i \in DOMAIN todo[p] : /\ todo[p][i][1] \in {"cancel", "delete"}
                                              /\ todo[p][i][2] = x /\ todo[p][i][3] = "forgotten"

BeingForgotten(x) == IF \E q \in Procs : Forgetting(q, x) THEN {<<x, "being forgotten">>} ELSE {}

(* AddPeerFrom: under configMu, a copy of the list with the address,       *)
(* unless it is in the list already.                                       *)
CopyWith(p) ==
    /\ AtStep(p, "append") /\ configMu = {}
    /\ LET x == Head(todo[p])[2]
       IN  IF x \in Range(peers)
           THEN /\ Done(p) /\ UNCHANGED copying
                /\ IF Head(todo[p])[3] = "manual"
                   THEN /\ claimed' = claimed \cup {x}
                        /\ odd' = odd \cup BeingForgotten(x)
                                     \cup (IF meta[x].source \in {"config", "manual"} THEN {} ELSE {<<x, "known already">>})
                   ELSE UNCHANGED <<claimed, odd>>
           ELSE /\ configMu' = {p} /\ newCfg' = Append(peers, x)
                /\ UNCHANGED <<todo, claimed, odd>>
    /\ UNCHANGED <<peers, meta, dial, loop, cancelled, accepted, ops, ticks, quiet, silent, alone>>

\* The copy is stored.  A reload has no use for the lock: what it stored meanwhile is lost.
StoreCopy(p) ==
    /\ p \in configMu
    /\ peers' = newCfg
    /\ configMu' = {} /\ newCfg' = <<>>
Lost(x) == {<<y, "reload undone">> : y \in Range(peers) \ (Range(newCfg) \cup {x})}

AppendPeer(p) ==
    /\ AtStep(p, "append") /\ StoreCopy(p)
    /\ LET x == Head(todo[p])[2]
           src == Head(todo[p])[3]
       IN  /\ claimed' = IF src = "manual" THEN claimed \cup {x} ELSE claimed
           /\ odd' = odd \cup Lost(x) \cup (IF src = "manual" THEN BeingForgotten(x) ELSE {})
           /\ GoesOn(p, << <<"record", x, src>> >>)
    /\ ListChangedBy(p)
    /\ UNCHANGED <<meta, dial, loop, cancelled, accepted, ops, ticks, quiet, silent>>

\* The first source is never changed.
RecordFirst(m, src) == IF m.source = "none" THEN [source |-> src, age |-> 0] ELSE m

\* An address that has a record keeps it, and keeps the stronger of two sources.
recordPeerMeta(m, src) ==
    IF m.source = "none" THEN [source |-> src, age |-> 0]
    ELSE IF forgettable(src) THEN m ELSE [m EXCEPT !.source = src]

Record(p) ==
    /\ AtStep(p, "record")
    /\ meta' = [meta EXCEPT ![Head(todo[p])[2]] = recordPeerMeta(@, Head(todo[p])[3])]
    /\ GoesOn(p, << <<"dial", Head(todo[p])[2]>> >>)
    /\ UNCHANGED <<peers, copying, dial, loop, cancelled, accepted, ops, ticks, history>>

\* A removal that found no loop to cancel, or cancelled one, and has yet to change the list.
Deleting(x) == \E q \in Procs : AtStep(q, "delete") /\ Head(todo[q])[2] = x

(* An entry in the table is taken for a loop that goes on, cancelled or not. *)
ensureDial(p) ==
    /\ AtStep(p, "dial")
    /\ LET x == Head(todo[p])[2]
       IN  IF dial[x]
           THEN /\ odd' = IF x \in cancelled \/ loop[x] = "ending" THEN odd \cup {<<x, "winding down">>} ELSE odd
                /\ UNCHANGED <<dial, loop>>
           ELSE /\ dial' = [dial EXCEPT ![x] = TRUE]
                /\ loop' = [loop EXCEPT ![x] = "dialing"]
                /\ odd' = {o \in odd : o /= <<x, "winding down">>}
                            \cup (IF x \in Range(peers) /\ ~Deleting(x) THEN {} ELSE {<<x, "removed meanwhile">>})
    /\ Done(p)
    /\ UNCHANGED <<peers, copying, meta, cancelled, accepted, ops, ticks, quiet, silent, claimed, alone>>

\* A removal that leaves the loop alone.
CancelNothing(p) ==
    /\ AtStep(p, "cancel")
    /\ GoesOn(p, << <<"delete", Head(todo[p])[2], Head(todo[p])[3]>> >>)
    /\ UNCHANGED <<peers, copying, meta, dial, loop, cancelled, accepted, ops, ticks, history>>

(* RemovePeer: the loop, if there is one, is told to stop; its entry stays. *)
CancelDial(p) ==
    /\ AtStep(p, "cancel")
    /\ LET x == Head(todo[p])[2]
       IN  cancelled' = IF dial[x] THEN cancelled \cup {x} ELSE cancelled
    /\ GoesOn(p, << <<"delete", Head(todo[p])[2], Head(todo[p])[3]>> >>)
    /\ UNCHANGED <<peers, copying, meta, dial, loop, accepted, ops, ticks, history>>

\* newPeers: those that are not x.
Others(ps, x) ==
    LET newPeers[i \in 0 .. Len(ps)] ==
            IF i = 0 THEN <<>>
            ELSE IF ps[i] /= x THEN Append(newPeers[i - 1], ps[i]) ELSE newPeers[i - 1]
    IN  newPeers[Len(ps)]

(* RemovePeer: under configMu, a copy of the list without the address. *)
CopyWithout(p) ==
    /\ AtStep(p, "delete") /\ configMu = {}
    /\ configMu' = {p} /\ newCfg' = Others(peers, Head(todo[p])[2])
    /\ UNCHANGED <<peers, meta, dial, loop, cancelled, accepted, todo, ops, ticks, history>>

\* The record of the address stays when the removal was asked for.
DeletePeer(p) ==
    /\ AtStep(p, "delete") /\ StoreCopy(p)
    /\ LET x == Head(todo[p])[2]
       IN  /\ claimed' = IF Head(todo[p])[3] = "asked" THEN claimed \ {x} ELSE claimed
           /\ odd' = odd \cup Lost(x)
    /\ IF newCfg /= peers THEN ListChangedBy(p) ELSE UNCHANGED alone
    /\ Done(p)
    /\ UNCHANGED <<meta, dial, loop, cancelled, accepted, ops, ticks, quiet, silent>>

(* ApplyHotReload: the list of the file takes the place of the list, also  *)
(* while somebody holds configMu (SetConfig).                              *)
SwapConfig(p) ==
    /\ AtStep(p, "swap")
    /\ LET ps == Head(todo[p])[2]
       IN  /\ peers' = ps
           /\ claimed' = claimed \cup Range(ps)
           /\ ListChangedBy(p)
           /\ odd' = odd \cup {<<x, "dropped by reload">> : x \in Range(peers) \ Range(ps)}
                         \cup {<<x, "reloaded">> : x \in {y \in Range(ps) : meta[y].source /= "config"}}
           /\ GoesOn(p, SyncPeersFromConfig(ps))
    /\ UNCHANGED <<copying, meta, dial, loop, cancelled, accepted, ops, ticks, quiet, silent>>

(* An accepted connection becomes a link, after its address has been learned. *)
Accept(p) ==
    /\ AtStep(p, "accept")
    /\ accepted' = accepted \cup {Head(todo[p])[2]}
    /\ quiet' = quiet \ {Head(todo[p])[2]}
    /\ silent' = silent \ {Head(todo[p])[2]}
    /\ Done(p)
    /\ UNCHANGED <<peers, copying, meta, dial, loop, cancelled, ops, ticks, claimed, alone, odd>>

-----------------------------------------------------------------------------
(* Forgetting: the links and the list are read first, ... *)
Look(p) ==
    /\ AtStep(p, "look")
    /\ LET s == Head(todo[p])
       IN  GoesOn(p, << <<"choose", s[2], s[3], Connected, peers>> >>)
    /\ alone' = alone \cup {p}
    /\ UNCHANGED <<peers, copying, meta, dial, loop, cancelled, accepted, ops, ticks, quiet, silent, claimed, odd>>

want(kind, asked, x, live) ==
    CASE kind = "unreachable" -> ~live /\ meta[x].age >= 2
      [] kind = "missing"     -> ~live /\ meta[x].source = "discovery" /\ x \in asked
      [] kind = "leave"       -> x \in asked

\* One peer may be dropped too many.
CandidatesToLast(kind, asked, connected, known) ==
    SelectSeq(known, LAMBDA x : forgettable(meta[x].source) /\ want(kind, asked, x, x \in connected))

\* One peer is always kept of those that were known.
forgetCandidates(kind, asked, connected, known) ==
    LET drop[i \in 0 .. Len(known)] ==
            IF i = 0 THEN <<>>
            ELSE IF /\ Len(known) - Len(drop[i - 1]) > 1
                    /\ forgettable(meta[known[i]].source)
                    /\ want(kind, asked, known[i], known[i] \in connected)
                 THEN Append(drop[i - 1], known[i]) ELSE drop[i - 1]
    IN  drop[Len(known)]

\* ... then the records are judged, and those of the peers to forget deleted; RemovePeer follows.
Choose(p) ==
    /\ AtStep(p, "choose")
    /\ LET s == Head(todo[p])
           drop == forgetCandidates(s[2], s[3], s[4], s[5])
       IN  /\ meta' = [x \in Addrs |-> IF x \in Range(drop) THEN NoMeta ELSE meta[x]]
           /\ GoesOn(p, RemoveAll(drop))
           /\ odd' = odd \cup {<<x, "being recorded">> :
                                x \in {y \in Range(drop) : \E q \in Procs : AtStep(q, "record") /\ Head(todo[q])[2] = y}}
    /\ UNCHANGED <<peers, copying, dial, loop, cancelled, accepted, ops, ticks, quiet, silent, claimed, alone>>

-----------------------------------------------------------------------------
(* dialLoop, one per address.  A handshake that completes is the only      *)
(* thing that makes the record young again (markPeerReachable).            *)
Linked(x) ==
    /\ loop[x] = "dialing" /\ x \notin Alias
    /\ loop' = [loop EXCEPT ![x] = "linked"]
    /\ meta' = IF meta[x] = NoMeta THEN meta ELSE [meta EXCEPT ![x].age = 0]
    /\ quiet' = quiet \ {x} /\ silent' = silent \ {x}
    /\ UNCHANGED <<peers, copying, dial, cancelled, accepted, todo, ops, ticks, claimed, alone, odd>>

LinkEnds(x) ==
    /\ loop[x] = "linked"
    /\ loop' = [loop EXCEPT ![x] = "dialing"]
    /\ UNCHANGED <<peers, copying, meta, dial, cancelled, accepted, todo, ops, ticks, history>>

AcceptedEnds(x) ==
    /\ x \in accepted
    /\ accepted' = accepted \ {x}
    /\ UNCHANGED <<peers, copying, meta, dial, loop, cancelled, todo, ops, ticks, history>>

\* Cancelled, or the dial reached this node itself.
LoopStops(x) ==
    /\ \/ x \in cancelled /\ loop[x] \in {"dialing", "linked"}
       \/ x \in Alias /\ loop[x] = "dialing"
    /\ loop' = [loop EXCEPT ![x] = "ending"]
    /\ UNCHANGED <<peers, copying, meta, dial, cancelled, accepted, todo, ops, ticks, history>>

\* The goroutine's last act: it deletes the entry.
LoopEnds(x) ==
    /\ loop[x] = "ending"
    /\ loop' = [loop EXCEPT ![x] = "none"]
    /\ dial' = [dial EXCEPT ![x] = FALSE]
    /\ cancelled' = cancelled \ {x}
    /\ UNCHANGED <<peers, copying, meta, accepted, todo, ops, ticks, history>>

\* An operation takes far less than a tick.
Tick ==
    /\ ticks < MaxTicks
    /\ \A p \in Procs : todo[p] = <<>>
    /\ ticks' = ticks + 1
    /\ meta' = [x \in Addrs |-> IF meta[x] = NoMeta \/ meta[x].age = 2 THEN meta[x]
                                ELSE [meta[x] EXCEPT !.age = @ + 1]]
    /\ silent' = silent \cup quiet
    /\ quiet' = Addrs \ Connected
    /\ UNCHANGED <<peers, copying, dial, loop, cancelled, accepted, todo, ops, claimed, alone, odd>>

Step(p) == CopyWith(p) \/ AppendPeer(p) \/ Record(p) \/ ensureDial(p) \/ CancelDial(p) \/ CopyWithout(p)
             \/ DeletePeer(p) \/ SwapConfig(p) \/ Accept(p) \/ Look(p) \/ Choose(p)
DialLoop(x) == Linked(x) \/ LinkEnds(x) \/ LoopStops(x) \/ LoopEnds(x)

Next == \/ \E p \in Procs : Step(p) \/ \E op \in Repertoire[p] : Begin(p, op)
        \/ \E x \in Addrs : DialLoop(x) \/ AcceptedEnds(x)
        \/ Tick

Spec == Init /\ [][Next]_vars

-----------------------------------------------------------------------------
Settled == /\ \A p \in Procs : todo[p] = <<>>
           /\ cancelled = {} /\ \A x \in Addrs : loop[x] /= "ending"

(* activeDial tells which loops run: an address has an entry just when a   *)
(* loop runs for it, until its last act, and only such a loop is           *)
(* cancelled.  So ensureDial never starts a second one.                    *)
TableTracksLoops == \A x \in Addrs : /\ dial[x] <=> loop[x] /= "none"
                                     /\ x \in cancelled => dial[x]

(* The list names no address twice, and when no operation is under way     *)
(* every peer of it is being dialled or connected.  It is not when the     *)
(* address is this node's own, or when it was added while its cancelled    *)
(* loop had not ended (ensureDial).                                        *)
DialsWhatItKnows ==
    /\ IsInjective(peers)
    /\ Settled => \A x \in Range(peers) : dial[x] \/ x \in Alias \/ <<x, "winding down">> \in odd

(* When no operation is under way, only peers of the list are dialled.     *)
(* Others are when a reload has dropped them from the list, when the       *)
(* address was added and removed at the same time (AddPeerFrom,            *)
(* RemovePeer), or when the list of a reload was overwritten (SetConfig,   *)
(* which does not take configMu).                                          *)
DialsOnlyWhatItKnows ==
    Settled => \A x \in Addrs : dial[x] => \/ x \in Range(peers)
                                         \/ \E why \in {"dropped by reload", "removed meanwhile", "reload undone"} :
                                               <<x, why>> \in odd

(* Forgetting never empties the list (forgetCandidates), unless the list   *)
(* has changed since the pass read it.                                     *)
KeepsOnePeer ==
    [][\A p \in alone : AtStep(p, "delete") /\ Head(todo[p])[3] = "forgotten" /\ todo'[p] /= todo[p] =>
            peers' /= <<>>]_vars

(* What the operator asked for is never forgotten (PeerSource, AddPeer).   *)
(* The exceptions: a reload names the peer, which records nothing          *)
(* (SetConfig); the operator adds a peer that is known already, which is   *)
(* refused and records nothing (AddPeerFrom); the pass judged the peer     *)
(* while it was being recorded, or before the operator added it            *)
(* (forgetCandidates decides, RemovePeer comes later).                     *)
OperatorPeersStay ==
    [][\A p \in Procs : AtStep(p, "delete") /\ Head(todo[p])[3] = "forgotten" /\ todo'[p] /= todo[p] =>
            LET x == Head(todo[p])[2]
            IN  x \in claimed \cap Range(peers) =>
                    \E why \in {"reloaded", "known already", "being recorded", "being forgotten"} :
                        <<x, why>> \in odd]_vars

(* "It has been unreachable for peer_forget_after" (OPERATIONS_RUNBOOK):   *)
(* ForgetUnreachablePeers drops only addresses that had no link for that   *)
(* long.                                                                   *)
ForgottenWhenUnreachable ==
    [][\A p \in Procs : AtStep(p, "choose") /\ Head(todo[p])[2] = "unreachable" /\ todo'[p] /= todo[p] =>
            \A x \in Addrs : meta[x] /= NoMeta /\ meta'[x] = NoMeta => x \in silent]_vars

=============================================================================
