-------------------------- MODULE MembershipProofs --------------------------
(***************************************************************************)
(* The peers and their dial loops, for any addresses, goroutines and       *)
(* operations.                                                             *)
(*                                                                         *)
(* TableInv is inductive by itself: an entry and its loop come in one step *)
(* (ensureDial, under the lock of the table) and go in one step (the last  *)
(* act of dialLoop), and in between the loop may fail and dial again as    *)
(* often as it likes.                                                      *)
(*                                                                         *)
(* The four properties of the run are about moments when an operation is   *)
(* over or half way, so MembershipInv says what holds in between: what the *)
(* jobs left to a goroutine may look like, who is about to dial or to      *)
(* delete an address, which peer a pass of forgetting leaves, that what    *)
(* the operator asked for is recorded or about to be, and that the copy    *)
(* that the holder of configMu is about to store has only peers of which   *)
(* the same can be said, although the list may have been reloaded since.   *)
(***************************************************************************)
EXTENDS Membership, FiniteSetTheorems, TLAPS

-----------------------------------------------------------------------------
(* Sequences. *)

\* Sequences with the same elements are equal.
LEMMA SeqEqual ==
  ASSUME NEW S, NEW s \in Seq(S), NEW t \in Seq(S), Len(s) = Len(t),
         \A i \in 1 .. Len(s) : s[i] = t[i]
  PROVE  s = t
OBVIOUS

\* A sequence is empty or has a length.
LEMMA EmptySeq ==
  ASSUME NEW S
  PROVE  <<>> \in Seq(S) /\ Len(<<>>) = 0 /\ \A s \in Seq(S) : s # <<>> => Len(s) \in Nat \ {0}
OBVIOUS

\* Nothing is put in front or behind.
LEMMA ConcatEmptySeq == ASSUME NEW S, NEW s \in Seq(S) PROVE s \o <<>> = s /\ <<>> \o s = s
OBVIOUS

\* Two sequences one after the other.
LEMMA ConcatProperties ==
  ASSUME NEW S, NEW s \in Seq(S), NEW t \in Seq(S)
  PROVE  /\ s \o t \in Seq(S) /\ Len(s \o t) = Len(s) + Len(t)
         /\ \A i \in 1 .. Len(s) + Len(t) : (s \o t)[i] = IF i <= Len(s) THEN s[i] ELSE t[i - Len(s)]
OBVIOUS

-----------------------------------------------------------------------------
Tables == /\ dial \in [Addrs -> BOOLEAN]
          /\ loop \in [Addrs -> {"none", "dialing", "linked", "ending"}]
TableInv == Tables /\ TableTracksLoops

\* Every peer of the beginning has an entry and a loop.
LEMMA TableInit == Init => TableInv
<1> SUFFICES ASSUME Init
             PROVE  TableInv
  BY Zenon
<1> DEFINE known == Range(peers)
<1>1. /\ dial = [x \in Addrs |-> x \in known]
      /\ loop = [x \in Addrs |-> IF x \in known THEN "dialing" ELSE "none"]
      /\ cancelled = {}
  BY Zenon DEF Init
<1> HIDE DEF known
<1>2. Tables
  BY <1>1 DEF Tables
<1>3. \A x \in Addrs : dial[x] <=> x \in known
  BY <1>1, Zenon
<1>4. \A x \in Addrs : loop[x] # "none" <=> x \in known
  BY <1>1, Zenon
<1> QED
  BY <1>1, <1>2, <1>3, <1>4, Zenon DEF TableInv, Tables, TableTracksLoops

\* The operations of the goroutines change the table in ensureDial and CancelDial only.
LEMMA TableStep ==
  ASSUME TableInv, NEW p \in Procs, Step(p)
  PROVE  TableInv'
<1>1. CASE ensureDial(p)
  <2> DEFINE x == Head(todo[p])[2]
  <2>1. CASE dial[x]
    BY <1>1, <2>1, Zenon DEF ensureDial, TableInv, Tables, TableTracksLoops
  <2>2. CASE ~dial[x]
    <3>1. /\ dial' = [dial EXCEPT ![x] = TRUE]
          /\ loop' = [loop EXCEPT ![x] = "dialing"]
          /\ cancelled' = cancelled
      BY <1>1, <2>2, Zenon DEF ensureDial
    <3> QED
      BY <3>1, Zenon DEF TableInv, Tables, TableTracksLoops
  <2> QED
    BY <2>1, <2>2, Zenon
<1>2. CASE CancelDial(p)
  <2>1. /\ UNCHANGED <<dial, loop>>
        /\ \A y \in Addrs : y \in cancelled' => y \in cancelled \/ dial[y]
    BY <1>2, Zenon DEF CancelDial
  <2> QED
    BY <2>1, Zenon DEF TableInv, Tables, TableTracksLoops
<1>3. CASE CopyWith(p) \/ AppendPeer(p) \/ Record(p) \/ CopyWithout(p) \/ DeletePeer(p) \/ SwapConfig(p)
             \/ Accept(p) \/ Look(p) \/ Choose(p)
  <2>1. UNCHANGED <<dial, loop, cancelled>>
    BY <1>3, Zenon DEF CopyWith, AppendPeer, Record, CopyWithout, DeletePeer, SwapConfig, Accept, Look, Choose
  <2> QED
    BY <2>1, Zenon DEF TableInv, Tables, TableTracksLoops
<1> QED
  BY <1>1, <1>2, <1>3, Zenon DEF Step

\* A loop keeps its entry until its last act.
LEMMA TableLoop ==
  ASSUME TableInv, NEW x \in Addrs, DialLoop(x)
  PROVE  TableInv'
<1>1. CASE Linked(x)
  <2>1. loop[x] = "dialing" /\ loop' = [loop EXCEPT ![x] = "linked"] /\ UNCHANGED <<dial, cancelled>>
    BY <1>1, Zenon DEF Linked
  <2> QED
    BY <2>1, Zenon DEF TableInv, Tables, TableTracksLoops
<1>2. CASE LinkEnds(x)
  BY <1>2, Zenon DEF LinkEnds, TableInv, Tables, TableTracksLoops
<1>3. CASE LoopStops(x)
  <2>1. loop[x] # "none" /\ loop' = [loop EXCEPT ![x] = "ending"] /\ UNCHANGED <<dial, cancelled>>
    BY <1>3, Zenon DEF LoopStops
  <2> QED
    BY <2>1, Zenon DEF TableInv, Tables, TableTracksLoops
<1>4. CASE LoopEnds(x)
  BY <1>4, Zenon DEF LoopEnds, TableInv, Tables, TableTracksLoops
<1> QED
  BY <1>1, <1>2, <1>3, <1>4, Zenon DEF DialLoop

\* A step of the clock or of a link keeps the table too.
LEMMA TableNext == ASSUME TableInv, [Next]_vars PROVE TableInv'
<1>1. ASSUME NEW p \in Procs, Step(p)
      PROVE  TableInv'
  BY <1>1, TableStep, Zenon
<1>2. ASSUME NEW x \in Addrs, DialLoop(x)
      PROVE  TableInv'
  BY <1>2, TableLoop, Zenon
<1>3. CASE UNCHANGED <<dial, loop, cancelled>>
  BY <1>3, Zenon DEF TableInv, Tables, TableTracksLoops
<1>4. ASSUME NEW p \in Procs, NEW op \in Repertoire[p], Begin(p, op)
      PROVE  UNCHANGED <<dial, loop, cancelled>>
  BY <1>4, Zenon DEF Begin
<1>5. ASSUME NEW x \in Addrs, AcceptedEnds(x)
      PROVE  UNCHANGED <<dial, loop, cancelled>>
  BY <1>5, Zenon DEF AcceptedEnds
<1>6. CASE Tick
  BY <1>6, <1>3, Zenon DEF Tick
<1>7. CASE UNCHANGED vars
  BY <1>7, <1>3, Zenon DEF vars
<1> QED
  BY <1>1, <1>2, <1>3, <1>4, <1>5, <1>6, <1>7, Zenon DEF Next

(* At every moment an address has an entry in activeDial just when a dial  *)
(* loop for it runs, and only loops that run are cancelled (ensureDial,    *)
(* dialLoop, RemovePeer).                                                  *)
THEOREM OneLoopPerPeer == Spec => []TableTracksLoops
<1>1. TableInv => TableTracksLoops
  BY Zenon DEF TableInv
<1> QED
  BY <1>1, TableInit, TableNext, PTL DEF Spec

-----------------------------------------------------------------------------
(* The list and the jobs. *)
AddSources == {"manual", "learned", "discovery"}
Kinds == {"unreachable", "missing", "leave"}
Jobs == ({"append", "record"} \X Addrs \X AddSources) \cup ({"dial", "accept"} \X Addrs)
           \cup ({"cancel", "delete"} \X Addrs \X {"asked", "forgotten"})
           \cup ({"swap"} \X Lists)
           \cup ({"look"} \X Kinds \X (SUBSET Addrs))
           \cup ({"choose"} \X Kinds \X (SUBSET Addrs) \X (SUBSET Addrs) \X Lists)
Metas == [source : Sources \cup {"none"}, age : Nat]

\* Reading the list and choosing whom to forget are the last of an operation; the removals
\* that follow are all that is left of it.
IsForget(job) == job[1] \in {"cancel", "delete"} /\ job[3] = "forgotten"
Adding(q) == \A i \in DOMAIN q : q[i][1] # "choose" /\ ~IsForget(q[i]) /\ (q[i][1] = "look" => i = Len(q))
Choosing(q) == Len(q) = 1 /\ q[1][1] = "choose"
Forgets(q) == \A i \in DOMAIN q : IsForget(q[i])
Shape(q) == Adding(q) \/ Choosing(q) \/ Forgets(q)
Begun(q) == \A i \in DOMAIN q : q[i][1] = "delete" => i = 1

ListInv == /\ peers \in Lists
           /\ meta \in [Addrs -> Metas]
           /\ todo \in [Procs -> Seq(Jobs)]
           /\ alone \subseteq Procs /\ claimed \subseteq Addrs
           /\ \A p \in Procs : Shape(todo[p]) /\ Begun(todo[p])

Healthy(x) == dial[x] /\ x \notin cancelled /\ loop[x] # "ending"
Pending(x) == \E q \in Procs : \E i \in DOMAIN todo[q] : todo[q][i][1] \in {"record", "dial"} /\ todo[q][i][2] = x

\* A peer of the list has a loop that goes on, or somebody is about to see to it or to remove it.
Covered(x) == x \in Alias \/ Healthy(x) \/ Pending(x) \/ Deleting(x) \/ <<x, "winding down">> \in odd
DialInv == \A x \in Range(peers) : Covered(x)
CoverKept == \A x \in Addrs : Covered(x) => Covered(x)'

\* A loop that goes on is for a peer of the list that nobody is about to take from it.
Stray(x) == \E why \in {"dropped by reload", "removed meanwhile", "reload undone"} : <<x, why>> \in odd
KnownInv == \A x \in Addrs : Healthy(x) => (x \in Range(peers) /\ ~Deleting(x)) \/ Stray(x)

\* While the list is as a pass read it, one peer of it is not among those it will remove.
OneInv == \A p \in alone : /\ AtStep(p, "choose") => Head(todo[p])[5] = peers
                           /\ (\E x \in Addrs : Forgetting(p, x)) => \E y \in Range(peers) : ~Forgetting(p, y)

Excused(x) == \E why \in {"reloaded", "known already", "being recorded", "being forgotten"} : <<x, why>> \in odd
Recording(x) == \E q \in Procs : AtStep(q, "record") /\ Head(todo[q])[2] = x /\ Head(todo[q])[3] = "manual"

\* What the operator asked for is recorded as such, or will be in the next step of its AddPeerFrom.
ClaimInv == /\ \A x \in claimed : Excused(x) \/ Recording(x) \/ meta[x].source \in {"config", "manual"}
            /\ \A p \in Procs, x \in Addrs :
                  Forgetting(p, x) => meta[x].source # "config" /\ (x \in claimed => Excused(x))

AcceptInv == accepted \subseteq Addrs
RestInv == ListInv /\ DialInv /\ KnownInv /\ OneInv /\ ClaimInv

\* What is about to be stored: the list with the address, or without it.
AppendHeld(p, x) == /\ AtStep(p, "append") /\ x \in Range(newCfg)
                    /\ \A y \in Range(newCfg) : y = x \/ Covered(y)
DeleteHeld(p, x) == /\ AtStep(p, "delete") /\ x \notin Range(newCfg)
                    /\ \A y \in Range(newCfg) : Covered(y)
                    /\ p \in alone => newCfg = Others(peers, x)
CopyInv ==
    \A p \in configMu : /\ p \in Procs /\ configMu = {p} /\ newCfg \in Lists
                        /\ AppendHeld(p, Head(todo[p])[2]) \/ DeleteHeld(p, Head(todo[p])[2])
MembershipInv == TableInv /\ AcceptInv /\ RestInv /\ CopyInv

-----------------------------------------------------------------------------
(* Loops.  A loop over a slice is a function on 0 .. n: what it has built  *)
(* after each turn.                                                        *)

\* A set of numbers has a least one.
LEMMA Least == ASSUME NEW T \in SUBSET Nat, T # {} PROVE \E n \in T : \A m \in T : n <= m
<1> DEFINE R == OpToRel(<, Nat)
<1>1. IsWellFoundedOn(R, Nat)
  BY NatLessThanWellFounded, Zenon
<1>2. \A i, j \in Nat : i < j => <<i, j>> \in R
  BY Zenon DEF OpToRel
<1> HIDE DEF R
<1>3. PICK x \in T : \A y \in T : ~ (<<y, x>> \in R)
  BY <1>1, WFMin, Zenon
<1>4. ASSUME NEW y \in T PROVE x <= y
  <2>1. x \in Nat /\ y \in Nat
    BY Zenon
  <2>2. ~(y < x)
    BY <1>2, <1>3, <2>1, Zenon
  <2> QED
    BY <2>1, <2>2
<1> QED
  BY <1>4, Zenon

\* What holds before the first turn and is kept by every turn holds after the last.
LEMMA Turns ==
  ASSUME NEW n \in Nat, NEW A \in SUBSET (0 .. n), 0 \in A, \A i \in 1 .. n : i - 1 \in A => i \in A
  PROVE  \A i \in 0 .. n : i \in A
<1> SUFFICES ASSUME {i \in 0 .. n : i \notin A} # {} PROVE FALSE
  BY Zenon
<1> DEFINE T == {i \in 0 .. n : i \notin A}
<1>0. T \in SUBSET Nat /\ T # {}
  OBVIOUS
<1>1. PICK i \in T : \A j \in T : i <= j
  <2> HIDE DEF T
  <2> QED
    BY <1>0, Least, Zenon
<1>2. i \in 1 .. n /\ i - 1 \in 0 .. n /\ i - 1 \notin T
  BY <1>1
<1> QED
  BY <1>1, <1>2, Zenon

\* Turn i makes step[<<i, x>>] of the x that the turns before it have made.
IsStep(step, n, S) == step \in [(1 .. n) \X S -> S]
IsLoop(f, n, S, x0, step) ==
    f \in [0 .. n -> S] /\ f[0] = x0 /\ \A i \in 1 .. n : f[i] = step[<<i, f[i - 1]>>]

\* A loop has a result.
LEMMA LoopRuns ==
  ASSUME NEW n \in Nat, NEW S, NEW x0 \in S, NEW step, IsStep(step, n, S)
  PROVE  \E f : IsLoop(f, n, S, x0, step)
<1> DEFINE Runs(m) == \E f \in [0 .. m -> S] : f[0] = x0 /\ \A i \in 1 .. m : f[i] = step[<<i, f[i - 1]>>]
           A == {m \in 0 .. n : Runs(m)}
<1>0. step \in [(1 .. n) \X S -> S]
  BY Zenon DEF IsStep
<1>1. 0 \in A
  <2> DEFINE h == [i \in 0 .. 0 |-> x0]
  <2>1. h \in [0 .. 0 -> S] /\ h[0] = x0 /\ \A i \in 1 .. 0 : FALSE
    OBVIOUS
  <2> HIDE DEF h
  <2>2. Runs(0)
    BY <2>1, Zenon
  <2> HIDE DEF Runs
  <2> QED
    BY <2>2
<1>2. ASSUME NEW m \in 1 .. n, m - 1 \in A PROVE m \in A
  <2>1. PICK g \in [0 .. m - 1 -> S] : g[0] = x0 /\ \A i \in 1 .. m - 1 : g[i] = step[<<i, g[i - 1]>>]
    BY <1>2, Zenon
  <2>2. g[m - 1] \in S /\ step[<<m, g[m - 1]>>] \in S
    BY <1>0, <2>1
  <2> DEFINE f == [i \in 0 .. m |-> IF i = m THEN step[<<m, g[m - 1]>>] ELSE g[i]]
  <2>3. f \in [0 .. m -> S]
    BY <2>1, <2>2
  <2>4. f[0] = x0
    BY <2>1
  <2>5. ASSUME NEW i \in 1 .. m PROVE f[i] = step[<<i, f[i - 1]>>]
    <3>1. i - 1 \in 0 .. m - 1 /\ f[i - 1] = g[i - 1]
      OBVIOUS
    <3>2. CASE i = m
      <4>1. f[m] = step[<<m, g[m - 1]>>]
        OBVIOUS
      <4> HIDE DEF f
      <4> QED
        BY <3>1, <3>2, <4>1, Zenon
    <3>3. CASE i # m
      <4>1. i \in 1 .. m - 1 /\ f[i] = g[i]
        BY <3>3
      <4> QED
        BY <2>1, <3>1, <4>1, Zenon
    <3> QED
      BY <3>2, <3>3, Zenon
  <2> HIDE DEF f
  <2>6. Runs(m)
    BY <2>3, <2>4, <2>5, Zenon
  <2> QED
    BY <2>6
<1> HIDE DEF A
<1>3. A \in SUBSET (0 .. n)
  BY Zenon DEF A
<1>4. \A i \in 0 .. n : i \in A
  BY <1>1, <1>2, <1>3, Turns, Zenon
<1> QED
  BY <1>4 DEF A, IsLoop

\* The elements that a loop over s has come to by turn i.
Upto(s, i) == {s[j] : j \in 1 .. i}

\* Each turn comes to one element more.
LEMMA UptoTurn ==
  ASSUME NEW s
  PROVE  /\ Upto(s, 0) = {}
         /\ \A i \in Nat \ {0} : Upto(s, i) = Upto(s, i - 1) \cup {s[i]}
BY DEF Upto

\* In a list without repetitions each turn comes to an element that is new.
LEMMA UptoNew ==
  ASSUME NEW s, IsInjective(s), NEW n \in Nat, DOMAIN s = 1 .. n, NEW i \in 1 .. n
  PROVE  s[i] \notin Upto(s, i - 1)
<1>1. ASSUME NEW j \in 1 .. (i - 1) PROVE s[j] # s[i]
  <2>1. j \in DOMAIN s /\ i \in DOMAIN s /\ j # i
    OBVIOUS
  <2> QED
    BY <2>1, Zenon DEF IsInjective
<1> QED
  BY <1>1, Zenon DEF Upto

\* After the last turn the loop has come to every element.
LEMMA UptoEnd == ASSUME NEW S, NEW s \in Seq(S) PROVE Range(s) = Upto(s, Len(s))
BY DEF Upto, Range

\* What is in a list once x is appended.
LEMMA RangeAppend ==
  ASSUME NEW S, NEW s \in Seq(S), NEW x \in S
  PROVE  Range(Append(s, x)) = Range(s) \cup {x}
<1> DEFINE n == Len(s)
           u == Append(s, x)
<1>1. n \in Nat /\ DOMAIN s = 1 .. n /\ DOMAIN u = 1 .. n + 1 /\ u[n + 1] = x
  OBVIOUS
<1>2. \A i \in 1 .. n : u[i] = s[i]
  OBVIOUS
<1> HIDE DEF n, u
<1>3. 1 .. n + 1 = (1 .. n) \cup {n + 1}
  BY <1>1
<1>4. Range(u) = {u[i] : i \in (1 .. n) \cup {n + 1}} /\ Range(s) = {s[i] : i \in 1 .. n}
  BY <1>1, <1>3, Zenon DEF Range
<1> QED
  BY <1>1, <1>2, <1>4, Zenon DEF u

\* Appending what is not there repeats nothing.
LEMMA InjectiveAppend ==
  ASSUME NEW S, NEW s \in Seq(S), NEW x \in S, IsInjective(s), x \notin Range(s)
  PROVE  IsInjective(Append(s, x))
BY DEF Range, IsInjective

\* The empty list has no elements.
LEMMA EmptyList == Range(<<>>) = {} /\ IsInjective(<<>>)
BY DEF Range, IsInjective

Keeping(f, S, ps, x) ==
    /\ f \in [0 .. Len(ps) -> Seq(S)]
    /\ f[0] = <<>>
    /\ \A i \in 1 .. Len(ps) : f[i] = IF ps[i] # x THEN Append(f[i - 1], ps[i]) ELSE f[i - 1]

\* The loop of RemovePeer, turn by turn.
LEMMA OthersLoop ==
  ASSUME NEW S, NEW ps \in Seq(S), NEW x
  PROVE  \E f : Keeping(f, S, ps, x) /\ Others(ps, x) = f[Len(ps)]
<1> DEFINE n == Len(ps)
           Q == Seq(S)
           e == <<>>
           Add(i, y) == IF ps[i] # x THEN Append(y, ps[i]) ELSE y
           Turn(g) == [i \in 0 .. n |-> IF i = 0 THEN e ELSE Add(i, g[i - 1])]
           out == CHOOSE g : g = Turn(g)
           step == [p \in (1 .. n) \X Q |-> Add(p[1], p[2])]
<1>1. n \in Nat /\ e \in Q
  OBVIOUS
<1>2. Others(ps, x) = out[n]
  BY Zenon DEF Others
<1>3. \A i \in 1 .. n, y \in Q : Add(i, y) \in Q
  OBVIOUS
<1> HIDE DEF Add, Q, n, e
<1>4. step \in [(1 .. n) \X Q -> Q] /\ \A i \in 1 .. n, y \in Q : step[<<i, y>>] = Add(i, y)
  BY <1>3, Zenon
<1> HIDE DEF step
<1>a. PICK f : IsLoop(f, n, Q, e, step)
  <2>1. IsStep(step, n, Q)
    BY <1>4, Zenon DEF IsStep
  <2> QED
    BY <1>1, <2>1, LoopRuns, Zenon
<1>5. f \in [0 .. n -> Q] /\ f[0] = e /\ \A i \in 1 .. n : f[i] = step[<<i, f[i - 1]>>]
  BY <1>a, Zenon DEF IsLoop
<1>6. f = Turn(f)
  <2>1. \A i \in 1 .. n : i - 1 \in 0 .. n
    BY <1>1
  <2>2. \A i \in 1 .. n : f[i] = Add(i, f[i - 1])
    BY <1>4, <1>5, <2>1, Zenon
  <2>3. \A i \in 0 .. n : f[i] = IF i = 0 THEN e ELSE Add(i, f[i - 1])
    BY <1>1, <1>5, <2>2
  <2> QED
    BY <1>5, <2>3, Zenon
<1>7. out = Turn(out)
  BY <1>6, Zenon
<1> HIDE DEF out
<1>8. out[0] = e /\ \A i \in 1 .. n : out[i] = Add(i, out[i - 1])
  <2>1. \A i \in 0 .. n : out[i] = IF i = 0 THEN e ELSE Add(i, out[i - 1])
    BY <1>7, Zenon
  <2> QED
    BY <1>1, <2>1
<1>9. \A i \in 0 .. n : out[i] \in Q
  <2> DEFINE A == {i \in 0 .. n : out[i] \in Q}
  <2>1. 0 \in A /\ \A i \in 1 .. n : i - 1 \in A => i \in A
    BY <1>1, <1>3, <1>8
  <2>2. A \in SUBSET (0 .. n)
    BY Zenon
  <2> HIDE DEF A
  <2>3. \A i \in 0 .. n : i \in A
    BY <1>1, <2>1, <2>2, Turns, Zenon
  <2> QED
    BY <2>3, Zenon DEF A
<1>10. out \in [0 .. n -> Q]
  <2>1. DOMAIN out = 0 .. n /\ out = [i \in DOMAIN out |-> out[i]]
    BY <1>7, Zenon
  <2> QED
    BY <1>9, <2>1, Zenon
<1> QED
  BY <1>2, <1>8, <1>10, Zenon DEF n, Q, e, Add, Keeping

\* The loop of RemovePeer keeps the other peers.
LEMMA OthersRest ==
  ASSUME NEW S, NEW ps \in Seq(S), NEW x
  PROVE  /\ Others(ps, x) \in Seq(S)
         /\ Range(Others(ps, x)) = Range(ps) \ {x}
         /\ IsInjective(ps) => IsInjective(Others(ps, x))
<1> DEFINE n == Len(ps)
<1>a. PICK f : Keeping(f, S, ps, x) /\ Others(ps, x) = f[n]
  BY OthersLoop, Zenon
<1>1. /\ \A i \in 0 .. n : f[i] \in Seq(S)
      /\ f[0] = <<>>
      /\ \A i \in 1 .. n : f[i] = IF ps[i] # x THEN Append(f[i - 1], ps[i]) ELSE f[i - 1]
  BY <1>a, Zenon DEF Keeping
<1>2. n \in Nat /\ DOMAIN ps = 1 .. n /\ \A i \in 1 .. n : ps[i] \in S /\ i - 1 \in 0 .. n
  OBVIOUS
<1> DEFINE A == {i \in 0 .. n : Range(f[i]) = Upto(ps, i) \ {x}}
           B == {i \in 0 .. n : IsInjective(f[i])}
<1>b. A \in SUBSET (0 .. n) /\ B \in SUBSET (0 .. n)
  BY Zenon
<1>e. Range(ps) = Upto(ps, n)
  BY UptoEnd, Zenon
<1> HIDE DEF n
<1>3. \A i \in 0 .. n : i \in A
  <2>1. 0 \in A
    BY <1>1, <1>2, UptoTurn, EmptyList
  <2>2. ASSUME NEW i \in 1 .. n, i - 1 \in A PROVE i \in A
    <3>1. /\ f[i - 1] \in Seq(S) /\ ps[i] \in S /\ i \in Nat \ {0}
          /\ Range(f[i - 1]) = Upto(ps, i - 1) \ {x}
      BY <1>1, <1>2, <2>2
    <3>2. Upto(ps, i) = Upto(ps, i - 1) \cup {ps[i]}
      BY <3>1, UptoTurn, Zenon
    <3>3. CASE ps[i] # x
      <4>1. f[i] = Append(f[i - 1], ps[i])
        BY <1>1, <3>3, Zenon
      <4>2. Range(f[i]) = Range(f[i - 1]) \cup {ps[i]}
        BY <3>1, <4>1, RangeAppend
      <4> QED
        BY <3>1, <3>2, <3>3, <4>2
    <3>4. CASE ps[i] = x
      BY <1>1, <3>1, <3>2, <3>4
    <3> QED
      BY <3>3, <3>4, Zenon
  <2> HIDE DEF A
  <2> QED
    BY <1>2, <1>b, <2>1, <2>2, Turns, Zenon
<1>5. ASSUME IsInjective(ps) PROVE \A i \in 0 .. n : i \in B
  <2>1. 0 \in B
    BY <1>1, <1>2, EmptyList
  <2>2. ASSUME NEW i \in 1 .. n, i - 1 \in B PROVE i \in B
    <3>1. f[i - 1] \in Seq(S) /\ IsInjective(f[i - 1]) /\ ps[i] \in S
      BY <1>1, <1>2, <2>2, Zenon
    <3>2. ps[i] \notin Range(f[i - 1])
      <4>1. Range(f[i - 1]) = Upto(ps, i - 1) \ {x}
        BY <1>2, <1>3, Zenon
      <4>2. ps[i] \notin Upto(ps, i - 1)
        BY <1>2, <1>5, UptoNew, Zenon
      <4> QED
        BY <4>1, <4>2, Zenon
    <3>3. IsInjective(f[i])
      BY <1>1, <3>1, <3>2, InjectiveAppend, Zenon
    <3> QED
      BY <3>3
  <2> HIDE DEF B
  <2> QED
    BY <1>2, <1>b, <2>1, <2>2, Turns, Zenon
<1>6. n \in 0 .. n
  BY <1>2
<1>7. Range(f[n]) = Range(ps) \ {x}
  BY <1>3, <1>6, <1>e, Zenon
<1>8. IsInjective(ps) => IsInjective(f[n])
  BY <1>5, <1>6, Zenon
<1> QED
  BY <1>1, <1>6, <1>7, <1>8, <1>a, Zenon

\* Whether forgetCandidates takes the i-th of the known peers, having taken those of y.
Takes(kind, asked, connected, known, i, y) ==
    /\ Len(known) - Len(y) > 1
    /\ forgettable(meta[known[i]].source)
    /\ want(kind, asked, known[i], known[i] \in connected)
Taking(f, kind, asked, connected, known) ==
    /\ f \in [0 .. Len(known) -> Seq(Addrs)]
    /\ f[0] = <<>>
    /\ \A i \in 1 .. Len(known) : f[i] = IF Takes(kind, asked, connected, known, i, f[i - 1])
                                        THEN Append(f[i - 1], known[i]) ELSE f[i - 1]

\* The loop of forgetCandidates, turn by turn.
LEMMA CandidatesLoop ==
  ASSUME NEW kind, NEW asked, NEW connected, NEW known \in Seq(Addrs)
  PROVE  \E f : /\ Taking(f, kind, asked, connected, known)
               /\ forgetCandidates(kind, asked, connected, known) = f[Len(known)]
<1> DEFINE n == Len(known)
           Q == Seq(Addrs)
           e == <<>>
           Add(i, y) == IF Takes(kind, asked, connected, known, i, y) THEN Append(y, known[i]) ELSE y
           Turn(g) == [i \in 0 .. n |-> IF i = 0 THEN e ELSE Add(i, g[i - 1])]
           out == CHOOSE g : g = Turn(g)
           step == [p \in (1 .. n) \X Q |-> Add(p[1], p[2])]
<1>1. n \in Nat /\ e \in Q
  OBVIOUS
<1>2. forgetCandidates(kind, asked, connected, known) = out[n]
  BY Zenon DEF forgetCandidates, Takes
<1>3. \A i \in 1 .. n, y \in Q : Add(i, y) \in Q
  OBVIOUS
<1> HIDE DEF Add, Q, n, e
<1>4. step \in [(1 .. n) \X Q -> Q] /\ \A i \in 1 .. n, y \in Q : step[<<i, y>>] = Add(i, y)
  BY <1>3, Zenon
<1> HIDE DEF step
<1>a. PICK f : IsLoop(f, n, Q, e, step)
  <2>1. IsStep(step, n, Q)
    BY <1>4, Zenon DEF IsStep
  <2> QED
    BY <1>1, <2>1, LoopRuns, Zenon
<1>5. f \in [0 .. n -> Q] /\ f[0] = e /\ \A i \in 1 .. n : f[i] = step[<<i, f[i - 1]>>]
  BY <1>a, Zenon DEF IsLoop
<1>6. f = Turn(f)
  <2>1. \A i \in 1 .. n : i - 1 \in 0 .. n
    BY <1>1
  <2>2. \A i \in 1 .. n : f[i] = Add(i, f[i - 1])
    BY <1>4, <1>5, <2>1, Zenon
  <2>3. \A i \in 0 .. n : f[i] = IF i = 0 THEN e ELSE Add(i, f[i - 1])
    BY <1>1, <1>5, <2>2
  <2> QED
    BY <1>5, <2>3, Zenon
<1>7. out = Turn(out)
  BY <1>6, Zenon
<1> HIDE DEF out
<1>8. out[0] = e /\ \A i \in 1 .. n : out[i] = Add(i, out[i - 1])
  <2>1. \A i \in 0 .. n : out[i] = IF i = 0 THEN e ELSE Add(i, out[i - 1])
    BY <1>7, Zenon
  <2> QED
    BY <1>1, <2>1
<1>9. \A i \in 0 .. n : out[i] \in Q
  <2> DEFINE A == {i \in 0 .. n : out[i] \in Q}
  <2>1. 0 \in A /\ \A i \in 1 .. n : i - 1 \in A => i \in A
    BY <1>1, <1>3, <1>8
  <2>2. A \in SUBSET (0 .. n)
    BY Zenon
  <2> HIDE DEF A
  <2>3. \A i \in 0 .. n : i \in A
    BY <1>1, <2>1, <2>2, Turns, Zenon
  <2> QED
    BY <2>3, Zenon DEF A
<1>10. out \in [0 .. n -> Q]
  <2>1. DOMAIN out = 0 .. n /\ out = [i \in DOMAIN out |-> out[i]]
    BY <1>7, Zenon
  <2> QED
    BY <1>9, <2>1, Zenon
<1> QED
  BY <1>2, <1>8, <1>10, Zenon DEF n, Q, e, Add, Taking

\* forgetCandidates takes known peers that the operator did not ask for, and not all.
LEMMA Candidates ==
  ASSUME NEW kind, NEW asked, NEW connected, NEW known \in Seq(Addrs), NEW drop,
         drop = forgetCandidates(kind, asked, connected, known)
  PROVE  /\ drop \in Seq(Addrs)
         /\ \A x \in Range(drop) : forgettable(meta[x].source)
         /\ drop # <<>> => Len(drop) < Len(known)
<1> DEFINE n == Len(known)
<1>f. PICK F : F = {x \in Addrs : forgettable(meta[x].source)}
  BY Zenon
<1>a. PICK f : Taking(f, kind, asked, connected, known) /\ drop = f[n]
  BY CandidatesLoop, Zenon
<1>1. /\ \A i \in 0 .. n : f[i] \in Seq(Addrs)
      /\ f[0] = <<>>
      /\ \A i \in 1 .. n : f[i] = IF Takes(kind, asked, connected, known, i, f[i - 1])
                                THEN Append(f[i - 1], known[i]) ELSE f[i - 1]
  BY <1>a, Zenon DEF Taking
<1>2. n \in Nat /\ \A i \in 1 .. n : known[i] \in Addrs /\ i - 1 \in 0 .. n
  OBVIOUS
<1> DEFINE A == {i \in 0 .. n : Range(f[i]) \subseteq F /\ (f[i] # <<>> => Len(f[i]) < n)}
<1>3. A \in SUBSET (0 .. n)
  BY Zenon
<1>t. \A i, y : Takes(kind, asked, connected, known, i, y) => n - Len(y) > 1 /\ forgettable(meta[known[i]].source)
  BY Zenon DEF Takes
<1> HIDE DEF n
<1>4. 0 \in A
  BY <1>1, <1>2, EmptyList
<1>5. ASSUME NEW i \in 1 .. n, i - 1 \in A PROVE i \in A
  <2>1. f[i - 1] \in Seq(Addrs) /\ Range(f[i - 1]) \subseteq F /\ (f[i - 1] # <<>> => Len(f[i - 1]) < n)
    BY <1>1, <1>2, <1>5, Zenon
  <2>2. CASE Takes(kind, asked, connected, known, i, f[i - 1])
    <3>1. f[i] = Append(f[i - 1], known[i]) /\ known[i] \in Addrs
      BY <1>1, <1>2, <2>2, Zenon
    <3>2. n - Len(f[i - 1]) > 1 /\ forgettable(meta[known[i]].source)
      BY <1>t, <2>2, Zenon
    <3>3. Range(f[i]) = Range(f[i - 1]) \cup {known[i]}
      BY <2>1, <3>1, RangeAppend
    <3>4. Len(f[i]) = Len(f[i - 1]) + 1 /\ Len(f[i - 1]) \in Nat
      BY <2>1, <3>1
    <3>5. Len(f[i]) < n
      BY <1>2, <3>2, <3>4
    <3>6. known[i] \in F
      BY <1>f, <3>1, <3>2, Zenon
    <3> QED
      BY <2>1, <3>3, <3>5, <3>6
  <2>3. CASE ~Takes(kind, asked, connected, known, i, f[i - 1])
    BY <1>1, <2>1, <2>3
  <2> QED
    BY <2>2, <2>3, Zenon
<1> HIDE DEF A
<1>6. \A i \in 0 .. n : i \in A
  BY <1>2, <1>3, <1>4, <1>5, Turns, Zenon
<1>7. n \in A /\ n \in 0 .. n
  BY <1>2, <1>6
<1> QED
  BY <1>1, <1>7, <1>a, <1>f, Zenon DEF A, n

\* Of more peers than are taken one is left.
LEMMA Spared ==
  ASSUME NEW known \in Lists, NEW drop \in Seq(Addrs), Len(drop) < Len(known)
  PROVE  \E y \in Range(known) : y \notin Range(drop)
<1> SUFFICES ASSUME \A y \in Range(known) : y \in Range(drop)
             PROVE  FALSE
  BY Zenon
<1> DEFINE S == 1 .. Len(known)
           T == 1 .. Len(drop)
           f == [i \in S |-> CHOOSE j \in T : drop[j] = known[i]]
<1>1. known \in Seq(Addrs) /\ IsInjective(known) /\ DOMAIN known = S /\ DOMAIN drop = T
      /\ Len(known) \in Nat /\ Len(drop) \in Nat
  BY DEF Lists
<1>2. \A i \in S : \E j \in T : drop[j] = known[i]
  BY <1>1, Zenon DEF Range
<1>3. f \in [S -> T] /\ \A i \in S : drop[f[i]] = known[i]
  BY <1>2, Zenon
<1>4. IsFiniteSet(S) /\ IsFiniteSet(T) /\ Cardinality(S) = Len(known) /\ Cardinality(T) = Len(drop)
  <2> DEFINE m == Len(known)
             k == Len(drop)
  <2>1. m \in Int /\ k \in Int /\ 1 \in Int /\ m >= 0 /\ k >= 0
    BY <1>1
  <2> HIDE DEF m, k
  <2>2. IsFiniteSet(1 .. m) /\ Cardinality(1 .. m) = IF 1 > m THEN 0 ELSE m - 1 + 1
    BY <2>1, FS_Interval, Zenon
  <2>3. IsFiniteSet(1 .. k) /\ Cardinality(1 .. k) = IF 1 > k THEN 0 ELSE k - 1 + 1
    BY <2>1, FS_Interval, Zenon
  <2>4. Cardinality(1 .. m) = m /\ Cardinality(1 .. k) = k
    BY <2>1, <2>2, <2>3
  <2> QED
    BY <2>2, <2>3, <2>4, Zenon DEF m, k
<1>5. Cardinality(T) < Cardinality(S)
  BY <1>4, Zenon
<1> HIDE DEF S, T, f
<1>6. \E i, j \in S : i # j /\ f[i] = f[j]
  BY <1>3, <1>4, <1>5, FS_PigeonHole
<1> QED
  BY <1>1, <1>3, <1>6 DEF IsInjective

-----------------------------------------------------------------------------
(* Jobs and queues of jobs. *)

\* What each kind of job carries.
LEMMA JobKinds ==
  ASSUME NEW j \in Jobs
  PROVE  /\ j[1] \in {"append", "record"} => j[2] \in Addrs /\ j[3] \in AddSources
         /\ j[1] \in {"dial", "accept"} => j[2] \in Addrs
         /\ j[1] \in {"cancel", "delete"} => j[2] \in Addrs /\ j[3] \in {"asked", "forgotten"}
         /\ j[1] = "swap" => j[2] \in Lists
         /\ j[1] = "look" => j[2] \in Kinds /\ j[3] \in SUBSET Addrs
         /\ j[1] = "choose" => /\ j[2] \in Kinds /\ j[3] \in SUBSET Addrs /\ j[4] \in SUBSET Addrs
                              /\ j[5] \in Lists
<1>1. CASE j \in {"append", "record"} \X Addrs \X AddSources
  BY <1>1, Zenon
<1>2. CASE j \in {"dial", "accept"} \X Addrs
  BY <1>2, Zenon
<1>3. CASE j \in {"cancel", "delete"} \X Addrs \X {"asked", "forgotten"}
  BY <1>3, Zenon
<1>4. CASE j \in {"swap"} \X Lists
  BY <1>4, Zenon
<1>5. CASE j \in {"look"} \X Kinds \X (SUBSET Addrs)
  BY <1>5, Zenon
<1>6. CASE j \in {"choose"} \X Kinds \X (SUBSET Addrs) \X (SUBSET Addrs) \X Lists
  BY <1>6, Zenon
<1> QED
  BY <1>1, <1>2, <1>3, <1>4, <1>5, <1>6, Zenon DEF Jobs

\* The jobs there are.
LEMMA JobsTyped ==
  /\ \A x \in Addrs, src \in AddSources : <<"append", x, src>> \in Jobs /\ <<"record", x, src>> \in Jobs
  /\ \A x \in Addrs : <<"dial", x>> \in Jobs /\ <<"accept", x>> \in Jobs
  /\ \A x \in Addrs, why \in {"asked", "forgotten"} : <<"cancel", x, why>> \in Jobs
  /\ \A ps \in Lists : <<"swap", ps>> \in Jobs
  /\ \A kind \in Kinds, asked \in SUBSET Addrs : <<"look", kind, asked>> \in Jobs
  /\ \A kind \in Kinds, asked, connected \in SUBSET Addrs, known \in Lists :
        <<"choose", kind, asked, connected, known>> \in Jobs
<1>1. \A x \in Addrs, src \in AddSources : <<"append", x, src>> \in Jobs /\ <<"record", x, src>> \in Jobs
  BY Zenon DEF Jobs
<1>2. \A x \in Addrs : <<"dial", x>> \in Jobs /\ <<"accept", x>> \in Jobs
  BY Zenon DEF Jobs
<1>3. \A x \in Addrs, why \in {"asked", "forgotten"} : <<"cancel", x, why>> \in Jobs
  BY Zenon DEF Jobs
<1>4. \A ps \in Lists : <<"swap", ps>> \in Jobs
  BY Zenon DEF Jobs
<1>5. \A kind \in Kinds, asked \in SUBSET Addrs : <<"look", kind, asked>> \in Jobs
  BY Zenon DEF Jobs
<1>6. \A kind \in Kinds, asked, connected \in SUBSET Addrs, known \in Lists :
        <<"choose", kind, asked, connected, known>> \in Jobs
  BY Zenon DEF Jobs
<1> QED
  BY <1>1, <1>2, <1>3, <1>4, <1>5, <1>6, Zenon

\* Jobs that take the place of the first one of a queue.
Replacing(q, js, r) ==
    /\ r \in Seq(Jobs)
    /\ Head(q) \in Jobs /\ q[1] = Head(q) /\ 1 \in DOMAIN q
    /\ Len(r) = Len(js) + Len(q) - 1
    /\ \A i \in DOMAIN js : i \in DOMAIN r /\ r[i] = js[i]
    /\ \A i \in DOMAIN q : i # 1 => Len(js) + i - 1 \in DOMAIN r /\ r[Len(js) + i - 1] = q[i]
    /\ \A i \in DOMAIN r : \/ i \in DOMAIN js /\ r[i] = js[i]
                          \/ \E k \in DOMAIN q : k # 1 /\ i = Len(js) + k - 1 /\ r[i] = q[k]
\* The first job goes on as js: what becomes of the queue q.
LEMMA Replaced ==
  ASSUME NEW q \in Seq(Jobs), q # <<>>, NEW js \in Seq(Jobs)
  PROVE  Replacing(q, js, js \o Tail(q))
<1> DEFINE u == Tail(q)
           r == js \o u
           n == Len(js)
           m == Len(q)
<1>1. /\ u \in Seq(Jobs) /\ Len(u) = m - 1 /\ \A i \in 1 .. m - 1 : u[i] = q[i + 1]
      /\ n \in Nat /\ m \in Nat /\ m > 0 /\ DOMAIN js = 1 .. n /\ DOMAIN q = 1 .. m
      /\ Head(q) \in Jobs /\ q[1] = Head(q)
  OBVIOUS
<1> HIDE DEF u
<1>2. /\ r \in Seq(Jobs) /\ Len(r) = n + m - 1 /\ DOMAIN r = 1 .. n + m - 1
      /\ \A i \in 1 .. n : r[i] = js[i]
      /\ \A i \in n + 1 .. n + m - 1 : r[i] = u[i - n]
  <2>1. r = js \o u
    BY Zenon
  <2>2. js \o u \in Seq(Jobs) /\ Len(js \o u) = Len(js) + Len(u)
        /\ \A i \in 1 .. Len(js) + Len(u) : (js \o u)[i] = IF i <= Len(js) THEN js[i] ELSE u[i - Len(js)]
    BY <1>1, ConcatProperties, Zenon
  <2> HIDE DEF n, m, r
  <2>3. r \in Seq(Jobs) /\ Len(r) = n + m - 1
        /\ \A i \in 1 .. n + m - 1 : r[i] = IF i <= n THEN js[i] ELSE u[i - n]
    BY <1>1, <2>1, <2>2, Zenon DEF n
  <2>4. DOMAIN r = 1 .. n + m - 1
    BY <2>3
  <2> QED
    BY <1>1, <2>3, <2>4
<1> HIDE DEF n, m, r
<1>3. ASSUME NEW i \in 1 .. m, i # 1 PROVE n + i - 1 \in 1 .. n + m - 1 /\ r[n + i - 1] = q[i]
  <2>1. n + i - 1 \in n + 1 .. n + m - 1 /\ (n + i - 1) - n = i - 1 /\ i - 1 \in 1 .. m - 1 /\ (i - 1) + 1 = i
    BY <1>1, <1>3
  <2>2. r[n + i - 1] = u[(n + i - 1) - n]
    BY <1>2, <2>1, Zenon
  <2>3. u[i - 1] = q[(i - 1) + 1]
    BY <1>1, <2>1, Zenon
  <2>4. n + i - 1 \in 1 .. n + m - 1
    BY <1>1, <1>3
  <2> QED
    BY <2>1, <2>2, <2>3, <2>4, Zenon
<1>4. ASSUME NEW i \in 1 .. n + m - 1, i \notin 1 .. n
      PROVE  \E k \in 1 .. m : k # 1 /\ i = n + k - 1 /\ r[i] = q[k]
  <2>1. i - n + 1 \in 1 .. m /\ i - n + 1 # 1 /\ i = n + (i - n + 1) - 1
    BY <1>1, <1>4
  <2> QED
    BY <1>3, <2>1, Zenon
<1>5. 1 .. n \subseteq 1 .. n + m - 1 /\ 1 \in 1 .. m
  BY <1>1
<1> QED
  BY <1>1, <1>2, <1>3, <1>4, <1>5, Zenon DEF n, m, r, u, Replacing

\* To be done with the first job is to put none in its place.
LEMMA DoneGoesOn ==
  ASSUME ListInv, NEW p \in Procs, todo[p] # <<>>, Done(p)
  PROVE  GoesOn(p, <<>>)
<1>1. todo[p] \in Seq(Jobs)
  BY Zenon DEF ListInv
<1>2. Tail(todo[p]) = <<>> \o Tail(todo[p])
  BY <1>1, ConcatEmptySeq
<1> QED
  BY <1>2, Zenon DEF Done, GoesOn

\* Jobs that add: nothing is being forgotten in a queue that begins with one.
PlainKinds == {"append", "record", "dial", "accept", "swap"}
PlainChange(q, js, r) ==
    /\ r \in Seq(Jobs) /\ Shape(r) /\ Begun(r)
    /\ \A i \in DOMAIN q : q[i][1] \notin {"choose", "delete"} /\ ~IsForget(q[i])
    /\ \A i \in DOMAIN r : r[i][1] \notin {"choose", "delete"} /\ ~IsForget(r[i])
    /\ \A i \in DOMAIN q : i # 1 => \E k \in DOMAIN r : r[k] = q[i]
    /\ \A i \in DOMAIN js : i \in DOMAIN r /\ r[i] = js[i]
\* A job that adds goes on as jobs that record or dial.
LEMMA PlainQueue ==
  ASSUME NEW q \in Seq(Jobs), q # <<>>, Shape(q), Begun(q), Head(q)[1] \in PlainKinds,
         NEW js \in Seq(Jobs), \A i \in DOMAIN js : js[i][1] \in {"record", "dial"},
         NEW r, r = js \o Tail(q)
  PROVE  PlainChange(q, js, r)
<1>1. /\ r \in Seq(Jobs) /\ q[1] = Head(q) /\ 1 \in DOMAIN q
      /\ Len(r) = Len(js) + Len(q) - 1
      /\ \A i \in DOMAIN js : i \in DOMAIN r /\ r[i] = js[i]
      /\ \A i \in DOMAIN q : i # 1 => Len(js) + i - 1 \in DOMAIN r /\ r[Len(js) + i - 1] = q[i]
      /\ \A i \in DOMAIN r : \/ i \in DOMAIN js /\ r[i] = js[i]
                            \/ \E k \in DOMAIN q : k # 1 /\ i = Len(js) + k - 1 /\ r[i] = q[k]
  <2>1. Replacing(q, js, r)
    BY Replaced, Zenon
  <2> QED
    BY <2>1, Zenon DEF Replacing
<1>2. q[1][1] \notin {"choose", "cancel", "delete", "look"}
  BY <1>1, Zenon DEF PlainKinds
<1>3. Adding(q)
  <2>1. ~Choosing(q) /\ ~Forgets(q)
    BY <1>1, <1>2, Zenon DEF Choosing, Forgets, IsForget
  <2> QED
    BY <2>1, Zenon DEF Shape
<1>4. \A i \in DOMAIN q : q[i][1] # "delete"
  BY <1>1, <1>2, Zenon DEF Begun
<1>5. \A i \in DOMAIN js : js[i][1] \notin {"choose", "cancel", "delete", "look"}
  BY Zenon
<1>6. \A i \in DOMAIN r : r[i][1] # "choose" /\ r[i][1] # "delete" /\ ~IsForget(r[i])
                           /\ (r[i][1] = "look" => i = Len(r))
  <2>1. ASSUME NEW i \in DOMAIN r, i \in DOMAIN js, r[i] = js[i]
        PROVE  r[i][1] \notin {"choose", "cancel", "delete", "look"}
    BY <1>5, <2>1, Zenon
  <2>2. ASSUME NEW i \in DOMAIN r, NEW k \in DOMAIN q, i = Len(js) + k - 1, r[i] = q[k]
        PROVE  r[i][1] # "choose" /\ r[i][1] # "delete" /\ ~IsForget(r[i]) /\ (r[i][1] = "look" => i = Len(r))
    <3>1. q[k][1] # "choose" /\ q[k][1] # "delete" /\ ~IsForget(q[k]) /\ (q[k][1] = "look" => k = Len(q))
      BY <1>3, <1>4, Zenon DEF Adding
    <3>2. k = Len(q) => i = Len(r)
      BY <1>1, <2>2, Zenon
    <3> QED
      BY <2>2, <3>1, <3>2, Zenon
  <2>3. \A i \in DOMAIN r : r[i][1] \notin {"choose", "cancel", "delete", "look"} =>
           r[i][1] # "choose" /\ r[i][1] # "delete" /\ ~IsForget(r[i]) /\ (r[i][1] = "look" => i = Len(r))
    BY Zenon DEF IsForget
  <2> QED
    BY <1>1, <2>1, <2>2, <2>3, Zenon
<1>a. Adding(r)
  BY <1>6, Zenon DEF Adding
<1>b. Begun(r)
  BY <1>6, Zenon DEF Begun
<1>7. \A i \in DOMAIN r : r[i][1] \notin {"choose", "delete"} /\ ~IsForget(r[i])
  BY <1>6, Zenon
<1>8. \A i \in DOMAIN q : i # 1 => \E k \in DOMAIN r : r[k] = q[i]
  BY <1>1, Zenon
<1>9. \A i \in DOMAIN q : q[i][1] \notin {"choose", "delete"} /\ ~IsForget(q[i])
  BY <1>3, <1>4, Zenon DEF Adding
<1> QED
  BY <1>1, <1>7, <1>8, <1>9, <1>a, <1>b, Zenon DEF Shape, PlainChange

\* RemovePeer goes from the table to the list.
LEMMA CancelQueue ==
  ASSUME NEW q \in Seq(Jobs), q # <<>>, Shape(q), Begun(q), Head(q)[1] = "cancel",
         NEW r, r = << <<"delete", Head(q)[2], Head(q)[3]>> >> \o Tail(q)
  PROVE  /\ r \in Seq(Jobs) /\ Shape(r) /\ Begun(r) /\ 1 \in DOMAIN q
         /\ DOMAIN r = DOMAIN q /\ r[1] = <<"delete", q[1][2], q[1][3]>> /\ q[1][1] = "cancel"
         /\ \A i \in DOMAIN q : i # 1 => r[i] = q[i]
         /\ \A i \in DOMAIN q : q[i][1] \notin {"choose", "delete"}
<1> DEFINE j == <<"delete", Head(q)[2], Head(q)[3]>>
           js == <<j>>
<1>0. Head(q) \in Jobs /\ Head(q) = q[1]
  OBVIOUS
<1>1. j \in Jobs
  <2>1. Head(q)[2] \in Addrs /\ Head(q)[3] \in {"asked", "forgotten"}
    BY <1>0, JobKinds, Zenon
  <2> QED
    BY <2>1, Zenon DEF Jobs
<1>j. j[1] = "delete" /\ j[2] = q[1][2] /\ j[3] = q[1][3]
  BY <1>0, Zenon
<1>2. js \in Seq(Jobs) /\ Len(js) = 1 /\ DOMAIN js = {1} /\ js[1] = j
  BY <1>1
<1>3. r = js \o Tail(q)
  BY Zenon
<1> HIDE DEF js
<1>4. /\ r \in Seq(Jobs) /\ q[1] = Head(q) /\ 1 \in DOMAIN q
      /\ Len(r) = Len(js) + Len(q) - 1
      /\ \A i \in DOMAIN js : i \in DOMAIN r /\ r[i] = js[i]
      /\ \A i \in DOMAIN q : i # 1 => Len(js) + i - 1 \in DOMAIN r /\ r[Len(js) + i - 1] = q[i]
  <2>1. Replacing(q, js, r)
    BY <1>2, <1>3, Replaced, Zenon
  <2> QED
    BY <2>1, Zenon DEF Replacing
<1>5. Len(q) \in Nat /\ DOMAIN q = 1 .. Len(q) /\ Len(r) = Len(q) /\ DOMAIN r = 1 .. Len(r)
  BY <1>2, <1>4
<1>6. \A i \in DOMAIN q : i # 1 => r[i] = q[i]
  BY <1>2, <1>4, <1>5
<1>7. r[1] = j
  BY <1>2, <1>4, Zenon
<1> HIDE DEF j
<1>8. \A i \in DOMAIN q : q[i][1] \notin {"choose", "delete"}
  <2>1. ~Choosing(q)
    BY <1>0, <1>4, Zenon DEF Choosing
  <2>2. \A i \in DOMAIN q : q[i][1] # "choose"
    BY <2>1, Zenon DEF Shape, Adding, Forgets, IsForget
  <2> QED
    BY <1>0, <1>4, <2>2, Zenon DEF Begun
<1>9. Begun(r)
  BY <1>5, <1>6, <1>8, Zenon DEF Begun
<1>10. Shape(r)
  <2>1. CASE Adding(q)
    <3>1. ~IsForget(j)
      BY <1>0, <1>4, <1>j, <2>1, Zenon DEF IsForget, Adding
    <3> QED
      BY <1>5, <1>6, <1>7, <1>j, <2>1, <3>1, Zenon DEF Shape, Adding
  <2>2. CASE Forgets(q)
    <3>1. IsForget(j)
      BY <1>0, <1>4, <1>j, <2>2, Zenon DEF IsForget, Forgets
    <3> QED
      BY <1>5, <1>6, <1>7, <2>2, <3>1, Zenon DEF Shape, Forgets
  <2> QED
    BY <1>0, <1>4, <2>1, <2>2, Zenon DEF Shape, Choosing
<1> QED
  BY <1>0, <1>4, <1>5, <1>6, <1>7, <1>8, <1>9, <1>10, Zenon DEF j

\* RemovePeer ends.
DeleteChange(q, r) ==
    /\ r \in Seq(Jobs) /\ Shape(r) /\ Begun(r) /\ 1 \in DOMAIN q
    /\ \A i \in DOMAIN r : r[i][1] \notin {"choose", "delete"} /\ i + 1 \in DOMAIN q /\ r[i] = q[i + 1]
    /\ \A i \in DOMAIN q : i # 1 => i - 1 \in DOMAIN r /\ r[i - 1] = q[i]
\* What the end of a removal leaves of a queue.
LEMMA DeleteQueue ==
  ASSUME NEW q \in Seq(Jobs), q # <<>>, Shape(q), Begun(q), Head(q)[1] = "delete",
         NEW r, r = <<>> \o Tail(q)
  PROVE  DeleteChange(q, r)
<1> DEFINE js == <<>>
<1>1. js \in Seq(Jobs) /\ Len(js) = 0 /\ DOMAIN js = {} /\ r = js \o Tail(q)
  OBVIOUS
<1> HIDE DEF js
<1>2. /\ r \in Seq(Jobs) /\ q[1] = Head(q) /\ 1 \in DOMAIN q
      /\ Len(r) = Len(js) + Len(q) - 1
      /\ \A i \in DOMAIN q : i # 1 => Len(js) + i - 1 \in DOMAIN r /\ r[Len(js) + i - 1] = q[i]
      /\ \A i \in DOMAIN r : \/ i \in DOMAIN js /\ r[i] = js[i]
                            \/ \E k \in DOMAIN q : k # 1 /\ i = Len(js) + k - 1 /\ r[i] = q[k]
  <2>1. Replacing(q, js, r)
    BY <1>1, Replaced, Zenon
  <2> QED
    BY <2>1, Zenon DEF Replacing
<1>3. Len(q) \in Nat /\ DOMAIN q = 1 .. Len(q) /\ Len(r) = Len(q) - 1 /\ DOMAIN r = 1 .. Len(r)
  BY <1>1, <1>2
<1>4. \A i \in DOMAIN q : i # 1 => i - 1 \in DOMAIN r /\ r[i - 1] = q[i]
  BY <1>1, <1>2, <1>3
<1>5. \A i \in DOMAIN r : i + 1 \in DOMAIN q /\ i + 1 # 1 /\ r[i] = q[i + 1]
  BY <1>1, <1>2, <1>3
<1>6. \A i \in DOMAIN q : q[i][1] = "delete" => i = 1
  BY Zenon DEF Begun
<1>7. \A i \in DOMAIN q : q[i][1] # "choose"
  <2>1. ~Choosing(q)
    BY <1>2, Zenon DEF Choosing
  <2> QED
    BY <2>1, Zenon DEF Shape, Adding, Forgets, IsForget
<1>8. \A i \in DOMAIN r : r[i][1] \notin {"choose", "delete"}
  BY <1>5, <1>6, <1>7, Zenon
<1>9. Shape(r)
  <2>1. CASE Adding(q)
    <3>1. \A i \in DOMAIN r : r[i][1] # "choose" /\ ~IsForget(r[i]) /\ (r[i][1] = "look" => i + 1 = Len(q))
      BY <1>5, <2>1, Zenon DEF Adding
    <3>2. \A i \in DOMAIN r : i + 1 = Len(q) => i = Len(r)
      BY <1>3
    <3> QED
      BY <3>1, <3>2, Zenon DEF Shape, Adding
  <2>2. CASE Forgets(q)
    BY <1>5, <2>2, Zenon DEF Shape, Forgets
  <2> QED
    BY <1>2, <2>1, <2>2, Zenon DEF Shape, Choosing
<1>10. Begun(r)
  BY <1>8, Zenon DEF Begun
<1> QED
  BY <1>2, <1>4, <1>5, <1>8, <1>9, <1>10, Zenon DEF DeleteChange

-----------------------------------------------------------------------------
(* What a step of one goroutine does to the queues, and to what the        *)
(* invariants say of them.                                                 *)
QueuesGood == todo \in [Procs -> Seq(Jobs)] /\ \A p \in Procs : Shape(todo[p]) /\ Begun(todo[p])

\* The queues have their type and their shape.
LEMMA Queues == ListInv => QueuesGood
BY Zenon DEF ListInv, QueuesGood

\* The queues of the others stay.
LEMMA OthersStay ==
  ASSUME QueuesGood, NEW p \in Procs, NEW r, todo' = [todo EXCEPT ![p] = r]
  PROVE  /\ todo'[p] = r
         /\ \A q \in Procs : q # p => todo'[q] = todo[q]
         /\ r \in Seq(Jobs) /\ Shape(r) /\ Begun(r) => QueuesGood'
<1>1. todo'[p] = r /\ \A q \in Procs : q # p => todo'[q] = todo[q]
  BY Zenon DEF QueuesGood
<1>2. ASSUME r \in Seq(Jobs), Shape(r), Begun(r) PROVE QueuesGood'
  <2>1. todo' \in [Procs -> Seq(Jobs)]
    BY <1>2, Zenon DEF QueuesGood
  <2>2. \A q \in Procs : todo'[q] = todo[q] \/ todo'[q] = r
    BY <1>1, Zenon
  <2>3. \A q \in Procs : Shape(todo'[q]) /\ Begun(todo'[q])
    BY <1>2, <2>2, Zenon DEF QueuesGood
  <2>4. \A q \in Procs : (Shape(todo[q]) /\ Begun(todo[q]))'
    BY <2>3, Zenon DEF Shape, Adding, Choosing, Forgets, Begun
  <2> QED
    BY <2>1, <2>4, Zenon DEF QueuesGood
<1> QED
  BY <1>1, <1>2, Zenon

\* What a plain step does.
PlainStep(p, js, h) ==
    /\ QueuesGood'
    /\ \A q \in Procs, x \in Addrs : Forgetting(q, x)' <=> Forgetting(q, x)
    /\ \A x \in Addrs : ~Forgetting(p, x)
    /\ \A x \in Addrs : Deleting(x)' <=> Deleting(x)
    /\ \A q \in Procs : AtStep(q, "choose")' => q # p /\ AtStep(q, "choose") /\ todo'[q] = todo[q]
    /\ \A x \in Addrs : Pending(x) => Pending(x)' \/ (h[1] \in {"record", "dial"} /\ h[2] = x)
    /\ \A x \in Addrs : (\E i \in DOMAIN js : js[i][2] = x) => Pending(x)'
    /\ \A x \in Addrs : Recording(x) => Recording(x)' \/ (h[1] = "record" /\ h[2] = x /\ h[3] = "manual")
    /\ js # <<>> => todo'[p] # <<>> /\ Head(todo'[p]) = js[1]

\* A step that adds leaves what is being forgotten, chosen or deleted as it is.
LEMMA PlainMove ==
  ASSUME QueuesGood, NEW p \in Procs, todo[p] # <<>>, NEW h, h = Head(todo[p]), h[1] \in PlainKinds,
         NEW js \in Seq(Jobs), \A i \in DOMAIN js : js[i][1] \in {"record", "dial"}, GoesOn(p, js)
  PROVE  PlainStep(p, js, h)
<1>1. PICK q0 : q0 = todo[p]
  BY Zenon
<1>2. PICK r0 : r0 = js \o Tail(q0)
  BY Zenon
<1>3. q0 \in Seq(Jobs) /\ q0 # <<>> /\ Shape(q0) /\ Begun(q0) /\ Head(q0) = h
  BY <1>1, Zenon DEF QueuesGood
<1>4. /\ r0 \in Seq(Jobs) /\ Shape(r0) /\ Begun(r0)
      /\ \A i \in DOMAIN q0 : q0[i][1] \notin {"choose", "delete"} /\ ~IsForget(q0[i])
      /\ \A i \in DOMAIN r0 : r0[i][1] \notin {"choose", "delete"} /\ ~IsForget(r0[i])
      /\ \A i \in DOMAIN q0 : i # 1 => \E k \in DOMAIN r0 : r0[k] = q0[i]
      /\ \A i \in DOMAIN js : i \in DOMAIN r0 /\ r0[i] = js[i]
  <2>1. Head(q0)[1] \in PlainKinds
    BY <1>3, Zenon
  <2>2. PlainChange(q0, js, r0)
    BY <1>2, <1>3, <2>1, PlainQueue, Zenon
  <2> QED
    BY <2>2, Zenon DEF PlainChange
<1>5. todo' = [todo EXCEPT ![p] = r0]
  BY <1>1, <1>2, Zenon DEF GoesOn
<1>6. todo'[p] = r0 /\ QueuesGood' /\ \A q \in Procs : q # p => todo'[q] = todo[q]
  BY <1>4, <1>5, OthersStay, Zenon
<1>7. (q0 # <<>> => 1 \in DOMAIN q0 /\ q0[1] = Head(q0)) /\ (r0 # <<>> => 1 \in DOMAIN r0 /\ r0[1] = Head(r0))
  BY <1>3, <1>4
<1>8. ASSUME NEW x \in Addrs PROVE ~Forgetting(p, x) /\ ~Forgetting(p, x)'
  BY <1>1, <1>4, <1>6, Zenon DEF Forgetting, IsForget
<1>9. ASSUME NEW q \in Procs, NEW x \in Addrs PROVE Forgetting(q, x)' <=> Forgetting(q, x)
  <2>1. CASE q = p
    BY <1>8, <2>1, Zenon
  <2>2. CASE q # p
    BY <1>6, <2>2, Zenon DEF Forgetting
  <2> QED
    BY <2>1, <2>2, Zenon
<1>10. ~AtStep(p, "delete") /\ ~AtStep(p, "delete")' /\ ~AtStep(p, "choose")'
  BY <1>1, <1>4, <1>6, <1>7 DEF AtStep
<1>11. ASSUME NEW x \in Addrs PROVE Deleting(x)' <=> Deleting(x)
  BY <1>6, <1>10, Zenon DEF Deleting, AtStep
<1>12. ASSUME NEW q \in Procs, AtStep(q, "choose")'
       PROVE  q # p /\ AtStep(q, "choose") /\ todo'[q] = todo[q]
  BY <1>6, <1>10, <1>12, Zenon DEF AtStep
<1>13. ASSUME NEW x \in Addrs, Pending(x), ~(h[1] \in {"record", "dial"} /\ h[2] = x) PROVE Pending(x)'
  <2>1. PICK q \in Procs : \E i \in DOMAIN todo[q] : todo[q][i][1] \in {"record", "dial"} /\ todo[q][i][2] = x
    BY <1>13, Zenon DEF Pending
  <2>2. CASE q # p
    BY <1>6, <2>1, <2>2 DEF Pending
  <2>3. CASE q = p
    <3>1. PICK i \in DOMAIN q0 : q0[i][1] \in {"record", "dial"} /\ q0[i][2] = x
      BY <1>1, <2>1, <2>3, Zenon
    <3>2. i # 1
      BY <1>3, <1>7, <1>13, <3>1, Zenon
    <3>3. PICK k \in DOMAIN r0 : r0[k] = q0[i]
      BY <1>4, <3>2, Zenon
    <3> QED
      BY <1>6, <3>1, <3>3, Zenon DEF Pending
  <2> QED
    BY <2>2, <2>3, Zenon
<1>14. ASSUME NEW x \in Addrs, NEW i \in DOMAIN js, js[i][2] = x PROVE Pending(x)'
  BY <1>4, <1>6, <1>14, Zenon DEF Pending
<1>15. ASSUME NEW x \in Addrs, Recording(x), ~(h[1] = "record" /\ h[2] = x /\ h[3] = "manual") PROVE Recording(x)'
  BY <1>6, <1>15, Zenon DEF Recording, AtStep
<1>16. js # <<>> => todo'[p] # <<>> /\ Head(todo'[p]) = js[1]
  <2>1. js # <<>> => 1 \in DOMAIN js
    OBVIOUS
  <2>2. js # <<>> => r0 # <<>> /\ r0[1] = js[1]
    BY <1>4, <2>1
  <2> QED
    BY <1>6, <1>7, <2>2, Zenon
<1> QED
  BY <1>6, <1>8, <1>9, <1>11, <1>12, <1>13, <1>14, <1>15, <1>16, Zenon DEF PlainStep

\* A step that carries on with what is to be recorded and dialled.
Carried(p) ==
    /\ QueuesGood'
    /\ \A q \in Procs : q # p => todo'[q] = todo[q]
    /\ \A q \in Procs, x \in Addrs : q # p => (Forgetting(q, x)' <=> Forgetting(q, x))
    /\ \A x \in Addrs : (Pending(x) => Pending(x)') /\ (Recording(x) => Recording(x)')
Retains(q0, r0) == \A i \in DOMAIN q0 : q0[i][1] \in {"record", "dial"} => \E k \in DOMAIN r0 : r0[k] = q0[i]
\* A step that keeps the jobs of a queue that record or dial loses no pending dial.
LEMMA Carries ==
  ASSUME QueuesGood, NEW p \in Procs, NEW q0, q0 = todo[p], ~AtStep(p, "record"),
         NEW r0 \in Seq(Jobs), Shape(r0), Begun(r0), todo' = [todo EXCEPT ![p] = r0],
         Retains(q0, r0)
  PROVE  Carried(p) /\ todo'[p] = r0
<1>1. todo'[p] = r0 /\ QueuesGood' /\ \A q \in Procs : q # p => todo'[q] = todo[q]
  BY OthersStay, Zenon
<1>2. ASSUME NEW q \in Procs, NEW x \in Addrs, q # p PROVE Forgetting(q, x)' <=> Forgetting(q, x)
  BY <1>1, <1>2, Zenon DEF Forgetting
<1>3. ASSUME NEW x \in Addrs, Pending(x) PROVE Pending(x)'
  <2>1. PICK q \in Procs : \E i \in DOMAIN todo[q] : todo[q][i][1] \in {"record", "dial"} /\ todo[q][i][2] = x
    BY <1>3, Zenon DEF Pending
  <2>2. CASE q # p
    BY <1>1, <2>1, <2>2 DEF Pending
  <2>3. CASE q = p
    <3>1. PICK i \in DOMAIN q0 : q0[i][1] \in {"record", "dial"} /\ q0[i][2] = x
      BY <2>1, <2>3, Zenon
    <3>2. PICK k \in DOMAIN r0 : r0[k] = q0[i]
      BY <3>1, Zenon DEF Retains
    <3> QED
      BY <1>1, <3>1, <3>2 DEF Pending
  <2> QED
    BY <2>2, <2>3, Zenon
<1>4. ASSUME NEW x \in Addrs, Recording(x) PROVE Recording(x)'
  BY <1>1, <1>4, Zenon DEF Recording, AtStep
<1> QED
  BY <1>1, <1>2, <1>3, <1>4, Zenon DEF Carried

\* A queue at a job is one that begins with it.
LEMMA Leading ==
  ASSUME QueuesGood, NEW p \in Procs, NEW kind, AtStep(p, kind)
  PROVE  /\ todo[p] \in Seq(Jobs) /\ todo[p] # <<>> /\ Shape(todo[p]) /\ Begun(todo[p])
         /\ 1 \in DOMAIN todo[p] /\ todo[p][1] = Head(todo[p])
         /\ Head(todo[p]) \in Jobs /\ Head(todo[p])[1] = kind
<1>1. todo[p] \in Seq(Jobs) /\ todo[p] # <<>> /\ Head(todo[p])[1] = kind /\ Shape(todo[p]) /\ Begun(todo[p])
  BY Zenon DEF QueuesGood, AtStep
<1> QED
  BY <1>1

\* What the first step of RemovePeer does.
CancelStep(p, h) ==
    /\ Carried(p) /\ h[2] \in Addrs
    /\ \A q \in Procs, x \in Addrs : Forgetting(q, x)' <=> Forgetting(q, x)
    /\ \A x \in Addrs : Deleting(x)' <=> Deleting(x) \/ x = h[2]
    /\ ~AtStep(p, "choose")'
\* After the loop is cancelled the address is about to be deleted, and nothing else is.
LEMMA CancelMove ==
  ASSUME QueuesGood, NEW p \in Procs, AtStep(p, "cancel"), NEW h, h = Head(todo[p]),
         GoesOn(p, << <<"delete", h[2], h[3]>> >>)
  PROVE  CancelStep(p, h)
<1>1. PICK q0 : q0 = todo[p]
  BY Zenon
<1>2. PICK r0 : r0 = << <<"delete", h[2], h[3]>> >> \o Tail(q0)
  BY Zenon
<1>3. /\ q0 \in Seq(Jobs) /\ q0 # <<>> /\ Shape(q0) /\ Begun(q0) /\ Head(q0) = h /\ q0[1] = h
      /\ h \in Jobs /\ h[1] = "cancel"
  BY <1>1, Leading, Zenon
<1>4. h[2] \in Addrs
  BY <1>3, JobKinds, Zenon
<1>5. /\ r0 \in Seq(Jobs) /\ Shape(r0) /\ Begun(r0) /\ 1 \in DOMAIN q0
      /\ DOMAIN r0 = DOMAIN q0 /\ r0[1] = <<"delete", h[2], h[3]>>
      /\ \A i \in DOMAIN q0 : i # 1 => r0[i] = q0[i]
      /\ \A i \in DOMAIN q0 : q0[i][1] \notin {"choose", "delete"}
  BY <1>2, <1>3, CancelQueue, Zenon
<1>6. todo' = [todo EXCEPT ![p] = r0]
  BY <1>1, <1>2, Zenon DEF GoesOn
<1>7. Carried(p) /\ todo'[p] = r0
  <2>1. ~AtStep(p, "record")
    BY <1>1, <1>3, Zenon DEF AtStep
  <2>2. Retains(q0, r0)
    BY <1>3, <1>5, Zenon DEF Retains
  <2>3. r0 \in Seq(Jobs) /\ Shape(r0) /\ Begun(r0)
    BY <1>5, Zenon
  <2> QED
    BY <1>1, <1>6, <2>1, <2>2, <2>3, Carries, Zenon
<1>8. r0[1][1] = "delete" /\ r0[1][2] = h[2] /\ r0[1][3] = h[3] /\ r0 # <<>> /\ Head(r0) = r0[1]
  BY <1>5
<1>9. ASSUME NEW x \in Addrs PROVE Forgetting(p, x)' <=> Forgetting(p, x)
  BY <1>1, <1>3, <1>5, <1>7, <1>8, SMTT(30) DEF Forgetting
<1>10. \A q \in Procs, x \in Addrs : Forgetting(q, x)' <=> Forgetting(q, x)
  BY <1>7, <1>9, Zenon DEF Carried
<1>11. ASSUME NEW x \in Addrs PROVE Deleting(x)' <=> Deleting(x) \/ x = h[2]
  BY <1>1, <1>3, <1>7, <1>8 DEF Deleting, AtStep, Carried
<1>12. ~AtStep(p, "choose")'
  BY <1>7, <1>8, Zenon DEF AtStep
<1> QED
  BY <1>4, <1>7, <1>10, <1>11, <1>12, Zenon DEF CancelStep

\* What the second step of RemovePeer does.
DeleteStep(p, h) ==
    /\ Carried(p) /\ h[2] \in Addrs
    /\ \A q \in Procs, x \in Addrs : Forgetting(q, x)' => Forgetting(q, x)
    /\ IF h[3] = "forgotten" THEN Forgetting(p, h[2]) ELSE \A x \in Addrs : ~Forgetting(p, x)
    /\ \A x \in Addrs : (Deleting(x)' => Deleting(x)) /\ (Deleting(x) /\ x # h[2] => Deleting(x)')
    /\ Deleting(h[2])
    /\ ~AtStep(p, "choose")'
\* After the list is changed the removal is over.
LEMMA DeleteMove ==
  ASSUME QueuesGood, NEW p \in Procs, AtStep(p, "delete"), NEW h, h = Head(todo[p]), GoesOn(p, <<>>)
  PROVE  DeleteStep(p, h)
<1>1. PICK q0 : q0 = todo[p]
  BY Zenon
<1>2. PICK r0 : r0 = <<>> \o Tail(q0)
  BY Zenon
<1>3. /\ q0 \in Seq(Jobs) /\ q0 # <<>> /\ Shape(q0) /\ Begun(q0) /\ Head(q0) = h /\ q0[1] = h
      /\ h \in Jobs /\ h[1] = "delete"
  BY <1>1, Leading, Zenon
<1>4. h[2] \in Addrs
  BY <1>3, JobKinds, Zenon
<1>5. /\ r0 \in Seq(Jobs) /\ Shape(r0) /\ Begun(r0) /\ 1 \in DOMAIN q0
      /\ \A i \in DOMAIN r0 : r0[i][1] \notin {"choose", "delete"} /\ i + 1 \in DOMAIN q0 /\ r0[i] = q0[i + 1]
      /\ \A i \in DOMAIN q0 : i # 1 => i - 1 \in DOMAIN r0 /\ r0[i - 1] = q0[i]
  <2>1. DeleteChange(q0, r0)
    BY <1>2, <1>3, DeleteQueue, Zenon
  <2> QED
    BY <2>1, Zenon DEF DeleteChange
<1>6. todo' = [todo EXCEPT ![p] = r0]
  BY <1>1, <1>2, Zenon DEF GoesOn
<1>7. Carried(p) /\ todo'[p] = r0
  <2>1. ~AtStep(p, "record")
    BY <1>1, <1>3, Zenon DEF AtStep
  <2>2. Retains(q0, r0)
    BY <1>3, <1>5, Zenon DEF Retains
  <2>3. r0 \in Seq(Jobs) /\ Shape(r0) /\ Begun(r0)
    BY <1>5, Zenon
  <2> QED
    BY <1>1, <1>6, <2>1, <2>2, <2>3, Carries, Zenon
<1>8. ~AtStep(p, "delete")' /\ ~AtStep(p, "choose")'
  <2>1. r0 # <<>> => 1 \in DOMAIN r0 /\ Head(r0) = r0[1]
    BY <1>5
  <2> QED
    BY <1>5, <1>7, <2>1, Zenon DEF AtStep
<1>9. ASSUME NEW x \in Addrs, Forgetting(p, x)' PROVE Forgetting(p, x)
  BY <1>1, <1>5, <1>7, <1>9, SMTT(30) DEF Forgetting
<1>10. \A q \in Procs, x \in Addrs : Forgetting(q, x)' => Forgetting(q, x)
  BY <1>7, <1>9, Zenon DEF Carried
<1>11. ASSUME NEW x \in Addrs PROVE (Deleting(x)' => Deleting(x)) /\ (Deleting(x) /\ x # h[2] => Deleting(x)')
  BY <1>7, <1>8, Zenon DEF Deleting, AtStep, Carried
<1>12. Deleting(h[2])
  BY Zenon DEF Deleting
<1>13. IF h[3] = "forgotten" THEN Forgetting(p, h[2]) ELSE \A x \in Addrs : ~Forgetting(p, x)
  <2>1. CASE h[3] = "forgotten"
    BY <1>1, <1>3, <1>5, <2>1 DEF Forgetting
  <2>2. CASE h[3] # "forgotten"
    <3>1. ~Choosing(q0) /\ ~Forgets(q0)
      BY <1>3, <1>5, <2>2, Zenon DEF Choosing, Forgets, IsForget
    <3>2. Adding(q0)
      BY <1>3, <3>1, Zenon DEF Shape
    <3> QED
      BY <1>1, <2>2, <3>2, Zenon DEF Adding, Forgetting, IsForget
  <2> QED
    BY <2>1, <2>2, Zenon
<1> QED
  BY <1>4, <1>7, <1>8, <1>10, <1>11, <1>12, <1>13, Zenon DEF DeleteStep

\* A queue of one job.
LEMMA LastJob ==
  ASSUME NEW q \in Seq(Jobs), Len(q) = 1
  PROVE  Tail(q) = <<>> /\ DOMAIN q = {1}
<1>1. Tail(q) \in Seq(Jobs) /\ Len(Tail(q)) = 0 /\ DOMAIN q = {1}
  OBVIOUS
<1> QED
  BY <1>1, EmptySeq, Zenon

\* What reading the list does to the queues.
LookStep(p, j) ==
    /\ Carried(p)
    /\ \A x \in Addrs : ~Forgetting(p, x) /\ ~Forgetting(p, x)'
    /\ \A x \in Addrs : Deleting(x)' <=> Deleting(x)
    /\ todo'[p] # <<>> /\ Head(todo'[p]) = j
\* A pass that has read the list is about to choose, and has chosen nothing yet.
LEMMA LookMove ==
  ASSUME QueuesGood, NEW p \in Procs, AtStep(p, "look"), NEW j \in Jobs, j[1] = "choose", GoesOn(p, <<j>>)
  PROVE  LookStep(p, j)
<1>1. PICK q0 : q0 = todo[p]
  BY Zenon
<1>2. PICK r0 : r0 = <<j>>
  BY Zenon
<1>3. /\ q0 \in Seq(Jobs) /\ q0 # <<>> /\ Shape(q0) /\ Begun(q0) /\ 1 \in DOMAIN q0 /\ q0[1][1] = "look"
      /\ q0[1] = Head(q0)
  BY <1>1, Leading, Zenon
<1>4. Adding(q0)
  BY <1>3, Zenon DEF Shape, Choosing, Forgets, IsForget
<1>5. Len(q0) = 1
  BY <1>3, <1>4, Zenon DEF Adding
<1>6. Tail(q0) = <<>> /\ DOMAIN q0 = {1}
  BY <1>3, <1>5, LastJob, Zenon
<1>7. r0 \in Seq(Jobs) /\ Len(r0) = 1 /\ DOMAIN r0 = {1} /\ r0[1] = j /\ r0 # <<>> /\ Head(r0) = j
  BY <1>2
<1>8. Shape(r0) /\ Begun(r0)
  BY <1>7, Zenon DEF Shape, Choosing, Begun
<1>9. todo' = [todo EXCEPT ![p] = r0]
  <2>1. <<j>> \o Tail(q0) = r0
    BY <1>2, <1>6, <1>7, ConcatEmptySeq, Zenon
  <2> QED
    BY <1>1, <2>1, Zenon DEF GoesOn
<1>10. Carried(p) /\ todo'[p] = r0
  <2>1. ~AtStep(p, "record")
    BY <1>1, <1>3, Zenon DEF AtStep
  <2>2. Retains(q0, r0)
    BY <1>3, <1>6, Zenon DEF Retains
  <2> QED
    BY <1>1, <1>7, <1>8, <1>9, <2>1, <2>2, Carries, Zenon
<1>11. ASSUME NEW x \in Addrs PROVE ~Forgetting(p, x) /\ ~Forgetting(p, x)'
  BY <1>1, <1>3, <1>6, <1>7, <1>10, Zenon DEF Forgetting
<1>12. ASSUME NEW x \in Addrs PROVE Deleting(x)' <=> Deleting(x)
  BY <1>1, <1>3, <1>7, <1>10 DEF Deleting, AtStep, Carried
<1> QED
  BY <1>7, <1>10, <1>11, <1>12, Zenon DEF LookStep

\* What choosing does to the queues.
ChooseStep(p, drop) ==
    /\ Carried(p)
    /\ \A x \in Addrs : ~Forgetting(p, x) /\ (Forgetting(p, x)' <=> x \in Range(drop))
    /\ \A x \in Addrs : Deleting(x)' <=> Deleting(x)
    /\ ~AtStep(p, "choose")'
\* A pass that has chosen is forgetting what it has chosen, and nothing else.
LEMMA ChooseMove ==
  ASSUME QueuesGood, NEW p \in Procs, AtStep(p, "choose"), NEW drop \in Seq(Addrs), GoesOn(p, RemoveAll(drop))
  PROVE  ChooseStep(p, drop)
<1>1. PICK q0 : q0 = todo[p]
  BY Zenon
<1>2. PICK r0 : r0 = RemoveAll(drop)
  BY Zenon
<1>3. /\ q0 \in Seq(Jobs) /\ q0 # <<>> /\ Shape(q0) /\ Begun(q0) /\ 1 \in DOMAIN q0 /\ q0[1][1] = "choose"
      /\ q0[1] = Head(q0)
  BY <1>1, Leading, Zenon
<1>4. Choosing(q0)
  BY <1>3, Zenon DEF Shape, Adding, Forgets, IsForget
<1>5. Tail(q0) = <<>> /\ DOMAIN q0 = {1}
  BY <1>3, <1>4, LastJob, Zenon DEF Choosing
<1>6. /\ DOMAIN r0 = DOMAIN drop /\ DOMAIN drop = 1 .. Len(drop) /\ Len(drop) \in Nat
      /\ \A i \in DOMAIN drop : drop[i] \in Addrs /\ r0[i] = <<"cancel", drop[i], "forgotten">>
  BY <1>2 DEF RemoveAll, RemovePeer
<1>7. r0 \in Seq(Jobs)
  <2>1. \A i \in DOMAIN drop : r0[i] \in Jobs
    BY <1>6, JobsTyped, Zenon
  <2>2. r0 = [i \in 1 .. Len(drop) |-> r0[i]]
    BY <1>2, <1>6, Zenon DEF RemoveAll
  <2> QED
    BY <1>6, <2>1, <2>2
<1>k. \A i \in DOMAIN r0 : r0[i][1] = "cancel" /\ r0[i][2] = drop[i] /\ r0[i][3] = "forgotten"
  BY <1>6
<1>8. Shape(r0) /\ Begun(r0)
  BY <1>k, Zenon DEF Shape, Forgets, IsForget, Begun
<1>9. todo' = [todo EXCEPT ![p] = r0]
  <2>1. RemoveAll(drop) \o Tail(q0) = r0
    BY <1>2, <1>5, <1>7, ConcatEmptySeq, Zenon
  <2> QED
    BY <1>1, <2>1, Zenon DEF GoesOn
<1>10. Carried(p) /\ todo'[p] = r0
  <2>1. ~AtStep(p, "record")
    BY <1>1, <1>3, Zenon DEF AtStep
  <2>2. Retains(q0, r0)
    BY <1>3, <1>5, Zenon DEF Retains
  <2> QED
    BY <1>1, <1>7, <1>8, <1>9, <2>1, <2>2, Carries, Zenon
<1>11. ASSUME NEW x \in Addrs PROVE ~Forgetting(p, x) /\ (Forgetting(p, x)' <=> x \in Range(drop))
  <2>1. ~Forgetting(p, x)
    BY <1>1, <1>3, <1>5, Zenon DEF Forgetting
  <2>2. Forgetting(p, x)' <=> \E i \in DOMAIN drop : drop[i] = x
    BY <1>6, <1>10, <1>k DEF Forgetting
  <2> QED
    BY <2>1, <2>2, Zenon DEF Range
<1>12. r0 # <<>> => Head(r0)[1] = "cancel"
  BY <1>7, <1>k, SMTT(30)
<1>13. ASSUME NEW x \in Addrs PROVE Deleting(x)' <=> Deleting(x)
  BY <1>1, <1>3, <1>10, <1>12 DEF Deleting, AtStep, Carried
<1>14. ~AtStep(p, "choose")'
  BY <1>10, <1>12, Zenon DEF AtStep
<1> QED
  BY <1>10, <1>11, <1>13, <1>14, Zenon DEF ChooseStep

\* An operation begins with jobs that remove nothing the operator did not ask to remove.
FreshJob(j) == j \in Jobs /\ j[1] \notin {"choose", "delete"} /\ ~IsForget(j)
Fresh(q) == q \in Seq(Jobs) /\ \A i \in DOMAIN q : FreshJob(q[i]) /\ (q[i][1] = "look" => i = Len(q))

\* AddAll makes jobs that only add.
LEMMA FreshAdd ==
  ASSUME NEW ps \in Seq(Addrs), NEW src \in AddSources
  PROVE  /\ AddAll(ps, src) \in Seq(Jobs)
         /\ \A i \in DOMAIN AddAll(ps, src) : FreshJob(AddAll(ps, src)[i]) /\ AddAll(ps, src)[i][1] # "look"
<1> DEFINE q == AddAll(ps, src)
<1>1. DOMAIN q = 1 .. Len(ps) /\ Len(ps) \in Nat /\ \A i \in 1 .. Len(ps) : q[i] = <<"append", ps[i], src>> /\ ps[i] \in Addrs
  BY DEF AddAll, AddPeerFrom
<1>3. q = [i \in 1 .. Len(ps) |-> q[i]]
  BY <1>1, Zenon DEF AddAll
<1> HIDE DEF q
<1>2. ASSUME NEW i \in 1 .. Len(ps) PROVE q[i] \in Jobs /\ q[i][1] = "append"
  <2>1. <<"append", ps[i], src>> \in Jobs
    BY <1>1, JobsTyped, Zenon
  <2> QED
    BY <1>1, <2>1
<1>4. q \in Seq(Jobs)
  BY <1>1, <1>2, <1>3
<1>5. \A i \in DOMAIN q : FreshJob(q[i]) /\ q[i][1] # "look"
  BY <1>1, <1>2, Zenon DEF FreshJob, IsForget
<1> QED
  BY <1>4, <1>5, Zenon DEF q

\* One such job is such a queue.
LEMMA FreshOne == ASSUME NEW j, FreshJob(j) PROVE Fresh(<<j>>)
<1>1. <<j>> \in Seq(Jobs) /\ DOMAIN <<j>> = {1} /\ <<j>>[1] = j /\ Len(<<j>>) = 1
  BY DEF FreshJob
<1> QED
  BY <1>1, Zenon DEF Fresh

\* Every operation does.
LEMMA OperationFresh ==
  ASSUME NEW p \in Procs, NEW op \in Repertoire[p]
  PROVE  Fresh(Operation(op))
<1>0. /\ {"unreachable", "missing", "leave"} = Kinds /\ {"manual", "learned", "discovery"} = AddSources
      /\ {} \in SUBSET Addrs
  BY Zenon DEF Kinds, AddSources
<1>1. CASE op \in {"learn", "add", "remove", "leave"} \X Addrs
  <2>0. op[2] \in Addrs /\ op[1] \in {"learn", "add", "remove", "leave"}
    BY <1>1, Zenon
  <2> DEFINE x == op[2]
  <2>1. CASE op[1] = "learn"
    <3> DEFINE j == <<"append", x, "learned">>
               k == <<"accept", x>>
               q == <<j, k>>
    <3>1. Operation(op) = q
      BY <2>1, Zenon DEF Operation, AddPeerFrom
    <3>2. j \in Jobs /\ k \in Jobs /\ j[1] = "append" /\ k[1] = "accept"
      BY <1>0, <2>0, JobsTyped, Zenon
    <3> HIDE DEF j, k
    <3>3. q \in Seq(Jobs) /\ DOMAIN q = {1, 2} /\ q[1] = j /\ q[2] = k
      BY <3>2
    <3> QED
      BY <3>1, <3>2, <3>3, Zenon DEF Fresh, FreshJob, IsForget
  <2>2. CASE op[1] = "add"
    <3>1. Operation(op) = << <<"append", x, "manual">> >>
      BY <2>2, Zenon DEF Operation, AddPeerFrom
    <3>2. FreshJob(<<"append", x, "manual">>)
      BY <1>0, <2>0, JobsTyped, Zenon DEF FreshJob, IsForget
    <3> QED
      BY <3>1, <3>2, FreshOne, Zenon
  <2>3. CASE op[1] = "remove"
    <3>1. Operation(op) = << <<"cancel", x, "asked">> >>
      BY <2>3, Zenon DEF Operation, RemovePeer
    <3>2. FreshJob(<<"cancel", x, "asked">>)
      BY <2>0, JobsTyped, Zenon DEF FreshJob, IsForget
    <3> QED
      BY <3>1, <3>2, FreshOne, Zenon
  <2>4. CASE op[1] = "leave"
    <3>1. Operation(op) = << <<"look", "leave", {x}>> >>
      BY <2>4, Zenon DEF Operation, handleLeave
    <3>2. FreshJob(<<"look", "leave", {x}>>)
      BY <1>0, <2>0, JobsTyped, Zenon DEF FreshJob, IsForget
    <3> QED
      BY <3>1, <3>2, FreshOne, Zenon
  <2> QED
    BY <2>0, <2>1, <2>2, <2>3, <2>4, Zenon
<1>2. CASE op \in {"gossip", "discover"} \X Seq(Addrs)
  <2>0. op[2] \in Seq(Addrs) /\ op[1] \in {"gossip", "discover"}
    BY <1>2, Zenon
  <2>1. CASE op[1] = "gossip"
    <3>1. Operation(op) = AddAll(op[2], "learned")
      BY <2>1, Zenon DEF Operation
    <3> QED
      BY <1>0, <2>0, <3>1, FreshAdd, Zenon DEF Fresh
  <2>2. CASE op[1] = "discover"
    <3> DEFINE a == AddAll(op[2], "discovery")
               j == <<"look", "missing", Addrs \ Range(op[2])>>
               q == Append(a, j)
    <3>1. Operation(op) = q
      BY <2>2, Zenon DEF Operation, ForgetPeersMissingFrom
    <3>2. a \in Seq(Jobs) /\ \A i \in DOMAIN a : FreshJob(a[i]) /\ a[i][1] # "look"
      BY <1>0, <2>0, FreshAdd, Zenon
    <3>3. FreshJob(j)
      BY <1>0, JobsTyped, Zenon DEF FreshJob, IsForget
    <3>4. j \in Jobs
      BY <3>3, Zenon DEF FreshJob
    <3> HIDE DEF a, j
    <3>5. q \in Seq(Jobs) /\ Len(q) = Len(a) + 1 /\ DOMAIN q = 1 .. Len(a) + 1
          /\ q[Len(a) + 1] = j /\ \A i \in 1 .. Len(a) : q[i] = a[i]
      BY <3>2, <3>4
    <3>6. DOMAIN a = 1 .. Len(a) /\ Len(a) \in Nat
      BY <3>2
    <3> HIDE DEF q
    <3>7. \A i \in DOMAIN q : FreshJob(q[i]) /\ (q[i][1] = "look" => i = Len(q))
      BY <3>2, <3>3, <3>5, <3>6
    <3> QED
      BY <3>1, <3>5, <3>7, Zenon DEF Fresh
  <2> QED
    BY <2>0, <2>1, <2>2, Zenon
<1>3. CASE op = <<"reap">>
  <2>1. op[1] = "reap"
    BY <1>3, Zenon
  <2>2. Operation(op) = << <<"look", "unreachable", {}>> >>
    BY <2>1, Zenon DEF Operation, ForgetUnreachablePeers
  <2>3. FreshJob(<<"look", "unreachable", {}>>)
    BY <1>0, JobsTyped, Zenon DEF FreshJob, IsForget
  <2> QED
    BY <2>2, <2>3, FreshOne, Zenon
<1>4. CASE op \in {"reload"} \X Lists
  <2>1. op[1] = "reload" /\ op[2] \in Lists
    BY <1>4, Zenon
  <2>2. Operation(op) = << <<"swap", op[2]>> >>
    BY <2>1, Zenon DEF Operation
  <2>3. FreshJob(<<"swap", op[2]>>)
    BY <2>1, JobsTyped, Zenon DEF FreshJob, IsForget
  <2> QED
    BY <2>2, <2>3, FreshOne, Zenon
<1> QED
  BY <1>1, <1>2, <1>3, <1>4, OperationsKnown, Zenon

\* What the beginning of an operation does to the queues.
BeginStep(p) ==
    /\ Carried(p)
    /\ \A x \in Addrs : ~Forgetting(p, x) /\ ~Forgetting(p, x)'
    /\ \A x \in Addrs : Deleting(x)' <=> Deleting(x)
    /\ ~AtStep(p, "choose")'
\* An operation that begins neither forgets nor deletes anything yet.
LEMMA BeginMove ==
  ASSUME QueuesGood, NEW p \in Procs, todo[p] = <<>>, NEW r0, Fresh(r0), todo' = [todo EXCEPT ![p] = r0]
  PROVE  BeginStep(p)
<1>1. /\ r0 \in Seq(Jobs)
      /\ \A i \in DOMAIN r0 : r0[i][1] # "choose" /\ r0[i][1] # "delete" /\ ~IsForget(r0[i])
                             /\ (r0[i][1] = "look" => i = Len(r0))
  BY Zenon DEF Fresh, FreshJob
<1>2. Shape(r0) /\ Begun(r0)
  BY <1>1, Zenon DEF Shape, Adding, Begun
<1>3. DOMAIN <<>> = {}
  OBVIOUS
<1>4. Carried(p) /\ todo'[p] = r0
  <2>1. ~AtStep(p, "record")
    BY Zenon DEF AtStep
  <2>2. PICK q0 : q0 = todo[p]
    BY Zenon
  <2>3. Retains(q0, r0)
    BY <1>3, <2>2, Zenon DEF Retains
  <2> QED
    BY <1>1, <1>2, <2>1, <2>2, <2>3, Carries, Zenon
<1>5. ASSUME NEW x \in Addrs PROVE ~Forgetting(p, x) /\ ~Forgetting(p, x)'
  BY <1>1, <1>3, <1>4, Zenon DEF Forgetting, IsForget
<1>6. r0 # <<>> => Head(r0)[1] # "choose" /\ Head(r0)[1] # "delete"
  BY <1>1, SMTT(30)
<1>7. ASSUME NEW x \in Addrs PROVE Deleting(x)' <=> Deleting(x)
  BY <1>4, <1>6, Zenon DEF Deleting, AtStep, Carried
<1> QED
  BY <1>4, <1>5, <1>6, <1>7, Zenon DEF BeginStep, AtStep

-----------------------------------------------------------------------------
(* The steps keep the invariant. *)

\* The state of the loops decides which of them go on.
LEMMA HealthyKept == UNCHANGED <<dial, loop, cancelled>> => \A x \in Addrs : Healthy(x)' <=> Healthy(x)
BY Zenon DEF Healthy

\* A peer of the list is an address.
LEMMA ListAddrs == ASSUME NEW ps \in Lists PROVE ps \in Seq(Addrs) /\ IsInjective(ps) /\ Range(ps) \subseteq Addrs
BY DEF Lists, Range
LEMMA PeersAddrs == ListInv => peers \in Seq(Addrs) /\ IsInjective(peers) /\ Range(peers) \subseteq Addrs
BY ListAddrs, Zenon DEF ListInv

\* The list stays, and so does what is said of its peers.
LEMMA DialKept == ASSUME ListInv, DialInv, CoverKept, UNCHANGED peers PROVE DialInv'
BY PeersAddrs, Zenon DEF DialInv, CoverKept

\* The operator asks for an address: it is recorded as such, or there is a reason why not.
Vouched(y) == /\ y \in Addrs
              /\ meta[y].source \in {"config", "manual"} \/ Excused(y)'
              /\ \A q \in Procs : Forgetting(q, y) => Excused(y)'

\* The list, the records and the table stay; so does what is said of them.
LEMMA PlainKept ==
  ASSUME RestInv, NEW p \in Procs, NEW js, NEW h, PlainStep(p, js, h), h[1] \notin {"record", "dial"},
         UNCHANGED <<peers, meta, dial, loop, cancelled, alone>>,
         odd \subseteq odd', \A y \in claimed' : y \in claimed \/ Vouched(y)
  PROVE  RestInv' /\ CoverKept
<1>0. h[1] # "record" /\ \A y \in claimed : y \in Addrs
  BY Zenon DEF RestInv, ListInv
<1>1. ListInv'
  <2>1. claimed' \subseteq Addrs
    BY <1>0, Zenon DEF Vouched
  <2> QED
    BY <2>1, Zenon DEF RestInv, ListInv, PlainStep, QueuesGood
<1>2. \A x \in Addrs : Healthy(x)' <=> Healthy(x)
  BY HealthyKept, Zenon
<1>c. CoverKept
  <2>1. ASSUME NEW y \in Addrs, Covered(y) PROVE Covered(y)'
    BY <1>2, <2>1, Zenon DEF PlainStep, Covered
  <2> QED
    BY <2>1, Zenon DEF CoverKept
<1>3. DialInv'
  BY <1>c, DialKept, Zenon DEF RestInv
<1>4. KnownInv'
  <2>1. \A y : Stray(y) => Stray(y)'
    BY Zenon DEF Stray
  <2> QED
    BY <1>2, <2>1, Zenon DEF RestInv, KnownInv, PlainStep
<1>5. OneInv'
  <2>1. \A q \in alone : q \in Procs
    BY Zenon DEF RestInv, ListInv
  <2>2. ASSUME NEW q \in alone, AtStep(q, "choose")' PROVE Head(todo'[q])[5] = peers'
    BY <2>1, <2>2, Zenon DEF RestInv, OneInv, PlainStep
  <2>3. ASSUME NEW q \in alone, NEW x \in Addrs, Forgetting(q, x)' PROVE \E y \in Range(peers) : ~Forgetting(q, y)'
    BY <2>1, <2>3, PeersAddrs, Zenon DEF RestInv, OneInv, PlainStep
  <2> QED
    BY <2>2, <2>3, Zenon DEF OneInv
<1>6. ClaimInv'
  <2>1. \A x : Excused(x) => Excused(x)'
    BY Zenon DEF Excused
  <2>2. ASSUME NEW x \in claimed' PROVE Excused(x)' \/ Recording(x)' \/ meta[x].source \in {"config", "manual"}
    <3>1. CASE Vouched(x)
      BY <3>1, Zenon DEF Vouched
    <3>2. CASE x \in claimed
      BY <1>0, <2>1, <3>2, Zenon DEF RestInv, ClaimInv, PlainStep
    <3> QED
      BY <3>1, <3>2, Zenon
  <2>3. ASSUME NEW q \in Procs, NEW x \in Addrs, Forgetting(q, x)'
        PROVE  meta[x].source # "config" /\ (x \in claimed' => Excused(x)')
    <3>1. Forgetting(q, x)
      BY <2>3, Zenon DEF PlainStep
    <3>2. meta[x].source # "config" /\ (x \in claimed => Excused(x)')
      BY <2>1, <3>1, Zenon DEF RestInv, ClaimInv
    <3>3. Vouched(x) => Excused(x)'
      BY <3>1, Zenon DEF Vouched
    <3> QED
      BY <3>2, <3>3, Zenon
  <2> QED
    BY <2>2, <2>3, Zenon DEF ClaimInv
<1> QED
  BY <1>1, <1>3, <1>4, <1>5, <1>6, <1>c, Zenon DEF RestInv

\* AddPeerFrom stores the copy with the address, which is to be recorded and dialled.
LEMMA AppendKeeps == ASSUME RestInv, CopyInv, NEW p \in Procs, AppendPeer(p) PROVE RestInv'
<1>0. ListInv /\ QueuesGood /\ AtStep(p, "append") /\ p \in configMu
  BY Queues, Zenon DEF RestInv, AppendPeer, StoreCopy
<1>1. PICK h : h = Head(todo[p])
  BY Zenon
<1>2. todo[p] # <<>> /\ h \in Jobs /\ h[1] = "append"
  BY <1>0, <1>1, Leading, Zenon
<1>3. PICK x, src : x = h[2] /\ src = h[3]
  BY Zenon
<1>4. x \in Addrs /\ src \in AddSources
  BY <1>2, <1>3, JobKinds, Zenon
<1>5. h[1] \in PlainKinds /\ h[1] \notin {"record", "dial"} /\ h[1] # "record"
  BY <1>2, Zenon DEF PlainKinds
<1>6. PICK js : js = << <<"record", x, src>> >>
  BY Zenon
<1>7. /\ peers' = newCfg /\ alone' = alone \ (Procs \ {p}) /\ GoesOn(p, js)
      /\ UNCHANGED <<meta, dial, loop, cancelled>>
      /\ claimed' = (IF src = "manual" THEN claimed \cup {x} ELSE claimed)
      /\ odd' = odd \cup Lost(x) \cup (IF src = "manual" THEN BeingForgotten(x) ELSE {})
  BY <1>1, <1>3, <1>6, Zenon DEF AppendPeer, StoreCopy, ListChangedBy
<1>8. /\ odd \subseteq odd' /\ Lost(x) \subseteq odd'
      /\ src = "manual" /\ (\E q \in Procs : Forgetting(q, x)) => <<x, "being forgotten">> \in odd'
  BY <1>7, Zenon DEF BeingForgotten
<1>9. js \in Seq(Jobs) /\ js # <<>> /\ DOMAIN js = {1} /\ js[1] = <<"record", x, src>>
  <2>1. PICK j : j = <<"record", x, src>>
    BY Zenon
  <2>2. j \in Jobs
    BY <1>4, <2>1, JobsTyped, Zenon
  <2>3. js = <<j>>
    BY <1>6, <2>1, Zenon
  <2> QED
    BY <2>1, <2>2, <2>3
<1>10. js[1][1] = "record" /\ js[1][2] = x /\ js[1][3] = src
  BY <1>9
<1>11. PlainStep(p, js, h)
  <2>1. \A i \in DOMAIN js : js[i][1] \in {"record", "dial"}
    BY <1>9, <1>10, Zenon
  <2> QED
    BY <1>0, <1>1, <1>2, <1>5, <1>7, <1>9, <2>1, PlainMove, Zenon
<1>12. newCfg \in Lists /\ AppendHeld(p, x)
  <2>1. ~AtStep(p, "delete")
    BY <1>0, Zenon DEF AtStep
  <2>2. newCfg \in Lists /\ (AppendHeld(p, x) \/ DeleteHeld(p, x))
    BY <1>0, <1>1, <1>3, Zenon DEF CopyInv
  <2> QED
    BY <2>1, <2>2, Zenon DEF DeleteHeld
<1>13. Range(newCfg) \subseteq Addrs /\ x \in Range(newCfg) /\ \A y \in Range(newCfg) : y = x \/ Covered(y)
  BY <1>12, ListAddrs, Zenon DEF AppendHeld
<1>14. \A y \in Addrs : Healthy(y)' <=> Healthy(y)
  BY <1>7, HealthyKept, Zenon
<1>15. ListInv'
  <2>1. alone' \subseteq Procs /\ claimed' \subseteq Addrs
    BY <1>0, <1>4, <1>7, Zenon DEF ListInv
  <2> QED
    BY <1>0, <1>7, <1>11, <1>12, <2>1, Zenon DEF ListInv, PlainStep, QueuesGood
<1>16. DialInv'
  <2>1. Pending(x)'
    BY <1>4, <1>9, <1>10, <1>11, Zenon DEF PlainStep
  <2>2. ASSUME NEW y \in Range(newCfg) PROVE Covered(y)'
    <3>1. CASE y = x
      BY <2>1, <3>1, Zenon DEF Covered
    <3>2. CASE y # x
      <4>1. y \in Addrs /\ Covered(y)
        BY <1>13, <3>2, Zenon
      <4> QED
        BY <1>5, <1>8, <1>11, <1>14, <4>1, Zenon DEF PlainStep, Covered
    <3> QED
      BY <3>1, <3>2, Zenon
  <2> QED
    BY <1>7, <2>2, Zenon DEF DialInv
<1>17. KnownInv'
  <2>1. ASSUME NEW y \in Addrs, Healthy(y)' PROVE (y \in Range(newCfg) /\ ~Deleting(y)') \/ Stray(y)'
    <3>1. Stray(y) => Stray(y)'
      BY <1>8, Zenon DEF Stray
    <3>2. y \in Range(peers) /\ y \notin Range(newCfg) => Stray(y)'
      <4>1. y \in Range(peers) /\ y \notin Range(newCfg) => <<y, "reload undone">> \in Lost(x)
        BY <1>13, Zenon DEF Lost
      <4> QED
        BY <1>8, <4>1, Zenon DEF Stray
    <3> QED
      BY <1>11, <1>14, <2>1, <3>1, <3>2, Zenon DEF PlainStep, RestInv, KnownInv
  <2> QED
    BY <1>7, <2>1, Zenon DEF KnownInv
<1>18. OneInv'
  <2>1. ASSUME NEW q \in alone' PROVE q = p
    BY <1>0, <1>7, Zenon DEF ListInv
  <2>2. ~AtStep(p, "choose")' /\ \A y \in Addrs : ~Forgetting(p, y)'
    BY <1>11, Zenon DEF PlainStep
  <2> QED
    BY <2>1, <2>2, Zenon DEF OneInv
<1>19. ClaimInv'
  <2>1. \A y : Excused(y) => Excused(y)'
    BY <1>8, Zenon DEF Excused
  <2>2. src = "manual" => Recording(x)'
    <3>1. todo'[p] # <<>> /\ Head(todo'[p]) = js[1]
      BY <1>9, <1>11, Zenon DEF PlainStep
    <3>2. AtStep(p, "record")' /\ Head(todo'[p])[2] = x /\ Head(todo'[p])[3] = src
      BY <1>10, <3>1, Zenon DEF AtStep
    <3> QED
      BY <3>2, Zenon DEF Recording
  <2>3. \A y \in Addrs : Recording(y) => Recording(y)'
    BY <1>5, <1>11, Zenon DEF PlainStep
  <2>4. ASSUME NEW y \in claimed' PROVE Excused(y)' \/ Recording(y)' \/ meta[y].source \in {"config", "manual"}
    <3>1. y \in Addrs /\ (y \in claimed \/ (y = x /\ src = "manual"))
      BY <1>0, <1>4, <1>7, Zenon DEF ListInv
    <3> QED
      BY <2>1, <2>2, <2>3, <3>1, Zenon DEF RestInv, ClaimInv
  <2>5. ASSUME NEW q \in Procs, NEW y \in Addrs, Forgetting(q, y)'
        PROVE  meta[y].source # "config" /\ (y \in claimed' => Excused(y)')
    <3>1. Forgetting(q, y)
      BY <1>11, <2>5, Zenon DEF PlainStep
    <3>2. meta[y].source # "config" /\ (y \in claimed => Excused(y)')
      BY <2>1, <3>1, Zenon DEF RestInv, ClaimInv
    <3>3. CASE y = x /\ src = "manual"
      BY <1>8, <3>1, <3>2, <3>3, Zenon DEF Excused
    <3>4. CASE ~(y = x /\ src = "manual")
      BY <1>7, <3>2, <3>4, Zenon
    <3> QED
      BY <3>3, <3>4, Zenon
  <2> QED
    BY <1>7, <2>4, <2>5, Zenon DEF ClaimInv
<1> QED
  BY <1>15, <1>16, <1>17, <1>18, <1>19, Zenon DEF RestInv

\* A link that is accepted changes nothing here.
LEMMA AcceptKeeps == ASSUME RestInv, NEW p \in Procs, Accept(p) PROVE RestInv' /\ CoverKept
<1>0. /\ ListInv /\ QueuesGood /\ AtStep(p, "accept") /\ Done(p)
      /\ UNCHANGED <<peers, meta, dial, loop, cancelled, claimed, alone, odd>>
  BY Queues, Zenon DEF RestInv, Accept
<1>1. PICK h : h = Head(todo[p])
  BY Zenon
<1>2. todo[p] # <<>> /\ h[1] = "accept" /\ h[1] \in PlainKinds /\ h[1] \notin {"record", "dial"}
  BY <1>0, <1>1, Leading DEF PlainKinds
<1>3. PICK js : js = <<>>
  BY Zenon
<1>4. js \in Seq(Jobs) /\ (\A i \in DOMAIN js : js[i][1] \in {"record", "dial"}) /\ GoesOn(p, js)
  BY <1>0, <1>2, <1>3, DoneGoesOn, SMTT(30)
<1>5. PlainStep(p, js, h)
  BY <1>0, <1>1, <1>2, <1>4, PlainMove, Zenon
<1>6. odd \subseteq odd' /\ \A y \in claimed' : y \in claimed \/ Vouched(y)
  BY <1>0, Zenon
<1> QED
  BY <1>0, <1>2, <1>5, <1>6, PlainKept, Zenon

\* A queue of one job.
LEMMA OneJob == ASSUME NEW j \in Jobs PROVE <<j>> \in Seq(Jobs) /\ <<j>> # <<>> /\ DOMAIN <<j>> = {1} /\ <<j>>[1] = j
OBVIOUS

\* The stronger source stays.
LEMMA RecordedMeta ==
  ASSUME NEW m \in Metas, NEW src \in AddSources
  PROVE  /\ recordPeerMeta(m, src) \in Metas
         /\ src = "manual" => recordPeerMeta(m, src).source = "manual"
         /\ m.source \in {"config", "manual"} => recordPeerMeta(m, src).source \in {"config", "manual"}
         /\ m.source # "config" => recordPeerMeta(m, src).source # "config"
<1>1. src \in Sources /\ src # "config"
  BY Zenon DEF Sources, AddSources
<1>2. CASE m.source = "none"
  BY <1>1, <1>2, Zenon DEF recordPeerMeta, Metas
<1>3. CASE m.source # "none" /\ forgettable(src)
  BY <1>3, Zenon DEF recordPeerMeta, forgettable
<1>4. CASE m.source # "none" /\ ~forgettable(src)
  <2>1. recordPeerMeta(m, src) = [m EXCEPT !.source = src]
    BY <1>4, Zenon DEF recordPeerMeta
  <2>2. src = "manual"
    BY <1>4, Zenon DEF forgettable, AddSources
  <2> QED
    BY <1>1, <2>1, <2>2, Zenon DEF Metas
<1> QED
  BY <1>2, <1>3, <1>4, Zenon

\* AddPeerFrom records where the address comes from.
LEMMA RecordKeeps == ASSUME RestInv, NEW p \in Procs, Record(p) PROVE RestInv' /\ CoverKept
<1>0. ListInv /\ QueuesGood /\ AtStep(p, "record")
  BY Queues, Zenon DEF RestInv, Record
<1>1. PICK h : h = Head(todo[p])
  BY Zenon
<1>2. todo[p] # <<>> /\ h \in Jobs /\ h[1] = "record"
  BY <1>0, <1>1, Leading, Zenon
<1>3. PICK x, src : x = h[2] /\ src = h[3]
  BY Zenon
<1>4. x \in Addrs /\ src \in AddSources
  BY <1>2, <1>3, JobKinds, Zenon
<1>5. PICK j : j = <<"dial", x>>
  BY Zenon
<1>6. j \in Jobs /\ j[1] = "dial" /\ j[2] = x
  BY <1>4, <1>5, JobsTyped, Zenon
<1>7. PICK js : js = <<j>>
  BY Zenon
<1>8. js \in Seq(Jobs) /\ DOMAIN js = {1} /\ js[1] = j
  BY <1>6, <1>7, OneJob, Zenon
<1>9. /\ meta' = [meta EXCEPT ![x] = recordPeerMeta(meta[x], src)] /\ GoesOn(p, js)
      /\ UNCHANGED <<peers, dial, loop, cancelled, claimed, alone, odd>>
  BY <1>1, <1>3, <1>5, <1>7, Zenon DEF Record, history
<1>10. PlainStep(p, js, h)
  <2>1. \A i \in DOMAIN js : js[i][1] \in {"record", "dial"}
    BY <1>6, <1>8, Zenon
  <2>2. h[1] \in PlainKinds
    BY <1>2, Zenon DEF PlainKinds
  <2> QED
    BY <1>0, <1>1, <1>2, <1>8, <1>9, <2>1, <2>2, PlainMove, Zenon
<1>11. PICK m : m = recordPeerMeta(meta[x], src)
  BY Zenon
<1>12. /\ m \in Metas /\ (src = "manual" => m.source = "manual")
       /\ (meta[x].source \in {"config", "manual"} => m.source \in {"config", "manual"})
       /\ (meta[x].source # "config" => m.source # "config")
  <2>1. PICK m0 : m0 = meta[x]
    BY Zenon
  <2>2. m0 \in Metas
    BY <1>0, <1>4, <2>1, Zenon DEF ListInv
  <2> QED
    BY <1>4, <1>11, <2>1, <2>2, RecordedMeta, Zenon
<1>13. /\ meta' \in [Addrs -> Metas] /\ meta'[x] = m
       /\ \A y \in Addrs : y # x => meta'[y] = meta[y]
  BY <1>0, <1>4, <1>9, <1>11, <1>12, Zenon DEF ListInv
<1>14. \A y \in Addrs : Healthy(y)' <=> Healthy(y)
  BY <1>9, HealthyKept, Zenon
<1>15. ListInv'
  BY <1>0, <1>9, <1>10, <1>13, Zenon DEF ListInv, PlainStep, QueuesGood
<1>c. CoverKept
  <2>1. Pending(x)'
    BY <1>4, <1>6, <1>8, <1>10, Zenon DEF PlainStep
  <2>2. ASSUME NEW y \in Addrs, Covered(y) PROVE Covered(y)'
    BY <1>3, <1>9, <1>10, <1>14, <2>1, <2>2, Zenon DEF PlainStep, Covered
  <2> QED
    BY <2>2, Zenon DEF CoverKept
<1>16. DialInv'
  BY <1>0, <1>9, <1>c, DialKept, Zenon DEF RestInv
<1>17. KnownInv'
  BY <1>9, <1>10, <1>14, Zenon DEF PlainStep, RestInv, KnownInv, Stray
<1>18. OneInv'
  <2>1. \A q \in alone : q \in Procs
    BY <1>0, Zenon DEF ListInv
  <2>2. ASSUME NEW q \in alone, AtStep(q, "choose")' PROVE Head(todo'[q])[5] = peers'
    BY <1>9, <1>10, <2>1, <2>2, Zenon DEF RestInv, OneInv, PlainStep
  <2>3. ASSUME NEW q \in alone, NEW y \in Addrs, Forgetting(q, y)' PROVE \E z \in Range(peers) : ~Forgetting(q, z)'
    BY <1>0, <1>10, <2>1, <2>3, PeersAddrs, Zenon DEF RestInv, OneInv, PlainStep
  <2> QED
    BY <1>9, <2>2, <2>3, Zenon DEF OneInv
<1>19. ClaimInv'
  <2>1. \A y : Excused(y)' <=> Excused(y)
    BY <1>9, Zenon DEF Excused
  <2>2. ASSUME NEW y \in claimed PROVE Excused(y)' \/ Recording(y)' \/ meta'[y].source \in {"config", "manual"}
    <3>1. y \in Addrs
      BY <1>0, Zenon DEF ListInv
    <3>2. Excused(y)' \/ Recording(y)' \/ (y = x /\ src = "manual") \/ meta[y].source \in {"config", "manual"}
      BY <1>3, <1>10, <2>1, <3>1, Zenon DEF PlainStep, RestInv, ClaimInv
    <3>3. CASE y = x
      BY <1>12, <1>13, <3>2, <3>3, Zenon
    <3>4. CASE y # x
      BY <1>13, <3>1, <3>2, <3>4, Zenon
    <3> QED
      BY <3>3, <3>4, Zenon
  <2>3. ASSUME NEW q \in Procs, NEW y \in Addrs, Forgetting(q, y)'
        PROVE  meta'[y].source # "config" /\ (y \in claimed => Excused(y)')
    <3>1. meta[y].source # "config" /\ (y \in claimed => Excused(y)')
      BY <1>10, <2>1, <2>3, Zenon DEF PlainStep, RestInv, ClaimInv
    <3>2. meta'[y].source # "config"
      BY <1>12, <1>13, <3>1, Zenon
    <3> QED
      BY <3>1, <3>2, Zenon
  <2> QED
    BY <1>9, <2>2, <2>3, Zenon DEF ClaimInv
<1> QED
  BY <1>15, <1>16, <1>17, <1>18, <1>19, <1>c, Zenon DEF RestInv

\* ensureDial sees to the loop of the address.
LEMMA DialKeeps == ASSUME TableInv, RestInv, NEW p \in Procs, ensureDial(p) PROVE RestInv' /\ CoverKept
<1>0. ListInv /\ QueuesGood /\ AtStep(p, "dial")
  BY Queues, Zenon DEF RestInv, ensureDial
<1>1. PICK h : h = Head(todo[p])
  BY Zenon
<1>2. todo[p] # <<>> /\ h \in Jobs /\ h[1] = "dial" /\ h[1] \in PlainKinds /\ h[1] # "record"
  BY <1>0, <1>1, Leading DEF PlainKinds
<1>3. PICK x : x = h[2]
  BY Zenon
<1>4. x \in Addrs
  BY <1>2, <1>3, JobKinds, Zenon
<1>5. Done(p) /\ UNCHANGED <<peers, meta, cancelled, claimed, alone>>
  BY Zenon DEF ensureDial
<1>6. PICK js : js = <<>>
  BY Zenon
<1>7. js \in Seq(Jobs) /\ (\A i \in DOMAIN js : js[i][1] \in {"record", "dial"}) /\ GoesOn(p, js)
  BY <1>0, <1>2, <1>5, <1>6, DoneGoesOn, SMTT(30)
<1>8. PlainStep(p, js, h)
  BY <1>0, <1>1, <1>2, <1>7, PlainMove, Zenon
<1>9. \A y \in Addrs : Pending(y) => Pending(y)' \/ y = x
  BY <1>3, <1>8, Zenon DEF PlainStep
<1>10. ListInv'
  BY <1>0, <1>5, <1>8, Zenon DEF ListInv, PlainStep, QueuesGood
<1>11. Range(peers) \subseteq Addrs
  BY <1>0, PeersAddrs, Zenon
<1>12. \A y, why : <<y, why>> \in odd /\ why # "winding down" => <<y, why>> \in odd'
  <2>1. CASE dial[x]
    BY <1>1, <1>3, <2>1, Zenon DEF ensureDial
  <2>2. CASE ~dial[x]
    <3>1. {o \in odd : o # <<x, "winding down">>} \subseteq odd'
      BY <1>1, <1>3, <2>2, Zenon DEF ensureDial
    <3> QED
      BY <3>1, Zenon
  <2> QED
    BY <2>1, <2>2, Zenon
<1>13. CoverKept /\ KnownInv'
  <2>1. CASE dial[x]
    <3>1. /\ UNCHANGED <<dial, loop>> /\ odd \subseteq odd'
          /\ x \in cancelled \/ loop[x] = "ending" => <<x, "winding down">> \in odd'
      BY <1>1, <1>3, <2>1, Zenon DEF ensureDial
    <3>2. \A y \in Addrs : Healthy(y)' <=> Healthy(y)
      BY <1>5, <3>1, HealthyKept, Zenon
    <3>3. Healthy(x)' \/ <<x, "winding down">> \in odd'
      BY <1>4, <2>1, <3>1, <3>2, Zenon DEF Healthy
    <3>4. ASSUME NEW y \in Addrs, Covered(y) PROVE Covered(y)'
      BY <1>8, <1>9, <3>1, <3>2, <3>3, <3>4, Zenon DEF PlainStep, Covered
    <3>5. CoverKept
      BY <3>4, Zenon DEF CoverKept
    <3>6. KnownInv'
      BY <1>5, <1>8, <3>1, <3>2, Zenon DEF PlainStep, RestInv, KnownInv, Stray
    <3> QED
      BY <3>5, <3>6, Zenon
  <2>2. CASE ~dial[x]
    <3>1. /\ dial' = [dial EXCEPT ![x] = TRUE] /\ loop' = [loop EXCEPT ![x] = "dialing"]
          /\ {o \in odd : o # <<x, "winding down">>} \subseteq odd'
          /\ (x \in Range(peers) /\ ~Deleting(x)) \/ <<x, "removed meanwhile">> \in odd'
      BY <1>1, <1>3, <2>2, Zenon DEF ensureDial
    <3>2. x \notin cancelled /\ dial'[x] /\ loop'[x] = "dialing"
      BY <1>4, <2>2, <3>1, Zenon DEF TableInv, Tables, TableTracksLoops
    <3>3. Healthy(x)'
      BY <1>5, <3>2, Zenon DEF Healthy
    <3>4. \A y \in Addrs : y # x => (Healthy(y)' <=> Healthy(y))
      BY <1>5, <3>1, Zenon DEF TableInv, Tables, Healthy
    <3>5. ASSUME NEW y \in Addrs, Covered(y) PROVE Covered(y)'
      <4>1. CASE y = x
        BY <3>3, <4>1, Zenon DEF Covered
      <4>2. CASE y # x
        <5>1. <<y, "winding down">> \in odd => <<y, "winding down">> \in odd'
          BY <3>1, <4>2, Zenon
        <5> QED
          BY <1>8, <1>9, <3>4, <3>5, <4>2, <5>1, Zenon DEF PlainStep, Covered
      <4> QED
        BY <4>1, <4>2, Zenon
    <3>6. CoverKept
      BY <3>5, Zenon DEF CoverKept
    <3>7. ASSUME NEW y \in Addrs, Healthy(y)'
          PROVE  (y \in Range(peers) /\ ~Deleting(y)') \/ Stray(y)'
      <4>1. CASE y = x
        BY <1>8, <3>1, <3>7, <4>1, Zenon DEF PlainStep, Stray
      <4>2. CASE y # x
        <5>1. Stray(y) => Stray(y)'
          BY <1>12, Zenon DEF Stray
        <5> QED
          BY <1>8, <3>4, <3>7, <4>2, <5>1, Zenon DEF PlainStep, RestInv, KnownInv
      <4> QED
        BY <4>1, <4>2, Zenon
    <3>8. KnownInv'
      BY <1>5, <3>7, Zenon DEF KnownInv
    <3> QED
      BY <3>6, <3>8, Zenon
  <2> QED
    BY <2>1, <2>2, Zenon
<1>d. DialInv'
  BY <1>0, <1>5, <1>13, DialKept, Zenon DEF RestInv
<1>14. OneInv'
  <2>1. \A q \in alone : q \in Procs
    BY <1>0, Zenon DEF ListInv
  <2>2. ASSUME NEW q \in alone, AtStep(q, "choose")' PROVE Head(todo'[q])[5] = peers'
    BY <1>5, <1>8, <2>1, <2>2, Zenon DEF RestInv, OneInv, PlainStep
  <2>3. ASSUME NEW q \in alone, NEW y \in Addrs, Forgetting(q, y)' PROVE \E z \in Range(peers) : ~Forgetting(q, z)'
    BY <1>8, <1>11, <2>1, <2>3, Zenon DEF RestInv, OneInv, PlainStep
  <2> QED
    BY <1>5, <2>2, <2>3, Zenon DEF OneInv
<1>15. ClaimInv'
  <2>1. \A y : Excused(y) => Excused(y)'
    BY <1>12, Zenon DEF Excused
  <2>2. ASSUME NEW y \in claimed PROVE Excused(y)' \/ Recording(y)' \/ meta[y].source \in {"config", "manual"}
    <3>1. y \in Addrs
      BY <1>0, Zenon DEF ListInv
    <3> QED
      BY <1>2, <1>8, <2>1, <3>1, Zenon DEF PlainStep, RestInv, ClaimInv
  <2>3. ASSUME NEW q \in Procs, NEW y \in Addrs, Forgetting(q, y)'
        PROVE  meta[y].source # "config" /\ (y \in claimed => Excused(y)')
    BY <1>8, <2>1, <2>3, Zenon DEF PlainStep, RestInv, ClaimInv
  <2> QED
    BY <1>5, <2>2, <2>3, Zenon DEF ClaimInv
<1> QED
  BY <1>10, <1>13, <1>d, <1>14, <1>15, Zenon DEF RestInv

\* A step of p that leaves the list alone and forgets as much as before.
LEMMA OneKept ==
  ASSUME ListInv, OneInv, NEW p \in Procs, Carried(p), UNCHANGED <<peers, alone>>, ~AtStep(p, "choose")',
         \A x \in Addrs : Forgetting(p, x)' <=> Forgetting(p, x)
  PROVE  OneInv'
<1>1. \A q \in alone : q \in Procs
  BY Zenon DEF ListInv
<1>2. \A q \in Procs, x \in Addrs : Forgetting(q, x)' <=> Forgetting(q, x)
  BY Zenon DEF Carried
<1>3. ASSUME NEW q \in alone, AtStep(q, "choose")' PROVE Head(todo'[q])[5] = peers'
  <2>1. q \in Procs /\ q # p /\ todo'[q] = todo[q]
    BY <1>1, <1>3, Zenon DEF Carried
  <2>2. AtStep(q, "choose")
    BY <1>3, <2>1, Zenon DEF AtStep
  <2> QED
    BY <2>1, <2>2, Zenon DEF OneInv
<1>4. ASSUME NEW q \in alone, NEW y \in Addrs, Forgetting(q, y)' PROVE \E z \in Range(peers) : ~Forgetting(q, z)'
  BY <1>1, <1>2, <1>4, PeersAddrs, Zenon DEF OneInv
<1> QED
  BY <1>3, <1>4, Zenon DEF OneInv

\* RemovePeer cancels the loop first.
LEMMA CancelKeeps == ASSUME TableInv, RestInv, NEW p \in Procs, CancelDial(p) PROVE RestInv' /\ CoverKept
<1>0. ListInv /\ QueuesGood /\ AtStep(p, "cancel")
  BY Queues, Zenon DEF RestInv, CancelDial
<1>1. PICK h : h = Head(todo[p])
  BY Zenon
<1>2. PICK x : x = h[2]
  BY Zenon
<1>3. /\ cancelled' = (IF dial[x] THEN cancelled \cup {x} ELSE cancelled)
      /\ GoesOn(p, << <<"delete", h[2], h[3]>> >>)
      /\ UNCHANGED <<peers, meta, dial, loop, claimed, alone, odd>>
  BY <1>1, <1>2, Zenon DEF CancelDial, history
<1>4. CancelStep(p, h)
  BY <1>0, <1>1, <1>3, CancelMove, Zenon
<1>5. Carried(p) /\ x \in Addrs /\ ~AtStep(p, "choose")'
  BY <1>2, <1>4, Zenon DEF CancelStep
<1>6. \A y \in Addrs : y # x => (Healthy(y)' <=> Healthy(y)) /\ (Deleting(y)' <=> Deleting(y))
  BY <1>2, <1>3, <1>4, Zenon DEF CancelStep, Healthy
<1>7. ~Healthy(x)' /\ Deleting(x)'
  BY <1>2, <1>3, <1>4, <1>5, Zenon DEF CancelStep, Healthy
<1>8. ListInv'
  BY <1>0, <1>3, <1>5, Zenon DEF ListInv, Carried, QueuesGood
<1>c. CoverKept
  <2>1. ASSUME NEW y \in Addrs, Covered(y) PROVE Covered(y)'
    BY <1>3, <1>5, <1>6, <1>7, <2>1, Zenon DEF Carried, Covered
  <2> QED
    BY <2>1, Zenon DEF CoverKept
<1>9. DialInv'
  BY <1>0, <1>3, <1>c, DialKept, Zenon DEF RestInv
<1>10. KnownInv'
  BY <1>3, <1>6, <1>7, Zenon DEF RestInv, KnownInv, Stray
<1>11. OneInv'
  BY <1>0, <1>3, <1>4, <1>5, OneKept, Zenon DEF RestInv, CancelStep
<1>12. ClaimInv'
  <2>1. \A y : Excused(y)' <=> Excused(y)
    BY <1>3, Zenon DEF Excused
  <2>2. ASSUME NEW y \in claimed PROVE Excused(y)' \/ Recording(y)' \/ meta[y].source \in {"config", "manual"}
    <3>1. y \in Addrs
      BY <1>0, Zenon DEF ListInv
    <3> QED
      BY <1>5, <2>1, <3>1, Zenon DEF Carried, RestInv, ClaimInv
  <2>3. ASSUME NEW q \in Procs, NEW y \in Addrs, Forgetting(q, y)'
        PROVE  meta[y].source # "config" /\ (y \in claimed => Excused(y)')
    BY <1>4, <2>1, <2>3, Zenon DEF CancelStep, RestInv, ClaimInv
  <2> QED
    BY <1>3, <2>2, <2>3, Zenon DEF ClaimInv
<1> QED
  BY <1>8, <1>9, <1>10, <1>11, <1>12, <1>c, Zenon DEF RestInv

\* RemovePeer stores the copy without the address.
LEMMA DeleteKeeps == ASSUME RestInv, CopyInv, NEW p \in Procs, DeletePeer(p) PROVE RestInv'
<1>0. ListInv /\ QueuesGood /\ AtStep(p, "delete") /\ todo[p] # <<>> /\ p \in configMu
  BY Queues, Zenon DEF RestInv, DeletePeer, AtStep, StoreCopy
<1>1. PICK h : h = Head(todo[p])
  BY Zenon
<1>2. PICK x : x = h[2]
  BY Zenon
<1>3. /\ peers' = newCfg /\ claimed' \subseteq claimed /\ Done(p)
      /\ IF newCfg # peers THEN alone' = alone \ (Procs \ {p}) ELSE alone' = alone
      /\ odd \subseteq odd' /\ Lost(x) \subseteq odd'
      /\ UNCHANGED <<meta, dial, loop, cancelled>>
  <2>1. claimed' \subseteq claimed
    BY Zenon DEF DeletePeer
  <2>2. odd' = odd \cup Lost(x)
    BY <1>1, <1>2, Zenon DEF DeletePeer
  <2> QED
    BY <2>1, <2>2, Zenon DEF DeletePeer, StoreCopy, ListChangedBy
<1>4. DeleteStep(p, h)
  BY <1>0, <1>1, <1>3, DoneGoesOn, DeleteMove, Zenon
<1>5. Carried(p) /\ x \in Addrs /\ ~AtStep(p, "choose")' /\ Deleting(x)
  BY <1>2, <1>4, Zenon DEF DeleteStep
<1>6. newCfg \in Lists /\ DeleteHeld(p, x)
  <2>1. ~AtStep(p, "append")
    BY <1>0, Zenon DEF AtStep
  <2>2. newCfg \in Lists /\ (AppendHeld(p, x) \/ DeleteHeld(p, x))
    BY <1>0, <1>1, <1>2, Zenon DEF CopyInv
  <2> QED
    BY <2>1, <2>2, Zenon DEF AppendHeld
<1>h. /\ Range(newCfg) \subseteq Addrs /\ x \notin Range(newCfg) /\ \A y \in Range(newCfg) : Covered(y)
      /\ p \in alone => newCfg = Others(peers, x)
  BY <1>6, ListAddrs, Zenon DEF DeleteHeld
<1>7. \A y \in Addrs : Healthy(y)' <=> Healthy(y)
  BY <1>3, HealthyKept, Zenon
<1>8. ListInv'
  <2>1. alone' \subseteq Procs /\ claimed' \subseteq Addrs
    BY <1>0, <1>3, Zenon DEF ListInv
  <2> QED
    BY <1>0, <1>3, <1>5, <1>6, <2>1, Zenon DEF ListInv, Carried, QueuesGood
<1>r. Range(peers) \subseteq Addrs
  BY <1>0, PeersAddrs, Zenon
<1>9. DialInv'
  <2>1. ASSUME NEW y \in Range(newCfg) PROVE Covered(y)'
    <3>1. y \in Addrs /\ y # h[2] /\ Covered(y)
      BY <1>2, <1>h, Zenon
    <3> QED
      BY <1>3, <1>4, <1>5, <1>7, <3>1, Zenon DEF Carried, DeleteStep, Covered
  <2> QED
    BY <1>3, <2>1, Zenon DEF DialInv
<1>10. KnownInv'
  <2>1. ASSUME NEW y \in Addrs, Healthy(y)' PROVE (y \in Range(newCfg) /\ ~Deleting(y)') \/ Stray(y)'
    <3>1. Stray(y) => Stray(y)'
      BY <1>3, Zenon DEF Stray
    <3>2. y \in Range(peers) /\ y \notin Range(newCfg) /\ y # x => Stray(y)'
      <4>1. y \in Range(peers) /\ y \notin Range(newCfg) /\ y # x => <<y, "reload undone">> \in Lost(x)
        BY Zenon DEF Lost
      <4> QED
        BY <1>3, <4>1, Zenon DEF Stray
    <3>3. (y \in Range(peers) /\ ~Deleting(y)) \/ Stray(y)
      BY <1>7, <2>1, Zenon DEF RestInv, KnownInv
    <3>4. ~Deleting(y) => ~Deleting(y)' /\ y # x
      BY <1>4, <1>5, Zenon DEF DeleteStep
    <3> QED
      BY <3>1, <3>2, <3>3, <3>4, Zenon
  <2> QED
    BY <1>3, <2>1, Zenon DEF KnownInv
<1>11. OneInv'
  <2>1. \A q \in alone' : q \in Procs /\ q \in alone /\ (q = p \/ peers' = peers)
    BY <1>0, <1>3, Zenon DEF ListInv
  <2>2. ASSUME NEW q \in alone', AtStep(q, "choose")' PROVE Head(todo'[q])[5] = peers'
    <3>1. q \in Procs /\ q \in alone /\ q # p /\ todo'[q] = todo[q] /\ peers' = peers
      BY <1>5, <2>1, <2>2, Zenon DEF Carried
    <3>2. AtStep(q, "choose")
      BY <2>2, <3>1, Zenon DEF AtStep
    <3> QED
      BY <3>1, <3>2, Zenon DEF RestInv, OneInv
  <2>3. ASSUME NEW q \in alone', NEW y \in Addrs, Forgetting(q, y)' PROVE \E z \in Range(peers') : ~Forgetting(q, z)'
    <3>1. q \in Procs /\ q \in alone /\ Forgetting(q, y)
      BY <1>4, <2>1, <2>3, Zenon DEF DeleteStep
    <3>2. PICK z \in Range(peers) : ~Forgetting(q, z)
      BY <3>1, Zenon DEF RestInv, OneInv
    <3>3. z \in Addrs /\ ~Forgetting(q, z)'
      BY <1>4, <1>r, <3>1, <3>2, Zenon DEF DeleteStep
    <3>4. CASE peers' = peers
      BY <3>2, <3>3, <3>4, Zenon
    <3>5. CASE q = p
      <4>1. Forgetting(p, x)
        BY <1>2, <1>4, <3>1, <3>5, Zenon DEF DeleteStep
      <4>2. z # x
        BY <3>2, <3>5, <4>1, Zenon
      <4>3. PICK ps : ps = peers
        BY Zenon
      <4>4. Range(Others(ps, x)) = Range(ps) \ {x}
        BY <1>0, <4>3, PeersAddrs, OthersRest, Zenon
      <4>5. peers' = Others(ps, x)
        BY <1>3, <1>h, <3>1, <3>5, <4>3, Zenon
      <4> QED
        BY <3>2, <3>3, <4>2, <4>3, <4>4, <4>5, Zenon
    <3> QED
      BY <2>1, <3>4, <3>5, Zenon
  <2> QED
    BY <2>2, <2>3, Zenon DEF OneInv
<1>12. ClaimInv'
  <2>1. \A y : Excused(y) => Excused(y)'
    BY <1>3, Zenon DEF Excused
  <2>2. ASSUME NEW y \in claimed' PROVE Excused(y)' \/ Recording(y)' \/ meta[y].source \in {"config", "manual"}
    <3>1. y \in Addrs /\ y \in claimed
      BY <1>0, <1>3, Zenon DEF ListInv
    <3> QED
      BY <1>5, <2>1, <3>1, Zenon DEF Carried, RestInv, ClaimInv
  <2>3. ASSUME NEW q \in Procs, NEW y \in Addrs, Forgetting(q, y)'
        PROVE  meta[y].source # "config" /\ (y \in claimed' => Excused(y)')
    BY <1>3, <1>4, <2>1, <2>3, Zenon DEF DeleteStep, RestInv, ClaimInv
  <2> QED
    BY <1>3, <2>2, <2>3, Zenon DEF ClaimInv
<1> QED
  BY <1>8, <1>9, <1>10, <1>11, <1>12, Zenon DEF RestInv

\* A reload puts the list of the file in the place of the list, and dials all of it.
LEMMA SwapKeeps == ASSUME RestInv, NEW p \in Procs, SwapConfig(p) PROVE RestInv' /\ CoverKept
<1>0. ListInv /\ QueuesGood /\ AtStep(p, "swap")
  BY Queues, Zenon DEF RestInv, SwapConfig
<1>1. PICK h : h = Head(todo[p])
  BY Zenon
<1>2. /\ todo[p] # <<>> /\ h \in Jobs /\ h[1] = "swap" /\ h[1] \in PlainKinds
      /\ h[1] # "record" /\ h[1] \notin {"record", "dial"}
  BY <1>0, <1>1, Leading DEF PlainKinds
<1>3. PICK ps : ps = h[2]
  BY Zenon
<1>4. ps \in Lists /\ ps \in Seq(Addrs) /\ Range(ps) \subseteq Addrs
  <2>1. ps \in Lists
    BY <1>2, <1>3, JobKinds, Zenon
  <2>2. ps \in Seq(Addrs)
    BY <2>1, Zenon DEF Lists
  <2> QED
    BY <2>1, <2>2 DEF Range
<1>5. PICK js : js = SyncPeersFromConfig(ps)
  BY Zenon
<1>6. /\ peers' = ps /\ claimed' = claimed \cup Range(ps) /\ alone' = alone \ (Procs \ {p})
      /\ odd' = odd \cup {<<x, "dropped by reload">> : x \in Range(peers) \ Range(ps)}
                    \cup {<<x, "reloaded">> : x \in {y \in Range(ps) : meta[y].source # "config"}}
      /\ GoesOn(p, js)
      /\ UNCHANGED <<meta, dial, loop, cancelled>>
  BY <1>1, <1>3, <1>5, Zenon DEF SwapConfig, ListChangedBy
<1>7. /\ odd \subseteq odd'
      /\ \A x \in Range(peers) : x \notin Range(ps) => <<x, "dropped by reload">> \in odd'
      /\ \A x \in Range(ps) : meta[x].source # "config" => <<x, "reloaded">> \in odd'
  BY <1>6, Zenon
<1>8. DOMAIN js = 1 .. Len(ps) /\ Len(ps) \in Nat /\ DOMAIN ps = 1 .. Len(ps)
      /\ \A i \in 1 .. Len(ps) : js[i] = <<"dial", ps[i]>> /\ ps[i] \in Addrs
  BY <1>4, <1>5 DEF SyncPeersFromConfig
<1>9. ASSUME NEW i \in DOMAIN js PROVE js[i][1] = "dial" /\ js[i][2] = ps[i] /\ js[i] \in Jobs
  <2>1. js[i] = <<"dial", ps[i]>> /\ ps[i] \in Addrs
    BY <1>8, Zenon
  <2>2. <<"dial", ps[i]>> \in Jobs
    BY <2>1, JobsTyped, Zenon
  <2> QED
    BY <2>1, <2>2
<1>10. js \in Seq(Jobs)
  <2>1. js = [i \in 1 .. Len(ps) |-> js[i]]
    BY <1>5, <1>8, Zenon DEF SyncPeersFromConfig
  <2> QED
    BY <1>8, <1>9, <2>1
<1>11. PlainStep(p, js, h)
  <2>1. \A i \in DOMAIN js : js[i][1] \in {"record", "dial"}
    BY <1>9, Zenon
  <2> QED
    BY <1>0, <1>1, <1>2, <1>6, <1>10, <2>1, PlainMove, Zenon
<1>12. \A x \in Addrs : Healthy(x)' <=> Healthy(x)
  BY <1>6, HealthyKept, Zenon
<1>13. ListInv'
  <2>1. alone' \subseteq Procs /\ claimed' \subseteq Addrs
    BY <1>0, <1>4, <1>6, Zenon DEF ListInv
  <2> QED
    BY <1>0, <1>4, <1>6, <1>11, <2>1, Zenon DEF ListInv, PlainStep, QueuesGood
<1>14. DialInv'
  <2>1. ASSUME NEW x \in Range(ps) PROVE Pending(x)'
    <3>1. PICK i \in DOMAIN ps : ps[i] = x
      BY Zenon DEF Range
    <3>2. i \in DOMAIN js /\ js[i][2] = x
      BY <1>8, <1>9, <3>1, Zenon
    <3>3. x \in Addrs
      BY <1>4, Zenon
    <3> QED
      BY <1>11, <3>2, <3>3, Zenon DEF PlainStep
  <2> QED
    BY <1>6, <2>1, Zenon DEF DialInv, Covered
<1>c. CoverKept
  <2>1. ASSUME NEW y \in Addrs, Covered(y) PROVE Covered(y)'
    BY <1>2, <1>7, <1>11, <1>12, <2>1, Zenon DEF PlainStep, Covered
  <2> QED
    BY <2>1, Zenon DEF CoverKept
<1>15. KnownInv'
  <2>1. ASSUME NEW x \in Addrs, Healthy(x)' PROVE (x \in Range(ps) /\ ~Deleting(x)') \/ Stray(x)'
    <3>1. Stray(x) => Stray(x)'
      BY <1>7, Zenon DEF Stray
    <3>2. x \in Range(peers) /\ x \notin Range(ps) => Stray(x)'
      BY <1>7, Zenon DEF Stray
    <3> QED
      BY <1>11, <1>12, <2>1, <3>1, <3>2, Zenon DEF PlainStep, RestInv, KnownInv
  <2> QED
    BY <1>6, <2>1, Zenon DEF KnownInv
<1>16. OneInv'
  <2>1. ASSUME NEW q \in alone' PROVE q = p
    BY <1>0, <1>6, Zenon DEF ListInv
  <2>2. ~AtStep(p, "choose")' /\ \A y \in Addrs : ~Forgetting(p, y)'
    BY <1>11, Zenon DEF PlainStep
  <2> QED
    BY <2>1, <2>2, Zenon DEF OneInv
<1>17. ClaimInv'
  <2>1. \A y : Excused(y) => Excused(y)'
    BY <1>7, Zenon DEF Excused
  <2>e. \A y \in Range(ps) : meta[y].source # "config" => Excused(y)'
    BY <1>7, Zenon DEF Excused
  <2>2. ASSUME NEW y \in claimed' PROVE Excused(y)' \/ Recording(y)' \/ meta[y].source \in {"config", "manual"}
    <3>1. CASE y \in Range(ps)
      BY <2>e, <3>1, Zenon
    <3>2. CASE y \in claimed
      <4>1. y \in Addrs
        BY <1>0, <3>2, Zenon DEF ListInv
      <4> QED
        BY <1>2, <1>11, <2>1, <3>2, <4>1, Zenon DEF PlainStep, RestInv, ClaimInv
    <3> QED
      BY <1>6, <3>1, <3>2, Zenon
  <2>3. ASSUME NEW q \in Procs, NEW y \in Addrs, Forgetting(q, y)'
        PROVE  meta[y].source # "config" /\ (y \in claimed' => Excused(y)')
    <3>1. meta[y].source # "config" /\ (y \in claimed => Excused(y)')
      BY <1>11, <2>1, <2>3, Zenon DEF PlainStep, RestInv, ClaimInv
    <3> QED
      BY <1>6, <2>e, <3>1, Zenon
  <2> QED
    BY <1>6, <2>2, <2>3, Zenon DEF ClaimInv
<1> QED
  BY <1>13, <1>14, <1>15, <1>16, <1>17, <1>c, Zenon DEF RestInv

\* A pass reads the links and the list.
LEMMA LookKeeps == ASSUME RestInv, AcceptInv, NEW p \in Procs, Look(p) PROVE RestInv' /\ CoverKept
<1>0. ListInv /\ QueuesGood /\ AtStep(p, "look")
  BY Queues, Zenon DEF RestInv, Look
<1>1. PICK h : h = Head(todo[p])
  BY Zenon
<1>2. todo[p] # <<>> /\ h \in Jobs /\ h[1] = "look"
  BY <1>0, <1>1, Leading, Zenon
<1>3. h[2] \in Kinds /\ h[3] \in SUBSET Addrs
  BY <1>2, JobKinds, Zenon
<1>4. PICK j : j = <<"choose", h[2], h[3], Connected, peers>>
  BY Zenon
<1>5. j \in Jobs /\ j[1] = "choose" /\ j[5] = peers
  <2>1. j[1] = "choose" /\ j[5] = peers
    BY <1>4, Zenon
  <2>2. peers \in Lists /\ Connected \in SUBSET Addrs
    BY <1>0, Zenon DEF ListInv, Connected, AcceptInv
  <2>3. j \in Jobs
    BY <1>3, <1>4, <2>2, JobsTyped, Zenon
  <2> QED
    BY <2>1, <2>3, Zenon
<1>6. /\ GoesOn(p, <<j>>) /\ alone' = alone \cup {p}
      /\ UNCHANGED <<peers, meta, dial, loop, cancelled, claimed, odd>>
  BY <1>1, <1>4, Zenon DEF Look
<1>7. LookStep(p, j)
  BY <1>0, <1>5, <1>6, LookMove, Zenon
<1>8. Carried(p) /\ \A x \in Addrs : ~Forgetting(p, x) /\ ~Forgetting(p, x)'
  BY <1>7, Zenon DEF LookStep
<1>9. \A q \in Procs, x \in Addrs : Forgetting(q, x)' <=> Forgetting(q, x)
  BY <1>8, Zenon DEF Carried
<1>10. \A y \in Addrs : (Healthy(y)' <=> Healthy(y)) /\ (Deleting(y)' <=> Deleting(y))
  BY <1>6, <1>7, HealthyKept, Zenon DEF LookStep
<1>11. ListInv'
  BY <1>0, <1>6, <1>8, Zenon DEF ListInv, Carried, QueuesGood
<1>r. Range(peers) \subseteq Addrs
  BY <1>0, PeersAddrs, Zenon
<1>c. CoverKept
  <2>1. ASSUME NEW y \in Addrs, Covered(y) PROVE Covered(y)'
    BY <1>6, <1>8, <1>10, <2>1, Zenon DEF Carried, Covered
  <2> QED
    BY <2>1, Zenon DEF CoverKept
<1>12. DialInv'
  BY <1>0, <1>6, <1>c, DialKept, Zenon DEF RestInv
<1>13. KnownInv'
  BY <1>6, <1>10, Zenon DEF RestInv, KnownInv, Stray
<1>14. OneInv'
  <2>1. \A q \in alone' : q \in Procs /\ (q = p \/ q \in alone)
    BY <1>0, <1>6, Zenon DEF ListInv
  <2>2. ASSUME NEW q \in alone', AtStep(q, "choose")' PROVE Head(todo'[q])[5] = peers'
    <3>1. CASE q = p
      BY <1>5, <1>6, <1>7, <3>1, Zenon DEF LookStep
    <3>2. CASE q # p
      <4>1. q \in Procs /\ q \in alone /\ todo'[q] = todo[q]
        BY <1>8, <2>1, <3>2, Zenon DEF Carried
      <4>2. AtStep(q, "choose")
        BY <2>2, <4>1, Zenon DEF AtStep
      <4> QED
        BY <1>6, <4>1, <4>2, Zenon DEF RestInv, OneInv
    <3> QED
      BY <3>1, <3>2, Zenon
  <2>3. ASSUME NEW q \in alone', NEW y \in Addrs, Forgetting(q, y)' PROVE \E z \in Range(peers) : ~Forgetting(q, z)'
    <3>1. q # p /\ q \in alone /\ q \in Procs
      BY <1>8, <2>1, <2>3, Zenon
    <3>2. PICK z \in Range(peers) : ~Forgetting(q, z)
      BY <1>9, <2>3, <3>1, Zenon DEF RestInv, OneInv
    <3> QED
      BY <1>9, <1>r, <3>1, <3>2, Zenon
  <2> QED
    BY <1>6, <2>2, <2>3, Zenon DEF OneInv
<1>15. ClaimInv'
  <2>1. \A y : Excused(y)' <=> Excused(y)
    BY <1>6, Zenon DEF Excused
  <2>2. ASSUME NEW y \in claimed PROVE Excused(y)' \/ Recording(y)' \/ meta[y].source \in {"config", "manual"}
    <3>1. y \in Addrs
      BY <1>0, Zenon DEF ListInv
    <3> QED
      BY <1>8, <2>1, <3>1, Zenon DEF Carried, RestInv, ClaimInv
  <2>3. ASSUME NEW q \in Procs, NEW y \in Addrs, Forgetting(q, y)'
        PROVE  meta[y].source # "config" /\ (y \in claimed => Excused(y)')
    BY <1>9, <2>1, <2>3, Zenon DEF RestInv, ClaimInv
  <2> QED
    BY <1>6, <2>2, <2>3, Zenon DEF ClaimInv
<1> QED
  BY <1>11, <1>12, <1>13, <1>14, <1>15, <1>c, Zenon DEF RestInv

\* A pass deletes the records of those it will remove.
LEMMA ChooseKeeps == ASSUME RestInv, NEW p \in Procs, Choose(p) PROVE RestInv' /\ CoverKept
<1>0. ListInv /\ QueuesGood /\ AtStep(p, "choose")
  BY Queues, Zenon DEF RestInv, Choose
<1>1. PICK h : h = Head(todo[p])
  BY Zenon
<1>2. todo[p] # <<>> /\ h \in Jobs /\ h[1] = "choose"
  BY <1>0, <1>1, Leading, Zenon
<1>3. PICK known : known = h[5]
  BY Zenon
<1>4. known \in Lists /\ known \in Seq(Addrs)
  BY <1>2, <1>3, JobKinds, Zenon DEF Lists
<1>5. PICK drop : drop = forgetCandidates(h[2], h[3], h[4], known)
  BY Zenon
<1>6. /\ drop \in Seq(Addrs)
      /\ \A x \in Range(drop) : forgettable(meta[x].source)
      /\ drop # <<>> => Len(drop) < Len(known)
  BY <1>4, <1>5, Candidates, Zenon
<1>7. /\ meta' = [x \in Addrs |-> IF x \in Range(drop) THEN NoMeta ELSE meta[x]]
      /\ GoesOn(p, RemoveAll(drop))
      /\ odd' = odd \cup {<<x, "being recorded">> :
                          x \in {y \in Range(drop) : \E q \in Procs : AtStep(q, "record") /\ Head(todo[q])[2] = y}}
      /\ UNCHANGED <<peers, dial, loop, cancelled, claimed, alone>>
  BY <1>1, <1>3, <1>5, Zenon DEF Choose
<1>8. /\ odd \subseteq odd'
      /\ \A x \in Range(drop) : Recording(x) => <<x, "being recorded">> \in odd'
  BY <1>7, Zenon DEF Recording
<1>9. ChooseStep(p, drop)
  BY <1>0, <1>6, <1>7, ChooseMove, Zenon
<1>10. /\ Carried(p) /\ ~AtStep(p, "choose")'
       /\ \A x \in Addrs : ~Forgetting(p, x) /\ (Forgetting(p, x)' <=> x \in Range(drop))
  BY <1>9, Zenon DEF ChooseStep
<1>11. \A y \in Addrs : (Healthy(y)' <=> Healthy(y)) /\ (Deleting(y)' <=> Deleting(y))
  BY <1>7, <1>9, HealthyKept, Zenon DEF ChooseStep
<1>12. NoMeta \in Metas /\ NoMeta.source = "none"
  BY Zenon DEF NoMeta, Metas
<1>13. ListInv'
  <2>1. meta' \in [Addrs -> Metas]
    BY <1>0, <1>7, <1>12, Zenon DEF ListInv
  <2> QED
    BY <1>0, <1>7, <1>10, <2>1, Zenon DEF ListInv, Carried, QueuesGood
<1>r. Range(peers) \subseteq Addrs
  BY <1>0, PeersAddrs, Zenon
<1>c. CoverKept
  <2>1. ASSUME NEW y \in Addrs, Covered(y) PROVE Covered(y)'
    BY <1>8, <1>10, <1>11, <2>1, Zenon DEF Carried, Covered
  <2> QED
    BY <2>1, Zenon DEF CoverKept
<1>14. DialInv'
  BY <1>0, <1>7, <1>c, DialKept, Zenon DEF RestInv
<1>15. KnownInv'
  <2>1. \A y : Stray(y) => Stray(y)'
    BY <1>8, Zenon DEF Stray
  <2> QED
    BY <1>7, <1>11, <2>1, Zenon DEF RestInv, KnownInv
<1>16. OneInv'
  <2>1. \A q \in alone : q \in Procs
    BY <1>0, Zenon DEF ListInv
  <2>2. ASSUME NEW q \in alone, AtStep(q, "choose")' PROVE Head(todo'[q])[5] = peers'
    <3>1. q \in Procs /\ q # p /\ todo'[q] = todo[q]
      BY <1>10, <2>1, <2>2, Zenon DEF Carried
    <3>2. AtStep(q, "choose")
      BY <2>2, <3>1, Zenon DEF AtStep
    <3> QED
      BY <1>7, <3>1, <3>2, Zenon DEF RestInv, OneInv
  <2>3. ASSUME NEW q \in alone, NEW y \in Addrs, Forgetting(q, y)' PROVE \E z \in Range(peers) : ~Forgetting(q, z)'
    <3>1. CASE q = p
      <4>1. known = peers
        BY <1>0, <1>1, <1>3, <3>1, Zenon DEF RestInv, OneInv
      <4>2. y \in Range(drop)
        BY <1>10, <2>3, <3>1, Zenon
      <4>3. drop # <<>>
        BY <4>2, EmptyList, Zenon
      <4>4. PICK z \in Range(known) : z \notin Range(drop)
        BY <1>4, <1>6, <4>3, Spared, Zenon
      <4> QED
        BY <1>10, <1>r, <3>1, <4>1, <4>4, Zenon
    <3>2. CASE q # p
      <4>1. q \in Procs /\ \A x \in Addrs : Forgetting(q, x)' <=> Forgetting(q, x)
        BY <1>10, <2>1, <3>2, Zenon DEF Carried
      <4>2. PICK z \in Range(peers) : ~Forgetting(q, z)
        BY <2>3, <4>1, Zenon DEF RestInv, OneInv
      <4> QED
        BY <1>r, <4>1, <4>2, Zenon
    <3> QED
      BY <3>1, <3>2, Zenon
  <2> QED
    BY <1>7, <2>2, <2>3, Zenon DEF OneInv
<1>17. ClaimInv'
  <2>1. \A y : Excused(y) => Excused(y)'
    BY <1>8, Zenon DEF Excused
  <2>2. \A y \in Range(drop) : y \in claimed => Excused(y)'
    <3>1. \A y \in Range(drop) : Recording(y) => Excused(y)'
      BY <1>8, Zenon DEF Excused
    <3>2. \A y \in Range(drop) : meta[y].source \notin {"config", "manual"}
      BY <1>6, Zenon DEF forgettable
    <3> QED
      BY <2>1, <3>1, <3>2, Zenon DEF RestInv, ClaimInv
  <2>3. \A y \in Addrs : IF y \in Range(drop) THEN meta'[y].source = "none" ELSE meta'[y] = meta[y]
    BY <1>7, <1>12, Zenon
  <2>4. ASSUME NEW y \in claimed PROVE Excused(y)' \/ Recording(y)' \/ meta'[y].source \in {"config", "manual"}
    <3>1. y \in Addrs
      BY <1>0, Zenon DEF ListInv
    <3> QED
      BY <1>10, <2>1, <2>2, <2>3, <3>1, Zenon DEF Carried, RestInv, ClaimInv
  <2>5. ASSUME NEW q \in Procs, NEW y \in Addrs, Forgetting(q, y)'
        PROVE  meta'[y].source # "config" /\ (y \in claimed => Excused(y)')
    <3>1. CASE y \in Range(drop)
      BY <2>2, <2>3, <3>1, Zenon
    <3>2. CASE y \notin Range(drop)
      <4>1. q # p /\ Forgetting(q, y)
        BY <1>10, <2>5, <3>2, Zenon DEF Carried
      <4> QED
        BY <2>1, <2>3, <3>2, <4>1, Zenon DEF RestInv, ClaimInv
    <3> QED
      BY <3>1, <3>2, Zenon
  <2> QED
    BY <1>7, <2>4, <2>5, Zenon DEF ClaimInv
<1> QED
  BY <1>13, <1>14, <1>15, <1>16, <1>17, <1>c, Zenon DEF RestInv

\* An operation begins.
LEMMA BeginKeeps == ASSUME RestInv, NEW p \in Procs, NEW op \in Repertoire[p], Begin(p, op) PROVE RestInv' /\ CoverKept
<1>0. ListInv /\ QueuesGood
  BY Queues, Zenon DEF RestInv
<1>1. PICK r0 : r0 = Operation(op)
  BY Zenon
<1>2. /\ todo[p] = <<>> /\ todo' = [todo EXCEPT ![p] = r0]
      /\ UNCHANGED <<peers, meta, dial, loop, cancelled, claimed, alone, odd>>
  BY <1>1, Zenon DEF Begin, history
<1>3. BeginStep(p)
  BY <1>0, <1>1, <1>2, OperationFresh, BeginMove, Zenon
<1>4. /\ Carried(p) /\ ~AtStep(p, "choose")'
      /\ \A x \in Addrs : Forgetting(p, x)' <=> Forgetting(p, x)
      /\ \A y \in Addrs : (Healthy(y)' <=> Healthy(y)) /\ (Deleting(y)' <=> Deleting(y))
  BY <1>2, <1>3, HealthyKept, Zenon DEF BeginStep
<1>5. ListInv'
  BY <1>0, <1>2, <1>4, Zenon DEF ListInv, Carried, QueuesGood
<1>c. CoverKept
  <2>1. ASSUME NEW y \in Addrs, Covered(y) PROVE Covered(y)'
    BY <1>2, <1>4, <2>1, Zenon DEF Carried, Covered
  <2> QED
    BY <2>1, Zenon DEF CoverKept
<1>6. DialInv'
  BY <1>0, <1>2, <1>c, DialKept, Zenon DEF RestInv
<1>7. KnownInv'
  BY <1>2, <1>4, Zenon DEF RestInv, KnownInv, Stray
<1>8. OneInv'
  BY <1>0, <1>2, <1>4, OneKept, Zenon DEF RestInv
<1>9. ClaimInv'
  <2>1. \A y : Excused(y)' <=> Excused(y)
    BY <1>2, Zenon DEF Excused
  <2>2. ASSUME NEW y \in claimed PROVE Excused(y)' \/ Recording(y)' \/ meta[y].source \in {"config", "manual"}
    <3>1. y \in Addrs
      BY <1>0, Zenon DEF ListInv
    <3> QED
      BY <1>4, <2>1, <3>1, Zenon DEF Carried, RestInv, ClaimInv
  <2>3. ASSUME NEW q \in Procs, NEW y \in Addrs, Forgetting(q, y)'
        PROVE  meta[y].source # "config" /\ (y \in claimed => Excused(y)')
    BY <1>4, <2>1, <2>3, Zenon DEF Carried, RestInv, ClaimInv
  <2> QED
    BY <1>2, <2>2, <2>3, Zenon DEF ClaimInv
<1> QED
  BY <1>5, <1>6, <1>7, <1>8, <1>9, <1>c, Zenon DEF RestInv

\* The goroutines that dial and the clock leave the list, the jobs and most of the records alone.
LEMMA LoopKeeps ==
  ASSUME RestInv, UNCHANGED <<peers, todo, claimed, alone, odd>>,
         meta' \in [Addrs -> Metas], \A x \in Addrs : meta'[x].source = meta[x].source,
         \A x \in Addrs : (Healthy(x)' => Healthy(x)) /\ (Healthy(x) => Healthy(x)' \/ x \in Alias)
  PROVE  RestInv' /\ CoverKept
<1>1. /\ \A x : (Pending(x)' <=> Pending(x)) /\ (Deleting(x)' <=> Deleting(x)) /\ (Recording(x)' <=> Recording(x))
      /\ \A x : Excused(x)' <=> Excused(x)
      /\ \A q, x : Forgetting(q, x)' <=> Forgetting(q, x)
      /\ \A q : AtStep(q, "choose")' <=> AtStep(q, "choose")
  BY Zenon DEF Pending, Deleting, Recording, Excused, Forgetting, AtStep
<1>3. ListInv'
  BY Zenon DEF RestInv, ListInv
<1>c. CoverKept
  BY <1>1, Zenon DEF CoverKept, Covered
<1>4. DialInv'
  BY <1>c, DialKept, Zenon DEF RestInv
<1>5. KnownInv'
  BY <1>1, Zenon DEF RestInv, KnownInv, Stray
<1>6. OneInv'
  BY <1>1, Zenon DEF RestInv, OneInv
<1>7. ClaimInv'
  <2>1. \A x \in claimed : x \in Addrs
    BY Zenon DEF RestInv, ListInv
  <2> QED
    BY <1>1, <2>1, Zenon DEF RestInv, ClaimInv
<1> QED
  BY <1>3, <1>4, <1>5, <1>6, <1>7, <1>c, Zenon DEF RestInv

\* A dial loop: its own state decides whether it goes on.
LEMMA DialLoopKeeps == ASSUME TableInv, RestInv, NEW x \in Addrs, DialLoop(x) PROVE RestInv' /\ CoverKept
<1>0. meta \in [Addrs -> Metas] /\ Tables
  BY Zenon DEF RestInv, ListInv, TableInv
<1>1. CASE Linked(x)
  <2>1. /\ UNCHANGED <<peers, todo, claimed, alone, odd, dial, cancelled>>
        /\ loop' = [loop EXCEPT ![x] = "linked"] /\ loop[x] = "dialing"
        /\ meta' = (IF meta[x] = NoMeta THEN meta ELSE [meta EXCEPT ![x].age = 0])
    BY <1>1, Zenon DEF Linked
  <2>2. meta' \in [Addrs -> Metas] /\ \A y \in Addrs : meta'[y].source = meta[y].source
    <3>1. CASE meta[x] = NoMeta
      BY <1>0, <2>1, <3>1, Zenon
    <3>2. CASE meta[x] # NoMeta
      <4>1. PICK m : m = [meta[x] EXCEPT !.age = 0]
        BY Zenon
      <4>2. m \in Metas /\ m.source = meta[x].source
        BY <1>0, <4>1, Zenon DEF Metas
      <4>3. meta' = [meta EXCEPT ![x] = m]
        BY <2>1, <3>2, <4>1, Zenon
      <4> QED
        BY <1>0, <4>2, <4>3, Zenon
    <3> QED
      BY <3>1, <3>2, Zenon
  <2>3. \A y \in Addrs : Healthy(y)' <=> Healthy(y)
    BY <1>0, <2>1, Zenon DEF Tables, Healthy
  <2> QED
    BY <2>1, <2>2, <2>3, LoopKeeps, Zenon
<1>2. CASE LinkEnds(x)
  <2>1. /\ UNCHANGED <<peers, todo, claimed, alone, odd, dial, cancelled, meta>>
        /\ loop' = [loop EXCEPT ![x] = "dialing"] /\ loop[x] = "linked"
    BY <1>2, Zenon DEF LinkEnds, history
  <2>2. \A y \in Addrs : Healthy(y)' <=> Healthy(y)
    BY <1>0, <2>1, Zenon DEF Tables, Healthy
  <2> QED
    BY <1>0, <2>1, <2>2, LoopKeeps, Zenon
<1>3. CASE LoopStops(x)
  <2>1. /\ UNCHANGED <<peers, todo, claimed, alone, odd, dial, cancelled, meta>>
        /\ loop' = [loop EXCEPT ![x] = "ending"] /\ (x \in cancelled \/ x \in Alias)
    BY <1>3, Zenon DEF LoopStops, history
  <2>2. \A y \in Addrs : (Healthy(y)' => Healthy(y)) /\ (Healthy(y) => Healthy(y)' \/ y \in Alias)
    BY <1>0, <2>1, Zenon DEF Tables, Healthy
  <2> QED
    BY <1>0, <2>1, <2>2, LoopKeeps, Zenon
<1>4. CASE LoopEnds(x)
  <2>1. /\ UNCHANGED <<peers, todo, claimed, alone, odd, meta>>
        /\ loop' = [loop EXCEPT ![x] = "none"] /\ loop[x] = "ending"
        /\ dial' = [dial EXCEPT ![x] = FALSE] /\ cancelled' = cancelled \ {x}
    BY <1>4, Zenon DEF LoopEnds, history
  <2>2. \A y \in Addrs : Healthy(y)' <=> Healthy(y)
    BY <1>0, <2>1, Zenon DEF Tables, Healthy
  <2> QED
    BY <1>0, <2>1, <2>2, LoopKeeps, Zenon
<1> QED
  BY <1>1, <1>2, <1>3, <1>4, Zenon DEF DialLoop

\* The clock changes ages only.
LEMMA TickKeeps == ASSUME RestInv, Tick PROVE RestInv' /\ CoverKept
<1>1. /\ UNCHANGED <<peers, todo, claimed, alone, odd, dial, loop, cancelled>>
      /\ meta' = [x \in Addrs |-> IF meta[x] = NoMeta \/ meta[x].age = 2 THEN meta[x]
                                  ELSE [meta[x] EXCEPT !.age = @ + 1]]
  BY Zenon DEF Tick
<1>2. meta \in [Addrs -> Metas]
  BY Zenon DEF RestInv, ListInv
<1>3. \A m \in Metas : [m EXCEPT !.age = @ + 1] \in Metas /\ [m EXCEPT !.age = @ + 1].source = m.source
  BY DEF Metas
<1>4. meta' \in [Addrs -> Metas] /\ \A y \in Addrs : meta'[y].source = meta[y].source
  BY <1>1, <1>2, <1>3, Zenon
<1>5. \A y \in Addrs : Healthy(y)' <=> Healthy(y)
  BY <1>1, HealthyKept, Zenon
<1> QED
  BY <1>1, <1>4, <1>5, LoopKeeps, Zenon

-----------------------------------------------------------------------------
(* The copy that the holder of configMu is about to store. *)

\* The others leave the holder alone, and what they do to the list and the table is no harm.
LEMMA CopyKept ==
  ASSUME CopyInv, CoverKept, UNCHANGED <<configMu, newCfg>>, \A q \in configMu : todo'[q] = todo[q],
         \A q \in configMu : q \in alone' => q \in alone /\ peers' = peers
  PROVE  CopyInv'
<1> SUFFICES ASSUME NEW q \in configMu
             PROVE  /\ q \in Procs /\ configMu = {q} /\ newCfg \in Lists
                    /\ (AppendHeld(q, Head(todo[q])[2]) \/ DeleteHeld(q, Head(todo[q])[2]))'
  BY Zenon DEF CopyInv
<1>1. PICK x : x = Head(todo[q])[2]
  BY Zenon
<1>2. q \in Procs /\ configMu = {q} /\ newCfg \in Lists /\ (AppendHeld(q, x) \/ DeleteHeld(q, x))
  BY <1>1, Zenon DEF CopyInv
<1>3. \A y \in Range(newCfg) : Covered(y) => Covered(y)'
  BY <1>2, ListAddrs, Zenon DEF CoverKept
<1>4. x = Head(todo'[q])[2] /\ \A kind : AtStep(q, kind) => AtStep(q, kind)'
  BY <1>1, Zenon DEF AtStep
<1>5. CASE AppendHeld(q, x)
  BY <1>2, <1>3, <1>4, <1>5, Zenon DEF AppendHeld
<1>6. CASE DeleteHeld(q, x)
  BY <1>2, <1>3, <1>4, <1>6, Zenon DEF DeleteHeld
<1> QED
  BY <1>2, <1>5, <1>6, Zenon

\* AddPeerFrom makes a copy with the address, unless the list has it.
LEMMA CopyWithKeeps == ASSUME RestInv, NEW p \in Procs, CopyWith(p) PROVE RestInv' /\ CopyInv'
<1>0. ListInv /\ QueuesGood /\ AtStep(p, "append") /\ configMu = {}
      /\ UNCHANGED <<peers, meta, dial, loop, cancelled, alone>>
  BY Queues, Zenon DEF RestInv, CopyWith
<1>1. PICK h : h = Head(todo[p])
  BY Zenon
<1>2. todo[p] # <<>> /\ h \in Jobs /\ h[1] = "append" /\ h[1] \in PlainKinds /\ h[1] \notin {"record", "dial"}
  BY <1>0, <1>1, Leading DEF PlainKinds
<1>3. PICK x : x = h[2]
  BY Zenon
<1>4. x \in Addrs
  BY <1>2, <1>3, JobKinds, Zenon
<1>5. CASE x \in Range(peers)
  <2>1. /\ Done(p) /\ configMu' = configMu
        /\ \/ /\ claimed' = claimed \cup {x}
              /\ odd' = odd \cup BeingForgotten(x)
                            \cup (IF meta[x].source \in {"config", "manual"} THEN {} ELSE {<<x, "known already">>})
           \/ UNCHANGED <<claimed, odd>>
    BY <1>1, <1>3, <1>5, Zenon DEF CopyWith, copying
  <2>2. PICK js : js = <<>>
    BY Zenon
  <2>3. js \in Seq(Jobs) /\ (\A i \in DOMAIN js : js[i][1] \in {"record", "dial"}) /\ GoesOn(p, js)
    <3>1. GoesOn(p, js)
      BY <1>0, <1>2, <2>1, <2>2, DoneGoesOn, Zenon
    <3>2. js \in Seq(Jobs) /\ DOMAIN js = {}
      BY <2>2
    <3> QED
      BY <3>1, <3>2, Zenon
  <2>4. PlainStep(p, js, h)
    BY <1>0, <1>1, <1>2, <2>3, PlainMove, Zenon
  <2>5. odd \subseteq odd' /\ \A y \in claimed' : y \in claimed \/ y = x
    BY <2>1, Zenon
  <2>6. ASSUME x \in claimed', x \notin claimed PROVE Vouched(x)
    <3>1. odd' = odd \cup BeingForgotten(x)
                     \cup (IF meta[x].source \in {"config", "manual"} THEN {} ELSE {<<x, "known already">>})
      BY <2>1, <2>6, Zenon
    <3>2. meta[x].source \in {"config", "manual"} \/ Excused(x)'
      BY <3>1, Zenon DEF Excused
    <3>3. ASSUME NEW q \in Procs, Forgetting(q, x) PROVE Excused(x)'
      BY <3>1, <3>3, Zenon DEF Excused, BeingForgotten
    <3> QED
      BY <1>4, <3>2, <3>3, Zenon DEF Vouched
  <2>7. \A y \in claimed' : y \in claimed \/ Vouched(y)
    BY <2>5, <2>6, Zenon
  <2>8. RestInv'
    BY <1>0, <1>2, <2>4, <2>5, <2>7, PlainKept, Zenon
  <2> QED
    BY <1>0, <2>1, <2>8, Zenon DEF CopyInv
<1>6. CASE x \notin Range(peers)
  <2>1. configMu' = {p} /\ newCfg' = Append(peers, x) /\ UNCHANGED <<todo, claimed, odd>>
    BY <1>1, <1>3, <1>6, Zenon DEF CopyWith
  <2>2. RestInv' /\ CoverKept
    <3>1. meta \in [Addrs -> Metas] /\ \A y \in Addrs : Healthy(y)' <=> Healthy(y)
      BY <1>0, HealthyKept, Zenon DEF ListInv
    <3> QED
      BY <1>0, <2>1, <3>1, LoopKeeps, Zenon
  <2>3. peers \in Seq(Addrs) /\ IsInjective(peers) /\ Range(peers) \subseteq Addrs
    BY <1>0, PeersAddrs, Zenon
  <2>4. Range(newCfg') = Range(peers) \cup {x} /\ newCfg' \in Lists
    <3>1. PICK ps : ps = peers
      BY Zenon
    <3>2. Range(Append(ps, x)) = Range(ps) \cup {x}
      BY <1>4, <2>3, <3>1, RangeAppend
    <3>3. IsInjective(Append(ps, x))
      BY <1>4, <1>6, <2>3, <3>1, InjectiveAppend, Zenon
    <3>4. Append(ps, x) \in Seq(Addrs)
      BY <1>4, <2>3, <3>1
    <3>5. Append(ps, x) \in Lists
      BY <3>3, <3>4, Zenon DEF Lists
    <3> QED
      BY <2>1, <3>1, <3>2, <3>5, Zenon
  <2>5. ASSUME NEW y \in Range(newCfg'), y # x PROVE Covered(y)'
    BY <2>2, <2>3, <2>4, <2>5, Zenon DEF RestInv, DialInv, CoverKept
  <2>6. AtStep(p, "append")' /\ Head(todo'[p])[2] = x
    BY <1>0, <1>1, <1>3, <2>1, Zenon DEF AtStep
  <2>7. AppendHeld(p, x)'
    BY <2>4, <2>5, <2>6, Zenon DEF AppendHeld
  <2> QED
    BY <2>1, <2>2, <2>4, <2>6, <2>7, Zenon DEF CopyInv
<1> QED
  BY <1>5, <1>6, Zenon

\* RemovePeer makes a copy without the address.
LEMMA CopyWithoutKeeps == ASSUME RestInv, NEW p \in Procs, CopyWithout(p) PROVE RestInv' /\ CopyInv'
<1>0. /\ ListInv /\ QueuesGood /\ AtStep(p, "delete")
      /\ UNCHANGED <<peers, meta, dial, loop, cancelled, alone, todo, claimed, odd>>
  BY Queues, Zenon DEF RestInv, CopyWithout, history
<1>1. PICK x : x = Head(todo[p])[2]
  BY Zenon
<1>2. configMu' = {p} /\ newCfg' = Others(peers, x)
  BY <1>1, Zenon DEF CopyWithout
<1>3. RestInv' /\ CoverKept
  <2>1. meta \in [Addrs -> Metas] /\ \A y \in Addrs : Healthy(y)' <=> Healthy(y)
    BY <1>0, HealthyKept, Zenon DEF ListInv
  <2> QED
    BY <1>0, <2>1, LoopKeeps, Zenon
<1>4. newCfg' \in Lists /\ Range(newCfg') = Range(peers) \ {x} /\ Range(peers) \subseteq Addrs
  <2>1. PICK ps : ps = peers
    BY Zenon
  <2>2. ps \in Seq(Addrs) /\ IsInjective(ps) /\ Range(ps) \subseteq Addrs
    BY <1>0, <2>1, PeersAddrs, Zenon
  <2>3. Others(ps, x) \in Seq(Addrs) /\ Range(Others(ps, x)) = Range(ps) \ {x} /\ IsInjective(Others(ps, x))
    BY <2>2, OthersRest, Zenon
  <2> QED
    BY <1>2, <2>1, <2>2, <2>3, Zenon DEF Lists
<1>5. ASSUME NEW y \in Range(newCfg') PROVE Covered(y)'
  BY <1>3, <1>4, <1>5, Zenon DEF RestInv, DialInv, CoverKept
<1>6. AtStep(p, "delete")' /\ Head(todo'[p])[2] = x /\ newCfg' = Others(peers', x)
  BY <1>0, <1>1, <1>2, Zenon DEF AtStep
<1>7. DeleteHeld(p, x)'
  BY <1>4, <1>5, <1>6, Zenon DEF DeleteHeld
<1> QED
  BY <1>2, <1>3, <1>4, <1>6, <1>7, Zenon DEF CopyInv

-----------------------------------------------------------------------------
(* The invariant, and what follows from it. *)
LEMMA Begins == ASSUME Init PROVE MembershipInv
<1>1. PICK s \in Starts :
        /\ peers = s.file \o s.others
        /\ meta = [x \in Addrs |-> IF x \in Range(s.file) THEN [source |-> "config", age |-> 1]
                                   ELSE IF x \in Range(s.others) THEN [source |-> s.source, age |-> 1]
                                   ELSE NoMeta]
        /\ dial = [x \in Addrs |-> x \in Range(peers)]
        /\ loop = [x \in Addrs |-> IF x \in Range(peers) THEN "dialing" ELSE "none"]
        /\ cancelled = {} /\ accepted = {}
        /\ todo = [p \in Procs |-> <<>>]
        /\ claimed = Range(s.file)
        /\ alone = {} /\ odd = {} /\ configMu = {}
  BY Zenon DEF Init
<1>2. /\ s.file \o s.others \in Lists /\ s.file \in Seq(Addrs) /\ s.others \in Seq(Addrs) /\ s.source \in Sources
      /\ Range(s.file) \subseteq Addrs
  <2>1. s.file \o s.others \in Lists /\ s.file \in Seq(Addrs) /\ s.others \in Seq(Addrs) /\ s.source \in Sources
    BY StartsKnown, Zenon
  <2> QED
    BY <2>1 DEF Range
<1>3. meta \in [Addrs -> Metas] /\ \A x \in Range(s.file) : meta[x].source = "config"
  <2>1. [source |-> "config", age |-> 1] \in Metas /\ [source |-> s.source, age |-> 1] \in Metas /\ NoMeta \in Metas
    BY <1>2, Zenon DEF Metas, NoMeta, Sources
  <2>2. meta \in [Addrs -> Metas]
    BY <1>1, <2>1, Zenon
  <2>3. \A x \in Range(s.file) : meta[x] = [source |-> "config", age |-> 1]
    BY <1>1, <1>2, Zenon
  <2> QED
    BY <2>2, <2>3, SMTT(30)
<1>4. \A p \in Procs : todo[p] = <<>>
  BY <1>1, Zenon
<1>6. \A p \in Procs : Shape(todo[p]) /\ Begun(todo[p])
  BY <1>4 DEF Shape, Adding, Begun
<1>7. todo \in [Procs -> Seq(Jobs)]
  BY <1>1, EmptySeq, Zenon
<1>8. ListInv
  BY <1>1, <1>2, <1>3, <1>6, <1>7, Zenon DEF ListInv
<1>9. \A p \in Procs : \A x : ~Forgetting(p, x)
  BY <1>4 DEF Forgetting
<1>10. \A x : ~Deleting(x)
  BY <1>4, Zenon DEF Deleting, AtStep
<1>11. \A x \in Addrs : Healthy(x) <=> x \in Range(peers)
  BY <1>1, Zenon DEF Healthy
<1>12. DialInv
  BY <1>8, <1>11, PeersAddrs, Zenon DEF DialInv, Covered
<1>13. KnownInv
  BY <1>10, <1>11, Zenon DEF KnownInv
<1>14. OneInv
  BY <1>1, Zenon DEF OneInv
<1>15. ClaimInv
  BY <1>1, <1>3, <1>9, Zenon DEF ClaimInv
<1>16. AcceptInv
  BY <1>1, Zenon DEF AcceptInv
<1> QED
  BY <1>1, <1>8, <1>12, <1>13, <1>14, <1>15, <1>16, TableInit, Zenon DEF MembershipInv, RestInv, CopyInv

\* Only addresses have an accepted link.
LEMMA AcceptNext == ASSUME MembershipInv, [Next]_vars PROVE AcceptInv'
<1>0. AcceptInv /\ QueuesGood
  BY Queues, Zenon DEF MembershipInv, RestInv
<1>1. ASSUME NEW p \in Procs, Accept(p) PROVE AcceptInv'
  <2>1. PICK h : h = Head(todo[p])
    BY Zenon
  <2>2. AtStep(p, "accept") /\ accepted' = accepted \cup {h[2]}
    BY <1>1, <2>1, Zenon DEF Accept
  <2>3. h \in Jobs /\ h[1] = "accept"
    BY <1>0, <2>1, <2>2, Leading, Zenon
  <2>4. h[2] \in Addrs
    BY <2>3, JobKinds, Zenon
  <2> QED
    BY <1>0, <2>2, <2>4, Zenon DEF AcceptInv
<1>2. CASE accepted' \subseteq accepted
  BY <1>0, <1>2, Zenon DEF AcceptInv
<1>3. ASSUME NEW p \in Procs, Step(p), ~Accept(p) PROVE accepted' \subseteq accepted
  BY <1>3, Zenon DEF Step, CopyWith, AppendPeer, Record, ensureDial, CancelDial, CopyWithout, DeletePeer, SwapConfig,
              Look, Choose
<1>4. ASSUME NEW p \in Procs, NEW op \in Repertoire[p], Begin(p, op) PROVE accepted' \subseteq accepted
  BY <1>4, Zenon DEF Begin
<1>5. ASSUME NEW x \in Addrs, DialLoop(x) \/ AcceptedEnds(x) PROVE accepted' \subseteq accepted
  BY <1>5, Zenon DEF DialLoop, Linked, LinkEnds, LoopStops, LoopEnds, AcceptedEnds
<1>6. CASE Tick
  BY <1>2, <1>6, Zenon DEF Tick
<1>7. CASE UNCHANGED vars
  BY <1>2, <1>7, Zenon DEF vars
<1> QED
  BY <1>1, <1>2, <1>3, <1>4, <1>5, <1>6, <1>7, Zenon DEF Next

\* Every step keeps the list, the queues, the copy and what is said of them.
LEMMA RestNext == ASSUME MembershipInv, [Next]_vars PROVE RestInv' /\ CopyInv'
<1>0. TableInv /\ AcceptInv /\ RestInv /\ CopyInv
  BY Zenon DEF MembershipInv
<1>a. \A q \in configMu : q \in Procs /\ (AtStep(q, "append") \/ AtStep(q, "delete"))
  BY <1>0, Zenon DEF CopyInv, AppendHeld, DeleteHeld
<1>1. ASSUME NEW p \in Procs, Step(p) PROVE RestInv' /\ CopyInv'
  <2>1. CASE CopyWith(p) \/ CopyWithout(p)
    BY <1>0, <2>1, CopyWithKeeps, CopyWithoutKeeps, Zenon
  <2>2. CASE AppendPeer(p) \/ DeletePeer(p)
    <3>1. configMu' = {}
      BY <2>2, Zenon DEF AppendPeer, DeletePeer, StoreCopy
    <3>2. CopyInv'
      BY <3>1, Zenon DEF CopyInv
    <3> QED
      BY <1>0, <2>2, <3>2, AppendKeeps, DeleteKeeps, Zenon
  <2>3. CASE Record(p) \/ ensureDial(p) \/ CancelDial(p) \/ SwapConfig(p) \/ Accept(p) \/ Look(p) \/ Choose(p)
    <3>1. RestInv' /\ CoverKept
      BY <1>0, <2>3, RecordKeeps, DialKeeps, CancelKeeps, SwapKeeps, AcceptKeeps, LookKeeps, ChooseKeeps, Zenon
    <3>2. UNCHANGED <<configMu, newCfg>>
      BY <2>3, Zenon DEF Record, ensureDial, CancelDial, SwapConfig, Accept, Look, Choose, copying
    <3>3. p \notin configMu
      <4>1. ~AtStep(p, "append") /\ ~AtStep(p, "delete")
        BY <2>3, Zenon DEF Record, ensureDial, CancelDial, SwapConfig, Accept, Look, Choose, AtStep
      <4> QED
        BY <1>a, <4>1, Zenon
    <3>4. \A q \in configMu : q \in Procs /\ q # p
      BY <1>a, <3>3, Zenon
    <3>5. \A q \in configMu : todo'[q] = todo[q]
      <4>1. PICK r : todo' = [todo EXCEPT ![p] = r]
        BY <2>3, Zenon DEF Record, ensureDial, CancelDial, SwapConfig, Accept, Look, Choose, GoesOn, Done
      <4>2. QueuesGood
        BY <1>0, Queues, Zenon DEF RestInv
      <4> QED
        BY <3>4, <4>1, <4>2, OthersStay, Zenon
    <3>6. \A q \in configMu : q \in alone' => q \in alone /\ peers' = peers
      <4>1. \/ alone' = alone /\ peers' = peers
            \/ alone' = alone \cup {p} /\ peers' = peers
            \/ alone' = alone \ (Procs \ {p})
        BY <2>3, Zenon DEF Record, ensureDial, CancelDial, SwapConfig, Accept, Look, Choose, ListChangedBy, history
      <4> QED
        BY <3>4, <4>1, Zenon
    <3> QED
      BY <1>0, <3>1, <3>2, <3>5, <3>6, CopyKept, Zenon
  <2> QED
    BY <1>1, <2>1, <2>2, <2>3, Zenon DEF Step
<1>2. ASSUME NEW p \in Procs, NEW op \in Repertoire[p], Begin(p, op) PROVE RestInv' /\ CopyInv'
  <2>1. RestInv' /\ CoverKept
    BY <1>0, <1>2, BeginKeeps, Zenon
  <2>2. todo[p] = <<>> /\ UNCHANGED <<peers, configMu, newCfg, alone>>
    BY <1>2, Zenon DEF Begin, copying, history
  <2>3. \A q \in configMu : q \in Procs /\ q # p
    BY <1>a, <2>2, Zenon DEF AtStep
  <2>4. \A q \in configMu : todo'[q] = todo[q]
    <3>1. PICK r : todo' = [todo EXCEPT ![p] = r]
      BY <1>2, Zenon DEF Begin
    <3>2. QueuesGood
      BY <1>0, Queues, Zenon DEF RestInv
    <3> QED
      BY <2>3, <3>1, <3>2, OthersStay, Zenon
  <2> QED
    BY <1>0, <2>1, <2>2, <2>4, CopyKept, Zenon
<1>b. ASSUME RestInv', CoverKept, UNCHANGED <<peers, configMu, newCfg, todo, alone>> PROVE RestInv' /\ CopyInv'
  BY <1>0, <1>b, CopyKept, Zenon
<1>3. ASSUME NEW x \in Addrs, DialLoop(x) PROVE RestInv' /\ CopyInv'
  <2>1. UNCHANGED <<peers, configMu, newCfg, todo, alone>>
    BY <1>3, Zenon DEF DialLoop, Linked, LinkEnds, LoopStops, LoopEnds, copying, history
  <2> QED
    BY <1>0, <1>3, <1>b, <2>1, DialLoopKeeps, Zenon
<1>4. CASE UNCHANGED <<peers, configMu, newCfg, meta, dial, loop, cancelled, todo, claimed, alone, odd>>
  <2>1. \A y \in Addrs : Healthy(y)' <=> Healthy(y)
    BY <1>4, HealthyKept, Zenon
  <2>2. meta \in [Addrs -> Metas]
    BY <1>0, Zenon DEF RestInv, ListInv
  <2>3. RestInv' /\ CoverKept
    BY <1>0, <1>4, <2>1, <2>2, LoopKeeps, Zenon
  <2> QED
    BY <1>4, <1>b, <2>3, Zenon
<1>5. ASSUME NEW x \in Addrs, AcceptedEnds(x) PROVE RestInv' /\ CopyInv'
  BY <1>4, <1>5, Zenon DEF AcceptedEnds, copying, history
<1>6. CASE Tick
  <2>1. UNCHANGED <<peers, configMu, newCfg, todo, alone>>
    BY <1>6, Zenon DEF Tick, copying
  <2> QED
    BY <1>0, <1>6, <1>b, <2>1, TickKeeps, Zenon
<1>7. CASE UNCHANGED vars
  BY <1>4, <1>7, Zenon DEF vars
<1> QED
  BY <1>1, <1>2, <1>3, <1>5, <1>6, <1>7, Zenon DEF Next

(* The table, the list, the jobs under way and what the operator has asked *)
(* for agree at every moment, in the sense of the invariant above.         *)
THEOREM MembershipCorrect == Spec => []MembershipInv
<1>1. MembershipInv /\ [Next]_vars => MembershipInv'
  BY TableNext, AcceptNext, RestNext, Zenon DEF MembershipInv
<1> QED
  BY <1>1, Begins, PTL DEF Spec

(* The list never names an address twice, and when no operation is under   *)
(* way every peer of it is dialled or connected, with the two exceptions   *)
(* of DialsWhatItKnows (AddPeerFrom, ensureDial).                          *)
THEOREM KnownAreDialled == Spec => []DialsWhatItKnows
<1>1. MembershipInv => DialsWhatItKnows
  <2> SUFFICES ASSUME MembershipInv PROVE DialsWhatItKnows
    BY Zenon
  <2>1. IsInjective(peers)
    BY PeersAddrs, Zenon DEF MembershipInv, RestInv
  <2>2. ASSUME Settled, NEW x \in Range(peers) PROVE dial[x] \/ x \in Alias \/ <<x, "winding down">> \in odd
    <3>1. ~Pending(x) /\ ~Deleting(x)
      <4>1. \A q \in Procs : todo[q] = <<>> /\ DOMAIN todo[q] = {}
        BY <2>2 DEF Settled
      <4> QED
        BY <4>1, Zenon DEF Pending, Deleting, AtStep
    <3> QED
      BY <3>1, Zenon DEF MembershipInv, RestInv, DialInv, Covered, Healthy
  <2> QED
    BY <2>1, <2>2, Zenon DEF DialsWhatItKnows
<1> QED
  BY <1>1, MembershipCorrect, PTL

(* When no operation is under way only peers of the list are dialled, with *)
(* the exceptions of DialsOnlyWhatItKnows (RemovePeer, dialLoop).          *)
THEOREM DialledAreKnown == Spec => []DialsOnlyWhatItKnows
<1>1. MembershipInv => DialsOnlyWhatItKnows
  <2> SUFFICES ASSUME MembershipInv, Settled, NEW x \in Addrs, dial[x]
               PROVE  x \in Range(peers) \/ Stray(x)
    BY Zenon DEF DialsOnlyWhatItKnows, Stray
  <2>1. Healthy(x)
    BY Zenon DEF Settled, Healthy
  <2> QED
    BY <2>1, Zenon DEF MembershipInv, RestInv, KnownInv
<1> QED
  BY <1>1, MembershipCorrect, PTL

\* Only RemovePeer ends a removal.
LEMMA OnlyDeletes ==
  ASSUME MembershipInv, [Next]_vars, NEW p \in Procs, AtStep(p, "delete"), todo'[p] # todo[p]
  PROVE  DeletePeer(p)
<1>0. todo \in [Procs -> Seq(Jobs)]
  BY Zenon DEF MembershipInv, RestInv, ListInv
<1>1. ASSUME NEW q \in Procs, q # p, NEW r, todo' = [todo EXCEPT ![q] = r] PROVE FALSE
  BY <1>0, <1>1, Zenon
<1>2. ASSUME NEW q \in Procs, Step(q) PROVE DeletePeer(p)
  <2>1. \E r : todo' = [todo EXCEPT ![q] = r]
    BY <1>2, Zenon DEF Step, CopyWith, AppendPeer, Record, ensureDial, CancelDial, CopyWithout, DeletePeer, SwapConfig,
                Accept, Look, Choose, GoesOn, Done, history
  <2>2. q = p
    BY <1>1, <2>1, Zenon
  <2> QED
    BY <1>2, <2>2, Zenon DEF Step, AtStep, CopyWith, AppendPeer, Record, ensureDial, CancelDial, CopyWithout, SwapConfig,
                       Accept, Look, Choose
<1>3. ASSUME NEW q \in Procs, NEW op \in Repertoire[q], Begin(q, op) PROVE FALSE
  <2>1. q # p
    BY <1>3, Zenon DEF Begin, AtStep
  <2> QED
    BY <1>1, <1>3, <2>1, Zenon DEF Begin
<1>4. ASSUME NEW x \in Addrs, DialLoop(x) \/ AcceptedEnds(x) PROVE FALSE
  BY <1>4, Zenon DEF DialLoop, Linked, LinkEnds, LoopStops, LoopEnds, AcceptedEnds
<1>5. ~Tick /\ ~UNCHANGED vars
  BY Zenon DEF Tick, vars
<1> QED
  BY <1>2, <1>3, <1>4, <1>5, Zenon DEF Next

(* A pass that forgets peers never empties the list that it read           *)
(* (forgetCandidates keeps one, RemovePeer removes only what was chosen).  *)
THEOREM OnePeerIsKept == Spec => KeepsOnePeer
<1>1. ASSUME MembershipInv, [Next]_vars, NEW p \in alone, AtStep(p, "delete"), Head(todo[p])[3] = "forgotten",
             todo'[p] # todo[p]
      PROVE  peers' # <<>>
  <2>0. ListInv /\ QueuesGood /\ p \in Procs
    BY <1>1, Queues, Zenon DEF MembershipInv, RestInv, ListInv
  <2>1. DeletePeer(p)
    BY <1>1, <2>0, OnlyDeletes, Zenon
  <2>2. PICK h : h = Head(todo[p])
    BY Zenon
  <2>3. PICK x : x = h[2]
    BY Zenon
  <2>4. peers' = Others(peers, x)
    <3>1. p \in configMu /\ peers' = newCfg
      BY <2>1, Zenon DEF DeletePeer, StoreCopy
    <3>2. ~AtStep(p, "append")
      BY <1>1, Zenon DEF AtStep
    <3>3. DeleteHeld(p, x)
      BY <1>1, <2>2, <2>3, <3>1, <3>2, Zenon DEF MembershipInv, CopyInv, AppendHeld
    <3> QED
      BY <1>1, <3>1, <3>3, Zenon DEF DeleteHeld
  <2>5. h \in Jobs /\ h[1] = "delete" /\ 1 \in DOMAIN todo[p] /\ todo[p][1] = h
    BY <1>1, <2>0, <2>2, Leading, Zenon
  <2>6. x \in Addrs
    BY <2>3, <2>5, JobKinds, Zenon
  <2>7. Forgetting(p, x)
    BY <1>1, <2>2, <2>3, <2>5, Zenon DEF Forgetting
  <2>8. PICK y \in Range(peers) : ~Forgetting(p, y)
    BY <1>1, <2>6, <2>7, Zenon DEF MembershipInv, RestInv, OneInv
  <2>9. PICK ps : ps = peers
    BY Zenon
  <2>10. Range(Others(ps, x)) = Range(ps) \ {x}
    BY <2>0, <2>9, PeersAddrs, OthersRest, Zenon
  <2>11. y \in Range(peers')
    BY <2>4, <2>7, <2>8, <2>9, <2>10, Zenon
  <2> QED
    BY <2>11, EmptyList, Zenon
<1>2. MembershipInv /\ [Next]_vars =>
        [\A p \in alone : AtStep(p, "delete") /\ Head(todo[p])[3] = "forgotten" /\ todo'[p] /= todo[p] =>
            peers' /= <<>>]_vars
  BY <1>1, Zenon
<1> QED
  BY <1>2, MembershipCorrect, PTL DEF Spec, KeepsOnePeer

(* What the operator asked for is never forgotten, with the four           *)
(* exceptions of OperatorPeersStay (recordPeerMeta, forgetCandidates,      *)
(* RemovePeer, SetConfig).                                                 *)
THEOREM OperatorPeersAreKept == Spec => OperatorPeersStay
<1>1. ASSUME MembershipInv, NEW p \in Procs, AtStep(p, "delete"), Head(todo[p])[3] = "forgotten",
             NEW x, x = Head(todo[p])[2], x \in claimed
      PROVE  Excused(x)
  <2>1. QueuesGood /\ x \in Addrs
    BY <1>1, Queues, Zenon DEF MembershipInv, RestInv, ListInv
  <2>2. 1 \in DOMAIN todo[p] /\ todo[p][1] = Head(todo[p]) /\ Head(todo[p])[1] = "delete"
    BY <1>1, <2>1, Leading, Zenon
  <2>3. Forgetting(p, x)
    BY <1>1, <2>2, Zenon DEF Forgetting
  <2> QED
    BY <1>1, <2>1, <2>3, Zenon DEF MembershipInv, RestInv, ClaimInv
<1>2. MembershipInv /\ [Next]_vars =>
        [\A p \in Procs : AtStep(p, "delete") /\ Head(todo[p])[3] = "forgotten" /\ todo'[p] /= todo[p] =>
            LET x == Head(todo[p])[2]
            IN  x \in claimed \cap Range(peers) =>
                    \E why \in {"reloaded", "known already", "being recorded", "being forgotten"} :
                        <<x, why>> \in odd]_vars
  BY <1>1, Zenon DEF Excused
<1> QED
  BY <1>2, MembershipCorrect, PTL DEF Spec, OperatorPeersStay

=============================================================================
