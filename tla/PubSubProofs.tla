---------------------------- MODULE PubSubProofs ----------------------------
(***************************************************************************)
(* What PubSub promises, for any clients, channels, patterns, commands and *)
(* bound.  The invariant says where sessions and registry may differ (only *)
(* about the name a session is joining or parting), and where a PUBLISH    *)
(* stands among its subscribers.  It rests on what the loops of            *)
(* subscription.go compute (removeSession, and seen in Publish), which is  *)
(* shown by induction on the turns of the loop.                            *)
(***************************************************************************)
EXTENDS PubSub, FiniteSetTheorems, TLAPS

-----------------------------------------------------------------------------
(* Sequences. *)

\* A sequence is empty or has a length.
LEMMA EmptySeq ==
  ASSUME NEW S
  PROVE  <<>> \in Seq(S) /\ Len(<<>>) = 0 /\ \A s \in Seq(S) : s # <<>> => Len(s) \in Nat \ {0}
OBVIOUS

\* The elements of two sequences one after the other.
LEMMA RangeConcatenation ==
  ASSUME NEW S, NEW s \in Seq(S), NEW t \in Seq(S)
  PROVE  Range(s \o t) = Range(s) \cup Range(t)
<1> DEFINE u == s \o t
           n == Len(s)
           m == Len(t)
<1>1. /\ n \in Nat /\ m \in Nat /\ DOMAIN s = 1 .. n /\ DOMAIN t = 1 .. m
      /\ DOMAIN u = 1 .. n + m
      /\ \A i \in 1 .. n : u[i] = s[i]
      /\ \A i \in 1 .. m : u[n + i] = t[i]
  OBVIOUS
<1> HIDE DEF u, n, m
<1>2. ASSUME NEW i \in DOMAIN s PROVE s[i] \in Range(u)
  <2>1. i \in DOMAIN u /\ u[i] = s[i]
    BY <1>1
  <2> QED
    BY <2>1, Zenon DEF Range
<1>3. ASSUME NEW i \in DOMAIN t PROVE t[i] \in Range(u)
  <2>1. n + i \in DOMAIN u /\ u[n + i] = t[i]
    BY <1>1
  <2> QED
    BY <2>1, Zenon DEF Range
<1>4. ASSUME NEW i \in DOMAIN u PROVE u[i] \in Range(s) \cup Range(t)
  <2>1. CASE i <= n
    <3>1. i \in DOMAIN s /\ u[i] = s[i]
      BY <1>1, <2>1
    <3> QED
      BY <3>1, Zenon DEF Range
  <2>2. CASE ~(i <= n)
    <3>1. i - n \in DOMAIN t /\ n + (i - n) = i
      BY <1>1, <2>2
    <3>2. u[i] = t[i - n]
      BY <1>1, <3>1, Zenon
    <3> QED
      BY <3>1, <3>2, Zenon DEF Range
  <2> QED
    BY <2>1, <2>2, Zenon
<1>5. Range(u) = Range(s) \cup Range(t)
  BY <1>2, <1>3, <1>4, Zenon DEF Range
<1> QED
  BY <1>5, Zenon DEF u

-----------------------------------------------------------------------------
\* The tasks of an open session, and of any.
OpenTasks == ({"join", "part", "drop"} \X Names)
                \cup {<<"part all", "channels">>, <<"part all", "patterns">>}
                \cup ({"publish"} \X Channels)
Tasks == OpenTasks \cup {<<"leave">>}
Sessions == [SubChannels : SUBSET Channels, PSubPatterns : SUBSET Patterns, open : BOOLEAN]
Messages == Clients \X Nat \X Nat \X Channels

TypeInv == /\ chans \in [Channels -> Seq(Clients)]
           /\ psubs \in [Patterns -> Seq(Clients)]
           /\ readers \subseteq Clients
           /\ waiting \subseteq Clients
           /\ outMu \in [Clients -> BOOLEAN]
           /\ sess \in [Clients -> Sessions]
           /\ tasks \in [Clients -> Seq(Tasks)]
           /\ push \in [Clients -> Seq(Clients)]
           /\ got \in [Clients -> Seq(Messages)]
           /\ calls \in [Clients -> Nat]
           /\ audience \in [Clients -> SUBSET Clients]

At(c, kinds) == tasks[c] # <<>> /\ Head(tasks[c])[1] \in kinds

\* Who has the registry or waits for it is at a task that needs it; a session is locked
\* while its command runs; a closed one has nothing left but to leave.
Locking(c) ==
    /\ c \in waiting => At(c, {"join", "part", "drop", "leave"})
    /\ c \in readers => At(c, {"publish"})
    /\ sess[c].open => tasks[c] \in Seq(OpenTasks)
    /\ ~sess[c].open => tasks[c] = <<>> \/ tasks[c] = << <<"leave">> >>
    /\ sess[c].open /\ tasks[c] # <<>> => outMu[c]
LockInv == \A c \in Clients : Locking(c)

\* Who owes a reply has the mutex of its session and neither has nor wants the registry;
\* who is inside a write has the registry, and the mutex of a session that does not have it.
Holding(c) ==
    /\ replies[c] = "owed" => sess[c].open /\ outMu[c] /\ c \notin waiting /\ c \notin readers
    /\ replies[c] = "end" => sess[c].open /\ outMu[c]
    /\ c \in writing => /\ c \in readers /\ push[c] # <<>>
                        /\ Head(push[c]) \in Clients /\ ~outMu[Head(push[c])]
HoldInv == /\ replies \in [Clients -> {"each", "owed", "end"}]
           /\ \A c \in Clients : Holding(c)

Listed(n) == IF n \in Channels THEN chans[n] ELSE psubs[n]
Noted(c) == sess[c].SubChannels \cup sess[c].PSubPatterns
Asking(c, kind, n) == c \in waiting /\ Head(tasks[c])[1] = kind /\ Head(tasks[c])[2] = n

\* Session and registry agree on every name but the one the session is about to join or
\* part, which it has noted already.
Agrees(c, n) ==
    /\ sess[c].open => IF Asking(c, "join", n) THEN n \in Noted(c)
                       ELSE IF Asking(c, "part", n) THEN n \notin Noted(c)
                       ELSE c \in Range(Listed(n)) <=> n \in Noted(c)
    /\ ~sess[c].open /\ tasks[c] = <<>> => c \notin Range(Listed(n))
AgreeInv == /\ \A n \in Names : IsInjective(Listed(n))
            /\ \A c \in Clients, n \in Names : Agrees(c, n)

Written(s, m) == \E i \in DOMAIN got[s] : Copies(s, m) = {i}

\* Where a PUBLISH stands: those it has yet to write to are subscribers still, without the
\* message; the other subscribers have it once.
Delivering(c) ==
    /\ IsInjective(push[c])
    /\ Range(push[c]) \subseteq audience[c]
    /\ audience[c] = Registered(Head(tasks[c])[2])
    /\ \A s \in Clients :
          IF s \in audience[c] \ Range(push[c])
          THEN Written(s, Message(c)) \/ (Copies(s, Message(c)) = {} /\ ~sess[s].open)
          ELSE Copies(s, Message(c)) = {}
PushInv == \A c \in readers : Delivering(c)

\* The message that client c sent in its n-th command with l tasks left is not one that a
\* PUBLISH it has yet to make would send.
Spent(c, n, l) ==
    /\ n <= calls[c]
    /\ n = calls[c] => \A j \in DOMAIN tasks[c] : tasks[c][j][1] = "publish" =>
                          l > Len(tasks[c]) - j + 1 \/ (j = 1 /\ c \in readers)
FreshInv == \A s \in Clients : \A i \in DOMAIN got[s] : Spent(got[s][i][1], got[s][i][2], got[s][i][3])

PubSubInv == TypeInv /\ LockInv /\ HoldInv /\ AgreeInv /\ PushInv /\ FreshInv

-----------------------------------------------------------------------------
(* Loops.  A loop over a slice is a function on 0 .. n: what it has built  *)
(* after each turn.                                                        *)

\* A set of numbers has a least one.
LEMMA Least == ASSUME NEW T \in SUBSET Nat, T # {} PROVE \E n \in T : \A m \in T : n <= m
<1> DEFINE R == OpToRel(<, Nat)
<1>1. IsWellFoundedOn(R, Nat)
  BY NatLessThanWellFounded, Zenon
<1>2. \A i, j \in Nat : i < j => <<i, j>> \in R
  BY Zenon DEF OpToRel
<1> HIDE DEF R
<1>3. PICK x \in T : \A y \in T : ~ (<<y, x>> \in R)
  BY <1>1, WFMin, Zenon
<1>4. ASSUME NEW y \in T PROVE x <= y
  <2>1. x \in Nat /\ y \in Nat
    BY Zenon
  <2>2. ~(y < x)
    BY <1>2, <1>3, <2>1, Zenon
  <2> QED
    BY <2>1, <2>2
<1> QED
  BY <1>4, Zenon

\* What holds before the first turn and is kept by every turn holds after the last.
LEMMA Turns ==
  ASSUME NEW n \in Nat, NEW A \in SUBSET (0 .. n), 0 \in A, \A i \in 1 .. n : i - 1 \in A => i \in A
  PROVE  \A i \in 0 .. n : i \in A
<1> SUFFICES ASSUME {i \in 0 .. n : i \notin A} # {} PROVE FALSE
  BY Zenon
<1> DEFINE T == {i \in 0 .. n : i \notin A}
<1>0. T \in SUBSET Nat /\ T # {}
  OBVIOUS
<1>1. PICK i \in T : \A j \in T : i <= j
  <2> HIDE DEF T
  <2> QED
    BY <1>0, Least, Zenon
<1>2. i \in 1 .. n /\ i - 1 \in 0 .. n /\ i - 1 \notin T
  BY <1>1
<1> QED
  BY <1>1, <1>2, Zenon

\* Turn i makes step[<<i, x>>] of the x that the turns before it have made.
IsStep(step, n, S) == step \in [(1 .. n) \X S -> S]
IsLoop(f, n, S, x0, step) ==
    f \in [0 .. n -> S] /\ f[0] = x0 /\ \A i \in 1 .. n : f[i] = step[<<i, f[i - 1]>>]

\* A loop has a result.
LEMMA LoopRuns ==
  ASSUME NEW n \in Nat, NEW S, NEW x0 \in S, NEW step, IsStep(step, n, S)
  PROVE  \E f : IsLoop(f, n, S, x0, step)
<1> DEFINE Runs(m) == \E f \in [0 .. m -> S] : f[0] = x0 /\ \A i \in 1 .. m : f[i] = step[<<i, f[i - 1]>>]
           A == {m \in 0 .. n : Runs(m)}
<1>0. step \in [(1 .. n) \X S -> S]
  BY Zenon DEF IsStep
<1>1. 0 \in A
  <2> DEFINE h == [i \in 0 .. 0 |-> x0]
  <2>1. h \in [0 .. 0 -> S] /\ h[0] = x0 /\ \A i \in 1 .. 0 : FALSE
    OBVIOUS
  <2> HIDE DEF h
  <2>2. Runs(0)
    BY <2>1, Zenon
  <2> HIDE DEF Runs
  <2> QED
    BY <2>2
<1>2. ASSUME NEW m \in 1 .. n, m - 1 \in A PROVE m \in A
  <2>1. PICK g \in [0 .. m - 1 -> S] : g[0] = x0 /\ \A i \in 1 .. m - 1 : g[i] = step[<<i, g[i - 1]>>]
    BY <1>2, Zenon
  <2>2. g[m - 1] \in S /\ step[<<m, g[m - 1]>>] \in S
    BY <1>0, <2>1
  <2> DEFINE f == [i \in 0 .. m |-> IF i = m THEN step[<<m, g[m - 1]>>] ELSE g[i]]
  <2>3. f \in [0 .. m -> S]
    BY <2>1, <2>2
  <2>4. f[0] = x0
    BY <2>1
  <2>5. ASSUME NEW i \in 1 .. m PROVE f[i] = step[<<i, f[i - 1]>>]
    <3>1. i - 1 \in 0 .. m - 1 /\ f[i - 1] = g[i - 1]
      OBVIOUS
    <3>2. CASE i = m
      <4>1. f[m] = step[<<m, g[m - 1]>>]
        OBVIOUS
      <4> HIDE DEF f
      <4> QED
        BY <3>1, <3>2, <4>1, Zenon
    <3>3. CASE i # m
      <4>1. i \in 1 .. m - 1 /\ f[i] = g[i]
        BY <3>3
      <4> QED
        BY <2>1, <3>1, <4>1, Zenon
    <3> QED
      BY <3>2, <3>3, Zenon
  <2> HIDE DEF f
  <2>6. Runs(m)
    BY <2>3, <2>4, <2>5, Zenon
  <2> QED
    BY <2>6
<1> HIDE DEF A
<1>3. A \in SUBSET (0 .. n)
  BY Zenon DEF A
<1>4. \A i \in 0 .. n : i \in A
  BY <1>1, <1>2, <1>3, Turns, Zenon
<1> QED
  BY <1>4 DEF A, IsLoop

Copying(f, S, subs, c) ==
    /\ f \in [0 .. Len(subs) -> Seq(S)]
    /\ f[0] = <<>>
    /\ \A i \in 1 .. Len(subs) : f[i] = IF subs[i] # c THEN Append(f[i - 1], subs[i]) ELSE f[i - 1]

\* The loop of removeSession, turn by turn.
LEMMA RemoveLoop ==
  ASSUME NEW S, NEW subs \in Seq(S), NEW c
  PROVE  \E f : Copying(f, S, subs, c) /\ removeSession(subs, c) = f[Len(subs)]
<1> DEFINE n == Len(subs)
           Q == Seq(S)
           e == <<>>
           Add(i, x) == IF subs[i] # c THEN Append(x, subs[i]) ELSE x
           Turn(g) == [i \in 0 .. n |-> IF i = 0 THEN e ELSE Add(i, g[i - 1])]
           out == CHOOSE g : g = Turn(g)
           step == [p \in (1 .. n) \X Q |-> Add(p[1], p[2])]
<1>1. n \in Nat /\ e \in Q
  OBVIOUS
<1>2. removeSession(subs, c) = out[n]
  BY Zenon DEF removeSession
<1>3. \A i \in 1 .. n, x \in Q : Add(i, x) \in Q
  OBVIOUS
<1> HIDE DEF Add, Q, n, e
<1>4. step \in [(1 .. n) \X Q -> Q] /\ \A i \in 1 .. n, x \in Q : step[<<i, x>>] = Add(i, x)
  BY <1>3, Zenon
<1> HIDE DEF step
<1>a. PICK f : IsLoop(f, n, Q, e, step)
  <2>1. IsStep(step, n, Q)
    BY <1>4, Zenon DEF IsStep
  <2> QED
    BY <1>1, <2>1, LoopRuns, Zenon
<1>5. f \in [0 .. n -> Q] /\ f[0] = e /\ \A i \in 1 .. n : f[i] = step[<<i, f[i - 1]>>]
  BY <1>a, Zenon DEF IsLoop
<1>6. f = Turn(f)
  <2>1. \A i \in 1 .. n : i - 1 \in 0 .. n
    BY <1>1
  <2>2. \A i \in 1 .. n : f[i] = Add(i, f[i - 1])
    BY <1>4, <1>5, <2>1, Zenon
  <2>3. \A i \in 0 .. n : f[i] = IF i = 0 THEN e ELSE Add(i, f[i - 1])
    BY <1>1, <1>5, <2>2
  <2> QED
    BY <1>5, <2>3, Zenon
<1>7. out = Turn(out)
  BY <1>6, Zenon
<1> HIDE DEF out
<1>8. out[0] = e /\ \A i \in 1 .. n : out[i] = Add(i, out[i - 1])
  <2>1. \A i \in 0 .. n : out[i] = IF i = 0 THEN e ELSE Add(i, out[i - 1])
    BY <1>7, Zenon
  <2> QED
    BY <1>1, <2>1
<1>9. \A i \in 0 .. n : out[i] \in Q
  <2> DEFINE A == {i \in 0 .. n : out[i] \in Q}
  <2>1. 0 \in A /\ \A i \in 1 .. n : i - 1 \in A => i \in A
    BY <1>1, <1>3, <1>8
  <2>2. A \in SUBSET (0 .. n)
    BY Zenon
  <2> HIDE DEF A
  <2>3. \A i \in 0 .. n : i \in A
    BY <1>1, <2>1, <2>2, Turns, Zenon
  <2> QED
    BY <2>3, Zenon DEF A
<1>10. out \in [0 .. n -> Q]
  <2>1. DOMAIN out = 0 .. n /\ out = [i \in DOMAIN out |-> out[i]]
    BY <1>7, Zenon
  <2> QED
    BY <1>9, <2>1, Zenon
<1> QED
  BY <1>2, <1>8, <1>10, Zenon DEF n, Q, e, Add, Copying

\* The elements that a loop over s has come to by turn i.
Upto(s, i) == {s[j] : j \in 1 .. i}

\* Each turn comes to one element more.
LEMMA UptoTurn ==
  ASSUME NEW s
  PROVE  /\ Upto(s, 0) = {}
         /\ \A i \in Nat \ {0} : Upto(s, i) = Upto(s, i - 1) \cup {s[i]}
BY DEF Upto

\* In a list without repetitions each turn comes to an element that is new.
LEMMA UptoNew ==
  ASSUME NEW s, IsInjective(s), NEW n \in Nat, DOMAIN s = 1 .. n, NEW i \in 1 .. n
  PROVE  s[i] \notin Upto(s, i - 1)
<1>1. ASSUME NEW j \in 1 .. (i - 1) PROVE s[j] # s[i]
  <2>1. j \in DOMAIN s /\ i \in DOMAIN s /\ j # i
    OBVIOUS
  <2> QED
    BY <2>1, Zenon DEF IsInjective
<1> QED
  BY <1>1, Zenon DEF Upto

\* After the last turn the loop has come to every element.
LEMMA UptoEnd == ASSUME NEW S, NEW s \in Seq(S) PROVE Range(s) = Upto(s, Len(s))
BY DEF Upto, Range

\* What is in a list once x is appended.
LEMMA RangeAppend ==
  ASSUME NEW S, NEW s \in Seq(S), NEW x \in S
  PROVE  Range(Append(s, x)) = Range(s) \cup {x}
<1> DEFINE n == Len(s)
           u == Append(s, x)
<1>1. n \in Nat /\ DOMAIN s = 1 .. n /\ DOMAIN u = 1 .. n + 1 /\ u[n + 1] = x
  OBVIOUS
<1>2. \A i \in 1 .. n : u[i] = s[i]
  OBVIOUS
<1> HIDE DEF n, u
<1>3. 1 .. n + 1 = (1 .. n) \cup {n + 1}
  BY <1>1
<1>4. Range(u) = {u[i] : i \in (1 .. n) \cup {n + 1}} /\ Range(s) = {s[i] : i \in 1 .. n}
  BY <1>1, <1>3, Zenon DEF Range
<1> QED
  BY <1>1, <1>2, <1>4, Zenon DEF u

\* Appending what is not there repeats nothing.
LEMMA InjectiveAppend ==
  ASSUME NEW S, NEW s \in Seq(S), NEW x \in S, IsInjective(s), x \notin Range(s)
  PROVE  IsInjective(Append(s, x))
BY DEF Range, IsInjective

\* The empty list has no elements.
LEMMA EmptyList == Range(<<>>) = {} /\ IsInjective(<<>>)
BY DEF Range, IsInjective

\* removeSession keeps the other subscribers, each as often as it was there.
LEMMA RemoveSession ==
  ASSUME NEW S, NEW subs \in Seq(S), NEW c
  PROVE  /\ removeSession(subs, c) \in Seq(S)
         /\ Range(removeSession(subs, c)) = Range(subs) \ {c}
         /\ IsInjective(subs) => IsInjective(removeSession(subs, c))
<1> DEFINE n == Len(subs)
<1>a. PICK f : Copying(f, S, subs, c) /\ removeSession(subs, c) = f[n]
  BY RemoveLoop, Zenon
<1>1. /\ \A i \in 0 .. n : f[i] \in Seq(S)
      /\ f[0] = <<>>
      /\ \A i \in 1 .. n : f[i] = IF subs[i] # c THEN Append(f[i - 1], subs[i]) ELSE f[i - 1]
  BY <1>a, Zenon DEF Copying
<1>2. n \in Nat /\ DOMAIN subs = 1 .. n /\ \A i \in 1 .. n : subs[i] \in S /\ i - 1 \in 0 .. n
  OBVIOUS
<1> DEFINE A == {i \in 0 .. n : Range(f[i]) = Upto(subs, i) \ {c}}
           B == {i \in 0 .. n : IsInjective(f[i])}
<1>b. A \in SUBSET (0 .. n) /\ B \in SUBSET (0 .. n)
  BY Zenon
<1>e. Range(subs) = Upto(subs, n)
  BY UptoEnd, Zenon
<1> HIDE DEF n
<1>3. \A i \in 0 .. n : i \in A
  <2>1. 0 \in A
    BY <1>1, <1>2, UptoTurn, EmptyList
  <2>2. ASSUME NEW i \in 1 .. n, i - 1 \in A PROVE i \in A
    <3>1. /\ f[i - 1] \in Seq(S) /\ subs[i] \in S /\ i \in Nat \ {0}
          /\ Range(f[i - 1]) = Upto(subs, i - 1) \ {c}
      BY <1>1, <1>2, <2>2
    <3>2. Upto(subs, i) = Upto(subs, i - 1) \cup {subs[i]}
      BY <3>1, UptoTurn, Zenon
    <3>3. CASE subs[i] # c
      <4>1. f[i] = Append(f[i - 1], subs[i])
        BY <1>1, <3>3, Zenon
      <4>2. Range(f[i]) = Range(f[i - 1]) \cup {subs[i]}
        BY <3>1, <4>1, RangeAppend
      <4> QED
        BY <3>1, <3>2, <3>3, <4>2
    <3>4. CASE subs[i] = c
      BY <1>1, <3>1, <3>2, <3>4
    <3> QED
      BY <3>3, <3>4, Zenon
  <2> HIDE DEF A
  <2> QED
    BY <1>2, <1>b, <2>1, <2>2, Turns, Zenon
<1>5. ASSUME IsInjective(subs) PROVE \A i \in 0 .. n : i \in B
  <2>1. 0 \in B
    BY <1>1, <1>2, EmptyList
  <2>2. ASSUME NEW i \in 1 .. n, i - 1 \in B PROVE i \in B
    <3>1. f[i - 1] \in Seq(S) /\ IsInjective(f[i - 1]) /\ subs[i] \in S
      BY <1>1, <1>2, <2>2, Zenon
    <3>2. subs[i] \notin Range(f[i - 1])
      <4>1. Range(f[i - 1]) = Upto(subs, i - 1) \ {c}
        BY <1>2, <1>3, Zenon
      <4>2. subs[i] \notin Upto(subs, i - 1)
        BY <1>2, <1>5, UptoNew, Zenon
      <4> QED
        BY <4>1, <4>2, Zenon
    <3>3. IsInjective(f[i])
      BY <1>1, <3>1, <3>2, InjectiveAppend, Zenon
    <3> QED
      BY <3>3
  <2> HIDE DEF B
  <2> QED
    BY <1>2, <1>b, <2>1, <2>2, Turns, Zenon
<1>6. n \in 0 .. n
  BY <1>2
<1>7. Range(f[n]) = Range(subs) \ {c}
  BY <1>3, <1>6, <1>e, Zenon
<1>8. IsInjective(subs) => IsInjective(f[n])
  BY <1>5, <1>6, Zenon
<1> QED
  BY <1>1, <1>6, <1>7, <1>8, <1>a, Zenon

Visiting(f, S, subs) ==
    /\ f \in [0 .. Len(subs) -> Seq(S)]
    /\ f[0] = <<>>
    /\ \A i \in 1 .. Len(subs) :
          f[i] = IF subs[i] \in Range(f[i - 1]) THEN f[i - 1] ELSE Append(f[i - 1], subs[i])

\* The loop of Publish over the sessions it comes across, turn by turn.
LEMMA UnseenLoop ==
  ASSUME NEW S, NEW subs \in Seq(S)
  PROVE  \E f : Visiting(f, S, subs) /\ Unseen(subs) = f[Len(subs)]
<1> DEFINE n == Len(subs)
           Q == Seq(S)
           e == <<>>
           Add(i, x) == IF subs[i] \in Range(x) THEN x ELSE Append(x, subs[i])
           Turn(g) == [i \in 0 .. n |-> IF i = 0 THEN e ELSE Add(i, g[i - 1])]
           out == CHOOSE g : g = Turn(g)
           step == [p \in (1 .. n) \X Q |-> Add(p[1], p[2])]
<1>1. n \in Nat /\ e \in Q
  OBVIOUS
<1>2. Unseen(subs) = out[n]
  BY Zenon DEF Unseen
<1>3. \A i \in 1 .. n, x \in Q : Add(i, x) \in Q
  OBVIOUS
<1> HIDE DEF Add, Q, n, e
<1>4. step \in [(1 .. n) \X Q -> Q] /\ \A i \in 1 .. n, x \in Q : step[<<i, x>>] = Add(i, x)
  BY <1>3, Zenon
<1> HIDE DEF step
<1>a. PICK f : IsLoop(f, n, Q, e, step)
  <2>1. IsStep(step, n, Q)
    BY <1>4, Zenon DEF IsStep
  <2> QED
    BY <1>1, <2>1, LoopRuns, Zenon
<1>5. f \in [0 .. n -> Q] /\ f[0] = e /\ \A i \in 1 .. n : f[i] = step[<<i, f[i - 1]>>]
  BY <1>a, Zenon DEF IsLoop
<1>6. f = Turn(f)
  <2>1. \A i \in 1 .. n : i - 1 \in 0 .. n
    BY <1>1
  <2>2. \A i \in 1 .. n : f[i] = Add(i, f[i - 1])
    BY <1>4, <1>5, <2>1, Zenon
  <2>3. \A i \in 0 .. n : f[i] = IF i = 0 THEN e ELSE Add(i, f[i - 1])
    BY <1>1, <1>5, <2>2
  <2> QED
    BY <1>5, <2>3, Zenon
<1>7. out = Turn(out)
  BY <1>6, Zenon
<1> HIDE DEF out
<1>8. out[0] = e /\ \A i \in 1 .. n : out[i] = Add(i, out[i - 1])
  <2>1. \A i \in 0 .. n : out[i] = IF i = 0 THEN e ELSE Add(i, out[i - 1])
    BY <1>7, Zenon
  <2> QED
    BY <1>1, <2>1
<1>9. \A i \in 0 .. n : out[i] \in Q
  <2> DEFINE A == {i \in 0 .. n : out[i] \in Q}
  <2>1. 0 \in A /\ \A i \in 1 .. n : i - 1 \in A => i \in A
    BY <1>1, <1>3, <1>8
  <2>2. A \in SUBSET (0 .. n)
    BY Zenon
  <2> HIDE DEF A
  <2>3. \A i \in 0 .. n : i \in A
    BY <1>1, <2>1, <2>2, Turns, Zenon
  <2> QED
    BY <2>3, Zenon DEF A
<1>10. out \in [0 .. n -> Q]
  <2>1. DOMAIN out = 0 .. n /\ out = [i \in DOMAIN out |-> out[i]]
    BY <1>7, Zenon
  <2> QED
    BY <1>9, <2>1, Zenon
<1> QED
  BY <1>2, <1>8, <1>10, Zenon DEF n, Q, e, Add, Visiting

\* The sessions Publish writes to are those it comes across, each once.
LEMMA UnseenOnce ==
  ASSUME NEW S, NEW subs \in Seq(S)
  PROVE  /\ Unseen(subs) \in Seq(S)
         /\ Range(Unseen(subs)) = Range(subs)
         /\ IsInjective(Unseen(subs))
<1> DEFINE n == Len(subs)
<1>a. PICK f : Visiting(f, S, subs) /\ Unseen(subs) = f[n]
  BY UnseenLoop, Zenon
<1>1. /\ \A i \in 0 .. n : f[i] \in Seq(S)
      /\ f[0] = <<>>
      /\ \A i \in 1 .. n : f[i] = IF subs[i] \in Range(f[i - 1]) THEN f[i - 1] ELSE Append(f[i - 1], subs[i])
  BY <1>a, Zenon DEF Visiting
<1>2. n \in Nat /\ \A i \in 1 .. n : subs[i] \in S /\ i - 1 \in 0 .. n
  OBVIOUS
<1> DEFINE A == {i \in 0 .. n : Range(f[i]) = Upto(subs, i) /\ IsInjective(f[i])}
<1>b. A \in SUBSET (0 .. n)
  BY Zenon
<1>e. Range(subs) = Upto(subs, n)
  BY UptoEnd, Zenon
<1> HIDE DEF n
<1>3. 0 \in A
  <2>1. 0 \in 0 .. n /\ Range(f[0]) = Upto(subs, 0) /\ IsInjective(f[0])
    <3>1. 0 \in 0 .. n
      BY <1>2
    <3>2. f[0] = <<>> /\ Upto(subs, 0) = {}
      BY <1>1, UptoTurn, Zenon
    <3> QED
      BY <3>1, <3>2, EmptyList, Zenon
  <2> QED
    BY <2>1, Zenon
<1>4. ASSUME NEW i \in 1 .. n, i - 1 \in A PROVE i \in A
  <2>1. /\ f[i - 1] \in Seq(S) /\ subs[i] \in S /\ i \in Nat \ {0}
        /\ Range(f[i - 1]) = Upto(subs, i - 1) /\ IsInjective(f[i - 1])
    BY <1>1, <1>2, <1>4
  <2>2. Upto(subs, i) = Upto(subs, i - 1) \cup {subs[i]}
    BY <2>1, UptoTurn, Zenon
  <2>3. Range(f[i]) = Upto(subs, i) /\ IsInjective(f[i])
    <3>1. CASE subs[i] \in Range(f[i - 1])
      BY <1>1, <2>1, <2>2, <3>1, Zenon
    <3>2. CASE subs[i] \notin Range(f[i - 1])
      <4>1. f[i] = Append(f[i - 1], subs[i])
        BY <1>1, <3>2, Zenon
      <4> QED
        BY <2>1, <2>2, <3>2, <4>1, RangeAppend, InjectiveAppend
    <3> QED
      BY <3>1, <3>2, Zenon
  <2>4. i \in 0 .. n
    BY <1>2
  <2> QED
    BY <2>3, <2>4, Zenon
<1>5. n \in A
  <2> HIDE DEF A
  <2>1. \A i \in 0 .. n : i \in A
    BY <1>2, <1>3, <1>4, <1>b, Turns, Zenon
  <2> QED
    BY <1>2, <2>1
<1> QED
  BY <1>1, <1>5, <1>a, <1>e, Zenon

\* Putting lists one after another gives a list of all their elements.
LEMMA Flattened ==
  ASSUME NEW S, NEW ss \in Seq(Seq(S))
  PROVE  /\ Concat(ss) \in Seq(S)
         /\ \A x : x \in Range(Concat(ss)) <=> \E i \in DOMAIN ss : x \in Range(ss[i])
<1> DEFINE n == Len(ss)
           Q == Seq(S)
           e == <<>>
           Add(i, x) == x \o ss[i]
           Turn(g) == [i \in 0 .. n |-> IF i = 0 THEN e ELSE Add(i, g[i - 1])]
           out == CHOOSE g : g = Turn(g)
           step == [p \in (1 .. n) \X Q |-> Add(p[1], p[2])]
<1>1. n \in Nat /\ DOMAIN ss = 1 .. n /\ \A i \in 1 .. n : ss[i] \in Q
  OBVIOUS
<1>2. Concat(ss) = out[n]
  BY Zenon DEF Concat
<1>3. e \in Q /\ \A i \in 1 .. n, x \in Q : Add(i, x) \in Q
  OBVIOUS
<1>4. e \in Seq(S) /\ Range(e) = {}
  BY EmptyList
<1> HIDE DEF Add, Q, n, e
<1>5. step \in [(1 .. n) \X Q -> Q] /\ \A i \in 1 .. n, x \in Q : step[<<i, x>>] = Add(i, x)
  BY <1>3, Zenon
<1> HIDE DEF step
<1>6. PICK f : IsLoop(f, n, Q, e, step)
  <2>1. IsStep(step, n, Q)
    BY <1>5, Zenon DEF IsStep
  <2> QED
    BY <1>1, <1>3, <2>1, LoopRuns, Zenon
<1>7. f \in [0 .. n -> Q] /\ f[0] = e /\ \A i \in 1 .. n : f[i] = step[<<i, f[i - 1]>>]
  BY <1>6, Zenon DEF IsLoop
<1>8. f = Turn(f)
  <2>1. \A i \in 1 .. n : i - 1 \in 0 .. n
    BY <1>1
  <2>2. \A i \in 1 .. n : f[i] = Add(i, f[i - 1])
    BY <1>5, <1>7, <2>1, Zenon
  <2>3. \A i \in 0 .. n : f[i] = IF i = 0 THEN e ELSE Add(i, f[i - 1])
    BY <1>1, <1>7, <2>2
  <2> QED
    BY <1>7, <2>3, Zenon
<1>9. out = Turn(out)
  BY <1>8, Zenon
<1> HIDE DEF out
<1>10. out[0] = e /\ \A i \in 1 .. n : i - 1 \in 0 .. n /\ out[i] = Add(i, out[i - 1])
  <2>1. \A i \in 0 .. n : out[i] = IF i = 0 THEN e ELSE Add(i, out[i - 1])
    BY <1>9, Zenon
  <2> QED
    BY <1>1, <2>1
<1> DEFINE Has(i) == /\ out[i] \in Q
                     /\ \A x : x \in Range(out[i]) <=> \E j \in 1 .. i : x \in Range(ss[j])
           A == {i \in 0 .. n : Has(i)}
<1>11. Has(0)
  BY <1>4, <1>10 DEF Q
<1>12. ASSUME NEW i \in 1 .. n, Has(i - 1) PROVE Has(i)
  <2>1. out[i - 1] \in Seq(S) /\ ss[i] \in Seq(S) /\ out[i] = out[i - 1] \o ss[i]
    BY <1>1, <1>10, <1>12, Zenon DEF Q, Add
  <2>2. out[i - 1] \o ss[i] \in Seq(S)
    BY <2>1
  <2>3. Range(out[i - 1] \o ss[i]) = Range(out[i - 1]) \cup Range(ss[i])
    BY <2>1, RangeConcatenation
  <2>4. 1 .. i = (1 .. i - 1) \cup {i}
    OBVIOUS
  <2> QED
    BY <1>12, <2>1, <2>2, <2>3, <2>4, Zenon DEF Q
<1> HIDE DEF Has
<1>13. 0 \in A /\ \A i \in 1 .. n : i - 1 \in A => i \in A
  BY <1>1, <1>11, <1>12
<1>14. A \in SUBSET (0 .. n)
  BY Zenon
<1>15. n \in A
  <2> HIDE DEF A
  <2>1. \A i \in 0 .. n : i \in A
    BY <1>1, <1>13, <1>14, Turns, Zenon
  <2> QED
    BY <1>1, <2>1
<1> QED
  BY <1>1, <1>2, <1>15, Zenon DEF Has, Q

-----------------------------------------------------------------------------
\* Subscribe adds the session to the list unless it is there.
LEMMA Subscribed ==
  ASSUME NEW subs \in Seq(Clients), NEW c \in Clients, IsInjective(subs)
  PROVE  /\ Subscribe(subs, c) \in Seq(Clients)
         /\ Range(Subscribe(subs, c)) = Range(subs) \cup {c}
         /\ IsInjective(Subscribe(subs, c))
<1>1. CASE c \in Range(subs)
  BY <1>1, Zenon DEF Subscribe
<1>2. CASE c \notin Range(subs)
  BY <1>2, RangeAppend, InjectiveAppend DEF Subscribe
<1> QED
  BY <1>1, <1>2, Zenon

\* What is left of a list without repetitions when its head is taken.
LEMMA Popped ==
  ASSUME NEW S, NEW s \in Seq(S), s # <<>>, IsInjective(s)
  PROVE  /\ Tail(s) \in Seq(S) /\ IsInjective(Tail(s))
         /\ Head(s) \in Range(s) /\ Head(s) \in S
         /\ Range(Tail(s)) = Range(s) \ {Head(s)}
<1> DEFINE n == Len(s)
           u == Tail(s)
<1>1. /\ n \in Nat \ {0} /\ DOMAIN s = 1 .. n /\ DOMAIN u = 1 .. n - 1 /\ Head(s) = s[1]
      /\ u \in Seq(S) /\ \A i \in 1 .. n - 1 : u[i] = s[i + 1]
      /\ \A i \in 1 .. n : s[i] \in S
  OBVIOUS
<1> HIDE DEF n, u
<1>2. Head(s) \in Range(s) /\ Head(s) \in S
  BY <1>1 DEF Range
<1>3. \A i, j \in 1 .. n : s[i] = s[j] => i = j
  BY <1>1, Zenon DEF IsInjective
<1>4. IsInjective(u)
  BY <1>1, <1>3 DEF IsInjective
<1>5. Range(u) \subseteq Range(s) \ {Head(s)}
  BY <1>1, <1>3, SMTT(30) DEF Range
<1>6. Range(s) \ {Head(s)} \subseteq Range(u)
  <2> SUFFICES ASSUME NEW i \in 1 .. n, s[i] # s[1] PROVE s[i] \in Range(u)
    BY <1>1 DEF Range
  <2>1. i - 1 \in 1 .. n - 1 /\ u[i - 1] = s[i]
    BY <1>1
  <2> QED
    BY <2>1, <1>1, Zenon DEF Range
<1> QED
  BY <1>1, <1>2, <1>4, <1>5, <1>6, Zenon DEF u

\* The tasks of a command.
LEMMA TasksTyped == ASSUME NEW cmd \in PlainCommands PROVE TasksOf(cmd) \in Seq(OpenTasks)
<1>1. ASSUME NEW names \in Seq(Names), NEW kind \in {"join", "part", "drop"}
      PROVE  [i \in DOMAIN names |-> <<kind, names[i]>>] \in Seq(OpenTasks)
  <2>1. \A i \in 1 .. Len(names) : names[i] \in Names
    OBVIOUS
  <2>2. \A n \in Names : <<kind, n>> \in OpenTasks
    BY Zenon DEF OpenTasks
  <2>3. \A i \in 1 .. Len(names) : <<kind, names[i]>> \in OpenTasks
    BY <2>1, <2>2, Zenon
  <2> QED
    BY <2>3
<1>2. CASE cmd \in {"subscribe", "unsubscribe"} \X Seq(Names)
  <2>1. cmd[2] \in Seq(Names) /\ cmd[1] \in {"subscribe", "unsubscribe"}
    BY <1>2, Zenon
  <2>2. CASE cmd[1] = "subscribe"
    BY <1>1, <2>1, <2>2, Zenon DEF TasksOf, cmdSubscribe
  <2>3. CASE cmd[1] = "unsubscribe" /\ cmd[2] # <<>>
    BY <1>1, <2>1, <2>3, Zenon DEF TasksOf, cmdUnsubscribe
  <2>4. CASE cmd[1] = "unsubscribe" /\ cmd[2] = <<>>
    BY <2>4 DEF TasksOf, OpenTasks
  <2> QED
    BY <2>1, <2>2, <2>3, <2>4, Zenon
<1>3. CASE cmd = <<"punsubscribe">>
  BY <1>3 DEF TasksOf, OpenTasks
<1>4. CASE cmd \in {"publish"} \X Channels
  BY <1>4 DEF TasksOf, OpenTasks
<1> QED
  BY <1>2, <1>3, <1>4, Zenon DEF PlainCommands

\* The tasks of an EXEC.
LEMMA QueueTyped ==
  ASSUME NEW queue \in Seq(PlainCommands)
  PROVE  Concat([i \in DOMAIN queue |-> TasksOf(queue[i])]) \in Seq(OpenTasks)
<1>1. [i \in DOMAIN queue |-> TasksOf(queue[i])] \in Seq(Seq(OpenTasks))
  <2>1. \A i \in 1 .. Len(queue) : TasksOf(queue[i]) \in Seq(OpenTasks)
    BY TasksTyped
  <2> QED
    BY <2>1
<1> QED
  BY <1>1, Flattened, Zenon

\* Where a list stands that one entry of the registry may change.
LEMMA Entered ==
  ASSUME TypeInv, \A n \in Names : IsInjective(Listed(n)),
         NEW c \in Clients, NEW t \in Tasks, Enter(c, t)
  PROVE  /\ chans' \in [Channels -> Seq(Clients)]
         /\ psubs' \in [Patterns -> Seq(Clients)]
         /\ \A n \in Names :
               /\ IsInjective(Listed(n)')
               /\ Range(Listed(n)') = IF t[1] = "join" /\ t[2] = n THEN Range(Listed(n)) \cup {c}
                                      ELSE IF t[1] = "leave" \/ (t[1] \in {"part", "drop"} /\ t[2] = n)
                                      THEN Range(Listed(n)) \ {c}
                                      ELSE Range(Listed(n))
<1> DEFINE Into(l, k) == /\ k \in Seq(Clients) /\ IsInjective(k) /\ Range(k) = Range(l) \cup {c}
           Outof(l, k) == /\ k \in Seq(Clients) /\ IsInjective(k) /\ Range(k) = Range(l) \ {c}
           Same(l, k) == k = l
<1>1. /\ chans \in [Channels -> Seq(Clients)] /\ psubs \in [Patterns -> Seq(Clients)]
      /\ \A ch \in Channels : IsInjective(chans[ch])
      /\ \A pat \in Patterns : IsInjective(psubs[pat])
      /\ \A pat \in Patterns : pat \notin Channels
  BY NamesFinite, Zenon DEF TypeInv, Listed, Names
<1>2. \A l \in Seq(Clients) : IsInjective(l) => Into(l, Subscribe(l, c)) /\ Outof(l, removeSession(l, c))
  BY Subscribed, RemoveSession, Zenon
<1>3. CASE t[1] = "join" /\ t[2] \in Channels /\ chans' = [chans EXCEPT ![t[2]] = Subscribe(@, c)]
           /\ UNCHANGED psubs
  <2> DEFINE l == Subscribe(chans[t[2]], c)
  <2>1. Into(chans[t[2]], l)
    BY <1>1, <1>2, <1>3, Zenon
  <2>2. chans' = [chans EXCEPT ![t[2]] = l] /\ psubs' = psubs
    BY <1>3, Zenon
  <2> HIDE DEF l
  <2> QED
    BY <1>1, <1>3, <2>1, <2>2, Zenon DEF Listed, Names
<1>4. CASE t[1] = "join" /\ t[2] \in Patterns /\ psubs' = [psubs EXCEPT ![t[2]] = Subscribe(@, c)]
           /\ UNCHANGED chans
  <2> DEFINE l == Subscribe(psubs[t[2]], c)
  <2>1. Into(psubs[t[2]], l)
    BY <1>1, <1>2, <1>4, Zenon
  <2>2. psubs' = [psubs EXCEPT ![t[2]] = l] /\ chans' = chans
    BY <1>4, Zenon
  <2> HIDE DEF l
  <2> QED
    BY <1>1, <1>4, <2>1, <2>2, Zenon DEF Listed, Names
<1>5. CASE t[1] \in {"part", "drop"} /\ t[2] \in Channels
           /\ chans' = [chans EXCEPT ![t[2]] = removeSession(@, c)] /\ UNCHANGED psubs
  <2> DEFINE l == removeSession(chans[t[2]], c)
  <2>1. Outof(chans[t[2]], l)
    BY <1>1, <1>2, <1>5, Zenon
  <2>2. chans' = [chans EXCEPT ![t[2]] = l] /\ psubs' = psubs
    BY <1>5, Zenon
  <2> HIDE DEF l
  <2> QED
    BY <1>1, <1>5, <2>1, <2>2, Zenon DEF Listed, Names
<1>6. CASE t[1] \in {"part", "drop"} /\ t[2] \in Patterns
           /\ psubs' = [psubs EXCEPT ![t[2]] = removeSession(@, c)] /\ UNCHANGED chans
  <2> DEFINE l == removeSession(psubs[t[2]], c)
  <2>1. Outof(psubs[t[2]], l)
    BY <1>1, <1>2, <1>6, Zenon
  <2>2. psubs' = [psubs EXCEPT ![t[2]] = l] /\ chans' = chans
    BY <1>6, Zenon
  <2> HIDE DEF l
  <2> QED
    BY <1>1, <1>6, <2>1, <2>2, Zenon DEF Listed, Names
<1>7. CASE t[1] = "leave" /\ RemoveSessionFromAll(c)
  <2>1. /\ \A ch \in Channels : Outof(chans[ch], chans'[ch])
        /\ \A pat \in Patterns : Outof(psubs[pat], psubs'[pat])
    BY <1>1, <1>2, <1>7, Zenon DEF RemoveSessionFromAll
  <2>2. chans' \in [Channels -> Seq(Clients)] /\ psubs' \in [Patterns -> Seq(Clients)]
    BY <1>7, <2>1, Zenon DEF RemoveSessionFromAll
  <2> QED
    BY <1>1, <1>7, <2>1, <2>2, Zenon DEF Listed, Names
<1> QED
  BY <1>3, <1>4, <1>5, <1>6, <1>7, Zenon DEF Enter

\* What a session notes when it joins and when it parts.
LEMMA Noting ==
  ASSUME TypeInv, NEW c \in Clients, NEW n \in Names
  PROVE  /\ \A new \in {Joined(c, n), Parted(c, n)} :
               /\ new \in [Clients -> Sessions]
               /\ \A d \in Clients : new[d].open = sess[d].open
               /\ \A d \in Clients \ {c} : new[d] = sess[d]
         /\ Joined(c, n)[c].SubChannels \cup Joined(c, n)[c].PSubPatterns = Noted(c) \cup {n}
         /\ Parted(c, n)[c].SubChannels \cup Parted(c, n)[c].PSubPatterns = Noted(c) \ {n}
<1> DEFINE s == sess[c]
           jc == [s EXCEPT !.SubChannels = @ \cup {n}]
           jp == [s EXCEPT !.PSubPatterns = @ \cup {n}]
           pt == [s EXCEPT !.SubChannels = @ \ {n}, !.PSubPatterns = @ \ {n}]
<1>1. sess \in [Clients -> Sessions] /\ s \in Sessions
  BY Zenon DEF TypeInv
<1>2. /\ n \in Channels => Joined(c, n) = [sess EXCEPT ![c] = jc]
      /\ n \notin Channels => Joined(c, n) = [sess EXCEPT ![c] = jp] /\ n \in Patterns
      /\ Parted(c, n) = [sess EXCEPT ![c] = pt]
  BY <1>1, Zenon DEF Joined, Parted, Names
<1>3. /\ n \in Channels => jc \in Sessions
      /\ n \in Patterns => jp \in Sessions
      /\ pt \in Sessions
      /\ jc.open = s.open /\ jp.open = s.open /\ pt.open = s.open
      /\ jc.SubChannels \cup jc.PSubPatterns = s.SubChannels \cup s.PSubPatterns \cup {n}
      /\ jp.SubChannels \cup jp.PSubPatterns = s.SubChannels \cup s.PSubPatterns \cup {n}
      /\ pt.SubChannels \cup pt.PSubPatterns = (s.SubChannels \cup s.PSubPatterns) \ {n}
  BY <1>1, Zenon DEF Sessions
<1> HIDE DEF jc, jp, pt
<1>4. \A x \in Sessions : [sess EXCEPT ![c] = x] \in [Clients -> Sessions]
  BY <1>1, Zenon
<1>5. \A x \in Sessions : /\ [sess EXCEPT ![c] = x][c] = x
                          /\ \A d \in Clients \ {c} : [sess EXCEPT ![c] = x][d] = sess[d]
  BY <1>1, Zenon
<1>6. Noted(c) = s.SubChannels \cup s.PSubPatterns
  BY Zenon DEF Noted
<1>7. CASE n \in Channels
  BY <1>2, <1>3, <1>4, <1>5, <1>6, <1>7
<1>8. CASE n \notin Channels
  BY <1>2, <1>3, <1>4, <1>5, <1>6, <1>8
<1> QED
  BY <1>7, <1>8, Zenon

\* InSomeOrder puts a finite set in some order.
LEMMA Ordered ==
  ASSUME NEW S, IsFiniteSet(S)
  PROVE  InSomeOrder(S) \in Seq(S) /\ Range(InSomeOrder(S)) = S
<1> DEFINE n == Cardinality(S)
           f == InSomeOrder(S)
<1>1. n \in Nat /\ ExistsBijection(1 .. n, S)
  BY FS_CardinalityType, Zenon
<1>2. \E g \in [1 .. n -> S] : IsInjective(g)
  BY <1>1, Zenon DEF ExistsBijection, Bijection, Injection
<1>3. f \in [1 .. n -> S] /\ IsInjective(f)
  BY <1>2, Zenon DEF InSomeOrder
<1> HIDE DEF f
<1>4. f \in Injection(1 .. n, S)
  BY <1>3, Zenon DEF Injection
<1>5. Cardinality(1 .. n) = n
  BY <1>1, FS_Interval
<1>6. f \in Surjection(1 .. n, S)
  BY <1>4, <1>5, FS_Injection, Zenon
<1>7. Range(f) = S
  BY <1>3, <1>6, Zenon DEF Surjection, Range
<1> QED
  BY <1>1, <1>3, <1>7 DEF f

\* Publish comes across the sessions that are registered, and no other.
LEMMA EncountersRegistered ==
  ASSUME TypeInv, NEW ch \in Channels
  PROVE  Encounters(ch) \in Seq(Clients) /\ Range(Encounters(ch)) = Registered(ch)
<1> DEFINE M == {pat \in Patterns : <<pat, ch>> \in Matches}
           pats == InSomeOrder(M)
           ss == [i \in DOMAIN pats |-> psubs[pats[i]]]
           l == chans[ch]
           r == Concat(ss)
<1>1. chans \in [Channels -> Seq(Clients)] /\ psubs \in [Patterns -> Seq(Clients)]
  BY Zenon DEF TypeInv
<1>2. IsFiniteSet(M)
  BY NamesFinite, FS_Subset, Zenon DEF Names
<1>3. pats \in Seq(M) /\ Range(pats) = M
  <2> HIDE DEF M
  <2> QED
    BY <1>2, Ordered, Zenon
<1>4. M \subseteq Patterns
  BY Zenon
<1> HIDE DEF M, pats
<1>5. \A i \in 1 .. Len(pats) : pats[i] \in Patterns
  BY <1>3, <1>4
<1>6. ss \in Seq(Seq(Clients)) /\ DOMAIN ss = DOMAIN pats
  BY <1>1, <1>3, <1>5
<1>7. \A i \in DOMAIN pats : ss[i] = psubs[pats[i]]
  BY Zenon
<1> HIDE DEF ss
<1>8. r \in Seq(Clients) /\ \A x : x \in Range(r) <=> \E i \in DOMAIN ss : x \in Range(ss[i])
  BY <1>6, Flattened, Zenon
<1>9. \A x : x \in Range(r) <=> \E pat \in M : x \in Range(psubs[pat])
  <2>1. \A i \in DOMAIN pats : pats[i] \in M
    BY <1>3
  <2>2. \A pat \in M : \E i \in DOMAIN pats : pats[i] = pat
    BY <1>3, Zenon DEF Range
  <2>3. \A x : x \in Range(r) => \E pat \in M : x \in Range(psubs[pat])
    BY <1>6, <1>7, <1>8, <2>1, Zenon
  <2>4. ASSUME NEW x, NEW pat \in M, x \in Range(psubs[pat]) PROVE x \in Range(r)
    <3>1. PICK i \in DOMAIN pats : pats[i] = pat
      BY <2>2, Zenon
    <3>2. i \in DOMAIN ss /\ ss[i] = psubs[pat]
      BY <1>6, <1>7, <3>1, Zenon
    <3> QED
      BY <1>8, <2>4, <3>2, Zenon
  <2> QED
    BY <2>3, <2>4, Zenon
<1>10. Encounters(ch) = l \o r
  BY Zenon DEF Encounters, l, r, ss, pats, M
<1> HIDE DEF l, r
<1>11. l \in Seq(Clients) /\ l = chans[ch]
  BY <1>1, Zenon DEF l
<1>12. Range(l \o r) = Range(l) \cup Range(r) /\ l \o r \in Seq(Clients)
  BY <1>8, <1>11, RangeConcatenation
<1>13. \A x \in Seq(Clients) : Range(x) \subseteq Clients
  BY DEF Range
<1>14. \A x : x \in Registered(ch) <=>
         x \in Clients /\ (x \in Range(chans[ch]) \/ \E pat \in M : x \in Range(psubs[pat]))
  BY Zenon DEF Registered, M
<1> QED
  BY <1>8, <1>9, <1>10, <1>11, <1>12, <1>13, <1>14, Zenon

-----------------------------------------------------------------------------
\* What the first word of a task says about the rest.
LEMMA TaskKinds ==
  /\ \A t \in Tasks : t[1] \in {"join", "part", "drop"} => t[2] \in Names /\ t \in OpenTasks
  /\ \A t \in Tasks : t[1] = "publish" => t[2] \in Channels
  /\ \A t \in Tasks : t[1] = "leave" <=> t \notin OpenTasks
  /\ OpenTasks \subseteq Tasks
<1>1. ASSUME NEW t \in {"join", "part", "drop"} \X Names
      PROVE  t[1] \in {"join", "part", "drop"} /\ t[2] \in Names /\ t \in OpenTasks
  BY Zenon DEF OpenTasks
<1>2. ASSUME NEW t \in {"publish"} \X Channels
      PROVE  t[1] = "publish" /\ t[2] \in Channels /\ t \in OpenTasks
  BY Zenon DEF OpenTasks
<1>3. ASSUME NEW t \in {<<"part all", "channels">>, <<"part all", "patterns">>}
      PROVE  t[1] = "part all" /\ t \in OpenTasks
  <2>1. CASE t = <<"part all", "channels">>
    BY <2>1, Zenon DEF OpenTasks
  <2>2. CASE t = <<"part all", "patterns">>
    BY <2>2, Zenon DEF OpenTasks
  <2> QED
    BY <2>1, <2>2, Zenon
<1>4. <<"leave">>[1] = "leave"
  BY Zenon
<1>5. \A t \in Tasks : \/ t \in {"join", "part", "drop"} \X Names
                       \/ t \in {"publish"} \X Channels
                       \/ t \in {<<"part all", "channels">>, <<"part all", "patterns">>}
                       \/ t = <<"leave">>
  BY Zenon DEF Tasks, OpenTasks
<1>6. \A t \in OpenTasks : t[1] # "leave"
  BY <1>1, <1>2, <1>3, Zenon DEF OpenTasks
<1>7. OpenTasks \subseteq Tasks
  BY Zenon DEF Tasks
<1> QED
  BY <1>1, <1>2, <1>3, <1>4, <1>5, <1>6, <1>7, Zenon

\* A command of one task.
LEMMA Single == \A x : Head(<<x>>) = x /\ Tail(<<x>>) = <<>> /\ <<x>> # <<>>
<1> TAKE x
<1>1. <<x>> \in Seq({x}) /\ Len(<<x>>) = 1 /\ <<x>>[1] = x
  OBVIOUS
<1>2. Len(Tail(<<x>>)) = 0 /\ Tail(<<x>>) \in Seq({x})
  BY <1>1
<1> QED
  BY <1>1, <1>2, EmptySeq

\* What is left of a command when its first task is done.
LEMMA Tailed == ASSUME NEW S, NEW s \in Seq(S), s # <<>>
                PROVE  /\ Tail(s) \in Seq(S) /\ Head(s) \in S /\ Len(Tail(s)) = Len(s) - 1
                       /\ DOMAIN Tail(s) = 1 .. Len(s) - 1 /\ \A i \in 1 .. Len(s) - 1 : Tail(s)[i] = s[i + 1]
OBVIOUS

\* What an UNSUBSCRIBE or PUNSUBSCRIBE without arguments parts from.
PartedAll(c) == IF Head(tasks[c])[2] = "channels" THEN sess[c].SubChannels ELSE sess[c].PSubPatterns
\* Those are names, in some order (InSomeOrder).
LEMMA PartNames == ASSUME TypeInv, NEW c \in Clients PROVE InSomeOrder(PartedAll(c)) \in Seq(Names)
<1>1. PartedAll(c) \subseteq Names
  BY Zenon DEF TypeInv, Sessions, Names, PartedAll
<1>2. IsFiniteSet(PartedAll(c))
  BY <1>1, NamesFinite, FS_Subset, Zenon
<1> QED
  BY <1>1, <1>2, Ordered

\* A session whose connection ends: nothing but leaving is left.
Gone(c) == /\ sess' = [sess EXCEPT ![c] = [sess[c] EXCEPT !.open = FALSE]]
           /\ tasks' = [tasks EXCEPT ![c] = << <<"leave">> >>]
           /\ UNCHANGED <<chans, psubs, readers, waiting, push, got, calls, audience>>
           /\ outMu' = outMu \/ outMu' = [outMu EXCEPT ![c] = FALSE]
           /\ c \notin waiting /\ c \notin readers

Ends(c) == Close(c) \/ WriteFails(c)

LEMMA EndsGone == ASSUME TypeInv, LockInv, HoldInv, NEW c \in Clients, Ends(c) PROVE Gone(c)
<1>1. CASE Close(c)
  <2>1. c \notin waiting /\ c \notin readers
    BY <1>1, Zenon DEF LockInv, Locking, At, Close
  <2> QED
    BY <1>1, <2>1, Zenon DEF Close, Gone, TypeInv, registry
<1>2. CASE WriteFails(c)
  <2>1. c \notin waiting /\ c \notin readers
    BY <1>2, Zenon DEF LockInv, Locking, At, HoldInv, Holding, WriteFails, Due
  <2> QED
    BY <1>2, <2>1, Zenon DEF WriteFails, Gone, TypeInv, registry
<1> QED
  BY <1>1, <1>2, Zenon DEF Ends

\* A step of a connection that is about nothing but reading, writing and the mutex of a session.
Goes(c) == Unlock(c) \/ Acknowledge(c) \/ PushBlocks(c) \/ Stall(c) \/ Resume(c)

LEMMA GoesQuietly ==
  ASSUME NEW c \in Clients, Goes(c)
  PROVE  UNCHANGED <<chans, psubs, readers, waiting, sess, tasks, push, got, calls, audience>>
BY Zenon DEF Goes, Unlock, Acknowledge, PushBlocks, Stall, Resume, registry

\* The types and the locks are kept by every step.
LEMMA TypeStep == ASSUME PubSubInv, [Next]_vars PROVE TypeInv' /\ LockInv'
<1> USE DEF PubSubInv
<1>0. TypeInv /\ LockInv /\ HoldInv
  BY Zenon
<1>1. ASSUME NEW c \in Clients, NEW cmd \in Repertoire[c], Receive(c, cmd) PROVE TypeInv' /\ LockInv'
  <2> DEFINE q == IF cmd[1] = "exec" THEN Concat([i \in DOMAIN cmd[2] |-> TasksOf(cmd[2][i])])
                  ELSE TasksOf(cmd)
  <2>1. q \in Seq(OpenTasks)
    <3>1. CASE cmd \in PlainCommands
      <4>1. cmd[1] # "exec"
        BY <3>1 DEF PlainCommands
      <4> QED
        BY <3>1, <4>1, TasksTyped, Zenon
    <3>2. CASE cmd \in {"exec"} \X Seq(PlainCommands)
      BY <3>2, QueueTyped, Zenon
    <3> QED
      BY <3>1, <3>2, CommandsKnown, Zenon
  <2>2. CASE tasks' = tasks /\ outMu' = [outMu EXCEPT ![c] = TRUE]
    <3>1. TypeInv'
      <4>1. UNCHANGED <<chans, psubs, readers, waiting, sess, push, got, audience>>
            /\ calls' = [calls EXCEPT ![c] = @ + 1]
        BY <1>1, Zenon DEF Receive, registry
      <4> QED
        BY <1>0, <2>2, <4>1 DEF TypeInv
    <3>2. ASSUME NEW d \in Clients PROVE Locking(d)'
      BY <1>0, <1>1, <2>2, Zenon DEF TypeInv, LockInv, Locking, At, Receive, registry
    <3> QED
      BY <3>1, <3>2, Zenon DEF LockInv
  <2>3. CASE tasks' = [tasks EXCEPT ![c] = q] /\ outMu' = [outMu EXCEPT ![c] = TRUE]
    <3>1. q \in Seq(Tasks)
      BY <2>1 DEF Tasks
    <3> HIDE DEF q
    <3>2. TypeInv'
      <4>1. UNCHANGED <<chans, psubs, readers, waiting, sess, push, got, audience>>
            /\ calls' = [calls EXCEPT ![c] = @ + 1]
        BY <1>1, Zenon DEF Receive, registry
      <4> QED
        BY <1>0, <2>3, <3>1, <4>1 DEF TypeInv
    <3>3. c \notin waiting /\ c \notin readers
      BY <1>0, <1>1, Zenon DEF LockInv, Locking, At, Receive
    <3>4. Locking(c)'
      BY <1>0, <1>1, <2>1, <2>3, <3>3, Zenon DEF TypeInv, Receive, registry, Locking
    <3>5. ASSUME NEW d \in Clients, d # c PROVE Locking(d)'
      BY <1>0, <1>1, <2>3, <3>5, Zenon DEF TypeInv, LockInv, Locking, At, Receive, registry
    <3> QED
      BY <3>2, <3>4, <3>5, Zenon DEF LockInv
  <2> QED
    BY <1>1, <2>2, <2>3, Zenon DEF Receive
<1>2. ASSUME NEW c \in Clients, Ends(c) PROVE TypeInv' /\ LockInv'
  <2> DEFINE s == [sess[c] EXCEPT !.open = FALSE]
             q == << <<"leave">> >>
  <2>1. Gone(c)
    BY <1>0, <1>2, EndsGone, Zenon
  <2>2. s \in Sessions /\ s.open = FALSE
    BY <1>0, Zenon DEF TypeInv, Sessions
  <2>3. q \in Seq(Tasks)
    BY DEF Tasks
  <2>4. /\ sess' = [sess EXCEPT ![c] = s] /\ tasks' = [tasks EXCEPT ![c] = q]
        /\ UNCHANGED <<chans, psubs, readers, waiting, push, got, calls, audience>>
        /\ outMu' = outMu \/ outMu' = [outMu EXCEPT ![c] = FALSE]
        /\ c \notin waiting /\ c \notin readers
    BY <2>1, Zenon DEF Gone
  <2> HIDE DEF s
  <2>5. TypeInv'
    <3> HIDE DEF q
    <3> QED
      BY <1>0, <2>2, <2>3, <2>4, Zenon DEF TypeInv
  <2>6. Locking(c)'
    BY <1>0, <2>2, <2>4, Zenon DEF TypeInv, Locking
  <2>7. ASSUME NEW d \in Clients, d # c PROVE Locking(d)'
    BY <1>0, <2>4, <2>7, Zenon DEF TypeInv, LockInv, Locking, At
  <2> QED
    BY <2>5, <2>6, <2>7, Zenon DEF LockInv
<1>3. ASSUME NEW c \in Clients, PartAll(c) PROVE TypeInv' /\ LockInv'
  <2> DEFINE names == InSomeOrder(PartedAll(c))
             drops == [i \in DOMAIN names |-> <<"drop", names[i]>>]
             q == drops \o Tail(tasks[c])
  <2>1. names \in Seq(Names)
    BY <1>0, PartNames, Zenon
  <2>2. drops \in Seq(OpenTasks)
    <3>1. \A n \in Names : <<"drop", n>> \in OpenTasks
      BY Zenon DEF OpenTasks
    <3> HIDE DEF names
    <3>2. \A i \in 1 .. Len(names) : <<"drop", names[i]>> \in OpenTasks
      BY <2>1, <3>1
    <3> QED
      BY <2>1, <3>2
  <2>3. tasks' = [tasks EXCEPT ![c] = q]
    BY <1>3, Zenon DEF PartAll, PartedAll
  <2>4. tasks[c] # <<>> /\ Head(tasks[c])[1] = "part all"
    BY <1>3, Zenon DEF PartAll
  <2>5. sess[c].open /\ c \notin waiting /\ c \notin readers /\ outMu[c]
    <3>1. tasks[c] # << <<"leave">> >>
      <4>1. <<"leave">>[1] # "part all"
        BY Zenon
      <4> QED
        BY <2>4, <4>1, Single, Zenon
    <3> QED
      BY <1>0, <2>4, <3>1, Zenon DEF LockInv, Locking, At
  <2>6. tasks[c] \in Seq(OpenTasks)
    BY <1>0, <2>5, Zenon DEF LockInv, Locking
  <2>7. q \in Seq(OpenTasks)
    <3>1. Tail(tasks[c]) \in Seq(OpenTasks)
      BY <2>4, <2>6, Tailed, Zenon
    <3> HIDE DEF drops
    <3> QED
      BY <2>2, <3>1
  <2> HIDE DEF q
  <2>8. q \in Seq(Tasks)
    BY <2>7 DEF Tasks
  <2>9. TypeInv'
    <3>1. UNCHANGED <<chans, psubs, readers, waiting, outMu, sess, push, got, calls, audience>>
      BY <1>3, Zenon DEF PartAll, registry
    <3> QED
      BY <1>0, <2>3, <2>8, <3>1, Zenon DEF TypeInv
  <2>10. Locking(c)'
    BY <1>0, <1>3, <2>3, <2>5, <2>7, Zenon DEF TypeInv, PartAll, registry, Locking
  <2>11. ASSUME NEW d \in Clients, d # c PROVE Locking(d)'
    BY <1>0, <1>3, <2>3, <2>11, Zenon DEF TypeInv, LockInv, Locking, At, PartAll, registry
  <2> QED
    BY <2>9, <2>10, <2>11, Zenon DEF LockInv
<1>4. ASSUME NEW c \in Clients, WantWrite(c) PROVE TypeInv' /\ LockInv'
  <2> DEFINE t == Head(tasks[c])
  <2>1. tasks[c] # <<>> /\ t[1] \in {"join", "part", "drop", "leave"} /\ waiting' = waiting \cup {c}
    BY <1>4, Zenon DEF WantWrite
  <2>2. sess' \in [Clients -> Sessions] /\ \A d \in Clients : sess'[d].open = sess[d].open
    <3>1. t \in Tasks
      BY <1>0, <2>1 DEF TypeInv
    <3> HIDE DEF t
    <3>2. t[1] \in {"join", "part"} => t[2] \in Names
      BY <3>1, TaskKinds, Zenon
    <3>3. CASE t[1] \in {"join", "part"}
      <4>1. sess' \in {Joined(c, t[2]), Parted(c, t[2])}
        BY <1>4, <3>3, Zenon DEF WantWrite, t
      <4> QED
        BY <1>0, <3>2, <3>3, <4>1, Noting
    <3>4. CASE t[1] \notin {"join", "part"}
      <4>1. sess' = sess
        BY <1>4, <3>4, Zenon DEF WantWrite, t
      <4> QED
        BY <1>0, <4>1, Zenon DEF TypeInv
    <3> QED
      BY <3>3, <3>4, Zenon
  <2>3. TypeInv'
    BY <1>0, <1>4, <2>1, <2>2, Zenon DEF TypeInv, WantWrite
  <2>4. ASSUME NEW d \in Clients PROVE Locking(d)'
    BY <1>0, <1>4, <2>1, <2>2, Zenon DEF LockInv, Locking, At, WantWrite
  <2> QED
    BY <2>3, <2>4, Zenon DEF LockInv
<1>5. ASSUME NEW c \in Clients, Write(c) PROVE TypeInv' /\ LockInv'
  <2> DEFINE t == Head(tasks[c])
             q == Tail(tasks[c])
  <2>1. tasks[c] # <<>> /\ t[1] \in {"join", "part", "drop", "leave"} /\ waiting' = waiting \ {c}
    BY <1>0, <1>5, Zenon DEF Write, LockInv, Locking, At
  <2>2. t \in Tasks /\ q \in Seq(Tasks) /\ tasks' = [tasks EXCEPT ![c] = q]
    BY <1>0, <1>5, <2>1 DEF TypeInv, Write
  <2>3. Enter(c, t) /\ sess' = IF t[1] = "drop" THEN Parted(c, t[2]) ELSE sess
    BY <1>5, Zenon DEF Write
  <2>4. sess[c].open => q \in Seq(OpenTasks)
    BY <1>0, <2>1 DEF LockInv, Locking
  <2>5. ~sess[c].open => q = <<>>
    <3>1. ~sess[c].open => tasks[c] = << <<"leave">> >>
      BY <1>0, <2>1, Zenon DEF LockInv, Locking
    <3> QED
      BY <3>1, Single, Zenon
  <2> HIDE DEF t, q
  <2>6. chans' \in [Channels -> Seq(Clients)] /\ psubs' \in [Patterns -> Seq(Clients)]
    BY <1>0, <2>2, <2>3, Entered, Zenon DEF AgreeInv
  <2>7. sess' \in [Clients -> Sessions] /\ \A d \in Clients : sess'[d].open = sess[d].open
    <3>1. CASE t[1] = "drop"
      BY <1>0, <2>2, <2>3, <3>1, TaskKinds, Noting
    <3>2. CASE t[1] # "drop"
      BY <1>0, <2>3, <3>2, Zenon DEF TypeInv
    <3> QED
      BY <3>1, <3>2, Zenon
  <2>8. TypeInv'
    BY <1>0, <1>5, <2>1, <2>2, <2>6, <2>7, SMTT(30) DEF TypeInv, Write
  <2>9. Locking(c)'
    BY <1>0, <1>5, <2>1, <2>2, <2>4, <2>5, <2>7, Zenon DEF TypeInv, LockInv, Write, Locking
  <2>10. ASSUME NEW d \in Clients, d # c PROVE Locking(d)'
    BY <1>0, <1>5, <2>1, <2>2, <2>7, <2>10, Zenon DEF TypeInv, LockInv, Locking, At, Write
  <2> QED
    BY <2>8, <2>9, <2>10, Zenon DEF LockInv
<1>6. ASSUME NEW c \in Clients, Publish(c) PROVE TypeInv' /\ LockInv'
  <2> DEFINE t == Head(tasks[c])
  <2>1. tasks[c] # <<>> /\ t[1] = "publish" /\ t[2] \in Channels /\ readers' = readers \cup {c}
    <3>1. tasks[c] # <<>> /\ t[1] = "publish" /\ readers' = readers \cup {c}
      BY <1>6, Zenon DEF Publish
    <3>2. t \in Tasks
      BY <1>0, <3>1 DEF TypeInv
    <3> QED
      BY <3>1, <3>2, TaskKinds, Zenon
  <2>2. Unseen(Encounters(t[2])) \in Seq(Clients) /\ Registered(t[2]) \subseteq Clients
    BY <1>0, <2>1, EncountersRegistered, UnseenOnce, Zenon DEF Registered
  <2>3. TypeInv'
    BY <1>0, <1>6, <2>1, <2>2, Zenon DEF TypeInv, Publish
  <2>4. ASSUME NEW d \in Clients PROVE Locking(d)'
    BY <1>0, <1>6, <2>1, Zenon DEF LockInv, Locking, At, Publish
  <2> QED
    BY <2>3, <2>4, Zenon DEF LockInv
<1>7. ASSUME NEW c \in Clients, Push(c) PROVE TypeInv' /\ LockInv'
  <2> DEFINE s == Head(push[c])
             m == Message(c)
             g == IF sess[s].open THEN Append(got[s], m) ELSE got[s]
  <2>1. c \in readers /\ push[c] # <<>> /\ got' = [got EXCEPT ![s] = g]
        /\ push' = [push EXCEPT ![c] = Tail(push[c])]
    BY <1>7, Zenon DEF Push, WriteMessage, Publishing
  <2>2. tasks[c] # <<>> /\ Head(tasks[c]) \in Tasks /\ Head(tasks[c])[1] = "publish"
    BY <1>0, <2>1 DEF LockInv, Locking, At, TypeInv
  <2>3. m \in Messages
    <3>1. Head(tasks[c])[2] \in Channels
      BY <2>2, TaskKinds, Zenon
    <3> QED
      BY <1>0, <3>1 DEF TypeInv, Messages, Message
  <2>4. s \in Clients /\ Tail(push[c]) \in Seq(Clients)
    BY <1>0, <2>1 DEF TypeInv
  <2> HIDE DEF m, s
  <2>5. g \in Seq(Messages)
    BY <1>0, <2>3, <2>4 DEF TypeInv
  <2> HIDE DEF g
  <2>6. TypeInv'
    <3>1. UNCHANGED <<chans, psubs, readers, waiting, outMu, sess, tasks, calls, audience>>
      BY <1>7, Zenon DEF Push, WriteMessage, registry
    <3> QED
      BY <1>0, <2>1, <2>4, <2>5, <3>1, Zenon DEF TypeInv
  <2>7. ASSUME NEW d \in Clients PROVE Locking(d)'
    BY <1>0, <1>7, Zenon DEF LockInv, Locking, At, Push, WriteMessage, registry
  <2> QED
    BY <2>6, <2>7, Zenon DEF LockInv
<1>8. ASSUME NEW c \in Clients, Published(c) PROVE TypeInv' /\ LockInv'
  <2> DEFINE q == Tail(tasks[c])
  <2>1. c \in readers /\ readers' = readers \ {c} /\ tasks' = [tasks EXCEPT ![c] = q]
    BY <1>8, Zenon DEF Published, Publishing
  <2>2. tasks[c] # <<>> /\ Head(tasks[c])[1] = "publish" /\ c \notin waiting
    BY <1>0, <2>1, Zenon DEF LockInv, Locking, At
  <2>3. sess[c].open
    BY <1>0, <2>2 DEF LockInv, Locking
  <2>4. tasks[c] \in Seq(OpenTasks) /\ outMu[c]
    BY <1>0, <2>2, <2>3, Zenon DEF LockInv, Locking
  <2>5. q \in Seq(OpenTasks) /\ q \in Seq(Tasks)
    BY <1>0, <2>2, <2>4 DEF TypeInv
  <2> HIDE DEF q
  <2>6. TypeInv'
    BY <1>0, <1>8, <2>1, <2>5, Zenon DEF TypeInv, Published
  <2>7. Locking(c)'
    BY <1>0, <1>8, <2>1, <2>2, <2>3, <2>4, <2>5, Zenon DEF TypeInv, Published, Locking
  <2>8. ASSUME NEW d \in Clients, d # c PROVE Locking(d)'
    BY <1>0, <1>8, <2>1, <2>8 DEF TypeInv, LockInv, Locking, At, Published
  <2> QED
    BY <2>6, <2>7, <2>8, Zenon DEF LockInv
<1>9. ASSUME NEW c \in Clients, Goes(c) PROVE TypeInv' /\ LockInv'
  <2>1. UNCHANGED <<chans, psubs, readers, waiting, sess, tasks, push, got, calls, audience>>
    BY <1>9, GoesQuietly, Zenon
  <2>2. outMu' = outMu \/ outMu' = [outMu EXCEPT ![c] = tasks[c] # <<>>]
    BY <1>9, Zenon DEF Goes, Unlock, Acknowledge, PushBlocks, Stall, Resume
  <2>3. outMu' \in [Clients -> BOOLEAN]
    BY <1>0, <2>2, Zenon DEF TypeInv
  <2>4. TypeInv'
    BY <1>0, <2>1, <2>3, Zenon DEF TypeInv
  <2>5. ASSUME NEW d \in Clients PROVE Locking(d)'
    <3>1. tasks[d] # <<>> /\ outMu[d] => outMu'[d]
      BY <1>0, <2>2, Zenon DEF TypeInv
    <3> QED
      BY <1>0, <2>1, <3>1, Zenon DEF LockInv, Locking, At
  <2> QED
    BY <2>4, <2>5, Zenon DEF LockInv
<1>10. CASE UNCHANGED vars
  BY <1>0, <1>10, Zenon DEF TypeInv, LockInv, Locking, At, vars
<1> QED
  BY <1>1, <1>2, <1>3, <1>4, <1>5, <1>6, <1>7, <1>8, <1>9, <1>10, Zenon DEF Next, Progress, Ends, Goes

\* What a session notes leaves it open or closed.
LEMMA OpenKept ==
  ASSUME TypeInv, LockInv, NEW c \in Clients, WantWrite(c) \/ Write(c)
  PROVE  \A d \in Clients : sess'[d].open = sess[d].open
<1> DEFINE t == Head(tasks[c])
<1>1. tasks[c] # <<>>
  BY Zenon DEF LockInv, Locking, At, WantWrite, Write
<1>2. t \in Tasks
  BY <1>1, Tailed, Zenon DEF TypeInv
<1>3. \/ t[1] \in {"join", "part", "drop"} /\ sess' \in {Joined(c, t[2]), Parted(c, t[2])}
      \/ sess' = sess
  <2>1. CASE WantWrite(c)
    BY <2>1, Zenon DEF WantWrite
  <2>2. CASE Write(c)
    BY <2>2, Zenon DEF Write
  <2> QED
    BY <2>1, <2>2, Zenon
<1>4. t[1] \in {"join", "part", "drop"} => t[2] \in Names
  BY <1>2, TaskKinds, Zenon
<1> HIDE DEF t
<1>5. CASE t[1] \in {"join", "part", "drop"} /\ sess' \in {Joined(c, t[2]), Parted(c, t[2])}
  <2>1. t[2] \in Names
    BY <1>4, <1>5, Zenon
  <2>2. \A new \in {Joined(c, t[2]), Parted(c, t[2])} : \A d \in Clients : new[d].open = sess[d].open
    <3>1. PICK n \in Names : n = t[2]
      BY <2>1, Zenon
    <3>2. \A new \in {Joined(c, n), Parted(c, n)} : \A d \in Clients : new[d].open = sess[d].open
      <4>1. \A new \in {Joined(c, n), Parted(c, n)} :
               /\ new \in [Clients -> Sessions]
               /\ \A d \in Clients : new[d].open = sess[d].open
               /\ \A d \in Clients \ {c} : new[d] = sess[d]
        BY Noting, Zenon
      <4> QED
        BY <4>1, Zenon
    <3> QED
      BY <3>1, <3>2, Zenon
  <2> QED
    BY <1>5, <2>2, Zenon
<1> QED
  BY <1>3, <1>5, Zenon

\* The owner of a task is open unless the task is to leave, and then has its mutex.
LEMMA AtTask ==
  ASSUME LockInv, NEW c \in Clients, tasks[c] # <<>>, Head(tasks[c])[1] # "leave"
  PROVE  sess[c].open /\ outMu[c]
<1>1. <<"leave">>[1] = "leave"
  BY Zenon
<1> QED
  BY <1>1, Single, Zenon DEF LockInv, Locking

\* Who owes a reply or is inside a write goes on as said.
LEMMA HoldStep == ASSUME PubSubInv, [Next]_vars PROVE HoldInv'
<1>0. TypeInv /\ LockInv /\ HoldInv
  BY Zenon DEF PubSubInv
<1>r. replies \in [Clients -> {"each", "owed", "end"}] /\ outMu \in [Clients -> BOOLEAN]
  BY <1>0, Zenon DEF HoldInv, TypeInv
<1>a. ASSUME NEW c \in Clients PROVE Holding(c) /\ Locking(c)
  BY <1>0, Zenon DEF HoldInv, LockInv
<1>1. ASSUME NEW c \in Clients, NEW cmd \in Repertoire[c], Receive(c, cmd) PROVE HoldInv'
  <2>1. /\ outMu' = [outMu EXCEPT ![c] = TRUE] /\ sess[c].open /\ tasks[c] = <<>>
        /\ UNCHANGED <<readers, waiting, writing, sess, push>>
        /\ \A d \in writing : Head(push[d]) # c
    BY <1>1, Zenon DEF Receive, Locked, registry
  <2>2. \E x \in {"each", "owed", "end"} : replies' = [replies EXCEPT ![c] = x]
    BY <1>1, Zenon DEF Receive
  <2>3. c \notin waiting /\ c \notin readers
    BY <1>a, <2>1, Zenon DEF Locking, At
  <2>4. ASSUME NEW d \in Clients PROVE Holding(d)'
    <3>1. CASE d = c
      <4>1. outMu'[c]
        BY <1>r, <2>1, Zenon
      <4>2. c \notin writing
        BY <1>a, <2>3, Zenon DEF Holding
      <4> QED
        BY <2>1, <2>3, <3>1, <4>1, <4>2, Zenon DEF Holding
    <3>2. CASE d # c
      <4>1. replies'[d] = replies[d] /\ outMu'[d] = outMu[d]
        BY <1>r, <2>1, <2>2, <3>2, Zenon
      <4> QED
        BY <1>a, <1>r, <2>1, <4>1, Zenon DEF Holding
    <3> QED
      BY <3>1, <3>2, Zenon
  <2> QED
    BY <1>r, <2>2, <2>4, Zenon DEF HoldInv
<1>2. ASSUME NEW c \in Clients, Ends(c) PROVE HoldInv'
  <2>1. Gone(c)
    BY <1>0, <1>2, EndsGone, Zenon
  <2>2. /\ UNCHANGED <<readers, waiting, push, writing>> /\ c \notin readers
        /\ \A d \in Clients : d # c => sess'[d] = sess[d] /\ outMu'[d] = outMu[d]
        /\ \A d \in Clients : ~outMu[d] => ~outMu'[d]
    BY <1>0, <1>2, <2>1, Zenon DEF Ends, Gone, Close, WriteFails, conns, TypeInv
  <2>3. replies' = [replies EXCEPT ![c] = "each"]
    <3>1. CASE Close(c)
      BY <1>a, <1>r, <3>1 DEF Close, conns, Holding
    <3>2. CASE WriteFails(c)
      BY <3>2, Zenon DEF WriteFails
    <3> QED
      BY <1>2, <3>1, <3>2, Zenon DEF Ends
  <2>4. ASSUME NEW d \in Clients PROVE Holding(d)'
    BY <1>a, <1>r, <2>2, <2>3, Zenon DEF Holding
  <2> QED
    BY <1>r, <2>3, <2>4, Zenon DEF HoldInv
<1>3. ASSUME NEW c \in Clients, PartAll(c) PROVE HoldInv'
  BY <1>0, <1>3, Zenon DEF HoldInv, Holding, PartAll, conns, registry
<1>4. ASSUME NEW c \in Clients, WantWrite(c) PROVE HoldInv'
  <2>1. /\ UNCHANGED <<readers, push, writing, replies, outMu>> /\ waiting' = waiting \cup {c}
        /\ replies[c] # "owed"
    BY <1>4, Zenon DEF WantWrite, conns
  <2>2. \A d \in Clients : sess'[d].open = sess[d].open
    BY <1>0, <1>4, OpenKept, Zenon
  <2>3. ASSUME NEW d \in Clients PROVE Holding(d)'
    BY <1>a, <2>1, <2>2, Zenon DEF Holding
  <2> QED
    BY <1>r, <2>1, <2>3, Zenon DEF HoldInv
<1>5. ASSUME NEW c \in Clients, Write(c) PROVE HoldInv'
  <2>1. /\ UNCHANGED <<readers, push, writing, outMu>> /\ waiting' = waiting \ {c} /\ c \in waiting
        /\ replies' = replies \/ (Head(tasks[c])[1] # "leave" /\ replies' = Owing(c))
    BY <1>5, Zenon DEF Write
  <2>2. \A d \in Clients : sess'[d].open = sess[d].open
    BY <1>0, <1>5, OpenKept, Zenon
  <2>3. tasks[c] # <<>> /\ c \notin readers
    BY <1>a, <2>1, Zenon DEF Locking, At
  <2>4. Head(tasks[c])[1] # "leave" => sess[c].open /\ outMu[c]
    BY <1>0, <2>3, AtTask, Zenon
  <2>5. replies' \in [Clients -> {"each", "owed", "end"}] /\ \A d \in Clients : d # c => replies'[d] = replies[d]
    BY <1>r, <2>1, Zenon DEF Owing
  <2>6. replies'[c] = replies[c] \/ (Head(tasks[c])[1] # "leave" /\ replies'[c] = "owed")
    BY <1>r, <2>1, Zenon DEF Owing
  <2>7. ASSUME NEW d \in Clients PROVE Holding(d)'
    BY <1>a, <2>1, <2>2, <2>3, <2>4, <2>5, <2>6, Zenon DEF Holding
  <2> QED
    BY <2>5, <2>7, Zenon DEF HoldInv
<1>6. ASSUME NEW c \in Clients, Publish(c) PROVE HoldInv'
  <2>1. /\ UNCHANGED <<waiting, writing, replies, outMu, sess>> /\ readers' = readers \cup {c}
        /\ c \notin readers /\ replies[c] # "owed"
    BY <1>6, Zenon DEF Publish, Publishing, conns
  <2>2. \A d \in Clients : d # c => push'[d] = push[d]
    BY <1>0, <1>6, Zenon DEF Publish, TypeInv
  <2>3. ASSUME NEW d \in Clients PROVE Holding(d)'
    <3>1. CASE d = c
      <4>1. c \notin writing
        BY <1>a, <2>1, Zenon DEF Holding
      <4> QED
        BY <1>a, <2>1, <3>1, <4>1, Zenon DEF Holding
    <3>2. CASE d # c
      BY <1>a, <2>1, <2>2, <3>2, Zenon DEF Holding
    <3> QED
      BY <3>1, <3>2, Zenon
  <2> QED
    BY <1>r, <2>1, <2>3, Zenon DEF HoldInv
<1>7. ASSUME NEW c \in Clients, Push(c) PROVE HoldInv'
  <2>1. UNCHANGED <<readers, waiting, replies, outMu, sess>> /\ writing' = writing \ {c}
    BY <1>7, Zenon DEF Push, WriteMessage, registry
  <2>2. \A d \in Clients : d # c => push'[d] = push[d]
    BY <1>0, <1>7, Zenon DEF Push, WriteMessage, TypeInv
  <2>3. ASSUME NEW d \in Clients PROVE Holding(d)'
    BY <1>a, <2>1, <2>2, Zenon DEF Holding
  <2> QED
    BY <1>r, <2>1, <2>3, Zenon DEF HoldInv
<1>8. ASSUME NEW c \in Clients, Published(c) PROVE HoldInv'
  <2>1. /\ UNCHANGED <<push, writing, outMu, sess, waiting>> /\ readers' = readers \ {c} /\ c \in readers
        /\ replies' = Owing(c) /\ push[c] = <<>>
    BY <1>8, Zenon DEF Published, Publishing
  <2>2. tasks[c] # <<>> /\ Head(tasks[c])[1] = "publish" /\ c \notin waiting
    BY <1>a, <2>1, Zenon DEF Locking, At
  <2>3. sess[c].open /\ outMu[c]
    BY <1>0, <2>2, AtTask
  <2>4. /\ replies' \in [Clients -> {"each", "owed", "end"}]
        /\ \A d \in Clients : d # c => replies'[d] = replies[d]
    BY <1>r, <2>1, Zenon DEF Owing
  <2>5. ASSUME NEW d \in Clients PROVE Holding(d)'
    BY <1>a, <2>1, <2>2, <2>3, <2>4, Zenon DEF Holding
  <2> QED
    BY <2>4, <2>5, Zenon DEF HoldInv
<1>9. ASSUME NEW c \in Clients, PushBlocks(c) PROVE HoldInv'
  <2>1. /\ UNCHANGED <<readers, waiting, replies, outMu, sess, push>> /\ writing' = writing \cup {c}
        /\ c \in readers /\ push[c] # <<>> /\ ~outMu[Head(push[c])]
    BY <1>9, Zenon DEF PushBlocks, Publishing, Locked, registry
  <2>2. Head(push[c]) \in Clients
    BY <1>0, <2>1, Tailed, Zenon DEF TypeInv
  <2>3. ASSUME NEW d \in Clients PROVE Holding(d)'
    BY <1>a, <2>1, <2>2, Zenon DEF Holding
  <2> QED
    BY <1>r, <2>1, <2>3, Zenon DEF HoldInv
<1>10. ASSUME NEW c \in Clients, Acknowledge(c) \/ Unlock(c) PROVE HoldInv'
  <2>1. UNCHANGED <<readers, waiting, sess, push, writing>>
    BY <1>10, Zenon DEF Acknowledge, Unlock, registry, conns
  <2>2. replies' = [replies EXCEPT ![c] = "each"]
    <3>1. CASE Acknowledge(c)
      BY <3>1, Zenon DEF Acknowledge
    <3>2. CASE Unlock(c)
      BY <1>r, <3>2 DEF Unlock, Due, conns
    <3> QED
      BY <1>10, <3>1, <3>2, Zenon
  <2>3. outMu[c]
    BY <1>a, <1>10, Zenon DEF Acknowledge, Unlock, Due, Holding
  <2>4. (\A d \in Clients : d # c => outMu'[d] = outMu[d]) /\ \A d \in Clients : ~outMu[d] => ~outMu'[d]
    BY <1>r, <1>10, <2>3, Zenon DEF Acknowledge, Unlock
  <2>5. ASSUME NEW d \in Clients PROVE Holding(d)'
    BY <1>a, <1>r, <2>1, <2>2, <2>4, Zenon DEF Holding
  <2> QED
    BY <1>r, <2>2, <2>5, Zenon DEF HoldInv
<1>11. ASSUME UNCHANGED <<readers, waiting, sess, push, writing, replies, outMu>> PROVE HoldInv'
  BY <1>0, <1>11, Zenon DEF HoldInv, Holding
<1>12. ASSUME NEW c \in Clients, Stall(c) \/ Resume(c) PROVE HoldInv'
  BY <1>11, <1>12, Zenon DEF Stall, Resume, registry
<1>13. CASE UNCHANGED vars
  BY <1>11, <1>13, Zenon DEF vars
<1> QED
  BY <1>1, <1>2, <1>3, <1>4, <1>5, <1>6, <1>7, <1>8, <1>9, <1>10, <1>12, <1>13, Zenon
  DEF Next, Progress, Ends

\* A step that leaves the registry and the sessions alone, and the tasks of who waits or is gone.
LEMMA AgreeKept ==
  ASSUME AgreeInv, UNCHANGED <<chans, psubs, sess, waiting>>,
         \A d \in Clients : d \in waiting \/ ~sess[d].open => tasks'[d] = tasks[d]
  PROVE  AgreeInv'
<1>1. \A n \in Names : Listed(n)' = Listed(n)
  BY Zenon DEF Listed
<1>2. \A c \in Clients : Noted(c)' = Noted(c)
  BY Zenon DEF Noted
<1>3. ASSUME NEW c \in Clients, NEW n \in Names PROVE Agrees(c, n)'
  <2>1. Agrees(c, n)
    BY Zenon DEF AgreeInv
  <2>2. Asking(c, "join", n)' = Asking(c, "join", n) /\ Asking(c, "part", n)' = Asking(c, "part", n)
    BY Zenon DEF Asking
  <2> QED
    BY <1>1, <1>2, <2>1, <2>2, Zenon DEF Agrees
<1> QED
  BY <1>1, <1>3, Zenon DEF AgreeInv

\* The sessions and the registry go on agreeing.
LEMMA AgreeStep == ASSUME PubSubInv, [Next]_vars PROVE AgreeInv'
<1>0. TypeInv /\ LockInv /\ HoldInv /\ AgreeInv
  BY Zenon DEF PubSubInv
<1>1. ASSUME NEW c \in Clients, NEW cmd \in Repertoire[c], Receive(c, cmd) PROVE AgreeInv'
  <2>1. UNCHANGED <<chans, psubs, sess, waiting>> /\ sess[c].open /\ tasks[c] = <<>>
    BY <1>1, Zenon DEF Receive, registry
  <2>2. c \notin waiting
    BY <1>0, <2>1, Zenon DEF LockInv, Locking, At
  <2>3. \A d \in Clients \ {c} : tasks'[d] = tasks[d]
    BY <1>0, <1>1, Zenon DEF Receive, TypeInv
  <2> QED
    BY <1>0, <2>1, <2>2, <2>3, AgreeKept, Zenon
<1>2. ASSUME NEW c \in Clients, Ends(c) PROVE AgreeInv'
  <2>0. Gone(c)
    BY <1>0, <1>2, EndsGone, Zenon
  <2>1. UNCHANGED <<chans, psubs, waiting>>
    BY <2>0, Zenon DEF Gone
  <2>2. \A d \in Clients \ {c} : tasks'[d] = tasks[d] /\ sess'[d] = sess[d]
    BY <1>0, <2>0, Zenon DEF Gone, TypeInv
  <2>3. ~sess'[c].open /\ tasks'[c] # <<>>
    <3>1. sess[c] \in Sessions
      BY <1>0, Zenon DEF TypeInv
    <3>2. sess'[c] = [sess[c] EXCEPT !.open = FALSE] /\ tasks'[c] = << <<"leave">> >>
      BY <1>0, <2>0, Zenon DEF Gone, TypeInv
    <3> QED
      BY <3>1, <3>2, Single, Zenon DEF Sessions
  <2>4. ASSUME NEW n \in Names, NEW d \in Clients PROVE Agrees(d, n)'
    <3>1. Agrees(d, n)
      BY <1>0, Zenon DEF AgreeInv
    <3>2. CASE d = c
      BY <2>3, <3>2, Zenon DEF Agrees
    <3>3. CASE d # c
      BY <2>1, <2>2, <3>1, <3>3, Zenon DEF Agrees, Asking, Noted, Listed
    <3> QED
      BY <3>2, <3>3, Zenon
  <2> QED
    BY <1>0, <2>1, <2>4, Zenon DEF AgreeInv, Listed
<1>3. ASSUME NEW c \in Clients, PartAll(c) PROVE AgreeInv'
  <2>1. UNCHANGED <<chans, psubs, sess, waiting>> /\ tasks[c] # <<>> /\ Head(tasks[c])[1] = "part all"
    BY <1>3, Zenon DEF PartAll, registry
  <2>2. c \notin waiting /\ sess[c].open
    <3>1. <<"leave">>[1] # "part all"
      BY Zenon
    <3> QED
      BY <1>0, <2>1, <3>1, Single, Zenon DEF LockInv, Locking, At
  <2>3. \A d \in Clients \ {c} : tasks'[d] = tasks[d]
    BY <1>0, <1>3, Zenon DEF PartAll, TypeInv
  <2> QED
    BY <1>0, <2>1, <2>2, <2>3, AgreeKept, Zenon
<1>4. ASSUME NEW c \in Clients, WantWrite(c) PROVE AgreeInv'
  <2> DEFINE t == Head(tasks[c])
  <2>1. /\ UNCHANGED <<chans, psubs, tasks>> /\ waiting' = waiting \cup {c} /\ c \notin waiting
        /\ tasks[c] # <<>> /\ t[1] \in {"join", "part", "drop", "leave"}
        /\ sess' = CASE t[1] = "join" -> Joined(c, t[2])
                     [] t[1] = "part" -> Parted(c, t[2])
                     [] OTHER -> sess
    BY <1>4, Zenon DEF WantWrite
  <2>2. t \in Tasks
    BY <1>0, <2>1 DEF TypeInv
  <2>3. Asking(c, t[1], t[2])'
    BY <2>1, Zenon DEF Asking
  <2>4. \A kind, n : Asking(c, kind, n)' => kind = t[1] /\ n = t[2]
    BY <2>1, Zenon DEF Asking
  <2> HIDE DEF t
  <2>5. /\ \A d \in Clients : sess'[d].open = sess[d].open
        /\ \A d \in Clients \ {c} : sess'[d] = sess[d]
        /\ Noted(c)' = IF t[1] = "join" THEN Noted(c) \cup {t[2]}
                       ELSE IF t[1] = "part" THEN Noted(c) \ {t[2]} ELSE Noted(c)
    <3>1. t[1] \in {"join", "part"} => t[2] \in Names
      BY <2>2, TaskKinds, Zenon
    <3>2. CASE t[1] = "join"
      BY <1>0, <2>1, <3>1, <3>2, Noting DEF Noted
    <3>3. CASE t[1] = "part"
      BY <1>0, <2>1, <3>1, <3>3, Noting DEF Noted
    <3>4. CASE t[1] \notin {"join", "part"}
      BY <2>1, <3>4, Zenon DEF Noted
    <3> QED
      BY <3>2, <3>3, <3>4, Zenon
  <2>6. ASSUME NEW n \in Names, NEW d \in Clients PROVE Agrees(d, n)'
    <3>1. Agrees(d, n) /\ Listed(n)' = Listed(n)
      BY <1>0, <2>1, Zenon DEF AgreeInv, Listed
    <3>2. CASE d # c
      BY <2>1, <2>5, <3>1, <3>2, Zenon DEF Agrees, Asking, Noted
    <3>3. CASE d = c
      <4>1. ~Asking(c, "join", n) /\ ~Asking(c, "part", n)
        BY <2>1, Zenon DEF Asking
      <4> QED
        BY <2>1, <2>3, <2>4, <2>5, <3>1, <3>3, <4>1 DEF Agrees
    <3> QED
      BY <3>2, <3>3, Zenon
  <2> QED
    BY <1>0, <2>1, <2>6, Zenon DEF AgreeInv, Listed
<1>5. ASSUME NEW c \in Clients, Write(c) PROVE AgreeInv'
  <2> DEFINE t == Head(tasks[c])
  <2>1. /\ Enter(c, t) /\ waiting' = waiting \ {c} /\ c \in waiting
        /\ sess' = IF t[1] = "drop" THEN Parted(c, t[2]) ELSE sess
    BY <1>5, Zenon DEF Write
  <2>2. tasks[c] # <<>> /\ t[1] \in {"join", "part", "drop", "leave"}
    BY <1>0, <2>1, Zenon DEF LockInv, Locking, At
  <2>3. t \in Tasks
    BY <1>0, <2>2 DEF TypeInv
  <2>4. t[1] = "leave" <=> ~sess[c].open
    <3>1. <<"leave">>[1] = "leave"
      BY Zenon
    <3>2. ~sess[c].open => t[1] = "leave"
      BY <1>0, <2>2, <3>1, Single, Zenon DEF LockInv, Locking
    <3>3. sess[c].open => t \in OpenTasks
      BY <1>0, <2>2 DEF LockInv, Locking
    <3> QED
      BY <2>3, <3>2, <3>3, TaskKinds, Zenon
  <2>5. \A kind, n : Asking(c, kind, n) <=> kind = t[1] /\ n = t[2]
    BY <2>1, Zenon DEF Asking
  <2>6. \A d \in Clients \ {c} : tasks'[d] = tasks[d]
    BY <1>0, <1>5, Zenon DEF Write, TypeInv
  <2> HIDE DEF t
  <2>7. \A n \in Names :
               /\ IsInjective(Listed(n)')
               /\ Range(Listed(n)') = IF t[1] = "join" /\ t[2] = n THEN Range(Listed(n)) \cup {c}
                                      ELSE IF t[1] = "leave" \/ (t[1] \in {"part", "drop"} /\ t[2] = n)
                                      THEN Range(Listed(n)) \ {c}
                                      ELSE Range(Listed(n))
    BY <1>0, <2>1, <2>3, Entered, Zenon DEF AgreeInv
  <2>8. /\ \A d \in Clients : sess'[d].open = sess[d].open
        /\ \A d \in Clients \ {c} : sess'[d] = sess[d]
        /\ Noted(c)' = IF t[1] = "drop" THEN Noted(c) \ {t[2]} ELSE Noted(c)
    <3>1. CASE t[1] = "drop"
      BY <1>0, <2>1, <2>3, <3>1, TaskKinds, Noting, SMTT(30) DEF Noted
    <3>2. CASE t[1] # "drop"
      BY <2>1, <3>2, Zenon DEF Noted
    <3> QED
      BY <3>1, <3>2, Zenon
  <2>9. ASSUME NEW n \in Names, NEW d \in Clients PROVE Agrees(d, n)'
    <3> DEFINE L == Range(Listed(n))
               K == Range(Listed(n)')
    <3>1. Agrees(d, n)
      BY <1>0, Zenon DEF AgreeInv
    <3>2. K = IF t[1] = "join" /\ t[2] = n THEN L \cup {c}
              ELSE IF t[1] = "leave" \/ (t[1] \in {"part", "drop"} /\ t[2] = n) THEN L \ {c} ELSE L
      BY <2>7, Zenon
    <3> HIDE DEF L, K
    <3>3. CASE d # c
      <4>1. d \in K <=> d \in L
        BY <3>2, <3>3, Zenon
      <4>2. Asking(d, "join", n)' = Asking(d, "join", n) /\ Asking(d, "part", n)' = Asking(d, "part", n)
        BY <2>1, <2>6, <3>3, Zenon DEF Asking
      <4>3. Noted(d)' = Noted(d) /\ tasks'[d] = tasks[d] /\ sess'[d].open = sess[d].open
        BY <2>6, <2>8, <3>3, Zenon DEF Noted
      <4> QED
        BY <3>1, <4>1, <4>2, <4>3, Zenon DEF Agrees, K, L
    <3>4. CASE d = c
      <4>1. ~Asking(c, "join", n)' /\ ~Asking(c, "part", n)'
        BY <2>1, Zenon DEF Asking
      <4>2. CASE t[1] = "leave"
        BY <2>4, <2>8, <3>2, <3>4, <4>2, Zenon DEF Agrees, K
      <4>3. CASE t[1] # "leave"
        <5>1. sess[c].open /\ sess'[c].open
          BY <2>4, <2>8, <4>3, Zenon
        <5>2. IF t[1] = "join" /\ t[2] = n THEN n \in Noted(c)
              ELSE IF t[1] = "part" /\ t[2] = n THEN n \notin Noted(c)
              ELSE c \in L <=> n \in Noted(c)
          BY <2>5, <3>1, <3>4, <5>1, Zenon DEF Agrees, L
        <5>3. c \in K <=> n \in Noted(c)'
          BY <2>2, <2>8, <3>2, <4>3, <5>2, Zenon
        <5> QED
          BY <3>4, <4>1, <5>1, <5>3, Zenon DEF Agrees, K
      <4> QED
        BY <4>2, <4>3, Zenon
    <3> QED
      BY <3>3, <3>4, Zenon
  <2> QED
    BY <2>7, <2>9, Zenon DEF AgreeInv
<1>6. ASSUME NEW c \in Clients, Publish(c) PROVE AgreeInv'
  BY <1>0, <1>6, AgreeKept, Zenon DEF Publish
<1>7. ASSUME NEW c \in Clients, Push(c) PROVE AgreeInv'
  BY <1>0, <1>7, AgreeKept, Zenon DEF Push, WriteMessage, registry
<1>8. ASSUME NEW c \in Clients, Published(c) PROVE AgreeInv'
  <2>1. UNCHANGED <<chans, psubs, sess, waiting>> /\ c \in readers
    BY <1>8, Zenon DEF Published, Publishing
  <2>2. tasks[c] # <<>> /\ Head(tasks[c])[1] = "publish"
    BY <1>0, <2>1, Zenon DEF LockInv, Locking, At
  <2>3. c \notin waiting /\ sess[c].open
    <3>1. <<"leave">>[1] # "publish"
      BY Zenon
    <3> QED
      BY <1>0, <2>2, <3>1, Single, Zenon DEF LockInv, Locking, At
  <2>4. \A d \in Clients \ {c} : tasks'[d] = tasks[d]
    BY <1>0, <1>8, Zenon DEF Published, TypeInv
  <2> QED
    BY <1>0, <2>1, <2>3, <2>4, AgreeKept, Zenon
<1>9. ASSUME NEW c \in Clients, Goes(c) PROVE AgreeInv'
  BY <1>0, <1>9, GoesQuietly, AgreeKept, Zenon
<1>10. CASE UNCHANGED vars
  BY <1>0, <1>10, AgreeKept, Zenon DEF vars
<1> QED
  BY <1>1, <1>2, <1>3, <1>4, <1>5, <1>6, <1>7, <1>8, <1>9, <1>10, Zenon DEF Next, Progress, Ends, Goes

-----------------------------------------------------------------------------
\* A message that was sent stays behind what its client has yet to publish, whatever happens.
LEMMA SpentKept ==
  ASSUME PubSubInv, [Next]_vars, NEW d \in Clients, NEW n \in Nat, NEW l \in Nat, Spent(d, n, l)
  PROVE  Spent(d, n, l)'
<1>0. TypeInv /\ LockInv /\ HoldInv
  BY Zenon DEF PubSubInv
<1> DEFINE q == tasks[d]
           Ahead(r) == \A j \in DOMAIN r : r[j][1] = "publish" => l > Len(r) - j + 1
<1>a. q \in Seq(Tasks) /\ calls[d] \in Nat
  BY <1>0, Zenon DEF TypeInv
<1>b. ASSUME calls'[d] = calls[d], Spent(d, n, l) /\ n = calls[d] => Ahead(tasks'[d]) PROVE Spent(d, n, l)'
  BY <1>a, <1>b, Zenon DEF Spent
<1>c. q # <<>> /\ n = calls[d] => Ahead(Tail(q))
  <2> SUFFICES ASSUME q # <<>>, n = calls[d] PROVE Ahead(Tail(q))
    BY Zenon
  <2>1. /\ DOMAIN q = 1 .. Len(q) /\ Len(Tail(q)) = Len(q) - 1 /\ Len(q) \in Nat
        /\ DOMAIN Tail(q) = 1 .. Len(q) - 1 /\ \A i \in 1 .. Len(q) - 1 : Tail(q)[i] = q[i + 1]
    BY <1>a
  <2>2. ASSUME NEW j \in 1 .. Len(q) - 1, Tail(q)[j][1] = "publish" PROVE l > Len(q) - 1 - j + 1
    <3>1. j + 1 \in DOMAIN q /\ q[j + 1][1] = "publish" /\ j + 1 # 1
      BY <2>1, <2>2
    <3>2. l > Len(q) - (j + 1) + 1
      BY <3>1, Zenon DEF Spent
    <3> QED
      BY <2>1, <3>2
  <2> QED
    BY <2>1, <2>2, Zenon
<1>d. ASSUME tasks' = tasks, calls' = calls, readers \subseteq readers' PROVE Spent(d, n, l)'
  BY <1>d, Zenon DEF Spent
<1>e. ASSUME tasks'[d] = tasks[d], calls'[d] = calls[d], d \in readers => d \in readers' PROVE Spent(d, n, l)'
  BY <1>e, Zenon DEF Spent
<1>1. ASSUME NEW c \in Clients, NEW cmd \in Repertoire[c], Receive(c, cmd) PROVE Spent(d, n, l)'
  <2>1. calls' = [calls EXCEPT ![c] = @ + 1] /\ readers' = readers
    BY <1>1, Zenon DEF Receive, registry
  <2>2. CASE d = c
    <3>1. calls'[d] = calls[d] + 1
      BY <1>0, <2>1, <2>2, Zenon DEF TypeInv
    <3> QED
      BY <1>a, <3>1 DEF Spent
  <2>3. CASE d # c
    <3>1. tasks'[d] = tasks[d] /\ calls'[d] = calls[d]
      BY <1>0, <1>1, <2>3, Zenon DEF Receive, TypeInv
    <3> QED
      BY <1>e, <2>1, <3>1, Zenon
  <2> QED
    BY <2>2, <2>3, Zenon
<1>2. ASSUME NEW c \in Clients, Ends(c) PROVE Spent(d, n, l)'
  <2>1. calls' = calls /\ readers' = readers /\ tasks' = [tasks EXCEPT ![c] = << <<"leave">> >>]
    BY <1>0, <1>2, EndsGone, Zenon DEF Gone
  <2>2. CASE d = c
    <3>1. tasks'[d] = << <<"leave">> >>
      BY <1>0, <2>1, <2>2, Zenon DEF TypeInv
    <3>2. Ahead(<< <<"leave">> >>)
      <4>1. DOMAIN << <<"leave">> >> = {1} /\ << <<"leave">> >>[1][1] = "leave"
        OBVIOUS
      <4> QED
        BY <4>1, Zenon
    <3> QED
      BY <1>b, <2>1, <3>1, <3>2, Zenon
  <2>3. CASE d # c
    BY <1>0, <1>e, <2>1, <2>3, Zenon DEF TypeInv
  <2> QED
    BY <2>2, <2>3, Zenon
<1>3. ASSUME NEW c \in Clients, PartAll(c) PROVE Spent(d, n, l)'
  <2> DEFINE names == InSomeOrder(PartedAll(c))
             drops == [i \in DOMAIN names |-> <<"drop", names[i]>>]
  <2>1. /\ calls' = calls /\ readers' = readers /\ tasks' = [tasks EXCEPT ![c] = drops \o Tail(@)]
        /\ tasks[c] # <<>> /\ Head(tasks[c])[1] = "part all"
    BY <1>3, Zenon DEF PartAll, PartedAll, registry
  <2>2. CASE d = c
    <3>0. names \in Seq(Names)
      BY <1>0, PartNames, Zenon
    <3> HIDE DEF names
    <3>1. drops \in Seq({"drop"} \X Names) /\ \A i \in DOMAIN drops : drops[i][1] = "drop"
      BY <3>0
    <3> HIDE DEF drops
    <3> DEFINE u == Tail(q)
               r == drops \o u
               k == Len(drops)
    <3>2. tasks'[d] = r
      BY <1>0, <2>1, <2>2, Zenon DEF TypeInv
    <3>3. u \in Seq(Tasks)
      BY <1>a, <2>1, <2>2, Tailed, Zenon
    <3>4. n = calls[d] => Ahead(u)
      BY <1>c, <2>1, <2>2, Zenon
    <3> HIDE DEF u
    <3>5. /\ k \in Nat /\ Len(u) \in Nat /\ Len(r) = k + Len(u) /\ DOMAIN r = 1 .. k + Len(u)
          /\ \A i \in 1 .. k : r[i] = drops[i]
          /\ \A i \in 1 .. Len(u) : r[k + i] = u[i]
          /\ DOMAIN u = 1 .. Len(u) /\ DOMAIN drops = 1 .. k
      BY <3>1, <3>3
    <3> HIDE DEF r, k
    <3>6. ASSUME Ahead(u), NEW j \in DOMAIN r, r[j][1] = "publish" PROVE l > Len(r) - j + 1
      <4>1. j > k
        BY <3>1, <3>5, <3>6
      <4>2. j - k \in 1 .. Len(u) /\ r[j] = u[j - k]
        <5>1. j - k \in 1 .. Len(u) /\ k + (j - k) = j
          BY <3>5, <4>1
        <5> QED
          BY <3>5, <5>1, Zenon
      <4>3. l > Len(u) - (j - k) + 1
        BY <3>5, <3>6, <4>2, Zenon
      <4> QED
        BY <3>5, <4>3
    <3> QED
      BY <1>b, <2>1, <3>2, <3>4, <3>6, Zenon
  <2>3. CASE d # c
    BY <1>0, <1>e, <2>1, <2>3, Zenon DEF TypeInv
  <2> QED
    BY <2>2, <2>3, Zenon
<1>4. ASSUME NEW c \in Clients, WantWrite(c) PROVE Spent(d, n, l)'
  BY <1>4, <1>d, Zenon DEF WantWrite
<1>5. ASSUME NEW c \in Clients, Write(c) PROVE Spent(d, n, l)'
  <2>1. calls' = calls /\ readers' = readers /\ tasks' = [tasks EXCEPT ![c] = Tail(@)] /\ c \in waiting
    BY <1>5, Zenon DEF Write
  <2>2. tasks[c] # <<>>
    BY <1>0, <2>1, Zenon DEF LockInv, Locking, At
  <2>3. CASE d = c
    <3>1. tasks'[d] = Tail(q)
      BY <1>0, <2>1, <2>3, Zenon DEF TypeInv
    <3> QED
      BY <1>b, <1>c, <2>1, <2>2, <2>3, <3>1, Zenon
  <2>4. CASE d # c
    BY <1>0, <1>e, <2>1, <2>4, Zenon DEF TypeInv
  <2> QED
    BY <2>3, <2>4, Zenon
<1>6. ASSUME NEW c \in Clients, Publish(c) PROVE Spent(d, n, l)'
  BY <1>6, <1>d, Zenon DEF Publish
<1>7. ASSUME NEW c \in Clients, Push(c) PROVE Spent(d, n, l)'
  BY <1>7, <1>d, Zenon DEF Push, WriteMessage, registry
<1>8. ASSUME NEW c \in Clients, Published(c) PROVE Spent(d, n, l)'
  <2>1. calls' = calls /\ readers' = readers \ {c} /\ tasks' = [tasks EXCEPT ![c] = Tail(@)] /\ c \in readers
    BY <1>8, Zenon DEF Published, Publishing
  <2>2. tasks[c] # <<>>
    BY <1>0, <2>1, Zenon DEF LockInv, Locking, At
  <2>3. CASE d = c
    <3>1. tasks'[d] = Tail(q)
      BY <1>0, <2>1, <2>3, Zenon DEF TypeInv
    <3> QED
      BY <1>b, <1>c, <2>1, <2>2, <2>3, <3>1, Zenon
  <2>4. CASE d # c
    BY <1>0, <1>e, <2>1, <2>4, Zenon DEF TypeInv
  <2> QED
    BY <2>3, <2>4, Zenon
<1>9. ASSUME NEW c \in Clients, Goes(c) PROVE Spent(d, n, l)'
  BY <1>9, <1>d, GoesQuietly, Zenon
<1>10. CASE UNCHANGED vars
  BY <1>10, <1>d, Zenon DEF vars
<1> QED
  BY <1>1, <1>2, <1>3, <1>4, <1>5, <1>6, <1>7, <1>8, <1>9, <1>10, Zenon DEF Next, Progress, Ends, Goes

\* What was sent stays behind what is to be sent.
LEMMA FreshStep == ASSUME PubSubInv, [Next]_vars, TypeInv' PROVE FreshInv'
<1>0. TypeInv /\ LockInv /\ FreshInv
  BY Zenon DEF PubSubInv
<1>1. \A m \in Messages : m[1] \in Clients /\ m[2] \in Nat /\ m[3] \in Nat
  BY Zenon DEF Messages
<1>2. \A m \in Messages : Spent(m[1], m[2], m[3]) => Spent(m[1], m[2], m[3])'
  BY <1>1, SpentKept, Zenon
<1>3. \A s \in Clients : \A i \in DOMAIN got[s] :
        \A m \in Messages : m = got[s][i] => Spent(m[1], m[2], m[3])'
  <2>1. \A s \in Clients : \A i \in DOMAIN got[s] : got[s][i] \in Messages
    BY <1>0 DEF TypeInv
  <2> QED
    BY <1>0, <1>2, <2>1, Zenon DEF FreshInv
<1>a. ASSUME \A s \in Clients : \A i \in DOMAIN got'[s] :
                \A m \in Messages : m = got'[s][i] => Spent(m[1], m[2], m[3])'
      PROVE  FreshInv'
  <2>1. \A s \in Clients : \A i \in DOMAIN got'[s] : got'[s][i] \in Messages
    BY DEF TypeInv
  <2> QED
    BY <1>a, <2>1, Zenon DEF FreshInv, Spent
<1>4. CASE got' = got
  BY <1>3, <1>4, <1>a, Zenon
<1>5. ASSUME NEW c \in Clients, Push(c) PROVE FreshInv'
  <2> DEFINE s0 == Head(push[c])
             m == Message(c)
             n == calls[c]
             l == Len(tasks[c])
  <2>1. got' = [got EXCEPT ![s0] = IF sess[s0].open THEN Append(got[s0], m) ELSE got[s0]]
        /\ UNCHANGED <<tasks, calls, readers>> /\ c \in readers
    BY <1>5, Zenon DEF Push, WriteMessage, Publishing, registry
  <2>2. m[1] = c /\ m[2] = n /\ m[3] = l
    BY Zenon DEF Message
  <2>3. \A x \in Messages : x[1] = c /\ x[2] = n /\ x[3] = l => Spent(x[1], x[2], x[3])'
    <3>1. calls[c] \in Nat /\ tasks[c] \in Seq(Tasks)
      BY <1>0, Zenon DEF TypeInv
    <3>2. \A j \in DOMAIN tasks[c] : j = 1 \/ l > l - j + 1
      BY <3>1
    <3> QED
      BY <2>1, <3>1, <3>2 DEF Spent
  <2>4. got \in [Clients -> Seq(Messages)]
    BY <1>0, Zenon DEF TypeInv
  <2> HIDE DEF m, n, l, s0
  <2>5. ASSUME NEW s \in Clients, NEW i \in DOMAIN got'[s]
        PROVE  (i \in DOMAIN got[s] /\ got'[s][i] = got[s][i]) \/ got'[s][i] = m
    <3>1. got'[s] = got[s] \/ got'[s] = Append(got[s], m)
      BY <2>1, <2>4, Zenon
    <3>2. CASE got'[s] = Append(got[s], m)
      <4> DEFINE g == got[s]
      <4>1. g \in Seq(Messages)
        BY <2>4, Zenon
      <4> HIDE DEF g
      <4>2. /\ Len(g) \in Nat /\ DOMAIN Append(g, m) = 1 .. Len(g) + 1 /\ DOMAIN g = 1 .. Len(g)
            /\ Append(g, m)[Len(g) + 1] = m /\ \A j \in 1 .. Len(g) : Append(g, m)[j] = g[j]
        BY <4>1
      <4>3. i \in 1 .. Len(g) + 1
        BY <3>2, <4>2, Zenon DEF g
      <4>4. i \in 1 .. Len(g) \/ i = Len(g) + 1
        BY <4>2, <4>3
      <4> QED
        BY <3>2, <4>2, <4>4, Zenon DEF g
    <3> QED
      BY <3>1, <3>2, Zenon
  <2>6. \A x \in Messages : x = m => Spent(x[1], x[2], x[3])'
    BY <2>2, <2>3, Zenon
  <2>7. \A s \in Clients : \A i \in DOMAIN got'[s] :
           \A x \in Messages : x = got'[s][i] => Spent(x[1], x[2], x[3])'
    BY <1>3, <2>5, <2>6, Zenon
  <2> QED
    BY <1>a, <2>7, Zenon
<1>6. CASE UNCHANGED vars
  BY <1>4, <1>6, Zenon DEF vars
<1>7. ASSUME NEW c \in Clients, NEW cmd \in Repertoire[c], Receive(c, cmd) PROVE got' = got
  BY <1>7, Zenon DEF Receive
<1>8. ASSUME NEW c \in Clients,
             Ends(c) \/ PartAll(c) \/ WantWrite(c) \/ Write(c) \/ Publish(c) \/ Published(c)
      PROVE  got' = got
  BY <1>8, Zenon DEF Ends, Close, WriteFails, PartAll, WantWrite, Write, Publish, Published
<1>9. ASSUME NEW c \in Clients, Goes(c) PROVE got' = got
  BY <1>9, GoesQuietly, Zenon
<1> QED
  BY <1>4, <1>5, <1>6, <1>7, <1>8, <1>9, Zenon DEF Next, Progress, Ends, Goes

-----------------------------------------------------------------------------
\* A PUBLISH goes on as it was when nobody writes to a session or to the registry.
LEMMA DeliveringKept ==
  ASSUME NEW d \in Clients, Delivering(d), UNCHANGED <<chans, psubs, got>>,
         push'[d] = push[d], audience'[d] = audience[d], tasks'[d] = tasks[d], calls'[d] = calls[d],
         \A s \in Clients : ~sess[s].open => ~sess'[s].open
  PROVE  Delivering(d)'
<1>1. Message(d)' = Message(d)
  BY Zenon DEF Message
<1>2. \A s : Copies(s, Message(d))' = Copies(s, Message(d))
  BY <1>1, Zenon DEF Copies
<1>3. \A s : Written(s, Message(d))' = Written(s, Message(d))
  BY <1>2 DEF Written
<1>4. Registered(Head(tasks[d])[2])' = Registered(Head(tasks[d])[2])
  BY Zenon DEF Registered
<1> QED
  BY <1>2, <1>3, <1>4, Zenon DEF Delivering

\* The same for all of them.
LEMMA PushKept ==
  ASSUME PubSubInv, UNCHANGED <<chans, psubs, got, push, audience>>, readers' \subseteq readers,
         \A d \in readers' : tasks'[d] = tasks[d] /\ calls'[d] = calls[d],
         \A s \in Clients : ~sess[s].open => ~sess'[s].open
  PROVE  PushInv'
<1>1. readers \subseteq Clients /\ PushInv
  BY Zenon DEF PubSubInv, TypeInv
<1>2. ASSUME NEW d \in readers' PROVE Delivering(d)'
  BY <1>1, DeliveringKept, Zenon DEF PushInv
<1> QED
  BY <1>2, Zenon DEF PushInv

\* Where a message is once another (or the same) has been written.
LEMMA Another ==
  ASSUME NEW g \in Seq(Messages), NEW m \in Messages, NEW x
  PROVE  {i \in DOMAIN Append(g, m) : Append(g, m)[i] = x} =
            {i \in DOMAIN g : g[i] = x} \cup (IF m = x THEN {Len(g) + 1} ELSE {})
<1>1. /\ Len(g) \in Nat /\ DOMAIN Append(g, m) = 1 .. Len(g) + 1 /\ DOMAIN g = 1 .. Len(g)
      /\ Append(g, m)[Len(g) + 1] = m /\ \A j \in 1 .. Len(g) : Append(g, m)[j] = g[j]
  OBVIOUS
<1>2. 1 .. Len(g) + 1 = (1 .. Len(g)) \cup {Len(g) + 1}
  BY <1>1
<1> QED
  BY <1>1, <1>2, Zenon

\* A new PUBLISH has written to nobody and has everybody before it; one step of it moves one
\* session from those it has yet to write to to those that have the message.
LEMMA PushStep == ASSUME PubSubInv, [Next]_vars PROVE PushInv'
<1>0. TypeInv /\ LockInv /\ HoldInv /\ PushInv /\ FreshInv
  BY Zenon DEF PubSubInv
<1>1. ASSUME NEW c \in Clients, NEW cmd \in Repertoire[c], Receive(c, cmd) PROVE PushInv'
  <2>1. UNCHANGED <<chans, psubs, readers, sess, got, push, audience>> /\ tasks[c] = <<>>
    BY <1>1, Zenon DEF Receive, registry
  <2>2. c \notin readers
    BY <1>0, <2>1, Zenon DEF LockInv, Locking, At
  <2>3. \A d \in Clients \ {c} : tasks'[d] = tasks[d] /\ calls'[d] = calls[d]
    BY <1>0, <1>1, Zenon DEF Receive, TypeInv
  <2>4. readers \subseteq Clients
    BY <1>0, Zenon DEF TypeInv
  <2> QED
    BY <2>1, <2>2, <2>3, <2>4, PushKept, Zenon
<1>2. ASSUME NEW c \in Clients, Ends(c) PROVE PushInv'
  <2>0. Gone(c)
    BY <1>0, <1>2, EndsGone, Zenon
  <2>1. UNCHANGED <<chans, psubs, readers, got, push, audience, calls>>
    BY <2>0, Zenon DEF Gone
  <2>2. c \notin readers
    BY <2>0, Zenon DEF Gone
  <2>3. \A d \in Clients \ {c} : tasks'[d] = tasks[d] /\ sess'[d] = sess[d]
    BY <1>0, <2>0, Zenon DEF Gone, TypeInv
  <2>4. ~sess'[c].open
    BY <1>0, <2>0, Zenon DEF Gone, TypeInv, Sessions
  <2>5. readers \subseteq Clients
    BY <1>0, Zenon DEF TypeInv
  <2> QED
    BY <2>1, <2>2, <2>3, <2>4, <2>5, PushKept, Zenon
<1>3. ASSUME NEW c \in Clients, PartAll(c) PROVE PushInv'
  <2>1. UNCHANGED <<chans, psubs, readers, sess, got, push, audience, calls>> /\ Head(tasks[c])[1] = "part all"
    BY <1>3, Zenon DEF PartAll, registry
  <2>2. c \notin readers
    BY <1>0, <2>1, Zenon DEF LockInv, Locking, At
  <2>3. \A d \in Clients \ {c} : tasks'[d] = tasks[d]
    BY <1>0, <1>3, Zenon DEF PartAll, TypeInv
  <2>4. readers \subseteq Clients
    BY <1>0, Zenon DEF TypeInv
  <2> QED
    BY <2>1, <2>2, <2>3, <2>4, PushKept, Zenon
<1>4. ASSUME NEW c \in Clients, WantWrite(c) PROVE PushInv'
  <2> DEFINE t == Head(tasks[c])
  <2>1. /\ UNCHANGED <<chans, psubs, readers, got, push, audience, tasks, calls>>
        /\ tasks[c] # <<>>
        /\ sess' = CASE t[1] = "join" -> Joined(c, t[2])
                     [] t[1] = "part" -> Parted(c, t[2])
                     [] OTHER -> sess
    BY <1>4, Zenon DEF WantWrite
  <2>2. t \in Tasks
    BY <1>0, <2>1 DEF TypeInv
  <2> HIDE DEF t
  <2>3. \A d \in Clients : sess'[d].open = sess[d].open
    <3>1. t[1] \in {"join", "part"} => t[2] \in Names
      BY <2>2, TaskKinds, Zenon
    <3>2. CASE t[1] \in {"join", "part"}
      BY <1>0, <2>1, <3>1, <3>2, Noting
    <3>3. CASE t[1] \notin {"join", "part"}
      BY <2>1, <3>3, Zenon
    <3> QED
      BY <3>2, <3>3, Zenon
  <2> QED
    BY <2>1, <2>3, PushKept, Zenon
<1>5. ASSUME NEW c \in Clients, Write(c) PROVE PushInv'
  BY <1>5, Zenon DEF Write, PushInv
<1>6. ASSUME NEW c \in Clients, Publish(c) PROVE PushInv'
  <2> DEFINE t == Head(tasks[c])
             e == Encounters(t[2])
  <2>1. /\ UNCHANGED <<chans, psubs, sess, tasks, got, calls>> /\ readers' = readers \cup {c} /\ c \notin readers
        /\ push' = [push EXCEPT ![c] = Unseen(e)] /\ audience' = [audience EXCEPT ![c] = Registered(t[2])]
        /\ tasks[c] # <<>> /\ t[1] = "publish"
    BY <1>6, Zenon DEF Publish, Publishing
  <2>2. t \in Tasks /\ t[2] \in Channels
    <3>1. t \in Tasks
      BY <1>0, <2>1, SMTT(30) DEF TypeInv
    <3> QED
      BY <2>1, <3>1, TaskKinds, Zenon
  <2>3. readers \subseteq Clients
    BY <1>0, Zenon DEF TypeInv
  <2>4. ASSUME NEW d \in readers PROVE Delivering(d)'
    <3>1. push'[d] = push[d] /\ audience'[d] = audience[d] /\ d # c
      BY <1>0, <2>1, <2>3, Zenon DEF TypeInv
    <3>2. Delivering(d)
      BY <1>0, Zenon DEF PushInv
    <3> QED
      BY <2>1, <2>3, <3>1, <3>2, DeliveringKept, Zenon
  <2>5. Delivering(c)'
    <3>1. e \in Seq(Clients) /\ Range(e) = Registered(t[2])
      BY <1>0, <2>2, EncountersRegistered, Zenon
    <3>2. IsInjective(Unseen(e)) /\ Range(Unseen(e)) = Registered(t[2])
      <4> HIDE DEF e
      <4> QED
        BY <3>1, UnseenOnce, Zenon
    <3>3. push'[c] = Unseen(e) /\ audience'[c] = Registered(t[2])
      BY <1>0, <2>1, Zenon DEF TypeInv
    <3>4. Registered(t[2])' = Registered(t[2])
      BY <2>1, Zenon DEF Registered
    <3>5. Message(c)' = Message(c)
      BY <2>1, Zenon DEF Message
    <3>6. ASSUME NEW s \in Clients PROVE Copies(s, Message(c)) = {}
      <4> SUFFICES ASSUME NEW i \in DOMAIN got[s], got[s][i] = Message(c) PROVE FALSE
        BY Zenon DEF Copies
      <4>1. Spent(c, calls[c], Len(tasks[c]))
        BY <1>0 DEF FreshInv, Message
      <4>2. 1 \in DOMAIN tasks[c] /\ tasks[c][1] = t /\ Len(tasks[c]) \in Nat
        BY <1>0, <2>1, SMTT(30) DEF TypeInv
      <4> QED
        BY <2>1, <4>1, <4>2 DEF Spent
    <3>7. \A s \in Clients : Copies(s, Message(c))' = {}
      BY <2>1, <3>5, <3>6, Zenon DEF Copies
    <3> QED
      BY <2>1, <3>2, <3>3, <3>4, <3>7, Zenon DEF Delivering
  <2> QED
    BY <2>1, <2>4, <2>5, Zenon DEF PushInv
<1>7. ASSUME NEW c \in Clients, Push(c) PROVE PushInv'
  <2> DEFINE s0 == Head(push[c])
             m == Message(c)
  <2>0. PICK s1 : s1 = s0
    BY Zenon
  <2>1. /\ UNCHANGED <<chans, psubs, sess, tasks, calls, audience, readers>> /\ c \in readers /\ push[c] # <<>>
        /\ push' = [push EXCEPT ![c] = Tail(push[c])]
        /\ got' = [got EXCEPT ![s1] = IF sess[s1].open THEN Append(got[s1], m) ELSE got[s1]]
    BY <1>7, <2>0, Zenon DEF Push, WriteMessage, Publishing, registry
  <2>2. /\ got \in [Clients -> Seq(Messages)] /\ push \in [Clients -> Seq(Clients)] /\ readers \subseteq Clients
        /\ audience \in [Clients -> SUBSET Clients]
    BY <1>0, Zenon DEF TypeInv
  <2>3. Delivering(c)
    BY <1>0, <2>1, Zenon DEF PushInv
  <2>4. /\ push'[c] \in Seq(Clients) /\ IsInjective(push'[c]) /\ s1 \in Range(push[c]) /\ s1 \in Clients
        /\ Range(push'[c]) = Range(push[c]) \ {s1}
    <3>1. push'[c] = Tail(push[c]) /\ push[c] \in Seq(Clients)
      BY <2>1, <2>2, Zenon
    <3>2. IsInjective(push[c])
      BY <2>3, Zenon DEF Delivering
    <3> QED
      BY <2>0, <2>1, <3>1, <3>2, Popped
  <2>5. m \in Messages
    <3>1. tasks[c] # <<>> /\ Head(tasks[c]) \in Tasks /\ Head(tasks[c])[1] = "publish"
      BY <1>0, <2>1 DEF LockInv, Locking, At, TypeInv
    <3>2. Head(tasks[c])[2] \in Channels
      BY <3>1, TaskKinds, Zenon
    <3> QED
      BY <1>0, <3>2 DEF TypeInv, Messages, Message
  <2>6. \A d \in Clients : Message(d)' = Message(d) /\ Message(d)[1] = d
    BY <2>1, Zenon DEF Message
  <2> HIDE DEF s0, m
  <2>7. ASSUME NEW d \in Clients, NEW s \in Clients
        PROVE  Copies(s, Message(d))' =
                 Copies(s, Message(d)) \cup (IF d = c /\ s = s1 /\ sess[s].open THEN {Len(got[s]) + 1} ELSE {})
    <3>1. Copies(s, Message(d))' = {i \in DOMAIN got'[s] : got'[s][i] = Message(d)}
      BY <2>6, Zenon DEF Copies
    <3>2. Copies(s, Message(d)) = {i \in DOMAIN got[s] : got[s][i] = Message(d)}
      BY Zenon DEF Copies
    <3>3. m = Message(d) <=> d = c
      BY <2>6, Zenon DEF m
    <3>4. CASE s = s1 /\ sess[s].open
      <4>1. got'[s] = Append(got[s], m) /\ got[s] \in Seq(Messages)
        BY <2>1, <2>2, <3>4, Zenon
      <4> QED
        BY <2>5, <3>1, <3>2, <3>3, <3>4, <4>1, Another
    <3>5. CASE ~(s = s1 /\ sess[s].open)
      <4>1. got'[s] = got[s]
        BY <2>1, <2>2, <3>5, Zenon
      <4> QED
        BY <3>1, <3>2, <3>5, <4>1, Zenon
    <3> QED
      BY <3>4, <3>5, Zenon
  <2>8. \A d \in Clients : Registered(Head(tasks[d])[2])' = Registered(Head(tasks[d])[2])
    BY <2>1, Zenon DEF Registered
  <2>9. \A s \in Clients : \A i \in DOMAIN got[s] : i \in DOMAIN got'[s]
    <3> SUFFICES ASSUME NEW s \in Clients PROVE DOMAIN got[s] \subseteq DOMAIN got'[s]
      BY Zenon
    <3>1. got[s] \in Seq(Messages) /\ got'[s] \in {got[s], Append(got[s], m)}
      BY <2>1, <2>2, Zenon
    <3> QED
      BY <3>1
  <2>10. ASSUME NEW d \in readers, d # c PROVE Delivering(d)'
    <3>1. Delivering(d) /\ d \in Clients
      BY <1>0, <2>2, Zenon DEF PushInv
    <3>2. \A s \in Clients : Copies(s, Message(d))' = Copies(s, Message(d))
      BY <2>7, <2>10, <3>1, Zenon
    <3>3. \A s \in Clients : Written(s, Message(d)) => Written(s, Message(d))'
      BY <2>9, <3>2, Zenon DEF Written
    <3>4. push'[d] = push[d]
      BY <2>1, <2>2, <2>10, <3>1, Zenon
    <3> QED
      BY <2>1, <2>8, <3>1, <3>2, <3>3, <3>4, Zenon DEF Delivering
  <2>11. Delivering(c)'
    <3>1. s1 \in audience[c] /\ Copies(s1, Message(c)) = {}
      BY <2>3, <2>4, Zenon DEF Delivering
    <3>2. CASE sess[s1].open
      <4>1. Copies(s1, Message(c))' = {Len(got[s1]) + 1}
        BY <2>4, <2>7, <3>1, <3>2, Zenon
      <4>2. Len(got[s1]) + 1 \in DOMAIN got'[s1]
        <5>1. got'[s1] = Append(got[s1], m) /\ got[s1] \in Seq(Messages)
          BY <2>1, <2>2, <2>4, <3>2, Zenon
        <5> QED
          BY <2>5, <5>1
      <4>3. Written(s1, Message(c))'
        BY <4>1, <4>2, Zenon DEF Written
      <4>4. \A s \in Clients \ {s1} : Copies(s, Message(c))' = Copies(s, Message(c))
        BY <2>7, Zenon
      <4>5. \A s \in Clients \ {s1} : Written(s, Message(c)) => Written(s, Message(c))'
        BY <2>9, <4>4, Zenon DEF Written
      <4> QED
        BY <2>1, <2>3, <2>4, <2>8, <3>1, <4>3, <4>4, <4>5, Zenon DEF Delivering
    <3>3. CASE ~sess[s1].open
      <4>1. \A s \in Clients : Copies(s, Message(c))' = Copies(s, Message(c))
        BY <2>7, <3>3, Zenon
      <4>2. \A s \in Clients : Written(s, Message(c)) => Written(s, Message(c))'
        BY <2>9, <4>1, Zenon DEF Written
      <4> QED
        BY <2>1, <2>3, <2>4, <2>8, <3>1, <3>3, <4>1, <4>2, Zenon DEF Delivering
    <3> QED
      BY <3>2, <3>3, Zenon
  <2> QED
    BY <2>1, <2>10, <2>11, Zenon DEF PushInv
<1>8. ASSUME NEW c \in Clients, Published(c) PROVE PushInv'
  <2>1. UNCHANGED <<chans, psubs, sess, got, push, audience, calls>> /\ readers' = readers \ {c}
    BY <1>8, Zenon DEF Published
  <2>2. \A d \in Clients \ {c} : tasks'[d] = tasks[d]
    BY <1>0, <1>8, Zenon DEF Published, TypeInv
  <2>3. readers \subseteq Clients
    BY <1>0, Zenon DEF TypeInv
  <2> QED
    BY <2>1, <2>2, <2>3, PushKept, Zenon
<1>9. ASSUME NEW c \in Clients, Goes(c) PROVE PushInv'
  BY <1>9, GoesQuietly, PushKept, Zenon
<1>10. CASE UNCHANGED vars
  BY <1>10, PushKept, Zenon DEF vars
<1> QED
  BY <1>1, <1>2, <1>3, <1>4, <1>5, <1>6, <1>7, <1>8, <1>9, <1>10, Zenon DEF Next, Progress, Ends, Goes

-----------------------------------------------------------------------------
\* The invariant holds when the node starts.
LEMMA Starts == ASSUME Init PROVE PubSubInv
<1>1. TypeInv
  BY DEF Init, TypeInv, NewSession, Sessions
<1>2. LockInv /\ HoldInv
  BY DEF Init, LockInv, Locking, HoldInv, Holding, NewSession
<1>3. \A n \in Names : Listed(n) = <<>>
  BY Zenon DEF Init, Listed, Names
<1>4. \A c \in Clients : Noted(c) = {} /\ sess[c].open
  BY Zenon DEF Init, Noted, NewSession
<1>5. AgreeInv
  BY <1>3, <1>4, EmptyList, Zenon DEF Init, AgreeInv, Agrees, Asking
<1>6. PushInv /\ FreshInv
  <2>1. \A s \in Clients : DOMAIN got[s] = {}
    BY DEF Init
  <2> QED
    BY <2>1, Zenon DEF Init, PushInv, FreshInv
<1> QED
  BY <1>1, <1>2, <1>5, <1>6, Zenon DEF PubSubInv

\* Every step keeps the invariant.
LEMMA EveryStep == ASSUME PubSubInv, [Next]_vars PROVE PubSubInv'
BY TypeStep, HoldStep, AgreeStep, PushStep, FreshStep, Zenon DEF PubSubInv

(* The inductive invariant: the types, who has which mutex, the agreement of *)
(* sessions and registry, and where each PUBLISH stands.                    *)
THEOREM PubSubCorrect == Spec => []PubSubInv
BY Starts, EveryStep, PTL DEF Spec

(* subscription.go and the sessions' own sets: no session is in a list      *)
(* twice; between two commands both say the same, and a session that is     *)
(* gone is in no list (RemoveSessionFromAll).                               *)
THEOREM Registry == Spec => []RegistryAgrees
<1>1. ASSUME PubSubInv PROVE RegistryAgrees
  <2>1. TypeInv /\ LockInv /\ AgreeInv
    BY <1>1, Zenon DEF PubSubInv
  <2>2. \A ch \in Channels : Listed(ch) = chans[ch]
    BY Zenon DEF Listed
  <2>3. \A pat \in Patterns : Listed(pat) = psubs[pat]
    BY NamesFinite, Zenon DEF Listed
  <2>4. ASSUME NEW c \in Clients, tasks[c] = <<>>, NEW n \in Names
        PROVE  c \in Range(Listed(n)) <=> sess[c].open /\ n \in Noted(c)
    <3>1. Agrees(c, n) /\ c \notin waiting
      BY <2>1, <2>4, Zenon DEF AgreeInv, LockInv, Locking, At
    <3> QED
      BY <2>4, <3>1, Zenon DEF Agrees, Asking
  <2>5. \A c \in Clients : /\ \A ch \in Channels : ch \in Noted(c) <=> ch \in sess[c].SubChannels
                           /\ \A pat \in Patterns : pat \in Noted(c) <=> pat \in sess[c].PSubPatterns
    BY <2>1, NamesFinite, Zenon DEF TypeInv, Sessions, Noted
  <2> QED
    BY <2>1, <2>2, <2>3, <2>4, <2>5, Zenon DEF RegistryAgrees, AgreeInv, Names
<1> QED
  BY <1>1, PubSubCorrect, PTL

(* pushPubSubMessage and pushPMessage write only to a session that          *)
(* subscribes at that moment by its own account.                            *)
THEOREM OnlySubscribers == Spec => PushedToSubscribers
<1> DEFINE Told(c, s) == got'[s] # got[s] /\ push'[c] # push[c] =>
                            LET ch == Head(tasks[c])[2]
                            IN  \/ ch \in sess[s].SubChannels
                                \/ \E pat \in sess[s].PSubPatterns : <<pat, ch>> \in Matches
<1>1. ASSUME PubSubInv, [Next]_vars, NEW c \in Clients, NEW s \in Clients PROVE Told(c, s)
  <2>1. TypeInv /\ LockInv /\ HoldInv /\ AgreeInv /\ PushInv
    BY <1>1, Zenon DEF PubSubInv
  <2>2. ASSUME NEW d \in Clients, Push(d), got'[s] # got[s], push'[c] # push[c]
        PROVE  \/ Head(tasks[c])[2] \in sess[s].SubChannels
               \/ \E pat \in sess[s].PSubPatterns : <<pat, Head(tasks[c])[2]>> \in Matches
    <3> DEFINE ch == Head(tasks[c])[2]
    <3>1. /\ d \in readers /\ push[d] # <<>> /\ ~outMu[Head(push[d])]
          /\ push' = [push EXCEPT ![d] = Tail(push[d])]
          /\ got' = [got EXCEPT ![Head(push[d])] =
                        IF sess[Head(push[d])].open THEN Append(got[Head(push[d])], Message(d))
                        ELSE got[Head(push[d])]]
      BY <2>1, <2>2, Zenon DEF Push, WriteMessage, Publishing, Locked, HoldInv, Holding
    <3>2. c = d /\ s = Head(push[d]) /\ sess[s].open
      BY <2>1, <2>2, <3>1, Zenon DEF TypeInv
    <3>3. s \in Range(push[c])
      BY <2>1, <3>1, <3>2, Popped, Zenon DEF TypeInv, PushInv, Delivering
    <3>4. s \in Registered(ch)
      BY <2>1, <3>1, <3>2, <3>3 DEF PushInv, Delivering
    <3>5. tasks[s] = <<>>
      BY <2>1, <3>1, <3>2, Zenon DEF LockInv, Locking
    <3>6. s \notin waiting
      BY <2>1, <3>5, Zenon DEF LockInv, Locking, At
    <3>7. \A n \in Names : s \in Range(Listed(n)) => n \in Noted(s)
      BY <2>1, <3>2, <3>6, Zenon DEF AgreeInv, Agrees, Asking
    <3>8. ch \in Channels
      <4>1. tasks[c] # <<>> /\ Head(tasks[c])[1] = "publish"
        BY <2>1, <3>1, <3>2, Zenon DEF LockInv, Locking, At
      <4>2. Head(tasks[c]) \in Tasks
        BY <2>1, <4>1 DEF TypeInv
      <4> QED
        BY <4>1, <4>2, TaskKinds, Zenon
    <3> HIDE DEF ch
    <3>9. sess[s].SubChannels \subseteq Channels /\ sess[s].PSubPatterns \subseteq Patterns
      BY <2>1, Zenon DEF TypeInv, Sessions
    <3>10. CASE s \in Range(chans[ch])
      <4>1. ch \in Noted(s)
        BY <3>7, <3>8, <3>10, Zenon DEF Listed, Names
      <4> QED
        BY <3>8, <3>9, <4>1, NamesFinite, Zenon DEF Noted, ch
    <3>11. ASSUME NEW pat \in Patterns, <<pat, ch>> \in Matches, s \in Range(psubs[pat])
           PROVE  \E p \in sess[s].PSubPatterns : <<p, ch>> \in Matches
      <4>1. pat \in Noted(s) /\ pat \notin Channels
        BY <3>7, <3>11, NamesFinite, Zenon DEF Listed, Names
      <4> QED
        BY <3>9, <3>11, <4>1, Zenon DEF Noted
    <3> QED
      BY <3>4, <3>10, <3>11, Zenon DEF Registered, ch
  <2>3. ASSUME NEW d \in Clients, NEW cmd \in Repertoire[d], Receive(d, cmd) PROVE got' = got
    BY <2>3, Zenon DEF Receive
  <2>4. ASSUME NEW d \in Clients,
               Ends(d) \/ PartAll(d) \/ WantWrite(d) \/ Write(d) \/ Publish(d) \/ Published(d)
        PROVE  got' = got
    BY <2>4, Zenon DEF Ends, Close, WriteFails, PartAll, WantWrite, Write, Publish, Published
  <2>6. ASSUME NEW d \in Clients, Goes(d) PROVE got' = got
    BY <2>6, GoesQuietly, Zenon
  <2>5. CASE UNCHANGED vars
    BY <2>5, Zenon DEF vars
  <2> QED
    BY <1>1, <2>2, <2>3, <2>4, <2>5, <2>6, Zenon DEF Next, Progress, Ends, Goes
<1>2. PubSubInv /\ [Next]_vars =>
        [\A c, s \in Clients : got'[s] /= got[s] /\ push'[c] /= push[c] =>
            LET ch == Head(tasks[c])[2]
            IN  \/ ch \in sess[s].SubChannels
                \/ \E pat \in sess[s].PSubPatterns : <<pat, ch>> \in Matches]_vars
  BY <1>1, Zenon
<1> QED
  BY <1>2, PubSubCorrect, PTL DEF Spec, PushedToSubscribers

(* Publish: when it returns every session that was registered when it took  *)
(* the registry has the message exactly once, or was closed meanwhile; no   *)
(* other session has it.                                                    *)
THEOREM Audience == Spec => ReachesAudience
<1>1. ASSUME PubSubInv, [Next]_vars, NEW c \in Clients, Publishing(c), ~Publishing(c)', NEW s \in Clients
      PROVE  IF s \in audience[c]
             THEN \/ \E i \in DOMAIN got[s] : Copies(s, Message(c)) = {i}
                  \/ Copies(s, Message(c)) = {} /\ ~sess[s].open
             ELSE Copies(s, Message(c)) = {}
  <2>1. c \in readers /\ c \notin readers' /\ Delivering(c)
    BY <1>1, Zenon DEF Publishing, PubSubInv, PushInv
  <2>2. push[c] = <<>>
    <3>1. ASSUME NEW d \in Clients, NEW cmd \in Repertoire[d], Receive(d, cmd) PROVE readers' = readers
      BY <3>1, Zenon DEF Receive, registry
    <3>2. ASSUME NEW d \in Clients,
                 Ends(d) \/ PartAll(d) \/ WantWrite(d) \/ Write(d) \/ Push(d)
          PROVE  readers' = readers
      BY <3>2, Zenon DEF Ends, Close, WriteFails, PartAll, WantWrite, Write, Push, WriteMessage, registry
    <3>6. ASSUME NEW d \in Clients, Goes(d) PROVE readers' = readers
      BY <3>6, GoesQuietly, Zenon
    <3>3. ASSUME NEW d \in Clients, Publish(d) PROVE readers \subseteq readers'
      BY <3>3, Zenon DEF Publish
    <3>4. ASSUME NEW d \in Clients, Published(d) PROVE push[d] = <<>> /\ readers' = readers \ {d}
      BY <3>4, Zenon DEF Published
    <3>5. CASE UNCHANGED vars
      BY <2>1, <3>5, Zenon DEF vars
    <3> QED
      BY <1>1, <2>1, <3>1, <3>2, <3>3, <3>4, <3>5, <3>6, Zenon DEF Next, Progress, Ends, Goes
  <2>3. Range(push[c]) = {}
    BY <2>2, EmptyList, Zenon
  <2> QED
    BY <2>1, <2>3, Zenon DEF Delivering, Written
<1>2. PubSubInv /\ [Next]_vars =>
        [\A c \in Clients : Publishing(c) /\ ~Publishing(c)' =>
            \A s \in Clients :
                IF s \in audience[c]
                THEN \/ \E i \in DOMAIN got[s] : Copies(s, Message(c)) = {i}
                     \/ Copies(s, Message(c)) = {} /\ ~sess[s].open
                ELSE Copies(s, Message(c)) = {}]_vars
  BY <1>1, Zenon
<1> QED
  BY <1>2, PubSubCorrect, PTL DEF Spec, ReachesAudience
=============================================================================
