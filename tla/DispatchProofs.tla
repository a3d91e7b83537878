--------------------------- MODULE DispatchProofs ---------------------------
(***************************************************************************)
(* Theorems about the handoff of Dispatch, for any number of workers, of   *)
(* connections and of bytes in a notify pipe.                              *)
(***************************************************************************)
EXTENDS Dispatch, FiniteSetTheorems, TLAPS

-----------------------------------------------------------------------------
(* The inductive invariant.                                                *)

\* The main thread is done with the connection: it is attached.
Dispatched(c) ==
    \/ c < accepted
    \/ (c = accepted /\ mainPc \in {"notify", "loop"})

\* All that the worker w needs to find in the connection c is there.
Ready(c, w) == c \in fdKnown /\ attached[c] = w /\ Dispatched(c)

\* The last connection on the queue of w is pushed and not attached yet.
Fresh(w, i) ==
    /\ mainPc = "attach" /\ lastRecv = w
    /\ i = Len(cq[w]) /\ cq[w][i] = accepted

MainInv ==
    /\ accepted > 0 => Booted
    /\ mainPc # "loop" => accepted > 0
    /\ mainPc \in {"dispatch", "attach", "notify"} => accepted \in fdKnown
    /\ mainPc \in {"attach", "notify"} => lastRecv \in Workers

QueueInv ==
    \A w \in Workers : \A i \in 1 .. Len(cq[w]) : Ready(cq[w][i], w) \/ Fresh(w, i)

OpenInv ==
    \A w \in Workers : workerPc[w] = "open" =>
        taken[w] \in Conns /\ Ready(taken[w], w)

IInv ==
    /\ TypeOK
    /\ NotifyAccounting
    /\ MainInv
    /\ QueueInv
    /\ OpenInv

-----------------------------------------------------------------------------
(* Appending to a queue and taking its head, in the terms the proofs use.  *)

LEMMA AppendFacts ==
    ASSUME NEW S, NEW s \in Seq(S), NEW e \in S
    PROVE  /\ Append(s, e) \in Seq(S)
           /\ Len(Append(s, e)) = Len(s) + 1
           /\ \A i \in 1 .. Len(s) : Append(s, e)[i] = s[i]
           /\ Append(s, e)[Len(s) + 1] = e
  OBVIOUS

LEMMA TailFacts ==
    ASSUME NEW S, NEW s \in Seq(S), Len(s) > 0
    PROVE  /\ Head(s) = s[1]
           /\ Head(s) \in S
           /\ Tail(s) \in Seq(S)
           /\ Len(Tail(s)) = Len(s) - 1
           /\ \A i \in 1 .. Len(s) - 1 : Tail(s)[i] = s[i + 1]
  OBVIOUS

-----------------------------------------------------------------------------
(* The initial states satisfy the invariant.                               *)
LEMMA InitIInv == Init => IInv
<1> SUFFICES ASSUME Init PROVE IInv
  OBVIOUS
<1> USE ConstAssumption DEF Init
<1>1. TypeOK
  BY DEF TypeOK, Workers, Conns, NoWorker
<1>2. NotifyAccounting
  BY DEF NotifyAccounting, Taking, Unannounced
<1>3. MainInv
  BY DEF MainInv
<1>4. QueueInv
  BY DEF QueueInv
<1>5. OpenInv
  BY DEF OpenInv
<1>. QED
  BY <1>1, <1>2, <1>3, <1>4, <1>5 DEF IInv

-----------------------------------------------------------------------------
(* Every step of the main thread preserves it.                             *)
LEMMA MainPreserves == IInv /\ (Accept \/ MainStep) => IInv'
<1> SUFFICES ASSUME IInv, Accept \/ MainStep PROVE IInv'
  OBVIOUS
<1> USE ConstAssumption DEF IInv, TypeOK, mainVars, workerVars, Main
<1>1. CASE Construct
  BY <1>1 DEF Construct, Booted, Workers, Conns, NotifyAccounting, Taking, Unannounced,
     MainInv, QueueInv, OpenInv, Ready, Fresh, Dispatched
<1>2. CASE Accept
  <2>1. TypeOK'
    BY <1>2 DEF Accept, Conns, MainInv
  <2>2. NotifyAccounting'
    BY <1>2 DEF Accept, NotifyAccounting, Taking, Unannounced, MainInv
  <2>3. MainInv'
    BY <1>2 DEF Accept, MainInv, Booted, Conns
  <2>4. \A c \in Conns, w \in Workers : Ready(c, w) => Ready(c, w)'
    BY <1>2 DEF Accept, Ready, Dispatched, Conns
  <2>5. \A w \in Workers, i \in Nat : ~Fresh(w, i)
    BY <1>2 DEF Accept, Fresh
  <2>6. UNCHANGED <<cq, workerPc, taken>>
    BY <1>2 DEF Accept
  <2>7. QueueInv'
    BY <2>4, <2>5, <2>6 DEF QueueInv
  <2>8. OpenInv'
    BY <2>4, <2>6 DEF OpenInv
  <2>. QED
    BY <2>1, <2>2, <2>3, <2>7, <2>8
<1>3. CASE SetFd
  <2>1. TypeOK'
    BY <1>3 DEF SetFd, Conns, MainInv
  <2>2. NotifyAccounting'
    BY <1>3 DEF SetFd, NotifyAccounting, Taking, Unannounced, MainInv
  <2>3. MainInv'
    BY <1>3 DEF SetFd, MainInv, Booted, Conns
  <2>4. \A c \in Conns, w \in Workers : Ready(c, w) => Ready(c, w)'
    BY <1>3 DEF SetFd, Ready, Dispatched, Conns
  <2>5. \A w \in Workers, i \in Nat : ~Fresh(w, i)
    BY <1>3 DEF SetFd, Fresh
  <2>6. UNCHANGED <<cq, workerPc, taken>>
    BY <1>3 DEF SetFd
  <2>7. QueueInv'
    BY <2>4, <2>5, <2>6 DEF QueueInv
  <2>8. OpenInv'
    BY <2>4, <2>6 DEF OpenInv
  <2>. QED
    BY <2>1, <2>2, <2>3, <2>7, <2>8
<1>4. CASE Push
  <2> DEFINE w == NextWorker(lastRecv)
  <2>1. /\ w \in Workers
        /\ accepted \in Conns
        /\ mainPc = "dispatch" /\ mainPc' = "attach"
        /\ lastRecv' = w
        /\ cq' = [cq EXCEPT ![w] = Append(@, accepted)]
        /\ UNCHANGED <<boot, accepted, fdKnown, attached, pipe, workerPc, taken, bev>>
    BY <1>4 DEF Push, NextWorker, Workers, Conns, MainInv
  <2> HIDE DEF w
  <2>2. /\ cq' \in [Workers -> Seq(Conns)]
        /\ \A v \in Workers : v # w => cq'[v] = cq[v]
        /\ Len(cq'[w]) = Len(cq[w]) + 1
        /\ \A i \in 1 .. Len(cq[w]) : cq'[w][i] = cq[w][i]
        /\ cq'[w][Len(cq[w]) + 1] = accepted
    BY <2>1, AppendFacts
  <2>3. TypeOK'
    BY <2>1, <2>2 DEF Workers
  <2>4. NotifyAccounting'
    BY <2>1, <2>2 DEF NotifyAccounting, Taking, Unannounced
  <2>5. MainInv'
    BY <2>1 DEF MainInv, Booted
  <2>6. QueueInv'
    BY <2>1, <2>2 DEF QueueInv, Ready, Fresh, Dispatched
  <2>7. OpenInv'
    BY <2>1 DEF OpenInv, Ready, Dispatched
  <2>. QED
    BY <2>3, <2>4, <2>5, <2>6, <2>7
<1>5. CASE Attach
  <2>1. /\ accepted \in Conns /\ accepted \in fdKnown /\ lastRecv \in Workers
        /\ mainPc = "attach" /\ mainPc' = "notify"
        /\ attached' = [attached EXCEPT ![accepted] = lastRecv]
        /\ UNCHANGED <<boot, accepted, lastRecv, fdKnown, cq, pipe, workerPc, taken, bev>>
    BY <1>5 DEF Attach, Conns, MainInv
  <2>2. TypeOK'
    BY <2>1
  <2>3. NotifyAccounting'
    BY <2>1 DEF NotifyAccounting, Taking, Unannounced
  <2>4. MainInv'
    BY <2>1 DEF MainInv, Booted
  <2>5. \A c \in Conns, w \in Workers : Ready(c, w) => Ready(c, w)'
    BY <2>1 DEF Ready, Dispatched, Conns
  <2>6. QueueInv'
    <3> SUFFICES ASSUME NEW w \in Workers, NEW i \in 1 .. Len(cq[w])
                 PROVE  Ready(cq[w][i], w)'
      BY <2>1 DEF QueueInv
    <3>1. cq[w][i] \in Conns
      OBVIOUS
    <3>2. CASE Ready(cq[w][i], w)
      BY <2>1, <2>5, <3>1, <3>2
    <3>3. CASE Fresh(w, i)
      BY <2>1, <3>3 DEF Ready, Fresh, Dispatched
    <3>. QED
      BY <3>2, <3>3 DEF QueueInv
  <2>7. OpenInv'
    BY <2>1, <2>5 DEF OpenInv
  <2>. QED
    BY <2>2, <2>3, <2>4, <2>6, <2>7
<1>6. CASE Notify
  <2>1. TypeOK'
    BY <1>6 DEF Notify, Conns, MainInv
  <2>2. NotifyAccounting'
    BY <1>6 DEF Notify, NotifyAccounting, Taking, Unannounced, MainInv
  <2>3. MainInv'
    BY <1>6 DEF Notify, MainInv, Booted, Conns
  <2>4. \A c \in Conns, w \in Workers : Ready(c, w) => Ready(c, w)'
    BY <1>6 DEF Notify, Ready, Dispatched, Conns
  <2>5. \A w \in Workers, i \in Nat : ~Fresh(w, i)
    BY <1>6 DEF Notify, Fresh
  <2>6. UNCHANGED <<cq, workerPc, taken>>
    BY <1>6 DEF Notify
  <2>7. QueueInv'
    BY <2>4, <2>5, <2>6 DEF QueueInv
  <2>8. OpenInv'
    BY <2>4, <2>6 DEF OpenInv
  <2>. QED
    BY <2>1, <2>2, <2>3, <2>7, <2>8
<1>. QED
  BY <1>1, <1>2, <1>3, <1>4, <1>5, <1>6 DEF MainStep

-----------------------------------------------------------------------------
(* Every step of a worker preserves it.                                    *)
LEMMA WorkerPreserves == ASSUME NEW w \in Workers, IInv, WorkerStep(w) PROVE IInv'
<1> USE ConstAssumption DEF IInv, TypeOK, mainVars, workerVars, Worker
<1>1. CASE ReadNotify(w)
  BY <1>1 DEF ReadNotify, Booted, Conns, NotifyAccounting, Taking, Unannounced,
     MainInv, QueueInv, OpenInv, Ready, Fresh, Dispatched
<1>2. CASE Take(w)
  <2>1. /\ workerPc[w] = "take"
        /\ workerPc' = [workerPc EXCEPT ![w] = "open"]
        /\ taken' = [taken EXCEPT ![w] = Head(cq[w])]
        /\ cq' = [cq EXCEPT ![w] = Tail(@)]
        /\ UNCHANGED <<boot, mainPc, accepted, lastRecv, fdKnown, attached, pipe, bev>>
    BY <1>2 DEF Take
  <2>2. Len(cq[w]) = pipe[w] + 1 + Unannounced(w)
    BY <2>1 DEF NotifyAccounting, Taking
  <2>3. /\ Len(cq[w]) \in Nat /\ Len(cq[w]) > 0
        /\ mainPc = "attach" /\ lastRecv = w => Len(cq[w]) > 1
    BY <2>2 DEF Unannounced
  <2>4. /\ Head(cq[w]) = cq[w][1] /\ Head(cq[w]) \in Conns
        /\ cq' \in [Workers -> Seq(Conns)]
        /\ \A v \in Workers : v # w => cq'[v] = cq[v]
        /\ Len(cq'[w]) = Len(cq[w]) - 1
        /\ \A i \in 1 .. Len(cq[w]) - 1 : cq'[w][i] = cq[w][i + 1]
    BY <2>1, <2>3, TailFacts
  <2>5. TypeOK'
    BY <2>1, <2>4
  <2>6. NotifyAccounting'
    BY <2>1, <2>2, <2>4 DEF NotifyAccounting, Taking, Unannounced
  <2>7. MainInv'
    BY <2>1 DEF MainInv, Booted
  <2>8. QueueInv'
    <3> SUFFICES ASSUME NEW v \in Workers, NEW i \in 1 .. Len(cq'[v])
                 PROVE  (Ready(cq[v][i], v) \/ Fresh(v, i))'
      BY DEF QueueInv
    <3>1. CASE v # w
      BY <2>1, <2>4, <3>1 DEF QueueInv, Ready, Fresh, Dispatched
    <3>2. CASE v = w
      <4>1. i + 1 \in 1 .. Len(cq[w]) /\ cq'[w][i] = cq[w][i + 1]
        BY <2>3, <2>4, <3>2
      <4>2. Ready(cq[w][i + 1], w) \/ Fresh(w, i + 1)
        BY <4>1 DEF QueueInv
      <4>3. CASE Ready(cq[w][i + 1], w)
        BY <2>1, <3>2, <4>1, <4>3 DEF Ready, Dispatched
      <4>4. CASE Fresh(w, i + 1)
        <5>1. i = Len(cq'[w])
          BY <2>3, <2>4, <4>4 DEF Fresh
        <5>. QED
          BY <2>1, <3>2, <4>1, <4>4, <5>1 DEF Fresh
      <4>. QED
        BY <4>2, <4>3, <4>4
    <3>. QED
      BY <3>1, <3>2
  <2>9. OpenInv'
    <3>1. Ready(cq[w][1], w)
      BY <2>3 DEF QueueInv, Fresh
    <3>. QED
      BY <2>1, <2>4, <3>1 DEF OpenInv, Ready, Dispatched
  <2>. QED
    BY <2>5, <2>6, <2>7, <2>8, <2>9
<1>3. CASE OpenBev(w)
  BY <1>3 DEF OpenBev, Booted, Conns, NotifyAccounting, Taking, Unannounced,
     MainInv, QueueInv, OpenInv, Ready, Fresh, Dispatched
<1>. QED
  BY <1>1, <1>2, <1>3 DEF WorkerStep

-----------------------------------------------------------------------------
(* IInv holds in every state of every behaviour.                           *)
THEOREM IInvHolds == Spec => []IInv
<1>1. IInv /\ [Next]_vars => IInv'
  <2> SUFFICES ASSUME IInv, [Next]_vars PROVE IInv'
    OBVIOUS
  <2>1. CASE Accept \/ MainStep
    BY <2>1, MainPreserves
  <2>2. CASE \E w \in Workers : WorkerStep(w)
    BY <2>2, WorkerPreserves
  <2>3. CASE UNCHANGED vars
    BY <2>3 DEF vars, IInv, TypeOK, NotifyAccounting, Taking, Unannounced, MainInv,
       Booted, QueueInv, OpenInv, Ready, Fresh, Dispatched
  <2>. QED
    BY <2>1, <2>2, <2>3 DEF Next
<1>. QED
  BY InitIInv, <1>1, PTL DEF Spec

(* Every variable of the handoff keeps its type; in particular no notify   *)
(* pipe ever holds more than it can.                                       *)
THEOREM TypeCorrect == Spec => []TypeOK
<1>1. IInv => TypeOK
  BY DEF IInv
<1>. QED
  BY IInvHolds, <1>1, PTL

(* Queued connections and notify bytes stay in step, in every interleaving *)
(* of Dispatcher::dispatch with the workers' handle_notify.                *)
THEOREM NotifyAccounted == Spec => []NotifyAccounting
<1>1. IInv => NotifyAccounting
  BY DEF IInv
<1>. QED
  BY IInvHolds, <1>1, PTL

(* accept_new_connection never takes the front of an empty queue.          *)
THEOREM NoEmptyPop == Spec => []NeverPopsEmpty
<1>1. IInv => NeverPopsEmpty
  <2> SUFFICES ASSUME IInv, NEW w \in Workers, workerPc[w] = "take"
               PROVE  cq[w] # <<>>
    BY DEF NeverPopsEmpty
  <2>1. /\ cq[w] \in Seq(Conns) /\ pipe[w] \in Nat
        /\ Len(cq[w]) = pipe[w] + 1 + Unannounced(w)
    BY ConstAssumption DEF IInv, TypeOK, NotifyAccounting, Taking
  <2>2. Len(cq[w]) > 0
    BY <2>1 DEF Unannounced
  <2>. QED
    BY <2>1, <2>2
<1>. QED
  BY IInvHolds, <1>1, PTL

(* A worker that opens a connection finds its descriptor, its worker and   *)
(* the worker's server in place, with no lock between the two threads.     *)
THEOREM OpenedReady == Spec => []ReadyWhenOpened
<1>1. IInv => ReadyWhenOpened
  <2> SUFFICES ASSUME IInv, NEW w \in Workers, workerPc[w] = "open"
               PROVE  taken[w] \in fdKnown /\ attached[taken[w]] = w /\ HasServer(w)
    BY DEF ReadyWhenOpened
  <2>1. taken[w] \in Conns /\ Ready(taken[w], w)
    BY DEF IInv, OpenInv
  <2>2. accepted \in Nat /\ accepted > 0
    BY <2>1, ConstAssumption DEF Ready, Dispatched, Conns, IInv, TypeOK
  <2>3. boot = 2 * NumWorkers
    BY <2>2 DEF IInv, MainInv, Booted
  <2>4. HasServer(w)
    BY <2>3, ConstAssumption DEF HasServer, Workers
  <2>. QED
    BY <2>1, <2>4 DEF Ready
<1>. QED
  BY IInvHolds, <1>1, PTL

-----------------------------------------------------------------------------
(* The order of the connections: which worker each goes to, where it waits *)
(* and what is before it.  These facts are inductive on top of IInv.       *)

\* The worker a connection goes to, the rotation being what it is.
Owner(c) == (c - 1) % NumWorkers

LastPushed == IF mainPc \in {"created", "dispatch"} THEN accepted - 1 ELSE accepted

RotationInv == lastRecv = IF LastPushed = 0 THEN -1 ELSE Owner(LastPushed)

AttachedInv ==
    \A c \in Conns : attached[c] = IF Dispatched(c) THEN Owner(c) ELSE NoWorker

UnpushedInv == \A c \in Conns : ~Pushed(c) => bev[c] = "none"

\* A connection that is pushed for the worker w and not settled yet.
WaitsFor(c, w) == Pushed(c) /\ Owner(c) = w /\ bev[c] = "none"

InQueue(c, w) == \E i \in 1 .. Len(cq[w]) : cq[w][i] = c
Opens(c, w)   == workerPc[w] = "open" /\ taken[w] = c

QueuedInv ==
    \A w \in Workers : \A i \in 1 .. Len(cq[w]) : WaitsFor(cq[w][i], w)

SortedInv ==
    \A w \in Workers : \A i, j \in 1 .. Len(cq[w]) : i < j => cq[w][i] < cq[w][j]

\* The place of a connection in a queue is no more than its number.
DepthInv == \A w \in Workers : \A i \in 1 .. Len(cq[w]) : i <= cq[w][i]

OpenedInv ==
    \A w \in Workers : workerPc[w] = "open" =>
        /\ WaitsFor(taken[w], w)
        /\ \A i \in 1 .. Len(cq[w]) : taken[w] < cq[w][i]

NoneLost ==
    \A c \in Conns : \A w \in Workers :
        WaitsFor(c, w) => InQueue(c, w) \/ Opens(c, w)

PlacesInv ==
    /\ UnpushedInv
    /\ QueuedInv
    /\ SortedInv
    /\ DepthInv
    /\ OpenedInv
    /\ NoneLost

OrderInv == RotationInv /\ AttachedInv /\ PlacesInv

-----------------------------------------------------------------------------
(* Division with remainder has one answer.                                 *)
LEMMA Remainder ==
    ASSUME NEW a \in Nat, NEW d \in Nat \ {0}, NEW q \in Nat,
           NEW r \in 0 .. d - 1, a = d * q + r
    PROVE  a % d = r
<1> DEFINE s == a % d
           p == a \div d
<1>1. s \in 0 .. d - 1 /\ p \in Int /\ a = d * p + s
  OBVIOUS
<1> HIDE DEF s, p
<1>2. d * (p - q) = r - s
  BY <1>1
<1>3. p = q
  <2>1. CASE p - q >= 1
    <3>1. d * (p - q) >= d
      BY <1>1, <2>1
    <3>. QED
      BY <1>1, <1>2, <3>1
  <2>2. CASE p - q <= -1
    <3>1. d * (p - q) <= -d
      BY <1>1, <2>2
    <3>. QED
      BY <1>1, <1>2, <3>1
  <2>. QED
    BY <1>1, <2>1, <2>2
<1>4. s = r
  BY <1>1, <1>3
<1>. QED
  BY <1>4 DEF s

(* NextWorker takes the worker of a connection to that of the next one.    *)
LEMMA OwnerFacts ==
    ASSUME NEW n \in Nat
    PROVE  /\ n > 0 => Owner(n) \in Workers
           /\ Owner(1) = 0
           /\ NextWorker(-1) = 0
           /\ n > 0 => NextWorker(Owner(n)) = Owner(n + 1)
<1>1. NumWorkers \in Nat /\ NumWorkers > 0
  BY ConstAssumption
<1>2. n > 0 => Owner(n) \in Workers
  BY <1>1 DEF Owner, Workers
<1>3. Owner(1) = 0 /\ NextWorker(-1) = 0
  BY <1>1 DEF Owner, NextWorker
<1>4. ASSUME n > 0 PROVE NextWorker(Owner(n)) = Owner(n + 1)
  <2> DEFINE q == (n - 1) \div NumWorkers
             r == (n - 1) % NumWorkers
  <2>1. /\ q \in Nat /\ r \in 0 .. NumWorkers - 1
        /\ n - 1 = NumWorkers * q + r
    BY <1>1, <1>4
  <2>2. NextWorker(Owner(n)) = (r + 1) % NumWorkers /\ Owner(n + 1) = n % NumWorkers
    BY DEF NextWorker, Owner
  <2> HIDE DEF q, r
  <2>3. CASE r + 1 < NumWorkers
    <3>1. (r + 1) % NumWorkers = r + 1
      BY <1>1, <2>1, <2>3
    <3>2. n % NumWorkers = r + 1
      BY <1>1, <1>4, <2>1, <2>3, Remainder
    <3>. QED
      BY <2>2, <3>1, <3>2
  <2>4. CASE r + 1 = NumWorkers
    <3>1. (r + 1) % NumWorkers = 0
      BY <1>1, <2>4
    <3>2. n = NumWorkers * (q + 1) + 0
      BY <1>1, <2>1, <2>4
    <3>3. n % NumWorkers = 0
      BY <1>1, <2>1, <3>2, Remainder
    <3>. QED
      BY <2>2, <3>1, <3>3
  <2>. QED
    BY <1>1, <2>1, <2>3, <2>4
<1>. QED
  BY <1>2, <1>3, <1>4

-----------------------------------------------------------------------------
(* The initial states satisfy the order facts.                             *)
LEMMA InitOrderInv == Init => OrderInv
<1> SUFFICES ASSUME Init PROVE OrderInv
  OBVIOUS
<1>1. RotationInv
  BY DEF Init, RotationInv, LastPushed
<1>2. \A c \in Conns : ~Pushed(c) /\ ~Dispatched(c)
  BY ConstAssumption DEF Init, Pushed, Dispatched, Conns
<1>3. AttachedInv
  BY <1>2 DEF Init, AttachedInv
<1>4. UnpushedInv /\ NoneLost
  BY <1>2 DEF Init, UnpushedInv, NoneLost, WaitsFor
<1>5. QueuedInv /\ SortedInv /\ DepthInv /\ OpenedInv
  BY DEF Init, QueuedInv, SortedInv, DepthInv, OpenedInv
<1>. QED
  BY <1>1, <1>3, <1>4, <1>5 DEF OrderInv, PlacesInv

-----------------------------------------------------------------------------
(* A step that pushes, takes and settles nothing leaves every connection   *)
(* in its place.                                                           *)
LEMMA PlacesStay ==
    ASSUME IInv, PlacesInv, UNCHANGED <<cq, taken, bev>>,
           \A c \in Conns : Pushed(c)' <=> Pushed(c),
           \A w \in Workers : workerPc'[w] = "open" <=> workerPc[w] = "open"
    PROVE  PlacesInv'
<1>1. /\ \A w \in Workers : \A i \in 1 .. Len(cq[w]) : cq[w][i] \in Conns
      /\ \A w \in Workers : workerPc[w] = "open" => taken[w] \in Conns
  BY DEF IInv, TypeOK, OpenInv
<1>2. \A c \in Conns, w \in Workers : WaitsFor(c, w)' <=> WaitsFor(c, w)
  BY DEF WaitsFor, Owner
<1>3. UnpushedInv'
  BY DEF PlacesInv, UnpushedInv
<1>4. QueuedInv'
  BY <1>1, <1>2 DEF PlacesInv, QueuedInv
<1>5. SortedInv' /\ DepthInv'
  BY DEF PlacesInv, SortedInv, DepthInv
<1>6. OpenedInv'
  BY <1>1, <1>2 DEF PlacesInv, OpenedInv
<1>7. NoneLost'
  BY <1>1, <1>2 DEF PlacesInv, NoneLost, InQueue, Opens
<1>. QED
  BY <1>3, <1>4, <1>5, <1>6, <1>7 DEF PlacesInv

(* The steps that leave every connection where it is, and with the worker  *)
(* it has.                                                                 *)
LEMMA QuietPreserves ==
    ASSUME IInv, OrderInv,
           \/ Construct \/ Accept \/ SetFd \/ Notify
           \/ \E w \in Workers : ReadNotify(w)
           \/ UNCHANGED vars
    PROVE  OrderInv'
<1>1. /\ UNCHANGED <<cq, taken, bev, attached, lastRecv>>
      /\ \A w \in Workers : workerPc'[w] = "open" <=> workerPc[w] = "open"
  <2>1. workerPc \in [Workers -> {"loop", "take", "open"}]
    BY DEF IInv, TypeOK
  <2>. QED
    BY <2>1 DEF Construct, Accept, SetFd, Notify, ReadNotify, Worker, Main, vars, mainVars,
       workerVars
<1>2. /\ accepted \in Nat
      /\ mainPc # "loop" => accepted > 0
  BY ConstAssumption DEF IInv, TypeOK, MainInv
<1>3. /\ LastPushed' = LastPushed
      /\ \A c \in Conns : Pushed(c)' <=> Pushed(c)
      /\ \A c \in Conns : Dispatched(c)' <=> Dispatched(c)
  BY <1>2 DEF Construct, Accept, SetFd, Notify, ReadNotify, Worker, Main, vars, mainVars,
     workerVars, LastPushed, Pushed, Dispatched, Conns
<1>4. RotationInv'
  BY <1>1, <1>3 DEF OrderInv, RotationInv, Owner
<1>5. AttachedInv'
  BY <1>1, <1>3 DEF OrderInv, AttachedInv, Owner
<1>6. PlacesInv'
  BY <1>1, <1>3, PlacesStay DEF OrderInv
<1>. QED
  BY <1>4, <1>5, <1>6 DEF OrderInv

(* add_conn attaches the connection it has just pushed.                    *)
LEMMA AttachPreserves == ASSUME IInv, OrderInv, Attach PROVE OrderInv'
<1>1. /\ mainPc = "attach" /\ mainPc' = "notify"
      /\ attached' = [attached EXCEPT ![accepted] = lastRecv]
      /\ UNCHANGED <<boot, accepted, lastRecv, fdKnown, cq, pipe, workerPc, taken, bev>>
  BY DEF Attach, Main, workerVars
<1>2. accepted \in Conns /\ accepted > 0 /\ attached \in [Conns -> Workers \cup {NoWorker}]
  BY <1>1, ConstAssumption DEF IInv, TypeOK, MainInv, Conns
<1>3. LastPushed' = LastPushed /\ LastPushed = accepted
  BY <1>1 DEF LastPushed
<1>4. RotationInv'
  BY <1>1, <1>3 DEF OrderInv, RotationInv, Owner
<1>5. AttachedInv'
  <2> SUFFICES ASSUME NEW c \in Conns
               PROVE  attached'[c] = IF Dispatched(c)' THEN Owner(c) ELSE NoWorker
    BY DEF AttachedInv, Owner
  <2>1. CASE c = accepted
    <3>1. attached'[c] = lastRecv /\ lastRecv = Owner(accepted)
      BY <1>1, <1>2, <1>3, <2>1 DEF OrderInv, RotationInv
    <3>. QED
      BY <1>1, <2>1, <3>1 DEF Dispatched
  <2>2. CASE c # accepted
    <3>1. attached'[c] = attached[c] /\ Dispatched(c)' = Dispatched(c)
      BY <1>1, <1>2, <2>2 DEF Dispatched
    <3>. QED
      BY <3>1 DEF OrderInv, AttachedInv
  <2>. QED
    BY <2>1, <2>2
<1>6. \A c \in Conns : Pushed(c)' <=> Pushed(c)
  BY <1>1 DEF Pushed
<1>7. PlacesInv'
  BY <1>1, <1>6, PlacesStay DEF OrderInv
<1>. QED
  BY <1>4, <1>5, <1>7 DEF OrderInv

(* dispatch gives the connection to the next worker and puts it last.      *)
LEMMA PushPreserves == ASSUME IInv, OrderInv, Push PROVE OrderInv'
<1> DEFINE w == NextWorker(lastRecv)
<1>1. /\ mainPc = "dispatch" /\ mainPc' = "attach" /\ lastRecv' = w
      /\ cq' = [cq EXCEPT ![w] = Append(@, accepted)]
      /\ UNCHANGED <<boot, accepted, fdKnown, attached, pipe, workerPc, taken, bev>>
  BY DEF Push, Main, workerVars
<1>2. accepted \in Conns /\ accepted \in Nat /\ accepted > 0
  BY <1>1, ConstAssumption DEF IInv, TypeOK, MainInv, Conns
<1>3. w = Owner(accepted) /\ w \in Workers
  <2>1. LastPushed = accepted - 1
    BY <1>1 DEF LastPushed
  <2>2. CASE accepted = 1
    <3>1. lastRecv = -1
      BY <2>1, <2>2 DEF OrderInv, RotationInv
    <3>2. w = 0
      BY <3>1, OwnerFacts, 1 \in Nat
    <3>. QED
      BY <2>2, <3>2, OwnerFacts, 1 \in Nat
  <2>3. CASE accepted > 1
    <3>1. accepted - 1 \in Nat /\ accepted - 1 > 0 /\ (accepted - 1) + 1 = accepted
      BY <1>2, <2>3
    <3>2. lastRecv = Owner(accepted - 1)
      BY <2>1, <3>1 DEF OrderInv, RotationInv
    <3>3. w = Owner((accepted - 1) + 1)
      BY <3>1, <3>2, OwnerFacts
    <3>. QED
      BY <1>2, <3>1, <3>3, OwnerFacts
  <2>. QED
    BY <1>2, <2>2, <2>3
<1>4. cq \in [Workers -> Seq(Conns)]
  BY DEF IInv, TypeOK
<1> HIDE DEF w
<1>5. /\ \A v \in Workers : v # w => cq'[v] = cq[v]
      /\ Len(cq[w]) \in Nat
      /\ Len(cq'[w]) = Len(cq[w]) + 1
      /\ \A i \in 1 .. Len(cq[w]) : cq'[w][i] = cq[w][i]
      /\ cq'[w][Len(cq[w]) + 1] = accepted
  <2>1. cq[w] \in Seq(Conns) /\ cq'[w] = Append(cq[w], accepted)
    BY <1>1, <1>3, <1>4
  <2>. QED
    BY <1>1, <1>2, <1>4, <2>1, AppendFacts
<1>6. /\ \A c \in Conns : Pushed(c) => c < accepted
      /\ \A c \in Conns : Pushed(c)' <=> Pushed(c) \/ c = accepted
  BY <1>1 DEF Pushed
<1>7. \A c \in Conns, v \in Workers :
        WaitsFor(c, v)' <=> WaitsFor(c, v) \/ (c = accepted /\ v = w)
  <2>1. bev[accepted] = "none"
    BY <1>2, <1>6 DEF OrderInv, PlacesInv, UnpushedInv
  <2>. QED
    BY <1>1, <1>2, <1>3, <1>6, <2>1 DEF WaitsFor, Owner
<1>8. RotationInv'
  BY <1>1, <1>2, <1>3 DEF RotationInv, LastPushed, Owner
<1>9. AttachedInv'
  <2>1. \A c \in Conns : Dispatched(c)' <=> Dispatched(c)
    BY <1>1 DEF Dispatched
  <2>. QED
    BY <1>1, <2>1 DEF OrderInv, AttachedInv, Owner
<1>10. UnpushedInv'
  BY <1>1, <1>6 DEF OrderInv, PlacesInv, UnpushedInv
<1>11. \A v \in Workers : \A i \in 1 .. Len(cq[v]) :
         cq[v][i] \in Conns /\ WaitsFor(cq[v][i], v) /\ cq[v][i] < accepted
  BY <1>4, <1>6 DEF OrderInv, PlacesInv, QueuedInv, WaitsFor
<1>12. QueuedInv'
  <2> SUFFICES ASSUME NEW v \in Workers, NEW i \in 1 .. Len(cq'[v])
               PROVE  WaitsFor(cq[v][i], v)'
    BY DEF QueuedInv
  <2>1. CASE v = w /\ i = Len(cq[w]) + 1
    BY <1>2, <1>3, <1>5, <1>7, <2>1
  <2>2. CASE ~(v = w /\ i = Len(cq[w]) + 1)
    <3>1. i \in 1 .. Len(cq[v]) /\ cq'[v][i] = cq[v][i]
      BY <1>5, <2>2
    <3>. QED
      BY <1>7, <1>11, <3>1
  <2>. QED
    BY <2>1, <2>2
<1>13. SortedInv'
  <2> SUFFICES ASSUME NEW v \in Workers, NEW i \in 1 .. Len(cq'[v]),
                      NEW j \in 1 .. Len(cq'[v]), i < j
               PROVE  cq'[v][i] < cq'[v][j]
    BY DEF SortedInv
  <2>1. CASE v = w /\ j = Len(cq[w]) + 1
    <3>1. i \in 1 .. Len(cq[w]) /\ cq'[v][i] = cq[w][i] /\ cq'[v][j] = accepted
      BY <1>5, <2>1
    <3>. QED
      BY <1>3, <1>11, <3>1
  <2>2. CASE ~(v = w /\ j = Len(cq[w]) + 1)
    <3>1. /\ i \in 1 .. Len(cq[v]) /\ cq'[v][i] = cq[v][i]
          /\ j \in 1 .. Len(cq[v]) /\ cq'[v][j] = cq[v][j]
      BY <1>5, <2>2
    <3>. QED
      BY <3>1 DEF OrderInv, PlacesInv, SortedInv
  <2>. QED
    BY <2>1, <2>2
<1>14. OpenedInv'
  <2> SUFFICES ASSUME NEW v \in Workers, workerPc[v] = "open"
               PROVE  /\ WaitsFor(taken[v], v)'
                      /\ \A i \in 1 .. Len(cq'[v]) : taken[v] < cq'[v][i]
    BY <1>1 DEF OpenedInv
  <2>1. /\ taken[v] \in Conns /\ WaitsFor(taken[v], v) /\ taken[v] < accepted
        /\ \A i \in 1 .. Len(cq[v]) : taken[v] < cq[v][i]
    BY <1>6 DEF OrderInv, PlacesInv, OpenedInv, WaitsFor, IInv, OpenInv
  <2>2. \A i \in 1 .. Len(cq'[v]) : taken[v] < cq'[v][i]
    BY <1>5, <2>1
  <2>3. WaitsFor(taken[v], v)'
    BY <1>1, <1>7, <2>1
  <2>. QED
    BY <2>2, <2>3
<1>15. NoneLost'
  <2> SUFFICES ASSUME NEW c \in Conns, NEW v \in Workers, WaitsFor(c, v)'
               PROVE  InQueue(c, v)' \/ Opens(c, v)'
    BY DEF NoneLost
  <2>1. CASE c = accepted /\ v = w
    BY <1>5, <2>1 DEF InQueue
  <2>2. CASE WaitsFor(c, v)
    <3>1. InQueue(c, v) \/ Opens(c, v)
      BY <2>2 DEF OrderInv, PlacesInv, NoneLost
    <3>2. InQueue(c, v) => InQueue(c, v)'
      BY <1>5 DEF InQueue
    <3>3. Opens(c, v) => Opens(c, v)'
      BY <1>1 DEF Opens
    <3>. QED
      BY <3>1, <3>2, <3>3
  <2>. QED
    BY <1>7, <2>1, <2>2
<1>16. DepthInv'
  <2> SUFFICES ASSUME NEW v \in Workers, NEW i \in 1 .. Len(cq'[v])
               PROVE  i <= cq'[v][i]
    BY DEF DepthInv
  <2>1. CASE v = w /\ i = Len(cq[w]) + 1
    <3>1. CASE Len(cq[w]) = 0
      BY <1>2, <1>5, <2>1, <3>1
    <3>2. CASE Len(cq[w]) > 0
      <4>1. Len(cq[w]) \in 1 .. Len(cq[w]) /\ cq[w][Len(cq[w])] \in Nat
        <5>1. Len(cq[w]) \in 1 .. Len(cq[w])
          BY <1>5, <3>2
        <5>2. cq[w][Len(cq[w])] \in Conns
          BY <1>3, <1>11, <5>1
        <5>. QED
          BY <5>1, <5>2, ConstAssumption DEF Conns
      <4>2. Len(cq[w]) <= cq[w][Len(cq[w])] /\ cq[w][Len(cq[w])] < accepted
        BY <1>3, <1>11, <4>1 DEF OrderInv, PlacesInv, DepthInv
      <4>. QED
        BY <1>2, <1>5, <2>1, <4>1, <4>2
    <3>. QED
      BY <1>5, <3>1, <3>2
  <2>2. CASE ~(v = w /\ i = Len(cq[w]) + 1)
    <3>1. i \in 1 .. Len(cq[v]) /\ cq'[v][i] = cq[v][i]
      BY <1>5, <2>2
    <3>. QED
      BY <3>1 DEF OrderInv, PlacesInv, DepthInv
  <2>. QED
    BY <2>1, <2>2
<1>. QED
  BY <1>8, <1>9, <1>10, <1>12, <1>13, <1>14, <1>15, <1>16 DEF OrderInv, PlacesInv

(* accept_new_connection takes the oldest connection of the worker.        *)
LEMMA TakePreserves ==
    ASSUME IInv, OrderInv, NEW w \in Workers, Take(w) PROVE OrderInv'
<1>1. /\ workerPc[w] = "take" /\ workerPc' = [workerPc EXCEPT ![w] = "open"]
      /\ taken' = [taken EXCEPT ![w] = Head(cq[w])]
      /\ cq' = [cq EXCEPT ![w] = Tail(@)]
      /\ UNCHANGED <<boot, mainPc, accepted, lastRecv, fdKnown, attached, pipe, bev>>
  BY DEF Take, Worker, mainVars
<1>2. /\ cq \in [Workers -> Seq(Conns)] /\ taken \in [Workers -> Conns \cup {0}]
      /\ workerPc \in [Workers -> {"loop", "take", "open"}]
  BY DEF IInv, TypeOK
<1>3. Len(cq[w]) \in Nat /\ Len(cq[w]) > 0
  <2>1. Len(cq[w]) = pipe[w] + 1 + Unannounced(w) /\ pipe[w] \in Nat
    BY <1>1, ConstAssumption DEF IInv, TypeOK, NotifyAccounting, Taking
  <2>. QED
    BY <2>1 DEF Unannounced
<1>4. /\ \A v \in Workers : v # w => cq'[v] = cq[v]
      /\ Len(cq'[w]) = Len(cq[w]) - 1
      /\ \A i \in 1 .. Len(cq[w]) - 1 : cq'[w][i] = cq[w][i + 1]
  <2>1. cq[w] \in Seq(Conns) /\ cq'[w] = Tail(cq[w])
    BY <1>1, <1>2
  <2>. QED
    BY <1>1, <1>2, <1>3, <2>1, TailFacts
<1>5. /\ \A v \in Workers : v # w => taken'[v] = taken[v] /\ workerPc'[v] = workerPc[v]
      /\ taken'[w] = cq[w][1] /\ workerPc'[w] = "open"
  <2>1. cq[w] \in Seq(Conns)
    BY <1>2
  <2>2. Head(cq[w]) = cq[w][1]
    BY <1>3, <2>1, TailFacts
  <2>. QED
    BY <1>1, <1>2, <2>2
<1>6. \A c \in Conns : Pushed(c)' <=> Pushed(c)
  BY <1>1 DEF Pushed
<1>7. \A c \in Conns, v \in Workers : WaitsFor(c, v)' <=> WaitsFor(c, v)
  BY <1>1, <1>6 DEF WaitsFor, Owner
<1>8. RotationInv' /\ AttachedInv'
  BY <1>1 DEF OrderInv, RotationInv, LastPushed, AttachedInv, Dispatched, Owner
<1>9. UnpushedInv'
  BY <1>1, <1>6 DEF OrderInv, PlacesInv, UnpushedInv
<1>10. \A v \in Workers : \A i \in 1 .. Len(cq[v]) :
         cq[v][i] \in Conns /\ WaitsFor(cq[v][i], v)
  BY <1>2 DEF OrderInv, PlacesInv, QueuedInv
<1>11. \A v \in Workers : \A i \in 1 .. Len(cq'[v]) :
         \E j \in 1 .. Len(cq[v]) : /\ cq'[v][i] = cq[v][j]
                                    /\ j = IF v = w THEN i + 1 ELSE i
  <2> SUFFICES ASSUME NEW v \in Workers, NEW i \in 1 .. Len(cq'[v])
               PROVE  \E j \in 1 .. Len(cq[v]) : /\ cq'[v][i] = cq[v][j]
                                                 /\ j = IF v = w THEN i + 1 ELSE i
    OBVIOUS
  <2>1. CASE v = w
    <3>1. i + 1 \in 1 .. Len(cq[w]) /\ cq'[w][i] = cq[w][i + 1]
      BY <1>3, <1>4, <2>1
    <3>. QED
      BY <2>1, <3>1
  <2>2. CASE v # w
    BY <1>4, <2>2
  <2>. QED
    BY <2>1, <2>2
<1>12. QueuedInv'
  <2> SUFFICES ASSUME NEW v \in Workers, NEW i \in 1 .. Len(cq'[v])
               PROVE  WaitsFor(cq[v][i], v)'
    BY DEF QueuedInv
  <2>1. PICK j \in 1 .. Len(cq[v]) : cq'[v][i] = cq[v][j]
    BY <1>11
  <2>. QED
    BY <1>7, <1>10, <2>1
<1>13. SortedInv'
  <2> SUFFICES ASSUME NEW v \in Workers, NEW i \in 1 .. Len(cq'[v]),
                      NEW j \in 1 .. Len(cq'[v]), i < j
               PROVE  cq'[v][i] < cq'[v][j]
    BY DEF SortedInv
  <2>1. PICK k \in 1 .. Len(cq[v]) :
          cq'[v][i] = cq[v][k] /\ k = IF v = w THEN i + 1 ELSE i
    BY <1>11
  <2>2. PICK l \in 1 .. Len(cq[v]) :
          cq'[v][j] = cq[v][l] /\ l = IF v = w THEN j + 1 ELSE j
    BY <1>11
  <2>3. k < l
    BY <2>1, <2>2
  <2>. QED
    BY <2>1, <2>2, <2>3 DEF OrderInv, PlacesInv, SortedInv
<1>14. OpenedInv'
  <2> SUFFICES ASSUME NEW v \in Workers, workerPc'[v] = "open"
               PROVE  /\ WaitsFor(taken[v], v)'
                      /\ \A i \in 1 .. Len(cq'[v]) : taken'[v] < cq'[v][i]
    BY DEF OpenedInv
  <2>1. CASE v = w
    <3>1. 1 \in 1 .. Len(cq[w])
      BY <1>3
    <3>2. WaitsFor(taken[v], v)'
      BY <1>5, <1>7, <1>10, <2>1, <3>1
    <3>3. ASSUME NEW i \in 1 .. Len(cq'[v]) PROVE taken'[v] < cq'[v][i]
      <4>1. PICK j \in 1 .. Len(cq[w]) : cq'[w][i] = cq[w][j] /\ j = i + 1
        BY <1>11, <2>1
      <4>2. cq[w][1] < cq[w][j]
        BY <3>1, <4>1 DEF OrderInv, PlacesInv, SortedInv
      <4>. QED
        BY <1>5, <2>1, <4>1, <4>2
    <3>. QED
      BY <3>2, <3>3
  <2>2. CASE v # w
    <3>1. /\ taken[v] \in Conns /\ WaitsFor(taken[v], v)
          /\ \A i \in 1 .. Len(cq[v]) : taken[v] < cq[v][i]
      BY <1>5, <2>2 DEF OrderInv, PlacesInv, OpenedInv, IInv, OpenInv
    <3>. QED
      BY <1>4, <1>5, <1>7, <2>2, <3>1
  <2>. QED
    BY <2>1, <2>2
<1>15. NoneLost'
  <2> SUFFICES ASSUME NEW c \in Conns, NEW v \in Workers, WaitsFor(c, v)
               PROVE  InQueue(c, v)' \/ Opens(c, v)'
    BY <1>7 DEF NoneLost
  <2>1. InQueue(c, v) \/ Opens(c, v)
    BY DEF OrderInv, PlacesInv, NoneLost
  <2>2. CASE v # w
    BY <1>4, <1>5, <2>1, <2>2 DEF InQueue, Opens
  <2>3. CASE v = w
    <3>1. PICK i \in 1 .. Len(cq[w]) : cq[w][i] = c
      BY <1>1, <2>1, <2>3 DEF InQueue, Opens
    <3>2. CASE i = 1
      BY <1>5, <2>3, <3>1, <3>2 DEF Opens
    <3>3. CASE i # 1
      <4>1. i - 1 \in 1 .. Len(cq'[w]) /\ i - 1 \in 1 .. Len(cq[w]) - 1 /\ (i - 1) + 1 = i
        BY <1>3, <1>4, <3>3
      <4>2. cq'[w][i - 1] = c
        BY <1>4, <3>1, <4>1
      <4>. QED
        BY <2>3, <4>1, <4>2 DEF InQueue
    <3>. QED
      BY <3>2, <3>3
  <2>. QED
    BY <2>2, <2>3
<1>16. DepthInv'
  <2> SUFFICES ASSUME NEW v \in Workers, NEW i \in 1 .. Len(cq'[v])
               PROVE  i <= cq'[v][i]
    BY DEF DepthInv
  <2>1. PICK j \in 1 .. Len(cq[v]) :
          cq'[v][i] = cq[v][j] /\ j = IF v = w THEN i + 1 ELSE i
    BY <1>11
  <2>2. cq[v][j] \in Int /\ j <= cq[v][j]
    BY <1>10 DEF OrderInv, PlacesInv, DepthInv, Conns
  <2>. QED
    BY <2>1, <2>2
<1>. QED
  BY <1>8, <1>9, <1>12, <1>13, <1>14, <1>15, <1>16 DEF OrderInv, PlacesInv

(* The worker settles the connection it took: bufferevent_socket_new       *)
(* succeeded or failed.                                                    *)
LEMMA OpenPreserves ==
    ASSUME IInv, OrderInv, NEW w \in Workers, OpenBev(w) PROVE OrderInv'
<1>1. /\ workerPc[w] = "open" /\ workerPc' = [workerPc EXCEPT ![w] = "loop"]
      /\ UNCHANGED <<boot, mainPc, accepted, lastRecv, fdKnown, attached, pipe, cq, taken>>
  BY DEF OpenBev, Worker, mainVars
<1>2. PICK result \in {"enabled", "failed"} : bev' = [bev EXCEPT ![taken[w]] = result]
  BY DEF OpenBev
<1>3. /\ bev \in [Conns -> {"none", "enabled", "failed"}]
      /\ workerPc \in [Workers -> {"loop", "take", "open"}]
      /\ cq \in [Workers -> Seq(Conns)]
      /\ taken[w] \in Conns
  BY <1>1 DEF IInv, TypeOK, OpenInv
<1>4. /\ bev'[taken[w]] # "none"
      /\ \A c \in Conns : c # taken[w] => bev'[c] = bev[c]
  BY <1>2, <1>3
<1>5. /\ WaitsFor(taken[w], w)
      /\ \A i \in 1 .. Len(cq[w]) : taken[w] < cq[w][i]
  BY <1>1 DEF OrderInv, PlacesInv, OpenedInv
<1>6. \A c \in Conns : Pushed(c)' <=> Pushed(c)
  BY <1>1 DEF Pushed
<1>7. \A c \in Conns, v \in Workers :
        WaitsFor(c, v)' <=> WaitsFor(c, v) /\ c # taken[w]
  BY <1>4, <1>6 DEF WaitsFor, Owner
<1>8. RotationInv' /\ AttachedInv'
  BY <1>1 DEF OrderInv, RotationInv, LastPushed, AttachedInv, Dispatched, Owner
<1>9. UnpushedInv'
  BY <1>4, <1>5, <1>6 DEF OrderInv, PlacesInv, UnpushedInv, WaitsFor
<1>10. QueuedInv'
  <2> SUFFICES ASSUME NEW v \in Workers, NEW i \in 1 .. Len(cq[v])
               PROVE  WaitsFor(cq[v][i], v)'
    BY <1>1 DEF QueuedInv
  <2>1. cq[v][i] \in Conns /\ WaitsFor(cq[v][i], v)
    BY <1>3 DEF OrderInv, PlacesInv, QueuedInv
  <2>2. cq[v][i] # taken[w]
    <3>1. CASE v = w
      BY <1>3, <1>5, <3>1 DEF Conns
    <3>2. CASE v # w
      BY <1>5, <2>1, <3>2 DEF WaitsFor
    <3>. QED
      BY <3>1, <3>2
  <2>3. WaitsFor(cq[v][i], v)' <=> WaitsFor(cq[v][i], v)
    BY <1>1, <1>7, <2>1, <2>2
  <2>. QED
    BY <2>1, <2>3
<1>11. SortedInv' /\ DepthInv'
  BY <1>1 DEF OrderInv, PlacesInv, SortedInv, DepthInv
<1>12. OpenedInv'
  <2> SUFFICES ASSUME NEW v \in Workers, workerPc'[v] = "open"
               PROVE  /\ WaitsFor(taken[v], v)'
                      /\ \A i \in 1 .. Len(cq[v]) : taken[v] < cq[v][i]
    BY <1>1 DEF OpenedInv
  <2>1. v # w /\ workerPc[v] = "open"
    BY <1>1, <1>3
  <2>2. /\ taken[v] \in Conns /\ WaitsFor(taken[v], v)
        /\ \A i \in 1 .. Len(cq[v]) : taken[v] < cq[v][i]
    BY <2>1 DEF OrderInv, PlacesInv, OpenedInv, IInv, OpenInv
  <2>3. taken[v] # taken[w]
    BY <1>5, <2>1, <2>2 DEF WaitsFor
  <2>. QED
    BY <1>1, <1>7, <2>2, <2>3
<1>13. NoneLost'
  <2> SUFFICES ASSUME NEW c \in Conns, NEW v \in Workers, WaitsFor(c, v), c # taken[w]
               PROVE  InQueue(c, v)' \/ Opens(c, v)'
    BY <1>7 DEF NoneLost
  <2>1. InQueue(c, v) \/ Opens(c, v)
    BY DEF OrderInv, PlacesInv, NoneLost
  <2>2. InQueue(c, v) => InQueue(c, v)'
    BY <1>1 DEF InQueue
  <2>3. Opens(c, v) => Opens(c, v)'
    BY <1>1, <1>3 DEF Opens
  <2>. QED
    BY <2>1, <2>2, <2>3
<1>. QED
  BY <1>8, <1>9, <1>10, <1>11, <1>12, <1>13 DEF OrderInv, PlacesInv

(* The order facts hold in every state of every behaviour.                 *)
THEOREM OrderInvHolds == Spec => []OrderInv
<1>1. IInv /\ OrderInv /\ [Next]_vars => OrderInv'
  <2> SUFFICES ASSUME IInv, OrderInv, [Next]_vars PROVE OrderInv'
    OBVIOUS
  <2>1. CASE Push
    BY <2>1, PushPreserves
  <2>2. CASE Attach
    BY <2>2, AttachPreserves
  <2>3. CASE \E w \in Workers : Take(w)
    BY <2>3, TakePreserves
  <2>4. CASE \E w \in Workers : OpenBev(w)
    BY <2>4, OpenPreserves
  <2>5. CASE \/ Construct \/ Accept \/ SetFd \/ Notify
             \/ \E w \in Workers : ReadNotify(w)
             \/ UNCHANGED vars
    BY <2>5, QuietPreserves
  <2>. QED
    BY <2>1, <2>2, <2>3, <2>4, <2>5 DEF Next, MainStep, WorkerStep
<1>. QED
  BY IInvHolds, InitOrderInv, <1>1, PTL DEF Spec

-----------------------------------------------------------------------------
(* A connection is in one place of one queue, or in none.                  *)
LEMMA OnePosition ==
    ASSUME IInv, OrderInv, NEW c \in Conns
    PROVE  /\ WaitsFor(c, Owner(c)) /\ InQueue(c, Owner(c))
                => Cardinality(Positions(c)) = 1
           /\ (\A w \in Workers : ~InQueue(c, w)) => Cardinality(Positions(c)) = 0
<1>1. cq \in [Workers -> Seq(Conns)]
  BY DEF IInv, TypeOK
<1>2. ASSUME NEW w \in Workers, NEW i \in 1 .. Len(cq[w]), cq[w][i] = c
      PROVE  i \in Conns /\ w = Owner(c)
  <2>1. i <= cq[w][i] /\ WaitsFor(cq[w][i], w)
    BY DEF OrderInv, PlacesInv, DepthInv, QueuedInv
  <2>. QED
    BY <1>2, <2>1, ConstAssumption DEF Conns, WaitsFor
<1>3. ASSUME NEW w \in Workers, NEW i \in 1 .. Len(cq[w]), cq[w][i] = c,
             NEW v \in Workers, NEW j \in 1 .. Len(cq[v]), cq[v][j] = c
      PROVE  v = w /\ j = i
  <2>1. v = w
    BY <1>2, <1>3
  <2>2. ~(i < j) /\ ~(j < i)
    <3>1. c \in Int
      BY DEF Conns
    <3>. QED
      BY <1>3, <2>1, <3>1 DEF OrderInv, PlacesInv, SortedInv
  <2>. QED
    BY <1>1, <2>1, <2>2
<1>4. ASSUME WaitsFor(c, Owner(c)), InQueue(c, Owner(c))
      PROVE  Cardinality(Positions(c)) = 1
  <2>1. c \in Nat /\ c > 0
    BY ConstAssumption DEF Conns
  <2>2. Owner(c) \in Workers
    BY <2>1, OwnerFacts
  <2>3. PICK i \in 1 .. Len(cq[Owner(c)]) : cq[Owner(c)][i] = c
    BY <1>4 DEF InQueue
  <2>4. Positions(c) = {<<Owner(c), i>>}
    <3>1. <<Owner(c), i>> \in Positions(c)
      <4>1. i <= Len(cq[Owner(c)]) /\ i \in Conns
        BY <1>2, <2>2, <2>3
      <4>. QED
        BY <2>2, <2>3, <4>1 DEF Positions
    <3>2. ASSUME NEW p \in Positions(c) PROVE p = <<Owner(c), i>>
      <4>1. /\ p = <<p[1], p[2]>> /\ p[1] \in Workers /\ p[2] \in Conns
            /\ p[2] <= Len(cq[p[1]]) /\ cq[p[1]][p[2]] = c
        BY DEF Positions
      <4>2. p[2] \in 1 .. Len(cq[p[1]])
        BY <1>1, <4>1 DEF Conns
      <4>3. p[1] = Owner(c) /\ p[2] = i
        BY <1>3, <2>2, <2>3, <4>1, <4>2
      <4>. QED
        BY <4>1, <4>3
    <3>. QED
      BY <3>1, <3>2
  <2>. QED
    BY <2>4, FS_Singleton
<1>5. ASSUME \A w \in Workers : ~InQueue(c, w)
      PROVE  Cardinality(Positions(c)) = 0
  <2>1. Positions(c) = {}
    <3> SUFFICES ASSUME NEW p \in Positions(c) PROVE FALSE
      OBVIOUS
    <3>1. /\ p[1] \in Workers /\ p[2] \in Conns
          /\ p[2] <= Len(cq[p[1]]) /\ cq[p[1]][p[2]] = c
      BY DEF Positions
    <3>2. p[2] \in 1 .. Len(cq[p[1]])
      BY <1>1, <3>1 DEF Conns
    <3>. QED
      BY <1>5, <3>1, <3>2 DEF InQueue
  <2>. QED
    BY <2>1, FS_EmptySet
<1>. QED
  BY <1>4, <1>5

(* A connection is held once from the moment it is pushed: none is         *)
(* dropped by dispatch or accept_new_connection, none is served twice      *)
(* (dispatcher.cpp:21-35, libevent_thread.cpp:59-90).                      *)
THEOREM HeldOnce == Spec => []OneHolder
<1>1. IInv /\ OrderInv => OneHolder
  <2> SUFFICES ASSUME IInv, OrderInv, NEW c \in Conns
               PROVE  Cardinality(Positions(c)) + Cardinality(Openers(c))
                         + (IF bev[c] = "none" THEN 0 ELSE 1)
                      = (IF Pushed(c) THEN 1 ELSE 0)
    BY DEF OneHolder
  <2> DEFINE w == Owner(c)
  <2>1. w \in Workers
    BY OwnerFacts, ConstAssumption DEF Conns
  <2> HIDE DEF w
  <2>2. \A v \in Workers : InQueue(c, v) => WaitsFor(c, v)
    BY DEF OrderInv, PlacesInv, QueuedInv, InQueue
  <2>3. \A v \in Workers : Opens(c, v) =>
          WaitsFor(c, v) /\ \A i \in 1 .. Len(cq[v]) : c < cq[v][i]
    BY DEF OrderInv, PlacesInv, OpenedInv, Opens
  <2>4. Openers(c) = {v \in Workers : Opens(c, v)}
    BY DEF Openers, Opens
  <2>5. \A v \in Workers : WaitsFor(c, v) <=> Pushed(c) /\ v = w /\ bev[c] = "none"
    BY DEF WaitsFor, w
  <2>6. CASE Pushed(c) /\ bev[c] = "none" /\ Opens(c, w)
    <3>1. Openers(c) = {w}
      BY <2>1, <2>3, <2>4, <2>5, <2>6
    <3>2. \A v \in Workers : ~InQueue(c, v)
      <4>1. c \in Int
        BY DEF Conns
      <4>. QED
        BY <2>2, <2>3, <2>5, <2>6, <4>1 DEF InQueue
    <3>3. Cardinality(Openers(c)) = 1 /\ Cardinality(Positions(c)) = 0
      BY <3>1, <3>2, OnePosition, FS_Singleton
    <3>. QED
      BY <2>6, <3>3
  <2>7. CASE Pushed(c) /\ bev[c] = "none" /\ ~Opens(c, w)
    <3>1. WaitsFor(c, w) /\ InQueue(c, w)
      BY <2>1, <2>5, <2>7 DEF OrderInv, PlacesInv, NoneLost
    <3>2. Cardinality(Positions(c)) = 1
      BY <3>1, OnePosition DEF w
    <3>3. Openers(c) = {}
      BY <2>3, <2>4, <2>5, <2>7
    <3>4. Cardinality(Openers(c)) = 0
      BY <3>3, FS_EmptySet
    <3>. QED
      BY <2>7, <3>2, <3>4
  <2>8. CASE bev[c] # "none" \/ ~Pushed(c)
    <3>1. \A v \in Workers : ~InQueue(c, v) /\ ~Opens(c, v)
      BY <2>2, <2>3, <2>5, <2>8
    <3>2. Cardinality(Positions(c)) = 0 /\ Cardinality(Openers(c)) = 0
      BY <2>4, <3>1, OnePosition, FS_EmptySet
    <3>3. Pushed(c) <=> bev[c] # "none"
      BY <2>8 DEF OrderInv, PlacesInv, UnpushedInv
    <3>. QED
      BY <3>2, <3>3
  <2>. QED
    BY <2>6, <2>7, <2>8
<1>. QED
  BY IInvHolds, OrderInvHolds, <1>1, PTL

-----------------------------------------------------------------------------
(* The handoff implements the abstract one.                                *)

\* Abstract!Spec without its fairness.
AbstractSafety == Abstract!Init /\ [][Abstract!Next]_(Abstract!vars)

(* add_conn gives the connection to the next worker in rotation.           *)
LEMMA AttachAssigns ==
    ASSUME IInv, OrderInv, Attach, NEW c, c = accepted
    PROVE  Abstract!Assign(c)
<1>1. /\ mainPc = "attach" /\ attached' = [attached EXCEPT ![accepted] = lastRecv]
      /\ bev' = bev
  BY DEF Attach, Main, workerVars
<1>2. accepted \in Conns /\ accepted > 0
  BY <1>1, ConstAssumption DEF IInv, TypeOK, MainInv, Conns
<1>3. lastRecv = (accepted - 1) % NumWorkers
  BY <1>1, <1>2 DEF OrderInv, RotationInv, LastPushed, Owner
<1>4. attached[accepted] = NoWorker
  BY <1>1, <1>2 DEF OrderInv, AttachedInv, Dispatched, Conns
<1>5. ASSUME NEW d \in Conns, d < accepted PROVE attached[d] # NoWorker
  <2>1. d \in Nat /\ d > 0
    BY DEF Conns
  <2>2. attached[d] = Owner(d)
    BY <1>5 DEF OrderInv, AttachedInv, Dispatched
  <2>. QED
    BY <2>1, <2>2, OwnerFacts DEF Workers, NoWorker
<1>. QED
  BY <1>1, <1>2, <1>3, <1>4, <1>5 DEF Abstract!Assign, Abstract!NoWorker, NoWorker,
     Abstract!Conns, Conns

(* A worker settles the oldest of the connections it was given.            *)
LEMMA OpenSettles ==
    ASSUME IInv, OrderInv, NEW w \in Workers, OpenBev(w), NEW oldest, oldest = taken[w]
    PROVE  Abstract!Settle(w, oldest)
<1>1. /\ workerPc[w] = "open" /\ attached' = attached
      /\ taken[w] \in Conns /\ Ready(taken[w], w)
      /\ WaitsFor(taken[w], w) /\ \A i \in 1 .. Len(cq[w]) : taken[w] < cq[w][i]
  BY DEF OpenBev, Worker, mainVars, IInv, OpenInv, OrderInv, PlacesInv, OpenedInv
<1>2. attached[taken[w]] = w /\ bev[taken[w]] = "none"
  BY <1>1 DEF Ready, WaitsFor
<1>3. PICK result \in {"enabled", "failed"} : bev' = [bev EXCEPT ![taken[w]] = result]
  BY DEF OpenBev
<1>4. \A c \in Conns : bev'[c] # "none" <=> bev[c] # "none" \/ c = taken[w]
  BY <1>1, <1>3 DEF IInv, TypeOK
<1>5. ASSUME NEW d \in Conns, d < taken[w], attached[d] = w, bev[d] = "none"
      PROVE  FALSE
  <2>1. d \in Int /\ taken[w] \in Int
    BY <1>1 DEF Conns
  <2>2. Dispatched(d) /\ w = Owner(d)
    BY <1>5 DEF OrderInv, AttachedInv, NoWorker, Workers
  <2>3. WaitsFor(d, w)
    BY <1>5, <2>2 DEF WaitsFor, Dispatched, Pushed
  <2>4. InQueue(d, w) \/ Opens(d, w)
    BY <2>3 DEF OrderInv, PlacesInv, NoneLost
  <2>. QED
    BY <1>1, <1>5, <2>1, <2>4 DEF InQueue, Opens
<1>6. {c \in Conns : bev[c] # "none"}' = {c \in Conns : bev[c] # "none"} \cup {taken[w]}
  BY <1>1, <1>4 DEF Conns
<1>. QED
  BY <1>1, <1>2, <1>5, <1>6 DEF Abstract!Settle, Abstract!Conns, Conns

(* The handoff implements the abstract one: connections are assigned in    *)
(* rotation in acceptance order, and each worker settles its own oldest    *)
(* first.  Fairness apart, this is ImplementsHandoff                       *)
(* (dispatcher.cpp:21-35, libevent_thread.cpp:59-90).                      *)
THEOREM HandoffInOrder == Spec => AbstractSafety
<1>1. Init => Abstract!Init
  BY DEF Init, Abstract!Init, Abstract!Conns, Conns, Abstract!NoWorker, NoWorker
<1>2. IInv /\ OrderInv /\ [Next]_vars => [Abstract!Next]_(Abstract!vars)
  <2> SUFFICES ASSUME IInv, OrderInv, [Next]_vars
               PROVE  Abstract!Next \/ UNCHANGED Abstract!vars
    OBVIOUS
  <2>1. CASE Attach
    <3>1. PICK c \in Abstract!Conns : c = accepted
      BY <2>1, ConstAssumption
         DEF Attach, Main, IInv, TypeOK, MainInv, Abstract!Conns
    <3>2. Abstract!Assign(c)
      BY <2>1, <3>1, AttachAssigns
    <3>. QED
      BY <3>2 DEF Abstract!Next
  <2>2. CASE \E w \in Workers : OpenBev(w)
    <3>1. PICK w \in Workers : OpenBev(w)
      BY <2>2
    <3>2. PICK c \in Conns : c = taken[w]
      BY <3>1 DEF OpenBev, Worker, IInv, OpenInv
    <3>3. c \in Abstract!Conns /\ w \in Abstract!Workers
      BY DEF Conns, Workers, Abstract!Conns, Abstract!Workers
    <3>4. Abstract!Settle(w, c)
      BY <3>1, <3>2, OpenSettles
    <3>. QED
      BY <3>3, <3>4 DEF Abstract!Next
  <2>3. CASE \/ Construct \/ Accept \/ SetFd \/ Push \/ Notify
             \/ \E w \in Workers : ReadNotify(w) \/ Take(w)
             \/ UNCHANGED vars
    <3>1. UNCHANGED <<attached, bev>>
      BY <2>3 DEF Construct, Accept, SetFd, Push, Notify, ReadNotify, Take, vars,
         mainVars, workerVars
    <3>. QED
      BY <3>1 DEF Abstract!vars
  <2>. QED
    BY <2>1, <2>2, <2>3 DEF Next, MainStep, WorkerStep
<1>. QED
  BY IInvHolds, OrderInvHolds, <1>1, <1>2, PTL DEF Spec, AbstractSafety

=============================================================================
