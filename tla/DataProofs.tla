----------------------------- MODULE DataProofs -----------------------------
(***************************************************************************)
(* Theorems about the data commands, from DataSession and from ListSend.   *)
(*                                                                         *)
(* A session, for any number of commands, of descriptors and of pops:      *)
(* every queued request is in one place, the requests lost behind the      *)
(* cursor of the queue are bounded, a client that waits for its commands   *)
(* gets its own transfers, and a transfer ends once.                       *)
(*                                                                         *)
(* What LIST makes and sends, for any directory and any connection: the    *)
(* list is in order, and it goes out as the abstract transfer says.        *)
(***************************************************************************)
EXTENDS DataSession, ListSend, FiniteSetTheorems, SequenceTheorems,
        WellFoundedInduction, TLAPS

-----------------------------------------------------------------------------
(* The inductive invariant.                                                *)

\* The queue's memory holds the commands that were not refused, in order.
SlotsInv ==
    /\ \A j \in DOMAIN slots : slots[j] \in DOMAIN cmds /\ cmds[slots[j]] \notin Refusals
    /\ \A r \in DOMAIN cmds : cmds[r] \notin Refusals => \E j \in DOMAIN slots : slots[j] = r
    /\ \A i, j \in DOMAIN slots : i < j => slots[i] < slots[j]

\* The request is in a slot that the cursor has passed.
Behind(r) == \E j \in DOMAIN slots : j <= front /\ slots[j] = r

\* A request is paired once.  With an event it is active until it ended, and
\* without one it is neither.
PairsInv ==
    /\ \A i \in DOMAIN pairs : pairs[i].req # 0 =>
          /\ Behind(pairs[i].req)
          /\ fate[pairs[i].req] = "none" <=> (pairs[i].armed => pairs[i].req \in active)
    /\ \A i \in DOMAIN pairs : pairs[i].armed => pairs[i].req # 0
    /\ \A i, k \in DOMAIN pairs :
          pairs[i].req = pairs[k].req /\ pairs[i].req # 0 => i = k

ActiveInv ==
    \A r \in active : \E i \in DOMAIN pairs : pairs[i].req = r /\ pairs[i].armed

EndedInv == \A r \in Requests : fate[r] # "none" => Behind(r)

\* The destructor leaves no request in the queue and nobody at the listener.
ClosedInv == ~open => front >= Len(slots) /\ ~listening

\* How far the cursor is past the last slot: each request pushed while it is
\* there will be lost.
Overrun == IF front > Len(slots) THEN front - Len(slots) ELSE 0

LossInv ==
    /\ LossBounded
    /\ Running => Cardinality(Lost) + Overrun <= Cardinality(NullPops)

\* The client did its part, and so did the operating system.
InStep == ~early /\ \A i \in DOMAIN pairs : pairs[i].conn # 0

\* The connections at the listener are those of the requests at the front of
\* the queue, and the client has opened none for the requests behind them.
AlignInv ==
    /\ ~early => reached <= Len(cmds)
    /\ open /\ InStep =>
          /\ front + Len(backlog) <= Len(slots)
          /\ \A i \in DOMAIN backlog : backlog[i] = slots[front + i]
          /\ \A j \in DOMAIN slots : slots[j] <= reached <=> j <= front + Len(backlog)

IInv ==
    /\ TypeOK
    /\ SlotsInv
    /\ PairsInv
    /\ ActiveInv
    /\ EndedInv
    /\ ClosedInv
    /\ LossInv
    /\ AlignInv
    /\ OwnConnection

-----------------------------------------------------------------------------
(* Operators and types, in the terms the proofs use.                       *)

Outcome == [conn : Requests \cup {0}, req : Requests \cup {0}, armed : BOOLEAN]

LEMMA AppendFacts ==
    ASSUME NEW S, NEW s \in Seq(S), NEW e \in S
    PROVE  /\ Append(s, e) \in Seq(S)
           /\ Len(Append(s, e)) = Len(s) + 1
           /\ DOMAIN Append(s, e) = 1 .. Len(s) + 1
           /\ \A i \in 1 .. Len(s) : Append(s, e)[i] = s[i]
           /\ Append(s, e)[Len(s) + 1] = e
  OBVIOUS

LEMMA TypeFacts ==
    ASSUME IInv
    PROVE  /\ cmds \in Seq(Kinds \cup Refusals) /\ Len(cmds) \in Nat
           /\ slots \in Seq(Requests) /\ Len(slots) \in Nat
           /\ backlog \in Seq(Requests) /\ Len(backlog) \in Nat
           /\ pairs \in Seq(Outcome) /\ Len(pairs) \in Nat
           /\ DOMAIN cmds = 1 .. Len(cmds) /\ DOMAIN slots = 1 .. Len(slots)
           /\ DOMAIN backlog = 1 .. Len(backlog) /\ DOMAIN pairs = 1 .. Len(pairs)
           /\ front \in Nat /\ reached \in Nat
           /\ MaxCmds \in Nat /\ FdLimit \in Nat /\ FdLimit >= 2
           /\ active \in SUBSET Requests
           /\ fate \in [Requests -> {"none", "226", "426", "silent", "dropped"}]
<1>1. /\ MaxCmds \in Nat /\ FdLimit \in Nat /\ FdLimit >= 2
  BY ConstAssumption
<1>2. cmds \in Seq(Kinds \cup Refusals) /\ slots \in Seq(Requests)
      /\ backlog \in Seq(Requests) /\ pairs \in Seq(Outcome)
  BY DEF IInv, TypeOK, Outcome
<1>3. /\ Len(cmds) \in Nat /\ DOMAIN cmds = 1 .. Len(cmds)
      /\ Len(slots) \in Nat /\ DOMAIN slots = 1 .. Len(slots)
      /\ Len(backlog) \in Nat /\ DOMAIN backlog = 1 .. Len(backlog)
      /\ Len(pairs) \in Nat /\ DOMAIN pairs = 1 .. Len(pairs)
  BY <1>2
<1>4. /\ front \in Nat /\ reached \in 0 .. MaxCmds /\ active \in SUBSET Requests
      /\ fate \in [Requests -> {"none", "226", "426", "silent", "dropped"}]
  BY DEF IInv, TypeOK
<1>5. reached \in Nat
  BY <1>1, <1>4
<1>. QED
  BY <1>1, <1>2, <1>3, <1>4, <1>5

LEMMA PairFacts ==
    ASSUME IInv, NEW i \in DOMAIN pairs
    PROVE  /\ pairs[i] \in Outcome
           /\ pairs[i].req \in Requests \cup {0}
           /\ pairs[i].conn \in Requests \cup {0}
           /\ pairs[i].armed \in BOOLEAN
<1>1. pairs \in Seq(Outcome)
  BY TypeFacts
<1>2. pairs[i] \in Outcome
  BY <1>1
<1>. QED
  BY <1>2 DEF Outcome

\* The slots hold different requests, so no request is queued and behind.
LEMMA OneSlot ==
    ASSUME IInv, NEW i \in DOMAIN slots, NEW j \in DOMAIN slots, slots[i] = slots[j]
    PROVE  i = j
<1>1. i \in Int /\ j \in Int /\ slots[i] \in Int
  BY TypeFacts DEF Requests
<1>2. ~(i < j) /\ ~(j < i)
  BY <1>1 DEF IInv, SlotsInv
<1>. QED
  BY <1>1, <1>2

LEMMA QueuedFacts ==
    ASSUME IInv, NEW r \in Queued
    PROVE  /\ r \in Requests /\ ~Behind(r) /\ fate[r] = "none"
           /\ r \notin Paired /\ r \notin active
<1>1. PICK j \in front + 1 .. Len(slots) : slots[j] = r
  BY DEF Queued
<1>2. j \in DOMAIN slots /\ r \in Requests /\ ~(j <= front)
  BY <1>1, TypeFacts
<1>3. ~Behind(r)
  BY <1>1, <1>2, OneSlot DEF Behind
<1>4. fate[r] = "none"
  BY <1>2, <1>3 DEF IInv, EndedInv
<1>5. r \notin Paired
  <2>1. r # 0
    BY <1>2 DEF Requests
  <2>. QED
    BY <1>3, <2>1 DEF Paired, IInv, PairsInv
<1>6. r \notin active
  BY <1>5 DEF IInv, ActiveInv, Paired
<1>. QED
  BY <1>2, <1>3, <1>4, <1>5, <1>6

-----------------------------------------------------------------------------
(* The finite sets that are counted.                                       *)

\* The requests without an event that have a connection all the same.
Held == {i \in Unarmed : pairs[i].conn # 0}

LEMMA Counted ==
    ASSUME IInv
    PROVE  /\ IsFiniteSet(active) /\ Cardinality(active) \in Nat
           /\ IsFiniteSet(Files) /\ Cardinality(Files) \in Nat
           /\ IsFiniteSet(Held) /\ Cardinality(Held) \in Nat
           /\ IsFiniteSet(Lost) /\ Cardinality(Lost) \in Nat
           /\ IsFiniteSet(NullPops) /\ Cardinality(NullPops) \in Nat
<1>1. /\ IsFiniteSet(Requests) /\ IsFiniteSet(DOMAIN cmds) /\ IsFiniteSet(DOMAIN pairs)
  BY TypeFacts, FS_Interval DEF Requests
<1>2. /\ active \in SUBSET Requests /\ Lost \in SUBSET Requests
      /\ Files \in SUBSET DOMAIN cmds
      /\ Held \in SUBSET DOMAIN pairs /\ NullPops \in SUBSET DOMAIN pairs
  <2>1. active \in SUBSET Requests /\ Lost \in SUBSET Requests
    BY TypeFacts DEF Lost
  <2>2. Files \in SUBSET DOMAIN cmds
    BY DEF Files
  <2>3. Held \in SUBSET DOMAIN pairs /\ NullPops \in SUBSET DOMAIN pairs
    BY DEF Held, Unarmed, NullPops
  <2>. QED
    BY <2>1, <2>2, <2>3
<1>3. /\ IsFiniteSet(active) /\ IsFiniteSet(Lost) /\ IsFiniteSet(Files)
      /\ IsFiniteSet(Held) /\ IsFiniteSet(NullPops)
  BY <1>1, <1>2, FS_Subset
<1>. QED
  BY <1>3, FS_CardinalityType

LEMMA OneMore ==
    ASSUME NEW S, IsFiniteSet(S), NEW x, NEW T, T \subseteq S \cup {x}
    PROVE  /\ IsFiniteSet(T) /\ Cardinality(T) \in Nat
           /\ Cardinality(T) <= Cardinality(S) + 1
<1>1. /\ IsFiniteSet(S \cup {x})
      /\ Cardinality(S \cup {x}) <= Cardinality(S) + 1
      /\ Cardinality(S) \in Nat
  BY FS_AddElement, FS_CardinalityType
<1>2. IsFiniteSet(T) /\ Cardinality(T) <= Cardinality(S \cup {x})
  BY <1>1, FS_Subset
<1>. QED
  BY <1>1, <1>2, FS_CardinalityType

-----------------------------------------------------------------------------
(* The initial states satisfy the invariant.                               *)
LEMMA InitIInv == Init => IInv
<1> SUFFICES ASSUME Init PROVE IInv
  OBVIOUS
<1>1. /\ cmds = <<>> /\ slots = <<>> /\ backlog = <<>> /\ pairs = <<>>
      /\ front = 0 /\ active = {} /\ open = TRUE /\ undefined = "no"
      /\ fate = [r \in Requests |-> "none"]
  BY DEF Init
<1>2. Files = {} /\ Held = {} /\ Lost = {} /\ NullPops = {}
  BY <1>1 DEF Files, Held, Unarmed, Lost, NullPops
<1>3. FdsInUse \in 0 .. FdLimit
  <2>1. FdsInUse = 2
    BY <1>1, <1>2, FS_EmptySet DEF FdsInUse, Held
  <2>. QED
    BY <2>1, ConstAssumption
<1>4. TypeOK
  <2>1. reached \in 0 .. MaxCmds /\ Len(cmds) <= MaxCmds
    BY <1>1, ConstAssumption DEF Init
  <2>2. /\ cmds \in Seq(Kinds \cup Refusals) /\ slots \in Seq(Requests)
        /\ backlog \in Seq(Requests) /\ front \in Nat
    BY <1>1
  <2>3. pairs \in Seq([conn : Requests \cup {0}, req : Requests \cup {0},
                        armed : BOOLEAN])
    BY <1>1
  <2>. QED
    BY <1>1, <1>3, <2>1, <2>2, <2>3 DEF Init, TypeOK
<1>5. SlotsInv /\ PairsInv /\ ActiveInv /\ EndedInv /\ ClosedInv
  BY <1>1 DEF SlotsInv, PairsInv, ActiveInv, EndedInv, ClosedInv
<1>6. LossInv
  BY <1>1, <1>2, FS_EmptySet DEF LossInv, LossBounded, Overrun
<1>7. AlignInv /\ OwnConnection
  BY <1>1 DEF Init, AlignInv, OwnConnection
<1>. QED
  BY <1>4, <1>5, <1>6, <1>7 DEF IInv

-----------------------------------------------------------------------------
(* The steps of the client and of the commands.                            *)

LEMMA PasvPreserves == ASSUME IInv, Pasv PROVE IInv'
<1>1. /\ open /\ listening' = TRUE
      /\ UNCHANGED <<open, undefined, cmds, slots, front, backlog, reached,
                     early, pairs, active, fate>>
  BY DEF Pasv
<1>2. TypeOK'
  <2>1. FdsInUse' = FdsInUse
    BY <1>1 DEF FdsInUse, Files, Unarmed
  <2>. QED
    BY <1>1, <2>1 DEF IInv, TypeOK
<1>3. SlotsInv' /\ PairsInv' /\ ActiveInv' /\ EndedInv'
  BY <1>1 DEF IInv, SlotsInv, PairsInv, ActiveInv, EndedInv, Behind
<1>4. ClosedInv' /\ LossInv'
  BY <1>1 DEF IInv, ClosedInv, LossInv, LossBounded, Lost, Paired, Ended, NullPops, Overrun,
     Running
<1>5. AlignInv' /\ OwnConnection'
  BY <1>1 DEF IInv, AlignInv, InStep, OwnConnection
<1>. QED
  BY <1>2, <1>3, <1>4, <1>5 DEF IInv

\* One file or directory more, when there was a descriptor.
LEMMA FileOpened ==
    ASSUME IInv, NEW x, Files' \subseteq Files \cup {x}, FdsInUse < FdLimit,
           active' = active, Held' = Held, open' = open
    PROVE  FdsInUse' \in 0 .. FdLimit
<1>1. Cardinality(Files') \in Nat /\ Cardinality(Files') <= Cardinality(Files) + 1
  BY Counted, OneMore
<1>2. FdsInUse = (IF open THEN 2 ELSE 0) + Cardinality(active) + Cardinality(Files)
                   + Cardinality(Held)
  BY DEF FdsInUse, Held
<1>3. FdsInUse' = (IF open THEN 2 ELSE 0) + Cardinality(active) + Cardinality(Files')
                    + Cardinality(Held)
  BY DEF FdsInUse, Held
<1>4. /\ Cardinality(active) \in Nat /\ Cardinality(Files) \in Nat
      /\ Cardinality(Held) \in Nat /\ FdLimit \in Nat
  BY Counted, TypeFacts
<1>. QED
  BY <1>1, <1>2, <1>3, <1>4

LEMMA RefusePreserves == ASSUME IInv, RefuseCommand PROVE IInv'
<1>0. PICK refusal \in Refusals :
         cmds' = Append(cmds, refusal) /\ (refusal = "left open" => FdAvailable)
  BY DEF RefuseCommand
<1>1. /\ Running
      /\ cmds' = Append(cmds, refusal) /\ Len(cmds) < MaxCmds
      /\ UNCHANGED <<open, undefined, listening, slots, front, backlog, reached,
                     early, pairs, active, fate>>
  BY <1>0 DEF RefuseCommand
<1>2. /\ cmds' \in Seq(Kinds \cup Refusals)
      /\ Len(cmds') = Len(cmds) + 1 /\ Len(cmds) \in Nat
      /\ DOMAIN cmds' = 1 .. Len(cmds) + 1 /\ DOMAIN cmds = 1 .. Len(cmds)
      /\ \A r \in 1 .. Len(cmds) : cmds'[r] = cmds[r]
      /\ cmds'[Len(cmds) + 1] = refusal
  <2>1. cmds \in Seq(Kinds \cup Refusals) /\ refusal \in Kinds \cup Refusals
    BY TypeFacts
  <2>2. cmds' = Append(cmds, refusal)
    BY <1>1
  <2>3. /\ cmds' \in Seq(Kinds \cup Refusals) /\ Len(cmds') = Len(cmds) + 1
        /\ DOMAIN cmds' = 1 .. Len(cmds) + 1
        /\ \A r \in 1 .. Len(cmds) : cmds'[r] = cmds[r]
        /\ cmds'[Len(cmds) + 1] = refusal
    BY <2>1, <2>2, AppendFacts
  <2>. QED
    BY <2>3, TypeFacts
<1>3. TypeOK'
  <2>1. active' = active /\ Held' = Held /\ open' = open
    BY <1>1 DEF Held, Unarmed
  <2>2. FdsInUse' \in 0 .. FdLimit
    <3>1. CASE refusal = "left open"
      <4>1. \A r \in DOMAIN cmds' : r = Len(cmds) + 1 \/ r \in 1 .. Len(cmds)
        BY <1>2
      <4>2. Files' \subseteq Files \cup {Len(cmds) + 1}
        BY <1>2, <4>1 DEF Files
      <4>3. FdsInUse < FdLimit
        BY <1>0, <3>1 DEF FdAvailable
      <4>. QED
        BY <2>1, <4>2, <4>3, FileOpened
    <3>2. CASE refusal # "left open"
      <4>1. refusal = "refused"
        BY <3>2 DEF Refusals
      <4>2. Files' = Files
        <5>1. \A r \in DOMAIN cmds' : r = Len(cmds) + 1 \/ r \in 1 .. Len(cmds)
          BY <1>2
        <5>2. Files' = {r \in DOMAIN cmds' : cmds'[r] \in {"RETR", "STOR", "left open"}}
          BY DEF Files
        <5>3. \A r \in Files' : r \in Files
          BY <1>2, <4>1, <5>1, <5>2 DEF Files
        <5>4. \A r \in Files : r \in Files'
          <6>1. \A r \in 1 .. Len(cmds) : r \in 1 .. Len(cmds) + 1
            BY <1>2
          <6>. QED
            BY <1>2, <5>2, <6>1 DEF Files
        <5>. QED
          BY <5>3, <5>4
      <4>3. FdsInUse' = FdsInUse
        BY <1>1, <4>2 DEF FdsInUse, Unarmed
      <4>. QED
        BY <4>3 DEF IInv, TypeOK
    <3>. QED
      BY <3>1, <3>2
  <2>3. Len(cmds') <= MaxCmds
    BY <1>1, <1>2, TypeFacts
  <2>. QED
    BY <1>1, <1>2, <2>2, <2>3 DEF IInv, TypeOK
<1>4. SlotsInv'
  BY <1>1, <1>2 DEF IInv, SlotsInv
<1>5. PairsInv' /\ ActiveInv' /\ EndedInv' /\ ClosedInv' /\ LossInv'
  BY <1>1 DEF IInv, PairsInv, ActiveInv, EndedInv, Behind, ClosedInv, LossInv, LossBounded,
     Lost, Paired, Ended, NullPops, Overrun, Running
<1>6. AlignInv'
  <2>1. reached <= Len(cmds) => reached <= Len(cmds')
    BY <1>2, TypeFacts
  <2>. QED
    BY <1>1, <2>1 DEF IInv, AlignInv, InStep
<1>7. OwnConnection'
  BY <1>1 DEF IInv, OwnConnection
<1>. QED
  BY <1>3, <1>4, <1>5, <1>6, <1>7 DEF IInv

(* LIST, RETR or STOR is queued: the request is behind the cursor already  *)
(* when the queue is overrun.                                              *)
LEMMA CommandPreserves ==
    ASSUME IInv, NEW kind \in Kinds, DataCommand(kind) PROVE IInv'
<1> DEFINE n == Len(slots)
           c == Len(cmds) + 1
<1>1. /\ Running /\ open /\ Len(cmds) < MaxCmds /\ FdAvailable
      /\ cmds' = Append(cmds, kind) /\ slots' = Append(slots, c)
      /\ UNCHANGED <<open, undefined, listening, front, backlog, reached,
                     early, pairs, active, fate>>
  BY DEF DataCommand
<1>2. n \in Nat /\ front \in Nat /\ c \in Nat /\ c \in Requests /\ c = Len(cmds) + 1
  BY <1>1, TypeFacts DEF Requests
<1>3. /\ cmds' \in Seq(Kinds \cup Refusals)
      /\ Len(cmds') = c
      /\ DOMAIN cmds' = 1 .. c /\ DOMAIN cmds = 1 .. c - 1
      /\ \A r \in 1 .. c - 1 : cmds'[r] = cmds[r]
      /\ cmds'[c] = kind
  <2>1. cmds \in Seq(Kinds \cup Refusals) /\ kind \in Kinds \cup Refusals
    BY TypeFacts
  <2>2. Len(cmds) = c - 1 /\ DOMAIN cmds = 1 .. Len(cmds)
    BY <1>2, TypeFacts
  <2>. QED
    BY <1>1, <2>1, <2>2, AppendFacts
<1>4. /\ slots' \in Seq(Requests)
      /\ Len(slots') = n + 1
      /\ DOMAIN slots' = 1 .. n + 1 /\ DOMAIN slots = 1 .. n
      /\ \A j \in 1 .. n : slots'[j] = slots[j]
      /\ slots'[n + 1] = c
  BY <1>1, <1>2, TypeFacts, AppendFacts
<1>5. kind \notin Refusals
  BY DEF Kinds, Refusals
<1> HIDE DEF n, c
<1>6. TypeOK'
  <2>1. Files' \subseteq Files \cup {c}
    <3>1. \A r \in 1 .. c : r = c \/ r \in 1 .. c - 1
      BY <1>2
    <3>. QED
      BY <1>3, <3>1 DEF Files
  <2>3. active' = active /\ Held' = Held /\ open' = open
    BY <1>1 DEF Held, Unarmed
  <2>4. FdsInUse < FdLimit
    BY <1>1 DEF FdAvailable
  <2>5. FdsInUse' \in 0 .. FdLimit
    BY <2>1, <2>3, <2>4, FileOpened
  <2>6. Len(cmds') <= MaxCmds
    BY <1>1, <1>2, <1>3, TypeFacts
  <2>. QED
    BY <1>1, <1>3, <1>4, <2>5, <2>6 DEF IInv, TypeOK
<1>7. \A j \in 1 .. n : slots[j] \in 1 .. c - 1
  BY <1>3, <1>4 DEF IInv, SlotsInv
<1>8. SlotsInv'
  <2>1. \A j \in DOMAIN slots' : slots'[j] \in DOMAIN cmds' /\ cmds'[slots'[j]] \notin Refusals
    <3> SUFFICES ASSUME NEW j \in 1 .. n + 1
                 PROVE  slots'[j] \in 1 .. c /\ cmds'[slots'[j]] \notin Refusals
      BY <1>3, <1>4
    <3>1. CASE j \in 1 .. n
      BY <1>2, <1>3, <1>4, <1>7, <3>1 DEF IInv, SlotsInv
    <3>2. CASE j = n + 1
      BY <1>2, <1>3, <1>4, <1>5, <3>2 DEF Requests
    <3>. QED
      BY <1>2, <3>1, <3>2
  <2>2. \A r \in DOMAIN cmds' : cmds'[r] \notin Refusals => \E j \in DOMAIN slots' : slots'[j] = r
    <3> SUFFICES ASSUME NEW r \in 1 .. c, cmds'[r] \notin Refusals
                 PROVE  \E j \in 1 .. n + 1 : slots'[j] = r
      BY <1>3, <1>4
    <3>1. CASE r = c
      BY <1>2, <1>4, <3>1
    <3>2. CASE r # c
      <4>1. r \in 1 .. c - 1
        BY <1>2, <3>2
      <4>2. cmds[r] \notin Refusals
        BY <1>3, <4>1
      <4>3. PICK j \in 1 .. n : slots[j] = r
        BY <1>3, <1>4, <4>1, <4>2 DEF IInv, SlotsInv
      <4>. QED
        BY <1>2, <1>4, <4>3
    <3>. QED
      BY <3>1, <3>2
  <2>3. \A i, j \in DOMAIN slots' : i < j => slots'[i] < slots'[j]
    <3> SUFFICES ASSUME NEW i \in 1 .. n + 1, NEW j \in 1 .. n + 1, i < j
                 PROVE  slots'[i] < slots'[j]
      BY <1>4
    <3>1. CASE j = n + 1
      <4>1. i \in 1 .. n
        BY <1>2, <3>1
      <4>. QED
        BY <1>2, <1>4, <1>7, <3>1, <4>1
    <3>2. CASE j # n + 1
      <4>1. i \in 1 .. n /\ j \in 1 .. n
        BY <1>2, <3>2
      <4>. QED
        BY <1>4, <4>1 DEF IInv, SlotsInv
    <3>. QED
      BY <3>1, <3>2
  <2>. QED
    BY <2>1, <2>2, <2>3 DEF SlotsInv
<1>9. \A r : Behind(r)' <=> Behind(r) \/ (r = c /\ n < front)
  BY <1>1, <1>2, <1>4 DEF Behind
<1>10. fate[c] = "none" /\ c \notin Paired
  <2>1. ~Behind(c)
    BY <1>2, <1>4, <1>7 DEF Behind
  <2>2. fate[c] = "none"
    BY <1>2, <2>1 DEF IInv, EndedInv
  <2>3. c # 0
    BY <1>2 DEF Requests
  <2>. QED
    BY <2>1, <2>2, <2>3 DEF Paired, IInv, PairsInv
<1>11. PairsInv' /\ ActiveInv' /\ EndedInv'
  BY <1>1, <1>9 DEF IInv, PairsInv, ActiveInv, EndedInv
<1>12. ClosedInv'
  BY <1>1 DEF ClosedInv
<1>13. LossInv'
  <2>1. Paired' = Paired /\ Ended' = Ended /\ NullPops' = NullPops
    BY <1>1 DEF Paired, Ended, NullPops
  <2>2. CASE n < front
    <3>1. Lost' \subseteq Lost \cup {c}
      <4> SUFFICES ASSUME NEW r \in Lost', r # c PROVE r \in Lost
        OBVIOUS
      <4>1. PICK j \in 1 .. n + 1 : j <= front /\ slots'[j] = r
        BY <1>1, <1>4 DEF Lost
      <4>2. j \in 1 .. n /\ slots[j] = r
        BY <1>2, <1>4, <4>1
      <4>3. r \notin Paired \cup Ended
        BY <2>1 DEF Lost
      <4>. QED
        BY <1>4, <4>1, <4>2, <4>3 DEF Lost
    <3>2. Cardinality(Lost') \in Nat /\ Cardinality(Lost') <= Cardinality(Lost) + 1
      BY <3>1, Counted, OneMore
    <3>3. Overrun' = Overrun - 1 /\ Overrun \in Nat /\ Overrun > 0
      BY <1>1, <1>2, <1>4, <2>2 DEF Overrun, n
    <3>4. Cardinality(Lost) + Overrun <= Cardinality(NullPops)
      BY <1>1 DEF IInv, LossInv
    <3>. QED
      BY <2>1, <3>2, <3>3, <3>4, Counted DEF LossInv, LossBounded
  <2>3. CASE ~(n < front)
    <3>1. Lost' = Lost
      BY <1>1, <1>2, <1>4, <2>1, <2>3 DEF Lost
    <3>2. Overrun' = 0 /\ Overrun = 0
      BY <1>1, <1>2, <1>4, <2>3 DEF Overrun, n
    <3>. QED
      BY <1>1, <2>1, <3>1, <3>2 DEF IInv, LossInv, LossBounded
  <2>. QED
    BY <2>2, <2>3
<1>14. AlignInv'
  <2>1. ASSUME ~early PROVE reached <= Len(cmds')
    <3>1. reached <= c - 1
      BY <1>2, <2>1, TypeFacts DEF IInv, AlignInv
    <3>. QED
      BY <1>2, <1>3, <3>1, TypeFacts
  <2>2. ASSUME InStep
        PROVE  /\ front + Len(backlog) <= n + 1
               /\ \A i \in DOMAIN backlog : backlog[i] = slots'[front + i]
               /\ \A j \in 1 .. n + 1 : slots'[j] <= reached <=> j <= front + Len(backlog)
    <3>1. /\ front + Len(backlog) <= n /\ Len(backlog) \in Nat
          /\ DOMAIN backlog = 1 .. Len(backlog)
          /\ \A i \in DOMAIN backlog : backlog[i] = slots[front + i]
          /\ \A j \in 1 .. n : slots[j] <= reached <=> j <= front + Len(backlog)
          /\ reached < c /\ reached \in Nat
      <4>1. Len(backlog) \in Nat /\ DOMAIN backlog = 1 .. Len(backlog) /\ reached \in Nat
        BY TypeFacts
      <4>2. open /\ ~early
        BY <1>1, <2>2 DEF InStep
      <4>3. /\ front + Len(backlog) <= n
            /\ \A i \in DOMAIN backlog : backlog[i] = slots[front + i]
            /\ \A j \in 1 .. n : slots[j] <= reached <=> j <= front + Len(backlog)
        BY <1>4, <2>2, <4>2 DEF IInv, AlignInv, n
      <4>4. reached <= Len(cmds) /\ Len(cmds) \in Nat
        BY <4>2, TypeFacts DEF IInv, AlignInv
      <4>. QED
        BY <1>2, <4>1, <4>3, <4>4
    <3>2. \A i \in DOMAIN backlog : front + i \in 1 .. n
      BY <1>2, <3>1
    <3>. QED
      BY <1>2, <1>4, <3>1, <3>2
  <2>. QED
    BY <1>1, <1>4, <2>1, <2>2 DEF AlignInv, InStep
<1>15. OwnConnection'
  BY <1>1 DEF IInv, OwnConnection
<1>. QED
  BY <1>6, <1>8, <1>11, <1>12, <1>13, <1>14, <1>15 DEF IInv

(* The client opens a data connection, in the order of its commands.       *)
LEMMA ConnectPreserves ==
    ASSUME IInv, NEW r \in Requests, Connect(r) PROVE IInv'
<1> DEFINE b == Len(backlog)
<1>1. /\ open /\ listening /\ r > reached
      /\ Pending = {} => r = Len(cmds) + 1
      /\ Pending # {} => r \in Pending /\ \A q \in Pending : r <= q
      /\ reached' = r /\ early' = (early \/ r > Len(cmds))
      /\ backlog' = Append(backlog, r)
      /\ UNCHANGED <<open, undefined, listening, cmds, slots, front, pairs, active, fate>>
  BY DEF Connect
<1>2. /\ backlog' \in Seq(Requests) /\ b \in Nat
      /\ DOMAIN backlog' = 1 .. b + 1 /\ DOMAIN backlog = 1 .. b /\ Len(backlog') = b + 1
      /\ \A i \in 1 .. b : backlog'[i] = backlog[i]
      /\ backlog'[b + 1] = r
  BY <1>1, TypeFacts, AppendFacts
<1>3. r \in Nat /\ r \in 0 .. MaxCmds
  BY ConstAssumption DEF Requests
<1> HIDE DEF b
<1>4. TypeOK'
  <2>1. FdsInUse' = FdsInUse
    BY <1>1 DEF FdsInUse, Files, Unarmed
  <2>2. early' \in BOOLEAN
    BY <1>1, TypeFacts DEF IInv, TypeOK
  <2>. QED
    BY <1>1, <1>2, <1>3, <2>1, <2>2 DEF IInv, TypeOK
<1>5. SlotsInv' /\ PairsInv' /\ ActiveInv' /\ EndedInv' /\ ClosedInv' /\ LossInv'
  BY <1>1 DEF IInv, SlotsInv, PairsInv, ActiveInv, EndedInv, Behind, ClosedInv, LossInv,
     LossBounded, Lost, Paired, Ended, NullPops, Overrun, Running
<1>6. AlignInv'
  <2>1. ASSUME ~early' PROVE r \in Pending /\ r <= Len(cmds) /\ \A q \in Pending : r <= q
    <3>1. ~(r > Len(cmds))
      BY <1>1, <2>1, Zenon
    <3>2. Pending # {}
      BY <1>1, <1>3, <3>1, TypeFacts
    <3>3. r <= Len(cmds)
      BY <1>3, <3>1, TypeFacts
    <3>. QED
      BY <1>1, <3>2, <3>3
  <2>2. ASSUME ~early', InStep
        PROVE  /\ front + (b + 1) <= Len(slots)
               /\ \A i \in 1 .. b + 1 : backlog'[i] = slots[front + i]
               /\ \A j \in DOMAIN slots : slots[j] <= r <=> j <= front + (b + 1)
    <3>1. /\ front + b <= Len(slots)
          /\ \A i \in 1 .. b : backlog[i] = slots[front + i]
          /\ \A j \in DOMAIN slots : slots[j] <= reached <=> j <= front + b
      BY <1>1, <1>2, <2>2 DEF IInv, AlignInv, b
    <3>2. /\ r \in DOMAIN cmds /\ cmds[r] \notin Refusals
          /\ \A q \in DOMAIN cmds : q > reached /\ cmds[q] \notin Refusals => r <= q
      BY <2>1, <2>2, TypeFacts DEF Pending
    <3>3. PICK k \in DOMAIN slots : slots[k] = r
      BY <3>2 DEF IInv, SlotsInv
    <3>4. /\ DOMAIN slots = 1 .. Len(slots) /\ Len(slots) \in Nat /\ front \in Nat
          /\ reached \in Nat /\ k \in Nat
      BY TypeFacts
    <3>5. k > front + b
      BY <1>1, <1>2, <1>3, <3>1, <3>3, <3>4
    <3>6. k = front + b + 1
      <4>1. SUFFICES ASSUME k > front + b + 1 PROVE FALSE
        BY <1>2, <3>4, <3>5
      <4> DEFINE m == front + b + 1
      <4>2. m \in DOMAIN slots /\ m < k /\ ~(m <= front + b)
        BY <1>2, <3>3, <3>4, <4>1
      <4>3. slots[m] < r
        BY <3>3, <4>2 DEF IInv, SlotsInv
      <4>4. slots[m] \in DOMAIN cmds /\ cmds[slots[m]] \notin Refusals /\ slots[m] \in Nat
        BY <4>2, TypeFacts DEF IInv, SlotsInv
      <4>5. slots[m] > reached
        BY <3>1, <3>4, <4>2, <4>4
      <4>6. r <= slots[m]
        BY <3>2, <4>4, <4>5
      <4>. QED
        BY <1>3, <4>3, <4>4, <4>6
    <3>7. ASSUME NEW j \in DOMAIN slots PROVE slots[j] <= r <=> j <= k
      <4>1. slots[j] \in Int /\ j \in Int /\ k \in Int /\ r \in Int
        BY <1>3, <3>4, TypeFacts DEF Requests
      <4>2. /\ j < k => slots[j] < r
            /\ k < j => r < slots[j]
            /\ j = k => slots[j] = r
        BY <3>3 DEF IInv, SlotsInv
      <4>. QED
        BY <4>1, <4>2
    <3>8. front + (b + 1) = k /\ k <= Len(slots)
      BY <1>2, <3>3, <3>4, <3>6
    <3>9. \A i \in 1 .. b + 1 : backlog'[i] = slots[front + i]
      BY <1>2, <3>1, <3>3, <3>8
    <3>. QED
      BY <3>7, <3>8, <3>9
  <2>3. early => early'
    BY <1>1
  <2>. QED
    BY <1>1, <1>2, <2>1, <2>2, <2>3 DEF AlignInv, InStep
<1>7. OwnConnection'
  BY <1>1 DEF IInv, OwnConnection
<1>. QED
  BY <1>4, <1>5, <1>6, <1>7 DEF IInv

-----------------------------------------------------------------------------
(* pasv_accept.                                                            *)

LEMMA ConnFacts ==
    ASSUME IInv, backlog # <<>>, Accept
    PROVE  /\ Conn \in Requests \cup {0}
           /\ backlog' \in Seq(Requests)
           /\ Conn # 0 => /\ Conn = backlog[1] /\ Len(backlog') = Len(backlog) - 1
                          /\ \A i \in 1 .. Len(backlog) - 1 : backlog'[i] = backlog[i + 1]
           /\ ~FdAvailable => Conn = 0
<1>1. backlog \in Seq(Requests) /\ Head(backlog) \in Requests /\ Head(backlog) = backlog[1]
  BY TypeFacts
<1>2. /\ Tail(backlog) \in Seq(Requests) /\ Len(Tail(backlog)) = Len(backlog) - 1
      /\ \A i \in 1 .. Len(backlog) - 1 : Tail(backlog)[i] = backlog[i + 1]
  BY <1>1
<1>3. CASE FdAvailable
  BY <1>1, <1>2, <1>3 DEF Accept, Conn
<1>4. CASE ~FdAvailable
  BY <1>1, <1>4 DEF Accept, Conn
<1>. QED
  BY <1>3, <1>4

LEMMA AcceptForRequestPreserves == ASSUME IInv, AcceptForRequest PROVE IInv'
<1> DEFINE k == front + 1
           q == slots[front + 1]
           n == Len(pairs)
<1>1. /\ Running /\ open /\ listening /\ backlog # <<>> /\ front < Len(slots)
      /\ Accept /\ front' = k
      /\ UNCHANGED <<open, undefined, listening, cmds, slots, reached, early, fate>>
  BY TypeFacts DEF AcceptForRequest, QueueEmpty, Pop
<1>2. PICK armed \in {FALSE, FdAvailable} :
        /\ pairs' = Append(pairs, [conn |-> Conn, req |-> q, armed |-> armed])
        /\ active' = IF armed THEN active \cup {q} ELSE active
  BY DEF AcceptForRequest, PairedWith
<1>3. /\ k \in DOMAIN slots /\ k = front + 1 /\ front \in Nat /\ Len(slots) \in Nat
      /\ DOMAIN slots = 1 .. Len(slots)
      /\ q = slots[k] /\ q \in Requests /\ q # 0 /\ q \in Queued
  <2>1. k \in 1 .. Len(slots) /\ k \in front + 1 .. Len(slots)
    BY <1>1, TypeFacts
  <2>2. q \in Requests /\ q # 0
    BY <2>1, TypeFacts DEF Requests
  <2>. QED
    BY <2>1, <2>2, TypeFacts DEF Queued
<1>4. fate[q] = "none" /\ q \notin Paired /\ q \notin active
  BY <1>3, QueuedFacts
<1>5. /\ pairs' \in Seq(Outcome) /\ n \in Nat
      /\ DOMAIN pairs' = 1 .. n + 1 /\ DOMAIN pairs = 1 .. n
      /\ \A i \in 1 .. n : pairs'[i] = pairs[i]
      /\ pairs'[n + 1].req = q /\ pairs'[n + 1].conn = Conn /\ pairs'[n + 1].armed = armed
  <2> DEFINE o == [conn |-> Conn, req |-> q, armed |-> armed]
  <2>1. Conn \in Requests \cup {0} /\ armed \in BOOLEAN
    <3>1. FdAvailable \in BOOLEAN
      BY DEF FdAvailable
    <3>2. armed \in BOOLEAN
      BY <3>1, Zenon
    <3>. QED
      BY <1>1, <3>2, ConnFacts
  <2>2. o \in Outcome
    BY <1>3, <2>1 DEF Outcome
  <2>3. pairs \in Seq(Outcome) /\ n \in Nat /\ DOMAIN pairs = 1 .. n
    BY TypeFacts
  <2>4. o.req = q /\ o.conn = Conn /\ o.armed = armed
    OBVIOUS
  <2> HIDE DEF o
  <2>5. pairs' = Append(pairs, o)
    BY <1>2 DEF o
  <2>. QED
    BY <2>2, <2>3, <2>4, <2>5, AppendFacts
<1> HIDE DEF k, q, n
<1>6. armed => FdAvailable
  BY <1>2
<1>7. \A i \in 1 .. n : pairs[i].req # q
  BY <1>4, <1>5 DEF Paired
<1>8. \A r : Behind(r)' <=> Behind(r) \/ r = q
  <2>1. \A j \in 1 .. Len(slots) : j <= k <=> j <= front \/ j = k
    BY <1>3
  <2>. QED
    BY <1>1, <1>3, <2>1 DEF Behind
<1>9. TypeOK'
  <2>1. Files' = Files /\ open' = open
    BY <1>1 DEF Files
  <2>2. Held' \subseteq Held \cup {n + 1} /\ (armed \/ ~FdAvailable => Held' = Held)
    <3>1. ~FdAvailable => Conn = 0
      BY <1>1, ConnFacts
    <3>2. \A i \in 1 .. n : i \in Held' <=> i \in Held
      BY <1>5 DEF Held, Unarmed
    <3>3. armed \/ ~FdAvailable => n + 1 \notin Held'
      BY <1>5, <3>1 DEF Held, Unarmed
    <3>4. Held' \subseteq 1 .. n + 1 /\ Held \subseteq 1 .. n
      BY <1>5 DEF Held, Unarmed
    <3>5. \A i \in 1 .. n + 1 : i \in 1 .. n \/ i = n + 1
      BY <1>5
    <3>. QED
      BY <3>2, <3>3, <3>4, <3>5
  <2>3. /\ FdsInUse = (IF open THEN 2 ELSE 0) + Cardinality(active) + Cardinality(Files)
                       + Cardinality(Held)
        /\ FdsInUse' = (IF open THEN 2 ELSE 0) + Cardinality(active') + Cardinality(Files)
                        + Cardinality(Held')
    BY <2>1 DEF FdsInUse, Held
  <2>4. /\ Cardinality(active) \in Nat /\ Cardinality(Files) \in Nat
        /\ Cardinality(Held) \in Nat /\ FdLimit \in Nat
    BY Counted, TypeFacts
  <2>5. FdsInUse' \in 0 .. FdLimit
    <3>1. CASE armed
      <4>1. Cardinality(active') \in Nat /\ Cardinality(active') <= Cardinality(active) + 1
        BY <1>2, <3>1, Counted, OneMore
      <4>2. FdsInUse < FdLimit /\ Held' = Held
        BY <1>6, <2>2, <3>1 DEF FdAvailable
      <4>. QED
        BY <2>3, <2>4, <4>1, <4>2
    <3>2. CASE ~armed /\ FdAvailable
      <4>1. Cardinality(Held') \in Nat /\ Cardinality(Held') <= Cardinality(Held) + 1
        BY <2>2, Counted, OneMore
      <4>2. FdsInUse < FdLimit /\ active' = active
        BY <1>2, <3>2 DEF FdAvailable
      <4>. QED
        BY <2>3, <2>4, <4>1, <4>2
    <3>3. CASE ~armed /\ ~FdAvailable
      <4>1. FdsInUse' = FdsInUse
        BY <1>2, <2>2, <2>3, <3>3
      <4>. QED
        BY <4>1 DEF IInv, TypeOK
    <3>. QED
      BY <3>1, <3>2, <3>3
  <2>6. active' \in SUBSET Requests /\ backlog' \in Seq(Requests) /\ front' \in Nat
    <3>1. active \in SUBSET Requests
      BY TypeFacts
    <3>2. active' \in SUBSET Requests
      BY <1>2, <1>3, <3>1
    <3>3. backlog' \in Seq(Requests)
      BY <1>1, ConnFacts
    <3>4. front' \in Nat
      BY <1>1, <1>3
    <3>. QED
      BY <3>2, <3>3, <3>4
  <2>. QED
    BY <1>1, <1>5, <2>5, <2>6 DEF IInv, TypeOK, Outcome
<1>10. SlotsInv' /\ ClosedInv'
  BY <1>1 DEF IInv, SlotsInv, ClosedInv
<1>11. PairsInv'
  <2>1. ASSUME NEW i \in 1 .. n + 1, pairs'[i].req # 0
        PROVE  /\ Behind(pairs[i].req)'
               /\ fate'[pairs'[i].req] = "none"
                    <=> (pairs'[i].armed => pairs'[i].req \in active')
    <3>1. CASE i = n + 1
      BY <1>1, <1>2, <1>4, <1>5, <1>8, <3>1
    <3>2. CASE i # n + 1
      <4>1. i \in 1 .. n /\ pairs'[i] = pairs[i]
        BY <1>5, <3>2
      <4>2. pairs[i].req \in active' <=> pairs[i].req \in active
        BY <1>2, <1>7, <4>1
      <4>. QED
        BY <1>1, <1>5, <1>8, <2>1, <4>1, <4>2 DEF IInv, PairsInv
    <3>. QED
      BY <3>1, <3>2
  <2>2. \A i \in 1 .. n + 1 : pairs'[i].armed => pairs'[i].req # 0
    BY <1>3, <1>5 DEF IInv, PairsInv
  <2>3. ASSUME NEW i \in 1 .. n + 1, NEW j \in 1 .. n + 1,
               pairs'[i].req = pairs'[j].req, pairs'[i].req # 0
        PROVE  i = j
    <3>1. CASE i = n + 1 /\ j = n + 1
      BY <3>1
    <3>2. CASE i # n + 1 /\ j # n + 1
      <4>1. i \in 1 .. n /\ j \in 1 .. n
        BY <1>5, <3>2
      <4>. QED
        BY <1>5, <2>3, <4>1 DEF IInv, PairsInv
    <3>3. CASE i = n + 1 /\ j # n + 1
      <4>1. j \in 1 .. n
        BY <1>5, <3>3
      <4>. QED
        BY <1>5, <1>7, <2>3, <3>3, <4>1
    <3>4. CASE i # n + 1 /\ j = n + 1
      <4>1. i \in 1 .. n
        BY <1>5, <3>4
      <4>. QED
        BY <1>5, <1>7, <2>3, <3>4, <4>1
    <3>. QED
      BY <3>1, <3>2, <3>3, <3>4
  <2>. QED
    BY <1>5, <2>1, <2>2, <2>3 DEF PairsInv
<1>12. ActiveInv'
  <2> SUFFICES ASSUME NEW r \in active'
               PROVE  \E i \in 1 .. n + 1 : pairs'[i].req = r /\ pairs'[i].armed
    BY <1>5 DEF ActiveInv
  <2>1. CASE r \in active
    <3>1. PICK i \in 1 .. n : pairs[i].req = r /\ pairs[i].armed
      BY <1>5, <2>1 DEF IInv, ActiveInv
    <3>. QED
      BY <1>5, <3>1
  <2>2. CASE r \notin active
    <3>1. armed /\ r = q
      BY <1>2, <2>2
    <3>2. n + 1 \in 1 .. n + 1
      BY <1>5
    <3>. QED
      BY <1>5, <3>1, <3>2
  <2>. QED
    BY <2>1, <2>2
<1>13. EndedInv'
  BY <1>1, <1>8 DEF IInv, EndedInv
<1>14. LossInv'
  <2>1. Paired \cup {q} \subseteq Paired' /\ Ended' = Ended
    <3>1. \A i \in 1 .. n : pairs[i].req \in Paired'
      BY <1>5 DEF Paired
    <3>2. n + 1 \in DOMAIN pairs'
      BY <1>5
    <3>. QED
      BY <1>1, <1>5, <3>1, <3>2 DEF Paired, Ended
  <2>2. Lost' \subseteq Lost
    <3> SUFFICES ASSUME NEW r \in Lost' PROVE r \in Lost
      OBVIOUS
    <3>1. PICK j \in DOMAIN slots : j <= k /\ slots[j] = r
      BY <1>1 DEF Lost
    <3>2. r # q /\ r \notin Paired \cup Ended
      BY <2>1 DEF Lost
    <3>3. j <= front
      BY <1>3, <3>1, <3>2
    <3>. QED
      BY <3>1, <3>2, <3>3 DEF Lost
  <2>3. Cardinality(Lost') \in Nat /\ Cardinality(Lost') <= Cardinality(Lost)
    BY <2>2, Counted, FS_Subset, FS_CardinalityType
  <2>4. NullPops' = NullPops
    BY <1>3, <1>5 DEF NullPops
  <2>5. Overrun' = 0 /\ Overrun = 0
    <3>1. k \in 1 .. Len(slots) /\ front' = k /\ slots' = slots
      BY <1>1, <1>3
    <3>2. ~(front > Len(slots)) /\ ~(front' > Len(slots'))
      BY <1>3, <3>1
    <3>. QED
      BY <3>2 DEF Overrun
  <2>6. Cardinality(Lost) <= Cardinality(NullPops)
    BY DEF IInv, LossInv, LossBounded
  <2>. QED
    BY <2>3, <2>4, <2>5, <2>6, Counted DEF LossInv, LossBounded
<1>15. ASSUME InStep'
       PROVE  /\ InStep /\ Conn # 0 /\ Conn = q
              /\ front' + Len(backlog') <= Len(slots)
              /\ \A i \in DOMAIN backlog' : backlog'[i] = slots[front' + i]
              /\ \A j \in DOMAIN slots : slots[j] <= reached <=> j <= front' + Len(backlog')
  <2>1. n + 1 \in 1 .. n + 1
    BY <1>5
  <2>2. InStep /\ Conn # 0
    BY <1>1, <1>5, <1>15, <2>1 DEF InStep
  <2>3. /\ Conn = backlog[1] /\ Len(backlog') = Len(backlog) - 1
        /\ \A i \in 1 .. Len(backlog) - 1 : backlog'[i] = backlog[i + 1]
        /\ DOMAIN backlog' = 1 .. Len(backlog) - 1
    <3>1. /\ Conn = backlog[1] /\ Len(backlog') = Len(backlog) - 1
          /\ \A i \in 1 .. Len(backlog) - 1 : backlog'[i] = backlog[i + 1]
          /\ backlog' \in Seq(Requests)
      BY <1>1, <2>2, ConnFacts
    <3>2. DOMAIN backlog' = 1 .. Len(backlog')
      BY <3>1
    <3>. QED
      BY <3>1, <3>2
  <2>4. /\ front + Len(backlog) <= Len(slots)
        /\ \A i \in DOMAIN backlog : backlog[i] = slots[front + i]
        /\ \A j \in DOMAIN slots : slots[j] <= reached <=> j <= front + Len(backlog)
    BY <1>1, <2>2 DEF IInv, AlignInv
  <2>5. Len(backlog) \in Nat /\ Len(backlog) > 0 /\ DOMAIN backlog = 1 .. Len(backlog)
    BY <1>1, TypeFacts
  <2>6. front' + Len(backlog') = front + Len(backlog)
    BY <1>1, <1>3, <2>3, <2>5
  <2>7. ASSUME NEW i \in DOMAIN backlog' PROVE backlog'[i] = slots[front' + i]
    <3>1. i \in 1 .. Len(backlog) - 1 /\ i + 1 \in DOMAIN backlog
      BY <2>3, <2>5
    <3>2. front' + i = front + (i + 1)
      BY <1>1, <1>3, <3>1
    <3>. QED
      BY <2>3, <2>4, <3>1, <3>2
  <2>8. Conn = q
    BY <1>3, <2>3, <2>4, <2>5
  <2>. QED
    BY <2>2, <2>4, <2>6, <2>7, <2>8
<1>16. AlignInv'
  <2>1. ~early => reached <= Len(cmds)
    BY DEF IInv, AlignInv
  <2>. QED
    BY <1>1, <1>15, <2>1 DEF AlignInv
<1>17. OwnConnection'
  <2>1. ASSUME InStep' PROVE \A i \in 1 .. n + 1 : pairs'[i].conn = pairs'[i].req
    <3>1. \A i \in 1 .. n : pairs[i].conn = pairs[i].req
      BY <1>5, <1>15, <2>1 DEF IInv, OwnConnection, InStep
    <3>. QED
      BY <1>5, <1>15, <2>1, <3>1
  <2>. QED
    BY <1>1, <1>5, <2>1 DEF OwnConnection, InStep, Running
<1>. QED
  BY <1>9, <1>10, <1>11, <1>12, <1>13, <1>14, <1>16, <1>17 DEF IInv

(* Nothing is queued: the cursor runs ahead of the slots, and a client in  *)
(* step never brings this about.                                           *)
LEMMA AcceptForNothingPreserves == ASSUME IInv, AcceptForNothing PROVE IInv'
<1> DEFINE n == Len(pairs)
           o == [conn |-> Conn, req |-> 0, armed |-> FALSE]
<1>1. /\ Running /\ open /\ listening /\ backlog # <<>> /\ ~(front < Len(slots))
      /\ Accept /\ front' = front + 1
      /\ UNCHANGED <<open, listening, cmds, slots, reached, early, active, fate>>
      /\ \/ pairs' = Append(pairs, o) /\ UNCHANGED undefined
         \/ undefined' = "garbage request" /\ UNCHANGED pairs
  <2>1. front >= Len(slots) /\ front \in Nat /\ Len(slots) \in Nat
    BY TypeFacts DEF AcceptForNothing, QueueEmpty
  <2>2. ~(front < Len(slots))
    BY <2>1
  <2>. QED
    BY <2>2 DEF AcceptForNothing, Pop, PairedWith
<1>2. /\ front \in Nat /\ front' \in Nat /\ Len(slots) \in Nat
      /\ DOMAIN slots = 1 .. Len(slots)
      /\ \A j \in DOMAIN slots : j <= front' <=> j <= front
  <2>1. front \in Nat /\ Len(slots) \in Nat /\ DOMAIN slots = 1 .. Len(slots)
    BY TypeFacts
  <2>2. front' = front + 1 /\ ~(front < Len(slots))
    BY <1>1
  <2>. QED
    BY <2>1, <2>2
<1>3. n \in Nat /\ DOMAIN pairs = 1 .. n /\ pairs \in Seq(Outcome)
  BY TypeFacts
<1>4. o \in Outcome /\ o.req = 0 /\ o.armed = FALSE
  <2>1. Conn \in Requests \cup {0}
    BY <1>1, ConnFacts
  <2>. QED
    BY <2>1 DEF Outcome
<1> HIDE DEF o, n
<1>6. /\ DOMAIN pairs \subseteq DOMAIN pairs' /\ DOMAIN pairs' \subseteq 1 .. n + 1
      /\ pairs' \in Seq(Outcome)
      /\ \A i \in 1 .. n : pairs'[i] = pairs[i]
      /\ n + 1 \in DOMAIN pairs' => pairs'[n + 1].req = 0 /\ ~pairs'[n + 1].armed
  <2>1. CASE pairs' = Append(pairs, o)
    <3>1. /\ pairs' \in Seq(Outcome) /\ DOMAIN pairs' = 1 .. n + 1
          /\ \A i \in 1 .. n : pairs'[i] = pairs[i]
          /\ pairs'[n + 1] = o
      BY <1>3, <1>4, <2>1, AppendFacts DEF n
    <3>. QED
      BY <1>3, <1>4, <3>1
  <2>2. CASE pairs' = pairs
    BY <1>3, <2>2
  <2>. QED
    BY <1>1, <2>1, <2>2
<1>7. \A i \in DOMAIN pairs' : i \in DOMAIN pairs \/ i = n + 1
  BY <1>3, <1>6
<1>8. \A r : Behind(r)' <=> Behind(r)
  BY <1>1, <1>2 DEF Behind
<1>9. Held' = Held
  <2>1. \A i \in DOMAIN pairs : i \in Held' <=> i \in Held
    BY <1>3, <1>6 DEF Held, Unarmed
  <2>2. n + 1 \notin Held'
    BY <1>6 DEF Held, Unarmed
  <2>3. Held' \subseteq DOMAIN pairs' /\ Held \subseteq DOMAIN pairs
    BY DEF Held, Unarmed
  <2>. QED
    BY <1>7, <2>1, <2>2, <2>3
<1>10. TypeOK'
  <2>1. FdsInUse' = FdsInUse
    <3>1. Files' = Files /\ open' = open /\ active' = active
      BY <1>1 DEF Files
    <3>. QED
      BY <1>9, <3>1 DEF FdsInUse, Held
  <2>2. backlog' \in Seq(Requests)
    BY <1>1, ConnFacts
  <2>3. undefined' \in {"no", "garbage request", "freed session", "queue overrun"}
    BY <1>1 DEF Running
  <2>. QED
    BY <1>1, <1>2, <1>6, <2>1, <2>2, <2>3 DEF IInv, TypeOK, Outcome
<1>11. SlotsInv' /\ ClosedInv' /\ EndedInv'
  BY <1>1, <1>8 DEF IInv, SlotsInv, ClosedInv, EndedInv
<1>12. PairsInv'
  <2>1. ASSUME NEW i \in DOMAIN pairs', pairs'[i].req # 0
        PROVE  /\ i \in DOMAIN pairs /\ pairs'[i] = pairs[i]
               /\ Behind(pairs[i].req)'
               /\ fate'[pairs'[i].req] = "none"
                    <=> (pairs'[i].armed => pairs'[i].req \in active')
    <3>1. i \in DOMAIN pairs /\ pairs'[i] = pairs[i]
      BY <1>3, <1>6, <1>7, <2>1
    <3>. QED
      BY <1>1, <1>8, <2>1, <3>1 DEF IInv, PairsInv
  <2>2. \A i \in DOMAIN pairs' : pairs'[i].armed => pairs'[i].req # 0
    BY <1>3, <1>6, <1>7 DEF IInv, PairsInv
  <2>3. ASSUME NEW i \in DOMAIN pairs', NEW j \in DOMAIN pairs',
               pairs'[i].req = pairs'[j].req, pairs'[i].req # 0
        PROVE  i = j
    BY <2>1, <2>3 DEF IInv, PairsInv
  <2>. QED
    BY <2>1, <2>2, <2>3 DEF PairsInv
<1>13. ActiveInv'
  BY <1>1, <1>3, <1>6 DEF IInv, ActiveInv
<1>14. LossInv'
  <2>1. Lost' = Lost
    <3>1. Ended' = Ended /\ Paired \subseteq Paired' /\ Paired' \subseteq Paired \cup {0}
      <4>1. Paired \subseteq Paired'
        BY <1>3, <1>6 DEF Paired
      <4>2. ASSUME NEW i \in DOMAIN pairs' PROVE pairs'[i].req \in Paired \cup {0}
        <5>1. CASE i \in DOMAIN pairs
          BY <1>3, <1>6, <5>1 DEF Paired
        <5>2. CASE i = n + 1
          BY <1>6, <5>2
        <5>. QED
          BY <1>7, <5>1, <5>2
      <4>. QED
        BY <1>1, <4>1, <4>2 DEF Paired, Ended
    <3>2. {slots[j] : j \in {m \in DOMAIN slots : m <= front}}'
            = {slots[j] : j \in {m \in DOMAIN slots : m <= front}}
      BY <1>1, <1>2
    <3>3. \A j \in DOMAIN slots : slots[j] # 0
      BY TypeFacts DEF Requests
    <3>. QED
      BY <3>1, <3>2, <3>3 DEF Lost
  <2>2. CASE pairs' = Append(pairs, o) /\ undefined' = undefined
    <3>1. NullPops' = NullPops \cup {n + 1} /\ n + 1 \notin NullPops
      <4>1. /\ DOMAIN pairs' = 1 .. n + 1 /\ pairs'[n + 1].req = 0
        BY <1>3, <1>4, <2>2, AppendFacts DEF n
      <4>2. \A i \in 1 .. n : i \in NullPops' <=> i \in NullPops
        BY <1>3, <1>6, <4>1 DEF NullPops
      <4>3. n + 1 \in NullPops' /\ NullPops' \subseteq 1 .. n + 1 /\ NullPops \subseteq 1 .. n
        BY <1>3, <4>1 DEF NullPops
      <4>4. \A i \in 1 .. n + 1 : i \in 1 .. n \/ i = n + 1
        BY <1>3
      <4>5. n + 1 \notin 1 .. n
        BY <1>3
      <4>. QED
        BY <4>2, <4>3, <4>4, <4>5
    <3>2. Cardinality(NullPops') = Cardinality(NullPops) + 1
      BY <3>1, Counted, FS_AddElement
    <3>3. Overrun' = Overrun + 1
      <4>1. slots' = slots /\ front' = front + 1 /\ ~(front < Len(slots))
        BY <1>1
      <4>2. Overrun' = (front + 1) - Len(slots)
        <5>1. front' > Len(slots') /\ front' = front + 1 /\ slots' = slots
          BY <1>2, <4>1
        <5>. QED
          BY <5>1 DEF Overrun
      <4>3. Overrun = front - Len(slots)
        <5>1. ~(front < Len(slots)) /\ front \in Nat /\ Len(slots) \in Nat
          BY <1>2, <4>1
        <5>2. ~(front > Len(slots)) => front - Len(slots) = 0
          BY <5>1
        <5>. QED
          BY <5>2 DEF Overrun
      <4>. QED
        BY <1>2, <4>2, <4>3
    <3>4. /\ Cardinality(Lost) + Overrun <= Cardinality(NullPops)
          /\ Cardinality(Lost) <= Cardinality(NullPops)
      BY <1>1 DEF IInv, LossInv, LossBounded
    <3>5. Overrun \in Nat
      BY <1>2 DEF Overrun
    <3>. QED
      BY <2>1, <3>2, <3>3, <3>4, <3>5, Counted DEF LossInv, LossBounded
  <2>3. CASE undefined' = "garbage request" /\ pairs' = pairs
    BY <2>1, <2>3 DEF IInv, LossInv, LossBounded, NullPops, Running
  <2>. QED
    BY <1>1, <2>2, <2>3
<1>15. ~InStep
  <2>1. Len(backlog) \in Nat /\ Len(backlog) > 0
    <3>1. backlog \in Seq(Requests) /\ backlog # <<>>
      BY <1>1, TypeFacts
    <3>. QED
      BY <3>1
  <2>2. ~(front + Len(backlog) <= Len(slots))
    <3>1. ~(front < Len(slots)) /\ front \in Nat /\ Len(slots) \in Nat
      BY <1>1, <1>2
    <3>. QED
      BY <2>1, <3>1
  <2>. QED
    BY <1>1, <2>2 DEF IInv, AlignInv
<1>16. ~InStep'
  BY <1>1, <1>3, <1>6, <1>15 DEF InStep
<1>17. AlignInv' /\ OwnConnection'
  BY <1>1, <1>16 DEF IInv, AlignInv, OwnConnection, InStep
<1>. QED
  BY <1>10, <1>11, <1>12, <1>13, <1>14, <1>17 DEF IInv

-----------------------------------------------------------------------------
(* The end of a transfer and of the session.                               *)

\* A request with an event is paired once, has a kind and did not end yet.
LEMMA ActiveFacts ==
    ASSUME IInv, NEW r \in active
    PROVE  /\ r \in Requests /\ Behind(r) /\ fate[r] = "none" /\ r \in Paired
           /\ cmds[r] \in Kinds
           /\ \A i \in DOMAIN pairs : pairs[i].req = r => pairs[i].armed
<1>1. PICK i \in DOMAIN pairs : pairs[i].req = r /\ pairs[i].armed
  BY DEF IInv, ActiveInv
<1>2. r \in Requests /\ r # 0
  BY TypeFacts DEF Requests
<1>3. Behind(r) /\ fate[r] = "none"
  BY <1>1, <1>2 DEF IInv, PairsInv
<1>4. r \in Paired
  BY <1>1 DEF Paired
<1>5. cmds[r] \in Kinds
  <2>1. PICK j \in DOMAIN slots : slots[j] = r
    BY <1>3 DEF Behind
  <2>2. r \in DOMAIN cmds /\ cmds[r] \notin Refusals
    BY <2>1 DEF IInv, SlotsInv
  <2>3. cmds \in Seq(Kinds \cup Refusals) /\ DOMAIN cmds = 1 .. Len(cmds)
    BY TypeFacts
  <2>4. cmds[r] \in Kinds \cup Refusals
    BY <2>2, <2>3
  <2>. QED
    BY <2>2, <2>4
<1>6. \A m \in DOMAIN pairs : pairs[m].req = r => m = i
  BY <1>1, <1>2 DEF IInv, PairsInv
<1>. QED
  BY <1>1, <1>2, <1>3, <1>4, <1>5, <1>6

LEMMA EndPreserves ==
    ASSUME IInv, NEW r \in Requests, EndTransfer(r) PROVE IInv'
<1>1. /\ r \in active /\ active' = active \ {r}
      /\ UNCHANGED <<open, undefined, listening, cmds, slots, front, backlog,
                     reached, early, pairs>>
  BY DEF EndTransfer, EventDeleted
<1>2. PICK ending \in Endings(cmds[r]) : fate' = [fate EXCEPT ![r] = ending]
  BY DEF EndTransfer
<1>3. /\ Behind(r) /\ fate[r] = "none" /\ r \in Paired /\ cmds[r] \in Kinds
      /\ \A i \in DOMAIN pairs : pairs[i].req = r => pairs[i].armed
  BY <1>1, ActiveFacts
<1>4. ending \in {"226", "426", "silent"}
  BY <1>3 DEF Endings, Kinds
<1>5. /\ fate' \in [Requests -> {"none", "226", "426", "silent", "dropped"}]
      /\ fate'[r] # "none"
      /\ \A q \in Requests : q # r => fate'[q] = fate[q]
  BY <1>2, <1>4, TypeFacts
<1>6. TypeOK'
  <2>1. Cardinality(active') \in Nat /\ Cardinality(active') <= Cardinality(active)
    BY <1>1, Counted, FS_Subset, FS_CardinalityType
  <2>2. Files' = Files /\ Held' = Held /\ open' = open
    BY <1>1 DEF Files, Held, Unarmed
  <2>3. /\ FdsInUse = (IF open THEN 2 ELSE 0) + Cardinality(active) + Cardinality(Files)
                       + Cardinality(Held)
        /\ FdsInUse' = (IF open THEN 2 ELSE 0) + Cardinality(active') + Cardinality(Files)
                        + Cardinality(Held)
    BY <2>2 DEF FdsInUse, Held
  <2>4. /\ Cardinality(active) \in Nat /\ Cardinality(Files) \in Nat
        /\ Cardinality(Held) \in Nat /\ FdLimit \in Nat /\ FdsInUse \in 0 .. FdLimit
    BY Counted, TypeFacts DEF IInv, TypeOK
  <2>5. FdsInUse' \in 0 .. FdLimit
    BY <2>1, <2>3, <2>4
  <2>6. active' \in SUBSET Requests
    BY <1>1, TypeFacts
  <2>. QED
    BY <1>1, <1>5, <2>5, <2>6 DEF IInv, TypeOK
<1>7. SlotsInv' /\ ClosedInv'
  BY <1>1 DEF IInv, SlotsInv, ClosedInv
<1>8. \A q : Behind(q)' <=> Behind(q)
  BY <1>1 DEF Behind
<1>9. PairsInv'
  <2>1. ASSUME NEW i \in DOMAIN pairs, pairs[i].req # 0
        PROVE  fate'[pairs[i].req] = "none"
                 <=> (pairs[i].armed => pairs[i].req \in active')
    <3>1. CASE pairs[i].req = r
      BY <1>1, <1>3, <1>5, <3>1
    <3>2. CASE pairs[i].req # r
      <4>1. pairs[i].req \in Requests
        BY <2>1, PairFacts
      <4>2. fate'[pairs[i].req] = fate[pairs[i].req]
        BY <1>5, <3>2, <4>1
      <4>3. pairs[i].req \in active' <=> pairs[i].req \in active
        BY <1>1, <3>2
      <4>. QED
        BY <2>1, <4>2, <4>3 DEF IInv, PairsInv
    <3>. QED
      BY <3>1, <3>2
  <2>. QED
    BY <1>1, <1>8, <2>1 DEF IInv, PairsInv
<1>10. ActiveInv'
  BY <1>1 DEF IInv, ActiveInv
<1>11. EndedInv'
  BY <1>3, <1>5, <1>8 DEF IInv, EndedInv
<1>12. LossInv'
  <2>1. Ended' = Ended \cup {r}
    BY <1>5 DEF Ended
  <2>2. Lost' = Lost
    BY <1>1, <1>3, <2>1 DEF Lost, Paired
  <2>3. Overrun' = Overrun /\ NullPops' = NullPops
    BY <1>1 DEF Overrun, NullPops
  <2>. QED
    BY <1>1, <2>2, <2>3 DEF IInv, LossInv, LossBounded, Running
<1>13. AlignInv' /\ OwnConnection'
  BY <1>1 DEF IInv, AlignInv, InStep, OwnConnection
<1>. QED
  BY <1>6, <1>7, <1>9, <1>10, <1>11, <1>12, <1>13 DEF IInv

LEMMA ClosedUsePreserves ==
    ASSUME IInv, NEW r \in Requests, UseClosedSession(r) PROVE IInv'
<1>1. /\ undefined = "no" /\ undefined' = "freed session"
      /\ UNCHANGED <<open, listening, cmds, slots, front, backlog, reached,
                     early, pairs, active, fate>>
  BY DEF UseClosedSession, Running
<1>2. TypeOK'
  <2>1. FdsInUse' = FdsInUse
    BY <1>1 DEF FdsInUse, Files, Unarmed
  <2>. QED
    BY <1>1, <2>1 DEF IInv, TypeOK
<1>3. SlotsInv' /\ ActiveInv' /\ ClosedInv'
  BY <1>1 DEF IInv, SlotsInv, ActiveInv, ClosedInv
<1>4. PairsInv'
  BY <1>1 DEF IInv, PairsInv, Behind
<1>5. EndedInv'
  BY <1>1 DEF IInv, EndedInv, Behind
<1>6. AlignInv'
  BY <1>1 DEF IInv, AlignInv, InStep
<1>7. LossInv' /\ OwnConnection'
  BY <1>1 DEF IInv, LossInv, LossBounded, Lost, Paired, Ended, NullPops, Running, OwnConnection
<1>. QED
  BY <1>2, <1>3, <1>4, <1>5, <1>6, <1>7 DEF IInv

LEMMA QueuedCount ==
    ASSUME IInv, front <= Len(slots)
    PROVE  front + Cardinality(Queued) = Len(slots)
<1> DEFINE S == front + 1 .. Len(slots)
           f == [j \in S |-> slots[j]]
<1>1. /\ front \in Nat /\ Len(slots) \in Nat /\ S \subseteq DOMAIN slots
  BY TypeFacts
<1>2. IsFiniteSet(S) /\ front + Cardinality(S) = Len(slots)
  <2>1. IsFiniteSet(S)
    <3>1. front + 1 \in Int /\ Len(slots) \in Int
      BY <1>1
    <3>. QED
      BY <3>1, FS_Interval
  <2>2. Cardinality(S) = IF front + 1 > Len(slots) THEN 0 ELSE Len(slots) - (front + 1) + 1
    <3>1. front + 1 \in Int /\ Len(slots) \in Int
      BY <1>1
    <3>. QED
      BY <3>1, FS_Interval
  <2>. QED
    BY <1>1, <2>1, <2>2
<1>3. ExistsBijection(S, Queued)
  <2>1. f \in [S -> Queued]
    BY DEF Queued
  <2>2. \A i, j \in S : f[i] = f[j] => i = j
    BY <1>1, OneSlot
  <2>3. \A r \in Queued : \E j \in S : f[j] = r
    BY DEF Queued
  <2>4. f \in Bijection(S, Queued)
    BY <2>1, <2>2, <2>3 DEF Bijection, Injection, Surjection, IsInjective
  <2>. QED
    BY <2>4 DEF ExistsBijection
<1>4. Cardinality(Queued) = Cardinality(S)
  BY <1>2, <1>3, FS_Bijection
<1>. QED
  BY <1>2, <1>4

(* The destructor of the session: what is queued is freed, and what is not *)
(* stays as it is.                                                         *)
LEMMA ClosePreserves == ASSUME IInv, Close PROVE IInv'
<1>1. /\ open /\ open' = FALSE /\ listening' = FALSE /\ backlog' = <<>> /\ Running
      /\ UNCHANGED <<cmds, slots, reached, early, pairs, active>>
      /\ front <= Len(slots) =>
            /\ fate' = [r \in Requests |-> IF r \in Queued THEN "dropped" ELSE fate[r]]
            /\ front' = front + Cardinality(Queued)
            /\ UNCHANGED undefined
      /\ ~(front <= Len(slots)) => undefined' = "queue overrun" /\ UNCHANGED <<fate, front>>
  BY DEF Close, Freed
<1>2. front \in Nat /\ Len(slots) \in Nat /\ DOMAIN slots = 1 .. Len(slots)
  BY TypeFacts
<1>3. /\ front' \in Nat /\ front' >= Len(slots) /\ front' >= front
      /\ front <= Len(slots) => front' = Len(slots)
  <2>1. CASE front <= Len(slots)
    <3>1. front' = Len(slots)
      BY <1>1, <2>1, QueuedCount
    <3>. QED
      BY <1>2, <2>1, <3>1
  <2>2. CASE ~(front <= Len(slots))
    <3>1. front' = front
      BY <1>1, <2>2
    <3>2. front > Len(slots) /\ front >= front /\ front \in Nat
      BY <1>2, <2>2
    <3>3. front' >= Len(slots)
      BY <1>2, <3>1, <3>2
    <3>. QED
      BY <2>2, <3>1, <3>2, <3>3
  <2>. QED
    BY <2>1, <2>2
<1>4. /\ fate' \in [Requests -> {"none", "226", "426", "silent", "dropped"}]
      /\ \A r \in Requests : r \in Queued => fate'[r] # "none"
      /\ \A r \in Requests : r \notin Queued => fate'[r] = fate[r]
  <2>1. CASE front <= Len(slots)
    BY <1>1, <2>1, TypeFacts
  <2>2. CASE ~(front <= Len(slots))
    <3>1. Queued = {}
      BY <1>2, <2>2 DEF Queued
    <3>. QED
      BY <1>1, <2>2, <3>1, TypeFacts
  <2>. QED
    BY <2>1, <2>2
<1>5. \A r : Behind(r)' <=> \E j \in DOMAIN slots : slots[j] = r
  <2>1. \A j \in DOMAIN slots : j <= front'
    BY <1>2, <1>3
  <2>. QED
    BY <1>1, <2>1 DEF Behind
<1>6. \A r : Behind(r) => Behind(r)'
  BY <1>5 DEF Behind
<1>7. \A r : r \in Queued => Behind(r)'
  <2>1. \A j \in front + 1 .. Len(slots) : j \in DOMAIN slots
    BY <1>2
  <2>. QED
    BY <1>5, <2>1 DEF Queued
<1>8. TypeOK'
  <2>1. Files' = Files /\ Held' = Held /\ active' = active
    BY <1>1 DEF Files, Held, Unarmed
  <2>2. /\ FdsInUse = 2 + Cardinality(active) + Cardinality(Files) + Cardinality(Held)
        /\ FdsInUse' = 0 + Cardinality(active) + Cardinality(Files) + Cardinality(Held)
    BY <1>1, <2>1 DEF FdsInUse, Held
  <2>3. /\ Cardinality(active) \in Nat /\ Cardinality(Files) \in Nat
        /\ Cardinality(Held) \in Nat /\ FdLimit \in Nat /\ FdsInUse \in 0 .. FdLimit
    BY Counted, TypeFacts DEF IInv, TypeOK
  <2>4. FdsInUse' \in 0 .. FdLimit
    BY <2>2, <2>3
  <2>5. undefined' \in {"no", "garbage request", "freed session", "queue overrun"}
    BY <1>1 DEF Running
  <2>6. backlog' \in Seq(Requests)
    <3>1. backlog' = <<>>
      BY <1>1
    <3>. QED
      BY <3>1
  <2>. QED
    BY <1>1, <1>3, <1>4, <2>4, <2>5, <2>6 DEF IInv, TypeOK
<1>9. SlotsInv' /\ ActiveInv'
  BY <1>1 DEF IInv, SlotsInv, ActiveInv
<1>10. PairsInv'
  <2>1. ASSUME NEW i \in DOMAIN pairs, pairs[i].req # 0
        PROVE  /\ Behind(pairs[i].req)'
               /\ fate'[pairs[i].req] = "none"
                    <=> (pairs[i].armed => pairs[i].req \in active)
    <3>1. pairs[i].req \in Requests /\ pairs[i].req \in Paired
      BY <2>1, PairFacts DEF Paired
    <3>2. pairs[i].req \notin Queued
      BY <3>1, QueuedFacts
    <3>3. fate'[pairs[i].req] = fate[pairs[i].req]
      BY <1>4, <3>1, <3>2
    <3>4. Behind(pairs[i].req)'
      <4>1. Behind(pairs[i].req)
        BY <2>1 DEF IInv, PairsInv
      <4>. QED
        BY <1>1, <1>6, <4>1 DEF Behind
    <3>5. fate[pairs[i].req] = "none" <=> (pairs[i].armed => pairs[i].req \in active)
      BY <2>1 DEF IInv, PairsInv
    <3>. QED
      BY <3>3, <3>4, <3>5
  <2>. QED
    BY <1>1, <2>1 DEF IInv, PairsInv
<1>11. EndedInv'
  BY <1>4, <1>6, <1>7 DEF IInv, EndedInv
<1>12. ClosedInv'
  BY <1>1, <1>3 DEF ClosedInv
<1>13. LossInv'
  <2>1. Paired' = Paired /\ NullPops' = NullPops
    BY <1>1 DEF Paired, NullPops
  <2>2. Lost' \subseteq Lost
    <3> SUFFICES ASSUME NEW r \in Lost' PROVE r \in Lost
      OBVIOUS
    <3>1. PICK j \in DOMAIN slots : slots[j] = r
      BY <1>1 DEF Lost
    <3>2. r \in Requests /\ r \notin Paired /\ fate'[r] = "none"
      BY <2>1, <3>1, TypeFacts DEF Lost, Ended
    <3>3. r \notin Queued /\ fate[r] = "none"
      BY <1>4, <3>2
    <3>4. j <= front
      BY <1>2, <3>1, <3>3 DEF Queued
    <3>. QED
      BY <3>1, <3>2, <3>3, <3>4 DEF Lost, Ended
  <2>3. Cardinality(Lost') \in Nat /\ Cardinality(Lost') <= Cardinality(Lost)
    BY <2>2, Counted, FS_Subset, FS_CardinalityType
  <2>4. Cardinality(Lost) <= Cardinality(NullPops)
    BY DEF IInv, LossInv, LossBounded
  <2>5. Running' => Overrun' = 0
    <3>1. Running' => front <= Len(slots)
      BY <1>1 DEF Running
    <3>2. front <= Len(slots) => ~(front' > Len(slots'))
      <4>1. slots' = slots
        BY <1>1
      <4>. QED
        BY <1>2, <1>3, <4>1
    <3>. QED
      BY <3>1, <3>2 DEF Overrun
  <2>. QED
    BY <2>1, <2>3, <2>4, <2>5, Counted DEF LossInv, LossBounded
<1>14. AlignInv' /\ OwnConnection'
  <2>1. undefined' # "garbage request"
    BY <1>1 DEF Running
  <2>. QED
    BY <1>1, <2>1 DEF IInv, AlignInv, InStep, OwnConnection
<1>. QED
  BY <1>8, <1>9, <1>10, <1>11, <1>12, <1>13, <1>14 DEF IInv

-----------------------------------------------------------------------------
(* IInv holds in every state of every behaviour.                           *)
THEOREM IInvHolds == Spec => []IInv
<1>1. IInv /\ [Next]_vars => IInv'
  <2> SUFFICES ASSUME IInv, [Next]_vars PROVE IInv'
    OBVIOUS
  <2>1. CASE \E r \in Requests : Connect(r)
    BY <2>1, ConnectPreserves
  <2>2. CASE Pasv
    BY <2>2, PasvPreserves
  <2>3. CASE \E kind \in Kinds : DataCommand(kind)
    BY <2>3, CommandPreserves
  <2>4. CASE RefuseCommand
    BY <2>4, RefusePreserves
  <2>5. CASE Close
    BY <2>5, ClosePreserves
  <2>6. CASE PasvAccept
    BY <2>6, AcceptForRequestPreserves, AcceptForNothingPreserves DEF PasvAccept
  <2>7. CASE \E r \in Requests : EndTransfer(r)
    BY <2>7, EndPreserves
  <2>8. CASE \E r \in Requests : UseClosedSession(r)
    BY <2>8, ClosedUsePreserves
  <2>9. CASE UNCHANGED vars
    <3>1. UNCHANGED <<open, undefined, listening, cmds, slots, front, backlog, reached,
                      early, pairs, active, fate>>
      BY <2>9 DEF vars
    <3>2. TypeOK'
      BY <3>1 DEF IInv, TypeOK, FdsInUse, Files, Unarmed
    <3>3. SlotsInv' /\ ActiveInv' /\ ClosedInv'
      BY <3>1 DEF IInv, SlotsInv, ActiveInv, ClosedInv
    <3>4. PairsInv' /\ EndedInv'
      BY <3>1 DEF IInv, PairsInv, EndedInv, Behind
    <3>5. AlignInv' /\ OwnConnection'
      BY <3>1 DEF IInv, AlignInv, InStep, OwnConnection
    <3>6. LossInv'
      BY <3>1 DEF IInv, LossInv, LossBounded, Lost, Paired, Ended, NullPops, Overrun, Running
    <3>. QED
      BY <3>2, <3>3, <3>4, <3>5, <3>6 DEF IInv
  <2>. QED
    BY <2>1, <2>2, <2>3, <2>4, <2>5, <2>6, <2>7, <2>8, <2>9 DEF Next, Client
<1>. QED
  BY InitIInv, <1>1, PTL DEF Spec

-----------------------------------------------------------------------------
(* The properties.                                                         *)

LEMMA HolderFacts ==
    ASSUME NEW r
    PROVE  /\ "queued" \in Holders(r) <=> r \in Queued
           /\ "active" \in Holders(r) <=> r \in active
           /\ "stuck" \in Holders(r) <=> r \in Stuck
           /\ "ended" \in Holders(r) <=> r \in Ended
           /\ "lost" \in Holders(r) <=> r \in Lost
           /\ Holders(r) \subseteq {"queued", "active", "stuck", "ended", "lost"}
  BY DEF Holders

\* What the place of a request follows from.
LEMMA PlaceFacts ==
    ASSUME IInv, NEW r \in Requests
    PROVE  /\ r \in Lost <=> Behind(r) /\ r \notin Paired /\ r \notin Ended
           /\ r \in Ended <=> fate[r] # "none"
           /\ r \in Stuck => r \in Paired /\ r \notin active /\ r \notin Ended
           /\ r \in Paired => r \in Stuck \/ r \in active \/ r \in Ended
           /\ r \in active => r \in Paired /\ r \notin Ended
           /\ Behind(r) \/ r \in Queued <=> \E j \in DOMAIN slots : slots[j] = r
           /\ r \in Paired \/ r \in Ended => Behind(r)
<1>1. r \in Ended <=> fate[r] # "none"
  BY DEF Ended
<1>2. r # 0
  BY DEF Requests
<1>3. r \in Lost <=> Behind(r) /\ r \notin Paired /\ r \notin Ended
  BY DEF Lost, Behind
<1>4. ASSUME r \in Stuck PROVE r \in Paired /\ r \notin active /\ r \notin Ended
  <2>1. PICK i \in DOMAIN pairs : pairs[i].req = r /\ ~pairs[i].armed
    BY <1>4 DEF Stuck, Unarmed
  <2>2. fate[r] = "none"
    BY <1>2, <2>1 DEF IInv, PairsInv
  <2>3. r \notin active
    BY <2>1, ActiveFacts
  <2>. QED
    BY <1>1, <2>1, <2>2, <2>3 DEF Paired
<1>5. ASSUME r \in Paired PROVE r \in Stuck \/ r \in active \/ r \in Ended
  <2>1. PICK i \in DOMAIN pairs : pairs[i].req = r
    BY <1>5 DEF Paired
  <2>2. CASE ~pairs[i].armed
    BY <1>2, <2>1, <2>2 DEF Stuck, Unarmed
  <2>3. CASE pairs[i].armed
    BY <1>1, <1>2, <2>1, <2>3 DEF IInv, PairsInv
  <2>. QED
    BY <2>2, <2>3
<1>6. r \in active => r \in Paired /\ r \notin Ended
  BY <1>1, ActiveFacts
<1>7. Behind(r) \/ r \in Queued <=> \E j \in DOMAIN slots : slots[j] = r
  <2>1. \A j \in DOMAIN slots : j <= front \/ j \in front + 1 .. Len(slots)
    BY TypeFacts
  <2>2. \A j \in front + 1 .. Len(slots) : j \in DOMAIN slots
    BY TypeFacts
  <2>. QED
    BY <2>1, <2>2 DEF Behind, Queued
<1>8. r \in Paired \/ r \in Ended => Behind(r)
  BY <1>1, <1>2 DEF Paired, IInv, PairsInv, EndedInv
<1>. QED
  BY <1>1, <1>3, <1>4, <1>5, <1>6, <1>7, <1>8

LEMMA IInvPlaces == IInv => OnePlace
<1> SUFFICES ASSUME IInv PROVE OnePlace
  OBVIOUS
<1>1. ASSUME NEW r \in DOMAIN cmds
      PROVE  Cardinality(Holders(r)) = (IF cmds[r] \in Refusals THEN 0 ELSE 1)
  <2>1. r \in Requests
    <3>1. DOMAIN cmds = 1 .. Len(cmds) /\ Len(cmds) \in Nat /\ Len(cmds) <= MaxCmds
          /\ MaxCmds \in Nat
      BY TypeFacts DEF IInv, TypeOK
    <3>. QED
      BY <3>1 DEF Requests
  <2>2. CASE cmds[r] \in Refusals
    <3>1. ~\E j \in DOMAIN slots : slots[j] = r
      BY <2>2 DEF IInv, SlotsInv
    <3>2. ~Behind(r) /\ r \notin Queued
      BY <2>1, <3>1, PlaceFacts
    <3>3. r \notin active /\ r \notin Stuck /\ r \notin Ended /\ r \notin Lost
      BY <2>1, <3>2, PlaceFacts
    <3>4. Holders(r) = {}
      BY <3>2, <3>3, HolderFacts
    <3>. QED
      BY <2>2, <3>4, FS_EmptySet
  <2>3. CASE cmds[r] \notin Refusals
    <3>1. Behind(r) \/ r \in Queued
      BY <2>1, <2>3, PlaceFacts DEF IInv, SlotsInv
    <3>2. \E h : Holders(r) = {h}
      <4>1. CASE r \in Queued
        <5>1. ~Behind(r) /\ r \notin Paired /\ r \notin active
          BY <4>1, QueuedFacts
        <5>2. r \notin Stuck /\ r \notin Ended /\ r \notin Lost
          BY <2>1, <5>1, PlaceFacts
        <5>3. Holders(r) = {"queued"}
          BY <4>1, <5>1, <5>2, HolderFacts
        <5>. QED
          BY <5>3
      <4>2. CASE r \notin Queued /\ r \in active
        <5>1. r \notin Stuck /\ r \notin Ended /\ r \notin Lost
          BY <2>1, <4>2, PlaceFacts
        <5>2. Holders(r) = {"active"}
          BY <4>2, <5>1, HolderFacts
        <5>. QED
          BY <5>2
      <4>3. CASE r \notin Queued /\ r \notin active /\ r \in Stuck
        <5>1. r \notin Ended /\ r \notin Lost
          BY <2>1, <4>3, PlaceFacts
        <5>2. Holders(r) = {"stuck"}
          BY <4>3, <5>1, HolderFacts
        <5>. QED
          BY <5>2
      <4>4. CASE r \notin Queued /\ r \notin active /\ r \notin Stuck /\ r \in Ended
        <5>1. r \notin Lost
          BY <2>1, <4>4, PlaceFacts
        <5>2. Holders(r) = {"ended"}
          BY <4>4, <5>1, HolderFacts
        <5>. QED
          BY <5>2
      <4>5. CASE r \notin Queued /\ r \notin active /\ r \notin Stuck /\ r \notin Ended
        <5>1. r \in Lost
          BY <2>1, <3>1, <4>5, PlaceFacts
        <5>2. Holders(r) = {"lost"}
          BY <4>5, <5>1, HolderFacts
        <5>. QED
          BY <5>2
      <4>. QED
        BY <4>1, <4>2, <4>3, <4>4, <4>5
    <3>. QED
      BY <2>3, <3>2, FS_Singleton
  <2>. QED
    BY <2>2, <2>3
<1>2. Queued # {} => open
  <2>1. SUFFICES ASSUME ~open PROVE Queued = {}
    OBVIOUS
  <2>2. front >= Len(slots) /\ front \in Nat /\ Len(slots) \in Nat
    BY <2>1, TypeFacts DEF IInv, ClosedInv
  <2>. QED
    BY <2>2 DEF Queued
<1>. QED
  BY <1>1, <1>2 DEF OnePlace

(* In every session, whatever the order of the commands, connections,      *)
(* callbacks and the close: the descriptors stay within their limit, a     *)
(* request that LIST, RETR or STOR queued is in one place, and no more     *)
(* requests are lost than pops found the queue empty                       *)
(* (ftp_server.cpp:496,539,900-916, ftp_conn.cpp:24-30).                   *)
THEOREM SessionInvariant == Spec => []Inv
<1>1. IInv => Inv
  BY IInvPlaces DEF IInv, LossInv, Inv
<1>. QED
  BY IInvHolds, <1>1, PTL

(* A client that opens each data connection after its command is handled,  *)
(* on a server with descriptors, gets its own transfer on each, and        *)
(* pasv_accept never reads a request that is not there                     *)
(* (ftp_conn.h:74, ftp_server.cpp:901-909).                                *)
THEOREM OwnTransfers == Spec => []OwnConnection
<1>1. IInv => OwnConnection
  BY DEF IInv
<1>. QED
  BY IInvHolds, <1>1, PTL

(* What ended a request stays: neither its own callback nor the destructor *)
(* of the session ends it a second time                                    *)
(* (ftp_server.cpp:750-753,840-842,885-887).                               *)
THEOREM TransferEndsOnce == Spec => EndsOnce
<1>1. IInv /\ [Next]_vars
        => [\A r \in Requests : fate[r] # "none" => fate'[r] = fate[r]]_vars
  <2> SUFFICES ASSUME IInv, Next, NEW r \in Requests, fate[r] # "none"
               PROVE  fate'[r] = fate[r]
    BY DEF vars
  <2>1. CASE \E q \in Requests : EndTransfer(q)
    <3>1. PICK q \in Requests : EndTransfer(q)
      BY <2>1
    <3>2. PICK ending : fate' = [fate EXCEPT ![q] = ending]
      BY <3>1 DEF EndTransfer
    <3>3. r # q
      BY <3>1, ActiveFacts DEF EndTransfer
    <3>. QED
      BY <3>2, <3>3, TypeFacts
  <2>2. CASE Close
    <3>1. r \notin Queued
      BY QueuedFacts
    <3>. QED
      BY <2>2, <3>1 DEF Close, Freed
  <2>3. CASE ~Close /\ ~\E q \in Requests : EndTransfer(q)
    BY <2>3 DEF Next, Client, PasvAccept, Connect, Pasv, DataCommand, RefuseCommand,
       AcceptForRequest, AcceptForNothing, UseClosedSession
  <2>. QED
    BY <2>1, <2>2, <2>3
<1>. QED
  BY IInvHolds, <1>1, PTL DEF Spec, EndsOnce

-----------------------------------------------------------------------------
(* Sequences.                                                              *)

\* u is s followed by the n elements of t that come after the first a.
Piece(S, s, t, a, n, u) ==
    /\ u \in Seq(S)
    /\ Len(u) = Len(s) + n
    /\ \A i \in 1 .. Len(s) : u[i] = s[i]
    /\ \A i \in 1 .. n : u[Len(s) + i] = t[a + i]

(* Appending a piece of a sequence to another.                             *)
LEMMA PieceFacts ==
    ASSUME NEW S, NEW s \in Seq(S), NEW t \in Seq(S),
           NEW a \in Nat, NEW n \in Nat, a + n <= Len(t),
           NEW u, u = s \o SubSeq(t, a + 1, a + n)
    PROVE  Piece(S, s, t, a, n, u)
<1> DEFINE p == SubSeq(t, a + 1, a + n)
<1>1. \A i \in a + 1 .. a + n : t[i] \in S
  OBVIOUS
<1>2. /\ p \in Seq(S)
      /\ Len(p) = n
      /\ \A i \in 1 .. n : p[i] = t[a + i]
  BY <1>1, SubSeqProperties
<1>3. u = s \o p
  OBVIOUS
<1> HIDE DEF p
<1>4. /\ u \in Seq(S)
      /\ Len(u) = Len(s) + n
      /\ \A i \in 1 .. Len(s) + n : u[i] = IF i <= Len(s) THEN s[i] ELSE p[i - Len(s)]
  <2>1. /\ s \o p \in Seq(S)
        /\ Len(s \o p) = Len(s) + Len(p)
        /\ \A i \in 1 .. Len(s) + Len(p) :
              (s \o p)[i] = IF i <= Len(s) THEN s[i] ELSE p[i - Len(s)]
    BY <1>2, ConcatProperties
  <2>. QED
    BY <1>2, <1>3, <2>1
<1>5. ASSUME NEW i \in 1 .. n
      PROVE  u[Len(s) + i] = t[a + i]
  <2>1. Len(s) \in Nat
    OBVIOUS
  <2>2. Len(s) + i \in 1 .. Len(s) + n /\ ~(Len(s) + i <= Len(s))
        /\ (Len(s) + i) - Len(s) = i
    BY <2>1
  <2>. QED
    BY <2>2, <1>2, <1>4
<1>6. \A i \in 1 .. Len(s) : u[i] = s[i]
  BY <1>4
<1>. QED
  BY <1>4, <1>5, <1>6 DEF Piece

(* A sequence that agrees with another one is a prefix of it.              *)
LEMMA PrefixFacts ==
    ASSUME NEW S, NEW s \in Seq(S), NEW t \in Seq(S), Len(s) <= Len(t),
           \A i \in 1 .. Len(s) : s[i] = t[i]
    PROVE  s = SubSeq(t, 1, Len(s))
<1> DEFINE p == SubSeq(t, 1, Len(s))
<1>1. Len(s) \in Nat
  OBVIOUS
<1>2. /\ p \in Seq(S)
      /\ Len(p) = Len(s)
      /\ \A i \in 1 .. Len(s) : p[i] = t[i]
  <2>1. \A i \in 1 .. Len(s) : t[i] \in S
    OBVIOUS
  <2>. QED
    BY <1>1, <2>1, SubSeqProperties
<1> HIDE DEF p
<1>3. s = p
  BY <1>1, <1>2, SeqEqual
<1>. QED
  BY <1>3 DEF p

-----------------------------------------------------------------------------
(* Induction over numbers, and recursive functions.                        *)

\* A set of numbers has a least one.
LEMMA MinMember ==
    ASSUME NEW S, S \subseteq Nat, S # {}
    PROVE  \E x \in S : \A y \in S : x =< y
<1> DEFINE LT == {p \in Nat \X Nat : p[1] < p[2]}
<1>1. IsWellFoundedOn(LT, Nat)
  BY NatLessThanWellFounded DEF OpToRel
<1> HIDE DEF LT
<1>2. PICK x \in S : \A y \in S : ~ (<<y, x>> \in LT)
  BY <1>1, WFMin
<1>3. \A y \in S : x =< y
  <2>1. TAKE y \in S
  <2>2. x \in Nat /\ y \in Nat
    BY <1>2
  <2>3. ~ (y < x)
    BY <1>2, <2>2 DEF LT
  <2>. QED
    BY <2>2, <2>3
<1>. QED
  BY <1>2, <1>3

\* What holds of a, and with each number of the next, holds up to b.
LEMMA UpTo ==
    ASSUME NEW a \in Nat, NEW b \in Nat, NEW S, a \in S,
           \A n \in a + 1 .. b : n - 1 \in S => n \in S
    PROVE  a .. b \subseteq S
<1> DEFINE Missing == {n \in a .. b : n \notin S}
<1>1. SUFFICES ASSUME Missing # {} PROVE FALSE
  OBVIOUS
<1>2. Missing \subseteq Nat
  OBVIOUS
<1>3. PICK m \in Missing : \A y \in Missing : m =< y
  BY <1>1, <1>2, MinMember
<1>4. m \in a + 1 .. b
  BY <1>3
<1>5. m - 1 \in a .. b /\ m - 1 \notin Missing
  BY <1>3, <1>4
<1>. QED
  BY <1>3, <1>4, <1>5

LEMMA ElementType ==
    ASSUME NEW S, NEW s \in Seq(S), NEW i \in 1 .. Len(s)
    PROVE  s[i] \in S
  OBVIOUS

\* A function that is given by its first value and by each from the one
\* before exists.
Recursion(f, N, A, a, G) ==
    /\ f \in [0 .. N -> A]
    /\ f[0] = a
    /\ \A i \in 1 .. N : f[i] = G[<<f[i - 1], i>>]

LEMMA RecursionExists ==
    ASSUME NEW N \in Nat, NEW A, NEW a \in A, NEW G \in [A \X (1 .. N) -> A]
    PROVE  \E f : Recursion(f, N, A, a, G)
<1> USE DEF Recursion
<1> DEFINE Upon(n) == {f \in [0 .. n -> A] :
                          f[0] = a /\ \A i \in 1 .. n : f[i] = G[<<f[i - 1], i>>]}
           S == {n \in 0 .. N : Upon(n) # {}}
<1>1. 0 \in S
  <2>1. [i \in 0 .. 0 |-> a] \in Upon(0)
    OBVIOUS
  <2>. QED
    BY <2>1
<1>2. ASSUME NEW n \in 0 + 1 .. N, n - 1 \in S PROVE n \in S
  <2>1. PICK f \in [0 .. n - 1 -> A] :
           f[0] = a /\ \A i \in 1 .. n - 1 : f[i] = G[<<f[i - 1], i>>]
    BY <1>2
  <2>2. n \in 1 .. N /\ n \in Nat /\ n - 1 \in 0 .. n - 1
    BY <1>2
  <2> DEFINE g == [i \in 0 .. n |-> IF i = n THEN G[<<f[n - 1], n>>] ELSE f[i]]
  <2>3. G[<<f[n - 1], n>>] \in A
    BY <2>2
  <2>4. \A i \in 0 .. n : i # n => i \in 0 .. n - 1
    BY <2>2
  <2>5. g \in [0 .. n -> A]
    BY <2>3, <2>4
  <2>6. g[0] = a
    BY <2>1, <2>2
  <2>7. ASSUME NEW i \in 1 .. n PROVE g[i] = G[<<g[i - 1], i>>]
    <3>1. i \in 0 .. n /\ i - 1 \in 0 .. n /\ i - 1 # n
      BY <2>2
    <3>2. g[i - 1] = f[i - 1]
      BY <3>1
    <3>3. CASE i = n
      BY <3>1, <3>2, <3>3
    <3>4. CASE i # n
      <4>1. i \in 1 .. n - 1
        BY <2>2, <3>4
      <4>2. g[i] = f[i]
        BY <3>1, <3>4
      <4>. QED
        BY <2>1, <3>2, <4>1, <4>2
    <3>. QED
      BY <3>3, <3>4
  <2>8. g \in Upon(n)
    BY <2>5, <2>6, <2>7
  <2> HIDE DEF Upon, g
  <2>9. n \in 0 .. N
    BY <2>2
  <2>. QED
    BY <2>8, <2>9
<1> HIDE DEF S
<1>3. 0 .. N \subseteq S
  BY <1>1, <1>2, UpTo
<1>4. N \in 0 .. N
  OBVIOUS
<1>5. Upon(N) # {}
  BY <1>3, <1>4 DEF S
<1>. QED
  BY <1>5

-----------------------------------------------------------------------------
(* ListSend: the list that is made of a directory.                         *)

EmptyLists == [dir_list |-> <<>>, file_list |-> <<>>]
ListsType == [dir_list : Seq(Byte), file_list : Seq(Byte)]

LEMMA EntryFacts ==
    ASSUME NEW i \in 1 .. Len(Entries)
    PROVE  Entries[i].dir \in BOOLEAN /\ Entries[i].line \in Seq(Byte)
<1>1. Entries \in Seq([dir : BOOLEAN, line : Seq(Byte)])
  BY ListAssumption
<1>2. Entries[i] \in [dir : BOOLEAN, line : Seq(Byte)]
  BY <1>1, ElementType
<1>. QED
  BY <1>2

LEMMA GetDirInfoType ==
    ASSUME NEW info \in ListsType, NEW i \in 1 .. Len(Entries)
    PROVE  get_dir_info(info, Entries[i]) \in ListsType
<1>1. info.dir_list \in Seq(Byte) /\ info.file_list \in Seq(Byte)
  BY DEF ListsType
<1>2. Entries[i].line \in Seq(Byte)
  BY EntryFacts
<1>3. info.dir_list \o Entries[i].line \in Seq(Byte) /\ info.file_list \o Entries[i].line \in Seq(Byte)
  BY <1>1, <1>2, ConcatProperties
<1>. QED
  BY <1>3 DEF get_dir_info, ListsType

\* What get_dir_info has made of the first i entries.
LEMMA ListInfoFacts ==
    /\ list_info \in [0 .. Len(Entries) -> ListsType]
    /\ list_info[0] = EmptyLists
    /\ \A i \in 1 .. Len(Entries) :
          list_info[i] = get_dir_info(list_info[i - 1], Entries[i])
<1> DEFINE N == Len(Entries)
           G == [x \in ListsType \X (1 .. N) |-> get_dir_info(x[1], Entries[x[2]])]
           Def(f) == f = [i \in 0 .. N |-> IF i = 0 THEN [dir_list |-> <<>>, file_list |-> <<>>]
                                           ELSE get_dir_info(f[i - 1], Entries[i])]
<1>1. N \in Nat
  BY ListAssumption
<1>2. EmptyLists \in ListsType
  BY DEF EmptyLists, ListsType
<1>3. G \in [ListsType \X (1 .. N) -> ListsType]
  BY GetDirInfoType
<1>4. \A i \in 0 .. N : i # 0 => i \in 1 .. N /\ i - 1 \in 0 .. N
  BY <1>1
<1>5. PICK f : Recursion(f, N, ListsType, EmptyLists, G)
  <2> HIDE DEF N, G
  <2>. QED
    BY <1>1, <1>2, <1>3, RecursionExists, Zenon
<1>6. \A i \in 1 .. N : f[i] = get_dir_info(f[i - 1], Entries[i])
  <2>1. TAKE i \in 1 .. N
  <2>2. i - 1 \in 0 .. N
    BY <1>1
  <2>3. f[i - 1] \in ListsType
    BY <1>5, <2>2 DEF Recursion
  <2>4. f[i - 1] \in ListsType /\ <<f[i - 1], i>> \in ListsType \X (1 .. N)
    BY <2>3
  <2>5. G[<<f[i - 1], i>>] = get_dir_info(f[i - 1], Entries[i])
    BY <2>4
  <2> HIDE DEF G
  <2>. QED
    BY <1>5, <2>5 DEF Recursion
<1>7. Def(f)
  BY <1>1, <1>4, <1>5, <1>6 DEF EmptyLists, Recursion
<1>8. Def(list_info)
  BY <1>7 DEF list_info
<1>9. list_info[0] = EmptyLists
  BY <1>1, <1>8 DEF EmptyLists
<1>10. ASSUME NEW i \in 1 .. N PROVE list_info[i] = get_dir_info(list_info[i - 1], Entries[i])
  <2>1. i \in 0 .. N /\ i # 0
    BY <1>1
  <2>. QED
    BY <1>8, <2>1
<1>11. \A i \in 0 .. N : list_info[i] \in ListsType
  <2> DEFINE S == {i \in 0 .. N : list_info[i] \in ListsType}
  <2>1. 0 \in S
    BY <1>1, <1>2, <1>9
  <2>2. ASSUME NEW n \in 0 + 1 .. N, n - 1 \in S PROVE n \in S
    <3>1. n \in 1 .. N /\ n \in 0 .. N
      BY <1>1
    <3>2. list_info[n - 1] \in ListsType
      BY <2>2
    <3>. QED
      BY <1>10, <3>1, <3>2, GetDirInfoType
  <2> HIDE DEF S
  <2>3. 0 .. N \subseteq S
    <3> HIDE DEF N
    <3>. QED
      BY <1>1, <2>1, <2>2, UpTo
  <2>. QED
    BY <2>3 DEF S
<1>. QED
  BY <1>8, <1>9, <1>10, <1>11

\* The lines of the directories, or of the files, among the first i entries.
LEMMA LinesFacts ==
    ASSUME NEW dir \in BOOLEAN
    PROVE  \E f \in [0 .. Len(Entries) -> Seq(Byte)] :
             /\ Lines(dir) = f[Len(Entries)]
             /\ f[0] = <<>>
             /\ \A i \in 1 .. Len(Entries) :
                   f[i] = IF Entries[i].dir = dir THEN f[i - 1] \o Entries[i].line ELSE f[i - 1]
<1> DEFINE N == Len(Entries)
           Step(s, i) == IF Entries[i].dir = dir THEN s \o Entries[i].line ELSE s
           G == [x \in Seq(Byte) \X (1 .. N) |-> Step(x[1], x[2])]
           lines == CHOOSE f : f = [i \in 0 .. N |->
                       IF i = 0 THEN <<>>
                       ELSE IF Entries[i].dir = dir THEN f[i - 1] \o Entries[i].line
                       ELSE f[i - 1]]
<1>1. N \in Nat
  BY ListAssumption
<1>2. \A s \in Seq(Byte), i \in 1 .. N : Step(s, i) \in Seq(Byte)
  <2>1. TAKE s \in Seq(Byte), i \in 1 .. N
  <2>2. Entries[i].line \in Seq(Byte)
    BY EntryFacts
  <2>. QED
    BY <2>2, ConcatProperties
<1>3. G \in [Seq(Byte) \X (1 .. N) -> Seq(Byte)]
  BY <1>2
<1>4. \A i \in 0 .. N : i # 0 => i \in 1 .. N /\ i - 1 \in 0 .. N
  BY <1>1
<1>5. PICK f : Recursion(f, N, Seq(Byte), <<>>, G)
  <2> HIDE DEF N, G
  <2>1. <<>> \in Seq(Byte)
    OBVIOUS
  <2>. QED
    BY <1>1, <1>3, <2>1, RecursionExists, Zenon
<1>6. f \in [0 .. N -> Seq(Byte)] /\ f[0] = <<>>
  BY <1>5 DEF Recursion
<1>7. ASSUME NEW i \in 1 .. N PROVE f[i] = Step(f[i - 1], i)
  <2>1. f[i - 1] \in Seq(Byte)
    <3>1. i - 1 \in 0 .. N
      BY <1>1
    <3>. QED
      BY <1>6, <3>1
  <2>2. G[<<f[i - 1], i>>] = Step(f[i - 1], i)
    BY <2>1
  <2> HIDE DEF G, Step
  <2>. QED
    BY <1>5, <2>2 DEF Recursion
<1>8. f = [i \in 0 .. N |-> IF i = 0 THEN <<>>
                            ELSE IF Entries[i].dir = dir THEN f[i - 1] \o Entries[i].line
                            ELSE f[i - 1]]
  BY <1>1, <1>4, <1>6, <1>7
<1>9. lines = [i \in 0 .. N |-> IF i = 0 THEN <<>>
                                ELSE IF Entries[i].dir = dir THEN lines[i - 1] \o Entries[i].line
                                ELSE lines[i - 1]]
  BY <1>8
<1>10. Lines(dir) = lines[N]
  BY DEF Lines
<1> HIDE DEF lines
<1>11. lines[0] = <<>>
  BY <1>1, <1>9
<1>12. ASSUME NEW i \in 1 .. N PROVE lines[i] = Step(lines[i - 1], i)
  <2>1. i \in 0 .. N /\ i # 0
    BY <1>1
  <2>. QED
    BY <1>9, <2>1
<1>13. \A i \in 0 .. N : lines[i] \in Seq(Byte)
  <2> DEFINE S == {i \in 0 .. N : lines[i] \in Seq(Byte)}
  <2>1. 0 \in S
    <3>1. <<>> \in Seq(Byte) /\ 0 \in 0 .. N
      BY <1>1
    <3>. QED
      BY <1>11, <3>1
  <2>2. ASSUME NEW n \in 0 + 1 .. N, n - 1 \in S PROVE n \in S
    <3>1. n \in 1 .. N /\ n \in 0 .. N
      BY <1>1
    <3>2. lines[n - 1] \in Seq(Byte)
      BY <2>2
    <3> HIDE DEF Step
    <3>. QED
      BY <1>2, <1>12, <3>1, <3>2
  <2> HIDE DEF S
  <2>3. 0 .. N \subseteq S
    <3> HIDE DEF N
    <3>. QED
      BY <1>1, <2>1, <2>2, UpTo
  <2>. QED
    BY <2>3 DEF S
<1>14. lines \in [0 .. N -> Seq(Byte)]
  BY <1>9, <1>13
<1>. QED
  BY <1>10, <1>11, <1>12, <1>14

(* The list is that of the directories in the order of readdir and then of *)
(* the files: one pass over the entries with two accumulators comes to the *)
(* same as two passes (ftp_server.cpp:394-422,467-477).                    *)
THEOREM ListInOrder == List = Listing /\ List \in Seq(Byte)
<1> DEFINE N == Len(Entries)
<1>1. N \in Nat
  BY ListAssumption
<1>2. /\ list_info \in [0 .. N -> ListsType] /\ list_info[0] = EmptyLists
      /\ \A i \in 1 .. N : list_info[i] = get_dir_info(list_info[i - 1], Entries[i])
  BY ListInfoFacts
<1>3. PICK d \in [0 .. N -> Seq(Byte)] :
         /\ Lines(TRUE) = d[N] /\ d[0] = <<>>
         /\ \A i \in 1 .. N :
               d[i] = IF Entries[i].dir = TRUE THEN d[i - 1] \o Entries[i].line ELSE d[i - 1]
  BY LinesFacts
<1>4. PICK f \in [0 .. N -> Seq(Byte)] :
         /\ Lines(FALSE) = f[N] /\ f[0] = <<>>
         /\ \A i \in 1 .. N :
               f[i] = IF Entries[i].dir = FALSE THEN f[i - 1] \o Entries[i].line ELSE f[i - 1]
  BY LinesFacts
<1> DEFINE S == {i \in 0 .. N : list_info[i].dir_list = d[i] /\ list_info[i].file_list = f[i]}
<1>5. 0 \in S
  BY <1>1, <1>2, <1>3, <1>4 DEF EmptyLists
<1>6. ASSUME NEW n \in 0 + 1 .. N, n - 1 \in S PROVE n \in S
  <2>1. n \in 1 .. N /\ n \in 0 .. N /\ n - 1 \in 0 .. N
    BY <1>1
  <2>2. /\ list_info[n - 1] \in ListsType /\ list_info[n - 1].dir_list = d[n - 1]
        /\ list_info[n - 1].file_list = f[n - 1]
    BY <1>2, <1>6, <2>1
  <2>3. list_info[n] = get_dir_info(list_info[n - 1], Entries[n])
    BY <1>2, <2>1
  <2>4. Entries[n].dir \in BOOLEAN
    BY <2>1, EntryFacts
  <2>5. CASE Entries[n].dir = TRUE
    <3>1. /\ list_info[n].dir_list = d[n - 1] \o Entries[n].line
          /\ list_info[n].file_list = f[n - 1]
      BY <2>2, <2>3, <2>5 DEF get_dir_info, ListsType
    <3>2. d[n] = d[n - 1] \o Entries[n].line /\ f[n] = f[n - 1]
      BY <1>3, <1>4, <2>1, <2>5
    <3>. QED
      BY <2>1, <3>1, <3>2
  <2>6. CASE Entries[n].dir = FALSE
    <3>1. /\ list_info[n].dir_list = d[n - 1]
          /\ list_info[n].file_list = f[n - 1] \o Entries[n].line
      BY <2>2, <2>3, <2>6 DEF get_dir_info, ListsType
    <3>2. d[n] = d[n - 1] /\ f[n] = f[n - 1] \o Entries[n].line
      BY <1>3, <1>4, <2>1, <2>6
    <3>. QED
      BY <2>1, <3>1, <3>2
  <2>. QED
    BY <2>4, <2>5, <2>6
<1> HIDE DEF S
<1>7. 0 .. N \subseteq S
  <2> HIDE DEF N
  <2>. QED
    BY <1>1, <1>5, <1>6, UpTo
<1>8. N \in 0 .. N
  BY <1>1
<1>9. list_info[N].dir_list = Lines(TRUE) /\ list_info[N].file_list = Lines(FALSE)
  BY <1>3, <1>4, <1>7, <1>8 DEF S
<1>10. Lines(TRUE) \in Seq(Byte) /\ Lines(FALSE) \in Seq(Byte) /\ <<Zero>> \in Seq(Byte)
  <2>1. d[N] \in Seq(Byte) /\ f[N] \in Seq(Byte)
    BY <1>8
  <2>2. <<Zero>> \in Seq(Byte)
    BY ListAssumption
  <2>. QED
    BY <1>3, <1>4, <2>1, <2>2
<1>11. List = Lines(TRUE) \o Lines(FALSE) \o <<Zero>>
  BY <1>9 DEF List
<1>12. Lines(TRUE) \o Lines(FALSE) \o <<Zero>> \in Seq(Byte)
  BY <1>10, ConcatProperties
<1>. QED
  BY <1>11, <1>12 DEF Listing

-----------------------------------------------------------------------------
(* ListSend: the inductive invariant.                                      *)

\* The connection has a beginning of the list.
ListSentPrefix == \A i \in 1 .. Len(sent) : sent[i] = List[i]

\* A list that has ended has been sent.
ListFinalInv ==
    /\ final = "none" <=> pc \in {"loop", "send", "killed"}
    /\ pc = "ended" => sent = List

ListIInv ==
    /\ ListTypeOK
    /\ offset + written <= Len(List)
    /\ ListSentPrefix
    /\ ListFinalInv

LEMMA ListInitIInv ==
    ASSUME ListInit
    PROVE  ListIInv
<1>1. List \in Seq(Byte) /\ Len(List) \in Nat
  BY ListInOrder
<1>2. Len(sent) = 0 /\ sent \in Seq(Byte)
  BY DEF ListInit
<1>3. ListTypeOK
  BY <1>1, <1>2, ListAssumption DEF ListInit, ListTypeOK, MarkBound
<1>4. offset + written <= Len(List) /\ ListSentPrefix /\ ListFinalInv
  BY <1>1, <1>2 DEF ListInit, ListSentPrefix, ListFinalInv
<1>. QED
  BY <1>3, <1>4 DEF ListIInv

LEMMA ListValues ==
    ASSUME ListIInv
    PROVE  /\ List \in Seq(Byte) /\ Len(List) \in Nat
           /\ sent \in Seq(Byte) /\ Len(sent) \in Nat /\ Len(sent) = offset + written
           /\ offset \in Nat /\ written \in Nat /\ offset + written <= Len(List)
           /\ unread \in Nat /\ unread <= SockSize /\ SockSize \in Nat \ {0}
<1>1. ListTypeOK /\ offset + written <= Len(List)
  BY DEF ListIInv
<1>2. List \in Seq(Byte) /\ Len(List) \in Nat
  BY <1>1, ListInOrder
<1>3. SockSize \in Nat \ {0}
  BY <1>1, ListAssumption
<1>. QED
  BY <1>1, <1>2, <1>3 DEF ListTypeOK

\* What a step of write does to the connection.
LEMMA ListWriteSomeFacts ==
    ASSUME ListIInv, WriteSome
    PROVE  \E n \in Nat \ {0} :
             /\ offset + written + n <= Len(List)
             /\ written' = written + n
             /\ unread' \in 0 .. SockSize
             /\ sent' \in Seq(Byte)
             /\ Len(sent') = Len(sent) + n
             /\ \A i \in 1 .. Len(sent') : sent'[i] = List[i]
<1>1. /\ List \in Seq(Byte) /\ Len(List) \in Nat
      /\ sent \in Seq(Byte) /\ Len(sent) \in Nat /\ Len(sent) = offset + written
      /\ offset \in Nat /\ written \in Nat /\ offset + written <= Len(List)
      /\ unread \in Nat /\ unread <= SockSize /\ SockSize \in Nat
  BY ListValues
<1>2. PICK n \in Upto(Count - written, SockSize - unread) :
         /\ sent' = sent \o SubSeq(List, offset + written + 1, offset + written + n)
         /\ unread' = unread + n
         /\ written' = written + n
  BY DEF WriteSome
<1>3. n \in Nat \ {0} /\ offset + written + n <= Len(List) /\ unread + n <= SockSize
  <2>1. PICK all : all = Len(List) /\ all \in Nat
    BY <1>1
  <2>2. n \in Upto(all - offset - written, SockSize - unread)
    BY <1>2, <2>1 DEF Count
  <2>3. n \in Nat \ {0} /\ offset + written + n <= all /\ unread + n <= SockSize
    BY <1>1, <2>1, <2>2 DEF Upto
  <2>. QED
    BY <2>1, <2>3
<1>4. PICK a : a = offset + written /\ a \in Nat /\ a + n <= Len(List) /\ Len(sent) = a
  BY <1>1, <1>3
<1>5. sent' = sent \o SubSeq(List, a + 1, a + n)
  BY <1>2, <1>4
<1>6. /\ sent' \in Seq(Byte)
      /\ Len(sent') = Len(sent) + n
      /\ \A i \in 1 .. Len(sent) : sent'[i] = sent[i]
      /\ \A i \in 1 .. n : sent'[Len(sent) + i] = List[a + i]
  <2>1. sent \in Seq(Byte) /\ List \in Seq(Byte) /\ a \in Nat /\ n \in Nat /\ a + n <= Len(List)
    BY <1>1, <1>3, <1>4
  <2>2. Piece(Byte, sent, List, a, n, sent')
    BY <1>5, <2>1, PieceFacts
  <2>. QED
    BY <2>2 DEF Piece
<1>7. ASSUME NEW i \in 1 .. Len(sent') PROVE sent'[i] = List[i]
  <2>1. i \in Nat /\ 1 <= i /\ i <= a + n
    BY <1>3, <1>4, <1>6
  <2>2. CASE i <= a
    <3>1. i \in 1 .. Len(sent)
      BY <1>4, <2>1, <2>2
    <3>. QED
      BY <1>6, <3>1 DEF ListIInv, ListSentPrefix
  <2>3. CASE i > a
    <3>1. i - a \in 1 .. n /\ a + (i - a) = i
      BY <1>3, <1>4, <2>1, <2>3
    <3>2. sent'[a + (i - a)] = List[a + (i - a)]
      BY <1>4, <1>6, <3>1
    <3>. QED
      BY <3>1, <3>2
  <2>. QED
    BY <1>4, <2>1, <2>2, <2>3
<1>8. unread' \in 0 .. SockSize
  BY <1>1, <1>2, <1>3
<1>. QED
  BY <1>2, <1>3, <1>6, <1>7, <1>8

LEMMA ListNextPreserves ==
    ASSUME ListIInv, [ListNext]_listVars
    PROVE  ListIInv'
<1>1. /\ List \in Seq(Byte) /\ Len(List) \in Nat
      /\ sent \in Seq(Byte) /\ Len(sent) \in Nat /\ Len(sent) = offset + written
      /\ offset \in Nat /\ written \in Nat /\ offset + written <= Len(List)
      /\ unread \in Nat /\ unread <= SockSize /\ SockSize \in Nat
  BY ListValues
<1>2. ListTypeOK /\ ListSentPrefix /\ ListFinalInv
  BY DEF ListIInv
<1>3. CASE Callback
  <2>1. ListTypeOK'
    BY <1>2, <1>3 DEF Callback, ConnVars, ListTypeOK, MarkBound
  <2>. QED
    BY <1>1, <1>2, <1>3, <2>1 DEF Callback, ConnVars, ListIInv, ListSentPrefix, ListFinalInv
<1>4. CASE WriteSome
  <2>1. PICK n \in Nat \ {0} :
             /\ offset + written + n <= Len(List)
             /\ written' = written + n
             /\ unread' \in 0 .. SockSize
             /\ sent' \in Seq(Byte)
             /\ Len(sent') = Len(sent) + n
             /\ \A i \in 1 .. Len(sent') : sent'[i] = List[i]
    BY <1>4, ListWriteSomeFacts
  <2>2. pc = "send" /\ UNCHANGED <<pc, offset, client, marks, final>>
    BY <1>4 DEF WriteSome, Sending
  <2>3. written' \in 0 .. Len(List) /\ Len(sent') = offset' + written'
        /\ offset' + written' <= Len(List)
    BY <1>1, <2>1, <2>2
  <2>4. ListTypeOK'
    BY <1>2, <2>1, <2>2, <2>3 DEF ListTypeOK
  <2>. QED
    BY <1>2, <2>1, <2>2, <2>3, <2>4 DEF ListIInv, ListSentPrefix, ListFinalInv
<1>5. ASSUME Advance, UNCHANGED marks, UNCHANGED ConnVars, pc = "send" PROVE ListIInv'
  <2>1. /\ offset' = offset + written /\ written' = 0 /\ UNCHANGED <<pc, final>>
        /\ UNCHANGED <<marks, sent, unread, client>>
    BY <1>5 DEF Advance, AfterWrite, ConnVars
  <2>2. offset' \in 0 .. Len(List) /\ written' \in 0 .. Len(List)
        /\ offset' + written' = offset + written
    BY <1>1, <2>1
  <2>3. ListTypeOK'
    BY <1>1, <1>2, <2>1, <2>2 DEF ListTypeOK
  <2>. QED
    BY <1>1, <1>2, <1>5, <2>1, <2>2, <2>3 DEF ListIInv, ListSentPrefix, ListFinalInv
<1>6. CASE WrittenAll
  BY <1>5, <1>6 DEF WrittenAll
<1>7. CASE WriteBlocked
  <2>1. CASE written = 0
    BY <1>1, <1>2, <1>7, <2>1
    DEF WriteBlocked, Sending, ConnVars, ListIInv, ListTypeOK, ListSentPrefix, ListFinalInv
  <2>2. CASE written # 0
    BY <1>5, <1>7, <2>2 DEF WriteBlocked, Sending
  <2>. QED
    BY <2>1, <2>2
<1>8. CASE WriteError
  <2>1. CASE written = 0
    BY <1>1, <1>2, <1>8, <2>1
    DEF WriteError, Sending, End, ConnVars, ListIInv, ListTypeOK, ListSentPrefix, ListFinalInv
  <2>2. CASE written # 0
    BY <1>5, <1>8, <2>2 DEF WriteError, Sending
  <2>. QED
    BY <2>1, <2>2
<1>9. CASE Killed
  BY <1>1, <1>2, <1>9 DEF Killed, Sending, ConnVars, ListIInv, ListTypeOK, ListSentPrefix, ListFinalInv
<1>10. CASE Finish
  <2>1. /\ pc = "send" /\ pc' = "ended" /\ final' = "226" /\ Len(List) - offset = 0
        /\ UNCHANGED <<offset, written, marks, sent, unread, client>>
    BY <1>10 DEF Finish, End, Count, ConnVars
  <2>2. Len(sent) = Len(List)
    BY <1>1, <2>1
  <2>3. sent = List
    BY <1>1, <1>2, <2>2, SeqEqual DEF ListSentPrefix
  <2>. QED
    BY <1>1, <1>2, <2>1, <2>3 DEF ListIInv, ListTypeOK, ListSentPrefix, ListFinalInv
<1>11. CASE Receive
  <2>1. unread' \in 0 .. SockSize
    BY <1>1, <1>11 DEF Receive
  <2>. QED
    BY <1>1, <1>2, <1>11, <2>1 DEF Receive, ListIInv, ListTypeOK, ListSentPrefix, ListFinalInv
<1>12. CASE Leave
  BY <1>1, <1>2, <1>12 DEF Leave, ListIInv, ListTypeOK, ListSentPrefix, ListFinalInv
<1>13. CASE UNCHANGED listVars
  BY <1>1, <1>2, <1>13 DEF listVars, ListIInv, ListTypeOK, ListSentPrefix, ListFinalInv
<1>. QED
  BY <1>3, <1>4, <1>6, <1>7, <1>8, <1>9, <1>10, <1>11, <1>12, <1>13 DEF ListNext, Server

LEMMA ListIInvHolds ==
    ListSpec => []ListIInv
<1>1. ListInit => ListIInv
  BY ListInitIInv
<1>2. ListIInv /\ [ListNext]_listVars => ListIInv'
  BY ListNextPreserves
<1>. QED
  BY <1>1, <1>2, PTL DEF ListSpec

(* Type correctness of a list: the offset of the request and what writen   *)
(* has written say exactly how many bytes are on the connection, and are   *)
(* never more than there are (ftp_server.cpp:723-750).                     *)
THEOREM ListType == ListSpec => []ListTypeOK
<1>1. ListIInv => ListTypeOK
  BY DEF ListIInv
<1>. QED
  BY <1>1, ListIInvHolds, PTL

(* A list implements the abstract transfer: every line of the directory,   *)
(* the directories before the files, and the end of the string go out once *)
(* each and in order, and the transfer is complete only then               *)
(* (ftp_server.cpp:394-422,467-477,723-750).                               *)
THEOREM ListImplements == ListSpec => ImplementsTransfer
<1>0. List = Listing /\ List \in Seq(Byte)
  BY ListInOrder
<1>1. ListInit => Abstract!Init
  BY DEF ListInit, Abstract!Init
<1>2. ListIInv /\ ListIInv' /\ [ListNext]_listVars => [Abstract!Next]_(Abstract!vars)
  <2>1. SUFFICES ASSUME ListIInv, ListIInv', [ListNext]_listVars
                 PROVE  Abstract!Next \/ UNCHANGED Abstract!vars
    OBVIOUS
  <2> DEFINE verdict == CASE pc = "ended" -> "complete"
                          [] pc \in {"broken", "killed"} -> "aborted"
                          [] OTHER -> "none"
  <2>2. CASE WriteSome
    <3>1. PICK n \in Nat \ {0} :
             /\ offset + written + n <= Len(List)
             /\ written' = written + n
             /\ unread' \in 0 .. SockSize
             /\ sent' \in Seq(Byte)
             /\ Len(sent') = Len(sent) + n
             /\ \A i \in 1 .. Len(sent') : sent'[i] = List[i]
      BY <2>1, <2>2, ListWriteSomeFacts
    <3>2. /\ Len(List) \in Nat /\ Len(sent) \in Nat /\ Len(sent) = offset + written
          /\ offset \in Nat /\ written \in Nat
      BY <2>1, ListValues
    <3>3. Len(sent') \in Len(sent) + 1 .. Len(List)
      BY <3>1, <3>2
    <3>4. Len(sent') <= Len(List)
      BY <3>2, <3>3
    <3>5. sent' = SubSeq(List, 1, Len(sent'))
      BY <1>0, <3>1, <3>4, PrefixFacts
    <3>6. pc = "send" /\ pc' = pc
      BY <2>2 DEF WriteSome, Sending
    <3>. QED
      BY <1>0, <3>3, <3>5, <3>6 DEF Abstract!Next, Abstract!Emit
  <2>3. CASE Finish
    <3>1. pc = "send" /\ pc' = "ended" /\ sent' = sent
      BY <2>3 DEF Finish, End, ConnVars
    <3>2. sent' = List
      BY <2>1, <3>1 DEF ListIInv, ListFinalInv
    <3>. QED
      BY <1>0, <3>1, <3>2 DEF Abstract!Next, Abstract!Complete
  <2>4. CASE WriteError \/ Killed
    <3>1. CASE pc' \in {"broken", "killed"}
      <4>1. pc = "send" /\ sent' = sent
        BY <2>4 DEF WriteError, Killed, Sending, ConnVars
      <4>. QED
        BY <3>1, <4>1 DEF Abstract!Next, Abstract!Abort
    <3>2. CASE pc' \notin {"broken", "killed"}
      <4>1. pc' = pc /\ sent' = sent
        BY <2>4, <3>2 DEF WriteError, Killed, Sending, Advance, End, ConnVars
      <4>. QED
        BY <4>1 DEF Abstract!vars
    <3>. QED
      BY <3>1, <3>2
  <2>5. CASE \/ Callback \/ WrittenAll \/ WriteBlocked \/ Receive \/ Leave \/ UNCHANGED listVars
    <3>1. sent' = sent /\ (pc' = pc \/ (pc \in {"loop", "send"} /\ pc' \in {"loop", "send"}))
      BY <2>5 DEF Callback, WrittenAll, WriteBlocked, Sending, Receive, Leave, Advance,
         ConnVars, listVars
    <3>. QED
      BY <3>1 DEF Abstract!vars
  <2>. QED
    BY <2>1, <2>2, <2>3, <2>4, <2>5 DEF ListNext, Server
<1>. QED
  BY <1>1, <1>2, ListIInvHolds, PTL DEF ListSpec, ImplementsTransfer, Abstract!Spec

=============================================================================
