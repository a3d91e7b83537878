-------------------------- MODULE DescriptorsProofs --------------------------
(***************************************************************************)
(* Theorems about the descriptors of the process, for any number of        *)
(* sessions, workers, numbers and data commands.                           *)
(***************************************************************************)
EXTENDS Descriptors, FiniteSetTheorems, WellFoundedInduction, TLAPS

-----------------------------------------------------------------------------
(* The inductive invariant.                                                *)

\* The open files that somebody holds, or that are leaked.
Due(d) ==
    \/ d \in leaked
    \/ \E s \in Sessions :
          \/ d = Control(s) /\ stage[s] \notin {"none", "closed"}
          \/ d = Listener(s) /\ stage[s] = "open"
          \/ d = Data(s, commands[s]) /\ transfer[s] = "running"

\* What a session holds is open under the number it knows.
HeldInv ==
    \A s \in Sessions :
        /\ stage[s] \notin {"none", "closed"} =>
               control[s] \in Numbers /\ table[control[s]] = Control(s)
        /\ stage[s] = "open" =>
               listener[s] \in Numbers /\ table[listener[s]] = Listener(s)
        /\ transfer[s] = "running" =>
               data[s] \in Numbers /\ table[data[s]] = Data(s, commands[s])

\* What is leaked is of a command that was handled, and not the data
\* connection of one whose request has not got it yet.
LeakedKnown ==
    \A d \in leaked :
        /\ d.kind \in {"file", "dir", "data"}
        /\ d.of \in Sessions /\ d.nr \in 0 .. commands[d.of]
        /\ d.nr = commands[d.of] /\ transfer[d.of] # "none" => d.kind = "file"

LeakedOpen == LeakedKnown /\ \A d \in leaked : \E n \in Numbers : table[n] = d

OpenIsDue == \A n \in Numbers : table[n] # Free => Due(table[n])

OneNumber ==
    \A n, m \in Numbers : table[n] = table[m] /\ table[n] # Free => n = m

\* Between its two closes a session still knows its listener's number, and
\* its own thread, which is in the destructor, has opened nothing there.
OnceInv ==
    \A s \in Sessions : stage[s] = "once" =>
        /\ listener[s] \in Numbers
        /\ \/ table[listener[s]] = Free
           \/ OpenedBy(table[listener[s]]) # WorkerOf(s)

Core == HeldInv /\ LeakedOpen /\ OpenIsDue /\ OneNumber /\ OnceInv

IInv == TypeOK /\ HarmIsDoubleClose /\ (harm = <<>> => Core)

-----------------------------------------------------------------------------
(* The kernel's side: which number an open gets, and what an open and a    *)
(* close do to the rest of the table.                                      *)

LEMMA MinIsLeast ==
    ASSUME NEW S, S \subseteq Nat, S # {}
    PROVE  Min(S) \in S /\ \A y \in S : Min(S) =< y
<1> DEFINE LT == {p \in Nat \X Nat : p[1] < p[2]}
<1>1. IsWellFoundedOn(LT, Nat)
  BY NatLessThanWellFounded DEF OpToRel
<1> HIDE DEF LT
<1>2. PICK x \in S : \A y \in S : ~ (<<y, x>> \in LT)
  BY <1>1, WFMin
<1>3. \A y \in S : x =< y
  <2>1. TAKE y \in S
  <2>2. x \in Nat /\ y \in Nat
    BY <1>2
  <2>3. ~ (y < x)
    BY <1>2, <2>2 DEF LT
  <2>. QED
    BY <2>2, <2>3
<1>. QED
  BY <1>2, <1>3 DEF Min

LEMMA LowestIsFree ==
    ASSUME FreeNumbers # {}
    PROVE  Lowest \in Numbers /\ table[Lowest] = Free
<1>1. FreeNumbers \subseteq Nat
  BY ConstAssumption DEF FreeNumbers, Numbers
<1>2. Lowest \in FreeNumbers
  BY <1>1, MinIsLeast DEF Lowest
<1>. QED
  BY <1>2 DEF FreeNumbers

LEMMA DescriptorFacts ==
    /\ Free \in Descriptor
    /\ \A s \in Sessions : /\ Control(s) \in Descriptor /\ Control(s) # Free
                           /\ Listener(s) \in Descriptor /\ Listener(s) # Free
                           /\ Control(s) # Listener(s)
    /\ \A s \in Sessions, k \in 0 .. MaxCommands :
           /\ File(s, k) \in Descriptor /\ File(s, k) # Free
           /\ Dir(s, k) \in Descriptor /\ Dir(s, k) # Free
           /\ Data(s, k) \in Descriptor /\ Data(s, k) # Free
  BY ConstAssumption DEF Free, Descriptor, Sessions, Control, Listener, File, Dir, Data

LEMMA OpenStep ==
    ASSUME table \in [Numbers -> Descriptor], OpenIsDue, OneNumber,
           NEW d \in Descriptor, d # Free, OpenAs(d), ~Due(d),
           \A e : Due(e)' <=> Due(e) \/ e = d
    PROVE  /\ OpenIsDue' /\ OneNumber'
           /\ table' \in [Numbers -> Descriptor]
           /\ Lowest \in Numbers /\ table'[Lowest] = d
           /\ \A n \in Numbers : n # Lowest => table'[n] = table[n]
           /\ \A n \in Numbers : table[n] # Free => table'[n] = table[n]
<1>1. /\ Lowest \in Numbers /\ table[Lowest] = Free
      /\ table' = [table EXCEPT ![Lowest] = d]
  BY LowestIsFree DEF OpenAs
<1>2. table' \in [Numbers -> Descriptor] /\ table'[Lowest] = d
  BY <1>1
<1>3. \A n \in Numbers : n # Lowest => table'[n] = table[n]
  BY <1>1
<1>4. \A n \in Numbers : table[n] # d
  BY DEF OpenIsDue
<1>5. OpenIsDue'
  BY <1>1, <1>2, <1>3 DEF OpenIsDue
<1>6. OneNumber'
  BY <1>1, <1>2, <1>3, <1>4 DEF OneNumber, Free, Numbers
<1>. QED
  BY <1>1, <1>2, <1>3, <1>5, <1>6

LEMMA CloseStep ==
    ASSUME table \in [Numbers -> Descriptor], OpenIsDue, OneNumber,
           NEW n \in Numbers, NEW d,
           table[n] = d \/ ~Due(d),
           table[n] = d \/ table[n] = Free,
           table' = [table EXCEPT ![n] = Free],
           \A e : Due(e)' <=> Due(e) /\ e # d
    PROVE  /\ OpenIsDue' /\ OneNumber'
           /\ table' \in [Numbers -> Descriptor]
           /\ \A m \in Numbers : table[m] # d => table'[m] = table[m]
           /\ \A m \in Numbers : table'[m] = table[m] \/ table'[m] = Free
<1>1. table' \in [Numbers -> Descriptor]
  BY DescriptorFacts
<1>2. table'[n] = Free /\ \A m \in Numbers : m # n => table'[m] = table[m]
  OBVIOUS
<1>3. \A m \in Numbers : m # n /\ table[m] # Free => table[m] # d
  BY DEF OpenIsDue, OneNumber
<1>4. OpenIsDue'
  BY <1>2, <1>3 DEF OpenIsDue, Numbers, Free
<1>5. OneNumber'
  BY <1>2 DEF OneNumber, Numbers, Free
<1>. QED
  BY <1>1, <1>2, <1>4, <1>5

LEMMA WorkerNumber == \A s \in Sessions : WorkerOf(s) \in Nat \ {0}
<1>1. \A s \in Sessions : s % NWorkers \in Nat
  BY ConstAssumption DEF Sessions
<1>. QED
  BY <1>1 DEF WorkerOf

\* What TypeOK says, in the form the steps need it.
LEMMA TypeFacts ==
    ASSUME TypeOK
    PROVE  /\ table \in [Numbers -> Descriptor]
           /\ stage \in [Sessions -> {"none", "accepted", "open", "once", "twice", "closed"}]
           /\ passive \in [Sessions -> BOOLEAN]
           /\ control \in [Sessions -> 0 .. Limit]
           /\ listener \in [Sessions -> 0 .. Limit]
           /\ commands \in [Sessions -> 0 .. MaxCommands]
           /\ transfer \in [Sessions -> {"none", "queued", "running"}]
           /\ data \in [Sessions -> 0 .. Limit]
           /\ leaked \subseteq Descriptor
           /\ aborted \in BOOLEAN
  BY DEF TypeOK

\* Whatever an open puts at the number of a listener that was closed once,
\* another thread than the listener's has opened it.
LEMMA OnceAfterOpen ==
    ASSUME OnceInv, NEW s \in Sessions, NEW d,
           OpenedBy(d) = 0 \/ (OpenedBy(d) = WorkerOf(s) /\ WorkerFree(s)),
           Lowest \in Numbers, table'[Lowest] = d,
           \A n \in Numbers : n # Lowest => table'[n] = table[n],
           \A r \in Sessions : stage'[r] = "once" =>
               stage[r] = "once" /\ listener'[r] = listener[r]
    PROVE  OnceInv'
<1> SUFFICES ASSUME NEW r \in Sessions, stage'[r] = "once"
             PROVE  /\ listener'[r] \in Numbers
                    /\ \/ table'[listener'[r]] = Free
                       \/ OpenedBy(table'[listener'[r]]) # WorkerOf(r)
  BY DEF OnceInv, Numbers, Free, OpenedBy, WorkerOf
<1>1. stage[r] = "once" /\ listener'[r] = listener[r] /\ listener[r] \in Numbers
  BY DEF OnceInv
<1>2. CASE listener[r] = Lowest
  <2>1. OpenedBy(d) # WorkerOf(r)
    BY <1>1, WorkerNumber DEF WorkerFree
  <2>. QED
    BY <1>1, <1>2, <2>1
<1>3. CASE listener[r] # Lowest
  BY <1>1, <1>3 DEF OnceInv
<1>. QED
  BY <1>2, <1>3

\* What is leaked is in nobody's hand.
LEMMA LeakedFacts ==
    ASSUME Core
    PROVE  /\ \A e \in leaked : e # Free
           /\ \A s \in Sessions : Control(s) \notin leaked /\ Listener(s) \notin leaked
           /\ \A s \in Sessions : transfer[s] # "none" =>
                  Data(s, commands[s]) \notin leaked
<1>1. \A d \in leaked :
          /\ d.kind \in {"file", "dir", "data"}
          /\ d.nr = commands[d.of] /\ transfer[d.of] # "none" => d.kind = "file"
  BY DEF Core, LeakedOpen, LeakedKnown
<1>2. \A e \in leaked : e # Free
  BY <1>1 DEF Free
<1>3. \A s \in Sessions : Control(s) \notin leaked /\ Listener(s) \notin leaked
  BY <1>1 DEF Control, Listener
<1>4. ASSUME NEW s \in Sessions, transfer[s] # "none"
      PROVE  Data(s, commands[s]) \notin leaked
  BY <1>1, <1>4 DEF Data
<1>. QED
  BY <1>2, <1>3, <1>4

\* Nothing is leaked and no command handled.
LEMMA LeakedStays ==
    ASSUME Core, UNCHANGED <<leaked, commands>>,
           \A r \in Sessions : transfer'[r] # "none" => transfer[r] # "none",
           \A n \in Numbers : table[n] \in leaked => table'[n] = table[n]
    PROVE  LeakedOpen'
<1>1. LeakedKnown'
  BY DEF Core, LeakedOpen, LeakedKnown, Sessions
<1>2. ASSUME NEW e \in leaked PROVE \E n \in Numbers : table'[n] = e
  BY DEF Core, LeakedOpen
<1>. QED
  BY <1>1, <1>2 DEF LeakedOpen, Numbers

-----------------------------------------------------------------------------
(* Every step of the main thread and of the workers keeps the invariant.   *)

LEMMA AcceptPreserves ==
    ASSUME IInv, NEW s \in Sessions, Accept(s) PROVE IInv'
<1>1. TypeOK /\ Core /\ harm = <<>>
  BY DEF IInv, Accept, Running
<1>2. /\ stage[s] = "none" /\ stage' = [stage EXCEPT ![s] = "accepted"]
      /\ OpenAs(Control(s)) /\ control' = [control EXCEPT ![s] = Lowest]
      /\ UNCHANGED <<passive, listener, commands, transfer, data, leaked, aborted, harm>>
  BY DEF Accept, sessionVars
<1>3. ~Due(Control(s)) /\ \A e : Due(e)' <=> Due(e) \/ e = Control(s)
  <2>1. ~Due(Control(s))
    BY <1>1, <1>2, LeakedFacts DEF Due, Control, Listener, Data
  <2>2. \A e : Due(e)' <=> Due(e) \/ e = Control(s)
    BY <1>1, <1>2, TypeFacts DEF Due
  <2>. QED
    BY <2>1, <2>2
<1>4. /\ OpenIsDue' /\ OneNumber'
      /\ table' \in [Numbers -> Descriptor]
      /\ Lowest \in Numbers /\ table'[Lowest] = Control(s)
      /\ \A n \in Numbers : n # Lowest => table'[n] = table[n]
      /\ \A n \in Numbers : table[n] # Free => table'[n] = table[n]
  BY <1>1, <1>2, <1>3, TypeFacts, DescriptorFacts, OpenStep DEF Core
<1>5. TypeOK'
  <2>1. /\ control' \in [Sessions -> 0 .. Limit]
        /\ stage' \in [Sessions -> {"none", "accepted", "open", "once", "twice", "closed"}]
    BY <1>1, <1>2, <1>4, TypeFacts, ConstAssumption DEF Numbers
  <2>. QED
    BY <1>1, <1>2, <1>4, <2>1 DEF TypeOK
<1>6. HeldInv'
  BY <1>1, <1>2, <1>4, TypeFacts, DescriptorFacts DEF Core, HeldInv
<1>7. LeakedOpen'
  BY <1>1, <1>2, <1>4, LeakedFacts, LeakedStays
<1>8. OnceInv'
  <2>1. OpenedBy(Control(s)) = 0
    BY DEF OpenedBy, Control
  <2>2. \A r \in Sessions : stage'[r] = "once" =>
            stage[r] = "once" /\ listener'[r] = listener[r]
    BY <1>1, <1>2, TypeFacts
  <2>. QED
    BY <1>1, <1>4, <2>1, <2>2, OnceAfterOpen DEF Core
<1>. QED
  BY <1>1, <1>2, <1>4, <1>5, <1>6, <1>7, <1>8 DEF IInv, Core, HarmIsDoubleClose

LEMMA ConstructPreserves ==
    ASSUME IInv, NEW s \in Sessions, Construct(s) PROVE IInv'
<1>1. TypeOK /\ Core /\ harm = <<>> /\ stage[s] = "accepted"
  BY DEF IInv, Construct, Running
<1>2. CASE FreeNumbers = {}
  <2>1. /\ aborted' = TRUE
        /\ UNCHANGED <<table, stage, listener, passive, control, commands, transfer,
                       data, leaked, harm>>
    BY <1>2 DEF Construct, sessionVars
  <2>2. TypeOK'
    BY <1>1, <2>1 DEF TypeOK
  <2>3. HeldInv' /\ LeakedOpen' /\ OneNumber'
    BY <1>1, <2>1, LeakedStays DEF Core, HeldInv, OneNumber
  <2>4. OpenIsDue'
    BY <1>1, <2>1 DEF Core, OpenIsDue, Due
  <2>5. OnceInv'
    BY <1>1, <2>1 DEF Core, OnceInv
  <2>. QED
    BY <1>1, <2>1, <2>2, <2>3, <2>4, <2>5 DEF IInv, Core, HarmIsDoubleClose
<1>3. CASE FreeNumbers # {}
  <2>2. /\ stage' = [stage EXCEPT ![s] = "open"]
        /\ OpenAs(Listener(s)) /\ listener' = [listener EXCEPT ![s] = Lowest]
        /\ UNCHANGED <<passive, control, commands, transfer, data, leaked, aborted, harm>>
    BY <1>3 DEF Construct, sessionVars
  <2>3. ~Due(Listener(s)) /\ \A e : Due(e)' <=> Due(e) \/ e = Listener(s)
    <3>1. ~Due(Listener(s))
      BY <1>1, LeakedFacts DEF Due, Control, Listener, Data
    <3>2. \A e : Due(e)' <=> Due(e) \/ e = Listener(s)
      BY <1>1, <2>2, TypeFacts DEF Due
    <3>. QED
      BY <3>1, <3>2
  <2>4. /\ OpenIsDue' /\ OneNumber'
        /\ table' \in [Numbers -> Descriptor]
        /\ Lowest \in Numbers /\ table'[Lowest] = Listener(s)
        /\ \A n \in Numbers : n # Lowest => table'[n] = table[n]
        /\ \A n \in Numbers : table[n] # Free => table'[n] = table[n]
    BY <1>1, <2>2, <2>3, TypeFacts, DescriptorFacts, OpenStep DEF Core
  <2>5. TypeOK'
    <3>1. /\ listener' \in [Sessions -> 0 .. Limit]
          /\ stage' \in [Sessions -> {"none", "accepted", "open", "once", "twice", "closed"}]
      BY <1>1, <2>2, <2>4, TypeFacts, ConstAssumption DEF Numbers
    <3>. QED
      BY <1>1, <2>2, <2>4, <3>1 DEF TypeOK
  <2>6. HeldInv'
    BY <1>1, <2>2, <2>4, TypeFacts, DescriptorFacts DEF Core, HeldInv
  <2>7. LeakedOpen'
    BY <1>1, <2>2, <2>4, LeakedFacts, LeakedStays
  <2>8. OnceInv'
    <3>1. OpenedBy(Listener(s)) = 0
      BY DEF OpenedBy, Listener
    <3>2. \A r \in Sessions : stage'[r] = "once" =>
              stage[r] = "once" /\ listener'[r] = listener[r]
      BY <1>1, <2>2, TypeFacts
    <3>. QED
      BY <1>1, <2>4, <3>1, <3>2, OnceAfterOpen DEF Core
  <2>. QED
    BY <1>1, <2>2, <2>4, <2>5, <2>6, <2>7, <2>8 DEF IInv, Core, HarmIsDoubleClose
<1>. QED
  BY <1>2, <1>3

LEMMA PasvPreserves ==
    ASSUME IInv, NEW s \in Sessions, Pasv(s) PROVE IInv'
<1>1. TypeOK /\ Core /\ harm = <<>>
  BY DEF IInv, Pasv, Callback, Running
<1>2. /\ passive' = [passive EXCEPT ![s] = TRUE]
      /\ UNCHANGED <<table, stage, control, listener, commands, transfer, data,
                     leaked, aborted, harm>>
  BY DEF Pasv, sessionVars
<1>3. TypeOK'
  BY <1>1, <1>2 DEF TypeOK
<1>4. HeldInv' /\ LeakedOpen' /\ OneNumber'
  BY <1>1, <1>2, LeakedStays DEF Core, HeldInv, OneNumber
<1>5. OpenIsDue'
  BY <1>1, <1>2 DEF Core, OpenIsDue, Due
<1>6. OnceInv'
  BY <1>1, <1>2 DEF Core, OnceInv
<1>. QED
  BY <1>1, <1>2, <1>3, <1>4, <1>5, <1>6 DEF IInv, Core, HarmIsDoubleClose

\* A worker leaks what no other session has, and its session knows it by the
\* number of a command.
LEMMA LeakPreserves ==
    ASSUME IInv, harm = <<>>, NEW s \in Sessions, WorkerFree(s),
           NEW k \in 0 .. MaxCommands, NEW d \in {File(s, k), Dir(s, k), Data(s, k)},
           Leak(d), d \notin leaked,
           commands' = [commands EXCEPT ![s] = k], commands[s] \in 0 .. k,
           NEW tr \in {"none", "queued"}, transfer' = [transfer EXCEPT ![s] = tr],
           transfer[s] # "running", tr = "queued" => d.kind = "file" /\ commands[s] # k,
           UNCHANGED <<stage, passive, control, listener, data, aborted, harm>>
    PROVE  IInv'
<1>1. TypeOK /\ Core /\ OpenAs(d) /\ leaked' = leaked \cup {d}
  BY DEF IInv, Leak
<1>2. /\ k \in 0 .. MaxCommands /\ k \in Nat
      /\ d \in Descriptor /\ d # Free /\ OpenedBy(d) = WorkerOf(s)
      /\ d.kind \in {"file", "dir", "data"} /\ d.of = s /\ d.nr = k
  <2>1. k \in 0 .. MaxCommands /\ k \in Nat
    BY ConstAssumption
  <2>2. CASE d = File(s, k)
    BY <2>1, <2>2, DescriptorFacts DEF OpenedBy, File
  <2>3. CASE d = Dir(s, k)
    BY <2>1, <2>3, DescriptorFacts DEF OpenedBy, Dir
  <2>4. CASE d = Data(s, k)
    BY <2>1, <2>4, DescriptorFacts DEF OpenedBy, Data
  <2>. QED
    BY <2>2, <2>3, <2>4
<1>3. /\ commands' \in [Sessions -> 0 .. MaxCommands] /\ commands'[s] = k
      /\ \A r \in Sessions : r # s => commands'[r] = commands[r]
      /\ transfer' \in [Sessions -> {"none", "queued", "running"}] /\ transfer'[s] = tr
      /\ \A r \in Sessions : r # s => transfer'[r] = transfer[r]
  BY <1>1, <1>2, TypeFacts
<1>4. ~Due(d)
  BY <1>2 DEF Due, Control, Listener, Data
<1>5. \A e : Due(e)' <=> Due(e) \/ e = d
  <2>1. TAKE e
  <2>2. \A r \in Sessions :
            e = Data(r, commands'[r]) /\ transfer'[r] = "running" <=>
            e = Data(r, commands[r]) /\ transfer[r] = "running"
    BY <1>3
  <2>. QED
    BY <1>1, <2>2 DEF Due, Control, Listener
<1>6. /\ OpenIsDue' /\ OneNumber'
      /\ table' \in [Numbers -> Descriptor]
      /\ Lowest \in Numbers /\ table'[Lowest] = d
      /\ \A n \in Numbers : n # Lowest => table'[n] = table[n]
      /\ \A n \in Numbers : table[n] # Free => table'[n] = table[n]
  BY <1>1, <1>2, <1>4, <1>5, TypeFacts, OpenStep DEF Core
<1>7. TypeOK'
  BY <1>1, <1>2, <1>3, <1>6 DEF TypeOK
<1>8. HeldInv'
  BY <1>1, <1>3, <1>6, TypeFacts, DescriptorFacts DEF Core, HeldInv
<1>9. LeakedOpen'
  <2>1. LeakedKnown'
    <3>1. ASSUME NEW e \in leaked
          PROVE  /\ e.kind \in {"file", "dir", "data"}
                 /\ e.of \in Sessions /\ e.nr \in 0 .. commands'[e.of]
                 /\ e.nr = commands'[e.of] /\ transfer'[e.of] # "none" => e.kind = "file"
      <4>1. /\ e.kind \in {"file", "dir", "data"}
            /\ e.of \in Sessions /\ e.nr \in 0 .. commands[e.of]
            /\ e.nr = commands[e.of] /\ transfer[e.of] # "none" => e.kind = "file"
        BY <1>1 DEF Core, LeakedOpen, LeakedKnown
      <4>2. CASE e.of # s
        BY <1>3, <4>1, <4>2
      <4>3. CASE e.of = s
        <5>1. e.nr \in 0 .. k /\ (e.nr = k => commands[s] = k)
          BY <1>2, <4>1, <4>3
        <5>2. tr # "none" => commands[s] # k
          OBVIOUS
        <5>. QED
          BY <1>3, <4>1, <4>3, <5>1, <5>2
      <4>. QED
        BY <4>2, <4>3
    <3>2. /\ d.kind \in {"file", "dir", "data"}
          /\ d.of \in Sessions /\ d.nr \in 0 .. commands'[d.of]
          /\ transfer'[d.of] # "none" => d.kind = "file"
      BY <1>2, <1>3
    <3>. QED
      BY <1>1, <3>1, <3>2 DEF LeakedKnown, Sessions
  <2>2. ASSUME NEW e \in leaked PROVE \E n \in Numbers : table'[n] = e
    <3>1. PICK n \in Numbers : table[n] = e
      BY <1>1 DEF Core, LeakedOpen
    <3>2. table[n] # Free
      BY <1>1, <3>1 DEF Core, LeakedOpen, LeakedKnown, Free
    <3>. QED
      BY <1>6, <3>1, <3>2
  <2>. QED
    BY <1>1, <1>6, <2>1, <2>2 DEF LeakedOpen, Numbers
<1>10. OnceInv'
  BY <1>1, <1>2, <1>6, OnceAfterOpen DEF Core
<1>. QED
  BY <1>1, <1>6, <1>7, <1>8, <1>9, <1>10 DEF IInv, Core, HarmIsDoubleClose

\* A request is queued, or lost, and nothing is opened.
LEMMA NothingOpened ==
    ASSUME IInv, harm = <<>>, NEW s \in Sessions,
           NEW k \in 0 .. MaxCommands, commands' = [commands EXCEPT ![s] = k],
           NEW tr \in {"none", "queued"}, transfer' = [transfer EXCEPT ![s] = tr],
           transfer[s] # "running", commands[s] \in 0 .. k,
           tr = "queued" => commands[s] # k,
           UNCHANGED <<table, leaked, stage, passive, control, listener, data, aborted, harm>>
    PROVE  IInv'
<1>1. TypeOK /\ Core
  BY DEF IInv
<1>2. /\ commands' \in [Sessions -> 0 .. MaxCommands] /\ commands'[s] = k /\ k \in Nat
      /\ \A r \in Sessions : r # s => commands'[r] = commands[r]
      /\ transfer' \in [Sessions -> {"none", "queued", "running"}] /\ transfer'[s] = tr
      /\ \A r \in Sessions : r # s => transfer'[r] = transfer[r]
  BY <1>1, TypeFacts, ConstAssumption
<1>3. TypeOK'
  BY <1>1, <1>2 DEF TypeOK
<1>4. HeldInv'
  BY <1>1, <1>2, TypeFacts DEF Core, HeldInv
<1>5. OneNumber' /\ OnceInv'
  BY <1>1 DEF Core, OneNumber, OnceInv
<1>6. LeakedOpen'
  <2>1. ASSUME NEW e \in leaked
        PROVE  /\ e.kind \in {"file", "dir", "data"}
               /\ e.of \in Sessions /\ e.nr \in 0 .. commands'[e.of]
               /\ e.nr = commands'[e.of] /\ transfer'[e.of] # "none" => e.kind = "file"
    <3>1. /\ e.kind \in {"file", "dir", "data"}
          /\ e.of \in Sessions /\ e.nr \in 0 .. commands[e.of]
          /\ e.nr = commands[e.of] /\ transfer[e.of] # "none" => e.kind = "file"
      BY <1>1 DEF Core, LeakedOpen, LeakedKnown
    <3>2. CASE e.of # s
      BY <1>2, <3>1, <3>2
    <3>3. CASE e.of = s
      <4>1. e.nr \in 0 .. k /\ (e.nr = k => commands[s] = k)
        BY <1>2, <3>1, <3>3
      <4>2. tr # "none" => commands[s] # k
        OBVIOUS
      <4>. QED
        BY <1>2, <3>1, <3>3, <4>1, <4>2
    <3>. QED
      BY <3>2, <3>3
  <2>2. LeakedKnown'
    BY <2>1 DEF LeakedKnown, Sessions
  <2>. QED
    BY <1>1, <2>2 DEF Core, LeakedOpen
<1>7. OpenIsDue'
  <2>1. \A e : Due(e)' <=> Due(e)
    <3>1. TAKE e
    <3>2. \A r \in Sessions :
              e = Data(r, commands'[r]) /\ transfer'[r] = "running" <=>
              e = Data(r, commands[r]) /\ transfer[r] = "running"
      BY <1>2
    <3>. QED
      BY <3>2 DEF Due, Control, Listener
  <2>. QED
    BY <1>1, <2>1 DEF Core, OpenIsDue
<1>. QED
  BY <1>1, <1>3, <1>4, <1>5, <1>6, <1>7 DEF IInv, Core, HarmIsDoubleClose

LEMMA PasvAcceptPreserves ==
    ASSUME IInv, NEW s \in Sessions, PasvAccept(s) PROVE IInv'
<1> DEFINE k == commands[s]
           d == Data(s, k)
<1>1. TypeOK /\ Core /\ harm = <<>> /\ WorkerFree(s)
  BY DEF IInv, PasvAccept, Callback, Running
<1>2. /\ transfer[s] = "queued"
      /\ UNCHANGED <<stage, passive, control, listener, commands, aborted, harm>>
  BY DEF PasvAccept
<1>3. d \notin leaked
  BY <1>1, <1>2, LeakedFacts
<1>4. CASE OpenAs(d) /\ data' = [data EXCEPT ![s] = Lowest]
           /\ transfer' = [transfer EXCEPT ![s] = "running"] /\ UNCHANGED leaked
  <2>1. d \in Descriptor /\ d # Free /\ OpenedBy(d) = WorkerOf(s)
    BY <1>1, TypeFacts, DescriptorFacts DEF OpenedBy, Data
  <2>2. ~Due(d) /\ \A e : Due(e)' <=> Due(e) \/ e = d
    <3>1. ~Due(d)
      BY <1>2, <1>3 DEF Due, Control, Listener, Data
    <3>2. \A e : Due(e)' <=> Due(e) \/ e = d
      BY <1>1, <1>2, <1>4, TypeFacts DEF Due
    <3>. QED
      BY <3>1, <3>2
  <2> HIDE DEF d
  <2>3. /\ OpenIsDue' /\ OneNumber'
        /\ table' \in [Numbers -> Descriptor]
        /\ Lowest \in Numbers /\ table'[Lowest] = d
        /\ \A n \in Numbers : n # Lowest => table'[n] = table[n]
        /\ \A n \in Numbers : table[n] # Free => table'[n] = table[n]
    BY <1>1, <1>4, <2>1, <2>2, TypeFacts, OpenStep DEF Core
  <2>4. TypeOK'
    BY <1>1, <1>2, <1>4, <2>3 DEF TypeOK, Numbers
  <2>5. HeldInv'
    BY <1>1, <1>2, <1>4, <2>3, TypeFacts, DescriptorFacts DEF Core, HeldInv, d
  <2>6. LeakedOpen'
    <3>1. \A r \in Sessions : transfer'[r] # "none" => transfer[r] # "none"
      BY <1>1, <1>2, <1>4, TypeFacts
    <3>. QED
      BY <1>1, <1>2, <1>4, <2>3, <3>1, LeakedFacts, LeakedStays
  <2>7. OnceInv'
    BY <1>1, <1>2, <2>1, <2>3, OnceAfterOpen DEF Core
  <2>. QED
    BY <1>1, <1>2, <2>3, <2>4, <2>5, <2>6, <2>7 DEF IInv, Core, HarmIsDoubleClose
<1>5. CASE (Leak(d) \/ UNCHANGED <<table, leaked>>)
           /\ transfer' = [transfer EXCEPT ![s] = "none"] /\ UNCHANGED data
  <2>1. /\ k \in 0 .. MaxCommands /\ k \in Nat
        /\ commands' = [commands EXCEPT ![s] = k] /\ commands[s] \in 0 .. k
    BY <1>1, <1>2, TypeFacts, ConstAssumption
  <2> HIDE DEF Leak
  <2>3. CASE Leak(d)
    <3>1. "none" \in {"none", "queued"} /\ d \in {File(s, k), Dir(s, k), Data(s, k)}
      OBVIOUS
    <3> HIDE DEF d, k
    <3>. QED
      BY <1>1, <1>2, <1>3, <1>5, <2>1, <2>3, <3>1, LeakPreserves
  <2>4. CASE UNCHANGED <<table, leaked>>
    <3>1. "none" \in {"none", "queued"}
      OBVIOUS
    <3> HIDE DEF d, k
    <3>. QED
      BY <1>1, <1>2, <1>5, <2>1, <2>4, <3>1, NothingOpened
  <2>. QED
    BY <1>5, <2>3, <2>4
<1>. QED
  <2> HIDE DEF Leak, OpenAs
  <2>. QED
    BY <1>4, <1>5 DEF PasvAccept

LEMMA DataCommandPreserves ==
    ASSUME IInv, NEW s \in Sessions, DataCommand(s) PROVE IInv'
<1> DEFINE k == commands[s] + 1
           d == File(s, k)
<1>1. TypeOK /\ Core /\ harm = <<>> /\ WorkerFree(s)
  BY DEF IInv, DataCommand, Callback, Running
<1>2. /\ transfer[s] = "none" /\ commands[s] < MaxCommands
      /\ transfer' = [transfer EXCEPT ![s] = "queued"]
      /\ commands' = [commands EXCEPT ![s] = k]
      /\ UNCHANGED <<stage, passive, control, listener, data, aborted, harm>>
  BY DEF DataCommand
<1>3. /\ k \in 0 .. MaxCommands /\ commands'[s] = k
      /\ commands[s] \in 0 .. k /\ commands[s] # k
  BY <1>1, <1>2, TypeFacts, ConstAssumption
<1>4. d \notin leaked /\ d.kind = "file"
  BY <1>1, <1>3, TypeFacts DEF Core, LeakedOpen, LeakedKnown, File
<1>5. "queued" \in {"none", "queued"} /\ d \in {File(s, k), Dir(s, k), Data(s, k)}
  OBVIOUS
<1>6. Leak(d) \/ UNCHANGED <<table, leaked>>
  BY <1>3 DEF DataCommand
<1> HIDE DEF k, d, Leak
<1>7. CASE Leak(d)
  <2>1. transfer[s] # "running"
    BY <1>2
  <2>2. "queued" = "queued" => d.kind = "file" /\ commands[s] # k
    BY <1>3, <1>4
  <2>. QED
    BY <1>1, <1>2, <1>3, <1>4, <1>5, <1>7, <2>1, <2>2, LeakPreserves
<1>8. CASE UNCHANGED <<table, leaked>>
  BY <1>1, <1>2, <1>3, <1>5, <1>8, NothingOpened
<1>. QED
  BY <1>6, <1>7, <1>8

LEMMA RefuseListPreserves ==
    ASSUME IInv, NEW s \in Sessions, RefuseList(s) PROVE IInv'
<1> DEFINE k == commands[s] + 1
           d == Dir(s, k)
<1>1. TypeOK /\ Core /\ harm = <<>> /\ WorkerFree(s)
  BY DEF IInv, RefuseList, Callback, Running
<1>2. /\ transfer[s] = "none" /\ commands[s] < MaxCommands
      /\ commands' = [commands EXCEPT ![s] = k]
      /\ UNCHANGED <<stage, passive, control, listener, transfer, data, aborted, harm>>
  BY DEF RefuseList
<1>3. /\ k \in 0 .. MaxCommands /\ commands'[s] = k
      /\ commands[s] \in 0 .. k /\ commands[s] # k
      /\ transfer' = [transfer EXCEPT ![s] = "none"]
  BY <1>1, <1>2, TypeFacts, ConstAssumption
<1>4. d \notin leaked
  BY <1>1, <1>3, TypeFacts DEF Core, LeakedOpen, LeakedKnown, Dir
<1>5. "none" \in {"none", "queued"} /\ d \in {File(s, k), Dir(s, k), Data(s, k)}
  OBVIOUS
<1>6. Leak(d)
  BY <1>3 DEF RefuseList
<1> HIDE DEF k, d, Leak
<1>. QED
  BY <1>1, <1>2, <1>3, <1>4, <1>5, <1>6, LeakPreserves

\* The first close of another's number, by the second close of a listener.
LEMMA HarmDone ==
    ASSUME TypeOK, harm = <<>>, NEW s \in Sessions, NEW n \in Numbers, NEW d,
           Close(s, n, d),
           table[n] \notin {d, Free} =>
               stage[s] = "once" /\ OpenedBy(table[n]) # WorkerOf(s)
    PROVE  /\ HarmIsDoubleClose' /\ Len(harm') <= 1
           /\ harm' = <<>> => table[n] \in {d, Free}
<1>1. CASE table[n] \in {d, Free}
  BY <1>1 DEF Close, HarmIsDoubleClose
<1>2. CASE table[n] \notin {d, Free}
  <2> DEFINE h == [by |-> s, at |-> stage[s], victim |-> table[n]]
  <2>1. harm' = <<h>>
    BY <1>2 DEF Close
  <2>2. Len(harm') = 1 /\ DOMAIN harm' = {1} /\ harm'[1] = h
    <3>1. \A x : Len(<<x>>) = 1 /\ DOMAIN <<x>> = {1} /\ <<x>>[1] = x
      OBVIOUS
    <3> HIDE DEF h
    <3>. QED
      BY <2>1, <3>1
  <2>3. h.at = "once" /\ OpenedBy(h.victim) # WorkerOf(h.by)
    BY <1>2
  <2> HIDE DEF h
  <2>4. harm' # <<>>
    <3>1. Len(<<>>) = 0
      OBVIOUS
    <3>2. Len(harm') = 1
      BY <2>2
    <3>. QED
      BY <3>1, <3>2
  <2>. QED
    BY <2>2, <2>3, <2>4 DEF HarmIsDoubleClose, OpenedBy, WorkerOf
<1>. QED
  BY <1>1, <1>2

LEMMA OnceAfterClose ==
    ASSUME OnceInv,
           \A n \in Numbers : table'[n] = table[n] \/ table'[n] = Free,
           \A r \in Sessions : stage'[r] = "once" =>
               stage[r] = "once" /\ listener'[r] = listener[r]
    PROVE  OnceInv'
  BY DEF OnceInv, Numbers, Free, OpenedBy, WorkerOf

\* What is still held is held where it was: a close frees one open file.
LEMMA HeldAfterClose ==
    ASSUME HeldInv, NEW d,
           \A n \in Numbers : table[n] # d => table'[n] = table[n],
           \A r \in Sessions : stage'[r] \notin {"none", "closed"} =>
               /\ stage[r] \notin {"none", "closed"}
               /\ control'[r] = control[r] /\ Control(r) # d,
           \A r \in Sessions : stage'[r] = "open" =>
               stage[r] = "open" /\ listener'[r] = listener[r] /\ Listener(r) # d,
           \A r \in Sessions : transfer'[r] = "running" =>
               /\ transfer[r] = "running" /\ commands'[r] = commands[r]
               /\ data'[r] = data[r] /\ Data(r, commands[r]) # d
    PROVE  HeldInv'
<1>1. ASSUME NEW r \in Sessions, stage'[r] \notin {"none", "closed"}
      PROVE  control'[r] \in Numbers /\ table'[control'[r]] = Control(r)
  BY <1>1 DEF HeldInv
<1>2. ASSUME NEW r \in Sessions, stage'[r] = "open"
      PROVE  listener'[r] \in Numbers /\ table'[listener'[r]] = Listener(r)
  BY <1>2 DEF HeldInv
<1>3. ASSUME NEW r \in Sessions, transfer'[r] = "running"
      PROVE  data'[r] \in Numbers /\ table'[data'[r]] = Data(r, commands'[r])
  BY <1>3 DEF HeldInv
<1>. QED
  BY <1>1, <1>2, <1>3 DEF HeldInv, Numbers, Control, Listener, Data

LEMMA EndTransferPreserves ==
    ASSUME IInv, NEW s \in Sessions, EndTransfer(s) PROVE IInv'
<1> DEFINE d == Data(s, commands[s])
           n == data[s]
<1>1. TypeOK /\ Core /\ harm = <<>>
  BY DEF IInv, EndTransfer, Callback, Running
<1>2. /\ transfer[s] = "running" /\ transfer' = [transfer EXCEPT ![s] = "none"]
      /\ Close(s, n, d) /\ data' = [data EXCEPT ![s] = 0]
      /\ UNCHANGED <<stage, passive, control, listener, commands, leaked, aborted>>
  BY DEF EndTransfer
<1>3. n \in Numbers /\ table[n] = d
  BY <1>1, <1>2 DEF Core, HeldInv
<1>4. \A e : Due(e)' <=> Due(e) /\ e # d
  BY <1>1, <1>2, TypeFacts, LeakedFacts DEF Due, Control, Listener, Data
<1>5. table' = [table EXCEPT ![n] = Free]
  BY <1>2 DEF Close
<1> HIDE DEF d, n
<1>6. /\ OpenIsDue' /\ OneNumber'
      /\ table' \in [Numbers -> Descriptor]
      /\ \A m \in Numbers : table[m] # d => table'[m] = table[m]
      /\ \A m \in Numbers : table'[m] = table[m] \/ table'[m] = Free
  BY <1>1, <1>3, <1>4, <1>5, TypeFacts, CloseStep DEF Core
<1>7. HarmIsDoubleClose' /\ Len(harm') <= 1
  BY <1>1, <1>2, <1>3, HarmDone
<1>8. TypeOK'
  <2>1. data' \in [Sessions -> 0 .. Limit]
    BY <1>1, <1>2, TypeFacts, ConstAssumption
  <2>2. transfer' \in [Sessions -> {"none", "queued", "running"}]
    BY <1>1, <1>2, TypeFacts
  <2>. QED
    BY <1>1, <1>2, <1>6, <1>7, <2>1, <2>2 DEF TypeOK
<1>9. HeldInv'
  <2>1. \A r \in Sessions : Control(r) # d /\ Listener(r) # d
    BY DEF d, Control, Listener, Data
  <2>2. \A r \in Sessions : transfer'[r] = "running" =>
            /\ transfer[r] = "running" /\ data'[r] = data[r]
            /\ Data(r, commands[r]) # d
    BY <1>1, <1>2, TypeFacts DEF d, Data
  <2>. QED
    BY <1>1, <1>2, <1>6, <2>1, <2>2, HeldAfterClose DEF Core
<1>10. LeakedOpen'
  <2>1. d \notin leaked
    BY <1>1, <1>2, LeakedFacts DEF d
  <2>2. \A r \in Sessions : transfer'[r] # "none" => transfer[r] # "none"
    BY <1>1, <1>2, TypeFacts
  <2>. QED
    BY <1>1, <1>2, <1>6, <2>1, <2>2, LeakedStays
<1>11. OnceInv'
  BY <1>1, <1>2, <1>6, OnceAfterClose DEF Core
<1>. QED
  BY <1>6, <1>7, <1>8, <1>9, <1>10, <1>11 DEF IInv, Core

LEMMA CloseListenerPreserves ==
    ASSUME IInv, NEW s \in Sessions, CloseListener(s) PROVE IInv'
<1> DEFINE d == Listener(s)
           n == listener[s]
<1>1. TypeOK /\ Core /\ harm = <<>>
  BY DEF IInv, CloseListener, Callback, Running
<1>2. /\ stage[s] = "open" /\ stage' = [stage EXCEPT ![s] = "once"]
      /\ Close(s, n, d)
      /\ UNCHANGED <<passive, control, listener, commands, transfer, data, leaked, aborted>>
  BY DEF CloseListener, sessionVars
<1>3. n \in Numbers /\ table[n] = d
  BY <1>1, <1>2 DEF Core, HeldInv
<1>4. \A e : Due(e)' <=> Due(e) /\ e # d
  <2>1. d \notin leaked
    BY <1>1, LeakedFacts
  <2>2. \A r \in Sessions :
            /\ stage'[r] = "open" <=> stage[r] = "open" /\ r # s
            /\ stage'[r] \notin {"none", "closed"} <=> stage[r] \notin {"none", "closed"}
    BY <1>1, <1>2, TypeFacts
  <2>3. \A r \in Sessions :
            /\ Listener(r) = d <=> r = s
            /\ Control(r) # d /\ Data(r, commands[r]) # d
    BY DEF Control, Listener, Data
  <2> HIDE DEF d
  <2>. QED
    BY <1>2, <2>1, <2>2, <2>3 DEF Due
<1>5. table' = [table EXCEPT ![n] = Free]
  BY <1>2 DEF Close
<1> HIDE DEF d, n
<1>6. /\ OpenIsDue' /\ OneNumber'
      /\ table' \in [Numbers -> Descriptor]
      /\ \A m \in Numbers : table[m] # d => table'[m] = table[m]
      /\ \A m \in Numbers : table'[m] = table[m] \/ table'[m] = Free
  BY <1>1, <1>3, <1>4, <1>5, TypeFacts, CloseStep DEF Core
<1>7. HarmIsDoubleClose' /\ Len(harm') <= 1
  BY <1>1, <1>2, <1>3, HarmDone
<1>8. TypeOK'
  BY <1>1, <1>2, <1>6, <1>7 DEF TypeOK
<1>9. HeldInv'
  <2>1. \A r \in Sessions : Control(r) # d /\ Data(r, commands[r]) # d
    BY DEF d, Control, Listener, Data
  <2>2. \A r \in Sessions :
            /\ stage'[r] \notin {"none", "closed"} => stage[r] \notin {"none", "closed"}
            /\ stage'[r] = "open" => stage[r] = "open" /\ Listener(r) # d
    BY <1>1, <1>2, TypeFacts DEF d, Listener
  <2>. QED
    BY <1>1, <1>2, <1>6, <2>1, <2>2, HeldAfterClose DEF Core
<1>10. LeakedOpen'
  <2>1. d \notin leaked
    BY <1>1, LeakedFacts DEF d
  <2>. QED
    BY <1>1, <1>2, <1>6, <2>1, LeakedStays
<1>11. OnceInv'
  <2>1. \A r \in Sessions : r # s /\ stage'[r] = "once" => stage[r] = "once"
    BY <1>1, <1>2, TypeFacts
  <2>2. listener[s] \in Numbers /\ table'[listener[s]] = Free
    BY <1>1, <1>3, <1>5, TypeFacts DEF n
  <2>3. \A m \in Numbers : table'[m] = table[m] \/ table'[m] = Free
    BY <1>6
  <2>4. ASSUME NEW r \in Sessions, stage'[r] = "once"
        PROVE  /\ listener[r] \in Numbers
               /\ \/ table'[listener[r]] = Free
                  \/ OpenedBy(table'[listener[r]]) # WorkerOf(r)
    <3>1. CASE r = s
      BY <2>2, <3>1
    <3>2. CASE r # s
      BY <1>1, <2>1, <2>3, <2>4, <3>2 DEF Core, OnceInv
    <3>. QED
      BY <3>1, <3>2
  <2>. QED
    BY <1>2, <2>4 DEF OnceInv, Numbers, Free, OpenedBy, WorkerOf
<1>. QED
  BY <1>6, <1>7, <1>8, <1>9, <1>10, <1>11 DEF IInv, Core

LEMMA DestroySocketPreserves ==
    ASSUME IInv, NEW s \in Sessions, DestroySocket(s) PROVE IInv'
<1> DEFINE d == Listener(s)
           n == listener[s]
<1>1. TypeOK /\ Core /\ harm = <<>>
  BY DEF IInv, DestroySocket, Running
<1>2. /\ stage[s] \in {"open", "once"} /\ stage' = [stage EXCEPT ![s] = "twice"]
      /\ Close(s, n, d)
      /\ listener' = [listener EXCEPT ![s] = 0]
      /\ passive' = [passive EXCEPT ![s] = FALSE]
      /\ UNCHANGED <<control, commands, transfer, data, leaked, aborted>>
  BY DEF DestroySocket, CloseSocket, sessionVars
<1>3. n \in Numbers /\ (stage[s] = "open" => table[n] = d)
  BY <1>1, <1>2 DEF Core, HeldInv, OnceInv
<1>4. \A e : Due(e)' <=> Due(e) /\ e # d
  <2>1. d \notin leaked
    BY <1>1, LeakedFacts
  <2>2. \A r \in Sessions :
            /\ stage'[r] = "open" <=> stage[r] = "open" /\ r # s
            /\ stage'[r] \notin {"none", "closed"} <=> stage[r] \notin {"none", "closed"}
    BY <1>1, <1>2, TypeFacts
  <2>3. \A r \in Sessions :
            /\ Listener(r) = d <=> r = s
            /\ Control(r) # d /\ Data(r, commands[r]) # d
    BY DEF Control, Listener, Data
  <2> HIDE DEF d
  <2>. QED
    BY <1>2, <2>1, <2>2, <2>3 DEF Due
<1>5. stage[s] = "once" => ~Due(d)
  BY <1>1, LeakedFacts DEF Due, Control, Listener, Data
<1>6. table' = [table EXCEPT ![n] = Free]
  BY <1>2 DEF Close
<1>7. table[n] \notin {d, Free} =>
          stage[s] = "once" /\ OpenedBy(table[n]) # WorkerOf(s)
  BY <1>1, <1>2, <1>3 DEF Core, OnceInv
<1> HIDE DEF d, n
<1>8. /\ HarmIsDoubleClose' /\ Len(harm') <= 1
      /\ harm' = <<>> => table[n] \in {d, Free}
  BY <1>1, <1>2, <1>3, <1>7, HarmDone
<1>9. TypeOK'
  <2>1. table' \in [Numbers -> Descriptor]
    BY <1>1, <1>6, TypeFacts, DescriptorFacts
  <2>2. listener' \in [Sessions -> 0 .. Limit]
    BY <1>1, <1>2, TypeFacts, ConstAssumption
  <2>3. /\ stage' \in [Sessions -> {"none", "accepted", "open", "once", "twice", "closed"}]
        /\ passive' \in [Sessions -> BOOLEAN]
    BY <1>1, <1>2, TypeFacts
  <2>. QED
    BY <1>1, <1>2, <1>8, <2>1, <2>2, <2>3 DEF TypeOK
<1>10. ASSUME harm' = <<>> PROVE Core'
  <2>1. /\ OpenIsDue' /\ OneNumber'
        /\ \A m \in Numbers : table[m] # d => table'[m] = table[m]
        /\ \A m \in Numbers : table'[m] = table[m] \/ table'[m] = Free
    <3>1. table[n] = d \/ table[n] = Free
      BY <1>8, <1>10
    <3>2. table[n] = d \/ ~Due(d)
      BY <1>2, <1>3, <1>5
    <3>. QED
      BY <1>1, <1>3, <1>4, <1>6, <3>1, <3>2, TypeFacts, CloseStep DEF Core
  <2>2. HeldInv'
    <3>1. \A r \in Sessions : Control(r) # d /\ Data(r, commands[r]) # d
      BY DEF d, Control, Listener, Data
    <3>2. \A r \in Sessions :
              /\ stage'[r] \notin {"none", "closed"} => stage[r] \notin {"none", "closed"}
              /\ stage'[r] = "open" =>
                     stage[r] = "open" /\ listener'[r] = listener[r] /\ Listener(r) # d
      BY <1>1, <1>2, TypeFacts DEF d, Listener
    <3>. QED
      BY <1>1, <1>2, <2>1, <3>1, <3>2, HeldAfterClose DEF Core
  <2>3. LeakedOpen'
    <3>1. d \notin leaked
      BY <1>1, LeakedFacts DEF d
    <3>. QED
      BY <1>1, <1>2, <2>1, <3>1, LeakedStays
  <2>4. OnceInv'
    <3>1. \A r \in Sessions : stage'[r] = "once" =>
              stage[r] = "once" /\ listener'[r] = listener[r]
      BY <1>1, <1>2, TypeFacts
    <3>. QED
      BY <1>1, <2>1, <3>1, OnceAfterClose DEF Core
  <2>. QED
    BY <2>1, <2>2, <2>3, <2>4 DEF Core
<1>. QED
  BY <1>8, <1>9, <1>10 DEF IInv

LEMMA FreeBevPreserves ==
    ASSUME IInv, NEW s \in Sessions, FreeBev(s) PROVE IInv'
<1> DEFINE d == Control(s)
           n == control[s]
<1>1. TypeOK /\ Core /\ harm = <<>>
  BY DEF IInv, FreeBev, Callback, Running
<1>2. /\ stage[s] = "twice" /\ stage' = [stage EXCEPT ![s] = "closed"]
      /\ Close(s, n, d) /\ control' = [control EXCEPT ![s] = 0]
      /\ UNCHANGED <<passive, listener, commands, transfer, data, leaked, aborted>>
  BY DEF FreeBev, CloseOnFree, sessionVars
<1>3. n \in Numbers /\ table[n] = d
  BY <1>1, <1>2 DEF Core, HeldInv
<1>4. \A e : Due(e)' <=> Due(e) /\ e # d
  <2>1. d \notin leaked
    BY <1>1, LeakedFacts
  <2>2. \A r \in Sessions :
            /\ stage'[r] = "open" <=> stage[r] = "open"
            /\ stage'[r] \notin {"none", "closed"} <=>
                   stage[r] \notin {"none", "closed"} /\ r # s
    BY <1>1, <1>2, TypeFacts
  <2>3. \A r \in Sessions :
            /\ Control(r) = d <=> r = s
            /\ Listener(r) # d /\ Data(r, commands[r]) # d
    BY DEF Control, Listener, Data
  <2> HIDE DEF d
  <2>. QED
    BY <1>2, <2>1, <2>2, <2>3 DEF Due
<1>5. table' = [table EXCEPT ![n] = Free]
  BY <1>2 DEF Close
<1> HIDE DEF d, n
<1>6. /\ OpenIsDue' /\ OneNumber'
      /\ table' \in [Numbers -> Descriptor]
      /\ \A m \in Numbers : table[m] # d => table'[m] = table[m]
      /\ \A m \in Numbers : table'[m] = table[m] \/ table'[m] = Free
  BY <1>1, <1>3, <1>4, <1>5, TypeFacts, CloseStep DEF Core
<1>7. HarmIsDoubleClose' /\ Len(harm') <= 1
  BY <1>1, <1>2, <1>3, HarmDone
<1>8. TypeOK'
  <2>1. control' \in [Sessions -> 0 .. Limit]
    BY <1>1, <1>2, TypeFacts, ConstAssumption
  <2>2. stage' \in [Sessions -> {"none", "accepted", "open", "once", "twice", "closed"}]
    BY <1>1, <1>2, TypeFacts
  <2>. QED
    BY <1>1, <1>2, <1>6, <1>7, <2>1, <2>2 DEF TypeOK
<1>9. HeldInv'
  <2>1. \A r \in Sessions : Listener(r) # d /\ Data(r, commands[r]) # d
    BY DEF d, Control, Listener, Data
  <2>2. \A r \in Sessions :
            /\ stage'[r] \notin {"none", "closed"} =>
                   /\ stage[r] \notin {"none", "closed"}
                   /\ control'[r] = control[r] /\ Control(r) # d
            /\ stage'[r] = "open" => stage[r] = "open"
    BY <1>1, <1>2, TypeFacts DEF d, Control
  <2>. QED
    BY <1>1, <1>2, <1>6, <2>1, <2>2, HeldAfterClose DEF Core
<1>10. LeakedOpen'
  <2>1. d \notin leaked
    BY <1>1, LeakedFacts DEF d
  <2>. QED
    BY <1>1, <1>2, <1>6, <2>1, LeakedStays
<1>11. OnceInv'
  <2>1. \A r \in Sessions : stage'[r] = "once" =>
            stage[r] = "once" /\ listener'[r] = listener[r]
    BY <1>1, <1>2, TypeFacts
  <2>. QED
    BY <1>1, <1>6, <2>1, OnceAfterClose DEF Core
<1>. QED
  BY <1>6, <1>7, <1>8, <1>9, <1>10, <1>11 DEF IInv, Core

-----------------------------------------------------------------------------
(* The count of what is open: a number that is not free belongs to one     *)
(* holder or to one leaked file.                                           *)

LEMMA SameCount ==
    ASSUME NEW S, NEW T, IsFiniteSet(S), NEW f \in [S -> T],
           \A a, b \in S : f[a] = f[b] => a = b,
           \A c \in T : \E a \in S : f[a] = c
    PROVE  IsFiniteSet(T) /\ Cardinality(T) = Cardinality(S)
<1>1. f \in Bijection(S, T)
  BY DEF Bijection, Injection, Surjection, IsInjective
<1>2. ExistsBijection(S, T)
  BY <1>1 DEF ExistsBijection
<1>. QED
  BY <1>2, FS_Bijection

LEMMA CoreAccounts ==
    ASSUME TypeOK, Core
    PROVE  /\ \A h \in Held : table[h[2]] = h[1]
           /\ {table[n] : n \in Numbers} \ {Free} = {h[1] : h \in Held} \cup leaked
           /\ Cardinality(FreeNumbers) = Limit - Cardinality(Held) - Cardinality(leaked)
<1> DEFINE HN == {n \in Numbers : <<table[n], n>> \in Held}
           LN == {n \in Numbers : table[n] \in leaked}
<1>1. \A h \in Held : h = <<h[1], h[2]>> /\ h[2] \in Numbers /\ table[h[2]] = h[1]
  BY DEF Held, Core, HeldInv
<1>2. \A h \in Held : h[1] # Free /\ h[1] \notin leaked
  <2>1. ASSUME NEW h \in Held
        PROVE  \E s \in Sessions :
                   \/ h[1] = Control(s)
                   \/ h[1] = Listener(s)
                   \/ h[1] = Data(s, commands[s]) /\ transfer[s] = "running"
    BY DEF Held
  <2>2. \A s \in Sessions : \A k : Control(s) # Free /\ Listener(s) # Free /\ Data(s, k) # Free
    BY DEF Control, Listener, Data, Free
  <2>. QED
    BY <2>1, <2>2, LeakedFacts
<1>4. \A d \in leaked : d # Free /\ \E n \in Numbers : table[n] = d
  BY LeakedFacts DEF Core, LeakedOpen
<1>5. \A d : Due(d) => d \in leaked \/ \E h \in Held : h[1] = d
  <2>1. \A s \in Sessions : stage[s] \notin {"none", "closed"} =>
            <<Control(s), control[s]>> \in Held
    BY DEF Held
  <2>2. \A s \in Sessions : stage[s] = "open" => <<Listener(s), listener[s]>> \in Held
    BY DEF Held
  <2>3. \A s \in Sessions : transfer[s] = "running" =>
            <<Data(s, commands[s]), data[s]>> \in Held
    BY DEF Held
  <2>4. \A a, b : <<a, b>> \in Held => \E h \in Held : h[1] = a
    <3>1. \A a, b : <<a, b>>[1] = a
      OBVIOUS
    <3>. QED
      BY <3>1
  <2>5. ASSUME NEW d, NEW s \in Sessions, d = Control(s), stage[s] \notin {"none", "closed"}
        PROVE  \E h \in Held : h[1] = d
    BY <2>1, <2>4, <2>5
  <2>6. ASSUME NEW d, NEW s \in Sessions, d = Listener(s), stage[s] = "open"
        PROVE  \E h \in Held : h[1] = d
    BY <2>2, <2>4, <2>6
  <2>7. ASSUME NEW d, NEW s \in Sessions, d = Data(s, commands[s]), transfer[s] = "running"
        PROVE  \E h \in Held : h[1] = d
    BY <2>3, <2>4, <2>7
  <2>. QED
    BY <2>5, <2>6, <2>7 DEF Due
<1> HIDE DEF HN, LN
<1>6. {table[n] : n \in Numbers} \ {Free} = {h[1] : h \in Held} \cup leaked
  <2>1. ASSUME NEW n \in Numbers, table[n] # Free
        PROVE  table[n] \in {h[1] : h \in Held} \cup leaked
    BY <1>5, <2>1 DEF Core, OpenIsDue
  <2>2. \A d \in {h[1] : h \in Held} : d # Free /\ \E n \in Numbers : table[n] = d
    BY <1>1, <1>2
  <2>. QED
    BY <1>4, <2>1, <2>2
<1>7. IsFiniteSet(Numbers) /\ Cardinality(Numbers) = Limit
  BY ConstAssumption, FS_Interval DEF Numbers
<1>8. HN \subseteq Numbers /\ LN \subseteq Numbers /\ IsFiniteSet(HN) /\ IsFiniteSet(LN)
  <2>1. HN \in SUBSET Numbers /\ LN \in SUBSET Numbers
    BY DEF HN, LN
  <2>. QED
    BY <1>7, <2>1, FS_Subset
<1>9. IsFiniteSet(Held) /\ Cardinality(Held) = Cardinality(HN)
  <2> DEFINE f == [n \in HN |-> <<table[n], n>>]
  <2>1. f \in [HN -> Held]
    BY DEF HN
  <2>2. \A a, b \in HN : f[a] = f[b] => a = b
    OBVIOUS
  <2>3. \A h \in Held : \E a \in HN : f[a] = h
    <3>1. TAKE h \in Held
    <3>2. h[2] \in HN /\ f[h[2]] = h
      BY <1>1 DEF HN
    <3>. QED
      BY <3>2
  <2> HIDE DEF f
  <2>. QED
    BY <1>8, <2>1, <2>2, <2>3, SameCount
<1>10. IsFiniteSet(leaked) /\ Cardinality(leaked) = Cardinality(LN)
  <2> DEFINE f == [n \in LN |-> table[n]]
  <2>1. f \in [LN -> leaked]
    BY DEF LN
  <2>2. \A a, b \in LN : f[a] = f[b] => a = b
    BY <1>4 DEF LN, Core, OneNumber
  <2>3. \A d \in leaked : \E a \in LN : f[a] = d
    BY <1>4 DEF LN
  <2> HIDE DEF f
  <2>. QED
    BY <1>8, <2>1, <2>2, <2>3, SameCount
<1>11. HN \cap LN = {}
  <2>1. \A n \in HN : table[n] \notin leaked
    <3>1. TAKE n \in HN
    <3>2. <<table[n], n>> \in Held
      BY DEF HN
    <3>3. <<table[n], n>>[1] \notin leaked
      BY <1>2, <3>2
    <3>. QED
      BY <3>3
  <2>. QED
    BY <2>1 DEF LN
<1>12. FreeNumbers = Numbers \ (HN \cup LN)
  <2>1. ASSUME NEW n \in Numbers, n \in HN \cup LN PROVE table[n] # Free
    <3>1. CASE n \in HN
      <4>1. <<table[n], n>> \in Held
        BY <3>1 DEF HN
      <4>2. <<table[n], n>>[1] # Free
        BY <1>2, <4>1
      <4>. QED
        BY <4>2
    <3>2. CASE n \in LN
      BY <1>4, <3>2 DEF LN
    <3>. QED
      BY <2>1, <3>1, <3>2
  <2>2. ASSUME NEW n \in Numbers, table[n] # Free PROVE n \in HN \cup LN
    <3>1. table[n] \in leaked \/ \E h \in Held : h[1] = table[n]
      BY <1>5, <2>2 DEF Core, OpenIsDue
    <3>2. CASE table[n] \in leaked
      BY <3>2 DEF LN
    <3>3. ASSUME NEW h \in Held, h[1] = table[n] PROVE n \in HN
      <4>1. h[2] \in Numbers /\ table[h[2]] = table[n] /\ h = <<h[1], h[2]>>
        BY <1>1, <3>3
      <4>2. h[2] = n
        BY <2>2, <4>1 DEF Core, OneNumber
      <4>. QED
        BY <3>3, <4>1, <4>2 DEF HN
    <3>. QED
      BY <3>1, <3>2, <3>3
  <2>. QED
    BY <2>1, <2>2 DEF FreeNumbers
<1>13. /\ IsFiniteSet(HN \cup LN)
       /\ Cardinality(HN \cup LN) = Cardinality(HN) + Cardinality(LN)
  <2>1. Cardinality(HN \cap LN) = 0
    BY <1>11, FS_EmptySet
  <2>2. Cardinality(HN) \in Nat /\ Cardinality(LN) \in Nat
    BY <1>8, FS_CardinalityType
  <2>3. /\ IsFiniteSet(HN \cup LN)
        /\ Cardinality(HN \cup LN) =
               Cardinality(HN) + Cardinality(LN) - Cardinality(HN \cap LN)
    BY <1>8, FS_Union
  <2>. QED
    BY <2>1, <2>2, <2>3
<1>14. Cardinality(FreeNumbers) = Limit - Cardinality(HN \cup LN)
  <2>1. Numbers \cap (HN \cup LN) = HN \cup LN
    BY <1>8
  <2>2. Cardinality(Numbers \ (HN \cup LN)) =
            Cardinality(Numbers) - Cardinality(Numbers \cap (HN \cup LN))
    BY <1>7, FS_Difference
  <2>. QED
    BY <1>7, <1>12, <2>1, <2>2
<1>15. Cardinality(HN) \in Nat /\ Cardinality(LN) \in Nat /\ Limit \in Nat
  BY <1>8, FS_CardinalityType, ConstAssumption
<1>16. Cardinality(FreeNumbers) = Limit - Cardinality(Held) - Cardinality(leaked)
  BY <1>9, <1>10, <1>13, <1>14, <1>15
<1>. QED
  BY <1>1, <1>6, <1>16

-----------------------------------------------------------------------------
(* The theorems.                                                           *)

LEMMA InitIInv == Init => IInv
<1> SUFFICES ASSUME Init PROVE IInv
  OBVIOUS
<1>1. harm = <<>> /\ Len(harm) = 0 /\ DOMAIN harm = {}
  BY DEF Init
<1>2. TypeOK
  <2>1. table \in [Numbers -> Descriptor]
    BY DescriptorFacts DEF Init
  <2>2. leaked \subseteq Descriptor
    BY DEF Init
  <2>3. commands \in [Sessions -> 0 .. MaxCommands]
    BY ConstAssumption DEF Init
  <2>4. /\ control \in [Sessions -> 0 .. Limit] /\ listener \in [Sessions -> 0 .. Limit]
        /\ data \in [Sessions -> 0 .. Limit]
    BY ConstAssumption DEF Init
  <2>5. /\ stage \in [Sessions -> {"none", "accepted", "open", "once", "twice", "closed"}]
        /\ passive \in [Sessions -> BOOLEAN]
        /\ transfer \in [Sessions -> {"none", "queued", "running"}]
        /\ aborted \in BOOLEAN
    BY DEF Init
  <2>. QED
    BY <1>1, <2>1, <2>2, <2>3, <2>4, <2>5 DEF TypeOK
<1>3. HeldInv /\ LeakedOpen /\ OpenIsDue /\ OneNumber /\ OnceInv
  BY DEF Init, HeldInv, LeakedOpen, LeakedKnown, OpenIsDue, OneNumber, OnceInv, Free
<1>. QED
  BY <1>1, <1>2, <1>3 DEF IInv, Core, HarmIsDoubleClose

LEMMA StutterIInv == IInv /\ UNCHANGED vars => IInv'
<1> SUFFICES ASSUME IInv, UNCHANGED vars PROVE IInv'
  OBVIOUS
<1>1. UNCHANGED <<table, stage, passive, control, listener, commands, transfer,
                  data, leaked, aborted, harm>>
  BY DEF vars
<1>2. TypeOK'
  BY <1>1 DEF IInv, TypeOK
<1>3. HarmIsDoubleClose'
  BY <1>1 DEF IInv, HarmIsDoubleClose
<1>4. HeldInv' <=> HeldInv
  BY <1>1 DEF HeldInv
<1>5. LeakedOpen' <=> LeakedOpen
  BY <1>1 DEF LeakedOpen, LeakedKnown
<1>6. OpenIsDue' <=> OpenIsDue
  BY <1>1 DEF OpenIsDue, Due
<1>7. (OneNumber' <=> OneNumber) /\ (OnceInv' <=> OnceInv)
  BY <1>1 DEF OneNumber, OnceInv
<1>. QED
  BY <1>1, <1>2, <1>3, <1>4, <1>5, <1>6, <1>7 DEF IInv, Core

LEMMA StepIInv == IInv /\ [Next]_vars => IInv'
<1> SUFFICES ASSUME IInv, [Next]_vars PROVE IInv'
  OBVIOUS
<1>1. CASE UNCHANGED vars
  BY <1>1, StutterIInv
<1>2. ASSUME NEW s \in Sessions, Accept(s) PROVE IInv'
  BY <1>2, AcceptPreserves
<1>3. ASSUME NEW s \in Sessions, Construct(s) PROVE IInv'
  BY <1>3, ConstructPreserves
<1>4. ASSUME NEW s \in Sessions, Pasv(s) PROVE IInv'
  BY <1>4, PasvPreserves
<1>5. ASSUME NEW s \in Sessions, DataCommand(s) PROVE IInv'
  BY <1>5, DataCommandPreserves
<1>11. ASSUME NEW s \in Sessions, RefuseList(s) PROVE IInv'
  BY <1>11, RefuseListPreserves
<1>6. ASSUME NEW s \in Sessions, PasvAccept(s) PROVE IInv'
  BY <1>6, PasvAcceptPreserves
<1>7. ASSUME NEW s \in Sessions, EndTransfer(s) PROVE IInv'
  BY <1>7, EndTransferPreserves
<1>8. ASSUME NEW s \in Sessions, CloseListener(s) PROVE IInv'
  BY <1>8, CloseListenerPreserves
<1>9. ASSUME NEW s \in Sessions, DestroySocket(s) PROVE IInv'
  BY <1>9, DestroySocketPreserves
<1>10. ASSUME NEW s \in Sessions, FreeBev(s) PROVE IInv'
  BY <1>10, FreeBevPreserves
<1>. QED
  BY <1>1, <1>2, <1>3, <1>4, <1>5, <1>6, <1>7, <1>8, <1>9, <1>10, <1>11 DEF Next

(* The inductive invariant holds in every state: until a thread closes     *)
(* what is not its own, every open number is due to one holder, every      *)
(* holder's number is open, and at a listener's number between its two     *)
(* closes stands nothing that its own thread has opened                    *)
(* (socket.cpp:19-22, ftp_conn.cpp:16-31).                                 *)
THEOREM IInvHolds == Spec => []IInv
<1>1. Init => IInv
  BY InitIInv
<1>2. IInv /\ [Next]_vars => IInv'
  BY StepIInv
<1>. QED
  BY <1>1, <1>2, PTL DEF Spec

(* The state invariant: the process has open exactly what its sessions     *)
(* hold, each under the number it holds it by, and what was leaked: files  *)
(* of RETR and STOR, directories of a LIST refused half way and data       *)
(* connections that got no event; the free numbers are the rest            *)
(* (ftp_server.cpp:496,539,752,841,886,924-955, file_opr.cpp:70-73,        *)
(* conn.cpp:9-12).                                                         *)
THEOREM DescriptorInvariant == Spec => []Inv
<1>1. IInv => Inv
  BY CoreAccounts DEF IInv, Inv, Accounted
<1>. QED
  BY <1>1, IInvHolds, PTL

(* The first close of what belongs to somebody else is the second close of *)
(* a passive session's listener, and its victim was opened by another      *)
(* thread (ftp_conn.cpp:18-22, socket.cpp:19-22).                          *)
THEOREM OnlyDoubleCloseHarms == Spec => []HarmIsDoubleClose
<1>1. IInv => HarmIsDoubleClose
  BY DEF IInv
<1>. QED
  BY <1>1, IInvHolds, PTL

=============================================================================
