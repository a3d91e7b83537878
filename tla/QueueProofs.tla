----------------------------- MODULE QueueProofs -----------------------------
(***************************************************************************)
(* Theorems about the two queues between threads.                          *)
(*                                                                         *)
(* The task pool, from ThreadPool, for any number of threads, any size of  *)
(* the queue and any number of tasks.                                      *)
(*                                                                         *)
(* A worker's connection queue in memory, from ConnDeque, for blocks, a    *)
(* first map and a notify pipe of any size and any number of connections.  *)
(***************************************************************************)
EXTENDS ThreadPool, ConnDeque, FiniteSetTheorems, TLAPS

-----------------------------------------------------------------------------
(* ThreadPool: the inductive invariant.                                    *)

\* Which threads there are, and what shutdown says, at each point of the
\* owner's life.
LifeInv ==
    /\ shutdown <=> life \notin {"starting", "running"}
    /\ life = "constructed" => \A t \in Threads : pc[t] = "unborn"
    /\ life \notin {"constructed", "starting"} =>
           \A t \in Threads : pc[t] # "unborn"
    /\ ~shutdown => \A t \in Threads : pc[t] # "exited"

\* A thread has a task while it runs the handler, and at no other time.
HoldInv == \A t \in Threads : task[t] # NoTask <=> pc[t] = "handle"

\* The destructor's loop: it takes from the queue and leaves queue_len as
\* it found it, so a queue_len of 0 means that the loop took nothing.
DrainInv ==
    life = "draining" =>
        /\ Len(queue) <= queueLen
        /\ undefined => ~Empty
        /\ Empty => InPlace

IInv ==
    /\ TypeOK
    /\ LengthCounted
    /\ OldestFirst
    /\ DrainsAlone
    /\ LifeInv
    /\ HoldInv
    /\ DrainInv
    /\ SomeoneAwake

-----------------------------------------------------------------------------
(* The queue as the invariant describes it: the numbers low + 1 .. low + n *)
(* in order, under Append and Tail.                                        *)

LEMMA SeqIsFunction ==
    ASSUME NEW S, NEW s \in Seq(S)
    PROVE  s = [i \in 1 .. Len(s) |-> s[i]]
  OBVIOUS

LEMMA AppendNext ==
    ASSUME NEW S, NEW q \in Seq(S), NEW low \in Nat, low + Len(q) + 1 \in S,
           q = [i \in 1 .. Len(q) |-> low + i]
    PROVE  LET r == Append(q, low + Len(q) + 1)
           IN /\ Len(r) = Len(q) + 1
              /\ r = [i \in 1 .. Len(r) |-> low + i]
<1> DEFINE r == Append(q, low + Len(q) + 1)
<1>1. /\ r \in Seq(S) /\ Len(r) = Len(q) + 1
      /\ \A i \in 1 .. Len(q) : r[i] = q[i]
      /\ r[Len(q) + 1] = low + Len(q) + 1
  OBVIOUS
<1>2. \A i \in 1 .. Len(r) : r[i] = low + i
  BY <1>1
<1>3. r = [i \in 1 .. Len(r) |-> r[i]]
  BY <1>1, SeqIsFunction
<1>. QED
  BY <1>1, <1>2, <1>3

LEMMA TailNext ==
    ASSUME NEW S, NEW q \in Seq(S), NEW low \in Nat, q # <<>>,
           q = [i \in 1 .. Len(q) |-> low + i]
    PROVE  /\ Head(q) = low + 1
           /\ Tail(q) \in Seq(S) /\ Len(Tail(q)) = Len(q) - 1
           /\ Tail(q) = [i \in 1 .. Len(Tail(q)) |-> (low + 1) + i]
<1>1. /\ Len(q) \in Nat /\ Len(q) > 0
      /\ Head(q) = q[1]
      /\ Tail(q) \in Seq(S) /\ Len(Tail(q)) = Len(q) - 1
      /\ \A i \in 1 .. Len(q) - 1 : Tail(q)[i] = q[i + 1]
  OBVIOUS
<1>2. q[1] = low + 1
  BY <1>1
<1>3. \A i \in 1 .. Len(q) - 1 : Tail(q)[i] = (low + 1) + i
  BY <1>1
<1>4. Tail(q) = [i \in 1 .. Len(q) - 1 |-> Tail(q)[i]]
  BY <1>1, SeqIsFunction
<1>5. Tail(q) = [i \in 1 .. Len(q) - 1 |-> (low + 1) + i]
  BY <1>3, <1>4
<1>. QED
  BY <1>1, <1>2, <1>5

\* There are no more tasks in the queue than were ever accepted.
LEMMA LowNatural == TypeOK /\ InPlace => added - Len(queue) \in Nat
<1> SUFFICES ASSUME TypeOK, InPlace, Len(queue) > 0 PROVE added - Len(queue) \in Nat
  BY ConstAssumption DEF TypeOK
<1>1. queue \in Seq(Tasks) /\ Len(queue) \in Nat /\ added \in Nat
  BY DEF TypeOK
<1>2. queue[1] \in Tasks
  BY <1>1
<1>3. queue[1] = added - Len(queue) + 1
  BY <1>1 DEF InPlace
<1>. QED
  BY <1>1, <1>2, <1>3, ConstAssumption DEF Tasks

-----------------------------------------------------------------------------
(* The pool is constructed empty.                                          *)
LEMMA InitIInv == Init => IInv
<1> SUFFICES ASSUME Init PROVE IInv
  OBVIOUS
<1> USE ConstAssumption DEF Init, Tasks, NoTask
<1>1. TypeOK
  <2>1. /\ pc \in [Threads -> {"unborn", "test", "lock", "wait", "handle", "exited"}]
        /\ task \in [Threads -> Tasks \cup {NoTask}]
    OBVIOUS
  <2>2. /\ queue \in Seq(Tasks) /\ done \in SUBSET Tasks
        /\ queueLen \in 0 .. QueueSize /\ added \in 0 .. MaxTasks
    OBVIOUS
  <2>. QED
    BY <2>1, <2>2, Zenon DEF TypeOK
<1>2. LengthCounted /\ DrainsAlone /\ LifeInv /\ HoldInv /\ DrainInv /\ SomeoneAwake
  BY DEF LengthCounted, DrainsAlone, LifeInv, HoldInv, DrainInv, SomeoneAwake
<1>3. InPlace
  <2>1. Handled = {}
    BY DEF Handled
  <2>. QED
    BY <2>1 DEF InPlace
<1>. QED
  BY <1>1, <1>2, <1>3 DEF IInv, OldestFirst

(* Every step of the pool's owner, in start and in the destructor,         *)
(* preserves the invariant.                                                *)
LEMMA OwnerPreserves == IInv /\ (Starting \/ ShutDown \/ Destroying) => IInv'
<1> SUFFICES ASSUME IInv, Starting \/ ShutDown \/ Destroying PROVE IInv'
  OBVIOUS
<1> USE DEF IInv, TypeOK, Owner, poolVars
<1>1. CASE ClearShutdown
  <2>1. /\ life = "constructed" /\ life' = "starting" /\ shutdown' = FALSE
        /\ UNCHANGED <<queue, queueLen, added, pc, task, done, undefined>>
    BY <1>1 DEF ClearShutdown
  <2>2. InPlace'
    BY <2>1 DEF OldestFirst, InPlace, Handled
  <2>3. TypeOK' /\ LengthCounted' /\ OldestFirst' /\ DrainsAlone' /\ DrainInv'
    BY <2>1, <2>2 DEF LengthCounted, OldestFirst, DrainsAlone, DrainInv
  <2>4. LifeInv' /\ HoldInv' /\ SomeoneAwake'
    BY <2>1 DEF LifeInv, HoldInv, SomeoneAwake
  <2>. QED
    BY <2>3, <2>4
<1>2. ASSUME NEW t \in Threads, StartThread(t) PROVE IInv'
  <2>1. /\ life = "starting" /\ life' \in {"starting", "running"}
        /\ life' = "running" => \A u \in Threads \ {t} : pc[u] # "unborn"
        /\ pc[t] = "unborn" /\ pc' = [pc EXCEPT ![t] = "test"]
        /\ UNCHANGED <<shutdown, queue, queueLen, added, task, done, undefined>>
    BY <1>2 DEF StartThread
  <2>. QED
    BY <2>1 DEF LengthCounted, OldestFirst, InPlace, Handled, DrainsAlone,
       LifeInv, HoldInv, DrainInv, Empty, SomeoneAwake
<1>3. CASE ShutDown
  <2>1. /\ life = "running" /\ life' = "joining" /\ shutdown' = TRUE
        /\ pc' = [t \in Threads |-> IF pc[t] = "wait" THEN "lock" ELSE pc[t]]
        /\ UNCHANGED <<queue, queueLen, added, task, done, undefined>>
    BY <1>3 DEF ShutDown, Broadcast
  <2>. QED
    BY <2>1 DEF LengthCounted, OldestFirst, InPlace, Handled, DrainsAlone,
       LifeInv, HoldInv, DrainInv, Empty, SomeoneAwake
<1>4. CASE Join
  BY <1>4 DEF Join, Joinable, LengthCounted, OldestFirst, InPlace, Handled,
     DrainsAlone, LifeInv, HoldInv, DrainInv, Empty, SomeoneAwake
<1>5. CASE Drain
  <2>1. /\ life = "draining" /\ life' = "draining" /\ queueLen > 0
        /\ ~undefined
        /\ \/ queue # <<>> /\ queue' = Tail(queue) /\ UNCHANGED undefined
           \/ queue = <<>> /\ undefined' = TRUE /\ UNCHANGED queue
        /\ UNCHANGED <<shutdown, queueLen, added, pc, task, done>>
    BY <1>5 DEF Drain, Empty
  <2>2. queue' \in Seq(Tasks) /\ Len(queue') <= Len(queue)
    BY <2>1
  <2>3. TypeOK' /\ LengthCounted' /\ OldestFirst' /\ DrainsAlone'
    BY <2>1, <2>2 DEF LengthCounted, OldestFirst, DrainsAlone
  <2>4. LifeInv' /\ HoldInv' /\ SomeoneAwake'
    BY <2>1 DEF LifeInv, HoldInv, SomeoneAwake
  <2>5. DrainInv'
    BY <2>1, <2>2 DEF DrainInv, Empty
  <2>. QED
    BY <2>3, <2>4, <2>5
<1>6. CASE Destroyed
  <2>1. queueLen = 0 /\ Len(queue) = 0 /\ ~undefined
    BY <1>6 DEF Destroyed, Empty, DrainInv
  <2>2. InPlace'
    BY <1>6, <2>1 DEF Destroyed, DrainInv, InPlace, Handled, Empty
  <2>. QED
    BY <1>6, <2>1, <2>2 DEF Destroyed, LengthCounted, OldestFirst,
       DrainsAlone, LifeInv, HoldInv, DrainInv, SomeoneAwake
<1>. QED
  BY <1>1, <1>2, <1>3, <1>4, <1>5, <1>6 DEF Starting, Destroying

(* A task accepted goes to the end of the queue, and the thread woken for  *)
(* it is awake (add_task).                                                 *)
LEMMA AddPreserves == IInv /\ AddTask => IInv'
<1> SUFFICES ASSUME IInv, AddTask PROVE IInv'
  OBVIOUS
<1> USE DEF IInv, TypeOK
<1>1. /\ InUse /\ added < MaxTasks /\ queueLen # QueueSize
      /\ added' = added + 1
      /\ queue' = Append(queue, added + 1)
      /\ queueLen' = queueLen + 1
      /\ UNCHANGED <<life, shutdown, task, done, undefined>>
  BY DEF AddTask, Push, Full
<1>2. /\ pc' \in [Threads -> {"unborn", "test", "lock", "wait", "handle", "exited"}]
      /\ \A t \in Threads : pc'[t] # pc[t] => pc[t] = "wait" /\ pc'[t] = "lock"
      /\ (\E t \in Threads : pc[t] = "wait") => \E t \in Threads : pc'[t] = "lock"
  <2>1. CASE Waiting = {}
    BY <2>1 DEF AddTask, Notify, Waiting
  <2>2. ASSUME NEW t \in Waiting, pc' = [pc EXCEPT ![t] = "lock"]
        PROVE  <1>2!:
    BY <2>2 DEF Waiting
  <2>. QED
    BY <2>1, <2>2 DEF AddTask, Notify
<1>3. life \notin {"draining", "gone"}
  BY <1>1 DEF InUse, DrainsAlone
<1>4. InPlace /\ queueLen = Len(queue)
  BY <1>3 DEF OldestFirst, LengthCounted
<1>5. TypeOK'
  BY <1>1, <1>2, ConstAssumption DEF Tasks
<1>6. Len(queue') = Len(queue) + 1
  BY <1>1
<1>7. InPlace'
  <2>1. added - Len(queue) \in Nat
    BY <1>4, LowNatural
  <2>2. added + 1 = (added - Len(queue)) + Len(queue) + 1 /\ added + 1 \in Tasks
    BY <1>1, ConstAssumption DEF Tasks
  <2>3. queue' = [i \in 1 .. Len(queue') |-> (added - Len(queue)) + i]
    BY <1>1, <1>4, <2>1, <2>2, AppendNext DEF InPlace
  <2>4. added' - Len(queue') = added - Len(queue)
    BY <1>1, <1>6
  <2>5. Handled' = Handled
    BY <1>1 DEF Handled
  <2>. QED
    BY <1>1, <1>4, <2>3, <2>4, <2>5 DEF InPlace
<1>8. LengthCounted' /\ OldestFirst' /\ DrainsAlone' /\ DrainInv'
  BY <1>1, <1>3, <1>4, <1>6, <1>7 DEF LengthCounted, OldestFirst, DrainsAlone, DrainInv
<1>9. LifeInv' /\ HoldInv'
  BY <1>1, <1>2 DEF LifeInv, HoldInv
<1>10. SomeoneAwake'
  BY <1>1, <1>2, ConstAssumption DEF SomeoneAwake, LifeInv
<1>. QED
  BY <1>5, <1>8, <1>9, <1>10

(* A thread that tests shutdown, waits, wakes or ends leaves the tasks     *)
(* where they are (run_in_thread).                                         *)
LEMMA ThreadPreserves ==
    ASSUME NEW t \in Threads, IInv,
           Test(t) \/ Wait(t) \/ WakeSpuriously(t) \/ Stop(t)
    PROVE  IInv'
<1> USE DEF IInv, TypeOK
<1>1. /\ UNCHANGED <<life, shutdown, queue, queueLen, added, task, done, undefined>>
      /\ \/ pc[t] = "test" /\ pc' = [pc EXCEPT ![t] = "exited"] /\ shutdown
         \/ pc[t] = "test" /\ pc' = [pc EXCEPT ![t] = "lock"]
         \/ pc[t] = "lock" /\ pc' = [pc EXCEPT ![t] = "wait"] /\ Empty
         \/ pc[t] = "wait" /\ pc' = [pc EXCEPT ![t] = "lock"]
         \/ pc[t] = "lock" /\ pc' = [pc EXCEPT ![t] = "exited"] /\ shutdown
  BY DEF Test, Wait, WakeSpuriously, Stop, MustWait, Thread, poolVars
<1>2. TypeOK'
  BY <1>1
<1>3. LengthCounted' /\ OldestFirst' /\ DrainsAlone' /\ DrainInv'
  BY <1>1 DEF LengthCounted, OldestFirst, InPlace, Handled, DrainsAlone, DrainInv, Empty
<1>4. LifeInv' /\ HoldInv'
  BY <1>1 DEF LifeInv, HoldInv
<1>5. SomeoneAwake'
  <2>1. CASE Empty
    BY <1>1, <2>1 DEF SomeoneAwake, LengthCounted, Empty
  <2>2. CASE ~Empty
    BY <1>1, <2>2 DEF SomeoneAwake, LifeInv
  <2>. QED
    BY <2>1, <2>2
<1>. QED
  BY <1>2, <1>3, <1>4, <1>5

(* A thread takes the oldest task of the queue (run_in_thread).            *)
LEMMA TakePreserves == ASSUME NEW t \in Threads, IInv, Take(t) PROVE IInv'
<1> USE DEF IInv, TypeOK
<1>1. /\ ~shutdown /\ queueLen # 0
      /\ pc[t] = "lock" /\ pc' = [pc EXCEPT ![t] = "handle"]
      /\ task' = [task EXCEPT ![t] = Head(queue)]
      /\ queue' = Tail(queue) /\ queueLen' = queueLen - 1
      /\ UNCHANGED <<life, shutdown, added, done, undefined>>
  BY DEF Take, MayTake, MustWait, Empty, Thread
<1>2. life \in {"starting", "running"}
  BY <1>1 DEF LifeInv
<1>3. InPlace /\ queueLen = Len(queue) /\ queue # <<>>
  BY <1>1, <1>2 DEF OldestFirst, LengthCounted
<1> DEFINE low == added - Len(queue)
<1>4. low \in Nat
  BY <1>3, LowNatural
<1>5. /\ Head(queue) = low + 1 /\ Head(queue) \in Tasks
      /\ Tail(queue) \in Seq(Tasks)
      /\ Len(Tail(queue)) = Len(queue) - 1
      /\ Tail(queue) = [i \in 1 .. Len(Tail(queue)) |-> (low + 1) + i]
  <2>1. queue = [i \in 1 .. Len(queue) |-> low + i]
    BY <1>3 DEF InPlace
  <2>2. Head(queue) \in Tasks
    BY <1>3
  <2>3. queue \in Seq(Tasks) /\ queue # <<>>
    BY <1>1, <1>3
  <2> HIDE DEF low
  <2>4. Head(queue) = low + 1
    BY <1>4, <2>1, <2>3, TailNext
  <2>5. Tail(queue) \in Seq(Tasks) /\ Len(Tail(queue)) = Len(queue) - 1
    BY <2>3
  <2>6. Tail(queue) = [i \in 1 .. Len(Tail(queue)) |-> (low + 1) + i]
    BY <1>4, <2>1, <2>3, TailNext
  <2>. QED
    BY <2>2, <2>4, <2>5, <2>6
<1>6. added' - Len(queue') = low + 1
  BY <1>1, <1>5
<1> HIDE DEF low
<1>7. TypeOK'
  <2>1. queueLen' \in 0 .. QueueSize
    BY <1>1, ConstAssumption
  <2>2. /\ pc' \in [Threads -> {"unborn", "test", "lock", "wait", "handle", "exited"}]
        /\ task' \in [Threads -> Tasks \cup {NoTask}]
    BY <1>1, <1>5
  <2>. QED
    BY <1>1, <1>5, <2>1, <2>2
<1>8. InPlace'
  <2>1. task[t] = NoTask
    BY <1>1 DEF HoldInv
  <2>2. Handled' = Handled \cup {low + 1}
    <3>1. /\ task' \in [Threads -> Tasks \cup {NoTask}]
          /\ task'[t] = low + 1 /\ low + 1 # NoTask
          /\ \A u \in Threads \ {t} : task'[u] = task[u]
      BY <1>1, <1>4, <1>5 DEF NoTask
    <3>. QED
      BY <2>1, <3>1 DEF Handled
  <2>3. Handled \cup done = 1 .. low
    BY <1>3 DEF InPlace, low
  <2>4. Handled' \cup done' = 1 .. low + 1
    BY <1>1, <1>4, <2>2, <2>3
  <2>5. Handled' \cap done' = {}
    BY <1>1, <1>3, <1>4, <2>2, <2>3 DEF InPlace
  <2>6. \A u \in Threads : task[u] # low + 1
    <3>1. low + 1 # 0 /\ low + 1 \notin 1 .. low
      BY <1>4
    <3>. QED
      BY <2>3, <3>1 DEF Handled, NoTask
  <2>7. \A u, v \in Threads : task'[u] = task'[v] /\ u # v => task'[u] = NoTask
    BY <1>1, <1>3, <1>5, <2>6 DEF InPlace
  <2>. QED
    BY <1>1, <1>5, <1>6, <2>4, <2>5, <2>7 DEF InPlace
<1>9. LengthCounted' /\ OldestFirst' /\ DrainsAlone' /\ DrainInv'
  BY <1>1, <1>2, <1>3, <1>5, <1>8
     DEF LengthCounted, OldestFirst, DrainsAlone, DrainInv
<1>10. LifeInv' /\ HoldInv'
  BY <1>1, <1>5 DEF LifeInv, HoldInv, NoTask, Tasks
<1>11. SomeoneAwake'
  BY <1>1 DEF SomeoneAwake
<1>. QED
  BY <1>7, <1>9, <1>10, <1>11

(* A handler returns, and its task is done (run_in_thread).                *)
LEMMA HandlePreserves == ASSUME NEW t \in Threads, IInv, Handle(t) PROVE IInv'
<1> USE DEF IInv, TypeOK
<1>1. /\ pc[t] = "handle" /\ pc' = [pc EXCEPT ![t] = "test"]
      /\ done' = done \cup {task[t]}
      /\ task' = [task EXCEPT ![t] = NoTask]
      /\ UNCHANGED <<life, shutdown, queue, queueLen, added, undefined>>
  BY DEF Handle, Thread
<1>2. task[t] \in Tasks /\ task[t] # NoTask
  BY <1>1 DEF HoldInv
<1>3. life \notin {"draining", "gone"}
  BY <1>1 DEF DrainsAlone
<1>4. InPlace
  BY <1>3 DEF OldestFirst
<1>5. TypeOK'
  BY <1>1, <1>2
<1>6. InPlace'
  <2>1. Handled' = Handled \ {task[t]} /\ task[t] \in Handled
    BY <1>1, <1>2, <1>4 DEF Handled, InPlace
  <2>2. Handled' \cup done' = Handled \cup done /\ Handled' \cap done' = {}
    BY <1>1, <1>4, <2>1 DEF InPlace
  <2>3. \A u, v \in Threads : task'[u] = task'[v] /\ u # v => task'[u] = NoTask
    BY <1>1, <1>4 DEF InPlace
  <2>. QED
    BY <1>1, <1>4, <2>2, <2>3 DEF InPlace
<1>7. LengthCounted' /\ OldestFirst' /\ DrainsAlone' /\ DrainInv'
  BY <1>1, <1>3, <1>6 DEF LengthCounted, OldestFirst, DrainsAlone, DrainInv
<1>8. LifeInv' /\ HoldInv' /\ SomeoneAwake'
  BY <1>1 DEF LifeInv, HoldInv, SomeoneAwake
<1>. QED
  BY <1>5, <1>7, <1>8

-----------------------------------------------------------------------------
(* IInv holds in every state of every behaviour of the pool.               *)
THEOREM IInvHolds == Spec => []IInv
<1>1. IInv /\ [Next]_vars => IInv'
  <2> SUFFICES ASSUME IInv, [Next]_vars PROVE IInv'
    OBVIOUS
  <2>1. CASE Starting \/ ShutDown \/ Destroying
    BY <2>1, OwnerPreserves
  <2>2. CASE AddTask
    BY <2>2, AddPreserves
  <2>3. ASSUME NEW t \in Threads, ThreadStep(t) \/ WakeSpuriously(t) PROVE IInv'
    BY <2>3, ThreadPreserves, TakePreserves, HandlePreserves DEF ThreadStep
  <2>4. CASE UNCHANGED vars
    BY <2>4 DEF vars, IInv, TypeOK, LengthCounted, OldestFirst, InPlace, Handled,
       DrainsAlone, LifeInv, HoldInv, DrainInv, Empty, SomeoneAwake
  <2>. QED
    BY <2>1, <2>2, <2>3, <2>4 DEF Next
<1>. QED
  BY InitIInv, <1>1, PTL DEF Spec

(* The state invariant of the pool: the length kept apart from the queue   *)
(* is its length, every accepted task is in one place and the queue holds  *)
(* the youngest in order, and the destructor empties the queue alone       *)
(* (thread_pool.cpp:38-53,68-76,98,127-133).                               *)
THEOREM PoolInvariant == Spec => []Inv
<1>1. IInv => Inv
  BY DEF IInv, Inv
<1>. QED
  BY IInvHolds, <1>1, PTL

(* No wake-up is lost: while a task is queued in a running pool, a thread  *)
(* is awake and will look for it (thread_pool.cpp:101,116-119).            *)
THEOREM NoLostWakeup == Spec => []SomeoneAwake
<1>1. IInv => SomeoneAwake
  BY DEF IInv
<1>. QED
  BY IInvHolds, <1>1, PTL

(* A thread that tested shutdown before the destructor set it still begins *)
(* no task afterwards (thread_pool.cpp:30-35,109,121-125).                 *)
THEOREM NothingBegunAfterShutdown == Spec => NoTaskBegunAfterShutdown
<1> DEFINE Begun == life = "joining" =>
                        \A t \in Threads : task'[t] \in {task[t], NoTask}
<1>1. IInv /\ [Next]_vars => [Begun]_vars
  <2> SUFFICES ASSUME IInv, Next, life = "joining", NEW u \in Threads
               PROVE  task'[u] \in {task[u], NoTask}
    BY DEF vars
  <2>1. shutdown
    BY DEF IInv, LifeInv
  <2>2. CASE UNCHANGED task
    BY <2>2
  <2>3. ASSUME NEW t \in Threads, Handle(t)
        PROVE  task'[u] \in {task[u], NoTask}
    BY <2>3 DEF Handle, IInv, TypeOK
  <2>. QED
    BY <2>1, <2>2, <2>3 DEF Next, Starting, ClearShutdown, StartThread, ShutDown,
       Destroying, Join, Drain, Destroyed, AddTask, ThreadStep, Test, Wait, Stop,
       Take, MayTake, WakeSpuriously
<1>. QED
  BY IInvHolds, <1>1, PTL DEF Spec, NoTaskBegunAfterShutdown

-----------------------------------------------------------------------------
(* ConnDeque: the inductive invariant.                                     *)

\* How many cells come before the cell s of the block b.
Nth(b, s) == b * BlockSize + s

\* The ends are where the pushes and the pops have brought them, and what
\* the two threads know of them at each step.
EndsInv ==
    /\ pushed = Nth(finish.block, finish.slot)
    /\ popped = Nth(start.block, start.slot)
    /\ mainPc \in {"grow", "allocate"} => LastCell(finish) /\ pushed < MaxConns
    /\ mainPc = "allocate" => EntryFree
    /\ workerPc = "leave" => LastCell(start)
    /\ mainPc = "grow" /\ workerPc = "leave" => overlap

\* The worker takes no more than it was told of.
CountInv ==
    pushed - popped = pipe + (IF workerPc = "loop" THEN 0 ELSE 1)
                           + (IF mainPc = "notify" THEN 1 ELSE 0)

\* The map has the blocks from one end to the other.
MapInv ==
    /\ Entries \in Nat
    /\ finish.at - start.at = finish.block - start.block
    /\ \A i \in 0 .. finish.at - start.at : map[start.at + i] = start.block + i

\* The connections waiting are in their cells, but for one whose block the
\* worker is leaving.
Waits(n) == popped <= n /\ n < pushed /\ (workerPc = "leave" => popped < n)
CellsInv ==
    \A b \in start.block .. finish.block, s \in 0 .. BlockSize - 1 :
        Waits(Nth(b, s)) => /\ <<b, s>> \in DOMAIN cells
                            /\ cells[<<b, s>>] = Nth(b, s) + 1

DequeIInv ==
    /\ DequeTypeOK
    /\ EndsInv
    /\ CountInv
    /\ MapInv
    /\ CellsInv
    /\ workerPc \in {"pop", "leave"} => taken = popped + 1
    /\ OverlapOnlyBehind

-----------------------------------------------------------------------------
(* Counting cells.                                                         *)

Slots == 0 .. BlockSize - 1

LEMMA NextBlock ==
    ASSUME NEW b \in Nat, NEW c \in Nat, b < c
    PROVE  b * BlockSize + BlockSize <= c * BlockSize
<1> DEFINE d == c - b - 1
<1>1. BlockSize \in Nat /\ d \in Nat /\ c = b + 1 + d
  BY DequeAssumption
<1> HIDE DEF d
<1>2. c * BlockSize = b * BlockSize + BlockSize + d * BlockSize
  BY <1>1
<1>3. d * BlockSize \in Nat /\ b * BlockSize \in Nat
  BY <1>1
<1>. QED
  BY <1>1, <1>2, <1>3

LEMMA NthFacts ==
    ASSUME NEW b \in Nat, NEW s \in Slots
    PROVE  /\ Nth(b, s) \in Nat
           /\ s + 1 \in Slots => Nth(b, s + 1) = Nth(b, s) + 1
           /\ s = BlockSize - 1 => Nth(b + 1, 0) = Nth(b, s) + 1
<1>1. BlockSize \in Nat /\ BlockSize > 0 /\ b * BlockSize \in Nat
  BY DequeAssumption
<1>2. (b + 1) * BlockSize = b * BlockSize + BlockSize
  BY <1>1
<1>. QED
  BY <1>1, <1>2 DEF Nth, Slots

\* Cells are numbered block by block.
LEMMA NthOrder ==
    ASSUME NEW b \in Nat, NEW c \in Nat, NEW s \in Slots, NEW t \in Slots
    PROVE  /\ b < c => Nth(b, s) < Nth(c, t)
           /\ b < c /\ s = t => Nth(b, s) + BlockSize <= Nth(c, t)
           /\ b = c => Nth(b, s) - Nth(c, t) = s - t
<1>1. BlockSize \in Nat /\ b * BlockSize \in Nat /\ c * BlockSize \in Nat
  BY DequeAssumption
<1>2. CASE b < c
  <2>1. b * BlockSize + BlockSize <= c * BlockSize
    BY <1>2, NextBlock
  <2>. QED
    BY <1>1, <1>2, <2>1 DEF Nth, Slots
<1>3. CASE b = c
  BY <1>1, <1>3 DEF Nth, Slots
<1>. QED
  BY <1>2, <1>3

\* No two cells have one number.
LEMMA NthInjective ==
    ASSUME NEW b \in Nat, NEW c \in Nat, NEW s \in Slots, NEW t \in Slots,
           Nth(b, s) = Nth(c, t)
    PROVE  b = c /\ s = t
<1>1. ~(b < c) /\ ~(c < b)
  <2>1. b < c => Nth(b, s) < Nth(c, t)
    BY NthOrder
  <2>2. c < b => Nth(c, t) < Nth(b, s)
    BY NthOrder
  <2>3. Nth(b, s) \in Nat
    BY NthFacts
  <2>. QED
    BY <2>1, <2>2, <2>3
<1>2. b = c
  BY <1>1
<1>3. Nth(b, s) - Nth(c, t) = s - t
  BY <1>2, NthOrder
<1>4. Nth(b, s) \in Nat /\ s \in Int /\ t \in Int
  BY NthFacts, DequeAssumption DEF Slots
<1>. QED
  BY <1>2, <1>3, <1>4

-----------------------------------------------------------------------------
(* What the invariant says of the types, in the terms the proofs use.      *)
LEMMA DequeFacts ==
    DequeIInv => /\ BlockSize \in Nat /\ BlockSize > 0
            /\ pushed \in Nat /\ popped \in Nat /\ popped <= pushed
            /\ start \in End /\ finish \in End
            /\ start.at \in Nat /\ start.block \in Nat /\ start.slot \in Slots
            /\ finish.at \in Nat /\ finish.block \in Nat /\ finish.slot \in Slots
            /\ Entries \in Nat /\ finish.at < Entries
            /\ start.block <= finish.block /\ start.at <= finish.at
<1> SUFFICES ASSUME DequeIInv
             PROVE  DequeFacts!2
  OBVIOUS
<1>1. /\ BlockSize \in Nat /\ BlockSize > 0
      /\ pushed \in Nat /\ popped \in Nat /\ popped <= pushed
      /\ start \in End /\ finish \in End /\ finish.at < Entries
  BY DequeAssumption DEF DequeIInv, DequeTypeOK
<1>2. /\ start.at \in Nat /\ start.block \in Nat /\ start.slot \in Slots
      /\ finish.at \in Nat /\ finish.block \in Nat /\ finish.slot \in Slots
  BY <1>1 DEF End, Slots
<1>3. Entries \in Nat
  BY DEF DequeIInv, MapInv
<1>4. start.block <= finish.block
  <2>1. finish.block < start.block =>
            Nth(finish.block, finish.slot) < Nth(start.block, start.slot)
    BY <1>2, NthOrder
  <2>. QED
    BY <1>1, <1>2, <2>1 DEF DequeIInv, EndsInv
<1>5. start.at <= finish.at
  BY <1>2, <1>4 DEF DequeIInv, MapInv
<1>. QED
  BY <1>1, <1>2, <1>3, <1>4, <1>5


\* Before the worker leaves a block there is another one in the queue.
LEMMA AnotherBlock ==
    DequeIInv /\ workerPc # "loop" =>
        /\ popped < pushed
        /\ LastCell(start) => start.block < finish.block
<1> SUFFICES ASSUME DequeIInv, workerPc # "loop"
             PROVE  AnotherBlock!2
  OBVIOUS
<1>1. popped < pushed
  BY DequeFacts DEF DequeIInv, CountInv, DequeTypeOK
<1>2. ASSUME LastCell(start), ~(start.block < finish.block) PROVE FALSE
  <2>1. start.block = finish.block
    BY <1>2, DequeFacts
  <2>2. finish.slot - start.slot = pushed - popped
    BY <2>1, DequeFacts, NthOrder DEF DequeIInv, EndsInv
  <2>. QED
    BY <1>1, <1>2, <2>2, DequeFacts DEF LastCell, Slots
<1>. QED
  BY <1>1, <1>2

\* With the last cell of a block at both ends a block's worth waits.
LEMMA BlockBehind ==
    DequeIInv /\ workerPc # "loop" /\ LastCell(start) /\ LastCell(finish) =>
        pushed - popped >= BlockSize
<1> SUFFICES ASSUME DequeIInv, workerPc # "loop", LastCell(start), LastCell(finish)
             PROVE  pushed - popped >= BlockSize
  OBVIOUS
<1>1. start.block < finish.block
  BY AnotherBlock
<1>2. Nth(start.block, start.slot) + BlockSize <= Nth(finish.block, finish.slot)
  <2>1. start.slot = finish.slot
    BY DEF LastCell
  <2>. QED
    BY <1>1, <2>1, DequeFacts, NthOrder
<1>. QED
  BY <1>2, DequeFacts DEF DequeIInv, EndsInv

-----------------------------------------------------------------------------
(* The map of a new queue has as many entries as the library gives it.     *)
LEMMA DequeInitIInv == DequeInit => DequeIInv
<1> SUFFICES ASSUME DequeInit PROVE DequeIInv
  OBVIOUS
<1>1. BlockSize \in Nat /\ BlockSize > 0 /\ MapSize \in Nat /\ MapSize > 2
      /\ PipeSize \in Nat /\ MaxConns \in Nat
  BY DequeAssumption
<1>2. FirstEntry \in 0 .. MapSize - 1
  BY <1>1 DEF FirstEntry
<1>3. Entries = MapSize
  <2>1. DOMAIN map = 0 .. MapSize - 1
    BY DEF DequeInit
  <2>2. Cardinality(0 .. MapSize - 1) = MapSize
    BY <1>1, FS_Interval
  <2>. QED
    BY <2>1, <2>2 DEF Entries
<1>4. /\ start \in End /\ finish \in End
      /\ start.at = FirstEntry /\ start.block = 0 /\ start.slot = 0
      /\ finish.at = FirstEntry /\ finish.block = 0 /\ finish.slot = 0
  BY <1>1, <1>2 DEF DequeInit, End
<1>5. DequeTypeOK
  <2>1. map \in [0 .. Entries - 1 -> Nat \cup {NoBlock}]
    BY <1>3 DEF DequeInit
  <2>2. cells \in [DOMAIN cells -> Conns]
    BY DEF DequeInit
  <2>3. /\ pushed \in 0 .. MaxConns /\ popped \in 0 .. pushed
        /\ pipe \in 0 .. PipeSize /\ taken \in Conns \cup {0}
        /\ finish.at < Entries
    BY <1>1, <1>2, <1>3, <1>4 DEF DequeInit
  <2>4. /\ mainPc = "loop" /\ workerPc = "loop" /\ overlap = FALSE
    BY DEF DequeInit
  <2>. QED
    BY <1>4, <2>1, <2>2, <2>3, <2>4 DEF DequeTypeOK
<1>6. Nth(0, 0) = 0
  BY <1>1 DEF Nth
<1>7. EndsInv /\ CountInv
  BY <1>4, <1>6 DEF DequeInit, EndsInv, CountInv
<1>8. MapInv
  BY <1>1, <1>2, <1>3, <1>4 DEF DequeInit, MapInv
<1>9. CellsInv
  BY <1>1, <1>4, NthFacts DEF DequeInit, CellsInv, Waits, Slots
<1>. QED
  BY <1>5, <1>7, <1>8, <1>9 DEF DequeIInv, DequeInit, OverlapOnlyBehind

-----------------------------------------------------------------------------
(* The main thread.                                                        *)

\* A push writes the cell behind the last and disturbs no other.
LEMMA StoreKeepsCells ==
    ASSUME DequeIInv, Store, pushed < MaxConns, UNCHANGED <<popped, workerPc, start>>,
           \/ finish'.block = finish.block
           \/ finish'.block = finish.block + 1 /\ LastCell(finish)
    PROVE  CellsInv' /\ cells' \in [DOMAIN cells' -> Conns]
<1>1. /\ pushed' = pushed + 1
      /\ DOMAIN cells' = DOMAIN cells \cup {Cell(finish)}
      /\ cells'[Cell(finish)] = pushed + 1
      /\ \A x \in DOMAIN cells : x # Cell(finish) => cells'[x] = cells[x]
  BY DEF Store
<1>2. cells' \in [DOMAIN cells' -> Conns]
  <2>1. pushed + 1 \in Conns
    BY DequeFacts, DequeAssumption DEF Conns
  <2>2. cells \in [DOMAIN cells -> Conns]
    BY DEF DequeIInv, DequeTypeOK
  <2>. QED
    BY <2>1, <2>2 DEF Store
<1>3. ASSUME NEW b \in start'.block .. finish'.block, NEW s \in 0 .. BlockSize - 1,
             Waits(Nth(b, s))'
      PROVE  <<b, s>> \in DOMAIN cells' /\ cells'[<<b, s>>] = Nth(b, s) + 1
  <2>1. b \in Nat /\ s \in Slots /\ Nth(b, s) \in Nat
    BY DequeFacts, NthFacts DEF Slots
  <2>2. Nth(b, s) <= pushed
    BY <1>1, <1>3, <2>1, DequeFacts DEF Waits
  <2>3. CASE Nth(b, s) = pushed
    <3>1. b = finish.block /\ s = finish.slot
      <4>1. Nth(b, s) = Nth(finish.block, finish.slot)
        BY <2>3 DEF DequeIInv, EndsInv
      <4>2. finish.block \in Nat /\ finish.slot \in Slots
        BY DequeFacts
      <4>. QED
        BY <2>1, <4>1, <4>2, NthInjective
    <3>. QED
      BY <1>1, <2>3, <3>1 DEF Cell
  <2>4. CASE Nth(b, s) < pushed
    <3>1. b \in start.block .. finish.block
      <4>1. CASE b = finish.block + 1
        <5>1. Nth(finish.block, finish.slot) < Nth(b, s)
          <6>1. finish.block \in Nat /\ finish.slot \in Slots /\ finish.block < b
            BY <4>1, DequeFacts
          <6>. QED
            BY <2>1, <6>1, NthOrder
        <5>. QED
          BY <2>1, <2>4, <5>1, DequeFacts DEF DequeIInv, EndsInv
      <4>. QED
        BY <4>1, DequeFacts
    <3>2. Waits(Nth(b, s))
      BY <1>3, <2>4 DEF Waits
    <3>3. <<b, s>> \in DOMAIN cells /\ cells[<<b, s>>] = Nth(b, s) + 1
      BY <3>1, <3>2 DEF DequeIInv, CellsInv
    <3>4. <<b, s>> # Cell(finish)
      BY <2>4, DequeFacts DEF Cell, DequeIInv, EndsInv
    <3>. QED
      BY <1>1, <3>3, <3>4
  <2>. QED
    BY <2>1, <2>2, <2>3, <2>4, DequeFacts
<1>. QED
  BY <1>2, <1>3 DEF CellsInv

LEMMA PushConnPreserves == DequeIInv /\ PushConn => DequeIInv'
<1> SUFFICES ASSUME DequeIInv, PushConn PROVE DequeIInv'
  OBVIOUS
<1>1. /\ ~overlap /\ mainPc = "loop" /\ mainPc' = "notify"
      /\ pushed < MaxConns /\ pushed' = pushed + 1 /\ ~LastCell(finish)
      /\ finish' = [finish EXCEPT !.slot = @ + 1]
      /\ UNCHANGED <<pipe, map, start, overlap, workerPc, popped, taken>>
  BY DEF PushConn, Main, Store, workerVars
<1>2. /\ finish' \in End /\ finish'.at = finish.at
      /\ finish'.block = finish.block /\ finish'.slot = finish.slot + 1
      /\ finish.slot + 1 \in Slots
  BY <1>1, DequeFacts DEF End, LastCell, Slots
<1>3. Entries' = Entries
  BY <1>1 DEF Entries
<1>4. CellsInv' /\ cells' \in [DOMAIN cells' -> Conns]
  BY <1>1, <1>2, StoreKeepsCells DEF PushConn
<1>5. DequeTypeOK'
  <2>1. pushed' \in 0 .. MaxConns /\ popped' \in 0 .. pushed'
    BY <1>1, DequeFacts, DequeAssumption
  <2>. QED
    BY <1>1, <1>2, <1>3, <1>4, <2>1 DEF DequeIInv, DequeTypeOK
<1>6. EndsInv'
  <2>1. pushed' = Nth(finish'.block, finish'.slot)
    BY <1>1, <1>2, DequeFacts, NthFacts DEF DequeIInv, EndsInv
  <2>. QED
    BY <1>1, <2>1 DEF DequeIInv, EndsInv, LastCell
<1>7. CountInv' /\ MapInv' /\ OverlapOnlyBehind'
  BY <1>1, <1>2, <1>3, DequeFacts DEF DequeIInv, CountInv, MapInv, OverlapOnlyBehind, DequeTypeOK
<1>. QED
  BY <1>1, <1>4, <1>5, <1>6, <1>7 DEF DequeIInv

LEMMA PushAllocatesPreserves == DequeIInv /\ PushAllocates => DequeIInv'
<1> SUFFICES ASSUME DequeIInv, PushAllocates PROVE DequeIInv'
  OBVIOUS
<1>1. /\ ~overlap /\ mainPc \in {"loop", "allocate"} /\ mainPc' = "notify"
      /\ pushed < MaxConns /\ pushed' = pushed + 1
      /\ LastCell(finish) /\ EntryFree
      /\ map' = [map EXCEPT ![finish.at + 1] = finish.block + 1]
      /\ finish' = [at |-> finish.at + 1, block |-> finish.block + 1, slot |-> 0]
      /\ UNCHANGED <<pipe, start, overlap, workerPc, popped, taken>>
  BY DEF PushAllocates, Main, Store, workerVars, DequeIInv, EndsInv
<1>2. /\ finish' \in End /\ finish'.at = finish.at + 1
      /\ finish'.block = finish.block + 1 /\ finish'.slot = 0
  BY <1>1, DequeFacts DEF End
<1>3. /\ finish.at + 1 \in 0 .. Entries - 1
      /\ map \in [0 .. Entries - 1 -> Nat \cup {NoBlock}]
  <2>1. finish.at + 2 <= Entries /\ finish.at \in Nat /\ Entries \in Nat
    BY <1>1, DequeFacts DEF EntryFree
  <2>. QED
    BY <2>1 DEF DequeIInv, DequeTypeOK
<1>4. Entries' = Entries
  BY <1>1, <1>3 DEF Entries
<1>5. CellsInv' /\ cells' \in [DOMAIN cells' -> Conns]
  BY <1>1, <1>2, StoreKeepsCells DEF PushAllocates
<1>6. DequeTypeOK'
  <2>1. map' \in [0 .. Entries' - 1 -> Nat \cup {NoBlock}]
    BY <1>1, <1>3, <1>4, DequeFacts
  <2>2. finish'.at < Entries'
    BY <1>2, <1>3, <1>4, DequeFacts
  <2>3. /\ pushed' \in 0 .. MaxConns /\ popped' \in 0 .. pushed'
    BY <1>1, DequeFacts, DequeAssumption
  <2>. QED
    BY <1>1, <1>2, <1>5, <2>1, <2>2, <2>3 DEF DequeIInv, DequeTypeOK
<1>7. EndsInv'
  <2>1. pushed' = Nth(finish'.block, finish'.slot)
    BY <1>1, <1>2, DequeFacts, NthFacts DEF DequeIInv, EndsInv, LastCell
  <2>. QED
    BY <1>1, <2>1 DEF DequeIInv, EndsInv, LastCell
<1>8. MapInv'
  <2>1. finish'.at - start'.at = finish'.block - start'.block
    BY <1>1, <1>2, DequeFacts DEF DequeIInv, MapInv
  <2>2. ASSUME NEW i \in 0 .. finish'.at - start'.at
        PROVE  map'[start'.at + i] = start'.block + i
    <3>1. CASE i = finish'.at - start'.at
      <4>1. start'.at + i = finish.at + 1 /\ start'.block + i = finish.block + 1
        BY <1>1, <1>2, <2>1, <3>1, DequeFacts
      <4>2. map'[finish.at + 1] = finish.block + 1
        BY <1>1, <1>3
      <4>. QED
        BY <4>1, <4>2
    <3>2. CASE i \in 0 .. finish.at - start.at
      <4>1. map[start.at + i] = start.block + i
        BY <3>2 DEF DequeIInv, MapInv
      <4>2. start.at + i \in 0 .. Entries - 1 /\ start.at + i # finish.at + 1
        BY <3>2, DequeFacts
      <4>. QED
        BY <1>1, <1>3, <4>1, <4>2
    <3>. QED
      BY <1>1, <1>2, <3>1, <3>2, DequeFacts
  <2>. QED
    BY <1>4, <2>1, <2>2, DequeFacts DEF MapInv
<1>9. CountInv' /\ OverlapOnlyBehind'
  BY <1>1, DequeFacts DEF DequeIInv, CountInv, OverlapOnlyBehind, DequeTypeOK
<1>. QED
  BY <1>1, <1>5, <1>6, <1>7, <1>8, <1>9 DEF DequeIInv

LEMMA PushGrowsPreserves == DequeIInv /\ PushGrows => DequeIInv'
<1> SUFFICES ASSUME DequeIInv, PushGrows PROVE DequeIInv'
  OBVIOUS
<1>1. /\ ~overlap /\ mainPc = "loop" /\ mainPc' = "grow" /\ pushed < MaxConns
      /\ LastCell(finish) /\ overlap' = (workerPc = "leave")
      /\ UNCHANGED <<pushed, finish, pipe, cells, map, start, workerPc, popped, taken>>
  BY DEF PushGrows, Main, workerVars
<1>2. Entries' = Entries
  BY <1>1 DEF Entries
<1>3. OverlapOnlyBehind'
  BY <1>1, BlockBehind DEF DequeIInv, EndsInv, OverlapOnlyBehind
<1>4. DequeTypeOK'
  BY <1>1, <1>2 DEF DequeIInv, DequeTypeOK
<1>5. EndsInv' /\ CountInv' /\ MapInv' /\ CellsInv'
  BY <1>1, <1>2 DEF DequeIInv, EndsInv, LastCell, CountInv, MapInv, CellsInv, Waits
<1>. QED
  BY <1>1, <1>3, <1>4, <1>5 DEF DequeIInv

\* The entries move to where there is a place behind them, in the map or in
\* a larger one, and both ends move with their entries.
LEMMA MovePreserves == DequeIInv /\ MoveEntries => DequeIInv'
<1> SUFFICES ASSUME DequeIInv, MoveEntries PROVE DequeIInv'
  OBVIOUS
<1> DEFINE used   == finish.at - start.at + 1
           needed == used + 1
           size   == IF Entries > 2 * needed THEN Entries ELSE 2 * Entries + 2
           first  == (size - needed) \div 2
<1>1. /\ ~overlap /\ mainPc = "grow" /\ mainPc' = "allocate"
      /\ map' = [i \in 0 .. size - 1 |->
                    IF i \in first .. first + used - 1
                    THEN map[start.at + i - first] ELSE NoBlock]
      /\ start' = [start EXCEPT !.at = first]
      /\ finish' = [finish EXCEPT !.at = first + used - 1]
      /\ UNCHANGED <<pushed, pipe, cells, overlap, workerPc, popped, taken>>
  BY DEF MoveEntries, Grow, Main, workerVars
<1>2. /\ used \in Nat /\ used >= 1 /\ size \in Nat
      /\ first \in Nat /\ first + used + 1 <= size
  <2>1. used \in Nat /\ used >= 1 /\ used <= Entries
    BY DequeFacts
  <2>2. size \in Nat /\ needed <= size /\ Entries \in Nat
    BY <2>1, DequeFacts
  <2> HIDE DEF used, size
  <2>. QED
    BY <2>1, <2>2
<1>3. /\ start.at + used = finish.at + 1
      /\ map \in [0 .. Entries - 1 -> Nat \cup {NoBlock}]
  BY DequeFacts DEF DequeIInv, DequeTypeOK
<1> HIDE DEF used, needed, size, first
<1>4. /\ start' \in End /\ start'.at = first
      /\ start'.block = start.block /\ start'.slot = start.slot
      /\ finish' \in End /\ finish'.at = first + used - 1
      /\ finish'.block = finish.block /\ finish'.slot = finish.slot
  <2>1. first \in Nat /\ first + used - 1 \in Nat
    BY <1>2
  <2>2. start \in End /\ finish \in End
    BY DequeFacts
  <2>. QED
    BY <1>1, <2>1, <2>2 DEF End
<1>5. Entries' = size
  <2>1. DOMAIN map' = 0 .. size - 1
    BY <1>1
  <2>2. Cardinality(0 .. size - 1) = size
    BY <1>2, FS_Interval
  <2>. QED
    BY <2>1, <2>2 DEF Entries
<1>6. DequeTypeOK'
  <2>1. map' \in [0 .. size - 1 -> Nat \cup {NoBlock}]
    <3>1. ASSUME NEW i \in first .. first + used - 1
          PROVE  map[start.at + i - first] \in Nat \cup {NoBlock}
      <4>1. start.at + i - first \in 0 .. Entries - 1
        BY <1>2, <1>3, DequeFacts
      <4>. QED
        BY <1>3, <4>1
    <3>. QED
      BY <1>1, <3>1
  <2>2. finish'.at < Entries'
    BY <1>2, <1>4, <1>5
  <2>. QED
    BY <1>1, <1>4, <1>5, <2>1, <2>2 DEF DequeIInv, DequeTypeOK
<1>7. EndsInv'
  <2>1. EntryFree'
    BY <1>2, <1>4, <1>5 DEF EntryFree
  <2>. QED
    BY <1>1, <1>4, <2>1 DEF DequeIInv, EndsInv, LastCell
<1>8. MapInv'
  <2>1. finish'.at - start'.at = finish.at - start.at
    <3>1. first \in Int /\ used \in Int /\ start.at \in Int /\ finish.at \in Int
          /\ used = finish.at - start.at + 1
      BY <1>2, <1>3, DequeFacts
    <3>2. start'.at = first /\ finish'.at = first + used - 1
      BY <1>4
    <3>. QED
      BY <3>1, <3>2
  <2>2. ASSUME NEW i \in 0 .. finish'.at - start'.at
        PROVE  map'[start'.at + i] = start'.block + i
    <3>1. /\ first + i \in first .. first + used - 1
          /\ first + i \in 0 .. size - 1
          /\ start.at + (first + i) - first = start.at + i
      BY <1>2, <1>3, <2>1, DequeFacts
    <3>2. map'[first + i] = map[start.at + i]
      BY <1>1, <3>1
    <3>3. map[start.at + i] = start.block + i
      BY <2>1 DEF DequeIInv, MapInv
    <3>. QED
      BY <1>4, <3>2, <3>3
  <2>. QED
    BY <1>2, <1>4, <1>5, <2>1, <2>2 DEF DequeIInv, MapInv
<1>9. CountInv' /\ CellsInv' /\ OverlapOnlyBehind'
  BY <1>1, <1>4 DEF DequeIInv, CountInv, CellsInv, Waits, OverlapOnlyBehind
<1>. QED
  BY <1>1, <1>6, <1>7, <1>8, <1>9 DEF DequeIInv

\* The byte in the pipe tells the worker of one more connection.
LEMMA NotifyWorkerPreserves == DequeIInv /\ NotifyWorker => DequeIInv'
<1> SUFFICES ASSUME DequeIInv, NotifyWorker PROVE DequeIInv'
  OBVIOUS
<1>1. /\ mainPc = "notify" /\ mainPc' = "loop"
      /\ pipe < PipeSize /\ pipe' = pipe + 1
      /\ UNCHANGED <<pushed, finish, cells, map, start, overlap, workerPc, popped, taken>>
  BY DEF NotifyWorker, Main, workerVars
<1>2. Entries' = Entries
  BY <1>1 DEF Entries
<1>3. DequeTypeOK' /\ CountInv'
  BY <1>1, <1>2, DequeAssumption DEF DequeIInv, DequeTypeOK, CountInv
<1>4. EndsInv' /\ MapInv' /\ CellsInv' /\ OverlapOnlyBehind'
  BY <1>1, <1>2
     DEF DequeIInv, EndsInv, LastCell, MapInv, CellsInv, Waits, OverlapOnlyBehind
<1>. QED
  BY <1>1, <1>3, <1>4 DEF DequeIInv

-----------------------------------------------------------------------------
(* The worker.                                                             *)

LEMMA ReadNotifyPreserves == DequeIInv /\ ReadNotify => DequeIInv'
<1> SUFFICES ASSUME DequeIInv, ReadNotify PROVE DequeIInv'
  OBVIOUS
<1>1. /\ workerPc = "loop" /\ workerPc' = "front"
      /\ pipe > 0 /\ pipe' = pipe - 1
      /\ UNCHANGED <<pushed, mainPc, finish, popped, taken, cells, map, start, overlap>>
  BY DEF ReadNotify, ReadByte, Worker, mainVars
<1>2. Entries' = Entries
  BY <1>1 DEF Entries
<1>3. DequeTypeOK' /\ CountInv'
  BY <1>1, <1>2, DequeAssumption DEF DequeIInv, DequeTypeOK, CountInv
<1>4. EndsInv' /\ MapInv' /\ CellsInv' /\ OverlapOnlyBehind'
  BY <1>1, <1>2
     DEF DequeIInv, EndsInv, LastCell, EntryFree, MapInv, CellsInv, Waits, OverlapOnlyBehind
<1>. QED
  BY <1>1, <1>3, <1>4 DEF DequeIInv

\* While a connection waits and no block is being left, the cell at the
\* front holds it.
LEMMA FrontCell ==
    DequeIInv /\ workerPc # "leave" /\ popped < pushed =>
        Cell(start) \in DOMAIN cells /\ cells[Cell(start)] = popped + 1
<1> SUFFICES ASSUME DequeIInv, workerPc # "leave", popped < pushed
             PROVE  Cell(start) \in DOMAIN cells /\ cells[Cell(start)] = popped + 1
  OBVIOUS
<1>1. start.block \in start.block .. finish.block /\ start.slot \in 0 .. BlockSize - 1
  BY DequeFacts DEF Slots
<1>2. Nth(start.block, start.slot) = popped /\ Waits(popped)
  BY DequeFacts DEF DequeIInv, EndsInv, Waits
<1>. QED
  BY <1>1, <1>2 DEF DequeIInv, CellsInv, Cell

LEMMA FrontPreserves == DequeIInv /\ Front => DequeIInv'
<1> SUFFICES ASSUME DequeIInv, Front PROVE DequeIInv'
  OBVIOUS
<1>1. /\ workerPc = "front" /\ workerPc' = "pop"
      /\ taken' = IF Cell(start) \in DOMAIN cells THEN cells[Cell(start)] ELSE 0
      /\ UNCHANGED <<pushed, mainPc, finish, popped, pipe, cells, map, start, overlap>>
  BY DEF Front, Worker, mainVars
<1>2. Entries' = Entries
  BY <1>1 DEF Entries
<1>3. taken' = popped + 1 /\ taken' \in Conns
  <2>1. popped < pushed /\ pushed <= MaxConns
    BY <1>1, AnotherBlock DEF DequeIInv, DequeTypeOK
  <2>. QED
    BY <1>1, <2>1, FrontCell, DequeFacts, DequeAssumption DEF Conns
<1>4. DequeTypeOK' /\ CountInv'
  BY <1>1, <1>2, <1>3 DEF DequeIInv, DequeTypeOK, CountInv
<1>5. EndsInv' /\ MapInv' /\ CellsInv' /\ OverlapOnlyBehind'
  BY <1>1, <1>2
     DEF DequeIInv, EndsInv, LastCell, EntryFree, MapInv, CellsInv, Waits, OverlapOnlyBehind
<1>. QED
  BY <1>1, <1>3, <1>4, <1>5 DEF DequeIInv

LEMMA PopPreserves == DequeIInv /\ Pop => DequeIInv'
<1> SUFFICES ASSUME DequeIInv, Pop PROVE DequeIInv'
  OBVIOUS
<1>1. /\ workerPc = "pop" /\ workerPc' = "loop" /\ ~LastCell(start)
      /\ start' = [start EXCEPT !.slot = @ + 1]
      /\ popped' = popped + 1 /\ ~overlap
      /\ UNCHANGED <<pushed, mainPc, finish, taken, pipe, cells, map, overlap>>
  BY DEF Pop, Worker, mainVars
<1>2. /\ start' \in End /\ start'.at = start.at
      /\ start'.block = start.block /\ start'.slot = start.slot + 1
      /\ start.slot + 1 \in Slots
  BY <1>1, DequeFacts DEF End, LastCell, Slots
<1>3. Entries' = Entries
  BY <1>1 DEF Entries
<1>4. popped < pushed
  BY <1>1, AnotherBlock
<1>5. DequeTypeOK'
  <2>1. popped' \in 0 .. pushed'
    BY <1>1, <1>4, DequeFacts
  <2>. QED
    BY <1>1, <1>2, <1>3, <2>1 DEF DequeIInv, DequeTypeOK
<1>6. EndsInv'
  <2>1. popped' = Nth(start'.block, start'.slot)
    BY <1>1, <1>2, DequeFacts, NthFacts DEF DequeIInv, EndsInv
  <2>. QED
    BY <1>1, <1>3, <2>1 DEF DequeIInv, EndsInv, LastCell, EntryFree
<1>7. CellsInv'
  <2>1. ASSUME NEW b \in start.block .. finish.block, NEW s \in 0 .. BlockSize - 1,
               Waits(Nth(b, s))'
        PROVE  Waits(Nth(b, s))
    <3>1. Nth(b, s) \in Nat
      BY DequeFacts, NthFacts DEF Slots
    <3>. QED
      BY <1>1, <2>1, <3>1, DequeFacts DEF Waits
  <2>. QED
    BY <1>1, <1>2, <2>1 DEF DequeIInv, CellsInv
<1>8. CountInv' /\ MapInv' /\ OverlapOnlyBehind'
  BY <1>1, <1>2, <1>3, DequeFacts DEF DequeIInv, CountInv, MapInv, OverlapOnlyBehind, DequeTypeOK
<1>. QED
  BY <1>1, <1>5, <1>6, <1>7, <1>8 DEF DequeIInv

\* The block that is left holds one connection of those waiting: the front.
LEMMA PopLeavesPreserves == DequeIInv /\ PopLeaves => DequeIInv'
<1> SUFFICES ASSUME DequeIInv, PopLeaves PROVE DequeIInv'
  OBVIOUS
<1>1. /\ workerPc = "pop" /\ workerPc' = "leave" /\ LastCell(start)
      /\ cells' = [x \in {x \in DOMAIN cells : x[1] # start.block} |-> cells[x]]
      /\ overlap' = (mainPc = "grow")
      /\ UNCHANGED <<pushed, mainPc, finish, popped, taken, pipe, map, start>>
  BY DEF PopLeaves, Worker, mainVars, Restrict
<1>2. Entries' = Entries
  BY <1>1 DEF Entries
<1>3. OverlapOnlyBehind'
  BY <1>1, BlockBehind DEF DequeIInv, EndsInv, OverlapOnlyBehind
<1>4. DequeTypeOK'
  <2>1. cells' \in [DOMAIN cells' -> Conns]
    BY <1>1 DEF DequeIInv, DequeTypeOK
  <2>. QED
    BY <1>1, <1>2, <2>1 DEF DequeIInv, DequeTypeOK
<1>5. EndsInv' /\ CountInv' /\ MapInv'
  BY <1>1, <1>2 DEF DequeIInv, EndsInv, LastCell, EntryFree, CountInv, MapInv
<1>6. CellsInv'
  <2>1. ASSUME NEW b \in start.block .. finish.block, NEW s \in 0 .. BlockSize - 1,
               Waits(Nth(b, s))'
        PROVE  <<b, s>> \in DOMAIN cells' /\ cells'[<<b, s>>] = Nth(b, s) + 1
    <3>1. b \in Nat /\ s \in Slots /\ Nth(b, s) \in Nat
      BY DequeFacts, NthFacts DEF Slots
    <3>2. popped < Nth(b, s) /\ Waits(Nth(b, s))
      BY <1>1, <2>1, <3>1, DequeFacts DEF Waits
    <3>3. b # start.block
      <4>1. b = start.block => Nth(b, s) - popped = s - start.slot
        <5>1. start.block \in Nat /\ start.slot \in Slots
          BY DequeFacts
        <5>2. b = start.block =>
                  Nth(b, s) - Nth(start.block, start.slot) = s - start.slot
          BY <3>1, <5>1, NthOrder
        <5>. QED
          BY <5>2 DEF DequeIInv, EndsInv
      <4>2. s - start.slot <= 0
        BY <1>1, <3>1, DequeFacts DEF LastCell, Slots
      <4>. QED
        BY <3>1, <3>2, <4>1, <4>2, DequeFacts
    <3>4. <<b, s>> \in DOMAIN cells /\ cells[<<b, s>>] = Nth(b, s) + 1
      BY <3>2 DEF DequeIInv, CellsInv
    <3>. QED
      BY <1>1, <3>3, <3>4
  <2>. QED
    BY <1>1, <2>1 DEF CellsInv
<1>. QED
  BY <1>1, <1>3, <1>4, <1>5, <1>6 DEF DequeIInv

LEMMA LeavePreserves == DequeIInv /\ Leave => DequeIInv'
<1> SUFFICES ASSUME DequeIInv, Leave PROVE DequeIInv'
  OBVIOUS
<1>1. /\ workerPc = "leave" /\ workerPc' = "loop" /\ ~overlap
      /\ start' = [at |-> start.at + 1, block |-> map[start.at + 1], slot |-> 0]
      /\ popped' = popped + 1
      /\ UNCHANGED <<pushed, mainPc, finish, taken, pipe, cells, map, overlap>>
  BY DEF Leave, Worker, mainVars
<1>2. popped < pushed /\ start.block < finish.block /\ LastCell(start)
  BY <1>1, AnotherBlock DEF DequeIInv, EndsInv
<1>3. finish.at - start.at = finish.block - start.block /\ start.at < finish.at
  BY <1>2, DequeFacts DEF DequeIInv, MapInv
<1>4. map[start.at + 1] = start.block + 1
  BY <1>3, DequeFacts DEF DequeIInv, MapInv
<1>5. /\ start' \in End /\ start'.at = start.at + 1
      /\ start'.block = start.block + 1 /\ start'.slot = 0
  BY <1>1, <1>4, DequeFacts DEF End
<1>6. Entries' = Entries
  BY <1>1 DEF Entries
<1>7. DequeTypeOK'
  <2>1. popped' \in 0 .. pushed'
    BY <1>1, <1>2, DequeFacts
  <2>. QED
    BY <1>1, <1>5, <1>6, <2>1 DEF DequeIInv, DequeTypeOK
<1>8. EndsInv'
  <2>1. popped' = Nth(start'.block, start'.slot)
    BY <1>1, <1>2, <1>5, DequeFacts, NthFacts DEF DequeIInv, EndsInv, LastCell
  <2>. QED
    BY <1>1, <1>6, <2>1 DEF DequeIInv, EndsInv, LastCell, EntryFree
<1>9. MapInv'
  <2>1. ASSUME NEW i \in 0 .. finish.at - start'.at
        PROVE  map[start'.at + i] = start'.block + i
    <3>1. i + 1 \in 0 .. finish.at - start.at /\ start'.at + i = start.at + (i + 1)
          /\ start'.block + i = start.block + (i + 1)
      BY <1>5, DequeFacts
    <3>. QED
      BY <3>1 DEF DequeIInv, MapInv
  <2>2. finish.at - start'.at = finish.block - start'.block
    BY <1>3, <1>5, DequeFacts
  <2>. QED
    BY <1>1, <1>6, <2>1, <2>2 DEF DequeIInv, MapInv
<1>10. CellsInv'
  <2>1. ASSUME NEW b \in start'.block .. finish.block, NEW s \in 0 .. BlockSize - 1,
               Waits(Nth(b, s))'
        PROVE  b \in start.block .. finish.block /\ Waits(Nth(b, s))
    <3>1. b \in start.block .. finish.block /\ Nth(b, s) \in Nat
      BY <1>5, DequeFacts, NthFacts DEF Slots
    <3>. QED
      BY <1>1, <2>1, <3>1, DequeFacts DEF Waits
  <2>. QED
    BY <1>1, <2>1 DEF DequeIInv, CellsInv
<1>11. CountInv'
  <2>1. pipe \in Int /\ pushed \in Int /\ popped \in Int
    BY DequeFacts, DequeAssumption DEF DequeIInv, DequeTypeOK
  <2>. QED
    BY <1>1, <2>1 DEF DequeIInv, CountInv
<1>12. OverlapOnlyBehind'
  BY <1>1 DEF OverlapOnlyBehind
<1>. QED
  BY <1>1, <1>7, <1>8, <1>9, <1>10, <1>11, <1>12 DEF DequeIInv

-----------------------------------------------------------------------------
(* IInv holds in every state of every behaviour of the queue.              *)
THEOREM DequeIInvHolds == DequeSpec => []DequeIInv
<1>1. DequeIInv /\ [DequeNext]_dequeVars => DequeIInv'
  <2> SUFFICES ASSUME DequeIInv, [DequeNext]_dequeVars PROVE DequeIInv'
    OBVIOUS
  <2>1. CASE UNCHANGED dequeVars
    BY <2>1 DEF dequeVars, mainVars, workerVars, DequeIInv, DequeTypeOK, Entries, EndsInv, LastCell,
       EntryFree, CountInv, MapInv, CellsInv, Waits, OverlapOnlyBehind
  <2>. QED
    BY <2>1, PushConnPreserves, PushAllocatesPreserves, PushGrowsPreserves, MovePreserves,
       NotifyWorkerPreserves, ReadNotifyPreserves, FrontPreserves, PopPreserves,
       PopLeavesPreserves, LeavePreserves DEF DequeNext
<1>. QED
  BY DequeInitIInv, <1>1, PTL DEF DequeSpec

(* The state invariant of the queue in memory: a worker takes the oldest   *)
(* connection wherever a push has moved the map to, and the two threads    *)
(* can only meet when as many connections as a block holds wait for one    *)
(* worker (libevent_thread.cpp:66-78, dispatcher.cpp:21-35).               *)
THEOREM QueueInvariant == DequeSpec => []DequeInv
<1>1. DequeIInv => TakesOldest
  BY FrontCell DEF DequeIInv, TakesOldest
<1>2. DequeIInv => DequeInv
  BY <1>1 DEF DequeIInv, DequeInv
<1>. QED
  BY DequeIInvHolds, <1>2, PTL

=============================================================================
