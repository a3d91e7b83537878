----------------------------- MODULE ThreadPool -----------------------------
(***************************************************************************)
(* The task pool of base/thread_pool.cpp, with base/thread.cpp,            *)
(* base/mutex.cpp, base/mutex_lock.h and base/condition.cpp.               *)
(*                                                                         *)
(* Everything the pool's threads share is used under its mutex, except     *)
(* three things: a thread tests shutdown before it locks, start clears it, *)
(* and the destructor empties the queue after the last join.  Each         *)
(* critical section is one step here and the unlocked accesses are steps   *)
(* of their own; a wait gives up the mutex, so it ends one step and the    *)
(* return from it begins another.                                          *)
(***************************************************************************)
EXTENDS Integers, Sequences, FiniteSets

CONSTANTS Threads,    \* the pool's threads; thread_quantity is their number
          QueueSize,  \* task_queue_size
          MaxTasks    \* how many tasks are ever added (a bound)

ASSUME ConstAssumption ==
    /\ IsFiniteSet(Threads) /\ Threads # {}
    /\ QueueSize \in Nat \ {0}
    /\ MaxTasks \in Nat

Tasks == 1 .. MaxTasks   \* tasks, numbered as add_task accepts them
NoTask == 0

VARIABLES
    life,       \* where the pool's owner is in its life
    shutdown,   \* shutdown
    queue,      \* task_queue
    queueLen,   \* queue_len
    added,      \* how many tasks add_task has accepted
    pc,         \* where each thread is
    task,       \* task_body of each thread
    done,       \* the tasks whose handler has returned
    undefined   \* the pool took the front of an empty queue

vars == <<life, shutdown, queue, queueLen, added, pc, task, done, undefined>>
poolVars == <<queue, queueLen, added, done, undefined>>

Init ==
    /\ life = "constructed"
    /\ shutdown = TRUE
    /\ queue = <<>>
    /\ queueLen = 0
    /\ added = 0
    /\ pc = [t \in Threads |-> "unborn"]
    /\ task = [t \in Threads |-> NoTask]
    /\ done = {}
    /\ undefined = FALSE

Full == queueLen = QueueSize
Empty == queueLen = 0

Owner(from, to) == life = from /\ life' = to

-----------------------------------------------------------------------------
(* start, by the owner of the pool.                                        *)

ClearShutdown ==
    /\ Owner("constructed", "starting")
    /\ shutdown' = FALSE
    /\ UNCHANGED <<pc, task>> /\ UNCHANGED poolVars

StartThread(t) ==
    /\ life = "starting" /\ pc[t] = "unborn"
    /\ pc' = [pc EXCEPT ![t] = "test"]
    /\ life' = IF \E u \in Threads \ {t} : pc[u] = "unborn"
               THEN life ELSE "running"
    /\ UNCHANGED <<shutdown, task>> /\ UNCHANGED poolVars

-----------------------------------------------------------------------------
(* add_task, by any thread that still uses the pool, a task's handler      *)
(* included.  notify wakes one waiter, if there is one.                    *)

InUse ==
    \/ life \in {"constructed", "starting", "running"}
    \/ \E t \in Threads : pc[t] = "handle"

Waiting == {t \in Threads : pc[t] = "wait"}

\* Mutant: nobody is woken.
NotifyNobody == UNCHANGED pc
Notify ==
    IF Waiting = {} THEN UNCHANGED pc
    ELSE \E t \in Waiting : pc' = [pc EXCEPT ![t] = "lock"]

Push == queue' = Append(queue, added + 1) /\ queueLen' = queueLen + 1

\* A full queue refuses the task and changes nothing.
AddTask ==
    /\ InUse /\ added < MaxTasks
    /\ ~Full
    /\ added' = added + 1
    /\ Push
    /\ Notify
    /\ UNCHANGED <<life, shutdown, task, done, undefined>>

-----------------------------------------------------------------------------
(* run_in_thread.                                                          *)

Thread(t, from, to) == pc[t] = from /\ pc' = [pc EXCEPT ![t] = to]

\* while(shutdown == false), without the mutex.
Test(t) ==
    /\ Thread(t, "test", IF shutdown THEN "exited" ELSE "lock")
    /\ UNCHANGED <<life, shutdown, task>> /\ UNCHANGED poolVars

MustWait == Empty /\ ~shutdown

Wait(t) ==
    /\ MustWait
    /\ Thread(t, "lock", "wait")
    /\ UNCHANGED <<life, shutdown, task>> /\ UNCHANGED poolVars

\* pthread_cond_wait may return although nobody woke the thread.
WakeSpuriously(t) ==
    /\ Thread(t, "wait", "lock")
    /\ UNCHANGED <<life, shutdown, task>> /\ UNCHANGED poolVars

\* The break out of the loop, which unlocks the mutex.
Stop(t) ==
    /\ ~MustWait /\ shutdown
    /\ Thread(t, "lock", "exited")
    /\ UNCHANGED <<life, shutdown, task>> /\ UNCHANGED poolVars

\* Mutant: shutdown is not tested again after the wait.
MayTakeAlways == ~MustWait /\ ~Empty
MayTake == ~MustWait /\ ~shutdown

Take(t) ==
    /\ MayTake
    /\ Thread(t, "lock", "handle")
    /\ task' = [task EXCEPT ![t] = Head(queue)]
    /\ queue' = Tail(queue)
    /\ queueLen' = queueLen - 1
    /\ UNCHANGED <<life, shutdown, added, done, undefined>>

\* Mutant: a task whose handler has returned is queued again.
HandleAndRequeue(t) ==
    /\ Thread(t, "handle", "test")
    /\ done' = done \cup {task[t]}
    /\ queue' = Append(queue, task[t])
    /\ queueLen' = queueLen + 1
    /\ UNCHANGED <<life, shutdown, added, task, undefined>>

\* The handler returns and the task is freed.
Handle(t) ==
    /\ Thread(t, "handle", "test")
    /\ done' = done \cup {task[t]}
    /\ task' = [task EXCEPT ![t] = NoTask]
    /\ UNCHANGED <<life, shutdown, queue, queueLen, added, undefined>>

-----------------------------------------------------------------------------
(* The destructor, by the owner of the pool.                               *)

\* Mutant: one thread is woken.
BroadcastOne == Notify
Broadcast == pc' = [t \in Threads |-> IF pc[t] = "wait" THEN "lock" ELSE pc[t]]

ShutDown ==
    /\ Owner("running", "joining")
    /\ shutdown' = TRUE
    /\ Broadcast
    /\ UNCHANGED task /\ UNCHANGED poolVars

Joinable == \A t \in Threads : pc[t] = "exited"

Join ==
    /\ Owner("joining", "draining")
    /\ Joinable
    /\ UNCHANGED <<shutdown, pc, task>> /\ UNCHANGED poolVars

\* while(queue_len > 0): the loop does not change queue_len, so it takes
\* the front of the queue again when the queue has become empty.
Drain ==
    /\ life = "draining" /\ ~undefined
    /\ ~Empty
    /\ IF queue # <<>>
       THEN queue' = Tail(queue) /\ UNCHANGED undefined
       ELSE undefined' = TRUE /\ UNCHANGED queue
    /\ UNCHANGED <<life, shutdown, queueLen, added, pc, task, done>>

Destroyed ==
    /\ Empty
    /\ Owner("draining", "gone")
    /\ UNCHANGED <<shutdown, pc, task>> /\ UNCHANGED poolVars

-----------------------------------------------------------------------------
ThreadStep(t) == Test(t) \/ Wait(t) \/ Stop(t) \/ Take(t) \/ Handle(t)
Starting == ClearShutdown \/ \E t \in Threads : StartThread(t)
Destroying == Join \/ Drain \/ Destroyed

Next ==
    \/ Starting \/ ShutDown \/ Destroying
    \/ AddTask
    \/ \E t \in Threads : ThreadStep(t) \/ WakeSpuriously(t)

(* The operating system runs each thread, and a thread that wants the      *)
(* mutex gets it; handlers return.  Nothing forces a task to be added, the *)
(* pool to be started or destroyed, or a wait to end without a wake-up.    *)
Fairness ==
    /\ \A t \in Threads : WF_vars(ThreadStep(t)) /\ WF_vars(StartThread(t))
    /\ WF_vars(Destroying)

Spec == Init /\ [][Next]_vars /\ Fairness

-----------------------------------------------------------------------------
(* Properties                                                              *)

TypeOK ==
    /\ life \in {"constructed", "starting", "running", "joining", "draining",
                 "gone"}
    /\ shutdown \in BOOLEAN
    /\ queue \in Seq(Tasks)
    /\ queueLen \in 0 .. QueueSize
    /\ added \in 0 .. MaxTasks
    /\ pc \in [Threads -> {"unborn", "test", "lock", "wait", "handle", "exited"}]
    /\ task \in [Threads -> Tasks \cup {NoTask}]
    /\ done \in SUBSET Tasks
    /\ undefined \in BOOLEAN

(* Outside the destructor queue_len is the length of the queue: the tests  *)
(* for a full and an empty queue mean what they say, and no thread takes   *)
(* the front of an empty queue (thread_pool.cpp:68-76,99,127-129).         *)
LengthCounted ==
    /\ life # "draining" => queueLen = Len(queue)
    /\ undefined => life = "draining"

(* Every task accepted is in one place, until the destructor frees it: in  *)
(* the queue, with one thread, or done; and the queue holds the youngest,  *)
(* in the order they were accepted (thread_pool.cpp:98,127-133).           *)
Handled == {task[t] : t \in Threads} \ {NoTask}
InPlace ==
    /\ queue = [i \in 1 .. Len(queue) |-> added - Len(queue) + i]
    /\ Handled \cup done = 1 .. added - Len(queue)
    /\ Handled \cap done = {}
    /\ \A t, u \in Threads :
          task[t] = task[u] /\ t # u => task[t] = NoTask
OldestFirst == life # "draining" => InPlace

(* When the destructor touches the queue without the mutex every thread    *)
(* has ended (thread_pool.cpp:38-53).                                      *)
DrainsAlone ==
    life \in {"draining", "gone"} => \A t \in Threads : pc[t] = "exited"

(* The state invariant of the pool: its types, the length that is kept     *)
(* apart from the queue, where every task is, and the destructor alone at  *)
(* the end (thread_pool.cpp:38-53,68-76,98,127-133).                       *)
Inv == TypeOK /\ LengthCounted /\ OldestFirst /\ DrainsAlone

(* While a task is queued in a running pool, some thread is awake and will *)
(* look for it: no wake-up is lost between the test for an empty queue and *)
(* the wait, nor when all threads were busy (thread_pool.cpp:101,116-119). *)
SomeoneAwake ==
    life = "running" /\ queue # <<>> =>
        \E t \in Threads : pc[t] \in {"test", "lock", "handle"}

(* Once the destructor has locked the mutex no further task is begun, also *)
(* by a thread that tested shutdown before that                            *)
(* (thread_pool.cpp:30-35,109,121-125).                                    *)
NoTaskBegunAfterShutdown ==
    [][life = "joining" =>
          \A t \in Threads : task'[t] \in {task[t], NoTask}]_vars

(* Every task accepted is handled, unless the pool is destroyed first.     *)
TasksHandled ==
    \A k \in Tasks : (added >= k /\ life = "running")
        ~> (k \in done \/ life # "running")

(* The destructor gets past its joins: no thread sleeps through shutdown   *)
(* (thread_pool.cpp:33-41,116-125).                                        *)
JoinsReturn == life = "joining" ~> life # "joining"

=============================================================================
