------------------------------ MODULE Dispatch ------------------------------
(***************************************************************************)
(* The main thread accepts control connections and hands each one to a     *)
(* worker thread: server/event_server.cpp, server/dispatcher.cpp,          *)
(* server/libevent_thread.cpp and server/conn.cpp.                         *)
(*                                                                         *)
(* The main thread pushes the connection on the worker's queue cq_, which  *)
(* no lock protects, and then writes one byte to the worker's notify pipe. *)
(* The worker pops one connection for each byte it reads.  The only        *)
(* synchronisation between the two threads is that byte, so every property *)
(* below is about the order in which the two threads take their steps.     *)
(***************************************************************************)
EXTENDS Integers, Sequences, FiniteSets

CONSTANTS NumWorkers,  \* WORKER_THREAD_NUM
          MaxConns,    \* how many connections are ever accepted (a bound)
          PipeSize     \* how many bytes a notify pipe holds

ASSUME ConstAssumption ==
    /\ NumWorkers \in Nat \ {0}
    /\ MaxConns \in Nat
    /\ PipeSize \in Nat \ {0}

Workers  == 0 .. NumWorkers - 1
Conns    == 1 .. MaxConns    \* connections, numbered as they are accepted
NoWorker == -1               \* the attached_worker_ of a connection without one

VARIABLES
    boot,      \* how many steps of the Dispatcher constructor are done
    mainPc,    \* where the main thread is in accept_event_cb and dispatch
    accepted,  \* how many connections were accepted; the last is being handled
    lastRecv,  \* last_recv_thread_
    fdKnown,   \* the connections whose fd_ is assigned
    attached,  \* attached_worker_ of each connection
    cq,        \* the connection queue of each worker
    pipe,      \* the bytes in each worker's notify pipe
    workerPc,  \* where each worker is: in its event loop, taking or opening
    taken,     \* the connection a worker took off its queue last
    bev        \* what became of the bufferevent of each connection

vars == <<boot, mainPc, accepted, lastRecv, fdKnown, attached, cq, pipe,
          workerPc, taken, bev>>

mainVars   == <<boot, mainPc, accepted, lastRecv, fdKnown, attached>>
workerVars == <<workerPc, taken, bev>>

-----------------------------------------------------------------------------
(* Construction: the array of workers is built first, and each worker's    *)
(* constructor starts its thread; the constructor's body then gives every  *)
(* worker its server.  A started worker may run before it has a server.    *)

Started(w)    == boot > w
HasServer(w)  == boot > NumWorkers + w
Booted        == boot = 2 * NumWorkers

Init ==
    /\ boot = 0
    /\ mainPc = "loop"
    /\ accepted = 0
    /\ lastRecv = -1
    /\ fdKnown = {}
    /\ attached = [c \in Conns |-> NoWorker]
    /\ cq = [w \in Workers |-> <<>>]
    /\ pipe = [w \in Workers |-> 0]
    /\ workerPc = [w \in Workers |-> "loop"]
    /\ taken = [w \in Workers |-> 0]
    /\ bev = [c \in Conns |-> "none"]

Construct ==
    /\ ~Booted
    /\ boot' = boot + 1
    /\ UNCHANGED <<mainPc, accepted, lastRecv, fdKnown, attached, cq, pipe>>
    /\ UNCHANGED workerVars

-----------------------------------------------------------------------------
(* The main thread.  accept_event_cb runs from its event loop, once per    *)
(* readiness of the listener; an accept that fails changes nothing.        *)

Main(from, to) == mainPc = from /\ mainPc' = to

\* handle_accept_event makes the Ftp_conn; nothing is known of it yet.
Accept ==
    /\ Booted
    /\ accepted < MaxConns
    /\ Main("loop", "created")
    /\ accepted' = accepted + 1
    /\ UNCHANGED <<boot, lastRecv, fdKnown, attached, cq, pipe>>
    /\ UNCHANGED workerVars

\* Mutant: the descriptor is never stored in the connection.
SetFdForgotten ==
    /\ Main("created", "dispatch")
    /\ UNCHANGED <<boot, accepted, lastRecv, fdKnown, attached, cq, pipe>>
    /\ UNCHANGED workerVars

SetFd ==
    /\ Main("created", "dispatch")
    /\ fdKnown' = fdKnown \cup {accepted}
    /\ UNCHANGED <<boot, accepted, lastRecv, attached, cq, pipe>>
    /\ UNCHANGED workerVars

\* Mutant: the rotation never reaches the last worker.
NextWorkerSkipsLast(last) == (last + 1) % (NumWorkers - 1)
\* Mutant: the rotation goes one past the last worker.
NextWorkerPastLast(last) == (last + 1) % (NumWorkers + 1)
NextWorker(last) == (last + 1) % NumWorkers

\* dispatch chooses the worker; add_conn pushes, and only then attaches.
Push ==
    /\ Main("dispatch", "attach")
    /\ lastRecv' = NextWorker(lastRecv)
    /\ cq' = [cq EXCEPT ![lastRecv'] = Append(@, accepted)]
    /\ UNCHANGED <<boot, accepted, fdKnown, attached, pipe>>
    /\ UNCHANGED workerVars

Attach ==
    /\ Main("attach", "notify")
    /\ attached' = [attached EXCEPT ![accepted] = lastRecv]
    /\ UNCHANGED <<boot, accepted, lastRecv, fdKnown, cq, pipe>>
    /\ UNCHANGED workerVars

\* Mutant: the write to the pipe is lost, as its result is not looked at.
NotifyLost ==
    /\ Main("notify", "loop")
    /\ UNCHANGED <<boot, accepted, lastRecv, fdKnown, attached, cq, pipe>>
    /\ UNCHANGED workerVars

\* The pipe is blocking: a full one holds the main thread up here.
Notify ==
    /\ Main("notify", "loop")
    /\ pipe[lastRecv] < PipeSize
    /\ pipe' = [pipe EXCEPT ![lastRecv] = @ + 1]
    /\ UNCHANGED <<boot, accepted, lastRecv, fdKnown, attached, cq>>
    /\ UNCHANGED workerVars

MainStep == Construct \/ SetFd \/ Push \/ Attach \/ Notify

-----------------------------------------------------------------------------
(* A worker.  Its event loop calls handle_notify when the pipe is readable *)
(* and the pipe stays readable while a byte is left in it.                 *)

Worker(w, from, to) == workerPc[w] = from /\ workerPc' = [workerPc EXCEPT ![w] = to]

\* Mutant: the callback looks at the byte and leaves it in the pipe.
ReadNotifyPeeks(w) ==
    /\ Started(w)
    /\ pipe[w] > 0
    /\ Worker(w, "loop", "take")
    /\ UNCHANGED <<cq, pipe, taken, bev>>
    /\ UNCHANGED mainVars

ReadNotify(w) ==
    /\ Started(w)
    /\ pipe[w] > 0
    /\ Worker(w, "loop", "take")
    /\ pipe' = [pipe EXCEPT ![w] = @ - 1]
    /\ UNCHANGED <<cq, taken, bev>>
    /\ UNCHANGED mainVars

\* Mutant: the newest connection is taken and the oldest is dropped.
TakeNewest(w) ==
    /\ Worker(w, "take", "open")
    /\ taken' = [taken EXCEPT ![w] = cq[w][Len(cq[w])]]
    /\ cq' = [cq EXCEPT ![w] = Tail(@)]
    /\ UNCHANGED <<pipe, bev>>
    /\ UNCHANGED mainVars

\* front and pop of accept_new_connection.  The queue is tested for no
\* element nowhere: front of an empty std::queue would be undefined.
Take(w) ==
    /\ Worker(w, "take", "open")
    /\ taken' = [taken EXCEPT ![w] = Head(cq[w])]
    /\ cq' = [cq EXCEPT ![w] = Tail(@)]
    /\ UNCHANGED <<pipe, bev>>
    /\ UNCHANGED mainVars

\* bufferevent_socket_new gives a bufferevent, which gets its callbacks and
\* is enabled, or NULL, and then the connection is left as it is.
OpenBev(w) ==
    /\ Worker(w, "open", "loop")
    /\ \E result \in {"enabled", "failed"} :
           bev' = [bev EXCEPT ![taken[w]] = result]
    /\ UNCHANGED <<cq, pipe, taken>>
    /\ UNCHANGED mainVars

WorkerStep(w) == ReadNotify(w) \/ Take(w) \/ OpenBev(w)

-----------------------------------------------------------------------------
Next == Accept \/ MainStep \/ \E w \in Workers : WorkerStep(w)

(* Clients may stop connecting, so Accept is not fair.  The operating      *)
(* system runs each thread, and no thread waits for a lock.                *)
Fairness == WF_vars(MainStep) /\ \A w \in Workers : WF_vars(WorkerStep(w))

Spec == Init /\ [][Next]_vars /\ Fairness

-----------------------------------------------------------------------------
(* Properties                                                              *)

TypeOK ==
    /\ boot \in 0 .. 2 * NumWorkers
    /\ mainPc \in {"loop", "created", "dispatch", "attach", "notify"}
    /\ accepted \in 0 .. MaxConns
    /\ lastRecv \in Workers \cup {-1}
    /\ fdKnown \in SUBSET Conns
    /\ attached \in [Conns -> Workers \cup {NoWorker}]
    /\ cq \in [Workers -> Seq(Conns)]
    /\ pipe \in [Workers -> 0 .. PipeSize]
    /\ workerPc \in [Workers -> {"loop", "take", "open"}]
    /\ taken \in [Workers -> Conns \cup {0}]
    /\ bev \in [Conns -> {"none", "enabled", "failed"}]

\* The connections pushed on a worker's queue and not announced yet: one,
\* while the main thread is between the push and the write to the pipe.
Unannounced(w) == IF mainPc \in {"attach", "notify"} /\ lastRecv = w THEN 1 ELSE 0
Taking(w)      == IF workerPc[w] = "take" THEN 1 ELSE 0

(* Each queued connection is covered by exactly one of: a byte in the      *)
(* pipe, the byte the worker just read, the byte the main thread has still *)
(* to write (dispatcher.cpp:31-34, libevent_thread.cpp:108-116).           *)
NotifyAccounting ==
    \A w \in Workers : Len(cq[w]) = pipe[w] + Taking(w) + Unannounced(w)

(* accept_new_connection never takes the front of an empty queue, whatever *)
(* the interleaving of the two threads (libevent_thread.cpp:75-78).        *)
NeverPopsEmpty == \A w \in Workers : workerPc[w] = "take" => cq[w] # <<>>

(* A worker that gives a connection its bufferevent finds in it everything *)
(* the other thread had to store: its descriptor and itself as the worker  *)
(* to call back through, and a server in the worker                        *)
(* (libevent_thread.cpp:86-97, event_server.cpp:63,75).                    *)
ReadyWhenOpened ==
    \A w \in Workers : workerPc[w] = "open" =>
        /\ taken[w] \in fdKnown
        /\ attached[taken[w]] = w
        /\ HasServer(w)

Pushed(c) ==
    \/ c < accepted
    \/ (c = accepted /\ mainPc \notin {"created", "dispatch"})
Positions(c) ==
    {p \in Workers \X Conns : p[2] <= Len(cq[p[1]]) /\ cq[p[1]][p[2]] = c}
Openers(c) == {w \in Workers : workerPc[w] = "open" /\ taken[w] = c}

(* From the push on, a connection is in one place only: in one queue, once, *)
(* with the one worker that took it, or settled.  None is dropped, and no  *)
(* two workers ever serve the same connection.                             *)
OneHolder ==
    \A c \in Conns :
        Cardinality(Positions(c)) + Cardinality(Openers(c))
            + (IF bev[c] = "none" THEN 0 ELSE 1) = (IF Pushed(c) THEN 1 ELSE 0)

(* The handoff implements the abstract one: rotation in acceptance order,  *)
(* and every worker settles its connections oldest first.                  *)
Abstract == INSTANCE Handoff WITH
    assigned <- attached,
    settled  <- {c \in Conns : bev[c] # "none"}
ImplementsHandoff == Abstract!Spec

(* Every accepted connection is eventually settled by a worker, also one   *)
(* accepted while the worker is busy or its pipe is full.                  *)
EventuallySettled == \A c \in Conns : accepted >= c ~> bev[c] # "none"

=============================================================================
