------------------------------ MODULE Handoff ------------------------------
(***************************************************************************)
(* What handing accepted control connections to worker threads promises,   *)
(* without saying how.  Connections are numbered in the order the listener *)
(* accepts them.  Each is assigned to the worker next in rotation, and     *)
(* each worker settles its connections oldest first: it gives one a        *)
(* bufferevent, or fails to.  Dispatch.tla is the detailed specification,  *)
(* with the notify pipes, the connection queues and the worker threads.    *)
(***************************************************************************)
EXTENDS Integers

CONSTANTS NumWorkers,  \* how many worker threads there are
          MaxConns     \* how many connections are ever accepted

NoWorker == -1
Workers  == 0 .. NumWorkers - 1
Conns    == 1 .. MaxConns

VARIABLES assigned,    \* the worker each connection was assigned to, or NoWorker
          settled      \* the connections whose worker has dealt with them

vars == <<assigned, settled>>

Init == /\ assigned = [c \in Conns |-> NoWorker]
        /\ settled = {}

\* The rotation starts at worker 0 with connection 1.
Assign(c) ==
    /\ assigned[c] = NoWorker
    /\ \A d \in Conns : d < c => assigned[d] # NoWorker
    /\ assigned' = [assigned EXCEPT ![c] = (c - 1) % NumWorkers]
    /\ UNCHANGED settled

Settle(w, c) ==
    /\ assigned[c] = w
    /\ c \notin settled
    /\ \A d \in Conns : d < c /\ assigned[d] = w => d \in settled
    /\ settled' = settled \cup {c}
    /\ UNCHANGED assigned

Next == \E c \in Conns : Assign(c) \/ \E w \in Workers : Settle(w, c)

Fairness == \A w \in Workers : WF_vars(\E c \in Conns : Settle(w, c))

Spec == Init /\ [][Next]_vars /\ Fairness

=============================================================================
