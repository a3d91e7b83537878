---------------------------- MODULE DataSession ----------------------------
(***************************************************************************)
(* One FTP session: the requests that LIST, RETR and STOR queue for a data *)
(* connection, the passive listener that accepts data connections, and the *)
(* end of the session (ftp/ftp_server.cpp, ftp/ftp_conn.cpp).              *)
(*                                                                         *)
(* Every action but the client's is one callback of the worker's event     *)
(* loop, which runs them one at a time and in any order.  The transfers    *)
(* themselves are one callback each here; ListSend, Download and Upload    *)
(* model what happens inside.                                              *)
(*                                                                         *)
(* The request queue is a std::deque, modelled by its memory: the slots    *)
(* written so far and the cursor of the front.  front and pop of an empty  *)
(* deque are not refused: the front is then a slot nobody wrote, and the   *)
(* cursor moves past the slots written.                                    *)
(***************************************************************************)
EXTENDS Integers, Sequences, FiniteSets

CONSTANTS MaxCmds,   \* how many data commands the client sends (a bound)
          FdLimit,   \* how many descriptors the process leaves this session
          MaxPops    \* how often the request queue is popped (a bound)

ASSUME ConstAssumption ==
    /\ MaxCmds \in Nat
    /\ FdLimit \in Nat \ {0, 1}
    /\ MaxPops \in Nat

Kinds    == {"LIST", "RETR", "STOR"}
\* A LIST refused half way leaves the directory it reads open.
Refusals == {"refused", "left open"}
Requests == 1 .. MaxCmds  \* a request has the number of its command

VARIABLES
    open,       \* the Ftp_conn exists
    undefined,  \* "no", or what made the behaviour of the program undefined
    listening,  \* pasv_listening_
    cmds,       \* the data commands handled: their kinds, or a refusal when
                \* a command was answered with an error and queued nothing
    slots,      \* req_queue_: every request ever pushed, in order
    front,      \* req_queue_: how often it was popped
    backlog,    \* the data connections waiting at the listener, each with
                \* the number of the command the client opened it for
    reached,    \* the last command the client has opened a connection for
    early,      \* some connection was opened before its command was handled
    pairs,      \* the outcomes of pasv_accept, in order
    active,     \* the requests with an event on their data connection
    fate        \* what ended each request

vars == <<open, undefined, listening, cmds, slots, front, backlog, reached,
          early, pairs, active, fate>>

Init ==
    /\ open = TRUE
    /\ undefined = "no"
    /\ listening = FALSE
    /\ cmds = <<>>
    /\ slots = <<>>
    /\ front = 0
    /\ backlog = <<>>
    /\ reached = 0
    /\ early = FALSE
    /\ pairs = <<>>
    /\ active = {}
    /\ fate = [r \in Requests |-> "none"]

-----------------------------------------------------------------------------
(* Descriptors.  The session has its control socket and, from its          *)
(* constructor on, its listener; a data connection is closed when its      *)
(* transfer ends, and never when it got no event.  Nothing ever closes the *)
(* file of a RETR or a STOR, nor the directory of a LIST refused half way. *)

Files == {r \in DOMAIN cmds : cmds[r] \in {"RETR", "STOR", "left open"}}
Unarmed == {i \in DOMAIN pairs : pairs[i].req # 0 /\ ~pairs[i].armed}
FdsInUse ==
    (IF open THEN 2 ELSE 0) + Cardinality(active) + Cardinality(Files)
        + Cardinality({i \in Unarmed : pairs[i].conn # 0})
FdAvailable == FdsInUse < FdLimit

-----------------------------------------------------------------------------
(* Commands.                                                               *)

Running == undefined = "no"

\* PASV while listening only repeats the address.
Pasv ==
    /\ Running /\ open /\ ~listening
    /\ listening' = TRUE
    /\ UNCHANGED <<open, undefined, cmds, slots, front, backlog, reached,
                   early, pairs, active, fate>>

\* The file or directory could be opened, and the request is queued.  LIST
\* reads the directory at once, and needs a descriptor only to do so.
DataCommand(kind) ==
    /\ Running /\ open /\ Len(cmds) < MaxCmds
    /\ FdAvailable
    /\ cmds' = Append(cmds, kind)
    /\ slots' = Append(slots, Len(cmds) + 1)
    /\ UNCHANGED <<open, undefined, listening, front, backlog, reached,
                   early, pairs, active, fate>>

\* 550 or 451: the request just made is neither queued nor freed.
RefuseCommand ==
    /\ Running /\ open /\ Len(cmds) < MaxCmds
    /\ \E refusal \in Refusals :
          /\ refusal = "left open" => FdAvailable
          /\ cmds' = Append(cmds, refusal)
    /\ UNCHANGED <<open, undefined, listening, slots, front, backlog, reached,
                   early, pairs, active, fate>>

-----------------------------------------------------------------------------
(* The client.  It opens one data connection for each command, in order,   *)
(* before or after the server handles the command, and none for a command  *)
(* it has seen refused.                                                    *)

Pending == {r \in reached + 1 .. Len(cmds) : cmds[r] \notin Refusals}

Connect(r) ==
    /\ Running /\ open /\ listening
    /\ IF Pending # {}
       THEN r \in Pending /\ \A q \in Pending : r <= q
       ELSE r = Len(cmds) + 1
    /\ r > reached /\ r <= MaxCmds
    /\ reached' = r
    /\ early' = (early \/ r > Len(cmds))
    /\ backlog' = Append(backlog, r)
    /\ UNCHANGED <<open, undefined, listening, cmds, slots, front, pairs,
                   active, fate>>

-----------------------------------------------------------------------------
(* pasv_accept.  accept fails when there is no descriptor; the connection  *)
(* then stays in the backlog, its descriptor is -1 and 0 stands for it     *)
(* below.  The result is not tested.                                       *)

Conn == IF FdAvailable THEN Head(backlog) ELSE 0
Accept == backlog' = IF FdAvailable THEN Tail(backlog) ELSE backlog

QueueEmpty == front >= Len(slots)

\* Mutant: the request is taken and not popped.
PopForgotten == front
Pop == front + 1

PairedWith(req, armed) ==
    pairs' = Append(pairs, [conn |-> Conn, req |-> req, armed |-> armed])

\* event_new may fail, and an event on the descriptor -1 never fires.
AcceptForRequest ==
    /\ Running /\ open /\ listening /\ backlog # <<>>
    /\ ~QueueEmpty
    /\ Accept
    /\ front' = Pop
    /\ \E armed \in {FALSE, FdAvailable} :
          /\ PairedWith(slots[front + 1], armed)
          /\ active' = IF armed THEN active \cup {slots[front + 1]} ELSE active
    /\ UNCHANGED <<open, undefined, listening, cmds, slots, reached, early,
                   fate>>

\* Nothing is queued, and the slot at the front was never written: it holds
\* NULL, and the connection is closed, or anything else.
AcceptForNothing ==
    /\ Running /\ open /\ listening /\ backlog # <<>>
    /\ QueueEmpty
    /\ front < MaxPops
    /\ Accept
    /\ front' = Pop
    /\ \/ PairedWith(0, FALSE) /\ UNCHANGED undefined
       \/ undefined' = "garbage request" /\ UNCHANGED pairs
    /\ UNCHANGED <<open, listening, cmds, slots, reached, early, active, fate>>


\* Mutant: the listener's event is not persistent and fires once.
PasvAcceptOnce == pairs = <<>> /\ (AcceptForRequest \/ AcceptForNothing)
PasvAccept == AcceptForRequest \/ AcceptForNothing

-----------------------------------------------------------------------------
(* The events of the transfers that run.                                   *)

\* How the callback of a request of each kind can end it: with the reply
\* 226 or 426, or silently, when an upload cannot read its connection.
Endings(kind) == CASE kind = "LIST" -> {"226"}
                   [] kind = "RETR" -> {"226", "426"}
                   [] kind = "STOR" -> {"226", "426", "silent"}

\* The callback starts with a reply, 150, in all but an upload, and replies
\* use the connection c of the request.
UsesConn(kind, ending) == kind # "STOR" \/ ending \in {"226", "426"}

\* Mutant: the request is freed and its event stays in the event loop.
EventKept(r) == active
EventDeleted(r) == active \ {r}

EndTransfer(r) ==
    /\ Running /\ r \in active
    /\ \E ending \in Endings(cmds[r]) :
          /\ open \/ ~UsesConn(cmds[r], ending)
          /\ fate' = [fate EXCEPT ![r] = ending]
    /\ active' = EventDeleted(r)
    /\ UNCHANGED <<open, undefined, listening, cmds, slots, front, backlog,
                   reached, early, pairs>>

\* The transfer outlived its session, and its callback replies through it.
UseClosedSession(r) ==
    /\ Running /\ r \in active /\ ~open
    /\ undefined' = "freed session"
    /\ UNCHANGED <<open, listening, cmds, slots, front, backlog, reached,
                   early, pairs, active, fate>>

-----------------------------------------------------------------------------
(* The end of the session: the client closed the control connection, and   *)
(* handle_error_event deletes the Ftp_conn.  The destructor closes the     *)
(* listener and frees the queued requests, and no others.                  *)

Queued == {slots[i] : i \in front + 1 .. Len(slots)}

\* Mutant: the oldest request is left in the queue.
FreedAllButFirst == {r \in Queued : r # slots[front + 1]}
Freed == Queued

Close ==
    /\ Running /\ open
    /\ open' = FALSE
    /\ listening' = FALSE
    /\ backlog' = <<>>
    /\ IF front <= Len(slots)
       THEN /\ fate' = [r \in Requests |-> IF r \in Freed THEN "dropped" ELSE fate[r]]
            /\ front' = front + Cardinality(Freed)
            /\ UNCHANGED undefined
       ELSE \* the queue is not empty() and its front is past its end
            /\ undefined' = "queue overrun"
            /\ UNCHANGED <<fate, front>>
    /\ UNCHANGED <<cmds, slots, reached, early, pairs, active>>

-----------------------------------------------------------------------------
Client ==
    \/ \E r \in Requests : Connect(r)
    \/ Pasv
    \/ \E kind \in Kinds : DataCommand(kind)
    \/ RefuseCommand
    \/ Close

Next ==
    \/ Client
    \/ PasvAccept
    \/ \E r \in Requests : EndTransfer(r) \/ UseClosedSession(r)

(* The client may stop at any point.  The event loop reports a connection  *)
(* at the listener as long as it waits there.                              *)
Spec == Init /\ [][Next]_vars /\ WF_vars(PasvAccept)

-----------------------------------------------------------------------------
(* Properties                                                              *)

TypeOK ==
    /\ open \in BOOLEAN
    /\ undefined \in {"no", "garbage request", "freed session", "queue overrun"}
    /\ listening \in BOOLEAN
    /\ cmds \in Seq(Kinds \cup Refusals) /\ Len(cmds) <= MaxCmds
    /\ slots \in Seq(Requests)
    /\ front \in Nat
    /\ backlog \in Seq(Requests)
    /\ reached \in 0 .. MaxCmds
    /\ early \in BOOLEAN
    /\ pairs \in Seq([conn : Requests \cup {0}, req : Requests \cup {0},
                       armed : BOOLEAN])
    /\ active \in SUBSET Requests
    /\ fate \in [Requests -> {"none", "226", "426", "silent", "dropped"}]
    /\ FdsInUse \in 0 .. FdLimit

Stuck == {pairs[i].req : i \in Unarmed}
Ended == {r \in Requests : fate[r] # "none"}
Paired == {pairs[i].req : i \in DOMAIN pairs}

\* Requests pushed behind the cursor: no data connection will ever get them.
Lost == {slots[i] : i \in {j \in DOMAIN slots : j <= front}} \ (Paired \cup Ended)

NullPops == {i \in DOMAIN pairs : pairs[i].req = 0}

Holders(r) == {S \in {"queued", "active", "stuck", "ended", "lost"} :
    CASE S = "queued" -> r \in Queued
      [] S = "active" -> r \in active
      [] S = "stuck"  -> r \in Stuck
      [] S = "ended"  -> r \in Ended
      [] S = "lost"   -> r \in Lost}

(* A request that was queued is in one place at every moment: waiting in   *)
(* the queue of an open session, with its event, or freed, unless it got   *)
(* no event or slipped behind the cursor.  Nothing is freed twice          *)
(* and no freed request is left where something would find it              *)
(* (ftp_conn.cpp:24-30, ftp_server.cpp:752,841,886,908).                   *)
OnePlace ==
    Running =>
        /\ \A r \in DOMAIN cmds :
              Cardinality(Holders(r)) = (IF cmds[r] \in Refusals THEN 0 ELSE 1)
        /\ Queued # {} => open

(* A connection that finds the queue empty costs at most one later request *)
(* its transfer: the damage of pop on the empty queue does not grow        *)
(* (ftp_server.cpp:908-916).                                               *)
LossBounded == Cardinality(Lost) <= Cardinality(NullPops)

(* The state invariant of a session: its types, the descriptors within     *)
(* their limit, every request in its place, and the loss within its bound  *)
(* (ftp_server.cpp:496,539,900-916, ftp_conn.cpp:24-30).                   *)
Inv == TypeOK /\ OnePlace /\ LossBounded

(* A client that opens its data connections only after their commands, on  *)
(* a server that has descriptors, gets on each connection the transfer of  *)
(* the command it opened it for, and never meets an empty queue            *)
(* (ftp_conn.h:74, ftp_server.cpp:901-909).                                *)
OwnConnection ==
    (~early /\ \A i \in DOMAIN pairs : pairs[i].conn # 0) =>
        /\ \A i \in DOMAIN pairs : pairs[i].conn = pairs[i].req
        /\ undefined # "garbage request"

(* A transfer ends once: the reply that ended it is its last, and neither  *)
(* the destructor nor another event ends it again                          *)
(* (ftp_server.cpp:750-753,840-842,885-887).                               *)
EndsOnce == [][\A r \in Requests : fate[r] # "none" => fate'[r] = fate[r]]_vars

(* While a request is queued no data connection waits for ever at the      *)
(* listener: one of the two is taken, or the session is over.              *)
WaitersMeet ==
    \A r \in Requests :
        (r \in Queued /\ backlog # <<>>)
            ~> (r \notin Queued \/ backlog = <<>> \/ ~Running)

=============================================================================
