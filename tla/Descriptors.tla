----------------------------- MODULE Descriptors -----------------------------
(***************************************************************************)
(* The descriptors of the whole process: which open file each number       *)
(* stands for, and who will close it (network/socket.cpp,                  *)
(* network/sock_opr.cpp, ftp/ftp_conn.cpp, server/conn.cpp, and the        *)
(* callbacks of ftp/ftp_server.cpp that open and close).                   *)
(*                                                                         *)
(* The numbers are shared by the main thread, which opens two for every    *)
(* session, and the workers, which open the files and data connections of  *)
(* their sessions and close everything.  A worker runs one callback at a   *)
(* time, but deleting a session closes three numbers one after another,    *)
(* and the other threads do not wait: each close is a step.                *)
(*                                                                         *)
(* What a handler opens and closes itself, the directory of a LIST and     *)
(* those of rm, is not seen.  What a deleted session knew is set back to 0 *)
(* and FALSE.                                                              *)
(*                                                                         *)
(* The model follows the process until a thread closes what is not its own *)
(* (harm) or an assertion ends it (aborted).                               *)
(***************************************************************************)
EXTENDS Integers, Sequences, FiniteSetsExt

CONSTANTS NSessions,    \* how many clients connect (a bound)
          NWorkers,     \* WORKER_THREAD_NUM
          Limit,        \* how many numbers the started process has left
          MaxCommands   \* data commands of each session (a bound)

ASSUME ConstAssumption ==
    /\ NSessions \in Nat /\ MaxCommands \in Nat
    /\ NWorkers \in Nat \ {0} /\ Limit \in Nat \ {0}

Sessions == 1 .. NSessions
Numbers  == 1 .. Limit

\* Threads: the workers, and 0 for the main thread.  Connections go round
\* the workers (Dispatch).
WorkerOf(s) == 1 + (s % NWorkers)

\* What a number can stand for.
Control(s)  == [kind |-> "control",  of |-> s, nr |-> 0]
Listener(s) == [kind |-> "listener", of |-> s, nr |-> 0]
File(s, k)  == [kind |-> "file",     of |-> s, nr |-> k]
Dir(s, k)   == [kind |-> "dir",      of |-> s, nr |-> k]
Data(s, k)  == [kind |-> "data",     of |-> s, nr |-> k]
Free        == [kind |-> "free",     of |-> 0, nr |-> 0]

OpenedBy(d) == IF d.kind \in {"control", "listener"} THEN 0 ELSE WorkerOf(d.of)

VARIABLES
    table,     \* the process's descriptors
    stage,     \* how far the life of each session is
    passive,   \* pasv_listening_
    control,   \* fd_, by number
    listener,  \* sockfd of pasv_listener_, by number
    commands,  \* how many data commands the session has handled
    transfer,  \* the last data command: queued, running or not
    data,      \* its data connection, by number
    leaked,    \* what was left open with nobody to close it
    aborted,   \* an assertion failed
    harm       \* the closes of what was another's: none or one

vars == <<table, stage, passive, control, listener, commands, transfer,
          data, leaked, aborted, harm>>
sessionVars == <<commands, transfer, data, leaked>>

Init ==
    /\ table = [n \in Numbers |-> Free]
    /\ stage = [s \in Sessions |-> "none"]
    /\ passive = [s \in Sessions |-> FALSE]
    /\ control = [s \in Sessions |-> 0]
    /\ listener = [s \in Sessions |-> 0]
    /\ commands = [s \in Sessions |-> 0]
    /\ transfer = [s \in Sessions |-> "none"]
    /\ data = [s \in Sessions |-> 0]
    /\ leaked = {}
    /\ aborted = FALSE
    /\ harm = <<>>

Running == ~aborted /\ harm = <<>>

-----------------------------------------------------------------------------
(* The kernel: a new open file gets the lowest free number, a close frees  *)
(* the number whatever it stands for by now, and fails when it is free.    *)

FreeNumbers == {n \in Numbers : table[n] = Free}
Lowest == Min(FreeNumbers)
OpenAs(d) == FreeNumbers # {} /\ table' = [table EXCEPT ![Lowest] = d]

Close(s, n, d) ==
    /\ table' = [table EXCEPT ![n] = Free]
    /\ harm' = IF table[n] \in {d, Free} THEN harm
               ELSE Append(harm, [by |-> s, at |-> stage[s], victim |-> table[n]])

-----------------------------------------------------------------------------
(* The main thread: accept_event_cb.  When accept finds no number it       *)
(* returns, and the event loop calls it again: no step of the model.       *)

Accept(s) ==
    /\ Running
    /\ stage[s] = "none" /\ \A r \in Sessions : r < s => stage[r] \notin {"none", "accepted"}
    /\ OpenAs(Control(s))
    /\ control' = [control EXCEPT ![s] = Lowest]
    /\ stage' = [stage EXCEPT ![s] = "accepted"]
    /\ UNCHANGED <<passive, listener, aborted, harm>> /\ UNCHANGED sessionVars

\* new Ftp_conn: its listener is made with it, and must be.
Construct(s) ==
    /\ Running /\ stage[s] = "accepted"
    /\ IF FreeNumbers = {}
       THEN aborted' = TRUE /\ UNCHANGED <<table, stage, listener>>
       ELSE /\ OpenAs(Listener(s))
            /\ listener' = [listener EXCEPT ![s] = Lowest]
            /\ stage' = [stage EXCEPT ![s] = "open"]
            /\ UNCHANGED aborted
    /\ UNCHANGED <<passive, control, harm>> /\ UNCHANGED sessionVars

-----------------------------------------------------------------------------
(* The worker of a session.                                                *)

\* The destructor of no session of the same worker is between its closes.
WorkerFree(s) ==
    \A r \in Sessions : WorkerOf(r) = WorkerOf(s) => stage[r] # "once"
Callback(s) == Running /\ WorkerFree(s)

Pasv(s) ==
    /\ Callback(s) /\ stage[s] = "open" /\ ~passive[s]
    /\ passive' = [passive EXCEPT ![s] = TRUE]
    /\ UNCHANGED <<table, stage, control, listener, aborted, harm>>
    /\ UNCHANGED sessionVars

\* A worker opens what nobody will close.
Leak(d) == OpenAs(d) /\ leaked' = leaked \cup {d}

\* RETR and STOR open a file that nobody closes; LIST has read its directory
\* when it returns.  Without a number each is refused.  A session has one
\* transfer after the other, which bounds the model.
DataCommand(s) ==
    /\ Callback(s) /\ stage[s] = "open"
    /\ transfer[s] = "none" /\ commands[s] < MaxCommands
    /\ FreeNumbers # {}
    /\ commands' = [commands EXCEPT ![s] = @ + 1]
    /\ transfer' = [transfer EXCEPT ![s] = "queued"]
    /\ Leak(File(s, commands'[s])) \/ UNCHANGED <<table, leaked>>
    /\ UNCHANGED <<stage, passive, control, listener, data, aborted, harm>>

\* A LIST whose directory changes while it is read, or holds a path too long,
\* replies 451 and leaves the directory open (FileCommands).
RefuseList(s) ==
    /\ Callback(s) /\ stage[s] = "open"
    /\ transfer[s] = "none" /\ commands[s] < MaxCommands
    /\ commands' = [commands EXCEPT ![s] = @ + 1]
    /\ Leak(Dir(s, commands'[s]))
    /\ UNCHANGED <<stage, passive, control, listener, transfer, data, aborted, harm>>

\* The request is popped first.  Without a number it is lost, and when
\* event_new fails the connection is left open.
PasvAccept(s) ==
    /\ Callback(s) /\ stage[s] = "open" /\ passive[s] /\ transfer[s] = "queued"
    /\ \/ /\ OpenAs(Data(s, commands[s]))
          /\ data' = [data EXCEPT ![s] = Lowest]
          /\ transfer' = [transfer EXCEPT ![s] = "running"]
          /\ UNCHANGED leaked
       \/ /\ \/ Leak(Data(s, commands[s]))
             \/ FreeNumbers = {} /\ UNCHANGED <<table, leaked>>
          /\ transfer' = [transfer EXCEPT ![s] = "none"]
          /\ UNCHANGED data
    /\ UNCHANGED <<stage, passive, control, listener, commands, aborted, harm>>

\* STOP_TRANSFER closes the data connection and not the file.  The session
\* may be gone by then (DataSession).
EndTransfer(s) ==
    /\ Callback(s) /\ transfer[s] = "running"
    /\ Close(s, data[s], Data(s, commands[s]))
    /\ transfer' = [transfer EXCEPT ![s] = "none"]
    /\ data' = [data EXCEPT ![s] = 0]
    /\ UNCHANGED <<stage, passive, control, listener, commands, leaked, aborted>>

-----------------------------------------------------------------------------
(* handle_error_event deletes the session.                                 *)

\* ~Ftp_conn closes the listener of a session that was passive ...
CloseListener(s) ==
    /\ Callback(s) /\ stage[s] = "open" /\ passive[s]
    /\ Close(s, listener[s], Listener(s))
    /\ stage' = [stage EXCEPT ![s] = "once"]
    /\ UNCHANGED <<passive, control, listener, aborted>> /\ UNCHANGED sessionVars

\* Mutant: the control connection is closed here as well.
CloseSocketAndControl(s) ==
    /\ table' = [table EXCEPT ![listener[s]] = Free, ![control[s]] = Free]
    /\ harm' = IF table[listener[s]] \in {Listener(s), Free} THEN harm
               ELSE <<[by |-> s, at |-> stage[s], victim |-> table[listener[s]]]>>
CloseSocket(s) == Close(s, listener[s], Listener(s))

\* ... and ~Socket of its member the same number, always.
DestroySocket(s) ==
    /\ Running
    /\ \/ stage[s] = "once"
       \/ stage[s] = "open" /\ ~passive[s] /\ WorkerFree(s)
    /\ CloseSocket(s)
    /\ stage' = [stage EXCEPT ![s] = "twice"]
    /\ listener' = [listener EXCEPT ![s] = 0]
    /\ passive' = [passive EXCEPT ![s] = FALSE]
    /\ UNCHANGED <<control, aborted>> /\ UNCHANGED sessionVars

\* Mutant: the bufferevent is made without BEV_OPT_CLOSE_ON_FREE.
CloseOnFreeForgotten(s) == UNCHANGED <<table, harm>>
CloseOnFree(s) == Close(s, control[s], Control(s))

\* ~Conn frees the bufferevent, and libevent closes the control connection
\* then or when it has called what else was ready.
FreeBev(s) ==
    /\ Callback(s) /\ stage[s] = "twice"
    /\ CloseOnFree(s)
    /\ stage' = [stage EXCEPT ![s] = "closed"]
    /\ control' = [control EXCEPT ![s] = 0]
    /\ UNCHANGED <<passive, listener, aborted>> /\ UNCHANGED sessionVars

-----------------------------------------------------------------------------
Next == \E s \in Sessions :
    \/ Accept(s) \/ Construct(s)
    \/ Pasv(s) \/ DataCommand(s) \/ RefuseList(s) \/ PasvAccept(s) \/ EndTransfer(s)
    \/ CloseListener(s) \/ DestroySocket(s) \/ FreeBev(s)

Spec == Init /\ [][Next]_vars

-----------------------------------------------------------------------------
(* Properties                                                              *)

Descriptor == [kind : {"free", "control", "listener", "file", "dir", "data"},
               of : 0 .. NSessions, nr : 0 .. MaxCommands]

TypeOK ==
    /\ table \in [Numbers -> Descriptor]
    /\ stage \in [Sessions -> {"none", "accepted", "open", "once", "twice", "closed"}]
    /\ passive \in [Sessions -> BOOLEAN]
    /\ control \in [Sessions -> 0 .. Limit]
    /\ listener \in [Sessions -> 0 .. Limit]
    /\ commands \in [Sessions -> 0 .. MaxCommands]
    /\ transfer \in [Sessions -> {"none", "queued", "running"}]
    /\ data \in [Sessions -> 0 .. Limit]
    /\ leaked \subseteq Descriptor
    /\ aborted \in BOOLEAN
    /\ Len(harm) <= 1

(* The first close of what belongs to somebody else is always the second   *)
(* close of a passive session's listener, and what it hits was opened by   *)
(* another thread after the first one: the sessions of a server with one   *)
(* thread, and sessions without PASV, never hurt another                   *)
(* (ftp_conn.cpp:18-22, socket.cpp:19-22).                                 *)
HarmIsDoubleClose ==
    \A i \in DOMAIN harm :
        /\ harm[i].at = "once"
        /\ OpenedBy(harm[i].victim) # WorkerOf(harm[i].by)

\* Everything that has a holder, with the number it is held by.
Held ==
    {<<Control(s), control[s]>> :
        s \in {s \in Sessions : stage[s] \notin {"none", "closed"}}}
    \cup {<<Listener(s), listener[s]>> : s \in {s \in Sessions : stage[s] = "open"}}
    \cup {<<Data(s, commands[s]), data[s]>> :
             s \in {s \in Sessions : transfer[s] = "running"}}

(* Until then the process has open exactly what its sessions hold, each    *)
(* under the number they hold it by, and what was left with nobody to      *)
(* close it: the file of every RETR and STOR, the directory of every LIST  *)
(* that was refused half way, and every data connection that got no event, *)
(* none of which is ever closed.  Nothing is lost in another way           *)
(* (ftp_server.cpp:496,539,752,841,886,924-955, file_opr.cpp:70-73,        *)
(* conn.cpp:9-12).                                                         *)
Accounted ==
    harm = <<>> =>
        /\ \A h \in Held : table[h[2]] = h[1]
        /\ {table[n] : n \in Numbers} \ {Free} = {h[1] : h \in Held} \cup leaked
        /\ Cardinality(FreeNumbers) = Limit - Cardinality(Held) - Cardinality(leaked)

(* The state invariant of the process's descriptors: their types, and who  *)
(* holds them (ftp_conn.cpp:16-31, conn.cpp:9-12).                         *)
Inv == TypeOK /\ Accounted

=============================================================================
