------------------------------ MODULE ConnDeque ------------------------------
(***************************************************************************)
(* The connection queue of one worker in memory: cq_ of Libevent_thread, a *)
(* std::queue on which the main thread pushes (dispatch, add_conn) and     *)
(* from which the worker takes the front and pops (accept_new_connection), *)
(* with nothing between them but the bytes of the notify pipe.  Dispatch   *)
(* takes a push and a pop as atomic; here is what they do.                 *)
(*                                                                         *)
(* The library's deque keeps its elements in blocks and the blocks'        *)
(* addresses in a map.  A push writes behind finish; with the last cell of *)
(* a block it allocates the next, and when the map has no place left for   *)
(* that it moves the entries, to the middle of the map or to a larger one, *)
(* and tells both ends where their entries are now.  A pop moves start;    *)
(* when it leaves a block it frees it and follows the map to the next.     *)
(* So the two threads meet in one place only, the entry of start.  (A push *)
(* that allocates also reads start to compare the queue's size with the    *)
(* largest there may be, and any value it finds is smaller.)               *)
(*                                                                         *)
(* The model ends when they do (overlap): the worker may then follow an    *)
(* entry that was moved or freed.                                          *)
(***************************************************************************)
EXTENDS Integers, Functions, FiniteSets

CONSTANTS BlockSize,  \* pointers in a block of the deque (64)
          MapSize,    \* entries of the first map (8)
          PipeSize,   \* bytes the notify pipe holds
          MaxConns    \* connections for this worker (a bound)

ASSUME DequeAssumption ==
    /\ BlockSize \in Nat \ {0} /\ MapSize \in Nat /\ MapSize > 2
    /\ PipeSize \in Nat \ {0} /\ MaxConns \in Nat

Conns == 1 .. MaxConns
NoBlock == -1

VARIABLES
    pushed,   \* how many connections were pushed
    mainPc,   \* "loop", in a push "grow" or "allocate", or "notify"
    pipe,     \* bytes in the pipe
    workerPc, \* "loop", "front", "pop", or "leave" for a pop that leaves a block
    popped,   \* how many connections were popped
    taken,    \* the last front, 0 if there was none
    cells,    \* what was written to the blocks: <<block, slot>> to connection
    map,      \* the block of each entry; blocks are numbered as allocated
    start,    \* entry, block and slot of the front
    finish,   \* entry, block and slot behind the last
    overlap   \* a pop left its block while a push moved the map

mainVars == <<pushed, mainPc, finish>>
workerVars == <<workerPc, popped, taken>>
dequeVars == <<mainVars, pipe, workerVars, cells, map, start, overlap>>

FirstEntry == (MapSize - 1) \div 2

DequeInit ==
    /\ pushed = 0 /\ mainPc = "loop" /\ pipe = 0
    /\ workerPc = "loop" /\ popped = 0 /\ taken = 0
    /\ cells = [x \in {} |-> 0]
    /\ map = [i \in 0 .. MapSize - 1 |-> IF i = FirstEntry THEN 0 ELSE NoBlock]
    /\ start = [at |-> FirstEntry, block |-> 0, slot |-> 0]
    /\ finish = start
    /\ overlap = FALSE

-----------------------------------------------------------------------------
(* The main thread.                                                        *)

Main(from, to) == ~overlap /\ mainPc = from /\ mainPc' = to

Cell(end) == <<end.block, end.slot>>
Store ==
    /\ cells' = [x \in DOMAIN cells \cup {Cell(finish)} |->
                    IF x = Cell(finish) THEN pushed + 1 ELSE cells[x]]
    /\ pushed' = pushed + 1
LastCell(end) == end.slot = BlockSize - 1

Entries == Cardinality(DOMAIN map)
EntryFree == finish.at + 2 <= Entries

PushConn ==
    /\ Main("loop", "notify") /\ pushed < MaxConns
    /\ ~LastCell(finish)
    /\ Store
    /\ finish' = [finish EXCEPT !.slot = @ + 1]
    /\ UNCHANGED <<pipe, map, start, overlap>> /\ UNCHANGED workerVars

\* The last cell of a block, and the entry of the next block is there.
PushAllocates ==
    /\ \/ Main("loop", "notify") /\ pushed < MaxConns /\ LastCell(finish) /\ EntryFree
       \/ Main("allocate", "notify")
    /\ Store
    /\ map' = [map EXCEPT ![finish.at + 1] = finish.block + 1]
    /\ finish' = [at |-> finish.at + 1, block |-> finish.block + 1, slot |-> 0]
    /\ UNCHANGED <<pipe, start, overlap>> /\ UNCHANGED workerVars

PushGrows ==
    /\ Main("loop", "grow") /\ pushed < MaxConns /\ LastCell(finish) /\ ~EntryFree
    /\ overlap' = (workerPc = "leave")
    /\ UNCHANGED <<pushed, finish, pipe, cells, map, start>> /\ UNCHANGED workerVars

\* The entries between the two ends go to the middle of the map, if that
\* is more than twice as large as they need, or of one twice as large.
Grow ==
    LET used   == finish.at - start.at + 1
        needed == used + 1
        size   == IF Entries > 2 * needed THEN Entries ELSE 2 * Entries + 2
        first  == (size - needed) \div 2
    IN /\ map' = [i \in 0 .. size - 1 |->
                     IF i \in first .. first + used - 1
                     THEN map[start.at + i - first] ELSE NoBlock]
       /\ start' = [start EXCEPT !.at = first]
       /\ finish' = [finish EXCEPT !.at = first + used - 1]

MoveEntries ==
    /\ Main("grow", "allocate")
    /\ Grow
    /\ UNCHANGED <<pushed, pipe, cells, overlap>> /\ UNCHANGED workerVars

NotifyWorker ==
    /\ Main("notify", "loop")
    /\ pipe < PipeSize
    /\ pipe' = pipe + 1
    /\ UNCHANGED <<pushed, finish, cells, map, start, overlap>>
    /\ UNCHANGED workerVars

-----------------------------------------------------------------------------
(* The worker.                                                             *)

Worker(from, to) == ~overlap /\ workerPc = from /\ workerPc' = to

\* Mutant: the worker looks at its queue without a notification.
ReadNotifyUnasked == UNCHANGED pipe
ReadByte == pipe > 0 /\ pipe' = pipe - 1

ReadNotify ==
    /\ Worker("loop", "front")
    /\ ReadByte
    /\ UNCHANGED <<popped, taken, cells, map, start, overlap>> /\ UNCHANGED mainVars

Front ==
    /\ Worker("front", "pop")
    /\ taken' = IF Cell(start) \in DOMAIN cells THEN cells[Cell(start)] ELSE 0
    /\ UNCHANGED <<popped, pipe, cells, map, start, overlap>> /\ UNCHANGED mainVars

Pop ==
    /\ Worker("pop", "loop") /\ ~LastCell(start)
    /\ start' = [start EXCEPT !.slot = @ + 1]
    /\ popped' = popped + 1
    /\ UNCHANGED <<taken, pipe, cells, map, overlap>> /\ UNCHANGED mainVars

PopLeaves ==
    /\ Worker("pop", "leave") /\ LastCell(start)
    /\ cells' = Restrict(cells, {x \in DOMAIN cells : x[1] # start.block})
    /\ overlap' = (mainPc = "grow")
    /\ UNCHANGED <<popped, taken, pipe, map, start>> /\ UNCHANGED mainVars

Leave ==
    /\ Worker("leave", "loop")
    /\ start' = [at |-> start.at + 1, block |-> map[start.at + 1], slot |-> 0]
    /\ popped' = popped + 1
    /\ UNCHANGED <<taken, pipe, cells, map, overlap>> /\ UNCHANGED mainVars

-----------------------------------------------------------------------------
DequeNext ==
    \/ PushConn \/ PushAllocates \/ PushGrows \/ MoveEntries \/ NotifyWorker
    \/ ReadNotify \/ Front \/ Pop \/ PopLeaves \/ Leave

DequeSpec == DequeInit /\ [][DequeNext]_dequeVars

-----------------------------------------------------------------------------
(* Properties                                                              *)

End == [at : Nat, block : Nat, slot : 0 .. BlockSize - 1]

DequeTypeOK ==
    /\ pushed \in 0 .. MaxConns /\ popped \in 0 .. pushed
    /\ mainPc \in {"loop", "grow", "allocate", "notify"}
    /\ workerPc \in {"loop", "front", "pop", "leave"}
    /\ pipe \in 0 .. PipeSize
    /\ taken \in Conns \cup {0}
    /\ cells \in [DOMAIN cells -> Conns]
    /\ map \in [0 .. Entries - 1 -> Nat \cup {NoBlock}]
    /\ start \in End /\ finish \in End /\ finish.at < Entries
    /\ overlap \in BOOLEAN

(* The front a worker takes is the connection after the last one it        *)
(* popped, wherever a push has moved the map to in the meantime            *)
(* (libevent_thread.cpp:66-78, dispatcher.cpp:21-35).                      *)
TakesOldest ==
    /\ workerPc \in {"pop", "leave"} => taken = popped + 1
    /\ ~overlap /\ workerPc # "leave" /\ popped < pushed =>
          cells[Cell(start)] = popped + 1

(* The threads can only get into each other's way when as many connections *)
(* as a block holds wait for one worker: a queue that is shorter needs no  *)
(* lock (dispatcher.cpp:31, libevent_thread.cpp:68,78).                    *)
OverlapOnlyBehind == overlap => pushed - popped >= BlockSize

(* The state invariant of the queue: its types, what the worker finds at   *)
(* its front, and when the threads may meet                                *)
(* (libevent_thread.cpp:66-78, dispatcher.cpp:21-35).                      *)
DequeInv == DequeTypeOK /\ TakesOldest /\ OverlapOnlyBehind

=============================================================================
