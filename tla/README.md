# Verification of event_ftp_server

TLA+ models of the FTP server in `src/`, checked with TLC and, where a statement
should hold for every size of the system, proved with TLAPS. Paths and line
numbers below are those of the repository's source.

## 1. The system

The server has one main thread and `WORKER_THREAD_NUM` (8) worker threads, each
with a libevent loop. The main thread accepts control connections and hands each
to a worker; everything else of a session runs in callbacks of that worker.

| Component | Source | State | Operations | Interacts through |
|---|---|---|---|---|
| Connection handoff | `server/` | `last_recv_thread_`, `cq_` and notify pipe of each worker, `fd_`, `attached_worker_`, `bev_` of each connection | accept, dispatch, notify, open the bufferevent | an unlocked `std::queue` and one byte in a pipe for each connection |
| Data session | `ftp/ftp_server.cpp` 274-556, 893-959, 1039-1045, `ftp/ftp_conn.*` | `pasv_listening_`, `req_queue_`, one request for each LIST, RETR or STOR | PASV, the data commands, accepting a data connection, closing | callbacks of one event loop; requests point to their session |
| Transfer callbacks | `ftp/ftp_server.cpp` 716-888, `base/file_opr.cpp` 166-217 | `buf`, `size`, `offset`, `fd` of a request | one callback for each direction | a non-blocking data connection |
| Thread pool | `base/thread_pool.*`, `thread.*`, `mutex*`, `condition.*` | `task_queue`, `queue_len`, `shutdown` | start, add_task, run_in_thread, destroy | one mutex, one condition |
| Control commands | `ftp/ftp_server.cpp` 188-324, 560-711 | user name, working directory, `rename_path_`, the server's `local_ip_` | one handler for each command | the file system, replies, the server object |
| Command stream | `ftp/ftp_server.cpp` 61-93, 990-1026 | bytes of the control connection | read up to 64 bytes, parse, look the handler up | the bufferevent |
| File tree | `base/file_opr.cpp` | the file system | existence tests, mkdir, recursive rm, list | shared by all sessions |
| Sockets, addresses | `network/` | the process's descriptors | opening and closing them, wrappers of system calls | everything |
| User file | `ftp/ftp_server.cpp` 98-183 | `user_list` | read once before any thread starts | USER and PASS |
| List formatting, echo test server | `ftp/ftp_server.cpp` 329-422, `ftp/test_server.*` | none | text; a demonstration | |

What is hard in it: the handoff between two threads without a lock; data
connections that are matched with commands by arrival alone; a session that is
freed while its transfers run; transfers that return in the middle of a block and
resume; partial reads and writes and the errors after them; descriptors that run
out, and one that is closed twice while other threads open; commands that arrive
in pieces or together; an address that all sessions share without a lock; a rename that a
shell carries out after the handler has tested the paths; and, in the pool, wake-ups and shutdown. `PROJECT.json` lists each of these
hazards at its line with the properties that cover it.

As committed the server does not compile: `download_file_cb` lacks the brace that
ends its loop (before `ftp_server.cpp:840`) and `ftp_conn.h:28` says `NUL` for
`NULL`. The models read both as they are plainly meant.

## 2. Modules

    Handoff  <--implements--  Dispatch     <-- DispatchProofs
    ConnDeque                 (the queue of Dispatch, in memory)  <-- QueueProofs
    Transfer <--implements--  Download     <-- DownloadProofs
             <--implements--  ListSend     <-- DataProofs
                              Upload       <-- UploadProofs
    CommandStream             (bytes to commands; each command is one of the next three)
                                           <-- ControlProofs
    SessionCommands           (USER, PASS, the address of PASV; EXTENDS UserFile)
                                           <-- ControlProofs
    FileCommands              (the file system's commands; EXTENDS FileTree)
                                           <-- FileCommandsProofs
    DataSession               (PASV and the data commands; a transfer is one step,
                               its inside is Download, ListSend and Upload)
                                           <-- DataProofs
    Descriptors               (what all sessions and threads hold of the process)
                                           <-- DescriptorsProofs
    ThreadPool                             <-- QueueProofs

Three of the proof modules are about two models each: the two queues between threads,
the two models of the data connection, and the two of the control connection. One model
of each pair has a prefix in the names both would have (`Deque`, `List`, `Stream`):
`DequeInv` and `StreamInv` are to ConnDeque and CommandStream what `Inv` is to the others.

Each model `M` has an instance `MCM` for TLC with the values of its constants.
Definitions whose comment starts with "Mutant:" are deliberately wrong forms of
the definition that follows; no specification uses them. They record which
mistake in the code each property would catch (`PROJECT.json`, `mutants`).
In several models `Inv` is the conjunction of the type invariant and of named state
invariants, each with its own comment: what must hold of the state at every moment.

### Dispatch (and Handoff)

One action for each step between which the other thread can be seen: `Accept`
(`handle_accept_event`), `SetFd` (`connection->fd_ = conn_fd`), `Push`
(`dispatch` up to `cq_.push`), `Attach` (the second line of `add_conn`), `Notify`
(the write to the pipe), and on a worker `ReadNotify`, `Take` and `OpenBev`.
`Construct` is the constructor of `Dispatcher`: the workers' threads run before
the workers have their server. The pipe has a capacity, and a full one blocks the
main thread. `Handoff` is the promise: rotation in the order of acceptance, and
each worker settles its connections oldest first.

### ConnDeque

`Dispatch` takes a push on `cq_` and a pop from it as atomic. `ConnDeque` has the queue
of one worker as the library (libstdc++, GCC 12) lays it out: blocks of pointers, a map
of the blocks, and the two ends. A push that finds no entry left moves or replaces the
map and tells `start` where its entry is (`PushGrows`, `MoveEntries`); a pop that leaves
a block follows the map from `start` (`PopLeaves`, `Leave`). Nothing else of one thread
touches what the other uses. The model ends when the two happen together (`overlap`).
Checked is that this takes a worker that has as many connections waiting as a block
holds, 64 in the server: until then the queue works without a lock, and `Dispatch` is
right to take its operations as atomic.

### DataSession

The server's actions are callbacks of one event loop, which run one at a time in
any order. `req_queue_` is modelled by its memory (`slots` and `front`), because
the code takes `front` and pops without asking `empty`: on an empty queue the
value is a slot that was never written, NULL or anything, and the cursor then
stands past the end. The client opens one data connection for each command, in
order, before or after the server handles the command, and none for a command it
has seen refused. `FdsInUse` counts the descriptors the session's code keeps
open: the files of STOR and RETR are never closed, nor is the directory of a LIST that
was refused half way (`"left open"`).

A behaviour of the model stops where the program's becomes undefined (`undefined`
names the reason), so the invariants speak of the program as far as it is defined.

### Download, ListSend, Upload (and Transfer)

One step for each system call that `readn` and `writen` make, with every number
of bytes a call may move. `pc` is where the callback is and `"loop"` means that
it has returned. In `Download` the value -1 of `readn` is stored in a `size_t`,
so it becomes `Wrapped`, the largest size, and later the count of a write, which
fails. The variable `client` changes when the server's kernel learns that the
peer has closed; a write then fails or raises SIGPIPE. In `Upload` the variable
`cut` records why bytes were dropped: an empty connection in the middle of a
block, or a write to the file that failed after a part of it.
`Transfer` is the promise: the bytes go out in order and once each, and the
transfer is called complete only after the last.

What `ListSend` sends is made by `get_dir_info` from the directory's entries, as
`readdir` gives them, one call for each (`list_info`, a recursive function, as
`for_each_in_dir` loops); `Listing`, the source of the abstract transfer, says the same without the two strings: the directories, then
the files, and the 0 that the size of the buffer counts. The text of a line is taken
as it comes.

### FileCommands (and FileTree)

The handlers of CWD, CDUP, MKD, DELE, RMD, RNFR and RNTO and the part of LIST
that reads the directory, one step for each system call, for sessions on
different workers: between the test of a path and the call that acts on it any
other session may move. `job` holds how far `rm` has come as one frame for each
directory it has open, so the recursion of `file::rm` is a stack in the state.
Paths are sequences of the parts between slashes, with empty parts kept: "" and
"/" differ as they do in the code (`Cdup`, `ListPath`), and a relative LIST goes to the
process's working directory, not the session's. `FileTree` is the file system
below: inodes, directories and symbolic links, and the result of `stat`, `mkdir`,
`unlink`, `rmdir` and of the command `mv`. An unlink or a rename is atomic there, and
`mv` is taken as one step. `mkdir`, `rmdir` and `rename` pass over slashes at the end of
a path (`Trimmed`), and `rmdir` does not take one that ends in "." or "..".

RNTO gives `mv` and its two paths to a shell in one line, without quotes
(`ftp_server.cpp:707-708`), after it has tested the path as it stands. `Special` are the names a
shell does not read as they are. When both paths are free of them (`AsMeant`) `mv` gets
what was tested; otherwise the step may leave any tree of the constant `Outcomes`, whatever
that is. `Outcomes` is well formed, as trees are, and nothing else is assumed of it.

`Refuse` is any call of a handler that the system refuses although the tree would allow
it: no descriptor is left (`rm` has one open for each level of a tree, and every transfer
leaks one), a permission is missing, a path is too long (`for_each_in_dir` cuts it off
at 512 bytes), the fork of `system` fails. A test of a path then says no, `readdir` says
that there is nothing more, and each other call takes its error path. `Refused` bounds whose calls
TLC lets fail; the proofs hold with all of them.

The history variables `alone`, `reach`, `plain` and `disturbed` say of each command
whether another session changed the tree while it ran or a call of it was refused, what its
path has led to, of a DELE or RMD whether its path was `Plain` when it began, and of a session
how many of its commands were not alone.

### CommandStream

The control connection delivers the bytes of the client's lines in pieces of any
size. `ReadEvent` is `handle_read_event`: the bufferevent appends what has arrived to
its input and calls the callback once, which takes at most `BufSize` bytes and treats
them as one command (`Parsed`, `Call`); the rest waits until more bytes arrive.
A call of the callback is not a reply: a LIST, RETR or STOR that was accepted returns
without one (`Quiet`), and stays in `silent` until its data connection is there
(`DataReply`, which stands for `pasv_accept` and the start of the transfer). `opens`
says if the client opens that connection without waiting for the reply.
A byte carries the line and place it came from, so a property can say whose bytes a
handler got. A piece that fills the buffer leaves no room for the byte that ends the
string: the build decides what that does, so `broken` is a choice. The history
variables `unasked` and `cut` say if the client has sent without waiting and if a line
was cut.

### UserFile and SessionCommands

`UserFile` is `get_user_list` before any thread runs, one step for each `read` of a
byte, with the lines `read_line` skips, the last line that needs no newline, and the
`exit` when a line is too long or a read fails; `EntryStarts`, `EntryAfter` and `Place`
are what the file says, by lines. `SessionCommands` continues with the sessions: USER and PASS are one step, as
the list does not change any more. PASV is one step for each access to `local_ip_`,
which the sessions of all workers share without a lock: the test, the accesses of
`assign`, and the two reads of the copy. `assign(const char*)` of the library (libstdc++,
GCC 12) reads the length twice, once to say how many characters are replaced (`ReadSize`)
and again in `_M_replace` (`ReadOldSize`); it moves what is behind those characters, stores the new
ones (`SetChars`), and sets the length and the character that ends the string (`SetLength`).
When another worker sets the length between the two reads the assign is `torn`: the old
address is moved behind the new one, and the doubled address stays for good. `Capacity` is that of
the buffer a short string has in itself, 15 in the library, and an address always fits
it; a string that outgrows it, or one that shrinks between the two reads, is followed no
further. A client has connected to one of the server's addresses.

### Descriptors

`table` says which open file each descriptor number stands for, and the sessions'
variables which number they believe to have: the control connection, the listener
that every session has from its construction, and the data connection. `leaked` is what
was opened and has nobody to close it (`Leak`): the file of each RETR and STOR, the directory of each
LIST that was refused half way (`RefuseList`), and a data connection whose `event_new`
failed. The kernel gives the lowest free number, and `Close` frees a number
whatever it stands for by then. Deleting a session closes one number after another,
the listener's twice if the session has sent PASV (`CloseListener`,
`DestroySocket`), and each close is a step, between which the main thread and the other
workers may open; the control connection is closed last, by libevent, at once or after
other callbacks. The model ends when an assertion fails (`aborted`) or when a thread
has closed what another owns (`harm`), because nobody knows what happens then.

### ThreadPool

A critical section under the pool's mutex is one step, which is exact because
everything shared is used under it except three accesses that are steps of their
own: the test of `shutdown` at the top of `run_in_thread`, its assignment in
`start`, and the destructor's loop over the tasks that are left. A wait gives the
mutex up, so it ends one step and the return from it starts another; wake-ups may
be spurious. The server does not use the pool: its users are modelled as the
class allows them, task handlers that add tasks included.

## 3. Runs

| Run | Question | Bounds and why they are enough |
|---|---|---|
| `dispatch` | no connection lost, doubled, out of order or incomplete | 3 workers, 5 connections, pipe of 1 byte: the rotation comes round, a worker has two connections at once, the main thread is held up by a full pipe |
| `conn_deque` | the threads on one queue without a lock | blocks of 3, a first map of 5, pipe of 8, 30 connections: the map is moved and is replaced, and the worker falls more than a block behind |
| `data_session` | a request is in one place, ends once, and meets its own connection | 3 commands of every kind, 6 descriptors, 4 pops: connections early and late, the queue empty, descriptors exhausted, the session closed anywhere |
| `download` | the file goes out whole or the transfer is aborted | 7 bytes, buffer 3, connection 2: two full blocks and a rest, a full connection in the middle of a block; a read or write may fail at any point |
| `upload` | what the file holds | 8 bytes, buffer 3, connection 4: full and partial blocks, empty connection at any byte, short writes |
| `list_send` | the list has every entry and goes out in order | 3 entries, files and directories mixed, 7 bytes, connection 3: three returns of the callback |
| `file_commands` | what disappears was named, an undisturbed removal is whole, handles are closed, handlers return | 2 sessions, 1 and 2 commands (RNFR and RNTO need two), 1 free inode, paths through at most 2 links, and two trees: 3 levels with a link that leads nowhere (`MCTree`), and a link to the directory it is in (`MCCycle`), down which `rm` goes until a path leads through too many links. One path is a pattern to the shell of RNTO; the calls of one session may be refused. Another session's change falls between any two system calls of a command. 657,247 states |
| `thread_pool` | every task once, oldest first, no lost wake-up, shutdown ends | 3 threads, queue of 2, 5 tasks: waiters to choose from, a full queue, all threads busy |
| `command_stream` | a handler gets one line, a waiting client its replies | 3 lines, buffer 8: lines with and without argument, a data command, an unknown one, two lines that fill the buffer together, one longer than it; every way to cut and to join them. 289,106 states |
| `session_commands` | users as the file says, logins by them, a whole address in every reply | all files of up to 4 characters and 5 longer ones, lines of 5; 2 sessions, addresses of length 1 and 2, buffer 3, 4 commands: both test before either stores, a copy falls between the writes of an assignment, an assign falls between the reads of another. 6,424,827 states |
| `descriptors` | who holds each descriptor, and whom the double close can hit | 3 sessions, 2 workers, 6 numbers, 1 data command each: numbers are reused, leaked and run out; one session's deletion meets the accept of another and the transfer of a third. 2,409,425 states |

The last run checks a claim of the code that its behaviour does not bear out; the
counterexample is the finding (`PROJECT.json`, `findings`):

| Run | Claim refuted | Behaviour |
|---|---|---|
| `upload_blocking` | "226 Transfer complete" (`ftp_server.cpp:870`) | the connection is empty for a moment within a block |

More disagreements are steps of the models and not given a run:

- `local_ip_`, by its comment the "local ip client connected to" (`ftp_server.h:95`), is
  the address of the first session that used PASV, for all sessions: on a server with
  two interfaces the others are told a wrong address, which is why `WholeAddress`
  speaks of servers with one;
- a data connection that arrives before its command takes the front of an empty
  queue, which the code expects to be NULL (`ftp_server.cpp:911`; DataSession,
  `"garbage request"`), and a transfer that runs when its session is freed replies
  through it (`"freed session"`);
- a write to a connection that the client closed is to be answered with 426
  (`ftp_server.cpp:824`) but may raise SIGPIPE (`"killed"` in Download), and a list
  whose write failed ends with "226 Directory send OK" (`"broken"` in ListSend);
- the constructor of the next session's listener asserts that there is a descriptor
  (`socket.cpp:15`) and ends the process when there is none (`aborted` in
  Descriptors), and the second close of a listener can close another session's new
  connection (`harm`);
- each call of `download_file_cb` replies 150 (`marks`), the test `n < 0` of
  `ftp_server.cpp:771` never holds (`ReadError` goes on to `"send"` with the size
  `Wrapped`), and a write to the uploaded file that fails after a part of a block
  is taken for a success (`"disk"` in `cut`);
- RNTO tests the path it was given and lets a shell read it: RNTO to a pattern tests a name
  that does not exist and replaces the file the pattern matches, and a name with a blank or a semicolon
  is more than one word or command (`AsMeant` in Rnto). `LossExplained` excepts such lines;
- a LIST, RETR or STOR that is accepted has no reply until the data connection is
  accepted (`ftp_server.cpp:482,519,555`): a client that waits for the reply before it opens
  the connection waits for ever (`WaitsForData` in `WaitEnds`), and so does one whose server
  has no descriptor left for the connection or gets no event for it;
- `local_ip_` can get the address twice in a row when two sessions assign it at the same
  time, and every later PASV then replies with it (`torn` in SessionCommands);
- a session that has named no user logs in with an empty password (`ftp_server.cpp:239`):
  `LoginByFile` speaks of sessions that have named one;
- RNFR of a missing path replies 550 and 350, two sessions can both be told that
  they made one directory (`MakeDir`), RNTO replies 250 whatever `mv` did and
  replaces a link that leads nowhere, which its tests with `stat` take for a free name
  (`BrokenLink` in `LossExplained`);
- RMD of a link, or of a path that ends in "/.", empties the directory it leads to and
  then replies 550, because `rmdir` takes neither: `RemovalWhole` speaks of paths on which
  there is no link and that do not end so (`Plain`);
- what follows a line in one piece with it is dropped, and a piece of a line can be
  taken for a command of its own, so `WaitingClientServed` speaks of a client that
  waits and of lines that are not cut;
- the destructor of the thread pool takes the front of an empty queue after the last
  task that was left (`undefined` in ThreadPool).

Every run with a finite life ends without a successor, so deadlock is not checked
there, but for `file_commands`, whose one final state is the action `Finished`; that the waiting ends is checked by the liveness properties instead.

### Fairness

Only steps the server must take are fair. The operating system runs every thread,
and an event loop calls a callback whose descriptor is ready: weak fairness of
`MainStep` and each `WorkerStep` (Dispatch), `PasvAccept` (DataSession), the
`Server` steps of a transfer, `ReadEvent` while bytes are on their way
(CommandStream), and the steps of each pool thread that is not
waiting (ThreadPool; a handler returns, a spurious wake-up is never forced).
`DataReply` is fair as well: a request and the connection opened for it meet, as
`WaitersMeet` shows, in a process with descriptors to accept it.
`FileCommands` writes the weak fairness of a handler out, with "the handler has not
returned and is not at `mv`" for ENABLED, because TLC is slow to find out whether a step exists that
reads the tree; that such a handler is never without a step is the deadlock check. The shell that
RNTO runs is not the server's, and may wait for ever: nothing is assumed of it.
Clients are not fair, with one exception that is a limit of the code: no transfer
has a timeout, so that a download or list ends is shown for a client that reads
what has arrived or leaves (`WF_vars(Receive)`). An upload's end is shown from
the moment the client closes or resets the connection.

## 4. Proofs

Each theorem holds for every value of its model's constants that satisfies the named
assumptions in the modules that declare them (`ConstAssumption`, or one with the name of
the model: `DequeAssumption`, `ListAssumption`, `UserFileAssumption` and
`SessionAssumption`, `TreeAssumption` and `CommandAssumption`), and for behaviours of any length.
What `CommandAssumption` says of the tree at the start is what a file system guarantees: the root
is a directory, everything else is in a directory, and two entries of one have two names. None
of the invariants below is inductive as a run checks it: each proof has an `IInv`
that implies it, which TLC has checked on the instance of the run, the lemma that `Next`
keeps it with one step for each action, and the theorem `IInvHolds`. The
proof modules hold each its own few general lemmas. The least member of a set of numbers
exists by `WFMin` of WellFoundedInduction (`MinIsLeast`, `MinMember`). Induction over
numbers goes by the set of those for which the claim holds (`UpTo`: a set that contains
`a`, and with each number of `a .. b` the next, contains `a .. b`). And a function
that is defined from its own value one place before exists and is
what its definition says (`RecursionExists`): the definition is a CHOOSE, about which
nothing is known before.

**Dispatch** (any number of workers and connections, any pipe): `TypeCorrect`,
`NotifyAccounted`, `NoEmptyPop`, `OpenedReady`, `HeldOnce`, `HandoffInOrder`.
`NotifyAccounting` and the type invariant imply that no empty queue is popped, but they
do not say what a queued connection holds: the push comes before the worker is attached.
`IInv` therefore adds that every queued connection is `Ready` (descriptor stored,
attached to the queue's worker, dispatched), except the last one of the queue the main
thread is working on (`Fresh`), which has no byte in the pipe yet. That exception
cannot be taken, by `NotifyAccounting`. That a connection is in one place (`HeldOnce`)
needs a second invariant, `OrderInv`: the rotation gives the worker of each connection as
a function of its number, a queue holds only its worker's connections, sorted, and
every one that was pushed and not settled is queued or being opened (`PlacesInv`). The
same facts prove `HandoffInOrder`: every step of `Dispatch` settles the oldest connection
of its worker, as `Handoff` says, or is a stutter of it. This is all of `ImplementsHandoff`
but the fairness of `Handoff`.

**ConnDeque** (any size of a block and of the first map, any number of connections):
`QueueInvariant`. `TakesOldest` speaks of the cell at the front alone; `IInv` says where
both ends stand as functions of the numbers pushed and popped (`EndsInv`), that a worker
takes no more than it was told of (`CountInv`), that the map has every block between the
ends (`MapInv`), and that each waiting connection is in the cell of its number (`CellsInv`).
That the two threads meet only when a block of connections waits is then arithmetic.

**CommandStream** (any lines, commands and size of the buffer): `StreamInvariant`,
`WaitingServed`. That a handler gets one line says nothing of the bytes not yet taken, on
which the next call depends. `StreamIInv` adds that these are the end of what was sent,
neighbours in order (`RestInv`), that they begin with a line as long as no line was cut
(`CutInv`), and that every line handled is before them (`OrderInv`). `WaitInv` is what a
client that waits keeps: at most its last line is under way, whole, and the callback was
called for each line before it.

**DataSession** (any number of commands, descriptors and pops): `SessionInvariant`,
`OwnTransfers`, `TransferEndsOnce`. `LossBounded` is kept by a potential: the slots that
the cursor stands past the end (`Overrun`), each of which loses one request when it is
pushed, count with those already lost (`LossInv`). `OwnTransfers` needs to know, of a
client in step, which of its connections wait at the listener: those of the requests at
the front of the queue, and none for those behind (`AlignInv`). `TransferEndsOnce` needs
that a request whose transfer ended is behind the cursor (`EndedInv`) and paired once
(`PairsInv`), so that no later event or destructor finds it.

**Download** (any file, buffer and connection; `size_t` has more than twice as many
values as the buffer has bytes): `TypeCorrect`, `NoByteSkipped`, `ErrorStops` and
`Implements`, the refinement of `Transfer`. `IInv` says that what was sent is a prefix
of the file (`SentPrefix`), that the buffer holds the block read last (`BufBlock`), that
the first ends where the rest of the second begins (`Position`), and what `size` is
at each point of the callback (`SizeInv`); without the last a return from the
middle of a block could not be told from a new block. `Position` is kept in
sums, not differences, which the SMT backend handles much better.

**ListSend** (any entries, lines and connection): `ListInOrder`, `ListType`,
`ListImplements`. The first is a lemma about the algorithm: the recursion over the entries
keeps the two lists apart, so that in the end the directories come first, whatever the order
of `readdir`; the induction is over the number of entries read. The refinement of
`Transfer` then needs that what was sent is the beginning of the list up to `offset` and
`written` (`ListSentPrefix`), across every return of the callback, and that a callback that
found nothing left to send has sent all of it (`ListFinalInv`).

**Upload** (any file, buffer and connection): `UploadInvariant`, `WholeOnSuccess`. `IInv`
says what the buffer holds (`BufferInv`), that nothing stored is still to be dealt with
(`StoredInv`), that without a cut the file is all that was dealt with (`WholeInv`),
and that 226 comes at the end of the connection with nothing left (`CompleteInv`).

**ThreadPool** (any threads, any bound of the queue, any number of tasks):
`PoolInvariant`, `NoLostWakeup`, `NothingBegunAfterShutdown`. The last needs that
`shutdown` is set whenever the owner is joining (`LifeInv`), also for a thread that tested
it before and is about to lock the mutex. The destructor's loop takes tasks without counting them, so that `queue_len`
is the queue's length only until then (`DrainInv`).

**Descriptors** (any number of sessions, workers and numbers): `DescriptorInvariant`,
`OnlyDoubleCloseHarms`. `Inv` counts what is open; it does not say who may have opened a
listener's number between its two closes. `OnceInv` does: the session still knows the
number, and its own thread, which is in the destructor, has opened nothing there.
`HeldInv`, `OpenIsDue` and `OneNumber` say that what a session holds is open under the
number it knows, and that nothing else is but what was
leaked; `LeakedKnown` says that this is of a command that was handled and in nobody's hand. All of this ends with the first harm, and
`HarmIsDoubleClose` says what that was.

**SessionCommands** (any files of users, addresses, sessions and commands):
`SessionInvariant`, `LoginIsByFile`, `AddressIsWhole`. The first
says what `get_user_list` computes from a file of any length, which is provable
because the loop is steps of the model and not a recursive operator: `LineInv` says that
`buf` has the line so far, `ListInv` that the list has the entries of the lines before
it, each in its place. `AddressInv` is about servers with one interface. Every assign stores the
same characters over the same characters, so that once the length is set the string
begins with the whole address, and a copy is never shorter (`SharedInv`): a torn assign moves
what is behind the address, never what is in front. As long as none was torn, the two lengths of each
assign agree, and every copy and reply is exactly the address (`UntornInv`).

**FileCommands** (any tree that is one, any links, paths, commands and sessions):
`CommandsInvariant`, `LossIsExplained`, `RemovalIsWhole`. `Inv` counts the handles of sessions that are idle;
`IInv` says of each session at every call which handles are of the frames `rm` has on its
stack and which are lost (`Handled`), what a job can look like there (`Stage`), that a LIST
nobody disturbed, and no call of which was refused, still has the names of the directory it opened, so that it finds them all and
loses no handle (`Listed`), what the tests of an undisturbed RNTO have found (`Renamed`), and
that `rm` is below the path it was given (`Removing`). Why a file
that `rm` unlinks was reached by the command's path takes three facts of the tree, which are
lemmas about `FileTree`: a tree whose nodes are in directories that are in it, each under
a name of its own there, stays one after every call (`WellFormed`); `Walk`, a recursion over the components of a path, is
decided by them one after another (`WalkFacts`, `WalkAgree`); and the set `Reach` is closed
under entries and links (`ReachFacts`, because a set that grows by at least one node each
time cannot grow more often than there are nodes), so that it contains what any path
below the first leads to (`ReachCovers`). `LossExplained` was first stated without the link
that leads nowhere. The proof of the step `Rnto` failed there, because its tests follow the
link and `mv` does not; the run has a tree with such a link since then. Of a line that the shell takes apart the
proofs use that what it leaves is a tree, and no more.

`RemovalIsWhole` needs as its invariant all that a depth-first walk has done and has left to
do (`RemovalInv`). A plain path leads down to its node by a trail of directories, with no
link and not up (`Leads`), and stays such a path while other nodes go (`LeadsKept`). What
`reach` holds is the tree under that node (`Doomed`): closed under entries, contained in
whatever holds the node and the entries of what it holds, and entered from outside only at
its top, so that nothing of it is left once the top has gone (`DoomedGone`). Each frame of
`rm` is a directory on one way down, and its `todo` is exactly the names of what is still
there but for the next frame's directory (`Frames`). So a directory whose `todo` is empty is
empty and `rmdir` succeeds (`FramesDone`, `RmdirLeads`), an entry that was read is still there and is not one
of the open directories (`FramesNext`), and no call can fail once the first `stat` found the
path, unless the system refuses it: `rm` then replies 550, which `RemovalWhole` allows. TLC checked `RemovalInv` on the instance of the run before it was proved.
The proof is why `FileTree` has `Trimmed`: `rmdir` had failed there for a directory
whose path has a slash at its end, which is not what a system does.

Model-checked only:

- liveness, because the prover has no ENABLED: `EventuallySettled`, `WaitersMeet`, `Ends` of
  Download and ListSend, `EndsWithClient`, `TasksHandled`, `JoinsReturn`,
  `HandlersReturn`, `WaitEnds`, and in `ImplementsHandoff` the fairness.

What a library operator computes (`FoldLeft` and the others that take an operator) has no
usable rule in the prover: the models that are proved about say it with recursive
functions instead.

## 5. What is not modelled

- Memory exhaustion: `new` throws, and the code's tests for NULL are dead.
- What happens after two threads collided on one `std::queue` (`overlap` in ConnDeque):
  a worker that is a whole block behind may follow an entry that is being moved.
- Printing to standard output, also the transfers' copy of every block to it.
- The text of replies and of the lines of directory lists, and that a name of more
  than about 180 characters makes a line longer than its 256 bytes.
- A reply that a control connection takes only a part of, and SIGPIPE from one.
- A file of users that cannot be opened: an assertion ends the process at once.
- Failures of `getsockname`, `bind` and `listen`, which nobody tests, and the
  conversions of addresses in `net_addr.cpp` and `sock_opr.cpp`.
- libevent itself: an event loop calls the callback of an event that is ready, and
  does not call one that was deleted.
- A file that changes while it is sent.
- Why the system refuses a call (descriptors, permissions, mount points, lengths): `Refuse` may
  happen at any call, and `RemovalWhole` promises all or nothing only to commands without one.
- What a command line other than `mv` of two paths does when the shell of RNTO takes it apart,
  beyond leaving a tree, and what happens to the process meanwhile.
- The addresses of a server with two interfaces, beyond that the wrong one is replied.
- Calls of the pool the class does not guard against: destroying a pool that was
  never started, starting it twice.
- The components marked `not_modelled` in `PROJECT.json`, see the plan.

## 6. Plan

1. Done: Dispatch with Handoff and proofs; DataSession; Download, ListSend and
   Upload with Transfer, proofs of Download; ThreadPool; FileCommands with FileTree.
2. Done: Descriptors; CommandStream; UserFile and SessionCommands; ConnDeque; the making
   of the list in ListSend.
3. Done: the proofs of section 4, of the type and state invariants of every model, of every
   action property, and of the three refinements. Liveness stays with the runs.
