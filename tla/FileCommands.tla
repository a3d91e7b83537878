---------------------------- MODULE FileCommands ----------------------------
(***************************************************************************)
(* The commands that look at and change the file tree, CWD, CDUP, MKD,     *)
(* DELE, RMD, RNFR, RNTO and the reading of a directory in LIST            *)
(* (ftp/ftp_server.cpp, base/file_opr.cpp), for sessions on different      *)
(* workers.  The handlers test a path, then act on it, and rm walks a tree *)
(* by paths; each system call is one step, and between two of them the     *)
(* other sessions may change what was seen.                                *)
(***************************************************************************)
EXTENDS FileTree

CONSTANTS Sessions,
          Trees,     \* what the tree may be at the start
          Outcomes,  \* what a line that the shell takes apart may leave
          Home,      \* cur_work_dir_ of a new session
          ProcDir,   \* the working directory of the process
          Args,      \* the arguments the client of each session sends:
                     \* sets of [abs, path] records
          MaxCmds,   \* how many commands each session handles (a bound)
          Refused    \* the sessions of which calls may be refused (a bound)

ASSUME CommandAssumption ==
    /\ Trees \cup Outcomes \subseteq [Nodes -> Node]
    /\ \A tree \in Trees \cup Outcomes :
          /\ tree[Root].kind = "dir" /\ tree[Root].up = Root
          /\ \A n \in Live(tree) : IsDir(tree, tree[n].up)
          /\ \A n \in Live(tree) \ {Root} :
                tree[n].name \in Names /\ Entry(tree, tree[n].up, tree[n].name) = n
    /\ Home \in Seq(PathComponents) /\ ProcDir \in Seq(PathComponents)
    /\ \A s \in Sessions : \A arg \in Args[s] :
          arg.abs \in BOOLEAN /\ arg.path \in Seq(PathComponents) \ {<<>>}
    /\ MaxCmds \in [Sessions -> Nat] /\ Refused \subseteq Sessions

VARIABLES
    fs,           \* the file tree
    cwd,          \* cur_work_dir_ of each session
    rename_path,  \* rename_path_ of each session
    pc,           \* the next system call of each session's handler
    job,          \* the command of each session, its path, and how far rm or
                  \* for_each_in_dir has come: the path it is at and a frame
                  \* for each directory it has open
    reply,        \* the last reply of each session
    handles,      \* the directory handles each session has open
    left,         \* how many commands each session may still handle
    alone,        \* no other session changed the tree during the command,
                  \* and no call of it was refused
    reach,        \* all that the path of a DELE or RMD has led to so far
    plain,        \* a DELE or RMD has been alone, and its path was Plain
                  \* when it began
    disturbed     \* how many commands of each session were not alone

state   == <<fs, cwd, rename_path, pc, job, reply, handles, left>>
history == <<alone, reach, plain, disturbed>>
vars    == <<state, history>>

Commands == {"CWD", "MKD", "DELE", "RMD", "RNFR", "RNTO", "LIST"}
NewJob(cmd, path) == [cmd |-> cmd, path |-> path, at |-> <<>>, stack |-> <<>>]
NoJob == NewJob("none", <<>>)

Init ==
    /\ fs \in Trees
    /\ cwd = [s \in Sessions |-> Home]
    /\ rename_path = [s \in Sessions |-> <<>>]
    /\ pc = [s \in Sessions |-> "idle"]
    /\ job = [s \in Sessions |-> NoJob]
    /\ reply = [s \in Sessions |-> "none"]
    /\ handles = [s \in Sessions |-> 0]
    /\ left = MaxCmds
    /\ alone = [s \in Sessions |-> TRUE]
    /\ reach = [s \in Sessions |-> {}]
    /\ plain = [s \in Sessions |-> FALSE]
    /\ disturbed = [s \in Sessions |-> 0]

-----------------------------------------------------------------------------
RealPath(s, arg) == IF arg.abs THEN arg.path ELSE cwd[s] \o arg.path

\* LIST does not use real_path: no argument is the working directory, and a
\* relative one is left to the working directory of the process.
ListPath(s, arg) ==
    IF arg.abs THEN arg.path
    ELSE IF arg.path = <<"">> THEN cwd[s]
    ELSE ProcDir \o arg.path

Goto(s, l) == pc' = [pc EXCEPT ![s] = l]
At(s, l) == pc[s] = l
Cmd(s) == job[s].cmd
Path(s) == job[s].path
Top(s) == Head(job[s].stack)

\* The handler replies and returns.
End(s, r) ==
    /\ Goto(s, "idle")
    /\ reply' = [reply EXCEPT ![s] = r]
    /\ job' = [job EXCEPT ![s] = NoJob]

Begin(s, cmd, arg) ==
    /\ At(s, "idle") /\ left[s] > 0
    /\ left' = [left EXCEPT ![s] = @ - 1]
    /\ job' = [job EXCEPT ![s] = NewJob(cmd,
            IF cmd = "LIST" THEN ListPath(s, arg) ELSE RealPath(s, arg))]
    /\ reply' = [reply EXCEPT ![s] = "none"]
    /\ Goto(s, IF cmd = "DELE" THEN "test file" ELSE "test dir")
    /\ UNCHANGED <<fs, cwd, rename_path, handles>>

\* What is before the last slash, the empty string when that is the first.
Cdup(s) ==
    /\ At(s, "idle") /\ left[s] > 0
    /\ left' = [left EXCEPT ![s] = @ - 1]
    /\ cwd' = IF cwd[s] \in {<<>>, <<"">>} THEN cwd
              ELSE [cwd EXCEPT ![s] = Front(@)]
    /\ reply' = [reply EXCEPT ![s] = "250"]
    /\ UNCHANGED <<fs, rename_path, pc, job, handles>>

-----------------------------------------------------------------------------
(* The tests of a path at the start of the handlers.                       *)

is_dir_exist(path) == IsDir(fs, Stat(fs, path))
is_file_exist(path) ==
    LET n == Stat(fs, path) IN n # None /\ fs[n].kind = "file"

AfterDir(cmd) == CASE cmd = "MKD"             -> "make_dir"
                   [] cmd = "RMD"             -> "rm"
                   [] cmd = "LIST"            -> "opendir"
                   [] cmd \in {"RNFR","RNTO"} -> "test file"

\* The test whether the path is a directory has said so, or not.
TestDir(s, is) ==
    /\ At(s, "test dir")
    /\ \/ /\ Cmd(s) = "CWD" /\ End(s, IF is THEN "250" ELSE "550")
          /\ cwd' = IF is THEN [cwd EXCEPT ![s] = Path(s)] ELSE cwd
          /\ UNCHANGED rename_path
       \/ /\ Cmd(s) = "RNFR" /\ is /\ End(s, "350")
          /\ rename_path' = [rename_path EXCEPT ![s] = Path(s)]
          /\ UNCHANGED cwd
       \/ /\ Cmd(s) \in {"MKD", "RNTO"} /\ is /\ End(s, "550")
          /\ UNCHANGED <<cwd, rename_path>>
       \/ /\ Cmd(s) \in {"RMD", "LIST"} /\ ~is /\ End(s, "550")
          /\ UNCHANGED <<cwd, rename_path>>
       \/ /\ is = (Cmd(s) \in {"RMD", "LIST"}) /\ Cmd(s) # "CWD"
          /\ Goto(s, AfterDir(Cmd(s)))
          /\ UNCHANGED <<cwd, rename_path, job, reply>>
    /\ UNCHANGED <<fs, handles, left>>

\* The test whether the path is a file has said so, or not.  RNFR of nothing
\* replies 550, and then takes the path and replies 350.
TestFile(s, is) ==
    /\ At(s, "test file")
    /\ \/ /\ Cmd(s) = "RNFR" /\ End(s, IF is THEN "350" ELSE "550 350")
          /\ rename_path' = [rename_path EXCEPT ![s] = Path(s)]
       \/ /\ Cmd(s) # "RNFR" /\ is = (Cmd(s) = "RNTO")
          /\ End(s, "550") /\ UNCHANGED rename_path
       \/ /\ Cmd(s) = "RNTO" /\ ~is /\ Goto(s, "mv")
          /\ UNCHANGED <<rename_path, job, reply>>
       \/ /\ Cmd(s) = "DELE" /\ is /\ Goto(s, "rm")
          /\ UNCHANGED <<rename_path, job, reply>>
    /\ UNCHANGED <<fs, cwd, handles, left>>

-----------------------------------------------------------------------------
\* make_dir tests the path a second time, and a directory is then a success.
MakeDir(s, is) ==
    /\ At(s, "make_dir")
    /\ IF is THEN End(s, "257")
       ELSE Goto(s, "mkdir") /\ UNCHANGED <<job, reply>>
    /\ UNCHANGED <<fs, cwd, rename_path, handles, left>>

MkdirCall(s) ==
    /\ At(s, "mkdir")
    /\ fs' = Mkdir(fs, Path(s))
    /\ End(s, IF fs' # fs THEN "257" ELSE "550")
    /\ UNCHANGED <<cwd, rename_path, handles, left>>

\* system("mv " + rename_path_ + " " + fpath), whose result is not looked at.
\* The shell finds the two paths in the line if both are literal; otherwise
\* the line may mean anything.  rename_path_ stays.
AsMeant(s) == Literal(rename_path[s]) /\ Literal(Path(s))
Rnto(s) ==
    /\ At(s, "mv")
    /\ IF AsMeant(s) THEN fs' = Mv(fs, rename_path[s], Path(s)) ELSE fs' \in Outcomes
    /\ End(s, "250")
    /\ UNCHANGED <<cwd, rename_path, handles, left>>

-----------------------------------------------------------------------------
(* rm, and for_each_in_dir.                                                *)

OpenHandles(s) == Len(job[s].stack)

\* Mutant: an error in a directory leaves it open.
RmFailKeepsOpen(s) == End(s, "550") /\ UNCHANGED handles
\* Every call of rm closes its directory and returns the error.
RmFail(s) ==
    /\ End(s, "550")
    /\ handles' = [handles EXCEPT ![s] = @ - OpenHandles(s)]

\* A call of rm on path, from the frames in stack: stat.
RmStat(s, path, stack) ==
    LET n == Stat(fs, path)
    IN IF n = None THEN RmFail(s)
       ELSE /\ Goto(s, IF IsDir(fs, n) THEN "opendir" ELSE "unlink")
            /\ job' = [job EXCEPT ![s].at = path, ![s].stack = stack]
            /\ UNCHANGED <<reply, handles>>

Rm(s) ==
    /\ At(s, "rm")
    /\ RmStat(s, Path(s), <<>>)
    /\ UNCHANGED <<fs, cwd, rename_path, left>>

OpenDir(s) ==
    /\ At(s, "opendir")
    /\ LET path == IF Cmd(s) = "LIST" THEN Path(s) ELSE job[s].at
           frame == [path |-> path, dir |-> Stat(fs, path), todo |-> {}]
       IN IF IsDir(fs, frame.dir)
          THEN /\ Goto(s, "readdir")
               /\ job' = [job EXCEPT ![s].stack = <<frame>> \o @]
               /\ handles' = [handles EXCEPT ![s] = @ + 1]
               /\ UNCHANGED reply
          ELSE IF Cmd(s) = "LIST" THEN End(s, "451") /\ UNCHANGED handles
          ELSE RmFail(s)
    /\ UNCHANGED <<fs, cwd, rename_path, left>>

\* Mutant: rm does not pass over the entry "..".
SkippedOnlyDot(s) == IF Cmd(s) = "LIST" THEN {} ELSE {"."}
Skipped(s) == IF Cmd(s) = "LIST" THEN {} ELSE Dots

\* The entries of an open directory, as the first readdir gets them.
ReadDir(s) ==
    /\ At(s, "readdir")
    /\ LET d == Top(s).dir
           entries == {fs[n].name : n \in Children(fs, d)} \cup Dots
       IN job' = [job EXCEPT ![s].stack[1].todo =
                     IF d \in Live(fs) THEN entries \ Skipped(s) ELSE {}]
    /\ Goto(s, "next")
    /\ UNCHANGED <<fs, cwd, rename_path, reply, handles, left>>

\* rm calls itself for an entry.
RmEntry(s) ==
    /\ At(s, "next") /\ Cmd(s) # "LIST"
    /\ \E x \in Top(s).todo :
          RmStat(s, Append(Top(s).path, x),
                 [job[s].stack EXCEPT ![1].todo = @ \ {x}])
    /\ UNCHANGED <<fs, cwd, rename_path, left>>

\* Mutant: the result of the first call is returned.
RmDoneAtOnce(s, stack) == End(s, "250")
\* A call of rm succeeds, and the call that made it goes on.
RmDone(s, stack) ==
    IF stack = <<>> THEN End(s, "250")
    ELSE /\ Goto(s, "next")
         /\ job' = [job EXCEPT ![s].stack = stack]
         /\ UNCHANGED reply

RmDir(s) ==
    /\ At(s, "next") /\ Cmd(s) # "LIST" /\ Top(s).todo = {}
    /\ fs' = Rmdir(fs, Top(s).path)
    /\ IF fs' = fs THEN RmFail(s)
       ELSE /\ RmDone(s, Tail(job[s].stack))
            /\ handles' = [handles EXCEPT ![s] = @ - 1]
    /\ UNCHANGED <<cwd, rename_path, left>>

RmFile(s) ==
    /\ At(s, "unlink")
    /\ fs' = Unlink(fs, job[s].at)
    /\ IF fs' = fs THEN RmFail(s)
       ELSE RmDone(s, job[s].stack) /\ UNCHANGED handles
    /\ UNCHANGED <<cwd, rename_path, left>>

\* Mutant: the directory is read from the start after each entry.
ListEntryRewinds(s) ==
    /\ At(s, "next") /\ Cmd(s) = "LIST" /\ Top(s).todo # {}
    /\ Goto(s, "readdir")
    /\ UNCHANGED <<job, reply, fs, cwd, rename_path, handles, left>>

\* for_each_in_dir returns without closedir when an entry has gone.
ListEntry(s) ==
    /\ At(s, "next") /\ Cmd(s) = "LIST"
    /\ \E x \in Top(s).todo :
          IF LStat(fs, Append(Top(s).path, x)) = None THEN End(s, "451")
          ELSE /\ job' = [job EXCEPT ![s].stack[1].todo = @ \ {x}]
               /\ UNCHANGED <<pc, reply>>
    /\ UNCHANGED <<fs, cwd, rename_path, handles, left>>

ListEnd(s) ==
    /\ At(s, "next") /\ Cmd(s) = "LIST" /\ Top(s).todo = {}
    /\ End(s, "queued")
    /\ handles' = [handles EXCEPT ![s] = @ - 1]
    /\ UNCHANGED <<fs, cwd, rename_path, left>>

-----------------------------------------------------------------------------
\* The system refuses the call that a handler is at: there is no descriptor
\* or memory left, a permission is missing, the path is too long (for_each_
\* in_dir cuts it off at 512 bytes), or the fork of system() fails.  A test
\* then says no, and a directory is at its end.
Refuse(s) ==
    \/ TestDir(s, FALSE) \/ TestFile(s, FALSE) \/ MakeDir(s, FALSE)
    \/ /\ \/ At(s, "mkdir") /\ End(s, "550")
          \/ At(s, "mv") /\ End(s, "250")
          \/ At(s, "opendir") /\ Cmd(s) = "LIST" /\ End(s, "451")
          \/ At(s, "next") /\ Cmd(s) = "LIST" /\ Top(s).todo # {} /\ End(s, "451")
          \/ At(s, "readdir") /\ Goto(s, "next") /\ UNCHANGED <<job, reply>>
       /\ UNCHANGED <<fs, cwd, rename_path, handles, left>>
    \/ /\ pc[s] \in {"rm", "opendir", "next", "unlink"} /\ Cmd(s) # "LIST"
       /\ RmFail(s)
       /\ UNCHANGED <<fs, cwd, rename_path, left>>

\* A path with no link on it, nothing but directories and files below it,
\* that does not go up, and is not of the root or of the entry ".".
Plain(tree, path) ==
    /\ Follow(tree, Walk(tree, path)).links = 0
    /\ Root \notin Reach(tree, path)
    /\ \A n \in Reach(tree, path) : tree[n].kind # "link"
    /\ \A i \in DOMAIN path : path[i] # ".."
    /\ Last(Trimmed(path)) # "."

\* What the history says after a step of session s, or a refusal of one.
History(s, refusal) ==
    /\ alone' = [t \in Sessions |->
            pc'[t] = "idle" \/ (alone[t] /\ IF t = s THEN ~refusal ELSE fs' = fs)]
    /\ reach' = [t \in Sessions |->
            IF job'[t].cmd \in {"DELE", "RMD"}
            THEN reach[t] \cup Reach(fs', job'[t].path) ELSE {}]
    /\ plain' = [t \in Sessions |->
            /\ job'[t].cmd \in {"DELE", "RMD"} /\ alone'[t]
            /\ IF pc[t] = "idle" THEN Plain(fs', job'[t].path) ELSE plain[t]]
    /\ disturbed' = [disturbed EXCEPT ![s] =
            IF pc'[s] = "idle" /\ (~alone[s] \/ refusal) THEN @ + 1 ELSE @]

Handler(s) ==
    \/ TestDir(s, is_dir_exist(Path(s))) \/ TestFile(s, is_file_exist(Path(s)))
    \/ MakeDir(s, is_dir_exist(Path(s))) \/ MkdirCall(s)
    \/ Rnto(s)
    \/ Rm(s) \/ OpenDir(s) \/ ReadDir(s) \/ RmEntry(s) \/ RmDir(s) \/ RmFile(s)
    \/ ListEntry(s) \/ ListEnd(s)

Client(s) ==
    \/ \E cmd \in Commands, arg \in Args[s] : Begin(s, cmd, arg)
    \/ Cdup(s)

\* Every session has used up its bound: the one state that may be the last.
Finished ==
    /\ \A s \in Sessions : At(s, "idle") /\ left[s] = 0
    /\ UNCHANGED vars

Next ==
    \/ \E s \in Sessions : (Client(s) \/ Handler(s)) /\ History(s, FALSE)
    \/ \E s \in Refused : Refuse(s) /\ History(s, TRUE)
    \/ Finished

Moves(s) == pc'[s] # pc[s] \/ job'[s] # job[s]

(* A worker goes on with the handler it is in, but for the shell of an     *)
(* RNTO, which may wait for ever; clients may send nothing.  This is weak  *)
(* fairness of the steps of a handler that is not at mv, refusals          *)
(* included, with its ENABLED written out: such a handler has a next step. *)
(* Deadlock is checked, so that one stuck in the middle would be found.    *)
Fairness ==
    \A s \in Sessions :
        []<>(At(s, "idle") \/ At(s, "mv")) \/ []<><<Moves(s)>>_vars

Spec == Init /\ [][Next]_vars /\ Fairness

-----------------------------------------------------------------------------
(* Properties                                                              *)

Frame == [path : Seq(PathComponents), dir : Nodes, todo : SUBSET PathComponents]

Job == [cmd : Commands \cup {"none"}, path : Seq(PathComponents),
        at : Seq(PathComponents), stack : Seq(Frame)]
Calls == {"test dir", "test file", "make_dir", "mkdir", "mv", "rm", "opendir",
          "readdir", "next", "unlink"}

TypeOK ==
    /\ fs \in [Nodes -> Node]
    /\ cwd \in [Sessions -> Seq(PathComponents)]
    /\ rename_path \in [Sessions -> Seq(PathComponents)]
    /\ pc \in [Sessions -> Calls \cup {"idle"}]
    /\ job \in [Sessions -> Job]
    /\ \A s \in Sessions : Cmd(s) = "none" <=> At(s, "idle")
    /\ reply \in [Sessions -> {"none", "250", "257", "350", "550", "550 350",
                               "451", "queued"}]
    /\ handles \in [Sessions -> Nat]
    /\ left \in [Sessions -> Nat]
    /\ alone \in [Sessions -> BOOLEAN]
    /\ reach \in [Sessions -> SUBSET Nodes]
    /\ plain \in [Sessions -> BOOLEAN]
    /\ disturbed \in [Sessions -> Nat]

Ends(s) == ~At(s, "idle") /\ pc'[s] = "idle"

(* Nothing is lost that nobody named: a file or directory disappears only  *)
(* by a DELE or RMD whose path has led to it while the command ran, or     *)
(* under an RNTO: one that another session overtook between its tests and  *)
(* mv or a test of which was refused, one to the place of a link that      *)
(* leads nowhere, which the tests cannot see, or one that the shell takes  *)
(* apart (file_opr.cpp:87-121,248-274, ftp_server.cpp:703-708).            *)
BrokenLink(n, path) == n = LStat(fs, path) /\ Stat(fs, path) = None
LossExplained ==
    [][\A n \in Live(fs) \ Live(fs') : \E s \in Sessions :
          /\ Moves(s)
          /\ \/ n \in reach[s]
             \/ /\ At(s, "mv")
                /\ ~alone[s] \/ BrokenLink(n, Path(s)) \/ ~AsMeant(s)]_vars

(* A DELE or RMD of a plain path that no other session disturbed, and no   *)
(* call of which was refused, removes all its path leads to or nothing,    *)
(* and its reply says which: no half of a tree stays behind.  With a call  *)
(* refused, 250 still says that all has gone (file_opr.cpp:226-283).       *)
RemovalWhole ==
    [][\A s \in Sessions :
          Ends(s) /\ plain[s] =>
              IF reply'[s] = "250"
              THEN reach[s] # {} /\ reach[s] \cap Live(fs') = {}
              ELSE disturbed'[s] = disturbed[s] => reach[s] \subseteq Live(fs')]_vars

(* A directory that a handler opened is closed when it replies, but for    *)
(* one handle at most of each command that another session overtook or a   *)
(* call of which was refused (file_opr.cpp:65-73,82,257,262).              *)
HandlesAccounted ==
    \A s \in Sessions : At(s, "idle") => handles[s] <= disturbed[s]

(* The state invariant of the handlers: their types, and their handles      *)
(* (file_opr.cpp:65-73,82,257,262).                                        *)
Inv == TypeOK /\ HandlesAccounted

(* Every handler returns, but for an RNTO that waits for the shell: also   *)
(* from a tree that changes under it, and from links that close to a       *)
(* cycle, down which rm goes until a path leads through too many of them   *)
(* (file_opr.cpp:248-266, ftp_server.cpp:708).                             *)
HandlersReturn ==
    \A s \in Sessions : ~At(s, "idle") ~> At(s, "idle") \/ At(s, "mv")

=============================================================================
