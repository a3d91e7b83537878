------------------------------ MODULE ListSend ------------------------------
(***************************************************************************)
(* LIST: the list that get_dir_info and cmd_list_handler make of a         *)
(* directory, and data_list_cb, which sends it, of ftp/ftp_server.cpp with *)
(* writen of base/file_opr.cpp, one step for each write.  The buffer of    *)
(* the request holds the whole list since the command was handled; what    *)
(* another session may do to the directory before is in FileCommands.      *)
(***************************************************************************)
EXTENDS Integers, Sequences

CONSTANTS Byte,      \* the values of a byte
          Zero,      \* the one that ends a string
          Entries,   \* the directory as readdir gives it: for each entry if it
                     \* is a directory, and the line it becomes in the list
          SockSize   \* how much a connection holds that its peer has not read

ASSUME ListAssumption ==
    /\ Zero \in Byte
    /\ Entries \in Seq([dir : BOOLEAN, line : Seq(Byte)])
    /\ SockSize \in Nat \ {0}

\* The entries of a directory come one by one; directories and files go to
\* lists of their own, which the command puts one after the other.
\* list_info[i] has the lists after the i-th entry.
get_dir_info(info, e) ==
    IF e.dir THEN [info EXCEPT !.dir_list = @ \o e.line]
    ELSE [info EXCEPT !.file_list = @ \o e.line]
list_info[i \in 0 .. Len(Entries)] ==
    IF i = 0 THEN [dir_list |-> <<>>, file_list |-> <<>>]
    ELSE get_dir_info(list_info[i - 1], Entries[i])

\* req->buf: its size counts the end of the string as well.
List ==
    LET info == list_info[Len(Entries)]
    IN  info.dir_list \o info.file_list \o <<Zero>>

VARIABLES
    pc,       \* where the callback is; "loop" when it has returned, "broken"
              \* when a write error has ended it, "ended" when nothing is left
    offset,   \* req->offset
    written,  \* write_bytes of writen
    sent,     \* the bytes the connection has taken, in order
    unread,   \* how many of them the client has not read
    client,   \* the client reads, or has closed the data connection
    marks,    \* how often 150 was replied, counted up to MarkBound
    final     \* the reply that ended the transfer

listVars == <<pc, offset, written, sent, unread, client, marks, final>>
ConnVars == <<sent, unread, client>>

MarkBound == 2

ListInit ==
    /\ pc = "loop"
    /\ offset = 0
    /\ written = 0
    /\ sent = <<>>
    /\ unread = 0
    /\ client = "reading"
    /\ marks = 0
    /\ final = "none"

Upto(a, b) == 1 .. (IF a < b THEN a ELSE b)
End(at) == pc' = at /\ final' = "226"

-----------------------------------------------------------------------------
\* Mutant: the event is added without EV_PERSIST.
WritableOnce == marks = 0
Writable == unread < SockSize \/ client = "gone"

Callback ==
    /\ pc = "loop"
    /\ Writable
    /\ pc' = "send"
    /\ marks' = IF marks < MarkBound THEN marks + 1 ELSE marks
    /\ UNCHANGED <<offset, written, final>> /\ UNCHANGED ConnVars

Count == Len(List) - offset  \* bytes_to_send

\* Mutant: the offset is the length of what was to be sent.
AfterWriteCount == offset + Count
\* Mutant: the offset stays where it was.
AfterWriteForgotten == offset
AfterWrite == offset + written

\* writen gave a positive count.
Advance ==
    /\ offset' = AfterWrite
    /\ written' = 0
    /\ UNCHANGED <<pc, final>>

Sending == pc = "send" /\ Count > 0 /\ written < Count

WriteSome ==
    /\ Sending /\ client = "reading"
    /\ \E n \in Upto(Count - written, SockSize - unread) :
          /\ sent' = sent \o SubSeq(List, offset + written + 1, offset + written + n)
          /\ unread' = unread + n
          /\ written' = written + n
    /\ UNCHANGED <<pc, offset, client, marks, final>>

WrittenAll ==
    /\ pc = "send" /\ Count > 0 /\ written = Count
    /\ Advance
    /\ UNCHANGED marks /\ UNCHANGED ConnVars

\* EAGAIN: the callback returns, at once or after another round.
WriteBlocked ==
    /\ Sending /\ client = "reading" /\ unread = SockSize
    /\ IF written = 0
       THEN pc' = "loop" /\ UNCHANGED <<offset, written, final>>
       ELSE Advance
    /\ UNCHANGED marks /\ UNCHANGED ConnVars

\* The client closed the connection.  The loop is left, and the reply after
\* it is the one for a list that was sent.
WriteError ==
    /\ Sending /\ client = "gone"
    /\ IF written = 0
       THEN End("broken") /\ UNCHANGED <<offset, written>>
       ELSE Advance
    /\ UNCHANGED marks /\ UNCHANGED ConnVars

\* The same write may raise SIGPIPE, which nothing in the server handles.
Killed ==
    /\ Sending /\ client = "gone"
    /\ pc' = "killed"
    /\ UNCHANGED <<offset, written, marks, final>> /\ UNCHANGED ConnVars

Finish ==
    /\ pc = "send" /\ Count = 0
    /\ End("ended")
    /\ UNCHANGED <<offset, written, marks>> /\ UNCHANGED ConnVars

-----------------------------------------------------------------------------
(* The client.  It leaves when the server's kernel learns that it closed   *)
(* the data connection.                                                    *)

Receive ==
    /\ client = "reading" /\ pc # "killed"
    /\ \E n \in 1 .. unread : unread' = unread - n
    /\ UNCHANGED <<pc, offset, written, sent, client, marks, final>>

Leave ==
    /\ client = "reading" /\ pc # "killed"
    /\ client' = "gone"
    /\ UNCHANGED <<pc, offset, written, sent, unread, marks, final>>

Server ==
    \/ Callback
    \/ WriteSome \/ WrittenAll \/ WriteBlocked \/ WriteError \/ Killed
    \/ Finish

ListNext == Server \/ Receive \/ Leave

(* The event loop runs the callback while the connection is writable.  The *)
(* code has no timeout: that a list ends rests on a client that reads.     *)
ListSpec == ListInit /\ [][ListNext]_listVars /\ WF_listVars(Server) /\ WF_listVars(Receive)

-----------------------------------------------------------------------------
(* Properties                                                              *)

ListTypeOK ==
    /\ pc \in {"loop", "send", "ended", "broken", "killed"}
    /\ offset \in 0 .. Len(List)
    /\ written \in 0 .. Len(List)
    /\ sent \in Seq(Byte) /\ Len(sent) = offset + written
    /\ unread \in 0 .. SockSize
    /\ client \in {"reading", "gone"}
    /\ marks \in 0 .. MarkBound
    /\ final \in {"none", "226"}

\* What the client should see: the directories, then the files.
Lines(dir) ==
    LET lines[i \in 0 .. Len(Entries)] ==
            IF i = 0 THEN <<>>
            ELSE IF Entries[i].dir = dir THEN lines[i - 1] \o Entries[i].line
            ELSE lines[i - 1]
    IN  lines[Len(Entries)]
Listing == Lines(TRUE) \o Lines(FALSE) \o <<Zero>>

(* Unless a write fails, the list goes out as the abstract transfer says:  *)
(* every entry, the directories before the files, each byte once and in    *)
(* order, and its end after the last, through every full connection and    *)
(* return of the callback (ftp_server.cpp:394-422,467-477,723-750).        *)
Abstract == INSTANCE Transfer WITH
    Source  <- Listing,
    out     <- sent,
    verdict <- CASE pc = "ended" -> "complete"
                 [] pc \in {"broken", "killed"} -> "aborted"
                 [] OTHER -> "none"
ImplementsTransfer == Abstract!Spec

(* A client that reads, or leaves, ends the list                           *)
(* (ftp_server.cpp:736-739,920-922).                                       *)
Ends == <>(pc \in {"ended", "broken", "killed"})

=============================================================================
