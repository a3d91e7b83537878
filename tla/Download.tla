------------------------------ MODULE Download ------------------------------
(***************************************************************************)
(* RETR: download_file_cb and get_download_data_ready of                   *)
(* ftp/ftp_server.cpp with readn and writen of base/file_opr.cpp, one step *)
(* for each system call.                                                   *)
(*                                                                         *)
(* The data connection does not block.  The callback runs whenever the     *)
(* connection is writable, and keeps in its request how much of the buffer *)
(* was written when a full connection made it return.                      *)
(***************************************************************************)
EXTENDS Integers, Sequences

CONSTANTS Byte,       \* the values of a byte
          File,       \* the file to send, a sequence of bytes
          BufSize,    \* SEND_BUFFER_SIZE
          SockSize,   \* how much a connection holds that its peer has not read
          SizeValues  \* the number of values of size_t

ASSUME ConstAssumption ==
    /\ File \in Seq(Byte)
    /\ BufSize \in Nat \ {0}
    /\ SockSize \in Nat \ {0}
    /\ SizeValues \in Nat /\ SizeValues > 2 * BufSize

VARIABLES
    pc,       \* where the callback is; "loop" when it has returned
    pos,      \* the read offset of the file
    buf,      \* the bytes readn has put in req->buf
    size,     \* req->size, a size_t
    offset,   \* req->offset
    written,  \* write_bytes of writen
    sent,     \* the bytes the connection has taken, in order
    unread,   \* how many of them the client has not read
    client,   \* the client reads, or has closed the data connection
    marks,    \* how often 150 was replied, counted up to MarkBound
    final     \* the reply that ended the transfer

vars == <<pc, pos, buf, size, offset, written, sent, unread, client, marks,
          final>>

MarkBound == 2

Init ==
    /\ pc = "loop"
    /\ pos = 0
    /\ buf = <<>>
    /\ size = 0
    /\ offset = 0
    /\ written = 0
    /\ sent = <<>>
    /\ unread = 0
    /\ client = "reading"
    /\ marks = 0
    /\ final = "none"

ConnVars == <<sent, unread, client>>
RequestVars == <<pos, buf, size, offset>>

Upto(a, b) == 1 .. (IF a < b THEN a ELSE b)

End(reply) == pc' = "ended" /\ final' = reply

-----------------------------------------------------------------------------
(* The callback.                                                           *)

\* Mutant: the event is added without EV_PERSIST.
CallbackOnce == marks = 0
Writable == unread < SockSize \/ client = "gone"

Callback ==
    /\ pc = "loop"
    /\ Writable
    /\ pc' = "fill"
    /\ marks' = IF marks < MarkBound THEN marks + 1 ELSE marks
    /\ UNCHANGED <<written, final>> /\ UNCHANGED RequestVars
    /\ UNCHANGED ConnVars

\* Mutant: the buffer is read anew although a part of it was not written.
BufferedNever == FALSE
Buffered == size # 0 /\ offset < size

\* get_download_data_ready, up to its call of readn.
Fill ==
    /\ pc = "fill"
    /\ IF Buffered
       THEN pc' = "send" /\ UNCHANGED RequestVars
       ELSE /\ pc' = "read"
            /\ size' = 0
            /\ offset' = 0
            /\ buf' = <<>>
            /\ UNCHANGED pos
    /\ UNCHANGED <<written, marks, final>> /\ UNCHANGED ConnVars

-----------------------------------------------------------------------------
(* readn reads until read gives 0, at the end of the file or when there is *)
(* no room left in the buffer.  A read that was interrupted is repeated.   *)

ReadSome ==
    /\ pc = "read"
    /\ \E n \in Upto(BufSize - Len(buf), Len(File) - pos) :
          /\ buf' = buf \o SubSeq(File, pos + 1, pos + n)
          /\ pos' = pos + n
    /\ UNCHANGED <<pc, size, offset, written, marks, final>>
    /\ UNCHANGED ConnVars

ReadZero ==
    /\ pc = "read"
    /\ Len(buf) = BufSize \/ pos = Len(File)
    /\ IF buf = <<>>
       THEN End("226") /\ UNCHANGED size
       ELSE pc' = "send" /\ size' = Len(buf) /\ UNCHANGED final
    /\ UNCHANGED <<pos, buf, offset, written, marks>> /\ UNCHANGED ConnVars

Wrapped == SizeValues - 1  \* the value of -1 in a size_t

\* readn gives -1, which get_download_data_ready keeps in a size_t: it is
\* not less than 0, and it becomes the size of the buffer.
ReadError ==
    /\ pc = "read"
    /\ size' = Wrapped
    /\ pc' = "send"
    /\ UNCHANGED <<pos, buf, offset, written, marks, final>>
    /\ UNCHANGED ConnVars

-----------------------------------------------------------------------------
(* writen writes until everything is written or a write fails.  What it    *)
(* has written by then is its result, and 0 is the callback's "error".     *)

Count == size - offset                       \* bytes_to_send
CountAccepted == Count < SizeValues \div 2   \* or write fails at once

\* Mutant: the offset is not moved when the connection is full.
AfterWriteForgotten == offset
\* Mutant: the offset is the place after the first byte not written.
AfterWriteOneMore == offset + written + 1
AfterWrite == offset + written

WriteSome ==
    /\ pc = "send" /\ client = "reading" /\ CountAccepted
    /\ \E n \in Upto(Count - written, SockSize - unread) :
          /\ sent' = sent \o SubSeq(buf, offset + written + 1, offset + written + n)
          /\ unread' = unread + n
          /\ written' = written + n
    /\ UNCHANGED <<pc, client, marks, final>> /\ UNCHANGED RequestVars

\* writen returns a positive count, and the callback goes round its loop.
Advance ==
    /\ pc' = "fill"
    /\ offset' = AfterWrite
    /\ written' = 0
    /\ UNCHANGED final

WrittenAll ==
    /\ pc = "send" /\ written = Count
    /\ Advance
    /\ UNCHANGED <<pos, buf, size, marks>> /\ UNCHANGED ConnVars

\* EAGAIN: the callback returns, at once or after another round.
WriteBlocked ==
    /\ pc = "send" /\ written # Count /\ CountAccepted
    /\ client = "reading" /\ unread = SockSize
    /\ IF written = 0
       THEN pc' = "loop" /\ UNCHANGED <<offset, written, final>>
       ELSE Advance
    /\ UNCHANGED <<pos, buf, size, marks>> /\ UNCHANGED ConnVars

\* Mutant: an error ends the transfer as data_list_cb does.
WriteErrorAsComplete ==
    /\ pc = "send" /\ written # Count
    /\ client = "gone" \/ ~CountAccepted
    /\ IF written = 0
       THEN End("226") /\ UNCHANGED <<offset, written>>
       ELSE Advance
    /\ UNCHANGED <<pos, buf, size, marks>> /\ UNCHANGED ConnVars

\* The count is too large, or the client closed the connection.
WriteError ==
    /\ pc = "send" /\ written # Count
    /\ client = "gone" \/ ~CountAccepted
    /\ IF written = 0
       THEN End("426") /\ UNCHANGED <<offset, written>>
       ELSE Advance
    /\ UNCHANGED <<pos, buf, size, marks>> /\ UNCHANGED ConnVars

\* A write to a connection the client closed may also raise SIGPIPE, which
\* nothing in the server handles or ignores.
Killed ==
    /\ pc = "send" /\ written # Count /\ CountAccepted
    /\ client = "gone"
    /\ pc' = "killed"
    /\ UNCHANGED <<written, marks, final>> /\ UNCHANGED RequestVars
    /\ UNCHANGED ConnVars

-----------------------------------------------------------------------------
(* The client.  It leaves when the server's kernel learns that it closed   *)
(* the data connection.                                                    *)

Receive ==
    /\ client = "reading" /\ pc # "killed"
    /\ \E n \in 1 .. unread : unread' = unread - n
    /\ UNCHANGED <<pc, written, sent, client, marks, final>>
    /\ UNCHANGED RequestVars

Leave ==
    /\ client = "reading" /\ pc # "killed"
    /\ client' = "gone"
    /\ UNCHANGED <<pc, written, sent, unread, marks, final>>
    /\ UNCHANGED RequestVars

Server ==
    \/ Callback \/ Fill
    \/ ReadSome \/ ReadZero \/ ReadError
    \/ WriteSome \/ WrittenAll \/ WriteBlocked \/ WriteError \/ Killed

Next == Server \/ Receive \/ Leave

(* The event loop runs the callback while the connection is writable.  The *)
(* code has no timeout: that a transfer ends rests on a client that reads. *)
Spec == Init /\ [][Next]_vars /\ WF_vars(Server) /\ WF_vars(Receive)

-----------------------------------------------------------------------------
(* Properties                                                              *)

TypeOK ==
    /\ pc \in {"loop", "fill", "read", "send", "ended", "killed"}
    /\ pos \in 0 .. Len(File)
    /\ buf \in Seq(Byte) /\ Len(buf) <= BufSize
    /\ size \in 0 .. SizeValues - 1
    /\ offset \in 0 .. BufSize
    /\ written \in 0 .. BufSize
    /\ sent \in Seq(Byte)
    /\ unread \in 0 .. SockSize
    /\ client \in {"reading", "gone"}
    /\ marks \in 0 .. MarkBound
    /\ final \in {"none", "226", "426"}

(* Every byte read from the file is on the connection or still to be       *)
(* written from the buffer, through every full connection, partial write   *)
(* and return of the callback, unless a read failed                        *)
(* (ftp_server.cpp:762-768,818-834).                                       *)
NothingSkipped ==
    size # Wrapped =>
        SubSeq(File, 1, pos) =
            sent \o SubSeq(buf, offset + written + 1, Len(buf))

(* The download implements the abstract transfer: bytes of the file, in    *)
(* order and once each, and 226 only when all of them were sent            *)
(* (ftp_server.cpp:796-841).                                               *)
Abstract == INSTANCE Transfer WITH
    Source  <- File,
    out     <- sent,
    verdict <- CASE final = "226" -> "complete"
                 [] final = "426" -> "aborted"
                 [] final = "none" -> "none"
ImplementsTransfer == Abstract!Spec

(* After a read of the file failed not one more byte is sent and the       *)
(* transfer is not called complete, though the test for the error can      *)
(* never succeed (ftp_server.cpp:770-774,807,825).                         *)
ReadErrorStops == [][size = Wrapped => sent' = sent /\ final' # "226"]_vars

(* A client that reads, or leaves, ends the transfer: no full connection   *)
(* is waited for when nothing would make it writable                       *)
(* (ftp_server.cpp:820-823,933-936).                                       *)
Ends == <>(pc \in {"ended", "killed"})

=============================================================================
