------------------------------- MODULE Upload -------------------------------
(***************************************************************************)
(* STOR: upload_file_cb of ftp/ftp_server.cpp with readn and writen of     *)
(* base/file_opr.cpp, one step for each system call.                       *)
(*                                                                         *)
(* The data connection does not block.  The callback reads a block of the  *)
(* file and stores it, until a read finds the connection empty, at its end *)
(* or broken.  readn has no way to return the bytes it read before a read  *)
(* failed, and an empty connection is a failed read.                       *)
(***************************************************************************)
EXTENDS Integers, Sequences

CONSTANTS FileLen,   \* the length of the file the client sends
          BufSize,   \* RECV_BUFFER_SIZE
          SockSize   \* how much the connection holds

ASSUME ConstAssumption ==
    /\ FileLen \in Nat
    /\ BufSize \in Nat \ {0}
    /\ SockSize \in Nat \ {0}

Source == [i \in 1 .. FileLen |-> i]  \* a byte is named by its place

VARIABLES
    pc,        \* where the callback is; "loop" when it has returned
    client,    \* the client sends, has closed the connection, or reset it
    put,       \* how many bytes the client has sent
    inflight,  \* how many of them the server has not read
    buf,       \* the bytes readn has put in req->buf
    written,   \* write_bytes of writen
    stored,    \* the bytes written to the file
    cut,       \* why bytes that were read have been dropped
    final      \* what ended the transfer: a reply, or nothing the client sees

vars == <<pc, client, put, inflight, buf, written, stored, cut, final>>

ClientVars == <<client, put>>

Init ==
    /\ pc = "loop"
    /\ client = "sending"
    /\ put = 0
    /\ inflight = 0
    /\ buf = <<>>
    /\ written = 0
    /\ stored = <<>>
    /\ cut = {}
    /\ final = "none"

Taken == put - inflight
Upto(a, b) == 1 .. (IF a < b THEN a ELSE b)
End(how) == pc' = "ended" /\ final' = how

-----------------------------------------------------------------------------
(* The callback runs while the connection is readable.                     *)

\* Mutant: the event is added without EV_PERSIST.
ReadableOnce == inflight > 0 /\ stored = <<>>
Readable == inflight > 0 \/ client # "sending"

Callback ==
    /\ pc = "loop"
    /\ Readable
    /\ pc' = "read"
    /\ UNCHANGED <<inflight, buf, written, stored, cut, final>>
    /\ UNCHANGED ClientVars

-----------------------------------------------------------------------------
(* readn: reads until the buffer is full or the connection at its end.     *)

Room == BufSize - Len(buf)

ReadSome ==
    /\ pc = "read" /\ Len(buf) < BufSize
    /\ \E n \in Upto(Room, inflight) :
          /\ buf' = buf \o SubSeq(Source, Taken + 1, Taken + n)
          /\ inflight' = inflight - n
    /\ UNCHANGED <<pc, written, stored, cut, final>> /\ UNCHANGED ClientVars

AtEnd == inflight = 0 /\ client = "closed"

\* Mutant: the end of the connection ends the transfer at once.
BlockNever == FALSE
Block == buf # <<>>

ReadZero ==
    /\ pc = "read"
    /\ Len(buf) = BufSize \/ AtEnd
    /\ IF Block
       THEN pc' = "store" /\ UNCHANGED final
       ELSE End("226")
    /\ UNCHANGED <<inflight, buf, written, stored, cut>>
    /\ UNCHANGED ClientVars

CutIf(why, dropped) == cut' = IF dropped THEN cut \cup {why} ELSE cut

\* EAGAIN: readn gives -1 and the callback returns.  What is in the buffer
\* is overwritten when it runs again.
ReadBlocked ==
    /\ pc = "read" /\ Len(buf) < BufSize
    /\ inflight = 0 /\ client = "sending"
    /\ pc' = "loop"
    /\ CutIf("blocked", buf # <<>>)
    /\ buf' = <<>>
    /\ UNCHANGED <<inflight, written, stored, final>> /\ UNCHANGED ClientVars

\* Any other error ends the transfer, and nothing tells the client.
ReadError ==
    /\ pc = "read" /\ Len(buf) < BufSize
    /\ inflight = 0 /\ client = "reset"
    /\ End("silent")
    /\ UNCHANGED <<inflight, buf, written, stored, cut>>
    /\ UNCHANGED ClientVars

-----------------------------------------------------------------------------
(* writen: writes the block to the file until all of it is written or a    *)
(* write fails.  Only a write that fails at once is an error.              *)

\* Mutant: every write starts at the beginning of the buffer.
NextBytesFirst(n) == SubSeq(buf, 1, n)
NextBytes(n) == SubSeq(buf, written + 1, written + n)

StoreSome ==
    /\ pc = "store"
    /\ \E n \in 1 .. Len(buf) - written :
          /\ stored' = stored \o NextBytes(n)
          /\ written' = written + n
    /\ UNCHANGED <<pc, inflight, buf, cut, final>> /\ UNCHANGED ClientVars

NextBlock == pc' = "read" /\ written' = 0 /\ buf' = <<>> /\ UNCHANGED final

StoredAll ==
    /\ pc = "store" /\ written = Len(buf)
    /\ NextBlock
    /\ UNCHANGED <<inflight, stored, cut>> /\ UNCHANGED ClientVars

StoreError ==
    /\ pc = "store" /\ written < Len(buf)
    /\ IF written = 0
       THEN End("426") /\ UNCHANGED <<buf, written, cut>>
       ELSE NextBlock /\ CutIf("disk", TRUE)
    /\ UNCHANGED <<inflight, stored>> /\ UNCHANGED ClientVars

-----------------------------------------------------------------------------
(* The client sends its file and closes the connection, or breaks it.      *)

Put ==
    /\ client = "sending"
    /\ \E n \in Upto(FileLen - put, SockSize - inflight) :
          /\ put' = put + n
          /\ inflight' = inflight + n
    /\ UNCHANGED <<pc, client, buf, written, stored, cut, final>>

Leave ==
    /\ client = "sending"
    /\ client' \in IF put = FileLen THEN {"closed", "reset"} ELSE {"reset"}
    /\ UNCHANGED <<pc, put, inflight, buf, written, stored, cut, final>>

Server ==
    \/ Callback
    \/ ReadSome \/ ReadZero \/ ReadBlocked \/ ReadError
    \/ StoreSome \/ StoredAll \/ StoreError

Next == Server \/ Put \/ Leave

(* The event loop runs the callback while the connection is readable.      *)
(* Nothing makes the client send or close: the code has no timeout.        *)
Spec == Init /\ [][Next]_vars /\ WF_vars(Server)

-----------------------------------------------------------------------------
(* Properties                                                              *)

TypeOK ==
    /\ pc \in {"loop", "read", "store", "ended"}
    /\ client \in {"sending", "closed", "reset"}
    /\ put \in 0 .. FileLen
    /\ inflight \in 0 .. SockSize /\ inflight <= put
    /\ buf \in Seq(1 .. FileLen) /\ Len(buf) <= BufSize
    /\ written \in 0 .. Len(buf)
    /\ stored \in Seq(1 .. FileLen)
    /\ cut \in SUBSET {"blocked", "disk"}
    /\ final \in {"none", "226", "426", "silent"}

(* The file never holds a byte twice or out of order, whatever was dropped *)
(* and however the blocks fell (ftp_server.cpp:855-881).                   *)
StoredInOrder == \A i, j \in DOMAIN stored : i < j => stored[i] < stored[j]

(* Every byte read from the connection is in the file or still in the      *)
(* buffer, as long as no block was cut short                               *)
(* (file_opr.cpp:166-217, ftp_server.cpp:858-880).                         *)
NothingDropped ==
    cut = {} => SubSeq(Source, 1, Taken)
                    = stored \o SubSeq(buf, written + 1, Len(buf))

(* The state invariant of an upload: its types, and the relation of what   *)
(* was read, buffered and stored (ftp_server.cpp:855-881).                 *)
Inv == TypeOK /\ StoredInOrder /\ NothingDropped

(* 226 is replied for a file that is whole, as long as no block was cut    *)
(* short: also when the last block is a partial one                        *)
(* (ftp_server.cpp:867-871).                                               *)
WholeUnlessCut == final = "226" /\ cut = {} => stored = Source

(* A client that closes or breaks the connection ends the transfer, also   *)
(* when it did so before the callback ran (ftp_server.cpp:860-871).        *)
EndsWithClient == client # "sending" ~> pc = "ended"

-----------------------------------------------------------------------------
(* A claim of the code that its behaviour does not bear out.               *)

(* 226 says that the file is complete, however its bytes arrived           *)
(* (ftp_server.cpp:870, file_opr.cpp:166).                                 *)
CompleteDespiteBlocking ==
    final = "226" /\ "disk" \notin cut => stored = Source

=============================================================================
