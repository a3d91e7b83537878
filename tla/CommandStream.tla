---------------------------- MODULE CommandStream ----------------------------
(***************************************************************************)
(* How the bytes of a control connection become commands:                  *)
(* handle_read_event and parse_command (ftp/ftp_server.cpp).               *)
(*                                                                         *)
(* A byte is <<k, i>>, the i-th byte of the k-th line the client sends, so *)
(* that it is known where a handler's name and argument came from; Char    *)
(* gives what the server sees of it.  The connection delivers bytes in     *)
(* pieces of any size.  The bufferevent appends what has arrived to its    *)
(* input and calls the callback once, which takes what fits its buffer and *)
(* treats it as one command; what is left waits for the next arrival.      *)
(***************************************************************************)
EXTENDS Integers, SequencesExt, FiniteSetsExt

CONSTANTS Lines,        \* what a client may send: sequences of characters
          Commands,     \* the names in handler_map, as sequences of characters
          DataCommands, \* LIST, RETR and STOR
          BufSize,      \* the 64 of char buf[64]
          MaxLines      \* how many lines the client sends (a bound)

CR == "cr"
LF == "lf"
Blank == " "

\* Clients send whole lines: one end of line each, and at the end.
IsLine(l) ==
    /\ Len(l) > 2 /\ l[Len(l) - 1] = CR /\ l[Len(l)] = LF
    /\ \A i \in 1 .. Len(l) - 2 : l[i] \notin {CR, LF}

ASSUME ConstAssumption ==
    /\ \A l \in Lines : l \in Seq(STRING) /\ IsLine(l)
    /\ \A c \in Commands : c \in Seq(STRING \ {CR, LF, Blank}) /\ c # <<>>
    /\ DataCommands \subseteq Commands
    /\ BufSize \in Nat \ {0}
    /\ MaxLines \in Nat

VARIABLES
    sent,      \* the client's lines, in order
    wire,      \* the bytes on their way
    input,     \* the bytes in the bufferevent
    calls,     \* one entry for each call of the callback, with the name and
               \* the argument its handler was called with; the name is
               \* empty when there was none, and the reply 500
    silent,    \* the calls that have had no reply yet
    opens,     \* the client opens a data connection after a data command
    unasked,   \* the client has sent a line without waiting for its replies
    cut,       \* the callback has taken a part of a line
    broken     \* the program's behaviour is undefined

streamVars == <<sent, wire, input, calls, silent, opens, unasked, cut, broken>>

StreamInit ==
    /\ sent = <<>> /\ wire = <<>> /\ input = <<>> /\ calls = <<>>
    /\ silent = {} /\ opens \in BOOLEAN
    /\ unasked = FALSE /\ cut = FALSE /\ broken = FALSE

-----------------------------------------------------------------------------
(* parse_command.                                                          *)

Char(b) == sent[b[1]][b[2]]
Text(s) == [i \in DOMAIN s |-> Char(s[i])]

Spaces(s) == {i \in DOMAIN s : Char(s[i]) = Blank}
LineEnds(s) == {i \in DOMAIN s :
    i < Len(s) /\ Char(s[i]) = CR /\ Char(s[i + 1]) = LF}

Unknown == [name |-> <<>>, arg |-> <<>>]

\* Mutant: the argument goes up to the last end of line.
ArgumentEndLast(s) == Max(LineEnds(s))
ArgumentEnd(s) == Min(LineEnds(s))

\* A space behind the end of the line makes the name contain that end, and
\* the count of the argument's substr wrap around; no handler has the name.
Parsed(s) ==
    IF LineEnds(s) = {} THEN Unknown
    ELSE LET end == Min(LineEnds(s))
         IN  IF Spaces(s) = {}
             THEN [name |-> SubSeq(s, 1, end - 1), arg |-> <<>>]
             ELSE LET space == Min(Spaces(s))
                  IN [name |-> SubSeq(s, 1, space - 1),
                      arg  |-> SubSeq(s, space + 1, ArgumentEnd(s) - 1)]

HasHandler(name) == Text(name) \in Commands

Call(piece) ==
    IF HasHandler(Parsed(piece).name) THEN Parsed(piece) ELSE Unknown

-----------------------------------------------------------------------------
(* handle_read_event, called when bytes have arrived.                      *)

\* Mutant: the bytes are copied and stay in the input.
RestKept(bytes) == bytes
Rest(bytes) == SubSeq(bytes, BufSize + 1, Len(bytes))
Piece(bytes) == SubSeq(bytes, 1, Min({BufSize, Len(bytes)}))

\* LIST, RETR and STOR reply themselves only to refuse; else the replies
\* come with the data connection.
\* Mutant: nor is there a reply to what is no command.
QuietIfUnknown(call) == call = Unknown \/ Text(call.name) \in DataCommands
Quiet(call) == Text(call.name) \in DataCommands

EndsLine(b) == b[2] = Len(sent[b[1]])

\* A full buffer has no room for the byte that ends the string: it is
\* stored behind the buffer, which may harm nothing or anything.
ReadEvent ==
    /\ ~broken
    /\ \E n \in 1 .. Len(wire) :
          LET bytes == input \o SubSeq(wire, 1, n)
              piece == Piece(bytes)
          IN /\ wire' = SubSeq(wire, n + 1, Len(wire))
             /\ input' = Rest(bytes)
             /\ calls' = Append(calls, Call(piece))
             /\ \/ silent' = silent
                \/ Quiet(Call(piece)) /\ silent' = silent \cup {Len(calls')}
             /\ cut' = (cut \/ ~EndsLine(Last(piece)))
             /\ broken' \in {FALSE, Len(piece) = BufSize}
    /\ UNCHANGED <<sent, opens, unasked>>

\* pasv_accept gives the oldest request the connection the client has opened
\* for it.  It replies 150 to a STOR, the transfer of a LIST or RETR does so
\* when it starts: all this in a process that has descriptors left, and when
\* event_new succeeds (DataSession has the other outcomes).
DataReply ==
    /\ ~broken /\ opens /\ silent # {}
    /\ silent' = silent \ {Min(silent)}
    /\ UNCHANGED <<sent, wire, input, calls, opens, unasked, cut, broken>>

-----------------------------------------------------------------------------
(* The client.                                                             *)

Send(l) ==
    /\ ~broken /\ Len(sent) < MaxLines
    /\ sent' = Append(sent, l)
    /\ wire' = wire \o [i \in DOMAIN l |-> <<Len(sent) + 1, i>>]
    /\ unasked' = (unasked \/ Len(calls) < Len(sent) \/ silent # {})
    /\ UNCHANGED <<input, calls, silent, opens, cut, broken>>

StreamNext == ReadEvent \/ DataReply \/ \E l \in Lines : Send(l)

(* What was sent arrives, and the event loop calls the callback then; a    *)
(* request and the connection opened for it meet (WaitersMeet of           *)
(* DataSession) on a server with descriptors.  The client need not send.   *)
StreamSpec ==
    /\ StreamInit /\ [][StreamNext]_streamVars
    /\ WF_streamVars(ReadEvent) /\ WF_streamVars(DataReply)

-----------------------------------------------------------------------------
(* Properties                                                              *)

\* The bytes of what the client has sent.
Byte == UNION {{k} \X DOMAIN sent[k] : k \in DOMAIN sent}

StreamTypeOK ==
    /\ sent \in Seq(Lines) /\ Len(sent) <= MaxLines
    /\ wire \in Seq(Byte) /\ input \in Seq(Byte)
    /\ calls \in Seq([name : Seq(Byte), arg : Seq(Byte)])
    /\ silent \subseteq DOMAIN calls /\ opens \in BOOLEAN
    /\ unasked \in BOOLEAN /\ cut \in BOOLEAN /\ broken \in BOOLEAN

Handled == {i \in DOMAIN calls : calls[i] # Unknown}
LineOf(a) == a.name[1][1]
Bytes(k, from, to) == [i \in 1 .. to - from + 1 |-> <<k, from + i - 1>>]

\* The name, or the name, a space and the argument, are the line from the
\* name on.
RestOfLine(a) ==
    LET k == LineOf(a)
        whole == Bytes(k, Head(a.name)[2], Len(sent[k]) - 2)
        space == whole[Len(a.name) + 1]
    IN \/ a.arg = <<>> /\ a.name = whole
       \/ Char(space) = Blank /\ whole = a.name \o <<space>> \o a.arg

(* However the bytes arrive a handler gets the rest of one line from its   *)
(* name on: the name and the argument are never of two lines, nor is the   *)
(* argument cut short.  Only a line that was cut can make the server take  *)
(* the end of a line, an argument perhaps, for a command.  Lines are       *)
(* handled in the order they were sent, none twice                         *)
(* (ftp_server.cpp:68-92,1000-1024).                                       *)
OneLineEach ==
    /\ \A i \in Handled :
          RestOfLine(calls[i]) /\ (Head(calls[i].name)[2] = 1 \/ cut)
    /\ \A i, j \in Handled : i < j => LineOf(calls[i]) < LineOf(calls[j])

(* The state invariant of the stream: its types, and what handlers got     *)
(* (ftp_server.cpp:990-1026).                                              *)
StreamInv == StreamTypeOK /\ OneLineEach

(* For a client that waits for the replies to a line, on a connection that *)
(* cuts no line, the callback is called once for each line that has        *)
(* arrived, in order, and every line that begins with a command reaches    *)
(* its handler (ftp_server.cpp:1000-1024).                                 *)
FirstWord(l) == SubSeq(l, 1, Min({i \in DOMAIN l : l[i] \in {Blank, CR}}) - 1)
WaitingClientServed ==
    ~unasked /\ ~cut /\ wire = <<>> =>
        /\ Len(calls) = Len(sent) /\ input = <<>>
        /\ \A k \in DOMAIN sent :
              IF FirstWord(sent[k]) \in Commands
              THEN calls[k] # Unknown /\ LineOf(calls[k]) = k
              ELSE calls[k] = Unknown

\* The client has a reply to each of its first k lines.
Replied(k) == Len(calls) >= k /\ silent = {}

\* It waits for the reply to a data command before it opens the connection.
WaitsForData ==
    ~opens /\ \E i \in silent : Text(calls[i].name) \in DataCommands

\* Bytes that fill the callback's buffer: of a long line, or of two.
Harmed == broken /\ (cut \/ \E k \in DOMAIN sent : Len(sent[k]) >= BufSize)

(* A client that waits for its replies gets them and can go on, however    *)
(* its lines are cut, unless it waits for the reply to a data command      *)
(* before it opens the data connection, or sends a line as long as the     *)
(* buffer: shorter lines that arrive whole never reach the byte behind it. *)
(* A server without descriptors never replies to a data command it has     *)
(* accepted (ftp_server.cpp:482,519,555,893-959,990-1026).                 *)
WaitEnds == \A k \in 1 .. MaxLines :
    Len(sent) >= k /\ ~unasked ~> Replied(k) \/ WaitsForData \/ Harmed \/ unasked

=============================================================================
