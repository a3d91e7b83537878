------------------------------ MODULE UserFile ------------------------------
(***************************************************************************)
(* The file of users, read once when the server is constructed: read_line, *)
(* get_user_and_password and get_user_list (ftp/ftp_server.cpp), one step  *)
(* for each read of a byte.                                                *)
(***************************************************************************)
EXTENDS Integers, SequencesExt, FiniteSetsExt

CONSTANTS UserFiles,  \* the files there may be: sequences of characters
          LineSize    \* the 128 of char buf[128]

ASSUME UserFileAssumption ==
    /\ LineSize \in Nat /\ LineSize > 3
    /\ \A f \in UserFiles : f \in Seq(STRING)

Newline == "\n"
Space == " "

VARIABLES
    file,   \* the file's content
    pos,    \* how much of it was read
    line,   \* buf up to i
    users,  \* user_list: names and passwords
    start   \* "reading", or "ready", or "exit": the process has ended

userVars == <<file, pos, line, users, start>>

UserFileInit ==
    /\ file \in UserFiles
    /\ pos = 0 /\ line = <<>> /\ users = <<>>
    /\ start = "reading"

-----------------------------------------------------------------------------
\* A line without a space is the name and the password.
Entry(l) ==
    LET spaces == {i \in DOMAIN l : l[i] = Space}
    IN IF spaces = {} THEN <<l, l>>
       ELSE <<SubSeq(l, 1, Min(spaces) - 1), SubSeq(l, Min(spaces) + 1, Len(l))>>

\* read_line returns 1.
LineRead == users' = Append(users, Entry(line)) /\ line' = <<>>

ReadChar ==
    /\ start = "reading" /\ pos < Len(file) /\ file[pos + 1] # Newline
    /\ line' = Append(line, file[pos + 1])
    /\ start' = IF Len(line') >= LineSize THEN "exit" ELSE "reading"
    /\ pos' = pos + 1
    /\ UNCHANGED <<file, users>>

\* Mutant: a line that is skipped is not forgotten.
SkipLineKept == UNCHANGED <<line, users>>
\* goto next_line
SkipLine == line' = <<>> /\ UNCHANGED users

ReadNewline ==
    /\ start = "reading" /\ pos < Len(file) /\ file[pos + 1] = Newline
    /\ IF Len(line) < 3 THEN SkipLine ELSE LineRead
    /\ pos' = pos + 1
    /\ UNCHANGED <<file, start>>

\* The last line needs no newline, and may be shorter by one than others.
ReadEnd ==
    /\ start = "reading" /\ pos = Len(file)
    /\ IF Len(line) <= 1
       THEN start' = "ready" /\ line' = <<>> /\ UNCHANGED users
       ELSE LineRead /\ UNCHANGED start
    /\ UNCHANGED <<file, pos>>

\* read fails, and with it the constructor.
ReadFails ==
    /\ start = "reading"
    /\ start' = "exit"
    /\ UNCHANGED <<file, pos, line, users>>

ReadUsers == ReadChar \/ ReadNewline \/ ReadEnd \/ ReadFails

-----------------------------------------------------------------------------
(* What the file says, without reading it byte by byte: its lines are what *)
(* stands between newlines.                                                *)

Breaks == {0, Len(file) + 1} \cup {i \in DOMAIN file : file[i] = Newline}
LineAfter(b) == SubSeq(file, b + 1, Min({c \in Breaks : c > b}) - 1)
Terminated(b) == b + Len(LineAfter(b)) < Len(file)
LineStarts == {b \in Breaks : b <= Len(file)}
EntryStarts ==
    {b \in LineStarts : Len(LineAfter(b)) >= (IF Terminated(b) THEN 3 ELSE 2)}
\* The entry of the line after b, and which one of the file's it is.
EntryAfter(b) == Entry(LineAfter(b))
Place(b) == Cardinality({c \in EntryStarts : c <= b})

=============================================================================
