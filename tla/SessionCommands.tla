--------------------------- MODULE SessionCommands ---------------------------
(***************************************************************************)
(* The commands that use what all sessions share in the server: USER and   *)
(* PASS the list of users, which is complete before a thread is started,   *)
(* and PASV the address local_ip_, which the first PASV stores and which   *)
(* the workers read and write without a lock (ftp/ftp_server.cpp).         *)
(*                                                                         *)
(* Each session is on a worker of its own.  USER and PASS are one step.    *)
(* PASV is one for each access to local_ip_, a std::string, by libstdc++.  *)
(* assign asks for the length to replace the whole string, and             *)
(* _M_replace, which it calls, asks again: if the string has grown in      *)
(* between, what was added is moved behind the new characters.  Then the   *)
(* characters are stored, the length is set and the NUL behind the last.   *)
(* A copy of the string reads the length and then that many characters.    *)
(* A string that outgrows the buffer it has in itself moves to another,    *)
(* and one that is shorter at the second read makes the move run out of    *)
(* memory: the model follows the worker no further.                        *)
(***************************************************************************)
EXTENDS UserFile

CONSTANTS Sessions,
          Addresses,   \* the server's, one for each network interface, as text
          Names,       \* what clients send after USER
          Passwords,   \* what clients send after PASS
          Capacity,    \* of the buffer a std::string has in itself
          MaxCommands  \* how many commands the clients send (a bound)

ASSUME SessionAssumption ==
    /\ Capacity \in Nat
    /\ \A a \in Addresses : a \in Seq(STRING) /\ Len(a) \in 1 .. Capacity
    /\ MaxCommands \in Nat

VARIABLES
    address,   \* the address each client has connected to
    user,      \* user_name_
    reply,     \* the last reply of each session: to what, the code, and the
               \* name or password it is about or the address it contains
    pc,        \* where the PASV of each session is
    replaced,  \* how many characters its assign will replace
    oldSize,   \* the length of local_ip_ when _M_replace asks
    ipLen,     \* the length its copy of local_ip_ will have
    chars,     \* local_ip_: the characters in the buffer
    length,    \* local_ip_: its length
    torn,      \* the two lengths an assign got were different
    commands   \* how many commands were sent

pasvVars == <<pc, replaced, oldSize, ipLen, chars, length, torn>>
vars == <<userVars, address, user, reply, pasvVars, commands>>

Nul == "nul"
Room == 1 .. Capacity + 1
NoReply == [to |-> "none", code |-> "none", arg |-> <<>>]

Init ==
    /\ UserFileInit
    /\ address \in [Sessions -> Addresses]
    /\ user = [s \in Sessions |-> <<>>]
    /\ reply = [s \in Sessions |-> NoReply]
    /\ pc = [s \in Sessions |-> "idle"]
    /\ replaced = [s \in Sessions |-> 0] /\ oldSize = [s \in Sessions |-> 0]
    /\ ipLen = [s \in Sessions |-> 0]
    /\ chars = [i \in Room |-> Nul] /\ length = 0 /\ torn = FALSE
    /\ commands = 0

-----------------------------------------------------------------------------
\* The next command of s: its worker is done with the last.
Handle(s) ==
    /\ start = "ready" /\ pc[s] = "idle" /\ commands < MaxCommands
    /\ commands' = commands + 1

Reply(s, to, code, arg) ==
    reply' = [reply EXCEPT ![s] = [to |-> to, code |-> code, arg |-> arg]]

is_user_valid(name) == \E i \in DOMAIN users : users[i][1] = name

\* Mutant: the last entry of a name counts.
get_user_password_last(name) ==
    IF is_user_valid(name)
    THEN users[Max({i \in DOMAIN users : users[i][1] = name})][2]
    ELSE <<>>
get_user_password(name) ==
    IF is_user_valid(name)
    THEN users[Min({i \in DOMAIN users : users[i][1] = name})][2]
    ELSE <<>>

User(s, name) ==
    /\ Handle(s)
    /\ IF is_user_valid(name)
       THEN /\ user' = [user EXCEPT ![s] = name]
            /\ Reply(s, "USER", "331", name)
       ELSE Reply(s, "USER", "530", name) /\ UNCHANGED user
    /\ UNCHANGED <<userVars, address, pasvVars>>

Pass(s, password) ==
    /\ Handle(s)
    /\ Reply(s, "PASS",
             IF password = get_user_password(user[s]) THEN "230" ELSE "530", password)
    /\ UNCHANGED <<userVars, address, user, pasvVars>>

-----------------------------------------------------------------------------
(* PASV.                                                                   *)

Goto(s, from, to) == pc[s] = from /\ pc' = [pc EXCEPT ![s] = to]

\* if(ser->local_ip_ == "")
TestAddress(s) ==
    /\ Handle(s)
    /\ Goto(s, "idle", IF length = 0 THEN "size" ELSE "copy")
    /\ UNCHANGED <<userVars, address, user, reply>>
    /\ UNCHANGED <<replaced, oldSize, ipLen, chars, length, torn>>

\* local_ip_.assign: the length it passes on ...
ReadSize(s) ==
    /\ Goto(s, "size", "replace")
    /\ replaced' = [replaced EXCEPT ![s] = length]
    /\ UNCHANGED <<oldSize, chars, length, torn>>

\* ... and _M_replace.
ReadOldSize(s) ==
    /\ Goto(s, "replace", "assign")
    /\ oldSize' = [oldSize EXCEPT ![s] = length]
    /\ torn' = (torn \/ length # replaced[s])
    /\ UNCHANGED <<replaced, chars, length>>

NewSize(s) == oldSize[s] - replaced[s] + Len(address[s])
InPlace(s) == oldSize[s] >= replaced[s] /\ NewSize(s) <= Capacity

\* The end of assign, and of its variables.
Return(s) ==
    /\ replaced' = [replaced EXCEPT ![s] = 0]
    /\ oldSize' = [oldSize EXCEPT ![s] = 0]

SetChars(s) ==
    /\ InPlace(s)
    /\ chars' = [i \in Room |->
           CASE i <= Len(address[s]) -> address[s][i]
             [] i > Len(address[s]) /\ i <= NewSize(s) ->
                    chars[i - Len(address[s]) + replaced[s]]
             [] OTHER -> chars[i]]
    /\ UNCHANGED <<length, torn>>
SetLength(s) ==
    /\ length' = NewSize(s)
    /\ chars' = [chars EXCEPT ![length' + 1] = Nul]
    /\ UNCHANGED torn

\* Mutant: the length is set before the characters.
StoreLengthFirst(s) ==
    \/ /\ Goto(s, "assign", "length")
       /\ InPlace(s) /\ SetLength(s) /\ UNCHANGED <<replaced, oldSize>>
    \/ Goto(s, "length", "copy") /\ SetChars(s) /\ Return(s)
Store(s) ==
    \/ Goto(s, "assign", "length") /\ SetChars(s) /\ UNCHANGED <<replaced, oldSize>>
    \/ Goto(s, "length", "copy") /\ SetLength(s) /\ Return(s)

AssignAddress(s) ==
    /\ ReadSize(s) \/ ReadOldSize(s) \/ Store(s)
    /\ UNCHANGED <<userVars, address, user, reply, ipLen, commands>>

\* ip = ser->local_ip_
CopyLength(s) ==
    /\ Goto(s, "copy", "chars")
    /\ ipLen' = [ipLen EXCEPT ![s] = length]
    /\ UNCHANGED <<userVars, address, user, reply, commands>>
    /\ UNCHANGED <<replaced, oldSize, chars, length, torn>>

\* ... and the reply: that the session is listening is in DataSession.
CopyChars(s) ==
    /\ Goto(s, "chars", "idle")
    /\ Reply(s, "PASV", "227", SubSeq(chars, 1, ipLen[s]))
    /\ UNCHANGED <<userVars, address, user, commands>>
    /\ UNCHANGED <<replaced, oldSize, ipLen, chars, length, torn>>

-----------------------------------------------------------------------------
Pasv(s) == AssignAddress(s) \/ CopyLength(s) \/ CopyChars(s)

Next ==
    \/ ReadUsers /\ UNCHANGED <<address, user, reply, pasvVars, commands>>
    \/ \E s \in Sessions :
          \/ \E name \in Names : User(s, name)
          \/ \E password \in Passwords : Pass(s, password)
          \/ TestAddress(s) \/ Pasv(s)

Spec == Init /\ [][Next]_vars

-----------------------------------------------------------------------------
(* Properties                                                              *)

TypeOK ==
    /\ pos \in 0 .. Len(file) /\ Len(line) \in 0 .. LineSize
    /\ start \in {"reading", "ready", "exit"}
    /\ address \in [Sessions -> Addresses]
    /\ user \in [Sessions -> Names \cup {<<>>}]
    /\ pc \in [Sessions -> {"idle", "size", "replace", "assign", "length", "copy", "chars"}]
    /\ replaced \in [Sessions -> 0 .. Capacity]
    /\ oldSize \in [Sessions -> 0 .. Capacity]
    /\ ipLen \in [Sessions -> 0 .. Capacity]
    /\ DOMAIN chars = Room /\ length \in 0 .. Capacity /\ torn \in BOOLEAN
    /\ commands \in 0 .. MaxCommands

(* Read byte by byte the file gives the users its lines name, in their     *)
(* order: short and empty lines, a last line without newline and a line    *)
(* without a space included (ftp_server.cpp:98-180).                       *)
UsersAsWritten ==
    start = "ready" =>
        /\ Len(users) = Cardinality(EntryStarts)
        /\ \A b \in EntryStarts : users[Place(b)] = EntryAfter(b)

(* The state invariant of what the sessions share: its types, and the list *)
(* of users (ftp_server.cpp:98-180).                                       *)
Inv == TypeOK /\ UsersAsWritten

(* A session that has named a user logs in with the password on the first  *)
(* line of that user and with no other, also after further USER commands,  *)
(* refused ones among them (ftp_server.cpp:201-243).                       *)
LoginByFile ==
    \A s \in Sessions :
        reply[s].to = "PASS" /\ user[s] # <<>> =>
            LET lines == {b \in EntryStarts : EntryAfter(b)[1] = user[s]}
            IN reply[s].code = "230" <=> reply[s].arg = EntryAfter(Min(lines))[2]

(* On a server with one interface every reply to PASV begins with the      *)
(* server's whole address, although the workers test, store and copy it at *)
(* the same time without a lock.  It has nothing more, unless an assign    *)
(* was torn: unless another worker set the length between its two reads.   *)
(* Then the address may be stored twice in a row, for good                 *)
(* (ftp_server.cpp:281-290).                                               *)
WholeAddress ==
    (\A r, s \in Sessions : address[r] = address[s]) =>
        \A s \in Sessions : reply[s].to = "PASV" =>
            /\ IsPrefix(address[s], reply[s].arg)
            /\ ~torn => reply[s].arg = address[s]

=============================================================================
