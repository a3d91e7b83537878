-------------------------- MODULE MCSessionCommands --------------------------
(* The instance of SessionCommands that TLC checks: every file of up to    *)
(* four characters, and longer ones with two users, the same user twice,   *)
(* short lines, and a line that is too long; two sessions, so that one can *)
(* store the address while the other stores or copies it; addresses of     *)
(* different lengths, and a buffer with room for the shorter one three     *)
(* times and for the longer one once.                                      *)
EXTENDS SessionCommands

A == "a"
B == "b"
MCUserFiles ==
    UNION {[1 .. n -> {A, Space, Newline}] : n \in 0 .. 4} \cup
    {<<A, Space, B, Newline, B, Space, A>>,
     <<A, Space, B, Newline, A, Space, A, Newline>>,
     <<B, Newline, A, Space, A, Newline, Newline>>,
     <<A, Space, Space, B, Newline, A, A>>,
     <<A, Space, A, A, A, Newline>>}
MCLineSize == 5
MCSessions == {1, 2}
MCAddresses == {<<"1">>, <<"2", "3">>}
MCNames == {<<A>>, <<B>>}
MCPasswords == {<<>>, <<A>>, <<B>>, <<A, A>>}
MCCapacity == 3
MCMaxCommands == 4

=============================================================================
