--------------------------- MODULE MCCommandStream ---------------------------
(* The instance of CommandStream that TLC checks: a command without an     *)
(* argument, a data command whose argument is itself the name of a         *)
(* command, an unknown command, and one that is longer than the buffer.    *)
EXTENDS CommandStream

MCLines == {<<"v", CR, LF>>, <<"d", Blank, "v", CR, LF>>, <<"a", CR, LF>>,
            <<"v", Blank, "a", "a", "a", "a", "v", CR, LF>>}
MCCommands == {<<"v">>, <<"d">>}
MCDataCommands == {<<"d">>}
MCBufSize == 8
MCMaxLines == 3

=============================================================================
