--------------------------- MODULE MCFileCommands ---------------------------
(* The instance of FileCommands that TLC checks: two sessions at home in   *)
(* "/a", which holds a directory with a file and a link that leads         *)
(* nowhere, or a file and a link home; one inode is not in use.            *)
EXTENDS FileCommands

MCNames    == {"a", "b", "c", "a*"}
MCSpecial  == {"a*"}
MCNodes    == 1 .. 6
MCRoot     == 1
MCMaxLinks == 2
MCSessions == {"s1", "s2"}

In(kind, up, name) == [kind |-> kind, up |-> up, name |-> name, to |-> ""]
\* Home with a directory that holds a file, and a link that leads nowhere.
MCTree == <<In("dir", 1, ""),
            In("dir", 1, "a"),
            In("dir", 2, "a"),
            In("file", 3, "a"),
            [In("link", 2, "b") EXCEPT !.to = "c"],
            In("unused", 1, "")>>
\* Home with a file, and a link that leads home again.
MCCycle == [MCTree EXCEPT ![3].kind = "file", ![4].kind = "gone", ![5].to = "a"]
MCTrees == {MCTree, MCCycle}
\* "mv /a/b /a/a*": the pattern was the file, and the link is in its place.
MCOutcomes == {[MCCycle EXCEPT ![3].kind = "gone", ![5].name = "a"]}

Relative(path) == [abs |-> FALSE, path |-> path]
Absolute(path) == [abs |-> TRUE, path |-> path]

MCHome    == <<"a">>
MCProcDir == <<"">>
\* The link, no argument, the directory or file, and a pattern, which is a
\* free name to mkdir.
MCArgs    == ("s1" :> {Absolute(<<"a", "b">>), Relative(<<"">>)}) @@
             ("s2" :> {Relative(<<"a">>), Absolute(<<"a", "b">>), Relative(<<"a*">>)})

\* One session may set a source and rename it around the other's command.
MCMaxCmds == ("s1" :> 1) @@ ("s2" :> 2)
MCRefused == {"s2"}

=============================================================================
