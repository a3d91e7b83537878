----------------------------- MODULE MCListSend -----------------------------
(* The instance of ListSend that TLC checks: a directory that gives its    *)
(* directories and files mixed; the list fills the connection three times, *)
(* so the callback returns and resumes in its middle.                      *)
EXTENDS ListSend

MCByte     == {"d", "f", "g", "n", "0"}
MCZero     == "0"
MCEntries  == <<[dir |-> FALSE, line |-> <<"f", "n">>],
                [dir |-> TRUE,  line |-> <<"d", "n">>],
                [dir |-> FALSE, line |-> <<"g", "n">>]>>
MCSockSize == 3

=============================================================================
