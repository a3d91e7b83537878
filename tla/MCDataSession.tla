---------------------------- MODULE MCDataSession ---------------------------
(* The instance of DataSession that TLC checks: three data commands, so    *)
(* two can be queued while one runs; descriptors for two transfers and     *)
(* their files besides the session's own two, so the third runs out of     *)
(* them at any of its steps; and one pop more than there are commands.     *)
EXTENDS DataSession

MCMaxCmds == 3
MCFdLimit == 6
MCMaxPops == 4

=============================================================================
