---------------------------- MODULE MCDescriptors ----------------------------
(* The instance of Descriptors that TLC checks: three sessions on two      *)
(* workers, so that two share a worker; and numbers for one session with a *)
(* transfer and one without, so that the third session's accept, listener, *)
(* file or data connection may find none.                                  *)
EXTENDS Descriptors

MCNSessions == 3
MCNWorkers == 2
MCLimit == 6
MCMaxCommands == 1

=============================================================================
