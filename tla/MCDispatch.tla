----------------------------- MODULE MCDispatch -----------------------------
(* The instance of Dispatch that TLC checks: the workers take turns twice, *)
(* so a worker gets a second connection while it may be busy with the      *)
(* first, and the notify pipe holds one byte, so it also fills up.         *)
EXTENDS Dispatch

MCNumWorkers == 3
MCMaxConns   == 5
MCPipeSize   == 1

=============================================================================
