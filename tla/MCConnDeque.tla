---------------------------- MODULE MCConnDeque ----------------------------
(* The instance of ConnDeque that TLC checks: blocks of three, and a first *)
(* map whose entries are moved within it when the worker keeps up, and to  *)
(* a larger one when two blocks wait.                                      *)
EXTENDS ConnDeque

MCBlockSize == 3
MCMapSize   == 5
MCPipeSize  == 8
MCMaxConns  == 30

=============================================================================
