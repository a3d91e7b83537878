------------------------------ MODULE MCUpload ------------------------------
(* The instance of Upload that TLC checks: two full blocks and a partial   *)
(* one, on a connection that holds less than two blocks.                   *)
EXTENDS Upload

MCFileLen  == 8
MCBufSize  == 3
MCSockSize == 4

=============================================================================
