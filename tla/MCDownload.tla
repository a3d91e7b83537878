----------------------------- MODULE MCDownload -----------------------------
(* The instance of Download that TLC checks: the file fills the buffer     *)
(* twice and leaves a rest, two of its bytes are equal, and the connection *)
(* holds less than the buffer, so a full one interrupts a block.           *)
EXTENDS Download

MCByte       == {"a", "b", "c", "d"}
MCFile       == <<"a", "b", "c", "d", "a", "c", "b">>
MCBufSize    == 3
MCSockSize   == 2
MCSizeValues == 65536

=============================================================================
