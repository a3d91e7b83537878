------------------------------ MODULE Transfer ------------------------------
(***************************************************************************)
(* What a data transfer promises: the bytes of the source go out once each *)
(* and in order, the transfer ends once, and it is called complete only    *)
(* when all of them went out.                                              *)
(***************************************************************************)
EXTENDS Integers, Sequences

CONSTANT Source  \* the bytes to transfer

VARIABLES
    out,     \* the bytes that went out
    verdict  \* what the peer was told of the transfer

vars == <<out, verdict>>

Init == out = <<>> /\ verdict = "none"

Emit ==
    /\ verdict = "none"
    /\ \E n \in Len(out) + 1 .. Len(Source) : out' = SubSeq(Source, 1, n)
    /\ UNCHANGED verdict

Complete ==
    /\ verdict = "none"
    /\ out = Source
    /\ verdict' = "complete"
    /\ UNCHANGED out

Abort ==
    /\ verdict = "none"
    /\ verdict' = "aborted"
    /\ UNCHANGED out

Next == Emit \/ Complete \/ Abort
Spec == Init /\ [][Next]_vars

=============================================================================
