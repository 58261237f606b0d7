------------------------------ MODULE MCCapture ------------------------------
(* Capture with a directory that is empty, or over the limit. *)
EXTENDS Capture

MCOldFiles == {<<>>, <<[name |-> 1, bytes |-> 1], [name |-> 2, bytes |-> 2]>>}

=============================================================================
