------------------------------- MODULE MCPull -------------------------------
(* Pull with few files and versions of few chunks. *)
EXTENDS Pull, TLC

CONSTANTS g1, g2, d1

MCSizes == (g1 :> <<2, 2>>) @@ (g2 :> <<0>>)

(* A file, and a directory of one file that goes to the same place. *)
MCRequests ==
    {[dir |-> FALSE, entries |-> <<[from |-> g1, to |-> d1]>>],
     [dir |-> TRUE, entries |-> <<[from |-> g2, to |-> d1]>>]}

=============================================================================
