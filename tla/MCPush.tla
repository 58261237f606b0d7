------------------------------- MODULE MCPush -------------------------------
(* Push with few files and versions of few chunks. *)
EXTENDS Push, TLC

CONSTANTS g1, d1

MCSizes == g1 :> <<2, 2>>

(* A file, and a directory of one file that goes to the same place. *)
MCRequests ==
    {[dir |-> FALSE, entries |-> <<[from |-> g1, to |-> d1]>>],
     [dir |-> TRUE, entries |-> <<[from |-> g1, to |-> d1]>>]}

SessionSymmetry == Permutations(Sessions)

=============================================================================
