------------------------------- MODULE MCLease -------------------------------
(* The lease on a small set of interchangeable sessions. *)
EXTENDS Lease, TLC

Symmetry == Permutations(Sessions)

=============================================================================
