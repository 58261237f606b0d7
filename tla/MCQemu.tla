------------------------------- MODULE MCQemu -------------------------------
(* Qemu with few machines and processes. *)
EXTENDS Qemu, TLC

Symmetry == Permutations(Ids) \cup Permutations(Pids)

=============================================================================
