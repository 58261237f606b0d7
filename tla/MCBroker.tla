------------------------------- MODULE MCBroker -------------------------------
(* The broker with a small set of interchangeable sessions. *)
EXTENDS Broker, TLC

Symmetry == Permutations(Sessions)

=============================================================================
