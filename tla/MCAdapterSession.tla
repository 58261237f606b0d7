-------------------------- MODULE MCAdapterSession --------------------------
(* AdapterSession for TLC: sockets are interchangeable.                    *)
EXTENDS AdapterSession, TLC

Symmetry == Permutations(Conns)

=============================================================================
