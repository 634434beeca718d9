------------------------ MODULE MCConnectionRuntime ------------------------
(* Instance of ConnectionRuntime for TLC: interchangeable connections. *)
EXTENDS ConnectionRuntime, TLC

Symmetry == Permutations(Conns)
=============================================================================
