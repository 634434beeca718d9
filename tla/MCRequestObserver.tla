------------------------- MODULE MCRequestObserver -------------------------
(* Instance of RequestObserver for TLC: interchangeable requests and ids. *)
EXTENDS RequestObserver

Symmetry == Permutations(Requests) \cup Permutations(Ids)
=============================================================================
