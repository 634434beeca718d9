-------------------------- MODULE MCRequestMonitor --------------------------
(* Instance of RequestMonitor for TLC: interchangeable servers and calls. *)
EXTENDS RequestMonitor, TLC

Symmetry == Permutations(Observers) \cup Permutations(Requests)
=============================================================================
