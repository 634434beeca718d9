------------------------------ MODULE SlotPool ------------------------------
(***************************************************************************)
(* What operation_budget promises to the rest of the server: a pool of at  *)
(* most Limit work slots.  A user takes a slot only while one is free,     *)
(* holds at most one, and gives back the one it holds.  OperationBudget    *)
(* is shown to implement this module, with the users being the calls and   *)
(* threads that hold a slot.                                               *)
(***************************************************************************)
EXTENDS Naturals, FiniteSets

CONSTANTS Users, Limit

VARIABLE inUse

Init == inUse = {}

Take(u) == /\ u \notin inUse
           /\ Cardinality(inUse) < Limit
           /\ inUse' = inUse \cup {u}

Give(u) == /\ u \in inUse
           /\ inUse' = inUse \ {u}

Next == \E u \in Users : Take(u) \/ Give(u)

Spec == Init /\ [][Next]_inUse
=============================================================================
