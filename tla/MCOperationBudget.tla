------------------------- MODULE MCOperationBudget -------------------------
(* Instance of OperationBudget for TLC: two slots for two calls, which     *)
(* start again and again, and one direct caller that nests once.           *)
EXTENDS OperationBudget
=============================================================================
