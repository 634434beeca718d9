----------------------------- MODULE MCSessions -----------------------------
(* Instance of Sessions for TLC: the constants are in the configuration.   *)
EXTENDS Sessions
=============================================================================
