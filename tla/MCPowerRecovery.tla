-------------------------- MODULE MCPowerRecovery ---------------------------
(***************************************************************************)
(* Two programs, desktop and command line, recover one journal that covers *)
(* both supplies and one scheme.                                           *)
(***************************************************************************)
EXTENDS PowerRecovery
=============================================================================
