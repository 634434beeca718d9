--------------------------- MODULE MCDeveloperVm ----------------------------
(* Two runs, one after the other, and up to two failures. *)
EXTENDS DeveloperVm
=============================================================================
