------------------------ MODULE MCDesktopController ------------------------
(* Instance of DesktopController for TLC.  Its only constant is a bound,   *)
(* which the configurations give: two retry callbacks are the current one  *)
(* and one that a newer one has replaced in retry_timer.                   *)
EXTENDS DesktopController
=============================================================================
