--------------------------- MODULE MCDesktopPipe ----------------------------
(***************************************************************************)
(* Three requests: queries of the history and operations.  The command     *)
(* queue has room for one request of each of the two sorts, the queue of   *)
(* events is as short.                                                     *)
(***************************************************************************)
EXTENDS DesktopPipe
=============================================================================
