---------------------------- MODULE FileService -----------------------------
(***************************************************************************)
(* The file service: calls that change files, calls that read them, and    *)
(* the other programs of the user, over the same files.                    *)
(***************************************************************************)
EXTENDS ControlledFiles, FileQueries

fileServiceVars == <<fileVars, calls, writeVars, queryVars>>

ServiceInit == FilesInit /\ WritesInit /\ QueriesInit

ServiceNext ==
  \/ \E c \in Callers : CallWrite(c) /\ UNCHANGED queryVars
  \/ \E r \in Readers : (Begin(r) \/ BeginPage(r)) /\ UNCHANGED writeVars
  \/ /\ UNCHANGED calls
     /\ \/ (Revoke \/ OtherWrites \/ \E c \in Callers : WriteStep(c)) /\ UNCHANGED queryVars
        \/ (Tick \/ \E r \in Readers : ReadStep(r)) /\ UNCHANGED writeVars

ServiceSpec == ServiceInit /\ [][ServiceNext]_fileServiceVars

TypeOK == FilesOK /\ WritesOK /\ clock \in 0..MaxClock
=============================================================================
