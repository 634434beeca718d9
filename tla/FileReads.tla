----------------------------- MODULE FileReads ------------------------------
(***************************************************************************)
(* One reading tool at work: on one file, block by block, or on a folder.  *)
(***************************************************************************)
EXTENDS TextReads, FolderSearch

VARIABLE tool
readVars == <<tool, textVars, folderVars>>

NoText == /\ text = <<>> /\ request = [kind |-> "find", items |-> <<>>] /\ budget = 0
          /\ at = 0 /\ block = 0 /\ valid = TRUE /\ afterCr = FALSE /\ number = 0 /\ length = 0
          /\ prefix = <<>> /\ ranges = <<>> /\ needles = <<>> /\ done = "none"
NoFolder == /\ folder = <<>> /\ task = "batch" /\ next = 1 /\ entries = 0 /\ files = 0 /\ total = 0
            /\ matched = [q \in Queries |-> 0] /\ cut = {} /\ truncated = FALSE /\ skipped = 0
            /\ used = 0 /\ answers = <<>> /\ over = TRUE

ReadInit == \/ tool = "text" /\ TextInit /\ NoFolder
            \/ tool = "folder" /\ FolderInit /\ NoText
ReadNext == \/ tool = "text" /\ TextNext /\ UNCHANGED <<tool, folderVars>>
            \/ tool = "folder" /\ FolderNext /\ UNCHANGED <<tool, textVars>>
ReadSpec == ReadInit /\ [][ReadNext]_readVars
=============================================================================
