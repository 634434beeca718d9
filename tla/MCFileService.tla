--------------------------- MODULE MCFileService ----------------------------
(***************************************************************************)
(* Three paths in two folders, two calls that write and three that read,   *)
(* two of them for one service, which may keep two snapshots; all services *)
(* together may keep three.  Two classes of behaviours are explored:       *)
(* those in which files change, and those in which they do not and the     *)
(* snapshots are paged through and displaced.                              *)
(***************************************************************************)
EXTENDS FileService, TLC

CONSTANTS r1, r2, r3   \* the readers

MCOwnerOf(r) == IF r = r3 THEN 2 ELSE 1
MCFolderOf(p) == IF p = 3 THEN 2 ELSE 1
Symmetry == Permutations({r1, r2}) \cup Permutations(Callers) \cup Permutations(Contents)

At(place) == {r \in Readers : call[r].at = place}
Reading == Readers \ At("idle")

(* While files change there are two calls, and only one of them reads at a *)
(* time: the calls of one service that compare inventories, or one listing *)
(* or query.  A write that meets a reader has passed its check.  A program *)
(* sets a modification time to the present, or to the file's first.        *)
Changing ==
  /\ calls >= MaxCalls - 2 /\ clock = 0 /\ call[r3] = Nothing
  /\ Cardinality(Reading) <= 1
  /\ \A r \in Reading : call[r].kind = "status" \/ calls = MaxCalls - 1
  /\ cache # <<>> => calls = MaxCalls - 1
  /\ Reading # {} => ~revoked /\ \A c \in Callers : op[c].at \notin {"queued", "entered"}
  /\ Cardinality({p \in Paths : Exists(p)}) <= 2
  /\ \A p \in Paths : files[p].mtime \in {files[p].id, files[p].change}
  /\ stamp \in {MaxPath} \cup {files[p].change : p \in Paths} \cup {folder[d] : d \in Folders}

(* While none changes, all calls list the same three files, one after the  *)
(* other; what they do with the cache is in any order.                     *)
Unchanging == stamp = MaxStamp /\ \A p \in Paths : files[p].id = p
Paging == /\ Unchanging /\ revoked /\ Cardinality(At("scan")) <= 1
          /\ \A r \in Readers : call[r].kind = "list"

Bounds == \/ Changing
          \/ Paging
          \/ Unchanging /\ calls = 0
=============================================================================
