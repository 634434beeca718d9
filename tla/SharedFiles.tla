---------------------------- MODULE SharedFiles -----------------------------
(***************************************************************************)
(* The files below the shared folders, as the file service meets them:     *)
(* programs of the user change them at any time.  A file has an identity,  *)
(* a modification time, which a program may set to what it likes, and a    *)
(* change time, which it cannot.                                           *)
(***************************************************************************)
EXTENDS Integers, Sequences

CONSTANTS
  MaxPath,     \* bound: the paths are 1..MaxPath, in the order of their names
  MaxFolder,   \* bound: the folders are 1..MaxFolder
  FolderOf(_), \* the folder of each path
  Contents,    \* what a file may contain; two contents never have one digest
  MaxStamp,    \* bound: times at which files change
  MaxCalls     \* bound: calls of the service

Paths == 1..MaxPath
Folders == 1..MaxFolder

(* back, which nobody sees: the change that last set the modification time *)
(* to the same time again, or to an earlier one.                           *)
NoFile == [id |-> 0, mtime |-> 0, change |-> 0, back |-> 0, data |-> "none"]

(* What a file contains while its first content is being written. *)
Partial == "partial"

ASSUME FileBounds == MaxPath \in 1..MaxStamp /\ MaxStamp \in Nat /\ MaxCalls \in Nat
ASSUME FolderAssumption == MaxFolder \in Nat \ {0} /\ \A p \in Paths : FolderOf(p) \in Folders
ASSUME DistinctContents == "none" \notin Contents /\ Partial \notin Contents

VARIABLES
  files,   \* the file of each path, or NoFile
  stamp,   \* the time of the last change
  folder,  \* when a name was last created, removed or renamed in each folder
  held,    \* the files that one call has opened for itself alone
  calls    \* how many calls the service has begun
fileVars == <<files, stamp, folder, held>>

FilesOK ==
  /\ stamp \in 0..MaxStamp /\ folder \in [Folders -> 0..MaxStamp]
  /\ held \subseteq Paths /\ calls \in 0..MaxCalls
  /\ files \in [Paths -> [id : 0..MaxStamp, mtime : 0..MaxStamp, change : 0..MaxStamp,
                          back : 0..MaxStamp, data : Contents \cup {"none", Partial}]]

Exists(p) == files[p] # NoFile

(* Files have changed, and calls been answered, before this begins. *)
FilesInit ==
  /\ stamp \in MaxPath..MaxStamp /\ folder = [d \in Folders |-> 1] /\ held = {} /\ calls \in 0..MaxCalls
  /\ \E data \in Contents, present \in SUBSET Paths :
       files = [p \in Paths |-> IF p \in present
                  THEN [id |-> p, mtime |-> p, change |-> p, back |-> 0, data |-> data]
                  ELSE NoFile]

(* signature(): identity and modification time; handle_signature() adds    *)
(* the change time.                                                        *)
Signature(f) == <<f.id, f.mtime>>

(* Mutant: it adds nothing.                                                *)
NoChangeTime(f) == <<f.id, f.mtime, 0>>

HandleSignature(f) == <<f.id, f.mtime, f.change>>

(* Writing into a file leaves it the modification time that the writer     *)
(* wants; files are put in place under a new identity.                     *)
Written(f, data, time) ==
  [f EXCEPT !.data = data, !.change = stamp + 1, !.mtime = time,
            !.back = IF time > f.mtime THEN @ ELSE stamp + 1]
Created(data) == [id |-> stamp + 1, mtime |-> stamp + 1, change |-> stamp + 1, back |-> 0, data |-> data]

Change(p, f) == /\ stamp < MaxStamp /\ stamp' = stamp + 1
                /\ files' = [files EXCEPT ![p] = f]
                /\ folder' = IF f.id = files[p].id THEN folder
                             ELSE [folder EXCEPT ![FolderOf(p)] = stamp + 1]

NextCall == calls < MaxCalls /\ calls' = calls + 1

(* Another program changes, replaces, creates or deletes a file. *)
OtherProgram(p) ==
  p \notin held /\ UNCHANGED held /\
  (\/ Exists(p) /\ \E data \in Contents, time \in 1..stamp + 1 : Change(p, Written(files[p], data, time))
   \/ \E data \in Contents : Change(p, Created(data))
   \/ Exists(p) /\ Change(p, NoFile))
=============================================================================
