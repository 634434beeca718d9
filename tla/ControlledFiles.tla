-------------------------- MODULE ControlledFiles ---------------------------
(***************************************************************************)
(* The tools that change files: class ControlledFiles of                   *)
(* mcp_local/control_files.py.  Calls arrive on several threads; a lock    *)
(* admits one at a time, and close() revokes the right to write for good.  *)
(* A call names the digest of the content it means to replace.             *)
(***************************************************************************)
EXTENDS SharedFiles

CONSTANTS
  Callers,    \* the calls of this service
  NoCaller,   \* the lock is free
  MaxFaults   \* bound: failing writes

ASSUME WriteAssumption == NoCaller \notin Callers /\ MaxFaults \in Nat

(* "rewrite" stands for write (rewrite, append) and edit: they commit a    *)
(* content computed from the one they have read.                           *)
WriteKinds == {"create", "rewrite", "move", "delete"}

VARIABLES
  op,       \* each call: where it is, what it does, and whether another
            \* program changed its file after the check
  lock,     \* ControlledFiles.lock
  revoked,  \* ControlledFiles.closed
  faults
writeVars == <<op, lock, revoked, faults>>

Idle == [at |-> "idle", kind |-> "create", path |-> 1, to |-> 1, expect |-> "none",
         new |-> "none", overtaken |-> FALSE]

WritesOK ==
  /\ op \in [Callers -> [at : {"idle", "queued", "entered", "checked", "writing"},
       kind : WriteKinds, path : Paths, to : Paths, expect : Contents \cup {"none"},
       new : Contents \cup {"none"}, overtaken : BOOLEAN]]
  /\ lock \in Callers \cup {NoCaller} /\ revoked \in BOOLEAN /\ faults \in 0..MaxFaults

WritesInit == /\ op = [c \in Callers |-> Idle] /\ lock = NoCaller
              /\ revoked = FALSE /\ faults = 0

(* write, edit, move and delete obtain the reader of the path while the    *)
(* service is active.  The caller names the content it has read.           *)
CallWrite(c) ==
  /\ op[c].at = "idle" /\ ~revoked /\ NextCall
  /\ \E kind \in WriteKinds, p \in Paths, to \in Paths, new \in Contents \cup {"none"} :
       /\ (kind = "move") = (to # p)   \* the others name one path
       /\ (kind = "create") = ~Exists(p)
       /\ (kind \in {"create", "rewrite"}) = (new # "none")
       /\ files[p].data \notin {new, Partial}
       /\ op' = [op EXCEPT ![c] = [Idle EXCEPT !.at = "queued", !.kind = kind, !.path = p,
                   !.to = to, !.expect = files[p].data, !.new = new]]
  /\ UNCHANGED <<fileVars, lock, revoked, faults>>

To(c, at) == op' = [op EXCEPT ![c].at = at]
Leave(c) == op' = [op EXCEPT ![c] = Idle] /\ lock' = NoCaller

(* guarded: the right to write is checked again under the lock. *)
Enter(c) ==
  /\ op[c].at = "queued" /\ lock = NoCaller
  /\ IF revoked THEN Leave(c) ELSE To(c, "entered") /\ lock' = c
  /\ UNCHANGED <<fileVars, revoked, faults>>

(* The target must be absent, or have the content the caller named. *)
Expected(o) ==
  /\ o.kind # "create" => files[o.path].data = o.expect
  /\ o.kind \in {"create", "move"} => ~Exists(o.to)
Check(c) ==
  /\ op[c].at = "entered"
  /\ IF Expected(op[c]) THEN To(c, "checked") /\ UNCHANGED lock ELSE Leave(c)
  /\ UNCHANGED <<fileVars, revoked, faults>>

(* Another handle to the file makes the system refuse the call. *)
Busy(c) == op[c].at = "checked" /\ Leave(c) /\ UNCHANGED <<fileVars, revoked, faults>>

(* commit, for a new file: it must still be absent. *)
Create(c) ==
  LET o == op[c]
  IN /\ o.at = "checked" /\ o.kind = "create"
     /\ IF Exists(o.path) THEN Leave(c) /\ UNCHANGED fileVars
        ELSE To(c, "writing") /\ Change(o.path, Created(Partial)) /\ UNCHANGED <<held, lock>>
     /\ UNCHANGED <<revoked, faults>>

(* Mutant: the content is not compared again under the handle. *)
OpenUnseen(c) ==
  /\ op[c].at = "checked" /\ op[c].kind = "rewrite" /\ Exists(op[c].path)
  /\ To(c, "writing") /\ held' = held \cup {op[c].path}
  /\ UNCHANGED <<files, stamp, folder, lock, revoked, faults>>

(* commit, for an existing one: it is opened for this call alone, and must *)
(* contain what was read before.                                           *)
OpenToWrite(c) ==
  LET o == op[c]
  IN /\ o.at = "checked" /\ o.kind = "rewrite"
     /\ IF files[o.path].data # o.expect THEN Leave(c) /\ UNCHANGED held
        ELSE To(c, "writing") /\ held' = held \cup {o.path} /\ UNCHANGED lock
     /\ UNCHANGED <<files, stamp, folder, revoked, faults>>

(* The content is on the disk; or the write fails, and the old content is  *)
(* put back, or the new file removed.                                      *)
FinishWrite(c) ==
  LET o == op[c]
  IN /\ o.at = "writing" /\ held' = held \ {o.path}
     /\ \/ Change(o.path, Written(files[o.path], o.new, stamp + 1)) /\ UNCHANGED faults
        \/ /\ faults < MaxFaults /\ faults' = faults + 1
           /\ Change(o.path, IF o.kind = "create" THEN NoFile
                             ELSE Written(files[o.path], o.expect, stamp + 1))
     /\ Leave(c) /\ UNCHANGED revoked

(* move: rename never replaces a file. *)
Move(c) ==
  LET o == op[c]
  IN /\ o.at = "checked" /\ o.kind = "move" /\ UNCHANGED held
     /\ IF Exists(o.path) /\ ~Exists(o.to)
        THEN /\ stamp < MaxStamp /\ stamp' = stamp + 1
             /\ folder' = [folder EXCEPT ![FolderOf(o.path)] = stamp + 1, ![FolderOf(o.to)] = stamp + 1]
             /\ files' = [files EXCEPT ![o.path] = NoFile,
                            ![o.to] = [files[o.path] EXCEPT !.change = stamp + 1]]
        ELSE UNCHANGED <<files, stamp, folder>>
     /\ Leave(c) /\ UNCHANGED <<revoked, faults>>

Delete(c) ==
  LET o == op[c]
  IN /\ o.at = "checked" /\ o.kind = "delete"
     /\ IF Exists(o.path) THEN Change(o.path, NoFile) /\ UNCHANGED held ELSE UNCHANGED fileVars
     /\ Leave(c) /\ UNCHANGED <<revoked, faults>>

(* close waits for the call that holds the lock. *)
Revoke ==
  /\ ~revoked /\ lock = NoCaller /\ revoked' = TRUE
  /\ UNCHANGED <<fileVars, op, lock, faults>>

(* What other programs do may overtake a check.  A file that is being      *)
(* created is open to their writes, not to their replacing it.             *)
InCreation == {op[c].path : c \in {d \in Callers : op[d].at = "writing"}}
OtherWrites ==
  \E p \in Paths :
    /\ OtherProgram(p)
    /\ p \in InCreation => files'[p].id = files[p].id
    /\ op' = [c \in Callers |->
         IF op[c].at \in {"checked", "writing"} /\ p \in {op[c].path, op[c].to}
         THEN [op[c] EXCEPT !.overtaken = TRUE] ELSE op[c]]
    /\ UNCHANGED <<lock, revoked, faults>>

WriteStep(c) == \/ Enter(c) \/ Check(c) \/ Busy(c) \/ Create(c) \/ OpenToWrite(c)
                \/ FinishWrite(c) \/ Move(c) \/ Delete(c)

-----------------------------------------------------------------------------
(* A call replaces or removes only what its caller has seen: a rewrite and *)
(* its roll-back in every case, the others unless another program changed  *)
(* the file after the check.                                               *)
ReplacesWhatWasSeen ==
  [][\A c \in Callers, p \in Paths :
       op[c].at \in {"checked", "writing"} /\ op'[c].at # op[c].at /\ Exists(p)
         /\ files'[p].data # files[p].data
       => \/ files[p].data \in {op[c].expect, Partial}
          \/ op[c].kind # "rewrite" /\ op[c].overtaken]_<<files, op>>

=============================================================================
