--------------------------- MODULE SettingsStore ----------------------------
(***************************************************************************)
(* mcp_local/connection_settings.py: the settings file, its lock file and  *)
(* its backups, shared by the desktop process and the command line.        *)
(*                                                                         *)
(* A revision is the digest of the file, so it stands for the content: a   *)
(* process knows the revision of what it has seen.  Each save is a         *)
(* sequence of file operations, every one of which may fail, in a process  *)
(* that may be killed between any two of them.  A process saves from one   *)
(* thread at a time, hence SETTINGS_LOCK is always free.                   *)
(***************************************************************************)
EXTENDS Integers, Sequences

CONSTANTS
  Procs,    \* the processes that edit the settings
  Settings, \* contents of a settings file
  NoFile,   \* there is no settings file
  Keep,     \* backups rotate_backups keeps
  Free,     \* nobody holds the lock file
  Stale     \* the lock file of a process that died

ASSUME KeepAssumption == Keep \in Nat \ {0}
ASSUME NoFileAssumption == NoFile \notin Settings
ASSUME LockAssumption == Free # Stale /\ Free \notin Procs /\ Stale \notin Procs

Contents == Settings \cup {NoFile}

VARIABLES
  disk,    \* the settings file
  lock,    \* who created the lock file
  backups, \* the backup files, newest first
  seen,    \* what each process read last
  save     \* the save_settings call of each process

storeVars == <<disk, lock, backups, seen, save>>

Writing == {"backup", "rotate", "replace"}
Locked == Writing \cup {"compare", "readback", "unlock"}

TypeOK ==
  /\ disk \in Contents
  /\ lock \in Procs \cup {Free, Stale}
  /\ backups \in Seq(Settings)
  /\ seen \in [Procs -> Contents]
  /\ save \in [Procs -> [at : Locked \cup {"idle", "lock", "saved", "failed"}, new : Contents,
                         ok : BOOLEAN, wrote : BOOLEAN]]

NoSave == [at |-> "idle", new |-> NoFile, ok |-> FALSE, wrote |-> FALSE]

StoreInit ==
  /\ disk \in Contents
  /\ lock = Free
  /\ backups = << >>
  /\ seen = [p \in Procs |-> NoFile]
  /\ save = [p \in Procs |-> NoSave]

Goto(p, at) == save' = [save EXCEPT ![p].at = at]

(* read_settings_data, load_for_edit: the content and its revision. *)
Load(p) ==
  /\ save[p].at = "idle"
  /\ seen' = [seen EXCEPT ![p] = disk]
  /\ UNCHANGED <<disk, lock, backups, save>>

(* save_settings(settings, expected_revision = the one that was seen). *)
CallSave(p, settings) ==
  /\ save[p].at = "idle"
  /\ save' = [save EXCEPT ![p] = [NoSave EXCEPT !.at = "lock", !.new = settings]]
  /\ UNCHANGED <<disk, lock, backups, seen>>

(* os.open with O_CREAT and O_EXCL: SETTINGS_BUSY while the file exists. *)
CreateLock(p) ==
  /\ save[p].at = "lock"
  /\ IF lock = Free THEN lock' = p /\ Goto(p, "compare")
                    ELSE lock' = lock /\ Goto(p, "failed")
  /\ UNCHANGED <<disk, backups, seen>>

(* Mutant: the revision is not compared. *)
CompareContent(p) ==
  /\ save[p].at = "compare"
  /\ Goto(p, IF save[p].new = disk THEN "readback" ELSE "backup")
  /\ UNCHANGED <<disk, lock, backups, seen>>

(* The revision is compared under the lock; an equal content needs no write. *)
Compare(p) ==
  /\ save[p].at = "compare"
  /\ Goto(p, IF disk # seen[p] THEN "unlock"
             ELSE IF save[p].new = disk THEN "readback" ELSE "backup")
  /\ UNCHANGED <<disk, lock, backups, seen>>

WriteBackup(p) ==
  /\ save[p].at = "backup"
  /\ backups' = IF disk = NoFile THEN backups ELSE <<disk>> \o backups
  /\ Goto(p, "rotate")
  /\ UNCHANGED <<disk, lock, seen>>

(* Mutant: the newest backups go. *)
RotateNewest(p) ==
  /\ save[p].at = "rotate"
  /\ backups' = IF Len(backups) > Keep THEN SubSeq(backups, Len(backups) - Keep + 1, Len(backups)) ELSE backups
  /\ Goto(p, "replace")
  /\ UNCHANGED <<disk, lock, seen>>

(* The temporary file is written, and all but the newest backups go. *)
Rotate(p) ==
  /\ save[p].at = "rotate"
  /\ backups' = IF Len(backups) > Keep THEN SubSeq(backups, 1, Keep) ELSE backups
  /\ Goto(p, "replace")
  /\ UNCHANGED <<disk, lock, seen>>

Replace(p) ==
  /\ save[p].at = "replace"
  /\ disk' = save[p].new
  /\ save' = [save EXCEPT ![p].at = "readback", ![p].wrote = TRUE]
  /\ UNCHANGED <<lock, backups, seen>>

(* The revision to return is read from the file, still under the lock. *)
ReadBack(p) ==
  /\ save[p].at = "readback"
  /\ seen' = [seen EXCEPT ![p] = disk]
  /\ save' = [save EXCEPT ![p].at = "unlock", ![p].ok = TRUE]
  /\ UNCHANGED <<disk, lock, backups>>

(* Any of these operations may raise; the finally clauses then run. *)
StepFails(p) ==
  /\ save[p].at \in Writing \cup {"compare", "readback"}
  /\ Goto(p, "unlock")
  /\ UNCHANGED <<disk, lock, backups, seen>>

Unlock(p) ==
  /\ save[p].at = "unlock"
  /\ lock' = Free
  /\ Goto(p, IF save[p].ok THEN "saved" ELSE "failed")
  /\ UNCHANGED <<disk, backups, seen>>

(* save_settings returns or raises. *)
Returned(p) ==
  /\ save[p].at \in {"saved", "failed"}
  /\ save' = [save EXCEPT ![p] = NoSave]
  /\ UNCHANGED <<disk, lock, backups, seen>>

SaveStep(p) ==
  \/ CreateLock(p) \/ Compare(p) \/ WriteBackup(p) \/ Rotate(p) \/ Replace(p)
  \/ ReadBack(p) \/ Unlock(p)

(* The process ends, or is killed: what is on the disk stays, and so does  *)
(* its lock file.                                                          *)
Ends(p) ==
  /\ lock' = IF lock = p THEN Stale ELSE lock
  /\ save' = [save EXCEPT ![p] = NoSave]
  /\ seen' = [seen EXCEPT ![p] = NoFile]
  /\ UNCHANGED <<disk, backups>>

(* The user removes a lock file that no writer holds, as the message says. *)
RemoveStaleLock ==
  /\ lock = Stale
  /\ lock' = Free
  /\ UNCHANGED <<disk, backups, seen, save>>

StoreNext ==
  \/ \E p \in Procs :
       \/ Load(p) \/ SaveStep(p) \/ StepFails(p) \/ Returned(p) \/ Ends(p)
       \/ \E v \in Settings : CallSave(p, v)
  \/ RemoveStaleLock

StoreSpec == StoreInit /\ [][StoreNext]_storeVars

-----------------------------------------------------------------------------
Register == INSTANCE EditedRegister WITH Editors <- Procs, value <- disk,
                                           Nothing <- NoFile

(* No lost update: save_settings replaces the file only while it holds     *)
(* what the saving process has read, whatever other processes save, fail   *)
(* or die in between.                                                      *)
NoLostUpdate == Register!Spec

(* The content that a save replaces is in the newest backup, also after    *)
(* the rotation, so that a bad save can be undone by hand.                 *)
ReplacedIsKept ==
  [][ disk' # disk /\ disk # NoFile => backups # << >> /\ Head(backups) = disk ]_storeVars
=============================================================================
