--------------------------- MODULE LocalSettings ----------------------------
(***************************************************************************)
(* The programs that change the settings: the start of the desktop process *)
(* and its saves (desktop_bridge.py, desktop_controller.py), the command   *)
(* line (connection_cli.py), and the logon task that a save registers or   *)
(* removes together with the settings (autostart_windows.py).              *)
(*                                                                         *)
(* The recovery of the power journal, in detail in PowerRecovery, is one   *)
(* step here: it succeeds, with the journal gone, or fails.                *)
(* The task belongs to the Windows scheduler: a user may remove or replace *)
(* it, and every schtasks call may fail.  One call and the query that      *)
(* verifies it are one step.                                               *)
(***************************************************************************)
EXTENDS SettingsStore

CONSTANTS
  Desktop,   \* the desktop process; the others are command lines
  ReadOnly,  \* the access mode a migration falls back to
  Modes,     \* the access modes
  MaxFaults  \* bound: failures, deaths and interventions of the user

ASSUME ModeAssumption == ReadOnly \in Modes
ASSUME DesktopAssumption == Desktop \in Procs
ASSUME BoundAssumption == MaxFaults \in Nat

VARIABLES
  journalLeft, \* whether power-runtime.json exists
  flow,        \* what each program is doing
  task,        \* the logon task: none, ours or one that does not match
  background,  \* the program the task runs
  torn,        \* history variable: a transaction was cut short, or not undone
  faults       \* failures and deaths so far, at most MaxFaults

scheduler == <<task, background, torn>>
vars == <<storeVars, journalLeft, scheduler, flow, faults>>

NoFlow == [op |-> "none", at |-> "off", was |-> FALSE, had |-> FALSE, new |-> NoFile]

Places == {"off", "load", "recover", "retire", "retiring", "migrate", "migrating", "ready",
           "query", "stop", "stopping", "task", "saving", "undo", "undo_start", "start",
           "done", "broken", "error"}

LocalTypeOK ==
  /\ TypeOK /\ journalLeft \in BOOLEAN
  /\ flow \in [Procs -> [op : {"none", "boot", "save", "mode", "run"}, at : Places,
                         was : BOOLEAN, had : BOOLEAN, new : Contents]]
  /\ task \in {"none", "ours", "foreign"}
  /\ background \in {"off", "on", "ending"}
  /\ torn \in BOOLEAN /\ faults \in 0..MaxFaults

Record(auto, mode, old, power) == [auto |-> auto, mode |-> mode, old |-> old, power |-> power]
AllSettings == {Record(a, m, o, w) : a, o, w \in BOOLEAN, m \in Modes}

(* normalize_connection: the current version, without the fields of old    *)
(* ones; a mode saved by an old version is not carried over.               *)
Normal(c) ==
  IF c = NoFile THEN Record(FALSE, ReadOnly, FALSE, FALSE)
  ELSE Record(c.auto, IF c.old THEN ReadOnly ELSE c.mode, FALSE, FALSE)

(* The settings are such records, and what the programs save is settings   *)
(* again.                                                                  *)
ASSUME SettingsAssumption ==
  /\ Settings \subseteq AllSettings
  /\ \A c \in Contents :
       /\ Normal(c) \in Settings
       /\ \A a \in BOOLEAN : [Normal(c) EXCEPT !.auto = a] \in Settings
       /\ \A m \in Modes : [Normal(c) EXCEPT !.mode = m] \in Settings

(* The journal is of a version that kept the power field in its settings. *)
Init ==
  /\ StoreInit
  /\ journalLeft \in IF disk # NoFile /\ disk.power THEN BOOLEAN ELSE {FALSE}
  /\ flow = [p \in Procs |-> NoFlow]
  /\ task = IF Normal(disk).auto THEN "ours" ELSE "none"
  /\ background \in IF task = "ours" THEN {"off", "on"} ELSE {"off"}
  /\ torn = FALSE /\ faults = 0

Is(p, op, at) == flow[p].op = op /\ flow[p].at = at
At(p, at) == flow[p].at = at
To(p, at) == flow' = [flow EXCEPT ![p].at = at]

(* The save that p has called ends, and p goes on or handles the error. *)
AfterSave(p, good, bad) ==
  /\ Returned(p)
  /\ To(p, IF save[p].at = "saved" THEN good ELSE bad)

-----------------------------------------------------------------------------
(* Starting a program, and the recovery every program begins with.         *)

Start(p) ==
  /\ At(p, "off")
  /\ \E op \in IF p = Desktop THEN {"boot"} ELSE {"mode", "run"} :
       flow' = [flow EXCEPT ![p] = [NoFlow EXCEPT !.op = op, !.at = "load"]]
  /\ UNCHANGED <<storeVars, journalLeft, scheduler>>

LoadSettings(p) ==
  /\ At(p, "load")
  /\ Load(p)
  /\ To(p, IF flow[p].op = "mode" THEN "query" ELSE "recover")
  /\ UNCHANGED <<journalLeft, scheduler>>

(* Mutant: the settings are retired although the recovery has failed. *)
RecoverAnyway(p) ==
  /\ At(p, "recover")
  /\ journalLeft' \in {FALSE, journalLeft} /\ To(p, IF flow[p].op = "mode" THEN "saving" ELSE "retire")
  /\ UNCHANGED <<storeVars, scheduler>>

(* recover_legacy_power: without a journal there is nothing to do.  A      *)
(* client that gave up may have left a guard that still finishes the work. *)
Recover(p) ==
  /\ At(p, "recover")
  /\ \/ journalLeft' = FALSE /\ To(p, IF flow[p].op = "mode" THEN "saving" ELSE "retire")
     \/ journalLeft /\ journalLeft' \in BOOLEAN /\ To(p, "error")
  /\ UNCHANGED <<storeVars, scheduler>>

(* retire_legacy_power_setting: it reads the file, and saves it without    *)
(* the field; nothing to do without one, or while a folder is missing.     *)
Retire(p) ==
  /\ At(p, "retire")
  /\ Load(p) /\ To(p, "retiring")
  /\ UNCHANGED <<journalLeft, scheduler>>

Retiring(p) ==
  LET next == IF flow[p].op = "boot" THEN "done" ELSE "migrate" IN
  /\ At(p, "retiring")
  /\ \/ seen[p] # NoFile /\ seen[p].power /\ CallSave(p, Normal(seen[p])) /\ UNCHANGED flow
     \/ save[p].at = "idle" /\ To(p, next) /\ UNCHANGED storeVars
     \/ AfterSave(p, next, "error")
  /\ UNCHANGED <<journalLeft, scheduler>>

(* load_settings saves settings of an old version in the new form; without *)
(* a settings file, require_migration refuses to start a connection.       *)
Migrate(p) ==
  /\ At(p, "migrate")
  /\ Load(p) /\ To(p, IF disk = NoFile THEN "error" ELSE "migrating")
  /\ UNCHANGED <<journalLeft, scheduler>>

Migrating(p) ==
  /\ At(p, "migrating")
  /\ \/ seen[p].old /\ CallSave(p, Normal(seen[p])) /\ UNCHANGED flow
     \/ ~seen[p].old /\ save[p].at = "idle" /\ To(p, "done") /\ UNCHANGED storeVars
     \/ AfterSave(p, "done", "error")
  /\ UNCHANGED <<journalLeft, scheduler>>

-----------------------------------------------------------------------------
(* The scheduler: start_background, stop_background, and the registration. *)

(* stop_background: /End, then up to 10 seconds until it is seen to be gone. *)
EndTask(p, good, bad) ==
  \/ task # "ours" /\ To(p, bad) /\ UNCHANGED background
  \/ task = "ours" /\ background = "off" /\ To(p, good) /\ UNCHANGED background
  \/ /\ task = "ours" /\ background # "off"
     /\ \/ background' = "ending" /\ To(p, "stopping")
        \/ UNCHANGED background /\ To(p, bad)

(* start_background: it is content with a program that still runs. *)
RunTask(p, good, bad) ==
  \/ task # "ours" /\ To(p, bad) /\ UNCHANGED background
  \/ task = "ours" /\ background # "off" /\ To(p, good) /\ UNCHANGED background
  \/ /\ task = "ours" /\ background = "off"
     /\ \/ background' = "on" /\ To(p, good)
        \/ background' \in {"on", "off"} /\ To(p, bad)

TaskFor(wanted) == IF wanted THEN "ours" ELSE "none"

(* register_autostart or unregister_autostart; a task that does not match  *)
(* ours is left alone, and one that is right already is not touched.       *)
SetTask(p, wanted, good, bad) ==
  \/ task = "foreign" /\ To(p, bad) /\ UNCHANGED task
  \/ task = TaskFor(wanted) /\ To(p, good) /\ UNCHANGED task
  \/ /\ task = TaskFor(~wanted)
     /\ \/ task' = TaskFor(wanted) /\ To(p, good)
        \/ UNCHANGED task /\ To(p, bad)

-----------------------------------------------------------------------------
(* apply_settings_transaction of the desktop: op "save".                   *)

(* The user changes auto_start; switching modes is in DesktopController. *)
Edit(auto) ==
  /\ At(Desktop, "ready")
  /\ flow' = [flow EXCEPT ![Desktop] = [NoFlow EXCEPT !.op = "save", !.at = "query",
                                          !.new = [Normal(seen[Desktop]) EXCEPT !.auto = auto]]]
  /\ UNCHANGED <<storeVars, journalLeft, scheduler>>

Wanted(p) == flow[p].new.auto
Changed(p) == flow[p].had # Wanted(p)

(* Nothing is touched unless the task is ours, or there is none to touch. *)
Query(p) ==
  /\ Is(p, "save", "query")
  /\ IF ~Wanted(p) /\ ~Normal(seen[p]).auto THEN To(p, "saving")
     ELSE LET had == task # "none"
              was == ~Wanted(p) /\ background # "off"
          IN flow' = [flow EXCEPT ![p].had = had, ![p].was = was,
                        ![p].at = IF task = "foreign" \/ (was /\ ~had) THEN "error"
                                  ELSE IF was THEN "stop" ELSE "task"]
  /\ UNCHANGED <<storeVars, journalLeft, scheduler>>

Stop(p) ==
  /\ At(p, "stop")
  /\ IF flow[p].op = "save" THEN EndTask(p, "task", "undo") ELSE EndTask(p, "recover", "error")
  /\ UNCHANGED <<storeVars, journalLeft, task, torn>>

Stopping(p) ==
  /\ At(p, "stopping")
  /\ IF flow[p].op = "save" THEN To(p, IF background = "off" THEN "task" ELSE "undo")
                            ELSE To(p, IF background = "off" THEN "recover" ELSE "error")
  /\ UNCHANGED <<storeVars, journalLeft, scheduler>>

ChangeTask(p) ==
  /\ At(p, "task")
  /\ IF Changed(p) THEN SetTask(p, Wanted(p), "saving", "undo")
                   ELSE To(p, "saving") /\ UNCHANGED task
  /\ UNCHANGED <<storeVars, journalLeft, background, torn>>

(* Mutant: only a program that was stopped makes a failed save compensate. *)
SavingUndoesStop(p) ==
  /\ Is(p, "save", "saving")
  /\ \/ CallSave(p, flow[p].new) /\ UNCHANGED <<flow, torn>>
     \/ /\ AfterSave(p, "done", IF flow[p].was THEN "undo" ELSE "error")
        /\ torn' = (torn \/ (save[p].at = "failed" /\ save[p].wrote))
  /\ UNCHANGED <<journalLeft, task, background>>

Saving(p) ==
  /\ Is(p, "save", "saving")
  /\ \/ CallSave(p, flow[p].new) /\ UNCHANGED <<flow, torn>>
     \/ /\ AfterSave(p, "done", IF Changed(p) \/ flow[p].was THEN "undo" ELSE "error")
        /\ torn' = (torn \/ (save[p].at = "failed" /\ save[p].wrote))
  /\ UNCHANGED <<journalLeft, task, background>>

(* The compensation: the task as it was, then the background program. *)
Undo(p) ==
  /\ At(p, "undo")
  /\ SetTask(p, flow[p].had, IF flow[p].was THEN "undo_start" ELSE "error", "broken")
  /\ UNCHANGED <<storeVars, journalLeft, background, torn>>

UndoStart(p) ==
  /\ At(p, "undo_start")
  /\ RunTask(p, "error", "broken")
  /\ UNCHANGED <<storeVars, journalLeft, task, torn>>

(* The result is shown.  The desktop goes on, and may load the settings    *)
(* again; the other programs end.                                          *)
Report(p) ==
  /\ flow[p].at \in {"done", "error", "broken"}
  /\ torn' = (torn \/ At(p, "broken"))
  /\ IF flow[p].op \in {"boot", "save"} /\ ~Is(p, "boot", "error")
     THEN /\ flow' = [flow EXCEPT ![p] = [NoFlow EXCEPT !.op = "boot", !.at = "ready"]]
          /\ Load(p) \/ UNCHANGED storeVars
     ELSE flow' = [flow EXCEPT ![p] = NoFlow] /\ Ends(p)
  /\ UNCHANGED <<journalLeft, task, background>>

-----------------------------------------------------------------------------
(* set_local_mode of the command line: op "mode".                          *)

QueryMode(p) ==
  /\ Is(p, "mode", "query")
  /\ flow' = [flow EXCEPT ![p].was = background # "off",
                ![p].at = IF background = "off" THEN "recover"
                          ELSE IF task = "ours" THEN "stop" ELSE "error"]
  /\ UNCHANGED <<storeVars, journalLeft, scheduler>>

SavingMode(p) ==
  /\ Is(p, "mode", "saving")
  /\ \/ \E m \in Modes : CallSave(p, [Normal(seen[p]) EXCEPT !.mode = m])
        /\ UNCHANGED flow
     \/ AfterSave(p, IF flow[p].was THEN "start" ELSE "done", "error")
  /\ UNCHANGED <<journalLeft, scheduler>>

StartAgain(p) ==
  /\ At(p, "start")
  /\ RunTask(p, "done", "error")
  /\ UNCHANGED <<storeVars, journalLeft, task, torn>>

-----------------------------------------------------------------------------
Step(p) ==
  \/ LoadSettings(p) \/ Recover(p) \/ Retire(p) \/ Retiring(p)
  \/ Migrate(p) \/ Migrating(p) \/ Query(p) \/ Stop(p) \/ Stopping(p) \/ ChangeTask(p)
  \/ Saving(p) \/ Undo(p) \/ UndoStart(p) \/ Report(p) \/ QueryMode(p) \/ SavingMode(p)
  \/ StartAgain(p)
  \/ SaveStep(p) /\ UNCHANGED <<journalLeft, scheduler, flow>>

(* A program is killed, at any point of what it is doing. *)
Dies(p) ==
  /\ ~At(p, "off")
  /\ Ends(p)
  /\ flow' = [flow EXCEPT ![p] = NoFlow]
  /\ torn' = (torn \/ flow[p].op = "save")
  /\ UNCHANGED <<journalLeft, task, background>>

(* The user removes the task, or puts another one under its name. *)
Tamper ==
  /\ task' \in {"none", "foreign"} \ {task}
  /\ torn' = TRUE
  /\ UNCHANGED <<storeVars, journalLeft, flow, background>>

Fault ==
  /\ faults < MaxFaults /\ faults' = faults + 1
  /\ \/ \E p \in Procs : \/ Dies(p)
                         \/ StepFails(p) /\ UNCHANGED <<journalLeft, scheduler, flow>>
     \/ Tamper

BackgroundEnds ==
  /\ background = "ending" /\ background' = "off"
  /\ UNCHANGED <<storeVars, journalLeft, flow, task, torn>>

User ==
  \/ \E p \in Procs : Start(p)
  \/ \E auto \in BOOLEAN : Edit(auto)
  \/ RemoveStaleLock /\ UNCHANGED <<journalLeft, scheduler, flow>>

Next == \/ (\E p \in Procs : Step(p)) /\ UNCHANGED faults
        \/ (BackgroundEnds \/ User) /\ UNCHANGED faults
        \/ Fault

Spec == Init /\ [][Next]_vars

-----------------------------------------------------------------------------
(* The logon task exists exactly while the settings ask for it, between    *)
(* the transactions of the desktop: a save that fails, or meets a conflict *)
(* with another program, has undone its change of the task.  Excepted are  *)
(* transactions that a death or a failed read-back cut short, and those    *)
(* that ended with SETTINGS_TASK_INCONSISTENT.                             *)
TaskMatchesSettings ==
  flow[Desktop].op # "save" \/ flow[Desktop].at \in {"done", "error"}
    => torn \/ (task = "ours") = Normal(disk).auto

(* The record of the old power settings leaves the settings file only when *)
(* their recovery is over, whichever program saves first.                  *)
PowerFieldLast ==
  [][ disk # NoFile /\ disk.power /\ disk' # disk => ~journalLeft ]_vars
=============================================================================
