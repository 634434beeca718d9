------------------------- MODULE DesktopController -------------------------
(***************************************************************************)
(* mcp_local/desktop_controller.py with gui_tasks.py: the state machine of *)
(* the desktop.  One GUI thread runs the handlers of the user's commands,  *)
(* the timer callbacks and the parts of tick; a worker thread runs the one *)
(* background task (GuiTasks); the connection (ConnectionRuntime) has a    *)
(* thread of its own and reports through a queue that tick empties.        *)
(*                                                                         *)
(* The whole state is one record d, because the handlers call each other:  *)
(* an operator Foo(d, ...) is the set of states in which method foo may    *)
(* leave the controller, and a handler is such a set of next states.       *)
(***************************************************************************)
EXTENDS Integers

CONSTANT MaxTimers \* bound: retry callbacks in the scheduler at one time

ASSUME MaxTimersPositive == MaxTimers \in Nat \ {0}

VARIABLE d

(* The background task that is submitted, running or waiting for poll.     *)
(* stopped and edited stand for the comparison of the intent and of the    *)
(* edit_generation that save captured with those at completion.            *)
Task == [kind : {"none", "save", "check", "stopbg"}, \* complete callback
         result : {"pending", "ok", "error", "conflict"},
         after : {"none", "launch", "start", "apply"},
         again : BOOLEAN,     \* retry_on_conflict
         mode : BOOLEAN,      \* mode_changed
         owned : BOOLEAN,     \* owned_running
         wasDirty : BOOLEAN,
         external : BOOLEAN,  \* connection_state['external_stopped']
         stopped : BOOLEAN,   \* intent # self.intent
         edited : BOOLEAN,    \* generation # self.edit_generation
         keyEdited : BOOLEAN] \* the key is no longer the submitted one

NoTask == [kind |-> "none", result |-> "pending", after |-> "none",
           again |-> FALSE, mode |-> FALSE, owned |-> FALSE,
           wasDirty |-> FALSE, external |-> FALSE, stopped |-> FALSE,
           edited |-> FALSE, keyEdited |-> FALSE]

Controller ==
  [state : {"IDLE", "RUNNING", "REPAIR", "SAVING", "STARTING", "STOPPING",
            "RESTARTING", "QUITTING"},
   running : BOOLEAN, restartPending : BOOLEAN,
   retry : BOOLEAN,             \* retry_enabled
   timer : BOOLEAN,             \* retry_timer is not None
   scheduled : 0 .. MaxTimers,  \* retry callbacks the scheduler holds
   dirty : BOOLEAN, keyDirty : BOOLEAN,
   repair : BOOLEAN,            \* repair_required
   quitting : BOOLEAN, finished : BOOLEAN,
   bg : {"none", "idle", "running", "foreign"}, \* background_status
   task : Task,
   conn : {"none", "alive", "ended"}, \* thread of self.connection; "ended"
                                      \* until tick takes its done event
   up : {"no", "queued", "seen"},     \* its event that the tunnel runs
   cancel : BOOLEAN,            \* connection.cancel
   retryable : BOOLEAN,         \* error_kind in RetryPolicy.retryable
   failed : BOOLEAN,            \* connection.cleanup_failed
   wanted : BOOLEAN,            \* history: has the user asked for a
                                \* connection, and not stopped or quit since?
   lost : BOOLEAN]              \* history: was a draft dropped unasked?

ControllerTypes == d \in Controller

(* startup with auto_connect enables the retries; the settings may be      *)
(* loaded in need of repair.                                               *)
ControllerInit ==
  \E repair, retry \in BOOLEAN :
    d = [state |-> IF repair THEN "REPAIR" ELSE "IDLE",
         running |-> FALSE, restartPending |-> FALSE, retry |-> retry,
         timer |-> FALSE, scheduled |-> 0, dirty |-> FALSE,
         keyDirty |-> FALSE, repair |-> repair, quitting |-> FALSE,
         finished |-> FALSE, bg |-> "none", task |-> NoTask,
         conn |-> "none", up |-> "no", cancel |-> FALSE,
         retryable |-> FALSE, failed |-> FALSE, wanted |-> retry,
         lost |-> FALSE]

-----------------------------------------------------------------------------
(* control_states: what the buttons allow.                                 *)

Busy(c) == c.task.kind # "none"
Available(c) == ~c.quitting /\ ~Busy(c)
Stable(c) == Available(c) /\ c.state \in {"IDLE", "RUNNING", "REPAIR"}

CanSwitch(c) == Stable(c) /\ ~c.repair /\ ~c.failed
CanStart(c) == /\ Stable(c) /\ ~c.running /\ ~c.repair /\ ~c.failed
               /\ c.bg \notin {"running", "foreign"}
CanApply(c) == Stable(c) /\ c.running /\ ~c.repair

(* The state to which a save, a reload or the end of a connection returns. *)
Settled(c) == IF c.repair THEN "REPAIR"
              ELSE IF c.running THEN "RUNNING" ELSE "IDLE"

CancelTimer(c) ==
  [c EXCEPT !.timer = FALSE, !.scheduled = IF c.timer THEN @ - 1 ELSE @]

SetTimer(c) == [c EXCEPT !.timer = TRUE, !.scheduled = @ + 1]

-----------------------------------------------------------------------------
(* Steps that several handlers share.                                      *)

Submit(c, task) == [c EXCEPT !.task = task]

CheckBackground(c) ==
  IF Stable(c) THEN Submit(c, [NoTask EXCEPT !.kind = "check"]) ELSE c

(* reload_settings, when load_for_edit succeeds: the form is overwritten.  *)
Reload(c) ==
  LET loaded(repair) == [c EXCEPT !.repair = repair, !.dirty = FALSE,
                                  !.bg = "none", !.lost = @ \/ c.dirty]
  IN {[loaded(r) EXCEPT !.state = Settled(loaded(r))] : r \in BOOLEAN}

(* The same after the user agreed to drop the draft.                       *)
ReloadAsked(c) == {[e EXCEPT !.lost = c.lost] : e \in Reload(c)}

(* Mutant: when start() raises, its thread has begun. *)
LaunchHalfway(c) ==
  IF c.quitting \/ c.running \/ c.repair \/ c.failed \/ c.conn = "alive"
    THEN {c}
    ELSE LET new == [c EXCEPT !.conn = "alive", !.up = "no",
                              !.cancel = FALSE, !.retryable = FALSE]
         IN {[new EXCEPT !.running = TRUE, !.state = "STARTING"],
             [new EXCEPT !.running = FALSE, !.state = "IDLE"]}

(* A new Connection object; start() may raise.  (A thread that is still    *)
(* alive would have launch called again 50 ms later; RunningCoversThread   *)
(* says that this never happens.)                                          *)
Launch(c) ==
  IF c.quitting \/ c.running \/ c.repair \/ c.failed \/ c.conn = "alive"
    THEN {c}
    ELSE LET new == [c EXCEPT !.up = "no", !.cancel = FALSE,
                              !.retryable = FALSE]
         IN {[new EXCEPT !.conn = "alive", !.running = TRUE,
                         !.state = "STARTING"],
             [new EXCEPT !.conn = "none", !.running = FALSE,
                         !.state = "IDLE"]}

ReloadAndLaunch(c) == {c} \cup UNION {Launch(e) : e \in Reload(c)}

(* The mode that was saved is not the one running, or the user restarts:   *)
(* the old connection is cancelled, and tick starts a new one when it is   *)
(* done, if pending says so.                                               *)
CancelToRestart(c, pending) ==
  [c EXCEPT !.restartPending = pending, !.cancel = TRUE,
            !.state = "RESTARTING"]

-----------------------------------------------------------------------------
(* save.                                                                   *)

SaveModes(c, after, again, modes) ==
  IF Busy(c) \/ c.quitting \/ c.state \notin {"IDLE", "RUNNING", "REPAIR"}
    THEN {}
    ELSE {[Submit(c, [NoTask EXCEPT !.kind = "save", !.after = after,
                                    !.again = again, !.mode = m,
                                    !.owned = c.running,
                                    !.wasDirty = c.dirty])
           EXCEPT !.state = "SAVING", !.wanted = @ \/ m] : m \in modes}

(* A save may be refused: the draft is invalid or the user does not        *)
(* confirm.  The mode differs from the saved one only in a dirty draft.    *)
Save(c, after, again) ==
  {c} \cup SaveModes(c, after, again, IF c.dirty THEN BOOLEAN ELSE {FALSE})

Start(c) ==
  LET e == CancelTimer(c)
  IN IF ~CanStart(e) THEN {e}
     ELSE IF e.dirty \/ e.keyDirty THEN {e} \cup Save(e, "launch", TRUE)
     ELSE {e} \cup ReloadAndLaunch(e)   \* {e}: there is no key

After(c, after) ==
  CASE after = "launch" -> Launch(c)
    [] after = "start"  -> Start(c)
    [] after = "apply"  -> {CancelToRestart(c, TRUE)}

(* Mutant: neither a stop nor an edit during the save is noticed. *)
AlwaysFresh(t) == TRUE

(* Neither stopped nor edited since the save was submitted. *)
Fresh(t) == ~t.stopped /\ ~t.edited

SaveDone(c, t) ==
  LET saved == [c EXCEPT !.repair = FALSE, !.bg = "none",
                         !.dirty = @ /\ t.edited, !.keyDirty = t.keyEdited]
      e == [saved EXCEPT !.state = Settled(saved)]
  IN CASE t.mode /\ e.running ->
            {CancelToRestart(e, Fresh(t) /\ ~e.keyDirty)}
       [] ~(t.mode /\ e.running) /\ t.external /\ Fresh(t) -> Launch(e)
       [] ~(t.mode /\ e.running) /\ ~(t.external /\ Fresh(t)) ->
            IF t.after = "none" THEN {CheckBackground(e)}
            ELSE IF Fresh(t) /\ ~e.keyDirty THEN After(e, t.after)
            ELSE {e}

(* Mutant: the second save may be retried as well. *)
ConflictAgain(c, t) ==
  IF t.wasDirty \/ c.dirty
    THEN {c} \cup ReloadAsked(c)
    ELSE {c} \cup UNION {Save(e, t.after, TRUE) : e \in Reload(c)}

(* SETTINGS_CONFLICT.  A draft is dropped only when the user agrees;       *)
(* without one the settings are reloaded and saved once more.              *)
Conflict(c, t) ==
  IF t.wasDirty \/ c.dirty
    THEN {c} \cup ReloadAsked(c)
    ELSE {c} \cup
         IF ~t.again THEN {}
         ELSE UNION {IF t.stopped \/ e.repair THEN {e}
                     ELSE Save(e, t.after, FALSE) : e \in Reload(c)}

SaveFailed(c, t) ==
  LET e(key) == [c EXCEPT !.state = Settled(c), !.keyDirty = key]
      keys   == {c.keyDirty, t.keyEdited}  \* the second if the key was saved
  IN IF t.result = "conflict" THEN UNION {Conflict(e(k), t) : k \in keys}
                              ELSE {e(k) : k \in keys}

(* The callbacks that poll runs when the task has ended.                   *)
Completed(c, t) ==
  CASE t.kind = "save" ->
         IF c.quitting THEN {c}
         ELSE IF t.result = "ok" THEN SaveDone(c, t) ELSE SaveFailed(c, t)
    [] t.kind = "check" ->
         {[c EXCEPT !.bg = b] : b \in IF t.result = "ok"
                                        THEN {"idle", "running", "foreign"}
                                        ELSE {"idle"}}
    [] t.kind = "stopbg" -> {CheckBackground([c EXCEPT !.bg = "none"])}

-----------------------------------------------------------------------------
(* stop, quit, finish.                                                     *)

Finish(c) == [c EXCEPT !.finished = TRUE, !.timer = FALSE, !.scheduled = 0]

(* Mutant: the connection is not told. *)
StopSilently(c) ==
  LET e == CancelTimer(c)
  IN [e EXCEPT !.wanted = FALSE, !.retry = FALSE, !.restartPending = FALSE,
               !.task.stopped = Busy(e),
               !.state = IF e.running /\ ~e.quitting /\ e.state # "SAVING"
                           THEN "STOPPING" ELSE @]

Stop(c) ==
  LET e == CancelTimer([c EXCEPT !.retry = FALSE])
      f == IF /\ ~e.running /\ e.bg = "running" /\ Available(e)
              /\ e.state \in {"IDLE", "STARTING", "RUNNING", "REPAIR"}
             THEN Submit(e, [NoTask EXCEPT !.kind = "stopbg"]) ELSE e
  IN [f EXCEPT !.wanted = FALSE, !.restartPending = FALSE, !.cancel = TRUE,
               !.task.stopped = f.task.kind = "save",
               !.state = IF f.running /\ ~f.quitting /\ f.state # "SAVING"
                           THEN "STOPPING" ELSE @]

Quit(c) ==
  LET e == Stop([c EXCEPT !.quitting = TRUE, !.state = "QUITTING"])
  IN IF ~e.running /\ ~Busy(e) THEN Finish(e) ELSE e

-----------------------------------------------------------------------------
(* Actions.  The commands of the user, from the window or the tray menu.   *)

UserEdits ==
  /\ ~d.finished /\ ~d.quitting
  /\ d' = [d EXCEPT !.dirty = TRUE, !.task.edited = d.task.kind = "save"]

UserEditsKey ==
  /\ ~d.finished /\ ~d.quitting
  /\ \E differs \in BOOLEAN :
       d' = [d EXCEPT !.keyDirty = TRUE,
                      !.task.keyEdited = d.task.kind = "save" /\ differs]

UserSaves   == ~d.finished /\ ~d.quitting /\ d' \in Save(d, "none", TRUE)
UserStarts  == /\ ~d.finished /\ ~d.quitting
               /\ d' \in Start([d EXCEPT !.wanted = @ \/ CanStart(d)])
UserStops   == ~d.finished /\ ~d.quitting /\ d' = Stop(d)
UserQuits   == ~d.finished /\ d' = Quit(d)
UserChecks  == ~d.finished /\ ~d.quitting /\ d' = CheckBackground(d)

UserRestarts ==
  /\ ~d.finished /\ ~d.quitting /\ CanApply(d)
  /\ LET w == [d EXCEPT !.wanted = TRUE]
     IN d' \in IF d.dirty \/ d.keyDirty THEN Save(w, "apply", TRUE)
                                        ELSE {CancelToRestart(w, TRUE)}

(* switch_access_mode: the draft is restored if the save is refused. *)
UserSwitchesMode ==
  /\ ~d.finished /\ ~d.quitting /\ CanSwitch(d)
  /\ d' \in {d} \cup
       SaveModes([d EXCEPT !.dirty = TRUE], "start", TRUE, {TRUE})

-----------------------------------------------------------------------------
(* The worker thread of GuiTasks and the connection.                       *)

WorkEnds ==
  /\ ~d.finished /\ Busy(d) /\ d.task.result = "pending"
  /\ \E r \in {"ok", "error"} \cup
              (IF d.task.kind = "save" THEN {"conflict"} ELSE {}),
        x \in IF d.task.mode /\ ~d.task.owned THEN BOOLEAN ELSE {FALSE} :
       d' = [d EXCEPT !.task.result = r, !.task.external = x]

ConnUp ==
  /\ ~d.finished /\ d.conn = "alive" /\ d.up = "no"
  /\ d' = [d EXCEPT !.up = "queued"]

(* Its thread ends.  (A tick that finds the done event while the thread is *)
(* still alive puts it back: a stutter.)                                   *)
ConnEnds ==
  /\ ~d.finished /\ d.conn = "alive"
  /\ \E retryable, failed \in BOOLEAN :
       /\ retryable => ~d.cancel /\ ~failed
       /\ d' = [d EXCEPT !.conn = "ended", !.retryable = retryable,
                         !.failed = failed]

-----------------------------------------------------------------------------
(* The parts of tick, and the retry timer.                                 *)

Poll ==
  /\ ~d.finished /\ Busy(d) /\ d.task.result # "pending"
  /\ d' \in Completed([d EXCEPT !.task = NoTask], d.task)

TickQuits ==
  /\ ~d.finished /\ d.quitting /\ ~d.running /\ ~Busy(d)
  /\ d' = Finish(d)

TakeUp ==
  /\ ~d.finished /\ d.up = "queued"
  /\ d' = [d EXCEPT !.up = "seen",
                    !.state = IF @ = "STARTING" THEN "RUNNING" ELSE @]

DoneFailed(c) ==
  LET e == [CancelTimer(c) EXCEPT !.restartPending = FALSE, !.retry = FALSE,
                                  !.state = "IDLE"]
  IN IF c.quitting THEN {Finish(e)} ELSE {e}

DoneClean(c) ==
  LET e == IF c.state = "SAVING" THEN c ELSE [c EXCEPT !.state = Settled(c)]
  IN IF c.quitting THEN {Finish(e)}
     ELSE IF c.restartPending
       THEN ReloadAndLaunch([e EXCEPT !.restartPending = FALSE])
     ELSE IF c.retry /\ c.retryable THEN {SetTimer(e)}
     ELSE {e}

TakeDone ==
  /\ ~d.finished /\ d.conn = "ended" /\ d.up # "queued"
  /\ d.retry => d.scheduled < MaxTimers \* bound
  /\ LET e == [d EXCEPT !.conn = "none", !.running = FALSE]
     IN d' \in IF e.failed THEN DoneFailed(e) ELSE DoneClean(e)

(* Mutant: the draft is not looked at. *)
RetryAnyway(c) ==
  IF ~c.retry \/ c.quitting THEN {c}
  ELSE IF Busy(c) \/ c.state \notin {"IDLE", "RUNNING"} THEN {SetTimer(c)}
  ELSE IF ~c.running THEN ReloadAndLaunch(c) ELSE {c}

RetryConnection(c) ==
  IF ~c.retry \/ c.quitting THEN {c}
  ELSE IF c.dirty \/ c.keyDirty \/ c.repair THEN {[c EXCEPT !.retry = FALSE]}
  ELSE IF Busy(c) \/ c.state \notin {"IDLE", "RUNNING"} THEN {SetTimer(c)}
  ELSE IF ~c.running THEN ReloadAndLaunch(c) ELSE {c}

TimerFires ==
  /\ ~d.finished /\ d.scheduled > 0
  /\ d' \in RetryConnection([d EXCEPT !.timer = FALSE, !.scheduled = @ - 1])

-----------------------------------------------------------------------------
User == \/ UserEdits \/ UserEditsKey \/ UserSaves \/ UserStarts \/ UserStops
        \/ UserQuits \/ UserChecks \/ UserRestarts \/ UserSwitchesMode

ControllerNext ==
  \/ User \/ WorkEnds \/ ConnUp \/ ConnEnds
  \/ Poll \/ TickQuits \/ TakeUp \/ TakeDone \/ TimerFires

controllerVars == <<d>>

ControllerSpec == ControllerInit /\ [][ControllerNext]_controllerVars

(* The worker's calls have time limits; the tick timer is always armed     *)
(* again; a connection that is cancelled ends: its worker polls the flag   *)
(* between the stages, and waits for the process and the event of the flag *)
(* at once.  Nothing is assumed of the user.                               *)
ControllerFairness ==
  /\ WF_controllerVars(WorkEnds)
  /\ WF_controllerVars(d.cancel /\ ConnEnds)
  /\ WF_controllerVars(Poll) /\ WF_controllerVars(TickQuits)
  /\ WF_controllerVars(TakeUp) /\ WF_controllerVars(TakeDone)

FairControllerSpec == ControllerSpec /\ ControllerFairness

-----------------------------------------------------------------------------
(* Properties.                                                             *)

(* A connection whose thread lives, or whose end was not yet seen, is      *)
(* known as running: no handler starts another one over it, and quitting   *)
(* waits for it.                                                           *)
RunningCoversThread == d.conn # "none" <=> d.running

(* README L136: stopping and quitting cancel the intent to connect, though *)
(* it may be held by a retry timer, a callback of a save that is running,  *)
(* a pending restart, or a retry after a conflict: no connection starts    *)
(* until the user asks for one again.                                      *)
StopCancelsReconnect ==
  [][d.conn # "alive" /\ d'.conn = "alive" => d'.wanted]_controllerVars

(* A draft is overwritten from the disk without asking only by a restart   *)
(* that was pending: never by a retry, a conflict or a start.              *)
DraftSurvives == [][~d.lost /\ d'.lost => d.restartPending]_controllerVars

(* Every save ends, also when the settings on disk change each time;       *)
(* stopping ends, whatever task is running meanwhile; and quitting ends    *)
(* the program, in whatever state it was asked for.                        *)
CommandsEnd ==
  /\ d.state = "SAVING" ~> d.state # "SAVING"
  /\ d.state = "STOPPING" ~> d.state # "STOPPING"
  /\ d.quitting ~> d.finished
=============================================================================
