--------------------------- MODULE DesktopProofs ----------------------------
(***************************************************************************)
(* Proofs about the desktop program: ConnectionRuntime for any set of      *)
(* connections, DesktopController for any number of timers, DesktopPipe    *)
(* for any number of requests, edits and changes and any capacity of its   *)
(* queues.                                                                 *)
(*                                                                         *)
(* ConnectionRuntime.  The inductive invariant IInv adds to the properties *)
(* what they rest on: a worker past the mutex, or one that still has a job *)
(* object, is the only one of its kind and holds the mutex; a job object   *)
(* exists from newjob to closejob; the permit is given only to a wrapper   *)
(* inside the job; and a call of stop() leaves cancel set.                 *)
(*                                                                         *)
(* DesktopController.  ControllerInv: whatever may connect later (a task,  *)
(* a retry, a pending restart) belongs to a user who has asked for it.     *)
(*                                                                         *)
(* DesktopPipe.  PipeInv: a request is executed once, after it was sent,   *)
(* and its reply says how; the forms arrive in the order in which they     *)
(* were sent.                                                              *)
(***************************************************************************)
EXTENDS ConnectionRuntime, DesktopController, DesktopPipe, FiniteSetTheorems,
        SequenceTheorems, TLAPS

-----------------------------------------------------------------------------
(* ConnectionRuntime.                                                      *)

(* The worker states between the mutex and the finally block. *)
Admitted == {"probe", "prepare", "newjob", "spawn", "assign", "permit",
             "status", "wait", "exited"}
WithJob  == {"spawn", "assign", "permit", "status", "wait", "exited"}

Owns(c) == pc[c] \in Admitted \/ job[c]

IInv ==
  /\ TypeOK
  /\ \A c \in Conns :
       /\ Owns(c) => c \in mutex
       /\ pc[c] \in WithJob => job[c]
       /\ job[c] => pc[c] \in WithJob \cup {"closejob"}
       /\ pc[c] = "permit" => inJob[c]
       /\ Live(c) => job[c] /\ inJob[c]
       /\ stop[c] # "no" => cancel[c]
       /\ stop[c] = "returned" => ~Live(c)
       /\ (stop[c] \in {"marked", "returned", "failed"} /\ pc[c] \in {"done", "off"})
            => kind[c] # "RETRYABLE"
  /\ \A c, b \in Conns : Owns(c) /\ Owns(b) => c = b

(* What a kill leaves is a process state, and never a live client. *)
LEMMA KillProperties ==
  ASSUME NEW p \in ProcState
  PROVE  Kill(p) \in ProcState \ {"permitted", "tunnel"}
<1>1. CASE p = "tunnel"
  BY <1>1 DEF Kill, ProcState
<1>2. CASE p \in {"gated", "permitted"}
  BY <1>2 DEF Kill, ProcState
<1>3. CASE p \notin {"tunnel", "gated", "permitted"}
  BY <1>3 DEF Kill, ProcState
<1> QED BY <1>1, <1>2, <1>3

(* Every variable of the managed connection keeps its type, for any number *)
(* of processes.                                                           *)
THEOREM TypeCorrect == Spec => []TypeOK
<1>1. Init => TypeOK
  BY DEF Init, TypeOK, WorkerState, StopState, ProcState, Kind, Running
<1>2. TypeOK /\ [Next]_vars => TypeOK'
  <2> SUFFICES ASSUME TypeOK, [Next]_vars PROVE TypeOK'
    OBVIOUS
  <2> USE DEF TypeOK, WorkerState, StopState, ProcState, Kind, Running, Go,
              SetKind, ToCleanup, Proceed
  <2> USE KillProperties
  <2>1. ASSUME NEW c \in Conns, Owner(c) PROVE TypeOK'
    <3>1. CASE StartThread(c) BY <3>1 DEF StartThread
    <3>2. CASE CancelOnly(c) BY <3>2 DEF CancelOnly, SetCancel
    <3>3. CASE StopCall(c) BY <3>3 DEF StopCall, SetCancel
    <3>4. CASE StopMark(c) BY <3>4 DEF StopMark
    <3>5. CASE StopJob(c) BY <3>5 DEF StopJob
    <3> QED BY <2>1, <3>1, <3>2, <3>3, <3>4, <3>5 DEF Owner
  <2>2. ASSUME NEW c \in Conns, Worker(c) PROVE TypeOK'
    <3>1. CASE Migrate(c) BY <3>1 DEF Migrate
    <3>2. CASE TakeMutex(c) BY <3>2 DEF TakeMutex
    <3>3. CASE Probe(c) BY <3>3 DEF Probe
    <3>4. CASE Prepare(c) BY <3>4 DEF Prepare
    <3>5. CASE NewJob(c) BY <3>5 DEF NewJob
    <3>6. CASE Spawn(c) BY <3>6 DEF Spawn
    <3>7. CASE Assign(c)
      <4>1. Kill(proc[c]) \in ProcState
        BY KillProperties DEF ProcState
      <4> QED BY <3>7, <4>1 DEF Assign
    <3>8. CASE Permit(c) BY <3>8 DEF Permit
    <3>9. CASE Status(c) BY <3>9 DEF Status
    <3>10. CASE Wait(c) BY <3>10 DEF Wait
    <3>11. CASE NextStage(c) BY <3>11 DEF NextStage
    <3>12. CASE CloseJob(c) BY <3>12 DEF CloseJob
    <3>13. CASE Reap(c) BY <3>13 DEF Reap
    <3>14. CASE Release(c) BY <3>14 DEF Release
    <3>15. CASE ReportEnd(c) BY <3>15 DEF ReportEnd
    <3>16. CASE ThreadEnds(c) BY <3>16 DEF ThreadEnds
    <3> QED BY <2>2, <3>1, <3>2, <3>3, <3>4, <3>5, <3>6, <3>7, <3>8, <3>9,
             <3>10, <3>11, <3>12, <3>13, <3>14, <3>15, <3>16 DEF Worker
  <2>3. ASSUME NEW c \in Conns, System(c) PROVE TypeOK'
    <3>1. CASE ClientStarts(c) BY <3>1 DEF ClientStarts
    <3>2. CASE ProcessEnds(c) BY <3>2 DEF ProcessEnds
    <3>3. CASE DeathCompletes(c) BY <3>3 DEF DeathCompletes
    <3>4. CASE Crash(c) BY <3>4 DEF Crash
    <3> QED BY <2>3, <3>1, <3>2, <3>3, <3>4 DEF System
  <2>4. CASE UNCHANGED vars
    BY <2>4 DEF vars
  <2> QED BY <2>1, <2>2, <2>3, <2>4 DEF Next
<1> QED BY <1>1, <1>2, PTL DEF Spec

(* The inductive invariant of the managed connection: a live tunnel client *)
(* has an open job, a worker that owns the mutex, and a permit             *)
(* (connection_runtime.py, _run and stop).                                 *)
THEOREM Inductive == Spec => []IInv
<1>1. Init => IInv
  <2> SUFFICES ASSUME Init PROVE IInv
    OBVIOUS
  <2>1. TypeOK
    BY DEF Init, TypeOK, WorkerState, StopState, ProcState, Kind, Running
  <2> QED BY <2>1 DEF Init, IInv, Owns, Live, Admitted, WithJob
<1>2. TypeOK' /\ IInv /\ [Next]_vars => IInv'
  <2> SUFFICES ASSUME TypeOK', IInv, [Next]_vars PROVE IInv'
    OBVIOUS
  <2> USE KillProperties
      DEF IInv, TypeOK, Owns, Live, Admitted, WithJob, Go, SetKind, ToCleanup,
          Proceed
  <2>1. ASSUME NEW c \in Conns, Owner(c) PROVE IInv'
    <3>1. CASE StartThread(c) BY <3>1 DEF StartThread
    <3>2. CASE CancelOnly(c) BY <3>2 DEF CancelOnly, SetCancel
    <3>3. CASE StopCall(c) BY <3>3 DEF StopCall, SetCancel
    <3>4. CASE StopMark(c) BY <3>4 DEF StopMark
    <3>5. CASE StopJob(c) BY <3>5 DEF StopJob
    <3> QED BY <2>1, <3>1, <3>2, <3>3, <3>4, <3>5 DEF Owner
  <2>2. ASSUME NEW c \in Conns, Worker(c) PROVE IInv'
    <3>1. CASE Migrate(c) BY <3>1 DEF Migrate
    <3>2. CASE TakeMutex(c) BY <3>2 DEF TakeMutex
    <3>3. CASE Probe(c) BY <3>3 DEF Probe
    <3>4. CASE Prepare(c) BY <3>4 DEF Prepare
    <3>5. CASE NewJob(c) BY <3>5 DEF NewJob
    <3>6. CASE Spawn(c) BY <3>6 DEF Spawn
    <3>7. CASE Assign(c) BY <3>7 DEF Assign
    <3>8. CASE Permit(c) BY <3>8 DEF Permit
    <3>9. CASE Status(c) BY <3>9 DEF Status
    <3>10. CASE Wait(c) BY <3>10 DEF Wait
    <3>11. CASE NextStage(c) BY <3>11 DEF NextStage
    <3>12. CASE CloseJob(c) BY <3>12 DEF CloseJob
    <3>13. CASE Reap(c) BY <3>13 DEF Reap
    <3>14. CASE Release(c) BY <3>14 DEF Release
    <3>15. CASE ReportEnd(c) BY <3>15 DEF ReportEnd
    <3>16. CASE ThreadEnds(c) BY <3>16 DEF ThreadEnds
    <3> QED BY <2>2, <3>1, <3>2, <3>3, <3>4, <3>5, <3>6, <3>7, <3>8, <3>9,
             <3>10, <3>11, <3>12, <3>13, <3>14, <3>15, <3>16 DEF Worker
  <2>3. ASSUME NEW c \in Conns, System(c) PROVE IInv'
    <3>1. CASE ClientStarts(c) BY <3>1 DEF ClientStarts
    <3>2. CASE ProcessEnds(c) BY <3>2 DEF ProcessEnds
    <3>3. CASE DeathCompletes(c) BY <3>3 DEF DeathCompletes
    <3>4. CASE Crash(c) BY <3>4 DEF Crash
    <3> QED BY <2>3, <3>1, <3>2, <3>3, <3>4 DEF System
  <2>4. CASE UNCHANGED vars
    BY <2>4 DEF vars
  <2> QED BY <2>1, <2>2, <2>3, <2>4 DEF Next
<1> QED BY <1>1, <1>2, TypeCorrect, PTL DEF Spec

(* No tunnel client ever runs outside a job its owner holds open.          *)
THEOREM NoOrphans == Spec => []NoOrphanTunnel
<1>1. IInv => NoOrphanTunnel
  BY DEF IInv, NoOrphanTunnel
<1> QED BY <1>1, Inductive, PTL

(* At most one connection of the session has a tunnel client.              *)
THEOREM AtMostOneTunnel == Spec => []OneTunnel
<1>1. IInv => OneTunnel
  BY DEF IInv, OneTunnel, Owns
<1> QED BY <1>1, Inductive, PTL

(* After stop() has returned, the run has no client and never gets one.    *)
THEOREM StopStops == Spec => []StopIsFinal
<1>1. IInv => StopIsFinal
  BY DEF IInv, StopIsFinal
<1> QED BY <1>1, Inductive, PTL

(* A run that was stopped never ends with a kind the desktop retries.      *)
THEOREM StopIsNotRetried == Spec => []StoppedIsNotRetried
<1>1. IInv => StoppedIsNotRetried
  BY DEF IInv, StoppedIsNotRetried
<1> QED BY <1>1, Inductive, PTL

-----------------------------------------------------------------------------
LiveConns == {c \in Conns : Live(c)}

(* A step gives a client to one connection while no other has one, takes   *)
(* the client of one away, or leaves the clients alone.                    *)
LEMMA ClientStep ==
  ASSUME IInv, [Next]_vars
  PROVE  \/ LiveConns' = LiveConns
         \/ \E c \in LiveConns : LiveConns' = LiveConns \ {c}
         \/ \E c \in Conns : LiveConns = {} /\ LiveConns' = {c}
<1> USE KillProperties DEF IInv, TypeOK, Live, LiveConns
<1>1. ASSUME NEW c \in Conns, Owner(c) \/ System(c)
      PROVE  \/ LiveConns' = LiveConns
             \/ c \in LiveConns /\ LiveConns' = LiveConns \ {c}
  <2>1. \A b \in Conns \ {c} : proc'[b] = proc[b]
    BY <1>1 DEF Owner, System, StartThread, CancelOnly, StopCall, StopMark, StopJob,
                ClientStarts, ProcessEnds, DeathCompletes, Crash
  <2>2. Live(c)' => Live(c)
    BY <1>1 DEF Owner, System, StartThread, CancelOnly, StopCall, StopMark, StopJob,
                ClientStarts, ProcessEnds, DeathCompletes, Crash
  <2> QED BY <2>1, <2>2
<1>2. ASSUME NEW c \in Conns, Worker(c)
      PROVE  \/ LiveConns' = LiveConns
             \/ c \in LiveConns /\ LiveConns' = LiveConns \ {c}
             \/ LiveConns = {} /\ LiveConns' = {c}
  <2>1. \A b \in Conns \ {c} : proc'[b] = proc[b]
    BY <1>2 DEF Worker, Migrate, TakeMutex, Probe, Prepare, NewJob, Spawn,
                Assign, Permit, Status, Wait, NextStage, CloseJob, Reap,
                Release, ReportEnd, ThreadEnds
  <2>2. CASE Permit(c)
    <3>1. \A b \in Conns : Live(b) => b = c
      BY <2>2 DEF Permit, Owns, Admitted
    <3> QED BY <2>1, <2>2, <3>1 DEF Permit
  <2>3. CASE ~Permit(c)
    <3>0. Kill(proc[c]) \notin {"permitted", "tunnel"}
      BY KillProperties DEF ProcState
    <3>1. Live(c)' => Live(c)
      BY <1>2, <2>3, <3>0 DEF Worker, Migrate, TakeMutex, Probe, Prepare, NewJob,
                Spawn, Assign, Status, Wait, NextStage, CloseJob, Reap,
                Release, ReportEnd, ThreadEnds
    <3> QED BY <2>1, <3>1
  <2> QED BY <2>2, <2>3
<1>3. CASE UNCHANGED vars
  BY <1>3 DEF vars
<1> QED BY <1>1, <1>2, <1>3 DEF Next

(* The session's connections implement a pool with a single slot.          *)
THEOREM Refinement == Spec => ImplementsOneTunnel
<1>1. Init => Session!Init
  BY DEF Init, Session!Init, Live
<1>2. IInv /\ [Next]_vars => [Session!Next]_LiveConns
  <2> SUFFICES ASSUME IInv, [Next]_vars PROVE [Session!Next]_LiveConns
    OBVIOUS
  <2>1. CASE LiveConns' = LiveConns
    BY <2>1
  <2>2. ASSUME NEW c \in LiveConns, LiveConns' = LiveConns \ {c}
        PROVE  Session!Next
    BY <2>2 DEF Session!Next, Session!Give, LiveConns
  <2>3. ASSUME NEW c \in Conns, LiveConns = {}, LiveConns' = {c}
        PROVE  Session!Next
    <3>1. Session!Cardinality(LiveConns) = Cardinality(LiveConns)
      BY DEF Session!Cardinality, Cardinality
    <3>2. Session!Cardinality(LiveConns) < 1
      BY <2>3, <3>1, FS_EmptySet
    <3> QED BY <2>3, <3>2 DEF Session!Next, Session!Take, LiveConns
  <2> QED BY <2>1, <2>2, <2>3, ClientStep
<1> QED BY <1>1, <1>2, Inductive, PTL
        DEF Spec, ImplementsOneTunnel, Session!Spec, LiveConns

-----------------------------------------------------------------------------
(***************************************************************************)
(* DesktopController.                                                      *)
(***************************************************************************)

(* A task that may connect when it is done belongs to a user who has asked. *)
TaskOK(t, wanted) ==
  /\ t.mode \/ t.after # "none" => t.stopped \/ wanted
  /\ t.external => t.mode
  /\ t.kind # "save" => ~t.mode /\ t.after = "none"

(* So does every other place that holds an intent to connect.              *)
IntentOK(c) ==
  /\ c.retry => c.wanted
  /\ c.restartPending => c.wanted
  /\ TaskOK(c.task, c.wanted)

ControllerOK(c) ==
  /\ c \in Controller /\ IntentOK(c)
  /\ c.conn # "none" <=> c.running
  /\ c.timer => c.scheduled > 0

(* What a handler may do: connect only for a user who wants it, and keep    *)
(* the draft.                                                              *)
Leads(c, e) ==
  /\ ControllerOK(e)
  /\ e.conn = "alive" => c.conn = "alive" \/ e.wanted
  /\ e.lost => c.lost

LEMMA ControllerFields ==
  ASSUME NEW c \in Controller
  PROVE  /\ c.retry \in BOOLEAN /\ c.restartPending \in BOOLEAN /\ c.wanted \in BOOLEAN
         /\ c.running \in BOOLEAN /\ c.dirty \in BOOLEAN /\ c.keyDirty \in BOOLEAN
         /\ c.repair \in BOOLEAN /\ c.timer \in BOOLEAN /\ c.lost \in BOOLEAN
         /\ c.quitting \in BOOLEAN /\ c.finished \in BOOLEAN
         /\ c.scheduled \in 0 .. MaxTimers
         /\ c.task \in Task /\ c.conn \in {"none", "alive", "ended"}
         /\ c.state \in {"IDLE", "RUNNING", "REPAIR", "SAVING", "STARTING", "STOPPING",
                         "RESTARTING", "QUITTING"}
BY DEF Controller

LEMMA TaskFields ==
  ASSUME NEW t \in Task
  PROVE  /\ t.kind \in {"none", "save", "check", "stopbg"}
         /\ t.result \in {"pending", "ok", "error", "conflict"}
         /\ t.after \in {"none", "launch", "start", "apply"}
         /\ t.again \in BOOLEAN /\ t.mode \in BOOLEAN /\ t.external \in BOOLEAN
         /\ t.stopped \in BOOLEAN /\ t.edited \in BOOLEAN /\ t.keyEdited \in BOOLEAN
         /\ t.wasDirty \in BOOLEAN
BY DEF Task

(* A handler that touches neither an intent, nor the connection, nor the    *)
(* timer.                                                                  *)
Aside(c, e) ==
  /\ e \in Controller
  /\ e.retry = c.retry /\ e.restartPending = c.restartPending /\ e.wanted = c.wanted
  /\ e.task = c.task /\ e.conn = c.conn /\ e.running = c.running
  /\ e.timer = c.timer /\ e.scheduled = c.scheduled

LEMMA AsideOK ==
  ASSUME NEW c, NEW e, ControllerOK(c), Aside(c, e)
  PROVE  ControllerOK(e)
BY DEF ControllerOK, Aside, IntentOK

LEMMA NoTaskOK ==
  NoTask \in Task /\ \A w \in BOOLEAN : TaskOK(NoTask, w)
BY DEF NoTask, Task, TaskOK

LEMMA TimerCancelled ==
  ASSUME NEW c, ControllerOK(c)
  PROVE  LET e == CancelTimer(c)
         IN /\ ControllerOK(e) /\ ~e.timer
            /\ e.retry = c.retry /\ e.restartPending = c.restartPending
            /\ e.wanted = c.wanted /\ e.task = c.task /\ e.conn = c.conn
            /\ e.running = c.running /\ e.lost = c.lost /\ e.dirty = c.dirty
            /\ e.keyDirty = c.keyDirty /\ e.state = c.state
            /\ CanStart(e) = CanStart(c)
            /\ e.quitting = c.quitting /\ e.failed = c.failed /\ e.repair = c.repair
<1> DEFINE n == IF c.timer THEN c.scheduled - 1 ELSE c.scheduled
           e == CancelTimer(c)
<1>1. c \in Controller /\ c.scheduled \in 0 .. MaxTimers /\ (c.timer => c.scheduled > 0)
  BY ControllerFields DEF ControllerOK
<1>2. n \in 0 .. MaxTimers
  BY <1>1, MaxTimersPositive
<1>3. e = [c EXCEPT !.timer = FALSE, !.scheduled = n]
  BY DEF CancelTimer
<1> HIDE DEF n, e
<1>4. e \in Controller
  BY <1>1, <1>2, <1>3 DEF Controller
<1>5. /\ e.timer = FALSE
      /\ e.retry = c.retry /\ e.restartPending = c.restartPending
      /\ e.wanted = c.wanted /\ e.task = c.task /\ e.conn = c.conn
      /\ e.running = c.running /\ e.lost = c.lost /\ e.dirty = c.dirty
      /\ e.keyDirty = c.keyDirty /\ e.state = c.state /\ e.bg = c.bg
      /\ e.quitting = c.quitting /\ e.failed = c.failed /\ e.repair = c.repair
  BY <1>1, <1>3 DEF Controller
<1>6. CanStart(e) = CanStart(c)
  BY <1>5 DEF CanStart, Stable, Available, Busy
<1>7. ControllerOK(e)
  BY <1>4, <1>5 DEF ControllerOK, IntentOK
<1> QED BY <1>5, <1>6, <1>7 DEF e

LEMMA LaunchLeads ==
  ASSUME NEW c, ControllerOK(c), c.wanted, NEW e \in Launch(c)
  PROVE  Leads(c, e)
<1> DEFINE new == [c EXCEPT !.up = "no", !.cancel = FALSE, !.retryable = FALSE]
<1>1. c \in Controller
  BY DEF ControllerOK
<1>2. CASE e = c
  BY <1>2 DEF Leads
<1>3. CASE e = [new EXCEPT !.conn = "alive", !.running = TRUE, !.state = "STARTING"]
  <2>1. new \in Controller
    BY <1>1 DEF Controller
  <2>2. /\ new.retry = c.retry /\ new.restartPending = c.restartPending
        /\ new.wanted = c.wanted /\ new.task = c.task /\ new.lost = c.lost
        /\ new.timer = c.timer /\ new.scheduled = c.scheduled
    BY <1>1 DEF Controller
  <2> HIDE DEF new
  <2>3. e \in Controller
    BY <1>3, <2>1 DEF Controller
  <2>4. /\ e.retry = c.retry /\ e.restartPending = c.restartPending
        /\ e.wanted = c.wanted /\ e.task = c.task /\ e.lost = c.lost
        /\ e.timer = c.timer /\ e.scheduled = c.scheduled
        /\ e.conn = "alive" /\ e.running = TRUE
    BY <1>3, <2>1, <2>2 DEF Controller
  <2> QED BY <2>3, <2>4 DEF Leads, ControllerOK, IntentOK
<1>4. CASE e = [new EXCEPT !.conn = "none", !.running = FALSE, !.state = "IDLE"]
  <2>1. new \in Controller
    BY <1>1 DEF Controller
  <2>2. /\ new.retry = c.retry /\ new.restartPending = c.restartPending
        /\ new.wanted = c.wanted /\ new.task = c.task /\ new.lost = c.lost
        /\ new.timer = c.timer /\ new.scheduled = c.scheduled
    BY <1>1 DEF Controller
  <2> HIDE DEF new
  <2>3. e \in Controller
    BY <1>4, <2>1 DEF Controller
  <2>4. /\ e.retry = c.retry /\ e.restartPending = c.restartPending
        /\ e.wanted = c.wanted /\ e.task = c.task /\ e.lost = c.lost
        /\ e.timer = c.timer /\ e.scheduled = c.scheduled
        /\ e.conn = "none" /\ e.running = FALSE
    BY <1>4, <2>1, <2>2 DEF Controller
  <2> QED BY <2>3, <2>4 DEF Leads, ControllerOK, IntentOK
<1> QED BY <1>2, <1>3, <1>4 DEF Launch

(* Reading the settings again loses at most an unsaved draft.              *)
LEMMA ReloadAside ==
  ASSUME NEW c, ControllerOK(c), NEW e \in Reload(c)
  PROVE  /\ ControllerOK(e) /\ Aside(c, e) /\ e.dirty = FALSE
         /\ e.lost => c.lost \/ c.dirty
<1>1. c \in Controller
  BY DEF ControllerOK
<1>2. PICK r \in BOOLEAN :
        LET l == [c EXCEPT !.repair = r, !.dirty = FALSE, !.bg = "none",
                           !.lost = c.lost \/ c.dirty]
        IN e = [l EXCEPT !.state = Settled(l)]
  BY DEF Reload
<1> DEFINE lost == c.lost \/ c.dirty
           l == [c EXCEPT !.repair = r, !.dirty = FALSE, !.bg = "none", !.lost = lost]
<1>3. lost \in BOOLEAN
  OBVIOUS
<1>4. e = [l EXCEPT !.state = Settled(l)]
  BY <1>2
<1> HIDE DEF lost
<1>5. l \in Controller
  BY <1>1, <1>3 DEF Controller
<1>6. Aside(c, l) /\ l.lost = lost /\ l.dirty = FALSE
  BY <1>1, <1>5 DEF Controller, Aside
<1>7. Settled(l) \in {"REPAIR", "RUNNING", "IDLE"}
  BY DEF Settled
<1> HIDE DEF l
<1>8. e \in Controller
  BY <1>4, <1>5, <1>7 DEF Controller
<1>9. Aside(l, e) /\ e.lost = lost /\ e.dirty = FALSE
  BY <1>4, <1>5, <1>6, <1>8 DEF Controller, Aside
<1>10. Aside(c, e)
  BY <1>6, <1>9 DEF Aside
<1> QED BY <1>9, <1>10, AsideOK DEF lost

LEMMA ReloadAskedLeads ==
  ASSUME NEW c, ControllerOK(c), NEW e \in ReloadAsked(c)
  PROVE  Leads(c, e)
<1>1. PICK f \in Reload(c) : e = [f EXCEPT !.lost = c.lost]
  BY DEF ReloadAsked
<1>2. Aside(c, f) /\ f \in Controller /\ c.lost \in BOOLEAN
  BY ReloadAside, ControllerFields DEF ControllerOK
<1>3. e \in Controller
  BY <1>1, <1>2 DEF Controller
<1>4. Aside(f, e) /\ e.lost = c.lost
  BY <1>1, <1>2, <1>3 DEF Controller, Aside
<1>5. Aside(c, e)
  BY <1>2, <1>4 DEF Aside
<1> QED BY <1>4, <1>5, AsideOK DEF Leads, Aside

LEMMA ReloadAndLaunchLeads ==
  ASSUME NEW c, ControllerOK(c), c.wanted, NEW e \in ReloadAndLaunch(c)
  PROVE  /\ ControllerOK(e)
         /\ e.conn = "alive" => c.conn = "alive" \/ e.wanted
         /\ e.lost => c.lost \/ c.dirty
<1>1. CASE e = c
  BY <1>1
<1>2. CASE e # c
  <2>1. PICK f \in Reload(c) : e \in Launch(f)
    BY <1>2 DEF ReloadAndLaunch
  <2>2. ControllerOK(f) /\ Aside(c, f) /\ (f.lost => c.lost \/ c.dirty)
    BY ReloadAside
  <2>3. Leads(f, e)
    BY <2>1, <2>2, LaunchLeads DEF Aside
  <2> QED BY <2>2, <2>3 DEF Leads, Aside
<1> QED BY <1>1, <1>2

LEMMA CancelToRestartLeads ==
  ASSUME NEW c, ControllerOK(c), NEW pending \in BOOLEAN, pending => c.wanted
  PROVE  Leads(c, CancelToRestart(c, pending))
<1> DEFINE e == CancelToRestart(c, pending)
<1>1. c \in Controller
  BY DEF ControllerOK
<1>2. e \in Controller
  BY <1>1 DEF CancelToRestart, Controller
<1>3. /\ e.retry = c.retry /\ e.restartPending = pending
      /\ e.wanted = c.wanted /\ e.task = c.task /\ e.lost = c.lost
      /\ e.timer = c.timer /\ e.scheduled = c.scheduled
      /\ e.conn = c.conn /\ e.running = c.running
  BY <1>1 DEF CancelToRestart, Controller
<1> HIDE DEF e
<1>4. Leads(c, e)
  BY <1>2, <1>3 DEF Leads, ControllerOK, IntentOK
<1> QED BY <1>4 DEF e

LEMMA SaveModesLeads ==
  ASSUME NEW c, ControllerOK(c), NEW after \in {"none", "launch", "start", "apply"},
         NEW again \in BOOLEAN, NEW modes \in SUBSET BOOLEAN,
         after # "none" => c.wanted \/ FALSE \notin modes,
         NEW e \in SaveModes(c, after, again, modes)
  PROVE  Leads(c, e)
<1>1. c \in Controller
  BY DEF ControllerOK
<1>2. PICK m \in modes :
        e = [Submit(c, [NoTask EXCEPT !.kind = "save", !.after = after,
                                      !.again = again, !.mode = m,
                                      !.owned = c.running, !.wasDirty = c.dirty])
             EXCEPT !.state = "SAVING", !.wanted = @ \/ m]
  BY DEF SaveModes
<1> DEFINE t == [NoTask EXCEPT !.kind = "save", !.after = after, !.again = again,
                               !.mode = m, !.owned = c.running, !.wasDirty = c.dirty]
           s == [c EXCEPT !.task = t]
           w == c.wanted \/ m
<1>3. w \in BOOLEAN /\ (c.wanted => w) /\ (m => w) /\ (after # "none" => w)
  <2>1. after # "none" => c.wanted \/ m
    OBVIOUS
  <2> QED BY <2>1
<1>4. t \in Task /\ m \in BOOLEAN
  <2>1. /\ c.running \in BOOLEAN /\ c.dirty \in BOOLEAN /\ m \in BOOLEAN
        /\ NoTask \in Task
    BY <1>1, ControllerFields, NoTaskOK
  <2> QED BY <2>1 DEF Task
<1>5. /\ t.kind = "save" /\ t.after = after /\ t.mode = m /\ t.external = FALSE
      /\ t.stopped = FALSE
  BY DEF NoTask
<1> HIDE DEF t
<1>6. s \in Controller
  BY <1>1, <1>4 DEF Controller
<1>7. /\ s.retry = c.retry /\ s.restartPending = c.restartPending
      /\ s.wanted = c.wanted /\ s.task = t /\ s.lost = c.lost
      /\ s.timer = c.timer /\ s.scheduled = c.scheduled
      /\ s.conn = c.conn /\ s.running = c.running
  BY <1>1 DEF Controller
<1>8. e = [s EXCEPT !.state = "SAVING", !.wanted = w]
  BY <1>2, <1>7 DEF Submit, t
<1> HIDE DEF s, w
<1>9. e \in Controller
  BY <1>3, <1>6, <1>8 DEF Controller
<1>10. /\ e.retry = c.retry /\ e.restartPending = c.restartPending
       /\ e.wanted = w /\ e.task = t /\ e.lost = c.lost
       /\ e.timer = c.timer /\ e.scheduled = c.scheduled
       /\ e.conn = c.conn /\ e.running = c.running
  BY <1>6, <1>7, <1>8 DEF Controller
<1>11. TaskOK(t, w)
  BY <1>3, <1>5 DEF TaskOK
<1> QED BY <1>3, <1>9, <1>10, <1>11 DEF Leads, ControllerOK, IntentOK

LEMMA SaveLeads ==
  ASSUME NEW c, ControllerOK(c), NEW after \in {"none", "launch", "start", "apply"},
         after # "none" => c.wanted, NEW again \in BOOLEAN,
         NEW e \in Save(c, after, again)
  PROVE  Leads(c, e)
<1>1. CASE e = c
  BY <1>1 DEF Leads
<1>2. CASE e # c
  <2>1. PICK modes \in SUBSET BOOLEAN : e \in SaveModes(c, after, again, modes)
    BY <1>2 DEF Save
  <2> QED BY <2>1, SaveModesLeads
<1> QED BY <1>1, <1>2

LEMMA LeadsTransitive ==
  ASSUME NEW c, NEW f, NEW e, f.conn = c.conn, f.lost = c.lost, Leads(f, e)
  PROVE  Leads(c, e)
BY DEF Leads

LEMMA StartLeads ==
  ASSUME NEW c, ControllerOK(c), CanStart(c) => c.wanted, NEW e \in Start(c)
  PROVE  Leads(c, e)
<1> DEFINE f == CancelTimer(c)
<1>1. /\ ControllerOK(f) /\ f.wanted = c.wanted /\ f.conn = c.conn /\ f.lost = c.lost
      /\ CanStart(f) = CanStart(c)
  BY TimerCancelled
<1>2. \/ e = f
      \/ CanStart(f) /\ e \in Save(f, "launch", TRUE)
      \/ CanStart(f) /\ ~f.dirty /\ e \in ReloadAndLaunch(f)
  BY DEF Start
<1> HIDE DEF f
<1>3. Leads(f, e)
  <2>1. CASE e = f
    BY <1>1, <2>1 DEF Leads
  <2>2. CASE CanStart(f) /\ e \in Save(f, "launch", TRUE)
    BY <1>1, <2>2, SaveLeads
  <2>3. CASE CanStart(f) /\ ~f.dirty /\ e \in ReloadAndLaunch(f)
    BY <1>1, <2>3, ReloadAndLaunchLeads DEF Leads
  <2> QED BY <1>2, <2>1, <2>2, <2>3
<1> QED BY <1>1, <1>3, LeadsTransitive

LEMMA AfterLeads ==
  ASSUME NEW c, ControllerOK(c), c.wanted, NEW after \in {"launch", "start", "apply"},
         NEW e \in After(c, after)
  PROVE  Leads(c, e)
<1>1. CASE after = "launch" BY <1>1, LaunchLeads DEF After
<1>2. CASE after = "start" BY <1>2, StartLeads DEF After
<1>3. CASE after = "apply" BY <1>3, CancelToRestartLeads DEF After
<1> QED BY <1>1, <1>2, <1>3

LEMMA CheckLeads ==
  ASSUME NEW c, ControllerOK(c)
  PROVE  Leads(c, CheckBackground(c))
<1> DEFINE t == [NoTask EXCEPT !.kind = "check"]
           e == [c EXCEPT !.task = t]
<1>1. c \in Controller
  BY DEF ControllerOK
<1>2. t \in Task /\ t.mode = FALSE /\ t.after = "none" /\ t.external = FALSE
  BY DEF NoTask, Task
<1> HIDE DEF t
<1>3. e \in Controller
  BY <1>1, <1>2 DEF Controller
<1>4. /\ e.retry = c.retry /\ e.restartPending = c.restartPending
      /\ e.wanted = c.wanted /\ e.task = t /\ e.lost = c.lost
      /\ e.timer = c.timer /\ e.scheduled = c.scheduled
      /\ e.conn = c.conn /\ e.running = c.running
  BY <1>1 DEF Controller
<1>5. CheckBackground(c) \in {c, e}
  BY DEF CheckBackground, Submit, t
<1> HIDE DEF e
<1>6. Leads(c, e)
  BY <1>2, <1>3, <1>4 DEF Leads, ControllerOK, IntentOK, TaskOK
<1>7. Leads(c, c)
  BY DEF Leads
<1> QED BY <1>5, <1>6, <1>7

(* A task that went well, with an intent that a stop has not taken back.    *)
LEMMA SaveDoneLeads ==
  ASSUME NEW c, ControllerOK(c), NEW t \in Task, TaskOK(t, c.wanted),
         NEW e \in SaveDone(c, t)
  PROVE  Leads(c, e)
<1> DEFINE dirty == c.dirty /\ t.edited
           saved == [c EXCEPT !.repair = FALSE, !.bg = "none", !.dirty = dirty,
                              !.keyDirty = t.keyEdited]
           f == [saved EXCEPT !.state = Settled(saved)]
<1>1. c \in Controller /\ t.keyEdited \in BOOLEAN /\ dirty \in BOOLEAN
  BY TaskFields DEF ControllerOK
<1>2. saved = [c EXCEPT !.repair = FALSE, !.bg = "none", !.dirty = @ /\ t.edited,
                        !.keyDirty = t.keyEdited]
  OBVIOUS
<1>3. /\ t.mode /\ f.running => e = CancelToRestart(f, Fresh(t) /\ ~f.keyDirty)
      /\ ~(t.mode /\ f.running) /\ t.external /\ Fresh(t) => e \in Launch(f)
      /\ ~(t.mode /\ f.running) /\ ~(t.external /\ Fresh(t)) =>
           e \in IF t.after = "none" THEN {CheckBackground(f)}
                 ELSE IF Fresh(t) /\ ~f.keyDirty THEN After(f, t.after) ELSE {f}
  BY <1>2 DEF SaveDone
<1> HIDE DEF dirty
<1>4. saved \in Controller
  BY <1>1 DEF Controller
<1>5. Aside(c, saved) /\ saved.lost = c.lost
  BY <1>1, <1>4 DEF Controller, Aside
<1>6. Settled(saved) \in {"REPAIR", "RUNNING", "IDLE"}
  BY DEF Settled
<1> HIDE DEF saved
<1>7. f \in Controller
  BY <1>4, <1>6 DEF Controller
<1>8. Aside(c, f) /\ f.lost = c.lost
  BY <1>4, <1>5, <1>7 DEF Controller, Aside
<1> HIDE DEF f
<1>9. ControllerOK(f) /\ f.conn = c.conn /\ f.wanted = c.wanted
  BY <1>8, AsideOK DEF Aside
<1>10. /\ (t.mode \/ t.after # "none") /\ Fresh(t) => f.wanted
       /\ t.external => t.mode
  BY <1>9 DEF TaskOK, Fresh
<1>11. Leads(f, e)
  <2>1. CASE t.mode /\ f.running
    <3> DEFINE pending == Fresh(t) /\ ~f.keyDirty
    <3>1. pending \in BOOLEAN /\ (pending => f.wanted)
      BY <1>10, <2>1
    <3>2. e = CancelToRestart(f, pending)
      BY <1>3, <2>1
    <3> HIDE DEF pending
    <3> QED BY <1>9, <3>1, <3>2, CancelToRestartLeads
  <2>2. CASE ~(t.mode /\ f.running) /\ t.external /\ Fresh(t)
    BY <1>3, <1>9, <1>10, <2>2, LaunchLeads
  <2>3. CASE ~(t.mode /\ f.running) /\ ~(t.external /\ Fresh(t))
    <3>1. CASE t.after = "none"
      BY <1>3, <1>9, <2>3, <3>1, CheckLeads
    <3>2. CASE t.after # "none" /\ Fresh(t) /\ ~f.keyDirty
      <4>1. t.after \in {"launch", "start", "apply"} /\ f.wanted
        BY <1>10, <3>2, TaskFields
      <4>2. e \in After(f, t.after)
        BY <1>3, <2>3, <3>2
      <4> QED BY <1>9, <4>1, <4>2, AfterLeads
    <3>3. CASE t.after # "none" /\ ~(Fresh(t) /\ ~f.keyDirty)
      <4>1. e = f
        BY <1>3, <2>3, <3>3
      <4> QED BY <1>9, <4>1 DEF Leads
    <3> QED BY <3>1, <3>2, <3>3
  <2> QED BY <2>1, <2>2, <2>3
<1> QED BY <1>8, <1>9, <1>11, LeadsTransitive

LEMMA ConflictLeads ==
  ASSUME NEW c, ControllerOK(c), NEW t \in Task, TaskOK(t, c.wanted),
         NEW e \in Conflict(c, t)
  PROVE  Leads(c, e)
<1>1. CASE e = c
  BY <1>1 DEF Leads
<1>2. CASE e # c /\ (t.wasDirty \/ c.dirty)
  BY <1>2, ReloadAskedLeads DEF Conflict
<1>3. CASE e # c /\ ~(t.wasDirty \/ c.dirty)
  <2>1. PICK f \in Reload(c) :
          e \in IF t.stopped \/ f.repair THEN {f} ELSE Save(f, t.after, FALSE)
    BY <1>3 DEF Conflict
  <2>2. ControllerOK(f) /\ f.conn = c.conn /\ f.wanted = c.wanted /\ (f.lost => c.lost)
    BY <1>3, ReloadAside DEF Aside
  <2>3. CASE e = f
    BY <2>2, <2>3 DEF Leads
  <2>4. CASE e # f
    <3>1. e \in Save(f, t.after, FALSE) /\ ~t.stopped
      BY <2>1, <2>4
    <3>2. t.after # "none" => f.wanted
      BY <2>2, <3>1 DEF TaskOK
    <3>3. t.after \in {"none", "launch", "start", "apply"}
      BY TaskFields
    <3>4. Leads(f, e)
      BY <2>2, <3>1, <3>2, <3>3, SaveLeads
    <3> QED BY <2>2, <3>4 DEF Leads
  <2> QED BY <2>3, <2>4
<1> QED BY <1>1, <1>2, <1>3

LEMMA SaveFailedLeads ==
  ASSUME NEW c, ControllerOK(c), NEW t \in Task, TaskOK(t, c.wanted),
         NEW e \in SaveFailed(c, t)
  PROVE  Leads(c, e)
<1>1. PICK key \in {c.keyDirty, t.keyEdited} :
        LET f == [c EXCEPT !.state = Settled(c), !.keyDirty = key]
        IN e = f \/ e \in Conflict(f, t)
  BY DEF SaveFailed
<1> DEFINE f == [c EXCEPT !.state = Settled(c), !.keyDirty = key]
<1>2. c \in Controller /\ key \in BOOLEAN
  BY ControllerFields, TaskFields DEF ControllerOK
<1>3. Settled(c) \in {"REPAIR", "RUNNING", "IDLE"}
  BY DEF Settled
<1>4. f \in Controller
  BY <1>2, <1>3 DEF Controller
<1>5. Aside(c, f) /\ f.lost = c.lost
  BY <1>2, <1>4 DEF Controller, Aside
<1>6. e = f \/ e \in Conflict(f, t)
  BY <1>1
<1> HIDE DEF f
<1>7. ControllerOK(f) /\ f.conn = c.conn /\ f.wanted = c.wanted
  BY <1>5, AsideOK DEF Aside
<1>8. Leads(f, e)
  BY <1>6, <1>7, ConflictLeads DEF Leads
<1> QED BY <1>5, <1>7, <1>8, LeadsTransitive

LEMMA CompletedLeads ==
  ASSUME NEW c, ControllerOK(c), NEW t \in Task, TaskOK(t, c.wanted), t.kind # "none",
         NEW e \in Completed(c, t)
  PROVE  Leads(c, e)
<1>1. CASE t.kind = "save"
  <2>1. e = c \/ e \in SaveDone(c, t) \/ e \in SaveFailed(c, t)
    BY <1>1 DEF Completed
  <2> QED BY <2>1, SaveDoneLeads, SaveFailedLeads DEF Leads
<1>2. CASE t.kind = "check"
  <2>1. PICK b \in {"idle", "running", "foreign"} : e = [c EXCEPT !.bg = b]
    BY <1>2 DEF Completed
  <2>2. c \in Controller
    BY DEF ControllerOK
  <2>3. e \in Controller
    BY <2>1, <2>2 DEF Controller
  <2>4. Aside(c, e) /\ e.lost = c.lost
    BY <2>1, <2>2, <2>3 DEF Controller, Aside
  <2> QED BY <2>4, AsideOK DEF Leads, Aside
<1>3. CASE t.kind = "stopbg"
  <2> DEFINE f == [c EXCEPT !.bg = "none"]
  <2>1. c \in Controller
    BY DEF ControllerOK
  <2>2. f \in Controller
    BY <2>1 DEF Controller
  <2>3. Aside(c, f) /\ f.lost = c.lost
    BY <2>1, <2>2 DEF Controller, Aside
  <2>4. e = CheckBackground(f)
    BY <1>3 DEF Completed
  <2> HIDE DEF f
  <2>5. Leads(f, e)
    BY <2>3, <2>4, AsideOK, CheckLeads
  <2> QED BY <2>3, <2>5, LeadsTransitive DEF Aside
<1> QED BY <1>1, <1>2, <1>3, TaskFields

(* Stopping takes back the intent wherever it is held.                     *)
LEMMA StopLeads ==
  ASSUME NEW c, ControllerOK(c)
  PROVE  Leads(c, Stop(c))
<1> DEFINE r == [c EXCEPT !.retry = FALSE]
           e == CancelTimer(r)
           s == [NoTask EXCEPT !.kind = "stopbg"]
           f == IF /\ ~e.running /\ e.bg = "running" /\ Available(e)
                   /\ e.state \in {"IDLE", "STARTING", "RUNNING", "REPAIR"}
                  THEN Submit(e, s) ELSE e
           b == f.task.kind = "save"
           t == [f.task EXCEPT !.stopped = b]
           st == IF f.running /\ ~f.quitting /\ f.state # "SAVING" THEN "STOPPING"
                 ELSE f.state
           n == [f EXCEPT !.wanted = FALSE, !.restartPending = FALSE, !.cancel = TRUE,
                          !.task = t, !.state = st]
<1>1. c \in Controller
  BY DEF ControllerOK
<1>2. r \in Controller
  BY <1>1 DEF Controller
<1>3. /\ r.retry = FALSE /\ r.restartPending = c.restartPending
      /\ r.wanted = c.wanted /\ r.task = c.task /\ r.lost = c.lost
      /\ r.timer = c.timer /\ r.scheduled = c.scheduled
      /\ r.conn = c.conn /\ r.running = c.running
  BY <1>1 DEF Controller
<1> HIDE DEF r
<1>4. ControllerOK(r)
  BY <1>2, <1>3 DEF ControllerOK, IntentOK
<1>5. /\ ControllerOK(e) /\ e.retry = FALSE /\ e.conn = c.conn /\ e.lost = c.lost
      /\ e.running = c.running
  BY <1>3, <1>4, TimerCancelled
<1> HIDE DEF e
<1>6. /\ f \in Controller /\ f.retry = FALSE /\ f.conn = c.conn /\ f.lost = c.lost
      /\ f.running = c.running /\ f.timer = e.timer /\ f.scheduled = e.scheduled
      /\ \E w \in BOOLEAN : TaskOK(f.task, w)
  <2>1. e \in Controller /\ e.wanted \in BOOLEAN
    BY <1>5, ControllerFields DEF ControllerOK
  <2>2. CASE f = e
    <3>1. TaskOK(e.task, e.wanted)
      BY <1>5 DEF ControllerOK, IntentOK
    <3> HIDE DEF f
    <3> QED BY <1>5, <2>1, <2>2, <3>1
  <2>3. CASE f = [e EXCEPT !.task = s]
    <3>1. s \in Task
      BY NoTaskOK DEF Task
    <3>2. TaskOK(s, FALSE)
      BY DEF NoTask, TaskOK
    <3> HIDE DEF f, s
    <3> QED BY <1>5, <2>1, <2>3, <3>1, <3>2 DEF Controller
  <2> QED BY <2>2, <2>3 DEF Submit
<1>7. Stop(c) = [f EXCEPT !.wanted = FALSE, !.restartPending = FALSE, !.cancel = TRUE,
                          !.task.stopped = b, !.state = st]
  BY DEF Stop, f, e, r, s, b, st
<1> HIDE DEF f
<1>8. Stop(c) = n
  BY <1>6, <1>7 DEF Controller
<1>9. f.task \in Task /\ b \in BOOLEAN
  BY <1>6, ControllerFields
<1>10. t \in Task /\ TaskOK(t, FALSE)
  <2>1. t \in Task
    <3> HIDE DEF b
    <3> QED BY <1>9 DEF Task
  <2>2. /\ t.mode = f.task.mode /\ t.after = f.task.after
        /\ t.kind = f.task.kind /\ t.external = f.task.external /\ t.stopped = b
    <3> HIDE DEF b
    <3> QED BY <1>9 DEF Task
  <2>3. PICK w \in BOOLEAN : TaskOK(f.task, w)
    BY <1>6
  <2> HIDE DEF t
  <2> QED BY <2>1, <2>2, <2>3 DEF TaskOK
<1>11. st \in {"IDLE", "RUNNING", "REPAIR", "SAVING", "STARTING", "STOPPING",
               "RESTARTING", "QUITTING"}
  BY <1>6, ControllerFields
<1> HIDE DEF t, b, st
<1>12. n \in Controller
  BY <1>6, <1>10, <1>11 DEF Controller
<1>13. /\ n.retry = FALSE /\ n.restartPending = FALSE /\ n.wanted = FALSE
       /\ n.task = t /\ n.lost = c.lost /\ n.conn = c.conn /\ n.running = c.running
       /\ n.timer = e.timer /\ n.scheduled = e.scheduled
  BY <1>6 DEF Controller
<1> HIDE DEF n
<1>14. /\ c.conn # "none" <=> c.running
       /\ e.timer => e.scheduled > 0
  BY <1>5 DEF ControllerOK
<1> QED BY <1>8, <1>10, <1>12, <1>13, <1>14 DEF Leads, ControllerOK, IntentOK

LEMMA FinishLeads ==
  ASSUME NEW c, ControllerOK(c)
  PROVE  Leads(c, Finish(c)) /\ Finish(c).wanted = c.wanted
<1> DEFINE e == Finish(c)
<1>1. c \in Controller /\ 0 \in 0 .. MaxTimers
  BY MaxTimersPositive DEF ControllerOK
<1>2. e \in Controller
  BY <1>1 DEF Controller, Finish
<1>3. /\ e.retry = c.retry /\ e.restartPending = c.restartPending
      /\ e.wanted = c.wanted /\ e.task = c.task /\ e.lost = c.lost
      /\ e.timer = FALSE /\ e.conn = c.conn /\ e.running = c.running
  BY <1>1 DEF Controller, Finish
<1> HIDE DEF e
<1>4. Leads(c, e)
  BY <1>2, <1>3 DEF Leads, ControllerOK, IntentOK
<1> QED BY <1>3, <1>4 DEF e

LEMMA QuitLeads ==
  ASSUME NEW c, ControllerOK(c)
  PROVE  Leads(c, Quit(c))
<1> DEFINE q == [c EXCEPT !.quitting = TRUE, !.state = "QUITTING"]
           e == Stop(q)
<1>1. c \in Controller
  BY DEF ControllerOK
<1>2. q \in Controller
  BY <1>1 DEF Controller
<1>3. Aside(c, q) /\ q.lost = c.lost
  BY <1>1, <1>2 DEF Controller, Aside
<1>4. Quit(c) = Finish(e) \/ Quit(c) = e
  BY DEF Quit
<1> HIDE DEF q
<1>5. Leads(q, e)
  BY <1>3, AsideOK, StopLeads
<1> HIDE DEF e
<1>6. Leads(e, Finish(e)) /\ Finish(e).wanted = e.wanted
  BY <1>5, FinishLeads DEF Leads
<1>7. Leads(q, Quit(c))
  BY <1>4, <1>5, <1>6 DEF Leads
<1> QED BY <1>3, <1>7, LeadsTransitive DEF Aside

LEMMA TimerSet ==
  ASSUME NEW c, ControllerOK(c), c.scheduled < MaxTimers
  PROVE  Leads(c, SetTimer(c))
<1> DEFINE n == c.scheduled + 1
           e == [c EXCEPT !.timer = TRUE, !.scheduled = n]
<1>1. c \in Controller /\ n \in 0 .. MaxTimers /\ n > 0
  BY ControllerFields, MaxTimersPositive DEF ControllerOK
<1> HIDE DEF n
<1>2. e \in Controller
  BY <1>1 DEF Controller
<1>3. /\ e.retry = c.retry /\ e.restartPending = c.restartPending
      /\ e.wanted = c.wanted /\ e.task = c.task /\ e.lost = c.lost /\ e.conn = c.conn
      /\ e.running = c.running /\ e.scheduled = n
  BY <1>1 DEF Controller
<1>4. SetTimer(c) = e
  BY DEF SetTimer, n
<1> HIDE DEF e
<1> QED BY <1>1, <1>2, <1>3, <1>4 DEF Leads, ControllerOK, IntentOK

LEMMA RetryLeads ==
  ASSUME NEW c, ControllerOK(c), c.scheduled < MaxTimers, NEW e \in RetryConnection(c)
  PROVE  Leads(c, e)
<1> DEFINE r == [c EXCEPT !.retry = FALSE]
<1>1. c.retry => c.wanted
  BY DEF ControllerOK, IntentOK
<1>2. \/ e = c \/ e = r \/ e = SetTimer(c)
      \/ c.retry /\ ~c.dirty /\ e \in ReloadAndLaunch(c)
  BY DEF RetryConnection
<1>3. CASE e = r
  <2>1. c \in Controller
    BY DEF ControllerOK
  <2>2. r \in Controller
    BY <2>1 DEF Controller
  <2>3. /\ r.retry = FALSE /\ r.restartPending = c.restartPending
        /\ r.wanted = c.wanted /\ r.task = c.task /\ r.lost = c.lost /\ r.conn = c.conn
        /\ r.running = c.running /\ r.timer = c.timer /\ r.scheduled = c.scheduled
    BY <2>1 DEF Controller
  <2> HIDE DEF r
  <2> QED BY <1>3, <2>2, <2>3 DEF Leads, ControllerOK, IntentOK
<1>4. CASE e = c
  BY <1>4 DEF Leads
<1>5. CASE e = SetTimer(c)
  BY <1>5, TimerSet
<1>6. CASE c.retry /\ ~c.dirty /\ e \in ReloadAndLaunch(c)
  BY <1>1, <1>6, ReloadAndLaunchLeads DEF Leads
<1> QED BY <1>2, <1>3, <1>4, <1>5, <1>6

(* The end of a connection may start the next one: for a pending restart,   *)
(* which alone may overwrite a draft.                                      *)
LEMMA DoneLeads ==
  ASSUME NEW c, ControllerOK(c), c.retry => c.scheduled < MaxTimers,
         NEW e \in IF c.failed THEN DoneFailed(c) ELSE DoneClean(c)
  PROVE  /\ ControllerOK(e)
         /\ e.conn = "alive" => c.conn = "alive" \/ e.wanted
         /\ e.lost => c.lost \/ c.restartPending
<1>1. CASE c.failed
  <2> DEFINE f == CancelTimer(c)
             n == [f EXCEPT !.restartPending = FALSE, !.retry = FALSE, !.state = "IDLE"]
  <2>1. e = n \/ e = Finish(n)
    BY <1>1 DEF DoneFailed
  <2>2. /\ ControllerOK(f) /\ f.conn = c.conn /\ f.lost = c.lost /\ f \in Controller
    BY TimerCancelled DEF ControllerOK
  <2> HIDE DEF f
  <2>3. n \in Controller
    BY <2>2 DEF Controller
  <2>4. /\ n.retry = FALSE /\ n.restartPending = FALSE
        /\ n.wanted = f.wanted /\ n.task = f.task /\ n.lost = f.lost /\ n.conn = f.conn
        /\ n.running = f.running /\ n.timer = f.timer /\ n.scheduled = f.scheduled
    BY <2>2 DEF Controller
  <2> HIDE DEF n
  <2>5. ControllerOK(n)
    BY <2>2, <2>3, <2>4 DEF ControllerOK, IntentOK
  <2>6. Leads(n, e)
    BY <2>1, <2>5, FinishLeads DEF Leads
  <2> QED BY <2>2, <2>4, <2>6 DEF Leads
<1>2. CASE ~c.failed
  <2> DEFINE s == [c EXCEPT !.state = Settled(c)]
             f == IF c.state = "SAVING" THEN c ELSE s
             n == [f EXCEPT !.restartPending = FALSE]
  <2>1. c \in Controller
    BY DEF ControllerOK
  <2>2. Settled(c) \in {"REPAIR", "RUNNING", "IDLE"}
    BY DEF Settled
  <2>3. s \in Controller
    BY <2>1, <2>2 DEF Controller
  <2>4. Aside(c, s) /\ s.lost = c.lost
    BY <2>1, <2>3 DEF Controller, Aside
  <2>5. \/ e = Finish(f) \/ e = f
        \/ c.restartPending /\ e \in ReloadAndLaunch(n)
        \/ c.retry /\ e = SetTimer(f)
    BY <1>2 DEF DoneClean
  <2>6. Aside(c, f) /\ f.lost = c.lost
    <3> HIDE DEF s
    <3> QED BY <2>1, <2>4 DEF Aside
  <2> HIDE DEF f
  <2>7. /\ ControllerOK(f) /\ f.conn = c.conn /\ f.scheduled = c.scheduled
        /\ f \in Controller
    BY <2>6, AsideOK DEF Aside
  <2>8. n \in Controller
    BY <2>7 DEF Controller
  <2>9. /\ n.retry = f.retry /\ n.restartPending = FALSE
        /\ n.wanted = f.wanted /\ n.task = f.task /\ n.lost = f.lost /\ n.conn = f.conn
        /\ n.running = f.running /\ n.timer = f.timer /\ n.scheduled = f.scheduled
    BY <2>7 DEF Controller
  <2> HIDE DEF n
  <2>10. ControllerOK(n)
    BY <2>7, <2>8, <2>9 DEF ControllerOK, IntentOK
  <2>11. CASE e = Finish(f) \/ e = f
    BY <2>6, <2>7, <2>11, FinishLeads DEF Leads
  <2>12. CASE c.restartPending /\ e \in ReloadAndLaunch(n)
    <3>1. n.wanted
      BY <2>6, <2>9, <2>12 DEF Aside, ControllerOK, IntentOK
    <3> QED BY <2>6, <2>7, <2>9, <2>10, <2>12, <3>1, ReloadAndLaunchLeads
  <2>13. CASE c.retry /\ e = SetTimer(f)
    BY <2>6, <2>7, <2>13, TimerSet DEF Leads
  <2> QED BY <2>5, <2>11, <2>12, <2>13
<1> QED BY <1>1, <1>2

(* Whatever a step does, no place holds an intent to connect that the user  *)
(* does not have, and a thread is known as running.                        *)
LEMMA ControllerStep ==
  ASSUME ControllerOK(d), ControllerNext
  PROVE  /\ ControllerOK(d')
         /\ d'.conn = "alive" => d.conn = "alive" \/ d'.wanted
         /\ d'.lost => d.lost \/ d.restartPending
<1> DEFINE Goal == /\ ControllerOK(d')
                   /\ d'.conn = "alive" => d.conn = "alive" \/ d'.wanted
                   /\ d'.lost => d.lost \/ d.restartPending
<1>0. d \in Controller /\ d.task \in Task
  BY ControllerFields DEF ControllerOK
<1>l. Leads(d, d') => Goal
  BY DEF Leads
<1>a. Aside(d, d') /\ d'.lost = d.lost => Goal
  BY AsideOK DEF Aside
<1>1. CASE UserEdits
  <2> DEFINE b == d.task.kind = "save"
             t == [d.task EXCEPT !.edited = b]
             n == [d EXCEPT !.dirty = TRUE, !.task = t]
  <2>1. d' = n
    BY <1>0, <1>1 DEF UserEdits, Controller
  <2>2. b \in BOOLEAN
    OBVIOUS
  <2> HIDE DEF b
  <2>3. t \in Task /\ (\A w \in BOOLEAN : TaskOK(d.task, w) => TaskOK(t, w))
    BY <1>0, <2>2 DEF Task, TaskOK
  <2> HIDE DEF t
  <2>4. n \in Controller
    BY <1>0, <2>3 DEF Controller
  <2>5. /\ n.retry = d.retry /\ n.restartPending = d.restartPending
        /\ n.wanted = d.wanted /\ n.task = t /\ n.lost = d.lost /\ n.conn = d.conn
        /\ n.running = d.running /\ n.timer = d.timer /\ n.scheduled = d.scheduled
    BY <1>0 DEF Controller
  <2>6. d.wanted \in BOOLEAN
    BY <1>0, ControllerFields
  <2> HIDE DEF n
  <2>7. Leads(d, n)
    BY <2>3, <2>4, <2>5, <2>6 DEF Leads, ControllerOK, IntentOK
  <2> QED BY <1>l, <2>1, <2>7
<1>2. CASE UserEditsKey
  <2>1. PICK differs \in BOOLEAN :
          d' = [d EXCEPT !.keyDirty = TRUE,
                         !.task.keyEdited = d.task.kind = "save" /\ differs]
    BY <1>2 DEF UserEditsKey
  <2> DEFINE b == d.task.kind = "save" /\ differs
             t == [d.task EXCEPT !.keyEdited = b]
             n == [d EXCEPT !.keyDirty = TRUE, !.task = t]
  <2>2. d' = n
    BY <1>0, <2>1 DEF Controller
  <2>3. b \in BOOLEAN
    OBVIOUS
  <2> HIDE DEF b
  <2>4. t \in Task /\ (\A w \in BOOLEAN : TaskOK(d.task, w) => TaskOK(t, w))
    BY <1>0, <2>3 DEF Task, TaskOK
  <2> HIDE DEF t
  <2>5. n \in Controller
    BY <1>0, <2>4 DEF Controller
  <2>6. /\ n.retry = d.retry /\ n.restartPending = d.restartPending
        /\ n.wanted = d.wanted /\ n.task = t /\ n.lost = d.lost /\ n.conn = d.conn
        /\ n.running = d.running /\ n.timer = d.timer /\ n.scheduled = d.scheduled
    BY <1>0 DEF Controller
  <2>7. d.wanted \in BOOLEAN
    BY <1>0, ControllerFields
  <2> HIDE DEF n
  <2>8. Leads(d, n)
    BY <2>4, <2>5, <2>6, <2>7 DEF Leads, ControllerOK, IntentOK
  <2> QED BY <1>l, <2>2, <2>8
<1>3. CASE UserSaves
  BY <1>3, <1>l, SaveLeads DEF UserSaves
<1>4. CASE UserStarts
  <2> DEFINE w == d.wanted \/ CanStart(d)
             n == [d EXCEPT !.wanted = w]
  <2>1. w \in BOOLEAN /\ (d.wanted => w) /\ (CanStart(d) => w)
    OBVIOUS
  <2>2. d' \in Start(n)
    BY <1>4 DEF UserStarts
  <2> HIDE DEF w
  <2>3. n \in Controller
    BY <1>0, <2>1 DEF Controller
  <2>4. /\ n.retry = d.retry /\ n.restartPending = d.restartPending
        /\ n.wanted = w /\ n.task = d.task /\ n.lost = d.lost /\ n.conn = d.conn
        /\ n.running = d.running /\ n.timer = d.timer /\ n.scheduled = d.scheduled
        /\ n.state = d.state /\ n.quitting = d.quitting /\ n.repair = d.repair
        /\ n.failed = d.failed /\ n.bg = d.bg
    BY <1>0 DEF Controller
  <2> HIDE DEF n
  <2>5. CanStart(n) = CanStart(d)
    BY <2>4 DEF CanStart, Stable, Available, Busy
  <2>6. ControllerOK(n)
    BY <2>1, <2>3, <2>4 DEF ControllerOK, IntentOK, TaskOK
  <2>7. Leads(n, d')
    BY <2>1, <2>2, <2>4, <2>5, <2>6, StartLeads
  <2> QED BY <1>l, <2>4, <2>7, LeadsTransitive
<1>5. CASE UserStops
  BY <1>5, <1>l, StopLeads DEF UserStops
<1>6. CASE UserQuits
  BY <1>6, <1>l, QuitLeads DEF UserQuits
<1>7. CASE UserChecks
  BY <1>7, <1>l, CheckLeads DEF UserChecks
<1>8. CASE UserRestarts
  <2> DEFINE n == [d EXCEPT !.wanted = TRUE]
  <2>1. d' \in Save(n, "apply", TRUE) \/ d' = CancelToRestart(n, TRUE)
    BY <1>8 DEF UserRestarts
  <2>2. n \in Controller
    BY <1>0 DEF Controller
  <2>3. /\ n.retry = d.retry /\ n.restartPending = d.restartPending
        /\ n.wanted = TRUE /\ n.task = d.task /\ n.lost = d.lost /\ n.conn = d.conn
        /\ n.running = d.running /\ n.timer = d.timer /\ n.scheduled = d.scheduled
    BY <1>0 DEF Controller
  <2> HIDE DEF n
  <2>4. ControllerOK(n)
    BY <2>2, <2>3 DEF ControllerOK, IntentOK, TaskOK
  <2>5. Leads(n, d')
    BY <2>1, <2>3, <2>4, SaveLeads, CancelToRestartLeads
  <2> QED BY <1>l, <2>3, <2>5, LeadsTransitive
<1>9. CASE UserSwitchesMode
  <2> DEFINE n == [d EXCEPT !.dirty = TRUE]
  <2>1. d' = d \/ d' \in SaveModes(n, "start", TRUE, {TRUE})
    BY <1>9 DEF UserSwitchesMode
  <2>2. n \in Controller
    BY <1>0 DEF Controller
  <2>3. Aside(d, n) /\ n.lost = d.lost
    BY <1>0, <2>2 DEF Controller, Aside
  <2> HIDE DEF n
  <2>4. ControllerOK(n) /\ n.conn = d.conn
    BY <2>3, AsideOK DEF Aside
  <2>5. CASE d' \in SaveModes(n, "start", TRUE, {TRUE})
    <3>1. Leads(n, d')
      BY <2>4, <2>5, SaveModesLeads
    <3> QED BY <1>l, <2>3, <2>4, <3>1, LeadsTransitive
  <2>6. CASE d' = d
    BY <2>6, <1>l DEF Leads
  <2> QED BY <2>1, <2>5, <2>6
<1>10. CASE WorkEnds
  <2>1. PICK r \in {"ok", "error", "conflict"}, x \in BOOLEAN :
          /\ d' = [d EXCEPT !.task.result = r, !.task.external = x]
          /\ x => d.task.mode
    BY <1>10 DEF WorkEnds
  <2> DEFINE t == [d.task EXCEPT !.result = r, !.external = x]
             n == [d EXCEPT !.task = t]
  <2>2. d' = n
    BY <1>0, <2>1 DEF Controller
  <2>3. t \in Task /\ (\A w \in BOOLEAN : TaskOK(d.task, w) => TaskOK(t, w))
    BY <1>0, <2>1 DEF Task, TaskOK
  <2> HIDE DEF t
  <2>4. n \in Controller
    BY <1>0, <2>3 DEF Controller
  <2>5. /\ n.retry = d.retry /\ n.restartPending = d.restartPending
        /\ n.wanted = d.wanted /\ n.task = t /\ n.lost = d.lost /\ n.conn = d.conn
        /\ n.running = d.running /\ n.timer = d.timer /\ n.scheduled = d.scheduled
    BY <1>0 DEF Controller
  <2>6. d.wanted \in BOOLEAN
    BY <1>0, ControllerFields
  <2> HIDE DEF n
  <2>7. Leads(d, n)
    BY <2>3, <2>4, <2>5, <2>6 DEF Leads, ControllerOK, IntentOK
  <2> QED BY <1>l, <2>2, <2>7
<1>11. CASE ConnUp
  <2>1. d' = [d EXCEPT !.up = "queued"]
    BY <1>11 DEF ConnUp
  <2>2. d' \in Controller
    BY <1>0, <2>1 DEF Controller
  <2> QED BY <1>0, <1>a, <2>1, <2>2 DEF Controller, Aside
<1>12. CASE ConnEnds
  <2>1. PICK retryable \in BOOLEAN, failed \in BOOLEAN :
          d' = [d EXCEPT !.conn = "ended", !.retryable = retryable, !.failed = failed]
    BY <1>12 DEF ConnEnds
  <2>2. d' \in Controller
    BY <1>0, <2>1 DEF Controller
  <2>3. /\ d'.retry = d.retry /\ d'.restartPending = d.restartPending
        /\ d'.wanted = d.wanted /\ d'.task = d.task /\ d'.lost = d.lost
        /\ d'.conn = "ended" /\ d'.running = d.running
        /\ d'.timer = d.timer /\ d'.scheduled = d.scheduled
    BY <1>0, <2>1 DEF Controller
  <2>4. d.conn = "alive"
    BY <1>12 DEF ConnEnds
  <2>5. Leads(d, d')
    BY <2>2, <2>3, <2>4 DEF Leads, ControllerOK, IntentOK
  <2> QED BY <1>l, <2>5
<1>13. CASE Poll
  <2> DEFINE n == [d EXCEPT !.task = NoTask]
  <2>1. d' \in Completed(n, d.task) /\ d.task.kind # "none"
    BY <1>13 DEF Poll, Busy
  <2>2. n \in Controller
    BY <1>0, NoTaskOK DEF Controller
  <2>3. /\ n.retry = d.retry /\ n.restartPending = d.restartPending
        /\ n.wanted = d.wanted /\ n.task = NoTask /\ n.lost = d.lost /\ n.conn = d.conn
        /\ n.running = d.running /\ n.timer = d.timer /\ n.scheduled = d.scheduled
    BY <1>0 DEF Controller
  <2> HIDE DEF n
  <2>4. d.wanted \in BOOLEAN
    BY <1>0, ControllerFields
  <2>5. ControllerOK(n)
    BY <2>2, <2>3, <2>4, NoTaskOK DEF ControllerOK, IntentOK
  <2>6. TaskOK(d.task, n.wanted)
    BY <2>3 DEF ControllerOK, IntentOK
  <2>7. Leads(n, d')
    BY <1>0, <2>1, <2>5, <2>6, CompletedLeads
  <2> QED BY <1>l, <2>3, <2>7, LeadsTransitive
<1>14. CASE TickQuits
  BY <1>14, <1>l, FinishLeads DEF TickQuits
<1>15. CASE TakeUp
  <2> DEFINE st == IF d.state = "STARTING" THEN "RUNNING" ELSE d.state
  <2>1. d' = [d EXCEPT !.up = "seen", !.state = st]
    BY <1>15 DEF TakeUp
  <2>2. st \in {"IDLE", "RUNNING", "REPAIR", "SAVING", "STARTING", "STOPPING",
                "RESTARTING", "QUITTING"}
    BY <1>0, ControllerFields
  <2> HIDE DEF st
  <2>3. d' \in Controller
    BY <1>0, <2>1, <2>2 DEF Controller
  <2> QED BY <1>0, <1>a, <2>1, <2>3 DEF Controller, Aside
<1>16. CASE TakeDone
  <2> DEFINE e == [d EXCEPT !.conn = "none", !.running = FALSE]
  <2>1. /\ d' \in IF e.failed THEN DoneFailed(e) ELSE DoneClean(e)
        /\ d.retry => d.scheduled < MaxTimers
    BY <1>16 DEF TakeDone
  <2>2. e \in Controller
    BY <1>0 DEF Controller
  <2>3. /\ e.retry = d.retry /\ e.restartPending = d.restartPending
        /\ e.wanted = d.wanted /\ e.task = d.task /\ e.lost = d.lost /\ e.conn = "none"
        /\ e.running = FALSE /\ e.timer = d.timer /\ e.scheduled = d.scheduled
    BY <1>0 DEF Controller
  <2> HIDE DEF e
  <2>4. ControllerOK(e)
    BY <2>2, <2>3 DEF ControllerOK, IntentOK
  <2>5. /\ ControllerOK(d')
        /\ d'.conn = "alive" => e.conn = "alive" \/ d'.wanted
        /\ d'.lost => e.lost \/ e.restartPending
    BY <2>1, <2>3, <2>4, DoneLeads
  <2> QED BY <2>3, <2>5
<1>17. CASE TimerFires
  <2> DEFINE n == d.scheduled - 1
             e == [d EXCEPT !.timer = FALSE, !.scheduled = n]
  <2>1. d' \in RetryConnection(e) /\ d.scheduled > 0
    BY <1>17 DEF TimerFires
  <2>2. n \in 0 .. MaxTimers /\ n < MaxTimers
    BY <1>0, <2>1, ControllerFields, MaxTimersPositive
  <2> HIDE DEF n
  <2>3. e \in Controller
    BY <1>0, <2>2 DEF Controller
  <2>4. /\ e.retry = d.retry /\ e.restartPending = d.restartPending
        /\ e.wanted = d.wanted /\ e.task = d.task /\ e.lost = d.lost /\ e.conn = d.conn
        /\ e.running = d.running /\ e.timer = FALSE /\ e.scheduled = n
    BY <1>0 DEF Controller
  <2> HIDE DEF e
  <2>5. ControllerOK(e)
    BY <2>3, <2>4 DEF ControllerOK, IntentOK
  <2>6. Leads(e, d')
    BY <2>1, <2>2, <2>4, <2>5, RetryLeads
  <2> QED BY <1>l, <2>4, <2>6, LeadsTransitive
<1> QED BY <1>1, <1>2, <1>3, <1>4, <1>5, <1>6, <1>7, <1>8, <1>9, <1>10, <1>11, <1>12,
           <1>13, <1>14, <1>15, <1>16, <1>17 DEF ControllerNext, User

ControllerInv == ControllerOK(d)

(* Every handler keeps the types, the intents and the account of threads,   *)
(* however many timers there may be.                                       *)
THEOREM ControllerInductive == ControllerSpec => []ControllerInv
<1>1. ControllerInit => ControllerInv
  <2> SUFFICES ASSUME ControllerInit PROVE ControllerOK(d)
    BY DEF ControllerInv
  <2>1. PICK repair \in BOOLEAN, retry \in BOOLEAN :
          d = [state |-> IF repair THEN "REPAIR" ELSE "IDLE",
               running |-> FALSE, restartPending |-> FALSE, retry |-> retry,
               timer |-> FALSE, scheduled |-> 0, dirty |-> FALSE,
               keyDirty |-> FALSE, repair |-> repair, quitting |-> FALSE,
               finished |-> FALSE, bg |-> "none", task |-> NoTask,
               conn |-> "none", up |-> "no", cancel |-> FALSE,
               retryable |-> FALSE, failed |-> FALSE, wanted |-> retry,
               lost |-> FALSE]
    BY DEF ControllerInit
  <2>2. NoTask \in Task /\ TaskOK(NoTask, retry) /\ 0 \in 0 .. MaxTimers
    BY NoTaskOK, MaxTimersPositive
  <2>3. d \in Controller
    BY <2>1, <2>2 DEF Controller
  <2> QED BY <2>1, <2>2, <2>3 DEF ControllerOK, IntentOK
<1>2. ControllerInv /\ [ControllerNext]_controllerVars => ControllerInv'
  <2> SUFFICES ASSUME ControllerInv, [ControllerNext]_controllerVars
               PROVE  ControllerOK(d')
    BY DEF ControllerInv, ControllerOK, IntentOK, TaskOK
  <2> QED BY ControllerStep DEF ControllerInv, controllerVars
<1> QED BY <1>1, <1>2, PTL DEF ControllerSpec

(* No handler starts a connection over one whose thread lives, and quitting *)
(* waits for it.                                                           *)
THEOREM ThreadCovered == ControllerSpec => []RunningCoversThread
<1>1. ControllerInv => RunningCoversThread
  BY DEF ControllerInv, ControllerOK, RunningCoversThread
<1> QED BY <1>1, ControllerInductive, PTL

(* After a stop or a quit no timer, callback, restart or retry connects.    *)
THEOREM StopIsObeyed == ControllerSpec => StopCancelsReconnect
<1>1. ControllerInv /\ [ControllerNext]_controllerVars
        => [d.conn # "alive" /\ d'.conn = "alive" => d'.wanted]_controllerVars
  BY ControllerStep DEF ControllerInv
<1> QED BY <1>1, ControllerInductive, PTL DEF ControllerSpec, StopCancelsReconnect

(* Only a restart that was pending overwrites a draft unasked.             *)
THEOREM DraftNotLost == ControllerSpec => DraftSurvives
<1>1. ControllerInv /\ [ControllerNext]_controllerVars
        => [~d.lost /\ d'.lost => d.restartPending]_controllerVars
  BY ControllerStep DEF ControllerInv
<1> QED BY <1>1, ControllerInductive, PTL DEF ControllerSpec, DraftSurvives

-----------------------------------------------------------------------------
(***************************************************************************)
(* DesktopPipe: the types.                                                 *)
(***************************************************************************)

LEMMA PipeFields ==
  ASSUME PipeTypes
  PROVE  /\ \A i \in Ids : /\ request[i] \in Request
                           /\ request[i].at \in {"none", "queued", "sent", "late",
                                                 "replied", "over"}
                           /\ request[i].kind \in Kinds /\ request[i].form \in 0..MaxEdits
                           /\ request[i].result \in {"none", "ok", "error", "unsent",
                                                     "unknown"}
         /\ draft.edits \in 0..MaxEdits /\ draft.unconfirmed \in 0..MaxEdits
         /\ draft.dirty \in BOOLEAN /\ draft.overtaken \in BOOLEAN
         /\ outcome.error \in BOOLEAN /\ outcome.unconfirmed \in BOOLEAN
         /\ backend.at \in {"run", "asking", "ended"} /\ backend.id \in Ids \cup {0}
         /\ {MaxId, MaxEdits, MaxChanges} \subseteq Nat \ {0}
<1>1. ASSUME NEW i \in Ids
      PROVE  /\ request[i] \in Request
             /\ request[i].at \in {"none", "queued", "sent", "late", "replied", "over"}
             /\ request[i].kind \in Kinds /\ request[i].form \in 0..MaxEdits
             /\ request[i].result \in {"none", "ok", "error", "unsent", "unknown"}
  BY DEF PipeTypes, Request
<1>2. /\ draft.edits \in 0..MaxEdits /\ draft.unconfirmed \in 0..MaxEdits
      /\ draft.dirty \in BOOLEAN /\ draft.overtaken \in BOOLEAN
      /\ outcome.error \in BOOLEAN /\ outcome.unconfirmed \in BOOLEAN
      /\ backend.at \in {"run", "asking", "ended"} /\ backend.id \in Ids \cup {0}
  BY DEF PipeTypes
<1> QED BY <1>1, <1>2, PipeBounds

(* The first of a queue, and the rest.                                     *)
LEMMA QueueRest ==
  ASSUME NEW S, NEW s \in Seq(S), s # << >>
  PROVE  /\ Head(s) = s[1] /\ 1 \in DOMAIN s /\ Head(s) \in S /\ Tail(s) \in Seq(S)
         /\ \A k \in DOMAIN Tail(s) : k + 1 \in DOMAIN s /\ k + 1 # 1 /\ Tail(s)[k] = s[k + 1]
<1>1. /\ Head(s) = s[1] /\ 1 \in DOMAIN s /\ Head(s) \in S /\ Tail(s) \in Seq(S)
      /\ Len(Tail(s)) = Len(s) - 1 /\ Len(s) \in Nat
      /\ \A k \in 1 .. Len(Tail(s)) : Tail(s)[k] = s[k + 1]
  BY HeadTailProperties
<1>2. DOMAIN Tail(s) = 1 .. Len(s) - 1 /\ DOMAIN s = 1 .. Len(s)
  BY <1>1
<1> QED BY <1>1, <1>2

(* A queue to which something is appended.                                 *)
LEMMA QueueMore ==
  ASSUME NEW S, NEW s \in Seq(S), NEW e \in S
  PROVE  /\ Append(s, e) \in Seq(S)
         /\ \A k \in DOMAIN Append(s, e) :
              \/ k \in DOMAIN s /\ Append(s, e)[k] = s[k]
              \/ k \notin DOMAIN s /\ k = Len(s) + 1 /\ Append(s, e)[k] = e
<1>1. /\ Append(s, e) \in Seq(S) /\ Len(Append(s, e)) = Len(s) + 1 /\ Len(s) \in Nat
      /\ \A k \in 1 .. Len(s) : Append(s, e)[k] = s[k]
      /\ Append(s, e)[Len(s) + 1] = e
  BY AppendProperties
<1>2. DOMAIN Append(s, e) = 1 .. Len(s) + 1 /\ DOMAIN s = 1 .. Len(s)
  BY <1>1
<1> QED BY <1>1, <1>2

LEMMA EmitEffect ==
  ASSUME PipeTypes, NEW m \in Message, Emit(m)
  PROVE  /\ outgoing' \in Seq(Message) /\ closed' \in BOOLEAN
         /\ \A k \in DOMAIN outgoing' :
              outgoing'[k] = m \/ \E l \in DOMAIN outgoing : outgoing'[k] = outgoing[l]
<1>1. outgoing \in Seq(Message)
  BY DEF PipeTypes
<1>2. closed' \in BOOLEAN
  BY DEF Emit, PipeTypes
<1>3. outgoing' = outgoing \/ outgoing' = Append(outgoing, m)
  BY DEF Emit
<1> QED BY <1>1, <1>2, <1>3, QueueMore

LEMMA MessageTypes ==
  ASSUME PipeTypes
  PROVE  /\ Dialog \in Message
         /\ \A i \in Ids, r \in {"ok", "error"}, v \in Nat, n \in 0..MaxChanges :
              /\ Reply(i, r, v, n) \in Message
              /\ Reply(i, r, v, n).kind = "reply" /\ Reply(i, r, v, n).id = i
              /\ Reply(i, r, v, n).result = r
BY PipeBounds DEF Dialog, Reply, Message

LEMMA CompleteEffect ==
  ASSUME PipeTypes, NEW i \in Ids, NEW error \in BOOLEAN, Complete(i, error)
  PROVE  /\ queries' \in [Queries -> Ids \cup {0}]
         /\ mutation' = (IF mutation = i THEN 0 ELSE mutation)
         /\ posted' = (posted \/ mutation = i)
         /\ outcome' = IF mutation = i THEN [unconfirmed |-> FALSE, error |-> error]
                                       ELSE outcome
         /\ mutation' \in Ids \cup {0} /\ posted' \in BOOLEAN
         /\ outcome' \in [unconfirmed : BOOLEAN, error : BOOLEAN]
<1>1. queries' \in [Queries -> Ids \cup {0}]
  BY DEF Complete, PipeTypes
<1>2. CASE mutation = i
  <2>1. mutation' = 0 /\ posted' = TRUE /\ outcome' = [unconfirmed |-> FALSE, error |-> error]
    BY <1>2 DEF Complete
  <2> QED BY <1>1, <1>2, <2>1
<1>3. CASE mutation # i
  <2>1. mutation' = mutation /\ posted' = posted /\ outcome' = outcome
    BY <1>3 DEF Complete
  <2>2. /\ mutation \in Ids \cup {0} /\ posted \in BOOLEAN
        /\ outcome \in [unconfirmed : BOOLEAN, error : BOOLEAN]
    BY DEF PipeTypes
  <2> QED BY <1>1, <1>3, <2>1, <2>2
<1> QED BY <1>2, <1>3

(* What each step of the interface does to the request it is about.        *)
LEMMA OverFields ==
  ASSUME NEW r \in {"none", "ok", "error", "unsent", "unknown"}
  PROVE  /\ Over(r) \in Request /\ Over(r).at = "over" /\ Over(r).kind = "plain"
         /\ Over(r).form = 0 /\ Over(r).result = r
         /\ NoRequest \in Request
<1>1. 0 \in 0..MaxEdits /\ "plain" \in Kinds
  BY PipeBounds DEF Kinds, Operations
<1>2. NoRequest \in Request /\ NoRequest.kind = "plain" /\ NoRequest.form = 0
  BY <1>1 DEF NoRequest, Request
<1> HIDE DEF NoRequest
<1> QED BY <1>2 DEF Over, Request

(* A command that is executed, as its four ways.                           *)
Refuses(i)  == /\ Emit(Reply(i, "error", 0, 0)) /\ Ran(i, "error")
               /\ backend' = backend /\ form' = form
Takes(i)    == form' = IF request[i].kind = "form" THEN request[i].form ELSE form
Performs(i) == ~backend.quitting /\ Takes(i) /\ Emit(Reply(i, "ok", 0, 0)) /\ Ran(i, "ok")
               /\ backend' = backend
Asks(i)     == /\ request[i].kind = "form" /\ Takes(i) /\ Emit(Dialog)
               /\ backend' = [backend EXCEPT !.at = "asking", !.id = i]
               /\ executed' = executed

LEMMA ServeEffect ==
  ASSUME PipeTypes, ServeOperation
  PROVE  /\ First = commands[1] /\ 1 \in DOMAIN commands /\ First \in Ids
         /\ commands' = Tail(commands) /\ commands # << >>
         /\ backend.at = "run" /\ request[First].kind \in Operations
         /\ Refuses(First) \/ Performs(First) \/ Asks(First)
         /\ answers' = answers /\ history' = history /\ UNCHANGED clientVars
<1>1. /\ commands' = Tail(commands) /\ commands # << >> /\ commands \in Seq(Ids)
      /\ backend.at = "run" /\ request[First].kind \in Operations
      /\ answers' = answers /\ history' = history /\ UNCHANGED clientVars
  BY DEF ServeOperation, Serving, PipeTypes
<1>2. Refuses(First) \/ Performs(First) \/ Asks(First)
  BY DEF ServeOperation, Refuses, Performs, Asks, Takes
<1>3. First = commands[1] /\ 1 \in DOMAIN commands /\ First \in Ids
  BY <1>1, QueueRest DEF First
<1> QED BY <1>1, <1>2, <1>3

LEMMA ExecutedTypes ==
  ASSUME PipeTypes, NEW i \in Ids, NEW r \in {"ok", "error"}, Ran(i, r)
  PROVE  executed' \in [Ids -> {"no", "ok", "error"}]
BY DEF Ran, PipeTypes

(* What a reply does to its request.                                       *)
LEMMA ReplyEffect ==
  ASSUME PipeTypes, ReadReply, Head(outgoing).id \in Ids
  PROVE  LET m == Head(outgoing)
             q == request'[m.id]
         IN /\ m = outgoing[1] /\ 1 \in DOMAIN outgoing /\ m \in Message
            /\ outgoing # << >> /\ outgoing' = Tail(outgoing) /\ m.kind = "reply"
            /\ request' \in [Ids -> Request]
            /\ \A j \in Ids : j # m.id => request'[j] = request[j]
            /\ request[m.id].at = "late" => q = Over("unknown")
            /\ request[m.id].at # "late" =>
                 /\ q.at = "replied" /\ q.kind = request[m.id].kind
                 /\ q.form = request[m.id].form /\ q.result = m.result
            /\ Complete(m.id, m.result = "error")
<1> DEFINE m == Head(outgoing)
           p == request[m.id]
           n == [p EXCEPT !.at = "replied", !.result = m.result]
<1>1. /\ m = outgoing[1] /\ 1 \in DOMAIN outgoing /\ m \in Message
      /\ outgoing # << >> /\ outgoing' = Tail(outgoing) /\ m.kind = "reply"
  BY QueueRest DEF ReadReply, PipeTypes
<1>2. p \in Request
  BY PipeFields
<1>3. m.result \in {"none", "ok", "error"}
  BY <1>1 DEF Message
<1>4. /\ n \in Request /\ n.at = "replied" /\ n.kind = p.kind /\ n.form = p.form
      /\ n.result = m.result
  BY <1>2, <1>3 DEF Request
<1>5. /\ Complete(m.id, m.result = "error")
      /\ request' = [request EXCEPT ![m.id] = IF p.at = "late" THEN Over("unknown") ELSE n]
  BY DEF ReadReply
<1> HIDE DEF n, m
<1>6. Over("unknown") \in Request
  BY OverFields
<1>7. request \in [Ids -> Request] /\ m.id \in Ids
  BY DEF PipeTypes, m
<1>8. request'[m.id] = IF p.at = "late" THEN Over("unknown") ELSE n
  BY <1>5, <1>7
<1>9. /\ request' \in [Ids -> Request]
      /\ \A j \in Ids : j # m.id => request'[j] = request[j]
  BY <1>4, <1>5, <1>6, <1>7
<1>10. /\ p.at = "late" => request'[m.id] = Over("unknown")
       /\ p.at # "late" =>
            /\ request'[m.id].at = "replied" /\ request'[m.id].kind = p.kind
            /\ request'[m.id].form = p.form /\ request'[m.id].result = m.result
  BY <1>4, <1>8
<1> QED BY <1>1, <1>5, <1>9, <1>10 DEF m

LEMMA SendEffect ==
  ASSUME PipeTypes, NEW sort \in Kinds, Send(sort)
  PROVE  LET q == request'[next]
         IN /\ next \in Ids /\ next' = next + 1 /\ Free(sort) /\ Occupy(sort, next)
            /\ request' \in [Ids -> Request]
            /\ \A j \in Ids : j # next => request'[j] = request[j]
            /\ q.at = "queued" /\ q.kind = sort /\ q.form = draft.edits
            /\ q.result = "none"
            /\ draft'.edits = draft.edits /\ draft'.dirty = draft.dirty
            /\ draft'.unconfirmed = draft.unconfirmed
            /\ draft.overtaken => draft'.overtaken
            /\ sort \in Operations /\ posted /\ draft.unconfirmed # 0 => draft'.overtaken
            /\ draft' \in [edits : 0..MaxEdits, dirty : BOOLEAN,
                           unconfirmed : 0..MaxEdits, overtaken : BOOLEAN]
            /\ UNCHANGED <<shown, down, backendVars>>
<1> DEFINE q == [at |-> "queued", kind |-> sort, form |-> draft.edits, result |-> "none"]
           o == draft.overtaken \/ (sort \in Operations /\ posted /\ draft.unconfirmed # 0)
<1>1. /\ next \in Ids /\ next' = next + 1 /\ Free(sort) /\ Occupy(sort, next)
      /\ request' = [request EXCEPT ![next] = q]
      /\ draft' = [draft EXCEPT !.overtaken = o] /\ UNCHANGED <<shown, down, backendVars>>
  BY PipeBounds DEF Send, PipeTypes, Ids
<1>2. q \in Request /\ q.at = "queued" /\ q.kind = sort /\ q.form = draft.edits
      /\ q.result = "none"
  BY PipeFields DEF Request
<1>3. /\ o \in BOOLEAN /\ (draft.overtaken => o)
      /\ sort \in Operations /\ posted /\ draft.unconfirmed # 0 => o
  OBVIOUS
<1>4. /\ request \in [Ids -> Request]
      /\ draft \in [edits : 0..MaxEdits, dirty : BOOLEAN, unconfirmed : 0..MaxEdits,
                    overtaken : BOOLEAN]
  BY DEF PipeTypes
<1> HIDE DEF q, o
<1>5. /\ request' \in [Ids -> Request] /\ request'[next] = q
      /\ \A j \in Ids : j # next => request'[j] = request[j]
  BY <1>1, <1>2, <1>4
<1>6. /\ draft' \in [edits : 0..MaxEdits, dirty : BOOLEAN, unconfirmed : 0..MaxEdits,
                     overtaken : BOOLEAN]
      /\ draft'.edits = draft.edits /\ draft'.dirty = draft.dirty
      /\ draft'.unconfirmed = draft.unconfirmed /\ draft'.overtaken = o
  BY <1>1, <1>3, <1>4
<1> QED BY <1>1, <1>2, <1>3, <1>5, <1>6

LEMMA OccupyEffect ==
  ASSUME PipeTypes, NEW sort \in Kinds, next \in Ids, Free(sort), Occupy(sort, next)
  PROVE  /\ queries' \in [Queries -> Ids \cup {0}] /\ mutation' \in Ids \cup {0}
         /\ posted' \in BOOLEAN /\ outcome' \in [unconfirmed : BOOLEAN, error : BOOLEAN]
         /\ sort \in Operations => mutation = 0 /\ mutation' = next
         /\ sort \notin Operations => /\ mutation' = mutation /\ posted' = posted
                                      /\ outcome' = outcome
<1>1. CASE sort \in Queries
  <2>1. sort \notin Operations
    BY <1>1 DEF Queries, Operations
  <2>2. /\ mutation' = mutation /\ posted' = posted /\ outcome' = outcome
        /\ queries' = [queries EXCEPT ![sort] = next]
    BY <1>1 DEF Occupy
  <2> QED BY <2>1, <2>2 DEF PipeTypes
<1>2. CASE sort \notin Queries
  <2>1. /\ mutation = 0 /\ mutation' = next /\ queries' = queries /\ posted' = TRUE
        /\ outcome' = [outcome EXCEPT !.error = FALSE]
    BY <1>2 DEF Occupy, Free
  <2>2. sort \in Operations
    BY <1>2 DEF Kinds
  <2> QED BY <2>1, <2>2 DEF PipeTypes
<1> QED BY <1>1, <1>2

(* A change of a request in one or two fields.                             *)
LEMMA WriteEffect ==
  ASSUME PipeTypes, NEW i \in Ids, Write(i)
  PROVE  LET q == request'[i]
         IN /\ request' \in [Ids -> Request] /\ request[i].at = "queued"
            /\ \A j \in Ids : j # i => request'[j] = request[j]
            /\ q.at = "sent" /\ q.kind = request[i].kind /\ q.form = request[i].form
            /\ q.result = request[i].result
            /\ commands' = commands \/ commands' = Append(commands, i)
            /\ closed' \in BOOLEAN
            /\ UNCHANGED <<next, queries, mutation, outcome, posted, draft, shown, down,
                           answers, outgoing, backend, executed, form, history>>
<1> DEFINE p == request[i]
           n == [p EXCEPT !.at = "sent"]
<1>1. p \in Request
  BY PipeFields
<1>2. n \in Request /\ n.at = "sent" /\ n.kind = p.kind /\ n.form = p.form
      /\ n.result = p.result
  BY <1>1 DEF Request
<1>3. /\ request' = [request EXCEPT ![i] = n] /\ request[i].at = "queued"
      /\ commands' = commands \/ commands' = Append(commands, i)
      /\ UNCHANGED <<next, queries, mutation, outcome, posted, draft, shown, down,
                     answers, outgoing, backend, executed, form, history>>
  BY DEF Write
<1>4. closed' \in BOOLEAN
  BY DEF Write, PipeTypes
<1>5. request \in [Ids -> Request]
  BY DEF PipeTypes
<1> HIDE DEF n
<1>6. /\ request' \in [Ids -> Request] /\ request'[i] = n
      /\ \A j \in Ids : j # i => request'[j] = request[j]
  BY <1>2, <1>3, <1>5
<1> QED BY <1>2, <1>3, <1>4, <1>6

LEMMA TimeOutEffect ==
  ASSUME PipeTypes, NEW i \in Ids, TimeOut(i)
  PROVE  LET q == request'[i]
         IN /\ request' \in [Ids -> Request] /\ request[i].at = "sent"
            /\ \A j \in Ids : j # i => request'[j] = request[j]
            /\ q.at = "late" /\ q.kind = request[i].kind /\ q.form = request[i].form
            /\ q.result = "unknown"
            /\ outcome' \in [unconfirmed : BOOLEAN, error : BOOLEAN]
            /\ outcome'.error = outcome.error /\ posted' \in BOOLEAN
            /\ posted => posted'
            /\ draft' \in [edits : 0..MaxEdits, dirty : BOOLEAN,
                           unconfirmed : 0..MaxEdits, overtaken : BOOLEAN]
            /\ draft'.edits = draft.edits /\ draft'.dirty = draft.dirty
            /\ draft'.overtaken = draft.overtaken
            /\ draft'.unconfirmed = IF mutation = i /\ request[i].kind = "form"
                                      THEN request[i].form ELSE draft.unconfirmed
            /\ UNCHANGED <<next, queries, mutation, shown, down, backendVars>>
<1> DEFINE p == request[i]
           n == [p EXCEPT !.at = "late", !.result = "unknown"]
           u == outcome.unconfirmed \/ mutation = i
<1>1. p \in Request
  BY PipeFields
<1>2. n \in Request /\ n.at = "late" /\ n.kind = p.kind /\ n.form = p.form
      /\ n.result = "unknown"
  BY <1>1 DEF Request
<1>3. /\ request' = [request EXCEPT ![i] = n] /\ request[i].at = "sent"
      /\ outcome' = [outcome EXCEPT !.unconfirmed = u]
      /\ posted' = (posted \/ mutation = i)
      /\ draft' = IF mutation = i /\ p.kind = "form"
                    THEN [draft EXCEPT !.unconfirmed = p.form] ELSE draft
      /\ UNCHANGED <<next, queries, mutation, shown, down, backendVars>>
  BY <1>1 DEF TimeOut, Request, PipeTypes
<1>4. u \in BOOLEAN /\ posted' \in BOOLEAN /\ (posted => posted')
  BY <1>3
<1>5. /\ request \in [Ids -> Request]
      /\ outcome \in [unconfirmed : BOOLEAN, error : BOOLEAN]
      /\ draft \in [edits : 0..MaxEdits, dirty : BOOLEAN, unconfirmed : 0..MaxEdits,
                    overtaken : BOOLEAN]
      /\ p.form \in 0..MaxEdits
  BY PipeFields DEF PipeTypes
<1> HIDE DEF n, u
<1>6. /\ request' \in [Ids -> Request] /\ request'[i] = n
      /\ \A j \in Ids : j # i => request'[j] = request[j]
  BY <1>2, <1>3, <1>5
<1>7. /\ outcome' \in [unconfirmed : BOOLEAN, error : BOOLEAN]
      /\ outcome'.error = outcome.error
  BY <1>3, <1>4, <1>5
<1>8. /\ draft' \in [edits : 0..MaxEdits, dirty : BOOLEAN, unconfirmed : 0..MaxEdits,
                     overtaken : BOOLEAN]
      /\ draft'.edits = draft.edits /\ draft'.dirty = draft.dirty
      /\ draft'.overtaken = draft.overtaken
      /\ draft'.unconfirmed = IF mutation = i /\ p.kind = "form" THEN p.form
                                                                 ELSE draft.unconfirmed
  BY <1>3, <1>5
<1> QED BY <1>2, <1>3, <1>4, <1>6, <1>7, <1>8

LEMMA ResumeEffect ==
  ASSUME PipeTypes, NEW i \in Ids, Resume(i)
  PROVE  LET clean == /\ request[i].result = "ok" /\ request[i].kind = "form"
                      /\ draft.edits = request[i].form
         IN /\ request' \in [Ids -> Request] /\ request[i].at = "replied"
            /\ \A j \in Ids : j # i => request'[j] = request[j]
            /\ request'[i] = Over(request[i].result)
            /\ draft' \in [edits : 0..MaxEdits, dirty : BOOLEAN,
                           unconfirmed : 0..MaxEdits, overtaken : BOOLEAN]
            /\ draft'.edits = draft.edits /\ draft'.overtaken = draft.overtaken
            /\ draft'.unconfirmed = draft.unconfirmed
            /\ ~clean => draft'.dirty = draft.dirty
            /\ UNCHANGED <<next, queries, mutation, outcome, posted, shown, down,
                           backendVars>>
<1>1. /\ request' = [request EXCEPT ![i] = Over(request[i].result)]
      /\ request[i].at = "replied"
      /\ UNCHANGED <<next, queries, mutation, outcome, posted, shown, down, backendVars>>
  BY DEF Resume
<1>2. /\ request \in [Ids -> Request]
      /\ draft \in [edits : 0..MaxEdits, dirty : BOOLEAN, unconfirmed : 0..MaxEdits,
                    overtaken : BOOLEAN]
      /\ Over(request[i].result) \in Request
  BY PipeFields, OverFields DEF PipeTypes
<1>3. /\ request' \in [Ids -> Request] /\ request'[i] = Over(request[i].result)
      /\ \A j \in Ids : j # i => request'[j] = request[j]
  BY <1>1, <1>2
<1>4. draft' = [draft EXCEPT !.dirty = FALSE] \/ draft' = draft
  BY DEF Resume
<1>5. /\ draft' \in [edits : 0..MaxEdits, dirty : BOOLEAN, unconfirmed : 0..MaxEdits,
                     overtaken : BOOLEAN]
      /\ draft'.edits = draft.edits /\ draft'.overtaken = draft.overtaken
      /\ draft'.unconfirmed = draft.unconfirmed
  BY <1>2, <1>4
<1>6. ~(/\ request[i].result = "ok" /\ request[i].kind = "form"
        /\ draft.edits = request[i].form) => draft'.dirty = draft.dirty
  BY DEF Resume
<1> QED BY <1>1, <1>3, <1>5, <1>6

LEMMA ChangedEffect ==
  ASSUME PipeTypes, OperationChanged
  PROVE  LET settles == mutation = 0 /\ draft.unconfirmed # 0
         IN /\ draft' \in [edits : 0..MaxEdits, dirty : BOOLEAN,
                           unconfirmed : 0..MaxEdits, overtaken : BOOLEAN]
            /\ draft'.edits = draft.edits /\ draft'.overtaken = draft.overtaken
            /\ draft'.unconfirmed = IF settles THEN 0 ELSE draft.unconfirmed
            /\ ~draft'.dirty /\ draft.dirty =>
                 settles /\ ~outcome.error /\ draft.unconfirmed = draft.edits
            /\ ~draft.dirty => ~draft'.dirty
            /\ posted /\ posted' = FALSE
            /\ UNCHANGED <<request, next, queries, mutation, outcome, shown, down,
                           backendVars>>
<1> DEFINE b == draft.dirty /\ ~(~outcome.error /\ draft.unconfirmed = draft.edits)
<1>1. /\ posted /\ posted' = FALSE
      /\ draft' = IF mutation = 0 /\ draft.unconfirmed # 0
                    THEN [draft EXCEPT !.unconfirmed = 0, !.dirty = b] ELSE draft
      /\ UNCHANGED <<request, next, queries, mutation, outcome, shown, down, backendVars>>
  BY DEF OperationChanged
<1>2. /\ b \in BOOLEAN /\ (b => draft.dirty)
      /\ ~b /\ draft.dirty => ~outcome.error /\ draft.unconfirmed = draft.edits
  OBVIOUS
<1>3. /\ draft \in [edits : 0..MaxEdits, dirty : BOOLEAN, unconfirmed : 0..MaxEdits,
                    overtaken : BOOLEAN]
      /\ 0 \in 0..MaxEdits
  BY PipeBounds DEF PipeTypes
<1> HIDE DEF b
<1>4. /\ draft' \in [edits : 0..MaxEdits, dirty : BOOLEAN, unconfirmed : 0..MaxEdits,
                     overtaken : BOOLEAN]
      /\ draft'.edits = draft.edits /\ draft'.overtaken = draft.overtaken
  BY <1>1, <1>2, <1>3
<1>5. CASE mutation = 0 /\ draft.unconfirmed # 0
  <2>1. draft'.unconfirmed = 0 /\ draft'.dirty = b
    BY <1>1, <1>3, <1>5
  <2> QED BY <1>1, <1>2, <1>4, <1>5, <2>1
<1>6. CASE ~(mutation = 0 /\ draft.unconfirmed # 0)
  <2>1. draft' = draft
    BY <1>1, <1>6
  <2> QED BY <1>1, <1>4, <1>6, <2>1
<1> QED BY <1>5, <1>6

(* A command the backend has read, or about which it asks the user.        *)
Received(i) == \E k \in DOMAIN commands : commands[k] = i
Asked(i)    == backend.at = "asking" /\ backend.id = i

(* Requests are numbered in turn; one that waits has no result, one that   *)
(* was answered has that of its execution.                                 *)
RequestsOK ==
  /\ \A i \in Ids : i >= next => request[i].at = "none"
  /\ \A i \in Ids : request[i].at = "replied" => request[i].result \in {"ok", "error"}
  /\ \A i \in Ids : request[i].at \in {"queued", "sent"} => request[i].result = "none"

(* A command is received once, after it was sent, and executed once.       *)
CommandsOK ==
  /\ \A i \in Ids :
       request[i].at \in {"none", "queued"} \/ request[i].result = "unsent" =>
         executed[i] = "no" /\ ~Received(i) /\ ~Asked(i)
  /\ \A k, l \in DOMAIN commands : commands[k] = commands[l] => k = l
  /\ \A i \in Ids : Received(i) => executed[i] = "no" /\ ~Asked(i)
  /\ backend.at = "asking" => backend.id \in Ids /\ executed[backend.id] = "no"

(* A reply under way says how its request was executed.                    *)
RepliesOK ==
  \A k \in DOMAIN outgoing : outgoing[k].kind = "reply" =>
    /\ outgoing[k].id \in Ids /\ outgoing[k].result # "none"
    /\ executed[outgoing[k].id] = outgoing[k].result

DeliveryOK == RequestsOK /\ CommandsOK /\ RepliesOK

LEMMA MainTypes ==
  ASSUME PipeTypes, DeliveryOK, MainStep
  PROVE  PipeTypes'
<1>1. CASE ServeMonitor
  <2> DEFINE v == history.version + (IF history.rows # history.revision THEN 1 ELSE 0)
  <2>1. /\ commands' = Tail(commands) /\ commands # << >> /\ commands \in Seq(Ids)
        /\ history' = [history EXCEPT !.version = v, !.rows = history.revision]
        /\ Emit(Reply(First, "ok", v, history.revision)) /\ Ran(First, "ok")
        /\ UNCHANGED <<clientVars, answers, backend, form>>
    BY <1>1 DEF ServeMonitor, Serving, PipeTypes
  <2>2. First \in Ids /\ commands' \in Seq(Ids)
    BY <2>1, QueueRest DEF First
  <2>3. v \in Nat /\ history.revision \in 0..MaxChanges
    BY DEF PipeTypes
  <2> HIDE DEF v
  <2>4. outgoing' \in Seq(Message) /\ closed' \in BOOLEAN
    BY <2>1, <2>2, <2>3, MessageTypes, EmitEffect
  <2>5. executed' \in [Ids -> {"no", "ok", "error"}]
    BY <2>1, <2>2, ExecutedTypes
  <2>6. history' \in [revision : 0..MaxChanges, version : Nat, rows : -1..MaxChanges]
    <3>1. history \in [revision : 0..MaxChanges, version : Nat, rows : -1..MaxChanges]
      BY DEF PipeTypes
    <3>2. history.revision \in -1..MaxChanges
      BY <2>3, PipeBounds
    <3> QED BY <2>1, <2>3, <3>1, <3>2
  <2> QED BY <2>1, <2>2, <2>4, <2>5, <2>6 DEF PipeTypes, clientVars
<1>2. CASE ServeOperation
  <2>1. /\ First \in Ids /\ commands' = Tail(commands) /\ commands # << >>
        /\ Refuses(First) \/ Performs(First) \/ Asks(First)
        /\ answers' = answers /\ history' = history /\ UNCHANGED clientVars
    BY <1>2, ServeEffect
  <2>2. commands' \in Seq(Ids)
    BY <2>1, QueueRest DEF PipeTypes
  <2>3. 0 \in Nat /\ 0 \in 0..MaxChanges /\ request[First].form \in 0..MaxEdits
        /\ form \in 0..MaxEdits
    BY <2>1, PipeFields, PipeBounds DEF PipeTypes
  <2>4. /\ outgoing' \in Seq(Message) /\ closed' \in BOOLEAN
    BY <2>1, <2>3, MessageTypes, EmitEffect DEF Refuses, Performs, Asks
  <2>5. executed' \in [Ids -> {"no", "ok", "error"}]
    <3>1. executed \in [Ids -> {"no", "ok", "error"}]
      BY DEF PipeTypes
    <3> QED BY <2>1, <3>1, ExecutedTypes DEF Refuses, Performs, Asks
  <2>6. form' \in 0..MaxEdits
    BY <2>1, <2>3 DEF Refuses, Performs, Asks, Takes
  <2>7. backend' \in [at : {"run", "asking", "ended"}, id : Ids \cup {0}, quitting : BOOLEAN]
    BY <2>1 DEF Refuses, Performs, Asks, PipeTypes
  <2> QED BY <2>1, <2>2, <2>4, <2>5, <2>6, <2>7 DEF PipeTypes, clientVars
<1>3. CASE Answered
  <2>1. /\ backend.id \in Ids /\ answers' = << >> /\ Ran(backend.id, "ok")
        /\ backend' = [backend EXCEPT !.at = "run", !.id = 0]
        /\ Emit(Reply(backend.id, "ok", 0, 0))
        /\ UNCHANGED <<clientVars, commands, form, history>>
    BY <1>3 DEF Answered, DeliveryOK, CommandsOK
  <2>2. 0 \in Nat /\ 0 \in 0..MaxChanges
    BY PipeBounds
  <2>3. outgoing' \in Seq(Message) /\ closed' \in BOOLEAN
    BY <2>1, <2>2, MessageTypes, EmitEffect
  <2>4. executed' \in [Ids -> {"no", "ok", "error"}]
    BY <2>1, ExecutedTypes
  <2>5. backend' \in [at : {"run", "asking", "ended"}, id : Ids \cup {0}, quitting : BOOLEAN]
    BY <2>1 DEF PipeTypes
  <2> QED BY <2>1, <2>3, <2>4, <2>5 DEF PipeTypes, clientVars
<1>4. CASE End
  <2>1. backend' \in [at : {"run", "asking", "ended"}, id : Ids \cup {0}, quitting : BOOLEAN]
    BY <1>4 DEF End, PipeTypes
  <2>2. /\ outgoing' = << >>
        /\ UNCHANGED <<clientVars, commands, answers, closed, executed, form, history>>
    BY <1>4 DEF End
  <2> QED BY <2>1, <2>2 DEF PipeTypes, clientVars
<1> QED BY <1>1, <1>2, <1>3, <1>4 DEF MainStep

LEMMA PipeStepTypes ==
  ASSUME PipeTypes, DeliveryOK, PipeNext
  PROVE  PipeTypes'
<1>1. CASE MainStep
  BY <1>1, MainTypes
<1>2. CASE PipeEnds
  BY <1>2 DEF PipeEnds, PipeTypes, clientVars
<1>3. CASE ReadReply
  <2> DEFINE m == Head(outgoing)
  <2>1. /\ outgoing # << >> /\ m.kind = "reply"
        /\ UNCHANGED <<next, draft, down, commands, answers, backend, closed, executed,
                       form, history>>
        /\ shown' = shown \/ shown' = [version |-> m.version, rows |-> m.rows]
    BY <1>3 DEF ReadReply
  <2>2. m = outgoing[1] /\ 1 \in DOMAIN outgoing /\ m \in Message
        /\ Tail(outgoing) \in Seq(Message)
    BY <2>1, QueueRest DEF PipeTypes
  <2>3. m.id \in Ids
    BY <2>1, <2>2 DEF DeliveryOK, RepliesOK
  <2>4. /\ Complete(m.id, m.result = "error") /\ request' \in [Ids -> Request]
        /\ outgoing' = Tail(outgoing)
    BY <1>3, <2>3, ReplyEffect
  <2>5. (m.result = "error") \in BOOLEAN
    OBVIOUS
  <2>6. /\ queries' \in [Queries -> Ids \cup {0}]
        /\ mutation' \in Ids \cup {0} /\ posted' \in BOOLEAN
        /\ outcome' \in [unconfirmed : BOOLEAN, error : BOOLEAN]
    BY <2>3, <2>4, <2>5, CompleteEffect
  <2>7. shown' \in [version : Nat, rows : 0..MaxChanges]
    <3>1. m.version \in Nat /\ m.rows \in 0..MaxChanges
      BY <2>2 DEF Message
    <3> HIDE DEF m
    <3> QED BY <2>1, <3>1 DEF PipeTypes
  <2> HIDE DEF m
  <2> QED BY <2>1, <2>2, <2>4, <2>6, <2>7 DEF PipeTypes
<1>4. CASE Disconnected
  <2>1. /\ request' = [i \in Ids |-> IF request[i].at \in {"queued", "sent"}
                                     THEN Over("unknown") ELSE request[i]]
        /\ outcome' = [outcome EXCEPT !.unconfirmed = mutation # 0] /\ down' = "lost"
        /\ UNCHANGED <<next, queries, mutation, posted, draft, shown, backendVars>>
    BY <1>4 DEF Disconnected
  <2>2. request' \in [Ids -> Request]
    BY <2>1, PipeFields, OverFields
  <2>3. outcome' \in [unconfirmed : BOOLEAN, error : BOOLEAN]
    BY <2>1 DEF PipeTypes
  <2> QED BY <2>1, <2>2, <2>3 DEF PipeTypes, backendVars
<1>5. CASE OperationChanged
  BY <1>5, ChangedEffect DEF PipeTypes, backendVars
<1>6. ASSUME NEW i \in Ids, Write(i) PROVE PipeTypes'
  <2>1. commands' \in Seq(Ids)
    <3>1. commands \in Seq(Ids)
      BY DEF PipeTypes
    <3>2. commands' = commands \/ commands' = Append(commands, i)
      BY <1>6, WriteEffect
    <3> QED BY <1>6, <3>1, <3>2, QueueMore
  <2> QED BY <1>6, <2>1, WriteEffect DEF PipeTypes
<1>7. ASSUME NEW i \in Ids, Resume(i) PROVE PipeTypes'
  BY <1>7, ResumeEffect DEF PipeTypes, backendVars
<1>8. ASSUME NEW i \in Ids, TimeOut(i) PROVE PipeTypes'
  BY <1>8, TimeOutEffect DEF PipeTypes, backendVars
<1>9. CASE BeginQuit
  <2>1. backend' \in [at : {"run", "asking", "ended"}, id : Ids \cup {0}, quitting : BOOLEAN]
    BY <1>9 DEF BeginQuit, PipeTypes
  <2> QED BY <1>9, <2>1 DEF BeginQuit, PipeTypes, clientVars
<1>10. CASE HistoryChanges
  <2> DEFINE n == history.revision + 1
  <2>0. n \in 0..MaxChanges
    BY <1>10, PipeBounds DEF HistoryChanges, PipeTypes
  <2>2. history' = [history EXCEPT !.revision = n]
    BY <1>10 DEF HistoryChanges
  <2> HIDE DEF n
  <2>1. history' \in [revision : 0..MaxChanges, version : Nat, rows : -1..MaxChanges]
    BY <2>0, <2>2 DEF PipeTypes
  <2> QED BY <1>10, <2>1 DEF HistoryChanges, PipeTypes, clientVars
<1>11. CASE Dirty
  <2> DEFINE n == draft.edits + 1
  <2>1. n \in 0..MaxEdits
    BY <1>11, PipeFields DEF Dirty
  <2>2. draft' = [draft EXCEPT !.edits = n, !.dirty = TRUE]
    BY <1>11 DEF Dirty
  <2> HIDE DEF n
  <2>3. draft' \in [edits : 0..MaxEdits, dirty : BOOLEAN, unconfirmed : 0..MaxEdits,
                    overtaken : BOOLEAN]
    BY <2>1, <2>2 DEF PipeTypes
  <2> QED BY <1>11, <2>3 DEF Dirty, PipeTypes, backendVars
<1>12. CASE AnswerDialog
  <2>1. outgoing' \in Seq(Message)
    BY <1>12, QueueRest DEF AnswerDialog, PipeTypes
  <2>2. answers' \in Seq(BOOLEAN)
    <3>1. PICK accepted \in BOOLEAN : answers' = IF closed THEN answers ELSE <<accepted>>
      BY <1>12 DEF AnswerDialog
    <3>2. <<accepted>> \in Seq(BOOLEAN) /\ answers \in Seq(BOOLEAN)
      BY DEF PipeTypes
    <3> QED BY <3>1, <3>2
  <2> QED BY <1>12, <2>1, <2>2 DEF AnswerDialog, PipeTypes, clientVars
<1>13. CASE Close
  BY <1>13 DEF Close, PipeTypes, backendVars
<1>14. ASSUME NEW i \in Ids, GiveUpUnsent(i) PROVE PipeTypes'
  <2>1. /\ request' = [request EXCEPT ![i] = Over("unsent")] /\ Complete(i, FALSE)
        /\ UNCHANGED <<next, draft, shown, down, backendVars>>
    BY <1>14 DEF GiveUpUnsent
  <2>2. request' \in [Ids -> Request]
    BY <2>1, OverFields DEF PipeTypes
  <2>3. /\ queries' \in [Queries -> Ids \cup {0}]
        /\ mutation' \in Ids \cup {0} /\ posted' \in BOOLEAN
        /\ outcome' \in [unconfirmed : BOOLEAN, error : BOOLEAN]
    BY <2>1, CompleteEffect
  <2> QED BY <2>1, <2>2, <2>3 DEF PipeTypes, backendVars
<1>15. ASSUME NEW sort \in Kinds, Send(sort) PROVE PipeTypes'
  <2>1. /\ next \in Ids /\ next' = next + 1 /\ Free(sort) /\ Occupy(sort, next)
        /\ request' \in [Ids -> Request]
        /\ draft' \in [edits : 0..MaxEdits, dirty : BOOLEAN,
                       unconfirmed : 0..MaxEdits, overtaken : BOOLEAN]
        /\ UNCHANGED <<shown, down, backendVars>>
    BY <1>15, SendEffect
  <2>2. /\ queries' \in [Queries -> Ids \cup {0}] /\ mutation' \in Ids \cup {0}
        /\ posted' \in BOOLEAN /\ outcome' \in [unconfirmed : BOOLEAN, error : BOOLEAN]
    BY <2>1, OccupyEffect
  <2>3. next' \in 1..(MaxId + 1)
    BY <2>1, PipeBounds DEF Ids
  <2> QED BY <2>1, <2>2, <2>3 DEF PipeTypes, backendVars
<1> QED BY <1>1, <1>2, <1>3, <1>4, <1>5, <1>6, <1>7, <1>8, <1>9, <1>10, <1>11, <1>12,
           <1>13, <1>14, <1>15 DEF PipeNext, InterfaceStep

(* An operation is the one outstanding until its result is known, and the  *)
(* forms of the operations arrive in the order in which they were sent.    *)
OperationsOK ==
  /\ \A i \in Ids : request[i].kind = "form" =>
                      request[i].at \in {"queued", "sent", "late", "replied"}
  /\ \A i \in Ids : request[i].kind \in Operations
                   /\ request[i].at \in {"queued", "sent", "late"} => mutation = i
  /\ form <= draft.edits
  /\ \A i \in Ids : request[i].form <= draft.edits
  /\ \A i \in Ids : request[i].kind = "form" =>
       /\ executed[i] = "no" /\ ~Asked(i) => form <= request[i].form
       /\ executed[i] = "ok" \/ Asked(i) => request[i].form <= form

(* A draft whose operation timed out waits for that operation, or for the  *)
(* callback that takes its result for the draft's.                         *)
UnconfirmedOK ==
  ~draft.overtaken /\ draft.unconfirmed # 0 =>
    /\ mutation = 0 => posted /\ (outcome.error \/ draft.unconfirmed <= form)
    /\ mutation # 0 => /\ request[mutation].at = "late" /\ request[mutation].kind = "form"
                       /\ request[mutation].form = draft.unconfirmed

PipeInv == /\ PipeTypes /\ DeliveryOK /\ OutcomeIsTrue
           /\ OperationsOK /\ UnconfirmedOK /\ DraftKept

(* The steps that neither send, execute nor confirm anything.              *)
LEMMA QuietStep ==
  ASSUME PipeInv, PipeTypes',
         UNCHANGED <<request, next, mutation, outcome, posted, draft, commands, executed,
                     form>>,
         (backend'.at = "asking") = (backend.at = "asking"), backend'.id = backend.id,
         \A k \in DOMAIN outgoing' : \E l \in DOMAIN outgoing : outgoing'[k] = outgoing[l]
  PROVE  PipeInv'
<1>1. \A i \in Ids : Received(i)' = Received(i) /\ Asked(i)' = Asked(i)
  BY DEF Received, Asked
<1>2. RequestsOK'
  BY DEF PipeInv, DeliveryOK, RequestsOK
<1>3. CommandsOK'
  BY <1>1 DEF PipeInv, DeliveryOK, CommandsOK
<1>4. RepliesOK'
  BY DEF PipeInv, DeliveryOK, RepliesOK
<1>5. OutcomeIsTrue' /\ UnconfirmedOK' /\ DraftKept'
  BY DEF PipeInv, OutcomeIsTrue, UnconfirmedOK, DraftKept
<1>6. OperationsOK'
  BY <1>1 DEF PipeInv, OperationsOK
<1> QED BY <1>2, <1>3, <1>4, <1>5, <1>6 DEF PipeInv, DeliveryOK

(* The main thread takes a command that was not executed yet.              *)
LEMMA Dequeued ==
  ASSUME PipeTypes, CommandsOK, NEW c, c = First, commands # << >>,
         commands' = Tail(commands)
  PROVE  /\ c \in Ids /\ executed[c] = "no" /\ ~Asked(c)
         /\ request[c].at \notin {"none", "queued"} /\ request[c].result # "unsent"
         /\ \A i \in Ids : Received(i)' => Received(i) /\ i # c
         /\ \A k, l \in DOMAIN commands' : commands'[k] = commands'[l] => k = l
<1>1. commands \in Seq(Ids)
  BY DEF PipeTypes
<1>2. /\ c = commands[1] /\ 1 \in DOMAIN commands /\ c \in Ids
      /\ \A k \in DOMAIN commands' : /\ k + 1 \in DOMAIN commands /\ k + 1 # 1
                                     /\ commands'[k] = commands[k + 1]
  BY <1>1, QueueRest DEF First
<1>3. Received(c)
  BY <1>2 DEF Received
<1>4. \A i \in Ids : Received(i)' => Received(i) /\ i # c
  BY <1>2 DEF Received, CommandsOK
<1>5. ASSUME NEW k \in DOMAIN commands', NEW l \in DOMAIN commands',
             commands'[k] = commands'[l]
      PROVE  k = l
  <2>1. k + 1 = l + 1
    BY <1>2, <1>5 DEF CommandsOK
  <2>2. k \in Int /\ l \in Int
    <3>1. commands' \in Seq(Ids)
      BY <1>1, QueueRest
    <3> QED BY <3>1
  <2> QED BY <2>1, <2>2
<1> QED BY <1>2, <1>3, <1>4, <1>5 DEF CommandsOK

(* A command is answered: no reply to it was under way.                    *)
LEMMA ReplySent ==
  ASSUME PipeTypes, RepliesOK, NEW c \in Ids, NEW r \in {"ok", "error"},
         executed[c] = "no", Ran(c, r), NEW m \in Message, m.kind = "reply", m.id = c,
         m.result = r, Emit(m)
  PROVE  RepliesOK'
<1>1. executed'[c] = r /\ \A i \in Ids : i # c => executed'[i] = executed[i]
  BY DEF Ran, PipeTypes
<1>2. outgoing \in Seq(Message)
  BY DEF PipeTypes
<1>3. ASSUME NEW k \in DOMAIN outgoing', outgoing'[k].kind = "reply"
      PROVE  /\ outgoing'[k].id \in Ids /\ outgoing'[k].result # "none"
             /\ executed'[outgoing'[k].id] = outgoing'[k].result
  <2>1. CASE outgoing'[k] = m
    BY <1>1, <2>1
  <2>2. CASE \E l \in DOMAIN outgoing : outgoing'[k] = outgoing[l]
    <3>1. PICK l \in DOMAIN outgoing : outgoing'[k] = outgoing[l]
      BY <2>2
    <3>2. /\ outgoing[l].id \in Ids /\ outgoing[l].result # "none"
          /\ executed[outgoing[l].id] = outgoing[l].result /\ outgoing[l] \in Message
      BY <1>2, <1>3, <3>1 DEF RepliesOK
    <3>3. outgoing[l].id # c
      BY <3>2 DEF Message
    <3> QED BY <1>1, <3>1, <3>2, <3>3
  <2> QED BY <2>1, <2>2, EmitEffect
<1> QED BY <1>3 DEF RepliesOK

(* A command that is performed or refused at once, a command about which   *)
(* the user is asked, and what each does to the form.                      *)
LEMMA ExecutedCommands ==
  ASSUME PipeInv, NEW c \in Ids, NEW r \in {"ok", "error"}, executed[c] = "no", ~Asked(c),
         request[c].at \notin {"none", "queued"}, request[c].result # "unsent",
         \A i \in Ids : Received(i)' => Received(i) /\ i # c,
         \A k, l \in DOMAIN commands' : commands'[k] = commands'[l] => k = l,
         UNCHANGED <<request, next, mutation, backend>>, Ran(c, r)
  PROVE  RequestsOK' /\ CommandsOK' /\ OutcomeIsTrue'
<1>1. executed'[c] = r /\ \A i \in Ids : i # c => executed'[i] = executed[i]
  BY DEF Ran, PipeInv, PipeTypes
<1>2. \A i \in Ids : Asked(i)' = Asked(i)
  BY DEF Asked
<1>3. RequestsOK'
  BY DEF PipeInv, DeliveryOK, RequestsOK
<1>4. CommandsOK'
  <2>1. \A i \in Ids :
          request'[i].at \in {"none", "queued"} \/ request'[i].result = "unsent" =>
            executed'[i] = "no" /\ ~Received(i)' /\ ~Asked(i)'
    BY <1>1, <1>2 DEF PipeInv, DeliveryOK, CommandsOK
  <2>2. \A i \in Ids : Received(i)' => executed'[i] = "no" /\ ~Asked(i)'
    BY <1>1, <1>2 DEF PipeInv, DeliveryOK, CommandsOK
  <2>3. backend'.at = "asking" => backend'.id \in Ids /\ executed'[backend'.id] = "no"
    BY <1>1 DEF PipeInv, DeliveryOK, CommandsOK, Asked
  <2> QED BY <2>1, <2>2, <2>3 DEF CommandsOK
<1>5. OutcomeIsTrue'
  BY <1>1 DEF PipeInv, OutcomeIsTrue
<1> QED BY <1>3, <1>4, <1>5

LEMMA MonitorStep ==
  ASSUME PipeInv, PipeTypes', ServeMonitor
  PROVE  PipeInv'
<1> DEFINE v == history.version + (IF history.rows # history.revision THEN 1 ELSE 0)
<1>1. /\ commands' = Tail(commands) /\ commands # << >>
      /\ request[First].kind = "monitor"
      /\ Emit(Reply(First, "ok", v, history.revision)) /\ Ran(First, "ok")
      /\ UNCHANGED <<clientVars, answers, backend, form>>
  BY DEF ServeMonitor, Serving
<1>2. v \in Nat /\ history.revision \in 0..MaxChanges
  <2>1. history \in [revision : 0..MaxChanges, version : Nat, rows : -1..MaxChanges]
    BY DEF PipeInv, PipeTypes
  <2> QED BY <2>1
<1> HIDE DEF v
<1>3. PICK c : c = First
  OBVIOUS
<1>4. /\ c \in Ids /\ executed[c] = "no" /\ ~Asked(c)
      /\ request[c].at \notin {"none", "queued"} /\ request[c].result # "unsent"
      /\ \A i \in Ids : Received(i)' => Received(i) /\ i # c
      /\ \A k, l \in DOMAIN commands' : commands'[k] = commands'[l] => k = l
  BY <1>1, <1>3, Dequeued DEF PipeInv, DeliveryOK
<1>5. Ran(c, "ok") /\ UNCHANGED <<request, next, mutation, backend>>
  BY <1>1, <1>3 DEF clientVars
<1>6. RequestsOK' /\ CommandsOK' /\ OutcomeIsTrue'
  BY <1>4, <1>5, ExecutedCommands
<1>7. RepliesOK'
  <2> DEFINE m == Reply(c, "ok", v, history.revision)
  <2>1. m \in Message /\ m.kind = "reply" /\ m.id = c /\ m.result = "ok"
    BY <1>2, <1>4, MessageTypes DEF PipeInv
  <2>2. Emit(m)
    BY <1>1, <1>3
  <2> HIDE DEF m
  <2> QED BY <1>4, <1>5, <2>1, <2>2, ReplySent DEF PipeInv, DeliveryOK
<1>8. executed'[c] = "ok" /\ \A i \in Ids : i # c => executed'[i] = executed[i]
  BY <1>4, <1>5 DEF Ran, PipeInv, PipeTypes
<1>9. OperationsOK'
  <2>1. \A i \in Ids : Asked(i)' = Asked(i)
    BY <1>5 DEF Asked
  <2>2. UNCHANGED <<request, mutation, draft, form>> /\ request[c].kind # "form"
    BY <1>1, <1>3 DEF clientVars
  <2> QED BY <1>8, <2>1, <2>2 DEF PipeInv, OperationsOK
<1>10. UnconfirmedOK' /\ DraftKept'
  BY <1>1 DEF PipeInv, UnconfirmedOK, DraftKept, clientVars
<1> QED BY <1>6, <1>7, <1>9, <1>10 DEF PipeInv, DeliveryOK

(* An operation whose form was not taken yet: no other operation waits for *)
(* its execution.                                                          *)
LEMMA OnlyOperation ==
  ASSUME PipeInv, NEW c \in Ids, executed[c] = "no", ~Asked(c),
         request[c].at \notin {"none", "queued"}, request[c].kind = "form"
  PROVE  /\ mutation = c
         /\ \A i \in Ids : request[i].kind = "form" /\ i # c => executed[i] # "no"
<1>1. ASSUME NEW i \in Ids, request[i].kind = "form", executed[i] = "no"
      PROVE  mutation = i
  <2>1. request[i].at # "replied"
    BY <1>1 DEF PipeInv, DeliveryOK, RequestsOK, OutcomeIsTrue
  <2>2. request[i].at \in {"queued", "sent", "late"}
    BY <1>1, <2>1 DEF PipeInv, OperationsOK
  <2> QED BY <1>1, <2>2 DEF PipeInv, OperationsOK, Operations
<1> QED BY <1>1

(* The form of the backend when it takes that of an operation.             *)
LEMMA FormTaken ==
  ASSUME PipeInv, PipeTypes', NEW c \in Ids, executed[c] = "no", ~Asked(c),
         request[c].at \notin {"none", "queued"}, UNCHANGED clientVars, Takes(c),
         \A i \in Ids : i # c => executed'[i] = executed[i],
         \A i \in Ids : i # c => Asked(i)' = Asked(i),
         executed'[c] # "no" \/ Asked(c)'
  PROVE  /\ form <= form' /\ OperationsOK' /\ UnconfirmedOK' /\ DraftKept'
<1>1. /\ form \in 0..MaxEdits /\ form' \in 0..MaxEdits /\ draft.edits \in 0..MaxEdits
      /\ draft.unconfirmed \in 0..MaxEdits /\ MaxEdits \in Nat
      /\ \A i \in Ids : request[i].form \in 0..MaxEdits
  BY PipeFields DEF PipeInv, PipeTypes
<1>2. /\ request' = request /\ mutation' = mutation /\ draft' = draft
      /\ posted' = posted /\ outcome' = outcome
  BY DEF clientVars
<1>3. /\ form <= form' /\ form' <= draft.edits
      /\ request[c].kind = "form" => form' = request[c].form
      /\ request[c].kind # "form" => form' = form
  BY <1>1 DEF Takes, PipeInv, OperationsOK
<1>4. ASSUME NEW i \in Ids, request[i].kind = "form"
      PROVE  /\ executed'[i] = "no" /\ ~Asked(i)' => form' <= request[i].form
             /\ executed'[i] = "ok" \/ Asked(i)' => request[i].form <= form'
  <2>1. CASE i = c
    BY <1>1, <1>3, <1>4, <2>1
  <2>2. CASE i # c
    <3>1. /\ executed'[i] = executed[i] /\ Asked(i)' = Asked(i)
          /\ executed[i] = "no" /\ ~Asked(i) => form <= request[i].form
          /\ executed[i] = "ok" \/ Asked(i) => request[i].form <= form
      BY <1>4, <2>2 DEF PipeInv, OperationsOK
    <3>2. request[c].kind = "form" => executed[i] # "no"
      BY <1>4, <2>2, OnlyOperation
    <3>3. request[i].form \in 0..MaxEdits
      BY <1>1
    <3> QED BY <1>1, <1>3, <3>1, <3>2, <3>3
  <2> QED BY <2>1, <2>2
<1>5. OperationsOK'
  BY <1>2, <1>3, <1>4 DEF PipeInv, OperationsOK
<1>6. UnconfirmedOK'
  BY <1>1, <1>2, <1>3 DEF PipeInv, UnconfirmedOK
<1>7. DraftKept'
  BY <1>1, <1>2, <1>3 DEF PipeInv, DraftKept
<1> QED BY <1>3, <1>5, <1>6, <1>7

LEMMA OperationStep ==
  ASSUME PipeInv, PipeTypes', ServeOperation
  PROVE  PipeInv'
<1>1. /\ commands' = Tail(commands) /\ commands # << >> /\ backend.at = "run"
      /\ Refuses(First) \/ Performs(First) \/ Asks(First)
      /\ UNCHANGED clientVars
  BY ServeEffect DEF PipeInv
<1>2. PICK c : c = First
  OBVIOUS
<1>3. /\ c \in Ids /\ executed[c] = "no" /\ ~Asked(c)
      /\ request[c].at \notin {"none", "queued"} /\ request[c].result # "unsent"
      /\ \A i \in Ids : Received(i)' => Received(i) /\ i # c
      /\ \A k, l \in DOMAIN commands' : commands'[k] = commands'[l] => k = l
  BY <1>1, <1>2, Dequeued DEF PipeInv, DeliveryOK
<1>4. UNCHANGED clientVars /\ UNCHANGED <<request, next, mutation, outcome, posted, draft>>
  BY <1>1, ServeEffect DEF PipeInv, clientVars
<1>5. ASSUME NEW r \in {"ok", "error"}, Ran(c, r), Emit(Reply(c, r, 0, 0)),
             backend' = backend
      PROVE  /\ DeliveryOK' /\ OutcomeIsTrue'
             /\ executed'[c] = r /\ \A i \in Ids : i # c => executed'[i] = executed[i]
             /\ \A i \in Ids : Asked(i)' = Asked(i)
  <2>1. RequestsOK' /\ CommandsOK' /\ OutcomeIsTrue'
    BY <1>3, <1>4, <1>5, ExecutedCommands
  <2>2. RepliesOK'
    <3> DEFINE m == Reply(c, r, 0, 0)
    <3>1. 0 \in Nat /\ 0 \in 0..MaxChanges
      BY PipeBounds
    <3>2. m \in Message /\ m.kind = "reply" /\ m.id = c /\ m.result = r
      BY <1>3, <3>1, MessageTypes DEF PipeInv
    <3>3. Emit(m)
      BY <1>5
    <3> HIDE DEF m
    <3> QED BY <1>3, <1>5, <3>2, <3>3, ReplySent DEF PipeInv, DeliveryOK
  <2>3. executed'[c] = r /\ \A i \in Ids : i # c => executed'[i] = executed[i]
    BY <1>3, <1>5 DEF Ran, PipeInv, PipeTypes
  <2>4. \A i \in Ids : Asked(i)' = Asked(i)
    BY <1>5 DEF Asked
  <2> QED BY <2>1, <2>2, <2>3, <2>4 DEF DeliveryOK
<1>6. CASE Refuses(c)
  <2>1. Ran(c, "error") /\ Emit(Reply(c, "error", 0, 0)) /\ backend' = backend
        /\ form' = form
    BY <1>6 DEF Refuses
  <2>2. /\ DeliveryOK' /\ OutcomeIsTrue'
        /\ executed'[c] = "error" /\ \A i \in Ids : i # c => executed'[i] = executed[i]
        /\ \A i \in Ids : Asked(i)' = Asked(i)
    BY <1>5, <2>1
  <2>3. OperationsOK'
    BY <1>3, <1>4, <2>1, <2>2 DEF PipeInv, OperationsOK
  <2>4. UnconfirmedOK' /\ DraftKept'
    BY <1>4, <2>1 DEF PipeInv, UnconfirmedOK, DraftKept
  <2> QED BY <2>2, <2>3, <2>4 DEF PipeInv
<1>7. CASE Performs(c)
  <2>1. Ran(c, "ok") /\ Emit(Reply(c, "ok", 0, 0)) /\ backend' = backend /\ Takes(c)
    BY <1>7 DEF Performs
  <2>2. /\ DeliveryOK' /\ OutcomeIsTrue'
        /\ executed'[c] = "ok" /\ \A i \in Ids : i # c => executed'[i] = executed[i]
        /\ \A i \in Ids : Asked(i)' = Asked(i)
    BY <1>5, <2>1
  <2>3. OperationsOK' /\ UnconfirmedOK' /\ DraftKept'
    BY <1>3, <1>4, <2>1, <2>2, FormTaken
  <2> QED BY <2>2, <2>3 DEF PipeInv
<1>8. CASE Asks(c)
  <2>1. /\ Takes(c) /\ Emit(Dialog) /\ executed' = executed
        /\ backend' = [backend EXCEPT !.at = "asking", !.id = c]
    BY <1>8 DEF Asks
  <2>2. backend'.at = "asking" /\ backend'.id = c
    BY <2>1 DEF PipeInv, PipeTypes
  <2>3. \A i \in Ids : /\ Asked(i)' = (i = c) /\ ~Asked(i)
    BY <1>1, <2>2 DEF Asked
  <2>4. RequestsOK' /\ OutcomeIsTrue'
    BY <1>4, <2>1 DEF PipeInv, DeliveryOK, RequestsOK, OutcomeIsTrue
  <2>5. CommandsOK'
    BY <1>3, <1>4, <2>1, <2>2, <2>3 DEF PipeInv, DeliveryOK, CommandsOK
  <2>6. RepliesOK'
    <3>1. Dialog \in Message /\ Dialog.kind = "dialog"
      BY MessageTypes DEF PipeInv, Dialog
    <3>2. \A k \in DOMAIN outgoing' :
            outgoing'[k] = Dialog \/ \E l \in DOMAIN outgoing : outgoing'[k] = outgoing[l]
      BY <2>1, <3>1, EmitEffect DEF PipeInv
    <3> QED BY <2>1, <3>1, <3>2 DEF PipeInv, DeliveryOK, RepliesOK
  <2>7. OperationsOK' /\ UnconfirmedOK' /\ DraftKept'
    <3>1. /\ \A i \in Ids : i # c => executed'[i] = executed[i]
          /\ \A i \in Ids : i # c => Asked(i)' = Asked(i)
          /\ Asked(c)'
      BY <1>1, <2>1, <2>2 DEF Asked
    <3> QED BY <1>3, <1>4, <2>1, <3>1, FormTaken
  <2> QED BY <2>4, <2>5, <2>6, <2>7 DEF PipeInv, DeliveryOK
<1> QED BY <1>1, <1>2, <1>6, <1>7, <1>8

LEMMA AnsweredStep ==
  ASSUME PipeInv, PipeTypes', Answered
  PROVE  PipeInv'
<1>1. /\ backend.at = "asking" /\ backend.id \in Ids /\ executed[backend.id] = "no"
      /\ backend' = [backend EXCEPT !.at = "run", !.id = 0]
      /\ Ran(backend.id, "ok") /\ Emit(Reply(backend.id, "ok", 0, 0))
      /\ UNCHANGED <<clientVars, commands, form, history>>
  BY DEF Answered, PipeInv, DeliveryOK, CommandsOK
<1>2. PICK c \in Ids : c = backend.id
  BY <1>1
<1>3. /\ executed[c] = "no" /\ Ran(c, "ok") /\ Emit(Reply(c, "ok", 0, 0))
      /\ UNCHANGED <<request, next, mutation, outcome, posted, draft, commands, form>>
  BY <1>1, <1>2 DEF clientVars
<1>4. executed'[c] = "ok" /\ \A i \in Ids : i # c => executed'[i] = executed[i]
  BY <1>3 DEF Ran, PipeInv, PipeTypes
<1>5. \A i \in Ids : /\ Asked(i) = (i = c) /\ ~Asked(i)'
                     /\ Received(i)' = Received(i)
  <2>1. backend'.at = "run"
    BY <1>1 DEF PipeInv, PipeTypes
  <2> QED BY <1>1, <1>2, <1>3, <2>1 DEF Asked, Received
<1>6. RequestsOK'
  BY <1>3 DEF PipeInv, DeliveryOK, RequestsOK
<1>7. CommandsOK'
  <2>1. backend'.at = "run"
    BY <1>1 DEF PipeInv, PipeTypes
  <2>2. CommandsOK /\ request' = request /\ commands' = commands
    BY <1>3 DEF PipeInv, DeliveryOK
  <2>3. \A i \in Ids :
          request'[i].at \in {"none", "queued"} \/ request'[i].result = "unsent" =>
            executed'[i] = "no" /\ ~Received(i)' /\ ~Asked(i)'
    BY <1>4, <1>5, <2>2 DEF CommandsOK
  <2>4. \A i \in Ids : Received(i)' => executed'[i] = "no" /\ ~Asked(i)'
    BY <1>4, <1>5, <2>2 DEF CommandsOK
  <2>5. \A k, l \in DOMAIN commands' : commands'[k] = commands'[l] => k = l
    BY <2>2 DEF CommandsOK
  <2> QED BY <2>1, <2>3, <2>4, <2>5 DEF CommandsOK
<1>8. RepliesOK'
  <2> DEFINE m == Reply(c, "ok", 0, 0)
  <2>1. 0 \in Nat /\ 0 \in 0..MaxChanges
    BY PipeBounds
  <2>2. m \in Message /\ m.kind = "reply" /\ m.id = c /\ m.result = "ok"
    BY <2>1, MessageTypes DEF PipeInv
  <2>3. Emit(m)
    BY <1>3
  <2> HIDE DEF m
  <2> QED BY <1>3, <2>2, <2>3, ReplySent DEF PipeInv, DeliveryOK
<1>9. OutcomeIsTrue'
  <2>1. request[c].result # "unsent" /\ request[c].result \notin {"ok", "error"}
    BY <1>3, <1>5 DEF PipeInv, DeliveryOK, CommandsOK, OutcomeIsTrue
  <2> QED BY <1>3, <1>4, <2>1 DEF PipeInv, OutcomeIsTrue
<1>10. OperationsOK'
  <2>1. ASSUME NEW i \in Ids, request[i].kind = "form"
        PROVE  /\ executed'[i] = "no" /\ ~Asked(i)' => form <= request[i].form
               /\ executed'[i] = "ok" \/ Asked(i)' => request[i].form <= form
    BY <1>4, <1>5, <2>1 DEF PipeInv, OperationsOK
  <2> QED BY <1>3, <2>1 DEF PipeInv, OperationsOK
<1>11. UnconfirmedOK' /\ DraftKept'
  BY <1>3 DEF PipeInv, UnconfirmedOK, DraftKept
<1> QED BY <1>6, <1>7, <1>8, <1>9, <1>10, <1>11 DEF PipeInv, DeliveryOK

(* The steps of the interface: another request is left alone, no command   *)
(* and no reply is made.                                                   *)
LEMMA WriteStep ==
  ASSUME PipeInv, PipeTypes', NEW i \in Ids, Write(i)
  PROVE  PipeInv'
<1>1. /\ request[i].at = "queued" /\ \A j \in Ids : j # i => request'[j] = request[j]
      /\ request'[i].at = "sent" /\ request'[i].kind = request[i].kind
      /\ request'[i].form = request[i].form /\ request'[i].result = request[i].result
      /\ commands' = commands \/ commands' = Append(commands, i)
      /\ UNCHANGED <<next, mutation, outcome, posted, draft, outgoing, backend, executed,
                     form>>
  BY WriteEffect DEF PipeInv
<1>2. \A j \in Ids : Asked(j)' = Asked(j)
  BY <1>1 DEF Asked
<1>3. executed[i] = "no" /\ ~Received(i) /\ ~Asked(i) /\ request[i].result = "none"
  BY <1>1 DEF PipeInv, DeliveryOK, CommandsOK, RequestsOK
<1>4. commands \in Seq(Ids)
  BY DEF PipeInv, PipeTypes
<1>5. \A j \in Ids : j # i => Received(j)' = Received(j)
  <2>1. CASE commands' = commands
    BY <2>1 DEF Received
  <2>2. CASE commands' = Append(commands, i)
    <3>1. ASSUME NEW j \in Ids, j # i PROVE Received(j)' = Received(j)
      <4>1. \A k \in DOMAIN commands : k \in DOMAIN commands' /\ commands'[k] = commands[k]
        BY <1>4, <2>2
      <4>2. \A k \in DOMAIN commands' : \/ k \in DOMAIN commands /\ commands'[k] = commands[k]
                                        \/ commands'[k] = i
        BY <1>4, <2>2, QueueMore
      <4> QED BY <3>1, <4>1, <4>2 DEF Received
    <3> QED BY <3>1
  <2> QED BY <1>1, <2>1, <2>2
<1>6. \A k, l \in DOMAIN commands' : commands'[k] = commands'[l] => k = l
  <2>1. CASE commands' = commands
    BY <2>1 DEF PipeInv, DeliveryOK, CommandsOK
  <2>2. CASE commands' = Append(commands, i)
    <3>1. \A k \in DOMAIN commands' :
            \/ k \in DOMAIN commands /\ commands'[k] = commands[k]
            \/ k = Len(commands) + 1 /\ commands'[k] = i
      BY <1>4, <2>2, QueueMore
    <3>2. \A k \in DOMAIN commands : commands[k] # i
      BY <1>3 DEF Received
    <3>3. \A k, l \in DOMAIN commands : commands[k] = commands[l] => k = l
      BY DEF PipeInv, DeliveryOK, CommandsOK
    <3> QED BY <3>1, <3>2, <3>3
  <2> QED BY <1>1, <2>1, <2>2
<1>7. RequestsOK'
  BY <1>1, <1>3 DEF PipeInv, DeliveryOK, RequestsOK
<1>8. CommandsOK'
  <2>1. CommandsOK
    BY DEF PipeInv, DeliveryOK
  <2>2. ASSUME NEW j \in Ids,
               request'[j].at \in {"none", "queued"} \/ request'[j].result = "unsent"
        PROVE  executed'[j] = "no" /\ ~Received(j)' /\ ~Asked(j)'
    <3>1. j # i
      BY <1>1, <1>3, <2>2
    <3> QED BY <1>1, <1>2, <1>5, <2>1, <2>2, <3>1 DEF CommandsOK
  <2>3. ASSUME NEW j \in Ids, Received(j)' PROVE executed'[j] = "no" /\ ~Asked(j)'
    <3>1. CASE j = i
      BY <1>1, <1>2, <1>3, <3>1
    <3>2. CASE j # i
      BY <1>1, <1>2, <1>5, <2>1, <2>3, <3>2 DEF CommandsOK
    <3> QED BY <3>1, <3>2
  <2>4. backend'.at = "asking" => backend'.id \in Ids /\ executed'[backend'.id] = "no"
    BY <1>1, <2>1 DEF CommandsOK
  <2> QED BY <1>6, <2>2, <2>3, <2>4 DEF CommandsOK
<1>9. RepliesOK'
  BY <1>1 DEF PipeInv, DeliveryOK, RepliesOK
<1>10. OutcomeIsTrue'
  BY <1>1, <1>3 DEF PipeInv, OutcomeIsTrue
<1>11. OperationsOK'
  <2>1. OperationsOK
    BY DEF PipeInv
  <2>2. \A j \in Ids : request'[j].kind = request[j].kind /\ request'[j].form = request[j].form
    BY <1>1
  <2>3. \A j \in Ids : request'[j].kind = "form" =>
                        request'[j].at \in {"queued", "sent", "late", "replied"}
    BY <1>1, <2>1 DEF OperationsOK
  <2>4. \A j \in Ids : request'[j].kind \in Operations
                     /\ request'[j].at \in {"queued", "sent", "late"} => mutation' = j
    BY <1>1, <2>1 DEF OperationsOK
  <2> QED BY <1>1, <1>2, <2>1, <2>2, <2>3, <2>4 DEF OperationsOK
<1>12. UnconfirmedOK' /\ DraftKept'
  <2>1. mutation \in Ids \cup {0}
    BY DEF PipeInv, PipeTypes
  <2>2. UnconfirmedOK'
    BY <1>1, <2>1 DEF PipeInv, UnconfirmedOK
  <2>3. DraftKept'
    BY <1>1 DEF PipeInv, DraftKept
  <2> QED BY <2>2, <2>3
<1> QED BY <1>7, <1>8, <1>9, <1>10, <1>11, <1>12 DEF PipeInv, DeliveryOK

(* A request that is over, or has its answer, changes nothing else.        *)
LEMMA RequestEnds ==
  ASSUME PipeInv, NEW i \in Ids, \A j \in Ids : j # i => request'[j] = request[j],
         request[i].at # "none",
         request'[i].at \in {"late", "replied", "over"},
         request'[i].result = "unsent" =>
           request[i].at = "queued" \/ request[i].result = "unsent",
         request'[i].result = "unsent" => mutation' # i,
         mutation' \in {0, mutation},
         request'[i].result \in {"ok", "error"} => executed[i] = request'[i].result,
         request'[i].at = "replied" => request'[i].result \in {"ok", "error"},
         UNCHANGED <<next, commands, backend, executed>>
  PROVE  RequestsOK' /\ CommandsOK' /\ OutcomeIsTrue'
<1>1. \A j \in Ids : Asked(j)' = Asked(j) /\ Received(j)' = Received(j)
  BY DEF Asked, Received
<1>2. RequestsOK'
  BY DEF PipeInv, DeliveryOK, RequestsOK
<1>3. CommandsOK'
  <2>1. CommandsOK
    BY DEF PipeInv, DeliveryOK
  <2>2. ASSUME NEW j \in Ids,
               request'[j].at \in {"none", "queued"} \/ request'[j].result = "unsent"
        PROVE  executed'[j] = "no" /\ ~Received(j)' /\ ~Asked(j)'
    BY <1>1, <2>1, <2>2 DEF CommandsOK
  <2>3. /\ \A j \in Ids : Received(j)' => executed'[j] = "no" /\ ~Asked(j)'
        /\ backend'.at = "asking" => backend'.id \in Ids /\ executed'[backend'.id] = "no"
        /\ \A k, l \in DOMAIN commands' : commands'[k] = commands'[l] => k = l
    BY <1>1, <2>1 DEF CommandsOK
  <2> QED BY <2>2, <2>3 DEF CommandsOK
<1>4. OutcomeIsTrue'
  <2>1. ASSUME NEW j \in Ids, request'[j].result = "unsent"
        PROVE  executed'[j] = "no" /\ j # mutation'
    <3>1. CASE j = i
      BY <2>1, <3>1 DEF PipeInv, DeliveryOK, CommandsOK
    <3>2. CASE j # i
      <4>1. executed[j] = "no" /\ j # mutation
        BY <2>1, <3>2 DEF PipeInv, OutcomeIsTrue
      <4>2. j # 0
        BY PipeBounds DEF Ids
      <4> QED BY <4>1, <4>2
    <3> QED BY <3>1, <3>2
  <2>2. ASSUME NEW j \in Ids, request'[j].result \in {"ok", "error"}
        PROVE  executed'[j] = request'[j].result
    BY <2>2 DEF PipeInv, OutcomeIsTrue
  <2> QED BY <2>1, <2>2 DEF OutcomeIsTrue
<1> QED BY <1>2, <1>3, <1>4

(* ... and is the one operation that may leave `mutation`.                 *)
LEMMA OperationEnds ==
  ASSUME PipeInv, NEW i \in Ids, \A j \in Ids : j # i => request'[j] = request[j],
         \/ request'[i].at = "over" /\ request'[i].kind = "plain" /\ request'[i].form = 0
         \/ /\ request'[i].kind = request[i].kind /\ request'[i].form = request[i].form
            /\ \/ request'[i].at = "replied"
               \/ request'[i].at = "late" /\ request[i].at = "sent",
         mutation' # mutation => mutation = i /\ request'[i].at \in {"over", "replied"},
         draft'.edits = draft.edits, UNCHANGED <<backend, executed, form>>
  PROVE  OperationsOK'
<1>1. \A j \in Ids : Asked(j)' = Asked(j)
  BY DEF Asked
<1>2. OperationsOK /\ draft.edits \in Nat
  BY DEF PipeInv, PipeTypes
<1>3. \A j \in Ids : request'[j].kind = "form" =>
                      request'[j].at \in {"queued", "sent", "late", "replied"}
  BY <1>2 DEF OperationsOK
<1>4. ASSUME NEW j \in Ids, request'[j].kind \in Operations,
             request'[j].at \in {"queued", "sent", "late"}
      PROVE  mutation' = j
  BY <1>2, <1>4 DEF OperationsOK
<1>5. \A j \in Ids : request'[j].form <= draft'.edits
  BY <1>2 DEF OperationsOK
<1>6. ASSUME NEW j \in Ids, request'[j].kind = "form"
      PROVE  /\ executed'[j] = "no" /\ ~Asked(j)' => form' <= request'[j].form
             /\ executed'[j] = "ok" \/ Asked(j)' => request'[j].form <= form'
  <2>1. request[j].kind = "form" /\ request'[j].form = request[j].form
    BY <1>6
  <2> QED BY <1>1, <1>2, <2>1 DEF OperationsOK
<1>7. form' <= draft'.edits
  BY <1>2 DEF OperationsOK
<1> QED BY <1>3, <1>4, <1>5, <1>6, <1>7 DEF OperationsOK

LEMMA ResumeStep ==
  ASSUME PipeInv, PipeTypes', NEW i \in Ids, Resume(i)
  PROVE  PipeInv'
<1>1. /\ request[i].at = "replied" /\ \A j \in Ids : j # i => request'[j] = request[j]
      /\ request'[i] = Over(request[i].result)
      /\ draft'.edits = draft.edits /\ draft'.overtaken = draft.overtaken
      /\ draft'.unconfirmed = draft.unconfirmed
      /\ ~(/\ request[i].result = "ok" /\ request[i].kind = "form"
           /\ draft.edits = request[i].form) => draft'.dirty = draft.dirty
      /\ UNCHANGED <<next, mutation, outcome, posted, outgoing, commands, backend,
                     executed, form>>
  BY ResumeEffect DEF PipeInv, backendVars
<1>2. request[i].result \in {"ok", "error"} /\ executed[i] = request[i].result
  BY <1>1 DEF PipeInv, DeliveryOK, RequestsOK, OutcomeIsTrue
<1>3. /\ request'[i].at = "over" /\ request'[i].kind = "plain" /\ request'[i].form = 0
      /\ request'[i].result = request[i].result
  BY <1>1, <1>2, OverFields
<1>4. RequestsOK' /\ CommandsOK' /\ OutcomeIsTrue'
  <2>1. /\ request[i].at # "none" /\ request'[i].result # "unsent"
        /\ request'[i].at # "replied" /\ mutation' \in {0, mutation}
    BY <1>1, <1>2, <1>3
  <2> QED BY <1>1, <1>2, <1>3, <2>1, RequestEnds
<1>5. RepliesOK'
  BY <1>1 DEF PipeInv, DeliveryOK, RepliesOK
<1>6. OperationsOK'
  BY <1>1, <1>3, OperationEnds
<1>7. UnconfirmedOK'
  <2>1. mutation \in Ids \cup {0}
    BY DEF PipeInv, PipeTypes
  <2> QED BY <1>1, <2>1 DEF PipeInv, UnconfirmedOK
<1>8. DraftKept'
  <2>1. CASE draft'.dirty = draft.dirty
    BY <1>1, <2>1 DEF PipeInv, DraftKept
  <2>2. CASE draft'.dirty # draft.dirty
    <3>1. request[i].kind = "form" /\ draft.edits = request[i].form /\ executed[i] = "ok"
      BY <1>1, <1>2, <2>2
    <3>2. draft.edits <= form /\ form <= draft.edits
      BY <3>1 DEF PipeInv, OperationsOK
    <3>3. form \in 0..MaxEdits /\ draft.edits \in 0..MaxEdits /\ MaxEdits \in Nat
      BY PipeFields DEF PipeInv, PipeTypes
    <3>4. form = draft.edits
      BY <3>2, <3>3
    <3> QED BY <1>1, <3>4 DEF DraftKept
  <2> QED BY <2>1, <2>2
<1> QED BY <1>4, <1>5, <1>6, <1>7, <1>8 DEF PipeInv, DeliveryOK

LEMMA TimeOutStep ==
  ASSUME PipeInv, PipeTypes', NEW i \in Ids, TimeOut(i)
  PROVE  PipeInv'
<1>1. /\ request[i].at = "sent" /\ \A j \in Ids : j # i => request'[j] = request[j]
      /\ request'[i].at = "late" /\ request'[i].kind = request[i].kind
      /\ request'[i].form = request[i].form /\ request'[i].result = "unknown"
      /\ outcome'.error = outcome.error /\ (posted => posted')
      /\ draft'.edits = draft.edits /\ draft'.dirty = draft.dirty
      /\ draft'.overtaken = draft.overtaken
      /\ draft'.unconfirmed = IF mutation = i /\ request[i].kind = "form"
                                THEN request[i].form ELSE draft.unconfirmed
      /\ UNCHANGED <<next, mutation, commands, outgoing, backend, executed, form>>
  BY TimeOutEffect DEF PipeInv, backendVars
<1>2. RequestsOK' /\ CommandsOK' /\ OutcomeIsTrue'
  <2>1. /\ request[i].at # "none" /\ request'[i].result \notin {"unsent", "ok", "error"}
        /\ request'[i].at # "replied" /\ mutation' \in {0, mutation}
    BY <1>1
  <2> QED BY <1>1, <2>1, RequestEnds
<1>3. RepliesOK'
  BY <1>1 DEF PipeInv, DeliveryOK, RepliesOK
<1>4. OperationsOK'
  BY <1>1, OperationEnds
<1>5. UnconfirmedOK'
  <2>1. mutation \in Ids \cup {0} /\ 0 \notin Ids
    BY PipeBounds DEF PipeInv, PipeTypes, Ids
  <2>2. CASE mutation = i /\ request[i].kind = "form"
    BY <1>1, <2>1, <2>2 DEF UnconfirmedOK
  <2>3. CASE ~(mutation = i /\ request[i].kind = "form")
    <3>1. draft'.unconfirmed = draft.unconfirmed
      BY <1>1, <2>3
    <3> QED BY <1>1, <2>1, <3>1 DEF PipeInv, UnconfirmedOK
  <2> QED BY <2>2, <2>3
<1>6. DraftKept'
  BY <1>1 DEF PipeInv, DraftKept
<1> QED BY <1>2, <1>3, <1>4, <1>5, <1>6 DEF PipeInv, DeliveryOK

LEMMA UnsentStep ==
  ASSUME PipeInv, PipeTypes', NEW i \in Ids, GiveUpUnsent(i)
  PROVE  PipeInv'
<1>1. /\ request[i].at = "queued" /\ request' = [request EXCEPT ![i] = Over("unsent")]
      /\ Complete(i, FALSE) /\ FALSE \in BOOLEAN
      /\ UNCHANGED <<next, draft, commands, outgoing, backend, executed, form>>
  BY DEF GiveUpUnsent, backendVars
<1>2. /\ \A j \in Ids : j # i => request'[j] = request[j]
      /\ request'[i] = Over("unsent")
  BY <1>1 DEF PipeInv, PipeTypes
<1>3. /\ request'[i].at = "over" /\ request'[i].kind = "plain" /\ request'[i].form = 0
      /\ request'[i].result = "unsent"
  BY <1>2, OverFields
<1>4. /\ mutation' = (IF mutation = i THEN 0 ELSE mutation)
      /\ posted' = (posted \/ mutation = i)
      /\ outcome' = IF mutation = i THEN [unconfirmed |-> FALSE, error |-> FALSE] ELSE outcome
  BY <1>1, CompleteEffect DEF PipeInv
<1>5. 0 \notin Ids /\ mutation \in Ids \cup {0}
  BY PipeBounds DEF PipeInv, PipeTypes, Ids
<1>6. RequestsOK' /\ CommandsOK' /\ OutcomeIsTrue'
  <2>1. /\ request[i].at # "none" /\ request'[i].result \notin {"ok", "error"}
        /\ request'[i].at # "replied" /\ mutation' \in {0, mutation} /\ mutation' # i
    BY <1>1, <1>3, <1>4, <1>5
  <2> QED BY <1>1, <1>2, <1>3, <2>1, RequestEnds
<1>7. RepliesOK'
  BY <1>1 DEF PipeInv, DeliveryOK, RepliesOK
<1>8. OperationsOK'
  <2>1. mutation' # mutation => mutation = i
    BY <1>4
  <2> QED BY <1>1, <1>2, <1>3, <2>1, OperationEnds
<1>9. UnconfirmedOK'
  <2>1. CASE mutation = i
    BY <1>1, <1>5, <2>1 DEF PipeInv, UnconfirmedOK
  <2>2. CASE mutation # i
    <3>1. mutation' = mutation /\ outcome' = outcome /\ posted' = posted
      BY <1>4, <2>2 DEF PipeInv, PipeTypes
    <3> QED BY <1>1, <1>2, <1>5, <2>2, <3>1 DEF PipeInv, UnconfirmedOK
  <2> QED BY <2>1, <2>2
<1>10. DraftKept'
  BY <1>1 DEF PipeInv, DraftKept
<1> QED BY <1>6, <1>7, <1>8, <1>9, <1>10 DEF PipeInv, DeliveryOK

LEMMA ReplyStep ==
  ASSUME PipeInv, PipeTypes', ReadReply
  PROVE  PipeInv'
<1> DEFINE m == Head(outgoing)
<1>1. /\ outgoing # << >> /\ m.kind = "reply" /\ outgoing \in Seq(Message)
      /\ outgoing' = Tail(outgoing)
      /\ UNCHANGED <<next, draft, commands, backend, executed, form>>
  BY DEF ReadReply, PipeInv, PipeTypes
<1>2. /\ m = outgoing[1] /\ 1 \in DOMAIN outgoing /\ m \in Message
      /\ \A k \in DOMAIN outgoing' : k + 1 \in DOMAIN outgoing
                                    /\ outgoing'[k] = outgoing[k + 1]
  BY <1>1, QueueRest
<1>3. m.id \in Ids /\ m.result # "none" /\ executed[m.id] = m.result
  BY <1>1, <1>2 DEF PipeInv, DeliveryOK, RepliesOK
<1>4. PICK i \in Ids : i = m.id
  BY <1>3
<1>5. PICK r : r = m.result
  OBVIOUS
<1>6. r \in {"ok", "error"} /\ executed[i] = r /\ (r = "error") \in BOOLEAN
  BY <1>2, <1>3, <1>4, <1>5 DEF Message
<1>7. /\ \A j \in Ids : j # i => request'[j] = request[j]
      /\ request[i].at = "late" => request'[i] = Over("unknown")
      /\ request[i].at # "late" =>
           /\ request'[i].at = "replied" /\ request'[i].kind = request[i].kind
           /\ request'[i].form = request[i].form /\ request'[i].result = r
      /\ Complete(i, r = "error")
  BY <1>3, <1>4, <1>5, ReplyEffect DEF PipeInv
<1> HIDE DEF m
<1>8. /\ Over("unknown").at = "over" /\ Over("unknown").kind = "plain"
      /\ Over("unknown").form = 0 /\ Over("unknown").result = "unknown"
  BY OverFields
<1>9. /\ mutation' = (IF mutation = i THEN 0 ELSE mutation)
      /\ posted' = (posted \/ mutation = i)
      /\ outcome' = IF mutation = i THEN [unconfirmed |-> FALSE, error |-> (r = "error")]
                                    ELSE outcome
  BY <1>6, <1>7, CompleteEffect DEF PipeInv
<1>10. 0 \notin Ids /\ mutation \in Ids \cup {0}
  BY PipeBounds DEF PipeInv, PipeTypes, Ids
<1>11. RequestsOK' /\ CommandsOK' /\ OutcomeIsTrue'
  <2>1. request[i].at # "none"
    BY <1>6 DEF PipeInv, DeliveryOK, CommandsOK
  <2>2. /\ request'[i].at \in {"replied", "over"}
        /\ request'[i].result # "unsent" /\ mutation' \in {0, mutation}
        /\ request'[i].result \in {"ok", "error"} => executed[i] = request'[i].result
        /\ request'[i].at = "replied" => request'[i].result \in {"ok", "error"}
    BY <1>6, <1>7, <1>8, <1>9
  <2> QED BY <1>1, <1>7, <2>1, <2>2, RequestEnds
<1>12. RepliesOK'
  BY <1>1, <1>2 DEF PipeInv, DeliveryOK, RepliesOK
<1>13. OperationsOK'
  <2>1. \/ request'[i].at = "over" /\ request'[i].kind = "plain" /\ request'[i].form = 0
        \/ /\ request'[i].kind = request[i].kind /\ request'[i].form = request[i].form
           /\ request'[i].at = "replied"
    BY <1>7, <1>8
  <2>2. mutation' # mutation => mutation = i /\ request'[i].at \in {"over", "replied"}
    BY <1>9, <2>1
  <2> QED BY <1>1, <1>7, <2>1, <2>2, OperationEnds
<1>14. UnconfirmedOK'
  <2>1. CASE mutation = i
    <3>1. /\ mutation' = 0 /\ posted' /\ outcome'.error = (r = "error")
          /\ draft' = draft /\ form' = form
      BY <1>1, <1>9, <2>1
    <3>2. ASSUME ~draft.overtaken, draft.unconfirmed # 0, r = "ok"
          PROVE  draft.unconfirmed <= form
      BY <1>6, <1>10, <2>1, <3>2 DEF PipeInv, UnconfirmedOK, OperationsOK
    <3> QED BY <1>6, <3>1, <3>2 DEF UnconfirmedOK
  <2>2. CASE mutation # i
    <3>1. mutation' = mutation /\ outcome' = outcome /\ posted' = posted
      BY <1>9, <2>2 DEF PipeInv, PipeTypes
    <3> QED BY <1>1, <1>7, <1>10, <2>2, <3>1 DEF PipeInv, UnconfirmedOK
  <2> QED BY <2>1, <2>2
<1>15. DraftKept'
  BY <1>1 DEF PipeInv, DraftKept
<1> QED BY <1>11, <1>12, <1>13, <1>14, <1>15 DEF PipeInv, DeliveryOK

LEMMA DisconnectedStep ==
  ASSUME PipeInv, PipeTypes', Disconnected
  PROVE  PipeInv'
<1>1. /\ request' = [i \in Ids |-> IF request[i].at \in {"queued", "sent"}
                                  THEN Over("unknown") ELSE request[i]]
      /\ outcome' = [outcome EXCEPT !.unconfirmed = mutation # 0]
      /\ UNCHANGED <<next, mutation, posted, draft, commands, outgoing, backend, executed,
                     form>>
  BY DEF Disconnected, backendVars
<1>2. outcome'.error = outcome.error
  BY <1>1 DEF PipeInv, PipeTypes
<1>3. /\ Over("unknown").at = "over" /\ Over("unknown").kind = "plain"
      /\ Over("unknown").form = 0 /\ Over("unknown").result = "unknown"
  BY OverFields
<1>4. \A i \in Ids :
        \/ request'[i] = request[i] /\ request[i].at \notin {"queued", "sent"}
        \/ /\ request[i].at \in {"queued", "sent"} /\ request'[i].at = "over"
           /\ request'[i].kind = "plain" /\ request'[i].form = 0
           /\ request'[i].result = "unknown"
  BY <1>1, <1>3
<1>5. \A i \in Ids : Asked(i)' = Asked(i) /\ Received(i)' = Received(i)
  BY <1>1 DEF Asked, Received
<1>6. RequestsOK'
  BY <1>1, <1>4 DEF PipeInv, DeliveryOK, RequestsOK
<1>7. CommandsOK'
  <2>1. CommandsOK
    BY DEF PipeInv, DeliveryOK
  <2>2. ASSUME NEW j \in Ids,
               request'[j].at \in {"none", "queued"} \/ request'[j].result = "unsent"
        PROVE  executed'[j] = "no" /\ ~Received(j)' /\ ~Asked(j)'
    <3>1. request'[j] = request[j]
      BY <1>4, <2>2
    <3> QED BY <1>1, <1>5, <2>1, <2>2, <3>1 DEF CommandsOK
  <2>3. /\ \A j \in Ids : Received(j)' => executed'[j] = "no" /\ ~Asked(j)'
        /\ backend'.at = "asking" => backend'.id \in Ids /\ executed'[backend'.id] = "no"
        /\ \A k, l \in DOMAIN commands' : commands'[k] = commands'[l] => k = l
    BY <1>1, <1>5, <2>1 DEF CommandsOK
  <2> QED BY <2>2, <2>3 DEF CommandsOK
<1>8. RepliesOK'
  BY <1>1 DEF PipeInv, DeliveryOK, RepliesOK
<1>9. OutcomeIsTrue'
  BY <1>1, <1>4 DEF PipeInv, OutcomeIsTrue
<1>10. OperationsOK'
  <2>1. OperationsOK /\ draft.edits \in Nat
    BY DEF PipeInv, PipeTypes
  <2>2. \A i \in Ids : request'[i].kind = "form" => request'[i] = request[i]
    BY <1>4
  <2>3. \A i \in Ids : request'[i].kind \in Operations
                     /\ request'[i].at \in {"queued", "sent", "late"} => mutation' = i
    BY <1>1, <1>4, <2>1 DEF OperationsOK
  <2>4. \A i \in Ids : request'[i].form <= draft'.edits
    BY <1>1, <1>4, <2>1 DEF OperationsOK
  <2>5. \A i \in Ids : request'[i].kind = "form" =>
                      request'[i].at \in {"queued", "sent", "late", "replied"}
    BY <2>1, <2>2 DEF OperationsOK
  <2>6. ASSUME NEW i \in Ids, request'[i].kind = "form"
        PROVE  /\ executed'[i] = "no" /\ ~Asked(i)' => form' <= request'[i].form
               /\ executed'[i] = "ok" \/ Asked(i)' => request'[i].form <= form'
    BY <1>1, <1>5, <2>1, <2>2, <2>6 DEF OperationsOK
  <2>7. form' <= draft'.edits
    BY <1>1, <2>1 DEF OperationsOK
  <2> QED BY <2>3, <2>4, <2>5, <2>6, <2>7 DEF OperationsOK
<1>11. UnconfirmedOK'
  <2>1. mutation \in Ids \cup {0}
    BY DEF PipeInv, PipeTypes
  <2>2. ASSUME mutation # 0, request[mutation].at = "late"
        PROVE  request'[mutation] = request[mutation]
    BY <1>4, <2>1, <2>2
  <2> QED BY <1>1, <1>2, <2>2 DEF PipeInv, UnconfirmedOK
<1>12. DraftKept'
  BY <1>1 DEF PipeInv, DraftKept
<1> QED BY <1>6, <1>7, <1>8, <1>9, <1>10, <1>11, <1>12 DEF PipeInv, DeliveryOK

LEMMA ChangedStep ==
  ASSUME PipeInv, PipeTypes', OperationChanged
  PROVE  PipeInv'
<1>1. /\ draft'.edits = draft.edits /\ draft'.overtaken = draft.overtaken
      /\ draft'.unconfirmed = IF mutation = 0 /\ draft.unconfirmed # 0
                                THEN 0 ELSE draft.unconfirmed
      /\ ~draft'.dirty /\ draft.dirty =>
           /\ mutation = 0 /\ draft.unconfirmed # 0
           /\ ~outcome.error /\ draft.unconfirmed = draft.edits
      /\ UNCHANGED <<request, next, mutation, outcome, commands, outgoing, backend,
                     executed, form>>
  BY ChangedEffect DEF PipeInv, backendVars
<1>2. \A i \in Ids : Asked(i)' = Asked(i) /\ Received(i)' = Received(i)
  BY <1>1 DEF Asked, Received
<1>3. DeliveryOK'
  <2>1. RequestsOK' /\ RepliesOK'
    BY <1>1 DEF PipeInv, DeliveryOK, RequestsOK, RepliesOK
  <2>2. CommandsOK'
    BY <1>1, <1>2 DEF PipeInv, DeliveryOK, CommandsOK
  <2> QED BY <2>1, <2>2 DEF DeliveryOK
<1>4. OutcomeIsTrue'
  BY <1>1 DEF PipeInv, OutcomeIsTrue
<1>5. OperationsOK'
  BY <1>1, <1>2 DEF PipeInv, OperationsOK
<1>6. UnconfirmedOK'
  BY <1>1 DEF PipeInv, UnconfirmedOK
<1>7. DraftKept'
  <2>1. CASE ~draft'.dirty /\ draft.dirty /\ ~draft.overtaken
    <3>1. draft.edits <= form /\ form <= draft.edits
      BY <1>1, <2>1 DEF PipeInv, UnconfirmedOK, OperationsOK
    <3>2. form \in 0..MaxEdits /\ draft.edits \in 0..MaxEdits /\ MaxEdits \in Nat
      BY PipeFields DEF PipeInv, PipeTypes
    <3>3. form = draft.edits
      BY <3>1, <3>2
    <3> QED BY <1>1, <3>3 DEF DraftKept
  <2>2. CASE draft'.dirty \/ ~draft.dirty \/ draft.overtaken
    BY <1>1, <2>2 DEF PipeInv, DraftKept
  <2> QED BY <2>1, <2>2
<1> QED BY <1>3, <1>4, <1>5, <1>6, <1>7 DEF PipeInv

LEMMA DirtyStep ==
  ASSUME PipeInv, PipeTypes', Dirty
  PROVE  PipeInv'
<1> DEFINE n == draft.edits + 1
<1>1. /\ draft' = [draft EXCEPT !.edits = n, !.dirty = TRUE]
      /\ UNCHANGED <<request, next, mutation, outcome, posted, commands, outgoing, backend,
                     executed, form>>
  BY DEF Dirty, backendVars
<1>2. /\ n \in Nat /\ draft.edits \in Nat /\ draft.edits <= n /\ form \in Nat
      /\ \A i \in Ids : request[i].form \in Nat
  <2>1. draft.edits \in 0..MaxEdits /\ form \in 0..MaxEdits /\ MaxEdits \in Nat
        /\ \A i \in Ids : request[i].form \in 0..MaxEdits
    BY PipeFields DEF PipeInv, PipeTypes
  <2> QED BY <2>1
<1> HIDE DEF n
<1>3. /\ draft'.edits = n /\ draft'.dirty /\ draft'.overtaken = draft.overtaken
      /\ draft'.unconfirmed = draft.unconfirmed
  BY <1>1 DEF PipeInv, PipeTypes
<1>4. \A i \in Ids : Asked(i)' = Asked(i) /\ Received(i)' = Received(i)
  BY <1>1 DEF Asked, Received
<1>5. DeliveryOK'
  <2>1. RequestsOK' /\ RepliesOK'
    BY <1>1 DEF PipeInv, DeliveryOK, RequestsOK, RepliesOK
  <2>2. CommandsOK'
    BY <1>1, <1>4 DEF PipeInv, DeliveryOK, CommandsOK
  <2> QED BY <2>1, <2>2 DEF DeliveryOK
<1>6. OutcomeIsTrue'
  BY <1>1 DEF PipeInv, OutcomeIsTrue
<1>7. OperationsOK'
  <2>1. form' <= draft'.edits /\ \A i \in Ids : request'[i].form <= draft'.edits
    BY <1>1, <1>2, <1>3 DEF PipeInv, OperationsOK
  <2> QED BY <1>1, <1>4, <2>1 DEF PipeInv, OperationsOK
<1>8. UnconfirmedOK' /\ DraftKept'
  BY <1>1, <1>3 DEF PipeInv, UnconfirmedOK, DraftKept
<1> QED BY <1>5, <1>6, <1>7, <1>8 DEF PipeInv

LEMMA SendStep ==
  ASSUME PipeInv, PipeTypes', NEW sort \in Kinds, Send(sort)
  PROVE  PipeInv'
<1>1. /\ next \in Ids /\ next' = next + 1 /\ Free(sort) /\ Occupy(sort, next)
      /\ \A j \in Ids : j # next => request'[j] = request[j]
      /\ request'[next].at = "queued" /\ request'[next].kind = sort
      /\ request'[next].form = draft.edits /\ request'[next].result = "none"
      /\ draft'.edits = draft.edits /\ draft'.dirty = draft.dirty
      /\ draft'.unconfirmed = draft.unconfirmed
      /\ draft.overtaken => draft'.overtaken
      /\ sort \in Operations /\ posted /\ draft.unconfirmed # 0 => draft'.overtaken
      /\ UNCHANGED <<commands, outgoing, backend, executed, form>>
  BY SendEffect DEF PipeInv, backendVars
<1>2. /\ sort \in Operations => mutation = 0 /\ mutation' = next
      /\ sort \notin Operations => /\ mutation' = mutation /\ posted' = posted
                                   /\ outcome' = outcome
  BY <1>1, OccupyEffect DEF PipeInv
<1>3. /\ mutation \in Ids \cup {0} /\ 0 \notin Ids
      /\ next \in Nat /\ \A i \in Ids : i \in Nat
  <2>1. mutation \in Ids \cup {0}
    BY DEF PipeInv, PipeTypes
  <2>2. MaxId \in Nat
    BY PipeBounds
  <2> QED BY <1>1, <2>1, <2>2 DEF Ids
<1>4. PICK c \in Ids : c = next
  BY <1>1
<1>5. /\ request[c].at = "none" /\ executed[c] = "no" /\ ~Received(c) /\ ~Asked(c)
  BY <1>3, <1>4 DEF PipeInv, DeliveryOK, RequestsOK, CommandsOK
<1>6. \A i \in Ids : Asked(i)' = Asked(i) /\ Received(i)' = Received(i)
  BY <1>1 DEF Asked, Received
<1>7. RequestsOK'
  <2>1. RequestsOK
    BY DEF PipeInv, DeliveryOK
  <2>2. \A i \in Ids : i >= next' => request'[i].at = "none"
    BY <1>1, <1>3, <2>1 DEF RequestsOK
  <2>3. /\ \A i \in Ids : request'[i].at = "replied" => request'[i].result \in {"ok", "error"}
        /\ \A i \in Ids : request'[i].at \in {"queued", "sent"} => request'[i].result = "none"
    BY <1>1, <2>1 DEF RequestsOK
  <2> QED BY <2>2, <2>3 DEF RequestsOK
<1>8. CommandsOK'
  <2>1. CommandsOK
    BY DEF PipeInv, DeliveryOK
  <2>2. ASSUME NEW j \in Ids,
               request'[j].at \in {"none", "queued"} \/ request'[j].result = "unsent"
        PROVE  executed'[j] = "no" /\ ~Received(j)' /\ ~Asked(j)'
    <3>1. CASE j = c
      BY <1>1, <1>5, <1>6, <3>1
    <3>2. CASE j # c
      BY <1>1, <1>4, <1>6, <2>1, <2>2, <3>2 DEF CommandsOK
    <3> QED BY <3>1, <3>2
  <2>3. /\ \A j \in Ids : Received(j)' => executed'[j] = "no" /\ ~Asked(j)'
        /\ backend'.at = "asking" => backend'.id \in Ids /\ executed'[backend'.id] = "no"
        /\ \A k, l \in DOMAIN commands' : commands'[k] = commands'[l] => k = l
    BY <1>1, <1>6, <2>1 DEF CommandsOK
  <2> QED BY <2>2, <2>3 DEF CommandsOK
<1>9. RepliesOK'
  BY <1>1 DEF PipeInv, DeliveryOK, RepliesOK
<1>10. OutcomeIsTrue'
  <2>1. ASSUME NEW i \in Ids, request'[i].result = "unsent"
        PROVE  executed'[i] = "no" /\ i # mutation'
    <3>1. i # c /\ request'[i] = request[i]
      BY <1>1, <1>4, <2>1
    <3> QED BY <1>1, <1>2, <1>4, <2>1, <3>1 DEF PipeInv, OutcomeIsTrue
  <2>2. ASSUME NEW i \in Ids, request'[i].result \in {"ok", "error"}
        PROVE  executed'[i] = request'[i].result
    BY <1>1, <2>2 DEF PipeInv, OutcomeIsTrue
  <2> QED BY <2>1, <2>2 DEF OutcomeIsTrue
<1>11. OperationsOK'
  <2>1. OperationsOK
    BY DEF PipeInv
  <2>2. draft.edits \in Nat /\ form \in Nat
    BY PipeFields DEF PipeInv, PipeTypes
  <2>3. \A i \in Ids : request'[i].kind = "form" =>
                      request'[i].at \in {"queued", "sent", "late", "replied"}
    BY <1>1, <2>1 DEF OperationsOK
  <2>4. ASSUME NEW i \in Ids, request'[i].kind \in Operations,
               request'[i].at \in {"queued", "sent", "late"}
        PROVE  mutation' = i
    <3>1. CASE i = c
      BY <1>1, <1>2, <1>4, <2>4, <3>1
    <3>2. CASE i # c
      <4>1. mutation = i
        BY <1>1, <1>4, <2>1, <2>4, <3>2 DEF OperationsOK
      <4> QED BY <1>2, <1>3, <4>1
    <3> QED BY <3>1, <3>2
  <2>5. form' <= draft'.edits
    BY <1>1, <2>1 DEF OperationsOK
  <2>6. ASSUME NEW i \in Ids PROVE request'[i].form <= draft'.edits
    BY <1>1, <2>1, <2>2 DEF OperationsOK
  <2>7. ASSUME NEW i \in Ids, request'[i].kind = "form"
        PROVE  /\ executed'[i] = "no" /\ ~Asked(i)' => form' <= request'[i].form
               /\ executed'[i] = "ok" \/ Asked(i)' => request'[i].form <= form'
    <3>1. CASE i = c
      BY <1>1, <1>4, <1>5, <1>6, <2>1, <3>1 DEF OperationsOK
    <3>2. CASE i # c
      BY <1>1, <1>4, <1>6, <2>1, <2>7, <3>2 DEF OperationsOK
    <3> QED BY <3>1, <3>2
  <2> QED BY <2>3, <2>4, <2>5, <2>6, <2>7 DEF OperationsOK
<1>12. UnconfirmedOK'
  <2>1. CASE sort \in Operations
    <3>1. draft.overtaken \/ draft.unconfirmed = 0 \/ posted
      BY <1>2, <2>1 DEF PipeInv, UnconfirmedOK
    <3> QED BY <1>1, <2>1, <3>1 DEF UnconfirmedOK
  <2>2. CASE sort \notin Operations
    <3>1. mutation # 0 /\ request[mutation].at = "late" => request'[mutation] = request[mutation]
      BY <1>1, <1>3, <1>4, <1>5
    <3> QED BY <1>1, <1>2, <2>2, <3>1 DEF PipeInv, UnconfirmedOK
  <2> QED BY <2>1, <2>2
<1>13. DraftKept'
  BY <1>1 DEF PipeInv, DraftKept
<1> QED BY <1>7, <1>8, <1>9, <1>10, <1>11, <1>12, <1>13 DEF PipeInv, DeliveryOK

LEMMA PipeStep ==
  ASSUME PipeInv, PipeNext
  PROVE  PipeInv'
<1>1. PipeTypes'
  BY PipeStepTypes DEF PipeInv
<1>2. CASE MainStep
  <2>1. CASE End
    <3>1. /\ UNCHANGED <<request, next, mutation, outcome, posted, draft, commands, executed,
                         form>>
          /\ backend.at = "run" /\ backend' = [backend EXCEPT !.at = "ended"]
          /\ outgoing' = << >>
      BY <2>1 DEF End, clientVars
    <3>2. backend'.at = "ended" /\ backend'.id = backend.id
      BY <3>1 DEF PipeInv, PipeTypes
    <3> QED BY <1>1, <3>1, <3>2, QuietStep
  <2> QED BY <1>1, <1>2, <2>1, MonitorStep, OperationStep, AnsweredStep DEF MainStep
<1>3. CASE PipeEnds
  <2>1. /\ UNCHANGED <<request, next, mutation, outcome, posted, draft, commands, executed,
                       form>>
        /\ backend' = backend /\ outgoing' = outgoing
    BY <1>3 DEF PipeEnds, clientVars
  <2> QED BY <1>1, <2>1, QuietStep
<1>4. CASE InterfaceStep
  BY <1>1, <1>4, ReplyStep, DisconnectedStep, ChangedStep, WriteStep, ResumeStep,
     TimeOutStep DEF InterfaceStep
<1>5. CASE BeginQuit
  <2>1. /\ UNCHANGED <<request, next, mutation, outcome, posted, draft, commands, executed,
                       form>>
        /\ backend' = [backend EXCEPT !.quitting = TRUE] /\ outgoing' = outgoing
    BY <1>5 DEF BeginQuit, clientVars
  <2>2. backend'.at = backend.at /\ backend'.id = backend.id
    BY <2>1 DEF PipeInv, PipeTypes
  <2> QED BY <1>1, <2>1, <2>2, QuietStep
<1>6. CASE HistoryChanges
  <2>1. /\ UNCHANGED <<request, next, mutation, outcome, posted, draft, commands, executed,
                       form>>
        /\ backend' = backend /\ outgoing' = outgoing
    BY <1>6 DEF HistoryChanges, clientVars
  <2> QED BY <1>1, <2>1, QuietStep
<1>7. CASE Dirty
  BY <1>1, <1>7, DirtyStep
<1>8. CASE AnswerDialog
  <2>1. /\ UNCHANGED <<request, next, mutation, outcome, posted, draft, commands, executed,
                       form>>
        /\ backend' = backend /\ outgoing' = Tail(outgoing) /\ outgoing # << >>
    BY <1>8 DEF AnswerDialog, clientVars
  <2>2. outgoing \in Seq(Message)
    BY DEF PipeInv, PipeTypes
  <2>3. \A k \in DOMAIN outgoing' : \E l \in DOMAIN outgoing : outgoing'[k] = outgoing[l]
    BY <2>1, <2>2, QueueRest
  <2> QED BY <1>1, <2>1, <2>3, QuietStep
<1>9. CASE Close
  <2>1. /\ UNCHANGED <<request, next, mutation, outcome, posted, draft, commands, executed,
                       form>>
        /\ backend' = backend /\ outgoing' = outgoing
    BY <1>9 DEF Close, backendVars
  <2> QED BY <1>1, <2>1, QuietStep
<1> QED BY <1>1, <1>2, <1>3, <1>4, <1>5, <1>6, <1>7, <1>8, <1>9, UnsentStep, SendStep
        DEF PipeNext

LEMMA PipeStart ==
  ASSUME PipeInit
  PROVE  PipeInv
<1>1. /\ \A i \in Ids : request[i] = NoRequest
      /\ request = [i \in Ids |-> NoRequest] /\ next = 1
      /\ queries = [q \in Queries |-> 0] /\ mutation = 0
      /\ outcome = [unconfirmed |-> FALSE, error |-> FALSE] /\ posted = FALSE
      /\ draft = [edits |-> 0, dirty |-> FALSE, unconfirmed |-> 0, overtaken |-> FALSE]
      /\ shown = [version |-> 0, rows |-> 0] /\ down = "no"
      /\ commands = << >> /\ answers = << >> /\ outgoing = << >>
      /\ backend = [at |-> "run", id |-> 0, quitting |-> FALSE] /\ closed = FALSE
      /\ executed = [i \in Ids |-> "no"]
      /\ form = 0 /\ history = [revision |-> 0, version |-> 0, rows |-> -1]
  BY DEF PipeInit
<1>2. /\ NoRequest.at = "none" /\ NoRequest.kind = "plain" /\ NoRequest.form = 0
      /\ NoRequest.result = "none" /\ NoRequest \in Request
  BY OverFields DEF NoRequest
<1>3. /\ 0 \in 0..MaxEdits /\ 0 \in 0..MaxChanges /\ -1 \in -1..MaxChanges
      /\ 1 \in 1..(MaxId + 1)
  BY PipeBounds
<1>4. \A i \in Ids : ~Asked(i) /\ ~Received(i)
  BY <1>1 DEF Asked, Received
<1> HIDE DEF NoRequest
<1>5. PipeTypes
  <2>1. /\ request \in [Ids -> Request] /\ next \in 1..(MaxId + 1)
        /\ queries \in [Queries -> Ids \cup {0}] /\ mutation \in Ids \cup {0}
        /\ executed \in [Ids -> {"no", "ok", "error"}]
    BY <1>1, <1>2, <1>3
  <2>2. /\ outcome \in [unconfirmed : BOOLEAN, error : BOOLEAN] /\ posted \in BOOLEAN
        /\ down \in {"no", "lost", "closed"} /\ closed \in BOOLEAN
        /\ backend \in [at : {"run", "asking", "ended"}, id : Ids \cup {0},
                        quitting : BOOLEAN]
    BY <1>1
  <2>3. draft \in [edits : 0..MaxEdits, dirty : BOOLEAN, unconfirmed : 0..MaxEdits,
                   overtaken : BOOLEAN]
    BY <1>1, <1>3
  <2>4. /\ shown \in [version : Nat, rows : 0..MaxChanges]
        /\ history \in [revision : 0..MaxChanges, version : Nat, rows : -1..MaxChanges]
        /\ form \in 0..MaxEdits
    BY <1>1, <1>3
  <2>5. commands \in Seq(Ids) /\ answers \in Seq(BOOLEAN) /\ outgoing \in Seq(Message)
    BY <1>1
  <2> QED BY <2>1, <2>2, <2>3, <2>4, <2>5 DEF PipeTypes
<1>6. DeliveryOK
  <2>1. RequestsOK
    BY <1>1, <1>2 DEF RequestsOK
  <2>2. CommandsOK
    BY <1>1, <1>2, <1>4 DEF CommandsOK
  <2>3. RepliesOK
    BY <1>1 DEF RepliesOK
  <2> QED BY <2>1, <2>2, <2>3 DEF DeliveryOK
<1>7. OutcomeIsTrue
  BY <1>1, <1>2 DEF OutcomeIsTrue
<1>8. OperationsOK
  BY <1>1, <1>2 DEF OperationsOK
<1>9. UnconfirmedOK /\ DraftKept
  BY <1>1 DEF UnconfirmedOK, DraftKept
<1> QED BY <1>5, <1>6, <1>7, <1>8, <1>9 DEF PipeInv

(***************************************************************************)
(* The invariant of the pipe: the types; a request is executed once, after *)
(* it was sent, and its reply says how; one operation is outstanding at    *)
(* most, so the forms arrive in the order in which they were sent; a draft *)
(* whose operation timed out waits for that operation's reply              *)
(* (BackendClient.cs, DesktopWindow.cs, desktop_bridge.py).                *)
(***************************************************************************)
THEOREM PipeInductive == PipeSpec => []PipeInv
<1>1. ASSUME PipeInv, [PipeNext]_pipeVars PROVE PipeInv'
  <2>1. CASE UNCHANGED pipeVars
    <3>1. /\ UNCHANGED <<request, next, mutation, outcome, posted, draft, commands, executed,
                         form>>
          /\ backend' = backend /\ outgoing' = outgoing /\ queries' = queries
          /\ shown' = shown /\ down' = down /\ answers' = answers /\ closed' = closed
          /\ history' = history
      BY <2>1 DEF pipeVars, clientVars, backendVars
    <3>2. PipeTypes'
      BY <1>1, <3>1 DEF PipeInv, PipeTypes
    <3> QED BY <1>1, <3>1, <3>2, QuietStep
  <2> QED BY <1>1, <2>1, PipeStep
<1> QED BY <1>1, PipeStart, PTL DEF PipeSpec

(* What Send tells its caller is true, for every number of requests and    *)
(* every capacity of the queues: a request reported as not sent is never   *)
(* executed, and one reported with a result was executed with it.          *)
THEOREM OutcomeTrue == PipeSpec => []OutcomeIsTrue
<1>1. PipeInv => OutcomeIsTrue
  BY DEF PipeInv
<1> QED BY <1>1, PipeInductive, PTL

(* No late, lost or failed reply hides a draft: while the window shows no  *)
(* unsaved changes, the backend has the form as the user left it, but for  *)
(* an operation begun before the last late result was settled.             *)
THEOREM DraftStays == PipeSpec => []DraftKept
<1>1. PipeInv => DraftKept
  BY DEF PipeInv
<1> QED BY <1>1, PipeInductive, PTL
=============================================================================
