------------------------- MODULE ConnectionRuntime -------------------------
(***************************************************************************)
(* mcp_local/connection_runtime.py: the managed connection.                *)
(*                                                                         *)
(* Each element of Conns is one Connection object in a process of its own  *)
(* (the desktop, the command line, the logon task).  Its worker thread     *)
(* (_run) goes through the stages init, doctor and run; the thread that    *)
(* owns the object calls start, stop and cancel.set; the processes it      *)
(* spawns and the operating system act on their own; the owning process    *)
(* may be killed at any moment.  All connections of a session share the    *)
(* named mutex CONNECTION_MUTEX and the process list that existing_tunnel  *)
(* reads.  The calls to the request monitor are in RequestMonitor.         *)
(***************************************************************************)
EXTENDS Integers, FiniteSets

CONSTANT Conns

VARIABLES
  pc,            \* what the worker thread does next
  stage,         \* the command being run: 1 init, 2 doctor, 3 run
  cancel,        \* cancel.event
  handle,        \* native handle of the CancelEvent: none, unset or set
  stop,          \* how far a call of stop() has come
  job,           \* does the connection hold an open job object?
  proc,          \* the spawned process and the tunnel client below it
  inJob,         \* is the spawned process assigned to the job?
  mutex,         \* connections holding a handle of CONNECTION_MUTEX
  kind,          \* error_kind
  cleanupFailed  \* cleanup_failed

vars == <<pc, stage, cancel, handle, stop, job, proc, inJob, mutex, kind, cleanupFailed>>

Running == 3

WorkerState == {"off", "migrate", "mutex", "probe", "prepare", "newjob",
                "spawn", "assign", "permit", "status", "wait", "exited",
                "closejob", "reap", "release", "finish", "done"}
StopState   == {"no", "cancelled", "marked", "returned", "failed"}
ProcState   == {"none", "gated", "permitted", "tunnel", "exit0", "exit1",
                "dying", "dead"}
(* error_kind, as far as the desktop's RetryPolicy tells kinds apart: FATAL *)
(* stands for MIGRATION_REQUIRED, ALREADY_RUNNING, CONFIG_INVALID and       *)
(* CLIENT_INTEGRITY_FAILED, RETRYABLE for START_FAILED, DOCTOR_FAILED and   *)
(* PROCESS_EXITED.                                                          *)
Kind == {"none", "FATAL", "RETRYABLE", "CANCELLED", "RESOURCE_CLEANUP_FAILED"}

TypeOK ==
  /\ pc \in [Conns -> WorkerState]
  /\ stage \in [Conns -> 1 .. Running]
  /\ cancel \in [Conns -> BOOLEAN]
  /\ handle \in [Conns -> {"none", "unset", "set"}]
  /\ stop \in [Conns -> StopState]
  /\ job \in [Conns -> BOOLEAN]
  /\ proc \in [Conns -> ProcState]
  /\ inJob \in [Conns -> BOOLEAN]
  /\ mutex \subseteq Conns
  /\ kind \in [Conns -> Kind]
  /\ cleanupFailed \in [Conns -> BOOLEAN]

Init ==
  /\ pc = [c \in Conns |-> "off"]
  /\ stage = [c \in Conns |-> 1]
  /\ cancel = [c \in Conns |-> FALSE]
  /\ handle = [c \in Conns |-> "none"]
  /\ stop = [c \in Conns |-> "no"]
  /\ job = [c \in Conns |-> FALSE]
  /\ proc = [c \in Conns |-> "none"]
  /\ inJob = [c \in Conns |-> FALSE]
  /\ mutex = {}
  /\ kind = [c \in Conns |-> "none"]
  /\ cleanupFailed = [c \in Conns |-> FALSE]

(* self.lock is held by the worker from the cancel check to the permit. *)
LockedByWorker(c) == pc[c] \in {"assign", "permit"}

(* TerminateJobObject, process.kill or closing the last handle of a job:   *)
(* a client dies a little later than its wrapper is reaped.                *)
Kill(p) == CASE p = "tunnel" -> "dying"
             [] p \in {"gated", "permitted"} -> "dead"
             [] OTHER -> p

(* existing_tunnel looks for the client's image name. *)
TunnelListed == \E d \in Conns : proc[d] \in {"tunnel", "dying"}

Go(c, p) == pc' = [pc EXCEPT ![c] = p]

-----------------------------------------------------------------------------
(* The thread that owns the Connection.                                    *)

StartThread(c) ==
  /\ pc[c] = "off"
  /\ ~cleanupFailed[c]
  /\ stop[c] \notin {"cancelled", "marked"}
  /\ Go(c, "migrate")
  /\ cancel' = [cancel EXCEPT ![c] = FALSE]
  /\ kind' = [kind EXCEPT ![c] = "none"]
  /\ stop' = [stop EXCEPT ![c] = "no"]
  /\ UNCHANGED <<stage, handle, job, proc, inJob, mutex, cleanupFailed>>

(* CancelEvent.set: the flag and, when it exists, the native event. *)
SetCancel(c) ==
  /\ cancel' = [cancel EXCEPT ![c] = TRUE]
  /\ handle' = [handle EXCEPT ![c] = IF @ = "none" THEN @ ELSE "set"]

(* The desktop's stop and quit: connection.cancel.set() alone. *)
CancelOnly(c) ==
  /\ pc[c] # "off"
  /\ ~cancel[c]
  /\ SetCancel(c)
  /\ UNCHANGED <<pc, stage, stop, job, proc, inJob, mutex, kind,
                 cleanupFailed>>

(* stop(), first part: set cancel. *)
StopCall(c) ==
  /\ stop[c] = "no"
  /\ SetCancel(c)
  /\ stop' = [stop EXCEPT ![c] = "cancelled"]
  /\ UNCHANGED <<pc, stage, job, proc, inJob, mutex, kind, cleanupFailed>>

StopMark(c) ==
  /\ stop[c] = "cancelled"
  /\ kind' = [kind EXCEPT ![c] = "CANCELLED"]
  /\ stop' = [stop EXCEPT ![c] = "marked"]
  /\ UNCHANGED <<pc, stage, cancel, handle, job, proc, inJob, mutex,
                 cleanupFailed>>

(* Mutant: stop() relies on the cancel event alone. *)
StopJobCancelOnly(c) ==
  /\ stop[c] = "marked"
  /\ ~LockedByWorker(c)
  /\ stop' = [stop EXCEPT ![c] = "returned"]
  /\ UNCHANGED <<pc, stage, cancel, handle, job, proc, inJob, mutex, kind,
                 cleanupFailed>>

(* stop(), last part, under the lock; TerminateJobObject may fail. *)
StopJob(c) ==
  /\ stop[c] = "marked"
  /\ ~LockedByWorker(c)
  /\ \/ /\ stop' = [stop EXCEPT ![c] = "returned"]
        /\ proc' = [proc EXCEPT ![c] = IF job[c] /\ inJob[c] THEN Kill(@) ELSE @]
     \/ /\ job[c]
        /\ stop' = [stop EXCEPT ![c] = "failed"]
        /\ UNCHANGED proc
  /\ UNCHANGED <<pc, stage, cancel, handle, job, inJob, mutex, kind,
                 cleanupFailed>>

Owner(c) == StartThread(c) \/ CancelOnly(c) \/ StopCall(c) \/ StopMark(c) \/ StopJob(c)

-----------------------------------------------------------------------------
(* The worker thread.  Every failure ends in the finally block; the error  *)
(* event it may put first is text for the user and is left out.            *)

ToCleanup(c) == Go(c, "closejob")

(* A step that goes on, or raises into the finally block. *)
Proceed(c, p) == Go(c, p) \/ ToCleanup(c)

SetKind(c, k) == kind' = [kind EXCEPT ![c] = k]

(* require_migration *)
Migrate(c) ==
  /\ pc[c] = "migrate"
  /\ SetKind(c, "FATAL")
  /\ Proceed(c, "mutex")
  /\ UNCHANGED <<stage, cancel, handle, stop, job, proc, inJob, mutex,
                 cleanupFailed>>

(* Mutant: error 183 is not looked at. *)
TakeMutexAnyway(c) ==
  /\ pc[c] = "mutex"
  /\ SetKind(c, "FATAL")
  /\ mutex' = mutex \cup {c}
  /\ Go(c, "probe")
  /\ UNCHANGED <<stage, cancel, handle, stop, job, proc, inJob, cleanupFailed>>

(* CreateMutexW opens a handle even when the name exists (error 183). *)
TakeMutex(c) ==
  /\ pc[c] = "mutex"
  /\ SetKind(c, "FATAL")
  /\ \/ /\ mutex' = mutex \cup {c}
        /\ IF mutex = {} THEN Go(c, "probe")
                         ELSE ToCleanup(c)
     \/ UNCHANGED mutex /\ ToCleanup(c)
  /\ UNCHANGED <<stage, cancel, handle, stop, job, proc, inJob, cleanupFailed>>

(* existing_tunnel; a client nobody manages may be running as well. *)
Probe(c) ==
  /\ pc[c] = "probe"
  /\ IF TunnelListed THEN ToCleanup(c) ELSE Proceed(c, "prepare")
  /\ UNCHANGED <<stage, cancel, handle, stop, job, proc, inJob, mutex, kind,
                 cleanupFailed>>

(* build_commands (init only for a profile that does not exist yet), the   *)
(* environment and, in developer mode, the virtual machine's guard.        *)
Prepare(c) ==
  /\ pc[c] = "prepare"
  /\ \/ /\ \E k \in {"FATAL", "RETRYABLE"} : SetKind(c, k)
        /\ ToCleanup(c)
        /\ UNCHANGED stage
     \/ /\ SetKind(c, "RETRYABLE")
        /\ \E first \in {1, 2} : stage' = [stage EXCEPT ![c] = first]
        /\ Go(c, "newjob")
  /\ UNCHANGED <<cancel, handle, stop, job, proc, inJob, mutex, cleanupFailed>>

NewJob(c) ==
  /\ pc[c] = "newjob"
  /\ \/ /\ ~cancel[c]
        /\ job' = [job EXCEPT ![c] = TRUE]
        /\ Go(c, "spawn")
     \/ UNCHANGED job /\ ToCleanup(c)
  /\ UNCHANGED <<stage, cancel, handle, stop, proc, inJob, mutex, kind,
                 cleanupFailed>>

(* Popen of the wrapper, which waits for its permit on stdin. *)
Spawn(c) ==
  /\ pc[c] = "spawn"
  /\ \/ /\ ~cancel[c]
        /\ proc' = [proc EXCEPT ![c] = "gated"]
        /\ inJob' = [inJob EXCEPT ![c] = FALSE]
        /\ Go(c, "assign")
     \/ UNCHANGED <<proc, inJob>> /\ ToCleanup(c)
  /\ UNCHANGED <<stage, cancel, handle, stop, job, mutex, kind, cleanupFailed>>

(* Mutant: a process that cannot be assigned to the job goes on without it. *)
AssignIgnored(c) ==
  /\ pc[c] = "assign"
  /\ \E ok \in BOOLEAN : inJob' = [inJob EXCEPT ![c] = ok]
  /\ Go(c, "permit")
  /\ UNCHANGED <<stage, cancel, handle, stop, job, proc, mutex, kind,
                 cleanupFailed>>

Assign(c) ==
  /\ pc[c] = "assign"
  /\ \/ /\ inJob' = [inJob EXCEPT ![c] = TRUE]
        /\ Go(c, "permit")
        /\ UNCHANGED proc
     \/ /\ proc' = [proc EXCEPT ![c] = Kill(@)]
        /\ ToCleanup(c)
        /\ UNCHANGED inJob
  /\ UNCHANGED <<stage, cancel, handle, stop, job, mutex, kind, cleanupFailed>>

(* The second look at cancel, then the byte that lets the wrapper go; a    *)
(* wrapper that died before makes the write fail.                          *)
Permit(c) ==
  /\ pc[c] = "permit"
  /\ \/ /\ cancel[c]
        /\ proc' = [proc EXCEPT ![c] = Kill(@)]
        /\ ToCleanup(c)
     \/ /\ ~cancel[c]
        /\ proc[c] = "gated"
        /\ proc' = [proc EXCEPT ![c] = "permitted"]
        /\ Go(c, "status")
     \/ /\ ~cancel[c]
        /\ proc[c] # "gated"
        /\ UNCHANGED proc
        /\ ToCleanup(c)
  /\ UNCHANGED <<stage, cancel, handle, stop, job, inJob, mutex, kind,
                 cleanupFailed>>

(* The kind a failure of this stage will have, and the status event; then  *)
(* wait_process creates the native event in the state of the flag.         *)
Status(c) ==
  /\ pc[c] = "status"
  /\ SetKind(c, "RETRYABLE")
  /\ Go(c, "wait")
  /\ handle' = [handle EXCEPT ![c] = IF @ = "none"
                                       THEN IF cancel[c] THEN "set" ELSE "unset"
                                       ELSE @]
  /\ UNCHANGED <<stage, cancel, stop, job, proc, inJob, mutex,
                 cleanupFailed>>

Exited(c) == proc[c] \in {"exit0", "exit1", "dying", "dead"}

(* WaitForMultipleObjects on the native event and the process; init and    *)
(* doctor time out after stage_timeout, run never does.                    *)
Wait(c) ==
  /\ pc[c] = "wait"
  /\ \/ handle[c] = "set" /\ ToCleanup(c)
     \/ Exited(c) /\ Go(c, "exited")
     \/ stage[c] # Running /\ ToCleanup(c)
  /\ UNCHANGED <<stage, cancel, handle, stop, job, proc, inJob, mutex, kind,
                 cleanupFailed>>

(* A stage that ended well leads to the next, unless it was the last. *)
NextStage(c) ==
  /\ pc[c] = "exited"
  /\ IF ~cancel[c] /\ proc[c] = "exit0" /\ stage[c] # Running
       THEN /\ stage' = [stage EXCEPT ![c] = @ + 1]
            /\ Go(c, "spawn")
       ELSE ToCleanup(c) /\ UNCHANGED stage
  /\ UNCHANGED <<cancel, handle, stop, job, proc, inJob, mutex, kind,
                 cleanupFailed>>

(* finally: the job is detached and closed under the lock; its last handle *)
(* takes every process in it along.                                        *)
CloseJob(c) ==
  /\ pc[c] = "closejob"
  /\ job' = [job EXCEPT ![c] = FALSE]
  /\ proc' = [proc EXCEPT ![c] = IF job[c] /\ inJob[c] THEN Kill(@) ELSE @]
  /\ Go(c, "reap")
  /\ UNCHANGED <<stage, cancel, handle, stop, inJob, mutex, kind,
                 cleanupFailed>>

(* The locals of _run's finally block that decide the outcome. *)
Reap(c) ==
  /\ pc[c] = "reap"
  /\ proc' = [proc EXCEPT ![c] = Kill(@)]
  /\ \E failed \in IF proc[c] = "dying" /\ inJob[c] THEN BOOLEAN ELSE {FALSE} :
       cleanupFailed' = [cleanupFailed EXCEPT ![c] = failed]
  /\ Go(c, "release")
  /\ UNCHANGED <<stage, cancel, handle, stop, job, inJob, mutex, kind>>

(* The guard, the mutex and the native event are closed; any may fail. *)
Release(c) ==
  /\ pc[c] = "release"
  /\ mutex' = mutex \ {c}
  /\ handle' = [handle EXCEPT ![c] = "none"]
  /\ \E failed \in BOOLEAN :
       cleanupFailed' = [cleanupFailed EXCEPT ![c] = @ \/ failed]
  /\ Go(c, "finish")
  /\ UNCHANGED <<stage, cancel, stop, job, proc, inJob, kind>>

(* Mutant: the kind of the last stage stands, cancelled or not. *)
ReportAsIs(c) ==
  /\ pc[c] = "finish"
  /\ kind' = [kind EXCEPT ![c] =
       IF cleanupFailed[c] THEN "RESOURCE_CLEANUP_FAILED" ELSE @]
  /\ Go(c, "done")
  /\ UNCHANGED <<stage, cancel, handle, stop, job, proc, inJob, mutex, cleanupFailed>>

(* The final kind, then the done event. *)
ReportEnd(c) ==
  /\ pc[c] = "finish"
  /\ kind' = [kind EXCEPT ![c] =
       IF cleanupFailed[c] THEN "RESOURCE_CLEANUP_FAILED"
                           ELSE IF cancel[c] THEN "CANCELLED" ELSE @]
  /\ Go(c, "done")
  /\ UNCHANGED <<stage, cancel, handle, stop, job, proc, inJob, mutex, cleanupFailed>>

(* The locals of _run go with its thread. *)
ThreadEnds(c) ==
  /\ pc[c] = "done"
  /\ Go(c, "off")
  /\ stage' = [stage EXCEPT ![c] = 1]
  /\ inJob' = [inJob EXCEPT ![c] = FALSE]
  /\ UNCHANGED <<cancel, handle, stop, job, proc, mutex, kind, cleanupFailed>>

Worker(c) ==
  \/ Migrate(c) \/ TakeMutex(c) \/ Probe(c) \/ Prepare(c) \/ NewJob(c)
  \/ Spawn(c) \/ Assign(c) \/ Permit(c) \/ Status(c) \/ Wait(c)
  \/ NextStage(c) \/ CloseJob(c) \/ Reap(c) \/ Release(c) \/ ReportEnd(c)
  \/ ThreadEnds(c)

-----------------------------------------------------------------------------
(* The processes and the operating system.                                 *)

(* The wrapper has read its permit and starts the tunnel client. *)
ClientStarts(c) ==
  /\ proc[c] = "permitted"
  /\ proc' = [proc EXCEPT ![c] = "tunnel"]
  /\ UNCHANGED <<pc, stage, cancel, handle, stop, job, inJob, mutex,
                 kind, cleanupFailed>>

(* The wrapper ends: with its client's exit code, or killed by others. *)
ProcessEnds(c) ==
  /\ proc[c] \in {"gated", "permitted", "tunnel"}
  /\ \E p \in IF proc[c] = "gated" THEN {"exit1"} ELSE {"exit0", "exit1"} :
       proc' = [proc EXCEPT ![c] = p]
  /\ UNCHANGED <<pc, stage, cancel, handle, stop, job, inJob, mutex,
                 kind, cleanupFailed>>

DeathCompletes(c) ==
  /\ proc[c] = "dying"
  /\ proc' = [proc EXCEPT ![c] = "dead"]
  /\ UNCHANGED <<pc, stage, cancel, handle, stop, job, inJob, mutex,
                 kind, cleanupFailed>>

(* The owning process is killed: the system closes its handles, the job    *)
(* takes its processes along, and a wrapper outside the job reads the end  *)
(* of its stdin instead of a permit.  A later process starts afresh.       *)
Crash(c) ==
  /\ pc[c] # "off" \/ cleanupFailed[c]
  /\ Go(c, "off")
  /\ proc' = [proc EXCEPT ![c] = IF inJob[c] \/ @ = "gated" THEN Kill(@) ELSE @]
  /\ job' = [job EXCEPT ![c] = FALSE]
  /\ mutex' = mutex \ {c}
  /\ handle' = [handle EXCEPT ![c] = "none"]
  /\ cancel' = [cancel EXCEPT ![c] = FALSE]
  /\ stop' = [stop EXCEPT ![c] = "no"]
  /\ kind' = [kind EXCEPT ![c] = "none"]
  /\ cleanupFailed' = [cleanupFailed EXCEPT ![c] = FALSE]
  /\ stage' = [stage EXCEPT ![c] = 1]
  /\ inJob' = [inJob EXCEPT ![c] = FALSE]

System(c) ==
  ClientStarts(c) \/ ProcessEnds(c) \/ DeathCompletes(c) \/ Crash(c)

Next == \E c \in Conns : Owner(c) \/ Worker(c) \/ System(c)

Spec == Init /\ [][Next]_vars

-----------------------------------------------------------------------------
(* Properties.                                                             *)

Live(c) == proc[c] \in {"permitted", "tunnel"}

(* A client can run only inside the job of a process that still holds it   *)
(* open: whatever step a crash, a failed assignment or a cancellation      *)
(* interrupts, nothing is left running that nobody manages.                *)
NoOrphanTunnel == \A c \in Conns : Live(c) => job[c] /\ inJob[c]

(* The mutex and the order of the finally block: no two connections of a   *)
(* session have a client at the same time.                                 *)
OneTunnel == \A c, d \in Conns : Live(c) /\ Live(d) => c = d

(* Once stop() has returned, this run never has a client again, even when  *)
(* the call fell between the worker's checks of cancel and the permit.     *)
StopIsFinal == \A c \in Conns : stop[c] = "returned" => ~Live(c)

(* The worker overwrites error_kind at every stage; still, a run that was  *)
(* stopped never ends with a kind the desktop would retry.                 *)
StoppedIsNotRetried ==
  \A c \in Conns : /\ stop[c] \in {"marked", "returned", "failed"}
                   /\ pc[c] \in {"done", "off"}
                   => kind[c] # "RETRYABLE"

(* One tunnel per session, as an abstract pool with a single slot. *)
Session == INSTANCE SlotPool WITH Users <- Conns, Limit <- 1,
                                  inUse <- {c \in Conns : Live(c)}
ImplementsOneTunnel == Session!Spec
=============================================================================
