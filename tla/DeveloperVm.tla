----------------------------- MODULE DeveloperVm ----------------------------
(***************************************************************************)
(* The virtual machine of developer control: VMProcess of developer_vm.py  *)
(* runs one command in a machine, and a guard process of its own           *)
(* (developer_vm_guard.py) starts and stops the machine over the command   *)
(* line of Windows Sandbox.  GuardOwner and GuardClient                    *)
(* (developer_vm_client.py) are its two pipes: while the owner's is open   *)
(* the guard serves, afterwards it stops the machine and ends.  The guard  *)
(* belongs to the connection, or to the one run if there is none.          *)
(***************************************************************************)
EXTENDS Integers, Sequences

CONSTANTS MaxRuns,    \* bound: runs, one after the other
          MaxFaults   \* bound: failing calls of the command line, and timeouts
Runs == 1..MaxRuns
ASSUME BoundsAssumption == MaxRuns \in Nat \ {0} /\ MaxFaults \in Nat

VARIABLES
  shared,  \* whether the guard belongs to the connection
  on,      \* the runs whose machine is running
  other,   \* a sandbox that the user started
  guard,   \* each guard process
  run,     \* each VMProcess with its thread
  app,     \* the connection: "open", "closing", "confirmed", "unconfirmed"
  faults
vmVars == <<shared, on, other, guard, run, app, faults>>

GuardOf(r) == IF shared THEN 1 ELSE r

(* id: the run whose machine the guard answers for, or 0. *)
NoGuard == [at |-> "none", job |-> "none", id |-> 0, inbox |-> <<>>, owner |-> FALSE]
NewGuard == [NoGuard EXCEPT !.at = "idle", !.owner = TRUE]
NoRun == [at |-> "idle", cancelled |-> FALSE, open |-> FALSE, vm |-> FALSE, answered |-> FALSE,
          error |-> "none", replies |-> <<>>, stop |-> "none"]

GuardPlaces == {"none", "idle", "list", "launch", "check", "stop", "command", "verify", "over", "failed"}
RunPlaces == {"idle", "connected", "starting", "polling", "stopping", "again", "closing", "awaiting",
              "finished", "killed"}
Jobs == {"none", "start", "stop", "disconnect", "lost", "final"}
Messages == {"start", "stop", "disconnect"} \X Runs
Guards == [at : GuardPlaces, job : Jobs, id : {0} \cup Runs, inbox : Seq(Messages), owner : BOOLEAN]
RunStates ==
  [at : RunPlaces, cancelled : BOOLEAN, open : BOOLEAN, vm : BOOLEAN, answered : BOOLEAN,
   error : {"none", "failed", "unconfirmed"}, replies : Seq(BOOLEAN),
   stop : {"none", "waiting", "ok", "unconfirmed"}]

VmTypeOK ==
  /\ shared \in BOOLEAN /\ on \subseteq Runs /\ other \in BOOLEAN /\ faults \in 0..MaxFaults
  /\ guard \in [Runs -> Guards] /\ run \in [Runs -> RunStates]
  /\ app \in {"open", "closing", "confirmed", "unconfirmed"}

VmInit ==
  /\ shared \in BOOLEAN /\ on = {} /\ other \in BOOLEAN /\ faults = 0 /\ app = "open"
  /\ run = [r \in Runs |-> NoRun]
  /\ guard = [g \in Runs |-> IF shared /\ g = 1 THEN NewGuard ELSE NoGuard]

Fault == faults < MaxFaults /\ faults' = faults + 1
NoFault == UNCHANGED faults
Living(g) == guard[g].at \notin {"none", "over", "failed"}

-----------------------------------------------------------------------------
(* The guard process *)

GuardTo(g, to) == guard' = [guard EXCEPT ![g] = to]
Client(g) == guard[g].inbox[1][2]

(* serve: the next message; once the owner's pipe is closed, the end. *)
Take(g) ==
  LET d == guard[g]
  IN /\ d.at = "idle" /\ (~d.owner \/ d.inbox # <<>>)
     /\ IF ~d.owner THEN GuardTo(g, [d EXCEPT !.at = "stop", !.job = "final"])
        ELSE GuardTo(g, [d EXCEPT !.job = Head(d.inbox)[1],
                           !.at = IF Head(d.inbox)[1] = "start" THEN "list" ELSE "stop"])
     /\ UNCHANGED <<shared, on, other, run, app, faults>>

(* The answer to a start or stop; if the client has gone, the machine is   *)
(* stopped.  d is the guard as the call leaves it.                         *)
Answer(g, d, ok) ==
  LET r == Client(g)
  IN IF run[r].open
     THEN /\ GuardTo(g, [d EXCEPT !.at = "idle", !.job = "none", !.inbox = Tail(@)])
          /\ run' = [run EXCEPT ![r].replies = Append(@, ok)]
     ELSE GuardTo(g, [d EXCEPT !.at = "stop", !.job = "lost"]) /\ UNCHANGED run

(* Lifecycle.start: no sandbox may run, *)
List(g) ==
  LET d == guard[g]
  IN /\ d.at = "list"
     /\ \/ /\ d.id = 0 /\ on = {} /\ ~other /\ NoFault /\ UNCHANGED run
           /\ GuardTo(g, [d EXCEPT !.at = "launch", !.id = Client(g)])
        \/ (d.id # 0 \/ on # {} \/ other) /\ NoFault /\ Answer(g, d, FALSE)
        \/ Fault /\ Answer(g, d, FALSE)
     /\ UNCHANGED <<shared, on, other, app>>

(* the machine is started under the new identifier; a call that fails may  *)
(* have started it as well;                                                *)
Launch(g) ==
  LET d == guard[g]
  IN /\ d.at = "launch"
     /\ \/ /\ on = {} /\ ~other /\ on' = {d.id} /\ NoFault
           /\ GuardTo(g, [d EXCEPT !.at = "check"]) /\ UNCHANGED run
        \/ /\ on' \in {on, IF on = {} /\ ~other THEN {d.id} ELSE on}
           /\ IF on = {} /\ ~other THEN Fault ELSE NoFault
           /\ Answer(g, d, FALSE)
     /\ UNCHANGED <<shared, other, app>>

(* a cancelled start is stopped again; the window may fail to connect.     *)
CheckStarted(g) ==
  LET d == guard[g]
  IN /\ d.at = "check"
     /\ \/ d.owner /\ NoFault /\ Answer(g, d, TRUE)
        \/ d.owner /\ Fault /\ Answer(g, d, FALSE)
        \/ ~d.owner /\ NoFault /\ GuardTo(g, [d EXCEPT !.at = "stop"]) /\ UNCHANGED run
     /\ UNCHANGED <<shared, on, other, app>>

(* How the guard goes on after Lifecycle.stop has returned or raised. *)
Stopped(g, d) ==
  CASE d.job = "start" -> Answer(g, d, FALSE)
    [] d.job = "stop" -> Answer(g, d, TRUE)
    [] d.job \in {"disconnect", "lost"} ->
         GuardTo(g, [d EXCEPT !.at = "idle", !.job = "none", !.inbox = Tail(@)]) /\ UNCHANGED run
    [] d.job = "final" -> GuardTo(g, [d EXCEPT !.at = "over"]) /\ UNCHANGED run
(* Mutant: a failed final stop ends the guard like a good one. *)
RaisedQuietly(g, d) ==
  CASE d.job \in {"start", "stop"} -> Answer(g, d, FALSE)
    [] d.job = "disconnect" ->
         GuardTo(g, [d EXCEPT !.at = "idle", !.job = "none", !.inbox = Tail(@)]) /\ UNCHANGED run
    [] d.job = "lost" -> GuardTo(g, [d EXCEPT !.at = "stop", !.job = "final"]) /\ UNCHANGED run
    [] d.job = "final" -> GuardTo(g, [d EXCEPT !.at = "over"]) /\ UNCHANGED run

Raised(g, d) ==
  CASE d.job \in {"start", "stop"} -> Answer(g, d, FALSE)
    [] d.job = "disconnect" ->
         GuardTo(g, [d EXCEPT !.at = "idle", !.job = "none", !.inbox = Tail(@)]) /\ UNCHANGED run
    [] d.job = "lost" -> GuardTo(g, [d EXCEPT !.at = "stop", !.job = "final"]) /\ UNCHANGED run
    [] d.job = "final" -> GuardTo(g, [d EXCEPT !.at = "failed"]) /\ UNCHANGED run

(* Lifecycle.stop: a machine that is listed is told to stop, *)
StopListed(g) ==
  LET d == guard[g]
  IN /\ d.at = "stop"
     /\ \/ d.id = 0 /\ NoFault /\ Stopped(g, d)
        \/ /\ d.id # 0 /\ NoFault /\ UNCHANGED run
           /\ GuardTo(g, [d EXCEPT !.at = IF d.id \in on THEN "command" ELSE "verify"])
        \/ d.id # 0 /\ Fault /\ Raised(g, d)
     /\ UNCHANGED <<shared, on, other, app>>
(* Mutant: the machine is forgotten once it has been told to stop. *)
StopCommandForgets(g) ==
  LET d == guard[g]
  IN /\ d.at = "command"
     /\ \/ on' = on \ {d.id} /\ NoFault /\ Stopped(g, [d EXCEPT !.id = 0])
        \/ on' = on /\ Fault /\ Stopped(g, [d EXCEPT !.id = 0])
        \/ on' \in {on, on \ {d.id}} /\ Fault /\ Raised(g, d)
     /\ UNCHANGED <<shared, other, app>>

StopCommand(g) ==
  LET d == guard[g]
  IN /\ d.at = "command"
     /\ \/ on' = on \ {d.id} /\ NoFault /\ GuardTo(g, [d EXCEPT !.at = "verify"]) /\ UNCHANGED run
        \/ on' = on /\ Fault /\ GuardTo(g, [d EXCEPT !.at = "verify"]) /\ UNCHANGED run
        \/ on' \in {on, on \ {d.id}} /\ Fault /\ Raised(g, d)
     /\ UNCHANGED <<shared, other, app>>

(* and forgotten only when it is not listed any more; the window may still *)
(* fail to close.                                                          *)
Forgotten(d) == [d EXCEPT !.id = 0]
Verify(g) ==
  LET d == guard[g]
  IN /\ d.at = "verify"
     /\ \/ d.id \notin on /\ NoFault /\ Stopped(g, Forgotten(d))
        \/ d.id \notin on /\ Fault /\ Raised(g, Forgotten(d))
        \/ d.id \in on /\ NoFault /\ Raised(g, d)
        \/ Fault /\ Raised(g, d)
     /\ UNCHANGED <<shared, on, other, app>>

GuardStep(g) == Take(g) \/ List(g) \/ Launch(g) \/ CheckStarted(g) \/ StopListed(g) \/ StopCommand(g)
                \/ Verify(g)

-----------------------------------------------------------------------------
(* VMProcess: one run *)

RunTo(r, to) == run' = [run EXCEPT ![r] = to]
Send(r, op) == guard' = [guard EXCEPT ![GuardOf(r)].inbox = Append(@, <<op, r>>)]
Fails(r) == [run[r] EXCEPT !.error = "failed"]

(* _run: the guard of the connection, or one of its own; a cancelled run   *)
(* leaves before the start.                                                *)
Connect(r) ==
  LET g == GuardOf(r)
  IN /\ run[r].at = "idle" /\ app = "open"
     /\ r > 1 => run[r - 1].at = "finished" /\ run[r - 1].stop = "ok"
     /\ IF shared /\ ~Living(g) THEN RunTo(r, [Fails(r) EXCEPT !.at = "finished"]) /\ UNCHANGED guard
        ELSE /\ RunTo(r, [run[r] EXCEPT !.at = "connected", !.open = TRUE])
             /\ IF shared THEN UNCHANGED guard ELSE GuardTo(g, NewGuard)
     /\ UNCHANGED <<shared, on, other, app, faults>>
Start(r) ==
  /\ run[r].at = "connected"
  /\ IF run[r].cancelled THEN RunTo(r, [run[r] EXCEPT !.at = "closing"]) /\ UNCHANGED guard
     ELSE RunTo(r, [run[r] EXCEPT !.at = "starting"]) /\ Send(r, "start")
  /\ UNCHANGED <<shared, on, other, app, faults>>

(* GuardClient.request: the next reply on the pipe, which need not be the  *)
(* one to this request; or none in time; or the guard has ended.           *)
Reply(r, ok, taken) ==
  \/ /\ run[r].replies # <<>> /\ taken = Tail(run[r].replies)
     /\ ok = Head(run[r].replies) /\ NoFault
  \/ taken = run[r].replies /\ ~ok /\ (IF Living(GuardOf(r)) THEN Fault ELSE taken = <<>> /\ NoFault)

Started(r) ==
  /\ run[r].at = "starting"
  /\ \E ok \in BOOLEAN, taken \in {run[r].replies, SubSeq(run[r].replies, 2, Len(run[r].replies))} :
       /\ Reply(r, ok, taken)
       /\ RunTo(r, IF ok THEN [run[r] EXCEPT !.at = "polling", !.vm = TRUE, !.answered = TRUE, !.replies = taken]
                   ELSE [Fails(r) EXCEPT !.at = "closing", !.replies = taken])
  /\ UNCHANGED <<shared, on, other, guard, app>>

(* Mutant: the guest is polled on when the run has been cancelled. *)
EndPollingByGuest(r) ==
  /\ run[r].at = "polling" /\ ~run[r].cancelled /\ Send(r, "stop")
  /\ \/ RunTo(r, [run[r] EXCEPT !.at = "stopping"])
     \/ RunTo(r, [Fails(r) EXCEPT !.at = "again"])
  /\ UNCHANGED <<shared, on, other, app, faults>>

(* The result, a cancellation, a limit or an error of protocol ends the    *)
(* polling of the guest: the machine is stopped, in the last two cases by  *)
(* the clean-up alone.                                                     *)
EndPolling(r) ==
  /\ run[r].at = "polling" /\ Send(r, "stop")
  /\ \/ RunTo(r, [run[r] EXCEPT !.at = "stopping"])
     \/ ~run[r].cancelled /\ RunTo(r, [Fails(r) EXCEPT !.at = "again"])
  /\ UNCHANGED <<shared, on, other, app, faults>>

(* A stop that is not confirmed is asked for once more by the clean-up; if *)
(* that fails too the pipes fall with the thread.                          *)
Hangs(r, d) == IF shared THEN d ELSE [d EXCEPT !.owner = FALSE]
StopAnswered(r) ==
  /\ run[r].at \in {"stopping", "again"}
  /\ \E ok \in BOOLEAN, taken \in {run[r].replies, SubSeq(run[r].replies, 2, Len(run[r].replies))} :
       /\ Reply(r, ok, taken)
       /\ \/ ok /\ RunTo(r, [run[r] EXCEPT !.at = "closing", !.vm = FALSE, !.replies = taken]) /\ UNCHANGED guard
          \/ /\ ~ok /\ run[r].at = "stopping" /\ Send(r, "stop")
             /\ RunTo(r, [Fails(r) EXCEPT !.at = "again", !.replies = taken])
          \/ /\ ~ok /\ run[r].at = "again"
             /\ RunTo(r, [run[r] EXCEPT !.at = "finished", !.error = "unconfirmed", !.open = FALSE, !.replies = <<>>])
             /\ GuardTo(GuardOf(r), Hangs(r, [guard[GuardOf(r)] EXCEPT !.inbox = Append(@, <<"disconnect", r>>)]))
  /\ UNCHANGED <<shared, on, other, app>>

(* client.close, and owner.close for a guard of the run's own. *)
CloseClient(r) ==
  /\ run[r].at = "closing"
  /\ RunTo(r, [run[r] EXCEPT !.at = IF shared THEN "finished" ELSE "awaiting", !.open = FALSE, !.replies = <<>>])
  /\ GuardTo(GuardOf(r), Hangs(r, [guard[GuardOf(r)] EXCEPT !.inbox = Append(@, <<"disconnect", r>>)]))
  /\ UNCHANGED <<shared, on, other, app, faults>>
CloseOwner(r) ==
  /\ run[r].at = "awaiting"
  /\ \/ guard[r].at = "over" /\ NoFault /\ RunTo(r, [run[r] EXCEPT !.at = "finished"])
     \/ /\ IF guard[r].at = "failed" THEN NoFault ELSE guard[r].at # "over" /\ Fault
        /\ RunTo(r, [run[r] EXCEPT !.at = "finished", !.error = "unconfirmed"])
  /\ UNCHANGED <<shared, on, other, guard, app>>

RunStep(r) == Start(r) \/ Started(r) \/ StopAnswered(r) \/ CloseClient(r) \/ CloseOwner(r)

(* stop(), by another thread: it cancels and waits for the end, for a      *)
(* bounded time; close() calls it again.                                   *)
CallStop(r) ==
  /\ run[r].at \notin {"idle", "killed"} /\ run[r].stop \in {"none", "unconfirmed"}
  /\ RunTo(r, [run[r] EXCEPT !.cancelled = TRUE, !.stop = "waiting"])
  /\ UNCHANGED <<shared, on, other, guard, app, faults>>
StopReturns(r) ==
  /\ run[r].stop = "waiting"
  /\ \/ run[r].at = "finished" /\ NoFault
     \/ run[r].at \notin {"finished", "killed"} /\ Fault
  /\ RunTo(r, [run[r] EXCEPT !.stop = IF run[r].at # "finished" \/ run[r].error = "unconfirmed"
                                      THEN "unconfirmed" ELSE "ok"])
  /\ UNCHANGED <<shared, on, other, guard, app>>

-----------------------------------------------------------------------------
(* The connection ends, or the interface dies: the service is killed with  *)
(* its job, and with it every run; the guard is outside the job.           *)
EndConnection ==
  /\ app = "open" /\ app' = "closing"
  /\ run' = [r \in Runs |-> IF run[r].at \in {"idle", "finished"} THEN run[r]
                            ELSE [run[r] EXCEPT !.at = "killed", !.open = FALSE, !.replies = <<>>]]
  /\ guard' = [g \in Runs |->
       [guard[g] EXCEPT !.owner = FALSE,
          !.inbox = IF \E r \in Runs : GuardOf(r) = g /\ run[r].open
                    THEN Append(@, <<"disconnect", CHOOSE r \in Runs : GuardOf(r) = g /\ run[r].open>>) ELSE @]]
  /\ UNCHANGED <<shared, on, other, faults>>

(* GuardOwner.close of the connection: only a proven stop counts. *)
Confirm ==
  /\ app = "closing" /\ shared
  /\ \/ guard[1].at = "over" /\ NoFault /\ app' = "confirmed"
     \/ /\ IF guard[1].at = "failed" THEN NoFault ELSE guard[1].at # "over" /\ Fault
        /\ app' = "unconfirmed"
  /\ UNCHANGED <<shared, on, other, guard, run>>

(* The user starts or closes a sandbox, the machine of a run as well. *)
User == \/ /\ on = {} /\ ~other /\ other' = TRUE /\ UNCHANGED on
        \/ other /\ other' = FALSE /\ UNCHANGED on
        \/ on # {} /\ on' = {} /\ UNCHANGED other
UserStep == User /\ UNCHANGED <<shared, guard, run, app, faults>>

VmNext ==
  \/ \E g \in Runs : GuardStep(g)
  \/ \E r \in Runs : Connect(r) \/ RunStep(r) \/ EndPolling(r) \/ CallStop(r) \/ StopReturns(r)
  \/ EndConnection \/ Confirm \/ UserStep

(* Every process and thread goes on; a cancelled run leaves its polling;   *)
(* nobody has to stop a run, and a guest need not answer.                  *)
VmFairness ==
  /\ \A g \in Runs : WF_vmVars(GuardStep(g))
  /\ \A r \in Runs : WF_vmVars(RunStep(r)) /\ WF_vmVars(run[r].cancelled /\ EndPolling(r))
  /\ WF_vmVars(Confirm)
VmSpec == VmInit /\ [][VmNext]_vmVars
FairVmSpec == VmSpec /\ VmFairness

-----------------------------------------------------------------------------
(* A machine that runs is known to its guard, whatever failed: ownership   *)
(* is given up only after the machine has been seen to be gone.            *)
OwnedUntilGone == \A r \in on : guard[GuardOf(r)].id = r

(* A stop that is reported as proven is proven.  A run that has ended      *)
(* without VM_STOP_UNCONFIRMED has no machine left, if the guard was its   *)
(* own or had answered its start; and the connection takes the word of its *)
(* guard, and may be started again, only when no machine is left.          *)
StopIsProof ==
  /\ \A r \in Runs :
       run[r].at = "finished" /\ run[r].error # "unconfirmed" /\ (~shared \/ run[r].answered) => r \notin on
  /\ app = "confirmed" => on = {}

(* A cancelled run comes to its end, and a guard whose owner has gone ends, *)
(* with or without the proof.                                               *)
VmEnds ==
  /\ \A r \in Runs : run[r].cancelled ~> (run[r].at \in {"finished", "killed"})
  /\ \A g \in Runs : (guard[g].at # "none" /\ ~guard[g].owner) ~> ~Living(g)
=============================================================================
