------------------------------ MODULE Sessions ------------------------------
(***************************************************************************)
(* mcp_local/control_sessions.py: the command sessions of a control mode   *)
(* (class Sessions, and its subclasses in host_control.py and              *)
(* developer_control.py, which differ in the process they start and in     *)
(* MAX_ACTIVE).                                                            *)
(*                                                                         *)
(* Tool calls run on the worker threads of OperationBudget, the closing of *)
(* the service on a thread of its own, and each session has a monitor      *)
(* thread.  They share the table under one lock and each session's process *)
(* under its io_lock, and wait for the session's done event with neither   *)
(* or, in start and close, with the first.  Stopping a process, and        *)
(* removing what it leaves, may fail.                                      *)
(***************************************************************************)
EXTENDS Integers, FiniteSets

CONSTANTS
  Clients,     \* tool calls at a time
  Service,     \* the thread that closes the service
  Ids,         \* identities of sessions, used again when nothing knows them
  MaxSessions, \* MAX_SESSIONS
  MaxActive,   \* MAX_ACTIVE, or 1 for the virtual machine
  None

ASSUME Limits == MaxSessions \in Nat /\ MaxActive \in Nat
ASSUME FiniteIds == IsFiniteSet(Ids)
ASSUME ServiceIsOther == Service \notin Clients /\ None \notin Clients \cup {Service}

Actors == Clients \cup {Service}

VARIABLES
  table,   \* keys of Sessions.sessions
  closed,  \* Sessions.closed
  lock,    \* owner of Sessions.lock
  session, \* each Session with its Sandbox and its monitor thread
  io,      \* owner of each io_lock, while it is held over several steps
  call,    \* the call of each actor
  tried,   \* sessions that close has attempted
  stuck,   \* history variable: sessions that once could not be stopped
  lost     \* history variable: sandboxes that start could not take back

vars == <<table, closed, lock, session, io, call, tried, stuck, lost>>

Fresh == [proc |-> "none", closed |-> FALSE, done |-> FALSE,
          monitor |-> "none"]
Idle == [op |-> "none", at |-> "idle", s |-> None]

Alive(s) == session[s].proc \in {"running", "exited"}

Places ==
  [proc : {"none", "running", "exited", "dead", "kept", "released"}, closed : BOOLEAN, done : BOOLEAN,
   monitor : {"none", "loop", "join", "failed", "end", "over"}]
CallPlaces ==
  [op : {"none", "start", "interact", "terminate", "export", "close_session", "close"},
   at : {"idle", "sweep", "io", "stop", "wait", "release", "delete"}, s : Ids \cup {None}]

TypeOK ==
  /\ table \subseteq Ids /\ closed \in BOOLEAN
  /\ lock \in Actors \cup {None}
  /\ session \in [Ids -> Places]
  /\ io \in [Ids -> Clients \cup {None}]
  /\ call \in [Actors -> CallPlaces]
  /\ tried \subseteq Ids /\ stuck \subseteq Ids /\ lost \subseteq Ids
  /\ \A a \in Actors : lock = a <=> call[a].op \in {"start", "close"}
  /\ \A s \in Ids : io[s] # None => call[io[s]].s = s /\ call[io[s]].at = "wait"

Init ==
  /\ table = {} /\ closed = FALSE /\ lock = None
  /\ session = [s \in Ids |-> Fresh]
  /\ io = [s \in Ids |-> None]
  /\ call = [a \in Actors |-> Idle]
  /\ tried = {} /\ stuck = {} /\ lost = {}

-----------------------------------------------------------------------------
(* The process.                                                            *)

(* The command ends by itself; its descendants may live on. *)
ProcessExits(s) ==
  /\ session[s].proc = "running"
  /\ session' = [session EXCEPT ![s].proc = "exited"]
  /\ UNCHANGED <<table, closed, lock, io, call, tried, stuck, lost>>

(* Sandbox.stop ends the whole job, or raises and leaves it as it is; it   *)
(* has nothing to do when the job has ended.                               *)
Stop(s, ok) == IF ok THEN UNCHANGED stuck
                     ELSE Alive(s) /\ stuck' = stuck \cup {s}
After(s, ok) == IF ok /\ Alive(s) THEN [session[s] EXCEPT !.proc = "dead"]
                                  ELSE session[s]

-----------------------------------------------------------------------------
(* The monitor thread of a session.                                        *)

Monitor(s, from, to) ==
  /\ session[s].monitor = from
  /\ session' = [session EXCEPT ![s].monitor = to]

StopAndMonitor(s, to) ==
  \E ok \in BOOLEAN :
    /\ Stop(s, ok)
    /\ session' = [session EXCEPT ![s] =
         [After(s, ok) EXCEPT !.monitor = IF ok THEN to ELSE "failed"]]

(* One turn of the loop, under the io_lock: leave a closed session alone,  *)
(* stop what a command that has ended left behind, enforce the limits.     *)
LookClosed(s) ==
  /\ session[s].closed
  /\ Monitor(s, "loop", "end")
  /\ UNCHANGED stuck

(* Mutant: the job is not stopped when its command has ended. *)
LookEndedOnly(s) ==
  /\ ~session[s].closed /\ session[s].proc # "running"
  /\ Monitor(s, "loop", "join")
  /\ UNCHANGED stuck

LookEnded(s) ==
  /\ ~session[s].closed /\ session[s].proc # "running"
  /\ StopAndMonitor(s, "join")

(* The lifetime is over, sooner or later, or the storage has grown. *)
LookLimit(s) ==
  /\ ~session[s].closed /\ session[s].proc = "running"
  /\ StopAndMonitor(s, "loop")

Look(s) ==
  /\ session[s].monitor = "loop"
  /\ io[s] = None
  /\ LookClosed(s) \/ LookEnded(s) \/ LookLimit(s)
  /\ UNCHANGED <<table, closed, lock, io, call, tried, lost>>

(* drain.join, at most three seconds. *)
Join(s) ==
  /\ Monitor(s, "join", "end")
  /\ UNCHANGED <<table, closed, lock, io, call, tried, stuck, lost>>

(* Mutant: a second failure ends the thread without its last statement. *)
FailForGood(s) ==
  /\ session[s].monitor = "failed" /\ io[s] = None
  /\ \E ok \in BOOLEAN :
       /\ Stop(s, ok)
       /\ session' = [session EXCEPT ![s] =
            [After(s, ok) EXCEPT !.monitor = IF ok THEN "end" ELSE "over"]]
  /\ UNCHANGED <<table, closed, lock, io, call, tried, lost>>

(* The except branch stops once more, unless the session is closed (and so *)
(* stopped); whatever comes of it, the thread reaches its last statement.  *)
Fail(s) ==
  /\ session[s].monitor = "failed" /\ io[s] = None
  /\ \E ok \in BOOLEAN :
       /\ Stop(s, ok)
       /\ session' = [session EXCEPT ![s] = [After(s, ok) EXCEPT !.monitor = "end"]]
  /\ UNCHANGED <<table, closed, lock, io, call, tried, lost>>

Ends(s) ==
  /\ session[s].monitor = "end"
  /\ session' = [session EXCEPT ![s].monitor = "over", ![s].done = TRUE]
  /\ UNCHANGED <<table, closed, lock, io, call, tried, stuck, lost>>

MonitorThread(s) == Look(s) \/ Join(s) \/ Fail(s) \/ Ends(s)

-----------------------------------------------------------------------------
(* Tool calls.  Sessions.get finds the session under the lock.             *)

Go(a, at)    == call' = [call EXCEPT ![a].at = at]
Return(a)    == call' = [call EXCEPT ![a] = Idle]
FreeFor(a)   == lock \in {None, a}

Get(a, op, s) ==
  /\ call[a].at = "idle"
  /\ lock = None
  /\ ~closed /\ s \in table
  /\ call' = [call EXCEPT ![a] =
                [op |-> op, at |-> IF op = "close_session" THEN "stop" ELSE "io", s |-> s]]
  /\ UNCHANGED <<table, closed, lock, session, io, tried, stuck, lost>>

Enter(a, op) ==
  /\ call[a].op = op /\ call[a].at = "io"
  /\ io[call[a].s] = None

(* interact: a thread writes while the io_lock is held, two seconds long,  *)
(* unless the session has ended or an earlier call has closed the input.   *)
Write(a) ==
  LET s == call[a].s
  IN /\ Enter(a, "interact")
     /\ \/ Return(a) /\ UNCHANGED io
        \/ /\ ~session[s].closed /\ ~session[s].done
           /\ Go(a, "wait")
           /\ io' = [io EXCEPT ![s] = a]
     /\ UNCHANGED <<table, closed, lock, session, tried, stuck, lost>>

Written(a) ==
  /\ call[a].op = "interact" /\ call[a].at = "wait"
  /\ Return(a) /\ io' = [io EXCEPT ![call[a].s] = None]
  /\ UNCHANGED <<table, closed, lock, session, tried, stuck, lost>>

WriteTimeout(a) ==
  LET s == call[a].s
  IN /\ call[a].op = "interact" /\ call[a].at = "wait"
     /\ Return(a) /\ io' = [io EXCEPT ![s] = None]
     /\ \E ok \in BOOLEAN : /\ Stop(s, ok)
                            /\ session' = [session EXCEPT ![s] = After(s, ok)]
     /\ UNCHANGED <<table, closed, lock, tried, lost>>

Terminate(a) ==
  LET s == call[a].s
  IN /\ Enter(a, "terminate")
     /\ Return(a)
     /\ IF session[s].closed
          THEN UNCHANGED <<session, stuck>>
          ELSE \E ok \in BOOLEAN :
                 Stop(s, ok) /\ session' = [session EXCEPT ![s] = After(s, ok)]
     /\ UNCHANGED <<table, closed, lock, io, tried, lost>>

(* Mutant: a session that is done is taken to be stopped. *)
ExportDone(a) ==
  LET s == call[a].s
  IN /\ Enter(a, "export")
     /\ IF session[s].closed \/ ~session[s].done
          THEN Return(a) /\ UNCHANGED io
          ELSE Go(a, "wait") /\ io' = [io EXCEPT ![s] = a]
     /\ UNCHANGED <<table, closed, lock, session, tried, stuck, lost>>

(* export copies from the sandbox under the io_lock, once it is stopped. *)
Export(a) ==
  LET s == call[a].s
  IN /\ Enter(a, "export")
     /\ IF session[s].closed \/ ~session[s].done
          THEN Return(a) /\ UNCHANGED <<session, io, stuck>>
          ELSE \E ok \in BOOLEAN :
                 /\ Stop(s, ok)
                 /\ session' = [session EXCEPT ![s] = After(s, ok)]
                 /\ IF ok THEN Go(a, "wait") /\ io' = [io EXCEPT ![s] = a]
                          ELSE Return(a) /\ UNCHANGED io
     /\ UNCHANGED <<table, closed, lock, tried, lost>>

Exported(a) ==
  /\ call[a].op = "export" /\ call[a].at = "wait"
  /\ Return(a) /\ io' = [io EXCEPT ![call[a].s] = None]
  /\ UNCHANGED <<table, closed, lock, session, tried, stuck, lost>>

-----------------------------------------------------------------------------
(* close_session: a call of its own, or part of start and of close, which  *)
(* have the lock meanwhile.                                                *)

(* What its exception does: start fails, close goes on with the next.      *)
Raise(a) ==
  IF call[a].op = "close"
    THEN Go(a, "sweep") /\ UNCHANGED lock
    ELSE /\ Return(a)
         /\ lock' = IF lock = a THEN None ELSE lock

CloseStop(a) ==
  LET s == call[a].s
  IN /\ call[a].at = "stop" /\ io[s] = None
     /\ \E ok \in BOOLEAN :
          /\ Stop(s, ok)
          /\ session' = [session EXCEPT ![s] = [After(s, ok) EXCEPT !.closed = ok \/ @]]
          /\ IF ok THEN Go(a, "release") /\ UNCHANGED lock ELSE Raise(a)
     /\ UNCHANGED <<table, closed, io, tried, lost>>

(* Mutant: a failure of the clean-up is not noticed. *)
CloseReleaseQuietly(a) ==
  LET s == call[a].s
  IN /\ call[a].at = "release" /\ io[s] = None
     /\ Go(a, "delete")
     /\ session' \in {[session EXCEPT ![s].proc = p] : p \in {"kept", "released"}}
     /\ UNCHANGED <<table, closed, lock, io, tried, stuck, lost>>

(* done has been set, or has been waited for long enough.  Sandbox.close   *)
(* removes the profile, which may fail; a second one has nothing to do.    *)
CloseRelease(a) ==
  LET s == call[a].s
  IN /\ call[a].at = "release" /\ io[s] = None
     /\ \/ /\ session' = [session EXCEPT ![s].proc = "released"]
           /\ Go(a, "delete")
           /\ UNCHANGED lock
        \/ /\ session[s].proc # "released"
           /\ session' = [session EXCEPT ![s].proc = "kept"]
           /\ Raise(a)
     /\ UNCHANGED <<table, closed, io, tried, stuck, lost>>

(* The entry is gone already when two calls close one session. *)
CloseDelete(a) ==
  LET s == call[a].s
  IN /\ call[a].at = "delete" /\ FreeFor(a)
     /\ table' = table \ {s}
     /\ IF s \in table /\ call[a].op = "start" THEN Go(a, "sweep") /\ UNCHANGED lock
                                               ELSE Raise(a)
     /\ UNCHANGED <<closed, session, io, tried, stuck, lost>>

CloseSession(a) == CloseStop(a) \/ CloseRelease(a) \/ CloseDelete(a)

-----------------------------------------------------------------------------
(* start.                                                                  *)

Start(a) ==
  /\ call[a].at = "idle"
  /\ lock = None
  /\ ~closed
  /\ lock' = a
  /\ call' = [call EXCEPT ![a] = [op |-> "start", at |-> "sweep", s |-> None]]
  /\ UNCHANGED <<table, closed, session, io, tried, stuck, lost>>

(* Sessions that ended long ago are closed first. *)
Expire(a, s) ==
  /\ call[a].op = "start" /\ call[a].at = "sweep"
  /\ s \in table /\ session[s].done
  /\ call' = [call EXCEPT ![a] = [@ EXCEPT !.at = "stop", !.s = s]]
  /\ UNCHANGED <<table, closed, lock, session, io, tried, stuck, lost>>

Full == \/ Cardinality(table) >= MaxSessions
        \/ Cardinality({s \in table : ~session[s].done}) >= MaxActive

(* Identities are never drawn twice: one is used again only when no call   *)
(* and no monitor knows it any more.                                       *)
Unknown(s) ==
  /\ s \notin table \cup lost
  /\ session[s].monitor \in {"none", "over"}
  /\ \A a \in Actors : call[a].s # s

(* The sandbox is created, or not: what has been created is then taken     *)
(* back, which may fail as well.                                           *)
Create(a) ==
  /\ call[a].op = "start" /\ call[a].at = "sweep"
  /\ Return(a) /\ lock' = None
  /\ \/ Full /\ UNCHANGED <<table, session, stuck, lost>>
     \/ /\ ~Full
        /\ \/ UNCHANGED <<table, session, stuck, lost>>
           \/ \E s \in {i \in Ids : Unknown(i)} :
                \/ /\ table' = table \cup {s}
                   /\ session' = [session EXCEPT ![s] = [Fresh EXCEPT !.proc = "running",
                                                                     !.monitor = "loop"]]
                   /\ stuck' = stuck \ {s}
                   /\ UNCHANGED lost
                \/ /\ \E left \in {"running", "kept"} :
                        session' = [session EXCEPT ![s] = [Fresh EXCEPT !.proc = left]]
                   /\ lost' = lost \cup {s}
                   /\ UNCHANGED <<table, stuck>>
  /\ UNCHANGED <<closed, io, tried>>

-----------------------------------------------------------------------------
(* close, when the service ends.                                           *)

Close ==
  /\ call[Service].at = "idle"
  /\ ~closed
  /\ lock = None
  /\ lock' = Service
  /\ call' = [call EXCEPT ![Service] = [op |-> "close", at |-> "sweep", s |-> None]]
  /\ UNCHANGED <<table, closed, session, io, tried, stuck, lost>>

CloseNext(s) ==
  /\ call[Service].at = "sweep"
  /\ s \in table \ tried
  /\ tried' = tried \cup {s}
  /\ call' = [call EXCEPT ![Service] = [@ EXCEPT !.at = "stop", !.s = s]]
  /\ UNCHANGED <<table, closed, lock, session, io, stuck, lost>>

CloseEnds ==
  /\ call[Service].at = "sweep"
  /\ table \subseteq tried
  /\ closed' = TRUE
  /\ Return(Service) /\ lock' = None
  /\ UNCHANGED <<table, session, io, tried, stuck, lost>>

-----------------------------------------------------------------------------
Closing == (\E s \in Ids : CloseNext(s)) \/ CloseEnds \/ CloseSession(Service)

ServiceThread == Close \/ Closing

(* What goes on by itself in a tool call. *)
Proceed(a) ==
  \/ Write(a) \/ WriteTimeout(a) \/ Terminate(a) \/ Export(a) \/ Exported(a)
  \/ CloseSession(a) \/ Create(a)

Client(a) ==
  \/ \E s \in Ids : \/ \E op \in {"interact", "terminate", "export", "close_session"} :
                         Get(a, op, s)
                    \/ Expire(a, s)
  \/ Start(a) \/ Written(a) \/ Proceed(a)

Next ==
  \/ \E s \in Ids : ProcessExits(s) \/ MonitorThread(s)
  \/ \E a \in Clients : Client(a)
  \/ ServiceThread

Spec == Init /\ [][Next]_vars

(* Threads run, clocks go on, and no thread is kept from a lock for ever.  *)
(* Commands need not end or read, and nobody need call anything.           *)
Fairness ==
  /\ \A s \in Ids : SF_vars(MonitorThread(s))
  /\ \A a \in Clients : SF_vars(Proceed(a))
  /\ SF_vars(Closing)

FairSpec == Spec /\ Fairness

-----------------------------------------------------------------------------
(* Properties.                                                             *)

(* No sandbox gets out of sight: what is no longer in the table has no     *)
(* process, no handle and no profile left, however calls that close the    *)
(* same session overlap and whichever step of theirs fails; and once the   *)
(* service is closed, a process is alive only if it could not be stopped.  *)
RemovedIsReleased ==
  /\ \A s \in Ids \ (table \cup lost) : session[s].proc \in {"none", "released"}
  /\ closed => \A s \in Ids : Alive(s) => s \in stuck \cup lost

(* At most MAX_ACTIVE sessions run, counting descendants that outlive      *)
(* their command; only a process that could not be stopped is not counted. *)
ActiveLimit ==
  Cardinality({s \in table : Alive(s) /\ s \notin stuck}) <= MaxActive

(* While a file is exported nothing writes in the sandbox, and the sandbox *)
(* is still there.                                                         *)
QuietExport ==
  \A a \in Clients : call[a].op = "export" /\ call[a].at = "wait" =>
    session[call[a].s].proc = "dead"

(* Every session is done in the end, even if its command never ends and    *)
(* cannot be stopped: it does not count as active for ever.  And every     *)
(* call returns: the lock, the io_locks and the done event are never       *)
(* waited for in a circle, nor a command that does not read its input.     *)
SessionEnds ==
  /\ \A s \in Ids : s \in table ~> (session[s].done \/ s \notin table)
  /\ \A a \in Actors : call[a].at # "idle" ~> call[a].at = "idle"
=============================================================================
