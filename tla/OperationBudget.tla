-------------------------- MODULE OperationBudget --------------------------
(***************************************************************************)
(* mcp_local/operation_budget.py: the work slots shared by every MCP tool. *)
(*                                                                         *)
(* `asynchronous` runs a tool as a coroutine on the event loop: it takes a *)
(* slot without waiting, hands `run` to a ThreadPoolExecutor and awaits    *)
(* the future.  `operation`, used by `bounded`, takes a slot for code that *)
(* runs on the calling thread, and nests for free inside a budget that is  *)
(* already ACTIVE.  The event loop, the pool threads and the calling       *)
(* threads interleave freely; a coroutine may be cancelled at every await. *)
(*                                                                         *)
(* Data abstracted: bytes, entries and the clock of a Budget become one    *)
(* flag, spent: some limit of the budget has been passed.                  *)
(***************************************************************************)
EXTENDS Integers, FiniteSets

CONSTANTS
  Calls,              \* identities of asynchronous tool calls
  Callers,            \* threads that enter `operation` directly
  Threads,            \* threads the executor may start
  MaxWorkers,         \* MAX_WORKERS
  MaxDepth,           \* bound on the nesting of `operation` in one caller
  None

ASSUME FiniteActors == IsFiniteSet(Calls) /\ IsFiniteSet(Callers)
ASSUME DisjointActors == /\ Calls \cap Callers = {}
                         /\ Threads \cap Callers = {}
                         /\ None \notin Calls \cup Callers
ASSUME MaxWorkersPositive == MaxWorkers \in Nat \ {0}
ASSUME MaxDepthPositive == MaxDepth \in Nat \ {0}

VARIABLES
  slots,     \* value of the BoundedSemaphore SLOTS
  call,      \* where the coroutine of each call is
  job,       \* where the `run` closure of each call is
  outcome,   \* what `run` produced
  cancelled, \* budget.cancel of each call
  spent,     \* a limit or the deadline of the budget has been passed
  pool,      \* pool threads started so far
  running,   \* the call each pool thread is executing
  active,    \* the context variable ACTIVE of each thread
  depth      \* nesting of `operation` in each caller

vars == <<slots, call, job, outcome, cancelled, spent, pool, running, active,
          depth>>


CallState == {"idle", "acquired", "awaiting", "ready", "cancelling", "woken",
              "returned", "raised"}
JobState  == {"none", "pending", "cancelled", "picked", "body", "checked",
              "closing", "released", "settled"}

TypeOK ==
  /\ slots \in 0 .. MaxWorkers
  /\ call \in [Calls -> CallState]
  /\ job \in [Calls -> JobState]
  /\ outcome \in [Calls -> {"none", "value", "error"}]
  /\ cancelled \in [Calls -> BOOLEAN]
  /\ spent \in [Calls \cup Callers -> BOOLEAN]
  /\ pool \subseteq Threads
  /\ running \in [Threads -> Calls \cup {None}]
  /\ active \in [Threads \cup Callers -> Calls \cup Callers \cup {None}]
  /\ depth \in [Callers -> 0 .. MaxDepth]

Init ==
  /\ slots = MaxWorkers
  /\ call = [c \in Calls |-> "idle"]
  /\ job = [c \in Calls |-> "none"]
  /\ outcome = [c \in Calls |-> "none"]
  /\ cancelled = [c \in Calls |-> FALSE]
  /\ spent = [b \in Calls \cup Callers |-> FALSE]
  /\ pool = {}
  /\ running = [t \in Threads |-> None]
  /\ active = [t \in Threads \cup Callers |-> None]
  /\ depth = [p \in Callers |-> 0]

(* SLOTS.release(): a BoundedSemaphore refuses to exceed its initial value *)
(* by raising ValueError, and then stays as it is.                         *)
Released == IF slots < MaxWorkers THEN slots + 1 ELSE slots

(* Budget.check raises when this holds. *)
Exhausted(c) == cancelled[c] \/ spent[c]

-----------------------------------------------------------------------------
(* The coroutine, on the event loop.                                       *)

Acquire(c) ==
  /\ call[c] = "idle"
  /\ slots > 0
  /\ slots' = slots - 1
  /\ call' = [call EXCEPT ![c] = "acquired"]
  /\ UNCHANGED <<job, outcome, cancelled, spent, pool, running, active, depth>>

(* RESOURCE_BUSY: no slot, no waiting. *)
Refuse(c) ==
  /\ call[c] = "idle"
  /\ slots = 0
  /\ call' = [call EXCEPT ![c] = "raised"]
  /\ UNCHANGED <<slots, job, outcome, cancelled, spent, pool, running, active,
                 depth>>

Pending == {c \in Calls : job[c] = "pending"}
Idle    == {t \in pool : running[t] = None}

(* ThreadPoolExecutor starts a thread when no idle one is left for the new *)
(* item and it has not reached max_workers.                                *)
NeedsThread == /\ Cardinality(Idle) <= Cardinality(Pending)
               /\ pool # Threads

Submit(c) ==
  /\ call[c] = "acquired"
  /\ IF NeedsThread
       THEN \E t \in Threads \ pool : pool' = pool \cup {t}
       ELSE UNCHANGED pool
  /\ job' = [job EXCEPT ![c] = "pending"]
  /\ call' = [call EXCEPT ![c] = "awaiting"]
  /\ UNCHANGED <<slots, outcome, cancelled, spent, running, active, depth>>

(* submit raises: the executor is shut down, so nothing was queued.  (When *)
(* a thread cannot be started it raises too, with the item in the queue:   *)
(* not modelled.)                                                          *)
SubmitRefused(c) ==
  /\ call[c] = "acquired"
  /\ slots' = Released
  /\ call' = [call EXCEPT ![c] = "raised"]
  /\ UNCHANGED <<job, outcome, cancelled, spent, pool, running, active, depth>>

(* The result of the finished future reaches the loop. *)
Complete(c) ==
  /\ call[c] = "awaiting"
  /\ job[c] = "settled"
  /\ call' = [call EXCEPT ![c] = "ready"]
  /\ UNCHANGED <<slots, job, outcome, cancelled, spent, pool, running, active,
                 depth>>

(* The coroutine resumes with the result; an exception passes the handler, *)
(* which sets budget.cancel.                                               *)
Resume(c) ==
  /\ call[c] = "ready"
  /\ call' = [call EXCEPT ![c] = IF outcome[c] = "value" THEN "returned"
                                                         ELSE "raised"]
  /\ cancelled' = [cancelled EXCEPT ![c] = @ \/ outcome[c] # "value"]
  /\ UNCHANGED <<slots, job, outcome, spent, pool, running, active, depth>>

(* The client gives up: the task is cancelled while it waits, or after the *)
(* result came and before the coroutine ran again.                         *)
Cancel(c) ==
  /\ call[c] \in {"awaiting", "ready"}
  /\ call' = [call EXCEPT ![c] = IF @ = "awaiting" THEN "cancelling"
                                                   ELSE "woken"]
  /\ UNCHANGED <<slots, job, outcome, cancelled, spent, pool, running, active,
                 depth>>

(* The loop callback by which wrap_future cancels the executor's future:   *)
(* it succeeds only while no thread has taken the item.                    *)
ChainCancel(c) ==
  /\ call[c] = "cancelling"
  /\ call' = [call EXCEPT ![c] = "woken"]
  /\ job' = [job EXCEPT ![c] = IF @ = "pending" THEN "cancelled" ELSE @]
  /\ UNCHANGED <<slots, outcome, cancelled, spent, pool, running, active,
                 depth>>

(* Mutant: work that has not started is taken for work that never will. *)
UnwindUnstarted(c) ==
  /\ call[c] = "woken"
  /\ cancelled' = [cancelled EXCEPT ![c] = TRUE]
  /\ slots' = IF job[c] \in {"pending", "cancelled", "picked"} THEN Released
                                                               ELSE slots
  /\ call' = [call EXCEPT ![c] = "raised"]
  /\ UNCHANGED <<job, outcome, spent, pool, running, active, depth>>

(* Mutant: only work that has begun is told to stop. *)
UnwindBegun(c) ==
  /\ call[c] = "woken"
  /\ cancelled' = [cancelled EXCEPT ![c] = job[c] \notin {"pending", "cancelled", "picked"}]
  /\ slots' = IF job[c] = "cancelled" THEN Released ELSE slots
  /\ call' = [call EXCEPT ![c] = "raised"]
  /\ UNCHANGED <<job, outcome, spent, pool, running, active, depth>>

(* except BaseException: stop the work, and return the slot of work that   *)
(* will never start.                                                       *)
Unwind(c) ==
  /\ call[c] = "woken"
  /\ cancelled' = [cancelled EXCEPT ![c] = TRUE]
  /\ slots' = IF job[c] = "cancelled" THEN Released ELSE slots
  /\ call' = [call EXCEPT ![c] = "raised"]
  /\ UNCHANGED <<job, outcome, spent, pool, running, active, depth>>

(* The identity is reused for a later call once nothing of it is left. *)
Forget(c) ==
  /\ call[c] \in {"returned", "raised"}
  /\ job[c] \in {"none", "settled", "cancelled"}
  /\ call' = [call EXCEPT ![c] = "idle"]
  /\ job' = [job EXCEPT ![c] = "none"]
  /\ outcome' = [outcome EXCEPT ![c] = "none"]
  /\ cancelled' = [cancelled EXCEPT ![c] = FALSE]
  /\ spent' = [spent EXCEPT ![c] = FALSE]
  /\ UNCHANGED <<slots, pool, running, active, depth>>

-----------------------------------------------------------------------------
(* `run`, on a pool thread.                                                *)

Pick(t, c) ==
  /\ t \in pool
  /\ running[t] = None
  /\ job[c] = "pending"
  /\ running' = [running EXCEPT ![t] = c]
  /\ job' = [job EXCEPT ![c] = "picked"]
  /\ UNCHANGED <<slots, call, outcome, cancelled, spent, pool, active, depth>>

Begin(t, c) ==
  /\ running[t] = c
  /\ job[c] = "picked"
  /\ active' = [active EXCEPT ![t] = c]
  /\ job' = [job EXCEPT ![c] = IF Exhausted(c) THEN "closing" ELSE "body"]
  /\ outcome' = [outcome EXCEPT ![c] = IF Exhausted(c) THEN "error" ELSE @]
  /\ UNCHANGED <<slots, call, cancelled, spent, pool, running, depth>>

(* The tool raises, at a checkpoint of its own or otherwise, or returns    *)
(* and comes to the last checkpoint.                                       *)
EndBody(t, c) ==
  /\ running[t] = c
  /\ job[c] = "body"
  /\ \/ /\ job' = [job EXCEPT ![c] = "closing"]
        /\ outcome' = [outcome EXCEPT ![c] = "error"]
     \/ /\ ~Exhausted(c)
        /\ job' = [job EXCEPT ![c] = "checked"]
        /\ UNCHANGED outcome
  /\ UNCHANGED <<slots, call, cancelled, spent, pool, running, active, depth>>

(* ensure_output_limit: an output over the limit is an error.  What ends   *)
(* the budget from here on is not looked at any more.                      *)
LimitOutput(t, c) ==
  /\ running[t] = c
  /\ job[c] = "checked"
  /\ job' = [job EXCEPT ![c] = "closing"]
  /\ \E o \in {"value", "error"} : outcome' = [outcome EXCEPT ![c] = o]
  /\ UNCHANGED <<slots, call, cancelled, spent, pool, running, active, depth>>

(* Mutant: ACTIVE is not reset when the tool has failed. *)
CloseJobKeepsBudget(t, c) ==
  /\ running[t] = c
  /\ job[c] = "closing"
  /\ active' = IF outcome[c] = "error" THEN active
                                       ELSE [active EXCEPT ![t] = None]
  /\ slots' = Released
  /\ job' = [job EXCEPT ![c] = "released"]
  /\ UNCHANGED <<call, outcome, cancelled, spent, pool, running, depth>>

(* finally: ACTIVE.reset, SLOTS.release (whose ValueError would replace    *)
(* the result).                                                            *)
CloseJob(t, c) ==
  /\ running[t] = c
  /\ job[c] = "closing"
  /\ active' = [active EXCEPT ![t] = None]
  /\ slots' = Released
  /\ outcome' = [outcome EXCEPT ![c] = IF slots < MaxWorkers THEN @
                                                             ELSE "error"]
  /\ job' = [job EXCEPT ![c] = "released"]
  /\ UNCHANGED <<call, cancelled, spent, pool, running, depth>>

(* Mutant: a failure is not handed to the future. *)
SettleValues(t, c) ==
  /\ running[t] = c
  /\ job[c] = "released"
  /\ job' = [job EXCEPT ![c] = IF outcome[c] = "value" THEN "settled" ELSE @]
  /\ running' = [running EXCEPT ![t] = None]
  /\ UNCHANGED <<slots, call, outcome, cancelled, spent, pool, active, depth>>

(* The thread sets the future's result and looks for other work. *)
Settle(t, c) ==
  /\ running[t] = c
  /\ job[c] = "released"
  /\ job' = [job EXCEPT ![c] = "settled"]
  /\ running' = [running EXCEPT ![t] = None]
  /\ UNCHANGED <<slots, call, outcome, cancelled, spent, pool, active, depth>>

-----------------------------------------------------------------------------
(* `operation`, on the thread that calls it.                               *)

Enter(p) ==
  /\ active[p] = None
  /\ slots > 0
  /\ slots' = slots - 1
  /\ active' = [active EXCEPT ![p] = p]
  /\ depth' = [depth EXCEPT ![p] = 1]
  /\ UNCHANGED <<call, job, outcome, cancelled, spent, pool, running>>

Nest(p) ==
  /\ active[p] # None
  /\ ~spent[p]
  /\ depth[p] < MaxDepth
  /\ depth' = [depth EXCEPT ![p] = @ + 1]
  /\ UNCHANGED <<slots, call, job, outcome, cancelled, spent, pool, running,
                 active>>

LeaveNested(p) ==
  /\ depth[p] > 1
  /\ depth' = [depth EXCEPT ![p] = @ - 1]
  /\ UNCHANGED <<slots, call, job, outcome, cancelled, spent, pool, running,
                 active>>

Leave(p) ==
  /\ depth[p] = 1
  /\ depth' = [depth EXCEPT ![p] = 0]
  /\ active' = [active EXCEPT ![p] = None]
  /\ slots' = Released
  /\ spent' = [spent EXCEPT ![p] = FALSE]
  /\ UNCHANGED <<call, job, outcome, cancelled, pool, running>>

-----------------------------------------------------------------------------
(* The clock passes the deadline, or the work passes a limit. *)
Spend(b) ==
  /\ ~spent[b]
  /\ IF b \in Callers THEN depth[b] > 0
                      ELSE call[b] # "idle" /\ job[b] \in {"pending", "picked", "body", "checked"}
  /\ spent' = [spent EXCEPT ![b] = TRUE]
  /\ UNCHANGED <<slots, call, job, outcome, cancelled, pool, running, active,
                 depth>>

Coroutine(c) ==
  \/ Acquire(c) \/ Refuse(c) \/ Submit(c) \/ SubmitRefused(c)
  \/ Complete(c) \/ Resume(c) \/ Cancel(c)
  \/ ChainCancel(c) \/ Unwind(c) \/ Forget(c)

Worker(t, c) ==
  \/ Pick(t, c) \/ Begin(t, c) \/ EndBody(t, c) \/ LimitOutput(t, c)
  \/ CloseJob(t, c) \/ Settle(t, c)

Direct(p) == Enter(p) \/ Nest(p) \/ LeaveNested(p) \/ Leave(p)

Next ==
  \/ \E c \in Calls : Coroutine(c)
  \/ \E t \in Threads, c \in Calls : Worker(t, c)
  \/ \E p \in Callers : Direct(p)
  \/ \E b \in Calls \cup Callers : Spend(b)

Spec == Init /\ [][Next]_vars

(* The event loop runs every ready callback and every thread keeps running *)
(* its code: weak fairness of each step that is the program's own.  Pick   *)
(* is strongly fair because the executor's queue is first in, first out.   *)
(* A caller cannot nest for ever because its deadline passes (Spend).      *)
(* EndBody is fair because every tool passes checkpoints; a system call    *)
(* that blocks for ever is outside the model, as the module's docstring    *)
(* says it is outside the budget.                                          *)
Fairness ==
  /\ \A c \in Calls :
       /\ WF_vars(Submit(c) \/ SubmitRefused(c))
       /\ WF_vars(Complete(c)) /\ WF_vars(Resume(c))
       /\ WF_vars(ChainCancel(c)) /\ WF_vars(Unwind(c))
       /\ SF_vars(\E t \in Threads : Pick(t, c))
       /\ WF_vars(\E t \in Threads : Begin(t, c))
       /\ WF_vars(\E t \in Threads : EndBody(t, c))
       /\ WF_vars(\E t \in Threads : LimitOutput(t, c))
       /\ WF_vars(\E t \in Threads : CloseJob(t, c))
       /\ WF_vars(\E t \in Threads : Settle(t, c))
  /\ \A p \in Callers : WF_vars(LeaveNested(p) \/ Leave(p)) /\ WF_vars(Spend(p))

FairSpec == Spec /\ Fairness

-----------------------------------------------------------------------------
(* Properties.                                                             *)

(* Who has a slot out: a coroutine before it submits, its work until the   *)
(* finally block, a cancelled future until its coroutine unwinds, and a    *)
(* thread inside `operation`.                                              *)
HoldsSlot(c) == \/ call[c] = "acquired"
                \/ job[c] \in {"pending", "picked", "body", "checked", "closing"}
                \/ job[c] = "cancelled" /\ call[c] = "woken"

Holders == {c \in Calls : HoldsSlot(c)} \cup {p \in Callers : depth[p] > 0}

(* Every slot is either free or accounted for by exactly one holder: no    *)
(* interleaving of cancellation, completion and failure leaks a slot or    *)
(* returns it twice.                                                       *)
SlotsConserved == slots + Cardinality(Holders) = MaxWorkers

(* The budget a piece of code charges is its own: the body on a pool       *)
(* thread sees the Budget of its call, a caller's nested operations see    *)
(* the Budget of its outermost one, and nothing stays behind on a thread   *)
(* for the next call to inherit.                                           *)
BudgetIsOwn ==
  /\ \A t \in Threads :
       active[t] = IF /\ running[t] # None
                      /\ job[running[t]] \in {"body", "checked", "closing"}
                     THEN running[t] ELSE None
  /\ \A p \in Callers : active[p] = IF depth[p] > 0 THEN p ELSE None

(* Once the caller has its answer, or has given up, nothing is done for it *)
(* any more: its tool does not begin (a thread that had already taken the  *)
(* item finds the budget cancelled) and one that had begun ends in an      *)
(* error at its last checkpoint, unless it was past it.                    *)
Goes(c, at) == job[c] # at /\ job'[c] = at
WorkStopsWithCaller ==
  [][\A c \in Calls : call[c] \in {"returned", "raised"}
                     => ~Goes(c, "body") /\ ~Goes(c, "checked")]_vars

(* The calls and callers implement the abstract pool of MaxWorkers slots.  *)
Slots == INSTANCE SlotPool WITH Users <- Calls \cup Callers,
                                Limit <- MaxWorkers,
                                inUse <- Holders
ImplementsSlotPool == Slots!Spec

(* Every call that started to wait is answered, with a result or an error, *)
(* and every slot that is taken comes back, whichever way the call ends.   *)
EveryCallEnds ==
  /\ \A c \in Calls : call[c] = "awaiting" ~> call[c] \in {"returned", "raised"}
  /\ \A u \in Calls \cup Callers : u \in Holders ~> u \notin Holders
=============================================================================
