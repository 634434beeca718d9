---------------------------- MODULE ServerProofs ----------------------------
(***************************************************************************)
(* Proofs about the request path of the server: OperationBudget, for every *)
(* number of calls, threads and slots, and RequestObserver, for every      *)
(* number of requests, identifiers and entries of its table.               *)
(*                                                                         *)
(* OperationBudget.  PhaseOK relates where a coroutine is to where its     *)
(* work is; with it every step either leaves the set of holders and the    *)
(* semaphore alone, moves one new user in while taking one slot, or moves  *)
(* one holder out while releasing one (HolderStep).  Conservation of slots *)
(* and the refinement of SlotPool both follow from that single fact.       *)
(*                                                                         *)
(* RequestObserver.  RunningInv relates the table to what each side knows  *)
(* of a request; MismatchInv says why a response can fail to match.        *)
(***************************************************************************)
EXTENDS OperationBudget, RequestObserver, FiniteSetTheorems, SequenceTheorems, TLAPS

(* Work exists only behind a submitted call; a future is cancelled only on *)
(* the way of its coroutine out; a result is delivered only once settled.  *)
PhaseOK ==
  \A c \in Calls :
    /\ call[c] \in {"idle", "acquired"} => job[c] = "none"
    /\ call[c] \in {"awaiting", "cancelling"} => job[c] \notin {"none", "cancelled"}
    /\ call[c] = "ready" => job[c] = "settled"

Takes(u) == /\ u \notin Holders /\ slots > 0
            /\ Holders' = Holders \cup {u} /\ slots' = slots - 1
Gives(u) == /\ u \in Holders
            /\ Holders' = Holders \ {u} /\ slots' = Released
Keeps    == Holders' = Holders /\ slots' = slots

(* Type correctness of the slot accounting. *)
THEOREM TypeCorrect == Spec => []TypeOK
<1>1. Init => TypeOK
  BY MaxWorkersPositive, MaxDepthPositive
     DEF Init, TypeOK, CallState, JobState
<1>2. TypeOK /\ [Next]_vars => TypeOK'
  <2> SUFFICES ASSUME TypeOK, [Next]_vars PROVE TypeOK'
    OBVIOUS
  <2> USE MaxWorkersPositive, MaxDepthPositive
      DEF TypeOK, CallState, JobState, Released
  <2>1. ASSUME NEW c \in Calls, Coroutine(c) PROVE TypeOK'
    <3>1. CASE Acquire(c) BY <3>1 DEF Acquire
    <3>2. CASE Refuse(c) BY <3>2 DEF Refuse
    <3>3. CASE Submit(c)
      <4>1. pool' \subseteq Threads
        BY <3>3 DEF Submit
      <4> QED BY <3>3, <4>1 DEF Submit
    <3>4. CASE SubmitRefused(c) BY <3>4 DEF SubmitRefused
    <3>5. CASE Complete(c) BY <3>5 DEF Complete
    <3>6. CASE Resume(c) BY <3>6 DEF Resume
    <3>7. CASE Cancel(c) BY <3>7 DEF Cancel
    <3>8. CASE ChainCancel(c) BY <3>8 DEF ChainCancel
    <3>9. CASE Unwind(c) BY <3>9 DEF Unwind
    <3>10. CASE Forget(c) BY <3>10 DEF Forget
    <3> QED BY <2>1, <3>1, <3>2, <3>3, <3>4, <3>5, <3>6, <3>7, <3>8, <3>9,
               <3>10 DEF Coroutine
  <2>2. ASSUME NEW t \in Threads, NEW c \in Calls, Worker(t, c) PROVE TypeOK'
    <3>1. CASE Pick(t, c) BY <3>1 DEF Pick
    <3>2. CASE Begin(t, c) BY <3>2 DEF Begin
    <3>3. CASE EndBody(t, c) BY <3>3 DEF EndBody
    <3>4. CASE LimitOutput(t, c) BY <3>4 DEF LimitOutput
    <3>5. CASE CloseJob(t, c) BY <3>5 DEF CloseJob
    <3>6. CASE Settle(t, c) BY <3>6 DEF Settle
    <3> QED BY <2>2, <3>1, <3>2, <3>3, <3>4, <3>5, <3>6 DEF Worker
  <2>3. ASSUME NEW p \in Callers, Direct(p) PROVE TypeOK'
    <3>1. CASE Enter(p) BY <3>1 DEF Enter
    <3>2. CASE Nest(p) BY <3>2 DEF Nest
    <3>3. CASE LeaveNested(p) BY <3>3 DEF LeaveNested
    <3>4. CASE Leave(p) BY <3>4 DEF Leave
    <3> QED BY <2>3, <3>1, <3>2, <3>3, <3>4 DEF Direct
  <2>4. ASSUME NEW b \in Calls \cup Callers, Spend(b) PROVE TypeOK'
    BY <2>4 DEF Spend
  <2>5. CASE UNCHANGED vars
    BY <2>5 DEF vars
  <2> QED BY <2>1, <2>2, <2>3, <2>4, <2>5 DEF Next
<1> QED BY <1>1, <1>2, PTL DEF Spec

(* Coroutine and work keep in phase. *)
LEMMA InPhase == Spec => []PhaseOK
<1>1. Init => PhaseOK
  BY DEF Init, PhaseOK
<1>2. TypeOK /\ PhaseOK /\ [Next]_vars => PhaseOK'
  <2> SUFFICES ASSUME TypeOK, PhaseOK, [Next]_vars PROVE PhaseOK'
    OBVIOUS
  <2> USE DEF TypeOK, PhaseOK
  <2>1. ASSUME NEW c \in Calls, Coroutine(c) PROVE PhaseOK'
    BY <2>1 DEF Coroutine, Acquire, Refuse, Submit, SubmitRefused, Complete,
                Resume, Cancel, ChainCancel, Unwind, Forget
  <2>2. ASSUME NEW t \in Threads, NEW c \in Calls, Worker(t, c) PROVE PhaseOK'
    BY <2>2 DEF Worker, Pick, Begin, EndBody, LimitOutput, CloseJob, Settle
  <2>3. ASSUME NEW p \in Callers, Direct(p) PROVE PhaseOK'
    BY <2>3 DEF Direct, Enter, Nest, LeaveNested, Leave
  <2>4. ASSUME NEW b \in Calls \cup Callers, Spend(b) PROVE PhaseOK'
    BY <2>4 DEF Spend
  <2>5. CASE UNCHANGED vars
    BY <2>5 DEF vars
  <2> QED BY <2>1, <2>2, <2>3, <2>4, <2>5 DEF Next
<1> QED BY <1>1, <1>2, TypeCorrect, PTL DEF Spec

(* A pool thread works for one call at a time, and no two for the same.    *)
PoolOK ==
  \A t \in Threads : running[t] # None =>
    /\ job[running[t]] \in {"picked", "body", "checked", "closing", "released"}
    /\ \A t2 \in Threads : running[t2] = running[t] => t2 = t

LEMMA PoolCorrect == Spec => []PoolOK
<1>1. Init => PoolOK
  BY DEF Init, PoolOK
<1>2. TypeOK /\ PhaseOK /\ PoolOK /\ [Next]_vars => PoolOK'
  <2> SUFFICES ASSUME TypeOK, PhaseOK, PoolOK, [Next]_vars PROVE PoolOK'
    OBVIOUS
  <2> USE DisjointActors DEF TypeOK, PoolOK
  <2>1. ASSUME NEW c \in Calls, Coroutine(c) PROVE PoolOK'
    <3>1. UNCHANGED running
      BY <2>1 DEF Coroutine, Acquire, Refuse, Submit, SubmitRefused, Complete,
                  Resume, Cancel, ChainCancel, Unwind, Forget
    <3>2. \/ job' = job
          \/ /\ job[c] \in {"none", "pending", "settled", "cancelled"}
             /\ \A d \in Calls \ {c} : job'[d] = job[d]
      BY <2>1 DEF PhaseOK, Coroutine, Acquire, Refuse, Submit, SubmitRefused,
                  Complete, Resume, Cancel, ChainCancel, Unwind, Forget
    <3> QED BY <3>1, <3>2
  <2>2. ASSUME NEW t \in Threads, NEW c \in Calls, Worker(t, c) PROVE PoolOK'
    BY <2>2 DEF Worker, Pick, Begin, EndBody, LimitOutput, CloseJob, Settle
  <2>3. ASSUME NEW p \in Callers, Direct(p) PROVE PoolOK'
    BY <2>3 DEF Direct, Enter, Nest, LeaveNested, Leave
  <2>4. ASSUME NEW b \in Calls \cup Callers, Spend(b) PROVE PoolOK'
    BY <2>4 DEF Spend
  <2>5. CASE UNCHANGED vars
    BY <2>5 DEF vars
  <2> QED BY <2>1, <2>2, <2>3, <2>4, <2>5 DEF Next
<1> QED BY <1>1, <1>2, TypeCorrect, InPhase, PTL DEF Spec

(* Every thread charges the budget of the code it runs, and only that.     *)
THEOREM OwnBudget == Spec => []BudgetIsOwn
<1>1. Init => BudgetIsOwn
  BY DisjointActors DEF Init, BudgetIsOwn
<1>2. TypeOK /\ PhaseOK /\ PoolOK /\ BudgetIsOwn /\ [Next]_vars => BudgetIsOwn'
  <2> SUFFICES ASSUME TypeOK, PhaseOK, PoolOK, BudgetIsOwn, [Next]_vars
               PROVE  BudgetIsOwn'
    OBVIOUS
  <2> USE DisjointActors DEF TypeOK, BudgetIsOwn
  <2>1. ASSUME NEW c \in Calls, Coroutine(c) PROVE BudgetIsOwn'
    <3>1. UNCHANGED <<running, active, depth>>
      BY <2>1 DEF Coroutine, Acquire, Refuse, Submit, SubmitRefused, Complete,
                  Resume, Cancel, ChainCancel, Unwind, Forget
    <3>2. \A d \in Calls : job[d] \in {"picked", "body", "checked", "closing", "released"}
                           => job'[d] = job[d]
      BY <2>1 DEF PhaseOK, Coroutine, Acquire, Refuse, Submit, SubmitRefused,
                  Complete, Resume, Cancel, ChainCancel, Unwind, Forget
    <3> QED BY <3>1, <3>2 DEF PoolOK
  <2>2. ASSUME NEW t \in Threads, NEW c \in Calls, Worker(t, c)
        PROVE  BudgetIsOwn'
    <3>1. UNCHANGED depth /\ \A p \in Callers : active'[p] = active[p]
      BY <2>2 DEF Worker, Pick, Begin, EndBody, LimitOutput, CloseJob, Settle
    <3>2. ASSUME NEW t2 \in Threads
          PROVE  active'[t2] = IF /\ running'[t2] # None
                                  /\ job'[running'[t2]] \in {"body", "checked", "closing"}
                                 THEN running'[t2] ELSE None
      <4>1. CASE Pick(t, c) BY <4>1 DEF Pick, PoolOK
      <4>2. CASE Begin(t, c) BY <4>2 DEF Begin, PoolOK
      <4>3. CASE EndBody(t, c) BY <4>3 DEF EndBody, PoolOK
      <4>4. CASE LimitOutput(t, c) BY <4>4 DEF LimitOutput, PoolOK
      <4>5. CASE CloseJob(t, c) BY <4>5 DEF CloseJob, PoolOK
      <4>6. CASE Settle(t, c) BY <4>6 DEF Settle, PoolOK
      <4> QED BY <2>2, <4>1, <4>2, <4>3, <4>4, <4>5, <4>6 DEF Worker
    <3> QED BY <3>1, <3>2
  <2>3. ASSUME NEW p \in Callers, Direct(p) PROVE BudgetIsOwn'
    BY <2>3, MaxDepthPositive DEF Direct, Enter, Nest, LeaveNested, Leave
  <2>4. ASSUME NEW b \in Calls \cup Callers, Spend(b) PROVE BudgetIsOwn'
    BY <2>4 DEF Spend
  <2>5. CASE UNCHANGED vars
    BY <2>5 DEF vars
  <2> QED BY <2>1, <2>2, <2>3, <2>4, <2>5 DEF Next
<1> QED BY <1>1, <1>2, TypeCorrect, InPhase, PoolCorrect, PTL DEF Spec

-----------------------------------------------------------------------------
LEMMA HoldersFinite == IsFiniteSet(Holders)
<1>1. Holders \subseteq Calls \cup Callers
  BY DEF Holders
<1>2. IsFiniteSet(Calls \cup Callers)
  BY FiniteActors, FS_Union
<1> QED BY <1>1, <1>2, FS_Subset

(* A step that concerns one call moves at most that call in or out. *)
LEMMA OneCall ==
  ASSUME NEW c \in Calls, UNCHANGED depth,
         \A d \in Calls \ {c} : call'[d] = call[d] /\ job'[d] = job[d]
  PROVE  Holders' = IF HoldsSlot(c)' THEN Holders \cup {c} ELSE Holders \ {c}
BY DisjointActors DEF Holders, HoldsSlot

(* A step that concerns one caller moves at most that caller in or out. *)
LEMMA OneCaller ==
  ASSUME NEW p \in Callers, UNCHANGED <<call, job>>,
         \A q \in Callers \ {p} : depth'[q] = depth[q]
  PROVE  Holders' = IF depth'[p] > 0 THEN Holders \cup {p} ELSE Holders \ {p}
BY DisjointActors DEF Holders, HoldsSlot

LEMMA CallIsHolder ==
  ASSUME NEW c \in Calls
  PROVE  c \in Holders <=> HoldsSlot(c)
BY DisjointActors DEF Holders

(* Every step takes one slot for one new holder, releases one slot of one  *)
(* holder, or leaves both alone.                                           *)
LEMMA HolderStep ==
  ASSUME TypeOK, PhaseOK, BudgetIsOwn, [Next]_vars
  PROVE  \/ Keeps
         \/ \E u \in Calls \cup Callers : Takes(u) \/ Gives(u)
<1> USE DEF TypeOK
<1>1. ASSUME NEW c \in Calls, Coroutine(c)
      PROVE  Keeps \/ Takes(c) \/ Gives(c)
  <2>1. UNCHANGED depth /\ \A d \in Calls \ {c} : call'[d] = call[d] /\ job'[d] = job[d]
    BY <1>1 DEF Coroutine, Acquire, Refuse, Submit, SubmitRefused, Complete,
                Resume, Cancel, ChainCancel, Unwind, Forget
  <2>2. Holders' = IF HoldsSlot(c)' THEN Holders \cup {c} ELSE Holders \ {c}
    BY <2>1, OneCall
  <2>3. c \in Holders <=> HoldsSlot(c)
    BY CallIsHolder
  <2> USE <2>2, <2>3 DEF HoldsSlot, PhaseOK, Keeps, Takes, Gives
  <2>4. CASE Acquire(c) BY <2>4 DEF Acquire
  <2>5. CASE Refuse(c) BY <2>5 DEF Refuse
  <2>6. CASE Submit(c) BY <2>6 DEF Submit
  <2>7. CASE SubmitRefused(c) BY <2>7 DEF SubmitRefused
  <2>8. CASE Complete(c) BY <2>8 DEF Complete
  <2>9. CASE Resume(c) BY <2>9 DEF Resume
  <2>10. CASE Cancel(c) BY <2>10 DEF Cancel
  <2>11. CASE ChainCancel(c) BY <2>11 DEF ChainCancel
  <2>12. CASE Unwind(c) BY <2>12 DEF Unwind
  <2>13. CASE Forget(c) BY <2>13 DEF Forget
  <2> QED BY <1>1, <2>4, <2>5, <2>6, <2>7, <2>8, <2>9, <2>10, <2>11, <2>12,
             <2>13 DEF Coroutine
<1>2. ASSUME NEW t \in Threads, NEW c \in Calls, Worker(t, c)
      PROVE  Keeps \/ Gives(c)
  <2>1. UNCHANGED depth /\ \A d \in Calls \ {c} : call'[d] = call[d] /\ job'[d] = job[d]
    BY <1>2 DEF Worker, Pick, Begin, EndBody, LimitOutput, CloseJob, Settle
  <2>2. Holders' = IF HoldsSlot(c)' THEN Holders \cup {c} ELSE Holders \ {c}
    BY <2>1, OneCall
  <2>3. c \in Holders <=> HoldsSlot(c)
    BY CallIsHolder
  <2> USE <2>2, <2>3 DEF HoldsSlot, PhaseOK, Keeps, Gives
  <2>4. CASE Pick(t, c) BY <2>4 DEF Pick
  <2>5. CASE Begin(t, c) BY <2>5 DEF Begin
  <2>6. CASE EndBody(t, c) BY <2>6 DEF EndBody
  <2>7. CASE LimitOutput(t, c) BY <2>7 DEF LimitOutput
  <2>8. CASE CloseJob(t, c) BY <2>8 DEF CloseJob
  <2>9. CASE Settle(t, c) BY <2>9 DEF Settle
  <2> QED BY <1>2, <2>4, <2>5, <2>6, <2>7, <2>8, <2>9 DEF Worker
<1>3. ASSUME NEW p \in Callers, Direct(p)
      PROVE  Keeps \/ Takes(p) \/ Gives(p)
  <2>1. /\ UNCHANGED <<call, job>>
        /\ \A q \in Callers \ {p} : depth'[q] = depth[q]
    BY <1>3 DEF Direct, Enter, Nest, LeaveNested, Leave
  <2>2. Holders' = IF depth'[p] > 0 THEN Holders \cup {p} ELSE Holders \ {p}
    BY <2>1, OneCaller
  <2>3. p \in Holders <=> depth[p] > 0
    BY DisjointActors DEF Holders
  <2>4. active[p] = None <=> ~(depth[p] > 0)
    BY DisjointActors DEF BudgetIsOwn
  <2> USE <2>2, <2>3, <2>4 DEF Keeps, Takes, Gives
  <2>5. CASE Enter(p) BY <2>5, MaxDepthPositive DEF Enter
  <2>6. CASE Nest(p) BY <2>6 DEF Nest
  <2>7. CASE LeaveNested(p) BY <2>7 DEF LeaveNested
  <2>8. CASE Leave(p) BY <2>8 DEF Leave
  <2> QED BY <1>3, <2>5, <2>6, <2>7, <2>8 DEF Direct
<1>4. ASSUME NEW b \in Calls \cup Callers, Spend(b) PROVE Keeps
  BY <1>4 DEF Spend, Keeps, Holders, HoldsSlot
<1>5. CASE UNCHANGED vars
  BY <1>5 DEF vars, Keeps, Holders, HoldsSlot
<1> QED BY <1>1, <1>2, <1>3, <1>4, <1>5 DEF Next

LEMMA CardinalityOfHolders == Cardinality(Holders) \in Nat
BY HoldersFinite, FS_CardinalityType

(* A slot is free exactly while fewer than MaxWorkers holders exist: no    *)
(* order of completion, cancellation and failure leaks or doubles one.     *)
THEOREM Conservation == Spec => []SlotsConserved
<1>1. Init => SlotsConserved
  <2> SUFFICES ASSUME Init PROVE SlotsConserved
    OBVIOUS
  <2>1. Holders = {}
    BY DEF Init, Holders, HoldsSlot
  <2> QED BY <2>1, FS_EmptySet, MaxWorkersPositive DEF SlotsConserved, Init
<1>2. TypeOK /\ PhaseOK /\ BudgetIsOwn /\ SlotsConserved /\ [Next]_vars
      => SlotsConserved'
  <2> SUFFICES ASSUME TypeOK, PhaseOK, BudgetIsOwn, SlotsConserved, [Next]_vars
               PROVE  slots' + Cardinality(Holders') = MaxWorkers
    BY DEF SlotsConserved
  <2> USE HoldersFinite, CardinalityOfHolders, MaxWorkersPositive
      DEF TypeOK, SlotsConserved
  <2>1. CASE Keeps
    BY <2>1 DEF Keeps
  <2>2. ASSUME NEW u \in Calls \cup Callers, Takes(u)
        PROVE  slots' + Cardinality(Holders') = MaxWorkers
    <3>1. Cardinality(Holders') = Cardinality(Holders) + 1
      BY <2>2, FS_AddElement DEF Takes
    <3> QED BY <2>2, <3>1 DEF Takes
  <2>3. ASSUME NEW u \in Calls \cup Callers, Gives(u)
        PROVE  slots' + Cardinality(Holders') = MaxWorkers
    <3>1. Cardinality(Holders') = Cardinality(Holders) - 1
      BY <2>3, FS_RemoveElement DEF Gives
    <3>2. Cardinality(Holders') \in Nat
      BY <2>3, FS_RemoveElement, FS_CardinalityType DEF Gives
    <3> QED BY <2>3, <3>1, <3>2 DEF Gives, Released
  <2> QED BY <2>1, <2>2, <2>3, HolderStep
<1> QED BY <1>1, <1>2, TypeCorrect, InPhase, OwnBudget, PTL DEF Spec

(* operation_budget implements the abstract pool of MaxWorkers slots.      *)
THEOREM Refinement == Spec => ImplementsSlotPool
<1>1. Init => Slots!Init
  BY DEF Init, Slots!Init, Holders, HoldsSlot
<1>2. TypeOK /\ PhaseOK /\ BudgetIsOwn /\ SlotsConserved /\ [Next]_vars
      => [Slots!Next]_Holders
  <2> SUFFICES ASSUME TypeOK, PhaseOK, BudgetIsOwn, SlotsConserved, [Next]_vars
               PROVE  [Slots!Next]_Holders
    OBVIOUS
  <2>1. CASE Keeps
    BY <2>1 DEF Keeps
  <2>2. ASSUME NEW u \in Calls \cup Callers, Takes(u) PROVE Slots!Next
    <3>1. Cardinality(Holders) < MaxWorkers
      BY <2>2, CardinalityOfHolders, MaxWorkersPositive
         DEF Takes, TypeOK, SlotsConserved
    <3>2. Slots!Cardinality(Holders) = Cardinality(Holders)
      BY DEF Slots!Cardinality, Cardinality
    <3> QED BY <2>2, <3>1, <3>2 DEF Takes, Slots!Next, Slots!Take
  <2>3. ASSUME NEW u \in Calls \cup Callers, Gives(u) PROVE Slots!Next
    BY <2>3 DEF Gives, Slots!Next, Slots!Give
  <2> QED BY <2>1, <2>2, <2>3, HolderStep
<1> QED BY <1>1, <1>2, TypeCorrect, InPhase, OwnBudget, Conservation, PTL
        DEF Spec, ImplementsSlotPool, Slots!Spec

(* What is left of the work of a call that was answered: a value has been  *)
(* settled; behind an error, work that could still begin or pass its last  *)
(* checkpoint has been told to stop.                                       *)
Told ==
  \A c \in Calls :
    /\ call[c] = "returned" => job[c] = "settled"
    /\ call[c] = "raised" => cancelled[c] \/ job[c] = "none"

LEMMA AnsweredIsTold == Spec => []Told
<1>1. Init => Told
  BY DEF Init, Told
<1>2. TypeOK /\ PhaseOK /\ Told /\ [Next]_vars => Told'
  <2> SUFFICES ASSUME TypeOK, PhaseOK, Told, [Next]_vars PROVE Told'
    OBVIOUS
  <2> USE DEF TypeOK, PhaseOK, Told
  <2>1. ASSUME NEW c \in Calls, Coroutine(c) PROVE Told'
    BY <2>1 DEF Coroutine, Acquire, Refuse, Submit, SubmitRefused, Complete,
                Resume, Cancel, ChainCancel, Unwind, Forget
  <2>2. ASSUME NEW t \in Threads, NEW c \in Calls, Worker(t, c) PROVE Told'
    BY <2>2 DEF Worker, Pick, Begin, EndBody, LimitOutput, CloseJob, Settle
  <2>3. ASSUME NEW p \in Callers, Direct(p) PROVE Told'
    BY <2>3 DEF Direct, Enter, Nest, LeaveNested, Leave
  <2>4. ASSUME NEW b \in Calls \cup Callers, Spend(b) PROVE Told'
    BY <2>4 DEF Spend
  <2>5. CASE UNCHANGED vars
    BY <2>5 DEF vars
  <2> QED BY <2>1, <2>2, <2>3, <2>4, <2>5 DEF Next
<1> QED BY <1>1, <1>2, TypeCorrect, InPhase, PTL DEF Spec

(* For a caller that has been answered no tool begins and none passes its  *)
(* last checkpoint.                                                        *)
THEOREM WorkStops == Spec => WorkStopsWithCaller
<1>1. TypeOK /\ PhaseOK /\ Told /\ [Next]_vars =>
        [\A c \in Calls : call[c] \in {"returned", "raised"}
                         => ~Goes(c, "body") /\ ~Goes(c, "checked")]_vars
  <2> SUFFICES ASSUME TypeOK, PhaseOK, Told, [Next]_vars,
                      NEW c \in Calls, call[c] \in {"returned", "raised"},
                      Goes(c, "body") \/ Goes(c, "checked")
               PROVE  FALSE
    OBVIOUS
  <2> USE DEF TypeOK, Told, Goes
  <2>1. ASSUME NEW d \in Calls, Coroutine(d) PROVE FALSE
    BY <2>1 DEF Coroutine, Acquire, Refuse, Submit, SubmitRefused, Complete,
                Resume, Cancel, ChainCancel, Unwind, Forget
  <2>2. ASSUME NEW t \in Threads, NEW d \in Calls, Worker(t, d) PROVE FALSE
    <3>1. job[c] \in {"picked", "body"} => Exhausted(c)
      BY DEF Exhausted
    <3>2. CASE Begin(t, d) BY <3>1, <3>2 DEF Begin
    <3>3. CASE EndBody(t, d) BY <3>1, <3>3 DEF EndBody
    <3>4. CASE Pick(t, d) \/ LimitOutput(t, d) \/ CloseJob(t, d) \/ Settle(t, d)
      BY <3>4 DEF Pick, LimitOutput, CloseJob, Settle
    <3> QED BY <2>2, <3>2, <3>3, <3>4 DEF Worker
  <2>3. ASSUME NEW p \in Callers, Direct(p) PROVE FALSE
    BY <2>3 DEF Direct, Enter, Nest, LeaveNested, Leave
  <2>4. ASSUME NEW b \in Calls \cup Callers, Spend(b) PROVE FALSE
    BY <2>4 DEF Spend
  <2>5. CASE UNCHANGED vars
    BY <2>5 DEF vars
  <2> QED BY <2>1, <2>2, <2>3, <2>4, <2>5 DEF Next
<1> QED BY <1>1, TypeCorrect, InPhase, AnsweredIsTold, PTL
        DEF Spec, WorkStopsWithCaller

-----------------------------------------------------------------------------
(* RequestObserver.                                                        *)

(* What removing one element of a sequence leaves. *)
LEMMA RemoveAtProperties ==
  ASSUME NEW S, NEW s \in Seq(S), NEW k \in DOMAIN s
  PROVE  /\ RemoveAt(s, k) \in Seq(S)
         /\ Len(RemoveAt(s, k)) = Len(s) - 1
         /\ \A j \in DOMAIN RemoveAt(s, k) :
              RemoveAt(s, k)[j] = IF j < k THEN s[j] ELSE s[j + 1]
<1>1. k \in 1 .. Len(s) /\ Len(s) \in Nat
  OBVIOUS
<1> DEFINE a == SubSeq(s, 1, k - 1)
           b == SubSeq(s, k + 1, Len(s))
<1>2. /\ a \in Seq(S) /\ Len(a) = k - 1
      /\ \A j \in 1 .. k - 1 : a[j] = s[j]
  BY <1>1
<1>3. /\ b \in Seq(S) /\ Len(b) = Len(s) - k
      /\ \A j \in 1 .. Len(s) - k : b[j] = s[j + k]
  BY <1>1
<1>4. RemoveAt(s, k) = a \o b
  BY DEF RemoveAt
<1> HIDE DEF a, b
<1>5. /\ a \o b \in Seq(S) /\ Len(a \o b) = Len(s) - 1
  BY <1>1, <1>2, <1>3
<1>6. \A j \in 1 .. Len(s) - 1 : (a \o b)[j] = IF j < k THEN s[j] ELSE s[j + 1]
  BY <1>1, <1>2, <1>3
<1>7. DOMAIN (a \o b) = 1 .. Len(s) - 1
  BY <1>1, <1>5
<1> QED BY <1>4, <1>5, <1>6, <1>7

(* The table is a part of pending, and empty while nothing is collected. *)
GenerationOK ==
  /\ generation \in 0 .. epoch
  /\ generation = 0 => pending = <<>>

LEMMA TableTypes ==
  ASSUME ObserverTypes
  PROVE  /\ Table \in Seq(Entry) /\ Len(Table) \in 0 .. MaxPending
         /\ DOMAIN Table = 1 .. Len(Table)
         /\ \A k \in DOMAIN Table : /\ Table[k] \in Entry
                                    /\ Table[k].id \in Ids
                                    /\ Table[k].call \in Requests
                                    /\ Table[k].duplicates \in Nat \ {0}
                                    /\ Table[k].ambiguous \in BOOLEAN
         /\ Epoch \in 0 .. MaxEpoch
<1> USE PendingPositive, EpochsPositive DEF ObserverTypes
<1>1. Table \in Seq(Entry) /\ Len(Table) \in 0 .. MaxPending
  BY DEF Table
<1>2. DOMAIN Table = 1 .. Len(Table)
  BY <1>1
<1>3. \A k \in DOMAIN Table : Table[k] \in Entry
  BY <1>1
<1>4. ASSUME NEW e \in Entry
      PROVE  /\ e.id \in Ids /\ e.call \in Requests
             /\ e.duplicates \in Nat \ {0} /\ e.ambiguous \in BOOLEAN
  BY DEF Entry
<1> QED BY <1>1, <1>2, <1>3, <1>4 DEF Epoch

(* What one more entry leaves of the table: all of it, or all but the oldest. *)
LEMMA TrackedTable ==
  ASSUME ObserverTypes, NEW c \in Requests, NEW i \in Ids, Track(c, i)
  PROVE  LET new == [id |-> i, call |-> c, duplicates |-> 1, ambiguous |-> FALSE]
         IN \E gone \in {0, 1} :
              /\ gone = 1 <=> Len(Table) >= MaxPending
              /\ pending' \in Seq(Entry) /\ Len(pending') <= MaxPending
              /\ Len(pending') = Len(Table) - gone + 1
              /\ \A j \in 1 .. Len(Table) - gone : pending'[j] = Table[j + gone]
              /\ pending'[Len(Table) - gone + 1] = new
<1> DEFINE new == [id |-> i, call |-> c, duplicates |-> 1, ambiguous |-> FALSE]
           full == Len(Table) >= MaxPending
           rest == IF full THEN Tail(Table) ELSE Table
           gone == IF full THEN 1 ELSE 0
<1>1. new \in Entry
  BY DEF Entry
<1>2. /\ Table \in Seq(Entry) /\ Len(Table) \in 0 .. MaxPending
      /\ MaxPending \in Nat \ {0}
  BY TableTypes, PendingPositive
<1>3. /\ rest \in Seq(Entry) /\ Len(rest) = Len(Table) - gone
      /\ \A j \in 1 .. Len(rest) : rest[j] = Table[j + gone]
  <2>1. CASE full
    <3>1. Table # <<>>
      BY <1>2, <2>1
    <3> QED BY <1>2, <2>1, <3>1, HeadTailProperties
  <2>2. CASE ~full
    BY <1>2, <2>2
  <2> QED BY <2>1, <2>2
<1>4. pending' = Append(rest, new)
  BY DEF Track
<1>5. gone \in {0, 1} /\ (gone = 1 <=> full) /\ Len(rest) + 1 <= MaxPending
  BY <1>2, <1>3
<1> HIDE DEF new, rest, gone
<1>6. /\ Append(rest, new) \in Seq(Entry)
      /\ Len(Append(rest, new)) = Len(rest) + 1
      /\ \A j \in 1 .. Len(rest) : Append(rest, new)[j] = rest[j]
      /\ Append(rest, new)[Len(rest) + 1] = new
  BY <1>1, <1>3, AppendProperties
<1>7. /\ Len(pending') = Len(Table) - gone + 1
      /\ \A j \in 1 .. Len(Table) - gone : pending'[j] = Table[j + gone]
      /\ pending'[Len(Table) - gone + 1] = new
      /\ pending' \in Seq(Entry) /\ Len(pending') <= MaxPending
  BY <1>3, <1>4, <1>5, <1>6
<1> QED BY <1>5, <1>7 DEF new

(* What another call of an open identifier does to the table. *)
LEMMA CollidedTable ==
  ASSUME ObserverTypes, NEW c \in Requests, NEW k \in DOMAIN Table, Collide(c, k)
  PROVE  /\ pending' \in Seq(Entry) /\ Len(pending') = Len(Table)
         /\ \A j \in DOMAIN Table : j # k => pending'[j] = Table[j]
         /\ pending'[k].id = Table[k].id /\ pending'[k].call = Table[k].call
         /\ pending'[k].duplicates = Table[k].duplicates + 1
         /\ pending'[k].ambiguous = Table[k].ambiguous
<1>1. PICK e \in Entry : e = Table[k]
  BY TableTypes
<1> DEFINE n == [e EXCEPT !.duplicates = @ + 1]
<1>2. /\ n \in Entry /\ n.id = e.id /\ n.call = e.call
      /\ n.duplicates = e.duplicates + 1 /\ n.ambiguous = e.ambiguous
  BY DEF Entry
<1>3. pending' = [Table EXCEPT ![k] = n]
  BY <1>1 DEF Collide
<1> HIDE DEF n
<1>4. pending' \in Seq(Entry) /\ Len(pending') = Len(Table)
  BY <1>2, <1>3, TableTypes
<1>5. \A j \in DOMAIN Table : pending'[j] = IF j = k THEN n ELSE Table[j]
  BY <1>3, TableTypes
<1> QED BY <1>1, <1>2, <1>4, <1>5

(* The table after a response to an identifier that several calls share. *)
Discounted(k) == pending' = [Table EXCEPT ![k].duplicates = @ - 1,
                                          ![k].ambiguous = TRUE]

LEMMA DiscountedTable ==
  ASSUME ObserverTypes, NEW k \in DOMAIN Table, Table[k].duplicates # 1, Discounted(k)
  PROVE  /\ pending' \in Seq(Entry) /\ Len(pending') = Len(Table)
         /\ \A j \in DOMAIN Table : j # k => pending'[j] = Table[j]
         /\ pending'[k].id = Table[k].id /\ pending'[k].call = Table[k].call
         /\ pending'[k].duplicates = Table[k].duplicates - 1
         /\ pending'[k].ambiguous = TRUE
<1>1. PICK e \in Entry : e = Table[k]
  BY TableTypes
<1> DEFINE n == [e EXCEPT !.duplicates = @ - 1, !.ambiguous = TRUE]
<1>2. /\ n \in Entry /\ n.id = e.id /\ n.call = e.call
      /\ n.duplicates = e.duplicates - 1 /\ n.ambiguous = TRUE
  <2>1. e.id \in Ids /\ e.call \in Requests /\ e.duplicates - 1 \in Nat \ {0}
    BY <1>1 DEF Entry
  <2>2. /\ n.id = e.id /\ n.call = e.call
        /\ n.duplicates = e.duplicates - 1 /\ n.ambiguous = TRUE
    BY DEF Entry
  <2>3. n \in Entry
    BY <2>1 DEF Entry
  <2> QED BY <2>2, <2>3
<1>3. pending' = [Table EXCEPT ![k] = n]
  BY <1>1 DEF Discounted
<1> HIDE DEF n
<1>4. pending' \in Seq(Entry) /\ Len(pending') = Len(Table)
  BY <1>2, <1>3, TableTypes
<1>5. \A j \in DOMAIN Table : pending'[j] = IF j = k THEN n ELSE Table[j]
  BY <1>3, TableTypes
<1> QED BY <1>1, <1>2, <1>4, <1>5

(* The steps of the server leave the epoch alone and bring the table up to  *)
(* it; those of the desktop leave the table behind.                         *)
LEMMA ServerTable ==
  ASSUME ObserverTypes, GenerationOK, Server
  PROVE  Epoch' = Epoch /\ Table' = pending' /\ generation' = Epoch /\ epoch' = epoch
  BY DEF Server, Send, Receive, Finish, Epoch, Table

LEMMA DesktopTable ==
  ASSUME ObserverTypes, GenerationOK, Desktop
  PROVE  /\ Table' = <<>> /\ pending' = pending /\ generation' = generation
         /\ forgotten' = forgotten \cup AllOpen
         /\ id' = id /\ state' = state
         /\ epoch' = epoch + 1 /\ epoch' \in 1 .. MaxEpoch
<1>1. /\ pending' = pending /\ generation' = generation
      /\ forgotten' = forgotten \cup AllOpen
      /\ id' = id /\ state' = state
      /\ epoch' = epoch + 1 /\ epoch < MaxEpoch
    BY DEF Desktop, Turn, Clear
<1>3. epoch' \in 1 .. MaxEpoch
  BY <1>1, EpochsPositive DEF ObserverTypes
<1>2. generation # epoch'
  BY <1>1 DEF ObserverTypes, GenerationOK
<1> QED BY <1>1, <1>2, <1>3 DEF Table, Epoch, GenerationOK

(* A request as its four ways, and a response as its four. *)
Unseen(c)  == pending' = Table /\ forgotten' = forgotten \cup {c} /\ shown' = shown
Refused(c) == /\ pending' = Table /\ forgotten' = forgotten
              /\ shown' = [shown EXCEPT ![c] = "incomplete"]

LEMMA ReceiveCases ==
  ASSUME ObserverTypes, NEW c \in Requests, NEW i \in Ids \cup {LongId}, Receive(c, i)
  PROVE  \/ Epoch = 0 /\ Unseen(c)
         \/ i = LongId /\ Refused(c)
         \/ Epoch # 0 /\ i \in Ids /\ \E k \in Find(Table, i) : Collide(c, k)
         \/ Epoch # 0 /\ i \in Ids /\ Find(Table, i) = {} /\ Track(c, i)
<1>1. Find(Table, LongId) = {}
  BY TableTypes, DistinctIds DEF Find
<1>2. CASE Epoch = 0
  BY <1>2 DEF Receive, Unseen
<1>3. CASE Epoch # 0 /\ i = LongId
  BY <1>1, <1>3 DEF Receive, Refused
<1>4. CASE Epoch # 0 /\ i # LongId /\ Find(Table, i) # {}
  BY <1>4 DEF Receive
<1>5. CASE Epoch # 0 /\ i # LongId /\ Find(Table, i) = {}
  BY <1>5 DEF Receive
<1> QED BY <1>2, <1>3, <1>4, <1>5

Missed      == pending' = Table /\ shown' = shown /\ response' = response
Dropped(k)  == /\ Uncertain(Table[k]) /\ pending' = RemoveAt(Table, k)
               /\ shown' = shown /\ response' = response
               /\ Table[k].duplicates = 1
Lessened(k) == /\ Uncertain(Table[k]) /\ Discounted(k)
               /\ shown' = shown /\ response' = response
               /\ Table[k].duplicates # 1
Attached(k, c) ==
  /\ ~Uncertain(Table[k]) /\ pending' = RemoveAt(Table, k)
  /\ shown' = [shown EXCEPT ![Table[k].call] = "finished"]
  /\ response' = [response EXCEPT ![Table[k].call] = c]

LEMMA SendCases ==
  ASSUME ObserverTypes, NEW c \in Requests, Send(c)
  PROVE  \/ (Epoch = 0 \/ Find(Table, id[c]) = {}) /\ Missed
         \/ \E k \in Find(Table, id[c]) :
              k \in DOMAIN Table /\ (Dropped(k) \/ Lessened(k) \/ Attached(k, c))
<1>1. CASE Epoch = 0 \/ Find(Table, id[c]) = {}
  BY <1>1 DEF Send, Missed
<1>2. CASE ~(Epoch = 0 \/ Find(Table, id[c]) = {})
  <2>1. PICK k \in Find(Table, id[c]) :
          IF Uncertain(Table[k])
            THEN /\ pending' = IF Table[k].duplicates = 1
                                 THEN RemoveAt(Table, k)
                                 ELSE [Table EXCEPT ![k].duplicates = @ - 1,
                                                    ![k].ambiguous = TRUE]
                 /\ UNCHANGED <<shown, response>>
            ELSE /\ pending' = RemoveAt(Table, k)
                 /\ shown' = [shown EXCEPT ![Table[k].call] = "finished"]
                 /\ response' = [response EXCEPT ![Table[k].call] = c]
    BY <1>2 DEF Send
  <2>2. k \in DOMAIN Table
    BY DEF Find
  <2>3. Dropped(k) \/ Lessened(k) \/ Attached(k, c)
    BY <2>1 DEF Dropped, Lessened, Attached, Discounted
  <2> QED BY <2>2, <2>3
<1> QED BY <1>1, <1>2

(* Types of every variable, whatever the bounds; and a table that was begun *)
(* while nothing was collected is empty.                                    *)
THEOREM ObserverTypesKept == ObserverSpec => [](ObserverTypes /\ GenerationOK)
<1>1. ObserverInit => ObserverTypes /\ GenerationOK
  BY EpochsPositive, PendingPositive
     DEF ObserverInit, ObserverTypes, GenerationOK, Status
<1>2. ObserverTypes /\ GenerationOK /\ [ObserverNext]_observerVars
        => ObserverTypes' /\ GenerationOK'
  <2> SUFFICES ASSUME ObserverTypes, GenerationOK, [ObserverNext]_observerVars
               PROVE  ObserverTypes' /\ GenerationOK'
    OBVIOUS
  <2>1. CASE Server
    <3> USE <2>1
    <3>1. epoch' = epoch /\ generation' = Epoch /\ collecting' = collecting
      BY ServerTable DEF Server, Send, Receive, Finish
    <3>2. /\ Table \in Seq(Entry) /\ Len(Table) <= MaxPending
          /\ Len(Table) \in Nat /\ Epoch \in 0 .. MaxEpoch
      BY TableTypes
    <3>3. ASSUME NEW c \in Requests, NEW i \in Ids \cup {LongId}, Receive(c, i)
          PROVE  ObserverTypes' /\ GenerationOK'
      <4>1. /\ id' \in [Requests -> Ids \cup {LongId, Absent}]
            /\ state' \in [Requests -> {"new", "open", "answered", "gone"}]
            /\ response' = response
        BY <3>3 DEF Receive, ObserverTypes
      <4>2. CASE Epoch = 0 /\ Unseen(c)
        <5>1. Table = <<>>
          BY <4>2 DEF Table, GenerationOK
        <5> QED BY <3>1, <3>2, <4>1, <4>2, <5>1
                DEF Unseen, ObserverTypes, GenerationOK
      <4>3. CASE i = LongId /\ Refused(c)
        <5>1. Epoch = 0 => Table = <<>>
          BY DEF Table, GenerationOK
        <5> QED BY <3>1, <3>2, <4>1, <4>3, <5>1
                DEF Refused, ObserverTypes, GenerationOK, Status, Epoch
      <4>4. CASE Epoch # 0 /\ i \in Ids /\ \E k \in Find(Table, i) : Collide(c, k)
        <5>1. PICK k \in DOMAIN Table : Collide(c, k)
          BY <4>4 DEF Find
        <5>2. pending' \in Seq(Entry) /\ Len(pending') = Len(Table)
          BY <5>1, CollidedTable
        <5>3. shown' \in [Requests -> Status] /\ forgotten' = forgotten
          BY <5>1 DEF Collide, ObserverTypes, Status
        <5> QED BY <3>1, <3>2, <4>1, <4>4, <5>2, <5>3
                DEF ObserverTypes, GenerationOK, Epoch
      <4>5. CASE Epoch # 0 /\ i \in Ids /\ Find(Table, i) = {} /\ Track(c, i)
        <5>1. pending' \in Seq(Entry) /\ Len(pending') <= MaxPending
          BY <4>5, TrackedTable
        <5>2. /\ shown' \in [Requests -> Status]
              /\ forgotten' \subseteq Requests
          BY <4>5 DEF Track, ObserverTypes, Status, Open
        <5> QED BY <3>1, <3>2, <4>1, <4>5, <5>1, <5>2
                DEF ObserverTypes, GenerationOK, Epoch
      <4> QED BY <3>3, <4>2, <4>3, <4>4, <4>5, ReceiveCases
    <3>4. ASSUME NEW c \in Requests, Send(c)
          PROVE  ObserverTypes' /\ GenerationOK'
      <4>1. /\ id' = id /\ forgotten' \subseteq Requests
            /\ state' \in [Requests -> {"new", "open", "answered", "gone"}]
        BY <3>4 DEF Send, ObserverTypes, Open
      <4>2. Epoch = 0 => Table = <<>>
        BY DEF Table, GenerationOK
      <4>3. CASE Missed
        BY <3>1, <3>2, <4>1, <4>2, <4>3 DEF Missed, ObserverTypes, GenerationOK, Epoch
      <4>4. ASSUME NEW k \in DOMAIN Table, Dropped(k) \/ Lessened(k) \/ Attached(k, c)
            PROVE  ObserverTypes' /\ GenerationOK'
        <5>1. pending' \in Seq(Entry) /\ Len(pending') <= MaxPending
          <6>1. CASE Lessened(k)
            BY <6>1, <3>2, DiscountedTable DEF Lessened
          <6>2. CASE Dropped(k) \/ Attached(k, c)
            <7>1. pending' = RemoveAt(Table, k)
              BY <6>2 DEF Dropped, Attached
            <7>2. /\ RemoveAt(Table, k) \in Seq(Entry)
                  /\ Len(RemoveAt(Table, k)) = Len(Table) - 1
              BY <3>2, RemoveAtProperties
            <7>3. MaxPending \in Nat
              BY PendingPositive
            <7> QED BY <7>1, <7>2, <7>3, <3>2
          <6> QED BY <4>4, <6>1, <6>2
        <5>2. /\ shown' \in [Requests -> Status]
              /\ response' \in [Requests -> Requests \cup {Absent}]
          BY <4>4, TableTypes DEF Dropped, Lessened, Attached, ObserverTypes, Status
        <5>3. Epoch # 0
          BY <4>2, <4>4
        <5> QED BY <3>1, <3>2, <4>1, <5>1, <5>2, <5>3
                DEF ObserverTypes, GenerationOK, Epoch
      <4> QED BY <3>4, <4>3, <4>4, SendCases
    <3>5. CASE Finish
      BY <3>1, <3>2, <3>5, PendingPositive
         DEF Finish, ObserverTypes, GenerationOK, Status, Epoch
    <3> QED BY <3>3, <3>4, <3>5 DEF Server
  <2>2. CASE Desktop
    <3>1. /\ pending' = pending /\ generation' = generation /\ id' = id
          /\ state' = state /\ epoch' = epoch + 1 /\ epoch' \in 1 .. MaxEpoch
          /\ forgotten' \subseteq Requests
      BY <2>2, DesktopTable DEF AllOpen, ObserverTypes
    <3>2. collecting' \in BOOLEAN
      BY <2>2 DEF Desktop, Turn, Clear, ObserverTypes
    <3>3. /\ shown' \in [Requests -> Status]
          /\ response' \in [Requests -> Requests \cup {Absent}]
      BY <2>2 DEF Desktop, Turn, Clear, ObserverTypes, Status
    <3> QED BY <3>1, <3>2, <3>3 DEF ObserverTypes, GenerationOK
  <2>3. CASE UNCHANGED observerVars
    BY <2>3 DEF observerVars, ObserverTypes, GenerationOK
  <2> QED BY <2>1, <2>2, <2>3 DEF ObserverNext
<1> QED BY <1>1, <1>2, PTL DEF ObserverSpec

(***************************************************************************)
(* A row that is running.                                                  *)
(***************************************************************************)

(* Whoever is in the table was received; a row whose identifier collided   *)
(* does not say "running".                                                 *)
PendingOK ==
  \A k \in DOMAIN pending :
    /\ state[pending[k].call] # "new"
    /\ Uncertain(pending[k]) => shown[pending[k].call] # "running"

RunningInv == ObserverTypes /\ GenerationOK /\ PendingOK /\ RunningIsPending

(* Every running row of an epoch that is collected is in the table.        *)
LEMMA RunningInTable ==
  ASSUME RunningInv, NEW c \in Requests, shown[c] = "running"
  PROVE  Epoch # 0 /\ \E k \in DOMAIN Table : Table[k].call = c
<1>1. generation = Epoch /\ \E k \in DOMAIN pending : pending[k].call = c
  BY DEF RunningInv, RunningIsPending
<1>2. Table = pending /\ pending # <<>>
  BY <1>1 DEF Table
<1> QED BY <1>1, <1>2 DEF RunningInv, GenerationOK

(* A table whose entries are entries of the last one, with nothing new      *)
(* running, keeps the invariant as long as no running call leaves it.       *)
LEMMA RunningSurvives ==
  ASSUME RunningInv, ObserverTypes', GenerationOK', Server,
         \A c \in Requests : state[c] # "new" => state'[c] # "new",
         \A j \in DOMAIN pending' :
           \/ /\ state'[pending'[j].call] # "new"
              /\ Uncertain(pending'[j]) => shown'[pending'[j].call] # "running"
           \/ \E k \in DOMAIN Table : /\ pending'[j].call = Table[k].call
                                      /\ Uncertain(pending'[j]) => Uncertain(Table[k])
                                      /\ shown'[Table[k].call] = "running" =>
                                           shown[Table[k].call] = "running",
         \A c \in Requests : shown'[c] = "running" =>
           \E j \in DOMAIN pending' : pending'[j].call = c
  PROVE  RunningInv'
<1>1. generation' = Epoch' /\ pending' = Table'
  BY ServerTable DEF RunningInv
<1>2. RunningIsPending'
  BY <1>1 DEF RunningIsPending
<1>3. \A k \in DOMAIN Table :
        /\ Table[k].call \in Requests
        /\ state[Table[k].call] # "new"
        /\ Uncertain(Table[k]) => shown[Table[k].call] # "running"
  <2>1. \A k \in DOMAIN Table : k \in DOMAIN pending /\ Table[k] = pending[k]
    BY DEF Table
  <2> QED BY <2>1, TableTypes DEF RunningInv, PendingOK
<1>4. ASSUME NEW j \in DOMAIN pending'
      PROVE  /\ state'[pending'[j].call] # "new"
             /\ Uncertain(pending'[j]) => shown'[pending'[j].call] # "running"
  BY <1>3
<1>5. PendingOK'
  BY <1>4 DEF PendingOK, Uncertain
<1> QED BY <1>2, <1>5 DEF RunningInv

(* Neither eviction, nor a collision, nor a pause leaves a row running that *)
(* no response and no end of the server would finish.                       *)
THEOREM RunningInductive == ObserverSpec => []RunningInv
<1>1. ObserverInit => PendingOK /\ RunningIsPending
  BY DEF ObserverInit, PendingOK, RunningIsPending
<1>2. RunningInv /\ ObserverTypes' /\ GenerationOK' /\ [ObserverNext]_observerVars
        => RunningInv'
  <2> SUFFICES ASSUME RunningInv, ObserverTypes', GenerationOK',
                      [ObserverNext]_observerVars
               PROVE  RunningInv'
    OBVIOUS
  <2> USE DEF RunningInv
  <2>1. ASSUME NEW c \in Requests, NEW i \in Ids \cup {LongId}, Receive(c, i)
        PROVE  RunningInv'
    <3>1. Server
      BY <2>1 DEF Server
    <3>2. /\ state[c] = "new" /\ state'[c] = "open"
          /\ \A d \in Requests : state[d] # "new" => state'[d] # "new"
      BY <2>1 DEF Receive, ObserverTypes
    <3>3. \A k \in DOMAIN Table : Table[k].call # c
      BY <3>2 DEF PendingOK, Table
    <3>4. CASE Epoch = 0 /\ Unseen(c)
      BY <3>1, <3>2, <3>4, RunningInTable, RunningSurvives DEF Unseen
    <3>5. CASE i = LongId /\ Refused(c)
      <4>1. \A d \in Requests : shown'[d] = "running" => shown[d] = "running"
        BY <3>5 DEF Refused, ObserverTypes
      <4>2. pending' = Table
        BY <3>5 DEF Refused
      <4> QED BY <3>1, <3>2, <4>1, <4>2, RunningInTable, RunningSurvives, TableTypes
    <3>6. CASE Epoch # 0 /\ i \in Ids /\ \E k \in Find(Table, i) : Collide(c, k)
      <4>1. PICK k \in DOMAIN Table : Collide(c, k)
        BY <3>6 DEF Find
      <4>2. /\ DOMAIN pending' = DOMAIN Table
            /\ pending'[k].call = Table[k].call
            /\ \A j \in DOMAIN Table : j # k => pending'[j] = Table[j]
        BY <4>1, CollidedTable, TableTypes
      <4>3. /\ Table[k].call \in Requests /\ shown'[Table[k].call] # "running"
            /\ \A d \in Requests : shown'[d] = "running" => shown[d] = "running"
        BY <4>1, TableTypes DEF Collide, ObserverTypes
      <4>4. \A d \in Requests : shown'[d] = "running" =>
              \E j \in DOMAIN pending' : pending'[j].call = d
        BY <4>2, <4>3, RunningInTable
      <4>5. state'[pending'[k].call] # "new"
        BY <3>2, <4>2, <4>3 DEF PendingOK, Table
      <4>6. ASSUME NEW j \in DOMAIN Table, j # k
            PROVE  /\ pending'[j].call = Table[j].call
                   /\ Uncertain(pending'[j]) => Uncertain(Table[j])
                   /\ shown'[Table[j].call] = "running" => shown[Table[j].call] = "running"
        BY <4>2, <4>3, <4>6, TableTypes
      <4>7. \A j \in DOMAIN pending' :
           \/ /\ state'[pending'[j].call] # "new"
              /\ Uncertain(pending'[j]) => shown'[pending'[j].call] # "running"
           \/ \E l \in DOMAIN Table : /\ pending'[j].call = Table[l].call
                                      /\ Uncertain(pending'[j]) => Uncertain(Table[l])
                                      /\ shown'[Table[l].call] = "running" =>
                                           shown[Table[l].call] = "running"
        BY <4>2, <4>3, <4>5, <4>6
      <4> QED BY <3>1, <3>2, <4>4, <4>7, RunningSurvives
    <3>7. CASE Epoch # 0 /\ i \in Ids /\ Find(Table, i) = {} /\ Track(c, i)
      <4> DEFINE new == [id |-> i, call |-> c, duplicates |-> 1, ambiguous |-> FALSE]
                 last == Len(pending')
      <4>1. PICK gone \in {0, 1} :
              /\ gone = 1 <=> Len(Table) >= MaxPending
              /\ Len(pending') = Len(Table) - gone + 1
              /\ pending' \in Seq(Entry)
              /\ \A j \in 1 .. Len(Table) - gone : pending'[j] = Table[j + gone]
              /\ pending'[Len(Table) - gone + 1] = new
        BY <3>7, TrackedTable
      <4>2. /\ Len(Table) \in Nat /\ DOMAIN Table = 1 .. Len(Table)
            /\ \A k \in DOMAIN Table : Table[k].call \in Requests
        BY TableTypes
      <4>3. /\ DOMAIN pending' = 1 .. last /\ last = Len(Table) - gone + 1
            /\ pending'[last] = new
        BY <4>1
      <4>4. new.call = c /\ ~Uncertain(new)
        BY DEF Uncertain
      <4>5. ASSUME NEW j \in DOMAIN pending', j # last
            PROVE  /\ j + gone \in DOMAIN Table /\ pending'[j] = Table[j + gone]
        BY <4>1, <4>2, <4>3, <4>5
      <4>6. /\ \A d \in Requests : d # c => (shown'[d] = "running" => shown[d] = "running")
            /\ gone = 1 => shown'[Head(Table).call] # "running"
        <5>1. CASE gone = 0
          BY <4>1, <5>1, <3>7 DEF Track, ObserverTypes
        <5>2. CASE gone = 1
          <6>1. Head(Table) = Table[1] /\ 1 \in DOMAIN Table
            BY <4>1, <4>2, <5>2, PendingPositive
          <6> QED BY <4>1, <4>2, <5>2, <6>1, <3>3, <3>7 DEF Track, ObserverTypes
        <5> QED BY <5>1, <5>2
      <4>7. ASSUME NEW d \in Requests, shown'[d] = "running"
            PROVE  \E j \in DOMAIN pending' : pending'[j].call = d
        <5>1. CASE d = c
          <6>1. last \in DOMAIN pending'
            BY <4>1, <4>2, <4>3, PendingPositive
          <6> HIDE DEF new, last
          <6> QED BY <5>1, <6>1, <4>3, <4>4
        <5>2. CASE d # c
          <6>1. PICK k \in DOMAIN Table : Table[k].call = d
            BY <4>6, <4>7, <5>2, RunningInTable
          <6>2. k # gone
            BY <6>1, <4>6, <4>7, <4>2
          <6>3. k - gone \in DOMAIN pending' /\ pending'[k - gone] = Table[k]
            BY <4>1, <4>2, <4>3, <6>2
          <6> QED BY <6>1, <6>3
        <5> QED BY <5>1, <5>2
      <4>8. \A j \in DOMAIN pending' :
           \/ /\ state'[pending'[j].call] # "new"
              /\ Uncertain(pending'[j]) => shown'[pending'[j].call] # "running"
           \/ \E l \in DOMAIN Table : /\ pending'[j].call = Table[l].call
                                      /\ Uncertain(pending'[j]) => Uncertain(Table[l])
                                      /\ shown'[Table[l].call] = "running" =>
                                           shown[Table[l].call] = "running"
        <5> HIDE DEF new, last
        <5> QED BY <3>2, <3>3, <4>2, <4>3, <4>4, <4>5, <4>6
      <4> QED BY <3>1, <3>2, <4>7, <4>8, RunningSurvives
    <3> QED BY <2>1, <3>4, <3>5, <3>6, <3>7, ReceiveCases
  <2>2. ASSUME NEW c \in Requests, Send(c) PROVE RunningInv'
    <3>1. Server
      BY <2>2 DEF Server
    <3>2. \A d \in Requests : state[d] # "new" => state'[d] # "new"
      BY <2>2 DEF Send, ObserverTypes
    <3>3. CASE Missed
      BY <3>1, <3>2, <3>3, RunningInTable, RunningSurvives DEF Missed
    <3>4. ASSUME NEW k \in DOMAIN Table, Lessened(k) PROVE RunningInv'
      <4>1. /\ DOMAIN pending' = DOMAIN Table /\ shown' = shown
            /\ \A j \in DOMAIN Table : pending'[j].call = Table[j].call
            /\ \A j \in DOMAIN Table : Uncertain(pending'[j]) => Uncertain(Table[j])
        <5>1. /\ pending' \in Seq(Entry) /\ Len(pending') = Len(Table)
              /\ \A j \in DOMAIN Table : j # k => pending'[j] = Table[j]
              /\ pending'[k].call = Table[k].call
          BY <3>4, DiscountedTable DEF Lessened
        <5>2. DOMAIN pending' = DOMAIN Table
          BY <5>1, TableTypes
        <5>3. Uncertain(Table[k]) /\ shown' = shown
          BY <3>4 DEF Lessened
        <5> QED BY <5>1, <5>2, <5>3
      <4> QED BY <3>1, <3>2, <4>1, RunningInTable, RunningSurvives
    <3>5. ASSUME NEW k \in DOMAIN Table, Dropped(k) \/ Attached(k, c)
          PROVE  RunningInv'
      <4>1. /\ DOMAIN pending' = 1 .. Len(Table) - 1
            /\ \A j \in DOMAIN pending' :
                 pending'[j] = IF j < k THEN Table[j] ELSE Table[j + 1]
        <5>1. pending' = RemoveAt(Table, k)
          BY <3>5 DEF Dropped, Attached
        <5> QED BY <5>1, TableTypes, RemoveAtProperties
      <4>2. Len(Table) \in Nat /\ DOMAIN Table = 1 .. Len(Table)
        BY TableTypes
      <4>3. /\ \A d \in Requests : shown'[d] = "running" => shown[d] = "running"
            /\ shown'[Table[k].call] # "running"
        <5>1. CASE Dropped(k)
          BY <5>1 DEF Dropped, PendingOK, Table
        <5>2. CASE Attached(k, c)
          BY <5>2, TableTypes DEF Attached, ObserverTypes
        <5> QED BY <3>5, <5>1, <5>2
      <4>4. ASSUME NEW d \in Requests, shown'[d] = "running"
            PROVE  \E j \in DOMAIN pending' : pending'[j].call = d
        <5>1. PICK l \in DOMAIN Table : Table[l].call = d
          BY <4>3, <4>4, RunningInTable
        <5>2. l # k
          BY <5>1, <4>3, <4>4
        <5>3. CASE l < k
          <6>1. l \in DOMAIN pending' /\ pending'[l] = Table[l]
            BY <4>1, <4>2, <5>3
          <6> QED BY <5>1, <6>1
        <5>4. CASE l > k
          <6>1. l - 1 \in DOMAIN pending' /\ pending'[l - 1] = Table[l]
            BY <4>1, <4>2, <5>4
          <6> QED BY <5>1, <6>1
        <5> QED BY <5>2, <5>3, <5>4, <4>2
      <4>5. ASSUME NEW j \in DOMAIN pending'
            PROVE  \E l \in DOMAIN Table : pending'[j] = Table[l]
        BY <4>1, <4>2
      <4>6. \A l \in DOMAIN Table : Table[l].call \in Requests
        BY TableTypes
      <4> QED BY <3>1, <3>2, <4>3, <4>4, <4>5, <4>6, RunningSurvives
    <3> QED BY <2>2, <3>3, <3>4, <3>5, SendCases
  <2>3. CASE Finish
    <3>1. Server /\ pending' = <<>>
      BY <2>3 DEF Finish, Server
    <3>2. \A d \in Requests : state[d] # "new" => state'[d] # "new"
      BY <2>3 DEF Finish
    <3>3. \A d \in Requests : shown'[d] # "running"
      BY <2>3, RunningInTable DEF Finish
    <3> QED BY <3>1, <3>2, <3>3, RunningSurvives
  <2>4. CASE Desktop
    <3>1. pending' = pending /\ state' = state
      BY <2>4, DesktopTable
    <3>2. \A c \in Requests : shown'[c] # "running"
      BY <2>4 DEF Desktop, Turn, Clear
    <3>3. ASSUME NEW k \in DOMAIN pending PROVE pending[k].call \in Requests
      <4>1. pending[k] \in Entry
        BY DEF ObserverTypes
      <4> QED BY <4>1 DEF Entry
    <3> QED BY <3>1, <3>2, <3>3 DEF PendingOK, RunningIsPending, Uncertain
  <2>5. CASE UNCHANGED observerVars
    BY <2>5 DEF observerVars, PendingOK, RunningIsPending, Uncertain, Epoch
  <2> QED BY <2>1, <2>2, <2>3, <2>4, <2>5 DEF ObserverNext, Server
<1> QED BY <1>1, <1>2, ObserverTypesKept, PTL DEF ObserverSpec, RunningInv

(***************************************************************************)
(* Whose response is in a row.                                             *)
(***************************************************************************)

(* The open calls of an identifier that the table has not lost sight of.   *)
Counted(i) == {c \in Requests : state[c] = "open" /\ id[c] = i /\ c \notin forgotten}

(* An identifier's entry counts them, and is certain only of its own call. *)
CountedOK(i) ==
  /\ Find(Table, i) = {} => Counted(i) = {}
  /\ \A k \in Find(Table, i) :
       /\ IsFiniteSet(Counted(i))
       /\ Cardinality(Counted(i)) <= Table[k].duplicates
       /\ ~Uncertain(Table[k]) => Counted(i) \subseteq {Table[k].call}

SingleEntries == \A k, l \in DOMAIN Table : Table[k].id = Table[l].id => k = l

MismatchInv ==
  /\ ObserverTypes /\ GenerationOK /\ SingleEntries /\ OnlyForgottenMismatch
  /\ \A i \in Ids : CountedOK(i)

(* An entry that stays as it is, while no new call of its identifier opens, *)
(* still counts what is left.                                               *)
LEMMA CountKept ==
  ASSUME MismatchInv, NEW i \in Ids, Table' = pending', Counted(i)' \subseteq Counted(i),
         \A j \in Find(pending', i) : \E k \in Find(Table, i) : pending'[j] = Table[k],
         Find(pending', i) = {} => Counted(i)' = {}
  PROVE  CountedOK(i)'
<1>1. ASSUME NEW j \in Find(pending', i)
      PROVE  /\ IsFiniteSet(Counted(i)')
             /\ Cardinality(Counted(i)') <= pending'[j].duplicates
             /\ ~Uncertain(pending'[j]) => Counted(i)' \subseteq {pending'[j].call}
  <2>1. PICK k \in Find(Table, i) : pending'[j] = Table[k]
    OBVIOUS
  <2>2. /\ IsFiniteSet(Counted(i)) /\ Cardinality(Counted(i)) <= Table[k].duplicates
        /\ ~Uncertain(Table[k]) => Counted(i) \subseteq {Table[k].call}
        /\ Table[k].duplicates \in Nat
    BY TableTypes DEF MismatchInv, CountedOK, Find
  <2>3. /\ IsFiniteSet(Counted(i)') /\ Cardinality(Counted(i)') <= Cardinality(Counted(i))
        /\ Cardinality(Counted(i)') \in Nat /\ Cardinality(Counted(i)) \in Nat
    BY <2>2, FS_Subset, FS_CardinalityType
  <2> QED BY <2>1, <2>2, <2>3
<1> QED BY <1>1 DEF CountedOK, Find, Uncertain

(* A row has the response of its own call, unless a call that the table had *)
(* lost sight of has the same identifier.                                   *)
THEOREM MismatchInductive == ObserverSpec => []MismatchInv
<1>1. ObserverInit => SingleEntries /\ OnlyForgottenMismatch /\ \A i \in Ids : CountedOK(i)
  <2> SUFFICES ASSUME ObserverInit
               PROVE  SingleEntries /\ OnlyForgottenMismatch /\ \A i \in Ids : CountedOK(i)
    OBVIOUS
  <2>1. Table = <<>> /\ \A i \in Ids : Counted(i) = {}
    BY DEF ObserverInit, Table, Counted
  <2> QED BY <2>1 DEF ObserverInit, SingleEntries, OnlyForgottenMismatch, CountedOK, Find
<1>2. MismatchInv /\ ObserverTypes' /\ GenerationOK' /\ [ObserverNext]_observerVars
        => MismatchInv'
  <2> SUFFICES ASSUME MismatchInv, ObserverTypes', GenerationOK',
                      [ObserverNext]_observerVars
               PROVE  SingleEntries' /\ OnlyForgottenMismatch' /\ \A i \in Ids : CountedOK(i)'
    BY DEF MismatchInv
  <2>0. ObserverTypes /\ GenerationOK /\ SingleEntries /\ OnlyForgottenMismatch
        /\ \A i \in Ids : CountedOK(i)
    BY DEF MismatchInv
  <2> DEFINE Goal == /\ SingleEntries' /\ OnlyForgottenMismatch'
                     /\ \A i \in Ids : CountedOK(i)'
  <2>t. /\ DOMAIN Table = 1 .. Len(Table) /\ Len(Table) \in Nat
        /\ \A k \in DOMAIN Table : /\ Table[k].id \in Ids /\ Table[k].call \in Requests
                                   /\ Table[k].duplicates \in Nat \ {0}
    BY <2>0, TableTypes
  <2>1. ASSUME NEW c \in Requests, NEW i \in Ids \cup {LongId}, Receive(c, i)
        PROVE  Goal
    <3>1. Server /\ Table' = pending'
      BY <2>1, <2>0, ServerTable DEF Server
    <3>2. /\ state[c] = "new" /\ state' = [state EXCEPT ![c] = "open"]
          /\ id' = [id EXCEPT ![c] = i] /\ response' = response
      BY <2>1 DEF Receive, Track
    <3>u. forgotten \subseteq forgotten'
      BY <2>0, <2>1, ReceiveCases DEF Unseen, Refused, Collide, Track
    <3>3. OnlyForgottenMismatch'
      BY <2>0, <3>2, <3>u DEF OnlyForgottenMismatch
    <3>4. \A o \in Ids : Counted(o)' \subseteq Counted(o) \cup {c}
      BY <2>0, <3>2, <3>u DEF Counted, ObserverTypes
    <3>5. \A o \in Ids : o # i => Counted(o)' \subseteq Counted(o)
      BY <2>0, <3>2, <3>u DEF Counted, ObserverTypes
    <3>6. CASE Epoch = 0 /\ Unseen(c)
      <4>1. pending' = Table /\ SingleEntries'
        BY <2>0, <3>1, <3>6 DEF Unseen, SingleEntries
      <4>2. \A o \in Ids : Counted(o)' \subseteq Counted(o)
        BY <3>4, <3>6 DEF Unseen, Counted
      <4>3. ASSUME NEW o \in Ids PROVE CountedOK(o)'
        <5>1. Find(Table, o) = {} => Counted(o) = {}
          BY <2>0 DEF CountedOK
        <5> QED BY <3>1, <4>1, <4>2, <5>1, CountKept
      <4> QED BY <3>3, <4>1, <4>3
    <3>7. CASE i = LongId /\ Refused(c)
      <4>1. pending' = Table /\ SingleEntries'
        BY <2>0, <3>1, <3>7 DEF Refused, SingleEntries
      <4>2. \A o \in Ids : Counted(o)' \subseteq Counted(o)
        BY <3>5, <3>7, DistinctIds
      <4>3. ASSUME NEW o \in Ids PROVE CountedOK(o)'
        <5>1. Find(Table, o) = {} => Counted(o) = {}
          BY <2>0 DEF CountedOK
        <5> QED BY <3>1, <4>1, <4>2, <5>1, CountKept
      <4> QED BY <3>3, <4>1, <4>3
    <3>8. CASE Epoch # 0 /\ i \in Ids /\ \E k \in Find(Table, i) : Collide(c, k)
      <4>1. PICK k \in Find(Table, i) : Collide(c, k)
        BY <3>8
      <4>2. k \in DOMAIN Table /\ Table[k].id = i
        BY DEF Find
      <4>3. /\ pending' \in Seq(Entry) /\ Len(pending') = Len(Table)
            /\ \A j \in DOMAIN Table : j # k => pending'[j] = Table[j]
            /\ pending'[k].id = Table[k].id
            /\ pending'[k].duplicates = Table[k].duplicates + 1
        BY <2>0, <4>1, <4>2, CollidedTable
      <4>4. /\ DOMAIN pending' = DOMAIN Table
            /\ \A j \in DOMAIN Table : pending'[j].id = Table[j].id
        BY <2>t, <4>3
      <4>5. SingleEntries'
        BY <2>0, <3>1, <4>4 DEF SingleEntries
      <4>6. ASSUME NEW o \in Ids, o # i PROVE CountedOK(o)'
        <5>1. Find(pending', o) = Find(Table, o)
          BY <4>4 DEF Find
        <5>2. \A j \in Find(Table, o) : pending'[j] = Table[j]
          BY <4>2, <4>3, <4>6 DEF Find
        <5>3. Find(Table, o) = {} => Counted(o) = {}
          BY <2>0 DEF CountedOK
        <5> QED BY <3>1, <3>5, <4>6, <5>1, <5>2, <5>3, CountKept
      <4>7. ASSUME i \in Ids PROVE CountedOK(i)'
        <5>1. Find(pending', i) = {k}
          BY <2>0, <4>2, <4>4 DEF Find, SingleEntries
        <5>2. /\ IsFiniteSet(Counted(i)) /\ Cardinality(Counted(i)) <= Table[k].duplicates
              /\ Table[k].duplicates \in Nat \ {0}
          BY <2>0, <2>t, <4>1, <4>2, <4>7 DEF CountedOK
        <5>3. /\ IsFiniteSet(Counted(i) \cup {c})
              /\ Cardinality(Counted(i) \cup {c}) <= Cardinality(Counted(i)) + 1
              /\ Cardinality(Counted(i)) \in Nat
          <6>1. Cardinality(Counted(i)) \in Nat
            BY <5>2, FS_CardinalityType
          <6>2. /\ IsFiniteSet(Counted(i) \cup {c})
                /\ Cardinality(Counted(i) \cup {c}) =
                     IF c \in Counted(i) THEN Cardinality(Counted(i))
                                         ELSE Cardinality(Counted(i)) + 1
            BY <5>2, FS_AddElement
          <6> QED BY <6>1, <6>2
        <5>4. /\ IsFiniteSet(Counted(i)')
              /\ Cardinality(Counted(i)') <= Cardinality(Counted(i) \cup {c})
              /\ Cardinality(Counted(i)') \in Nat
              /\ Cardinality(Counted(i) \cup {c}) \in Nat
          BY <3>4, <4>7, <5>3, FS_Subset, FS_CardinalityType
        <5>5. /\ Cardinality(Counted(i)') <= pending'[k].duplicates
              /\ pending'[k].duplicates > 1
          BY <4>3, <5>2, <5>3, <5>4
        <5> QED BY <3>1, <5>1, <5>4, <5>5 DEF CountedOK, Find, Uncertain
      <4> QED BY <3>3, <3>8, <4>5, <4>6, <4>7
    <3>9. CASE Epoch # 0 /\ i \in Ids /\ Find(Table, i) = {} /\ Track(c, i)
      <4> DEFINE new == [id |-> i, call |-> c, duplicates |-> 1, ambiguous |-> FALSE]
                 last == Len(pending')
      <4>1. PICK gone \in {0, 1} :
              /\ gone = 1 <=> Len(Table) >= MaxPending
              /\ Len(pending') = Len(Table) - gone + 1
              /\ pending' \in Seq(Entry)
              /\ \A j \in 1 .. Len(Table) - gone : pending'[j] = Table[j + gone]
              /\ pending'[Len(Table) - gone + 1] = new
        BY <2>0, <3>9, TrackedTable
      <4>2. gone = 1 => 1 \in DOMAIN Table /\ Head(Table) = Table[1]
        BY <4>1, <2>t, PendingPositive
      <4>3. /\ DOMAIN pending' = 1 .. last /\ last = Len(Table) - gone + 1
            /\ pending'[last] = new /\ last \in DOMAIN pending'
        BY <4>1, <2>t, PendingPositive
      <4>4. /\ new.id = i /\ new.call = c /\ new.duplicates = 1
            /\ i \in Ids /\ \A k \in DOMAIN Table : Table[k].id # i
        BY <3>9 DEF Find
      <4>5. ASSUME NEW j \in DOMAIN pending', j # last
            PROVE  /\ j + gone \in DOMAIN Table /\ pending'[j] = Table[j + gone]
        <5>1. j \in 1 .. Len(Table) - gone
          BY <4>1, <4>3, <4>5, <2>t
        <5>2. j + gone \in DOMAIN Table
          BY <5>1, <2>t
        <5> QED BY <4>1, <5>1, <5>2
      <4>6. SingleEntries'
        <5> SUFFICES ASSUME NEW j \in DOMAIN pending', NEW l \in DOMAIN pending',
                            pending'[j].id = pending'[l].id
                     PROVE  j = l
          BY <3>1 DEF SingleEntries
        <5>1. j \in Int /\ l \in Int
          BY <4>1, <4>3, <2>t
        <5> HIDE DEF new, last
        <5>2. CASE j = last \/ l = last
          BY <4>3, <4>4, <4>5, <5>2
        <5>3. CASE j # last /\ l # last
          <6>1. /\ j + gone \in DOMAIN Table /\ l + gone \in DOMAIN Table
                /\ Table[j + gone].id = Table[l + gone].id
            BY <4>5, <5>3
          <6>2. j + gone = l + gone
            BY <2>0, <6>1 DEF SingleEntries
          <6> QED BY <4>1, <5>1, <6>2
        <5> QED BY <5>2, <5>3
      <4>7. ASSUME NEW o \in Ids, o # i PROVE CountedOK(o)'
        <5>1. \A j \in Find(pending', o) : \E k \in Find(Table, o) : pending'[j] = Table[k]
          <6> HIDE DEF new, last
          <6> QED BY <4>3, <4>4, <4>5, <4>7 DEF Find
        <5>2. ASSUME Find(pending', o) = {} PROVE Counted(o)' = {}
          <6>1. CASE Find(Table, o) = {}
            BY <6>1, <2>0, <3>5, <4>7 DEF CountedOK
          <6>2. CASE Find(Table, o) # {}
            <7>1. PICK k \in DOMAIN Table : Table[k].id = o
              BY <6>2 DEF Find
            <7>2. ~(k > gone)
              <8> SUFFICES ASSUME k > gone PROVE FALSE
                OBVIOUS
              <8>1. k - gone \in DOMAIN pending' /\ pending'[k - gone] = Table[k]
                BY <4>1, <4>3, <2>t
              <8> QED BY <5>2, <7>1, <8>1 DEF Find
            <7>3. gone = 1 /\ k = 1
              BY <7>2, <4>1, <2>t
            <7>4. Open(o) \subseteq forgotten'
              BY <3>9, <4>1, <4>2, <7>1, <7>3 DEF Track
            <7> QED BY <3>5, <4>7, <7>4, <2>0 DEF Counted, Open, ObserverTypes
          <6> QED BY <6>1, <6>2
        <5> QED BY <3>1, <3>5, <4>7, <5>1, <5>2, CountKept
      <4>8. CountedOK(i)'
        <5>1. Find(pending', i) = {last}
          <6> HIDE DEF new, last
          <6> QED BY <4>3, <4>4, <4>5 DEF Find
        <5>2. Counted(i) = {}
          BY <2>0, <3>9 DEF CountedOK
        <5>3. Counted(i)' \subseteq {c}
          BY <3>4, <3>9, <5>2
        <5>4. IsFiniteSet({c}) /\ Cardinality({c}) = 1
          BY FS_Singleton
        <5>5. IsFiniteSet(Counted(i)') /\ Cardinality(Counted(i)') <= 1
          BY <5>3, <5>4, FS_Subset
        <5>6. pending'[last].duplicates = 1 /\ pending'[last].call = c
          BY <4>3, <4>4
        <5> HIDE DEF new, last
        <5> QED BY <3>1, <5>1, <5>3, <5>5, <5>6 DEF CountedOK, Find, Uncertain
      <4> QED BY <3>3, <4>6, <4>7, <4>8
    <3> QED BY <2>0, <2>1, <3>6, <3>7, <3>8, <3>9, ReceiveCases
  <2>2. ASSUME NEW c \in Requests, Send(c) PROVE Goal
    <3>1. Server /\ Table' = pending'
      BY <2>2, <2>0, ServerTable DEF Server
    <3>2. /\ state[c] = "open" /\ state' = [state EXCEPT ![c] = "answered"]
          /\ id' = id /\ forgotten' = IF c \in forgotten THEN forgotten \cup Open(id[c])
                                                         ELSE forgotten
      BY <2>2 DEF Send
    <3>3. \A o \in Ids : /\ Counted(o)' \subseteq Counted(o)
                         /\ o = id[c] => /\ c \in forgotten => Counted(o)' = {}
                                         /\ Counted(o)' = Counted(o) \ {c}
                                            \/ c \in forgotten
                                         /\ c \notin forgotten => c \in Counted(o)
      BY <2>0, <3>2 DEF Counted, Open, ObserverTypes
    <3>4. CASE (Epoch = 0 \/ Find(Table, id[c]) = {}) /\ Missed
      <4>1. pending' = Table /\ response' = response
        BY <3>4 DEF Missed
      <4>2. SingleEntries' /\ OnlyForgottenMismatch'
        BY <2>0, <3>1, <3>2, <4>1 DEF SingleEntries, OnlyForgottenMismatch
      <4>3. ASSUME NEW o \in Ids PROVE CountedOK(o)'
        <5>1. Find(Table, o) = {} => Counted(o) = {}
          BY <2>0 DEF CountedOK
        <5> QED BY <3>1, <3>3, <4>1, <5>1, CountKept
      <4> QED BY <4>2, <4>3
    <3>5. ASSUME NEW k \in Find(Table, id[c]), Lessened(k) PROVE Goal
      <4>1. k \in DOMAIN Table /\ Table[k].id = id[c] /\ id[c] \in Ids
        BY <2>t DEF Find
      <4>2. /\ pending' \in Seq(Entry) /\ Len(pending') = Len(Table)
            /\ \A j \in DOMAIN Table : j # k => pending'[j] = Table[j]
            /\ pending'[k].id = Table[k].id
            /\ pending'[k].duplicates = Table[k].duplicates - 1
            /\ pending'[k].ambiguous = TRUE
        BY <2>0, <3>5, <4>1, DiscountedTable DEF Lessened
      <4>3. /\ DOMAIN pending' = DOMAIN Table
            /\ \A j \in DOMAIN Table : pending'[j].id = Table[j].id
        BY <2>t, <4>2
      <4>4. response' = response /\ Table[k].duplicates # 1
        BY <3>5 DEF Lessened
      <4>5. SingleEntries' /\ OnlyForgottenMismatch'
        BY <2>0, <3>1, <3>2, <4>3, <4>4 DEF SingleEntries, OnlyForgottenMismatch
      <4>6. ASSUME NEW o \in Ids, o # id[c] PROVE CountedOK(o)'
        <5>1. Find(pending', o) = Find(Table, o)
          BY <4>3 DEF Find
        <5>2. \A j \in Find(Table, o) : pending'[j] = Table[j]
          BY <4>1, <4>2, <4>6 DEF Find
        <5>3. Find(Table, o) = {} => Counted(o) = {}
          BY <2>0 DEF CountedOK
        <5> QED BY <3>1, <3>3, <5>1, <5>2, <5>3, CountKept
      <4>7. ASSUME NEW o \in Ids, o = id[c] PROVE CountedOK(o)'
        <5>1. Find(pending', o) = {k}
          BY <2>0, <4>1, <4>3, <4>7 DEF Find, SingleEntries
        <5>2. /\ IsFiniteSet(Counted(o)) /\ Cardinality(Counted(o)) <= Table[k].duplicates
              /\ Table[k].duplicates \in Nat \ {0} /\ Cardinality(Counted(o)) \in Nat
          BY <2>0, <2>t, <4>1, <4>7, FS_CardinalityType DEF CountedOK
        <5>3. IsFiniteSet(Counted(o)') /\ Cardinality(Counted(o)') <= Table[k].duplicates - 1
          <6>1. CASE c \in forgotten
            <7>1. Counted(o)' = {}
              BY <3>3, <4>7, <6>1
            <7>2. IsFiniteSet(Counted(o)') /\ Cardinality(Counted(o)') = 0
              BY <7>1, FS_EmptySet
            <7> QED BY <5>2, <7>2
          <6>2. CASE c \notin forgotten
            <7>1. /\ IsFiniteSet(Counted(o) \ {c})
                  /\ Cardinality(Counted(o) \ {c}) = Cardinality(Counted(o)) - 1
              BY <3>3, <4>7, <5>2, <6>2, FS_RemoveElement
            <7> QED BY <3>3, <4>7, <5>2, <6>2, <7>1
          <6> QED BY <6>1, <6>2
        <5> QED BY <3>1, <4>2, <5>1, <5>3 DEF CountedOK, Find, Uncertain
      <4> QED BY <4>5, <4>6, <4>7
    <3>6. ASSUME NEW k \in Find(Table, id[c]), Dropped(k) \/ Attached(k, c) PROVE Goal
      <4>1. k \in DOMAIN Table /\ Table[k].id = id[c] /\ id[c] \in Ids
        BY <2>t DEF Find
      <4>2. /\ DOMAIN pending' = 1 .. Len(Table) - 1
            /\ \A j \in DOMAIN pending' :
                 pending'[j] = IF j < k THEN Table[j] ELSE Table[j + 1]
        <5>1. pending' = RemoveAt(Table, k)
          BY <3>6 DEF Dropped, Attached
        <5>2. Table \in Seq(Entry)
          BY <2>0, TableTypes
        <5>3. /\ RemoveAt(Table, k) \in Seq(Entry)
              /\ Len(RemoveAt(Table, k)) = Len(Table) - 1
              /\ \A j \in DOMAIN RemoveAt(Table, k) :
                   RemoveAt(Table, k)[j] = IF j < k THEN Table[j] ELSE Table[j + 1]
          BY <4>1, <5>2, RemoveAtProperties
        <5> QED BY <5>1, <5>3
      <4>3. ASSUME NEW j \in DOMAIN pending'
            PROVE  \E l \in DOMAIN Table : /\ l # k /\ pending'[j] = Table[l]
                                           /\ l = (IF j < k THEN j ELSE j + 1)
        BY <4>1, <4>2, <2>t
      <4>4. SingleEntries'
        <5> SUFFICES ASSUME NEW j \in DOMAIN pending', NEW l \in DOMAIN pending',
                            pending'[j].id = pending'[l].id
                     PROVE  j = l
          BY <3>1 DEF SingleEntries
        <5>1. PICK a \in DOMAIN Table : /\ pending'[j] = Table[a]
                                        /\ a = (IF j < k THEN j ELSE j + 1)
          BY <4>3
        <5>2. PICK b \in DOMAIN Table : /\ pending'[l] = Table[b]
                                        /\ b = (IF l < k THEN l ELSE l + 1)
          BY <4>3
        <5>3. a = b
          BY <5>1, <5>2, <2>0 DEF SingleEntries
        <5> QED BY <5>1, <5>2, <5>3, <4>1, <4>2, <2>t
      <4>5. Find(pending', id[c]) = {}
        BY <2>0, <4>1, <4>3 DEF Find, SingleEntries
      <4>6. /\ IsFiniteSet(Counted(id[c])) /\ Cardinality(Counted(id[c])) <= Table[k].duplicates
            /\ ~Uncertain(Table[k]) => Counted(id[c]) \subseteq {Table[k].call}
        <5>1. CountedOK(id[c])
          BY <2>0, <4>1
        <5> QED BY <5>1 DEF CountedOK
      <4>7. c \notin forgotten => Counted(id[c]) = {c}
        <5>1. CASE Dropped(k) /\ c \notin forgotten
          <6>1. Table[k].duplicates = 1 /\ c \in Counted(id[c])
            BY <3>3, <4>1, <5>1 DEF Dropped
          <6>2. Cardinality(Counted(id[c])) \in Nat /\ Cardinality(Counted(id[c])) # 0
            BY <4>6, <6>1, FS_EmptySet, FS_CardinalityType
          <6>3. Cardinality(Counted(id[c])) = 1
            BY <4>6, <6>1, <6>2
          <6> QED BY <4>6, <6>1, <6>3, FS_Singleton
        <5>2. CASE Attached(k, c) /\ c \notin forgotten
          BY <3>3, <4>1, <4>6, <5>2 DEF Attached
        <5> QED BY <3>6, <5>1, <5>2
      <4>8. ASSUME NEW o \in Ids PROVE CountedOK(o)'
        <5>1. \A j \in Find(pending', o) : \E l \in Find(Table, o) : pending'[j] = Table[l]
          BY <4>3 DEF Find
        <5>2. ASSUME Find(pending', o) = {} PROVE Counted(o)' = {}
          <6>1. CASE o = id[c]
            BY <3>3, <4>7, <6>1
          <6>2. CASE o # id[c]
            <7>1. ASSUME NEW l \in Find(Table, o) PROVE FALSE
              <8>1. l \in DOMAIN Table /\ Table[l].id = o /\ l # k
                BY <4>1, <6>2 DEF Find
              <8>2. CASE l < k
                <9>1. l \in DOMAIN pending' /\ pending'[l] = Table[l]
                  BY <4>1, <4>2, <8>1, <8>2, <2>t
                <9> QED BY <5>2, <8>1, <9>1 DEF Find
              <8>3. CASE l > k
                <9>1. l - 1 \in DOMAIN pending' /\ pending'[l - 1] = Table[l]
                  BY <4>1, <4>2, <8>1, <8>3, <2>t
                <9> QED BY <5>2, <8>1, <9>1 DEF Find
              <8> QED BY <4>1, <8>1, <8>2, <8>3, <2>t
            <7>2. Counted(o) = {}
              BY <2>0, <7>1 DEF CountedOK
            <7> QED BY <3>3, <7>2
          <6> QED BY <6>1, <6>2
        <5> QED BY <3>1, <3>3, <5>1, <5>2, CountKept
      <4>9. OnlyForgottenMismatch'
        <5>1. forgotten \subseteq forgotten' /\ (c \in forgotten => c \in forgotten')
          BY <3>2
        <5>2. CASE Dropped(k)
          BY <2>0, <5>1, <5>2 DEF OnlyForgottenMismatch, Dropped
        <5>3. CASE Attached(k, c)
          <6>1. /\ response' = [response EXCEPT ![Table[k].call] = c]
                /\ c \notin forgotten => Table[k].call = c
            BY <4>6, <4>7, <5>3 DEF Attached
          <6>2. ASSUME NEW d \in Requests
                PROVE  response'[d] \in {Absent, d} \cup forgotten'
            BY <2>0, <5>1, <6>1 DEF OnlyForgottenMismatch, ObserverTypes
          <6> QED BY <6>2 DEF OnlyForgottenMismatch
        <5> QED BY <3>6, <5>2, <5>3
      <4> QED BY <4>4, <4>8, <4>9
    <3> QED BY <2>0, <2>2, <3>4, <3>5, <3>6, SendCases
  <2>3. CASE Finish
    <3>1. /\ Server /\ pending' = <<>> /\ response' = response /\ forgotten' = forgotten
          /\ \A d \in Requests : state'[d] # "open"
      BY <2>3 DEF Finish, Server
    <3>2. Table' = <<>> /\ \A i \in Ids : Counted(i)' = {}
      BY <2>0, <3>1, ServerTable DEF Counted
    <3> QED BY <2>0, <3>1, <3>2
            DEF SingleEntries, OnlyForgottenMismatch, CountedOK, Find
  <2>4. CASE Desktop
    <3>1. /\ Table' = <<>> /\ forgotten' = forgotten \cup AllOpen
          /\ id' = id /\ state' = state
      BY <2>0, <2>4, DesktopTable
    <3>2. \A i \in Ids : Counted(i)' = {}
      BY <3>1 DEF Counted, AllOpen
    <3>3. OnlyForgottenMismatch'
      BY <2>0, <2>4, <3>1 DEF Desktop, Turn, Clear, OnlyForgottenMismatch
    <3> QED BY <3>1, <3>2, <3>3 DEF SingleEntries, CountedOK, Find
  <2>5. CASE UNCHANGED observerVars
    <3>1. Table' = Table /\ \A i \in Ids : Counted(i)' = Counted(i)
      BY <2>5 DEF observerVars, Table, Epoch, Counted
    <3> QED BY <2>0, <2>5, <3>1
            DEF observerVars, SingleEntries, OnlyForgottenMismatch, CountedOK, Find, Uncertain
  <2> QED BY <2>1, <2>2, <2>3, <2>4, <2>5 DEF ObserverNext, Server
<1> QED BY <1>1, <1>2, ObserverTypesKept, PTL DEF ObserverSpec, MismatchInv

(* A row that says "running" belongs to a call that is still pending, for   *)
(* every bound of the table.                                                *)
THEOREM RunningPending == ObserverSpec => []RunningIsPending
BY RunningInductive, PTL DEF RunningInv

(* A row has the response of another call only when the table had lost      *)
(* sight of that call.                                                      *)
THEOREM NoGuessing == ObserverSpec => []OnlyForgottenMismatch
BY MismatchInductive, PTL DEF MismatchInv
=============================================================================
