------------------------- MODULE DeveloperVmProofs --------------------------
(***************************************************************************)
(* Proofs about DeveloperVm for any number of runs and failures.  The      *)
(* inductive invariant says what the messages on the pipes stand for: a    *)
(* guard works on the first message of its inbox; a start waits there only *)
(* for a run that has had no reply at all; and a positive reply to a run   *)
(* that was started comes from a stop that has seen its machine gone.      *)
(***************************************************************************)
EXTENDS DeveloperVm, SequenceTheorems, TLAPS

Working == {"list", "launch", "check", "stop", "command", "verify"}

(* A guard works on the first message of its inbox, for runs of its own. *)
LocalOK(g, d) ==
  /\ \A i \in 1..Len(d.inbox) : GuardOf(d.inbox[i][2]) = g
  /\ d.id # 0 => GuardOf(d.id) = g
  /\ d.at \in {"list", "launch", "check"} => d.job = "start"
  /\ d.at \in Working => d.job # "none"
  /\ d.at \in Working /\ d.job # "final" => d.inbox # << >>
  /\ d.at \in Working /\ d.job \in {"start", "stop"} => d.inbox[1][1] = d.job
  /\ d.at = "launch" => d.id = d.inbox[1][2]
  /\ d.at = "over" => d.id = 0

GuardOK(g) == LocalOK(g, guard[g])

Box(r) == guard[GuardOf(r)].inbox
Fresh(r) == ~run[r].answered /\ run[r].replies = << >>
Quiet(r) == \A i \in 1..Len(Box(r)) : Box(r)[i][2] # r

(* What the messages of a run, and the replies to it, stand for. *)
RunOK(r) ==
  /\ run[r].at = "idle" => ~run[r].open /\ (~shared => guard[r].at = "none" /\ guard[r].id = 0)
  /\ run[r].at \in {"idle", "connected"} => Fresh(r) /\ Quiet(r)
  /\ run[r].at = "starting" => ~run[r].answered
  /\ run[r].at \in {"polling", "stopping", "again"} => run[r].answered
  /\ ~run[r].answered => Len(run[r].replies) <= 1
  /\ \A i \in 1..Len(Box(r)) :
       /\ Box(r)[i] = <<"stop", r>> => run[r].answered
       /\ Box(r)[i] = <<"start", r>> =>
            Fresh(r) /\ \A j \in 1..Len(Box(r)) : Box(r)[j] = <<"start", r>> => i = j
  /\ run[r].answered /\ (\E i \in 1..Len(run[r].replies) : run[r].replies[i]) => r \notin on
  /\ run[r].answered /\ run[r].at \in {"closing", "awaiting", "finished"}
       /\ run[r].error # "unconfirmed" => r \notin on
  /\ ~shared /\ run[r].at = "finished" /\ run[r].error # "unconfirmed" => guard[r].at = "over"

AppOK == app = "confirmed" => shared /\ guard[1].at = "over"

IInv ==
  /\ VmTypeOK /\ OwnedUntilGone /\ AppOK
  /\ \A g \in Runs : GuardOK(g)
  /\ \A r \in Runs : RunOK(r)

-----------------------------------------------------------------------------
(* The queues, and what the values of the records are.                     *)

(* A message or a reply that is added to a queue, or taken from it, leaves *)
(* the others as they are.                                                 *)
LEMMA Added ==
  ASSUME NEW S, NEW q \in Seq(S), NEW x \in S
  PROVE  /\ Append(q, x) \in Seq(S) /\ Append(q, x) # << >>
         /\ Len(q) \in Nat /\ Len(Append(q, x)) = Len(q) + 1
         /\ \A i \in 1..Len(q) : Append(q, x)[i] = q[i]
         /\ Append(q, x)[Len(q) + 1] = x
BY AppendProperties, LenProperties

(* The first is taken, and the rest moves up. *)
LEMMA Taken ==
  ASSUME NEW S, NEW q \in Seq(S), q # << >>
  PROVE  /\ q[1] \in S /\ Head(q) = q[1] /\ Tail(q) \in Seq(S)
         /\ Len(q) \in Nat /\ Len(q) >= 1 /\ Len(Tail(q)) = Len(q) - 1
         /\ \A i \in 1..Len(Tail(q)) : Tail(q)[i] = q[i + 1]
BY HeadTailProperties, EmptySeq, ElementOfSeq

(* A new guard and a new run are well-typed. *)
LEMMA NewTypes ==
  /\ NoGuard \in Guards /\ NewGuard \in Guards /\ NoRun \in RunStates
  /\ NoGuard.inbox = << >> /\ NewGuard.inbox = << >> /\ NoRun.replies = << >>
<1>1. << >> \in Seq(Messages) /\ << >> \in Seq(BOOLEAN)
  BY EmptySeq
<1>2. NoGuard \in Guards /\ NoGuard.inbox = << >>
  BY <1>1 DEF NoGuard, Guards, GuardPlaces, Jobs
<1>3. NewGuard \in Guards /\ NewGuard.inbox = << >>
  BY <1>2 DEF NewGuard, Guards, GuardPlaces
<1>4. NoRun \in RunStates /\ NoRun.replies = << >>
  BY <1>1 DEF NoRun, RunStates, RunPlaces
<1> QED BY <1>2, <1>3, <1>4

-----------------------------------------------------------------------------
(* The steps of a guard.                                                   *)

(* A guard that keeps its inbox, or takes the first message from it.       *)
KeepsOrTakes(g, e) ==
  \/ e.inbox = guard[g].inbox
  \/ guard[g].inbox # << >> /\ e.inbox = Tail(guard[g].inbox)

(* The replies: none, or one to the first message, and a positive one only *)
(* to a start, or to a stop when the machine is gone.                      *)
Replies(g, e) ==
  \/ UNCHANGED run
  \/ \E r \in Runs, op \in {"start", "stop"}, ok \in BOOLEAN :
       /\ guard[g].inbox # << >> /\ e.inbox = Tail(guard[g].inbox)
       /\ guard[g].inbox[1] = <<op, r>>
       /\ run' = [run EXCEPT ![r] = [run[r] EXCEPT !.replies = Append(run[r].replies, ok)]]
       /\ ok /\ op = "stop" => r \notin on'

(* Only a run whose start was not answered gets a machine. *)
StartsUnanswered == on' \subseteq Runs /\ \A r \in on' : r \in on \/ ~run[r].answered

(* What a run sees of a step of a guard keeps what holds of the run. *)
LEMMA RunsKept ==
  ASSUME IInv, NEW g \in Runs, NEW e \in Guards, guard[g].at \in Working \cup {"idle"},
         GuardTo(g, e), UNCHANGED shared, KeepsOrTakes(g, e), Replies(g, e), StartsUnanswered,
         NEW q \in Runs
  PROVE  RunOK(q)' /\ run'[q] \in RunStates
<1> DEFINE d == guard[g]
<1>0. /\ VmTypeOK /\ RunOK(q) /\ GuardOK(g) /\ GuardOf(q) \in Runs /\ d \in Guards
      /\ run[q] \in RunStates /\ GuardOf(q)' = GuardOf(q)
  BY BoundsAssumption DEF IInv, VmTypeOK, GuardOf, Runs
<1>1. guard'[g] = e /\ \A h \in Runs \ {g} : guard'[h] = guard[h]
  BY <1>0 DEF VmTypeOK, GuardTo
<1>2. d.inbox \in Seq(Messages) /\ e.inbox \in Seq(Messages) /\ Len(d.inbox) \in Nat
      /\ Len(e.inbox) \in Nat
  BY <1>0, LenProperties DEF Guards
<1>3. PICK k \in {0, 1} :
        /\ Len(e.inbox) = Len(d.inbox) - k
        /\ \A i \in 1..Len(e.inbox) : e.inbox[i] = d.inbox[i + k] /\ i + k \in 1..Len(d.inbox)
        /\ d.inbox # << >> /\ e.inbox = Tail(d.inbox) => k = 1
  <2>1. CASE d.inbox # << >> /\ e.inbox = Tail(d.inbox)
    <3>1. /\ Len(e.inbox) = Len(d.inbox) - 1
          /\ \A i \in 1..Len(e.inbox) : e.inbox[i] = d.inbox[i + 1]
      BY <1>2, <2>1, Taken
    <3> QED BY <1>2, <3>1
  <2>2. CASE e.inbox = d.inbox /\ ~(d.inbox # << >> /\ e.inbox = Tail(d.inbox))
    <3>1. Len(e.inbox) = Len(d.inbox) /\ \A i \in 1..Len(e.inbox) : e.inbox[i] = d.inbox[i + 0]
      BY <1>2, <2>2
    <3> QED BY <1>2, <2>2, <3>1
  <2> QED BY <2>1, <2>2 DEF KeepsOrTakes
<1>4. PICK l \in {0, 1} :
        /\ Len(Box(q)') = Len(Box(q)) - l
        /\ \A i \in 1..Len(Box(q)') : Box(q)'[i] = Box(q)[i + l] /\ i + l \in 1..Len(Box(q))
        /\ Box(q) \in Seq(Messages)
        /\ GuardOf(q) = g => l = k
  <2>1. CASE GuardOf(q) = g
    BY <1>0, <1>1, <1>2, <1>3, <2>1 DEF Box
  <2>2. CASE GuardOf(q) # g
    <3>1. Box(q)' = Box(q) /\ Box(q) \in Seq(Messages)
      BY <1>0, <1>1, <2>2 DEF Box, VmTypeOK, Guards
    <3> QED BY <2>2, <3>1, LenProperties
  <2> QED BY <2>1, <2>2
<1>5. /\ run'[q].at = run[q].at /\ run'[q].answered = run[q].answered
      /\ run'[q].error = run[q].error /\ run'[q].open = run[q].open
      /\ run'[q] \in RunStates
  <2>1. ASSUME NEW r \in Runs, NEW ok \in BOOLEAN,
               run' = [run EXCEPT ![r] = [run[r] EXCEPT !.replies = Append(run[r].replies, ok)]]
        PROVE  /\ run'[q].at = run[q].at /\ run'[q].answered = run[q].answered
               /\ run'[q].error = run[q].error /\ run'[q].open = run[q].open
               /\ run'[q] \in RunStates
    <3>1. run[r] \in RunStates /\ Append(run[r].replies, ok) \in Seq(BOOLEAN)
      BY <1>0, Added DEF VmTypeOK, RunStates
    <3> QED BY <1>0, <2>1, <3>1 DEF VmTypeOK, RunStates
  <2> QED BY <1>0, <2>1 DEF Replies
(* A reply to q answers the first message of its guard, which is taken. *)
<1>6. \/ run'[q].replies = run[q].replies
      \/ \E op \in {"start", "stop"}, ok \in BOOLEAN :
           /\ GuardOf(q) = g /\ k = 1 /\ 1 \in 1..Len(Box(q)) /\ Box(q)[1] = <<op, q>>
           /\ run'[q].replies = Append(run[q].replies, ok)
           /\ ok /\ op = "stop" => q \notin on'
  <2>1. ASSUME NEW r \in Runs, NEW op \in {"start", "stop"}, NEW ok \in BOOLEAN,
               d.inbox # << >>, e.inbox = Tail(d.inbox), d.inbox[1] = <<op, r>>,
               run' = [run EXCEPT ![r] = [run[r] EXCEPT !.replies = Append(run[r].replies, ok)]],
               ok /\ op = "stop" => r \notin on', run'[q].replies # run[q].replies
        PROVE  /\ GuardOf(q) = g /\ k = 1 /\ 1 \in 1..Len(Box(q)) /\ Box(q)[1] = <<op, q>>
               /\ run'[q].replies = Append(run[q].replies, ok)
               /\ ok /\ op = "stop" => q \notin on'
    <3>1. r = q
      BY <1>0, <2>1 DEF VmTypeOK
    <3>2. run'[q].replies = Append(run[q].replies, ok)
      BY <1>0, <2>1, <3>1 DEF VmTypeOK, RunStates
    <3>3. 1 \in 1..Len(d.inbox)
      BY <1>2, <2>1, Taken
    <3>4. GuardOf(q) = g
      BY <1>0, <2>1, <3>1, <3>3 DEF GuardOK, LocalOK
    <3> QED BY <1>3, <2>1, <3>1, <3>2, <3>3, <3>4 DEF Box
  <2> QED BY <2>1 DEF Replies
<1>7. run[q].replies \in Seq(BOOLEAN) /\ Len(run[q].replies) \in Nat
  BY <1>0, LenProperties DEF RunStates
<1>8. ~shared => (guard'[q] = guard[q] \/ (q = g /\ guard[q].at \notin {"none", "over"}))
  BY <1>1 DEF Working
<1>9. run[q].at = "idle" => ~run'[q].open /\ (~shared' => guard'[q].at = "none" /\ guard'[q].id = 0)
  BY <1>0, <1>5, <1>8 DEF RunOK
<1>10. run[q].at \in {"idle", "connected"} => Fresh(q)' /\ Quiet(q)'
  <2> SUFFICES ASSUME run[q].at \in {"idle", "connected"} PROVE Fresh(q)' /\ Quiet(q)'
    OBVIOUS
  <2>1. Fresh(q) /\ Quiet(q)
    BY <1>0 DEF RunOK
  <2>2. Quiet(q)'
    BY <1>4, <2>1 DEF Quiet
  <2>3. run'[q].replies = run[q].replies
    BY <1>6, <2>1 DEF Quiet
  <2> QED BY <1>5, <2>1, <2>2, <2>3 DEF Fresh
<1>11. ~run[q].answered => Len(run'[q].replies) <= 1
  <2> SUFFICES ASSUME ~run[q].answered, NEW ok \in BOOLEAN,
                      NEW op \in {"start", "stop"}, 1 \in 1..Len(Box(q)), Box(q)[1] = <<op, q>>,
                      run'[q].replies = Append(run[q].replies, ok)
               PROVE  Len(run'[q].replies) <= 1
    BY <1>0, <1>6 DEF RunOK
  <2>1. op = "start"
    BY <1>0 DEF RunOK
  <2>2. run[q].replies = << >>
    BY <1>0, <2>1 DEF RunOK, Fresh
  <2>3. Len(run'[q].replies) = Len(run[q].replies) + 1
    BY <1>7, Added
  <2> QED BY <2>2, <2>3, EmptySeq
<1>12. ASSUME NEW i \in 1..Len(Box(q)')
       PROVE  /\ Box(q)'[i] = <<"stop", q>> => run[q].answered
              /\ Box(q)'[i] = <<"start", q>> =>
                   Fresh(q)' /\ \A j \in 1..Len(Box(q)') : Box(q)'[j] = <<"start", q>> => i = j
  <2>1. Box(q)'[i] = <<"stop", q>> => run[q].answered
    BY <1>0, <1>4 DEF RunOK
  <2>2. ASSUME Box(q)'[i] = <<"start", q>>
        PROVE  Fresh(q)' /\ \A j \in 1..Len(Box(q)') : Box(q)'[j] = <<"start", q>> => i = j
    <3>1. i + l \in 1..Len(Box(q)) /\ Box(q)[i + l] = <<"start", q>>
      BY <1>4, <2>2
    <3>2. Fresh(q) /\ \A j \in 1..Len(Box(q)) : Box(q)[j] = <<"start", q>> => i + l = j
      BY <1>0, <3>1 DEF RunOK
    <3>3. ASSUME NEW j \in 1..Len(Box(q)'), Box(q)'[j] = <<"start", q>> PROVE i = j
      <4>1. j + l \in 1..Len(Box(q)) /\ Box(q)[j + l] = <<"start", q>>
        BY <1>4, <3>3
      <4>2. i + l = j + l
        BY <3>2, <4>1
      <4>3. i \in Int /\ j \in Int
        BY <1>4, LenProperties
      <4> QED BY <4>2, <4>3
    <3>4. run'[q].replies = run[q].replies
      <4> SUFFICES ASSUME NEW op \in {"start", "stop"}, GuardOf(q) = g, k = 1,
                          1 \in 1..Len(Box(q)), Box(q)[1] = <<op, q>>
                   PROVE  FALSE
        BY <1>6
      <4>1. op = "start"
        BY <1>0, <3>2 DEF RunOK, Fresh
      <4>2. i + 1 = 1
        BY <1>4, <3>2, <4>1
      <4> QED BY <4>2, <1>4, LenProperties
    <3> QED BY <1>5, <3>2, <3>3, <3>4 DEF Fresh
  <2> QED BY <2>1, <2>2
<1>13. run[q].answered => (q \in on' => q \in on)
  BY DEF StartsUnanswered
<1>14. run[q].answered /\ (\E i \in 1..Len(run'[q].replies) : run'[q].replies[i]) => q \notin on'
  <2>1. CASE run'[q].replies = run[q].replies
    BY <1>0, <1>13, <2>1 DEF RunOK
  <2>2. ASSUME NEW op \in {"start", "stop"}, NEW ok \in BOOLEAN, run[q].answered,
               1 \in 1..Len(Box(q)), Box(q)[1] = <<op, q>>,
               run'[q].replies = Append(run[q].replies, ok),
               ok /\ op = "stop" => q \notin on',
               NEW i \in 1..Len(run'[q].replies), run'[q].replies[i]
        PROVE  q \notin on'
    <3>1. op = "stop"
      BY <1>0, <2>2 DEF RunOK, Fresh
    <3>2. CASE i \in 1..Len(run[q].replies)
      <4>1. run[q].replies[i]
        BY <1>7, <2>2, <3>2, Added
      <4> QED BY <1>0, <1>13, <2>2, <3>2, <4>1 DEF RunOK
    <3>3. CASE i = Len(run[q].replies) + 1
      BY <1>7, <2>2, <3>1, <3>3, Added
    <3> QED BY <1>7, <2>2, <3>2, <3>3, Added
  <2> QED BY <1>6, <2>1, <2>2
<1>15. /\ run[q].answered /\ run[q].at \in {"closing", "awaiting", "finished"}
            /\ run[q].error # "unconfirmed" => q \notin on'
       /\ ~shared' /\ run[q].at = "finished" /\ run[q].error # "unconfirmed" => guard'[q].at = "over"
  BY <1>0, <1>8, <1>13 DEF RunOK
<1>16. /\ run[q].at = "starting" => ~run[q].answered
       /\ run[q].at \in {"polling", "stopping", "again"} => run[q].answered
  BY <1>0 DEF RunOK
<1> QED BY <1>5, <1>9, <1>10, <1>11, <1>12, <1>14, <1>15, <1>16 DEF RunOK

(* The machines: some may go, and a guard forgets only one that has gone;  *)
(* or the guard launches the one it has just recorded.                     *)
Machines(g, id) ==
  \/ on' \subseteq on /\ (id = guard[g].id \/ guard[g].id \notin on')
  \/ on' = {guard[g].id} /\ guard[g].at = "launch" /\ id = guard[g].id

(* So a machine that runs is known to its guard, and only a run whose      *)
(* start was not answered gets one.                                        *)
LEMMA MachinesKept ==
  ASSUME IInv, NEW g \in Runs, NEW e \in Guards, GuardTo(g, e), UNCHANGED shared,
         Machines(g, e.id), \A r \in Runs : run'[r].answered = run[r].answered
  PROVE  OwnedUntilGone' /\ StartsUnanswered
<1> DEFINE d == guard[g]
<1>0. VmTypeOK /\ OwnedUntilGone /\ GuardOK(g) /\ on \subseteq Runs
  BY DEF IInv, VmTypeOK
<1>1. \A r \in Runs : GuardOf(r) \in Runs /\ GuardOf(r)' = GuardOf(r)
  BY <1>0, BoundsAssumption DEF GuardOf, Runs
<1>2. guard'[g] = e /\ \A h \in Runs \ {g} : guard'[h] = guard[h]
  BY <1>0 DEF VmTypeOK, GuardTo
<1>3. CASE on' \subseteq on /\ (e.id = d.id \/ d.id \notin on')
  <2>1. ASSUME NEW r \in on' PROVE guard'[GuardOf(r)].id = r
    <3>1. r \in Runs /\ guard[GuardOf(r)].id = r
      BY <1>0, <1>3, <2>1 DEF OwnedUntilGone
    <3> QED BY <1>1, <1>2, <1>3, <2>1, <3>1
  <2>2. OwnedUntilGone'
    BY <1>0, <1>1, <1>3, <2>1 DEF OwnedUntilGone
  <2> QED BY <1>0, <1>3, <2>2 DEF StartsUnanswered
<1>4. CASE on' = {d.id} /\ d.at = "launch" /\ e.id = d.id
  <2>1. d.inbox # << >> /\ d.id = d.inbox[1][2] /\ d.inbox[1][1] = "start" /\ d.inbox \in Seq(Messages)
    BY <1>0, <1>4 DEF GuardOK, LocalOK, Working, VmTypeOK, Guards
  <2>2. d.inbox[1] \in Messages /\ 1 \in 1..Len(d.inbox)
    BY <2>1, Taken
  <2>3. d.id \in Runs /\ d.inbox[1] = <<"start", d.id>>
    BY <2>1, <2>2 DEF Messages
  <2>4. GuardOf(d.id) = g
    BY <1>0, <2>1, <2>2 DEF GuardOK, LocalOK
  <2>5. ~run[d.id].answered
    BY <2>2, <2>3, <2>4 DEF IInv, RunOK, Box, Fresh
  <2>6. OwnedUntilGone'
    BY <1>1, <1>2, <1>4, <2>3, <2>4 DEF OwnedUntilGone
  <2> QED BY <1>4, <2>3, <2>5, <2>6 DEF StartsUnanswered
<1> QED BY <1>3, <1>4 DEF Machines

(* A step of a guard that does what these predicates say keeps the         *)
(* invariant.                                                              *)
LEMMA GuardMoves ==
  ASSUME IInv, NEW g \in Runs, NEW e \in Guards, guard[g].at \in Working \cup {"idle"},
         GuardTo(g, e), UNCHANGED <<shared, app>>, other' \in BOOLEAN, faults' \in 0..MaxFaults,
         KeepsOrTakes(g, e), Replies(g, e), Machines(g, e.id), LocalOK(g, e)
  PROVE  IInv'
<1>0. VmTypeOK
  BY DEF IInv
<1>1. guard'[g] = e /\ guard' \in [Runs -> Guards] /\ \A h \in Runs \ {g} : guard'[h] = guard[h]
  BY <1>0 DEF VmTypeOK, GuardTo
<1>2. \A r \in Runs : run'[r].answered = run[r].answered
  <2>1. ASSUME NEW r \in Runs, NEW q \in Runs, NEW ok \in BOOLEAN,
               run' = [run EXCEPT ![r] = [run[r] EXCEPT !.replies = Append(run[r].replies, ok)]]
        PROVE  run'[q].answered = run[q].answered
    BY <1>0, <2>1 DEF VmTypeOK, RunStates
  <2> QED BY <2>1 DEF Replies
<1>3. OwnedUntilGone' /\ StartsUnanswered
  BY <1>2, MachinesKept
<1>4. \A q \in Runs : RunOK(q)' /\ run'[q] \in RunStates
  BY <1>3, RunsKept
<1>5. run' \in [Runs -> RunStates]
  <2>1. \E f : run' = [q \in Runs |-> f[q]]
    BY <1>0 DEF Replies, VmTypeOK
  <2> QED BY <1>4, <2>1
<1>6. VmTypeOK'
  BY <1>0, <1>1, <1>3, <1>5 DEF VmTypeOK, StartsUnanswered, Runs, Guards, RunStates, Messages
<1>7. AppOK'
  <2>1. 1 \in Runs
    BY BoundsAssumption DEF Runs
  <2> QED BY <1>1, <2>1 DEF IInv, AppOK, Working
<1>8. ASSUME NEW h \in Runs PROVE GuardOK(h)'
  <2>1. CASE h = g
    BY <1>1, <2>1 DEF GuardOK, LocalOK, GuardOf
  <2>2. CASE h # g
    BY <1>1, <2>2 DEF IInv, GuardOK, LocalOK, GuardOf
  <2> QED BY <2>1, <2>2
<1> QED BY <1>3, <1>4, <1>6, <1>7, <1>8 DEF IInv

(* And so does an answer. *)
LEMMA AnswerMoves ==
  ASSUME IInv, NEW g \in Runs, NEW c \in Guards, NEW ok \in BOOLEAN,
         guard[g].at \in Working, guard[g].job \in {"start", "stop"},
         c.inbox = guard[g].inbox, c.id \in {0, guard[g].id}, Machines(g, c.id),
         ok /\ guard[g].job = "stop" => c.id = 0,
         Answer(g, c, ok), UNCHANGED <<shared, app>>, other' \in BOOLEAN, faults' \in 0..MaxFaults
  PROVE  IInv'
<1> DEFINE d == guard[g]
<1>0. VmTypeOK /\ LocalOK(g, d) /\ d \in Guards
  BY DEF IInv, GuardOK, VmTypeOK
<1>1. d.inbox # << >> /\ d.inbox[1][1] = d.job /\ d.inbox \in Seq(Messages)
  BY <1>0 DEF LocalOK, Guards
<1>2. d.inbox[1] \in Messages /\ 1 \in 1..Len(d.inbox) /\ Tail(d.inbox) \in Seq(Messages)
  BY <1>1, Taken
<1>3. d.inbox[1][2] \in Runs /\ d.inbox[1] = <<d.job, d.inbox[1][2]>>
  BY <1>1, <1>2 DEF Messages
<1>4. \A i \in 1..Len(Tail(d.inbox)) : GuardOf(Tail(d.inbox)[i][2]) = g
  <2> SUFFICES ASSUME NEW i \in 1..Len(Tail(d.inbox)) PROVE GuardOf(Tail(d.inbox)[i][2]) = g
    OBVIOUS
  <2>1. i + 1 \in 1..Len(d.inbox) /\ Tail(d.inbox)[i] = d.inbox[i + 1]
    BY <1>1, Taken
  <2> QED BY <1>0, <2>1 DEF LocalOK
<1>5. c.id # 0 => GuardOf(c.id) = g
  BY <1>0 DEF LocalOK
<1>6. ASSUME NEW r \in Runs, r = c.inbox[1][2],
             GuardTo(g, [c EXCEPT !.at = "idle", !.job = "none", !.inbox = Tail(c.inbox)]),
             run' = [run EXCEPT ![r] = [run[r] EXCEPT !.replies = Append(run[r].replies, ok)]]
      PROVE  IInv'
  <2> DEFINE e == [c EXCEPT !.at = "idle", !.job = "none", !.inbox = Tail(c.inbox)]
  <2>1. e \in Guards /\ e.at = "idle" /\ e.inbox = Tail(d.inbox) /\ e.id = c.id
    BY <1>2 DEF Guards, GuardPlaces, Jobs
  <2>2. GuardTo(g, e)
    BY <1>6
  <2> HIDE DEF e
  <2>3. LocalOK(g, e)
    BY <1>4, <1>5, <2>1 DEF LocalOK, Working
  <2>4. \A q \in Runs : run'[q].answered = run[q].answered
    BY <1>0, <1>6 DEF VmTypeOK, RunStates
  <2>5. OwnedUntilGone'
    BY <2>1, <2>2, <2>4, MachinesKept
  <2>6. ok /\ d.job = "stop" => r \notin on'
    <3> SUFFICES ASSUME c.id = 0, r \in on' PROVE FALSE
      OBVIOUS
    <3>1. GuardOf(r) = g /\ r # 0
      BY <1>0, <1>2, <1>6 DEF LocalOK, Runs
    <3>2. guard'[g] = e
      BY <1>0, <2>2 DEF GuardTo, VmTypeOK
    <3>3. GuardOf(r)' = g
      BY <3>1 DEF GuardOf
    <3> QED BY <2>1, <2>5, <3>1, <3>2, <3>3 DEF OwnedUntilGone
  <2>7. Replies(g, e) /\ KeepsOrTakes(g, e)
    BY <1>1, <1>3, <1>6, <2>1, <2>6 DEF Replies, KeepsOrTakes
  <2> QED BY <2>1, <2>2, <2>3, <2>7, GuardMoves
<1>7. ASSUME GuardTo(g, [c EXCEPT !.at = "stop", !.job = "lost"]), UNCHANGED run
      PROVE  IInv'
  <2> DEFINE e == [c EXCEPT !.at = "stop", !.job = "lost"]
  <2>1. e \in Guards /\ e.at = "stop" /\ e.job = "lost" /\ e.inbox = d.inbox /\ e.id = c.id
    BY DEF Guards, GuardPlaces, Jobs
  <2>2. GuardTo(g, e)
    BY <1>7
  <2> HIDE DEF e
  <2>3. LocalOK(g, e)
    BY <1>0, <1>1, <1>5, <2>1 DEF LocalOK
  <2>4. Replies(g, e) /\ KeepsOrTakes(g, e)
    BY <1>7, <2>1 DEF Replies, KeepsOrTakes
  <2> QED BY <2>1, <2>2, <2>3, <2>4, GuardMoves
<1>8. \/ \E r \in Runs :
           /\ r = c.inbox[1][2]
           /\ GuardTo(g, [c EXCEPT !.at = "idle", !.job = "none", !.inbox = Tail(c.inbox)])
           /\ run' = [run EXCEPT ![r] = [run[r] EXCEPT !.replies = Append(run[r].replies, ok)]]
      \/ GuardTo(g, [c EXCEPT !.at = "stop", !.job = "lost"]) /\ UNCHANGED run
  BY <1>0, <1>3 DEF Answer, Client, VmTypeOK
<1> QED BY <1>6, <1>7, <1>8

(* The end of Lifecycle.stop, which has returned only without a machine. *)
LEMMA StopEnds ==
  ASSUME IInv, NEW g \in Runs, NEW c \in Guards,
         guard[g].at \in {"stop", "command", "verify"},
         c.inbox = guard[g].inbox, c.job = guard[g].job, c.id \in {0, guard[g].id},
         Machines(g, c.id), (Stopped(g, c) /\ c.id = 0) \/ Raised(g, c),
         UNCHANGED <<shared, app>>, other' \in BOOLEAN, faults' \in 0..MaxFaults
  PROVE  IInv'
<1> DEFINE d == guard[g]
<1>0. VmTypeOK /\ LocalOK(g, d) /\ d \in Guards /\ d.at \in Working
  BY DEF IInv, GuardOK, VmTypeOK, Working
<1>1. ASSUME d.job \in {"start", "stop"}, NEW ok \in BOOLEAN, Answer(g, c, ok),
             ok /\ d.job = "stop" => c.id = 0
      PROVE  IInv'
  BY <1>0, <1>1, AnswerMoves
<1>2. ASSUME d.job \in {"disconnect", "lost"}, UNCHANGED run,
             GuardTo(g, [c EXCEPT !.at = "idle", !.job = "none", !.inbox = Tail(@)])
      PROVE  IInv'
  <2> DEFINE e == [c EXCEPT !.at = "idle", !.job = "none", !.inbox = Tail(@)]
  <2>1. d.inbox # << >> /\ d.inbox \in Seq(Messages)
    BY <1>0, <1>2 DEF LocalOK, Guards
  <2>2. Tail(d.inbox) \in Seq(Messages)
    BY <2>1, Taken
  <2>3. e \in Guards /\ e.at = "idle" /\ e.inbox = Tail(d.inbox) /\ e.id = c.id
    BY <2>2 DEF Guards, GuardPlaces, Jobs
  <2>4. \A i \in 1..Len(Tail(d.inbox)) : GuardOf(Tail(d.inbox)[i][2]) = g
    <3> SUFFICES ASSUME NEW i \in 1..Len(Tail(d.inbox)) PROVE GuardOf(Tail(d.inbox)[i][2]) = g
      OBVIOUS
    <3>1. i + 1 \in 1..Len(d.inbox) /\ Tail(d.inbox)[i] = d.inbox[i + 1]
      BY <2>1, Taken
    <3> QED BY <1>0, <3>1 DEF LocalOK
  <2>5. GuardTo(g, e)
    BY <1>2
  <2> HIDE DEF e
  <2>6. LocalOK(g, e)
    BY <1>0, <2>3, <2>4 DEF LocalOK, Working
  <2>7. Replies(g, e) /\ KeepsOrTakes(g, e)
    BY <1>2, <2>1, <2>3 DEF Replies, KeepsOrTakes
  <2> QED BY <1>0, <2>3, <2>5, <2>6, <2>7, GuardMoves
<1>3. ASSUME NEW at \in {"over", "failed"}, at = "over" => c.id = 0, UNCHANGED run,
             GuardTo(g, [c EXCEPT !.at = at])
      PROVE  IInv'
  <2> DEFINE e == [c EXCEPT !.at = at]
  <2>1. e \in Guards /\ e.at = at /\ e.inbox = d.inbox /\ e.id = c.id
    BY DEF Guards, GuardPlaces
  <2>2. GuardTo(g, e)
    BY <1>3
  <2> HIDE DEF e
  <2>3. LocalOK(g, e)
    BY <1>0, <1>3, <2>1 DEF LocalOK, Working
  <2>4. Replies(g, e) /\ KeepsOrTakes(g, e)
    BY <1>3, <2>1 DEF Replies, KeepsOrTakes
  <2> QED BY <1>0, <2>1, <2>2, <2>3, <2>4, GuardMoves
<1>4. ASSUME d.job = "lost", UNCHANGED run, GuardTo(g, [c EXCEPT !.at = "stop", !.job = "final"])
      PROVE  IInv'
  <2> DEFINE e == [c EXCEPT !.at = "stop", !.job = "final"]
  <2>1. e \in Guards /\ e.at = "stop" /\ e.job = "final" /\ e.inbox = d.inbox /\ e.id = c.id
    BY DEF Guards, GuardPlaces, Jobs
  <2>2. GuardTo(g, e)
    BY <1>4
  <2> HIDE DEF e
  <2>3. LocalOK(g, e)
    BY <1>0, <2>1 DEF LocalOK, Working
  <2>4. Replies(g, e) /\ KeepsOrTakes(g, e)
    BY <1>4, <2>1 DEF Replies, KeepsOrTakes
  <2> QED BY <1>0, <2>1, <2>2, <2>3, <2>4, GuardMoves
<1>5. CASE Stopped(g, c) /\ c.id = 0
  <2>1. CASE d.job = "start"
    BY <1>1, <1>5, <2>1 DEF Stopped
  <2>2. CASE d.job = "stop"
    BY <1>1, <1>5, <2>2 DEF Stopped
  <2>3. CASE d.job \in {"disconnect", "lost"}
    BY <1>2, <1>5, <2>3 DEF Stopped
  <2>4. CASE d.job = "final"
    BY <1>3, <1>5, <2>4 DEF Stopped
  <2> QED BY <1>0, <2>1, <2>2, <2>3, <2>4 DEF Guards, Jobs, LocalOK
<1>6. CASE Raised(g, c)
  <2>1. CASE d.job \in {"start", "stop"}
    BY <1>1, <1>6, <2>1 DEF Raised
  <2>2. CASE d.job = "disconnect"
    BY <1>2, <1>6, <2>2 DEF Raised
  <2>3. CASE d.job = "lost"
    BY <1>4, <1>6, <2>3 DEF Raised
  <2>4. CASE d.job = "final"
    BY <1>3, <1>6, <2>4 DEF Raised
  <2> QED BY <1>0, <2>1, <2>2, <2>3, <2>4 DEF Guards, Jobs, LocalOK
<1> QED BY <1>5, <1>6

(* Every step of a guard keeps the invariant. *)
LEMMA GuardSteps ==
  ASSUME IInv, NEW g \in Runs, GuardStep(g)
  PROVE  IInv'
<1> DEFINE d == guard[g]
<1>0. /\ VmTypeOK /\ LocalOK(g, d) /\ d \in Guards /\ faults \in 0..MaxFaults /\ other \in BOOLEAN
      /\ OwnedUntilGone
  BY DEF IInv, GuardOK, VmTypeOK
<1>1. (Fault => faults' \in 0..MaxFaults) /\ (NoFault => faults' \in 0..MaxFaults)
  BY <1>0, BoundsAssumption DEF Fault, NoFault
<1>2. on' = on => Machines(g, d.id)
  BY DEF Machines
(* A step to another place of the same job. *)
<1>3. ASSUME NEW at \in Working, d.at \in Working, GuardTo(g, [d EXCEPT !.at = at]), on' \subseteq on,
             UNCHANGED <<run, shared, app, other>>, faults' \in 0..MaxFaults,
             at \notin {"list", "launch", "check"} \/ (d.job = "start" /\ at = "check")
      PROVE  IInv'
  <2> DEFINE e == [d EXCEPT !.at = at]
  <2>1. e \in Guards /\ e.at = at /\ e.inbox = d.inbox /\ e.id = d.id /\ e.job = d.job
    BY <1>0 DEF Guards, GuardPlaces, Working
  <2>2. GuardTo(g, e)
    BY <1>3
  <2> HIDE DEF e
  <2>3. LocalOK(g, e)
    BY <1>0, <1>3, <2>1 DEF LocalOK, Working
  <2>4. Replies(g, e) /\ KeepsOrTakes(g, e) /\ Machines(g, e.id)
    BY <1>3, <2>1 DEF Replies, KeepsOrTakes, Machines
  <2> QED BY <1>0, <1>3, <2>1, <2>2, <2>3, <2>4, GuardMoves
<1>4. CASE Take(g)
  <2>1. ASSUME NEW job \in Jobs, NEW at \in {"list", "stop"}, GuardTo(g, [d EXCEPT !.at = at, !.job = job]),
               \/ job = "final" /\ at = "stop"
               \/ /\ d.inbox # << >> /\ job = d.inbox[1][1] /\ job # "none"
                  /\ at = "list" => job = "start"
        PROVE  IInv'
    <3> DEFINE e == [d EXCEPT !.at = at, !.job = job]
    <3>1. e \in Guards /\ e.at = at /\ e.inbox = d.inbox /\ e.id = d.id /\ e.job = job
      BY <1>0 DEF Guards, GuardPlaces
    <3>2. GuardTo(g, e)
      BY <2>1
    <3> HIDE DEF e
    <3>3. LocalOK(g, e)
      BY <1>0, <2>1, <3>1 DEF LocalOK, Working
    <3>4. Replies(g, e) /\ KeepsOrTakes(g, e) /\ Machines(g, e.id)
      BY <1>4, <3>1 DEF Replies, KeepsOrTakes, Machines, Take
    <3> QED BY <1>0, <1>4, <3>1, <3>2, <3>3, <3>4, GuardMoves DEF Take
  <2>2. CASE ~d.owner
    BY <1>4, <2>1, <2>2 DEF Take, Jobs
  <2>3. CASE d.owner
    <3>1. d.inbox # << >> /\ d.inbox \in Seq(Messages)
      BY <1>0, <1>4, <2>3 DEF Take, Guards
    <3>2. d.inbox[1] \in Messages /\ Head(d.inbox) = d.inbox[1]
      BY <3>1, Taken
    <3>3. d.inbox[1][1] \in {"start", "stop", "disconnect"}
      BY <3>2 DEF Messages
    <3> DEFINE job == d.inbox[1][1]
               at == IF job = "start" THEN "list" ELSE "stop"
    <3>4. GuardTo(g, [d EXCEPT !.at = at, !.job = job])
      BY <1>4, <2>3, <3>2 DEF Take
    <3> QED BY <2>1, <3>1, <3>3, <3>4 DEF Jobs
  <2> QED BY <1>0, <2>2, <2>3 DEF Guards
<1>5. CASE List(g)
  <2>1. d.job = "start" /\ d.at \in Working
    BY <1>0, <1>5 DEF LocalOK, List, Working
  <2>2. ASSUME Answer(g, d, FALSE) PROVE IInv'
    BY <1>0, <1>1, <1>2, <1>5, <2>1, <2>2, AnswerMoves DEF List
  <2>3. ASSUME d.id = 0, on = {}, ~other, NoFault, UNCHANGED run,
               GuardTo(g, [d EXCEPT !.at = "launch", !.id = Client(g)])
        PROVE  IInv'
    <3> DEFINE e == [d EXCEPT !.at = "launch", !.id = Client(g)]
    <3>1. d.inbox # << >> /\ d.inbox \in Seq(Messages) /\ d.inbox[1][1] = "start"
      BY <1>0, <2>1 DEF LocalOK, Guards
    <3>2. d.inbox[1] \in Messages /\ 1 \in 1..Len(d.inbox)
      BY <3>1, Taken
    <3>3. Client(g) \in Runs /\ Client(g) = d.inbox[1][2] /\ GuardOf(Client(g)) = g
      BY <1>0, <3>2 DEF Messages, LocalOK, Client
    <3>4. e \in Guards /\ e.at = "launch" /\ e.inbox = d.inbox /\ e.id = Client(g) /\ e.job = d.job
      BY <1>0, <3>3 DEF Guards, GuardPlaces
    <3>5. GuardTo(g, e)
      BY <2>3
    <3> HIDE DEF e
    <3>6. LocalOK(g, e)
      BY <1>0, <2>1, <3>1, <3>3, <3>4 DEF LocalOK, Working
    <3>7. Replies(g, e) /\ KeepsOrTakes(g, e) /\ Machines(g, e.id)
      BY <1>5, <2>3, <3>4 DEF Replies, KeepsOrTakes, Machines, List
    <3> QED BY <1>0, <1>1, <1>5, <2>1, <2>3, <3>4, <3>5, <3>6, <3>7, GuardMoves DEF List
  <2> QED BY <1>5, <2>2, <2>3 DEF List
<1>6. CASE Launch(g)
  <2>1. d.job = "start" /\ d.at = "launch" /\ d.at \in Working
    BY <1>0, <1>6 DEF LocalOK, Launch, Working
  <2>2. CASE Answer(g, d, FALSE) /\ (Fault \/ NoFault)
             /\ on' \in {on, IF on = {} /\ ~other THEN {d.id} ELSE on}
    <3>1. Machines(g, d.id)
      BY <2>1, <2>2 DEF Machines
    <3> QED BY <1>0, <1>1, <1>6, <2>1, <2>2, <3>1, AnswerMoves DEF Launch
  <2>3. ASSUME on' = {d.id}, NoFault, UNCHANGED run, GuardTo(g, [d EXCEPT !.at = "check"])
        PROVE  IInv'
    <3> DEFINE e == [d EXCEPT !.at = "check"]
    <3>1. e \in Guards /\ e.at = "check" /\ e.inbox = d.inbox /\ e.id = d.id /\ e.job = d.job
      BY <1>0 DEF Guards, GuardPlaces
    <3>2. GuardTo(g, e)
      BY <2>3
    <3> HIDE DEF e
    <3>3. LocalOK(g, e)
      BY <1>0, <2>1, <3>1 DEF LocalOK, Working
    <3>4. Replies(g, e) /\ KeepsOrTakes(g, e) /\ Machines(g, e.id)
      BY <2>1, <2>3, <3>1 DEF Replies, KeepsOrTakes, Machines
    <3> QED BY <1>0, <1>1, <1>6, <2>1, <2>3, <3>1, <3>2, <3>3, <3>4, GuardMoves DEF Launch
  <2> QED BY <1>6, <2>2, <2>3 DEF Launch
<1>7. CASE CheckStarted(g)
  <2>1. d.job = "start" /\ d.at \in Working
    BY <1>0, <1>7 DEF LocalOK, CheckStarted, Working
  <2>2. ASSUME NEW ok \in BOOLEAN, Answer(g, d, ok), Fault \/ NoFault PROVE IInv'
    BY <1>0, <1>1, <1>2, <1>7, <2>1, <2>2, AnswerMoves DEF CheckStarted
  <2>3. ASSUME NoFault, UNCHANGED run, GuardTo(g, [d EXCEPT !.at = "stop"]) PROVE IInv'
    BY <1>1, <1>3, <1>7, <2>1, <2>3 DEF CheckStarted, Working
  <2> QED BY <1>7, <2>2, <2>3 DEF CheckStarted
<1>8. CASE StopListed(g)
  <2>1. d.at = "stop" /\ on' = on /\ UNCHANGED <<shared, other, app>>
    BY <1>8 DEF StopListed
  <2>2. CASE ((d.id = 0 /\ Stopped(g, d)) \/ Raised(g, d)) /\ (Fault \/ NoFault)
    BY <1>0, <1>1, <1>2, <2>1, <2>2, StopEnds
  <2>3. CASE NoFault /\ UNCHANGED run
             /\ GuardTo(g, [d EXCEPT !.at = IF d.id \in on THEN "command" ELSE "verify"])
    BY <1>1, <1>3, <2>1, <2>3 DEF Working
  <2> QED BY <1>8, <2>2, <2>3 DEF StopListed
<1>9. CASE StopCommand(g)
  <2>1. d.at = "command" /\ on' \in {on, on \ {d.id}} /\ UNCHANGED <<shared, other, app>>
    BY <1>9 DEF StopCommand
  <2>2. CASE Raised(g, d) /\ Fault
    <3>1. Machines(g, d.id)
      BY <2>1 DEF Machines
    <3> QED BY <1>0, <1>1, <2>1, <2>2, <3>1, StopEnds
  <2>3. CASE (Fault \/ NoFault) /\ UNCHANGED run /\ GuardTo(g, [d EXCEPT !.at = "verify"])
    BY <1>1, <1>3, <2>1, <2>3 DEF Working
  <2> QED BY <1>9, <2>2, <2>3 DEF StopCommand
<1>10. CASE Verify(g)
  <2>1. d.at = "verify" /\ on' = on /\ UNCHANGED <<shared, other, app>>
    BY <1>10 DEF Verify
  <2>2. CASE Raised(g, d) /\ (Fault \/ NoFault)
    BY <1>0, <1>1, <1>2, <2>1, <2>2, StopEnds
  <2>3. CASE d.id \notin on /\ (Stopped(g, Forgotten(d)) \/ Raised(g, Forgotten(d))) /\ (Fault \/ NoFault)
    <3>1. /\ Forgotten(d) \in Guards /\ Forgotten(d).id = 0
          /\ Forgotten(d).inbox = d.inbox /\ Forgotten(d).job = d.job
      BY <1>0 DEF Forgotten, Guards
    <3>2. Machines(g, 0)
      BY <2>1, <2>3 DEF Machines
    <3> QED BY <1>0, <1>1, <2>1, <2>3, <3>1, <3>2, StopEnds
  <2> QED BY <1>10, <2>2, <2>3 DEF Verify
<1> QED BY <1>4, <1>5, <1>6, <1>7, <1>8, <1>9, <1>10 DEF GuardStep

-----------------------------------------------------------------------------
(* The steps of a run.                                                     *)

(* A run sends a message to its guard, or closes the pipe of the owner.    *)
Sends(r, op) ==
  \E owner \in BOOLEAN :
    GuardTo(GuardOf(r), [guard[GuardOf(r)] EXCEPT !.inbox = Append(@, <<op, r>>), !.owner = owner])

(* What the message does to the guards and to the inbox of each run. *)
LEMMA Sent ==
  ASSUME IInv, NEW r \in Runs, NEW op \in {"start", "stop", "disconnect"}, Sends(r, op),
         UNCHANGED shared
  PROVE  /\ guard' \in [Runs -> Guards]
         /\ \A h \in Runs : /\ guard'[h].at = guard[h].at /\ guard'[h].id = guard[h].id
                            /\ GuardOK(h)'
         /\ \A q \in Runs :
              IF GuardOf(q) = GuardOf(r)
              THEN /\ Box(q)' # << >> /\ Len(Box(q)') = Len(Box(q)) + 1 /\ Len(Box(q)) \in Nat
                   /\ \A i \in 1..Len(Box(q)) : Box(q)'[i] = Box(q)[i]
                   /\ Box(q)'[Len(Box(q)) + 1] = <<op, r>>
              ELSE Box(q)' = Box(q)
<1> DEFINE g == GuardOf(r)
           d == guard[g]
<1>0. /\ VmTypeOK /\ g \in Runs /\ LocalOK(g, d) /\ d \in Guards /\ <<op, r>> \in Messages
      /\ \A q \in Runs : GuardOf(q) \in Runs /\ GuardOf(q)' = GuardOf(q)
  BY BoundsAssumption DEF IInv, GuardOK, VmTypeOK, GuardOf, Runs, Messages
<1>1. PICK owner \in BOOLEAN :
        guard' = [guard EXCEPT ![g] = [d EXCEPT !.inbox = Append(d.inbox, <<op, r>>), !.owner = owner]]
  BY DEF Sends, GuardTo
<1>2. d.inbox \in Seq(Messages)
  BY <1>0 DEF Guards
<1> DEFINE box == Append(d.inbox, <<op, r>>)
<1>3. /\ box \in Seq(Messages) /\ box # << >> /\ Len(d.inbox) \in Nat
      /\ Len(box) = Len(d.inbox) + 1
      /\ \A i \in 1..Len(d.inbox) : box[i] = d.inbox[i]
      /\ box[Len(d.inbox) + 1] = <<op, r>>
  BY <1>0, <1>2, Added
<1> HIDE DEF box
<1>4. /\ guard'[g].inbox = box /\ guard'[g].at = d.at /\ guard'[g].id = d.id
      /\ guard'[g].job = d.job /\ guard'[g] \in Guards
      /\ \A h \in Runs \ {g} : guard'[h] = guard[h]
      /\ guard' \in [Runs -> Guards]
  BY <1>0, <1>1, <1>3 DEF VmTypeOK, Guards, box
<1>5. ASSUME NEW h \in Runs, h = g PROVE GuardOK(h)'
  <2>1. \A i \in 1..Len(box) : GuardOf(box[i][2]) = g
    BY <1>0, <1>3 DEF LocalOK
  <2>2. d.inbox # << >> => box[1] = d.inbox[1]
    BY <1>2, <1>3, Taken
  <2> QED BY <1>0, <1>3, <1>4, <1>5, <2>1, <2>2 DEF GuardOK, LocalOK, Working, GuardOf
<1>6. ASSUME NEW h \in Runs \ {g} PROVE GuardOK(h)'
  BY <1>4, <1>6 DEF IInv, GuardOK, LocalOK, GuardOf
<1>7. ASSUME NEW q \in Runs
      PROVE  IF GuardOf(q) = g
             THEN /\ Box(q)' # << >> /\ Len(Box(q)') = Len(Box(q)) + 1 /\ Len(Box(q)) \in Nat
                  /\ \A i \in 1..Len(Box(q)) : Box(q)'[i] = Box(q)[i]
                  /\ Box(q)'[Len(Box(q)) + 1] = <<op, r>>
             ELSE Box(q)' = Box(q)
  BY <1>0, <1>3, <1>4 DEF Box
<1>8. ASSUME NEW h \in Runs
      PROVE  guard'[h].at = guard[h].at /\ guard'[h].id = guard[h].id /\ GuardOK(h)'
  <2>1. CASE h = g
    BY <1>4, <1>5, <2>1
  <2>2. CASE h # g
    BY <1>4, <1>6, <2>2
  <2> QED BY <2>1, <2>2
<1>9. guard' \in [Runs -> Guards]
  BY <1>4
<1> QED BY <1>7, <1>8, <1>9

(* A step of one run that keeps what holds of it keeps the invariant. *)
LEMMA RunMoves ==
  ASSUME IInv, NEW r \in Runs, NEW s \in RunStates, RunTo(r, s),
         UNCHANGED <<shared, on, other, app>>, faults' \in 0..MaxFaults,
         UNCHANGED guard \/ \E op \in {"start", "stop", "disconnect"} : Sends(r, op),
         RunOK(r)'
  PROVE  IInv'
<1>0. VmTypeOK
  BY DEF IInv
<1>1. run' \in [Runs -> RunStates] /\ \A q \in Runs \ {r} : run'[q] = run[q]
  BY <1>0 DEF RunTo, VmTypeOK
<1>2. /\ guard' \in [Runs -> Guards]
      /\ \A h \in Runs : /\ guard'[h].at = guard[h].at /\ guard'[h].id = guard[h].id
                         /\ GuardOK(h)'
  <2>1. CASE UNCHANGED guard
    BY <1>0, <2>1 DEF IInv, VmTypeOK, GuardOK, LocalOK, GuardOf
  <2> QED BY <2>1, Sent
<1>3. VmTypeOK'
  BY <1>0, <1>1, <1>2 DEF VmTypeOK, Runs, Guards, RunStates, Messages
<1>4. \A q \in Runs : GuardOf(q) \in Runs /\ GuardOf(q)' = GuardOf(q)
  BY <1>0, BoundsAssumption DEF VmTypeOK, GuardOf, Runs
<1>5. OwnedUntilGone'
  BY <1>0, <1>2, <1>4 DEF IInv, OwnedUntilGone, VmTypeOK
<1>6. AppOK'
  <2>1. 1 \in Runs
    BY BoundsAssumption DEF Runs
  <2> QED BY <1>2, <2>1 DEF IInv, AppOK
<1>7. ASSUME NEW q \in Runs, q # r PROVE RunOK(q)'
  <2>0. RunOK(q) /\ run'[q] = run[q] /\ guard'[q].at = guard[q].at /\ guard'[q].id = guard[q].id
    BY <1>1, <1>2, <1>7 DEF IInv
  <2>1. CASE Box(q)' = Box(q)
    BY <2>0, <2>1 DEF RunOK, Fresh, Quiet
  <2>2. ASSUME NEW op \in {"start", "stop", "disconnect"}, Len(Box(q)) \in Nat,
               Len(Box(q)') = Len(Box(q)) + 1, \A i \in 1..Len(Box(q)) : Box(q)'[i] = Box(q)[i],
               Box(q)'[Len(Box(q)) + 1] = <<op, r>>
        PROVE  RunOK(q)'
    <3>1. \A i \in 1..Len(Box(q)') :
            i \in 1..Len(Box(q)) \/ (i = Len(Box(q)) + 1 /\ Box(q)'[i] = <<op, r>>)
      BY <2>2
    <3>2. Quiet(q) => Quiet(q)'
      BY <1>7, <2>2, <3>1 DEF Quiet
    <3>3. ASSUME NEW i \in 1..Len(Box(q)'), NEW m \in {"start", "stop"}, Box(q)'[i] = <<m, q>>
          PROVE  i \in 1..Len(Box(q)) /\ Box(q)[i] = <<m, q>>
      BY <1>7, <2>2, <3>1, <3>3
    <3>4. \A i \in 1..Len(Box(q)') :
            /\ Box(q)'[i] = <<"stop", q>> => run[q].answered
            /\ Box(q)'[i] = <<"start", q>> =>
                 Fresh(q) /\ \A j \in 1..Len(Box(q)') : Box(q)'[j] = <<"start", q>> => i = j
      BY <2>0, <3>3 DEF RunOK
    <3> QED BY <2>0, <3>2, <3>4 DEF RunOK, Fresh
  <2>3. CASE UNCHANGED guard
    BY <1>4, <2>1, <2>3 DEF Box
  <2> QED BY <2>1, <2>2, <2>3, Sent
<1> QED BY <1>2, <1>3, <1>5, <1>6, <1>7 DEF IInv

(* What a run takes from its replies: the first, or none. *)
LEMMA ReplyTaken ==
  ASSUME IInv, NEW r \in Runs, NEW ok \in BOOLEAN, NEW taken, Reply(r, ok, taken)
  PROVE  /\ taken \in Seq(BOOLEAN) /\ faults' \in 0..MaxFaults
         /\ Len(taken) \in Nat /\ Len(run[r].replies) \in Nat /\ Len(taken) <= Len(run[r].replies)
         /\ \A i \in 1..Len(taken) : taken[i]
              => \E j \in 1..Len(run[r].replies) : run[r].replies[j]
         /\ run[r].replies = << >> => taken = << >>
         /\ ok => 1 \in 1..Len(run[r].replies) /\ run[r].replies[1]
                   /\ Len(taken) = Len(run[r].replies) - 1
<1> DEFINE q == run[r].replies
<1>1. q \in Seq(BOOLEAN) /\ Len(q) \in Nat /\ faults \in 0..MaxFaults
  BY LenProperties DEF IInv, VmTypeOK, RunStates
<1>2. faults' \in 0..MaxFaults
  BY <1>1, BoundsAssumption DEF Reply, Fault, NoFault
<1>3. CASE q # << >> /\ taken = Tail(q) /\ ok = Head(q)
  <2>1. /\ Head(q) = q[1] /\ Tail(q) \in Seq(BOOLEAN) /\ Len(q) >= 1 /\ Len(Tail(q)) = Len(q) - 1
        /\ \A i \in 1..Len(Tail(q)) : Tail(q)[i] = q[i + 1]
    BY <1>1, <1>3, Taken
  <2>2. \A i \in 1..Len(taken) : taken[i] => \E j \in 1..Len(q) : q[j]
    BY <1>1, <1>3, <2>1
  <2> QED BY <1>1, <1>2, <1>3, <2>1, <2>2
<1>4. CASE taken = q /\ ~ok
  BY <1>1, <1>2, <1>4
<1> QED BY <1>3, <1>4 DEF Reply

(* The inbox of a run that sends nothing, and of one that sends. *)
LEMMA OwnBox ==
  ASSUME IInv, NEW r \in Runs, UNCHANGED shared
  PROVE  /\ Len(Box(r)) \in Nat
         /\ UNCHANGED guard => Box(r)' = Box(r)
         /\ \A op \in {"start", "stop", "disconnect"} : Sends(r, op) =>
              /\ Len(Box(r)') = Len(Box(r)) + 1
              /\ \A i \in 1..Len(Box(r)) : Box(r)'[i] = Box(r)[i]
              /\ Box(r)'[Len(Box(r)) + 1] = <<op, r>>
              /\ guard'[r].at = guard[r].at
<1>1. VmTypeOK /\ GuardOf(r) \in Runs /\ GuardOf(r)' = GuardOf(r)
  BY BoundsAssumption DEF IInv, VmTypeOK, GuardOf, Runs
<1>2. Box(r) \in Seq(Messages)
  BY <1>1 DEF Box, VmTypeOK, Guards
<1>3. Len(Box(r)) \in Nat
  BY <1>2, LenProperties
<1>4. UNCHANGED guard => Box(r)' = Box(r)
  BY <1>1 DEF Box
<1> QED BY <1>3, <1>4, Sent

(* A run that sends nothing, and keeps what it was told. *)
LEMMA SilentRun ==
  ASSUME IInv, NEW r \in Runs, NEW s \in RunStates, RunTo(r, s), UNCHANGED <<shared, guard, on>>,
         s.answered = run[r].answered,
         s.replies = run[r].replies \/ (run[r].at \notin {"idle", "connected"} /\
           /\ Len(s.replies) <= Len(run[r].replies) /\ Len(s.replies) \in Nat
           /\ Len(run[r].replies) \in Nat
           /\ \A i \in 1..Len(s.replies) : s.replies[i]
                => \E j \in 1..Len(run[r].replies) : run[r].replies[j]
           /\ run[r].replies = << >> => s.replies = << >>),
         \/ s.at = run[r].at /\ s.open = run[r].open /\ s.error = run[r].error
         \/ /\ s.at \in {"closing", "awaiting", "finished"}
            /\ s.answered /\ s.error # "unconfirmed" => r \notin on
            /\ ~shared /\ s.at = "finished" /\ s.error # "unconfirmed" => guard[r].at = "over"
  PROVE  RunOK(r)'
<1>1. RunOK(r) /\ run'[r] = s
  BY DEF IInv, VmTypeOK, RunTo
<1>2. Box(r)' = Box(r)
  BY OwnBox
<1>3. Fresh(r) => Fresh(r)'
  BY <1>1 DEF Fresh
<1>4. Quiet(r) => Quiet(r)'
  BY <1>2 DEF Quiet
<1>5. ~s.answered => Len(s.replies) <= 1
  BY <1>1 DEF RunOK
<1>6. s.answered /\ (\E i \in 1..Len(s.replies) : s.replies[i]) => r \notin on
  BY <1>1 DEF RunOK
<1>7. \A i \in 1..Len(Box(r)') :
        /\ Box(r)'[i] = <<"stop", r>> => s.answered
        /\ Box(r)'[i] = <<"start", r>> =>
             Fresh(r)' /\ \A j \in 1..Len(Box(r)') : Box(r)'[j] = <<"start", r>> => i = j
  BY <1>1, <1>2, <1>3 DEF RunOK
<1> QED BY <1>1, <1>3, <1>4, <1>5, <1>6, <1>7 DEF RunOK

(* A run that sends a stop, or disconnects. *)
LEMMA SendingRun ==
  ASSUME IInv, NEW r \in Runs, NEW s \in RunStates, RunTo(r, s), UNCHANGED <<shared, on>>,
         NEW op \in {"stop", "disconnect"}, Sends(r, op), op = "stop" => s.answered,
         s.answered = run[r].answered, run[r].at \notin {"idle", "connected"} \/ s.replies = << >>,
         Len(s.replies) <= Len(run[r].replies), Len(s.replies) \in Nat,
         Len(run[r].replies) \in Nat,
         \A i \in 1..Len(s.replies) : s.replies[i]
           => \E j \in 1..Len(run[r].replies) : run[r].replies[j],
         run[r].replies = << >> => s.replies = << >>,
         s.at \in {"stopping", "again", "awaiting", "finished"},
         s.at \in {"stopping", "again"} => s.answered,
         s.at \in {"awaiting", "finished"} /\ s.answered /\ s.error # "unconfirmed" => r \notin on,
         s.at = "finished" /\ s.error # "unconfirmed" => shared
  PROVE  RunOK(r)'
<1>1. RunOK(r) /\ run'[r] = s
  BY DEF IInv, VmTypeOK, RunTo
<1>2. /\ Len(Box(r)) \in Nat /\ Len(Box(r)') = Len(Box(r)) + 1
      /\ \A i \in 1..Len(Box(r)) : Box(r)'[i] = Box(r)[i]
      /\ Box(r)'[Len(Box(r)) + 1] = <<op, r>>
  BY OwnBox
<1>3. \A i \in 1..Len(Box(r)') :
        i \in 1..Len(Box(r)) \/ (i = Len(Box(r)) + 1 /\ Box(r)'[i] = <<op, r>>)
  BY <1>2
<1>4. ASSUME NEW i \in 1..Len(Box(r)'), Box(r)'[i] = <<"start", r>>
      PROVE  i \in 1..Len(Box(r)) /\ Box(r)[i] = <<"start", r>>
  BY <1>2, <1>3, <1>4
<1>5. ASSUME NEW i \in 1..Len(Box(r)')
      PROVE  /\ Box(r)'[i] = <<"stop", r>> => s.answered
             /\ Box(r)'[i] = <<"start", r>> =>
                  Fresh(r)' /\ \A j \in 1..Len(Box(r)') : Box(r)'[j] = <<"start", r>> => i = j
  <2>1. Box(r)'[i] = <<"stop", r>> => s.answered
    BY <1>1, <1>2, <1>3 DEF RunOK
  <2>2. Fresh(r) => Fresh(r)'
    BY <1>1 DEF Fresh
  <2> QED BY <1>1, <1>4, <2>1, <2>2 DEF RunOK
<1>6. ~s.answered => Len(s.replies) <= 1
  BY <1>1 DEF RunOK
<1>7. s.answered /\ (\E i \in 1..Len(s.replies) : s.replies[i]) => r \notin on
  BY <1>1 DEF RunOK
<1> QED BY <1>1, <1>5, <1>6, <1>7 DEF RunOK

(* The forms in which the steps of a run send. *)
LEMMA SendForms ==
  ASSUME IInv, NEW r \in Runs
  PROVE  /\ \A op \in {"start", "stop", "disconnect"} : Send(r, op) => Sends(r, op)
         /\ GuardTo(GuardOf(r), Hangs(r, [guard[GuardOf(r)] EXCEPT !.inbox = Append(@, <<"disconnect", r>>)]))
              => Sends(r, "disconnect")
<1> DEFINE g == GuardOf(r)
           d == guard[g]
<1>1. d \in Guards
  BY BoundsAssumption DEF IInv, VmTypeOK, GuardOf, Runs
<1>2. ASSUME NEW box
      PROVE  /\ [d EXCEPT !.inbox = box] = [d EXCEPT !.inbox = box, !.owner = d.owner]
             /\ [[d EXCEPT !.inbox = box] EXCEPT !.owner = FALSE] = [d EXCEPT !.inbox = box, !.owner = FALSE]
  BY <1>1 DEF Guards
<1>3. d.owner \in BOOLEAN
  BY <1>1 DEF Guards
<1>4. ASSUME NEW op \in {"start", "stop", "disconnect"}, Send(r, op) PROVE Sends(r, op)
  <2>1. GuardTo(g, [d EXCEPT !.inbox = Append(d.inbox, <<op, r>>)])
    BY <1>4 DEF Send, GuardTo
  <2>2. GuardTo(g, [d EXCEPT !.inbox = Append(d.inbox, <<op, r>>), !.owner = d.owner])
    BY <1>2, <2>1
  <2> QED BY <1>3, <2>2 DEF Sends
<1>5. ASSUME GuardTo(g, Hangs(r, [d EXCEPT !.inbox = Append(d.inbox, <<"disconnect", r>>)]))
      PROVE  Sends(r, "disconnect")
  <2>1. CASE shared
    <3>1. GuardTo(g, [d EXCEPT !.inbox = Append(d.inbox, <<"disconnect", r>>), !.owner = d.owner])
      BY <1>2, <1>5, <2>1 DEF Hangs
    <3> QED BY <1>3, <3>1 DEF Sends
  <2>2. CASE ~shared
    <3>1. GuardTo(g, [d EXCEPT !.inbox = Append(d.inbox, <<"disconnect", r>>), !.owner = FALSE])
      BY <1>2, <1>5, <2>2 DEF Hangs
    <3> QED BY <3>1 DEF Sends
  <2> QED BY <2>1, <2>2
<1> QED BY <1>4, <1>5

(* The start of a run, and the answer to it. *)
LEMMA StartSteps ==
  ASSUME IInv, NEW r \in Runs, Start(r) \/ Started(r)
  PROVE  IInv'
<1>0. VmTypeOK /\ RunOK(r) /\ run[r] \in RunStates /\ faults \in 0..MaxFaults
  BY DEF IInv, VmTypeOK
<1>1. CASE Start(r) /\ run[r].cancelled
  <2> DEFINE s == [run[r] EXCEPT !.at = "closing"]
  <2>1. s \in RunStates /\ s.at = "closing" /\ s.answered = run[r].answered
        /\ s.replies = run[r].replies
    BY <1>0 DEF RunStates, RunPlaces
  <2>2. RunTo(r, s) /\ UNCHANGED <<shared, on, other, app, guard>> /\ faults' \in 0..MaxFaults
    BY <1>0, <1>1 DEF Start
  <2>3. ~s.answered
    BY <1>0, <1>1, <2>1 DEF Start, RunOK, Fresh
  <2> HIDE DEF s
  <2>4. RunOK(r)'
    BY <2>1, <2>2, <2>3, SilentRun
  <2> QED BY <2>1, <2>2, <2>4, RunMoves
<1>2. CASE Start(r) /\ ~run[r].cancelled
  <2> DEFINE s == [run[r] EXCEPT !.at = "starting"]
  <2>1. s \in RunStates /\ s.at = "starting" /\ s.answered = run[r].answered
        /\ s.replies = run[r].replies
    BY <1>0 DEF RunStates, RunPlaces
  <2>2. RunTo(r, s) /\ UNCHANGED <<shared, on, other, app>> /\ faults' \in 0..MaxFaults
    BY <1>0, <1>2 DEF Start
  <2>3. Sends(r, "start")
    BY <1>2, SendForms DEF Start
  <2> HIDE DEF s
  <2>4. run'[r] = s
    BY <1>0, <2>2 DEF VmTypeOK, RunTo
  <2>5. Fresh(r) /\ Quiet(r)
    BY <1>0, <1>2 DEF Start, RunOK
  <2>6. Fresh(r)'
    BY <2>1, <2>4, <2>5 DEF Fresh
  <2>7. /\ Len(Box(r)) \in Nat /\ Len(Box(r)') = Len(Box(r)) + 1
        /\ \A i \in 1..Len(Box(r)) : Box(r)'[i] = Box(r)[i]
        /\ Box(r)'[Len(Box(r)) + 1] = <<"start", r>>
    BY <2>2, <2>3, OwnBox
  <2>8. \A i \in 1..Len(Box(r)') :
          IF i = Len(Box(r)) + 1 THEN Box(r)'[i] = <<"start", r>>
          ELSE i \in 1..Len(Box(r)) /\ Box(r)'[i][2] # r
    BY <2>5, <2>7 DEF Quiet
  <2>9. \A i \in 1..Len(Box(r)') :
          /\ Box(r)'[i] # <<"stop", r>>
          /\ Box(r)'[i] = <<"start", r>> =>
               Fresh(r)' /\ \A j \in 1..Len(Box(r)') : Box(r)'[j] = <<"start", r>> => i = j
    BY <2>6, <2>7, <2>8
  <2>10. ~s.answered /\ s.replies = << >>
    BY <2>1, <2>5 DEF Fresh
  <2>11. RunOK(r)'
    BY <2>1, <2>4, <2>9, <2>10, EmptySeq DEF RunOK
  <2> QED BY <2>1, <2>2, <2>3, <2>11, RunMoves
<1>3. ASSUME Started(r), NEW ok \in BOOLEAN, NEW taken, Reply(r, ok, taken),
             RunTo(r, IF ok THEN [run[r] EXCEPT !.at = "polling", !.vm = TRUE, !.answered = TRUE, !.replies = taken]
                      ELSE [Fails(r) EXCEPT !.at = "closing", !.replies = taken])
      PROVE  IInv'
  <2>0. UNCHANGED <<shared, on, other, app, guard>> /\ run[r].at = "starting" /\ ~run[r].answered
    BY <1>0, <1>3 DEF Started, RunOK
  <2>1. /\ taken \in Seq(BOOLEAN) /\ faults' \in 0..MaxFaults
        /\ Len(taken) \in Nat /\ Len(run[r].replies) \in Nat /\ Len(taken) <= Len(run[r].replies)
        /\ \A i \in 1..Len(taken) : taken[i]
             => \E j \in 1..Len(run[r].replies) : run[r].replies[j]
        /\ run[r].replies = << >> => taken = << >>
        /\ ok => 1 \in 1..Len(run[r].replies) /\ run[r].replies[1]
                  /\ Len(taken) = Len(run[r].replies) - 1
    BY <1>3, ReplyTaken
  <2>2. CASE ok
    <3> DEFINE s == [run[r] EXCEPT !.at = "polling", !.vm = TRUE, !.answered = TRUE, !.replies = taken]
    <3>1. s \in RunStates /\ s.at = "polling" /\ s.answered /\ s.replies = taken
      BY <1>0, <2>1 DEF RunStates, RunPlaces
    <3>2. RunTo(r, s)
      BY <1>3, <2>2
    <3> HIDE DEF s
    <3>3. run'[r] = s
      BY <1>0, <3>2 DEF VmTypeOK, RunTo
    <3>4. run[r].replies # << >> /\ Len(run[r].replies) <= 1
      BY <1>0, <2>0, <2>1, <2>2, EmptySeq DEF RunOK
    <3>5. Len(taken) = 0
      BY <2>1, <2>2, <3>4
    <3>6. Box(r)' = Box(r)
      BY <2>0, OwnBox
    <3>7. \A i \in 1..Len(Box(r)') : Box(r)'[i] # <<"start", r>>
      BY <1>0, <3>4, <3>6 DEF RunOK, Fresh
    <3>8. ~(\E i \in 1..Len(s.replies) : s.replies[i])
      BY <3>1, <3>5
    <3>9. RunOK(r)'
      BY <3>1, <3>3, <3>7, <3>8 DEF RunOK
    <3> QED BY <2>0, <2>1, <3>1, <3>2, <3>9, RunMoves
  <2>3. CASE ~ok
    <3> DEFINE s == [Fails(r) EXCEPT !.at = "closing", !.replies = taken]
    <3>1. s \in RunStates /\ s.at = "closing" /\ s.answered = run[r].answered /\ s.replies = taken
      BY <1>0, <2>1 DEF RunStates, RunPlaces, Fails
    <3>2. RunTo(r, s)
      BY <1>3, <2>3
    <3> HIDE DEF s
    <3>3. RunOK(r)'
      BY <2>0, <2>1, <3>1, <3>2, SilentRun
    <3> QED BY <2>0, <2>1, <3>1, <3>2, <3>3, RunMoves
  <2> QED BY <2>2, <2>3
<1>4. CASE Started(r)
  <2>1. PICK ok \in BOOLEAN, taken \in {run[r].replies, SubSeq(run[r].replies, 2, Len(run[r].replies))} :
          /\ Reply(r, ok, taken)
          /\ RunTo(r, IF ok THEN [run[r] EXCEPT !.at = "polling", !.vm = TRUE, !.answered = TRUE, !.replies = taken]
                      ELSE [Fails(r) EXCEPT !.at = "closing", !.replies = taken])
    BY <1>4 DEF Started
  <2> QED BY <1>3, <1>4, <2>1
<1> QED BY <1>1, <1>2, <1>4

(* The end of the polling, and the answers to the stop. *)
LEMMA StopSteps ==
  ASSUME IInv, NEW r \in Runs, EndPolling(r) \/ StopAnswered(r)
  PROVE  IInv'
<1>0. VmTypeOK /\ RunOK(r) /\ run[r] \in RunStates /\ faults \in 0..MaxFaults
      /\ Len(run[r].replies) \in Nat
  BY LenProperties DEF IInv, VmTypeOK, RunStates
<1>1. ASSUME NEW s \in RunStates, RunTo(r, s), UNCHANGED <<shared, on, other, app>>,
             faults' \in 0..MaxFaults, Sends(r, "stop"),
             s.at \in {"stopping", "again"}, run[r].at \in {"polling", "stopping"},
             s.answered = run[r].answered, Len(s.replies) \in Nat,
             Len(s.replies) <= Len(run[r].replies),
             \A i \in 1..Len(s.replies) : s.replies[i]
               => \E j \in 1..Len(run[r].replies) : run[r].replies[j],
             run[r].replies = << >> => s.replies = << >>
      PROVE  IInv'
  <2>1. s.answered
    BY <1>0, <1>1 DEF RunOK
  <2>2. RunOK(r)'
    BY <1>0, <1>1, <2>1, SendingRun
  <2> QED BY <1>1, <2>2, RunMoves
<1>2. CASE EndPolling(r)
  <2>1. ASSUME NEW s \in RunStates, RunTo(r, s), s.at \in {"stopping", "again"},
               s.answered = run[r].answered, s.replies = run[r].replies
        PROVE  IInv'
    <3>1. /\ Send(r, "stop") /\ run[r].at = "polling" /\ UNCHANGED <<shared, on, other, app>>
          /\ faults' \in 0..MaxFaults
      BY <1>0, <1>2 DEF EndPolling
    <3>2. Sends(r, "stop")
      BY <3>1, SendForms
    <3>3. Len(s.replies) <= Len(run[r].replies)
      BY <1>0, <2>1
    <3> QED BY <1>0, <1>1, <2>1, <3>1, <3>2, <3>3
  <2>2. LET s == [run[r] EXCEPT !.at = "stopping"]
            t == [Fails(r) EXCEPT !.at = "again"]
        IN /\ s \in RunStates /\ s.at = "stopping" /\ s.answered = run[r].answered
           /\ s.replies = run[r].replies
           /\ t \in RunStates /\ t.at = "again" /\ t.answered = run[r].answered
           /\ t.replies = run[r].replies
    BY <1>0 DEF RunStates, RunPlaces, Fails
  <2> QED BY <1>2, <2>1, <2>2 DEF EndPolling
<1>3. ASSUME StopAnswered(r), NEW ok \in BOOLEAN, NEW taken, Reply(r, ok, taken)
      PROVE  /\ ok /\ UNCHANGED guard
                  /\ RunTo(r, [run[r] EXCEPT !.at = "closing", !.vm = FALSE, !.replies = taken]) => IInv'
             /\ ~ok /\ run[r].at = "stopping" /\ Send(r, "stop")
                  /\ RunTo(r, [Fails(r) EXCEPT !.at = "again", !.replies = taken]) => IInv'
             /\ ~ok /\ run[r].at = "again"
                  /\ RunTo(r, [run[r] EXCEPT !.at = "finished", !.error = "unconfirmed", !.open = FALSE, !.replies = << >>])
                  /\ Sends(r, "disconnect") => IInv'
  <2>0. UNCHANGED <<shared, on, other, app>> /\ run[r].at \in {"stopping", "again"} /\ run[r].answered
    BY <1>0, <1>3 DEF StopAnswered, RunOK
  <2>1. /\ taken \in Seq(BOOLEAN) /\ faults' \in 0..MaxFaults
        /\ Len(taken) \in Nat /\ Len(taken) <= Len(run[r].replies)
        /\ \A i \in 1..Len(taken) : taken[i]
             => \E j \in 1..Len(run[r].replies) : run[r].replies[j]
        /\ run[r].replies = << >> => taken = << >>
        /\ ok => 1 \in 1..Len(run[r].replies) /\ run[r].replies[1]
    BY <1>3, ReplyTaken
  <2>2. ASSUME ok, UNCHANGED guard,
               RunTo(r, [run[r] EXCEPT !.at = "closing", !.vm = FALSE, !.replies = taken])
        PROVE  IInv'
    <3> DEFINE s == [run[r] EXCEPT !.at = "closing", !.vm = FALSE, !.replies = taken]
    <3>1. s \in RunStates /\ s.at = "closing" /\ s.answered = run[r].answered /\ s.replies = taken
      BY <1>0, <2>1 DEF RunStates, RunPlaces
    <3>2. RunTo(r, s)
      BY <2>2
    <3> HIDE DEF s
    <3>3. r \notin on
      BY <1>0, <2>0, <2>1, <2>2 DEF RunOK
    <3>4. RunOK(r)'
      BY <1>0, <2>0, <2>1, <2>2, <3>1, <3>2, <3>3, SilentRun
    <3> QED BY <2>0, <2>1, <2>2, <3>1, <3>2, <3>4, RunMoves
  <2>3. ASSUME run[r].at = "stopping", Send(r, "stop"),
               RunTo(r, [Fails(r) EXCEPT !.at = "again", !.replies = taken])
        PROVE  IInv'
    <3> DEFINE s == [Fails(r) EXCEPT !.at = "again", !.replies = taken]
    <3>1. s \in RunStates /\ s.at = "again" /\ s.answered = run[r].answered /\ s.replies = taken
      BY <1>0, <2>1 DEF RunStates, RunPlaces, Fails
    <3>2. RunTo(r, s) /\ Sends(r, "stop")
      BY <2>3, SendForms
    <3> HIDE DEF s
    <3> QED BY <1>1, <2>0, <2>1, <2>3, <3>1, <3>2
  <2>4. ASSUME Sends(r, "disconnect"),
               RunTo(r, [run[r] EXCEPT !.at = "finished", !.error = "unconfirmed", !.open = FALSE, !.replies = << >>])
        PROVE  IInv'
    <3> DEFINE s == [run[r] EXCEPT !.at = "finished", !.error = "unconfirmed", !.open = FALSE, !.replies = << >>]
    <3>0. << >> \in Seq(BOOLEAN) /\ Len(<< >>) = 0
      BY EmptySeq
    <3>1. s \in RunStates /\ s.at = "finished" /\ s.answered = run[r].answered /\ s.replies = << >>
          /\ s.error = "unconfirmed"
      BY <1>0, <3>0 DEF RunStates, RunPlaces
    <3>2. RunTo(r, s)
      BY <2>4
    <3> HIDE DEF s
    <3>3. Len(s.replies) \in Nat /\ Len(s.replies) <= Len(run[r].replies)
          /\ \A i \in 1..Len(s.replies) : s.replies[i]
               => \E j \in 1..Len(run[r].replies) : run[r].replies[j]
      BY <1>0, <3>0, <3>1
    <3>4. RunOK(r)'
      BY <1>0, <2>0, <2>4, <3>1, <3>2, <3>3, SendingRun
    <3> QED BY <2>0, <2>1, <2>4, <3>1, <3>2, <3>4, RunMoves
  <2> QED BY <2>2, <2>3, <2>4
<1>4. CASE StopAnswered(r)
  <2>1. PICK ok \in BOOLEAN, taken \in {run[r].replies, SubSeq(run[r].replies, 2, Len(run[r].replies))} :
          /\ Reply(r, ok, taken)
          /\ \/ ok /\ RunTo(r, [run[r] EXCEPT !.at = "closing", !.vm = FALSE, !.replies = taken]) /\ UNCHANGED guard
             \/ /\ ~ok /\ run[r].at = "stopping" /\ Send(r, "stop")
                /\ RunTo(r, [Fails(r) EXCEPT !.at = "again", !.replies = taken])
             \/ /\ ~ok /\ run[r].at = "again"
                /\ RunTo(r, [run[r] EXCEPT !.at = "finished", !.error = "unconfirmed", !.open = FALSE, !.replies = <<>>])
                /\ GuardTo(GuardOf(r), Hangs(r, [guard[GuardOf(r)] EXCEPT !.inbox = Append(@, <<"disconnect", r>>)]))
    BY <1>4 DEF StopAnswered
  <2> QED BY <1>3, <1>4, <2>1, SendForms
<1> QED BY <1>2, <1>4

(* The end of a run, and the calls of stop. *)
LEMMA EndSteps ==
  ASSUME IInv, NEW r \in Runs, CloseClient(r) \/ CloseOwner(r) \/ CallStop(r) \/ StopReturns(r)
  PROVE  IInv'
<1>0. VmTypeOK /\ RunOK(r) /\ run[r] \in RunStates /\ faults \in 0..MaxFaults
      /\ run[r].replies \in Seq(BOOLEAN) /\ Len(run[r].replies) \in Nat /\ shared \in BOOLEAN
  BY LenProperties DEF IInv, VmTypeOK, RunStates
<1>1. faults \in 0..MaxFaults /\ (Fault \/ NoFault => faults' \in 0..MaxFaults)
  BY <1>0, BoundsAssumption DEF Fault, NoFault
<1>2. CASE CloseClient(r)
  <2> DEFINE to == IF shared THEN "finished" ELSE "awaiting"
             s == [run[r] EXCEPT !.at = to, !.open = FALSE, !.replies = << >>]
  <2>1. << >> \in Seq(BOOLEAN) /\ Len(<< >>) = 0 /\ to \in {"finished", "awaiting"}
    BY EmptySeq
  <2>2. s \in RunStates /\ s.at = to /\ s.answered = run[r].answered /\ s.replies = << >>
        /\ s.error = run[r].error
    BY <1>0, <2>1 DEF RunStates, RunPlaces
  <2>3. RunTo(r, s) /\ UNCHANGED <<shared, on, other, app, faults>> /\ run[r].at = "closing"
        /\ Sends(r, "disconnect")
    BY <1>2, SendForms DEF CloseClient
  <2> HIDE DEF s
  <2>4. Len(s.replies) \in Nat /\ Len(s.replies) <= Len(run[r].replies)
        /\ \A i \in 1..Len(s.replies) : s.replies[i]
             => \E j \in 1..Len(run[r].replies) : run[r].replies[j]
    BY <1>0, <2>1, <2>2
  <2>5. s.answered /\ s.error # "unconfirmed" => r \notin on
    BY <1>0, <2>2, <2>3 DEF RunOK
  <2>6. RunOK(r)'
    BY <1>0, <2>1, <2>2, <2>3, <2>4, <2>5, SendingRun
  <2> QED BY <1>0, <2>2, <2>3, <2>6, RunMoves
<1>3. ASSUME NEW s \in RunStates, RunTo(r, s), UNCHANGED <<shared, on, other, app, guard>>,
             Fault \/ NoFault, s.answered = run[r].answered, s.replies = run[r].replies,
             \/ s.at = run[r].at /\ s.open = run[r].open /\ s.error = run[r].error
             \/ /\ s.at \in {"closing", "awaiting", "finished"}
                /\ s.answered /\ s.error # "unconfirmed" => r \notin on
                /\ ~shared /\ s.at = "finished" /\ s.error # "unconfirmed" => guard[r].at = "over"
      PROVE  IInv'
  <2>1. RunOK(r)'
    BY <1>3, SilentRun
  <2> QED BY <1>1, <1>3, <2>1, RunMoves
<1>4. CASE CloseOwner(r)
  <2>1. LET s == [run[r] EXCEPT !.at = "finished"]
            t == [run[r] EXCEPT !.at = "finished", !.error = "unconfirmed"]
        IN /\ s \in RunStates /\ s.at = "finished" /\ s.answered = run[r].answered
           /\ s.replies = run[r].replies /\ s.error = run[r].error
           /\ t \in RunStates /\ t.at = "finished" /\ t.answered = run[r].answered
           /\ t.replies = run[r].replies /\ t.error = "unconfirmed"
    BY <1>0 DEF RunStates, RunPlaces
  <2>2. run[r].answered /\ run[r].error # "unconfirmed" => r \notin on
    BY <1>0, <1>4 DEF CloseOwner, RunOK
  <2> QED BY <1>3, <1>4, <2>1, <2>2 DEF CloseOwner
<1>5. CASE CallStop(r)
  <2> DEFINE s == [run[r] EXCEPT !.cancelled = TRUE, !.stop = "waiting"]
  <2>1. s \in RunStates /\ s.at = run[r].at /\ s.answered = run[r].answered
        /\ s.replies = run[r].replies /\ s.error = run[r].error /\ s.open = run[r].open
    BY <1>0 DEF RunStates
  <2> QED BY <1>3, <1>5, <2>1 DEF CallStop, NoFault
<1>6. CASE StopReturns(r)
  <2> DEFINE to == IF run[r].at # "finished" \/ run[r].error = "unconfirmed" THEN "unconfirmed" ELSE "ok"
             s == [run[r] EXCEPT !.stop = to]
  <2>1. s \in RunStates /\ s.at = run[r].at /\ s.answered = run[r].answered
        /\ s.replies = run[r].replies /\ s.error = run[r].error /\ s.open = run[r].open
    BY <1>0 DEF RunStates
  <2> QED BY <1>3, <1>6, <2>1 DEF StopReturns
<1> QED BY <1>2, <1>4, <1>5, <1>6

(* A run gets its guard. *)
LEMMA ConnectStep ==
  ASSUME IInv, NEW r \in Runs, Connect(r)
  PROVE  IInv'
<1>0. /\ VmTypeOK /\ RunOK(r) /\ run[r] \in RunStates /\ faults' \in 0..MaxFaults
      /\ UNCHANGED <<shared, on, other, app, faults>> /\ run[r].at = "idle" /\ Fresh(r) /\ Quiet(r)
  BY DEF IInv, VmTypeOK, Connect, RunOK
<1>1. CASE shared /\ ~Living(GuardOf(r))
  <2> DEFINE s == [Fails(r) EXCEPT !.at = "finished"]
  <2>1. s \in RunStates /\ s.at = "finished" /\ s.answered = run[r].answered
        /\ s.replies = run[r].replies
    BY <1>0 DEF RunStates, RunPlaces, Fails
  <2>2. RunTo(r, s) /\ UNCHANGED guard
    BY <1>1 DEF Connect
  <2>3. ~s.answered
    BY <1>0, <2>1 DEF Fresh
  <2> HIDE DEF s
  <2>4. RunOK(r)'
    BY <1>0, <1>1, <2>1, <2>2, <2>3, SilentRun
  <2> QED BY <1>0, <2>1, <2>2, <2>4, RunMoves
<1> DEFINE s == [run[r] EXCEPT !.at = "connected", !.open = TRUE]
<1>2. s \in RunStates /\ s.at = "connected" /\ s.answered = run[r].answered
      /\ s.replies = run[r].replies
  BY <1>0 DEF RunStates, RunPlaces
<1>3. ~(shared /\ ~Living(GuardOf(r))) => RunTo(r, s)
  BY DEF Connect
<1> HIDE DEF s
<1>4. ASSUME RunTo(r, s), Quiet(r)' PROVE RunOK(r)'
  <2>1. run'[r] = s
    BY <1>0, <1>4 DEF VmTypeOK, RunTo
  <2>2. Fresh(r)'
    BY <1>0, <1>2, <2>1 DEF Fresh
  <2>3. ~s.answered /\ s.replies = << >>
    BY <1>0, <1>2 DEF Fresh
  <2>4. \A i \in 1..Len(Box(r)') : Box(r)'[i] # <<"stop", r>> /\ Box(r)'[i] # <<"start", r>>
    BY <1>4 DEF Quiet
  <2> QED BY <1>2, <1>4, <2>1, <2>2, <2>3, <2>4, EmptySeq DEF RunOK
<1>5. CASE shared /\ Living(GuardOf(r))
  <2>1. UNCHANGED guard /\ RunTo(r, s)
    BY <1>3, <1>5 DEF Connect
  <2>2. Box(r)' = Box(r)
    BY <1>0, <2>1, OwnBox
  <2>3. Quiet(r)'
    BY <1>0, <2>2 DEF Quiet
  <2> QED BY <1>0, <1>2, <1>4, <2>1, <2>3, RunMoves
<1>6. CASE ~shared
  <2>1. GuardTo(r, NewGuard) /\ RunTo(r, s) /\ guard[r].at = "none" /\ guard[r].id = 0
    BY <1>0, <1>3, <1>6 DEF Connect, GuardOf, RunOK
  <2>2. NewGuard \in Guards /\ NewGuard.inbox = << >> /\ NewGuard.at = "idle" /\ NewGuard.id = 0
    BY NewTypes DEF NewGuard, NoGuard
  <2>3. /\ guard' \in [Runs -> Guards] /\ guard'[r] = NewGuard
        /\ run' \in [Runs -> RunStates] /\ run'[r] = s
        /\ \A q \in Runs \ {r} : guard'[q] = guard[q] /\ run'[q] = run[q]
    BY <1>0, <1>2, <2>1, <2>2 DEF VmTypeOK, GuardTo, RunTo
  <2>4. VmTypeOK'
    BY <1>0, <2>3 DEF VmTypeOK, Runs, Guards, RunStates, Messages
  <2>5. \A q : GuardOf(q) = q /\ GuardOf(q)' = q
    BY <1>0, <1>6 DEF GuardOf
  <2>6. OwnedUntilGone' /\ AppOK'
    <3>1. \A q \in on : q \in Runs /\ guard[q].id = q /\ q # 0
      BY <1>0, <2>5, BoundsAssumption DEF IInv, OwnedUntilGone, VmTypeOK, Runs
    <3>2. \A q \in on : guard'[q].id = q
      BY <2>1, <2>3, <3>1
    <3> QED BY <1>0, <1>6, <2>5, <3>2 DEF IInv, OwnedUntilGone, AppOK
  <2>7. ASSUME NEW q \in Runs PROVE GuardOK(q)' /\ RunOK(q)'
    <3>1. CASE q = r
      <4>1. GuardOK(r)'
        BY <2>2, <2>3, EmptySeq DEF GuardOK, LocalOK, Working
      <4>2. Box(r)' = << >>
        BY <2>2, <2>3, <2>5 DEF Box
      <4>3. Quiet(r)'
        BY <4>2, EmptySeq DEF Quiet
      <4> QED BY <1>4, <2>1, <3>1, <4>1, <4>3
    <3>2. CASE q # r
      <4>1. GuardOK(q) /\ RunOK(q) /\ guard'[q] = guard[q] /\ run'[q] = run[q]
        BY <2>3, <3>2 DEF IInv
      <4>2. GuardOK(q)'
        BY <2>5, <4>1 DEF GuardOK, LocalOK
      <4>3. Box(q)' = Box(q)
        BY <2>5, <4>1 DEF Box
      <4>4. RunOK(q)'
        BY <1>0, <4>1, <4>3 DEF RunOK, Fresh, Quiet
      <4> QED BY <4>2, <4>4
    <3> QED BY <3>1, <3>2
  <2> QED BY <2>4, <2>6, <2>7 DEF IInv
<1> QED BY <1>0, <1>1, <1>5, <1>6 DEF VmTypeOK

-----------------------------------------------------------------------------
(* The connection and the user.                                            *)

(* Machines that go, and the word of a guard that is over, change nothing. *)
LEMMA OutsideSteps ==
  ASSUME IInv, Confirm \/ UserStep \/ UNCHANGED vmVars
  PROVE  IInv'
<1>1. /\ UNCHANGED <<shared, guard, run>> /\ on' \subseteq on /\ other' \in BOOLEAN
      /\ faults' \in 0..MaxFaults /\ app' \in {"open", "closing", "confirmed", "unconfirmed"}
      /\ app' = "confirmed" => shared /\ guard[1].at = "over"
  <2>1. VmTypeOK /\ AppOK
    BY DEF IInv
  <2>2. CASE Confirm
    BY <2>1, <2>2, BoundsAssumption DEF VmTypeOK, Confirm, Fault, NoFault
  <2>3. CASE UserStep
    <3>1. on' \subseteq on /\ other' \in BOOLEAN
      BY <2>1, <2>3 DEF UserStep, User, VmTypeOK
    <3> QED BY <2>1, <2>3, <3>1 DEF UserStep, VmTypeOK, AppOK
  <2>4. CASE UNCHANGED vmVars
    BY <2>1, <2>4 DEF VmTypeOK, AppOK, vmVars
  <2> QED BY <2>2, <2>3, <2>4
<1>2. VmTypeOK'
  BY <1>1 DEF IInv, VmTypeOK, Runs, Guards, RunStates, Messages
<1>3. OwnedUntilGone' /\ AppOK'
  BY <1>1 DEF IInv, OwnedUntilGone, AppOK, GuardOf
<1>4. ASSUME NEW q \in Runs PROVE GuardOK(q)' /\ RunOK(q)'
  <2>1. GuardOK(q) /\ RunOK(q)
    BY DEF IInv
  <2>2. GuardOK(q)'
    BY <1>1, <2>1 DEF GuardOK, LocalOK, GuardOf
  <2>3. Box(q)' = Box(q)
    BY <1>1 DEF Box, GuardOf
  <2>4. RunOK(q)'
    BY <1>1, <2>1, <2>3 DEF RunOK, Fresh, Quiet
  <2> QED BY <2>2, <2>4
<1> QED BY <1>2, <1>3, <1>4 DEF IInv

(* The runs are killed, and their pipes fall with those of the owner. *)
LEMMA ConnectionEnds ==
  ASSUME IInv, EndConnection
  PROVE  IInv'
<1>0. /\ VmTypeOK /\ UNCHANGED <<shared, on, other, faults>> /\ app' = "closing"
      /\ \A q \in Runs : GuardOf(q) \in Runs /\ GuardOf(q)' = GuardOf(q)
      /\ \A q \in Runs : guard[q] \in Guards /\ run[q] \in RunStates /\ GuardOK(q) /\ RunOK(q)
  <2>1. VmTypeOK /\ \A q \in Runs : GuardOK(q) /\ RunOK(q)
    BY DEF IInv
  <2>2. UNCHANGED <<shared, on, other, faults>> /\ app' = "closing"
    BY DEF EndConnection
  <2>3. \A q \in Runs : GuardOf(q) \in Runs /\ GuardOf(q)' = GuardOf(q)
    BY <2>1, <2>2, BoundsAssumption DEF GuardOf, Runs
  <2> QED BY <2>1, <2>2, <2>3 DEF VmTypeOK
<1> DEFINE Killed(q) == [run[q] EXCEPT !.at = "killed", !.open = FALSE, !.replies = << >>]
<1>1. ASSUME NEW q \in Runs
      PROVE  /\ run'[q] = IF run[q].at \in {"idle", "finished"} THEN run[q] ELSE Killed(q)
             /\ Killed(q) \in RunStates /\ Killed(q).at = "killed" /\ Killed(q).replies = << >>
             /\ Killed(q).answered = run[q].answered
  BY <1>0, EmptySeq DEF EndConnection, RunStates, RunPlaces
<1>2. ASSUME NEW h \in Runs
      PROVE  /\ guard'[h] \in Guards /\ guard'[h].at = guard[h].at /\ guard'[h].id = guard[h].id
             /\ guard'[h].job = guard[h].job
             /\ \/ guard'[h].inbox = guard[h].inbox
                \/ \E x \in Runs : /\ GuardOf(x) = h /\ run[x].open
                                   /\ guard'[h].inbox = Append(guard[h].inbox, <<"disconnect", x>>)
  <2> DEFINE P(x) == GuardOf(x) = h /\ run[x].open
             x0 == CHOOSE x \in Runs : P(x)
  <2>1. guard[h].inbox \in Seq(Messages)
    BY <1>0 DEF Guards
  <2>2. ASSUME NEW box \in Seq(Messages), guard'[h] = [guard[h] EXCEPT !.owner = FALSE, !.inbox = box]
        PROVE  /\ guard'[h] \in Guards /\ guard'[h].at = guard[h].at /\ guard'[h].id = guard[h].id
               /\ guard'[h].job = guard[h].job /\ guard'[h].inbox = box
    BY <1>0, <2>2 DEF Guards
  <2>3. guard'[h] = [guard[h] EXCEPT !.owner = FALSE,
                       !.inbox = IF \E x \in Runs : P(x) THEN Append(guard[h].inbox, <<"disconnect", x0>>)
                                 ELSE guard[h].inbox]
    BY DEF EndConnection
  <2>4. CASE \E x \in Runs : P(x)
    <3>1. x0 \in Runs /\ P(x0)
      BY <2>4
    <3> HIDE DEF x0
    <3>2. Append(guard[h].inbox, <<"disconnect", x0>>) \in Seq(Messages)
      BY <2>1, <3>1, Added DEF Messages
    <3> QED BY <2>2, <2>3, <2>4, <3>1, <3>2
  <2>5. CASE ~ \E x \in Runs : P(x)
    BY <2>1, <2>2, <2>3, <2>5
  <2> QED BY <2>4, <2>5
<1>3. guard' \in [Runs -> Guards] /\ run' \in [Runs -> RunStates]
  <2>1. /\ DOMAIN guard' = Runs /\ guard' = [h \in DOMAIN guard' |-> guard'[h]]
        /\ DOMAIN run' = Runs /\ run' = [q \in DOMAIN run' |-> run'[q]]
    BY DEF EndConnection
  <2>2. \A q \in Runs : run'[q] \in RunStates
    BY <1>0, <1>1
  <2>3. \A q \in Runs : guard'[q] \in Guards
    BY <1>2
  <2> QED BY <2>1, <2>2, <2>3
<1>4. VmTypeOK'
  BY <1>0, <1>3 DEF VmTypeOK, Runs, Guards, RunStates, Messages
<1>5. OwnedUntilGone' /\ AppOK'
  BY <1>0, <1>2 DEF IInv, OwnedUntilGone, AppOK, VmTypeOK
(* What is added to the inbox of a guard comes from an open run of its own. *)
<1>6. ASSUME NEW h \in Runs
      PROVE  /\ Len(guard[h].inbox) \in Nat /\ guard[h].inbox \in Seq(Messages)
             /\ \A i \in 1..Len(guard'[h].inbox) :
                  \/ i \in 1..Len(guard[h].inbox) /\ guard'[h].inbox[i] = guard[h].inbox[i]
                  \/ \E x \in Runs : /\ GuardOf(x) = h /\ run[x].open
                                     /\ guard'[h].inbox[i] = <<"disconnect", x>>
             /\ guard[h].inbox # << >> => guard'[h].inbox # << >>
                                          /\ guard'[h].inbox[1] = guard[h].inbox[1]
  <2>1. guard[h].inbox \in Seq(Messages) /\ Len(guard[h].inbox) \in Nat
    BY <1>0, LenProperties DEF Guards
  <2>2. CASE guard'[h].inbox = guard[h].inbox
    BY <2>1, <2>2
  <2>3. ASSUME NEW x \in Runs, GuardOf(x) = h, run[x].open,
               guard'[h].inbox = Append(guard[h].inbox, <<"disconnect", x>>)
        PROVE  /\ \A i \in 1..Len(guard'[h].inbox) :
                    \/ i \in 1..Len(guard[h].inbox) /\ guard'[h].inbox[i] = guard[h].inbox[i]
                    \/ guard'[h].inbox[i] = <<"disconnect", x>>
               /\ guard[h].inbox # << >> => guard'[h].inbox # << >>
                                            /\ guard'[h].inbox[1] = guard[h].inbox[1]
    <3>1. <<"disconnect", x>> \in Messages
      BY DEF Messages
    <3>2. /\ guard'[h].inbox # << >> /\ Len(guard'[h].inbox) = Len(guard[h].inbox) + 1
          /\ \A i \in 1..Len(guard[h].inbox) : guard'[h].inbox[i] = guard[h].inbox[i]
          /\ guard'[h].inbox[Len(guard[h].inbox) + 1] = <<"disconnect", x>>
      BY <2>1, <2>3, <3>1, Added
    <3>3. guard[h].inbox # << >> => 1 \in 1..Len(guard[h].inbox)
      BY <2>1, Taken
    <3> QED BY <2>1, <3>2, <3>3
  <2> QED BY <1>2, <2>1, <2>2, <2>3
<1>7. ASSUME NEW h \in Runs PROVE GuardOK(h)'
  <2>1. LocalOK(h, guard[h])
    BY <1>0 DEF GuardOK
  <2>2. \A i \in 1..Len(guard'[h].inbox) : GuardOf(guard'[h].inbox[i][2]) = h
    BY <1>6, <2>1 DEF LocalOK
  <2>3. UNCHANGED shared
    BY <1>0
  <2> QED BY <1>2, <1>6, <2>1, <2>2, <2>3 DEF GuardOK, LocalOK, Working, GuardOf
<1>8. ASSUME NEW q \in Runs PROVE RunOK(q)'
  <2>0. RunOK(q) /\ GuardOf(q) \in Runs /\ GuardOf(q)' = GuardOf(q)
        /\ guard'[q].at = guard[q].at /\ guard'[q].id = guard[q].id
    BY <1>0, <1>2
  <2>1. \A i \in 1..Len(Box(q)') :
          \/ i \in 1..Len(Box(q)) /\ Box(q)'[i] = Box(q)[i]
          \/ \E x \in Runs : run[x].open /\ Box(q)'[i] = <<"disconnect", x>>
    BY <1>6, <2>0 DEF Box
  <2>2. Quiet(q) /\ ~run[q].open => Quiet(q)'
    BY <2>1 DEF Quiet
  <2>3. ASSUME Fresh(q) PROVE Fresh(q)'
    BY <1>1, <2>3 DEF Fresh
  <2>4. run'[q].answered = run[q].answered
    BY <1>1
  <2>5. ASSUME NEW i \in 1..Len(Box(q)'), NEW m \in {"start", "stop"}, Box(q)'[i] = <<m, q>>
        PROVE  i \in 1..Len(Box(q)) /\ Box(q)[i] = <<m, q>>
    BY <2>1, <2>5
  <2>6. \A i \in 1..Len(Box(q)') :
          /\ Box(q)'[i] = <<"stop", q>> => run[q].answered
          /\ Box(q)'[i] = <<"start", q>> =>
               Fresh(q)' /\ \A j \in 1..Len(Box(q)') : Box(q)'[j] = <<"start", q>> => i = j
    BY <2>0, <2>3, <2>5 DEF RunOK
  <2>7. CASE run[q].at \in {"idle", "finished"}
    <3>1. run'[q] = run[q]
      BY <1>1, <2>7
    <3>2. run[q].at = "idle" => Fresh(q)' /\ Quiet(q)'
      BY <2>0, <2>2, <2>3 DEF RunOK
    <3> QED BY <1>0, <2>0, <2>6, <2>7, <3>1, <3>2 DEF RunOK
  <2>8. CASE run[q].at \notin {"idle", "finished"}
    <3>1. run'[q].at = "killed" /\ run'[q].replies = << >>
      BY <1>1, <2>8
    <3> QED BY <2>4, <2>6, <3>1, EmptySeq DEF RunOK
  <2> QED BY <2>7, <2>8
<1> QED BY <1>4, <1>5, <1>7, <1>8 DEF IInv

-----------------------------------------------------------------------------
(* The invariant, and what it is for.                                      *)

(* Whatever the runs, the guards, the connection and the user do. *)
THEOREM Inductive == VmSpec => []IInv
<1>1. VmInit => IInv
  <2> SUFFICES ASSUME VmInit PROVE IInv
    OBVIOUS
  <2>1. \A q \in Runs : /\ run[q] = NoRun /\ guard[q] \in {NoGuard, NewGuard}
                        /\ (~shared => guard[q] = NoGuard) /\ GuardOf(q) \in Runs
    BY BoundsAssumption DEF VmInit, GuardOf, Runs
  <2>2. VmTypeOK
    BY <2>1, NewTypes, BoundsAssumption DEF VmInit, VmTypeOK
  <2>3. OwnedUntilGone /\ AppOK
    BY DEF VmInit, OwnedUntilGone, AppOK
  <2>4. /\ NoGuard.at = "none" /\ NewGuard.at = "idle" /\ NoGuard.id = 0 /\ NewGuard.id = 0
        /\ NoRun.at = "idle" /\ ~NoRun.open /\ ~NoRun.answered
    BY DEF NoGuard, NewGuard, NoRun
  <2>5. ASSUME NEW q \in Runs PROVE GuardOK(q) /\ RunOK(q)
    <3>1. guard[q].inbox = << >> /\ guard[q].at \in {"none", "idle"} /\ guard[q].id = 0
      BY <2>1, <2>4, NewTypes
    <3>2. GuardOK(q)
      BY <3>1, EmptySeq DEF GuardOK, LocalOK, Working
    <3>3. Box(q) = << >>
      BY <2>1, NewTypes DEF Box
    <3>4. Fresh(q) /\ Quiet(q)
      BY <2>1, <2>4, <3>3, NewTypes, EmptySeq DEF Fresh, Quiet
    <3> QED BY <2>1, <2>4, <3>2, <3>3, <3>4, NewTypes, EmptySeq DEF RunOK
  <2> QED BY <2>2, <2>3, <2>5 DEF IInv
<1>2. IInv /\ [VmNext]_vmVars => IInv'
  <2> SUFFICES ASSUME IInv, [VmNext]_vmVars PROVE IInv'
    OBVIOUS
  <2>1. ASSUME NEW g \in Runs, GuardStep(g) PROVE IInv'
    BY <2>1, GuardSteps
  <2>2. ASSUME NEW r \in Runs, Connect(r) \/ RunStep(r) \/ EndPolling(r) \/ CallStop(r) \/ StopReturns(r)
        PROVE  IInv'
    BY <2>2, ConnectStep, StartSteps, StopSteps, EndSteps DEF RunStep
  <2>3. CASE EndConnection
    BY <2>3, ConnectionEnds
  <2>4. CASE Confirm \/ UserStep \/ UNCHANGED vmVars
    BY <2>4, OutsideSteps
  <2> QED BY <2>1, <2>2, <2>3, <2>4 DEF VmNext
<1> QED BY <1>1, <1>2, PTL DEF VmSpec

(* Ownership outlives every failure: a machine that runs is recorded by    *)
(* the guard of its run, however many calls of the command line fail.      *)
THEOREM Owned == VmSpec => []OwnedUntilGone
<1>1. IInv => OwnedUntilGone
  BY DEF IInv
<1> QED BY <1>1, Inductive, PTL

(* A reported stop is a true stop: the guard of its own that is over has   *)
(* forgotten its machine, and a reply is believed only if it cannot be an  *)
(* older one.                                                              *)
THEOREM StopProved == VmSpec => []StopIsProof
<1>1. ASSUME IInv PROVE StopIsProof
  <2>1. /\ VmTypeOK /\ OwnedUntilGone /\ AppOK /\ 1 \in Runs
        /\ \A q \in Runs : GuardOK(q) /\ RunOK(q)
    <3>1. 1 \in Runs
      BY BoundsAssumption DEF Runs
    <3> QED BY <1>1, <3>1 DEF IInv
  <2>2. ASSUME NEW r \in Runs, run[r].at = "finished", run[r].error # "unconfirmed",
               ~shared \/ run[r].answered
        PROVE  r \notin on
    <3>1. CASE ~shared
      <4>1. guard[r].at = "over" /\ GuardOf(r) = r
        BY <2>1, <2>2, <3>1 DEF RunOK, GuardOf
      <4>2. guard[r].id = 0 /\ r # 0
        BY <2>1, <4>1, BoundsAssumption DEF GuardOK, LocalOK, Runs
      <4> QED BY <2>1, <4>1, <4>2 DEF OwnedUntilGone
    <3>2. CASE run[r].answered
      BY <2>1, <2>2, <3>2 DEF RunOK
    <3> QED BY <2>2, <3>1, <3>2
  <2>3. ASSUME app = "confirmed" PROVE on = {}
    <3>1. shared /\ guard[1].id = 0
      BY <2>1, <2>3 DEF AppOK, GuardOK, LocalOK
    <3>2. \A r \in on : r # 0 /\ guard[1].id = r
      BY <2>1, <3>1, BoundsAssumption DEF OwnedUntilGone, GuardOf, VmTypeOK, Runs
    <3> QED BY <3>1, <3>2
  <2> QED BY <2>2, <2>3 DEF StopIsProof
<1> QED BY <1>1, Inductive, PTL
=============================================================================
