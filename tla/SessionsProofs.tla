---------------------------- MODULE SessionsProofs ----------------------------
(***************************************************************************)
(* Proofs about Sessions for any number of calls, sessions and limits.     *)
(* The inductive invariant follows a session through its monitor and the   *)
(* calls that close it: a closed session has been stopped, a monitor that  *)
(* has left its loop has stopped its process or given it up, and a call    *)
(* deletes only what it has released.                                      *)
(***************************************************************************)
EXTENDS Sessions, FiniteSetTheorems, TLAPS

SessionOK(s) ==
  /\ session[s].closed => ~Alive(s)
  /\ session[s].done => session[s].monitor = "over"
  /\ session[s].monitor \in {"join", "end", "over"} /\ Alive(s) => s \in stuck
  /\ session[s].proc \in {"kept", "released"} => session[s].closed \/ s \in lost
  /\ s \in table => session[s].proc # "none" /\ s \notin lost
  /\ s \notin table \cup lost => session[s].proc \in {"none", "released"}
  /\ s \in tried /\ Alive(s) =>
       s \in stuck \cup lost \/ (call[Service].at = "stop" /\ call[Service].s = s)

CallOK(a) ==
  LET c == call[a]
  IN /\ c.at = "idle" <=> c.op = "none"
     /\ c.at = "sweep" => c.op \in {"start", "close"}
     /\ IF a = Service THEN c.op \in {"none", "close"} ELSE c.op # "close"
     /\ c.op = "start" => ~closed /\ tried = {}
     /\ c.at \notin {"idle", "sweep"} => c.s \in Ids \ lost /\ session[c.s].proc # "none"
     /\ c.at = "release" => session[c.s].closed
     /\ c.at = "delete" => session[c.s].proc = "released"
     /\ c.at = "wait" => a \in Clients /\ io[c.s] = a
     /\ c.at = "wait" /\ c.op = "export" => session[c.s].proc = "dead"

Active == {s \in table : ~session[s].done}

ServiceOK ==
  /\ closed => table \subseteq tried /\ call[Service].op = "none"
  /\ tried = {} \/ closed \/ call[Service].op = "close"

IInv ==
  /\ TypeOK /\ ServiceOK
  /\ \A s \in Ids : SessionOK(s)
  /\ \A a \in Actors : CallOK(a)
  /\ Cardinality(Active) <= MaxActive

-----------------------------------------------------------------------------
(* What the steps do to a session.                                         *)

(* How a step that creates no session may change one: nothing comes to     *)
(* life, nothing released or exported changes, and a process that is left  *)
(* by its monitor has been stopped or given up.                            *)
Goes(s, e) ==
  /\ e \in Places /\ session' = [session EXCEPT ![s] = e]
  /\ stuck \subseteq stuck' /\ stuck' \subseteq Ids
  /\ e.proc \in {"running", "exited"} => Alive(s)
  /\ e.proc = "none" <=> session[s].proc = "none"
  /\ session[s].proc = "released" => e.proc = "released"
  /\ session[s].proc = "dead" /\ io[s] # None => e.proc = "dead"
  /\ e.proc \in {"kept", "released"} => session[s].proc \in {"kept", "released"} \/ session[s].closed
  /\ session[s].closed => e.closed
  /\ e.closed => e.proc \notin {"running", "exited"}
  /\ session[s].done => e.done
  /\ e.done => e.monitor = "over"
  /\ e.monitor \in {"join", "end", "over"} /\ e.proc \in {"running", "exited"} => s \in stuck'

(* The stop of a process, successful or not. *)
LEMMA StopGoes ==
  ASSUME TypeOK, NEW s \in Ids, NEW ok \in BOOLEAN, Stop(s, ok)
  PROVE  LET e == After(s, ok)
         IN /\ e \in Places /\ e.monitor = session[s].monitor /\ e.done = session[s].done
            /\ e.closed = session[s].closed
            /\ e.proc = IF ok /\ Alive(s) THEN "dead" ELSE session[s].proc
            /\ stuck \subseteq stuck' /\ stuck' \subseteq Ids
            /\ e.proc \in {"running", "exited"} => ~ok /\ s \in stuck'
<1>1. session[s] \in Places /\ stuck \subseteq Ids
  BY DEF TypeOK
<1>2. [session[s] EXCEPT !.proc = "dead"] \in Places
  BY <1>1 DEF Places
<1>3. stuck \subseteq stuck' /\ stuck' \subseteq Ids /\ (~ok => s \in stuck')
  BY <1>1 DEF Stop
<1> QED BY <1>1, <1>2, <1>3 DEF After, Alive, Places

(* A session that goes so stays in order, whatever happens elsewhere. *)
LEMMA Gone ==
  ASSUME IInv, NEW s \in Ids, NEW e \in Places, Goes(s, e), UNCHANGED <<table, lost, tried>>,
         \/ call'[Service] = call[Service] \/ call[Service].at # "stop"
         \/ call[Service].s = s /\ (e.proc \notin {"running", "exited"} \/ s \in stuck')
  PROVE  /\ session' \in [Ids -> Places] /\ stuck' \subseteq Ids
         /\ \A t \in Ids : SessionOK(t)'
         /\ Cardinality(Active') <= MaxActive
<1>0. TypeOK /\ \A t \in Ids : SessionOK(t)
  BY DEF IInv
<1>1. /\ session' \in [Ids -> Places] /\ session'[s] = e /\ stuck' \subseteq Ids
      /\ \A t \in Ids \ {s} : session'[t] = session[t]
  BY <1>0 DEF TypeOK, Goes
<1>2. SessionOK(s)'
  BY <1>0, <1>1 DEF SessionOK, Goes, Alive
<1>3. ASSUME NEW t \in Ids \ {s} PROVE SessionOK(t)'
  BY <1>0, <1>1, <1>3 DEF SessionOK, Goes, Alive
<1>4. Active' \subseteq Active
  BY <1>0, <1>1 DEF Active, Goes, TypeOK
<1>5. Cardinality(Active') <= MaxActive
  <2>1. IsFiniteSet(Active)
    BY <1>0, FiniteIds, FS_Subset DEF Active, TypeOK
  <2>2. Cardinality(Active') <= Cardinality(Active) /\ Cardinality(Active) \in Nat
        /\ IsFiniteSet(Active')
    BY <1>4, <2>1, FS_Subset, FS_CardinalityType
  <2> QED BY <2>2, FS_CardinalityType, Limits DEF IInv
<1> QED BY <1>1, <1>2, <1>3, <1>5

(* And so does every call that has not moved. *)
LEMMA CallStays ==
  ASSUME IInv, NEW a \in Actors, NEW s \in Ids, NEW e \in Places, Goes(s, e),
         UNCHANGED <<closed, lost, tried>>, call'[a] = call[a],
         call[a].at = "wait" => io'[call[a].s] = io[call[a].s]
  PROVE  CallOK(a)'
<1>0. CallOK(a) /\ session' = [session EXCEPT ![s] = e] /\ session \in [Ids -> Places]
  BY DEF IInv, TypeOK, Goes
<1>1. session'[s] = e /\ \A t \in Ids \ {s} : session'[t] = session[t]
  BY <1>0
<1>2. call[a].at \notin {"idle", "sweep"} =>
        /\ call[a].s \in Ids /\ session'[call[a].s].proc # "none"
        /\ session[call[a].s].closed => session'[call[a].s].closed
        /\ session[call[a].s].proc = "released" => session'[call[a].s].proc = "released"
        /\ session[call[a].s].proc = "dead" /\ io[call[a].s] # None
             => session'[call[a].s].proc = "dead"
  BY <1>0, <1>1 DEF CallOK, Goes
<1>3. call[a].at = "wait" => io[call[a].s] # None
  BY <1>0, ServiceIsOther DEF CallOK
<1> QED BY <1>0, <1>2, <1>3 DEF CallOK

-----------------------------------------------------------------------------
(* The process and the monitor of a session.                               *)

LEMMA SessionSteps ==
  ASSUME IInv, NEW s \in Ids, ProcessExits(s) \/ MonitorThread(s)
  PROVE  IInv'
<1>0. TypeOK /\ ServiceOK /\ SessionOK(s) /\ session[s] \in Places
  BY DEF IInv, TypeOK
<1>1. ASSUME NEW e \in Places, Goes(s, e), UNCHANGED <<table, closed, lock, io, call, tried, lost>>
      PROVE  IInv'
  <2>1. /\ session' \in [Ids -> Places] /\ stuck' \subseteq Ids
        /\ \A t \in Ids : SessionOK(t)'
        /\ Cardinality(Active') <= MaxActive
    BY <1>1, Gone
  <2>2. \A a \in Actors : CallOK(a)'
    BY <1>1, CallStays
  <2>3. TypeOK' /\ ServiceOK'
    BY <1>0, <1>1, <2>1 DEF TypeOK, ServiceOK
  <2> QED BY <2>1, <2>2, <2>3 DEF IInv, Active
(* e is the session when its process has been stopped, or not. *)
<1>2. ASSUME NEW ok \in BOOLEAN, Stop(s, ok), NEW to \in {"loop", "join", "failed", "end"},
             session' = [session EXCEPT ![s] = [After(s, ok) EXCEPT !.monitor = to]],
             to = "join" => ok, session[s].monitor # "over"
      PROVE  \E e \in Places : Goes(s, e)
  <2> DEFINE d == After(s, ok)
             e == [d EXCEPT !.monitor = to]
  <2>1. /\ d \in Places /\ d.done = session[s].done /\ d.closed = session[s].closed
        /\ d.proc = IF ok /\ Alive(s) THEN "dead" ELSE session[s].proc
        /\ stuck \subseteq stuck' /\ stuck' \subseteq Ids
        /\ d.proc \in {"running", "exited"} => ~ok /\ s \in stuck'
    BY <1>0, <1>2, StopGoes
  <2> HIDE DEF d
  <2>2. e \in Places /\ e.monitor = to /\ e.proc = d.proc /\ e.done = d.done /\ e.closed = d.closed
    BY <2>1 DEF Places
  <2>3. session' = [session EXCEPT ![s] = e]
    BY <1>2 DEF d
  <2> HIDE DEF e
  <2>4. Goes(s, e)
    BY <1>0, <1>2, <2>1, <2>2, <2>3 DEF Goes, SessionOK, Alive
  <2> QED BY <2>2, <2>4
(* The session when its process stays as it is. *)
<1>3. ASSUME NEW to \in {"join", "end"},
             session' = [session EXCEPT ![s].monitor = to], UNCHANGED stuck,
             session[s].closed \/ session[s].monitor = "join", session[s].monitor # "over"
      PROVE  \E e \in Places : Goes(s, e)
  <2> DEFINE e == [session[s] EXCEPT !.monitor = to]
  <2>1. e \in Places /\ e.monitor = to /\ e.proc = session[s].proc /\ e.done = session[s].done
        /\ e.closed = session[s].closed
    BY <1>0 DEF Places
  <2>2. session' = [session EXCEPT ![s] = e] /\ stuck \subseteq Ids
    BY <1>0, <1>3 DEF TypeOK
  <2> HIDE DEF e
  <2>3. Goes(s, e)
    BY <1>0, <1>3, <2>1, <2>2 DEF Goes, SessionOK, Alive
  <2> QED BY <2>1, <2>3
<1>4. CASE ProcessExits(s)
  <2> DEFINE e == [session[s] EXCEPT !.proc = "exited"]
  <2>1. e \in Places /\ e.monitor = session[s].monitor /\ e.proc = "exited" /\ e.done = session[s].done
        /\ e.closed = session[s].closed
    BY <1>0 DEF Places
  <2>2. session' = [session EXCEPT ![s] = e] /\ stuck \subseteq Ids /\ UNCHANGED stuck
        /\ session[s].proc = "running"
    BY <1>0, <1>4 DEF TypeOK, ProcessExits
  <2> HIDE DEF e
  <2>3. Goes(s, e)
    BY <1>0, <2>1, <2>2 DEF Goes, SessionOK, Alive
  <2> QED BY <1>1, <1>4, <2>1, <2>3 DEF ProcessExits
<1>5. CASE Look(s)
  <2>1. \E e \in Places : Goes(s, e)
    <3>1. CASE LookClosed(s)
      BY <1>3, <1>5, <3>1 DEF Look, LookClosed, Monitor
    <3>2. ASSUME NEW to \in {"loop", "join"}, StopAndMonitor(s, to) PROVE \E e \in Places : Goes(s, e)
      <4>1. PICK ok \in BOOLEAN :
              /\ Stop(s, ok)
              /\ session' = [session EXCEPT ![s] =
                   [After(s, ok) EXCEPT !.monitor = IF ok THEN to ELSE "failed"]]
        BY <3>2 DEF StopAndMonitor
      <4>2. session[s].monitor # "over"
        BY <1>5 DEF Look
      <4> QED BY <1>2, <4>1, <4>2
    <3> QED BY <1>5, <3>1, <3>2 DEF Look, LookEnded, LookLimit
  <2> QED BY <1>1, <1>5, <2>1 DEF Look
<1>6. CASE Join(s)
  <2>1. \E e \in Places : Goes(s, e)
    BY <1>3, <1>6 DEF Join, Monitor
  <2> QED BY <1>1, <1>6, <2>1 DEF Join
<1>7. CASE Fail(s)
  <2>1. \E e \in Places : Goes(s, e)
    BY <1>2, <1>7 DEF Fail
  <2> QED BY <1>1, <1>7, <2>1 DEF Fail
<1>8. CASE Ends(s)
  <2> DEFINE e == [session[s] EXCEPT !.monitor = "over", !.done = TRUE]
  <2>1. e \in Places /\ e.monitor = "over" /\ e.proc = session[s].proc /\ e.done
        /\ e.closed = session[s].closed
    BY <1>0 DEF Places
  <2>2. session' = [session EXCEPT ![s] = e] /\ stuck \subseteq Ids /\ UNCHANGED stuck
        /\ session[s].monitor = "end"
    BY <1>0, <1>8 DEF TypeOK, Ends
  <2> HIDE DEF e
  <2>3. Goes(s, e)
    BY <1>0, <2>1, <2>2 DEF Goes, SessionOK, Alive
  <2> QED BY <1>1, <1>8, <2>1, <2>3 DEF Ends
<1> QED BY <1>4, <1>5, <1>6, <1>7, <1>8 DEF MonitorThread

-----------------------------------------------------------------------------
(* The calls.                                                              *)

(* A session that is left alone. *)
LEMMA Alone ==
  ASSUME IInv, NEW s \in Ids, UNCHANGED <<session, stuck>>
  PROVE  session[s] \in Places /\ Goes(s, session[s])
BY DEF IInv, TypeOK, SessionOK, Goes, Alive

(* A call that moves on, and stops or cleans one session at most, keeps    *)
(* the invariant if it keeps what holds of the call.                       *)
LEMMA CallMoves ==
  ASSUME IInv, NEW a \in Actors, NEW s \in Ids, NEW e \in Places, Goes(s, e),
         NEW c \in CallPlaces, call' = [call EXCEPT ![a] = c],
         UNCHANGED <<table, closed, tried, lost>>,
         io' \in [Ids -> Clients \cup {None}],
         \A y \in Ids : io'[y] = io[y] \/ {io[y], io'[y]} \subseteq {None, a},
         \A y \in Ids : io'[y] = a => c.s = y /\ c.at = "wait",
         lock' = lock \/ {lock, lock'} \subseteq {None, a},
         lock' = a <=> c.op \in {"start", "close"},
         a = Service => /\ c.op = "close" /\ ~closed
                        /\ \/ call[a].at # "stop"
                           \/ call[a].s = s /\ (e.proc \notin {"running", "exited"} \/ s \in stuck'),
         CallOK(a)'
  PROVE  IInv'
<1>0. TypeOK /\ ServiceOK
  BY DEF IInv
<1>1. call' \in [Actors -> CallPlaces] /\ call'[a] = c /\ \A b \in Actors \ {a} : call'[b] = call[b]
  BY <1>0 DEF TypeOK
<1>2. Service \in Actors
  BY DEF Actors
<1>3. /\ session' \in [Ids -> Places] /\ stuck' \subseteq Ids
      /\ \A t \in Ids : SessionOK(t)'
      /\ Cardinality(Active') <= MaxActive
  <2>1. CASE a # Service
    <3>1. call'[Service] = call[Service]
      BY <1>1, <1>2, <2>1
    <3> QED BY <3>1, Gone
  <2>2. CASE a = Service
    BY <2>2, Gone
  <2> QED BY <2>1, <2>2
<1>4. ASSUME NEW b \in Actors \ {a} PROVE CallOK(b)'
  <2>1. CallOK(b) /\ call'[b] = call[b]
    BY <1>1 DEF IInv
  <2>2. call[b].at = "wait" => io[call[b].s] = b /\ call[b].s \in Ids
    BY <2>1 DEF CallOK
  <2>3. b # None
    BY ServiceIsOther DEF Actors
  <2> QED BY <2>1, <2>2, <2>3, CallStays
<1>5. /\ lock' \in Actors \cup {None}
      /\ \A b \in Actors : lock' = b <=> call'[b].op \in {"start", "close"}
  <2>1. None \notin Actors
    BY ServiceIsOther DEF Actors
  <2> QED BY <1>0, <1>1, <2>1 DEF TypeOK
<1>6. \A y \in Ids : io'[y] # None => call'[io'[y]].s = y /\ call'[io'[y]].at = "wait"
  <2> SUFFICES ASSUME NEW y \in Ids, io'[y] # None
               PROVE  call'[io'[y]].s = y /\ call'[io'[y]].at = "wait"
    OBVIOUS
  <2>1. CASE io'[y] = a
    BY <1>1, <2>1
  <2>2. CASE io'[y] # a
    <3>1. io'[y] = io[y] /\ io[y] \in Actors
      BY <1>0, <2>2 DEF TypeOK, Actors
    <3> QED BY <1>0, <1>1, <2>2, <3>1 DEF TypeOK
  <2> QED BY <2>1, <2>2
<1>7. TypeOK'
  BY <1>0, <1>1, <1>3, <1>5, <1>6 DEF TypeOK
<1>8. ServiceOK'
  BY <1>0, <1>1, <1>2 DEF ServiceOK
<1> QED BY <1>1, <1>3, <1>4, <1>7, <1>8 DEF IInv

(* What a call of a tool does to a session and its io_lock. *)
LEMMA ClientSteps ==
  ASSUME IInv, NEW a \in Clients,
         \/ \E s \in Ids, op \in {"interact", "terminate", "export", "close_session"} : Get(a, op, s)
         \/ Write(a) \/ Written(a) \/ WriteTimeout(a) \/ Terminate(a) \/ Export(a) \/ Exported(a)
  PROVE  IInv'
<1>0. /\ TypeOK /\ CallOK(a) /\ a \in Actors /\ a # Service /\ a # None /\ call[a] \in CallPlaces
      /\ \A b \in Actors : lock = b <=> call[b].op \in {"start", "close"}
      /\ \A y \in Ids : io[y] = a => call[a].s = y /\ call[a].at = "wait"
      /\ \A y \in Ids : SessionOK(y)
  BY ServiceIsOther DEF IInv, TypeOK, Actors
<1>1. Idle \in CallPlaces /\ Idle.op = "none" /\ Idle.at = "idle"
  BY DEF Idle, CallPlaces
(* The session may change, the call goes to c, and holds h of the io_lock. *)
<1>2. ASSUME NEW s \in Ids, NEW e \in Places, Goes(s, e),
             NEW c \in CallPlaces, call' = [call EXCEPT ![a] = c], CallOK(a)',
             UNCHANGED <<table, closed, lock, tried, lost>>,
             call[a].op \notin {"start", "close"}, c.op \notin {"start", "close"},
             \/ UNCHANGED io /\ call[a].at # "wait"
             \/ io' = [io EXCEPT ![s] = None] /\ call[a].at = "wait" /\ call[a].s = s
             \/ io' = [io EXCEPT ![s] = a] /\ call[a].at # "wait" /\ io[s] = None
                /\ c.s = s /\ c.at = "wait"
      PROVE  IInv'
  <2>1. /\ io' \in [Ids -> Clients \cup {None}]
        /\ \A y \in Ids : io'[y] = a => c.s = y /\ c.at = "wait"
    BY <1>0, <1>2 DEF TypeOK
  <2>2. io[s] \in {None, a} \/ UNCHANGED io
    BY <1>0, <1>2 DEF CallOK
  <2>3. \A y \in Ids : io'[y] = io[y] \/ {io[y], io'[y]} \subseteq {None, a}
    BY <1>0, <1>2, <2>2 DEF TypeOK
  <2>4. lock' = a <=> c.op \in {"start", "close"}
    BY <1>0, <1>2
  <2> QED BY <1>0, <1>2, <2>1, <2>3, <2>4, CallMoves
<1>3. call[a].at \notin {"idle", "sweep"} =>
        /\ call[a].s \in Ids \ lost /\ session[call[a].s].proc # "none"
        /\ call[a].at = "wait" => io[call[a].s] = a
  BY <1>0 DEF CallOK
(* The call returns. *)
<1>4. ASSUME NEW s \in Ids, NEW e \in Places, Goes(s, e), Return(a),
             UNCHANGED <<table, closed, lock, tried, lost>>,
             call[a].op \notin {"start", "close"},
             \/ UNCHANGED io /\ call[a].at # "wait"
             \/ io' = [io EXCEPT ![s] = None] /\ call[a].at = "wait" /\ call[a].s = s
      PROVE  IInv'
  <2>1. call' = [call EXCEPT ![a] = Idle] /\ call'[a] = Idle
    BY <1>0, <1>4 DEF Return, TypeOK
  <2>2. CallOK(a)'
    BY <1>0, <1>1, <2>1 DEF CallOK
  <2> QED BY <1>1, <1>2, <1>4, <2>1, <2>2
(* The session of the call is left alone, or its process is stopped. *)
<1>5. ASSUME NEW s \in Ids, UNCHANGED <<session, stuck>> PROVE \E e \in Places : Goes(s, e)
  BY <1>5, Alone
<1>6. ASSUME NEW s \in Ids, NEW ok \in BOOLEAN, Stop(s, ok),
             session' = [session EXCEPT ![s] = After(s, ok)]
      PROVE  Goes(s, After(s, ok)) /\ After(s, ok) \in Places
  BY <1>0, <1>6, StopGoes DEF Goes, SessionOK, Alive
<1>7. ASSUME NEW s \in Ids, NEW op \in {"interact", "terminate", "export", "close_session"},
             Get(a, op, s)
      PROVE  IInv'
  <2> DEFINE c == [op |-> op, at |-> IF op = "close_session" THEN "stop" ELSE "io", s |-> s]
  <2>1. c \in CallPlaces /\ c.op = op /\ c.s = s /\ c.at \in {"stop", "io"}
    BY DEF CallPlaces
  <2>2. /\ call' = [call EXCEPT ![a] = c] /\ call[a].at = "idle" /\ s \in table
        /\ UNCHANGED <<table, closed, lock, session, io, tried, stuck, lost>>
    BY <1>7 DEF Get
  <2> HIDE DEF c
  <2>3. call'[a] = c /\ call[a].op = "none"
    BY <1>0, <2>2 DEF TypeOK, CallOK
  <2>4. CallOK(a)'
    BY <1>0, <2>1, <2>2, <2>3 DEF CallOK, SessionOK
  <2> QED BY <1>2, <1>5, <2>1, <2>2, <2>3, <2>4
<1>8. CASE Write(a)
  <2> DEFINE s == call[a].s
             c == [call[a] EXCEPT !.at = "wait"]
  <2>1. /\ UNCHANGED <<table, closed, lock, session, tried, stuck, lost>>
        /\ call[a].op = "interact" /\ call[a].at = "io" /\ io[s] = None /\ s \in Ids
    BY <1>3, <1>8 DEF Write, Enter
  <2>2. CASE Return(a) /\ UNCHANGED io
    BY <1>4, <1>5, <2>1, <2>2
  <2>3. CASE Go(a, "wait") /\ io' = [io EXCEPT ![s] = a]
    <3>1. c \in CallPlaces /\ c.op = "interact" /\ c.at = "wait" /\ c.s = s
          /\ call' = [call EXCEPT ![a] = c] /\ call'[a] = c /\ io'[s] = a
      BY <1>0, <2>1, <2>3 DEF CallPlaces, Go, TypeOK
    <3> HIDE DEF c
    <3>2. CallOK(a)'
      BY <1>0, <1>3, <2>1, <3>1 DEF CallOK
    <3> QED BY <1>2, <1>5, <2>1, <2>3, <3>1, <3>2
  <2> QED BY <1>8, <2>2, <2>3 DEF Write
<1>9. CASE Written(a) \/ Exported(a)
  BY <1>3, <1>4, <1>5, <1>9 DEF Written, Exported
<1>10. CASE WriteTimeout(a)
  BY <1>3, <1>4, <1>6, <1>10 DEF WriteTimeout
<1>11. CASE Terminate(a)
  <2>1. /\ UNCHANGED <<table, closed, lock, io, tried, lost>> /\ Return(a)
        /\ call[a].op = "terminate" /\ call[a].at = "io" /\ call[a].s \in Ids
    BY <1>3, <1>11 DEF Terminate, Enter
  <2>2. CASE UNCHANGED <<session, stuck>>
    BY <1>4, <1>5, <2>1, <2>2
  <2>3. ASSUME NEW ok \in BOOLEAN, Stop(call[a].s, ok),
               session' = [session EXCEPT ![call[a].s] = After(call[a].s, ok)]
        PROVE  IInv'
    BY <1>4, <1>6, <2>1, <2>3
  <2> QED BY <1>11, <2>2, <2>3 DEF Terminate
<1>12. CASE Export(a)
  <2> DEFINE s == call[a].s
             c == [call[a] EXCEPT !.at = "wait"]
  <2>1. /\ UNCHANGED <<table, closed, lock, tried, lost>>
        /\ call[a].op = "export" /\ call[a].at = "io" /\ io[s] = None /\ s \in Ids \ lost
        /\ session[s].proc # "none"
    BY <1>3, <1>12 DEF Export, Enter
  <2>2. CASE Return(a) /\ UNCHANGED <<session, io, stuck>>
    BY <1>4, <1>5, <2>1, <2>2
  <2>3. ASSUME NEW ok \in BOOLEAN, Stop(s, ok), session' = [session EXCEPT ![s] = After(s, ok)],
               ~session[s].closed,
               IF ok THEN Go(a, "wait") /\ io' = [io EXCEPT ![s] = a] ELSE Return(a) /\ UNCHANGED io
        PROVE  IInv'
    <3>1. Goes(s, After(s, ok)) /\ After(s, ok) \in Places
      BY <1>6, <2>1, <2>3
    <3>2. CASE ~ok
      BY <1>4, <2>1, <2>3, <3>1, <3>2
    <3>3. CASE ok
      <4>1. c \in CallPlaces /\ c.op = "export" /\ c.at = "wait" /\ c.s = s
            /\ call' = [call EXCEPT ![a] = c] /\ call'[a] = c /\ io'[s] = a
        BY <1>0, <2>1, <2>3, <3>3 DEF CallPlaces, Go, TypeOK
      <4>2. session'[s] = After(s, ok) /\ session[s] \in Places
        BY <1>0, <2>1, <2>3 DEF TypeOK
(* What is neither closed nor lost has a process, dead or alive. *)
      <4>3. session[s].proc \in {"running", "exited", "dead"}
        BY <1>0, <2>1, <2>3, <4>2 DEF SessionOK, Places
      <4>4. session'[s].proc = "dead"
        <5>1. After(s, ok).proc = IF ok /\ Alive(s) THEN "dead" ELSE session[s].proc
          BY <1>0, <2>1, <2>3, StopGoes
        <5>2. session[s].proc # "dead" => Alive(s)
          BY <4>3 DEF Alive
        <5>3. After(s, ok).proc = "dead"
          BY <3>3, <5>1, <5>2
        <5> QED BY <4>2, <5>3
      <4> HIDE DEF c
      <4>5. CallOK(a)'
        BY <1>0, <2>1, <4>1, <4>4 DEF CallOK
      <4> QED BY <1>2, <2>1, <2>3, <3>1, <3>3, <4>1, <4>5
    <3> QED BY <3>2, <3>3
  <2> QED BY <1>12, <2>2, <2>3 DEF Export
<1> QED BY <1>7, <1>8, <1>9, <1>10, <1>11, <1>12

(* A call that moves on and leaves the sessions alone: what it takes from  *)
(* the table has been released, and only the closing of the service tries  *)
(* further sessions, or ends.                                              *)
LEMMA CallAlone ==
  ASSUME IInv, NEW a \in Actors, NEW c \in CallPlaces, call' = [call EXCEPT ![a] = c],
         UNCHANGED <<session, io, stuck, lost>>, call[a].at \notin {"wait", "stop"},
         table' \subseteq table, \A t \in table \ table' : session[t].proc = "released",
         closed' \in BOOLEAN, tried \subseteq tried', tried' \subseteq Ids,
         \A t \in tried' \ tried : a = Service /\ c.at = "stop" /\ c.s = t,
         UNCHANGED <<closed, tried>> \/ lock = a,
         lock' = lock \/ {lock, lock'} \subseteq {None, a},
         lock' = a <=> c.op \in {"start", "close"},
         CallOK(a)', ServiceOK'
  PROVE  IInv'
<1>0. /\ TypeOK /\ ServiceOK /\ Service \in Actors /\ None \notin Actors
      /\ \A t \in Ids : SessionOK(t)
  BY ServiceIsOther DEF IInv, Actors
<1>1. call' \in [Actors -> CallPlaces] /\ call'[a] = c /\ \A b \in Actors \ {a} : call'[b] = call[b]
  BY <1>0 DEF TypeOK
<1>2. ASSUME NEW t \in Ids PROVE SessionOK(t)'
  <2>1. SessionOK(t) /\ (t \in table' => t \in table)
        /\ (t \in table /\ t \notin table' => session[t].proc = "released")
    BY <1>0
  <2>2. t \in tried' => t \in tried \/ (call'[Service].at = "stop" /\ call'[Service].s = t)
    BY <1>1
  <2>3. call[Service].at = "stop" => call'[Service] = call[Service]
    BY <1>0, <1>1
  <2> QED BY <2>1, <2>2, <2>3 DEF SessionOK, Alive
<1>3. ASSUME NEW b \in Actors \ {a} PROVE CallOK(b)'
  <2>1. CallOK(b) /\ call'[b] = call[b]
    BY <1>1 DEF IInv
  <2>2. call[b].op = "start" => UNCHANGED <<closed, tried>>
    BY <1>0 DEF TypeOK
  <2> QED BY <2>1, <2>2 DEF CallOK
<1>4. /\ lock' \in Actors \cup {None}
      /\ \A b \in Actors : lock' = b <=> call'[b].op \in {"start", "close"}
  BY <1>0, <1>1 DEF TypeOK
<1>5. \A y \in Ids : io[y] # None => io[y] # a /\ io[y] \in Actors
  BY <1>0 DEF TypeOK, Actors
<1>6. TypeOK'
  BY <1>0, <1>1, <1>4, <1>5 DEF TypeOK
<1>7. Cardinality(Active') <= MaxActive
  <2>1. IsFiniteSet(Active) /\ Active' \subseteq Active
    BY <1>0, FiniteIds, FS_Subset DEF Active, TypeOK
  <2>2. Cardinality(Active') <= Cardinality(Active) /\ Cardinality(Active) \in Nat
        /\ Cardinality(Active') \in Nat
    BY <2>1, FS_Subset, FS_CardinalityType
  <2> QED BY <2>2, Limits DEF IInv
<1> QED BY <1>2, <1>3, <1>6, <1>7 DEF IInv

(* close_session, in a call of its own or in another. *)
LEMMA CloseSteps ==
  ASSUME IInv, NEW a \in Actors, CloseStop(a) \/ CloseRelease(a) \/ CloseDelete(a)
  PROVE  IInv'
<1>0. /\ TypeOK /\ ServiceOK /\ CallOK(a) /\ a # None /\ call[a] \in CallPlaces
      /\ lock = a <=> call[a].op \in {"start", "close"}
      /\ \A y \in Ids : io[y] = a => call[a].s = y /\ call[a].at = "wait"
      /\ \A y \in Ids : SessionOK(y)
      /\ call[a].at \in {"stop", "release", "delete"}
  BY ServiceIsOther DEF IInv, TypeOK, Actors, CloseStop, CloseRelease, CloseDelete
<1> DEFINE s == call[a].s
<1>1. /\ s \in Ids \ lost /\ session[s].proc # "none" /\ session[s] \in Places
      /\ a = Service => call[a].op = "close" /\ ~closed
      /\ call[a].op # "none"
      /\ call[a].op = "start" => ~closed /\ tried = {}
      /\ IF a = Service THEN call[a].op = "close" ELSE call[a].op # "close"
  BY <1>0 DEF TypeOK, CallOK, ServiceOK
<1>2. Idle \in CallPlaces /\ Idle.op = "none" /\ Idle.at = "idle"
  BY DEF Idle, CallPlaces
(* The call goes on, or raises. *)
<1>3. ASSUME NEW to \in {"sweep", "release", "delete"}, Go(a, to)
      PROVE  \E c \in CallPlaces : /\ c.op = call[a].op /\ c.at = to /\ c.s = s
                                   /\ call' = [call EXCEPT ![a] = c] /\ call'[a] = c
  <2> DEFINE c == [call[a] EXCEPT !.at = to]
  <2>1. c \in CallPlaces /\ c.op = call[a].op /\ c.at = to /\ c.s = s
    BY <1>0 DEF CallPlaces
  <2>2. call' = [call EXCEPT ![a] = c] /\ call'[a] = c
    BY <1>0, <1>3 DEF Go, TypeOK
  <2> QED BY <2>1, <2>2
<1>4. ASSUME Raise(a), UNCHANGED <<closed, tried>>
      PROVE  \E c \in CallPlaces :
               /\ call' = [call EXCEPT ![a] = c] /\ call'[a] = c /\ CallOK(a)'
               /\ lock' = lock \/ {lock, lock'} \subseteq {None, a}
               /\ lock' = a <=> c.op \in {"start", "close"}
               /\ c.at \in {"idle", "sweep"}
               /\ a = Service => c.op = "close"
  <2>1. CASE call[a].op = "close"
    <3>1. PICK c \in CallPlaces : /\ c.op = "close" /\ c.at = "sweep"
                                  /\ call' = [call EXCEPT ![a] = c] /\ call'[a] = c
      BY <1>3, <1>4, <2>1 DEF Raise
    <3>2. lock' = lock
      BY <1>4, <2>1 DEF Raise
    <3>3. CallOK(a)'
      BY <1>1, <2>1, <3>1 DEF CallOK
    <3> QED BY <1>0, <2>1, <3>1, <3>2, <3>3
  <2>2. CASE call[a].op # "close"
    <3>1. /\ call' = [call EXCEPT ![a] = Idle] /\ call'[a] = Idle /\ a # Service
          /\ lock' = IF lock = a THEN None ELSE lock
      BY <1>0, <1>1, <1>4, <2>2 DEF Raise, Return, TypeOK
    <3>2. CallOK(a)'
      BY <1>2, <3>1 DEF CallOK
    <3> QED BY <1>0, <1>2, <3>1, <3>2
  <2> QED BY <2>1, <2>2
(* Neither step touches the io_locks. *)
<1>5. ASSUME NEW e \in Places, Goes(s, e), NEW c \in CallPlaces, call' = [call EXCEPT ![a] = c],
             UNCHANGED <<table, closed, io, tried, lost>>,
             lock' = lock \/ {lock, lock'} \subseteq {None, a},
             lock' = a <=> c.op \in {"start", "close"}, a = Service => c.op = "close",
             call[a].at # "stop" \/ e.proc \notin {"running", "exited"} \/ s \in stuck', CallOK(a)'
      PROVE  IInv'
  <2>1. \A y \in Ids : io'[y] # a
    BY <1>0, <1>5
  <2>2. io' \in [Ids -> Clients \cup {None}] /\ \A y \in Ids : io'[y] = io[y]
    BY <1>0, <1>5 DEF TypeOK
  <2>3. s \in Ids
    BY <1>1
  <2> HIDE DEF s
  <2>4. a = Service => /\ c.op = "close" /\ ~closed
                       /\ \/ call[a].at # "stop"
                          \/ call[a].s = s /\ (e.proc \notin {"running", "exited"} \/ s \in stuck')
    BY <1>1, <1>5 DEF s
  <2> QED BY <1>5, <2>1, <2>2, <2>3, <2>4, CallMoves
<1>6. CASE CloseStop(a)
  <2>0. UNCHANGED <<table, closed, io, tried, lost>> /\ call[a].at = "stop"
    BY <1>6 DEF CloseStop
  <2>1. PICK ok \in BOOLEAN :
          /\ Stop(s, ok)
          /\ session' = [session EXCEPT ![s] = [After(s, ok) EXCEPT !.closed = ok \/ After(s, ok).closed]]
          /\ IF ok THEN Go(a, "release") /\ UNCHANGED lock ELSE Raise(a)
    BY <1>6 DEF CloseStop
  <2> DEFINE d == After(s, ok)
             e == [d EXCEPT !.closed = ok \/ d.closed]
  <2>2. /\ d \in Places /\ d.done = session[s].done /\ d.closed = session[s].closed
        /\ d.monitor = session[s].monitor
        /\ d.proc = IF ok /\ Alive(s) THEN "dead" ELSE session[s].proc
        /\ stuck \subseteq stuck' /\ stuck' \subseteq Ids
        /\ d.proc \in {"running", "exited"} => ~ok /\ s \in stuck'
    BY <1>0, <1>1, <2>1, StopGoes
  <2>3. session' = [session EXCEPT ![s] = e]
    BY <2>1
  <2> HIDE DEF d
  <2>4. /\ e \in Places /\ e.monitor = d.monitor /\ e.proc = d.proc /\ e.done = d.done
        /\ e.closed = (ok \/ d.closed)
    BY <2>2 DEF Places
  <2> HIDE DEF e
  <2>5. Goes(s, e)
    BY <1>0, <1>1, <2>1, <2>2, <2>3, <2>4 DEF Goes, SessionOK, Alive
  <2>6. CASE ok
    <3>1. PICK c \in CallPlaces : /\ c.op = call[a].op /\ c.at = "release" /\ c.s = s
                                  /\ call' = [call EXCEPT ![a] = c] /\ call'[a] = c
      BY <1>3, <2>1, <2>6
    <3>2. session'[s] = e /\ e.closed /\ e.proc # "none"
      BY <1>0, <1>1, <2>2, <2>3, <2>4, <2>6 DEF TypeOK, Alive
    <3>3. CallOK(a)'
      BY <1>1, <2>0, <3>1, <3>2 DEF CallOK
    <3> QED BY <1>0, <1>1, <1>5, <2>0, <2>1, <2>2, <2>4, <2>5, <2>6, <3>1, <3>3
  <2>7. CASE ~ok
    <3>1. PICK c \in CallPlaces :
               /\ call' = [call EXCEPT ![a] = c] /\ call'[a] = c /\ CallOK(a)'
               /\ lock' = lock \/ {lock, lock'} \subseteq {None, a}
               /\ lock' = a <=> c.op \in {"start", "close"}
               /\ c.at \in {"idle", "sweep"}
               /\ a = Service => c.op = "close"
      BY <1>4, <2>0, <2>1, <2>7
    <3> QED BY <1>5, <2>0, <2>2, <2>4, <2>5, <3>1
  <2> QED BY <2>6, <2>7
<1>7. CASE CloseRelease(a)
  <2>0. UNCHANGED <<table, closed, io, tried, stuck, lost>> /\ call[a].at = "release"
        /\ session[s].closed /\ io[s] = None
    BY <1>0, <1>7 DEF CloseRelease, CallOK
  <2>1. ASSUME NEW p \in {"kept", "released"}, session' = [session EXCEPT ![s].proc = p],
               p = "kept" => session[s].proc # "released"
        PROVE  \E e \in Places : Goes(s, e) /\ e.proc = p /\ session'[s] = e
    <3> DEFINE e == [session[s] EXCEPT !.proc = p]
    <3>1. /\ e \in Places /\ e.proc = p /\ e.closed /\ e.done = session[s].done
          /\ e.monitor = session[s].monitor
      BY <1>1, <2>0 DEF Places
    <3>2. session' = [session EXCEPT ![s] = e] /\ session'[s] = e /\ stuck' \subseteq Ids
      BY <1>0, <1>1, <2>0, <2>1 DEF TypeOK
    <3> HIDE DEF e
    <3>3. Goes(s, e)
      BY <1>0, <1>1, <2>0, <2>1, <3>1, <3>2 DEF Goes, SessionOK
    <3> QED BY <3>1, <3>2, <3>3
  <2>2. CASE session' = [session EXCEPT ![s].proc = "released"] /\ Go(a, "delete") /\ UNCHANGED lock
    <3>1. PICK e \in Places : Goes(s, e) /\ e.proc = "released" /\ session'[s] = e
      BY <2>1, <2>2
    <3>2. PICK c \in CallPlaces : /\ c.op = call[a].op /\ c.at = "delete" /\ c.s = s
                                  /\ call' = [call EXCEPT ![a] = c] /\ call'[a] = c
      BY <1>3, <2>2
    <3>3. CallOK(a)'
      BY <1>1, <2>0, <3>1, <3>2 DEF CallOK
    <3> QED BY <1>0, <1>1, <1>5, <2>0, <2>2, <3>1, <3>2, <3>3
  <2>3. CASE session[s].proc # "released" /\ session' = [session EXCEPT ![s].proc = "kept"] /\ Raise(a)
    <3>1. PICK e \in Places : Goes(s, e) /\ e.proc = "kept" /\ session'[s] = e
      BY <2>1, <2>3
    <3>2. PICK c \in CallPlaces :
               /\ call' = [call EXCEPT ![a] = c] /\ call'[a] = c /\ CallOK(a)'
               /\ lock' = lock \/ {lock, lock'} \subseteq {None, a}
               /\ lock' = a <=> c.op \in {"start", "close"}
               /\ c.at \in {"idle", "sweep"}
               /\ a = Service => c.op = "close"
      BY <1>4, <2>0, <2>3
    <3> QED BY <1>5, <2>0, <3>1, <3>2
  <2> QED BY <1>7, <2>2, <2>3 DEF CloseRelease
<1>8. CASE CloseDelete(a)
  <2>0. /\ UNCHANGED <<closed, session, io, tried, stuck, lost>> /\ call[a].at = "delete"
        /\ table' = table \ {s} /\ session[s].proc = "released"
    BY <1>0, <1>8 DEF CloseDelete, CallOK
  <2>1. \E c \in CallPlaces :
          /\ call' = [call EXCEPT ![a] = c] /\ call'[a] = c /\ CallOK(a)'
          /\ lock' = lock \/ {lock, lock'} \subseteq {None, a}
          /\ lock' = a <=> c.op \in {"start", "close"}
          /\ c.at \in {"idle", "sweep"}
          /\ a = Service => c.op = "close"
    <3>1. CASE Raise(a)
      BY <1>4, <2>0, <3>1
    <3>2. CASE call[a].op = "start" /\ Go(a, "sweep") /\ UNCHANGED lock
      <4>1. PICK c \in CallPlaces : /\ c.op = "start" /\ c.at = "sweep"
                                    /\ call' = [call EXCEPT ![a] = c] /\ call'[a] = c
        BY <1>3, <3>2
      <4>2. CallOK(a)'
        BY <1>1, <2>0, <3>2, <4>1 DEF CallOK
      <4> QED BY <1>0, <1>1, <3>2, <4>1, <4>2
    <3> QED BY <1>8, <3>1, <3>2 DEF CloseDelete
  <2>2. PICK c \in CallPlaces :
          /\ call' = [call EXCEPT ![a] = c] /\ call'[a] = c /\ CallOK(a)'
          /\ lock' = lock \/ {lock, lock'} \subseteq {None, a}
          /\ lock' = a <=> c.op \in {"start", "close"}
          /\ c.at \in {"idle", "sweep"}
          /\ a = Service => c.op = "close"
    BY <2>1
  <2>3. ServiceOK'
    <3>1. Service \in Actors /\ (a # Service => call'[Service] = call[Service])
      BY <1>0, <2>2 DEF TypeOK, Actors
    <3> QED BY <1>0, <1>1, <2>0, <2>2, <3>1 DEF ServiceOK
  <2>4. /\ closed \in BOOLEAN /\ tried \subseteq Ids /\ table' \subseteq table
        /\ \A t \in table \ table' : session[t].proc = "released"
    BY <1>0, <2>0 DEF TypeOK
  <2> QED BY <2>0, <2>2, <2>3, <2>4, CallAlone
<1> QED BY <1>6, <1>7, <1>8

(* The start of a session before it is created, and the closing of the     *)
(* service.                                                                *)
LEMMA SweepSteps ==
  ASSUME IInv,
         \/ \E a \in Clients : Start(a) \/ \E s \in Ids : Expire(a, s)
         \/ Close \/ CloseEnds \/ \E s \in Ids : CloseNext(s)
  PROVE  IInv'
<1>0. /\ TypeOK /\ ServiceOK /\ Service \in Actors /\ Service # None /\ None \notin Actors
      /\ \A a \in Actors : CallOK(a) /\ call[a] \in CallPlaces
      /\ \A t \in Ids : SessionOK(t)
      /\ closed \in BOOLEAN /\ tried \subseteq Ids /\ table \subseteq Ids
  BY ServiceIsOther DEF IInv, TypeOK, Actors
<1>1. Idle \in CallPlaces /\ Idle.op = "none" /\ Idle.at = "idle"
  BY DEF Idle, CallPlaces
<1>2. ASSUME NEW a \in Clients, Start(a) PROVE IInv'
  <2> DEFINE c == [op |-> "start", at |-> "sweep", s |-> None]
  <2>1. c \in CallPlaces /\ c.op = "start" /\ c.at = "sweep"
    BY DEF CallPlaces
  <2>2. /\ call[a].at = "idle" /\ lock = None /\ ~closed /\ lock' = a /\ call' = [call EXCEPT ![a] = c]
        /\ UNCHANGED <<table, closed, session, io, tried, stuck, lost>>
    BY <1>2 DEF Start
  <2> HIDE DEF c
  <2>3. a \in Actors /\ a # Service /\ call'[a] = c /\ call'[Service] = call[Service]
    BY <1>0, <2>2, ServiceIsOther DEF TypeOK, Actors
  <2>4. tried = {}
    BY <1>0, <2>2 DEF TypeOK, ServiceOK
  <2>5. CallOK(a)' /\ ServiceOK'
    BY <1>0, <2>1, <2>2, <2>3, <2>4 DEF CallOK, ServiceOK
  <2> QED BY <1>0, <2>1, <2>2, <2>3, <2>5, CallAlone
<1>3. ASSUME NEW a \in Clients, NEW s \in Ids, Expire(a, s) PROVE IInv'
  <2> DEFINE c == [call[a] EXCEPT !.at = "stop", !.s = s]
  <2>1. a \in Actors /\ a # Service
    BY ServiceIsOther DEF Actors
  <2>2. /\ call' = [call EXCEPT ![a] = c] /\ call[a].at = "sweep" /\ call[a].op = "start" /\ s \in table
        /\ UNCHANGED <<table, closed, lock, session, io, tried, stuck, lost>>
    BY <1>0, <1>3, <2>1 DEF Expire, TypeOK, CallPlaces
  <2>3. c \in CallPlaces /\ c.op = "start" /\ c.at = "stop" /\ c.s = s
    BY <1>0, <2>1, <2>2 DEF CallPlaces
  <2> HIDE DEF c
  <2>4. call'[a] = c /\ call'[Service] = call[Service] /\ lock = a
    BY <1>0, <2>1, <2>2 DEF TypeOK
  <2>5. CallOK(a)' /\ ServiceOK'
    BY <1>0, <2>1, <2>2, <2>3, <2>4 DEF CallOK, ServiceOK, SessionOK
  <2> QED BY <1>0, <2>1, <2>2, <2>3, <2>4, <2>5, CallAlone
<1>4. CASE Close
  <2> DEFINE c == [op |-> "close", at |-> "sweep", s |-> None]
  <2>1. c \in CallPlaces /\ c.op = "close" /\ c.at = "sweep"
    BY DEF CallPlaces
  <2>2. /\ call[Service].at = "idle" /\ lock = None /\ ~closed /\ lock' = Service
        /\ call' = [call EXCEPT ![Service] = c]
        /\ UNCHANGED <<table, closed, session, io, tried, stuck, lost>>
    BY <1>4 DEF Close
  <2> HIDE DEF c
  <2>3. call'[Service] = c
    BY <1>0, <2>2 DEF TypeOK
  <2>4. CallOK(Service)' /\ ServiceOK'
    BY <1>0, <2>1, <2>2, <2>3 DEF CallOK, ServiceOK
  <2> QED BY <1>0, <2>1, <2>2, <2>3, <2>4, CallAlone
<1>5. ASSUME NEW s \in Ids, CloseNext(s) PROVE IInv'
  <2> DEFINE c == [call[Service] EXCEPT !.at = "stop", !.s = s]
  <2>1. /\ call' = [call EXCEPT ![Service] = c] /\ call[Service].at = "sweep"
        /\ s \in table /\ tried' = tried \cup {s}
        /\ UNCHANGED <<table, closed, lock, session, io, stuck, lost>>
    BY <1>0, <1>5 DEF CloseNext, TypeOK, CallPlaces
  <2>2. call[Service].op = "close"
    BY <1>0, <2>1 DEF CallOK
  <2>3. c \in CallPlaces /\ c.op = "close" /\ c.at = "stop" /\ c.s = s
    BY <1>0, <2>2 DEF CallPlaces
  <2> HIDE DEF c
  <2>4. call'[Service] = c /\ lock = Service
    BY <1>0, <2>1, <2>2 DEF TypeOK
  <2>5. CallOK(Service)' /\ ServiceOK'
    BY <1>0, <2>1, <2>2, <2>3, <2>4 DEF CallOK, ServiceOK, SessionOK
  <2> QED BY <1>0, <2>1, <2>2, <2>3, <2>4, <2>5, CallAlone
<1>6. CASE CloseEnds
  <2>1. /\ call' = [call EXCEPT ![Service] = Idle] /\ call[Service].at = "sweep"
        /\ closed' = TRUE /\ lock' = None /\ table \subseteq tried
        /\ UNCHANGED <<table, session, io, tried, stuck, lost>>
    BY <1>6 DEF CloseEnds, Return
  <2>2. call'[Service] = Idle /\ lock = Service
    BY <1>0, <2>1 DEF TypeOK, CallOK
  <2>3. CallOK(Service)' /\ ServiceOK'
    BY <1>0, <1>1, <2>1, <2>2 DEF CallOK, ServiceOK
  <2> QED BY <1>0, <1>1, <2>1, <2>2, <2>3, CallAlone
<1> QED BY <1>2, <1>3, <1>4, <1>5, <1>6

(* The creation of a session: the limits are checked under the lock, and   *)
(* nothing knows the identity.                                             *)
LEMMA CreateStep ==
  ASSUME IInv, NEW a \in Clients, Create(a)
  PROVE  IInv'
<1>0. /\ TypeOK /\ ServiceOK /\ a \in Actors /\ Service \in Actors /\ Service # a
      /\ None \notin Actors /\ (\A b \in Actors : CallOK(b)) /\ \A t \in Ids : SessionOK(t)
      /\ closed \in BOOLEAN /\ tried \subseteq Ids /\ table \subseteq Ids
  BY ServiceIsOther DEF IInv, TypeOK, Actors
<1>1. Idle \in CallPlaces /\ Idle.op = "none" /\ Idle.at = "idle"
  BY DEF Idle, CallPlaces
<1>2. /\ call' = [call EXCEPT ![a] = Idle] /\ call'[a] = Idle /\ lock' = None
      /\ \A b \in Actors \ {a} : call'[b] = call[b]
      /\ call' \in [Actors -> CallPlaces]
      /\ UNCHANGED <<closed, io, tried>> /\ call[a].op = "start" /\ call[a].at = "sweep"
      /\ lock = a
  BY <1>0, <1>1 DEF Create, Return, TypeOK
<1>3. ~closed /\ tried = {} /\ CallOK(a)'
  BY <1>0, <1>1, <1>2 DEF CallOK
<1>4. ServiceOK'
  BY <1>0, <1>2, <1>3 DEF ServiceOK
<1>5. CASE UNCHANGED <<table, session, stuck, lost>>
  BY <1>0, <1>1, <1>2, <1>3, <1>4, <1>5, CallAlone
(* A new session f under the unknown identity s, and the other parts of    *)
(* the invariant, which it leaves alone.                                   *)
<1>6. ASSUME NEW s \in Ids, Unknown(s), NEW f \in Places, session' = [session EXCEPT ![s] = f],
             table \subseteq table', table' \subseteq table \cup {s},
             lost \subseteq lost', lost' \subseteq lost \cup {s},
             stuck' \in {stuck, stuck \ {s}}, SessionOK(s)', Cardinality(Active') <= MaxActive
      PROVE  IInv'
  <2>1. session' \in [Ids -> Places] /\ \A t \in Ids \ {s} : session'[t] = session[t]
    BY <1>0, <1>6 DEF TypeOK
  <2>2. ASSUME NEW t \in Ids \ {s} PROVE SessionOK(t)'
    BY <1>0, <1>2, <1>3, <1>6, <2>1 DEF SessionOK, Alive
  <2>3. ASSUME NEW b \in Actors \ {a} PROVE CallOK(b)'
    <3>1. CallOK(b) /\ call'[b] = call[b] /\ call[b].s # s
      BY <1>0, <1>2, <1>6 DEF Unknown
    <3> QED BY <1>2, <1>6, <2>1, <3>1 DEF CallOK
  <2>4. \A y \in Ids : io[y] # None => io[y] # a /\ io[y] \in Actors
    BY <1>0, <1>2 DEF TypeOK, Actors
  <2>5. TypeOK'
    BY <1>0, <1>1, <1>2, <1>6, <2>1, <2>4 DEF TypeOK
  <2> QED BY <1>3, <1>4, <1>6, <2>2, <2>3, <2>5 DEF IInv
<1>7. ASSUME NEW s \in Ids, Unknown(s), ~Full, table' = table \cup {s},
             session' = [session EXCEPT ![s] = [Fresh EXCEPT !.proc = "running", !.monitor = "loop"]],
             stuck' = stuck \ {s}, UNCHANGED lost
      PROVE  IInv'
  <2> DEFINE f == [Fresh EXCEPT !.proc = "running", !.monitor = "loop"]
  <2>1. /\ f \in Places /\ f.proc = "running" /\ f.monitor = "loop" /\ f.closed = FALSE
        /\ f.done = FALSE
    BY DEF Fresh, Places
  <2>2. session' = [session EXCEPT ![s] = f] /\ session'[s] = f
        /\ \A t \in Ids \ {s} : session'[t] = session[t]
    BY <1>0, <1>7 DEF TypeOK
  <2> HIDE DEF f
  <2>3. SessionOK(s)'
    BY <1>2, <1>3, <1>7, <2>1, <2>2 DEF SessionOK, Unknown
  <2>4. Active' = Active \cup {s} /\ s \notin Active
    BY <1>0, <1>7, <2>1, <2>2 DEF Active, Unknown
  <2>5. IsFiniteSet(Active)
    BY <1>0, FiniteIds, FS_Subset DEF Active
  <2>6. Cardinality(Active') = Cardinality(Active) + 1 /\ Cardinality(Active) \in Nat
    BY <2>4, <2>5, FS_AddElement, FS_CardinalityType
  <2>7. ~(Cardinality(Active) >= MaxActive)
    BY <1>7 DEF Full, Active
  <2>8. Cardinality(Active') <= MaxActive
    BY <2>6, <2>7, Limits
  <2> QED BY <1>6, <1>7, <2>1, <2>2, <2>3, <2>8
<1>8. ASSUME NEW s \in Ids, Unknown(s), NEW left \in {"running", "kept"},
             session' = [session EXCEPT ![s] = [Fresh EXCEPT !.proc = left]],
             lost' = lost \cup {s}, UNCHANGED <<table, stuck>>
      PROVE  IInv'
  <2> DEFINE f == [Fresh EXCEPT !.proc = left]
  <2>1. /\ f \in Places /\ f.proc = left /\ f.monitor = "none" /\ f.closed = FALSE
        /\ f.done = FALSE
    BY DEF Fresh, Places
  <2>2. session' = [session EXCEPT ![s] = f] /\ session'[s] = f
        /\ \A t \in Ids \ {s} : session'[t] = session[t]
    BY <1>0, <1>8 DEF TypeOK
  <2> HIDE DEF f
  <2>3. SessionOK(s)'
    BY <1>2, <1>3, <1>8, <2>1, <2>2 DEF SessionOK, Unknown
  <2>4. Active' = Active
    BY <1>0, <1>8, <2>2 DEF Active, Unknown
  <2> QED BY <1>6, <1>8, <2>1, <2>2, <2>3, <2>4 DEF IInv
<1> QED BY <1>5, <1>7, <1>8 DEF Create

-----------------------------------------------------------------------------
(* The invariant, and what it is for.                                      *)

(* Whatever the calls, the monitors and the closing of the service do.     *)
THEOREM Inductive == Spec => []IInv
<1>1. Init => IInv
  <2> SUFFICES ASSUME Init PROVE IInv
    OBVIOUS
  <2>1. /\ Fresh \in Places /\ Fresh.proc = "none" /\ Fresh.monitor = "none" /\ Fresh.closed = FALSE
        /\ Fresh.done = FALSE
        /\ Idle \in CallPlaces /\ Idle.op = "none" /\ Idle.at = "idle"
    BY DEF Fresh, Places, Idle, CallPlaces
  <2>2. /\ None \notin Actors /\ \A s \in Ids : session[s] = Fresh
        /\ \A a \in Actors : call[a] = Idle
    BY ServiceIsOther DEF Init, Actors
  <2>3. TypeOK
    BY <2>1, <2>2 DEF Init, TypeOK
  <2>4. ServiceOK /\ \A a \in Actors : CallOK(a)
    BY <2>1, <2>2 DEF Init, ServiceOK, CallOK, Actors
  <2>5. \A s \in Ids : SessionOK(s)
    BY <2>1, <2>2 DEF Init, SessionOK, Alive
  <2>6. Active = {} /\ Cardinality({}) = 0
    BY FS_EmptySet DEF Init, Active
  <2> QED BY <2>3, <2>4, <2>5, <2>6, Limits DEF IInv
<1>2. IInv /\ [Next]_vars => IInv'
  <2> SUFFICES ASSUME IInv, [Next]_vars PROVE IInv'
    OBVIOUS
  <2>1. ASSUME NEW s \in Ids, ProcessExits(s) \/ MonitorThread(s) PROVE IInv'
    BY <2>1, SessionSteps
  <2>2. ASSUME NEW a \in Clients, Client(a) PROVE IInv'
    <3>1. a \in Actors
      BY DEF Actors
    <3> QED BY <2>2, <3>1, ClientSteps, CloseSteps, SweepSteps, CreateStep
            DEF Client, Proceed, CloseSession
  <2>3. CASE ServiceThread
    <3>1. Service \in Actors
      BY DEF Actors
    <3> QED BY <2>3, <3>1, CloseSteps, SweepSteps DEF ServiceThread, Closing, CloseSession
  <2>4. CASE UNCHANGED vars
    <3>1. TypeOK' /\ ServiceOK' /\ Active' = Active
      BY <2>4 DEF IInv, TypeOK, ServiceOK, vars, Active
    <3>2. ASSUME NEW s \in Ids PROVE SessionOK(s)'
      BY <2>4 DEF IInv, SessionOK, vars, Alive
    <3>3. ASSUME NEW a \in Actors PROVE CallOK(a)'
      BY <2>4 DEF IInv, CallOK, vars
    <3> QED BY <3>1, <3>2, <3>3 DEF IInv
  <2> QED BY <2>1, <2>2, <2>3, <2>4 DEF Next
<1> QED BY <1>1, <1>2, PTL DEF Spec

(* No sandbox gets out of sight: a call deletes the entry of a session     *)
(* only after the release, and the closing tries every session.            *)
THEOREM Released == Spec => []RemovedIsReleased
<1>1. IInv => RemovedIsReleased
  <2> SUFFICES ASSUME IInv PROVE RemovedIsReleased
    OBVIOUS
  <2>1. /\ \A s \in Ids : SessionOK(s)
        /\ closed => table \subseteq tried /\ call[Service].op = "none"
        /\ CallOK(Service)
    BY DEF IInv, ServiceOK, Actors
  <2>2. closed => call[Service].at # "stop"
    BY <2>1 DEF CallOK
  <2> QED BY <2>1, <2>2 DEF RemovedIsReleased, SessionOK, Alive
<1> QED BY <1>1, Inductive, PTL

(* MAX_ACTIVE holds for the processes, not only for the entries: a session *)
(* is not done before its process has been stopped or given up.            *)
THEOREM LimitHolds == Spec => []ActiveLimit
<1>1. IInv => ActiveLimit
  <2> SUFFICES ASSUME IInv PROVE ActiveLimit
    OBVIOUS
  <2> DEFINE A == {s \in table : Alive(s) /\ s \notin stuck}
  <2>1. table \subseteq Ids /\ \A s \in Ids : SessionOK(s)
    BY DEF IInv, TypeOK
  <2>2. A \subseteq Active
    BY <2>1 DEF Active, SessionOK
  <2>3. IsFiniteSet(Active)
    BY <2>1, FiniteIds, FS_Subset DEF Active
  <2>4. Cardinality(A) <= Cardinality(Active) /\ Cardinality(Active) \in Nat /\ Cardinality(A) \in Nat
    BY <2>2, <2>3, FS_Subset, FS_CardinalityType
  <2> QED BY <2>4, Limits DEF IInv, ActiveLimit
<1> QED BY <1>1, Inductive, PTL

(* An export copies from a sandbox that is stopped and still there. *)
THEOREM ExportIsQuiet == Spec => []QuietExport
<1>1. IInv => QuietExport
  BY DEF IInv, CallOK, QuietExport, Actors
<1> QED BY <1>1, Inductive, PTL
==============================================================================
