------------------------ MODULE RequestMonitorProofs ------------------------
(***************************************************************************)
(* Proofs about RequestMonitor, for any number of servers, requests, slots *)
(* and resets: the mutex of the mapping is exclusive and, with the second  *)
(* look at the epoch, keeps the epochs of the ring apart; an event stays   *)
(* where the next drain looks for it; what was cleared does not come back. *)
(***************************************************************************)
EXTENDS RequestMonitor, TLAPS, WellFoundedInduction

Operation == [op : {"none", "poll", "toggle", "clear", "begin"},
              at : {"idle", "drain", "draining", "after", "act", "reset"}]

(* What the argument needs of the types; the history of rows is left out. *)
RingTypes ==
  /\ epoch \in Nat /\ seq \in Nat
  /\ DOMAIN ring = 0 .. Slots - 1
  /\ obs \in [Observers -> [at : {"dead", "idle", "try", "locked", "write"},
                            epoch : Nat, req : Requests \cup {None},
                            status : {"none", "running", "success"}]]
  /\ gui \in Operation

(* Whoever is inside the critical section owns the mutex. *)
Exclusive ==
  /\ \A o \in Observers : obs[o].at \in {"locked", "write"} => lock = o
  /\ gui.at = "draining" => lock = Gui

(* A publisher has an event, and past its second look it writes for the    *)
(* current epoch.                                                          *)
Current ==
  \A o \in Observers :
    /\ obs[o].at \in {"try", "locked", "write"} =>
         /\ obs[o].epoch # 0 /\ obs[o].req \in Requests
         /\ obs[o].status \in {"running", "success"}
    /\ obs[o].at = "write" => obs[o].epoch = epoch

RingInv == RingTypes /\ Exclusive /\ Current /\ EpochIsolation

(* Operations that touch none of the variables of the argument. *)
LEMMA Stutter ==
  RingInv /\ UNCHANGED <<epoch, seq, ring, obs, lock, gui>> => RingInv'
BY DEF RingInv, RingTypes, Exclusive, Current, EpochIsolation

(* The record of an observer between two calls. *)
LEMMA QuietIs ==
  Quiet = [at |-> "idle", epoch |-> 0, req |-> None, status |-> "none"]
BY DEF Quiet, Dead

(* Beginning to publish at a non-zero epoch. *)
LEMMA Publishing ==
  ASSUME NEW o \in Observers, NEW r \in Requests, RingInv, Epoch # 0,
         NEW status \in {"running", "success"},
         obs[o].at = "idle", StartPublish(o, r, status),
         UNCHANGED <<epoch, seq, ring, lock, gui>>
  PROVE  RingInv'
<1>1. Epoch \in Nat BY DEF RingInv, RingTypes, Epoch
<1> DEFINE new == [at |-> "try", epoch |-> Epoch, req |-> r, status |-> status]
<1>2. obs' = [obs EXCEPT ![o] = new] BY DEF StartPublish
<1>3. new \in [at : {"dead", "idle", "try", "locked", "write"}, epoch : Nat,
               req : Requests \cup {None}, status : {"none", "running", "success"}]
  BY <1>1
<1>4. /\ new.at = "try" /\ new.epoch # 0 /\ new.req \in Requests
      /\ new.status \in {"running", "success"}
  OBVIOUS
<1> HIDE DEF new
<1>5. RingTypes' BY <1>2, <1>3 DEF RingInv, RingTypes
<1>6. Exclusive' /\ Current'
  BY <1>2, <1>4 DEF RingInv, RingTypes, Exclusive, Current
<1> QED BY <1>5, <1>6 DEF RingInv, EpochIsolation

(* An observer goes back to rest, or dies, without touching the ring. *)
LEMMA Resting ==
  ASSUME NEW o \in Observers, RingInv, NEW rest \in {Quiet, Dead},
         obs' = [obs EXCEPT ![o] = rest],
         UNCHANGED <<epoch, gui>>, seq' \in Nat,
         lock' = lock \/ (lock = o /\ lock' # Gui)
                      \/ (lock \notin Observers \cup {Gui} /\ lock' = None),
         DOMAIN ring' = DOMAIN ring
  PROVE  RingTypes' /\ Exclusive' /\ Current'
<1>1. /\ rest \in [at : {"dead", "idle", "try", "locked", "write"}, epoch : Nat,
                   req : Requests \cup {None}, status : {"none", "running", "success"}]
      /\ rest.at \notin {"try", "locked", "write"}
  BY QuietIs DEF Dead
<1>2. RingTypes' BY <1>1 DEF RingInv, RingTypes
<1>3. Exclusive' /\ Current'
  BY <1>1, DistinctOwners DEF RingInv, RingTypes, Exclusive, Current
<1> QED BY <1>2, <1>3

(* An observer's step preserves the invariant. *)
LEMMA ObserverStep ==
  ASSUME NEW o \in Observers, RingInv, Observer(o) PROVE RingInv'
<1> USE RingSizes, DistinctOwners
<1>1. ASSUME NEW r \in Requests, Receive(o, r) PROVE RingInv'
  <2>1. UNCHANGED <<epoch, seq, ring, lock, gui>> /\ obs[o].at = "idle"
    BY <1>1 DEF Receive, memory
  <2>2. CASE Epoch = 0 BY <1>1, <2>1, <2>2, Stutter DEF Receive
  <2>3. CASE Epoch # 0 BY <1>1, <2>1, <2>3, Publishing DEF Receive
  <2> QED BY <2>2, <2>3
<1>2. ASSUME NEW r \in Requests, Send(o, r) PROVE RingInv'
  <2>1. UNCHANGED <<epoch, seq, ring, lock, gui>> /\ obs[o].at = "idle"
    BY <1>2 DEF Send, memory
  <2>2. CASE obs' = obs BY <2>1, <2>2, Stutter
  <2>3. CASE Epoch # 0 /\ StartPublish(o, r, "success")
    BY <2>1, <2>3, Publishing
  <2> QED BY <1>2, <2>2, <2>3 DEF Send
<1>3. ASSUME TryLock(o) PROVE RingInv'
  <2>1. UNCHANGED <<epoch, seq, ring, gui>> BY <1>3 DEF TryLock
  <2>2. CASE lock = None /\ lock' = o /\ obs' = [obs EXCEPT ![o].at = "locked"]
    <3>1. RingTypes' BY <2>1, <2>2 DEF RingInv, RingTypes
    <3>2. Exclusive' BY <2>1, <2>2 DEF RingInv, RingTypes, Exclusive
    <3>3. Current' BY <1>3, <2>1, <2>2 DEF TryLock, RingInv, RingTypes, Current
    <3> QED BY <2>1, <3>1, <3>2, <3>3 DEF RingInv, EpochIsolation
  <2>3. CASE /\ obs' = [obs EXCEPT ![o] = Quiet]
             /\ \/ lock = Abandoned /\ lock' = None
                \/ UNCHANGED lock
    <3>1. RingTypes' /\ Exclusive' /\ Current'
      BY <2>1, <2>3, Resting DEF RingInv, RingTypes
    <3> QED BY <2>1, <3>1 DEF RingInv, EpochIsolation
  <2> QED BY <1>3, <2>2, <2>3 DEF TryLock
<1>4. ASSUME Recheck(o) PROVE RingInv'
  <2>1. UNCHANGED <<epoch, seq, ring, gui>> /\ obs[o].at = "locked"
    BY <1>4 DEF Recheck, memory
  <2>2. CASE /\ Epoch = obs[o].epoch /\ lock' = lock
             /\ obs' = [obs EXCEPT ![o].at = "write"]
    <3>1. obs[o].epoch = epoch BY <2>1, <2>2 DEF Epoch, RingInv, Current
    <3>2. RingTypes' BY <2>1, <2>2 DEF RingInv, RingTypes
    <3>3. Exclusive' BY <2>1, <2>2 DEF RingInv, RingTypes, Exclusive
    <3>4. Current' BY <2>1, <2>2, <3>1 DEF RingInv, RingTypes, Current
    <3> QED BY <2>1, <3>2, <3>3, <3>4 DEF RingInv, EpochIsolation
  <2>3. CASE lock' = None /\ obs' = [obs EXCEPT ![o] = Quiet]
    <3>1. lock = o BY <2>1 DEF RingInv, Exclusive
    <3>2. RingTypes' /\ Exclusive' /\ Current'
      BY <2>1, <2>3, <3>1, Resting DEF RingInv, RingTypes
    <3> QED BY <2>1, <3>2 DEF RingInv, EpochIsolation
  <2> QED BY <1>4, <2>2, <2>3 DEF Recheck
<1>5. ASSUME Write(o) PROVE RingInv'
  <2>1. obs[o].epoch = epoch BY <1>5 DEF Write, RingInv, Current
  <2>2. seq % Slots \in 0 .. Slots - 1 BY DEF RingInv, RingTypes
  <2>3. RingTypes' /\ Exclusive' /\ Current'
    <3>1. lock = o /\ lock' = None BY <1>5 DEF Write, RingInv, Exclusive
    <3>2. /\ obs' = [obs EXCEPT ![o] = Quiet]
          /\ UNCHANGED <<epoch, gui>>
      BY <1>5 DEF Write
    <3>3. seq' \in Nat
      BY <1>5 DEF Write, RingInv, RingTypes
    <3>4. DOMAIN ring' = DOMAIN ring BY <1>5 DEF Write
    <3> QED BY <3>1, <3>2, <3>3, <3>4, Resting
  <2>4. EpochIsolation'
    BY <1>5, <2>1, <2>2 DEF Write, Event, monitor, RingInv, RingTypes, EpochIsolation
  <2> QED BY <2>3, <2>4 DEF RingInv
<1>6. ASSUME Die(o) PROVE RingInv'
  <2>1. RingTypes' /\ Exclusive' /\ Current'
    <3>1. seq' \in Nat /\ DOMAIN ring' = DOMAIN ring
      <4>1. CASE UNCHANGED <<ring, seq>> BY <4>1 DEF RingInv, RingTypes
      <4>2. ASSUME NEW left, ring' = [ring EXCEPT ![seq % Slots] = left],
                   seq' \in {seq, seq + 1}
            PROVE  seq' \in Nat /\ DOMAIN ring' = DOMAIN ring
        BY <4>2 DEF RingInv, RingTypes
      <4> QED BY <1>6, <4>1, <4>2 DEF Die
    <3>2. /\ obs' = [obs EXCEPT ![o] = Dead]
          /\ UNCHANGED <<epoch, gui>>
          /\ lock' = lock \/ (lock = o /\ lock' = Abandoned)
      BY <1>6 DEF Die
    <3> QED BY <3>1, <3>2, Resting
  <2>2. epoch' = epoch BY <1>6 DEF Die
  <2>3. CASE ring' = ring
    BY <2>1, <2>2, <2>3 DEF RingInv, EpochIsolation
  <2>4. CASE /\ obs[o].at = "write"
             /\ \E left \in {Empty, Partial, Event(o)} :
                  ring' = [ring EXCEPT ![seq % Slots] = left]
    <3>1. PICK left \in {Empty, Partial, Event(o)} :
            ring' = [ring EXCEPT ![seq % Slots] = left]
      BY <2>4
    <3>2. left \notin {Empty, Partial} => left.epoch = epoch
      BY <2>4 DEF Event, RingInv, Current
    <3> QED BY <2>1, <2>2, <3>1, <3>2 DEF RingInv, EpochIsolation
  <2> QED BY <1>6, <2>1, <2>3, <2>4 DEF Die, RingInv
<1>7. ASSUME GiveUp(o) PROVE RingInv'
  <2>1. /\ UNCHANGED <<epoch, seq, ring, lock, gui>>
        /\ obs' = [obs EXCEPT ![o] = Quiet]
    BY <1>7 DEF GiveUp, memory
  <2>2. RingTypes' /\ Exclusive' /\ Current'
    BY <2>1, Resting DEF RingInv, RingTypes
  <2> QED BY <2>1, <2>2 DEF RingInv, EpochIsolation
<1> QED BY <1>1, <1>2, <1>3, <1>4, <1>5, <1>6, <1>7 DEF Observer

(* A step of the GUI thread preserves the invariant. *)
LEMMA GuiStep == RingInv /\ GuiThread => RingInv'
<1> SUFFICES ASSUME RingInv, GuiThread PROVE RingInv'
  OBVIOUS
<1> USE RingSizes, DistinctOwners DEF Operation
<1>1. CASE Poll \/ Toggle \/ Clear \/ Connect \/ Done
  <2>1. UNCHANGED <<epoch, seq, ring, obs, lock>>
    BY <1>1 DEF Poll, Toggle, Clear, Connect, Done, memory, server, RingInv, RingTypes
  <2>2. gui'.at # "draining" /\ gui' \in Operation
    BY <1>1 DEF Poll, Toggle, Clear, Connect, Done, Begin
  <2> QED BY <2>1, <2>2 DEF RingInv, RingTypes, Exclusive, Current, EpochIsolation
<1>2. CASE UserStop
  BY <1>2 DEF UserStop, monitor, server, RingInv, RingTypes, Exclusive, Current,
              EpochIsolation
<1>3. CASE TryDrain
  BY <1>3 DEF TryDrain, At, monitor, server, RingInv, RingTypes, Exclusive, Current,
              EpochIsolation
<1>4. CASE Drain
  <2>1. gui.at = "draining" /\ lock = Gui
    BY <1>4 DEF Drain, RingInv, Exclusive
  <2>2. UNCHANGED <<epoch, seq, obs>>
    BY <1>4 DEF Drain, Fail, server, RingInv, RingTypes
  <2>3. ring' = [i \in 0 .. Slots - 1 |-> IF i \in Drained THEN Empty ELSE ring[i]]
    BY <1>4 DEF Drain
  <2>4. gui'.at # "draining" /\ gui' \in Operation
    BY <1>4 DEF Drain, At, RingInv, RingTypes
  <2> QED BY <2>1, <2>2, <2>3, <2>4 DEF RingInv, RingTypes, Exclusive, Current,
             EpochIsolation
<1>5. CASE AfterDrain \/ ActToggle \/ ActClear
  <2>1. UNCHANGED <<epoch, seq, ring, obs, lock>>
    BY <1>5 DEF AfterDrain, ActToggle, ActClear, memory, server, RingInv, RingTypes
  <2>2. gui'.at # "draining" /\ gui' \in Operation
    BY <1>5 DEF AfterDrain, ActToggle, ActClear, At, RingInv, RingTypes
  <2> QED BY <2>1, <2>2 DEF RingInv, RingTypes, Exclusive, Current, EpochIsolation
<1>6. CASE Reset
  <2>1. obs' = obs /\ gui'.at = "idle" /\ gui' \in Operation
    BY <1>6 DEF Reset, At, server, RingInv, RingTypes
  <2>2. CASE lock = None /\ lock' = lock /\ ResetTo(Setting)
    <3>1. \A p \in Observers : obs[p].at \notin {"locked", "write"}
      BY <2>2 DEF RingInv, Exclusive
    <3>2. epoch' \in Nat
      BY <2>2 DEF ResetTo, RingInv, RingTypes
    <3> QED BY <2>1, <2>2, <3>1, <3>2 DEF ResetTo, Blank, RingInv, RingTypes, Exclusive, Current,
               EpochIsolation
  <2>3. CASE /\ lock \in Observers \cup {Abandoned}
             /\ lock' = IF lock = Abandoned THEN None ELSE lock
             /\ UNCHANGED <<epoch, seq, ring>>
    BY <2>1, <2>3 DEF RingInv, RingTypes, Exclusive, Current, EpochIsolation
  <2> QED BY <1>6, <2>2, <2>3 DEF Reset, Fail
<1>7. CASE ActConnect
  <2>1. PICK ok \in BOOLEAN :
          /\ collecting' = ok /\ epoch' = IF ok THEN 2 ELSE 0
          /\ obs' = [o \in Observers |-> IF ok THEN Quiet ELSE Dead]
    BY <1>7 DEF ActConnect
  <2>2. seq' = 0 /\ ring' = Blank /\ lock' = None
    BY <1>7 DEF ActConnect
  <2>3. gui'.at = "idle" /\ gui' \in Operation
    BY <1>7 DEF ActConnect, At, RingInv, RingTypes
  <2> QED BY <2>1, <2>2, <2>3 DEF Quiet, Dead, Blank, RingInv, RingTypes, Exclusive,
             Current, EpochIsolation
<1> QED BY <1>1, <1>2, <1>3, <1>4, <1>5, <1>6, <1>7 DEF GuiThread

(* The invariant holds at first. *)
LEMMA RingAtFirst == Init => RingInv
BY RingSizes, DistinctOwners DEF Init, Blank, Dead, Operation, RingInv, RingTypes, Exclusive,
   Current, EpochIsolation

(* Every step keeps it. *)
LEMMA RingStep == RingInv /\ [Next]_vars => RingInv'
<1> SUFFICES ASSUME RingInv, [Next]_vars PROVE RingInv'
  OBVIOUS
<1>1. CASE GuiThread BY <1>1, GuiStep
<1>2. CASE Worker
  BY <1>2 DEF Worker, RevokeCollecting, RevokeLinked, monitor, server, RingInv,
              RingTypes, Exclusive, Current, EpochIsolation
<1>3. ASSUME NEW o \in Observers, Observer(o) PROVE RingInv'
  BY <1>3, ObserverStep
<1>4. CASE UNCHANGED vars
  BY <1>4, Stutter DEF vars, memory, server
<1> QED BY <1>1, <1>2, <1>3, <1>4 DEF Next

(* The ring invariant holds in every behaviour of the monitor. *)
THEOREM RingInductive == Spec => []RingInv
BY RingAtFirst, RingStep, PTL DEF Spec

(* Whatever the interleaving of publishers, resets, revocations and        *)
(* deaths, the ring holds events of the current epoch only.                *)
THEOREM Isolation == Spec => []EpochIsolation
<1>1. RingInv => EpochIsolation BY DEF RingInv
<1> QED BY <1>1, RingInductive, PTL
-----------------------------------------------------------------------------
(* The window of the next drains.                                          *)

(* Numbers that are less than the size of the ring apart have slots of     *)
(* their own.                                                              *)
LEMMA SlotsDiffer ==
  ASSUME NEW a \in Int, NEW b \in Int, a < b, b - a < Slots
  PROVE  a % Slots # b % Slots
<1> DEFINE q == (b \div Slots) - (a \div Slots)
<1>1. Slots \in Nat \ {0}
  BY RingSizes
<1>2. /\ a = Slots * (a \div Slots) + (a % Slots) /\ a \div Slots \in Int
      /\ b = Slots * (b \div Slots) + (b % Slots) /\ b \div Slots \in Int
      /\ a % Slots \in 0 .. Slots - 1 /\ b % Slots \in 0 .. Slots - 1
  BY <1>1
<1> SUFFICES ASSUME a % Slots = b % Slots PROVE FALSE
  OBVIOUS
<1>3. b - a = Slots * q /\ q \in Int
  BY <1>1, <1>2
<1> HIDE DEF q
<1>4. CASE q <= 0
  <2>1. Slots * q <= 0
    BY <1>1, <1>3, <1>4
  <2> QED BY <1>3, <2>1
<1>5. CASE q >= 1
  <2>1. Slots * q >= Slots
    BY <1>1, <1>3, <1>5
  <2> QED BY <1>1, <1>3, <2>1
<1> QED BY <1>3, <1>4, <1>5

(* What the window needs of the desktop's side. *)
WindowInv == RingInv /\ cursor \in Nat /\ torn \in BOOLEAN /\ WindowIntact

(* Where a drain begins and ends. *)
LEMMA DrainBounds ==
  ASSUME cursor \in Nat, seq \in Nat
  PROVE  /\ DrainStart \in Nat /\ DrainStart >= cursor /\ DrainStart >= seq - Slots
         /\ DrainStart = cursor \/ DrainStart = seq - Slots
         /\ DrainStop \in Int /\ DrainStop <= seq /\ DrainStop <= DrainStart + Batch
         /\ DrainStop = seq \/ DrainStop = DrainStart + Batch
         /\ cursor <= seq => DrainStart <= DrainStop
BY RingSizes DEF DrainStart, DrainStop, MaxOf, MinOf

(* A step that leaves the ring and both ends of the window alone. *)
LEMMA WindowStutter ==
  ASSUME WindowInv, RingInv', UNCHANGED <<seq, ring, cursor, channel, torn>>
  PROVE  WindowInv'
<1>1. DrainStart' = DrainStart
  BY DEF DrainStart
<1> QED BY <1>1 DEF WindowInv, WindowIntact, InOrder

(* The event of a publisher is one of the events the ring can hold. *)
LEMMA EventIsEntry ==
  ASSUME RingInv, NEW o \in Observers, obs[o].at \in {"locked", "write"}
  PROVE  Event(o) \in Entry
<1>1. /\ obs[o].epoch \in Nat /\ obs[o].req \in Requests
      /\ obs[o].status \in {"running", "success"} /\ seq \in Nat
  BY DEF RingInv, RingTypes, Current
<1> QED BY <1>1 DEF Event, Entry

(* The event that is written takes the slot of one that no drain would     *)
(* return any more.                                                        *)
LEMMA WriteKeepsWindow ==
  ASSUME WindowInv, RingInv', NEW o \in Observers, Write(o)
  PROVE  WindowInv'
<1>1. /\ ring' = [ring EXCEPT ![seq % Slots] = Event(o)] /\ seq' = seq + 1
      /\ cursor' = cursor /\ channel' = channel /\ torn' = torn
  BY DEF Write, monitor, history
<1>2. seq \in Nat /\ cursor \in Nat /\ DOMAIN ring = 0 .. Slots - 1 /\ Slots \in Nat \ {0}
  BY RingSizes DEF WindowInv, RingInv, RingTypes
<1>3. Event(o) \notin {Empty, Partial} /\ Event(o).n = seq
  BY EventIsEntry, SlotMarks DEF Write, Event, WindowInv
<1>4. ASSUME ~torn PROVE InOrder'
  <2> SUFFICES ASSUME NEW n \in DrainStart' .. seq' - 1
               PROVE  ring'[n % Slots] \notin {Empty, Partial} /\ ring'[n % Slots].n = n
    BY DEF InOrder
  <2>1. DrainStart' \in Nat /\ DrainStart' >= cursor /\ DrainStart' >= seq + 1 - Slots
    BY <1>1, <1>2 DEF DrainStart, MaxOf
  <2>2. n \in Nat /\ n <= seq /\ n % Slots \in 0 .. Slots - 1 /\ seq % Slots \in 0 .. Slots - 1
    BY <1>1, <1>2, <2>1
  <2>3. CASE n = seq
    BY <1>1, <1>2, <1>3, <2>2, <2>3
  <2>4. CASE n < seq
    <3>1. n % Slots # seq % Slots
      <4>1. n \in Int /\ seq \in Int /\ seq - n < Slots
        BY <1>2, <2>1, <2>2
      <4> QED BY <2>4, <4>1, SlotsDiffer
    <3>2. n \in DrainStart .. seq - 1
      BY <1>1, <1>2, <2>1, <2>2, <2>4 DEF DrainStart, MaxOf
    <3> QED BY <1>1, <1>2, <1>4, <2>2, <3>1, <3>2 DEF WindowInv, WindowIntact, InOrder
  <2> QED BY <1>2, <2>2, <2>3, <2>4
<1> QED BY <1>1, <1>2, <1>4 DEF WindowInv, WindowIntact

(* A drain empties the slots of the numbers below its stop, none of which  *)
(* is a slot of a later number.                                            *)
LEMMA DrainKeepsWindow ==
  ASSUME WindowInv, RingInv', Drain
  PROVE  WindowInv'
<1>1. /\ ring' = [i \in 0 .. Slots - 1 |-> IF i \in Drained THEN Empty ELSE ring[i]]
      /\ UNCHANGED <<seq, channel, torn>>
      /\ \/ cursor' = DrainStop
         \/ cursor' = cursor /\ \E i \in Drained : ring[i] = Partial
  BY DEF Drain, history
<1>2. seq \in Nat /\ cursor \in Nat /\ DOMAIN ring = 0 .. Slots - 1 /\ Slots \in Nat \ {0}
      /\ Batch \in Nat \ {0}
  BY RingSizes DEF WindowInv, RingInv, RingTypes
<1>3. CASE torn
  <2>1. cursor' \in Nat
    BY <1>1, <1>2, DrainBounds
  <2> QED BY <1>1, <1>3, <2>1 DEF WindowInv, WindowIntact
<1>4. CASE ~torn
  <2>1. \A i \in Drained : ring[i] # Partial
    BY <1>2, <1>4, DrainBounds DEF Drained, WindowInv, WindowIntact, InOrder
  <2>2. cursor' = DrainStop
    BY <1>1, <2>1
  <2>3. cursor' \in Nat /\ (channel' => cursor' <= seq')
    BY <1>1, <1>2, <2>2, DrainBounds
  <2>4. InOrder'
    <3> SUFFICES ASSUME NEW n \in DrainStart' .. seq' - 1
                 PROVE  ring'[n % Slots] \notin {Empty, Partial} /\ ring'[n % Slots].n = n
      BY DEF InOrder
    <3>1. n \in Nat /\ n >= DrainStop /\ n < seq /\ n >= DrainStart
      BY <1>1, <1>2, <2>2, <2>3, DrainBounds DEF DrainStart, MaxOf
    <3>2. n % Slots \in 0 .. Slots - 1
      BY <1>2, <3>1
    <3>3. n % Slots \notin Drained
      <4> SUFFICES ASSUME NEW i \in DrainStart .. DrainStop - 1 PROVE i % Slots # n % Slots
        BY DEF Drained
      <4>1. i \in Int /\ i < n /\ n - i < Slots
        BY <1>2, <3>1, DrainBounds
      <4> QED BY <3>1, <4>1, SlotsDiffer
    <3>4. n \in DrainStart .. seq - 1
      BY <1>2, <3>1, DrainBounds
    <3> QED BY <1>1, <1>4, <3>2, <3>3, <3>4 DEF WindowInv, WindowIntact, InOrder
  <2> QED BY <1>1, <1>4, <2>3, <2>4 DEF WindowInv, WindowIntact
<1> QED BY <1>3, <1>4 DEF WindowInv

(* A fresh ring has an empty window. *)
LEMMA FreshWindow ==
  ASSUME RingInv', cursor' \in Nat, torn' \in BOOLEAN, seq' = 0, channel' => cursor' = 0
  PROVE  WindowInv'
<1>1. DrainStart' >= 0 /\ DrainStart' \in Int
  BY RingSizes DEF DrainStart, MaxOf
<1>2. InOrder'
  BY <1>1 DEF InOrder
<1> QED BY <1>2 DEF WindowInv, WindowIntact

(* Every step keeps the window. *)
LEMMA WindowStep == WindowInv /\ [Next]_vars => WindowInv'
<1> SUFFICES ASSUME WindowInv, [Next]_vars PROVE WindowInv'
  OBVIOUS
<1>1. RingInv'
  BY RingStep DEF WindowInv
<1>2. CASE GuiThread
  <2>1. CASE Poll \/ Toggle \/ Clear \/ Connect \/ UserStop \/ Done \/ TryDrain \/ AfterDrain
             \/ ActToggle \/ ActClear
    <3>1. UNCHANGED <<seq, ring, cursor, channel, torn>>
      BY <2>1 DEF Poll, Toggle, Clear, Connect, UserStop, Done, TryDrain, AfterDrain, ActToggle,
                  ActClear, memory, monitor, history
    <3> QED BY <1>1, <3>1, WindowStutter
  <2>2. CASE Drain
    BY <1>1, <2>2, DrainKeepsWindow
  <2>3. CASE Reset
    <3>1. CASE ResetTo(Setting) /\ cursor' = 0 /\ torn' = FALSE
      BY <1>1, <3>1, FreshWindow DEF ResetTo
    <3>2. CASE UNCHANGED <<seq, ring, cursor, torn>>
      BY <1>1, <2>3, <3>2, WindowStutter DEF Reset
    <3> QED BY <2>3, <3>1, <3>2 DEF Reset
  <2>4. CASE ActConnect
    <3>1. /\ seq' = 0 /\ torn' = FALSE
          /\ \E ok \in BOOLEAN : channel' = ok /\ cursor' = IF ok THEN 0 ELSE cursor
      BY <2>4 DEF ActConnect
    <3>2. cursor' \in Nat /\ (channel' => cursor' = 0)
      BY <3>1 DEF WindowInv
    <3> QED BY <1>1, <3>1, <3>2, FreshWindow
  <2> QED BY <1>2, <2>1, <2>2, <2>3, <2>4 DEF GuiThread
<1>3. CASE Worker
  BY <1>1, <1>3, WindowStutter DEF Worker, RevokeCollecting, RevokeLinked, monitor, history
<1>4. ASSUME NEW o \in Observers, Observer(o) PROVE WindowInv'
  <2>1. CASE GiveUp(o) \/ TryLock(o) \/ Recheck(o) \/ \E r \in Requests : Receive(o, r) \/ Send(o, r)
    <3>1. UNCHANGED <<seq, ring, cursor, channel, torn>>
      BY <2>1 DEF GiveUp, TryLock, Recheck, Receive, Send, memory, monitor, history
    <3> QED BY <1>1, <3>1, WindowStutter
  <2>2. CASE Write(o)
    BY <1>1, <2>2, WriteKeepsWindow
  <2>3. CASE Die(o)
    <3>1. UNCHANGED <<cursor, channel>> /\ torn' = (torn \/ obs[o].at = "write")
      BY <2>3 DEF Die, monitor
    <3>2. CASE obs[o].at = "write"
      BY <1>1, <3>1, <3>2 DEF WindowInv, WindowIntact
    <3>3. CASE obs[o].at # "write"
      <4>1. UNCHANGED <<seq, ring, torn>>
        BY <2>3, <3>1, <3>3 DEF Die, WindowInv
      <4> QED BY <1>1, <3>1, <4>1, WindowStutter
    <3> QED BY <3>2, <3>3
  <2> QED BY <1>4, <2>1, <2>2, <2>3 DEF Observer
<1>5. CASE UNCHANGED vars
  BY <1>1, <1>5, WindowStutter DEF vars, memory, monitor, history
<1> QED BY <1>2, <1>3, <1>4, <1>5 DEF Next

(* The window invariant holds in every behaviour of the monitor. *)
THEOREM WindowInductive == Spec => []WindowInv
<1>1. Init => WindowInv
  <2> SUFFICES ASSUME Init PROVE WindowInv
    OBVIOUS
  <2>1. RingInv
    BY RingAtFirst
  <2>2. seq = 0 /\ cursor = 0 /\ torn = FALSE /\ channel = FALSE
    BY DEF Init
  <2>3. InOrder
    BY <2>2, RingSizes DEF InOrder, DrainStart, MaxOf
  <2> QED BY <2>1, <2>2, <2>3 DEF WindowInv, WindowIntact
<1> QED BY <1>1, WindowStep, PTL DEF Spec

(* Every event that was published and neither drained nor overwritten is   *)
(* still where the next drain looks for it, for any number of slots, any   *)
(* batch and any number of publishers.                                     *)
THEOREM WindowKept == Spec => []WindowIntact
<1>1. WindowInv => WindowIntact
  BY DEF WindowInv
<1> QED BY <1>1, WindowInductive, PTL

-----------------------------------------------------------------------------
(* The rows of the desktop.  A drain merges its events one by one, so what  *)
(* it leaves is found by induction over their number.                      *)

(* Induction over the natural numbers, for a set of them. *)
LEMMA NaturalsByInduction ==
  ASSUME NEW T, 0 \in T, \A n \in Nat : n \in T => n + 1 \in T
  PROVE  Nat \subseteq T
<1> DEFINE Less == {pair \in Nat \X Nat : pair[1] < pair[2]}
           Rest == Nat \ T
<1>1. IsWellFoundedOn(Less, Nat)
  BY NatLessThanWellFounded DEF OpToRel
<1>2. \A m, n \in Nat : m < n => <<m, n>> \in Less
  OBVIOUS
<1> HIDE DEF Less
<1> SUFFICES ASSUME Rest # {} PROVE FALSE
  OBVIOUS
<1>3. Rest \subseteq Nat
  OBVIOUS
<1> HIDE DEF Rest
<1>4. PICK n \in Rest : \A m \in Rest : ~ (<<m, n>> \in Less)
  BY <1>1, <1>3, WFMin
<1>5. n \in Nat /\ n # 0 /\ n - 1 \in Nat
  BY <1>3 DEF Rest
<1>6. n - 1 \in Rest /\ n - 1 < n
  BY <1>5 DEF Rest
<1> QED BY <1>2, <1>3, <1>4, <1>5, <1>6

(* The greatest element of a set of integers, when it is known to be one. *)
LEMMA Greatest ==
  ASSUME NEW s \in SUBSET Int, NEW m \in s, \A i \in s : i <= m
  PROVE  Max(s) = m
<1>1. \E n \in s : \A i \in s : n >= i
  OBVIOUS
<1>2. Max(s) \in s /\ \A i \in s : Max(s) >= i
  BY <1>1 DEF Max
<1>3. Max(s) \in Int /\ Max(s) >= m /\ m >= Max(s)
  BY <1>2
<1> QED BY <1>3

(* Rows of the history about requests of S. *)
Row(S) == [req : S, status : Status]

(* Merging an event of a request that may have a row. *)
LEMMA MergeRows ==
  ASSUME NEW S, NEW rows \in Seq(Row(S)), NEW e \in Entry, e.req \in S
  PROVE  Merge(rows, e) \in Seq(Row(S))
<1> DEFINE row == [req |-> e.req, status |-> e.status]
           old == {i \in DOMAIN rows : rows[i].req = e.req}
           new == IF old = {} THEN Append(rows, row)
                              ELSE [rows EXCEPT ![CHOOSE i \in old : TRUE] = row]
<1>1. row \in Row(S)
  BY DEF Row, Entry, Status
<1> HIDE DEF row
<1>2. new \in Seq(Row(S))
  <2>1. CASE old = {}
    BY <1>1, <2>1
  <2>2. CASE old # {}
    <3> DEFINE i == CHOOSE j \in old : TRUE
    <3>1. i \in DOMAIN rows
      BY <2>2
    <3> HIDE DEF i
    <3>2. [rows EXCEPT ![i] = row] \in Seq(Row(S))
      BY <1>1, <3>1
    <3> QED BY <2>2, <3>2 DEF i
  <2> QED BY <2>1, <2>2
<1>3. Merge(rows, e) = IF Len(new) > MaxRecords THEN Tail(new) ELSE new
  BY DEF Merge, row
<1> HIDE DEF new
<1>4. CASE Len(new) > MaxRecords
  <2>1. new # <<>>
    BY <1>2, <1>4, RingSizes
  <2> QED BY <1>2, <1>3, <1>4, <2>1
<1> QED BY <1>2, <1>3, <1>4

(* What a drain merges, when no slot holds an event of another request. *)
LEMMA MergedRows ==
  ASSUME NEW S, records \in Seq(Row(S)), DrainStart \in Nat, DrainStop \in Int,
         \A i \in 0 .. Slots - 1 : ring[i] \notin {Empty, Partial} =>
                                     ring[i] \in Entry /\ ring[i].req \in S
  PROVE  Merged \in Seq(Row(S))
<1> DEFINE count == DrainStop - DrainStart
           numbers == [i \in 1 .. count |-> DrainStart + i - 1]
           Rows == Seq(Row(S))
<1>1. ASSUME NEW rows \in Rows, NEW n \in Int PROVE Take(rows, n) \in Rows
  <2>1. n % Slots \in 0 .. Slots - 1
    BY RingSizes
  <2> QED BY <2>1, MergeRows DEF Take
<1>2. \A i \in 1 .. count : numbers[i] \in Int
  OBVIOUS
<1>0. DOMAIN numbers = 1 .. count /\ count \in Int
  OBVIOUS
<1> DEFINE Unfold(g, s) == IF s = {} THEN records ELSE Take(g[s \ {Max(s)}], numbers[Max(s)])
           iter == CHOOSE g : g = [s \in SUBSET (DOMAIN numbers) |-> Unfold(g, s)]
<1>3. Merged = iter[DOMAIN numbers]
  BY DEF Merged, FoldLeft, MapThenFoldSet
<1> HIDE DEF numbers, count
<1>4. \A s \in SUBSET (1 .. count) : iter[s] = Unfold(iter, s)
  <2> DEFINE Solves(n) == \E g : g = [s \in SUBSET (1 .. n) |-> Unfold(g, s)]
             T == {n \in Nat : Solves(n)}
  <2>1. 0 \in T
    <3> DEFINE g == [s \in SUBSET (1 .. 0) |-> records]
    <3>1. g = [s \in SUBSET (1 .. 0) |-> Unfold(g, s)]
      OBVIOUS
    <3> QED BY <3>1
  <2>2. ASSUME NEW n \in Nat, n \in T PROVE n + 1 \in T
    <3>1. PICK g : g = [s \in SUBSET (1 .. n) |-> Unfold(g, s)]
      BY <2>2
    <3> DEFINE D == SUBSET (1 .. n + 1)
               h == [s \in D |-> IF n + 1 \in s THEN Take(g[s \ {n + 1}], numbers[n + 1]) ELSE g[s]]
    <3>2. ASSUME NEW s \in D PROVE h[s] = Unfold(h, s)
      <4>1. CASE n + 1 \in s
        <5>1. Max(s) = n + 1
          BY <4>1, Greatest
        <5>2. h[s \ {n + 1}] = g[s \ {n + 1}]
          BY <4>1
        <5> QED BY <4>1, <5>1, <5>2
      <4>2. CASE n + 1 \notin s
        <5>1. s \in SUBSET (1 .. n) /\ h[s] = g[s]
          BY <4>2
        <5>2. s \ {Max(s)} \in D /\ n + 1 \notin s \ {Max(s)}
          BY <4>2
        <5>3. h[s \ {Max(s)}] = g[s \ {Max(s)}]
          BY <5>2
        <5> HIDE DEF h
        <5> QED BY <3>1, <5>1, <5>3
      <4> QED BY <4>1, <4>2
    <3>3. h = [s \in D |-> h[s]]
      OBVIOUS
    <3> HIDE DEF h, Unfold, D
    <3>4. h = [s \in D |-> Unfold(h, s)]
      BY <3>2, <3>3
    <3> QED BY <3>4 DEF D
  <2> HIDE DEF T
  <2>3. Nat \subseteq T
    BY <2>1, <2>2, NaturalsByInduction
  <2>4. \E n \in Nat : 1 .. count = 1 .. n
    <3>1. CASE count \in Nat
      BY <3>1
    <3>2. CASE count < 0
      <4>1. 1 .. count = 1 .. 0
        BY <1>0, <3>2
      <4> QED BY <4>1
    <3> QED BY <1>0, <3>1, <3>2
  <2> HIDE DEF Unfold
  <2>5. \E g : g = [s \in SUBSET (1 .. count) |-> Unfold(g, s)]
    BY <2>3, <2>4 DEF T
  <2>6. iter = [s \in SUBSET (1 .. count) |-> Unfold(iter, s)]
    BY <2>5, <1>0
  <2> QED BY <2>6
<1> HIDE DEF iter
<1> DEFINE Good == {n \in Nat : n <= count => iter[1 .. n] \in Rows}
<1> HIDE DEF Rows
<1>5. 0 \in Good
  <2>1. iter[{}] = records
    BY <1>4
  <2>2. 1 .. 0 = {} OBVIOUS
  <2> QED BY <2>1, <2>2 DEF Rows
<1>6. ASSUME NEW n \in Nat, n \in Good PROVE n + 1 \in Good
  <2> SUFFICES ASSUME n + 1 <= count PROVE iter[1 .. n + 1] \in Rows
    OBVIOUS
  <2> DEFINE s == 1 .. n + 1
  <2>1. s \in SUBSET Int /\ n + 1 \in s /\ \A i \in s : i <= n + 1
    OBVIOUS
  <2>2. s \in SUBSET (1 .. count) /\ s \ {n + 1} = 1 .. n
    BY <1>0
  <2> HIDE DEF s
  <2>3. Max(s) = n + 1
    BY <2>1, Greatest
  <2>4. iter[s] = Take(iter[1 .. n], numbers[n + 1])
    BY <1>4, <2>1, <2>2, <2>3
  <2>5. iter[1 .. n] \in Rows /\ numbers[n + 1] \in Int
    BY <1>6, <1>2, <1>0 DEF numbers
  <2> QED BY <1>1, <2>4, <2>5 DEF s
<1> HIDE DEF Good
<1>7. Nat \subseteq Good
  BY <1>5, <1>6, NaturalsByInduction
<1>8. CASE count \in Nat
  <2>1. iter[1 .. count] \in Rows
    BY <1>7, <1>8 DEF Good
  <2> QED BY <1>0, <1>3, <2>1 DEF Rows
<1>9. CASE count < 0
  <2>1. 1 .. count = 1 .. 0
    BY <1>0, <1>9
  <2>2. 1 .. count = {}  BY <2>1
  <2> QED BY <1>0, <1>3, <2>2, <1>4
<1> QED BY <1>0, <1>8, <1>9

(* An observer with an event in hand. *)
Sending(o) == obs[o].at \in {"try", "locked", "write"}

(* Types of the rows, the ring and the tables of the servers. *)
HistoryTypes ==
  /\ records \in Seq(Row(Requests \ cleared))
  /\ req \in [Requests -> Observers \cup {"new", "done"}]
  /\ pending \in [Observers -> SUBSET Requests]
  /\ generation \in [Observers -> Nat]
  /\ \A i \in DOMAIN ring : ring[i] \in Entry \cup {Empty, Partial}
  /\ cleared \subseteq Requests

(* Nobody is ahead of the channel. *)
Behind == \A o \in Observers : obs[o].epoch <= epoch /\ generation[o] <= epoch

(* A cleared request has been received; of the present epoch, neither the  *)
(* ring nor a publisher nor the table of a server knows it any more.       *)
Forgotten ==
  /\ \A r \in cleared : req[r] # "new"
  /\ ~failed =>
       /\ \A i \in DOMAIN ring : ring[i] \notin {Empty, Partial} => ring[i].req \notin cleared
       /\ \A o \in Observers : Sending(o) /\ obs[o].epoch = epoch => obs[o].req \notin cleared
       /\ \A o \in Observers : generation[o] = epoch => pending[o] \cap cleared = {}

(* Before the first connection nobody has anything to publish. *)
Unopened ==
  ~channel /\ ~failed => /\ ring = Blank
                         /\ \A o \in Observers : obs[o].at = "dead" /\ pending[o] = {}

(* A failed monitor drains no more. *)
NoDrain == failed => gui.at \notin {"drain", "draining"}

ClearInv == RingInv /\ HistoryTypes /\ Behind /\ Forgotten /\ Unopened /\ NoDrain

(* Steps that touch neither the rows nor what could reach them. *)
LEMMA ClearStutter ==
  ASSUME ClearInv, RingInv',
         UNCHANGED <<epoch, ring, obs, records, req, pending, generation, cleared, channel, failed>>,
         failed => gui'.at \notin {"drain", "draining"}
  PROVE  ClearInv'
<1> USE DEF ClearInv
<1>1. HistoryTypes'
  BY DEF HistoryTypes
<1>2. Behind' /\ Forgotten' /\ Unopened' /\ NoDrain'
  BY DEF Behind, Forgotten, Sending, Unopened, NoDrain, Blank
<1> QED BY <1>1, <1>2

(* An observer goes to rest, or dies, without touching the ring. *)
LEMMA ClearResting ==
  ASSUME ClearInv, RingInv', NEW o \in Observers, NEW rest \in {Quiet, Dead},
         obs' = [obs EXCEPT ![o] = rest], obs[o].at # "dead",
         UNCHANGED <<epoch, records, cleared, channel, failed, gui, generation>>,
         pending' = pending \/ pending' = [pending EXCEPT ![o] = {}],
         req' \in [Requests -> Observers \cup {"new", "done"}],
         \A r \in Requests : req'[r] = "new" => req[r] = "new",
         \A i \in DOMAIN ring' : ring'[i] \in Entry \cup {Empty, Partial},
         ~failed => \A i \in DOMAIN ring' : ring'[i] \notin {Empty, Partial}
                                              => ring'[i].req \notin cleared
  PROVE  ClearInv'
<1> USE DEF ClearInv
<1>1. rest.at \notin {"try", "locked", "write"} /\ rest.epoch = 0
  BY QuietIs DEF Dead
<1>2. HistoryTypes'
  BY DEF HistoryTypes
<1>3. obs' \in [Observers -> [at : {"dead", "idle", "try", "locked", "write"}, epoch : Nat,
                            req : Requests \cup {None}, status : {"none", "running", "success"}]]
      /\ epoch \in Nat
  BY DEF RingInv, RingTypes
<1>4. \A p \in Observers : obs'[p] = obs[p] \/ (p = o /\ obs'[p] = rest)
  BY DEF RingInv, RingTypes
<1>5. \A p \in Observers : pending'[p] \subseteq pending[p]
  BY DEF HistoryTypes
<1>6. Behind'
  BY <1>1, <1>3, <1>4 DEF Behind
<1>7. Forgotten'
  BY <1>1, <1>4, <1>5 DEF Forgotten, Sending, HistoryTypes
<1>8. Unopened' /\ NoDrain'
  BY DEF Unopened, NoDrain
<1> QED BY <1>2, <1>6, <1>7, <1>8

(* A request comes in, or its response goes out, and it is published when  *)
(* the table knows it and something is collected.                          *)
LEMMA ClearPublish ==
  ASSUME ClearInv, RingInv', NEW o \in Observers, NEW r \in Requests, NEW table \in SUBSET Requests,
         NEW status, obs[o].at = "idle",
         obs' = obs \/ ((r \notin cleared \/ failed) /\ StartPublish(o, r, status)),
         table \subseteq Known(o) \/ ((r \notin cleared \/ failed) /\ table \subseteq Known(o) \cup {r}),
         generation' = [generation EXCEPT ![o] = Epoch],
         pending' = [pending EXCEPT ![o] = table],
         req' \in [Requests -> Observers \cup {"new", "done"}],
         \A q \in Requests : req'[q] = "new" => req[q] = "new",
         UNCHANGED <<epoch, ring, records, cleared, channel, failed, gui>>
  PROVE  ClearInv'
<1> USE DEF ClearInv
<1>1. epoch \in Nat /\ Epoch \in Nat /\ Epoch <= epoch
  BY DEF RingInv, RingTypes, Epoch
<1>2. HistoryTypes'
  BY <1>1 DEF HistoryTypes
<1>3. \A p \in Observers :
        \/ obs'[p] = obs[p]
        \/ /\ p = o /\ (r \notin cleared \/ failed)
           /\ obs'[p].epoch = Epoch /\ obs'[p].req = r
  BY DEF RingInv, RingTypes, StartPublish
<1>4. \A p \in Observers : /\ p # o => generation'[p] = generation[p] /\ pending'[p] = pending[p]
                           /\ p = o => generation'[p] = Epoch /\ pending'[p] = table
  BY DEF HistoryTypes
<1>5. Behind'
  BY <1>1, <1>3, <1>4 DEF Behind
<1>6. ASSUME ~failed, Epoch = epoch PROVE table \cap cleared = {}
  BY <1>6 DEF Forgotten, Known
<1>7. Forgotten'
  <2>1. \A q \in cleared : req'[q] # "new"
    BY DEF Forgotten, HistoryTypes
  <2>2. ~failed => \A p \in Observers : Sending(p)' /\ obs'[p].epoch = epoch => obs'[p].req \notin cleared
    BY <1>3 DEF Forgotten, Sending
  <2>3. ~failed => \A p \in Observers : generation'[p] = epoch => pending'[p] \cap cleared = {}
    BY <1>4, <1>6 DEF Forgotten
  <2> QED BY <2>1, <2>2, <2>3 DEF Forgotten
<1>8. Unopened' /\ NoDrain'
  BY DEF Unopened, NoDrain
<1> QED BY <1>2, <1>5, <1>7, <1>8

(* An observer's step keeps what has been cleared out of reach. *)
LEMMA ClearObserver ==
  ASSUME ClearInv, RingInv', NEW o \in Observers, Observer(o)
  PROVE  ClearInv'
<1>1. ASSUME NEW r \in Requests, Receive(o, r) PROVE ClearInv'
  <2>1. r \notin cleared
    BY <1>1 DEF Receive, ClearInv, Forgotten
  <2>2. /\ UNCHANGED <<epoch, ring, records, cleared, channel, failed, gui>>
        /\ generation' = [generation EXCEPT ![o] = Epoch]
        /\ req' = [req EXCEPT ![r] = o] /\ obs[o].at = "idle"
    BY <1>1 DEF Receive, memory, monitor, history
  <2>3. /\ req' \in [Requests -> Observers \cup {"new", "done"}]
        /\ \A q \in Requests : req'[q] = "new" => req[q] = "new"
    BY <2>2, DistinctOwners DEF ClearInv, HistoryTypes
  <2>4. Known(o) \in SUBSET Requests
    BY DEF Known, ClearInv, HistoryTypes
  <2>5. CASE Epoch = 0
    <3>1. /\ pending' = [pending EXCEPT ![o] = Known(o)]
          /\ obs' = obs \/ ((r \notin cleared \/ failed) /\ StartPublish(o, r, "running"))
      BY <1>1, <2>5 DEF Receive
    <3> QED BY <2>1, <2>2, <2>3, <2>4, <3>1, ClearPublish
  <2>6. CASE Epoch # 0
    <3>1. pending' = [pending EXCEPT ![o] = Known(o) \cup {r}] /\ StartPublish(o, r, "running")
      BY <1>1, <2>6 DEF Receive
    <3> QED BY <2>1, <2>2, <2>3, <2>4, <3>1, ClearPublish
  <2> QED BY <2>5, <2>6
<1>2. ASSUME NEW r \in Requests, Send(o, r) PROVE ClearInv'
  <2>1. /\ UNCHANGED <<epoch, ring, records, cleared, channel, failed, gui>>
        /\ generation' = [generation EXCEPT ![o] = Epoch]
        /\ pending' = [pending EXCEPT ![o] = Known(o) \ {r}]
        /\ req' = [req EXCEPT ![r] = "done"] /\ obs[o].at = "idle"
    BY <1>2 DEF Send, memory, monitor, history
  <2>2. /\ req' \in [Requests -> Observers \cup {"new", "done"}]
        /\ \A q \in Requests : req'[q] = "new" => req[q] = "new"
    BY <2>1 DEF ClearInv, HistoryTypes
  <2>3. Known(o) \ {r} \in SUBSET Requests
    BY DEF Known, ClearInv, HistoryTypes
  <2>4. ASSUME Epoch # 0, r \in Known(o) PROVE r \notin cleared \/ failed
    BY <2>4 DEF Known, Epoch, ClearInv, Forgotten
  <2>5. obs' = obs \/ ((r \notin cleared \/ failed) /\ StartPublish(o, r, "success"))
    <3>1. CASE Epoch # 0 /\ r \in Known(o)
      BY <1>2, <2>4, <3>1 DEF Send
    <3>2. CASE ~(Epoch # 0 /\ r \in Known(o))
      BY <1>2, <3>2 DEF Send
    <3> QED BY <3>1, <3>2
  <2> QED BY <2>1, <2>2, <2>3, <2>5, ClearPublish
<1>3. CASE GiveUp(o)
  <2>1. /\ UNCHANGED <<epoch, ring, records, cleared, channel, failed, gui, generation, pending, req>>
        /\ obs' = [obs EXCEPT ![o] = Quiet] /\ obs[o].at # "dead"
    BY <1>3 DEF GiveUp, memory, monitor, history
  <2> QED BY <2>1, ClearResting DEF ClearInv, HistoryTypes, Forgotten
<1>4. ASSUME obs[o].at \in {"try", "locked"}, NEW at \in {"locked", "write"},
             obs' = [obs EXCEPT ![o].at = at],
             UNCHANGED <<epoch, ring, records, req, pending, generation, cleared, channel, failed, gui>>
      PROVE  ClearInv'
  <2> USE DEF ClearInv
  <2>1. HistoryTypes'
    BY <1>4 DEF HistoryTypes
  <2>2. \A p \in Observers : /\ obs'[p].epoch = obs[p].epoch /\ obs'[p].req = obs[p].req
                             /\ Sending(p)' => Sending(p)
    BY <1>4 DEF RingInv, RingTypes, Sending
  <2>3. Behind' /\ Forgotten' /\ Unopened' /\ NoDrain'
    BY <1>4, <2>2 DEF Behind, Forgotten, Unopened, NoDrain, Blank
  <2> QED BY <2>1, <2>3
<1>5. ASSUME obs[o].at \in {"try", "locked"}, obs' = [obs EXCEPT ![o] = Quiet],
             UNCHANGED <<epoch, ring, records, req, pending, generation, cleared, channel, failed, gui>>
      PROVE  ClearInv'
  BY <1>5, ClearResting DEF ClearInv, HistoryTypes, Forgotten
<1>6. CASE TryLock(o)
  <2>1. UNCHANGED <<epoch, ring, records, req, pending, generation, cleared, channel, failed, gui>>
    BY <1>6 DEF TryLock, monitor, history
  <2> QED BY <1>4, <1>5, <1>6, <2>1 DEF TryLock
<1>7. CASE Recheck(o)
  <2>1. UNCHANGED <<epoch, ring, records, req, pending, generation, cleared, channel, failed, gui>>
    BY <1>7 DEF Recheck, memory, monitor, history
  <2> QED BY <1>4, <1>5, <1>7, <2>1 DEF Recheck
<1>8. ASSUME obs[o].at = "write", NEW left \in {Empty, Partial, Event(o)},
             ring' = [ring EXCEPT ![seq % Slots] = left]
      PROVE  /\ \A i \in DOMAIN ring' : ring'[i] \in Entry \cup {Empty, Partial}
             /\ ~failed => \A i \in DOMAIN ring' : ring'[i] \notin {Empty, Partial}
                                                     => ring'[i].req \notin cleared
  <2>1. Event(o) \in Entry /\ obs[o].epoch = epoch
    BY <1>8, EventIsEntry DEF ClearInv, RingInv, Current
  <2>2. ~failed => Event(o).req \notin cleared
    BY <1>8, <2>1 DEF Event, ClearInv, Forgotten, Sending
  <2> QED BY <1>8, <2>1, <2>2 DEF ClearInv, HistoryTypes, Forgotten
<1>9. CASE Write(o)
  <2>1. /\ UNCHANGED <<epoch, records, cleared, channel, failed, gui, generation, pending, req>>
        /\ obs' = [obs EXCEPT ![o] = Quiet] /\ obs[o].at = "write"
        /\ ring' = [ring EXCEPT ![seq % Slots] = Event(o)]
    BY <1>9 DEF Write, monitor, history
  <2>2. req' \in [Requests -> Observers \cup {"new", "done"}]
    BY <2>1 DEF ClearInv, HistoryTypes
  <2> QED BY <1>8, <2>1, <2>2, ClearResting
<1>10. CASE Die(o)
  <2>1. /\ UNCHANGED <<epoch, records, cleared, channel, failed, gui, generation>>
        /\ obs' = [obs EXCEPT ![o] = Dead] /\ obs[o].at # "dead"
        /\ pending' = [pending EXCEPT ![o] = {}]
        /\ req' = [r \in Requests |-> IF req[r] = o THEN "done" ELSE req[r]]
    BY <1>10 DEF Die, monitor
  <2>2. /\ req' \in [Requests -> Observers \cup {"new", "done"}]
        /\ \A q \in Requests : req'[q] = "new" => req[q] = "new"
    BY <2>1 DEF ClearInv, HistoryTypes
  <2>3. CASE UNCHANGED ring
    <3>1. \A i \in DOMAIN ring' : ring'[i] \in Entry \cup {Empty, Partial}
      BY <2>3 DEF ClearInv, HistoryTypes
    <3>2. ~failed => \A i \in DOMAIN ring' : ring'[i] \notin {Empty, Partial}
                                               => ring'[i].req \notin cleared
      BY <2>3 DEF ClearInv, Forgotten
    <3> QED BY <2>1, <2>2, <3>1, <3>2, ClearResting
  <2>4. ASSUME obs[o].at = "write", NEW left \in {Empty, Partial, Event(o)},
               ring' = [ring EXCEPT ![seq % Slots] = left]
        PROVE  ClearInv'
    BY <1>8, <2>1, <2>2, <2>4, ClearResting
  <2> QED BY <1>10, <2>3, <2>4 DEF Die
<1> QED BY <1>1, <1>2, <1>3, <1>6, <1>7, <1>9, <1>10 DEF Observer

(* Closing the open rows keeps their requests. *)
LEMMA FinishedRows ==
  ASSUME NEW S, records \in Seq(Row(S)), NEW status \in Status
  PROVE  FinishPending(status) \in Seq(Row(S))
<1> DEFINE row(i) == IF records[i].status = "running" THEN [records[i] EXCEPT !.status = status]
                                                      ELSE records[i]
<1>1. /\ DOMAIN records = 1 .. Len(records) /\ Len(records) \in Nat
      /\ \A i \in DOMAIN records : records[i] \in Row(S)
  OBVIOUS
<1>2. ASSUME NEW i \in DOMAIN records PROVE row(i) \in Row(S)
  BY <1>1, <1>2 DEF Row
<1>3. FinishPending(status) = [i \in DOMAIN records |-> row(i)]
  BY DEF FinishPending
<1>4. [i \in DOMAIN records |-> row(i)] \in [1 .. Len(records) -> Row(S)]
  BY <1>1, <1>2, Zenon
<1> HIDE DEF row
<1> QED BY <1>1, <1>3, <1>4

(* A step that only rewrites the rows, or fails the monitor. *)
LEMMA ClearRows ==
  ASSUME ClearInv, RingInv',
         UNCHANGED <<epoch, obs, req, pending, generation, cleared, channel>>,
         records' \in Seq(Row(Requests \ cleared)),
         failed' = failed \/ failed' = TRUE,
         gui'.at \notin {"drain", "draining"},
         \/ UNCHANGED ring
         \/ ring' = [i \in 0 .. Slots - 1 |-> IF i \in Drained THEN Empty ELSE ring[i]]
  PROVE  ClearInv'
<1> USE DEF ClearInv
<1>0. \A i \in DOMAIN ring' : ring'[i] = Empty \/ (i \in DOMAIN ring /\ ring'[i] = ring[i])
  BY DEF RingInv, RingTypes
<1>1. HistoryTypes'
  BY <1>0 DEF HistoryTypes, Row
<1>2. Behind' /\ NoDrain'
  BY DEF Behind, NoDrain
<1>3. Forgotten'
  BY <1>0 DEF Forgotten, Sending
<1>4. Unopened'
  BY DEF Unopened, Blank
<1> QED BY <1>1, <1>2, <1>3, <1>4

(* A step of the GUI thread keeps what has been cleared out of reach. *)
LEMMA ClearGui ==
  ASSUME ClearInv, RingInv', cursor \in Nat, GuiThread
  PROVE  ClearInv'
<1> USE DEF ClearInv
<1>1. CASE Poll \/ Toggle \/ Clear \/ Connect \/ UserStop \/ Done
  <2>1. UNCHANGED <<epoch, ring, obs, records, req, pending, generation, cleared, channel, failed>>
    BY <1>1 DEF Poll, Toggle, Clear, Connect, UserStop, Done, memory, monitor, server, history
  <2>2. failed => gui'.at \notin {"drain", "draining"}
    BY <1>1 DEF Poll, Toggle, Clear, Connect, UserStop, Done, Begin
  <2> QED BY <2>1, <2>2, ClearStutter
<1>2. CASE TryDrain
  <2>1. UNCHANGED <<epoch, ring, obs, records, req, pending, generation, cleared, channel, failed>>
    BY <1>2 DEF TryDrain, monitor, server, history
  <2>2. ~failed
    BY <1>2 DEF TryDrain, NoDrain
  <2> QED BY <2>1, <2>2, ClearStutter
<1>3. CASE Drain
  <2>1. ~failed
    BY <1>3 DEF Drain, NoDrain
  <2>2. /\ UNCHANGED <<epoch, obs, req, pending, generation, cleared, channel>>
        /\ ring' = [i \in 0 .. Slots - 1 |-> IF i \in Drained THEN Empty ELSE ring[i]]
    BY <1>3 DEF Drain, Fail, server, history
  <2>3. /\ gui'.at \notin {"drain", "draining"}
        /\ failed' = failed \/ failed' = TRUE
        /\ records' = Merged \/ records' = records
    BY <1>3 DEF Drain, Fail, At, RingInv, RingTypes, Operation
  <2>4. Merged \in Seq(Row(Requests \ cleared))
    <3>1. seq \in Nat /\ DOMAIN ring = 0 .. Slots - 1
      BY DEF RingInv, RingTypes
    <3>2. DrainStart \in Nat /\ DrainStop \in Int
      BY <3>1, DrainBounds
    <3>3. \A i \in 0 .. Slots - 1 : ring[i] \notin {Empty, Partial} =>
                                     ring[i] \in Entry /\ ring[i].req \in Requests \ cleared
      BY <2>1, <3>1 DEF HistoryTypes, Forgotten, Entry
    <3> QED BY <3>2, <3>3, MergedRows DEF HistoryTypes
  <2> QED BY <2>2, <2>3, <2>4, ClearRows DEF HistoryTypes
<1>4. CASE AfterDrain
  <2>1. UNCHANGED <<epoch, ring, obs, req, pending, generation, cleared, channel>>
    BY <1>4 DEF AfterDrain, memory, server, history
  <2>2. /\ gui'.at \notin {"drain", "draining"}
        /\ failed' = failed \/ failed' = TRUE
        /\ \/ records' = records
           \/ \E status \in Status : records' = FinishPending(status)
    BY <1>4 DEF AfterDrain, At, Status, RingInv, RingTypes, Operation
  <2>3. records' \in Seq(Row(Requests \ cleared))
    BY <2>2, FinishedRows DEF HistoryTypes
  <2> QED BY <2>1, <2>2, <2>3, ClearRows
<1>5. CASE ActToggle
  <2>1. UNCHANGED <<epoch, ring, obs, records, req, pending, generation, cleared, channel, failed>>
    BY <1>5 DEF ActToggle, monitor, server, history
  <2>2. gui'.at \notin {"drain", "draining"}
    BY <1>5 DEF ActToggle, At, RingInv, RingTypes, Operation
  <2> QED BY <2>1, <2>2, ClearStutter
<1>6. CASE ActClear
  <2>1. /\ UNCHANGED <<epoch, ring, obs, req, pending, generation, channel, failed>>
        /\ gui'.at \notin {"drain", "draining"}
    BY <1>6 DEF ActClear, At, server, RingInv, RingTypes, Operation
  <2>2. CASE UNCHANGED <<records, cleared>>
    BY <2>1, <2>2, ClearStutter
  <2>3. CASE ~channel /\ records' = <<>> /\ cleared' = Received
    <3>1. HistoryTypes'
      BY <2>1, <2>3 DEF HistoryTypes, Received
    <3>2. Behind' /\ Unopened' /\ NoDrain'
      BY <2>1, <2>3 DEF Behind, Unopened, NoDrain, Blank
    <3>3. Forgotten'
      <4>1. \A r \in cleared' : req'[r] # "new"
        BY <2>1, <2>3 DEF Received
      <4>2. CASE failed'
        BY <4>1, <4>2 DEF Forgotten
      <4>3. CASE ~failed'
        BY <2>1, <2>3, <4>1, <4>3 DEF Forgotten, Unopened, Blank, Sending
      <4> QED BY <4>2, <4>3
    <3> QED BY <3>1, <3>2, <3>3
  <2> QED BY <1>6, <2>2, <2>3 DEF ActClear
<1>7. CASE Reset
  <2>1. /\ UNCHANGED <<obs, req, pending, generation, channel>>
        /\ gui'.at = "idle"
    BY <1>7 DEF Reset, At, server, RingInv, RingTypes, Operation
  <2>2. \/ epoch' = epoch + 1 /\ ring' = Blank /\ failed' = failed
        \/ UNCHANGED <<epoch, ring>> /\ failed' = TRUE
    BY <1>7 DEF Reset, ResetTo, Fail
  <2>3. \/ records' = <<>> /\ cleared' = Received
        \/ records' \in {records, FinishPending("paused")} /\ cleared' = cleared
    BY <1>7 DEF Reset
  <2>4. HistoryTypes'
    <3>1. FinishPending("paused") \in Seq(Row(Requests \ cleared))
      BY FinishedRows DEF HistoryTypes, Status
    <3>2. records' \in Seq(Row(Requests \ cleared'))
      <4>1. CASE records' = <<>>
        BY <4>1
      <4>2. CASE records' # <<>>
        BY <2>3, <3>1, <4>2 DEF HistoryTypes
      <4> QED BY <4>1, <4>2
    <3>3. \A i \in DOMAIN ring' : ring'[i] \in Entry \cup {Empty, Partial}
      BY <2>2 DEF HistoryTypes, Blank
    <3> QED BY <2>1, <2>3, <3>2, <3>3 DEF HistoryTypes, Received, Row
  <2>5. epoch \in Nat /\ obs \in [Observers -> [at : {"dead", "idle", "try", "locked", "write"},
                            epoch : Nat, req : Requests \cup {None},
                            status : {"none", "running", "success"}]]
    BY DEF RingInv, RingTypes
  <2>6. Behind' /\ Unopened' /\ NoDrain'
    BY <2>1, <2>2, <2>5 DEF Behind, Unopened, NoDrain, HistoryTypes
  <2>7. Forgotten'
    <3>1. \A r \in cleared' : req'[r] # "new"
      BY <2>1, <2>3 DEF Received, Forgotten
    <3>2. CASE failed'
      BY <3>1, <3>2 DEF Forgotten
    <3>3. CASE epoch' = epoch + 1 /\ ring' = Blank
      BY <2>1, <2>5, <3>1, <3>3 DEF Forgotten, Behind, Blank, Sending, HistoryTypes
    <3> QED BY <2>2, <3>2, <3>3
  <2> QED BY <2>4, <2>6, <2>7
<1>8. CASE ActConnect
  <2>1. PICK ok \in BOOLEAN :
          /\ channel' = ok /\ failed' = ~ok
          /\ epoch' = IF ok THEN 2 ELSE 0
          /\ obs' = [o \in Observers |-> IF ok THEN Quiet ELSE Dead]
    BY <1>8 DEF ActConnect
  <2>2. /\ ring' = Blank /\ records' = FinishPending("disconnected")
        /\ pending' = [o \in Observers |-> {}] /\ generation' = [o \in Observers |-> 0]
        /\ req' = [r \in Requests |-> IF req[r] \in Observers THEN "done" ELSE req[r]]
        /\ cleared' = cleared
    BY <1>8 DEF ActConnect
  <2>3. gui'.at = "idle"
    BY <1>8 DEF ActConnect, At, RingInv, RingTypes, Operation
  <2>4. \A o \in Observers : obs'[o].epoch = 0 /\ obs'[o].at \in {"idle", "dead"}
    BY <2>1, QuietIs DEF Dead
  <2>5. HistoryTypes'
    <3>1. FinishPending("disconnected") \in Seq(Row(Requests \ cleared))
      BY FinishedRows DEF HistoryTypes, Status
    <3>2. req' \in [Requests -> Observers \cup {"new", "done"}]
      BY <2>2 DEF HistoryTypes
    <3> QED BY <2>2, <3>1, <3>2 DEF HistoryTypes, Blank
  <2>6. Behind' /\ Unopened' /\ NoDrain'
    <3>1. channel' \/ failed'
      BY <2>1, Zenon
    <3>2. epoch' \in Nat /\ epoch' >= 0
      BY <2>1
    <3> QED BY <2>2, <2>3, <2>4, <3>1, <3>2 DEF Behind, Unopened, NoDrain
  <2>7. Forgotten'
    BY <2>2, <2>4 DEF Forgotten, Blank, Sending, HistoryTypes
  <2> QED BY <2>5, <2>6, <2>7
<1> QED BY <1>1, <1>2, <1>3, <1>4, <1>5, <1>6, <1>7, <1>8 DEF GuiThread

(* Every step keeps what has been cleared out of reach. *)
LEMMA ClearStep == WindowInv /\ ClearInv /\ [Next]_vars => ClearInv'
<1> SUFFICES ASSUME WindowInv, ClearInv, [Next]_vars PROVE ClearInv'
  OBVIOUS
<1>1. RingInv' /\ cursor \in Nat
  BY RingStep DEF ClearInv, WindowInv
<1>2. CASE GuiThread
  BY <1>1, <1>2, ClearGui
<1>3. CASE Worker \/ UNCHANGED vars
  <2>1. UNCHANGED <<epoch, ring, obs, records, req, pending, generation, cleared, channel, failed, gui>>
    BY <1>3 DEF Worker, RevokeCollecting, RevokeLinked, vars, memory, monitor, server, history
  <2> QED BY <1>1, <2>1, ClearStutter DEF ClearInv, NoDrain
<1>4. ASSUME NEW o \in Observers, Observer(o) PROVE ClearInv'
  BY <1>1, <1>4, ClearObserver
<1> QED BY <1>2, <1>3, <1>4 DEF Next

(* A request received before a clear never comes back, with its response   *)
(* or without, for any number of servers, requests, rows and resets.       *)
THEOREM ClearFinal == Spec => []ClearIsFinal
<1>1. Init => ClearInv
  <2> SUFFICES ASSUME Init PROVE ClearInv
    OBVIOUS
  <2>1. RingInv
    BY RingAtFirst
  <2>2. HistoryTypes
    BY DEF Init, HistoryTypes, Blank
  <2>3. Behind /\ Forgotten /\ Unopened /\ NoDrain
    BY DEF Init, Behind, Forgotten, Unopened, NoDrain, Dead
  <2> QED BY <2>1, <2>2, <2>3 DEF ClearInv
<1>2. ClearInv => ClearIsFinal
  <2> SUFFICES ASSUME ClearInv, NEW i \in DOMAIN records PROVE records[i].req \notin cleared
    BY DEF ClearIsFinal
  <2>1. records[i] \in Row(Requests \ cleared)
    BY DEF ClearInv, HistoryTypes
  <2> QED BY <2>1 DEF Row
<1> QED BY <1>1, <1>2, ClearStep, WindowInductive, PTL DEF Spec
=============================================================================
