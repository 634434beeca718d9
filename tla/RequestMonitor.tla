--------------------------- MODULE RequestMonitor ---------------------------
(***************************************************************************)
(* mcp_local/request_monitor.py: the bounded shared-memory channel between *)
(* the MCP server processes (observers) and the desktop's Monitor.         *)
(*                                                                         *)
(* Three kinds of actors share the mapping.  Observers publish one event   *)
(* when a request arrives and one when its response is sent; they only try *)
(* the mutex.  The desktop's GUI thread drains, pauses, resumes and clears *)
(* under the mutex.  The connection's worker thread revokes collection     *)
(* without the mutex when the connection ends.  An observer may be killed  *)
(* anywhere, its mutex then being abandoned.                               *)
(*                                                                         *)
(* Payloads are abstracted: an event is its request, its status, and for   *)
(* the properties its sequence number and epoch.  Identifiers are unique   *)
(* here.                                                                   *)
(***************************************************************************)
EXTENDS Integers, Sequences, SequencesExt

CONSTANTS
  Observers,  \* MCP server processes attached to the channel
  Requests,   \* tool calls
  Slots,      \* SLOTS of the ring
  Batch,      \* events taken by one drain
  MaxRecords, \* MAX_RECORDS of the history
  MaxEpoch,   \* bound: pauses, resumes and clears in one connection
  None, Gui, Abandoned, Empty, Partial

ASSUME RingSizes == /\ Slots \in Nat \ {0} /\ Batch \in Nat \ {0}
                    /\ MaxRecords \in Nat \ {0} /\ MaxEpoch \in Nat

ASSUME DistinctOwners == /\ {None, Gui, Abandoned, "new", "done"} \cap Observers = {}
                         /\ None # Gui /\ None # Abandoned /\ Gui # Abandoned

VARIABLES
  collecting, \* memory[0]
  linked,     \* memory[1]
  epoch, seq, ring, \* header and slots of the mapping
  lock,       \* who owns the named mutex
  channel,    \* does the Monitor have an open channel?
  enabled, connected, failed, cursor, records, \* Monitor
  gui,        \* operation of the GUI thread and where it is
  link,       \* the connection and its worker thread
  obs,        \* what each observer is publishing
  pending, generation, \* Observer.pending, Observer.generation
  req,        \* new, open in one observer, or answered
  cleared,    \* history variable: requests seen before the last clear
  torn        \* history variable: has a publisher died writing to this ring?

memory  == <<collecting, linked, epoch, seq, ring>>
monitor == <<channel, enabled, connected, failed, cursor, records>>
server  == <<obs, pending, generation, req>>
history == <<cleared, torn>>
vars == <<memory, lock, monitor, gui, link, server, history>>

Dead == [at |-> "dead", epoch |-> 0, req |-> None, status |-> "none"]
Quiet == [Dead EXCEPT !.at = "idle"]

Status == {"running", "success", "paused", "disconnected", "incomplete"}
Entry == [n : Nat, epoch : Nat, req : Requests, status : {"running", "success"}]

(* What marks a slot without an event is not an event. *)
ASSUME SlotMarks == Empty \notin Entry /\ Partial \notin Entry

TypeOK ==
  /\ collecting \in BOOLEAN /\ linked \in BOOLEAN
  /\ epoch \in 0 .. MaxEpoch + 1 /\ seq \in Nat
  /\ ring \in [0 .. Slots - 1 -> Entry \cup {Empty, Partial}]
  /\ lock \in Observers \cup {None, Gui, Abandoned}
  /\ channel \in BOOLEAN /\ enabled \in BOOLEAN
  /\ connected \in BOOLEAN /\ failed \in BOOLEAN
  /\ cursor \in Nat
  /\ \A i \in DOMAIN records : records[i] \in [req : Requests, status : Status]
  /\ gui \in [op : {"none", "poll", "toggle", "clear", "begin"},
              at : {"idle", "drain", "draining", "after", "act", "reset"}]
  /\ link \in {"none", "up", "revoking", "revoked"}
  /\ obs \in [Observers -> [at : {"dead", "idle", "try", "locked", "write"}, epoch : Nat,
                            req : Requests \cup {None},
                            status : {"none", "running", "success"}]]
  /\ pending \in [Observers -> SUBSET Requests]
  /\ generation \in [Observers -> Nat]
  /\ req \in [Requests -> Observers \cup {"new", "done"}]
  /\ cleared \subseteq Requests /\ torn \in BOOLEAN

Blank == [i \in 0 .. Slots - 1 |-> Empty]

Init ==
  /\ collecting = FALSE /\ linked = FALSE
  /\ epoch = 0 /\ seq = 0 /\ ring = Blank
  /\ lock = None
  /\ channel = FALSE /\ enabled = FALSE /\ connected = FALSE /\ failed = FALSE
  /\ cursor = 0 /\ records = <<>>
  /\ gui = [op |-> "none", at |-> "idle"]
  /\ link = "none"
  /\ obs = [o \in Observers |-> Dead]
  /\ pending = [o \in Observers |-> {}]
  /\ generation = [o \in Observers |-> 0]
  /\ req = [r \in Requests |-> "new"]
  /\ cleared = {} /\ torn = FALSE

-----------------------------------------------------------------------------
(* Observers.                                                              *)

(* MemoryChannel.epoch: zero while nothing is collected. *)
Epoch == IF collecting THEN epoch ELSE 0

(* Observer.active: a change of epoch forgets every pending request. *)
Known(o) == IF generation[o] = Epoch THEN pending[o] ELSE {}

StartPublish(o, r, status) ==
  obs' = [obs EXCEPT ![o] = [at |-> "try", epoch |-> Epoch, req |-> r,
                             status |-> status]]

Receive(o, r) ==
  /\ obs[o].at = "idle"
  /\ req[r] = "new"
  /\ req' = [req EXCEPT ![r] = o]
  /\ generation' = [generation EXCEPT ![o] = Epoch]
  /\ IF Epoch = 0
       THEN /\ pending' = [pending EXCEPT ![o] = Known(o)]
            /\ UNCHANGED obs
       ELSE /\ pending' = [pending EXCEPT ![o] = Known(o) \cup {r}]
            /\ StartPublish(o, r, "running")
  /\ UNCHANGED <<memory, lock, monitor, gui, link, history>>

Send(o, r) ==
  /\ obs[o].at = "idle"
  /\ req[r] = o
  /\ req' = [req EXCEPT ![r] = "done"]
  /\ generation' = [generation EXCEPT ![o] = Epoch]
  /\ pending' = [pending EXCEPT ![o] = Known(o) \ {r}]
  /\ IF Epoch # 0 /\ r \in Known(o) THEN StartPublish(o, r, "success")
                                    ELSE UNCHANGED obs
  /\ UNCHANGED <<memory, lock, monitor, gui, link, history>>

(* publish: the epoch has changed already when it is first looked at. *)
GiveUp(o) ==
  /\ obs[o].at = "try"
  /\ Epoch # obs[o].epoch
  /\ obs' = [obs EXCEPT ![o] = Quiet]
  /\ UNCHANGED <<memory, lock, monitor, gui, link, pending, generation, req,
                 history>>

(* The first look was taken some time ago: give up unless the mutex is     *)
(* free; whoever finds it abandoned switches collection off.               *)
TryLock(o) ==
  /\ obs[o].at = "try"
  /\ IF lock = None
       THEN /\ lock' = o
            /\ obs' = [obs EXCEPT ![o].at = "locked"]
            /\ UNCHANGED collecting
       ELSE /\ obs' = [obs EXCEPT ![o] = Quiet]
            /\ IF lock = Abandoned
                 THEN lock' = None /\ collecting' = FALSE
                 ELSE UNCHANGED <<lock, collecting>>
  /\ UNCHANGED <<linked, epoch, seq, ring, monitor, gui, link, pending,
                 generation, req, history>>

(* Mutant: the epoch is not compared again under the mutex. *)
RecheckNothing(o) ==
  /\ obs[o].at = "locked"
  /\ obs' = [obs EXCEPT ![o].at = "write"]
  /\ UNCHANGED <<memory, lock, monitor, gui, link, pending, generation, req,
                 history>>

(* The epoch is compared again under the mutex. *)
Recheck(o) ==
  /\ obs[o].at = "locked"
  /\ IF Epoch = obs[o].epoch
       THEN obs' = [obs EXCEPT ![o].at = "write"] /\ UNCHANGED lock
       ELSE obs' = [obs EXCEPT ![o] = Quiet] /\ lock' = None
  /\ UNCHANGED <<memory, monitor, gui, link, pending, generation, req, history>>

Event(o) == [n |-> seq, epoch |-> obs[o].epoch, req |-> obs[o].req,
             status |-> obs[o].status]

Write(o) ==
  /\ obs[o].at = "write"
  /\ ring' = [ring EXCEPT ![seq % Slots] = Event(o)]
  /\ seq' = seq + 1
  /\ lock' = None
  /\ obs' = [obs EXCEPT ![o] = Quiet]
  /\ UNCHANGED <<collecting, linked, epoch, monitor, gui, link, pending,
                 generation, req, history>>

(* The process is killed.  Killed while it writes, it leaves the slot as it *)
(* was, spoiled, zeroed, or written but perhaps not counted.               *)
Die(o) ==
  /\ obs[o].at # "dead"
  /\ obs' = [obs EXCEPT ![o] = Dead]
  /\ lock' = IF lock = o THEN Abandoned ELSE lock
  /\ \/ UNCHANGED <<ring, seq>>
     \/ /\ obs[o].at = "write"
        /\ \E left \in {Empty, Partial, Event(o)} :
             /\ ring' = [ring EXCEPT ![seq % Slots] = left]
             /\ seq' \in IF left = Event(o) THEN {seq, seq + 1} ELSE {seq}
  /\ torn' = (torn \/ obs[o].at = "write")
  /\ pending' = [pending EXCEPT ![o] = {}]
  /\ req' = [r \in Requests |-> IF req[r] = o THEN "done" ELSE req[r]]
  /\ UNCHANGED <<collecting, linked, epoch, monitor, gui, link,
                 generation, cleared>>

Observer(o) ==
  \/ \E r \in Requests : Receive(o, r) \/ Send(o, r)
  \/ GiveUp(o) \/ TryLock(o) \/ Recheck(o) \/ Write(o) \/ Die(o)

-----------------------------------------------------------------------------
(* The connection's worker: MemoryChannel.disconnect, one byte at a time,  *)
(* and then the done event.                                                *)

RevokeCollecting ==
  /\ link = "up"
  /\ link' = "revoking"
  /\ collecting' = FALSE
  /\ UNCHANGED <<linked, epoch, seq, ring, lock, monitor, gui, server, history>>

RevokeLinked ==
  /\ link = "revoking"
  /\ link' = "revoked"
  /\ linked' = FALSE
  /\ UNCHANGED <<collecting, epoch, seq, ring, lock, monitor, gui, server,
                 history>>

Worker == RevokeCollecting \/ RevokeLinked

-----------------------------------------------------------------------------
(* The GUI thread.  Every operation polls first.                           *)

Begin(op) ==
  gui' = [op |-> op, at |-> IF failed \/ ~channel
                              THEN IF op = "poll" THEN "idle" ELSE "act"
                              ELSE "drain"]

Poll ==
  /\ gui.at = "idle"
  /\ channel /\ ~failed
  /\ Begin("poll")
  /\ UNCHANGED <<memory, lock, monitor, link, server, history>>

Toggle ==
  /\ gui.at = "idle"
  /\ epoch < MaxEpoch
  /\ Begin("toggle")
  /\ UNCHANGED <<memory, lock, monitor, link, server, history>>

Clear ==
  /\ gui.at = "idle"
  /\ epoch < MaxEpoch
  /\ Begin("clear")
  /\ UNCHANGED <<memory, lock, monitor, link, server, history>>

(* Connection.start begins by Monitor.begin_connection. *)
Connect ==
  /\ gui.at = "idle"
  /\ link = "none"
  /\ Begin("begin")
  /\ UNCHANGED <<memory, lock, monitor, link, server, history>>

(* The user stops the connection: both flags, from the GUI thread. *)
UserStop ==
  /\ gui.at = "idle"
  /\ channel
  /\ collecting' = FALSE /\ linked' = FALSE
  /\ UNCHANGED <<epoch, seq, ring, lock, monitor, gui, link, server, history>>

(* The done event: disconnect, then poll. *)
Done ==
  /\ gui.at = "idle"
  /\ link = "revoked"
  /\ link' = "none"
  /\ IF channel THEN collecting' = FALSE /\ linked' = FALSE
                ELSE UNCHANGED <<collecting, linked>>
  /\ Begin("poll")
  /\ UNCHANGED <<epoch, seq, ring, lock, monitor, server, history>>

At(p) == gui' = [gui EXCEPT !.at = p]

(* Failure inside an operation: disconnect, and the monitor is failed. *)
Fail == /\ collecting' = FALSE /\ linked' = FALSE
        /\ enabled' = FALSE /\ failed' = TRUE

TryDrain ==
  /\ gui.at = "drain"
  /\ IF lock = None THEN lock' = Gui /\ At("draining") /\ UNCHANGED collecting
     ELSE /\ At("after")
          /\ IF lock = Abandoned THEN lock' = None /\ collecting' = FALSE
                                 ELSE UNCHANGED <<lock, collecting>>
  /\ UNCHANGED <<linked, epoch, seq, ring, monitor, link, server, history>>

MaxOf(a, b) == IF a > b THEN a ELSE b
MinOf(a, b) == IF a < b THEN a ELSE b

DrainStart == MaxOf(cursor, seq - Slots)
DrainStop  == MinOf(seq, DrainStart + Batch)

(* A new event updates the row of its request or adds one, and the oldest  *)
(* row goes when there are too many.                                       *)
Merge(rows, e) ==
  LET old == {i \in DOMAIN rows : rows[i].req = e.req}
      row == [req |-> e.req, status |-> e.status]
      new == IF old = {} THEN Append(rows, row)
                         ELSE [rows EXCEPT ![CHOOSE i \in old : TRUE] = row]
  IN IF Len(new) > MaxRecords THEN Tail(new) ELSE new

(* The events copied in order; a slot may be empty, or left half written. *)
Take(rows, n) ==
  LET e == ring[n % Slots] IN IF e \in {Empty, Partial} THEN rows ELSE Merge(rows, e)
Merged == FoldLeft(Take, records, [i \in 1 .. DrainStop - DrainStart |-> DrainStart + i - 1])
Drained == {i % Slots : i \in DrainStart .. DrainStop - 1}

(* The copied slots are zeroed before the mutex is released.  A slot left  *)
(* half written either looks empty or fails to parse.                      *)
Drain ==
  /\ gui.at = "draining"
  /\ lock' = None
  /\ ring' = [i \in 0 .. Slots - 1 |-> IF i \in Drained THEN Empty ELSE ring[i]]
  /\ \/ /\ records' = Merged
        /\ cursor' = DrainStop
        /\ At("after")
        /\ UNCHANGED <<collecting, linked, enabled, failed>>
     \/ /\ \E i \in Drained : ring[i] = Partial
        /\ Fail
        /\ At(IF gui.op = "poll" THEN "idle" ELSE "act")
        /\ UNCHANGED <<records, cursor>>
  /\ UNCHANGED <<epoch, seq, channel, connected, link, server, history>>

FinishPending(status) ==
  [i \in DOMAIN records |->
     IF records[i].status = "running" THEN [records[i] EXCEPT !.status = status]
                                      ELSE records[i]]

(* The end of poll: what the flags of the mapping say about the connection.*)
AfterDrain ==
  /\ gui.at = "after"
  /\ CASE ~linked -> /\ enabled' = FALSE /\ connected' = FALSE
                     /\ records' = FinishPending("disconnected")
                     /\ UNCHANGED failed
       [] linked /\ enabled /\ ~collecting ->
                     /\ enabled' = FALSE /\ failed' = TRUE
                     /\ records' = FinishPending("incomplete")
                     /\ UNCHANGED connected
       [] OTHER -> UNCHANGED <<enabled, connected, failed, records>>
  /\ At(IF gui.op = "poll" THEN "idle" ELSE "act")
  /\ UNCHANGED <<memory, lock, channel, cursor, link, server, history>>

(* The requests a clear must forget: all that were received before it. *)
Received == {r \in Requests : req[r] # "new"}

(* set_enabled and clear go on to reset, which revokes first. *)
ActToggle ==
  /\ gui.at = "act" /\ gui.op = "toggle"
  /\ IF connected /\ ~failed THEN collecting' = FALSE /\ At("reset")
                             ELSE UNCHANGED collecting /\ At("idle")
  /\ UNCHANGED <<linked, epoch, seq, ring, lock, monitor, link, server, history>>

ActClear ==
  /\ gui.at = "act" /\ gui.op = "clear"
  /\ IF channel THEN /\ collecting' = FALSE /\ At("reset")
                     /\ UNCHANGED <<records, cleared>>
                ELSE /\ At("idle")
                     /\ records' = <<>> /\ cleared' = Received
                     /\ UNCHANGED collecting
  /\ UNCHANGED <<linked, epoch, seq, ring, lock, channel, enabled, connected,
                 failed, cursor, link, server, torn>>

(* Mutants: the old slots are kept; the sequence is not started afresh. *)
ResetKeepsSlots(on) ==
  epoch' = epoch + 1 /\ collecting' = on /\ UNCHANGED <<seq, ring>>
ResetKeepsSequence(on) ==
  epoch' = epoch + 1 /\ ring' = Blank /\ collecting' = on /\ UNCHANGED seq

(* MemoryChannel.reset, once it has the mutex. *)
ResetTo(on) ==
  /\ epoch' = epoch + 1
  /\ seq' = 0
  /\ ring' = Blank
  /\ collecting' = on

(* set_enabled turns collection over; clear leaves it as it is. *)
Setting == IF gui.op = "toggle" THEN ~enabled
                                ELSE enabled /\ connected /\ ~failed

(* The rest of reset, under the mutex, and of the operation.  The wait for *)
(* the mutex may time out while an observer holds it; an abandoned mutex   *)
(* counts as not acquired.                                                 *)
Reset ==
  /\ gui.at = "reset"
  /\ \/ /\ lock = None
        /\ ResetTo(Setting)
        /\ cursor' = 0
        /\ enabled' = IF gui.op = "toggle" THEN Setting ELSE enabled
        /\ torn' = FALSE
        /\ UNCHANGED <<linked, failed, lock>>
     \/ /\ lock \in Observers \cup {Abandoned}
        /\ Fail
        /\ lock' = IF lock = Abandoned THEN None ELSE lock
        /\ UNCHANGED <<epoch, seq, ring, cursor, torn>>
  /\ IF gui.op = "clear"
       THEN records' = <<>> /\ cleared' = Received
       ELSE /\ records' = IF failed' THEN records ELSE FinishPending("paused")
            /\ UNCHANGED cleared
  /\ At("idle")
  /\ UNCHANGED <<channel, connected, link, server>>

(* The rest of begin_connection: the old mapping is closed, a new one is   *)
(* made and enabled; the new connection's servers attach to it.  Creating  *)
(* the mapping may fail, which leaves the connection unmonitored.          *)
ActConnect ==
  /\ gui.at = "act" /\ gui.op = "begin"
  /\ records' = FinishPending("disconnected")
  /\ \E ok \in BOOLEAN :
       /\ channel' = ok /\ failed' = ~ok
       /\ enabled' = ok /\ connected' = ok
       /\ collecting' = ok /\ linked' = ok
       /\ epoch' = IF ok THEN 2 ELSE 0
       /\ cursor' = IF ok THEN 0 ELSE cursor
       /\ obs' = [o \in Observers |-> IF ok THEN Quiet ELSE Dead]
  /\ seq' = 0 /\ ring' = Blank /\ torn' = FALSE
  /\ lock' = None
  /\ pending' = [o \in Observers |-> {}]
  /\ generation' = [o \in Observers |-> 0]
  /\ req' = [r \in Requests |-> IF req[r] \in Observers THEN "done" ELSE req[r]]
  /\ link' = "up"
  /\ At("idle")
  /\ UNCHANGED cleared

GuiThread ==
  \/ Poll \/ Toggle \/ Clear \/ Connect \/ UserStop \/ Done
  \/ TryDrain \/ Drain \/ AfterDrain \/ ActToggle \/ ActClear \/ Reset
  \/ ActConnect

Next == GuiThread \/ Worker \/ \E o \in Observers : Observer(o)

Spec == Init /\ [][Next]_vars

-----------------------------------------------------------------------------
(* Properties.                                                             *)

(* A reset separates what came before from what comes after: no event of   *)
(* an earlier epoch survives in the ring or slips in later, however a      *)
(* publisher was interleaved with it.                                      *)
EpochIsolation ==
  \A i \in DOMAIN ring :
    ring[i] \notin {Empty, Partial} => ring[i].epoch = epoch

(* The window of the next drains holds the events of those numbers. *)
InOrder ==
  \A n \in DrainStart .. seq - 1 : /\ ring[n % Slots] \notin {Empty, Partial}
                                   /\ ring[n % Slots].n = n

(* Every event that was published and neither drained nor overwritten is   *)
(* still where the next drain looks for it.                                *)
WindowIntact == ~torn => InOrder /\ (channel => cursor <= seq)

(* Clearing is final: a request received before it never comes back, with  *)
(* its response or without.                                                *)
ClearIsFinal == \A i \in DOMAIN records : records[i].req \notin cleared

=============================================================================
