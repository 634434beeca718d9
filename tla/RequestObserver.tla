-------------------------- MODULE RequestObserver --------------------------
(***************************************************************************)
(* mcp_local/request_monitor.py, class Observer: how one MCP server        *)
(* process relates the responses it sends to the requests it received.     *)
(*                                                                         *)
(* A message carries only the JSON-RPC identifier its client chose, and a  *)
(* client may use an identifier again while an earlier call is open.  The  *)
(* table of pending calls is bounded, and forgotten when the desktop       *)
(* changes the epoch.  What the desktop shows is the last event published  *)
(* for each call (RequestMonitor has the channel that carries them).       *)
(***************************************************************************)
EXTENDS Integers, Sequences, FiniteSets, SequencesExt

CONSTANTS
  Requests,   \* tool calls
  Ids,        \* identifiers that can be tracked
  LongId,     \* an identifier that request_key refuses
  MaxPending, \* MAX_PENDING
  MaxEpoch,   \* bound: epochs of one connection
  Absent

ASSUME PendingPositive == MaxPending \in Nat \ {0}
ASSUME EpochsPositive == MaxEpoch \in Nat \ {0}
ASSUME DistinctIds == LongId \notin Ids /\ Absent \notin Requests \cup Ids \cup {LongId}

VARIABLES
  epoch,      \* the channel's epoch
  collecting, \* is it collected, so that epoch() is not zero?
  generation, pending, \* Observer.generation, Observer.pending, oldest first
  id,         \* identifier of each call that was received
  state,      \* new, open, answered or gone
  shown,      \* status of the call's row on the desktop
  response,   \* the call whose response is in that row
  forgotten   \* history variable: calls that the table does not count

observerVars == <<epoch, collecting, generation, pending, id, state, shown,
                  response, forgotten>>

Status == {"none", "running", "ambiguous", "incomplete", "paused",
           "disconnected", "finished"}
Entry == [id : Ids, call : Requests, duplicates : Nat \ {0}, ambiguous : BOOLEAN]

ObserverTypes ==
  /\ epoch \in 1 .. MaxEpoch /\ collecting \in BOOLEAN
  /\ generation \in 0 .. MaxEpoch
  /\ pending \in Seq(Entry) /\ Len(pending) <= MaxPending
  /\ id \in [Requests -> Ids \cup {LongId, Absent}]
  /\ state \in [Requests -> {"new", "open", "answered", "gone"}]
  /\ shown \in [Requests -> Status]
  /\ response \in [Requests -> Requests \cup {Absent}]
  /\ forgotten \subseteq Requests

ObserverInit ==
  /\ epoch = 1 /\ collecting = TRUE
  /\ generation = 0 /\ pending = <<>>
  /\ id = [c \in Requests |-> Absent]
  /\ state = [c \in Requests |-> "new"]
  /\ shown = [c \in Requests |-> "none"]
  /\ response = [c \in Requests |-> Absent]
  /\ forgotten = {}

Epoch == IF collecting THEN epoch ELSE 0

(* Observer.active *)
Table == IF generation = Epoch THEN pending ELSE <<>>

Find(table, i) == {k \in DOMAIN table : table[k].id = i}

Open(i) == {c \in Requests : state[c] = "open" /\ id[c] = i}

-----------------------------------------------------------------------------
(* Mutant: the earlier call is not marked. *)
CollideQuietly(c, k) ==
  /\ pending' = [Table EXCEPT ![k].duplicates = @ + 1]
  /\ shown' = [shown EXCEPT ![c] = "ambiguous"]
  /\ UNCHANGED forgotten

(* The identifier is open already: both calls are marked. *)
Collide(c, k) ==
  /\ pending' = [Table EXCEPT ![k].duplicates = @ + 1]
  /\ shown' = [shown EXCEPT ![c] = "ambiguous", ![Table[k].call] = "ambiguous"]
  /\ UNCHANGED forgotten

Track(c, i) ==
  LET new  == [id |-> i, call |-> c, duplicates |-> 1, ambiguous |-> FALSE]
      full == Len(Table) >= MaxPending
  IN /\ pending' = Append(IF full THEN Tail(Table) ELSE Table, new)
     /\ shown' = IF full
                   THEN [shown EXCEPT ![Head(Table).call] = "incomplete",
                                      ![c] = "running"]
                   ELSE [shown EXCEPT ![c] = "running"]
     /\ forgotten' = IF full THEN forgotten \cup Open(Head(Table).id)
                             ELSE forgotten

Receive(c, i) ==
  /\ state[c] = "new"
  /\ state' = [state EXCEPT ![c] = "open"]
  /\ id' = [id EXCEPT ![c] = i]
  /\ generation' = Epoch
  /\ CASE Epoch = 0 -> /\ pending' = Table
                       /\ forgotten' = forgotten \cup {c}
                       /\ UNCHANGED shown
       [] Epoch # 0 /\ i = LongId ->
            /\ pending' = Table
            /\ shown' = [shown EXCEPT ![c] = "incomplete"]
            /\ UNCHANGED forgotten
       [] Epoch # 0 /\ Find(Table, i) # {} ->
            \E k \in Find(Table, i) : Collide(c, k)
       [] OTHER -> Track(c, i)
  /\ UNCHANGED <<epoch, collecting, response>>

(* Mutant: the flag is not consulted, only the count. *)
UncertainCount(entry) == entry.duplicates > 1

Uncertain(entry) == entry.duplicates > 1 \/ entry.ambiguous

(* The response of c goes out: it is attached to the pending call of its   *)
(* identifier, unless several calls of that identifier were open.  When    *)
(* the table does not count c, it is an open call of the same identifier   *)
(* that loses its place.                                                   *)
Send(c) ==
  /\ state[c] = "open"
  /\ state' = [state EXCEPT ![c] = "answered"]
  /\ generation' = Epoch
  /\ IF Epoch = 0 \/ Find(Table, id[c]) = {}
       THEN pending' = Table /\ UNCHANGED <<shown, response>>
       ELSE \E k \in Find(Table, id[c]) :
              IF Uncertain(Table[k])
                THEN /\ pending' = IF Table[k].duplicates = 1
                                     THEN RemoveAt(Table, k)
                                     ELSE [Table EXCEPT ![k].duplicates = @ - 1,
                                                        ![k].ambiguous = TRUE]
                     /\ UNCHANGED <<shown, response>>
                ELSE /\ pending' = RemoveAt(Table, k)
                     /\ shown' = [shown EXCEPT ![Table[k].call] = "finished"]
                     /\ response' = [response EXCEPT ![Table[k].call] = c]
  /\ forgotten' = IF c \in forgotten THEN forgotten \cup Open(id[c])
                                     ELSE forgotten
  /\ UNCHANGED <<epoch, collecting, id>>

(* The server ends: whatever is still pending is reported as disconnected. *)
Finish ==
  /\ \E c \in Requests : state[c] \in {"new", "open"}
  /\ state' = [c \in Requests |-> IF state[c] = "answered" THEN "answered"
                                                           ELSE "gone"]
  /\ generation' = Epoch
  /\ pending' = <<>>
  /\ shown' = [c \in Requests |->
                 IF Epoch # 0 /\ \E k \in DOMAIN Table : Table[k].call = c
                   THEN "disconnected" ELSE shown[c]]
  /\ UNCHANGED <<epoch, collecting, id, response, forgotten>>

(* Whatever is open when the epoch changes is lost from the table. *)
AllOpen == {c \in Requests : state[c] = "open"}

(* The desktop pauses or resumes, which ends the rows that are running, or *)
(* clears, which removes the rows.                                         *)
Turn ==
  /\ epoch < MaxEpoch
  /\ epoch' = epoch + 1
  /\ collecting' = ~collecting
  /\ shown' = [c \in Requests |-> IF shown[c] = "running" THEN "paused"
                                                          ELSE shown[c]]
  /\ forgotten' = forgotten \cup AllOpen
  /\ UNCHANGED <<generation, pending, id, state, response>>

Clear ==
  /\ epoch < MaxEpoch
  /\ epoch' = epoch + 1
  /\ shown' = [c \in Requests |-> "none"]
  /\ response' = [c \in Requests |-> Absent]
  /\ forgotten' = forgotten \cup AllOpen
  /\ UNCHANGED <<collecting, generation, pending, id, state>>

Desktop == Turn \/ Clear

Server ==
  \/ \E c \in Requests : Send(c) \/ \E i \in Ids \cup {LongId} : Receive(c, i)
  \/ Finish

ObserverNext == Server \/ Desktop

ObserverSpec == ObserverInit /\ [][ObserverNext]_observerVars

-----------------------------------------------------------------------------
(* Properties.                                                             *)

(* Among the calls that the table knows of there is no guessing.           *)
(* A row carries the response of another call only when that call was      *)
(* evicted, received while nothing was collected, open when the epoch      *)
(* changed, or displaced by the response of such a call.                   *)
OnlyForgottenMismatch == \A c \in Requests : response[c] \in {Absent, c} \cup forgotten

(* A row that says "running" belongs to a call that is still pending, so a *)
(* response or the end of the server will finish it: neither eviction, nor *)
(* a collision, nor a pause leaves a row running for ever.                 *)
RunningIsPending ==
  \A c \in Requests : shown[c] = "running" =>
    /\ generation = Epoch
    /\ \E k \in DOMAIN pending : pending[k].call = c
=============================================================================
