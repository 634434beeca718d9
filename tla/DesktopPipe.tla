---------------------------- MODULE DesktopPipe -----------------------------
(***************************************************************************)
(* The private pipe between the WPF interface and the desktop process:     *)
(* desktop/wpf/BackendClient.cs, DesktopWindow.cs and                      *)
(* RemoteMonitorSource.cs on one side, mcp_local/desktop_bridge.py on the  *)
(* other.                                                                  *)
(*                                                                         *)
(* The interface has one query of each kind and one operation outstanding  *)
(* at most.  A caller waits for a bounded time; the request stays known    *)
(* until its own reply.  The backend reads and writes the pipe on threads  *)
(* of their own, with bounded queues to and from the main thread, where    *)
(* the commands are executed; a save may stop there to ask the user.  A    *)
(* queue of the backend here includes the pipe it is filled from or        *)
(* emptied to.                                                             *)
(***************************************************************************)
EXTENDS Integers, Sequences, FiniteSets

CONSTANTS
  MaxId,        \* bound: requests of one interface
  MaxEdits,     \* bound: edits of the form
  MaxChanges,   \* bound: changes of the request history
  MaxCommands,  \* capacity of Pipe.commands
  MaxOutgoing   \* capacity of Pipe.outgoing

ASSUME PipeBounds ==
  {MaxId, MaxEdits, MaxChanges, MaxCommands, MaxOutgoing} \subseteq Nat \ {0}

(* "form" stands for the operations that carry the form (edit, save, start, *)
(* restart), "plain" for the others.                                        *)
Operations == {"form", "plain"}
Queries == {"monitor"}
Kinds == Queries \cup Operations
Ids == 1..MaxId

VARIABLES
  request,    \* each request of the interface
  next,       \* sequence
  queries,    \* the request that occupies each kind of query
  mutation,   \* the operation that is outstanding
  outcome,    \* OperationUnconfirmed and OperationError
  posted,     \* a callback of OperationChanged waits for the interface thread
  draft,      \* generation, localDirty and unconfirmedDraftGeneration, and
              \* history: an operation began before the last result was settled
  shown,      \* Version and rows of RemoteMonitorSource
  down,       \* the end of the pipe was seen ("lost"), or the window closed
  commands, answers, outgoing,  \* the queues of the class Pipe
  backend,    \* the main thread: what it does, pending dialog, quitting
  closed,     \* Pipe.closed
  executed,   \* how each request was executed
  form,       \* the form of the controller, as the generation it came from
  history     \* revision of the request history, version and rows last built

clientVars == <<request, next, queries, mutation, outcome, posted, draft, shown, down>>
backendVars == <<commands, answers, outgoing, backend, closed, executed, form, history>>
pipeVars == <<clientVars, backendVars>>

NoRequest == [at |-> "none", kind |-> "plain", form |-> 0, result |-> "none"]

Request == [at : {"none", "queued", "sent", "late", "replied", "over"}, kind : Kinds,
            form : 0..MaxEdits, result : {"none", "ok", "error", "unsent", "unknown"}]
Message == [kind : {"reply", "dialog"}, id : Ids \cup {0}, result : {"none", "ok", "error"},
            version : Nat, rows : 0..MaxChanges]

PipeTypes ==
  /\ request \in [Ids -> Request] /\ next \in 1..(MaxId + 1)
  /\ queries \in [Queries -> Ids \cup {0}] /\ mutation \in Ids \cup {0}
  /\ outcome \in [unconfirmed : BOOLEAN, error : BOOLEAN] /\ posted \in BOOLEAN
  /\ draft \in [edits : 0..MaxEdits, dirty : BOOLEAN, unconfirmed : 0..MaxEdits,
               overtaken : BOOLEAN]
  /\ shown \in [version : Nat, rows : 0..MaxChanges]
  /\ down \in {"no", "lost", "closed"} /\ closed \in BOOLEAN
  /\ commands \in Seq(Ids) /\ answers \in Seq(BOOLEAN) /\ outgoing \in Seq(Message)
  /\ backend \in [at : {"run", "asking", "ended"}, id : Ids \cup {0}, quitting : BOOLEAN]
  /\ executed \in [Ids -> {"no", "ok", "error"}]
  /\ form \in 0..MaxEdits
  /\ history \in [revision : 0..MaxChanges, version : Nat, rows : -1..MaxChanges]

PipeInit ==
  /\ request = [i \in Ids |-> NoRequest] /\ next = 1
  /\ queries = [q \in Queries |-> 0] /\ mutation = 0
  /\ outcome = [unconfirmed |-> FALSE, error |-> FALSE] /\ posted = FALSE
  /\ draft = [edits |-> 0, dirty |-> FALSE, unconfirmed |-> 0,
              overtaken |-> FALSE]
  /\ shown = [version |-> 0, rows |-> 0] /\ down = "no"
  /\ commands = << >> /\ answers = << >> /\ outgoing = << >>
  /\ backend = [at |-> "run", id |-> 0, quitting |-> FALSE]
  /\ closed = FALSE
  /\ executed = [i \in Ids |-> "no"]
  /\ form = 0 /\ history = [revision |-> 0, version |-> 0, rows |-> -1]

-----------------------------------------------------------------------------
(* The interface.                                                          *)

Open == down = "no"

(* The user edits the form. *)
Dirty ==
  /\ Open /\ draft.edits < MaxEdits
  /\ draft' = [draft EXCEPT !.edits = @ + 1, !.dirty = TRUE]
  /\ UNCHANGED <<request, next, queries, mutation, outcome, posted, shown, down, backendVars>>

(* Send refuses a second query of a kind, and a second operation. *)
Free(kind) == IF kind \in Queries THEN queries[kind] = 0 ELSE mutation = 0
Occupy(kind, id) ==
  IF kind \in Queries
  THEN queries' = [queries EXCEPT ![kind] = id] /\ UNCHANGED <<mutation, outcome, posted>>
  ELSE /\ mutation' = id /\ UNCHANGED queries
       /\ outcome' = [outcome EXCEPT !.error = FALSE] /\ posted' = TRUE

(* Run, FlushDraft and Poll. *)
Send(kind) ==
  /\ Open /\ next <= MaxId /\ Free(kind)
  /\ Occupy(kind, next)
  /\ request' = [request EXCEPT ![next] =
       [at |-> "queued", kind |-> kind, form |-> draft.edits, result |-> "none"]]
  /\ next' = next + 1
  /\ draft' = [draft EXCEPT !.overtaken =
                 @ \/ (kind \in Operations /\ posted /\ draft.unconfirmed # 0)]
  /\ UNCHANGED <<shown, down, backendVars>>

(* The writer lock is free: the frame goes out and is read by Pipe.read,   *)
(* for which a full queue of commands ends the connection.                 *)
Write(i) ==
  /\ Open /\ request[i].at = "queued"
  /\ request' = [request EXCEPT ![i].at = "sent"]
  /\ IF closed \/ Len(commands) >= MaxCommands
     THEN closed' = TRUE /\ UNCHANGED commands
     ELSE commands' = Append(commands, i) /\ UNCHANGED closed
  /\ UNCHANGED <<next, queries, mutation, outcome, posted, draft, shown, down,
                 answers, outgoing, backend, executed, form, history>>

Complete(i, error) ==
  /\ queries' = [q \in Queries |-> IF queries[q] = i THEN 0 ELSE queries[q]]
  /\ IF mutation = i
     THEN /\ mutation' = 0 /\ posted' = TRUE
          /\ outcome' = [unconfirmed |-> FALSE, error |-> error]
     ELSE UNCHANGED <<mutation, posted, outcome>>
Over(result) == [NoRequest EXCEPT !.at = "over", !.result = result]

(* Mutant: a frame that went out is reported as not sent. *)
GiveUp(i) ==
  /\ Open /\ request[i].at \in {"queued", "sent"}
  /\ request' = [request EXCEPT ![i] = Over("unsent")]
  /\ Complete(i, FALSE)
  /\ UNCHANGED <<next, draft, shown, down, backendVars>>

(* The deadline passes before the frame was written: nothing was sent. *)
GiveUpUnsent(i) ==
  /\ Open /\ request[i].at = "queued"
  /\ request' = [request EXCEPT ![i] = Over("unsent")]
  /\ Complete(i, FALSE)
  /\ UNCHANGED <<next, draft, shown, down, backendVars>>

(* It passes later: the request stays pending and the operation is         *)
(* unconfirmed; Run remembers which draft it carried.                      *)
TimeOut(i) ==
  /\ Open /\ request[i].at = "sent"
  /\ request' = [request EXCEPT ![i].at = "late", ![i].result = "unknown"]
  /\ LET operation == mutation = i
     IN /\ outcome' = [outcome EXCEPT !.unconfirmed = @ \/ operation]
        /\ draft' = IF operation /\ request[i].kind = "form"
                    THEN [draft EXCEPT !.unconfirmed = request[i].form] ELSE draft
        /\ posted' = (posted \/ operation)
  /\ UNCHANGED <<next, queries, mutation, shown, down, backendVars>>

(* The reader: a reply completes its request, however late it is.  The     *)
(* history is shown when its version is not the one already shown.         *)
ReadReply ==
  /\ Open /\ outgoing # << >> /\ Head(outgoing).kind = "reply"
  /\ LET m == Head(outgoing)
         late == request[m.id].at = "late"
     IN /\ Complete(m.id, m.result = "error")
        /\ request' = [request EXCEPT ![m.id] =
             IF late THEN Over("unknown") ELSE [@ EXCEPT !.at = "replied", !.result = m.result]]
        /\ shown' = IF late \/ m.version \in {0, shown.version} THEN shown
                    ELSE [version |-> m.version, rows |-> m.rows]
  /\ outgoing' = Tail(outgoing)
  /\ UNCHANGED <<next, draft, down, commands, answers, backend, closed, executed, form, history>>

(* Mutant: what was typed while the operation ran is not noticed. *)
ResumeClean(i) ==
  /\ down # "closed" /\ request[i].at = "replied"
  /\ request' = [request EXCEPT ![i] = Over(request[i].result)]
  /\ draft' = IF request[i].result = "ok" /\ request[i].kind = "form"
              THEN [draft EXCEPT !.dirty = FALSE] ELSE draft
  /\ UNCHANGED <<next, queries, mutation, outcome, posted, shown, down, backendVars>>

(* Run goes on with the reply: the draft it sent is no longer unsaved,     *)
(* unless the user has typed since.                                        *)
Resume(i) ==
  /\ down # "closed" /\ request[i].at = "replied"
  /\ request' = [request EXCEPT ![i] = Over(request[i].result)]
  /\ draft' = IF /\ request[i].result = "ok" /\ request[i].kind = "form"
                 /\ draft.edits = request[i].form
              THEN [draft EXCEPT !.dirty = FALSE] ELSE draft
  /\ UNCHANGED <<next, queries, mutation, outcome, posted, shown, down, backendVars>>

(* The callback of OperationChanged, on the interface thread: it settles   *)
(* a draft whose operation was confirmed late.                             *)
OperationChanged ==
  /\ down # "closed" /\ posted /\ posted' = FALSE
  /\ draft' = IF mutation = 0 /\ draft.unconfirmed # 0
              THEN [draft EXCEPT !.unconfirmed = 0,
                      !.dirty = @ /\ ~(~outcome.error /\ draft.unconfirmed = draft.edits)]
              ELSE draft
  /\ UNCHANGED <<request, next, queries, mutation, outcome, shown, down, backendVars>>

(* HandleEvent: the user answers a dialog; the reader of the backend       *)
(* passes the answer on while the dialog is pending.                       *)
AnswerDialog ==
  /\ Open /\ outgoing # << >> /\ Head(outgoing).kind = "dialog"
  /\ outgoing' = Tail(outgoing)
  /\ \E accepted \in BOOLEAN :
       answers' = IF closed THEN answers ELSE <<accepted>>
  /\ UNCHANGED <<clientVars, commands, backend, closed, executed, form, history>>

(* The end of the pipe: whoever waits gets an error, and an operation that *)
(* was sent stays unconfirmed.                                             *)
Disconnected ==
  /\ Open /\ backend.at = "ended" /\ outgoing = << >>
  /\ down' = "lost"
  /\ request' = [i \in Ids |-> IF request[i].at \in {"queued", "sent"}
                               THEN Over("unknown") ELSE request[i]]
  /\ outcome' = [outcome EXCEPT !.unconfirmed = mutation # 0]
  /\ UNCHANGED <<next, queries, mutation, posted, draft, shown, backendVars>>

(* The window is closed, or the interface dies. *)
Close ==
  /\ down # "closed" /\ down' = "closed"
  /\ UNCHANGED <<request, next, queries, mutation, outcome, posted, draft, shown, backendVars>>

-----------------------------------------------------------------------------
(* The threads of the class Pipe.                                          *)

(* read meets the end of input, or write a pipe nobody reads. *)
PipeEnds ==
  /\ ~closed /\ down # "no" /\ closed' = TRUE
  /\ UNCHANGED <<clientVars, commands, answers, outgoing, backend, executed, form, history>>

(* emit: a stalled interface cannot block the main thread. *)
Emit(m) ==
  /\ outgoing' = IF closed \/ Len(outgoing) >= MaxOutgoing THEN outgoing ELSE Append(outgoing, m)
  /\ closed' = (closed \/ Len(outgoing) >= MaxOutgoing)

Reply(i, result, version, rows) ==
  [kind |-> "reply", id |-> i, result |-> result, version |-> version, rows |-> rows]
Dialog == [kind |-> "dialog", id |-> 0, result |-> "none", version |-> 0, rows |-> 0]

-----------------------------------------------------------------------------
(* The main thread.                                                        *)

First == Head(commands)
Serving(kinds) ==
  /\ backend.at = "run" /\ commands # << >> /\ request[First].kind \in kinds
  /\ commands' = Tail(commands)
Ran(i, result) == executed' = [executed EXCEPT ![i] = result]

(* The history changes: requests arrive, are evicted or cleared. *)
HistoryChanges ==
  /\ history.revision < MaxChanges /\ backend.at # "ended"
  /\ history' = [history EXCEPT !.revision = @ + 1]
  /\ UNCHANGED <<clientVars, commands, answers, outgoing, backend, closed, executed, form>>

(* monitor(since): a new version is built only when the rows have changed, *)
(* and a client that has the version is told that nothing changed.         *)
ServeMonitor ==
  /\ Serving({"monitor"})
  /\ LET new == history.rows # history.revision
         version == history.version + (IF new THEN 1 ELSE 0)
     IN /\ history' = [history EXCEPT !.version = version, !.rows = history.revision]
        /\ Emit(Reply(First, "ok", version, history.revision))
  /\ Ran(First, "ok")
  /\ UNCHANGED <<clientVars, answers, backend, form>>

(* dispatch: set_form validates all fields before it changes one.  A save  *)
(* may have to ask the user first; nothing is done while quitting.         *)
ServeOperation ==
  /\ Serving(Operations)
  /\ LET i == First
         takesForm == request[i].kind = "form"
     IN \/ /\ backend.quitting \/ takesForm
           /\ Emit(Reply(i, "error", 0, 0)) /\ Ran(i, "error")
           /\ UNCHANGED <<backend, form>>
        \/ /\ ~backend.quitting
           /\ form' = IF takesForm THEN request[i].form ELSE form
           /\ \/ Emit(Reply(i, "ok", 0, 0)) /\ Ran(i, "ok") /\ UNCHANGED backend
              \/ /\ takesForm /\ ~closed /\ Emit(Dialog)
                 /\ backend' = [backend EXCEPT !.at = "asking", !.id = i]
                 /\ UNCHANGED executed
  /\ UNCHANGED <<clientVars, answers, history>>

(* Mutant: only the user ends a dialog. *)
AnsweredByUser ==
  /\ backend.at = "asking" /\ answers # << >> /\ answers' = << >>
  /\ backend' = [backend EXCEPT !.at = "run", !.id = 0]
  /\ Ran(backend.id, "ok")
  /\ Emit(Reply(backend.id, "ok", 0, 0))
  /\ UNCHANGED <<clientVars, commands, form, history>>

(* askyesno: the answer, or the end of the pipe, which counts as a refusal;*)
(* an answer left over is dropped.  The save replies either way.           *)
Answered ==
  /\ backend.at = "asking" /\ (answers # << >> \/ closed)
  /\ answers' = << >>
  /\ backend' = [backend EXCEPT !.at = "run", !.id = 0]
  /\ Ran(backend.id, "ok")
  /\ Emit(Reply(backend.id, "ok", 0, 0))
  /\ UNCHANGED <<clientVars, commands, form, history>>

(* The main loop notices the closed pipe, or the tray quits the program. *)
BeginQuit ==
  /\ backend.at = "run" /\ ~backend.quitting
  /\ backend' = [backend EXCEPT !.quitting = TRUE]
  /\ UNCHANGED <<clientVars, commands, answers, outgoing, closed, executed, form, history>>

(* The controller has finished, or 15 seconds have passed after the pipe   *)
(* was closed; events that do not go out within a second are lost.         *)
End ==
  /\ backend.at = "run" /\ backend.quitting
  /\ backend' = [backend EXCEPT !.at = "ended"]
  /\ outgoing' = << >>
  /\ UNCHANGED <<clientVars, commands, answers, closed, executed, form, history>>

-----------------------------------------------------------------------------
MainStep == ServeMonitor \/ ServeOperation \/ Answered \/ End
InterfaceStep ==
  \/ ReadReply \/ Disconnected \/ OperationChanged
  \/ \E i \in Ids : Write(i) \/ Resume(i) \/ TimeOut(i)

PipeNext ==
  \/ MainStep \/ PipeEnds \/ InterfaceStep \/ BeginQuit \/ HistoryChanges
  \/ Dirty \/ AnswerDialog \/ Close
  \/ \E i \in Ids : GiveUpUnsent(i)
  \/ \E kind \in Kinds : Send(kind)

(* The threads keep running; a closed pipe is noticed by the main loop.    *)
(* The user need not answer, and nobody has to quit.                       *)
PipeFairness ==
  WF_pipeVars(MainStep) /\ WF_pipeVars(PipeEnds) /\ WF_pipeVars(closed /\ BeginQuit)

PipeSpec == PipeInit /\ [][PipeNext]_pipeVars /\ PipeFairness

-----------------------------------------------------------------------------
(* What Send tells its caller is true: an operation reported as not sent   *)
(* is never executed, and one reported with a result was executed with it. *)
OutcomeIsTrue ==
  \A i \in Ids :
    /\ request[i].result = "unsent" => executed[i] = "no" /\ i # mutation
    /\ request[i].result \in {"ok", "error"} => executed[i] = request[i].result

(* While the window shows no unsaved changes, the backend has the form as  *)
(* the user left it: a late, lost or failed reply never hides a draft.     *)
(* Excepted is an operation that begins between a late reply and the       *)
(* callback that settles it: its outcome is then taken for the draft's.    *)
DraftKept == ~draft.dirty /\ ~draft.overtaken => form = draft.edits

(* The end of the interface ends the backend, also when it was waiting for *)
(* an answer of the user or nobody reads its events.                       *)
BackendEnds == down = "closed" ~> backend.at = "ended"
=============================================================================
