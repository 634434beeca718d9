--------------------------- MODULE PowerRecovery ----------------------------
(***************************************************************************)
(* mcp_local/power_policy.py, power_restore_guard.py and                   *)
(* legacy_power_recovery.py: an older version could leave a journal of the *)
(* power settings it had changed.  A program that finds one starts a guard *)
(* process, which restores the settings and only then removes the journal. *)
(*                                                                         *)
(* The guards of one journal exclude each other with a mutex.  Client and  *)
(* guard talk over a pipe; the end of the pipe tells the guard that its    *)
(* client has gone.  Every call of the power API may fail, the user may    *)
(* choose other power settings meanwhile, and both processes may die.      *)
(* Reading a setting and writing it are adjacent calls, taken as one step. *)
(***************************************************************************)
EXTENDS Naturals, FiniteSets

CONSTANTS
  Programs,  \* programs that recover the journal
  Supplies,  \* AC and DC
  Schemes,   \* the power schemes the old version created
  Nobody     \* no process

VARIABLES
  journal, \* power-runtime.json, and whether its writer still runs
  userMode,    \* user power mode of each supply
  active,  \* the active scheme
  schemes, \* schemes of the old version that still exist
  mutex,   \* the guard that owns the journal
  guard,   \* the guard process of each program
  client   \* recover_legacy_power of each program

recoveryVars == <<journal, userMode, active, schemes, mutex, guard, client>>

Chosen == {"original", "user"}
ASSUME SchemeAssumption == Schemes \cap Chosen = {}

Guards ==
  [at : {"none", "boot", "recover", "supplies", "scheme", "delete", "unlink", "serve", "exit"},
   for : {"recover", "apply", "final"}, todo : SUBSET (Supplies \cup Schemes),
   state : BOOLEAN, errors : BOOLEAN, eof : BOOLEAN,
   command : BOOLEAN, reply : {"none", "ok", "error"}]

RecoveryTypeOK ==
  /\ journal \in {"none", "sound", "corrupt", "owned"}
  /\ userMode \in [Supplies -> Chosen \cup {"applied"}]
  /\ active \in Chosen \cup Schemes
  /\ schemes \subseteq Schemes
  /\ mutex \in Programs \cup {Nobody}
  /\ guard \in [Programs -> Guards]
  /\ client \in [Programs -> {"idle", "start", "apply", "wait", "done", "failed"}]

NoGuard == [at |-> "none", for |-> "recover", todo |-> {}, state |-> FALSE,
            errors |-> FALSE, eof |-> FALSE, command |-> FALSE, reply |-> "none"]

RecoveryInit ==
  /\ journal \in {"none", "sound", "corrupt", "owned"}
  /\ IF journal = "none"
     THEN userMode = [s \in Supplies |-> "original"] /\ active = "original" /\ schemes = {}
     ELSE /\ userMode = [s \in Supplies |-> "applied"]
          /\ active \in Schemes /\ schemes = Schemes
  /\ mutex = Nobody
  /\ guard = [p \in Programs |-> NoGuard]
  /\ client = [p \in Programs |-> "idle"]

api == <<userMode, active, schemes>>

-----------------------------------------------------------------------------
(* The guard process: serve(), with restore() step by step.                *)

Guard(p, g) == guard' = [guard EXCEPT ![p] = g]

(* CreateMutexW: the second guard of a journal answers with an error. *)
GuardBoots(p) ==
  /\ guard[p].at = "boot"
  /\ IF mutex = Nobody
     THEN mutex' = p /\ Guard(p, [guard[p] EXCEPT !.at = "recover"])
     ELSE mutex' = mutex /\ Guard(p, [guard[p] EXCEPT !.at = "exit", !.reply = "error"])
  /\ UNCHANGED <<journal, api, client>>

StartRestore(g, for) ==
  [g EXCEPT !.for = for, !.errors = FALSE,
            !.at = IF g.state THEN "supplies" ELSE "unlink", !.todo = Supplies]

(* recover(): nothing without a journal, an error for one that is corrupt  *)
(* or whose writer is alive, and restore() for one that is sound.          *)
GuardRecovers(p) ==
  /\ guard[p].at = "recover"
  /\ Guard(p, CASE journal = "none"  -> [guard[p] EXCEPT !.at = "serve", !.reply = "ok"]
                [] journal = "sound" ->
                     StartRestore([guard[p] EXCEPT !.state = TRUE], "recover")
                [] OTHER             ->
                     StartRestore([guard[p] EXCEPT !.reply = "error"], "final"))
  /\ UNCHANGED <<journal, api, mutex, client>>

(* Mutant: only the failure of the last supply counts. *)
RestoreSupplyForgets(p) ==
  /\ guard[p].at = "supplies"
  /\ \E s \in guard[p].todo, fails \in BOOLEAN :
       /\ userMode' = IF fails \/ userMode[s] # "applied" THEN userMode
                  ELSE [userMode EXCEPT ![s] = "original"]
       /\ Guard(p, [guard[p] EXCEPT !.todo = @ \ {s}, !.errors = fails,
                      !.at = IF guard[p].todo = {s} THEN "scheme" ELSE @])
  /\ UNCHANGED <<journal, active, schemes, mutex, client>>

(* A mode that is no longer the applied one was chosen by the user. *)
RestoreSupply(p) ==
  /\ guard[p].at = "supplies"
  /\ \E s \in guard[p].todo, fails \in BOOLEAN :
       /\ userMode' = IF fails \/ userMode[s] # "applied" THEN userMode
                  ELSE [userMode EXCEPT ![s] = "original"]
       /\ Guard(p, [guard[p] EXCEPT !.todo = @ \ {s}, !.errors = @ \/ fails,
                      !.at = IF guard[p].todo = {s} THEN "scheme" ELSE @])
  /\ UNCHANGED <<journal, active, schemes, mutex, client>>

RestoreScheme(p) ==
  /\ guard[p].at = "scheme"
  /\ \E fails \in BOOLEAN :
       /\ active' = IF fails \/ active \notin Schemes THEN active ELSE "original"
       /\ Guard(p, [guard[p] EXCEPT !.errors = @ \/ fails, !.todo = Schemes,
                      !.at = IF guard[p].errors \/ fails THEN "unlink" ELSE "delete"])
  /\ UNCHANGED <<journal, userMode, schemes, mutex, client>>

(* Deleting a scheme that has gone already succeeds. *)
DeleteScheme(p) ==
  /\ guard[p].at = "delete"
  /\ \E s \in guard[p].todo, fails \in BOOLEAN :
       /\ schemes' = IF fails THEN schemes ELSE schemes \ {s}
       /\ Guard(p, [guard[p] EXCEPT !.todo = @ \ {s}, !.errors = @ \/ fails,
                      !.at = IF guard[p].todo = {s} THEN "unlink" ELSE @])
  /\ UNCHANGED <<journal, userMode, active, mutex, client>>

(* The end of restore(): with an error the complete journal stays.  A      *)
(* failed recover() runs restore() a second time, in the finally clause of *)
(* serve().                                                                *)
Restored(p, g) ==
  LET good == [g EXCEPT !.state = FALSE]
  IN /\ journal' = IF g.state /\ ~g.errors THEN "none" ELSE journal
     /\ \/ g.for = "final" /\ ~g.errors /\ Guard(p, [good EXCEPT !.at = "exit"])
        \/ g.for = "final" /\ g.errors /\ Guard(p, [g EXCEPT !.at = "exit", !.reply = "error"])
        \/ g.for # "final" /\ ~g.errors /\ Guard(p, [good EXCEPT !.at = "serve", !.reply = "ok"])
        \/ g.for = "apply" /\ g.errors /\ Guard(p, [g EXCEPT !.at = "serve", !.reply = "error"])
        \/ g.for = "recover" /\ g.errors /\ Guard(p, StartRestore(g, "final"))

(* The journal itself may refuse to be removed. *)
EndRestore(p) ==
  /\ guard[p].at = "unlink"
  /\ \E refused \in BOOLEAN :
       Restored(p, [guard[p] EXCEPT !.errors = @ \/ (refused /\ guard[p].state)])
  /\ UNCHANGED <<api, mutex, client>>

(* Mutant: the guard does not notice the end of its pipe. *)
GuardServesOnly(p) ==
  /\ guard[p].at = "serve" /\ guard[p].command
  /\ Guard(p, StartRestore([guard[p] EXCEPT !.command = FALSE], "apply"))
  /\ UNCHANGED <<journal, api, mutex, client>>

(* for line in source: the command 'off' restores, the end of file ends. *)
GuardServes(p) ==
  /\ guard[p].at = "serve"
  /\ \/ /\ guard[p].command
        /\ Guard(p, StartRestore([guard[p] EXCEPT !.command = FALSE], "apply"))
     \/ /\ guard[p].eof /\ ~guard[p].command
        /\ Guard(p, StartRestore(guard[p], "final"))
  /\ UNCHANGED <<journal, api, mutex, client>>

GuardExits(p) ==
  /\ guard[p].at = "exit"
  /\ Guard(p, [guard[p] EXCEPT !.at = "none", !.reply = IF @ = "none" THEN "error" ELSE @])
  /\ mutex' = IF mutex = p THEN Nobody ELSE mutex
  /\ UNCHANGED <<journal, api, client>>

GuardStep(p) ==
  \/ GuardBoots(p) \/ GuardRecovers(p) \/ RestoreSupply(p) \/ RestoreScheme(p)
  \/ DeleteScheme(p) \/ EndRestore(p) \/ GuardServes(p) \/ GuardExits(p)

(* The guard is killed.  The client still finds the reply it has written;  *)
(* without one the end of the pipe is the answer.  The system releases the *)
(* mutex.                                                                  *)
GuardDies(p) ==
  /\ guard[p].at # "none"
  /\ Guard(p, [NoGuard EXCEPT !.reply = IF guard[p].reply = "none" THEN "error" ELSE guard[p].reply])
  /\ mutex' = IF mutex = p THEN Nobody ELSE mutex
  /\ UNCHANGED <<journal, api, client>>

-----------------------------------------------------------------------------
(* recover_legacy_power: PowerRestoreGuardClient.start, then close.        *)

Client(p, at) == client' = [client EXCEPT ![p] = at]
Resume(p) == client[p] \in {"idle", "done", "failed"}

StartGuard(p) ==
  /\ Resume(p) /\ guard[p].at = "none"
  /\ IF journal = "none"
     THEN Client(p, "done") /\ UNCHANGED guard
     ELSE Client(p, "start") /\ Guard(p, [NoGuard EXCEPT !.at = "boot"])
  /\ UNCHANGED <<journal, api, mutex>>

(* abort() closes the pipe after an error or after 15 seconds without a reply. *)
Abort(p) == /\ Client(p, "failed")
            /\ Guard(p, [guard[p] EXCEPT !.eof = TRUE, !.reply = "none"])

(* start() has its answer: close() calls apply('off'), which writes to the pipe. *)
Started(p) ==
  /\ client[p] = "start" /\ guard[p].reply # "none"
  /\ IF guard[p].reply = "ok" /\ guard[p].at # "none"
     THEN /\ Client(p, "apply")
          /\ Guard(p, [guard[p] EXCEPT !.reply = "none", !.command = TRUE])
     ELSE Abort(p)
  /\ UNCHANGED <<journal, api, mutex>>

Applied(p) ==
  /\ client[p] = "apply" /\ guard[p].reply # "none"
  /\ IF guard[p].reply = "ok"
     THEN Client(p, "wait") /\ Guard(p, [guard[p] EXCEPT !.reply = "none", !.eof = TRUE])
     ELSE Abort(p)
  /\ UNCHANGED <<journal, api, mutex>>

(* process.wait, then the last look: the journal must have gone. *)
GuardEnded(p) ==
  /\ client[p] = "wait" /\ guard[p].at = "none"
  /\ Client(p, IF journal = "none" THEN "done" ELSE "failed")
  /\ Guard(p, NoGuard)
  /\ UNCHANGED <<journal, api, mutex>>

TimeOut(p) ==
  /\ client[p] \in {"start", "apply", "wait"}
  /\ Abort(p)
  /\ UNCHANGED <<journal, api, mutex>>

ClientStep(p) == Started(p) \/ Applied(p) \/ GuardEnded(p)

ClientDies(p) ==
  /\ client' = [client EXCEPT ![p] = "idle"]
  /\ Guard(p, [guard[p] EXCEPT !.eof = TRUE])
  /\ UNCHANGED <<journal, api, mutex>>

(* The user chooses another mode or scheme. *)
UserChooses ==
  /\ \/ /\ \E s \in Supplies : userMode[s] # "user" /\ userMode' = [userMode EXCEPT ![s] = "user"]
        /\ UNCHANGED active
     \/ active # "user" /\ active' = "user" /\ UNCHANGED userMode
  /\ UNCHANGED <<journal, schemes, mutex, guard, client>>

OwnerEnds == /\ journal = "owned" /\ journal' = "sound"
             /\ UNCHANGED <<api, mutex, guard, client>>

RecoveryNext ==
  \/ \E p \in Programs : \/ GuardStep(p) \/ GuardDies(p) \/ ClientStep(p)
                         \/ StartGuard(p) \/ TimeOut(p) \/ ClientDies(p)
  \/ UserChooses \/ OwnerEnds

(* A guard runs until it is killed, and a client does not wait for ever. *)
Fairness == \A p \in Programs : /\ WF_recoveryVars(GuardStep(p))
                                /\ WF_recoveryVars(ClientStep(p) \/ TimeOut(p))

RecoverySpec == RecoveryInit /\ [][RecoveryNext]_recoveryVars /\ Fairness

-----------------------------------------------------------------------------
(* The journal goes last: without it, nothing of what the old version had  *)
(* applied is left, whatever failed or died during the recoveries.         *)
JournalGoesLast ==
  journal = "none" => /\ \A s \in Supplies : userMode[s] # "applied"
                      /\ active \notin Schemes /\ schemes = {}

(* A guard whose client has gone, or has given up, restores once more and  *)
(* ends: the mutex does not stay taken, and a program does not hang in its *)
(* recovery.                                                               *)
RecoveryEnds ==
  \A p \in Programs : /\ (guard[p].eof ~> guard[p].at = "none")
                       /\ (client[p] = "start" ~> client[p] \in {"idle", "done", "failed"})
=============================================================================
