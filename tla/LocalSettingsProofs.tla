------------------------ MODULE LocalSettingsProofs -------------------------
(***************************************************************************)
(* Proofs about SettingsStore, LocalSettings and PowerRecovery, for any    *)
(* number of command lines, any set of settings that is closed under what  *)
(* the programs save, any number of backups and failures, and any number   *)
(* of supplies and power schemes.                                          *)
(*                                                                         *)
(* First the store.  Its inductive invariant says what a save may rely on  *)
(* between two of its operations: while it is at work the lock file is its *)
(* own, so nobody else can replace the file; from the comparison to the    *)
(* replacement the file is what the process has read; and from the backup  *)
(* on the newest backup is that content.                                   *)
(*                                                                         *)
(* Then the programs.  Every step of theirs is a step of the store or      *)
(* leaves its files alone, so what is proved of the store holds of the     *)
(* programs that use it; and between the transactions of the desktop the   *)
(* logon task is what the settings ask for.                                *)
(*                                                                         *)
(* Last the recovery of the power journal.  Its inductive invariant        *)
(* follows a guard through restore(): while it has recorded no error, what *)
(* it has dealt with is restored.  Nothing applies an old setting again,   *)
(* so this is not undone by other guards, by the user or by a death.       *)
(***************************************************************************)
EXTENDS LocalSettings, PowerRecovery, SequenceTheorems, TLAPS

-----------------------------------------------------------------------------
(* The store.                                                              *)

Backed == disk # NoFile => backups # << >> /\ Head(backups) = disk

(* What holds of a save at each place. *)
SaveInv(p) ==
  /\ save[p].at \in Locked => lock = p
  /\ save[p].at \in Writing => disk = seen[p]
  /\ save[p].at \in {"rotate", "replace"} => Backed

IInv == TypeOK /\ \A p \in Procs : SaveInv(p)

(* A backup in front of the others is the newest. *)
LEMMA Pushed ==
  ASSUME NEW s \in Seq(Settings), NEW v \in Settings
  PROVE  /\ <<v>> \o s \in Seq(Settings)
         /\ <<v>> \o s # << >>
         /\ Head(<<v>> \o s) = v
<1>1. <<v>> \in Seq(Settings) /\ Len(<<v>>) = 1 /\ <<v>>[1] = v
  OBVIOUS
<1>2. Len(s) \in Nat
  BY LenProperties
<1>3. /\ <<v>> \o s \in Seq(Settings)
      /\ Len(<<v>> \o s) = Len(<<v>>) + Len(s)
      /\ \A i \in 1 .. Len(<<v>>) + Len(s) :
           (<<v>> \o s)[i] = IF i <= Len(<<v>>) THEN <<v>>[i] ELSE s[i - Len(<<v>>)]
  BY <1>1, ConcatProperties
<1> QED BY <1>1, <1>2, <1>3

(* The rotation of more than Keep backups leaves the newest in its place. *)
LEMMA Rotated ==
  ASSUME NEW s \in Seq(Settings), Len(s) > Keep
  PROVE  /\ SubSeq(s, 1, Keep) \in Seq(Settings)
         /\ SubSeq(s, 1, Keep) # << >>
         /\ Head(SubSeq(s, 1, Keep)) = Head(s)
<1>1. Len(s) \in Nat /\ Keep \in Nat /\ 1 <= Keep
  BY KeepAssumption, LenProperties
<1>2. \A i \in 1 .. Keep : s[i] \in Settings
  BY <1>1, ElementOfSeq
<1>3. /\ SubSeq(s, 1, Keep) \in Seq(Settings)
      /\ Len(SubSeq(s, 1, Keep)) = Keep
      /\ \A i \in 1 .. Keep : SubSeq(s, 1, Keep)[i] = s[i]
  BY <1>1, <1>2, SubSeqProperties
<1>4. 1 \in 1 .. Keep
  BY <1>1
<1>5. SubSeq(s, 1, Keep)[1] = s[1]
  BY <1>3, <1>4
<1>6. SubSeq(s, 1, Keep) # << >>
  BY <1>1, <1>3
<1> QED BY <1>3, <1>5, <1>6

(* No step of the store, whatever a process does and wherever it dies, puts *)
(* a value of a wrong type into a variable.                                *)
LEMMA TypeStep == TypeOK /\ [StoreNext]_storeVars => TypeOK'
<1> SUFFICES ASSUME TypeOK, [StoreNext]_storeVars PROVE TypeOK'
  OBVIOUS
<1> USE DEF TypeOK, Goto, NoSave, Contents, Locked, Writing
<1>1. ASSUME NEW p \in Procs, Load(p) PROVE TypeOK'
  BY <1>1 DEF Load
<1>2. ASSUME NEW p \in Procs, NEW v \in Settings, CallSave(p, v) PROVE TypeOK'
  BY <1>2 DEF CallSave
<1>3. ASSUME NEW p \in Procs, CreateLock(p) PROVE TypeOK'
  BY <1>3 DEF CreateLock
<1>4. ASSUME NEW p \in Procs, Compare(p) PROVE TypeOK'
  BY <1>4 DEF Compare
<1>5. ASSUME NEW p \in Procs, WriteBackup(p) PROVE TypeOK'
  <2>1. backups' \in Seq(Settings)
    BY <1>5, Pushed DEF WriteBackup
  <2> QED BY <1>5, <2>1 DEF WriteBackup
<1>6. ASSUME NEW p \in Procs, Rotate(p) PROVE TypeOK'
  <2>1. backups' \in Seq(Settings)
    BY <1>6, Rotated DEF Rotate
  <2> QED BY <1>6, <2>1 DEF Rotate
<1>7. ASSUME NEW p \in Procs, Replace(p) PROVE TypeOK'
  BY <1>7 DEF Replace
<1>8. ASSUME NEW p \in Procs, ReadBack(p) PROVE TypeOK'
  BY <1>8 DEF ReadBack
<1>9. ASSUME NEW p \in Procs, Unlock(p) PROVE TypeOK'
  BY <1>9 DEF Unlock
<1>10. ASSUME NEW p \in Procs, StepFails(p) PROVE TypeOK'
  BY <1>10 DEF StepFails
<1>11. ASSUME NEW p \in Procs, Returned(p) PROVE TypeOK'
  BY <1>11 DEF Returned
<1>12. ASSUME NEW p \in Procs, Ends(p) PROVE TypeOK'
  BY <1>12 DEF Ends
<1>13. CASE RemoveStaleLock
  BY <1>13 DEF RemoveStaleLock
<1>14. CASE UNCHANGED storeVars
  BY <1>14 DEF storeVars
<1> QED BY <1>1, <1>2, <1>3, <1>4, <1>5, <1>6, <1>7, <1>8, <1>9, <1>10,
           <1>11, <1>12, <1>13, <1>14 DEF StoreNext, SaveStep

(* Every variable of the store has the type that TypeOK gives it. *)
THEOREM StoreTypeCorrect == StoreSpec => []TypeOK
<1>1. StoreInit => TypeOK
  BY DEF StoreInit, TypeOK, NoSave, Contents, Locked, Writing
<1> QED BY <1>1, TypeStep, PTL DEF StoreSpec

(* While p holds the lock file no other save is inside the lock, and what  *)
(* holds of one that is outside it does not depend on the files.           *)
LEMMA OthersOutside ==
  ASSUME NEW p \in Procs, NEW q \in Procs, q # p, SaveInv(q), TypeOK,
         lock = p, save'[q] = save[q]
  PROVE  SaveInv(q)'
  BY DEF SaveInv, Locked, Writing

(* The invariant that the refinement and the backups rest on: the save     *)
(* that has passed the lock owns it, and what it compared stays true until *)
(* it replaces the file.                                                   *)
THEOREM StoreInductive == StoreSpec => []IInv
<1>1. StoreInit => IInv
  <2>1. StoreInit => TypeOK
    BY DEF StoreInit, TypeOK, NoSave, Contents, Locked, Writing
  <2> QED BY <2>1 DEF StoreInit, IInv, SaveInv, NoSave, Locked, Writing
<1>2. IInv /\ TypeOK' /\ [StoreNext]_storeVars => IInv'
  <2> SUFFICES ASSUME IInv, TypeOK', [StoreNext]_storeVars,
                      NEW q \in Procs
               PROVE  SaveInv(q)'
    BY DEF IInv
  <2> USE DEF IInv
  <2>1. TypeOK /\ SaveInv(q)
    OBVIOUS
  <2>2. ASSUME NEW p \in Procs, Load(p) PROVE SaveInv(q)'
    BY <2>1, <2>2 DEF Load, SaveInv, Backed, TypeOK, Locked, Writing
  <2>3. ASSUME NEW p \in Procs, NEW v \in Settings, CallSave(p, v) PROVE SaveInv(q)'
    BY <2>1, <2>3 DEF CallSave, NoSave, SaveInv, Backed, TypeOK, Locked, Writing
  <2>4. ASSUME NEW p \in Procs, CreateLock(p) PROVE SaveInv(q)'
    <3>1. CASE q = p
      BY <2>1, <2>4, <3>1 DEF CreateLock, Goto, SaveInv, TypeOK, Locked, Writing
    <3>2. CASE q # p
      BY <2>1, <2>4, <3>2, LockAssumption
         DEF CreateLock, Goto, SaveInv, Backed, TypeOK, Locked, Writing
    <3> QED BY <3>1, <3>2
  <2>5. ASSUME NEW p \in Procs, Compare(p) PROVE SaveInv(q)'
    BY <2>1, <2>5 DEF Compare, Goto, SaveInv, Backed, TypeOK, Locked, Writing
  <2>6. ASSUME NEW p \in Procs, WriteBackup(p) PROVE SaveInv(q)'
    <3>1. lock = p /\ disk = seen[p]
      BY <2>6 DEF WriteBackup, SaveInv, Locked, Writing
    <3>2. Backed'
      <4>1. CASE disk = NoFile
        BY <2>6, <4>1 DEF WriteBackup, Backed
      <4>2. CASE disk # NoFile
        <5>1. disk \in Settings /\ backups \in Seq(Settings)
          BY <4>2, <2>1 DEF TypeOK, Contents
        <5>2. backups' = <<disk>> \o backups /\ disk' = disk
          BY <2>6, <4>2 DEF WriteBackup
        <5> QED BY <5>1, <5>2, Pushed DEF Backed
      <4> QED BY <4>1, <4>2
    <3>3. CASE q = p
      BY <2>1, <2>6, <3>1, <3>2, <3>3
         DEF WriteBackup, Goto, SaveInv, TypeOK, Locked, Writing
    <3>4. CASE q # p
      <4>1. save'[q] = save[q]
        BY <2>1, <2>6, <3>4 DEF WriteBackup, Goto, TypeOK
      <4> QED BY <2>1, <3>1, <3>4, <4>1, OthersOutside
    <3> QED BY <3>3, <3>4
  <2>7. ASSUME NEW p \in Procs, Rotate(p) PROVE SaveInv(q)'
    <3>1. lock = p /\ disk = seen[p] /\ Backed
      BY <2>7 DEF Rotate, SaveInv, Locked, Writing
    <3>2. Backed'
      <4>1. CASE disk = NoFile
        BY <2>7, <4>1 DEF Rotate, Backed
      <4>2. CASE disk # NoFile /\ Len(backups) > Keep
        <5>1. backups \in Seq(Settings) /\ Head(backups) = disk
          BY <2>1, <3>1, <4>2 DEF TypeOK, Backed
        <5>2. backups' = SubSeq(backups, 1, Keep) /\ disk' = disk
          BY <2>7, <4>2 DEF Rotate
        <5> QED BY <4>2, <5>1, <5>2, Rotated DEF Backed
      <4>3. CASE ~(Len(backups) > Keep)
        BY <2>7, <3>1, <4>3 DEF Rotate, Backed
      <4> QED BY <4>1, <4>2, <4>3
    <3>3. CASE q = p
      BY <2>1, <2>7, <3>1, <3>2, <3>3
         DEF Rotate, Goto, SaveInv, TypeOK, Locked, Writing
    <3>4. CASE q # p
      <4>1. save'[q] = save[q]
        BY <2>1, <2>7, <3>4 DEF Rotate, Goto, TypeOK
      <4> QED BY <2>1, <3>1, <3>4, <4>1, OthersOutside
    <3> QED BY <3>3, <3>4
  <2>8. ASSUME NEW p \in Procs, Replace(p) PROVE SaveInv(q)'
    <3>1. lock = p
      BY <2>8 DEF Replace, SaveInv, Locked, Writing
    <3>2. CASE q = p
      BY <2>1, <2>8, <3>1, <3>2 DEF Replace, SaveInv, TypeOK, Locked, Writing
    <3>3. CASE q # p
      <4>1. save'[q] = save[q]
        BY <2>1, <2>8, <3>3 DEF Replace, TypeOK
      <4> QED BY <2>1, <3>1, <3>3, <4>1, OthersOutside
    <3> QED BY <3>2, <3>3
  <2>9. ASSUME NEW p \in Procs, ReadBack(p) PROVE SaveInv(q)'
    BY <2>1, <2>9 DEF ReadBack, SaveInv, Backed, TypeOK, Locked, Writing
  <2>10. ASSUME NEW p \in Procs, Unlock(p) PROVE SaveInv(q)'
    <3>1. lock = p
      BY <2>10 DEF Unlock, SaveInv, Locked, Writing
    <3>2. CASE q = p
      BY <2>1, <2>10, <3>1, <3>2 DEF Unlock, Goto, SaveInv, TypeOK, Locked, Writing
    <3>3. CASE q # p
      <4>1. save'[q] = save[q]
        BY <2>1, <2>10, <3>3 DEF Unlock, Goto, TypeOK
      <4> QED BY <2>1, <3>1, <3>3, <4>1, OthersOutside
    <3> QED BY <3>2, <3>3
  <2>11. ASSUME NEW p \in Procs, StepFails(p) PROVE SaveInv(q)'
    BY <2>1, <2>11 DEF StepFails, Goto, SaveInv, Backed, TypeOK, Locked, Writing
  <2>12. ASSUME NEW p \in Procs, Returned(p) PROVE SaveInv(q)'
    BY <2>1, <2>12 DEF Returned, NoSave, SaveInv, Backed, TypeOK, Locked, Writing
  <2>13. ASSUME NEW p \in Procs, Ends(p) PROVE SaveInv(q)'
    BY <2>1, <2>13 DEF Ends, NoSave, SaveInv, Backed, TypeOK, Locked, Writing
  <2>14. CASE RemoveStaleLock
    BY <2>1, <2>14, LockAssumption DEF RemoveStaleLock, SaveInv, Backed, Locked, Writing
  <2>15. CASE UNCHANGED storeVars
    BY <2>1, <2>15 DEF storeVars, SaveInv, Backed
  <2> QED BY <2>2, <2>3, <2>4, <2>5, <2>6, <2>7, <2>8, <2>9, <2>10,
             <2>11, <2>12, <2>13, <2>14, <2>15 DEF StoreNext, SaveStep
<1> QED BY <1>1, <1>2, StoreTypeCorrect, PTL DEF StoreSpec

(* No lost update, for any number of processes: the settings file is a    *)
(* register with optimistic editing.  Only the replacement changes it,    *)
(* and then it still holds what the saving process has read.              *)
THEOREM NoUpdateLost == StoreSpec => NoLostUpdate
<1>1. StoreInit => Register!Init
  BY DEF StoreInit, Register!Init
<1>2. IInv /\ IInv' /\ [StoreNext]_storeVars => [Register!Next]_<<disk, seen>>
  <2> SUFFICES ASSUME IInv, IInv', [StoreNext]_storeVars
               PROVE  Register!Next \/ UNCHANGED <<disk, seen>>
    OBVIOUS
  <2>1. ASSUME NEW p \in Procs, Load(p) PROVE Register!Next
    BY <2>1 DEF Load, Register!Next, Register!Load
  <2>2. ASSUME NEW p \in Procs, ReadBack(p) PROVE Register!Next
    BY <2>2 DEF ReadBack, Register!Next, Register!Load
  <2>3. ASSUME NEW p \in Procs, Replace(p) PROVE Register!Next
    <3>1. seen[p] = disk
      BY <2>3 DEF Replace, IInv, SaveInv, Writing
    <3>2. disk' \in Contents
      BY DEF IInv, TypeOK
    <3> QED BY <2>3, <3>1, <3>2 DEF Replace, Register!Next, Register!Replace
  <2>4. ASSUME NEW p \in Procs, Ends(p) PROVE Register!Next
    BY <2>4 DEF Ends, Register!Next, Register!Forget
  <2>5. ASSUME NEW p \in Procs,
               \/ CreateLock(p) \/ Compare(p) \/ WriteBackup(p) \/ Rotate(p) \/ Unlock(p)
               \/ StepFails(p) \/ Returned(p) \/ \E v \in Settings : CallSave(p, v)
        PROVE  UNCHANGED <<disk, seen>>
    BY <2>5 DEF CreateLock, Compare, WriteBackup, Rotate, Unlock, StepFails, Returned,
                CallSave
  <2>6. CASE RemoveStaleLock \/ UNCHANGED storeVars
    BY <2>6 DEF RemoveStaleLock, storeVars
  <2> QED BY <2>1, <2>2, <2>3, <2>4, <2>5, <2>6 DEF StoreNext, SaveStep
<1> QED BY <1>1, <1>2, StoreInductive, PTL DEF StoreSpec, NoLostUpdate, Register!Spec

(* The content a save replaces is the newest backup at that moment, for   *)
(* any number of processes and any positive number of backups kept.       *)
THEOREM ReplacedKept == StoreSpec => ReplacedIsKept
<1>1. IInv /\ [StoreNext]_storeVars
        => [ disk' # disk /\ disk # NoFile
               => backups # << >> /\ Head(backups) = disk ]_storeVars
  <2> SUFFICES ASSUME IInv, StoreNext, disk' # disk, disk # NoFile
               PROVE  backups # << >> /\ Head(backups) = disk
    OBVIOUS
  <2>1. PICK p \in Procs : Replace(p)
    BY DEF StoreNext, SaveStep, Load, CallSave, CreateLock, Compare, WriteBackup, Rotate,
           ReadBack, Unlock, StepFails, Returned, Ends, RemoveStaleLock
  <2> QED BY <2>1 DEF Replace, IInv, SaveInv, Backed
<1> QED BY <1>1, StoreInductive, PTL DEF StoreSpec, ReplacedIsKept

-----------------------------------------------------------------------------
(* The programs that use the store.                                        *)

(* What the user edits is a content of the settings file. *)
EditInv == \A p \in Procs : flow[p].op = "save" => flow[p].new \in Settings

LInv == LocalTypeOK /\ EditInv

(* What the programs do to the files of the store are its own operations. *)
LEMMA StepOfStore == LInv /\ [Next]_vars => [StoreNext]_storeVars
<1> SUFFICES ASSUME LInv, [Next]_vars PROVE StoreNext \/ UNCHANGED storeVars
  OBVIOUS
<1> USE DEF LInv
<1>1. ASSUME NEW p \in Procs, Step(p) PROVE StoreNext \/ UNCHANGED storeVars
  <2>0. seen[p] \in Contents
    BY DEF LocalTypeOK, TypeOK
  <2>1. ASSUME \E v \in Settings : CallSave(p, v) PROVE StoreNext
    BY <2>1 DEF StoreNext
  <2>2. ASSUME Load(p) \/ SaveStep(p) \/ Returned(p) \/ Ends(p) PROVE StoreNext
    BY <2>2 DEF StoreNext
  <2>3. CASE LoadSettings(p) \/ Retire(p) \/ Migrate(p)
    BY <2>2, <2>3 DEF LoadSettings, Retire, Migrate
  <2>4. CASE Recover(p) \/ Query(p) \/ Stop(p) \/ Stopping(p) \/ ChangeTask(p) \/ Undo(p)
             \/ UndoStart(p) \/ QueryMode(p) \/ StartAgain(p)
    BY <2>4 DEF Recover, Query, Stop, Stopping, ChangeTask, Undo, UndoStart, QueryMode,
                StartAgain
  <2>5. CASE Retiring(p)
    BY <2>0, <2>1, <2>2, <2>5, SettingsAssumption DEF Retiring, AfterSave
  <2>6. CASE Migrating(p)
    BY <2>0, <2>1, <2>2, <2>6, SettingsAssumption DEF Migrating, AfterSave
  <2>7. CASE Saving(p)
    <3>1. flow[p].new \in Settings
      BY <2>7 DEF Saving, Is, EditInv
    <3> QED BY <2>1, <2>2, <2>7, <3>1 DEF Saving, AfterSave
  <2>8. CASE SavingMode(p)
    BY <2>0, <2>1, <2>2, <2>8, SettingsAssumption DEF SavingMode, AfterSave
  <2>9. CASE Report(p)
    BY <2>2, <2>9 DEF Report
  <2>10. CASE SaveStep(p)
    BY <2>2, <2>10
  <2> QED BY <1>1, <2>3, <2>4, <2>5, <2>6, <2>7, <2>8, <2>9, <2>10 DEF Step
<1>2. CASE Fault
  BY <1>2 DEF Fault, Dies, Tamper, StoreNext
<1>3. CASE User
  BY <1>3 DEF User, Start, Edit, StoreNext
<1>4. CASE BackgroundEnds \/ UNCHANGED vars
  BY <1>4 DEF BackgroundEnds, vars
<1> QED BY <1>1, <1>2, <1>3, <1>4 DEF Next

Flows == [op : {"none", "boot", "save", "mode", "run"}, at : Places,
          was : BOOLEAN, had : BOOLEAN, new : Contents]

(* A program that does nothing has a well-typed flow. *)
LEMMA EmptyFlow == NoFlow \in Flows /\ NoFlow.op = "none" /\ NoFlow.at = "off"
BY DEF NoFlow, Flows, Places, Contents

(* Where a program goes changes nothing else of its flow. *)
LEMMA GoingOn ==
  ASSUME LInv, NEW p \in Procs, NEW at \in Places, To(p, at)
  PROVE  /\ flow' \in [Procs -> Flows]
         /\ EditInv'
  BY DEF LInv, LocalTypeOK, EditInv, To, Contents, Flows

(* One step of a program keeps the types and the edited settings. *)
LEMMA TypeOfStep ==
  ASSUME LInv, TypeOK', NEW p \in Procs, Step(p), UNCHANGED faults
  PROVE  LInv'
<1>0. LInv' <=> /\ journalLeft' \in BOOLEAN
                /\ flow' \in [Procs -> Flows]
                /\ EditInv'
                /\ task' \in {"none", "ours", "foreign"}
                /\ background' \in {"off", "on", "ending"}
                /\ torn' \in BOOLEAN
  BY DEF LInv, LocalTypeOK, Contents, Flows
<1>1. /\ journalLeft \in BOOLEAN
      /\ flow \in [Procs -> Flows]
      /\ EditInv
      /\ task \in {"none", "ours", "foreign"}
      /\ background \in {"off", "on", "ending"}
      /\ torn \in BOOLEAN
  BY DEF LInv, LocalTypeOK, Flows
<1>2. ASSUME NEW at \in Places, To(p, at) PROVE flow' \in [Procs -> Flows] /\ EditInv'
  BY <1>2, GoingOn
<1>3. ASSUME UNCHANGED flow PROVE flow' \in [Procs -> Flows] /\ EditInv'
  BY <1>1, <1>3 DEF EditInv, Contents
<1>4. save[p] \in [at : Locked \cup {"idle", "lock", "saved", "failed"}, new : Contents,
                   ok : BOOLEAN, wrote : BOOLEAN]
  BY DEF LInv, LocalTypeOK, TypeOK
<1> USE DEF Places, At, Is
<1>5. CASE LoadSettings(p) \/ Retire(p) \/ Migrate(p) \/ Stopping(p) \/ Recover(p)
  <2>1. \E at \in Places : To(p, at)
    BY <1>5 DEF LoadSettings, Retire, Migrate, Stopping, Recover
  <2> QED BY <1>0, <1>1, <1>2, <1>5, <2>1
          DEF LoadSettings, Retire, Migrate, Stopping, Recover, scheduler
<1>6. CASE Retiring(p) \/ Migrating(p) \/ SavingMode(p)
  <2>1. UNCHANGED flow \/ \E at \in Places : To(p, at)
    BY <1>6 DEF Retiring, Migrating, SavingMode, AfterSave
  <2> QED BY <1>0, <1>1, <1>2, <1>3, <1>6, <2>1 DEF Retiring, Migrating, SavingMode, scheduler
<1>7. CASE Query(p) \/ QueryMode(p)
  <2>1. flow' \in [Procs -> Flows] /\ EditInv'
    <3>1. CASE Query(p)
      BY <3>1, <1>1, <1>2 DEF Query, Flows, EditInv, Contents
    <3>2. CASE QueryMode(p)
      BY <3>2, <1>1 DEF QueryMode, Flows, EditInv, Contents
    <3> QED BY <1>7, <3>1, <3>2
  <2> QED BY <1>0, <1>1, <1>7, <2>1 DEF Query, QueryMode, scheduler
<1>8. CASE Stop(p) \/ UndoStart(p) \/ StartAgain(p)
  <2>1. \E at \in Places : To(p, at)
    BY <1>8 DEF Stop, EndTask, UndoStart, StartAgain, RunTask
  <2>2. background' \in {"off", "on", "ending"}
    BY <1>1, <1>8 DEF Stop, EndTask, UndoStart, StartAgain, RunTask
  <2> QED BY <1>0, <1>1, <1>2, <1>8, <2>1, <2>2 DEF Stop, UndoStart, StartAgain
<1>9. CASE ChangeTask(p) \/ Undo(p)
  <2>1. \E at \in Places : To(p, at)
    BY <1>9 DEF ChangeTask, Undo, SetTask
  <2>2. task' \in {"none", "ours", "foreign"}
    BY <1>1, <1>9 DEF ChangeTask, Undo, SetTask, TaskFor
  <2> QED BY <1>0, <1>1, <1>2, <1>9, <2>1, <2>2 DEF ChangeTask, Undo
<1>10. CASE Saving(p)
  <2>1. UNCHANGED flow \/ \E at \in Places : To(p, at)
    BY <1>10 DEF Saving, AfterSave
  <2>2. torn' \in BOOLEAN
    BY <1>1, <1>4, <1>10 DEF Saving
  <2> QED BY <1>0, <1>1, <1>2, <1>3, <1>10, <2>1, <2>2 DEF Saving
<1>11. CASE Report(p)
  <2>1. flow' \in [Procs -> Flows] /\ EditInv'
    <3>1. PICK f : flow' = [flow EXCEPT ![p] = f] /\ f \in Flows /\ f.op # "save"
      <4>1. NoFlow \in Flows /\ NoFlow.op # "save"
        BY EmptyFlow
      <4>2. /\ [NoFlow EXCEPT !.op = "boot", !.at = "ready"] \in Flows
            /\ [NoFlow EXCEPT !.op = "boot", !.at = "ready"].op # "save"
        BY EmptyFlow DEF Flows
      <4> QED BY <1>11, <4>1, <4>2 DEF Report
    <3> QED BY <1>1, <3>1 DEF EditInv, Contents
  <2>2. torn' \in BOOLEAN
    BY <1>1, <1>11 DEF Report
  <2> QED BY <1>0, <1>1, <1>11, <2>1, <2>2 DEF Report
<1>12. CASE SaveStep(p) /\ UNCHANGED <<journalLeft, scheduler, flow>>
  BY <1>0, <1>1, <1>3, <1>12 DEF scheduler
<1> QED BY <1>5, <1>6, <1>7, <1>8, <1>9, <1>10, <1>11, <1>12 DEF Step

(* Every variable of the composition keeps its type, and what is being     *)
(* edited stays a content of the settings file.                            *)
THEOREM LocalTypeCorrect == Spec => []LInv
<1> USE DEF LInv, LocalTypeOK
<1>1. Init => LInv
  <2> SUFFICES ASSUME Init PROVE LInv
    OBVIOUS
  <2>1. TypeOK
    BY DEF Init, StoreInit, TypeOK, NoSave, Contents, Locked, Writing
  <2>2. flow \in [Procs -> Flows] /\ EditInv
    BY EmptyFlow DEF Init, EditInv
  <2>3. journalLeft \in BOOLEAN
    BY DEF Init
  <2>4. task \in {"none", "ours", "foreign"} /\ background \in {"off", "on", "ending"}
    BY DEF Init
  <2>5. torn \in BOOLEAN /\ faults \in 0..MaxFaults
    <3>1. torn = FALSE /\ faults = 0
      BY DEF Init
    <3>2. torn \in BOOLEAN
      BY <3>1
    <3>3. faults \in 0..MaxFaults
      <4>1. faults = 0
        BY <3>1
      <4> QED BY <4>1, BoundAssumption
    <3> QED BY <3>2, <3>3
  <2> QED BY <2>1, <2>2, <2>3, <2>4, <2>5 DEF Flows
<1>2. LInv /\ [Next]_vars => LInv'
  <2> SUFFICES ASSUME LInv, [Next]_vars PROVE LInv'
    OBVIOUS
  <2>1. TypeOK'
    BY StepOfStore, TypeStep
  <2>2. ASSUME NEW p \in Procs, Step(p), UNCHANGED faults PROVE LInv'
    BY <2>1, <2>2, TypeOfStep
  <2>3. ASSUME flow' \in [Procs -> Flows], EditInv', journalLeft' \in BOOLEAN, torn' \in BOOLEAN,
               task' \in {"none", "ours", "foreign"}, background' \in {"off", "on", "ending"},
               faults' \in 0..MaxFaults
        PROVE  LInv'
    BY <2>1, <2>3 DEF Flows, Contents
  <2>4. flow \in [Procs -> Flows] /\ EditInv
    BY DEF Flows
  <2>5. UNCHANGED flow => flow' \in [Procs -> Flows] /\ EditInv'
    BY <2>4 DEF EditInv, Flows, Contents
  <2>6. ASSUME NEW p \in Procs, NEW f \in Flows, f.op = "save" => f.new \in Settings,
               flow' = [flow EXCEPT ![p] = f]
        PROVE  flow' \in [Procs -> Flows] /\ EditInv'
    BY <2>4, <2>6 DEF EditInv, Contents
  <2>7. CASE Fault
    <3>1. faults' \in 0..MaxFaults
      BY <2>7, BoundAssumption DEF Fault
    <3>2. ASSUME NEW p \in Procs, Dies(p) PROVE LInv'
      BY <2>3, <2>6, <3>1, <3>2, EmptyFlow DEF Dies
    <3>3. CASE Tamper
      BY <2>3, <2>5, <3>1, <3>3 DEF Tamper
    <3>4. ASSUME NEW p \in Procs, StepFails(p), UNCHANGED <<journalLeft, scheduler, flow>> PROVE LInv'
      BY <2>3, <2>5, <3>1, <3>4 DEF scheduler
    <3> QED BY <2>7, <3>2, <3>3, <3>4 DEF Fault
  <2>8. ASSUME NEW auto \in BOOLEAN, Edit(auto), UNCHANGED faults PROVE LInv'
    <3> DEFINE new == [Normal(seen[Desktop]) EXCEPT !.auto = auto]
               f == [NoFlow EXCEPT !.op = "save", !.at = "query", !.new = new]
    <3>1. new \in Settings
      BY DesktopAssumption, SettingsAssumption DEF TypeOK
    <3>2. flow' = [flow EXCEPT ![Desktop] = f]
      BY <2>8 DEF Edit
    <3> HIDE DEF new
    <3>3. f \in Flows /\ f.new = new
      BY <3>1, EmptyFlow DEF Flows, Places, Contents
    <3> HIDE DEF f
    <3> QED BY <2>3, <2>6, <2>8, <3>1, <3>2, <3>3, DesktopAssumption DEF Edit, scheduler
  <2>9. ASSUME NEW p \in Procs, Start(p), UNCHANGED faults PROVE LInv'
    <3>1. PICK op \in {"boot", "mode", "run"} :
            flow' = [flow EXCEPT ![p] = [NoFlow EXCEPT !.op = op, !.at = "load"]]
      BY <2>9 DEF Start
    <3>2. /\ [NoFlow EXCEPT !.op = op, !.at = "load"] \in Flows
          /\ [NoFlow EXCEPT !.op = op, !.at = "load"].op # "save"
      BY EmptyFlow DEF Flows, Places
    <3> QED BY <2>3, <2>6, <2>9, <3>1, <3>2 DEF Start, scheduler
  <2>10. CASE BackgroundEnds /\ UNCHANGED faults
    BY <2>3, <2>5, <2>10 DEF BackgroundEnds
  <2>12. CASE RemoveStaleLock /\ UNCHANGED <<journalLeft, scheduler, flow, faults>>
    BY <2>3, <2>5, <2>12 DEF scheduler
  <2>11. CASE UNCHANGED vars
    BY <2>3, <2>5, <2>11 DEF vars, scheduler
  <2> QED BY <2>2, <2>7, <2>8, <2>9, <2>10, <2>11, <2>12 DEF Next, User
<1> QED BY <1>1, <1>2, PTL DEF Spec

(* The programs use the settings file by the protocol of the store. *)
THEOREM ImplementsStore == Spec => StoreSpec
<1>1. Init => StoreInit
  BY DEF Init
<1> QED BY <1>1, StepOfStore, LocalTypeCorrect, PTL DEF Spec, StoreSpec

(* No lost update: the desktop and the command lines replace the settings  *)
(* file only while it holds what they have read, in every recovery,        *)
(* migration, save, failure and death.                                     *)
THEOREM LocalNoUpdateLost == Spec => NoLostUpdate
BY ImplementsStore, NoUpdateLost, PTL

(* What any of these programs replaces is the newest backup. *)
THEOREM LocalReplacedKept == Spec => ReplacedIsKept
BY ImplementsStore, ReplacedKept, PTL

(* While the journal exists, no program has come further than its recovery, *)
(* and none is saving.                                                      *)
BeforeRecovery(p) ==
  /\ save[p].at = "idle"
  /\ flow[p].op = "none" => flow[p].at = "off"
  /\ flow[p].op \in {"boot", "run"} => flow[p].at \in {"load", "recover", "error"}
  /\ flow[p].op = "mode" => flow[p].at \in {"load", "query", "stop", "stopping", "recover", "error"}
  /\ flow[p].op # "save"

JournalInv == journalLeft => \A p \in Procs : BeforeRecovery(p)

(* A step of a program that has not recovered the journal goes no further  *)
(* unless it has.                                                          *)
LEMMA StepsBefore ==
  ASSUME LInv, NEW p \in Procs, BeforeRecovery(p), Step(p), journalLeft'
  PROVE  BeforeRecovery(p)'
<1> USE DEF LInv, LocalTypeOK, TypeOK, BeforeRecovery, At, Is, To
<1>1. CASE LoadSettings(p)
  BY <1>1 DEF LoadSettings, Load
<1>2. CASE Recover(p)
  BY <1>2 DEF Recover, storeVars
<1>3. CASE Stop(p)
  BY <1>3 DEF Stop, EndTask, storeVars
<1>4. CASE Stopping(p)
  BY <1>4 DEF Stopping, storeVars
<1>5. CASE QueryMode(p)
  BY <1>5 DEF QueryMode, storeVars
<1>6. CASE Report(p)
  <2>1. flow' = [flow EXCEPT ![p] = NoFlow] /\ save' = [save EXCEPT ![p] = NoSave]
    BY <1>6 DEF Report, Ends
  <2> QED BY <2>1, EmptyFlow DEF NoSave
<1>7. ~(Retire(p) \/ Retiring(p) \/ Migrate(p) \/ Migrating(p) \/ Query(p) \/ ChangeTask(p)
        \/ Saving(p) \/ Undo(p) \/ UndoStart(p) \/ SavingMode(p) \/ StartAgain(p) \/ SaveStep(p))
  BY DEF Retire, Retiring, Migrate, Migrating, Query, ChangeTask, Saving, Undo, UndoStart,
         SavingMode, StartAgain, SaveStep, CreateLock, Compare, WriteBackup, Rotate, Replace,
         ReadBack, Unlock, Writing
<1> QED BY <1>1, <1>2, <1>3, <1>4, <1>5, <1>6, <1>7 DEF Step

(* A step of one program touches neither the flow nor the save of another. *)
LEMMA OthersStay ==
  ASSUME LInv, NEW p \in Procs, NEW q \in Procs, q # p, Step(p)
  PROVE  flow'[q] = flow[q] /\ save'[q] = save[q] /\ seen'[q] = seen[q]
<1> USE DEF LInv, LocalTypeOK, TypeOK, To, storeVars
<1>1. CASE SaveStep(p) /\ UNCHANGED <<journalLeft, scheduler, flow>>
  BY <1>1 DEF SaveStep, CreateLock, Compare, WriteBackup, Rotate, Replace, ReadBack, Unlock, Goto
<1>2. CASE LoadSettings(p) \/ Recover(p) \/ Retire(p) \/ Migrate(p) \/ Query(p) \/ QueryMode(p)
           \/ Stopping(p)
  BY <1>2 DEF LoadSettings, Recover, Retire, Migrate, Query, QueryMode, Stopping, Load
<1>3. CASE Retiring(p) \/ Migrating(p)
  BY <1>3 DEF Retiring, Migrating, AfterSave, Returned, CallSave
<1>4. CASE Stop(p) \/ UndoStart(p) \/ StartAgain(p)
  BY <1>4 DEF Stop, EndTask, UndoStart, StartAgain, RunTask
<1>5. CASE ChangeTask(p) \/ Undo(p)
  BY <1>5 DEF ChangeTask, Undo, SetTask
<1>6. CASE Saving(p) \/ SavingMode(p)
  BY <1>6 DEF Saving, SavingMode, AfterSave, Returned, CallSave
<1>7. CASE Report(p)
  BY <1>7 DEF Report, Load, Ends
<1> QED BY <1>1, <1>2, <1>3, <1>4, <1>5, <1>6, <1>7 DEF Step

(* The record of the old power settings leaves the settings file only when *)
(* their recovery is over, for any number of programs.                     *)
THEOREM PowerFieldIsLast == Spec => PowerFieldLast
<1>1. Init => JournalInv
  <2> SUFFICES ASSUME Init, NEW p \in Procs PROVE BeforeRecovery(p)
    BY DEF JournalInv
  <2>1. save[p] = NoSave /\ flow[p] = NoFlow
    BY DEF Init, StoreInit
  <2> QED BY <2>1, EmptyFlow DEF NoSave, BeforeRecovery
<1>2. LInv /\ JournalInv /\ [Next]_vars => JournalInv'
  <2> SUFFICES ASSUME LInv, JournalInv, [Next]_vars, journalLeft', NEW q \in Procs
               PROVE  BeforeRecovery(q)'
    BY DEF JournalInv
  <2>1. ASSUME journalLeft, flow'[q] = flow[q], save'[q] = save[q] PROVE BeforeRecovery(q)'
    BY <2>1 DEF JournalInv, BeforeRecovery
  <2>2. ASSUME NEW p \in Procs, Step(p) PROVE BeforeRecovery(q)'
    <3>1. journalLeft
      BY <2>2 DEF Step, LoadSettings, Recover, Retire, Retiring, Migrate, Migrating, Query,
         Stop, Stopping, ChangeTask, Saving, Undo, UndoStart, Report, QueryMode, SavingMode,
         StartAgain
    <3>2. CASE q = p
      BY <2>2, <3>1, <3>2, StepsBefore DEF JournalInv
    <3>3. CASE q # p
      BY <2>1, <2>2, <3>1, <3>3, OthersStay
    <3> QED BY <3>2, <3>3
  <2>3. CASE Fault
    <3>1. ASSUME NEW p \in Procs, Dies(p) PROVE BeforeRecovery(q)'
      <4>1. journalLeft
        BY <3>1 DEF Dies
      <4>2. flow' = [flow EXCEPT ![p] = NoFlow] /\ save' = [save EXCEPT ![p] = NoSave]
        BY <3>1 DEF Dies, Ends
      <4>3. CASE q = p
        BY <4>2, <4>3, EmptyFlow DEF LInv, LocalTypeOK, TypeOK, BeforeRecovery, NoSave
      <4>4. CASE q # p
        BY <2>1, <4>1, <4>2, <4>4 DEF LInv, LocalTypeOK, TypeOK
      <4> QED BY <4>3, <4>4
    <3>2. CASE Tamper
      BY <2>1, <3>2 DEF Tamper, storeVars
    <3>3. ~\E p \in Procs : StepFails(p) /\ UNCHANGED <<journalLeft, scheduler, flow>>
      BY DEF StepFails, JournalInv, BeforeRecovery, Writing
    <3> QED BY <2>3, <3>1, <3>2, <3>3 DEF Fault
  <2>4. ASSUME NEW auto \in BOOLEAN, Edit(auto) PROVE BeforeRecovery(q)'
    BY <2>4, DesktopAssumption DEF Edit, At, JournalInv, BeforeRecovery, LInv, LocalTypeOK, Flows
  <2>5. ASSUME NEW p \in Procs, Start(p) PROVE BeforeRecovery(q)'
    <3>1. journalLeft /\ UNCHANGED save
      BY <2>5 DEF Start, storeVars
    <3>2. PICK op \in {"boot", "mode", "run"} :
            flow' = [flow EXCEPT ![p] = [NoFlow EXCEPT !.op = op, !.at = "load"]]
      BY <2>5 DEF Start
    <3>3. /\ [NoFlow EXCEPT !.op = op, !.at = "load"].op = op
          /\ [NoFlow EXCEPT !.op = op, !.at = "load"].at = "load"
      BY EmptyFlow DEF Flows
    <3>4. CASE q = p
      <4>1. flow'[q].op = op /\ flow'[q].at = "load"
        BY <3>2, <3>3, <3>4 DEF LInv, LocalTypeOK
      <4> QED BY <3>1, <4>1 DEF JournalInv, BeforeRecovery
    <3>5. CASE q # p
      BY <2>1, <3>1, <3>2, <3>5 DEF LInv, LocalTypeOK
    <3> QED BY <3>4, <3>5
  <2>6. CASE BackgroundEnds
    BY <2>1, <2>6 DEF BackgroundEnds, storeVars
  <2>7. CASE RemoveStaleLock /\ UNCHANGED <<journalLeft, scheduler, flow>>
    BY <2>1, <2>7 DEF RemoveStaleLock
  <2>8. CASE UNCHANGED vars
    BY <2>1, <2>8 DEF vars, storeVars
  <2> QED BY <2>2, <2>3, <2>4, <2>5, <2>6, <2>7, <2>8 DEF Next, User
<1>3. LInv /\ JournalInv /\ [Next]_vars
        => [ disk # NoFile /\ disk.power /\ disk' # disk => ~journalLeft ]_vars
  <2> SUFFICES ASSUME LInv, JournalInv, Next, disk' # disk PROVE ~journalLeft
    OBVIOUS
  <2>1. StoreNext
    BY StepOfStore DEF storeVars, vars
  <2>2. PICK p \in Procs : Replace(p)
    BY <2>1 DEF StoreNext, SaveStep, Load, CallSave, CreateLock, Compare, WriteBackup, Rotate,
           ReadBack, Unlock, StepFails, Returned, Ends, RemoveStaleLock
  <2> QED BY <2>2 DEF Replace, JournalInv, BeforeRecovery
<1> QED BY <1>1, <1>2, <1>3, LocalTypeCorrect, PTL DEF Spec, PowerFieldLast
-----------------------------------------------------------------------------
(* The logon task and the settings.                                        *)

AutoStart == Normal(disk).auto
Ours == task = "ours"

SavePlaces == {"query", "stop", "stopping", "task", "saving", "undo", "undo_start",
               "done", "error", "broken"}
Unwritten == {"lock", "compare"} \cup Writing

(* Where a program may be in its operation and in the save it has called,  *)
(* and what it saves: of the programs only the transaction of the desktop  *)
(* changes auto_start.                                                     *)
Orderly(p) ==
  /\ flow[p].op = "save" => p = Desktop /\ flow[p].at \in SavePlaces
  /\ flow[p].op # "save" => flow[p].at \notin {"task", "undo", "undo_start"}
  /\ Is(p, "save", "query") => ~flow[p].had /\ ~flow[p].was
  /\ flow[p].at \notin {"retiring", "migrating", "saving"} => save[p].at = "idle"
  /\ save[p].at \in Unwritten \cup {"idle", "readback", "failed"} => ~save[p].ok
  /\ save[p].at \in Unwritten \cup {"idle"} => ~save[p].wrote
  /\ save[p].at = "saved" => save[p].ok
  /\ save[p].at # "idle" => save[p].new \in Settings
  /\ save[p].at # "idle" /\ flow[p].op = "save" => save[p].new = flow[p].new
  /\ save[p].at \in Unwritten /\ flow[p].op # "save" =>
       Normal(save[p].new).auto = Normal(seen[p]).auto

(* The transaction has no task to change, so it has not looked at it. *)
Untouched(p) ==
  /\ ~Wanted(p) /\ ~flow[p].had /\ ~flow[p].was
  /\ ~Normal(seen[p]).auto /\ Ours = AutoStart

(* The task is changed before the settings are saved. *)
Committing(p) ==
  /\ save[p].at = "readback" \/ save[p].wrote \/ save[p].ok => Ours = AutoStart
  /\ ~save[p].wrote /\ ~save[p].ok => Untouched(p) \/ (Ours = Wanted(p) /\ flow[p].had = AutoStart)

TaskInv ==
  /\ task # "foreign"
  /\ flow[Desktop].op # "save"
       \/ flow[Desktop].at \in {"query", "stop", "stopping", "task", "undo_start", "done", "error"}
     => Ours = AutoStart
  /\ Is(Desktop, "save", "undo") => flow[Desktop].had = AutoStart
  /\ flow[Desktop].op = "save" /\ flow[Desktop].at \in {"stop", "stopping", "task"}
     => flow[Desktop].had = Ours
  /\ Is(Desktop, "save", "saving") => Committing(Desktop)

AutoInv == (\A p \in Procs : Orderly(p)) /\ (torn \/ TaskInv)

(* auto_start of what the programs make of the settings they have read. *)
LEMMA NormalAuto ==
  ASSUME NEW c \in Contents
  PROVE  /\ Normal(c).auto \in BOOLEAN
         /\ c \in Settings => Normal(c).auto = c.auto
         /\ Normal(Normal(c)).auto = Normal(c).auto
         /\ \A m \in Modes : Normal([Normal(c) EXCEPT !.mode = m]).auto = Normal(c).auto
         /\ \A a \in BOOLEAN : [Normal(c) EXCEPT !.auto = a].auto = a
<1>1. \A d \in Settings : d # NoFile /\ d \in AllSettings /\ d.auto \in BOOLEAN
  BY SettingsAssumption, NoFileAssumption DEF AllSettings, Record
<1>2. \A d \in Settings : Normal(d).auto = d.auto
  BY <1>1 DEF Normal, Record
<1>3. Normal(NoFile).auto = FALSE
  BY DEF Normal, Record
<1>4. /\ Normal(c) \in Settings
      /\ \A m \in Modes : [Normal(c) EXCEPT !.mode = m] \in Settings
  BY SettingsAssumption
<1>5. /\ \A m \in Modes : [Normal(c) EXCEPT !.mode = m].auto = Normal(c).auto
      /\ \A a \in BOOLEAN : [Normal(c) EXCEPT !.auto = a].auto = a
  BY DEF Normal, Record
<1> QED BY <1>1, <1>2, <1>3, <1>4, <1>5 DEF Contents

(* A step of a save leads to the next place of it. *)
LEMMA OrderlySave ==
  ASSUME LInv, NEW p \in Procs, Orderly(p), SaveStep(p) \/ StepFails(p), UNCHANGED flow
  PROVE  Orderly(p)'
<1> USE DEF LInv, LocalTypeOK, TypeOK, Goto, Is, Writing, Unwritten, Orderly
<1>1. CASE CreateLock(p) \/ Compare(p) \/ WriteBackup(p) \/ Rotate(p) \/ StepFails(p)
  BY <1>1 DEF CreateLock, Compare, WriteBackup, Rotate, StepFails
<1>2. CASE Replace(p)
  BY <1>2 DEF Replace
<1>3. CASE ReadBack(p)
  BY <1>3 DEF ReadBack
<1>4. CASE Unlock(p)
  BY <1>4 DEF Unlock
<1> QED BY <1>1, <1>2, <1>3, <1>4 DEF SaveStep

(* A program that goes on without touching its save. *)
LEMMA OrderlyGoes ==
  ASSUME LInv, NEW p \in Procs, Orderly(p), NEW at \in Places, To(p, at), UNCHANGED save,
         save[p].at = "idle",
         flow[p].op = "save" => at \in SavePlaces \ {"query"},
         flow[p].op # "save" => at \notin {"task", "undo", "undo_start"}
  PROVE  Orderly(p)'
BY DEF LInv, LocalTypeOK, TypeOK, To, Is, Unwritten, Writing, Orderly

(* A call of save_settings begins. *)
LEMMA OrderlyCall ==
  ASSUME LInv, NEW p \in Procs, Orderly(p), NEW new \in Settings, CallSave(p, new),
         UNCHANGED flow, flow[p].at \in {"retiring", "migrating", "saving"},
         flow[p].op = "save" => new = flow[p].new,
         flow[p].op # "save" => Normal(new).auto = Normal(seen[p]).auto
  PROVE  Orderly(p)'
BY DEF LInv, LocalTypeOK, TypeOK, CallSave, NoSave, Is, Unwritten, Writing, Orderly

(* A call of save_settings returns, or raises. *)
LEMMA OrderlyReturn ==
  ASSUME LInv, NEW p \in Procs, Orderly(p), NEW at \in Places, To(p, at), Returned(p),
         flow[p].op = "save" => at \in SavePlaces \ {"query"},
         flow[p].op # "save" => at \notin {"task", "undo", "undo_start"}
  PROVE  Orderly(p)'
BY DEF LInv, LocalTypeOK, TypeOK, To, Is, Returned, NoSave, Unwritten, Writing, Orderly

(* Every step of a program leaves it in order. *)
LEMMA OrderlyStep ==
  ASSUME LInv, NEW p \in Procs, Orderly(p), Step(p)
  PROVE  Orderly(p)'
<1> USE DEF Places, SavePlaces, At, Is, storeVars
<1>0. /\ seen[p] \in Contents
      /\ flow[p].op = "save" => flow[p].at \in SavePlaces /\ flow[p].new \in Settings
      /\ flow[p].at \notin {"retiring", "migrating", "saving"} => save[p].at = "idle"
      /\ flow[p].op # "save" => flow[p].at \notin {"task", "undo", "undo_start"}
  BY DEF LInv, LocalTypeOK, TypeOK, EditInv, Orderly
<1>1. CASE LoadSettings(p) \/ Recover(p) \/ Retire(p) \/ Migrate(p) \/ Stopping(p)
  <2>1. PICK at \in {"query", "recover", "saving", "retire", "error", "retiring", "migrating",
                     "task", "undo"} :
          To(p, at) /\ (flow[p].op = "save" => at \in SavePlaces \ {"query"})
            /\ (flow[p].op # "save" => at \notin {"task", "undo", "undo_start"})
    BY <1>0, <1>1 DEF LoadSettings, Recover, Retire, Migrate, Stopping
  <2>2. UNCHANGED save /\ save[p].at = "idle"
    BY <1>0, <1>1 DEF LoadSettings, Recover, Retire, Migrate, Stopping, Load
  <2> QED BY <2>1, <2>2, OrderlyGoes
<1>2. CASE Stop(p) \/ UndoStart(p) \/ StartAgain(p) \/ ChangeTask(p) \/ Undo(p)
  <2>1. PICK at \in {"task", "undo", "recover", "error", "stopping", "broken", "done", "saving",
                     "undo_start"} :
          To(p, at) /\ (flow[p].op = "save" => at \in SavePlaces \ {"query"})
            /\ (flow[p].op # "save" => at \notin {"task", "undo", "undo_start"})
    BY <1>0, <1>2 DEF Stop, EndTask, UndoStart, StartAgain, RunTask, ChangeTask, Undo, SetTask
  <2>2. UNCHANGED save /\ save[p].at = "idle"
    BY <1>0, <1>2 DEF Stop, UndoStart, StartAgain, ChangeTask, Undo
  <2> QED BY <2>1, <2>2, OrderlyGoes
<1>3. CASE Query(p) \/ QueryMode(p)
  <2>1. /\ UNCHANGED <<save, seen>> /\ save[p].at = "idle"
        /\ flow'[p].op = flow[p].op
        /\ flow[p].op = "save" => flow'[p].at \in SavePlaces \ {"query"}
        /\ flow[p].op # "save" => flow'[p].at \notin {"task", "undo", "undo_start"}
    BY <1>0, <1>3 DEF Query, QueryMode, To, LInv, LocalTypeOK
  <2> QED BY <2>1 DEF Orderly, Unwritten, Writing
<1>4. CASE Retiring(p)
  <2>1. flow[p].op # "save"
    BY <1>0, <1>4 DEF Retiring
  <2>2. CASE seen[p] # NoFile /\ CallSave(p, Normal(seen[p])) /\ UNCHANGED flow
    <3>1. Normal(seen[p]) \in Settings /\ Normal(Normal(seen[p])).auto = Normal(seen[p]).auto
      BY <1>0, NormalAuto, SettingsAssumption
    <3> QED BY <1>4, <2>1, <2>2, <3>1, OrderlyCall DEF Retiring
  <2>3. CASE save[p].at = "idle" /\ UNCHANGED storeVars
               /\ \E at \in {"done", "migrate"} : To(p, at)
    BY <2>1, <2>3, OrderlyGoes
  <2>4. CASE Returned(p) /\ \E at \in {"done", "migrate", "error"} : To(p, at)
    BY <2>1, <2>4, OrderlyReturn
  <2> QED BY <1>4, <2>2, <2>3, <2>4 DEF Retiring, AfterSave
<1>5. CASE Migrating(p)
  <2>1. flow[p].op # "save"
    BY <1>0, <1>5 DEF Migrating
  <2>2. CASE CallSave(p, Normal(seen[p])) /\ UNCHANGED flow
    <3>1. Normal(seen[p]) \in Settings /\ Normal(Normal(seen[p])).auto = Normal(seen[p]).auto
      BY <1>0, NormalAuto, SettingsAssumption
    <3> QED BY <1>5, <2>1, <2>2, <3>1, OrderlyCall DEF Migrating
  <2>3. CASE save[p].at = "idle" /\ UNCHANGED storeVars /\ To(p, "done")
    BY <2>1, <2>3, OrderlyGoes
  <2>4. CASE Returned(p) /\ \E at \in {"done", "error"} : To(p, at)
    BY <2>1, <2>4, OrderlyReturn
  <2> QED BY <1>5, <2>2, <2>3, <2>4 DEF Migrating, AfterSave
<1>6. CASE Saving(p)
  <2>1. CASE CallSave(p, flow[p].new) /\ UNCHANGED flow
    BY <1>0, <1>6, <2>1, OrderlyCall DEF Saving
  <2>2. CASE Returned(p) /\ \E at \in {"done", "undo", "error"} : To(p, at)
    BY <1>6, <2>2, OrderlyReturn DEF Saving
  <2> QED BY <1>6, <2>1, <2>2 DEF Saving, AfterSave
<1>7. CASE SavingMode(p)
  <2>1. flow[p].op = "mode" /\ flow[p].at = "saving"
    BY <1>7 DEF SavingMode
  <2>2. ASSUME NEW m \in Modes, CallSave(p, [Normal(seen[p]) EXCEPT !.mode = m]), UNCHANGED flow
        PROVE  Orderly(p)'
    <3>1. /\ [Normal(seen[p]) EXCEPT !.mode = m] \in Settings
          /\ Normal([Normal(seen[p]) EXCEPT !.mode = m]).auto = Normal(seen[p]).auto
      BY <1>0, NormalAuto, SettingsAssumption
    <3> QED BY <2>1, <2>2, <3>1, OrderlyCall
  <2>3. CASE Returned(p) /\ \E at \in {"start", "done", "error"} : To(p, at)
    BY <2>1, <2>3, OrderlyReturn
  <2> QED BY <1>7, <2>2, <2>3 DEF SavingMode, AfterSave
<1>8. CASE Report(p)
  <2>1. /\ save[p].at = "idle" /\ ~save[p].ok /\ ~save[p].wrote
    BY <1>0, <1>8 DEF Report, Orderly
  <2>2. save'[p] = save[p] \/ save'[p] = NoSave
    BY <1>8 DEF Report, Load, Ends, LInv, LocalTypeOK, TypeOK
  <2>3. flow'[p].op \in {"none", "boot"} /\ flow'[p].at \in {"off", "ready"}
    <3> DEFINE ready == [NoFlow EXCEPT !.op = "boot", !.at = "ready"]
    <3>1. flow' = [flow EXCEPT ![p] = ready] \/ flow' = [flow EXCEPT ![p] = NoFlow]
      BY <1>8 DEF Report
    <3>2. ready.op = "boot" /\ ready.at = "ready" /\ NoFlow.op = "none" /\ NoFlow.at = "off"
      BY DEF NoFlow
    <3> HIDE DEF ready
    <3> QED BY <3>1, <3>2 DEF LInv, LocalTypeOK
  <2> QED BY <2>1, <2>2, <2>3 DEF Orderly, NoSave, Unwritten, Writing
<1>9. CASE SaveStep(p) /\ UNCHANGED <<journalLeft, scheduler, flow>>
  BY <1>9, OrderlySave
<1> QED BY <1>1, <1>2, <1>3, <1>4, <1>5, <1>6, <1>7, <1>8, <1>9 DEF Step

(* Only the replacement of the file can change auto_start, and only that   *)
(* of the desktop's transaction does.                                      *)
LEMMA AutoStays ==
  ASSUME LInv, IInv, NEW p \in Procs, Orderly(p),
         SaveStep(p) \/ Load(p) \/ Returned(p) \/ Ends(p) \/ StepFails(p) \/ UNCHANGED storeVars
           \/ \E v \in Settings : CallSave(p, v),
         ~(Replace(p) /\ flow[p].op = "save")
  PROVE  AutoStart' = AutoStart
<1>1. CASE UNCHANGED disk
  BY <1>1 DEF AutoStart
<1>2. CASE Replace(p)
  <2>1. disk = seen[p] /\ save[p].at = "replace" /\ disk' = save[p].new
    BY <1>2 DEF Replace, IInv, SaveInv, Writing
  <2>2. Normal(save[p].new).auto = Normal(seen[p]).auto
    BY <1>2, <2>1 DEF Orderly, Unwritten, Writing
  <2> QED BY <2>1, <2>2 DEF AutoStart
<1> QED BY <1>1, <1>2 DEF SaveStep, Load, Returned, Ends, CallSave, CreateLock, Compare, WriteBackup,
           Rotate, ReadBack, Unlock, StepFails, storeVars

(* Steps that change nothing of the desktop's transaction. *)
LEMMA TaskStutter ==
  ASSUME TaskInv, AutoStart' = AutoStart, task' = task,
         flow'[Desktop] = flow[Desktop], save'[Desktop] = save[Desktop],
         seen'[Desktop] = seen[Desktop]
  PROVE  TaskInv'
BY DEF TaskInv, Ours, Is, Committing, Untouched, Wanted

(* The desktop goes on where the task and the settings agree. *)
LEMMA TaskAgrees ==
  ASSUME Ours' = AutoStart', task' # "foreign",
         flow'[Desktop].op # "save" \/ flow'[Desktop].at \in {"query", "undo_start", "done", "error", "broken"}
  PROVE  TaskInv'
BY DEF TaskInv, Is

(* A step of the save of the transaction. *)
LEMMA TaskSaves ==
  ASSUME LInv, IInv, Orderly(Desktop), TaskInv, UNCHANGED <<flow, task>>,
         Is(Desktop, "save", "saving"),
         SaveStep(Desktop) \/ StepFails(Desktop)
  PROVE  TaskInv'
<1> DEFINE d == Desktop
<1> USE DesktopAssumption
<1>1. /\ save \in [Procs -> [at : Locked \cup {"idle", "lock", "saved", "failed"}, new : Contents,
                             ok : BOOLEAN, wrote : BOOLEAN]]
      /\ flow[d].new \in Settings /\ seen \in [Procs -> Contents]
  BY DEF LInv, LocalTypeOK, TypeOK, EditInv, Is
<1>2. Committing(d) /\ task # "foreign"
  BY DEF TaskInv
<1>3. SUFFICES Committing(d)'
  BY <1>2 DEF TaskInv, Is
<1>4. ASSUME UNCHANGED <<disk, seen>>, save'[d].wrote = save[d].wrote, save'[d].ok = save[d].ok,
             save'[d].at # "readback" \/ Ours = AutoStart
      PROVE  Committing(d)'
  BY <1>2, <1>4 DEF Committing, Untouched, Wanted, Ours, AutoStart
<1>5. CASE CreateLock(d) \/ WriteBackup(d) \/ Rotate(d) \/ Unlock(d) \/ StepFails(d)
  BY <1>1, <1>4, <1>5 DEF CreateLock, WriteBackup, Rotate, Unlock, StepFails, Goto
<1>6. CASE Compare(d)
  <2>1. UNCHANGED <<disk, seen>> /\ save'[d].wrote = save[d].wrote /\ save'[d].ok = save[d].ok
    BY <1>1, <1>6 DEF Compare, Goto
  <2>2. CASE save'[d].at # "readback"
    BY <1>4, <2>1, <2>2
  <2>3. CASE save'[d].at = "readback"
    <3>1. disk = seen[d] /\ save[d].new = disk /\ save[d].new = flow[d].new
      BY <1>1, <1>6, <2>3 DEF Compare, Goto, Orderly, Is
    <3>2. AutoStart = Wanted(d)
      BY <1>1, <3>1, NormalAuto DEF AutoStart, Wanted, Contents
    <3>3. ~save[d].ok /\ ~save[d].wrote
      BY <1>6 DEF Compare, Orderly, Unwritten
    <3>4. Ours = AutoStart
      BY <1>2, <3>2, <3>3 DEF Committing, Untouched
    <3> QED BY <1>4, <2>1, <3>4
  <2> QED BY <2>2, <2>3
<1>7. CASE Replace(d)
  <2>1. /\ disk = seen[d] /\ disk' = flow[d].new /\ UNCHANGED seen
        /\ save'[d].wrote = TRUE /\ ~save[d].ok /\ ~save[d].wrote
    BY <1>1, <1>7 DEF Replace, Orderly, Is, Unwritten, Writing, IInv, SaveInv
  <2>2. AutoStart' = Wanted(d)
    BY <1>1, <2>1, NormalAuto DEF AutoStart, Wanted, Contents
  <2>3. Untouched(d) => Ours = Wanted(d)
    <3>1. AutoStart = Normal(seen[d]).auto
      BY <2>1 DEF AutoStart
    <3>2. Wanted(d) \in BOOLEAN /\ Normal(seen[d]).auto \in BOOLEAN
      BY <1>1, NormalAuto DEF Wanted, Contents
    <3>3. Untouched(d) => Wanted(d) = FALSE /\ Normal(seen[d]).auto = FALSE
      BY <3>2 DEF Untouched
    <3> QED BY <3>1, <3>3 DEF Untouched
  <2>4. Ours' = AutoStart'
    BY <1>2, <2>1, <2>2, <2>3 DEF Committing, Ours
  <2> QED BY <2>1, <2>4 DEF Committing
<1>8. CASE ReadBack(d)
  <2>1. UNCHANGED disk /\ save'[d].ok = TRUE /\ save[d].at = "readback"
    BY <1>1, <1>8 DEF ReadBack
  <2>2. Ours' = AutoStart'
    BY <1>2, <2>1 DEF Committing, Ours, AutoStart
  <2> QED BY <2>1, <2>2 DEF Committing
<1> QED BY <1>5, <1>6, <1>7, <1>8 DEF SaveStep

(* The transaction: what the task is while it is being carried out. *)
LEMMA TaskTransaction ==
  ASSUME LInv, IInv, Orderly(Desktop), TaskInv, flow[Desktop].op = "save", Step(Desktop)
  PROVE  torn' \/ TaskInv'
<1> DEFINE d == Desktop
<1> USE DesktopAssumption DEF storeVars
<1>1. /\ flow \in [Procs -> Flows] /\ flow[d].at \in SavePlaces
      /\ torn \in BOOLEAN /\ task \in {"none", "ours", "foreign"}
      /\ seen \in [Procs -> Contents]
  BY DEF LInv, LocalTypeOK, TypeOK, Flows, Orderly
<1>2. task # "foreign" /\ AutoStart \in BOOLEAN /\ Ours \in BOOLEAN
  BY NormalAuto DEF TaskInv, LInv, LocalTypeOK, TypeOK, AutoStart, Ours
<1>3. CASE Query(d)
  <2>1. Ours = AutoStart /\ UNCHANGED <<disk, task>>
    BY <1>3 DEF TaskInv, Query, Is, scheduler
  <2>2. Ours' = Ours /\ AutoStart' = AutoStart
    BY <2>1 DEF Ours, AutoStart
  <2>3. CASE ~Wanted(d) /\ ~Normal(seen[d]).auto
    <3>1. /\ flow'[d].op = "save" /\ flow'[d].at = "saving" /\ flow'[d].new = flow[d].new
          /\ flow'[d].had = flow[d].had /\ flow'[d].was = flow[d].was /\ UNCHANGED <<save, seen>>
      BY <1>1, <1>3, <2>3 DEF Query, To, Flows
    <3>2. save[d].at = "idle" /\ ~save[d].ok /\ ~save[d].wrote
      BY <1>3 DEF Query, Is, Orderly
    <3>3. ~flow[d].had /\ ~flow[d].was
      BY <1>3 DEF Orderly, Query, Is
    <3>4. Committing(d)'
      BY <2>1, <2>2, <2>3, <3>1, <3>2, <3>3 DEF Committing, Untouched, Wanted
    <3> QED BY <1>2, <2>1, <3>1, <3>4 DEF TaskInv, Is
  <2>4. CASE ~(~Wanted(d) /\ ~Normal(seen[d]).auto)
    <3> DEFINE had == task # "none"
               was == ~Wanted(d) /\ background # "off"
               at == IF task = "foreign" \/ (was /\ ~had) THEN "error" ELSE IF was THEN "stop" ELSE "task"
    <3>1. flow' = [flow EXCEPT ![d].had = had, ![d].was = was, ![d].at = at]
      BY <1>3, <2>4 DEF Query
    <3>2. had = Ours
      BY <1>1, <1>2 DEF Ours
    <3>3. at \in {"error", "stop", "task"}
      OBVIOUS
    <3> HIDE DEF had, was, at
    <3>4. flow'[d].had = had /\ flow'[d].at = at /\ flow'[d].op = "save"
      BY <1>1, <3>1 DEF Flows
    <3> QED BY <1>2, <2>1, <2>2, <3>2, <3>3, <3>4 DEF TaskInv, Is
  <2> QED BY <2>3, <2>4
<1>4. CASE Stop(d) \/ Stopping(d)
  <2>1. /\ Ours = AutoStart /\ flow[d].had = Ours /\ UNCHANGED <<disk, task>>
        /\ \E at \in {"task", "undo", "stopping"} : To(d, at)
    BY <1>4 DEF TaskInv, Stop, Stopping, EndTask, At, scheduler
  <2>2. Ours' = Ours /\ AutoStart' = AutoStart
    BY <2>1 DEF Ours, AutoStart
  <2>3. /\ flow'[d].had = flow[d].had /\ flow'[d].op = "save"
        /\ flow'[d].at \in {"task", "undo", "stopping"}
    BY <1>1, <2>1 DEF To, Flows
  <2> QED BY <1>2, <2>1, <2>2, <2>3 DEF TaskInv, Is
<1>5. CASE ChangeTask(d)
  <2>1. Ours = AutoStart /\ flow[d].had = Ours /\ UNCHANGED <<disk, save>>
    BY <1>5 DEF TaskInv, ChangeTask, At
  <2>2. AutoStart' = AutoStart /\ save[d].at = "idle" /\ ~save[d].ok /\ ~save[d].wrote
    BY <1>5, <2>1 DEF AutoStart, ChangeTask, At, Orderly
  <2>3. ASSUME Ours' = Wanted(d), task' # "foreign", To(d, "saving") PROVE TaskInv'
    <3>1. /\ flow'[d].had = flow[d].had /\ flow'[d].op = "save" /\ flow'[d].new = flow[d].new
          /\ flow'[d].at = "saving"
      BY <1>1, <2>3 DEF To, Flows
    <3>2. Committing(d)'
      BY <2>1, <2>2, <2>3, <3>1 DEF Committing, Wanted
    <3> QED BY <2>3, <3>1, <3>2 DEF TaskInv, Is
  <2>4. ASSUME UNCHANGED task, To(d, "undo") PROVE TaskInv'
    <3>1. flow'[d].had = flow[d].had /\ flow'[d].op = "save" /\ flow'[d].at = "undo"
      BY <1>1, <2>4 DEF To, Flows
    <3> QED BY <1>2, <2>1, <2>2, <2>4, <3>1 DEF TaskInv, Is
  <2>5. Wanted(d) \in BOOLEAN /\ flow[d].had \in BOOLEAN
    BY <1>1, NormalAuto DEF Wanted, Flows, LInv, EditInv, Contents
  <2>6. CASE Changed(d)
    <3>1. CASE task = TaskFor(Wanted(d)) /\ To(d, "saving") /\ UNCHANGED task
      <4>1. Ours' = Wanted(d)
        BY <2>5, <3>1 DEF TaskFor, Ours
      <4> QED BY <1>2, <2>3, <3>1, <4>1
    <3>2. CASE task' = TaskFor(Wanted(d)) /\ To(d, "saving")
      <4>1. Ours' = Wanted(d) /\ task' # "foreign"
        BY <2>5, <3>2 DEF TaskFor, Ours
      <4> QED BY <2>3, <3>2, <4>1
    <3>3. CASE To(d, "undo") /\ UNCHANGED task
      BY <2>4, <3>3
    <3> QED BY <1>5, <2>6, <3>1, <3>2, <3>3 DEF ChangeTask, SetTask
  <2>7. CASE ~Changed(d)
    <3>1. To(d, "saving") /\ UNCHANGED task
      BY <1>5, <2>7 DEF ChangeTask
    <3>2. Ours' = Wanted(d)
      BY <2>1, <2>7, <3>1 DEF Changed, Ours
    <3> QED BY <1>2, <2>3, <3>1, <3>2
  <2> QED BY <2>6, <2>7
<1>7. CASE Saving(d)
  <2>1. Committing(d) /\ UNCHANGED <<disk, task>>
    BY <1>7 DEF Saving, TaskInv, CallSave, AfterSave, Returned
  <2>2. Ours' = Ours /\ AutoStart' = AutoStart
    BY <2>1 DEF Ours, AutoStart
  <2>3. CASE CallSave(d, flow[d].new) /\ UNCHANGED flow
    <3>1. /\ save[d].at = "idle" /\ ~save[d].ok /\ ~save[d].wrote /\ UNCHANGED seen
          /\ ~save'[d].ok /\ ~save'[d].wrote /\ save'[d].at = "lock"
      BY <2>3 DEF CallSave, NoSave, Orderly, LInv, LocalTypeOK, TypeOK
    <3>2. Committing(d)'
      BY <2>1, <2>2, <2>3, <3>1 DEF Committing, Untouched, Wanted
    <3> QED BY <1>2, <1>7, <2>1, <2>3, <3>2 DEF TaskInv, Saving, Is
  <2>4. CASE Returned(d) /\ save[d].at = "saved" /\ To(d, "done")
    <3>1. Ours = AutoStart
      BY <2>1, <2>4 DEF Committing, Orderly
    <3>2. flow'[d].at = "done"
      BY <1>1, <2>4 DEF To, Flows
    <3> QED BY <1>2, <2>1, <2>2, <3>1, <3>2, TaskAgrees
  <2>5. CASE /\ Returned(d) /\ save[d].at = "failed"
             /\ To(d, IF Changed(d) \/ flow[d].was THEN "undo" ELSE "error")
             /\ torn' = (torn \/ (save[d].at = "failed" /\ save[d].wrote))
    <3>1. CASE save[d].wrote
      BY <2>5, <3>1
    <3>2. CASE ~save[d].wrote
      <4>1. Untouched(d) \/ (Ours = Wanted(d) /\ flow[d].had = AutoStart)
        BY <2>1, <2>5, <3>2 DEF Committing, Orderly
      <4>2. CASE Changed(d) \/ flow[d].was
        <5>1. ~Untouched(d)
          <6>1. Wanted(d) \in BOOLEAN /\ flow[d].had \in BOOLEAN
            BY <1>1, NormalAuto DEF Wanted, Flows, LInv, EditInv, Contents
          <6>2. Untouched(d) => Wanted(d) = FALSE /\ flow[d].had = FALSE /\ ~flow[d].was
            BY <6>1 DEF Untouched
          <6> QED BY <4>2, <6>2 DEF Changed
        <5>2. flow'[d].at = "undo" /\ flow'[d].op = "save" /\ flow'[d].had = flow[d].had
          BY <1>1, <2>5, <4>2 DEF To, Flows
        <5> QED BY <1>2, <2>1, <2>2, <4>1, <5>1, <5>2 DEF TaskInv, Is
      <4>3. CASE ~(Changed(d) \/ flow[d].was)
        <5>1. Ours = AutoStart
          BY <4>1, <4>3 DEF Untouched, Changed
        <5>2. flow'[d].at = "error"
          BY <1>1, <2>5, <4>3 DEF To, Flows
        <5> QED BY <1>2, <2>1, <2>2, <5>1, <5>2, TaskAgrees
      <4> QED BY <4>2, <4>3
    <3> QED BY <3>1, <3>2
  <2> QED BY <1>7, <2>3, <2>4, <2>5 DEF Saving, AfterSave, Returned
<1>8. CASE Undo(d)
  <2>1. flow[d].had = AutoStart /\ AutoStart' = AutoStart
    BY <1>8 DEF TaskInv, Undo, Is, At, AutoStart
  <2>2. CASE \E at \in {"undo_start", "error"} : To(d, at) /\ task' = TaskFor(flow[d].had)
    <3>1. Ours' = AutoStart' /\ task' # "foreign"
      BY <1>2, <2>1, <2>2 DEF Ours, TaskFor
    <3>2. flow'[d].at \in {"undo_start", "error"}
      BY <1>1, <2>2 DEF To, Flows
    <3> QED BY <3>1, <3>2, TaskAgrees
  <2>3. CASE To(d, "broken") /\ UNCHANGED task
    <3>1. flow'[d].at = "broken" /\ flow'[d].op = "save"
      BY <1>1, <2>3 DEF To, Flows
    <3> QED BY <1>2, <2>3, <3>1 DEF TaskInv, Is
  <2> QED BY <1>2, <1>8, <2>2, <2>3 DEF Undo, SetTask
<1>9. CASE UndoStart(d)
  <2>1. UNCHANGED <<disk, task>> /\ Ours = AutoStart /\ \E at \in {"error", "broken"} : To(d, at)
    BY <1>9 DEF TaskInv, UndoStart, RunTask, At
  <2>2. flow'[d].at \in {"error", "broken"} /\ Ours' = AutoStart'
    BY <1>1, <2>1 DEF To, Flows, Ours, AutoStart
  <2> QED BY <1>2, <2>1, <2>2, TaskAgrees
<1>10. CASE Report(d)
  <2>1. CASE At(d, "broken")
    BY <1>10, <2>1 DEF Report
  <2>2. CASE ~At(d, "broken")
    <3>1. Ours = AutoStart /\ UNCHANGED <<disk, task>>
      BY <1>10, <2>2 DEF Report, TaskInv, At, Load, Ends
    <3>2. flow'[d].op # "save"
      <4> DEFINE ready == [NoFlow EXCEPT !.op = "boot", !.at = "ready"]
      <4>1. flow' = [flow EXCEPT ![d] = ready] \/ flow' = [flow EXCEPT ![d] = NoFlow]
        BY <1>10 DEF Report
      <4>2. ready.op = "boot" /\ NoFlow.op = "none"
        BY DEF NoFlow
      <4> HIDE DEF ready
      <4> QED BY <1>1, <4>1, <4>2
    <3>3. Ours' = AutoStart'
      BY <3>1 DEF Ours, AutoStart
    <3> QED BY <1>2, <3>1, <3>2, <3>3, TaskAgrees
  <2> QED BY <2>1, <2>2
<1>11. CASE SaveStep(d) /\ UNCHANGED <<journalLeft, scheduler, flow>>
  <2>1. save[d].at # "idle"
    BY <1>11 DEF SaveStep, CreateLock, Compare, WriteBackup, Rotate, Replace, ReadBack, Unlock
  <2>2. Is(d, "save", "saving")
    BY <1>1, <2>1 DEF Orderly, Is, SavePlaces
  <2> QED BY <1>11, <2>2, TaskSaves DEF scheduler
<1>12. ~(LoadSettings(d) \/ Recover(d) \/ Retire(d) \/ Retiring(d) \/ Migrate(d) \/ Migrating(d)
         \/ QueryMode(d) \/ SavingMode(d) \/ StartAgain(d))
  BY <1>1 DEF LoadSettings, Recover, Retire, Retiring, Migrate, Migrating, QueryMode, SavingMode,
              StartAgain, At, Is, SavePlaces
<1> QED BY <1>3, <1>4, <1>5, <1>7, <1>8, <1>9, <1>10, <1>11, <1>12 DEF Step

(* A step of a program that is not a transaction leaves the task alone.    *)
LEMMA OtherPrograms ==
  ASSUME LInv, IInv, NEW p \in Procs, Orderly(p), Step(p), flow[p].op # "save"
  PROVE  /\ task' = task /\ AutoStart' = AutoStart /\ flow'[p].op # "save"
         /\ torn => torn'
<1>1. flow[p].at \notin {"task", "undo", "undo_start"}
  BY DEF Orderly
<1>2. ~(ChangeTask(p) \/ Undo(p) \/ UndoStart(p) \/ Query(p) \/ Saving(p))
  BY <1>1 DEF ChangeTask, Undo, UndoStart, Query, Saving, At, Is
<1>3. task' = task /\ (torn => torn')
  <2>1. CASE Report(p)
    BY <2>1 DEF Report
  <2>2. CASE ~Report(p)
    BY <1>2, <2>2 DEF Step, LoadSettings, Recover, Retire, Retiring, Migrate, Migrating, Stop,
                      Stopping, QueryMode, SavingMode, StartAgain, scheduler
  <2> QED BY <2>1, <2>2
<1>4. \/ SaveStep(p) \/ Load(p) \/ Returned(p) \/ Ends(p) \/ UNCHANGED storeVars
      \/ \E v \in Settings : CallSave(p, v)
  <2>1. seen[p] \in Contents
    BY DEF LInv, LocalTypeOK, TypeOK
  <2>2. /\ Normal(seen[p]) \in Settings
        /\ \A m \in Modes : [Normal(seen[p]) EXCEPT !.mode = m] \in Settings
    BY <2>1, SettingsAssumption
  <2> QED BY <1>2, <2>2 DEF Step, LoadSettings, Recover, Retire, Retiring, Migrate, Migrating, Stop,
              Stopping, Report, QueryMode, SavingMode, StartAgain, AfterSave
<1>5. AutoStart' = AutoStart
  BY <1>4, AutoStays
<1>6. flow'[p].op # "save"
  <2>1. flow \in [Procs -> Flows]
    BY DEF LInv, LocalTypeOK, Flows
  <2>2. CASE UNCHANGED flow \/ \E at \in Places : To(p, at)
    BY <2>1, <2>2 DEF To, Flows
  <2>3. CASE QueryMode(p)
    BY <2>1, <2>3 DEF QueryMode, Flows
  <2>4. CASE Report(p)
    <3> DEFINE ready == [NoFlow EXCEPT !.op = "boot", !.at = "ready"]
    <3>1. flow' = [flow EXCEPT ![p] = ready] \/ flow' = [flow EXCEPT ![p] = NoFlow]
      BY <2>4 DEF Report
    <3>2. ready.op = "boot" /\ NoFlow.op = "none"
      BY DEF NoFlow
    <3> HIDE DEF ready
    <3> QED BY <2>1, <3>1, <3>2
  <2>5. CASE LoadSettings(p) \/ Recover(p) \/ Retire(p) \/ Retiring(p) \/ Migrate(p) \/ Migrating(p)
    BY <2>2, <2>5 DEF LoadSettings, Recover, Retire, Retiring, Migrate, Migrating, AfterSave, Places
  <2>6. CASE Stop(p) \/ Stopping(p) \/ SavingMode(p) \/ StartAgain(p)
    BY <2>2, <2>6 DEF Stop, EndTask, Stopping, SavingMode, StartAgain, RunTask, AfterSave, Places
  <2>7. CASE SaveStep(p) /\ UNCHANGED <<journalLeft, scheduler, flow>>
    BY <2>2, <2>7
  <2> QED BY <1>2, <2>3, <2>4, <2>5, <2>6, <2>7 DEF Step
<1> QED BY <1>3, <1>5, <1>6

(* A program that has ended, or is not in a save, is in order. *)
LEMMA OrderlyAgain ==
  ASSUME NEW p \in Procs, save'[p].at = "idle", ~save'[p].ok, ~save'[p].wrote,
         \/ flow'[p].op # "save" /\ flow'[p].at \in {"off", "load"}
         \/ /\ p = Desktop /\ flow'[p].op = "save" /\ flow'[p].at = "query"
            /\ ~flow'[p].had /\ ~flow'[p].was
  PROVE  Orderly(p)'
BY DEF Orderly, Is, SavePlaces, Unwritten, Writing

(* Every step keeps the programs in order, and the task with the settings  *)
(* unless a death, a failure or the user comes between.                    *)
LEMMA AutoStep == LInv /\ IInv /\ AutoInv /\ [Next]_vars => AutoInv'
<1> SUFFICES ASSUME LInv, IInv, AutoInv, [Next]_vars PROVE AutoInv'
  OBVIOUS
<1> USE DesktopAssumption
<1>1. /\ \A p \in Procs : Orderly(p)
      /\ torn \/ TaskInv
      /\ flow \in [Procs -> Flows] /\ torn \in BOOLEAN
      /\ save \in [Procs -> [at : Locked \cup {"idle", "lock", "saved", "failed"}, new : Contents,
                             ok : BOOLEAN, wrote : BOOLEAN]]
      /\ seen \in [Procs -> Contents]
  BY DEF AutoInv, LInv, LocalTypeOK, TypeOK, Flows
<1>2. ASSUME NEW p \in Procs, flow'[p] = flow[p], save'[p] = save[p], seen'[p] = seen[p]
      PROVE  Orderly(p)'
  BY <1>1, <1>2 DEF Orderly, Is
<1>3. TaskInv /\ flow[Desktop].op # "save" => Ours = AutoStart /\ task # "foreign"
  BY DEF TaskInv
<1>4. ASSUME NEW p \in Procs, Step(p) PROVE AutoInv'
  <2>1. \A q \in Procs : Orderly(q)'
    <3> SUFFICES ASSUME NEW q \in Procs PROVE Orderly(q)'
      OBVIOUS
    <3>1. CASE q = p
      BY <1>1, <1>4, <3>1, OrderlyStep
    <3>2. CASE q # p
      BY <1>2, <1>4, <3>2, OthersStay
    <3> QED BY <3>1, <3>2
  <2>2. CASE flow[p].op = "save"
    <3>1. p = Desktop
      BY <1>1, <2>2 DEF Orderly
    <3>2. torn => torn'
      BY <1>4 DEF Step, LoadSettings, Recover, Retire, Retiring, Migrate, Migrating, Query, Stop,
                  Stopping, ChangeTask, Saving, Undo, UndoStart, Report, QueryMode, SavingMode,
                  StartAgain, scheduler
    <3>3. TaskInv => torn' \/ TaskInv'
      BY <1>1, <1>4, <2>2, <3>1, TaskTransaction
    <3> QED BY <1>1, <2>1, <3>2, <3>3 DEF AutoInv
  <2>3. CASE flow[p].op # "save"
    <3>1. task' = task /\ AutoStart' = AutoStart /\ flow'[p].op # "save" /\ (torn => torn')
      BY <1>1, <1>4, <2>3, OtherPrograms
    <3>2. CASE p = Desktop
      <4>1. TaskInv => Ours' = AutoStart' /\ task' # "foreign"
        BY <1>3, <2>3, <3>1, <3>2 DEF Ours
      <4>2. TaskInv => TaskInv'
        BY <3>1, <3>2, <4>1, TaskAgrees
      <4> QED BY <1>1, <2>1, <3>1, <4>2 DEF AutoInv
    <3>3. CASE p # Desktop
      <4>1. TaskInv => TaskInv'
        BY <1>4, <3>1, <3>3, OthersStay, TaskStutter
      <4> QED BY <1>1, <2>1, <3>1, <4>1 DEF AutoInv
    <3> QED BY <3>2, <3>3
  <2> QED BY <2>2, <2>3
<1>5. ASSUME NEW p \in Procs, NEW f, flow' = [flow EXCEPT ![p] = f], UNCHANGED <<disk, task, torn>>,
             save' = save \/ save' = [save EXCEPT ![p] = NoSave],
             \A q \in Procs : q # p => seen'[q] = seen[q],
             flow[p].op # "save", Orderly(p)',
             f.op # "save" \/ (p = Desktop /\ f.at = "query")
      PROVE  AutoInv'
  <2>1. \A q \in Procs : q # p => flow'[q] = flow[q] /\ save'[q] = save[q] /\ seen'[q] = seen[q]
    BY <1>1, <1>5
  <2>2. \A q \in Procs : Orderly(q)'
    BY <1>2, <1>5, <2>1
  <2>3. AutoStart' = AutoStart /\ Ours' = Ours
    BY <1>5 DEF AutoStart, Ours
  <2>4. CASE p = Desktop
    <3>1. flow'[Desktop] = f
      BY <1>1, <1>5, <2>4
    <3>2. TaskInv => TaskInv'
      BY <1>3, <1>5, <2>3, <2>4, <3>1, TaskAgrees
    <3> QED BY <1>1, <1>5, <2>2, <3>2 DEF AutoInv
  <2>5. CASE p # Desktop
    <3>1. TaskInv => TaskInv'
      BY <1>5, <2>1, <2>3, <2>5, TaskStutter
    <3> QED BY <1>1, <1>5, <2>2, <3>1 DEF AutoInv
  <2> QED BY <2>4, <2>5
<1>6. CASE Fault
  <2>1. ASSUME NEW p \in Procs, Dies(p) PROVE AutoInv'
    <3>1. /\ flow' = [flow EXCEPT ![p] = NoFlow] /\ save' = [save EXCEPT ![p] = NoSave]
          /\ seen' = [seen EXCEPT ![p] = NoFile] /\ UNCHANGED <<disk, task>>
          /\ torn' = (torn \/ flow[p].op = "save")
      BY <2>1 DEF Dies, Ends
    <3>2. Orderly(p)'
      BY <1>1, <3>1, EmptyFlow, OrderlyAgain DEF NoSave
    <3>3. \A q \in Procs : q # p => seen'[q] = seen[q] /\ flow'[q] = flow[q] /\ save'[q] = save[q]
      BY <1>1, <3>1
    <3>4. CASE flow[p].op = "save"
      <4>1. torn'
        BY <3>1, <3>4
      <4>2. \A q \in Procs : Orderly(q)'
        BY <1>2, <3>2, <3>3
      <4> QED BY <4>1, <4>2 DEF AutoInv
    <3>5. CASE flow[p].op # "save"
      BY <1>1, <1>5, <3>1, <3>2, <3>3, <3>5, EmptyFlow
    <3> QED BY <3>4, <3>5
  <2>2. ASSUME NEW p \in Procs, StepFails(p), UNCHANGED <<journalLeft, scheduler, flow>> PROVE AutoInv'
    <3>1. /\ UNCHANGED <<disk, task, torn, seen, flow>>
          /\ \A q \in Procs : q # p => save'[q] = save[q]
          /\ save[p].at # "idle"
      BY <1>1, <2>2 DEF StepFails, Goto, scheduler, Writing
    <3>2. Orderly(p)'
      BY <1>1, <2>2, OrderlySave
    <3>3. \A q \in Procs : Orderly(q)'
      BY <1>2, <3>1, <3>2
    <3>4. AutoStart' = AutoStart /\ Ours' = Ours
      BY <3>1 DEF AutoStart, Ours
    <3>5. TaskInv => TaskInv'
      <4>1. CASE p # Desktop
        BY <3>1, <3>4, <4>1, TaskStutter
      <4>2. CASE p = Desktop /\ flow[p].op = "save"
        <5>1. Is(Desktop, "save", "saving")
          BY <1>1, <3>1, <4>2 DEF Orderly, SavePlaces, Is
        <5> QED BY <1>1, <2>2, <3>1, <4>2, <5>1, TaskSaves
      <4>3. CASE p = Desktop /\ flow[p].op # "save"
        BY <1>3, <3>1, <3>4, <4>3, TaskAgrees
      <4> QED BY <4>1, <4>2, <4>3
    <3> QED BY <1>1, <3>1, <3>3, <3>5 DEF AutoInv
  <2>3. CASE Tamper
    BY <1>2, <2>3 DEF Tamper, AutoInv, storeVars
  <2> QED BY <1>6, <2>1, <2>2, <2>3 DEF Fault
<1>7. ASSUME NEW p \in Procs, Start(p) PROVE AutoInv'
  <2>1. PICK op \in {"boot", "mode", "run"} :
          flow' = [flow EXCEPT ![p] = [NoFlow EXCEPT !.op = op, !.at = "load"]]
    BY <1>7 DEF Start
  <2> DEFINE f == [NoFlow EXCEPT !.op = op, !.at = "load"]
  <2>2. f.op = op /\ f.at = "load"
    BY DEF NoFlow
  <2> HIDE DEF f
  <2>3. flow[p].at = "off" /\ flow' = [flow EXCEPT ![p] = f] /\ UNCHANGED <<disk, task, torn, save, seen>>
    BY <1>7, <2>1 DEF Start, At, f, scheduler, storeVars
  <2>4. flow[p].op # "save" /\ save[p].at = "idle" /\ ~save[p].ok /\ ~save[p].wrote
    BY <1>1, <2>3 DEF Orderly, SavePlaces
  <2>5. Orderly(p)'
    BY <1>1, <2>2, <2>3, <2>4, OrderlyAgain
  <2> QED BY <1>5, <2>2, <2>3, <2>4, <2>5
<1>8. ASSUME NEW auto \in BOOLEAN, Edit(auto) PROVE AutoInv'
  <2> DEFINE new == [Normal(seen[Desktop]) EXCEPT !.auto = auto]
  <2> HIDE DEF new
  <2> DEFINE f == [NoFlow EXCEPT !.op = "save", !.at = "query", !.new = new]
  <2>1. /\ flow[Desktop].at = "ready" /\ flow' = [flow EXCEPT ![Desktop] = f]
        /\ UNCHANGED <<disk, task, torn, save, seen>>
    BY <1>8 DEF Edit, At, new, scheduler, storeVars
  <2>2. f.op = "save" /\ f.at = "query" /\ ~f.had /\ ~f.was
    BY DEF NoFlow
  <2> HIDE DEF f
  <2>3. /\ flow[Desktop].op # "save" /\ save[Desktop].at = "idle"
        /\ ~save[Desktop].ok /\ ~save[Desktop].wrote
    BY <1>1, <2>1 DEF Orderly, SavePlaces
  <2>4. Orderly(Desktop)'
    BY <1>1, <2>1, <2>2, <2>3, OrderlyAgain
  <2> QED BY <1>5, <2>1, <2>2, <2>3, <2>4
<1>9. CASE UNCHANGED <<disk, task, torn, save, seen, flow>>
  <2>1. AutoStart' = AutoStart
    BY <1>9 DEF AutoStart
  <2> QED BY <1>1, <1>2, <1>9, <2>1, TaskStutter DEF AutoInv
<1>10. BackgroundEnds \/ (RemoveStaleLock /\ UNCHANGED <<journalLeft, scheduler, flow>>) \/ UNCHANGED vars
        => UNCHANGED <<disk, task, torn, save, seen, flow>>
  BY DEF BackgroundEnds, RemoveStaleLock, vars, storeVars, scheduler
<1> QED BY <1>4, <1>6, <1>7, <1>8, <1>9, <1>10 DEF Next, User

(* The logon task exists exactly while the settings ask for it, between    *)
(* the transactions of the desktop, for any number of command lines that   *)
(* save meanwhile and any failure a transaction can undo.                  *)
THEOREM TaskFollows == Spec => []TaskMatchesSettings
<1>1. Init => AutoInv
  <2> SUFFICES ASSUME Init PROVE AutoInv
    OBVIOUS
  <2>1. \A p \in Procs : flow[p] = NoFlow /\ save[p] = NoSave
    BY DEF Init, StoreInit
  <2>2. \A p \in Procs : Orderly(p)
    <3>1. NoSave.at = "idle" /\ ~NoSave.ok /\ ~NoSave.wrote
      BY DEF NoSave
    <3> QED BY <2>1, <3>1, EmptyFlow DEF Orderly, Is, Unwritten, Writing
  <2>3. AutoStart \in BOOLEAN
    BY NormalAuto DEF Init, StoreInit, AutoStart
  <2>4. Ours = AutoStart /\ task # "foreign"
    BY <2>3 DEF Init, Ours, AutoStart
  <2>5. TaskInv
    BY <2>1, <2>4, EmptyFlow, DesktopAssumption DEF TaskInv, Is
  <2> QED BY <2>2, <2>5 DEF AutoInv
<1>2. AutoInv => TaskMatchesSettings
  BY DEF AutoInv, TaskInv, TaskMatchesSettings, Ours, AutoStart
<1>3. Spec => []IInv
  BY ImplementsStore, StoreInductive, PTL
<1> QED BY <1>1, <1>2, <1>3, AutoStep, LocalTypeCorrect, PTL DEF Spec

-----------------------------------------------------------------------------
(* PowerRecovery.                                                          *)

SuppliesClean(left) == \A s \in Supplies \ left : userMode[s] # "applied"
Clean == SuppliesClean({}) /\ active \notin Schemes /\ schemes = {}

(* How far a guard that has met no error has come. *)
GuardInv(p) ==
  ~guard[p].errors =>
    /\ guard[p].at = "supplies" => SuppliesClean(guard[p].todo)
    /\ guard[p].at \in {"scheme", "delete"} => SuppliesClean({})
    /\ guard[p].at = "delete" => active \notin Schemes /\ schemes \subseteq guard[p].todo
    /\ guard[p].at = "unlink" /\ guard[p].state => Clean

RecoveryInv == RecoveryTypeOK /\ (journal = "none" => Clean) /\ \A p \in Programs : GuardInv(p)

(* A guard that is not restoring meets the invariant trivially. *)
LEMMA NotRestoring ==
  ASSUME NEW p, guard'[p].at \in {"none", "boot", "recover", "serve", "exit"}
  PROVE  GuardInv(p)'
BY DEF GuardInv

(* restore() begins with nothing done. *)
LEMMA Begins ==
  ASSUME NEW g \in Guards, NEW for \in {"recover", "apply", "final"}
  PROVE  LET h == StartRestore(g, for)
         IN /\ h \in Guards /\ h.todo = Supplies /\ h.state = g.state
            /\ h.at = IF g.state THEN "supplies" ELSE "unlink"
BY DEF StartRestore, Guards

(* A guard that is replaced by a well-typed one leaves the others alone. *)
LEMMA GuardKept ==
  ASSUME RecoveryTypeOK, NEW p \in Programs, NEW g \in Guards, Guard(p, g)
  PROVE  /\ guard' \in [Programs -> Guards]
         /\ guard'[p] = g
         /\ \A q \in Programs \ {p} : guard'[q] = guard[q]
BY DEF RecoveryTypeOK, Guard

(* A journal that cannot be removed is an error like the others.           *)
LEMMA RefusedIs ==
  ASSUME NEW g \in Guards, NEW refused \in BOOLEAN
  PROVE  [g EXCEPT !.errors = @ \/ (refused /\ g.state)] \in Guards
BY DEF Guards

(* The steps that have nothing to do with a restoration keep the types. *)
LEMMA RecoveryTypeStep == RecoveryTypeOK /\ [RecoveryNext]_recoveryVars => RecoveryTypeOK'
<1> SUFFICES ASSUME RecoveryTypeOK, [RecoveryNext]_recoveryVars PROVE RecoveryTypeOK'
  OBVIOUS
<1> USE DEF RecoveryTypeOK, api
<1>1. ASSUME NEW p \in Programs, GuardStep(p) PROVE RecoveryTypeOK'
  <2> DEFINE g == guard[p]
  <2>0. g \in Guards
    OBVIOUS
  <2>1. CASE GuardBoots(p)
    <3>1. /\ [g EXCEPT !.at = "recover"] \in Guards
          /\ [g EXCEPT !.at = "exit", !.reply = "error"] \in Guards
      BY <2>0 DEF Guards
    <3> QED BY <2>1, <3>1, GuardKept DEF GuardBoots
  <2>2. CASE GuardRecovers(p)
    <3>1. /\ [g EXCEPT !.at = "serve", !.reply = "ok"] \in Guards
          /\ [g EXCEPT !.state = TRUE] \in Guards
          /\ [g EXCEPT !.reply = "error"] \in Guards
      BY <2>0 DEF Guards
    <3>2. /\ StartRestore([g EXCEPT !.state = TRUE], "recover") \in Guards
          /\ StartRestore([g EXCEPT !.reply = "error"], "final") \in Guards
      BY <3>1, Begins
    <3> QED BY <2>2, <3>1, <3>2, GuardKept DEF GuardRecovers
  <2>3. CASE RestoreSupply(p)
    <3>1. PICK s \in g.todo, fails \in BOOLEAN :
            /\ userMode' = IF fails \/ userMode[s] # "applied" THEN userMode
                           ELSE [userMode EXCEPT ![s] = "original"]
            /\ Guard(p, [g EXCEPT !.todo = @ \ {s}, !.errors = @ \/ fails,
                           !.at = IF guard[p].todo = {s} THEN "scheme" ELSE @])
      BY <2>3 DEF RestoreSupply
    <3>2. [g EXCEPT !.todo = @ \ {s}, !.errors = @ \/ fails,
                    !.at = IF guard[p].todo = {s} THEN "scheme" ELSE @] \in Guards
      BY <2>0 DEF Guards
    <3>3. userMode' \in [Supplies -> Chosen \cup {"applied"}]
      BY <3>1 DEF Chosen
    <3> QED BY <2>3, <3>1, <3>2, <3>3, GuardKept DEF RestoreSupply, Chosen
  <2>4. CASE RestoreScheme(p)
    <3>1. PICK fails \in BOOLEAN :
            /\ active' = IF fails \/ active \notin Schemes THEN active ELSE "original"
            /\ Guard(p, [g EXCEPT !.errors = @ \/ fails, !.todo = Schemes,
                           !.at = IF guard[p].errors \/ fails THEN "unlink" ELSE "delete"])
      BY <2>4 DEF RestoreScheme
    <3>2. [g EXCEPT !.errors = @ \/ fails, !.todo = Schemes,
                    !.at = IF guard[p].errors \/ fails THEN "unlink" ELSE "delete"] \in Guards
      BY <2>0 DEF Guards
    <3> QED BY <2>4, <3>1, <3>2, GuardKept DEF RestoreScheme, Chosen
  <2>5. CASE DeleteScheme(p)
    <3>1. PICK s \in g.todo, fails \in BOOLEAN :
            /\ schemes' = IF fails THEN schemes ELSE schemes \ {s}
            /\ Guard(p, [g EXCEPT !.todo = @ \ {s}, !.errors = @ \/ fails,
                           !.at = IF guard[p].todo = {s} THEN "unlink" ELSE @])
      BY <2>5 DEF DeleteScheme
    <3>2. [g EXCEPT !.todo = @ \ {s}, !.errors = @ \/ fails,
                    !.at = IF guard[p].todo = {s} THEN "unlink" ELSE @] \in Guards
      BY <2>0 DEF Guards
    <3> QED BY <2>5, <3>1, <3>2, GuardKept DEF DeleteScheme
  <2>6. CASE EndRestore(p)
    <3>1. PICK h \in Guards : Restored(p, h)
      BY <2>0, <2>6, RefusedIs DEF EndRestore
    <3> DEFINE good == [h EXCEPT !.state = FALSE]
    <3>2. good \in Guards /\ StartRestore(h, "final") \in Guards
      BY Begins DEF Guards
    <3>3. /\ [good EXCEPT !.at = "exit"] \in Guards
          /\ [h EXCEPT !.at = "exit", !.reply = "error"] \in Guards
          /\ [good EXCEPT !.at = "serve", !.reply = "ok"] \in Guards
          /\ [h EXCEPT !.at = "serve", !.reply = "error"] \in Guards
      <4> HIDE DEF good
      <4>1. \A k \in Guards : [k EXCEPT !.at = "exit"] \in Guards
        BY DEF Guards
      <4>2. \A k \in Guards, answer \in {"ok", "error"}, at \in {"exit", "serve"} :
              [k EXCEPT !.at = at, !.reply = answer] \in Guards
        BY DEF Guards
      <4> QED BY <3>1, <3>2, <4>1, <4>2
    <3>4. guard' \in [Programs -> Guards]
      BY <3>1, <3>2, <3>3, GuardKept DEF Restored
    <3>5. journal' \in {"none", journal}
      BY <3>1 DEF Restored
    <3> QED BY <2>6, <3>4, <3>5 DEF EndRestore
  <2>7. CASE GuardServes(p)
    <3>1. [g EXCEPT !.command = FALSE] \in Guards
      BY <2>0 DEF Guards
    <3>2. /\ StartRestore([g EXCEPT !.command = FALSE], "apply") \in Guards
          /\ StartRestore(g, "final") \in Guards
      BY <2>0, <3>1, Begins
    <3> QED BY <2>7, <3>2, GuardKept DEF GuardServes
  <2>8. CASE GuardExits(p)
    <3>1. [g EXCEPT !.at = "none", !.reply = IF @ = "none" THEN "error" ELSE @] \in Guards
      BY <2>0 DEF Guards
    <3> QED BY <2>8, <3>1, GuardKept DEF GuardExits
  <2> QED BY <1>1, <2>1, <2>2, <2>3, <2>4, <2>5, <2>6, <2>7, <2>8 DEF GuardStep
<1>2. NoGuard \in Guards
  BY DEF NoGuard, Guards
<1>3. ASSUME NEW p \in Programs,
             GuardDies(p) \/ StartGuard(p) \/ GuardEnded(p) \/ Started(p) \/ Applied(p)
               \/ TimeOut(p) \/ ClientDies(p)
      PROVE  RecoveryTypeOK'
  <2> DEFINE g == guard[p]
  <2>1. /\ [NoGuard EXCEPT !.reply = IF g.reply = "none" THEN "error" ELSE g.reply] \in Guards
        /\ [NoGuard EXCEPT !.at = "boot"] \in Guards
        /\ [g EXCEPT !.reply = "none", !.command = TRUE] \in Guards
        /\ [g EXCEPT !.reply = "none", !.eof = TRUE] \in Guards
        /\ [g EXCEPT !.eof = TRUE, !.reply = "none"] \in Guards
        /\ [g EXCEPT !.eof = TRUE] \in Guards
    BY <1>2 DEF Guards, NoGuard
  <2>2. CASE GuardDies(p)
    <3>1. PICK r \in {"none", "ok", "error"} : Guard(p, [NoGuard EXCEPT !.reply = r])
      BY <2>2 DEF GuardDies, Guards, NoGuard
    <3>2. [NoGuard EXCEPT !.reply = r] \in Guards
      BY <1>2 DEF Guards
    <3> QED BY <2>2, <3>1, <3>2, GuardKept DEF GuardDies
  <2>3. CASE StartGuard(p)
    BY <2>1, <2>3, GuardKept DEF StartGuard, Client
  <2>4. CASE GuardEnded(p)
    BY <1>2, <2>4, GuardKept DEF GuardEnded, Client
  <2>5. CASE Started(p)
    BY <2>1, <2>5, GuardKept DEF Started, Abort, Client
  <2>6. CASE Applied(p)
    BY <2>1, <2>6, GuardKept DEF Applied, Abort, Client
  <2>7. CASE TimeOut(p)
    BY <2>1, <2>7, GuardKept DEF TimeOut, Abort, Client
  <2>8. CASE ClientDies(p)
    BY <2>1, <2>8, GuardKept DEF ClientDies
  <2> QED BY <1>3, <2>2, <2>3, <2>4, <2>5, <2>6, <2>7, <2>8
<1>4. CASE UserChooses
  BY <1>4 DEF UserChooses, Chosen
<1>5. CASE OwnerEnds
  BY <1>5 DEF OwnerEnds
<1>6. CASE UNCHANGED recoveryVars
  BY <1>6 DEF recoveryVars
<1> QED BY <1>1, <1>3, <1>4, <1>5, <1>6 DEF RecoveryNext, ClientStep

(* A guard that does not run is well-typed. *)
LEMMA NoGuardType == NoGuard \in Guards
BY DEF NoGuard, Guards

(* The initial state is well-typed. *)
LEMMA InitTypes == RecoveryInit => RecoveryTypeOK
BY NoGuardType DEF RecoveryInit, RecoveryTypeOK, Chosen

(* Every variable of PowerRecovery keeps the type that RecoveryTypeOK gives it. *)
THEOREM RecoveryTypeCorrect == RecoverySpec => []RecoveryTypeOK
BY InitTypes, RecoveryTypeStep, PTL DEF RecoverySpec

(* What is restored stays so, as long as no old setting is applied again.  *)
(* It is the reason why neither the mutex of the guards nor the order of   *)
(* the programs matters to the journal.                                    *)
Restoring ==
  /\ \A s \in Supplies : userMode[s] # "applied" => userMode'[s] # "applied"
  /\ active \notin Schemes => active' \notin Schemes
  /\ schemes' \subseteq schemes

(* A restored setting stays restored, and a guard keeps what it has done.  *)
LEMMA StaysClean ==
  ASSUME Restoring
  PROVE  /\ Clean => Clean'
         /\ \A q \in Programs : guard'[q] = guard[q] /\ GuardInv(q) => GuardInv(q)'
BY DEF Restoring, Clean, SuppliesClean, GuardInv

(* Every step of the system restores, or leaves the power settings alone.  *)
LEMMA OnlyRestores == RecoveryTypeOK /\ [RecoveryNext]_recoveryVars => Restoring
<1> SUFFICES ASSUME RecoveryTypeOK, [RecoveryNext]_recoveryVars PROVE Restoring
  OBVIOUS
<1> USE DEF RecoveryTypeOK, api
<1>1. ASSUME UNCHANGED <<userMode, active, schemes>> PROVE Restoring
  BY <1>1 DEF Restoring
<1>2. ASSUME NEW p \in Programs, GuardStep(p) PROVE Restoring
  <2>1. CASE RestoreSupply(p)
    <3>1. PICK s \in guard[p].todo, fails \in BOOLEAN :
            userMode' = IF fails \/ userMode[s] # "applied" THEN userMode
                        ELSE [userMode EXCEPT ![s] = "original"]
      BY <2>1 DEF RestoreSupply
    <3> QED BY <2>1, <3>1 DEF RestoreSupply, Restoring
  <2>2. CASE RestoreScheme(p)
    BY <2>2, SchemeAssumption DEF RestoreScheme, Restoring, Chosen
  <2>3. CASE DeleteScheme(p)
    BY <2>3 DEF DeleteScheme, Restoring
  <2>4. CASE GuardBoots(p) \/ GuardRecovers(p) \/ EndRestore(p) \/ GuardServes(p) \/ GuardExits(p)
    BY <1>1, <2>4 DEF GuardBoots, GuardRecovers, EndRestore, GuardServes, GuardExits
  <2> QED BY <1>2, <2>1, <2>2, <2>3, <2>4 DEF GuardStep
<1>3. ASSUME NEW p \in Programs,
             GuardDies(p) \/ StartGuard(p) \/ ClientStep(p) \/ TimeOut(p) \/ ClientDies(p)
      PROVE  Restoring
  BY <1>1, <1>3 DEF GuardDies, StartGuard, ClientStep, GuardEnded, Started, Applied, TimeOut,
                    ClientDies
<1>4. CASE UserChooses
  BY <1>4, SchemeAssumption DEF UserChooses, Restoring, Chosen
<1>5. CASE OwnerEnds \/ UNCHANGED recoveryVars
  BY <1>1, <1>5 DEF OwnerEnds, recoveryVars
<1> QED BY <1>2, <1>3, <1>4, <1>5 DEF RecoveryNext

(* A step of a guard keeps its own part of the invariant. *)
LEMMA GuardsOwn ==
  ASSUME RecoveryTypeOK, NEW p \in Programs, GuardInv(p), Restoring, GuardStep(p)
  PROVE  GuardInv(p)'
<1> DEFINE g == guard[p]
<1>0. g \in Guards
  BY DEF RecoveryTypeOK
<1> USE DEF RecoveryTypeOK
<1>1. CASE GuardBoots(p) \/ GuardExits(p)
  <2>1. CASE GuardBoots(p)
    <3>1. guard'[p].at \in {"recover", "exit"}
      <4>1. CASE Guard(p, [g EXCEPT !.at = "recover"])
        BY <1>0, <4>1 DEF Guard, Guards
      <4>2. CASE Guard(p, [g EXCEPT !.at = "exit", !.reply = "error"])
        BY <1>0, <4>2 DEF Guard, Guards
      <4> QED BY <2>1, <4>1, <4>2 DEF GuardBoots
    <3> QED BY <3>1, NotRestoring
  <2>2. CASE GuardExits(p)
    <3>1. guard'[p].at = "none"
      BY <1>0, <2>2 DEF GuardExits, Guard, Guards
    <3> QED BY <3>1, NotRestoring
  <2> QED BY <1>1, <2>1, <2>2
<1>2. ASSUME NEW h \in Guards, NEW for \in {"recover", "apply", "final"},
             Guard(p, StartRestore(h, for))
      PROVE  GuardInv(p)'
  <2>1. guard'[p] = StartRestore(h, for)
    BY <1>2, Begins, GuardKept
  <2>2. /\ guard'[p].todo = Supplies
        /\ guard'[p].at \in {"supplies", "unlink"}
        /\ guard'[p].at = "unlink" => guard'[p].state = FALSE
    BY <2>1, <1>2 DEF StartRestore, Guards
  <2> QED BY <2>2 DEF GuardInv, SuppliesClean
<1>3. CASE GuardRecovers(p)
  <2>1. [g EXCEPT !.state = TRUE] \in Guards /\ [g EXCEPT !.reply = "error"] \in Guards
    BY <1>0 DEF Guards
  <2>2. CASE Guard(p, [g EXCEPT !.at = "serve", !.reply = "ok"])
    <3>1. guard'[p].at = "serve"
      BY <1>0, <2>2 DEF Guard, Guards
    <3> QED BY <3>1, NotRestoring
  <2> QED BY <1>2, <1>3, <2>1, <2>2 DEF GuardRecovers
<1>4. CASE GuardServes(p)
  <2>1. [g EXCEPT !.command = FALSE] \in Guards
    BY <1>0 DEF Guards
  <2> QED BY <1>0, <1>2, <1>4, <2>1 DEF GuardServes
<1>5. CASE RestoreSupply(p)
  <2>1. PICK s \in g.todo, fails \in BOOLEAN :
          /\ userMode' = IF fails \/ userMode[s] # "applied" THEN userMode
                         ELSE [userMode EXCEPT ![s] = "original"]
          /\ Guard(p, [g EXCEPT !.todo = @ \ {s}, !.errors = @ \/ fails,
                         !.at = IF guard[p].todo = {s} THEN "scheme" ELSE @])
    BY <1>5 DEF RestoreSupply
  <2>2. /\ guard'[p].todo = g.todo \ {s}
        /\ guard'[p].errors = (g.errors \/ fails)
        /\ guard'[p].at = IF g.todo = {s} THEN "scheme" ELSE "supplies"
    BY <1>0, <1>5, <2>1 DEF Guard, Guards, RestoreSupply
  <2>3. ASSUME ~g.errors, ~fails PROVE \A t \in Supplies \ (g.todo \ {s}) : userMode'[t] # "applied"
    <3>1. SuppliesClean(g.todo)
      BY <1>5, <2>3 DEF GuardInv, RestoreSupply
    <3>2. s \in Supplies => userMode'[s] # "applied"
      BY <2>1, <2>3
    <3> QED BY <3>1, <3>2 DEF SuppliesClean, Restoring
  <2>4. CASE g.errors \/ fails
    BY <2>2, <2>4 DEF GuardInv
  <2>5. CASE ~g.errors /\ ~fails
    <3>1. \A t \in Supplies \ (g.todo \ {s}) : userMode'[t] # "applied"
      BY <2>3, <2>5
    <3>2. g.todo = {s} => \A t \in Supplies : userMode'[t] # "applied"
      BY <3>1
    <3> QED BY <2>2, <3>1, <3>2 DEF GuardInv, SuppliesClean
  <2> QED BY <2>4, <2>5
<1>6. CASE RestoreScheme(p)
  <2>1. PICK fails \in BOOLEAN :
          /\ active' = IF fails \/ active \notin Schemes THEN active ELSE "original"
          /\ Guard(p, [g EXCEPT !.errors = @ \/ fails, !.todo = Schemes,
                         !.at = IF guard[p].errors \/ fails THEN "unlink" ELSE "delete"])
    BY <1>6 DEF RestoreScheme
  <2>2. /\ guard'[p].todo = Schemes
        /\ guard'[p].errors = (g.errors \/ fails)
        /\ guard'[p].at = IF g.errors \/ fails THEN "unlink" ELSE "delete"
    BY <1>0, <1>6, <2>1 DEF Guard, Guards
  <2>3. CASE g.errors \/ fails
    BY <2>2, <2>3 DEF GuardInv
  <2>4. CASE ~g.errors /\ ~fails
    <3>1. SuppliesClean({})'
      BY <1>6, <2>4 DEF GuardInv, RestoreScheme, SuppliesClean, Restoring
    <3>2. active' \notin Schemes
      BY <2>1, <2>4, SchemeAssumption DEF Chosen
    <3>3. schemes' \subseteq Schemes
      BY DEF Restoring
    <3> QED BY <2>2, <2>4, <3>1, <3>2, <3>3 DEF GuardInv
  <2> QED BY <2>3, <2>4
<1>7. CASE DeleteScheme(p)
  <2>1. PICK s \in g.todo, fails \in BOOLEAN :
          /\ schemes' = IF fails THEN schemes ELSE schemes \ {s}
          /\ Guard(p, [g EXCEPT !.todo = @ \ {s}, !.errors = @ \/ fails,
                         !.at = IF guard[p].todo = {s} THEN "unlink" ELSE @])
    BY <1>7 DEF DeleteScheme
  <2>2. /\ guard'[p].todo = g.todo \ {s}
        /\ guard'[p].errors = (g.errors \/ fails)
        /\ guard'[p].at = IF g.todo = {s} THEN "unlink" ELSE "delete"
    BY <1>0, <1>7, <2>1 DEF Guard, Guards, DeleteScheme
  <2>3. CASE g.errors \/ fails
    BY <2>2, <2>3 DEF GuardInv
  <2>4. CASE ~g.errors /\ ~fails
    <3>1. SuppliesClean({}) /\ active \notin Schemes /\ schemes \subseteq g.todo
      BY <1>7, <2>4 DEF GuardInv, DeleteScheme
    <3>2. SuppliesClean({})' /\ active' \notin Schemes
      BY <3>1 DEF SuppliesClean, Restoring
    <3>3. schemes' \subseteq g.todo \ {s}
      BY <2>1, <2>4, <3>1
    <3>4. g.todo = {s} => schemes' = {}
      BY <3>3
    <3> QED BY <2>2, <3>2, <3>3, <3>4 DEF GuardInv, Clean
  <2> QED BY <2>3, <2>4
<1>8. CASE EndRestore(p)
  <2>1. PICK h \in Guards : Restored(p, h)
    BY <1>0, <1>8, RefusedIs DEF EndRestore
  <2> DEFINE good == [h EXCEPT !.state = FALSE]
  <2>2. CASE Guard(p, StartRestore(h, "final"))
    BY <1>2, <2>2
  <2>3. CASE Guard(p, [good EXCEPT !.at = "exit"])
    <3>1. guard'[p].at = "exit"
      BY <1>0, <2>3 DEF Guard, Guards
    <3> QED BY <3>1, NotRestoring
  <2>4. CASE Guard(p, [h EXCEPT !.at = "exit", !.reply = "error"])
    <3>1. guard'[p].at = "exit"
      BY <1>0, <2>4 DEF Guard, Guards
    <3> QED BY <3>1, NotRestoring
  <2>5. CASE Guard(p, [good EXCEPT !.at = "serve", !.reply = "ok"])
    <3>1. guard'[p].at = "serve"
      BY <1>0, <2>5 DEF Guard, Guards
    <3> QED BY <3>1, NotRestoring
  <2>6. CASE Guard(p, [h EXCEPT !.at = "serve", !.reply = "error"])
    <3>1. guard'[p].at = "serve"
      BY <1>0, <2>6 DEF Guard, Guards
    <3> QED BY <3>1, NotRestoring
  <2> QED BY <2>1, <2>2, <2>3, <2>4, <2>5, <2>6 DEF Restored
<1> QED BY <1>1, <1>3, <1>4, <1>5, <1>6, <1>7, <1>8 DEF GuardStep

(* The inductive invariant. *)
THEOREM RecoveryInductive == RecoverySpec => []RecoveryInv
<1>1. RecoveryInit => RecoveryInv
  <2> SUFFICES ASSUME RecoveryInit PROVE RecoveryInv
    OBVIOUS
  <2>1. \A p \in Programs : GuardInv(p)
    BY DEF RecoveryInit, NoGuard, GuardInv
  <2>2. journal = "none" => Clean
    BY SchemeAssumption DEF RecoveryInit, Clean, SuppliesClean, Chosen
  <2> QED BY <2>1, <2>2, InitTypes DEF RecoveryInv
<1>2. RecoveryInv /\ [RecoveryNext]_recoveryVars => RecoveryInv'
  <2> SUFFICES ASSUME RecoveryInv, [RecoveryNext]_recoveryVars PROVE RecoveryInv'
    OBVIOUS
  <2> USE DEF RecoveryInv
  <2>1. RecoveryTypeOK' /\ Restoring
    BY RecoveryTypeStep, OnlyRestores
  <2>2. journal' = "none" => Clean'
    <3>1. CASE journal = "none"
      BY <2>1, <3>1, StaysClean
    <3>2. ASSUME journal # "none", journal' = "none" PROVE Clean'
      <4>1. PICK p \in Programs : EndRestore(p)
        BY <3>2 DEF RecoveryNext, GuardStep, GuardBoots, GuardRecovers, RestoreSupply, RestoreScheme,
           DeleteScheme, GuardServes, GuardExits, GuardDies, ClientStep, Started, Applied,
           GuardEnded, StartGuard, TimeOut, ClientDies, UserChooses, OwnerEnds, recoveryVars
      <4>2. guard[p].at = "unlink" /\ guard[p].state /\ ~guard[p].errors
        <5>1. PICK refused \in BOOLEAN :
                Restored(p, [guard[p] EXCEPT !.errors = @ \/ (refused /\ guard[p].state)])
          BY <4>1 DEF EndRestore
        <5>2. guard[p] \in Guards
          BY DEF RecoveryTypeOK
        <5> DEFINE h == [guard[p] EXCEPT !.errors = @ \/ (refused /\ guard[p].state)]
        <5>3. h.state = guard[p].state /\ h.errors = (guard[p].errors \/ (refused /\ guard[p].state))
          BY <5>2 DEF Guards
        <5>4. h.state /\ ~h.errors
          <6> HIDE DEF h
          <6> QED BY <3>2, <5>1 DEF Restored, h
        <5> QED BY <4>1, <5>3, <5>4 DEF EndRestore
      <4>3. Clean
        BY <4>2 DEF GuardInv
      <4> QED BY <2>1, <4>3, StaysClean
    <3> QED BY <3>1, <3>2
  <2>3. ASSUME NEW q \in Programs PROVE GuardInv(q)'
    <3>1. ASSUME guard'[q] = guard[q] PROVE GuardInv(q)'
      BY <2>1, <3>1, StaysClean
    <3>2. ASSUME NEW p \in Programs, GuardStep(p) PROVE GuardInv(q)'
      <4>1. CASE q = p
        BY <2>1, <3>2, <4>1, GuardsOwn
      <4>2. CASE q # p
        <5>1. guard'[q] = guard[q]
          BY <3>2, <4>2 DEF GuardStep, GuardBoots, GuardRecovers, RestoreSupply, RestoreScheme,
             DeleteScheme, EndRestore, Restored, GuardServes, GuardExits, Guard, RecoveryTypeOK
        <5> QED BY <3>1, <5>1
      <4> QED BY <4>1, <4>2
    <3>3. ASSUME NEW p \in Programs,
                 GuardDies(p) \/ StartGuard(p) \/ ClientStep(p) \/ TimeOut(p) \/ ClientDies(p)
          PROVE  GuardInv(q)'
      <4>1. CASE q # p
        <5>1. guard'[q] = guard[q]
          BY <3>3, <4>1 DEF GuardDies, StartGuard, ClientStep, Started, Applied, GuardEnded,
             TimeOut, ClientDies, Abort, Guard, RecoveryTypeOK
        <5> QED BY <3>1, <5>1
      <4>2. CASE q = p
        <5>0. guard[q] \in Guards /\ NoGuard \in Guards
          BY NoGuardType DEF RecoveryTypeOK
        <5>1. CASE GuardDies(q) \/ StartGuard(q) \/ GuardEnded(q)
          <6>1. guard'[q].at \in {"none", "boot"} \/ guard'[q] = guard[q]
            BY <5>0, <5>1 DEF GuardDies, StartGuard, GuardEnded, Guard, RecoveryTypeOK, NoGuard, Guards
          <6> QED BY <3>1, <6>1, NotRestoring
        <5>2. CASE Started(q) \/ Applied(q) \/ TimeOut(q) \/ ClientDies(q)
          <6>1. /\ guard'[q].at = guard[q].at
                /\ guard'[q].errors = guard[q].errors
                /\ guard'[q].todo = guard[q].todo
                /\ guard'[q].state = guard[q].state
            <7>1. CASE Abort(q)
              BY <5>0, <7>1 DEF Abort, Guard, RecoveryTypeOK, Guards
            <7>2. CASE Guard(q, [guard[q] EXCEPT !.reply = "none", !.command = TRUE])
              BY <5>0, <7>2 DEF Guard, RecoveryTypeOK, Guards
            <7>3. CASE Guard(q, [guard[q] EXCEPT !.reply = "none", !.eof = TRUE])
              BY <5>0, <7>3 DEF Guard, RecoveryTypeOK, Guards
            <7>4. CASE Guard(q, [guard[q] EXCEPT !.eof = TRUE])
              BY <5>0, <7>4 DEF Guard, RecoveryTypeOK, Guards
            <7> QED BY <5>2, <7>1, <7>2, <7>3, <7>4 DEF Started, Applied, TimeOut, ClientDies
          <6>2. GuardInv(q)
            OBVIOUS
          <6>3. UNCHANGED <<userMode, active, schemes>>
            BY <5>2 DEF Started, Applied, TimeOut, ClientDies, api
          <6> QED BY <6>1, <6>2, <6>3 DEF GuardInv, Clean, SuppliesClean
        <5> QED BY <3>3, <4>2, <5>1, <5>2 DEF ClientStep
      <4> QED BY <4>1, <4>2
    <3>4. CASE UserChooses \/ OwnerEnds \/ UNCHANGED recoveryVars
      BY <3>1, <3>4 DEF UserChooses, OwnerEnds, recoveryVars
    <3> QED BY <3>2, <3>3, <3>4 DEF RecoveryNext
  <2> QED BY <2>1, <2>2, <2>3
<1> QED BY <1>1, <1>2, PTL DEF RecoverySpec

(* The journal goes last, for any number of programs, supplies and schemes. *)
THEOREM JournalIsLast == RecoverySpec => []JournalGoesLast
<1>1. RecoveryInv => JournalGoesLast
  BY DEF RecoveryInv, Clean, SuppliesClean, JournalGoesLast
<1> QED BY <1>1, RecoveryInductive, PTL
=============================================================================
