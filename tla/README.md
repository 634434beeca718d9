# Verification of MCP-Local

MCP-Local serves local files, and in two of its modes commands, to a remote MCP
client through a tunnel. A desktop program (a Python back end and a WPF front
end) manages the connection, its settings and a monitor of the requests; each
connection starts a tunnel client, which starts MCP server processes. This
directory models the concurrent and stateful parts of the program and its
streaming algorithms in TLA+, checks them with TLC and proves their safety
results with TLAPS.

Paths below are relative to `src/mcp_local/` unless they say otherwise.

## 1. Inventory

| Component | State | Operations | Interacts with |
|---|---|---|---|
| Work slots (`operation_budget.py`) | semaphore SLOTS, context variable ACTIVE, executor, Budget | `asynchronous`, `operation`, `bounded`, `checkpoint` | every MCP tool; event loop, pool threads |
| Managed connection (`connection_runtime.py`, CancelEvent in `power_windows.py`, Job in `tray_windows.py`) | cancel flag and native event, job, process, error kind, session mutex | `start`, `stop`, `_run`, `existing_tunnel` | desktop, command line, monitor, VM guard, Windows |
| Request monitor (`request_monitor.py`: MemoryChannel, Monitor) | shared mapping: flags, epoch, sequence, slots; history rows | `publish`, `drain`, `reset`, `disconnect`, `poll`, `set_enabled`, `clear`, `begin_connection` | server processes write, GUI thread drains, connection worker revokes |
| Request observer (`request_monitor.py`: Observer) | table of pending calls, generation | `receive`, `send`, `finish` | MCP transport, MemoryChannel |
| Desktop controller (`desktop_controller.py`) and its task (`gui_tasks.py`, `desktop_ports.py`) | state, running, retry timer, restart, drafts, intent, settings revision; one background task | `start`, `stop`, `restart`, `quit`, `save`, `switch_access_mode`, `check_background`, `tick`, `retry_connection` | connection, monitor, settings store, autostart, bridge |
| Desktop pipe (`desktop_bridge.py`; `src/desktop/wpf/BackendClient.cs`, `DesktopWindow.cs`, `RemoteMonitorSource.cs`) | command, answer and output queues, pending dialog; request table, draft, version of the history | `read`, `write`, `emit`, `askyesno`, `dispatch`, `main`; `Send`, `Read`, `OperationChanged` | WPF process and controller |
| Command sessions (`control_sessions.py`, `host_control.py`, `developer_control.py`, `sandbox_windows.py`, `host_windows.py`) | session table, per session a process, a drain and a monitor thread | `start`, `read`, `interact`, `terminate`, `export`, `close_session`, `close` | MCP tools, sandbox, VM |
| Controlled writes (`control_files.py`, `control_edit.py`, `host_files.py`) | files under a mutation lock, the right to write | `write`, `edit`, `move`, `delete`, `close` | MCP tools, other programs |
| Developer VM (`developer_vm.py`, `developer_vm_guard.py`, `developer_vm_client.py`) | guard process, owned machine, two pipes | `start`, `stop`, `disconnect`, `close` | connection, sessions, Windows Sandbox |
| Settings store (`connection_settings.py`, `backup_rotation.py`, `workspace_settings.py`, `reader_settings.py`) | settings file, lock file, revision, backups | `load_for_edit`, `load_settings`, `save_settings` | desktop, command line |
| Autostart (`autostart_windows.py`) | scheduled task, background program | `apply_settings_transaction`, `start_background`, `stop_background`, `register_autostart` | settings store, scheduler |
| Legacy power recovery (`power_policy.py`, `power_restore_guard.py`, `legacy_power_recovery.py`) | journal, power schemes, guard process, its mutex and pipe | `recover_legacy_power`, `restore`, `apply` | every start of a program |
| Caches (`snapshot_cache.py`, `incremental_state.py`) and paged queries (`file_query.py`, `local_files_mcp.py`) | snapshots with owners, limits and ages; baselines | `put`, `get`, `list_files`, `query_files`, `project_status` | reader tools, other programs |
| Streaming reads and searches (`stream_read.py`, `stream_search.py`, `local_files_mcp.py`, `workspace_reader.py`) | none across calls | `read_ranges`, `scan_file_many`, `walk`, `find_files`, `search_text`, `search_texts`, `batch` | reader tools |
| Format readers, access modes, contract, keys, integrity, icons, start-up, WPF views, build tools | little or none | | |

What is hard here: three kinds of threads in the desktop (GUI, one worker,
connection), each with its own view of "running"; a shared-memory channel whose
writers may be killed and never wait; processes that must not outlive their
manager, or must outlive it just long enough to clean up; coroutines cancelled
while a thread takes their work; two processes that edit one file; a transaction
over the settings file and a task that belongs to Windows; pipes on which a reply
may belong to an earlier request or come after its time limit; folders that are
read without a lock while others write; algorithms that cut lines at the end of
every block.

What makes each component correct:

* slots: each is free or held once; budgets do not leak; no work goes on for a
  caller that has given up; every call ends;
* connection: no unmanaged client, at most one, none after a stop; a stopped run
  is not retried;
* monitor: an epoch is a barrier; nothing undrained is lost; a clear is final;
* observer: no row left running; only calls the table does not count can be
  matched wrongly;
* controller: one connection at a time; stop wins over every pending
  reconnection; drafts are not dropped; commands end;
* pipe: what a caller is told is true; a draft is never hidden; the back end ends
  with its interface;
* sessions: no sandbox gets out of sight, limits count what really runs, every
  session and call ends;
* settings and autostart: no update is lost; what is replaced is kept; settings
  and task agree; the power field goes after its journal;
* power: the journal goes last; no guard hangs;
* VM: no machine without a guard that knows it; a proven stop is proven; all ends;
* writes and queries: only what was seen is replaced; pages and digests are those of
  one state, an inventory fits one;
* reads: the result does not depend on how the file is cut into blocks, and what
  is left out is told.

## 2. Modules

| Module | Models | Theorems in |
|---|---|---|
| `SlotPool` | abstract: users take and give back at most Limit slots | |
| `OperationBudget` | `operation_budget.py`, with the executor and asyncio as far as it uses them | `ServerProofs` |
| `ConnectionRuntime` | the worker's stages, the owner's calls, processes, crashes | `DesktopProofs` |
| `RequestMonitor` | channel, GUI operations, connection worker, observers that may be killed | `RequestMonitorProofs` |
| `RequestObserver` | one observer with reused identifiers | `ServerProofs` |
| `DesktopController` | controller, GUI task, an abstract connection | `DesktopProofs` |
| `DesktopPipe` | both ends of the pipe between interface and back end | `DesktopProofs` |
| `Sessions` | tool calls, monitor threads, closing of the service | `SessionsProofs` |
| `EditedRegister` | abstract: a register with optimistic editing | |
| `SettingsStore` | `save_settings` operation by operation, in several processes | `LocalSettingsProofs` |
| `LocalSettings` | extends the store by the programs that use it, the journal and the logon task | `LocalSettingsProofs` |
| `PowerRecovery` | guards, clients and programs around one journal | `LocalSettingsProofs` |
| `DeveloperVm` | guard, run and connection around a machine | `DeveloperVmProofs` |
| `SharedFiles` | files as other programs change them | `FileServiceProofs` |
| `ControlledFiles`, `FileQueries` | the calls that write, the calls that read, both over `SharedFiles` | `FileServiceProofs` |
| `FileService` | the composition of the two with the other programs | `FileServiceProofs` |
| `TextReads`, `FolderSearch` | the streaming algorithms on one text, the limits of walks and batches | `FileReadsProofs` |
| `FileReads` | either of the two, as one specification | `FileReadsProofs` |
| `MC...` | instances for TLC | |

A module of proofs may serve several models. Models that meet in one therefore
keep their names apart (`PipeInit`, `ControllerNext`, `RecoverySpec`, ...).

Refinements. `OperationBudget` and `ConnectionRuntime` each instantiate `SlotPool`:
the holders of the work slots, and the connections that have a client (a pool of
one). `SettingsStore` instantiates `EditedRegister`, and `LocalSettings` implements
`SettingsStore`, so that the desktop and the command line inherit its promises.

Composition. `FileService` joins writers, readers and other programs over one set
of files; `LocalSettings` joins programs, store, scheduler and an abstract recovery
(one step that succeeds or fails) whose details are `PowerRecovery`.
`RequestMonitor` and `RequestObserver` divide one source file: the first has unique
identifiers and the whole channel, the second the whole identifier logic and a
channel that loses nothing. `DesktopController` has an abstract connection that
ends once it is cancelled, and not with a retryable kind (`StoppedIsNotRetried` of
`ConnectionRuntime`); `DesktopPipe` executes an abstract command, whose effects are
the user actions of `DesktopController`.

### How state and actions correspond to the code

One action is one stretch of a thread or process between two points at which
another can be observed: an await, a lock, a call of the system, a message.

`OperationBudget`. `call[c]` is the position of the coroutine between its awaits,
`job[c]` that of its closure `run`. `Acquire`/`Refuse` L97, `Submit*` L113-117,
`Resume`/`Unwind` L118-124 (after an await), `Begin`, `EndBody` (the last checkpoint),
`LimitOutput` and `CloseJob` L101-112. `Pick`,
`Settle`, `Complete`, `Cancel`, `ChainCancel` are what concurrent.futures and asyncio do
with the future. `Released` keeps the BoundedSemaphore's refusal to exceed its
initial value. Bytes, entries and clock of a Budget are one flag `spent`.

`ConnectionRuntime`. `pc[c]` is the position of `_run`. The lock held over L167-L188
is `LockedByWorker`; `stop()` is three actions, because the worker can run between
its statements. `proc` follows the wrapper (gated by its stdin, permitted) and the
tunnel client; `Kill` is what job termination, `kill` and the closing of the last job
handle do. `Crash` is the death of the owning process at any step.

`RequestMonitor`. `collecting` and `linked` are bytes 0 and 1 of the mapping. `publish`
is four steps after the epoch has been read: the test without the lock, which may
give up, the lock, the test under it and the write; the epoch may change between
any two of them. The GUI operations are `poll` followed by their own part; `reset`
is split where other threads can see it. `disconnect` on the worker is two one-byte
writes. `Die` leaves the mutex abandoned and the slot in any of the states the code
passes through. The history variable `torn` marks the runs in which a publisher
died after it had written a slot and before it had counted it: a later drain then
sees events out of order, and `WindowIntact` excepts exactly these runs.

`RequestObserver`. `pending` keeps the OrderedDict's order; `shown` is the last status
published for each call; `response` names the call whose response the row carries.
The history variable `forgotten` collects the calls that the table does not count
(evicted, received while nothing is collected, open when the epoch changes, or
displaced by the response of such a call).

`DesktopController`. The GUI thread runs one handler at a time, and handlers call
each other and may fail half-way, so a method is an operator from a state to the
set of states it may leave, over one record `d`. A `Task` is the closure that `save`
submits: `stopped` and `edited` stand for the comparison of `intent` and
`edit_generation` on completion. `scheduled` counts retry callbacks that the
Scheduler still holds, also those the controller has lost sight of.

`DesktopPipe`. `request` is the table of the interface with the fate of each request
(`late`: its caller has given up); `queries` and `mutation` are the single query of
each kind and the single operation that may be outstanding; `draft` has the dirty
flag and the generation whose outcome is not known; `commands`, `answers` and
`outgoing` are the bounded queues of class Pipe, each together with the pipe it is
filled from or emptied to. The reading and the writing thread, the main thread
and the interface's threads interleave; `TimeOut` and `GiveUpUnsent` are the two
places at which a time limit may pass.

`Sessions`. A method that takes the io_lock only for a stretch (`Terminate`, `Look`) is
one action that needs `io[s] = None`, while `interact` and `export` own it over several.
`lock` is held over the whole of `start` and `close` (an RLock). `proc` is what is left of
a sandbox: a command that runs, one that has ended while descendants may live on
(`exited`), a stopped job (`dead`), a profile that could not be removed (`kept`),
nothing (`released`). Stopping and removing may fail whenever the code calls them.
The history variables `stuck` (sandboxes that once could not be stopped) and `lost`
(sandboxes that a failing `start` could not take back, for which the code keeps no
reference) let the properties say exactly what a failure may leave behind.

`SettingsStore` and `LocalSettings`. A revision is the digest of the file and stands for
its content. `save[p].at` is the position within `save_settings`, `flow[p].at` that of the
caller: the start of a program (recovery, retirement of the power field,
migration), `apply_settings_transaction` with its compensation, or
`set_local_mode`. `StepFails` lets any file operation raise, `Dies` kills a program
anywhere; a lock file that a dead process leaves behind is `Stale` until the user
removes it. `Tamper` is the user at the scheduler. The history variable `torn`
marks transactions that a death or an error in the compensation cut short.

`PowerRecovery`. A guard walks over the supplies, the active scheme and the
schemes to be deleted one call at a time (`restore`), and removes the journal only
if no call has failed; client and guard exchange a reply, a command and the end
of file. Guards of one journal exclude each other by the mutex.

`DeveloperVm`. `guard[g]` follows `serve` and `Lifecycle` over the command line of
Windows Sandbox: list, launch, check, stop, verify; `inbox` and `run[r].replies` are
the two directions of the pipe, in which a reply need not belong to the request
that reads it. A guard belongs to the connection or to one run (`shared`).
`EndConnection` kills the service with its runs; the guard survives it.

`SharedFiles`, `ControlledFiles`, `FileQueries`. A file has an identity, a modification
time that a program may restore after a change, and a change time that it
cannot. `OtherProgram` may act between any two steps of a call. `op[c]` is a writing
call between check, open and write; `call[r]` is a reading call between two folders,
two names, the steps of hashing one file, or two of the checks at the end of an
inventory (`CheckFolder` per folder, then `CheckRow` per file). History variables:
`back`, the change that last set the modification time of a file to an earlier or
the same time; `moment` of a call, the files when its inventory was collected.
`cache` and `baselines` keep the order in which the code evicts. The history variable `uses` says which calls have used the
cache since a call has stored its snapshot there; `Awaits(r)` is a call that will
look for it and for which the limits of the cache (entries of one owner, of all)
still leave room.

`TextReads` reads a text block by block (`ReadBlock`, any length) and processes the
parts of lines and the breaks of each block (`Part`, `Break`), with the same carried
state as `read_ranges` and `scan_file_many`: `afterCr`, the line so far, and per needle
the tail in which a match may begin. `FolderSearch` makes one step per entry of a
walk or request of a batch.

## 3. Runs

Every run is of its module's `MC` module and must pass.

| Run | Instance | Shows |
|---|---|---|
| `operation_budget` | 2 calls that start again and again, 1 direct caller (nesting 2), 2 threads, 2 slots, fair | `SlotsConserved`, `BudgetIsOwn`, `WorkStopsWithCaller`, `EveryCallEnds` |
| `connection_runtime` | 2 processes, started any number of times | `NoOrphanTunnel`, `StopIsFinal`, `StoppedIsNotRetried`, `ImplementsOneTunnel` |
| `request_monitor` | 2 observers, 2 requests, 2 slots, batch 1, 1 row, 4 epochs | `EpochIsolation`, `WindowIntact`, `ClearIsFinal` |
| `request_observer` | 4 calls, 3 identifiers and a refused one, table of 2, 4 epochs | `RunningIsPending`, `OnlyForgottenMismatch` |
| `desktop_controller` | at most 2 scheduled retries, fair | `RunningCoversThread`, `StopCancelsReconnect`, `DraftSurvives`, `CommandsEnd` |
| `desktop_pipe` | 3 requests, 1 edit, 1 change of the history, queues of 2, fair | `OutcomeIsTrue`, `DraftKept`, `BackendEnds` |
| `sessions` | 1 tool call at a time and the closing thread, 2 sessions, 1 of them active, fair | `RemovedIsReleased`, `ActiveLimit`, `QuietExport`, `SessionEnds` |
| `local_settings` | desktop and one command line, 1 backup kept, 2 modes, old and new settings, 1 failure, death or intervention | `TaskMatchesSettings`, `NoLostUpdate`, `ReplacedIsKept`, `PowerFieldLast` |
| `power_recovery` | 2 programs, 2 supplies, 1 scheme; any number of failures and deaths, fair | `JournalGoesLast`, `RecoveryEnds` |
| `developer_vm` | 2 runs, 2 failures or time limits, guard of the connection or of the run, fair | `OwnedUntilGone`, `StopIsProof`, `VmEnds` |
| `file_service` | 3 paths in 2 folders, 2 contents, 2 writing and 3 reading calls of 2 services, 2 changes, 5 calls, 2 snapshots of a service and 3 in all, pages of 1 row, clock of 2; two classes of behaviours (below) | `ReplacesWhatWasSeen`, `SnapshotsAreStable`, `HashesAreTrue`, `InventoryFitsAMoment` |
| `file_reads` | all texts of up to 5 of {a, b, CR, LF} and three longer ones, all cuts into blocks; all folders of up to 4 entries of 10 sorts, and of 5 of four sorts, walked and as batches with answers of 3 sizes | `ReadIsWindow`, `SearchFindsLines`, `UntruncatedIsComplete` |

Deadlock is checked in `operation_budget`, `connection_runtime` and
`power_recovery`. In the others the system may really stop: an observer's calls are
used up, the desktop or the interface has ended, the service is closed, a read is
finished.

Bounds and why they suffice. `MaxDepth` 2 is the least with a nested entry; two
calls and a direct caller for two slots is the least in which a call is refused
while others hold the slots; identities are reused, so runs are not one-shot. Two
connections are the least that can collide. A ring of two slots with a batch of
one makes overwriting, partial drains and wrap-around happen with two events per
request; `MaxEpoch` caps pauses and clears of one connection, while reconnections
are unlimited. Four calls on three identifiers with a table of two contain a
collision of three, an eviction and a change of epoch. `MaxTimers` caps retry
callbacks that pile up when launches replace a timer. In `sessions` the tool call
and the closing thread overlap in `close_session`, and each overlaps with two
monitors; one active session of two makes both limits bite. (Two tool calls give
1.3 million states with the same result for the safety properties and for the
invariant of the proof, too many for the liveness property.) In `local_settings`
one fault is the least with which a compensation is needed or cut short; two
programs are the least that conflict; the settings vary in the fields that the
flows look at. `power_recovery` needs no bound: its state is finite. In
`developer_vm` two faults make a failed stop fail again in the clean-up, and a
second run meets what the first has left. In `desktop_pipe` three requests are an
operation with the form, one that follows it and a query; the queues hold two, so
that a third is refused. The run `file_service` explores two classes of behaviours, named
in the CONSTRAINT `Bounds` of its module. In `Changing` two changes, by other
programs or by a write and its roll-back, fall anywhere into two calls, of which
one at a time reads: a status and a later one that reuses its digests, or a
listing or query, over folders of two names and of one. In `Paging` the files rest and five calls
of three readers list the same three files in pages of one: two readers share a
service that may keep two snapshots of the three in all, so a third snapshot of
that service displaces its own first, the fourth in all displaces the first of
any, either may be one that a call awaits or pages through, and the cursors stand
at the second and the third page. In
`file_reads` the limits (rows, characters, matches, sizes) lie inside the range of
the inputs: a folder of five has entries over the limit of the walk, and a batch
has answers within its reserve, answers that fit and answers that do not. Five
characters hold a CR LF cut by a block and a needle cut by one.
Symmetry is used only in runs without a liveness property.

Fairness. Every step of the program itself is weakly fair (threads run, ready
callbacks run), with these particulars. In `OperationBudget`, `Pick` is strongly fair
because the executor's queue is first in, first out; a caller leaves `operation`
because its deadline passes. In `DesktopController` the task worker ends (its calls
have time limits), `tick` is always armed again, and a cancelled connection ends:
its worker tests the flag between the stages and waits for the process and the
native event of the flag at once. In `Sessions` the fairness is strong, because
Python's locks promise no order but keep no thread out for ever; a lifetime
passes and a bounded wait ends, but commands need not end nor read their input.
In `DesktopPipe` the main loop and the end of the pipe are fair; nobody has to answer
a dialog, and the interface's own threads owe nothing. In `PowerRecovery` a guard
runs until it is killed and a client waits at most its time limit; in
`DeveloperVm` guards, run threads and the connection's `close` go on, and a run that
is cancelled leaves its polling. No command of the user, and no end of a command,
process or guest, is ever assumed.

Each property is shown to depend on the code by a mutant: a definition beside the
original, marked "Mutant", that makes a plausible mistake (a comparison that is left
out, a lock kept, a wrong end of a list) and violates the property in the same run.

## 4. Proofs

The theorems hold for every value of the constants under the named assumptions
of the modules: finite sets of actors or identities where something is counted
(`FiniteActors`, `FiniteIds`), sizes and bounds in the order they have in the code
(`RingSizes`, `PipeBounds`, `EpochsPositive`, `FileBounds`, `CacheNumbers`, ...), names that
differ from the actors (`DistinctOwners`, `DistinctContents`, ...), for `LocalSettings`
that what its programs save are settings (`SettingsAssumption`), and for the readers
what the code checks of its arguments: a range starts at line 1 or later and is
not empty, a needle is not empty and fits into a row (`RequestsAssumption`), and
`batch` can set aside a reserve for each of its requests (`BatchAssumption`).
Nothing else is assumed; TLC evaluates each of them on the instances it checks.

* `ServerProofs`, the work slots: `TypeCorrect`, `OwnBudget`, `Conservation`, `Refinement`
  (of `SlotPool`), `WorkStops`. Conservation is local: each action changes `slots` by what
  it changes in the number of holders. The inductive invariant adds that the
  positions of a call and of its job agree, without which `Unwind` could return a
  slot twice; cardinalities are those of finite sets that gain or lose one element.
  `WorkStops` rests on `Told`: when a caller has its value its job is settled, and when it
  has an error its job does not exist or has been cancelled, so that it finds out
  at its start or at its last checkpoint.
* `ServerProofs`, the request observer: `RunningPending` rests on `RunningInv`: what is in
  the table was received, its epoch is none that the channel has not reached, and
  the row of a collided identifier does not say running. `NoGuessing` rests on
  `MismatchInv`: the table has one entry for an identifier; it counts at least the
  open requests it stands for, and unless it is uncertain its request is the only
  one of them. A response can then go astray only after the limit of the table has
  dropped a request.
* `DesktopProofs`, the connection: `TypeCorrect`, `NoOrphans`, `AtMostOneTunnel`, `StopStops`,
  `StopIsNotRetried`, `Refinement` (a pool of one). One invariant serves them all: a
  live client implies an open job it is assigned to and a worker between the
  permit and the closing of the job, who is then a holder of the mutex, and a
  holder past the mutex test is the only one.
* `DesktopProofs`, the controller: `ThreadCovered`, `StopIsObeyed`, `DraftNotLost`. In
  `ControllerInv` every way to a later connection (the GUI task under way, the retry
  timer, the pending restart) belongs to a user who wants the connection, and
  `running` says exactly that a connection or the report of its end is outstanding;
  each handler clears what it overtakes, and a timer that fires was scheduled.
* `DesktopProofs`, the pipe: `OutcomeTrue` and `DraftStays`. `PipeInv` follows a request:
  a command is received once and only after it was sent, it is executed once, and a
  reply under way says how. The interface has one outstanding operation, so
  the forms arrive in the order in which they were sent, and the form the back end
  has lies between the forms that were executed and those that were not. A draft
  whose operation timed out waits for exactly that operation, or for the posted
  callback with its result.
* `RequestMonitorProofs`: `Isolation` (`EpochIsolation`): an observer
  between the lock and its write owns the mutex, and no reset happens while a
  mutex is owned, so the epoch it tested is the epoch it writes in. `WindowKept`:
  with the invariant of the ring `WindowIntact` is inductive itself; the proof compares
  the windows before and after a publication and a drain. `ClearFinal` adds what may
  still know a request that was cleared: in the present epoch neither the ring,
  nor an observer that publishes, nor the table of a server; an observer of an
  earlier epoch is refused at the mutex.
* `LocalSettingsProofs`, the store: `NoUpdateLost` (it implements `EditedRegister`) and
  `ReplacedKept`. The invariant says that only the creator of the lock file is past
  it, that what it compared still holds until its replacement, and that from the
  backup on the newest backup is the file. The failure of any step and the death
  of any process keep it, because a lock file outlives its creator.
* `LocalSettingsProofs`, the programs: `ImplementsStore`: every step of the programs is a step
  of the store or leaves its files alone; `LocalNoUpdateLost` and `LocalReplacedKept` follow.
  `PowerFieldIsLast` needs its own invariant: a program that may save settings
  without the power field has seen the recovery succeed, and no journal appears
  again. `TaskFollows`: at each step of the desktop's transaction the logon
  task is what the old or the new settings ask for, according to what has been
  done and undone. `torn` marks what may leave them apart: a save that fails after
  its replacement, an error on the way back, the end of the desktop in between, and
  a user who changes the task.
* `LocalSettingsProofs`, the power journal: `JournalIsLast` rests on `RecoveryInv`: while
  a guard has met no error, what it has dealt with is restored; nothing applies an
  old setting again, so other guards, the user and deaths do not undo it.
* `DeveloperVmProofs`: `Owned` and `StopProved`. The invariant says what every message
  and reply on the pipes stands for: a guard works on the first message of its
  inbox; a start waits there only for a run that has had no reply at all; and a
  positive reply to a run that was started comes from a stop that has seen its
  machine gone. Without it a late reply to an earlier request could be taken for
  the proof of a stop.
* `SessionsProofs`: `Released`, `LimitHolds`, `ExportIsQuiet`. A closed session has been
  stopped; a monitor that has left its loop has stopped its process or given it
  up; a call deletes only what it has released; an export owns the io_lock of a
  stopped process. The limit counts sessions that are not done, and a session that
  is done is alive only if its stop has failed.
* `FileServiceProofs`: `ReplacesSeen` rests on `ServiceInv`: numbers and identities only
  grow, the lock has one owner, and what a check has seen stands until another
  program overtakes it (a write holds its file open, so nobody does). `HashesTrue`
  and `InventoryFits` rest on `InventoryInv`: a digest in a row was read through a
  handle that showed the same identity and times before and after. Files only
  grow (`Grown`): one that has shown a signature keeps it, or has a later
  modification time, or its time has been set back since. `Collecting` says that the
  files of a folder that is still as it was listed are the names left and the
  rows, grown; so at the end of the collection, which is the moment of the
  inventory, a folder that `CheckFolder` will find unchanged `Fits` that moment, also if the
  check comes later. `Aged` follows the files from that moment on: a file that
  `CheckRow` finds with the time of its row has had that time at the moment too, or
  was set back (`Confirmed`). `SnapshotsStable`
  rests on `SnapshotInv`: a key has one owner and one list of rows, a cursor stands
  behind what was given out, and behind an entry that a call awaits there are no
  more entries, of its owner and of all, than uses of the cache since it was
  stored (`uses`). The inductions over the rows and the entries are stated with sets
  of natural numbers, because an induction over an operator is out of reach.

* `FileReadsProofs`, the folders: `FolderComplete`. Sums over a folder are functions of
  how far the walk has come, so that a step adds the hits of one entry. `FolderInv`
  says that as long as nothing is marked as left out the counts are the sums up to
  the present entry; each limit of the walk, of a query, of all matches and of the
  scan that leaves something out is told at once, or at the latest when the walk
  ends, because the bytes used never shrink. `BatchOK` says that a batch still has the
  reserve of all its later requests, whatever sizes the answers have, so that it
  never exceeds its budget and skips only when it says so.
* `FileReadsProofs`, the texts: `WindowExact` and `SearchExact`. The definition counts
  lines by their ends and knows nothing of blocks. `PlaceOK` relates the two: the
  line so far starts where the definition says and holds no break, also when a CR
  LF falls apart at the end of a block. What is kept of the line (its first
  characters, and for each needle a tail one shorter than the needle) does not
  depend on where it was cut (`FirstOfParts`, `EndingOfParts`), and a needle occurs in a
  line exactly if it occurs in a tail with the part that follows (`OccursInParts`). A
  range that says it is truncated has left out a line that exists, and a snippet
  holds the match (`SnippetHolds`). Blocks and parts are steps of the program, so the
  induction over the text is the one over steps; the few over numbers use sets.

Only model-checked: every liveness property. It needs ENABLED and fairness, which
TLAPS does not reach. Each invariant and each action property of the runs, and
each refinement, is a theorem.

The type invariants of the modules that have proofs are theorems; the others
document the state.


## 5. Seen while modelling

Places where the code differs from what its documentation or its comments say, or
where a failure is not covered. Each is excepted from a property by name, or lies
outside the properties, as said here.

1. `request_monitor.py:237`, `reset`, writes the flag that a lock-free `disconnect` of
   the connection worker (L242) writes too. A disconnect that falls into a reset
   is undone until the desktop handles the end of the connection.
2. `request_monitor.py:424`: a change of epoch forgets the open calls, so a late
   response can be attached to a newer call that reuses its identifier.
   `src/docs/guides/介面使用說明.md:76` says that the program does not guess.
   (`OnlyForgottenMismatch` says that nothing else is matched wrongly.)
3. `desktop_controller.py:625-635`: the end of a connection finishes a program that
   is quitting without waiting for a running save, unlike L574 and L597 and the
   guide (L122).
4. `desktop_controller.py:544`: a restart with unsaved edits may stay in RESTARTING if
   the connection ends during the save that comes first; the README
   (`src/README_繁體中文.md:152`) describes the state as temporary. (`CommandsEnd` is about
   saving, stopping and quitting only.)
5. `desktop_controller.py:639`: a draft edited while a restart is pending is
   overwritten by the reload; `src/README_繁體中文.md:138` and the test at
   `src/tests/test_desktop_controller.py:423` say that drafts are kept. (`DraftSurvives`
   excepts a pending restart.)
6. `src/desktop/wpf/DesktopWindow.cs:160-166`: an operation that begins between a late
   reply and the callback that settles it lets the outcome of one operation be
   taken for that of the other. (`draft.overtaken` in `DraftKept`.)
7. `connection_settings.py`: when the file cannot be read back after it was
   replaced, `save_settings` raises although the settings are saved, and the
   transaction undoes its change of the task. (`torn` in `TaskMatchesSettings`.)
8. `control_files.py`: `move` and `delete` compare the digest without holding the file,
   so another program may change it before the call acts. (`overtaken` in
   `ReplacesWhatWasSeen`; a rewrite is safe in every case.)
9. `local_files_mcp.py:492-493`: `search_texts` does not count the bytes of a file that
   fails while it is read, so such files do not use up the limit of the search.
10. `developer_vm.py:190, 222`: a start that fails under the connection's guard ends the
    run without VM_STOP_UNCONFIRMED, although the machine may run until that
    guard stops it. (`answered` in `StopIsProof`; `OwnedUntilGone` holds all the same.)
11. `incremental_state.py:196-201` compares identity, size and modification time. A
    file that is rewritten after it was hashed, and whose modification time is
    set back before this check, keeps its old digest in this status. The comment
    at L191, `atomic_snapshot=False` at L278 and
    `src/docs/guides/增量與診斷工具說明.md:31` say that the scan is not atomic and trusts
    the metadata. (`back` in `InventoryFitsAMoment`; the next status sees the new
    change time and reads the file again: `HashesAreTrue`.)
12. `operation_budget.py:116` gives the slot back although, when a thread cannot be
    started, the item is already in the executor's queue. The model assumes that
    threads can be started.

## 6. Simplifications

* One `schtasks` call with the query that verifies it is one step; so are getting
  and setting one power setting, and one call of the sandbox command line, whose
  effect is settled when it returns.
* A process saves its settings from one thread at a time (the lock inside the
  process is always free); a partly failed removal of old backups is left out.
* A program's second power guard waits until its first has ended; a journal
  exists at first only beside settings that still have the power field.
* Runs of the virtual machine follow each other (developer control admits one active session).
* A roll-back that fails itself is left out of `ControlledFiles`; a handle of another
  reader appears as a call that is refused (`Busy`).
* Folders are neither created nor removed while they are read. What is seen of a
  folder is taken when it is listed; the code takes it a little earlier, when
  the folder is found, and so notices more.
* Other programs set modification times only up to the present. A digest is
  taken of the whole content at once, not in pieces of 64 KiB; the handle must show
  the same before and after, so a change between two pieces is refused anyway.
  An identity stands for the fields that writing into a file does not change,
  and the size of a file is not used to tell contents apart: two contents may
  have one size.
* A backup's modification time, by which `backup_rotation.py` sorts, is the time of
  its creation: the clock is not set back.
* The limits of the caches by rows and bytes are represented by those by
  entries; blocks, widths and limits of the reading algorithms are counted in
  characters, not in bytes of UTF-8.
* The liveness of the connection's worker is not in a run: with two processes the
  state space is checked for safety only.
* Payloads, texts, back-off delays and the output of sessions are left out.

## 7. Not modelled

* Parsers of document formats (`format_reader.py`, `format_parsers.py`,
  `media_parser.py`, `structured_parser.py`, `document_extras.py`, `image_reader.py`) and
  the trace of a call (`read_call_trace.py`): transformations of data without shared
  state, for which samples are the better test.
* Access modes, the tool contract, diagnostics: tables and pure checks.
* Keys, integrity, logging, icons: single calls of system services.
* What runs inside the virtual machine (`developer_guest.ps1`, toolchains), `mkdir`,
  the computation of an edit, `monitor_search` and the paging of the history.
* Start-up of the interface, its layout and views, build and verification tools.

Within reach of later work: an abstract file system that `FileService` refines,
and the worker process of the format readers with its time limit.
