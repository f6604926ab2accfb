# MasterControlProgram in TLA+

MasterControlProgram is a Windows server that gives MCP clients control of the
machine: 202 tools behind one router, of which most are one Windows call and a
report. What is hard in it is not the calls but the things that outlive a call:
processes it owns, waits and watches, workflows, a pool of PowerShell workers,
debug sessions, a resident host with several connections and a checkpoint on
disk. These modules describe that part, and say what must be true of it while
connections close, requests are dropped, checkpoints fail and the host is lost.

Line numbers below are those of `src/` at the modelled commit; `PROJECT.json`
(`map`) gives the lines behind every definition.

## 1. Inventory

### 1.1 Components

| Component | Source | State it keeps | Operations |
|---|---|---|---|
| Process manager | `execution.rs`, `execution/native.rs`, `execution/tools.rs` | registry of entries (record, native tree, cancellation), open connections, reserved slots and output budget, `execution.json` | `start`, `list`, `read`, `wait`, `cancel`, `shutdown_connection`, `shutdown`, `checkpoint`, `restore`; one supervisor, two readers, one stdin writer per entry |
| Output buffer | `execution/buffer.rs` | a ring of retained bytes, the absolute end cursor, eof, error | `append`, `read`, `save`, `restore` |
| Terminal input | `execution/input.rs` | a queue of 8 messages and 65,536 bytes, the writing thread | `write`, `cancel`, the writer loop |
| Native runtime | `runtime.rs` | the desktop permit, the capacity permits, one `Cancellation` per call | `run`, `interactive`, `run_with_timeout`, `checkpoint`, `sleep` |
| PowerShell pool | `ps/pool.rs` | permits, idle slots, workers, their pipes | `execute_with_timeout`: acquire, spawn, probe, exchange, release |
| Workflows | `workflow.rs`, `workflow/tools.rs` | records with step results, cancellation tokens, retired set, `workflows.json` | `start`, `list`, `get`, `cancel`, the step loop, `finish`, `shutdown_connection`, `shutdown`, checkpoint worker, `restore` |
| Observation | `observation.rs`, `observation/native.rs`, `observation/tools.rs` | watches, waits, the shared event history with cursors, retired set, its checkpoint | `create_scoped`, `remove`, `read`, `start_wait_scoped`, `await_wait`, `cancel_wait`, `shutdown_connection`, `shutdown`, `restore`; one thread per watch that calls `ready`, `emit`, `finish` |
| ETW recovery | `observation/etw.rs`, `observation/etw/recovery.rs` | trace sessions that survive the process, their names | start, stop and reclaim sessions of a lost host |
| Debugger sessions | `diagnostics.rs`, `diagnostics/debugger.rs` | sessions per connection, an actor thread with a Windows debug port, breakpoints, stop identities | attach, launch, continue, step, breakpoints, memory writes, detach, disconnect |
| Diagnostics snapshots | `diagnostics/{dump,stacks,waits,handles,native}.rs` | none between calls | dump, stacks, wait chains, handles |
| Resident host | `host.rs`, `host/bridge.rs`, `connection.rs` | the pipe, the set of connection tasks, the stop token | accept, handshake, serve, drain; bridge from stdio |
| Server context | `context.rs`, `context/storage.rs` | the state directory, its lease, trust of callers | replace a checkpoint file as a whole, recover from a torn one |
| Tool router | `server.rs`, `provider_tools.rs`, `coerce.rs`, `administration.rs` | handles of the managers above | `for_connection`, `shutdown_connection`, `shutdown`, 202 handlers |
| Desktop router and windows | `desktop.rs`, `desktop/*.rs` | element references per connection, snapshots with an expiry | observe, resolve, invoke, read |
| System providers | `win32/*.rs` | none between calls | one or several Windows calls with a precondition and a report |
| Overlay | `overlay.rs`, `spike.rs` | the glow window | pulse, hide |
| Start-up, elevation, registration | `main.rs`, `handshake.rs`, `elevate.rs`, `installer.rs`, `clients/*`, `system_control.rs` | client configuration files | sequential start-up |
| Binary analysis | `binary.rs`, `disasm.rs` | none | parse PE files, disassemble |

### 1.2 How they interact

* A connection (a stdio session, or one client of the resident host) is a UUID.
  `for_connection` registers it with the process manager and with diagnostics
  and hands the router a cancellation token; `shutdown_connection` cancels the
  token and lets workflows, observation, diagnostics and the process manager
  clean up, in that order. Everything with lifetime `connection` ends there,
  everything with lifetime `persistent` stays. A persistent workflow has a
  connection scope of its own, made and closed in the same way.
* A blocking call goes through the native runtime; an interactive one takes the
  desktop permit first. A call through PowerShell takes a lease of the pool.
* A workflow step calls a tool of the router, or waits for an event through
  observation; its future may be dropped at any await.
* The process manager, workflows and observation each write a checkpoint that
  replaces one file as a whole through `context/storage.rs`. The next host
  reads them and revives nothing: what was running is reported as interrupted.
* `shutdown` of the router drains the managers one after another; the host
  first waits for its connections or aborts them.

### 1.3 What is hard in it

1. *Ownership across startup.* A process is created, admitted, checkpointed and
   resumed in separate critical sections, and its owner may go between any two.
2. *Crash consistency.* An effect (a child instruction, a tool call) may only
   happen after the record that would explain it is on disk; checkpoints are
   written by several callers at once and may fail.
3. *Dropped futures.* A call may go away at any await while its blocking
   closure, its worker or its tool call lives on with the resources it took.
4. *Limits with eviction.* Records, output bytes, permits, slots and active
   tasks are counted in more than one place and given back on every exit path.
5. *Truthful reports.* A record must not say more than is known: `exited` only
   with the tree empty and the output drained, `satisfied` only with an answer,
   "effects unknown" whenever an action was begun and not answered.
6. *Progress.* Closing, killing and shutting down must end although trees,
   readers, tools, disks and Windows calls may hang.

### 1.4 What makes each component correct

| Component | Properties |
|---|---|
| Process manager | no process outlives its owner without somebody ending it; what ran is accounted for on disk; counters are exact and limits hold; evicted trees are dead; records tell the truth and final statuses stay; the file never goes back; a clean shutdown leaves nothing; cleaning, killing and shutdown end |
| Native runtime | desktop exclusive, concurrency bounded, no wakeup lost, cancelled closures do not start, every call returns |
| PowerShell pool | a permit finds a slot, a worker with a command or an answer of somebody gone is never used again, no output of an earlier command in a later answer |
| Workflows | an action is dispatched only with its marker on disk, reports are honest across restarts, scopes end with their workflow, records follow tasks, clean shutdown, every workflow ends |
| Observation | a wait sees every event after its cursor or is told of the gap, nothing of a closed connection goes on, retired watches leave, outcomes are final, what was reported as persistent is in the file |
| Output buffer, terminal input | no byte twice, every gap reported; queued bytes equal the budget taken |
| Debugger | a target is never left stopped or patched; a stop identity acts on the stop it names |
| Resident host | a connection that is accepted is cleaned by every manager exactly as far as it was registered |
| System transactions | each failing step leaves the old or the new state and says which |

## 2. Modules

| Module | Contents |
|---|---|
| `Execution` | the process manager: starts, trees, supervision, eviction, checkpoints, shutdown, loss of the host |
| `OutputStream`, `OutputBounds`, `OutputBuffer`, `OutputBufferProofs` | what a reader of output is promised, the bounds, and the ring of retained bytes that implements it |
| `TerminalInput` | the input queue of a terminal, its writer and its cancel thread |
| `NativeRuntime` | permits, deadlines and cancellation of blocking calls |
| `PowerShellPool` | workers, slots and leases of the PowerShell pool |
| `Workflow`, `WorkflowProofs` | workflows: the step loop, markers, interruption, checkpoints, restarts |
| `Observation` | watches, waits and the shared event history |
| `TraceRecovery` | the journal of ETW sessions and who stops which |
| `DebugSessions`, `DebugSessionsProofs` | admission, revocation and cleanup of debug sessions |
| `BreakpointEngine` | one session's actor, the threads and the code of its target |
| `HostLifecycle` | connections of the resident host through all managers, drain and shutdown |
| `FileTransaction` | `fs_write`, `fs_patch`, `fs_copy`, `fs_move` |
| `SecurityEdit` | edits of access lists and owners of a tree |
| `ServiceControl`, `ServiceConfiguration` | one service that is started, stopped, restarted or deleted; created or configured |
| `Administration` | administration calls, abandoned closures, mounts, images, scripts and jobs |
| `Windows` | references to windows, the lifetime tracker and its hook |
| `Overlay` | the glow around the screen and the captures it must not be in |
| `MC...` | the instances for TLC, section 3 |
| `TreesProofs` | theorems of `Execution` and `Windows`, the parts of `MCTrees` |
| `DesktopProofs` | theorems of `Observation` and `Overlay`, the parts of `MCDesktop` |
| `CallsProofs` | theorems of `NativeRuntime` and `TerminalInput`, the parts of `MCCalls` |
| `EffectsProofs` | theorems of `FileTransaction` and `HostLifecycle`, parts of `MCEffects` |
| `ProvidersProofs` | theorems of `TraceRecovery`, `ServiceControl`, `ServiceConfiguration`, `Administration` and `PowerShellPool`, parts of `MCProviders` |

In every module one action is one critical section of the code, the code between
two awaits, or one step of the operating system. Definitions whose comment
begins with "Seeded fault" are variants of the operator after them with one
plausible mistake. They are not part of any specification; each property has at
least one that it refutes, listed under `mutants` in `PROJECT.json`.

Where a `CASE` would have guards that hold together, the modules use `IF`: TLC takes
the first guard that holds, but the language leaves the choice open, and a proof
has to consider every choice.

### 2.1 Execution

A start is at the same time a call of `ExecutionManager::start`, the identifier
of the entry and the process tree. `pc[s]` is where the call is:

```
idle -> reserved -> created -> admitted -> [save ->] ready -> resumed -> done
                                                          \-> resave -> done
        (any error before admission)  -> failed
        (any error after admission)   -> failing -> failed
```

| State | Code |
|---|---|
| `conns`, `closed`, `stopping` | `registry.connections` and their tokens, `registry.closed`, the host's stop token |
| `entries`, `pending`, `budget`, `evicted` | the registry and its counters; a buffer is the unit of the budget (a job has two streams, a terminal one) |
| `rec` | the fields of `ExecutionRecord` the properties tell apart; `seen` is what the last sample said, `reason` the cancellation, `current` is false once the record no longer speaks of a live process |
| `job` | the native tree, output pipes, stdin pipe and pseudoconsole |
| `sup` | the supervise thread; `late` is between its look at the deadline and its termination of the tree, which happen under different locks |
| `todo`, `stopList`, `downTodo`, `downFailed` | the lists `shutdown_connection` and `shutdown` collected under the lock and work off without it |
| `wanted`, `saves`, `disk` | the callers of `checkpoint`, the snapshot in flight, `execution.json` |
| `failures`, `ran` | history: terminations reported as failed; persistent starts ever resumed |

Environment: trees exit in two stages (root, then descendants), a termination
takes effect some time after it was issued, pipes end when the tree is gone (a
terminal's only after its pseudoconsole is closed), and the host can be lost at
any moment (`HostRestart`); every job object then closes and kills its tree.
`Faults` names the operating-system calls that may fail.

A process is created, put into its job object and, if that fails, terminated before
`create` returns its error (`native.rs` 541-596): the three calls are one step, so a
suspended process outside its job is not a state of the model. Two more abstractions
matter. The reader threads are a single stream, which ends or
fails. Eviction is written as a set: `IsEviction` is the shortest oldest-first
prefix of the evictable entries that makes room, or all of them.

### 2.2 NativeRuntime

`caller[o]` is the future, `task[o]` the blocking closure; permits are held by
sets of calls, so that "moved into the closure" is visible as a permit that
stays when the caller is gone. `sleep` has three states because the lost-wakeup
question is about what lies between them: `locked` before the check, `dozing`
after it with the lock still held, `asleep` on the condition variable. `Stuck`
calls are Windows calls that never return.

### 2.3 PowerShellPool

A request moves through permit, slot, spawn, probe, exchange and release. Before it
writes its command it polls stdout (541) and then stderr (549), once each and without
waiting; the two polls and the write are three steps. The process behind a slot answers,
dies, or lets something that an earlier command left behind write output that belongs to
no frame, at any time, to stdout (`noise`) or to stderr (`stray`). `noise` is `early` if
it came before the request that leases the worker polled stdout, and `late` otherwise.
Late output, also that between a poll and the write, does become part of that command's
result (388-389): the pipes carry no mark that would tell it apart, and all that the
polls can reject is what was there before them. `NoForeignOutput` says that they do, and
no more.

### 2.4 Workflow

`phase[w]` is where `workflow_start` and then the task of `w` is; `at`, `res` and
`had` are the locals of `execute`. Checkpoints are a queue of callers for
`checkpoint_serial`, the one that writes with its snapshot, and the callers that
were told of an error and go through the two locks of `checkpoint_failed`.
Interruption by deadline or cancellation is possible in every phase of a step,
as `select!` drops the operation wherever it is. Tools and events are external:
a tool may answer anything at any time or never.

`dispatched`, `answered` and `forgotten` are history variables that survive the
host, to state what must be true of the file afterwards. `HostRestart` requires
that some workflow was started: without one the restarted host is the initial
state again.

### 2.5 Observation

`store` is the part of `Store` that a snapshot shares with the file: watch
records, retained events, the next id. `handles` are the keys of `controls` and
`wait_cancels` together, `canceled` and `finished` the flags behind them.
`call[x]` is where `create_scoped` or `start_wait_scoped` is, `provider[w]` where
the watch's thread is, `task[v]` where the wait's task is. `ProviderFinishes` is the
critical section of `Sink::finish` and `ProviderEnds` its `mark_finished`, which
comes after the unlock.

An event matches, does not match, or is a gap; a filter names one watch or
none. Bytes are not counted: `Evictions` lets an append push out as many old
events as a large one might, and any append may meet the limit of what a watch
records. `due[v]` is the last event that carries a time within the wait's
deadline. `log` remembers every event of this life of the host, so that
`WaitVerdictIsTrue` can compare a wait's answer with what was recorded and not
only with what was kept. A cursor of an earlier epoch is `Stale`.

A wait that times out answers for the events up to its last read. An event
recorded in time but between that read and the look at the clock (1279) is not
read any more; the model has that step, and the property is stated up to the
reported cursor.

### 2.6 OutputBuffer and TerminalInput

`OutputBuffer` keeps the values of the bytes, because an answer must carry the right
ones. `buffer` has the window and the end cursor of `ByteBuffer`; `sent` and `received`
remember what the child wrote and what the client was told. A checkpoint may be
older than what the client has read: the restored buffer then answers for a
cursor it has not reached. `OutputStream` is what a client is promised: the bytes in
order, each once, and a reported gap for every byte that was dropped.
In `TerminalInput` a byte stands for a chunk. The writer may hang in `WriteFile`;
`CancelSynchronousIo` reaches whatever call the writer is in at that moment and
nothing if it is in none, which is why the canceller has to look again.

### 2.7 TraceRecovery

A session of Windows outlives the process that started it. The journal entry is
written before the session starts and cleared after it stops; a process that
starts, and every watch before it registers, stops the sessions whose controller
is dead. Each read of the journal, of the process table and of the session list
is a step of its own, and processes crash between any two.

### 2.8 DebugSessions, BreakpointEngine and HostLifecycle

`DebugSessions` has the request, the actor thread and the cleanup of each session as
separate processes that meet in the registry. What the actor does to its target
is `BreakpointEngine`: threads trap before the first event is delivered, events queue
up in Windows, a step over a breakpoint suspends the other threads, and cleanup
may find traps still queued. `DebugActiveProcessStop` is taken to succeed for a live
target. `HostLifecycle` composes the managers: what a manager
runs is an item `<<manager, connection, lifetime>>`, and each manager is reduced to
how it admits, lists and ends its items, as the other modules show it to.
Persistent watches and waits are admitted even after the managers' shutdown, as
in the code; `EndedHoldsNothing` excepts them. A registration whose second
half fails leaves its first half registered. It does no harm, as 64 connections
cannot exhaust 128 places.

### 2.9 FileTransaction and SecurityEdit

A file is one identity with contents, which may be torn, and a version that every change
raises. Requests, other programs, a failing step, the time budget and a crash may come
between any two system calls. `SecurityEdit` walks a tree and then changes what it found
by path, while other programs move and link names. `EditIsSound` says that the edit
changes only what the walk had found, an object below the root only while it is below
the directory that was the root at first, and that "completed" means complete. The root
itself is excepted: the walk records it without a look at `root_identity`
(`filesystem.rs` 1546), and the pin that is compared with it is dropped where the target
is the root (1595-1599). Three swaps of the root directory, before the walk, before the
pin and before the change, make the edit go to another directory. `MaxRootSwaps` admits
them in the run; the property does not speak of them.

### 2.10 ServiceControl, ServiceConfiguration and Administration

One call each on a service that others change meanwhile. What was asked of services is
kept as a sequence, so a request that is sent twice is seen. Time is counted in
ticks, the interval between two queries; wait hints and checkpoints are those the
code goes by. In `ServiceConfiguration` a setting is a field whose value says who
wrote it. `Administration` has callers that are answered at their deadline while the
closure goes on with its permits. The permit of a script belongs to the caller's
future, that of a closure to the closure. Only calls with the mutation permit take the
storage lock, so the lock is folded into it. `AdministrationIsSound` holds a report of "no
mutation" to be true where the closure or the script made it. Where the caller gave up
on its closure it is not always: that is `NothingHappensUntold`, section 3.1. A mount is removed by path
without a comparison: only a program outside can make that the wrong one.

### 2.11 Windows and Overlay

Windows reuses an HWND as soon as its window is gone; a reference names the HWND
and the generation the tracker has counted. External assumptions: the hook
delivers in order, the event of a creation is queued when the HWND becomes valid
and that of a destruction not later than it becomes invalid, and events are lost
only when the tracker's own gap or borrow flag can tell. The native calls that read the data
of a window (`windows.rs` 880-920) are one step: the HWND may be given away before and
after it, not in the middle. The reading of an owner or of its process may fail whether or not
the window is open. The comparison of owner
and process is the worst case of the same owner. In `Overlay` the level is its
phase and whether it rounds to a visible alpha; time is whatever the waits were.

## 3. Runs

An MC module may hold several parts that share no state: its variable `part` is
chosen at the start, and a behaviour is one of that part. Such a run asks the
same kind of question of each part, and the part is an instance of its module.

| Run | Instance | Checks | States |
|---|---|---|---|
| `execution` | job `j1` with stdin and persistent terminal `p1`, one record slot, two buffers, resident, saves may fail (trees can always be terminated); or five bytes of two values through a window of two, chunks of up to three | `RanIsAccountedOnDisk`, `ReservationsAreExact`, `EvictedTreesAreDead`, `CleanShutdown`, `RecordTellsTruth`, `DiskNeverGoesBack`; `ImplementsStream` | 2.8 million |
| `trees` | a job with a deadline and a terminal of a stdio server, room for both; or the same with one record and two buffers, samples and spawns may fail; or two handles, two windows each, one place in the tracker's table and one reference, two calls, two epochs | `NoOrphanTree`, `OutcomesStay`; `WindowsAreTrue` | 3.4 million |
| `execution_progress` | a terminal with a deadline, create, spawn, resume, kill and read may fail; or a host with one client and two items of any kind | `Progress`; `StopEnds` | liveness |
| `desktop` | a watch that keeps one event and a wait for it, of one connection; or two captures, two pulses, one display change | `WaitVerdictIsTrue`, `SweptIsStopped`, `TerminalStays`; `GlowIsTrue` | 4.5 million |
| `records` | a persistent workflow of two actions, two host lives; or a persistent watch and a persistent wait, two host lives | `DispatchIsRecorded`, `HonestReport`, `ScopeEndsWithWorkflow`, `CleanShutdown`; `ReportedIsKept` | 3.3 million |
| `calls` | two interactive calls, one of which hangs, and a read, capacity 2; or three writes, a queue of one, a budget of three | `PermitsAreSound`, `NoLostWakeup`, `CallsEnd`; `InputIsTrue`, `BudgetComesBack` | safety and liveness |
| `connections` | three debug sessions, one persistent, one active at a time; or two workflows under a limit of one record | `NothingHeldAfterCleanup`, `FailedStartIsUndone`; `RecordsFollowTasks`, `WorkflowEnds` | safety and liveness |
| `providers` | two traces and three processes; a service under a deadline of two ticks and three changes by others; a configuration; two administration calls of any kind on one mount or image; a tree of two levels and a directory outside it; three requests for two PowerShell workers | `OwnershipIsKept`; `ServicesAreTrue`; `AdministrationIsSound`; `EditIsSound`; `LeasesAreSound` | safety |
| `effects` | a target of two threads, one breakpoint, one fault; two file requests on two names, one change by others, one crash; two clients, three managers, one item | `EngineIsTrue`; `OutcomesAreTrue`, `OnlyInPlaceTears`, `NoUpdateIsLost`; `NothingIsLeaked` | safety |
| `observation_retired` | one watch of a connection | `RetainedIsRemovable`, **violated** | |
| `breakpoint_queue` | two threads, one breakpoint, a detach | `QueuedTrapsAreHandled`, **violated** | |
| `administration_report` | the instance of `providers` | `NothingHappensUntold`, **violated** | |

### 3.1 The violated properties

* `RetainedIsRemovable` (`observation.rs` 1431). `Sink::finish` asks under the store's lock
  whether its watch is retired and marks its control finished after the unlock. A
  `shutdown_connection` between the two retires the watch, sees that the control is
  not finished, and leaves the watch to a provider that does not look again. Its
  record, control and `retired_watches` entry stay until the host ends and count
  against `MAX_RECORDS`; no later connection may see the watch, so none can follow
  the advice of the message at the limit, "remove terminal watches with
  watch_remove forget=true" (896).
* `QueuedTrapsAreHandled` (`diagnostics/debugger.rs` 1152). Detaching takes at most one
  debug event and then lets the target go. A second thread whose INT3 was already
  raised keeps its instruction pointer behind the breakpoint, although
  `docs/control-guide.md` 308 says that queued traps of other threads are handled
  without skipping the original instruction.
* `NothingHappensUntold` (`win32/admin_common.rs` 45). `begin_mutation` checks the context
  and then stores `mutation_started`. A caller that gives up between the two reads the
  flag too early and answers "mutation_may_have_completed": false; the change follows.

Seen while modelling, in the model, and not stated as a violated property:

* `win32/filesystem.rs` 1546, 1595-1599: the root of a security edit is not held to its
  identity, section 2.9.
* `overlay.rs`: the glow stays on the screen when a barrier was not acknowledged; a
  capture that overlaps the end of a fade leaves the bitmap allocated behind an
  infinite wait; after a display change in the dark the thread wakes every
  millisecond, where the comment of `run` says "Idle costs nothing".
* `desktop.rs` 742: in the last millisecond of its deadline a wait passes
  `timeout_ms` 0, which is rejected, and reports a failure in place of a timeout.
  This call is not in a module.
* `workflow.rs`: a checkpoint failure between `start`'s look at `persistence_error` and its
  critical section (389), and the same in `finish` (716).

### 3.2 Bounds

**Why they are enough.** The hazards are races between one start (or call, or
workflow) and a closing connection, a shutdown, a checkpoint or a lost host, and
contention of two for one place. One connection and two starts have both. One
record slot makes eviction happen at the second start, and the weight of a job
(two buffers) against that of a terminal (one) makes record limit and budget
limit bite separately. A persistent and a connection-bound start are in one
instance because checkpoints of the one race with eviction for the other. Three
calls for two permits, three writes for a queue of one, and three requests for two
workers give a waiter behind two holders. Two actions in a workflow distinguish
"this step's marker" from "an earlier step's marker", and the first continues on
error so that a failed step is followed by another. Two host lives are enough for
what is asked of a restart, because a restored record is never revived. A history
of one event makes the second event evict the first, which is all a wait can miss;
a persistent watch and a persistent wait meet only in the checkpoint, and one call
each has all its callers. A window of two bytes and a stream of five has a cursor
before, in and behind the window, twice over. Three processes are a controller, one
that recovers and one that recovers at the same time. Two file requests and one
change by others put a change before, between and after the steps of both. A
service has three changes by others because two steps apart are needed to take a
checked name away and put another service in its place.

**What the runs do not reach.** Processes and terminals fail to be terminated only in
`execution_progress`; a deadline is in `trees` and `execution_progress`, stdin in `execution`. The
wait of `desktop` names its watch, and its watch and wait are not persistent; the
workflows of `connections` are not persistent either, those of `records` are. So a failed
checkpoint of a persistent watch, and the filter that names no watch, are covered only by the
theorems of `DesktopProofs`. One of the three writes of `calls` is larger than the budget and
always refused. The host of `effects` runs no diagnostics items; `NothingLeaks` covers them.

The theorems of section 4 hold for every value of these constants, which is the
better answer where there is one.

**Symmetry** is used nowhere: the starts and calls of an instance differ in kind.

**Deadlock** checking is off in every run: starts, calls and workflows are used
up, and an instance in which all have ended is a legitimate end.

**Bounds in the models**: the sets of starts, calls, requests, writers, traces and
workflows (identifiers are never reused, so each is one call), and `MaxLives`, `MaxIds`,
`MaxCalls`, `MaxOutside`, `MaxSwaps`, `MaxRootSwaps`, `MaxChanges`, `MaxCrashes`,
`MaxFaults`, `MaxBreaks`, `MaxItems`, `MaxPulses`, `MaxRefits`, `MaxBytes`, `MaxChunk`,
`MaxCheckpoint`, `MaxInstances`, `MaxImages` and `Slots` of the modules that declare
them. `MaxRecords`, `MaxBudget`, `Capacity`, `Size`, `MaxWorkflows`, `MaxActive`,
`MaxRetained`, `MaxEvents`, `MaxTracked`, `MaxRefs`, `MaxConnections`, `MaxRegistered`,
`MaxDiagnostics`, `MaxBreakpoints`, `QueueMax`, `MaxPending`, `DepthLimit` and
`TargetLimit` are the program's own limits, made small.

### 3.3 Fairness

* `Execution`: threads that exist run (the continuation of a start that was
  called, supervisors, readers of a dead tree's pipes, the stdin writer, the
  closing and stopping threads), Windows completes `TerminateJobObject`, and a
  caller of `checkpoint` gets `checkpoint_lock` if it is free again and again
  (strong fairness). Nothing is assumed of clients, of processes ending by
  themselves, or of calls succeeding: "kill", "read" and
  the others may fail for ever, and the liveness properties say so
  (`s \in failures`).
* `HostLifecycle`: the host's loop, the polled task of each connection, the cleanup of
  each owner and the actors that were told to end run. Nothing is assumed of clients.
* `NativeRuntime`: timers fire, runnable futures are polled, blocking threads
  run. `CancelContext` needs the sleeping lock, which a sleeper takes again and
  again, hence strong fairness. Nothing is assumed of work in `Stuck`, or of
  clients.
* `TerminalInput`: the writer, the canceller and the polled callers run. Nothing is
  assumed of the console.
* `DebugSessions`: actors run.
* `Workflow`: the task's own code runs and a step's deadline passes. Nothing is
  asked of tools, events or the disk, so `WorkflowEnds` says that the deadline of
  a step covers every await inside it.

## 4. Theorems

Proved by TLAPS for all values of the constants that satisfy the named
assumptions of the module: sets of starts, calls and sessions are finite or of
any kind, subsets are subsets, limits are naturals, owners are connections, and the
value for "no record" is not a record. Nothing is assumed of the behaviours. A
refinement or an action property is proved for `Spec` without its fairness, as it
does not need it.

A module of proofs extends the MC module whose run checks the properties, so that the
theorem and the run speak of the same definition. `Spec` is the specification of
the module the MC module extends, `Input!Spec` and `Resident!Spec` those of `TerminalInput` and
`HostLifecycle` as it instantiates them, and `AllSpec` the specification of all its parts: a
step of one part leaves the others alone, so each part's invariant is kept. The
constants stay what they are declared to be, of any value that satisfies the
assumptions; only the configuration file makes them small.

| Theorem | Statement |
|---|---|
| `TreesProofs!Typed` | `Spec => []TypeOK` |
| `TreesProofs!NoOrphans` | `Spec => []NoOrphanTree` |
| `TreesProofs!EvictionsAreSafe` | `Spec => []EvictedTreesAreDead` |
| `TreesProofs!RanIsAccounted` | `Spec => []RanIsAccountedOnDisk` |
| `TreesProofs!RecordsTellTruth` | `Spec => []RecordTellsTruth` |
| `TreesProofs!ReservationsHold` | `Spec => []ReservationsAreExact` |
| `TreesProofs!ShutdownsAreClean` | `Spec => []CleanShutdown` |
| `TreesProofs!DiskOnlyGrows` | `Spec => DiskNeverGoesBack`, an action property |
| `TreesProofs!FirstReasonStays` | `Spec => OutcomesStay`, an action property |
| `TreesProofs!WindowsStayTrue` | `AllSpec => []WindowsAreTrue` |
| `OutputBufferProofs!TypeCorrect` | `Spec => []TypeOK` |
| `OutputBufferProofs!BufferImplementsStream` | `Spec => ImplementsStream`, a refinement |
| `CallsProofs!PermitsHold` | `Spec => []PermitsAreSound` |
| `CallsProofs!WakeupsAreKept` | `Spec => []NoLostWakeup` |
| `CallsProofs!RuntimeTyped` | `Spec => []TypeOK` |
| `CallsProofs!InputStaysTrue` | `Input!Spec => []InputIsTrue` |
| `WorkflowProofs!WorkflowTyped` | `Spec => []TypeOK` |
| `WorkflowProofs!DispatchIsAlwaysRecorded` | `Spec => []DispatchIsRecorded` |
| `WorkflowProofs!ReportsAreHonest` | `Spec => []HonestReport` |
| `WorkflowProofs!ScopesEndFirst` | `Spec => []ScopeEndsWithWorkflow` |
| `WorkflowProofs!ShutdownIsClean` | `Spec => []CleanShutdown` |
| `WorkflowProofs!RecordsAlwaysFollowTasks` | `Spec => []RecordsFollowTasks` |
| `DesktopProofs!WaitVerdictsAreTrue` | `Spec => []WaitVerdictIsTrue` |
| `DesktopProofs!SweepsStop` | `Spec => []SweptIsStopped` |
| `DesktopProofs!TerminalStaysAlways` | `Spec => TerminalStays`, an action property |
| `DesktopProofs!ReportedStaysSaved` | `Spec => []ReportedIsKept` |
| `DesktopProofs!GlowStaysTrue` | `AllSpec => []GlowIsTrue` |
| `DebugSessionsProofs!SessionsTyped` | `Spec => []TypeOK` |
| `DebugSessionsProofs!NothingIsHeld` | `Spec => []NothingHeldAfterCleanup` |
| `EffectsProofs!FilesTyped` | `Spec => []TypeOK` |
| `EffectsProofs!OutcomesHold` | `Spec => []OutcomesAreTrue` |
| `EffectsProofs!UpdatesAreKept` | `Spec => NoUpdateIsLost`, an action property |
| `EffectsProofs!OnlyInPlaceEverTears` | `Spec => []OnlyInPlaceTears` |
| `EffectsProofs!NothingLeaks` | `Resident!Spec => []NothingIsLeaked` |
| `ProvidersProofs!OwnershipAlwaysKept` | `Spec => []OwnershipIsKept` |
| `ProvidersProofs!ServicesStayTrue` | `AllSpec => []ServicesAreTrue` |
| `ProvidersProofs!AdministrationStaysSound` | `AllSpec => []AdministrationIsSound` |
| `ProvidersProofs!LeasesStaySound` | `AllSpec => []LeasesAreSound` |

None of the properties is inductive alone. Each module of proofs states its
inductive invariant as a conjunction of named parts, proves that every part is
preserved, and draws the properties from it. The proofs start with frame
lemmas: which actions change a variable at all. A step lemma then looks at those
actions only.

### 4.1 Execution

*Owners* (`NoOrphans`). A tree that runs, or can still be resumed, is in the registry
(`EntryInv`). Who closes a connection or shuts down collects the registry into a list,
and takes an entry off only with the termination issued, found unnecessary or
reported; only a closed connection has such a list (`TodoInv`).

*The file* (`RanIsAccounted`, `DiskOnlyGrows`). `RanIsAccountedOnDisk` says something of the
file at present; what makes it stable is a statement about the snapshots that
will replace the file: a start that may be resumed, or ever was, is in the file
*and* in every snapshot in flight (`SavedInv`). That holds because only one caller
at a time has a snapshot (`OneSaverInv`, the checkpoint lock), because every later
snapshot is taken from a registry that still knows the start or has counted it
as evicted (`KnownInv`), and because a start is unknown everywhere before its
admission (`FreshInv`). That the file never goes back needs the same of statuses:
the snapshot follows the file and the registry follows the snapshot (`FollowInv`).

*Reports* (`RecordsTellTruth`). A record says `seen = "dead"` only of a tree that is dead,
and dead trees stay dead (`DeadInv`); the status of a record agrees with its reason
and with where its start and its supervisor are (`StatusInv`, `SettledInv`). A settled
record names its reason (`NamedInv`); with that, no later deadline, cancel, close or shutdown
replaces a reason or a final status (`FirstReasonStays`): whoever sets one looks first.

*Shutdown* (`ShutdownsAreClean`). What a shutdown no longer waits for is dead and reported
(`DownInv`), so its last snapshot, and every later one, holds only what has ended
(`LastSaveInv`).

*Counters* (`ReservationsHold`). The reservations are counted by cardinality and the
budget by a weight; the lemmas `Countable`, `WeightSum`, `WeightLess` and `OneMore` say what
adding, removing and evicting does to both. A restored registry fits because
every file and snapshot does (`FitInv`).

### 4.2 Windows

What is proved is that two readings of an identity that agree, with the data of a
window read between them, are about one window. It is a statement of what is on
its way to the tracker, since Windows may give the HWND away between any two steps.

*Events.* As long as the tracker answers for an identity, either the HWND is still that of
the window whose data went under the identity, or the creation of the next one is in
the hook's queue, or the tracker knows that it has missed something and will forget
everything before it answers (`Trails`). A
call that read the data of another window under the identity therefore has that
creation in front of the fence of its own second request, and its check will fail
(`Outrun`). `DataInv` says so of every pair of calls and of all that was reported; no
weaker statement is inductive, as the data of two calls may be read in any order.

*Numbers.* The pair of epoch and generation of an HWND only grows (`Newer`), so that an
identity that has been replaced never comes back, and what a reference stands for
(`RefsInv`) is settled.

*Actions.* A close or a minimize is asked for of the window the identity was checked for.
As long as the identity is current the window is open, or an event is on its way
that says not; once it is replaced within its epoch, the window is not open (`Firm`). Before
the second reading, the weaker statement holds that the events of the HWND are in
front of the call's fence (`PrecededBy`).

### 4.3 The other modules

* `OutputBuffer`: the window is a suffix of what was sent, the checkpoint's
  window was one (`WindowIsSuffix`), and the client has been told of every byte below its
  cursor (`ClientInv`). Each step then maps to a step of `OutputStream` or a stutter.
* `NativeRuntime`: the desktop permit has one holder and every closure of an
  interactive call is that holder; the capacity permits held are exactly the closures
  queued or at work, whatever became of their callers. `cancel` needs the lock that
  the sleeper holds between its check and its wait.
* `Workflow`: the file is an earlier version of the snapshot in flight, which is an
  earlier version of the record (`FileInv`); a task whose flush was confirmed has its marker
  in the file. A record that claims to know an outcome has an answer behind it, in
  every version (`HonestInv`). A task has its record and its token (`TasksInv`), its steps
  stand where the task does (`StepsInv`), and after the last flush of a shutdown nothing
  changes what it wrote (`LastInv`).
* `Observation`: what a wait's task has read is true of `log` up to its cursor, in every
  phase of the task (`WaitInv`); what was recorded and is not kept was dropped, and its
  watch says up to where (`HistoryInv`); as long as a provider may write, its watch has a
  record and a control (`HandleInv`), and a call before its admission has left nothing
  anywhere (`FreshInv`), so that a sweep finds all there is.
  A restart appends one event per watch with a recursive function. Its result is
  proved by the least number principle, a theorem about sets, in place of an induction
  scheme. For `ReportedStaysSaved` the registry, the snapshot in flight and the file
  each hold what was reported (`SavedInv`).
* `TerminalInput`: a request is in one place, with its caller, in the queue or with
  the writer (`PlaceInv`), the request that the cancelling thread sees is the writer's own
  (`ActiveInv`), and what was confirmed was delivered (`WriteInv`). The budget is a
  cardinality, of the bytes of the requests that have taken theirs.
* `DebugSessions`: a cleanup that was called knows every actor it must wait for; an
  actor that is not in its joins was admitted for somebody else, or has ended.
* `FileTransaction`: from the comparison of the revision on, the file a request goes by
  is locked or pinned (`LockInv`, `PinInv`), so nobody else may change it, and its revision is
  the one the caller read (`RevisionInv`). `TraceInv` ties each outcome to what was done.
  For `OnlyInPlaceEverTears` every torn file, and every draft that copies one, has a witness
  that wrote in place (`DraftInv`, `SoundInv`).
* `HostLifecycle`: a cleanup has left every manager it is past, and what it told to stop
  there stays told (`LeftInv`, `ToldInv`); whoever may still start something is cancelled or
  registered where a cancel finds it (`TokenInv`). The second registration is never
  refused, because the first manager has fewer places (`LimitInv`).
* `Overlay`: one capture at a time has the lock (`LockInv`); what may be on the screen follows
  from how far it is and from where the thread of the window stands (`ScreenInv`), and
  while nobody captures the bitmap is there only for a window that shows (`BitmapInv`).
* `PowerShellPool`: a slot is idle once or leased once, and permits and their holders
  add up to the size of the pool, counted by cardinality (`PoolInv`). A worker that has a
  command is in the hands of the request that sent it, or is never put back. Output that was
  there before the polls is gone from the worker of a request that has passed them, or the
  worker is discarded.
* `Administration`: what a call planned, which permits it has, what it has checked and what it
  reported agree with where its caller and its closure are, separately, since either may
  be gone (`PlanOf`, `PermitOf`, `CheckOf`, `ReportOf`).
* `ServiceControl`: a step that counts as accepted was sent once, to one service (`AskedInv`
  counts the requests of the sequence);
  an ended step tells what was (`EndedInv`); a handle keeps its service, and what was seen of
  it happened (`HeldInv`); a restart starts only what had stopped (`OrderInv`); and a deletion
  asks for the service that had the name first (`DeleteInv`).
* `ServiceConfiguration`: as long as the call has a handle, the name stays with the service
  the call was planned for (`Pinned`); what it counts as applied is what it changed, and
  what it is asked for is applied or still to do (`Counted`).
* `TraceRecovery`: what a recovery has read of the journal or the session list may be
  stale when it acts. That a process is dead cannot be: dead stays dead. `ThreadOK`
  carries what each thread may still rely on, `TraceOK` relates session and entry.

## 5. What is only model-checked

* Liveness under fairness, and `ENABLED`, are out of this prover's reach: `Progress`,
  `StopEnds`, `CallsEnd`, `BudgetComesBack`, `FailedStartIsUndone` and `WorkflowEnds` stay with TLC.
* Induction over data: the library's induction schemes take an operator as a
  parameter, which the provers cannot instantiate. Where a recursive function
  had to be reasoned about, the least number principle took its place.
* `EditIsSound` (`SecurityEdit`) stays with TLC: the object behind a path is found by a fold
  over its names, so every step of a proof would be about what a fold computes.
* `EngineIsTrue` (`BreakpointEngine`) stays with TLC: what several threads do at once to the code
  and to each other's queue is written with folds over sets.
* `RecordsFollowTasks` and `ReportedIsKept` of
  the runs are those of an instance of `Workflow` and of `Observation`, whose theorems
  `RecordsAlwaysFollowTasks` and `ReportedStaysSaved` hold for every value of the constants.

## 6. What is not modelled

The map names about 15 % of the source. The tool router and most system
providers are one Windows call and a JSON report each: there is no state to
relate. Parsing of PE files and machine code, OCR, drawing and geometry are data
without control. `PROJECT.json` lists every part with its reason. Of the modelled
parts, left out are: formatting and sizes of records, the arguments of tools and
the binding of results into them (a binding succeeds or fails), the response
envelope of a PowerShell worker (it parses or does not), the layers of
`context/storage.rs` below "the file is replaced or left alone", the collectors
behind each event source (they get ready, emit, lose events, return), the commands
of a debugger that only read, focus, movement and geometry of windows, and logging.

## 7. Plan

In order of importance:

1. Theorems about `BreakpointEngine` (`TrapsAreTheDebuggers`, `CleanMeansClean`) and `SecurityEdit`, once
   their folds are written as statements about what they return.
2. `Observation` as an implementation of an unbounded event stream, in which a wait is
   satisfied by a match after its cursor or told of a gap.
3. `CheckpointFile`: the steps of `context/storage.rs`, shown to implement the file that
   is replaced or left alone, which `Execution`, `Workflow` and `Observation` use.
4. The interactions and element references of `desktop.rs`; power and firewall changes,
   which are transactions of several calls with a report.
