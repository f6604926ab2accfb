------------------------------ MODULE Workflow ------------------------------
(***************************************************************************)
(* Deterministic workflows (src/src/workflow.rs, workflow/tools.rs): a     *)
(* task executes the declared steps of each workflow, one after another.   *)
(* A connection workflow goes with its connection; a persistent one has a  *)
(* connection scope of its own, and marks every action in the checkpoint   *)
(* file before it dispatches it, because the host may be lost at any time. *)
(*                                                                         *)
(* Tools, event waits and their results are external. One action is one    *)
(* critical section of the store or the code between two awaits.           *)
(***************************************************************************)
EXTENDS Integers, Sequences, FiniteSets

CONSTANTS
    Flows,         \* calls of workflow_start; a UUID is never used twice
    Conns,         \* connections
    Owner,         \* [Flows \ Persistent -> Conns]
    Persistent,    \* the workflows with lifetime persistent
    Plan,          \* the declared steps: what they do, and continue_on_error
    MaxWorkflows,  \* MAX_WORKFLOWS
    MaxActive,     \* the limit of 16 in start
    MaxLives,      \* bound: how often the host is started
    NoRecord, NoSave

ASSUME WorkflowAssumption ==
    /\ IsFiniteSet(Flows)
    /\ Owner \in [Flows \ Persistent -> Conns]
    /\ Persistent \subseteq Flows
    /\ Plan \in [Flows -> Seq([does: {"action", "wait"}, goOn: BOOLEAN])]
    /\ \A w \in Flows : Plan[w] # <<>>
    /\ {"worker", "shutdown"} \cap Flows = {}
    /\ MaxWorkflows \in Nat /\ MaxActive \in Nat /\ MaxLives \in Nat

Ends == {"satisfied", "failed", "timed_out", "canceled"}
Outcomes == Ends \cup {"running"}

\* A step that was not put into the record yet is "absent".
StepResult == [outcome: Outcomes \cup {"absent"}, maybe: BOOLEAN]
NoStep == [outcome |-> "absent", maybe |-> FALSE]
Begun == [outcome |-> "running", maybe |-> FALSE]

StepsOf(w) == 1..Len(Plan[w])
RecordOf(w) == [outcome: Outcomes, steps: [StepsOf(w) -> StepResult]]
ASSUME NoRecordAssumption == \A w \in Flows : NoRecord \notin RecordOf(w)

NewRecord(w) == [outcome |-> "running", steps |-> [k \in StepsOf(w) |-> NoStep]]

\* Callers of flush: workflow_start (step 0) and each action of a workflow, the worker, shutdown.
Worker == <<"worker", 0>>
Shutdown == <<"shutdown", 0>>
Savers == (UNION {{w} \X (0..Len(Plan[w])) : w \in Persistent}) \cup {Worker, Shutdown}

VARIABLES
    phase,      \* where start and the task of each workflow are
    at,         \* the step its task is at
    res,        \* the StepResult in its hands; at the end the workflow's outcome
    had,        \* had_failure
    scope,      \* the connection scope that a persistent workflow owns
    record,     \* store.records
    token,      \* store.cancellations and whether they are cancelled
    retired,    \* store.retired
    changed,    \* a version of the store that the checkpoint worker has not seen
    closed,     \* connections whose cancellation token is cancelled
    swept,      \* those whose shutdown_connection has gone through the store
    broken,     \* persistence_error
    queue,      \* the flushes that wait for checkpoint_serial
    writing,    \* the flush that holds it, with its snapshot
    told,       \* callers whose flush returned an error they have not recorded
    marking,    \* callers of checkpoint_failed between its two locks
    worker,     \* whether the checkpoint worker's loop still runs
    disk,       \* workflows.json
    down,       \* where shutdown is
    drained,    \* whether it saw every task end
    lives,      \* how often the host was started
    dispatched, answered, forgotten     \* history, across restarts

taskVars == <<phase, at, res, had, scope>>
storeVars == <<record, token, retired, changed>>
connVars == <<closed, swept>>
saveVars == <<broken, queue, writing, told, marking, worker, disk>>
hostVars == <<down, drained, lives>>
history == <<dispatched, answered, forgotten>>
vars == <<taskVars, storeVars, connVars, saveVars, hostVars, history>>

InStep == {"step", "flushing", "ready", "dispatched", "waiting"}
Tasking == InStep \cup {"head", "result", "closing", "closed", "finish", "finishFailed"}
Phases == Tasking \cup {"new", "checked", "rejected", "refused", "done", "lost"}

Init ==
    /\ phase = [w \in Flows |-> "new"]
    /\ at = [w \in Flows |-> 1]
    /\ res = [w \in Flows |-> NoStep]
    /\ had = [w \in Flows |-> FALSE]
    /\ scope = [w \in Flows |-> "none"]
    /\ record = [w \in Flows |-> NoRecord]
    /\ token = [w \in Flows |-> "none"]
    /\ retired = {} /\ changed = FALSE /\ closed = {} /\ swept = {}
    /\ broken = FALSE /\ queue = {} /\ writing = NoSave
    /\ told = {} /\ marking = {} /\ worker = TRUE
    /\ disk = [w \in Persistent |-> NoRecord]
    /\ down = "up" /\ drained = FALSE /\ lives = 1
    /\ dispatched = {} /\ answered = {} /\ forgotten = {}

----------------------------------------------------------------------------
(* workflow_start and WorkflowState::start.                                *)

\* for_connection, then the look at persistence_error, before the store is locked.
StartCheck(w) ==
    /\ phase[w] = "new" /\ down = "up"
    /\ \/ /\ phase' = [phase EXCEPT ![w] = IF w \in Persistent /\ broken THEN "rejected"
                                           ELSE "checked"]
          /\ scope' = IF w \in Persistent THEN [scope EXCEPT ![w] = "open"] ELSE scope
       \/ /\ w \in Persistent
          /\ phase' = [phase EXCEPT ![w] = "refused"]
          /\ UNCHANGED scope
    /\ UNCHANGED <<at, res, had, storeVars, connVars, saveVars, hostVars, history>>

ConnCanceled(w) == w \notin Persistent /\ Owner[w] \in closed

Stored == {w \in Flows : record[w] # NoRecord}
Active == {w \in Flows : token[w] # "none"}

\* Seeded fault: the connection's token is looked at before the lock is taken, or never.
AdmitsUnchecked(w) == Cardinality(Stored) < MaxWorkflows /\ Cardinality(Active) < MaxActive

Admits(w) == ~ConnCanceled(w) /\ Cardinality(Stored) < MaxWorkflows
                              /\ Cardinality(Active) < MaxActive

\* One critical section: the record, its token, then the task is spawned.
StartAdmit(w) ==
    /\ phase[w] = "checked"
    /\ IF Admits(w)
       THEN /\ record' = [record EXCEPT ![w] = NewRecord(w)]
            /\ token' = [token EXCEPT ![w] = "live"]
            /\ changed' = TRUE
            /\ phase' = [phase EXCEPT ![w] = "head"]
            /\ queue' = IF w \in Persistent THEN queue \cup {<<w, 0>>} ELSE queue
       ELSE /\ phase' = [phase EXCEPT ![w] = "rejected"]
            /\ UNCHANGED <<record, token, changed, queue>>
    /\ UNCHANGED <<at, res, had, scope, retired, connVars, broken, writing, told, marking,
                   worker, disk, hostVars, history>>

\* dispatcher.finish() of the scope, whose cleanup may report an error.
CloseScope(w) ==
    IF scope[w] = "open" THEN scope' \in {[scope EXCEPT ![w] = e] : e \in {"closed", "failed"}}
                         ELSE UNCHANGED scope

StartReject(w) ==
    /\ phase[w] = "rejected"
    /\ CloseScope(w)
    /\ phase' = [phase EXCEPT ![w] = "refused"]
    /\ UNCHANGED <<at, res, had, storeVars, connVars, saveVars, hostVars, history>>

----------------------------------------------------------------------------
(* WorkflowState::execute, the loop over the steps.                        *)

Canceled(w) == token[w] = "canceled" \/ ConnCanceled(w)
IsAction(w) == Plan[w][at[w]].does = "action"

\* return from execute with this outcome; its locals are gone
Return(w, outcome) ==
    /\ phase' = [phase EXCEPT ![w] = "closing"]
    /\ at' = [at EXCEPT ![w] = 1]
    /\ had' = [had EXCEPT ![w] = FALSE]
    /\ res' = [res EXCEPT ![w] = [outcome |-> outcome, maybe |-> FALSE]]

\* put_step, when the record is there
Put(w, result) ==
    IF record[w] = NoRecord THEN record
    ELSE [record EXCEPT ![w].steps[at[w]] = result]

\* The top of the loop: cancellation first, then the workflow's deadline, then the step.
LoopHead(w) ==
    /\ phase[w] = "head"
    /\ IF at[w] > Len(Plan[w])
       THEN Return(w, IF had[w] THEN "failed" ELSE "satisfied") /\ UNCHANGED <<record, changed>>
       ELSE IF Canceled(w) THEN Return(w, "canceled") /\ UNCHANGED <<record, changed>>
       ELSE \/ Return(w, "timed_out") /\ UNCHANGED <<record, changed>>
            \/ /\ record' = Put(w, Begun) /\ changed' = TRUE
               /\ phase' = [phase EXCEPT ![w] = "step"]
               /\ UNCHANGED <<at, res, had>>
    /\ UNCHANGED <<scope, token, retired, connVars, saveVars, hostVars, history>>

\* The operation's result, or the interruption's, comes into the loop's hands.
Yields(w, outcome, maybe) ==
    /\ phase' = [phase EXCEPT ![w] = "result"]
    /\ res' = [res EXCEPT ![w] = [outcome |-> outcome, maybe |-> maybe]]

\* Seeded fault: a persistent action is dispatched without a marker on disk.
BeginUnmarked(w) ==
    /\ phase[w] = "step"
    /\ phase' = [phase EXCEPT ![w] = IF IsAction(w) THEN "ready" ELSE "waiting"]
    /\ UNCHANGED <<at, res, had, scope, storeVars, connVars, saveVars, hostVars, history>>

\* execute_step up to its first await: bindings are resolved (or cannot be), then a
\* persistent action is flushed, and an event wait is registered.
Begin(w) ==
    /\ phase[w] = "step"
    /\ \/ /\ IsAction(w) /\ w \in Persistent
          /\ phase' = [phase EXCEPT ![w] = "flushing"]
          /\ queue' = queue \cup {<<w, at[w]>>}
          /\ UNCHANGED res
       \/ /\ IsAction(w) => w \notin Persistent
          /\ phase' = [phase EXCEPT ![w] = IF IsAction(w) THEN "ready" ELSE "waiting"]
          /\ UNCHANGED <<res, queue>>
       \/ Yields(w, "failed", IsAction(w)) /\ UNCHANGED queue
    /\ UNCHANGED <<at, had, scope, storeVars, connVars, broken, writing, told, marking,
                   worker, disk, hostVars, history>>

\* The cancellation is checked again, by execute_step and by dispatch.
Dispatch(w) ==
    /\ phase[w] = "ready"
    /\ IF Canceled(w)
       THEN Yields(w, "failed", TRUE) /\ UNCHANGED dispatched
       ELSE /\ dispatched' = dispatched \cup {<<w, at[w]>>}
            /\ phase' = [phase EXCEPT ![w] = "dispatched"]
            /\ UNCHANGED res
    /\ UNCHANGED <<at, had, scope, storeVars, connVars, saveVars, hostVars, answered, forgotten>>

\* Seeded fault: only the tool's call is raced against the step's deadline.
InterruptDispatched(w) ==
    /\ phase[w] = "dispatched"
    /\ \E outcome \in (IF Canceled(w) THEN {"canceled"} ELSE {"timed_out"}) :
          Yields(w, outcome, IsAction(w))
    /\ UNCHANGED <<at, had, scope, storeVars, connVars, saveVars, hostVars, history>>

\* The other branches of the select: the operation's future is dropped wherever it is.
Interrupt(w) ==
    /\ phase[w] \in InStep
    /\ \E outcome \in (IF Canceled(w) THEN {"canceled"} ELSE {"timed_out"}) :
          Yields(w, outcome, IsAction(w))
    /\ UNCHANGED <<at, had, scope, storeVars, connVars, saveVars, hostVars, history>>

\* put_result, or put_step of a failure when the retained state would be too large; then
\* the loop ends or goes to its next step.
PutResult(w) ==
    /\ phase[w] = "result"
    /\ \E r \in {res[w], [outcome |-> "failed", maybe |-> IsAction(w)]} :
          LET goesOn == r.outcome # "canceled" /\ (r.outcome = "satisfied" \/ Plan[w][at[w]].goOn)
          IN /\ record' = Put(w, r) /\ changed' = TRUE
             /\ IF goesOn THEN /\ at' = [at EXCEPT ![w] = @ + 1]
                               /\ had' = [had EXCEPT ![w] = @ \/ r.outcome # "satisfied"]
                               /\ phase' = [phase EXCEPT ![w] = "head"]
                               /\ res' = [res EXCEPT ![w] = NoStep]
                          ELSE Return(w, r.outcome)
    /\ UNCHANGED <<scope, token, retired, connVars, saveVars, hostVars, history>>

----------------------------------------------------------------------------
(* What the task does after execute.                                       *)

\* Seeded fault: the scope's cleanup is spawned, not awaited.
CloseInBackground(w) ==
    /\ phase[w] = "closing"
    /\ phase' = [phase EXCEPT ![w] = "closed"]
    /\ UNCHANGED <<at, had, res, scope, storeVars, connVars, saveVars, hostVars, history>>

\* dispatcher.finish().await; its error makes the workflow failed.
Close(w) ==
    /\ phase[w] = "closing"
    /\ CloseScope(w)
    /\ res' = [res EXCEPT ![w].outcome = IF scope'[w] = "failed" THEN "failed" ELSE @]
    /\ phase' = [phase EXCEPT ![w] = "closed"]
    /\ UNCHANGED <<at, had, storeVars, connVars, saveVars, hostVars, history>>

\* finish reads persistence_error before it locks the store.
FinishLook(w) ==
    /\ phase[w] = "closed"
    /\ phase' = [phase EXCEPT ![w] = IF broken /\ w \in Persistent THEN "finishFailed"
                                     ELSE "finish"]
    /\ UNCHANGED <<at, res, had, scope, storeVars, connVars, saveVars, hostVars, history>>

Finish(w) ==
    /\ phase[w] \in {"finish", "finishFailed"}
    /\ LET outcome == IF phase[w] = "finishFailed" THEN "failed" ELSE res[w].outcome
           ended == IF record[w] # NoRecord /\ record[w].outcome = "running"
                    THEN [record EXCEPT ![w].outcome = outcome] ELSE record
       IN record' = IF w \in retired THEN [ended EXCEPT ![w] = NoRecord] ELSE ended
    /\ token' = [token EXCEPT ![w] = "none"]
    /\ retired' = retired \ {w}
    /\ changed' = TRUE
    /\ phase' = [phase EXCEPT ![w] = "done"]
    /\ res' = [res EXCEPT ![w] = NoStep]
    /\ UNCHANGED <<at, had, scope, connVars, saveVars, hostVars, history>>

----------------------------------------------------------------------------
(* Clients and connections.                                                *)

CancelTokens(ws) == [w \in Flows |-> IF w \in ws /\ token[w] # "none" THEN "canceled"
                                     ELSE token[w]]

Cancel(w, forget) ==
    /\ down = "up" /\ record[w] # NoRecord
    /\ token' = CancelTokens({w})
    /\ IF forget /\ record[w].outcome # "running"
       THEN record' = [record EXCEPT ![w] = NoRecord] /\ forgotten' = forgotten \cup {w}
       ELSE UNCHANGED <<record, forgotten>>
    /\ changed' = (changed \/ ~forget \/ record[w].outcome # "running")
    /\ UNCHANGED <<taskVars, retired, connVars, saveVars, hostVars, dispatched, answered>>

CloseConnection(c) ==
    /\ c \notin closed
    /\ closed' = closed \cup {c}
    /\ UNCHANGED <<taskVars, storeVars, swept, saveVars, hostVars, history>>

Sweep(c) ==
    /\ c \in closed \ swept
    /\ LET mine == {w \in Stored \ Persistent : Owner[w] = c}
           live == {w \in mine : token[w] # "none"}
       IN /\ token' = CancelTokens(live)
          /\ retired' = retired \cup live
          /\ record' = [w \in Flows |-> IF w \in mine \ live THEN NoRecord ELSE record[w]]
    /\ swept' = swept \cup {c}
    /\ changed' = TRUE
    /\ UNCHANGED <<taskVars, closed, saveVars, hostVars, history>>

----------------------------------------------------------------------------
(* The checkpoint file.                                                    *)

Snapshot == [w \in Persistent |-> record[w]]

WorkerWakes ==
    /\ worker /\ changed /\ down \in {"up", "draining"}
    /\ Worker \notin queue \cup told \cup marking
    /\ writing # NoSave => writing.by # Worker
    /\ queue' = queue \cup {Worker}
    /\ changed' = FALSE
    /\ UNCHANGED <<taskVars, record, token, retired, connVars, broken, writing, told, marking,
                   worker, disk, hostVars, history>>

\* persist_now: the snapshot is taken under checkpoint_serial.
SaveBegins(s) ==
    /\ s \in queue /\ writing = NoSave
    /\ writing' = [by |-> s, snap |-> Snapshot]
    /\ queue' = queue \ {s}
    /\ UNCHANGED <<taskVars, storeVars, connVars, broken, told, marking, worker, disk, hostVars,
                   history>>

\* The file is replaced or left alone. An action whose future is still there goes on or
\* fails; workflow_start, the worker and shutdown report the error to checkpoint_failed.
SaveEnds(ok) ==
    /\ writing # NoSave
    /\ writing' = NoSave
    /\ disk' = IF ok THEN writing.snap ELSE disk
    /\ LET s == writing.by
           ofStep == s[2] > 0
       IN /\ told' = IF ok \/ ofStep THEN told ELSE told \cup {s}
          /\ worker' = (worker /\ (ok \/ s # Worker))
          /\ down' = IF s # Shutdown THEN down ELSE IF ok THEN "saved" ELSE "unsaved"
          /\ IF ofStep /\ phase[s[1]] = "flushing" /\ at[s[1]] = s[2]
             THEN IF ok THEN phase' = [phase EXCEPT ![s[1]] = "ready"] /\ UNCHANGED res
                  ELSE Yields(s[1], "failed", TRUE)
             ELSE UNCHANGED <<phase, res>>
    /\ UNCHANGED <<at, had, scope, storeVars, connVars, broken, queue, marking, drained, lives,
                   history>>

\* checkpoint_failed: persistence_error under its lock, then the store.
RecordFailure(s) ==
    /\ s \in told
    /\ broken' = TRUE
    /\ told' = told \ {s}
    /\ marking' = marking \cup {s}
    /\ UNCHANGED <<taskVars, storeVars, connVars, queue, writing, worker, disk, hostVars, history>>

MarkRunning(s) ==
    /\ s \in marking
    /\ marking' = marking \ {s}
    /\ token' = CancelTokens({w \in Persistent \cap Stored : record[w].outcome = "running"})
    /\ changed' = TRUE
    /\ UNCHANGED <<taskVars, record, retired, connVars, broken, queue, writing, told, worker,
                   disk, hostVars, history>>

----------------------------------------------------------------------------
(* Shutdown, loss and restart of the host.                                 *)

\* The host closes its connections and waits for their requests, or aborts them, first.
ShutdownBegin ==
    /\ down = "up" /\ swept = Conns
    /\ \A w \in Flows : phase[w] \notin {"checked", "rejected"}
    /\ down' = "draining"
    /\ token' = CancelTokens(Flows)
    /\ UNCHANGED <<taskVars, record, retired, changed, connVars, saveVars, drained, lives, history>>

\* Every task has ended, or five seconds have passed.
ShutdownDrained ==
    /\ down = "draining"
    /\ drained' = (Active = {})
    /\ down' = "stopping"
    /\ UNCHANGED <<taskVars, storeVars, connVars, saveVars, lives, history>>

\* Seeded fault: the worker's last flush is taken for the final one.
ShutdownWithoutFlush ==
    /\ down = "stopping"
    /\ Worker \notin queue \cup told \cup marking /\ (writing # NoSave => writing.by # Worker)
    /\ worker' = FALSE
    /\ down' = "saved"
    /\ UNCHANGED <<taskVars, storeVars, connVars, broken, queue, writing, told, marking, disk,
                   drained, lives, history>>

\* The worker has stopped; the final flush.
ShutdownFlush ==
    /\ down = "stopping"
    /\ Worker \notin queue \cup told \cup marking /\ (writing # NoSave => writing.by # Worker)
    /\ worker' = FALSE
    /\ queue' = queue \cup {Shutdown}
    /\ down' = "flushing"
    /\ UNCHANGED <<taskVars, storeVars, connVars, broken, writing, told, marking, disk, drained,
                   lives, history>>

\* Seeded fault: a running step of a lost host is failed, with nothing said of its effects.
RestoredStepSure(step) ==
    IF step.outcome = "running" THEN [step EXCEPT !.outcome = "failed"] ELSE step

RestoredStep(step) ==
    IF step.outcome = "running" THEN [outcome |-> "failed", maybe |-> TRUE] ELSE step

\* restore: a running record is interrupted, and nothing is dispatched.
Restored(r) ==
    IF r # NoRecord /\ r.outcome = "running"
    THEN [outcome |-> "failed", steps |-> [k \in DOMAIN r.steps |-> RestoredStep(r.steps[k])]]
    ELSE r

\* The process ends, at any moment or after shutdown; the next one opens its state and
\* writes it. Connections are new ones. A host with nothing started restarts as itself.
HostRestart ==
    /\ lives < MaxLives /\ \E w \in Flows : phase[w] # "new"
    /\ lives' = lives + 1
    /\ disk' = [w \in Persistent |-> Restored(disk[w])]
    /\ record' = [w \in Flows |-> IF w \in Persistent THEN Restored(disk[w]) ELSE NoRecord]
    /\ token' = [w \in Flows |-> "none"]
    /\ phase' = [w \in Flows |-> IF phase[w] = "new" THEN "new" ELSE "lost"]
    /\ at' = [w \in Flows |-> 1]
    /\ res' = [w \in Flows |-> NoStep]
    /\ had' = [w \in Flows |-> FALSE]
    /\ scope' = [w \in Flows |-> "none"]
    /\ retired' = {} /\ changed' = FALSE /\ closed' = {} /\ swept' = {}
    /\ broken' = FALSE /\ queue' = {} /\ writing' = NoSave
    /\ told' = {} /\ marking' = {} /\ worker' = TRUE
    /\ down' = "up" /\ drained' = FALSE
    /\ UNCHANGED history

----------------------------------------------------------------------------
(* Tools and event waits.                                                  *)

\* A tool returns its result, and the outcome that the result names is that of the step; a
\* result that is too large fails it.
Answer(w) ==
    /\ phase[w] = "dispatched"
    /\ \E outcome \in Ends, maybe \in BOOLEAN :
          /\ maybe => outcome = "failed"
          /\ Yields(w, outcome, maybe)
    /\ answered' = answered \cup {<<w, at[w]>>}
    /\ UNCHANGED <<at, had, scope, storeVars, connVars, saveVars, hostVars, dispatched, forgotten>>

\* The event came, its wait timed out or was cancelled with its watch, or failed.
WaitEnds(w) ==
    /\ phase[w] = "waiting"
    /\ \E outcome \in Ends : Yields(w, outcome, FALSE)
    /\ UNCHANGED <<at, had, scope, storeVars, connVars, saveVars, hostVars, history>>

----------------------------------------------------------------------------
LoopStep(w) == LoopHead(w) \/ PutResult(w) \/ Close(w) \/ FinishLook(w) \/ Finish(w)

Next ==
    \/ \E w \in Flows :
          \/ StartCheck(w) \/ StartAdmit(w) \/ StartReject(w)
          \/ LoopStep(w) \/ Begin(w) \/ Dispatch(w) \/ Interrupt(w)
          \/ Answer(w) \/ WaitEnds(w)
          \/ \E forget \in BOOLEAN : Cancel(w, forget)
    \/ \E c \in Conns : CloseConnection(c) \/ Sweep(c)
    \/ WorkerWakes
    \/ \E s \in Savers : SaveBegins(s) \/ RecordFailure(s) \/ MarkRunning(s)
    \/ \E ok \in BOOLEAN : SaveEnds(ok)
    \/ ShutdownBegin \/ ShutdownDrained \/ ShutdownFlush \/ HostRestart

Spec == Init /\ [][Next]_vars

\* A task that can run runs, and a step's deadline passes. Nothing is asked of tools, of
\* event waits, or of the disk.
Fairness == \A w \in Flows : WF_vars(LoopStep(w)) /\ WF_vars(Interrupt(w))

LiveSpec == Spec /\ Fairness

----------------------------------------------------------------------------
(* Properties.                                                             *)

IsSnapshot(s) ==
    /\ s = [w \in Persistent |-> s[w]]
    /\ \A w \in Persistent : s[w] \in RecordOf(w) \cup {NoRecord}

TypeOK ==
    /\ phase \in [Flows -> Phases]
    /\ at \in [Flows -> Nat] /\ \A w \in Flows : at[w] \in 1..Len(Plan[w]) + 1
    /\ res \in [Flows -> StepResult]
    /\ had \in [Flows -> BOOLEAN]
    /\ scope \in [Flows -> {"none", "open", "closed", "failed"}]
    /\ DOMAIN record = Flows /\ \A w \in Flows : record[w] \in RecordOf(w) \cup {NoRecord}
    /\ token \in [Flows -> {"none", "live", "canceled"}]
    /\ retired \subseteq Flows \ Persistent
    /\ closed \subseteq Conns /\ swept \subseteq closed
    /\ broken \in BOOLEAN /\ changed \in BOOLEAN /\ worker \in BOOLEAN /\ drained \in BOOLEAN
    /\ queue \subseteq Savers /\ told \subseteq Savers /\ marking \subseteq Savers
    /\ writing # NoSave => writing.by \in Savers /\ IsSnapshot(writing.snap)
    /\ IsSnapshot(disk)
    /\ down \in {"up", "draining", "stopping", "flushing", "saved", "unsaved"}
    /\ lives \in Nat

\* No tool is called for a persistent workflow unless the checkpoint file already says that
\* its step was begun, whatever is lost, saved late or interrupted ("A crash after this
\* marker makes the step incomplete on recovery").
DispatchIsRecorded ==
    \A w \in Persistent : w \notin forgotten =>
        \A k \in StepsOf(w) : <<w, k>> \in dispatched =>
            disk[w] # NoRecord /\ disk[w].steps[k].outcome # "absent"

\* What a record says of one action: it ended satisfied only if its tool answered, and if
\* the tool did not answer a finished step says that its effects are unknown.
HonestStep(w, k, step) ==
    /\ <<w, k>> \in dispatched \ answered => step.outcome \in {"running", "absent"} \/ step.maybe
    /\ step.outcome = "satisfied" /\ Plan[w][k].does = "action" => <<w, k>> \in answered

\* In memory, and in the file as the next host restores it.
HonestReport ==
    \A w \in Flows :
        /\ record[w] # NoRecord =>
              \A k \in StepsOf(w) : HonestStep(w, k, record[w].steps[k])
        /\ record[w] # NoRecord /\ record[w].outcome # "running" =>
              \A k \in StepsOf(w) : record[w].steps[k].outcome # "running"

\* The record of a workflow that executes is there and running until its task ends it; and
\* once its connection is swept, a connection workflow's record stays only for its task.
RecordsFollowTasks ==
    \A w \in Flows :
        /\ phase[w] \in Tasking =>
              record[w] # NoRecord /\ record[w].outcome = "running" /\ token[w] # "none"
        /\ record[w] # NoRecord /\ w \notin Persistent /\ Owner[w] \in swept =>
              w \in retired /\ phase[w] \in Tasking

\* "Persistent workflows [...] own a connection scope until completion" (tools.rs): when its
\* record is final the scope is closed, or the record says that closing it failed.
ScopeEndsWithWorkflow ==
    \A w \in Flows :
        record[w] # NoRecord /\ record[w].outcome # "running" =>
            scope[w] # "open" /\ (scope[w] = "failed" => record[w].outcome = "failed")

\* After a shutdown that drained its tasks and could write, the next host finds nothing
\* interrupted, and exactly what this one knew.
CleanShutdown ==
    down = "saved" /\ drained =>
        /\ disk = [w \in Persistent |-> record[w]]
        /\ \A w \in Persistent : disk[w] # NoRecord => disk[w].outcome # "running"

\* Every workflow that was started ends, though its tools, its events and the disk may hang.
WorkflowEnds == \A w \in Flows : (phase[w] \in Tasking) ~> (phase[w] \notin Tasking)
============================================================================
