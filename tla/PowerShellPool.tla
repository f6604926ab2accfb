--------------------------- MODULE PowerShellPool ---------------------------
(***************************************************************************)
(* The pool of PowerShell workers (src/src/ps/pool.rs). A request takes a  *)
(* permit, then a slot, and owns the slot's worker until it drops its      *)
(* lease. The future of a request may be dropped at any await, which drops *)
(* the lease: a worker that may still run a command must die with it.      *)
(*                                                                         *)
(* Output counts as arrived when a poll of its pipe reports it; what was    *)
(* written and not yet read by the runtime arrives later.                  *)
(***************************************************************************)
EXTENDS Integers, Sequences, FiniteSets

CONSTANTS
    Requests,    \* calls of execute_with_timeout
    Leaky,       \* those whose command leaves a background process that may write later
    Size,        \* Config.size
    NoWorker,    \* None
    Nobody       \* no command

PoolAssumption ==
    /\ IsFiniteSet(Requests)
    /\ Leaky \subseteq Requests
    /\ Size \in Nat \ {0}
    /\ Nobody \notin Requests

WorkerSlots == 1..Size

VARIABLES
    phase,      \* where each request is
    slot,       \* Lease.index of the requests that have a lease, 0 for the others
    result,     \* what execute_with_timeout returned
    permits,    \* available permits of the semaphore
    idle,       \* State.idle
    worker      \* the worker of each slot, in State.workers or in the slot's lease

vars == <<phase, slot, result, permits, idle, worker>>

Phases == {"new", "waiting", "granted", "leased", "starting", "probing", "ready", "polled",
           "clear", "sent", "dropping", "returned", "done"}

\* cmd is the command the process was sent and has not been heard to end; noise is output
\* in its stdout that belongs to no frame, arrived early, before the request that now has
\* the worker polled stdout, or late; stray is such output in its stderr.
Worker == [alive: BOOLEAN, healthy: BOOLEAN, leaky: BOOLEAN, answered: BOOLEAN,
           cmd: Requests \cup {Nobody}, noise: {"none", "early", "late"}, stray: BOOLEAN]

Fresh == [alive |-> TRUE, healthy |-> FALSE, leaky |-> FALSE, answered |-> FALSE,
          cmd |-> Nobody, noise |-> "none", stray |-> FALSE]

Init ==
    /\ phase = [r \in Requests |-> "new"]
    /\ slot = [r \in Requests |-> 0]
    /\ result = [r \in Requests |-> "none"]
    /\ permits = Size
    /\ idle = [i \in 1..Size |-> i]
    /\ worker = [s \in WorkerSlots |-> NoWorker]

----------------------------------------------------------------------------
(* acquire.                                                                *)

Call(r) ==
    /\ phase[r] = "new"
    /\ phase' = [phase EXCEPT ![r] = "waiting"]
    /\ UNCHANGED <<slot, result, permits, idle, worker>>

AcquirePermit(r) ==
    /\ phase[r] = "waiting"
    /\ permits > 0
    /\ permits' = permits - 1
    /\ phase' = [phase EXCEPT ![r] = "granted"]
    /\ UNCHANGED <<slot, result, idle, worker>>

\* The acquisition timeout, the request's own deadline, or its client is gone.
GiveUpWaiting(r) ==
    /\ phase[r] = "waiting"
    /\ phase' = [phase EXCEPT ![r] = "done"]
    /\ result' = [result EXCEPT ![r] = "error"]
    /\ UNCHANGED <<slot, permits, idle, worker>>

\* Under the state lock: the slot of the worker used last, or "no available slot".
TakeSlot(r) ==
    /\ phase[r] = "granted"
    /\ IF idle = <<>>
       THEN /\ result' = [result EXCEPT ![r] = "error"]
            /\ phase' = [phase EXCEPT ![r] = "returned"]
            /\ UNCHANGED <<slot, idle>>
       ELSE /\ slot' = [slot EXCEPT ![r] = Head(idle)]
            /\ idle' = Tail(idle)
            /\ phase' = [phase EXCEPT ![r] = "leased"]
            /\ UNCHANGED result
    /\ UNCHANGED <<permits, worker>>

----------------------------------------------------------------------------
(* execute_with_timeout, with its lease.                                   *)

Mine(r) == worker[slot[r]]

Fails(r) ==
    /\ phase' = [phase EXCEPT ![r] = "dropping"]
    /\ result' = [result EXCEPT ![r] = "error"]

\* An unhealthy or dead worker is dropped, and a missing one is started. Random bytes for
\* the frame may be refused, and so may the process's exit status.
Prepare(r) ==
    /\ phase[r] = "leased"
    /\ LET fit == Mine(r) # NoWorker /\ Mine(r).healthy /\ Mine(r).alive IN
       \/ /\ phase' = [phase EXCEPT ![r] = IF fit THEN "ready" ELSE "starting"]
          /\ worker' = IF fit THEN worker ELSE [worker EXCEPT ![slot[r]] = NoWorker]
          /\ UNCHANGED result
       \/ Fails(r) /\ UNCHANGED worker
       \/ /\ Mine(r) # NoWorker
          /\ worker' = [worker EXCEPT ![slot[r]].healthy = FALSE]
          /\ Fails(r)
    /\ UNCHANGED <<slot, permits, idle>>

\* Worker::spawn up to its probe; the process is in its job before it reads anything.
Spawn(r) ==
    /\ phase[r] = "starting"
    /\ \/ /\ worker' = [worker EXCEPT ![slot[r]] = Fresh]
          /\ phase' = [phase EXCEPT ![r] = "probing"]
          /\ UNCHANGED result
       \/ Fails(r) /\ UNCHANGED worker
    /\ UNCHANGED <<slot, permits, idle>>

\* The probe is answered; if it fails spawn drops the worker before the lease has it.
ProbeEnds(r) ==
    /\ phase[r] = "probing"
    /\ \/ /\ Mine(r).alive
          /\ worker' = [worker EXCEPT ![slot[r]].healthy = TRUE]
          /\ phase' = [phase EXCEPT ![r] = "ready"]
          /\ UNCHANGED result
       \/ /\ worker' = [worker EXCEPT ![slot[r]] = NoWorker]
          /\ Fails(r)
    /\ UNCHANGED <<slot, permits, idle>>

\* Seeded fault: the worker keeps its good name until its command fails.
PollHealthy(r) ==
    /\ phase[r] = "ready"
    /\ UNCHANGED worker
    /\ \/ /\ Mine(r).noise = "none"
          /\ phase' = [phase EXCEPT ![r] = "polled"]
          /\ UNCHANGED result
       \/ Fails(r)
    /\ UNCHANGED <<slot, permits, idle>>

\* Worker::execute: unhealthy before anything else, then one poll of each stream. Data,
\* a closed pipe and an error of the poll refuse the command.
PollStdout(r) ==
    /\ phase[r] = "ready"
    /\ worker' = [worker EXCEPT ![slot[r]].healthy = FALSE]
    /\ \/ /\ Mine(r).noise = "none"
          /\ phase' = [phase EXCEPT ![r] = "polled"]
          /\ UNCHANGED result
       \/ Fails(r)
    /\ UNCHANGED <<slot, permits, idle>>

PollStderr(r) ==
    /\ phase[r] = "polled"
    /\ \/ /\ ~Mine(r).stray
          /\ phase' = [phase EXCEPT ![r] = "clear"]
          /\ UNCHANGED result
       \/ Fails(r)
    /\ UNCHANGED <<slot, permits, idle, worker>>

\* exchange writes the command, unless the deadline is over or the pipe is broken.
Write(r) ==
    /\ phase[r] = "clear"
    /\ \/ /\ worker' = [worker EXCEPT ![slot[r]].cmd = r]
          /\ phase' = [phase EXCEPT ![r] = "sent"]
          /\ UNCHANGED result
       \/ Fails(r) /\ UNCHANGED worker
    /\ UNCHANGED <<slot, permits, idle>>

\* Both delimiters are there. What came before them without a frame is put before the
\* answer if it is in stdout and dropped if it is in stderr; what comes after them fails
\* the request, as does an error in the frame.
Receive(r) ==
    /\ phase[r] = "sent"
    /\ Mine(r).answered
    /\ \/ /\ worker' = [worker EXCEPT ![slot[r]] = [@ EXCEPT
                          !.healthy = TRUE, !.cmd = Nobody, !.answered = FALSE,
                          !.noise = "none", !.stray = FALSE]]
          /\ phase' = [phase EXCEPT ![r] = "dropping"]
          /\ result' = [result EXCEPT ![r] = IF Mine(r).noise = "early" THEN "mixed" ELSE "own"]
       \/ Fails(r) /\ UNCHANGED worker
    /\ UNCHANGED <<slot, permits, idle>>

\* The process is gone before the delimiters: the command is not tried again.
WorkerLost(r) ==
    /\ phase[r] = "sent"
    /\ ~Mine(r).alive
    /\ Fails(r)
    /\ UNCHANGED <<slot, permits, idle, worker>>

\* A deadline, a limit on the output, or the future is dropped. A worker that is still
\* being probed belongs to the future of spawn and goes with it.
Abort(r) ==
    /\ phase[r] \in {"starting", "probing", "sent"}
    /\ worker' = IF phase[r] = "probing" THEN [worker EXCEPT ![slot[r]] = NoWorker] ELSE worker
    /\ Fails(r)
    /\ UNCHANGED <<slot, permits, idle>>

\* Lease::drop: an unhealthy worker is dropped, which closes the job of its whole process
\* tree; then, under the state lock, the slot is the first that the next request takes.
DropLease(r) ==
    /\ phase[r] = "dropping"
    /\ worker' = IF Mine(r) # NoWorker /\ Mine(r).healthy THEN worker
                 ELSE [worker EXCEPT ![slot[r]] = NoWorker]
    /\ idle' = <<slot[r]>> \o idle
    /\ slot' = [slot EXCEPT ![r] = 0]
    /\ phase' = [phase EXCEPT ![r] = "returned"]
    /\ UNCHANGED <<result, permits>>

\* The permit is a field of the lease, dropped after Lease::drop has run.
ReleasePermit(r) ==
    /\ phase[r] = "returned"
    /\ permits' = permits + 1
    /\ phase' = [phase EXCEPT ![r] = "done"]
    /\ UNCHANGED <<slot, result, idle, worker>>

----------------------------------------------------------------------------
(* The PowerShell processes.                                               *)

Running(s) == worker[s] # NoWorker /\ worker[s].alive

\* The command ends; what it started in the background lives on in the worker's job.
Answer(s) ==
    /\ Running(s) /\ worker[s].cmd # Nobody /\ ~worker[s].answered
    /\ worker' = [worker EXCEPT ![s] = [@ EXCEPT
                    !.answered = TRUE, !.leaky = worker[s].leaky \/ worker[s].cmd \in Leaky]]
    /\ UNCHANGED <<phase, slot, result, permits, idle>>

\* A request has polled stdout for its command.
Polled(s) == \E r \in Requests : slot[r] = s /\ phase[r] \in {"polled", "clear", "sent"}

\* What a command left behind writes whenever it likes, also after its PowerShell's end.
Noise(s) ==
    /\ worker[s] # NoWorker /\ worker[s].leaky
    /\ \/ /\ worker[s].noise = "none"
          /\ worker' = [worker EXCEPT ![s].noise = IF Polled(s) THEN "late" ELSE "early"]
       \/ /\ ~worker[s].stray
          /\ worker' = [worker EXCEPT ![s].stray = TRUE]
    /\ UNCHANGED <<phase, slot, result, permits, idle>>

Die(s) ==
    /\ Running(s)
    /\ worker' = [worker EXCEPT ![s].alive = FALSE]
    /\ UNCHANGED <<phase, slot, result, permits, idle>>

----------------------------------------------------------------------------
RequestStep(r) ==
    \/ Call(r) \/ AcquirePermit(r) \/ GiveUpWaiting(r) \/ TakeSlot(r) \/ Prepare(r)
    \/ Spawn(r) \/ ProbeEnds(r) \/ PollStdout(r) \/ PollStderr(r) \/ Write(r) \/ Receive(r)
    \/ WorkerLost(r) \/ Abort(r) \/ DropLease(r) \/ ReleasePermit(r)

ProcessStep(s) == Answer(s) \/ Noise(s) \/ Die(s)

Next ==
    \/ \E r \in Requests : RequestStep(r)
    \/ \E s \in WorkerSlots : ProcessStep(s)

Spec == Init /\ [][Next]_vars

----------------------------------------------------------------------------
(* Properties.                                                             *)

TypeOK ==
    /\ phase \in [Requests -> Phases]
    /\ slot \in [Requests -> 0..Size]
    /\ result \in [Requests -> {"none", "own", "mixed", "error"}]
    /\ permits \in 0..Size
    /\ idle \in Seq(WorkerSlots)
    /\ worker \in [WorkerSlots -> Worker \cup {NoWorker}]

\* A request that was given a permit finds a slot: "PowerShell pool has no available slot"
\* is never returned, whatever the order in which leases are dropped and taken.
PermitFindsSlot == \A r \in Requests : phase[r] = "granted" => idle # <<>>

\* A command runs only in a worker that the request which sent it still leases: when a
\* caller goes away, no worker with its command, or an answer to it, is used again.
CommandsAreLeased ==
    \A s \in WorkerSlots :
        worker[s] # NoWorker /\ worker[s].cmd # Nobody =>
            \E r \in Requests : slot[r] = s /\ worker[s].cmd = r

\* What another command left behind is not taken for a request's output if it arrived
\* before the request polled the worker: neither while the worker was idle nor between the
\* checks of an earlier lease and this one ("late unframed output is rejected", the tests
\* of pool.rs). What it writes after the poll is put before the answer like any output
\* without a frame, and is not meant here.
NoForeignOutput == \A r \in Requests : result[r] # "mixed"

\* A lease is sound from its permit to its answer.
LeasesAreSound == PermitFindsSlot /\ CommandsAreLeased /\ NoForeignOutput
============================================================================
