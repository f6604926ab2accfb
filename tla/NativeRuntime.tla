--------------------------- MODULE NativeRuntime ---------------------------
(***************************************************************************)
(* The runtime of native calls (src/src/runtime.rs). A tool call that      *)
(* blocks in Windows runs as a closure on Tokio's blocking pool. A call    *)
(* that touches the desktop first takes the single desktop permit, every   *)
(* call takes a capacity permit, and both permits move into the closure:   *)
(* the caller may go away, by the deadline or because its client is gone,  *)
(* while the closure still works.                                          *)
(***************************************************************************)
EXTENDS Integers, FiniteSets

CONSTANTS
    Calls,        \* calls of run_with_timeout
    Interactive,  \* those of interactive(): they need the desktop
    Stuck,        \* the calls whose native work never returns by itself
    Capacity      \* MCP_NATIVE_CONCURRENCY

ASSUME RuntimeAssumption ==
    /\ IsFiniteSet(Calls)
    /\ Interactive \subseteq Calls
    /\ Stuck \subseteq Calls
    /\ Capacity \in Nat \ {0}

VARIABLES
    caller,     \* where the future of each call is
    task,       \* where its blocking closure is
    desktop,    \* the calls that own the desktop permit
    capacity,   \* the calls that own a capacity permit
    cancelled,  \* Cancellation.cancelled
    expired,    \* Cancellation.deadline has passed
    result      \* what the closure returned

vars == <<caller, task, desktop, capacity, cancelled, expired, result>>

CallerStates == {"idle", "wants_desktop", "wants_capacity", "waiting", "dropping",
                 "aborting", "ok", "error"}

\* locked: inside sleep with the sleeping lock, before the check. dozing: after the check,
\* the lock not yet given up. asleep: waiting on the condition variable.
TaskStates == {"none", "queued", "checked", "working", "locked", "dozing", "asleep",
               "ended", "aborted"}

Init ==
    /\ caller = [o \in Calls |-> "idle"]
    /\ task = [o \in Calls |-> "none"]
    /\ desktop = {} /\ capacity = {}
    /\ cancelled = [o \in Calls |-> FALSE]
    /\ expired = [o \in Calls |-> FALSE]
    /\ result = [o \in Calls |-> "none"]

----------------------------------------------------------------------------
(* The calling future.                                                     *)

Call(o) ==
    /\ caller[o] = "idle"
    /\ caller' = [caller EXCEPT ![o] = IF o \in Interactive THEN "wants_desktop"
                                                            ELSE "wants_capacity"]
    /\ UNCHANGED <<task, desktop, capacity, cancelled, expired, result>>

AcquireDesktop(o) ==
    /\ caller[o] = "wants_desktop"
    /\ desktop = {}
    /\ desktop' = {o}
    /\ caller' = [caller EXCEPT ![o] = "wants_capacity"]
    /\ UNCHANGED <<task, capacity, cancelled, expired, result>>

\* Capacity is the last permit: with it the closure is spawned and owns both.
AcquireCapacity(o) ==
    /\ caller[o] = "wants_capacity"
    /\ Cardinality(capacity) < Capacity
    /\ capacity' = capacity \cup {o}
    /\ task' = [task EXCEPT ![o] = "queued"]
    /\ caller' = [caller EXCEPT ![o] = "waiting"]
    /\ UNCHANGED <<desktop, cancelled, expired, result>>

\* acquire_timeout, or the caller's future is dropped while it waits for a permit.
GiveUpWaiting(o) ==
    /\ caller[o] \in {"wants_desktop", "wants_capacity"}
    /\ caller' = [caller EXCEPT ![o] = "error"]
    /\ desktop' = desktop \ {o}
    /\ UNCHANGED <<task, capacity, cancelled, expired, result>>

\* timeout_at looks at the task before it looks at the clock.
Return(o) ==
    /\ caller[o] = "waiting"
    /\ task[o] = "ended"
    /\ caller' = [caller EXCEPT ![o] = result[o]]
    /\ UNCHANGED <<task, desktop, capacity, cancelled, expired, result>>

\* Deadline: the operation's own, counted from the capacity permit.
Expire(o) ==
    /\ task[o] # "none" /\ ~expired[o]
    /\ expired' = [expired EXCEPT ![o] = TRUE]
    /\ UNCHANGED <<caller, task, desktop, capacity, cancelled, result>>

\* Seeded fault: once the closure runs, only its own checkpoints look at the deadline.
DropQueuedOnly(o) ==
    /\ caller[o] = "waiting"
    /\ expired[o] /\ task[o] = "queued"
    /\ caller' = [caller EXCEPT ![o] = "dropping"]
    /\ UNCHANGED <<task, desktop, capacity, cancelled, expired, result>>

DropOnDeadline(o) ==
    /\ caller[o] = "waiting"
    /\ expired[o] /\ task[o] # "ended"
    /\ caller' = [caller EXCEPT ![o] = "dropping"]
    /\ UNCHANGED <<task, desktop, capacity, cancelled, expired, result>>

\* The client cancelled the request or its connection is gone.
DropByClient(o) ==
    /\ caller[o] = "waiting"
    /\ caller' = [caller EXCEPT ![o] = "dropping"]
    /\ UNCHANGED <<task, desktop, capacity, cancelled, expired, result>>

\* Seeded fault: cancel does not take the sleeping lock.
CancelWithoutLock(o) ==
    /\ caller[o] = "dropping"
    /\ cancelled' = [cancelled EXCEPT ![o] = TRUE]
    /\ task' = [task EXCEPT ![o] = IF @ = "asleep" THEN "locked" ELSE @]
    /\ caller' = [caller EXCEPT ![o] = "aborting"]
    /\ UNCHANGED <<desktop, capacity, expired, result>>

\* Running::drop, first half: under the sleeping lock, set the flag and notify.
CancelContext(o) ==
    /\ caller[o] = "dropping"
    /\ task[o] \notin {"locked", "dozing"}
    /\ cancelled' = [cancelled EXCEPT ![o] = TRUE]
    /\ task' = [task EXCEPT ![o] = IF @ = "asleep" THEN "locked" ELSE @]
    /\ caller' = [caller EXCEPT ![o] = "aborting"]
    /\ UNCHANGED <<desktop, capacity, expired, result>>

\* Seeded fault: the permits are the caller's, and go with it.
AbortReleases(o) ==
    /\ caller[o] = "aborting"
    /\ caller' = [caller EXCEPT ![o] = "error"]
    /\ task' = [task EXCEPT ![o] = IF @ = "queued" THEN "aborted" ELSE @]
    /\ desktop' = desktop \ {o}
    /\ capacity' = capacity \ {o}
    /\ UNCHANGED <<cancelled, expired, result>>

\* Seeded fault: an aborted closure keeps its permits.
AbortKeepsPermits(o) ==
    /\ caller[o] = "aborting"
    /\ caller' = [caller EXCEPT ![o] = "error"]
    /\ task' = [task EXCEPT ![o] = IF @ = "queued" THEN "aborted" ELSE @]
    /\ UNCHANGED <<desktop, capacity, cancelled, expired, result>>

\* Running::drop, second half: a closure that has not started never will, and its permits
\* are dropped with it; one that has started keeps them.
AbortTask(o) ==
    /\ caller[o] = "aborting"
    /\ caller' = [caller EXCEPT ![o] = "error"]
    /\ IF task[o] = "queued"
       THEN /\ task' = [task EXCEPT ![o] = "aborted"]
            /\ desktop' = desktop \ {o}
            /\ capacity' = capacity \ {o}
       ELSE UNCHANGED <<task, desktop, capacity>>
    /\ UNCHANGED <<cancelled, expired, result>>

----------------------------------------------------------------------------
(* The blocking closure.                                                   *)

\* OperationContext::checkpoint fails.
Interrupted(o) == cancelled[o] \/ expired[o]

Ends(o, how) ==
    /\ task' = [task EXCEPT ![o] = "ended"]
    /\ result' = [result EXCEPT ![o] = how]
    /\ desktop' = desktop \ {o}
    /\ capacity' = capacity \ {o}

TaskStarts(o) ==
    /\ task[o] = "queued"
    /\ IF Interrupted(o)
       THEN Ends(o, "error")
       ELSE /\ task' = [task EXCEPT ![o] = "checked"]
            /\ UNCHANGED <<desktop, capacity, result>>
    /\ UNCHANGED <<caller, cancelled, expired>>

\* The overlay pulses for an interactive call, then the work begins.
WorkBegins(o) ==
    /\ task[o] = "checked"
    /\ task' = [task EXCEPT ![o] = "working"]
    /\ UNCHANGED <<caller, desktop, capacity, cancelled, expired, result>>

\* The work returns, or fails; success passes one more checkpoint.
WorkEnds(o) ==
    /\ task[o] = "working" /\ o \notin Stuck
    /\ \/ Ends(o, "error")
       \/ ~Interrupted(o) /\ Ends(o, "ok")
    /\ UNCHANGED <<caller, cancelled, expired>>

\* runtime::sleep, called by cooperative work.
SleepLock(o) ==
    /\ task[o] = "working" /\ o \notin Stuck
    /\ task' = [task EXCEPT ![o] = "locked"]
    /\ UNCHANGED <<caller, desktop, capacity, cancelled, expired, result>>

\* The check of the loop: an interrupted sleep fails and the work with it, a sleep that is
\* over returns, the others go on to wait.
SleepCheck(o) ==
    /\ task[o] = "locked"
    /\ IF Interrupted(o)
       THEN Ends(o, "error")
       ELSE /\ \E to \in {"working", "dozing"} : task' = [task EXCEPT ![o] = to]
            /\ UNCHANGED <<desktop, capacity, result>>
    /\ UNCHANGED <<caller, cancelled, expired>>

SleepWait(o) ==
    /\ task[o] = "dozing"
    /\ task' = [task EXCEPT ![o] = "asleep"]
    /\ UNCHANGED <<caller, desktop, capacity, cancelled, expired, result>>

\* wait_timeout is over: the sleep's end or the operation's deadline.
SleepTimeout(o) ==
    /\ task[o] = "asleep"
    /\ task' = [task EXCEPT ![o] = "locked"]
    /\ UNCHANGED <<caller, desktop, capacity, cancelled, expired, result>>

----------------------------------------------------------------------------
CallerStep(o) ==
    \/ Call(o) \/ AcquireDesktop(o) \/ AcquireCapacity(o) \/ GiveUpWaiting(o) \/ Return(o)
    \/ DropOnDeadline(o) \/ DropByClient(o) \/ CancelContext(o) \/ AbortTask(o)

TaskStep(o) ==
    \/ TaskStarts(o) \/ WorkBegins(o) \/ WorkEnds(o) \/ SleepLock(o) \/ SleepCheck(o)
    \/ SleepWait(o) \/ SleepTimeout(o)

Next == \E o \in Calls : CallerStep(o) \/ TaskStep(o) \/ Expire(o)

Spec == Init /\ [][Next]_vars

\* Timers fire, a runnable future is polled, a blocking thread that can run does. Nothing
\* is assumed of a client, or of work that never comes back.
Fairness ==
    \A o \in Calls :
        /\ WF_vars(GiveUpWaiting(o)) /\ WF_vars(Expire(o)) /\ WF_vars(Return(o))
        /\ WF_vars(DropOnDeadline(o)) /\ SF_vars(CancelContext(o)) /\ WF_vars(AbortTask(o))
        /\ WF_vars(TaskStep(o))

LiveSpec == Spec /\ Fairness

----------------------------------------------------------------------------
(* Properties.                                                             *)

Executing(o) == task[o] \in {"checked", "working", "locked", "dozing", "asleep"}

TypeOK ==
    /\ caller \in [Calls -> CallerStates]
    /\ task \in [Calls -> TaskStates]
    /\ desktop \subseteq Calls /\ capacity \subseteq Calls
    /\ cancelled \in [Calls -> BOOLEAN]
    /\ expired \in [Calls -> BOOLEAN]
    /\ result \in [Calls -> {"none", "ok", "error"}]

\* Two interactive calls never work on the desktop at the same time, though the caller of
\* the first may have gone long before its work ends ("Both permits move into the blocking
\* closure, never its caller", runtime.rs).
DesktopExclusive ==
    \A o, p \in Interactive : Executing(o) /\ Executing(p) => o = p

\* The native operations at work, those of absent callers included, never exceed the
\* configured concurrency.
CapacityBound == Cardinality({o \in Calls : Executing(o)}) <= Capacity

\* Calls that wait for the desktop keep no capacity from unrelated reads: at most one
\* interactive call holds a capacity permit, the one that has the desktop.
WaitersHoldNoCapacity == \A o \in Interactive \cap capacity : desktop = {o}

\* What the two permits are for: the three together.
PermitsAreSound == DesktopExclusive /\ CapacityBound /\ WaitersHoldNoCapacity

\* A cancellation is never lost between a sleeper's check and its wait.
NoLostWakeup == \A o \in Calls : task[o] = "asleep" => ~cancelled[o]

\* Every call comes back to its caller, whatever the work does.
CallReturns ==
    \A o \in Calls : caller[o] # "idle" ~> caller[o] \in {"ok", "error"}

\* Cancelled work that cooperates ends, and gives its permits back.
CancelledWorkEnds ==
    \A o \in Calls \ Stuck :
        cancelled[o] ~> task[o] \in {"ended", "aborted"} /\ o \notin desktop \cup capacity

\* Nothing hangs but what Windows never returns from: the two together.
CallsEnd == CallReturns /\ CancelledWorkEnds
============================================================================
