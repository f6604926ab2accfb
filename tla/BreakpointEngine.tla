--------------------------- MODULE BreakpointEngine ---------------------------
(***************************************************************************)
(* The actor of one debugger session and the process it debugs             *)
(* (diagnostics/debugger.rs): software breakpoints, the step over a        *)
(* breakpoint with every other thread suspended, and the cleanup before    *)
(* the target is let go.                                                   *)
(*                                                                         *)
(* The threads of the target run while no debug event is outstanding.      *)
(* Several of them can trap before the first event is delivered: their     *)
(* events queue up in Windows, in their order.  A thread is at one of the  *)
(* instructions of Addresses, where a breakpoint may be, or elsewhere; a   *)
(* trap leaves its instruction pointer past the INT3.  Bytes and registers *)
(* are left out otherwise, and so are the commands that only read.         *)
(***************************************************************************)
EXTENDS Naturals, Sequences, FiniteSets, FiniteSetsExt, TLC

CONSTANTS Threads, Main,   \* the threads of the target, the first of them
          Addresses,       \* where breakpoints are set
          Elsewhere,       \* every other instruction
          Breaker,         \* the thread that DebugBreakProcess injects
          MaxTracked,      \* MAX_TRACKED_THREADS
          MaxBreakpoints,  \* MAX_BREAKPOINTS
          MaxBreaks,       \* requested breaks that wait to be delivered
          MaxFaults        \* native calls that begin to fail, bytes that others overwrite

EngineAssumption ==
    /\ Main \in Threads /\ Breaker \notin Threads
    /\ Elsewhere \notin Addresses
    /\ MaxTracked \in Nat /\ MaxBreakpoints \in Nat
    /\ MaxBreaks \in Nat /\ MaxFaults \in Nat

VARIABLES
    memory,    \* the byte at each address: "original", "int3", or "foreign" if the
               \* region was unmapped or others wrote to it
    thread,    \* the threads: life, instruction pointer, trap flag
    parked,    \* threads that carry a suspend count of this debugger
    queue,     \* debug events that Windows has not delivered
    breaking,  \* an injected thread is about to trap
    exited,    \* the process has ended
    failing,   \* the kinds of native calls that fail at present
    faults,
    engine,    \* Target: attached, pending, known, omitted, points, hit, step
    record,    \* Record: the state, the stop, break_requested, termination_requested
    actor,     \* "looping", in cleanup_edits's wait for whom, or "ended"
    shutdown,  \* the session's flag
    stray,     \* history: threads whose trap, of the debugger's making, went to the target
    missed,    \* history: a thread ran over an enabled breakpoint
    clean      \* what the last detach reported

process == <<memory, thread, parked, queue, breaking, exited>>
vars == <<process, failing, faults, engine, record, actor, shutdown, stray, missed, clean>>

NoEvent == [kind |-> "none", thread |-> Breaker, handled |-> TRUE]
NoStop == [thread |-> Breaker, handled |-> FALSE]
NoHit == Elsewhere
NoStep == [thread |-> Breaker, address |-> Elsewhere, others |-> {}, stop_after |-> FALSE]

Init ==
    /\ memory = [a \in Addresses |-> "original"]
    /\ thread = [t \in Threads |-> [life |-> IF t = Main THEN "live" ELSE "unborn",
                                    at |-> Elsewhere, past |-> FALSE, flag |-> FALSE]]
    /\ parked = {}
    /\ queue = <<>>
    /\ breaking = TRUE              \* the initial breakpoint
    /\ exited = FALSE
    /\ failing = {}
    /\ faults = 0
    /\ engine = [attached |-> TRUE, initial |-> TRUE, pending |-> NoEvent,
                 known |-> {Main}, omitted |-> FALSE,
                 points |-> << >>, hit |-> NoHit, step |-> NoStep]
    /\ record = [state |-> "running", stop |-> NoStop, break_requested |-> FALSE,
                 termination_requested |-> FALSE]
    /\ actor = "looping"
    /\ shutdown = FALSE
    /\ stray = {}
    /\ missed = FALSE
    /\ clean = TRUE

-----------------------------------------------------------------------------
(* The target.  Windows freezes it while an event is outstanding.          *)

Waits(t) == \E i \in 1..Len(queue) : queue[i].thread = t

Runs(t) ==
    /\ thread[t].life = "live" /\ ~exited
    /\ engine.pending = NoEvent
    /\ t \notin parked /\ ~Waits(t)

Raise(kind, t) ==
    queue' = IF engine.attached THEN Append(queue, [kind |-> kind, thread |-> t]) ELSE queue

Jump(t) ==
    /\ Runs(t) /\ thread[t].at = Elsewhere
    /\ ~thread[t].flag
    /\ \E a \in Addresses : /\ memory[a] # "foreign"
                            /\ thread' = [thread EXCEPT ![t].at = a]
    /\ UNCHANGED <<memory, parked, queue, breaking, exited, failing, faults, engine,
                   record, actor, shutdown, stray, missed, clean>>

Trap(t) ==
    /\ Runs(t) /\ thread[t].at \in Addresses /\ ~thread[t].past
    /\ memory[thread[t].at] = "int3"
    /\ thread' = [thread EXCEPT ![t].past = TRUE]
    /\ Raise("breakpoint", t)
    /\ UNCHANGED <<memory, parked, breaking, exited, failing, faults, engine, record,
                   actor, shutdown, stray, missed, clean>>

Expected(a) == a \in DOMAIN engine.points /\ engine.points[a].enabled

\* The instruction runs; with the trap flag set the processor stops behind it.
Execute(t) ==
    /\ Runs(t) /\ thread[t].at \in Addresses /\ ~thread[t].past
    /\ memory[thread[t].at] # "int3"
    /\ thread' = [thread EXCEPT ![t].at = Elsewhere, ![t].flag = FALSE]
    /\ IF thread[t].flag THEN Raise("step", t) ELSE UNCHANGED queue
    /\ missed' = (missed \/ /\ engine.attached /\ Expected(thread[t].at)
                            /\ ~(engine.step.thread = t /\ engine.step.address = thread[t].at))
    /\ UNCHANGED <<memory, parked, breaking, exited, failing, faults, engine, record,
                   actor, shutdown, stray, clean>>

\* A step from elsewhere lands anywhere.
StepElsewhere(t) ==
    /\ Runs(t) /\ thread[t].at = Elsewhere /\ thread[t].flag
    /\ \E a \in Addresses \cup {Elsewhere} :
          thread' = [thread EXCEPT ![t].at = a, ![t].flag = FALSE]
    /\ Raise("step", t)
    /\ UNCHANGED <<memory, parked, breaking, exited, failing, faults, engine, record,
                   actor, shutdown, stray, missed, clean>>

\* An exception of the program's own.
Fault(t) ==
    /\ Runs(t) /\ ~thread[t].past /\ engine.attached
    /\ Raise("exception", t)
    /\ UNCHANGED <<memory, thread, parked, breaking, exited, failing, faults, engine,
                   record, actor, shutdown, stray, missed, clean>>

Start(t) ==
    /\ thread[t].life = "unborn" /\ ~exited /\ engine.attached
    /\ \E u \in Threads : Runs(u)
    /\ thread' = [thread EXCEPT ![t].life = "live"]
    /\ Raise("born", t)
    /\ UNCHANGED <<memory, parked, breaking, exited, failing, faults, engine, record,
                   actor, shutdown, stray, missed, clean>>

End(t) ==
    /\ Runs(t) /\ engine.attached /\ thread[t].at = Elsewhere
    /\ \E u \in Threads \ {t} : thread[u].life = "live"
    /\ thread' = [thread EXCEPT ![t].life = "gone", ![t].flag = FALSE]
    /\ Raise("ended", t)
    /\ UNCHANGED <<memory, parked, breaking, exited, failing, faults, engine, record,
                   actor, shutdown, stray, missed, clean>>

\* The injected thread traps in ntdll; if a step is pending its creation event
\* had it suspended.
BreakerTraps ==
    /\ breaking /\ ~exited /\ engine.attached
    /\ engine.pending = NoEvent /\ engine.step = NoStep
    /\ breaking' = FALSE
    /\ Raise("break", Breaker)
    /\ UNCHANGED <<memory, thread, parked, exited, failing, faults, engine, record,
                   actor, shutdown, stray, missed, clean>>

\* TerminateProcess, or the process's own exit.
Exit ==
    /\ ~exited /\ engine.attached /\ engine.pending = NoEvent
    /\ record.termination_requested \/ \E t \in Threads : Runs(t)
    /\ exited' = TRUE
    /\ queue' = <<[kind |-> "exited", thread |-> Main]>>
    /\ UNCHANGED <<memory, thread, parked, breaking, failing, faults, engine, record,
                   actor, shutdown, stray, missed, clean>>

\* Somebody else overwrites or unmaps an instruction.
Overwrite(a) ==
    /\ faults < MaxFaults /\ memory[a] # "foreign"
    /\ \A t \in Threads : thread[t].at # a
    /\ faults' = faults + 1
    /\ memory' = [memory EXCEPT ![a] = "foreign"]
    /\ UNCHANGED <<thread, parked, queue, breaking, exited, failing, engine, record,
                   actor, shutdown, stray, missed, clean>>

NativeCalls == {"write", "flush", "context", "continue", "break"}

BeginToFail(call) ==
    /\ faults < MaxFaults /\ call \notin failing
    /\ faults' = faults + 1
    /\ failing' = failing \cup {call}
    /\ UNCHANGED <<process, engine, record, actor, shutdown, stray, missed, clean>>

Recover(call) ==
    /\ call \in failing
    /\ failing' = failing \ {call}
    /\ UNCHANGED <<process, faults, engine, record, actor, shutdown, stray, missed, clean>>

-----------------------------------------------------------------------------
(* What the functions of Target do, on one record of what they change; the *)
(* target is frozen meanwhile.  ok is FALSE once one of them has failed.   *)

Now == [memory |-> memory, thread |-> thread, parked |-> parked, e |-> engine,
        stray |-> stray, ok |-> TRUE]

Become(s) ==
    /\ memory' = s.memory /\ thread' = s.thread /\ parked' = s.parked
    /\ engine' = s.e /\ stray' = s.stray

Failed(s) == [s EXCEPT !.ok = FALSE]
Then(s, F(_)) == IF s.ok THEN F(s) ELSE s
\* F also after a failure, which stays recorded.
Always(s, F(_)) == LET r == F([s EXCEPT !.ok = TRUE]) IN [r EXCEPT !.ok = @ /\ s.ok]

Owned(s, a) == a \in DOMAIN s.e.points
Noted(s, a, patched) == [s EXCEPT !.e.points[a].patched = patched]

\* An uncertain earlier write may have left the original byte intact.
Patch(s, a, install) ==
    LET before == IF install THEN "original" ELSE "int3"
        after  == IF install THEN "int3" ELSE "original"
        marked == IF install THEN Noted(s, a, TRUE) ELSE s
    IN  IF ~install /\ s.memory[a] = "original" THEN Noted(s, a, FALSE)
        ELSE IF s.memory[a] # before THEN Failed(s)
        ELSE IF "write" \in failing THEN Failed(marked)
        ELSE IF "flush" \in failing THEN Failed([marked EXCEPT !.memory[a] = after])
        ELSE Noted([s EXCEPT !.memory[a] = after], a, install)

OwnHit(s, a, t) ==
    LET rewound == [s EXCEPT !.thread[t].past = FALSE] IN
    IF s.memory[a] # (IF s.e.points[a].patched THEN "int3" ELSE "original")
       \/ "context" \in failing
    THEN Failed(s)
    ELSE IF s.e.step # NoStep THEN rewound
    ELSE Patch([rewound EXCEPT !.e.hit = a], a, FALSE)

\* The debugger's own exceptions: a trap at its INT3, the end of its step.  A
\* thread that gets one of them back unhandled, or unrewound, has gone astray.
Stray(s, event, handled) ==
    \/ event.kind = "breakpoint" /\ (~handled \/ s.thread[event.thread].past)
    \/ event.kind = "step" /\ ~handled

Let(s, event, handled) ==
    LET t == event.thread IN
    IF Stray(s, event, handled)
    THEN [s EXCEPT !.stray = @ \cup {t}, !.thread[t].at = Elsewhere, !.thread[t].past = FALSE]
    ELSE IF event.kind = "exception" THEN [s EXCEPT !.thread[t].at = Elsewhere]
    ELSE s

\* continue_event with its disposition.
Continued(s, handled) ==
    IF s.e.pending = NoEvent THEN s
    ELSE IF "continue" \in failing THEN Failed(s)
    ELSE [Let(s, s.e.pending, handled) EXCEPT !.e.pending = NoEvent]

ContinuedByDefault(s) == Continued(s, s.e.pending.handled)

Live(s, t) == s.thread[t].life = "live"

\* Seeded fault: only the thread that hit the breakpoint is held.
StartStepAlone(s, t, stop_after) ==
    IF s.e.step # NoStep \/ s.e.omitted \/ "context" \in failing \/ s.thread[t].flag
    THEN Failed(s)
    ELSE Then(Continued([s EXCEPT !.thread[t].flag = TRUE,
                                  !.e.step = [thread |-> t, address |-> s.e.hit,
                                              others |-> {}, stop_after |-> stop_after]],
                        TRUE),
              LAMBDA r : [r EXCEPT !.e.hit = NoHit])

StartStep(s, t, stop_after) ==
    LET others == {u \in s.e.known \ {t} : Live(s, u)} IN
    IF s.e.step # NoStep \/ s.e.omitted \/ "context" \in failing \/ s.thread[t].flag
    THEN Failed(s)
    ELSE Then(Continued([s EXCEPT !.thread[t].flag = TRUE, !.parked = @ \cup others,
                                  !.e.step = [thread |-> t, address |-> s.e.hit,
                                              others |-> others, stop_after |-> stop_after]],
                        TRUE),
              LAMBDA r : [r EXCEPT !.e.hit = NoHit])

\* Step is dropped: its suspensions are balanced, the trap flag stays.
DropStep(s) == [s EXCEPT !.e.step = NoStep, !.parked = @ \ s.e.step.others]

FinishStep(s, thread_exited, reinsert) ==
    LET step == s.e.step
        done == [s EXCEPT !.e.step = NoStep,
                          !.thread = IF thread_exited THEN @
                                     ELSE [@ EXCEPT ![step.thread].flag = FALSE]]
        back == IF reinsert /\ Owned(s, step.address) /\ s.e.points[step.address].enabled
                THEN Patch(done, step.address, TRUE) ELSE done
    IN  IF step = NoStep THEN s
        ELSE IF ~thread_exited /\ "context" \in failing THEN Failed(s)
        ELSE [back EXCEPT !.parked = @ \ step.others]

Patched(s) == {a \in DOMAIN s.e.points : s.e.points[a].patched}

Unpatch(s, addresses) ==
    FoldSet(LAMBDA a, r : Always(r, LAMBDA q : Patch(q, a, FALSE)), s, addresses)

NothingOfOurs(s) == s.e.points = << >> /\ s.e.step = NoStep

Forgotten(s) == [s EXCEPT !.e.points = << >>, !.parked = @ \ s.e.step.others]

\* Seeded fault: a pending step is dropped, not finished.
CleanupEditsDropsStep(s, step_thread_exited) ==
    IF NothingOfOurs(s) THEN s
    ELSE IF exited THEN FinishStep(Forgotten(s), TRUE, FALSE)
    ELSE Unpatch(DropStep(s), Patched(s))

\* cleanup_edits, once an event is pending.
CleanupEdits(s, step_thread_exited) ==
    IF NothingOfOurs(s) THEN s
    ELSE IF exited THEN FinishStep(Forgotten(s), TRUE, FALSE)
    ELSE Always(FinishStep(s, step_thread_exited, FALSE),
                LAMBDA r : Unpatch(r, Patched(r)))

\* The events Windows still holds when it lets the target go are nobody's.
Released(s, events) ==
    [s EXCEPT !.e.attached = FALSE, !.e.pending = NoEvent,
              !.stray = @ \cup {events[i].thread :
                                  i \in {j \in 1..Len(events) :
                                           events[j].kind \in {"breakpoint", "step"}}}]

\* detach after its cleanup: it resumes, continues and releases whatever failed. Windows is
\* taken to release a live target it is asked to release (DebugActiveProcessStop).
LetGo(s, events) ==
    LET cleaned == Always(DropStep(s), ContinuedByDefault) IN
    Released(IF cleaned.e.pending = NoEvent THEN cleaned
             ELSE Let(cleaned, cleaned.e.pending, FALSE), events)

-----------------------------------------------------------------------------
(* The actor: it delivers the event at the head of the queue, or executes  *)
(* a command; an error of either ends the session.                         *)

Recorded(state) ==
    [record EXCEPT !.state = state, !.stop = IF state = "stopped" THEN @ ELSE NoStop]

Heads(kind) ==
    /\ actor = "looping" /\ engine.attached /\ engine.pending = NoEvent
    /\ queue # <<>> /\ Head(queue).kind = kind

\* The continuation guard is installed before anything else is done.
Taken(handled) ==
    [Now EXCEPT !.e.pending = [kind |-> Head(queue).kind, thread |-> Head(queue).thread,
                               handled |-> handled]]

Handled(s) == [s EXCEPT !.e.pending.handled = TRUE]

Outcome(s, stops) ==
    /\ Become(s)
    /\ queue' = Tail(queue)
    /\ actor' = IF s.ok THEN actor ELSE "bailed"
    /\ record' = IF s.ok /\ stops
                 THEN [record EXCEPT !.state = "stopped", !.break_requested = FALSE,
                                     !.stop = [thread |-> Head(queue).thread,
                                               handled |-> s.e.pending.handled]]
                 ELSE record
    /\ UNCHANGED <<breaking, exited, failing, faults, shutdown, missed, clean>>

Stepping(t) == engine.step # NoStep /\ engine.step.thread = t

\* Whatever exception the stepping thread raises ends its step.
StepEnded(t) == IF Stepping(t) THEN FinishStep(Taken(FALSE), FALSE, TRUE) ELSE Taken(FALSE)

DeliverStep ==
    /\ Heads("step")
    /\ LET t == Head(queue).thread
           ours == Then(StepEnded(t), Handled)
       IN  IF ~Stepping(t) THEN Outcome(Taken(FALSE), TRUE)
           ELSE IF engine.step.stop_after THEN Outcome(ours, TRUE)
           ELSE Outcome(Then(ours, ContinuedByDefault), FALSE)

DeliverBreakpoint ==
    /\ Heads("breakpoint")
    /\ LET t == Head(queue).thread
           at == thread[t].at
           ours == Then(Then(StepEnded(t), LAMBDA s : OwnHit(s, at, t)), Handled)
       IN  IF ~Owned(Now, at) THEN Outcome(StepEnded(t), TRUE)
           ELSE IF ours.e.step # NoStep    \* another thread's step: trap again behind it
           THEN Outcome(Then(ours, ContinuedByDefault), FALSE)
           ELSE IF ~engine.points[at].enabled    \* a retired breakpoint
           THEN Outcome(Then(ours, LAMBDA s : Continued([s EXCEPT !.e.hit = NoHit], TRUE)), FALSE)
           ELSE Outcome(ours, TRUE)

DeliverException ==
    /\ Heads("exception")
    /\ Outcome(StepEnded(Head(queue).thread), TRUE)

\* The initial break and a requested one are the debugger's; a break that comes
\* after another stop answered the request is passed on.
DeliverBreak ==
    /\ Heads("break")
    /\ Outcome([Taken(engine.initial \/ record.break_requested) EXCEPT !.e.initial = FALSE], TRUE)

Remember(s, t) ==
    IF Cardinality(s.e.known) < MaxTracked THEN [s EXCEPT !.e.known = @ \cup {t}]
    ELSE [s EXCEPT !.e.omitted = TRUE]

\* Seeded fault: a thread that starts during a step runs.
DeliverBornFree ==
    /\ Heads("born")
    /\ Outcome(ContinuedByDefault(Remember(Taken(TRUE), Head(queue).thread)), FALSE)

DeliverBorn ==
    /\ Heads("born")
    /\ LET t == Head(queue).thread
           known == Remember(Taken(TRUE), t)
           held == IF engine.step = NoStep THEN known
                   ELSE [known EXCEPT !.parked = @ \cup {t}, !.e.step.others = @ \cup {t}]
       IN  Outcome(ContinuedByDefault(held), FALSE)

Gone(s, t) == [s EXCEPT !.parked = @ \ {t}, !.e.step.others = @ \ {t}]

DeliverEnded ==
    /\ Heads("ended")
    /\ LET t == Head(queue).thread
           forgotten == [Taken(TRUE) EXCEPT !.e.known = @ \ {t}]
           done == IF Stepping(t) THEN FinishStep(forgotten, TRUE, TRUE) ELSE Gone(forgotten, t)
       IN  Outcome(Then(done, ContinuedByDefault), FALSE)

DeliverExited ==
    /\ Heads("exited")
    /\ LET continued == ContinuedByDefault(Taken(TRUE))
           last == FinishStep(Forgotten(continued), TRUE, FALSE)
       IN  IF continued.ok
           THEN /\ Become([last EXCEPT !.e.attached = FALSE])
                /\ record' = Recorded("exited")
                /\ actor' = "ended"
           ELSE /\ Become(continued)
                /\ actor' = "bailed"
                /\ UNCHANGED record
    /\ queue' = Tail(queue)
    /\ UNCHANGED <<breaking, exited, failing, faults, shutdown, missed, clean>>

-----------------------------------------------------------------------------
(* Commands.                                                               *)

CommandDone(s, state) ==
    /\ Become(s)
    /\ record' = IF s.ok THEN Recorded(state) ELSE record
    /\ UNCHANGED <<queue, breaking, exited, failing, faults, actor, shutdown, missed, clean>>

Stopped == actor = "looping" /\ record.state = "stopped"

Busy(a) == engine.hit = a \/ engine.step.address = a

Known(a) == Owned(Now, a) /\ ~engine.points[a].removed

Add(a) ==
    /\ Stopped /\ ~Busy(a) /\ ~Known(a)
    /\ Cardinality(DOMAIN engine.points) < MaxBreakpoints \/ Owned(Now, a)
    /\ memory[a] = "original"
    /\ LET point == [enabled |-> TRUE, patched |-> FALSE, removed |-> FALSE]
       IN  CommandDone(Patch([Now EXCEPT !.e.points = (a :> point) @@ @], a, TRUE), "stopped")

Enable(a) ==
    /\ Stopped /\ Known(a)
    /\ LET patched == IF ~engine.points[a].patched /\ ~Busy(a) THEN Patch(Now, a, TRUE) ELSE Now
       IN  CommandDone(Then(patched, LAMBDA s : [s EXCEPT !.e.points[a].enabled = TRUE]), "stopped")

Unpatched(a) == IF engine.points[a].patched THEN Patch(Now, a, FALSE) ELSE Now

Disable(a) ==
    /\ Stopped /\ Known(a)
    /\ CommandDone(Then(Unpatched(a), LAMBDA s : [s EXCEPT !.e.points[a].enabled = FALSE]), "stopped")

\* Seeded fault: a removed breakpoint is forgotten, and its queued traps with it.
RemoveForgets(a) ==
    /\ Stopped /\ Known(a)
    /\ CommandDone(Then(Unpatched(a),
                        LAMBDA s : [s EXCEPT !.e.points = [b \in DOMAIN @ \ {a} |-> @[b]]]),
                   "stopped")

\* The record of a removed breakpoint stays for the traps that are queued.
Remove(a) ==
    /\ Stopped /\ Known(a)
    /\ CommandDone(Then(Unpatched(a), LAMBDA s : [s EXCEPT !.e.points[a].enabled = FALSE,
                                                           !.e.points[a].removed = TRUE]), "stopped")

\* The injected thread is not stepped in the model.
Step ==
    /\ Stopped /\ record.stop.thread \in Threads /\ record.stop.handled
    /\ CommandDone(StartStep(Now, record.stop.thread, TRUE), "running")

\* An owned hit is continued by a step over its original instruction.
ContinueHit ==
    /\ Stopped /\ engine.hit # NoHit /\ record.stop.thread \in Threads
    /\ CommandDone(StartStep(Now, record.stop.thread, FALSE), "running")

Continue ==
    /\ Stopped /\ engine.hit = NoHit
    /\ \/ CommandDone(ContinuedByDefault(Now), "running")
       \/ CommandDone(Continued(Now, TRUE), "running")
       \/ CommandDone([Continued(Now, FALSE) EXCEPT !.stray = stray], "running")  \* as asked for

Break ==
    /\ actor = "looping" /\ record.state = "running" /\ ~record.break_requested
    /\ "break" \notin failing
    /\ ~breaking /\ Cardinality({i \in 1..Len(queue) : queue[i].kind = "break"}) < MaxBreaks
    /\ breaking' = TRUE
    /\ record' = [record EXCEPT !.break_requested = TRUE]
    /\ UNCHANGED <<memory, thread, parked, queue, exited, failing, faults, engine, actor,
                   shutdown, stray, missed, clean>>

Terminate ==
    /\ actor = "looping" /\ engine.attached
    /\ ~record.termination_requested /\ ~exited
    /\ exited' = TRUE
    /\ queue' = <<[kind |-> "exited", thread |-> Main]>>
    /\ LET s == Continued(Now, TRUE) IN
       /\ Become([s EXCEPT !.stray = stray])
       /\ record' = [IF s.ok THEN Recorded("running") ELSE record EXCEPT
                         !.termination_requested = TRUE]
    /\ UNCHANGED <<breaking, failing, faults, actor, shutdown, missed, clean>>

-----------------------------------------------------------------------------
(* The end of a session.                                                   *)

\* What the detach returned: to a command, to the loop that saw the shutdown flag,
\* or to the actor after an error.
Settle(s, why, events) ==
    /\ Become(s)
    /\ clean' = s.ok
    /\ queue' = <<>>
    /\ \/ /\ why = "shutdown" /\ ~s.ok
          /\ actor' = "bailed"
          /\ UNCHANGED record
       \/ /\ why # "shutdown" \/ s.ok
          /\ actor' = "ended"
          /\ record' = Recorded(IF why = "failure" THEN "failed" ELSE "detached")
    /\ UNCHANGED <<breaking, exited, failing, faults, shutdown, missed>>

\* The edits are undone while an event freezes every thread: without one the
\* engine has a thread break in, and waits.
NeedsEvent == ~NothingOfOurs(Now) /\ ~exited /\ engine.pending = NoEvent

Detach(why) ==
    IF NeedsEvent /\ "break" \notin failing
    THEN /\ actor' = why
         /\ Raise("born", Breaker)
         /\ UNCHANGED <<memory, thread, parked, breaking, exited, failing, faults, engine,
                        record, shutdown, stray, missed, clean>>
    ELSE Settle(LetGo(IF NeedsEvent THEN Failed(Now) ELSE CleanupEdits(Now, FALSE), queue),
                why, queue)

DetachCommand == actor = "looping" /\ engine.attached /\ Detach("command")

ShutdownSeen == actor = "looping" /\ engine.attached /\ shutdown /\ Detach("shutdown")

\* The loop's error, after which the actor detaches once more.
CleanUpAfterError ==
    /\ actor = "bailed"
    /\ IF engine.attached THEN Detach("failure")
       ELSE /\ actor' = "ended"
            /\ record' = Recorded("failed")
            /\ UNCHANGED <<process, failing, faults, engine, shutdown, stray, missed, clean>>

\* Five seconds after a step began.
StepTimesOut ==
    /\ actor = "looping" /\ engine.attached /\ engine.step # NoStep
    /\ actor' = "bailed"
    /\ UNCHANGED <<process, failing, faults, engine, record, shutdown, stray, missed, clean>>

\* What the wait of cleanup_edits makes of the event it gets.
Caught(event) ==
    LET t == event.thread IN
    CASE event.kind = "breakpoint" /\ Owned(Now, thread[t].at)
                                  -> Then(OwnHit(Taken(FALSE), thread[t].at, t), Handled)
      [] event.kind = "breakpoint" /\ ~Owned(Now, thread[t].at) -> Taken(FALSE)
      [] event.kind = "step"      -> Taken(Stepping(t))
      [] event.kind = "exception" -> Taken(FALSE)
      [] event.kind = "ended"     -> Gone(Taken(TRUE), t)
      [] OTHER                    -> Taken(TRUE)

CleanupEvent ==
    /\ actor \in {"command", "shutdown", "failure"} /\ queue # <<>>
    /\ LET event == Head(queue)
           ended == event.kind = "ended" /\ Stepping(event.thread)
           s == Then(Caught(event), LAMBDA r : CleanupEdits(r, ended))
       IN  Settle(LetGo(s, Tail(queue)), actor, Tail(queue))

Close ==
    /\ ~shutdown
    /\ shutdown' = TRUE
    /\ UNCHANGED <<process, failing, faults, engine, record, actor, stray, missed, clean>>

-----------------------------------------------------------------------------
TargetStep ==
    \/ \E t \in Threads : \/ Jump(t) \/ Trap(t) \/ Execute(t) \/ StepElsewhere(t)
                          \/ Fault(t) \/ Start(t) \/ End(t)
    \/ BreakerTraps \/ Exit
    \/ \E a \in Addresses : Overwrite(a)
    \/ \E call \in NativeCalls : BeginToFail(call) \/ Recover(call)

EventDelivered == \/ DeliverStep \/ DeliverBreakpoint \/ DeliverException \/ DeliverBreak
                  \/ DeliverBorn \/ DeliverEnded \/ DeliverExited

CommandExecuted ==
    \/ \E a \in Addresses : Add(a) \/ Enable(a) \/ Disable(a) \/ Remove(a)
    \/ Step \/ ContinueHit \/ Continue \/ Break \/ Terminate \/ DetachCommand

SessionEnds == ShutdownSeen \/ CleanUpAfterError \/ StepTimesOut \/ CleanupEvent

Move == TargetStep \/ EventDelivered \/ CommandExecuted \/ SessionEnds \/ Close

Spec == Init /\ [][Move]_vars

-----------------------------------------------------------------------------
(* Properties.                                                             *)

TypeOK ==
    /\ memory \in [Addresses -> {"original", "int3", "foreign"}]
    /\ thread \in [Threads -> [life : {"unborn", "live", "gone"},
                               at : Addresses \cup {Elsewhere}, past : BOOLEAN, flag : BOOLEAN]]
    /\ parked \subseteq Threads
    /\ \A i \in 1..Len(queue) : queue[i].thread \in Threads \cup {Breaker}
    /\ breaking \in BOOLEAN /\ exited \in BOOLEAN /\ shutdown \in BOOLEAN
    /\ failing \subseteq NativeCalls
    /\ faults \in 0..MaxFaults
    /\ DOMAIN engine.points \subseteq Addresses
    /\ record.state \in {"running", "stopped", "detached", "failed", "exited"}
    /\ actor \in {"looping", "bailed", "command", "shutdown", "failure", "ended"}
    /\ stray \subseteq Threads
    /\ missed \in BOOLEAN /\ clean \in BOOLEAN

\* A breakpoint is neither missed nor felt. While it is out of the code for one
\* thread's step no other thread runs over it, be it one that started meanwhile;
\* and traps that queued up behind the one that is delivered are all recognized,
\* in whatever order breakpoints are hit, disabled and removed: no thread of an
\* attached target is sent on behind an INT3, or with an exception of the
\* debugger's making.
TrapsAreTheDebuggers == faults = 0 => ~missed /\ (engine.attached => stray = {})

\* A detach that reports success has left nothing behind: no INT3, no thread
\* suspended, no trap flag, whatever calls failed before.
CleanMeansClean ==
    clean /\ actor = "ended" /\ ~exited =>
        /\ \A a \in Addresses : memory[a] # "int3"
        /\ parked = {}
        /\ \A t \in Threads : ~thread[t].flag

\* Threads are suspended for a step and never longer.
OnlyAStepParks == parked = engine.step.others

\* What the control guide says of traps that are already queued: they are
\* handled without skipping the original instruction, a detach included.
QueuedTrapsAreHandled == stray = {}
=============================================================================
