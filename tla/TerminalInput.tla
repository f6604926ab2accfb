---------------------------- MODULE TerminalInput ----------------------------
(***************************************************************************)
(* The input of one terminal (execution/input.rs).  Callers reserve bytes  *)
(* of a budget and queue a request; one thread writes the requests to the  *)
(* ConPTY pipe, chunk by chunk, and may hang in WriteFile for as long as   *)
(* the console does not read; a second thread aborts the writes of callers *)
(* that gave up.  CancelSynchronousIo reaches whatever call the writer is  *)
(* in at that moment, and nothing if it is in none.                        *)
(*                                                                         *)
(* A byte stands for a chunk of at most 4,096; the contents of the input   *)
(* are left out.                                                           *)
(***************************************************************************)
EXTENDS Naturals, Sequences, FiniteSets

CONSTANTS Writes,     \* the calls of InputWriter::write
          Size,       \* the bytes of each
          QueueMax,   \* the requests the channel holds, 8 in the code
          MaxPending, \* MAX_INPUT_BYTES
          NoWrite

InputAssumption ==
    /\ IsFiniteSet(Writes)
    /\ Size \in [Writes -> Nat \ {0}]
    /\ QueueMax \in Nat /\ MaxPending \in Nat
    /\ NoWrite \notin Writes

VARIABLES
    caller,     \* where each call is
    report,     \* the InputResult each call returned
    queue,      \* the channel
    pending,    \* pending_bytes
    canceled,   \* the flag of each request
    written,    \* bytes of each request that WriteFile confirmed
    delivered,  \* history: bytes of each request that reached the pipe
    active,     \* ActivityState::active
    current,    \* the request in the hands of the writer thread
    writer,     \* where the writer thread is
    aborting,   \* its WriteFile was canceled
    failed,     \* the current request's error and write_completion_uncertain
    canceller,  \* "awake", "asleep" in Condvar::wait, or "ended"
    dropped     \* the InputWriter was dropped

callers == <<caller, report>>
requests == <<queue, pending, canceled, written, delivered>>
threads == <<active, current, writer, aborting, failed, canceller, dropped>>
vars == <<callers, requests, threads>>

NoReport == [outcome |-> "none", bytes |-> 0, uncertain |-> FALSE]
NoFailure == [error |-> FALSE, uncertain |-> FALSE]

Init ==
    /\ caller = [w \in Writes |-> "idle"]
    /\ report = [w \in Writes |-> NoReport]
    /\ queue = <<>>
    /\ pending = 0
    /\ canceled = [w \in Writes |-> FALSE]
    /\ written = [w \in Writes |-> 0]
    /\ delivered = [w \in Writes |-> 0]
    /\ active = NoWrite
    /\ current = NoWrite
    /\ writer = "receiving"
    /\ aborting = FALSE
    /\ failed = NoFailure
    /\ canceller = "awake"
    /\ dropped = FALSE

Settled(w) == caller[w] \in {"idle", "done"}

Notify == canceller' = IF canceller = "asleep" THEN "awake" ELSE canceller

\* CancelSynchronousIo on the writer's thread.
CancelIo == aborting' = (aborting \/ writer = "in_write")

-----------------------------------------------------------------------------
(* The callers.                                                            *)

\* The bytes are counted first ...
Count(w) ==
    /\ caller[w] = "idle" /\ ~dropped
    /\ pending + Size[w] <= MaxPending
    /\ pending' = pending + Size[w]
    /\ caller' = [caller EXCEPT ![w] = "counted"]
    /\ UNCHANGED <<report, queue, canceled, written, delivered, threads>>

Refuse(w) ==
    /\ caller[w] = "idle" /\ ~dropped
    /\ pending + Size[w] > MaxPending
    /\ caller' = [caller EXCEPT ![w] = "done"]
    /\ UNCHANGED <<report, requests, threads>>

\* ... and given back if the channel is full.
Enqueue(w) ==
    /\ caller[w] = "counted"
    /\ Len(queue) < QueueMax
    /\ queue' = Append(queue, w)
    /\ caller' = [caller EXCEPT ![w] = "waiting"]
    /\ UNCHANGED <<report, pending, canceled, written, delivered, threads>>

\* Seeded fault: the bytes of a refused request stay counted.
QueueFullKeepsBytes(w) ==
    /\ caller[w] = "counted"
    /\ Len(queue) = QueueMax
    /\ caller' = [caller EXCEPT ![w] = "done"]
    /\ UNCHANGED <<report, requests, threads>>

QueueFull(w) ==
    /\ caller[w] = "counted"
    /\ Len(queue) = QueueMax
    /\ pending' = pending - Size[w]
    /\ caller' = [caller EXCEPT ![w] = "done"]
    /\ UNCHANGED <<report, queue, canceled, written, delivered, threads>>

\* The writer's answer.
TakeResult(w) ==
    /\ caller[w] = "answered"
    /\ caller' = [caller EXCEPT ![w] = "done"]
    /\ UNCHANGED <<report, requests, threads>>

\* The call times out or is canceled: what it reports is read before the guard
\* of the request is dropped; the writer may have answered unseen.
GiveUp(w) ==
    /\ caller[w] \in {"waiting", "answered"}
    /\ caller' = [caller EXCEPT ![w] = "leaving"]
    /\ report' = [report EXCEPT ![w] =
                    [outcome |-> "gave_up", bytes |-> written[w], uncertain |-> TRUE]]
    /\ UNCHANGED <<requests, threads>>

\* The future of the call is dropped: nobody reads a report.
Abandon(w) ==
    /\ caller[w] \in {"waiting", "answered"}
    /\ caller' = [caller EXCEPT ![w] = "leaving"]
    /\ report' = [report EXCEPT ![w] = NoReport]
    /\ UNCHANGED <<requests, threads>>

\* CancelWrite is dropped: under the lock that guards the active request.
CancelWrite(w) ==
    /\ caller[w] = "leaving"
    /\ caller' = [caller EXCEPT ![w] = "done"]
    /\ canceled' = [canceled EXCEPT ![w] = TRUE]
    /\ IF active = w THEN CancelIo ELSE UNCHANGED aborting
    /\ Notify
    /\ UNCHANGED <<report, queue, pending, written, delivered,
                   active, current, writer, failed, dropped>>

\* The last owner lets go of the InputWriter: no call holds it any more.
DropWriter ==
    /\ ~dropped
    /\ \A w \in Writes : Settled(w)
    /\ dropped' = TRUE
    /\ IF active = NoWrite
       THEN UNCHANGED <<canceled, aborting>>
       ELSE canceled' = [canceled EXCEPT ![active] = TRUE] /\ CancelIo
    /\ Notify
    /\ UNCHANGED <<callers, queue, pending, written, delivered,
                   active, current, writer, failed>>

-----------------------------------------------------------------------------
(* The writer thread.                                                      *)

Receive ==
    /\ writer = "receiving" /\ queue # <<>>
    /\ active' = Head(queue)
    /\ current' = Head(queue)
    /\ queue' = Tail(queue)
    /\ writer' = "deciding"
    /\ failed' = NoFailure
    /\ Notify
    /\ UNCHANGED <<callers, pending, canceled, written, delivered, aborting, dropped>>

Decide ==
    /\ writer = "deciding"
    /\ writer' = IF written[current] < Size[current] /\ ~canceled[current]
                 THEN "submitting" ELSE "finished"
    /\ UNCHANGED <<callers, requests, active, current, aborting, failed, canceller, dropped>>

Submit ==
    /\ writer = "submitting"
    /\ writer' = "in_write"
    /\ UNCHANGED <<callers, requests, active, current, aborting, failed, canceller, dropped>>

\* WriteFile accepts a part of the chunk.
WriteSucceeds ==
    /\ writer = "in_write"
    /\ \E count \in 1..(Size[current] - written[current]) :
          /\ written' = [written EXCEPT ![current] = @ + count]
          /\ delivered' = [delivered EXCEPT ![current] = @ + count]
    /\ writer' = "deciding"
    /\ aborting' = FALSE
    /\ UNCHANGED <<callers, queue, pending, canceled, active, current, failed,
                   canceller, dropped>>

WriteAcceptsNothing ==
    /\ writer = "in_write"
    /\ writer' = "finished"
    /\ failed' = [error |-> TRUE, uncertain |-> FALSE]
    /\ aborting' = FALSE
    /\ UNCHANGED <<callers, requests, active, current, canceller, dropped>>

\* A WriteFile that fails or is aborted may have delivered bytes all the same.
Undelivered == 0..(Size[current] - written[current])

\* Seeded fault: a failed write is taken for one that did nothing.
WriteFailsForSure ==
    /\ writer = "in_write"
    /\ \E count \in Undelivered : delivered' = [delivered EXCEPT ![current] = @ + count]
    /\ writer' = "finished"
    /\ failed' = [error |-> TRUE, uncertain |-> FALSE]
    /\ aborting' = FALSE
    /\ UNCHANGED <<callers, queue, pending, canceled, written, active, current,
                   canceller, dropped>>

WriteFails ==
    /\ writer = "in_write"
    /\ \E count \in Undelivered : delivered' = [delivered EXCEPT ![current] = @ + count]
    /\ writer' = "finished"
    /\ failed' = [error |-> TRUE, uncertain |-> TRUE]
    /\ aborting' = FALSE
    /\ UNCHANGED <<callers, queue, pending, canceled, written, active, current,
                   canceller, dropped>>

WriteAborted ==
    /\ writer = "in_write" /\ aborting
    /\ \E count \in Undelivered : delivered' = [delivered EXCEPT ![current] = @ + count]
    /\ writer' = "finished"
    /\ failed' = [error |-> ~canceled[current], uncertain |-> TRUE]
    /\ aborting' = FALSE
    /\ UNCHANGED <<callers, queue, pending, canceled, written, active, current,
                   canceller, dropped>>

Release ==
    /\ writer = "finished"
    /\ active' = NoWrite
    /\ writer' = "releasing"
    /\ Notify
    /\ UNCHANGED <<callers, requests, current, aborting, failed, dropped>>

GiveBack ==
    /\ writer = "releasing"
    /\ pending' = pending - Size[current]
    /\ writer' = "answering"
    /\ UNCHANGED <<callers, queue, canceled, written, delivered, active, current,
                   aborting, failed, canceller, dropped>>

Outcome == IF failed.error THEN "failed"
           ELSE IF written[current] = Size[current] THEN "written" ELSE "canceled"

\* The answer goes to a caller that still waits for it.
Answer ==
    /\ writer = "answering"
    /\ IF caller[current] = "waiting"
       THEN /\ caller' = [caller EXCEPT ![current] = "answered"]
            /\ report' = [report EXCEPT ![current] =
                            [outcome |-> Outcome, bytes |-> written[current],
                             uncertain |-> failed.uncertain]]
       ELSE UNCHANGED callers
    /\ writer' = "receiving"
    /\ current' = NoWrite
    /\ UNCHANGED <<requests, active, aborting, failed, canceller, dropped>>

\* The channel is closed and empty: WriterStopped is dropped.
Stop ==
    /\ writer = "receiving" /\ queue = <<>> /\ dropped
    /\ writer' = "stopped"
    /\ Notify
    /\ UNCHANGED <<callers, requests, active, current, aborting, failed, dropped>>

-----------------------------------------------------------------------------
(* The cancel thread holds the lock from its look until it waits.          *)

\* Seeded fault: one attempt, although the write may be submitted after it.
CancellerTriesOnce ==
    /\ canceller = "awake"
    /\ \/ writer = "stopped" /\ canceller' = "ended" /\ UNCHANGED aborting
       \/ /\ writer # "stopped" /\ canceller' = "asleep"
          /\ IF active # NoWrite /\ canceled[active] THEN CancelIo ELSE UNCHANGED aborting
    /\ UNCHANGED <<callers, requests, active, current, writer, failed, dropped>>

CancellerLooks ==
    /\ canceller = "awake"
    /\ \/ writer = "stopped" /\ canceller' = "ended" /\ UNCHANGED aborting
       \/ /\ writer # "stopped" /\ active # NoWrite /\ canceled[active]
          /\ CancelIo
          /\ UNCHANGED canceller        \* and again 2 ms later
       \/ /\ writer # "stopped" /\ ~(active # NoWrite /\ canceled[active])
          /\ canceller' = "asleep"
          /\ UNCHANGED aborting
    /\ UNCHANGED <<callers, requests, active, current, writer, failed, dropped>>

-----------------------------------------------------------------------------
Call(w) == \/ Count(w) \/ Refuse(w) \/ Enqueue(w) \/ QueueFull(w)
           \/ TakeResult(w) \/ GiveUp(w) \/ Abandon(w) \/ CancelWrite(w)

WriterStep == \/ Receive \/ Decide \/ Submit
              \/ WriteSucceeds \/ WriteAcceptsNothing \/ WriteFails \/ WriteAborted
              \/ Release \/ GiveBack \/ Answer \/ Stop

Next == (\E w \in Writes : Call(w)) \/ DropWriter \/ WriterStep \/ CancellerLooks

Spec == Init /\ [][Next]_vars

\* The threads are scheduled and an aborted WriteFile returns; a WriteFile that
\* nobody aborts may take for ever.  A call's timeout passes.
WriterRuns == \/ Receive \/ Decide \/ Submit \/ WriteAborted
              \/ Release \/ GiveBack \/ Answer \/ Stop

CallRuns(w) == \/ Enqueue(w) \/ QueueFull(w) \/ TakeResult(w) \/ GiveUp(w)
               \/ CancelWrite(w)

Fairness == /\ WF_vars(WriterRuns)
            /\ WF_vars(CancellerLooks)
            /\ \A w \in Writes : WF_vars(CallRuns(w))

FairSpec == Spec /\ Fairness

-----------------------------------------------------------------------------
(* Properties.                                                             *)

TypeOK ==
    /\ caller \in [Writes -> {"idle", "counted", "waiting", "answered", "leaving", "done"}]
    /\ report \in [Writes -> [outcome : {"none", "gave_up", "failed", "written", "canceled"},
                              bytes : Nat, uncertain : BOOLEAN]]
    /\ queue \in Seq(Writes)
    /\ pending \in Nat
    /\ canceled \in [Writes -> BOOLEAN]
    /\ written \in [Writes -> Nat]
    /\ delivered \in [Writes -> Nat]
    /\ active \in Writes \cup {NoWrite}
    /\ current \in Writes \cup {NoWrite}
    /\ writer \in {"receiving", "deciding", "submitting", "in_write", "finished",
                   "releasing", "answering", "stopped"}
    /\ aborting \in BOOLEAN
    /\ failed \in [error : BOOLEAN, uncertain : BOOLEAN]
    /\ canceller \in {"awake", "asleep", "ended"}
    /\ dropped \in BOOLEAN

\* The requests whose bytes are counted.
Counted(w) ==
    \/ caller[w] = "counted"
    \/ \E i \in 1..Len(queue) : queue[i] = w
    \/ current = w /\ writer # "answering"

\* The budget is what is reserved, queued or being written, whoever gave up on
\* it, and it is never exceeded: neither a leak, which would close the
\* terminal's input for good, nor a request that is given back twice.
Bytes(w) == {w} \X (1..Size[w])

BudgetIsExact ==
    /\ pending = Cardinality(UNION {Bytes(w) : w \in {w \in Writes : Counted(w)}})
    /\ pending <= MaxPending

\* A WriteFile is only ever aborted for the caller of the request it writes:
\* a caller that gives up never cuts off the input of another one.
OnlyOwnWriteIsAborted ==
    aborting => writer = "in_write" /\ active = current /\ canceled[current]

\* What is queued is counted, and no abort leaves its own request.
QueueIsSound == BudgetIsExact /\ OnlyOwnWriteIsAborted

\* What a call was told of its bytes stays true: as many reached the console as
\* it says, or at least as many if it says that the write is uncertain.
ReportIsTrue ==
    \A w \in Writes : report[w].outcome # "none" =>
        /\ report[w].bytes <= delivered[w]
        /\ ~report[w].uncertain => report[w].bytes = delivered[w]
        /\ report[w].outcome = "written" => delivered[w] = Size[w]

\* When every call has returned, whichever way, its bytes come back to the
\* budget although the console never reads: an abandoned write does not keep
\* the terminal's input blocked.
BudgetComesBack == (\A w \in Writes : Settled(w)) ~> pending = 0
=============================================================================
