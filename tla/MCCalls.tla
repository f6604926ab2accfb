------------------------------ MODULE MCCalls ------------------------------
(* Two parts whose callers may not wait for Windows: the runtime of native calls and   *)
(* the input of one terminal.  They share no state, so a behavior is one of a single   *)
(* part, chosen at the start.                                                          *)
(* Runtime: two interactive calls, of which one may hang in Windows for ever, and a    *)
(* read.  Input: three writes, for which neither the queue nor the budget has room at  *)
(* once.                                                                               *)
EXTENDS NativeRuntime, Naturals

CONSTANTS click, hang, read,
          a, b, c, Writes, Size, QueueMax, MaxPending, NoWrite

SizeOf == [w \in Writes |-> CASE w = a -> 2 [] w = b -> 1 [] OTHER -> 4]

VARIABLES
    part,
    typist, report, queue, pending, given_up, written, delivered, active, current, writer,
    aborting, failed, canceller, dropped

typing == <<typist, report, queue, pending, given_up, written, delivered, active, current,
            writer, aborting, failed, canceller, dropped>>
all == <<part, vars, typing>>

Input == INSTANCE TerminalInput WITH caller <- typist, canceled <- given_up

ASSUME TypistAssumption == Input!InputAssumption

AllInit == part \in {"runtime", "input"} /\ Init /\ Input!Init

InRuntime == part = "runtime" /\ UNCHANGED <<part, typing>>
InInput == part = "input" /\ UNCHANGED <<part, vars>>

AllNext == (InRuntime /\ Next) \/ (InInput /\ Input!Next)

(* The fairness of each part. *)
AllSpec ==
    /\ AllInit /\ [][AllNext]_all
    /\ \A o \in Calls :
        /\ WF_all(InRuntime /\ GiveUpWaiting(o)) /\ WF_all(InRuntime /\ Expire(o))
        /\ WF_all(InRuntime /\ Return(o)) /\ WF_all(InRuntime /\ DropOnDeadline(o))
        /\ SF_all(InRuntime /\ CancelContext(o)) /\ WF_all(InRuntime /\ AbortTask(o))
        /\ WF_all(InRuntime /\ TaskStep(o))
    /\ WF_all(InInput /\ Input!WriterRuns)
    /\ WF_all(InInput /\ Input!CancellerLooks)
    /\ \A w \in Writes : WF_all(InInput /\ Input!CallRuns(w))

(* The properties of TerminalInput, stated there. *)
InputIsTrue == Input!QueueIsSound /\ Input!ReportIsTrue
BudgetComesBack == Input!BudgetComesBack
=============================================================================
