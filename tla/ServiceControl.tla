--------------------------- MODULE ServiceControl ---------------------------
(***************************************************************************)
(* One call that starts, stops, restarts or deletes a Windows service      *)
(* (win32/service.rs).  The service control manager answers every request  *)
(* at once and the service changes its state later, or hangs, or fails;    *)
(* other programs start, stop, pause, delete and create it meanwhile.      *)
(*                                                                         *)
(* Time is counted in ticks, the shortest interval between two queries.    *)
(* Names, access rights, process identifiers and the JSON of the report    *)
(* are left out, and so is a state code that Windows does not define.      *)
(***************************************************************************)
EXTENDS Naturals, Sequences

CONSTANTS
    Deadline,     \* timeout_ms
    Hints,        \* wait hints of the service; 0 stands for DefaultHint
    DefaultHint,  \* the window of a service that gives no hint, 1000 ms
    MaxCheckpoint,\* bound on the service's checkpoint
    MaxOutside,   \* bound on what other programs do to the service
    MaxInstances  \* bound on the services that have the name, one after the other

ControlAssumption ==
    /\ Deadline \in Nat \ {0} /\ DefaultHint \in Nat \ {0}
    /\ Hints \subseteq Nat
    /\ MaxCheckpoint \in Nat /\ MaxOutside \in Nat /\ MaxInstances \in Nat

VARIABLES
    service,  \* what the service control manager has under the name
    call,     \* the call: its parameters, where it is and its locals
    clock,    \* the time since the call began, and whether it was cancelled
    past      \* history: each request that the manager took, in order, by the service it
              \* went to; and what the service did during the call

vars == <<service, call, clock, past>>

Pendings == {"start_pending", "stop_pending", "pause_pending"}
Settled == {"running", "stopped", "paused"}
StepActions == {"start", "stop"}

Goal(a) == IF a = "start" THEN "running" ELSE "stopped"
PendingOf(a) == IF a = "start" THEN "start_pending" ELSE "stop_pending"
Success(outcome) == outcome \in {"reached", "already_in_state", "absent", "already_absent"}

NoStatus == [state |-> "none", checkpoint |-> 0, hint |-> 0, exit |-> 0]
NoProgress == [state |-> "none", checkpoint |-> 0, until |-> 0]
Result == [outcome |-> "pending", accepted |-> FALSE, observed |-> NoStatus]

Settle(state, exit) == [state |-> state, checkpoint |-> 0, hint |-> 0, exit |-> exit]
Pend(state, hint) == [state |-> state, checkpoint |-> 0, hint |-> hint, exit |-> 0]

Init ==
    /\ \/ service \in [id : {1}, life : {"present", "marked"}, held : {FALSE},
                       status : {Settle("running", 0), Settle("stopped", 0)}
                                \cup {Pend("start_pending", h) : h \in Hints}
                                \cup {Pend("stop_pending", h) : h \in Hints}]
       \/ service = [id |-> 0, life |-> "absent", held |-> FALSE, status |-> Settle("stopped", 0)]
    /\ \E a \in {"start", "stop", "restart", "delete"}, w \in BOOLEAN :
          call = [action |-> a, wait |-> w, pc |-> "open", now |-> 0, step |-> "none",
                  first |-> TRUE, pended |-> FALSE, pended_after |-> FALSE,
                  progress |-> NoProgress, wake |-> 0, result |-> Result, steps |-> <<>>,
                  marked |-> FALSE]
    /\ clock = [now |-> 0, canceled |-> FALSE]
    /\ past = [asked |-> [a \in StepActions \cup {"delete"} |-> <<>>], outside |-> 0,
               stopped |-> FALSE, restarted |-> FALSE, absent |-> FALSE, first_id |-> 0]

-----------------------------------------------------------------------------
(* What the service did while the call was open, for the properties.       *)

Seen(p, s) ==
    [p EXCEPT !.stopped = @ \/ (s.life # "absent" /\ s.status.state = "stopped"),
              !.restarted = @ \/ (p.stopped /\ s.status.state = "running"),
              !.absent = @ \/ s.life = "absent"]

Become(s, p) == service' = s /\ past' = Seen(p, s)
Change(status) == Become([service EXCEPT !.status = status], past)
Quiet == UNCHANGED <<service, past>>

-----------------------------------------------------------------------------
(* transition_step.                                                        *)

Go(pc) == call' = [call EXCEPT !.pc = pc]

\* End the step; a restart goes on with its start only after a stop that succeeded.
EndWith(c, outcome) ==
    LET ended == [c.result EXCEPT !.outcome = outcome]
        steps == Append(c.steps, ended)
    IN  IF c.action = "restart" /\ c.step = "stop" /\ Success(outcome)
        THEN [c EXCEPT !.pc = "begin", !.steps = steps, !.step = "start", !.first = TRUE,
                       !.pended = FALSE, !.pended_after = FALSE, !.progress = NoProgress,
                       !.result = Result]
        ELSE [c EXCEPT !.pc = "done", !.steps = steps]

\* Seeded fault: the start is not bound to the outcome of the stop.
EndAnyway(c, outcome) ==
    LET steps == Append(c.steps, [c.result EXCEPT !.outcome = outcome])
    IN  IF c.action = "restart" /\ c.step = "stop" /\ outcome # "interrupted"
        THEN [c EXCEPT !.pc = "begin", !.steps = steps, !.step = "start", !.first = TRUE,
                       !.pended = FALSE, !.pended_after = FALSE, !.progress = NoProgress,
                       !.result = Result]
        ELSE [c EXCEPT !.pc = "done", !.steps = steps]

EndStep(c, outcome) == EndWith(c, outcome)
Ends(outcome) == call' = EndStep(call, outcome)

\* The service is opened once, by its name; the handle stays with that service.
OpenHandle ==
    /\ call.pc = "open" /\ call.action # "delete"
    /\ \/ /\ ~clock.canceled /\ service.life # "absent"
          /\ call' = [call EXCEPT !.pc = "begin",
                                  !.step = IF call.action = "start" THEN "start" ELSE "stop"]
          /\ Become([service EXCEPT !.held = TRUE], [past EXCEPT !.first_id = service.id])
       \/ Go("done") /\ Quiet       \* cancelled, absent or denied: an error and no step
    /\ UNCHANGED clock

\* The queries at the start of a step, after a request and after a sleep.
Query ==
    /\ call.pc \in {"begin", "requery", "woken"}
    /\ \/ /\ call.pc = "requery" \/ ~clock.canceled
          /\ call' = [call EXCEPT !.pc = "decide", !.first = @ /\ call.pc = "begin",
                                  !.result.observed = service.status]
       \/ (call.pc = "requery" \/ ~clock.canceled) /\ Ends("query_failed")
       \/ call.pc # "requery" /\ clock.canceled /\ Ends("interrupted")
    /\ Quiet /\ UNCHANGED clock

Status == call.result.observed
AtGoal == Status.state = Goal(call.step)
Late == clock.now > Deadline \/ (clock.now = Deadline /\ ~AtGoal)
Deciding == call.pc = "decide" /\ ~clock.canceled

DecideLate == Deciding /\ Late /\ Ends("timed_out")
DecideInterrupted == call.pc = "decide" /\ clock.canceled /\ Ends("interrupted")

DecideGoal ==
    /\ Deciding /\ ~Late /\ AtGoal
    /\ Ends(IF call.first THEN "already_in_state"
            ELSE IF call.step = "stop" /\ Status.exit # 0 THEN "failed"
            ELSE "reached")

\* Neither late nor at the goal: settled elsewhere, or on its way.
Elsewhere == Deciding /\ ~Late /\ ~AtGoal
IsPending == Status.state \in Pendings
Accepted == call.result.accepted

\* A service that settled after the request, or after a transition of its own towards the
\* goal, has failed; a stop that was accepted may take effect later.
DecideFailed ==
    /\ Elsewhere /\ ~IsPending
    /\ IF Accepted THEN call.step = "start" \/ call.pended_after ELSE call.pended
    /\ Ends("failed")

\* A service that has not begun a transition is asked for one, once.
RequestOnce == Elsewhere /\ ~IsPending /\ ~Accepted /\ ~call.pended /\ Go("request")

\* Seeded fault: a stop that was accepted and has not begun is asked for again.
RequestAgain == Elsewhere /\ ~IsPending /\ ~call.pended_after /\ ~call.pended /\ Go("request")

DecideRequest == RequestOnce

\* A larger wait hint without a new checkpoint is not progress.
Progressed(p, s, now) ==
    IF p = NoProgress \/ s.state # p.state \/ s.checkpoint > p.checkpoint
      THEN [state |-> s.state, checkpoint |-> s.checkpoint,
            until |-> now + (IF s.hint = 0 THEN DefaultHint ELSE s.hint)]
      ELSE p

DecideWait ==
    /\ Elsewhere
    /\ IsPending \/ (Accepted /\ call.step = "stop" /\ ~call.pended_after)
    /\ LET progress == Progressed(call.progress, Status, clock.now)
           noted == [call EXCEPT !.pended = @ \/ Status.state = PendingOf(call.step),
                                 !.pended_after = @ \/ (IsPending /\ Accepted),
                                 !.progress = progress]
       IN  call' = IF ~call.wait THEN EndStep(call, "pending")
                   ELSE IF clock.now >= progress.until THEN EndStep(call, "no_progress")
                   ELSE [noted EXCEPT !.pc = "sleeping", !.wake = clock.now + 1]

Decide ==
    /\ \/ DecideLate \/ DecideInterrupted \/ DecideGoal \/ DecideFailed
       \/ DecideRequest \/ DecideWait
    /\ Quiet /\ UNCHANGED clock

\* What the manager accepts: a stopped service is started, a running or paused one stopped.
Takes(a) == service.status.state \in IF a = "start" THEN {"stopped"} ELSE {"running", "paused"}

Request ==
    /\ call.pc = "request" /\ ~clock.canceled
    /\ \/ /\ Takes(call.step) /\ (call.step = "start" => service.life = "present")
          /\ \E status \in {Settle(Goal(call.step), 0)}
                           \cup {Pend(PendingOf(call.step), h) : h \in Hints}
                           \cup (IF call.step = "stop" THEN {service.status} ELSE {}) :
                Become([service EXCEPT !.status = status],
                       [past EXCEPT !.asked[call.step] = Append(@, service.id)])
          /\ call' = [call EXCEPT !.pc = "requery", !.result.accepted = TRUE, !.first = FALSE,
                                  !.progress = NoProgress]
       \/ Go("refused") /\ Quiet
    /\ UNCHANGED clock

RequestInterrupted ==
    /\ call.pc = "request" /\ clock.canceled
    /\ Ends("interrupted") /\ Quiet /\ UNCHANGED clock

\* A refused request is reported with the state that the service is in then.
Refused ==
    /\ call.pc = "refused"
    /\ \E observed \in {service.status, Status} :
          call' = EndStep([call EXCEPT !.result.observed = observed], "request_failed")
    /\ Quiet /\ UNCHANGED clock

Wake ==
    /\ call.pc = "sleeping" /\ (clock.canceled \/ clock.now >= call.wake)
    /\ IF clock.canceled THEN Ends("interrupted") ELSE Go("woken")
    /\ Quiet /\ UNCHANGED clock

-----------------------------------------------------------------------------
(* delete_inner and wait_for_absence.                                      *)

Report(c, outcome) ==
    [c EXCEPT !.pc = "done", !.steps = <<[c.result EXCEPT !.outcome = outcome]>>]
Reports(outcome) == call' = Report(call, outcome)

\* The handle that is opened for the request keeps its service from being replaced.
DeleteOpens ==
    /\ call.pc = "open" /\ call.action = "delete"
    /\ \/ /\ service.life = "absent" /\ ~clock.canceled
          /\ Reports("already_absent") /\ Become(service, past)
       \/ /\ service.life = "marked" /\ ~clock.canceled
          /\ call' = [call EXCEPT !.pc = "probe", !.marked = TRUE]
          /\ Become(service, [past EXCEPT !.first_id = service.id])
       \/ /\ service.life # "absent" /\ ~clock.canceled
          /\ Go("look")
          /\ Become([service EXCEPT !.held = TRUE], [past EXCEPT !.first_id = service.id])
       \/ Go("done") /\ Quiet
    /\ UNCHANGED clock

\* Before the request: the original state, the deadline, the cancellation.
DeleteLooks ==
    /\ call.pc = "look"
    /\ IF clock.now >= Deadline
       THEN Reports("timed_out") /\ service' = [service EXCEPT !.held = FALSE]
       ELSE IF clock.canceled
       THEN Reports("interrupted") /\ service' = [service EXCEPT !.held = FALSE]
       ELSE Go("delete") /\ UNCHANGED service
    /\ UNCHANGED <<clock, past>>

\* DeleteService marks the service; the handle is closed whatever it returns.
DeleteRequest ==
    /\ call.pc = "delete"
    /\ LET closed == [service EXCEPT !.held = FALSE]
           asked == [past EXCEPT !.asked["delete"] = Append(@, service.id)] IN
       \/ /\ service.life = "present"
          /\ call' = [call EXCEPT !.pc = "probe", !.marked = TRUE, !.result.accepted = TRUE]
          /\ Become([closed EXCEPT !.life = "marked"], asked)
       \/ /\ service.life = "marked"
          /\ call' = [call EXCEPT !.pc = "probe", !.marked = TRUE]
          /\ Become(closed, past)
       \/ Reports("request_failed") /\ Become(closed, past)
    /\ UNCHANGED clock

\* Probes open the name and only look: it may be a replacement.
Probe ==
    /\ call.pc = "probe"
    /\ \/ clock.canceled /\ Reports("interrupted")
       \/ ~clock.canceled /\ service.life = "absent" /\ Reports("absent")
       \/ ~clock.canceled /\ service.life # "absent"
          /\ IF clock.now >= Deadline THEN Reports("timed_out")
             ELSE IF ~call.wait THEN Reports("pending")
             ELSE call' = [call EXCEPT !.pc = "pausing", !.wake = clock.now + 1]
       \/ ~clock.canceled /\ Reports("query_failed")
    /\ Quiet /\ UNCHANGED clock

ProbeAgain ==
    /\ call.pc = "pausing" /\ (clock.canceled \/ clock.now >= call.wake)
    /\ IF clock.canceled THEN Reports("interrupted") ELSE Go("probe")
    /\ Quiet /\ UNCHANGED clock

-----------------------------------------------------------------------------
(* The service, its manager and other programs.                            *)

Alive == call.pc \notin {"open", "done"} /\ UNCHANGED <<call, clock>>

\* The service announces a step of its transition, or only a new hint.
Advance ==
    /\ Alive /\ service.status.state \in Pendings /\ service.life # "absent"
    /\ \E h \in Hints :
          \/ /\ service.status.checkpoint < MaxCheckpoint
             /\ Change([service.status EXCEPT !.checkpoint = @ + 1, !.hint = h])
          \/ Change([service.status EXCEPT !.hint = h])

Arrive ==
    /\ Alive /\ service.status.state \in Pendings /\ service.life # "absent"
    /\ Change(CASE service.status.state = "start_pending" -> Settle("running", 0)
                [] service.status.state = "stop_pending" -> Settle("stopped", 0)
                [] OTHER -> Settle("paused", 0))

\* A running service takes a stop that was accepted before, or fails, as one that starts may.
Fall ==
    /\ Alive /\ service.status.state # "stopped" /\ service.life # "absent"
    /\ \E exit \in {0, 1} : Change(Settle("stopped", exit))

\* Others use the manager as the call does.
OutsideActs ==
    /\ Alive /\ past.outside < MaxOutside
    /\ LET counted == [past EXCEPT !.outside = @ + 1]
           s == service.status.state
           To(status) == Become([service EXCEPT !.status = status], counted)
       IN
       \/ /\ service.life = "present" /\ s = "stopped"
          /\ \E h \in Hints : To(Pend("start_pending", h))
       \/ /\ service.life # "absent" /\ s = "running"
          /\ \E h \in Hints, p \in {"stop_pending", "pause_pending"} : To(Pend(p, h))
       \/ service.life = "present" /\ Become([service EXCEPT !.life = "marked"], counted)
       \/ /\ service.life = "absent" /\ service.id < MaxInstances
          /\ Become([service EXCEPT !.id = @ + 1, !.life = "present",
                                    !.status = Settle("stopped", 0)], counted)

\* A marked service is removed when it has stopped and no handle is open.
Vanish ==
    /\ Alive /\ service.life = "marked" /\ ~service.held /\ service.status.state = "stopped"
    /\ Become([service EXCEPT !.life = "absent"], past)

Tick ==
    /\ call.pc \notin {"open", "done"} /\ clock.now <= Deadline
    /\ clock' = [clock EXCEPT !.now = @ + 1]
    /\ UNCHANGED <<service, call, past>>

Cancel ==
    /\ call.pc # "done" /\ ~clock.canceled
    /\ clock' = [clock EXCEPT !.canceled = TRUE]
    /\ UNCHANGED <<service, call, past>>

CallStep ==
    \/ OpenHandle \/ Query \/ Decide \/ Request \/ RequestInterrupted \/ Refused \/ Wake
    \/ DeleteOpens \/ DeleteLooks \/ DeleteRequest \/ Probe \/ ProbeAgain

Next ==
    \/ CallStep
    \/ Advance \/ Arrive \/ Fall \/ OutsideActs \/ Vanish
    \/ Tick \/ Cancel

Spec == Init /\ [][Next]_vars

-----------------------------------------------------------------------------
(* Properties.                                                             *)

StepOf(i) == IF call.action = "restart" THEN <<"stop", "start">>[i] ELSE call.action

(* What a transition says of each of its steps: a step that counts as      *)
(* accepted sent one request and no second, to the service that was opened *)
(* first; one that does not sent none; and success means that the desired  *)
(* state was observed, for a stop it asked for with a good exit code.      *)
StepsAreTrue ==
    call.pc = "done" /\ call.action # "delete" =>
        \A i \in 1..Len(call.steps) :
            LET r == call.steps[i]
            IN  /\ past.asked[StepOf(i)] = IF r.accepted THEN <<past.first_id>> ELSE <<>>
                /\ Success(r.outcome) => r.observed.state = Goal(StepOf(i))
                /\ r.outcome = "already_in_state" => ~r.accepted
                /\ r.outcome = "reached" /\ StepOf(i) = "stop" => r.observed.exit = 0

(* "No start request is possible until this exact handle was observed      *)
(* stopped": a restart asks for a start only after the service had stopped *)
(* during the call, and reports success only if it ran again after that,   *)
(* whoever else starts and stops it.                                       *)
RestartIsOrdered ==
    call.action = "restart" =>
        /\ past.asked["start"] # <<>> => past.stopped
        /\ call.pc = "done" /\ Len(call.steps) = 2 /\ Success(call.steps[2].outcome) =>
              past.restarted

(* "Never send another delete request to a reopened name": the manager     *)
(* took at most one delete request, for the service that had the name      *)
(* first and never for a replacement; the report owns up to it; and        *)
(* "absent" was true during the call.                                      *)
OriginalOnly ==
    call.action = "delete" =>
        /\ past.asked["delete"] \in {<<>>, <<past.first_id>>}
        /\ call.pc = "done" =>
              /\ (past.asked["delete"] # <<>>) =
                    (call.steps # <<>> /\ call.steps[1].accepted)
              /\ call.steps # <<>> /\ Success(call.steps[1].outcome) => past.absent

ControlIsTrue == StepsAreTrue /\ RestartIsOrdered /\ OriginalOnly
=============================================================================
