------------------------ MODULE ServiceConfiguration ------------------------
(***************************************************************************)
(* One call that creates or configures a Windows service, or sets its      *)
(* start type (win32/service.rs): a sequence of native calls, each of      *)
(* which may fail or find the call cancelled, on a name that other         *)
(* programs configure, delete and create again meanwhile.                  *)
(*                                                                         *)
(* A setting is a field whose value says who wrote it.  What the values    *)
(* mean is left out, but for the recovery actions: Windows ignores a reset *)
(* period without actions, so a call that sets only the period writes the  *)
(* actions it has read.                                                    *)
(***************************************************************************)
EXTENDS Naturals, Sequences, SequencesExt

CONSTANTS
    Wishes,       \* the sets of fields that callers set
    MaxOutside    \* bound on what other programs do

\* ConfigurationStep, in the order of ConfigurationPlan::steps.
Order == <<"basic", "description", "delayed_auto_start", "recovery", "flag", "sid_type">>
Fields == ToSet(Order)
Place(f) == CHOOSE i \in DOMAIN Order : Order[i] = f

\* Settings::validate refuses a call that sets nothing.
ConfigurationAssumption == Wishes \subseteq (SUBSET Fields) \ {{}}

VARIABLES
    service,   \* what has the name: which service, its handles of this call, its fields
    call,
    canceled,
    past       \* history: the fields this call changed, and of which services

vars == <<service, call, canceled, past>>

Operations == {"create", "configure", "set_startup"}

Init ==
    /\ service \in [id : {1}, life : {"present", "absent"}, handles : {{}},
                    field : {[f \in Fields |-> "old"]}]
    /\ call \in [operation : Operations, wish : Wishes, retain : BOOLEAN, pc : {"open"},
                 planned : {0}, actions : {"none"}, todo : {{}}, applied : {{}},
                 outcome : {"none"}, accepted : {FALSE}]
    /\ call.operation = "set_startup" => call.wish = {"basic"}
    /\ call.retain => "recovery" \in call.wish /\ call.operation = "configure"
    /\ canceled = FALSE
    /\ past = [changed |-> {}, of |-> {}, outside |-> 0]

Go(pc) == call' = [call EXCEPT !.pc = pc]
Handle(handles) == service' = [service EXCEPT !.handles = handles]

-----------------------------------------------------------------------------
(* The report.                                                             *)

\* configuration_result.
Judged(errors, applied) ==
    IF ~errors THEN "applied" ELSE IF applied = {} THEN "failed" ELSE "partial"

Told(c, errors) ==
    [c EXCEPT !.pc = "done", !.outcome = Judged(errors, c.applied), !.accepted = c.applied # {}]

\* finish_operation: an error that is no report says that nothing was accepted.
Refused == [call EXCEPT !.pc = "done", !.outcome = IF canceled THEN "interrupted" ELSE "failed"]

-----------------------------------------------------------------------------
(* create_inner, configure_inner and set_startup_inner up to their steps.  *)

Early == call' = Refused /\ UNCHANGED <<canceled, past>>

\* The settings that are to be written, by native calls in the order above.
Steps(basic) == call.wish \ (IF basic THEN {} ELSE {"basic"})

\* CreateServiceW writes the basic fields; later failures leave the service there.
Create ==
    /\ call.pc = "open" /\ call.operation = "create"
    /\ \/ /\ ~canceled /\ service.life = "absent"
          /\ service' = [service EXCEPT !.id = @ + 1, !.life = "present", !.handles = {"write"},
                                        !.field = [f \in Fields |-> IF f = "basic" THEN "ours" ELSE "old"]]
          /\ call' = [call EXCEPT !.pc = "step", !.planned = service.id + 1,
                                  !.todo = Steps(FALSE), !.applied = {"create"}]
          /\ past' = [past EXCEPT !.changed = {"create"}, !.of = {service.id + 1}]
          /\ UNCHANGED canceled
       \/ Early /\ UNCHANGED service

\* The reader's handle; a field that is to be set and cannot be read ends the call.
OpenReader ==
    /\ call.pc = "open" /\ call.operation = "configure"
    /\ \/ ~canceled /\ service.life # "absent" /\ Handle({"read"}) /\ Go("snapshot")
          /\ UNCHANGED <<canceled, past>>
       \/ Early /\ UNCHANGED service

Snapshot ==
    /\ call.pc = "snapshot"
    /\ \/ /\ call' = [call EXCEPT !.pc = "plan", !.planned = service.id,
                                  !.actions = service.field["recovery"]]
          /\ UNCHANGED service
       \/ call' = Told(call, TRUE) /\ Handle({})
    /\ UNCHANGED <<canceled, past>>

\* The settings are refused against what was read, or the call is cancelled.
PlanIt ==
    /\ call.pc = "plan"
    /\ \/ ~canceled /\ Go("reopen") /\ UNCHANGED <<service, canceled, past>>
       \/ Early /\ Handle({})

\* Seeded fault: the reader's handle is closed before the name is opened again.
PlanItAndClose ==
    /\ call.pc = "plan"
    /\ \/ ~canceled /\ Go("reopen") /\ Handle({}) /\ UNCHANGED <<canceled, past>>
       \/ Early /\ Handle({})

Plan == PlanIt

\* The reader's handle stays open until the name is opened again to write.
Reopen ==
    /\ call.pc = "reopen"
    /\ \/ /\ service.life # "absent" /\ Handle({"write"})
          /\ call' = [call EXCEPT !.pc = "step", !.todo = Steps(TRUE)]
       \/ call' = Told(call, TRUE) /\ Handle({})
    /\ UNCHANGED <<canceled, past>>

\* One native call on one handle, and no errors after it: only the report may lack "actual".
SetStartup ==
    /\ call.pc = "open" /\ call.operation = "set_startup"
    /\ \/ ~canceled /\ service.life # "absent" /\ Handle({"write"}) /\ Go("set")
          /\ UNCHANGED <<canceled, past>>
       \/ Early /\ UNCHANGED service

SetStartType ==
    /\ call.pc = "set"
    /\ \/ /\ ~canceled /\ service.life = "present"
          /\ service' = [service EXCEPT !.field["basic"] = "ours", !.handles = {}]
          /\ past' = [past EXCEPT !.changed = {"basic"}, !.of = {service.id}]
          /\ call' = Told([call EXCEPT !.applied = {"basic"}], FALSE)
          /\ UNCHANGED canceled
       \/ Early /\ Handle({})

-----------------------------------------------------------------------------
(* execute_configuration.                                                  *)

\* What a step writes: a period alone brings back the actions that were read.
Written(f) == IF f = "recovery" /\ call.retain THEN call.actions ELSE "ours"

Apply ==
    /\ call.pc = "step" /\ ~canceled /\ service.life = "present"
    /\ \E f \in call.todo :
       /\ \A g \in call.todo : Place(f) <= Place(g)
       /\ service' = [service EXCEPT !.field[f] = Written(f)]
       /\ call' = [call EXCEPT !.todo = @ \ {f}, !.applied = @ \cup {f}]
       /\ past' = [past EXCEPT !.changed = @ \cup {f}, !.of = @ \cup {service.id}]
    /\ UNCHANGED canceled

\* A step fails, or the call is cancelled before a step or after the last.
Stop ==
    /\ call.pc = "step" /\ (call.todo # {} \/ canceled)
    /\ call' = Told(call, TRUE) /\ Handle({})
    /\ UNCHANGED <<canceled, past>>

Complete ==
    /\ call.pc = "step" /\ call.todo = {} /\ ~canceled
    /\ call' = Told(call, FALSE) /\ Handle({})
    /\ UNCHANGED <<canceled, past>>

-----------------------------------------------------------------------------
(* Other programs, and the caller who withdraws.                           *)

Outside(s) ==
    /\ call.pc # "done" /\ past.outside < MaxOutside
    /\ service' = s
    /\ past' = [past EXCEPT !.outside = @ + 1]
    /\ UNCHANGED <<call, canceled>>

OutsideConfigures ==
    /\ service.life = "present"
    /\ \E f \in Fields : Outside([service EXCEPT !.field[f] = "others"])

\* A deleted service keeps its name until the last handle is closed.
OutsideDeletes ==
    /\ service.life = "present"
    /\ Outside([service EXCEPT !.life = IF service.handles = {} THEN "absent" ELSE "marked"])

Vanish ==
    /\ service.life = "marked" /\ service.handles = {}
    /\ service' = [service EXCEPT !.life = "absent"]
    /\ UNCHANGED <<call, canceled, past>>

OutsideCreates ==
    /\ service.life = "absent"
    /\ Outside([service EXCEPT !.id = @ + 1, !.life = "present",
                               !.field = [f \in Fields |-> "others"]])

Cancel ==
    /\ call.pc # "done" /\ ~canceled /\ canceled' = TRUE
    /\ UNCHANGED <<service, call, past>>

Next ==
    \/ Create \/ OpenReader \/ Snapshot \/ Plan \/ Reopen \/ SetStartup \/ SetStartType
    \/ Apply \/ Stop \/ Complete
    \/ OutsideConfigures \/ OutsideDeletes \/ Vanish \/ OutsideCreates \/ Cancel

Spec == Init /\ [][Next]_vars

-----------------------------------------------------------------------------
(* Properties.                                                             *)

(* The report tells what became of the settings: "failed" and              *)
(* "interrupted" that nothing was changed, "partial" that something was,   *)
(* "applied" that all of it was; applied_steps are the steps that took     *)
(* effect, whichever call failed and whenever the caller withdrew.         *)
ChangesAreTold ==
    call.pc = "done" =>
        /\ call.applied = past.changed /\ call.accepted = (past.changed # {})
        /\ call.outcome \in {"failed", "interrupted"} <=> past.changed = {}
        /\ call.outcome = "applied" =>
              call.wish \ {"basic"} \subseteq past.changed

(* "Keep the read handle open until the mutation handle exists, pinning    *)
(* this service instance": what was planned from one service is never      *)
(* applied to another that got its name meanwhile.                         *)
OneInstance ==
    /\ call.operation = "configure" => past.of \subseteq {call.planned}
    /\ call.operation = "create" => past.of \subseteq {call.planned}

ConfigurationIsTrue == ChangesAreTold /\ OneInstance
=============================================================================
