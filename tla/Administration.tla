---------------------------- MODULE Administration ----------------------------
(***************************************************************************)
(* Administration calls (administration.rs, win32/admin_common.rs) and the *)
(* storage operations they carry (win32/storage.rs).  Windows may hold a   *)
(* native call longer than its caller waits: the caller is answered at the *)
(* deadline and the closure goes on, with the permits that keep two        *)
(* mutations apart.  Other programs change the same mounts and images.     *)
(*                                                                         *)
(* A call is a mount to add or to remove, an image to attach or to detach, *)
(* a read, a job to launch, or a script for a PowerShell worker.  Paths,   *)
(* labels, formats and capacities are left out; the storage lock is, too:  *)
(* only calls with the mutation permit take it.                            *)
(***************************************************************************)
EXTENDS Naturals, FiniteSets

CONSTANTS
    Calls, Task,     \* a call's task: what it does, to which volume and mount
    Volumes, Mounts,
    Slots,           \* native_slots: 4
    MaxCalls,        \* bound on the calls that are made, of all those in Calls
    MaxImages,       \* bound on the files that have the image's path, one after the other
    MaxOutside,      \* bound on what other programs do
    Nobody

Does(c) == Task[c].does
AdminAssumption ==
    /\ \A c \in Calls :
          /\ Does(c) \in {"add", "remove", "attach", "detach", "read", "job", "script"}
          /\ Does(c) \in {"add", "remove"} => Task[c].volume \in Volumes /\ Task[c].mount \in Mounts
    /\ Nobody \notin Calls \cup Volumes
    /\ Slots \in Nat \ {0} /\ MaxCalls \in Nat /\ MaxImages \in Nat \ {0} /\ MaxOutside \in Nat

VARIABLES
    request,   \* what the caller waits for, and the AdminContext it shares with the closure
    worker,    \* the closure on its thread
    mutation,  \* whose the mutation permit is
    slots,     \* the closures that have a slot
    mount, image, job,   \* Windows: the volume of each mount, the image file, the jobs
    past       \* history: what changed, and what changed although nobody had checked it

vars == <<request, worker, mutation, slots, mount, image, job, past>>
world == <<mount, image, job>>

Mutating(c) == Does(c) # "read"
OnMount(c) == Does(c) \in {"add", "remove"}
OnImage(c) == Does(c) \in {"attach", "detach"}
Script(c) == Does(c) = "script"

Init ==
    /\ request = [c \in Calls |-> [pc |-> "start", canceled |-> FALSE, expired |-> FALSE,
                                   started |-> FALSE, report |-> "none", told |-> FALSE]]
    /\ worker = [c \in Calls |-> [pc |-> "off", pinned |-> FALSE, result |-> "none"]]
    /\ mutation = Nobody /\ slots = {}
    /\ mount \in [Mounts -> Volumes \cup {Nobody}]
    /\ image \in [id : {1}, attached : BOOLEAN]
    /\ job = [c \in Calls |-> "none"]
    /\ past = [changed |-> {}, wrong |-> {}, checked |-> {}, outside |-> 0]

\* AdminContext::check.
Late(c) == request[c].canceled \/ request[c].expired

Ask(c, pc) == request' = [request EXCEPT ![c].pc = pc]
Work(c, pc) == worker' = [worker EXCEPT ![c].pc = pc]

-----------------------------------------------------------------------------
(* native and provider: the caller's side.                                 *)

Enter(c) ==
    /\ request[c].pc = "start"
    /\ Cardinality({d \in Calls : request[d].pc # "start"}) < MaxCalls
    /\ Ask(c, IF Mutating(c) THEN "mutation" ELSE "slot")
    /\ UNCHANGED <<worker, mutation, slots, world, past>>

TakeMutation(c) ==
    /\ request[c].pc = "mutation" /\ mutation = Nobody
    /\ mutation' = c /\ Ask(c, "slot")
    /\ UNCHANGED <<worker, slots, world, past>>

TakeSlot(c) ==
    /\ request[c].pc = "slot" /\ Cardinality(slots) < Slots
    /\ slots' = slots \cup {c}
    /\ Ask(c, "working") /\ Work(c, "queued")
    /\ UNCHANGED <<mutation, world, past>>

Told(c, report) ==
    request' = [request EXCEPT ![c].pc = "done", ![c].report = report,
                               ![c].told = request[c].started]

\* The closure of a script only writes it; what runs it is the caller's future.
Answer(c) ==
    /\ request[c].pc = "working" /\ worker[c].pc = "ended"
    /\ IF Script(c) /\ worker[c].result = "ok" THEN Ask(c, "begin") ELSE Told(c, worker[c].result)
    /\ mutation' = IF Script(c) /\ worker[c].result # "ok" THEN Nobody ELSE mutation
    /\ UNCHANGED <<worker, slots, world, past>>

\* begin_mutation and the request to the pool: no await lies between them.
RunScript(c) ==
    /\ request[c].pc = "begin"
    /\ IF Late(c)
       THEN Told(c, "error") /\ mutation' = Nobody /\ UNCHANGED past
       ELSE /\ request' = [request EXCEPT ![c].pc = "script", ![c].started = TRUE]
            /\ past' = [past EXCEPT !.changed = @ \cup {c}] /\ UNCHANGED mutation
    /\ UNCHANGED <<worker, slots, world>>

ScriptAnswers(c) ==
    /\ request[c].pc = "script"
    /\ \E report \in {"ok", "error"} : Told(c, report)
    /\ mutation' = Nobody
    /\ UNCHANGED <<worker, slots, world, past>>

\* A future that is dropped frees the permits it holds; those of a closure stay with it.
InFuture(c) == request[c].pc = "slot" \/ Script(c)
FreedByFuture(c) == mutation = c /\ InFuture(c)

\* Seeded fault: the mutation permit is never given to the closure.
FreedAlways(c) == mutation = c

Freed(c) == FreedByFuture(c)

Abandon(c, pc) ==
    /\ request[c].pc \notin {"start", "giving_up", "done", "dropped"}
    /\ request' = [request EXCEPT ![c].pc = pc, ![c].canceled = TRUE]
    /\ mutation' = IF Freed(c) THEN Nobody ELSE mutation
    /\ UNCHANGED <<worker, slots, world, past>>

Expire(c) ==
    /\ request[c].pc \notin {"start", "done", "dropped"} /\ ~request[c].expired
    /\ request' = [request EXCEPT ![c].expired = TRUE]
    /\ UNCHANGED <<worker, mutation, slots, world, past>>

TimeOut(c) == request[c].expired /\ Abandon(c, "giving_up")
CallerCancels(c) == Abandon(c, "giving_up")
CallerLeaves(c) == Abandon(c, "dropped")

\* The context is cancelled first; then the report reads whether a mutation was begun.
GiveUp(c) ==
    /\ request[c].pc = "giving_up" /\ Told(c, "given_up")
    /\ UNCHANGED <<worker, mutation, slots, world, past>>

-----------------------------------------------------------------------------
(* The closure.  It is never dropped, and keeps its slot until it returns. *)

End(c, result) ==
    /\ worker' = [worker EXCEPT ![c].pc = "ended", ![c].result = result, ![c].pinned = FALSE]
    /\ slots' = slots \ {c}
    /\ mutation' = IF mutation = c /\ ~Script(c) THEN Nobody ELSE mutation

Goes(c, pc) == Work(c, pc) /\ UNCHANGED <<slots, mutation>>
Fails(c) == End(c, "error") /\ UNCHANGED <<request, world, past>>

WorkerStarts(c) ==
    /\ worker[c].pc = "queued"
    /\ IF Late(c) THEN End(c, "error")
       ELSE CASE Script(c) -> End(c, "ok")
              [] Does(c) = "read" -> Goes(c, "observe")
              [] Does(c) = "job" -> Goes(c, "begin")
              [] OnMount(c) -> Goes(c, "prepare")
              [] OnImage(c) -> Goes(c, "pin")
    /\ UNCHANGED <<request, world, past>>

\* Any query of the closure can fail, for Windows or because the call is late.
QueryFails(c) == worker[c].pc \in {"prepare", "recheck", "pin", "inspect", "observe"} /\ Fails(c)

\* check_mount_ownership: a mount is never overwritten, and only its own volume's is removed.
Owned(c) ==
    IF Does(c) = "add" THEN mount[Task[c].mount] = Nobody
    ELSE mount[Task[c].mount] = Task[c].volume

PrepareMount(c) ==
    /\ worker[c].pc = "prepare"
    /\ Owned(c) /\ ~Late(c)
    /\ Goes(c, "recheck")
    /\ UNCHANGED <<request, world, past>>

RecheckMount(c) ==
    /\ worker[c].pc = "recheck"
    /\ Owned(c) /\ ~Late(c)
    /\ Goes(c, "begin")
    /\ past' = [past EXCEPT !.checked = @ \cup {c}]
    /\ UNCHANGED <<request, world>>

\* The image's file is held open, so it is not replaced from here on; it must be the
\* file that the caller has inspected, the first of the path.
PinImage(c) ==
    /\ worker[c].pc = "pin" /\ image.id = 1 /\ ~Late(c)
    /\ worker' = [worker EXCEPT ![c].pc = "inspect", ![c].pinned = TRUE]
    /\ UNCHANGED <<request, slots, mutation, world, past>>

\* A state that Windows does not tell forbids nothing.
InspectImage(c) ==
    /\ worker[c].pc = "inspect" /\ ~Late(c)
    /\ \E known \in BOOLEAN : known => image.attached = (Does(c) = "detach")
    /\ Goes(c, "begin")
    /\ UNCHANGED <<request, world, past>>

\* begin_mutation: the check and the flag are two steps.
Begin(c) ==
    /\ worker[c].pc = "begin"
    /\ IF Late(c) THEN End(c, "error") ELSE Goes(c, "flag")
    /\ UNCHANGED <<request, world, past>>

RaiseFlag(c) ==
    /\ worker[c].pc = "flag"
    /\ request' = [request EXCEPT ![c].started = TRUE]
    /\ Goes(c, "native")
    /\ UNCHANGED <<world, past>>

Changed(c, unchecked) ==
    past' = [past EXCEPT !.changed = @ \cup {c}, !.wrong = IF unchecked THEN @ \cup {c} ELSE @,
                         !.checked = @ \ {c}]

\* Windows refuses to assign a mount twice, to remove one that is not assigned, and to
\* attach or detach twice; it compares no volume.
NativeMount(c) ==
    LET m == Task[c].mount IN
    /\ (Does(c) = "add") = (mount[m] = Nobody)
    /\ mount' = [mount EXCEPT ![m] = IF Does(c) = "add" THEN Task[c].volume ELSE Nobody]
    /\ Changed(c, c \in past.checked /\ ~Owned(c))
    /\ UNCHANGED <<image, job>>

NativeImage(c) ==
    /\ image.attached = (Does(c) = "detach")
    /\ image' = [image EXCEPT !.attached = ~@]
    /\ Changed(c, image.id # 1)
    /\ UNCHANGED <<mount, job>>

NativeJob(c) ==
    /\ job' = [job EXCEPT ![c] = "running"]
    /\ Changed(c, FALSE)
    /\ UNCHANGED <<mount, image>>

NativeCall(c) ==
    /\ worker[c].pc = "native"
    /\ CASE OnMount(c) -> NativeMount(c)
         [] OnImage(c) -> NativeImage(c)
         [] OTHER -> NativeJob(c)
    /\ Goes(c, IF Does(c) = "job" THEN "launched" ELSE "observe")
    /\ UNCHANGED request

\* An error, or a code that says that the change is pending.
NativeFails(c) ==
    /\ worker[c].pc = "native"
    /\ \/ End(c, "error")
       \/ OnImage(c) /\ Goes(c, "observe")
    /\ UNCHANGED <<request, world, past>>

\* What is reported is what is observed: the change need not be there.
Observe(c) ==
    /\ worker[c].pc = "observe" /\ ~Late(c)
    /\ End(c, "ok")
    /\ UNCHANGED <<request, world, past>>

\* launch_job: a job that was launched too late is cancelled.
JobLaunched(c) ==
    /\ worker[c].pc = "launched"
    /\ IF ~Late(c) THEN End(c, "ok") /\ UNCHANGED job
       ELSE \/ End(c, "error") /\ job' = [job EXCEPT ![c] = "canceled"]
            \/ End(c, "uncanceled") /\ UNCHANGED job
    /\ UNCHANGED <<request, mount, image, past>>

-----------------------------------------------------------------------------
(* Other programs.                                                         *)

Outside ==
    /\ past.outside < MaxOutside
    /\ \/ \E m \in Mounts, v \in Volumes \cup {Nobody} :
             /\ mount[m] # v /\ (mount[m] = Nobody \/ v = Nobody)
             /\ mount' = [mount EXCEPT ![m] = v]
             /\ past' = [past EXCEPT !.outside = @ + 1,
                                     !.checked = {c \in @ : Task[c].mount # m}]
             /\ UNCHANGED image
       \/ /\ image' = [image EXCEPT !.attached = ~@]
          /\ past' = [past EXCEPT !.outside = @ + 1] /\ UNCHANGED mount
       \/ /\ image.id < MaxImages /\ ~image.attached /\ \A c \in Calls : ~worker[c].pinned
          /\ image' = [image EXCEPT !.id = @ + 1]
          /\ past' = [past EXCEPT !.outside = @ + 1] /\ UNCHANGED mount
    /\ UNCHANGED <<request, worker, mutation, slots, job>>

Asking(c) ==
    \/ Enter(c) \/ TakeMutation(c) \/ TakeSlot(c) \/ Answer(c) \/ RunScript(c)
    \/ ScriptAnswers(c) \/ Expire(c) \/ TimeOut(c) \/ CallerCancels(c) \/ CallerLeaves(c)
    \/ GiveUp(c)

Working(c) ==
    \/ WorkerStarts(c) \/ QueryFails(c) \/ PrepareMount(c) \/ RecheckMount(c) \/ PinImage(c)
    \/ InspectImage(c) \/ Begin(c) \/ RaiseFlag(c) \/ NativeCall(c) \/ NativeFails(c)
    \/ Observe(c) \/ JobLaunched(c)

Next == Outside \/ \E c \in Calls : Asking(c) \/ Working(c)

Spec == Init /\ [][Next]_vars

-----------------------------------------------------------------------------
(* Properties.                                                             *)

Inside(c) == worker[c].pc \notin {"off", "queued", "ended"}

(* No two closures that mutate are inside at the same time, those of       *)
(* callers that were answered long ago included: no call of the program    *)
(* comes between the check of a mount and its removal, and only another    *)
(* program can make a removal hit the mount of another volume.  And an     *)
(* image operation acts on the file that was inspected.                    *)
ChangesAreChecked ==
    /\ \A c, d \in Calls :
          c # d /\ Inside(c) /\ Inside(d) /\ Mutating(c) /\ Mutating(d) => Script(c) \/ Script(d)
    /\ past.wrong = {}

(* A closure's own report, and every report of a script, that says that no *)
(* mutation was begun is true for ever after; a job that was launched for  *)
(* a call that had ended is cancelled, or the report says it is not.       *)
FailuresAreHonest ==
    \A c \in Calls :
        /\ request[c].pc = "done" /\ ~request[c].told
           /\ (Script(c) \/ request[c].report # "given_up") => c \notin past.changed
        /\ worker[c].result = "error" => job[c] # "running"

AdministrationIsSound == ChangesAreChecked /\ FailuresAreHonest

(* "mutation_may_have_completed": false is true for ever after, for every  *)
(* report.                                                                 *)
NothingHappensUntold ==
    \A c \in Calls :
        request[c].pc = "done" /\ ~request[c].told => c \notin past.changed
=============================================================================
