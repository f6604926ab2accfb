---------------------------- MODULE MCProviders ----------------------------
(* Six parts: providers that change Windows in several steps, while other programs do  *)
(* the same, and the pool that runs their scripts.  They share no state, so a behavior  *)
(* is one of a single part, chosen at the start.                                        *)
(* Traces: two watches, of two processes, and a third process that only recovers.      *)
(* Control, configuration: one call on a service.  Storage: two administration calls   *)
(* of any kind on one mount and one image.  Security: one edit of a tree of two levels,  *)
(* with one directory outside of it.                                                      *)
(* Pool: three requests for two workers; the command of one leaves a process behind.      *)
EXTENDS TraceRecovery, Naturals

CONSTANTS
    t1, t2, p1, p2, p3,
    Deadline, Hints, DefaultHint, MaxCheckpoint, MaxInstances,
    Wishes, MaxChanges,
    remove, add, detach, script, launch, look, v1, v2, m1,
    Calls, Task, Volumes, Mounts, Slots, MaxCalls, MaxImages, Nobody,
    d1, d2, d3, f1, f2, l1, n1,
    Directories, Files, Links, Names, Entries, TheRoot, DepthLimit, TargetLimit, MaxSwaps, MaxRootSwaps,
    Nothing, MaxOutside,
    r1, r2, r3, Requests, Leaky, Size, NoWorker,
    Idle

Owners == [x \in Traces |-> IF x = t1 THEN p1 ELSE p2]

Tasks ==
    [x \in Calls |->
        [does |-> CASE x = remove -> "remove" [] x = add -> "add" [] x = detach -> "detach"
                    [] x = script -> "script" [] x = launch -> "job" [] OTHER -> "read",
         volume |-> IF x = add THEN v2 ELSE v1, mount |-> m1]]

\* d1 holds d2, with the file f1, and the file f2; d3 lies outside and holds a link.
Tree ==
    [x \in Directories |-> [y \in Names |->
        CASE x = d1 /\ y = n1 -> d2 [] x = d1 /\ y = m1 -> f2 [] x = d2 /\ y = n1 -> f1
          [] x = d3 /\ y = n1 -> l1 [] OTHER -> Nothing]]

SomeWishes == {{"basic"}, {"description", "recovery"}, {"basic", "recovery", "sid_type"}}

VARIABLES
    part,
    s_service, s_call, clock, s_past,
    c_service, c_call, canceled, c_past,
    request, worker, mutation, slots, mount, image, job, a_past,
    root, entry, pins, edit, e_past,
    phase, p_slot, returned, permits, idle, p_worker

controlling == <<s_service, s_call, clock, s_past>>
configuring == <<c_service, c_call, canceled, c_past>>
administering == <<request, worker, mutation, slots, mount, image, job, a_past>>
editing == <<root, entry, pins, edit, e_past>>
pooling == <<phase, p_slot, returned, permits, idle, p_worker>>
all == <<part, vars, controlling, configuring, administering, editing, pooling>>

Control == INSTANCE ServiceControl WITH service <- s_service, call <- s_call, past <- s_past
Configuration ==
    INSTANCE ServiceConfiguration
        WITH service <- c_service, call <- c_call, past <- c_past, MaxOutside <- MaxChanges
Storage == INSTANCE Administration WITH past <- a_past
Security == INSTANCE SecurityEdit WITH past <- e_past
Pool ==
    INSTANCE PowerShellPool WITH result <- returned, slot <- p_slot, worker <- p_worker

ASSUME ControlAssumption == Control!ControlAssumption
ASSUME ConfigurationAssumption == Configuration!ConfigurationAssumption
ASSUME StorageAssumption == Storage!AdminAssumption
ASSUME SecurityAssumption == Security!EditAssumption
ASSUME PoolAssumption == Pool!PoolAssumption

(* The variables of the parts that are not chosen have no value. *)
AllInit ==
    /\ part \in {"traces", "control", "configuration", "storage", "security", "pool"}
    /\ Init /\ (part = "traces" \/ \A x \in Traces : session[x] = "off")
    /\ IF part = "control" THEN Control!Init
       ELSE s_service = Idle /\ s_call = Idle /\ clock = Idle /\ s_past = Idle
    /\ IF part = "configuration" THEN Configuration!Init
       ELSE c_service = Idle /\ c_call = Idle /\ canceled = Idle /\ c_past = Idle
    /\ IF part = "storage" THEN Storage!Init
       ELSE /\ request = Idle /\ worker = Idle /\ mutation = Idle /\ slots = Idle
            /\ mount = Idle /\ image = Idle /\ job = Idle /\ a_past = Idle
    /\ IF part = "security" THEN Security!Init
       ELSE root = Idle /\ entry = Idle /\ pins = Idle /\ edit = Idle /\ e_past = Idle
    /\ IF part = "pool" THEN Pool!Init
       ELSE /\ phase = Idle /\ p_slot = Idle /\ returned = Idle
            /\ permits = Idle /\ idle = Idle /\ p_worker = Idle

AllNext ==
    \/ /\ part = "traces" /\ Next
       /\ UNCHANGED <<part, controlling, configuring, administering, editing, pooling>>
    \/ /\ part = "control" /\ Control!Next
       /\ UNCHANGED <<part, vars, configuring, administering, editing, pooling>>
    \/ /\ part = "configuration" /\ Configuration!Next
       /\ UNCHANGED <<part, vars, controlling, administering, editing, pooling>>
    \/ /\ part = "storage" /\ Storage!Next
       /\ UNCHANGED <<part, vars, controlling, configuring, editing, pooling>>
    \/ /\ part = "security" /\ Security!Next
       /\ UNCHANGED <<part, vars, controlling, configuring, administering, pooling>>
    \/ /\ part = "pool" /\ Pool!Next
       /\ UNCHANGED <<part, vars, controlling, configuring, administering, editing>>

AllSpec == AllInit /\ [][AllNext]_all

(* The properties of ServiceControl, ServiceConfiguration, Administration, SecurityEdit *)
(* and PowerShellPool, stated there.                                                     *)
ServicesAreTrue ==
    /\ part = "control" => Control!ControlIsTrue
    /\ part = "configuration" => Configuration!ConfigurationIsTrue
AdministrationIsSound == part = "storage" => Storage!AdministrationIsSound
EditIsSound == part = "security" => Security!EditIsSound
NothingHappensUntold == part = "storage" => Storage!NothingHappensUntold
LeasesAreSound == part = "pool" => Pool!LeasesAreSound
=============================================================================
