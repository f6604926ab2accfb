------------------------ MODULE MCExecutionProgress ------------------------
(* Two parts that must come to an end, whatever is under way: the process manager and  *)
(* the resident host.  They share no state, so a behavior is one of a single part,     *)
(* chosen at the start.                                                                *)
(* Processes: one terminal with a deadline, of a connection.  Host: one client with    *)
(* two items at a time, of any kind.                                                   *)
EXTENDS Execution

CONSTANTS t, c, Clients, MaxConnections, MaxRegistered, MaxDiagnostics, Kinds, MaxItems, Host

OwnerOfAll == [s \in Starts |-> c]
AllKinds ==
    {"workflows", "observation", "diagnostics", "execution"} \X {"connection", "persistent"}

VARIABLES
    part,
    host, task, handler, cleaner, registered, gone, canceled, running, ending

hosting == <<host, task, handler, cleaner, registered, gone, canceled, running, ending>>
all == <<part, vars, hosting>>

TheHost == INSTANCE HostLifecycle WITH Connections <- Clients, closed <- gone, stopping <- ending

ASSUME TheHost!HostAssumption

AllInit == part \in {"processes", "host"} /\ Init /\ TheHost!Init

InProcesses == part = "processes" /\ UNCHANGED <<part, hosting>>
InHost == part = "host" /\ UNCHANGED <<part, vars>>

AllNext == (InProcesses /\ Next) \/ (InHost /\ TheHost!Next)

(* The fairness of each part; nothing of the first is enabled before a start is asked for. *)
AllSpec ==
    /\ AllInit /\ [][AllNext]_all /\ Fairness
    /\ WF_all(InHost /\ TheHost!HostStep)
    /\ \A d \in Clients : WF_all(InHost /\ TheHost!Polled(d))
    /\ \A o \in TheHost!Owners : WF_all(InHost /\ TheHost!CleanerStep(o))
    /\ \A i \in TheHost!Items : WF_all(InHost /\ TheHost!ActorEnds(i))

(* The property of HostLifecycle, stated there. *)
StopEnds == TheHost!StopEnds
============================================================================
