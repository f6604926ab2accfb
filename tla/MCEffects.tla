----------------------------- MODULE MCEffects -----------------------------
(* Three parts with lasting effects outside the program: on a debugged process, on     *)
(* files, and on the managers of a resident host.  They share no state, so a behavior  *)
(* is one of a single part, chosen at the start.                                       *)
(* Engine: two threads that run over one address.  Files: two requests of any kind on  *)
(* two names, one change by others, one crash.  Host: two clients at a time, whose       *)
(* registrations meet the limits, with one item of three kinds at a time.  *)
EXTENDS FileTransaction

CONSTANTS t1, t2, a1, a, b, p, q,
          Threads, Main, Addresses, Elsewhere, Breaker, MaxTracked, MaxBreakpoints, MaxBreaks,
          MaxFaults,
          Connections, MaxConnections, MaxRegistered, MaxDiagnostics, Kinds, MaxItems

SomeKinds ==
    {<<"workflows", "persistent">>, <<"observation", "connection">>, <<"execution", "connection">>}

VARIABLES
    part,
    memory, thread, parked, queue, breaking, exited, failing, faults, engine, record, actor,
    shutdown, stray, missed, clean,
    host, task, handler, cleaner, registered, closed, canceled, running, stopping

debugging == <<memory, thread, parked, queue, breaking, exited, failing, faults, engine, record,
               actor, shutdown, stray, missed, clean>>
hosting == <<host, task, handler, cleaner, registered, closed, canceled, running, stopping>>
all == <<part, vars, debugging, hosting>>

Debugger == INSTANCE BreakpointEngine
Resident == INSTANCE HostLifecycle

ASSUME DebuggerAssumption == Debugger!EngineAssumption
ASSUME ResidentAssumption == Resident!HostAssumption

AllInit ==
    /\ part \in {"engine", "files", "host"}
    /\ Init /\ Debugger!Init /\ Resident!Init

AllNext ==
    \/ part = "engine" /\ Debugger!Move /\ UNCHANGED <<part, vars, hosting>>
    \/ part = "files" /\ UNCHANGED <<part, debugging, hosting>> /\ Next
    \/ part = "host" /\ UNCHANGED <<part, vars, debugging>> /\ Resident!Next

AllSpec == AllInit /\ [][AllNext]_all

(* The properties of BreakpointEngine and HostLifecycle, stated there. *)
EngineIsTrue == Debugger!TrapsAreTheDebuggers /\ Debugger!CleanMeansClean
NothingIsLeaked == Resident!NothingIsLeaked
=============================================================================
