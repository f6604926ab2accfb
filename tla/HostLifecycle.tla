---------------------------- MODULE HostLifecycle ----------------------------
(***************************************************************************)
(* The resident host (host.rs) and the connections it serves               *)
(* (for_connection, shutdown_connection and shutdown of server.rs).  Each  *)
(* connection is a task; the requests of a connection run in tasks of their own, which     *)
(* outlive its transport, and start work in four managers.  Closing a      *)
(* connection goes through the managers one after the other, two of them   *)
(* at once and two behind an await; stopping the host goes through them    *)
(* again after the connections have drained or 15 seconds have passed.     *)
(*                                                                         *)
(* What a manager runs is an item <<manager, connection, lifetime>>: the   *)
(* other modules say how each manager runs and stops it.  A persistent     *)
(* workflow has a connection of its own, its scope.                        *)
(***************************************************************************)
EXTENDS Naturals, FiniteSets

CONSTANTS
    Connections,
    MaxConnections,    \* of the host, 16
    MaxRegistered,     \* of the process manager, 64
    MaxDiagnostics,    \* of the diagnostics manager, 128
    Kinds,             \* the managers and lifetimes that are requested
    MaxItems           \* bound on the items at a time

Managers == {"workflows", "observation", "diagnostics", "execution"}
Lifetimes == {"connection", "persistent"}
Items == Managers \X Connections \X Lifetimes

(* The connections that managers know: the clients' and the scopes of      *)
(* persistent workflows.                                                   *)
Client(c) == <<c, "client">>
Scope(c) == <<c, "scope">>
Owners == Connections \X {"client", "scope"}

HostAssumption ==
    /\ IsFiniteSet(Connections)
    /\ MaxConnections \in Nat /\ MaxRegistered \in Nat /\ MaxDiagnostics \in Nat /\ MaxItems \in Nat
    /\ MaxRegistered < MaxDiagnostics
    /\ Kinds \subseteq Managers \X Lifetimes

VARIABLES
    host,       \* where LocalHost::run is
    task,       \* where serve_connection is, for each connection
    handler,    \* the request each connection is working on
    cleaner,    \* where shutdown_connection is, for each owner
    registered, \* registered[m]: the connections two of the managers know
    closed,     \* the managers that were shut down for good
    canceled,   \* the owners whose connection token is canceled
    running,    \* the items that were not told to stop
    stopping    \* the items that were

vars == <<host, task, handler, cleaner, registered, closed, canceled, running, stopping>>

NoRequest == [manager |-> "none", lifetime |-> "connection", step |-> "none"]

Init ==
    /\ host = "accepting"
    /\ task = [c \in Connections |-> "none"]
    /\ handler = [c \in Connections |-> NoRequest]
    /\ cleaner = [o \in Owners |-> "none"]
    /\ registered = [m \in {"execution", "diagnostics"} |-> {}]
    /\ closed = {}
    /\ canceled = {}
    /\ running = {}
    /\ stopping = {}

work == <<running, stopping>>
Stopped == host # "accepting"
Limit(m) == IF m = "execution" THEN MaxRegistered ELSE MaxDiagnostics
Admits(m) == m \notin closed /\ Cardinality(registered[m]) < Limit(m)
Known(m, o) == registered' = [registered EXCEPT ![m] = @ \cup {o}]
Tell(items) == running' = running \ items /\ stopping' = stopping \cup (running \cap items)
Go(c, where) == task' = [task EXCEPT ![c] = where]
Turn(c, step) == handler' = [handler EXCEPT ![c].step = step]
Clean(o, step) == cleaner' = [cleaner EXCEPT ![o] = step]

(* The token of an item's connection; a workflow watches it.               *)
OwnerOf(i) == IF i[1] = "workflows" /\ i[3] = "persistent" THEN Scope(i[2]) ELSE Client(i[2])
Told(i) == i \in stopping \/ (i[1] = "workflows" /\ OwnerOf(i) \in canceled)

-----------------------------------------------------------------------------
(* A connection.                                                           *)

Serving == {c \in Connections : task[c] \notin {"none", "ended", "aborted"}}

Accept(c) ==
    /\ host = "accepting" /\ task[c] = "none"
    /\ Cardinality(Serving) < MaxConnections
    /\ Go(c, "handshaking")
    /\ UNCHANGED <<host, handler, cleaner, registered, closed, canceled, work>>

(* Authentication, which times out or gives way to the stop.               *)
Handshake(c) ==
    /\ task[c] = "handshaking"
    /\ \E next \in {"registering", "ended"} : Go(c, next)
    /\ UNCHANGED <<host, handler, cleaner, registered, closed, canceled, work>>

(* for_connection registers with one manager and then with the other; if   *)
(* the second refuses, nothing takes the first registration back.          *)
\* Seeded fault: in the other order.
OrderReversed == <<"diagnostics", "execution">>
Order == <<"execution", "diagnostics">>
First == Order[1]
Second == Order[2]

RegisterFirst(c) ==
    /\ task[c] = "registering"
    /\ IF Admits(First)
         THEN Known(First, Client(c)) /\ Go(c, "registered")
         ELSE Go(c, "ended") /\ UNCHANGED registered
    /\ UNCHANGED <<host, handler, cleaner, closed, canceled, work>>

RegisterSecond(c) ==
    /\ task[c] = "registered"
    /\ IF Admits(Second)
         THEN Known(Second, Client(c)) /\ Go(c, "initializing")
         ELSE Go(c, "ended") /\ UNCHANGED registered
    /\ UNCHANGED <<host, handler, cleaner, closed, canceled, work>>

Initialize(c) ==
    /\ task[c] = "initializing"
    /\ \/ Go(c, "serving") /\ UNCHANGED cleaner
       \/ Go(c, "closing") /\ Clean(Client(c), "cancel")
    /\ UNCHANGED <<host, handler, registered, closed, canceled, work>>

(* The transport ends and its observer cancels the token.                  *)
TransportEnds(c) ==
    /\ task[c] \in {"initializing", "serving", "disconnecting", "leaving", "closing"}
    /\ Client(c) \notin canceled
    /\ canceled' = canceled \cup {Client(c)}
    /\ UNCHANGED <<host, task, handler, cleaner, registered, closed, work>>

(* The stop or the canceled token is seen: the connection is cleaned up,   *)
(* the service is given ten seconds, and it is cleaned up again.           *)
Disconnect(c) ==
    /\ task[c] = "serving"
    /\ Stopped \/ Client(c) \in canceled
    /\ Go(c, "disconnecting") /\ Clean(Client(c), "cancel")
    /\ UNCHANGED <<host, handler, registered, closed, canceled, work>>

Disconnected(c) ==
    /\ task[c] = "disconnecting" /\ cleaner[Client(c)] = "done"
    /\ Go(c, "leaving")
    /\ UNCHANGED <<host, handler, cleaner, registered, closed, canceled, work>>

(* The service stopped, in time or not, or it ended by itself.             *)
ServiceEnds(c) ==
    /\ task[c] \in {"serving", "leaving"}
    /\ Go(c, "closing") /\ Clean(Client(c), "cancel")
    /\ UNCHANGED <<host, handler, registered, closed, canceled, work>>

Closed(c) ==
    /\ task[c] = "closing" /\ cleaner[Client(c)] = "done"
    /\ Go(c, "ended")
    /\ UNCHANGED <<host, handler, cleaner, registered, closed, canceled, work>>

-----------------------------------------------------------------------------
(* shutdown_connection, run by the task of a connection, or by a           *)
(* persistent workflow for its scope.                                      *)

Of(m, o) == {i \in Items : i[1] = m /\ o = Client(i[2]) /\ i[3] = "connection"}

CancelToken(o) ==
    /\ cleaner[o] = "cancel"
    /\ canceled' = canceled \cup {o}
    /\ Clean(o, "workflows")
    /\ UNCHANGED <<host, task, handler, registered, closed, work>>

CleanWorkflows(o) ==
    /\ cleaner[o] = "workflows"
    /\ Tell(Of("workflows", o))
    /\ Clean(o, "observation")
    /\ UNCHANGED <<host, task, handler, registered, closed, canceled>>

CleanObservation(o) ==
    /\ cleaner[o] = "observation"
    /\ Tell(Of("observation", o))
    /\ Clean(o, "leave")
    /\ UNCHANGED <<host, task, handler, registered, closed, canceled>>

(* Leave the diagnostics manager, then wait for its actors to end.         *)
LeaveDiagnostics(o) ==
    /\ cleaner[o] = "leave"
    /\ registered' = [registered EXCEPT !["diagnostics"] = @ \ {o}]
    /\ Tell(Of("diagnostics", o))
    /\ Clean(o, "join")
    /\ UNCHANGED <<host, task, handler, closed, canceled>>

JoinDiagnostics(o) ==
    /\ cleaner[o] = "join"
    /\ Of("diagnostics", o) \cap (running \cup stopping) = {}
    /\ Clean(o, "execution")
    /\ UNCHANGED <<host, task, handler, registered, closed, canceled, work>>

LeaveExecution(o) ==
    /\ cleaner[o] = "execution"
    /\ registered' = [registered EXCEPT !["execution"] = @ \ {o}]
    /\ Tell(Of("execution", o))
    /\ Clean(o, "done")
    /\ UNCHANGED <<host, task, handler, closed, canceled>>

CleanerStep(o) ==
    \/ CancelToken(o) \/ CleanWorkflows(o) \/ CleanObservation(o)
    \/ LeaveDiagnostics(o) \/ JoinDiagnostics(o) \/ LeaveExecution(o)

-----------------------------------------------------------------------------
(* Requests.                                                               *)

(* A request arrives.  It is answered by a task of its own, which nobody   *)
(* ends with the connection.                                               *)
Request(c, m, l) ==
    /\ <<m, l>> \in Kinds
    /\ task[c] = "serving" /\ handler[c] = NoRequest
    /\ l = "persistent" /\ m = "workflows" => cleaner[Scope(c)] = "none"
    /\ <<m, c, l>> \notin running \cup stopping
    /\ Cardinality(running \cup stopping) < MaxItems
    /\ handler' = [handler EXCEPT ![c] =
         [manager |-> m, lifetime |-> l,
          step |-> IF m = "workflows" /\ l = "persistent" THEN "scope" ELSE "admit"]]
    /\ UNCHANGED <<host, task, cleaner, registered, closed, canceled, work>>

(* workflow_start opens a scope for a persistent workflow: for_connection  *)
(* again.                                                                  *)
OpenScope(c) ==
    /\ handler[c].step = "scope"
    /\ IF Admits(First)
         THEN Known(First, Scope(c)) /\ Turn(c, "second")
         ELSE handler' = [handler EXCEPT ![c] = NoRequest] /\ UNCHANGED registered
    /\ UNCHANGED <<host, task, cleaner, closed, canceled, work>>

OpenScopeSecond(c) ==
    /\ handler[c].step = "second"
    /\ IF Admits(Second)
         THEN Known(Second, Scope(c)) /\ Turn(c, "admit")
         ELSE handler' = [handler EXCEPT ![c] = NoRequest] /\ UNCHANGED registered
    /\ UNCHANGED <<host, task, cleaner, closed, canceled, work>>

(* Each manager decides under its own lock.  Two look their connection up, *)
(* the others look at its token, and only when the item ends with it.      *)
Admitted(i) ==
    CASE i[1] \in {"execution", "diagnostics"} ->
             i[1] \notin closed /\ Client(i[2]) \in registered[i[1]]
      [] i[1] = "observation" -> i[3] = "persistent" \/ Client(i[2]) \notin canceled
      [] OTHER -> OwnerOf(i) \notin canceled

Admit(c) ==
    LET i == <<handler[c].manager, c, handler[c].lifetime>> IN
    /\ handler[c].step = "admit"
    /\ IF Admitted(i)
         THEN running' = running \cup {i} /\ UNCHANGED cleaner
         ELSE /\ UNCHANGED running
              /\ IF OwnerOf(i) = Scope(c) THEN Clean(Scope(c), "cancel") ELSE UNCHANGED cleaner
    /\ handler' = [handler EXCEPT ![c] = NoRequest]
    /\ UNCHANGED <<host, task, registered, closed, canceled, stopping>>

(* An item ends; a persistent workflow then closes its scope.              *)
Ends(i) ==
    /\ i \in running \cup stopping
    /\ running' = running \ {i} /\ stopping' = stopping \ {i}
    /\ IF OwnerOf(i) = Scope(i[2]) THEN Clean(Scope(i[2]), "cancel") ELSE UNCHANGED cleaner
    /\ UNCHANGED <<host, task, handler, registered, closed, canceled>>

-----------------------------------------------------------------------------
(* The host.                                                               *)

Stop ==
    /\ host = "accepting"
    /\ host' = "draining"
    /\ UNCHANGED <<task, handler, cleaner, registered, closed, canceled, work>>

Drained ==
    /\ host = "draining"
    /\ Serving = {}
    /\ host' = "workflows"
    /\ UNCHANGED <<task, handler, cleaner, registered, closed, canceled, work>>

(* After 15 seconds the tasks are aborted at the await they are in.  By    *)
(* then each has noticed the stop and is past the first steps of its       *)
(* cleanup, which it takes without waiting for anything.                   *)
Waiting(c) ==
    \/ task[c] = "leaving"
    \/ task[c] \in {"disconnecting", "closing"} /\ cleaner[Client(c)] \in {"join", "execution"}

DrainTimesOut ==
    /\ host = "draining"
    /\ Serving # {} /\ \A c \in Serving : Waiting(c)
    /\ task' = [c \in Connections |-> IF c \in Serving THEN "aborted" ELSE task[c]]
    /\ cleaner' = [o \in Owners |->
         IF o[2] = "client" /\ o[1] \in Serving /\ cleaner[o] = "join" THEN "none" ELSE cleaner[o]]
    /\ host' = "workflows"
    /\ UNCHANGED <<handler, registered, closed, canceled, work>>

All(m) == {i \in Items : i[1] = m}

(* WorkflowState::shutdown and ObservationState::shutdown tell everything  *)
(* to stop, wait five seconds at most, and refuse nothing afterwards.      *)
ShutdownWorkflows ==
    /\ host = "workflows"
    /\ Tell(All("workflows"))
    /\ host' = "observation"
    /\ UNCHANGED <<task, handler, cleaner, registered, closed, canceled>>

ShutdownObservation ==
    /\ host = "observation"
    /\ Tell(All("observation"))
    /\ host' = "diagnostics"
    /\ UNCHANGED <<task, handler, cleaner, registered, closed, canceled>>

\* Seeded fault: the actors are not told.
CloseDiagnostics ==
    /\ host = "diagnostics"
    /\ closed' = closed \cup {"diagnostics"}
    /\ registered' = [registered EXCEPT !["diagnostics"] = {}]
    /\ host' = "joining"
    /\ UNCHANGED <<task, handler, cleaner, canceled, work>>

ShutdownDiagnostics ==
    /\ host = "diagnostics"
    /\ closed' = closed \cup {"diagnostics"}
    /\ registered' = [registered EXCEPT !["diagnostics"] = {}]
    /\ Tell(All("diagnostics"))
    /\ host' = "joining"
    /\ UNCHANGED <<task, handler, cleaner, canceled>>

Joined ==
    /\ host = "joining"
    /\ All("diagnostics") \cap (running \cup stopping) = {}
    /\ host' = "execution"
    /\ UNCHANGED <<task, handler, cleaner, registered, closed, canceled, work>>

\* Seeded fault: the tokens of the connections are dropped uncanceled.
ForgetConnections ==
    /\ host = "execution"
    /\ closed' = closed \cup {"execution"}
    /\ registered' = [registered EXCEPT !["execution"] = {}]
    /\ Tell(All("execution"))
    /\ host' = "ended"
    /\ UNCHANGED <<task, handler, cleaner, canceled>>

ShutdownExecution ==
    /\ host = "execution"
    /\ closed' = closed \cup {"execution"}
    /\ canceled' = canceled \cup registered["execution"]
    /\ registered' = [registered EXCEPT !["execution"] = {}]
    /\ Tell(All("execution"))
    /\ host' = "ended"
    /\ UNCHANGED <<task, handler, cleaner>>

HostStep ==
    \/ Drained \/ DrainTimesOut \/ ShutdownWorkflows \/ ShutdownObservation
    \/ ShutdownDiagnostics \/ Joined \/ ShutdownExecution

TaskStep(c) ==
    \/ Handshake(c) \/ RegisterFirst(c) \/ RegisterSecond(c) \/ Initialize(c)
    \/ Disconnect(c) \/ Disconnected(c) \/ ServiceEnds(c) \/ Closed(c)

Next ==
    \/ \E c \in Connections : Accept(c) \/ TaskStep(c) \/ TransportEnds(c)
    \/ \E o \in Owners : CleanerStep(o)
    \/ \E c \in Connections, m \in Managers, l \in Lifetimes : Request(c, m, l)
    \/ \E c \in Connections : OpenScope(c) \/ OpenScopeSecond(c) \/ Admit(c)
    \/ \E i \in Items : Ends(i)
    \/ Stop \/ HostStep

Spec == Init /\ [][Next]_vars

(* The runtime polls every task that can go on: handshake, initialization  *)
(* and the end of the service have timeouts, a client that stays connected *)
(* has none.  A debugger actor that was told to stop ends (DebugSessions). *)
Polled(c) == (task[c] # "serving" /\ TaskStep(c)) \/ Disconnect(c)
ActorEnds(i) == i[1] = "diagnostics" /\ i \in stopping /\ Ends(i)

Fairness ==
    /\ WF_vars(HostStep)
    /\ \A c \in Connections : WF_vars(Polled(c))
    /\ \A o \in Owners : WF_vars(CleanerStep(o))
    /\ \A i \in Items : WF_vars(ActorEnds(i))

FairSpec == Spec /\ Fairness
-----------------------------------------------------------------------------
(* Properties.                                                             *)

(* Every part is at one of its steps, and an item is told to stop or not.  *)
TypeOK ==
    /\ host \in {"accepting", "draining", "workflows", "observation", "diagnostics",
                 "joining", "execution", "ended"}
    /\ task \in [Connections -> {"none", "handshaking", "registering", "registered", "initializing",
                    "serving", "disconnecting", "leaving", "closing", "ended", "aborted"}]
    /\ cleaner \in [Owners -> {"none", "cancel", "workflows", "observation", "leave", "join",
                               "execution", "done"}]
    /\ registered \in [{"execution", "diagnostics"} -> SUBSET Owners]
    /\ closed \subseteq {"execution", "diagnostics"} /\ canceled \subseteq Owners
    /\ running \subseteq Items /\ stopping \subseteq Items /\ running \cap stopping = {}

(* Nobody stays registered whom nobody will take out again: a registration *)
(* belongs to a connection that is being served, to a scope that is being  *)
(* opened, used or closed, or to a host that is past its connections.      *)
InUse(o) ==
    IF o[2] = "client"
      THEN task[o[1]] \notin {"none", "ended"}
      ELSE \/ handler[o[1]].step \in {"second", "admit"}
           \/ <<"workflows", o[1], "persistent">> \in running \cup stopping
           \/ cleaner[o] \notin {"none", "done"}

NoRegistrationLeaks ==
    host \in {"accepting", "draining"} =>
        \A m \in {"execution", "diagnostics"} : \A o \in registered[m] : InUse(o)

(* When the task of a connection has ended, nothing that was to end with   *)
(* the connection goes on untold in any of the four managers, although a   *)
(* request of it may still have been starting something all the while; and *)
(* when the host has ended, nothing at all does, except a persistent watch *)
(* or wait, which observation admits even then.                            *)
EndedHoldsNothing ==
    \A i \in running :
        \/ Told(i)
        \/ /\ task[i[2]] # "ended" \/ i[3] = "persistent"
           /\ host # "ended" \/ (i[1] = "observation" /\ i[3] = "persistent")

(* Neither a registration nor anything that was started stays behind.      *)
NothingIsLeaked == NoRegistrationLeaks /\ EndedHoldsNothing

(* A host that was asked to stop does stop.                                *)
StopEnds == (host = "draining") ~> (host = "ended")
=============================================================================
