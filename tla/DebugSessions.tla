---------------------------- MODULE DebugSessions ----------------------------
(***************************************************************************)
(* The debugger sessions of one manager (diagnostics/debugger.rs).  A      *)
(* request to attach or launch is admitted under the registry's lock and   *)
(* starts a thread, the actor, that makes the native calls; meanwhile the  *)
(* request may be dropped or time out, its connection may close and the    *)
(* host may shut down.  What the actor does with its target's threads and  *)
(* breakpoints is the module BreakpointEngine.                             *)
(***************************************************************************)
EXTENDS Naturals, FiniteSets

CONSTANTS Sessions,     \* the requests to start, and the sessions they start
          Connections,
          Owner,        \* the connection of each request
          Persistent,   \* the sessions that outlive their connection
          MaxActive,    \* MAX_ACTIVE
          MaxRetained,  \* MAX_RETAINED
          Host          \* the caller of shutdown

ASSUME SessionsAssumption ==
    /\ IsFiniteSet(Sessions)
    /\ Owner \in [Sessions -> Connections]
    /\ Persistent \subseteq Sessions
    /\ MaxActive \in Nat /\ MaxRetained \in Nat /\ MaxActive < MaxRetained
    /\ Host \notin Connections

VARIABLES
    connections,   \* Registry
    sessions,
    shutting_down,
    request,       \* where each call of start is
    ready,         \* the oneshot to it
    actor,         \* where each actor is; "ended": its record is exited, detached or failed
    attached,      \* the targets that are being debugged
    shutdown,      \* the flag of each session
    late,          \* the deadlines that have passed
    cleanup        \* disconnect of each connection, and shutdown: the sessions to join

vars == <<connections, sessions, shutting_down, request, ready, actor, attached,
          shutdown, late, cleanup>>

Callers == Connections \cup {Host}
NotCalled == [called |-> FALSE, joins |-> {}, done |-> FALSE]

Init ==
    /\ connections = Connections
    /\ sessions = {}
    /\ shutting_down = FALSE
    /\ request = [s \in Sessions |-> "idle"]
    /\ ready = [s \in Sessions |-> "none"]
    /\ actor = [s \in Sessions |-> "none"]
    /\ attached = {}
    /\ shutdown = [s \in Sessions |-> FALSE]
    /\ late = {}
    /\ cleanup = [c \in Callers |-> NotCalled]

Terminal(s) == actor[s] = "ended"
Connected(s) == ~shutting_down /\ Owner[s] \in connections

-----------------------------------------------------------------------------
(* The request.                                                            *)

Active == {s \in sessions : ~Terminal(s)}

\* Terminal records make room for a new one, and no more of them than that takes.
MakesRoom(evicted) ==
    /\ Cardinality(sessions \ evicted) < MaxRetained
    /\ evicted # {} => Cardinality(sessions \ evicted) = MaxRetained - 1

\* Under the lock room is made, the actor is started and the session is inserted.
Insert(s) ==
    /\ \E evicted \in SUBSET {r \in sessions : Terminal(r)} :
          /\ MakesRoom(evicted)
          /\ sessions' = (sessions \ evicted) \cup {s}
          /\ shutdown' = [r \in Sessions |-> shutdown[r] \/ r \in evicted]
    /\ request' = [request EXCEPT ![s] = "waiting"]
    /\ actor' = [actor EXCEPT ![s] = "spawned"]
    /\ UNCHANGED <<connections, shutting_down, ready, attached, late, cleanup>>

\* Seeded fault: a request that was under way when its connection closed is admitted.
AdmitLate(s) ==
    /\ request[s] = "idle" /\ ~shutting_down
    /\ Cardinality(Active) < MaxActive
    /\ Insert(s)

Admit(s) ==
    /\ request[s] = "idle" /\ Connected(s)
    /\ Cardinality(Active) < MaxActive
    /\ Insert(s)

\* The actor's thread cannot be started: nothing is inserted, what was evicted is gone.
SpawnFails(s) ==
    /\ request[s] = "idle" /\ Connected(s)
    /\ Cardinality(Active) < MaxActive
    /\ \E evicted \in SUBSET {r \in sessions : Terminal(r)} :
          /\ MakesRoom(evicted)
          /\ sessions' = sessions \ evicted
          /\ shutdown' = [r \in Sessions |-> shutdown[r] \/ r \in evicted \cup {s}]
    /\ request' = [request EXCEPT ![s] = "failed"]
    /\ UNCHANGED <<connections, shutting_down, ready, actor, attached, late, cleanup>>

Refuse(s) ==
    /\ request[s] = "idle"
    /\ ~Connected(s) \/ Cardinality(Active) >= MaxActive
    /\ request' = [request EXCEPT ![s] = "failed"]
    /\ UNCHANGED <<connections, sessions, shutting_down, ready, actor, attached, shutdown,
                   late, cleanup>>

\* Seeded fault: a start that fails is only forgotten.
LeaveActor(s) ==
    /\ request' = [request EXCEPT ![s] = "failed"]
    /\ UNCHANGED shutdown

\* StartingGuard: a start that is not accepted has its actor clean up.
Leave(s) ==
    /\ request' = [request EXCEPT ![s] = "failed"]
    /\ shutdown' = [shutdown EXCEPT ![s] = TRUE]

\* The call is canceled or its time is over.
DropRequest(s) ==
    /\ request[s] = "waiting"
    /\ Leave(s)
    /\ UNCHANGED <<connections, sessions, shutting_down, ready, actor, attached, late,
                   cleanup>>

DeadlinePasses(s) ==
    /\ request[s] = "waiting" /\ s \notin late
    /\ late' = late \cup {s}
    /\ UNCHANGED <<connections, sessions, shutting_down, request, ready, actor, attached,
                   shutdown, cleanup>>

Revoked(s) == shutting_down \/ shutdown[s] \/ (s \notin Persistent /\ ~Connected(s))

InitFails(s) ==
    /\ request[s] = "waiting" /\ ready[s] = "error"
    /\ Leave(s)
    /\ UNCHANGED <<connections, sessions, shutting_down, ready, actor, attached, late,
                   cleanup>>

\* The registry and the flag are looked at once more before a start is accepted.
Accept(s) ==
    /\ request[s] = "waiting" /\ ready[s] = "ok"
    /\ \/ /\ Revoked(s)
          /\ Leave(s)
       \/ /\ ~Revoked(s)
          /\ request' = [request EXCEPT ![s] = "accepted"]
          /\ UNCHANGED shutdown
    /\ UNCHANGED <<connections, sessions, shutting_down, ready, actor, attached, late,
                   cleanup>>

-----------------------------------------------------------------------------
(* The actor.                                                              *)

Closed(s) == request[s] # "waiting"
Stopping(s) == shutdown[s] \/ s \in late

Ends(s, answer) ==
    /\ actor' = [actor EXCEPT ![s] = "ended"]
    /\ ready' = IF Closed(s) THEN ready ELSE [ready EXCEPT ![s] = answer]
    /\ UNCHANGED <<connections, sessions, shutting_down, request, shutdown, late, cleanup>>

GoesOn(s, where) ==
    /\ actor' = [actor EXCEPT ![s] = where]
    /\ UNCHANGED <<connections, sessions, shutting_down, request, ready, attached,
                   shutdown, late, cleanup>>

\* Before the native call, and right before it once more.
Begin(s) ==
    /\ actor[s] = "spawned"
    /\ \/ /\ shutdown[s] \/ Closed(s)
          /\ Ends(s, "error")
          /\ UNCHANGED attached
       \/ ~shutdown[s] /\ ~Closed(s) /\ GoesOn(s, "starting")

Checkpoint(s) ==
    /\ actor[s] = "starting"
    /\ \/ Stopping(s) /\ Ends(s, "error") /\ UNCHANGED attached
       \/ ~Stopping(s) /\ GoesOn(s, "attaching")

\* DebugActiveProcess or CreateProcessW, however long it takes.
NativeAttach(s) ==
    /\ actor[s] = "attaching"
    /\ actor' = [actor EXCEPT ![s] = "checking"]
    /\ attached' = attached \cup {s}
    /\ UNCHANGED <<connections, sessions, shutting_down, request, ready, shutdown, late, cleanup>>

NativeFails(s) ==
    /\ actor[s] = "attaching"
    /\ Ends(s, "error")
    /\ UNCHANGED attached

\* A start that was revoked meanwhile is undone; one whose time is over later is
\* flagged before it is announced.
Check(s) ==
    /\ actor[s] = "checking"
    /\ \/ /\ Stopping(s) \/ Closed(s)
          /\ attached' = attached \ {s}
          /\ Ends(s, "error")
       \/ /\ ~Stopping(s) /\ ~Closed(s)
          /\ actor' = [actor EXCEPT ![s] = "deciding"]
          /\ UNCHANGED <<connections, sessions, shutting_down, request, ready, attached,
                         shutdown, late, cleanup>>

Decide(s) ==
    /\ actor[s] = "deciding"
    /\ actor' = [actor EXCEPT ![s] = "announcing"]
    /\ shutdown' = [shutdown EXCEPT ![s] = @ \/ s \in late]
    /\ UNCHANGED <<connections, sessions, shutting_down, request, ready, attached, late,
                   cleanup>>

Announce(s) ==
    /\ actor[s] = "announcing"
    /\ actor' = [actor EXCEPT ![s] = "looping"]
    /\ IF Closed(s)
       THEN shutdown' = [shutdown EXCEPT ![s] = TRUE] /\ UNCHANGED ready
       ELSE ready' = [ready EXCEPT ![s] = "ok"] /\ UNCHANGED shutdown
    /\ UNCHANGED <<connections, sessions, shutting_down, request, attached, late,
                   cleanup>>

\* The loop sees the flag within 20 ms and lets go of the target.
SeeShutdown(s) ==
    /\ actor[s] = "looping" /\ shutdown[s]
    /\ attached' = attached \ {s}
    /\ Ends(s, ready[s])

\* The target exits, a command detaches from it, or an error ends the session.
TargetEnds(s) ==
    /\ actor[s] = "looping"
    /\ attached' = attached \ {s}
    /\ Ends(s, ready[s])

-----------------------------------------------------------------------------
(* Cleanup: flags under the lock, then joins the threads.                  *)

Sweep(caller, swept) ==
    /\ shutdown' = [s \in Sessions |-> shutdown[s] \/ s \in swept]
    /\ cleanup' = [cleanup EXCEPT ![caller] = [called |-> TRUE, joins |-> swept, done |-> FALSE]]
    /\ UNCHANGED <<sessions, request, ready, actor, attached, late>>

Disconnect(c) ==
    /\ ~cleanup[c].called
    /\ connections' = connections \ {c}
    /\ Sweep(c, {s \in sessions : Owner[s] = c /\ s \notin Persistent})
    /\ UNCHANGED shutting_down

Shutdown ==
    /\ ~cleanup[Host].called
    /\ shutting_down' = TRUE
    /\ connections' = {}
    /\ Sweep(Host, sessions)

Joined(caller) ==
    /\ cleanup[caller].called /\ ~cleanup[caller].done
    /\ \A s \in cleanup[caller].joins : actor[s] = "ended"
    /\ cleanup' = [cleanup EXCEPT ![caller] = [called |-> TRUE, joins |-> {}, done |-> TRUE]]
    /\ UNCHANGED <<connections, sessions, shutting_down, request, ready, actor, attached,
                   shutdown, late>>

-----------------------------------------------------------------------------
RequestStep(s) == \/ Admit(s) \/ SpawnFails(s) \/ Refuse(s) \/ DropRequest(s) \/ DeadlinePasses(s)
                  \/ InitFails(s) \/ Accept(s)

ActorStep(s) == \/ Begin(s) \/ Checkpoint(s) \/ NativeAttach(s) \/ NativeFails(s)
                \/ Check(s) \/ Decide(s) \/ Announce(s) \/ SeeShutdown(s)

Next == \/ \E s \in Sessions : RequestStep(s) \/ ActorStep(s) \/ TargetEnds(s)
        \/ \E c \in Connections : Disconnect(c)
        \/ Shutdown
        \/ \E caller \in Callers : Joined(caller)

Spec == Init /\ [][Next]_vars

\* The actors are threads of their own and their native calls return.
FairSpec == Spec /\ \A s \in Sessions : WF_vars(ActorStep(s))

-----------------------------------------------------------------------------
(* Properties.                                                             *)

TypeOK ==
    /\ connections \subseteq Connections
    /\ sessions \subseteq Sessions
    /\ shutting_down \in BOOLEAN
    /\ request \in [Sessions -> {"idle", "waiting", "accepted", "failed"}]
    /\ ready \in [Sessions -> {"none", "ok", "error"}]
    /\ actor \in [Sessions -> {"none", "spawned", "starting", "attaching", "checking",
                               "deciding", "announcing", "looping", "ended"}]
    /\ attached \subseteq Sessions
    /\ shutdown \in [Sessions -> BOOLEAN]
    /\ late \subseteq Sessions
    /\ cleanup \in [Callers -> [called : BOOLEAN, joins : SUBSET Sessions, done : BOOLEAN]]

\* When the cleanup of a closed connection has returned none of its targets is still
\* held by the debugger, and none will be: neither one whose attach was under way
\* nor one whose request arrives late.  The same holds of all after shutdown.
NothingHeldAfterCleanup ==
    \A s \in Sessions :
        \/ cleanup[Host].done
        \/ cleanup[Owner[s]].done /\ s \notin Persistent
        => s \notin attached /\ actor[s] \in {"none", "ended"}

\* A start that failed, timed out or was dropped leaves no target behind, although
\* its native call may succeed after that.
FailedStartIsUndone ==
    \A s \in Sessions : request[s] = "failed" ~> s \notin attached /\ actor[s] \in {"none", "ended"}
=============================================================================
