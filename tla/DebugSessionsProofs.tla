------------------------ MODULE DebugSessionsProofs ------------------------
(***************************************************************************)
(* Theorems of DebugSessions, for every set of sessions and connections    *)
(* and every limit.  The inductive invariant says that a cleanup which has *)
(* been called knows every actor it has to wait for: an actor that is not  *)
(* in its joins was admitted for somebody else, or has ended.              *)
(***************************************************************************)
EXTENDS DebugSessions, TLAPS

----------------------------------------------------------------------------
(* The inductive invariant.                                                *)

Over == {"none", "ended"}

\* A target is held by an actor between its native call and its detach.
HolderInv ==
    \A s \in attached : actor[s] \in {"checking", "deciding", "announcing", "looping"}

\* There is no actor before its request was admitted, and whoever collects the
\* sessions finds every actor that has not ended.
RegistryInv ==
    \A s \in Sessions : /\ request[s] = "idle" => actor[s] = "none"
                        /\ actor[s] \notin Over => s \in sessions

\* Nobody is admitted for a connection after its cleanup was called.
ClosedInv ==
    /\ \A c \in Connections : cleanup[c].called => c \notin connections
    /\ cleanup[Host].called => shutting_down
    /\ \A c \in Callers : cleanup[c].done => cleanup[c].called

Covers(c, s) == c = Host \/ (c = Owner[s] /\ s \notin Persistent)

\* A cleanup waits for all actors it covers, and has returned when all have ended.
JoinInv ==
    \A c \in Callers, s \in Sessions :
        cleanup[c].called /\ Covers(c, s) /\ actor[s] \notin Over
            => ~cleanup[c].done /\ s \in cleanup[c].joins

Inv == TypeOK /\ HolderInv /\ RegistryInv /\ ClosedInv /\ JoinInv

----------------------------------------------------------------------------
(* Each part is preserved.                                                 *)

\* The initial state.
LEMMA InitInv == Init => Inv
<1> SUFFICES ASSUME Init PROVE Inv
  OBVIOUS
<1>1. NotCalled \in [called : BOOLEAN, joins : SUBSET Sessions, done : BOOLEAN]
  BY DEF NotCalled
<1>2. TypeOK
  BY <1>1 DEF Init, TypeOK
<1>3. HolderInv /\ RegistryInv
  BY DEF Init, HolderInv, RegistryInv, Over
<1>4. ClosedInv /\ JoinInv
  BY DEF Init, ClosedInv, JoinInv, Callers, NotCalled
<1> QED BY <1>2, <1>3, <1>4 DEF Inv

\* What the steps of a request other than its admission leave alone.
LEMMA RequestFrame ==
    ASSUME TypeOK, NEW r \in Sessions,
           Refuse(r) \/ DropRequest(r) \/ DeadlinePasses(r) \/ InitFails(r) \/ Accept(r)
    PROVE  /\ TypeOK'
           /\ UNCHANGED <<connections, sessions, shutting_down, actor, attached, cleanup>>
           /\ \A s \in Sessions : request'[s] = "idle" => request[s] = "idle"
BY DEF TypeOK, Refuse, DropRequest, DeadlinePasses, InitFails, Accept, Leave

\* The step of an actor: it has begun, has not ended, and moves itself only.
LEMMA ActorFrame ==
    ASSUME TypeOK, NEW r \in Sessions, ActorStep(r) \/ TargetEnds(r)
    PROVE  /\ TypeOK'
           /\ UNCHANGED <<connections, sessions, shutting_down, request, cleanup>>
           /\ actor[r] \notin Over /\ actor'[r] # "none"
           /\ \A s \in Sessions \ {r} : actor'[s] = actor[s]
BY ZenonT(60) DEF TypeOK, ActorStep, Begin, Checkpoint, NativeAttach, NativeFails, Check, Decide, Announce,
       SeeShutdown, TargetEnds, Ends, GoesOn, Over, Closed, Stopping

\* A target is taken when its actor begins to check and let go when it ends.
LEMMA ActorHolds ==
    ASSUME TypeOK, HolderInv, NEW r \in Sessions, ActorStep(r) \/ TargetEnds(r)
    PROVE  HolderInv'
BY DEF TypeOK, HolderInv, ActorStep, Begin, Checkpoint, NativeAttach, NativeFails, Check, Decide,
       Announce, SeeShutdown, TargetEnds, Ends, GoesOn

\* An admission evicts what has ended and enters one actor, of a connection that is
\* neither cleaned up nor will be without it.
LEMMA AdmitStep ==
    ASSUME Inv, NEW r \in Sessions, Admit(r)
    PROVE  Inv'
<1> USE DEF Inv
<1>1. PICK evicted \in SUBSET {s \in sessions : Terminal(s)} :
          sessions' = (sessions \ evicted) \cup {r}
               /\ shutdown' = [s \in Sessions |-> shutdown[s] \/ s \in evicted]
  BY DEF Admit, Insert
<1>2. /\ request' = [request EXCEPT ![r] = "waiting"]
      /\ actor' = [actor EXCEPT ![r] = "spawned"]
      /\ UNCHANGED <<connections, shutting_down, ready, attached, late, cleanup>>
      /\ request[r] = "idle" /\ Connected(r)
  BY DEF Admit, Insert
<1>3. TypeOK'
  BY <1>1, <1>2 DEF TypeOK
<1>4. actor[r] = "none"
  BY <1>2 DEF RegistryInv
<1>5. HolderInv'
  BY <1>2, <1>4 DEF HolderInv, TypeOK
<1>6. RegistryInv'
  BY <1>1, <1>2 DEF RegistryInv, Terminal, Over, TypeOK
<1>7. ClosedInv'
  BY <1>2 DEF ClosedInv
<1>8. JoinInv'
  <2> SUFFICES ASSUME NEW c \in Callers, NEW s \in Sessions,
                      cleanup[c].called, Covers(c, s), actor'[s] \notin Over
               PROVE  ~cleanup[c].done /\ s \in cleanup[c].joins
    BY <1>2 DEF JoinInv
  <2>1. CASE s = r
    BY <1>2, <2>1 DEF ClosedInv, Covers, Connected, Callers
  <2>2. CASE s # r
    BY <1>2, <2>2 DEF JoinInv, TypeOK
  <2> QED BY <2>1, <2>2
<1> QED BY <1>3, <1>5, <1>6, <1>7, <1>8

\* A thread that cannot be started leaves the evictions, and no actor.
LEMMA SpawnFailsStep ==
    ASSUME Inv, NEW r \in Sessions, SpawnFails(r)
    PROVE  Inv'
<1> USE DEF Inv
<1>1. PICK evicted \in SUBSET {s \in sessions : Terminal(s)} :
          sessions' = sessions \ evicted
               /\ shutdown' = [s \in Sessions |-> shutdown[s] \/ s \in evicted \cup {r}]
  BY DEF SpawnFails
<1>2. /\ request' = [request EXCEPT ![r] = "failed"]
      /\ UNCHANGED <<connections, shutting_down, ready, actor, attached, late, cleanup>>
  BY DEF SpawnFails
<1>3. TypeOK'
  BY <1>1, <1>2 DEF TypeOK
<1>4. HolderInv' /\ ClosedInv' /\ JoinInv'
  BY <1>2 DEF HolderInv, ClosedInv, JoinInv
<1>5. RegistryInv'
  BY <1>1, <1>2 DEF RegistryInv, Terminal, Over, TypeOK
<1> QED BY <1>3, <1>4, <1>5

\* What a cleanup does under the lock: it closes the door and collects the sessions.
Collects(c, swept) ==
    /\ Sweep(c, swept)
    /\ \A s \in sessions : Covers(c, s) => s \in swept
    /\ connections' \subseteq connections
    /\ c \in Connections => c \notin connections'
    /\ c = Host => shutting_down'
    /\ shutting_down' \in BOOLEAN /\ (shutting_down => shutting_down')

\* A cleanup collects every actor there is for it.
LEMMA SweepStep ==
    ASSUME Inv, (\E c \in Connections : Disconnect(c)) \/ Shutdown
    PROVE  Inv'
<1> USE DEF Inv
<1>1. PICK c \in Callers, swept \in SUBSET sessions : Collects(c, swept)
  <2>1. CASE Shutdown
    <3>1. Sweep(Host, sessions)
      BY <2>1 DEF Shutdown
    <3>2. Collects(Host, sessions)
      BY <2>1, <3>1, SessionsAssumption DEF Collects, Shutdown
    <3> QED BY <3>2 DEF Callers
  <2>2. ASSUME NEW c \in Connections, Disconnect(c)
        PROVE  \E caller \in Callers, swept \in SUBSET sessions : Collects(caller, swept)
    <3> DEFINE mine == {s \in sessions : Owner[s] = c /\ s \notin Persistent}
    <3>1. Sweep(c, mine)
      BY <2>2 DEF Disconnect
    <3>2. \A s \in sessions : Covers(c, s) => s \in mine
      BY <2>2, SessionsAssumption DEF Covers
    <3>3. /\ connections' = connections \ {c}
          /\ shutting_down' = shutting_down /\ shutting_down \in BOOLEAN
      BY <2>2 DEF Disconnect, TypeOK
    <3>4. mine \in SUBSET sessions /\ c # Host /\ c \in Callers
      BY <2>2, SessionsAssumption DEF Callers
    <3> HIDE DEF mine
    <3>5. Collects(c, mine)
      BY <3>1, <3>2, <3>3, <3>4 DEF Collects
    <3> QED BY <3>4, <3>5
  <2> QED BY <2>1, <2>2
<1>2. /\ cleanup' = [cleanup EXCEPT ![c] = [called |-> TRUE, joins |-> swept, done |-> FALSE]]
      /\ shutdown' = [s \in Sessions |-> shutdown[s] \/ s \in swept]
      /\ UNCHANGED <<sessions, request, ready, actor, attached, late>>
  BY <1>1 DEF Collects, Sweep
<1>3. [called |-> TRUE, joins |-> swept, done |-> FALSE]
          \in [called : BOOLEAN, joins : SUBSET Sessions, done : BOOLEAN]
  BY <1>1 DEF TypeOK
<1>4. TypeOK'
  BY <1>1, <1>2, <1>3 DEF TypeOK, Collects
<1>5. HolderInv' /\ RegistryInv'
  BY <1>2 DEF HolderInv, RegistryInv
<1>6. ClosedInv'
  BY <1>1, <1>2, SessionsAssumption DEF ClosedInv, TypeOK, Callers, Collects
<1>7. JoinInv'
  BY <1>1, <1>2 DEF JoinInv, RegistryInv, TypeOK, Collects
<1> QED BY <1>4, <1>5, <1>6, <1>7

\* A cleanup returns when the actors it collected have ended.
LEMMA JoinedStep ==
    ASSUME Inv, NEW c \in Callers, Joined(c)
    PROVE  Inv'
<1> USE DEF Inv
<1>1. /\ cleanup' = [cleanup EXCEPT ![c] = [called |-> TRUE, joins |-> {}, done |-> TRUE]]
      /\ cleanup[c].called /\ \A s \in cleanup[c].joins : actor[s] = "ended"
      /\ UNCHANGED <<connections, sessions, shutting_down, request, ready, actor, attached,
                     shutdown, late>>
  BY DEF Joined
<1>2. [called |-> TRUE, joins |-> {}, done |-> TRUE]
          \in [called : BOOLEAN, joins : SUBSET Sessions, done : BOOLEAN]
  OBVIOUS
<1>3. TypeOK'
  BY <1>1, <1>2 DEF TypeOK
<1>4. HolderInv' /\ RegistryInv'
  BY <1>1 DEF HolderInv, RegistryInv
<1>5. ClosedInv'
  BY <1>1 DEF ClosedInv, TypeOK, Callers
<1>6. JoinInv'
  BY <1>1 DEF JoinInv, TypeOK, Over
<1> QED BY <1>3, <1>4, <1>5, <1>6

\* Every step preserves the invariant.
LEMMA NextInv == Inv /\ [Next]_vars => Inv'
<1> SUFFICES ASSUME Inv, [Next]_vars PROVE Inv'
  OBVIOUS
<1>1. CASE UNCHANGED vars
  BY <1>1 DEF vars, Inv, TypeOK, HolderInv, RegistryInv, ClosedInv, JoinInv
<1>2. ASSUME NEW r \in Sessions, RequestStep(r)
      PROVE  Inv'
  <2>1. CASE Admit(r)
    BY <2>1, AdmitStep
  <2>2. CASE SpawnFails(r)
    BY <2>2, SpawnFailsStep
  <2>3. CASE ~Admit(r) /\ ~SpawnFails(r)
    <3>1. Refuse(r) \/ DropRequest(r) \/ DeadlinePasses(r) \/ InitFails(r) \/ Accept(r)
      BY <1>2, <2>3 DEF RequestStep
    <3> QED BY <3>1, RequestFrame DEF Inv, HolderInv, RegistryInv, ClosedInv, JoinInv
  <2> QED BY <2>1, <2>2, <2>3
<1>3. ASSUME NEW r \in Sessions, ActorStep(r) \/ TargetEnds(r)
      PROVE  Inv'
  BY <1>3, ActorFrame, ActorHolds DEF Inv, RegistryInv, ClosedInv, JoinInv, Over
<1>4. CASE (\E c \in Connections : Disconnect(c)) \/ Shutdown
  BY <1>4, SweepStep
<1>5. ASSUME NEW c \in Callers, Joined(c)
      PROVE  Inv'
  BY <1>5, JoinedStep
<1> QED BY <1>1, <1>2, <1>3, <1>4, <1>5 DEF Next

----------------------------------------------------------------------------
(* Theorems.                                                               *)

\* The invariant holds throughout (all of start, the actors and the cleanups).
THEOREM Invariant == Spec => []Inv
BY InitInv, NextInv, PTL DEF Spec

\* The registry, the requests and the actors keep their types.
THEOREM SessionsTyped == Spec => []TypeOK
<1>1. Inv => TypeOK
  BY DEF Inv
<1> QED BY <1>1, Invariant, PTL

\* When disconnect or shutdown has returned, the debugger holds no target that it
\* was called for, and takes none later, whatever was being attached meanwhile.
THEOREM NothingIsHeld == Spec => []NothingHeldAfterCleanup
<1>1. Inv => NothingHeldAfterCleanup
  <2> SUFFICES ASSUME Inv, NEW s \in Sessions,
                      cleanup[Host].done \/ (cleanup[Owner[s]].done /\ s \notin Persistent)
               PROVE  s \notin attached /\ actor[s] \in Over
    BY DEF NothingHeldAfterCleanup, Over
  <2>1. PICK c \in Callers : cleanup[c].done /\ Covers(c, s)
    BY SessionsAssumption DEF Callers, Covers
  <2>2. actor[s] \in Over
    BY <2>1 DEF Inv, JoinInv, ClosedInv
  <2> QED BY <2>2 DEF Inv, HolderInv, Over
<1> QED BY <1>1, Invariant, PTL
=============================================================================
