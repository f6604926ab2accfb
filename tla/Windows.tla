------------------------------- MODULE Windows -------------------------------
(* desktop/windows.rs: the references a client holds to windows of other programs.      *)
(* Windows reuses an HWND as soon as its window is gone, so a reference stands for an     *)
(* identity: the HWND and the generation the lifetime tracker has counted for it in the   *)
(* events of a hook.  Events reach the tracker late, it may miss some when its thread     *)
(* does not run, and its table is bounded: it then starts a new epoch and forgets all.    *)
(* A behavior has the windows open and close on their own, the tracker's thread, and      *)
(* calls of one connection: list, resolve, minimize (an action with a postcondition) and  *)
(* close.  External: the hook delivers in order, the event of a creation is queued when    *)
(* the HWND becomes valid, and that of a destruction not later than it becomes invalid.    *)
EXTENDS Integers, Sequences, FiniteSets

CONSTANTS
    Hwnds, Callers,
    MaxLives,      \* windows that are ever opened
    MaxTracked,    \* MAX_TRACKED_WINDOWS: 8192
    MaxRefs,       \* MAX_REFS: 2048
    MaxCalls, MaxEpoch,
    None

WindowsAssumption ==
    /\ {MaxLives, MaxCalls, MaxEpoch} \subseteq Nat
    /\ {MaxTracked, MaxRefs} \subseteq Nat \ {0}
    /\ None \notin Hwnds \cup Callers
    /\ None \notin [epoch : Nat, generation : Nat, alive : BOOLEAN]
    /\ None \notin [hwnd : Hwnds, epoch : Nat, generation : Nat]

VARIABLES
    window,        \* what an HWND stands for in Windows: the life and its phase
    lives,         \* windows opened so far
    hook,          \* events and fences on their way to the tracker's thread
    tracker,       \* LifetimeState, and whether events may be missing from it
    serving,       \* the request the tracker works on
    call,          \* the calls, each at a step of its handler
    refs,          \* References: pairs of a reference and an identity, the oldest first
    fresh,         \* references issued so far
    told,          \* history: pairs of a reference and the life whose data went with it
    calls          \* calls started

vars == <<window, lives, hook, tracker, serving, call, refs, fresh, told, calls>>

osVars == <<window, lives>>
trackerVars == <<hook, tracker, serving>>
clientVars == <<call, refs, fresh, told, calls>>

Free == [life |-> 0, phase |-> "none", small |-> FALSE]
IsWindow(h) == window[h].phase # "none"

\* A call that is not running: what it claimed, and of which window.
Ended(verdict, life) ==
    [stage |-> "none", step |-> "end", pass |-> 0, op |-> "none", hwnd |-> None, ref |-> 0,
     expected |-> None, id |-> None, first |-> None, life |-> life, small |-> FALSE,
     shown |-> 0, verdict |-> verdict]

Idle == [step |-> "idle", for |-> None, hwnd |-> None, alive |-> FALSE]

Init ==
    /\ window = [h \in Hwnds |-> Free]
    /\ lives = 0
    /\ hook = <<>>
    /\ tracker = [epoch |-> 1, generation |-> 0, known |-> [h \in Hwnds |-> None],
                  gap |-> FALSE, up |-> TRUE]
    /\ serving = Idle
    /\ call = [c \in Callers |-> Ended("none", 0)]
    /\ refs = <<>>
    /\ fresh = 0
    /\ told = {}
    /\ calls = 0

-----------------------------------------------------------------------------
(* Windows, by the other programs.                                                     *)

Open(h) ==
    /\ ~IsWindow(h) /\ lives < MaxLives
    /\ lives' = lives + 1
    /\ window' = [window EXCEPT ![h] = [life |-> lives + 1, phase |-> "open", small |-> FALSE]]
    /\ hook' = Append(hook, [event |-> "create", hwnd |-> h])
    /\ UNCHANGED <<tracker, serving, clientVars>>

\* DestroyWindow tells the hooks first; the HWND is still valid for a while.
Destroy(h) ==
    /\ window[h].phase = "open"
    /\ window' = [window EXCEPT ![h].phase = "dying"]
    /\ hook' = Append(hook, [event |-> "destroy", hwnd |-> h])
    /\ UNCHANGED <<lives, tracker, serving, clientVars>>

Vanish(h) ==
    /\ window[h].phase = "dying"
    /\ window' = [window EXCEPT ![h] = Free]
    /\ UNCHANGED <<lives, hook, tracker, serving, clientVars>>

Without(seq, i) == [j \in 1..(Len(seq) - 1) |-> IF j < i THEN seq[j] ELSE seq[j + 1]]

\* The thread does not pump for longer than MAX_PUMP_GAP, or the handler is entered while
\* the table is borrowed: an event is lost, and the tracker can tell that some may be.
Miss ==
    /\ tracker.epoch < MaxEpoch /\ tracker.up
    /\ \E i \in 1..Len(hook) :
        /\ hook[i].event # "fence"
        /\ hook' = Without(hook, i)
    /\ tracker' = [tracker EXCEPT !.gap = TRUE]
    /\ UNCHANGED <<osVars, serving, clientVars>>

-----------------------------------------------------------------------------
(* The tracker's thread.                                                               *)

Invalidate(t) == [t EXCEPT !.epoch = @ + 1, !.known = [h \in Hwnds |-> None], !.gap = FALSE]

\* with_lifetimes, before the work is done on the table.
Synced(t) == IF t.gap THEN Invalidate(t) ELSE t

\* A mistake to catch: only a destruction is numbered.
EventUnnumbered(t, h, event) ==
    IF t.known[h] = None THEN t ELSE [t EXCEPT !.known[h].alive = event = "create"]

Event(t, h, event) ==
    IF t.known[h] = None THEN t
    ELSE [t EXCEPT !.generation = @ + 1,
                   !.known[h] = [epoch |-> t.epoch, generation |-> t.generation + 1,
                                 alive |-> event = "create"]]

Tracked(t) == {h \in Hwnds : t.known[h] # None}

Room(t, h) == IF t.known[h] = None /\ Cardinality(Tracked(t)) >= MaxTracked THEN Invalidate(t) ELSE t

Snapshot(t, h, alive) ==
    IF t.known[h] # None /\ t.known[h].alive = alive THEN t
    ELSE LET r == Room(t, h) IN
         [r EXCEPT !.generation = @ + 1,
                   !.known[h] = [epoch |-> r.epoch, generation |-> r.generation + 1,
                                 alive |-> alive]]

Asking(c) == call[c].step \in {"first", "second"}

\* tracker_worker takes a request and sends a fence after the events that are queued.
Take(c) ==
    /\ tracker.up /\ serving.step = "idle" /\ Asking(c)
    /\ tracker' = Synced(tracker)
    /\ hook' = Append(hook, [event |-> "fence", hwnd |-> None])
    /\ serving' = [Idle EXCEPT !.step = "fence", !.for = c, !.hwnd = call[c].hwnd]
    /\ UNCHANGED <<osVars, clientVars>>

\* pump_tracker_messages, one message; the fence's own ends tracker_fence.
Pump ==
    /\ tracker.up /\ hook # <<>>
    /\ hook' = Tail(hook)
    /\ LET e == Head(hook) IN
       IF e.event = "fence"
       THEN /\ tracker' = Synced(tracker)
            /\ serving' = [serving EXCEPT !.step = "look"]
       ELSE /\ tracker' = Event(tracker, e.hwnd, e.event)
            /\ UNCHANGED serving
    /\ UNCHANGED <<osVars, clientVars>>

\* IsWindow, after the fence.
Look ==
    /\ serving.step = "look"
    /\ serving' = [serving EXCEPT !.step = "answer", !.alive = IsWindow(serving.hwnd)]
    /\ UNCHANGED <<osVars, hook, tracker, clientVars>>

\* The fence did not come through in TRACKER_TIMEOUT: the thread ends, for good.
FenceFails ==
    /\ serving.step = "fence"
    /\ tracker' = [tracker EXCEPT !.up = FALSE]
    /\ serving' = Idle
    /\ hook' = <<>>
    /\ UNCHANGED <<osVars, clientVars>>

-----------------------------------------------------------------------------
(* The calls.                                                                          *)

Set(c, r) == call' = [call EXCEPT ![c] = r]

\* A reading of the identity begins with a request to the tracker.
Reading(r, stage) == [r EXCEPT !.stage = stage, !.step = "first", !.pass = 1, !.first = None]

Failed(r) == [r EXCEPT !.step = "failed"]

\* The tracker's answer to a request; the caller may have given up.
Answer ==
    /\ serving.step = "answer"
    /\ LET t == Snapshot(Synced(tracker), serving.hwnd, serving.alive)
           lifetime == t.known[serving.hwnd]
           r == call[serving.for]
       IN /\ t.epoch <= MaxEpoch
          /\ tracker' = t
          /\ IF serving.for = None THEN UNCHANGED call
             ELSE Set(serving.for,
                    IF r.step = "first"
                    THEN IF lifetime.alive THEN [r EXCEPT !.step = "owner", !.first = lifetime]
                         ELSE Failed(r)
                    ELSE IF lifetime = r.first THEN [r EXCEPT !.step = "same"] ELSE Failed(r))
    /\ serving' = Idle
    /\ UNCHANGED <<osVars, hook, refs, fresh, told, calls>>

NoTracker(c) ==
    /\ Asking(c) /\ ~tracker.up
    /\ Set(c, Failed(call[c]))
    /\ UNCHANGED <<osVars, trackerVars, refs, fresh, told, calls>>

\* read_identity, between the two snapshots: a window that is being destroyed may have lost
\* its owner already, and the process of an open one may not be identified.
ReadOwner(c) ==
    /\ call[c].step = "owner"
    /\ \/ /\ IsWindow(call[c].hwnd)
          /\ Set(c, [call[c] EXCEPT !.step = "second"])
       \/ Set(c, Failed(call[c]))
    /\ UNCHANGED <<osVars, trackerVars, refs, fresh, told, calls>>

Identity(r) == [hwnd |-> r.hwnd, epoch |-> r.first.epoch, generation |-> r.first.generation]

\* record: a reading of the identity, the data of the window, and a second reading. The
\* native calls that the data come from are one step.
Recording == {"list", "resolve", "select", "before", "poll", "show"}

FirstReading(c) ==
    LET r == call[c] IN
    /\ r.step = "same" /\ r.stage \in Recording /\ r.pass = 1
    /\ Set(c, IF r.expected # None /\ r.expected # Identity(r) THEN Failed(r)
              ELSE [r EXCEPT !.step = "data", !.id = Identity(r)])
    /\ UNCHANGED <<osVars, trackerVars, refs, fresh, told, calls>>

Data(c) ==
    LET r == call[c]
        there == window[r.hwnd]
    IN /\ r.step = "data"
       /\ Set(c, IF there.phase = "none" THEN Failed(r)
                 ELSE [r EXCEPT !.step = "first", !.first = None, !.pass = 2,
                                !.small = there.small, !.shown = there.life])
       /\ UNCHANGED <<osVars, trackerVars, refs, fresh, told, calls>>

Entries == {refs[i] : i \in 1..Len(refs)}
Known(identity) == {e \in Entries : e.id = identity}

Kept(seq, n) == IF Len(seq) <= n THEN seq ELSE SubSeq(seq, Len(seq) - n + 1, Len(seq))

Places(h) == {i \in 1..Len(refs) : refs[i].id.hwnd = h}

\* References::retain. Only it adds an entry, so an HWND has one at most, and dropping
\* the entries of the HWND is dropping that one.
Retain(ref, identity) ==
    LET others == IF Places(identity.hwnd) = {} THEN refs
                  ELSE Without(refs, CHOOSE i \in Places(identity.hwnd) : TRUE)
    IN refs' = Append(Kept(others, MaxRefs - 1), [ref |-> ref, id |-> identity])

\* What a handler does with a record it obtained.
Then(r, ref) ==
    IF r.expected # None /\ ref # r.ref THEN Failed(r)
    ELSE CASE r.stage \in {"list", "resolve"} -> Ended("none", 0)
           [] r.stage = "select" -> [r EXCEPT !.stage = "before", !.step = "get"]
           [] r.stage = "before" ->
                 [Reading(r, "recheck") EXCEPT !.expected = r.id, !.life = r.shown]
           [] r.stage = "poll" ->
                 IF r.small THEN [Ended("minimized", r.life) EXCEPT !.shown = r.shown]
                 ELSE [r EXCEPT !.step = "get"]
           [] r.stage = "show" -> [r EXCEPT !.stage = "gone", !.step = "look"]

SecondReading(c) ==
    LET r == call[c]
        ref == IF Known(r.id) = {} THEN fresh + 1 ELSE (CHOOSE e \in Known(r.id) : TRUE).ref
    IN /\ r.step = "same" /\ r.stage \in Recording /\ r.pass = 2
       /\ IF r.id # Identity(r)
          THEN /\ Set(c, Failed(r))
               /\ UNCHANGED <<refs, fresh, told>>
          ELSE /\ Retain(ref, r.id)
               /\ fresh' = IF ref > fresh THEN ref ELSE fresh
               /\ Set(c, Then(r, ref))
               /\ told' = IF r.expected # None /\ ref # r.ref THEN told
                          ELSE told \cup {<<ref, r.shown>>}
       /\ UNCHANGED <<osVars, trackerVars, calls>>

\* resolve_with_operation, up to record.
Get(c) ==
    LET r == call[c]
        found == {e \in Entries : e.ref = r.ref}
    IN /\ r.step = "get"
       /\ \/ /\ found = {}
             /\ Set(c, Failed(r))
          \/ \E e \in found :
                Set(c, [Reading(r, r.stage) EXCEPT !.hwnd = e.id.hwnd, !.expected = e.id])
       /\ UNCHANGED <<osVars, trackerVars, refs, fresh, told, calls>>

\* manage, before the native call: the identity is read once more.
Recheck(c) ==
    LET r == call[c] IN
    /\ r.step = "same" /\ r.stage = "recheck"
    /\ Set(c, IF Identity(r) # r.expected THEN Failed(r) ELSE [r EXCEPT !.step = "act"])
    /\ UNCHANGED <<osVars, trackerVars, refs, fresh, told, calls>>

\* The native call goes to whatever window the HWND stands for by then.
Act(c) ==
    LET r == call[c] IN
    /\ r.step = "act"
    /\ \/ /\ IsWindow(r.hwnd)
          /\ Set(c, IF r.op = "close" THEN [r EXCEPT !.stage = "gone", !.step = "look"]
                    ELSE [r EXCEPT !.stage = "poll", !.step = "get"])
          /\ \/ UNCHANGED window
             \/ /\ r.op = "minimize"
                /\ window' = [window EXCEPT ![r.hwnd].small = TRUE]
       \/ /\ Set(c, Ended("none", 0))
          /\ UNCHANGED window
    /\ UNCHANGED <<lives, trackerVars, refs, fresh, told, calls>>

\* original_is_gone, up to the reading.
LookGone(c) ==
    LET r == call[c] IN
    /\ r.stage = "gone" /\ r.step = "look"
    /\ Set(c, IF IsWindow(r.hwnd) THEN Reading(r, "gone") ELSE Ended("closed", r.life))
    /\ UNCHANGED <<osVars, trackerVars, refs, fresh, told, calls>>

\* Another identity in the same epoch is another window.
ReadGone(c) ==
    LET r == call[c] IN
    /\ r.stage = "gone" /\ r.step = "same"
    /\ Set(c, IF Identity(r).epoch # r.expected.epoch THEN Failed(r)
              ELSE IF Identity(r) # r.expected THEN Ended("closed", r.life)
              ELSE [r EXCEPT !.stage = "show", !.step = "get"])
    /\ UNCHANGED <<osVars, trackerVars, refs, fresh, told, calls>>

\* A failed reading is inconclusive for poll_close, unless the HWND is not valid; every
\* other handler returns the error.
Fails(c) ==
    LET r == call[c] IN
    /\ r.step = "failed"
    /\ Set(c, IF r.stage = "gone" /\ ~IsWindow(r.hwnd) THEN Ended("closed", r.life)
              ELSE IF r.stage \in {"gone", "show"} THEN [r EXCEPT !.stage = "gone", !.step = "look"]
              ELSE Ended("none", 0))
    /\ UNCHANGED <<osVars, trackerVars, refs, fresh, told, calls>>

\* The operation is canceled or its time is up; the tracker's reply goes nowhere.
GiveUp(c) ==
    /\ call[c].step # "end"
    /\ Set(c, Ended("none", 0))
    /\ serving' = IF serving.for = c THEN [serving EXCEPT !.for = None] ELSE serving
    /\ UNCHANGED <<osVars, hook, tracker, refs, fresh, told, calls>>

Start(c) ==
    /\ call[c].step = "end" /\ calls < MaxCalls
    /\ calls' = calls + 1
    /\ \/ \E h \in Hwnds :
             /\ IsWindow(h)
             /\ Set(c, Reading([Ended("none", 0) EXCEPT !.hwnd = h, !.op = "list"], "list"))
       \/ \E ref \in {t[1] : t \in told}, op \in {"resolve", "minimize", "close"} :
             Set(c, [Ended("none", 0) EXCEPT !.op = op, !.ref = ref, !.step = "get",
                        !.stage = IF op = "resolve" THEN "resolve" ELSE "select"])
    /\ UNCHANGED <<osVars, trackerVars, refs, fresh, told>>

\* References::prune: entries expire in the order they were retained.
Expire ==
    /\ refs # <<>>
    /\ refs' = Tail(refs)
    /\ UNCHANGED <<osVars, trackerVars, call, fresh, told, calls>>

Outside == Miss \/ \E h \in Hwnds : Open(h) \/ Destroy(h) \/ Vanish(h)
TrackerThread == Pump \/ Look \/ Answer \/ FenceFails \/ \E c \in Callers : Take(c)
Call(c) ==
    \/ Start(c) \/ Get(c) \/ NoTracker(c) \/ ReadOwner(c) \/ FirstReading(c) \/ Data(c)
    \/ SecondReading(c) \/ Recheck(c) \/ Act(c) \/ LookGone(c) \/ ReadGone(c)
    \/ Fails(c) \/ GiveUp(c)

Next == Outside \/ TrackerThread \/ Expire \/ \E c \in Callers : Call(c)

Spec == Init /\ [][Next]_vars

-----------------------------------------------------------------------------
(* A reference is given out, over and over, with the data of one window: the HWND may   *)
(* have been reused since, or before or after its data were read between two readings of  *)
(* the identity, and the tracker may have missed it.  A close that is reported as observed has ended the    *)
(* window it was asked for, and a minimized window that is reported is that window.       *)
WindowsAreTrue ==
    /\ \A s, t \in told : s[1] = t[1] => s[2] = t[2]
    /\ \A c \in Callers :
        /\ call[c].verdict = "closed" =>
              \A h \in Hwnds : window[h].life = call[c].life => window[h].phase = "dying"
        /\ call[c].verdict = "minimized" => call[c].shown = call[c].life

=============================================================================
