------------------------------- MODULE Overlay -------------------------------
(* overlay.rs: the glow around the screen while tools act on it, and the screenshots    *)
(* it must not be in.  One thread owns the window and animates it; tools post pulses to   *)
(* it; a capture takes a lock, forbids the window to show, has its thread hide it at a     *)
(* barrier, and gives all of it back in three steps while the thread goes on.             *)
(* Abstract: the level is its phase and whether it rounds to a visible alpha; time is     *)
(* whatever the waits may have been.                                                      *)
EXTENDS Integers, Sequences, FiniteSets

CONSTANTS
    Captures,
    MaxCaptures, MaxPulses, MaxRefits   \* bounds: how often each happens

OverlayAssumption == {MaxCaptures, MaxPulses, MaxRefits} \subseteq Nat

VARIABLES
    target,       \* TARGET: whether there is a window to post to
    suppressed,   \* CAPTURE_SUPPRESSED
    lock,         \* CAPTURE_LOCK: the captures that hold it
    shown,        \* external: whether the window is on the screen
    glow,         \* Glow: visible, the bitmap, and dark_since
    phase,        \* Envelope
    loop,         \* the thread, at a step of run
    queue,        \* messages posted to the window
    barrier,      \* captures whose barrier message was sent and not handled
    capture,      \* the captures, each at a step, and whether its guard has a target
    seen          \* history: pulses, refits, captures, and barriers not acknowledged

vars == <<target, suppressed, lock, shown, glow, phase, loop, queue, barrier, capture, seen>>
windowVars == <<shown, glow, phase, loop>>

Init ==
    /\ target = FALSE /\ suppressed = FALSE /\ lock = {} /\ shown = FALSE
    /\ glow = [visible |-> FALSE, bitmap |-> FALSE, dark |-> FALSE]
    /\ phase = "idle" /\ loop = "starting"
    /\ queue = <<>> /\ barrier = {}
    /\ capture = [c \in Captures |-> [pc |-> "idle", target |-> FALSE]]
    /\ seen = [pulses |-> 0, refits |-> 0, captures |-> 0, lost |-> 0]

-----------------------------------------------------------------------------
(* The tools, and the desktop.                                                         *)

Post(m) == queue' = Append(queue, m)

Pulse ==
    /\ target /\ seen.pulses < MaxPulses
    /\ seen' = [seen EXCEPT !.pulses = @ + 1]
    /\ Post("pulse")
    /\ UNCHANGED <<target, suppressed, lock, windowVars, barrier, capture>>

\* WM_DISPLAYCHANGE comes back to the loop as a posted message.
DisplayChange ==
    /\ target /\ seen.refits < MaxRefits
    /\ seen' = [seen EXCEPT !.refits = @ + 1]
    /\ Post("refit")
    /\ UNCHANGED <<target, suppressed, lock, windowVars, barrier, capture>>

-----------------------------------------------------------------------------
(* The thread of the window.                                                           *)

\* glow_thread; create may fail.
StartUp ==
    /\ loop = "starting"
    /\ \/ loop' = "waiting" /\ target' = TRUE
       \/ loop' = "ended" /\ UNCHANGED target
    /\ UNCHANGED <<suppressed, lock, shown, glow, phase, queue, barrier, capture, seen>>

\* The wait has a limit while the glow is animated, or dark with a bitmap to free.
HasTimeout == phase # "idle" \/ glow.dark

Wake ==
    /\ loop = "waiting"
    /\ \/ /\ queue # <<>> \/ barrier # {}
          /\ loop' = "draining"
       \/ /\ HasTimeout
          /\ loop' = "drawing"
    /\ UNCHANGED <<target, suppressed, lock, shown, glow, phase, queue, barrier, capture, seen>>

\* wndproc, WM_CAPTURE_BARRIER: a sent message is handled when the thread peeks.  The
\* sender may not be waiting any more.
Barrier(c) ==
    /\ loop = "draining" /\ c \in barrier
    /\ barrier' = barrier \ {c}
    /\ shown' = (shown /\ ~suppressed)
    /\ capture' = IF capture[c].pc = "sent" THEN [capture EXCEPT ![c].pc = "hidden"] ELSE capture
    /\ UNCHANGED <<target, suppressed, lock, glow, phase, loop, queue, seen>>

\* Envelope::trigger
Triggered == IF phase = "idle" THEN {"attack"} ELSE IF phase = "hold" THEN {"hold"} ELSE {"attack", "hold"}

Handle ==
    /\ loop = "draining" /\ queue # <<>>
    /\ queue' = Tail(queue)
    /\ \/ /\ Head(queue) = "pulse"
          /\ phase' \in Triggered
          /\ UNCHANGED glow
       \/ /\ Head(queue) = "refit"
          /\ glow' = [glow EXCEPT !.bitmap = FALSE]
          /\ UNCHANGED phase
       \/ /\ Head(queue) = "changed"
          /\ glow' = [glow EXCEPT !.visible = shown]
          /\ UNCHANGED phase
    /\ UNCHANGED <<target, suppressed, lock, shown, loop, barrier, capture, seen>>

Drained ==
    /\ loop = "draining" /\ queue = <<>> /\ barrier = {}
    /\ loop' = "drawing"
    /\ UNCHANGED <<target, suppressed, lock, shown, glow, phase, queue, barrier, capture, seen>>

Order == <<"attack", "hold", "release", "idle">>
\* Envelope::advance, after any time.
Advanced ==
    {Order[j] : j \in {k \in 1..4 : \E i \in 1..k : Order[i] = phase}}
Alphas(p) == CASE p = "idle" -> {0} [] p = "hold" -> {1} [] OTHER -> {0, 1}

MayRender == lock = {}

\* Glow::render, when it gets the lock: what becomes of the glow and of the window.
Rendered(g, alpha) ==
    IF alpha = 0 \/ suppressed
    THEN [g EXCEPT !.visible = FALSE, !.dark = g.dark \/ g.visible]
    ELSE [visible |-> TRUE, bitmap |-> TRUE, dark |-> FALSE]

OnScreen(alpha) ==
    IF glow.visible THEN shown /\ alpha = 1 /\ ~suppressed
    ELSE shown \/ (alpha = 1 /\ ~suppressed)

\* The bitmap goes after DIB_IDLE_TIMEOUT in the dark.
Freed(g, p) ==
    {g} \cup {h \in {[g EXCEPT !.bitmap = FALSE, !.dark = FALSE]} :
                p = "idle" /\ g.bitmap /\ g.dark /\ glow.dark}

Draw ==
    /\ loop = "drawing"
    /\ loop' = "waiting"
    /\ phase' \in Advanced
    /\ IF (phase' # "idle" \/ glow.visible) /\ MayRender
       THEN \E alpha \in Alphas(phase') :
            /\ glow' \in Freed(Rendered(glow, alpha), phase')
            /\ shown' = OnScreen(alpha)
       ELSE /\ glow' \in Freed(glow, phase')
            /\ UNCHANGED shown
    /\ UNCHANGED <<target, suppressed, lock, queue, barrier, capture, seen>>

\* An error of the bitmap or of the window ends the thread; the window goes with it.
DrawFails ==
    /\ loop = "drawing" /\ MayRender
    /\ loop' = "ended" /\ target' = FALSE /\ shown' = FALSE
    /\ UNCHANGED <<suppressed, lock, glow, phase, queue, barrier, capture, seen>>

-----------------------------------------------------------------------------
(* The captures: suppress_for_capture, and the guard's drop.                           *)

At(c, from) == capture[c].pc = from
To(c, pc) == capture' = [capture EXCEPT ![c].pc = pc]

Lock(c) ==
    /\ At(c, "idle") /\ lock = {} /\ seen.captures < MaxCaptures
    /\ seen' = [seen EXCEPT !.captures = @ + 1]
    /\ lock' = {c}
    /\ capture' = [capture EXCEPT ![c] = [pc |-> IF target THEN "locked" ELSE "capturing",
                                          target |-> target]]
    /\ UNCHANGED <<target, suppressed, windowVars, queue, barrier>>

Suppress(c) ==
    /\ At(c, "locked")
    /\ suppressed' = TRUE
    /\ barrier' = barrier \cup {c}
    /\ To(c, "sent")
    /\ UNCHANGED <<target, lock, windowVars, queue, seen>>

\* The message timed out, or its window is gone; it may still be handled later.
NotAcknowledged(c) ==
    /\ At(c, "sent")
    /\ seen' = [seen EXCEPT !.lost = @ + 1]
    /\ barrier' \in {barrier, barrier \ {c}}
    /\ To(c, "dropping")
    /\ UNCHANGED <<target, suppressed, lock, windowVars, queue>>

\* DwmFlush, which may fail, and then the capture itself.
Flush(c) ==
    /\ At(c, "hidden")
    /\ \E pc \in {"capturing", "dropping"} : To(c, pc)
    /\ UNCHANGED <<target, suppressed, lock, windowVars, queue, barrier, seen>>

\* A mistake to catch: the guard's lock goes before its flag.
CapturedUnlocks(c) ==
    /\ At(c, "capturing")
    /\ lock' = {}
    /\ To(c, "dropping")
    /\ UNCHANGED <<target, suppressed, windowVars, queue, barrier, seen>>

Captured(c) ==
    /\ At(c, "capturing")
    /\ To(c, "dropping")
    /\ UNCHANGED <<target, suppressed, lock, windowVars, queue, barrier, seen>>

Unsuppress(c) ==
    /\ At(c, "dropping")
    /\ suppressed' = FALSE
    /\ To(c, "posting")
    /\ UNCHANGED <<target, lock, windowVars, queue, barrier, seen>>

Notify(c) ==
    /\ At(c, "posting")
    /\ IF capture[c].target /\ target THEN Post("changed") ELSE UNCHANGED queue
    /\ To(c, "unlocking")
    /\ UNCHANGED <<target, suppressed, lock, windowVars, barrier, seen>>

Unlock(c) ==
    /\ At(c, "unlocking")
    /\ lock' = {}
    /\ To(c, "idle")
    /\ UNCHANGED <<target, suppressed, windowVars, queue, barrier, seen>>

CaptureStep(c) ==
    \/ Lock(c) \/ Suppress(c) \/ NotAcknowledged(c) \/ Flush(c) \/ Captured(c)
    \/ Unsuppress(c) \/ Notify(c) \/ Unlock(c)

Thread ==
    \/ StartUp \/ Wake \/ Handle \/ Drained \/ Draw \/ DrawFails \/ \E c \in Captures : Barrier(c)

Next == Pulse \/ DisplayChange \/ Thread \/ \E c \in Captures : CaptureStep(c)

Spec == Init /\ [][Next]_vars

-----------------------------------------------------------------------------
\* Nothing is on its way to the thread, and it sleeps until something is.
Parked ==
    /\ loop = "waiting" /\ phase = "idle" /\ queue = <<>> /\ barrier = {} /\ ~suppressed
    /\ \A c \in Captures : At(c, "idle")

(* A capture that found the glow has no glow in it, whatever the thread was doing.  And  *)
(* "Idle costs nothing" (run): when the fade is over and the thread sleeps for good the   *)
(* glow is off the screen and its bitmap given back; only a barrier that was not           *)
(* acknowledged may have left it on the screen, and only a capture may have kept the        *)
(* bitmap.  It sleeps for good unless there is a bitmap to free: else it wakes every         *)
(* millisecond, and only a change of the display in the dark may do that.                     *)
GlowIsTrue ==
    /\ \A c \in Captures : At(c, "capturing") /\ capture[c].target => ~shown
    /\ Parked /\ ~glow.dark => (shown => seen.lost > 0) /\ (glow.bitmap => seen.captures > 0)
    /\ Parked /\ glow.dark /\ ~glow.bitmap => seen.refits > 0

=============================================================================
