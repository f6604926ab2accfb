----------------------------- MODULE MCDesktop -----------------------------
(* Two parts of one desktop; they share no state, so a behavior is one of a single     *)
(* part, chosen at the start.                                                          *)
(* Watches: one of a connection, and a wait for it, with room for one event.           *)
(* Glow: two captures, two pulses and a change of the display.                         *)
EXTENDS Observation

CONSTANTS w1, u1, c1,
          Captures, MaxCaptures, MaxPulses, MaxRefits

OwnerOf == [x \in Calls |-> c1]
TargetOf == [x \in Waits |-> w1]

VARIABLES
    part,
    target, suppressed, lock, shown, glow, phase, loop, posted, barrier, capture, counted

glowing ==
    <<target, suppressed, lock, shown, glow, phase, loop, posted, barrier, capture, counted>>
all == <<part, vars, glowing>>

Light == INSTANCE Overlay WITH queue <- posted, seen <- counted

ASSUME GlowAssumption == Light!OverlayAssumption

AllInit ==
    /\ part \in {"watches", "glow"}
    /\ Init /\ Light!Init

AllNext ==
    \/ part = "watches" /\ UNCHANGED <<part, glowing>> /\ Next
    \/ part = "glow" /\ UNCHANGED <<part, vars>> /\ Light!Next

AllSpec == AllInit /\ [][AllNext]_all

(* The property of Overlay, stated there. *)
GlowIsTrue == Light!GlowIsTrue
============================================================================
