------------------------------ MODULE MCTrees ------------------------------
(* Parts that follow what other programs do on their own; a behavior is one of a       *)
(* single part, chosen at the start.                                                   *)
(* Processes: a job with a deadline and a terminal, of a stdio server with room for    *)
(* both.                                                                               *)
(* Scarce: the same two with room for one record and two buffers; a thread may not be  *)
(* created and a tree may not be sampled.                                              *)
(* Windows: two handles and two windows for them, room for one in the tracker's table  *)
(* and for one reference, and two calls.                                               *)
EXTENDS Execution

CONSTANTS job1, term1, conn1,
          hw1, hw2, caller1, Hwnds, WindowCallers, MaxLives, MaxTracked, MaxRefs, MaxCalls, MaxEpoch, None

OwnerOfAll == [s \in Starts |-> conn1]

VARIABLES
    part,
    window, lives, hook, tracker, serving, call, refs, fresh, told, calls

tracking == <<window, lives, hook, tracker, serving, call, refs, fresh, told, calls>>
all == <<part, vars, tracking>>

Scarce == INSTANCE Execution WITH MaxRecords <- 1, MaxBudget <- 2, Faults <- {"spawn", "sample"}

Track == INSTANCE Windows WITH Callers <- WindowCallers

ASSUME TrackAssumption == Track!WindowsAssumption

AllInit == part \in {"processes", "scarce", "windows"} /\ Init /\ Track!Init

AllNext ==
    \/ part = "processes" /\ UNCHANGED <<part, tracking>> /\ Next
    \/ part = "scarce" /\ UNCHANGED <<part, tracking>> /\ Scarce!Next
    \/ part = "windows" /\ UNCHANGED <<part, vars>> /\ Track!Next

AllSpec == AllInit /\ [][AllNext]_all

(* The property of Windows, stated there. *)
WindowsAreTrue == Track!WindowsAreTrue
============================================================================
