---------------------------- MODULE MCExecution ----------------------------
(* Two parts: the records of processes, and the buffer of the output of one; they      *)
(* share no state, so a behavior is one of a single part, chosen at the start.         *)
(* Processes: a job with standard input and a persistent terminal, room for one        *)
(* record, a checkpoint that may fail, and restarts of the host.                       *)
(* Output: five bytes of one stream, through a window of two.                          *)
EXTENDS Execution, OutputBounds

CONSTANTS j1, p1, c1, x, y

OwnerOfAll == [s \in Starts |-> c1]

VARIABLES part, buffer, saved, reading, cursor, sent, received

streaming == <<buffer, saved, reading, cursor, sent, received>>
all == <<part, vars, streaming>>

Output == INSTANCE OutputBuffer

AllInit == part \in {"processes", "output"} /\ Init /\ Output!Init

AllNext ==
    \/ part = "processes" /\ UNCHANGED <<part, streaming>> /\ Next
    \/ part = "output" /\ UNCHANGED <<part, vars>> /\ Output!Next

AllSpec == AllInit /\ [][AllNext]_all

(* The property of OutputBuffer, stated there. *)
ImplementsStream == Output!ImplementsStream
============================================================================
