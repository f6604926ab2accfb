----------------------------- MODULE MCRecords -----------------------------
(* Two parts that outlive the host in a checkpoint file; they share no state, so a      *)
(* behavior is one of a single part, chosen at the start.                               *)
(* Workflow: a persistent workflow of two actions.  Observation: a persistent watch     *)
(* and a persistent wait for any watch.  The host of each is lost and restarted once.   *)
EXTENDS Workflow, TLC

CONSTANTS p, a, u, c, AnyWatch

Plans == p :> <<[does |-> "action", goOn |-> TRUE], [does |-> "action", goOn |-> FALSE]>>
NoOwner == <<>>

VARIABLES
    part,
    o_call, o_store, o_waits, o_handles, o_canceled, o_finished, o_retired, o_provider,
    o_signal, o_task, o_seen, o_verdict, o_due, o_closed, o_swept, o_sweepStop,
    o_sweepCheck, o_broken, o_queue, o_writing, o_told, o_marking, o_worker, o_disk,
    o_down, o_downStop, o_lives, o_log, o_forgotten, o_reported

observing == <<o_call, o_store, o_waits, o_handles, o_canceled, o_finished, o_retired, o_provider,
      o_signal, o_task, o_seen, o_verdict, o_due, o_closed, o_swept, o_sweepStop,
      o_sweepCheck, o_broken, o_queue, o_writing, o_told, o_marking, o_worker, o_disk,
      o_down, o_downStop, o_lives, o_log, o_forgotten, o_reported>>
all == <<part, vars, observing>>

File == INSTANCE Observation WITH
    Watches <- {a}, Waits <- {u}, Owner <- (a :> c @@ u :> c), Conns <- {c},
    Persistent <- {a, u}, Target <- (u :> AnyWatch), MaxRecords <- 2, MaxActive <- 2,
    MaxRetained <- 1, MaxEvents <- 4, MaxIds <- 1, MaxCalls <- 1, MaxLives <- 2,
    call <- o_call, store <- o_store, waits <- o_waits, handles <- o_handles,
    canceled <- o_canceled, finished <- o_finished, retired <- o_retired,
    provider <- o_provider, signal <- o_signal, task <- o_task, seen <- o_seen,
    verdict <- o_verdict, due <- o_due, closed <- o_closed, swept <- o_swept,
    sweepStop <- o_sweepStop, sweepCheck <- o_sweepCheck, broken <- o_broken,
    queue <- o_queue, writing <- o_writing, told <- o_told, marking <- o_marking,
    worker <- o_worker, disk <- o_disk, down <- o_down, downStop <- o_downStop,
    lives <- o_lives, log <- o_log, forgotten <- o_forgotten, reported <- o_reported

ASSUME File!ObservationAssumption /\ File!NoRecordAssumption

AllInit ==
    /\ part \in {"workflow", "observation"}
    /\ Init /\ File!Init

AllNext ==
    \/ part = "workflow" /\ UNCHANGED <<part, observing>> /\ Next
    \/ part = "observation" /\ UNCHANGED <<part, vars>> /\ File!Next

AllSpec == AllInit /\ [][AllNext]_all

(* The property of Observation, stated there. *)
ReportedIsKept == File!ReportedIsKept
=============================================================================
