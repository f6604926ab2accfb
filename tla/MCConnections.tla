--------------------------- MODULE MCConnections ---------------------------
(* Two parts that end with the connection they belong to: the sessions of the       *)
(* debugger and workflows.  They share no state, so a behavior is one of a single   *)
(* part, chosen at the start.                                                       *)
(* Sessions: three, one persistent, of one connection, and room for one at a time.  *)
(* Workflows: two, under a limit of one record.                                     *)
EXTENDS DebugSessions, TLC

CONSTANTS a, b, c, p, q, r, NoRecord, NoSave

OwnerOf == [s \in Sessions |-> p]

\* q has an action and a wait, r a wait.
Wait == [does |-> "wait", goOn |-> FALSE]
Plans == q :> <<[does |-> "action", goOn |-> TRUE], Wait>> @@ r :> <<Wait>>

VARIABLES
    part,
    w_phase, w_at, w_res, w_had, w_scope, w_record, w_token, w_retired, w_changed,
    w_closed, w_swept, w_broken, w_queue, w_writing, w_told, w_marking, w_worker, w_disk,
    w_down, w_drained, w_lives, w_dispatched, w_answered, w_forgotten

flowing == <<w_phase, w_at, w_res, w_had, w_scope, w_record, w_token, w_retired, w_changed,
      w_closed, w_swept, w_broken, w_queue, w_writing, w_told, w_marking, w_worker,
      w_disk, w_down, w_drained, w_lives, w_dispatched, w_answered, w_forgotten>>
all == <<part, vars, flowing>>

Flow == INSTANCE Workflow WITH
    Flows <- {q, r}, Conns <- {p}, Owner <- (q :> p @@ r :> p), Persistent <- {},
    Plan <- Plans, MaxWorkflows <- 1, MaxActive <- 2, MaxLives <- 1,
    phase <- w_phase, at <- w_at, res <- w_res, had <- w_had, scope <- w_scope,
    record <- w_record, token <- w_token, retired <- w_retired, changed <- w_changed,
    closed <- w_closed, swept <- w_swept, broken <- w_broken, queue <- w_queue,
    writing <- w_writing, told <- w_told, marking <- w_marking, worker <- w_worker,
    disk <- w_disk, down <- w_down, drained <- w_drained, lives <- w_lives,
    dispatched <- w_dispatched, answered <- w_answered, forgotten <- w_forgotten

ASSUME Flow!WorkflowAssumption /\ Flow!NoRecordAssumption

AllInit ==
    /\ part \in {"sessions", "workflows"}
    /\ Init /\ Flow!Init

InSessions == part = "sessions" /\ UNCHANGED <<part, flowing>>
InFlow == part = "workflows" /\ UNCHANGED <<part, vars>>

AllNext ==
    \/ InSessions /\ Next
    \/ InFlow /\ Flow!Next

(* The fairness of each part. *)
AllSpec ==
    /\ AllInit /\ [][AllNext]_all
    /\ \A s \in Sessions : WF_all(InSessions /\ ActorStep(s))
    /\ \A w \in {q, r} : WF_all(InFlow /\ Flow!LoopStep(w))
                          /\ WF_all(InFlow /\ Flow!Interrupt(w))

(* The properties of Workflow, stated there. *)
RecordsFollowTasks == Flow!RecordsFollowTasks
WorkflowEnds == Flow!WorkflowEnds
=============================================================================
