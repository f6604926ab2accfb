----------------------------- MODULE Execution -----------------------------
(***************************************************************************)
(* The process manager of the server (src/src/execution.rs): owned jobs    *)
(* and terminals, from the reservation of a record to the last status,     *)
(* with connections closing, the manager shutting down, checkpoints being  *)
(* written and the host being killed and started again at any moment.      *)
(*                                                                         *)
(* A start is a call of ExecutionManager::start and, once it has created a *)
(* process, also the identifier of the entry and of its process tree.      *)
(* One action is one critical section of the code (registry lock, then     *)
(* data lock) or one step of the operating system.                         *)
(***************************************************************************)
EXTENDS Integers, FiniteSets

CONSTANTS
    Starts,       \* calls of start; a UUID is never used twice
    Conns,        \* connection UUIDs
    Owner,        \* [Starts -> Conns]: the connection that calls start
    Persistent,   \* the starts with lifetime persistent
    Terminals,    \* the starts of terminals (one stream, a pseudoconsole)
    WithStdin,    \* the jobs given initial standard input
    Timed,        \* the starts with timeout_ms
    Resident,     \* TRUE for a local host, FALSE for a stdio server
    MaxRecords,   \* MAX_RECORDS
    MaxBudget,    \* MAX_TOTAL_OUTPUT_BYTES, in stream buffers
    Faults,       \* the operating-system calls that may fail
    NoSave        \* "this caller has no snapshot in flight"

FaultKinds == {"create", "spawn", "resume", "kill", "sample", "read", "save"}

ASSUME ExecutionAssumption ==
    /\ IsFiniteSet(Starts)
    /\ Owner \in [Starts -> Conns]
    /\ Persistent \subseteq Starts
    /\ Terminals \subseteq Starts
    /\ WithStdin \subseteq Starts \ Terminals
    /\ Timed \subseteq Starts
    /\ Resident \in BOOLEAN
    /\ MaxRecords \in Nat
    /\ MaxBudget \in Nat
    /\ Faults \subseteq FaultKinds
    /\ {"host", "shutdown"} \cap Starts = {}

VARIABLES
    conns,      \* registry.connections and the state of their tokens
    closed,     \* registry.closed
    stopping,   \* the host_shutdown token
    entries,    \* the keys of registry.entries
    pending,    \* registry.pending
    budget,     \* registry.budget
    evicted,    \* the entries counted by registry.evicted
    clock,      \* now_ms(), one tick for each admission
    pc,         \* where each call of start is
    reqCancel,  \* the cancellation token of each start request
    rec,        \* ExecutionRecord of each entry
    job,        \* the native process tree and its pipes
    sup,        \* the supervise thread of each entry
    todo,       \* per connection, entries its shutdown has still to terminate
    down,       \* where ExecutionManager::shutdown is
    stopList,   \* the entries shutdown collected
    downTodo,   \* those of them it has still to terminate
    downFailed, \* a termination that shutdown itself tried has failed
    failures,   \* entries whose termination failed, as some caller was told
    wanted,     \* the host's timer or cancel is calling checkpoint
    saves,      \* the snapshots taken and not yet written
    disk,       \* execution.json
    ran         \* history: the persistent starts whose process was ever resumed

connVars  == <<conns, todo>>
poolVars  == <<entries, pending, budget, evicted, clock>>
downVars  == <<closed, stopping, down, stopList, downTodo, downFailed>>
saveVars  == <<wanted, saves, disk>>
vars == <<connVars, poolVars, downVars, saveVars, pc, reqCancel, rec, job, sup,
          failures, ran>>

Final == {"exited", "canceled", "timed_out", "failed", "interrupted_host_restart"}
Statuses == {"none", "starting", "running", "root_exited"} \cup Final

\* seen is the pair (root_exit_code, tree_active_processes) of the record; reason
\* is cancellation_reason, "none" while cancellation_requested is false.
Record == [status: Statuses, seen: {"live", "root_exited", "dead"},
           reason: {"none", "deadline_exceeded", "asked"},
           error: BOOLEAN, current: BOOLEAN, startedAt: Nat]

NoRecord == [status |-> "none", seen |-> "live", reason |-> "none",
             error |-> FALSE, current |-> TRUE, startedAt |-> 0]

Tree == [proc: {"none", "suspended", "running", "orphans", "dead"}, killed: BOOLEAN,
         out: {"unread", "open", "eof", "error"},
         stdin: {"pending", "writing", "done"}, ptyOpen: BOOLEAN]

NoTree == [proc |-> "none", killed |-> FALSE, out |-> "unread", stdin |-> "done",
           ptyOpen |-> FALSE]

Phases == {"idle", "reserved", "created", "admitted", "save", "ready", "failing",
           "resumed", "resave", "done", "failed", "gone"}

Callers == Starts \cup {"host", "shutdown"}
NoRecords == [s \in {} |-> NoRecord]

Init ==
    /\ conns = [c \in Conns |-> "unknown"]
    /\ todo = [c \in Conns |-> {}]
    /\ closed = FALSE /\ stopping = FALSE
    /\ entries = {} /\ pending = 0 /\ budget = 0 /\ evicted = {} /\ clock = 0
    /\ pc = [s \in Starts |-> "idle"]
    /\ reqCancel = [s \in Starts |-> FALSE]
    /\ rec = [s \in Starts |-> NoRecord]
    /\ job = [s \in Starts |-> NoTree]
    /\ sup = [s \in Starts |-> "none"]
    /\ down = "up" /\ stopList = {} /\ downTodo = {} /\ downFailed = FALSE
    /\ failures = {} /\ ran = {}
    /\ wanted = FALSE /\ saves = [c \in Callers |-> NoSave]
    /\ disk = [recs |-> NoRecords, evicted |-> {}]

----------------------------------------------------------------------------
(* Helpers.                                                                *)

ConnOpen(c) == ~closed /\ conns[c] = "open"

\* StartupCancellation::check fails: shutdown_connection and shutdown cancel the
\* connection's token, the client cancels the request's.
Canceled(s) == reqCancel[s] \/ conns[Owner[s]] = "closed"

\* A restored entry has no native process: its start belongs to an earlier host.
Native(s) == pc[s] # "gone"

Finished(s) == rec[s].status \in Final

\* The entry's tree is known to be dead, so terminate and eviction need do nothing more.
Settled(s) == Finished(s) /\ rec[s].seen = "dead"

\* Entry::terminate: under the data lock, kill the tree and keep the first reason.
Terminate(s, why) ==
    IF Settled(s)
    THEN UNCHANGED <<rec, job>>
    ELSE /\ job' = [job EXCEPT ![s].killed = TRUE]
         /\ rec' = [rec EXCEPT ![s].reason = IF @ = "none" THEN why ELSE @]

TerminateFails(s) ==
    "kill" \in Faults /\ ~Settled(s) /\ UNCHANGED <<rec, job>>

----------------------------------------------------------------------------
(* Connections.                                                            *)

RegisterConnection(c) ==
    /\ ~closed
    /\ conns[c] = "unknown"
    /\ conns' = [conns EXCEPT ![c] = "open"]
    /\ UNCHANGED <<todo, poolVars, downVars, saveVars, pc, reqCancel, rec, job, sup,
                   failures, ran>>

\* Seeded fault: a closing connection collects only the entries that are running.
CloseOnlyRunning(c) ==
    /\ conns[c] = "open"
    /\ conns' = [conns EXCEPT ![c] = "closed"]
    /\ todo' = [todo EXCEPT ![c] = {s \in entries : rec[s].status = "running" /\ Owner[s] = c}]
    /\ UNCHANGED <<poolVars, downVars, saveVars, pc, reqCancel, rec, job, sup,
                   failures, ran>>

\* shutdown_connection under the registry lock: cancel the token, collect the entries.
CloseConnection(c) ==
    /\ conns[c] = "open"
    /\ conns' = [conns EXCEPT ![c] = "closed"]
    /\ todo' = [todo EXCEPT ![c] = {s \in entries : s \notin Persistent /\ Owner[s] = c}]
    /\ UNCHANGED <<poolVars, downVars, saveVars, pc, reqCancel, rec, job, sup,
                   failures, ran>>

\* shutdown_connection after the lock: one entry at a time, errors are collected.
CloseTerminate(c, s) ==
    /\ s \in todo[c]
    /\ todo' = [todo EXCEPT ![c] = @ \ {s}]
    /\ \/ Terminate(s, "asked") /\ UNCHANGED failures
       \/ TerminateFails(s) /\ failures' = failures \cup {s}
    /\ UNCHANGED <<conns, poolVars, downVars, saveVars, pc, reqCancel, sup, ran>>

CancelRequest(s) ==
    /\ ~reqCancel[s]
    /\ pc[s] \notin {"idle", "done", "failed", "gone"}
    /\ reqCancel' = [reqCancel EXCEPT ![s] = TRUE]
    /\ UNCHANGED <<connVars, poolVars, downVars, saveVars, pc, rec, job, sup,
                   failures, ran>>

----------------------------------------------------------------------------
(* start: reservation, creation, admission.                                *)

\* Seeded fault: a record is evicted as soon as its root has exited.
EvictableOnRootExit == {s \in entries : rec[s].status \in Final \cup {"root_exited"}}

Evictable == {s \in entries : Finished(s) /\ (Native(s) => rec[s].seen = "dead")}

\* Output budget of a set of starts: a buffer for each stream, one or two.
Weight(S) == Cardinality(S) + Cardinality(S \ Terminals)

FitsWithout(s, gone) ==
    /\ Cardinality(entries \ gone) + pending < MaxRecords
    /\ budget - Weight(gone) + Weight({s}) <= MaxBudget

\* The loop of reserve removes the oldest finished entry until the new one fits or
\* none is left: a prefix of the evictable entries by age, the shortest that makes room.
OldestFirst(gone) ==
    \A x \in gone, y \in Evictable \ gone : rec[x].startedAt <= rec[y].startedAt

IsEviction(s, gone) ==
    /\ OldestFirst(gone)
    /\ FitsWithout(s, gone) \/ gone = Evictable
    /\ \A fewer \in SUBSET gone :
          fewer # gone /\ OldestFirst(fewer) => ~FitsWithout(s, fewer)

\* start up to reserve: entries evicted for a start that then finds no room stay evicted.
StartReserve(s) ==
    /\ pc[s] = "idle"
    /\ ~Canceled(s) /\ ConnOpen(Owner[s])
    /\ s \in Persistent => Resident
    /\ \E gone \in SUBSET Evictable :
          /\ IsEviction(s, gone)
          /\ entries' = entries \ gone
          /\ evicted' = evicted \cup gone
          /\ IF FitsWithout(s, gone)
             THEN /\ pending' = pending + 1
                  /\ budget' = budget - Weight(gone) + Weight({s})
                  /\ pc' = [pc EXCEPT ![s] = "reserved"]
             ELSE /\ budget' = budget - Weight(gone)
                  /\ pc' = [pc EXCEPT ![s] = "failed"]
                  /\ UNCHANGED pending
    /\ UNCHANGED <<connVars, clock, downVars, saveVars, reqCancel, rec, job, sup,
                   failures, ran>>

\* native::create: a suspended process, already inside its own job object. A process that
\* cannot be assigned to the job is terminated before create returns its error.
StartCreate(s) ==
    /\ pc[s] = "reserved"
    /\ ~Canceled(s)
    /\ pc' = [pc EXCEPT ![s] = "created"]
    /\ job' = [job EXCEPT ![s] = [NoTree EXCEPT !.proc = "suspended",
                 !.stdin = IF s \in WithStdin THEN "pending" ELSE "done",
                 !.ptyOpen = s \in Terminals]]
    /\ UNCHANGED <<connVars, poolVars, downVars, saveVars, reqCancel, rec, sup,
                   failures, ran>>

\* Seeded fault: the dropped reservation gives back its slot only.
AbandonKeepsBudget(s) ==
    /\ \/ pc[s] = "reserved" /\ (Canceled(s) \/ "create" \in Faults)
       \/ pc[s] = "created" /\ (Canceled(s) \/ ~ConnOpen(Owner[s]))
    /\ pc' = [pc EXCEPT ![s] = "failed"]
    /\ pending' = pending - 1
    /\ job' = [job EXCEPT ![s].killed = TRUE]
    /\ UNCHANGED <<connVars, entries, budget, evicted, clock, downVars, saveVars,
                   reqCancel, rec, sup, failures, ran>>

\* An error before admission: CreatedProcess is dropped and terminates the suspended
\* tree, then Reservation is dropped and gives its slot and its budget back.
StartAbandon(s) ==
    /\ \/ pc[s] = "reserved" /\ (Canceled(s) \/ "create" \in Faults)
       \/ pc[s] = "created" /\ (Canceled(s) \/ ~ConnOpen(Owner[s]))
    /\ pc' = [pc EXCEPT ![s] = "failed"]
    /\ pending' = pending - 1
    /\ budget' = budget - Weight({s})
    /\ job' = IF pc[s] = "reserved" THEN job
              ELSE [job EXCEPT ![s] = [@ EXCEPT !.killed = TRUE, !.ptyOpen = FALSE]]
    /\ UNCHANGED <<connVars, entries, evicted, clock, downVars, saveVars, reqCancel,
                   rec, sup, failures, ran>>

\* The registry section of start that inserts the entry and commits the reservation.
StartAdmit(s) ==
    /\ pc[s] = "created"
    /\ ~Canceled(s) /\ ConnOpen(Owner[s])
    /\ entries' = entries \cup {s}
    /\ pending' = pending - 1
    /\ clock' = clock + 1
    /\ rec' = [rec EXCEPT ![s] = [NoRecord EXCEPT !.status = "starting", !.startedAt = clock]]
    /\ pc' = [pc EXCEPT ![s] = "admitted"]
    /\ UNCHANGED <<connVars, budget, evicted, downVars, saveVars, reqCancel, job, sup,
                   failures, ran>>

\* Seeded fault: no checkpoint before the resume.
SpawnWithoutCheckpoint(s) ==
    /\ pc[s] = "admitted"
    /\ sup' = [sup EXCEPT ![s] = "live"]
    /\ job' = [job EXCEPT ![s].out = "open"]
    /\ pc' = [pc EXCEPT ![s] = "ready"]
    /\ UNCHANGED <<connVars, poolVars, downVars, saveVars, reqCancel, rec,
                   failures, ran>>

\* The supervisor, the output readers and the stdin writer get their threads.
StartSpawn(s) ==
    /\ pc[s] = "admitted"
    /\ sup' = [sup EXCEPT ![s] = "live"]
    /\ job' = [job EXCEPT ![s] = [@ EXCEPT !.out = "open", !.stdin =
                 IF job[s].stdin = "pending" THEN "writing" ELSE job[s].stdin]]
    /\ pc' = [pc EXCEPT ![s] = IF s \in Persistent THEN "save" ELSE "ready"]
    /\ UNCHANGED <<connVars, poolVars, downVars, saveVars, reqCancel, rec,
                   failures, ran>>

\* A thread cannot be started: the supervisor, or a later one.
StartSpawnFails(s) ==
    /\ pc[s] = "admitted"
    /\ "spawn" \in Faults
    /\ sup' \in {sup, [sup EXCEPT ![s] = "live"]}
    /\ pc' = [pc EXCEPT ![s] = "failing"]
    /\ UNCHANGED <<connVars, poolVars, downVars, saveVars, reqCancel, rec, job,
                   failures, ran>>

\* What the last section before ResumeThread requires. A persistent start whose client
\* disconnected after admission no longer depends on that client.
MayResume(s) ==
    /\ ~closed /\ ~stopping
    /\ s \in Persistent \/ ConnOpen(Owner[s])
    /\ rec[s].status = "starting" /\ rec[s].reason = "none"
    /\ IF s \in Persistent
       THEN conns[Owner[s]] = "closed" \/ ~reqCancel[s]
       ELSE ~Canceled(s)

StartResume(s) ==
    /\ pc[s] = "ready"
    /\ MayResume(s)
    /\ job' = [job EXCEPT ![s].proc = IF @ = "suspended" THEN "running" ELSE @]
    /\ rec' = [rec EXCEPT ![s].status = "running"]
    /\ ran' = ran \cup ({s} \cap Persistent)
    /\ pc' = [pc EXCEPT ![s] = IF s \in Persistent THEN "resave" ELSE "resumed"]
    /\ UNCHANGED <<connVars, poolVars, downVars, saveVars, reqCancel, sup, failures>>

StartRefuse(s) ==
    /\ pc[s] = "ready"
    /\ ~MayResume(s) \/ "resume" \in Faults
    /\ pc' = [pc EXCEPT ![s] = "failing"]
    /\ UNCHANGED <<connVars, poolVars, downVars, saveVars, reqCancel, rec, job, sup,
                   failures, ran>>

\* The error arm of prepare. The error is recorded and the pipes nobody serves are
\* closed, the tree is terminated, and without a supervisor thread start supervises
\* the entry itself; if the termination fails start returns before that.
CloseUnserved(s, killed) ==
    job' = [job EXCEPT ![s] = [@ EXCEPT !.killed = killed, !.ptyOpen = FALSE,
              !.out = IF job[s].out = "unread" THEN "error" ELSE job[s].out,
              !.stdin = IF job[s].stdin = "pending" THEN "done" ELSE job[s].stdin]]

\* Seeded fault: nobody supervises an entry whose supervisor could not be started.
CleanupUnsupervised(s) ==
    /\ pc[s] = "failing"
    /\ pc' = [pc EXCEPT ![s] = "failed"]
    /\ CloseUnserved(s, TRUE)
    /\ rec' = [rec EXCEPT ![s].error = TRUE]
    /\ UNCHANGED <<connVars, poolVars, downVars, saveVars, reqCancel, sup, failures, ran>>

StartCleanup(s) ==
    /\ pc[s] = "failing"
    /\ pc' = [pc EXCEPT ![s] = "failed"]
    /\ \/ /\ ~Settled(s)
          /\ CloseUnserved(s, TRUE)
          /\ rec' = [rec EXCEPT ![s] = [@ EXCEPT !.error = TRUE, !.reason =
                       IF rec[s].reason = "none" THEN "asked" ELSE rec[s].reason]]
          /\ sup' = [sup EXCEPT ![s] = IF @ = "none" THEN "live" ELSE @]
          /\ UNCHANGED failures
       \/ /\ ~Settled(s) /\ "kill" \in Faults
          /\ \E killed \in {job[s].killed, TRUE} : CloseUnserved(s, killed)
          /\ rec' = [rec EXCEPT ![s].error = TRUE]
          /\ failures' = failures \cup {s}
          /\ UNCHANGED sup
       \/ /\ Settled(s)
          /\ CloseUnserved(s, job[s].killed)
          /\ rec' = [rec EXCEPT ![s].error = TRUE]
          /\ UNCHANGED <<sup, failures>>
    /\ UNCHANGED <<connVars, poolVars, downVars, saveVars, reqCancel, ran>>

\* After the resume of a connection's process: a cancellation that came too late to
\* refuse the resume terminates the tree.
StartFinish(s) ==
    /\ pc[s] = "resumed"
    /\ IF reqCancel[s]
       THEN /\ pc' = [pc EXCEPT ![s] = "failed"]
            /\ \/ Terminate(s, "asked") /\ UNCHANGED failures
               \/ TerminateFails(s) /\ failures' = failures \cup {s}
       ELSE pc' = [pc EXCEPT ![s] = "done"] /\ UNCHANGED <<rec, job, failures>>
    /\ UNCHANGED <<connVars, poolVars, downVars, saveVars, reqCancel, sup, ran>>

\* job_cancel and terminal_close: a persistent entry is then checkpointed.
Cancel(c, s) ==
    /\ ConnOpen(c)
    /\ s \in entries /\ Native(s)
    /\ s \in Persistent \/ Owner[s] = c
    /\ \/ /\ Terminate(s, "asked")
          /\ wanted' = (wanted \/ s \in Persistent)
          /\ UNCHANGED failures
       \/ TerminateFails(s) /\ failures' = failures \cup {s} /\ UNCHANGED wanted
    /\ UNCHANGED <<connVars, poolVars, downVars, saves, disk, pc, reqCancel, sup, ran>>

----------------------------------------------------------------------------
(* The operating system: process trees and pipes.                          *)

\* The root, then its descendants, leave by themselves.
TreeExits(s) ==
    /\ \/ job[s].proc = "running" /\ \E p \in {"orphans", "dead"} :
             job' = [job EXCEPT ![s].proc = p]
       \/ job[s].proc = "orphans" /\ job' = [job EXCEPT ![s].proc = "dead"]
    /\ UNCHANGED <<connVars, poolVars, downVars, saveVars, pc, reqCancel, rec, sup,
                   failures, ran>>

\* TerminateJobObject takes effect on the whole tree.
TreeKilled(s) ==
    /\ job[s].killed
    /\ job[s].proc \in {"suspended", "running", "orphans"}
    /\ job' = [job EXCEPT ![s].proc = "dead"]
    /\ UNCHANGED <<connVars, poolVars, downVars, saveVars, pc, reqCancel, rec, sup,
                   failures, ran>>

\* A reader sees the end of its pipe once no process holds it: for a terminal, once the
\* pseudoconsole is closed too.
ReaderEnds(s) ==
    /\ job[s].out = "open"
    /\ \/ /\ job[s].proc = "dead" /\ ~job[s].ptyOpen
          /\ job' = [job EXCEPT ![s].out = "eof"]
          /\ UNCHANGED rec
       \/ /\ "read" \in Faults
          /\ job' = [job EXCEPT ![s].out = "error"]
          /\ rec' = [rec EXCEPT ![s].error = TRUE]
    /\ UNCHANGED <<connVars, poolVars, downVars, saveVars, pc, reqCancel, sup,
                   failures, ran>>

\* The stdin writer ends when the child has read everything or is gone.
WriterEnds(s) ==
    /\ job[s].stdin = "writing"
    /\ job[s].proc # "suspended"
    /\ job' = [job EXCEPT ![s].stdin = "done"]
    /\ rec' \in {rec} \cup
         (IF job[s].proc = "dead" THEN {[rec EXCEPT ![s].error = TRUE]} ELSE {})
    /\ UNCHANGED <<connVars, poolVars, downVars, saveVars, pc, reqCancel, sup,
                   failures, ran>>

----------------------------------------------------------------------------
(* supervise: one pass of its loop is one of these actions.                *)

Sampled(s) == CASE job[s].proc = "dead"    -> "dead"
                [] job[s].proc = "orphans" -> "root_exited"
                [] OTHER                   -> "live"

PipesClosed(s) == job[s].out \in {"eof", "error"} /\ job[s].stdin = "done"

LastStatus(s) ==
    IF rec[s].error THEN "failed"
    ELSE CASE rec[s].reason = "deadline_exceeded"  -> "timed_out"
           [] rec[s].reason = "asked"              -> "canceled"
           [] rec[s].reason = "none"               -> "exited"

\* The tree is empty: the pseudoconsole is closed so that its output can drain.
SuperviseClosePty(s) ==
    /\ sup[s] = "live"
    /\ job[s].proc = "dead" /\ job[s].ptyOpen
    /\ job' = [job EXCEPT ![s].ptyOpen = FALSE]
    /\ rec' = [rec EXCEPT ![s].seen = "dead"]
    /\ UNCHANGED <<connVars, poolVars, downVars, saveVars, pc, reqCancel, sup,
                   failures, ran>>

\* Seeded fault: the record is finished before its output is drained.
FinishUndrained(s) ==
    /\ sup[s] = "live"
    /\ job[s].proc = "dead" /\ ~job[s].ptyOpen
    /\ rec' = [rec EXCEPT ![s] = [@ EXCEPT !.seen = "dead", !.status = LastStatus(s)]]
    /\ sup' = [sup EXCEPT ![s] = "ended"]
    /\ UNCHANGED <<connVars, poolVars, downVars, saveVars, pc, reqCancel, job,
                   failures, ran>>

SuperviseFinish(s) ==
    /\ sup[s] = "live"
    /\ job[s].proc = "dead" /\ ~job[s].ptyOpen /\ PipesClosed(s)
    /\ rec' = [rec EXCEPT ![s] = [@ EXCEPT !.seen = "dead", !.status = LastStatus(s)]]
    /\ sup' = [sup EXCEPT ![s] = "ended"]
    /\ UNCHANGED <<connVars, poolVars, downVars, saveVars, pc, reqCancel, job,
                   failures, ran>>

\* The pass of a supervisor that stays. It also looks whether the deadline has passed
\* while nobody has asked for a termination; it acts on that without the data lock.
SuperviseObserve(s) ==
    /\ sup[s] = "live"
    /\ ~(job[s].proc = "dead" /\ (job[s].ptyOpen \/ PipesClosed(s)))
    /\ rec' = [rec EXCEPT ![s] = [@ EXCEPT !.seen = Sampled(s), !.status =
                 IF Sampled(s) = "live" THEN rec[s].status ELSE "root_exited"]]
    /\ \/ UNCHANGED sup
       \/ /\ s \in Timed /\ rec[s].reason = "none"
          /\ sup' = [sup EXCEPT ![s] = "late"]
    /\ UNCHANGED <<connVars, poolVars, downVars, saveVars, pc, reqCancel, job,
                   failures, ran>>

\* Seeded fault: the deadline replaces the reason of whoever asked in the meantime.
DeadlineReplaces(s) ==
    /\ sup[s] = "late"
    /\ sup' = [sup EXCEPT ![s] = "live"]
    /\ ~Settled(s)
    /\ job' = [job EXCEPT ![s].killed = TRUE]
    /\ rec' = [rec EXCEPT ![s].reason = "deadline_exceeded"]
    /\ UNCHANGED <<connVars, poolVars, downVars, saveVars, pc, reqCancel, failures, ran>>

\* The deadline cleanup: by now the tree may be dead, or terminated for another reason.
SuperviseDeadline(s) ==
    /\ sup[s] = "late"
    /\ sup' = [sup EXCEPT ![s] = "live"]
    /\ \/ Terminate(s, "deadline_exceeded")
       \/ /\ "kill" \in Faults /\ ~Settled(s)
          /\ rec' = [rec EXCEPT ![s].error = TRUE]
          /\ UNCHANGED job
    /\ UNCHANGED <<connVars, poolVars, downVars, saveVars, pc, reqCancel, failures, ran>>

\* The tree cannot be observed: the record fails and the tree is terminated, or the
\* failure to terminate it is only logged.
SuperviseFails(s) ==
    /\ sup[s] = "live"
    /\ "sample" \in Faults
    /\ rec' = [rec EXCEPT ![s] = [@ EXCEPT !.error = TRUE, !.status = "failed",
                                           !.current = FALSE]]
    /\ \E killed \in {TRUE} \cup IF "kill" \in Faults THEN {job[s].killed} ELSE {} :
          job' = [job EXCEPT ![s] = [@ EXCEPT !.killed = killed, !.ptyOpen = FALSE]]
    /\ sup' = [sup EXCEPT ![s] = "ended"]
    /\ UNCHANGED <<connVars, poolVars, downVars, saveVars, pc, reqCancel, failures, ran>>

----------------------------------------------------------------------------
(* checkpoint: the callers are a start, the host's timer, cancel and        *)
(* shutdown.                                                                *)

Calling(c) ==
    CASE c \in Starts    -> pc[c] \in {"save", "resave"}
      [] c = "shutdown"  -> down = "save"
      [] OTHER           -> wanted

CheckpointLockFree == \A c \in Callers : saves[c] = NoSave

\* Of a saved record, what restore looks at: a status that is not final is only "live".
SavedEntry(s) == [status |-> IF Finished(s) THEN rec[s].status ELSE "live",
                  startedAt |-> rec[s].startedAt]

Tick ==
    /\ Resident
    /\ ~wanted
    /\ wanted' = TRUE
    /\ UNCHANGED <<connVars, poolVars, downVars, saves, disk, pc, reqCancel, rec, job,
                   sup, failures, ran>>

\* Seeded fault: the snapshot is taken outside checkpoint_lock.
SnapshotUnlocked(c) ==
    /\ Calling(c)
    /\ saves[c] = NoSave
    /\ saves' = [saves EXCEPT ![c] =
                   [recs |-> [s \in entries \cap Persistent |-> SavedEntry(s)],
                    evicted |-> evicted]]
    /\ UNCHANGED <<connVars, poolVars, downVars, wanted, disk, pc, reqCancel, rec, job,
                   sup, failures, ran>>

\* Under checkpoint_lock, the registry lock and each data lock: copy the records.
SaveSnapshot(c) ==
    /\ Calling(c)
    /\ CheckpointLockFree
    /\ saves' = [saves EXCEPT ![c] =
                   [recs |-> [s \in entries \cap Persistent |-> SavedEntry(s)],
                    evicted |-> evicted]]
    /\ UNCHANGED <<connVars, poolVars, downVars, wanted, disk, pc, reqCancel, rec, job,
                   sup, failures, ran>>

\* What the caller does next, with or without its checkpoint.
SaveReturns(c, ok) ==
    /\ pc' = CASE c \notin Starts    -> pc
               [] pc[c] = "save"     -> [pc EXCEPT ![c] = IF ok THEN "ready" ELSE "failing"]
               [] OTHER              -> [pc EXCEPT ![c] = IF ok THEN "done" ELSE "failed"]
    /\ down' = IF c = "shutdown"
                THEN IF ok /\ stopList = {} /\ ~downFailed THEN "ok" ELSE "error"
                ELSE down
    /\ wanted' = (wanted /\ c # "host")

\* The file is replaced as a whole, or left as it was.
SaveEnds(c) ==
    /\ saves[c] # NoSave
    /\ saves' = [saves EXCEPT ![c] = NoSave]
    /\ \/ disk' = saves[c] /\ SaveReturns(c, TRUE)
       \/ "save" \in Faults /\ UNCHANGED disk /\ SaveReturns(c, FALSE)
    /\ UNCHANGED <<connVars, poolVars, closed, stopping, stopList, downTodo, downFailed,
                   reqCancel, rec, job, sup, failures, ran>>

----------------------------------------------------------------------------
(* Shutdown, loss of the host process, restart.                            *)

RequestHostShutdown ==
    /\ Resident /\ ~stopping
    /\ stopping' = TRUE
    /\ UNCHANGED <<connVars, poolVars, closed, down, stopList, downTodo, downFailed, saveVars,
                   pc, reqCancel, rec, job, sup, failures, ran>>

ShutdownBegin ==
    /\ down = "up"
    /\ down' = "stopping"
    /\ closed' = TRUE
    /\ conns' = [c \in Conns |-> IF conns[c] = "open" THEN "closed" ELSE conns[c]]
    /\ stopList' = {s \in entries : Native(s)}
    /\ downTodo' = stopList'
    /\ UNCHANGED <<todo, poolVars, stopping, downFailed, saveVars, pc, reqCancel, rec, job,
                   sup, failures, ran>>

ShutdownTerminate(s) ==
    /\ down = "stopping"
    /\ s \in downTodo
    /\ downTodo' = downTodo \ {s}
    /\ \/ Terminate(s, "asked") /\ UNCHANGED <<failures, downFailed>>
       \/ TerminateFails(s) /\ failures' = failures \cup {s} /\ downFailed' = TRUE
    /\ UNCHANGED <<connVars, poolVars, closed, stopping, down, stopList, saveVars, pc,
                   reqCancel, sup, ran>>

\* Seeded fault: the drain waits for the trees but not for the records.
DrainTreesOnly(s) ==
    /\ down = "stopping" /\ downTodo = {}
    /\ s \in stopList
    /\ job[s].proc = "dead"
    /\ stopList' = stopList \ {s}
    /\ UNCHANGED <<connVars, poolVars, closed, stopping, down, downTodo, downFailed,
                   saveVars, pc, reqCancel, rec, job, sup, failures, ran>>

\* The loop that samples every tree has seen this one dead and its record finished.
ShutdownDrained(s) ==
    /\ down = "stopping" /\ downTodo = {}
    /\ s \in stopList
    /\ job[s].proc = "dead" /\ Finished(s)
    /\ stopList' = stopList \ {s}
    /\ UNCHANGED <<connVars, poolVars, closed, stopping, down, downTodo, downFailed,
                   saveVars, pc, reqCancel, rec, job, sup, failures, ran>>

\* Everything has drained, or ten seconds are over (stopList is what did not drain).
ShutdownSave ==
    /\ down = "stopping" /\ downTodo = {}
    /\ down' = IF Resident THEN "save"
               ELSE IF stopList = {} /\ ~downFailed THEN "ok" ELSE "error"
    /\ UNCHANGED <<connVars, poolVars, closed, stopping, stopList, downTodo, downFailed,
                   saveVars, pc, reqCancel, rec, job, sup, failures, ran>>

\* What the next host makes of a saved record.
Restored(saved) ==
    [NoRecord EXCEPT
        !.status = IF saved.status \in Final THEN saved.status ELSE "interrupted_host_restart",
        !.current = FALSE,
        !.startedAt = saved.startedAt]

\* The host process ends, gently or not: every job object closes with it and kills its
\* tree. The next host reads the checkpoint (restore).
HostRestart ==
    /\ LET kept == DOMAIN disk.recs IN
       /\ entries' = kept
       /\ evicted' = disk.evicted
       /\ budget' = Weight(kept)
       /\ rec' = [s \in Starts |-> IF s \in kept THEN Restored(disk.recs[s]) ELSE NoRecord]
    /\ pending' = 0
    /\ pc' = [s \in Starts |-> IF pc[s] = "idle" THEN "idle" ELSE "gone"]
    /\ conns' = [c \in Conns |-> IF conns[c] = "unknown" THEN "unknown" ELSE "closed"]
    /\ todo' = [c \in Conns |-> {}]
    /\ job' = [s \in Starts |-> NoTree]
    /\ sup' = [s \in Starts |-> "none"]
    /\ closed' = FALSE /\ stopping' = FALSE
    /\ down' = "up" /\ stopList' = {} /\ downTodo' = {} /\ downFailed' = FALSE
    /\ reqCancel' = [s \in Starts |-> FALSE]
    /\ failures' = {}
    /\ wanted' = FALSE /\ saves' = [c \in Callers |-> NoSave]
    /\ UNCHANGED <<clock, disk, ran>>

----------------------------------------------------------------------------
StartStep(s) ==
    \/ StartReserve(s) \/ StartCreate(s) \/ StartAbandon(s) \/ StartAdmit(s)
    \/ StartSpawn(s) \/ StartSpawnFails(s) \/ StartResume(s) \/ StartRefuse(s)
    \/ StartCleanup(s) \/ StartFinish(s)

SuperviseStep(s) ==
    \/ SuperviseClosePty(s) \/ SuperviseFinish(s) \/ SuperviseObserve(s)
    \/ SuperviseDeadline(s) \/ SuperviseFails(s)

SystemStep(s) == TreeExits(s) \/ TreeKilled(s) \/ ReaderEnds(s) \/ WriterEnds(s)

Next ==
    \/ \E c \in Conns : RegisterConnection(c) \/ CloseConnection(c)
    \/ \E c \in Conns, s \in Starts : CloseTerminate(c, s) \/ Cancel(c, s)
    \/ \E s \in Starts : \/ StartStep(s) \/ CancelRequest(s)
                         \/ SuperviseStep(s) \/ SystemStep(s)
                         \/ ShutdownTerminate(s) \/ ShutdownDrained(s)
    \/ \E c \in Callers : SaveSnapshot(c) \/ SaveEnds(c)
    \/ Tick \/ RequestHostShutdown \/ ShutdownBegin \/ ShutdownSave
    \/ HostRestart

Spec == Init /\ [][Next]_vars

\* Threads that are runnable run: each start, each supervisor, each reader and writer,
\* the threads that close connections and shut down; a lock that is released again and
\* again is acquired at last; Windows completes TerminateJobObject.
Fairness ==
    /\ \A s \in Starts :
          /\ WF_vars(StartStep(s) /\ pc[s] # "idle")
          /\ WF_vars(SuperviseClosePty(s) \/ SuperviseFinish(s))
          /\ WF_vars(SuperviseDeadline(s))
          /\ WF_vars(TreeKilled(s))
          /\ WF_vars(ReaderEnds(s) /\ job[s].proc = "dead")
          /\ WF_vars(WriterEnds(s))
          /\ WF_vars(ShutdownTerminate(s))
          /\ \A c \in Conns : WF_vars(CloseTerminate(c, s))
    /\ \A c \in Callers : SF_vars(SaveSnapshot(c)) /\ WF_vars(SaveEnds(c))
    /\ WF_vars(ShutdownSave)

LiveSpec == Spec /\ Fairness

----------------------------------------------------------------------------
(* Properties.                                                             *)

Reserved == {s \in Starts : pc[s] \in {"reserved", "created"}}
Alive(s) == job[s].proc \in {"running", "orphans"}

IsSnapshot(x) ==
    /\ x = [recs |-> x.recs, evicted |-> x.evicted]
    /\ DOMAIN x.recs \subseteq Persistent
    /\ x.recs = [s \in DOMAIN x.recs |-> x.recs[s]]
    /\ \A s \in DOMAIN x.recs : x.recs[s] \in [status: {"live"} \cup Final, startedAt: Nat]
    /\ x.evicted \subseteq Starts

ManagerTypes ==
    /\ conns \in [Conns -> {"unknown", "open", "closed"}]
    /\ todo \in [Conns -> SUBSET Starts]
    /\ closed \in BOOLEAN /\ stopping \in BOOLEAN /\ downFailed \in BOOLEAN
    /\ entries \subseteq Starts /\ evicted \subseteq Starts
    /\ pending \in Int /\ budget \in Int /\ clock \in Nat
    /\ down \in {"up", "stopping", "save", "ok", "error"}
    /\ stopList \subseteq Starts /\ downTodo \subseteq Starts
    /\ failures \subseteq Starts /\ ran \subseteq Persistent
    /\ wanted \in BOOLEAN

StartTypes ==
    /\ pc \in [Starts -> Phases]
    /\ reqCancel \in [Starts -> BOOLEAN]
    /\ rec \in [Starts -> Record]
    /\ job \in [Starts -> Tree]
    /\ sup \in [Starts -> {"none", "live", "late", "ended"}]

SnapshotTypes ==
    /\ DOMAIN saves = Callers
    /\ \A c \in Callers : saves[c] = NoSave \/ IsSnapshot(saves[c])
    /\ IsSnapshot(disk)

TypeOK == ManagerTypes /\ StartTypes /\ SnapshotTypes

\* A tree that runs is one somebody may still let run: its connection is open, or for a
\* persistent one the manager is, unless its termination has been issued, is on the list
\* of the connection close or shutdown under way, or has failed and been reported. Between
\* them, start, shutdown_connection and shutdown leave no process behind that outlives its
\* owner, whatever the point of startup at which the owner goes.
NoOrphanTree ==
    \A s \in Starts :
        Alive(s) => \/ IF s \in Persistent THEN ~closed ELSE ConnOpen(Owner[s])
                    \/ job[s].killed
                    \/ s \in todo[Owner[s]] \cup downTodo \cup failures

\* Every persistent process that ever ran an instruction is in execution.json or among
\* the records it counts as evicted, at every moment at which the host can be lost
\* ("Record the identity before any child instruction can run", execution.rs).
RanIsAccountedOnDisk ==
    \A s \in ran : s \in DOMAIN disk.recs \cup disk.evicted

\* The counters that admit new starts are exactly the reservations and entries there are:
\* every way out of start gives back what it took, once. And records and reserved output
\* stay within their limits, restored records included.
ReservationsAreExact ==
    /\ pending = Cardinality(Reserved)
    /\ budget = Weight(entries) + Weight(Reserved)
    /\ Cardinality(entries) + pending <= MaxRecords
    /\ budget <= MaxBudget

\* An evicted record, which nobody can list or cancel any more, has no live tree.
EvictedTreesAreDead ==
    \A s \in evicted : job[s].proc \in {"none", "dead"}

\* A record that reports the present state of its process and has ended ended with the
\* tree empty and all output read; only a record nobody asked to stop has "exited".
RecordTellsTruth ==
    \A s \in entries :
        Finished(s) /\ rec[s].current =>
            /\ job[s].proc = "dead"
            /\ PipesClosed(s)
            /\ rec[s].status = "exited" => rec[s].reason = "none"

\* What a record once says of how its process came to an end stays until the host is lost:
\* the first reason, of a caller or of the deadline, is not replaced by the next, also when
\* the supervisor found the deadline passed before the caller asked; a final status does
\* not change; and it names the reason that the record gives.
OutcomesStay ==
    [][\A s \in entries \cap entries' :
          pc'[s] # "gone" =>
             /\ rec[s].reason # "none" => rec'[s].reason = rec[s].reason
             /\ Finished(s) => rec'[s].status = rec[s].status
             /\ rec'[s].status = "timed_out" => rec'[s].reason = "deadline_exceeded"
             /\ rec'[s].status = "canceled" => rec'[s].reason = "asked"]_rec

\* When shutdown reports success no tree it owned is left, and the next host will find
\* every persistent record ended: none will be reported as interrupted.
CleanShutdown ==
    down = "ok" =>
        /\ \A s \in entries : ~Alive(s) /\ job[s].proc # "suspended"
        /\ Resident => \A s \in DOMAIN disk.recs : disk.recs[s].status \in Final

\* The checkpoint file never goes back: what it accounts for stays accounted for and what
\* it reports as ended stays so, however many callers write checkpoints at once.
DiskNeverGoesBack ==
    [][/\ disk.evicted \subseteq disk'.evicted
       /\ \A s \in DOMAIN disk.recs :
             \/ s \in disk'.evicted
             \/ /\ s \in DOMAIN disk'.recs
                /\ disk.recs[s].status \in Final =>
                      disk'.recs[s].status = disk.recs[s].status]_disk

\* A connection that closes leaves no process behind for ever, unless a termination
\* failed and its caller was told.
ClosedConnectionIsCleaned ==
    \A s \in Starts \ Persistent :
        conns[Owner[s]] = "closed" ~> (job[s].proc \in {"none", "dead"} \/ s \in failures)

\* A tree whose termination was issued ends as a finished record, so that job_wait
\* returns, whichever of start's threads were running by then.
KilledIsFinished ==
    \A s \in Starts :
        (s \in entries /\ job[s].killed) ~> (Finished(s) \/ s \notin entries \/ s \in failures)

\* shutdown returns.
ShutdownReturns == down = "stopping" ~> down \in {"ok", "error", "up"}

\* Nothing hangs: the three together.
Progress == ClosedConnectionIsCleaned /\ KilledIsFinished /\ ShutdownReturns
============================================================================
