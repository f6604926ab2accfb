---------------------------- MODULE Observation ----------------------------
(***************************************************************************)
(* Watches and waits (src/src/observation.rs, observation/native.rs). A    *)
(* watch records events of Windows: its provider is a thread that appends  *)
(* to one bounded history. A wait is a task that reads the history from a  *)
(* cursor until an event matches, its deadline passes, or the history can  *)
(* no longer tell. Both belong to a connection, or persist in a checkpoint *)
(* file; connections close, checkpoints fail and the host is lost.         *)
(*                                                                         *)
(* One action is one critical section of the store, or the code between    *)
(* two awaits. Sizes in bytes are abstracted: an event may be too large,   *)
(* or need any number of older ones to leave.                              *)
(***************************************************************************)
EXTENDS Integers, Sequences, FiniteSets

CONSTANTS
    Watches,      \* calls of watch_create; a UUID is never used twice
    Waits,        \* calls of wait_for
    Conns,        \* connections
    Owner,        \* [Watches \cup Waits -> Conns]
    Persistent,   \* the watches and waits with lifetime persistent
    Target,       \* [Waits -> Watches \cup {AnyWatch}]: filter.watch_id
    AnyWatch,     \* a filter without watch_id
    MaxRecords,   \* MAX_RECORDS
    MaxActive,    \* MAX_ACTIVE_WATCHES
    MaxRetained,  \* max_events of each watch
    MaxEvents,    \* MAX_EVENTS
    MaxIds,       \* bound: providers emit while the next id is not above it
    MaxCalls,     \* bound: how many watches and waits are asked for
    MaxLives,     \* bound: how often the host is started
    NoRecord, NoSave

Calls == Watches \cup Waits

ASSUME ObservationAssumption ==
    /\ IsFiniteSet(Calls) /\ Watches \cap Waits = {}
    /\ Owner \in [Calls -> Conns]
    /\ Persistent \subseteq Calls
    /\ AnyWatch \notin Watches
    /\ Target \in [Waits -> Watches \cup {AnyWatch}]
    /\ {"worker", "shutdown"} \cap Calls = {}
    /\ {MaxRecords, MaxActive, MaxIds, MaxCalls, MaxLives} \subseteq Nat
    /\ {MaxRetained, MaxEvents} \subseteq Nat \ {0}

Active == {"starting", "recording", "stopping"}
Statuses == Active \cup {"stopped", "failed"}
Outcomes == {"running", "satisfied", "timed_out", "canceled", "failed"}

\* A cursor is the id of an event; Stale is one of another epoch.
Stale == -1
NotDue == -1
Event == [id: Nat, watch: Watches, kind: {"match", "other", "gap"}]
WatchRecord == [status: Statuses, dropped: Nat, gap: Nat]
WaitRecord == [outcome: Outcomes, after: Nat \cup {Stale}, cursor: Nat \cup {Stale}]
ASSUME NoRecordAssumption == NoRecord \notin WatchRecord \cup WaitRecord

VARIABLES
    call,       \* where create_scoped and start_wait_scoped are
    store,      \* the watches, the retained events and next_id
    waits,      \* store.waits
    handles,    \* the keys of store.controls and of store.wait_cancels
    canceled,   \* Control.canceled of watches, Cancellation of waits
    finished,   \* Control.finished
    retired,    \* store.retired_watches
    provider,   \* where the thread of each watch is
    signal,     \* what it sent to the create_scoped that waits for it
    task,       \* where the task of each wait is
    seen,       \* its cursor
    verdict,    \* the outcome it has decided on
    due,        \* the last event of each wait's time, NotDue until its deadline
    closed,     \* connections whose token is cancelled
    swept,      \* those whose shutdown_connection took the store's lock
    sweepStop,  \* the watches it has still to stop,
    sweepCheck, \* and those it has stopped and not yet looked at again
    broken,     \* persistence_error
    queue,      \* the flushes that wait for checkpoint_serial
    writing,    \* the flush that holds it, with its snapshot
    told,       \* callers whose flush returned an error they have not recorded
    marking,    \* callers of checkpoint_failed between its two locks
    worker,     \* whether the checkpoint worker's loop still runs
    disk,       \* observation.json
    down,       \* where shutdown is
    downStop,   \* the watches it has still to stop
    lives,      \* how often the host was started
    log, forgotten, reported    \* history

watchVars == <<retired, provider, signal>>
waitVars == <<task, seen, verdict, due>>
connVars == <<closed, swept, sweepStop, sweepCheck>>
saveVars == <<broken, queue, writing, told, marking, worker, disk>>
hostVars == <<down, downStop, lives>>
history == <<log, forgotten, reported>>
vars == <<call, store, waits, handles, canceled, finished, watchVars, waitVars, connVars,
          saveVars, hostVars, history>>

Worker == "worker"
Shutdown == "shutdown"
Savers == Persistent \cup {Worker, Shutdown}

NewStore == [watches |-> [w \in Watches |-> NoRecord], events |-> {}, next |-> 1]
NoWaits == [v \in Waits |-> NoRecord]

Init ==
    /\ call = [x \in Calls |-> "new"]
    /\ store = NewStore /\ waits = NoWaits
    /\ handles = {} /\ canceled = {} /\ finished = {} /\ retired = {}
    /\ provider = [w \in Watches |-> "none"]
    /\ signal = [w \in Watches |-> "none"]
    /\ task = [v \in Waits |-> "none"]
    /\ seen = [v \in Waits |-> Stale]
    /\ verdict = [v \in Waits |-> "running"]
    /\ due = [v \in Waits |-> NotDue]
    /\ closed = {} /\ swept = {} /\ sweepStop = {} /\ sweepCheck = {}
    /\ broken = FALSE /\ queue = {} /\ writing = NoSave
    /\ told = {} /\ marking = {} /\ worker = TRUE
    /\ disk = [store |-> NewStore, waits |-> NoWaits]
    /\ down = "up" /\ downStop = {} /\ lives = 1
    /\ log = {} /\ forgotten = {} /\ reported = {}

----------------------------------------------------------------------------
(* The store: append, discard, forget.                                     *)

Kept(w) == store.watches[w] # NoRecord
KeptWatches == {w \in Watches : Kept(w)}
IsActive(w) == Kept(w) /\ store.watches[w].status \in Active

OfWatch(events, w) == {e \in events : e.watch = w}
Oldest(events) == CHOOSE e \in events : \A f \in events : e.id <= f.id

\* Oldest first, and at least so many that one more fits.
Evictions(events, limit) ==
    {gone \in SUBSET events :
        /\ \A e \in gone, f \in events \ gone : e.id < f.id
        /\ Cardinality(events \ gone) < limit}

LastId(events, w, before) ==
    CHOOSE i \in {before} \cup {e.id : e \in OfWatch(events, w)} :
        \A e \in OfWatch(events, w) : before <= i /\ e.id <= i

\* Seeded fault: the history forgets that it has dropped events.
DiscardSilently(st, gone) == [st EXCEPT !.events = @ \ gone]

\* Store::discard, for several events.
Discard(st, gone) ==
    [st EXCEPT !.events = @ \ gone,
               !.watches = [w \in Watches |->
                    IF OfWatch(gone, w) = {} THEN st.watches[w]
                    ELSE [st.watches[w] EXCEPT !.dropped = LastId(gone, w, @)]]]

\* What Store::append may leave for a watch that is there: it makes room among the events
\* of the watch, then among all, and adds the event.
Appended(st, w, kind) ==
    LET Added(old) ==
            [old EXCEPT !.events = @ \cup {[id |-> st.next, watch |-> w, kind |-> kind]},
                        !.next = @ + 1,
                        !.watches[w].gap = IF kind = "gap" THEN st.next ELSE @]
    IN UNION {{Added(Discard(st, own \cup others)) :
                  others \in Evictions(st.events \ own, MaxEvents)} :
              own \in Evictions(OfWatch(st.events, w), MaxRetained)}

WithStatus(st, w, status) == [st EXCEPT !.watches[w].status = status]

\* Store::forget
Forget(st, w) ==
    [st EXCEPT !.events = @ \ OfWatch(@, w), !.watches[w] = NoRecord]

Forgets(w) ==
    /\ store' = Forget(store, w)
    /\ handles' = handles \ {w}
    /\ retired' = retired \ {w}
    /\ forgotten' = forgotten \cup {w}

\* request_stop: an active record is stopping, and the control is cancelled.
RequestStop(w) ==
    /\ store' = IF IsActive(w) THEN WithStatus(store, w, "stopping") ELSE store
    /\ canceled' = canceled \cup ({w} \cap handles)

\* Sink::fail, which also cancels the control.
Fails(w) ==
    /\ store' \in IF Kept(w) THEN Appended(WithStatus(store, w, "failed"), w, "other")
                             ELSE {store}
    /\ log' = log \cup (store'.events \ store.events)
    /\ canceled' = canceled \cup {w}

----------------------------------------------------------------------------
(* watch_create.                                                           *)

ConnClosed(x) == x \notin Persistent /\ Owner[x] \in closed

Calling(x) ==
    /\ call[x] = "new" /\ down = "up"
    /\ Cardinality({y \in Calls : call[y] # "new"}) < MaxCalls

\* allows_persistence, before the store is locked.
CreateCheck(w) ==
    /\ Calling(w)
    /\ call' = [call EXCEPT ![w] = IF w \in Persistent /\ broken THEN "refused" ELSE "checked"]
    /\ UNCHANGED <<store, waits, handles, canceled, finished, watchVars, waitVars, connVars,
                   saveVars, hostVars, history>>

\* Seeded fault: the connection is not looked at again under the lock.
FitsUnchecked(w) ==
    /\ Cardinality((handles \cap Watches) \ finished) < MaxActive
    /\ Cardinality(KeptWatches) < MaxRecords

Fits(w) ==
    /\ ~ConnClosed(w)
    /\ Cardinality((handles \cap Watches) \ finished) < MaxActive
    /\ Cardinality(KeptWatches) < MaxRecords

\* The record and the control are inserted, then the provider's thread is started; if that
\* fails, create_scoped itself does what the thread would have done.
CreateAdmit(w) ==
    /\ call[w] = "checked"
    /\ IF Fits(w)
       THEN /\ store' = [store EXCEPT !.watches[w] =
                            [status |-> "starting", dropped |-> 0, gap |-> 0]]
            /\ handles' = handles \cup {w}
            /\ \/ call' = [call EXCEPT ![w] = "setup"] /\ provider' = [provider EXCEPT ![w] = "setup"]
               \/ call' = [call EXCEPT ![w] = "unspawned"] /\ provider' = [provider EXCEPT ![w] = "failing"]
       ELSE call' = [call EXCEPT ![w] = "refused"] /\ UNCHANGED <<store, handles, provider>>
    /\ UNCHANGED <<waits, canceled, finished, retired, signal, waitVars, connVars, saveVars,
                   hostVars, history>>

\* After the select: a persistent watch that is still there is flushed.
Continue(w) ==
    IF w \in Persistent /\ Kept(w)
    THEN call' = [call EXCEPT ![w] = "saving"] /\ queue' = queue \cup {w}
    ELSE call' = [call EXCEPT ![w] = "returned"] /\ UNCHANGED queue

CreateReady(w) ==
    /\ call[w] = "setup" /\ signal[w] = "ok"
    /\ Continue(w)
    /\ UNCHANGED <<store, waits, handles, canceled, finished, watchVars, waitVars, connVars,
                   broken, writing, told, marking, worker, disk, hostVars, history>>

\* The provider's setup failed or takes more than ten seconds.
CreateFails(w) ==
    /\ call[w] = "setup" /\ signal[w] # "ok"
    /\ Fails(w)
    /\ call' = [call EXCEPT ![w] = "failed"]
    /\ UNCHANGED <<waits, handles, finished, watchVars, waitVars, connVars, saveVars, hostVars,
                   forgotten, reported>>

CreateContinues(w) ==
    /\ \/ call[w] = "failed" /\ Continue(w)
       \/ /\ call[w] = "unspawned" /\ provider[w] = "ended"
          /\ call' = [call EXCEPT ![w] = "returned"]
          /\ UNCHANGED queue
    /\ UNCHANGED <<store, waits, handles, canceled, finished, watchVars, waitVars, connVars,
                   broken, writing, told, marking, worker, disk, hostVars, history>>

----------------------------------------------------------------------------
(* The provider's thread: native::run, then Sink::finish.                  *)

Emitting(w) == provider[w] \in {"setup", "ready", "running"}

\* Sink::ready, then the message to create_scoped.
ProviderReady(w) ==
    /\ provider[w] = "setup"
    /\ provider' = [provider EXCEPT ![w] = "ready"]
    /\ store' = IF Kept(w) /\ store.watches[w].status = "starting"
                THEN WithStatus(store, w, "recording") ELSE store
    /\ UNCHANGED <<call, waits, handles, canceled, finished, retired, signal, waitVars, connVars,
                   saveVars, hostVars, history>>

ProviderSignals(w) ==
    /\ provider[w] = "ready"
    /\ provider' = [provider EXCEPT ![w] = "running"]
    /\ signal' = [signal EXCEPT ![w] = "ok"]
    /\ UNCHANGED <<call, store, waits, handles, canceled, finished, retired, waitVars, connVars,
                   saveVars, hostVars, history>>

\* Sink::emit, or Sink::lost with a gap whatever the status. Append may find the recording
\* limit reached, which stops the watch.
ProviderEmits(w, kind) ==
    /\ Emitting(w) /\ Kept(w) /\ store.next <= MaxIds
    /\ kind = "gap" \/ (w \notin canceled /\ store.watches[w].status \in {"starting", "recording"})
    /\ \E st \in Appended(store, w, kind) :
          \/ store' = st /\ UNCHANGED canceled
          \/ /\ IsActive(w)
             /\ store' = WithStatus(st, w, "stopping")
             /\ canceled' = canceled \cup ({w} \cap handles)
    /\ log' = log \cup (store'.events \ store.events)
    /\ UNCHANGED <<call, waits, handles, finished, watchVars, waitVars, connVars, saveVars,
                   hostVars, forgotten, reported>>

\* run returns: because it was cancelled, by itself, or with an error. It may never do so.
ProviderReturns(w) ==
    /\ Emitting(w) /\ provider[w] # "ready"
    /\ \E next \in {"failing", "finishing"} : provider' = [provider EXCEPT ![w] = next]
    /\ signal' = [signal EXCEPT ![w] = IF @ = "none" THEN "error" ELSE @]
    /\ UNCHANGED <<call, store, waits, handles, canceled, finished, retired, waitVars, connVars,
                   saveVars, hostVars, history>>

ProviderFails(w) ==
    /\ provider[w] = "failing"
    /\ Fails(w)
    /\ provider' = [provider EXCEPT ![w] = "finishing"]
    /\ UNCHANGED <<call, waits, handles, finished, retired, signal, waitVars, connVars, saveVars,
                   hostVars, forgotten, reported>>

\* Seeded fault: the provider's own end replaces a failure.
EndedAlways(w) == IF Kept(w) THEN WithStatus(store, w, "stopped") ELSE store

Ended(w) ==
    IF Kept(w) /\ store.watches[w].status # "failed" THEN WithStatus(store, w, "stopped")
                                                     ELSE store

\* The critical section of Sink::finish; a retired watch is forgotten.
ProviderFinishes(w) ==
    /\ provider[w] = "finishing"
    /\ provider' = [provider EXCEPT ![w] = "marking"]
    /\ IF w \in retired THEN Forgets(w)
       ELSE store' = Ended(w) /\ UNCHANGED <<handles, retired, forgotten>>
    /\ UNCHANGED <<call, waits, canceled, finished, signal, waitVars, connVars, saveVars, hostVars,
                   log, reported>>

\* mark_finished, after the store is unlocked.
ProviderEnds(w) ==
    /\ provider[w] = "marking"
    /\ provider' = [provider EXCEPT ![w] = "ended"]
    /\ finished' = finished \cup {w}
    /\ UNCHANGED <<call, store, waits, handles, canceled, retired, signal, waitVars, connVars,
                   saveVars, hostVars, history>>

----------------------------------------------------------------------------
(* Requests that go away, the recording deadline, watch_remove.            *)

ClientOf(x) == x \in Persistent \/ Owner[x] \notin closed

\* A request goes away: its future is dropped at an await.
Drop(x) ==
    /\ call[x] \in {"setup", "saving"} /\ x \notin told \cup marking
    /\ call' = [call EXCEPT ![x] = "dropped"]
    /\ IF x \in Watches \ Persistent THEN RequestStop(x) ELSE UNCHANGED <<store, canceled>>
    /\ UNCHANGED <<waits, handles, finished, watchVars, waitVars, connVars, saveVars, hostVars,
                   history>>

\* The deadline of a watch, or a client that does not forget it.
StopWatch(w) ==
    /\ w \in handles \ finished \/ (Kept(w) /\ ClientOf(w))
    /\ RequestStop(w)
    /\ UNCHANGED <<call, waits, handles, finished, watchVars, waitVars, connVars, saveVars,
                   hostVars, history>>

\* watch_remove with forget, once the watch has ended and its provider is quiet.
RemoveWatch(w) ==
    /\ down = "up" /\ Kept(w) /\ ClientOf(w)
    /\ ~IsActive(w)
    /\ w \in handles => w \in finished
    /\ Forgets(w)
    /\ UNCHANGED <<call, waits, canceled, finished, provider, signal, waitVars, connVars, saveVars,
                   hostVars, log, reported>>

----------------------------------------------------------------------------
(* wait_for: start_wait_scoped and the wait's task.                        *)

\* The watches whose events the wait may see.
Scope(v) ==
    {w \in Watches : /\ w \in Persistent \/ Owner[w] = Owner[v]
                     /\ Target[v] \in {w, AnyWatch}}

\* read fails when the filter names a watch that is not there.
Readable(v) == Target[v] = AnyWatch \/ \E w \in Scope(v) : Kept(w)

WaitCheck(v) ==
    /\ Calling(v)
    /\ \E after \in {Stale} \cup 0..(store.next - 1) : seen' = [seen EXCEPT ![v] = after]
    /\ call' = [call EXCEPT ![v] =
                  IF (v \in Persistent /\ broken) \/ ~Readable(v) THEN "refused" ELSE "checked"]
    /\ UNCHANGED <<store, waits, handles, canceled, finished, watchVars, task, verdict, due,
                   connVars, saveVars, hostVars, history>>

WaitAdmit(v) ==
    /\ call[v] = "checked"
    /\ IF ~ConnClosed(v) /\ Cardinality({o \in Waits : waits[o] # NoRecord}) < MaxRecords
       THEN /\ waits' = [waits EXCEPT ![v] =
                           [outcome |-> "running", after |-> seen[v], cursor |-> seen[v]]]
            /\ handles' = handles \cup {v}
            /\ task' = [task EXCEPT ![v] = "loop"]
            /\ IF v \in Persistent
               THEN call' = [call EXCEPT ![v] = "saving"] /\ queue' = queue \cup {v}
               ELSE call' = [call EXCEPT ![v] = "returned"] /\ UNCHANGED queue
       ELSE /\ call' = [call EXCEPT ![v] = "refused"]
            /\ UNCHANGED <<waits, handles, task, queue>>
    /\ UNCHANGED <<store, canceled, finished, watchVars, seen, verdict, due, connVars, broken,
                   writing, told, marking, worker, disk, hostVars, history>>

\* The wait's deadline passes: later events are not in its time.
Deadline(v) ==
    /\ call[v] # "new" /\ due[v] = NotDue
    /\ due' = [due EXCEPT ![v] = store.next - 1]
    /\ UNCHANGED <<call, store, waits, handles, canceled, finished, watchVars, task, seen, verdict,
                   connVars, saveVars, hostVars, history>>

Matches(v, e) ==
    /\ e.kind = "match" /\ e.watch \in Scope(v)
    /\ due[v] = NotDue \/ e.id <= due[v]

Found(v) == {e \in store.events : Matches(v, e) /\ e.id > seen[v]}

\* retention_gap or recording_gap
GapSince(v) ==
    \E w \in Scope(v) \cap KeptWatches :
        store.watches[w].dropped > seen[v] \/ store.watches[w].gap > seen[v]

\* Seeded fault: a gap in the history does not end the wait.
LookPastGaps(v) ==
    IF v \in canceled THEN "canceled"
    ELSE IF ~Readable(v) \/ seen[v] = Stale THEN "failed"
    ELSE IF Found(v) # {} THEN "satisfied"
    ELSE "running"

\* What one read of the history tells the wait.
Look(v) ==
    IF v \in canceled THEN "canceled"
    ELSE IF ~Readable(v) \/ seen[v] = Stale THEN "failed"
    ELSE IF Found(v) # {} THEN "satisfied"
    ELSE IF GapSince(v) \/ (Target[v] # AnyWatch /\ ~IsActive(Target[v])) THEN "failed"
    ELSE "running"

\* An iteration of the task's loop up to the look at the clock. The cursor that a failed
\* wait reports is left out.
WaitLook(v) ==
    /\ task[v] = "loop"
    /\ verdict' = [verdict EXCEPT ![v] = Look(v)]
    /\ task' = [task EXCEPT ![v] = IF Look(v) = "running" THEN "looked" ELSE "finishing"]
    /\ seen' = [seen EXCEPT ![v] =
                  CASE Look(v) = "satisfied" -> Oldest(Found(v)).id
                    [] Look(v) = "running"   -> store.next - 1
                    [] OTHER                 -> seen[v]]
    /\ UNCHANGED <<call, store, waits, handles, canceled, finished, watchVars, due, connVars,
                   saveVars, hostVars, history>>

\* The deadline has passed, or the task sleeps until something changes.
WaitClock(v) ==
    /\ task[v] = "looked"
    /\ IF due[v] # NotDue
       THEN /\ verdict' = [verdict EXCEPT ![v] = "timed_out"]
            /\ task' = [task EXCEPT ![v] = "finishing"]
       ELSE task' = [task EXCEPT ![v] = "loop"] /\ UNCHANGED verdict
    /\ UNCHANGED <<call, store, waits, handles, canceled, finished, watchVars, seen, due, connVars,
                   saveVars, hostVars, history>>

\* finish_wait: only a running wait gets an outcome.
Finish(v, outcome, cursor) ==
    IF waits[v] # NoRecord /\ waits[v].outcome = "running"
    THEN /\ waits' = [waits EXCEPT ![v].outcome = outcome, ![v].cursor = cursor]
         /\ handles' = handles \ {v}
    ELSE UNCHANGED <<waits, handles>>

\* Seeded fault: a late verdict replaces the outcome that is there.
FinishAgain(v) ==
    /\ task[v] = "finishing"
    /\ task' = [task EXCEPT ![v] = "ended"]
    /\ waits' = [waits EXCEPT ![v] = IF @ = NoRecord THEN @
                                     ELSE [@ EXCEPT !.outcome = verdict[v], !.cursor = seen[v]]]
    /\ handles' = handles \ {v}
    /\ UNCHANGED <<call, store, canceled, finished, watchVars, seen, verdict, due, connVars,
                   saveVars, hostVars, history>>

WaitFinish(v) ==
    /\ task[v] = "finishing"
    /\ task' = [task EXCEPT ![v] = "ended"]
    /\ Finish(v, verdict[v], seen[v])
    /\ UNCHANGED <<call, store, canceled, finished, watchVars, seen, verdict, due, connVars,
                   saveVars, hostVars, history>>

\* cancel_wait, by a client or by a foreground request that goes away.
CancelWait(v, forget) ==
    /\ waits[v] # NoRecord /\ (forget => ClientOf(v))
    /\ canceled' = canceled \cup ({v} \cap handles)
    /\ IF forget
       THEN /\ waits' = [waits EXCEPT ![v] = NoRecord]
            /\ handles' = handles \ {v}
            /\ forgotten' = forgotten \cup {v}
       ELSE Finish(v, "canceled", waits[v].cursor) /\ UNCHANGED forgotten
    /\ UNCHANGED <<call, store, finished, watchVars, waitVars, connVars, saveVars, hostVars, log,
                   reported>>

----------------------------------------------------------------------------
(* shutdown_connection.                                                    *)

CloseConnection(c) ==
    /\ c \notin closed
    /\ closed' = closed \cup {c}
    /\ UNCHANGED <<call, store, waits, handles, canceled, finished, watchVars, waitVars, swept,
                   sweepStop, sweepCheck, saveVars, hostVars, history>>

\* The first critical section: the watches are retired, the waits removed.
Sweep(c) ==
    /\ c \in closed \ swept
    /\ LET mine == {x \in Calls \ Persistent : Owner[x] = c}
           gone == mine \cap {v \in Waits : waits[v] # NoRecord}
       IN /\ retired' = retired \cup (mine \cap KeptWatches)
          /\ sweepStop' = sweepStop \cup (mine \cap KeptWatches)
          /\ canceled' = canceled \cup (gone \cap handles)
          /\ handles' = handles \ gone
          /\ waits' = [v \in Waits |-> IF v \in gone THEN NoRecord ELSE waits[v]]
    /\ swept' = swept \cup {c}
    /\ UNCHANGED <<call, store, finished, provider, signal, waitVars, closed, sweepCheck, saveVars,
                   hostVars, history>>

SweepStop(w) ==
    /\ w \in sweepStop
    /\ RequestStop(w)
    /\ sweepStop' = sweepStop \ {w}
    /\ sweepCheck' = sweepCheck \cup {w}
    /\ UNCHANGED <<call, waits, handles, finished, watchVars, waitVars, closed, swept, saveVars,
                   hostVars, history>>

SweepCheck(w) ==
    /\ w \in sweepCheck
    /\ sweepCheck' = sweepCheck \ {w}
    /\ IF w \in handles /\ w \notin finished
       THEN UNCHANGED <<store, handles, retired, forgotten>>
       ELSE Forgets(w)
    /\ UNCHANGED <<call, waits, canceled, finished, provider, signal, waitVars, closed, swept,
                   sweepStop, saveVars, hostVars, log, reported>>

----------------------------------------------------------------------------
(* Checkpoints.                                                            *)

\* Seeded fault: only what is still going on is saved.
SnapshotOfActive ==
    [store |-> [store EXCEPT !.watches = [w \in Watches |->
                   IF w \in Persistent /\ IsActive(w) THEN @[w] ELSE NoRecord],
                 !.events = {e \in @ : e.watch \in Persistent /\ IsActive(e.watch)}],
     waits |-> [v \in Waits |->
                   IF v \in Persistent /\ waits[v] # NoRecord /\ waits[v].outcome = "running"
                   THEN waits[v] ELSE NoRecord]]

Snapshot ==
    [store |-> [store EXCEPT !.watches = [w \in Watches |-> IF w \in Persistent THEN @[w] ELSE NoRecord],
                             !.events = {e \in @ : e.watch \in Persistent}],
     waits |-> [v \in Waits |-> IF v \in Persistent THEN waits[v] ELSE NoRecord]]

\* The checkpoint worker sees a new version of the store.
WorkerWakes ==
    /\ worker /\ Persistent # {} /\ down \notin {"flushing", "saved", "unsaved"}
    /\ Worker \notin queue \cup told \cup marking
    /\ writing # NoSave => writing.by # Worker
    /\ queue' = queue \cup {Worker}
    /\ UNCHANGED <<call, store, waits, handles, canceled, finished, watchVars, waitVars, connVars,
                   broken, writing, told, marking, worker, disk, hostVars, history>>

\* persist_now: the snapshot is taken under checkpoint_serial.
SaveBegins(s) ==
    /\ s \in queue /\ writing = NoSave
    /\ queue' = queue \ {s}
    /\ writing' = [by |-> s, snap |-> Snapshot]
    /\ UNCHANGED <<call, store, waits, handles, canceled, finished, watchVars, waitVars, connVars,
                   broken, told, marking, worker, disk, hostVars, history>>

\* The file is replaced or left alone; the caller goes on, if it is still there.
SaveEnds(ok) ==
    /\ writing # NoSave
    /\ writing' = NoSave
    /\ disk' = IF ok THEN writing.snap ELSE disk
    /\ LET s == writing.by
           there == s \in Calls => call[s] = "saving"
       IN /\ told' = IF ok \/ ~there THEN told ELSE told \cup {s}
          /\ worker' = (worker /\ (ok \/ s # Worker))
          /\ down' = IF s # Shutdown THEN down ELSE IF ok THEN "saved" ELSE "unsaved"
          /\ call' = IF s \in Calls /\ there /\ ok THEN [call EXCEPT ![s] = "returned"] ELSE call
          /\ reported' = IF s \in Calls /\ there /\ ok THEN reported \cup {s} ELSE reported
    /\ UNCHANGED <<store, waits, handles, canceled, finished, watchVars, waitVars, connVars, broken,
                   queue, marking, downStop, lives, log, forgotten>>

\* checkpoint_failed: persistence_error under its lock,
RecordFailure(s) ==
    /\ s \in told
    /\ broken' = TRUE
    /\ told' = told \ {s}
    /\ marking' = marking \cup {s}
    /\ UNCHANGED <<call, store, waits, handles, canceled, finished, watchVars, waitVars, connVars,
                   queue, writing, worker, disk, hostVars, history>>

\* then under the store's: what is persistent and active or running fails.
MarkFailed(s) ==
    /\ s \in marking
    /\ marking' = marking \ {s}
    /\ LET ws == {w \in Watches \cap Persistent : IsActive(w)}
           vs == {v \in Waits \cap Persistent : waits[v] # NoRecord /\ waits[v].outcome = "running"}
       IN /\ store' = [store EXCEPT !.watches = [w \in Watches |->
                          IF w \in ws THEN [@[w] EXCEPT !.status = "failed"] ELSE @[w]]]
          /\ waits' = [v \in Waits |-> IF v \in vs THEN [waits[v] EXCEPT !.outcome = "failed"]
                                       ELSE waits[v]]
          /\ canceled' = canceled \cup ((ws \cup vs) \cap handles)
          /\ handles' = handles \ vs
    /\ call' = IF s \in Calls THEN [call EXCEPT ![s] = IF @ = "saving" THEN "returned" ELSE @]
               ELSE call
    /\ UNCHANGED <<finished, watchVars, waitVars, connVars, broken, queue, writing, told, worker,
                   disk, hostVars, history>>

----------------------------------------------------------------------------
(* Shutdown, loss and restart of the host.                                 *)

\* The host closes its connections and waits for their requests, or aborts them, first.
ShutdownBegin ==
    /\ down = "up" /\ swept = Conns /\ sweepStop \cup sweepCheck = {}
    /\ \A x \in Calls : call[x] \in {"new", "refused", "returned", "dropped", "gone"}
    /\ down' = "stopping"
    /\ canceled' = canceled \cup (handles \cap Waits)
    /\ downStop' = KeptWatches
    /\ UNCHANGED <<call, store, waits, handles, finished, watchVars, waitVars, connVars, saveVars,
                   lives, history>>

ShutdownStop(w) ==
    /\ down = "stopping" /\ w \in downStop
    /\ RequestStop(w)
    /\ downStop' = downStop \ {w}
    /\ UNCHANGED <<call, waits, handles, finished, watchVars, waitVars, connVars, saveVars, down,
                   lives, history>>

\* Every provider has finished, or five seconds have passed; then the worker has stopped.
ShutdownFlush ==
    /\ down = "stopping" /\ downStop = {}
    /\ Worker \notin queue \cup told \cup marking /\ (writing # NoSave => writing.by # Worker)
    /\ worker' = FALSE
    /\ queue' = queue \cup {Shutdown}
    /\ down' = "flushing"
    /\ UNCHANGED <<call, store, waits, handles, canceled, finished, watchVars, waitVars, connVars,
                   broken, writing, told, marking, disk, downStop, lives, history>>

RestoredWatch(r) ==
    IF r # NoRecord /\ r.status \in Active THEN [r EXCEPT !.status = "failed"] ELSE r

RestoredWait(r) ==
    IF r # NoRecord /\ r.outcome = "running" THEN [r EXCEPT !.outcome = "failed"] ELSE r

\* restore ends with a gap for every watch: the stores it may leave, watch by watch.
WithGaps(st, order) ==
    LET After[k \in 0..Len(order)] ==
          IF k = 0 THEN {st} ELSE UNION {Appended(s, order[k], "gap") : s \in After[k - 1]}
    IN After[Len(order)]

\* The process ends, at any moment or after shutdown; the next one restores the file and
\* writes it. Connections are new ones.
HostRestart ==
    /\ lives < MaxLives /\ \E x \in Calls : call[x] # "new"
    /\ lives' = lives + 1
    /\ LET old == [disk.store EXCEPT !.watches = [w \in Watches |-> RestoredWatch(@[w])]]
           kept == {w \in Watches : old.watches[w] # NoRecord}
       IN \E order \in [1..Cardinality(kept) -> kept] :
            /\ \A w \in kept : \E k \in DOMAIN order : order[k] = w
            /\ store' \in WithGaps(old, order)
    /\ waits' = [v \in Waits |-> RestoredWait(disk.waits[v])]
    /\ disk' = [store |-> store', waits |-> waits']
    /\ call' = [x \in Calls |-> IF call[x] = "new" THEN "new" ELSE "gone"]
    /\ log' = store'.events
    /\ handles' = {} /\ canceled' = {} /\ finished' = {} /\ retired' = {}
    /\ provider' = [w \in Watches |-> "none"]
    /\ signal' = [w \in Watches |-> "none"]
    /\ task' = [v \in Waits |-> "none"]
    /\ seen' = [v \in Waits |-> Stale]
    /\ verdict' = [v \in Waits |-> "running"]
    /\ due' = [v \in Waits |-> NotDue]
    /\ closed' = {} /\ swept' = {} /\ sweepStop' = {} /\ sweepCheck' = {}
    /\ broken' = FALSE /\ queue' = {} /\ writing' = NoSave
    /\ told' = {} /\ marking' = {} /\ worker' = TRUE
    /\ down' = "up" /\ downStop' = {}
    /\ UNCHANGED <<forgotten, reported>>

----------------------------------------------------------------------------
Creating ==
    \E w \in Watches :
        \/ CreateCheck(w) \/ CreateAdmit(w) \/ CreateReady(w) \/ CreateFails(w)
        \/ CreateContinues(w)

Providing ==
    \E w \in Watches :
        \/ ProviderReady(w) \/ ProviderSignals(w) \/ ProviderReturns(w) \/ ProviderFails(w)
        \/ ProviderFinishes(w) \/ ProviderEnds(w)
        \/ \E kind \in {"match", "other", "gap"} : ProviderEmits(w, kind)

Waiting ==
    \E v \in Waits :
        \/ WaitCheck(v) \/ WaitAdmit(v) \/ Deadline(v)
        \/ WaitLook(v) \/ WaitClock(v) \/ WaitFinish(v)
        \/ \E forget \in BOOLEAN : CancelWait(v, forget)

Leaving ==
    \/ \E x \in Calls : Drop(x)
    \/ \E w \in Watches : StopWatch(w) \/ RemoveWatch(w)

Disconnecting ==
    \/ \E c \in Conns : CloseConnection(c) \/ Sweep(c)
    \/ \E w \in Watches : SweepStop(w) \/ SweepCheck(w)

Saving ==
    \/ WorkerWakes
    \/ \E s \in Savers : SaveBegins(s) \/ RecordFailure(s) \/ MarkFailed(s)
    \/ \E ok \in BOOLEAN : SaveEnds(ok)

Ending == ShutdownBegin \/ ShutdownFlush \/ HostRestart \/ \E w \in Watches : ShutdownStop(w)

Next == Creating \/ Providing \/ Waiting \/ Leaving \/ Disconnecting \/ Saving \/ Ending

Spec == Init /\ [][Next]_vars

----------------------------------------------------------------------------
(* Properties.                                                             *)

\* The state of create_scoped, the store, the tasks and the checkpoints has its type.
TypeOK ==
    /\ call \in [Calls -> {"new", "checked", "refused", "setup", "unspawned", "failed", "saving",
                           "returned", "dropped", "gone"}]
    /\ store.watches \in [Watches -> WatchRecord \cup {NoRecord}]
    /\ store.events \subseteq Event /\ store.next \in Nat \ {0}
    /\ \A e \in store.events : e.id < store.next /\ Kept(e.watch)
    /\ waits \in [Waits -> WaitRecord \cup {NoRecord}]
    /\ handles \subseteq Calls /\ canceled \subseteq Calls
    /\ finished \subseteq Watches /\ retired \subseteq Watches
    /\ provider \in [Watches -> {"none", "setup", "ready", "running", "failing", "finishing",
                                 "marking", "ended"}]
    /\ signal \in [Watches -> {"none", "ok", "error"}]
    /\ task \in [Waits -> {"none", "loop", "looked", "finishing", "ended"}]
    /\ seen \in [Waits -> Nat \cup {Stale}] /\ due \in [Waits -> Nat \cup {NotDue}]
    /\ verdict \in [Waits -> Outcomes]
    /\ swept \subseteq closed /\ closed \subseteq Conns
    /\ sweepStop \cup sweepCheck \cup downStop \subseteq Watches
    /\ broken \in BOOLEAN /\ worker \in BOOLEAN
    /\ queue \cup told \cup marking \subseteq Savers
    /\ down \in {"up", "stopping", "flushing", "saved", "unsaved"}
    /\ lives \in 1..MaxLives
    /\ forgotten \subseteq Calls /\ reported \subseteq Persistent

\* What a wait tells its client is true of what was recorded: a satisfied wait names an event
\* that came after its cursor and matches, and a wait that timed out has missed no matching
\* event up to its last read, even if the history no longer holds it (the loop of
\* start_wait_scoped with read, append and discard). Only a watch that a client forgot may
\* take matching events with it.
WaitVerdictIsTrue ==
    \A v \in Waits :
        (waits[v] # NoRecord /\ task[v] = "ended") =>
            LET r == waits[v] IN
            /\ r.outcome = "satisfied" =>
                   \E e \in log : e.id = r.cursor /\ e.id > r.after /\ Matches(v, e)
            /\ r.outcome = "timed_out" =>
                   \A e \in log : (Matches(v, e) /\ r.after < e.id /\ e.id <= r.cursor)
                                    => e.watch \in forgotten

\* When shutdown_connection is through, no provider of the connection works on without having
\* been told to stop, no record says that it still records, and no wait of it is left; later
\* calls of create_scoped and start_wait_scoped bring none back.
SweptIsStopped ==
    \A c \in swept :
        /\ \A w \in {x \in Watches \ (Persistent \cup sweepStop) : Owner[x] = c} :
              /\ Emitting(w) => w \in canceled
              /\ Kept(w) => store.watches[w].status \notin {"starting", "recording"}
        /\ \A v \in Waits \ Persistent : Owner[v] = c => waits[v] = NoRecord

\* A persistent watch or wait whose creation was reported with its checkpoint written is in
\* the checkpoint file from then on, whatever flushes, failures, ends and restarts follow,
\* until a client forgets it (persist_now, snapshot, restore).
ReportedIsKept ==
    \A x \in reported \ forgotten :
        IF x \in Watches THEN disk.store.watches[x] # NoRecord ELSE disk.waits[x] # NoRecord

\* While the host lives, a watch that has ended never records again, one that failed stays
\* failed, and the outcome of a wait is final, whichever of its task, a client, a closed
\* connection and a failed checkpoint comes first.
TerminalStays ==
    [][lives' = lives =>
        /\ \A w \in Watches :
              (Kept(w) /\ ~IsActive(w) /\ store'.watches[w] # NoRecord) =>
                  \/ store'.watches[w].status = store.watches[w].status
                  \/ store'.watches[w].status = "failed"
        /\ \A v \in Waits :
              (waits[v] # NoRecord /\ waits[v].outcome # "running" /\ waits'[v] # NoRecord) =>
                  waits'[v].outcome = waits[v].outcome]_vars

\* A retained watch that has ended and whose provider is quiet can be removed: some client
\* may see it, or the close of its connection still has to look at it. So says the message
\* of create_scoped at the limit, "remove terminal watches with watch_remove forget=true".
RetainedIsRemovable ==
    \A w \in Watches :
        (Kept(w) /\ ~IsActive(w) /\ (w \in handles => w \in finished)) =>
            \/ w \in Persistent
            \/ Owner[w] \notin swept
            \/ w \in sweepStop \cup sweepCheck

=============================================================================
