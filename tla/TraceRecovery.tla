---------------------------- MODULE TraceRecovery ----------------------------
(***************************************************************************)
(* Who stops an event trace session (observation/etw.rs, etw/recovery.rs). *)
(* A session of Windows outlives the process that started it.  So a watch  *)
(* writes the session into a journal before it starts the session, and     *)
(* clears the entry after it stopped it; a process that starts, and every  *)
(* watch before it registers, stops the sessions whose controller is dead. *)
(* Several processes share the journal, and any of them may crash.         *)
(*                                                                         *)
(* A session's name and identifier belong to one watch.  Providers, the    *)
(* events and their decoding are left out, and so are journal files that   *)
(* are no entries: their owner alone may write them.                       *)
(***************************************************************************)
EXTENDS FiniteSets

CONSTANTS
    Traces,      \* watches that each trace one session
    Processes,   \* the program's processes, one after another or together
    Owner        \* the process of each watch

ASSUME TraceAssumption == Owner \in [Traces -> Processes] /\ Traces \cap Processes = {}

VARIABLES
    process,     \* "new", "sweeping", "serving" or "dead"
    thread,      \* the worker of a watch, and the start-up recovery of a process
    session,     \* what Windows has under the name of a watch
    journal,     \* the watches that have an entry
    past         \* history: sessions that were stopped under a live controller

vars == <<process, thread, session, journal, past>>

Threads == Traces \cup Processes
ProcessOf(t) == IF t \in Processes THEN t ELSE Owner[t]
Alive(p) == process[p] \in {"sweeping", "serving"}

NoThread == [pc |-> "idle", todo |-> {}, entry |-> "none", errors |-> FALSE, due |-> {},
             recovered |-> FALSE]

Init ==
    /\ process = [p \in Processes |-> "new"]
    /\ thread = [t \in Threads |-> NoThread]
    /\ session \in [Traces -> {"off", "foreign"}]
    /\ journal = {}
    /\ past = {}

At(t, pc) == thread[t].pc = pc /\ Alive(ProcessOf(t))
Put(t, r) == thread' = [thread EXCEPT ![t] = r]
Go(t, pc) == Put(t, [thread[t] EXCEPT !.pc = pc])
Skip(t) == Put(t, [thread[t] EXCEPT !.pc = "next", !.entry = "none"])

-----------------------------------------------------------------------------
(* recover_store and recover_entries.                                      *)

\* The entries are listed once; one that vanishes meanwhile is no error.
List(t) ==
    /\ At(t, "list")
    /\ \/ Put(t, [thread[t] EXCEPT !.pc = "next", !.todo = journal,
                     !.due = {w \in journal : process[Owner[w]] = "dead"}])
       \/ Put(t, [thread[t] EXCEPT !.pc = "recovered", !.errors = TRUE])
    /\ UNCHANGED <<process, session, journal, past>>

\* Names are random, so their order is any.
NextEntry(t) ==
    /\ At(t, "next")
    /\ IF thread[t].todo = {} THEN Go(t, "recovered")
       ELSE \E w \in thread[t].todo :
               Put(t, [thread[t] EXCEPT !.pc = "read", !.entry = w, !.todo = @ \ {w}])
    /\ UNCHANGED <<process, session, journal, past>>

Failed(t) == Put(t, [thread[t] EXCEPT !.pc = "next", !.entry = "none", !.errors = TRUE])

ReadEntry(t) ==
    /\ At(t, "read")
    /\ \/ IF thread[t].entry \in journal THEN Go(t, "running") ELSE Skip(t)
       \/ Failed(t)
    /\ UNCHANGED <<process, session, journal, past>>

\* controller_running: by process id and creation time, and the exit state.
CheckController(t) ==
    /\ At(t, "running")
    /\ \/ IF process[Owner[thread[t].entry]] = "dead" THEN Go(t, "query") ELSE Skip(t)
       \/ Failed(t)
    /\ UNCHANGED <<process, session, journal, past>>

\* stop_owned_session: a session of another identifier is refused.
QuerySession(t) ==
    /\ At(t, "query")
    /\ CASE session[thread[t].entry] = "off" -> Go(t, "remove")
         [] session[thread[t].entry] = "on" -> Go(t, "stop")
         [] OTHER -> Failed(t)
    /\ UNCHANGED <<process, session, journal, past>>

QueryFails(t) == At(t, "query") /\ Failed(t) /\ UNCHANGED <<process, session, journal, past>>

Stopped(w) ==
    /\ session' = [session EXCEPT ![w] = IF @ = "foreign" THEN @ ELSE "off"]
    /\ past' = IF Alive(Owner[w]) THEN past \cup {w} ELSE past

StopOwned(t) ==
    /\ At(t, "stop")
    /\ \/ Stopped(thread[t].entry) /\ Go(t, "remove")
       \/ Failed(t) /\ UNCHANGED <<session, past>>
    /\ UNCHANGED <<process, journal>>

RemoveEntry(t) ==
    /\ At(t, "remove")
    /\ \/ journal' = journal \ {thread[t].entry} /\ Skip(t)
       \/ Failed(t) /\ UNCHANGED journal
    /\ UNCHANGED <<process, session, past>>

Recovery(t) ==
    \/ List(t) \/ NextEntry(t) \/ ReadEntry(t) \/ CheckController(t)
    \/ QuerySession(t) \/ QueryFails(t) \/ StopOwned(t) \/ RemoveEntry(t)

-----------------------------------------------------------------------------
(* A process: it recovers before it serves, whatever the recovery reports. *)

Start(p) ==
    /\ process[p] = "new"
    /\ process' = [process EXCEPT ![p] = "sweeping"]
    /\ Go(p, "list")
    /\ UNCHANGED <<session, journal, past>>

Serve(p) ==
    /\ At(p, "recovered")
    /\ process' = [process EXCEPT ![p] = "serving"]
    /\ Put(p, [thread[p] EXCEPT !.pc = "ended", !.recovered = TRUE])
    /\ UNCHANGED <<session, journal, past>>

\* The process ends or is killed; its consumers end with it, its sessions and files stay.
Crash(p) ==
    /\ Alive(p)
    /\ process' = [process EXCEPT ![p] = "dead"]
    /\ thread' = [t \in Threads |-> IF ProcessOf(t) = p THEN NoThread ELSE thread[t]]
    /\ UNCHANGED <<session, journal, past>>

-----------------------------------------------------------------------------
(* run: the worker of a watch, and the drop of its Session.                *)

Prepare(w) ==
    /\ thread[w].pc = "idle" /\ process[Owner[w]] = "serving"
    /\ Go(w, "list")
    /\ UNCHANGED <<process, session, journal, past>>

\* No session is started while the recovery is incomplete.
Prepared(w) ==
    /\ At(w, "recovered")
    /\ Put(w, [thread[w] EXCEPT !.pc = IF thread[w].errors THEN "ended" ELSE "register",
                                !.recovered = TRUE])
    /\ UNCHANGED <<process, session, journal, past>>

\* A temporary file is written and renamed: the entry is there or it is not.
RegisterFirst(w) ==
    /\ At(w, "register")
    /\ \/ journal' = journal \cup {w} /\ Go(w, "start")
       \/ Go(w, "ended") /\ UNCHANGED journal
    /\ UNCHANGED <<process, session, past>>

\* Seeded fault: the entry is written after the session runs.
RegisterLater(w) ==
    /\ At(w, "register")
    /\ Go(w, "start")
    /\ UNCHANGED <<process, session, journal, past>>

Register(w) == RegisterFirst(w)

\* A session that did not start counts as stopped: only the entry is cleared.
StartTrace(w) ==
    /\ At(w, "start")
    /\ \/ /\ session[w] = "off"
          /\ session' = [session EXCEPT ![w] = "on"] /\ Go(w, "tracing")
       \/ Go(w, "drop_clear") /\ UNCHANGED session
    /\ UNCHANGED <<process, journal, past>>

\* A provider or the consumer fails, or the watch is stopped before it is ready.
GiveUp(w) ==
    /\ At(w, "tracing") /\ Go(w, "drop_stop")
    /\ UNCHANGED <<process, session, journal, past>>

\* The stop thread of a running trace; a session that is gone counts as stopped.
StopTrace(w) ==
    /\ At(w, "tracing")
    /\ \/ session' = [session EXCEPT ![w] = "off"] /\ Go(w, "clear")
       \/ Go(w, "drop_stop") /\ UNCHANGED session
    /\ UNCHANGED <<process, journal, past>>

\* The drop tries again what the stop thread could not do, and keeps the entry otherwise.
ClearTrace(w) ==
    /\ At(w, "clear")
    /\ \/ journal' = journal \ {w} /\ Go(w, "drop_clear")
       \/ Go(w, "drop_stop") /\ UNCHANGED journal
    /\ UNCHANGED <<process, session, past>>

DropStop(w) ==
    /\ At(w, "drop_stop")
    /\ \/ session' = [session EXCEPT ![w] = "off"] /\ Go(w, "drop_clear")
       \/ Go(w, "ended") /\ UNCHANGED session
    /\ UNCHANGED <<process, journal, past>>

DropClear(w) ==
    /\ At(w, "drop_clear")
    /\ \/ journal' = journal \ {w}
       \/ UNCHANGED journal
    /\ Go(w, "ended")
    /\ UNCHANGED <<process, session, past>>

\* An administrator stops the session.
OutsideStops(w) ==
    /\ session[w] = "on"
    /\ session' = [session EXCEPT ![w] = "off"]
    /\ UNCHANGED <<process, thread, journal, past>>

Tracing(w) ==
    \/ Prepare(w) \/ Prepared(w) \/ Register(w) \/ StartTrace(w) \/ GiveUp(w)
    \/ StopTrace(w) \/ ClearTrace(w) \/ DropStop(w) \/ DropClear(w)

Next ==
    \/ \E t \in Threads : Recovery(t)
    \/ \E p \in Processes : Start(p) \/ Serve(p) \/ Crash(p)
    \/ \E w \in Traces : Tracing(w) \/ OutsideStops(w)

Spec == Init /\ [][Next]_vars

-----------------------------------------------------------------------------
(* Properties.                                                             *)

(* A session that runs has an entry that leads to it, at every instant at  *)
(* which its process may crash, and while other processes recover.         *)
EverySessionIsOwned == \A w \in Traces : session[w] = "on" => w \in journal

(* A recovery that reports no error has ended every session, and removed   *)
(* every entry, whose controller was dead when it listed the journal; it   *)
(* also holds when another recovery did so at the same time, or crashed    *)
(* halfway.                                                                *)
CleanReportIsClean ==
    \A t \in Threads :
        thread[t].recovered /\ ~thread[t].errors =>
            \A w \in thread[t].due : session[w] # "on" /\ w \notin journal

(* A recovery never stops the session of a controller that lives.          *)
LiveSessionsAreLeft == past = {}

OwnershipIsKept == EverySessionIsOwned /\ CleanReportIsClean /\ LiveSessionsAreLeft
=============================================================================
