-------------------------- MODULE ProvidersProofs ---------------------------
(***************************************************************************)
(* Theorems of the parts of MCProviders, for every value of its constants: *)
(* of TraceRecovery, PowerShellPool, Administration, ServiceConfiguration  *)
(* and ServiceControl.  In TraceRecovery the argument rests on one fact: a *)
(* process that is dead stays dead, so what a recovery has learned of an   *)
(* entry's controller cannot become stale, while all else that it read     *)
(* can.  Each of the other parts has an inductive invariant, and at the    *)
(* end the composition keeps that of the part which was chosen.            *)
(***************************************************************************)
EXTENDS MCProviders, Sequences, FiniteSetTheorems, TLAPS

AtEntry == {"read", "running", "query", "stop", "remove"}
Points == AtEntry \cup
    {"idle", "list", "next", "recovered", "ended", "register", "start", "tracing", "clear",
     "drop_stop", "drop_clear"}

Thread == [pc: Points, todo: SUBSET Traces, entry: Traces \cup {"none"}, errors: BOOLEAN,
           due: SUBSET Traces, recovered: BOOLEAN]

TypeOK ==
    /\ process \in [Processes -> {"new", "sweeping", "serving", "dead"}]
    /\ thread \in [Threads -> Thread]
    /\ session \in [Traces -> {"off", "on", "foreign"}]
    /\ journal \subseteq Traces

Ended(w) == session[w] # "on" /\ w \notin journal

\* What holds of a thread wherever it is: its process lives while it does something, the
\* controllers it has found dead are dead, and what was due is done, at hand or listed.
ThreadOK(t) ==
    /\ thread[t].pc = "idle" => thread[t] = NoThread
    /\ thread[t].pc # "idle" => Alive(ProcessOf(t))
    /\ thread[t].pc = "list" => ~thread[t].recovered /\ thread[t].todo = {} /\ thread[t].due = {}
    /\ thread[t].pc \in AtEntry => thread[t].entry \in Traces
    /\ thread[t].pc \in {"query", "stop", "remove"} => process[Owner[thread[t].entry]] = "dead"
    /\ thread[t].pc = "remove" => session[thread[t].entry] # "on"
    /\ thread[t].pc \notin AtEntry \cup {"next"} => thread[t].todo = {}
    /\ thread[t].pc \in AtEntry \cup {"next"} => ~thread[t].recovered
    /\ \A w \in thread[t].due :
          /\ process[Owner[w]] = "dead"
          /\ ~thread[t].errors =>
                \/ w \in thread[t].todo
                \/ thread[t].pc \in AtEntry /\ thread[t].entry = w
                \/ Ended(w)

\* What the worker of a watch knows of its own session and entry.
TraceOK(w) ==
    /\ thread[w].pc = "start" => w \in journal
    /\ process[Owner[w]] # "dead" /\ thread[w].pc \notin {"tracing", "drop_stop", "ended"} =>
          session[w] # "on"
    /\ session[w] = "on" => w \in journal

Inv ==
    /\ TypeOK
    /\ \A t \in Threads : ThreadOK(t)
    /\ \A w \in Traces : TraceOK(w)
    /\ past = {}

----------------------------------------------------------------------------
(* Frames.                                                                 *)

LEMMA Kinds ==
    /\ \A t \in Threads : ProcessOf(t) \in Processes
    /\ \A w \in Traces : w \in Threads /\ ProcessOf(w) = Owner[w] /\ w \notin Processes
    /\ \A p \in Processes : p \in Threads /\ ProcessOf(p) = p
    /\ \A w \in Traces : Owner[w] \in Processes
<1>1. \A w \in Traces : w \in Threads /\ w \notin Processes /\ Owner[w] \in Processes
  BY TraceAssumption DEF Threads
<1>2. \A t \in Threads : t \in Processes \/ t \in Traces
  BY DEF Threads
<1>3. \A p \in Processes : p \in Threads
  BY DEF Threads
<1> QED
  BY <1>1, <1>2, <1>3 DEF ProcessOf

\* A step that other threads do not notice: the dead stay dead and the living alive, and only
\* a watch whose process lives writes its entry or starts its session.
Benign ==
    /\ \A p \in Processes : process[p] = "dead" => process'[p] = "dead"
    /\ \A w \in Traces : session'[w] = "on" => session[w] = "on" \/ process[Owner[w]] # "dead"
    /\ \A w \in Traces : w \in journal' => w \in journal \/ process[Owner[w]] # "dead"

LEMMA ThreadFrame ==
    ASSUME TypeOK, Benign, NEW t \in Threads, ThreadOK(t), thread'[t] = thread[t],
           Alive(ProcessOf(t)) => Alive(ProcessOf(t))'
    PROVE  ThreadOK(t)'
<1>1. thread[t] \in Thread
  BY DEF TypeOK
<1>2. \A w \in thread[t].due : w \in Traces /\ Owner[w] \in Processes
  BY <1>1, Kinds DEF Thread
<1>3. thread[t].pc \in AtEntry => thread[t].entry \in Traces /\ Owner[thread[t].entry] \in Processes
  BY Kinds DEF ThreadOK
<1>4. \A w \in thread[t].due : process'[Owner[w]] = "dead" /\ (Ended(w) => Ended(w)')
  BY <1>2 DEF ThreadOK, Benign, Ended
<1>5. thread[t].pc \in {"query", "stop", "remove"} => process'[Owner[thread[t].entry]] = "dead"
  BY <1>3 DEF ThreadOK, Benign, AtEntry
<1>6. thread[t].pc = "remove" => session'[thread[t].entry] # "on"
  BY <1>3 DEF ThreadOK, Benign, AtEntry
<1>7. thread[t].pc # "idle" => Alive(ProcessOf(t))'
  BY DEF ThreadOK
<1> QED
  BY <1>4, <1>5, <1>6, <1>7 DEF ThreadOK, Ended

LEMMA TraceFrame ==
    ASSUME NEW w \in Traces, TraceOK(w), thread'[w] = thread[w],
           process[Owner[w]] = "dead" => process'[Owner[w]] = "dead",
           session'[w] = "on" => session[w] = "on",
           w \in journal => w \in journal' \/ (thread[w].pc # "start" /\ session'[w] # "on")
    PROVE  TraceOK(w)'
BY DEF TraceOK

\* A step of thread t that changes t alone, and the world as Benign says.
LEMMA OthersOK ==
    ASSUME Inv, Benign, NEW t \in Threads, NEW r, thread' = [thread EXCEPT ![t] = r],
           \A u \in Threads : Alive(ProcessOf(u)) => Alive(ProcessOf(u))'
    PROVE  /\ \A u \in Threads \ {t} : ThreadOK(u)' /\ thread'[u] = thread[u]
           /\ thread'[t] = r
<1>1. thread'[t] = r /\ \A u \in Threads \ {t} : thread'[u] = thread[u]
  BY DEF Inv, TypeOK
<1> QED
  BY <1>1, ThreadFrame DEF Inv

----------------------------------------------------------------------------
(* The recovery.                                                           *)

LEMMA RecoveryStep ==
    ASSUME Inv, NEW t \in Threads, Recovery(t)
    PROVE  Inv'
<1> DEFINE me == thread[t]
           world == <<session, journal, past>>
<1>t. me \in Thread /\ ThreadOK(t) /\ Alive(ProcessOf(t)) /\ process' = process
  BY DEF Inv, TypeOK, Recovery, At, List, NextEntry, ReadEntry, CheckController, QuerySession,
     QueryFails, StopOwned, RemoveEntry
<1>e. \A w \in Traces : w \in Threads /\ w \notin Processes /\ Owner[w] \in Processes
  BY Kinds
\* What a step to another point of the recovery has to show.
<1>s. ASSUME NEW r \in Thread, thread' = [thread EXCEPT ![t] = r], Benign,
             session' \in [Traces -> {"off", "on", "foreign"}], journal' \subseteq Traces,
             past' = {},
             r.pc \in AtEntry \cup {"next", "recovered"}, me.pc \in AtEntry \cup {"next", "list"},
             r.recovered = me.recovered,
             r.pc \in AtEntry => r.entry \in Traces,
             r.pc \in {"query", "stop", "remove"} => process[Owner[r.entry]] = "dead",
             r.pc = "remove" => session'[r.entry] # "on",
             r.pc = "recovered" => r.todo = {},
             \A w \in Traces : session'[w] = "on" => session[w] = "on",
             \A w \in Traces : w \in journal =>
                 w \in journal' \/ (process[Owner[w]] = "dead" /\ session'[w] # "on"),
             \A w \in r.due :
                /\ process[Owner[w]] = "dead"
                /\ ~r.errors => \/ w \in r.todo
                                \/ r.pc \in AtEntry /\ r.entry = w
                                \/ session'[w] # "on" /\ w \notin journal'
      PROVE  Inv'
  <2>1. \A u \in Threads : Alive(ProcessOf(u)) => Alive(ProcessOf(u))'
    BY <1>t DEF Alive
  <2>2. (\A u \in Threads \ {t} : ThreadOK(u)' /\ thread'[u] = thread[u]) /\ thread'[t] = r
    BY ZenonT(60), <1>s, <2>1, OthersOK
  <2>3. ThreadOK(t)'
    <3>1. Alive(ProcessOf(t))'
      BY <1>t, <2>1
    <3> QED
      BY <1>s, <1>t, <2>2, <3>1 DEF ThreadOK, Ended, AtEntry
  <2>4. TypeOK'
    BY <1>s, <1>t DEF Inv, TypeOK
  <2>5. ASSUME NEW w \in Traces
        PROVE  TraceOK(w)'
    <3>1. TraceOK(w) /\ w \in Threads /\ ThreadOK(w) /\ ProcessOf(w) = Owner[w]
      BY <1>e, Kinds DEF Inv
    <3>2. CASE w # t
      <4>1. process[Owner[w]] = "dead" => thread[w].pc # "start"
        BY <3>1 DEF ThreadOK, Alive
      <4> QED
        BY <1>s, <1>t, <2>2, <3>1, <3>2, <4>1, TraceFrame
    <3>3. CASE w = t
      <4>1. r.pc \notin {"start", "clear", "drop_clear"}
        BY <1>s DEF AtEntry
      <4> QED
        BY <1>s, <1>t, <2>2, <3>1, <3>3, <4>1 DEF TraceOK, Alive, AtEntry
    <3> QED
      BY <3>2, <3>3
  <2> QED
    BY <1>s, <2>2, <2>3, <2>4, <2>5 DEF Inv
<1>u. UNCHANGED <<session, journal, past>> =>
          /\ Benign /\ session' \in [Traces -> {"off", "on", "foreign"}] /\ journal' \subseteq Traces
          /\ past' = {}
  BY <1>t DEF Benign, Inv, TypeOK
\* A step that fails leaves its entry, and says so.
<1>f. ASSUME Failed(t), UNCHANGED <<session, journal, past>>, me.pc \in AtEntry
      PROVE  Inv'
  <2> DEFINE r == [me EXCEPT !.pc = "next", !.entry = "none", !.errors = TRUE]
  <2>1. thread' = [thread EXCEPT ![t] = r] /\ UNCHANGED <<session, journal>>
    BY <1>f DEF Failed, Put
  <2>2. r \in Thread /\ r.pc = "next" /\ r.errors = TRUE /\ r.due = me.due
        /\ r.recovered = me.recovered
    BY <1>t DEF Thread, Points
  <2> HIDE DEF r
  <2> QED
    BY <1>f, <1>s, <1>t, <1>u, <2>1, <2>2 DEF ThreadOK, AtEntry
\* An entry that is left is not due, or is done.
<1>k. ASSUME Skip(t), Benign, session' = session, journal' \subseteq journal, past' = {},
             me.pc \in AtEntry,
             \A w \in journal \ journal' : process[Owner[w]] = "dead" /\ session[w] # "on",
             me.entry \in me.due => session[me.entry] # "on" /\ me.entry \notin journal'
      PROVE  Inv'
  <2> DEFINE r == [me EXCEPT !.pc = "next", !.entry = "none"]
  <2>1. thread' = [thread EXCEPT ![t] = r]
    BY <1>k DEF Skip, Put
  <2>2. r \in Thread /\ r.pc = "next" /\ r.errors = me.errors /\ r.due = me.due /\ r.todo = me.todo
        /\ r.recovered = me.recovered
    BY <1>t DEF Thread, Points
  <2>3. ASSUME NEW w \in r.due
        PROVE  /\ process[Owner[w]] = "dead"
               /\ ~r.errors => w \in r.todo \/ (session'[w] # "on" /\ w \notin journal')
    BY <1>k, <1>t, <2>2, <2>3 DEF ThreadOK, Ended
  <2>4. session' \in [Traces -> {"off", "on", "foreign"}] /\ journal' \subseteq Traces
    BY <1>k DEF Inv, TypeOK
  <2> HIDE DEF r
  <2> QED
    BY <1>k, <1>s, <2>1, <2>2, <2>3, <2>4 DEF AtEntry
\* An entry is kept in hand.
<1>g. ASSUME NEW pc \in {"running", "query", "stop", "remove"}, Go(t, pc), Benign,
             session' \in [Traces -> {"off", "on", "foreign"}], journal' = journal, past' = {},
             \A w \in Traces : session'[w] = "on" => session[w] = "on",
             me.pc \in AtEntry,
             pc # "running" => process[Owner[me.entry]] = "dead",
             pc = "remove" => session'[me.entry] # "on"
      PROVE  Inv'
  <2> DEFINE r == [me EXCEPT !.pc = pc]
  <2>1. thread' = [thread EXCEPT ![t] = r]
    BY <1>g DEF Go, Put
  <2>2. r \in Thread /\ r.pc = pc /\ r.errors = me.errors /\ r.due = me.due /\ r.todo = me.todo
        /\ r.recovered = me.recovered /\ r.entry = me.entry /\ r.pc \in AtEntry
    BY <1>t DEF Thread, Points, AtEntry
  <2>3. \A w \in r.due : w \in Traces
    BY <1>t, <2>2 DEF Thread
  <2>4. \A w \in r.due :
                /\ process[Owner[w]] = "dead"
                /\ ~r.errors => \/ w \in r.todo
                                \/ r.pc \in AtEntry /\ r.entry = w
                                \/ session'[w] # "on" /\ w \notin journal'
    BY <1>g, <1>t, <2>2, <2>3 DEF ThreadOK, Ended
  <2>5. r.entry \in Traces /\ journal' \subseteq Traces
    BY <1>g, <1>t, <2>2 DEF ThreadOK, Inv, TypeOK
  <2> HIDE DEF r
  <2> QED
    BY <1>g, <1>s, <2>1, <2>2, <2>4, <2>5 DEF AtEntry
<1>1. CASE List(t)
  <2>1. me.recovered = FALSE /\ me.todo = {} /\ me.due = {} /\ me.pc = "list"
    BY <1>1, <1>t DEF List, At, ThreadOK, Thread
  <2> DEFINE due == {w \in journal : process[Owner[w]] = "dead"}
             r == [me EXCEPT !.pc = "next", !.todo = journal, !.due = due]
             f == [me EXCEPT !.pc = "recovered", !.errors = TRUE]
  <2>2. journal \subseteq Traces /\ due \subseteq journal
    BY DEF Inv, TypeOK
  <2>3. UNCHANGED <<session, journal, past>>
    BY <1>1 DEF List
  <2>4. CASE thread' = [thread EXCEPT ![t] = r]
    <3>1. r \in Thread /\ r.pc = "next" /\ r.todo = journal /\ r.due = due
          /\ r.recovered = me.recovered
      BY <1>t, <2>2 DEF Thread, Points
    <3>2. \A w \in r.due : process[Owner[w]] = "dead" /\ w \in r.todo
      BY <2>2, <3>1
    <3> HIDE DEF r
    <3> QED
      BY <1>s, <1>u, <2>1, <2>3, <2>4, <3>1, <3>2 DEF AtEntry
  <2>5. CASE thread' = [thread EXCEPT ![t] = f]
    <3>1. f \in Thread /\ f.pc = "recovered" /\ f.todo = {} /\ f.due = {}
          /\ f.recovered = me.recovered
      BY <1>t, <2>1 DEF Thread, Points
    <3> HIDE DEF f
    <3> QED
      BY <1>s, <1>u, <2>1, <2>3, <2>5, <3>1 DEF AtEntry
  <2> QED
    BY <1>1, <2>4, <2>5 DEF List, Put
<1>2. CASE NextEntry(t)
  <2>1. me.pc = "next" /\ UNCHANGED <<session, journal, past>>
    BY <1>2 DEF NextEntry, At
  <2>2. CASE me.todo = {}
    <3> DEFINE r == [me EXCEPT !.pc = "recovered"]
    <3>1. thread' = [thread EXCEPT ![t] = r]
      BY <1>2, <2>2 DEF NextEntry, Go, Put
    <3>2. r \in Thread /\ r.pc = "recovered" /\ r.todo = {} /\ r.due = me.due
          /\ r.errors = me.errors /\ r.recovered = me.recovered
      BY <1>t, <2>2 DEF Thread, Points
    <3>3. \A w \in me.due : /\ process[Owner[w]] = "dead"
                            /\ ~me.errors => session[w] # "on" /\ w \notin journal
      BY <1>t, <2>1, <2>2 DEF ThreadOK, Ended, AtEntry
    <3>4. session' = session /\ journal' = journal
      BY <2>1
    <3> HIDE DEF r
    <3>6. ASSUME NEW w \in r.due
          PROVE  /\ process[Owner[w]] = "dead"
                 /\ ~r.errors => session'[w] # "on" /\ w \notin journal'
      BY <3>2, <3>3, <3>4
    <3>5. r.pc \notin AtEntry /\ r.pc \notin {"query", "stop", "remove"}
      BY <3>2 DEF AtEntry
    <3> QED
      BY <1>s, <1>u, <2>1, <3>1, <3>2, <3>5, <3>6
  <2>3. CASE me.todo # {}
    <3>1. PICK x \in me.todo :
            thread' = [thread EXCEPT ![t] = [me EXCEPT !.pc = "read", !.entry = x, !.todo = @ \ {x}]]
      BY <1>2, <2>3 DEF NextEntry, Put
    <3> DEFINE r == [me EXCEPT !.pc = "read", !.entry = x, !.todo = @ \ {x}]
    <3>5. me.todo \subseteq Traces /\ x \in Traces /\ "read" \in Points
      BY <1>t, <3>1 DEF Thread, Points, AtEntry
    <3>2. r \in Thread /\ r.pc = "read" /\ r.todo = me.todo \ {x} /\ r.due = me.due
          /\ r.errors = me.errors /\ r.recovered = me.recovered /\ r.entry = x /\ x \in Traces
      BY <1>t, <3>5 DEF Thread
    <3>3. \A w \in r.due :
              /\ process[Owner[w]] = "dead"
              /\ ~r.errors => w \in r.todo \/ r.entry = w \/ (session[w] # "on" /\ w \notin journal)
      BY <1>t, <2>1, <3>2 DEF ThreadOK, Ended, AtEntry
    <3>4. thread' = [thread EXCEPT ![t] = r]
      BY <3>1
    <3> HIDE DEF r
    <3> QED
      BY <1>s, <1>u, <2>1, <3>2, <3>3, <3>4 DEF AtEntry
  <2> QED
    BY <2>2, <2>3
<1>3. CASE ReadEntry(t)
  <2>1. me.pc = "read" /\ UNCHANGED <<session, journal, past>>
    BY <1>3 DEF ReadEntry, At
  <2>2. CASE me.entry \in journal /\ Go(t, "running")
    BY <1>g, <1>u, <2>1, <2>2 DEF AtEntry
  <2>3. CASE me.entry \notin journal /\ Skip(t)
    <3>1. me.entry \in Traces
      BY <1>t, <2>1 DEF ThreadOK, AtEntry
    <3>2. session[me.entry] # "on"
      BY <2>3, <3>1 DEF Inv, TraceOK
    <3> QED
      BY <1>k, <1>u, <2>1, <2>3, <3>2 DEF AtEntry
  <2>4. CASE Failed(t)
    BY <1>f, <2>1, <2>4 DEF AtEntry
  <2> QED
    BY <1>3, <2>2, <2>3, <2>4 DEF ReadEntry
<1>4. CASE CheckController(t)
  <2>1. me.pc = "running" /\ UNCHANGED <<session, journal, past>>
    BY <1>4 DEF CheckController, At
  <2>2. CASE process[Owner[me.entry]] = "dead" /\ Go(t, "query")
    BY <1>g, <1>u, <2>1, <2>2 DEF AtEntry
  <2>3. CASE process[Owner[me.entry]] # "dead" /\ Skip(t)
    <3>1. me.entry \notin me.due
      BY <1>t, <2>3 DEF ThreadOK
    <3> QED
      BY <1>k, <1>u, <2>1, <2>3, <3>1 DEF AtEntry
  <2>4. CASE Failed(t)
    BY <1>f, <2>1, <2>4 DEF AtEntry
  <2> QED
    BY <1>4, <2>2, <2>3, <2>4 DEF CheckController
<1>5. CASE QuerySession(t) \/ QueryFails(t)
  <2>1. /\ me.pc = "query" /\ UNCHANGED <<session, journal, past>>
        /\ me.entry \in Traces /\ process[Owner[me.entry]] = "dead"
    BY <1>5, <1>t DEF QuerySession, QueryFails, At, ThreadOK, AtEntry
  <2>2. CASE session[me.entry] = "off" /\ Go(t, "remove")
    BY <1>g, <1>u, <2>1, <2>2 DEF AtEntry
  <2>3. CASE Go(t, "stop")
    BY <1>g, <1>u, <2>1, <2>3 DEF AtEntry
  <2>4. CASE Failed(t)
    BY <1>f, <2>1, <2>4 DEF AtEntry
  <2> QED
    BY <1>5, <2>2, <2>3, <2>4 DEF QuerySession, QueryFails
<1>6. CASE StopOwned(t)
  <2>1. /\ me.pc = "stop" /\ journal' = journal
        /\ me.entry \in Traces /\ process[Owner[me.entry]] = "dead"
    BY <1>6, <1>t DEF StopOwned, At, ThreadOK, AtEntry
  <2>2. CASE Stopped(me.entry) /\ Go(t, "remove")
    <3>1. session' = [session EXCEPT ![me.entry] = IF @ = "foreign" THEN @ ELSE "off"] /\ past' = {}
      BY <2>1, <2>2 DEF Stopped, Alive, Inv
    <3>2. /\ session' \in [Traces -> {"off", "on", "foreign"}] /\ session'[me.entry] # "on"
          /\ \A w \in Traces : session'[w] = "on" => session[w] = "on"
      BY <2>1, <3>1 DEF Inv, TypeOK
    <3>3. Benign
      BY <1>t, <2>1, <3>2 DEF Benign
    <3> QED
      BY <1>g, <2>1, <2>2, <3>1, <3>2, <3>3 DEF AtEntry
  <2>3. CASE Failed(t) /\ UNCHANGED <<session, past>>
    BY <1>f, <2>1, <2>3 DEF AtEntry
  <2> QED
    BY <1>6, <2>2, <2>3 DEF StopOwned
<1>7. CASE RemoveEntry(t)
  <2>1. /\ me.pc = "remove" /\ UNCHANGED <<session, past>>
        /\ me.entry \in Traces /\ process[Owner[me.entry]] = "dead" /\ session[me.entry] # "on"
    BY <1>7, <1>t DEF RemoveEntry, At, ThreadOK, AtEntry
  <2>2. CASE journal' = journal \ {me.entry} /\ Skip(t)
    <3>1. Benign /\ past' = {}
      BY <1>t, <2>1, <2>2 DEF Benign, Inv
    <3> QED
      BY <1>k, <2>1, <2>2, <3>1 DEF AtEntry
  <2>3. CASE Failed(t) /\ journal' = journal
    BY <1>f, <2>1, <2>3 DEF AtEntry
  <2> QED
    BY <1>7, <2>2, <2>3 DEF RemoveEntry
<1> QED
  BY <1>1, <1>2, <1>3, <1>4, <1>5, <1>6, <1>7 DEF Recovery

----------------------------------------------------------------------------
(* Processes.                                                              *)

LEMMA StartStep ==
    ASSUME Inv, NEW p \in Processes, Start(p)
    PROVE  Inv'
<1> DEFINE r == [NoThread EXCEPT !.pc = "list"]
<1>1. p \in Threads /\ ProcessOf(p) = p
  BY Kinds
<1>2. thread[p] = NoThread
  BY <1>1 DEF Start, Inv, ThreadOK, Alive
<1>3. /\ thread' = [thread EXCEPT ![p] = r] /\ process[p] = "new" /\ UNCHANGED <<session, journal, past>>
      /\ process' = [process EXCEPT ![p] = "sweeping"]
  BY <1>2 DEF Start, Go, Put
<1>4. Benign /\ \A q \in Processes : Alive(q) => Alive(q)'
  BY <1>3 DEF Benign, Alive, Inv, TypeOK
<1>5. \A u \in Threads : Alive(ProcessOf(u)) => Alive(ProcessOf(u))'
  <2>1. \A u \in Threads : ProcessOf(u) \in Processes /\ ProcessOf(u)' = ProcessOf(u)
    BY Kinds DEF ProcessOf
  <2> QED
    BY <1>4, <2>1
<1>6. (\A u \in Threads \ {p} : ThreadOK(u)' /\ thread'[u] = thread[u]) /\ thread'[p] = r
  BY <1>1, <1>3, <1>4, <1>5, OthersOK
<1>7. ThreadOK(p)'
  <2>1. Alive(p)'
    BY <1>3 DEF Alive, Inv, TypeOK
  <2> QED
    BY <1>1, <1>6, <2>1 DEF ThreadOK, NoThread, AtEntry, ProcessOf
<1>8. r \in Thread
  BY DEF Thread, NoThread, Points
<1>9. TypeOK'
  BY <1>3, <1>8 DEF Inv, TypeOK
<1>10. \A w \in Traces : TraceOK(w)'
  <2> SUFFICES ASSUME NEW w \in Traces PROVE TraceOK(w)'
    OBVIOUS
  <2>1. w \in Threads \ {p}
    BY Kinds
  <2> QED
    BY <1>3, <1>6, <2>1, TraceFrame DEF Inv
<1> QED
  BY <1>3, <1>6, <1>7, <1>9, <1>10 DEF Inv

LEMMA ServeStep ==
    ASSUME Inv, NEW p \in Processes, Serve(p)
    PROVE  Inv'
<1> DEFINE r == [thread[p] EXCEPT !.pc = "ended", !.recovered = TRUE]
<1>1. p \in Threads /\ ProcessOf(p) = p
  BY Kinds
<1>2. thread[p] \in Thread /\ ThreadOK(p)
  BY <1>1 DEF Inv, TypeOK
<1>3. /\ thread' = [thread EXCEPT ![p] = r] /\ UNCHANGED <<session, journal, past>>
      /\ process' = [process EXCEPT ![p] = "serving"] /\ thread[p].pc = "recovered" /\ Alive(p)
  BY <1>1 DEF Serve, Put, At
<1>4. Benign /\ \A q \in Processes : Alive(q) => Alive(q)'
  BY <1>3 DEF Benign, Alive, Inv, TypeOK
<1>5. \A u \in Threads : Alive(ProcessOf(u)) => Alive(ProcessOf(u))'
  <2>1. \A u \in Threads : ProcessOf(u) \in Processes /\ ProcessOf(u)' = ProcessOf(u)
    BY Kinds DEF ProcessOf
  <2> QED
    BY <1>4, <2>1
<1>6. (\A u \in Threads \ {p} : ThreadOK(u)' /\ thread'[u] = thread[u]) /\ thread'[p] = r
  BY <1>1, <1>3, <1>4, <1>5, OthersOK
<1>7. /\ r \in Thread /\ r.pc = "ended" /\ r.todo = thread[p].todo /\ r.due = thread[p].due
      /\ r.errors = thread[p].errors
  BY <1>2 DEF Thread, Points
<1>8. ThreadOK(p)'
  <2>1. Alive(p)'
    BY <1>1, <1>3, <1>4
  <2>2. r.todo = {}
    BY <1>2, <1>3, <1>7 DEF ThreadOK, AtEntry
  <2>3. ASSUME NEW w \in r.due
        PROVE  process[Owner[w]] = "dead" /\ (~r.errors => Ended(w))
    BY <1>2, <1>3, <1>7, <2>2 DEF ThreadOK, AtEntry
  <2>4. \A w \in r.due : process'[Owner[w]] = "dead" /\ (~r.errors => Ended(w)')
    <3>1. \A w \in r.due : w \in Traces /\ Owner[w] \in Processes
      BY <1>2, <1>7, Kinds DEF Thread
    <3> HIDE DEF r
    <3> QED
      BY <1>3, <1>4, <2>3, <3>1 DEF Benign, Ended
  <2> HIDE DEF r
  <2> QED
    BY <1>1, <1>6, <1>7, <2>1, <2>2, <2>4 DEF ThreadOK, AtEntry, ProcessOf, Ended
<1>9. TypeOK'
  BY <1>3, <1>7 DEF Inv, TypeOK
<1>10. \A w \in Traces : TraceOK(w)'
  <2> SUFFICES ASSUME NEW w \in Traces PROVE TraceOK(w)'
    OBVIOUS
  <2>1. w \in Threads \ {p}
    BY Kinds
  <2>2. process[Owner[w]] = "dead" => process'[Owner[w]] = "dead"
    BY <1>4, Kinds DEF Benign
  <2> QED
    BY <1>3, <1>6, <2>1, <2>2, TraceFrame DEF Inv
<1> QED
  BY <1>3, <1>6, <1>8, <1>9, <1>10 DEF Inv

LEMMA CrashStep ==
    ASSUME Inv, NEW p \in Processes, Crash(p)
    PROVE  Inv'
<1>1. /\ process' = [process EXCEPT ![p] = "dead"] /\ UNCHANGED <<session, journal, past>>
      /\ thread' = [t \in Threads |-> IF ProcessOf(t) = p THEN NoThread ELSE thread[t]]
  BY DEF Crash
<1>2. Benign
  BY <1>1 DEF Benign, Inv, TypeOK
<1>3. NoThread \in Thread
  BY DEF NoThread, Thread, Points
<1>4. TypeOK'
  BY <1>1, <1>3 DEF Inv, TypeOK
<1>5. ASSUME NEW t \in Threads
      PROVE  ThreadOK(t)'
  <2>1. CASE ProcessOf(t) = p
    BY <1>1, <2>1 DEF ThreadOK, NoThread, AtEntry
  <2>2. CASE ProcessOf(t) # p
    <3>1. ProcessOf(t) \in Processes /\ ProcessOf(t)' = ProcessOf(t)
      BY Kinds DEF ProcessOf
    <3>2. Alive(ProcessOf(t)) => Alive(ProcessOf(t))'
      BY <1>1, <2>2, <3>1 DEF Alive, Inv, TypeOK
    <3> QED
      BY <1>1, <1>2, <2>2, <3>2, ThreadFrame DEF Inv
  <2> QED
    BY <2>1, <2>2
<1>6. ASSUME NEW w \in Traces
      PROVE  TraceOK(w)'
  <2>1. w \in Threads /\ TraceOK(w) /\ ProcessOf(w) = Owner[w] /\ Owner[w] \in Processes
    BY Kinds DEF Inv
  <2>2. CASE Owner[w] = p
    BY <1>1, <2>1, <2>2 DEF TraceOK, NoThread, Inv, TypeOK
  <2>3. CASE Owner[w] # p
    <3>1. process'[Owner[w]] = process[Owner[w]] /\ thread'[w] = thread[w]
      BY <1>1, <2>1, <2>3 DEF Inv, TypeOK
    <3> QED
      BY <1>1, <2>1, <3>1, TraceFrame
  <2> QED
    BY <2>2, <2>3
<1> QED
  BY <1>1, <1>4, <1>5, <1>6 DEF Inv

----------------------------------------------------------------------------
(* The worker of a watch.                                                  *)

LEMMA TracingStep ==
    ASSUME Inv, NEW x \in Traces, Tracing(x)
    PROVE  Inv'
<1> DEFINE me == thread[x]
<1>t. /\ x \in Threads /\ ProcessOf(x) = Owner[x] /\ Owner[x] \in Processes
      /\ me \in Thread /\ ThreadOK(x) /\ TraceOK(x)
  BY Kinds DEF Inv, TypeOK
<1>a. process' = process /\ past' = past /\ Alive(Owner[x]) /\ process[Owner[x]] # "dead"
  BY <1>t DEF Tracing, At, Alive, Prepare, Prepared, Register, RegisterFirst, StartTrace, GiveUp,
     StopTrace, ClearTrace, DropStop, DropClear
<1>s. ASSUME NEW pc \in Points \ (AtEntry \cup {"idle", "next", "list"}),
             NEW r \in Thread, thread' = [thread EXCEPT ![x] = r],
             r.pc = pc, r.todo = me.todo, r.due = me.due, r.errors = me.errors,
             me.pc \notin AtEntry \cup {"idle", "next", "list"},
             session' = session \/ \E s \in {"on", "off"} : session' = [session EXCEPT ![x] = s],
             journal' = journal \/ journal' = journal \cup {x} \/ journal' = journal \ {x},
             pc = "start" => x \in journal',
             pc \notin {"tracing", "drop_stop", "ended"} => session'[x] # "on",
             session'[x] = "on" => x \in journal'
      PROVE  Inv'
  <2>1. Benign
    BY <1>a, <1>s DEF Benign, Inv, TypeOK
  <2>2. \A u \in Threads : Alive(ProcessOf(u)) => Alive(ProcessOf(u))'
    BY <1>a DEF Alive, ProcessOf
  <2>3. (\A u \in Threads \ {x} : ThreadOK(u)' /\ thread'[u] = thread[u]) /\ thread'[x] = r
    BY <1>s, <1>t, <2>1, <2>2, OthersOK
  <2>4. ThreadOK(x)'
    <3>1. r.todo = {}
      BY <1>s, <1>t DEF ThreadOK
    <3>2. ASSUME NEW w \in r.due
          PROVE  process[Owner[w]] = "dead" /\ w # x /\ w \in Traces /\ (~r.errors => Ended(w))
      BY <1>a, <1>s, <1>t, <3>1, <3>2 DEF ThreadOK, Thread
    <3>3. \A w \in r.due : process'[Owner[w]] = "dead" /\ (~r.errors => Ended(w)')
      BY <1>a, <1>s, <3>2 DEF Ended, Inv, TypeOK
    <3>4. Alive(ProcessOf(x))'
      BY <1>a, <1>t, <2>2
    <3> QED
      BY <1>s, <2>3, <3>1, <3>3, <3>4 DEF ThreadOK, AtEntry, Ended
  <2>5. TypeOK'
    BY <1>a, <1>s DEF Inv, TypeOK
  <2>6. ASSUME NEW w \in Traces
        PROVE  TraceOK(w)'
    <3>1. CASE w = x
      BY <1>s, <2>3, <3>1 DEF TraceOK
    <3>2. CASE w # x
      <4>1. TraceOK(w) /\ w \in Threads /\ thread'[w] = thread[w]
        BY <2>3, <3>2, Kinds DEF Inv
      <4> QED
        BY <1>a, <1>s, <3>2, <4>1, TraceFrame DEF Inv, TypeOK
    <3> QED
      BY <3>1, <3>2
  <2> QED
    BY <1>a, <2>3, <2>4, <2>5, <2>6 DEF Inv
\* Most steps only move the point of the thread.
<1>g. ASSUME NEW pc \in Points \ (AtEntry \cup {"idle", "next", "list"}), Go(x, pc),
             me.pc \notin AtEntry \cup {"idle", "next", "list"},
             session' = session \/ \E s \in {"on", "off"} : session' = [session EXCEPT ![x] = s],
             journal' = journal \/ journal' = journal \cup {x} \/ journal' = journal \ {x},
             pc = "start" => x \in journal',
             pc \notin {"tracing", "drop_stop", "ended"} => session'[x] # "on",
             session'[x] = "on" => x \in journal'
      PROVE  Inv'
  <2> DEFINE r == [me EXCEPT !.pc = pc]
  <2>1. thread' = [thread EXCEPT ![x] = r]
    BY <1>g DEF Go, Put
  <2>2. r \in Thread /\ r.pc = pc /\ r.todo = me.todo /\ r.due = me.due /\ r.errors = me.errors
    BY <1>t DEF Thread
  <2> HIDE DEF r
  <2> QED
    BY <1>g, <1>s, <2>1, <2>2
<1>1. CASE Prepare(x)
  <2> DEFINE r == [NoThread EXCEPT !.pc = "list"]
  <2>1. thread' = [thread EXCEPT ![x] = r] /\ UNCHANGED <<session, journal>>
    BY <1>1, <1>t DEF Prepare, Go, Put, ThreadOK
  <2>2. Benign
    BY <1>a, <2>1 DEF Benign
  <2>3. \A u \in Threads : Alive(ProcessOf(u)) => Alive(ProcessOf(u))'
    BY <1>a DEF Alive, ProcessOf
  <2>4. (\A u \in Threads \ {x} : ThreadOK(u)' /\ thread'[u] = thread[u]) /\ thread'[x] = r
    BY <1>t, <2>1, <2>2, <2>3, OthersOK
  <2>5. ThreadOK(x)'
    <3>1. Alive(ProcessOf(x))'
      BY <1>a, <1>t, <2>3
    <3> QED
      BY <2>4, <3>1 DEF ThreadOK, NoThread, AtEntry
  <2>6. r \in Thread
    BY DEF Thread, NoThread, Points
  <2>7. TypeOK'
    BY <1>a, <2>1, <2>6 DEF Inv, TypeOK
  <2>8. ASSUME NEW w \in Traces
        PROVE  TraceOK(w)'
    <3>1. TraceOK(w) /\ w \in Threads
      BY Kinds DEF Inv
    <3>2. w # x => thread'[w] = thread[w]
      BY <2>4, <3>1
    <3>3. thread'[x].pc = "list" /\ me.pc = "idle"
      BY <1>1, <2>4 DEF NoThread, Prepare
    <3> QED
      BY <1>a, <2>1, <3>1, <3>2, <3>3 DEF TraceOK
  <2> QED
    BY <1>a, <2>4, <2>5, <2>7, <2>8 DEF Inv
<1>2. CASE Prepared(x)
  <2> DEFINE pc == IF me.errors THEN "ended" ELSE "register"
             r == [me EXCEPT !.pc = pc, !.recovered = TRUE]
  <2>1. thread' = [thread EXCEPT ![x] = r] /\ UNCHANGED <<session, journal>> /\ me.pc = "recovered"
    BY <1>2 DEF Prepared, Put, At
  <2>2. pc \in {"ended", "register"}
    OBVIOUS
  <2> HIDE DEF pc
  <2>3. r \in Thread /\ r.pc = pc /\ r.todo = me.todo /\ r.due = me.due /\ r.errors = me.errors
    BY <1>t, <2>2 DEF Thread, Points
  <2> HIDE DEF r
  <2> QED
    BY <1>a, <1>s, <1>t, <2>1, <2>2, <2>3 DEF AtEntry, Points, TraceOK
<1>3. CASE Register(x)
  BY <1>3, <1>a, <1>g, <1>t DEF Register, RegisterFirst, At, AtEntry, Points, TraceOK
<1>4. CASE StartTrace(x)
  <2>1. me.pc = "start" /\ journal' = journal /\ x \in journal
    BY <1>4, <1>t DEF StartTrace, At, TraceOK
  <2>2. CASE session[x] = "off" /\ session' = [session EXCEPT ![x] = "on"] /\ Go(x, "tracing")
    BY <1>g, <2>1, <2>2 DEF AtEntry, Points
  <2>3. CASE Go(x, "drop_clear") /\ session' = session
    <3>1. session[x] # "on"
      BY <1>a, <1>t, <2>1 DEF TraceOK
    <3> QED
      BY <1>g, <2>1, <2>3, <3>1 DEF AtEntry, Points
  <2> QED
    BY <1>4, <2>2, <2>3 DEF StartTrace
<1>5. CASE GiveUp(x)
  BY <1>5, <1>a, <1>g, <1>t DEF GiveUp, At, AtEntry, Points, TraceOK
<1>6. CASE StopTrace(x)
  BY <1>6, <1>a, <1>g, <1>t DEF StopTrace, At, AtEntry, Points, TraceOK, Inv, TypeOK
<1>7. CASE ClearTrace(x)
  BY <1>7, <1>a, <1>g, <1>t DEF ClearTrace, At, AtEntry, Points, TraceOK
<1>8. CASE DropStop(x)
  BY <1>8, <1>a, <1>g, <1>t DEF DropStop, At, AtEntry, Points, TraceOK, Inv, TypeOK
<1>9. CASE DropClear(x)
  BY <1>9, <1>a, <1>g, <1>t DEF DropClear, At, AtEntry, Points, TraceOK
<1> QED
  BY <1>1, <1>2, <1>3, <1>4, <1>5, <1>6, <1>7, <1>8, <1>9 DEF Tracing

LEMMA OutsideStep ==
    ASSUME Inv, NEW x \in Traces, OutsideStops(x)
    PROVE  Inv'
<1>1. UNCHANGED <<process, thread, journal, past>> /\ session' = [session EXCEPT ![x] = "off"]
  BY DEF OutsideStops
<1>2. Benign /\ TypeOK'
  BY <1>1 DEF Benign, Inv, TypeOK
<1>3. ASSUME NEW t \in Threads
      PROVE  ThreadOK(t)'
  <2>1. Alive(ProcessOf(t)) => Alive(ProcessOf(t))'
    BY <1>1 DEF Alive, ProcessOf
  <2> QED
    BY <1>1, <1>2, <2>1, ThreadFrame DEF Inv
<1>4. ASSUME NEW w \in Traces
      PROVE  TraceOK(w)'
  BY <1>1, TraceFrame DEF Inv, TypeOK
<1> QED
  BY <1>1, <1>2, <1>3, <1>4 DEF Inv

----------------------------------------------------------------------------
(* The invariant, and what follows from it.                                *)

LEMMA InvInit == Init => Inv
<1> SUFFICES ASSUME Init PROVE Inv
  OBVIOUS
<1>1. \A t \in Threads : thread[t] = NoThread
  BY DEF Init
<1>2. TypeOK
  <2>1. NoThread \in Thread
    BY DEF NoThread, Thread, Points
  <2> QED
    BY <2>1 DEF Init, TypeOK
<1>3. \A t \in Threads : ThreadOK(t)
  BY <1>1 DEF ThreadOK, NoThread, AtEntry
<1>4. \A w \in Traces : TraceOK(w)
  BY <1>1, Kinds DEF TraceOK, NoThread, Init
<1> QED
  BY <1>2, <1>3, <1>4 DEF Inv, Init

LEMMA InvStep == Inv /\ [Next]_vars => Inv'
<1> SUFFICES ASSUME Inv, [Next]_vars PROVE Inv'
  OBVIOUS
<1>1. CASE UNCHANGED vars
  BY <1>1 DEF vars, Inv, TypeOK, ThreadOK, TraceOK, Ended, Alive, ProcessOf
<1>2. CASE Next
  BY <1>2, RecoveryStep, StartStep, ServeStep, CrashStep, TracingStep, OutsideStep DEF Next
<1> QED
  BY <1>1, <1>2

LEMMA InvAlways == Spec => []Inv
BY InvInit, InvStep, PTL DEF Spec

\* The processes, threads, sessions and journal have their types.
THEOREM TracesTyped == Spec => []TypeOK
<1>1. Inv => TypeOK
  BY DEF Inv
<1> QED
  BY <1>1, InvAlways, PTL

\* A session that runs is in the journal at every instant; a recovery that reports no error
\* has ended what was due; and no recovery stops the session of a live controller.
THEOREM OwnershipAlwaysKept == Spec => []OwnershipIsKept
<1>1. Inv => OwnershipIsKept
  <2> SUFFICES ASSUME Inv PROVE OwnershipIsKept
    OBVIOUS
  <2>1. EverySessionIsOwned
    BY DEF Inv, TraceOK, EverySessionIsOwned
  <2>2. CleanReportIsClean
    BY DEF Inv, ThreadOK, Ended, CleanReportIsClean
  <2> QED
    BY <2>1, <2>2 DEF Inv, LiveSessionsAreLeft, OwnershipIsKept
<1> QED
  BY <1>1, InvAlways, PTL

----------------------------------------------------------------------------
(* The PowerShell pool: the inductive invariant.                           *)

Leasing == {"leased", "starting", "probing", "ready", "polled", "clear", "sent", "dropping"}
PolledPhases == {"polled", "clear", "sent"}
Holding == Leasing \cup {"granted", "returned"}
Lessees == {r \in Requests : phase[r] \in Leasing}
Holders == {r \in Requests : phase[r] \in Holding}

\* Each slot is idle once, or leased to one request.
SlotInv ==
    /\ \A r \in Requests : IF phase[r] \in Leasing THEN p_slot[r] \in 1..Size ELSE p_slot[r] = 0
    /\ \A r, q \in Requests : p_slot[r] = p_slot[q] /\ p_slot[r] # 0 => r = q
    /\ \A i, j \in 1..Len(idle) : idle[i] = idle[j] => i = j
    /\ \A i \in 1..Len(idle), r \in Requests : idle[i] # p_slot[r]

\* No permit and no slot is lost, or there twice.
CountInv ==
    /\ permits + Cardinality(Holders) = Size
    /\ Len(idle) + Cardinality(Lessees) = Size

\* What the worker of a request has been sent.
LeaseInv ==
    \A r \in Requests :
        LET mine == p_worker[p_slot[r]] IN
        /\ phase[r] = "probing" => mine \in Pool!Worker /\ mine.cmd = Nobody
        /\ phase[r] = "ready" => mine \in Pool!Worker /\ mine.healthy /\ mine.cmd = Nobody
        /\ phase[r] \in PolledPhases => mine \in Pool!Worker /\ mine.noise # "early"
        /\ phase[r] \in {"polled", "clear"} => mine.cmd = Nobody /\ ~mine.healthy
        /\ phase[r] = "sent" => mine.cmd = r

HealthInv ==
    \A s \in 1..Size :
        p_worker[s] # NoWorker /\ p_worker[s].healthy => p_worker[s].cmd = Nobody

PoolInv ==
    /\ Pool!TypeOK /\ SlotInv /\ CountInv /\ LeaseInv /\ HealthInv
    /\ Pool!CommandsAreLeased /\ Pool!NoForeignOutput

----------------------------------------------------------------------------
(* Counting requests.                                                      *)

LEMMA SizeIs == Size \in Nat \ {0} /\ Nobody \notin Requests
BY PoolAssumption DEF Pool!PoolAssumption

LEMMA RequestsAreFinite == IsFiniteSet(Requests)
BY PoolAssumption DEF Pool!PoolAssumption, Pool!IsFiniteSet, IsFiniteSet

One(condition) == IF condition THEN 1 ELSE 0

\* A request that is counted before or after a step.
LEMMA OneMoves ==
    ASSUME NEW S \in SUBSET Requests, NEW T \in SUBSET Requests, NEW r \in Requests,
           T \ {r} = S \ {r}
    PROVE  /\ Cardinality(S) \in Nat /\ Cardinality(T) \in Nat
           /\ Cardinality(T) + One(r \in S) = Cardinality(S) + One(r \in T)
<1>1. IsFiniteSet(S) /\ IsFiniteSet(T)
  BY RequestsAreFinite, FS_Subset
<1>2. Cardinality(S) \in Nat /\ Cardinality(T) \in Nat
  BY <1>1, FS_CardinalityType
<1>3. ASSUME r \in S, r \notin T
      PROVE  Cardinality(T) = Cardinality(S) - 1
  <2>1. T = S \ {r}
    BY <1>3
  <2> QED BY <1>1, <1>3, <2>1, FS_RemoveElement
<1>4. ASSUME r \notin S, r \in T
      PROVE  Cardinality(T) = Cardinality(S) + 1
  <2>1. T = S \cup {r}
    BY <1>4
  <2> QED BY <1>1, <1>4, <2>1, FS_AddElement
<1>5. ASSUME r \in S <=> r \in T
      PROVE  T = S
  BY <1>5
<1> QED BY <1>2, <1>3, <1>4, <1>5 DEF One

\* What a step of one request does to the numbers.
CountsMoved(r, to) ==
    /\ Cardinality(Holders) \in Nat /\ Cardinality(Lessees) \in Nat
    /\ Cardinality(Holders') \in Nat /\ Cardinality(Lessees') \in Nat
    /\ Cardinality(Holders') + One(phase[r] \in Holding)
          = Cardinality(Holders) + One(to \in Holding)
    /\ Cardinality(Lessees') + One(phase[r] \in Leasing)
          = Cardinality(Lessees) + One(to \in Leasing)

LEMMA CountsMove ==
    ASSUME phase \in [Requests -> Pool!Phases], NEW r \in Requests, NEW to \in Pool!Phases,
           phase' = [phase EXCEPT ![r] = to]
    PROVE  CountsMoved(r, to)
<1>1. /\ Holders \in SUBSET Requests /\ Holders' \in SUBSET Requests
      /\ Lessees \in SUBSET Requests /\ Lessees' \in SUBSET Requests
      /\ Holders' \ {r} = Holders \ {r} /\ Lessees' \ {r} = Lessees \ {r}
  BY DEF Holders, Lessees
<1>2. /\ r \in Holders <=> phase[r] \in Holding
      /\ r \in Holders' <=> to \in Holding
      /\ r \in Lessees <=> phase[r] \in Leasing
      /\ r \in Lessees' <=> to \in Leasing
  BY DEF Holders, Lessees
<1>3. /\ One(r \in Holders) = One(phase[r] \in Holding)
      /\ One(r \in Holders') = One(to \in Holding)
      /\ One(r \in Lessees) = One(phase[r] \in Leasing)
      /\ One(r \in Lessees') = One(to \in Leasing)
  BY <1>2 DEF One
<1>4. /\ Cardinality(Holders) \in Nat /\ Cardinality(Holders') \in Nat
      /\ Cardinality(Holders') + One(r \in Holders) = Cardinality(Holders) + One(r \in Holders')
  BY <1>1, OneMoves
<1>5. /\ Cardinality(Lessees) \in Nat /\ Cardinality(Lessees') \in Nat
      /\ Cardinality(Lessees') + One(r \in Lessees) = Cardinality(Lessees) + One(r \in Lessees')
  BY <1>1, OneMoves
<1> QED BY <1>3, <1>4, <1>5 DEF CountsMoved

LEMMA InitPool == Pool!Init => PoolInv
<1> SUFFICES ASSUME Pool!Init PROVE PoolInv
  OBVIOUS
<1> USE SizeIs DEF Pool!Init, Pool!WorkerSlots
<1>1. idle \in Seq(1..Size) /\ Len(idle) = Size /\ \A i \in 1..Size : idle[i] = i
  OBVIOUS
<1>2. Pool!TypeOK
  BY <1>1 DEF Pool!TypeOK, Pool!Phases
<1>3. SlotInv
  BY <1>1 DEF SlotInv, Leasing
<1>4. CountInv
  <2>1. Holders = {} /\ Lessees = {}
    BY DEF Holders, Lessees, Holding, Leasing
  <2>2. Cardinality({}) = 0
    BY FS_EmptySet
  <2> QED BY <1>1, <2>1, <2>2 DEF CountInv
<1>5. LeaseInv /\ HealthInv /\ Pool!CommandsAreLeased /\ Pool!NoForeignOutput
  BY DEF LeaseInv, HealthInv, PolledPhases, Pool!CommandsAreLeased, Pool!NoForeignOutput
<1> QED BY <1>2, <1>3, <1>4, <1>5 DEF PoolInv

PoolSteps == [Pool!Next]_(Pool!vars)

----------------------------------------------------------------------------
(* Each part is preserved.                                                 *)

\* What a step does to the worker of its lease.
Puts(s, x) == p_worker' = [p_worker EXCEPT ![s] = x] /\ x \in Pool!Worker \cup {NoWorker}

LeaseEffect(r, x, to) ==
    /\ Puts(p_slot[r], x) /\ UNCHANGED <<p_slot, permits, idle>>
    /\ phase[r] \in Leasing /\ to \in Leasing /\ phase' = [phase EXCEPT ![r] = to]
    /\ to = "probing" => x \in Pool!Worker /\ x.cmd = Nobody
    /\ to = "ready" => x \in Pool!Worker /\ x.healthy /\ x.cmd = Nobody
    /\ to \in PolledPhases => x \in Pool!Worker /\ x.noise # "early"
    /\ to \in {"polled", "clear"} => x.cmd = Nobody /\ ~x.healthy
    /\ to = "sent" => x.cmd = r
    /\ x # NoWorker /\ x.healthy => x.cmd = Nobody
    /\ x # NoWorker => \/ x.cmd \in {Nobody, r}
                       \/ p_worker[p_slot[r]] # NoWorker /\ x.cmd = p_worker[p_slot[r]].cmd
    /\ returned' \in [Requests -> {"none", "own", "mixed", "error"}]
    /\ \A q \in Requests : returned'[q] = "mixed" => returned[q] = "mixed"

ProcessEffect(s, x) ==
    /\ s \in 1..Size /\ p_worker[s] # NoWorker /\ p_worker[s] \in Pool!Worker
    /\ Puts(s, x) /\ x \in Pool!Worker
    /\ x.healthy = p_worker[s].healthy /\ x.cmd = p_worker[s].cmd
    /\ x.noise = "early" => p_worker[s].noise = "early" \/ ~Pool!Polled(s)
    /\ UNCHANGED <<phase, p_slot, returned, permits, idle>>

\* The fields of a worker that is changed.
LEMMA WorkerHealthIs ==
    ASSUME NEW x \in Pool!Worker, NEW h \in BOOLEAN
    PROVE  LET y == [x EXCEPT !.healthy = h]
           IN  y \in Pool!Worker /\ y.healthy = h /\ y.cmd = x.cmd /\ y.noise = x.noise
BY DEF Pool!Worker

LEMMA WorkerDoneIs ==
    ASSUME NEW x \in Pool!Worker
    PROVE  LET y == [x EXCEPT !.healthy = TRUE, !.cmd = Nobody, !.answered = FALSE, !.noise = "none",
                              !.stray = FALSE]
           IN  y \in Pool!Worker /\ y.healthy /\ y.cmd = Nobody /\ y.noise = "none"
BY DEF Pool!Worker

LEMMA WorkerAnsweredIs ==
    ASSUME NEW x \in Pool!Worker
    PROVE  LET y == [x EXCEPT !.answered = TRUE, !.leaky = x.leaky \/ x.cmd \in Leaky]
           IN  y \in Pool!Worker /\ y.healthy = x.healthy /\ y.cmd = x.cmd /\ y.noise = x.noise
BY DEF Pool!Worker

LEMMA WorkerStrayIs ==
    ASSUME NEW x \in Pool!Worker
    PROVE  LET y == [x EXCEPT !.stray = TRUE]
           IN  y \in Pool!Worker /\ y.healthy = x.healthy /\ y.cmd = x.cmd /\ y.noise = x.noise
BY DEF Pool!Worker

LEMMA WorkerDeadIs ==
    ASSUME NEW x \in Pool!Worker
    PROVE  LET y == [x EXCEPT !.alive = FALSE]
           IN  y \in Pool!Worker /\ y.healthy = x.healthy /\ y.cmd = x.cmd /\ y.noise = x.noise
BY DEF Pool!Worker

LEMMA WorkerToldIs ==
    ASSUME NEW x \in Pool!Worker, NEW r \in Requests
    PROVE  LET y == [x EXCEPT !.cmd = r]
           IN  y \in Pool!Worker /\ y.healthy = x.healthy /\ y.cmd = r /\ y.noise = x.noise
BY DEF Pool!Worker

LEMMA NoisyIs ==
    ASSUME NEW x \in Pool!Worker, NEW noise \in {"early", "late"}
    PROVE  LET y == [x EXCEPT !.noise = noise]
           IN  y \in Pool!Worker /\ y.healthy = x.healthy /\ y.cmd = x.cmd /\ y.noise = noise
BY DEF Pool!Worker

LEMMA FreshIs == Pool!Fresh \in Pool!Worker /\ ~Pool!Fresh.healthy /\ Pool!Fresh.cmd = Nobody
BY DEF Pool!Fresh, Pool!Worker

LEMMA PrepareIs ==
    ASSUME PoolInv, NEW r \in Requests, Pool!Prepare(r)
    PROVE  \E x, to : LeaseEffect(r, x, to)
<1> DEFINE mine == p_worker[p_slot[r]]
           sick == [mine EXCEPT !.healthy = FALSE]
<1>1. /\ phase[r] = "leased" /\ p_slot[r] \in 1..Size
      /\ mine \in Pool!Worker \cup {NoWorker}
      /\ mine # NoWorker /\ mine.healthy => mine.cmd = Nobody
      /\ p_worker \in [1..Size -> Pool!Worker \cup {NoWorker}]
      /\ returned \in [Requests -> {"none", "own", "mixed", "error"}]
  BY DEF Pool!Prepare, PoolInv, SlotInv, HealthInv, Pool!TypeOK, Pool!WorkerSlots, Leasing, PolledPhases
<1>2. mine # NoWorker => /\ sick \in Pool!Worker /\ ~sick.healthy /\ sick.cmd = mine.cmd
  BY <1>1, WorkerHealthIs
<1>3. UNCHANGED <<p_slot, permits, idle>>
  BY DEF Pool!Prepare
<1>4. p_worker = [p_worker EXCEPT ![p_slot[r]] = mine]
  BY <1>1
<1>5. \/ /\ mine # NoWorker /\ mine.healthy
         /\ phase' = [phase EXCEPT ![r] = "ready"] /\ p_worker' = p_worker /\ returned' = returned
      \/ /\ phase' = [phase EXCEPT ![r] = "starting"]
         /\ p_worker' = [p_worker EXCEPT ![p_slot[r]] = NoWorker] /\ returned' = returned
      \/ /\ phase' = [phase EXCEPT ![r] = "dropping"] /\ p_worker' = p_worker
         /\ returned' = [returned EXCEPT ![r] = "error"]
      \/ /\ phase' = [phase EXCEPT ![r] = "dropping"] /\ mine # NoWorker
         /\ p_worker' = [p_worker EXCEPT ![p_slot[r]] = sick]
         /\ returned' = [returned EXCEPT ![r] = "error"]
  BY DEF Pool!Prepare, Pool!Mine, Pool!Fails
<1> HIDE DEF mine, sick
<1> USE DEF LeaseEffect, Puts, Leasing, PolledPhases
<1>6. CASE /\ mine # NoWorker /\ mine.healthy
           /\ phase' = [phase EXCEPT ![r] = "ready"] /\ p_worker' = p_worker /\ returned' = returned
  <2>1. LeaseEffect(r, mine, "ready")
    BY <1>1, <1>3, <1>4, <1>6 DEF mine
  <2> QED BY <2>1
<1>7. CASE /\ phase' = [phase EXCEPT ![r] = "starting"]
           /\ p_worker' = [p_worker EXCEPT ![p_slot[r]] = NoWorker] /\ returned' = returned
  <2>1. LeaseEffect(r, NoWorker, "starting")
    BY <1>1, <1>3, <1>7
  <2> QED BY <2>1
<1>8. CASE /\ phase' = [phase EXCEPT ![r] = "dropping"] /\ p_worker' = p_worker
           /\ returned' = [returned EXCEPT ![r] = "error"]
  <2>1. LeaseEffect(r, mine, "dropping")
    BY <1>1, <1>3, <1>4, <1>8 DEF mine
  <2> QED BY <2>1
<1>9. CASE /\ phase' = [phase EXCEPT ![r] = "dropping"] /\ mine # NoWorker
           /\ p_worker' = [p_worker EXCEPT ![p_slot[r]] = sick]
           /\ returned' = [returned EXCEPT ![r] = "error"]
  <2>1. LeaseEffect(r, sick, "dropping")
    <3>1. sick \in Pool!Worker /\ ~sick.healthy /\ sick.cmd = mine.cmd
      BY <1>2, <1>9
    <3> QED BY <1>1, <1>3, <1>9, <3>1 DEF mine
  <2> QED BY <2>1
<1> QED BY <1>5, <1>6, <1>7, <1>8, <1>9

LEMMA SpawnIs ==
    ASSUME PoolInv, NEW r \in Requests, Pool!Spawn(r)
    PROVE  \E x, to : LeaseEffect(r, x, to)
<1> DEFINE mine == p_worker[p_slot[r]]
<1>1. /\ phase[r] \in {"starting"} /\ p_slot[r] \in 1..Size
      /\ mine \in Pool!Worker \cup {NoWorker}
      /\ mine # NoWorker /\ mine.healthy => mine.cmd = Nobody
      /\ p_worker \in [1..Size -> Pool!Worker \cup {NoWorker}]
      /\ returned \in [Requests -> {"none", "own", "mixed", "error"}]
  BY DEF Pool!Spawn, PoolInv, SlotInv, LeaseInv, HealthInv, Pool!TypeOK, Pool!WorkerSlots, Leasing, PolledPhases
<1>3. UNCHANGED <<p_slot, permits, idle>>
  BY DEF Pool!Spawn
<1>4. p_worker = [p_worker EXCEPT ![p_slot[r]] = mine]
  BY <1>1
<1>5. \/ /\ phase' = [phase EXCEPT ![r] = "probing"]
         /\ p_worker' = [p_worker EXCEPT ![p_slot[r]] = Pool!Fresh]
         /\ returned' = returned
      \/ /\ phase' = [phase EXCEPT ![r] = "dropping"]
         /\ p_worker' = p_worker
         /\ returned' = [returned EXCEPT ![r] = "error"]
  BY <1>1 DEF Pool!Spawn, Pool!Fails
<1> HIDE DEF mine
<1> USE DEF LeaseEffect, Puts, Leasing, PolledPhases
<1>6. CASE /\ phase' = [phase EXCEPT ![r] = "probing"]
          /\ p_worker' = [p_worker EXCEPT ![p_slot[r]] = Pool!Fresh]
          /\ returned' = returned
  <2>1. LeaseEffect(r, Pool!Fresh, "probing")
    BY <1>1, FreshIs, <1>3, <1>4, <1>6 DEF mine
  <2> QED BY <2>1
<1>7. CASE /\ phase' = [phase EXCEPT ![r] = "dropping"]
          /\ p_worker' = p_worker
          /\ returned' = [returned EXCEPT ![r] = "error"]
  <2>1. LeaseEffect(r, mine, "dropping")
    BY <1>1, FreshIs, <1>3, <1>4, <1>7 DEF mine
  <2> QED BY <2>1
<1> QED BY <1>5, <1>6, <1>7

LEMMA ProbeEndsIs ==
    ASSUME PoolInv, NEW r \in Requests, Pool!ProbeEnds(r)
    PROVE  \E x, to : LeaseEffect(r, x, to)
<1> DEFINE mine == p_worker[p_slot[r]]
           healthy == [mine EXCEPT !.healthy = TRUE]
<1>1. /\ phase[r] \in {"probing"} /\ p_slot[r] \in 1..Size
      /\ mine \in Pool!Worker \cup {NoWorker}
      /\ mine # NoWorker /\ mine.healthy => mine.cmd = Nobody
      /\ mine \in Pool!Worker /\ mine.cmd = Nobody
      /\ p_worker \in [1..Size -> Pool!Worker \cup {NoWorker}]
      /\ returned \in [Requests -> {"none", "own", "mixed", "error"}]
  BY DEF Pool!ProbeEnds, PoolInv, SlotInv, LeaseInv, HealthInv, Pool!TypeOK, Pool!WorkerSlots, Leasing, PolledPhases
<1>2. healthy \in Pool!Worker /\ healthy.healthy /\ healthy.cmd = Nobody
  BY <1>1, WorkerHealthIs
<1>3. UNCHANGED <<p_slot, permits, idle>>
  BY DEF Pool!ProbeEnds
<1>4. p_worker = [p_worker EXCEPT ![p_slot[r]] = mine]
  BY <1>1
<1>5. \/ /\ phase' = [phase EXCEPT ![r] = "ready"]
         /\ p_worker' = [p_worker EXCEPT ![p_slot[r]] = healthy]
         /\ returned' = returned
      \/ /\ phase' = [phase EXCEPT ![r] = "dropping"]
         /\ p_worker' = [p_worker EXCEPT ![p_slot[r]] = NoWorker]
         /\ returned' = [returned EXCEPT ![r] = "error"]
  BY <1>1 DEF Pool!ProbeEnds, Pool!Mine, Pool!Fails
<1> HIDE DEF mine, healthy
<1> USE DEF LeaseEffect, Puts, Leasing, PolledPhases
<1>6. CASE /\ phase' = [phase EXCEPT ![r] = "ready"]
          /\ p_worker' = [p_worker EXCEPT ![p_slot[r]] = healthy]
          /\ returned' = returned
  <2>1. LeaseEffect(r, healthy, "ready")
    BY <1>1, <1>2, <1>3, <1>4, <1>6 DEF mine
  <2> QED BY <2>1
<1>7. CASE /\ phase' = [phase EXCEPT ![r] = "dropping"]
          /\ p_worker' = [p_worker EXCEPT ![p_slot[r]] = NoWorker]
          /\ returned' = [returned EXCEPT ![r] = "error"]
  <2>1. LeaseEffect(r, NoWorker, "dropping")
    BY <1>1, <1>2, <1>3, <1>4, <1>7 DEF mine
  <2> QED BY <2>1
<1> QED BY <1>5, <1>6, <1>7

LEMMA PollStdoutIs ==
    ASSUME PoolInv, NEW r \in Requests, Pool!PollStdout(r)
    PROVE  \E x, to : LeaseEffect(r, x, to)
<1> DEFINE mine == p_worker[p_slot[r]]
           sick == [mine EXCEPT !.healthy = FALSE]
<1>1. /\ phase[r] = "ready" /\ p_slot[r] \in 1..Size
      /\ mine \in Pool!Worker /\ mine.cmd = Nobody
      /\ mine.healthy => mine.cmd = Nobody
      /\ p_worker \in [1..Size -> Pool!Worker \cup {NoWorker}]
      /\ returned \in [Requests -> {"none", "own", "mixed", "error"}]
  BY DEF Pool!PollStdout, PoolInv, SlotInv, LeaseInv, HealthInv, Pool!TypeOK, Pool!WorkerSlots, Leasing,
    PolledPhases
<1>2. /\ sick \in Pool!Worker /\ ~sick.healthy /\ sick.cmd = Nobody /\ sick.noise = mine.noise
  BY <1>1, WorkerHealthIs
<1>3. UNCHANGED <<p_slot, permits, idle>>
  BY DEF Pool!PollStdout
<1>4. p_worker = [p_worker EXCEPT ![p_slot[r]] = mine]
  BY <1>1
<1>5. \/ /\ mine.noise = "none"
         /\ phase' = [phase EXCEPT ![r] = "polled"]
         /\ p_worker' = [p_worker EXCEPT ![p_slot[r]] = sick]
         /\ returned' = returned
      \/ /\ phase' = [phase EXCEPT ![r] = "dropping"]
         /\ p_worker' = [p_worker EXCEPT ![p_slot[r]] = sick]
         /\ returned' = [returned EXCEPT ![r] = "error"]
  BY <1>1 DEF Pool!PollStdout, Pool!Mine, Pool!Fails
<1> HIDE DEF mine, sick
<1> USE DEF LeaseEffect, Puts, Leasing, PolledPhases
<1>6. CASE /\ mine.noise = "none"
          /\ phase' = [phase EXCEPT ![r] = "polled"]
          /\ p_worker' = [p_worker EXCEPT ![p_slot[r]] = sick]
          /\ returned' = returned
  <2>1. LeaseEffect(r, sick, "polled")
    BY <1>1, <1>2, <1>3, <1>4, <1>6 DEF mine
  <2> QED BY <2>1
<1>7. CASE /\ phase' = [phase EXCEPT ![r] = "dropping"]
          /\ p_worker' = [p_worker EXCEPT ![p_slot[r]] = sick]
          /\ returned' = [returned EXCEPT ![r] = "error"]
  <2>1. LeaseEffect(r, sick, "dropping")
    BY <1>1, <1>2, <1>3, <1>4, <1>7 DEF mine
  <2> QED BY <2>1
<1> QED BY <1>5, <1>6, <1>7

LEMMA PollStderrIs ==
    ASSUME PoolInv, NEW r \in Requests, Pool!PollStderr(r)
    PROVE  \E x, to : LeaseEffect(r, x, to)
<1> DEFINE mine == p_worker[p_slot[r]]
<1>1. /\ phase[r] = "polled" /\ p_slot[r] \in 1..Size
      /\ mine \in Pool!Worker /\ mine.cmd = Nobody /\ mine.noise # "early" /\ ~mine.healthy
      /\ mine.healthy => mine.cmd = Nobody
      /\ p_worker \in [1..Size -> Pool!Worker \cup {NoWorker}]
      /\ returned \in [Requests -> {"none", "own", "mixed", "error"}]
  BY DEF Pool!PollStderr, PoolInv, SlotInv, LeaseInv, HealthInv, Pool!TypeOK, Pool!WorkerSlots, Leasing,
    PolledPhases
<1>3. UNCHANGED <<p_slot, permits, idle>>
  BY DEF Pool!PollStderr
<1>4. p_worker = [p_worker EXCEPT ![p_slot[r]] = mine]
  BY <1>1
<1>5. \/ /\ phase' = [phase EXCEPT ![r] = "clear"]
         /\ p_worker' = p_worker
         /\ returned' = returned
      \/ /\ phase' = [phase EXCEPT ![r] = "dropping"]
         /\ p_worker' = p_worker
         /\ returned' = [returned EXCEPT ![r] = "error"]
  BY <1>1 DEF Pool!PollStderr, Pool!Mine, Pool!Fails
<1> HIDE DEF mine
<1> USE DEF LeaseEffect, Puts, Leasing, PolledPhases
<1>6. CASE /\ phase' = [phase EXCEPT ![r] = "clear"]
          /\ p_worker' = p_worker
          /\ returned' = returned
  <2>1. LeaseEffect(r, mine, "clear")
    BY <1>1, <1>3, <1>4, <1>6 DEF mine
  <2> QED BY <2>1
<1>7. CASE /\ phase' = [phase EXCEPT ![r] = "dropping"]
          /\ p_worker' = p_worker
          /\ returned' = [returned EXCEPT ![r] = "error"]
  <2>1. LeaseEffect(r, mine, "dropping")
    BY <1>1, <1>3, <1>4, <1>7 DEF mine
  <2> QED BY <2>1
<1> QED BY <1>5, <1>6, <1>7

LEMMA WriteIs ==
    ASSUME PoolInv, NEW r \in Requests, Pool!Write(r)
    PROVE  \E x, to : LeaseEffect(r, x, to)
<1> DEFINE mine == p_worker[p_slot[r]]
           told == [mine EXCEPT !.cmd = r]
<1>1. /\ phase[r] = "clear" /\ p_slot[r] \in 1..Size
      /\ mine \in Pool!Worker /\ mine.cmd = Nobody /\ mine.noise # "early" /\ ~mine.healthy
      /\ mine.healthy => mine.cmd = Nobody
      /\ p_worker \in [1..Size -> Pool!Worker \cup {NoWorker}]
      /\ returned \in [Requests -> {"none", "own", "mixed", "error"}]
  BY DEF Pool!Write, PoolInv, SlotInv, LeaseInv, HealthInv, Pool!TypeOK, Pool!WorkerSlots, Leasing,
    PolledPhases
<1>2. told \in Pool!Worker /\ ~told.healthy /\ told.cmd = r /\ told.noise = mine.noise
  BY <1>1, WorkerToldIs
<1>3. UNCHANGED <<p_slot, permits, idle>>
  BY DEF Pool!Write
<1>4. p_worker = [p_worker EXCEPT ![p_slot[r]] = mine]
  BY <1>1
<1>5. \/ /\ phase' = [phase EXCEPT ![r] = "sent"]
         /\ p_worker' = [p_worker EXCEPT ![p_slot[r]] = told]
         /\ returned' = returned
      \/ /\ phase' = [phase EXCEPT ![r] = "dropping"]
         /\ p_worker' = p_worker
         /\ returned' = [returned EXCEPT ![r] = "error"]
  BY <1>1 DEF Pool!Write, Pool!Mine, Pool!Fails
<1> HIDE DEF mine, told
<1> USE DEF LeaseEffect, Puts, Leasing, PolledPhases
<1>6. CASE /\ phase' = [phase EXCEPT ![r] = "sent"]
          /\ p_worker' = [p_worker EXCEPT ![p_slot[r]] = told]
          /\ returned' = returned
  <2>1. LeaseEffect(r, told, "sent")
    BY <1>1, <1>2, <1>3, <1>4, <1>6 DEF mine
  <2> QED BY <2>1
<1>7. CASE /\ phase' = [phase EXCEPT ![r] = "dropping"]
          /\ p_worker' = p_worker
          /\ returned' = [returned EXCEPT ![r] = "error"]
  <2>1. LeaseEffect(r, mine, "dropping")
    BY <1>1, <1>2, <1>3, <1>4, <1>7 DEF mine
  <2> QED BY <2>1
<1> QED BY <1>5, <1>6, <1>7

LEMMA ReceiveIs ==
    ASSUME PoolInv, NEW r \in Requests, Pool!Receive(r)
    PROVE  \E x, to : LeaseEffect(r, x, to)
<1> DEFINE mine == p_worker[p_slot[r]]
           ready == [mine EXCEPT !.healthy = TRUE, !.cmd = Nobody, !.answered = FALSE,
                                  !.noise = "none", !.stray = FALSE]
<1>1. /\ phase[r] \in {"sent"} /\ p_slot[r] \in 1..Size
      /\ mine \in Pool!Worker \cup {NoWorker}
      /\ mine # NoWorker /\ mine.healthy => mine.cmd = Nobody
      /\ mine \in Pool!Worker /\ mine.cmd = r /\ mine.noise # "early"
      /\ p_worker \in [1..Size -> Pool!Worker \cup {NoWorker}]
      /\ returned \in [Requests -> {"none", "own", "mixed", "error"}]
  BY DEF Pool!Receive, PoolInv, SlotInv, LeaseInv, HealthInv, Pool!TypeOK, Pool!WorkerSlots, Leasing, PolledPhases
<1>2. ready \in Pool!Worker /\ ready.cmd = Nobody
  BY ONLY <1>1, WorkerDoneIs, Zenon
<1>3. UNCHANGED <<p_slot, permits, idle>>
  BY DEF Pool!Receive
<1>4. p_worker = [p_worker EXCEPT ![p_slot[r]] = mine]
  BY <1>1
<1>5. \/ /\ phase' = [phase EXCEPT ![r] = "dropping"]
         /\ p_worker' = [p_worker EXCEPT ![p_slot[r]] = ready]
         /\ returned' = [returned EXCEPT ![r] = "own"]
      \/ /\ phase' = [phase EXCEPT ![r] = "dropping"]
         /\ p_worker' = p_worker
         /\ returned' = [returned EXCEPT ![r] = "error"]
  BY <1>1 DEF Pool!Receive, Pool!Mine, Pool!Fails
<1> HIDE DEF mine, ready
<1> USE DEF LeaseEffect, Puts, Leasing, PolledPhases
<1>6. CASE /\ phase' = [phase EXCEPT ![r] = "dropping"]
          /\ p_worker' = [p_worker EXCEPT ![p_slot[r]] = ready]
          /\ returned' = [returned EXCEPT ![r] = "own"]
  <2>1. LeaseEffect(r, ready, "dropping")
    BY <1>1, <1>2, <1>3, <1>4, <1>6 DEF mine
  <2> QED BY <2>1
<1>7. CASE /\ phase' = [phase EXCEPT ![r] = "dropping"]
          /\ p_worker' = p_worker
          /\ returned' = [returned EXCEPT ![r] = "error"]
  <2>1. LeaseEffect(r, mine, "dropping")
    BY <1>1, <1>2, <1>3, <1>4, <1>7 DEF mine
  <2> QED BY <2>1
<1> QED BY <1>5, <1>6, <1>7

LEMMA WorkerLostIs ==
    ASSUME PoolInv, NEW r \in Requests, Pool!WorkerLost(r)
    PROVE  \E x, to : LeaseEffect(r, x, to)
<1> DEFINE mine == p_worker[p_slot[r]]
<1>1. /\ phase[r] \in {"sent"} /\ p_slot[r] \in 1..Size
      /\ mine \in Pool!Worker \cup {NoWorker}
      /\ mine # NoWorker /\ mine.healthy => mine.cmd = Nobody
      /\ p_worker \in [1..Size -> Pool!Worker \cup {NoWorker}]
      /\ returned \in [Requests -> {"none", "own", "mixed", "error"}]
  BY DEF Pool!WorkerLost, PoolInv, SlotInv, LeaseInv, HealthInv, Pool!TypeOK, Pool!WorkerSlots, Leasing, PolledPhases
<1>3. UNCHANGED <<p_slot, permits, idle>>
  BY DEF Pool!WorkerLost
<1>4. p_worker = [p_worker EXCEPT ![p_slot[r]] = mine]
  BY <1>1
<1>5. /\ phase' = [phase EXCEPT ![r] = "dropping"]
      /\ p_worker' = p_worker
      /\ returned' = [returned EXCEPT ![r] = "error"]
  BY <1>1 DEF Pool!WorkerLost, Pool!Fails
<1> HIDE DEF mine
<1> USE DEF LeaseEffect, Puts, Leasing, PolledPhases
<1>6. CASE /\ phase' = [phase EXCEPT ![r] = "dropping"]
          /\ p_worker' = p_worker
          /\ returned' = [returned EXCEPT ![r] = "error"]
  <2>1. LeaseEffect(r, mine, "dropping")
    BY <1>1, <1>3, <1>4, <1>6 DEF mine
  <2> QED BY <2>1
<1> QED BY <1>5, <1>6

LEMMA AbortIs ==
    ASSUME PoolInv, NEW r \in Requests, Pool!Abort(r)
    PROVE  \E x, to : LeaseEffect(r, x, to)
<1> DEFINE mine == p_worker[p_slot[r]]
<1>1. /\ phase[r] \in {"starting", "probing", "sent"} /\ p_slot[r] \in 1..Size
      /\ mine \in Pool!Worker \cup {NoWorker}
      /\ mine # NoWorker /\ mine.healthy => mine.cmd = Nobody
      /\ p_worker \in [1..Size -> Pool!Worker \cup {NoWorker}]
      /\ returned \in [Requests -> {"none", "own", "mixed", "error"}]
  BY DEF Pool!Abort, PoolInv, SlotInv, LeaseInv, HealthInv, Pool!TypeOK, Pool!WorkerSlots, Leasing, PolledPhases
<1>3. UNCHANGED <<p_slot, permits, idle>>
  BY DEF Pool!Abort
<1>4. p_worker = [p_worker EXCEPT ![p_slot[r]] = mine]
  BY <1>1
<1>5. \/ /\ phase' = [phase EXCEPT ![r] = "dropping"]
         /\ p_worker' = [p_worker EXCEPT ![p_slot[r]] = NoWorker]
         /\ returned' = [returned EXCEPT ![r] = "error"]
      \/ /\ phase' = [phase EXCEPT ![r] = "dropping"]
         /\ p_worker' = p_worker
         /\ returned' = [returned EXCEPT ![r] = "error"]
  BY <1>1 DEF Pool!Abort, Pool!Fails
<1> HIDE DEF mine
<1> USE DEF LeaseEffect, Puts, Leasing, PolledPhases
<1>6. CASE /\ phase' = [phase EXCEPT ![r] = "dropping"]
          /\ p_worker' = [p_worker EXCEPT ![p_slot[r]] = NoWorker]
          /\ returned' = [returned EXCEPT ![r] = "error"]
  <2>1. LeaseEffect(r, NoWorker, "dropping")
    BY <1>1, <1>3, <1>4, <1>6 DEF mine
  <2> QED BY <2>1
<1>7. CASE /\ phase' = [phase EXCEPT ![r] = "dropping"]
          /\ p_worker' = p_worker
          /\ returned' = [returned EXCEPT ![r] = "error"]
  <2>1. LeaseEffect(r, mine, "dropping")
    BY <1>1, <1>3, <1>4, <1>7 DEF mine
  <2> QED BY <2>1
<1> QED BY <1>5, <1>6, <1>7

\* The steps of a request that has a lease and keeps it.
LeaseActs(r) ==
    \/ Pool!Prepare(r) \/ Pool!Spawn(r) \/ Pool!ProbeEnds(r) \/ Pool!PollStdout(r)
    \/ Pool!PollStderr(r) \/ Pool!Write(r) \/ Pool!Receive(r) \/ Pool!WorkerLost(r)
    \/ Pool!Abort(r)

LEMMA LeaseActsAre ==
    ASSUME PoolInv, NEW r \in Requests, LeaseActs(r)
    PROVE  \E x, to : LeaseEffect(r, x, to)
BY PrepareIs, SpawnIs, ProbeEndsIs, PollStdoutIs, PollStderrIs, WriteIs, ReceiveIs, WorkerLostIs,
  AbortIs DEF LeaseActs

LEMMA AnswerIs ==
    ASSUME PoolInv, NEW s \in 1..Size, Pool!Answer(s)
    PROVE  \E x : ProcessEffect(s, x)
<1> DEFINE mine == p_worker[s]
           next == [mine EXCEPT !.answered = TRUE, !.leaky = mine.leaky \/ mine.cmd \in Leaky]
<1>1. /\ mine # NoWorker /\ mine \in Pool!Worker
      /\ UNCHANGED <<phase, p_slot, returned, permits, idle>>
  BY DEF Pool!Answer, Pool!Running, PoolInv, Pool!TypeOK, Pool!WorkerSlots
<1>2. next \in Pool!Worker /\ next.healthy = mine.healthy /\ next.cmd = mine.cmd
  BY ONLY <1>1, WorkerAnsweredIs, Zenon
<1>3. next.noise = "early" => mine.noise = "early"
  BY ONLY <1>1, WorkerAnsweredIs, Zenon
<1>4. p_worker' = [p_worker EXCEPT ![s] = next]
  BY DEF Pool!Answer
<1> HIDE DEF next
<1>5. ProcessEffect(s, next)
  BY <1>1, <1>2, <1>3, <1>4 DEF ProcessEffect, Puts
<1> QED BY <1>5

LEMMA NoiseIs ==
    ASSUME PoolInv, NEW s \in 1..Size, Pool!Noise(s)
    PROVE  \E x : ProcessEffect(s, x)
<1> DEFINE mine == p_worker[s]
           late == [mine EXCEPT !.noise = "late"]
           early == [mine EXCEPT !.noise = "early"]
           stray == [mine EXCEPT !.stray = TRUE]
<1>1. /\ mine # NoWorker /\ mine \in Pool!Worker
      /\ UNCHANGED <<phase, p_slot, returned, permits, idle>>
  BY DEF Pool!Noise, PoolInv, Pool!TypeOK, Pool!WorkerSlots
<1>2. /\ late \in Pool!Worker /\ late.healthy = mine.healthy /\ late.cmd = mine.cmd
      /\ late.noise = "late"
      /\ early \in Pool!Worker /\ early.healthy = mine.healthy /\ early.cmd = mine.cmd
  BY <1>1, NoisyIs
<1>3. /\ stray \in Pool!Worker /\ stray.healthy = mine.healthy /\ stray.cmd = mine.cmd
      /\ stray.noise = mine.noise
  BY <1>1, WorkerStrayIs
<1>4. \/ p_worker' = [p_worker EXCEPT ![s] = late]
      \/ p_worker' = [p_worker EXCEPT ![s] = early] /\ ~Pool!Polled(s)
      \/ p_worker' = [p_worker EXCEPT ![s] = stray]
  BY DEF Pool!Noise
<1> HIDE DEF late, early, stray
<1>5. CASE p_worker' = [p_worker EXCEPT ![s] = late]
  <2>1. ProcessEffect(s, late)
    BY <1>1, <1>2, <1>5 DEF ProcessEffect, Puts
  <2> QED BY <2>1
<1>6. CASE p_worker' = [p_worker EXCEPT ![s] = early] /\ ~Pool!Polled(s)
  <2>1. ProcessEffect(s, early)
    BY <1>1, <1>2, <1>6 DEF ProcessEffect, Puts
  <2> QED BY <2>1
<1>7. CASE p_worker' = [p_worker EXCEPT ![s] = stray]
  <2>1. ProcessEffect(s, stray)
    BY <1>1, <1>3, <1>7 DEF ProcessEffect, Puts
  <2> QED BY <2>1
<1> QED BY <1>4, <1>5, <1>6, <1>7

LEMMA DieIs ==
    ASSUME PoolInv, NEW s \in 1..Size, Pool!Die(s)
    PROVE  \E x : ProcessEffect(s, x)
<1> DEFINE mine == p_worker[s]
           next == [mine EXCEPT !.alive = FALSE]
<1>1. /\ mine # NoWorker /\ mine \in Pool!Worker
      /\ UNCHANGED <<phase, p_slot, returned, permits, idle>>
  BY DEF Pool!Die, Pool!Running, PoolInv, Pool!TypeOK, Pool!WorkerSlots
<1>2. next \in Pool!Worker /\ next.healthy = mine.healthy /\ next.cmd = mine.cmd
  BY <1>1, WorkerDeadIs
<1>3. next.noise = "early" => mine.noise = "early"
  BY <1>1, WorkerDeadIs
<1>4. p_worker' = [p_worker EXCEPT ![s] = next]
  BY DEF Pool!Die
<1> HIDE DEF next
<1>5. ProcessEffect(s, next)
  BY <1>1, <1>2, <1>3, <1>4 DEF ProcessEffect, Puts
<1> QED BY <1>5

\* STEPS
\* Types.
LEMMA PoolTypeStep ==
    ASSUME PoolInv, PoolSteps
    PROVE  Pool!TypeOK'
<1> USE SizeIs DEF Pool!TypeOK, Pool!WorkerSlots, Pool!Phases, SlotInv, Leasing
<1>0. PoolInv /\ Pool!TypeOK /\ SlotInv
  BY DEF PoolInv
<1>1. CASE UNCHANGED Pool!vars
  BY <1>0, <1>1 DEF Pool!vars
<1>2. ASSUME NEW r \in Requests, Pool!RequestStep(r)
      PROVE  Pool!TypeOK'
  <2>1. CASE Pool!Call(r)
    BY <1>0, <2>1 DEF Pool!Call
  <2>2. CASE Pool!AcquirePermit(r)
    BY <1>0, <2>2 DEF Pool!AcquirePermit
  <2>3. CASE Pool!GiveUpWaiting(r)
    BY <1>0, <2>3 DEF Pool!GiveUpWaiting
  <2>4. CASE Pool!TakeSlot(r)
    <3>1. CASE idle = <<>>
      BY <1>0, <2>4, <3>1 DEF Pool!TakeSlot
    <3>2. CASE idle # <<>>
      <4>1. /\ Len(idle) \in Nat \ {0} /\ Tail(idle) \in Seq(1..Size) /\ Len(Tail(idle)) = Len(idle) - 1
            /\ Head(idle) = idle[1] /\ Head(idle) \in 1..Size
            /\ \A i \in 1..(Len(idle) - 1) : Tail(idle)[i] = idle[i + 1]
        BY <1>0, <3>2
      <4>2. /\ p_slot' = [p_slot EXCEPT ![r] = Head(idle)] /\ idle' = Tail(idle)
            /\ phase' = [phase EXCEPT ![r] = "leased"] /\ phase[r] = "granted"
            /\ UNCHANGED <<permits, p_worker, returned>>
        BY <2>4, <3>2 DEF Pool!TakeSlot
      <4> QED BY <1>0, <4>1, <4>2
    <3> QED BY <3>1, <3>2
  <2>5. CASE LeaseActs(r)
    <3>1. PICK x, to : LeaseEffect(r, x, to)
      BY <1>0, <2>5, LeaseActsAre
    <3> QED BY <1>0, <3>1 DEF LeaseEffect, Puts
  <2>6. CASE Pool!DropLease(r)
    BY <1>0, <2>6 DEF Pool!DropLease, Pool!Mine
  <2>7. CASE Pool!ReleasePermit(r)
    <3>1. /\ phase[r] = "returned" /\ phase' = [phase EXCEPT ![r] = "done"]
          /\ permits' = permits + 1 /\ UNCHANGED <<p_slot, returned, idle, p_worker>>
      BY <2>7 DEF Pool!ReleasePermit
    <3>2. CountsMoved(r, "done")
      BY <1>0, <3>1, CountsMove DEF Pool!TypeOK, Pool!Phases
    <3>3. Cardinality(Holders') + 1 = Cardinality(Holders)
      BY <3>1, <3>2 DEF CountsMoved, Holding, Leasing, One
    <3>4. permits + Cardinality(Holders) = Size
      BY DEF PoolInv, CountInv
    <3>5. permits' \in 0..Size
      BY <1>0, <3>1, <3>2, <3>3, <3>4 DEF CountsMoved
    <3> QED BY <1>0, <3>1, <3>5
  <2> QED BY <1>2, <2>1, <2>2, <2>3, <2>4, <2>5, <2>6, <2>7 DEF Pool!RequestStep, LeaseActs
<1>3. ASSUME NEW s \in Pool!WorkerSlots, Pool!ProcessStep(s)
      PROVE  Pool!TypeOK'
  <2>1. CASE Pool!Answer(s)
    <3>1. PICK x : ProcessEffect(s, x)
      BY <1>0, <2>1, AnswerIs DEF Pool!WorkerSlots
    <3> QED BY <1>0, <3>1 DEF ProcessEffect, Puts
  <2>2. CASE Pool!Noise(s)
    <3>1. PICK x : ProcessEffect(s, x)
      BY <1>0, <2>2, NoiseIs DEF Pool!WorkerSlots
    <3> QED BY <1>0, <3>1 DEF ProcessEffect, Puts
  <2>3. CASE Pool!Die(s)
    <3>1. PICK x : ProcessEffect(s, x)
      BY <1>0, <2>3, DieIs DEF Pool!WorkerSlots
    <3> QED BY <1>0, <3>1 DEF ProcessEffect, Puts
  <2> QED BY <1>3, <2>1, <2>2, <2>3 DEF Pool!ProcessStep
<1> QED BY <1>1, <1>2, <1>3 DEF PoolSteps, Pool!Next

\* Each slot is in one place.
LEMMA SlotStep ==
    ASSUME PoolInv, PoolSteps
    PROVE  SlotInv'
<1> USE SizeIs DEF Pool!TypeOK, Pool!WorkerSlots, Pool!Phases, SlotInv, Leasing
<1>0. PoolInv /\ Pool!TypeOK /\ SlotInv
  BY DEF PoolInv
<1>1. CASE UNCHANGED Pool!vars
  BY <1>0, <1>1 DEF Pool!vars
<1>2. ASSUME NEW r \in Requests, Pool!RequestStep(r)
      PROVE  SlotInv'
  <2>1. CASE Pool!Call(r)
    BY <1>0, <2>1 DEF Pool!Call
  <2>2. CASE Pool!AcquirePermit(r)
    BY <1>0, <2>2 DEF Pool!AcquirePermit
  <2>3. CASE Pool!GiveUpWaiting(r)
    BY <1>0, <2>3 DEF Pool!GiveUpWaiting
  <2>4. CASE Pool!TakeSlot(r)
    <3>1. CASE idle = <<>>
      BY <1>0, <2>4, <3>1 DEF Pool!TakeSlot
    <3>2. CASE idle # <<>>
      <4>1. /\ Len(idle) \in Nat \ {0} /\ Tail(idle) \in Seq(1..Size) /\ Len(Tail(idle)) = Len(idle) - 1
            /\ Head(idle) = idle[1] /\ Head(idle) \in 1..Size
            /\ \A i \in 1..(Len(idle) - 1) : Tail(idle)[i] = idle[i + 1]
        BY <1>0, <3>2
      <4>2. /\ p_slot' = [p_slot EXCEPT ![r] = Head(idle)] /\ idle' = Tail(idle)
            /\ phase' = [phase EXCEPT ![r] = "leased"] /\ phase[r] = "granted"
            /\ UNCHANGED <<permits, p_worker, returned>>
        BY <2>4, <3>2 DEF Pool!TakeSlot
      <4> QED BY <1>0, <4>1, <4>2
    <3> QED BY <3>1, <3>2
  <2>5. CASE LeaseActs(r)
    <3>1. PICK x, to : LeaseEffect(r, x, to)
      BY <1>0, <2>5, LeaseActsAre
    <3> QED BY <1>0, <3>1 DEF LeaseEffect, Puts
  <2>6. CASE Pool!DropLease(r)
    <3>1. /\ idle' = <<p_slot[r]>> \o idle /\ p_slot' = [p_slot EXCEPT ![r] = 0]
          /\ phase' = [phase EXCEPT ![r] = "returned"] /\ phase[r] = "dropping"
      BY <2>6 DEF Pool!DropLease
    <3>2. p_slot[r] \in 1..Size /\ Len(idle) \in Nat
      BY <1>0, <3>1
    <3>3. /\ Len(idle') = Len(idle) + 1 /\ idle'[1] = p_slot[r]
          /\ \A i \in 2..(Len(idle) + 1) : idle'[i] = idle[i - 1]
      BY <1>0, <3>1, <3>2
    <3>4. ASSUME NEW i \in 1..Len(idle')
          PROVE  \/ i = 1 /\ idle'[i] = p_slot[r]
                 \/ i - 1 \in 1..Len(idle) /\ idle'[i] = idle[i - 1]
      BY <3>2, <3>3
    <3>5. ASSUME NEW i \in 1..Len(idle'), NEW q \in Requests
          PROVE  idle'[i] # p_slot'[q]
      <4>1. IF q = r THEN p_slot'[q] = 0 ELSE p_slot'[q] = p_slot[q] /\ p_slot[q] # p_slot[r]
        BY <1>0, <3>1, <3>2
      <4>2. CASE i = 1 /\ idle'[i] = p_slot[r]
        BY <3>2, <4>1, <4>2
      <4>3. CASE i - 1 \in 1..Len(idle) /\ idle'[i] = idle[i - 1]
        BY <1>0, <4>1, <4>3
      <4> QED BY <3>4, <4>2, <4>3
    <3>6. ASSUME NEW i \in 1..Len(idle'), NEW j \in 1..Len(idle'), idle'[i] = idle'[j]
          PROVE  i = j
      <4>0. \A m \in 1..Len(idle) : idle[m] # p_slot[r]
        BY <1>0
      <4>1. CASE i = 1 \/ j = 1
        BY <3>3, <3>4, <3>6, <4>0, <4>1
      <4>2. CASE /\ i - 1 \in 1..Len(idle) /\ idle'[i] = idle[i - 1]
                 /\ j - 1 \in 1..Len(idle) /\ idle'[j] = idle[j - 1]
        <5>1. i - 1 = j - 1
          BY <1>0, <3>6, <4>2
        <5>2. i \in Int /\ j \in Int
          OBVIOUS
        <5> QED BY <5>1, <5>2
      <4> QED BY <3>4, <4>1, <4>2
    <3>7. /\ \A q \in Requests : IF phase'[q] \in Leasing THEN p_slot'[q] \in 1..Size ELSE p_slot'[q] = 0
          /\ \A q, z \in Requests : p_slot'[q] = p_slot'[z] /\ p_slot'[q] # 0 => q = z
      BY <1>0, <3>1, <3>2
    <3> QED BY <3>5, <3>6, <3>7
  <2>7. CASE Pool!ReleasePermit(r)
    BY <1>0, <2>7 DEF Pool!ReleasePermit
  <2> QED BY <1>2, <2>1, <2>2, <2>3, <2>4, <2>5, <2>6, <2>7 DEF Pool!RequestStep, LeaseActs
<1>3. ASSUME NEW s \in Pool!WorkerSlots, Pool!ProcessStep(s)
      PROVE  SlotInv'
  <2>1. CASE Pool!Answer(s)
    <3>1. PICK x : ProcessEffect(s, x)
      BY <1>0, <2>1, AnswerIs DEF Pool!WorkerSlots
    <3> QED BY <1>0, <3>1 DEF ProcessEffect, Puts
  <2>2. CASE Pool!Noise(s)
    <3>1. PICK x : ProcessEffect(s, x)
      BY <1>0, <2>2, NoiseIs DEF Pool!WorkerSlots
    <3> QED BY <1>0, <3>1 DEF ProcessEffect, Puts
  <2>3. CASE Pool!Die(s)
    <3>1. PICK x : ProcessEffect(s, x)
      BY <1>0, <2>3, DieIs DEF Pool!WorkerSlots
    <3> QED BY <1>0, <3>1 DEF ProcessEffect, Puts
  <2> QED BY <1>3, <2>1, <2>2, <2>3 DEF Pool!ProcessStep
<1> QED BY <1>1, <1>2, <1>3 DEF PoolSteps, Pool!Next

\* The worker of a lease.
LEMMA LeaseStep ==
    ASSUME PoolInv, PoolSteps
    PROVE  LeaseInv'
<1> USE SizeIs DEF Pool!TypeOK, Pool!WorkerSlots, Pool!Phases, SlotInv, Leasing, LeaseInv,
  HealthInv, PolledPhases, Pool!Polled
<1>0. PoolInv /\ Pool!TypeOK /\ SlotInv /\ LeaseInv /\ HealthInv
  BY DEF PoolInv
<1>1. CASE UNCHANGED Pool!vars
  BY <1>0, <1>1 DEF Pool!vars
<1>2. ASSUME NEW r \in Requests, Pool!RequestStep(r)
      PROVE  LeaseInv'
  <2>1. CASE Pool!Call(r)
    BY <1>0, <2>1 DEF Pool!Call
  <2>2. CASE Pool!AcquirePermit(r)
    BY <1>0, <2>2 DEF Pool!AcquirePermit
  <2>3. CASE Pool!GiveUpWaiting(r)
    BY <1>0, <2>3 DEF Pool!GiveUpWaiting
  <2>4. CASE Pool!TakeSlot(r)
    BY <1>0, <2>4 DEF Pool!TakeSlot
  <2>5. CASE LeaseActs(r)
    <3>1. PICK x, to : LeaseEffect(r, x, to)
      BY <1>0, <2>5, LeaseActsAre
    <3> QED BY <1>0, <3>1 DEF LeaseEffect, Puts
  <2>6. CASE Pool!DropLease(r)
    <3>1. /\ p_slot' = [p_slot EXCEPT ![r] = 0] /\ p_slot[r] \in 1..Size
          /\ phase' = [phase EXCEPT ![r] = "returned"] /\ UNCHANGED returned
      BY <1>0, <2>6 DEF Pool!DropLease
    <3>2. /\ \A s \in 1..Size : s # p_slot[r] => p_worker'[s] = p_worker[s]
          /\ LET mine == p_worker[p_slot[r]]
             IN  p_worker'[p_slot[r]] = IF mine # NoWorker /\ mine.healthy THEN mine ELSE NoWorker
      BY <1>0, <2>6, <3>1 DEF Pool!DropLease, Pool!Mine
    <3> QED BY <1>0, <3>1, <3>2
  <2>7. CASE Pool!ReleasePermit(r)
    BY <1>0, <2>7 DEF Pool!ReleasePermit
  <2> QED BY <1>2, <2>1, <2>2, <2>3, <2>4, <2>5, <2>6, <2>7 DEF Pool!RequestStep, LeaseActs
<1>3. ASSUME NEW s \in Pool!WorkerSlots, Pool!ProcessStep(s)
      PROVE  LeaseInv'
  <2>1. CASE Pool!Answer(s)
    <3>1. PICK x : ProcessEffect(s, x)
      BY <1>0, <2>1, AnswerIs DEF Pool!WorkerSlots
    <3> QED BY <1>0, <3>1 DEF ProcessEffect, Puts
  <2>2. CASE Pool!Noise(s)
    <3>1. PICK x : ProcessEffect(s, x)
      BY <1>0, <2>2, NoiseIs DEF Pool!WorkerSlots
    <3> QED BY <1>0, <3>1 DEF ProcessEffect, Puts
  <2>3. CASE Pool!Die(s)
    <3>1. PICK x : ProcessEffect(s, x)
      BY <1>0, <2>3, DieIs DEF Pool!WorkerSlots
    <3> QED BY <1>0, <3>1 DEF ProcessEffect, Puts
  <2> QED BY <1>3, <2>1, <2>2, <2>3 DEF Pool!ProcessStep
<1> QED BY <1>1, <1>2, <1>3 DEF PoolSteps, Pool!Next

\* Health.
LEMMA HealthStep ==
    ASSUME PoolInv, PoolSteps
    PROVE  HealthInv'
<1> USE SizeIs DEF Pool!TypeOK, Pool!WorkerSlots, Pool!Phases, SlotInv, Leasing, LeaseInv,
  HealthInv, PolledPhases, Pool!Polled
<1>0. PoolInv /\ Pool!TypeOK /\ SlotInv /\ LeaseInv /\ HealthInv
  BY DEF PoolInv
<1>1. CASE UNCHANGED Pool!vars
  BY <1>0, <1>1 DEF Pool!vars
<1>2. ASSUME NEW r \in Requests, Pool!RequestStep(r)
      PROVE  HealthInv'
  <2>1. CASE Pool!Call(r)
    BY <1>0, <2>1 DEF Pool!Call
  <2>2. CASE Pool!AcquirePermit(r)
    BY <1>0, <2>2 DEF Pool!AcquirePermit
  <2>3. CASE Pool!GiveUpWaiting(r)
    BY <1>0, <2>3 DEF Pool!GiveUpWaiting
  <2>4. CASE Pool!TakeSlot(r)
    BY <1>0, <2>4 DEF Pool!TakeSlot
  <2>5. CASE LeaseActs(r)
    <3>1. PICK x, to : LeaseEffect(r, x, to)
      BY <1>0, <2>5, LeaseActsAre
    <3> QED BY <1>0, <3>1 DEF LeaseEffect, Puts
  <2>6. CASE Pool!DropLease(r)
    <3>1. /\ p_slot' = [p_slot EXCEPT ![r] = 0] /\ p_slot[r] \in 1..Size
          /\ phase' = [phase EXCEPT ![r] = "returned"] /\ UNCHANGED returned
      BY <1>0, <2>6 DEF Pool!DropLease
    <3>2. /\ \A s \in 1..Size : s # p_slot[r] => p_worker'[s] = p_worker[s]
          /\ LET mine == p_worker[p_slot[r]]
             IN  p_worker'[p_slot[r]] = IF mine # NoWorker /\ mine.healthy THEN mine ELSE NoWorker
      BY <1>0, <2>6, <3>1 DEF Pool!DropLease, Pool!Mine
    <3> QED BY <1>0, <3>1, <3>2
  <2>7. CASE Pool!ReleasePermit(r)
    BY <1>0, <2>7 DEF Pool!ReleasePermit
  <2> QED BY <1>2, <2>1, <2>2, <2>3, <2>4, <2>5, <2>6, <2>7 DEF Pool!RequestStep, LeaseActs
<1>3. ASSUME NEW s \in Pool!WorkerSlots, Pool!ProcessStep(s)
      PROVE  HealthInv'
  <2>1. CASE Pool!Answer(s)
    <3>1. PICK x : ProcessEffect(s, x)
      BY <1>0, <2>1, AnswerIs DEF Pool!WorkerSlots
    <3> QED BY <1>0, <3>1 DEF ProcessEffect, Puts
  <2>2. CASE Pool!Noise(s)
    <3>1. PICK x : ProcessEffect(s, x)
      BY <1>0, <2>2, NoiseIs DEF Pool!WorkerSlots
    <3> QED BY <1>0, <3>1 DEF ProcessEffect, Puts
  <2>3. CASE Pool!Die(s)
    <3>1. PICK x : ProcessEffect(s, x)
      BY <1>0, <2>3, DieIs DEF Pool!WorkerSlots
    <3> QED BY <1>0, <3>1 DEF ProcessEffect, Puts
  <2> QED BY <1>3, <2>1, <2>2, <2>3 DEF Pool!ProcessStep
<1> QED BY <1>1, <1>2, <1>3 DEF PoolSteps, Pool!Next

\* Commands.
LEMMA CommandStep ==
    ASSUME PoolInv, PoolSteps
    PROVE  Pool!CommandsAreLeased'
<1> USE SizeIs DEF Pool!TypeOK, Pool!WorkerSlots, Pool!Phases, SlotInv, Leasing, HealthInv,
  Pool!CommandsAreLeased
<1>0. PoolInv /\ Pool!TypeOK /\ SlotInv /\ HealthInv /\ Pool!CommandsAreLeased
  BY DEF PoolInv
<1>1. CASE UNCHANGED Pool!vars
  BY <1>0, <1>1 DEF Pool!vars
<1>2. ASSUME NEW r \in Requests, Pool!RequestStep(r)
      PROVE  Pool!CommandsAreLeased'
  <2>1. CASE Pool!Call(r)
    BY <1>0, <2>1 DEF Pool!Call
  <2>2. CASE Pool!AcquirePermit(r)
    BY <1>0, <2>2 DEF Pool!AcquirePermit
  <2>3. CASE Pool!GiveUpWaiting(r)
    BY <1>0, <2>3 DEF Pool!GiveUpWaiting
  <2>4. CASE Pool!TakeSlot(r)
    <3>1. UNCHANGED p_worker
      BY <2>4 DEF Pool!TakeSlot
    <3>2. p_slot \in [Requests -> Nat]
      BY <1>0
    <3>3. ASSUME NEW q \in Requests, q # r PROVE p_slot'[q] = p_slot[q]
      BY ONLY <2>4, <3>2, <3>3 DEF Pool!TakeSlot
    <3>4. p_slot[r] = 0
      BY <1>0, <2>4 DEF Pool!TakeSlot
    <3> QED BY <1>0, <3>1, <3>3, <3>4
  <2>5. CASE LeaseActs(r)
    <3>1. PICK x, to : LeaseEffect(r, x, to)
      BY <1>0, <2>5, LeaseActsAre
    <3> QED BY <1>0, <3>1 DEF LeaseEffect, Puts
  <2>6. CASE Pool!DropLease(r)
    <3>1. /\ p_slot' = [p_slot EXCEPT ![r] = 0] /\ p_slot[r] \in 1..Size
          /\ phase' = [phase EXCEPT ![r] = "returned"] /\ UNCHANGED returned
      BY <1>0, <2>6 DEF Pool!DropLease
    <3>2. ASSUME NEW s \in 1..Size, p_worker'[s] # NoWorker, p_worker'[s].cmd # Nobody
          PROVE  s # p_slot[r] /\ p_worker'[s] = p_worker[s]
      <4>1. CASE p_worker[p_slot[r]] # NoWorker /\ p_worker[p_slot[r]].healthy
        BY <1>0, <2>6, <3>1, <3>2, <4>1 DEF Pool!DropLease, Pool!Mine
      <4>2. CASE ~(p_worker[p_slot[r]] # NoWorker /\ p_worker[p_slot[r]].healthy)
        BY <1>0, <2>6, <3>1, <3>2, <4>2 DEF Pool!DropLease, Pool!Mine
      <4> QED BY <4>1, <4>2
    <3> QED BY <1>0, <3>1, <3>2
  <2>7. CASE Pool!ReleasePermit(r)
    BY <1>0, <2>7 DEF Pool!ReleasePermit
  <2> QED BY <1>2, <2>1, <2>2, <2>3, <2>4, <2>5, <2>6, <2>7 DEF Pool!RequestStep, LeaseActs
<1>3. ASSUME NEW s \in Pool!WorkerSlots, Pool!ProcessStep(s)
      PROVE  Pool!CommandsAreLeased'
  <2>1. CASE Pool!Answer(s)
    <3>1. PICK x : ProcessEffect(s, x)
      BY <1>0, <2>1, AnswerIs DEF Pool!WorkerSlots
    <3> QED BY <1>0, <3>1 DEF ProcessEffect, Puts
  <2>2. CASE Pool!Noise(s)
    <3>1. PICK x : ProcessEffect(s, x)
      BY <1>0, <2>2, NoiseIs DEF Pool!WorkerSlots
    <3> QED BY <1>0, <3>1 DEF ProcessEffect, Puts
  <2>3. CASE Pool!Die(s)
    <3>1. PICK x : ProcessEffect(s, x)
      BY <1>0, <2>3, DieIs DEF Pool!WorkerSlots
    <3> QED BY <1>0, <3>1 DEF ProcessEffect, Puts
  <2> QED BY <1>3, <2>1, <2>2, <2>3 DEF Pool!ProcessStep
<1> QED BY <1>1, <1>2, <1>3 DEF PoolSteps, Pool!Next

\* Output.
LEMMA OutputStep ==
    ASSUME PoolInv, PoolSteps
    PROVE  Pool!NoForeignOutput'
<1> USE SizeIs DEF Pool!TypeOK, Pool!NoForeignOutput
<1>0. PoolInv /\ Pool!TypeOK /\ Pool!NoForeignOutput
  BY DEF PoolInv
<1>1. CASE UNCHANGED Pool!vars
  BY <1>0, <1>1 DEF Pool!vars
<1>2. ASSUME NEW r \in Requests, Pool!RequestStep(r)
      PROVE  Pool!NoForeignOutput'
  <2>1. CASE Pool!Call(r)
    BY <1>0, <2>1 DEF Pool!Call
  <2>2. CASE Pool!AcquirePermit(r)
    BY <1>0, <2>2 DEF Pool!AcquirePermit
  <2>3. CASE Pool!GiveUpWaiting(r)
    BY <1>0, <2>3 DEF Pool!GiveUpWaiting
  <2>4. CASE Pool!TakeSlot(r)
    BY <1>0, <2>4 DEF Pool!TakeSlot
  <2>5. CASE LeaseActs(r)
    <3>1. PICK x, to : LeaseEffect(r, x, to)
      BY <1>0, <2>5, LeaseActsAre
    <3> QED BY <1>0, <3>1 DEF LeaseEffect, Puts
  <2>6. CASE Pool!DropLease(r)
    BY <1>0, <2>6 DEF Pool!DropLease, Pool!Mine
  <2>7. CASE Pool!ReleasePermit(r)
    BY <1>0, <2>7 DEF Pool!ReleasePermit
  <2> QED BY <1>2, <2>1, <2>2, <2>3, <2>4, <2>5, <2>6, <2>7 DEF Pool!RequestStep, LeaseActs
<1>3. ASSUME NEW s \in Pool!WorkerSlots, Pool!ProcessStep(s)
      PROVE  Pool!NoForeignOutput'
  <2>1. CASE Pool!Answer(s)
    <3>1. PICK x : ProcessEffect(s, x)
      BY <1>0, <2>1, AnswerIs DEF Pool!WorkerSlots
    <3> QED BY <1>0, <3>1 DEF ProcessEffect, Puts
  <2>2. CASE Pool!Noise(s)
    <3>1. PICK x : ProcessEffect(s, x)
      BY <1>0, <2>2, NoiseIs DEF Pool!WorkerSlots
    <3> QED BY <1>0, <3>1 DEF ProcessEffect, Puts
  <2>3. CASE Pool!Die(s)
    <3>1. PICK x : ProcessEffect(s, x)
      BY <1>0, <2>3, DieIs DEF Pool!WorkerSlots
    <3> QED BY <1>0, <3>1 DEF ProcessEffect, Puts
  <2> QED BY <1>3, <2>1, <2>2, <2>3 DEF Pool!ProcessStep
<1> QED BY <1>1, <1>2, <1>3 DEF PoolSteps, Pool!Next

\* Permits and slots are counted.
LEMMA CountStep ==
    ASSUME PoolInv, PoolSteps
    PROVE  CountInv'
<1> USE SizeIs DEF Pool!TypeOK
<1>0. PoolInv /\ Pool!TypeOK /\ SlotInv /\ CountInv
  BY DEF PoolInv
<1>1. CASE UNCHANGED Pool!vars
  BY <1>0, <1>1 DEF Pool!vars, CountInv, Holders, Lessees
<1>2. ASSUME NEW r \in Requests, Pool!RequestStep(r)
      PROVE  CountInv'
  <2>1. CASE Pool!Call(r)
    <3>1. /\ phase[r] = "new" /\ phase' = [phase EXCEPT ![r] = "waiting"]
          /\ UNCHANGED <<permits, idle>>
      BY <1>0, <2>1 DEF Pool!Call, SlotInv, Leasing
    <3>2. CountsMoved(r, "waiting")
      BY <1>0, <3>1, CountsMove DEF Pool!TypeOK, Pool!Phases
    <3> QED BY <1>0, <3>1, <3>2 DEF CountInv, CountsMoved, Holding, Leasing, One
  <2>2. CASE Pool!AcquirePermit(r)
    <3>1. /\ phase[r] = "waiting" /\ phase' = [phase EXCEPT ![r] = "granted"]
          /\ permits' = permits - 1 /\ idle' = idle
      BY <1>0, <2>2 DEF Pool!AcquirePermit, SlotInv, Leasing
    <3>2. CountsMoved(r, "granted")
      BY <1>0, <3>1, CountsMove DEF Pool!TypeOK, Pool!Phases
    <3> QED BY <1>0, <3>1, <3>2 DEF CountInv, CountsMoved, Holding, Leasing, One
  <2>3. CASE Pool!GiveUpWaiting(r)
    <3>1. /\ phase[r] = "waiting" /\ phase' = [phase EXCEPT ![r] = "done"]
          /\ UNCHANGED <<permits, idle>>
      BY <1>0, <2>3 DEF Pool!GiveUpWaiting, SlotInv, Leasing
    <3>2. CountsMoved(r, "done")
      BY <1>0, <3>1, CountsMove DEF Pool!TypeOK, Pool!Phases
    <3> QED BY <1>0, <3>1, <3>2 DEF CountInv, CountsMoved, Holding, Leasing, One
  <2>4. CASE Pool!TakeSlot(r)
    <3>1. CASE idle = <<>>
      <4>1. /\ phase[r] = "granted" /\ phase' = [phase EXCEPT ![r] = "returned"]
            /\ UNCHANGED <<permits, idle>>
        BY <2>4, <3>1 DEF Pool!TakeSlot
      <4>2. CountsMoved(r, "returned")
        BY <1>0, <4>1, CountsMove DEF Pool!TypeOK, Pool!Phases
      <4> QED BY <1>0, <4>1, <4>2 DEF CountInv, CountsMoved, Holding, Leasing, One
    <3>2. CASE idle # <<>>
      <4>1. /\ phase[r] = "granted" /\ phase' = [phase EXCEPT ![r] = "leased"]
            /\ permits' = permits /\ Len(idle') = Len(idle) - 1
        BY <1>0, <2>4, <3>2 DEF Pool!TakeSlot
      <4>2. CountsMoved(r, "leased")
        BY <1>0, <4>1, CountsMove DEF Pool!TypeOK, Pool!Phases
      <4> QED BY <1>0, <4>1, <4>2 DEF CountInv, CountsMoved, Holding, Leasing, One
    <3> QED BY <3>1, <3>2
  <2>5. CASE LeaseActs(r)
    <3>1. PICK x, to : LeaseEffect(r, x, to)
      BY <1>0, <2>5, LeaseActsAre
    <3>2. to \in Pool!Phases /\ phase' = [phase EXCEPT ![r] = to]
          /\ phase[r] \in Leasing /\ to \in Leasing /\ UNCHANGED <<permits, idle>>
      BY <3>1 DEF LeaseEffect, Leasing, Pool!Phases
    <3>3. CountsMoved(r, to)
      BY <1>0, <3>2, CountsMove DEF Pool!TypeOK
    <3> QED BY <1>0, <3>2, <3>3 DEF CountInv, CountsMoved, Holding, Leasing, One
  <2>6. CASE Pool!DropLease(r)
    <3>1. /\ phase[r] = "dropping" /\ phase' = [phase EXCEPT ![r] = "returned"]
          /\ permits' = permits /\ Len(idle') = Len(idle) + 1
      BY <1>0, <2>6 DEF Pool!DropLease, SlotInv, Leasing
    <3>2. CountsMoved(r, "returned")
      BY <1>0, <3>1, CountsMove DEF Pool!TypeOK, Pool!Phases
    <3>3. Cardinality(Holders') = Cardinality(Holders)
      BY <3>1, <3>2 DEF CountsMoved, Holding, Leasing, One
    <3>4. Cardinality(Lessees') + 1 = Cardinality(Lessees)
      BY <3>1, <3>2 DEF CountsMoved, Leasing, One
    <3>5. Len(idle) \in Nat /\ Cardinality(Lessees) \in Nat /\ Cardinality(Lessees') \in Nat
      BY <1>0, <3>2 DEF CountsMoved
    <3>6. Len(idle') + Cardinality(Lessees') = Len(idle) + Cardinality(Lessees)
      BY <3>1, <3>4, <3>5
    <3> QED BY <1>0, <3>1, <3>3, <3>6 DEF CountInv
  <2>7. CASE Pool!ReleasePermit(r)
    <3>1. /\ phase[r] = "returned" /\ phase' = [phase EXCEPT ![r] = "done"]
          /\ permits' = permits + 1 /\ idle' = idle
      BY <1>0, <2>7 DEF Pool!ReleasePermit, SlotInv, Leasing
    <3>2. CountsMoved(r, "done")
      BY <1>0, <3>1, CountsMove DEF Pool!TypeOK, Pool!Phases
    <3> QED BY <1>0, <3>1, <3>2 DEF CountInv, CountsMoved, Holding, Leasing, One
  <2> QED BY <1>2, <2>1, <2>2, <2>3, <2>4, <2>5, <2>6, <2>7 DEF Pool!RequestStep, LeaseActs
<1>3. ASSUME NEW s \in Pool!WorkerSlots, Pool!ProcessStep(s)
      PROVE  CountInv'
  <2>1. CASE Pool!Answer(s)
    <3>1. UNCHANGED <<phase, permits, idle>>
      BY <2>1 DEF Pool!Answer
    <3> QED BY <1>0, <3>1 DEF CountInv, Holders, Lessees
  <2>2. CASE Pool!Noise(s)
    <3>1. UNCHANGED <<phase, permits, idle>>
      BY <2>2 DEF Pool!Noise
    <3> QED BY <1>0, <3>1 DEF CountInv, Holders, Lessees
  <2>3. CASE Pool!Die(s)
    <3>1. UNCHANGED <<phase, permits, idle>>
      BY <2>3 DEF Pool!Die
    <3> QED BY <1>0, <3>1 DEF CountInv, Holders, Lessees
  <2> QED BY <1>3, <2>1, <2>2, <2>3 DEF Pool!ProcessStep
<1> QED BY <1>1, <1>2, <1>3 DEF PoolSteps, Pool!Next

\* The pool keeps its invariant.
LEMMA PoolStep == PoolInv /\ PoolSteps => PoolInv'
  BY PoolTypeStep, SlotStep, LeaseStep, HealthStep, CommandStep, OutputStep, CountStep
    DEF PoolInv
\* A permit that was granted finds a slot, because both are counted by the requests.
LEMMA PoolInvImplies == PoolInv => Pool!LeasesAreSound
<1>1. PoolInv => Pool!PermitFindsSlot
  <2> SUFFICES ASSUME PoolInv, NEW r \in Requests, phase[r] = "granted"
               PROVE  idle # <<>>
    BY DEF Pool!PermitFindsSlot
  <2>1. /\ Holders \in SUBSET Requests /\ Lessees \in SUBSET Requests
        /\ Lessees \subseteq Holders /\ r \in Holders /\ r \notin Lessees
    BY DEF Holders, Lessees, Holding, Leasing
  <2>2. IsFiniteSet(Holders) /\ IsFiniteSet(Lessees)
    BY <2>1, RequestsAreFinite, FS_Subset
  <2>3. Cardinality(Lessees) < Cardinality(Holders)
    BY <2>1, <2>2, FS_Subset, FS_CardinalityType
  <2>4. /\ Cardinality(Holders) \in Nat /\ Cardinality(Lessees) \in Nat
        /\ permits \in Nat /\ Len(idle) \in Nat
    BY <2>2, FS_CardinalityType, SizeIs DEF PoolInv, Pool!TypeOK
  <2>5. Len(idle) # 0
    BY <2>3, <2>4, SizeIs DEF PoolInv, CountInv
  <2> QED BY <2>5
<1>2. PoolInv => Pool!LeasesAreSound
  BY <1>1 DEF PoolInv, Pool!LeasesAreSound
<1> QED BY <1>2

----------------------------------------------------------------------------
(* Administration: the inductive invariant.                                *)

Asked == [pc : {"start", "mutation", "slot", "working", "begin", "script",
                "giving_up", "done", "dropped"},
          canceled : BOOLEAN, expired : BOOLEAN, started : BOOLEAN,
          report : {"none", "ok", "error", "uncanceled", "given_up"}, told : BOOLEAN]

Worked == [pc : {"off", "queued", "prepare", "recheck", "pin", "inspect", "begin", "flag",
                 "native", "observe", "launched", "ended"},
           pinned : BOOLEAN, result : {"none", "ok", "error", "uncanceled"}]

AdminTyped ==
    /\ request \in [Calls -> Asked]
    /\ worker \in [Calls -> Worked]
    /\ mutation \in Calls \cup {Nobody}
    /\ mount \in [Mounts -> Volumes \cup {Nobody}]
    /\ image \in [id : Nat, attached : BOOLEAN]
    /\ job \in [Calls -> {"none", "running", "canceled"}]
    /\ a_past \in [changed : SUBSET Calls, wrong : SUBSET Calls, checked : SUBSET Calls,
                   outside : Nat]

\* What a closure may be doing, by what it is for.
PlanOf(x) ==
    /\ worker[x].pc \in {"prepare", "recheck"} => Storage!OnMount(x)
    /\ worker[x].pc \in {"pin", "inspect"} => Storage!OnImage(x)
    /\ worker[x].pc \in {"begin", "flag", "native"} =>
          Storage!OnMount(x) \/ Storage!OnImage(x) \/ Storage!Does(x) = "job"
    /\ Storage!Script(x) => worker[x].pc \in {"off", "queued", "ended"}
    /\ request[x].pc \in {"begin", "script"} => Storage!Script(x)
    /\ request[x].pc \in {"start", "mutation", "slot"} => worker[x].pc = "off"
    /\ request[x].pc \in {"working", "begin", "script"} => worker[x].pc # "off"
    /\ worker[x].pc # "ended" => worker[x].result = "none"

\* The mutation permit is with the call, or with its closure.
PermitOf(x) ==
    Storage!Mutating(x) /\ (\/ request[x].pc = "slot"
                            \/ IF Storage!Script(x)
                                 THEN request[x].pc \in {"working", "begin", "script"}
                                 ELSE worker[x].pc \notin {"off", "ended"})
        => mutation = x

\* What a closure has checked is so until it acts.
CheckOf(x) ==
    /\ x \in a_past.checked => Storage!OnMount(x)
    /\ x \in a_past.checked /\ worker[x].pc \in {"begin", "flag", "native"} => Storage!Owned(x)
    /\ Storage!OnImage(x) /\ worker[x].pc \in {"inspect", "begin", "flag", "native"} =>
          worker[x].pinned /\ image.id = 1

\* What was changed was announced before.
ReportOf(x) ==
    /\ x \in a_past.changed => request[x].started
    /\ worker[x].pc = "native" => request[x].started
    /\ request[x].pc = "done" /\ ~request[x].told
          /\ (Storage!Script(x) \/ request[x].report # "given_up") => ~request[x].started
    /\ request[x].pc = "done" /\ request[x].report # "given_up" /\ ~Storage!Script(x) =>
          worker[x].pc = "ended"
    /\ job[x] = "running" => worker[x].pc \in {"launched", "ended"}
    /\ worker[x].result = "error" => job[x] # "running"

AdminInv ==
    /\ AdminTyped
    /\ \A x \in Calls : PlanOf(x) /\ PermitOf(x) /\ CheckOf(x) /\ ReportOf(x)
    /\ a_past.wrong = {}

AdminSteps == Storage!Next \/ UNCHANGED Storage!vars

\* What a call may be, and the names that stand for nobody.
LEMMA ChoicesAre ==
    /\ \A x \in Calls :
          /\ Storage!Does(x) \in {"add", "remove", "attach", "detach", "read", "job", "script"}
          /\ Storage!OnMount(x) => Task[x].volume \in Volumes /\ Task[x].mount \in Mounts
    /\ Nobody \notin Calls /\ Nobody \notin Volumes
  BY StorageAssumption DEF Storage!AdminAssumption, Storage!OnMount

LEMMA InitAdmin == Storage!Init => AdminInv
<1> SUFFICES ASSUME Storage!Init PROVE AdminInv
  OBVIOUS
<1>1. request \in [Calls -> Asked] /\ worker \in [Calls -> Worked]
  BY DEF Storage!Init, Asked, Worked
<1>2. AdminTyped
  BY <1>1 DEF Storage!Init, AdminTyped
<1>3. \A x \in Calls : PlanOf(x) /\ PermitOf(x) /\ CheckOf(x) /\ ReportOf(x)
  BY ChoicesAre DEF Storage!Init, PlanOf, PermitOf, CheckOf, ReportOf,
     Storage!OnMount, Storage!OnImage, Storage!Script, Storage!Mutating, Storage!Does
<1> QED BY <1>2, <1>3 DEF AdminInv, Storage!Init

\* What an action may make of a request is one.
LEMMA RequestsAre ==
    ASSUME NEW rs \in [Calls -> Asked], NEW c \in Calls
    PROVE  /\ rs[c].started \in BOOLEAN
           /\ \A p \in {"mutation", "slot", "working", "begin"} :
                 [rs EXCEPT ![c].pc = p] \in [Calls -> Asked]
           /\ \A p \in {"giving_up", "dropped"} :
                 [rs EXCEPT ![c].pc = p, ![c].canceled = TRUE] \in [Calls -> Asked]
           /\ \A report \in {"none", "ok", "error", "uncanceled", "given_up"} :
                 [rs EXCEPT ![c].pc = "done", ![c].report = report, ![c].told = rs[c].started]
                    \in [Calls -> Asked]
           /\ [rs EXCEPT ![c].pc = "script", ![c].started = TRUE] \in [Calls -> Asked]
           /\ [rs EXCEPT ![c].expired = TRUE] \in [Calls -> Asked]
           /\ [rs EXCEPT ![c].started = TRUE] \in [Calls -> Asked]
<1>0. rs[c] \in Asked
  OBVIOUS
<1>1. ASSUME NEW p \in {"mutation", "slot", "working", "begin"}
      PROVE  [rs EXCEPT ![c].pc = p] \in [Calls -> Asked]
  BY <1>0 DEF Asked
<1>2. ASSUME NEW p \in {"giving_up", "dropped"}
      PROVE  [rs EXCEPT ![c].pc = p, ![c].canceled = TRUE] \in [Calls -> Asked]
  BY <1>0 DEF Asked
<1>3. ASSUME NEW report \in {"none", "ok", "error", "uncanceled", "given_up"}
      PROVE  [rs EXCEPT ![c].pc = "done", ![c].report = report, ![c].told = rs[c].started]
                \in [Calls -> Asked]
  BY <1>0 DEF Asked
<1>4. [rs EXCEPT ![c].pc = "script", ![c].started = TRUE] \in [Calls -> Asked]
  BY <1>0 DEF Asked
<1>5. [rs EXCEPT ![c].expired = TRUE] \in [Calls -> Asked]
  BY <1>0 DEF Asked
<1>6. [rs EXCEPT ![c].started = TRUE] \in [Calls -> Asked]
  BY <1>0 DEF Asked
<1>7. rs[c].started \in BOOLEAN
  BY <1>0 DEF Asked
<1> QED BY <1>1, <1>2, <1>3, <1>4, <1>5, <1>6, <1>7

\* What an action may make of a closure is one.
LEMMA ClosuresAre ==
    ASSUME NEW ws \in [Calls -> Worked], NEW c \in Calls
    PROVE  /\ ws[c].result \in {"none", "ok", "error", "uncanceled"}
           /\ \A p \in {"queued", "prepare", "recheck", "pin", "begin", "flag", "native",
                        "observe", "launched"} :
                 [ws EXCEPT ![c].pc = p] \in [Calls -> Worked]
           /\ \A result \in {"ok", "error", "uncanceled"} :
                 [ws EXCEPT ![c].pc = "ended", ![c].result = result, ![c].pinned = FALSE]
                    \in [Calls -> Worked]
           /\ [ws EXCEPT ![c].pc = "inspect", ![c].pinned = TRUE] \in [Calls -> Worked]
<1>0. ws[c] \in Worked
  OBVIOUS
<1>1. ASSUME NEW p \in {"queued", "prepare", "recheck", "pin", "begin", "flag", "native",
                        "observe", "launched"}
      PROVE  [ws EXCEPT ![c].pc = p] \in [Calls -> Worked]
  BY <1>0 DEF Worked
<1>2. ASSUME NEW result \in {"ok", "error", "uncanceled"}
      PROVE  [ws EXCEPT ![c].pc = "ended", ![c].result = result, ![c].pinned = FALSE]
                \in [Calls -> Worked]
  BY <1>0 DEF Worked
<1>3. [ws EXCEPT ![c].pc = "inspect", ![c].pinned = TRUE] \in [Calls -> Worked]
  BY <1>0 DEF Worked
<1>4. ws[c].result \in {"none", "ok", "error", "uncanceled"}
  BY <1>0 DEF Worked
<1> QED BY <1>1, <1>2, <1>3, <1>4

\* An answer, the end of a closure and its next stage keep the types.
LEMMA RequestToldIs ==
    ASSUME AdminTyped, NEW c \in Calls,
           NEW report \in {"none", "ok", "error", "uncanceled", "given_up"},
           Storage!Told(c, report)
    PROVE  request' \in [Calls -> Asked]
  BY RequestsAre DEF Storage!Told, AdminTyped

LEMMA EndIs ==
    ASSUME AdminTyped, NEW c \in Calls, NEW result \in {"ok", "error", "uncanceled"},
           Storage!End(c, result)
    PROVE  worker' \in [Calls -> Worked] /\ mutation' \in Calls \cup {Nobody}
  BY ClosuresAre DEF Storage!End, AdminTyped

LEMMA GoesIs ==
    ASSUME AdminTyped, NEW c \in Calls,
           NEW p \in {"queued", "prepare", "recheck", "pin", "begin", "flag", "native",
                      "observe", "launched"},
           Storage!Goes(c, p)
    PROVE  worker' \in [Calls -> Worked] /\ mutation' \in Calls \cup {Nobody}
  BY ClosuresAre DEF Storage!Goes, Storage!Work, AdminTyped

\* What a closure does first, by what it is for.
StartOf(c) ==
    \/ \E result \in {"error", "ok"} : Storage!End(c, result)
    \/ Storage!Does(c) = "read" /\ Storage!Goes(c, "observe")
    \/ Storage!Does(c) = "job" /\ Storage!Goes(c, "begin")
    \/ Storage!OnMount(c) /\ Storage!Goes(c, "prepare")
    \/ Storage!OnImage(c) /\ Storage!Goes(c, "pin")

LEMMA WorkerStartsIs ==
    ASSUME NEW c \in Calls, Storage!WorkerStarts(c)
    PROVE  /\ StartOf(c) /\ worker[c].pc = "queued"
           /\ UNCHANGED <<request, mount, image, job, a_past>>
<1>1. CASE Storage!Late(c)
  BY <1>1 DEF Storage!WorkerStarts, StartOf, Storage!world
<1>2. CASE ~Storage!Late(c)
  <2>1. CASE Storage!Script(c)
    BY <1>2, <2>1 DEF Storage!WorkerStarts, StartOf, Storage!world
  <2>2. CASE Storage!Does(c) = "read"
    BY <1>2, <2>2 DEF Storage!WorkerStarts, StartOf, Storage!world, Storage!Script
  <2>3. CASE Storage!Does(c) = "job"
    BY <1>2, <2>3 DEF Storage!WorkerStarts, StartOf, Storage!world, Storage!Script
  <2>4. CASE Storage!OnMount(c)
    BY <1>2, <2>4 DEF Storage!WorkerStarts, StartOf, Storage!world, Storage!Script,
       Storage!OnMount
  <2>5. CASE Storage!OnImage(c)
    BY <1>2, <2>5 DEF Storage!WorkerStarts, StartOf, Storage!world, Storage!Script,
       Storage!OnMount, Storage!OnImage
  <2> QED BY <2>1, <2>2, <2>3, <2>4, <2>5, ChoicesAre
      DEF Storage!Script, Storage!OnMount, Storage!OnImage
<1> QED BY <1>1, <1>2

\* What other programs do.
OutsideEffect ==
    /\ UNCHANGED <<request, worker, mutation, slots, job>>
    /\ \/ \E m \in Mounts, v \in Volumes \cup {Nobody} :
             /\ mount' = [mount EXCEPT ![m] = v]
             /\ a_past' = [a_past EXCEPT !.outside = a_past.outside + 1,
                                         !.checked = {x \in a_past.checked : Task[x].mount # m}]
             /\ UNCHANGED image
       \/ /\ \/ image' = [image EXCEPT !.attached = ~image.attached]
             \/ /\ image' = [image EXCEPT !.id = image.id + 1]
                /\ \A x \in Calls : ~worker[x].pinned
          /\ a_past' = [a_past EXCEPT !.outside = a_past.outside + 1]
          /\ UNCHANGED mount

LEMMA OutsideIs ==
    ASSUME AdminTyped, Storage!Outside PROVE OutsideEffect
<1>1. CASE \E m \in Mounts, v \in Volumes \cup {Nobody} :
             /\ mount' = [mount EXCEPT ![m] = v]
             /\ a_past' = [a_past EXCEPT !.outside = @ + 1,
                                         !.checked = {x \in @ : Task[x].mount # m}]
             /\ UNCHANGED image
  BY <1>1 DEF Storage!Outside, OutsideEffect
<1>2. CASE /\ image' = [image EXCEPT !.attached = ~@]
           /\ a_past' = [a_past EXCEPT !.outside = @ + 1] /\ UNCHANGED mount
  BY <1>2 DEF Storage!Outside, OutsideEffect
<1>3. CASE /\ image' = [image EXCEPT !.id = @ + 1] /\ \A x \in Calls : ~worker[x].pinned
           /\ a_past' = [a_past EXCEPT !.outside = @ + 1] /\ UNCHANGED mount
  BY <1>3 DEF Storage!Outside, OutsideEffect
<1> QED BY <1>1, <1>2, <1>3 DEF Storage!Outside

\* Types.
LEMMA AdminTypedStep ==
    ASSUME AdminInv, AdminSteps
    PROVE  AdminTyped'
<1>0. AdminTyped /\ (\A x \in Calls : PlanOf(x))
  BY DEF AdminInv
<1>1. CASE UNCHANGED Storage!vars
  BY <1>0, <1>1 DEF Storage!vars, AdminTyped
<1>2. ASSUME NEW c \in Calls, Storage!Asking(c)
      PROVE  AdminTyped'
  <2>1. CASE Storage!Enter(c)
    <3>1. request' \in [Calls -> Asked]
      BY ZenonT(60), <1>0, <2>1, RequestsAre, ClosuresAre
      DEF Storage!Enter, Storage!Ask, Storage!world, AdminTyped
    <3>2. worker' \in [Calls -> Worked]
      BY <1>0, <2>1, ClosuresAre, ChoicesAre
      DEF Storage!Enter, Storage!Ask, Storage!world, Storage!OnMount, Storage!OnImage, Storage!Script, AdminTyped
    <3>3. mutation' \in Calls \cup {Nobody} /\ mount' \in [Mounts -> Volumes \cup {Nobody}]
      BY <1>0, <2>1, ChoicesAre
      DEF Storage!Enter, Storage!Ask, Storage!world, AdminTyped
    <3>4. image' \in [id : Nat, attached : BOOLEAN]
      BY <1>0, <2>1
      DEF Storage!Enter, Storage!Ask, Storage!world, AdminTyped
    <3>5. job' \in [Calls -> {"none", "running", "canceled"}]
      BY <1>0, <2>1
      DEF Storage!Enter, Storage!Ask, Storage!world, AdminTyped
    <3>6. a_past' \in [changed : SUBSET Calls, wrong : SUBSET Calls, checked : SUBSET Calls,
                    outside : Nat]
      BY <1>0, <2>1
      DEF Storage!Enter, Storage!Ask, Storage!world, AdminTyped
    <3> QED BY <3>1, <3>2, <3>3, <3>4, <3>5, <3>6 DEF AdminTyped
  <2>2. CASE Storage!TakeMutation(c)
    <3>1. request' \in [Calls -> Asked]
      BY <1>0, <2>2, RequestsAre, ClosuresAre
      DEF Storage!TakeMutation, Storage!Ask, Storage!world, AdminTyped
    <3>2. worker' \in [Calls -> Worked]
      BY <1>0, <2>2, ClosuresAre, ChoicesAre
      DEF Storage!TakeMutation, Storage!Ask, Storage!world, Storage!OnMount, Storage!OnImage, Storage!Script, AdminTyped
    <3>3. mutation' \in Calls \cup {Nobody} /\ mount' \in [Mounts -> Volumes \cup {Nobody}]
      BY <1>0, <2>2, ChoicesAre
      DEF Storage!TakeMutation, Storage!Ask, Storage!world, AdminTyped
    <3>4. image' \in [id : Nat, attached : BOOLEAN]
      BY <1>0, <2>2
      DEF Storage!TakeMutation, Storage!Ask, Storage!world, AdminTyped
    <3>5. job' \in [Calls -> {"none", "running", "canceled"}]
      BY <1>0, <2>2
      DEF Storage!TakeMutation, Storage!Ask, Storage!world, AdminTyped
    <3>6. a_past' \in [changed : SUBSET Calls, wrong : SUBSET Calls, checked : SUBSET Calls,
                    outside : Nat]
      BY <1>0, <2>2
      DEF Storage!TakeMutation, Storage!Ask, Storage!world, AdminTyped
    <3> QED BY <3>1, <3>2, <3>3, <3>4, <3>5, <3>6 DEF AdminTyped
  <2>3. CASE Storage!TakeSlot(c)
    <3>1. request' \in [Calls -> Asked]
      BY <1>0, <2>3, RequestsAre, ClosuresAre
      DEF Storage!TakeSlot, Storage!Ask, Storage!Work, Storage!world, AdminTyped
    <3>2. worker' \in [Calls -> Worked]
      BY <1>0, <2>3, ClosuresAre, ChoicesAre
      DEF Storage!TakeSlot, Storage!Ask, Storage!Work, Storage!world, Storage!OnMount, Storage!OnImage, Storage!Script, AdminTyped
    <3>3. mutation' \in Calls \cup {Nobody} /\ mount' \in [Mounts -> Volumes \cup {Nobody}]
      BY <1>0, <2>3, ChoicesAre
      DEF Storage!TakeSlot, Storage!Ask, Storage!Work, Storage!world, AdminTyped
    <3>4. image' \in [id : Nat, attached : BOOLEAN]
      BY <1>0, <2>3
      DEF Storage!TakeSlot, Storage!Ask, Storage!Work, Storage!world, AdminTyped
    <3>5. job' \in [Calls -> {"none", "running", "canceled"}]
      BY <1>0, <2>3
      DEF Storage!TakeSlot, Storage!Ask, Storage!Work, Storage!world, AdminTyped
    <3>6. a_past' \in [changed : SUBSET Calls, wrong : SUBSET Calls, checked : SUBSET Calls,
                    outside : Nat]
      BY <1>0, <2>3
      DEF Storage!TakeSlot, Storage!Ask, Storage!Work, Storage!world, AdminTyped
    <3> QED BY <3>1, <3>2, <3>3, <3>4, <3>5, <3>6 DEF AdminTyped
  <2>4. CASE Storage!Answer(c)
    <3>1. request' \in [Calls -> Asked]
      <4>1. worker[c].result \in {"none", "ok", "error", "uncanceled"}
        BY <1>0, ClosuresAre DEF AdminTyped
      <4>2. \/ Storage!Ask(c, "begin")
            \/ Storage!Told(c, worker[c].result)
        BY <2>4 DEF Storage!Answer
      <4>3. CASE Storage!Ask(c, "begin")
        BY <1>0, <4>3, RequestsAre DEF Storage!Ask, AdminTyped
      <4>4. CASE Storage!Told(c, worker[c].result)
        BY <1>0, <4>1, <4>4, RequestToldIs
      <4> QED BY <4>2, <4>3, <4>4
    <3>2. worker' \in [Calls -> Worked]
      BY <1>0, <2>4, ClosuresAre, ChoicesAre
      DEF Storage!Answer, Storage!Ask, Storage!Told, Storage!world, Storage!OnMount, Storage!OnImage, Storage!Script, AdminTyped
    <3>3. mutation' \in Calls \cup {Nobody} /\ mount' \in [Mounts -> Volumes \cup {Nobody}]
      BY <1>0, <2>4, ChoicesAre
      DEF Storage!Answer, Storage!Ask, Storage!Told, Storage!world, AdminTyped
    <3>4. image' \in [id : Nat, attached : BOOLEAN]
      BY <1>0, <2>4
      DEF Storage!Answer, Storage!Ask, Storage!Told, Storage!world, AdminTyped
    <3>5. job' \in [Calls -> {"none", "running", "canceled"}]
      BY <1>0, <2>4
      DEF Storage!Answer, Storage!Ask, Storage!Told, Storage!world, AdminTyped
    <3>6. a_past' \in [changed : SUBSET Calls, wrong : SUBSET Calls, checked : SUBSET Calls,
                    outside : Nat]
      BY <1>0, <2>4
      DEF Storage!Answer, Storage!Ask, Storage!Told, Storage!world, AdminTyped
    <3> QED BY <3>1, <3>2, <3>3, <3>4, <3>5, <3>6 DEF AdminTyped
  <2>5. CASE Storage!RunScript(c)
    <3>1. request' \in [Calls -> Asked]
      <4>1. \/ Storage!Told(c, "error")
            \/ request' = [request EXCEPT ![c].pc = "script", ![c].started = TRUE]
        BY <2>5 DEF Storage!RunScript
      <4>2. CASE Storage!Told(c, "error")
        BY <1>0, <4>2, RequestToldIs
      <4>3. CASE request' = [request EXCEPT ![c].pc = "script", ![c].started = TRUE]
        BY <1>0, <4>3, RequestsAre DEF AdminTyped
      <4> QED BY <4>1, <4>2, <4>3
    <3>2. worker' \in [Calls -> Worked]
      BY <1>0, <2>5, ClosuresAre, ChoicesAre
      DEF Storage!RunScript, Storage!Told, Storage!world, Storage!OnMount, Storage!OnImage, Storage!Script, AdminTyped
    <3>3. mutation' \in Calls \cup {Nobody} /\ mount' \in [Mounts -> Volumes \cup {Nobody}]
      BY <1>0, <2>5, ChoicesAre
      DEF Storage!RunScript, Storage!Told, Storage!world, AdminTyped
    <3>4. image' \in [id : Nat, attached : BOOLEAN]
      BY <1>0, <2>5
      DEF Storage!RunScript, Storage!Told, Storage!world, AdminTyped
    <3>5. job' \in [Calls -> {"none", "running", "canceled"}]
      BY <1>0, <2>5
      DEF Storage!RunScript, Storage!Told, Storage!world, AdminTyped
    <3>6. a_past' \in [changed : SUBSET Calls, wrong : SUBSET Calls, checked : SUBSET Calls,
                    outside : Nat]
      BY <1>0, <2>5
      DEF Storage!RunScript, Storage!Told, Storage!world, AdminTyped
    <3> QED BY <3>1, <3>2, <3>3, <3>4, <3>5, <3>6 DEF AdminTyped
  <2>6. CASE Storage!ScriptAnswers(c)
    <3>1. request' \in [Calls -> Asked]
      <4>1. \E report \in {"ok", "error"} : Storage!Told(c, report)
        BY <2>6 DEF Storage!ScriptAnswers
      <4> QED BY <1>0, <4>1, RequestToldIs
    <3>2. worker' \in [Calls -> Worked]
      BY <1>0, <2>6, ClosuresAre, ChoicesAre
      DEF Storage!ScriptAnswers, Storage!Told, Storage!world, Storage!OnMount, Storage!OnImage, Storage!Script, AdminTyped
    <3>3. mutation' \in Calls \cup {Nobody} /\ mount' \in [Mounts -> Volumes \cup {Nobody}]
      BY <1>0, <2>6, ChoicesAre
      DEF Storage!ScriptAnswers, Storage!Told, Storage!world, AdminTyped
    <3>4. image' \in [id : Nat, attached : BOOLEAN]
      BY <1>0, <2>6
      DEF Storage!ScriptAnswers, Storage!Told, Storage!world, AdminTyped
    <3>5. job' \in [Calls -> {"none", "running", "canceled"}]
      BY <1>0, <2>6
      DEF Storage!ScriptAnswers, Storage!Told, Storage!world, AdminTyped
    <3>6. a_past' \in [changed : SUBSET Calls, wrong : SUBSET Calls, checked : SUBSET Calls,
                    outside : Nat]
      BY <1>0, <2>6
      DEF Storage!ScriptAnswers, Storage!Told, Storage!world, AdminTyped
    <3> QED BY <3>1, <3>2, <3>3, <3>4, <3>5, <3>6 DEF AdminTyped
  <2>7. CASE Storage!Expire(c)
    <3>1. request' \in [Calls -> Asked]
      BY <1>0, <2>7, RequestsAre, ClosuresAre
      DEF Storage!Expire, Storage!world, AdminTyped
    <3>2. worker' \in [Calls -> Worked]
      BY <1>0, <2>7, ClosuresAre, ChoicesAre
      DEF Storage!Expire, Storage!world, Storage!OnMount, Storage!OnImage, Storage!Script, AdminTyped
    <3>3. mutation' \in Calls \cup {Nobody} /\ mount' \in [Mounts -> Volumes \cup {Nobody}]
      BY <1>0, <2>7, ChoicesAre
      DEF Storage!Expire, Storage!world, AdminTyped
    <3>4. image' \in [id : Nat, attached : BOOLEAN]
      BY <1>0, <2>7
      DEF Storage!Expire, Storage!world, AdminTyped
    <3>5. job' \in [Calls -> {"none", "running", "canceled"}]
      BY <1>0, <2>7
      DEF Storage!Expire, Storage!world, AdminTyped
    <3>6. a_past' \in [changed : SUBSET Calls, wrong : SUBSET Calls, checked : SUBSET Calls,
                    outside : Nat]
      BY <1>0, <2>7
      DEF Storage!Expire, Storage!world, AdminTyped
    <3> QED BY <3>1, <3>2, <3>3, <3>4, <3>5, <3>6 DEF AdminTyped
  <2>8. CASE Storage!TimeOut(c)
    <3>1. request' \in [Calls -> Asked]
      BY <1>0, <2>8, RequestsAre, ClosuresAre
      DEF Storage!TimeOut, Storage!Abandon, Storage!Freed, Storage!FreedByFuture, Storage!InFuture,
        Storage!world, AdminTyped
    <3>2. worker' \in [Calls -> Worked]
      BY <1>0, <2>8, ClosuresAre, ChoicesAre
      DEF Storage!TimeOut, Storage!Abandon, Storage!Freed, Storage!FreedByFuture, Storage!InFuture,
        Storage!world, Storage!OnMount, Storage!OnImage, Storage!Script, AdminTyped
    <3>3. mutation' \in Calls \cup {Nobody} /\ mount' \in [Mounts -> Volumes \cup {Nobody}]
      BY <1>0, <2>8, ChoicesAre
      DEF Storage!TimeOut, Storage!Abandon, Storage!Freed, Storage!FreedByFuture, Storage!InFuture,
        Storage!world, AdminTyped
    <3>4. image' \in [id : Nat, attached : BOOLEAN]
      BY <1>0, <2>8
      DEF Storage!TimeOut, Storage!Abandon, Storage!Freed, Storage!FreedByFuture, Storage!InFuture,
        Storage!world, AdminTyped
    <3>5. job' \in [Calls -> {"none", "running", "canceled"}]
      BY <1>0, <2>8
      DEF Storage!TimeOut, Storage!Abandon, Storage!Freed, Storage!FreedByFuture, Storage!InFuture,
        Storage!world, AdminTyped
    <3>6. a_past' \in [changed : SUBSET Calls, wrong : SUBSET Calls, checked : SUBSET Calls,
                    outside : Nat]
      BY <1>0, <2>8
      DEF Storage!TimeOut, Storage!Abandon, Storage!Freed, Storage!FreedByFuture, Storage!InFuture,
        Storage!world, AdminTyped
    <3> QED BY <3>1, <3>2, <3>3, <3>4, <3>5, <3>6 DEF AdminTyped
  <2>9. CASE Storage!CallerCancels(c)
    <3>1. request' \in [Calls -> Asked]
      BY <1>0, <2>9, RequestsAre, ClosuresAre
      DEF Storage!CallerCancels, Storage!Abandon, Storage!Freed, Storage!FreedByFuture,
        Storage!InFuture, Storage!world, AdminTyped
    <3>2. worker' \in [Calls -> Worked]
      BY <1>0, <2>9, ClosuresAre, ChoicesAre
      DEF Storage!CallerCancels, Storage!Abandon, Storage!Freed, Storage!FreedByFuture,
        Storage!InFuture, Storage!world, Storage!OnMount, Storage!OnImage, Storage!Script, AdminTyped
    <3>3. mutation' \in Calls \cup {Nobody} /\ mount' \in [Mounts -> Volumes \cup {Nobody}]
      BY <1>0, <2>9, ChoicesAre
      DEF Storage!CallerCancels, Storage!Abandon, Storage!Freed, Storage!FreedByFuture,
        Storage!InFuture, Storage!world, AdminTyped
    <3>4. image' \in [id : Nat, attached : BOOLEAN]
      BY <1>0, <2>9
      DEF Storage!CallerCancels, Storage!Abandon, Storage!Freed, Storage!FreedByFuture,
        Storage!InFuture, Storage!world, AdminTyped
    <3>5. job' \in [Calls -> {"none", "running", "canceled"}]
      BY <1>0, <2>9
      DEF Storage!CallerCancels, Storage!Abandon, Storage!Freed, Storage!FreedByFuture,
        Storage!InFuture, Storage!world, AdminTyped
    <3>6. a_past' \in [changed : SUBSET Calls, wrong : SUBSET Calls, checked : SUBSET Calls,
                    outside : Nat]
      BY <1>0, <2>9
      DEF Storage!CallerCancels, Storage!Abandon, Storage!Freed, Storage!FreedByFuture,
        Storage!InFuture, Storage!world, AdminTyped
    <3> QED BY <3>1, <3>2, <3>3, <3>4, <3>5, <3>6 DEF AdminTyped
  <2>10. CASE Storage!CallerLeaves(c)
    <3>1. request' \in [Calls -> Asked]
      BY <1>0, <2>10, RequestsAre, ClosuresAre
      DEF Storage!CallerLeaves, Storage!Abandon, Storage!Freed, Storage!FreedByFuture,
        Storage!InFuture, Storage!world, AdminTyped
    <3>2. worker' \in [Calls -> Worked]
      BY <1>0, <2>10, ClosuresAre, ChoicesAre
      DEF Storage!CallerLeaves, Storage!Abandon, Storage!Freed, Storage!FreedByFuture,
        Storage!InFuture, Storage!world, Storage!OnMount, Storage!OnImage, Storage!Script, AdminTyped
    <3>3. mutation' \in Calls \cup {Nobody} /\ mount' \in [Mounts -> Volumes \cup {Nobody}]
      BY <1>0, <2>10, ChoicesAre
      DEF Storage!CallerLeaves, Storage!Abandon, Storage!Freed, Storage!FreedByFuture,
        Storage!InFuture, Storage!world, AdminTyped
    <3>4. image' \in [id : Nat, attached : BOOLEAN]
      BY <1>0, <2>10
      DEF Storage!CallerLeaves, Storage!Abandon, Storage!Freed, Storage!FreedByFuture,
        Storage!InFuture, Storage!world, AdminTyped
    <3>5. job' \in [Calls -> {"none", "running", "canceled"}]
      BY <1>0, <2>10
      DEF Storage!CallerLeaves, Storage!Abandon, Storage!Freed, Storage!FreedByFuture,
        Storage!InFuture, Storage!world, AdminTyped
    <3>6. a_past' \in [changed : SUBSET Calls, wrong : SUBSET Calls, checked : SUBSET Calls,
                    outside : Nat]
      BY <1>0, <2>10
      DEF Storage!CallerLeaves, Storage!Abandon, Storage!Freed, Storage!FreedByFuture,
        Storage!InFuture, Storage!world, AdminTyped
    <3> QED BY <3>1, <3>2, <3>3, <3>4, <3>5, <3>6 DEF AdminTyped
  <2>11. CASE Storage!GiveUp(c)
    <3>1. request' \in [Calls -> Asked]
      BY <1>0, <2>11, RequestsAre, ClosuresAre
      DEF Storage!GiveUp, Storage!Told, Storage!world, AdminTyped
    <3>2. worker' \in [Calls -> Worked]
      BY <1>0, <2>11, ClosuresAre, ChoicesAre
      DEF Storage!GiveUp, Storage!Told, Storage!world, Storage!OnMount, Storage!OnImage, Storage!Script, AdminTyped
    <3>3. mutation' \in Calls \cup {Nobody} /\ mount' \in [Mounts -> Volumes \cup {Nobody}]
      BY <1>0, <2>11, ChoicesAre
      DEF Storage!GiveUp, Storage!Told, Storage!world, AdminTyped
    <3>4. image' \in [id : Nat, attached : BOOLEAN]
      BY <1>0, <2>11
      DEF Storage!GiveUp, Storage!Told, Storage!world, AdminTyped
    <3>5. job' \in [Calls -> {"none", "running", "canceled"}]
      BY <1>0, <2>11
      DEF Storage!GiveUp, Storage!Told, Storage!world, AdminTyped
    <3>6. a_past' \in [changed : SUBSET Calls, wrong : SUBSET Calls, checked : SUBSET Calls,
                    outside : Nat]
      BY <1>0, <2>11
      DEF Storage!GiveUp, Storage!Told, Storage!world, AdminTyped
    <3> QED BY <3>1, <3>2, <3>3, <3>4, <3>5, <3>6 DEF AdminTyped
  <2> QED BY <1>2, <2>1, <2>2, <2>3, <2>4, <2>5, <2>6, <2>7, <2>8, <2>9, <2>10, <2>11 DEF Storage!Asking
<1>3. ASSUME NEW c \in Calls, Storage!Working(c)
      PROVE  AdminTyped'
  <2>1. CASE Storage!WorkerStarts(c)
    <3>1. request' \in [Calls -> Asked]
      BY <1>0, <2>1, RequestsAre, ClosuresAre
      DEF Storage!WorkerStarts, Storage!End, Storage!Goes, Storage!Work, Storage!world, AdminTyped
    <3>2. worker' \in [Calls -> Worked]
      <4>1. StartOf(c) /\ UNCHANGED <<request, mount, image, job, a_past>>
        BY <2>1, WorkerStartsIs
      <4> QED BY <1>0, <4>1, EndIs, GoesIs DEF StartOf, AdminTyped
    <3>3. mutation' \in Calls \cup {Nobody} /\ mount' \in [Mounts -> Volumes \cup {Nobody}]
      <4>1. StartOf(c) /\ UNCHANGED <<request, mount, image, job, a_past>>
        BY <2>1, WorkerStartsIs
      <4> QED BY <1>0, <4>1, EndIs, GoesIs DEF StartOf, AdminTyped
    <3>4. image' \in [id : Nat, attached : BOOLEAN]
      BY <1>0, <2>1
      DEF Storage!WorkerStarts, Storage!End, Storage!Goes, Storage!Work, Storage!world, AdminTyped
    <3>5. job' \in [Calls -> {"none", "running", "canceled"}]
      BY <1>0, <2>1
      DEF Storage!WorkerStarts, Storage!End, Storage!Goes, Storage!Work, Storage!world, AdminTyped
    <3>6. a_past' \in [changed : SUBSET Calls, wrong : SUBSET Calls, checked : SUBSET Calls,
                    outside : Nat]
      BY <1>0, <2>1
      DEF Storage!WorkerStarts, Storage!End, Storage!Goes, Storage!Work, Storage!world, AdminTyped
    <3> QED BY <3>1, <3>2, <3>3, <3>4, <3>5, <3>6 DEF AdminTyped
  <2>2. CASE Storage!QueryFails(c)
    <3>1. request' \in [Calls -> Asked]
      BY <1>0, <2>2, RequestsAre, ClosuresAre
      DEF Storage!QueryFails, Storage!Fails, Storage!End, Storage!world, AdminTyped
    <3>2. worker' \in [Calls -> Worked]
      BY <1>0, <2>2, ClosuresAre, ChoicesAre
      DEF Storage!QueryFails, Storage!Fails, Storage!End, Storage!world, Storage!OnMount, Storage!OnImage, Storage!Script, AdminTyped
    <3>3. mutation' \in Calls \cup {Nobody} /\ mount' \in [Mounts -> Volumes \cup {Nobody}]
      BY <1>0, <2>2, ChoicesAre
      DEF Storage!QueryFails, Storage!Fails, Storage!End, Storage!world, AdminTyped
    <3>4. image' \in [id : Nat, attached : BOOLEAN]
      BY <1>0, <2>2
      DEF Storage!QueryFails, Storage!Fails, Storage!End, Storage!world, AdminTyped
    <3>5. job' \in [Calls -> {"none", "running", "canceled"}]
      BY <1>0, <2>2
      DEF Storage!QueryFails, Storage!Fails, Storage!End, Storage!world, AdminTyped
    <3>6. a_past' \in [changed : SUBSET Calls, wrong : SUBSET Calls, checked : SUBSET Calls,
                    outside : Nat]
      BY <1>0, <2>2
      DEF Storage!QueryFails, Storage!Fails, Storage!End, Storage!world, AdminTyped
    <3> QED BY <3>1, <3>2, <3>3, <3>4, <3>5, <3>6 DEF AdminTyped
  <2>3. CASE Storage!PrepareMount(c)
    <3>1. request' \in [Calls -> Asked]
      BY <1>0, <2>3, RequestsAre, ClosuresAre
      DEF Storage!PrepareMount, Storage!Owned, Storage!Goes, Storage!Work, Storage!world, AdminTyped
    <3>2. worker' \in [Calls -> Worked]
      BY <1>0, <2>3, ClosuresAre, ChoicesAre
      DEF Storage!PrepareMount, Storage!Owned, Storage!Goes, Storage!Work, Storage!world, Storage!OnMount, Storage!OnImage, Storage!Script, AdminTyped
    <3>3. mutation' \in Calls \cup {Nobody} /\ mount' \in [Mounts -> Volumes \cup {Nobody}]
      BY <1>0, <2>3, ChoicesAre
      DEF Storage!PrepareMount, Storage!Owned, Storage!Goes, Storage!Work, Storage!world, AdminTyped
    <3>4. image' \in [id : Nat, attached : BOOLEAN]
      BY <1>0, <2>3
      DEF Storage!PrepareMount, Storage!Owned, Storage!Goes, Storage!Work, Storage!world, AdminTyped
    <3>5. job' \in [Calls -> {"none", "running", "canceled"}]
      BY <1>0, <2>3
      DEF Storage!PrepareMount, Storage!Owned, Storage!Goes, Storage!Work, Storage!world, AdminTyped
    <3>6. a_past' \in [changed : SUBSET Calls, wrong : SUBSET Calls, checked : SUBSET Calls,
                    outside : Nat]
      BY <1>0, <2>3
      DEF Storage!PrepareMount, Storage!Owned, Storage!Goes, Storage!Work, Storage!world, AdminTyped
    <3> QED BY <3>1, <3>2, <3>3, <3>4, <3>5, <3>6 DEF AdminTyped
  <2>4. CASE Storage!RecheckMount(c)
    <3>1. request' \in [Calls -> Asked]
      BY <1>0, <2>4, RequestsAre, ClosuresAre
      DEF Storage!RecheckMount, Storage!Owned, Storage!Goes, Storage!Work, Storage!world, AdminTyped
    <3>2. worker' \in [Calls -> Worked]
      BY <1>0, <2>4, ClosuresAre, ChoicesAre
      DEF Storage!RecheckMount, Storage!Owned, Storage!Goes, Storage!Work, Storage!world, Storage!OnMount, Storage!OnImage, Storage!Script, AdminTyped
    <3>3. mutation' \in Calls \cup {Nobody} /\ mount' \in [Mounts -> Volumes \cup {Nobody}]
      BY <1>0, <2>4, ChoicesAre
      DEF Storage!RecheckMount, Storage!Owned, Storage!Goes, Storage!Work, Storage!world, AdminTyped
    <3>4. image' \in [id : Nat, attached : BOOLEAN]
      BY <1>0, <2>4
      DEF Storage!RecheckMount, Storage!Owned, Storage!Goes, Storage!Work, Storage!world, AdminTyped
    <3>5. job' \in [Calls -> {"none", "running", "canceled"}]
      BY <1>0, <2>4
      DEF Storage!RecheckMount, Storage!Owned, Storage!Goes, Storage!Work, Storage!world, AdminTyped
    <3>6. a_past' \in [changed : SUBSET Calls, wrong : SUBSET Calls, checked : SUBSET Calls,
                    outside : Nat]
      BY <1>0, <2>4
      DEF Storage!RecheckMount, Storage!Owned, Storage!Goes, Storage!Work, Storage!world, AdminTyped
    <3> QED BY <3>1, <3>2, <3>3, <3>4, <3>5, <3>6 DEF AdminTyped
  <2>5. CASE Storage!PinImage(c)
    <3>1. request' \in [Calls -> Asked]
      BY <1>0, <2>5, RequestsAre, ClosuresAre
      DEF Storage!PinImage, Storage!world, AdminTyped
    <3>2. worker' \in [Calls -> Worked]
      BY <1>0, <2>5, ClosuresAre, ChoicesAre
      DEF Storage!PinImage, Storage!world, Storage!OnMount, Storage!OnImage, Storage!Script, AdminTyped
    <3>3. mutation' \in Calls \cup {Nobody} /\ mount' \in [Mounts -> Volumes \cup {Nobody}]
      BY <1>0, <2>5, ChoicesAre
      DEF Storage!PinImage, Storage!world, AdminTyped
    <3>4. image' \in [id : Nat, attached : BOOLEAN]
      BY <1>0, <2>5
      DEF Storage!PinImage, Storage!world, AdminTyped
    <3>5. job' \in [Calls -> {"none", "running", "canceled"}]
      BY <1>0, <2>5
      DEF Storage!PinImage, Storage!world, AdminTyped
    <3>6. a_past' \in [changed : SUBSET Calls, wrong : SUBSET Calls, checked : SUBSET Calls,
                    outside : Nat]
      BY <1>0, <2>5
      DEF Storage!PinImage, Storage!world, AdminTyped
    <3> QED BY <3>1, <3>2, <3>3, <3>4, <3>5, <3>6 DEF AdminTyped
  <2>6. CASE Storage!InspectImage(c)
    <3>1. request' \in [Calls -> Asked]
      BY <1>0, <2>6, RequestsAre, ClosuresAre
      DEF Storage!InspectImage, Storage!Goes, Storage!Work, Storage!world, AdminTyped
    <3>2. worker' \in [Calls -> Worked]
      BY <1>0, <2>6, ClosuresAre, ChoicesAre
      DEF Storage!InspectImage, Storage!Goes, Storage!Work, Storage!world, Storage!OnMount, Storage!OnImage, Storage!Script, AdminTyped
    <3>3. mutation' \in Calls \cup {Nobody} /\ mount' \in [Mounts -> Volumes \cup {Nobody}]
      BY <1>0, <2>6, ChoicesAre
      DEF Storage!InspectImage, Storage!Goes, Storage!Work, Storage!world, AdminTyped
    <3>4. image' \in [id : Nat, attached : BOOLEAN]
      BY <1>0, <2>6
      DEF Storage!InspectImage, Storage!Goes, Storage!Work, Storage!world, AdminTyped
    <3>5. job' \in [Calls -> {"none", "running", "canceled"}]
      BY <1>0, <2>6
      DEF Storage!InspectImage, Storage!Goes, Storage!Work, Storage!world, AdminTyped
    <3>6. a_past' \in [changed : SUBSET Calls, wrong : SUBSET Calls, checked : SUBSET Calls,
                    outside : Nat]
      BY <1>0, <2>6
      DEF Storage!InspectImage, Storage!Goes, Storage!Work, Storage!world, AdminTyped
    <3> QED BY <3>1, <3>2, <3>3, <3>4, <3>5, <3>6 DEF AdminTyped
  <2>7. CASE Storage!Begin(c)
    <3>1. request' \in [Calls -> Asked]
      BY <1>0, <2>7, RequestsAre, ClosuresAre
      DEF Storage!Begin, Storage!End, Storage!Goes, Storage!Work, Storage!world, AdminTyped
    <3>2. worker' \in [Calls -> Worked]
      <4>1. Storage!End(c, "error") \/ Storage!Goes(c, "flag")
        BY <2>7 DEF Storage!Begin
      <4> QED BY <1>0, <4>1, EndIs, GoesIs
    <3>3. mutation' \in Calls \cup {Nobody} /\ mount' \in [Mounts -> Volumes \cup {Nobody}]
      BY <1>0, <2>7, ChoicesAre
      DEF Storage!Begin, Storage!End, Storage!Goes, Storage!Work, Storage!world, AdminTyped
    <3>4. image' \in [id : Nat, attached : BOOLEAN]
      BY <1>0, <2>7
      DEF Storage!Begin, Storage!End, Storage!Goes, Storage!Work, Storage!world, AdminTyped
    <3>5. job' \in [Calls -> {"none", "running", "canceled"}]
      BY <1>0, <2>7
      DEF Storage!Begin, Storage!End, Storage!Goes, Storage!Work, Storage!world, AdminTyped
    <3>6. a_past' \in [changed : SUBSET Calls, wrong : SUBSET Calls, checked : SUBSET Calls,
                    outside : Nat]
      BY <1>0, <2>7
      DEF Storage!Begin, Storage!End, Storage!Goes, Storage!Work, Storage!world, AdminTyped
    <3> QED BY <3>1, <3>2, <3>3, <3>4, <3>5, <3>6 DEF AdminTyped
  <2>8. CASE Storage!RaiseFlag(c)
    <3>1. request' \in [Calls -> Asked]
      BY <1>0, <2>8, RequestsAre, ClosuresAre
      DEF Storage!RaiseFlag, Storage!Goes, Storage!Work, Storage!world, AdminTyped
    <3>2. worker' \in [Calls -> Worked]
      BY <1>0, <2>8, ClosuresAre, ChoicesAre
      DEF Storage!RaiseFlag, Storage!Goes, Storage!Work, Storage!world, Storage!OnMount, Storage!OnImage, Storage!Script, AdminTyped
    <3>3. mutation' \in Calls \cup {Nobody} /\ mount' \in [Mounts -> Volumes \cup {Nobody}]
      BY <1>0, <2>8, ChoicesAre
      DEF Storage!RaiseFlag, Storage!Goes, Storage!Work, Storage!world, AdminTyped
    <3>4. image' \in [id : Nat, attached : BOOLEAN]
      BY <1>0, <2>8
      DEF Storage!RaiseFlag, Storage!Goes, Storage!Work, Storage!world, AdminTyped
    <3>5. job' \in [Calls -> {"none", "running", "canceled"}]
      BY <1>0, <2>8
      DEF Storage!RaiseFlag, Storage!Goes, Storage!Work, Storage!world, AdminTyped
    <3>6. a_past' \in [changed : SUBSET Calls, wrong : SUBSET Calls, checked : SUBSET Calls,
                    outside : Nat]
      BY <1>0, <2>8
      DEF Storage!RaiseFlag, Storage!Goes, Storage!Work, Storage!world, AdminTyped
    <3> QED BY <3>1, <3>2, <3>3, <3>4, <3>5, <3>6 DEF AdminTyped
  <2>9. CASE Storage!NativeCall(c)
    <3>1. request' \in [Calls -> Asked]
      BY <1>0, <2>9, RequestsAre, ClosuresAre
      DEF Storage!NativeCall, Storage!NativeMount, Storage!NativeImage, Storage!NativeJob,
        Storage!Changed, Storage!Goes, Storage!Work, Storage!world, AdminTyped
    <3>2. worker' \in [Calls -> Worked]
      BY <1>0, <2>9, ClosuresAre, ChoicesAre
      DEF Storage!NativeCall, Storage!NativeMount, Storage!NativeImage, Storage!NativeJob,
        Storage!Changed, Storage!Goes, Storage!Work, Storage!world, Storage!OnMount, Storage!OnImage, Storage!Script, AdminTyped
    <3>3. mutation' \in Calls \cup {Nobody} /\ mount' \in [Mounts -> Volumes \cup {Nobody}]
      BY <1>0, <2>9, ChoicesAre
      DEF Storage!NativeCall, Storage!NativeMount, Storage!NativeImage, Storage!NativeJob,
        Storage!Changed, Storage!Goes, Storage!Work, Storage!world, AdminTyped
    <3>4. image' \in [id : Nat, attached : BOOLEAN]
      BY <1>0, <2>9
      DEF Storage!NativeCall, Storage!NativeMount, Storage!NativeImage, Storage!NativeJob,
        Storage!Changed, Storage!Goes, Storage!Work, Storage!world, AdminTyped
    <3>5. job' \in [Calls -> {"none", "running", "canceled"}]
      BY <1>0, <2>9
      DEF Storage!NativeCall, Storage!NativeMount, Storage!NativeImage, Storage!NativeJob,
        Storage!Changed, Storage!Goes, Storage!Work, Storage!world, AdminTyped
    <3>6. a_past' \in [changed : SUBSET Calls, wrong : SUBSET Calls, checked : SUBSET Calls,
                    outside : Nat]
      <4>1. \E unchecked \in BOOLEAN : Storage!Changed(c, unchecked)
        BY <2>9 DEF Storage!NativeCall, Storage!NativeMount, Storage!NativeImage, Storage!NativeJob
      <4>2. PICK w \in {a_past.wrong, a_past.wrong \cup {c}} :
               a_past' = [a_past EXCEPT !.changed = a_past.changed \cup {c}, !.wrong = w,
                                        !.checked = a_past.checked \ {c}]
        BY <4>1 DEF Storage!Changed
      <4>3. w \subseteq Calls
        BY <1>0 DEF AdminTyped
      <4> QED BY <1>0, <4>2, <4>3 DEF AdminTyped
    <3> QED BY <3>1, <3>2, <3>3, <3>4, <3>5, <3>6 DEF AdminTyped
  <2>10. CASE Storage!NativeFails(c)
    <3>1. request' \in [Calls -> Asked]
      BY <1>0, <2>10, RequestsAre, ClosuresAre
      DEF Storage!NativeFails, Storage!End, Storage!Goes, Storage!Work, Storage!world, AdminTyped
    <3>2. worker' \in [Calls -> Worked]
      <4>1. Storage!End(c, "error") \/ Storage!Goes(c, "observe")
        BY <2>10 DEF Storage!NativeFails
      <4> QED BY <1>0, <4>1, EndIs, GoesIs
    <3>3. mutation' \in Calls \cup {Nobody} /\ mount' \in [Mounts -> Volumes \cup {Nobody}]
      BY <1>0, <2>10, ChoicesAre
      DEF Storage!NativeFails, Storage!End, Storage!Goes, Storage!Work, Storage!world, AdminTyped
    <3>4. image' \in [id : Nat, attached : BOOLEAN]
      BY <1>0, <2>10
      DEF Storage!NativeFails, Storage!End, Storage!Goes, Storage!Work, Storage!world, AdminTyped
    <3>5. job' \in [Calls -> {"none", "running", "canceled"}]
      BY <1>0, <2>10
      DEF Storage!NativeFails, Storage!End, Storage!Goes, Storage!Work, Storage!world, AdminTyped
    <3>6. a_past' \in [changed : SUBSET Calls, wrong : SUBSET Calls, checked : SUBSET Calls,
                    outside : Nat]
      BY <1>0, <2>10
      DEF Storage!NativeFails, Storage!End, Storage!Goes, Storage!Work, Storage!world, AdminTyped
    <3> QED BY <3>1, <3>2, <3>3, <3>4, <3>5, <3>6 DEF AdminTyped
  <2>11. CASE Storage!Observe(c)
    <3>1. request' \in [Calls -> Asked]
      BY <1>0, <2>11, RequestsAre, ClosuresAre
      DEF Storage!Observe, Storage!End, Storage!world, AdminTyped
    <3>2. worker' \in [Calls -> Worked]
      BY <1>0, <2>11, ClosuresAre, ChoicesAre
      DEF Storage!Observe, Storage!End, Storage!world, Storage!OnMount, Storage!OnImage, Storage!Script, AdminTyped
    <3>3. mutation' \in Calls \cup {Nobody} /\ mount' \in [Mounts -> Volumes \cup {Nobody}]
      BY <1>0, <2>11, ChoicesAre
      DEF Storage!Observe, Storage!End, Storage!world, AdminTyped
    <3>4. image' \in [id : Nat, attached : BOOLEAN]
      BY <1>0, <2>11
      DEF Storage!Observe, Storage!End, Storage!world, AdminTyped
    <3>5. job' \in [Calls -> {"none", "running", "canceled"}]
      BY <1>0, <2>11
      DEF Storage!Observe, Storage!End, Storage!world, AdminTyped
    <3>6. a_past' \in [changed : SUBSET Calls, wrong : SUBSET Calls, checked : SUBSET Calls,
                    outside : Nat]
      BY <1>0, <2>11
      DEF Storage!Observe, Storage!End, Storage!world, AdminTyped
    <3> QED BY <3>1, <3>2, <3>3, <3>4, <3>5, <3>6 DEF AdminTyped
  <2>12. CASE Storage!JobLaunched(c)
    <3>1. request' \in [Calls -> Asked]
      BY <1>0, <2>12, RequestsAre, ClosuresAre
      DEF Storage!JobLaunched, Storage!End, Storage!world, AdminTyped
    <3>2. worker' \in [Calls -> Worked]
      <4>1. \E result \in {"ok", "error", "uncanceled"} : Storage!End(c, result)
        BY <2>12 DEF Storage!JobLaunched
      <4> QED BY <1>0, <4>1, EndIs
    <3>3. mutation' \in Calls \cup {Nobody} /\ mount' \in [Mounts -> Volumes \cup {Nobody}]
      BY <1>0, <2>12, ChoicesAre
      DEF Storage!JobLaunched, Storage!End, Storage!world, AdminTyped
    <3>4. image' \in [id : Nat, attached : BOOLEAN]
      BY <1>0, <2>12
      DEF Storage!JobLaunched, Storage!End, Storage!world, AdminTyped
    <3>5. job' \in [Calls -> {"none", "running", "canceled"}]
      BY <1>0, <2>12
      DEF Storage!JobLaunched, Storage!End, Storage!world, AdminTyped
    <3>6. a_past' \in [changed : SUBSET Calls, wrong : SUBSET Calls, checked : SUBSET Calls,
                    outside : Nat]
      BY <1>0, <2>12
      DEF Storage!JobLaunched, Storage!End, Storage!world, AdminTyped
    <3> QED BY <3>1, <3>2, <3>3, <3>4, <3>5, <3>6 DEF AdminTyped
  <2> QED BY <1>3, <2>1, <2>2, <2>3, <2>4, <2>5, <2>6, <2>7, <2>8, <2>9, <2>10, <2>11, <2>12 DEF Storage!Working
<1>4. CASE Storage!Outside
  <2>0. OutsideEffect
    BY <1>0, <1>4, OutsideIs
  <2>1. /\ mount' \in [Mounts -> Volumes \cup {Nobody}]
        /\ UNCHANGED <<request, worker, mutation, slots, job>>
    <3>1. \/ \E m \in Mounts, v \in Volumes \cup {Nobody} : mount' = [mount EXCEPT ![m] = v]
          \/ mount' = mount
      BY <2>0 DEF OutsideEffect
    <3>2. mount \in [Mounts -> Volumes \cup {Nobody}]
      BY <1>0 DEF AdminTyped
    <3> QED BY <2>0, <3>1, <3>2 DEF OutsideEffect
  <2>2. image' \in [id : Nat, attached : BOOLEAN]
    <3>1. \E i \in Nat, b \in BOOLEAN : image' = [image EXCEPT !.id = i, !.attached = b]
      <4>1. image = [id |-> image.id, attached |-> image.attached] /\ image.id \in Nat
            /\ image.attached \in BOOLEAN
        BY <1>0 DEF AdminTyped
      <4>2. CASE image' = [image EXCEPT !.attached = ~image.attached]
        <5>1. (~image.attached) \in BOOLEAN
          OBVIOUS
        <5> DEFINE b == ~image.attached
        <5>2. b \in BOOLEAN /\ image' = [image EXCEPT !.attached = b]
          BY <4>2, <5>1
        <5> HIDE DEF b
        <5>3. image' = [image EXCEPT !.id = image.id, !.attached = b]
          BY <4>1, <5>2
        <5> QED BY <4>1, <5>2, <5>3
      <4>3. CASE image' = [image EXCEPT !.id = image.id + 1]
        <5>1. image' = [image EXCEPT !.id = image.id + 1, !.attached = image.attached]
          BY <4>1, <4>3
        <5>2. image.id + 1 \in Nat
          BY <4>1
        <5> QED BY <4>1, <5>1, <5>2
      <4>4. CASE image' = image
        BY <4>1, <4>4
      <4> QED BY <2>0, <4>2, <4>3, <4>4 DEF OutsideEffect
    <3>2. image \in [id : Nat, attached : BOOLEAN]
      BY <1>0 DEF AdminTyped
    <3> QED BY <3>1, <3>2
  <2>3. a_past \in [changed : SUBSET Calls, wrong : SUBSET Calls, checked : SUBSET Calls,
                   outside : Nat]
    BY <1>0 DEF AdminTyped
  <2>4. a_past' \in [changed : SUBSET Calls, wrong : SUBSET Calls, checked : SUBSET Calls,
                    outside : Nat]
    <3>1. CASE a_past' = [a_past EXCEPT !.outside = a_past.outside + 1]
      BY <2>3, <3>1
    <3>2. ASSUME NEW m \in Mounts,
                 a_past' = [a_past EXCEPT !.outside = a_past.outside + 1,
                              !.checked = {x \in a_past.checked : Task[x].mount # m}]
          PROVE  a_past' \in [changed : SUBSET Calls, wrong : SUBSET Calls,
                              checked : SUBSET Calls, outside : Nat]
      <4> DEFINE old == {x \in a_past.checked : Task[x].mount # m}
      <4>1. old \in SUBSET Calls /\ a_past.outside + 1 \in Nat
        BY <2>3
      <4>3. a_past = [changed |-> a_past.changed, wrong |-> a_past.wrong,
                      checked |-> a_past.checked, outside |-> a_past.outside]
        BY <2>3
      <4>2. a_past' = [a_past EXCEPT !.outside = a_past.outside + 1, !.checked = old]
        BY <3>2
      <4> HIDE DEF old
      <4>4. a_past' = [changed |-> a_past.changed, wrong |-> a_past.wrong,
                       checked |-> old, outside |-> a_past.outside + 1]
        BY <4>2, <4>3
      <4> QED BY <2>3, <4>1, <4>4
    <3> QED BY <2>0, <3>1, <3>2 DEF OutsideEffect
  <2> QED BY <1>0, <2>1, <2>2, <2>4 DEF AdminTyped
<1> QED BY <1>1, <1>2, <1>3, <1>4 DEF AdminSteps, Storage!Next

\* What a closure is doing stays true to what it is for.
LEMMA PlanStep ==
    ASSUME AdminInv, AdminSteps
    PROVE  (\A x \in Calls : PlanOf(x))'
<1> USE ChoicesAre DEF AdminTyped, PlanOf, Asked, Worked, Storage!OnMount, Storage!OnImage,
  Storage!Script, Storage!Mutating, Storage!Does
<1>0. AdminTyped /\ (\A x \in Calls : PlanOf(x))
  BY DEF AdminInv
<1>1. CASE UNCHANGED Storage!vars
  BY <1>0, <1>1 DEF Storage!vars
<1>2. ASSUME NEW c \in Calls, Storage!Asking(c)
      PROVE  (\A x \in Calls : PlanOf(x))'
  <2>1. CASE Storage!Enter(c)
    BY <1>0, <2>1 DEF Storage!Enter, Storage!Ask, Storage!world
  <2>2. CASE Storage!TakeMutation(c)
    BY <1>0, <2>2 DEF Storage!TakeMutation, Storage!Ask, Storage!world
  <2>3. CASE Storage!TakeSlot(c)
    BY <1>0, <2>3 DEF Storage!TakeSlot, Storage!Ask, Storage!Work, Storage!world
  <2>4. CASE Storage!Answer(c)
    <3>0. /\ request[c].pc = "working" /\ worker[c].pc = "ended"
          /\ UNCHANGED <<worker, slots, mount, image, job, a_past>>
      BY <2>4 DEF Storage!Answer, Storage!world
    <3>a. \/ /\ Storage!Script(c)
             /\ Storage!Ask(c, "begin")
             /\ UNCHANGED mutation
          \/ /\ Storage!Told(c, worker[c].result)
             /\ ~Storage!Script(c)
             /\ UNCHANGED mutation
          \/ /\ Storage!Told(c, worker[c].result)
             /\ Storage!Script(c)
             /\ mutation' = Nobody
      BY <2>4, <3>0 DEF Storage!Answer
    <3>1. CASE /\ Storage!Script(c)
               /\ Storage!Ask(c, "begin")
               /\ UNCHANGED mutation
      BY <1>0, <3>0, <3>1 DEF Storage!Ask
    <3>2. CASE /\ Storage!Told(c, worker[c].result)
               /\ ~Storage!Script(c)
               /\ UNCHANGED mutation
      BY <1>0, <3>0, <3>2 DEF Storage!Told
    <3>3. CASE /\ Storage!Told(c, worker[c].result)
               /\ Storage!Script(c)
               /\ mutation' = Nobody
      BY <1>0, <3>0, <3>3 DEF Storage!Told
    <3> QED BY <3>a, <3>1, <3>2, <3>3
  <2>5. CASE Storage!RunScript(c)
    <3>0. /\ request[c].pc = "begin" /\ UNCHANGED <<worker, slots, mount, image, job>>
      BY <2>5 DEF Storage!RunScript, Storage!world
    <3>a. \/ /\ Storage!Told(c, "error")
             /\ mutation' = Nobody
             /\ UNCHANGED a_past
          \/ /\ request' = [request EXCEPT ![c].pc = "script", ![c].started = TRUE]
             /\ a_past' = [a_past EXCEPT !.changed = a_past.changed \cup {c}]
             /\ UNCHANGED mutation
      BY <2>5, <3>0 DEF Storage!RunScript
    <3>1. CASE /\ Storage!Told(c, "error")
               /\ mutation' = Nobody
               /\ UNCHANGED a_past
      BY <1>0, <3>0, <3>1 DEF Storage!Told
    <3>2. CASE /\ request' = [request EXCEPT ![c].pc = "script", ![c].started = TRUE]
               /\ a_past' = [a_past EXCEPT !.changed = a_past.changed \cup {c}]
               /\ UNCHANGED mutation
      BY <1>0, <3>0, <3>2 DEF Storage!Told
    <3> QED BY <3>a, <3>1, <3>2
  <2>6. CASE Storage!ScriptAnswers(c)
    BY <1>0, <2>6 DEF Storage!ScriptAnswers, Storage!Told, Storage!world
  <2>7. CASE Storage!Expire(c)
    BY <1>0, <2>7 DEF Storage!Expire, Storage!world
  <2>8. CASE Storage!TimeOut(c)
    BY <1>0, <2>8 DEF Storage!TimeOut, Storage!Abandon, Storage!Freed, Storage!FreedByFuture,
      Storage!InFuture, Storage!world
  <2>9. CASE Storage!CallerCancels(c)
    BY <1>0, <2>9 DEF Storage!CallerCancels, Storage!Abandon, Storage!Freed,
      Storage!FreedByFuture, Storage!InFuture, Storage!world
  <2>10. CASE Storage!CallerLeaves(c)
    BY <1>0, <2>10 DEF Storage!CallerLeaves, Storage!Abandon, Storage!Freed,
      Storage!FreedByFuture, Storage!InFuture, Storage!world
  <2>11. CASE Storage!GiveUp(c)
    BY <1>0, <2>11 DEF Storage!GiveUp, Storage!Told, Storage!world
  <2> QED BY <1>2, <2>1, <2>2, <2>3, <2>4, <2>5, <2>6, <2>7, <2>8, <2>9, <2>10, <2>11 DEF Storage!Asking
<1>3. ASSUME NEW c \in Calls, Storage!Working(c)
      PROVE  (\A x \in Calls : PlanOf(x))'
  <2>1. CASE Storage!WorkerStarts(c)
    <3>1. /\ StartOf(c) /\ worker[c].pc = "queued"
          /\ UNCHANGED <<request, mount, image, job, a_past>>
      BY <2>1, WorkerStartsIs
    <3>2. ASSUME NEW result \in {"error", "ok"}, Storage!End(c, result)
          PROVE  (\A x \in Calls : PlanOf(x))'
      BY <1>0, <3>1, <3>2 DEF Storage!End
    <3>3. ASSUME NEW p \in {"observe", "begin", "prepare", "pin"}, Storage!Goes(c, p),
                 p = "observe" => Storage!Does(c) = "read",
                 p = "begin" => Storage!Does(c) = "job",
                 p = "prepare" => Storage!OnMount(c), p = "pin" => Storage!OnImage(c)
          PROVE  (\A x \in Calls : PlanOf(x))'
      BY <1>0, <3>1, <3>3 DEF Storage!Goes, Storage!Work
    <3>4. \/ \E result \in {"error", "ok"} : Storage!End(c, result)
          \/ Storage!Does(c) = "read" /\ Storage!Goes(c, "observe")
          \/ Storage!Does(c) = "job" /\ Storage!Goes(c, "begin")
          \/ Storage!OnMount(c) /\ Storage!Goes(c, "prepare")
          \/ Storage!OnImage(c) /\ Storage!Goes(c, "pin")
      BY <3>1 DEF StartOf
    <3>5. CASE Storage!Does(c) = "read" /\ Storage!Goes(c, "observe")
      BY <3>3, <3>5
    <3>6. CASE Storage!Does(c) = "job" /\ Storage!Goes(c, "begin")
      BY <3>3, <3>6
    <3>7. CASE Storage!OnMount(c) /\ Storage!Goes(c, "prepare")
      BY <3>3, <3>7
    <3>8. CASE Storage!OnImage(c) /\ Storage!Goes(c, "pin")
      BY <3>3, <3>8
    <3> QED BY <3>2, <3>4, <3>5, <3>6, <3>7, <3>8
  <2>2. CASE Storage!QueryFails(c)
    BY <1>0, <2>2 DEF Storage!QueryFails, Storage!Fails, Storage!End, Storage!world
  <2>3. CASE Storage!PrepareMount(c)
    BY <1>0, <2>3 DEF Storage!PrepareMount, Storage!Owned, Storage!Goes, Storage!Work,
      Storage!world
  <2>4. CASE Storage!RecheckMount(c)
    BY <1>0, <2>4 DEF Storage!RecheckMount, Storage!Owned, Storage!Goes, Storage!Work,
      Storage!world
  <2>5. CASE Storage!PinImage(c)
    BY <1>0, <2>5 DEF Storage!PinImage, Storage!world
  <2>6. CASE Storage!InspectImage(c)
    BY <1>0, <2>6 DEF Storage!InspectImage, Storage!Goes, Storage!Work, Storage!world
  <2>7. CASE Storage!Begin(c)
    <3>0. /\ worker[c].pc = "begin" /\ UNCHANGED <<request, mount, image, job, a_past>>
      BY <2>7 DEF Storage!Begin, Storage!world
    <3>a. \/ /\ Storage!End(c, "error")
          \/ /\ Storage!Goes(c, "flag")
      BY <2>7, <3>0 DEF Storage!Begin
    <3>1. CASE /\ Storage!End(c, "error")
      BY <1>0, <3>0, <3>1 DEF Storage!End
    <3>2. CASE /\ Storage!Goes(c, "flag")
      BY <1>0, <3>0, <3>2 DEF Storage!Goes, Storage!Work
    <3> QED BY <3>a, <3>1, <3>2
  <2>8. CASE Storage!RaiseFlag(c)
    BY <1>0, <2>8 DEF Storage!RaiseFlag, Storage!Goes, Storage!Work, Storage!world
  <2>9. CASE Storage!NativeCall(c)
    <3>0. /\ worker[c].pc = "native" /\ UNCHANGED request
      BY <2>9 DEF Storage!NativeCall, Storage!world
    <3>a. \/ /\ Storage!OnMount(c)
             /\ Storage!NativeMount(c)
             /\ Storage!Goes(c, "observe")
          \/ /\ Storage!OnImage(c)
             /\ Storage!NativeImage(c)
             /\ Storage!Goes(c, "observe")
          \/ /\ Storage!Does(c) = "job"
             /\ Storage!NativeJob(c)
             /\ Storage!Goes(c, "launched")
      BY <2>9, <3>0, <1>0 DEF Storage!NativeCall
    <3>1. CASE /\ Storage!OnMount(c)
               /\ Storage!NativeMount(c)
               /\ Storage!Goes(c, "observe")
      BY <1>0, <3>0, <3>1 DEF Storage!Goes, Storage!Work, Storage!NativeMount, Storage!Changed
    <3>2. CASE /\ Storage!OnImage(c)
               /\ Storage!NativeImage(c)
               /\ Storage!Goes(c, "observe")
      BY <1>0, <3>0, <3>2 DEF Storage!Goes, Storage!Work, Storage!NativeImage, Storage!Changed
    <3>3. CASE /\ Storage!Does(c) = "job"
               /\ Storage!NativeJob(c)
               /\ Storage!Goes(c, "launched")
      BY <1>0, <3>0, <3>3 DEF Storage!Goes, Storage!Work, Storage!NativeJob, Storage!Changed
    <3> QED BY <3>a, <3>1, <3>2, <3>3
  <2>10. CASE Storage!NativeFails(c)
    <3>0. /\ worker[c].pc = "native" /\ UNCHANGED <<request, mount, image, job, a_past>>
      BY <2>10 DEF Storage!NativeFails, Storage!world
    <3>a. \/ /\ Storage!End(c, "error")
          \/ /\ Storage!OnImage(c)
             /\ Storage!Goes(c, "observe")
      BY <2>10, <3>0 DEF Storage!NativeFails
    <3>1. CASE /\ Storage!End(c, "error")
      BY <1>0, <3>0, <3>1 DEF Storage!End
    <3>2. CASE /\ Storage!OnImage(c)
               /\ Storage!Goes(c, "observe")
      BY <1>0, <3>0, <3>2 DEF Storage!Goes, Storage!Work
    <3> QED BY <3>a, <3>1, <3>2
  <2>11. CASE Storage!Observe(c)
    BY <1>0, <2>11 DEF Storage!Observe, Storage!End, Storage!world
  <2>12. CASE Storage!JobLaunched(c)
    <3>0. /\ worker[c].pc = "launched" /\ UNCHANGED <<request, mount, image, a_past>>
      BY <2>12 DEF Storage!JobLaunched, Storage!world
    <3>a. \/ /\ Storage!End(c, "ok")
             /\ UNCHANGED job
          \/ /\ Storage!End(c, "error")
             /\ job' = [job EXCEPT ![c] = "canceled"]
          \/ /\ Storage!End(c, "uncanceled")
             /\ UNCHANGED job
      BY <2>12, <3>0 DEF Storage!JobLaunched
    <3>1. CASE /\ Storage!End(c, "ok")
               /\ UNCHANGED job
      BY <1>0, <3>0, <3>1 DEF Storage!End
    <3>2. CASE /\ Storage!End(c, "error")
               /\ job' = [job EXCEPT ![c] = "canceled"]
      BY <1>0, <3>0, <3>2 DEF Storage!End
    <3>3. CASE /\ Storage!End(c, "uncanceled")
               /\ UNCHANGED job
      BY <1>0, <3>0, <3>3 DEF Storage!End
    <3> QED BY <3>a, <3>1, <3>2, <3>3
  <2> QED BY <1>3, <2>1, <2>2, <2>3, <2>4, <2>5, <2>6, <2>7, <2>8, <2>9, <2>10, <2>11, <2>12 DEF Storage!Working
<1>4. CASE Storage!Outside
  <2>1. OutsideEffect
    BY <1>0, <1>4, OutsideIs
  <2>2. CASE \E m \in Mounts, v \in Volumes \cup {Nobody} :
           /\ mount' = [mount EXCEPT ![m] = v]
           /\ a_past' = [a_past EXCEPT !.outside = a_past.outside + 1,
                                       !.checked = {x \in a_past.checked : Task[x].mount # m}]
           /\ UNCHANGED image
    BY <1>0, <2>1, <2>2 DEF OutsideEffect
  <2>3. CASE /\ image' = [image EXCEPT !.attached = ~image.attached]
             /\ a_past' = [a_past EXCEPT !.outside = a_past.outside + 1] /\ UNCHANGED mount
    BY <1>0, <2>1, <2>3 DEF OutsideEffect
  <2>4. CASE /\ image' = [image EXCEPT !.id = image.id + 1]
             /\ \A x \in Calls : ~worker[x].pinned
             /\ a_past' = [a_past EXCEPT !.outside = a_past.outside + 1] /\ UNCHANGED mount
    BY <1>0, <2>1, <2>4 DEF OutsideEffect
  <2> QED BY <2>1, <2>2, <2>3, <2>4 DEF OutsideEffect
<1> QED BY <1>1, <1>2, <1>3, <1>4 DEF AdminSteps, Storage!Next

\* The mutation permit is with the one call that may change something.
LEMMA PermitStep ==
    ASSUME AdminInv, AdminSteps
    PROVE  (\A x \in Calls : PermitOf(x))'
<1> USE ChoicesAre DEF AdminTyped, PlanOf, PermitOf, Storage!OnMount, Storage!OnImage,
  Storage!Script, Storage!Mutating, Storage!Does
<1>0. AdminTyped /\ (\A x \in Calls : PlanOf(x)) /\ (\A x \in Calls : PermitOf(x))
  BY DEF AdminInv
<1>1. CASE UNCHANGED Storage!vars
  BY <1>0, <1>1 DEF Storage!vars
<1>2. ASSUME NEW c \in Calls, Storage!Asking(c)
      PROVE  (\A x \in Calls : PermitOf(x))'
  <2>1. CASE Storage!Enter(c)
    BY <1>0, <2>1 DEF Storage!Enter, Storage!Ask, Storage!world
  <2>2. CASE Storage!TakeMutation(c)
    BY <1>0, <2>2 DEF Storage!TakeMutation, Storage!Ask, Storage!world
  <2>3. CASE Storage!TakeSlot(c)
    BY <1>0, <2>3 DEF Storage!TakeSlot, Storage!Ask, Storage!Work, Storage!world
  <2>4. CASE Storage!Answer(c)
    <3>0. /\ request[c].pc = "working" /\ worker[c].pc = "ended"
          /\ UNCHANGED <<worker, slots, mount, image, job, a_past>>
      BY <2>4 DEF Storage!Answer, Storage!world
    <3>a. \/ /\ Storage!Script(c)
             /\ Storage!Ask(c, "begin")
             /\ UNCHANGED mutation
          \/ /\ Storage!Told(c, worker[c].result)
             /\ ~Storage!Script(c)
             /\ UNCHANGED mutation
          \/ /\ Storage!Told(c, worker[c].result)
             /\ Storage!Script(c)
             /\ mutation' = Nobody
      BY <2>4, <3>0 DEF Storage!Answer
    <3>1. CASE /\ Storage!Script(c)
               /\ Storage!Ask(c, "begin")
               /\ UNCHANGED mutation
      BY <1>0, <3>0, <3>1 DEF Storage!Ask
    <3>2. CASE /\ Storage!Told(c, worker[c].result)
               /\ ~Storage!Script(c)
               /\ UNCHANGED mutation
      BY <1>0, <3>0, <3>2 DEF Storage!Told
    <3>3. CASE /\ Storage!Told(c, worker[c].result)
               /\ Storage!Script(c)
               /\ mutation' = Nobody
      BY <1>0, <3>0, <3>3 DEF Storage!Told
    <3> QED BY <3>a, <3>1, <3>2, <3>3
  <2>5. CASE Storage!RunScript(c)
    <3>0. /\ request[c].pc = "begin" /\ UNCHANGED <<worker, slots, mount, image, job>>
      BY <2>5 DEF Storage!RunScript, Storage!world
    <3>a. \/ /\ Storage!Told(c, "error")
             /\ mutation' = Nobody
             /\ UNCHANGED a_past
          \/ /\ request' = [request EXCEPT ![c].pc = "script", ![c].started = TRUE]
             /\ a_past' = [a_past EXCEPT !.changed = a_past.changed \cup {c}]
             /\ UNCHANGED mutation
      BY <2>5, <3>0 DEF Storage!RunScript
    <3>1. CASE /\ Storage!Told(c, "error")
               /\ mutation' = Nobody
               /\ UNCHANGED a_past
      BY <1>0, <3>0, <3>1 DEF Storage!Told
    <3>2. CASE /\ request' = [request EXCEPT ![c].pc = "script", ![c].started = TRUE]
               /\ a_past' = [a_past EXCEPT !.changed = a_past.changed \cup {c}]
               /\ UNCHANGED mutation
      BY <1>0, <3>0, <3>2 DEF Storage!Told
    <3> QED BY <3>a, <3>1, <3>2
  <2>6. CASE Storage!ScriptAnswers(c)
    BY <1>0, <2>6 DEF Storage!ScriptAnswers, Storage!Told, Storage!world
  <2>7. CASE Storage!Expire(c)
    BY <1>0, <2>7 DEF Storage!Expire, Storage!world
  <2>8. CASE Storage!TimeOut(c)
    BY <1>0, <2>8 DEF Storage!TimeOut, Storage!Abandon, Storage!Freed, Storage!FreedByFuture,
      Storage!InFuture, Storage!world
  <2>9. CASE Storage!CallerCancels(c)
    BY <1>0, <2>9 DEF Storage!CallerCancels, Storage!Abandon, Storage!Freed,
      Storage!FreedByFuture, Storage!InFuture, Storage!world
  <2>10. CASE Storage!CallerLeaves(c)
    BY <1>0, <2>10 DEF Storage!CallerLeaves, Storage!Abandon, Storage!Freed,
      Storage!FreedByFuture, Storage!InFuture, Storage!world
  <2>11. CASE Storage!GiveUp(c)
    BY <1>0, <2>11 DEF Storage!GiveUp, Storage!Told, Storage!world
  <2> QED BY <1>2, <2>1, <2>2, <2>3, <2>4, <2>5, <2>6, <2>7, <2>8, <2>9, <2>10, <2>11 DEF Storage!Asking
<1>3. ASSUME NEW c \in Calls, Storage!Working(c)
      PROVE  (\A x \in Calls : PermitOf(x))'
  <2>1. CASE Storage!WorkerStarts(c)
    <3>1. /\ StartOf(c) /\ worker[c].pc = "queued"
          /\ UNCHANGED <<request, mount, image, job, a_past>>
      BY <2>1, WorkerStartsIs
    <3>2. ASSUME NEW result \in {"error", "ok"}, Storage!End(c, result)
          PROVE  (\A x \in Calls : PermitOf(x))'
      BY <1>0, <3>1, <3>2 DEF Storage!End
    <3>3. ASSUME NEW p \in {"observe", "begin", "prepare", "pin"}, Storage!Goes(c, p),
                 p = "observe" => Storage!Does(c) = "read",
                 p = "begin" => Storage!Does(c) = "job",
                 p = "prepare" => Storage!OnMount(c), p = "pin" => Storage!OnImage(c)
          PROVE  (\A x \in Calls : PermitOf(x))'
      BY <1>0, <3>1, <3>3 DEF Storage!Goes, Storage!Work
    <3>4. \/ \E result \in {"error", "ok"} : Storage!End(c, result)
          \/ Storage!Does(c) = "read" /\ Storage!Goes(c, "observe")
          \/ Storage!Does(c) = "job" /\ Storage!Goes(c, "begin")
          \/ Storage!OnMount(c) /\ Storage!Goes(c, "prepare")
          \/ Storage!OnImage(c) /\ Storage!Goes(c, "pin")
      BY <3>1 DEF StartOf
    <3>5. CASE Storage!Does(c) = "read" /\ Storage!Goes(c, "observe")
      BY <3>3, <3>5
    <3>6. CASE Storage!Does(c) = "job" /\ Storage!Goes(c, "begin")
      BY <3>3, <3>6
    <3>7. CASE Storage!OnMount(c) /\ Storage!Goes(c, "prepare")
      BY <3>3, <3>7
    <3>8. CASE Storage!OnImage(c) /\ Storage!Goes(c, "pin")
      BY <3>3, <3>8
    <3> QED BY <3>2, <3>4, <3>5, <3>6, <3>7, <3>8
  <2>2. CASE Storage!QueryFails(c)
    BY <1>0, <2>2 DEF Storage!QueryFails, Storage!Fails, Storage!End, Storage!world
  <2>3. CASE Storage!PrepareMount(c)
    BY <1>0, <2>3 DEF Storage!PrepareMount, Storage!Owned, Storage!Goes, Storage!Work,
      Storage!world
  <2>4. CASE Storage!RecheckMount(c)
    BY <1>0, <2>4 DEF Storage!RecheckMount, Storage!Owned, Storage!Goes, Storage!Work,
      Storage!world
  <2>5. CASE Storage!PinImage(c)
    BY <1>0, <2>5 DEF Storage!PinImage, Storage!world
  <2>6. CASE Storage!InspectImage(c)
    BY <1>0, <2>6 DEF Storage!InspectImage, Storage!Goes, Storage!Work, Storage!world
  <2>7. CASE Storage!Begin(c)
    <3>0. /\ worker[c].pc = "begin" /\ UNCHANGED <<request, mount, image, job, a_past>>
      BY <2>7 DEF Storage!Begin, Storage!world
    <3>a. \/ /\ Storage!End(c, "error")
          \/ /\ Storage!Goes(c, "flag")
      BY <2>7, <3>0 DEF Storage!Begin
    <3>1. CASE /\ Storage!End(c, "error")
      BY <1>0, <3>0, <3>1 DEF Storage!End
    <3>2. CASE /\ Storage!Goes(c, "flag")
      BY <1>0, <3>0, <3>2 DEF Storage!Goes, Storage!Work
    <3> QED BY <3>a, <3>1, <3>2
  <2>8. CASE Storage!RaiseFlag(c)
    BY <1>0, <2>8 DEF Storage!RaiseFlag, Storage!Goes, Storage!Work, Storage!world
  <2>9. CASE Storage!NativeCall(c)
    <3>0. /\ worker[c].pc = "native" /\ UNCHANGED request
      BY <2>9 DEF Storage!NativeCall, Storage!world
    <3>a. \/ /\ Storage!OnMount(c)
             /\ Storage!NativeMount(c)
             /\ Storage!Goes(c, "observe")
          \/ /\ Storage!OnImage(c)
             /\ Storage!NativeImage(c)
             /\ Storage!Goes(c, "observe")
          \/ /\ Storage!Does(c) = "job"
             /\ Storage!NativeJob(c)
             /\ Storage!Goes(c, "launched")
      BY <2>9, <3>0, <1>0 DEF Storage!NativeCall
    <3>1. CASE /\ Storage!OnMount(c)
               /\ Storage!NativeMount(c)
               /\ Storage!Goes(c, "observe")
      BY <1>0, <3>0, <3>1 DEF Storage!Goes, Storage!Work, Storage!NativeMount, Storage!Changed
    <3>2. CASE /\ Storage!OnImage(c)
               /\ Storage!NativeImage(c)
               /\ Storage!Goes(c, "observe")
      BY <1>0, <3>0, <3>2 DEF Storage!Goes, Storage!Work, Storage!NativeImage, Storage!Changed
    <3>3. CASE /\ Storage!Does(c) = "job"
               /\ Storage!NativeJob(c)
               /\ Storage!Goes(c, "launched")
      BY <1>0, <3>0, <3>3 DEF Storage!Goes, Storage!Work, Storage!NativeJob, Storage!Changed
    <3> QED BY <3>a, <3>1, <3>2, <3>3
  <2>10. CASE Storage!NativeFails(c)
    <3>0. /\ worker[c].pc = "native" /\ UNCHANGED <<request, mount, image, job, a_past>>
      BY <2>10 DEF Storage!NativeFails, Storage!world
    <3>a. \/ /\ Storage!End(c, "error")
          \/ /\ Storage!OnImage(c)
             /\ Storage!Goes(c, "observe")
      BY <2>10, <3>0 DEF Storage!NativeFails
    <3>1. CASE /\ Storage!End(c, "error")
      BY <1>0, <3>0, <3>1 DEF Storage!End
    <3>2. CASE /\ Storage!OnImage(c)
               /\ Storage!Goes(c, "observe")
      BY <1>0, <3>0, <3>2 DEF Storage!Goes, Storage!Work
    <3> QED BY <3>a, <3>1, <3>2
  <2>11. CASE Storage!Observe(c)
    BY <1>0, <2>11 DEF Storage!Observe, Storage!End, Storage!world
  <2>12. CASE Storage!JobLaunched(c)
    <3>0. /\ worker[c].pc = "launched" /\ UNCHANGED <<request, mount, image, a_past>>
      BY <2>12 DEF Storage!JobLaunched, Storage!world
    <3>a. \/ /\ Storage!End(c, "ok")
             /\ UNCHANGED job
          \/ /\ Storage!End(c, "error")
             /\ job' = [job EXCEPT ![c] = "canceled"]
          \/ /\ Storage!End(c, "uncanceled")
             /\ UNCHANGED job
      BY <2>12, <3>0 DEF Storage!JobLaunched
    <3>1. CASE /\ Storage!End(c, "ok")
               /\ UNCHANGED job
      BY <1>0, <3>0, <3>1 DEF Storage!End
    <3>2. CASE /\ Storage!End(c, "error")
               /\ job' = [job EXCEPT ![c] = "canceled"]
      BY <1>0, <3>0, <3>2 DEF Storage!End
    <3>3. CASE /\ Storage!End(c, "uncanceled")
               /\ UNCHANGED job
      BY <1>0, <3>0, <3>3 DEF Storage!End
    <3> QED BY <3>a, <3>1, <3>2, <3>3
  <2> QED BY <1>3, <2>1, <2>2, <2>3, <2>4, <2>5, <2>6, <2>7, <2>8, <2>9, <2>10, <2>11, <2>12 DEF Storage!Working
<1>4. CASE Storage!Outside
  <2>1. OutsideEffect
    BY <1>0, <1>4, OutsideIs
  <2>2. CASE \E m \in Mounts, v \in Volumes \cup {Nobody} :
           /\ mount' = [mount EXCEPT ![m] = v]
           /\ a_past' = [a_past EXCEPT !.outside = a_past.outside + 1,
                                       !.checked = {x \in a_past.checked : Task[x].mount # m}]
           /\ UNCHANGED image
    BY <1>0, <2>1, <2>2 DEF OutsideEffect
  <2>3. CASE /\ image' = [image EXCEPT !.attached = ~image.attached]
             /\ a_past' = [a_past EXCEPT !.outside = a_past.outside + 1] /\ UNCHANGED mount
    BY <1>0, <2>1, <2>3 DEF OutsideEffect
  <2>4. CASE /\ image' = [image EXCEPT !.id = image.id + 1]
             /\ \A x \in Calls : ~worker[x].pinned
             /\ a_past' = [a_past EXCEPT !.outside = a_past.outside + 1] /\ UNCHANGED mount
    BY <1>0, <2>1, <2>4 DEF OutsideEffect
  <2> QED BY <2>1, <2>2, <2>3, <2>4 DEF OutsideEffect
<1> QED BY <1>1, <1>2, <1>3, <1>4 DEF AdminSteps, Storage!Next

\* What was checked stays so until it is acted on.
LEMMA CheckStep ==
    ASSUME AdminInv, AdminSteps
    PROVE  (\A x \in Calls : CheckOf(x))'
<1> USE ChoicesAre DEF AdminTyped, PlanOf, PermitOf, CheckOf, Storage!Owned, Storage!OnMount,
  Storage!OnImage, Storage!Script, Storage!Mutating, Storage!Does
<1>0. AdminTyped /\ (\A x \in Calls : PlanOf(x)) /\ (\A x \in Calls : PermitOf(x)) /\ (\A x \in Calls : CheckOf(x))
  BY DEF AdminInv
<1>1. CASE UNCHANGED Storage!vars
  BY <1>0, <1>1 DEF Storage!vars
<1>2. ASSUME NEW c \in Calls, Storage!Asking(c)
      PROVE  (\A x \in Calls : CheckOf(x))'
  <2>1. CASE Storage!Enter(c)
    BY <1>0, <2>1 DEF Storage!Enter, Storage!Ask, Storage!world
  <2>2. CASE Storage!TakeMutation(c)
    BY <1>0, <2>2 DEF Storage!TakeMutation, Storage!Ask, Storage!world
  <2>3. CASE Storage!TakeSlot(c)
    BY <1>0, <2>3 DEF Storage!TakeSlot, Storage!Ask, Storage!Work, Storage!world
  <2>4. CASE Storage!Answer(c)
    <3>0. /\ request[c].pc = "working" /\ worker[c].pc = "ended"
          /\ UNCHANGED <<worker, slots, mount, image, job, a_past>>
      BY <2>4 DEF Storage!Answer, Storage!world
    <3>a. \/ /\ Storage!Script(c)
             /\ Storage!Ask(c, "begin")
             /\ UNCHANGED mutation
          \/ /\ Storage!Told(c, worker[c].result)
             /\ ~Storage!Script(c)
             /\ UNCHANGED mutation
          \/ /\ Storage!Told(c, worker[c].result)
             /\ Storage!Script(c)
             /\ mutation' = Nobody
      BY <2>4, <3>0 DEF Storage!Answer
    <3>1. CASE /\ Storage!Script(c)
               /\ Storage!Ask(c, "begin")
               /\ UNCHANGED mutation
      BY <1>0, <3>0, <3>1 DEF Storage!Ask
    <3>2. CASE /\ Storage!Told(c, worker[c].result)
               /\ ~Storage!Script(c)
               /\ UNCHANGED mutation
      BY <1>0, <3>0, <3>2 DEF Storage!Told
    <3>3. CASE /\ Storage!Told(c, worker[c].result)
               /\ Storage!Script(c)
               /\ mutation' = Nobody
      BY <1>0, <3>0, <3>3 DEF Storage!Told
    <3> QED BY <3>a, <3>1, <3>2, <3>3
  <2>5. CASE Storage!RunScript(c)
    <3>0. /\ request[c].pc = "begin" /\ UNCHANGED <<worker, slots, mount, image, job>>
      BY <2>5 DEF Storage!RunScript, Storage!world
    <3>a. \/ /\ Storage!Told(c, "error")
             /\ mutation' = Nobody
             /\ UNCHANGED a_past
          \/ /\ request' = [request EXCEPT ![c].pc = "script", ![c].started = TRUE]
             /\ a_past' = [a_past EXCEPT !.changed = a_past.changed \cup {c}]
             /\ UNCHANGED mutation
      BY <2>5, <3>0 DEF Storage!RunScript
    <3>1. CASE /\ Storage!Told(c, "error")
               /\ mutation' = Nobody
               /\ UNCHANGED a_past
      BY <1>0, <3>0, <3>1 DEF Storage!Told
    <3>2. CASE /\ request' = [request EXCEPT ![c].pc = "script", ![c].started = TRUE]
               /\ a_past' = [a_past EXCEPT !.changed = a_past.changed \cup {c}]
               /\ UNCHANGED mutation
      BY <1>0, <3>0, <3>2 DEF Storage!Told
    <3> QED BY <3>a, <3>1, <3>2
  <2>6. CASE Storage!ScriptAnswers(c)
    BY <1>0, <2>6 DEF Storage!ScriptAnswers, Storage!Told, Storage!world
  <2>7. CASE Storage!Expire(c)
    BY <1>0, <2>7 DEF Storage!Expire, Storage!world
  <2>8. CASE Storage!TimeOut(c)
    BY <1>0, <2>8 DEF Storage!TimeOut, Storage!Abandon, Storage!Freed, Storage!FreedByFuture,
      Storage!InFuture, Storage!world
  <2>9. CASE Storage!CallerCancels(c)
    BY <1>0, <2>9 DEF Storage!CallerCancels, Storage!Abandon, Storage!Freed,
      Storage!FreedByFuture, Storage!InFuture, Storage!world
  <2>10. CASE Storage!CallerLeaves(c)
    BY <1>0, <2>10 DEF Storage!CallerLeaves, Storage!Abandon, Storage!Freed,
      Storage!FreedByFuture, Storage!InFuture, Storage!world
  <2>11. CASE Storage!GiveUp(c)
    BY <1>0, <2>11 DEF Storage!GiveUp, Storage!Told, Storage!world
  <2> QED BY <1>2, <2>1, <2>2, <2>3, <2>4, <2>5, <2>6, <2>7, <2>8, <2>9, <2>10, <2>11 DEF Storage!Asking
<1>3. ASSUME NEW c \in Calls, Storage!Working(c)
      PROVE  (\A x \in Calls : CheckOf(x))'
  <2>1. CASE Storage!WorkerStarts(c)
    <3>1. /\ StartOf(c) /\ worker[c].pc = "queued"
          /\ UNCHANGED <<request, mount, image, job, a_past>>
      BY <2>1, WorkerStartsIs
    <3>2. ASSUME NEW result \in {"error", "ok"}, Storage!End(c, result)
          PROVE  (\A x \in Calls : CheckOf(x))'
      BY <1>0, <3>1, <3>2 DEF Storage!End
    <3>3. ASSUME NEW p \in {"observe", "begin", "prepare", "pin"}, Storage!Goes(c, p),
                 p = "observe" => Storage!Does(c) = "read",
                 p = "begin" => Storage!Does(c) = "job",
                 p = "prepare" => Storage!OnMount(c), p = "pin" => Storage!OnImage(c)
          PROVE  (\A x \in Calls : CheckOf(x))'
      BY <1>0, <3>1, <3>3 DEF Storage!Goes, Storage!Work
    <3>4. \/ \E result \in {"error", "ok"} : Storage!End(c, result)
          \/ Storage!Does(c) = "read" /\ Storage!Goes(c, "observe")
          \/ Storage!Does(c) = "job" /\ Storage!Goes(c, "begin")
          \/ Storage!OnMount(c) /\ Storage!Goes(c, "prepare")
          \/ Storage!OnImage(c) /\ Storage!Goes(c, "pin")
      BY <3>1 DEF StartOf
    <3>5. CASE Storage!Does(c) = "read" /\ Storage!Goes(c, "observe")
      BY <3>3, <3>5
    <3>6. CASE Storage!Does(c) = "job" /\ Storage!Goes(c, "begin")
      BY <3>3, <3>6
    <3>7. CASE Storage!OnMount(c) /\ Storage!Goes(c, "prepare")
      BY <3>3, <3>7
    <3>8. CASE Storage!OnImage(c) /\ Storage!Goes(c, "pin")
      BY <3>3, <3>8
    <3> QED BY <3>2, <3>4, <3>5, <3>6, <3>7, <3>8
  <2>2. CASE Storage!QueryFails(c)
    BY <1>0, <2>2 DEF Storage!QueryFails, Storage!Fails, Storage!End, Storage!world
  <2>3. CASE Storage!PrepareMount(c)
    BY <1>0, <2>3 DEF Storage!PrepareMount, Storage!Owned, Storage!Goes, Storage!Work,
      Storage!world
  <2>4. CASE Storage!RecheckMount(c)
    BY <1>0, <2>4 DEF Storage!RecheckMount, Storage!Owned, Storage!Goes, Storage!Work,
      Storage!world
  <2>5. CASE Storage!PinImage(c)
    BY <1>0, <2>5 DEF Storage!PinImage, Storage!world
  <2>6. CASE Storage!InspectImage(c)
    BY <1>0, <2>6 DEF Storage!InspectImage, Storage!Goes, Storage!Work, Storage!world
  <2>7. CASE Storage!Begin(c)
    <3>0. /\ worker[c].pc = "begin" /\ UNCHANGED <<request, mount, image, job, a_past>>
      BY <2>7 DEF Storage!Begin, Storage!world
    <3>a. \/ /\ Storage!End(c, "error")
          \/ /\ Storage!Goes(c, "flag")
      BY <2>7, <3>0 DEF Storage!Begin
    <3>1. CASE /\ Storage!End(c, "error")
      BY <1>0, <3>0, <3>1 DEF Storage!End
    <3>2. CASE /\ Storage!Goes(c, "flag")
      BY <1>0, <3>0, <3>2 DEF Storage!Goes, Storage!Work
    <3> QED BY <3>a, <3>1, <3>2
  <2>8. CASE Storage!RaiseFlag(c)
    BY <1>0, <2>8 DEF Storage!RaiseFlag, Storage!Goes, Storage!Work, Storage!world
  <2>9. CASE Storage!NativeCall(c)
    <3>0. /\ worker[c].pc = "native" /\ UNCHANGED request
      BY <2>9 DEF Storage!NativeCall, Storage!world
    <3>a. \/ /\ Storage!OnMount(c)
             /\ Storage!NativeMount(c)
             /\ Storage!Goes(c, "observe")
          \/ /\ Storage!OnImage(c)
             /\ Storage!NativeImage(c)
             /\ Storage!Goes(c, "observe")
          \/ /\ Storage!Does(c) = "job"
             /\ Storage!NativeJob(c)
             /\ Storage!Goes(c, "launched")
      BY <2>9, <3>0, <1>0 DEF Storage!NativeCall
    <3>1. CASE /\ Storage!OnMount(c)
               /\ Storage!NativeMount(c)
               /\ Storage!Goes(c, "observe")
      BY <1>0, <3>0, <3>1 DEF Storage!Goes, Storage!Work, Storage!NativeMount, Storage!Changed
    <3>2. CASE /\ Storage!OnImage(c)
               /\ Storage!NativeImage(c)
               /\ Storage!Goes(c, "observe")
      BY <1>0, <3>0, <3>2 DEF Storage!Goes, Storage!Work, Storage!NativeImage, Storage!Changed
    <3>3. CASE /\ Storage!Does(c) = "job"
               /\ Storage!NativeJob(c)
               /\ Storage!Goes(c, "launched")
      BY <1>0, <3>0, <3>3 DEF Storage!Goes, Storage!Work, Storage!NativeJob, Storage!Changed
    <3> QED BY <3>a, <3>1, <3>2, <3>3
  <2>10. CASE Storage!NativeFails(c)
    <3>0. /\ worker[c].pc = "native" /\ UNCHANGED <<request, mount, image, job, a_past>>
      BY <2>10 DEF Storage!NativeFails, Storage!world
    <3>a. \/ /\ Storage!End(c, "error")
          \/ /\ Storage!OnImage(c)
             /\ Storage!Goes(c, "observe")
      BY <2>10, <3>0 DEF Storage!NativeFails
    <3>1. CASE /\ Storage!End(c, "error")
      BY <1>0, <3>0, <3>1 DEF Storage!End
    <3>2. CASE /\ Storage!OnImage(c)
               /\ Storage!Goes(c, "observe")
      BY <1>0, <3>0, <3>2 DEF Storage!Goes, Storage!Work
    <3> QED BY <3>a, <3>1, <3>2
  <2>11. CASE Storage!Observe(c)
    BY <1>0, <2>11 DEF Storage!Observe, Storage!End, Storage!world
  <2>12. CASE Storage!JobLaunched(c)
    <3>0. /\ worker[c].pc = "launched" /\ UNCHANGED <<request, mount, image, a_past>>
      BY <2>12 DEF Storage!JobLaunched, Storage!world
    <3>a. \/ /\ Storage!End(c, "ok")
             /\ UNCHANGED job
          \/ /\ Storage!End(c, "error")
             /\ job' = [job EXCEPT ![c] = "canceled"]
          \/ /\ Storage!End(c, "uncanceled")
             /\ UNCHANGED job
      BY <2>12, <3>0 DEF Storage!JobLaunched
    <3>1. CASE /\ Storage!End(c, "ok")
               /\ UNCHANGED job
      BY <1>0, <3>0, <3>1 DEF Storage!End
    <3>2. CASE /\ Storage!End(c, "error")
               /\ job' = [job EXCEPT ![c] = "canceled"]
      BY <1>0, <3>0, <3>2 DEF Storage!End
    <3>3. CASE /\ Storage!End(c, "uncanceled")
               /\ UNCHANGED job
      BY <1>0, <3>0, <3>3 DEF Storage!End
    <3> QED BY <3>a, <3>1, <3>2, <3>3
  <2> QED BY <1>3, <2>1, <2>2, <2>3, <2>4, <2>5, <2>6, <2>7, <2>8, <2>9, <2>10, <2>11, <2>12 DEF Storage!Working
<1>4. CASE Storage!Outside
  <2>1. OutsideEffect
    BY <1>0, <1>4, OutsideIs
  <2>2. CASE \E m \in Mounts, v \in Volumes \cup {Nobody} :
           /\ mount' = [mount EXCEPT ![m] = v]
           /\ a_past' = [a_past EXCEPT !.outside = a_past.outside + 1,
                                       !.checked = {x \in a_past.checked : Task[x].mount # m}]
           /\ UNCHANGED image
    <3>1. PICK m \in Mounts, v \in Volumes \cup {Nobody} :
           /\ mount' = [mount EXCEPT ![m] = v]
           /\ a_past' = [a_past EXCEPT !.outside = a_past.outside + 1,
                                       !.checked = {x \in a_past.checked : Task[x].mount # m}]
      BY <2>2
    <3>2. /\ a_past'.checked = {x \in a_past.checked : Task[x].mount # m}
          /\ UNCHANGED <<image, worker>>
      BY <1>0, <2>1, <2>2, <3>1 DEF OutsideEffect
    <3>3. ASSUME NEW x \in Calls PROVE CheckOf(x)'
      <4>1. x \in a_past'.checked => x \in a_past.checked /\ Task[x].mount # m
        BY <3>2
      <4>2. x \in a_past'.checked => mount'[Task[x].mount] = mount[Task[x].mount]
        BY <1>0, <3>1, <4>1
      <4> QED BY <1>0, <3>2, <4>1, <4>2
    <3> QED BY <3>3
  <2>3. CASE /\ image' = [image EXCEPT !.attached = ~image.attached]
             /\ a_past' = [a_past EXCEPT !.outside = a_past.outside + 1] /\ UNCHANGED mount
    BY <1>0, <2>1, <2>3 DEF OutsideEffect
  <2>4. CASE /\ image' = [image EXCEPT !.id = image.id + 1]
             /\ \A x \in Calls : ~worker[x].pinned
             /\ a_past' = [a_past EXCEPT !.outside = a_past.outside + 1] /\ UNCHANGED mount
    BY <1>0, <2>1, <2>4 DEF OutsideEffect
  <2> QED BY <2>1, <2>2, <2>3, <2>4 DEF OutsideEffect
<1> QED BY <1>1, <1>2, <1>3, <1>4 DEF AdminSteps, Storage!Next

\* What was changed was announced before.
LEMMA ReportStep ==
    ASSUME AdminInv, AdminSteps
    PROVE  (\A x \in Calls : ReportOf(x))'
<1> USE ChoicesAre DEF AdminTyped, PlanOf, ReportOf, Storage!OnMount, Storage!OnImage,
  Storage!Script, Storage!Mutating, Storage!Does
<1>0. AdminTyped /\ (\A x \in Calls : PlanOf(x)) /\ (\A x \in Calls : ReportOf(x))
  BY DEF AdminInv
<1>1. CASE UNCHANGED Storage!vars
  BY <1>0, <1>1 DEF Storage!vars
<1>2. ASSUME NEW c \in Calls, Storage!Asking(c)
      PROVE  (\A x \in Calls : ReportOf(x))'
  <2>1. CASE Storage!Enter(c)
    BY <1>0, <2>1 DEF Storage!Enter, Storage!Ask, Storage!world
  <2>2. CASE Storage!TakeMutation(c)
    BY <1>0, <2>2 DEF Storage!TakeMutation, Storage!Ask, Storage!world
  <2>3. CASE Storage!TakeSlot(c)
    BY <1>0, <2>3 DEF Storage!TakeSlot, Storage!Ask, Storage!Work, Storage!world
  <2>4. CASE Storage!Answer(c)
    <3>0. /\ request[c].pc = "working" /\ worker[c].pc = "ended"
          /\ UNCHANGED <<worker, slots, mount, image, job, a_past>>
      BY <2>4 DEF Storage!Answer, Storage!world
    <3>a. \/ /\ Storage!Script(c)
             /\ Storage!Ask(c, "begin")
             /\ UNCHANGED mutation
          \/ /\ Storage!Told(c, worker[c].result)
             /\ ~Storage!Script(c)
             /\ UNCHANGED mutation
          \/ /\ Storage!Told(c, worker[c].result)
             /\ Storage!Script(c)
             /\ mutation' = Nobody
      BY <2>4, <3>0 DEF Storage!Answer
    <3>1. CASE /\ Storage!Script(c)
               /\ Storage!Ask(c, "begin")
               /\ UNCHANGED mutation
      BY <1>0, <3>0, <3>1 DEF Storage!Ask
    <3>2. CASE /\ Storage!Told(c, worker[c].result)
               /\ ~Storage!Script(c)
               /\ UNCHANGED mutation
      BY <1>0, <3>0, <3>2 DEF Storage!Told
    <3>3. CASE /\ Storage!Told(c, worker[c].result)
               /\ Storage!Script(c)
               /\ mutation' = Nobody
      BY <1>0, <3>0, <3>3 DEF Storage!Told
    <3> QED BY <3>a, <3>1, <3>2, <3>3
  <2>5. CASE Storage!RunScript(c)
    <3>0. /\ request[c].pc = "begin" /\ UNCHANGED <<worker, slots, mount, image, job>>
      BY <2>5 DEF Storage!RunScript, Storage!world
    <3>a. \/ /\ Storage!Told(c, "error")
             /\ mutation' = Nobody
             /\ UNCHANGED a_past
          \/ /\ request' = [request EXCEPT ![c].pc = "script", ![c].started = TRUE]
             /\ a_past' = [a_past EXCEPT !.changed = a_past.changed \cup {c}]
             /\ UNCHANGED mutation
      BY <2>5, <3>0 DEF Storage!RunScript
    <3>1. CASE /\ Storage!Told(c, "error")
               /\ mutation' = Nobody
               /\ UNCHANGED a_past
      BY <1>0, <3>0, <3>1 DEF Storage!Told
    <3>2. CASE /\ request' = [request EXCEPT ![c].pc = "script", ![c].started = TRUE]
               /\ a_past' = [a_past EXCEPT !.changed = a_past.changed \cup {c}]
               /\ UNCHANGED mutation
      BY <1>0, <3>0, <3>2 DEF Storage!Told
    <3> QED BY <3>a, <3>1, <3>2
  <2>6. CASE Storage!ScriptAnswers(c)
    BY <1>0, <2>6 DEF Storage!ScriptAnswers, Storage!Told, Storage!world
  <2>7. CASE Storage!Expire(c)
    BY <1>0, <2>7 DEF Storage!Expire, Storage!world
  <2>8. CASE Storage!TimeOut(c)
    BY <1>0, <2>8 DEF Storage!TimeOut, Storage!Abandon, Storage!Freed, Storage!FreedByFuture,
      Storage!InFuture, Storage!world
  <2>9. CASE Storage!CallerCancels(c)
    BY <1>0, <2>9 DEF Storage!CallerCancels, Storage!Abandon, Storage!Freed,
      Storage!FreedByFuture, Storage!InFuture, Storage!world
  <2>10. CASE Storage!CallerLeaves(c)
    BY <1>0, <2>10 DEF Storage!CallerLeaves, Storage!Abandon, Storage!Freed,
      Storage!FreedByFuture, Storage!InFuture, Storage!world
  <2>11. CASE Storage!GiveUp(c)
    BY <1>0, <2>11 DEF Storage!GiveUp, Storage!Told, Storage!world
  <2> QED BY <1>2, <2>1, <2>2, <2>3, <2>4, <2>5, <2>6, <2>7, <2>8, <2>9, <2>10, <2>11 DEF Storage!Asking
<1>3. ASSUME NEW c \in Calls, Storage!Working(c)
      PROVE  (\A x \in Calls : ReportOf(x))'
  <2>1. CASE Storage!WorkerStarts(c)
    <3>1. /\ StartOf(c) /\ worker[c].pc = "queued"
          /\ UNCHANGED <<request, mount, image, job, a_past>>
      BY <2>1, WorkerStartsIs
    <3>2. ASSUME NEW result \in {"error", "ok"}, Storage!End(c, result)
          PROVE  (\A x \in Calls : ReportOf(x))'
      BY <1>0, <3>1, <3>2 DEF Storage!End
    <3>3. ASSUME NEW p \in {"observe", "begin", "prepare", "pin"}, Storage!Goes(c, p),
                 p = "observe" => Storage!Does(c) = "read",
                 p = "begin" => Storage!Does(c) = "job",
                 p = "prepare" => Storage!OnMount(c), p = "pin" => Storage!OnImage(c)
          PROVE  (\A x \in Calls : ReportOf(x))'
      BY <1>0, <3>1, <3>3 DEF Storage!Goes, Storage!Work
    <3>4. \/ \E result \in {"error", "ok"} : Storage!End(c, result)
          \/ Storage!Does(c) = "read" /\ Storage!Goes(c, "observe")
          \/ Storage!Does(c) = "job" /\ Storage!Goes(c, "begin")
          \/ Storage!OnMount(c) /\ Storage!Goes(c, "prepare")
          \/ Storage!OnImage(c) /\ Storage!Goes(c, "pin")
      BY <3>1 DEF StartOf
    <3>5. CASE Storage!Does(c) = "read" /\ Storage!Goes(c, "observe")
      BY <3>3, <3>5
    <3>6. CASE Storage!Does(c) = "job" /\ Storage!Goes(c, "begin")
      BY <3>3, <3>6
    <3>7. CASE Storage!OnMount(c) /\ Storage!Goes(c, "prepare")
      BY <3>3, <3>7
    <3>8. CASE Storage!OnImage(c) /\ Storage!Goes(c, "pin")
      BY <3>3, <3>8
    <3> QED BY <3>2, <3>4, <3>5, <3>6, <3>7, <3>8
  <2>2. CASE Storage!QueryFails(c)
    BY <1>0, <2>2 DEF Storage!QueryFails, Storage!Fails, Storage!End, Storage!world
  <2>3. CASE Storage!PrepareMount(c)
    BY <1>0, <2>3 DEF Storage!PrepareMount, Storage!Owned, Storage!Goes, Storage!Work,
      Storage!world
  <2>4. CASE Storage!RecheckMount(c)
    BY <1>0, <2>4 DEF Storage!RecheckMount, Storage!Owned, Storage!Goes, Storage!Work,
      Storage!world
  <2>5. CASE Storage!PinImage(c)
    BY <1>0, <2>5 DEF Storage!PinImage, Storage!world
  <2>6. CASE Storage!InspectImage(c)
    BY <1>0, <2>6 DEF Storage!InspectImage, Storage!Goes, Storage!Work, Storage!world
  <2>7. CASE Storage!Begin(c)
    <3>0. /\ worker[c].pc = "begin" /\ UNCHANGED <<request, mount, image, job, a_past>>
      BY <2>7 DEF Storage!Begin, Storage!world
    <3>a. \/ /\ Storage!End(c, "error")
          \/ /\ Storage!Goes(c, "flag")
      BY <2>7, <3>0 DEF Storage!Begin
    <3>1. CASE /\ Storage!End(c, "error")
      BY <1>0, <3>0, <3>1 DEF Storage!End
    <3>2. CASE /\ Storage!Goes(c, "flag")
      BY <1>0, <3>0, <3>2 DEF Storage!Goes, Storage!Work
    <3> QED BY <3>a, <3>1, <3>2
  <2>8. CASE Storage!RaiseFlag(c)
    BY <1>0, <2>8 DEF Storage!RaiseFlag, Storage!Goes, Storage!Work, Storage!world
  <2>9. CASE Storage!NativeCall(c)
    <3>0. /\ worker[c].pc = "native" /\ UNCHANGED request
      BY <2>9 DEF Storage!NativeCall, Storage!world
    <3>a. \/ /\ Storage!OnMount(c)
             /\ Storage!NativeMount(c)
             /\ Storage!Goes(c, "observe")
          \/ /\ Storage!OnImage(c)
             /\ Storage!NativeImage(c)
             /\ Storage!Goes(c, "observe")
          \/ /\ Storage!Does(c) = "job"
             /\ Storage!NativeJob(c)
             /\ Storage!Goes(c, "launched")
      BY <2>9, <3>0, <1>0 DEF Storage!NativeCall
    <3>1. CASE /\ Storage!OnMount(c)
               /\ Storage!NativeMount(c)
               /\ Storage!Goes(c, "observe")
      BY <1>0, <3>0, <3>1 DEF Storage!Goes, Storage!Work, Storage!NativeMount, Storage!Changed
    <3>2. CASE /\ Storage!OnImage(c)
               /\ Storage!NativeImage(c)
               /\ Storage!Goes(c, "observe")
      BY <1>0, <3>0, <3>2 DEF Storage!Goes, Storage!Work, Storage!NativeImage, Storage!Changed
    <3>3. CASE /\ Storage!Does(c) = "job"
               /\ Storage!NativeJob(c)
               /\ Storage!Goes(c, "launched")
      BY <1>0, <3>0, <3>3 DEF Storage!Goes, Storage!Work, Storage!NativeJob, Storage!Changed
    <3> QED BY <3>a, <3>1, <3>2, <3>3
  <2>10. CASE Storage!NativeFails(c)
    <3>0. /\ worker[c].pc = "native" /\ UNCHANGED <<request, mount, image, job, a_past>>
      BY <2>10 DEF Storage!NativeFails, Storage!world
    <3>a. \/ /\ Storage!End(c, "error")
          \/ /\ Storage!OnImage(c)
             /\ Storage!Goes(c, "observe")
      BY <2>10, <3>0 DEF Storage!NativeFails
    <3>1. CASE /\ Storage!End(c, "error")
      BY <1>0, <3>0, <3>1 DEF Storage!End
    <3>2. CASE /\ Storage!OnImage(c)
               /\ Storage!Goes(c, "observe")
      BY <1>0, <3>0, <3>2 DEF Storage!Goes, Storage!Work
    <3> QED BY <3>a, <3>1, <3>2
  <2>11. CASE Storage!Observe(c)
    BY <1>0, <2>11 DEF Storage!Observe, Storage!End, Storage!world
  <2>12. CASE Storage!JobLaunched(c)
    <3>0. /\ worker[c].pc = "launched" /\ UNCHANGED <<request, mount, image, a_past>>
      BY <2>12 DEF Storage!JobLaunched, Storage!world
    <3>a. \/ /\ Storage!End(c, "ok")
             /\ UNCHANGED job
          \/ /\ Storage!End(c, "error")
             /\ job' = [job EXCEPT ![c] = "canceled"]
          \/ /\ Storage!End(c, "uncanceled")
             /\ UNCHANGED job
      BY <2>12, <3>0 DEF Storage!JobLaunched
    <3>1. CASE /\ Storage!End(c, "ok")
               /\ UNCHANGED job
      BY <1>0, <3>0, <3>1 DEF Storage!End
    <3>2. CASE /\ Storage!End(c, "error")
               /\ job' = [job EXCEPT ![c] = "canceled"]
      BY <1>0, <3>0, <3>2 DEF Storage!End
    <3>3. CASE /\ Storage!End(c, "uncanceled")
               /\ UNCHANGED job
      BY <1>0, <3>0, <3>3 DEF Storage!End
    <3> QED BY <3>a, <3>1, <3>2, <3>3
  <2> QED BY <1>3, <2>1, <2>2, <2>3, <2>4, <2>5, <2>6, <2>7, <2>8, <2>9, <2>10, <2>11, <2>12 DEF Storage!Working
<1>4. CASE Storage!Outside
  <2>1. OutsideEffect
    BY <1>0, <1>4, OutsideIs
  <2>2. CASE \E m \in Mounts, v \in Volumes \cup {Nobody} :
           /\ mount' = [mount EXCEPT ![m] = v]
           /\ a_past' = [a_past EXCEPT !.outside = a_past.outside + 1,
                                       !.checked = {x \in a_past.checked : Task[x].mount # m}]
           /\ UNCHANGED image
    BY <1>0, <2>1, <2>2 DEF OutsideEffect
  <2>3. CASE /\ image' = [image EXCEPT !.attached = ~image.attached]
             /\ a_past' = [a_past EXCEPT !.outside = a_past.outside + 1] /\ UNCHANGED mount
    BY <1>0, <2>1, <2>3 DEF OutsideEffect
  <2>4. CASE /\ image' = [image EXCEPT !.id = image.id + 1]
             /\ \A x \in Calls : ~worker[x].pinned
             /\ a_past' = [a_past EXCEPT !.outside = a_past.outside + 1] /\ UNCHANGED mount
    BY <1>0, <2>1, <2>4 DEF OutsideEffect
  <2> QED BY <2>1, <2>2, <2>3, <2>4 DEF OutsideEffect
<1> QED BY <1>1, <1>2, <1>3, <1>4 DEF AdminSteps, Storage!Next

\* Nothing was changed that was not checked.
LEMMA WrongStep ==
    ASSUME AdminInv, AdminSteps
    PROVE  (a_past.wrong = {})'
<1> USE ChoicesAre DEF AdminTyped, PlanOf, CheckOf, Storage!Owned, Storage!OnMount,
  Storage!OnImage, Storage!Script, Storage!Mutating, Storage!Does
<1>0. AdminTyped /\ (\A x \in Calls : PlanOf(x)) /\ (\A x \in Calls : PermitOf(x)) /\ (\A x \in Calls : CheckOf(x)) /\ a_past.wrong = {}
  BY DEF AdminInv
<1>1. CASE UNCHANGED Storage!vars
  BY <1>0, <1>1 DEF Storage!vars
<1>2. ASSUME NEW c \in Calls, Storage!Asking(c)
      PROVE  (a_past.wrong = {})'
  <2>1. CASE Storage!Enter(c)
    BY <1>0, <2>1 DEF Storage!Enter, Storage!Ask, Storage!world
  <2>2. CASE Storage!TakeMutation(c)
    BY <1>0, <2>2 DEF Storage!TakeMutation, Storage!Ask, Storage!world
  <2>3. CASE Storage!TakeSlot(c)
    BY <1>0, <2>3 DEF Storage!TakeSlot, Storage!Ask, Storage!Work, Storage!world
  <2>4. CASE Storage!Answer(c)
    <3>0. /\ request[c].pc = "working" /\ worker[c].pc = "ended"
          /\ UNCHANGED <<worker, slots, mount, image, job, a_past>>
      BY <2>4 DEF Storage!Answer, Storage!world
    <3>a. \/ /\ Storage!Script(c)
             /\ Storage!Ask(c, "begin")
             /\ UNCHANGED mutation
          \/ /\ Storage!Told(c, worker[c].result)
             /\ ~Storage!Script(c)
             /\ UNCHANGED mutation
          \/ /\ Storage!Told(c, worker[c].result)
             /\ Storage!Script(c)
             /\ mutation' = Nobody
      BY <2>4, <3>0 DEF Storage!Answer
    <3>1. CASE /\ Storage!Script(c)
               /\ Storage!Ask(c, "begin")
               /\ UNCHANGED mutation
      BY <1>0, <3>0, <3>1 DEF Storage!Ask
    <3>2. CASE /\ Storage!Told(c, worker[c].result)
               /\ ~Storage!Script(c)
               /\ UNCHANGED mutation
      BY <1>0, <3>0, <3>2 DEF Storage!Told
    <3>3. CASE /\ Storage!Told(c, worker[c].result)
               /\ Storage!Script(c)
               /\ mutation' = Nobody
      BY <1>0, <3>0, <3>3 DEF Storage!Told
    <3> QED BY <3>a, <3>1, <3>2, <3>3
  <2>5. CASE Storage!RunScript(c)
    <3>0. /\ request[c].pc = "begin" /\ UNCHANGED <<worker, slots, mount, image, job>>
      BY <2>5 DEF Storage!RunScript, Storage!world
    <3>a. \/ /\ Storage!Told(c, "error")
             /\ mutation' = Nobody
             /\ UNCHANGED a_past
          \/ /\ request' = [request EXCEPT ![c].pc = "script", ![c].started = TRUE]
             /\ a_past' = [a_past EXCEPT !.changed = a_past.changed \cup {c}]
             /\ UNCHANGED mutation
      BY <2>5, <3>0 DEF Storage!RunScript
    <3>1. CASE /\ Storage!Told(c, "error")
               /\ mutation' = Nobody
               /\ UNCHANGED a_past
      BY <1>0, <3>0, <3>1 DEF Storage!Told
    <3>2. CASE /\ request' = [request EXCEPT ![c].pc = "script", ![c].started = TRUE]
               /\ a_past' = [a_past EXCEPT !.changed = a_past.changed \cup {c}]
               /\ UNCHANGED mutation
      BY <1>0, <3>0, <3>2 DEF Storage!Told
    <3> QED BY <3>a, <3>1, <3>2
  <2>6. CASE Storage!ScriptAnswers(c)
    BY <1>0, <2>6 DEF Storage!ScriptAnswers, Storage!Told, Storage!world
  <2>7. CASE Storage!Expire(c)
    BY <1>0, <2>7 DEF Storage!Expire, Storage!world
  <2>8. CASE Storage!TimeOut(c)
    BY <1>0, <2>8 DEF Storage!TimeOut, Storage!Abandon, Storage!Freed, Storage!FreedByFuture,
      Storage!InFuture, Storage!world
  <2>9. CASE Storage!CallerCancels(c)
    BY <1>0, <2>9 DEF Storage!CallerCancels, Storage!Abandon, Storage!Freed,
      Storage!FreedByFuture, Storage!InFuture, Storage!world
  <2>10. CASE Storage!CallerLeaves(c)
    BY <1>0, <2>10 DEF Storage!CallerLeaves, Storage!Abandon, Storage!Freed,
      Storage!FreedByFuture, Storage!InFuture, Storage!world
  <2>11. CASE Storage!GiveUp(c)
    BY <1>0, <2>11 DEF Storage!GiveUp, Storage!Told, Storage!world
  <2> QED BY <1>2, <2>1, <2>2, <2>3, <2>4, <2>5, <2>6, <2>7, <2>8, <2>9, <2>10, <2>11 DEF Storage!Asking
<1>3. ASSUME NEW c \in Calls, Storage!Working(c)
      PROVE  (a_past.wrong = {})'
  <2>1. CASE Storage!WorkerStarts(c)
    <3>1. /\ StartOf(c) /\ worker[c].pc = "queued"
          /\ UNCHANGED <<request, mount, image, job, a_past>>
      BY <2>1, WorkerStartsIs
    <3>2. ASSUME NEW result \in {"error", "ok"}, Storage!End(c, result)
          PROVE  (a_past.wrong = {})'
      BY <1>0, <3>1, <3>2 DEF Storage!End
    <3>3. ASSUME NEW p \in {"observe", "begin", "prepare", "pin"}, Storage!Goes(c, p),
                 p = "observe" => Storage!Does(c) = "read",
                 p = "begin" => Storage!Does(c) = "job",
                 p = "prepare" => Storage!OnMount(c), p = "pin" => Storage!OnImage(c)
          PROVE  (a_past.wrong = {})'
      BY <1>0, <3>1, <3>3 DEF Storage!Goes, Storage!Work
    <3>4. \/ \E result \in {"error", "ok"} : Storage!End(c, result)
          \/ Storage!Does(c) = "read" /\ Storage!Goes(c, "observe")
          \/ Storage!Does(c) = "job" /\ Storage!Goes(c, "begin")
          \/ Storage!OnMount(c) /\ Storage!Goes(c, "prepare")
          \/ Storage!OnImage(c) /\ Storage!Goes(c, "pin")
      BY <3>1 DEF StartOf
    <3>5. CASE Storage!Does(c) = "read" /\ Storage!Goes(c, "observe")
      BY <3>3, <3>5
    <3>6. CASE Storage!Does(c) = "job" /\ Storage!Goes(c, "begin")
      BY <3>3, <3>6
    <3>7. CASE Storage!OnMount(c) /\ Storage!Goes(c, "prepare")
      BY <3>3, <3>7
    <3>8. CASE Storage!OnImage(c) /\ Storage!Goes(c, "pin")
      BY <3>3, <3>8
    <3> QED BY <3>2, <3>4, <3>5, <3>6, <3>7, <3>8
  <2>2. CASE Storage!QueryFails(c)
    BY <1>0, <2>2 DEF Storage!QueryFails, Storage!Fails, Storage!End, Storage!world
  <2>3. CASE Storage!PrepareMount(c)
    BY <1>0, <2>3 DEF Storage!PrepareMount, Storage!Owned, Storage!Goes, Storage!Work,
      Storage!world
  <2>4. CASE Storage!RecheckMount(c)
    BY <1>0, <2>4 DEF Storage!RecheckMount, Storage!Owned, Storage!Goes, Storage!Work,
      Storage!world
  <2>5. CASE Storage!PinImage(c)
    BY <1>0, <2>5 DEF Storage!PinImage, Storage!world
  <2>6. CASE Storage!InspectImage(c)
    BY <1>0, <2>6 DEF Storage!InspectImage, Storage!Goes, Storage!Work, Storage!world
  <2>7. CASE Storage!Begin(c)
    <3>0. /\ worker[c].pc = "begin" /\ UNCHANGED <<request, mount, image, job, a_past>>
      BY <2>7 DEF Storage!Begin, Storage!world
    <3>a. \/ /\ Storage!End(c, "error")
          \/ /\ Storage!Goes(c, "flag")
      BY <2>7, <3>0 DEF Storage!Begin
    <3>1. CASE /\ Storage!End(c, "error")
      BY <1>0, <3>0, <3>1 DEF Storage!End
    <3>2. CASE /\ Storage!Goes(c, "flag")
      BY <1>0, <3>0, <3>2 DEF Storage!Goes, Storage!Work
    <3> QED BY <3>a, <3>1, <3>2
  <2>8. CASE Storage!RaiseFlag(c)
    BY <1>0, <2>8 DEF Storage!RaiseFlag, Storage!Goes, Storage!Work, Storage!world
  <2>9. CASE Storage!NativeCall(c)
    <3>0. /\ worker[c].pc = "native" /\ UNCHANGED request
      BY <2>9 DEF Storage!NativeCall, Storage!world
    <3>a. \/ /\ Storage!OnMount(c)
             /\ Storage!NativeMount(c)
             /\ Storage!Goes(c, "observe")
          \/ /\ Storage!OnImage(c)
             /\ Storage!NativeImage(c)
             /\ Storage!Goes(c, "observe")
          \/ /\ Storage!Does(c) = "job"
             /\ Storage!NativeJob(c)
             /\ Storage!Goes(c, "launched")
      BY <2>9, <3>0, <1>0 DEF Storage!NativeCall
    <3>1. CASE /\ Storage!OnMount(c)
               /\ Storage!NativeMount(c)
               /\ Storage!Goes(c, "observe")
      BY <1>0, <3>0, <3>1 DEF Storage!Goes, Storage!Work, Storage!NativeMount, Storage!Changed
    <3>2. CASE /\ Storage!OnImage(c)
               /\ Storage!NativeImage(c)
               /\ Storage!Goes(c, "observe")
      BY <1>0, <3>0, <3>2 DEF Storage!Goes, Storage!Work, Storage!NativeImage, Storage!Changed
    <3>3. CASE /\ Storage!Does(c) = "job"
               /\ Storage!NativeJob(c)
               /\ Storage!Goes(c, "launched")
      BY <1>0, <3>0, <3>3 DEF Storage!Goes, Storage!Work, Storage!NativeJob, Storage!Changed
    <3> QED BY <3>a, <3>1, <3>2, <3>3
  <2>10. CASE Storage!NativeFails(c)
    <3>0. /\ worker[c].pc = "native" /\ UNCHANGED <<request, mount, image, job, a_past>>
      BY <2>10 DEF Storage!NativeFails, Storage!world
    <3>a. \/ /\ Storage!End(c, "error")
          \/ /\ Storage!OnImage(c)
             /\ Storage!Goes(c, "observe")
      BY <2>10, <3>0 DEF Storage!NativeFails
    <3>1. CASE /\ Storage!End(c, "error")
      BY <1>0, <3>0, <3>1 DEF Storage!End
    <3>2. CASE /\ Storage!OnImage(c)
               /\ Storage!Goes(c, "observe")
      BY <1>0, <3>0, <3>2 DEF Storage!Goes, Storage!Work
    <3> QED BY <3>a, <3>1, <3>2
  <2>11. CASE Storage!Observe(c)
    BY <1>0, <2>11 DEF Storage!Observe, Storage!End, Storage!world
  <2>12. CASE Storage!JobLaunched(c)
    <3>0. /\ worker[c].pc = "launched" /\ UNCHANGED <<request, mount, image, a_past>>
      BY <2>12 DEF Storage!JobLaunched, Storage!world
    <3>a. \/ /\ Storage!End(c, "ok")
             /\ UNCHANGED job
          \/ /\ Storage!End(c, "error")
             /\ job' = [job EXCEPT ![c] = "canceled"]
          \/ /\ Storage!End(c, "uncanceled")
             /\ UNCHANGED job
      BY <2>12, <3>0 DEF Storage!JobLaunched
    <3>1. CASE /\ Storage!End(c, "ok")
               /\ UNCHANGED job
      BY <1>0, <3>0, <3>1 DEF Storage!End
    <3>2. CASE /\ Storage!End(c, "error")
               /\ job' = [job EXCEPT ![c] = "canceled"]
      BY <1>0, <3>0, <3>2 DEF Storage!End
    <3>3. CASE /\ Storage!End(c, "uncanceled")
               /\ UNCHANGED job
      BY <1>0, <3>0, <3>3 DEF Storage!End
    <3> QED BY <3>a, <3>1, <3>2, <3>3
  <2> QED BY <1>3, <2>1, <2>2, <2>3, <2>4, <2>5, <2>6, <2>7, <2>8, <2>9, <2>10, <2>11, <2>12 DEF Storage!Working
<1>4. CASE Storage!Outside
  <2>1. OutsideEffect
    BY <1>0, <1>4, OutsideIs
  <2>2. CASE \E m \in Mounts, v \in Volumes \cup {Nobody} :
           /\ mount' = [mount EXCEPT ![m] = v]
           /\ a_past' = [a_past EXCEPT !.outside = a_past.outside + 1,
                                       !.checked = {x \in a_past.checked : Task[x].mount # m}]
           /\ UNCHANGED image
    BY <1>0, <2>1, <2>2 DEF OutsideEffect
  <2>3. CASE /\ image' = [image EXCEPT !.attached = ~image.attached]
             /\ a_past' = [a_past EXCEPT !.outside = a_past.outside + 1] /\ UNCHANGED mount
    BY <1>0, <2>1, <2>3 DEF OutsideEffect
  <2>4. CASE /\ image' = [image EXCEPT !.id = image.id + 1]
             /\ \A x \in Calls : ~worker[x].pinned
             /\ a_past' = [a_past EXCEPT !.outside = a_past.outside + 1] /\ UNCHANGED mount
    BY <1>0, <2>1, <2>4 DEF OutsideEffect
  <2> QED BY <2>1, <2>2, <2>3, <2>4 DEF OutsideEffect
<1> QED BY <1>1, <1>2, <1>3, <1>4 DEF AdminSteps, Storage!Next

\* Administration keeps its invariant.
LEMMA AdminStep == AdminInv /\ AdminSteps => AdminInv'
  BY AdminTypedStep, PlanStep, PermitStep, CheckStep, ReportStep, WrongStep DEF AdminInv

LEMMA AdminInvImplies == AdminInv => Storage!AdministrationIsSound
<1> SUFFICES ASSUME AdminInv PROVE Storage!AdministrationIsSound
  OBVIOUS
<1>1. ASSUME NEW c \in Calls, NEW d \in Calls, c # d, Storage!Inside(c), Storage!Inside(d),
             Storage!Mutating(c), Storage!Mutating(d), ~Storage!Script(c), ~Storage!Script(d)
      PROVE  FALSE
  BY <1>1 DEF AdminInv, PermitOf, Storage!Inside
<1>2. Storage!ChangesAreChecked
  BY <1>1 DEF Storage!ChangesAreChecked, AdminInv
<1>3. ASSUME NEW c \in Calls
      PROVE  /\ request[c].pc = "done" /\ ~request[c].told
                /\ (Storage!Script(c) \/ request[c].report # "given_up")
                   => c \notin a_past.changed
             /\ worker[c].result = "error" => job[c] # "running"
  BY DEF AdminInv, ReportOf
<1>4. Storage!FailuresAreHonest
  BY <1>3 DEF Storage!FailuresAreHonest
<1> QED BY <1>2, <1>4 DEF Storage!AdministrationIsSound

----------------------------------------------------------------------------
(* Configuration: the inductive invariant.                                 *)

Values == {"none", "old", "ours", "others"}

Held == [id : Nat, life : {"present", "absent", "marked"}, handles : SUBSET {"read", "write"},
         field : [Configuration!Fields -> Values]]
Configured ==
    [operation : {"create", "configure", "set_startup"}, wish : (SUBSET Configuration!Fields) \ {{}},
     retain : BOOLEAN, pc : {"open", "snapshot", "plan", "reopen", "set", "step", "done"},
     planned : Nat, actions : Values, todo : SUBSET Configuration!Fields,
     applied : SUBSET (Configuration!Fields \cup {"create"}),
     outcome : {"none", "applied", "partial", "failed", "interrupted"}, accepted : BOOLEAN]
Wrote == [changed : SUBSET (Configuration!Fields \cup {"create"}), of : SUBSET Nat, outside : Nat]

ConfigTyped ==
    c_service \in Held /\ c_call \in Configured /\ c_past \in Wrote /\ canceled \in BOOLEAN

\* Which call may be where.
Places ==
    /\ c_call.pc \in {"snapshot", "plan", "reopen"} => c_call.operation = "configure"
    /\ c_call.pc = "set" => c_call.operation = "set_startup"
    /\ c_call.pc = "step" => c_call.operation \in {"create", "configure"}
    /\ c_call.operation = "set_startup" => c_call.wish = {"basic"}

\* An open handle keeps the service under its name, and so the one that was planned for.
Pinned ==
    /\ c_service.handles # {} => c_service.life # "absent"
    /\ c_call.pc \in {"snapshot", "plan", "reopen", "set", "step"} => c_service.handles # {}
    /\ c_call.pc \in {"plan", "reopen", "step"} => c_call.planned = c_service.id
    /\ c_call.operation # "set_startup" => c_past.of \subseteq {c_call.planned}

\* What the call has counted is what it has changed, and the rest is still to do.
Counted ==
    /\ c_call.applied = c_past.changed
    /\ c_call.pc \in {"open", "snapshot", "plan", "reopen", "set"} =>
          c_past.changed = {} /\ c_past.of = {}
    /\ c_call.pc # "done" => ~c_call.accepted
    /\ c_call.pc = "step" =>
          /\ c_call.wish \ {"basic"} \subseteq c_call.applied \cup c_call.todo
          /\ c_call.applied = {} => c_call.todo # {}
    /\ Configuration!ChangesAreTold

ConfigInv == ConfigTyped /\ Places /\ Pinned /\ Counted

ConfigSteps == Configuration!Next \/ UNCHANGED Configuration!vars

LEMMA FieldsHave ==
    "basic" \in Configuration!Fields /\ "recovery" \in Configuration!Fields
<1>1. /\ 1 \in DOMAIN Configuration!Order /\ Configuration!Order[1] = "basic"
      /\ 4 \in DOMAIN Configuration!Order /\ Configuration!Order[4] = "recovery"
  BY DEF Configuration!Order
<1> QED BY <1>1 DEF Configuration!Fields, Configuration!ToSet

LEMMA InitConfig == Configuration!Init => ConfigInv
<1> SUFFICES ASSUME Configuration!Init PROVE ConfigInv
  OBVIOUS
<1>1. c_service \in Held
  <2>1. [f \in Configuration!Fields |-> "old"] \in [Configuration!Fields -> Values]
    BY DEF Values
  <2> QED BY <2>1 DEF Configuration!Init, Held
<1>2. c_call \in Configured
  <2>1. Wishes \subseteq (SUBSET Configuration!Fields) \ {{}}
    BY ConfigurationAssumption DEF Configuration!ConfigurationAssumption
  <2>2. /\ c_call.operation \in {"create", "configure", "set_startup"} /\ c_call.wish \in Wishes
        /\ c_call.retain \in BOOLEAN
    BY DEF Configuration!Init, Configuration!Operations
  <2>3. c_call = [operation |-> c_call.operation, wish |-> c_call.wish, retain |-> c_call.retain,
                  pc |-> "open", planned |-> 0, actions |-> "none", todo |-> {},
                  applied |-> {}, outcome |-> "none", accepted |-> FALSE]
    BY DEF Configuration!Init
  <2>4. c_call.wish \in (SUBSET Configuration!Fields) \ {{}}
    BY <2>1, <2>2
  <2>5. "none" \in Values
    BY DEF Values
  <2> DEFINE w == c_call.wish
             o == c_call.operation
             r == c_call.retain
  <2>6. /\ o \in {"create", "configure", "set_startup"} /\ r \in BOOLEAN
        /\ w \in (SUBSET Configuration!Fields) \ {{}}
        /\ c_call = [operation |-> o, wish |-> w, retain |-> r,
                     pc |-> "open", planned |-> 0, actions |-> "none", todo |-> {},
                     applied |-> {}, outcome |-> "none", accepted |-> FALSE]
    BY <2>2, <2>3, <2>4
  <2> HIDE DEF w, o, r
  <2> QED BY <2>5, <2>6 DEF Configured
<1>3. c_past \in Wrote /\ canceled \in BOOLEAN
  BY DEF Configuration!Init, Wrote
<1>4. Places /\ Pinned /\ Counted
  BY DEF Configuration!Init, Configuration!Operations, Places, Pinned, Counted,
         Configuration!ChangesAreTold
<1> QED BY <1>1, <1>2, <1>3, <1>4 DEF ConfigInv, ConfigTyped

\* What a report keeps of its call, and what it says.
Reported(c, told) ==
    /\ told \in Configured /\ told.pc = "done"
    /\ told.operation = c.operation /\ told.wish = c.wish /\ told.planned = c.planned
    /\ told.applied = c.applied

LEMMA ReportToldIs ==
    ASSUME NEW c \in Configured, NEW errors \in BOOLEAN
    PROVE  LET told == Configuration!Told(c, errors)
           IN  /\ Reported(c, told) /\ told.accepted = (c.applied # {})
               /\ ~errors => told.outcome = "applied"
               /\ errors => told.outcome = IF c.applied = {} THEN "failed" ELSE "partial"
<1> DEFINE told == Configuration!Told(c, errors)
           outcome == Configuration!Judged(errors, c.applied)
           accepted == c.applied # {}
<1>1. /\ outcome \in {"applied", "failed", "partial"} /\ accepted \in BOOLEAN
      /\ ~errors => outcome = "applied"
      /\ errors => outcome = IF c.applied = {} THEN "failed" ELSE "partial"
  BY DEF Configuration!Judged
<1>2. told = [c EXCEPT !.pc = "done", !.outcome = outcome, !.accepted = accepted]
  BY DEF Configuration!Told
<1> HIDE DEF outcome, told
<1>3. told \in Configured /\ told.pc = "done" /\ told.outcome = outcome
  BY <1>1, <1>2 DEF Configured
<1>4. /\ told.operation = c.operation /\ told.wish = c.wish /\ told.planned = c.planned
      /\ told.applied = c.applied /\ told.accepted = (c.applied # {})
  BY <1>1, <1>2 DEF Configured
<1> QED BY <1>1, <1>3, <1>4 DEF Reported, told

LEMMA RefusedIs ==
    ASSUME ConfigTyped
    PROVE  LET told == Configuration!Refused
           IN  /\ Reported(c_call, told) /\ told.accepted = c_call.accepted
               /\ told.outcome \in {"failed", "interrupted"}
<1> DEFINE told == Configuration!Refused
           outcome == IF canceled THEN "interrupted" ELSE "failed"
<1>1. outcome \in {"interrupted", "failed"}
  OBVIOUS
<1>2. told = [c_call EXCEPT !.pc = "done", !.outcome = outcome]
  BY DEF Configuration!Refused
<1> HIDE DEF outcome, told
<1>3. told \in Configured /\ told.pc = "done" /\ told.outcome = outcome
  BY <1>1, <1>2 DEF Configured, ConfigTyped
<1>4. /\ told.operation = c_call.operation /\ told.wish = c_call.wish
      /\ told.planned = c_call.planned /\ told.applied = c_call.applied
      /\ told.accepted = c_call.accepted
  BY <1>2 DEF Configured, ConfigTyped
<1> QED BY <1>1, <1>3, <1>4 DEF Reported, told

\* Types.
LEMMA ConfigTypedStep ==
    ASSUME ConfigInv, ConfigSteps
    PROVE  ConfigTyped'
<1>0. /\ c_service \in Held /\ c_call \in Configured /\ c_past \in Wrote /\ canceled \in BOOLEAN
      /\ ConfigTyped
  BY DEF ConfigInv, ConfigTyped
<1>1. CASE UNCHANGED Configuration!vars
  BY <1>0, <1>1 DEF Configuration!vars, ConfigTyped
<1>2. CASE Configuration!Create
  <2>0. /\ c_call.pc = "open"
        /\ c_call.operation = "create"
    BY <1>2 DEF Configuration!Create, Configuration!Early
  <2>1. CASE /\ c_service.life = "absent"
             /\ c_service' = [c_service EXCEPT !.id = @ + 1, !.life = "present", !.handles = {"write"},
                                       !.field = [f \in Configuration!Fields |-> IF f = "basic" THEN "ours" ELSE "old"]]
             /\ c_call' = [c_call EXCEPT !.pc = "step", !.planned = c_service.id + 1,
                                 !.todo = Configuration!Steps(FALSE), !.applied = {"create"}]
             /\ c_past' = [c_past EXCEPT !.changed = {"create"}, !.of = {c_service.id + 1}]
             /\ UNCHANGED canceled
    <3>6. Configuration!Steps(FALSE) \subseteq Configuration!Fields
      BY <1>0 DEF Configured, Configuration!Steps
    <3>7. c_service.id + 1 \in Nat
      BY <1>0 DEF Held
    <3> DEFINE field == [f \in Configuration!Fields |-> IF f = "basic" THEN "ours" ELSE "old"]
               todo == Configuration!Steps(FALSE)
               id == c_service.id + 1
    <3>8. field \in [Configuration!Fields -> Values]
      BY DEF Values
    <3>9. /\ c_service' = [c_service EXCEPT !.id = id, !.life = "present", !.handles = {"write"},
                                            !.field = field]
          /\ c_call' = [c_call EXCEPT !.pc = "step", !.planned = id, !.todo = todo,
                                      !.applied = {"create"}]
          /\ c_past' = [c_past EXCEPT !.changed = {"create"}, !.of = {id}]
      BY <2>1
    <3>10. id \in Nat /\ todo \in SUBSET Configuration!Fields
      BY <3>6, <3>7
    <3> HIDE DEF field, todo, id
    <3>11. UNCHANGED canceled
      BY <2>1
    <3>1. c_service' \in Held
      BY <1>0, <2>0, <3>8, <3>9, <3>10, FieldsHave, <3>11 DEF Held, Configured, Values
    <3>2. c_call' \in Configured
      BY <1>0, <2>0, <3>8, <3>9, <3>10, FieldsHave, <3>11 DEF Held, Configured, Reported, Configuration!Steps
    <3>3. c_past' \in Wrote /\ canceled' \in BOOLEAN
      BY <1>0, <2>0, <3>8, <3>9, <3>10, FieldsHave, <3>11 DEF Held, Wrote, Configured
    <3> QED BY <3>1, <3>2, <3>3 DEF ConfigTyped
  <2>2. CASE /\ c_call' = Configuration!Refused
             /\ UNCHANGED <<canceled, c_past>>
             /\ UNCHANGED c_service
    <3>0. Reported(c_call, c_call') /\ c_call'.accepted = c_call.accepted
          /\ c_call'.outcome \in {"failed", "interrupted"}
      BY <1>0, <2>2, RefusedIs
    <3>1. c_service' \in Held
      BY <1>0, <2>0, <2>2, FieldsHave DEF Held, Configured, Values
    <3>2. c_call' \in Configured
      BY <1>0, <2>0, <2>2, FieldsHave, <3>0 DEF Held, Configured, Reported, Configuration!Steps
    <3>3. c_past' \in Wrote /\ canceled' \in BOOLEAN
      BY <1>0, <2>0, <2>2, FieldsHave DEF Held, Wrote, Configured
    <3> QED BY <3>1, <3>2, <3>3 DEF ConfigTyped
  <2> QED BY <1>2, <2>1, <2>2 DEF Configuration!Create, Configuration!Early
<1>3. CASE Configuration!OpenReader
  <2>0. /\ c_call.pc = "open"
        /\ c_call.operation = "configure"
    BY <1>3 DEF Configuration!OpenReader, Configuration!Early, Configuration!Handle, Configuration!Go
  <2>1. CASE /\ c_service.life # "absent"
             /\ c_service' = [c_service EXCEPT !.handles = {"read"}]
             /\ c_call' = [c_call EXCEPT !.pc = "snapshot"]
             /\ UNCHANGED <<canceled, c_past>>
    <3>1. c_service' \in Held
      BY <1>0, <2>0, <2>1, FieldsHave DEF Held, Configured, Values
    <3>2. c_call' \in Configured
      BY <1>0, <2>0, <2>1, FieldsHave DEF Held, Configured, Reported, Configuration!Steps
    <3>3. c_past' \in Wrote /\ canceled' \in BOOLEAN
      BY <1>0, <2>0, <2>1, FieldsHave DEF Held, Wrote, Configured
    <3> QED BY <3>1, <3>2, <3>3 DEF ConfigTyped
  <2>2. CASE /\ c_call' = Configuration!Refused
             /\ UNCHANGED <<canceled, c_past>>
             /\ UNCHANGED c_service
    <3>0. Reported(c_call, c_call') /\ c_call'.accepted = c_call.accepted
          /\ c_call'.outcome \in {"failed", "interrupted"}
      BY <1>0, <2>2, RefusedIs
    <3>1. c_service' \in Held
      BY <1>0, <2>0, <2>2, FieldsHave DEF Held, Configured, Values
    <3>2. c_call' \in Configured
      BY <1>0, <2>0, <2>2, FieldsHave, <3>0 DEF Held, Configured, Reported, Configuration!Steps
    <3>3. c_past' \in Wrote /\ canceled' \in BOOLEAN
      BY <1>0, <2>0, <2>2, FieldsHave DEF Held, Wrote, Configured
    <3> QED BY <3>1, <3>2, <3>3 DEF ConfigTyped
  <2> QED BY <1>3, <2>1, <2>2 DEF Configuration!OpenReader, Configuration!Early, Configuration!Handle, Configuration!Go
<1>4. CASE Configuration!Snapshot
  <2>0. /\ c_call.pc = "snapshot"
    BY <1>4 DEF Configuration!Snapshot, Configuration!Handle
  <2>1. CASE /\ c_call' = [c_call EXCEPT !.pc = "plan", !.planned = c_service.id,
                                 !.actions = c_service.field["recovery"]]
             /\ UNCHANGED c_service
             /\ UNCHANGED <<canceled, c_past>>
    <3>1. c_service' \in Held
      BY <1>0, <2>0, <2>1, FieldsHave DEF Held, Configured, Values
    <3>2. c_call' \in Configured
      BY <1>0, <2>0, <2>1, FieldsHave DEF Held, Configured, Reported, Configuration!Steps
    <3>3. c_past' \in Wrote /\ canceled' \in BOOLEAN
      BY <1>0, <2>0, <2>1, FieldsHave DEF Held, Wrote, Configured
    <3> QED BY <3>1, <3>2, <3>3 DEF ConfigTyped
  <2>2. CASE /\ c_call' = Configuration!Told(c_call, TRUE)
             /\ c_service' = [c_service EXCEPT !.handles = {}]
             /\ UNCHANGED <<canceled, c_past>>
    <3>0. Reported(c_call, c_call') /\ c_call'.accepted = (c_call.applied # {})
          /\ c_call'.outcome = IF c_call.applied = {} THEN "failed" ELSE "partial"
      BY <1>0, <2>2, ReportToldIs
    <3>1. c_service' \in Held
      BY <1>0, <2>0, <2>2, FieldsHave DEF Held, Configured, Values
    <3>2. c_call' \in Configured
      BY <1>0, <2>0, <2>2, FieldsHave, <3>0 DEF Held, Configured, Reported, Configuration!Steps
    <3>3. c_past' \in Wrote /\ canceled' \in BOOLEAN
      BY <1>0, <2>0, <2>2, FieldsHave DEF Held, Wrote, Configured
    <3> QED BY <3>1, <3>2, <3>3 DEF ConfigTyped
  <2> QED BY <1>4, <2>1, <2>2 DEF Configuration!Snapshot, Configuration!Handle
<1>5. CASE Configuration!Plan
  <2>0. /\ c_call.pc = "plan"
    BY <1>5 DEF Configuration!Plan, Configuration!PlanIt, Configuration!Early, Configuration!Handle, Configuration!Go
  <2>1. CASE /\ c_call' = [c_call EXCEPT !.pc = "reopen"]
             /\ UNCHANGED c_service
             /\ UNCHANGED <<canceled, c_past>>
    <3>1. c_service' \in Held
      BY <1>0, <2>0, <2>1, FieldsHave DEF Held, Configured, Values
    <3>2. c_call' \in Configured
      BY <1>0, <2>0, <2>1, FieldsHave DEF Held, Configured, Reported, Configuration!Steps
    <3>3. c_past' \in Wrote /\ canceled' \in BOOLEAN
      BY <1>0, <2>0, <2>1, FieldsHave DEF Held, Wrote, Configured
    <3> QED BY <3>1, <3>2, <3>3 DEF ConfigTyped
  <2>2. CASE /\ c_call' = Configuration!Refused
             /\ UNCHANGED <<canceled, c_past>>
             /\ c_service' = [c_service EXCEPT !.handles = {}]
    <3>0. Reported(c_call, c_call') /\ c_call'.accepted = c_call.accepted
          /\ c_call'.outcome \in {"failed", "interrupted"}
      BY <1>0, <2>2, RefusedIs
    <3>1. c_service' \in Held
      BY <1>0, <2>0, <2>2, FieldsHave DEF Held, Configured, Values
    <3>2. c_call' \in Configured
      BY <1>0, <2>0, <2>2, FieldsHave, <3>0 DEF Held, Configured, Reported, Configuration!Steps
    <3>3. c_past' \in Wrote /\ canceled' \in BOOLEAN
      BY <1>0, <2>0, <2>2, FieldsHave DEF Held, Wrote, Configured
    <3> QED BY <3>1, <3>2, <3>3 DEF ConfigTyped
  <2> QED BY <1>5, <2>1, <2>2 DEF Configuration!Plan, Configuration!PlanIt, Configuration!Early, Configuration!Handle, Configuration!Go
<1>6. CASE Configuration!Reopen
  <2>0. /\ c_call.pc = "reopen"
    BY <1>6 DEF Configuration!Reopen, Configuration!Handle
  <2>1. CASE /\ c_service.life # "absent"
             /\ c_service' = [c_service EXCEPT !.handles = {"write"}]
             /\ c_call' = [c_call EXCEPT !.pc = "step", !.todo = Configuration!Steps(TRUE)]
             /\ UNCHANGED <<canceled, c_past>>
    <3>1. c_service' \in Held
      BY <1>0, <2>0, <2>1, FieldsHave DEF Held, Configured, Values
    <3>2. c_call' \in Configured
      BY <1>0, <2>0, <2>1, FieldsHave DEF Held, Configured, Reported, Configuration!Steps
    <3>3. c_past' \in Wrote /\ canceled' \in BOOLEAN
      BY <1>0, <2>0, <2>1, FieldsHave DEF Held, Wrote, Configured
    <3> QED BY <3>1, <3>2, <3>3 DEF ConfigTyped
  <2>2. CASE /\ c_call' = Configuration!Told(c_call, TRUE)
             /\ c_service' = [c_service EXCEPT !.handles = {}]
             /\ UNCHANGED <<canceled, c_past>>
    <3>0. Reported(c_call, c_call') /\ c_call'.accepted = (c_call.applied # {})
          /\ c_call'.outcome = IF c_call.applied = {} THEN "failed" ELSE "partial"
      BY <1>0, <2>2, ReportToldIs
    <3>1. c_service' \in Held
      BY <1>0, <2>0, <2>2, FieldsHave DEF Held, Configured, Values
    <3>2. c_call' \in Configured
      BY <1>0, <2>0, <2>2, FieldsHave, <3>0 DEF Held, Configured, Reported, Configuration!Steps
    <3>3. c_past' \in Wrote /\ canceled' \in BOOLEAN
      BY <1>0, <2>0, <2>2, FieldsHave DEF Held, Wrote, Configured
    <3> QED BY <3>1, <3>2, <3>3 DEF ConfigTyped
  <2> QED BY <1>6, <2>1, <2>2 DEF Configuration!Reopen, Configuration!Handle
<1>7. CASE Configuration!SetStartup
  <2>0. /\ c_call.pc = "open"
        /\ c_call.operation = "set_startup"
    BY <1>7 DEF Configuration!SetStartup, Configuration!Early, Configuration!Handle, Configuration!Go
  <2>1. CASE /\ c_service.life # "absent"
             /\ c_service' = [c_service EXCEPT !.handles = {"write"}]
             /\ c_call' = [c_call EXCEPT !.pc = "set"]
             /\ UNCHANGED <<canceled, c_past>>
    <3>1. c_service' \in Held
      BY <1>0, <2>0, <2>1, FieldsHave DEF Held, Configured, Values
    <3>2. c_call' \in Configured
      BY <1>0, <2>0, <2>1, FieldsHave DEF Held, Configured, Reported, Configuration!Steps
    <3>3. c_past' \in Wrote /\ canceled' \in BOOLEAN
      BY <1>0, <2>0, <2>1, FieldsHave DEF Held, Wrote, Configured
    <3> QED BY <3>1, <3>2, <3>3 DEF ConfigTyped
  <2>2. CASE /\ c_call' = Configuration!Refused
             /\ UNCHANGED <<canceled, c_past>>
             /\ UNCHANGED c_service
    <3>0. Reported(c_call, c_call') /\ c_call'.accepted = c_call.accepted
          /\ c_call'.outcome \in {"failed", "interrupted"}
      BY <1>0, <2>2, RefusedIs
    <3>1. c_service' \in Held
      BY <1>0, <2>0, <2>2, FieldsHave DEF Held, Configured, Values
    <3>2. c_call' \in Configured
      BY <1>0, <2>0, <2>2, FieldsHave, <3>0 DEF Held, Configured, Reported, Configuration!Steps
    <3>3. c_past' \in Wrote /\ canceled' \in BOOLEAN
      BY <1>0, <2>0, <2>2, FieldsHave DEF Held, Wrote, Configured
    <3> QED BY <3>1, <3>2, <3>3 DEF ConfigTyped
  <2> QED BY <1>7, <2>1, <2>2 DEF Configuration!SetStartup, Configuration!Early, Configuration!Handle, Configuration!Go
<1>8. CASE Configuration!SetStartType
  <2>0. /\ c_call.pc = "set"
    BY <1>8 DEF Configuration!SetStartType, Configuration!Early, Configuration!Handle
  <2>1. CASE /\ c_service.life = "present"
             /\ c_service' = [c_service EXCEPT !.field["basic"] = "ours", !.handles = {}]
             /\ c_past' = [c_past EXCEPT !.changed = {"basic"}, !.of = {c_service.id}]
             /\ c_call' = Configuration!Told([c_call EXCEPT !.applied = {"basic"}], FALSE)
             /\ UNCHANGED canceled
    <3>9. [c_call EXCEPT !.applied = {"basic"}] \in Configured /\ [c_call EXCEPT !.applied = {"basic"}].applied = {"basic"}
          /\ [c_call EXCEPT !.applied = {"basic"}].operation = c_call.operation /\ [c_call EXCEPT !.applied = {"basic"}].wish = c_call.wish
          /\ [c_call EXCEPT !.applied = {"basic"}].planned = c_call.planned
      BY <1>0, FieldsHave DEF Configured
    <3>0. Reported([c_call EXCEPT !.applied = {"basic"}], c_call')
          /\ c_call'.accepted /\ c_call'.outcome = "applied"
      BY <2>1, <3>9, ReportToldIs
    <3>1. c_service' \in Held
      BY <1>0, <2>0, <2>1, FieldsHave DEF Held, Configured, Values
    <3>2. c_call' \in Configured
      BY <1>0, <2>0, <2>1, FieldsHave, <3>0 DEF Held, Configured, Reported, Configuration!Steps
    <3>3. c_past' \in Wrote /\ canceled' \in BOOLEAN
      BY <1>0, <2>0, <2>1, FieldsHave DEF Held, Wrote, Configured
    <3> QED BY <3>1, <3>2, <3>3 DEF ConfigTyped
  <2>2. CASE /\ c_call' = Configuration!Refused
             /\ UNCHANGED <<canceled, c_past>>
             /\ c_service' = [c_service EXCEPT !.handles = {}]
    <3>0. Reported(c_call, c_call') /\ c_call'.accepted = c_call.accepted
          /\ c_call'.outcome \in {"failed", "interrupted"}
      BY <1>0, <2>2, RefusedIs
    <3>1. c_service' \in Held
      BY <1>0, <2>0, <2>2, FieldsHave DEF Held, Configured, Values
    <3>2. c_call' \in Configured
      BY <1>0, <2>0, <2>2, FieldsHave, <3>0 DEF Held, Configured, Reported, Configuration!Steps
    <3>3. c_past' \in Wrote /\ canceled' \in BOOLEAN
      BY <1>0, <2>0, <2>2, FieldsHave DEF Held, Wrote, Configured
    <3> QED BY <3>1, <3>2, <3>3 DEF ConfigTyped
  <2> QED BY <1>8, <2>1, <2>2 DEF Configuration!SetStartType, Configuration!Early, Configuration!Handle
<1>9. CASE Configuration!Apply
  <2>0. /\ c_call.pc = "step"
        /\ c_service.life = "present"
    BY <1>9 DEF Configuration!Apply
  <2>1. PICK f \in c_call.todo :
           /\ c_service' = [c_service EXCEPT !.field[f] = Configuration!Written(f)]
           /\ c_call' = [c_call EXCEPT !.todo = @ \ {f}, !.applied = @ \cup {f}]
           /\ c_past' = [c_past EXCEPT !.changed = @ \cup {f}, !.of = @ \cup {c_service.id}]
           /\ UNCHANGED canceled
    BY <1>9 DEF Configuration!Apply
  <2>5. /\ c_call.todo \ {f} \in SUBSET Configuration!Fields
        /\ c_call.applied \cup {f} \in SUBSET (Configuration!Fields \cup {"create"})
        /\ c_past.changed \cup {f} \in SUBSET (Configuration!Fields \cup {"create"})
        /\ c_past.of \cup {c_service.id} \in SUBSET Nat
    BY <1>0, <2>1 DEF Held, Configured, Wrote
  <2>6. Configuration!Written(f) \in Values /\ f \in Configuration!Fields
    BY <1>0 DEF Configuration!Written, Configured, Values
  <2>2. c_service' \in Held
    BY <1>0, <2>0, <2>1, <2>5, <2>6, FieldsHave DEF Held, Configured, Values
  <2>3. c_call' \in Configured
    BY <1>0, <2>0, <2>1, <2>5, <2>6, FieldsHave DEF Held, Configured, Reported, Configuration!Steps
  <2>4. c_past' \in Wrote /\ canceled' \in BOOLEAN
    BY <1>0, <2>0, <2>1, <2>5, <2>6, FieldsHave DEF Held, Wrote, Configured
  <2> QED BY <2>2, <2>3, <2>4 DEF ConfigTyped
<1>10. CASE Configuration!Stop
  <2>0. /\ c_call.pc = "step"
    BY <1>10 DEF Configuration!Stop, Configuration!Handle
  <2>1. /\ c_call' = Configuration!Told(c_call, TRUE)
        /\ c_service' = [c_service EXCEPT !.handles = {}]
        /\ UNCHANGED <<canceled, c_past>>
    BY <1>10 DEF Configuration!Stop, Configuration!Handle
  <2>8. Reported(c_call, c_call') /\ c_call'.accepted = (c_call.applied # {})
        /\ c_call'.outcome = IF c_call.applied = {} THEN "failed" ELSE "partial"
    BY <1>0, <2>1, ReportToldIs
  <2>2. c_service' \in Held
    BY <1>0, <2>0, <2>1, FieldsHave DEF Held, Configured, Values
  <2>3. c_call' \in Configured
    BY <1>0, <2>0, <2>1, FieldsHave, <2>8 DEF Held, Configured, Reported, Configuration!Steps
  <2>4. c_past' \in Wrote /\ canceled' \in BOOLEAN
    BY <1>0, <2>0, <2>1, FieldsHave DEF Held, Wrote, Configured
  <2> QED BY <2>2, <2>3, <2>4 DEF ConfigTyped
<1>11. CASE Configuration!Complete
  <2>0. /\ c_call.pc = "step"
        /\ c_call.todo = {}
    BY <1>11 DEF Configuration!Complete, Configuration!Handle
  <2>1. /\ c_call' = Configuration!Told(c_call, FALSE)
        /\ c_service' = [c_service EXCEPT !.handles = {}]
        /\ UNCHANGED <<canceled, c_past>>
    BY <1>11 DEF Configuration!Complete, Configuration!Handle
  <2>8. Reported(c_call, c_call') /\ c_call'.accepted = (c_call.applied # {})
        /\ c_call'.outcome = "applied"
    BY <1>0, <2>1, ReportToldIs
  <2>2. c_service' \in Held
    BY <1>0, <2>0, <2>1, FieldsHave DEF Held, Configured, Values
  <2>3. c_call' \in Configured
    BY <1>0, <2>0, <2>1, FieldsHave, <2>8 DEF Held, Configured, Reported, Configuration!Steps
  <2>4. c_past' \in Wrote /\ canceled' \in BOOLEAN
    BY <1>0, <2>0, <2>1, FieldsHave DEF Held, Wrote, Configured
  <2> QED BY <2>2, <2>3, <2>4 DEF ConfigTyped
<1>12. CASE Configuration!OutsideConfigures
  <2>0. /\ c_call.pc # "done"
        /\ c_service.life = "present"
    BY <1>12 DEF Configuration!OutsideConfigures, Configuration!Outside
  <2>1. PICK f \in Configuration!Fields :
           /\ c_service' = [c_service EXCEPT !.field[f] = "others"]
           /\ c_past' = [c_past EXCEPT !.outside = @ + 1]
           /\ UNCHANGED <<c_call, canceled>>
    BY <1>12 DEF Configuration!OutsideConfigures, Configuration!Outside
  <2>2. c_service' \in Held
    BY <1>0, <2>0, <2>1, FieldsHave DEF Held, Configured, Values
  <2>3. c_call' \in Configured
    BY <1>0, <2>0, <2>1, FieldsHave DEF Held, Configured, Reported, Configuration!Steps
  <2>4. c_past' \in Wrote /\ canceled' \in BOOLEAN
    BY <1>0, <2>0, <2>1, FieldsHave DEF Held, Wrote, Configured
  <2> QED BY <2>2, <2>3, <2>4 DEF ConfigTyped
<1>13. CASE Configuration!OutsideDeletes
  <2>0. /\ c_call.pc # "done"
        /\ c_service.life = "present"
    BY <1>13 DEF Configuration!OutsideDeletes, Configuration!Outside
  <2>1. PICK life \in {"absent", "marked"} :
           /\ c_service' = [c_service EXCEPT !.life = life]
           /\ life = "absent" => c_service.handles = {}
           /\ c_past' = [c_past EXCEPT !.outside = @ + 1]
           /\ UNCHANGED <<c_call, canceled>>
    BY <1>13 DEF Configuration!OutsideDeletes, Configuration!Outside
  <2>2. c_service' \in Held
    BY <1>0, <2>0, <2>1, FieldsHave DEF Held, Configured, Values
  <2>3. c_call' \in Configured
    BY <1>0, <2>0, <2>1, FieldsHave DEF Held, Configured, Reported, Configuration!Steps
  <2>4. c_past' \in Wrote /\ canceled' \in BOOLEAN
    BY <1>0, <2>0, <2>1, FieldsHave DEF Held, Wrote, Configured
  <2> QED BY <2>2, <2>3, <2>4 DEF ConfigTyped
<1>14. CASE Configuration!Vanish
  <2>0. /\ c_service.life = "marked"
        /\ c_service.handles = {}
    BY <1>14 DEF Configuration!Vanish
  <2>1. /\ c_service' = [c_service EXCEPT !.life = "absent"]
        /\ UNCHANGED <<c_call, canceled, c_past>>
    BY <1>14 DEF Configuration!Vanish
  <2>2. c_service' \in Held
    BY <1>0, <2>0, <2>1, FieldsHave DEF Held, Configured, Values
  <2>3. c_call' \in Configured
    BY <1>0, <2>0, <2>1, FieldsHave DEF Held, Configured, Reported, Configuration!Steps
  <2>4. c_past' \in Wrote /\ canceled' \in BOOLEAN
    BY <1>0, <2>0, <2>1, FieldsHave DEF Held, Wrote, Configured
  <2> QED BY <2>2, <2>3, <2>4 DEF ConfigTyped
<1>15. CASE Configuration!OutsideCreates
  <2>0. /\ c_call.pc # "done"
        /\ c_service.life = "absent"
    BY <1>15 DEF Configuration!OutsideCreates, Configuration!Outside
  <2>1. /\ c_service' = [c_service EXCEPT !.id = @ + 1, !.life = "present",
                                       !.field = [f \in Configuration!Fields |-> "others"]]
        /\ c_past' = [c_past EXCEPT !.outside = @ + 1]
        /\ UNCHANGED <<c_call, canceled>>
    BY <1>15 DEF Configuration!OutsideCreates, Configuration!Outside
  <2> DEFINE field == [f \in Configuration!Fields |-> "others"]
  <2>5. field \in [Configuration!Fields -> Values] /\ c_service.id + 1 \in Nat
    BY <1>0 DEF Values, Held
  <2>6. c_service' = [c_service EXCEPT !.id = @ + 1, !.life = "present", !.field = field]
    BY <2>1
  <2> HIDE DEF field
  <2>11. UNCHANGED canceled
    BY <2>1
  <2>12. c_past' = [c_past EXCEPT !.outside = @ + 1] /\ UNCHANGED c_call
    BY <2>1
  <2>2. c_service' \in Held
    BY <1>0, <2>0, <2>5, <2>6, FieldsHave, <2>11, <2>12 DEF Held, Configured, Values
  <2>3. c_call' \in Configured
    BY <1>0, <2>0, <2>5, <2>6, FieldsHave, <2>11, <2>12 DEF Held, Configured, Reported, Configuration!Steps
  <2>4. c_past' \in Wrote /\ canceled' \in BOOLEAN
    BY <1>0, <2>0, <2>5, <2>6, FieldsHave, <2>11, <2>12 DEF Held, Wrote, Configured
  <2> QED BY <2>2, <2>3, <2>4 DEF ConfigTyped
<1>16. CASE Configuration!Cancel
  <2>0. /\ c_call.pc # "done"
    BY <1>16 DEF Configuration!Cancel
  <2>1. /\ canceled' \in BOOLEAN
        /\ UNCHANGED <<c_service, c_call, c_past>>
    BY <1>16 DEF Configuration!Cancel
  <2>2. c_service' \in Held
    BY <1>0, <2>0, <2>1, FieldsHave DEF Held, Configured, Values
  <2>3. c_call' \in Configured
    BY <1>0, <2>0, <2>1, FieldsHave DEF Held, Configured, Reported, Configuration!Steps
  <2>4. c_past' \in Wrote /\ canceled' \in BOOLEAN
    BY <1>0, <2>0, <2>1, FieldsHave DEF Held, Wrote, Configured
  <2> QED BY <2>2, <2>3, <2>4 DEF ConfigTyped
<1> QED BY <1>1, <1>2, <1>3, <1>4, <1>5, <1>6, <1>7, <1>8, <1>9, <1>10, <1>11, <1>12, <1>13,
  <1>14, <1>15, <1>16 DEF ConfigSteps, Configuration!Next

\* Which call is where.
LEMMA PlacesStep ==
    ASSUME ConfigInv, ConfigSteps
    PROVE  Places'
<1>0. /\ c_service \in Held /\ c_call \in Configured /\ c_past \in Wrote /\ canceled \in BOOLEAN
      /\ ConfigTyped /\ Places /\ Pinned /\ Counted
  BY DEF ConfigInv, ConfigTyped
<1>1. CASE UNCHANGED Configuration!vars
  BY <1>0, <1>1 DEF Configuration!vars, Places
<1>2. CASE Configuration!Create
  <2>0. /\ c_call.pc = "open"
        /\ c_call.operation = "create"
    BY <1>2 DEF Configuration!Create, Configuration!Early
  <2>1. CASE /\ c_service.life = "absent"
             /\ c_service' = [c_service EXCEPT !.id = @ + 1, !.life = "present", !.handles = {"write"},
                                       !.field = [f \in Configuration!Fields |-> IF f = "basic" THEN "ours" ELSE "old"]]
             /\ c_call' = [c_call EXCEPT !.pc = "step", !.planned = c_service.id + 1,
                                 !.todo = Configuration!Steps(FALSE), !.applied = {"create"}]
             /\ c_past' = [c_past EXCEPT !.changed = {"create"}, !.of = {c_service.id + 1}]
             /\ UNCHANGED canceled
    BY <1>0, <2>0, <2>1, FieldsHave DEF Held, Configured, Wrote, Reported, Configuration!Steps, Places
  <2>2. CASE /\ c_call' = Configuration!Refused
             /\ UNCHANGED <<canceled, c_past>>
             /\ UNCHANGED c_service
    <3>0. Reported(c_call, c_call') /\ c_call'.accepted = c_call.accepted
          /\ c_call'.outcome \in {"failed", "interrupted"}
      BY <1>0, <2>2, RefusedIs
    <3> QED BY <1>0, <2>0, <2>2, <3>0, FieldsHave DEF Held, Configured, Wrote, Reported, Configuration!Steps, Places
  <2> QED BY <1>2, <2>1, <2>2 DEF Configuration!Create, Configuration!Early
<1>3. CASE Configuration!OpenReader
  <2>0. /\ c_call.pc = "open"
        /\ c_call.operation = "configure"
    BY <1>3 DEF Configuration!OpenReader, Configuration!Early, Configuration!Handle, Configuration!Go
  <2>1. CASE /\ c_service.life # "absent"
             /\ c_service' = [c_service EXCEPT !.handles = {"read"}]
             /\ c_call' = [c_call EXCEPT !.pc = "snapshot"]
             /\ UNCHANGED <<canceled, c_past>>
    BY <1>0, <2>0, <2>1, FieldsHave DEF Held, Configured, Wrote, Reported, Configuration!Steps, Places
  <2>2. CASE /\ c_call' = Configuration!Refused
             /\ UNCHANGED <<canceled, c_past>>
             /\ UNCHANGED c_service
    <3>0. Reported(c_call, c_call') /\ c_call'.accepted = c_call.accepted
          /\ c_call'.outcome \in {"failed", "interrupted"}
      BY <1>0, <2>2, RefusedIs
    <3> QED BY <1>0, <2>0, <2>2, <3>0, FieldsHave DEF Held, Configured, Wrote, Reported, Configuration!Steps, Places
  <2> QED BY <1>3, <2>1, <2>2 DEF Configuration!OpenReader, Configuration!Early, Configuration!Handle, Configuration!Go
<1>4. CASE Configuration!Snapshot
  <2>0. /\ c_call.pc = "snapshot"
    BY <1>4 DEF Configuration!Snapshot, Configuration!Handle
  <2>1. CASE /\ c_call' = [c_call EXCEPT !.pc = "plan", !.planned = c_service.id,
                                 !.actions = c_service.field["recovery"]]
             /\ UNCHANGED c_service
             /\ UNCHANGED <<canceled, c_past>>
    BY <1>0, <2>0, <2>1, FieldsHave DEF Held, Configured, Wrote, Reported, Configuration!Steps, Places
  <2>2. CASE /\ c_call' = Configuration!Told(c_call, TRUE)
             /\ c_service' = [c_service EXCEPT !.handles = {}]
             /\ UNCHANGED <<canceled, c_past>>
    <3>0. Reported(c_call, c_call') /\ c_call'.accepted = (c_call.applied # {})
          /\ c_call'.outcome = IF c_call.applied = {} THEN "failed" ELSE "partial"
      BY <1>0, <2>2, ReportToldIs
    <3> QED BY <1>0, <2>0, <2>2, <3>0, FieldsHave DEF Held, Configured, Wrote, Reported, Configuration!Steps, Places
  <2> QED BY <1>4, <2>1, <2>2 DEF Configuration!Snapshot, Configuration!Handle
<1>5. CASE Configuration!Plan
  <2>0. /\ c_call.pc = "plan"
    BY <1>5 DEF Configuration!Plan, Configuration!PlanIt, Configuration!Early, Configuration!Handle, Configuration!Go
  <2>1. CASE /\ c_call' = [c_call EXCEPT !.pc = "reopen"]
             /\ UNCHANGED c_service
             /\ UNCHANGED <<canceled, c_past>>
    BY <1>0, <2>0, <2>1, FieldsHave DEF Held, Configured, Wrote, Reported, Configuration!Steps, Places
  <2>2. CASE /\ c_call' = Configuration!Refused
             /\ UNCHANGED <<canceled, c_past>>
             /\ c_service' = [c_service EXCEPT !.handles = {}]
    <3>0. Reported(c_call, c_call') /\ c_call'.accepted = c_call.accepted
          /\ c_call'.outcome \in {"failed", "interrupted"}
      BY <1>0, <2>2, RefusedIs
    <3> QED BY <1>0, <2>0, <2>2, <3>0, FieldsHave DEF Held, Configured, Wrote, Reported, Configuration!Steps, Places
  <2> QED BY <1>5, <2>1, <2>2 DEF Configuration!Plan, Configuration!PlanIt, Configuration!Early, Configuration!Handle, Configuration!Go
<1>6. CASE Configuration!Reopen
  <2>0. /\ c_call.pc = "reopen"
    BY <1>6 DEF Configuration!Reopen, Configuration!Handle
  <2>1. CASE /\ c_service.life # "absent"
             /\ c_service' = [c_service EXCEPT !.handles = {"write"}]
             /\ c_call' = [c_call EXCEPT !.pc = "step", !.todo = Configuration!Steps(TRUE)]
             /\ UNCHANGED <<canceled, c_past>>
    BY <1>0, <2>0, <2>1, FieldsHave DEF Held, Configured, Wrote, Reported, Configuration!Steps, Places
  <2>2. CASE /\ c_call' = Configuration!Told(c_call, TRUE)
             /\ c_service' = [c_service EXCEPT !.handles = {}]
             /\ UNCHANGED <<canceled, c_past>>
    <3>0. Reported(c_call, c_call') /\ c_call'.accepted = (c_call.applied # {})
          /\ c_call'.outcome = IF c_call.applied = {} THEN "failed" ELSE "partial"
      BY <1>0, <2>2, ReportToldIs
    <3> QED BY <1>0, <2>0, <2>2, <3>0, FieldsHave DEF Held, Configured, Wrote, Reported, Configuration!Steps, Places
  <2> QED BY <1>6, <2>1, <2>2 DEF Configuration!Reopen, Configuration!Handle
<1>7. CASE Configuration!SetStartup
  <2>0. /\ c_call.pc = "open"
        /\ c_call.operation = "set_startup"
    BY <1>7 DEF Configuration!SetStartup, Configuration!Early, Configuration!Handle, Configuration!Go
  <2>1. CASE /\ c_service.life # "absent"
             /\ c_service' = [c_service EXCEPT !.handles = {"write"}]
             /\ c_call' = [c_call EXCEPT !.pc = "set"]
             /\ UNCHANGED <<canceled, c_past>>
    BY <1>0, <2>0, <2>1, FieldsHave DEF Held, Configured, Wrote, Reported, Configuration!Steps, Places
  <2>2. CASE /\ c_call' = Configuration!Refused
             /\ UNCHANGED <<canceled, c_past>>
             /\ UNCHANGED c_service
    <3>0. Reported(c_call, c_call') /\ c_call'.accepted = c_call.accepted
          /\ c_call'.outcome \in {"failed", "interrupted"}
      BY <1>0, <2>2, RefusedIs
    <3> QED BY <1>0, <2>0, <2>2, <3>0, FieldsHave DEF Held, Configured, Wrote, Reported, Configuration!Steps, Places
  <2> QED BY <1>7, <2>1, <2>2 DEF Configuration!SetStartup, Configuration!Early, Configuration!Handle, Configuration!Go
<1>8. CASE Configuration!SetStartType
  <2>0. /\ c_call.pc = "set"
    BY <1>8 DEF Configuration!SetStartType, Configuration!Early, Configuration!Handle
  <2>1. CASE /\ c_service.life = "present"
             /\ c_service' = [c_service EXCEPT !.field["basic"] = "ours", !.handles = {}]
             /\ c_past' = [c_past EXCEPT !.changed = {"basic"}, !.of = {c_service.id}]
             /\ c_call' = Configuration!Told([c_call EXCEPT !.applied = {"basic"}], FALSE)
             /\ UNCHANGED canceled
    <3>9. [c_call EXCEPT !.applied = {"basic"}] \in Configured /\ [c_call EXCEPT !.applied = {"basic"}].applied = {"basic"}
          /\ [c_call EXCEPT !.applied = {"basic"}].operation = c_call.operation /\ [c_call EXCEPT !.applied = {"basic"}].wish = c_call.wish
          /\ [c_call EXCEPT !.applied = {"basic"}].planned = c_call.planned
      BY <1>0, FieldsHave DEF Configured
    <3>0. Reported([c_call EXCEPT !.applied = {"basic"}], c_call')
          /\ c_call'.accepted /\ c_call'.outcome = "applied"
      BY <2>1, <3>9, ReportToldIs
    <3> QED BY <1>0, <2>0, <2>1, <3>0, <3>9, FieldsHave DEF Held, Configured, Wrote, Reported, Configuration!Steps, Places
  <2>2. CASE /\ c_call' = Configuration!Refused
             /\ UNCHANGED <<canceled, c_past>>
             /\ c_service' = [c_service EXCEPT !.handles = {}]
    <3>0. Reported(c_call, c_call') /\ c_call'.accepted = c_call.accepted
          /\ c_call'.outcome \in {"failed", "interrupted"}
      BY <1>0, <2>2, RefusedIs
    <3> QED BY <1>0, <2>0, <2>2, <3>0, FieldsHave DEF Held, Configured, Wrote, Reported, Configuration!Steps, Places
  <2> QED BY <1>8, <2>1, <2>2 DEF Configuration!SetStartType, Configuration!Early, Configuration!Handle
<1>9. CASE Configuration!Apply
  <2>0. /\ c_call.pc = "step"
        /\ c_service.life = "present"
    BY <1>9 DEF Configuration!Apply
  <2>1. PICK f \in c_call.todo :
           /\ c_service' = [c_service EXCEPT !.field[f] = Configuration!Written(f)]
           /\ c_call' = [c_call EXCEPT !.todo = @ \ {f}, !.applied = @ \cup {f}]
           /\ c_past' = [c_past EXCEPT !.changed = @ \cup {f}, !.of = @ \cup {c_service.id}]
           /\ UNCHANGED canceled
    BY <1>9 DEF Configuration!Apply
  <2> QED BY <1>0, <2>0, <2>1, FieldsHave DEF Held, Configured, Wrote, Reported, Configuration!Steps, Places
<1>10. CASE Configuration!Stop
  <2>0. /\ c_call.pc = "step"
    BY <1>10 DEF Configuration!Stop, Configuration!Handle
  <2>1. /\ c_call' = Configuration!Told(c_call, TRUE)
        /\ c_service' = [c_service EXCEPT !.handles = {}]
        /\ UNCHANGED <<canceled, c_past>>
    BY <1>10 DEF Configuration!Stop, Configuration!Handle
  <2>5. Reported(c_call, c_call') /\ c_call'.accepted = (c_call.applied # {})
        /\ c_call'.outcome = IF c_call.applied = {} THEN "failed" ELSE "partial"
    BY <1>0, <2>1, ReportToldIs
  <2> QED BY <1>0, <2>0, <2>1, <2>5, FieldsHave DEF Held, Configured, Wrote, Reported, Configuration!Steps, Places
<1>11. CASE Configuration!Complete
  <2>0. /\ c_call.pc = "step"
        /\ c_call.todo = {}
    BY <1>11 DEF Configuration!Complete, Configuration!Handle
  <2>1. /\ c_call' = Configuration!Told(c_call, FALSE)
        /\ c_service' = [c_service EXCEPT !.handles = {}]
        /\ UNCHANGED <<canceled, c_past>>
    BY <1>11 DEF Configuration!Complete, Configuration!Handle
  <2>5. Reported(c_call, c_call') /\ c_call'.accepted = (c_call.applied # {})
        /\ c_call'.outcome = "applied"
    BY <1>0, <2>1, ReportToldIs
  <2> QED BY <1>0, <2>0, <2>1, <2>5, FieldsHave DEF Held, Configured, Wrote, Reported, Configuration!Steps, Places
<1>12. CASE Configuration!OutsideConfigures
  <2>0. /\ c_call.pc # "done"
        /\ c_service.life = "present"
    BY <1>12 DEF Configuration!OutsideConfigures, Configuration!Outside
  <2>1. PICK f \in Configuration!Fields :
           /\ c_service' = [c_service EXCEPT !.field[f] = "others"]
           /\ c_past' = [c_past EXCEPT !.outside = @ + 1]
           /\ UNCHANGED <<c_call, canceled>>
    BY <1>12 DEF Configuration!OutsideConfigures, Configuration!Outside
  <2> QED BY <1>0, <2>0, <2>1, FieldsHave DEF Held, Configured, Wrote, Reported, Configuration!Steps, Places
<1>13. CASE Configuration!OutsideDeletes
  <2>0. /\ c_call.pc # "done"
        /\ c_service.life = "present"
    BY <1>13 DEF Configuration!OutsideDeletes, Configuration!Outside
  <2>1. PICK life \in {"absent", "marked"} :
           /\ c_service' = [c_service EXCEPT !.life = life]
           /\ life = "absent" => c_service.handles = {}
           /\ c_past' = [c_past EXCEPT !.outside = @ + 1]
           /\ UNCHANGED <<c_call, canceled>>
    BY <1>13 DEF Configuration!OutsideDeletes, Configuration!Outside
  <2> QED BY <1>0, <2>0, <2>1, FieldsHave DEF Held, Configured, Wrote, Reported, Configuration!Steps, Places
<1>14. CASE Configuration!Vanish
  <2>0. /\ c_service.life = "marked"
        /\ c_service.handles = {}
    BY <1>14 DEF Configuration!Vanish
  <2>1. /\ c_service' = [c_service EXCEPT !.life = "absent"]
        /\ UNCHANGED <<c_call, canceled, c_past>>
    BY <1>14 DEF Configuration!Vanish
  <2> QED BY <1>0, <2>0, <2>1, FieldsHave DEF Held, Configured, Wrote, Reported, Configuration!Steps, Places
<1>15. CASE Configuration!OutsideCreates
  <2>0. /\ c_call.pc # "done"
        /\ c_service.life = "absent"
    BY <1>15 DEF Configuration!OutsideCreates, Configuration!Outside
  <2>1. /\ c_service' = [c_service EXCEPT !.id = @ + 1, !.life = "present",
                                       !.field = [f \in Configuration!Fields |-> "others"]]
        /\ c_past' = [c_past EXCEPT !.outside = @ + 1]
        /\ UNCHANGED <<c_call, canceled>>
    BY <1>15 DEF Configuration!OutsideCreates, Configuration!Outside
  <2> QED BY <1>0, <2>0, <2>1, FieldsHave DEF Held, Configured, Wrote, Reported, Configuration!Steps, Places
<1>16. CASE Configuration!Cancel
  <2>0. /\ c_call.pc # "done"
    BY <1>16 DEF Configuration!Cancel
  <2>1. /\ canceled' \in BOOLEAN
        /\ UNCHANGED <<c_service, c_call, c_past>>
    BY <1>16 DEF Configuration!Cancel
  <2> QED BY <1>0, <2>0, <2>1, FieldsHave DEF Held, Configured, Wrote, Reported, Configuration!Steps, Places
<1> QED BY <1>1, <1>2, <1>3, <1>4, <1>5, <1>6, <1>7, <1>8, <1>9, <1>10, <1>11, <1>12, <1>13,
  <1>14, <1>15, <1>16 DEF ConfigSteps, Configuration!Next

\* The service that was planned for is the one that is written.
LEMMA PinnedStep ==
    ASSUME ConfigInv, ConfigSteps
    PROVE  Pinned'
<1>0. /\ c_service \in Held /\ c_call \in Configured /\ c_past \in Wrote /\ canceled \in BOOLEAN
      /\ ConfigTyped /\ Places /\ Pinned /\ Counted
  BY DEF ConfigInv, ConfigTyped
<1>1. CASE UNCHANGED Configuration!vars
  BY <1>0, <1>1 DEF Configuration!vars, Places, Pinned, Counted
<1>2. CASE Configuration!Create
  <2>0. /\ c_call.pc = "open"
        /\ c_call.operation = "create"
    BY <1>2 DEF Configuration!Create, Configuration!Early
  <2>1. CASE /\ c_service.life = "absent"
             /\ c_service' = [c_service EXCEPT !.id = @ + 1, !.life = "present", !.handles = {"write"},
                                       !.field = [f \in Configuration!Fields |-> IF f = "basic" THEN "ours" ELSE "old"]]
             /\ c_call' = [c_call EXCEPT !.pc = "step", !.planned = c_service.id + 1,
                                 !.todo = Configuration!Steps(FALSE), !.applied = {"create"}]
             /\ c_past' = [c_past EXCEPT !.changed = {"create"}, !.of = {c_service.id + 1}]
             /\ UNCHANGED canceled
    BY <1>0, <2>0, <2>1, FieldsHave DEF Held, Configured, Wrote, Reported, Configuration!Steps, Places, Pinned, Counted
  <2>2. CASE /\ c_call' = Configuration!Refused
             /\ UNCHANGED <<canceled, c_past>>
             /\ UNCHANGED c_service
    <3>0. Reported(c_call, c_call') /\ c_call'.accepted = c_call.accepted
          /\ c_call'.outcome \in {"failed", "interrupted"}
      BY <1>0, <2>2, RefusedIs
    <3> QED BY <1>0, <2>0, <2>2, <3>0, FieldsHave DEF Held, Configured, Wrote, Reported, Configuration!Steps, Places, Pinned, Counted
  <2> QED BY <1>2, <2>1, <2>2 DEF Configuration!Create, Configuration!Early
<1>3. CASE Configuration!OpenReader
  <2>0. /\ c_call.pc = "open"
        /\ c_call.operation = "configure"
    BY <1>3 DEF Configuration!OpenReader, Configuration!Early, Configuration!Handle, Configuration!Go
  <2>1. CASE /\ c_service.life # "absent"
             /\ c_service' = [c_service EXCEPT !.handles = {"read"}]
             /\ c_call' = [c_call EXCEPT !.pc = "snapshot"]
             /\ UNCHANGED <<canceled, c_past>>
    BY <1>0, <2>0, <2>1, FieldsHave DEF Held, Configured, Wrote, Reported, Configuration!Steps, Places, Pinned, Counted
  <2>2. CASE /\ c_call' = Configuration!Refused
             /\ UNCHANGED <<canceled, c_past>>
             /\ UNCHANGED c_service
    <3>0. Reported(c_call, c_call') /\ c_call'.accepted = c_call.accepted
          /\ c_call'.outcome \in {"failed", "interrupted"}
      BY <1>0, <2>2, RefusedIs
    <3> QED BY <1>0, <2>0, <2>2, <3>0, FieldsHave DEF Held, Configured, Wrote, Reported, Configuration!Steps, Places, Pinned, Counted
  <2> QED BY <1>3, <2>1, <2>2 DEF Configuration!OpenReader, Configuration!Early, Configuration!Handle, Configuration!Go
<1>4. CASE Configuration!Snapshot
  <2>0. /\ c_call.pc = "snapshot"
    BY <1>4 DEF Configuration!Snapshot, Configuration!Handle
  <2>1. CASE /\ c_call' = [c_call EXCEPT !.pc = "plan", !.planned = c_service.id,
                                 !.actions = c_service.field["recovery"]]
             /\ UNCHANGED c_service
             /\ UNCHANGED <<canceled, c_past>>
    BY <1>0, <2>0, <2>1, FieldsHave DEF Held, Configured, Wrote, Reported, Configuration!Steps, Places, Pinned, Counted
  <2>2. CASE /\ c_call' = Configuration!Told(c_call, TRUE)
             /\ c_service' = [c_service EXCEPT !.handles = {}]
             /\ UNCHANGED <<canceled, c_past>>
    <3>0. Reported(c_call, c_call') /\ c_call'.accepted = (c_call.applied # {})
          /\ c_call'.outcome = IF c_call.applied = {} THEN "failed" ELSE "partial"
      BY <1>0, <2>2, ReportToldIs
    <3> QED BY <1>0, <2>0, <2>2, <3>0, FieldsHave DEF Held, Configured, Wrote, Reported, Configuration!Steps, Places, Pinned, Counted
  <2> QED BY <1>4, <2>1, <2>2 DEF Configuration!Snapshot, Configuration!Handle
<1>5. CASE Configuration!Plan
  <2>0. /\ c_call.pc = "plan"
    BY <1>5 DEF Configuration!Plan, Configuration!PlanIt, Configuration!Early, Configuration!Handle, Configuration!Go
  <2>1. CASE /\ c_call' = [c_call EXCEPT !.pc = "reopen"]
             /\ UNCHANGED c_service
             /\ UNCHANGED <<canceled, c_past>>
    BY <1>0, <2>0, <2>1, FieldsHave DEF Held, Configured, Wrote, Reported, Configuration!Steps, Places, Pinned, Counted
  <2>2. CASE /\ c_call' = Configuration!Refused
             /\ UNCHANGED <<canceled, c_past>>
             /\ c_service' = [c_service EXCEPT !.handles = {}]
    <3>0. Reported(c_call, c_call') /\ c_call'.accepted = c_call.accepted
          /\ c_call'.outcome \in {"failed", "interrupted"}
      BY <1>0, <2>2, RefusedIs
    <3> QED BY <1>0, <2>0, <2>2, <3>0, FieldsHave DEF Held, Configured, Wrote, Reported, Configuration!Steps, Places, Pinned, Counted
  <2> QED BY <1>5, <2>1, <2>2 DEF Configuration!Plan, Configuration!PlanIt, Configuration!Early, Configuration!Handle, Configuration!Go
<1>6. CASE Configuration!Reopen
  <2>0. /\ c_call.pc = "reopen"
    BY <1>6 DEF Configuration!Reopen, Configuration!Handle
  <2>1. CASE /\ c_service.life # "absent"
             /\ c_service' = [c_service EXCEPT !.handles = {"write"}]
             /\ c_call' = [c_call EXCEPT !.pc = "step", !.todo = Configuration!Steps(TRUE)]
             /\ UNCHANGED <<canceled, c_past>>
    BY <1>0, <2>0, <2>1, FieldsHave DEF Held, Configured, Wrote, Reported, Configuration!Steps, Places, Pinned, Counted
  <2>2. CASE /\ c_call' = Configuration!Told(c_call, TRUE)
             /\ c_service' = [c_service EXCEPT !.handles = {}]
             /\ UNCHANGED <<canceled, c_past>>
    <3>0. Reported(c_call, c_call') /\ c_call'.accepted = (c_call.applied # {})
          /\ c_call'.outcome = IF c_call.applied = {} THEN "failed" ELSE "partial"
      BY <1>0, <2>2, ReportToldIs
    <3> QED BY <1>0, <2>0, <2>2, <3>0, FieldsHave DEF Held, Configured, Wrote, Reported, Configuration!Steps, Places, Pinned, Counted
  <2> QED BY <1>6, <2>1, <2>2 DEF Configuration!Reopen, Configuration!Handle
<1>7. CASE Configuration!SetStartup
  <2>0. /\ c_call.pc = "open"
        /\ c_call.operation = "set_startup"
    BY <1>7 DEF Configuration!SetStartup, Configuration!Early, Configuration!Handle, Configuration!Go
  <2>1. CASE /\ c_service.life # "absent"
             /\ c_service' = [c_service EXCEPT !.handles = {"write"}]
             /\ c_call' = [c_call EXCEPT !.pc = "set"]
             /\ UNCHANGED <<canceled, c_past>>
    BY <1>0, <2>0, <2>1, FieldsHave DEF Held, Configured, Wrote, Reported, Configuration!Steps, Places, Pinned, Counted
  <2>2. CASE /\ c_call' = Configuration!Refused
             /\ UNCHANGED <<canceled, c_past>>
             /\ UNCHANGED c_service
    <3>0. Reported(c_call, c_call') /\ c_call'.accepted = c_call.accepted
          /\ c_call'.outcome \in {"failed", "interrupted"}
      BY <1>0, <2>2, RefusedIs
    <3> QED BY <1>0, <2>0, <2>2, <3>0, FieldsHave DEF Held, Configured, Wrote, Reported, Configuration!Steps, Places, Pinned, Counted
  <2> QED BY <1>7, <2>1, <2>2 DEF Configuration!SetStartup, Configuration!Early, Configuration!Handle, Configuration!Go
<1>8. CASE Configuration!SetStartType
  <2>0. /\ c_call.pc = "set"
    BY <1>8 DEF Configuration!SetStartType, Configuration!Early, Configuration!Handle
  <2>1. CASE /\ c_service.life = "present"
             /\ c_service' = [c_service EXCEPT !.field["basic"] = "ours", !.handles = {}]
             /\ c_past' = [c_past EXCEPT !.changed = {"basic"}, !.of = {c_service.id}]
             /\ c_call' = Configuration!Told([c_call EXCEPT !.applied = {"basic"}], FALSE)
             /\ UNCHANGED canceled
    <3>9. [c_call EXCEPT !.applied = {"basic"}] \in Configured /\ [c_call EXCEPT !.applied = {"basic"}].applied = {"basic"}
          /\ [c_call EXCEPT !.applied = {"basic"}].operation = c_call.operation /\ [c_call EXCEPT !.applied = {"basic"}].wish = c_call.wish
          /\ [c_call EXCEPT !.applied = {"basic"}].planned = c_call.planned
      BY <1>0, FieldsHave DEF Configured
    <3>0. Reported([c_call EXCEPT !.applied = {"basic"}], c_call')
          /\ c_call'.accepted /\ c_call'.outcome = "applied"
      BY <2>1, <3>9, ReportToldIs
    <3> QED BY <1>0, <2>0, <2>1, <3>0, <3>9, FieldsHave DEF Held, Configured, Wrote, Reported, Configuration!Steps, Places, Pinned, Counted
  <2>2. CASE /\ c_call' = Configuration!Refused
             /\ UNCHANGED <<canceled, c_past>>
             /\ c_service' = [c_service EXCEPT !.handles = {}]
    <3>0. Reported(c_call, c_call') /\ c_call'.accepted = c_call.accepted
          /\ c_call'.outcome \in {"failed", "interrupted"}
      BY <1>0, <2>2, RefusedIs
    <3> QED BY <1>0, <2>0, <2>2, <3>0, FieldsHave DEF Held, Configured, Wrote, Reported, Configuration!Steps, Places, Pinned, Counted
  <2> QED BY <1>8, <2>1, <2>2 DEF Configuration!SetStartType, Configuration!Early, Configuration!Handle
<1>9. CASE Configuration!Apply
  <2>0. /\ c_call.pc = "step"
        /\ c_service.life = "present"
    BY <1>9 DEF Configuration!Apply
  <2>1. PICK f \in c_call.todo :
           /\ c_service' = [c_service EXCEPT !.field[f] = Configuration!Written(f)]
           /\ c_call' = [c_call EXCEPT !.todo = @ \ {f}, !.applied = @ \cup {f}]
           /\ c_past' = [c_past EXCEPT !.changed = @ \cup {f}, !.of = @ \cup {c_service.id}]
           /\ UNCHANGED canceled
    BY <1>9 DEF Configuration!Apply
  <2> QED BY <1>0, <2>0, <2>1, FieldsHave DEF Held, Configured, Wrote, Reported, Configuration!Steps, Places, Pinned, Counted
<1>10. CASE Configuration!Stop
  <2>0. /\ c_call.pc = "step"
    BY <1>10 DEF Configuration!Stop, Configuration!Handle
  <2>1. /\ c_call' = Configuration!Told(c_call, TRUE)
        /\ c_service' = [c_service EXCEPT !.handles = {}]
        /\ UNCHANGED <<canceled, c_past>>
    BY <1>10 DEF Configuration!Stop, Configuration!Handle
  <2>5. Reported(c_call, c_call') /\ c_call'.accepted = (c_call.applied # {})
        /\ c_call'.outcome = IF c_call.applied = {} THEN "failed" ELSE "partial"
    BY <1>0, <2>1, ReportToldIs
  <2> QED BY <1>0, <2>0, <2>1, <2>5, FieldsHave DEF Held, Configured, Wrote, Reported, Configuration!Steps, Places, Pinned, Counted
<1>11. CASE Configuration!Complete
  <2>0. /\ c_call.pc = "step"
        /\ c_call.todo = {}
    BY <1>11 DEF Configuration!Complete, Configuration!Handle
  <2>1. /\ c_call' = Configuration!Told(c_call, FALSE)
        /\ c_service' = [c_service EXCEPT !.handles = {}]
        /\ UNCHANGED <<canceled, c_past>>
    BY <1>11 DEF Configuration!Complete, Configuration!Handle
  <2>5. Reported(c_call, c_call') /\ c_call'.accepted = (c_call.applied # {})
        /\ c_call'.outcome = "applied"
    BY <1>0, <2>1, ReportToldIs
  <2> QED BY <1>0, <2>0, <2>1, <2>5, FieldsHave DEF Held, Configured, Wrote, Reported, Configuration!Steps, Places, Pinned, Counted
<1>12. CASE Configuration!OutsideConfigures
  <2>0. /\ c_call.pc # "done"
        /\ c_service.life = "present"
    BY <1>12 DEF Configuration!OutsideConfigures, Configuration!Outside
  <2>1. PICK f \in Configuration!Fields :
           /\ c_service' = [c_service EXCEPT !.field[f] = "others"]
           /\ c_past' = [c_past EXCEPT !.outside = @ + 1]
           /\ UNCHANGED <<c_call, canceled>>
    BY <1>12 DEF Configuration!OutsideConfigures, Configuration!Outside
  <2> QED BY <1>0, <2>0, <2>1, FieldsHave DEF Held, Configured, Wrote, Reported, Configuration!Steps, Places, Pinned, Counted
<1>13. CASE Configuration!OutsideDeletes
  <2>0. /\ c_call.pc # "done"
        /\ c_service.life = "present"
    BY <1>13 DEF Configuration!OutsideDeletes, Configuration!Outside
  <2>1. PICK life \in {"absent", "marked"} :
           /\ c_service' = [c_service EXCEPT !.life = life]
           /\ life = "absent" => c_service.handles = {}
           /\ c_past' = [c_past EXCEPT !.outside = @ + 1]
           /\ UNCHANGED <<c_call, canceled>>
    BY <1>13 DEF Configuration!OutsideDeletes, Configuration!Outside
  <2> QED BY <1>0, <2>0, <2>1, FieldsHave DEF Held, Configured, Wrote, Reported, Configuration!Steps, Places, Pinned, Counted
<1>14. CASE Configuration!Vanish
  <2>0. /\ c_service.life = "marked"
        /\ c_service.handles = {}
    BY <1>14 DEF Configuration!Vanish
  <2>1. /\ c_service' = [c_service EXCEPT !.life = "absent"]
        /\ UNCHANGED <<c_call, canceled, c_past>>
    BY <1>14 DEF Configuration!Vanish
  <2> QED BY <1>0, <2>0, <2>1, FieldsHave DEF Held, Configured, Wrote, Reported, Configuration!Steps, Places, Pinned, Counted
<1>15. CASE Configuration!OutsideCreates
  <2>0. /\ c_call.pc # "done"
        /\ c_service.life = "absent"
    BY <1>15 DEF Configuration!OutsideCreates, Configuration!Outside
  <2>1. /\ c_service' = [c_service EXCEPT !.id = @ + 1, !.life = "present",
                                       !.field = [f \in Configuration!Fields |-> "others"]]
        /\ c_past' = [c_past EXCEPT !.outside = @ + 1]
        /\ UNCHANGED <<c_call, canceled>>
    BY <1>15 DEF Configuration!OutsideCreates, Configuration!Outside
  <2> QED BY <1>0, <2>0, <2>1, FieldsHave DEF Held, Configured, Wrote, Reported, Configuration!Steps, Places, Pinned, Counted
<1>16. CASE Configuration!Cancel
  <2>0. /\ c_call.pc # "done"
    BY <1>16 DEF Configuration!Cancel
  <2>1. /\ canceled' \in BOOLEAN
        /\ UNCHANGED <<c_service, c_call, c_past>>
    BY <1>16 DEF Configuration!Cancel
  <2> QED BY <1>0, <2>0, <2>1, FieldsHave DEF Held, Configured, Wrote, Reported, Configuration!Steps, Places, Pinned, Counted
<1> QED BY <1>1, <1>2, <1>3, <1>4, <1>5, <1>6, <1>7, <1>8, <1>9, <1>10, <1>11, <1>12, <1>13,
  <1>14, <1>15, <1>16 DEF ConfigSteps, Configuration!Next

\* What is counted is what is changed.
LEMMA CountedStep ==
    ASSUME ConfigInv, ConfigSteps
    PROVE  Counted'
<1>0. /\ c_service \in Held /\ c_call \in Configured /\ c_past \in Wrote /\ canceled \in BOOLEAN
      /\ ConfigTyped /\ Places /\ Pinned /\ Counted
  BY DEF ConfigInv, ConfigTyped
<1>1. CASE UNCHANGED Configuration!vars
  BY <1>0, <1>1 DEF Configuration!vars, Places, Counted, Configuration!ChangesAreTold
<1>2. CASE Configuration!Create
  <2>0. /\ c_call.pc = "open"
        /\ c_call.operation = "create"
    BY <1>2 DEF Configuration!Create, Configuration!Early
  <2>1. CASE /\ c_service.life = "absent"
             /\ c_service' = [c_service EXCEPT !.id = @ + 1, !.life = "present", !.handles = {"write"},
                                       !.field = [f \in Configuration!Fields |-> IF f = "basic" THEN "ours" ELSE "old"]]
             /\ c_call' = [c_call EXCEPT !.pc = "step", !.planned = c_service.id + 1,
                                 !.todo = Configuration!Steps(FALSE), !.applied = {"create"}]
             /\ c_past' = [c_past EXCEPT !.changed = {"create"}, !.of = {c_service.id + 1}]
             /\ UNCHANGED canceled
    BY <1>0, <2>0, <2>1, FieldsHave DEF Held, Configured, Wrote, Reported, Configuration!Steps, Places, Counted,
        Configuration!ChangesAreTold
  <2>2. CASE /\ c_call' = Configuration!Refused
             /\ UNCHANGED <<canceled, c_past>>
             /\ UNCHANGED c_service
    <3>0. Reported(c_call, c_call') /\ c_call'.accepted = c_call.accepted
          /\ c_call'.outcome \in {"failed", "interrupted"}
      BY <1>0, <2>2, RefusedIs
    <3> QED BY <1>0, <2>0, <2>2, <3>0, FieldsHave DEF Held, Configured, Wrote, Reported, Configuration!Steps, Places, Counted,
        Configuration!ChangesAreTold
  <2> QED BY <1>2, <2>1, <2>2 DEF Configuration!Create, Configuration!Early
<1>3. CASE Configuration!OpenReader
  <2>0. /\ c_call.pc = "open"
        /\ c_call.operation = "configure"
    BY <1>3 DEF Configuration!OpenReader, Configuration!Early, Configuration!Handle, Configuration!Go
  <2>1. CASE /\ c_service.life # "absent"
             /\ c_service' = [c_service EXCEPT !.handles = {"read"}]
             /\ c_call' = [c_call EXCEPT !.pc = "snapshot"]
             /\ UNCHANGED <<canceled, c_past>>
    BY <1>0, <2>0, <2>1, FieldsHave DEF Held, Configured, Wrote, Reported, Configuration!Steps, Places, Counted,
        Configuration!ChangesAreTold
  <2>2. CASE /\ c_call' = Configuration!Refused
             /\ UNCHANGED <<canceled, c_past>>
             /\ UNCHANGED c_service
    <3>0. Reported(c_call, c_call') /\ c_call'.accepted = c_call.accepted
          /\ c_call'.outcome \in {"failed", "interrupted"}
      BY <1>0, <2>2, RefusedIs
    <3> QED BY <1>0, <2>0, <2>2, <3>0, FieldsHave DEF Held, Configured, Wrote, Reported, Configuration!Steps, Places, Counted,
        Configuration!ChangesAreTold
  <2> QED BY <1>3, <2>1, <2>2 DEF Configuration!OpenReader, Configuration!Early, Configuration!Handle, Configuration!Go
<1>4. CASE Configuration!Snapshot
  <2>0. /\ c_call.pc = "snapshot"
    BY <1>4 DEF Configuration!Snapshot, Configuration!Handle
  <2>1. CASE /\ c_call' = [c_call EXCEPT !.pc = "plan", !.planned = c_service.id,
                                 !.actions = c_service.field["recovery"]]
             /\ UNCHANGED c_service
             /\ UNCHANGED <<canceled, c_past>>
    BY <1>0, <2>0, <2>1, FieldsHave DEF Held, Configured, Wrote, Reported, Configuration!Steps, Places, Counted,
        Configuration!ChangesAreTold
  <2>2. CASE /\ c_call' = Configuration!Told(c_call, TRUE)
             /\ c_service' = [c_service EXCEPT !.handles = {}]
             /\ UNCHANGED <<canceled, c_past>>
    <3>0. Reported(c_call, c_call') /\ c_call'.accepted = (c_call.applied # {})
          /\ c_call'.outcome = IF c_call.applied = {} THEN "failed" ELSE "partial"
      BY <1>0, <2>2, ReportToldIs
    <3> QED BY ZenonT(60), <1>0, <2>0, <2>2, <3>0, FieldsHave DEF Held, Configured, Wrote, Reported, Configuration!Steps, Places, Counted,
        Configuration!ChangesAreTold
  <2> QED BY <1>4, <2>1, <2>2 DEF Configuration!Snapshot, Configuration!Handle
<1>5. CASE Configuration!Plan
  <2>0. /\ c_call.pc = "plan"
    BY <1>5 DEF Configuration!Plan, Configuration!PlanIt, Configuration!Early, Configuration!Handle, Configuration!Go
  <2>1. CASE /\ c_call' = [c_call EXCEPT !.pc = "reopen"]
             /\ UNCHANGED c_service
             /\ UNCHANGED <<canceled, c_past>>
    BY <1>0, <2>0, <2>1, FieldsHave DEF Held, Configured, Wrote, Reported, Configuration!Steps, Places, Counted,
        Configuration!ChangesAreTold
  <2>2. CASE /\ c_call' = Configuration!Refused
             /\ UNCHANGED <<canceled, c_past>>
             /\ c_service' = [c_service EXCEPT !.handles = {}]
    <3>0. Reported(c_call, c_call') /\ c_call'.accepted = c_call.accepted
          /\ c_call'.outcome \in {"failed", "interrupted"}
      BY <1>0, <2>2, RefusedIs
    <3> QED BY <1>0, <2>0, <2>2, <3>0, FieldsHave DEF Held, Configured, Wrote, Reported, Configuration!Steps, Places, Counted,
        Configuration!ChangesAreTold
  <2> QED BY <1>5, <2>1, <2>2 DEF Configuration!Plan, Configuration!PlanIt, Configuration!Early, Configuration!Handle, Configuration!Go
<1>6. CASE Configuration!Reopen
  <2>0. /\ c_call.pc = "reopen"
    BY <1>6 DEF Configuration!Reopen, Configuration!Handle
  <2>1. CASE /\ c_service.life # "absent"
             /\ c_service' = [c_service EXCEPT !.handles = {"write"}]
             /\ c_call' = [c_call EXCEPT !.pc = "step", !.todo = Configuration!Steps(TRUE)]
             /\ UNCHANGED <<canceled, c_past>>
    <3>0. c_call.wish # {}
      BY <1>0 DEF Configured
    <3>a. Configuration!Steps(TRUE) = c_call.wish \ {}
      BY DEF Configuration!Steps
    <3>1. Configuration!Steps(TRUE) = c_call.wish
      BY <3>a
    <3>2. c_call' = [c_call EXCEPT !.pc = "step", !.todo = c_call.wish]
      BY <2>1, <3>1
    <3> QED BY <1>0, <2>0, <2>1, <3>0, <3>1, <3>2
        DEF Held, Configured, Wrote, Places, Counted, Configuration!ChangesAreTold
  <2>2. CASE /\ c_call' = Configuration!Told(c_call, TRUE)
             /\ c_service' = [c_service EXCEPT !.handles = {}]
             /\ UNCHANGED <<canceled, c_past>>
    <3>0. Reported(c_call, c_call') /\ c_call'.accepted = (c_call.applied # {})
          /\ c_call'.outcome = IF c_call.applied = {} THEN "failed" ELSE "partial"
      BY <1>0, <2>2, ReportToldIs
    <3> QED BY ZenonT(60), <1>0, <2>0, <2>2, <3>0, FieldsHave DEF Held, Configured, Wrote, Reported, Configuration!Steps, Places, Counted,
        Configuration!ChangesAreTold
  <2> QED BY <1>6, <2>1, <2>2 DEF Configuration!Reopen, Configuration!Handle
<1>7. CASE Configuration!SetStartup
  <2>0. /\ c_call.pc = "open"
        /\ c_call.operation = "set_startup"
    BY <1>7 DEF Configuration!SetStartup, Configuration!Early, Configuration!Handle, Configuration!Go
  <2>1. CASE /\ c_service.life # "absent"
             /\ c_service' = [c_service EXCEPT !.handles = {"write"}]
             /\ c_call' = [c_call EXCEPT !.pc = "set"]
             /\ UNCHANGED <<canceled, c_past>>
    BY <1>0, <2>0, <2>1, FieldsHave DEF Held, Configured, Wrote, Reported, Configuration!Steps, Places, Counted,
        Configuration!ChangesAreTold
  <2>2. CASE /\ c_call' = Configuration!Refused
             /\ UNCHANGED <<canceled, c_past>>
             /\ UNCHANGED c_service
    <3>0. Reported(c_call, c_call') /\ c_call'.accepted = c_call.accepted
          /\ c_call'.outcome \in {"failed", "interrupted"}
      BY <1>0, <2>2, RefusedIs
    <3> QED BY <1>0, <2>0, <2>2, <3>0, FieldsHave DEF Held, Configured, Wrote, Reported, Configuration!Steps, Places, Counted,
        Configuration!ChangesAreTold
  <2> QED BY <1>7, <2>1, <2>2 DEF Configuration!SetStartup, Configuration!Early, Configuration!Handle, Configuration!Go
<1>8. CASE Configuration!SetStartType
  <2>0. /\ c_call.pc = "set"
    BY <1>8 DEF Configuration!SetStartType, Configuration!Early, Configuration!Handle
  <2>1. CASE /\ c_service.life = "present"
             /\ c_service' = [c_service EXCEPT !.field["basic"] = "ours", !.handles = {}]
             /\ c_past' = [c_past EXCEPT !.changed = {"basic"}, !.of = {c_service.id}]
             /\ c_call' = Configuration!Told([c_call EXCEPT !.applied = {"basic"}], FALSE)
             /\ UNCHANGED canceled
    <3>9. [c_call EXCEPT !.applied = {"basic"}] \in Configured /\ [c_call EXCEPT !.applied = {"basic"}].applied = {"basic"}
          /\ [c_call EXCEPT !.applied = {"basic"}].operation = c_call.operation /\ [c_call EXCEPT !.applied = {"basic"}].wish = c_call.wish
          /\ [c_call EXCEPT !.applied = {"basic"}].planned = c_call.planned
      BY <1>0, FieldsHave DEF Configured
    <3>0. Reported([c_call EXCEPT !.applied = {"basic"}], c_call')
          /\ c_call'.accepted /\ c_call'.outcome = "applied"
      BY <2>1, <3>9, ReportToldIs
    <3> QED BY ZenonT(60), <1>0, <2>0, <2>1, <3>0, <3>9, FieldsHave DEF Held, Configured, Wrote, Reported, Configuration!Steps, Places, Counted,
        Configuration!ChangesAreTold
  <2>2. CASE /\ c_call' = Configuration!Refused
             /\ UNCHANGED <<canceled, c_past>>
             /\ c_service' = [c_service EXCEPT !.handles = {}]
    <3>0. Reported(c_call, c_call') /\ c_call'.accepted = c_call.accepted
          /\ c_call'.outcome \in {"failed", "interrupted"}
      BY <1>0, <2>2, RefusedIs
    <3> QED BY <1>0, <2>0, <2>2, <3>0, FieldsHave DEF Held, Configured, Wrote, Reported, Configuration!Steps, Places, Counted,
        Configuration!ChangesAreTold
  <2> QED BY <1>8, <2>1, <2>2 DEF Configuration!SetStartType, Configuration!Early, Configuration!Handle
<1>9. CASE Configuration!Apply
  <2>0. /\ c_call.pc = "step"
        /\ c_service.life = "present"
    BY <1>9 DEF Configuration!Apply
  <2>1. PICK f \in c_call.todo :
           /\ c_service' = [c_service EXCEPT !.field[f] = Configuration!Written(f)]
           /\ c_call' = [c_call EXCEPT !.todo = @ \ {f}, !.applied = @ \cup {f}]
           /\ c_past' = [c_past EXCEPT !.changed = @ \cup {f}, !.of = @ \cup {c_service.id}]
           /\ UNCHANGED canceled
    BY <1>9 DEF Configuration!Apply
  <2> QED BY <1>0, <2>0, <2>1, FieldsHave DEF Held, Configured, Wrote, Reported, Configuration!Steps, Places, Counted,
        Configuration!ChangesAreTold
<1>10. CASE Configuration!Stop
  <2>0. /\ c_call.pc = "step"
    BY <1>10 DEF Configuration!Stop, Configuration!Handle
  <2>1. /\ c_call' = Configuration!Told(c_call, TRUE)
        /\ c_service' = [c_service EXCEPT !.handles = {}]
        /\ UNCHANGED <<canceled, c_past>>
    BY <1>10 DEF Configuration!Stop, Configuration!Handle
  <2>5. Reported(c_call, c_call') /\ c_call'.accepted = (c_call.applied # {})
        /\ c_call'.outcome = IF c_call.applied = {} THEN "failed" ELSE "partial"
    BY <1>0, <2>1, ReportToldIs
  <2> QED BY ZenonT(60), <1>0, <2>0, <2>1, <2>5, FieldsHave DEF Held, Configured, Wrote, Reported, Configuration!Steps, Places, Counted,
        Configuration!ChangesAreTold
<1>11. CASE Configuration!Complete
  <2>0. /\ c_call.pc = "step"
        /\ c_call.todo = {}
    BY <1>11 DEF Configuration!Complete, Configuration!Handle
  <2>1. /\ c_call' = Configuration!Told(c_call, FALSE)
        /\ c_service' = [c_service EXCEPT !.handles = {}]
        /\ UNCHANGED <<canceled, c_past>>
    BY <1>11 DEF Configuration!Complete, Configuration!Handle
  <2>5. Reported(c_call, c_call') /\ c_call'.accepted = (c_call.applied # {})
        /\ c_call'.outcome = "applied"
    BY <1>0, <2>1, ReportToldIs
  <2> QED BY <1>0, <2>0, <2>1, <2>5, FieldsHave DEF Held, Configured, Wrote, Reported, Configuration!Steps, Places, Counted,
        Configuration!ChangesAreTold
<1>12. CASE Configuration!OutsideConfigures
  <2>0. /\ c_call.pc # "done"
        /\ c_service.life = "present"
    BY <1>12 DEF Configuration!OutsideConfigures, Configuration!Outside
  <2>1. PICK f \in Configuration!Fields :
           /\ c_service' = [c_service EXCEPT !.field[f] = "others"]
           /\ c_past' = [c_past EXCEPT !.outside = @ + 1]
           /\ UNCHANGED <<c_call, canceled>>
    BY <1>12 DEF Configuration!OutsideConfigures, Configuration!Outside
  <2> QED BY <1>0, <2>0, <2>1, FieldsHave DEF Held, Configured, Wrote, Reported, Configuration!Steps, Places, Counted,
        Configuration!ChangesAreTold
<1>13. CASE Configuration!OutsideDeletes
  <2>0. /\ c_call.pc # "done"
        /\ c_service.life = "present"
    BY <1>13 DEF Configuration!OutsideDeletes, Configuration!Outside
  <2>1. PICK life \in {"absent", "marked"} :
           /\ c_service' = [c_service EXCEPT !.life = life]
           /\ life = "absent" => c_service.handles = {}
           /\ c_past' = [c_past EXCEPT !.outside = @ + 1]
           /\ UNCHANGED <<c_call, canceled>>
    BY <1>13 DEF Configuration!OutsideDeletes, Configuration!Outside
  <2> QED BY <1>0, <2>0, <2>1, FieldsHave DEF Held, Configured, Wrote, Reported, Configuration!Steps, Places, Counted,
        Configuration!ChangesAreTold
<1>14. CASE Configuration!Vanish
  <2>0. /\ c_service.life = "marked"
        /\ c_service.handles = {}
    BY <1>14 DEF Configuration!Vanish
  <2>1. /\ c_service' = [c_service EXCEPT !.life = "absent"]
        /\ UNCHANGED <<c_call, canceled, c_past>>
    BY <1>14 DEF Configuration!Vanish
  <2> QED BY <1>0, <2>0, <2>1, FieldsHave DEF Held, Configured, Wrote, Reported, Configuration!Steps, Places, Counted,
        Configuration!ChangesAreTold
<1>15. CASE Configuration!OutsideCreates
  <2>0. /\ c_call.pc # "done"
        /\ c_service.life = "absent"
    BY <1>15 DEF Configuration!OutsideCreates, Configuration!Outside
  <2>1. /\ c_service' = [c_service EXCEPT !.id = @ + 1, !.life = "present",
                                       !.field = [f \in Configuration!Fields |-> "others"]]
        /\ c_past' = [c_past EXCEPT !.outside = @ + 1]
        /\ UNCHANGED <<c_call, canceled>>
    BY <1>15 DEF Configuration!OutsideCreates, Configuration!Outside
  <2> QED BY <1>0, <2>0, <2>1, FieldsHave DEF Held, Configured, Wrote, Reported, Configuration!Steps, Places, Counted,
        Configuration!ChangesAreTold
<1>16. CASE Configuration!Cancel
  <2>0. /\ c_call.pc # "done"
    BY <1>16 DEF Configuration!Cancel
  <2>1. /\ canceled' \in BOOLEAN
        /\ UNCHANGED <<c_service, c_call, c_past>>
    BY <1>16 DEF Configuration!Cancel
  <2> QED BY <1>0, <2>0, <2>1, FieldsHave DEF Held, Configured, Wrote, Reported, Configuration!Steps, Places, Counted,
        Configuration!ChangesAreTold
<1> QED BY <1>1, <1>2, <1>3, <1>4, <1>5, <1>6, <1>7, <1>8, <1>9, <1>10, <1>11, <1>12, <1>13,
  <1>14, <1>15, <1>16 DEF ConfigSteps, Configuration!Next

\* Configuration keeps its invariant.
LEMMA ConfigStep == ConfigInv /\ ConfigSteps => ConfigInv'
  BY ConfigTypedStep, PlacesStep, PinnedStep, CountedStep DEF ConfigInv

LEMMA ConfigInvImplies == ConfigInv => Configuration!ConfigurationIsTrue
  BY DEF ConfigInv, ConfigTyped, Configured, Pinned, Counted, Configuration!ConfigurationIsTrue,
     Configuration!OneInstance

----------------------------------------------------------------------------
(* Control: the inductive invariant.                                       *)

States == {"none", "running", "stopped", "paused", "start_pending", "stop_pending",
           "pause_pending"}
Statuses == [state : States, checkpoint : Nat, hint : Nat, exit : Nat]
Outcomes == {"pending", "reached", "already_in_state", "absent", "already_absent", "failed",
             "no_progress", "timed_out", "interrupted", "query_failed", "request_failed"}
Results == [outcome : Outcomes, accepted : BOOLEAN, observed : Statuses]
Places_s == {"open", "begin", "requery", "woken", "decide", "request", "refused", "sleeping",
             "look", "delete", "probe", "pausing", "done"}

ServiceT == [id : Nat, life : {"present", "marked", "absent"}, held : BOOLEAN, status : Statuses]
ProgressT == [state : States, checkpoint : Nat, until : Nat]
CallT ==
    [action : {"start", "stop", "restart", "delete"}, wait : BOOLEAN, pc : Places_s, now : Nat,
     step : {"none", "start", "stop"}, first : BOOLEAN, pended : BOOLEAN, pended_after : BOOLEAN,
     progress : ProgressT, wake : Nat, result : Results, steps : Seq(Results), marked : BOOLEAN]
PastT ==
    [asked : [{"start", "stop", "delete"} -> Seq(Nat)], outside : Nat,
     stopped : BOOLEAN, restarted : BOOLEAN, absent : BOOLEAN, first_id : Nat]

ControlTyped ==
    /\ s_service \in ServiceT /\ s_call \in CallT /\ s_past \in PastT
    /\ clock \in [now : Nat, canceled : BOOLEAN]

Deleting == s_call.action = "delete"
Stepping == s_call.pc \in {"begin", "requery", "woken", "decide", "request", "refused",
                           "sleeping"}
Stages == {"look", "delete", "probe", "pausing"}

\* Which step a call is at, and how many it has ended.
StepsInv ==
    /\ Stepping => ~Deleting
    /\ s_call.pc \in Stages => Deleting
    /\ Deleting => s_call.step = "none"
    /\ Len(s_call.steps) <= 2
    /\ s_call.pc = "open" =>
          s_call.steps = <<>> /\ s_call.step = "none" /\ s_call.result = Control!Result
    /\ Stepping => IF s_call.action = "restart"
                   THEN \/ s_call.step = "stop" /\ Len(s_call.steps) = 0
                        \/ s_call.step = "start" /\ Len(s_call.steps) = 1
                   ELSE s_call.step = s_call.action /\ Len(s_call.steps) = 0
    /\ s_call.pc \in Stages => s_call.steps = <<>>
    /\ s_call.action # "restart" => Len(s_call.steps) <= 1

\* The requests of a step: one if it counts as accepted, of the service opened first.
AskedIs(a, accepted) == s_past.asked[a] = IF accepted THEN <<s_past.first_id>> ELSE <<>>

AskedInv ==
    /\ s_call.pc = "open" => \A a \in {"start", "stop", "delete"} : s_past.asked[a] = <<>>
    /\ Stepping =>
          /\ AskedIs(s_call.step, s_call.result.accepted)
          /\ s_call.step = "stop" /\ s_call.action = "restart" => s_past.asked["start"] = <<>>
    /\ s_call.pc \in {"request", "refused"} => ~s_call.result.accepted
    /\ Stepping /\ s_call.first => ~s_call.result.accepted

\* An ended step tells the truth.
StepTrue(i) ==
    LET r == s_call.steps[i]
        a == Control!StepOf(i)
    IN  /\ AskedIs(a, r.accepted)
        /\ Control!Success(r.outcome) => r.observed.state = Control!Goal(a)
        /\ r.outcome = "already_in_state" => ~r.accepted
        /\ r.outcome = "reached" /\ a = "stop" => r.observed.exit = 0

EndedInv == ~Deleting => \A i \in 1..Len(s_call.steps) : StepTrue(i)

\* The handle of a call keeps its service; what it was seen doing, it did.
HeldInv ==
    /\ Stepping \/ s_call.pc \in {"look", "delete"} =>
          s_service.held /\ s_past.first_id = s_service.id
    /\ s_service.held /\ s_call.pc # "done" => s_service.life # "absent"
    /\ s_call.pc \notin {"open", "done"} =>
          /\ s_service.life = "absent" => s_past.absent
          /\ s_service.life # "absent" /\ s_service.status.state = "stopped" => s_past.stopped
          /\ s_past.stopped /\ s_service.status.state = "running" => s_past.restarted
    /\ s_call.pc = "open" => ~s_past.stopped

\* A restart starts what had stopped.
OrderInv ==
    s_call.action = "restart" =>
        /\ Stepping /\ s_call.step = "stop" /\ s_call.result.observed.state = "stopped" =>
              s_past.stopped
        /\ s_past.asked["start"] # <<>> => s_past.stopped
        /\ Stepping /\ s_call.step = "start" => s_past.stopped
        /\ Stepping /\ s_call.step = "start" /\ s_call.result.observed.state = "running" =>
              s_past.restarted
        /\ Len(s_call.steps) = 2 /\ Control!Success(s_call.steps[2].outcome) => s_past.restarted

\* A deletion asks for the service that had the name first, at most once.
DeleteInv ==
    Deleting =>
        /\ s_past.asked["delete"] \in {<<>>, <<s_past.first_id>>}
        /\ s_call.pc \in {"open", "look", "delete"} =>
              s_past.asked["delete"] = <<>> /\ ~s_call.result.accepted
        /\ s_call.pc # "done" => (s_past.asked["delete"] # <<>>) = s_call.result.accepted
        /\ s_call.pc = "done" =>
              /\ (s_past.asked["delete"] # <<>>) =
                    (s_call.steps # <<>> /\ s_call.steps[1].accepted)
              /\ s_call.steps # <<>> /\ Control!Success(s_call.steps[1].outcome) => s_past.absent

ControlInv ==
    /\ ControlTyped
    /\ StepsInv /\ AskedInv /\ EndedInv /\ HeldInv /\ OrderInv /\ DeleteInv

ControlSteps == Control!Next \/ UNCHANGED Control!vars

LEMMA ControlConstants ==
    /\ Deadline \in Nat /\ DefaultHint \in Nat /\ Hints \subseteq Nat
    /\ MaxCheckpoint \in Nat /\ MaxInstances \in Nat
  BY ControlAssumption DEF Control!ControlAssumption

\* The states of a service that the model names.
LEMMA StatusesAre ==
    /\ Control!NoStatus \in Statuses
    /\ Control!NoProgress \in ProgressT
    /\ Control!Result \in Results /\ Control!Result.accepted = FALSE
    /\ Control!Result.observed.state = "none"
    /\ \A state \in States, exit \in {0, 1} : Control!Settle(state, exit) \in Statuses
    /\ \A state \in States, h \in Hints : Control!Pend(state, h) \in Statuses
<1>1. Control!NoStatus \in Statuses /\ Control!NoStatus.state = "none"
  BY DEF Control!NoStatus, Statuses, States
<1>2. Control!NoProgress \in ProgressT
  BY DEF Control!NoProgress, ProgressT, States
<1>3. /\ Control!Result \in Results /\ Control!Result.accepted = FALSE
      /\ Control!Result.observed = Control!NoStatus
  BY <1>1 DEF Control!Result, Results, Outcomes
<1>4. \A state \in States, exit \in {0, 1} : Control!Settle(state, exit) \in Statuses
  BY DEF Control!Settle, Statuses
<1>5. \A state \in States, h \in Hints : Control!Pend(state, h) \in Statuses
  BY ControlConstants DEF Control!Pend, Statuses
<1> QED BY <1>1, <1>2, <1>3, <1>4, <1>5

\* What the history makes of a state that the service takes.
LEMMA SeenIs ==
    ASSUME NEW p \in PastT, NEW s \in ServiceT
    PROVE  LET seen == Control!Seen(p, s)
           IN  /\ seen \in PastT
               /\ seen.asked = p.asked /\ seen.first_id = p.first_id
               /\ seen.stopped <=> p.stopped \/ (s.life # "absent" /\ s.status.state = "stopped")
               /\ seen.restarted <=> p.restarted \/ (p.stopped /\ s.status.state = "running")
               /\ seen.absent <=> p.absent \/ s.life = "absent"
<1> DEFINE st == p.stopped \/ (s.life # "absent" /\ s.status.state = "stopped")
           re == p.restarted \/ (p.stopped /\ s.status.state = "running")
           ab == p.absent \/ s.life = "absent"
           seen == Control!Seen(p, s)
<1>1. seen = [p EXCEPT !.stopped = st, !.restarted = re, !.absent = ab]
  BY DEF Control!Seen
<1>2. st \in BOOLEAN /\ re \in BOOLEAN /\ ab \in BOOLEAN
  OBVIOUS
<1> HIDE DEF seen, st, re, ab
<1>3. seen \in PastT
  BY <1>1, <1>2 DEF PastT
<1>4. seen.asked = p.asked /\ seen.first_id = p.first_id
  BY <1>1 DEF PastT
<1>5. seen.stopped = st /\ seen.restarted = re /\ seen.absent = ab
  BY <1>1 DEF PastT
<1>6. /\ seen.stopped <=> p.stopped \/ (s.life # "absent" /\ s.status.state = "stopped")
      /\ seen.restarted <=> p.restarted \/ (p.stopped /\ s.status.state = "running")
      /\ seen.absent <=> p.absent \/ s.life = "absent"
  BY <1>5 DEF st, re, ab
<1> QED BY <1>3, <1>4, <1>6 DEF seen

\* How a step ends: the restart goes on with its start, or the call is done.
StepEnded(c, d, outcome) ==
    /\ d \in CallT /\ d.action = c.action
    /\ d.steps = Append(c.steps, [c.result EXCEPT !.outcome = outcome])
    /\ IF c.action = "restart" /\ c.step = "stop" /\ Control!Success(outcome)
       THEN d.pc = "begin" /\ d.step = "start" /\ d.result = Control!Result
       ELSE d.pc = "done"

LEMMA StepEndIs ==
    ASSUME NEW c \in CallT, NEW outcome \in Outcomes
    PROVE  StepEnded(c, Control!EndStep(c, outcome), outcome)
<1> DEFINE e == [c.result EXCEPT !.outcome = outcome]
           steps == Append(c.steps, e)
           d == Control!EndStep(c, outcome)
<1>1. c.result \in Results /\ c.steps \in Seq(Results)
  BY DEF CallT
<1>2. e \in Results
  BY <1>1 DEF Results
<1>3. steps \in Seq(Results)
  BY <1>1, <1>2
<1>4. CASE c.action = "restart" /\ c.step = "stop" /\ Control!Success(outcome)
  <2>1. d = [c EXCEPT !.pc = "begin", !.steps = steps, !.step = "start", !.first = TRUE,
                      !.pended = FALSE, !.pended_after = FALSE,
                      !.progress = Control!NoProgress, !.result = Control!Result]
    BY <1>4 DEF Control!EndStep, Control!EndWith
  <2> HIDE DEF d, steps
  <2>2. d \in CallT
    BY <1>3, <2>1, StatusesAre DEF CallT, Places_s
  <2>3. /\ d.action = c.action /\ d.steps = steps /\ d.pc = "begin" /\ d.step = "start"
        /\ d.result = Control!Result
    BY <2>1 DEF CallT
  <2> QED BY <1>4, <2>2, <2>3 DEF StepEnded, d, steps
<1>5. CASE ~(c.action = "restart" /\ c.step = "stop" /\ Control!Success(outcome))
  <2>1. d = [c EXCEPT !.pc = "done", !.steps = steps]
    BY <1>5 DEF Control!EndStep, Control!EndWith
  <2> HIDE DEF d, steps
  <2>2. d \in CallT
    BY <1>3, <2>1 DEF CallT, Places_s
  <2>3. d.action = c.action /\ d.steps = steps /\ d.pc = "done"
    BY <2>1 DEF CallT
  <2> QED BY <1>5, <2>2, <2>3 DEF StepEnded, d, steps
<1> QED BY <1>4, <1>5

\* The other steps of a call, and other programs, leave the properties of ended steps alone.
LEMMA ClockKeeps ==
    ASSUME ControlInv, UNCHANGED <<s_service, s_call, s_past>>,
           clock' \in [now : Nat, canceled : BOOLEAN]
    PROVE  ControlInv'
<1>1. ControlTyped'
  BY DEF ControlInv, ControlTyped
<1>2. StepsInv'
  BY DEF ControlInv, StepsInv, Stepping, Deleting, Stages
<1>3. AskedInv'
  BY DEF ControlInv, AskedInv, AskedIs, Stepping
<1>4. EndedInv'
  BY DEF ControlInv, EndedInv, Deleting, StepTrue, AskedIs, Control!StepOf
<1>5. HeldInv' /\ OrderInv' /\ DeleteInv'
  BY DEF ControlInv, HeldInv, OrderInv, DeleteInv, Stepping, Deleting
<1> QED BY <1>1, <1>2, <1>3, <1>4, <1>5 DEF ControlInv

\* What the service does by itself, or for other programs, while a call is open.
LEMMA WorldKeeps ==
    ASSUME ControlInv, UNCHANGED <<s_call, clock>>, s_call.pc \notin {"open", "done"},
           NEW s \in ServiceT, NEW p \in PastT, Control!Become(s, p),
           p.asked = s_past.asked, p.first_id = s_past.first_id, p.stopped = s_past.stopped,
           p.restarted = s_past.restarted, p.absent = s_past.absent,
           s.held = s_service.held, s.held => s.life # "absent",
           s_service.life # "absent" => s.id = s_service.id
    PROVE  ControlInv'
<1>0. /\ s_service' = s /\ s_past' \in PastT /\ s_past'.asked = s_past.asked
      /\ s_past'.first_id = s_past.first_id
      /\ s_past'.stopped <=> s_past.stopped
                             \/ (s.life # "absent" /\ s.status.state = "stopped")
      /\ s_past'.restarted <=> s_past.restarted
                               \/ (s_past.stopped /\ s.status.state = "running")
      /\ s_past'.absent <=> s_past.absent \/ s.life = "absent"
  BY SeenIs DEF Control!Become
<1>1. ControlTyped'
  BY <1>0 DEF ControlInv, ControlTyped
<1>2. StepsInv'
  BY DEF ControlInv, StepsInv, Stepping, Deleting, Stages
<1>3. AskedInv'
  BY <1>0 DEF ControlInv, AskedInv, AskedIs, Stepping
<1>4. EndedInv'
  BY <1>0 DEF ControlInv, EndedInv, Deleting, StepTrue, AskedIs, Control!StepOf
<1>5. HeldInv'
  <2>1. /\ s_service \in ServiceT /\ s_past \in PastT
    BY DEF ControlInv, ControlTyped
  <2>2. s_past'.stopped \in BOOLEAN /\ s_past'.restarted \in BOOLEAN
    BY <1>0 DEF PastT
  <2> QED BY <1>0, <2>1, <2>2 DEF ControlInv, HeldInv, Stepping
<1>6. OrderInv'
  BY <1>0 DEF ControlInv, OrderInv, Stepping
<1>7. DeleteInv'
  BY <1>0 DEF ControlInv, DeleteInv, Deleting
<1> QED BY <1>1, <1>2, <1>3, <1>4, <1>5, <1>6, <1>7 DEF ControlInv

\* A step of a transition goes on: what it knows of the service is what it saw before, or sees.
LEMMA MoveKeeps ==
    ASSUME ControlInv, UNCHANGED <<s_service, s_past, clock>>, Stepping, Stepping',
           s_call' \in CallT, s_call'.action = s_call.action, s_call'.step = s_call.step,
           s_call'.steps = s_call.steps, s_call'.result.accepted = s_call.result.accepted,
           \/ s_call'.result.observed = s_call.result.observed
           \/ s_call'.result.observed = s_service.status,
           s_call'.first => s_call.first,
           s_call'.pc \in {"request", "refused"} => ~s_call.result.accepted
    PROVE  ControlInv'
<1>1. ControlTyped'
  BY DEF ControlInv, ControlTyped
<1>2. StepsInv'
  BY DEF ControlInv, StepsInv, Stepping, Deleting, Stages
<1>3. AskedInv'
  BY DEF ControlInv, AskedInv, AskedIs, Stepping
<1>4. EndedInv'
  BY DEF ControlInv, EndedInv, Deleting, StepTrue, AskedIs, Control!StepOf
<1>5. HeldInv'
  BY DEF ControlInv, HeldInv, Stepping
<1>6. OrderInv'
  BY DEF ControlInv, OrderInv, HeldInv, Stepping
<1>7. DeleteInv'
  BY DEF ControlInv, StepsInv, DeleteInv, Deleting
<1> QED BY <1>1, <1>2, <1>3, <1>4, <1>5, <1>6, <1>7 DEF ControlInv

\* A step ends, and says what was asked and seen.
LEMMA EndKeeps ==
    ASSUME ControlInv, UNCHANGED <<s_service, s_past, clock>>, Stepping,
           NEW c \in CallT, NEW outcome \in Outcomes,
           c.action = s_call.action, c.step = s_call.step, c.steps = s_call.steps,
           c.result.accepted = s_call.result.accepted,
           s_call' = Control!EndStep(c, outcome),
           Control!Success(outcome) =>
              /\ c.result.observed = s_call.result.observed
              /\ c.result.observed.state = Control!Goal(c.step)
              /\ outcome = "already_in_state" => ~c.result.accepted
              /\ outcome = "reached" /\ c.step = "stop" => c.result.observed.exit = 0
    PROVE  ControlInv'
<1> DEFINE e == [c.result EXCEPT !.outcome = outcome]
<1>9. /\ s_call \in CallT /\ s_call.steps \in Seq(Results) /\ Len(s_call.steps) \in 0..1
      /\ ~Deleting /\ c.result \in Results
  <2>1. s_call \in CallT /\ s_call.steps \in Seq(Results) /\ c.result \in Results
    BY DEF ControlInv, ControlTyped, CallT
  <2>2. Len(s_call.steps) \in Nat
    BY <2>1
  <2> QED BY <2>1, <2>2 DEF ControlInv, StepsInv, Stepping, Deleting
<1>8. PICK n \in 0..1 : n = Len(s_call.steps)
  BY <1>9
<1>0. /\ s_call \in CallT /\ s_call.steps \in Seq(Results)
      /\ ~Deleting /\ c.result \in Results
  BY <1>9
<1>a. StepEnded(c, s_call', outcome)
  BY StepEndIs
<1>b. /\ e \in Results /\ e.outcome = outcome /\ e.accepted = s_call.result.accepted
      /\ e.observed = c.result.observed
  BY <1>0 DEF Results
<1>c. s_call'.steps = Append(s_call.steps, e) /\ s_call' \in CallT
      /\ s_call'.action = s_call.action
  BY <1>a DEF StepEnded
<1> HIDE DEF e
<1>d. /\ Len(s_call'.steps) = n + 1 /\ s_call'.steps[n + 1] = e
      /\ \A i \in 1..n : s_call'.steps[i] = s_call.steps[i]
  BY <1>0, <1>8, <1>b, <1>c
<1>e. /\ n = Len(s_call.steps)
      /\ IF s_call.action = "restart"
         THEN \/ s_call.step = "stop" /\ n = 0
              \/ s_call.step = "start" /\ n = 1
         ELSE s_call.step = s_call.action /\ n = 0
  BY <1>8 DEF ControlInv, StepsInv
<1>f. Control!StepOf(n + 1) = s_call.step
  <2>1. CASE n = 0
    <3>1. n + 1 = 1
      BY <2>1
    <3> QED BY <1>e, <2>1, <3>1 DEF Control!StepOf
  <2>2. CASE n = 1
    <3>1. n + 1 = 2
      BY <2>2
    <3> QED BY <1>e, <2>2, <3>1 DEF Control!StepOf
  <2> QED BY <1>e, <2>1, <2>2
<1>g. /\ s_call.step \in {"start", "stop"}
      /\ AskedIs(s_call.step, s_call.result.accepted)
      /\ s_call.step = "stop" /\ s_call.action = "restart" => s_past.asked["start"] = <<>>
  BY <1>0, <1>e DEF ControlInv, AskedInv, Stepping, CallT, Deleting
<1>1. ControlTyped'
  BY <1>c DEF ControlInv, ControlTyped
<1>2. StepsInv'
  BY <1>0, <1>a, <1>c, <1>d, <1>e
     DEF StepEnded, StepsInv, Stepping, Deleting, Stages
<1>3. AskedInv'
  <2>2. CASE s_call'.pc = "done"
    BY <2>2 DEF AskedInv, Stepping
  <2>3. CASE s_call'.pc # "done"
    <3>1. /\ s_call'.pc = "begin" /\ s_call'.step = "start"
          /\ s_call.step = "stop" /\ s_call.action = "restart"
          /\ s_call'.result.accepted = FALSE
      BY <2>3, <1>a, <1>c, <1>e, StatusesAre DEF StepEnded
    <3>2. s_past'.asked["start"] = <<>>
      BY <1>g, <3>1
    <3> QED BY <3>1, <3>2 DEF AskedInv, AskedIs, Stepping
  <2> QED BY <2>2, <2>3
<1>4. EndedInv'
  <2>1. \A a, b : AskedIs(a, b)' = AskedIs(a, b)
    BY DEF AskedIs
  <2>2. \A i : Control!StepOf(i)' = Control!StepOf(i)
    BY <1>c DEF Control!StepOf
  <2>3. ASSUME NEW i \in 1..n PROVE StepTrue(i)'
    <3>1. StepTrue(i)
      BY <1>0, <1>e DEF ControlInv, EndedInv
    <3> QED BY <1>d, <2>1, <2>2, <3>1 DEF StepTrue
  <2>4. StepTrue(n + 1)'
    <3>1. n + 1 - 1 = n
      BY <1>0
    <3>2. LET r == e
              a == s_call.step
          IN  /\ AskedIs(a, r.accepted)
              /\ Control!Success(r.outcome) => r.observed.state = Control!Goal(a)
              /\ r.outcome = "already_in_state" => ~r.accepted
              /\ r.outcome = "reached" /\ a = "stop" => r.observed.exit = 0
      BY <1>b, <1>g DEF Control!Success
    <3>3. Control!StepOf(n + 1)' = s_call.step
      BY <1>f, <2>2
    <3>4. /\ s_call'.steps[n + 1] = e
          /\ \A a, b : AskedIs(a, b)' = AskedIs(a, b)
      BY <1>d, <2>1
    <3> HIDE <1>a, <1>b, <1>c
    <3> QED BY <3>1, <3>2, <3>3, <3>4 DEF StepTrue
  <2>5. n \in Nat
    BY <1>0, <1>e
  <2>6. \A i \in 1..Len(s_call'.steps) : i \in 1..n \/ i = n + 1
    BY <1>d, <2>5
  <2> QED BY <2>3, <2>4, <2>6 DEF EndedInv
<1>5. HeldInv'
  BY <1>a DEF StepEnded, ControlInv, HeldInv, Stepping
<1>6. OrderInv'
  <2>1. CASE s_call'.pc = "done"
    BY <2>1, <1>b, <1>c, <1>d, <1>e DEF ControlInv, OrderInv, Stepping, Control!Goal
  <2>2. CASE s_call'.pc # "done"
    <3>1. /\ s_call'.pc = "begin" /\ s_call'.step = "start" /\ n = 0
          /\ s_call.step = "stop" /\ s_call.action = "restart" /\ Control!Success(outcome)
          /\ s_call'.result.observed.state = "none"
      BY <2>2, <1>a, <1>c, <1>e, StatusesAre DEF StepEnded
    <3>2. s_past.stopped
      BY <3>1 DEF ControlInv, OrderInv, Control!Goal
    <3> QED BY <1>c, <1>d, <3>1, <3>2 DEF ControlInv, OrderInv, Stepping
  <2> QED BY <2>1, <2>2
<1>7. DeleteInv'
  BY <1>0, <1>c DEF DeleteInv, Deleting
<1> QED BY <1>1, <1>2, <1>3, <1>4, <1>5, <1>6, <1>7 DEF ControlInv

LEMMA FailKeeps ==
    ASSUME ControlInv, UNCHANGED <<s_service, s_past, clock>>, Stepping,
           NEW outcome \in Outcomes, ~Control!Success(outcome), Control!Ends(outcome)
    PROVE  ControlInv'
<1>1. s_call \in CallT /\ s_call' = Control!EndStep(s_call, outcome)
  BY DEF ControlInv, ControlTyped, Control!Ends
<1> QED BY <1>1, EndKeeps

\* What is no success.
LEMMA FailuresAre ==
    \A outcome \in {"query_failed", "interrupted", "timed_out", "failed", "pending",
                    "no_progress", "request_failed"} :
        outcome \in Outcomes /\ ~Control!Success(outcome)
  BY DEF Outcomes, Control!Success

LEMMA QueryKeeps == ASSUME ControlInv, Control!Query PROVE ControlInv'
<1>0. /\ s_call.pc \in {"begin", "requery", "woken"} /\ Stepping
      /\ UNCHANGED <<s_service, s_past, clock>>
  BY DEF Control!Query, Control!Quiet, Stepping
<1>1. CASE Control!Ends("query_failed")
  BY <1>0, <1>1, FailKeeps, FailuresAre
<1>2. CASE Control!Ends("interrupted")
  BY <1>0, <1>2, FailKeeps, FailuresAre
<1>3. CASE s_call' = [s_call EXCEPT !.pc = "decide", !.first = @ /\ s_call.pc = "begin",
                                    !.result.observed = s_service.status]
  <2> DEFINE first == s_call.first /\ s_call.pc = "begin"
             result == [s_call.result EXCEPT !.observed = s_service.status]
  <2>1. /\ s_call \in CallT /\ s_call.result \in Results /\ s_service.status \in Statuses
        /\ first \in BOOLEAN
    BY DEF ControlInv, ControlTyped, CallT, ServiceT
  <2>2. result \in Results /\ result.observed = s_service.status
        /\ result.accepted = s_call.result.accepted
    BY <2>1 DEF Results
  <2>3. s_call' = [s_call EXCEPT !.pc = "decide", !.first = first, !.result = result]
    BY <1>3
  <2>4. first => s_call.first
    OBVIOUS
  <2> HIDE DEF first, result
  <2>5. /\ s_call' \in CallT /\ s_call'.pc = "decide" /\ s_call'.first = first
        /\ s_call'.result = result /\ s_call'.action = s_call.action
        /\ s_call'.step = s_call.step /\ s_call'.steps = s_call.steps
    BY <2>1, <2>2, <2>3 DEF CallT, Places_s
  <2>6. Stepping'
    BY <2>5 DEF Stepping
  <2> QED BY <1>0, <2>2, <2>4, <2>5, <2>6, MoveKeeps
<1> QED BY <1>1, <1>2, <1>3 DEF Control!Query

\* The next stage of a step, with nothing else.
LEMMA GoKeeps ==
    ASSUME ControlInv, UNCHANGED <<s_service, s_past, clock>>, Stepping,
           NEW p \in {"request", "woken", "refused"}, Control!Go(p),
           p # "woken" => ~s_call.result.accepted
    PROVE  ControlInv'
<1>1. s_call \in CallT
  BY DEF ControlInv, ControlTyped
<1>2. /\ s_call' \in CallT /\ s_call'.pc = p /\ s_call'.first = s_call.first
      /\ s_call'.result = s_call.result /\ s_call'.action = s_call.action
      /\ s_call'.step = s_call.step /\ s_call'.steps = s_call.steps
  BY <1>1 DEF Control!Go, CallT, Places_s
<1>3. Stepping'
  BY <1>2 DEF Stepping
<1> QED BY <1>2, <1>3, MoveKeeps

LEMMA ProgressIs ==
    ASSUME NEW p \in ProgressT, NEW status \in Statuses, NEW now \in Nat
    PROVE  Control!Progressed(p, status, now) \in ProgressT
<1>1. now + (IF status.hint = 0 THEN DefaultHint ELSE status.hint) \in Nat
      /\ status.state \in States /\ status.checkpoint \in Nat
  BY ControlConstants DEF Statuses
<1> QED BY <1>1 DEF Control!Progressed, ProgressT

LEMMA WaitKeeps == ASSUME ControlInv, Stepping, UNCHANGED <<s_service, s_past, clock>>,
                          Control!DecideWait
                   PROVE  ControlInv'
<1> DEFINE progress == Control!Progressed(s_call.progress, Control!Status, clock.now)
           pended == s_call.pended \/ Control!Status.state = Control!PendingOf(s_call.step)
           after == s_call.pended_after \/ (Control!IsPending /\ Control!Accepted)
           wake == clock.now + 1
<1>0. /\ s_call \in CallT /\ clock.now \in Nat /\ s_call.progress \in ProgressT
      /\ Control!Status \in Statuses
  BY DEF ControlInv, ControlTyped, CallT, Results, Control!Status
<1>1. CASE Control!Ends("pending")
  BY <1>1, FailKeeps, FailuresAre
<1>2. CASE Control!Ends("no_progress")
  BY <1>2, FailKeeps, FailuresAre
<1>3. CASE s_call' = [[s_call EXCEPT !.pended = pended, !.pended_after = after,
                                     !.progress = progress]
                         EXCEPT !.pc = "sleeping", !.wake = wake]
  <2>1. progress \in ProgressT /\ wake \in Nat /\ pended \in BOOLEAN /\ after \in BOOLEAN
    BY <1>0, ProgressIs
  <2> HIDE DEF progress, pended, after, wake
  <2>2. /\ s_call' \in CallT /\ s_call'.pc = "sleeping" /\ s_call'.first = s_call.first
        /\ s_call'.result = s_call.result /\ s_call'.action = s_call.action
        /\ s_call'.step = s_call.step /\ s_call'.steps = s_call.steps
    BY <1>0, <1>3, <2>1 DEF CallT, Places_s
  <2>3. Stepping'
    BY <2>2 DEF Stepping
  <2> QED BY <2>2, <2>3, MoveKeeps
<1> QED BY <1>1, <1>2, <1>3 DEF Control!DecideWait, Control!Ends

LEMMA DecideKeeps == ASSUME ControlInv, Control!Decide PROVE ControlInv'
<1>0. UNCHANGED <<s_service, s_past, clock>>
  BY DEF Control!Decide, Control!Quiet
<1>a. s_call.pc = "decide" /\ Stepping
  BY DEF Control!Decide, Control!DecideLate, Control!DecideInterrupted, Control!DecideGoal,
         Control!DecideFailed, Control!DecideRequest, Control!RequestOnce, Control!DecideWait,
         Control!Elsewhere, Control!Deciding, Stepping
<1>1. CASE Control!DecideLate \/ Control!DecideInterrupted \/ Control!DecideFailed
  <2>1. \E outcome \in {"timed_out", "interrupted", "failed"} : Control!Ends(outcome)
    BY <1>1 DEF Control!DecideLate, Control!DecideInterrupted, Control!DecideFailed
  <2> QED BY <1>0, <1>a, <2>1, FailKeeps, FailuresAre
<1>2. CASE Control!DecideGoal
  <2> DEFINE outcome ==
               IF s_call.first THEN "already_in_state"
               ELSE IF s_call.step = "stop" /\ Control!Status.exit # 0 THEN "failed"
               ELSE "reached"
  <2>1. /\ s_call' = Control!EndStep(s_call, outcome) /\ outcome \in Outcomes
        /\ s_call.result.observed.state = Control!Goal(s_call.step)
    BY <1>2 DEF Control!DecideGoal, Control!Ends, Control!AtGoal, Control!Status, Outcomes
  <2>2. /\ outcome = "already_in_state" => s_call.first
        /\ outcome = "reached" /\ s_call.step = "stop" => s_call.result.observed.exit = 0
    BY DEF Control!Status
  <2>3. s_call.first => ~s_call.result.accepted
    BY <1>a DEF ControlInv, AskedInv
  <2>4. s_call \in CallT
    BY DEF ControlInv, ControlTyped
  <2> HIDE DEF outcome
  <2> QED BY <1>0, <1>a, <2>1, <2>2, <2>3, <2>4, EndKeeps
<1>3. CASE Control!DecideRequest
  <2>1. Control!Go("request") /\ ~s_call.result.accepted
    BY <1>3 DEF Control!DecideRequest, Control!RequestOnce, Control!Accepted
  <2> QED BY <1>0, <1>a, <2>1, GoKeeps
<1>4. CASE Control!DecideWait
  BY <1>0, <1>a, <1>4, WaitKeeps
<1> QED BY <1>1, <1>2, <1>3, <1>4 DEF Control!Decide

LEMMA RefusedKeeps == ASSUME ControlInv, Control!Refused PROVE ControlInv'
<1>0. s_call.pc = "refused" /\ Stepping /\ UNCHANGED <<s_service, s_past, clock>>
  BY DEF Control!Refused, Control!Quiet, Stepping
<1>1. PICK observed \in {s_service.status, Control!Status} :
         s_call' = Control!EndStep([s_call EXCEPT !.result.observed = observed],
                                   "request_failed")
  BY DEF Control!Refused
<1>2. s_call \in CallT /\ s_call.result \in Results /\ observed \in Statuses
  BY DEF ControlInv, ControlTyped, CallT, ServiceT, Results, Control!Status
<1> DEFINE c == [s_call EXCEPT !.result.observed = observed]
           result == [s_call.result EXCEPT !.observed = observed]
<1>3. result \in Results /\ result.accepted = s_call.result.accepted
  BY <1>2 DEF Results
<1>4. c = [s_call EXCEPT !.result = result]
  OBVIOUS
<1>5. s_call' = Control!EndStep(c, "request_failed")
  BY <1>1
<1> HIDE DEF c, result
<1>6. /\ c \in CallT /\ c.result = result /\ c.action = s_call.action
      /\ c.step = s_call.step /\ c.steps = s_call.steps
  BY <1>2, <1>3, <1>4 DEF CallT
<1> QED BY <1>0, <1>3, <1>5, <1>6, EndKeeps, FailuresAre

LEMMA WakeKeeps == ASSUME ControlInv, Control!Wake PROVE ControlInv'
<1>0. Stepping /\ UNCHANGED <<s_service, s_past, clock>>
  BY DEF Control!Wake, Control!Quiet, Stepping
<1>1. Control!Ends("interrupted") \/ Control!Go("woken")
  BY DEF Control!Wake
<1> QED BY <1>0, <1>1, FailKeeps, FailuresAre, GoKeeps

LEMMA InterruptedKeeps == ASSUME ControlInv, Control!RequestInterrupted PROVE ControlInv'
<1>0. Stepping /\ UNCHANGED <<s_service, s_past, clock>> /\ Control!Ends("interrupted")
  BY DEF Control!RequestInterrupted, Control!Quiet, Stepping
<1> QED BY <1>0, FailKeeps, FailuresAre

\* Another program's act is counted, and changes nothing else of the history.
Recorded(p) ==
    /\ p \in PastT /\ p.asked = s_past.asked /\ p.first_id = s_past.first_id
    /\ p.stopped = s_past.stopped /\ p.restarted = s_past.restarted /\ p.absent = s_past.absent

LEMMA RecordedAre ==
    ASSUME ControlInv
    PROVE  Recorded(s_past) /\ Recorded([s_past EXCEPT !.outside = @ + 1])
<1>1. s_past \in PastT
  BY DEF ControlInv, ControlTyped
<1>2. [s_past EXCEPT !.outside = @ + 1] \in PastT
  BY <1>1 DEF PastT
<1>3. Recorded([s_past EXCEPT !.outside = @ + 1])
  BY <1>1, <1>2 DEF PastT, Recorded
<1> QED BY <1>1, <1>3 DEF Recorded

LEMMA StatusKeeps ==
    ASSUME ControlInv, Control!Alive, NEW status \in Statuses, NEW p, Recorded(p),
           Control!Become([s_service EXCEPT !.status = status], p)
    PROVE  ControlInv'
<1> DEFINE s == [s_service EXCEPT !.status = status]
<1>1. s_service \in ServiceT
  BY DEF ControlInv, ControlTyped
<1>2. s \in ServiceT /\ s.held = s_service.held /\ s.life = s_service.life
      /\ s.id = s_service.id
  BY <1>1 DEF ServiceT
<1>3. Control!Become(s, p)
  OBVIOUS
<1>4. s_call.pc \notin {"open", "done"} /\ UNCHANGED <<s_call, clock>>
  BY DEF Control!Alive
<1>5. s.held => s.life # "absent"
  BY <1>2, <1>4 DEF ControlInv, HeldInv
<1> HIDE DEF s
<1> QED BY <1>2, <1>3, <1>4, <1>5, WorldKeeps DEF Recorded

LEMMA AdvanceKeeps == ASSUME ControlInv, Control!Advance PROVE ControlInv'
<1>1. PICK status : /\ status \in Statuses
                    /\ Control!Become([s_service EXCEPT !.status = status], s_past)
  <2>1. s_service.status \in Statuses
    BY DEF ControlInv, ControlTyped, ServiceT
  <2>2. PICK h \in Hints :
           \/ Control!Change([s_service.status EXCEPT !.checkpoint = @ + 1, !.hint = h])
           \/ Control!Change([s_service.status EXCEPT !.hint = h])
    BY DEF Control!Advance
  <2>3. h \in Nat
    BY ControlConstants
  <2> DEFINE one == [s_service.status EXCEPT !.checkpoint = @ + 1, !.hint = h]
             other == [s_service.status EXCEPT !.hint = h]
  <2> HIDE DEF one, other
  <2>4. one \in Statuses /\ other \in Statuses
    <3>1. s_service.status.checkpoint \in Nat /\ s_service.status.checkpoint + 1 \in Nat
      BY <2>1 DEF Statuses
    <3> DEFINE next == s_service.status.checkpoint + 1
    <3>2. one = [s_service.status EXCEPT !.checkpoint = next, !.hint = h]
      BY DEF one
    <3>5. next \in Nat
      BY <3>1
    <3> HIDE DEF next
    <3>3. one = [state |-> s_service.status.state, checkpoint |-> next, hint |-> h,
                 exit |-> s_service.status.exit]
      BY <2>1, <3>2 DEF Statuses
    <3>4. other = [state |-> s_service.status.state,
                   checkpoint |-> s_service.status.checkpoint, hint |-> h,
                   exit |-> s_service.status.exit]
      BY <2>1 DEF Statuses, other
    <3> QED BY <2>1, <2>3, <3>3, <3>4, <3>5 DEF Statuses
  <2>5. Control!Change(one) \/ Control!Change(other)
    BY <2>2 DEF one, other
  <2>6. \E status \in Statuses : Control!Change(status)
    BY <2>4, <2>5
  <2> QED BY <2>6 DEF Control!Change
<1>2. Control!Alive
  BY DEF Control!Advance
<1> QED BY <1>1, <1>2, StatusKeeps, RecordedAre

LEMMA ArriveKeeps == ASSUME ControlInv, Control!Arrive PROVE ControlInv'
<1>1. /\ Control!Alive
      /\ \E state \in {"running", "stopped", "paused"} : Control!Change(Control!Settle(state, 0))
  BY DEF Control!Arrive
<1>2. PICK state \in {"running", "stopped", "paused"} : Control!Change(Control!Settle(state, 0))
  BY <1>1
<1>3. Control!Settle(state, 0) \in Statuses
  BY StatusesAre DEF States
<1> QED BY <1>1, <1>2, <1>3, StatusKeeps, RecordedAre DEF Control!Change

LEMMA FallKeeps == ASSUME ControlInv, Control!Fall PROVE ControlInv'
<1>1. PICK exit \in {0, 1} : Control!Alive /\ Control!Change(Control!Settle("stopped", exit))
  BY DEF Control!Fall
<1>2. Control!Settle("stopped", exit) \in Statuses
  BY StatusesAre DEF States
<1> QED BY <1>1, <1>2, StatusKeeps, RecordedAre DEF Control!Change

LEMMA OutsideKeeps == ASSUME ControlInv, Control!OutsideActs PROVE ControlInv'
<1> DEFINE counted == [s_past EXCEPT !.outside = @ + 1]
<1>0. Control!Alive /\ Recorded(counted) /\ s_service \in ServiceT
      /\ UNCHANGED <<s_call, clock>> /\ s_call.pc \notin {"open", "done"}
  BY RecordedAre DEF Control!OutsideActs, Control!Alive, ControlInv, ControlTyped
<1>1. CASE \E h \in Hints, p \in {"start_pending", "stop_pending", "pause_pending"} :
              Control!Become([s_service EXCEPT !.status = Control!Pend(p, h)], counted)
  <2>1. PICK h \in Hints, p \in {"start_pending", "stop_pending", "pause_pending"} :
           Control!Become([s_service EXCEPT !.status = Control!Pend(p, h)], counted)
    BY <1>1
  <2>2. Control!Pend(p, h) \in Statuses
    BY StatusesAre DEF States
  <2> HIDE DEF counted
  <2> QED BY <1>0, <2>1, <2>2, StatusKeeps
<1>2. CASE /\ s_service.life = "present"
           /\ Control!Become([s_service EXCEPT !.life = "marked"], counted)
  <2> DEFINE s == [s_service EXCEPT !.life = "marked"]
  <2>1. /\ s \in ServiceT /\ s.held = s_service.held /\ s.life = "marked"
        /\ s.id = s_service.id /\ Control!Become(s, counted)
    BY <1>0, <1>2 DEF ServiceT
  <2> HIDE DEF counted, s
  <2> QED BY <1>0, <2>1, WorldKeeps DEF Recorded
<1>3. CASE /\ s_service.life = "absent"
           /\ Control!Become([s_service EXCEPT !.id = @ + 1, !.life = "present",
                                 !.status = Control!Settle("stopped", 0)], counted)
  <2> DEFINE s == [s_service EXCEPT !.id = @ + 1, !.life = "present",
                                    !.status = Control!Settle("stopped", 0)]
  <2>0. Control!Settle("stopped", 0) \in Statuses
    BY StatusesAre DEF States
  <2> DEFINE status == Control!Settle("stopped", 0)
  <2>a. s = [s_service EXCEPT !.id = @ + 1, !.life = "present", !.status = status]
    OBVIOUS
  <2>b. status \in Statuses
    BY <2>0
  <2>c. Control!Become(s, counted)
    BY <1>3
  <2> HIDE DEF counted, s, status
  <2>d. s_service.id \in Nat
    BY <1>0 DEF ServiceT
  <2>1. s \in ServiceT /\ s.held = s_service.held /\ s.life = "present"
    <3>1. s = [id |-> s_service.id + 1, life |-> "present", held |-> s_service.held,
               status |-> status]
      BY <1>0, <2>a DEF ServiceT
    <3>2. s_service.held \in BOOLEAN /\ s_service.id + 1 \in Nat
      BY <1>0, <2>d DEF ServiceT
    <3> QED BY <2>b, <3>1, <3>2 DEF ServiceT
  <2> QED BY <1>0, <1>3, <2>1, <2>c, WorldKeeps DEF Recorded
<1> QED BY <1>1, <1>2, <1>3 DEF Control!OutsideActs

\* A service goes only when no handle of the call is open.
LEMMA VanishKeeps == ASSUME ControlInv, Control!Vanish PROVE ControlInv'
<1> DEFINE s == [s_service EXCEPT !.life = "absent"]
<1>1. /\ s_service \in ServiceT /\ s_call.pc \notin {"open", "done"}
      /\ UNCHANGED <<s_call, clock>> /\ ~s_service.held
  BY DEF Control!Vanish, Control!Alive, ControlInv, ControlTyped
<1>2. s \in ServiceT /\ s.held = s_service.held /\ s.id = s_service.id
  BY <1>1 DEF ServiceT
<1>3. Control!Become(s, s_past) /\ Recorded(s_past)
  BY RecordedAre DEF Control!Vanish
<1> HIDE DEF s
<1> QED BY <1>1, <1>2, <1>3, WorldKeeps DEF Recorded

\* A request that the manager takes.
LEMMA RequestKeeps == ASSUME ControlInv, Control!Request PROVE ControlInv'
<1>0. s_call.pc = "request" /\ Stepping /\ clock' = clock
  BY DEF Control!Request, Stepping
<1>a. /\ s_call \in CallT /\ s_service \in ServiceT /\ s_past \in PastT
      /\ s_call.step \in {"start", "stop"} /\ ~s_call.result.accepted
      /\ s_call.result \in Results /\ Len(s_call.steps) \in Nat
  BY <1>0 DEF ControlInv, ControlTyped, CallT, StepsInv, AskedInv, Stepping, Deleting
<1>1. CASE Control!Go("refused") /\ Control!Quiet
  BY <1>0, <1>1, <1>a, GoKeeps DEF Control!Quiet
<1>2. ASSUME NEW status,
             status \in {Control!Settle(Control!Goal(s_call.step), 0)}
                        \cup {Control!Pend(Control!PendingOf(s_call.step), h) : h \in Hints}
                        \cup (IF s_call.step = "stop" THEN {s_service.status} ELSE {}),
             Control!Become([s_service EXCEPT !.status = status],
                            [s_past EXCEPT !.asked[s_call.step] = Append(@, s_service.id)]),
             s_call' = [s_call EXCEPT !.pc = "requery", !.result.accepted = TRUE,
                                      !.first = FALSE, !.progress = Control!NoProgress]
      PROVE  ControlInv'
  <2> DEFINE asked == [s_past.asked EXCEPT ![s_call.step] =
                          Append(s_past.asked[s_call.step], s_service.id)]
             p == [s_past EXCEPT !.asked = asked]
             s == [s_service EXCEPT !.status = status]
             result == [s_call.result EXCEPT !.accepted = TRUE]
  <2>1. status \in Statuses
    <3>1. \A h \in Hints : Control!Pend(Control!PendingOf(s_call.step), h) \in Statuses
      BY StatusesAre DEF Control!PendingOf, States
    <3>2. Control!Settle(Control!Goal(s_call.step), 0) \in Statuses
      BY StatusesAre DEF Control!Goal, States
    <3> QED BY <1>2, <1>a, <3>1, <3>2 DEF ServiceT
  <2>2. s \in ServiceT /\ s.held = s_service.held /\ s.life = s_service.life
        /\ s.id = s_service.id /\ s.status = status
    BY <1>a, <2>1 DEF ServiceT
  <2>d. s_past.asked[s_call.step] = <<>> /\ s_past.first_id = s_service.id
    BY <1>0, <1>a DEF ControlInv, AskedInv, AskedIs, HeldInv
  <2>3. asked \in [{"start", "stop", "delete"} -> Seq(Nat)]
    <3>1. s_service.id \in Nat /\ s_past.asked \in [{"start", "stop", "delete"} -> Seq(Nat)]
      BY <1>a DEF ServiceT, PastT
    <3> QED BY <1>a, <3>1
  <2>4. /\ \A a \in {"start", "stop", "delete"} :
              a # s_call.step => asked[a] = s_past.asked[a]
        /\ asked[s_call.step] = <<s_past.first_id>>
    BY <1>a, <2>d DEF PastT
  <2> HIDE DEF asked
  <2>5. p \in PastT /\ p.asked = asked /\ p.first_id = s_past.first_id
        /\ p.stopped = s_past.stopped /\ p.restarted = s_past.restarted
        /\ p.absent = s_past.absent
    BY <1>a, <2>3 DEF PastT
  <2>6. Control!Become(s, p)
    BY <1>2 DEF asked
  <2>7. result \in Results /\ result.accepted = TRUE
        /\ result.observed = s_call.result.observed
    BY <1>a DEF Results
  <2>8. s_call' = [s_call EXCEPT !.pc = "requery", !.result = result, !.first = FALSE,
                                 !.progress = Control!NoProgress]
    BY <1>2
  <2> HIDE DEF p, s, result
  <2>9. /\ s_call' \in CallT /\ s_call'.pc = "requery" /\ s_call'.first = FALSE
        /\ s_call'.result = result /\ s_call'.action = s_call.action
        /\ s_call'.step = s_call.step /\ s_call'.steps = s_call.steps
    BY <1>a, <2>7, <2>8, StatusesAre DEF CallT, Places_s
  <2>10. /\ s_service' = s /\ s_past' \in PastT /\ s_past'.asked = asked
         /\ s_past'.first_id = s_past.first_id
         /\ s_past'.stopped <=> s_past.stopped
                                \/ (s.life # "absent" /\ s.status.state = "stopped")
         /\ s_past'.restarted <=> s_past.restarted
                                  \/ (s_past.stopped /\ s.status.state = "running")
         /\ s_past'.absent <=> s_past.absent \/ s.life = "absent"
    BY <2>2, <2>5, <2>6, SeenIs DEF Control!Become
  <2>11. Stepping'
    BY <2>9 DEF Stepping
  <2>12. ControlTyped'
    BY <1>0, <2>2, <2>9, <2>10 DEF ControlInv, ControlTyped
  <2>13. StepsInv'
    BY <1>0, <2>9, <2>11 DEF ControlInv, StepsInv, Stepping, Deleting, Stages
  <2>14. \A a \in {"start", "stop"}, b \in BOOLEAN :
            a # s_call.step => AskedIs(a, b)' = AskedIs(a, b)
    BY ONLY <2>4, <2>10 DEF AskedIs
  <2>16. AskedInv'
    <3>1. s_past'.asked[s_call.step] = <<s_past'.first_id>> /\ s_call'.result.accepted = TRUE
      BY ONLY <2>4, <2>7, <2>9, <2>10
    <3>2. s_call.step = "stop" /\ s_call.action = "restart" => s_past'.asked["start"] = <<>>
      BY <1>0, <2>4, <2>10 DEF ControlInv, AskedInv
    <3>3. s_call'.pc \notin {"open", "request", "refused"}
      BY <2>9
    <3>4. s_call'.first = FALSE /\ s_call'.step = s_call.step /\ s_call'.action = s_call.action
      BY <2>9
    <3> QED BY ONLY <3>1, <3>2, <3>3, <3>4 DEF AskedInv, AskedIs
  <2>17. EndedInv'
    <3>1. ASSUME NEW i \in 1..Len(s_call.steps) PROVE StepTrue(i)'
      <4>1. StepTrue(i) /\ ~Deleting
        BY <1>0 DEF ControlInv, EndedInv, StepsInv
      <4>2. Control!StepOf(i)' = Control!StepOf(i)
        BY <2>9 DEF Control!StepOf
      <4>3. i = 1 /\ s_call.action = "restart" /\ s_call.step = "start"
        <5>1. Len(s_call.steps) # 0
          BY <1>a
        <5>2. s_call.action = "restart" /\ s_call.step = "start" /\ Len(s_call.steps) = 1
          BY <1>0, <5>1 DEF ControlInv, StepsInv
        <5>3. i \in 1..1
          BY <5>2
        <5> QED BY <5>2, <5>3
      <4>4. Control!StepOf(i) = "stop"
        BY <4>3 DEF Control!StepOf
      <4>5. s_call.steps[i].accepted \in BOOLEAN
        <5>1. s_call.steps \in Seq(Results)
          BY <1>a DEF CallT
        <5>2. s_call.steps[i] \in Results
          BY <5>1
        <5> QED BY <5>2 DEF Results
      <4>6. AskedIs("stop", s_call.steps[i].accepted)' = AskedIs("stop", s_call.steps[i].accepted)
        BY <2>9, <2>14, <4>3, <4>5
      <4> QED BY <2>9, <4>1, <4>2, <4>4, <4>6 DEF StepTrue
    <3> QED BY <2>9, <3>1 DEF EndedInv
  <2>18. HeldInv'
    BY <1>0, <1>a, <2>2, <2>9, <2>10 DEF ControlInv, HeldInv, Stepping, ServiceT, PastT
  <2>19. OrderInv'
    BY <1>0, <1>a, <2>4, <2>7, <2>9, <2>10, <2>11
       DEF ControlInv, OrderInv, AskedInv, StepsInv, PastT
  <2>20. DeleteInv'
    BY <1>0, <2>9 DEF ControlInv, StepsInv, DeleteInv, Deleting
  <2> QED BY <2>12, <2>13, <2>16, <2>17, <2>18, <2>19, <2>20 DEF ControlInv
<1> QED BY <1>1, <1>2 DEF Control!Request

\* Time passes and the caller cancels.
LEMMA TickKeeps == ASSUME ControlInv, Control!Tick PROVE ControlInv'
<1>1. clock \in [now : Nat, canceled : BOOLEAN]
  BY DEF ControlInv, ControlTyped
<1>2. clock' = [clock EXCEPT !.now = clock.now + 1] /\ UNCHANGED <<s_service, s_call, s_past>>
  BY DEF Control!Tick
<1>3. clock.now + 1 \in Nat
  BY <1>1
<1>4. clock' = [now |-> clock.now + 1, canceled |-> clock.canceled]
  BY <1>1, <1>2
<1>5. clock' \in [now : Nat, canceled : BOOLEAN]
  BY <1>1, <1>3, <1>4
<1> QED BY <1>2, <1>5, ClockKeeps

LEMMA CancelKeeps == ASSUME ControlInv, Control!Cancel PROVE ControlInv'
<1>1. clock \in [now : Nat, canceled : BOOLEAN]
  BY DEF ControlInv, ControlTyped
<1>2. clock' = [clock EXCEPT !.canceled = TRUE] /\ UNCHANGED <<s_service, s_call, s_past>>
  BY DEF Control!Cancel
<1>3. clock' \in [now : Nat, canceled : BOOLEAN]
  BY <1>1, <1>2
<1> QED BY <1>2, <1>3, ClockKeeps

\* The service could not be opened, or the call was cancelled: there is no step to report.
LEMMA GiveUpKeeps ==
    ASSUME ControlInv, s_call.pc = "open", Control!Go("done"),
           UNCHANGED <<s_service, s_past, clock>>
    PROVE  ControlInv'
<1>1. s_call \in CallT /\ s_call' = [s_call EXCEPT !.pc = "done"]
  BY DEF ControlInv, ControlTyped, Control!Go
<1>2. /\ s_call' \in CallT /\ s_call'.pc = "done" /\ s_call'.action = s_call.action
      /\ s_call'.step = s_call.step /\ s_call'.steps = s_call.steps
      /\ s_call'.result = s_call.result
  BY <1>1 DEF CallT, Places_s
<1>3. s_call.steps = <<>> /\ Len(s_call.steps) = 0
  BY DEF ControlInv, StepsInv
<1>4. ~Stepping' /\ Deleting' = Deleting
  BY <1>2 DEF Stepping, Deleting
<1>5. ControlTyped'
  BY <1>2 DEF ControlInv, ControlTyped
<1>6. StepsInv'
  BY <1>2, <1>3, <1>4 DEF ControlInv, StepsInv, Stages
<1>7. AskedInv'
  BY <1>2, <1>4 DEF AskedInv
<1>8. EndedInv'
  BY <1>2, <1>3 DEF EndedInv
<1>9. HeldInv'
  BY <1>2, <1>4 DEF HeldInv
<1>10. OrderInv'
  BY <1>2, <1>3, <1>4 DEF ControlInv, AskedInv, OrderInv
<1>11. DeleteInv'
  BY <1>2, <1>3, <1>4 DEF ControlInv, AskedInv, DeleteInv
<1> QED BY <1>5, <1>6, <1>7, <1>8, <1>9, <1>10, <1>11 DEF ControlInv

\* A transition opens its service and begins.
LEMMA OpenKeeps == ASSUME ControlInv, Control!OpenHandle PROVE ControlInv'
<1>0. s_call.pc = "open" /\ s_call.action # "delete" /\ clock' = clock
  BY DEF Control!OpenHandle
<1>a. /\ s_call \in CallT /\ s_service \in ServiceT /\ s_past \in PastT
      /\ s_call.steps = <<>> /\ Len(s_call.steps) = 0
      /\ s_call.result = Control!Result
      /\ \A a \in {"start", "stop", "delete"} : s_past.asked[a] = <<>>
  BY <1>0 DEF ControlInv, ControlTyped, StepsInv, AskedInv
<1>1. CASE Control!Go("done") /\ Control!Quiet
  BY <1>0, <1>1, GiveUpKeeps DEF Control!Quiet
<1> DEFINE s == [s_service EXCEPT !.held = TRUE]
           p == [s_past EXCEPT !.first_id = s_service.id]
           step == IF s_call.action = "start" THEN "start" ELSE "stop"
<1>2. CASE /\ s_service.life # "absent" /\ Control!Become(s, p)
           /\ s_call' = [s_call EXCEPT !.pc = "begin", !.step = step]
  <2>1. /\ s \in ServiceT /\ s.held = TRUE /\ s.life = s_service.life
        /\ s.id = s_service.id /\ s.status = s_service.status
    BY <1>a DEF ServiceT
  <2>2. p \in PastT /\ p.asked = s_past.asked /\ p.first_id = s_service.id
    BY <1>a DEF PastT, ServiceT
  <2>3. step \in {"start", "stop"}
    OBVIOUS
  <2>4. s_call.action # "restart" => step = s_call.action
    BY <1>0, <1>a DEF CallT
  <2>5. s_call.action = "restart" => step = "stop"
    OBVIOUS
  <2> HIDE DEF s, p, step
  <2>6. /\ s_service' = s /\ s_past' \in PastT /\ s_past'.asked = s_past.asked
        /\ s_past'.first_id = s.id
        /\ s_past'.stopped <=> p.stopped \/ (s.life # "absent" /\ s.status.state = "stopped")
        /\ s_past'.restarted <=> p.restarted \/ (p.stopped /\ s.status.state = "running")
        /\ s_past'.absent <=> p.absent \/ s.life = "absent"
    BY <1>2, <2>1, <2>2, SeenIs DEF Control!Become
  <2>7. /\ s_call' \in CallT /\ s_call'.pc = "begin" /\ s_call'.action = s_call.action
        /\ s_call'.step = step /\ s_call'.steps = s_call.steps
        /\ s_call'.result = s_call.result
    BY <1>2, <1>a, <2>3 DEF CallT, Places_s
  <2>8. Stepping' /\ ~Deleting'
    BY <1>0, <2>7 DEF Stepping, Deleting
  <2>9. ControlTyped'
    BY <1>0, <2>1, <2>6, <2>7 DEF ControlInv, ControlTyped
  <2>10. StepsInv'
    BY <1>a, <2>4, <2>5, <2>7, <2>8 DEF StepsInv, Stages
  <2>11. \A a \in {"start", "stop"} : s_past'.asked[a] = <<>>
    BY <1>a, <2>6
  <2>12. ~s_call'.result.accepted
    BY <1>a, <2>7, StatusesAre
  <2>13. AskedInv'
    BY <1>a, <2>3, <2>6, <2>7, <2>8, <2>11, <2>12 DEF AskedInv, AskedIs
  <2>14. EndedInv'
    BY <1>a, <2>7 DEF EndedInv
  <2>15. HeldInv'
    <3>1. p.stopped = s_past.stopped /\ ~s_past.stopped
      BY <1>0, <1>a DEF p, ControlInv, HeldInv, PastT
    <3> QED BY <1>2, <2>1, <2>6, <2>7, <2>8, <3>1 DEF HeldInv
  <2>16. OrderInv'
    BY <1>a, <2>5, <2>6, <2>7, <2>8, StatusesAre DEF OrderInv
  <2>17. DeleteInv'
    BY <2>8 DEF DeleteInv
  <2> QED BY <2>9, <2>10, <2>13, <2>14, <2>15, <2>16, <2>17 DEF ControlInv
<1> QED BY <1>1, <1>2 DEF Control!OpenHandle

\* A deletion goes on, or is done: only its request and its report matter.
LEMMA StageKeeps ==
    ASSUME ControlInv, Deleting, ControlTyped', s_call'.action = s_call.action,
           s_call'.step = s_call.step, s_call'.pc \in Stages \cup {"done"},
           s_call'.pc \in Stages => s_call'.steps = <<>>, Len(s_call'.steps) <= 1,
           HeldInv', DeleteInv'
    PROVE  ControlInv'
<1>1. Deleting' /\ ~Stepping' /\ s_call'.pc # "open" /\ s_call'.action = "delete"
  BY DEF Deleting, Stepping, Stages
<1>2. Len(s_call'.steps) \in Nat
  BY DEF ControlTyped, CallT
<1>3. StepsInv'
  BY <1>1, <1>2 DEF ControlInv, StepsInv
<1>4. AskedInv'
  BY <1>1 DEF AskedInv, Stages
<1>5. EndedInv'
  BY <1>1 DEF EndedInv
<1>6. OrderInv'
  BY <1>1 DEF OrderInv
<1> QED BY <1>3, <1>4, <1>5, <1>6 DEF ControlInv

\* The report of a deletion.
LEMMA ReportKeeps ==
    ASSUME ControlInv, Deleting, s_call.pc # "done", clock' = clock,
           NEW outcome \in Outcomes, Control!Reports(outcome),
           s_service' \in ServiceT, s_past' \in PastT, s_past'.asked = s_past.asked,
           s_past'.asked["delete"] \in {<<>>, <<s_past'.first_id>>},
           Control!Success(outcome) => s_past'.absent
    PROVE  ControlInv'
<1> DEFINE e == [s_call.result EXCEPT !.outcome = outcome]
<1>1. s_call \in CallT /\ s_call.result \in Results
  BY DEF ControlInv, ControlTyped, CallT
<1>2. e \in Results /\ e.outcome = outcome /\ e.accepted = s_call.result.accepted
  BY <1>1 DEF Results
<1>3. s_call' = [s_call EXCEPT !.pc = "done", !.steps = <<e>>]
  BY DEF Control!Reports, Control!Report
<1> HIDE DEF e
<1>4. <<e>> \in Seq(Results) /\ Len(<<e>>) = 1 /\ <<e>>[1] = e /\ <<e>> # <<>>
  BY <1>2
<1>5. /\ s_call' \in CallT /\ s_call'.pc = "done" /\ s_call'.action = s_call.action
      /\ s_call'.step = s_call.step /\ s_call'.steps = <<e>>
  BY <1>1, <1>3, <1>4 DEF CallT, Places_s
<1>6. ControlTyped'
  BY <1>5 DEF ControlInv, ControlTyped
<1>7. HeldInv'
  BY <1>5 DEF HeldInv, Stepping
<1>8. (s_past.asked["delete"] # <<>>) = s_call.result.accepted
  BY DEF ControlInv, DeleteInv
<1>9. DeleteInv'
  BY <1>2, <1>4, <1>5, <1>8 DEF DeleteInv
<1>10. s_call'.pc \notin Stages
  BY <1>5 DEF Stages
<1> QED BY <1>4, <1>5, <1>6, <1>7, <1>9, <1>10, StageKeeps

\* A deletion goes on without a new request.
LEMMA OnKeeps ==
    ASSUME ControlInv, Deleting, s_call.pc \in Stages \cup {"open"}, clock' = clock,
           s_call' \in CallT, s_call'.action = s_call.action, s_call'.step = s_call.step,
           s_call'.steps = s_call.steps, s_call'.result = s_call.result,
           s_call'.pc \in Stages,
           s_call'.pc \in {"look", "delete"} =>
              /\ s_call.pc \in {"open", "look"}
              /\ s_service'.held /\ s_past'.first_id = s_service'.id,
           s_service' \in ServiceT, s_past' \in PastT, s_past'.asked = s_past.asked,
           s_past'.asked["delete"] \in {<<>>, <<s_past'.first_id>>},
           s_service'.held => s_service'.life # "absent",
           s_service'.life = "absent" => s_past'.absent,
           s_service'.life # "absent" /\ s_service'.status.state = "stopped" => s_past'.stopped,
           s_past'.stopped /\ s_service'.status.state = "running" => s_past'.restarted
    PROVE  ControlInv'
<1>1. ControlTyped'
  BY DEF ControlInv, ControlTyped
<1>2. s_call'.steps = <<>> /\ Len(s_call'.steps) = 0
  BY DEF ControlInv, StepsInv
<1>3. s_call'.pc \notin {"open", "done"} /\ ~Stepping' /\ s_call.pc # "done"
  BY DEF Stages, Stepping
<1>4. HeldInv'
  BY <1>3 DEF HeldInv
<1>5. DeleteInv'
  BY <1>3 DEF ControlInv, DeleteInv
<1> QED BY <1>1, <1>2, <1>4, <1>5, StageKeeps

\* What a deletion knows of the service before a step.
LEMMA DeletingIs ==
    ASSUME ControlInv
    PROVE  /\ s_call \in CallT /\ s_service \in ServiceT /\ s_past \in PastT
           /\ Deleting => s_past.asked["delete"] \in {<<>>, <<s_past.first_id>>}
           /\ s_service.held /\ s_call.pc # "done" => s_service.life # "absent"
           /\ Control!Seen(s_past, s_service) \in PastT
           /\ s_call.pc \notin {"open", "done"} =>
                /\ s_service.life = "absent" => s_past.absent
                /\ s_service.life # "absent" /\ s_service.status.state = "stopped" => s_past.stopped
                /\ s_past.stopped /\ s_service.status.state = "running" => s_past.restarted
  BY SeenIs DEF ControlInv, ControlTyped, HeldInv, DeleteInv

LEMMA DeleteOpensKeeps == ASSUME ControlInv, Control!DeleteOpens PROVE ControlInv'
<1>0. /\ s_call.pc = "open" /\ s_call.action = "delete" /\ clock' = clock /\ Deleting
      /\ s_past.asked["delete"] = <<>> /\ ~s_past.stopped
  BY DEF Control!DeleteOpens, Deleting, ControlInv, AskedInv, HeldInv
<1> DEFINE p == [s_past EXCEPT !.first_id = s_service.id]
           s == [s_service EXCEPT !.held = TRUE]
<1>a. /\ p \in PastT /\ p.asked = s_past.asked /\ p.first_id = s_service.id
      /\ p.stopped = s_past.stopped
  BY DeletingIs DEF PastT, ServiceT
<1>b. /\ s \in ServiceT /\ s.held = TRUE /\ s.life = s_service.life
      /\ s.id = s_service.id /\ s.status = s_service.status
  BY DeletingIs DEF ServiceT
<1>1. CASE s_service.life = "absent" /\ Control!Reports("already_absent")
           /\ Control!Become(s_service, s_past)
  <2>1. /\ s_service' = s_service /\ s_past' \in PastT /\ s_past'.asked = s_past.asked
        /\ s_past'.absent
    BY <1>1, DeletingIs, SeenIs DEF Control!Become
  <2>2. "already_absent" \in Outcomes
    BY DEF Outcomes
  <2> QED BY <1>0, <1>1, <2>1, <2>2, DeletingIs, ReportKeeps
<1>2. CASE /\ s_service.life = "marked" /\ Control!Become(s_service, p)
           /\ s_call' = [s_call EXCEPT !.pc = "probe", !.marked = TRUE]
  <2> HIDE DEF p
  <2>1. /\ s_service' = s_service /\ s_past' \in PastT /\ s_past'.asked = s_past.asked
        /\ s_service.status.state = "stopped" => s_past'.stopped
        /\ s_past'.stopped => p.stopped \/ s_service.status.state = "stopped"
    BY <1>2, <1>a, DeletingIs, SeenIs DEF Control!Become
  <2>2. /\ s_call' \in CallT /\ s_call'.pc = "probe" /\ s_call'.action = s_call.action
        /\ s_call'.step = s_call.step /\ s_call'.steps = s_call.steps
        /\ s_call'.result = s_call.result
    BY <1>2, DeletingIs DEF CallT, Places_s
  <2> QED BY <1>0, <1>2, <1>a, <2>1, <2>2, DeletingIs, OnKeeps DEF Stages
<1>3. CASE s_service.life # "absent" /\ Control!Go("look") /\ Control!Become(s, p)
  <2> HIDE DEF p, s
  <2>1. /\ s_service' = s /\ s_past' \in PastT /\ s_past'.asked = s_past.asked
        /\ s_past'.first_id = s.id
        /\ s.status.state = "stopped" => s_past'.stopped
        /\ s_past'.stopped => p.stopped \/ s.status.state = "stopped"
    BY <1>3, <1>a, <1>b, SeenIs DEF Control!Become
  <2>2. /\ s_call' \in CallT /\ s_call'.pc = "look" /\ s_call'.action = s_call.action
        /\ s_call'.step = s_call.step /\ s_call'.steps = s_call.steps
        /\ s_call'.result = s_call.result
    BY <1>3, DeletingIs DEF CallT, Places_s, Control!Go
  <2> QED BY <1>0, <1>3, <1>a, <1>b, <2>1, <2>2, DeletingIs, OnKeeps DEF Stages
<1>4. CASE Control!Go("done") /\ Control!Quiet
  BY <1>0, <1>4, GiveUpKeeps DEF Control!Quiet
<1> QED BY <1>1, <1>2, <1>3, <1>4 DEF Control!DeleteOpens

LEMMA DeleteLooksKeeps == ASSUME ControlInv, Control!DeleteLooks PROVE ControlInv'
<1> DEFINE s == [s_service EXCEPT !.held = FALSE]
<1>0. s_call.pc = "look" /\ UNCHANGED <<clock, s_past>> /\ Deleting
  BY DEF Control!DeleteLooks, ControlInv, StepsInv, Stages
<1>1. s \in ServiceT
  BY DeletingIs DEF ServiceT
<1>2. CASE Control!Go("delete") /\ UNCHANGED s_service
  <2>1. /\ s_call' \in CallT /\ s_call'.pc = "delete" /\ s_call'.action = s_call.action
        /\ s_call'.step = s_call.step /\ s_call'.steps = s_call.steps
        /\ s_call'.result = s_call.result
    BY <1>2, DeletingIs DEF CallT, Places_s, Control!Go
  <2>2. s_service.held /\ s_past.first_id = s_service.id
    BY <1>0 DEF ControlInv, HeldInv
  <2> QED BY <1>0, <1>2, <2>1, <2>2, DeletingIs, OnKeeps DEF Stages
<1>3. CASE (\E outcome \in {"timed_out", "interrupted"} : Control!Reports(outcome))
           /\ s_service' = s
  <2>1. PICK outcome \in {"timed_out", "interrupted"} : Control!Reports(outcome)
    BY <1>3
  <2>2. outcome \in Outcomes /\ ~Control!Success(outcome)
    BY DEF Outcomes, Control!Success
  <2> QED BY <1>0, <1>1, <1>3, <2>1, <2>2, DeletingIs, ReportKeeps
<1> QED BY <1>2, <1>3 DEF Control!DeleteLooks

\* The one request of a deletion.
LEMMA DeleteRequestKeeps == ASSUME ControlInv, Control!DeleteRequest PROVE ControlInv'
<1>0. /\ s_call.pc = "delete" /\ clock' = clock /\ Deleting
      /\ s_past.asked["delete"] = <<>> /\ ~s_call.result.accepted
      /\ s_past.first_id = s_service.id
      /\ s_call.result \in Results /\ s_call.steps = <<>>
  BY DEF Control!DeleteRequest, ControlInv, ControlTyped, CallT, StepsInv, Stages, HeldInv,
         DeleteInv
<1> DEFINE closed == [s_service EXCEPT !.held = FALSE]
           asks == [s_past.asked EXCEPT !["delete"] = Append(s_past.asked["delete"], s_service.id)]
           p == [s_past EXCEPT !.asked = asks]
           result == [s_call.result EXCEPT !.accepted = TRUE]
           s == [closed EXCEPT !.life = "marked"]
<1>1. /\ closed \in ServiceT /\ closed.held = FALSE /\ closed.life = s_service.life
      /\ closed.id = s_service.id /\ closed.status = s_service.status
  BY DeletingIs DEF ServiceT
<1>2. CASE /\ s_service.life = "present"
           /\ s_call' = [s_call EXCEPT !.pc = "probe", !.marked = TRUE,
                                       !.result.accepted = TRUE]
           /\ Control!Become(s, [s_past EXCEPT !.asked["delete"] = Append(@, s_service.id)])
  <2>0. Control!Become(s, p)
    BY <1>2
  <2>a. s_call' = [s_call EXCEPT !.pc = "probe", !.marked = TRUE, !.result = result]
    BY <1>2
  <2>1. s \in ServiceT /\ s.held = FALSE /\ s.life = "marked" /\ s.status = s_service.status
    <3> HIDE DEF closed
    <3> QED BY <1>1 DEF ServiceT
  <2>2. /\ asks \in [{"start", "stop", "delete"} -> Seq(Nat)]
        /\ asks["delete"] = <<s_service.id>>
    <3>1. /\ s_past.asked \in [{"start", "stop", "delete"} -> Seq(Nat)]
          /\ s_service.id \in Nat
      BY DeletingIs DEF PastT, ServiceT
    <3> QED BY <1>0, <3>1
  <2> HIDE DEF asks, s, closed
  <2>3. /\ p \in PastT /\ p.asked = asks /\ p.first_id = s_past.first_id
        /\ p.stopped = s_past.stopped /\ p.restarted = s_past.restarted
    BY <2>2, DeletingIs DEF PastT
  <2>4. result \in Results /\ result.accepted = TRUE
    BY <1>0 DEF Results
  <2> HIDE DEF p, result
  <2>5. /\ s_service' = s /\ s_past' \in PastT /\ s_past'.asked = asks
        /\ s_past'.first_id = s_past.first_id
        /\ s_past'.stopped <=> p.stopped \/ (s.life # "absent" /\ s.status.state = "stopped")
        /\ s_past'.restarted <=> p.restarted \/ (p.stopped /\ s.status.state = "running")
    BY <2>0, <2>1, <2>3, SeenIs DEF Control!Become
  <2>6. /\ s_call' \in CallT /\ s_call'.pc = "probe" /\ s_call'.action = s_call.action
        /\ s_call'.step = s_call.step /\ s_call'.steps = s_call.steps
        /\ s_call'.result = result
    BY <2>a, <2>4, DeletingIs DEF CallT, Places_s
  <2>7. ControlTyped'
    BY <1>0, <2>1, <2>5, <2>6 DEF ControlInv, ControlTyped
  <2>8. HeldInv'
    BY <2>1, <2>3, <2>5, <2>6 DEF HeldInv, Stepping
  <2>9. DeleteInv'
    <3>1. s_past'.asked["delete"] = <<s_past'.first_id>> /\ s_call'.result.accepted = TRUE
      BY ONLY <1>0, <2>2, <2>4, <2>5, <2>6
    <3>2. <<s_past'.first_id>> # <<>>
      OBVIOUS
    <3>3. s_call'.pc = "probe"
      BY <2>6
    <3> QED BY ONLY <3>1, <3>2, <3>3 DEF DeleteInv
  <2>10. Len(s_call'.steps) <= 1 /\ s_call'.pc \in Stages
    BY <1>0, <2>6 DEF Stages
  <2> QED BY <1>0, <2>6, <2>7, <2>8, <2>9, <2>10, StageKeeps
<1>3. CASE /\ s_service.life = "marked" /\ Control!Become(closed, s_past)
           /\ s_call' = [s_call EXCEPT !.pc = "probe", !.marked = TRUE]
  <2> HIDE DEF closed
  <2>1. /\ s_service' = closed /\ s_past' \in PastT /\ s_past'.asked = s_past.asked
        /\ s_past'.first_id = s_past.first_id
        /\ s_past'.stopped <=> s_past.stopped
                               \/ (closed.life # "absent" /\ closed.status.state = "stopped")
        /\ s_past'.restarted <=> s_past.restarted
                                 \/ (s_past.stopped /\ closed.status.state = "running")
    BY <1>1, <1>3, DeletingIs, SeenIs DEF Control!Become
  <2>2. /\ s_call' \in CallT /\ s_call'.pc = "probe" /\ s_call'.action = s_call.action
        /\ s_call'.step = s_call.step /\ s_call'.steps = s_call.steps
        /\ s_call'.result = s_call.result
    BY <1>3, DeletingIs DEF CallT, Places_s
  <2> QED BY <1>0, <1>1, <1>3, <2>1, <2>2, DeletingIs, OnKeeps DEF Stages
<1>4. CASE Control!Reports("request_failed") /\ Control!Become(closed, s_past)
  <2> HIDE DEF closed
  <2>1. /\ s_service' = closed /\ s_past' \in PastT /\ s_past'.asked = s_past.asked
        /\ s_past'.first_id = s_past.first_id
    BY <1>1, <1>4, DeletingIs, SeenIs DEF Control!Become
  <2>2. "request_failed" \in Outcomes /\ ~Control!Success("request_failed")
    BY DEF Outcomes, Control!Success
  <2> QED BY <1>0, <1>1, <1>4, <2>1, <2>2, DeletingIs, ReportKeeps
<1> QED BY <1>2, <1>3, <1>4 DEF Control!DeleteRequest

\* A deletion waits for the name to go.
LEMMA ProbeKeeps == ASSUME ControlInv, Control!Probe PROVE ControlInv'
<1>0. s_call.pc = "probe" /\ UNCHANGED <<clock, s_service, s_past>> /\ Deleting
  BY DEF Control!Probe, Control!Quiet, ControlInv, StepsInv, Stages
<1>1. CASE \E outcome \in {"interrupted", "timed_out", "pending", "query_failed"} :
              Control!Reports(outcome)
  <2>1. PICK outcome \in {"interrupted", "timed_out", "pending", "query_failed"} :
           Control!Reports(outcome)
    BY <1>1
  <2>2. outcome \in Outcomes /\ ~Control!Success(outcome)
    BY DEF Outcomes, Control!Success
  <2> QED BY <1>0, <2>1, <2>2, DeletingIs, ReportKeeps
<1>2. CASE s_service.life = "absent" /\ Control!Reports("absent")
  <2>1. "absent" \in Outcomes
    BY DEF Outcomes
  <2> QED BY <1>0, <1>2, <2>1, DeletingIs, ReportKeeps
<1>3. CASE s_call' = [s_call EXCEPT !.pc = "pausing", !.wake = clock.now + 1]
  <2>1. clock.now + 1 \in Nat
    BY DEF ControlInv, ControlTyped
  <2> DEFINE wake == clock.now + 1
  <2> HIDE DEF wake
  <2>2. s_call' = [s_call EXCEPT !.pc = "pausing", !.wake = wake] /\ wake \in Nat
    BY <1>3, <2>1 DEF wake
  <2>3. /\ s_call' \in CallT /\ s_call'.pc = "pausing" /\ s_call'.action = s_call.action
        /\ s_call'.step = s_call.step /\ s_call'.steps = s_call.steps
        /\ s_call'.result = s_call.result
    BY <2>2, DeletingIs DEF CallT, Places_s
  <2> QED BY <1>0, <2>3, DeletingIs, OnKeeps DEF Stages
<1> QED BY <1>1, <1>2, <1>3 DEF Control!Probe

LEMMA ProbeAgainKeeps == ASSUME ControlInv, Control!ProbeAgain PROVE ControlInv'
<1>0. s_call.pc = "pausing" /\ UNCHANGED <<clock, s_service, s_past>> /\ Deleting
  BY DEF Control!ProbeAgain, Control!Quiet, ControlInv, StepsInv, Stages
<1>1. CASE Control!Reports("interrupted")
  <2>1. "interrupted" \in Outcomes /\ ~Control!Success("interrupted")
    BY DEF Outcomes, Control!Success
  <2> QED BY <1>0, <1>1, <2>1, DeletingIs, ReportKeeps
<1>2. CASE Control!Go("probe")
  <2>1. /\ s_call' \in CallT /\ s_call'.pc = "probe" /\ s_call'.action = s_call.action
        /\ s_call'.step = s_call.step /\ s_call'.steps = s_call.steps
        /\ s_call'.result = s_call.result
    BY <1>2, DeletingIs DEF CallT, Places_s, Control!Go
  <2> QED BY <1>0, <2>1, DeletingIs, OnKeeps DEF Stages
<1> QED BY <1>1, <1>2 DEF Control!ProbeAgain

LEMMA InitControl == Control!Init => ControlInv
<1> SUFFICES ASSUME Control!Init PROVE ControlInv
  OBVIOUS
<1>1. s_service \in ServiceT /\ ~s_service.held
  <2>1. /\ Control!Settle("running", 0) \in Statuses /\ Control!Settle("stopped", 0) \in Statuses
        /\ \A h \in Hints, s \in {"start_pending", "stop_pending"} :
              Control!Pend(s, h) \in Statuses
    BY StatusesAre DEF States
  <2>2. CASE s_service = [id |-> 0, life |-> "absent", held |-> FALSE,
                          status |-> Control!Settle("stopped", 0)]
    <3> DEFINE stopped == Control!Settle("stopped", 0)
    <3>1. s_service = [id |-> 0, life |-> "absent", held |-> FALSE, status |-> stopped]
          /\ stopped \in Statuses
      BY <2>1, <2>2
    <3> HIDE DEF stopped
    <3>2. s_service.held = FALSE
      BY <3>1
    <3>3. s_service \in ServiceT
      BY <3>1 DEF ServiceT
    <3> QED BY <3>2, <3>3
  <2>3. CASE s_service # [id |-> 0, life |-> "absent", held |-> FALSE,
                          status |-> Control!Settle("stopped", 0)]
    <3> DEFINE Early == {Control!Settle("running", 0), Control!Settle("stopped", 0)}
                        \cup {Control!Pend("start_pending", h) : h \in Hints}
                        \cup {Control!Pend("stop_pending", h) : h \in Hints}
    <3>0. s_service \in [id : {1}, life : {"present", "marked"}, held : {FALSE}, status : Early]
      BY <2>3 DEF Control!Init
    <3>2. Early \subseteq Statuses
      BY <2>1
    <3> HIDE DEF Early
    <3>1. /\ s_service = [id |-> s_service.id, life |-> s_service.life,
                          held |-> s_service.held, status |-> s_service.status]
          /\ s_service.id = 1 /\ s_service.life \in {"present", "marked"}
          /\ s_service.held \in {FALSE} /\ s_service.status \in Early
      BY <3>0
    <3>5. s_service.status \in Statuses
      BY <3>1, <3>2
    <3>3. s_service.held = FALSE
      BY <3>1
    <3>4. s_service \in ServiceT
      <4> DEFINE id == s_service.id
                 life == s_service.life
                 held == s_service.held
                 status == s_service.status
      <4>1. s_service = [id |-> id, life |-> life, held |-> held, status |-> status]
        BY <3>1
      <4>2. id \in Nat /\ life \in {"present", "marked", "absent"}
        BY <3>1
      <4>3. status \in Statuses
        BY <3>5
      <4>4. held \in BOOLEAN
        BY <3>3
      <4> HIDE DEF id, life, held, status
      <4> QED BY <4>1, <4>2, <4>3, <4>4 DEF ServiceT
    <3> QED BY <3>3, <3>4
  <2> QED BY <2>2, <2>3
<1>3. /\ s_call \in CallT /\ s_call.pc = "open" /\ s_call.steps = <<>>
      /\ s_call.step = "none" /\ s_call.result = Control!Result
  BY StatusesAre DEF Control!Init, CallT, Places_s
<1>4. /\ s_past \in PastT /\ ~s_past.stopped
      /\ \A a1 \in {"start", "stop", "delete"} : s_past.asked[a1] = <<>>
  BY DEF Control!Init, Control!StepActions, PastT
<1>5. clock \in [now : Nat, canceled : BOOLEAN]
  BY DEF Control!Init
<1>6. Len(s_call.steps) = 0 /\ ~Stepping /\ s_call.pc \notin Stages
  BY <1>3 DEF Stepping, Stages
<1>7. ControlTyped
  BY <1>1, <1>3, <1>4, <1>5 DEF ControlTyped
<1>8. StepsInv /\ AskedInv /\ EndedInv
  BY <1>3, <1>4, <1>6 DEF StepsInv, AskedInv, EndedInv, Deleting
<1>9. HeldInv /\ OrderInv
  BY <1>1, <1>3, <1>4, <1>6 DEF HeldInv, OrderInv
<1>10. DeleteInv
  BY <1>3, <1>4, StatusesAre DEF DeleteInv
<1> QED BY <1>7, <1>8, <1>9, <1>10 DEF ControlInv

LEMMA ControlStep == ControlInv /\ ControlSteps => ControlInv'
<1> SUFFICES ASSUME ControlInv, ControlSteps PROVE ControlInv'
  OBVIOUS
<1>1. CASE Control!CallStep
  BY <1>1, OpenKeeps, QueryKeeps, DecideKeeps, RequestKeeps, InterruptedKeeps, RefusedKeeps,
     WakeKeeps, DeleteOpensKeeps, DeleteLooksKeeps, DeleteRequestKeeps, ProbeKeeps,
     ProbeAgainKeeps DEF Control!CallStep
<1>2. CASE Control!Advance \/ Control!Arrive \/ Control!Fall \/ Control!OutsideActs
           \/ Control!Vanish
  BY <1>2, AdvanceKeeps, ArriveKeeps, FallKeeps, OutsideKeeps, VanishKeeps
<1>3. CASE Control!Tick \/ Control!Cancel
  BY <1>3, TickKeeps, CancelKeeps
<1>4. CASE UNCHANGED Control!vars
  <2>1. UNCHANGED <<s_service, s_call, s_past>> /\ clock' = clock
    BY <1>4 DEF Control!vars
  <2>2. clock' \in [now : Nat, canceled : BOOLEAN]
    BY <2>1 DEF ControlInv, ControlTyped
  <2> QED BY <2>1, <2>2, ClockKeeps
<1> QED BY <1>1, <1>2, <1>3, <1>4 DEF ControlSteps, Control!Next

\* What the inductive invariant says of the reports.
LEMMA ControlInvImplies == ControlInv => Control!ControlIsTrue
<1> SUFFICES ASSUME ControlInv PROVE Control!ControlIsTrue
  OBVIOUS
<1>1. Control!StepsAreTrue
  <2>1. ASSUME s_call.pc = "done", s_call.action # "delete", NEW i \in 1..Len(s_call.steps)
        PROVE  StepTrue(i)
    BY <2>1 DEF ControlInv, EndedInv, Deleting
  <2> QED BY <2>1 DEF StepTrue, AskedIs, Control!StepsAreTrue
<1>2. Control!RestartIsOrdered
  BY DEF ControlInv, OrderInv, Control!RestartIsOrdered
<1>3. Control!OriginalOnly
  BY DEF ControlInv, DeleteInv, Deleting, Control!OriginalOnly
<1> QED BY <1>1, <1>2, <1>3 DEF Control!ControlIsTrue

----------------------------------------------------------------------------
(* The composition: a behaviour is a behaviour of the part that was chosen. *)

\* A part that is not chosen does not move, so what one part keeps, the composition keeps.
PartsInv ==
    /\ part = "control" => ControlInv
    /\ part = "configuration" => ConfigInv
    /\ part = "storage" => AdminInv
    /\ part = "pool" => PoolInv

LEMMA PartsKept == AllSpec => []PartsInv
<1>1. AllInit => PartsInv
  BY InitControl, InitConfig, InitAdmin, InitPool DEF AllInit, PartsInv
<1>2. PartsInv /\ [AllNext]_all => PartsInv'
  <2> SUFFICES ASSUME PartsInv, [AllNext]_all PROVE PartsInv'
    OBVIOUS
  <2>1. part' = part
    BY DEF AllNext, all
  <2>2. ASSUME part = "control" PROVE ControlInv'
    <3>1. ControlSteps
      BY <2>2 DEF AllNext, all, controlling, ControlSteps, Control!vars
    <3> QED BY <2>2, <3>1, ControlStep DEF PartsInv
  <2>3. ASSUME part = "configuration" PROVE ConfigInv'
    <3>1. ConfigSteps
      BY <2>3 DEF AllNext, all, configuring, ConfigSteps, Configuration!vars
    <3> QED BY <2>3, <3>1, ConfigStep DEF PartsInv
  <2>4. ASSUME part = "storage" PROVE AdminInv'
    <3>1. AdminSteps
      BY <2>4 DEF AllNext, all, administering, AdminSteps, Storage!vars
    <3> QED BY <2>4, <3>1, AdminStep DEF PartsInv
  <2>5. ASSUME part = "pool" PROVE PoolInv'
    <3>1. PoolSteps
      BY <2>5 DEF AllNext, all, pooling, PoolSteps, Pool!vars
    <3> QED BY <2>5, <3>1, PoolStep DEF PartsInv
  <2> QED BY <2>1, <2>2, <2>3, <2>4, <2>5 DEF PartsInv
<1> QED BY <1>1, <1>2, PTL DEF AllSpec

\* What a call on a Windows service reports is so (win32/service.rs), whatever other
\* programs do with the service meanwhile: every request that the manager took is counted,
\* and a step that says it was accepted sent one and no second, to the service that the call
\* opened, while one that does not say so sent none; a success was observed; a restart
\* starts only what had stopped; a deletion asks only for the service that had the name
\* first; a configuration lists the changes that took effect, all on the service it was
\* planned for.
THEOREM ServicesStayTrue == AllSpec => []ServicesAreTrue
<1>1. PartsInv => ServicesAreTrue
  BY ControlInvImplies, ConfigInvImplies DEF PartsInv, ServicesAreTrue
<1> QED BY <1>1, PartsKept, PTL

\* Two closures that mutate are never inside at once, those of callers answered long ago
\* included, so a mount or an image is what it was when it was checked; and a report that
\* says that no mutation was begun is true for ever after (the blocking administration
\* calls of win32), if it is the closure's own or that of a script.  The report of a caller
\* that gave up on a closure that runs is not meant: NothingHappensUntold is about it, and
\* the code does not keep it.
THEOREM AdministrationStaysSound == AllSpec => []AdministrationIsSound
<1>1. PartsInv => AdministrationIsSound
  BY AdminInvImplies DEF PartsInv, AdministrationIsSound
<1> QED BY <1>1, PartsKept, PTL

\* A request with a permit finds a slot, a worker has a command only of the request that
\* leases it, and what another command's background process had written when a request
\* polled its worker's stdout is never given to that request as its own (PowerShell pool);
\* what such a process writes after the poll cannot be told apart and is not meant.  For
\* every number of workers and requests, however callers go away and workers die.
THEOREM LeasesStaySound == AllSpec => []LeasesAreSound
<1>1. PartsInv => LeasesAreSound
  BY PoolInvImplies DEF PartsInv, LeasesAreSound
<1> QED BY <1>1, PartsKept, PTL
=============================================================================
