--------------------------- MODULE DesktopProofs ---------------------------
(***************************************************************************)
(* Theorems of the two parts of a desktop, for every instance of their     *)
(* constants: those of Observation, and that of the glow of Overlay.       *)
(*                                                                         *)
(* The restore of a host appends one event per watch with a recursive      *)
(* function. What it leaves is proved from the least number principle, a   *)
(* theorem about sets, in place of an induction scheme.                    *)
(***************************************************************************)
EXTENDS MCDesktop, FiniteSetTheorems, SequenceTheorems, WellFoundedInduction, TLAPS

----------------------------------------------------------------------------
(* The inductive invariant.                                                *)

\* A store with its parts, whose events are older than next and of watches that are there.
StoreOK(st) ==
    /\ st = [watches |-> st.watches, events |-> st.events, next |-> st.next]
    /\ st.watches \in [Watches -> WatchRecord \cup {NoRecord}]
    /\ st.events \subseteq Event
    /\ st.next \in Nat \ {0}
    /\ \A e \in st.events : e.id < st.next /\ st.watches[e.watch] # NoRecord

\* A checkpoint file, or the snapshot that will replace it.
FileOK(file) ==
    /\ StoreOK(file.store)
    /\ file.waits \in [Waits -> WaitRecord \cup {NoRecord}]

Files == {disk} \cup (IF writing = NoSave THEN {} ELSE {writing.snap})

DataInv ==
    /\ StoreOK(store)
    /\ waits \in [Waits -> WaitRecord \cup {NoRecord}]
    /\ log \subseteq Event
    /\ \A file \in Files : FileOK(file)

\* Where the threads and tasks of calls are.
ThreadInv ==
    /\ call \in [Calls -> {"new", "checked", "refused", "setup", "unspawned", "failed", "saving",
                           "returned", "dropped", "gone"}]
    /\ handles \subseteq Calls
    /\ provider \in [Watches -> {"none", "setup", "ready", "running", "failing", "finishing",
                                 "marking", "ended"}]
    /\ task \in [Waits -> {"none", "loop", "looked", "finishing", "ended"}]
    /\ seen \in [Waits -> Nat \cup {Stale}]
    /\ due \in [Waits -> Nat \cup {NotDue}]
    /\ verdict \in [Waits -> Outcomes]

\* A call that has not been admitted has left nothing anywhere.
FreshInv ==
    \A x \in Calls : call[x] \in {"new", "checked"} =>
        /\ x \in Watches => /\ provider[x] = "none" /\ x \notin finished
                            /\ ~Kept(x)
                            /\ \A file \in Files : file.store.watches[x] = NoRecord
        /\ x \in Waits => /\ task[x] = "none"
                          /\ waits[x] = NoRecord
                          /\ \A file \in Files : file.waits[x] = NoRecord

\* As long as a provider may still write, its watch has a record and a control.
HandleInv ==
    \A w \in Watches :
        Emitting(w) \/ provider[w] \in {"failing", "finishing"} =>
            Kept(w) /\ w \in handles /\ w \notin finished

\* What was recorded and is not kept was dropped, and its watch says up to where.
HistoryInv ==
    /\ store.events \subseteq log
    /\ \A e \in log :
          /\ e.id < store.next
          /\ \/ e \in store.events \/ e.watch \in forgotten
             \/ Kept(e.watch) /\ e.id <= store.watches[e.watch].dropped

NothingMissed(v, after, upto) ==
    \A e \in log : Matches(v, e) /\ after < e.id /\ e.id <= upto => e.watch \in forgotten

Hit(v, after, at) == after < at /\ \E e \in log : e.id = at /\ Matches(v, e)

\* A wait has read nothing that is not recorded yet.
SeenInv == \A v \in Waits : seen[v] < store.next

\* What a wait knows at each point of its loop.
Knows(v) ==
    LET r == waits[v] IN
    /\ r.after <= seen[v]
    /\ task[v] # "ended" => r.outcome \notin {"satisfied", "timed_out"}
    /\ task[v] \in {"loop", "looked"} => NothingMissed(v, r.after, seen[v])
    /\ task[v] = "finishing" =>
          /\ verdict[v] = "timed_out" => NothingMissed(v, r.after, seen[v])
          /\ verdict[v] = "satisfied" => Hit(v, r.after, seen[v])
    /\ task[v] = "ended" =>
          /\ r.outcome = "timed_out" =>
                r.cursor < store.next /\ NothingMissed(v, r.after, r.cursor)
          /\ r.outcome = "satisfied" => Hit(v, r.after, r.cursor)

WaitInv == \A v \in Waits : waits[v] # NoRecord /\ task[v] # "none" => Knows(v)

----------------------------------------------------------------------------
(* Least and greatest numbers.                                             *)

\* A set of naturals that is not empty has a least element.
LEMMA Least ==
    ASSUME NEW S \in SUBSET Nat, S # {}
    PROVE  \E n \in S : \A m \in S : n <= m
<1> DEFINE R == OpToRel(<, Nat)
<1>1. IsWellFoundedOn(R, Nat)
  BY NatLessThanWellFounded
<1>2. \A x, y \in Nat : y < x => <<y, x>> \in R
  BY DEF OpToRel
<1> HIDE DEF R
<1>3. PICK n \in S : \A m \in S : ~(<<m, n>> \in R)
  BY <1>1, WFMin
<1>4. ASSUME NEW m \in S PROVE n <= m
  <2>1. m \in Nat /\ n \in Nat
    OBVIOUS
  <2>2. ~(m < n)
    BY <1>2, <1>3, <2>1
  <2> QED
    BY <2>1, <2>2
<1> QED
  BY <1>4

\* One that has a bound has a greatest element.
LEMMA Greatest ==
    ASSUME NEW S \in SUBSET Nat, S # {}, NEW bound \in Nat, \A m \in S : m <= bound
    PROVE  \E n \in S : \A m \in S : m <= n
<1> DEFINE Uppers == {k \in Nat : \A m \in S : m <= k}
<1>1. PICK n \in Uppers : \A k \in Uppers : n <= k
  <2>1. bound \in Uppers
    OBVIOUS
  <2> HIDE DEF Uppers
  <2>2. Uppers \in SUBSET Nat
    BY DEF Uppers
  <2> QED
    BY <2>1, <2>2, Least
<1>2. n \in S
  <2> SUFFICES ASSUME n \notin S PROVE FALSE
    OBVIOUS
  <2>1. n \in Nat /\ \A m \in S : m < n
    OBVIOUS
  <2>2. PICK m \in S : m \in Nat /\ m < n
    BY <2>1
  <2>3. n - 1 \in Nat /\ \A k \in S : k <= n - 1
    BY <2>1, <2>2
  <2>4. n <= n - 1
    BY <1>1, <2>3
  <2> QED
    BY <2>1, <2>4
<1> QED
  BY <1>1, <1>2

\* A property that 0 has and that passes on holds up to n.
LEMMA UpTo ==
    ASSUME NEW n \in Nat, NEW S, 0 \in S, \A k \in 0..n : k \in S /\ k < n => k + 1 \in S
    PROVE  \A k \in 0..n : k \in S
<1> SUFFICES ASSUME NEW x \in 0..n, x \notin S PROVE FALSE
  OBVIOUS
<1> DEFINE Bad == {k \in 0..n : k \notin S}
<1>1. Bad \in SUBSET Nat /\ Bad # {}
  OBVIOUS
<1>2. PICK k \in Bad : \A m \in Bad : k <= m
  <2> HIDE DEF Bad
  <2> QED
    BY <1>1, Least
<1>3. k # 0 /\ k - 1 \in 0..n /\ k - 1 < n
  OBVIOUS
<1>4. k - 1 \in S
  BY <1>2, <1>3
<1>5. (k - 1) + 1 \in S
  BY <1>3, <1>4
<1> QED
  BY <1>3, <1>5

----------------------------------------------------------------------------
(* Frames: which actions change a variable at all.                         *)

\* The steps that touch the store, its history or what clients forgot.
LEMMA StoreFrame ==
    ASSUME [Next]_vars
    PROVE  \/ UNCHANGED <<store, log, forgotten>>
           \/ \E w \in Watches :
                \/ CreateAdmit(w) \/ CreateFails(w) \/ ProviderReady(w)
                \/ ProviderFails(w) \/ ProviderFinishes(w) \/ StopWatch(w)
                \/ RemoveWatch(w) \/ SweepStop(w) \/ SweepCheck(w) \/ ShutdownStop(w)
           \/ \E w \in Watches, kind \in {"match", "other", "gap"} : ProviderEmits(w, kind)
           \/ \E x \in Calls : Drop(x)
           \/ \E v \in Waits, forget \in BOOLEAN : CancelWait(v, forget)
           \/ \E s \in Savers : MarkFailed(s)
           \/ HostRestart
BY ZenonT(60) DEF Next, Creating, Providing, Waiting, Leaving, Disconnecting, Saving, Ending, vars,
       watchVars, waitVars, connVars, saveVars, hostVars, history, CreateCheck,
       CreateReady, CreateContinues, ProviderSignals, ProviderReturns, ProviderEnds,
       WaitCheck, WaitAdmit, Deadline, WaitLook, WaitClock, WaitFinish, CloseConnection,
       Sweep, WorkerWakes, SaveBegins, RecordFailure, SaveEnds, ShutdownBegin,
       ShutdownFlush

\* The steps that add or remove a handle.
LEMMA HandleFrame ==
    ASSUME [Next]_vars
    PROVE  \/ UNCHANGED handles
           \/ \E w \in Watches :
                \/ CreateAdmit(w) \/ ProviderFinishes(w) \/ RemoveWatch(w)
                \/ SweepCheck(w)
           \/ \E v \in Waits : WaitAdmit(v) \/ WaitFinish(v)
           \/ \E v \in Waits, forget \in BOOLEAN : CancelWait(v, forget)
           \/ \E c \in Conns : Sweep(c)
           \/ \E s \in Savers : MarkFailed(s)
           \/ HostRestart
BY DEF Next, Creating, Providing, Waiting, Leaving, Disconnecting, Saving, Ending, vars,
       watchVars, waitVars, connVars, saveVars, hostVars, history, CreateCheck,
       CreateReady, CreateFails, CreateContinues, ProviderReady, ProviderSignals,
       ProviderReturns, ProviderFails, ProviderEnds, ProviderEmits, WaitCheck, Deadline,
       WaitLook, WaitClock, Drop, StopWatch, CloseConnection, SweepStop, WorkerWakes,
       SaveBegins, RecordFailure, SaveEnds, ShutdownBegin, ShutdownFlush, ShutdownStop

\* The steps of a provider's thread, and its start.
LEMMA ProviderFrame ==
    ASSUME [Next]_vars
    PROVE  \/ UNCHANGED <<provider, finished>>
           \/ \E w \in Watches :
                \/ CreateAdmit(w) \/ ProviderReady(w) \/ ProviderSignals(w)
                \/ ProviderReturns(w) \/ ProviderFails(w) \/ ProviderFinishes(w)
                \/ ProviderEnds(w)
           \/ HostRestart
BY ZenonT(60) DEF Next, Creating, Providing, Waiting, Leaving, Disconnecting, Saving, Ending, vars,
       watchVars, waitVars, connVars, saveVars, hostVars, history, CreateCheck,
       CreateReady, CreateFails, CreateContinues, ProviderEmits, WaitCheck, WaitAdmit,
       Deadline, WaitLook, WaitClock, WaitFinish, CancelWait, Drop, StopWatch, RemoveWatch,
       CloseConnection, Sweep, SweepStop, SweepCheck, WorkerWakes, SaveBegins,
       RecordFailure, MarkFailed, SaveEnds, ShutdownBegin, ShutdownFlush, ShutdownStop

\* The steps that move a call of watch_create or wait_for.
LEMMA CallFrame ==
    ASSUME [Next]_vars
    PROVE  \/ UNCHANGED call
           \/ \E w \in Watches :
                \/ CreateCheck(w) \/ CreateAdmit(w) \/ CreateReady(w) \/ CreateFails(w)
                \/ CreateContinues(w)
           \/ \E v \in Waits : WaitCheck(v) \/ WaitAdmit(v)
           \/ \E x \in Calls : Drop(x)
           \/ \E ok \in BOOLEAN : SaveEnds(ok)
           \/ \E s \in Savers : MarkFailed(s)
           \/ HostRestart
BY DEF Next, Creating, Providing, Waiting, Leaving, Disconnecting, Saving, Ending, vars,
       watchVars, waitVars, connVars, saveVars, hostVars, history, ProviderReady,
       ProviderSignals, ProviderReturns, ProviderFails, ProviderFinishes, ProviderEnds,
       ProviderEmits, Deadline, WaitLook, WaitClock, WaitFinish, CancelWait, StopWatch,
       RemoveWatch, CloseConnection, Sweep, SweepStop, SweepCheck, WorkerWakes, SaveBegins,
       RecordFailure, ShutdownBegin, ShutdownFlush, ShutdownStop

\* The steps that change a wait's record.
LEMMA WaitsFrame ==
    ASSUME [Next]_vars
    PROVE  \/ UNCHANGED waits
           \/ \E v \in Waits : WaitAdmit(v) \/ WaitFinish(v)
           \/ \E v \in Waits, forget \in BOOLEAN : CancelWait(v, forget)
           \/ \E c \in Conns : Sweep(c)
           \/ \E s \in Savers : MarkFailed(s)
           \/ HostRestart
BY DEF Next, Creating, Providing, Waiting, Leaving, Disconnecting, Saving, Ending, vars,
       watchVars, waitVars, connVars, saveVars, hostVars, history, CreateCheck,
       CreateAdmit, CreateReady, CreateFails, CreateContinues, ProviderReady,
       ProviderSignals, ProviderReturns, ProviderFails, ProviderFinishes, ProviderEnds,
       ProviderEmits, WaitCheck, Deadline, WaitLook, WaitClock, Drop, StopWatch,
       RemoveWatch, CloseConnection, SweepStop, SweepCheck, WorkerWakes, SaveBegins,
       RecordFailure, SaveEnds, ShutdownBegin, ShutdownFlush, ShutdownStop

\* The steps of a wait's task, its start and its deadline.
LEMMA TaskFrame ==
    ASSUME [Next]_vars
    PROVE  \/ UNCHANGED waitVars
           \/ \E v \in Waits :
                \/ WaitCheck(v) \/ WaitAdmit(v) \/ Deadline(v) \/ WaitLook(v)
                \/ WaitClock(v) \/ WaitFinish(v)
           \/ HostRestart
BY SMTT(60) DEF Next, Creating, Providing, Waiting, Leaving, Disconnecting, Saving, Ending, vars,
       watchVars, waitVars, connVars, saveVars, hostVars, history, CreateCheck,
       CreateAdmit, CreateReady, CreateFails, CreateContinues, ProviderReady,
       ProviderSignals, ProviderReturns, ProviderFails, ProviderFinishes, ProviderEnds,
       ProviderEmits, CancelWait, Drop, StopWatch, RemoveWatch, CloseConnection, Sweep,
       SweepStop, SweepCheck, WorkerWakes, SaveBegins, RecordFailure, MarkFailed, SaveEnds,
       ShutdownBegin, ShutdownFlush, ShutdownStop

\* The steps that take a snapshot or replace the file.
LEMMA FileFrame ==
    ASSUME [Next]_vars
    PROVE  \/ UNCHANGED <<disk, writing>>
           \/ \E s \in Savers : SaveBegins(s)
           \/ \E ok \in BOOLEAN : SaveEnds(ok)
           \/ HostRestart
BY ZenonT(60) DEF Next, Creating, Providing, Waiting, Leaving, Disconnecting, Saving, Ending, vars,
       watchVars, waitVars, connVars, saveVars, hostVars, history, CreateCheck,
       CreateAdmit, CreateReady, CreateFails, CreateContinues, ProviderReady,
       ProviderSignals, ProviderReturns, ProviderFails, ProviderFinishes, ProviderEnds,
       ProviderEmits, WaitCheck, WaitAdmit, Deadline, WaitLook, WaitClock, WaitFinish,
       CancelWait, Drop, StopWatch, RemoveWatch, CloseConnection, Sweep, SweepStop,
       SweepCheck, WorkerWakes, RecordFailure, MarkFailed, ShutdownBegin, ShutdownFlush,
       ShutdownStop

\* The steps that close a connection or work off its list.
LEMMA ConnFrame ==
    ASSUME [Next]_vars
    PROVE  \/ UNCHANGED <<closed, swept, sweepStop>>
           \/ \E c \in Conns : CloseConnection(c) \/ Sweep(c)
           \/ \E w \in Watches : SweepStop(w)
           \/ HostRestart
BY ZenonT(60) DEF Next, Creating, Providing, Waiting, Leaving, Disconnecting, Saving, Ending, vars,
       watchVars, waitVars, connVars, saveVars, hostVars, history, CreateCheck,
       CreateAdmit, CreateReady, CreateFails, CreateContinues, ProviderReady,
       ProviderSignals, ProviderReturns, ProviderFails, ProviderFinishes, ProviderEnds,
       ProviderEmits, WaitCheck, WaitAdmit, Deadline, WaitLook, WaitClock, WaitFinish,
       CancelWait, Drop, StopWatch, RemoveWatch, SweepCheck, WorkerWakes, SaveBegins,
       RecordFailure, MarkFailed, SaveEnds, ShutdownBegin, ShutdownFlush, ShutdownStop

----------------------------------------------------------------------------
(* The operators of the store.                                             *)

\* What becomes of a store while the host lives, when only the watches in gone are
\* forgotten: new events are younger, and what left the history was dropped by its watch.
Later(old, new, gone) ==
    /\ StoreOK(new)
    /\ old.next <= new.next
    /\ \A e \in new.events : e \in old.events \/ old.next <= e.id
    /\ \A e \in old.events :
          \/ e \in new.events \/ e.watch \in gone
          \/ /\ new.watches[e.watch] # NoRecord
             /\ e.id <= new.watches[e.watch].dropped
    /\ \A w \in Watches \ gone : old.watches[w] # NoRecord =>
          /\ new.watches[w] # NoRecord
          /\ old.watches[w].dropped <= new.watches[w].dropped

\* The watches of two stores are the same, and have the same status.
SameStatus(old, new) ==
    \A w \in Watches :
        /\ new.watches[w] = NoRecord <=> old.watches[w] = NoRecord
        /\ old.watches[w] # NoRecord => new.watches[w].status = old.watches[w].status

\* Discarding marks the youngest event that left.
LEMMA LastIdIs ==
    ASSUME NEW events \in SUBSET Event, NEW bound \in Nat, \A e \in events : e.id <= bound,
           NEW w, NEW before \in Nat
    PROVE  /\ LastId(events, w, before) \in Nat
           /\ before <= LastId(events, w, before)
           /\ \A e \in events : e.watch = w => e.id <= LastId(events, w, before)
<1> DEFINE Ids == {before} \cup {e.id : e \in OfWatch(events, w)}
           IsLast(i) == \A e \in OfWatch(events, w) : before <= i /\ e.id <= i
<1>1. Ids \in SUBSET Nat /\ Ids # {}
  BY DEF Event, OfWatch
<1>2. PICK top \in Ids : \A m \in Ids : m <= top
  <2>1. PICK limit \in Nat : \A m \in Ids : m <= limit
    <3>1. CASE before <= bound
      <4>1. \A m \in Ids : m <= bound
        BY <3>1 DEF OfWatch
      <4> QED
        BY <4>1
    <3>2. CASE bound < before
      <4>1. \A m \in Ids : m <= before
        BY <3>2 DEF OfWatch, Event
      <4> QED
        BY <4>1
    <3> QED
      BY <3>1, <3>2
  <2> HIDE DEF Ids
  <2> QED
    BY <1>1, <2>1, Greatest
<1>3. \E i \in Ids : IsLast(i)
  BY <1>2
<1>4. LastId(events, w, before) = CHOOSE i \in Ids : IsLast(i)
  BY DEF LastId
<1> DEFINE last == LastId(events, w, before)
<1>5. last \in Ids /\ IsLast(last)
  <2> HIDE DEF Ids, IsLast
  <2> QED
    BY <1>3, <1>4
<1>6. before <= last
  <2>1. CASE OfWatch(events, w) = {}
    <3>1. Ids = {before}
      BY <2>1
    <3> QED
      BY <1>5, <3>1
  <2>2. CASE OfWatch(events, w) # {}
    BY <1>5, <2>2
  <2> QED
    BY <2>1, <2>2
<1> QED
  BY <1>1, <1>5, <1>6 DEF OfWatch

\* Store::discard.
LEMMA DiscardIs ==
    ASSUME NEW st, StoreOK(st), NEW gone \in SUBSET st.events
    PROVE  /\ Later(st, Discard(st, gone), {}) /\ SameStatus(st, Discard(st, gone))
           /\ Discard(st, gone).next = st.next
           /\ Discard(st, gone).events = st.events \ gone
<1>1. /\ st = [watches |-> st.watches, events |-> st.events, next |-> st.next]
      /\ st.watches \in [Watches -> WatchRecord \cup {NoRecord}]
      /\ st.events \subseteq Event /\ st.next \in Nat \ {0}
      /\ \A e \in st.events : e.id < st.next /\ st.watches[e.watch] # NoRecord
  BY DEF StoreOK
<1> DEFINE Kept1(w) == [st.watches[w] EXCEPT !.dropped = LastId(gone, w, st.watches[w].dropped)]
           After == [w \in Watches |-> IF OfWatch(gone, w) = {} THEN st.watches[w] ELSE Kept1(w)]
           new == Discard(st, gone)
<1>2. new = [watches |-> After, events |-> st.events \ gone, next |-> st.next]
  <2>1. new = [st EXCEPT !.events = st.events \ gone, !.watches = After]
    BY DEF Discard
  <2> HIDE DEF After, new
  <2> QED
    BY <1>1, <2>1
<1>3. ASSUME NEW w \in Watches, OfWatch(gone, w) # {}
      PROVE  /\ st.watches[w] \in WatchRecord
             /\ Kept1(w) \in WatchRecord /\ Kept1(w).status = st.watches[w].status
             /\ st.watches[w].dropped <= Kept1(w).dropped
             /\ \A e \in gone : e.watch = w => e.id <= Kept1(w).dropped
  <2>1. st.watches[w] # NoRecord
    BY <1>1, <1>3 DEF OfWatch
  <2>2. st.watches[w] \in WatchRecord
    BY <1>1, <2>1
  <2> DEFINE last == LastId(gone, w, st.watches[w].dropped)
  <2>3. /\ last \in Nat /\ st.watches[w].dropped <= last
        /\ \A e \in gone : e.watch = w => e.id <= last
    <3>1. gone \in SUBSET Event /\ \A e \in gone : e.id <= st.next
      BY <1>1 DEF Event
    <3>2. st.next \in Nat /\ st.watches[w].dropped \in Nat
      BY <1>1, <2>2 DEF WatchRecord
    <3> QED
      BY <3>1, <3>2, LastIdIs
  <2> HIDE DEF last
  <2>4. /\ Kept1(w) \in WatchRecord /\ Kept1(w).status = st.watches[w].status
        /\ Kept1(w).dropped = last
    BY <2>2, <2>3 DEF WatchRecord, last
  <2> QED
    BY <2>2, <2>3, <2>4
<1>4. ASSUME NEW w \in Watches
      PROVE  /\ After[w] \in WatchRecord \cup {NoRecord}
             /\ After[w] = NoRecord <=> st.watches[w] = NoRecord
             /\ st.watches[w] # NoRecord =>
                  /\ After[w].status = st.watches[w].status
                  /\ st.watches[w].dropped <= After[w].dropped
             /\ \A e \in gone : e.watch = w => e.id <= After[w].dropped
  <2>1. CASE OfWatch(gone, w) = {}
    <3>1. After[w] = st.watches[w] /\ \A e \in gone : e.watch # w
      BY <2>1 DEF OfWatch
    <3>2. st.watches[w] # NoRecord => st.watches[w].dropped \in Nat
      BY <1>1 DEF WatchRecord
    <3> HIDE DEF After
    <3> QED
      BY <1>1, <3>1, <3>2
  <2>2. CASE OfWatch(gone, w) # {}
    <3>1. After[w] = Kept1(w)
      BY <2>2
    <3>2. Kept1(w) # NoRecord /\ st.watches[w] # NoRecord
      BY <1>3, <2>2, NoRecordAssumption
    <3> HIDE DEF After, Kept1
    <3> QED
      BY <1>3, <2>2, <3>1, <3>2
  <2> QED
    BY <2>1, <2>2
<1>5. /\ new.watches = After /\ new.events = st.events \ gone /\ new.next = st.next
      /\ new = [watches |-> new.watches, events |-> new.events, next |-> new.next]
      /\ DOMAIN After = Watches /\ After = [w \in Watches |-> After[w]]
  <2> HIDE DEF new
  <2> QED
    BY <1>2
<1> HIDE DEF After, new
<1>6. \A e \in st.events : e.watch \in Watches /\ e.id \in Nat
  BY <1>1 DEF Event
<1>7. StoreOK(new)
  BY <1>1, <1>4, <1>5, <1>6 DEF StoreOK
<1>8. Later(st, new, {}) /\ SameStatus(st, new)
  BY <1>1, <1>4, <1>5, <1>6, <1>7 DEF Later, SameStatus
<1> QED
  BY <1>5, <1>8 DEF new

\* The event of append, and what it adds to a store.
NewEvent(st, w, kind) == [id |-> st.next, watch |-> w, kind |-> kind]
Adds(old, st, w, kind) ==
    [old EXCEPT !.events = @ \cup {NewEvent(st, w, kind)},
                !.next = @ + 1,
                !.watches[w].gap = IF kind = "gap" THEN st.next ELSE @]

LEMMA AddsIs ==
    ASSUME NEW st, NEW old, StoreOK(old), old.next = st.next, NEW w \in Watches,
           old.watches[w] # NoRecord, NEW kind \in {"match", "other", "gap"}
    PROVE  LET r == Adds(old, st, w, kind) IN
           /\ Later(old, r, {}) /\ SameStatus(old, r)
           /\ r.next = st.next + 1
           /\ r.events = old.events \cup {NewEvent(st, w, kind)}
<1>1. /\ old = [watches |-> old.watches, events |-> old.events, next |-> old.next]
      /\ old.watches \in [Watches -> WatchRecord \cup {NoRecord}]
      /\ old.events \subseteq Event /\ old.next \in Nat \ {0}
      /\ \A e \in old.events : e.id < old.next /\ old.watches[e.watch] # NoRecord
  BY DEF StoreOK
<1> DEFINE r == Adds(old, st, w, kind)
           gap == IF kind = "gap" THEN st.next ELSE old.watches[w].gap
           rec == [old.watches[w] EXCEPT !.gap = gap]
           After == [old.watches EXCEPT ![w] = rec]
           new == NewEvent(st, w, kind)
<1>2. old.watches[w] \in WatchRecord
  BY <1>1
<1>3. /\ rec \in WatchRecord /\ rec.status = old.watches[w].status
      /\ rec.dropped = old.watches[w].dropped
  <2>1. gap \in Nat
    BY <1>1, <1>2 DEF WatchRecord
  <2> HIDE DEF gap
  <2> QED
    BY <1>2, <2>1 DEF WatchRecord
<1>4. r = [watches |-> After, events |-> old.events \cup {new}, next |-> st.next + 1]
  <2>1. r = [old EXCEPT !.events = old.events \cup {new}, !.next = old.next + 1, !.watches = After]
    BY <1>1, <1>2 DEF Adds, WatchRecord
  <2> HIDE DEF r, After, new
  <2> QED
    BY <1>1, <2>1
<1> HIDE DEF gap, rec
<1>5. /\ After \in [Watches -> WatchRecord \cup {NoRecord}]
      /\ \A x \in Watches : x # w => After[x] = old.watches[x]
      /\ After[w] = rec
  BY <1>1, <1>3
<1>6. /\ r.watches = After /\ r.events = old.events \cup {new} /\ r.next = st.next + 1
      /\ r = [watches |-> r.watches, events |-> r.events, next |-> r.next]
  <2> HIDE DEF r, After, new
  <2> QED
    BY <1>4
<1>7. new \in Event /\ new.id = old.next /\ new.watch = w
  BY <1>1 DEF NewEvent, Event
<1> HIDE DEF r, After, new
<1>8. rec # NoRecord
  BY <1>3, NoRecordAssumption
<1>9. \A e \in old.events : e.watch \in Watches /\ e.id \in Nat
  BY <1>1 DEF Event
<1>10. \A x \in Watches : old.watches[x] # NoRecord =>
            After[x] # NoRecord /\ old.watches[x].dropped <= After[x].dropped
  <2> TAKE x \in Watches
  <2> SUFFICES ASSUME old.watches[x] # NoRecord
               PROVE  After[x] # NoRecord /\ old.watches[x].dropped <= After[x].dropped
    OBVIOUS
  <2>1. old.watches[x].dropped \in Nat
    BY <1>1 DEF WatchRecord
  <2> QED
    BY <1>3, <1>5, <1>8, <2>1
<1>11. StoreOK(r)
  <2>1. r.next \in Nat \ {0} /\ r.events \subseteq Event
    BY <1>1, <1>6, <1>7
  <2>2. \A e \in r.events : e.id < r.next /\ r.watches[e.watch] # NoRecord
    BY <1>1, <1>5, <1>6, <1>7, <1>8, <1>9, <1>10
  <2> QED
    BY <1>5, <1>6, <2>1, <2>2 DEF StoreOK
<1>12. Later(old, r, {})
  <2>1. old.next <= r.next
    BY <1>1, <1>6
  <2>2. \A e \in r.events : e \in old.events \/ old.next <= e.id
    BY <1>1, <1>6, <1>7
  <2> QED
    BY <1>6, <1>10, <1>11, <2>1, <2>2 DEF Later
<1>13. SameStatus(old, r)
  BY <1>3, <1>5, <1>6, <1>8 DEF SameStatus
<1> QED
  BY <1>6, <1>12, <1>13 DEF r, new

\* Store::append makes room by dropping old events, and adds its own.
LEMMA AppendedIs ==
    ASSUME NEW st, StoreOK(st), NEW w \in Watches, st.watches[w] # NoRecord,
           NEW kind \in {"match", "other", "gap"}, NEW r \in Appended(st, w, kind)
    PROVE  /\ Later(st, r, {}) /\ SameStatus(st, r)
           /\ r.next = st.next + 1
           /\ r.events \subseteq st.events \cup {NewEvent(st, w, kind)}
<1>1. PICK own \in SUBSET st.events, others \in SUBSET st.events :
          r = Adds(Discard(st, own \cup others), st, w, kind)
  <2>1. PICK own \in Evictions(OfWatch(st.events, w), MaxRetained) :
           \E others \in Evictions(st.events \ own, MaxEvents) :
              r = Adds(Discard(st, own \cup others), st, w, kind)
    BY ZenonT(60) DEF Appended, Adds, NewEvent
  <2>2. own \in SUBSET OfWatch(st.events, w)
    BY <2>1 DEF Evictions
  <2>3. PICK others \in Evictions(st.events \ own, MaxEvents) :
           r = Adds(Discard(st, own \cup others), st, w, kind)
    BY <2>1
  <2>4. others \in SUBSET (st.events \ own)
    BY <2>3 DEF Evictions
  <2> QED
    BY <2>2, <2>3, <2>4 DEF OfWatch
<1> DEFINE mid == Discard(st, own \cup others)
<1>2. /\ Later(st, mid, {}) /\ SameStatus(st, mid) /\ mid.next = st.next
      /\ mid.events = st.events \ (own \cup others)
  <2>1. own \cup others \in SUBSET st.events
    OBVIOUS
  <2> QED
    BY <2>1, DiscardIs
<1> HIDE DEF mid
<1>3. StoreOK(mid) /\ mid.watches[w] # NoRecord
  BY <1>2 DEF Later, SameStatus
<1>4. /\ Later(mid, r, {}) /\ SameStatus(mid, r)
      /\ r.next = st.next + 1
      /\ r.events = mid.events \cup {NewEvent(st, w, kind)}
  <2>1. LET a == Adds(mid, st, w, kind) IN
        /\ Later(mid, a, {}) /\ SameStatus(mid, a)
        /\ a.next = st.next + 1
        /\ a.events = mid.events \cup {NewEvent(st, w, kind)}
    BY <1>2, <1>3, AddsIs
  <2> QED
    BY <1>1, <2>1 DEF mid
<1>5. SameStatus(st, r)
  BY <1>2, <1>4 DEF SameStatus
<1>6. /\ st.next \in Nat
      /\ \A e \in st.events : e.watch \in Watches /\ e.id \in Nat
      /\ \A x \in Watches : st.watches[x] # NoRecord =>
            /\ mid.watches[x] # NoRecord /\ r.watches[x] # NoRecord
            /\ st.watches[x].dropped \in Nat /\ mid.watches[x].dropped \in Nat
            /\ r.watches[x].dropped \in Nat
            /\ st.watches[x].dropped <= mid.watches[x].dropped
            /\ mid.watches[x].dropped <= r.watches[x].dropped
  BY <1>2, <1>4 DEF Later, StoreOK, WatchRecord, Event
<1>7. Later(st, r, {})
  <2>1. \A e \in r.events : e \in st.events \/ st.next <= e.id
    BY <1>2, <1>4, <1>6 DEF NewEvent
  <2>2. ASSUME NEW e \in st.events, e \notin r.events
        PROVE  r.watches[e.watch] # NoRecord /\ e.id <= r.watches[e.watch].dropped
    <3>1. e \notin mid.events
      BY <1>4, <2>2
    <3>2. mid.watches[e.watch] # NoRecord /\ e.id <= mid.watches[e.watch].dropped
      BY <1>2, <3>1 DEF Later
    <3>3. st.watches[e.watch] # NoRecord
      BY DEF StoreOK
    <3> QED
      BY <1>6, <3>2, <3>3
  <2>3. \A x \in Watches : st.watches[x] # NoRecord =>
            r.watches[x] # NoRecord /\ st.watches[x].dropped <= r.watches[x].dropped
    BY <1>6
  <2>4. StoreOK(r) /\ st.next <= r.next
    BY <1>4, <1>6 DEF Later
  <2> QED
    BY <2>1, <2>2, <2>3, <2>4 DEF Later
<1> QED
  BY <1>2, <1>4, <1>5, <1>7

----------------------------------------------------------------------------
(* What restore appends.                                                   *)

\* The stores after the first k gaps, as restore writes them.
GapStep(st, order, n, f) ==
    f = [k \in 0..n |-> IF k = 0 THEN {st}
                        ELSE UNION {Appended(s, order[k], "gap") : s \in f[k - 1]}]

\* The function that WithGaps defines by recursion is there.
LEMMA GapsExist ==
    ASSUME NEW st, NEW order, NEW n \in Nat
    PROVE  \E f : GapStep(st, order, n, f)
<1> DEFINE S == {m \in 0..n : \E f : GapStep(st, order, m, f)}
<1>1. 0 \in S
  <2> DEFINE f == [k \in 0..0 |-> {st}]
  <2>1. f = [k \in 0..0 |-> IF k = 0 THEN {st}
                            ELSE UNION {Appended(s, order[k], "gap") : s \in f[k - 1]}]
    OBVIOUS
  <2>2. GapStep(st, order, 0, f)
    BY <2>1 DEF GapStep
  <2> QED
    BY <2>2
<1>2. ASSUME NEW m \in 0..n, m \in S, m < n PROVE m + 1 \in S
  <2>1. PICK f : GapStep(st, order, m, f)
    BY <1>2
  <2> DEFINE last == UNION {Appended(s, order[m + 1], "gap") : s \in f[m]}
             g == [k \in 0..(m + 1) |-> IF k <= m THEN f[k] ELSE last]
             Step(k) == IF k = 0 THEN {st}
                        ELSE UNION {Appended(s, order[k], "gap") : s \in g[k - 1]}
  <2>2. f = [k \in 0..m |-> IF k = 0 THEN {st}
                            ELSE UNION {Appended(s, order[k], "gap") : s \in f[k - 1]}]
    BY <2>1 DEF GapStep
  <2>3. ASSUME NEW k \in 0..(m + 1) PROVE g[k] = Step(k)
    <3>1. CASE k = m + 1
      <4>1. g[k] = last /\ g[k - 1] = f[m] /\ k # 0
        BY <3>1
      <4> HIDE DEF g
      <4> QED
        BY <3>1, <4>1
    <3>2. CASE k # m + 1
      <4>1. k \in 0..m /\ g[k] = f[k] /\ (k # 0 => k - 1 \in 0..(m + 1) /\ k - 1 <= m)
        BY <3>2
      <4>2. k # 0 => g[k - 1] = f[k - 1]
        BY <4>1
      <4>3. f[k] = IF k = 0 THEN {st}
                   ELSE UNION {Appended(s, order[k], "gap") : s \in f[k - 1]}
        BY <2>2, <4>1
      <4> HIDE DEF g
      <4> QED
        BY <4>1, <4>2, <4>3
    <3> QED
      BY <3>1, <3>2
  <2>4. g = [k \in 0..(m + 1) |-> Step(k)]
    <3> HIDE DEF Step
    <3> QED
      BY <2>3
  <2>5. GapStep(st, order, m + 1, g)
    <3> HIDE DEF g
    <3> QED
      BY <2>4 DEF GapStep
  <2>6. \E h : GapStep(st, order, m + 1, h)
    <3> HIDE DEF g
    <3> QED
      BY <2>5
  <2>7. m + 1 \in 0..n
    BY <1>2
  <2> QED
    BY <2>6, <2>7
<1>3. n \in S
  <2> HIDE DEF S
  <2>1. \A k \in 0..n : k \in S
    BY <1>1, <1>2, UpTo
  <2> QED
    BY <2>1
<1> QED
  BY <1>3

\* Two stores have the same watches.
SameWatches(old, new) ==
    \A w \in Watches : new.watches[w] = NoRecord <=> old.watches[w] = NoRecord

\* Whatever order the gaps are in, the store they leave is one.
LEMMA GapsAreOK ==
    ASSUME NEW st, StoreOK(st), NEW n \in Nat,
           NEW order \in [1..n -> {w \in Watches : st.watches[w] # NoRecord}],
           NEW r \in WithGaps(st, order)
    PROVE  StoreOK(r) /\ SameWatches(st, r)
<1>1. Len(order) = n
  <2>1. order \in Seq({w \in Watches : st.watches[w] # NoRecord})
    BY SeqDef
  <2>2. Len(order) \in Nat /\ DOMAIN order = 1..Len(order) /\ DOMAIN order = 1..n
    BY <2>1, LenProperties
  <2> QED
    BY <2>2
<1>2. PICK f : GapStep(st, order, n, f) /\ r \in f[n]
  <2> DEFINE After == CHOOSE f : GapStep(st, order, n, f)
  <2>1. GapStep(st, order, n, After)
    BY GapsExist
  <2>2. WithGaps(st, order) = After[n]
    BY <1>1 DEF WithGaps, GapStep
  <2> HIDE DEF After
  <2> QED
    BY <2>1, <2>2
<1>3. f = [k \in 0..n |-> IF k = 0 THEN {st}
                          ELSE UNION {Appended(s, order[k], "gap") : s \in f[k - 1]}]
  BY <1>2 DEF GapStep
<1> DEFINE Good == {k \in 0..n : \A s \in f[k] : StoreOK(s) /\ SameWatches(st, s)}
<1>4. 0 \in Good
  <2>1. f[0] = {st}
    BY <1>3
  <2> QED
    BY <2>1 DEF SameWatches
<1>5. ASSUME NEW k \in 0..n, k \in Good, k < n PROVE k + 1 \in Good
  <2>1. k + 1 \in 0..n /\ k + 1 # 0 /\ (k + 1) - 1 = k /\ k + 1 \in 1..n
    BY <1>5
  <2>2. f[k + 1] = UNION {Appended(s, order[k + 1], "gap") : s \in f[k]}
    BY <1>3, <2>1
  <2>3. ASSUME NEW t \in f[k + 1] PROVE StoreOK(t) /\ SameWatches(st, t)
    <3>1. PICK s \in f[k] : t \in Appended(s, order[k + 1], "gap")
      BY <2>2
    <3>2. StoreOK(s) /\ SameWatches(st, s)
      BY <1>5
    <3>3. order[k + 1] \in Watches /\ st.watches[order[k + 1]] # NoRecord
      BY <2>1
    <3>4. s.watches[order[k + 1]] # NoRecord
      BY <3>2, <3>3 DEF SameWatches
    <3>5. Later(s, t, {}) /\ SameStatus(s, t)
      BY <3>1, <3>2, <3>3, <3>4, AppendedIs
    <3> QED
      BY <3>2, <3>5 DEF Later, SameStatus, SameWatches
  <2> QED
    BY <2>1, <2>3
<1>6. n \in Good
  <2> HIDE DEF Good
  <2>1. \A k \in 0..n : k \in Good
    BY <1>4, <1>5, UpTo
  <2> QED
    BY <2>1
<1> QED
  BY <1>2, <1>6

----------------------------------------------------------------------------
(* The other operators of the store.                                       *)

\* A store whose records change, or come, but for what they have dropped.
LEMMA RewatchIs ==
    ASSUME NEW st, StoreOK(st), NEW W \in [Watches -> WatchRecord \cup {NoRecord}],
           \A w \in Watches : st.watches[w] # NoRecord =>
              W[w] # NoRecord /\ W[w].dropped = st.watches[w].dropped
    PROVE  LET new == [st EXCEPT !.watches = W] IN
           /\ Later(st, new, {})
           /\ new.watches = W /\ new.events = st.events /\ new.next = st.next
<1>1. /\ st = [watches |-> st.watches, events |-> st.events, next |-> st.next]
      /\ st.watches \in [Watches -> WatchRecord \cup {NoRecord}]
      /\ st.events \subseteq Event /\ st.next \in Nat \ {0}
      /\ \A e \in st.events : e.id < st.next /\ st.watches[e.watch] # NoRecord
  BY DEF StoreOK
<1> DEFINE new == [st EXCEPT !.watches = W]
<1>2. /\ new.watches = W /\ new.events = st.events /\ new.next = st.next
      /\ new = [watches |-> new.watches, events |-> new.events, next |-> new.next]
  BY <1>1
<1> HIDE DEF new
<1>3. \A e \in st.events : e.watch \in Watches
  BY <1>1 DEF Event
<1>4. StoreOK(new)
  BY <1>1, <1>2, <1>3 DEF StoreOK
<1>5. \A w \in Watches : st.watches[w] # NoRecord => st.watches[w].dropped \in Nat
  BY <1>1 DEF WatchRecord
<1>6. Later(st, new, {})
  BY <1>1, <1>2, <1>4, <1>5 DEF Later
<1> QED
  BY <1>2, <1>6 DEF new

LEMMA WithStatusIs ==
    ASSUME NEW st, StoreOK(st), NEW w \in Watches, st.watches[w] # NoRecord,
           NEW status \in Statuses
    PROVE  LET new == WithStatus(st, w, status) IN
           /\ Later(st, new, {})
           /\ new.events = st.events /\ new.next = st.next
           /\ new.watches[w] # NoRecord /\ new.watches[w].status = status
           /\ \A x \in Watches \ {w} : new.watches[x] = st.watches[x]
<1>1. /\ st = [watches |-> st.watches, events |-> st.events, next |-> st.next]
      /\ st.watches \in [Watches -> WatchRecord \cup {NoRecord}]
  BY DEF StoreOK
<1> DEFINE rec == [st.watches[w] EXCEPT !.status = status]
           W == [st.watches EXCEPT ![w] = rec]
<1>2. /\ rec \in WatchRecord /\ rec.status = status /\ rec # NoRecord
      /\ rec.dropped = st.watches[w].dropped
  BY <1>1, NoRecordAssumption DEF WatchRecord
<1>3. WithStatus(st, w, status) = [st EXCEPT !.watches = W]
  BY <1>1 DEF WithStatus
<1> HIDE DEF rec
<1>4. /\ W \in [Watches -> WatchRecord \cup {NoRecord}]
      /\ W[w] = rec /\ \A x \in Watches \ {w} : W[x] = st.watches[x]
  BY <1>1, <1>2
<1> HIDE DEF W
<1>5. \A x \in Watches : st.watches[x] # NoRecord =>
          W[x] # NoRecord /\ W[x].dropped = st.watches[x].dropped
  BY <1>2, <1>4
<1> DEFINE new == [st EXCEPT !.watches = W]
<1>6. /\ Later(st, new, {})
      /\ new.watches = W /\ new.events = st.events /\ new.next = st.next
  BY <1>4, <1>5, RewatchIs
<1> HIDE DEF new
<1> QED
  BY <1>2, <1>3, <1>4, <1>6 DEF new

LEMMA ForgetIs ==
    ASSUME NEW st, StoreOK(st), NEW w \in Watches
    PROVE  LET new == Forget(st, w) IN
           /\ Later(st, new, {w})
           /\ new.events \subseteq st.events /\ new.next = st.next
           /\ new.watches[w] = NoRecord
           /\ \A x \in Watches \ {w} : new.watches[x] = st.watches[x]
<1>1. /\ st = [watches |-> st.watches, events |-> st.events, next |-> st.next]
      /\ st.watches \in [Watches -> WatchRecord \cup {NoRecord}]
      /\ st.events \subseteq Event /\ st.next \in Nat \ {0}
      /\ \A e \in st.events : e.id < st.next /\ st.watches[e.watch] # NoRecord
  BY DEF StoreOK
<1> DEFINE new == Forget(st, w)
           W == [st.watches EXCEPT ![w] = NoRecord]
           left == st.events \ OfWatch(st.events, w)
<1>2. new = [watches |-> W, events |-> left, next |-> st.next]
  <2>1. new = [st EXCEPT !.events = left, !.watches = W]
    BY <1>1 DEF Forget
  <2> HIDE DEF new, W, left
  <2> QED
    BY <1>1, <2>1
<1>3. /\ W \in [Watches -> WatchRecord \cup {NoRecord}]
      /\ W[w] = NoRecord /\ \A x \in Watches \ {w} : W[x] = st.watches[x]
  BY <1>1
<1>4. left \subseteq st.events /\ \A e \in st.events : e \in left <=> e.watch # w
  BY DEF OfWatch
<1>5. /\ new.watches = W /\ new.events = left /\ new.next = st.next
      /\ new = [watches |-> new.watches, events |-> new.events, next |-> new.next]
  <2> HIDE DEF new, W, left
  <2> QED
    BY <1>2
<1> HIDE DEF new, W, left
<1>6. \A e \in st.events : e.watch \in Watches
  BY <1>1 DEF Event
<1>7. \A x \in Watches : st.watches[x] # NoRecord => st.watches[x].dropped \in Nat
  BY <1>1 DEF WatchRecord
<1>8. StoreOK(new)
  <2>1. \A e \in new.events : e.id < new.next /\ new.watches[e.watch] # NoRecord
    BY <1>1, <1>3, <1>4, <1>5, <1>6
  <2> QED
    BY <1>1, <1>3, <1>4, <1>5, <2>1 DEF StoreOK
<1>9. Later(st, new, {w})
  <2>1. \A e \in st.events : e \in new.events \/ e.watch \in {w}
    BY <1>4, <1>5
  <2>2. \A x \in Watches \ {w} : st.watches[x] # NoRecord =>
            new.watches[x] # NoRecord /\ st.watches[x].dropped <= new.watches[x].dropped
    BY <1>3, <1>5, <1>7
  <2>3. st.next <= new.next /\ \A e \in new.events : e \in st.events
    BY <1>1, <1>4, <1>5
  <2> QED
    BY <1>8, <2>1, <2>2, <2>3 DEF Later
<1> QED
  BY <1>3, <1>4, <1>5, <1>9 DEF new

\* A store that stays is later than itself.
LEMMA LaterSame ==
    ASSUME NEW st, StoreOK(st), NEW gone
    PROVE  Later(st, st, gone)
<1>1. /\ st.next \in Nat
      /\ \A w \in Watches : st.watches[w] # NoRecord => st.watches[w].dropped \in Nat
  BY DEF StoreOK, WatchRecord
<1> QED
  BY <1>1 DEF Later

\* Append after a change of the records: no event had left before.
LEMMA LaterAgain ==
    ASSUME NEW a, NEW b, NEW c, NEW gone, StoreOK(a), Later(a, b, {}), b.events = a.events,
           b.next = a.next, Later(b, c, gone)
    PROVE  Later(a, c, gone)
<1>1. \A w \in Watches \ gone : a.watches[w] # NoRecord =>
          c.watches[w] # NoRecord /\ a.watches[w].dropped <= c.watches[w].dropped
  <2> TAKE w \in Watches \ gone
  <2> SUFFICES ASSUME a.watches[w] # NoRecord
               PROVE  c.watches[w] # NoRecord /\ a.watches[w].dropped <= c.watches[w].dropped
    OBVIOUS
  <2>1. /\ b.watches[w] # NoRecord /\ c.watches[w] # NoRecord
        /\ a.watches[w].dropped <= b.watches[w].dropped
        /\ b.watches[w].dropped <= c.watches[w].dropped
    BY DEF Later
  <2>2. /\ a.watches[w].dropped \in Nat /\ b.watches[w].dropped \in Nat
        /\ c.watches[w].dropped \in Nat
    BY <2>1 DEF Later, StoreOK, WatchRecord
  <2> QED
    BY <2>1, <2>2
<1> QED
  BY <1>1 DEF Later

LEMMA LaterFirst ==
    ASSUME NEW a, NEW b, NEW c, StoreOK(a), Later(a, b, {}), Later(b, c, {}),
           c.events = b.events
    PROVE  Later(a, c, {})
<1>1. \A w \in Watches : a.watches[w] # NoRecord =>
          /\ b.watches[w] # NoRecord /\ c.watches[w] # NoRecord
          /\ a.watches[w].dropped <= b.watches[w].dropped
          /\ b.watches[w].dropped <= c.watches[w].dropped
          /\ a.watches[w].dropped \in Nat /\ b.watches[w].dropped \in Nat
          /\ c.watches[w].dropped \in Nat
  BY DEF Later, StoreOK, WatchRecord
<1>2. a.next \in Nat /\ b.next \in Nat /\ c.next \in Nat /\ a.next <= c.next
  BY DEF Later, StoreOK
<1>3. \A w \in Watches : a.watches[w] # NoRecord =>
          c.watches[w] # NoRecord /\ a.watches[w].dropped <= c.watches[w].dropped
  BY <1>1
<1>4. ASSUME NEW e \in a.events, e \notin c.events
      PROVE  c.watches[e.watch] # NoRecord /\ e.id <= c.watches[e.watch].dropped
  <2>1. e.watch \in Watches /\ e.id \in Nat /\ a.watches[e.watch] # NoRecord
    BY DEF StoreOK, Event
  <2>2. e.id <= b.watches[e.watch].dropped
    BY <1>4 DEF Later
  <2> QED
    BY <1>1, <2>1, <2>2
<1>5. \A e \in c.events : e \in a.events \/ a.next <= e.id
  BY DEF Later
<1>6. StoreOK(c)
  BY DEF Later
<1> QED
  BY <1>2, <1>3, <1>4, <1>5, <1>6 DEF Later

----------------------------------------------------------------------------
(* What a step does to the store.                                          *)

\* The ways of one record.
Moved(w) ==
    store'.watches[w] # NoRecord =>
        \/ /\ store.watches[w] = NoRecord /\ store'.watches[w].status = "starting"
           /\ call[w] = "checked" /\ ~ConnClosed(w)
           /\ call'[w] \notin {"new", "checked"}
        \/ /\ store.watches[w] # NoRecord
           /\ \/ store'.watches[w].status \in {store.watches[w].status, "failed"}
              \/ /\ store.watches[w].status \in Active
                 /\ store'.watches[w].status \in {"stopping", "stopped"}
              \/ /\ store.watches[w].status = "starting"
                 /\ store'.watches[w].status = "recording"

\* The store goes on, only gone being forgotten: watches whose provider is through.
StoreMoves(gone) ==
    /\ Later(store, store', gone)
    /\ gone \subseteq forgotten' /\ forgotten \subseteq forgotten'
    /\ log' = log \cup (store'.events \ store.events)
    /\ \A w \in gone : (w \in handles => w \in finished) \/ provider'[w] = "marking"
    /\ \A w \in Watches : Moved(w)

LEMMA SameMoves ==
    ASSUME StoreOK(store), UNCHANGED <<store, log>>, forgotten \subseteq forgotten'
    PROVE  StoreMoves({})
<1>1. Later(store, store', {})
  BY LaterSame
<1>2. \A w \in Watches : Moved(w)
  BY DEF Moved
<1> QED
  BY <1>1, <1>2 DEF StoreMoves

LEMMA StatusMoves ==
    ASSUME StoreOK(store), NEW w \in Watches, Kept(w), NEW status \in Statuses,
           store' = WithStatus(store, w, status), UNCHANGED <<log, forgotten>>,
           \/ status = "failed" \/ status = store.watches[w].status
           \/ IsActive(w) /\ status \in {"stopping", "stopped"}
           \/ store.watches[w].status = "starting" /\ status = "recording"
    PROVE  StoreMoves({})
<1>1. /\ Later(store, store', {})
      /\ store'.events = store.events /\ store'.next = store.next
      /\ store'.watches[w] # NoRecord /\ store'.watches[w].status = status
      /\ \A x \in Watches \ {w} : store'.watches[x] = store.watches[x]
  BY WithStatusIs DEF Kept
<1>2. \A x \in Watches : Moved(x)
  BY <1>1 DEF Moved, Kept, IsActive
<1> QED
  BY <1>1, <1>2 DEF StoreMoves

LEMMA RequestStopMoves ==
    ASSUME StoreOK(store), NEW w \in Watches, RequestStop(w), UNCHANGED <<log, forgotten>>
    PROVE  StoreMoves({})
<1>1. CASE IsActive(w)
  <2>1. store' = WithStatus(store, w, "stopping") /\ Kept(w) /\ "stopping" \in Statuses
    BY <1>1 DEF RequestStop, IsActive, Statuses, Active
  <2> QED
    BY <1>1, <2>1, StatusMoves
<1>2. CASE ~IsActive(w)
  <2>1. store' = store
    BY <1>2 DEF RequestStop
  <2> QED
    BY <2>1, SameMoves
<1> QED
  BY <1>1, <1>2

LEMMA FailsMoves ==
    ASSUME StoreOK(store), NEW w \in Watches, Fails(w), UNCHANGED forgotten
    PROVE  StoreMoves({})
<1>0. log' = log \cup (store'.events \ store.events)
  BY DEF Fails
<1>1. CASE Kept(w)
  <2> DEFINE mid == WithStatus(store, w, "failed")
  <2>1. store' \in Appended(mid, w, "other")
    BY <1>1 DEF Fails
  <2>2. /\ Later(store, mid, {})
        /\ mid.events = store.events /\ mid.next = store.next
        /\ mid.watches[w] # NoRecord /\ mid.watches[w].status = "failed"
        /\ \A x \in Watches \ {w} : mid.watches[x] = store.watches[x]
    <3>1. "failed" \in Statuses
      BY DEF Statuses
    <3> QED
      BY <1>1, <3>1, WithStatusIs DEF Kept
  <2> HIDE DEF mid
  <2>3. StoreOK(mid)
    BY <2>2 DEF Later
  <2>4. Later(mid, store', {}) /\ SameStatus(mid, store')
    BY <2>1, <2>2, <2>3, AppendedIs
  <2>5. Later(store, store', {})
    BY <2>2, <2>4, LaterAgain
  <2>6. \A x \in Watches : Moved(x)
    BY <1>1, <2>2, <2>4 DEF Moved, SameStatus, Kept
  <2> QED
    BY <1>0, <2>5, <2>6 DEF StoreMoves
<1>2. CASE ~Kept(w)
  <2>1. store' = store
    BY <1>2 DEF Fails
  <2>2. log' = log
    BY <1>0, <2>1
  <2> QED
    BY <2>1, <2>2, SameMoves
<1> QED
  BY <1>1, <1>2

LEMMA EmitsMoves ==
    ASSUME StoreOK(store), NEW w \in Watches, NEW kind \in {"match", "other", "gap"},
           ProviderEmits(w, kind)
    PROVE  StoreMoves({})
<1>0. Kept(w) /\ log' = log \cup (store'.events \ store.events) /\ UNCHANGED forgotten
  BY DEF ProviderEmits
<1>1. PICK st \in Appended(store, w, kind) :
          store' = st \/ (IsActive(w) /\ store' = WithStatus(st, w, "stopping"))
  BY DEF ProviderEmits
<1>2. Later(store, st, {}) /\ SameStatus(store, st)
  BY <1>0, AppendedIs DEF Kept
<1>3. CASE store' = st
  <2>1. \A x \in Watches : Moved(x)
    BY <1>2, <1>3 DEF Moved, SameStatus
  <2> QED
    BY <1>0, <1>2, <1>3, <2>1 DEF StoreMoves
<1>4. CASE IsActive(w) /\ store' = WithStatus(st, w, "stopping")
  <2>1. StoreOK(st) /\ st.watches[w] # NoRecord /\ "stopping" \in Statuses
    BY <1>0, <1>2 DEF Later, SameStatus, Kept, Statuses, Active
  <2>2. /\ Later(st, store', {})
        /\ store'.events = st.events /\ store'.next = st.next
        /\ store'.watches[w] # NoRecord /\ store'.watches[w].status = "stopping"
        /\ \A x \in Watches \ {w} : store'.watches[x] = st.watches[x]
    BY <1>4, <2>1, WithStatusIs
  <2>3. Later(store, store', {})
    BY <1>2, <2>2, LaterFirst
  <2>4. \A x \in Watches : Moved(x)
    BY <1>0, <1>2, <1>4, <2>2 DEF Moved, SameStatus, IsActive, Kept
  <2> QED
    BY <1>0, <2>3, <2>4 DEF StoreMoves
<1> QED
  BY <1>1, <1>3, <1>4

LEMMA ForgetsMoves ==
    ASSUME StoreOK(store), NEW w \in Watches, Forgets(w), UNCHANGED log,
           (w \in handles => w \in finished) \/ provider'[w] = "marking"
    PROVE  StoreMoves({w})
<1>1. /\ Later(store, store', {w})
      /\ store'.events \subseteq store.events
      /\ store'.watches[w] = NoRecord
      /\ \A x \in Watches \ {w} : store'.watches[x] = store.watches[x]
  BY ForgetIs DEF Forgets
<1>2. \A x \in Watches : Moved(x)
  BY <1>1 DEF Moved
<1>3. {w} \subseteq forgotten' /\ forgotten \subseteq forgotten'
  BY DEF Forgets
<1>4. log' = log \cup (store'.events \ store.events)
  BY <1>1
<1> QED
  BY <1>1, <1>2, <1>3, <1>4 DEF StoreMoves

LEMMA AdmitMoves ==
    ASSUME StoreOK(store), NEW w \in Watches, CreateAdmit(w), ~Kept(w),
           call'[w] \notin {"new", "checked"}
    PROVE  StoreMoves({})
<1>0. call[w] = "checked" /\ UNCHANGED <<log, forgotten>>
  BY DEF CreateAdmit, history
<1>1. CASE Fits(w)
  <2> DEFINE rec == [status |-> "starting", dropped |-> 0, gap |-> 0]
             W == [store.watches EXCEPT ![w] = rec]
  <2>1. /\ store = [watches |-> store.watches, events |-> store.events, next |-> store.next]
        /\ store.watches \in [Watches -> WatchRecord \cup {NoRecord}]
    BY DEF StoreOK
  <2>2. store' = [store EXCEPT !.watches = W]
    <3>1. store' = [store EXCEPT !.watches[w] = rec]
      BY <1>1 DEF CreateAdmit
    <3> HIDE DEF rec
    <3> QED
      BY <2>1, <3>1
  <2>3. rec \in WatchRecord /\ rec.status = "starting" /\ rec # NoRecord
    <3>1. rec \in WatchRecord
      BY DEF WatchRecord, Statuses, Active
    <3> QED
      BY <3>1, NoRecordAssumption
  <2> HIDE DEF rec
  <2>4. /\ W \in [Watches -> WatchRecord \cup {NoRecord}]
        /\ W[w] = rec /\ \A x \in Watches \ {w} : W[x] = store.watches[x]
    BY <2>1, <2>3
  <2> HIDE DEF W
  <2>5. \A x \in Watches : store.watches[x] # NoRecord =>
            W[x] # NoRecord /\ W[x].dropped = store.watches[x].dropped
    BY <2>4 DEF Kept
  <2>6. Later(store, store', {}) /\ store'.watches = W /\ store'.events = store.events
    BY <2>2, <2>4, <2>5, RewatchIs
  <2>7. ~ConnClosed(w)
    BY <1>1 DEF Fits
  <2>8. \A x \in Watches : Moved(x)
    BY <1>0, <2>3, <2>4, <2>6, <2>7 DEF Moved, Kept
  <2>9. log' = log \cup (store'.events \ store.events)
    BY <1>0, <2>6
  <2> QED
    BY <1>0, <2>6, <2>8, <2>9 DEF StoreMoves
<1>2. CASE ~Fits(w)
  <2>1. store' = store
    BY <1>2 DEF CreateAdmit
  <2> QED
    BY <1>0, <2>1, SameMoves
<1> QED
  BY <1>1, <1>2

LEMMA FinishesMoves ==
    ASSUME StoreOK(store), NEW w \in Watches, ProviderFinishes(w), provider'[w] = "marking"
    PROVE  \E gone \in SUBSET Watches : StoreMoves(gone)
<1>1. CASE w \in retired
  <2>1. Forgets(w) /\ UNCHANGED log
    BY <1>1 DEF ProviderFinishes
  <2>2. StoreMoves({w})
    BY <2>1, ForgetsMoves
  <2>3. {w} \in SUBSET Watches
    OBVIOUS
  <2> QED
    BY <2>2, <2>3
<1>2. CASE w \notin retired
  <2>1. store' = Ended(w) /\ UNCHANGED <<log, forgotten>>
    BY <1>2 DEF ProviderFinishes
  <2>2. StoreMoves({})
    <3>1. CASE Kept(w) /\ store.watches[w].status # "failed"
      <4>1. store' = WithStatus(store, w, "stopped") /\ "stopped" \in Statuses
        BY <2>1, <3>1 DEF Ended, Statuses
      <4>2. store.watches[w].status \in Statuses
        BY <3>1 DEF StoreOK, Kept, WatchRecord
      <4>3. IsActive(w) \/ store.watches[w].status = "stopped"
        BY <3>1, <4>2 DEF IsActive, Statuses
      <4> QED
        BY <2>1, <3>1, <4>1, <4>3, StatusMoves
    <3>2. CASE ~(Kept(w) /\ store.watches[w].status # "failed")
      <4>1. store' = store
        BY <2>1, <3>2 DEF Ended
      <4> QED
        BY <2>1, <4>1, SameMoves
    <3> QED
      BY <3>1, <3>2
  <2> QED
    BY <2>2
<1> QED
  BY <1>1, <1>2

LEMMA MarkFailedMoves ==
    ASSUME StoreOK(store), NEW s, MarkFailed(s)
    PROVE  StoreMoves({})
<1> DEFINE ws == {w \in Watches \cap Persistent : IsActive(w)}
           W == [w \in Watches |-> IF w \in ws THEN [store.watches[w] EXCEPT !.status = "failed"]
                                   ELSE store.watches[w]]
<1>1. UNCHANGED <<log, forgotten>> /\ store' = [store EXCEPT !.watches = W]
  <2>1. UNCHANGED <<log, forgotten>>
    BY DEF MarkFailed, history
  <2>2. store' = [store EXCEPT !.watches = W]
    BY DEF MarkFailed
  <2> QED
    BY <2>1, <2>2
<1>2. store.watches \in [Watches -> WatchRecord \cup {NoRecord}]
  BY DEF StoreOK
<1>3. ASSUME NEW w \in Watches
      PROVE  /\ W[w] \in WatchRecord \cup {NoRecord}
             /\ store.watches[w] = NoRecord => W[w] = NoRecord
             /\ store.watches[w] # NoRecord =>
                  /\ W[w] # NoRecord /\ W[w].dropped = store.watches[w].dropped
                  /\ W[w].status \in {store.watches[w].status, "failed"}
  <2>1. CASE w \in ws
    <3>1. store.watches[w] \in WatchRecord /\ store.watches[w] # NoRecord
      BY <1>2, <2>1 DEF IsActive, Kept
    <3> DEFINE rec == [store.watches[w] EXCEPT !.status = "failed"]
    <3>2. /\ rec \in WatchRecord /\ rec.dropped = store.watches[w].dropped
          /\ rec.status = "failed"
      BY <3>1 DEF WatchRecord, Statuses
    <3>3. W[w] = rec
      BY <2>1
    <3> HIDE DEF rec, W
    <3> QED
      BY <3>1, <3>2, <3>3, NoRecordAssumption
  <2>2. CASE w \notin ws
    <3>1. W[w] = store.watches[w]
      BY <2>2
    <3> HIDE DEF W, ws
    <3> QED
      BY <1>2, <3>1
  <2> QED
    BY <2>1, <2>2
<1>4. W = [w \in Watches |-> W[w]]
  OBVIOUS
<1> HIDE DEF W
<1>5. W \in [Watches -> WatchRecord \cup {NoRecord}]
  BY <1>3, <1>4
<1>6. Later(store, store', {}) /\ store'.watches = W /\ store'.events = store.events
  BY <1>1, <1>3, <1>5, RewatchIs
<1>7. \A w \in Watches : Moved(w)
  BY <1>3, <1>6 DEF Moved
<1>8. log' = log \cup (store'.events \ store.events)
  BY <1>1, <1>6
<1> QED
  BY <1>1, <1>6, <1>7, <1>8 DEF StoreMoves

\* While the host lives, every step is one of these.
LEMMA StoreStep ==
    ASSUME StoreOK(store), ThreadInv, FreshInv, [Next]_vars, ~HostRestart
    PROVE  \E gone \in SUBSET Watches : StoreMoves(gone)
<1>0. {} \in SUBSET Watches
  OBVIOUS
<1>1. CASE UNCHANGED <<store, log, forgotten>>
  <2>1. StoreMoves({})
    BY <1>1, SameMoves
  <2> QED
    BY <1>0, <2>1
<1>2. ASSUME NEW w \in Watches,
             \/ CreateAdmit(w) \/ CreateFails(w) \/ ProviderReady(w)
             \/ ProviderFails(w) \/ ProviderFinishes(w) \/ StopWatch(w)
             \/ RemoveWatch(w) \/ SweepStop(w) \/ SweepCheck(w) \/ ShutdownStop(w)
      PROVE  \E gone \in SUBSET Watches : StoreMoves(gone)
  <2>1. CASE CreateAdmit(w)
    <3>1. ~Kept(w)
      BY <2>1 DEF CreateAdmit, FreshInv, Calls
    <3>2. call'[w] \notin {"new", "checked"}
      BY <2>1 DEF CreateAdmit, ThreadInv, Calls
    <3> QED
      BY <1>0, <2>1, <3>1, <3>2, AdmitMoves
  <2>2. CASE CreateFails(w)
    <3>1. Fails(w) /\ UNCHANGED forgotten
      BY <2>2 DEF CreateFails
    <3> QED
      BY <1>0, <3>1, FailsMoves
  <2>3. CASE ProviderReady(w)
    <3>1. UNCHANGED <<log, forgotten>>
      BY <2>3 DEF ProviderReady, history
    <3>2. CASE Kept(w) /\ store.watches[w].status = "starting"
      <4>1. store' = WithStatus(store, w, "recording") /\ "recording" \in Statuses
        BY <2>3, <3>2 DEF ProviderReady, Statuses, Active
      <4>2. StoreMoves({})
        BY <3>1, <3>2, <4>1, StatusMoves
      <4> QED
        BY <1>0, <4>2
    <3>3. CASE ~(Kept(w) /\ store.watches[w].status = "starting")
      <4>1. store' = store
        BY <2>3, <3>3 DEF ProviderReady
      <4>2. StoreMoves({})
        BY <3>1, <4>1, SameMoves
      <4> QED
        BY <1>0, <4>2
    <3> QED
      BY <3>2, <3>3
  <2>4. CASE ProviderFails(w)
    <3>1. Fails(w) /\ UNCHANGED forgotten
      BY <2>4 DEF ProviderFails
    <3> QED
      BY <1>0, <3>1, FailsMoves
  <2>5. CASE ProviderFinishes(w)
    <3>1. provider'[w] = "marking"
      BY <2>5 DEF ProviderFinishes, ThreadInv
    <3> QED
      BY <2>5, <3>1, FinishesMoves
  <2>6. CASE StopWatch(w) \/ SweepStop(w) \/ ShutdownStop(w)
    <3>1. RequestStop(w) /\ UNCHANGED <<log, forgotten>>
      BY <2>6 DEF StopWatch, SweepStop, ShutdownStop, history
    <3> QED
      BY <1>0, <3>1, RequestStopMoves
  <2>7. CASE RemoveWatch(w)
    <3>1. Forgets(w) /\ UNCHANGED log /\ (w \in handles => w \in finished)
      BY <2>7 DEF RemoveWatch
    <3>2. StoreMoves({w}) /\ {w} \in SUBSET Watches
      BY <3>1, ForgetsMoves
    <3> QED
      BY <3>2
  <2>8. CASE SweepCheck(w)
    <3>1. UNCHANGED log
      BY <2>8 DEF SweepCheck
    <3>2. CASE w \in handles /\ w \notin finished
      <4>1. UNCHANGED <<store, forgotten>>
        BY <2>8, <3>2 DEF SweepCheck
      <4>2. StoreMoves({})
        BY <3>1, <4>1, SameMoves
      <4> QED
        BY <1>0, <4>2
    <3>3. CASE ~(w \in handles /\ w \notin finished)
      <4>1. Forgets(w)
        BY <2>8, <3>3 DEF SweepCheck
      <4>2. StoreMoves({w}) /\ {w} \in SUBSET Watches
        BY <3>1, <3>3, <4>1, ForgetsMoves
      <4> QED
        BY <4>2
    <3> QED
      BY <3>2, <3>3
  <2> QED
    BY <1>2, <2>1, <2>2, <2>3, <2>4, <2>5, <2>6, <2>7, <2>8
<1>3. ASSUME NEW w \in Watches, NEW kind \in {"match", "other", "gap"}, ProviderEmits(w, kind)
      PROVE  \E gone \in SUBSET Watches : StoreMoves(gone)
  BY <1>0, <1>3, EmitsMoves
<1>4. ASSUME NEW x \in Calls, Drop(x) PROVE \E gone \in SUBSET Watches : StoreMoves(gone)
  <2>1. UNCHANGED <<log, forgotten>>
    BY <1>4 DEF Drop, history
  <2>2. CASE x \in Watches \ Persistent
    <3>1. RequestStop(x) /\ x \in Watches
      BY <1>4, <2>2 DEF Drop
    <3> QED
      BY <1>0, <2>1, <3>1, RequestStopMoves
  <2>3. CASE x \notin Watches \ Persistent
    <3>1. store' = store
      BY <1>4, <2>3 DEF Drop
    <3>2. StoreMoves({})
      BY <2>1, <3>1, SameMoves
    <3> QED
      BY <1>0, <3>2
  <2> QED
    BY <2>2, <2>3
<1>5. ASSUME NEW v \in Waits, NEW forget \in BOOLEAN, CancelWait(v, forget)
      PROVE  \E gone \in SUBSET Watches : StoreMoves(gone)
  <2>1. UNCHANGED <<store, log>> /\ forgotten \subseteq forgotten'
    BY <1>5 DEF CancelWait
  <2>2. StoreMoves({})
    BY <2>1, SameMoves
  <2> QED
    BY <1>0, <2>2
<1>6. ASSUME NEW s \in Savers, MarkFailed(s) PROVE \E gone \in SUBSET Watches : StoreMoves(gone)
  BY <1>0, <1>6, MarkFailedMoves
<1> QED
  BY <1>1, <1>2, <1>3, <1>4, <1>5, <1>6, StoreFrame

----------------------------------------------------------------------------
(* The files.                                                              *)

\* What a snapshot keeps is a file.
LEMMA SnapshotIs ==
    ASSUME DataInv
    PROVE  /\ FileOK(Snapshot)
           /\ \A w \in Watches : store.watches[w] = NoRecord => Snapshot.store.watches[w] = NoRecord
           /\ \A v \in Waits : waits[v] = NoRecord => Snapshot.waits[v] = NoRecord
           /\ \A w \in Watches \cap Persistent : Snapshot.store.watches[w] = store.watches[w]
           /\ \A v \in Waits \cap Persistent : Snapshot.waits[v] = waits[v]
<1>1. /\ store = [watches |-> store.watches, events |-> store.events, next |-> store.next]
      /\ store.watches \in [Watches -> WatchRecord \cup {NoRecord}]
      /\ store.events \subseteq Event /\ store.next \in Nat \ {0}
      /\ \A e \in store.events : e.id < store.next /\ store.watches[e.watch] # NoRecord
      /\ waits \in [Waits -> WaitRecord \cup {NoRecord}]
  BY DEF DataInv, StoreOK
<1> DEFINE W == [w \in Watches |-> IF w \in Persistent THEN store.watches[w] ELSE NoRecord]
           E == {e \in store.events : e.watch \in Persistent}
           V == [v \in Waits |-> IF v \in Persistent THEN waits[v] ELSE NoRecord]
           st == [store EXCEPT !.watches = W, !.events = E]
<1>2. Snapshot = [store |-> st, waits |-> V]
  BY DEF Snapshot
<1>3. /\ W \in [Watches -> WatchRecord \cup {NoRecord}]
      /\ \A w \in Watches : w \in Persistent => W[w] = store.watches[w]
      /\ \A w \in Watches : store.watches[w] = NoRecord => W[w] = NoRecord
  BY <1>1
<1>4. E \subseteq store.events /\ \A e \in E : e.watch \in Persistent
  OBVIOUS
<1>5. /\ V \in [Waits -> WaitRecord \cup {NoRecord}]
      /\ \A v \in Waits : waits[v] = NoRecord => V[v] = NoRecord
      /\ \A v \in Waits \cap Persistent : V[v] = waits[v]
  BY <1>1
<1> HIDE DEF W, E, V
<1>6. /\ st.watches = W /\ st.events = E /\ st.next = store.next
      /\ st = [watches |-> st.watches, events |-> st.events, next |-> st.next]
  <2>1. store = [watches |-> store.watches, events |-> store.events, next |-> store.next]
    BY <1>1
  <2>2. st = [store EXCEPT !.watches = W, !.events = E]
    OBVIOUS
  <2> HIDE DEF st
  <2>3. st = [watches |-> W, events |-> E, next |-> store.next]
    BY <2>1, <2>2
  <2> QED
    BY <2>3
<1> HIDE DEF st
<1>7. \A e \in E : e.watch \in Watches
  BY <1>1, <1>4 DEF Event
<1>8. StoreOK(st)
  BY <1>1, <1>3, <1>4, <1>6, <1>7 DEF StoreOK
<1>9. Snapshot.store = st /\ Snapshot.waits = V
  BY <1>2
<1> QED
  BY <1>3, <1>5, <1>6, <1>8, <1>9 DEF FileOK

\* What a new host makes of its file.
LEMMA RestartIs ==
    ASSUME FileOK(disk), HostRestart
    PROVE  /\ StoreOK(store')
           /\ waits' \in [Waits -> WaitRecord \cup {NoRecord}]
           /\ \A w \in Watches :
                disk.store.watches[w] = NoRecord <=> store'.watches[w] = NoRecord
           /\ \A v \in Waits : disk.waits[v] = NoRecord <=> waits'[v] = NoRecord
<1> DEFINE st == disk.store
           W == [w \in Watches |-> RestoredWatch(st.watches[w])]
           old == [st EXCEPT !.watches = W]
           kept == {w \in Watches : old.watches[w] # NoRecord}
<1>1. StoreOK(st) /\ disk.waits \in [Waits -> WaitRecord \cup {NoRecord}]
  BY DEF FileOK
<1>2. st.watches \in [Watches -> WatchRecord \cup {NoRecord}]
  BY <1>1 DEF StoreOK
<1>3. ASSUME NEW r \in WatchRecord \cup {NoRecord}
      PROVE  /\ RestoredWatch(r) \in WatchRecord \cup {NoRecord}
             /\ r = NoRecord <=> RestoredWatch(r) = NoRecord
             /\ r # NoRecord => RestoredWatch(r).dropped = r.dropped
  <2> DEFINE failed == [r EXCEPT !.status = "failed"]
  <2>1. r # NoRecord => /\ failed \in WatchRecord /\ failed.dropped = r.dropped
                        /\ failed # NoRecord
    <3> SUFFICES ASSUME r \in WatchRecord
                 PROVE  failed \in WatchRecord /\ failed.dropped = r.dropped /\ failed # NoRecord
      BY <1>3
    <3>1. failed \in WatchRecord /\ failed.dropped = r.dropped
      BY DEF WatchRecord, Statuses
    <3> HIDE DEF failed
    <3> QED
      BY <3>1, NoRecordAssumption
  <2>2. RestoredWatch(r) = IF r # NoRecord /\ r.status \in Active THEN failed ELSE r
    BY DEF RestoredWatch
  <2> HIDE DEF failed
  <2> QED
    BY <1>3, <2>1, <2>2
<1>4. /\ W \in [Watches -> WatchRecord \cup {NoRecord}]
      /\ \A w \in Watches : W[w] = NoRecord <=> st.watches[w] = NoRecord
      /\ \A w \in Watches : st.watches[w] # NoRecord =>
            W[w] # NoRecord /\ W[w].dropped = st.watches[w].dropped
  BY <1>2, <1>3
<1>5. old = [disk.store EXCEPT !.watches = [w \in Watches |-> RestoredWatch(@[w])]]
  OBVIOUS
<1>6. PICK order \in [1..Cardinality(kept) -> kept] : store' \in WithGaps(old, order)
  BY <1>5 DEF HostRestart
<1> HIDE DEF W
<1>7. Later(st, old, {}) /\ old.watches = W
  BY <1>1, <1>4, RewatchIs
<1> HIDE DEF old
<1>8. StoreOK(old) /\ kept = {w \in Watches : old.watches[w] # NoRecord}
  BY <1>7 DEF Later
<1>9. Cardinality(kept) \in Nat
  <2>1. kept \subseteq Calls
    BY DEF Calls
  <2>2. IsFiniteSet(kept)
    BY <2>1, ObservationAssumption, FS_Subset
  <2> QED
    BY <2>2, FS_CardinalityType
<1>10. StoreOK(store') /\ SameWatches(old, store')
  BY <1>6, <1>8, <1>9, GapsAreOK
<1>11. waits' = [v \in Waits |-> RestoredWait(disk.waits[v])]
  BY DEF HostRestart
<1>12. ASSUME NEW r \in WaitRecord \cup {NoRecord}
       PROVE  /\ RestoredWait(r) \in WaitRecord \cup {NoRecord}
              /\ r = NoRecord <=> RestoredWait(r) = NoRecord
  <2> DEFINE failed == [r EXCEPT !.outcome = "failed"]
  <2>1. r # NoRecord => failed \in WaitRecord
    BY <1>12 DEF WaitRecord, Outcomes
  <2>2. RestoredWait(r) = IF r # NoRecord /\ r.outcome = "running" THEN failed ELSE r
    BY DEF RestoredWait
  <2> HIDE DEF failed
  <2> QED
    BY <1>12, <2>1, <2>2, NoRecordAssumption
<1>13. /\ waits' \in [Waits -> WaitRecord \cup {NoRecord}]
       /\ \A v \in Waits : disk.waits[v] = NoRecord <=> waits'[v] = NoRecord
  BY <1>1, <1>11, <1>12
<1> QED
  BY <1>4, <1>7, <1>10, <1>13 DEF SameWatches

----------------------------------------------------------------------------
(* Calls, providers and handles.                                           *)

LEMMA CallStep ==
    ASSUME ThreadInv, [Next]_vars, NEW x \in Calls
    PROVE  /\ call' \in [Calls -> {"new", "checked", "refused", "setup", "unspawned", "failed",
                                   "saving", "returned", "dropped", "gone"}]
           /\ call'[x] \in {"new", "checked"} => call[x] \in {"new", "checked"}
           /\ call'[x] \in {"new", "checked"} =>
                (x \in Watches => ~CreateAdmit(x)) /\ (x \in Waits => ~WaitAdmit(x))
<1> DEFINE Places == {"new", "checked", "refused", "setup", "unspawned", "failed",
                      "saving", "returned", "dropped", "gone"}
           Early == {"new", "checked"}
<1>0. call \in [Calls -> Places] /\ Watches \subseteq Calls /\ Waits \subseteq Calls
  BY DEF ThreadInv, Calls
<1>1. /\ (x \in Watches /\ CreateAdmit(x)) => call'[x] \notin Early
      /\ (x \in Waits /\ WaitAdmit(x)) => call'[x] \notin Early
  BY <1>0 DEF CreateAdmit, WaitAdmit
<1>2. call' \in [Calls -> Places] /\ (call'[x] \in Early => call[x] \in Early)
  <2>1. CASE UNCHANGED call
    BY <1>0, <2>1
  <2>2. ASSUME NEW w \in Watches,
               \/ CreateCheck(w) \/ CreateAdmit(w) \/ CreateReady(w) \/ CreateFails(w)
               \/ CreateContinues(w)
        PROVE  call' \in [Calls -> Places] /\ (call'[x] \in Early => call[x] \in Early)
    BY <1>0, <2>2
       DEF CreateCheck, Calling, CreateAdmit, CreateReady, CreateFails, CreateContinues, Continue
  <2>3. ASSUME NEW v \in Waits, WaitCheck(v) \/ WaitAdmit(v)
        PROVE  call' \in [Calls -> Places] /\ (call'[x] \in Early => call[x] \in Early)
    BY <1>0, <2>3 DEF WaitCheck, Calling, WaitAdmit
  <2>4. ASSUME NEW y \in Calls, Drop(y)
        PROVE  call' \in [Calls -> Places] /\ (call'[x] \in Early => call[x] \in Early)
    BY <1>0, <2>4 DEF Drop
  <2>5. ASSUME NEW ok \in BOOLEAN, SaveEnds(ok)
        PROVE  call' \in [Calls -> Places] /\ (call'[x] \in Early => call[x] \in Early)
    BY <1>0, <2>5 DEF SaveEnds
  <2>6. ASSUME NEW s \in Savers, MarkFailed(s)
        PROVE  call' \in [Calls -> Places] /\ (call'[x] \in Early => call[x] \in Early)
    BY <1>0, <2>6 DEF MarkFailed
  <2>7. CASE HostRestart
    BY <1>0, <2>7 DEF HostRestart
  <2> QED
    BY <2>1, <2>2, <2>3, <2>4, <2>5, <2>6, <2>7, CallFrame
<1> QED
  BY <1>1, <1>2

\* The thread of a watch that still works worked before, or was started.
Working(w) == Emitting(w) \/ provider[w] \in {"failing", "finishing"}

LEMMA ProviderStep ==
    ASSUME ThreadInv, [Next]_vars, ~HostRestart, NEW w \in Watches
    PROVE  /\ provider' \in [Watches -> {"none", "setup", "ready", "running", "failing",
                                         "finishing", "marking", "ended"}]
           /\ \/ provider'[w] = "none" /\ provider[w] = "none" /\ (w \in finished' => w \in finished)
              \/ Working(w)' /\ Working(w) /\ (w \in finished' => w \in finished)
                             /\ (Emitting(w)' => Emitting(w))
              \/ Working(w)' /\ CreateAdmit(w) /\ Fits(w) /\ finished' = finished
              \/ provider'[w] \in {"marking", "ended"} /\ provider[w] # "none"
<1> DEFINE Places == {"none", "setup", "ready", "running", "failing", "finishing", "marking",
                      "ended"}
           Step == /\ provider' \in [Watches -> Places]
                   /\ \/ provider'[w] = "none" /\ provider[w] = "none"
                         /\ (w \in finished' => w \in finished)
                      \/ Working(w)' /\ Working(w) /\ (w \in finished' => w \in finished)
                                     /\ (Emitting(w)' => Emitting(w))
                      \/ Working(w)' /\ CreateAdmit(w) /\ Fits(w) /\ finished' = finished
                      \/ provider'[w] \in {"marking", "ended"} /\ provider[w] # "none"
<1>0. provider \in [Watches -> Places]
  BY DEF ThreadInv
<1>1. CASE UNCHANGED <<provider, finished>>
  BY <1>0, <1>1 DEF Working, Emitting
<1>2. ASSUME NEW x \in Watches, CreateAdmit(x) PROVE Step
  <2>1. UNCHANGED finished
    BY <1>2 DEF CreateAdmit
  <2>2. CASE Fits(x)
    <3>1. \/ provider' = [provider EXCEPT ![x] = "setup"]
          \/ provider' = [provider EXCEPT ![x] = "failing"]
      BY <1>2, <2>2 DEF CreateAdmit
    <3>2. CASE x = w
      BY <1>0, <1>2, <2>1, <2>2, <3>1, <3>2 DEF Working, Emitting
    <3>3. CASE x # w
      BY <1>0, <2>1, <3>1, <3>3 DEF Working, Emitting
    <3> QED
      BY <3>2, <3>3
  <2>3. CASE ~Fits(x)
    <3>1. UNCHANGED provider
      BY <1>2, <2>3 DEF CreateAdmit
    <3> QED
      BY <1>0, <2>1, <3>1 DEF Working, Emitting
  <2> QED
    BY <2>2, <2>3
<1>3. ASSUME NEW x \in Watches,
             \/ ProviderReady(x) \/ ProviderSignals(x) \/ ProviderReturns(x) \/ ProviderFails(x)
      PROVE  Step
  <2>1. UNCHANGED finished
    BY <1>3 DEF ProviderReady, ProviderSignals, ProviderReturns, ProviderFails
  <2>2. /\ Emitting(x) \/ provider[x] = "failing"
        /\ \E next \in {"ready", "running", "failing", "finishing"} :
              /\ provider' = [provider EXCEPT ![x] = next]
              /\ next \in {"ready", "running"} => Emitting(x)
    BY <1>3 DEF ProviderReady, ProviderSignals, ProviderReturns, ProviderFails, Emitting
  <2> QED
    BY <1>0, <2>1, <2>2 DEF Working, Emitting
<1>4. ASSUME NEW x \in Watches, ProviderFinishes(x) \/ ProviderEnds(x) PROVE Step
  <2>1. \E next \in {"marking", "ended"} : provider' = [provider EXCEPT ![x] = next]
    BY <1>4 DEF ProviderFinishes, ProviderEnds
  <2>2. provider[x] \in {"finishing", "marking"} /\ finished' \subseteq finished \cup {x}
    BY <1>4 DEF ProviderFinishes, ProviderEnds
  <2> QED
    BY <1>0, <2>1, <2>2 DEF Working, Emitting
<1> HIDE DEF Step
<1>5. Step
  BY <1>1, <1>2, <1>3, <1>4, ProviderFrame DEF Step
<1> QED
  BY <1>5 DEF Step

\* A control goes when its watch is forgotten, and only then.
LEMMA HandleStep ==
    ASSUME ThreadInv, [Next]_vars, ~HostRestart, NEW w \in Watches, w \in handles,
           w \notin finished, provider'[w] # "marking"
    PROVE  w \in handles'
<1>0. w \notin Waits
  BY ObservationAssumption
<1>1. CASE UNCHANGED handles
  BY <1>1
<1>2. ASSUME NEW x \in Watches, CreateAdmit(x) PROVE w \in handles'
  BY <1>2 DEF CreateAdmit
<1>3. ASSUME NEW x \in Watches, ProviderFinishes(x) PROVE w \in handles'
  <2>1. x # w
    BY <1>3 DEF ProviderFinishes, ThreadInv
  <2> QED
    BY <1>3, <2>1 DEF ProviderFinishes, Forgets
<1>4. ASSUME NEW x \in Watches, RemoveWatch(x) \/ SweepCheck(x) PROVE w \in handles'
  BY <1>4 DEF RemoveWatch, SweepCheck, Forgets
<1>5. ASSUME NEW v \in Waits, WaitAdmit(v) \/ WaitFinish(v) PROVE w \in handles'
  BY <1>0, <1>5 DEF WaitAdmit, WaitFinish, Finish
<1>6. ASSUME NEW v \in Waits, NEW forget \in BOOLEAN, CancelWait(v, forget) PROVE w \in handles'
  BY <1>0, <1>6 DEF CancelWait, Finish
<1>7. ASSUME NEW c \in Conns, Sweep(c) PROVE w \in handles'
  BY <1>0, <1>7 DEF Sweep
<1>8. ASSUME NEW s \in Savers, MarkFailed(s) PROVE w \in handles'
  BY <1>0, <1>8 DEF MarkFailed
<1> QED
  BY <1>1, <1>2, <1>3, <1>4, <1>5, <1>6, <1>7, <1>8, HandleFrame

----------------------------------------------------------------------------
(* The parts of the invariant hold after every step.                       *)

\* The files after a step are files before it, the snapshot, or what a new host wrote.
LEMMA FilesStep ==
    ASSUME [Next]_vars, NEW file \in Files'
    PROVE  \/ file \in Files /\ ~HostRestart
           \/ file = Snapshot /\ ~HostRestart
           \/ HostRestart /\ file = [store |-> store', waits |-> waits']
<1>0. HostRestart => file = [store |-> store', waits |-> waits']
  BY DEF HostRestart, Files
<1> SUFFICES ASSUME ~HostRestart PROVE file \in Files \/ file = Snapshot
  BY <1>0
<1>1. CASE UNCHANGED <<disk, writing>>
  BY <1>1 DEF Files
<1>2. ASSUME NEW s \in Savers, SaveBegins(s) PROVE file \in Files \/ file = Snapshot
  <2>1. disk' = disk /\ writing' = [by |-> s, snap |-> Snapshot]
    BY <1>2 DEF SaveBegins
  <2>2. file = disk \/ file = Snapshot
    BY <2>1 DEF Files
  <2> QED
    BY <2>2 DEF Files
<1>3. ASSUME NEW ok \in BOOLEAN, SaveEnds(ok) PROVE file \in Files \/ file = Snapshot
  <2>1. writing # NoSave /\ writing' = NoSave /\ disk' \in {disk, writing.snap}
    BY <1>3 DEF SaveEnds
  <2> QED
    BY <2>1 DEF Files
<1> QED
  BY <1>1, <1>2, <1>3, FileFrame

LEMMA WaitsStep ==
    ASSUME DataInv, ThreadInv, [Next]_vars, ~HostRestart
    PROVE  /\ waits' \in [Waits -> WaitRecord \cup {NoRecord}]
           /\ \A v \in Waits : waits'[v] # NoRecord /\ waits[v] = NoRecord => WaitAdmit(v)
<1>0. /\ waits \in [Waits -> WaitRecord \cup {NoRecord}]
      /\ verdict \in [Waits -> Outcomes]
      /\ seen \in [Waits -> Nat \cup {Stale}]
  BY DEF DataInv, ThreadInv
<1> DEFINE Step == /\ waits' \in [Waits -> WaitRecord \cup {NoRecord}]
                   /\ \A v \in Waits :
                        waits'[v] # NoRecord /\ waits[v] = NoRecord => WaitAdmit(v)
<1>1. ASSUME UNCHANGED waits PROVE Step
  BY <1>0, <1>1
<1>2. ASSUME NEW x \in Waits, WaitAdmit(x) PROVE Step
  <2> DEFINE rec == [outcome |-> "running", after |-> seen[x], cursor |-> seen[x]]
  <2>1. rec \in WaitRecord
    BY <1>0 DEF WaitRecord, Outcomes
  <2>2. waits' = waits \/ waits' = [waits EXCEPT ![x] = rec]
    BY <1>2 DEF WaitAdmit
  <2> HIDE DEF rec
  <2> QED
    BY <1>0, <1>2, <2>1, <2>2
<1>3. ASSUME NEW x \in Waits, NEW outcome \in Outcomes, NEW cursor \in Nat \cup {Stale},
             Finish(x, outcome, cursor)
      PROVE  Step
  <2>1. CASE waits[x] # NoRecord /\ waits[x].outcome = "running"
    <3> DEFINE rec == [waits[x] EXCEPT !.outcome = outcome, !.cursor = cursor]
    <3>1. waits[x] \in WaitRecord
      BY <1>0, <2>1
    <3>2. rec \in WaitRecord
      BY <3>1 DEF WaitRecord
    <3>3. waits' = [waits EXCEPT ![x] = rec]
      BY <1>0, <1>3, <2>1, <3>1 DEF Finish, WaitRecord
    <3> HIDE DEF rec
    <3> QED
      BY <1>0, <2>1, <3>2, <3>3
  <2>2. CASE ~(waits[x] # NoRecord /\ waits[x].outcome = "running")
    BY <1>0, <1>3, <2>2 DEF Finish
  <2> QED
    BY <2>1, <2>2
<1>4. ASSUME NEW x \in Waits, WaitFinish(x) PROVE Step
  <2>1. Finish(x, verdict[x], seen[x]) /\ verdict[x] \in Outcomes /\ seen[x] \in Nat \cup {Stale}
    BY <1>0, <1>4 DEF WaitFinish
  <2> HIDE DEF Step
  <2> QED
    BY <1>3, <2>1
<1>5. ASSUME NEW x \in Waits, NEW forget \in BOOLEAN, CancelWait(x, forget) PROVE Step
  <2>1. CASE forget
    <3>1. waits' = [waits EXCEPT ![x] = NoRecord]
      BY <1>5, <2>1 DEF CancelWait
    <3> QED
      BY <1>0, <3>1
  <2>2. CASE ~forget
    <3>1. Finish(x, "canceled", waits[x].cursor) /\ waits[x] # NoRecord
      BY <1>5, <2>2 DEF CancelWait
    <3>2. waits[x].cursor \in Nat \cup {Stale} /\ "canceled" \in Outcomes
      BY <1>0, <3>1 DEF WaitRecord, Outcomes
    <3> HIDE DEF Step
    <3> QED
      BY <1>3, <3>1, <3>2
  <2> QED
    BY <2>1, <2>2
<1>6. ASSUME NEW c \in Conns, Sweep(c) PROVE Step
  <2>1. \E gone : waits' = [x \in Waits |-> IF x \in gone THEN NoRecord ELSE waits[x]]
    BY <1>6 DEF Sweep
  <2> QED
    BY <1>0, <2>1
<1>7. ASSUME NEW s \in Savers, MarkFailed(s) PROVE Step
  <2> DEFINE vs == {x \in Waits \cap Persistent : waits[x] # NoRecord /\ waits[x].outcome = "running"}
             Rec(x) == IF x \in vs THEN [waits[x] EXCEPT !.outcome = "failed"] ELSE waits[x]
  <2>1. waits' = [x \in Waits |-> Rec(x)]
    BY <1>7 DEF MarkFailed
  <2>2. ASSUME NEW x \in Waits
        PROVE  /\ Rec(x) \in WaitRecord \cup {NoRecord}
               /\ waits[x] = NoRecord => Rec(x) = NoRecord
    BY <1>0 DEF WaitRecord, Outcomes
  <2> HIDE DEF Rec
  <2> QED
    BY <2>1, <2>2
<1> HIDE DEF Step
<1>8. Step
  BY <1>1, <1>2, <1>4, <1>5, <1>6, <1>7, WaitsFrame
<1> QED
  BY <1>8 DEF Step

LEMMA DataStep ==
    ASSUME DataInv, ThreadInv, FreshInv, [Next]_vars
    PROVE  DataInv'
<1>0. StoreOK(store) /\ log \subseteq Event /\ \A file \in Files : FileOK(file)
  BY DEF DataInv
<1>1. /\ StoreOK(store') /\ log' \subseteq Event
      /\ waits' \in [Waits -> WaitRecord \cup {NoRecord}]
  <2>1. CASE HostRestart
    <3>1. FileOK(disk)
      BY <1>0 DEF Files
    <3>2. StoreOK(store') /\ waits' \in [Waits -> WaitRecord \cup {NoRecord}]
      BY <2>1, <3>1, RestartIs
    <3>3. log' = store'.events
      BY <2>1 DEF HostRestart
    <3> QED
      BY <3>2, <3>3 DEF StoreOK
  <2>2. CASE ~HostRestart
    <3>1. PICK gone \in SUBSET Watches : StoreMoves(gone)
      BY <1>0, <2>2, StoreStep
    <3>2. StoreOK(store') /\ log' = log \cup (store'.events \ store.events)
      BY <3>1 DEF StoreMoves, Later
    <3>3. log' \subseteq Event
      BY <1>0, <3>2 DEF StoreOK
    <3>4. waits' \in [Waits -> WaitRecord \cup {NoRecord}]
      BY <2>2, WaitsStep
    <3> QED
      BY <3>2, <3>3, <3>4
  <2> QED
    BY <2>1, <2>2
<1>2. ASSUME NEW file \in Files' PROVE FileOK(file)
  <2>1. CASE file \in Files
    BY <1>0, <2>1
  <2>2. CASE file = Snapshot
    BY <2>2, SnapshotIs
  <2>3. CASE file = [store |-> store', waits |-> waits']
    BY <1>1, <2>3 DEF FileOK
  <2> QED
    BY <2>1, <2>2, <2>3, FilesStep
<1>3. \A file \in Files' : FileOK(file)
  BY <1>2
<1> QED
  BY <1>1, <1>3 DEF DataInv, StoreOK, FileOK

LEMMA FreshStep ==
    ASSUME DataInv, ThreadInv, FreshInv, [Next]_vars
    PROVE  FreshInv'
<1> SUFFICES ASSUME NEW x \in Calls, call'[x] \in {"new", "checked"}
             PROVE  /\ x \in Watches =>
                         /\ provider'[x] = "none" /\ x \notin finished'
                         /\ store'.watches[x] = NoRecord
                         /\ \A file \in Files' : file.store.watches[x] = NoRecord
                    /\ x \in Waits =>
                         /\ task'[x] = "none"
                         /\ waits'[x] = NoRecord
                         /\ \A file \in Files' : file.waits[x] = NoRecord
  BY DEF FreshInv, Kept
<1>1. call[x] \in {"new", "checked"}
  BY CallStep
<1>2. ASSUME x \in Watches
      PROVE  /\ provider'[x] = "none" /\ x \notin finished'
             /\ store'.watches[x] = NoRecord
             /\ \A file \in Files' : file.store.watches[x] = NoRecord
  <2>1. /\ provider[x] = "none" /\ x \notin finished /\ store.watches[x] = NoRecord
        /\ \A file \in Files : file.store.watches[x] = NoRecord
    BY <1>1, <1>2 DEF FreshInv, Kept
  <2>2. store'.watches[x] = NoRecord
    <3>1. CASE HostRestart
      <4>1. FileOK(disk) /\ disk.store.watches[x] = NoRecord
        BY <2>1 DEF DataInv, Files
      <4> QED
        BY <1>2, <3>1, <4>1, RestartIs
    <3>2. CASE ~HostRestart
      <4>1. PICK gone \in SUBSET Watches : StoreMoves(gone)
        BY <3>2, StoreStep DEF DataInv
      <4>2. Moved(x)
        BY <1>2, <4>1 DEF StoreMoves
      <4> QED
        BY <2>1, <4>2 DEF Moved
    <3> QED
      BY <3>1, <3>2
  <2>3. provider'[x] = "none" /\ x \notin finished'
    <3>1. CASE HostRestart
      BY <1>2, <3>1 DEF HostRestart
    <3>2. CASE ~HostRestart
      <4>1. ~CreateAdmit(x)
        BY <1>2, CallStep
      <4> QED
        BY <1>2, <2>1, <3>2, <4>1, ProviderStep DEF Working, Emitting
    <3> QED
      BY <3>1, <3>2
  <2>4. ASSUME NEW file \in Files' PROVE file.store.watches[x] = NoRecord
    <3>1. CASE file \in Files
      BY <2>1, <3>1
    <3>2. CASE file = Snapshot
      BY <1>2, <2>1, <3>2, SnapshotIs
    <3>3. CASE file = [store |-> store', waits |-> waits']
      BY <2>2, <3>3
    <3> QED
      BY <3>1, <3>2, <3>3, FilesStep
  <2> QED
    BY <2>2, <2>3, <2>4
<1>3. ASSUME x \in Waits
      PROVE  /\ task'[x] = "none"
             /\ waits'[x] = NoRecord
             /\ \A file \in Files' : file.waits[x] = NoRecord
  <2>1. /\ task[x] = "none" /\ waits[x] = NoRecord
        /\ \A file \in Files : file.waits[x] = NoRecord
    BY <1>1, <1>3 DEF FreshInv
  <2>0. ~WaitAdmit(x)
    BY <1>3, CallStep
  <2>2. waits'[x] = NoRecord
    <3>1. CASE HostRestart
      <4>1. FileOK(disk) /\ disk.waits[x] = NoRecord
        BY <2>1 DEF DataInv, Files
      <4> QED
        BY <1>3, <3>1, <4>1, RestartIs
    <3>2. CASE ~HostRestart
      BY <1>3, <2>0, <2>1, <3>2, WaitsStep
    <3> QED
      BY <3>1, <3>2
  <2>3. task'[x] = "none"
    <3>0. task \in [Waits -> {"none", "loop", "looked", "finishing", "ended"}]
      BY DEF ThreadInv
    <3>1. CASE HostRestart
      BY <1>3, <3>1 DEF HostRestart
    <3>2. CASE UNCHANGED waitVars
      BY <2>1, <3>2 DEF waitVars
    <3>3. ASSUME NEW v \in Waits,
                 \/ WaitCheck(v) \/ WaitAdmit(v) \/ Deadline(v) \/ WaitLook(v)
                 \/ WaitClock(v) \/ WaitFinish(v)
          PROVE  task'[x] = "none"
      <4>1. CASE WaitCheck(v) \/ Deadline(v)
        BY <2>1, <4>1 DEF WaitCheck, Deadline
      <4>2. CASE WaitAdmit(v)
        <5>1. v # x
          BY <2>0, <4>2
        <5> QED
          BY <1>3, <2>1, <3>0, <4>2, <5>1 DEF WaitAdmit
      <4>3. CASE WaitLook(v) \/ WaitClock(v) \/ WaitFinish(v)
        <5>1. v # x
          BY <2>1, <4>3 DEF WaitLook, WaitClock, WaitFinish
        <5> QED
          BY <1>3, <2>1, <3>0, <4>3, <5>1 DEF WaitLook, WaitClock, WaitFinish
      <4> QED
        BY <3>3, <4>1, <4>2, <4>3
    <3> QED
      BY <3>1, <3>2, <3>3, TaskFrame
  <2>4. ASSUME NEW file \in Files' PROVE file.waits[x] = NoRecord
    <3>1. CASE file \in Files
      BY <2>1, <3>1
    <3>2. CASE file = Snapshot
      BY <1>3, <2>1, <3>2, SnapshotIs
    <3>3. CASE file = [store |-> store', waits |-> waits']
      BY <2>2, <3>3
    <3> QED
      BY <3>1, <3>2, <3>3, FilesStep
  <2> QED
    BY <2>2, <2>3, <2>4
<1> QED
  BY <1>2, <1>3

LEMMA HandleInvStep ==
    ASSUME DataInv, ThreadInv, FreshInv, HandleInv, [Next]_vars
    PROVE  HandleInv'
<1>1. CASE HostRestart
  <2>1. provider' = [w \in Watches |-> "none"]
    BY <1>1 DEF HostRestart
  <2> QED
    BY <2>1 DEF HandleInv, Emitting
<1>2. CASE ~HostRestart
  <2> SUFFICES ASSUME NEW w \in Watches, Working(w)'
               PROVE  store'.watches[w] # NoRecord /\ w \in handles' /\ w \notin finished'
    BY DEF HandleInv, Kept, Working
  <2>0. provider'[w] # "marking" /\ provider'[w] # "none" /\ provider'[w] # "ended"
    BY DEF Working, Emitting
  <2>1. PICK gone \in SUBSET Watches : StoreMoves(gone)
    BY <1>2, StoreStep DEF DataInv
  <2>2. CASE Working(w) /\ (w \in finished' => w \in finished)
    <3>1. store.watches[w] # NoRecord /\ w \in handles /\ w \notin finished
      BY <2>2 DEF HandleInv, Working, Kept
    <3>2. w \notin gone
      BY <2>0, <2>1, <3>1 DEF StoreMoves
    <3>3. store'.watches[w] # NoRecord
      BY <2>1, <3>1, <3>2 DEF StoreMoves, Later
    <3>4. w \in handles'
      BY <1>2, <2>0, <3>1, HandleStep
    <3> QED
      BY <2>2, <3>1, <3>3, <3>4
  <2>3. CASE CreateAdmit(w) /\ Fits(w) /\ finished' = finished
    <3>1. w \notin finished /\ store.watches[w] = NoRecord
      BY <2>3 DEF CreateAdmit, FreshInv, Calls, Kept
    <3>2. w \in handles'
      BY <2>3 DEF CreateAdmit
    <3>3. store'.watches[w] # NoRecord
      <4> DEFINE rec == [status |-> "starting", dropped |-> 0, gap |-> 0]
      <4>1. store' = [store EXCEPT !.watches[w] = rec]
        BY <2>3 DEF CreateAdmit
      <4>2. rec \in WatchRecord
        BY DEF WatchRecord, Statuses, Active
      <4> HIDE DEF rec
      <4>3. store'.watches[w] = rec
        BY <4>1 DEF DataInv, StoreOK
      <4> QED
        BY <4>2, <4>3, NoRecordAssumption
    <3> QED
      BY <2>3, <3>1, <3>2, <3>3
  <2> QED
    BY <1>2, <2>0, <2>2, <2>3, ProviderStep
<1> QED
  BY <1>1, <1>2

LEMMA HistoryStep ==
    ASSUME DataInv, ThreadInv, FreshInv, HistoryInv, [Next]_vars
    PROVE  HistoryInv'
<1>1. CASE HostRestart
  <2>1. FileOK(disk) /\ log' = store'.events
    BY <1>1 DEF DataInv, Files, HostRestart
  <2>2. StoreOK(store')
    BY <1>1, <2>1, RestartIs
  <2> QED
    BY <2>1, <2>2 DEF HistoryInv, StoreOK
<1>2. CASE ~HostRestart
  <2>1. PICK gone \in SUBSET Watches : StoreMoves(gone)
    BY <1>2, StoreStep DEF DataInv
  <2>2. /\ Later(store, store', gone) /\ StoreOK(store') /\ StoreOK(store)
        /\ gone \subseteq forgotten' /\ forgotten \subseteq forgotten'
        /\ log' = log \cup (store'.events \ store.events)
    BY <2>1 DEF StoreMoves, Later, DataInv
  <2>3. store'.events \subseteq log'
    BY <2>2 DEF HistoryInv
  <2>4. ASSUME NEW e \in log'
        PROVE  /\ e.id < store'.next
               /\ \/ e \in store'.events \/ e.watch \in forgotten'
                  \/ store'.watches[e.watch] # NoRecord /\ e.id <= store'.watches[e.watch].dropped
    <3>1. CASE e \in store'.events
      BY <2>2, <3>1 DEF StoreOK
    <3>2. CASE e \in log /\ e \notin store'.events
      <4>1. e.id \in Nat /\ e.watch \in Watches /\ e.id < store.next
        BY <3>2 DEF HistoryInv, DataInv, Event
      <4>2. e.id < store'.next
        BY <2>2, <4>1 DEF Later, StoreOK
      <4>3. CASE e \in store.events
        BY <2>2, <3>2, <4>2, <4>3 DEF Later
      <4>4. CASE e.watch \in forgotten
        BY <2>2, <4>2, <4>4
      <4>5. CASE Kept(e.watch) /\ e.id <= store.watches[e.watch].dropped /\ e.watch \notin gone
        <5>1. /\ store'.watches[e.watch] # NoRecord
              /\ store.watches[e.watch].dropped <= store'.watches[e.watch].dropped
          BY <2>2, <4>1, <4>5 DEF Later, Kept
        <5>2. /\ store.watches[e.watch].dropped \in Nat
              /\ store'.watches[e.watch].dropped \in Nat
          BY <2>2, <4>1, <4>5, <5>1 DEF StoreOK, WatchRecord, Kept
        <5> QED
          BY <4>1, <4>2, <4>5, <5>1, <5>2
      <4>6. CASE e.watch \in gone
        BY <2>2, <4>2, <4>6
      <4> QED
        BY <3>2, <4>3, <4>4, <4>5, <4>6 DEF HistoryInv
    <3> QED
      BY <2>2, <3>1, <3>2
  <2> QED
    BY <2>3, <2>4 DEF HistoryInv, Kept
<1> QED
  BY <1>1, <1>2

----------------------------------------------------------------------------
(* The loop of a wait.                                                     *)

LEMMA OldestIs ==
    ASSUME NEW events \in SUBSET Event, events # {}
    PROVE  Oldest(events) \in events /\ \A f \in events : Oldest(events).id <= f.id
<1> DEFINE Ids == {e.id : e \in events}
<1>1. Ids \in SUBSET Nat /\ Ids # {}
  BY DEF Event
<1>2. PICK n \in Ids : \A m \in Ids : n <= m
  <2> HIDE DEF Ids
  <2> QED
    BY <1>1, Least
<1>3. \E e \in events : \A f \in events : e.id <= f.id
  BY <1>2
<1> QED
  BY <1>3 DEF Oldest

\* What one look does: satisfied by an event it found, or up to date, or at an end.
LEMMA LookIs ==
    ASSUME DataInv, ThreadInv, NEW v \in Waits, WaitLook(v)
    PROVE  /\ task[v] = "loop" /\ UNCHANGED <<waits, store, log, forgotten, due>>
           /\ \A x \in Waits \ {v} : /\ seen'[x] = seen[x] /\ task'[x] = task[x]
                                     /\ verdict'[x] = verdict[x]
           /\ \/ /\ task'[v] = "finishing" /\ verdict'[v] = "satisfied"
                 /\ \E e \in store.events : /\ Matches(v, e) /\ seen[v] < e.id
                                            /\ seen'[v] = e.id
              \/ /\ task'[v] = "looked" /\ Found(v) = {} /\ ~GapSince(v)
                 /\ seen'[v] = store.next - 1 /\ verdict'[v] = "running"
              \/ /\ task'[v] = "finishing" /\ verdict'[v] \in {"canceled", "failed"}
                 /\ seen'[v] = seen[v]
<1>0. /\ task \in [Waits -> {"none", "loop", "looked", "finishing", "ended"}]
      /\ seen \in [Waits -> Nat \cup {Stale}]
      /\ verdict \in [Waits -> Outcomes]
      /\ store.events \subseteq Event
  BY DEF ThreadInv, DataInv, StoreOK
<1> DEFINE at == CASE Look(v) = "satisfied" -> Oldest(Found(v)).id
                   [] Look(v) = "running"   -> store.next - 1
                   [] OTHER                 -> seen[v]
<1>1. /\ task[v] = "loop"
      /\ verdict' = [verdict EXCEPT ![v] = Look(v)]
      /\ task' = [task EXCEPT ![v] = IF Look(v) = "running" THEN "looked" ELSE "finishing"]
      /\ seen' = [seen EXCEPT ![v] = at]
      /\ UNCHANGED <<waits, store, log, forgotten, due>>
  BY DEF WaitLook, history
<1>2. /\ verdict'[v] = Look(v)
      /\ task'[v] = IF Look(v) = "running" THEN "looked" ELSE "finishing"
      /\ seen'[v] = at
      /\ \A x \in Waits \ {v} : /\ seen'[x] = seen[x] /\ task'[x] = task[x]
                                /\ verdict'[x] = verdict[x]
  <2> HIDE DEF at
  <2> QED
    BY <1>0, <1>1
<1>3. CASE Look(v) = "satisfied"
  <2>1. Found(v) # {} /\ Found(v) \in SUBSET Event
    BY <1>0, <1>3 DEF Look, Found
  <2>2. Oldest(Found(v)) \in Found(v)
    BY <2>1, OldestIs
  <2>3. at = Oldest(Found(v)).id
    BY <1>3
  <2>4. seen'[v] = Oldest(Found(v)).id
    BY <1>2, <2>3
  <2>5. \E e \in store.events : Matches(v, e) /\ seen[v] < e.id /\ seen'[v] = e.id
    BY <1>0, <2>2, <2>4 DEF Found, Event, Stale
  <2> QED
    BY <1>1, <1>2, <1>3, <2>5
<1>4. CASE Look(v) = "running"
  <2>1. Found(v) = {} /\ ~GapSince(v)
    BY <1>4 DEF Look
  <2>2. at = store.next - 1
    BY <1>4
  <2> QED
    BY <1>1, <1>2, <1>4, <2>1, <2>2
<1>5. CASE Look(v) \in {"canceled", "failed"}
  <2>1. at = seen[v]
    BY <1>5
  <2> QED
    BY <1>1, <1>2, <1>5, <2>1
<1> QED
  BY <1>3, <1>4, <1>5 DEF Look

LEMMA NumbersStep ==
    ASSUME DataInv, ThreadInv, FreshInv, SeenInv, [Next]_vars
    PROVE  /\ seen' \in [Waits -> Nat \cup {Stale}]
           /\ due' \in [Waits -> Nat \cup {NotDue}]
           /\ SeenInv'
<1>0. /\ seen \in [Waits -> Nat \cup {Stale}]
      /\ due \in [Waits -> Nat \cup {NotDue}]
      /\ store.next \in Nat \ {0} /\ store.events \subseteq Event
      /\ \A e \in store.events : e.id < store.next
  BY DEF ThreadInv, DataInv, StoreOK
<1>1. CASE HostRestart
  <2>1. /\ seen' = [v \in Waits |-> Stale]
        /\ due' = [v \in Waits |-> NotDue]
    BY <1>1 DEF HostRestart
  <2>2. store'.next \in Nat
    BY <1>1, RestartIs DEF DataInv, Files, StoreOK
  <2> QED
    BY <2>1, <2>2 DEF SeenInv, Stale
<1>2. CASE ~HostRestart
  <2>1. PICK gone \in SUBSET Watches : StoreMoves(gone)
    BY <1>2, StoreStep DEF DataInv
  <2>2. store.next <= store'.next /\ store'.next \in Nat
    BY <2>1 DEF StoreMoves, Later, StoreOK
  <2>3. due' \in [Waits -> Nat \cup {NotDue}]
    <3>1. due' = due \/ \E v \in Waits : due' = [due EXCEPT ![v] = store.next - 1]
      BY <1>2, TaskFrame
         DEF waitVars, WaitCheck, WaitAdmit, Deadline, WaitLook, WaitClock, WaitFinish
    <3>2. store.next - 1 \in Nat
      BY <1>0
    <3> QED
      BY <1>0, <3>1, <3>2
  <2>4. /\ seen' \in [Waits -> Nat \cup {Stale}]
        /\ \A v \in Waits : seen'[v] < store.next
    <3>1. \/ seen' = seen
          \/ \E v \in Waits : WaitCheck(v) \/ WaitLook(v)
      BY <1>2, TaskFrame DEF waitVars, WaitAdmit, Deadline, WaitClock, WaitFinish
    <3>2. CASE seen' = seen
      BY <1>0, <3>2 DEF SeenInv
    <3>3. ASSUME NEW v \in Waits, NEW at \in Nat \cup {Stale}, at < store.next,
                 seen' = [seen EXCEPT ![v] = at]
          PROVE  /\ seen' \in [Waits -> Nat \cup {Stale}]
                 /\ \A x \in Waits : seen'[x] < store.next
      BY <1>0, <3>3 DEF SeenInv
    <3>4. ASSUME NEW v \in Waits, WaitCheck(v)
          PROVE  /\ seen' \in [Waits -> Nat \cup {Stale}]
                 /\ \A x \in Waits : seen'[x] < store.next
      <4>1. PICK at \in {Stale} \cup 0..(store.next - 1) : seen' = [seen EXCEPT ![v] = at]
        BY <3>4 DEF WaitCheck
      <4>2. at \in Nat \cup {Stale} /\ at < store.next
        BY <1>0 DEF Stale
      <4> QED
        BY <3>3, <4>1, <4>2
    <3>5. ASSUME NEW v \in Waits, WaitLook(v)
          PROVE  /\ seen' \in [Waits -> Nat \cup {Stale}]
                 /\ \A x \in Waits : seen'[x] < store.next
      <4>1. \E at : seen' = [seen EXCEPT ![v] = at]
        BY <3>5 DEF WaitLook
      <4>2. PICK at : seen' = [seen EXCEPT ![v] = at]
        BY <4>1
      <4>3. seen'[v] = at
        BY <1>0, <4>2
      <4>4. \/ \E e \in store.events : seen'[v] = e.id
            \/ seen'[v] = store.next - 1
            \/ seen'[v] = seen[v]
        BY <3>5, LookIs
      <4>5. at \in Nat \cup {Stale} /\ at < store.next
        BY <1>0, <4>3, <4>4 DEF SeenInv, Event
      <4> QED
        BY <3>3, <4>2, <4>5
    <3> QED
      BY <3>1, <3>2, <3>4, <3>5
  <2>5. \A v \in Waits : seen'[v] < store'.next
    BY <1>0, <2>2, <2>4 DEF Stale
  <2> QED
    BY <2>3, <2>4, <2>5 DEF SeenInv
<1> QED
  BY <1>1, <1>2

LEMMA ThreadStep ==
    ASSUME DataInv, ThreadInv, FreshInv, SeenInv, [Next]_vars
    PROVE  ThreadInv'
<1> DEFINE Places == {"none", "setup", "ready", "running", "failing", "finishing", "marking",
                      "ended"}
           Tasks == {"none", "loop", "looked", "finishing", "ended"}
<1>0. /\ provider \in [Watches -> Places] /\ task \in [Waits -> Tasks]
      /\ verdict \in [Waits -> Outcomes] /\ handles \subseteq Calls
  BY DEF ThreadInv
<1>1. call' \in [Calls -> {"new", "checked", "refused", "setup", "unspawned", "failed",
                           "saving", "returned", "dropped", "gone"}]
  <2>1. CASE Calls = {}
    <3>1. call' = call
      BY <2>1, CallFrame
         DEF SaveEnds, MarkFailed, HostRestart, Calls
    <3> QED
      BY <3>1 DEF ThreadInv
  <2>2. CASE Calls # {}
    BY <2>2, CallStep
  <2> QED
    BY <2>1, <2>2
<1>2. handles' \subseteq Calls
  <2>1. \/ handles' \subseteq handles
        \/ \E x \in Calls : handles' = handles \cup {x}
    BY HandleFrame
       DEF CreateAdmit, ProviderFinishes, RemoveWatch, SweepCheck, Forgets, WaitAdmit, WaitFinish,
           Finish, CancelWait, Sweep, MarkFailed, HostRestart, Calls
  <2> QED
    BY <1>0, <2>1
<1>3. provider' \in [Watches -> Places]
  <2>1. CASE Watches = {}
    <3>1. provider' = provider \/ HostRestart
      BY <2>1, ProviderFrame
    <3> QED
      BY <1>0, <3>1 DEF HostRestart
  <2>2. CASE Watches # {} /\ ~HostRestart
    BY <2>2, ProviderStep
  <2>3. CASE HostRestart
    BY <2>3 DEF HostRestart
  <2> QED
    BY <2>1, <2>2, <2>3
<1>4. task' \in [Waits -> Tasks] /\ verdict' \in [Waits -> Outcomes]
  <2>1. CASE UNCHANGED waitVars
    BY <1>0, <2>1 DEF waitVars
  <2>2. CASE HostRestart
    BY <2>2 DEF HostRestart, Outcomes
  <2>3. ASSUME NEW v \in Waits,
               \/ WaitCheck(v) \/ WaitAdmit(v) \/ Deadline(v) \/ WaitClock(v) \/ WaitFinish(v)
        PROVE  task' \in [Waits -> Tasks] /\ verdict' \in [Waits -> Outcomes]
    BY <1>0, <2>3 DEF WaitCheck, WaitAdmit, Deadline, WaitClock, WaitFinish, Outcomes
  <2>4. ASSUME NEW v \in Waits, WaitLook(v)
        PROVE  task' \in [Waits -> Tasks] /\ verdict' \in [Waits -> Outcomes]
    <3>1. Look(v) \in Outcomes
      BY DEF Look, Outcomes
    <3>2. /\ verdict' = [verdict EXCEPT ![v] = Look(v)]
          /\ task' = [task EXCEPT ![v] = IF Look(v) = "running" THEN "looked" ELSE "finishing"]
      BY <2>4 DEF WaitLook
    <3> QED
      BY <1>0, <3>1, <3>2
  <2> QED
    BY <2>1, <2>2, <2>3, <2>4, TaskFrame
<1>5. /\ seen' \in [Waits -> Nat \cup {Stale}]
      /\ due' \in [Waits -> Nat \cup {NotDue}]
  BY NumbersStep
<1> QED
  BY <1>1, <1>2, <1>3, <1>4, <1>5 DEF ThreadInv

\* A recorded event matches as it did: a deadline that passes only shuts out later ones.
LEMMA MatchStep ==
    ASSUME DataInv, ThreadInv, HistoryInv, [Next]_vars, ~HostRestart, NEW v \in Waits,
           NEW e \in log
    PROVE  Matches(v, e)' <=> Matches(v, e)
<1>0. /\ due \in [Waits -> Nat \cup {NotDue}] /\ e.id \in Nat /\ e.id < store.next
      /\ store.next \in Nat
  BY DEF ThreadInv, DataInv, StoreOK, HistoryInv, Event
<1>1. due'[v] = due[v] \/ (due[v] = NotDue /\ due'[v] = store.next - 1)
  <2>1. due' = due \/ \E x \in Waits : Deadline(x)
    BY TaskFrame DEF waitVars, WaitCheck, WaitAdmit, Deadline, WaitLook, WaitClock, WaitFinish
  <2> QED
    BY <1>0, <2>1 DEF Deadline
<1>2. e.id <= store.next - 1
  BY <1>0
<1> QED
  BY <1>1, <1>2 DEF Matches, Scope

\* What the record and the task of a wait do together.
LEMMA TaskStep ==
    ASSUME DataInv, ThreadInv, FreshInv, [Next]_vars, ~HostRestart, NEW v \in Waits,
           waits'[v] # NoRecord, task'[v] # "none"
    PROVE  \/ /\ WaitAdmit(v) /\ task'[v] = "loop" /\ seen' = seen
              /\ waits'[v] = [outcome |-> "running", after |-> seen[v], cursor |-> seen[v]]
           \/ /\ waits[v] # NoRecord /\ task[v] # "none"
              /\ \/ WaitLook(v) \/ WaitClock(v) \/ WaitFinish(v)
                 \/ /\ task'[v] = task[v] /\ seen'[v] = seen[v] /\ verdict'[v] = verdict[v]
                    /\ waits'[v].after = waits[v].after
                    /\ \/ waits'[v] = waits[v]
                       \/ waits'[v].outcome \in {"canceled", "failed"}
<1>0. /\ waits \in [Waits -> WaitRecord \cup {NoRecord}]
      /\ task \in [Waits -> {"none", "loop", "looked", "finishing", "ended"}]
      /\ seen \in [Waits -> Nat \cup {Stale}]
      /\ verdict \in [Waits -> Outcomes]
  BY DEF DataInv, ThreadInv
<1>1. CASE WaitAdmit(v)
  <2>1. waits[v] = NoRecord /\ task[v] = "none"
    BY <1>1 DEF WaitAdmit, FreshInv, Calls
  <2> DEFINE rec == [outcome |-> "running", after |-> seen[v], cursor |-> seen[v]]
  <2>2. /\ waits' = [waits EXCEPT ![v] = rec] /\ task' = [task EXCEPT ![v] = "loop"]
        /\ seen' = seen
    BY <1>0, <1>1, <2>1 DEF WaitAdmit
  <2> HIDE DEF rec
  <2>3. waits'[v] = rec /\ task'[v] = "loop"
    BY <1>0, <2>2
  <2> QED
    BY <1>1, <2>2, <2>3 DEF rec
<1>2. CASE ~WaitAdmit(v)
  <2>1. waits[v] # NoRecord
    BY <1>2, WaitsStep
  <2>2. call[v] \notin {"new", "checked"}
    BY <2>1 DEF FreshInv, Calls
  <2>3. \/ WaitLook(v) \/ WaitClock(v) \/ WaitFinish(v)
        \/ task'[v] = task[v] /\ seen'[v] = seen[v] /\ verdict'[v] = verdict[v]
    <3>1. CASE UNCHANGED waitVars
      BY <3>1 DEF waitVars
    <3>2. ASSUME NEW x \in Waits,
                 \/ WaitCheck(x) \/ WaitAdmit(x) \/ Deadline(x) \/ WaitLook(x)
                 \/ WaitClock(x) \/ WaitFinish(x)
          PROVE  \/ WaitLook(v) \/ WaitClock(v) \/ WaitFinish(v)
                 \/ task'[v] = task[v] /\ seen'[v] = seen[v] /\ verdict'[v] = verdict[v]
      <4>1. CASE x = v
        <5>1. ~WaitCheck(v)
          BY <2>2 DEF WaitCheck, Calling
        <5> QED
          BY <1>2, <3>2, <4>1, <5>1 DEF Deadline
      <4>2. CASE x # v
        BY <1>0, <3>2, <4>2
           DEF WaitCheck, WaitAdmit, Deadline, WaitLook, WaitClock, WaitFinish
      <4> QED
        BY <4>1, <4>2
    <3> QED
      BY <3>1, <3>2, TaskFrame
  <2>4. \/ WaitFinish(v)
        \/ /\ waits'[v].after = waits[v].after
           /\ \/ waits'[v] = waits[v]
              \/ waits'[v].outcome \in {"canceled", "failed"}
    <3> DEFINE Kind == \/ WaitFinish(v)
                       \/ /\ waits'[v].after = waits[v].after
                          /\ \/ waits'[v] = waits[v]
                             \/ waits'[v].outcome \in {"canceled", "failed"}
    <3>1. ASSUME UNCHANGED waits PROVE Kind
      BY <3>1
    <3>2. ASSUME NEW x \in Waits, WaitAdmit(x) \/ WaitFinish(x) PROVE Kind
      <4>1. CASE x = v
        BY <1>2, <3>2, <4>1
      <4>2. CASE x # v
        <5>1. waits' = waits \/ \E r : waits' = [waits EXCEPT ![x] = r]
          <6>1. CASE WaitAdmit(x)
            BY <6>1 DEF WaitAdmit
          <6>2. CASE WaitFinish(x)
            <7>1. waits' = waits \/
                    waits' = [waits EXCEPT ![x] = [@ EXCEPT !.outcome = verdict[x], !.cursor = seen[x]]]
              BY <6>2 DEF WaitFinish, Finish
            <7> QED
              BY <7>1
          <6> QED
            BY <3>2, <6>1, <6>2
        <5>2. waits'[v] = waits[v]
          BY <1>0, <4>2, <5>1
        <5> QED
          BY <5>2
      <4> QED
        BY <4>1, <4>2
    <3>3. ASSUME NEW x \in Waits, NEW forget \in BOOLEAN, CancelWait(x, forget) PROVE Kind
      <4>1. CASE forget
        <5>1. waits' = [waits EXCEPT ![x] = NoRecord]
          BY <3>3, <4>1 DEF CancelWait
        <5>2. x # v /\ waits'[v] = waits[v]
          BY <1>0, <5>1
        <5> QED
          BY <5>2
      <4>2. CASE ~forget
        <5>1. Finish(x, "canceled", waits[x].cursor) /\ waits[x] # NoRecord
          BY <3>3, <4>2 DEF CancelWait
        <5> DEFINE rec == [waits[x] EXCEPT !.outcome = "canceled", !.cursor = waits[x].cursor]
        <5>2. waits' = waits \/ waits' = [waits EXCEPT ![x] = rec]
          BY <5>1 DEF Finish
        <5>3. rec.after = waits[x].after /\ rec.outcome = "canceled"
          BY <1>0, <5>1 DEF WaitRecord
        <5> HIDE DEF rec
        <5> QED
          BY <1>0, <5>2, <5>3
      <4> QED
        BY <4>1, <4>2
    <3>4. ASSUME NEW c \in Conns, Sweep(c) PROVE Kind
      <4>1. \E gone : waits' = [x \in Waits |-> IF x \in gone THEN NoRecord ELSE waits[x]]
        BY <3>4 DEF Sweep
      <4> QED
        BY <4>1
    <3>5. ASSUME NEW s \in Savers, MarkFailed(s) PROVE Kind
      <4> DEFINE rec == [waits[v] EXCEPT !.outcome = "failed"]
      <4>1. waits'[v] = waits[v] \/ waits'[v] = rec
        BY <3>5 DEF MarkFailed
      <4>2. rec.after = waits[v].after /\ rec.outcome = "failed"
        BY <1>0, <2>1 DEF WaitRecord
      <4> HIDE DEF rec
      <4> QED
        BY <4>1, <4>2
    <3> HIDE DEF Kind
    <3>6. Kind
      BY <3>1, <3>2, <3>3, <3>4, <3>5, WaitsFrame
    <3> QED
      BY <3>6 DEF Kind
  <2>5. CASE task[v] # "none"
    BY <2>1, <2>3, <2>4, <2>5
  <2>6. CASE task[v] = "none"
    BY <2>3, <2>6 DEF WaitLook, WaitClock, WaitFinish
  <2> QED
    BY <2>5, <2>6
<1> QED
  BY <1>1, <1>2

\* The knowledge of the waits stays true, and their tasks use it as they should.
LEMMA WaitStep ==
    ASSUME DataInv, ThreadInv, FreshInv, HistoryInv, SeenInv, WaitInv, [Next]_vars
    PROVE  WaitInv'
<1>1. CASE HostRestart
  <2>1. task' = [v \in Waits |-> "none"]
    BY <1>1 DEF HostRestart
  <2> QED
    BY <2>1 DEF WaitInv
<1>2. CASE ~HostRestart
  <2> SUFFICES ASSUME NEW v \in Waits, waits'[v] # NoRecord, task'[v] # "none"
               PROVE  Knows(v)'
    BY DEF WaitInv
  <2> DEFINE NotMissed(after, upto) ==
                 \A e \in log' : Matches(v, e)' /\ after < e.id /\ e.id <= upto
                                   => e.watch \in forgotten'
             IsHit(after, at) == after < at /\ \E e \in log' : e.id = at /\ Matches(v, e)'
  <2>0. /\ seen \in [Waits -> Nat \cup {Stale}] /\ store.next \in Nat \ {0}
        /\ waits \in [Waits -> WaitRecord \cup {NoRecord}]
        /\ task \in [Waits -> {"none", "loop", "looked", "finishing", "ended"}]
        /\ verdict \in [Waits -> Outcomes]
        /\ seen[v] < store.next
        /\ log \subseteq Event /\ store.events \subseteq Event
    BY DEF ThreadInv, DataInv, StoreOK, SeenInv
  <2>1. PICK gone \in SUBSET Watches : StoreMoves(gone)
    BY <1>2, StoreStep DEF DataInv
  <2>2. /\ store.next <= store'.next /\ store'.next \in Nat
        /\ forgotten \subseteq forgotten' /\ log \subseteq log'
        /\ \A e \in log' : e \in log \/ (store.next <= e.id /\ e.id \in Nat)
    BY <2>0, <2>1 DEF StoreMoves, Later, StoreOK, Event
  <2>3. \A e \in log : Matches(v, e)' <=> Matches(v, e)
    BY <1>2, MatchStep
  <2>4. ASSUME NEW after, NEW upto \in Int, NothingMissed(v, after, upto), upto < store.next
        PROVE  NotMissed(after, upto)
    BY <2>0, <2>2, <2>3, <2>4 DEF NothingMissed
  <2>5. ASSUME NEW after, NEW at, Hit(v, after, at) PROVE IsHit(after, at)
    BY <2>2, <2>3, <2>5 DEF Hit
  <2>6. SUFFICES LET r == waits'[v] IN
                 /\ r.after <= seen'[v]
                 /\ task'[v] # "ended" => r.outcome \notin {"satisfied", "timed_out"}
                 /\ task'[v] \in {"loop", "looked"} => NotMissed(r.after, seen'[v])
                 /\ task'[v] = "finishing" =>
                       /\ verdict'[v] = "timed_out" => NotMissed(r.after, seen'[v])
                       /\ verdict'[v] = "satisfied" => IsHit(r.after, seen'[v])
                 /\ task'[v] = "ended" =>
                       /\ r.outcome = "timed_out" =>
                             r.cursor < store'.next /\ NotMissed(r.after, r.cursor)
                       /\ r.outcome = "satisfied" => IsHit(r.after, r.cursor)
    BY DEF Knows, NothingMissed, Hit
  <2>7. CASE /\ WaitAdmit(v) /\ task'[v] = "loop" /\ seen' = seen
             /\ waits'[v] = [outcome |-> "running", after |-> seen[v], cursor |-> seen[v]]
    <3>1. waits'[v].after = seen[v] /\ waits'[v].outcome = "running" /\ seen'[v] = seen[v]
      BY <2>7
    <3>2. NotMissed(seen[v], seen[v])
      <4>1. seen[v] \in Int
        BY <2>0 DEF Stale
      <4>2. NothingMissed(v, seen[v], seen[v])
        BY <2>0, <4>1 DEF NothingMissed, Event
      <4> QED
        BY <2>0, <2>4, <4>1, <4>2
    <3> HIDE DEF NotMissed, IsHit
    <3> QED
      BY <2>0, <2>7, <3>1, <3>2 DEF Stale
  <2>8. CASE /\ waits[v] # NoRecord /\ task[v] # "none"
             /\ \/ WaitLook(v) \/ WaitClock(v) \/ WaitFinish(v)
                \/ /\ task'[v] = task[v] /\ seen'[v] = seen[v] /\ verdict'[v] = verdict[v]
                   /\ waits'[v].after = waits[v].after
                   /\ \/ waits'[v] = waits[v]
                      \/ waits'[v].outcome \in {"canceled", "failed"}
    <3> DEFINE r == waits[v]
    <3>0. /\ r.after \in Int /\ r.cursor \in Int /\ seen[v] \in Int /\ r.after <= seen[v]
          /\ task[v] # "ended" => r.outcome \notin {"satisfied", "timed_out"}
          /\ task[v] \in {"loop", "looked"} => NothingMissed(v, r.after, seen[v])
          /\ task[v] = "finishing" =>
                /\ verdict[v] = "timed_out" => NothingMissed(v, r.after, seen[v])
                /\ verdict[v] = "satisfied" => Hit(v, r.after, seen[v])
          /\ task[v] = "ended" =>
                /\ r.outcome = "timed_out" =>
                      r.cursor < store.next /\ NothingMissed(v, r.after, r.cursor)
                /\ r.outcome = "satisfied" => Hit(v, r.after, r.cursor)
      <4>1. Knows(v)
        BY <2>8 DEF WaitInv
      <4>2. r \in WaitRecord
        BY <2>0, <2>8
      <4>3. r.after \in Int /\ r.cursor \in Int /\ seen[v] \in Int
        BY <2>0, <4>2 DEF WaitRecord, Stale
      <4> QED
        BY <4>1, <4>3 DEF Knows
    <3>1. CASE WaitLook(v)
      <4>1. /\ task[v] = "loop" /\ waits'[v] = r /\ UNCHANGED <<store, log, forgotten>>
            /\ \/ /\ task'[v] = "finishing" /\ verdict'[v] = "satisfied"
                  /\ \E e \in store.events : /\ Matches(v, e) /\ seen[v] < e.id
                                             /\ seen'[v] = e.id
               \/ /\ task'[v] = "looked" /\ Found(v) = {} /\ ~GapSince(v)
                  /\ seen'[v] = store.next - 1 /\ verdict'[v] = "running"
               \/ /\ task'[v] = "finishing" /\ verdict'[v] \in {"canceled", "failed"}
                  /\ seen'[v] = seen[v]
        BY <3>1, LookIs
      <4>2. r.outcome \notin {"satisfied", "timed_out"} /\ NothingMissed(v, r.after, seen[v])
        BY <3>0, <4>1
      <4>3. ASSUME NEW e \in store.events, Matches(v, e), seen[v] < e.id, seen'[v] = e.id
            PROVE  r.after <= seen'[v] /\ IsHit(r.after, seen'[v])
        <5>1. e.id \in Nat /\ e \in log
          BY <2>0 DEF Event, HistoryInv
        <5>2. Hit(v, r.after, e.id)
          BY <3>0, <4>3, <5>1 DEF Hit
        <5> HIDE DEF r
        <5>3. IsHit(r.after, e.id)
          BY <2>5, <5>2
        <5> HIDE DEF IsHit
        <5> QED
          BY <3>0, <4>3, <5>1, <5>3
      <4>4. ASSUME Found(v) = {}, ~GapSince(v), seen'[v] = store.next - 1
            PROVE  r.after <= seen'[v] /\ NotMissed(r.after, seen'[v])
        <5>1. ASSUME NEW e \in log, Matches(v, e), r.after < e.id, e.id <= store.next - 1
              PROVE  e.watch \in forgotten
          <6>1. CASE e.id <= seen[v]
            BY <4>2, <5>1, <6>1 DEF NothingMissed
          <6>2. CASE seen[v] < e.id
            <7>1. e \notin store.events
              BY <2>0, <4>4, <5>1, <6>2 DEF Found, Event
            <7>2. ~(Kept(e.watch) /\ e.id <= store.watches[e.watch].dropped)
              <8> SUFFICES ASSUME Kept(e.watch), e.id <= store.watches[e.watch].dropped
                           PROVE  FALSE
                OBVIOUS
              <8>1. e.watch \in Scope(v) \cap KeptWatches
                BY <5>1 DEF Matches, Scope, KeptWatches
              <8>2. store.watches[e.watch].dropped \in Nat
                BY <2>0 DEF DataInv, StoreOK, WatchRecord, Kept, Event
              <8>3. store.watches[e.watch].dropped > seen[v]
                BY <2>0, <3>0, <6>2, <8>2 DEF Event
              <8> QED
                BY <4>4, <8>1, <8>3 DEF GapSince
            <7> QED
              BY <7>1, <7>2 DEF HistoryInv
          <6> QED
            BY <2>0, <3>0, <6>1, <6>2 DEF Event
        <5>2. NothingMissed(v, r.after, store.next - 1)
          BY <5>1 DEF NothingMissed
        <5>3. store.next - 1 \in Int /\ store.next - 1 < store.next /\ seen[v] <= store.next - 1
          BY <2>0, <3>0
        <5> HIDE DEF r
        <5>4. NotMissed(r.after, store.next - 1)
          BY <2>4, <5>2, <5>3
        <5> HIDE DEF NotMissed
        <5> QED
          BY <3>0, <4>4, <5>3, <5>4
      <4> HIDE DEF r, NotMissed, IsHit
      <4> QED
        BY <3>0, <4>1, <4>2, <4>3, <4>4
    <3>2. CASE WaitClock(v)
      <4>1. /\ task[v] = "looked" /\ waits' = waits /\ seen' = seen
            /\ \/ task'[v] = "finishing" /\ verdict'[v] = "timed_out"
               \/ task'[v] = "loop"
        BY <2>0, <3>2 DEF WaitClock
      <4>2. NothingMissed(v, r.after, seen[v])
        BY <3>0, <4>1
      <4> HIDE DEF r
      <4>3. NotMissed(r.after, seen[v])
        BY <2>0, <2>4, <3>0, <4>2
      <4>4. waits'[v] = r /\ seen'[v] = seen[v]
        BY <4>1 DEF r
      <4> HIDE DEF NotMissed, IsHit
      <4> QED
        BY <3>0, <4>1, <4>3, <4>4
    <3>3. CASE WaitFinish(v)
      <4>1. /\ task[v] = "finishing" /\ task'[v] = "ended" /\ seen' = seen
            /\ Finish(v, verdict[v], seen[v])
        BY <2>0, <3>3 DEF WaitFinish
      <4>2. CASE r.outcome = "running"
        <5> DEFINE rec == [waits[v] EXCEPT !.outcome = verdict[v], !.cursor = seen[v]]
        <5>1. waits[v] \in WaitRecord
          BY <2>0, <2>8
        <5>2. rec.outcome = verdict[v] /\ rec.cursor = seen[v] /\ rec.after = r.after
          BY <5>1 DEF WaitRecord
        <5>3. waits' = [waits EXCEPT ![v] = rec]
          BY <2>0, <2>8, <4>1, <4>2, <5>1 DEF Finish, WaitRecord
        <5> HIDE DEF rec
        <5>4. waits'[v] = rec
          BY <2>0, <5>3
        <5> HIDE DEF r
        <5>5. verdict[v] = "timed_out" => NotMissed(r.after, seen[v])
          BY <2>0, <2>4, <3>0, <4>1
        <5>6. verdict[v] = "satisfied" => IsHit(r.after, seen[v])
          BY <2>5, <3>0, <4>1
        <5>7. seen[v] < store'.next
          BY <2>0, <2>2, <3>0
        <5> HIDE DEF NotMissed, IsHit
        <5> QED
          BY <3>0, <4>1, <5>2, <5>4, <5>5, <5>6, <5>7
      <4>3. CASE r.outcome # "running"
        <5>1. waits'[v] = r
          BY <4>1, <4>3 DEF Finish
        <5>2. r.outcome \notin {"satisfied", "timed_out"}
          BY <3>0, <4>1
        <5> HIDE DEF r, NotMissed, IsHit
        <5> QED
          BY <3>0, <4>1, <5>1, <5>2
      <4> QED
        BY <4>2, <4>3
    <3>4. CASE /\ task'[v] = task[v] /\ seen'[v] = seen[v] /\ verdict'[v] = verdict[v]
               /\ waits'[v].after = waits[v].after
               /\ \/ waits'[v] = waits[v]
                  \/ waits'[v].outcome \in {"canceled", "failed"}
      <4>1. NothingMissed(v, r.after, seen[v]) => NotMissed(r.after, seen[v])
        BY <2>0, <2>4, <3>0
      <4>2. Hit(v, r.after, seen[v]) => IsHit(r.after, seen[v])
        BY <2>5
      <4>3. r.cursor < store.next /\ NothingMissed(v, r.after, r.cursor) =>
                r.cursor < store'.next /\ NotMissed(r.after, r.cursor)
        <5> SUFFICES ASSUME r.cursor < store.next, NothingMissed(v, r.after, r.cursor)
                     PROVE  r.cursor < store'.next /\ NotMissed(r.after, r.cursor)
          OBVIOUS
        <5>1. NotMissed(r.after, r.cursor)
          BY <2>4, <3>0
        <5> QED
          BY <2>0, <2>2, <3>0, <5>1
      <4>4. Hit(v, r.after, r.cursor) => IsHit(r.after, r.cursor)
        BY <2>5
      <4> HIDE DEF NotMissed, IsHit
      <4> QED
        BY <3>0, <3>4, <4>1, <4>2, <4>3, <4>4
    <3> QED
      BY <2>8, <3>1, <3>2, <3>3, <3>4
  <2> QED
    BY <1>2, <2>7, <2>8, TaskStep
<1> QED
  BY <1>1, <1>2

----------------------------------------------------------------------------
(* Connections that are swept.                                             *)

\* While the host lives, what was told to stop stays told.
LEMMA CanceledGrows ==
    ASSUME [Next]_vars, ~HostRestart
    PROVE  canceled \subseteq canceled'
BY ZenonT(60) DEF Next, Creating, Providing, Waiting, Leaving, Disconnecting, Saving, Ending, vars,
       watchVars, waitVars, connVars, saveVars, hostVars, history, CreateCheck, CreateAdmit,
       CreateReady, CreateFails, CreateContinues, ProviderReady, ProviderSignals,
       ProviderReturns, ProviderFails, ProviderFinishes, ProviderEnds, ProviderEmits, Fails,
       RequestStop, WaitCheck, WaitAdmit, Deadline, WaitLook, WaitClock, WaitFinish,
       CancelWait, Drop, StopWatch, RemoveWatch, CloseConnection, Sweep, SweepStop,
       SweepCheck, WorkerWakes, SaveBegins, RecordFailure, MarkFailed, SaveEnds,
       ShutdownBegin, ShutdownFlush, ShutdownStop

\* Only a connection whose token is cancelled is swept.
SweptInv == swept \subseteq closed

LEMMA SweptStep ==
    ASSUME SweptInv, [Next]_vars
    PROVE  SweptInv'
BY ConnFrame DEF SweptInv, CloseConnection, Sweep, SweepStop, HostRestart, connVars

LEMMA StoppedStep ==
    ASSUME DataInv, ThreadInv, FreshInv, HandleInv, SweptInv, SweptIsStopped, [Next]_vars
    PROVE  SweptIsStopped'
<1>1. CASE HostRestart
  <2>1. swept' = {}
    BY <1>1 DEF HostRestart
  <2> QED
    BY <2>1 DEF SweptIsStopped
<1>2. CASE ~HostRestart
  <2>0. PICK gone \in SUBSET Watches : StoreMoves(gone)
    BY <1>2, StoreStep DEF DataInv
  <2>1. \/ swept' = swept /\ sweepStop' = sweepStop
        \/ \E c \in Conns : Sweep(c)
        \/ \E w \in Watches : SweepStop(w)
    BY <1>2, ConnFrame DEF CloseConnection
  <2> SUFFICES ASSUME NEW c \in swept'
               PROVE  /\ \A w \in Watches :
                            (w \notin Persistent /\ w \notin sweepStop' /\ Owner[w] = c) =>
                              /\ Emitting(w)' => w \in canceled'
                              /\ store'.watches[w] # NoRecord =>
                                   store'.watches[w].status \notin {"starting", "recording"}
                      /\ \A v \in Waits :
                            (v \notin Persistent /\ Owner[v] = c) => waits'[v] = NoRecord
    BY DEF SweptIsStopped, Kept
  <2>2. CASE c \in swept
    <3>1. /\ c \in closed
          /\ \A w \in Watches :
                (w \notin Persistent /\ w \notin sweepStop /\ Owner[w] = c) =>
                  /\ Emitting(w) => w \in canceled
                  /\ store.watches[w] # NoRecord =>
                       store.watches[w].status \notin {"starting", "recording"}
          /\ \A v \in Waits : (v \notin Persistent /\ Owner[v] = c) => waits[v] = NoRecord
      BY <2>2 DEF SweptInv, SweptIsStopped, Kept
    <3>2. ASSUME NEW w \in Watches, w \notin Persistent, w \notin sweepStop', Owner[w] = c
          PROVE  /\ Emitting(w)' => w \in canceled'
                 /\ store'.watches[w] # NoRecord =>
                      store'.watches[w].status \notin {"starting", "recording"}
      <4>0. ConnClosed(w)
        BY <3>1, <3>2 DEF ConnClosed
      <4>1. CASE w \notin sweepStop
        <5>1. Emitting(w)' => Emitting(w)
          BY <1>2, <4>0, ProviderStep DEF Fits, Emitting
        <5>2. Moved(w)
          BY <2>0 DEF StoreMoves
        <5>3. canceled \subseteq canceled'
          BY <1>2, CanceledGrows
        <5> QED
          BY <3>1, <3>2, <4>0, <4>1, <5>1, <5>2, <5>3 DEF Moved
      <4>2. CASE w \in sweepStop
        <5>1. SweepStop(w)
          BY <2>1, <3>2, <4>2 DEF Sweep, SweepStop
        <5>2. RequestStop(w) /\ UNCHANGED provider
          BY <5>1 DEF SweepStop, watchVars
        <5>3. Emitting(w)' => Emitting(w)
          BY <5>2 DEF Emitting
        <5>4. Emitting(w)' => w \in canceled'
          BY <5>2, <5>3 DEF HandleInv, RequestStop
        <5>5. CASE IsActive(w)
          <6>1. store' = WithStatus(store, w, "stopping") /\ "stopping" \in Statuses
            BY <5>2, <5>5 DEF RequestStop, Statuses, Active
          <6>2. store'.watches[w].status = "stopping"
            BY <5>5, <6>1, WithStatusIs DEF DataInv, IsActive, Kept
          <6> QED
            BY <5>4, <6>2
        <5>6. CASE ~IsActive(w)
          <6>1. store' = store
            BY <5>2, <5>6 DEF RequestStop
          <6> QED
            BY <5>4, <5>6, <6>1 DEF IsActive, Kept, Active
        <5> QED
          BY <5>5, <5>6
      <4> QED
        BY <4>1, <4>2
    <3>3. ASSUME NEW v \in Waits, v \notin Persistent, Owner[v] = c
          PROVE  waits'[v] = NoRecord
      <4>1. waits[v] = NoRecord /\ ConnClosed(v)
        BY <3>1, <3>3 DEF ConnClosed
      <4>2. WaitAdmit(v) => waits' = waits
        BY <4>1 DEF WaitAdmit
      <4> QED
        BY <1>2, <4>1, <4>2, WaitsStep
    <3> QED
      BY <3>2, <3>3
  <2>3. CASE c \notin swept
    <3>1. Sweep(c)
      BY <2>1, <2>3 DEF Sweep, SweepStop, connVars
    <3> DEFINE mine == {x \in Calls \ Persistent : Owner[x] = c}
               left == mine \cap {v \in Waits : waits[v] # NoRecord}
    <3>2. /\ sweepStop' = sweepStop \cup (mine \cap KeptWatches)
          /\ waits' = [v \in Waits |-> IF v \in left THEN NoRecord ELSE waits[v]]
          /\ UNCHANGED <<store, provider>>
      BY <3>1 DEF Sweep
    <3>3. ASSUME NEW w \in Watches, w \notin Persistent, w \notin sweepStop', Owner[w] = c
          PROVE  ~Emitting(w)' /\ store'.watches[w] = NoRecord
      <4>1. w \in mine
        BY <3>3 DEF Calls
      <4>2. ~Kept(w)
        BY <3>2, <3>3, <4>1 DEF KeptWatches
      <4>3. ~Emitting(w)
        BY <4>2 DEF HandleInv
      <4> QED
        BY <3>2, <4>2, <4>3 DEF Emitting, Kept
    <3>4. ASSUME NEW v \in Waits, v \notin Persistent, Owner[v] = c
          PROVE  waits'[v] = NoRecord
      <4>1. v \in mine
        BY <3>4 DEF Calls
      <4> QED
        BY <3>2, <4>1
    <3> QED
      BY <3>3, <3>4
  <2> QED
    BY <2>2, <2>3
<1> QED
  BY <1>1, <1>2

----------------------------------------------------------------------------
(* What has ended.                                                         *)

LEMMA LivesStep ==
    ASSUME lives \in Nat, [Next]_vars
    PROVE  lives' \in Nat /\ (HostRestart => lives' # lives)
<1>1. CASE HostRestart
  BY <1>1 DEF HostRestart
<1>2. CASE ~HostRestart
  <2>1. UNCHANGED lives
    BY <1>2
       DEF Next, Creating, Providing, Waiting, Leaving, Disconnecting, Saving, Ending, vars,
           watchVars, waitVars, connVars, saveVars, hostVars, history, CreateCheck, CreateAdmit,
           CreateReady, CreateFails, CreateContinues, ProviderReady, ProviderSignals,
           ProviderReturns, ProviderFails, ProviderFinishes, ProviderEnds, ProviderEmits,
           WaitCheck, WaitAdmit, Deadline, WaitLook, WaitClock, WaitFinish, CancelWait, Drop,
           StopWatch, RemoveWatch, CloseConnection, Sweep, SweepStop, SweepCheck, WorkerWakes,
           SaveBegins, RecordFailure, MarkFailed, SaveEnds, ShutdownBegin, ShutdownFlush,
           ShutdownStop
  <2> QED
    BY <1>2, <2>1
<1> QED
  BY <1>1, <1>2

\* The outcome of a wait is written once.
LEMMA OutcomeStep ==
    ASSUME DataInv, FreshInv, [Next]_vars, ~HostRestart, NEW v \in Waits,
           waits[v] # NoRecord, waits[v].outcome # "running", waits'[v] # NoRecord
    PROVE  waits'[v] = waits[v]
<1>0. waits \in [Waits -> WaitRecord \cup {NoRecord}]
  BY DEF DataInv
<1>1. CASE UNCHANGED waits
  BY <1>1
<1>2. ASSUME NEW x \in Waits, WaitAdmit(x) PROVE waits'[v] = waits[v]
  <2>1. x # v
    BY <1>2 DEF WaitAdmit, FreshInv, Calls
  <2> QED
    BY <1>0, <1>2, <2>1 DEF WaitAdmit
<1>3. ASSUME NEW x \in Waits, NEW outcome, NEW cursor, Finish(x, outcome, cursor)
      PROVE  waits'[v] = waits[v]
  <2>1. CASE x = v
    BY <1>3, <2>1 DEF Finish
  <2>2. CASE x # v
    <3>1. waits' = waits \/ \E r : waits' = [waits EXCEPT ![x] = r]
      <4>1. waits' = waits \/
              waits' = [waits EXCEPT ![x] = [@ EXCEPT !.outcome = outcome, !.cursor = cursor]]
        BY <1>3 DEF Finish
      <4> QED
        BY <4>1
    <3> QED
      BY <1>0, <2>2, <3>1
  <2> QED
    BY <2>1, <2>2
<1>4. ASSUME NEW x \in Waits, WaitFinish(x) PROVE waits'[v] = waits[v]
  <2>1. Finish(x, verdict[x], seen[x])
    BY <1>4 DEF WaitFinish
  <2> QED
    BY <1>3, <2>1
<1>5. ASSUME NEW x \in Waits, NEW forget \in BOOLEAN, CancelWait(x, forget)
      PROVE  waits'[v] = waits[v]
  <2>1. CASE forget
    <3>1. waits' = [waits EXCEPT ![x] = NoRecord]
      BY <1>5, <2>1 DEF CancelWait
    <3> QED
      BY <1>0, <3>1
  <2>2. CASE ~forget
    <3>1. Finish(x, "canceled", waits[x].cursor)
      BY <1>5, <2>2 DEF CancelWait
    <3> QED
      BY <1>3, <3>1
  <2> QED
    BY <2>1, <2>2
<1>6. ASSUME NEW c \in Conns, Sweep(c) PROVE waits'[v] = waits[v]
  <2>1. \E gone : waits' = [x \in Waits |-> IF x \in gone THEN NoRecord ELSE waits[x]]
    BY <1>6 DEF Sweep
  <2> QED
    BY <2>1
<1>7. ASSUME NEW s \in Savers, MarkFailed(s) PROVE waits'[v] = waits[v]
  BY <1>7 DEF MarkFailed
<1> QED
  BY <1>1, <1>2, <1>4, <1>5, <1>6, <1>7, WaitsFrame

----------------------------------------------------------------------------
(* Theorems.                                                               *)

IInv ==
    /\ DataInv /\ ThreadInv /\ FreshInv /\ HandleInv /\ HistoryInv /\ SeenInv
    /\ WaitInv /\ SweptInv /\ SweptIsStopped /\ lives \in Nat

LEMMA IInvInit ==
    ASSUME Init
    PROVE  IInv
<1>0. /\ NewStore = [watches |-> [w \in Watches |-> NoRecord], events |-> {}, next |-> 1]
      /\ NoWaits = [v \in Waits |-> NoRecord]
  BY DEF NewStore, NoWaits
<1>1. /\ StoreOK(NewStore) /\ NoWaits \in [Waits -> WaitRecord \cup {NoRecord}]
      /\ NewStore.events = {} /\ NewStore.next = 1
      /\ \A w \in Watches : NewStore.watches[w] = NoRecord
      /\ \A v \in Waits : NoWaits[v] = NoRecord
  BY <1>0 DEF StoreOK
<1>2. /\ store = NewStore /\ waits = NoWaits /\ log = {}
      /\ disk = [store |-> NewStore, waits |-> NoWaits] /\ writing = NoSave
      /\ provider = [w \in Watches |-> "none"] /\ task = [v \in Waits |-> "none"]
      /\ seen = [v \in Waits |-> Stale] /\ verdict = [v \in Waits |-> "running"]
      /\ due = [v \in Waits |-> NotDue] /\ call = [x \in Calls |-> "new"]
      /\ handles = {} /\ finished = {} /\ swept = {} /\ closed = {} /\ lives = 1
  BY DEF Init
<1>3. Files = {disk} /\ disk.store = NewStore /\ disk.waits = NoWaits
  BY <1>2 DEF Files
<1>4. DataInv
  BY <1>1, <1>2, <1>3 DEF DataInv, FileOK
<1>5. ThreadInv
  BY <1>2 DEF ThreadInv, Outcomes
<1>6. FreshInv
  BY <1>1, <1>2, <1>3 DEF FreshInv, Kept
<1>7. HandleInv
  BY <1>2 DEF HandleInv, Emitting
<1>8. HistoryInv
  BY <1>1, <1>2 DEF HistoryInv
<1>9. SeenInv
  BY <1>1, <1>2 DEF SeenInv, Stale
<1>10. WaitInv
  BY <1>2 DEF WaitInv
<1>11. SweptInv /\ SweptIsStopped /\ lives \in Nat
  BY <1>2 DEF SweptInv, SweptIsStopped
<1> QED
  BY <1>4, <1>5, <1>6, <1>7, <1>8, <1>9, <1>10, <1>11 DEF IInv

LEMMA IInvStep ==
    ASSUME IInv, [Next]_vars
    PROVE  IInv'
<1>1. DataInv' /\ ThreadInv' /\ FreshInv'
  BY DataStep, ThreadStep, FreshStep DEF IInv
<1>2. HandleInv' /\ HistoryInv'
  BY HandleInvStep, HistoryStep DEF IInv
<1>3. SeenInv' /\ WaitInv'
  BY NumbersStep, WaitStep DEF IInv
<1>4. SweptInv' /\ SweptIsStopped'
  BY SweptStep, StoppedStep DEF IInv
<1>5. lives' \in Nat
  BY LivesStep DEF IInv
<1> QED
  BY <1>1, <1>2, <1>3, <1>4, <1>5 DEF IInv

LEMMA Invariance == Spec => []IInv
<1>1. Init => IInv
  BY IInvInit
<1>2. IInv /\ [Next]_vars => IInv'
  BY IInvStep
<1> QED
  BY <1>1, <1>2, PTL DEF Spec

\* What a wait reports is true of everything that was recorded since the host started, even of
\* events the history has dropped: satisfied means that a matching event came after the cursor,
\* timed out that none did that no client forgot (the loop of start_wait_scoped against
\* Store::append, Store::discard and the checkpoints' failures), for any number of watches,
\* waits and events and any bounds of the history.
THEOREM WaitVerdictsAreTrue == Spec => []WaitVerdictIsTrue
<1>1. IInv => WaitVerdictIsTrue
  <2> SUFFICES ASSUME IInv, NEW v \in Waits, waits[v] # NoRecord, task[v] = "ended"
               PROVE  LET r == waits[v] IN
                      /\ r.outcome = "satisfied" =>
                             \E e \in log : e.id = r.cursor /\ e.id > r.after /\ Matches(v, e)
                      /\ r.outcome = "timed_out" =>
                             \A e \in log : (Matches(v, e) /\ r.after < e.id /\ e.id <= r.cursor)
                                              => e.watch \in forgotten
    BY DEF WaitVerdictIsTrue
  <2>1. Knows(v)
    BY DEF IInv, WaitInv
  <2>2. waits[v].outcome = "satisfied" => Hit(v, waits[v].after, waits[v].cursor)
    BY <2>1 DEF Knows
  <2>3. waits[v].outcome = "timed_out" => NothingMissed(v, waits[v].after, waits[v].cursor)
    BY <2>1 DEF Knows
  <2>4. waits[v].after \in Int /\ log \subseteq Event
    BY DEF IInv, DataInv, WaitRecord, Stale
  <2>5. waits[v].outcome = "satisfied" =>
            \E e \in log : e.id = waits[v].cursor /\ e.id > waits[v].after /\ Matches(v, e)
    BY <2>2, <2>4 DEF Hit, Event
  <2> QED
    BY <2>3, <2>5 DEF NothingMissed
<1> QED
  BY <1>1, Invariance, PTL

\* A connection whose shutdown is through has no provider at work that was not told to stop, no
\* record that says it records, and no wait, and no call of it that is still under way brings
\* one back (shutdown_connection against create_scoped, start_wait_scoped and Sink::ready).
THEOREM SweepsStop == Spec => []SweptIsStopped
<1>1. IInv => SweptIsStopped
  BY DEF IInv
<1> QED
  BY <1>1, Invariance, PTL

\* What has ended stays as it ended while the host lives: a watch does not record again, a
\* failure is not replaced, and the outcome of a wait is written once, whoever comes first of
\* its task, a client, a closed connection and a failed checkpoint.
THEOREM TerminalStaysAlways == Spec => TerminalStays
<1> DEFINE Ends == lives' = lives =>
               /\ \A w \in Watches :
                     (Kept(w) /\ ~IsActive(w) /\ store'.watches[w] # NoRecord) =>
                         \/ store'.watches[w].status = store.watches[w].status
                         \/ store'.watches[w].status = "failed"
               /\ \A v \in Waits :
                     (waits[v] # NoRecord /\ waits[v].outcome # "running"
                        /\ waits'[v] # NoRecord) =>
                         waits'[v].outcome = waits[v].outcome
<1>1. IInv /\ [Next]_vars => Ends
  <2> SUFFICES ASSUME IInv, [Next]_vars, lives' = lives PROVE Ends
    OBVIOUS
  <2>1. ~HostRestart
    BY LivesStep DEF IInv
  <2>2. PICK gone \in SUBSET Watches : StoreMoves(gone)
    BY <2>1, StoreStep DEF IInv, DataInv
  <2>3. \A w \in Watches : Moved(w)
    BY <2>2 DEF StoreMoves
  <2>4. \A v \in Waits :
            (waits[v] # NoRecord /\ waits[v].outcome # "running" /\ waits'[v] # NoRecord) =>
                waits'[v].outcome = waits[v].outcome
    BY <2>1, OutcomeStep DEF IInv
  <2> QED
    BY <2>3, <2>4 DEF Moved, Kept, IsActive, Active
<1>2. IInv /\ [Next]_vars => [Ends]_vars
  BY <1>1
<1>3. TerminalStays <=> [][Ends]_vars
  BY DEF TerminalStays
<1> QED
  BY <1>2, <1>3, Invariance, PTL DEF Spec

----------------------------------------------------------------------------
(* What a client was told is saved.                                        *)

There(x) == IF x \in Watches THEN Kept(x) ELSE waits[x] # NoRecord
InFile(file, x) == IF x \in Watches THEN file.store.watches[x] # NoRecord
                                    ELSE file.waits[x] # NoRecord

\* What was reported is in the store, the file, and the snapshot that will replace it. A
\* call that still waits for its flush is in the store, and in the snapshot if it is its own.
SavedInv ==
    /\ \A x \in reported \ forgotten :
          There(x) /\ \A file \in Files : InFile(file, x)
    /\ \A x \in Calls : call[x] = "saving" =>
          /\ x \in Persistent
          /\ x \notin forgotten =>
                There(x) /\ (writing # NoSave /\ writing.by = x => InFile(writing.snap, x))
    /\ \A x \in Calls :
          x \in queue \/ (writing # NoSave /\ writing.by = x)
            => call[x] \in {"saving", "returned", "dropped", "gone"}
    /\ reported \subseteq Persistent

\* Only a client that forgets it takes a persistent record away.
LEMMA ThereStep ==
    ASSUME DataInv, ThreadInv, FreshInv, [Next]_vars, ~HostRestart, NEW x \in Persistent,
           x \in Calls, There(x)
    PROVE  There(x)' \/ x \in forgotten'
<1>1. CASE x \in Watches
  <2>1. PICK gone \in SUBSET Watches : StoreMoves(gone)
    BY StoreStep DEF DataInv
  <2>2. CASE x \in gone
    BY <2>1, <2>2 DEF StoreMoves
  <2>3. CASE x \notin gone
    <3>1. store'.watches[x] # NoRecord
      BY <1>1, <2>1, <2>3 DEF StoreMoves, Later, There, Kept
    <3> QED
      BY <1>1, <3>1 DEF There, Kept
  <2> QED
    BY <2>2, <2>3
<1>2. CASE x \notin Watches
  <2>0. x \in Waits /\ waits[x] # NoRecord /\ waits \in [Waits -> WaitRecord \cup {NoRecord}]
    BY <1>2 DEF Calls, There, DataInv
  <2> DEFINE Goal == waits'[x] # NoRecord \/ x \in forgotten'
  <2>1. ASSUME UNCHANGED waits PROVE Goal
    BY <2>0, <2>1
  <2>2. ASSUME NEW y \in Waits, WaitAdmit(y) PROVE Goal
    <3> DEFINE rec == [outcome |-> "running", after |-> seen[y], cursor |-> seen[y]]
    <3>1. waits' = waits \/ waits' = [waits EXCEPT ![y] = rec]
      BY <2>2 DEF WaitAdmit
    <3>2. rec \in WaitRecord
      BY DEF WaitRecord, Outcomes, ThreadInv
    <3> HIDE DEF rec
    <3> QED
      BY <2>0, <3>1, <3>2, NoRecordAssumption
  <2>3. ASSUME NEW y \in Waits, NEW outcome \in Outcomes, NEW cursor \in Nat \cup {Stale},
               Finish(y, outcome, cursor)
        PROVE  Goal
    <3> DEFINE rec == [waits[y] EXCEPT !.outcome = outcome, !.cursor = cursor]
    <3>1. waits' = waits \/ (waits[y] # NoRecord /\ waits' = [waits EXCEPT ![y] = rec])
      <4>1. waits' = waits \/
              (waits[y] # NoRecord /\
                waits' = [waits EXCEPT ![y] = [@ EXCEPT !.outcome = outcome, !.cursor = cursor]])
        BY <2>3 DEF Finish
      <4> QED
        BY <4>1
    <3>2. waits[y] # NoRecord => rec \in WaitRecord
      BY <2>0 DEF WaitRecord
    <3> HIDE DEF rec
    <3> QED
      BY <2>0, <3>1, <3>2, NoRecordAssumption
  <2>4. ASSUME NEW y \in Waits, WaitFinish(y) PROVE Goal
    <3>1. Finish(y, verdict[y], seen[y]) /\ verdict[y] \in Outcomes /\ seen[y] \in Nat \cup {Stale}
      BY <2>4 DEF WaitFinish, ThreadInv
    <3> HIDE DEF Goal
    <3> QED
      BY <2>3, <3>1
  <2>5. ASSUME NEW y \in Waits, NEW forget \in BOOLEAN, CancelWait(y, forget) PROVE Goal
    <3>1. CASE forget
      <4>1. waits' = [waits EXCEPT ![y] = NoRecord] /\ forgotten' = forgotten \cup {y}
        BY <2>5, <3>1 DEF CancelWait
      <4> QED
        BY <2>0, <4>1
    <3>2. CASE ~forget
      <4>1. Finish(y, "canceled", waits[y].cursor) /\ waits[y] # NoRecord
        BY <2>5, <3>2 DEF CancelWait
      <4>2. waits[y].cursor \in Nat \cup {Stale} /\ "canceled" \in Outcomes
        BY <2>0, <4>1 DEF WaitRecord, Outcomes
      <4> HIDE DEF Goal
      <4> QED
        BY <2>3, <4>1, <4>2
    <3> QED
      BY <3>1, <3>2
  <2>6. ASSUME NEW c \in Conns, Sweep(c) PROVE Goal
    BY <2>0, <2>6 DEF Sweep
  <2>7. ASSUME NEW s \in Savers, MarkFailed(s) PROVE Goal
    <3> DEFINE rec == [waits[x] EXCEPT !.outcome = "failed"]
    <3>1. waits'[x] = waits[x] \/ waits'[x] = rec
      BY <2>0, <2>7 DEF MarkFailed
    <3>2. rec \in WaitRecord
      BY <2>0 DEF WaitRecord, Outcomes
    <3> HIDE DEF rec
    <3> QED
      BY <2>0, <3>1, <3>2, NoRecordAssumption
  <2> HIDE DEF Goal
  <2>8. Goal
    BY <2>1, <2>2, <2>4, <2>5, <2>6, <2>7, WaitsFrame
  <2> QED
    BY <1>2, <2>8 DEF Goal, There
<1> QED
  BY <1>1, <1>2

\* The steps that ask for a flush, and those that report one.
LEMMA QueueFrame ==
    ASSUME [Next]_vars
    PROVE  \/ queue' \subseteq queue
           \/ \E w \in Watches : CreateReady(w) \/ CreateContinues(w)
           \/ \E v \in Waits : WaitAdmit(v)
           \/ queue' = queue \cup {Worker}
           \/ queue' = queue \cup {Shutdown}
BY DEF Next, Creating, Providing, Waiting, Leaving, Disconnecting, Saving, Ending, vars,
       watchVars, waitVars, connVars, saveVars, hostVars, history, CreateCheck, CreateAdmit,
       CreateFails, ProviderReady, ProviderSignals, ProviderReturns, ProviderFails,
       ProviderFinishes, ProviderEnds, ProviderEmits, WaitCheck, Deadline, WaitLook, WaitClock,
       WaitFinish, CancelWait, Drop, StopWatch, RemoveWatch, CloseConnection, Sweep, SweepStop,
       SweepCheck, WorkerWakes, SaveBegins, RecordFailure, MarkFailed, SaveEnds, ShutdownBegin,
       ShutdownFlush, ShutdownStop, HostRestart

LEMMA ReportFrame ==
    ASSUME [Next]_vars
    PROVE  UNCHANGED reported \/ \E ok \in BOOLEAN : SaveEnds(ok)
BY DEF Next, Creating, Providing, Waiting, Leaving, Disconnecting, Saving, Ending, vars,
       watchVars, waitVars, connVars, saveVars, hostVars, history, CreateCheck, CreateAdmit,
       CreateReady, CreateFails, CreateContinues, ProviderReady, ProviderSignals,
       ProviderReturns, ProviderFails, ProviderFinishes, ProviderEnds, ProviderEmits, WaitCheck,
       WaitAdmit, Deadline, WaitLook, WaitClock, WaitFinish, CancelWait, Drop, StopWatch,
       RemoveWatch, CloseConnection, Sweep, SweepStop, SweepCheck, WorkerWakes, SaveBegins,
       RecordFailure, MarkFailed, ShutdownBegin, ShutdownFlush, ShutdownStop, HostRestart

\* A call that asked for its flush does not go back.
LEMMA LateStep ==
    ASSUME DataInv, ThreadInv, [Next]_vars, NEW x \in Calls
    PROVE  /\ call[x] \in {"saving", "returned", "dropped", "gone"} =>
                call'[x] \in {"saving", "returned", "dropped", "gone"}
           /\ call'[x] = "saving" =>
                \/ call[x] = "saving"
                \/ /\ call[x] \notin {"saving", "returned", "dropped", "gone"}
                   /\ x \in Persistent /\ There(x)' /\ UNCHANGED writing
<1> DEFINE Late == {"saving", "returned", "dropped", "gone"}
           Step == /\ call[x] \in Late => call'[x] \in Late
                   /\ call'[x] = "saving" =>
                        \/ call[x] = "saving"
                        \/ /\ call[x] \notin Late
                           /\ x \in Persistent /\ There(x)' /\ UNCHANGED writing
<1>0. /\ call \in [Calls -> {"new", "checked", "refused", "setup", "unspawned", "failed",
                             "saving", "returned", "dropped", "gone"}]
      /\ Watches \subseteq Calls /\ Waits \subseteq Calls
  BY DEF ThreadInv, Calls
<1>1. ASSUME UNCHANGED call PROVE Step
  BY <1>0, <1>1
<1>2. ASSUME NEW w \in Watches, CreateCheck(w) \/ CreateAdmit(w) \/ CreateFails(w) PROVE Step
  BY <1>0, <1>2 DEF CreateCheck, Calling, CreateAdmit, CreateFails
<1>3. ASSUME NEW w \in Watches, CreateReady(w) \/ CreateContinues(w) PROVE Step
  <2>1. /\ call[w] \in {"setup", "failed", "unspawned"} /\ UNCHANGED <<store, writing>>
        /\ \/ w \in Persistent /\ Kept(w) /\ call' = [call EXCEPT ![w] = "saving"]
           \/ call' = [call EXCEPT ![w] = "returned"]
    BY <1>3 DEF CreateReady, CreateContinues, Continue
  <2>2. CASE w = x
    BY <1>0, <2>1, <2>2 DEF There, Kept
  <2>3. CASE w # x
    BY <1>0, <2>1, <2>3
  <2> QED
    BY <2>2, <2>3
<1>4. ASSUME NEW v \in Waits, WaitCheck(v) PROVE Step
  BY <1>0, <1>4 DEF WaitCheck, Calling
<1>5. ASSUME NEW v \in Waits, WaitAdmit(v) PROVE Step
  <2>1. call[v] = "checked" /\ UNCHANGED writing
    BY <1>5 DEF WaitAdmit
  <2>2. CASE v = x
    <3>1. call'[v] = "saving" => v \in Persistent /\ waits' = [waits EXCEPT ![v] =
               [outcome |-> "running", after |-> seen[v], cursor |-> seen[v]]]
      BY <1>0, <1>5 DEF WaitAdmit
    <3>2. call'[v] = "saving" => There(v)'
      <4> SUFFICES ASSUME call'[v] = "saving" PROVE There(v)'
        OBVIOUS
      <4> DEFINE rec == [outcome |-> "running", after |-> seen[v], cursor |-> seen[v]]
      <4>1. rec # NoRecord
        <5>1. rec \in WaitRecord
          BY DEF WaitRecord, Outcomes, ThreadInv
        <5> QED
          BY <5>1, NoRecordAssumption
      <4>2. waits' = [waits EXCEPT ![v] = rec]
        BY <3>1
      <4> HIDE DEF rec
      <4>3. waits'[v] = rec
        BY <4>2 DEF DataInv
      <4> QED
        BY <4>1, <4>3, ObservationAssumption DEF There
    <3> QED
      BY <1>0, <2>1, <2>2, <3>1, <3>2
  <2>3. CASE v # x
    BY <1>0, <1>5, <2>3 DEF WaitAdmit
  <2> QED
    BY <2>2, <2>3
<1>6. ASSUME NEW y \in Calls, Drop(y) PROVE Step
  BY <1>0, <1>6 DEF Drop
<1>7. ASSUME NEW ok \in BOOLEAN, SaveEnds(ok) PROVE Step
  BY <1>0, <1>7 DEF SaveEnds
<1>8. ASSUME NEW s \in Savers, MarkFailed(s) PROVE Step
  BY <1>0, <1>8 DEF MarkFailed
<1>9. ASSUME HostRestart PROVE Step
  BY <1>0, <1>9 DEF HostRestart
<1> HIDE DEF Step
<1>10. Step
  BY <1>1, <1>2, <1>3, <1>4, <1>5, <1>6, <1>7, <1>8, <1>9, CallFrame
<1> QED
  BY <1>10 DEF Step

LEMMA SavedStep ==
    ASSUME DataInv, ThreadInv, FreshInv, SavedInv, [Next]_vars
    PROVE  SavedInv'
<1>0. forgotten \subseteq forgotten'
  <2>1. CASE HostRestart
    BY <2>1 DEF HostRestart
  <2>2. CASE ~HostRestart
    BY <2>2, StoreStep DEF DataInv, StoreMoves
  <2> QED
    BY <2>1, <2>2
<1>1. ASSUME NEW x \in Persistent, x \in Calls, There(x)
      PROVE  InFile(Snapshot, x)
  BY <1>1, SnapshotIs DEF There, InFile, Kept, Calls
<1>2. ASSUME NEW x \in reported' \ forgotten'
      PROVE  x \in Persistent /\ There(x)' /\ \A file \in Files' : InFile(file, x)
  <2>1. x \in Persistent \ forgotten /\ x \in Calls /\ There(x)
        /\ \/ \A file \in Files : InFile(file, x)
           \/ ~HostRestart /\ \A file \in Files' : InFile(file, x)
    <3>1. CASE x \in reported
      BY <1>0, <1>2, <3>1, ObservationAssumption DEF SavedInv
    <3>2. CASE x \notin reported
      <4>1. PICK ok \in BOOLEAN : SaveEnds(ok)
        BY <1>2, <3>2, ReportFrame
      <4>2. /\ writing # NoSave /\ x = writing.by /\ x \in Calls /\ call[x] = "saving"
            /\ disk' = writing.snap /\ writing' = NoSave
        BY <1>2, <3>2, <4>1 DEF SaveEnds
      <4>3. x \in Persistent /\ There(x) /\ InFile(writing.snap, x)
        BY <1>0, <1>2, <4>2 DEF SavedInv
      <4>4. Files' = {writing.snap}
        BY <4>2 DEF Files
      <4>5. ~HostRestart
        BY <4>2, <1>2, <3>2 DEF HostRestart
      <4> QED
        BY <1>0, <1>2, <4>2, <4>3, <4>4, <4>5
    <3> QED
      BY <3>1, <3>2
  <2>2. CASE HostRestart
    <3>1. InFile(disk, x) /\ FileOK(disk)
      BY <2>1, <2>2 DEF Files, DataInv
    <3>2. There(x)' /\ InFile([store |-> store', waits |-> waits'], x)
      BY <2>1, <2>2, <3>1, RestartIs DEF InFile, There, Kept, Calls
    <3>3. Files' = {[store |-> store', waits |-> waits']}
      BY <2>2 DEF HostRestart, Files
    <3> QED
      BY <2>1, <3>2, <3>3
  <2>3. CASE ~HostRestart
    <3>1. There(x)'
      BY <1>2, <2>1, <2>3, ThereStep
    <3>2. ASSUME NEW file \in Files' PROVE InFile(file, x)
      <4>1. InFile(Snapshot, x)
        BY <1>1, <2>1
      <4> QED
        BY <2>1, <2>3, <4>1, FilesStep
    <3> QED
      BY <2>1, <3>1, <3>2
  <2> QED
    BY <2>2, <2>3
<1>3. ASSUME NEW x \in Calls, call'[x] = "saving"
      PROVE  /\ x \in Persistent
             /\ x \notin forgotten' =>
                  There(x)' /\ (writing' # NoSave /\ writing'.by = x => InFile(writing'.snap, x))
  <2>0. ~HostRestart
    BY <1>3 DEF HostRestart
  <2>1. CASE call[x] = "saving"
    <3>1. /\ x \in Persistent
          /\ x \notin forgotten' =>
               There(x) /\ (writing # NoSave /\ writing.by = x => InFile(writing.snap, x))
      BY <1>0, <2>1 DEF SavedInv
    <3> SUFFICES ASSUME x \notin forgotten'
                 PROVE  /\ There(x)'
                        /\ writing' # NoSave /\ writing'.by = x => InFile(writing'.snap, x)
      BY <3>1
    <3>2. There(x)'
      BY <2>0, <3>1, ThereStep
    <3>3. ASSUME writing' # NoSave, writing'.by = x PROVE InFile(writing'.snap, x)
      <4>1. CASE UNCHANGED writing
        BY <3>1, <3>3, <4>1
      <4>2. ASSUME NEW s \in Savers, SaveBegins(s) PROVE InFile(writing'.snap, x)
        <5>1. writing'.snap = Snapshot
          BY <4>2 DEF SaveBegins
        <5> QED
          BY <1>1, <3>1, <5>1
      <4>3. ASSUME NEW ok \in BOOLEAN, SaveEnds(ok) PROVE FALSE
        BY <3>3, <4>3 DEF SaveEnds
      <4> QED
        BY <2>0, <4>1, <4>2, <4>3, FileFrame
    <3> QED
      BY <3>2, <3>3
  <2>2. CASE call[x] # "saving"
    <3>1. /\ call[x] \notin {"saving", "returned", "dropped", "gone"}
          /\ x \in Persistent /\ There(x)' /\ UNCHANGED writing
      BY <1>3, <2>2, LateStep
    <3>2. ~(writing # NoSave /\ writing.by = x)
      BY <3>1 DEF SavedInv
    <3> QED
      BY <3>1, <3>2
  <2> QED
    BY <2>1, <2>2
<1>4. ASSUME NEW x \in Calls, x \in queue' \/ (writing' # NoSave /\ writing'.by = x)
      PROVE  call'[x] \in {"saving", "returned", "dropped", "gone"}
  <2>1. CASE x \in queue \/ (writing # NoSave /\ writing.by = x)
    <3>1. call[x] \in {"saving", "returned", "dropped", "gone"}
      BY <2>1 DEF SavedInv
    <3> QED
      BY <3>1, LateStep
  <2>2. CASE x \notin queue /\ ~(writing # NoSave /\ writing.by = x)
    <3>1. x \in queue'
      <4>1. CASE UNCHANGED writing
        BY <1>4, <2>2, <4>1
      <4>2. ASSUME NEW s \in Savers, SaveBegins(s), x \notin queue' PROVE FALSE
        <5>1. writing' = [by |-> s, snap |-> Snapshot] /\ s \in queue
          BY <4>2 DEF SaveBegins
        <5>2. writing'.by = s
          BY <5>1
        <5> QED
          BY <1>4, <2>2, <4>2, <5>1, <5>2
      <4>3. CASE writing' = NoSave
        BY <1>4, <4>3
      <4> QED
        BY <4>1, <4>2, <4>3, FileFrame DEF SaveEnds, HostRestart
    <3>2. call \in [Calls -> {"new", "checked", "refused", "setup", "unspawned", "failed",
                              "saving", "returned", "dropped", "gone"}]
      BY DEF ThreadInv
    <3>3. x # Worker /\ x # Shutdown
      BY ObservationAssumption DEF Worker, Shutdown
    <3>4. ASSUME NEW w \in Watches, CreateReady(w) \/ CreateContinues(w)
          PROVE  call'[x] = "saving"
      <4>1. Continue(w)
        BY <2>2, <3>1, <3>4 DEF CreateReady, CreateContinues
      <4> QED
        BY <2>2, <3>1, <3>2, <4>1 DEF Continue
    <3>5. ASSUME NEW v \in Waits, WaitAdmit(v) PROVE call'[x] = "saving"
      BY <2>2, <3>1, <3>2, <3>5 DEF WaitAdmit
    <3> QED
      BY <2>2, <3>1, <3>3, <3>4, <3>5, QueueFrame
  <2> QED
    BY <2>1, <2>2
<1> QED
  <2>1. reported' \subseteq Persistent
    <3>1. \/ UNCHANGED reported
          \/ \E x \in Calls : call[x] = "saving" /\ reported' \subseteq reported \cup {x}
      BY ReportFrame DEF SaveEnds
    <3> QED
      BY <3>1 DEF SavedInv
  <2> QED
    BY <1>2, <1>3, <1>4, <2>1 DEF SavedInv

\* A watch or wait whose client was told that its checkpoint is written is in the file from
\* then on: neither a later flush, nor one that fails, nor the loss of the host at any moment,
\* nor any number of restarts takes it out before a client forgets it (persist_now, snapshot,
\* restore).
THEOREM ReportedStaysSaved == Spec => []ReportedIsKept
<1>1. Init => SavedInv
  BY DEF Init, SavedInv
<1>2. IInv /\ SavedInv /\ [Next]_vars => SavedInv'
  BY SavedStep DEF IInv
<1>3. SavedInv => ReportedIsKept
  BY DEF SavedInv, ReportedIsKept, InFile, Files
<1> QED
  BY <1>1, <1>2, <1>3, Invariance, PTL DEF Spec

----------------------------------------------------------------------------
(* The glow.  What is on the screen is settled by three things: who holds the lock, how  *)
(* far that capture is, and what the thread last drew.                                   *)

CaptureSteps ==
    {"idle", "locked", "sent", "hidden", "capturing", "dropping", "posting", "unlocking"}
Messages == {"pulse", "refit", "changed"}
Phases == {"attack", "hold", "release", "idle"}

GlowTypes ==
    /\ target \in BOOLEAN /\ suppressed \in BOOLEAN /\ shown \in BOOLEAN
    /\ glow \in [visible : BOOLEAN, bitmap : BOOLEAN, dark : BOOLEAN]
    /\ phase \in Phases
    /\ loop \in {"starting", "waiting", "draining", "drawing", "ended"}
    /\ posted \in Seq(Messages)
    /\ capture \in [Captures -> [pc : CaptureSteps, target : BOOLEAN]]
    /\ counted \in [pulses : Nat, refits : Nat, captures : Nat, lost : Nat]

\* One capture at a time is on its way, and it has the lock; the flag is set only while a
\* capture that has a window to hide is between its message and its drop.
LockInv ==
    /\ \A k \in Captures : capture[k].pc # "idle" => lock = {k}
    /\ \A k \in lock : k \in Captures /\ capture[k].pc # "idle"
    /\ suppressed => lock # {}
    /\ \A k \in Captures :
        /\ capture[k].pc \in {"locked", "posting", "unlocking"} => ~suppressed
        /\ capture[k].pc \in {"sent", "hidden"} => suppressed

\* What the screen shows.  The window is hidden from its barrier until the lock is free;
\* a lock without an acknowledged barrier is the only one under which a glow may stay.
ScreenInv ==
    /\ target <=> loop \notin {"starting", "ended"}
    /\ ~target => ~shown
    /\ shown => glow.visible
    /\ loop = "starting" => ~glow.visible
    /\ \A k \in Captures :
        /\ capture[k].pc = "hidden" => ~shown
        /\ capture[k].pc = "capturing" /\ capture[k].target => ~shown
        /\ counted.lost = 0 /\ capture[k].pc \notin {"idle", "locked", "sent"} => ~shown
    /\ counted.lost = 0 /\ loop = "waiting" /\ phase = "idle" /\ shown => lock # {}

\* What the bitmap costs, as long as no capture has been there and the display has not
\* changed.
BitmapInv ==
    /\ glow.visible => ~glow.dark
    /\ counted.captures = 0 =>
        /\ lock = {}
        /\ posted \in Seq({"pulse", "refit"})
        /\ glow.bitmap /\ ~glow.visible => glow.dark
        /\ loop = "waiting" /\ phase = "idle" => ~glow.visible
    /\ counted.refits = 0 =>
        /\ posted \in Seq({"pulse", "changed"})
        /\ glow.visible => glow.bitmap
        /\ glow.dark => glow.bitmap

GlowInv == GlowTypes /\ LockInv /\ ScreenInv /\ BitmapInv

GlowSteps == [Light!Next]_(Light!vars)

LEMMA GlowCases ==
  ASSUME GlowSteps
  PROVE  \/ UNCHANGED Light!vars
         \/ Light!Pulse \/ Light!DisplayChange \/ Light!StartUp \/ Light!Wake
         \/ Light!Handle \/ Light!Drained \/ Light!Draw \/ Light!DrawFails
         \/ \E k \in Captures :
            \/ Light!Barrier(k) \/ Light!Lock(k) \/ Light!Suppress(k)
            \/ Light!NotAcknowledged(k) \/ Light!Flush(k) \/ Light!Captured(k)
            \/ Light!Unsuppress(k) \/ Light!Notify(k) \/ Light!Unlock(k)
  BY DEF GlowSteps, Light!Next, Light!Thread, Light!CaptureStep

LEMMA AppendMessage ==
  ASSUME NEW S, posted \in Seq(S), NEW m \in S
  PROVE  Append(posted, m) \in Seq(S)
BY AppendProperties

LEMMA TailOfPosted ==
  ASSUME NEW S, posted \in Seq(S), posted # <<>>
  PROVE  Head(posted) \in S /\ Tail(posted) \in Seq(S)
BY HeadTailProperties

LEMMA AdvancedIsPhase == \A p \in Light!Advanced : p \in Phases
BY DEF Light!Advanced, Light!Order, Phases

\* What a draw leaves of the glow and of the window: it renders at an alpha above zero, at
\* zero or under the flag, or not at all; a bitmap long in the dark may go with it.
Frees ==
    phase' = "idle" /\ glow.dark /\ ~glow'.bitmap /\ ~glow'.dark

RendersLight ==
    /\ lock = {} /\ ~suppressed /\ phase' # "idle"
    /\ glow'.visible /\ glow'.bitmap /\ ~glow'.dark
    /\ glow.visible => (shown' <=> shown)

RendersDark ==
    /\ lock = {}
    /\ shown' <=> ~glow.visible /\ shown
    /\ ~glow'.visible
    /\ \/ (glow'.bitmap <=> glow.bitmap) /\ (glow'.dark <=> glow.dark \/ glow.visible)
       \/ Frees

RendersNothing ==
    /\ (phase' = "idle" /\ ~glow.visible) \/ lock # {}
    /\ shown' <=> shown
    /\ glow'.visible <=> glow.visible
    /\ \/ (glow'.bitmap <=> glow.bitmap) /\ (glow'.dark <=> glow.dark)
       \/ Frees

\* What render leaves when the alpha is zero or the flag is set, and what a freed bitmap does.
LEMMA RenderedDark ==
  ASSUME GlowTypes, NEW alpha, alpha = 0 \/ suppressed
  PROVE  /\ Light!Rendered(glow, alpha) \in [visible : BOOLEAN, bitmap : BOOLEAN, dark : BOOLEAN]
         /\ ~Light!Rendered(glow, alpha).visible
         /\ Light!Rendered(glow, alpha).bitmap <=> glow.bitmap
         /\ Light!Rendered(glow, alpha).dark <=> glow.dark \/ glow.visible
BY DEF Light!Rendered, GlowTypes

LEMMA FreedGlow ==
  ASSUME NEW g \in [visible : BOOLEAN, bitmap : BOOLEAN, dark : BOOLEAN],
         NEW p, NEW h \in Light!Freed(g, p)
  PROVE  /\ h \in [visible : BOOLEAN, bitmap : BOOLEAN, dark : BOOLEAN]
         /\ h.visible <=> g.visible
         /\ \/ h = g
            \/ p = "idle" /\ glow.dark /\ g.dark /\ ~h.bitmap /\ ~h.dark
BY DEF Light!Freed

LEMMA DrawCases ==
  ASSUME GlowTypes, Light!Draw
  PROVE  /\ phase' \in Phases
         /\ glow' \in [visible : BOOLEAN, bitmap : BOOLEAN, dark : BOOLEAN]
         /\ shown' \in BOOLEAN
         /\ RendersLight \/ RendersDark \/ RendersNothing
<1> DEFINE Goal == /\ glow' \in [visible : BOOLEAN, bitmap : BOOLEAN, dark : BOOLEAN]
                   /\ shown' \in BOOLEAN
                   /\ RendersLight \/ RendersDark \/ RendersNothing
<1>1. phase' \in Phases
  BY AdvancedIsPhase DEF Light!Draw
<1>2. ASSUME (phase' # "idle" \/ glow.visible) /\ lock = {} PROVE Goal
  <2>1. PICK alpha \in Light!Alphas(phase') :
          /\ glow' \in Light!Freed(Light!Rendered(glow, alpha), phase')
          /\ shown' = Light!OnScreen(alpha)
    BY <1>2 DEF Light!Draw, Light!MayRender
  <2>2. alpha \in {0, 1} /\ (alpha = 1 => phase' # "idle")
    BY <1>1 DEF Light!Alphas, Phases
  <2>3. CASE alpha = 0 \/ suppressed
    <3>1. shown' \in BOOLEAN /\ (shown' <=> ~glow.visible /\ shown)
      <4>1. shown \in BOOLEAN /\ ~(alpha = 1 /\ ~suppressed)
        BY <2>3 DEF GlowTypes
      <4>2. CASE glow.visible
        <5>1. ~shown' /\ shown' \in BOOLEAN
          BY <2>1, <4>1, <4>2 DEF Light!OnScreen
        <5> QED BY <4>2, <5>1
      <4>3. CASE ~glow.visible
        BY <2>1, <4>1, <4>3 DEF Light!OnScreen
      <4> QED BY <4>2, <4>3
    <3>2. RendersDark
      BY <1>2, <2>1, <2>3, <3>1, RenderedDark, FreedGlow DEF RendersDark, Frees
    <3> QED BY <2>1, <2>3, <3>1, <3>2, RenderedDark, FreedGlow
  <2>4. CASE alpha = 1 /\ ~suppressed
    <3>1. /\ Light!Rendered(glow, alpha) \in [visible : BOOLEAN, bitmap : BOOLEAN, dark : BOOLEAN]
          /\ Light!Rendered(glow, alpha) = [visible |-> TRUE, bitmap |-> TRUE, dark |-> FALSE]
      BY <2>4 DEF Light!Rendered
    <3>2. shown' \in BOOLEAN /\ (glow.visible => (shown' <=> shown))
      BY <2>1, <2>4 DEF Light!OnScreen, GlowTypes
    <3>3. glow' = Light!Rendered(glow, alpha)
      <4>1. ~Light!Rendered(glow, alpha).dark
        BY <3>1
      <4> QED BY <2>1, <3>1, <4>1, FreedGlow
    <3> QED BY <1>2, <2>2, <2>4, <3>1, <3>2, <3>3 DEF RendersLight
  <2> QED BY <2>2, <2>3, <2>4
<1>3. ASSUME ~((phase' # "idle" \/ glow.visible) /\ lock = {}) PROVE Goal
  <2>1. glow' \in Light!Freed(glow, phase') /\ shown' = shown
    BY <1>3 DEF Light!Draw, Light!MayRender
  <2>2. shown \in BOOLEAN /\ glow \in [visible : BOOLEAN, bitmap : BOOLEAN, dark : BOOLEAN]
    BY DEF GlowTypes
  <2>3. RendersNothing
    BY <1>3, <2>1, <2>2, FreedGlow DEF RendersNothing, Frees
  <2> QED BY <2>1, <2>2, <2>3, FreedGlow
<1> QED BY <1>1, <1>2, <1>3

LEMMA GlowTypesStep ==
  ASSUME GlowTypes, GlowSteps
  PROVE  GlowTypes'
<1> USE DEF GlowTypes
<1>0. CASE UNCHANGED Light!vars
  BY <1>0 DEF Light!vars, CaptureSteps, Messages, Phases
<1>1. CASE Light!Pulse
  <2>1. Append(posted, "pulse") \in Seq(Messages)
    BY AppendMessage DEF GlowTypes, Messages
  <2>2. posted' \in Seq(Messages)
    BY <1>1, <2>1 DEF Light!Pulse, Light!Post
  <2>3. counted' \in [pulses : Nat, refits : Nat, captures : Nat, lost : Nat]
    BY <1>1 DEF Light!Pulse
  <2> QED BY <1>1, <2>2, <2>3 DEF Light!Pulse, Light!windowVars
<1>2. CASE Light!DisplayChange
  <2>1. Append(posted, "refit") \in Seq(Messages)
    BY AppendMessage DEF GlowTypes, Messages
  <2>2. posted' \in Seq(Messages)
    BY <1>2, <2>1 DEF Light!DisplayChange, Light!Post
  <2>3. counted' \in [pulses : Nat, refits : Nat, captures : Nat, lost : Nat]
    BY <1>2 DEF Light!DisplayChange
  <2> QED BY <1>2, <2>2, <2>3 DEF Light!DisplayChange, Light!windowVars
<1>3. CASE Light!StartUp
  BY <1>3 DEF Light!StartUp, Light!windowVars, CaptureSteps, Messages, Phases
<1>4. CASE Light!Wake
  BY <1>4 DEF Light!Wake, Light!windowVars, CaptureSteps, Messages, Phases
<1>5. CASE Light!Handle
  BY <1>5, TailOfPosted DEF Light!Handle, Light!Triggered, Phases
<1>6. CASE Light!Drained
  BY <1>6 DEF Light!Drained, Light!windowVars, CaptureSteps, Messages, Phases
<1>7. CASE Light!Draw
  <2>1. /\ phase' \in Phases
        /\ glow' \in [visible : BOOLEAN, bitmap : BOOLEAN, dark : BOOLEAN]
        /\ shown' \in BOOLEAN
    BY <1>7, DrawCases
  <2> QED BY <1>7, <2>1 DEF Light!Draw
<1>8. CASE Light!DrawFails
  BY <1>8 DEF Light!DrawFails, Light!windowVars, CaptureSteps, Messages, Phases
<1>9. ASSUME NEW k \in Captures, Light!Barrier(k) PROVE GlowTypes'
  BY <1>9 DEF Light!Barrier, Light!windowVars, CaptureSteps, Messages, Phases
<1>10. ASSUME NEW k \in Captures, Light!Lock(k) PROVE GlowTypes'
  BY <1>10 DEF Light!Lock, Light!windowVars, Light!At, CaptureSteps, Messages, Phases
<1>11. ASSUME NEW k \in Captures, Light!Suppress(k) PROVE GlowTypes'
  BY <1>11 DEF Light!Suppress, Light!windowVars, Light!At, Light!To, CaptureSteps,
               Messages, Phases
<1>12. ASSUME NEW k \in Captures, Light!NotAcknowledged(k) PROVE GlowTypes'
  BY <1>12 DEF Light!NotAcknowledged, Light!windowVars, Light!At, Light!To, CaptureSteps,
               Messages, Phases
<1>13. ASSUME NEW k \in Captures, Light!Flush(k) PROVE GlowTypes'
  BY <1>13 DEF Light!Flush, Light!windowVars, Light!At, Light!To, CaptureSteps, Messages,
               Phases
<1>14. ASSUME NEW k \in Captures, Light!Captured(k) PROVE GlowTypes'
  BY <1>14 DEF Light!Captured, Light!windowVars, Light!At, Light!To, CaptureSteps,
               Messages, Phases
<1>15. ASSUME NEW k \in Captures, Light!Unsuppress(k) PROVE GlowTypes'
  BY <1>15 DEF Light!Unsuppress, Light!windowVars, Light!At, Light!To, CaptureSteps,
               Messages, Phases
<1>16. ASSUME NEW k \in Captures, Light!Notify(k) PROVE GlowTypes'
  <2>1. Append(posted, "changed") \in Seq(Messages)
    BY AppendMessage DEF GlowTypes, Messages
  <2> QED BY <1>16, <2>1 DEF Light!Notify, Light!Post, Light!At, Light!To, Light!windowVars,
                             CaptureSteps
<1>17. ASSUME NEW k \in Captures, Light!Unlock(k) PROVE GlowTypes'
  BY <1>17 DEF Light!Unlock, Light!windowVars, Light!At, Light!To, CaptureSteps, Messages,
               Phases
<1> QED BY <1>0, <1>1, <1>2, <1>3, <1>4, <1>5, <1>6, <1>7, <1>8, <1>9, <1>10, <1>11, <1>12,
           <1>13, <1>14, <1>15, <1>16, <1>17, GlowCases

LEMMA LockStep ==
  ASSUME GlowTypes, LockInv, GlowSteps
  PROVE  LockInv'
<1> USE DEF LockInv
<1>0. CASE UNCHANGED Light!vars
  BY <1>0 DEF Light!vars, GlowTypes, CaptureSteps
<1>1. CASE Light!Pulse
  BY <1>1 DEF Light!Pulse, Light!windowVars, Light!Post, GlowTypes, CaptureSteps
<1>2. CASE Light!DisplayChange
  BY <1>2 DEF Light!DisplayChange, Light!windowVars, Light!Post, GlowTypes, CaptureSteps
<1>3. CASE Light!StartUp
  BY <1>3 DEF Light!StartUp, Light!windowVars, GlowTypes, CaptureSteps
<1>4. CASE Light!Wake
  BY <1>4 DEF Light!Wake, Light!windowVars, GlowTypes, CaptureSteps
<1>5. CASE Light!Handle
  BY <1>5 DEF Light!Handle, Light!windowVars, GlowTypes, CaptureSteps
<1>6. CASE Light!Drained
  BY <1>6 DEF Light!Drained, Light!windowVars, GlowTypes, CaptureSteps
<1>7. CASE Light!Draw
  <2> USE DEF Light!Draw, LockInv, Frees
  <2>1. CASE RendersLight
    BY <1>7, <2>1 DEF RendersLight
  <2>2. CASE RendersDark
    BY <1>7, <2>2 DEF RendersDark
  <2>3. CASE RendersNothing
    BY <1>7, <2>3 DEF RendersNothing
  <2> QED BY <1>7, <2>1, <2>2, <2>3, DrawCases
<1>8. CASE Light!DrawFails
  BY <1>8 DEF Light!DrawFails, Light!windowVars, GlowTypes, CaptureSteps
<1>9. ASSUME NEW k \in Captures, Light!Barrier(k) PROVE LockInv'
  BY <1>9 DEF Light!Barrier, Light!windowVars, GlowTypes, CaptureSteps
<1>10. ASSUME NEW k \in Captures, Light!Lock(k) PROVE LockInv'
  BY <1>10 DEF Light!Lock, Light!windowVars, Light!At, GlowTypes, CaptureSteps
<1>11. ASSUME NEW k \in Captures, Light!Suppress(k) PROVE LockInv'
  BY ZenonT(60), <1>11 DEF Light!Suppress, Light!windowVars, Light!At, Light!To, GlowTypes, CaptureSteps
<1>12. ASSUME NEW k \in Captures, Light!NotAcknowledged(k) PROVE LockInv'
  BY <1>12 DEF Light!NotAcknowledged, Light!windowVars, Light!At, Light!To, GlowTypes,
               CaptureSteps
<1>13. ASSUME NEW k \in Captures, Light!Flush(k) PROVE LockInv'
  BY <1>13 DEF Light!Flush, Light!windowVars, Light!At, Light!To, GlowTypes, CaptureSteps
<1>14. ASSUME NEW k \in Captures, Light!Captured(k) PROVE LockInv'
  BY <1>14 DEF Light!Captured, Light!windowVars, Light!At, Light!To, GlowTypes, CaptureSteps
<1>15. ASSUME NEW k \in Captures, Light!Unsuppress(k) PROVE LockInv'
  BY <1>15 DEF Light!Unsuppress, Light!windowVars, Light!At, Light!To, GlowTypes,
               CaptureSteps
<1>16. ASSUME NEW k \in Captures, Light!Notify(k) PROVE LockInv'
  BY <1>16 DEF Light!Notify, Light!windowVars, Light!Post, Light!At, Light!To, GlowTypes,
               CaptureSteps
<1>17. ASSUME NEW k \in Captures, Light!Unlock(k) PROVE LockInv'
  BY ZenonT(60), <1>17 DEF Light!Unlock, Light!windowVars, Light!At, Light!To, GlowTypes, CaptureSteps
<1> QED BY <1>0, <1>1, <1>2, <1>3, <1>4, <1>5, <1>6, <1>7, <1>8, <1>9, <1>10, <1>11, <1>12,
           <1>13, <1>14, <1>15, <1>16, <1>17, GlowCases

LEMMA ScreenStep ==
  ASSUME GlowTypes, LockInv, ScreenInv, GlowSteps
  PROVE  ScreenInv'
<1> USE DEF ScreenInv
<1>0. CASE UNCHANGED Light!vars
  BY <1>0 DEF Light!vars, GlowTypes, LockInv, CaptureSteps
<1>1. CASE Light!Pulse
  BY <1>1 DEF Light!Pulse, Light!windowVars, Light!Post, GlowTypes, LockInv, CaptureSteps
<1>2. CASE Light!DisplayChange
  BY <1>2 DEF Light!DisplayChange, Light!windowVars, Light!Post, GlowTypes, LockInv,
              CaptureSteps
<1>3. CASE Light!StartUp
  BY <1>3 DEF Light!StartUp, Light!windowVars, GlowTypes, LockInv, CaptureSteps
<1>4. CASE Light!Wake
  BY <1>4 DEF Light!Wake, Light!windowVars, GlowTypes, LockInv, CaptureSteps
<1>5. CASE Light!Handle
  BY <1>5 DEF Light!Handle, Light!windowVars, GlowTypes, LockInv, CaptureSteps
<1>6. CASE Light!Drained
  BY <1>6 DEF Light!Drained, Light!windowVars, GlowTypes, LockInv, CaptureSteps
<1>7. CASE Light!Draw
  <2> USE DEF Light!Draw, LockInv, Frees
  <2>1. CASE RendersLight
    BY <1>7, <2>1 DEF RendersLight
  <2>2. CASE RendersDark
    BY <1>7, <2>2 DEF RendersDark
  <2>3. CASE RendersNothing
    BY <1>7, <2>3 DEF RendersNothing
  <2> QED BY <1>7, <2>1, <2>2, <2>3, DrawCases
<1>8. CASE Light!DrawFails
  BY <1>8 DEF Light!DrawFails, Light!windowVars, GlowTypes, LockInv, CaptureSteps
<1>9. ASSUME NEW k \in Captures, Light!Barrier(k) PROVE ScreenInv'
  BY <1>9 DEF Light!Barrier, Light!windowVars, GlowTypes, LockInv, CaptureSteps
<1>10. ASSUME NEW k \in Captures, Light!Lock(k) PROVE ScreenInv'
  BY <1>10 DEF Light!Lock, Light!windowVars, Light!At, GlowTypes, LockInv, CaptureSteps
<1>11. ASSUME NEW k \in Captures, Light!Suppress(k) PROVE ScreenInv'
  BY <1>11 DEF Light!Suppress, Light!windowVars, Light!At, Light!To, GlowTypes, LockInv,
               CaptureSteps
<1>12. ASSUME NEW k \in Captures, Light!NotAcknowledged(k) PROVE ScreenInv'
  BY <1>12 DEF Light!NotAcknowledged, Light!windowVars, Light!At, Light!To, GlowTypes,
               LockInv, CaptureSteps
<1>13. ASSUME NEW k \in Captures, Light!Flush(k) PROVE ScreenInv'
  BY <1>13 DEF Light!Flush, Light!windowVars, Light!At, Light!To, GlowTypes, LockInv,
               CaptureSteps
<1>14. ASSUME NEW k \in Captures, Light!Captured(k) PROVE ScreenInv'
  BY <1>14 DEF Light!Captured, Light!windowVars, Light!At, Light!To, GlowTypes, LockInv,
               CaptureSteps
<1>15. ASSUME NEW k \in Captures, Light!Unsuppress(k) PROVE ScreenInv'
  BY <1>15 DEF Light!Unsuppress, Light!windowVars, Light!At, Light!To, GlowTypes, LockInv,
               CaptureSteps
<1>16. ASSUME NEW k \in Captures, Light!Notify(k) PROVE ScreenInv'
  BY <1>16 DEF Light!Notify, Light!windowVars, Light!Post, Light!At, Light!To, GlowTypes,
               LockInv, CaptureSteps
<1>17. ASSUME NEW k \in Captures, Light!Unlock(k) PROVE ScreenInv'
  BY <1>17 DEF Light!Unlock, Light!windowVars, Light!At, Light!To, GlowTypes, LockInv,
               CaptureSteps
<1> QED BY <1>0, <1>1, <1>2, <1>3, <1>4, <1>5, <1>6, <1>7, <1>8, <1>9, <1>10, <1>11, <1>12,
           <1>13, <1>14, <1>15, <1>16, <1>17, GlowCases

LEMMA BitmapStep ==
  ASSUME GlowTypes, LockInv, ScreenInv, BitmapInv, GlowSteps
  PROVE  BitmapInv'
<1> USE DEF BitmapInv
<1>0. CASE UNCHANGED Light!vars
  BY <1>0 DEF Light!vars, GlowTypes, LockInv, ScreenInv
<1>1. CASE Light!Pulse
  BY <1>1 DEF Light!Pulse, Light!windowVars, Light!Post, GlowTypes, LockInv, ScreenInv
<1>2. CASE Light!DisplayChange
  BY <1>2 DEF Light!DisplayChange, Light!windowVars, Light!Post, GlowTypes, LockInv,
              ScreenInv
<1>3. CASE Light!StartUp
  BY <1>3 DEF Light!StartUp, Light!windowVars, GlowTypes, LockInv, ScreenInv
<1>4. CASE Light!Wake
  BY <1>4 DEF Light!Wake, Light!windowVars, GlowTypes, LockInv, ScreenInv
<1>5. CASE Light!Handle
  BY <1>5 DEF Light!Handle, Light!windowVars, GlowTypes, LockInv, ScreenInv
<1>6. CASE Light!Drained
  BY <1>6 DEF Light!Drained, Light!windowVars, GlowTypes, LockInv, ScreenInv
<1>7. CASE Light!Draw
  <2> USE DEF Light!Draw, ScreenInv, Frees
  <2>1. CASE RendersLight
    BY <1>7, <2>1 DEF RendersLight
  <2>2. CASE RendersDark
    BY <1>7, <2>2 DEF RendersDark
  <2>3. CASE RendersNothing
    BY <1>7, <2>3 DEF RendersNothing
  <2> QED BY <1>7, <2>1, <2>2, <2>3, DrawCases
<1>8. CASE Light!DrawFails
  BY <1>8 DEF Light!DrawFails, Light!windowVars, GlowTypes, LockInv, ScreenInv
<1>9. ASSUME NEW k \in Captures, Light!Barrier(k) PROVE BitmapInv'
  BY <1>9 DEF Light!Barrier, Light!windowVars, GlowTypes, LockInv, ScreenInv
<1>10. ASSUME NEW k \in Captures, Light!Lock(k) PROVE BitmapInv'
  BY <1>10 DEF Light!Lock, Light!windowVars, Light!At, GlowTypes, LockInv, ScreenInv
<1>11. ASSUME NEW k \in Captures, Light!Suppress(k) PROVE BitmapInv'
  BY <1>11 DEF Light!Suppress, Light!windowVars, Light!At, Light!To, GlowTypes, LockInv,
               ScreenInv
<1>12. ASSUME NEW k \in Captures, Light!NotAcknowledged(k) PROVE BitmapInv'
  BY <1>12 DEF Light!NotAcknowledged, Light!windowVars, Light!At, Light!To, GlowTypes,
               LockInv, ScreenInv
<1>13. ASSUME NEW k \in Captures, Light!Flush(k) PROVE BitmapInv'
  BY <1>13 DEF Light!Flush, Light!windowVars, Light!At, Light!To, GlowTypes, LockInv,
               ScreenInv
<1>14. ASSUME NEW k \in Captures, Light!Captured(k) PROVE BitmapInv'
  BY <1>14 DEF Light!Captured, Light!windowVars, Light!At, Light!To, GlowTypes, LockInv,
               ScreenInv
<1>15. ASSUME NEW k \in Captures, Light!Unsuppress(k) PROVE BitmapInv'
  BY <1>15 DEF Light!Unsuppress, Light!windowVars, Light!At, Light!To, GlowTypes, LockInv,
               ScreenInv
<1>16. ASSUME NEW k \in Captures, Light!Notify(k) PROVE BitmapInv'
  <2>1. counted.captures # 0
    BY <1>16 DEF Light!Notify, Light!At, LockInv
  <2>2. counted.refits = 0 => Append(posted, "changed") \in Seq({"pulse", "changed"})
    BY AppendMessage
  <2> QED BY <1>16, <2>1, <2>2 DEF Light!Notify, Light!windowVars, Light!Post, Light!At, Light!To,
                               GlowTypes
<1>17. ASSUME NEW k \in Captures, Light!Unlock(k) PROVE BitmapInv'
  BY <1>17 DEF Light!Unlock, Light!windowVars, Light!At, Light!To, GlowTypes, LockInv,
               ScreenInv
<1> QED BY <1>0, <1>1, <1>2, <1>3, <1>4, <1>5, <1>6, <1>7, <1>8, <1>9, <1>10, <1>11, <1>12,
           <1>13, <1>14, <1>15, <1>16, <1>17, GlowCases
LEMMA GlowKept == AllSpec => []GlowInv
<1>1. AllInit => GlowInv
  <2> SUFFICES ASSUME Light!Init PROVE GlowInv
    BY DEF AllInit
  <2>1. <<>> \in Seq(Messages) /\ <<>> \in Seq({"pulse", "refit"})
        /\ <<>> \in Seq({"pulse", "changed"})
    BY EmptySeq
  <2>2. GlowTypes
    BY <2>1 DEF Light!Init, GlowTypes, Phases, CaptureSteps
  <2> QED BY <2>1, <2>2 DEF Light!Init, GlowInv, LockInv, ScreenInv, BitmapInv
<1>2. GlowInv /\ [AllNext]_all => GlowInv'
  <2> SUFFICES ASSUME GlowInv, [AllNext]_all PROVE GlowInv'
    OBVIOUS
  <2>1. GlowSteps
    BY DEF AllNext, all, glowing, GlowSteps, Light!vars
  <2> QED BY <2>1, GlowTypesStep, LockStep, ScreenStep, BitmapStep DEF GlowInv
<1> QED BY <1>1, <1>2, PTL DEF AllSpec

\* A capture that found the glow has none of it in its picture, wherever the thread of the
\* window was; and when the thread sleeps with nothing on its way, the glow is off the screen
\* and its bitmap given back (overlay.rs), for every number of captures, pulses and changes of
\* the display: a barrier not acknowledged, a capture, a changed display are what may leave
\* some of it.
THEOREM GlowStaysTrue == AllSpec => []GlowIsTrue
<1>1. GlowInv => GlowIsTrue
  <2> SUFFICES ASSUME GlowInv PROVE Light!GlowIsTrue
    BY DEF GlowIsTrue
  <2> USE DEF GlowInv, GlowTypes, LockInv, ScreenInv, BitmapInv, Light!Parked, Light!At
  <2>1. \A k \in Captures : Light!At(k, "capturing") /\ capture[k].target => ~shown
    OBVIOUS
  <2>2. ASSUME Light!Parked PROVE lock = {}
    BY <2>2
  <2>3. Light!Parked /\ ~glow.dark =>
          (shown => counted.lost > 0) /\ (glow.bitmap => counted.captures > 0)
    BY <2>2
  <2>4. Light!Parked /\ glow.dark /\ ~glow.bitmap => counted.refits > 0
    OBVIOUS
  <2> QED BY <2>1, <2>3, <2>4 DEF Light!GlowIsTrue
<1> QED BY <1>1, GlowKept, PTL
=============================================================================
