-------------------------- MODULE TreesProofs --------------------------
(***************************************************************************)
(* Theorems of Execution, and below of Windows, for every instance of the  *)
(* constants.                                                              *)
(*                                                                         *)
(* The frame lemmas come first: which actions change a variable at all. A  *)
(* proof that a step preserves a formula starts from the frames of the     *)
(* variables the formula mentions, and looks at the other actions only.    *)
(***************************************************************************)
EXTENDS MCTrees, SequenceTheorems, FiniteSetTheorems, TLAPS

----------------------------------------------------------------------------
(* Frames.                                                                 *)

\* The steps that touch a process tree.
LEMMA JobFrame ==
    ASSUME [Next]_vars
    PROVE  \/ UNCHANGED job
           \/ \E c \in Conns, s \in Starts : CloseTerminate(c, s) \/ Cancel(c, s)
           \/ \E s \in Starts :
                \/ StartCreate(s) \/ StartAbandon(s) \/ StartSpawn(s) \/ StartResume(s)
                \/ StartCleanup(s) \/ StartFinish(s) \/ SystemStep(s)
                \/ SuperviseClosePty(s) \/ SuperviseDeadline(s) \/ SuperviseFails(s)
                \/ ShutdownTerminate(s)
           \/ HostRestart
BY DEF Next, vars, StartStep, SuperviseStep, RegisterConnection, CloseConnection,
  StartReserve, StartAdmit, StartSpawnFails, StartRefuse, CancelRequest, SuperviseFinish,
  SuperviseObserve, ShutdownDrained, SaveSnapshot, SaveEnds, Tick, RequestHostShutdown,
  ShutdownBegin, ShutdownSave

\* The steps that touch a record.
LEMMA RecFrame ==
    ASSUME [Next]_vars
    PROVE  \/ UNCHANGED rec
           \/ \E c \in Conns, s \in Starts : CloseTerminate(c, s) \/ Cancel(c, s)
           \/ \E s \in Starts :
                \/ StartAdmit(s) \/ StartResume(s) \/ StartCleanup(s) \/ StartFinish(s)
                \/ ReaderEnds(s) \/ WriterEnds(s) \/ SuperviseStep(s)
                \/ ShutdownTerminate(s)
           \/ HostRestart
BY DEF Next, vars, StartStep, SystemStep, RegisterConnection, CloseConnection,
  StartReserve, StartCreate, StartAbandon, StartSpawn, StartSpawnFails, StartRefuse,
  CancelRequest, TreeExits, TreeKilled, ShutdownDrained, SaveSnapshot, SaveEnds, Tick,
  RequestHostShutdown, ShutdownBegin, ShutdownSave

\* The steps that move a call of start.
LEMMA PhaseFrame ==
    ASSUME [Next]_vars
    PROVE  \/ UNCHANGED <<pc, ran>>
           \/ \E s \in Starts : StartStep(s)
           \/ \E c \in Callers : SaveEnds(c)
           \/ HostRestart
BY DEF Next, vars, SuperviseStep, SystemStep, RegisterConnection, CloseConnection,
  CloseTerminate, Cancel, CancelRequest, SuperviseClosePty, SuperviseFinish,
  SuperviseObserve, SuperviseDeadline, SuperviseFails, TreeExits, TreeKilled, ReaderEnds,
  WriterEnds, ShutdownTerminate, ShutdownDrained, SaveSnapshot, Tick,
  RequestHostShutdown, ShutdownBegin, ShutdownSave

\* The steps that start, change or end a supervisor.
LEMMA SupervisorFrame ==
    ASSUME [Next]_vars
    PROVE  \/ UNCHANGED sup
           \/ \E s \in Starts :
                \/ StartSpawn(s) \/ StartSpawnFails(s) \/ StartCleanup(s)
                \/ SuperviseFinish(s) \/ SuperviseObserve(s) \/ SuperviseDeadline(s)
                \/ SuperviseFails(s)
           \/ HostRestart
BY ZenonT(60) DEF Next, vars, StartStep, SuperviseStep, SystemStep, RegisterConnection,
  CloseConnection, CloseTerminate, Cancel, StartReserve, StartCreate, StartAbandon,
  StartAdmit, StartResume, StartRefuse, StartFinish, CancelRequest, SuperviseClosePty,
  TreeExits, TreeKilled, ReaderEnds, WriterEnds,
  ShutdownTerminate, ShutdownDrained, SaveSnapshot, SaveEnds, Tick, RequestHostShutdown,
  ShutdownBegin, ShutdownSave

\* The steps that change entries, evictions, counters or the clock.
LEMMA RegistryFrame ==
    ASSUME [Next]_vars
    PROVE  \/ UNCHANGED poolVars
           \/ \E s \in Starts : StartReserve(s) \/ StartAbandon(s) \/ StartAdmit(s)
           \/ HostRestart
BY ZenonT(60) DEF Next, vars, StartStep, SuperviseStep, SystemStep, RegisterConnection,
  CloseConnection, CloseTerminate, Cancel, StartCreate, StartSpawn, StartSpawnFails,
  StartResume, StartRefuse, StartCleanup, StartFinish, CancelRequest, SuperviseClosePty,
  SuperviseFinish, SuperviseObserve, SuperviseDeadline, SuperviseFails, TreeExits,
  TreeKilled, ReaderEnds, WriterEnds, ShutdownTerminate, ShutdownDrained, SaveSnapshot,
  SaveEnds, Tick, RequestHostShutdown, ShutdownBegin, ShutdownSave

\* The steps that change a snapshot in flight or the checkpoint file.
LEMMA SnapshotFrame ==
    ASSUME [Next]_vars
    PROVE  \/ UNCHANGED <<saves, disk>>
           \/ \E c \in Callers : SaveSnapshot(c) \/ SaveEnds(c)
           \/ HostRestart
BY ZenonT(60) DEF Next, vars, saveVars, StartStep, SuperviseStep, SystemStep, RegisterConnection,
  CloseConnection, CloseTerminate, Cancel, StartReserve, StartCreate, StartAbandon,
  StartAdmit, StartSpawn, StartSpawnFails, StartResume, StartRefuse, StartCleanup,
  StartFinish, CancelRequest, SuperviseClosePty, SuperviseFinish, SuperviseObserve,
  SuperviseDeadline, SuperviseFails, TreeExits, TreeKilled, ReaderEnds, WriterEnds,
  ShutdownTerminate, ShutdownDrained, Tick, RequestHostShutdown, ShutdownBegin,
  ShutdownSave

\* The steps that open or close a connection or the manager, or take from a close's list.
LEMMA OwnerFrame ==
    ASSUME [Next]_vars
    PROVE  \/ UNCHANGED connVars
           \/ \E c \in Conns : RegisterConnection(c) \/ CloseConnection(c)
           \/ \E c \in Conns, s \in Starts : CloseTerminate(c, s)
           \/ ShutdownBegin
           \/ HostRestart
BY ZenonT(60) DEF Next, vars, StartStep, SuperviseStep, SystemStep, Cancel, StartReserve, StartCreate,
  StartAbandon, StartAdmit, StartSpawn, StartSpawnFails, StartResume, StartRefuse,
  StartCleanup, StartFinish, SuperviseClosePty, SuperviseFinish, SuperviseObserve,
  SuperviseDeadline, SuperviseFails, TreeExits, TreeKilled, ReaderEnds, WriterEnds,
  ShutdownTerminate, ShutdownDrained, SaveSnapshot, SaveEnds, Tick, RequestHostShutdown,
  ShutdownSave, CancelRequest

\* The steps of shutdown, and those that request it.
LEMMA ShutdownFrame ==
    ASSUME [Next]_vars
    PROVE  \/ UNCHANGED downVars
           \/ \E s \in Starts : ShutdownTerminate(s) \/ ShutdownDrained(s)
           \/ \E c \in Callers : SaveEnds(c)
           \/ RequestHostShutdown \/ ShutdownBegin \/ ShutdownSave
           \/ HostRestart
BY ZenonT(60) DEF Next, vars, StartStep, SuperviseStep, SystemStep, StartReserve, StartCreate,
  StartAbandon, StartAdmit, StartSpawn, StartSpawnFails, StartResume, StartRefuse,
  StartCleanup, StartFinish, SuperviseClosePty, SuperviseFinish, SuperviseObserve,
  SuperviseDeadline, SuperviseFails, TreeExits, TreeKilled, ReaderEnds, WriterEnds,
  SaveSnapshot, RegisterConnection, CloseConnection, CloseTerminate, Cancel, CancelRequest,
  Tick

\* The steps that ask the timer for a checkpoint, or answer it.
LEMMA WantedFrame ==
    ASSUME [Next]_vars
    PROVE  \/ UNCHANGED wanted
           \/ \E c \in Conns, s \in Starts : Cancel(c, s)
           \/ \E c \in Callers : SaveEnds(c)
           \/ Tick
           \/ HostRestart
BY ZenonT(60) DEF Next, vars, saveVars, StartStep, SuperviseStep, SystemStep, StartReserve, StartCreate,
  StartAbandon, StartAdmit, StartSpawn, StartSpawnFails, StartResume, StartRefuse,
  StartCleanup, StartFinish, SuperviseClosePty, SuperviseFinish, SuperviseObserve,
  SuperviseDeadline, SuperviseFails, TreeExits, TreeKilled, ReaderEnds, WriterEnds,
  SaveSnapshot, RegisterConnection, CloseConnection, CloseTerminate, CancelRequest,
  ShutdownTerminate, ShutdownDrained, RequestHostShutdown, ShutdownBegin, ShutdownSave

\* The steps that may run a persistent process, or fail to terminate one.
LEMMA HistoryFrame ==
    ASSUME [Next]_vars
    PROVE  \/ UNCHANGED <<failures, ran>>
           \/ \E c \in Conns, s \in Starts : CloseTerminate(c, s) \/ Cancel(c, s)
           \/ \E s \in Starts : \/ StartResume(s) \/ StartCleanup(s) \/ StartFinish(s)
                                 \/ ShutdownTerminate(s)
           \/ HostRestart
BY ZenonT(60) DEF Next, vars, StartStep, SuperviseStep, SystemStep, RegisterConnection,
  CloseConnection, StartReserve, StartCreate, StartAbandon, StartAdmit, StartSpawn,
  StartSpawnFails, StartRefuse, SuperviseClosePty, SuperviseFinish, SuperviseObserve,
  SuperviseDeadline, SuperviseFails, TreeExits, TreeKilled, ReaderEnds, WriterEnds,
  ShutdownDrained, SaveSnapshot, SaveEnds, Tick, RequestHostShutdown, ShutdownBegin,
  ShutdownSave, CancelRequest

----------------------------------------------------------------------------
(* Types.                                                                  *)

\* Reserved output of a set of starts can be counted.
LEMMA WeightIsNat ==
    ASSUME NEW S \in SUBSET Starts
    PROVE  Weight(S) \in Nat
BY ExecutionAssumption, FS_Subset, FS_CardinalityType DEF Weight, ExecutionAssumption

\* Entry::terminate keeps a record a record and a tree a tree.
LEMMA TerminateType ==
    ASSUME StartTypes, NEW s \in Starts, NEW why \in {"deadline_exceeded", "asked"},
           Terminate(s, why)
    PROVE  (job \in [Starts -> Tree])' /\ (rec \in [Starts -> Record])'
<1>1. job \in [Starts -> Tree] /\ rec \in [Starts -> Record]
  BY DEF StartTypes
<1>2. CASE Settled(s)
  BY <1>1, <1>2 DEF Terminate
<1>3. CASE ~Settled(s)
  <2>1. [job[s] EXCEPT !.killed = TRUE] \in Tree
    BY <1>1 DEF Tree
  <2>2. [rec[s] EXCEPT !.reason = IF @ = "none" THEN why ELSE @] \in Record
    BY <1>1 DEF Record
  <2> QED
    BY <1>1, <1>3, <2>1, <2>2 DEF Terminate
<1> QED
  BY <1>2, <1>3

\* Every step keeps the types of the process trees.
LEMMA JobTypeStep ==
    ASSUME TypeOK, [Next]_vars
    PROVE  (job \in [Starts -> Tree])'
<1>1. job \in [Starts -> Tree] /\ rec \in [Starts -> Record] /\ StartTypes
  BY DEF TypeOK, StartTypes
<1>2. ASSUME NEW c \in Conns, NEW s \in Starts, CloseTerminate(c, s) \/ Cancel(c, s)
      PROVE  (job \in [Starts -> Tree])'
  BY <1>1, <1>2, TerminateType DEF CloseTerminate, Cancel, TerminateFails
<1>3. ASSUME NEW s \in Starts, StartCreate(s)
      PROVE  (job \in [Starts -> Tree])'
  <2> DEFINE t == [NoTree EXCEPT !.proc = "suspended",
                     !.stdin = IF s \in WithStdin THEN "pending" ELSE "done",
                     !.ptyOpen = s \in Terminals]
  <2>1. t \in Tree
    <3>1. (s \in Terminals) \in BOOLEAN
      OBVIOUS
    <3>2. [NoTree EXCEPT !.proc = "suspended",
             !.stdin = IF s \in WithStdin THEN "pending" ELSE "done"] \in Tree
      BY DEF NoTree, Tree
    <3> QED
      BY <3>1, <3>2 DEF Tree
  <2>2. job' = [job EXCEPT ![s] = t]
    BY <1>3 DEF StartCreate
  <2> HIDE DEF t
  <2> QED
    BY <1>1, <2>1, <2>2
<1>4. ASSUME NEW s \in Starts, StartAbandon(s)
      PROVE  (job \in [Starts -> Tree])'
  <2>1. [job[s] EXCEPT !.killed = TRUE, !.ptyOpen = FALSE] \in Tree
    BY <1>1 DEF Tree
  <2> QED
    BY <1>1, <1>4, <2>1 DEF StartAbandon
<1>5. ASSUME NEW s \in Starts, StartSpawn(s)
      PROVE  (job \in [Starts -> Tree])'
  <2>1. [job[s] EXCEPT !.out = "open", !.stdin =
           IF job[s].stdin = "pending" THEN "writing" ELSE job[s].stdin] \in Tree
    BY <1>1 DEF Tree
  <2> QED
    BY <1>1, <1>5, <2>1 DEF StartSpawn
<1>6. ASSUME NEW s \in Starts, StartResume(s)
      PROVE  (job \in [Starts -> Tree])'
  BY <1>1, <1>6 DEF StartResume, Tree
<1>7. ASSUME NEW s \in Starts, StartCleanup(s)
      PROVE  (job \in [Starts -> Tree])'
  <2>1. PICK k \in BOOLEAN : CloseUnserved(s, k)
    BY <1>1, <1>7 DEF StartCleanup, Tree
  <2>2. [job[s] EXCEPT !.killed = k, !.ptyOpen = FALSE,
           !.out = IF job[s].out = "unread" THEN "error" ELSE job[s].out,
           !.stdin = IF job[s].stdin = "pending" THEN "done" ELSE job[s].stdin] \in Tree
    BY <1>1 DEF Tree
  <2> QED
    BY <1>1, <2>1, <2>2 DEF CloseUnserved
<1>8. ASSUME NEW s \in Starts, StartFinish(s)
      PROVE  (job \in [Starts -> Tree])'
  BY <1>1, <1>8, TerminateType DEF StartFinish, TerminateFails
<1>9. ASSUME NEW s \in Starts, SystemStep(s)
      PROVE  (job \in [Starts -> Tree])'
  <2>1. PICK p \in {"orphans", "dead"}, o \in {"eof", "error"} :
           \/ job' = [job EXCEPT ![s].proc = p]
           \/ job' = [job EXCEPT ![s].out = o]
           \/ job' = [job EXCEPT ![s].stdin = "done"]
    BY <1>9 DEF SystemStep, TreeExits, TreeKilled, ReaderEnds, WriterEnds
  <2>2. /\ [job[s] EXCEPT !.proc = p] \in Tree
        /\ [job[s] EXCEPT !.out = o] \in Tree
        /\ [job[s] EXCEPT !.stdin = "done"] \in Tree
    BY <1>1 DEF Tree
  <2> QED
    BY <1>1, <2>1, <2>2
<1>10. ASSUME NEW s \in Starts, SuperviseClosePty(s)
       PROVE  (job \in [Starts -> Tree])'
  BY <1>1, <1>10 DEF SuperviseClosePty, Tree
<1>11. ASSUME NEW s \in Starts, SuperviseDeadline(s) \/ ShutdownTerminate(s)
       PROVE  (job \in [Starts -> Tree])'
  BY <1>1, <1>11, TerminateType DEF SuperviseDeadline, ShutdownTerminate, TerminateFails
<1>12. ASSUME NEW s \in Starts, SuperviseFails(s)
       PROVE  (job \in [Starts -> Tree])'
  <2>1. PICK k \in BOOLEAN :
           job' = [job EXCEPT ![s] = [@ EXCEPT !.killed = k, !.ptyOpen = FALSE]]
    BY <1>1, <1>12 DEF SuperviseFails, Tree
  <2>2. [job[s] EXCEPT !.killed = k, !.ptyOpen = FALSE] \in Tree
    BY <1>1 DEF Tree
  <2> QED
    BY <1>1, <2>1, <2>2
<1>13. CASE HostRestart
  BY <1>13 DEF HostRestart, NoTree, Tree
<1>14. CASE UNCHANGED job
  BY <1>1, <1>14
<1> QED
  BY <1>2, <1>3, <1>4, <1>5, <1>6, <1>7, <1>8, <1>9, <1>10, <1>11, <1>12, <1>13, <1>14,
     JobFrame

\* Every step keeps the types of the records.
LEMMA RecordTypeStep ==
    ASSUME TypeOK, [Next]_vars
    PROVE  (rec \in [Starts -> Record])'
<1>1. job \in [Starts -> Tree] /\ rec \in [Starts -> Record] /\ StartTypes /\ clock \in Nat
  BY DEF TypeOK, StartTypes, ManagerTypes
<1>2. \A s \in Starts : [rec[s] EXCEPT !.error = TRUE] \in Record
  BY <1>1 DEF Record
<1>3. ASSUME NEW c \in Conns, NEW s \in Starts, CloseTerminate(c, s) \/ Cancel(c, s)
      PROVE  (rec \in [Starts -> Record])'
  BY <1>1, <1>3, TerminateType DEF CloseTerminate, Cancel, TerminateFails
<1>4. ASSUME NEW s \in Starts, StartAdmit(s)
      PROVE  (rec \in [Starts -> Record])'
  <2>1. [NoRecord EXCEPT !.status = "starting", !.startedAt = clock] \in Record
    BY <1>1 DEF NoRecord, Record, Statuses
  <2> QED
    BY <1>1, <1>4, <2>1 DEF StartAdmit
<1>5. ASSUME NEW s \in Starts, StartResume(s)
      PROVE  (rec \in [Starts -> Record])'
  <2>1. [rec[s] EXCEPT !.status = "running"] \in Record
    BY <1>1 DEF Record, Statuses
  <2> QED
    BY <1>1, <1>5, <2>1 DEF StartResume
<1>6. ASSUME NEW s \in Starts, StartCleanup(s)
      PROVE  (rec \in [Starts -> Record])'
  <2>1. [rec[s] EXCEPT !.error = TRUE, !.reason =
           IF rec[s].reason = "none" THEN "asked" ELSE rec[s].reason] \in Record
    BY <1>1 DEF Record
  <2> QED
    BY <1>1, <1>2, <1>6, <2>1 DEF StartCleanup
<1>7. ASSUME NEW s \in Starts, StartFinish(s) \/ ShutdownTerminate(s)
      PROVE  (rec \in [Starts -> Record])'
  BY <1>1, <1>7, TerminateType DEF StartFinish, ShutdownTerminate, TerminateFails
<1>8. ASSUME NEW s \in Starts, ReaderEnds(s) \/ WriterEnds(s)
      PROVE  (rec \in [Starts -> Record])'
  <2>1. UNCHANGED rec \/ rec' = [rec EXCEPT ![s].error = TRUE]
    BY <1>8 DEF ReaderEnds, WriterEnds
  <2> QED
    BY <1>1, <1>2, <2>1
<1>9. ASSUME NEW s \in Starts, SuperviseStep(s)
      PROVE  (rec \in [Starts -> Record])'
  <2>1. CASE SuperviseClosePty(s)
    <3>1. [rec[s] EXCEPT !.seen = "dead"] \in Record
      BY <1>1 DEF Record
    <3> QED
      BY <1>1, <2>1, <3>1 DEF SuperviseClosePty
  <2>2. CASE SuperviseFinish(s)
    <3>1. LastStatus(s) \in Statuses
      BY <1>1 DEF LastStatus, Statuses, Final, Record
    <3>2. [rec[s] EXCEPT !.seen = "dead", !.status = LastStatus(s)] \in Record
      BY <1>1, <3>1 DEF Record
    <3> QED
      BY <1>1, <2>2, <3>2 DEF SuperviseFinish
  <2>3. CASE SuperviseObserve(s)
    <3>1. Sampled(s) \in {"live", "root_exited", "dead"}
      BY DEF Sampled
    <3>2. [rec[s] EXCEPT !.seen = Sampled(s), !.status =
             IF Sampled(s) = "live" THEN rec[s].status ELSE "root_exited"] \in Record
      BY <1>1, <3>1 DEF Record, Statuses
    <3> QED
      BY <1>1, <2>3, <3>2 DEF SuperviseObserve
  <2>4. CASE SuperviseDeadline(s)
    BY <1>1, <1>2, <2>4, TerminateType DEF SuperviseDeadline
  <2>5. CASE SuperviseFails(s)
    <3>1. [rec[s] EXCEPT !.error = TRUE, !.status = "failed", !.current = FALSE] \in Record
      BY <1>1 DEF Record, Statuses, Final
    <3> QED
      BY <1>1, <2>5, <3>1 DEF SuperviseFails
  <2> QED
    BY <1>9, <2>1, <2>2, <2>3, <2>4, <2>5 DEF SuperviseStep
<1>10. CASE HostRestart
  <2>1. NoRecord \in Record
    BY DEF NoRecord, Record, Statuses
  <2>2. \A s \in DOMAIN disk.recs : Restored(disk.recs[s]) \in Record
    <3>1. ASSUME NEW s \in DOMAIN disk.recs PROVE Restored(disk.recs[s]) \in Record
      <4>1. disk.recs[s] \in [status: {"live"} \cup Final, startedAt: Nat]
        BY <3>1 DEF TypeOK, SnapshotTypes, IsSnapshot
      <4>2. disk.recs[s].startedAt \in Nat
        BY <4>1
      <4> QED
        BY <4>2 DEF Restored, NoRecord, Record, Statuses, Final
    <3> QED
      BY <3>1
  <2> QED
    BY <1>10, <2>1, <2>2 DEF HostRestart
<1>11. CASE UNCHANGED rec
  BY <1>1, <1>11
<1> QED
  BY <1>3, <1>4, <1>5, <1>6, <1>7, <1>8, <1>9, <1>10, <1>11, RecFrame

\* Every step keeps the types of everything indexed by a start.
LEMMA StartTypesStep ==
    ASSUME TypeOK, [Next]_vars
    PROVE  StartTypes'
<1>1. (pc \in [Starts -> Phases])'
  <2>1. pc \in [Starts -> Phases]
    BY DEF TypeOK, StartTypes
  <2>2. ASSUME NEW s \in Starts, StartStep(s)
        PROVE  (pc \in [Starts -> Phases])'
    BY <2>1, <2>2 DEF StartStep, Phases, StartReserve, StartCreate, StartAbandon, StartAdmit,
       StartSpawn, StartSpawnFails, StartResume, StartRefuse, StartCleanup, StartFinish
  <2>3. ASSUME NEW c \in Callers, SaveEnds(c)
        PROVE  (pc \in [Starts -> Phases])'
    BY <2>1, <2>3 DEF SaveEnds, SaveReturns, Phases
  <2>4. CASE HostRestart
    BY <2>4 DEF HostRestart, Phases
  <2> QED
    BY <2>1, <2>2, <2>3, <2>4, PhaseFrame
<1>2. (sup \in [Starts -> {"none", "live", "late", "ended"}])'
  <2>1. sup \in [Starts -> {"none", "live", "late", "ended"}]
    BY DEF TypeOK, StartTypes
  <2>2. ASSUME NEW s \in Starts,
               \/ StartSpawn(s) \/ StartSpawnFails(s) \/ StartCleanup(s)
               \/ SuperviseFinish(s) \/ SuperviseObserve(s) \/ SuperviseDeadline(s)
               \/ SuperviseFails(s)
        PROVE  (sup \in [Starts -> {"none", "live", "late", "ended"}])'
    BY <2>1, <2>2 DEF StartSpawn, StartSpawnFails, StartCleanup, SuperviseFinish,
       SuperviseObserve, SuperviseDeadline, SuperviseFails
  <2>3. CASE HostRestart
    BY <2>3 DEF HostRestart
  <2> QED
    BY <2>1, <2>2, <2>3, SupervisorFrame
<1>3. (reqCancel \in [Starts -> BOOLEAN])'
  <2>1. reqCancel \in [Starts -> BOOLEAN]
    BY DEF TypeOK, StartTypes
  <2>2. \/ UNCHANGED reqCancel
        \/ \E s \in Starts : CancelRequest(s)
        \/ HostRestart
    BY ZenonT(60) DEF Next, vars, StartStep, SuperviseStep, SystemStep, RegisterConnection,
       CloseConnection, CloseTerminate, Cancel, StartReserve, StartCreate, StartAbandon,
       StartAdmit, StartSpawn, StartSpawnFails, StartResume, StartRefuse, StartCleanup,
       StartFinish, SuperviseClosePty, SuperviseFinish, SuperviseObserve, SuperviseDeadline,
       SuperviseFails, TreeExits, TreeKilled, ReaderEnds, WriterEnds, ShutdownTerminate,
       ShutdownDrained, SaveSnapshot, SaveEnds, Tick, RequestHostShutdown, ShutdownBegin,
       ShutdownSave
  <2> QED
    BY <2>1, <2>2 DEF CancelRequest, HostRestart
<1> QED
  BY <1>1, <1>2, <1>3, JobTypeStep, RecordTypeStep DEF StartTypes

\* Every step keeps the types of the snapshots and of the file.
LEMMA SnapshotTypesStep ==
    ASSUME TypeOK, [Next]_vars
    PROVE  SnapshotTypes'
<1>1. SnapshotTypes
  BY DEF TypeOK
<1>2. ASSUME NEW c \in Callers, SaveSnapshot(c)
      PROVE  SnapshotTypes'
  <2> DEFINE x == [recs |-> [s \in entries \cap Persistent |-> SavedEntry(s)],
                   evicted |-> evicted]
  <2>1. entries \subseteq Starts /\ evicted \subseteq Starts /\ rec \in [Starts -> Record]
    BY DEF TypeOK, ManagerTypes, StartTypes
  <2>2. \A s \in Starts : SavedEntry(s) \in [status: {"live"} \cup Final, startedAt: Nat]
    BY <2>1 DEF SavedEntry, Finished, Record
  <2>3. IsSnapshot(x)
    BY <2>1, <2>2 DEF IsSnapshot
  <2>4. saves' = [saves EXCEPT ![c] = x] /\ UNCHANGED disk
    BY <1>2 DEF SaveSnapshot
  <2> HIDE DEF x
  <2>5. DOMAIN saves' = Callers /\ saves'[c] = x /\ \A d \in Callers \ {c} : saves'[d] = saves[d]
    BY <1>1, <2>4 DEF SnapshotTypes
  <2> QED
    BY <1>1, <2>3, <2>4, <2>5 DEF SnapshotTypes
<1>3. ASSUME NEW c \in Callers, SaveEnds(c)
      PROVE  SnapshotTypes'
  <2>1. /\ saves[c] # NoSave
        /\ saves' = [saves EXCEPT ![c] = NoSave]
        /\ disk' = saves[c] \/ UNCHANGED disk
    BY <1>3 DEF SaveEnds
  <2>2. IsSnapshot(disk')
    BY <1>1, <2>1 DEF SnapshotTypes
  <2> QED
    BY <1>1, <2>1, <2>2 DEF SnapshotTypes
<1>4. CASE HostRestart
  BY <1>1, <1>4 DEF HostRestart, SnapshotTypes
<1>5. CASE UNCHANGED <<saves, disk>>
  BY <1>1, <1>5 DEF SnapshotTypes
<1> QED
  BY <1>2, <1>3, <1>4, <1>5, SnapshotFrame

\* Every step keeps the types of the manager's own state.
LEMMA ManagerTypesStep ==
    ASSUME TypeOK, [Next]_vars
    PROVE  ManagerTypes'
<1> DEFINE PoolTypes == /\ entries \subseteq Starts /\ evicted \subseteq Starts
                        /\ pending \in Int /\ budget \in Int /\ clock \in Nat
           ConnTypes == /\ conns \in [Conns -> {"unknown", "open", "closed"}]
                        /\ todo \in [Conns -> SUBSET Starts]
           DownTypes == /\ closed \in BOOLEAN /\ stopping \in BOOLEAN /\ downFailed \in BOOLEAN
                        /\ down \in {"up", "stopping", "save", "ok", "error"}
                        /\ stopList \subseteq Starts /\ downTodo \subseteq Starts
<1>1. ManagerTypes /\ PoolTypes /\ ConnTypes /\ DownTypes
  BY DEF TypeOK, ManagerTypes
<1>2. /\ Persistent \subseteq Starts
      /\ \A S \in SUBSET Starts : Weight(S) \in Nat
  BY ExecutionAssumption, WeightIsNat DEF ExecutionAssumption
<1>3. PoolTypes'
  <2>1. ASSUME NEW s \in Starts, StartReserve(s)
        PROVE  PoolTypes'
    <3>1. PICK gone \in SUBSET Evictable :
             /\ entries' = entries \ gone
             /\ evicted' = evicted \cup gone
             /\ pending' \in {pending, pending + 1}
             /\ budget' \in {budget - Weight(gone), budget - Weight(gone) + Weight({s})}
             /\ clock' = clock
      BY <2>1 DEF StartReserve
    <3>2. gone \subseteq Starts /\ {s} \subseteq Starts
      BY <1>1 DEF Evictable
    <3>3. Weight(gone) \in Nat /\ Weight({s}) \in Nat
      BY <1>2, <3>2
    <3> QED
      BY <1>1, <3>1, <3>2, <3>3
  <2>2. ASSUME NEW s \in Starts, StartAbandon(s)
        PROVE  PoolTypes'
    <3>1. Weight({s}) \in Nat
      BY <1>2
    <3> QED
      BY <1>1, <2>2, <3>1 DEF StartAbandon
  <2>3. ASSUME NEW s \in Starts, StartAdmit(s)
        PROVE  PoolTypes'
    BY <1>1, <2>3 DEF StartAdmit
  <2>4. CASE HostRestart
    <3>1. DOMAIN disk.recs \subseteq Starts /\ disk.evicted \subseteq Starts
      BY <1>2 DEF TypeOK, SnapshotTypes, IsSnapshot
    <3>2. Weight(DOMAIN disk.recs) \in Nat
      BY <1>2, <3>1
    <3> QED
      BY <1>1, <2>4, <3>1, <3>2 DEF HostRestart
  <2>5. CASE UNCHANGED poolVars
    BY <1>1, <2>5 DEF poolVars
  <2> QED
    BY <2>1, <2>2, <2>3, <2>4, <2>5, RegistryFrame
<1>4. (failures \subseteq Starts /\ ran \subseteq Persistent)'
  <2>1. failures \subseteq Starts /\ ran \subseteq Persistent
    BY DEF TypeOK, ManagerTypes
  <2>2. ASSUME NEW c \in Conns, NEW s \in Starts, CloseTerminate(c, s) \/ Cancel(c, s)
        PROVE  failures' \subseteq Starts /\ ran' = ran
    BY <2>1, <2>2 DEF CloseTerminate, Cancel
  <2>3. ASSUME NEW s \in Starts, StartCleanup(s) \/ StartFinish(s) \/ ShutdownTerminate(s)
        PROVE  failures' \subseteq Starts /\ ran' = ran
    BY <2>1, <2>3 DEF StartCleanup, StartFinish, ShutdownTerminate
  <2>4. ASSUME NEW s \in Starts, StartResume(s)
        PROVE  failures' = failures /\ ran' = ran \cup ({s} \cap Persistent)
    BY <2>4 DEF StartResume
  <2>5. CASE HostRestart
    BY <2>1, <2>5 DEF HostRestart
  <2> QED
    BY <2>1, <2>2, <2>3, <2>4, <2>5, HistoryFrame
<1>5. ConnTypes'
  BY ZenonT(60), <1>1, OwnerFrame DEF ManagerTypes, RegisterConnection, CloseConnection, CloseTerminate,
     ShutdownBegin, HostRestart, connVars
<1>6. DownTypes'
  <2>1. ASSUME NEW s \in Starts, ShutdownTerminate(s) \/ ShutdownDrained(s)
        PROVE  DownTypes'
    BY <1>1, <2>1 DEF ShutdownTerminate, ShutdownDrained
  <2>2. ASSUME NEW c \in Callers, SaveEnds(c)
        PROVE  DownTypes'
    <3>1. PICK ok \in BOOLEAN : SaveReturns(c, ok)
      BY <2>2 DEF SaveEnds
    <3>2. down' \in {down, "ok", "error"}
      BY <1>1, <3>1 DEF SaveReturns
    <3>3. UNCHANGED <<closed, stopping, stopList, downTodo, downFailed>>
      BY <2>2 DEF SaveEnds
    <3> QED
      BY <1>1, <3>2, <3>3
  <2>3. CASE RequestHostShutdown \/ ShutdownSave
    BY <1>1, <2>3 DEF RequestHostShutdown, ShutdownSave
  <2>4. CASE ShutdownBegin
    BY <1>1, <2>4 DEF ShutdownBegin
  <2>5. CASE HostRestart
    BY <1>1, <2>5 DEF HostRestart
  <2>6. CASE UNCHANGED downVars
    BY <1>1, <2>6 DEF downVars
  <2> QED
    BY <2>1, <2>2, <2>3, <2>4, <2>5, <2>6, ShutdownFrame
<1>7. (wanted \in BOOLEAN)'
  <2>1. wanted \in BOOLEAN
    BY DEF TypeOK, ManagerTypes
  <2> QED
    BY <2>1, WantedFrame DEF Cancel, SaveEnds, SaveReturns, Tick, HostRestart
<1> QED
  BY <1>3, <1>4, <1>5, <1>6, <1>7 DEF ManagerTypes

\* The initial state has the types.
LEMMA InitTypeOK == Init => TypeOK
<1> SUFFICES ASSUME Init PROVE TypeOK
  OBVIOUS
<1>1. ManagerTypes
  <2>1. /\ conns \in [Conns -> {"unknown", "open", "closed"}]
        /\ todo \in [Conns -> SUBSET Starts]
    BY DEF Init
  <2>2. closed \in BOOLEAN /\ stopping \in BOOLEAN /\ downFailed \in BOOLEAN /\ wanted \in BOOLEAN
    BY DEF Init
  <2>3. pending \in Int /\ budget \in Int /\ clock \in Nat
    BY DEF Init
  <2> QED
    BY <2>1, <2>2, <2>3 DEF Init, ManagerTypes
<1>2. StartTypes
  BY DEF Init, StartTypes, NoRecord, NoTree, Record, Tree, Statuses, Phases
<1>3. SnapshotTypes
  BY DEF Init, SnapshotTypes, IsSnapshot, NoRecords
<1> QED
  BY <1>1, <1>2, <1>3 DEF TypeOK

\* Every state has the declared types.
THEOREM Typed == Spec => []TypeOK
<1>1. TypeOK /\ [Next]_vars => TypeOK'
  BY ManagerTypesStep, StartTypesStep, SnapshotTypesStep DEF TypeOK
<1> QED
  BY <1>1, InitTypeOK, PTL DEF Spec

----------------------------------------------------------------------------
(* One start: what a step may do to its phase, its process, its record.    *)

\* How a process tree changes: created suspended, resumed by its start, left by its root
\* and its descendants, killed after a termination, or lost with the host.
LEMMA ProcStep ==
    ASSUME TypeOK, [Next]_vars, NEW s \in Starts
    PROVE  \/ job'[s].proc = job[s].proc
           \/ StartCreate(s) /\ job'[s].proc = "suspended"
           \/ StartResume(s) /\ job[s].proc = "suspended" /\ job'[s].proc = "running"
           \/ job[s].proc \in {"running", "orphans"} /\ job'[s].proc \in {"orphans", "dead"}
           \/ job[s].proc = "suspended" /\ job'[s].proc = "dead"
           \/ HostRestart /\ job'[s].proc = "none"
<1>1. job \in [Starts -> Tree] /\ job' \in [Starts -> Tree]
  BY JobTypeStep DEF TypeOK, StartTypes
<1>2. ASSUME NEW c \in Conns, NEW t \in Starts, CloseTerminate(c, t) \/ Cancel(c, t)
      PROVE  job'[s].proc = job[s].proc
  BY <1>1, <1>2 DEF CloseTerminate, Cancel, Terminate, TerminateFails, Tree
<1>3. ASSUME NEW t \in Starts, StartCreate(t)
      PROVE  \/ job'[s].proc = job[s].proc
             \/ StartCreate(s) /\ job'[s].proc = "suspended"
  <2>1. job'[s].proc = IF s = t THEN "suspended" ELSE job[s].proc
    BY <1>1, <1>3 DEF StartCreate, NoTree
  <2> QED
    BY <1>3, <2>1
<1>4. ASSUME NEW t \in Starts, StartAbandon(t)
      PROVE  job'[s].proc = job[s].proc
  BY <1>1, <1>4 DEF StartAbandon, Tree
<1>5. ASSUME NEW t \in Starts, StartSpawn(t)
      PROVE  job'[s].proc = job[s].proc
  BY <1>1, <1>5 DEF StartSpawn, Tree
<1>6. ASSUME NEW t \in Starts, StartResume(t)
      PROVE  \/ job'[s].proc = job[s].proc
             \/ StartResume(s) /\ job[s].proc = "suspended" /\ job'[s].proc = "running"
  <2>1. job'[s].proc = IF s = t /\ job[s].proc = "suspended" THEN "running" ELSE job[s].proc
    BY <1>1, <1>6 DEF StartResume, Tree
  <2> QED
    BY <1>6, <2>1
<1>7. ASSUME NEW t \in Starts, StartCleanup(t)
      PROVE  job'[s].proc = job[s].proc
  <2>1. PICK k \in BOOLEAN : CloseUnserved(t, k)
    BY <1>1, <1>7 DEF StartCleanup, Tree
  <2> QED
    BY <1>1, <2>1 DEF CloseUnserved, Tree
<1>8. ASSUME NEW t \in Starts, StartFinish(t) \/ SuperviseDeadline(t) \/ ShutdownTerminate(t)
      PROVE  job'[s].proc = job[s].proc
  BY <1>1, <1>8 DEF StartFinish, SuperviseDeadline, ShutdownTerminate, Terminate,
     TerminateFails, Tree
<1>9. ASSUME NEW t \in Starts, SystemStep(t)
      PROVE  \/ job'[s].proc = job[s].proc
             \/ /\ job[s].proc \in {"running", "orphans"}
                /\ job'[s].proc \in {"orphans", "dead"}
             \/ job[s].proc = "suspended" /\ job'[s].proc = "dead"
  BY <1>1, <1>9 DEF SystemStep, TreeExits, TreeKilled, ReaderEnds, WriterEnds, Tree
<1>10. ASSUME NEW t \in Starts, SuperviseClosePty(t)
       PROVE  job'[s].proc = job[s].proc
  BY <1>1, <1>10 DEF SuperviseClosePty, Tree
<1>11. ASSUME NEW t \in Starts, SuperviseFails(t)
       PROVE  job'[s].proc = job[s].proc
  <2>1. PICK k \in BOOLEAN :
           job' = [job EXCEPT ![t] = [@ EXCEPT !.killed = k, !.ptyOpen = FALSE]]
    BY <1>1, <1>11 DEF SuperviseFails, Tree
  <2> QED
    BY <1>1, <2>1 DEF Tree
<1>12. CASE HostRestart
  BY <1>12 DEF HostRestart, NoTree
<1> QED
  BY <1>2, <1>3, <1>4, <1>5, <1>6, <1>7, <1>8, <1>9, <1>10, <1>11, <1>12,
     JobFrame

\* A termination that was issued stays issued until the host is lost.
LEMMA KilledStep ==
    ASSUME TypeOK, [Next]_vars, NEW s \in Starts, job[s].killed
    PROVE  job'[s].killed \/ StartCreate(s) \/ HostRestart
<1>1. job \in [Starts -> Tree]
  BY DEF TypeOK, StartTypes
<1>2. ASSUME NEW c \in Conns, NEW t \in Starts, CloseTerminate(c, t) \/ Cancel(c, t)
      PROVE  job'[s].killed
  BY <1>1, <1>2 DEF CloseTerminate, Cancel, Terminate, TerminateFails, Tree
<1>3. ASSUME NEW t \in Starts, StartCreate(t)
      PROVE  job'[s].killed \/ StartCreate(s)
  BY <1>1, <1>3 DEF StartCreate
<1>4. ASSUME NEW t \in Starts, StartAbandon(t) \/ StartSpawn(t) \/ StartResume(t)
      PROVE  job'[s].killed
  <2>1. CASE StartAbandon(t)
    BY <1>1, <2>1 DEF StartAbandon, Tree
  <2>2. CASE StartSpawn(t)
    BY <1>1, <2>2 DEF StartSpawn, Tree
  <2>3. CASE StartResume(t)
    BY <1>1, <2>3 DEF StartResume, Tree
  <2> QED
    BY <1>4, <2>1, <2>2, <2>3
<1>5. ASSUME NEW t \in Starts, StartCleanup(t)
      PROVE  job'[s].killed
  <2>1. PICK k \in {job[t].killed, TRUE} : CloseUnserved(t, k)
    BY <1>1, <1>5 DEF StartCleanup
  <2> QED
    BY <1>1, <2>1 DEF CloseUnserved, Tree
<1>6. ASSUME NEW t \in Starts, StartFinish(t) \/ SuperviseDeadline(t) \/ ShutdownTerminate(t)
      PROVE  job'[s].killed
  BY <1>1, <1>6 DEF StartFinish, SuperviseDeadline, ShutdownTerminate, Terminate,
     TerminateFails, Tree
<1>7. ASSUME NEW t \in Starts, SystemStep(t)
      PROVE  job'[s].killed
  BY <1>1, <1>7 DEF SystemStep, TreeExits, TreeKilled, ReaderEnds, WriterEnds, Tree
<1>8. ASSUME NEW t \in Starts, SuperviseClosePty(t) \/ SuperviseFails(t)
      PROVE  job'[s].killed
  BY ZenonT(60), <1>1, <1>8 DEF SuperviseClosePty, SuperviseFails, Tree
<1> QED
  BY <1>2, <1>3, <1>4, <1>5, <1>6, <1>7, <1>8, JobFrame

\* What the record says of the tree comes from the supervisor, which has seen it.
LEMMA SeenStep ==
    ASSUME TypeOK, [Next]_vars, NEW s \in Starts
    PROVE  \/ rec'[s].seen = rec[s].seen
           \/ rec'[s].seen = "live" /\ (StartAdmit(s) \/ sup[s] = "live" \/ HostRestart)
           \/ sup[s] = "live" /\ rec'[s].seen = "root_exited"
           \/ sup[s] = "live" /\ job[s].proc = "dead" /\ job'[s].proc = "dead"
<1>1. job \in [Starts -> Tree] /\ rec \in [Starts -> Record]
  BY DEF TypeOK, StartTypes
<1>2. ASSUME NEW c \in Conns, NEW t \in Starts, CloseTerminate(c, t) \/ Cancel(c, t)
      PROVE  rec'[s].seen = rec[s].seen
  BY <1>1, <1>2 DEF CloseTerminate, Cancel, Terminate, TerminateFails, Record
<1>3. ASSUME NEW t \in Starts, StartAdmit(t)
      PROVE  rec'[s].seen = rec[s].seen \/ (StartAdmit(s) /\ rec'[s].seen = "live")
  BY <1>1, <1>3 DEF StartAdmit, NoRecord
<1>4. ASSUME NEW t \in Starts, StartResume(t) \/ StartCleanup(t)
      PROVE  rec'[s].seen = rec[s].seen
  <2>1. CASE StartResume(t)
    BY <1>1, <2>1 DEF StartResume, Record
  <2>2. CASE StartCleanup(t)
    <3>1. \/ rec' = [rec EXCEPT ![t] = [@ EXCEPT !.error = TRUE, !.reason =
                      IF rec[t].reason = "none" THEN "asked" ELSE rec[t].reason]]
          \/ rec' = [rec EXCEPT ![t].error = TRUE]
      BY <2>2 DEF StartCleanup
    <3>2. /\ [rec[t] EXCEPT !.error = TRUE, !.reason =
                IF rec[t].reason = "none" THEN "asked" ELSE rec[t].reason].seen = rec[t].seen
          /\ [rec[t] EXCEPT !.error = TRUE].seen = rec[t].seen
      BY <1>1 DEF Record
    <3> QED
      BY <1>1, <3>1, <3>2
  <2> QED
    BY <1>4, <2>1, <2>2
<1>5. ASSUME NEW t \in Starts, StartFinish(t) \/ SuperviseDeadline(t) \/ ShutdownTerminate(t)
      PROVE  rec'[s].seen = rec[s].seen
  BY <1>1, <1>5 DEF StartFinish, SuperviseDeadline, ShutdownTerminate, Terminate,
     TerminateFails, Record
<1>6. ASSUME NEW t \in Starts, ReaderEnds(t) \/ WriterEnds(t)
      PROVE  rec'[s].seen = rec[s].seen
  BY <1>1, <1>6 DEF ReaderEnds, WriterEnds, Record
<1>7. ASSUME NEW t \in Starts, SuperviseClosePty(t)
      PROVE  \/ rec'[s].seen = rec[s].seen
             \/ sup[s] = "live" /\ job[s].proc = "dead" /\ job'[s].proc = "dead"
  BY <1>1, <1>7 DEF SuperviseClosePty, Record, Tree
<1>8. ASSUME NEW t \in Starts, SuperviseFinish(t)
      PROVE  \/ rec'[s].seen = rec[s].seen
             \/ sup[s] = "live" /\ job[s].proc = "dead" /\ job'[s].proc = "dead"
  BY <1>1, <1>8 DEF SuperviseFinish, Record
<1>9. ASSUME NEW t \in Starts, SuperviseObserve(t)
      PROVE  \/ rec'[s].seen = rec[s].seen
             \/ sup[s] = "live" /\ rec'[s].seen \in {"live", "root_exited"}
             \/ sup[s] = "live" /\ job[s].proc = "dead" /\ job'[s].proc = "dead"
  <2>1. /\ rec'[s].seen = IF s = t THEN Sampled(t) ELSE rec[s].seen
        /\ sup[t] = "live" /\ job' = job
    BY <1>1, <1>9 DEF SuperviseObserve, Record
  <2> QED
    BY <2>1 DEF Sampled
<1>10. ASSUME NEW t \in Starts, SuperviseFails(t)
       PROVE  rec'[s].seen = rec[s].seen
  BY <1>1, <1>10 DEF SuperviseFails, Record
<1>11. CASE HostRestart
  BY <1>11 DEF HostRestart, Restored, NoRecord
<1> QED
  BY <1>2, <1>3, <1>4, <1>5, <1>6, <1>7, <1>8, <1>9, <1>10, <1>11, RecFrame
     DEF SuperviseStep

----------------------------------------------------------------------------
(* The inductive invariant, conjunct by conjunct.                          *)

Early == {"idle", "reserved", "created"}

Names(snapshot) == DOMAIN snapshot.recs \cup snapshot.evicted

\* Only a start that is in checkpoint has a snapshot in flight.
SaverInv == \A s \in Starts : saves[s] # NoSave => pc[s] \in {"save", "resave"}

\* Before its admission a start is unknown to the registry, to every snapshot and to the
\* file, nobody supervises it and its record says nothing.
FreshInv ==
    \A s \in Starts : pc[s] \in Early =>
        /\ sup[s] = "none" /\ rec[s].seen = "live"
        /\ s \notin entries \cup evicted \cup Names(disk)
        /\ \A c \in Callers : saves[c] # NoSave => s \notin Names(saves[c])

\* An earlier host's process is gone, and one that was seen dead or evicted is dead.
DeadInv ==
    \A s \in Starts :
        /\ pc[s] = "gone" => job[s].proc = "none"
        /\ rec[s].seen = "dead" => job[s].proc \in {"none", "dead"}
        /\ s \in evicted => job[s].proc \in {"none", "dead"}

\* A tree that runs, or that its start can still resume, is in the registry.
EntryInv ==
    \A s \in Starts :
        \/ Alive(s)
        \/ job[s].proc = "suspended" /\ pc[s] \in {"admitted", "save", "ready"}
        => s \in entries

\* Only a closed connection has entries left to terminate.
TodoInv == \A c \in Conns : conns[c] # "closed" => todo[c] = {}

\* A start has a snapshot in flight only while it saves.
LEMMA SaverStep ==
    ASSUME TypeOK, SaverInv, [Next]_vars
    PROVE  SaverInv'
<1>1. pc \in [Starts -> Phases] /\ DOMAIN saves = Callers /\ Starts \subseteq Callers
  BY DEF TypeOK, StartTypes, SnapshotTypes, Callers
<1>2. ASSUME NEW s \in Starts, StartStep(s)
      PROVE  SaverInv'
  <2>1. saves' = saves /\ pc[s] \notin {"save", "resave"} /\ \A t \in Starts \ {s} : pc'[t] = pc[t]
    BY <1>1, <1>2 DEF StartStep, StartReserve, StartCreate, StartAbandon, StartAdmit,
       StartSpawn, StartSpawnFails, StartResume, StartRefuse, StartCleanup, StartFinish,
       saveVars
  <2> QED
    BY <2>1 DEF SaverInv
<1>3. ASSUME NEW c \in Callers, SaveSnapshot(c)
      PROVE  SaverInv'
  <2>1. pc' = pc /\ Calling(c) /\ \A d \in Callers \ {c} : saves'[d] = saves[d]
    BY <1>1, <1>3 DEF SaveSnapshot
  <2>2. c \in Starts => pc[c] \in {"save", "resave"}
    BY <2>1, ExecutionAssumption DEF Calling, ExecutionAssumption
  <2> QED
    BY <1>1, <2>1, <2>2 DEF SaverInv
<1>4. ASSUME NEW c \in Callers, SaveEnds(c)
      PROVE  SaverInv'
  <2>1. saves' = [saves EXCEPT ![c] = NoSave] /\ \E ok \in BOOLEAN : SaveReturns(c, ok)
    BY <1>4 DEF SaveEnds
  <2>2. \A t \in Starts \ {c} : pc'[t] = pc[t]
    BY <1>1, <2>1 DEF SaveReturns
  <2> QED
    BY <1>1, <2>1, <2>2 DEF SaverInv
<1>5. CASE HostRestart
  BY <1>1, <1>5 DEF HostRestart, SaverInv
<1>6. CASE UNCHANGED <<pc, saves>>
  BY <1>6 DEF SaverInv
<1> QED
  BY <1>2, <1>3, <1>4, <1>5, <1>6, PhaseFrame, SnapshotFrame

\* No step leads back to the phases before admission.
LEMMA EarlyStep ==
    ASSUME TypeOK, SaverInv, [Next]_vars, NEW s \in Starts, pc'[s] \in Early
    PROVE  /\ pc[s] \in Early
           /\ ~StartAdmit(s)
           /\ HostRestart => pc[s] = "idle"
<1>1. pc \in [Starts -> Phases] /\ Starts \subseteq Callers
  BY DEF TypeOK, StartTypes, Callers
<1>2. ASSUME NEW t \in Starts, StartStep(t)
      PROVE  pc[s] \in Early /\ ~StartAdmit(s)
  BY <1>1, <1>2 DEF StartStep, StartReserve, StartCreate, StartAbandon, StartAdmit,
     StartSpawn, StartSpawnFails, StartResume, StartRefuse, StartCleanup, StartFinish, Early
<1>3. ASSUME NEW c \in Callers, SaveEnds(c)
      PROVE  pc[s] \in Early
  BY <1>1, <1>3 DEF SaveEnds, SaveReturns, Early
<1>4. ASSUME HostRestart
      PROVE  pc[s] = "idle"
  BY <1>1, <1>4 DEF HostRestart, Early
<1>5. ASSUME StartAdmit(s)
      PROVE  FALSE
  BY <1>1, <1>5 DEF StartAdmit, Early
<1> QED
  BY <1>2, <1>3, <1>4, <1>5, PhaseFrame DEF Early

\* Before its admission a start has no supervisor, and nothing was saved of it.
LEMMA FreshStep ==
    ASSUME TypeOK, SaverInv, FreshInv, [Next]_vars
    PROVE  FreshInv'
<1> SUFFICES ASSUME NEW s \in Starts, pc'[s] \in Early
             PROVE  /\ sup'[s] = "none" /\ rec'[s].seen = "live"
                    /\ s \notin entries' \cup evicted' \cup Names(disk')
                    /\ \A c \in Callers : saves'[c] # NoSave => s \notin Names(saves'[c])
  BY DEF FreshInv
<1>1. pc[s] \in Early /\ ~StartAdmit(s)
  BY EarlyStep
<1>2. /\ sup[s] = "none" /\ rec[s].seen = "live"
      /\ s \notin entries \cup evicted \cup Names(disk)
      /\ \A c \in Callers : saves[c] # NoSave => s \notin Names(saves[c])
  BY <1>1 DEF FreshInv
<1>3. sup'[s] = "none"
  <2>1. sup \in [Starts -> {"none", "live", "late", "ended"}]
    BY DEF TypeOK, StartTypes
  <2> QED
    BY <1>1, <1>2, <2>1, SupervisorFrame DEF Early, StartSpawn, StartSpawnFails, StartCleanup,
       SuperviseFinish, SuperviseObserve, SuperviseDeadline, SuperviseFails, HostRestart
<1>4. rec'[s].seen = "live"
  BY <1>2, SeenStep
<1>5. s \notin entries' \cup evicted'
  BY <1>1, <1>2, RegistryFrame DEF StartReserve, StartAbandon, StartAdmit, HostRestart,
     Evictable, Names, poolVars
<1> DEFINE Unsaved == /\ s \notin Names(disk)
                      /\ \A c \in Callers : saves[c] # NoSave => s \notin Names(saves[c])
<1>6. Unsaved'
  <2>1. DOMAIN saves = Callers
    BY DEF TypeOK, SnapshotTypes
  <2>2. ASSUME NEW c \in Callers, SaveSnapshot(c)
        PROVE  Unsaved'
    <3> DEFINE x == [recs |-> [t \in entries \cap Persistent |-> SavedEntry(t)],
                     evicted |-> evicted]
    <3>1. s \notin Names(x)
      BY <1>2 DEF Names
    <3>2. saves' = [saves EXCEPT ![c] = x] /\ disk' = disk
      BY <2>2 DEF SaveSnapshot
    <3> HIDE DEF x
    <3> QED
      BY <1>2, <2>1, <3>1, <3>2
  <2>3. ASSUME NEW c \in Callers, SaveEnds(c)
        PROVE  Unsaved'
    BY <1>2, <2>1, <2>3 DEF SaveEnds
  <2>4. CASE HostRestart
    BY <1>2, <2>4 DEF HostRestart
  <2> QED
    BY <1>2, <2>2, <2>3, <2>4, SnapshotFrame
<1> QED
  BY <1>3, <1>4, <1>5, <1>6

\* What is gone or evicted is dead, and what was seen dead stays so.
LEMMA DeadStep ==
    ASSUME TypeOK, SaverInv, FreshInv, DeadInv, [Next]_vars
    PROVE  DeadInv'
<1> SUFFICES ASSUME NEW s \in Starts
             PROVE  /\ pc'[s] = "gone" => job'[s].proc = "none"
                    /\ rec'[s].seen = "dead" => job'[s].proc \in {"none", "dead"}
                    /\ s \in evicted' => job'[s].proc \in {"none", "dead"}
  BY DEF DeadInv
<1>1. /\ pc[s] = "gone" => job[s].proc = "none"
      /\ rec[s].seen = "dead" => job[s].proc \in {"none", "dead"}
      /\ s \in evicted => job[s].proc \in {"none", "dead"}
  BY DEF DeadInv
<1>2. CASE HostRestart
  BY <1>2 DEF HostRestart, NoTree
<1>3. CASE StartCreate(s)
  <2>1. pc[s] = "reserved" /\ pc'[s] = "created" /\ rec' = rec /\ evicted' = evicted
    BY <1>3 DEF StartCreate, poolVars, TypeOK, StartTypes
  <2> QED
    BY <2>1 DEF FreshInv, Early
<1>4. CASE ~HostRestart /\ ~StartCreate(s)
  <2>1. pc'[s] = "gone" => job'[s].proc = "none"
    <3>1. pc'[s] = "gone" => pc[s] = "gone"
      BY ZenonT(60), <1>4, PhaseFrame DEF TypeOK, StartTypes, StartStep, StartReserve, StartCreate,
         StartAbandon, StartAdmit, StartSpawn, StartSpawnFails, StartResume, StartRefuse,
         StartCleanup, StartFinish, SaveEnds, SaveReturns
    <3> QED
      BY <1>1, <1>4, <3>1, ProcStep
  <2>2. rec'[s].seen = "dead" => job'[s].proc \in {"none", "dead"}
    BY <1>1, <1>4, ProcStep, SeenStep
  <2>3. s \in evicted' => job'[s].proc \in {"none", "dead"}
    <3>1. s \in evicted' => s \in evicted \/ s \in Evictable
      BY <1>4, RegistryFrame DEF StartReserve, StartAbandon, StartAdmit, poolVars
    <3>2. s \in Evictable => job[s].proc \in {"none", "dead"}
      BY <1>1 DEF Evictable, Native
    <3> QED
      BY <1>1, <1>4, <3>1, <3>2, ProcStep
  <2> QED
    BY <2>1, <2>2, <2>3
<1> QED
  BY <1>2, <1>3, <1>4

\* Only an eviction, of a dead tree, takes an entry away.
LEMMA EntryStep ==
    ASSUME TypeOK, SaverInv, FreshInv, DeadInv, EntryInv, [Next]_vars
    PROVE  EntryInv'
<1> SUFFICES ASSUME NEW s \in Starts,
                    \/ job'[s].proc \in {"running", "orphans"}
                    \/ job'[s].proc = "suspended" /\ pc'[s] \in {"admitted", "save", "ready"}
             PROVE  s \in entries'
  BY DEF EntryInv, Alive
<1>1. pc \in [Starts -> Phases] /\ job \in [Starts -> Tree] /\ Starts \subseteq Callers
  BY DEF TypeOK, StartTypes, Callers
<1>2. ~HostRestart
  BY DEF HostRestart, NoTree
<1>3. CASE StartAdmit(s)
  BY <1>3 DEF StartAdmit
<1>4. CASE ~StartAdmit(s)
  <2>1. s \in entries
    <3>1. CASE StartCreate(s)
      <4>1. pc'[s] = "created" /\ job'[s].proc = "suspended"
        BY <1>1, <3>1 DEF StartCreate, NoTree
      <4> QED
        BY <4>1
    <3>2. CASE StartResume(s) /\ job[s].proc = "suspended"
      BY <3>2 DEF StartResume, EntryInv
    <3>3. CASE job[s].proc \in {"running", "orphans"}
      BY <3>3 DEF EntryInv, Alive
    <3>4. CASE job[s].proc = "suspended" /\ job'[s].proc = "suspended" /\ ~StartCreate(s)
      <4>1. pc'[s] \in {"admitted", "save", "ready"}
        BY <3>4
      <4>2. pc[s] \in {"admitted", "save", "ready"}
        <5>1. ASSUME NEW t \in Starts, StartStep(t)
              PROVE  pc[s] \in {"admitted", "save", "ready"}
          BY <1>1, <1>4, <4>1, <5>1 DEF StartStep, StartReserve, StartCreate, StartAbandon,
             StartAdmit, StartSpawn, StartSpawnFails, StartResume, StartRefuse, StartCleanup,
             StartFinish
        <5>2. ASSUME NEW c \in Callers, SaveEnds(c)
              PROVE  pc[s] \in {"admitted", "save", "ready"}
          <6>1. c \in Starts => pc[c] \in {"save", "resave"}
            BY <5>2 DEF SaveEnds, SaverInv
          <6>2. PICK ok \in BOOLEAN : SaveReturns(c, ok)
            BY <5>2 DEF SaveEnds
          <6> QED
            BY <1>1, <4>1, <6>1, <6>2 DEF SaveReturns
        <5> QED
          BY <1>2, <4>1, <5>1, <5>2, PhaseFrame
      <4> QED
        BY <3>4, <4>2 DEF EntryInv
    <3> QED
      BY <1>2, <3>1, <3>2, <3>3, <3>4, ProcStep
  <2>2. s \notin Evictable
    <3>1. job[s].proc \notin {"none", "dead"}
      <4>1. ~StartCreate(s)
        <5>1. ASSUME StartCreate(s) PROVE FALSE
          BY <2>1, <5>1 DEF StartCreate, FreshInv, Early
        <5> QED
          BY <5>1
      <4> QED
        BY <1>2, <4>1, ProcStep
    <3> QED
      BY <3>1 DEF DeadInv, Evictable, Native
  <2> QED
    BY <1>2, <2>1, <2>2, RegistryFrame DEF StartReserve, StartAbandon, StartAdmit, poolVars
<1> QED
  BY <1>3, <1>4

\* Lists of trees to terminate belong to closed connections.
LEMMA TodoStep ==
    ASSUME TypeOK, TodoInv, [Next]_vars
    PROVE  TodoInv'
BY OwnerFrame DEF TypeOK, ManagerTypes, TodoInv, RegisterConnection, CloseConnection,
   CloseTerminate, ShutdownBegin, HostRestart, connVars

\* What is left to do for a tree that somebody must still terminate.
Cared(s) ==
    \/ IF s \in Persistent THEN ~closed ELSE ConnOpen(Owner[s])
    \/ job[s].killed
    \/ s \in todo[Owner[s]] \cup downTodo \cup failures

\* A caller that takes an entry off its list has issued the termination, found the tree
\* dead or reported the failure.
LEMMA TerminateCares ==
    ASSUME TypeOK, DeadInv, NEW s \in Starts, NEW why \in {"asked"}, Alive(s)
    PROVE  Terminate(s, why) => job'[s].killed
<1>1. ~Settled(s)
  BY DEF DeadInv, Settled, Alive
<1> QED
  BY <1>1 DEF Terminate, TypeOK, StartTypes, Tree

\* Each step leaves every running tree with an owner or with somebody who ends it.
LEMMA OrphanStep ==
    ASSUME TypeOK, FreshInv, DeadInv, EntryInv, TodoInv, NoOrphanTree, [Next]_vars
    PROVE  NoOrphanTree'
<1> SUFFICES ASSUME NEW s \in Starts, Alive(s)'
             PROVE  Cared(s)'
  BY DEF NoOrphanTree, Cared
<1>1. /\ conns \in [Conns -> {"unknown", "open", "closed"}]
      /\ todo \in [Conns -> SUBSET Starts]
      /\ job \in [Starts -> Tree] /\ pc \in [Starts -> Phases]
      /\ Owner[s] \in Conns
  BY ExecutionAssumption DEF TypeOK, ManagerTypes, StartTypes, ExecutionAssumption
<1>2. ~HostRestart
  BY DEF HostRestart, Alive, NoTree
<1>3. CASE StartResume(s) /\ job[s].proc = "suspended"
  <2>1. (s \in Persistent \/ ConnOpen(Owner[s])) /\ ~closed
    BY <1>3 DEF StartResume, MayResume
  <2>2. UNCHANGED <<conns, closed>>
    BY <1>3 DEF StartResume, connVars, downVars
  <2> QED
    BY <2>1, <2>2 DEF Cared, ConnOpen
<1>4. CASE Alive(s)
  <2>1. Cared(s) /\ s \in entries /\ Native(s) /\ pc[s] # "reserved"
    BY <1>4 DEF NoOrphanTree, Cared, EntryInv, DeadInv, FreshInv, Early, Alive, Native
  <2>2. job[s].killed => job'[s].killed
    <3>1. ~StartCreate(s)
      BY <2>1 DEF StartCreate
    <3> QED
      BY <1>2, <3>1, KilledStep
  <2>3. ASSUME NEW c \in Conns, RegisterConnection(c)
        PROVE  Cared(s)'
    BY <1>1, <2>1, <2>2, <2>3 DEF RegisterConnection, Cared, ConnOpen, downVars
  <2>4. ASSUME NEW c \in Conns, CloseConnection(c)
        PROVE  Cared(s)'
    <3>1. UNCHANGED <<closed, downTodo, failures>>
      BY <2>4 DEF CloseConnection, downVars
    <3>2. CASE s \in Persistent \/ Owner[s] # c
      <4>1. s \in Persistent \/ conns'[Owner[s]] = conns[Owner[s]]
        BY <1>1, <2>4, <3>2 DEF CloseConnection
      <4>2. todo[Owner[s]] \subseteq todo'[Owner[s]]
        BY <1>1, <2>4, <3>2 DEF CloseConnection, TodoInv
      <4> QED
        BY <2>1, <2>2, <3>1, <4>1, <4>2 DEF Cared, ConnOpen
    <3>3. CASE s \notin Persistent /\ Owner[s] = c
      <4>1. s \in todo'[Owner[s]]
        BY <1>1, <2>1, <2>4, <3>3 DEF CloseConnection
      <4> QED
        BY <4>1 DEF Cared
    <3> QED
      BY <3>2, <3>3
  <2>5. ASSUME NEW c \in Conns, NEW t \in Starts, CloseTerminate(c, t)
        PROVE  Cared(s)'
    <3>1. /\ UNCHANGED <<conns, closed, downTodo>>
          /\ todo' = [todo EXCEPT ![c] = @ \ {t}]
          /\ failures \subseteq failures'
      BY <2>5 DEF CloseTerminate, downVars
    <3>2. s = t => job'[s].killed \/ s \in failures'
      BY <1>4, <2>5, TerminateCares DEF CloseTerminate
    <3>3. s # t /\ s \in todo[Owner[s]] => s \in todo'[Owner[s]]
      BY <1>1, <3>1
    <3> QED
      BY <2>1, <2>2, <3>1, <3>2, <3>3 DEF Cared, ConnOpen
  <2>6. CASE ShutdownBegin
    <3>1. s \in downTodo'
      BY <2>1, <2>6 DEF ShutdownBegin
    <3> QED
      BY <3>1 DEF Cared
  <2>7. ASSUME NEW t \in Starts, ShutdownTerminate(t)
        PROVE  Cared(s)'
    <3>1. /\ UNCHANGED <<conns, closed, todo>>
          /\ downTodo' = downTodo \ {t}
          /\ failures \subseteq failures'
      BY <2>7 DEF ShutdownTerminate, connVars
    <3>2. s = t => job'[s].killed \/ s \in failures'
      BY <1>4, <2>7, TerminateCares DEF ShutdownTerminate
    <3> QED
      BY <2>1, <2>2, <3>1, <3>2 DEF Cared, ConnOpen
  <2>8. CASE UNCHANGED <<conns, todo, closed, downTodo>>
    <3>1. failures \subseteq failures'
      BY <1>2, HistoryFrame DEF CloseTerminate, Cancel, StartResume, StartCleanup,
         StartFinish, ShutdownTerminate
    <3> QED
      BY <2>1, <2>2, <2>8, <3>1 DEF Cared, ConnOpen
  <2>9. \/ UNCHANGED <<conns, todo, closed, downTodo>>
        \/ \E c \in Conns : RegisterConnection(c) \/ CloseConnection(c)
        \/ \E c \in Conns, t \in Starts : CloseTerminate(c, t)
        \/ \E t \in Starts : ShutdownTerminate(t)
        \/ ShutdownBegin
    <3>1. \/ UNCHANGED <<closed, downTodo>>
          \/ \E t \in Starts : ShutdownTerminate(t)
          \/ ShutdownBegin
      BY <1>2, ShutdownFrame DEF ShutdownDrained, SaveEnds, RequestHostShutdown, ShutdownSave,
         downVars
    <3>2. \/ UNCHANGED <<conns, todo>>
          \/ \E c \in Conns : RegisterConnection(c) \/ CloseConnection(c)
          \/ \E c \in Conns, t \in Starts : CloseTerminate(c, t)
          \/ ShutdownBegin
      BY <1>2, OwnerFrame DEF connVars
    <3> QED
      BY <3>1, <3>2
  <2> QED
    BY <2>3, <2>4, <2>5, <2>6, <2>7, <2>8, <2>9
<1>5. Alive(s) \/ (StartResume(s) /\ job[s].proc = "suspended")
  BY <1>2, ProcStep DEF Alive
<1> QED
  BY <1>3, <1>4, <1>5

----------------------------------------------------------------------------
(* Checkpoints.                                                            *)

\* checkpoint_lock: one snapshot in flight at a time.
OneSaverInv ==
    \A c, d \in Callers : saves[c] # NoSave /\ saves[d] # NoSave => c = d

\* A persistent start that was admitted in this host, or ever resumed, is in the registry
\* or counted as evicted.
KnownInv ==
    \A s \in Persistent :
        s \in ran \/ pc[s] \in {"admitted", "save", "ready"} => s \in entries \cup evicted

\* One that may be resumed, or ever was, is on disk and in the snapshot that will replace
\* the file. The snapshot a start writes before its resume contains it.
SavedInv ==
    \A s \in Persistent :
        /\ s \in ran \/ pc[s] = "ready" =>
             /\ s \in Names(disk)
             /\ \A c \in Callers : saves[c] # NoSave => s \in Names(saves[c])
        /\ pc[s] = "save" /\ saves[s] # NoSave => s \in Names(saves[s])

\* Two callers never hold the checkpoint lock.
LEMMA OneSaverStep ==
    ASSUME TypeOK, OneSaverInv, [Next]_vars
    PROVE  OneSaverInv'
<1>1. DOMAIN saves = Callers
  BY DEF TypeOK, SnapshotTypes
<1> QED
  BY ZenonT(60), <1>1, SnapshotFrame DEF OneSaverInv, SaveSnapshot, CheckpointLockFree, SaveEnds,
     HostRestart

\* How a persistent start gets to the phases that matter, and into ran.
LEMMA PersistentStep ==
    ASSUME TypeOK, SaverInv, [Next]_vars, NEW s \in Persistent
    PROVE  /\ pc'[s] = "admitted" => pc[s] = "admitted" \/ StartAdmit(s)
           /\ pc'[s] = "save" => pc[s] \in {"admitted", "save"}
           /\ pc'[s] = "save" /\ pc[s] = "admitted" => saves' = saves
           /\ pc'[s] = "ready" =>
                \/ pc[s] = "ready"
                \/ pc[s] = "save" /\ SaveEnds(s) /\ disk' = saves[s]
           /\ s \in ran' => s \in ran \/ pc[s] = "ready"
<1>1. /\ pc \in [Starts -> Phases] /\ s \in Starts /\ Starts \subseteq Callers
      /\ \A c \in Callers : c \in Starts /\ saves[c] # NoSave => pc[c] \in {"save", "resave"}
  BY ExecutionAssumption DEF TypeOK, StartTypes, Callers, ExecutionAssumption, SaverInv
<1>2. ASSUME NEW t \in Starts, StartStep(t)
      PROVE  /\ pc'[s] = "admitted" => pc[s] = "admitted" \/ StartAdmit(s)
             /\ pc'[s] = "save" => pc[s] \in {"admitted", "save"}
             /\ pc'[s] = "ready" => pc[s] = "ready"
  <2>1. s # t => pc'[s] = pc[s]
    BY <1>1, <1>2 DEF StartStep, StartReserve, StartCreate, StartAbandon, StartAdmit,
       StartSpawn, StartSpawnFails, StartResume, StartRefuse, StartCleanup, StartFinish
  <2>2. s = t => /\ pc'[s] = "admitted" => StartAdmit(s)
                 /\ pc'[s] = "save" => pc[s] = "admitted"
                 /\ pc'[s] # "ready"
    BY <1>1, <1>2 DEF StartStep, StartReserve, StartCreate, StartAbandon, StartSpawn,
       StartSpawnFails, StartResume, StartRefuse, StartCleanup, StartFinish, StartAdmit
  <2> QED
    BY <2>1, <2>2
<1>3. ASSUME NEW c \in Callers, SaveEnds(c)
      PROVE  /\ pc'[s] \in {"admitted", "save"} => pc[s] = pc'[s]
             /\ pc'[s] = "ready" =>
                  \/ pc[s] = "ready"
                  \/ pc[s] = "save" /\ SaveEnds(s) /\ disk' = saves[s]
  <2>1. CASE c = s
    BY <1>1, <1>3, <2>1 DEF SaveEnds, SaveReturns
  <2>2. CASE c # s
    BY <1>1, <1>3, <2>2 DEF SaveEnds, SaveReturns
  <2> QED
    BY <2>1, <2>2
<1>4. HostRestart => pc'[s] \in {"idle", "gone"}
  BY <1>1 DEF HostRestart
<1>5. pc'[s] = "save" /\ pc[s] = "admitted" => saves' = saves
  BY <1>1, <1>3, <1>4, PhaseFrame DEF StartStep, StartReserve, StartCreate, StartAbandon,
     StartAdmit, StartSpawn, StartSpawnFails, StartResume, StartRefuse, StartCleanup,
     StartFinish, saveVars
<1>6. s \in ran' => s \in ran \/ pc[s] = "ready"
  BY HistoryFrame DEF CloseTerminate, Cancel, StartResume, StartCleanup, StartFinish,
     ShutdownTerminate, HostRestart
<1> QED
  BY <1>2, <1>3, <1>4, <1>5, <1>6, PhaseFrame

\* A persistent process that may run or ran is an entry, or was evicted as dead.
LEMMA KnownStep ==
    ASSUME TypeOK, SaverInv, SavedInv, KnownInv, [Next]_vars
    PROVE  KnownInv'
<1> SUFFICES ASSUME NEW s \in Persistent,
                    s \in ran' \/ pc'[s] \in {"admitted", "save", "ready"}
             PROVE  s \in entries' \cup evicted'
  BY DEF KnownInv
<1>1. CASE StartAdmit(s)
  BY <1>1 DEF StartAdmit
<1>2. CASE HostRestart
  <2>1. s \in ran' /\ ran' = ran
    BY <1>2, ExecutionAssumption DEF HostRestart, ExecutionAssumption
  <2> QED
    BY <1>2, <2>1 DEF HostRestart, SavedInv, Names
<1>3. CASE ~StartAdmit(s) /\ ~HostRestart
  <2>1. s \in entries \cup evicted
    BY <1>3, PersistentStep DEF KnownInv
  <2> QED
    BY <1>3, <2>1, RegistryFrame DEF StartReserve, StartAbandon, StartAdmit, poolVars
<1> QED
  BY <1>1, <1>2, <1>3

\* It is on disk and in every snapshot that may still replace the file.
LEMMA SavedStep ==
    ASSUME TypeOK, SaverInv, OneSaverInv, KnownInv, SavedInv, [Next]_vars
    PROVE  SavedInv'
<1>1. DOMAIN saves = Callers /\ Persistent \subseteq Starts /\ Starts \subseteq Callers
  BY ExecutionAssumption DEF TypeOK, SnapshotTypes, Callers, ExecutionAssumption
<1>2. ASSUME NEW s \in Persistent, s \in ran' \/ pc'[s] = "ready"
      PROVE  /\ s \in Names(disk')
             /\ \A c \in Callers : saves'[c] # NoSave => s \in Names(saves'[c])
  <2>1. CASE s \in ran \/ pc[s] = "ready"
    <3>1. /\ s \in Names(disk) /\ s \in entries \cup evicted
          /\ \A c \in Callers : saves[c] # NoSave => s \in Names(saves[c])
      BY <2>1 DEF SavedInv, KnownInv
    <3>2. ASSUME NEW c \in Callers, SaveSnapshot(c)
          PROVE  /\ s \in Names(disk')
                 /\ \A d \in Callers : saves'[d] # NoSave => s \in Names(saves'[d])
      <4> DEFINE x == [recs |-> [t \in entries \cap Persistent |-> SavedEntry(t)],
                       evicted |-> evicted]
      <4>1. s \in Names(x)
        BY <3>1 DEF Names
      <4>2. saves' = [saves EXCEPT ![c] = x] /\ disk' = disk
        BY <3>2 DEF SaveSnapshot
      <4> HIDE DEF x
      <4> QED
        BY <1>1, <3>1, <4>1, <4>2
    <3>3. ASSUME NEW c \in Callers, SaveEnds(c)
          PROVE  /\ s \in Names(disk')
                 /\ \A d \in Callers : saves'[d] # NoSave => s \in Names(saves'[d])
      BY <1>1, <3>1, <3>3 DEF SaveEnds
    <3>4. CASE HostRestart
      BY <1>1, <3>1, <3>4 DEF HostRestart
    <3> QED
      BY <3>1, <3>2, <3>3, <3>4, SnapshotFrame
  <2>2. CASE pc[s] = "save" /\ SaveEnds(s) /\ disk' = saves[s]
    <3>1. saves[s] # NoSave /\ saves' = [saves EXCEPT ![s] = NoSave]
      BY <2>2 DEF SaveEnds
    <3>2. \A c \in Callers : saves'[c] = NoSave
      BY <1>1, <3>1 DEF OneSaverInv
    <3> QED
      BY <2>2, <3>1, <3>2 DEF SavedInv
  <2> QED
    BY <1>2, <2>1, <2>2, PersistentStep
<1>3. ASSUME NEW s \in Persistent, pc'[s] = "save", saves'[s] # NoSave
      PROVE  s \in Names(saves'[s])
  <2>1. CASE pc[s] = "admitted"
    <3>1. saves' = saves
      BY <1>3, <2>1, PersistentStep
    <3> QED
      BY <1>1, <1>3, <2>1, <3>1 DEF SaverInv
  <2>2. CASE pc[s] = "save"
    <3>1. s \in entries \cup evicted
      BY <2>2 DEF KnownInv
    <3>2. ASSUME NEW c \in Callers, SaveSnapshot(c)
          PROVE  s \in Names(saves'[s])
      <4> DEFINE x == [recs |-> [t \in entries \cap Persistent |-> SavedEntry(t)],
                       evicted |-> evicted]
      <4>1. s \in Names(x)
        BY <3>1 DEF Names
      <4>2. saves' = [saves EXCEPT ![c] = x]
        BY <3>2 DEF SaveSnapshot
      <4> HIDE DEF x
      <4> QED
        BY <1>1, <1>3, <2>2, <4>1, <4>2 DEF SavedInv
    <3>3. ASSUME NEW c \in Callers, SaveEnds(c)
          PROVE  s \in Names(saves'[s])
      BY <1>1, <1>3, <2>2, <3>3 DEF SaveEnds, SavedInv
    <3>4. CASE HostRestart
      BY <1>1, <1>3, <3>4 DEF HostRestart
    <3> QED
      BY <1>3, <2>2, <3>2, <3>3, <3>4, SnapshotFrame DEF SavedInv
  <2> QED
    BY <1>3, <2>1, <2>2, PersistentStep
<1> QED
  BY <1>2, <1>3 DEF SavedInv

----------------------------------------------------------------------------
(* The theorems.                                                           *)

Inv ==
    /\ TypeOK /\ SaverInv /\ FreshInv /\ DeadInv /\ EntryInv /\ TodoInv
    /\ OneSaverInv /\ KnownInv /\ SavedInv
    /\ EvictedTreesAreDead /\ NoOrphanTree

\* The initial state satisfies the inductive invariant.
LEMMA InitInv == Init => Inv
<1> SUFFICES ASSUME Init PROVE Inv
  OBVIOUS
<1>1. TypeOK
  BY InitTypeOK
<1>2. SaverInv
  BY DEF Init, SaverInv, Callers
<1>3. FreshInv
  BY DEF Init, FreshInv, Early, Names, NoRecord, NoRecords
<1>4. OneSaverInv /\ KnownInv /\ SavedInv
  BY ExecutionAssumption DEF Init, OneSaverInv, KnownInv, SavedInv, Callers,
     ExecutionAssumption
<1>5. DeadInv /\ EntryInv /\ TodoInv /\ EvictedTreesAreDead /\ NoOrphanTree
  BY DEF Init, DeadInv, EntryInv, TodoInv, EvictedTreesAreDead, NoOrphanTree, Alive, NoTree,
     NoRecord
<1> QED
  BY <1>1, <1>2, <1>3, <1>4, <1>5 DEF Inv

\* Every step preserves it.
LEMMA InvStep == Inv /\ [Next]_vars => Inv'
<1> SUFFICES ASSUME Inv, [Next]_vars PROVE Inv'
  OBVIOUS
<1>1. TypeOK'
  BY ManagerTypesStep, StartTypesStep, SnapshotTypesStep DEF Inv, TypeOK
<1>2. SaverInv' /\ FreshInv' /\ DeadInv' /\ EntryInv' /\ TodoInv' /\ NoOrphanTree'
  BY SaverStep, FreshStep, DeadStep, EntryStep, TodoStep, OrphanStep DEF Inv
<1>3. OneSaverInv' /\ KnownInv' /\ SavedInv'
  BY OneSaverStep, KnownStep, SavedStep DEF Inv
<1>4. EvictedTreesAreDead'
  BY <1>1, <1>2 DEF TypeOK, ManagerTypes, DeadInv, EvictedTreesAreDead, Alive
<1> QED
  BY <1>1, <1>2, <1>3, <1>4 DEF Inv

\* No process tree runs that nobody will terminate: whatever the point of startup at
\* which a connection closes or the manager shuts down.
THEOREM NoOrphans == Spec => []NoOrphanTree
<1>1. Inv => NoOrphanTree
  BY DEF Inv
<1> QED
  BY <1>1, InitInv, InvStep, PTL DEF Spec

\* A record is evicted only after its whole tree has been seen dead.
THEOREM EvictionsAreSafe == Spec => []EvictedTreesAreDead
<1>1. Inv => EvictedTreesAreDead
  BY DEF Inv
<1> QED
  BY <1>1, InitInv, InvStep, PTL DEF Spec

\* A persistent process never executes an instruction before its record has reached the
\* disk, and no later checkpoint loses the record: whenever the host is lost, the next one
\* knows of the process.
THEOREM RanIsAccounted == Spec => []RanIsAccountedOnDisk
<1>1. Inv => RanIsAccountedOnDisk
  BY DEF Inv, TypeOK, ManagerTypes, SavedInv, RanIsAccountedOnDisk, Names
<1> QED
  BY <1>1, InitInv, InvStep, PTL DEF Spec

----------------------------------------------------------------------------
(* What a record and a checkpoint may still say: the four remaining        *)
(* properties need that a status, once final, stays.                       *)

\* A final status was written by a supervisor that has ended, or read from the file.
StatusInv ==
    \A s \in Starts :
        /\ pc[s] = "admitted" => sup[s] = "none"
        /\ pc[s] = "gone" => sup[s] = "none"
        /\ Finished(s) => sup[s] = "ended" \/ pc[s] = "gone"
        /\ pc[s] = "gone" /\ s \in entries => Finished(s) /\ ~rec[s].current

\* A record that is final and current was written after the tree was seen dead.
SettledInv ==
    \A s \in entries : Finished(s) /\ rec[s].current => rec[s].seen = "dead"

\* The checkpoint that would be written now.
Registry == [recs |-> [s \in entries \cap Persistent |-> SavedEntry(s)], evicted |-> evicted]

\* What the older one accounts for or reports as ended, the newer one does too.
Follows(older, newer) ==
    /\ older.evicted \subseteq newer.evicted
    /\ \A s \in DOMAIN older.recs :
          \/ s \in newer.evicted
          \/ /\ s \in DOMAIN newer.recs
             /\ older.recs[s].status \in Final => newer.recs[s].status = older.recs[s].status

FollowInv ==
    /\ Follows(disk, Registry)
    /\ \A c \in Callers : saves[c] # NoSave =>
          Follows(disk, saves[c]) /\ Follows(saves[c], Registry)

\* Shutdown has closed the manager, and what it no longer waits for is dead and reported.
DownInv ==
    /\ down # "up" => closed
    /\ down # "up" => \A s \in entries :
          Native(s) /\ s \notin stopList => job[s].proc = "dead" /\ Finished(s)
    /\ saves["shutdown"] # NoSave => down = "save"

AllFinal(snapshot) == \A s \in DOMAIN snapshot.recs : snapshot.recs[s].status \in Final

\* The checkpoint of a shutdown that has drained reports every record as ended, and so do
\* those that start later.
LastSaveInv ==
    /\ down = "save" /\ stopList = {} /\ saves["shutdown"] # NoSave => AllFinal(saves["shutdown"])
    /\ down = "ok" => stopList = {}
    /\ down = "ok" /\ Resident => /\ AllFinal(disk)
                                  /\ \A c \in Callers : saves[c] # NoSave => AllFinal(saves[c])

Fits(S) == Cardinality(S) <= MaxRecords /\ Weight(S) <= MaxBudget

\* A checkpoint fits into the limits of the host that will restore it.
FitInv ==
    /\ Fits(DOMAIN disk.recs)
    /\ \A c \in Callers : saves[c] # NoSave => Fits(DOMAIN saves[c].recs)

\* How a status changes: by admission, resume or supervisor, or with the host.
LEMMA StatusStep ==
    ASSUME TypeOK, [Next]_vars, NEW s \in Starts
    PROVE  \/ rec'[s].status = rec[s].status /\ rec'[s].current = rec[s].current
           \/ StartAdmit(s) /\ rec'[s].status = "starting"
           \/ StartResume(s) /\ rec[s].status = "starting" /\ rec'[s].status = "running"
           \/ SuperviseFinish(s) /\ rec'[s].status = LastStatus(s) /\ rec'[s].seen = "dead"
           \/ SuperviseFails(s) /\ rec'[s].status = "failed" /\ ~rec'[s].current
           \/ SuperviseObserve(s) /\ rec'[s].status \in {rec[s].status, "root_exited"}
           \/ HostRestart
<1>1. job \in [Starts -> Tree] /\ rec \in [Starts -> Record]
  BY DEF TypeOK, StartTypes
<1> DEFINE Same == rec'[s].status = rec[s].status /\ rec'[s].current = rec[s].current
<1>2. ASSUME NEW c \in Conns, NEW t \in Starts, CloseTerminate(c, t) \/ Cancel(c, t)
      PROVE  Same
  BY <1>1, <1>2 DEF CloseTerminate, Cancel, Terminate, TerminateFails, Record
<1>3. ASSUME NEW t \in Starts, StartAdmit(t)
      PROVE  Same \/ (StartAdmit(s) /\ rec'[s].status = "starting")
  BY <1>1, <1>3 DEF StartAdmit, NoRecord
<1>4. ASSUME NEW t \in Starts, StartResume(t)
      PROVE  Same \/ /\ StartResume(s)
                     /\ rec[s].status = "starting" /\ rec'[s].status = "running"
  BY <1>1, <1>4 DEF StartResume, MayResume, Record
<1>5. ASSUME NEW t \in Starts, StartCleanup(t)
      PROVE  Same
  <2>1. \/ rec' = [rec EXCEPT ![t] = [@ EXCEPT !.error = TRUE, !.reason =
                    IF rec[t].reason = "none" THEN "asked" ELSE rec[t].reason]]
        \/ rec' = [rec EXCEPT ![t].error = TRUE]
    BY <1>5 DEF StartCleanup
  <2> DEFINE r == [rec[t] EXCEPT !.error = TRUE, !.reason =
                     IF rec[t].reason = "none" THEN "asked" ELSE rec[t].reason]
             e == [rec[t] EXCEPT !.error = TRUE]
  <2>2. /\ r.status = rec[t].status /\ r.current = rec[t].current
        /\ e.status = rec[t].status /\ e.current = rec[t].current
    BY <1>1 DEF Record
  <2>3. rec' = [rec EXCEPT ![t] = r] \/ rec' = [rec EXCEPT ![t] = e]
    BY <2>1
  <2> HIDE DEF r, e
  <2> QED
    BY <1>1, <2>2, <2>3
<1>6. ASSUME NEW t \in Starts, StartFinish(t) \/ SuperviseDeadline(t) \/ ShutdownTerminate(t)
      PROVE  Same
  BY <1>1, <1>6 DEF StartFinish, SuperviseDeadline, ShutdownTerminate, Terminate,
     TerminateFails, Record
<1>7. ASSUME NEW t \in Starts, ReaderEnds(t) \/ WriterEnds(t) \/ SuperviseClosePty(t)
      PROVE  Same
  BY <1>1, <1>7 DEF ReaderEnds, WriterEnds, SuperviseClosePty, Record
<1>8. ASSUME NEW t \in Starts, SuperviseFinish(t)
      PROVE  \/ Same
             \/ /\ SuperviseFinish(s)
                /\ rec'[s].status = LastStatus(s) /\ rec'[s].seen = "dead"
  BY <1>1, <1>8 DEF SuperviseFinish, Record
<1>9. ASSUME NEW t \in Starts, SuperviseObserve(t)
      PROVE  Same \/ (SuperviseObserve(s) /\ rec'[s].status \in {rec[s].status, "root_exited"})
  BY <1>1, <1>9 DEF SuperviseObserve, Record
<1>10. ASSUME NEW t \in Starts, SuperviseFails(t)
       PROVE  Same \/ (SuperviseFails(s) /\ rec'[s].status = "failed" /\ ~rec'[s].current)
  <2> DEFINE r == [rec[t] EXCEPT !.error = TRUE, !.status = "failed", !.current = FALSE]
  <2>1. rec' = [rec EXCEPT ![t] = r]
    BY <1>10 DEF SuperviseFails
  <2>2. r.status = "failed" /\ ~r.current
    BY <1>1 DEF Record
  <2> HIDE DEF r
  <2> QED
    BY <1>1, <1>10, <2>1, <2>2
<1> QED
  BY <1>2, <1>3, <1>4, <1>5, <1>6, <1>7, <1>8, <1>9, <1>10, RecFrame DEF SuperviseStep

\* How a supervisor comes and goes.
LEMMA SupervisionStep ==
    ASSUME TypeOK, [Next]_vars, NEW s \in Starts
    PROVE  \/ sup'[s] = sup[s]
           \/ pc[s] = "admitted" /\ pc'[s] # "admitted" /\ pc'[s] # "gone"
           \/ pc[s] = "failing" /\ sup[s] = "none"
           \/ sup[s] \in {"live", "late"} /\ sup'[s] # "none"
           \/ HostRestart /\ sup'[s] = "none"
<1>1. /\ sup \in [Starts -> {"none", "live", "late", "ended"}] /\ pc \in [Starts -> Phases]
  BY DEF TypeOK, StartTypes
<1> QED
  BY ZenonT(60), <1>1, SupervisorFrame DEF StartSpawn, StartSpawnFails, StartCleanup, SuperviseFinish,
     SuperviseObserve, SuperviseDeadline, SuperviseFails, HostRestart

\* Which calls a step can put into the phases that matter here.
LEMMA GoneStep ==
    ASSUME TypeOK, SaverInv, [Next]_vars, NEW s \in Starts
    PROVE  /\ pc'[s] = "gone" => pc[s] = "gone" \/ HostRestart
           /\ pc[s] = "gone" => pc'[s] = "gone"
           /\ pc'[s] = "admitted" => pc[s] = "admitted" \/ (StartAdmit(s) /\ pc[s] = "created")
<1>1. /\ pc \in [Starts -> Phases] /\ Starts \subseteq Callers
      /\ \A c \in Callers : c \in Starts /\ saves[c] # NoSave => pc[c] \in {"save", "resave"}
  BY DEF TypeOK, StartTypes, Callers, SaverInv
<1>2. ASSUME NEW t \in Starts, StartStep(t)
      PROVE  /\ pc'[s] = "gone" => pc[s] = "gone"
             /\ pc[s] = "gone" => pc'[s] = "gone"
             /\ pc'[s] = "admitted" => pc[s] = "admitted" \/ (StartAdmit(s) /\ pc[s] = "created")
  BY <1>1, <1>2 DEF StartStep, StartReserve, StartCreate, StartAbandon, StartAdmit,
     StartSpawn, StartSpawnFails, StartResume, StartRefuse, StartCleanup, StartFinish
<1>3. ASSUME NEW c \in Callers, SaveEnds(c)
      PROVE  /\ pc'[s] = "gone" => pc[s] = "gone"
             /\ pc[s] = "gone" => pc'[s] = "gone"
             /\ pc'[s] = "admitted" => pc[s] = "admitted"
  BY <1>1, <1>3 DEF SaveEnds, SaveReturns
<1>4. ASSUME HostRestart
      PROVE  /\ pc[s] = "gone" => pc'[s] = "gone"
             /\ pc'[s] \in {"idle", "gone"}
  BY <1>1, <1>4 DEF HostRestart
<1> QED
  BY <1>2, <1>3, <1>4, PhaseFrame

\* Nothing changes the status of a record once it is final.
LEMMA FinalStays ==
    ASSUME TypeOK, SaverInv, FreshInv, StatusInv, [Next]_vars, NEW s \in entries, Finished(s),
           ~HostRestart
    PROVE  rec'[s].status = rec[s].status /\ rec'[s].current = rec[s].current
<1>1. s \in Starts /\ pc[s] \notin Early
  BY DEF TypeOK, ManagerTypes, FreshInv
<1>2. sup[s] \notin {"live", "late"}
  BY <1>1 DEF StatusInv
<1>3. rec[s].status # "starting"
  BY DEF Finished, Final
<1> QED
  BY <1>1, <1>2, <1>3, StatusStep DEF StartAdmit, SuperviseFinish, SuperviseFails,
     SuperviseObserve, Early

LEMMA StatusInvStep ==
    ASSUME TypeOK, SaverInv, FreshInv, StatusInv, [Next]_vars
    PROVE  StatusInv'
<1> SUFFICES ASSUME NEW s \in Starts
             PROVE  /\ pc'[s] = "admitted" => sup'[s] = "none"
                    /\ pc'[s] = "gone" => sup'[s] = "none"
                    /\ Finished(s)' => sup'[s] = "ended" \/ pc'[s] = "gone"
                    /\ pc'[s] = "gone" /\ s \in entries' => Finished(s)' /\ ~rec'[s].current
  BY DEF StatusInv
<1>1. /\ pc[s] = "admitted" => sup[s] = "none"
      /\ pc[s] = "gone" => sup[s] = "none"
      /\ Finished(s) => sup[s] = "ended" \/ pc[s] = "gone"
      /\ pc[s] = "gone" /\ s \in entries => Finished(s) /\ ~rec[s].current
      /\ pc[s] \in Early => sup[s] = "none" /\ s \notin Names(disk)
  BY DEF StatusInv, FreshInv
<1>2. CASE HostRestart
  <2>1. sup'[s] = "none" /\ pc'[s] = IF pc[s] = "idle" THEN "idle" ELSE "gone"
    BY <1>2 DEF HostRestart
  <2>2. CASE s \in DOMAIN disk.recs
    <3>1. rec'[s].status \in Final /\ ~rec'[s].current
      BY <1>2, <2>2 DEF HostRestart, Restored, NoRecord, Final
    <3>2. pc'[s] = "gone"
      BY <1>1, <2>1, <2>2 DEF Early, Names
    <3> QED
      BY <2>1, <3>1, <3>2 DEF Finished
  <2>3. CASE s \notin DOMAIN disk.recs
    <3>1. rec'[s].status = "none" /\ s \notin entries'
      BY <1>2, <2>3 DEF HostRestart, NoRecord
    <3> QED
      BY <2>1, <3>1 DEF Finished, Final
  <2> QED
    BY <2>2, <2>3
<1>3. CASE ~HostRestart
  <2>1. pc'[s] = "admitted" => sup'[s] = "none"
    <3>1. pc'[s] = "admitted" => pc[s] \in {"admitted", "created"} /\ sup[s] = "none"
      BY <1>1, GoneStep DEF Early
    <3> QED
      BY <1>3, <3>1, SupervisionStep
  <2>2. pc'[s] = "gone" <=> pc[s] = "gone"
    BY <1>3, GoneStep
  <2>3. pc'[s] = "gone" => sup'[s] = "none"
    BY <1>1, <1>3, <2>2, SupervisionStep
  <2>4. Finished(s)' => sup'[s] = "ended" \/ pc'[s] = "gone"
    <3>1. CASE Finished(s)
      BY <1>1, <1>3, <2>2, <3>1, SupervisionStep
    <3>2. CASE ~Finished(s)
      <4>1. Finished(s)' => SuperviseFinish(s) \/ SuperviseFails(s)
        BY <1>3, <3>2, StatusStep DEF Finished, Final
      <4>2. SuperviseFinish(s) \/ SuperviseFails(s) => sup'[s] = "ended"
        BY DEF SuperviseFinish, SuperviseFails, TypeOK, StartTypes
      <4> QED
        BY <4>1, <4>2
    <3> QED
      BY <3>1, <3>2
  <2>5. pc'[s] = "gone" /\ s \in entries' => Finished(s)' /\ ~rec'[s].current
    <3>1. pc[s] = "gone" /\ s \in entries' => s \in entries
      BY <1>3, RegistryFrame DEF StartReserve, StartAbandon, StartAdmit, poolVars
    <3> QED
      BY <1>1, <1>3, <2>2, <3>1, FinalStays DEF Finished
  <2> QED
    BY <2>1, <2>3, <2>4, <2>5
<1> QED
  BY <1>2, <1>3

\* What the pipes of a finished entry say stays as it is.
LEMMA PipesStep ==
    ASSUME TypeOK, [Next]_vars, NEW s \in Starts, PipesClosed(s), ~HostRestart,
           pc[s] \notin Early \cup {"admitted"}
    PROVE  PipesClosed(s)'
<1>1. job \in [Starts -> Tree] /\ job[s].out \in {"eof", "error"} /\ job[s].stdin = "done"
  BY DEF TypeOK, StartTypes, PipesClosed
<1>2. ASSUME NEW c \in Conns, NEW t \in Starts, CloseTerminate(c, t) \/ Cancel(c, t)
      PROVE  PipesClosed(s)'
  BY <1>1, <1>2 DEF CloseTerminate, Cancel, Terminate, TerminateFails, Tree, PipesClosed
<1>3. ASSUME NEW t \in Starts, StartCreate(t) \/ StartSpawn(t)
      PROVE  PipesClosed(s)'
  BY <1>1, <1>3 DEF StartCreate, StartSpawn, Early, PipesClosed
<1>4. ASSUME NEW t \in Starts, StartAbandon(t) \/ StartResume(t)
      PROVE  PipesClosed(s)'
  <2>1. CASE StartAbandon(t)
    BY <1>1, <2>1 DEF StartAbandon, Tree, PipesClosed
  <2>2. CASE StartResume(t)
    BY <1>1, <2>2 DEF StartResume, Tree, PipesClosed
  <2> QED
    BY <1>4, <2>1, <2>2
<1>5. ASSUME NEW t \in Starts, StartCleanup(t)
      PROVE  PipesClosed(s)'
  <2>1. PICK k \in {job[t].killed, TRUE} : CloseUnserved(t, k)
    BY <1>1, <1>5 DEF StartCleanup
  <2> QED
    BY <1>1, <2>1 DEF CloseUnserved, Tree, PipesClosed
<1>6. ASSUME NEW t \in Starts, StartFinish(t) \/ SuperviseDeadline(t) \/ ShutdownTerminate(t)
      PROVE  PipesClosed(s)'
  BY <1>1, <1>6 DEF StartFinish, SuperviseDeadline, ShutdownTerminate, Terminate,
     TerminateFails, Tree, PipesClosed
<1>7. ASSUME NEW t \in Starts, SystemStep(t)
      PROVE  PipesClosed(s)'
  BY <1>1, <1>7 DEF SystemStep, TreeExits, TreeKilled, ReaderEnds, WriterEnds, Tree, PipesClosed
<1>8. ASSUME NEW t \in Starts, SuperviseClosePty(t) \/ SuperviseFails(t)
      PROVE  PipesClosed(s)'
  <2>1. PICK k \in BOOLEAN :
           \/ job' = [job EXCEPT ![t].ptyOpen = FALSE]
           \/ job' = [job EXCEPT ![t] = [@ EXCEPT !.killed = k, !.ptyOpen = FALSE]]
    BY <1>1, <1>8 DEF SuperviseClosePty, SuperviseFails, Tree
  <2> DEFINE r == [job[t] EXCEPT !.ptyOpen = FALSE]
             e == [job[t] EXCEPT !.killed = k, !.ptyOpen = FALSE]
  <2>2. /\ r.out = job[t].out /\ r.stdin = job[t].stdin
        /\ e.out = job[t].out /\ e.stdin = job[t].stdin
    BY <1>1 DEF Tree
  <2>3. job' = [job EXCEPT ![t] = r] \/ job' = [job EXCEPT ![t] = e]
    BY <2>1
  <2> HIDE DEF r, e
  <2> QED
    BY <1>1, <2>2, <2>3 DEF PipesClosed
<1> QED
  BY <1>1, <1>2, <1>3, <1>4, <1>5, <1>6, <1>7, <1>8, JobFrame DEF PipesClosed

\* A termination that comes after the tree was seen dead, or after another, changes no reason.
LEMMA ReasonStep ==
    ASSUME TypeOK, [Next]_vars, NEW s \in Starts, Settled(s) \/ rec[s].reason # "none",
           ~HostRestart, ~StartAdmit(s)
    PROVE  rec'[s].reason = rec[s].reason
<1>1. job \in [Starts -> Tree] /\ rec \in [Starts -> Record]
  BY DEF TypeOK, StartTypes
<1>2. ASSUME NEW c \in Conns, NEW t \in Starts, CloseTerminate(c, t) \/ Cancel(c, t)
      PROVE  rec'[s].reason = rec[s].reason
  BY <1>1, <1>2 DEF CloseTerminate, Cancel, Terminate, TerminateFails, Record
<1>3. ASSUME NEW t \in Starts, StartAdmit(t) \/ StartResume(t)
      PROVE  rec'[s].reason = rec[s].reason
  BY <1>1, <1>3 DEF StartAdmit, StartResume, Record
<1>4. ASSUME NEW t \in Starts, StartCleanup(t)
      PROVE  rec'[s].reason = rec[s].reason
  <2>1. CASE s = t
    <3> DEFINE r == [rec[t] EXCEPT !.error = TRUE, !.reason =
                       IF rec[t].reason = "none" THEN "asked" ELSE rec[t].reason]
               e == [rec[t] EXCEPT !.error = TRUE]
    <3>1. \/ ~Settled(t) /\ rec' = [rec EXCEPT ![t] = r]
          \/ rec' = [rec EXCEPT ![t] = e]
      BY <1>4 DEF StartCleanup
    <3>2. e.reason = rec[t].reason /\ (rec[t].reason # "none" => r.reason = rec[t].reason)
      BY <1>1 DEF Record
    <3> HIDE DEF r, e
    <3> QED
      BY <1>1, <2>1, <3>1, <3>2
  <2>2. CASE s # t
    BY <1>1, <1>4, <2>2 DEF StartCleanup
  <2> QED
    BY <2>1, <2>2
<1>5. ASSUME NEW t \in Starts, StartFinish(t) \/ SuperviseDeadline(t) \/ ShutdownTerminate(t)
      PROVE  rec'[s].reason = rec[s].reason
  BY <1>1, <1>5 DEF StartFinish, SuperviseDeadline, ShutdownTerminate, Terminate,
     TerminateFails, Record
<1>6. ASSUME NEW t \in Starts, ReaderEnds(t) \/ WriterEnds(t) \/ SuperviseClosePty(t)
      PROVE  rec'[s].reason = rec[s].reason
  BY <1>1, <1>6 DEF ReaderEnds, WriterEnds, SuperviseClosePty, Record
<1>7. ASSUME NEW t \in Starts, SuperviseFinish(t) \/ SuperviseObserve(t)
      PROVE  rec'[s].reason = rec[s].reason
  <2>1. PICK seen \in {"live", "root_exited", "dead"}, status \in Statuses :
           rec' = [rec EXCEPT ![t] = [@ EXCEPT !.seen = seen, !.status = status]]
    BY <1>1, <1>7 DEF SuperviseFinish, SuperviseObserve, Record, Sampled, LastStatus, Statuses,
       Final
  <2> DEFINE r == [rec[t] EXCEPT !.seen = seen, !.status = status]
  <2>2. r.reason = rec[t].reason /\ rec' = [rec EXCEPT ![t] = r]
    BY <1>1, <2>1 DEF Record
  <2> HIDE DEF r
  <2> QED
    BY <1>1, <2>2
<1>8. ASSUME NEW t \in Starts, SuperviseFails(t)
      PROVE  rec'[s].reason = rec[s].reason
  <2> DEFINE r == [rec[t] EXCEPT !.error = TRUE, !.status = "failed", !.current = FALSE]
  <2>1. rec' = [rec EXCEPT ![t] = r]
    BY <1>8 DEF SuperviseFails
  <2>2. r.reason = rec[t].reason
    BY <1>1 DEF Record
  <2> HIDE DEF r
  <2> QED
    BY <1>1, <2>1, <2>2
<1> QED
  BY <1>2, <1>3, <1>4, <1>5, <1>6, <1>7, <1>8, RecFrame DEF SuperviseStep

\* A record that is final and current: what it says was so when it was written, and stays.
LEMMA TruthStep ==
    ASSUME TypeOK, SaverInv, FreshInv, StatusInv, SettledInv, RecordTellsTruth, [Next]_vars
    PROVE  SettledInv' /\ RecordTellsTruth'
<1> SUFFICES ASSUME NEW s \in entries', Finished(s)', rec'[s].current
             PROVE  /\ rec'[s].seen = "dead"
                    /\ job'[s].proc = "dead"
                    /\ PipesClosed(s)'
                    /\ rec'[s].status = "exited" => rec'[s].reason = "none"
  BY DEF SettledInv, RecordTellsTruth
<1>1. s \in Starts /\ rec \in [Starts -> Record]
  BY ManagerTypesStep DEF TypeOK, ManagerTypes, StartTypes
<1>2. ASSUME HostRestart PROVE FALSE
  BY <1>1, <1>2 DEF HostRestart, Restored, NoRecord
<1>3. ASSUME StartAdmit(s) PROVE FALSE
  BY <1>1, <1>3 DEF StartAdmit, Finished, Final, NoRecord
<1>4. s \in entries
  <2>1. ASSUME NEW t \in Starts, StartReserve(t) \/ StartAbandon(t)
        PROVE  s \in entries
    BY <2>1 DEF StartReserve, StartAbandon
  <2>2. ASSUME NEW t \in Starts, StartAdmit(t)
        PROVE  s \in entries
    BY <1>3, <2>2 DEF StartAdmit
  <2> QED
    BY <1>2, <2>1, <2>2, RegistryFrame DEF poolVars
<1>5. pc[s] \notin Early
  BY <1>1, <1>4 DEF FreshInv
<1>6. CASE Finished(s)
  <2>1. rec'[s].status = rec[s].status /\ rec[s].current
    BY <1>2, <1>4, <1>6, FinalStays
  <2>2. /\ rec[s].seen = "dead" /\ job[s].proc = "dead" /\ PipesClosed(s)
        /\ rec[s].status = "exited" => rec[s].reason = "none"
    BY <1>4, <1>6, <2>1 DEF SettledInv, RecordTellsTruth
  <2>3. sup[s] = "ended" \/ pc[s] = "gone"
    BY <1>1, <1>6 DEF StatusInv
  <2>4. sup[s] \notin {"live", "late"} /\ pc[s] # "admitted"
    BY <1>1, <2>3 DEF StatusInv
  <2>5. job'[s].proc = "dead"
    BY <1>1, <1>2, <1>5, <2>2, ProcStep DEF StartCreate, Early
  <2>6. PipesClosed(s)'
    BY <1>1, <1>2, <1>5, <2>2, <2>4, PipesStep
  <2>7. rec'[s].seen = "dead"
    BY <1>1, <1>2, <1>3, <2>2, <2>4, SeenStep
  <2>8. rec'[s].reason = rec[s].reason
    BY <1>1, <1>2, <1>3, <1>6, <2>2, ReasonStep DEF Settled
  <2> QED
    BY <2>1, <2>2, <2>5, <2>6, <2>7, <2>8
<1>7. CASE ~Finished(s)
  <2>1. SuperviseFinish(s) /\ rec'[s].status = LastStatus(s) /\ rec'[s].seen = "dead"
    BY <1>1, <1>2, <1>3, <1>7, StatusStep DEF Finished, Final
  <2>2. job' = job /\ job[s].proc = "dead" /\ PipesClosed(s)
    BY <2>1 DEF SuperviseFinish
  <2>3. rec'[s].reason = rec[s].reason
    BY <1>1, <2>1 DEF SuperviseFinish, Record
  <2>4. LastStatus(s) = "exited" => rec[s].reason = "none"
    BY <1>1 DEF LastStatus, Record
  <2> QED
    BY <2>1, <2>2, <2>3, <2>4 DEF PipesClosed
<1> QED
  BY <1>6, <1>7

\* Between restarts an entry leaves the registry only by eviction, and comes by admission.
LEMMA EntriesStep ==
    ASSUME [Next]_vars, ~HostRestart
    PROVE  /\ evicted \subseteq evicted'
           /\ entries \subseteq entries' \cup evicted'
           /\ \A s \in entries' : s \in entries \/ StartAdmit(s)
<1>1. ASSUME NEW t \in Starts, StartReserve(t)
      PROVE  /\ evicted \subseteq evicted'
             /\ entries \subseteq entries' \cup evicted'
             /\ entries' \subseteq entries
  BY <1>1 DEF StartReserve
<1>2. ASSUME NEW t \in Starts, StartAbandon(t)
      PROVE  evicted' = evicted /\ entries' = entries
  BY <1>2 DEF StartAbandon
<1>3. ASSUME NEW t \in Starts, StartAdmit(t)
      PROVE  /\ evicted' = evicted /\ entries' = entries \cup {t}
             /\ \A s \in entries' : s \in entries \/ StartAdmit(s)
  BY <1>3 DEF StartAdmit
<1> QED
  BY <1>1, <1>2, <1>3, RegistryFrame DEF poolVars

\* What the registry accounts for and reports as ended stays so.
LEMMA RegistryFollows ==
    ASSUME TypeOK, SaverInv, FreshInv, StatusInv, [Next]_vars, ~HostRestart,
           NEW x, DOMAIN x.recs \subseteq Persistent, Follows(x, Registry)
    PROVE  x.evicted \subseteq evicted' /\ Follows(x, Registry')
<1>1. x.evicted \subseteq evicted'
  BY EntriesStep DEF Follows, Registry
<1>2. ASSUME NEW s \in DOMAIN x.recs, s \notin evicted'
      PROVE  /\ s \in entries' \cap Persistent
             /\ x.recs[s].status \in Final => SavedEntry(s)'.status = x.recs[s].status
  <2>1. /\ s \in entries /\ s \in entries' /\ s \in Persistent
        /\ x.recs[s].status \in Final => SavedEntry(s).status = x.recs[s].status
    BY <1>2, EntriesStep DEF Follows, Registry
  <2>2. ASSUME x.recs[s].status \in Final
        PROVE  SavedEntry(s)'.status = x.recs[s].status
    <3>1. Finished(s) /\ rec[s].status = x.recs[s].status
      BY <2>1, <2>2 DEF SavedEntry, Final
    <3>2. rec'[s].status = rec[s].status
      BY <2>1, <3>1, FinalStays
    <3> QED
      BY <2>2, <3>1, <3>2 DEF SavedEntry, Finished
  <2> QED
    BY <2>1, <2>2
<1> QED
  BY <1>1, <1>2 DEF Follows, Registry

LEMMA RegistryIsSnapshot ==
    ASSUME TypeOK
    PROVE  /\ Registry.recs = [s \in entries \cap Persistent |-> SavedEntry(s)]
           /\ Registry.evicted = evicted
           /\ DOMAIN Registry.recs = entries \cap Persistent
           /\ Follows(Registry, Registry)
BY DEF Registry, Follows

LEMMA FollowStep ==
    ASSUME TypeOK, SaverInv, OneSaverInv, FreshInv, StatusInv, FollowInv, [Next]_vars
    PROVE  FollowInv' /\ Follows(disk, disk')
<1>1. /\ DOMAIN saves = Callers /\ IsSnapshot(disk)
      /\ \A c \in Callers : saves[c] # NoSave => IsSnapshot(saves[c])
  BY DEF TypeOK, SnapshotTypes
<1>2. Follows(disk, disk)
  BY DEF Follows
<1>3. CASE HostRestart
  <2>1. /\ entries' = DOMAIN disk.recs /\ evicted' = disk.evicted /\ disk' = disk
        /\ \A c \in Callers : saves'[c] = NoSave
    BY <1>3 DEF HostRestart
  <2>2. ASSUME NEW s \in DOMAIN disk.recs
        PROVE  /\ s \in entries' \cap Persistent
               /\ disk.recs[s].status \in Final => SavedEntry(s)'.status = disk.recs[s].status
    <3>1. s \in Persistent /\ s \in Starts
      BY <1>1, ExecutionAssumption DEF IsSnapshot, ExecutionAssumption
    <3>2. disk.recs[s].status \in Final => rec'[s].status = disk.recs[s].status
      BY <1>3, <3>1 DEF HostRestart, Restored, NoRecord
    <3> QED
      BY <2>1, <3>1, <3>2 DEF SavedEntry, Finished
  <2>3. Follows(disk, Registry)'
    BY <2>1, <2>2 DEF Follows, Registry
  <2> QED
    BY <1>2, <2>1, <2>3 DEF FollowInv
<1>4. CASE ~HostRestart
  <2>1. /\ Follows(disk, Registry')
        /\ \A c \in Callers : saves[c] # NoSave => Follows(saves[c], Registry')
    BY <1>1, <1>4, RegistryFollows DEF FollowInv, IsSnapshot
  <2>2. CASE UNCHANGED <<saves, disk>>
    BY <1>2, <2>1, <2>2 DEF FollowInv, Follows
  <2>3. ASSUME NEW c \in Callers, SaveSnapshot(c)
        PROVE  FollowInv' /\ disk' = disk
    <3>1. saves' = [saves EXCEPT ![c] = Registry] /\ disk' = disk
      BY <2>3 DEF SaveSnapshot, Registry
    <3>2. Registry' = Registry
      BY <2>3 DEF SaveSnapshot, Registry, SavedEntry, Finished, poolVars
    <3>3. /\ \A d \in Callers \ {c} : saves'[d] = saves[d]
          /\ saves'[c] = Registry
      BY <1>1, <3>1
    <3>4. ASSUME NEW d \in Callers, saves'[d] # NoSave
          PROVE  Follows(disk, saves'[d]) /\ Follows(saves'[d], Registry')
      <4>1. CASE d = c
        BY <3>2, <3>3, <4>1, RegistryIsSnapshot DEF FollowInv
      <4>2. CASE d # c
        BY <2>1, <3>3, <3>4, <4>2 DEF FollowInv
      <4> QED
        BY <4>1, <4>2
    <3>5. FollowInv'
      BY <2>1, <3>1, <3>4 DEF FollowInv, Follows
    <3> QED
      BY <3>1, <3>5
  <2>4. ASSUME NEW c \in Callers, SaveEnds(c)
        PROVE  FollowInv' /\ Follows(disk, disk')
    <3>1. /\ saves[c] # NoSave /\ saves' = [saves EXCEPT ![c] = NoSave]
          /\ disk' \in {disk, saves[c]}
      BY <2>4 DEF SaveEnds
    <3>2. \A d \in Callers : saves'[d] = NoSave
      BY <1>1, <3>1 DEF OneSaverInv
    <3>3. Follows(disk, disk') /\ Follows(disk', Registry')
      BY <1>2, <2>1, <3>1 DEF FollowInv
    <3>4. FollowInv'
      BY <3>2, <3>3 DEF FollowInv, Follows
    <3> QED
      BY <3>3, <3>4
  <2> QED
    BY <1>2, <1>4, <2>2, <2>3, <2>4, SnapshotFrame DEF Follows
<1> QED
  BY <1>3, <1>4

\* Once shutdown has begun nothing is admitted, and it only stops waiting for what is dead
\* and reported.
LEMMA DownStep ==
    ASSUME TypeOK, SaverInv, FreshInv, StatusInv, DownInv, [Next]_vars
    PROVE  DownInv'
<1>1. /\ DOMAIN saves = Callers /\ "shutdown" \in Callers
      /\ "shutdown" \notin Starts /\ "shutdown" # "host"
  BY ExecutionAssumption DEF TypeOK, SnapshotTypes, Callers, ExecutionAssumption
<1>2. CASE HostRestart
  BY <1>1, <1>2 DEF HostRestart, DownInv
<1>3. CASE ~HostRestart
  <2>1. ASSUME NEW c \in Callers, SaveEnds(c)
        PROVE  /\ closed' = closed /\ stopList' = stopList
               /\ down' = down \/ (c = "shutdown" /\ down = "save" /\ down' \in {"ok", "error"})
    BY <2>1 DEF SaveEnds, SaveReturns, DownInv
  <2>2. saves'["shutdown"] # NoSave => down' = "save"
    <3>1. CASE saves["shutdown"] # NoSave
      <4>1. down = "save"
        BY <3>1 DEF DownInv
      <4>2. ASSUME NEW c \in Callers, SaveEnds(c), c = "shutdown"
            PROVE  saves'["shutdown"] = NoSave
        BY <1>1, <4>2 DEF SaveEnds
      <4> QED
        BY <1>3, <2>1, <4>1, <4>2, ShutdownFrame DEF downVars, ShutdownTerminate,
           ShutdownDrained, RequestHostShutdown, ShutdownBegin, ShutdownSave
    <3>2. CASE saves["shutdown"] = NoSave
      <4>1. ASSUME NEW c \in Callers, SaveSnapshot(c)
            PROVE  saves'["shutdown"] # NoSave => down' = "save"
        <5>1. c # "shutdown" => saves'["shutdown"] = NoSave
          BY <1>1, <3>2, <4>1 DEF SaveSnapshot
        <5>2. c = "shutdown" => down' = "save"
          BY <1>1, <4>1 DEF SaveSnapshot, Calling, downVars
        <5> QED
          BY <5>1, <5>2
      <4>2. ASSUME NEW c \in Callers, SaveEnds(c)
            PROVE  saves'["shutdown"] = NoSave
        BY <1>1, <3>2, <4>2 DEF SaveEnds
      <4> QED
        BY <1>3, <3>2, <4>1, <4>2, SnapshotFrame
    <3> QED
      BY <3>1, <3>2
  <2>3. CASE down = "up"
    <3>1. ShutdownBegin \/ down' = "up"
      BY <1>3, <2>1, <2>3, ShutdownFrame DEF downVars, ShutdownTerminate, ShutdownDrained,
         RequestHostShutdown, ShutdownSave
    <3>2. ASSUME ShutdownBegin
          PROVE  closed' /\ \A s \in entries' : Native(s)' => s \in stopList'
      BY <3>2 DEF ShutdownBegin, poolVars, Native
    <3> QED
      BY <2>2, <3>1, <3>2 DEF DownInv
  <2>4. CASE down # "up"
    <3>1. closed /\ closed'
      BY <1>3, <2>1, <2>4, ShutdownFrame DEF downVars, ShutdownTerminate, ShutdownDrained,
         RequestHostShutdown, ShutdownBegin, ShutdownSave, DownInv
    <3>2. ASSUME NEW s \in entries', pc'[s] # "gone", s \notin stopList'
          PROVE  job'[s].proc = "dead" /\ Finished(s)'
      <4>1. s \in entries
        BY <1>3, <3>1, <3>2, EntriesStep DEF StartAdmit, ConnOpen
      <4>2. s \in Starts /\ pc[s] \notin Early
        BY <4>1 DEF TypeOK, ManagerTypes, FreshInv
      <4>3. pc[s] # "gone"
        BY <3>2, <4>2, GoneStep
      <4>4. s \notin stopList \/ ShutdownDrained(s)
        BY <1>3, <2>1, <2>4, <3>2, ShutdownFrame DEF downVars, ShutdownTerminate,
           ShutdownDrained, RequestHostShutdown, ShutdownBegin, ShutdownSave
      <4>5. job[s].proc = "dead" /\ Finished(s)
        BY <2>4, <4>1, <4>3, <4>4 DEF DownInv, Native, ShutdownDrained
      <4>6. Finished(s)'
        BY <1>3, <4>1, <4>5, FinalStays DEF Finished
      <4>7. job'[s].proc = "dead"
        BY <1>3, <4>2, <4>5, ProcStep DEF StartCreate, Early
      <4> QED
        BY <4>6, <4>7
    <3> QED
      BY <2>2, <3>1, <3>2 DEF DownInv, Native
  <2> QED
    BY <2>3, <2>4
<1> QED
  BY <1>2, <1>3

\* When shutdown waits for nothing any more, every entry is reported as ended.
LEMMA DrainedIsFinal ==
    ASSUME TypeOK, StatusInv, DownInv, down # "up", stopList = {}
    PROVE  AllFinal(Registry)
<1> SUFFICES ASSUME NEW s \in entries PROVE SavedEntry(s).status \in Final
  BY RegistryIsSnapshot DEF AllFinal
<1>1. Finished(s)
  BY DEF TypeOK, ManagerTypes, StatusInv, DownInv, Native
<1> QED
  BY <1>1 DEF SavedEntry, Finished

\* The last checkpoint of a shutdown that succeeds, and any that follows it, is final.
LEMMA LastSaveStep ==
    ASSUME TypeOK, SaverInv, FreshInv, OneSaverInv, StatusInv, DownInv, LastSaveInv,
           [Next]_vars
    PROVE  LastSaveInv'
<1>1. /\ DOMAIN saves = Callers /\ "shutdown" \in Callers
      /\ "shutdown" \notin Starts /\ "shutdown" # "host"
  BY ExecutionAssumption DEF TypeOK, SnapshotTypes, Callers, ExecutionAssumption
<1>2. CASE HostRestart
  BY <1>1, <1>2 DEF HostRestart, LastSaveInv
<1>3. ASSUME NEW c \in Callers, SaveSnapshot(c)
      PROVE  LastSaveInv'
  <2>1. /\ saves' = [saves EXCEPT ![c] = Registry]
        /\ UNCHANGED <<down, stopList, disk>>
    BY <1>3 DEF SaveSnapshot, Registry, downVars
  <2>2. saves'[c] = Registry /\ \A d \in Callers \ {c} : saves'[d] = saves[d]
    BY <1>1, <2>1
  <2>3. CASE down \in {"save", "ok"} /\ stopList = {}
    <3>1. AllFinal(Registry)
      BY <2>3, DrainedIsFinal
    <3> HIDE DEF Registry
    <3> QED
      BY <1>1, <2>1, <2>2, <3>1 DEF LastSaveInv, AllFinal
  <2>4. CASE ~(down \in {"save", "ok"} /\ stopList = {})
    BY <2>1, <2>4 DEF LastSaveInv
  <2> QED
    BY <2>3, <2>4
<1>4. ASSUME NEW c \in Callers, SaveEnds(c)
      PROVE  LastSaveInv'
  <2>1. /\ saves[c] # NoSave /\ saves' = [saves EXCEPT ![c] = NoSave]
        /\ disk' \in {disk, saves[c]} /\ stopList' = stopList
    BY <1>4 DEF SaveEnds
  <2>2. \A d \in Callers : saves'[d] = NoSave
    BY <1>1, <2>1 DEF OneSaverInv
  <2>3. CASE c = "shutdown"
    <3>1. down = "save"
      BY <2>1, <2>3 DEF DownInv
    <3>2. down' = "ok" => stopList = {} /\ disk' = saves[c]
      BY <1>4, <2>3 DEF SaveEnds, SaveReturns
    <3>3. down' \in {"ok", "error"}
      BY <1>4, <2>3 DEF SaveEnds, SaveReturns
    <3> QED
      BY <2>1, <2>2, <2>3, <3>1, <3>2, <3>3 DEF LastSaveInv, AllFinal
  <2>4. CASE c # "shutdown"
    <3>1. down' = down
      BY <1>4, <2>4 DEF SaveEnds, SaveReturns
    <3> QED
      BY <1>1, <2>1, <2>2, <3>1 DEF LastSaveInv, AllFinal
  <2> QED
    BY <2>3, <2>4
<1>5. CASE UNCHANGED <<saves, disk>> /\ \A c \in Callers : ~SaveEnds(c)
  <2>1. \/ UNCHANGED <<down, stopList>>
        \/ down = "stopping" /\ down' = "stopping"
        \/ down = "up" /\ down' = "stopping"
        \/ ShutdownSave
        \/ HostRestart
    BY <1>5, ShutdownFrame DEF downVars, ShutdownTerminate, ShutdownDrained,
       RequestHostShutdown, ShutdownBegin
  <2>2. CASE ShutdownSave
    <3>1. /\ down = "stopping" /\ stopList' = stopList
          /\ down' = "ok" => ~Resident /\ stopList = {}
      BY <2>2 DEF ShutdownSave
    <3>2. saves["shutdown"] = NoSave
      BY <3>1 DEF DownInv
    <3> QED
      BY <1>5, <3>1, <3>2 DEF LastSaveInv
  <2>3. CASE UNCHANGED <<down, stopList>>
    BY <1>5, <2>3 DEF LastSaveInv, AllFinal
  <2>4. CASE down' = "stopping"
    BY <2>4 DEF LastSaveInv
  <2> QED
    BY <1>2, <2>1, <2>2, <2>3, <2>4
<1> QED
  BY <1>2, <1>3, <1>4, <1>5, SnapshotFrame

----------------------------------------------------------------------------
(* The counters.                                                           *)

\* Every set of starts is finite, and its size and weight are numbers.
LEMMA Countable ==
    ASSUME NEW S \in SUBSET Starts
    PROVE  IsFiniteSet(S) /\ Cardinality(S) \in Nat /\ Weight(S) \in Nat
BY ExecutionAssumption, WeightIsNat, FS_Subset, FS_CardinalityType DEF ExecutionAssumption

\* Sizes and weights of disjoint sets add up.
LEMMA WeightSum ==
    ASSUME NEW A \in SUBSET Starts, NEW B \in SUBSET Starts, A \cap B = {}
    PROVE  /\ Cardinality(A \cup B) = Cardinality(A) + Cardinality(B)
           /\ Weight(A \cup B) = Weight(A) + Weight(B)
<1>1. \A X, Y \in SUBSET Starts : X \cap Y = {} =>
          Cardinality(X \cup Y) = Cardinality(X) + Cardinality(Y)
  <2> TAKE X, Y \in SUBSET Starts
  <2> HAVE X \cap Y = {}
  <2>1. IsFiniteSet(X) /\ IsFiniteSet(Y) /\ Cardinality(X) \in Nat /\ Cardinality(Y) \in Nat
    BY Countable
  <2>2. Cardinality(X \cup Y) = Cardinality(X) + Cardinality(Y) - Cardinality(X \cap Y)
    BY <2>1, FS_Union
  <2>3. Cardinality(X \cap Y) = 0
    BY FS_EmptySet
  <2> QED
    BY <2>1, <2>2, <2>3
<1> DEFINE C == A \ Terminals
           D == B \ Terminals
<1>2. (A \cup B) \ Terminals = C \cup D
  OBVIOUS
<1>3. Cardinality(C \cup D) = Cardinality(C) + Cardinality(D)
  BY <1>1
<1>4. Cardinality(A \cup B) = Cardinality(A) + Cardinality(B)
  BY <1>1
<1>5. /\ Cardinality(A) \in Nat /\ Cardinality(B) \in Nat
      /\ Cardinality(C) \in Nat /\ Cardinality(D) \in Nat
  BY Countable
<1>6. /\ Weight(A \cup B) = Cardinality(A \cup B) + Cardinality(C \cup D)
      /\ Weight(A) = Cardinality(A) + Cardinality(C)
      /\ Weight(B) = Cardinality(B) + Cardinality(D)
  BY <1>2 DEF Weight
<1> HIDE DEF C, D
<1> QED
  BY <1>3, <1>4, <1>5, <1>6

\* What is taken away is subtracted.
LEMMA WeightLess ==
    ASSUME NEW A \in SUBSET Starts, NEW G \in SUBSET A
    PROVE  /\ Cardinality(A \ G) = Cardinality(A) - Cardinality(G)
           /\ Weight(A \ G) = Weight(A) - Weight(G)
           /\ Cardinality(G) <= Cardinality(A) /\ Weight(G) <= Weight(A)
<1>1. A = (A \ G) \cup G
  OBVIOUS
<1>2. /\ Cardinality((A \ G) \cup G) = Cardinality(A \ G) + Cardinality(G)
      /\ Weight((A \ G) \cup G) = Weight(A \ G) + Weight(G)
  BY WeightSum
<1>3. /\ Cardinality(A \ G) \in Nat /\ Cardinality(G) \in Nat
      /\ Weight(A \ G) \in Nat /\ Weight(G) \in Nat
  BY Countable
<1> QED
  BY <1>1, <1>2, <1>3

\* A single start counts as one record.
LEMMA OneMore ==
    ASSUME NEW s \in Starts
    PROVE  Cardinality({s}) = 1 /\ Weight({s}) \in Nat
BY FS_Singleton, Countable

\* Which step takes a reservation, and which gives one back.
LEMMA ReservedStep ==
    ASSUME TypeOK, SaverInv, [Next]_vars
    PROVE  \/ UNCHANGED <<Reserved, entries, pending, budget>>
           \/ \E s \in Starts : StartReserve(s) \/ StartAbandon(s) \/ StartAdmit(s)
           \/ HostRestart
<1>1. /\ pc \in [Starts -> Phases] /\ Starts \subseteq Callers
      /\ \A c \in Callers : c \in Starts /\ saves[c] # NoSave => pc[c] \in {"save", "resave"}
  BY DEF TypeOK, StartTypes, Callers, SaverInv
<1>2. ASSUME NEW s \in Starts,
             \/ StartCreate(s) \/ StartSpawn(s) \/ StartSpawnFails(s) \/ StartResume(s)
             \/ StartRefuse(s) \/ StartCleanup(s) \/ StartFinish(s)
      PROVE  UNCHANGED <<Reserved, poolVars>>
  <2>1. UNCHANGED poolVars
    BY <1>2 DEF StartCreate, StartSpawn, StartSpawnFails, StartResume, StartRefuse,
       StartCleanup, StartFinish
  <2>2. /\ \A t \in Starts \ {s} : pc'[t] = pc[t]
        /\ pc[s] \in {"reserved", "created"} <=> pc'[s] \in {"reserved", "created"}
    BY <1>1, <1>2 DEF StartCreate, StartSpawn, StartSpawnFails, StartResume, StartRefuse,
       StartCleanup, StartFinish
  <2>3. Reserved' = Reserved
    BY <2>2 DEF Reserved
  <2> QED
    BY <2>1, <2>3
<1>3. ASSUME NEW c \in Callers, SaveEnds(c)
      PROVE  UNCHANGED <<Reserved, poolVars>>
  <2>1. UNCHANGED poolVars
    BY <1>3 DEF SaveEnds
  <2>2. \A t \in Starts : pc[t] \in {"reserved", "created"} <=> pc'[t] \in {"reserved", "created"}
    BY <1>1, <1>3 DEF SaveEnds, SaveReturns
  <2>3. Reserved' = Reserved
    BY <2>2 DEF Reserved
  <2> QED
    BY <2>1, <2>3
<1>4. CASE UNCHANGED pc /\ UNCHANGED poolVars
  BY <1>4 DEF Reserved, poolVars
<1> QED
  BY <1>2, <1>3, <1>4, PhaseFrame, RegistryFrame DEF StartStep, poolVars

\* A checkpoint of part of the registry fits where the registry does.
LEMMA FitStep ==
    ASSUME TypeOK, FitInv, ReservationsAreExact, [Next]_vars
    PROVE  FitInv'
<1>1. DOMAIN saves = Callers /\ entries \subseteq Starts
  BY DEF TypeOK, SnapshotTypes, ManagerTypes
<1>2. Fits(entries \cap Persistent)
  <2> DEFINE P == entries \cap Persistent
  <2>1. Reserved \in SUBSET Starts /\ P \in SUBSET Starts
    BY <1>1 DEF Reserved
  <2>2. /\ Cardinality(P) <= Cardinality(entries) /\ Weight(P) <= Weight(entries)
        /\ Cardinality(P) \in Nat /\ Weight(P) \in Nat
        /\ Cardinality(entries) \in Nat /\ Weight(entries) \in Nat
        /\ Cardinality(Reserved) \in Nat /\ Weight(Reserved) \in Nat
    BY <1>1, <2>1, WeightLess, Countable
  <2>3. /\ Cardinality(entries) + Cardinality(Reserved) <= MaxRecords
        /\ Weight(entries) + Weight(Reserved) <= MaxBudget
    BY DEF ReservationsAreExact
  <2>4. MaxRecords \in Nat /\ MaxBudget \in Nat
    BY ExecutionAssumption DEF ExecutionAssumption
  <2> HIDE DEF P
  <2>5. Fits(P)
    BY <2>2, <2>3, <2>4 DEF Fits
  <2> QED
    BY <2>5 DEF P
<1>3. ASSUME NEW c \in Callers, SaveSnapshot(c)
      PROVE  FitInv'
  <2>1. saves' = [saves EXCEPT ![c] = Registry] /\ disk' = disk
    BY <1>3 DEF SaveSnapshot, Registry
  <2>2. DOMAIN Registry.recs = entries \cap Persistent
    BY DEF Registry
  <2>3. saves'[c] = Registry /\ \A d \in Callers \ {c} : saves'[d] = saves[d]
    BY <1>1, <2>1
  <2> HIDE DEF Registry
  <2> QED
    BY <1>2, <2>1, <2>2, <2>3 DEF FitInv
<1>4. ASSUME NEW c \in Callers, SaveEnds(c)
      PROVE  FitInv'
  BY <1>1, <1>4 DEF SaveEnds, FitInv
<1>5. CASE HostRestart
  BY <1>5 DEF HostRestart, FitInv
<1>6. CASE UNCHANGED <<saves, disk>>
  BY <1>6 DEF FitInv
<1> QED
  BY <1>3, <1>4, <1>5, <1>6, SnapshotFrame

\* Every way into and out of start moves the counters by what the sets change.
LEMMA ReservationsStep ==
    ASSUME TypeOK, SaverInv, FreshInv, FitInv, ReservationsAreExact, [Next]_vars
    PROVE  ReservationsAreExact'
<1>1. /\ pc \in [Starts -> Phases] /\ entries \in SUBSET Starts /\ Reserved \in SUBSET Starts
      /\ MaxRecords \in Nat /\ MaxBudget \in Nat
  BY ExecutionAssumption DEF TypeOK, StartTypes, ManagerTypes, Reserved, ExecutionAssumption
<1>2. /\ Cardinality(entries) \in Nat /\ Weight(entries) \in Nat
      /\ Cardinality(Reserved) \in Nat /\ Weight(Reserved) \in Nat
  BY <1>1, Countable
<1>3. /\ pending = Cardinality(Reserved)
      /\ budget = Weight(entries) + Weight(Reserved)
      /\ Cardinality(entries) + pending <= MaxRecords
      /\ budget <= MaxBudget
  BY DEF ReservationsAreExact
<1>4. ASSUME NEW s \in Starts, StartReserve(s)
      PROVE  ReservationsAreExact'
  <2>1. PICK gone \in SUBSET Evictable :
           /\ entries' = entries \ gone
           /\ \/ /\ FitsWithout(s, gone)
                 /\ pending' = pending + 1
                 /\ budget' = budget - Weight(gone) + Weight({s})
                 /\ pc' = [pc EXCEPT ![s] = "reserved"]
              \/ /\ budget' = budget - Weight(gone)
                 /\ pc' = [pc EXCEPT ![s] = "failed"]
                 /\ pending' = pending
    BY <1>4 DEF StartReserve
  <2>2. gone \in SUBSET entries /\ s \notin Reserved /\ pc[s] = "idle"
    BY <1>4 DEF Evictable, Reserved, StartReserve
  <2>3. /\ Cardinality(entries \ gone) = Cardinality(entries) - Cardinality(gone)
        /\ Weight(entries \ gone) = Weight(entries) - Weight(gone)
        /\ Cardinality(gone) \in Nat /\ Weight(gone) \in Nat
    BY <1>1, <2>2, WeightLess, Countable
  <2>4. Cardinality({s}) = 1 /\ Weight({s}) \in Nat
    BY OneMore
  <2>5. CASE pc' = [pc EXCEPT ![s] = "reserved"]
    <3>1. /\ FitsWithout(s, gone) /\ pending' = pending + 1
          /\ budget' = budget - Weight(gone) + Weight({s})
      BY <1>1, <2>1, <2>5
    <3>2. Reserved' = Reserved \cup {s}
      BY <1>1, <2>5 DEF Reserved
    <3>3. /\ Cardinality(Reserved \cup {s}) = Cardinality(Reserved) + 1
          /\ Weight(Reserved \cup {s}) = Weight(Reserved) + Weight({s})
      BY <1>1, <2>2, <2>4, WeightSum
    <3>4. /\ Cardinality(entries') + pending < MaxRecords
          /\ budget - Weight(gone) + Weight({s}) <= MaxBudget
      BY <2>1, <3>1 DEF FitsWithout
    <3>5. pending' = Cardinality(Reserved') /\ Weight(entries') = Weight(entries) - Weight(gone)
      BY <1>3, <2>1, <2>3, <3>1, <3>2, <3>3
    <3>6. budget' = Weight(entries') + Weight(Reserved')
      BY <1>2, <1>3, <2>3, <2>4, <3>1, <3>2, <3>3, <3>5
    <3>7. Cardinality(entries') + pending' <= MaxRecords
      BY <1>1, <1>2, <1>3, <2>1, <2>3, <3>1, <3>4
    <3> QED
      BY <3>1, <3>4, <3>5, <3>6, <3>7 DEF ReservationsAreExact, Weight
  <2>6. CASE pc' = [pc EXCEPT ![s] = "failed"]
    <3>1. pending' = pending /\ budget' = budget - Weight(gone)
      BY <1>1, <2>1, <2>6
    <3>2. Reserved' = Reserved
      BY <1>1, <2>2, <2>6 DEF Reserved
    <3>3. Weight(entries') = Weight(entries) - Weight(gone)
      BY <2>1, <2>3
    <3>4. budget' = Weight(entries') + Weight(Reserved') /\ budget' <= MaxBudget
      BY <1>1, <1>2, <1>3, <2>3, <3>1, <3>2, <3>3
    <3>5. Cardinality(entries') + pending' <= MaxRecords
      BY <1>1, <1>2, <1>3, <2>1, <2>3, <3>1
    <3> QED
      BY <1>3, <3>1, <3>2, <3>4, <3>5 DEF ReservationsAreExact, Weight
  <2> QED
    BY <2>1, <2>5, <2>6
<1>5. ASSUME NEW s \in Starts, StartAbandon(s)
      PROVE  ReservationsAreExact'
  <2>1. /\ s \in Reserved /\ entries' = entries /\ pending' = pending - 1
        /\ budget' = budget - Weight({s})
    BY <1>5 DEF StartAbandon, Reserved
  <2>2. Reserved' = Reserved \ {s}
    BY <1>1, <1>5 DEF StartAbandon, Reserved
  <2>3. /\ Cardinality(Reserved \ {s}) = Cardinality(Reserved) - 1
        /\ Weight(Reserved \ {s}) = Weight(Reserved) - Weight({s})
        /\ Weight({s}) \in Nat
    BY <1>1, <2>1, WeightLess, OneMore
  <2>4. Weight(entries') = Weight(entries)
    BY <2>1
  <2>5. pending' = Cardinality(Reserved') /\ budget' = Weight(entries') + Weight(Reserved')
    BY <1>2, <1>3, <2>1, <2>2, <2>3, <2>4
  <2>6. Cardinality(entries') + pending' <= MaxRecords /\ budget' <= MaxBudget
    BY <1>1, <1>2, <1>3, <2>1, <2>3
  <2> QED
    BY <2>5, <2>6 DEF ReservationsAreExact, Weight
<1>6. ASSUME NEW s \in Starts, StartAdmit(s)
      PROVE  ReservationsAreExact'
  <2>1. /\ s \in Reserved /\ s \notin entries /\ entries' = entries \cup {s}
        /\ pending' = pending - 1 /\ budget' = budget
    BY <1>6 DEF StartAdmit, Reserved, FreshInv, Early
  <2>2. Reserved' = Reserved \ {s}
    BY <1>1, <1>6 DEF StartAdmit, Reserved
  <2>3. /\ Cardinality(Reserved \ {s}) = Cardinality(Reserved) - 1
        /\ Weight(Reserved \ {s}) = Weight(Reserved) - Weight({s})
        /\ Weight({s}) \in Nat
    BY <1>1, <2>1, WeightLess, OneMore
  <2>4. /\ Cardinality(entries \cup {s}) = Cardinality(entries) + 1
        /\ Weight(entries \cup {s}) = Weight(entries) + Weight({s})
    <3>1. {s} \in SUBSET Starts /\ entries \cap {s} = {}
      BY <2>1
    <3> QED
      BY <1>1, <3>1, WeightSum, OneMore
  <2>5. Weight(entries') = Weight(entries) + Weight({s})
    BY <2>1, <2>4
  <2>6. pending' = Cardinality(Reserved') /\ budget' = Weight(entries') + Weight(Reserved')
    BY <1>2, <1>3, <2>1, <2>2, <2>3, <2>5
  <2>7. Cardinality(entries') + pending' <= MaxRecords /\ budget' <= MaxBudget
    BY <1>1, <1>2, <1>3, <2>1, <2>4
  <2> QED
    BY <2>6, <2>7 DEF ReservationsAreExact, Weight
<1>7. CASE HostRestart
  <2>1. /\ entries' = DOMAIN disk.recs /\ pending' = 0 /\ budget' = Weight(entries')
        /\ \A s \in Starts : pc'[s] \in {"idle", "gone"}
    BY <1>7 DEF HostRestart
  <2>2. Reserved' = {}
    BY <2>1 DEF Reserved
  <2>3. Cardinality({}) = 0 /\ {} \in SUBSET Starts /\ {} \ Terminals = {}
    BY FS_EmptySet
  <2>4. Weight({}) = 0
    BY <2>3 DEF Weight
  <2>5. Cardinality(entries') <= MaxRecords /\ Weight(entries') <= MaxBudget
    BY <2>1 DEF FitInv, Fits
  <2>6. entries' \in SUBSET Starts
    BY ManagerTypesStep DEF ManagerTypes
  <2>7. Cardinality(entries') \in Nat /\ Weight(entries') \in Nat
    BY <2>6, Countable
  <2>8. Weight(Reserved') = 0
    BY <2>2, <2>4
  <2>9. pending' = Cardinality(Reserved') /\ budget' = Weight(entries') + Weight(Reserved')
    BY <2>1, <2>2, <2>3, <2>7, <2>8
  <2>10. Cardinality(entries') + pending' <= MaxRecords /\ budget' <= MaxBudget
    BY <2>1, <2>5, <2>7
  <2> QED
    BY <2>9, <2>10 DEF ReservationsAreExact, Weight
<1>8. CASE UNCHANGED <<Reserved, entries, pending, budget>>
  BY <1>3, <1>8 DEF ReservationsAreExact, Weight
<1> QED
  BY <1>4, <1>5, <1>6, <1>7, <1>8, ReservedStep

----------------------------------------------------------------------------
(* The theorems about records, checkpoints, shutdown and counters.         *)

FullInv ==
    /\ Inv /\ StatusInv /\ SettledInv /\ RecordTellsTruth /\ FollowInv
    /\ DownInv /\ LastSaveInv /\ FitInv /\ ReservationsAreExact

\* The initial state satisfies the whole invariant.
LEMMA FullInit == Init => FullInv
<1> SUFFICES ASSUME Init PROVE FullInv
  OBVIOUS
<1>1. Inv
  BY InitInv
<1>2. StatusInv /\ SettledInv /\ RecordTellsTruth
  BY DEF Init, StatusInv, SettledInv, RecordTellsTruth, Finished, Final, NoRecord
<1>3. FollowInv /\ DownInv /\ LastSaveInv
  BY ExecutionAssumption DEF Init, FollowInv, DownInv, LastSaveInv, Follows, Registry, Callers,
     NoRecords, ExecutionAssumption
<1>4. Cardinality({}) = 0 /\ {} \ Terminals = {}
  BY FS_EmptySet
<1>5. Weight({}) = 0
  BY <1>4 DEF Weight
<1>6. MaxRecords \in Nat /\ MaxBudget \in Nat
  BY ExecutionAssumption DEF ExecutionAssumption
<1>7. FitInv
  <2>1. DOMAIN disk.recs = {} /\ \A c \in Callers : saves[c] = NoSave
    BY DEF Init, NoRecords
  <2> QED
    BY <1>4, <1>5, <1>6, <2>1 DEF FitInv, Fits
<1>8. ReservationsAreExact
  <2>1. entries = {} /\ Reserved = {} /\ pending = 0 /\ budget = 0
    BY DEF Init, Reserved
  <2> QED
    BY <1>4, <1>5, <1>6, <2>1 DEF ReservationsAreExact
<1> QED
  BY <1>1, <1>2, <1>3, <1>7, <1>8 DEF FullInv

\* Every step preserves it.
LEMMA FullStep == FullInv /\ [Next]_vars => FullInv'
<1> SUFFICES ASSUME FullInv, [Next]_vars PROVE FullInv'
  OBVIOUS
<1>1. Inv'
  BY InvStep DEF FullInv
<1>2. StatusInv' /\ SettledInv' /\ RecordTellsTruth'
  BY StatusInvStep, TruthStep DEF FullInv, Inv
<1>3. FollowInv' /\ DownInv' /\ LastSaveInv'
  BY FollowStep, DownStep, LastSaveStep DEF FullInv, Inv
<1>4. FitInv' /\ ReservationsAreExact'
  BY FitStep, ReservationsStep DEF FullInv, Inv
<1> QED
  BY <1>1, <1>2, <1>3, <1>4 DEF FullInv

\* A record that reports the present state of its process and says that it has ended is
\* right: the tree is empty, its output was read to the end, and "exited" is never said of
\* a process that somebody had asked to stop.
THEOREM RecordsTellTruth == Spec => []RecordTellsTruth
<1>1. FullInv => RecordTellsTruth
  BY DEF FullInv
<1> QED
  BY <1>1, FullInit, FullStep, PTL DEF Spec

\* pending and budget are at every moment what the reservations and entries add up to, so
\* no way out of start leaks or returns twice, and the limits hold, after a restore too.
THEOREM ReservationsHold == Spec => []ReservationsAreExact
<1>1. FullInv => ReservationsAreExact
  BY DEF FullInv
<1> QED
  BY <1>1, FullInit, FullStep, PTL DEF Spec

\* A shutdown that reports success has left no tree, and no record in the checkpoint that
\* the next host would report as interrupted, whatever checkpoints run beside it.
THEOREM ShutdownsAreClean == Spec => []CleanShutdown
<1>1. FullInv => CleanShutdown
  <2> SUFFICES ASSUME FullInv, down = "ok" 
               PROVE  /\ \A s \in entries : ~Alive(s) /\ job[s].proc # "suspended"
                      /\ Resident => \A s \in DOMAIN disk.recs : disk.recs[s].status \in Final
    BY DEF CleanShutdown
  <2>1. stopList = {} /\ entries \subseteq Starts
    BY DEF FullInv, LastSaveInv, Inv, TypeOK, ManagerTypes
  <2>2. ASSUME NEW s \in entries PROVE job[s].proc \in {"none", "dead"}
    BY <2>1 DEF FullInv, DownInv, Inv, DeadInv, Native
  <2>3. Resident => AllFinal(disk)
    BY DEF FullInv, LastSaveInv
  <2> QED
    BY <2>2, <2>3 DEF Alive, AllFinal
<1> QED
  BY <1>1, FullInit, FullStep, PTL DEF Spec

\* Checkpoints of many callers, of which any may fail and the host may be lost between any
\* two, replace the file only by one that accounts for as much and retracts no end.
THEOREM DiskOnlyGrows == Spec => DiskNeverGoesBack
<1> DEFINE Grows == /\ disk.evicted \subseteq disk'.evicted
                    /\ \A s \in DOMAIN disk.recs :
                          \/ s \in disk'.evicted
                          \/ /\ s \in DOMAIN disk'.recs
                             /\ disk.recs[s].status \in Final =>
                                   disk'.recs[s].status = disk.recs[s].status
<1>1. FullInv /\ [Next]_vars => [Grows]_disk
  <2> SUFFICES ASSUME FullInv, [Next]_vars PROVE Grows
    OBVIOUS
  <2>1. Follows(disk, disk')
    BY FollowStep DEF FullInv, Inv
  <2> QED
    BY <2>1 DEF Follows
<1>2. Spec => [][Grows]_disk
  BY <1>1, FullInit, FullStep, PTL DEF Spec
<1> QED
  BY <1>2 DEF DiskNeverGoesBack

\* A status that names a reason names the one the record gives.
NamedInv ==
    \A s \in Starts : pc[s] # "gone" =>
        /\ rec[s].status = "timed_out" => rec[s].reason = "deadline_exceeded"
        /\ rec[s].status = "canceled" => rec[s].reason = "asked"

\* It did so when the supervisor wrote it, and no reason is replaced.
LEMMA NamedStep == FullInv /\ NamedInv /\ [Next]_vars => NamedInv'
<1> SUFFICES ASSUME FullInv, NamedInv, [Next]_vars, NEW s \in Starts, pc'[s] # "gone"
             PROVE  /\ rec'[s].status = "timed_out" => rec'[s].reason = "deadline_exceeded"
                    /\ rec'[s].status = "canceled" => rec'[s].reason = "asked"
  BY DEF NamedInv
<1>1. TypeOK /\ SaverInv /\ FreshInv
  BY DEF FullInv, Inv
<1>2. CASE HostRestart
  <2>1. pc[s] = "idle"
    BY <1>2 DEF HostRestart
  <2>2. s \notin DOMAIN disk.recs
    BY <1>1, <2>1 DEF FreshInv, Early, Names
  <2> QED BY <1>2, <2>2 DEF HostRestart, NoRecord
<1>3. CASE StartAdmit(s)
  <2>1. rec'[s].status = "starting"
    BY <1>1, <1>3 DEF StartAdmit, NoRecord, TypeOK, StartTypes, Record
  <2> QED BY <2>1
<1>4. CASE ~HostRestart /\ ~StartAdmit(s)
  <2>1. pc[s] # "gone"
    BY <1>1, GoneStep
  <2>2. rec[s].reason # "none" => rec'[s].reason = rec[s].reason
    BY <1>1, <1>4, ReasonStep
  <2>3. LastStatus(s) \in {"timed_out", "canceled"} =>
          /\ rec[s].reason # "none"
          /\ LastStatus(s) = "timed_out" => rec[s].reason = "deadline_exceeded"
          /\ LastStatus(s) = "canceled" => rec[s].reason = "asked"
    BY <1>1 DEF LastStatus, TypeOK, StartTypes, Record
  <2>4. rec'[s].status \in {"timed_out", "canceled"} =>
           rec'[s].status \in {rec[s].status, LastStatus(s)}
    BY <1>1, <1>4, StatusStep
  <2> QED BY <2>1, <2>2, <2>3, <2>4 DEF NamedInv
<1> QED BY <1>2, <1>3, <1>4

\* Whoever asks first for a termination, a caller or the deadline, is named by the record
\* until the host is lost, by its final status too, and that status stays: no supervisor,
\* cancel, close or shutdown that comes later rewrites how a process came to its end.
THEOREM FirstReasonStays == Spec => OutcomesStay
<1> DEFINE Stay == \A s \in entries \cap entries' : pc'[s] # "gone" =>
                      /\ rec[s].reason # "none" => rec'[s].reason = rec[s].reason
                      /\ Finished(s) => rec'[s].status = rec[s].status
                      /\ rec'[s].status = "timed_out" => rec'[s].reason = "deadline_exceeded"
                      /\ rec'[s].status = "canceled" => rec'[s].reason = "asked"
<1>1. Init => NamedInv
  BY DEF Init, NamedInv, NoRecord
<1>2. FullInv /\ NamedInv /\ [Next]_vars => [Stay]_rec
  <2> SUFFICES ASSUME FullInv, NamedInv, [Next]_vars, NEW s \in entries \cap entries',
                      pc'[s] # "gone"
               PROVE  /\ rec[s].reason # "none" => rec'[s].reason = rec[s].reason
                      /\ Finished(s) => rec'[s].status = rec[s].status
                      /\ rec'[s].status = "timed_out" => rec'[s].reason = "deadline_exceeded"
                      /\ rec'[s].status = "canceled" => rec'[s].reason = "asked"
    OBVIOUS
  <2>1. TypeOK /\ SaverInv /\ FreshInv /\ StatusInv /\ s \in Starts
    BY DEF FullInv, Inv, TypeOK, ManagerTypes
  <2>2. pc[s] \notin Early
    BY <2>1 DEF FreshInv
  <2>3. ~HostRestart /\ ~StartAdmit(s)
    BY <2>1, <2>2 DEF HostRestart, StartAdmit, Early
  <2>4. rec[s].reason # "none" => rec'[s].reason = rec[s].reason
    BY <2>1, <2>3, ReasonStep
  <2>5. Finished(s) => rec'[s].status = rec[s].status
    BY <2>1, <2>3, FinalStays
  <2>6. NamedInv'
    BY NamedStep
  <2> QED BY <2>1, <2>4, <2>5, <2>6 DEF NamedInv
<1>3. Spec => [][Stay]_rec
  BY <1>1, <1>2, NamedStep, FullInit, FullStep, PTL DEF Spec
<1> QED
  BY <1>3 DEF OutcomesStay

----------------------------------------------------------------------------
(* Windows.  What a caller has checked of a window, and what it is still to check, against *)
(* the events that are on their way to the tracker.                                        *)

Lifetimes == [epoch : Nat, generation : Nat, alive : BOOLEAN]
Identities == [hwnd : Hwnds, epoch : Nat, generation : Nat]
Events == [event : {"create", "destroy", "fence"}, hwnd : Hwnds \cup {None}]
Entry == [ref : Nat, id : Identities]
Table == [Hwnds -> Lifetimes \cup {None}]
TrackerRecord ==
    [epoch : Nat, generation : Nat, known : Table, gap : BOOLEAN, up : BOOLEAN]
CallRecord ==
    [stage : Track!Recording \cup {"none", "recheck", "gone"},
     step : {"idle", "first", "owner", "second", "same", "data", "get", "act", "look",
             "failed", "end"},
     pass : {0, 1, 2}, op : {"none", "list", "resolve", "minimize", "close"},
     hwnd : Hwnds \cup {None}, ref : Nat,
     expected : Identities \cup {None}, id : Identities \cup {None},
     first : Lifetimes \cup {None},
     life : Nat, small : BOOLEAN, shown : Nat,
     verdict : {"none", "closed", "minimized"}]

WindowTypes ==
    /\ window \in [Hwnds -> [life : Nat, phase : {"none", "open", "dying"}, small : BOOLEAN]]
    /\ lives \in Nat
    /\ hook \in Seq(Events)
    /\ tracker \in TrackerRecord
    /\ serving \in [step : {"idle", "fence", "look", "answer"}, for : WindowCallers \cup {None},
                    hwnd : Hwnds \cup {None}, alive : BOOLEAN]
CallTypes ==
    /\ call \in [WindowCallers -> CallRecord]
    /\ refs \in Seq(Entry)
    /\ fresh \in Nat
    /\ told \subseteq Nat \X Nat

\* A life is of one HWND, and the last that was opened has the highest number.
LivesInv ==
    /\ \A h \in Hwnds :
        /\ window[h].life <= lives
        /\ window[h].life = 0 <=> window[h].phase = "none"
    /\ \A g, h \in Hwnds : window[g].life = window[h].life /\ window[g].life # 0 => g = h

\* The tracker works on one request, whose caller waits for it; one fence at most is on its
\* way; and what is known is of this epoch and numbered.
TrackerInv ==
    /\ \A i \in 1..Len(hook) :
        IF hook[i].event = "fence"
        THEN serving.step = "fence" /\ \A j \in 1..Len(hook) : hook[j].event = "fence" => j = i
        ELSE hook[i].hwnd \in Hwnds
    /\ ~tracker.up => serving.step = "idle"
    /\ serving.step = "idle" => serving.for = None
    /\ serving.step # "idle" => serving.hwnd \in Hwnds
    /\ \A d \in WindowCallers : serving.for = d =>
        /\ call[d].step \in {"first", "second"}
        /\ serving.hwnd = call[d].hwnd
    /\ \A h \in Hwnds : tracker.known[h] # None =>
        /\ tracker.known[h].epoch = tracker.epoch
        /\ tracker.known[h].generation <= tracker.generation

OldFor(t, x) == x.epoch <= t.epoch /\ x.generation <= t.generation
Old(x) == OldFor(tracker, x)

Looked == {"owner", "second", "same"}
Reads == {"first"} \cup Looked

\* What the steps of a call have found so far.
Steps(r, t, n) ==
    /\ r.step \in Reads \cup {"data", "act"} \/ r.stage \in {"gone", "show"} => r.hwnd \in Hwnds
    /\ r.step \in Looked => r.first # None /\ r.first.alive /\ OldFor(t, r.first)
    /\ r.step = "data" \/ (r.pass = 2 /\ r.step \in Reads) =>
          /\ r.stage \in Track!Recording
          /\ r.id # None /\ r.id.hwnd = r.hwnd /\ OldFor(t, r.id)
    /\ r.step = "get" => r.stage \in {"resolve", "select", "before", "poll", "show"}
    /\ r.stage \in {"before", "poll", "show"} /\ r.step \in Reads \cup {"data"} =>
          r.expected # None
    /\ r.step = "act" => r.stage = "recheck"
    /\ r.step = "end" => r.stage = "none"
    /\ r.ref <= n
    /\ r.verdict # "none" => r.step = "end"

StepsInv == \A d \in WindowCallers : Steps(call[d], tracker, fresh)

Unique(s) ==
    \A i, j \in 1..Len(s) : s[i].ref = s[j].ref \/ s[i].id.hwnd = s[j].id.hwnd => i = j

\* A reference stands for one identity, and an HWND has one entry.
RefsInv ==
    /\ \A i \in 1..Len(refs) : refs[i].ref <= fresh /\ Old(refs[i].id)
    /\ Unique(refs)
    /\ \A s \in told : s[1] <= fresh /\ s[2] \in 1..lives

----------------------------------------------------------------------------
(* Windows: data under one identity.                                                    *)

\* The identity is what the tracker knows of its HWND.
KnownAs(t, id) ==
    /\ t.known[id.hwnd] # None
    /\ t.known[id.hwnd].epoch = id.epoch /\ t.known[id.hwnd].generation = id.generation
Current(id) == KnownAs(tracker, id)

\* Data were read under the identity, which is to be read again, or has been.
ReadOnce(r) == r.stage \in Track!Recording /\ r.pass = 2 /\ r.step = "first"
ReadTwice(r) ==
    /\ r.stage \in Track!Recording /\ r.pass = 2 /\ r.step \in Looked
    /\ Track!Identity(r) = r.id
Unchecked(d) == ReadOnce(call[d])
Checked(d) == ReadTwice(call[d])

\* That the data of the life go with the identity, was or will be reported.
Verified(id, l) ==
    \/ \E i \in 1..Len(refs) : refs[i].id = id /\ <<refs[i].ref, l>> \in told
    \/ \E d \in WindowCallers : Checked(d) /\ call[d].id = id /\ call[d].shown = l

\* If the HWND has become that of another window, the tracker is to be told before it
\* answers again.
Trails(id, l) ==
    \/ ~tracker.up \/ ~Current(id) \/ tracker.gap
    \/ window[id.hwnd].life \in {l, 0}
    \/ \E i \in 1..Len(hook) : hook[i].event = "create" /\ hook[i].hwnd = id.hwnd

\* The check of the call will fail: an event is in front of the fence of its request.
OutrunBy(id, d) ==
    \/ ~tracker.up \/ ~Current(id) \/ tracker.gap
    \/ \E i \in 1..Len(hook) :
        /\ hook[i].event = "create" /\ hook[i].hwnd = id.hwnd
        /\ serving.for = d =>
              serving.step = "fence" /\ \E j \in 1..Len(hook) : i < j /\ hook[j].event = "fence"
Outrun(d) == OutrunBy(call[d].id, d)

DataInv ==
    /\ \A s, t \in told : s[1] = t[1] => s[2] = t[2]
    /\ \A id \in Identities : \A l, m \in Nat : Verified(id, l) /\ Verified(id, m) => l = m
    /\ \A id \in Identities : \A l \in Nat : Verified(id, l) => Trails(id, l)
    /\ \A d \in WindowCallers : Unchecked(d) =>
        /\ Trails(call[d].id, call[d].shown)
        /\ \A l \in Nat : Verified(call[d].id, l) /\ l # call[d].shown => Outrun(d)
        /\ \A e \in WindowCallers :
              Unchecked(e) /\ call[e].id = call[d].id /\ call[e].shown # call[d].shown =>
                 Outrun(d) \/ Outrun(e)

----------------------------------------------------------------------------
(* Windows: a window that an action was asked for.                                      *)

NotOpen(l) == \A h \in Hwnds : window[h].life = l => window[h].phase = "dying"

Life(l, h) == l \in 1..lives /\ \A g \in Hwnds : window[g].life = l => g = h

\* The identity was checked for the life: as long as the tracker has it, the window is open
\* or an event is on its way that says not; when it has another, the window is not.
Firm(id, l) ==
    /\ Life(l, id.hwnd)
    /\ Current(id) =>
        /\ tracker.known[id.hwnd].alive
        /\ (\E i \in 1..Len(hook) : hook[i].event # "fence" /\ hook[i].hwnd = id.hwnd)
              => NotOpen(l)
        /\ serving.step = "answer" /\ serving.hwnd = id.hwnd /\ ~serving.alive => NotOpen(l)
    /\ tracker.epoch = id.epoch /\ ~Current(id) => NotOpen(l)

\* If the window is still open, all events of its HWND are in front of the call's fence.
PrecededBy(id, l, d) ==
    /\ Life(l, id.hwnd)
    /\ serving.for = d /\ ~NotOpen(l) =>
        \A i \in 1..Len(hook) : hook[i].event # "fence" /\ hook[i].hwnd = id.hwnd =>
            serving.step = "fence" /\ \E j \in 1..Len(hook) : i < j /\ hook[j].event = "fence"

\* The action is under way: its window is expected under the identity it was checked for.
Asked(r) == r.stage \in {"recheck", "poll", "gone", "show"}
AskedFine(r) ==
    /\ r.expected # None /\ r.expected.hwnd = r.hwnd /\ Old(r.expected)
    /\ Firm(r.expected, r.life)
    /\ <<r.ref, r.life>> \in told
    /\ \A i \in 1..Len(refs) : refs[i].ref = r.ref => refs[i].id = r.expected

ActionFine(r, d) ==
    /\ ReadOnce(r) => PrecededBy(r.id, r.shown, d)
    /\ ReadTwice(r) => Firm(r.id, r.shown)
    /\ Asked(r) => AskedFine(r)
    /\ r.stage = "gone" /\ r.step \in Looked /\ r.first.epoch = r.expected.epoch =>
          Track!Identity(r) = r.expected \/ NotOpen(r.life)
    /\ r.verdict = "closed" => r.life \in 1..lives /\ NotOpen(r.life)
    /\ r.verdict = "minimized" => r.shown = r.life

ActionInv == \A d \in WindowCallers : ActionFine(call[d], d)

WindowsInv ==
    WindowTypes /\ CallTypes /\ LivesInv /\ TrackerInv /\ StepsInv /\ RefsInv /\ DataInv /\ ActionInv

WindowSteps == [Track!Next]_(Track!vars)

LEMMA WindowCases ==
  ASSUME WindowSteps
  PROVE  \/ UNCHANGED Track!vars
         \/ Track!Miss \/ Track!Pump \/ Track!Look \/ Track!Answer \/ Track!FenceFails
         \/ Track!Expire
         \/ \E h \in Hwnds : Track!Open(h) \/ Track!Destroy(h) \/ Track!Vanish(h)
         \/ \E d \in WindowCallers :
            \/ Track!Take(d) \/ Track!Start(d) \/ Track!Get(d) \/ Track!NoTracker(d)
            \/ Track!ReadOwner(d) \/ Track!FirstReading(d) \/ Track!Data(d)
            \/ Track!SecondReading(d) \/ Track!Recheck(d) \/ Track!Act(d)
            \/ Track!LookGone(d) \/ Track!ReadGone(d) \/ Track!Fails(d) \/ Track!GiveUp(d)
  BY DEF WindowSteps, Track!Next, Track!Outside, Track!TrackerThread, Track!Call

LEMMA NoneIsNone ==
  /\ None \notin Hwnds /\ None \notin WindowCallers
  /\ None \notin Lifetimes /\ None \notin Identities
BY TrackAssumption DEF Track!WindowsAssumption, Lifetimes, Identities

LEMMA AppendIn ==
  ASSUME NEW S, NEW s \in Seq(S), NEW e \in S
  PROVE  /\ Append(s, e) \in Seq(S)
         /\ Len(Append(s, e)) = Len(s) + 1
         /\ \A i \in 1..Len(s) : Append(s, e)[i] = s[i]
         /\ Append(s, e)[Len(s) + 1] = e
BY AppendProperties

LEMMA TailIn ==
  ASSUME NEW S, NEW s \in Seq(S), s # <<>>
  PROVE  /\ Head(s) \in S /\ Head(s) = s[1] /\ Len(s) \in Nat \ {0}
         /\ Tail(s) \in Seq(S)
         /\ Len(Tail(s)) = Len(s) - 1
         /\ \A i \in 1..Len(Tail(s)) : Tail(s)[i] = s[i + 1]
BY HeadTailProperties, EmptySeq

LEMMA WithoutIn ==
  ASSUME NEW S, NEW s \in Seq(S), NEW k \in 1..Len(s)
  PROVE  /\ Track!Without(s, k) \in Seq(S)
         /\ Len(Track!Without(s, k)) = Len(s) - 1
         /\ \A j \in 1..(Len(s) - 1) :
               Track!Without(s, k)[j] = IF j < k THEN s[j] ELSE s[j + 1]
<1>1. Len(s) - 1 \in Nat
  BY LenProperties
<1>2. \A j \in 1..(Len(s) - 1) : (IF j < k THEN s[j] ELSE s[j + 1]) \in S
  BY <1>1, ElementOfSeq, LenProperties
<1> DEFINE t == [j \in 1..(Len(s) - 1) |-> IF j < k THEN s[j] ELSE s[j + 1]]
<1>3. t \in [1..(Len(s) - 1) -> S]
  BY <1>2
<1>4. t \in Seq(S) /\ Len(t) = Len(s) - 1
  BY <1>1, <1>3, SeqDef, LenProperties
<1>5. Track!Without(s, k) = t
  BY DEF Track!Without
<1> QED BY <1>4, <1>5


\* A new epoch forgets what was known; the numbers go on.
Forgets(t, s) ==
    /\ s.epoch = t.epoch + 1 /\ s.generation = t.generation /\ ~s.gap /\ s.up = t.up
    /\ s.known = [g \in Hwnds |-> None]

LEMMA InvalidateForgets ==
  ASSUME NEW t \in TrackerRecord
  PROVE  Track!Invalidate(t) \in TrackerRecord /\ Forgets(t, Track!Invalidate(t))
<1>1. [g \in Hwnds |-> None] \in Table
  BY DEF Table
<1> DEFINE k == [g \in Hwnds |-> None]
<1>2. Track!Invalidate(t) \in TrackerRecord
  <2>1. Track!Invalidate(t) = [t EXCEPT !.epoch = @ + 1, !.known = k, !.gap = FALSE]
    BY DEF Track!Invalidate
  <2>2. k \in Table
    BY <1>1
  <2> HIDE DEF k
  <2>3. Track!Invalidate(t) = [epoch |-> t.epoch + 1, generation |-> t.generation,
                              known |-> k, gap |-> FALSE, up |-> t.up]
    BY <2>1 DEF TrackerRecord
  <2> QED BY <2>2, <2>3 DEF TrackerRecord
<1>3. Track!Invalidate(t).known = [g \in Hwnds |-> None]
  BY DEF Track!Invalidate, TrackerRecord
<1>4. /\ Track!Invalidate(t).epoch = t.epoch + 1 /\ ~Track!Invalidate(t).gap
      /\ Track!Invalidate(t).generation = t.generation /\ Track!Invalidate(t).up = t.up
  BY DEF Track!Invalidate, TrackerRecord
<1> QED BY <1>2, <1>3, <1>4 DEF Forgets

LEMMA SyncedForgets ==
  ASSUME NEW t \in TrackerRecord
  PROVE  /\ Track!Synced(t) \in TrackerRecord
         /\ IF t.gap THEN Forgets(t, Track!Synced(t)) ELSE Track!Synced(t) = t
BY InvalidateForgets DEF Track!Synced

\* One HWND is known under a new number, in this epoch.
Numbers(t, s, h, alive) ==
    /\ s.epoch = t.epoch /\ s.generation = t.generation + 1 /\ s.gap = t.gap /\ s.up = t.up
    /\ s.known[h] = [epoch |-> t.epoch, generation |-> t.generation + 1, alive |-> alive]
    /\ s.known[h] # None
    /\ \A g \in Hwnds : g # h => s.known[g] = t.known[g]

LEMMA NumbersIn ==
  ASSUME NEW t \in TrackerRecord, NEW h \in Hwnds, NEW alive \in BOOLEAN, NEW s,
         s = [t EXCEPT !.generation = @ + 1,
                       !.known[h] = [epoch |-> t.epoch, generation |-> t.generation + 1,
                                     alive |-> alive]]
  PROVE  s \in TrackerRecord /\ Numbers(t, s, h, alive)
<1> DEFINE l == [epoch |-> t.epoch, generation |-> t.generation + 1, alive |-> alive]
<1>1. l \in Lifetimes
  BY DEF Lifetimes, TrackerRecord
<1> HIDE DEF l
<1>2. s = [t EXCEPT !.generation = @ + 1, !.known[h] = l]
  BY DEF l
<1>3. s = [t EXCEPT !.generation = t.generation + 1, !.known = [t.known EXCEPT ![h] = l]]
  BY <1>2 DEF TrackerRecord
<1>4. [t.known EXCEPT ![h] = l] \in Table
  BY <1>1 DEF TrackerRecord, Table
<1> DEFINE k == [t.known EXCEPT ![h] = l]
<1>5. s \in TrackerRecord
  <2>1. s = [t EXCEPT !.generation = t.generation + 1, !.known = k]
    BY <1>3
  <2>2. k \in Table
    BY <1>4
  <2> HIDE DEF k
  <2>3. s = [epoch |-> t.epoch, generation |-> t.generation + 1, known |-> k,
             gap |-> t.gap, up |-> t.up]
    BY <2>1 DEF TrackerRecord
  <2> QED BY <2>2, <2>3 DEF TrackerRecord
<1>6. s.known[h] = l /\ \A g \in Hwnds : g # h => s.known[g] = t.known[g]
  <2>1. s.known = [t.known EXCEPT ![h] = l]
    BY <1>3 DEF TrackerRecord
  <2>2. t.known \in Table
    BY DEF TrackerRecord
  <2> QED BY <2>1, <2>2 DEF Table
<1> QED BY <1>1, <1>3, <1>5, <1>6, NoneIsNone DEF Numbers, l, TrackerRecord

LEMMA EventNumbers ==
  ASSUME NEW t \in TrackerRecord, NEW h \in Hwnds, NEW event
  PROVE  /\ Track!Event(t, h, event) \in TrackerRecord
         /\ IF t.known[h] = None THEN Track!Event(t, h, event) = t
            ELSE Numbers(t, Track!Event(t, h, event), h, event = "create")
BY NumbersIn DEF Track!Event

LEMMA SnapshotNumbers ==
  ASSUME NEW t \in TrackerRecord, ~t.gap, NEW h \in Hwnds, NEW alive \in BOOLEAN
  PROVE  LET s == Track!Snapshot(t, h, alive) IN
         /\ s \in TrackerRecord
         /\ \/ s = t /\ t.known[h] # None /\ t.known[h].alive = alive
            \/ /\ t.known[h] = None \/ t.known[h].alive # alive
               /\ \/ Numbers(t, s, h, alive)
                  \/ \E r \in TrackerRecord : Forgets(t, r) /\ Numbers(r, s, h, alive)
<1> DEFINE r == Track!Room(t, h)
<1>1. r \in TrackerRecord /\ (r = t \/ Forgets(t, r))
  BY InvalidateForgets DEF Track!Room
<1>2. CASE t.known[h] # None /\ t.known[h].alive = alive
  BY <1>2 DEF Track!Snapshot
<1>3. CASE ~(t.known[h] # None /\ t.known[h].alive = alive)
  <2> HIDE DEF r
  <2>1. Track!Snapshot(t, h, alive)
          = [r EXCEPT !.generation = @ + 1,
                      !.known[h] = [epoch |-> r.epoch, generation |-> r.generation + 1,
                                    alive |-> alive]]
    BY <1>3 DEF Track!Snapshot, r
  <2>2. /\ Track!Snapshot(t, h, alive) \in TrackerRecord
        /\ Numbers(r, Track!Snapshot(t, h, alive), h, alive)
    BY <1>1, <2>1, NumbersIn
  <2> QED BY <1>1, <1>3, <2>2
<1> QED BY <1>2, <1>3

LEMMA WindowTypesStep ==
  ASSUME WindowTypes, CallTypes, StepsInv, TrackerInv, WindowSteps
  PROVE  WindowTypes'
<1> USE DEF WindowTypes
<1>0. CASE UNCHANGED Track!vars
  BY <1>0 DEF Track!vars, Track!osVars, Track!trackerVars, Track!clientVars
<1>1. CASE Track!Miss
  <2>1. hook' \in Seq(Events)
    BY <1>1, WithoutIn DEF Track!Miss
  <2>2. tracker' \in TrackerRecord
    BY <1>1 DEF Track!Miss, TrackerRecord
  <2> QED BY <1>1, <2>1, <2>2 DEF Track!Miss, Track!osVars, Track!clientVars
<1>2. CASE Track!Pump
  <2>1. Head(hook) = hook[1] /\ Head(hook) \in Events /\ Tail(hook) \in Seq(Events) /\ 1 \in 1..Len(hook)
    BY <1>2, TailIn DEF Track!Pump
  <2>2. CASE Head(hook).event = "fence"
    BY <1>2, <2>1, <2>2, SyncedForgets DEF Track!Pump, Track!osVars, Track!clientVars
  <2>3. CASE Head(hook).event # "fence"
    <3>1. Head(hook).hwnd \in Hwnds
      BY <2>1, <2>3 DEF TrackerInv
    <3> QED BY <1>2, <2>1, <2>3, <3>1, EventNumbers DEF Track!Pump, Track!osVars, Track!clientVars
  <2> QED BY <2>2, <2>3
<1>3. CASE Track!Look
  <2>1. Track!IsWindow(serving.hwnd) \in BOOLEAN
    BY DEF Track!IsWindow
  <2> QED BY <1>3, <2>1 DEF Track!Look, Track!osVars, Track!clientVars
<1>4. CASE Track!Answer
  <2>1. serving.hwnd \in Hwnds /\ serving.alive \in BOOLEAN
    BY <1>4 DEF Track!Answer, TrackerInv
  <2>2. ~Track!Synced(tracker).gap /\ Track!Synced(tracker) \in TrackerRecord
    BY SyncedForgets DEF Forgets
  <2>3. tracker' \in TrackerRecord
    BY <1>4, <2>1, <2>2, SnapshotNumbers DEF Track!Answer
  <2> QED BY <1>4, <2>3 DEF Track!Answer, Track!Idle, Track!osVars
<1>5. CASE Track!FenceFails
  <2>1. tracker' \in TrackerRecord
    BY <1>5 DEF Track!FenceFails, TrackerRecord
  <2>2. <<>> \in Seq(Events)
    BY EmptySeq
  <2> QED BY <1>5, <2>1, <2>2 DEF Track!FenceFails, Track!Idle, Track!osVars, Track!clientVars
<1>6. CASE Track!Expire
  BY <1>6 DEF Track!Expire, Track!osVars, Track!trackerVars, Track!clientVars
<1>7. ASSUME NEW h \in Hwnds, Track!Open(h) PROVE WindowTypes'
  <2>1. Append(hook, [event |-> "create", hwnd |-> h]) \in Seq(Events)
    BY AppendIn DEF Events
  <2> QED BY <1>7, <2>1 DEF Track!Open, Track!trackerVars, Track!clientVars
<1>8. ASSUME NEW h \in Hwnds, Track!Destroy(h) PROVE WindowTypes'
  <2>1. Append(hook, [event |-> "destroy", hwnd |-> h]) \in Seq(Events)
    BY AppendIn DEF Events
  <2> QED BY <1>8, <2>1 DEF Track!Destroy, Track!clientVars
<1>9. ASSUME NEW h \in Hwnds, Track!Vanish(h) PROVE WindowTypes'
  BY <1>9
  DEF Track!Vanish, Track!osVars, Track!trackerVars, Track!clientVars, Track!Free
<1>10. ASSUME NEW d \in WindowCallers, Track!Take(d) PROVE WindowTypes'
  <2>1. call[d].hwnd \in Hwnds
    BY <1>10 DEF Track!Take, Track!Asking, StepsInv, Steps, Reads, Looked
  <2>2. tracker' \in TrackerRecord
    BY <1>10, SyncedForgets DEF Track!Take
  <2>3. hook' \in Seq(Events)
    BY <1>10, AppendIn DEF Track!Take, Events
  <2>4. serving' \in [step : {"idle", "fence", "look", "answer"}, for : WindowCallers \cup {None},
                     hwnd : Hwnds \cup {None}, alive : BOOLEAN]
    BY <1>10, <2>1 DEF Track!Take, Track!Idle
  <2> QED BY <1>10, <2>2, <2>3, <2>4 DEF Track!Take, Track!osVars, Track!clientVars
<1>11. ASSUME NEW d \in WindowCallers, Track!Start(d) PROVE WindowTypes'
  BY <1>11 DEF Track!Start, Track!osVars, Track!trackerVars, Track!clientVars, Track!Set
<1>12. ASSUME NEW d \in WindowCallers, Track!Get(d) PROVE WindowTypes'
  BY <1>12 DEF Track!Get, Track!osVars, Track!trackerVars, Track!clientVars, Track!Set
<1>13. ASSUME NEW d \in WindowCallers, Track!NoTracker(d) PROVE WindowTypes'
  BY <1>13 DEF Track!NoTracker, Track!osVars, Track!trackerVars, Track!clientVars, Track!Set
<1>14. ASSUME NEW d \in WindowCallers, Track!ReadOwner(d) PROVE WindowTypes'
  BY <1>14 DEF Track!ReadOwner, Track!osVars, Track!trackerVars, Track!clientVars, Track!Set
<1>15. ASSUME NEW d \in WindowCallers, Track!FirstReading(d) PROVE WindowTypes'
  BY <1>15 DEF Track!FirstReading, Track!osVars, Track!trackerVars, Track!clientVars,
               Track!Set
<1>16. ASSUME NEW d \in WindowCallers, Track!Data(d) PROVE WindowTypes'
  BY <1>16 DEF Track!Data, Track!osVars, Track!trackerVars, Track!clientVars, Track!Set
<1>17. ASSUME NEW d \in WindowCallers, Track!SecondReading(d) PROVE WindowTypes'
  BY <1>17 DEF Track!SecondReading, Track!osVars, Track!trackerVars, Track!clientVars,
               Track!Set
<1>18. ASSUME NEW d \in WindowCallers, Track!Recheck(d) PROVE WindowTypes'
  BY <1>18 DEF Track!Recheck, Track!osVars, Track!trackerVars, Track!clientVars, Track!Set
<1>19. ASSUME NEW d \in WindowCallers, Track!Act(d) PROVE WindowTypes'
  <2>1. UNCHANGED <<lives, hook, tracker, serving>>
    BY <1>19 DEF Track!Act, Track!trackerVars
  <2>2. \/ UNCHANGED window
        \/ window' = [window EXCEPT ![call[d].hwnd].small = TRUE]
    BY <1>19 DEF Track!Act
  <2>3. call[d].hwnd \in Hwnds
    BY <1>19 DEF Track!Act, StepsInv, Steps
  <2>4. window[call[d].hwnd] \in [life : Nat, phase : {"none", "open", "dying"}, small : BOOLEAN]
    BY <2>3
  <2>5. [window[call[d].hwnd] EXCEPT !.small = TRUE]
          \in [life : Nat, phase : {"none", "open", "dying"}, small : BOOLEAN]
    BY <2>4
  <2> QED BY <2>1, <2>2, <2>3, <2>5
<1>20. ASSUME NEW d \in WindowCallers, Track!LookGone(d) PROVE WindowTypes'
  BY <1>20 DEF Track!LookGone, Track!osVars, Track!trackerVars, Track!clientVars, Track!Set
<1>21. ASSUME NEW d \in WindowCallers, Track!ReadGone(d) PROVE WindowTypes'
  BY <1>21 DEF Track!ReadGone, Track!osVars, Track!trackerVars, Track!clientVars, Track!Set
<1>22. ASSUME NEW d \in WindowCallers, Track!Fails(d) PROVE WindowTypes'
  BY <1>22 DEF Track!Fails, Track!osVars, Track!trackerVars, Track!clientVars, Track!Set
<1>23. ASSUME NEW d \in WindowCallers, Track!GiveUp(d) PROVE WindowTypes'
  BY <1>23 DEF Track!GiveUp, Track!osVars, Track!trackerVars, Track!clientVars, Track!Set
<1> QED BY <1>0, <1>1, <1>2, <1>3, <1>4, <1>5, <1>6, <1>7, <1>8, <1>9, <1>10, <1>11, <1>12,
           <1>13, <1>14, <1>15, <1>16, <1>17, <1>18, <1>19, <1>20, <1>21, <1>22, <1>23,
           WindowCases

LEMMA RecordsIn ==
  /\ \A v \in {"none", "closed", "minimized"}, l \in Nat : Track!Ended(v, l) \in CallRecord
  /\ \A r \in CallRecord : Track!Failed(r) \in CallRecord
  /\ \A r \in CallRecord, s \in Track!Recording \cup {"recheck", "gone"} :
        Track!Reading(r, s) \in CallRecord
  /\ \A r \in CallRecord : r.hwnd \in Hwnds /\ r.first # None => Track!Identity(r) \in Identities
<1>1. \A v \in {"none", "closed", "minimized"}, l \in Nat : Track!Ended(v, l) \in CallRecord
  BY DEF Track!Ended, CallRecord
<1>2. \A r \in CallRecord : Track!Failed(r) \in CallRecord
  BY DEF Track!Failed, CallRecord
<1>3. \A r \in CallRecord, s \in Track!Recording \cup {"recheck", "gone"} :
        Track!Reading(r, s) \in CallRecord
  BY ZenonT(60) DEF Track!Reading, CallRecord
<1>4. \A r \in CallRecord : r.hwnd \in Hwnds /\ r.first # None => Track!Identity(r) \in Identities
  BY DEF Track!Identity, Identities, CallRecord, Lifetimes
<1> QED BY <1>1, <1>2, <1>3, <1>4

\* One call moves.
Moves(d) ==
    /\ call' \in [WindowCallers -> CallRecord]
    /\ \A e \in WindowCallers : e # d => call'[e] = call[e]

\* What the kinds of step leave of a call: another step, a new reading, or the end.
Alike(r, q) ==
    /\ q.stage = r.stage /\ q.pass = r.pass /\ q.hwnd = r.hwnd /\ q.ref = r.ref
    /\ q.expected = r.expected /\ q.id = r.id /\ q.first = r.first /\ q.life = r.life
    /\ q.shown = r.shown /\ q.verdict = r.verdict
FailedTo(r, q) == Alike(r, q) /\ q.step = "failed"
Begun(r, q, stage) ==
    /\ q.stage = stage /\ q.step = "first" /\ q.pass = 1 /\ q.first = None
    /\ q.ref = r.ref /\ q.verdict = r.verdict
Staged(r, q, stage, step) ==
    /\ q.stage = stage /\ q.step = step /\ q.hwnd = r.hwnd /\ q.ref = r.ref
    /\ q.expected = r.expected /\ q.life = r.life /\ q.verdict = r.verdict
Over(q, verdict, l) ==
    /\ q.stage = "none" /\ q.step = "end" /\ q.pass = 0 /\ q.ref = 0
    /\ q.verdict = verdict /\ q.life = l

LEMMA SetMoves ==
  ASSUME CallTypes, NEW d \in WindowCallers, NEW q \in CallRecord, Track!Set(d, q)
  PROVE  Moves(d) /\ call'[d] = q
BY DEF CallTypes, Track!Set, Moves

LEMMA KindsOfStep ==
  ASSUME NEW r \in CallRecord
  PROVE  /\ FailedTo(r, Track!Failed(r))
         /\ \A s \in Track!Recording \cup {"recheck", "gone"} :
               /\ Begun(r, Track!Reading(r, s), s)
               /\ Track!Reading(r, s).hwnd = r.hwnd /\ Track!Reading(r, s).expected = r.expected
               /\ Track!Reading(r, s).life = r.life
         /\ \A v \in {"none", "closed", "minimized"}, l \in Nat : Over(Track!Ended(v, l), v, l)
<1>1. FailedTo(r, Track!Failed(r))
  BY DEF FailedTo, Alike, Track!Failed, CallRecord
<1>2. ASSUME NEW s \in Track!Recording \cup {"recheck", "gone"}
      PROVE  /\ Begun(r, Track!Reading(r, s), s)
             /\ Track!Reading(r, s).hwnd = r.hwnd /\ Track!Reading(r, s).expected = r.expected
             /\ Track!Reading(r, s).life = r.life
  BY DEF Begun, Track!Reading, CallRecord
<1>3. ASSUME NEW v \in {"none", "closed", "minimized"}, NEW l \in Nat
      PROVE  Over(Track!Ended(v, l), v, l)
  BY DEF Over, Track!Ended
<1> QED BY <1>1, <1>2, <1>3

LEMMA NoTrackerMoves ==
  ASSUME WindowTypes, CallTypes, StepsInv, NEW d \in WindowCallers, Track!NoTracker(d)
  PROVE  LET r == call[d]
             q == call'[d]
         IN Moves(d) /\ FailedTo(r, q)
<1> DEFINE r == call[d]
<1>0. r \in CallRecord
  BY DEF CallTypes
<1> QED BY <1>0, RecordsIn, KindsOfStep, SetMoves DEF Track!NoTracker

LEMMA ReadOwnerMoves ==
  ASSUME WindowTypes, CallTypes, StepsInv, NEW d \in WindowCallers, Track!ReadOwner(d)
  PROVE  LET r == call[d]
             q == call'[d]
         IN /\ r.step = "owner" /\ Moves(d)
            /\ FailedTo(r, q) \/ (Alike(r, q) /\ q.step = "second")
<1> DEFINE r == call[d]
<1>0. r \in CallRecord
  BY DEF CallTypes
<1> DEFINE q1 == [r EXCEPT !.step = "second"]
<1>1. q1 \in CallRecord /\ Alike(r, q1) /\ q1.step = "second"
  BY <1>0 DEF CallRecord, Alike
<1> HIDE DEF q1
<1>2. r.step = "owner" /\ (Track!Set(d, q1) \/ Track!Set(d, Track!Failed(r)))
  BY DEF Track!ReadOwner, q1
<1> QED BY <1>0, <1>1, <1>2, RecordsIn, KindsOfStep, SetMoves

LEMMA FirstReadingMoves ==
  ASSUME WindowTypes, CallTypes, StepsInv, NEW d \in WindowCallers, Track!FirstReading(d)
  PROVE  LET r == call[d]
             q == call'[d]
         IN /\ r.step = "same" /\ r.stage \in Track!Recording /\ r.pass = 1 /\ Moves(d)
            /\ \/ FailedTo(r, q)
               \/ /\ Staged(r, q, r.stage, "data")
                  /\ q.id = Track!Identity(r)
<1> DEFINE r == call[d]
<1>0. r \in CallRecord
  BY DEF CallTypes
<1> DEFINE q1 == [r EXCEPT !.step = "data", !.id = Track!Identity(r)]
<1>1. r.step = "same" /\ r.stage \in Track!Recording /\ r.pass = 1
  BY DEF Track!FirstReading
<1>2. q1 \in CallRecord /\ q1.id = Track!Identity(r) /\ Staged(r, q1, r.stage, "data")
  <2>1. Track!Identity(r) \in Identities
    BY <1>0, <1>1, RecordsIn DEF StepsInv, Steps, Reads, Looked
  <2> QED BY <1>0, <2>1 DEF CallRecord, Staged
<1> HIDE DEF q1
<1>3. Track!Set(d, q1) \/ Track!Set(d, Track!Failed(r))
  BY DEF Track!FirstReading, q1
<1> QED BY <1>0, <1>1, <1>2, <1>3, RecordsIn, KindsOfStep, SetMoves

LEMMA DataMoves ==
  ASSUME WindowTypes, CallTypes, StepsInv, NEW d \in WindowCallers, Track!Data(d)
  PROVE  LET r == call[d]
             q == call'[d]
         IN /\ r.step = "data" /\ r.stage \in Track!Recording /\ Moves(d)
            /\ \/ FailedTo(r, q)
               \/ /\ window[r.hwnd].phase # "none" /\ q.shown = window[r.hwnd].life
                  /\ Staged(r, q, r.stage, "first") /\ q.pass = 2 /\ q.id = r.id
<1> DEFINE r == call[d]
<1>0. r \in CallRecord
  BY DEF CallTypes
<1> DEFINE there == window[r.hwnd]
           q1 == [r EXCEPT !.step = "first", !.first = None, !.pass = 2,
                           !.small = there.small, !.shown = there.life]
<1>1. r.step = "data" /\ r.stage \in Track!Recording /\ r.hwnd \in Hwnds
  BY DEF Track!Data, StepsInv, Steps
<1>2. /\ q1 \in CallRecord /\ Staged(r, q1, r.stage, "first")
      /\ q1.pass = 2 /\ q1.id = r.id /\ q1.shown = there.life
  <2>1. there.small \in BOOLEAN /\ there.life \in Nat
    BY <1>1 DEF WindowTypes
  <2> HIDE DEF there
  <2> QED BY ZenonT(60), <1>0, <2>1 DEF CallRecord, Staged
<1>3. Track!Set(d, Track!Failed(r)) \/ (Track!Set(d, q1) /\ there.phase # "none")
  BY DEF Track!Data
<1> HIDE DEF q1
<1> QED BY <1>0, <1>1, <1>2, <1>3, RecordsIn, KindsOfStep, SetMoves

LEMMA GetMoves ==
  ASSUME WindowTypes, CallTypes, StepsInv, NEW d \in WindowCallers, Track!Get(d)
  PROVE  LET r == call[d]
             q == call'[d]
         IN /\ r.step = "get" /\ Moves(d)
            /\ \/ FailedTo(r, q)
               \/ \E i \in 1..Len(refs) :
                    /\ refs[i].ref = r.ref /\ Begun(r, q, r.stage) /\ q.life = r.life
                    /\ q.hwnd = refs[i].id.hwnd /\ q.expected = refs[i].id
<1> DEFINE r == call[d]
<1>0. r \in CallRecord
  BY DEF CallTypes
<1>1. r.step = "get" /\ r.stage \in Track!Recording
  BY DEF Track!Get, StepsInv, Steps, Track!Recording
<1>2. CASE Track!Set(d, Track!Failed(r))
  BY <1>0, <1>1, <1>2, RecordsIn, KindsOfStep, SetMoves
<1>3. ASSUME NEW e \in {f \in Track!Entries : f.ref = r.ref},
             Track!Set(d, [Track!Reading(r, r.stage) EXCEPT !.hwnd = e.id.hwnd, !.expected = e.id])
      PROVE  /\ Moves(d)
             /\ \E i \in 1..Len(refs) :
                  /\ refs[i].ref = r.ref /\ Begun(r, call'[d], r.stage) /\ call'[d].life = r.life
                  /\ call'[d].hwnd = refs[i].id.hwnd /\ call'[d].expected = refs[i].id
  <2> DEFINE q0 == Track!Reading(r, r.stage)
             q1 == [q0 EXCEPT !.hwnd = e.id.hwnd, !.expected = e.id]
  <2>1. PICK i \in 1..Len(refs) : refs[i] = e /\ e.ref = r.ref
    BY <1>3 DEF Track!Entries
  <2>2. e.id \in Identities /\ e.id.hwnd \in Hwnds
    <3>1. refs[i] \in Entry
      BY <2>1, ElementOfSeq DEF CallTypes
    <3> QED BY <2>1, <3>1 DEF Entry, Identities
  <2>3. q0 \in CallRecord /\ Begun(r, q0, r.stage) /\ q0.life = r.life
    BY <1>0, <1>1, RecordsIn, KindsOfStep
  <2>4. Track!Set(d, q1)
    BY <1>3
  <2> HIDE DEF q0
  <2>5. /\ q1 \in CallRecord /\ Begun(r, q1, r.stage) /\ q1.life = r.life
        /\ q1.hwnd = e.id.hwnd /\ q1.expected = e.id
    BY <2>2, <2>3 DEF CallRecord, Begun
  <2> HIDE DEF q1
  <2>6. Moves(d) /\ call'[d] = q1
    BY <2>4, <2>5, SetMoves
  <2> QED BY <2>1, <2>5, <2>6
<1> QED BY <1>1, <1>2, <1>3 DEF Track!Get

LEMMA RecheckMoves ==
  ASSUME WindowTypes, CallTypes, StepsInv, NEW d \in WindowCallers, Track!Recheck(d)
  PROVE  LET r == call[d]
             q == call'[d]
         IN /\ r.step = "same" /\ r.stage = "recheck" /\ Moves(d)
            /\ FailedTo(r, q) \/ (Alike(r, q) /\ q.step = "act")
<1> DEFINE r == call[d]
<1>0. r \in CallRecord
  BY DEF CallTypes
<1> DEFINE q1 == [r EXCEPT !.step = "act"]
<1>1. q1 \in CallRecord /\ Alike(r, q1) /\ q1.step = "act"
  BY <1>0 DEF CallRecord, Alike
<1> HIDE DEF q1
<1>2. /\ r.step = "same" /\ r.stage = "recheck"
      /\ Track!Set(d, q1) \/ Track!Set(d, Track!Failed(r))
  BY DEF Track!Recheck, q1
<1> QED BY <1>0, <1>1, <1>2, RecordsIn, KindsOfStep, SetMoves

LEMMA ActMoves ==
  ASSUME WindowTypes, CallTypes, StepsInv, NEW d \in WindowCallers, Track!Act(d)
  PROVE  LET r == call[d]
             q == call'[d]
         IN /\ r.step = "act" /\ Moves(d)
            /\ \/ Over(q, "none", 0)
               \/ Staged(r, q, "gone", "look")
               \/ Staged(r, q, "poll", "get")
<1> DEFINE r == call[d]
<1>0. r \in CallRecord
  BY DEF CallTypes
<1> DEFINE q1 == [r EXCEPT !.stage = "gone", !.step = "look"]
           q2 == [r EXCEPT !.stage = "poll", !.step = "get"]
<1>1. q1 \in CallRecord /\ Staged(r, q1, "gone", "look")
  BY ZenonT(60), <1>0 DEF CallRecord, Staged
<1>2. q2 \in CallRecord /\ Staged(r, q2, "poll", "get")
  BY ZenonT(60), <1>0 DEF CallRecord, Staged, Track!Recording
<1> HIDE DEF q1, q2
<1>3. /\ r.step = "act"
      /\ Track!Set(d, q1) \/ Track!Set(d, q2) \/ Track!Set(d, Track!Ended("none", 0))
  BY DEF Track!Act, q1, q2
<1> QED BY <1>0, <1>1, <1>2, <1>3, RecordsIn, KindsOfStep, SetMoves

LEMMA LookGoneMoves ==
  ASSUME WindowTypes, CallTypes, StepsInv, NEW d \in WindowCallers, Track!LookGone(d)
  PROVE  LET r == call[d]
             q == call'[d]
         IN /\ r.step = "look" /\ r.stage = "gone" /\ Moves(d)
            /\ \/ /\ Begun(r, q, "gone") /\ Track!IsWindow(r.hwnd)
                  /\ q.hwnd = r.hwnd /\ q.expected = r.expected /\ q.life = r.life
               \/ Over(q, "closed", r.life) /\ ~Track!IsWindow(r.hwnd)
<1> DEFINE r == call[d]
<1>0. r \in CallRecord
  BY DEF CallTypes
<1>1. /\ r.step = "look" /\ r.stage = "gone"
      /\ \/ Track!Set(d, Track!Reading(r, "gone")) /\ Track!IsWindow(r.hwnd)
         \/ Track!Set(d, Track!Ended("closed", r.life)) /\ ~Track!IsWindow(r.hwnd)
  BY DEF Track!LookGone
<1>2. r.life \in Nat
  BY <1>0 DEF CallRecord
<1> QED BY <1>0, <1>1, <1>2, RecordsIn, KindsOfStep, SetMoves

LEMMA ReadGoneMoves ==
  ASSUME WindowTypes, CallTypes, StepsInv, NEW d \in WindowCallers, Track!ReadGone(d)
  PROVE  LET r == call[d]
             q == call'[d]
         IN /\ r.step = "same" /\ r.stage = "gone" /\ Moves(d)
            /\ \/ FailedTo(r, q)
               \/ /\ Over(q, "closed", r.life)
                  /\ Track!Identity(r).epoch = r.expected.epoch /\ Track!Identity(r) # r.expected
               \/ Staged(r, q, "show", "get")
<1> DEFINE r == call[d]
<1>0. r \in CallRecord
  BY DEF CallTypes
<1> DEFINE q1 == [r EXCEPT !.stage = "show", !.step = "get"]
<1>1. q1 \in CallRecord /\ Staged(r, q1, "show", "get") /\ r.life \in Nat
  BY ZenonT(60), <1>0 DEF CallRecord, Staged, Track!Recording
<1> HIDE DEF q1
<1>2. /\ r.step = "same" /\ r.stage = "gone"
      /\ \/ Track!Set(d, q1) \/ Track!Set(d, Track!Failed(r))
         \/ /\ Track!Set(d, Track!Ended("closed", r.life))
            /\ Track!Identity(r).epoch = r.expected.epoch /\ Track!Identity(r) # r.expected
  BY DEF Track!ReadGone, q1
<1> QED BY <1>0, <1>1, <1>2, RecordsIn, KindsOfStep, SetMoves

LEMMA FailsMoves ==
  ASSUME WindowTypes, CallTypes, StepsInv, NEW d \in WindowCallers, Track!Fails(d)
  PROVE  LET r == call[d]
             q == call'[d]
         IN /\ r.step = "failed" /\ Moves(d)
            /\ \/ r.stage = "gone" /\ ~Track!IsWindow(r.hwnd) /\ Over(q, "closed", r.life)
               \/ r.stage \in {"gone", "show"} /\ Staged(r, q, "gone", "look")
               \/ Over(q, "none", 0)
<1> DEFINE r == call[d]
<1>0. r \in CallRecord
  BY DEF CallTypes
<1> DEFINE q1 == [r EXCEPT !.stage = "gone", !.step = "look"]
<1>1. q1 \in CallRecord /\ Staged(r, q1, "gone", "look") /\ r.life \in Nat
  BY ZenonT(60), <1>0 DEF CallRecord, Staged
<1> HIDE DEF q1
<1>2. /\ r.step = "failed"
      /\ \/ /\ r.stage = "gone" /\ ~Track!IsWindow(r.hwnd)
            /\ Track!Set(d, Track!Ended("closed", r.life))
         \/ r.stage \in {"gone", "show"} /\ Track!Set(d, q1)
         \/ Track!Set(d, Track!Ended("none", 0))
  BY DEF Track!Fails, q1
<1> QED BY <1>0, <1>1, <1>2, RecordsIn, KindsOfStep, SetMoves

LEMMA GiveUpMoves ==
  ASSUME WindowTypes, CallTypes, StepsInv, NEW d \in WindowCallers, Track!GiveUp(d)
  PROVE  LET r == call[d]
             q == call'[d]
         IN Moves(d) /\ Over(q, "none", 0) /\ r.step # "end"
<1> DEFINE r == call[d]
<1>0. r \in CallRecord
  BY DEF CallTypes
<1> QED BY <1>0, RecordsIn, KindsOfStep, SetMoves DEF Track!GiveUp

LEMMA StartMoves ==
  ASSUME WindowTypes, CallTypes, StepsInv, RefsInv, NEW d \in WindowCallers, Track!Start(d)
  PROVE  LET r == call[d]
             q == call'[d]
         IN /\ r.step = "end" /\ Moves(d)
            /\ q.verdict = "none" /\ q.ref <= fresh
            /\ \/ q.stage = "list" /\ q.step = "first" /\ q.pass = 1 /\ q.hwnd \in Hwnds
               \/ q.stage \in {"resolve", "select"} /\ q.step = "get"
<1> DEFINE r == call[d]
<1>0. r \in CallRecord
  BY DEF CallTypes
<1> DEFINE q0 == Track!Ended("none", 0)
<1>1. q0 \in CallRecord /\ Over(q0, "none", 0)
  BY RecordsIn, KindsOfStep
<1>2. ASSUME NEW h \in Hwnds,
             Track!Set(d, Track!Reading([q0 EXCEPT !.hwnd = h, !.op = "list"], "list"))
      PROVE  /\ Moves(d) /\ call'[d].verdict = "none" /\ call'[d].ref <= fresh
             /\ call'[d].stage = "list" /\ call'[d].step = "first" /\ call'[d].pass = 1
             /\ call'[d].hwnd \in Hwnds
  <2> DEFINE q1 == [q0 EXCEPT !.hwnd = h, !.op = "list"]
  <2> HIDE DEF q0
  <2>1. q1 \in CallRecord /\ q1.hwnd = h /\ q1.verdict = "none" /\ q1.ref = 0
    BY <1>1 DEF CallRecord, Over
  <2> HIDE DEF q1
  <2>2. "list" \in Track!Recording \cup {"recheck", "gone"}
    BY DEF Track!Recording
  <2>3. /\ Track!Reading(q1, "list") \in CallRecord /\ Begun(q1, Track!Reading(q1, "list"), "list")
        /\ Track!Reading(q1, "list").hwnd = h
    BY <2>1, <2>2, RecordsIn, KindsOfStep
  <2>4. Moves(d) /\ call'[d] = Track!Reading(q1, "list")
    BY <1>2, <2>3, SetMoves DEF q1
  <2> QED BY <2>1, <2>3, <2>4 DEF Begun, CallTypes
<1>3. ASSUME NEW s \in told, NEW op \in {"resolve", "minimize", "close"},
             Track!Set(d, [q0 EXCEPT !.op = op, !.ref = s[1], !.step = "get",
                             !.stage = IF op = "resolve" THEN "resolve" ELSE "select"])
      PROVE  /\ Moves(d) /\ call'[d].verdict = "none" /\ call'[d].ref <= fresh
             /\ call'[d].stage \in {"resolve", "select"} /\ call'[d].step = "get"
  <2> DEFINE st == IF op = "resolve" THEN "resolve" ELSE "select"
             q1 == [q0 EXCEPT !.op = op, !.ref = s[1], !.step = "get", !.stage = st]
  <2>1. s[1] \in Nat /\ s[1] <= fresh /\ st \in {"resolve", "select"}
    BY DEF CallTypes, RefsInv
  <2> HIDE DEF q0, st
  <2>2. q1 \in CallRecord /\ q1.ref = s[1] /\ q1.verdict = "none" /\ q1.step = "get" /\ q1.stage = st
    BY ZenonT(60), <1>1, <2>1 DEF CallRecord, Over, Track!Recording
  <2>3. Track!Set(d, q1)
    BY <1>3 DEF st
  <2> HIDE DEF q1
  <2> QED BY <2>1, <2>2, <2>3, SetMoves
<1>4. r.step = "end"
  BY DEF Track!Start
<1>5. \/ \E h \in Hwnds : Track!Set(d, Track!Reading([q0 EXCEPT !.hwnd = h, !.op = "list"], "list"))
      \/ \E s \in told, op \in {"resolve", "minimize", "close"} :
            Track!Set(d, [q0 EXCEPT !.op = op, !.ref = s[1], !.step = "get",
                             !.stage = IF op = "resolve" THEN "resolve" ELSE "select"])
  <2> HIDE DEF q0
  <2> QED BY DEF Track!Start, q0
<1> HIDE DEF q0
<1> QED BY <1>2, <1>3, <1>4, <1>5

\* What an answer leaves of the tracker.
Answered(t, s, h, alive) ==
    /\ s \in TrackerRecord
    /\ \E v \in TrackerRecord :
        /\ IF t.gap THEN Forgets(t, v) ELSE v = t
        /\ \/ s = v /\ v.known[h] # None /\ v.known[h].alive = alive
           \/ /\ v.known[h] = None \/ v.known[h].alive # alive
              /\ \/ Numbers(v, s, h, alive)
                 \/ \E u \in TrackerRecord : Forgets(v, u) /\ Numbers(u, s, h, alive)

LEMMA AnswerTracker ==
  ASSUME WindowTypes, TrackerInv, Track!Answer
  PROVE  /\ serving.step = "answer" /\ serving.hwnd \in Hwnds /\ serving.alive \in BOOLEAN
         /\ Answered(tracker, tracker', serving.hwnd, serving.alive)
         /\ tracker' = Track!Snapshot(Track!Synced(tracker), serving.hwnd, serving.alive)
         /\ serving' = Track!Idle
         /\ UNCHANGED <<window, lives, hook, refs, fresh, told>>
<1> DEFINE v == Track!Synced(tracker)
<1>1. serving.step = "answer" /\ serving.hwnd \in Hwnds /\ serving.alive \in BOOLEAN
  BY DEF Track!Answer, WindowTypes, TrackerInv
<1>2. v \in TrackerRecord /\ (IF tracker.gap THEN Forgets(tracker, v) ELSE v = tracker) /\ ~v.gap
  BY SyncedForgets DEF WindowTypes, Forgets
<1>3. tracker' = Track!Snapshot(v, serving.hwnd, serving.alive)
  BY DEF Track!Answer
<1>4. serving' = Track!Idle /\ UNCHANGED <<window, lives, hook, refs, fresh, told>>
  BY DEF Track!Answer, Track!osVars
<1> HIDE DEF v
<1>5. Answered(tracker, tracker', serving.hwnd, serving.alive)
  BY <1>1, <1>2, <1>3, SnapshotNumbers DEF Answered
<1> QED BY <1>1, <1>3, <1>4, <1>5 DEF v

LEMMA AnswerMoves ==
  ASSUME WindowTypes, CallTypes, TrackerInv, StepsInv, Track!Answer
  PROVE  \/ UNCHANGED call
         \/ \E d \in WindowCallers :
              LET r == call[d]
                  q == call'[d]
                  lifetime == tracker'.known[serving.hwnd]
              IN /\ serving.for = d /\ Moves(d) /\ r.hwnd = serving.hwnd
                 /\ \/ FailedTo(r, q)
                    \/ /\ r.step = "first" /\ lifetime # None /\ lifetime.alive
                       /\ Staged(r, q, r.stage, "owner") /\ q.first = lifetime
                       /\ q.pass = r.pass /\ q.id = r.id /\ q.shown = r.shown
                    \/ /\ r.step = "second" /\ lifetime = r.first
                       /\ Alike(r, q) /\ q.step = "same"
<1> DEFINE lifetime == tracker'.known[serving.hwnd]
<1>1. CASE serving.for = None
  BY <1>1 DEF Track!Answer
<1>2. CASE serving.for # None
  <2> DEFINE d == serving.for
             r == call[d]
             q1 == [r EXCEPT !.step = "owner", !.first = lifetime]
             q2 == [r EXCEPT !.step = "same"]
  <2>1. d \in WindowCallers /\ r.hwnd = serving.hwnd /\ r.step \in {"first", "second"}
    BY <1>2 DEF WindowTypes, TrackerInv
  <2>2. r \in CallRecord
    BY <2>1 DEF CallTypes
  <2>3. lifetime \in Lifetimes /\ lifetime # None
    <3>1. Answered(tracker, tracker', serving.hwnd, serving.alive) /\ serving.hwnd \in Hwnds
      BY AnswerTracker
    <3>2. tracker' \in TrackerRecord /\ lifetime \in Lifetimes \cup {None}
      BY <3>1 DEF Answered, TrackerRecord, Table
    <3>3. lifetime # None
      BY <3>1 DEF Answered, Numbers
    <3> QED BY <3>2, <3>3
  <2>4. Track!Set(d, IF r.step = "first" THEN IF lifetime.alive THEN q1 ELSE Track!Failed(r)
                     ELSE IF lifetime = r.first THEN q2 ELSE Track!Failed(r))
    <3>1. tracker' = Track!Snapshot(Track!Synced(tracker), serving.hwnd, serving.alive)
      BY AnswerTracker
    <3> QED BY <1>2, <3>1 DEF Track!Answer
  <2>5. /\ q1 \in CallRecord /\ Staged(r, q1, r.stage, "owner") /\ q1.first = lifetime
        /\ q1.pass = r.pass /\ q1.id = r.id /\ q1.shown = r.shown
    <3> HIDE DEF lifetime
    <3> QED BY ZenonT(60), <2>2, <2>3 DEF CallRecord, Staged
  <2>6. q2 \in CallRecord /\ Alike(r, q2) /\ q2.step = "same"
    BY <2>2 DEF CallRecord, Alike
  <2>7. Track!Failed(r) \in CallRecord /\ FailedTo(r, Track!Failed(r))
    BY <2>2, RecordsIn, KindsOfStep
  <2> HIDE DEF q1, q2, lifetime
  <2> QED BY <2>1, <2>3, <2>4, <2>5, <2>6, <2>7, SetMoves DEF lifetime
<1> QED BY <1>1, <1>2

----------------------------------------------------------------------------
(* The references after a window was retained.                                          *)

LEMMA WithoutOwn ==
  ASSUME NEW s \in Seq(Entry), Unique(s), NEW h,
         NEW p \in 1..Len(s), s[p].id.hwnd = h
  PROVE  LET t == Track!Without(s, p) IN
         /\ t \in Seq(Entry) /\ Unique(t)
         /\ \A i \in 1..Len(t) : t[i].id.hwnd # h /\ \E j \in 1..Len(s) : t[i] = s[j]
<1> DEFINE t == Track!Without(s, p)
<1>1. /\ t \in Seq(Entry) /\ Len(t) = Len(s) - 1 /\ Len(s) \in Nat
      /\ \A j \in 1..(Len(s) - 1) : t[j] = IF j < p THEN s[j] ELSE s[j + 1]
  BY WithoutIn, LenProperties
<1> HIDE DEF t
<1>2. \A i \in 1..Len(t) : \E j \in 1..Len(s) : t[i] = s[j] /\ j # p /\ j = IF i < p THEN i ELSE i + 1
  BY <1>1
<1>3. \A i \in 1..Len(t) : t[i].id.hwnd # h /\ \E j \in 1..Len(s) : t[i] = s[j]
  BY <1>2 DEF Unique
<1>4. Unique(t)
  <2> SUFFICES ASSUME NEW i \in 1..Len(t), NEW k \in 1..Len(t),
                      t[i].ref = t[k].ref \/ t[i].id.hwnd = t[k].id.hwnd
               PROVE  i = k
    BY DEF Unique
  <2>1. PICK j \in 1..Len(s) : t[i] = s[j] /\ j = IF i < p THEN i ELSE i + 1
    BY <1>2
  <2>2. PICK m \in 1..Len(s) : t[k] = s[m] /\ m = IF k < p THEN k ELSE k + 1
    BY <1>2
  <2>3. j = m
    BY <2>1, <2>2 DEF Unique
  <2> QED BY <1>1, <2>1, <2>2, <2>3
<1> QED BY <1>1, <1>3, <1>4 DEF t

LEMMA KeptOf ==
  ASSUME NEW s \in Seq(Entry), Unique(s), NEW n \in Nat
  PROVE  LET t == Track!Kept(s, n) IN
         /\ t \in Seq(Entry) /\ Unique(t)
         /\ \A i \in 1..Len(t) : \E j \in 1..Len(s) : t[i] = s[j]
<1>1. CASE Len(s) <= n
  BY <1>1 DEF Track!Kept
<1>2. CASE ~(Len(s) <= n)
  <2> DEFINE m == Len(s) - n + 1
             t == SubSeq(s, m, Len(s))
  <2>1. Len(s) \in Nat /\ m \in 1..(Len(s) + 1)
    BY <1>2, LenProperties
  <2>2. /\ t \in Seq(Entry) /\ Len(t) = Len(s) - m + 1
        /\ \A i \in 1..(Len(s) - m + 1) : t[i] = s[m + i - 1]
    <3>1. m \in Int /\ Len(s) \in Int /\ \A i \in m..Len(s) : s[i] \in Entry
      BY SMTT(60), <2>1, ElementOfSeq
    <3> HIDE DEF m
    <3>2. /\ t \in Seq(Entry)
          /\ Len(t) = IF m <= Len(s) THEN Len(s) - m + 1 ELSE 0
          /\ \A i \in 1..(Len(s) - m + 1) : t[i] = s[m + i - 1]
      BY SMTT(60), <3>1, SubSeqProperties
    <3> HIDE DEF t
    <3> QED BY SMTT(60), <2>1, <3>2, LenProperties
  <2>3. Track!Kept(s, n) = t
    BY <1>2 DEF Track!Kept
  <2> HIDE DEF t
  <2>4. \A i \in 1..Len(t) : m + i - 1 \in 1..Len(s) /\ t[i] = s[m + i - 1]
    BY <2>1, <2>2
  <2>5. Unique(t)
    <3> SUFFICES ASSUME NEW i \in 1..Len(t), NEW k \in 1..Len(t),
                        t[i].ref = t[k].ref \/ t[i].id.hwnd = t[k].id.hwnd
                 PROVE  i = k
      BY DEF Unique
    <3>1. PICK a \in 1..Len(s) : a = m + i - 1 /\ t[i] = s[a]
      BY <2>4
    <3>2. PICK b \in 1..Len(s) : b = m + k - 1 /\ t[k] = s[b]
      BY <2>4
    <3>3. a = b
      BY <3>1, <3>2 DEF Unique
    <3> QED BY <2>1, <2>2, <3>1, <3>2, <3>3
  <2> QED BY <2>2, <2>3, <2>4, <2>5
<1> QED BY <1>1, <1>2

\* The new entry is the only one of its HWND and, if no other had its reference, of that.
Retained(ref, identity) ==
    /\ refs' \in Seq(Entry) /\ Unique(refs')
    /\ \A i \in 1..Len(refs') :
        \/ refs'[i] = [ref |-> ref, id |-> identity]
        \/ /\ refs'[i].id.hwnd # identity.hwnd /\ refs'[i].ref # ref
           /\ \E j \in 1..Len(refs) : refs'[i] = refs[j]

LEMMA RetainEntries ==
  ASSUME CallTypes, RefsInv, NEW ref \in Nat, NEW identity \in Identities,
         \A i \in 1..Len(refs) : refs[i].ref = ref => refs[i].id.hwnd = identity.hwnd,
         Track!Retain(ref, identity)
  PROVE  Retained(ref, identity)
<1> DEFINE h == identity.hwnd
           others == IF Track!Places(h) = {} THEN refs
                     ELSE Track!Without(refs, CHOOSE i \in Track!Places(h) : TRUE)
           rest == Track!Kept(others, MaxRefs - 1)
           new == [ref |-> ref, id |-> identity]
<1>1. refs \in Seq(Entry) /\ Unique(refs) /\ MaxRefs - 1 \in Nat
  BY TrackAssumption DEF CallTypes, RefsInv, Track!WindowsAssumption
<1>2. /\ others \in Seq(Entry) /\ Unique(others)
      /\ \A i \in 1..Len(others) : others[i].id.hwnd # h /\ \E j \in 1..Len(refs) : others[i] = refs[j]
  <2>1. CASE Track!Places(h) = {}
    BY <1>1, <2>1 DEF Track!Places
  <2>2. CASE Track!Places(h) # {}
    <3> DEFINE p == CHOOSE i \in Track!Places(h) : TRUE
    <3>1. p \in 1..Len(refs) /\ refs[p].id.hwnd = h
      BY <2>2 DEF Track!Places
    <3>2. others = Track!Without(refs, p)
      BY <2>2
    <3> HIDE DEF p, others
    <3> QED BY <1>1, <3>1, <3>2, WithoutOwn
  <2> QED BY <2>1, <2>2
<1> HIDE DEF others
<1>3. /\ rest \in Seq(Entry) /\ Unique(rest)
      /\ \A i \in 1..Len(rest) : \E j \in 1..Len(others) : rest[i] = others[j]
  BY <1>1, <1>2, KeptOf
<1> HIDE DEF rest
<1>4. \A i \in 1..Len(rest) : /\ rest[i].id.hwnd # h /\ rest[i].ref # ref
                              /\ \E j \in 1..Len(refs) : rest[i] = refs[j]
  <2> SUFFICES ASSUME NEW i \in 1..Len(rest)
               PROVE  /\ rest[i].id.hwnd # h /\ rest[i].ref # ref
                      /\ \E j \in 1..Len(refs) : rest[i] = refs[j]
    OBVIOUS
  <2>1. PICK k \in 1..Len(others) : rest[i] = others[k]
    BY <1>3
  <2>2. PICK j \in 1..Len(refs) : others[k] = refs[j]
    BY <1>2
  <2>3. others[k].id.hwnd # h
    BY <1>2
  <2> QED BY <2>1, <2>2, <2>3
<1>5. new \in Entry /\ new.ref = ref /\ new.id.hwnd = h
  BY DEF Entry
<1> HIDE DEF new
<1>6. /\ Append(rest, new) \in Seq(Entry) /\ Len(Append(rest, new)) = Len(rest) + 1
      /\ \A i \in 1..Len(rest) : Append(rest, new)[i] = rest[i]
      /\ Append(rest, new)[Len(rest) + 1] = new /\ Len(rest) \in Nat
  BY <1>3, <1>5, AppendIn, LenProperties
<1>7. refs' = Append(rest, new)
  BY DEF Track!Retain, others, rest, new
<1>8. \A i \in 1..Len(refs') : i \in 1..Len(rest) \/ i = Len(rest) + 1
  BY <1>6, <1>7
<1>9. Unique(refs')
  <2> SUFFICES ASSUME NEW i \in 1..Len(refs'), NEW k \in 1..Len(refs'),
                      refs'[i].ref = refs'[k].ref \/ refs'[i].id.hwnd = refs'[k].id.hwnd
               PROVE  i = k
    BY DEF Unique
  <2>1. CASE i \in 1..Len(rest) /\ k \in 1..Len(rest)
    BY <1>3, <1>6, <1>7, <2>1 DEF Unique
  <2>2. CASE i \in 1..Len(rest) /\ k = Len(rest) + 1
    BY <1>4, <1>5, <1>6, <1>7, <2>2
  <2>3. CASE i = Len(rest) + 1 /\ k \in 1..Len(rest)
    BY <1>4, <1>5, <1>6, <1>7, <2>3
  <2> QED BY <1>8, <2>1, <2>2, <2>3
<1> QED BY <1>4, <1>6, <1>7, <1>8, <1>9 DEF Retained, new

\* What a handler makes of a record it obtained.
Recorded(r, q) ==
    \/ r.stage \in {"list", "resolve"} /\ Over(q, "none", 0)
    \/ r.stage = "select" /\ Staged(r, q, "before", "get")
    \/ r.stage = "before" /\ Begun(r, q, "recheck") /\ q.hwnd = r.hwnd
                           /\ q.expected = r.id /\ q.life = r.shown
    \/ r.stage = "poll" /\ Over(q, "minimized", r.life) /\ q.shown = r.shown
    \/ r.stage = "poll" /\ Staged(r, q, "poll", "get")
    \/ r.stage = "show" /\ Staged(r, q, "gone", "look")

LEMMA ThenRecords ==
  ASSUME NEW r \in CallRecord, NEW ref, r.stage \in Track!Recording, r.id \in Identities,
         ~(r.expected # None /\ ref # r.ref)
  PROVE  Track!Then(r, ref) \in CallRecord /\ Recorded(r, Track!Then(r, ref))
<1> DEFINE T == Track!Then(r, ref)
<1>0. r.life \in Nat /\ r.shown \in Nat
  BY DEF CallRecord
<1>1. CASE r.stage \in {"list", "resolve"}
  <2>1. T = Track!Ended("none", 0)
    BY <1>1 DEF Track!Then
  <2> QED BY <1>1, <2>1, RecordsIn, KindsOfStep DEF Recorded
<1>2. CASE r.stage = "select"
  <2> DEFINE q == [r EXCEPT !.stage = "before", !.step = "get"]
  <2>1. T = q
    BY <1>2 DEF Track!Then
  <2>2. q \in CallRecord
    BY ZenonT(60) DEF CallRecord, Track!Recording
  <2>3. Staged(r, q, "before", "get")
    BY DEF CallRecord, Staged
  <2> QED BY <1>2, <2>1, <2>2, <2>3 DEF Recorded
<1>3. CASE r.stage = "before"
  <2> DEFINE q0 == Track!Reading(r, "recheck")
             q == [q0 EXCEPT !.expected = r.id, !.life = r.shown]
  <2>1. T = q
    BY <1>3 DEF Track!Then
  <2>2. q0 \in CallRecord /\ Begun(r, q0, "recheck") /\ q0.hwnd = r.hwnd
    BY RecordsIn, KindsOfStep
  <2> HIDE DEF q0
  <2>3. q \in CallRecord /\ Begun(r, q, "recheck") /\ q.hwnd = r.hwnd
        /\ q.expected = r.id /\ q.life = r.shown
    BY ZenonT(60), <1>0, <2>2 DEF CallRecord, Begun
  <2> QED BY <1>3, <2>1, <2>3 DEF Recorded
<1>4. CASE r.stage = "poll"
  <2> DEFINE q0 == Track!Ended("minimized", r.life)
             q1 == [q0 EXCEPT !.shown = r.shown]
             q2 == [r EXCEPT !.step = "get"]
  <2>1. T = q1 \/ T = q2
    BY <1>4 DEF Track!Then
  <2>2. q0 \in CallRecord /\ Over(q0, "minimized", r.life)
    BY <1>0, RecordsIn, KindsOfStep
  <2> HIDE DEF q0
  <2>3. q1 \in CallRecord /\ Over(q1, "minimized", r.life) /\ q1.shown = r.shown
    BY <1>0, <2>2 DEF CallRecord, Over
  <2>4. q2 \in CallRecord /\ Staged(r, q2, "poll", "get")
    BY <1>4 DEF CallRecord, Staged
  <2> HIDE DEF q1, q2
  <2> QED BY <1>4, <2>1, <2>3, <2>4 DEF Recorded
<1>5. CASE r.stage = "show"
  <2> DEFINE q == [r EXCEPT !.stage = "gone", !.step = "look"]
  <2>1. T = q
    BY <1>5 DEF Track!Then
  <2>2. q \in CallRecord /\ Staged(r, q, "gone", "look")
    BY DEF CallRecord, Staged
  <2> QED BY <1>5, <2>1, <2>2 DEF Recorded
<1> QED BY <1>1, <1>2, <1>3, <1>4, <1>5 DEF Track!Recording

LEMMA SecondReadingMoves ==
  ASSUME WindowTypes, CallTypes, StepsInv, RefsInv, NEW d \in WindowCallers, Track!SecondReading(d)
  PROVE  LET r == call[d]
             q == call'[d]
         IN /\ r.step = "same" /\ r.stage \in Track!Recording /\ r.pass = 2 /\ Moves(d)
            /\ \/ FailedTo(r, q) /\ UNCHANGED <<refs, fresh, told>>
               \/ \E ref \in Nat :
                    /\ r.id = Track!Identity(r) /\ r.id \in Identities
                    /\ \/ \E k \in 1..Len(refs) : refs[k].id = r.id /\ refs[k].ref = ref
                       \/ ref = fresh + 1
                    /\ Retained(ref, r.id)
                    /\ fresh' = IF ref > fresh THEN ref ELSE fresh
                    /\ \/ FailedTo(r, q) /\ told' = told
                       \/ /\ r.expected = None \/ ref = r.ref
                          /\ Recorded(r, q) /\ told' = told \cup {<<ref, r.shown>>}
<1> DEFINE r == call[d]
<1>0. r \in CallRecord
  BY DEF CallTypes
<1>1. r.step = "same" /\ r.stage \in Track!Recording /\ r.pass = 2
  BY DEF Track!SecondReading
<1>2. r.id \in Identities
  BY <1>0, <1>1 DEF StepsInv, Steps, Reads, Looked, CallRecord
<1>3. Track!Failed(r) \in CallRecord /\ FailedTo(r, Track!Failed(r))
  BY <1>0, RecordsIn, KindsOfStep
<1>4. CASE r.id # Track!Identity(r)
  BY <1>1, <1>3, <1>4, SetMoves DEF Track!SecondReading
<1>5. CASE r.id = Track!Identity(r)
  <2> DEFINE ref == IF Track!Known(r.id) = {} THEN fresh + 1
                    ELSE (CHOOSE e \in Track!Known(r.id) : TRUE).ref
  <2>1. /\ Track!Retain(ref, r.id)
        /\ fresh' = IF ref > fresh THEN ref ELSE fresh
        /\ Track!Set(d, Track!Then(r, ref))
        /\ told' = IF r.expected # None /\ ref # r.ref THEN told
                   ELSE told \cup {<<ref, r.shown>>}
    BY <1>5 DEF Track!SecondReading
  <2>2. \/ \E k \in 1..Len(refs) : refs[k].id = r.id /\ refs[k].ref = ref
        \/ ref = fresh + 1
    <3>1. CASE Track!Known(r.id) # {}
      <4> DEFINE e == CHOOSE e \in Track!Known(r.id) : TRUE
      <4>1. e \in Track!Known(r.id) /\ ref = e.ref
        BY <3>1
      <4> HIDE DEF e
      <4> QED BY <4>1 DEF Track!Known, Track!Entries
    <3> QED BY <3>1
  <2> HIDE DEF ref
  <2>3. ref \in Nat
    <3>1. ASSUME NEW k \in 1..Len(refs) PROVE refs[k].ref \in Nat
      <4>1. refs[k] \in Entry
        BY ElementOfSeq DEF CallTypes
      <4> QED BY <4>1 DEF Entry
    <3> QED BY <2>2, <3>1 DEF CallTypes
  <2>4. \A i \in 1..Len(refs) : refs[i].ref = ref => refs[i].id.hwnd = r.id.hwnd
    BY <2>2, <2>3 DEF RefsInv, Unique, CallTypes
  <2>5. Retained(ref, r.id)
    BY <1>2, <2>1, <2>3, <2>4, RetainEntries
  <2>6. CASE r.expected # None /\ ref # r.ref
    <3>1. Track!Then(r, ref) = Track!Failed(r)
      BY <2>6 DEF Track!Then
    <3> QED BY <1>1, <1>2, <1>3, <1>5, <2>1, <2>2, <2>3, <2>5, <2>6, <3>1, SetMoves
  <2>7. CASE ~(r.expected # None /\ ref # r.ref)
    <3>1. Track!Then(r, ref) \in CallRecord /\ Recorded(r, Track!Then(r, ref))
      BY <1>0, <1>1, <1>2, <2>7, ThenRecords
    <3>2. Moves(d) /\ call'[d] = Track!Then(r, ref)
      BY <2>1, <3>1, SetMoves
    <3> QED BY <1>1, <1>2, <1>5, <2>1, <2>2, <2>3, <2>5, <2>7, <3>1, <3>2
  <2> QED BY <2>6, <2>7
<1> QED BY <1>4, <1>5

LEMMA CallTypesStep ==
  ASSUME WindowTypes, CallTypes, StepsInv, TrackerInv, RefsInv, WindowSteps
  PROVE  CallTypes'
<1> USE DEF CallTypes
<1>0. CASE UNCHANGED Track!vars
  BY <1>0 DEF Track!vars, Track!osVars, Track!trackerVars, Track!clientVars
<1>1. CASE Track!Miss
  BY <1>1 DEF Track!Miss, Track!osVars, Track!trackerVars, Track!clientVars
<1>2. CASE Track!Pump
  BY <1>2 DEF Track!Pump, Track!osVars, Track!trackerVars, Track!clientVars
<1>3. CASE Track!Look
  BY <1>3 DEF Track!Look, Track!osVars, Track!trackerVars, Track!clientVars
<1>4. CASE Track!Answer
  <2>1. call' \in [WindowCallers -> CallRecord]
    BY <1>4, AnswerMoves DEF Moves
  <2> QED BY <2>1, AnswerTracker, <1>4
<1>5. CASE Track!FenceFails
  BY <1>5 DEF Track!FenceFails, Track!osVars, Track!trackerVars, Track!clientVars
<1>6. CASE Track!Expire
  <2>1. refs' \in Seq(Entry)
    BY <1>6, TailIn DEF Track!Expire
  <2> QED BY <1>6, <2>1 DEF Track!Expire
<1>7. ASSUME NEW h \in Hwnds, Track!Open(h) PROVE CallTypes'
  BY <1>7 DEF Track!Open, Track!osVars, Track!trackerVars, Track!clientVars
<1>8. ASSUME NEW h \in Hwnds, Track!Destroy(h) PROVE CallTypes'
  BY <1>8 DEF Track!Destroy, Track!osVars, Track!trackerVars, Track!clientVars
<1>9. ASSUME NEW h \in Hwnds, Track!Vanish(h) PROVE CallTypes'
  BY <1>9 DEF Track!Vanish, Track!osVars, Track!trackerVars, Track!clientVars
<1>10. ASSUME NEW d \in WindowCallers, Track!Take(d) PROVE CallTypes'
  BY <1>10 DEF Track!Take, Track!osVars, Track!trackerVars, Track!clientVars
<1>11. ASSUME NEW d \in WindowCallers, Track!Start(d) PROVE CallTypes'
  <2>1. call' \in [WindowCallers -> CallRecord]
    BY <1>11, StartMoves DEF Moves
  <2>2. UNCHANGED <<refs, fresh, told>>
    BY <1>11 DEF Track!Start, Track!clientVars
  <2> QED BY <2>1, <2>2
<1>12. ASSUME NEW d \in WindowCallers, Track!Get(d) PROVE CallTypes'
  <2>1. call' \in [WindowCallers -> CallRecord]
    BY <1>12, GetMoves DEF Moves
  <2>2. UNCHANGED <<refs, fresh, told>>
    BY <1>12 DEF Track!Get, Track!clientVars
  <2> QED BY <2>1, <2>2
<1>13. ASSUME NEW d \in WindowCallers, Track!NoTracker(d) PROVE CallTypes'
  <2>1. call' \in [WindowCallers -> CallRecord]
    BY <1>13, NoTrackerMoves DEF Moves
  <2>2. UNCHANGED <<refs, fresh, told>>
    BY <1>13 DEF Track!NoTracker, Track!clientVars
  <2> QED BY <2>1, <2>2
<1>14. ASSUME NEW d \in WindowCallers, Track!ReadOwner(d) PROVE CallTypes'
  <2>1. call' \in [WindowCallers -> CallRecord]
    BY <1>14, ReadOwnerMoves DEF Moves
  <2>2. UNCHANGED <<refs, fresh, told>>
    BY <1>14 DEF Track!ReadOwner, Track!clientVars
  <2> QED BY <2>1, <2>2
<1>15. ASSUME NEW d \in WindowCallers, Track!FirstReading(d) PROVE CallTypes'
  <2>1. call' \in [WindowCallers -> CallRecord]
    BY <1>15, FirstReadingMoves DEF Moves
  <2>2. UNCHANGED <<refs, fresh, told>>
    BY <1>15 DEF Track!FirstReading, Track!clientVars
  <2> QED BY <2>1, <2>2
<1>16. ASSUME NEW d \in WindowCallers, Track!Data(d) PROVE CallTypes'
  <2>1. call' \in [WindowCallers -> CallRecord]
    BY <1>16, DataMoves DEF Moves
  <2>2. UNCHANGED <<refs, fresh, told>>
    BY <1>16 DEF Track!Data, Track!clientVars
  <2> QED BY <2>1, <2>2
<1>17. ASSUME NEW d \in WindowCallers, Track!SecondReading(d) PROVE CallTypes'
  <2>1. call' \in [WindowCallers -> CallRecord]
    BY <1>17, SecondReadingMoves DEF Moves
  <2>2. call[d].shown \in Nat
    BY DEF CallRecord
  <2>3. refs' \in Seq(Entry) /\ fresh' \in Nat
    BY <1>17, SecondReadingMoves DEF Retained
  <2>4. \/ told' = told
        \/ \E ref \in Nat : told' = told \cup {<<ref, call[d].shown>>}
    BY <1>17, SecondReadingMoves
  <2>5. told' \subseteq Nat \X Nat
    BY <2>2, <2>4
  <2> QED BY <2>1, <2>3, <2>5
<1>18. ASSUME NEW d \in WindowCallers, Track!Recheck(d) PROVE CallTypes'
  <2>1. call' \in [WindowCallers -> CallRecord]
    BY <1>18, RecheckMoves DEF Moves
  <2>2. UNCHANGED <<refs, fresh, told>>
    BY <1>18 DEF Track!Recheck, Track!clientVars
  <2> QED BY <2>1, <2>2
<1>19. ASSUME NEW d \in WindowCallers, Track!Act(d) PROVE CallTypes'
  <2>1. call' \in [WindowCallers -> CallRecord]
    BY <1>19, ActMoves DEF Moves
  <2>2. UNCHANGED <<refs, fresh, told>>
    BY <1>19 DEF Track!Act, Track!clientVars
  <2> QED BY <2>1, <2>2
<1>20. ASSUME NEW d \in WindowCallers, Track!LookGone(d) PROVE CallTypes'
  <2>1. call' \in [WindowCallers -> CallRecord]
    BY <1>20, LookGoneMoves DEF Moves
  <2>2. UNCHANGED <<refs, fresh, told>>
    BY <1>20 DEF Track!LookGone, Track!clientVars
  <2> QED BY <2>1, <2>2
<1>21. ASSUME NEW d \in WindowCallers, Track!ReadGone(d) PROVE CallTypes'
  <2>1. call' \in [WindowCallers -> CallRecord]
    BY <1>21, ReadGoneMoves DEF Moves
  <2>2. UNCHANGED <<refs, fresh, told>>
    BY <1>21 DEF Track!ReadGone, Track!clientVars
  <2> QED BY <2>1, <2>2
<1>22. ASSUME NEW d \in WindowCallers, Track!Fails(d) PROVE CallTypes'
  <2>1. call' \in [WindowCallers -> CallRecord]
    BY <1>22, FailsMoves DEF Moves
  <2>2. UNCHANGED <<refs, fresh, told>>
    BY <1>22 DEF Track!Fails, Track!clientVars
  <2> QED BY <2>1, <2>2
<1>23. ASSUME NEW d \in WindowCallers, Track!GiveUp(d) PROVE CallTypes'
  <2>1. call' \in [WindowCallers -> CallRecord]
    BY <1>23, GiveUpMoves DEF Moves
  <2>2. UNCHANGED <<refs, fresh, told>>
    BY <1>23 DEF Track!GiveUp, Track!clientVars
  <2> QED BY <2>1, <2>2
<1> QED BY <1>0, <1>1, <1>2, <1>3, <1>4, <1>5, <1>6, <1>7, <1>8, <1>9, <1>10, <1>11, <1>12,
           <1>13, <1>14, <1>15, <1>16, <1>17, <1>18, <1>19, <1>20, <1>21, <1>22, <1>23,
           WindowCases

LEMMA LivesStep ==
  ASSUME WindowTypes, CallTypes, TrackerInv, LivesInv, WindowSteps
  PROVE  LivesInv'
<1> USE DEF LivesInv
<1>0. CASE UNCHANGED Track!vars
  BY <1>0 DEF Track!vars, Track!osVars, Track!trackerVars, Track!clientVars
<1>1. CASE Track!Miss
  BY <1>1 DEF Track!Miss, Track!osVars, Track!trackerVars, Track!clientVars
<1>2. CASE Track!Pump
  BY <1>2 DEF Track!Pump, Track!osVars, Track!trackerVars, Track!clientVars
<1>3. CASE Track!Look
  BY <1>3 DEF Track!Look, Track!osVars, Track!trackerVars, Track!clientVars
<1>4. CASE Track!Answer
  BY <1>4, AnswerTracker
<1>5. CASE Track!FenceFails
  BY <1>5 DEF Track!FenceFails, Track!osVars, Track!trackerVars, Track!clientVars
<1>6. CASE Track!Expire
  BY <1>6 DEF Track!Expire, Track!osVars, Track!trackerVars, Track!clientVars
<1>7. ASSUME NEW h \in Hwnds, Track!Open(h) PROVE LivesInv'
  BY <1>7
  DEF Track!Open, Track!osVars, Track!trackerVars, Track!clientVars, WindowTypes,
      Track!IsWindow
<1>8. ASSUME NEW h \in Hwnds, Track!Destroy(h) PROVE LivesInv'
  BY <1>8
  DEF Track!Destroy, Track!osVars, Track!trackerVars, Track!clientVars, WindowTypes
<1>9. ASSUME NEW h \in Hwnds, Track!Vanish(h) PROVE LivesInv'
  BY <1>9
  DEF Track!Vanish, Track!osVars, Track!trackerVars, Track!clientVars, Track!Free,
      WindowTypes
<1>10. ASSUME NEW d \in WindowCallers, Track!Take(d) PROVE LivesInv'
  BY <1>10 DEF Track!Take, Track!osVars, Track!trackerVars, Track!clientVars
<1>11. ASSUME NEW d \in WindowCallers, Track!Start(d) PROVE LivesInv'
  BY <1>11 DEF Track!Start, Track!osVars, Track!trackerVars, Track!clientVars, Track!Set
<1>12. ASSUME NEW d \in WindowCallers, Track!Get(d) PROVE LivesInv'
  BY <1>12 DEF Track!Get, Track!osVars, Track!trackerVars, Track!clientVars, Track!Set
<1>13. ASSUME NEW d \in WindowCallers, Track!NoTracker(d) PROVE LivesInv'
  BY <1>13 DEF Track!NoTracker, Track!osVars, Track!trackerVars, Track!clientVars, Track!Set
<1>14. ASSUME NEW d \in WindowCallers, Track!ReadOwner(d) PROVE LivesInv'
  BY <1>14 DEF Track!ReadOwner, Track!osVars, Track!trackerVars, Track!clientVars, Track!Set
<1>15. ASSUME NEW d \in WindowCallers, Track!FirstReading(d) PROVE LivesInv'
  BY <1>15 DEF Track!FirstReading, Track!osVars, Track!trackerVars, Track!clientVars,
               Track!Set
<1>16. ASSUME NEW d \in WindowCallers, Track!Data(d) PROVE LivesInv'
  BY <1>16 DEF Track!Data, Track!osVars, Track!trackerVars, Track!clientVars, Track!Set
<1>17. ASSUME NEW d \in WindowCallers, Track!SecondReading(d) PROVE LivesInv'
  BY <1>17 DEF Track!SecondReading, Track!osVars, Track!trackerVars, Track!clientVars,
               Track!Set
<1>18. ASSUME NEW d \in WindowCallers, Track!Recheck(d) PROVE LivesInv'
  BY <1>18 DEF Track!Recheck, Track!osVars, Track!trackerVars, Track!clientVars, Track!Set
<1>19. ASSUME NEW d \in WindowCallers, Track!Act(d) PROVE LivesInv'
  <2>1. UNCHANGED lives /\ \A h \in Hwnds :
          window'[h].life = window[h].life /\ window'[h].phase = window[h].phase
    BY <1>19 DEF Track!Act, WindowTypes
  <2> QED BY <2>1
<1>20. ASSUME NEW d \in WindowCallers, Track!LookGone(d) PROVE LivesInv'
  BY <1>20 DEF Track!LookGone, Track!osVars, Track!trackerVars, Track!clientVars, Track!Set
<1>21. ASSUME NEW d \in WindowCallers, Track!ReadGone(d) PROVE LivesInv'
  BY <1>21 DEF Track!ReadGone, Track!osVars, Track!trackerVars, Track!clientVars, Track!Set
<1>22. ASSUME NEW d \in WindowCallers, Track!Fails(d) PROVE LivesInv'
  BY <1>22 DEF Track!Fails, Track!osVars, Track!trackerVars, Track!clientVars, Track!Set
<1>23. ASSUME NEW d \in WindowCallers, Track!GiveUp(d) PROVE LivesInv'
  BY <1>23 DEF Track!GiveUp, Track!osVars, Track!trackerVars, Track!clientVars, Track!Set
<1> QED BY <1>0, <1>1, <1>2, <1>3, <1>4, <1>5, <1>6, <1>7, <1>8, <1>9, <1>10, <1>11, <1>12,
           <1>13, <1>14, <1>15, <1>16, <1>17, <1>18, <1>19, <1>20, <1>21, <1>22, <1>23,
           WindowCases

LEMMA TrackerStep ==
  ASSUME WindowTypes, CallTypes, StepsInv, RefsInv, TrackerInv, WindowSteps
  PROVE  TrackerInv'
<1> USE DEF TrackerInv
<1>0. CASE UNCHANGED Track!vars
  BY <1>0 DEF Track!vars, Track!osVars, Track!trackerVars, Track!clientVars
<1>1. CASE Track!Miss
  <2>1. PICK p \in 1..Len(hook) : hook[p].event # "fence" /\ hook' = Track!Without(hook, p)
    BY <1>1 DEF Track!Miss
  <2>2. /\ Len(hook') = Len(hook) - 1 /\ Len(hook) \in Nat
        /\ \A j \in 1..(Len(hook) - 1) : hook'[j] = IF j < p THEN hook[j] ELSE hook[j + 1]
    <3>1. hook \in Seq(Events) /\ Len(hook) \in Nat
      BY LenProperties DEF WindowTypes
    <3> QED BY <2>1, <3>1, WithoutIn
  <2>3. /\ tracker'.known = tracker.known /\ tracker'.epoch = tracker.epoch
        /\ tracker'.generation = tracker.generation /\ tracker'.up = tracker.up
        /\ UNCHANGED <<serving, call>>
    BY <1>1 DEF Track!Miss, Track!clientVars, WindowTypes, TrackerRecord
  <2> DEFINE Was(j) == IF j < p THEN j ELSE j + 1
  <2>4. ASSUME NEW j \in 1..Len(hook')
        PROVE  Was(j) \in 1..Len(hook) /\ hook'[j] = hook[Was(j)]
    BY <2>1, <2>2
  <2>5. ASSUME NEW i \in 1..Len(hook'), NEW j \in 1..Len(hook'), Was(i) = Was(j)
        PROVE  i = j
    BY <2>1, <2>2, <2>5
  <2> HIDE DEF Was
  <2>6. ASSUME NEW i \in 1..Len(hook')
        PROVE  IF hook'[i].event = "fence"
               THEN /\ serving.step = "fence"
                    /\ \A j \in 1..Len(hook') : hook'[j].event = "fence" => j = i
               ELSE hook'[i].hwnd \in Hwnds
    BY <2>4, <2>5
  <2>7. TrackerInv
    OBVIOUS
  <2> QED BY ONLY <2>3, <2>6, <2>7 DEF TrackerInv
<1>2. CASE Track!Pump
  <2>1. /\ Head(hook) = hook[1] /\ Len(hook) \in Nat /\ 1 \in 1..Len(hook)
        /\ Len(hook') = Len(hook) - 1 /\ \A i \in 1..Len(hook') : hook'[i] = hook[i + 1]
    BY <1>2, TailIn DEF Track!Pump, WindowTypes
  <2>2. UNCHANGED call /\ tracker \in TrackerRecord /\ tracker.up
    BY <1>2 DEF Track!Pump, Track!clientVars, WindowTypes
  <2>3. CASE Head(hook).event = "fence"
    <3>1. /\ IF tracker.gap THEN Forgets(tracker, tracker') ELSE tracker' = tracker
      BY <1>2, <2>2, <2>3, SyncedForgets DEF Track!Pump
    <3>2. serving'.step = "look" /\ serving'.for = serving.for /\ serving'.hwnd = serving.hwnd
      BY <1>2, <2>3 DEF Track!Pump, WindowTypes
    <3>3. serving.step = "fence"
      BY <2>1, <2>3
    <3>4. \A i \in 1..Len(hook') : hook'[i].event # "fence" /\ hook'[i].hwnd \in Hwnds
      BY <2>1, <2>3
    <3>5. \A g \in Hwnds : tracker'.known[g] # None =>
            /\ tracker'.known[g].epoch = tracker'.epoch
            /\ tracker'.known[g].generation <= tracker'.generation
      BY <3>1 DEF Forgets
    <3>6. tracker'.up
      BY <2>2, <3>1 DEF Forgets
    <3> QED BY <2>2, <3>2, <3>3, <3>4, <3>5, <3>6
  <2>4. CASE Head(hook).event # "fence"
    <3> DEFINE h == Head(hook).hwnd
    <3>1. /\ IF tracker.known[h] = None THEN tracker' = tracker
             ELSE Numbers(tracker, tracker', h, Head(hook).event = "create")
          /\ UNCHANGED serving /\ h \in Hwnds
      BY <1>2, <2>1, <2>2, <2>4, EventNumbers DEF Track!Pump
    <3>2. \A i \in 1..Len(hook') :
            IF hook'[i].event = "fence"
            THEN serving.step = "fence" /\ \A j \in 1..Len(hook') : hook'[j].event = "fence" => j = i
            ELSE hook'[i].hwnd \in Hwnds
      BY <2>1, <2>4
    <3>3. /\ tracker.generation \in Nat
          /\ \A g \in Hwnds : tracker.known[g] # None => tracker.known[g].generation \in Nat
      BY <2>2 DEF TrackerRecord, Table, Lifetimes
    <3>4. \A g \in Hwnds : tracker'.known[g] # None =>
            /\ tracker'.known[g].epoch = tracker'.epoch
            /\ tracker'.known[g].generation <= tracker'.generation
      BY <3>1, <3>3 DEF Numbers
    <3>5. tracker'.up
      BY <2>2, <3>1 DEF Numbers
    <3> QED BY <2>2, <3>1, <3>2, <3>4, <3>5
  <2> QED BY <2>3, <2>4
<1>3. CASE Track!Look
  <2>1. /\ serving'.step = "answer" /\ serving'.for = serving.for /\ serving'.hwnd = serving.hwnd
        /\ serving.step = "look" /\ UNCHANGED <<hook, tracker, call>>
    BY <1>3 DEF Track!Look, WindowTypes, Track!clientVars
  <2> QED BY <2>1
<1>4. CASE Track!Answer
  <2>1. /\ serving' = Track!Idle /\ UNCHANGED hook /\ serving.step = "answer"
        /\ Answered(tracker, tracker', serving.hwnd, serving.alive)
        /\ serving.hwnd \in Hwnds
    BY <1>4, AnswerTracker
  <2>2. serving'.step = "idle" /\ serving'.for = None
    BY <2>1 DEF Track!Idle
  <2>3. \A g \in Hwnds : tracker'.known[g] # None =>
          /\ tracker'.known[g].epoch = tracker'.epoch
          /\ tracker'.known[g].generation <= tracker'.generation
    <3> DEFINE Known(t) == \A g \in Hwnds : t.known[g] # None =>
                              /\ t.known[g].epoch = t.epoch
                              /\ t.known[g].generation <= t.generation
    <3>1. Known(tracker)
      OBVIOUS
    <3>2. ASSUME NEW t \in TrackerRecord, NEW u \in TrackerRecord, Forgets(t, u) PROVE Known(u)
      BY <3>2 DEF Forgets
    <3>3. ASSUME NEW t \in TrackerRecord, NEW u \in TrackerRecord, Known(t),
                 Numbers(t, u, serving.hwnd, serving.alive)
          PROVE  Known(u)
      <4>1. t.generation \in Nat /\ t.epoch \in Nat /\ t.known \in Table
        BY DEF TrackerRecord
      <4>2. u.known[serving.hwnd].epoch = t.epoch
            /\ u.known[serving.hwnd].generation = t.generation + 1
        BY <3>3 DEF Numbers
      <4>3. \A g \in Hwnds : t.known[g] # None => t.known[g].generation \in Nat
        BY <4>1 DEF Table, Lifetimes
      <4> QED BY <3>3, <4>1, <4>2, <4>3 DEF Numbers
    <3>4. tracker \in TrackerRecord /\ tracker' \in TrackerRecord
      BY <2>1 DEF WindowTypes, Answered
    <3> HIDE DEF Known
    <3>5. PICK v \in TrackerRecord :
            /\ IF tracker.gap THEN Forgets(tracker, v) ELSE v = tracker
            /\ \/ tracker' = v
               \/ Numbers(v, tracker', serving.hwnd, serving.alive)
               \/ \E u \in TrackerRecord :
                     Forgets(v, u) /\ Numbers(u, tracker', serving.hwnd, serving.alive)
      BY <2>1 DEF Answered
    <3>6. Known(tracker')
      BY <3>1, <3>2, <3>3, <3>4, <3>5
    <3> QED BY <3>6 DEF Known
  <2>4. \A i \in 1..Len(hook) : hook[i].event # "fence" /\ hook[i].hwnd \in Hwnds
    BY <2>1
  <2> QED BY <2>1, <2>2, <2>3, <2>4, NoneIsNone
<1>5. CASE Track!FenceFails
  <2>1. /\ tracker'.known = tracker.known /\ tracker'.epoch = tracker.epoch
        /\ tracker'.generation = tracker.generation /\ hook' = <<>> /\ UNCHANGED call
        /\ serving'.step = "idle" /\ serving'.for = None
    BY <1>5 DEF Track!FenceFails, WindowTypes, TrackerRecord, Track!clientVars, Track!Idle
  <2>2. Len(hook') = 0
    BY <2>1, EmptySeq
  <2> QED BY <2>1, <2>2, NoneIsNone
<1>6. CASE Track!Expire
  BY <1>6 DEF Track!Expire, Track!osVars, Track!trackerVars, Track!clientVars
<1>7. ASSUME NEW h \in Hwnds, Track!Open(h) PROVE TrackerInv'
  <2>1. \E e \in Events : e.event # "fence" /\ e.hwnd = h /\ hook' = Append(hook, e)
    BY <1>7 DEF Track!Open, Events
  <2>2. PICK e \in Events : e.event # "fence" /\ e.hwnd = h /\ hook' = Append(hook, e)
    BY <2>1
  <2>3. /\ Len(hook') = Len(hook) + 1 /\ Len(hook) \in Nat
        /\ \A i \in 1..Len(hook) : hook'[i] = hook[i]
        /\ hook'[Len(hook) + 1] = e
    BY <2>2, AppendIn, LenProperties DEF WindowTypes
  <2>4. UNCHANGED <<tracker, serving, call>>
    BY <1>7 DEF Track!Open, Track!clientVars
  <2> QED BY <2>2, <2>3, <2>4
<1>8. ASSUME NEW h \in Hwnds, Track!Destroy(h) PROVE TrackerInv'
  <2>1. \E e \in Events : e.event # "fence" /\ e.hwnd = h /\ hook' = Append(hook, e)
    BY <1>8 DEF Track!Destroy, Events
  <2>2. PICK e \in Events : e.event # "fence" /\ e.hwnd = h /\ hook' = Append(hook, e)
    BY <2>1
  <2>3. /\ Len(hook') = Len(hook) + 1 /\ Len(hook) \in Nat
        /\ \A i \in 1..Len(hook) : hook'[i] = hook[i]
        /\ hook'[Len(hook) + 1] = e
    BY <2>2, AppendIn, LenProperties DEF WindowTypes
  <2>4. UNCHANGED <<tracker, serving, call>>
    BY <1>8 DEF Track!Destroy, Track!clientVars
  <2> QED BY <2>2, <2>3, <2>4
<1>9. ASSUME NEW h \in Hwnds, Track!Vanish(h) PROVE TrackerInv'
  BY <1>9 DEF Track!Vanish, Track!osVars, Track!trackerVars, Track!clientVars
<1>10. ASSUME NEW d \in WindowCallers, Track!Take(d) PROVE TrackerInv'
  <2> DEFINE f == [event |-> "fence", hwnd |-> None]
  <2>1. /\ Len(hook') = Len(hook) + 1 /\ Len(hook) \in Nat
        /\ \A i \in 1..Len(hook) : hook'[i] = hook[i]
        /\ hook'[Len(hook) + 1] = f
    <3>1. f \in Events
      BY DEF Events
    <3> QED BY <1>10, <3>1, AppendIn, LenProperties DEF Track!Take, WindowTypes
  <2>2. /\ serving'.step = "fence" /\ serving'.for = d /\ serving'.hwnd = call[d].hwnd
        /\ serving.step = "idle" /\ UNCHANGED call /\ call[d].step \in {"first", "second"}
    BY <1>10 DEF Track!Take, Track!Idle, Track!Asking, Track!clientVars
  <2>3. IF tracker.gap THEN Forgets(tracker, tracker') ELSE tracker' = tracker
    BY <1>10, SyncedForgets DEF Track!Take, WindowTypes
  <2>4. \A i \in 1..Len(hook) : hook[i].event # "fence" /\ hook[i].hwnd \in Hwnds
    BY <2>2
  <2>5. \A i \in 1..Len(hook') : IF i = Len(hook) + 1 THEN hook'[i].event = "fence"
                                 ELSE hook'[i].event # "fence" /\ hook'[i].hwnd \in Hwnds
    BY <2>1, <2>4
  <2>6. call[d].hwnd \in Hwnds
    BY <2>2 DEF StepsInv, Steps, Reads, Looked
  <2>7. \A g \in Hwnds : tracker'.known[g] # None =>
          /\ tracker'.known[g].epoch = tracker'.epoch
          /\ tracker'.known[g].generation <= tracker'.generation
    BY <2>3 DEF Forgets
  <2>8. tracker'.up
    BY <1>10, <2>3 DEF Forgets, Track!Take
  <2> QED BY <2>2, <2>5, <2>6, <2>7, <2>8
<1>11. ASSUME NEW d \in WindowCallers, Track!Start(d) PROVE TrackerInv'
  <2>1. call[d].step = "end" /\ Moves(d)
    BY <1>11, StartMoves
  <2>2. UNCHANGED <<hook, tracker, serving>>
    BY <1>11 DEF Track!Start, Track!trackerVars
  <2> QED BY <2>1, <2>2 DEF Moves
<1>12. ASSUME NEW d \in WindowCallers, Track!Get(d) PROVE TrackerInv'
  <2>1. call[d].step = "get" /\ Moves(d)
    BY <1>12, GetMoves
  <2>2. UNCHANGED <<hook, tracker, serving>>
    BY <1>12 DEF Track!Get, Track!trackerVars
  <2> QED BY <2>1, <2>2 DEF Moves
<1>13. ASSUME NEW d \in WindowCallers, Track!NoTracker(d) PROVE TrackerInv'
  <2>1. Moves(d)
    BY <1>13, NoTrackerMoves
  <2>2. UNCHANGED <<hook, tracker, serving>> /\ serving.for = None
    BY <1>13 DEF Track!NoTracker, Track!trackerVars
  <2> QED BY <2>1, <2>2, NoneIsNone DEF Moves
<1>14. ASSUME NEW d \in WindowCallers, Track!ReadOwner(d) PROVE TrackerInv'
  <2>1. call[d].step = "owner" /\ Moves(d)
    BY <1>14, ReadOwnerMoves
  <2>2. UNCHANGED <<hook, tracker, serving>>
    BY <1>14 DEF Track!ReadOwner, Track!trackerVars
  <2> QED BY <2>1, <2>2 DEF Moves
<1>15. ASSUME NEW d \in WindowCallers, Track!FirstReading(d) PROVE TrackerInv'
  <2>1. call[d].step = "same" /\ Moves(d)
    BY <1>15, FirstReadingMoves
  <2>2. UNCHANGED <<hook, tracker, serving>>
    BY <1>15 DEF Track!FirstReading, Track!trackerVars
  <2> QED BY <2>1, <2>2 DEF Moves
<1>16. ASSUME NEW d \in WindowCallers, Track!Data(d) PROVE TrackerInv'
  <2>1. call[d].step = "data" /\ Moves(d)
    BY <1>16, DataMoves
  <2>2. UNCHANGED <<hook, tracker, serving>>
    BY <1>16 DEF Track!Data, Track!trackerVars
  <2> QED BY <2>1, <2>2 DEF Moves
<1>17. ASSUME NEW d \in WindowCallers, Track!SecondReading(d) PROVE TrackerInv'
  <2>1. call[d].step = "same" /\ Moves(d)
    BY <1>17, SecondReadingMoves
  <2>2. UNCHANGED <<hook, tracker, serving>>
    BY <1>17 DEF Track!SecondReading, Track!trackerVars
  <2> QED BY <2>1, <2>2 DEF Moves
<1>18. ASSUME NEW d \in WindowCallers, Track!Recheck(d) PROVE TrackerInv'
  <2>1. call[d].step = "same" /\ Moves(d)
    BY <1>18, RecheckMoves
  <2>2. UNCHANGED <<hook, tracker, serving>>
    BY <1>18 DEF Track!Recheck, Track!trackerVars
  <2> QED BY <2>1, <2>2 DEF Moves
<1>19. ASSUME NEW d \in WindowCallers, Track!Act(d) PROVE TrackerInv'
  <2>1. call[d].step = "act" /\ Moves(d)
    BY <1>19, ActMoves
  <2>2. UNCHANGED <<hook, tracker, serving>>
    BY <1>19 DEF Track!Act, Track!trackerVars
  <2> QED BY <2>1, <2>2 DEF Moves
<1>20. ASSUME NEW d \in WindowCallers, Track!LookGone(d) PROVE TrackerInv'
  <2>1. call[d].step = "look" /\ Moves(d)
    BY <1>20, LookGoneMoves
  <2>2. UNCHANGED <<hook, tracker, serving>>
    BY <1>20 DEF Track!LookGone, Track!trackerVars
  <2> QED BY <2>1, <2>2 DEF Moves
<1>21. ASSUME NEW d \in WindowCallers, Track!ReadGone(d) PROVE TrackerInv'
  <2>1. call[d].step = "same" /\ Moves(d)
    BY <1>21, ReadGoneMoves
  <2>2. UNCHANGED <<hook, tracker, serving>>
    BY <1>21 DEF Track!ReadGone, Track!trackerVars
  <2> QED BY <2>1, <2>2 DEF Moves
<1>22. ASSUME NEW d \in WindowCallers, Track!Fails(d) PROVE TrackerInv'
  <2>1. call[d].step = "failed" /\ Moves(d)
    BY <1>22, FailsMoves
  <2>2. UNCHANGED <<hook, tracker, serving>>
    BY <1>22 DEF Track!Fails, Track!trackerVars
  <2> QED BY <2>1, <2>2 DEF Moves
<1>23. ASSUME NEW d \in WindowCallers, Track!GiveUp(d) PROVE TrackerInv'
  <2>1. Moves(d)
    BY <1>23, GiveUpMoves
  <2>2. UNCHANGED <<hook, tracker>>
    BY <1>23 DEF Track!GiveUp
  <2>3. /\ serving'.for = IF serving.for = d THEN None ELSE serving.for
        /\ serving'.step = serving.step /\ serving'.hwnd = serving.hwnd
    BY <1>23 DEF Track!GiveUp, WindowTypes
  <2> QED BY <2>1, <2>2, <2>3, NoneIsNone DEF Moves
<1> QED BY <1>0, <1>1, <1>2, <1>3, <1>4, <1>5, <1>6, <1>7, <1>8, <1>9, <1>10, <1>11, <1>12,
           <1>13, <1>14, <1>15, <1>16, <1>17, <1>18, <1>19, <1>20, <1>21, <1>22, <1>23,
           WindowCases

----------------------------------------------------------------------------
(* Numbers only grow, and an identity that the tracker has left does not come back.     *)

Newer(t, s) ==
    /\ t.epoch <= s.epoch /\ t.generation <= s.generation
    /\ \A id \in Identities : id.epoch <= t.epoch /\ id.generation <= t.generation =>
          (KnownAs(s, id) => KnownAs(t, id) /\ s.known[id.hwnd] = t.known[id.hwnd])

LEMMA NewerTransitive ==
  ASSUME NEW t \in TrackerRecord, NEW s \in TrackerRecord, NEW u \in TrackerRecord,
         Newer(t, s), Newer(s, u)
  PROVE  Newer(t, u)
<1>1. /\ t.epoch \in Nat /\ s.epoch \in Nat /\ u.epoch \in Nat
      /\ t.generation \in Nat /\ s.generation \in Nat /\ u.generation \in Nat
  BY DEF TrackerRecord
<1>2. \A id \in Identities : id.epoch \in Nat /\ id.generation \in Nat
  BY DEF Identities
<1> QED BY <1>1, <1>2 DEF Newer

LEMMA NewerForgets ==
  ASSUME NEW t \in TrackerRecord, NEW s \in TrackerRecord, Forgets(t, s)
  PROVE  Newer(t, s)
<1>1. t.epoch \in Nat /\ t.generation \in Nat
  BY DEF TrackerRecord
<1>2. ASSUME NEW id \in Identities PROVE ~KnownAs(s, id)
  BY <1>2 DEF Forgets, KnownAs, Identities
<1> QED BY <1>1, <1>2 DEF Newer, Forgets

LEMMA NewerNumbers ==
  ASSUME NEW t \in TrackerRecord, NEW s \in TrackerRecord, NEW h \in Hwnds, NEW alive,
         Numbers(t, s, h, alive)
  PROVE  Newer(t, s)
<1>1. t.epoch \in Nat /\ t.generation \in Nat
  BY DEF TrackerRecord
<1>2. ASSUME NEW id \in Identities, id.generation <= t.generation, KnownAs(s, id)
      PROVE  KnownAs(t, id) /\ s.known[id.hwnd] = t.known[id.hwnd]
  <2>1. id.generation \in Nat /\ id.hwnd \in Hwnds
    BY DEF Identities
  <2>2. s.known[h].generation = t.generation + 1
    BY DEF Numbers
  <2>3. id.hwnd # h
    BY <1>1, <1>2, <2>1, <2>2 DEF KnownAs
  <2> QED BY <1>2, <2>1, <2>3 DEF KnownAs, Numbers
<1> QED BY <1>1, <1>2 DEF Newer, Numbers

LEMMA NewerSame ==
  ASSUME NEW t \in TrackerRecord, NEW s, s.epoch = t.epoch, s.generation = t.generation,
         s.known = t.known
  PROVE  Newer(t, s)
BY DEF Newer, KnownAs, TrackerRecord

LEMMA NewerAnswered ==
  ASSUME NEW t \in TrackerRecord, NEW s, NEW h \in Hwnds, NEW alive \in BOOLEAN,
         Answered(t, s, h, alive)
  PROVE  Newer(t, s)
<1>1. s \in TrackerRecord
  BY DEF Answered
<1>2. PICK v \in TrackerRecord :
        /\ IF t.gap THEN Forgets(t, v) ELSE v = t
        /\ \/ s = v
           \/ Numbers(v, s, h, alive)
           \/ \E u \in TrackerRecord : Forgets(v, u) /\ Numbers(u, s, h, alive)
  BY DEF Answered
<1>3. Newer(t, v) /\ Newer(v, v)
  BY <1>2, NewerForgets, NewerSame
<1>4. Newer(v, s)
  BY <1>1, <1>2, <1>3, NewerForgets, NewerNumbers, NewerTransitive
<1> QED BY <1>1, <1>2, <1>3, <1>4, NewerTransitive

\* What every step does to the tracker's numbers and to the count of lives.
Grows == Newer(tracker, tracker') /\ lives <= lives' /\ fresh <= fresh'

LEMMA StepGrows ==
  ASSUME WindowTypes, CallTypes, StepsInv, RefsInv, TrackerInv, WindowSteps
  PROVE  Grows
<1> USE DEF Grows
<1> tracker \in TrackerRecord /\ lives \in Nat /\ fresh \in Nat
  BY DEF WindowTypes, CallTypes
<1>0. CASE UNCHANGED Track!vars
  BY <1>0, NewerSame DEF Track!vars, Track!osVars, Track!clientVars
<1>1. CASE Track!Miss
  <2>1. /\ UNCHANGED <<lives, fresh>> /\ tracker'.epoch = tracker.epoch
        /\ tracker'.generation = tracker.generation /\ tracker'.known = tracker.known
    BY <1>1 DEF Track!Miss, Track!osVars, Track!clientVars, TrackerRecord
  <2> QED BY <2>1, NewerSame
<1>2. CASE Track!Pump
  <2>1. Head(hook) = hook[1] /\ 1 \in 1..Len(hook) /\ UNCHANGED <<lives, fresh>>
    BY <1>2, TailIn DEF Track!Pump, WindowTypes, Track!osVars, Track!clientVars
  <2>2. CASE Head(hook).event = "fence"
    <3>1. tracker' = Track!Synced(tracker)
      BY <1>2, <2>2 DEF Track!Pump
    <3> QED BY <2>1, <3>1, SyncedForgets, NewerForgets, NewerSame
  <2>3. CASE Head(hook).event # "fence"
    <3>1. Head(hook).hwnd \in Hwnds
      BY <2>1, <2>3 DEF TrackerInv
    <3>2. tracker' = Track!Event(tracker, Head(hook).hwnd, Head(hook).event)
      BY <1>2, <2>3 DEF Track!Pump
    <3> QED BY <2>1, <3>1, <3>2, EventNumbers, NewerNumbers, NewerSame
  <2> QED BY <2>2, <2>3
<1>3. CASE Track!Look
  <2>1. UNCHANGED <<lives, tracker, fresh>>
    BY <1>3 DEF Track!Look, Track!osVars, Track!trackerVars, Track!clientVars
  <2> QED BY <2>1, NewerSame
<1>4. CASE Track!Answer
  <2>1. UNCHANGED <<lives, fresh>> /\ Answered(tracker, tracker', serving.hwnd, serving.alive)
        /\ serving.hwnd \in Hwnds /\ serving.alive \in BOOLEAN
    BY <1>4, AnswerTracker
  <2> QED BY <2>1, NewerAnswered
<1>5. CASE Track!FenceFails
  <2>1. /\ UNCHANGED <<lives, fresh>> /\ tracker'.epoch = tracker.epoch
        /\ tracker'.generation = tracker.generation /\ tracker'.known = tracker.known
    BY <1>5 DEF Track!FenceFails, Track!osVars, Track!clientVars, TrackerRecord
  <2> QED BY <2>1, NewerSame
<1>6. CASE Track!Expire
  <2>1. UNCHANGED <<lives, tracker, fresh>>
    BY <1>6 DEF Track!Expire, Track!osVars, Track!trackerVars, Track!clientVars
  <2> QED BY <2>1, NewerSame
<1>7. ASSUME NEW h \in Hwnds, Track!Open(h) PROVE Grows
  <2>1. UNCHANGED <<tracker, fresh>> /\ lives <= lives'
    BY <1>7 DEF Track!Open, Track!trackerVars, Track!clientVars
  <2> QED BY <2>1, NewerSame
<1>8. ASSUME NEW h \in Hwnds, Track!Destroy(h) PROVE Grows
  <2>1. UNCHANGED <<tracker, fresh>> /\ lives <= lives'
    BY <1>8 DEF Track!Destroy, Track!trackerVars, Track!clientVars
  <2> QED BY <2>1, NewerSame
<1>9. ASSUME NEW h \in Hwnds, Track!Vanish(h) PROVE Grows
  <2>1. UNCHANGED <<tracker, fresh>> /\ lives <= lives'
    BY <1>9 DEF Track!Vanish, Track!trackerVars, Track!clientVars
  <2> QED BY <2>1, NewerSame
<1>10. ASSUME NEW d \in WindowCallers, Track!Take(d) PROVE Grows
  <2>1. tracker' = Track!Synced(tracker) /\ UNCHANGED <<lives, fresh>>
    BY <1>10 DEF Track!Take, Track!osVars, Track!clientVars
  <2> QED BY <2>1, SyncedForgets, NewerForgets, NewerSame
<1>11. ASSUME NEW d \in WindowCallers, Track!Start(d) PROVE Grows
  <2>1. UNCHANGED <<lives, tracker, fresh>>
    BY <1>11 DEF Track!Start, Track!osVars, Track!trackerVars, Track!clientVars
  <2> QED BY <2>1, NewerSame
<1>12. ASSUME NEW d \in WindowCallers, Track!Get(d) PROVE Grows
  <2>1. UNCHANGED <<lives, tracker, fresh>>
    BY <1>12 DEF Track!Get, Track!osVars, Track!trackerVars, Track!clientVars
  <2> QED BY <2>1, NewerSame
<1>13. ASSUME NEW d \in WindowCallers, Track!NoTracker(d) PROVE Grows
  <2>1. UNCHANGED <<lives, tracker, fresh>>
    BY <1>13 DEF Track!NoTracker, Track!osVars, Track!trackerVars, Track!clientVars
  <2> QED BY <2>1, NewerSame
<1>14. ASSUME NEW d \in WindowCallers, Track!ReadOwner(d) PROVE Grows
  <2>1. UNCHANGED <<lives, tracker, fresh>>
    BY <1>14 DEF Track!ReadOwner, Track!osVars, Track!trackerVars, Track!clientVars
  <2> QED BY <2>1, NewerSame
<1>15. ASSUME NEW d \in WindowCallers, Track!FirstReading(d) PROVE Grows
  <2>1. UNCHANGED <<lives, tracker, fresh>>
    BY <1>15 DEF Track!FirstReading, Track!osVars, Track!trackerVars, Track!clientVars
  <2> QED BY <2>1, NewerSame
<1>16. ASSUME NEW d \in WindowCallers, Track!Data(d) PROVE Grows
  <2>1. UNCHANGED <<lives, tracker, fresh>>
    BY <1>16 DEF Track!Data, Track!osVars, Track!trackerVars, Track!clientVars
  <2> QED BY <2>1, NewerSame
<1>17. ASSUME NEW d \in WindowCallers, Track!SecondReading(d) PROVE Grows
  <2>1. UNCHANGED <<lives, tracker>>
    BY <1>17 DEF Track!SecondReading, Track!osVars, Track!trackerVars
  <2>2. fresh' = fresh \/ \E ref \in Nat : fresh' = IF ref > fresh THEN ref ELSE fresh
    BY <1>17, SecondReadingMoves
  <2> QED BY <2>1, <2>2, NewerSame
<1>18. ASSUME NEW d \in WindowCallers, Track!Recheck(d) PROVE Grows
  <2>1. UNCHANGED <<lives, tracker, fresh>>
    BY <1>18 DEF Track!Recheck, Track!osVars, Track!trackerVars, Track!clientVars
  <2> QED BY <2>1, NewerSame
<1>19. ASSUME NEW d \in WindowCallers, Track!Act(d) PROVE Grows
  <2>1. UNCHANGED <<lives, tracker, fresh>>
    BY <1>19 DEF Track!Act, Track!osVars, Track!trackerVars, Track!clientVars
  <2> QED BY <2>1, NewerSame
<1>20. ASSUME NEW d \in WindowCallers, Track!LookGone(d) PROVE Grows
  <2>1. UNCHANGED <<lives, tracker, fresh>>
    BY <1>20 DEF Track!LookGone, Track!osVars, Track!trackerVars, Track!clientVars
  <2> QED BY <2>1, NewerSame
<1>21. ASSUME NEW d \in WindowCallers, Track!ReadGone(d) PROVE Grows
  <2>1. UNCHANGED <<lives, tracker, fresh>>
    BY <1>21 DEF Track!ReadGone, Track!osVars, Track!trackerVars, Track!clientVars
  <2> QED BY <2>1, NewerSame
<1>22. ASSUME NEW d \in WindowCallers, Track!Fails(d) PROVE Grows
  <2>1. UNCHANGED <<lives, tracker, fresh>>
    BY <1>22 DEF Track!Fails, Track!osVars, Track!trackerVars, Track!clientVars
  <2> QED BY <2>1, NewerSame
<1>23. ASSUME NEW d \in WindowCallers, Track!GiveUp(d) PROVE Grows
  <2>1. UNCHANGED <<lives, tracker, fresh>>
    BY <1>23 DEF Track!GiveUp, Track!osVars, Track!trackerVars, Track!clientVars
  <2> QED BY <2>1, NewerSame
<1> QED BY <1>0, <1>1, <1>2, <1>3, <1>4, <1>5, <1>6, <1>7, <1>8, <1>9, <1>10, <1>11, <1>12,
           <1>13, <1>14, <1>15, <1>16, <1>17, <1>18, <1>19, <1>20, <1>21, <1>22, <1>23,
           WindowCases

LEMMA StepsGrow ==
  ASSUME Grows, NEW r \in CallRecord, Steps(r, tracker, fresh),
         tracker \in TrackerRecord, tracker' \in TrackerRecord, fresh \in Nat, fresh' \in Nat
  PROVE  Steps(r, tracker', fresh')
<1>1. \A x \in Lifetimes \cup Identities : OldFor(tracker, x) => OldFor(tracker', x)
  <2>1. /\ tracker.epoch \in Nat /\ tracker'.epoch \in Nat
        /\ tracker.generation \in Nat /\ tracker'.generation \in Nat
    BY DEF TrackerRecord
  <2>2. \A x \in Lifetimes \cup Identities : x.epoch \in Nat /\ x.generation \in Nat
    BY DEF Lifetimes, Identities
  <2> QED BY <2>1, <2>2 DEF OldFor, Grows, Newer
<1>2. r.ref \in Nat /\ (r.first # None => r.first \in Lifetimes) /\ (r.id # None => r.id \in Identities)
  BY DEF CallRecord
<1> QED BY <1>1, <1>2 DEF Grows, Steps

LEMMA StepsOver ==
  ASSUME CallTypes', NEW q, \E v, l : Over(q, v, l)
  PROVE  Steps(q, tracker', fresh')
BY DEF Over, Steps, Reads, Looked, CallTypes, Track!Recording

LEMMA StepsStep ==
  ASSUME WindowTypes, CallTypes, StepsInv, RefsInv, TrackerInv, WindowSteps
  PROVE  StepsInv'
<1>1. WindowTypes' /\ CallTypes' /\ Grows
  BY WindowTypesStep, CallTypesStep, StepGrows
<1>2. ASSUME NEW e \in WindowCallers PROVE Steps(call[e], tracker', fresh')
  <2>1. /\ tracker \in TrackerRecord /\ tracker' \in TrackerRecord
        /\ fresh \in Nat /\ fresh' \in Nat /\ call[e] \in CallRecord
    BY <1>1 DEF WindowTypes, CallTypes
  <2> QED BY <1>1, <2>1, StepsGrow DEF StepsInv
<1>3. (call' = call) => StepsInv'
  BY <1>2 DEF StepsInv
<1>4. ASSUME NEW d \in WindowCallers, Moves(d), Steps(call'[d], tracker', fresh')
      PROVE  StepsInv'
  BY <1>2, <1>4 DEF StepsInv, Moves
<1>5. \A q : (\E v, l : Over(q, v, l)) => Steps(q, tracker', fresh')
  BY <1>1, StepsOver
<1>6. CASE UNCHANGED Track!vars
  BY <1>3, <1>6 DEF Track!vars, Track!clientVars
<1>7. CASE Track!Miss
  BY <1>3, <1>7 DEF Track!Miss, Track!clientVars
<1>8. CASE Track!Pump
  BY <1>3, <1>8 DEF Track!Pump, Track!clientVars
<1>9. CASE Track!Look
  BY <1>3, <1>9 DEF Track!Look, Track!clientVars
<1>10. CASE Track!FenceFails
  BY <1>3, <1>10 DEF Track!FenceFails, Track!clientVars
<1>11. CASE Track!Expire
  BY <1>3, <1>11 DEF Track!Expire, Track!clientVars
<1>12. ASSUME NEW h \in Hwnds, Track!Open(h) PROVE StepsInv'
  BY <1>3, <1>12 DEF Track!Open, Track!clientVars
<1>13. ASSUME NEW h \in Hwnds, Track!Destroy(h) PROVE StepsInv'
  BY <1>3, <1>13 DEF Track!Destroy, Track!clientVars
<1>14. ASSUME NEW h \in Hwnds, Track!Vanish(h) PROVE StepsInv'
  BY <1>3, <1>14 DEF Track!Vanish, Track!clientVars
<1>15. ASSUME NEW d \in WindowCallers, Track!Take(d) PROVE StepsInv'
  BY <1>3, <1>15 DEF Track!Take, Track!clientVars
<1>16. ASSUME NEW d \in WindowCallers, Track!Start(d) PROVE StepsInv'
  <2>1. UNCHANGED fresh
    BY <1>16 DEF Track!Start
  <2>2. /\ Moves(d) /\ call'[d].verdict = "none" /\ call'[d].ref <= fresh
        /\ \/ /\ call'[d].stage = "list" /\ call'[d].step = "first"
              /\ call'[d].pass = 1 /\ call'[d].hwnd \in Hwnds
           \/ call'[d].stage \in {"resolve", "select"} /\ call'[d].step = "get"
    BY <1>16, StartMoves
  <2>3. Steps(call'[d], tracker', fresh)
    BY ONLY <2>2 DEF Steps, Reads, Looked
  <2>4. Steps(call'[d], tracker', fresh')
    BY ONLY <2>1, <2>3
  <2>5. Moves(d)
    BY ONLY <2>2
  <2> QED BY <2>4, <2>5, <1>4
<1>17. ASSUME NEW d \in WindowCallers, Track!Get(d) PROVE StepsInv'
  <2>1. /\ Moves(d)
        /\ \/ FailedTo(call[d], call'[d])
           \/ \E i \in 1..Len(refs) : /\ Begun(call[d], call'[d], call[d].stage)
                                      /\ call'[d].hwnd = refs[i].id.hwnd
                                      /\ call'[d].expected = refs[i].id
        /\ call[d].step = "get"
    BY <1>17, GetMoves
  <2>2. \A i \in 1..Len(refs) : refs[i].id # None /\ refs[i].id.hwnd \in Hwnds
    <3>1. ASSUME NEW i \in 1..Len(refs) PROVE refs[i] \in Entry
      BY ElementOfSeq DEF CallTypes
    <3> QED BY <3>1, NoneIsNone DEF Entry, Identities
  <2>3. Steps(call'[d], tracker', fresh')
    BY <1>2, <2>1, <2>2 DEF Steps, Reads, Looked, FailedTo, Alike, Begun
  <2> QED BY <2>1, <2>3, <1>4
<1>18. ASSUME NEW d \in WindowCallers, Track!NoTracker(d) PROVE StepsInv'
  <2>1. Moves(d) /\ FailedTo(call[d], call'[d]) /\ call[d].step \in {"first", "second"}
    BY <1>18, NoTrackerMoves DEF Track!NoTracker, Track!Asking
  <2>2. Steps(call'[d], tracker', fresh')
    BY <1>2, <2>1 DEF Steps, Reads, Looked, FailedTo, Alike
  <2> QED BY <2>1, <2>2, <1>4
<1>19. ASSUME NEW d \in WindowCallers, Track!ReadOwner(d) PROVE StepsInv'
  <2>1. /\ Moves(d)
        /\ call[d].step = "owner"
        /\ FailedTo(call[d], call'[d]) \/ (Alike(call[d], call'[d]) /\ call'[d].step = "second")
    BY <1>19, ReadOwnerMoves
  <2>2. Steps(call[d], tracker', fresh')
    BY <1>2
  <2>3. ASSUME FailedTo(call[d], call'[d]) PROVE Steps(call'[d], tracker', fresh')
    BY ONLY <2>1, <2>2, <2>3 DEF Steps, Reads, Looked, FailedTo, Alike
  <2>4. ASSUME Alike(call[d], call'[d]) /\ call'[d].step = "second"
        PROVE  Steps(call'[d], tracker', fresh')
    BY ONLY <2>1, <2>2, <2>4 DEF Steps, Reads, Looked, Alike
  <2> QED BY <2>1, <2>3, <2>4, <1>4
<1>20. ASSUME NEW d \in WindowCallers, Track!FirstReading(d) PROVE StepsInv'
  <2>1. /\ Moves(d) /\ call[d].step = "same" /\ call[d].stage \in Track!Recording
        /\ \/ FailedTo(call[d], call'[d])
           \/ /\ Staged(call[d], call'[d], call[d].stage, "data")
              /\ call'[d].id = Track!Identity(call[d])
    BY <1>20, FirstReadingMoves
  <2>2. Track!Identity(call[d]) # None
    BY <2>1, RecordsIn, NoneIsNone DEF CallTypes, StepsInv, Steps, Reads, Looked
  <2>3. /\ Track!Identity(call[d]).hwnd = call[d].hwnd
        /\ OldFor(tracker', call[d].first) => OldFor(tracker', Track!Identity(call[d]))
    BY DEF Track!Identity, OldFor
  <2>4. Steps(call'[d], tracker', fresh')
    BY <1>2, <2>1, <2>2, <2>3 DEF Steps, Reads, Looked, FailedTo, Alike, Staged
  <2> QED BY <2>1, <2>4, <1>4
<1>21. ASSUME NEW d \in WindowCallers, Track!Data(d) PROVE StepsInv'
  <2>1. /\ Moves(d) /\ call[d].step = "data" /\ call[d].stage \in Track!Recording
        /\ \/ FailedTo(call[d], call'[d])
           \/ /\ Staged(call[d], call'[d], call[d].stage, "first")
              /\ call'[d].pass = 2 /\ call'[d].id = call[d].id
    BY <1>21, DataMoves
  <2>2. Steps(call'[d], tracker', fresh')
    BY <1>2, <2>1 DEF Steps, Reads, Looked, FailedTo, Alike, Staged
  <2> QED BY <2>1, <2>2, <1>4
<1>22. ASSUME NEW d \in WindowCallers, Track!SecondReading(d) PROVE StepsInv'
  <2>1. /\ Moves(d) /\ call[d].step = "same" /\ call[d].stage \in Track!Recording
        /\ FailedTo(call[d], call'[d]) \/ Recorded(call[d], call'[d])
    BY <1>22, SecondReadingMoves
  <2>2. Steps(call[d], tracker', fresh')
    BY <1>2
  <2>3. ASSUME FailedTo(call[d], call'[d]) PROVE Steps(call'[d], tracker', fresh')
    BY ONLY <2>1, <2>2, <2>3 DEF Steps, Reads, Looked, FailedTo, Alike
  <2>4. ASSUME Recorded(call[d], call'[d]) PROVE Steps(call'[d], tracker', fresh')
    <3>1. CASE \E v, l : Over(call'[d], v, l)
      BY <3>1, <1>5
    <3>2. CASE Begun(call[d], call'[d], "recheck") /\ call'[d].hwnd = call[d].hwnd
      BY <2>1, <2>2, <3>2 DEF Steps, Reads, Looked, Begun
    <3>3. CASE \/ Staged(call[d], call'[d], "before", "get")
               \/ Staged(call[d], call'[d], "poll", "get")
               \/ Staged(call[d], call'[d], "gone", "look")
      BY <2>1, <2>2, <3>3 DEF Steps, Reads, Looked, Staged
    <3> QED BY <2>4, <3>1, <3>2, <3>3 DEF Recorded
  <2> QED BY <2>1, <2>3, <2>4, <1>4
<1>23. ASSUME NEW d \in WindowCallers, Track!Recheck(d) PROVE StepsInv'
  <2>1. /\ Moves(d)
        /\ call[d].step = "same" /\ call[d].stage = "recheck"
        /\ FailedTo(call[d], call'[d]) \/ (Alike(call[d], call'[d]) /\ call'[d].step = "act")
    BY <1>23, RecheckMoves
  <2>2. Steps(call[d], tracker', fresh')
    BY <1>2
  <2>3. ASSUME FailedTo(call[d], call'[d]) PROVE Steps(call'[d], tracker', fresh')
    BY ONLY <2>1, <2>2, <2>3 DEF Steps, Reads, Looked, FailedTo, Alike
  <2>4. ASSUME Alike(call[d], call'[d]) /\ call'[d].step = "act"
        PROVE  Steps(call'[d], tracker', fresh')
    BY ONLY <2>1, <2>2, <2>4 DEF Steps, Reads, Looked, Alike
  <2> QED BY <2>1, <2>3, <2>4, <1>4
<1>24. ASSUME NEW d \in WindowCallers, Track!Act(d) PROVE StepsInv'
  <2>1. /\ Moves(d)
        /\ call[d].step = "act"
        /\ \/ Over(call'[d], "none", 0)
           \/ Staged(call[d], call'[d], "gone", "look")
           \/ Staged(call[d], call'[d], "poll", "get")
    BY <1>24, ActMoves
  <2>2. Steps(call[d], tracker', fresh')
    BY <1>2
  <2>3. ASSUME Over(call'[d], "none", 0) PROVE Steps(call'[d], tracker', fresh')
    BY <1>5, <2>3
  <2>4. ASSUME \/ Staged(call[d], call'[d], "gone", "look")
               \/ Staged(call[d], call'[d], "poll", "get")
        PROVE  Steps(call'[d], tracker', fresh')
    BY ONLY <2>1, <2>2, <2>4 DEF Steps, Reads, Looked, Staged
  <2> QED BY <2>1, <2>3, <2>4, <1>4
<1>25. ASSUME NEW d \in WindowCallers, Track!LookGone(d) PROVE StepsInv'
  <2>1. /\ Moves(d)
        /\ call[d].step = "look" /\ call[d].stage = "gone"
        /\ \/ Begun(call[d], call'[d], "gone") /\ call'[d].hwnd = call[d].hwnd
           \/ Over(call'[d], "closed", call[d].life)
    BY <1>25, LookGoneMoves
  <2>2. Steps(call[d], tracker', fresh')
    BY <1>2
  <2>3. ASSUME Over(call'[d], "closed", call[d].life) PROVE Steps(call'[d], tracker', fresh')
    BY <1>5, <2>3
  <2>4. ASSUME Begun(call[d], call'[d], "gone") /\ call'[d].hwnd = call[d].hwnd
        PROVE  Steps(call'[d], tracker', fresh')
    BY ONLY <2>1, <2>2, <2>4 DEF Steps, Reads, Looked, Begun
  <2> QED BY <2>1, <2>3, <2>4, <1>4
<1>26. ASSUME NEW d \in WindowCallers, Track!ReadGone(d) PROVE StepsInv'
  <2>1. /\ Moves(d)
        /\ call[d].step = "same" /\ call[d].stage = "gone"
        /\ \/ FailedTo(call[d], call'[d])
           \/ Over(call'[d], "closed", call[d].life)
           \/ Staged(call[d], call'[d], "show", "get")
    BY <1>26, ReadGoneMoves
  <2>2. Steps(call[d], tracker', fresh')
    BY <1>2
  <2>3. ASSUME FailedTo(call[d], call'[d]) PROVE Steps(call'[d], tracker', fresh')
    BY ONLY <2>1, <2>2, <2>3 DEF Steps, Reads, Looked, FailedTo, Alike
  <2>4. ASSUME Over(call'[d], "closed", call[d].life) PROVE Steps(call'[d], tracker', fresh')
    BY <1>5, <2>4
  <2>5. ASSUME Staged(call[d], call'[d], "show", "get")
        PROVE  Steps(call'[d], tracker', fresh')
    BY ONLY <2>1, <2>2, <2>5 DEF Steps, Reads, Looked, Staged
  <2> QED BY <2>1, <2>3, <2>4, <2>5, <1>4
<1>27. ASSUME NEW d \in WindowCallers, Track!Fails(d) PROVE StepsInv'
  <2>1. /\ Moves(d)
        /\ call[d].step = "failed"
        /\ \/ Over(call'[d], "closed", call[d].life)
           \/ call[d].stage \in {"gone", "show"} /\ Staged(call[d], call'[d], "gone", "look")
           \/ Over(call'[d], "none", 0)
    BY <1>27, FailsMoves
  <2>2. Steps(call[d], tracker', fresh')
    BY <1>2
  <2>3. ASSUME \/ Over(call'[d], "closed", call[d].life)
               \/ Over(call'[d], "none", 0)
        PROVE  Steps(call'[d], tracker', fresh')
    BY <1>5, <2>3
  <2>4. ASSUME /\ call[d].stage \in {"gone", "show"}
               /\ Staged(call[d], call'[d], "gone", "look")
        PROVE  Steps(call'[d], tracker', fresh')
    BY ONLY <2>1, <2>2, <2>4 DEF Steps, Reads, Looked, Staged
  <2> QED BY <2>1, <2>3, <2>4, <1>4
<1>28. ASSUME NEW d \in WindowCallers, Track!GiveUp(d) PROVE StepsInv'
  <2>1. Moves(d) /\ Over(call'[d], "none", 0)
    BY <1>28, GiveUpMoves
  <2> QED BY <2>1, <1>4, <1>5
<1>29. CASE Track!Answer
  <2>1. ASSUME NEW d \in WindowCallers, serving.for = d, Moves(d), call[d].hwnd = serving.hwnd,
               \/ FailedTo(call[d], call'[d])
               \/ /\ call[d].step = "first" /\ tracker'.known[serving.hwnd] # None
                  /\ tracker'.known[serving.hwnd].alive
                  /\ Staged(call[d], call'[d], call[d].stage, "owner")
                  /\ call'[d].first = tracker'.known[serving.hwnd]
                  /\ call'[d].pass = call[d].pass /\ call'[d].id = call[d].id
               \/ /\ call[d].step = "second" /\ Alike(call[d], call'[d]) /\ call'[d].step = "same"
        PROVE  StepsInv'
    <3>1. call[d].step \in {"first", "second"}
      BY <2>1 DEF TrackerInv
    <3>2. CASE FailedTo(call[d], call'[d])
      <4>1. Steps(call'[d], tracker', fresh')
        BY <1>2, <3>1, <3>2 DEF FailedTo, Alike, Steps, Reads, Looked
      <4> QED BY <1>4, <2>1, <4>1
    <3>3. CASE Alike(call[d], call'[d]) /\ call'[d].step = "same" /\ call[d].step = "second"
      <4>1. Steps(call'[d], tracker', fresh')
        BY <1>2, <3>3 DEF Alike, Steps, Reads, Looked
      <4> QED BY <1>4, <2>1, <4>1
    <3>4. CASE /\ call[d].step = "first" /\ tracker'.known[serving.hwnd] # None
               /\ tracker'.known[serving.hwnd].alive
               /\ Staged(call[d], call'[d], call[d].stage, "owner")
               /\ call'[d].first = tracker'.known[serving.hwnd]
               /\ call'[d].pass = call[d].pass /\ call'[d].id = call[d].id
      <4>1. serving.hwnd \in Hwnds
        BY <1>29, AnswerTracker
      <4>2. OldFor(tracker', tracker'.known[serving.hwnd])
        <5>1. TrackerInv' /\ tracker' \in TrackerRecord
          BY <1>1, TrackerStep DEF WindowTypes
        <5> QED BY <3>4, <4>1, <5>1 DEF TrackerInv, OldFor, TrackerRecord
      <4>3. Steps(call'[d], tracker', fresh')
        BY <1>2, <3>4, <4>2 DEF Staged, Steps, Reads, Looked
      <4> QED BY <1>4, <2>1, <4>3
    <3> QED BY <2>1, <3>2, <3>3, <3>4
  <2> QED BY <1>3, <2>1, <1>29, AnswerMoves
<1> QED BY <1>6, <1>7, <1>8, <1>9, <1>10, <1>11, <1>12, <1>13, <1>14, <1>15, <1>16, <1>17,
           <1>18, <1>19, <1>20, <1>21, <1>22, <1>23, <1>24, <1>25, <1>26, <1>27, <1>28,
           <1>29, WindowCases

LEMMA RefsStep ==
  ASSUME WindowTypes, CallTypes, StepsInv, RefsInv, TrackerInv, ActionInv, WindowSteps
  PROVE  RefsInv'
<1>0. WindowTypes' /\ CallTypes' /\ Grows
  BY WindowTypesStep, CallTypesStep, StepGrows
<1>a. /\ tracker \in TrackerRecord /\ tracker' \in TrackerRecord
      /\ fresh \in Nat /\ fresh' \in Nat /\ lives \in Nat /\ lives' \in Nat
  BY <1>0 DEF WindowTypes, CallTypes
<1>1. ASSUME NEW e \in WindowCallers PROVE Steps(call[e], tracker', fresh')
  <2>1. call[e] \in CallRecord
    BY DEF CallTypes
  <2> QED BY <1>0, <1>a, <2>1, StepsGrow DEF StepsInv
<1>3. ASSUME NEW i \in 1..Len(refs) PROVE refs[i].ref <= fresh' /\ OldFor(tracker', refs[i].id)
  <2>1. refs[i].ref \in Nat /\ refs[i].id \in Identities
    <3>1. refs[i] \in Entry
      BY ElementOfSeq DEF CallTypes
    <3> QED BY <3>1 DEF Entry
  <2>2. refs[i].ref <= fresh /\ OldFor(tracker, refs[i].id)
    BY DEF RefsInv, Old
  <2>3. OldFor(tracker', refs[i].id)
    <3>1. /\ tracker.epoch \in Nat /\ tracker'.epoch \in Nat
          /\ tracker.generation \in Nat /\ tracker'.generation \in Nat
      BY <1>a DEF TrackerRecord
    <3>2. refs[i].id.epoch \in Nat /\ refs[i].id.generation \in Nat
      BY <2>1 DEF Identities
    <3> QED BY <1>0, <2>2, <3>1, <3>2 DEF OldFor, Grows, Newer
  <2> QED BY <1>0, <1>a, <2>1, <2>2, <2>3 DEF Grows
<1>4. \A s \in told : s[1] <= fresh' /\ s[2] \in 1..lives'
  <2>1. ASSUME NEW s \in told PROVE s[1] \in Nat /\ s[2] \in Nat
    BY DEF CallTypes
  <2> QED BY <1>0, <1>a, <2>1 DEF RefsInv, Grows
<1>2. ASSUME refs' = refs, told' = told PROVE RefsInv'
  <2>1. \A i \in 1..Len(refs') : refs'[i].ref <= fresh' /\ OldFor(tracker', refs'[i].id)
    BY <1>2, <1>3
  <2>2. Unique(refs')
    BY <1>2 DEF RefsInv
  <2> QED BY <1>2, <1>4, <2>1, <2>2 DEF RefsInv, Old
<1>6. CASE UNCHANGED Track!vars
  BY <1>2, <1>6 DEF Track!vars, Track!clientVars
<1>7. CASE Track!Miss
  BY <1>2, <1>7 DEF Track!Miss, Track!clientVars
<1>8. CASE Track!Pump
  BY <1>2, <1>8 DEF Track!Pump, Track!clientVars
<1>9. CASE Track!Look
  BY <1>2, <1>9 DEF Track!Look, Track!clientVars
<1>10. CASE Track!Answer
  BY <1>2, <1>10, AnswerTracker
<1>11. CASE Track!FenceFails
  BY <1>2, <1>11 DEF Track!FenceFails, Track!clientVars
<1>12. CASE Track!Expire
<2>1. /\ refs' = Tail(refs) /\ refs # <<>> /\ UNCHANGED <<fresh, told>>
    BY <1>12 DEF Track!Expire
  <2>2. Len(refs') = Len(refs) - 1 /\ (\A i \in 1..Len(refs') : refs'[i] = refs[i + 1]) /\ Len(refs) \in Nat
    BY <2>1, TailIn DEF CallTypes
  <2>3. \A i \in 1..Len(refs') : i + 1 \in 1..Len(refs)
    BY <2>2
  <2>4. Unique(refs')
    <3> SUFFICES ASSUME NEW i \in 1..Len(refs'), NEW k \in 1..Len(refs'),
                        refs'[i].ref = refs'[k].ref \/ refs'[i].id.hwnd = refs'[k].id.hwnd
                 PROVE  i = k
      BY DEF Unique
    <3>1. i + 1 = k + 1
      BY ZenonT(60), <2>2, <2>3 DEF RefsInv, Unique
    <3> QED BY <2>2, <3>1
  <2>5. \A i \in 1..Len(refs') : refs'[i].ref <= fresh' /\ OldFor(tracker', refs'[i].id)
    BY <1>3, <2>2, <2>3
  <2> QED BY <1>4, <2>1, <2>4, <2>5 DEF RefsInv, Old
<1>13. ASSUME NEW h \in Hwnds, Track!Open(h) PROVE RefsInv'
  BY <1>2, <1>13 DEF Track!Open, Track!clientVars
<1>14. ASSUME NEW h \in Hwnds, Track!Destroy(h) PROVE RefsInv'
  BY <1>2, <1>14 DEF Track!Destroy, Track!clientVars
<1>15. ASSUME NEW h \in Hwnds, Track!Vanish(h) PROVE RefsInv'
  BY <1>2, <1>15 DEF Track!Vanish, Track!clientVars
<1>16. ASSUME NEW d \in WindowCallers, Track!Take(d) PROVE RefsInv'
  BY <1>2, <1>16 DEF Track!Take, Track!clientVars
<1>17. ASSUME NEW d \in WindowCallers, Track!Start(d) PROVE RefsInv'
  BY <1>2, <1>17 DEF Track!Start, Track!clientVars
<1>18. ASSUME NEW d \in WindowCallers, Track!Get(d) PROVE RefsInv'
  BY <1>2, <1>18 DEF Track!Get, Track!clientVars
<1>19. ASSUME NEW d \in WindowCallers, Track!NoTracker(d) PROVE RefsInv'
  BY <1>2, <1>19 DEF Track!NoTracker, Track!clientVars
<1>20. ASSUME NEW d \in WindowCallers, Track!ReadOwner(d) PROVE RefsInv'
  BY <1>2, <1>20 DEF Track!ReadOwner, Track!clientVars
<1>21. ASSUME NEW d \in WindowCallers, Track!FirstReading(d) PROVE RefsInv'
  BY <1>2, <1>21 DEF Track!FirstReading, Track!clientVars
<1>22. ASSUME NEW d \in WindowCallers, Track!Data(d) PROVE RefsInv'
  BY <1>2, <1>22 DEF Track!Data, Track!clientVars
<1>23. ASSUME NEW d \in WindowCallers, Track!SecondReading(d) PROVE RefsInv'
  <2> DEFINE r == call[d]
  <2>1. CASE UNCHANGED <<refs, fresh, told>>
    BY <1>2, <2>1
  <2>2. ASSUME NEW ref \in Nat,
               r.id = Track!Identity(r), r.id \in Identities,
               \/ \E k \in 1..Len(refs) : refs[k].id = r.id /\ refs[k].ref = ref
               \/ ref = fresh + 1,
               Retained(ref, r.id),
               fresh' = IF ref > fresh THEN ref ELSE fresh,
               told' = told \/ told' = told \cup {<<ref, r.shown>>},
               r.step = "same", r.stage \in Track!Recording, r.pass = 2
        PROVE  RefsInv'
    <3>1. fresh \in Nat /\ fresh <= fresh' /\ ref <= fresh'
      BY <2>2 DEF CallTypes
    <3>2. Checked(d)
      BY <2>2 DEF Checked, ReadTwice, Looked
    <3>3. r.shown \in 1..lives' /\ OldFor(tracker', r.id)
      <4>1. r.shown \in 1..lives
        BY <3>2 DEF ActionInv, ActionFine, Checked, Firm, Life
      <4>2. OldFor(tracker', r.id)
        BY <1>1, <2>2 DEF Steps, Reads, Looked
      <4>3. UNCHANGED lives
        BY <1>23 DEF Track!SecondReading, Track!osVars
      <4> QED BY <4>1, <4>2, <4>3
    <3>4. ASSUME NEW i \in 1..Len(refs')
             PROVE refs'[i].ref <= fresh' /\ OldFor(tracker', refs'[i].id)
      <4>1. CASE refs'[i] = [ref |-> ref, id |-> r.id]
        BY <3>1, <3>3, <4>1
      <4>2. ASSUME NEW j \in 1..Len(refs), refs'[i] = refs[j]
               PROVE refs'[i].ref <= fresh' /\ OldFor(tracker', refs'[i].id)
        BY <1>3, <4>2
      <4> QED BY <2>2, <4>1, <4>2 DEF Retained
    <3>5. \A s \in told' : s[1] <= fresh' /\ s[2] \in 1..lives'
      BY <1>4, <2>2, <3>1, <3>3
    <3>6. Unique(refs')
      BY <2>2 DEF Retained
    <3> QED BY <3>4, <3>5, <3>6 DEF RefsInv, Old
  <2> QED BY <2>1, <2>2, <1>23, SecondReadingMoves
<1>24. ASSUME NEW d \in WindowCallers, Track!Recheck(d) PROVE RefsInv'
  BY <1>2, <1>24 DEF Track!Recheck, Track!clientVars
<1>25. ASSUME NEW d \in WindowCallers, Track!Act(d) PROVE RefsInv'
  BY <1>2, <1>25 DEF Track!Act, Track!clientVars
<1>26. ASSUME NEW d \in WindowCallers, Track!LookGone(d) PROVE RefsInv'
  BY <1>2, <1>26 DEF Track!LookGone, Track!clientVars
<1>27. ASSUME NEW d \in WindowCallers, Track!ReadGone(d) PROVE RefsInv'
  BY <1>2, <1>27 DEF Track!ReadGone, Track!clientVars
<1>28. ASSUME NEW d \in WindowCallers, Track!Fails(d) PROVE RefsInv'
  BY <1>2, <1>28 DEF Track!Fails, Track!clientVars
<1>29. ASSUME NEW d \in WindowCallers, Track!GiveUp(d) PROVE RefsInv'
  BY <1>2, <1>29 DEF Track!GiveUp, Track!clientVars
<1> QED BY <1>6, <1>7, <1>8, <1>9, <1>10, <1>11, <1>12, <1>13, <1>14, <1>15, <1>16, <1>17,
           <1>18, <1>19, <1>20, <1>21, <1>22, <1>23, <1>24, <1>25, <1>26, <1>27, <1>28,
           <1>29, WindowCases

----------------------------------------------------------------------------
(* The windows, the events and the tracker, as a step leaves them.                      *)

Added(event, h) ==
    /\ Len(hook) \in Nat /\ Len(hook') = Len(hook) + 1
    /\ \A i \in 1..Len(hook) : hook'[i] = hook[i]
    /\ hook'[Len(hook) + 1].event = event /\ hook'[Len(hook) + 1].hwnd = h
Shifted ==
    /\ Len(hook) \in Nat \ {0} /\ Len(hook') = Len(hook) - 1
    /\ \A i \in 1..Len(hook') : hook'[i] = hook[i + 1]
Dropped(p) ==
    /\ Len(hook) \in Nat /\ Len(hook') = Len(hook) - 1
    /\ \A i \in 1..Len(hook') : hook'[i] = IF i < p THEN hook[i] ELSE hook[i + 1]
SameNumbers ==
    /\ tracker'.known = tracker.known /\ tracker'.epoch = tracker.epoch
    /\ tracker'.generation = tracker.generation
SyncedTo(t, s) == IF t.gap THEN Forgets(t, s) ELSE s = t
SameWindows ==
    /\ lives' = lives
    /\ \A h \in Hwnds : window'[h].life = window[h].life /\ window'[h].phase = window[h].phase
OtherWindows(h) == \A g \in Hwnds \ {h} : window'[g] = window[g]

Opens(h) ==
    /\ window[h].phase = "none" /\ OtherWindows(h)
    /\ lives' = lives + 1 /\ window'[h].life = lives + 1 /\ window'[h].phase = "open"
    /\ Added("create", h) /\ UNCHANGED <<tracker, serving>>
Destroys(h) ==
    /\ window'[h].life = window[h].life /\ window'[h].phase = "dying" /\ OtherWindows(h)
    /\ Added("destroy", h) /\ UNCHANGED <<lives, tracker, serving>>
Vanishes(h) ==
    /\ window'[h].life = 0 /\ window'[h].phase = "none" /\ OtherWindows(h)
    /\ UNCHANGED <<lives, hook, tracker, serving>>
Misses ==
    /\ \E p \in 1..Len(hook) : hook[p].event # "fence" /\ Dropped(p)
    /\ SameNumbers /\ tracker'.gap /\ tracker'.up = tracker.up
    /\ SameWindows /\ serving' = serving
PumpsFence ==
    /\ Shifted /\ hook[1].event = "fence" /\ SyncedTo(tracker, tracker')
    /\ serving.step = "fence" /\ serving'.step = "look"
    /\ serving'.for = serving.for /\ serving'.hwnd = serving.hwnd
    /\ SameWindows
PumpsEvent ==
    /\ Shifted /\ hook[1].event # "fence" /\ hook[1].hwnd \in Hwnds
    /\ IF tracker.known[hook[1].hwnd] = None THEN tracker' = tracker
       ELSE Numbers(tracker, tracker', hook[1].hwnd, hook[1].event = "create")
    /\ SameWindows /\ serving' = serving
Looks ==
    /\ serving.step = "look" /\ serving'.step = "answer" /\ serving'.for = serving.for
    /\ serving'.hwnd = serving.hwnd
    /\ serving'.alive <=> window[serving.hwnd].phase # "none"
    /\ SameWindows /\ UNCHANGED <<hook, tracker>>
Answers ==
    /\ serving.step = "answer" /\ serving.hwnd \in Hwnds /\ serving.alive \in BOOLEAN
    /\ Answered(tracker, tracker', serving.hwnd, serving.alive)
    /\ serving'.step = "idle" /\ serving'.for = None
    /\ SameWindows /\ hook' = hook
Ends ==
    /\ ~tracker'.up /\ SameNumbers
    /\ Len(hook') = 0 /\ serving'.step = "idle" /\ serving'.for = None
    /\ SameWindows
Takes(d) ==
    /\ serving.step = "idle" /\ serving'.step = "fence" /\ serving'.for = d
    /\ Added("fence", None) /\ SyncedTo(tracker, tracker')
    /\ SameWindows
Calm ==
    /\ SameWindows /\ UNCHANGED <<hook, tracker>>
    /\ \/ serving' = serving
       \/ /\ serving'.for = None /\ serving'.step = serving.step
          /\ serving'.hwnd = serving.hwnd /\ serving'.alive = serving.alive

\* A step of anyone, as the windows and the tracker see it.
WorldStep ==
    \/ Calm \/ Misses \/ PumpsFence \/ PumpsEvent \/ Looks \/ Answers \/ Ends
    \/ \E h \in Hwnds : Opens(h) \/ Destroys(h) \/ Vanishes(h)
    \/ \E d \in WindowCallers : Takes(d)

LEMMA WorldSteps ==
  ASSUME WindowTypes, CallTypes, StepsInv, RefsInv, TrackerInv, WindowSteps
  PROVE  WorldStep
<1>1. CASE UNCHANGED Track!vars
  BY <1>1 DEF Track!vars, Track!osVars, Track!trackerVars, WorldStep, Calm, SameWindows
<1>2. CASE Track!Miss
  <2>1. PICK p \in 1..Len(hook) : hook[p].event # "fence" /\ hook' = Track!Without(hook, p)
    BY <1>2 DEF Track!Miss
  <2>2. Dropped(p)
    <3>1. hook \in Seq(Events) /\ Len(hook) \in Nat
      BY LenProperties DEF WindowTypes
    <3> QED BY <2>1, <3>1, WithoutIn DEF Dropped
  <2>3. /\ tracker'.known = tracker.known /\ tracker'.epoch = tracker.epoch
        /\ tracker'.generation = tracker.generation /\ tracker'.up = tracker.up
        /\ tracker'.gap /\ UNCHANGED <<window, lives, serving>>
    BY <1>2 DEF Track!Miss, Track!osVars, WindowTypes, TrackerRecord
  <2> QED BY <2>1, <2>2, <2>3 DEF WorldStep, Misses, SameNumbers, SameWindows
<1>3. CASE Track!Pump
  <2>1. /\ Shifted /\ Head(hook) = hook[1] /\ 1 \in 1..Len(hook)
        /\ UNCHANGED <<window, lives>>
    BY <1>3, TailIn DEF Track!Pump, WindowTypes, Shifted, Track!osVars
  <2>2. CASE Head(hook).event = "fence"
    <3>1. SyncedTo(tracker, tracker')
      BY <1>3, <2>2, SyncedForgets DEF Track!Pump, WindowTypes, SyncedTo
    <3>2. serving'.step = "look" /\ serving'.for = serving.for /\ serving'.hwnd = serving.hwnd
      BY <1>3, <2>2 DEF Track!Pump, WindowTypes
    <3>3. serving.step = "fence"
      BY <2>1, <2>2 DEF TrackerInv
    <3> QED BY <2>1, <2>2, <3>1, <3>2, <3>3 DEF WorldStep, PumpsFence, SameWindows
  <2>3. CASE Head(hook).event # "fence"
    <3>1. hook[1].hwnd \in Hwnds
      BY <2>1, <2>3 DEF TrackerInv
    <3>2. tracker' = Track!Event(tracker, hook[1].hwnd, hook[1].event) /\ serving' = serving
      BY <1>3, <2>1, <2>3 DEF Track!Pump
    <3> QED BY <2>1, <2>3, <3>1, <3>2, EventNumbers DEF WorldStep, PumpsEvent, SameWindows, WindowTypes
  <2> QED BY <2>2, <2>3
<1>4. CASE Track!Look
  <2>1. /\ serving.step = "look" /\ serving'.step = "answer" /\ serving'.for = serving.for
        /\ serving'.hwnd = serving.hwnd /\ UNCHANGED <<window, lives, hook, tracker>>
        /\ serving'.alive = Track!IsWindow(serving.hwnd)
    BY <1>4 DEF Track!Look, WindowTypes, Track!osVars
  <2> QED BY <2>1 DEF WorldStep, Looks, SameWindows, Track!IsWindow
<1>5. CASE Track!Answer
  <2>1. Answers
    BY <1>5, AnswerTracker DEF Answers, SameWindows, Track!Idle
  <2> QED BY <2>1 DEF WorldStep
<1>6. CASE Track!FenceFails
  <2>1. /\ ~tracker'.up /\ SameNumbers /\ hook' = <<>> /\ UNCHANGED <<window, lives>>
        /\ serving'.step = "idle" /\ serving'.for = None
    BY <1>6
    DEF Track!FenceFails, WindowTypes, TrackerRecord, Track!osVars, Track!Idle, SameNumbers
  <2>2. Len(hook') = 0
    BY <2>1, EmptySeq
  <2> QED BY <2>1, <2>2 DEF WorldStep, Ends, SameWindows
<1>7. CASE Track!Expire
  <2>1. UNCHANGED <<window, lives, hook, tracker, serving>>
    BY <1>7 DEF Track!Expire, Track!osVars, Track!trackerVars
  <2> QED BY <2>1 DEF WorldStep, Calm, SameWindows
<1>8. ASSUME NEW h \in Hwnds, Track!Open(h) PROVE WorldStep
  <2>1. /\ window[h].phase = "none" /\ OtherWindows(h) /\ lives' = lives + 1
        /\ window'[h].life = lives + 1 /\ window'[h].phase = "open"
        /\ UNCHANGED <<tracker, serving>>
    BY <1>8 DEF Track!Open, Track!IsWindow, WindowTypes, OtherWindows
  <2>2. [event |-> "create", hwnd |-> h] \in Events
    BY DEF Events
  <2>3. Added("create", h)
    BY <1>8, <2>2, AppendIn, LenProperties DEF Track!Open, WindowTypes, Added
  <2> QED BY <2>1, <2>3 DEF WorldStep, Opens
<1>9. ASSUME NEW h \in Hwnds, Track!Destroy(h) PROVE WorldStep
  <2>1. /\ window'[h].life = window[h].life /\ window'[h].phase = "dying" /\ OtherWindows(h)
        /\ UNCHANGED <<lives, tracker, serving>>
    BY <1>9 DEF Track!Destroy, WindowTypes, OtherWindows
  <2>2. [event |-> "destroy", hwnd |-> h] \in Events
    BY DEF Events
  <2>3. Added("destroy", h)
    BY <1>9, <2>2, AppendIn, LenProperties DEF Track!Destroy, WindowTypes, Added
  <2> QED BY <2>1, <2>3 DEF WorldStep, Destroys
<1>10. ASSUME NEW h \in Hwnds, Track!Vanish(h) PROVE WorldStep
  <2>1. Vanishes(h)
    BY <1>10 DEF Track!Vanish, Track!Free, WindowTypes, OtherWindows, Vanishes
  <2> QED BY <2>1 DEF WorldStep
<1>11. ASSUME NEW d \in WindowCallers, Track!Take(d) PROVE WorldStep
  <2>1. /\ serving.step = "idle" /\ serving'.step = "fence" /\ serving'.for = d
        /\ UNCHANGED <<window, lives>>
    BY <1>11 DEF Track!Take, Track!Idle, Track!osVars
  <2>2. [event |-> "fence", hwnd |-> None] \in Events
    BY DEF Events
  <2>3. Added("fence", None)
    BY <1>11, <2>2, AppendIn, LenProperties DEF Track!Take, WindowTypes, Added
  <2>4. SyncedTo(tracker, tracker')
    BY <1>11, SyncedForgets DEF Track!Take, WindowTypes, SyncedTo
  <2> QED BY <2>1, <2>3, <2>4 DEF WorldStep, Takes, SameWindows
<1>12. ASSUME NEW d \in WindowCallers, Track!Start(d) PROVE WorldStep
  <2>1. UNCHANGED <<window, lives, hook, tracker, serving>>
    BY <1>12 DEF Track!Start, Track!osVars, Track!trackerVars
  <2> QED BY <2>1 DEF WorldStep, Calm, SameWindows
<1>13. ASSUME NEW d \in WindowCallers, Track!Get(d) PROVE WorldStep
  <2>1. UNCHANGED <<window, lives, hook, tracker, serving>>
    BY <1>13 DEF Track!Get, Track!osVars, Track!trackerVars
  <2> QED BY <2>1 DEF WorldStep, Calm, SameWindows
<1>14. ASSUME NEW d \in WindowCallers, Track!NoTracker(d) PROVE WorldStep
  <2>1. UNCHANGED <<window, lives, hook, tracker, serving>>
    BY <1>14 DEF Track!NoTracker, Track!osVars, Track!trackerVars
  <2> QED BY <2>1 DEF WorldStep, Calm, SameWindows
<1>15. ASSUME NEW d \in WindowCallers, Track!ReadOwner(d) PROVE WorldStep
  <2>1. UNCHANGED <<window, lives, hook, tracker, serving>>
    BY <1>15 DEF Track!ReadOwner, Track!osVars, Track!trackerVars
  <2> QED BY <2>1 DEF WorldStep, Calm, SameWindows
<1>16. ASSUME NEW d \in WindowCallers, Track!FirstReading(d) PROVE WorldStep
  <2>1. UNCHANGED <<window, lives, hook, tracker, serving>>
    BY <1>16 DEF Track!FirstReading, Track!osVars, Track!trackerVars
  <2> QED BY <2>1 DEF WorldStep, Calm, SameWindows
<1>17. ASSUME NEW d \in WindowCallers, Track!Data(d) PROVE WorldStep
  <2>1. UNCHANGED <<window, lives, hook, tracker, serving>>
    BY <1>17 DEF Track!Data, Track!osVars, Track!trackerVars
  <2> QED BY <2>1 DEF WorldStep, Calm, SameWindows
<1>18. ASSUME NEW d \in WindowCallers, Track!SecondReading(d) PROVE WorldStep
  <2>1. UNCHANGED <<window, lives, hook, tracker, serving>>
    BY <1>18 DEF Track!SecondReading, Track!osVars, Track!trackerVars
  <2> QED BY <2>1 DEF WorldStep, Calm, SameWindows
<1>19. ASSUME NEW d \in WindowCallers, Track!Recheck(d) PROVE WorldStep
  <2>1. UNCHANGED <<window, lives, hook, tracker, serving>>
    BY <1>19 DEF Track!Recheck, Track!osVars, Track!trackerVars
  <2> QED BY <2>1 DEF WorldStep, Calm, SameWindows
<1>20. ASSUME NEW d \in WindowCallers, Track!Act(d) PROVE WorldStep
  <2>1. UNCHANGED <<lives, hook, tracker, serving>>
    BY <1>20 DEF Track!Act, Track!trackerVars
  <2>2. \A h \in Hwnds : window'[h].life = window[h].life /\ window'[h].phase = window[h].phase
    BY <1>20 DEF Track!Act, WindowTypes
  <2> QED BY <2>1, <2>2 DEF WorldStep, Calm, SameWindows
<1>21. ASSUME NEW d \in WindowCallers, Track!LookGone(d) PROVE WorldStep
  <2>1. UNCHANGED <<window, lives, hook, tracker, serving>>
    BY <1>21 DEF Track!LookGone, Track!osVars, Track!trackerVars
  <2> QED BY <2>1 DEF WorldStep, Calm, SameWindows
<1>22. ASSUME NEW d \in WindowCallers, Track!ReadGone(d) PROVE WorldStep
  <2>1. UNCHANGED <<window, lives, hook, tracker, serving>>
    BY <1>22 DEF Track!ReadGone, Track!osVars, Track!trackerVars
  <2> QED BY <2>1 DEF WorldStep, Calm, SameWindows
<1>23. ASSUME NEW d \in WindowCallers, Track!Fails(d) PROVE WorldStep
  <2>1. UNCHANGED <<window, lives, hook, tracker, serving>>
    BY <1>23 DEF Track!Fails, Track!osVars, Track!trackerVars
  <2> QED BY <2>1 DEF WorldStep, Calm, SameWindows
<1>24. ASSUME NEW d \in WindowCallers, Track!GiveUp(d) PROVE WorldStep
  <2>1. UNCHANGED <<window, lives, hook, tracker>>
    BY <1>24 DEF Track!GiveUp, Track!osVars
  <2>2. \/ serving' = serving
        \/ /\ serving'.for = None /\ serving'.step = serving.step
           /\ serving'.hwnd = serving.hwnd /\ serving'.alive = serving.alive
    BY <1>24 DEF Track!GiveUp, WindowTypes
  <2> QED BY <2>1, <2>2 DEF WorldStep, Calm, SameWindows
<1> QED BY <1>1, <1>2, <1>3, <1>4, <1>5, <1>6, <1>7, <1>8, <1>9, <1>10, <1>11, <1>12,
           <1>13, <1>14, <1>15, <1>16, <1>17, <1>18, <1>19, <1>20, <1>21, <1>22, <1>23,
           <1>24, WindowCases

LEMMA NotOpenStays ==
  ASSUME WindowTypes, LivesInv, WorldStep, NEW l \in 1..lives, NotOpen(l)
  PROVE  NotOpen(l)'
<1>0. lives \in Nat /\ \A g \in Hwnds : window[g].life \in Nat
  BY DEF WindowTypes
<1>1. CASE Calm
  BY <1>1 DEF Calm, SameWindows, NotOpen
<1>2. CASE Misses
  BY <1>2 DEF Misses, SameWindows, NotOpen
<1>3. CASE PumpsFence
  BY <1>3 DEF PumpsFence, SameWindows, NotOpen
<1>4. CASE PumpsEvent
  BY <1>4 DEF PumpsEvent, SameWindows, NotOpen
<1>5. CASE Looks
  BY <1>5 DEF Looks, SameWindows, NotOpen
<1>6. CASE Answers
  BY <1>6 DEF Answers, SameWindows, NotOpen
<1>7. CASE Ends
  BY <1>7 DEF Ends, SameWindows, NotOpen
<1>8. ASSUME NEW k \in Hwnds, Opens(k) PROVE NotOpen(l)'
  BY <1>0, <1>8 DEF Opens, OtherWindows, NotOpen
<1>9. ASSUME NEW k \in Hwnds, Destroys(k) PROVE NotOpen(l)'
  BY <1>0, <1>9 DEF Destroys, OtherWindows, NotOpen
<1>10. ASSUME NEW k \in Hwnds, Vanishes(k) PROVE NotOpen(l)'
  BY <1>0, <1>10 DEF Vanishes, OtherWindows, NotOpen
<1>11. ASSUME NEW e \in WindowCallers, Takes(e) PROVE NotOpen(l)'
  BY <1>11 DEF Takes, SameWindows, NotOpen
<1> QED BY <1>1, <1>2, <1>3, <1>4, <1>5, <1>6, <1>7, <1>8, <1>9, <1>10, <1>11 DEF WorldStep

LEMMA LifeStays ==
  ASSUME WindowTypes, LivesInv, WorldStep, NEW h \in Hwnds, NEW l, Life(l, h)
  PROVE  Life(l, h)'
<1>0. lives \in Nat /\ l \in 1..lives /\ \A g \in Hwnds : window[g].life \in Nat
  BY DEF WindowTypes, Life
<1>1. CASE Calm
  BY <1>1 DEF Calm, SameWindows, Life
<1>2. CASE Misses
  BY <1>2 DEF Misses, SameWindows, Life
<1>3. CASE PumpsFence
  BY <1>3 DEF PumpsFence, SameWindows, Life
<1>4. CASE PumpsEvent
  BY <1>4 DEF PumpsEvent, SameWindows, Life
<1>5. CASE Looks
  BY <1>5 DEF Looks, SameWindows, Life
<1>6. CASE Answers
  BY <1>6 DEF Answers, SameWindows, Life
<1>7. CASE Ends
  BY <1>7 DEF Ends, SameWindows, Life
<1>8. ASSUME NEW k \in Hwnds, Opens(k) PROVE Life(l, h)'
  BY <1>0, <1>8 DEF Opens, OtherWindows, Life
<1>9. ASSUME NEW k \in Hwnds, Destroys(k) PROVE Life(l, h)'
  BY <1>0, <1>9 DEF Destroys, OtherWindows, Life
<1>10. ASSUME NEW k \in Hwnds, Vanishes(k) PROVE Life(l, h)'
  BY <1>0, <1>10 DEF Vanishes, OtherWindows, Life
<1>11. ASSUME NEW e \in WindowCallers, Takes(e) PROVE Life(l, h)'
  BY <1>11 DEF Takes, SameWindows, Life
<1> QED BY <1>1, <1>2, <1>3, <1>4, <1>5, <1>6, <1>7, <1>8, <1>9, <1>10, <1>11 DEF WorldStep

LEMMA ForgetsNot ==
  ASSUME NEW t, NEW s, Forgets(t, s), NEW id \in Identities
  PROVE  ~KnownAs(s, id)
BY DEF Forgets, KnownAs, Identities

LEMMA AnswerCurrent ==
  ASSUME WindowTypes, Answers, NEW id \in Identities, Old(id), Current(id)'
  PROVE  /\ Current(id) /\ ~tracker.gap
         /\ tracker'.epoch = tracker.epoch /\ tracker'.up = tracker.up
         /\ tracker'.known[id.hwnd] = tracker.known[id.hwnd]
         /\ serving.hwnd = id.hwnd => tracker.known[id.hwnd].alive = serving.alive
<1> DEFINE h == serving.hwnd
           alive == serving.alive
<1>1. PICK v \in TrackerRecord :
        /\ IF tracker.gap THEN Forgets(tracker, v) ELSE v = tracker
        /\ \/ tracker' = v /\ v.known[h] # None /\ v.known[h].alive = alive
           \/ /\ v.known[h] = None \/ v.known[h].alive # alive
              /\ \/ Numbers(v, tracker', h, alive)
                 \/ \E u \in TrackerRecord : Forgets(v, u) /\ Numbers(u, tracker', h, alive)
  BY DEF Answers, Answered
<1>2. /\ tracker \in TrackerRecord /\ tracker' \in TrackerRecord /\ h \in Hwnds
      /\ tracker.epoch \in Nat /\ tracker.generation \in Nat
      /\ id.epoch \in Nat /\ id.generation \in Nat /\ id.hwnd \in Hwnds
  BY DEF WindowTypes, TrackerRecord, Answers, Answered, Identities
<1>3. Newer(v, tracker') /\ OldFor(v, id)
  <2>1. Newer(v, v) /\ Newer(tracker, v)
    BY <1>1, <1>2, NewerSame, NewerForgets
  <2>2. Newer(v, tracker')
    BY <1>1, <1>2, <2>1, NewerNumbers, NewerForgets, NewerTransitive
  <2> QED BY <1>1, <1>2, <2>2 DEF Forgets, OldFor, Old
<1>4. KnownAs(v, id)
  BY <1>3 DEF Current, Newer, OldFor
<1>5. v = tracker /\ ~tracker.gap
  BY <1>1, <1>4, ForgetsNot
<1>6. CASE tracker' = tracker /\ tracker.known[h].alive = alive
  BY <1>4, <1>5, <1>6 DEF Current
<1>7. CASE Numbers(tracker, tracker', h, alive)
  <2>1. h # id.hwnd
    BY <1>2, <1>7 DEF Numbers, Current, KnownAs, Old, OldFor
  <2> QED BY <1>2, <1>4, <1>5, <1>7, <2>1 DEF Numbers, Current
<1>8. ASSUME NEW u \in TrackerRecord, Forgets(tracker, u), Numbers(u, tracker', h, alive)
      PROVE  FALSE
  <2>1. Newer(u, tracker') /\ OldFor(u, id)
    BY <1>2, <1>8, NewerNumbers DEF Forgets, OldFor, Old
  <2>2. KnownAs(u, id)
    BY <2>1 DEF Current, Newer, OldFor
  <2> QED BY <1>8, <2>2, ForgetsNot
<1> QED BY <1>1, <1>5, <1>6, <1>7, <1>8

LEMMA CurrentStays ==
  ASSUME Grows, NEW id \in Identities, Old(id), Current(id)'
  PROVE  Current(id) /\ tracker'.known[id.hwnd] = tracker.known[id.hwnd]
BY DEF Grows, Newer, Current, Old, OldFor

LEMMA PumpCurrent ==
  ASSUME WindowTypes, NEW id \in Identities, Old(id), Current(id)', PumpsEvent
  PROVE  hook[1].hwnd # id.hwnd /\ UNCHANGED <<tracker.gap, tracker.epoch, tracker.up>>
<1>1. CASE tracker.known[hook[1].hwnd] = None
  BY <1>1 DEF PumpsEvent, Current, KnownAs
<1>2. CASE tracker.known[hook[1].hwnd] # None
  <2>1. Numbers(tracker, tracker', hook[1].hwnd, hook[1].event = "create") /\ hook[1].hwnd \in Hwnds
    BY <1>2 DEF PumpsEvent
  <2>2. tracker.generation \in Nat /\ id.generation \in Nat
    BY DEF WindowTypes, TrackerRecord, Identities
  <2> QED BY <2>1, <2>2 DEF Numbers, Current, KnownAs, Old, OldFor
<1> QED BY <1>1, <1>2

LEMMA SyncedCurrent ==
  ASSUME NEW id \in Identities, Current(id)', SyncedTo(tracker, tracker')
  PROVE  tracker' = tracker /\ ~tracker.gap
BY ForgetsNot DEF SyncedTo, Current

LEMMA FollowsStays ==
  ASSUME WindowTypes, Grows, WorldStep, NEW id \in Identities, Old(id), NEW l,
         Trails(id, l)
  PROVE  Trails(id, l)'
<1> SUFFICES ASSUME Current(id)', tracker'.up PROVE Trails(id, l)'
  BY DEF Trails
<1>0. Current(id) /\ id.hwnd \in Hwnds
  BY CurrentStays DEF Identities
<1>1. CASE Calm
  BY <1>0, <1>1 DEF Calm, SameWindows, Trails, Current
<1>2. CASE Misses
  BY <1>2 DEF Misses, Trails
<1>3. CASE PumpsFence
  <2>1. tracker' = tracker /\ ~tracker.gap
    BY <1>3, SyncedCurrent DEF PumpsFence
  <2>2. \A i \in 1..Len(hook) : hook[i].event = "create" => i - 1 \in 1..Len(hook') /\ hook'[i - 1] = hook[i]
    BY <1>3 DEF PumpsFence, Shifted
  <2> QED BY <1>0, <1>3, <2>1, <2>2 DEF PumpsFence, SameWindows, Trails
<1>4. CASE PumpsEvent
  <2>1. hook[1].hwnd # id.hwnd /\ UNCHANGED <<tracker.gap, tracker.epoch, tracker.up>>
    BY <1>4, PumpCurrent
  <2>2. \A i \in 1..Len(hook) : hook[i].hwnd = id.hwnd => i - 1 \in 1..Len(hook') /\ hook'[i - 1] = hook[i]
    BY <1>4, <2>1 DEF PumpsEvent, Shifted
  <2> QED BY <1>0, <1>4, <2>1, <2>2 DEF PumpsEvent, SameWindows, Trails
<1>5. CASE Looks
  BY <1>0, <1>5 DEF Looks, SameWindows, Trails, Current
<1>6. CASE Answers
  BY <1>0, <1>6, AnswerCurrent DEF Answers, SameWindows, Trails
<1>7. CASE Ends
  BY <1>7 DEF Ends
<1>8. ASSUME NEW k \in Hwnds, Opens(k) PROVE Trails(id, l)'
  <2>1. \A i \in 1..Len(hook) : i \in 1..Len(hook') /\ hook'[i] = hook[i]
    BY <1>8 DEF Opens, Added
  <2>2. Len(hook) + 1 \in 1..Len(hook')
    BY <1>8 DEF Opens, Added
  <2>3. CASE k = id.hwnd
    BY <1>8, <2>2, <2>3 DEF Opens, Added, Trails
  <2>4. CASE k # id.hwnd
    BY <1>0, <1>8, <2>1, <2>4 DEF Opens, OtherWindows, Trails, Current
  <2> QED BY <2>3, <2>4
<1>9. ASSUME NEW k \in Hwnds, Destroys(k) PROVE Trails(id, l)'
  <2>1. \A i \in 1..Len(hook) : i \in 1..Len(hook') /\ hook'[i] = hook[i]
    BY <1>9 DEF Destroys, Added
  <2>2. window'[id.hwnd].life = window[id.hwnd].life
    BY <1>0, <1>9 DEF Destroys, OtherWindows
  <2> QED BY <1>0, <1>9, <2>1, <2>2 DEF Destroys, Trails, Current
<1>10. ASSUME NEW k \in Hwnds, Vanishes(k) PROVE Trails(id, l)'
  <2>1. window'[id.hwnd].life \in {window[id.hwnd].life, 0}
    BY <1>0, <1>10 DEF Vanishes, OtherWindows
  <2> QED BY <1>0, <1>10, <2>1 DEF Vanishes, Trails, Current
<1>11. ASSUME NEW e \in WindowCallers, Takes(e) PROVE Trails(id, l)'
  <2>1. tracker' = tracker /\ ~tracker.gap
    BY <1>11, SyncedCurrent DEF Takes
  <2>2. \A i \in 1..Len(hook) : i \in 1..Len(hook') /\ hook'[i] = hook[i]
    BY <1>11 DEF Takes, Added
  <2> QED BY <1>0, <1>11, <2>1, <2>2 DEF Takes, SameWindows, Trails
<1> QED BY <1>1, <1>2, <1>3, <1>4, <1>5, <1>6, <1>7, <1>8, <1>9, <1>10, <1>11 DEF WorldStep

LEMMA OutrunStays ==
  ASSUME WindowTypes, TrackerInv, Grows, WorldStep, NEW id \in Identities, Old(id),
         NEW d \in WindowCallers, OutrunBy(id, d)
  PROVE  OutrunBy(id, d)'
<1> SUFFICES ASSUME Current(id)', tracker'.up PROVE OutrunBy(id, d)'
  BY DEF OutrunBy
<1>0. Current(id) /\ id.hwnd \in Hwnds /\ d # None
  BY CurrentStays, NoneIsNone DEF Identities
<1>1. CASE Calm
  BY <1>0, <1>1 DEF Calm, OutrunBy, Current
<1>2. CASE Misses
  BY <1>2 DEF Misses, OutrunBy
<1>3. CASE PumpsFence
  <2>1. tracker' = tracker /\ ~tracker.gap
    BY <1>3, SyncedCurrent DEF PumpsFence
  <2>2. \A i \in 1..Len(hook) : hook[i].event = "create" => i - 1 \in 1..Len(hook') /\ hook'[i - 1] = hook[i]
    BY <1>3 DEF PumpsFence, Shifted
  <2>3. 1 \in 1..Len(hook) /\ \A j \in 1..Len(hook) : hook[j].event = "fence" => j = 1
    BY <1>3 DEF PumpsFence, Shifted, TrackerInv
  <2>4. CASE tracker.up /\ ~tracker.gap
    <3>1. PICK i \in 1..Len(hook) :
            /\ hook[i].event = "create" /\ hook[i].hwnd = id.hwnd
            /\ serving.for = d => \E j \in 1..Len(hook) : i < j /\ hook[j].event = "fence"
      BY <1>0, <2>4 DEF OutrunBy
    <3>2. serving.for # d
      BY <2>3, <3>1
    <3> QED BY <1>3, <2>2, <3>1, <3>2 DEF PumpsFence, OutrunBy
  <2> QED BY <2>1, <2>4
<1>4. CASE PumpsEvent
  <2>1. hook[1].hwnd # id.hwnd /\ UNCHANGED <<tracker.gap, tracker.epoch, tracker.up>>
    BY <1>4, PumpCurrent
  <2>2. CASE ~tracker.up \/ tracker.gap
    BY <2>1, <2>2 DEF OutrunBy
  <2>3. CASE tracker.up /\ ~tracker.gap
    <3>1. PICK i \in 1..Len(hook) :
            /\ hook[i].event = "create" /\ hook[i].hwnd = id.hwnd
            /\ serving.for = d =>
                 serving.step = "fence" /\ \E j \in 1..Len(hook) : i < j /\ hook[j].event = "fence"
      BY <1>0, <2>3 DEF OutrunBy
    <3>2. i - 1 \in 1..Len(hook') /\ hook'[i - 1] = hook[i]
      BY <1>4, <2>1, <3>1 DEF PumpsEvent, Shifted
    <3>3. \A j \in 1..Len(hook) : i < j => j - 1 \in 1..Len(hook') /\ hook'[j - 1] = hook[j] /\ i - 1 < j - 1
      BY <1>4, <3>1 DEF PumpsEvent, Shifted
    <3> QED BY ZenonT(60), <1>4, <3>1, <3>2, <3>3 DEF PumpsEvent, OutrunBy
  <2> QED BY <2>2, <2>3
<1>5. CASE Looks
  <2>1. serving.step # "fence" /\ UNCHANGED <<hook, tracker>> /\ serving'.for = serving.for
    BY <1>5 DEF Looks
  <2> QED BY <1>0, <2>1 DEF OutrunBy, Current
<1>6. CASE Answers
  BY <1>0, <1>6, AnswerCurrent DEF Answers, OutrunBy
<1>7. CASE Ends
  BY <1>7 DEF Ends
<1>8. ASSUME NEW k \in Hwnds, Opens(k) PROVE OutrunBy(id, d)'
  <2>1. \A i \in 1..Len(hook) : i \in 1..Len(hook') /\ hook'[i] = hook[i]
    BY <1>8 DEF Opens, Added
  <2>2. UNCHANGED <<tracker, serving>>
    BY <1>8 DEF Opens
  <2> QED BY <1>0, <2>1, <2>2 DEF OutrunBy, Current
<1>9. ASSUME NEW k \in Hwnds, Destroys(k) PROVE OutrunBy(id, d)'
  <2>1. \A i \in 1..Len(hook) : i \in 1..Len(hook') /\ hook'[i] = hook[i]
    BY <1>9 DEF Destroys, Added
  <2>2. UNCHANGED <<tracker, serving>>
    BY <1>9 DEF Destroys
  <2> QED BY <1>0, <2>1, <2>2 DEF OutrunBy, Current
<1>10. ASSUME NEW k \in Hwnds, Vanishes(k) PROVE OutrunBy(id, d)'
  BY <1>0, <1>10 DEF Vanishes, OutrunBy, Current
<1>11. ASSUME NEW e \in WindowCallers, Takes(e) PROVE OutrunBy(id, d)'
  <2>1. tracker' = tracker /\ ~tracker.gap
    BY <1>11, SyncedCurrent DEF Takes
  <2>2. \A i \in 1..Len(hook) : i \in 1..Len(hook') /\ hook'[i] = hook[i]
    BY <1>11 DEF Takes, Added
  <2>3. /\ Len(hook) + 1 \in 1..Len(hook') /\ hook'[Len(hook) + 1].event = "fence"
        /\ \A i \in 1..Len(hook) : i < Len(hook) + 1
    BY <1>11 DEF Takes, Added
  <2> QED BY <1>0, <1>11, <2>1, <2>2, <2>3 DEF Takes, OutrunBy
<1> QED BY <1>1, <1>2, <1>3, <1>4, <1>5, <1>6, <1>7, <1>8, <1>9, <1>10, <1>11 DEF WorldStep

LEMMA FirmStays ==
  ASSUME WindowTypes, LivesInv, Grows, WorldStep, NEW id \in Identities, Old(id), NEW l,
         Firm(id, l)
  PROVE  Firm(id, l)'
<1>0. /\ id.hwnd \in Hwnds /\ l \in 1..lives /\ lives \in Nat /\ Life(l, id.hwnd)
      /\ \A g \in Hwnds : window[g].life = l => g = id.hwnd
      /\ tracker.epoch \in Nat  /\ id.epoch \in Nat
  BY DEF Identities, WindowTypes, Firm, Life, TrackerRecord
<1>a. Life(l, id.hwnd)' /\ (NotOpen(l) => NotOpen(l)')
  BY <1>0, LifeStays, NotOpenStays
<1>b. /\ Current(id)' => Current(id) /\ tracker'.known[id.hwnd] = tracker.known[id.hwnd]
      /\ tracker.epoch <= tracker'.epoch /\ id.epoch <= tracker.epoch
  BY CurrentStays DEF Grows, Newer, Old, OldFor
<1> DEFINE Known == Current(id) =>
      /\ tracker.known[id.hwnd].alive
      /\ (\E i \in 1..Len(hook) : hook[i].event # "fence" /\ hook[i].hwnd = id.hwnd) => NotOpen(l)
      /\ serving.step = "answer" /\ serving.hwnd = id.hwnd /\ ~serving.alive => NotOpen(l)
<1>c. Known /\ (tracker.epoch = id.epoch /\ ~Current(id) => NotOpen(l))
  BY DEF Firm
<1>d. SUFFICES Known' /\ (tracker'.epoch = id.epoch /\ ~Current(id)' => NotOpen(l)')
  BY <1>a DEF Firm
<1> DEFINE Goal == Known' /\ (tracker'.epoch = id.epoch /\ ~Current(id)' => NotOpen(l)')
<1>e. ASSUME NotOpen(l), tracker'.epoch = tracker.epoch PROVE Goal
  BY <1>a, <1>b, <1>c, <1>e
<1>1. CASE Calm
  BY <1>a, <1>c, <1>1 DEF Calm, Current
<1>2. CASE Misses
  <2>1. PICK p \in 1..Len(hook) : hook[p].event # "fence" /\ Dropped(p)
    BY <1>2 DEF Misses
  <2>2. \A i \in 1..Len(hook') : \E j \in 1..Len(hook) : hook'[i] = hook[j]
    BY <2>1 DEF Dropped
  <2>3. /\ tracker'.known = tracker.known /\ tracker'.epoch = tracker.epoch /\ serving' = serving
        /\ (Current(id)' <=> Current(id))
    BY <1>2 DEF Misses, SameNumbers, Current, KnownAs
  <2> QED BY <1>a, <1>c, <2>2, <2>3
<1>3. CASE PumpsFence
  <2>1. CASE tracker.gap
    <3>1. tracker'.epoch = tracker.epoch + 1 /\ ~Current(id)'
      BY <1>3, <2>1, ForgetsNot DEF PumpsFence, SyncedTo, Forgets, Current
    <3> QED BY <1>0, <1>b, <3>1
  <2>2. CASE ~tracker.gap
    <3>1. tracker' = tracker /\ serving'.step = "look"
      BY <1>3, <2>2 DEF PumpsFence, SyncedTo
    <3>2. \A i \in 1..Len(hook') : i + 1 \in 1..Len(hook) /\ hook'[i] = hook[i + 1]
      BY <1>3 DEF PumpsFence, Shifted
    <3> QED BY <1>a, <1>c, <3>1, <3>2 DEF Current
  <2> QED BY <2>1, <2>2
<1>4. CASE PumpsEvent
  <2>1. tracker'.epoch = tracker.epoch /\ serving' = serving
    BY <1>4 DEF PumpsEvent, Numbers
  <2>2. \A i \in 1..Len(hook') : i + 1 \in 1..Len(hook) /\ hook'[i] = hook[i + 1]
    BY <1>4 DEF PumpsEvent, Shifted
  <2>3. CASE Current(id)'
    BY <1>a, <1>b, <1>c, <2>1, <2>2, <2>3
  <2>4. CASE ~Current(id)' /\ Current(id)
    <3>1. hook[1].hwnd = id.hwnd
      BY <1>0, <1>4, <2>4 DEF PumpsEvent, Numbers, Current, KnownAs
    <3>2. NotOpen(l)
      BY <1>4, <1>c, <2>4, <3>1 DEF PumpsEvent, Shifted
    <3> QED BY <1>e, <2>1, <3>2
  <2>5. CASE ~Current(id)
    BY <1>a, <1>b, <1>c, <2>1, <2>5
  <2> QED BY <2>3, <2>4, <2>5
<1>5. CASE Looks
  <2>1. CASE serving.hwnd = id.hwnd /\ ~serving'.alive
    <3>1. window[id.hwnd].life = 0
      BY <1>0, <1>5, <2>1 DEF Looks, LivesInv, WindowTypes
    <3>2. NotOpen(l)
      BY <1>0, <3>1 DEF NotOpen
    <3> QED BY <1>e, <3>2, <1>5 DEF Looks
  <2>2. CASE ~(serving.hwnd = id.hwnd /\ ~serving'.alive)
    BY <1>a, <1>c, <1>5, <2>2 DEF Looks, Current
  <2> QED BY <2>1, <2>2
<1>6. CASE Answers
  <2> DEFINE h == serving.hwnd
             alive == serving.alive
  <2>1. CASE Current(id)'
    <3>1. /\ Current(id) /\ tracker'.known[id.hwnd] = tracker.known[id.hwnd]
      BY <1>b, <2>1
    <3> QED BY <1>a, <1>c, <1>6, <2>1, <3>1 DEF Answers
  <2>2. CASE ~Current(id)' /\ tracker'.epoch = id.epoch
    <3>1. tracker'.epoch = tracker.epoch
      BY <1>0, <1>b, <2>2
    <3>2. PICK v \in TrackerRecord :
            /\ IF tracker.gap THEN Forgets(tracker, v) ELSE v = tracker
            /\ \/ tracker' = v /\ v.known[h] # None /\ v.known[h].alive = alive
               \/ /\ v.known[h] = None \/ v.known[h].alive # alive
                  /\ \/ Numbers(v, tracker', h, alive)
                     \/ \E u \in TrackerRecord : Forgets(v, u) /\ Numbers(u, tracker', h, alive)
      BY <1>6 DEF Answers, Answered
    <3>8. /\ v.epoch \in Nat
          /\ \A u \in TrackerRecord :
               Forgets(v, u) /\ Numbers(u, tracker', h, alive) => tracker'.epoch = v.epoch + 1
          /\ Numbers(v, tracker', h, alive) => tracker'.epoch = v.epoch
      BY DEF Forgets, Numbers, TrackerRecord
    <3>3. v.epoch <= tracker'.epoch /\ v.epoch \in Nat
      BY <3>2, <3>8
    <3>4. v = tracker
      BY <1>0, <3>1, <3>2, <3>3 DEF Forgets
    <3>5. ~(\E u \in TrackerRecord : Forgets(v, u) /\ Numbers(u, tracker', h, alive))
      BY <1>0, <3>1, <3>4, <3>8
    <3>6. CASE Current(id)
      <4>1. tracker' # tracker
        BY <2>2, <3>6 DEF Current
      <4>2. Numbers(tracker, tracker', h, alive) /\ (tracker.known[h] = None \/ tracker.known[h].alive # alive)
        BY <3>2, <3>4, <3>5, <4>1
      <4>3. h = id.hwnd
        BY <1>0, <2>2, <3>6, <4>2 DEF Numbers, Current, KnownAs
      <4>4. tracker.known[h] # None /\ tracker.known[h].alive
        BY <1>c, <3>6, <4>3 DEF Current, KnownAs
      <4>5. ~alive
        BY <1>6, <4>2, <4>4 DEF Answers
      <4>6. NotOpen(l)
        BY <1>6, <1>c, <3>6, <4>3, <4>5 DEF Answers
      <4> QED BY <1>e, <3>1, <4>6
    <3>7. CASE ~Current(id)
      BY <1>c, <1>e, <2>2, <3>1, <3>7
    <3> QED BY <3>6, <3>7
  <2>3. CASE ~Current(id)' /\ tracker'.epoch # id.epoch
    BY <2>3
  <2> QED BY <2>1, <2>2, <2>3
<1>7. CASE Ends
  <2>1. (Current(id)' <=> Current(id)) /\ tracker'.known = tracker.known /\ tracker'.epoch = tracker.epoch
    BY <1>7 DEF Ends, SameNumbers, Current, KnownAs
  <2> QED BY <1>a, <1>c, <1>7, <2>1 DEF Ends
<1>8. ASSUME NEW k \in Hwnds, Opens(k) PROVE Goal
  <2>1. /\ \A i \in 1..Len(hook') : hook'[i].hwnd = k \/ \E j \in 1..Len(hook) : hook'[i] = hook[j]
        /\ UNCHANGED <<tracker, serving>>
    BY <1>8 DEF Opens, Added
  <2>2. CASE k = id.hwnd
    <3>1. NotOpen(l)'
      BY <1>0, <1>a, <1>8, <2>2 DEF Opens, NotOpen, OtherWindows, LivesInv, WindowTypes, Life
    <3> QED BY <1>c, <2>1, <3>1 DEF Current
  <2>3. CASE k # id.hwnd
    BY <1>a, <1>c, <2>1, <2>3 DEF Current
  <2> QED BY <2>2, <2>3
<1>9. ASSUME NEW k \in Hwnds, Destroys(k) PROVE Goal
  <2>1. /\ \A i \in 1..Len(hook') : hook'[i].hwnd = k \/ \E j \in 1..Len(hook) : hook'[i] = hook[j]
        /\ UNCHANGED <<tracker, serving>>
    BY <1>9 DEF Destroys, Added
  <2>2. CASE k = id.hwnd
    <3>1. NotOpen(l)'
      BY <1>0, <1>a, <1>9, <2>2 DEF Destroys, NotOpen, OtherWindows, LivesInv, WindowTypes, Life
    <3> QED BY <1>c, <2>1, <3>1 DEF Current
  <2>3. CASE k # id.hwnd
    BY <1>a, <1>c, <2>1, <2>3 DEF Current
  <2> QED BY <2>2, <2>3
<1>10. ASSUME NEW k \in Hwnds, Vanishes(k) PROVE Goal
  BY <1>a, <1>c, <1>10 DEF Vanishes, Current
<1>11. ASSUME NEW e \in WindowCallers, Takes(e) PROVE Goal
  <2>1. CASE tracker.gap
    <3>1. tracker'.epoch = tracker.epoch + 1 /\ ~Current(id)'
      BY <1>11, <2>1, ForgetsNot DEF Takes, SyncedTo, Forgets, Current
    <3> QED BY <1>0, <1>b, <3>1
  <2>2. CASE ~tracker.gap
    <3>1. tracker' = tracker /\ serving'.step = "fence"
      BY <1>11, <2>2 DEF Takes, SyncedTo
    <3>2. \A i \in 1..Len(hook') : hook'[i].event # "fence" => \E j \in 1..Len(hook) : hook'[i] = hook[j]
      BY <1>11 DEF Takes, Added
    <3> QED BY <1>a, <1>c, <3>1, <3>2 DEF Current
  <2> QED BY <2>1, <2>2
<1> QED BY <1>1, <1>2, <1>3, <1>4, <1>5, <1>6, <1>7, <1>8, <1>9, <1>10, <1>11 DEF WorldStep

LEMMA PrecededStays ==
  ASSUME WindowTypes, LivesInv, TrackerInv, WorldStep, NEW id \in Identities, NEW l,
         NEW d \in WindowCallers, PrecededBy(id, l, d)
  PROVE  PrecededBy(id, l, d)'
<1>0. /\ id.hwnd \in Hwnds /\ l \in 1..lives /\ lives \in Nat /\ Life(l, id.hwnd) /\ d # None
      /\ \A g \in Hwnds : window[g].life = l => g = id.hwnd
  BY NoneIsNone DEF Identities, WindowTypes, PrecededBy, Life
<1>a. Life(l, id.hwnd)' /\ (NotOpen(l) => NotOpen(l)')
  BY <1>0, LifeStays, NotOpenStays
<1> SUFFICES ASSUME serving'.for = d, ~NotOpen(l)',
                    NEW i \in 1..Len(hook'), hook'[i].event # "fence", hook'[i].hwnd = id.hwnd
             PROVE  /\ serving'.step = "fence"
                    /\ \E j \in 1..Len(hook') : i < j /\ hook'[j].event = "fence"
  BY <1>a DEF PrecededBy
<1> DEFINE Goal == /\ serving'.step = "fence"
                   /\ \E j \in 1..Len(hook') : i < j /\ hook'[j].event = "fence"
<1>b. ASSUME serving.for = d, NEW m \in 1..Len(hook), hook[m] = hook'[i]
      PROVE  serving.step = "fence" /\ \E j \in 1..Len(hook) : m < j /\ hook[j].event = "fence"
  BY <1>a, <1>b DEF PrecededBy
<1>1. CASE Calm
  BY <1>0, <1>b, <1>1 DEF Calm
<1>2. CASE Misses
  <2>1. PICK p \in 1..Len(hook) : hook[p].event # "fence" /\ Dropped(p)
    BY <1>2 DEF Misses
  <2> DEFINE m == IF i < p THEN i ELSE i + 1
  <2>2. m \in 1..Len(hook) /\ hook[m] = hook'[i] /\ m # p /\ Len(hook) \in Nat
    BY <2>1 DEF Dropped
  <2>3. serving' = serving
    BY <1>2 DEF Misses
  <2> HIDE DEF m
  <2>4. PICK j \in 1..Len(hook) : m < j /\ hook[j].event = "fence"
    BY <1>b, <2>2, <2>3
  <2>5. serving.step = "fence"
    BY <1>b, <2>2, <2>3
  <2> DEFINE n == IF j < p THEN j ELSE j - 1
  <2>6. j # p
    BY <2>1, <2>4
  <2>7. n \in 1..Len(hook') /\ hook'[n] = hook[j] /\ i < n
    BY <2>1, <2>2, <2>4, <2>6 DEF Dropped, m
  <2> QED BY <2>3, <2>4, <2>5, <2>7
<1>3. CASE PumpsFence
  <2>1. i + 1 \in 1..Len(hook) /\ hook[i + 1] = hook'[i] /\ serving.for = d
    BY <1>3 DEF PumpsFence, Shifted
  <2>2. PICK j \in 1..Len(hook) : i + 1 < j /\ hook[j].event = "fence"
    BY <1>b, <2>1
  <2>3. 1 \in 1..Len(hook) /\ \A m \in 1..Len(hook) : hook[m].event = "fence" => m = 1
    BY <1>3 DEF PumpsFence, Shifted, TrackerInv
  <2> QED BY <2>2, <2>3
<1>4. CASE PumpsEvent
  <2>1. /\ i + 1 \in 1..Len(hook) /\ hook[i + 1] = hook'[i] /\ serving' = serving
        /\ Len(hook) \in Nat /\ Len(hook') = Len(hook) - 1
    BY <1>4 DEF PumpsEvent, Shifted
  <2>2. PICK j \in 1..Len(hook) : i + 1 < j /\ hook[j].event = "fence"
    BY <1>b, <2>1
  <2>3. j - 1 \in 1..Len(hook') /\ hook'[j - 1] = hook[j] /\ i < j - 1
    BY <1>4, <2>1, <2>2 DEF PumpsEvent, Shifted
  <2>4. serving.step = "fence"
    BY <1>b, <2>1
  <2> QED BY <2>1, <2>2, <2>3, <2>4
<1>5. CASE Looks
  BY <1>b, <1>5 DEF Looks
<1>6. CASE Answers
  BY <1>0, <1>6 DEF Answers
<1>7. CASE Ends
  BY <1>0, <1>7 DEF Ends
<1>8. ASSUME NEW k \in Hwnds, Opens(k) PROVE Goal
  <2>1. Len(hook) \in Nat /\ Len(hook') = Len(hook) + 1 /\ \A j \in 1..Len(hook) : hook'[j] = hook[j]
    BY <1>8 DEF Opens, Added
  <2>2. serving' = serving
    BY <1>8 DEF Opens
  <2>3. CASE i \in 1..Len(hook)
    BY <1>b, <2>1, <2>2, <2>3
  <2>4. CASE i = Len(hook) + 1
    <3>1. k = id.hwnd
      BY <1>8, <2>4 DEF Opens, Added
    <3>2. NotOpen(l)'
      BY <1>0, <1>a, <1>8, <3>1 DEF Opens, NotOpen, OtherWindows, LivesInv, WindowTypes, Life
    <3> QED BY <3>2
  <2> QED BY <2>1, <2>3, <2>4
<1>9. ASSUME NEW k \in Hwnds, Destroys(k) PROVE Goal
  <2>1. Len(hook) \in Nat /\ Len(hook') = Len(hook) + 1 /\ \A j \in 1..Len(hook) : hook'[j] = hook[j]
    BY <1>9 DEF Destroys, Added
  <2>2. serving' = serving
    BY <1>9 DEF Destroys
  <2>3. CASE i \in 1..Len(hook)
    BY <1>b, <2>1, <2>2, <2>3
  <2>4. CASE i = Len(hook) + 1
    <3>1. k = id.hwnd
      BY <1>9, <2>4 DEF Destroys, Added
    <3>2. NotOpen(l)'
      BY <1>0, <1>a, <1>9, <3>1 DEF Destroys, NotOpen, OtherWindows, LivesInv, WindowTypes, Life
    <3> QED BY <3>2
  <2> QED BY <2>1, <2>3, <2>4
<1>10. ASSUME NEW k \in Hwnds, Vanishes(k) PROVE Goal
  BY <1>b, <1>10 DEF Vanishes
<1>11. ASSUME NEW e \in WindowCallers, Takes(e) PROVE Goal
  <2>1. /\ Len(hook) \in Nat /\ Len(hook') = Len(hook) + 1 /\ hook'[Len(hook) + 1].event = "fence"
        /\ serving'.step = "fence"
    BY <1>11 DEF Takes, Added
  <2>2. i < Len(hook) + 1 /\ Len(hook) + 1 \in 1..Len(hook')
    BY <2>1
  <2> QED BY <2>1, <2>2
<1> QED BY <1>1, <1>2, <1>3, <1>4, <1>5, <1>6, <1>7, <1>8, <1>9, <1>10, <1>11 DEF WorldStep

----------------------------------------------------------------------------
(* Data under one identity.                                                             *)

SameData(e) == call'[e].id = call[e].id /\ call'[e].shown = call[e].shown

\* No call has checked what it read, and none has read.
QuietCheck(e) == Checked(e)' => Checked(e) /\ SameData(e)
QuietRead(e) == Unchecked(e)' => Unchecked(e) /\ SameData(e)
QuietChecks == \A e \in WindowCallers : QuietCheck(e)
QuietReads == \A e \in WindowCallers : QuietRead(e)

\* A reference has the data it had, or data its identity was verified with.
QuietRefs ==
    \A i \in 1..Len(refs') : \A l \in Nat :
        <<refs'[i].ref, l>> \in told' => Verified(refs'[i].id, l)

LEMMA DataOld ==
  ASSUME CallTypes, StepsInv, RefsInv
  PROVE  /\ \A id \in Identities, l \in Nat : Verified(id, l) => Old(id)
         /\ \A d \in WindowCallers : Unchecked(d) \/ Checked(d) =>
               /\ call[d].id \in Identities /\ Old(call[d].id) /\ call[d].shown \in Nat
               /\ call[d].id.hwnd = call[d].hwnd /\ call[d].hwnd \in Hwnds
<1>1. ASSUME NEW d \in WindowCallers, Unchecked(d) \/ Checked(d)
      PROVE  /\ call[d].id \in Identities /\ Old(call[d].id) /\ call[d].shown \in Nat
             /\ call[d].id.hwnd = call[d].hwnd /\ call[d].hwnd \in Hwnds
  <2>1. call[d].pass = 2 /\ call[d].step \in Reads
    BY <1>1 DEF Unchecked, ReadOnce, Checked, ReadTwice, Reads, Looked
  <2>2. call[d] \in CallRecord /\ Steps(call[d], tracker, fresh)
    BY DEF CallTypes, StepsInv
  <2>3. call[d].id # None /\ OldFor(tracker, call[d].id) /\ call[d].id.hwnd = call[d].hwnd
        /\ call[d].hwnd \in Hwnds
    BY <2>1, <2>2 DEF Steps
  <2> QED BY <2>2, <2>3 DEF Old, CallRecord
<1>2. ASSUME NEW id \in Identities, NEW l \in Nat, Verified(id, l)
      PROVE  Old(id)
  BY <1>1, <1>2 DEF Verified, RefsInv
<1> QED BY <1>1, <1>2

LEMMA QuietVerified ==
  ASSUME QuietChecks, QuietRefs, NEW id \in Identities, NEW l \in Nat, Verified(id, l)'
  PROVE  Verified(id, l)
<1>1. CASE \E i \in 1..Len(refs') : refs'[i].id = id /\ <<refs'[i].ref, l>> \in told'
  BY <1>1 DEF QuietRefs
<1>2. CASE \E d \in WindowCallers : Checked(d)' /\ call'[d].id = id /\ call'[d].shown = l
  BY <1>2 DEF QuietChecks, QuietCheck, SameData, Verified
<1> QED BY <1>1, <1>2 DEF Verified

LEMMA UncheckedStays ==
  ASSUME WindowTypes, CallTypes, StepsInv, RefsInv, TrackerInv, DataInv, WorldStep, Grows,
         NEW d \in WindowCallers, Unchecked(d)', QuietRead(d)
  PROVE  /\ Unchecked(d) /\ SameData(d) /\ call[d].id \in Identities
         /\ call[d].shown \in Nat
         /\ Outrun(d) => Outrun(d)'
         /\ Trails(call[d].id, call[d].shown)'
<1>1. /\ Unchecked(d) /\ SameData(d) /\ call[d].id \in Identities /\ Old(call[d].id)
      /\ call[d].shown \in Nat
  BY DataOld DEF QuietRead
<1>2. ASSUME Outrun(d) PROVE Outrun(d)'
  <2>1. \A x \in Identities : Old(x) /\ OutrunBy(x, d) => OutrunBy(x, d)'
    BY OutrunStays
  <2> QED BY <1>1, <1>2, <2>1 DEF Outrun, SameData
<1>3. Trails(call[d].id, call[d].shown)'
  <2>1. \A x \in Identities, l \in Nat : Old(x) /\ Trails(x, l) => Trails(x, l)'
    BY FollowsStays
  <2> QED BY <1>1, <2>1 DEF DataInv, SameData
<1> QED BY <1>1, <1>2, <1>3

LEMMA DataKeeps ==
  ASSUME WindowTypes, CallTypes, StepsInv, RefsInv, TrackerInv, DataInv,
         WorldStep, Grows, QuietChecks, QuietReads, QuietRefs,
         \A s, t \in told' : s[1] = t[1] => s[2] = t[2]
  PROVE  DataInv'
<1>1. \A id \in Identities, l \in Nat : Verified(id, l)' => Verified(id, l) /\ Old(id)
  BY QuietVerified, DataOld
<1>2. \A id \in Identities : \A l, m \in Nat : Verified(id, l)' /\ Verified(id, m)' => l = m
  BY <1>1 DEF DataInv
<1>3. \A id \in Identities : \A l \in Nat : Verified(id, l)' => Trails(id, l)'
  BY <1>1, FollowsStays DEF DataInv
<1>4. ASSUME NEW d \in WindowCallers, Unchecked(d)'
      PROVE  /\ Unchecked(d) /\ SameData(d) /\ call[d].id \in Identities
             /\ call[d].shown \in Nat
             /\ Outrun(d) => Outrun(d)'
             /\ Trails(call[d].id, call[d].shown)'
  BY <1>4, UncheckedStays DEF QuietReads
<1>5. ASSUME NEW d \in WindowCallers, Unchecked(d)', NEW l \in Nat,
             Verified(call[d].id, l)', l # call'[d].shown
      PROVE  Outrun(d)'
  <2>1. Verified(call[d].id, l) /\ l # call[d].shown
    BY <1>1, <1>4, <1>5 DEF SameData
  <2> QED BY <1>4, <1>5, <2>1 DEF DataInv
<1>6. ASSUME NEW d \in WindowCallers, Unchecked(d)', NEW e \in WindowCallers, Unchecked(e)',
             call'[e].id = call'[d].id, call'[e].shown # call'[d].shown
      PROVE  Outrun(d)' \/ Outrun(e)'
  BY <1>4, <1>6 DEF DataInv, SameData
<1> QED BY <1>2, <1>3, <1>4, <1>5, <1>6 DEF DataInv

\* Reading: the data are of the window that is there, and if others of the identity are of
\* another window, the tracker is to be told of it before it takes the call's request.
LEMMA DataReads ==
  ASSUME WindowTypes, CallTypes, StepsInv, RefsInv, TrackerInv, LivesInv, DataInv,
         WorldStep, Grows, NEW d \in WindowCallers, Track!Data(d),
         call'[d].pass = 2, call'[d].step = "first", call'[d].id = call[d].id,
         call'[d].shown = window[call[d].hwnd].life, window[call[d].hwnd].phase # "none"
  PROVE  DataInv'
<1> DEFINE id == call[d].id
           shown == window[call[d].hwnd].life
<1>1. /\ call[d].step = "data" /\ Moves(d) /\ serving.for # d
      /\ id \in Identities /\ Old(id) /\ id.hwnd = call[d].hwnd /\ id.hwnd \in Hwnds
      /\ shown \in Nat \ {0}
  <2>1. call[d].step = "data" /\ Moves(d) /\ serving.for # d
    BY DataMoves DEF TrackerInv
  <2>2. call[d] \in CallRecord /\ Steps(call[d], tracker, fresh)
    BY DEF CallTypes, StepsInv
  <2>3. id # None /\ OldFor(tracker, id) /\ id.hwnd = call[d].hwnd /\ call[d].hwnd \in Hwnds
    BY <2>1, <2>2 DEF Steps
  <2>4. shown \in Nat \ {0}
    BY <2>3 DEF WindowTypes, LivesInv
  <2> QED BY <2>1, <2>2, <2>3, <2>4 DEF Old, CallRecord
<1>2. UNCHANGED <<window, refs, told>>
  BY DEF Track!Data, Track!osVars
<1>3. QuietChecks /\ QuietRefs /\ \A e \in WindowCallers \ {d} : QuietRead(e)
  <2>1. ~Checked(d)'
    BY DEF Checked, ReadTwice, Looked
  <2>2. \A e \in WindowCallers \ {d} : call'[e] = call[e]
    BY <1>1 DEF Moves
  <2>3. QuietChecks /\ \A e \in WindowCallers \ {d} : QuietRead(e)
    BY <2>1, <2>2
    DEF QuietChecks, QuietCheck, QuietRead, SameData, Checked, ReadTwice, Unchecked,
        ReadOnce
  <2>4. QuietRefs
    BY <1>2 DEF QuietRefs, Verified
  <2> QED BY <2>3, <2>4
<1>4. \A x \in Identities, l \in Nat : Verified(x, l)' => Verified(x, l) /\ Old(x)
  BY <1>3, QuietVerified, DataOld
<1>5. ASSUME NEW l \in Nat, Trails(id, l), l # shown PROVE Outrun(d)'
  <2>1. OutrunBy(id, d)
    BY <1>1, <1>5 DEF Trails, OutrunBy
  <2>2. \A x \in Identities : Old(x) /\ OutrunBy(x, d) => OutrunBy(x, d)'
    BY OutrunStays
  <2> QED BY <1>1, <2>1, <2>2 DEF Outrun
<1>6. Trails(call[d].id, call[d].shown)'
  BY <1>1, <1>2 DEF Trails
<1>7. ASSUME NEW e \in WindowCallers \ {d}, Unchecked(e)'
      PROVE  /\ Unchecked(e) /\ SameData(e) /\ call[e].id \in Identities
             /\ call[e].shown \in Nat
             /\ Outrun(e) => Outrun(e)'
             /\ Trails(call[e].id, call[e].shown)'
  BY <1>3, <1>7, UncheckedStays
<1>8. \A x \in Identities : \A l, m \in Nat : Verified(x, l)' /\ Verified(x, m)' => l = m
  BY <1>4 DEF DataInv
<1>9. \A x \in Identities : \A l \in Nat : Verified(x, l)' => Trails(x, l)'
  BY <1>4, FollowsStays DEF DataInv
<1>10. ASSUME NEW e \in WindowCallers, Unchecked(e)', NEW l \in Nat,
              Verified(call[e].id, l)', l # call'[e].shown
       PROVE  Outrun(e)'
  <2>1. CASE e = d
    <3>1. Verified(id, l)
      BY <1>1, <1>4, <1>10, <2>1
    <3> QED BY <1>1, <1>5, <1>10, <2>1, <3>1 DEF DataInv
  <2>2. CASE e # d
    <3>1. Verified(call[e].id, l) /\ l # call[e].shown
      BY <1>4, <1>7, <1>10, <2>2 DEF SameData
    <3> QED BY <1>7, <1>10, <2>2, <3>1 DEF DataInv
  <2> QED BY <2>1, <2>2
<1>11. ASSUME NEW e \in WindowCallers \ {d}, Unchecked(e)', call'[e].id = id,
              call'[e].shown # shown
       PROVE  Outrun(d)'
  BY <1>5, <1>7, <1>11 DEF SameData, DataInv
<1>12. ASSUME NEW e \in WindowCallers, Unchecked(e)', NEW f \in WindowCallers, Unchecked(f)',
              call'[f].id = call'[e].id, call'[f].shown # call'[e].shown
       PROVE  Outrun(e)' \/ Outrun(f)'
  <2>1. CASE e # d /\ f # d
    BY <1>7, <1>12, <2>1 DEF SameData, DataInv
  <2>2. CASE e = d /\ f # d
    BY <1>11, <1>12, <2>2
  <2>3. CASE e # d /\ f = d
    BY <1>11, <1>12, <2>3
  <2> QED BY <1>12, <2>1, <2>2, <2>3
<1>13. \A s, t \in told' : s[1] = t[1] => s[2] = t[2]
  BY <1>2 DEF DataInv
<1>14. \A e \in WindowCallers : Unchecked(e)' => Trails(call[e].id, call[e].shown)'
  BY <1>6, <1>7
<1> QED BY <1>8, <1>9, <1>10, <1>12, <1>13, <1>14 DEF DataInv

\* Checking: nothing was in front of the fence, so no other data go with the identity.
LEMMA DataChecks ==
  ASSUME WindowTypes, CallTypes, StepsInv, RefsInv, TrackerInv, DataInv,
         WorldStep, Grows, Answers, NEW d \in WindowCallers, Moves(d), serving.for = d,
         Unchecked(d), Checked(d)', SameData(d), UNCHANGED <<refs, told>>,
         call'[d].first = tracker'.known[serving.hwnd], call'[d].first # None,
         call'[d].hwnd = serving.hwnd
  PROVE  DataInv'
<1> DEFINE id == call[d].id
           shown == call[d].shown
<1>1. id \in Identities /\ Old(id) /\ shown \in Nat
  BY DataOld
<1>2. Current(id)'
  BY DEF Checked, ReadTwice, SameData, Track!Identity, Current, KnownAs
<1>3. ~Outrun(d)
  <2>1. Current(id) /\ ~tracker.gap
    <3>1. \A x \in Identities : Old(x) /\ Current(x)' => Current(x) /\ ~tracker.gap
      BY AnswerCurrent
    <3> QED BY <1>1, <1>2, <3>1 DEF SameData
  <2>2. tracker.up /\ serving.step = "answer"
    BY DEF Answers, TrackerInv
  <2> QED BY <2>1, <2>2 DEF Outrun, OutrunBy
<1>4. \A e \in WindowCallers \ {d} : call'[e] = call[e]
  BY DEF Moves
<1>5. ASSUME NEW x \in Identities, NEW l \in Nat, Verified(x, l)'
      PROVE  /\ Verified(x, l) \/ (x = id /\ l = shown)
             /\ Old(x)
             /\ x = id => l = shown
  <2>1. Verified(x, l) \/ (x = id /\ l = shown)
    BY <1>4, <1>5 DEF Verified, Checked, ReadTwice, SameData
  <2> QED BY <1>1, <1>3, <2>1, DataOld DEF DataInv
<1>6. ASSUME NEW e \in WindowCallers, Unchecked(e)'
      PROVE  /\ e # d /\ Unchecked(e) /\ SameData(e) /\ call[e].id \in Identities
             /\ call[e].shown \in Nat
             /\ Outrun(e) => Outrun(e)'
             /\ Trails(call[e].id, call[e].shown)'
  <2>1. e # d
    BY <1>6 DEF Checked, ReadTwice, Unchecked, ReadOnce, Looked
  <2>2. QuietRead(e)
    BY <1>4, <2>1 DEF QuietRead, Unchecked, ReadOnce, SameData
  <2> QED BY <1>6, <2>1, <2>2, UncheckedStays
<1>7. \A x \in Identities : \A l, m \in Nat : Verified(x, l)' /\ Verified(x, m)' => l = m
  <2>1. ASSUME NEW x \in Identities, NEW l \in Nat, NEW m \in Nat,
               Verified(x, l)', Verified(x, m)', x # id
        PROVE  l = m
    BY <1>5, <2>1 DEF DataInv
  <2> QED BY <1>5, <2>1
<1>8. \A x \in Identities : \A l \in Nat : Verified(x, l)' => Trails(x, l)'
  <2>1. \A x \in Identities, l \in Nat : Verified(x, l)' => Trails(x, l) /\ Old(x)
    BY <1>1, <1>5 DEF DataInv
  <2> QED BY <2>1, FollowsStays
<1>9. ASSUME NEW e \in WindowCallers, Unchecked(e)', NEW l \in Nat,
             Verified(call[e].id, l)', l # call'[e].shown
      PROVE  Outrun(e)'
  <2>1. /\ e # d /\ Unchecked(e) /\ SameData(e) /\ call[e].id \in Identities
        /\ Outrun(e) => Outrun(e)'
    BY <1>6, <1>9
  <2>2. Verified(call[e].id, l) \/ (call[e].id = id /\ l = shown)
    BY <1>5, <1>9, <2>1 DEF SameData
  <2>3. Outrun(e)
    BY <1>3, <1>9, <2>1, <2>2 DEF DataInv, SameData
  <2> QED BY <2>1, <2>3
<1>10. ASSUME NEW e \in WindowCallers, Unchecked(e)', NEW f \in WindowCallers, Unchecked(f)',
              call'[f].id = call'[e].id, call'[f].shown # call'[e].shown
       PROVE  Outrun(e)' \/ Outrun(f)'
  BY <1>6, <1>10 DEF DataInv, SameData
<1>11. \A s, t \in told' : s[1] = t[1] => s[2] = t[2]
  BY DEF DataInv
<1> QED BY <1>6, <1>7, <1>8, <1>9, <1>10, <1>11 DEF DataInv

LEMMA DataStep ==
  ASSUME WindowTypes, CallTypes, StepsInv, RefsInv, TrackerInv, LivesInv, DataInv, WindowSteps
  PROVE  DataInv'
<1>0. WorldStep /\ Grows
  BY WorldSteps, StepGrows
<1>1. ASSUME UNCHANGED <<call, refs, told>> PROVE DataInv'
  <2>1. QuietChecks /\ QuietReads /\ QuietRefs
    BY <1>1
    DEF QuietChecks, QuietReads, QuietCheck, QuietRead, QuietRefs, SameData, Checked,
        ReadTwice,
                Unchecked, ReadOnce, Verified
  <2>2. \A s, t \in told' : s[1] = t[1] => s[2] = t[2]
    BY <1>1 DEF DataInv
  <2> QED BY <1>0, <2>1, <2>2, DataKeeps
<1>2. ASSUME NEW d \in WindowCallers, Moves(d), QuietCheck(d), QuietRead(d), UNCHANGED <<refs, told>>
      PROVE  DataInv'
  <2>1. QuietChecks /\ QuietReads
    <3>1. \A e \in WindowCallers \ {d} : call'[e] = call[e]
      BY <1>2 DEF Moves
    <3>2. \A e \in WindowCallers \ {d} : QuietCheck(e) /\ QuietRead(e)
      BY <3>1 DEF QuietCheck, QuietRead, SameData, Checked, ReadTwice, Unchecked, ReadOnce
    <3> QED BY <1>2, <3>2 DEF QuietChecks, QuietReads
  <2>2. QuietRefs
    BY <1>2 DEF QuietRefs, Verified
  <2>3. \A s, t \in told' : s[1] = t[1] => s[2] = t[2]
    BY <1>2 DEF DataInv
  <2> QED BY <1>0, <2>1, <2>2, <2>3, DataKeeps
<1>3. ASSUME NEW d \in WindowCallers, Moves(d), ~Checked(d)', ~Unchecked(d)',
             UNCHANGED <<refs, told>>
      PROVE  DataInv'
  BY <1>2, <1>3 DEF QuietCheck, QuietRead
<1>4. CASE UNCHANGED Track!vars
  BY <1>1, <1>4 DEF Track!vars, Track!clientVars
<1>5. CASE Track!Miss
  BY <1>1, <1>5 DEF Track!Miss, Track!clientVars
<1>6. CASE Track!Pump
  BY <1>1, <1>6 DEF Track!Pump, Track!clientVars
<1>7. CASE Track!Look
  BY <1>1, <1>7 DEF Track!Look, Track!clientVars
<1>8. CASE Track!Answer
  <2>1. Answers /\ UNCHANGED <<refs, told>>
    BY <1>8, AnswerTracker DEF Answers, SameWindows, Track!Idle
  <2>2. CASE UNCHANGED call
    BY <1>1, <2>1, <2>2
  <2>3. ASSUME NEW d \in WindowCallers, serving.for = d, Moves(d), call[d].hwnd = serving.hwnd,
               \/ FailedTo(call[d], call'[d])
               \/ /\ call[d].step = "first" /\ tracker'.known[serving.hwnd] # None
                  /\ Staged(call[d], call'[d], call[d].stage, "owner")
                  /\ call'[d].first = tracker'.known[serving.hwnd]
                  /\ call'[d].pass = call[d].pass /\ call'[d].id = call[d].id
                  /\ call'[d].shown = call[d].shown
               \/ /\ call[d].step = "second" /\ Alike(call[d], call'[d]) /\ call'[d].step = "same"
        PROVE  DataInv'
    <3>1. ~Unchecked(d)'
      BY <2>3 DEF Unchecked, ReadOnce, FailedTo, Staged, Alike
    <3>2. CASE ~Checked(d)'
      BY <1>3, <2>1, <2>3, <3>1, <3>2
    <3>3. CASE Checked(d)' /\ call[d].step = "second"
      <4>1. QuietCheck(d)
        BY <2>3, <3>3
        DEF QuietCheck, SameData, Checked, ReadTwice, Looked, Alike, FailedTo, Staged,
            Track!Identity
      <4> QED BY <1>2, <2>1, <2>3, <3>1, <4>1 DEF QuietRead
    <3>4. CASE Checked(d)' /\ call[d].step # "second"
      <4>1. /\ call[d].step = "first" /\ tracker'.known[serving.hwnd] # None
            /\ Staged(call[d], call'[d], call[d].stage, "owner")
            /\ call'[d].first = tracker'.known[serving.hwnd]
            /\ call'[d].pass = call[d].pass /\ SameData(d)
        BY <2>3, <3>4 DEF FailedTo, Checked, ReadTwice, Looked, SameData
      <4>2. Unchecked(d) /\ call'[d].first # None /\ call'[d].hwnd = serving.hwnd
        BY <2>3, <3>4, <4>1 DEF Staged, Checked, ReadTwice, Unchecked, ReadOnce
      <4> QED BY <1>0, <2>1, <2>3, <3>4, <4>1, <4>2, DataChecks
    <3> QED BY <3>2, <3>3, <3>4
  <2> QED BY <2>2, <2>3, <1>8, AnswerMoves
<1>9. CASE Track!FenceFails
  BY <1>1, <1>9 DEF Track!FenceFails, Track!clientVars
<1>10. CASE Track!Expire
  <2>1. refs' = Tail(refs) /\ refs # <<>> /\ UNCHANGED <<call, told>>
    BY <1>10 DEF Track!Expire
  <2>2. \A i \in 1..Len(refs') : i + 1 \in 1..Len(refs) /\ refs'[i] = refs[i + 1]
    BY <2>1, TailIn DEF CallTypes
  <2>3. QuietRefs
    BY <2>1, <2>2 DEF QuietRefs, Verified
  <2>4. QuietChecks /\ QuietReads
    BY <2>1
    DEF QuietChecks, QuietReads, QuietCheck, QuietRead, SameData, Checked, ReadTwice,
        Unchecked, ReadOnce
  <2>5. \A s, t \in told' : s[1] = t[1] => s[2] = t[2]
    BY <2>1 DEF DataInv
  <2> QED BY <1>0, <2>3, <2>4, <2>5, DataKeeps
<1>11. ASSUME NEW h \in Hwnds, Track!Open(h) PROVE DataInv'
  BY <1>1, <1>11 DEF Track!Open, Track!clientVars
<1>12. ASSUME NEW h \in Hwnds, Track!Destroy(h) PROVE DataInv'
  BY <1>1, <1>12 DEF Track!Destroy, Track!clientVars
<1>13. ASSUME NEW h \in Hwnds, Track!Vanish(h) PROVE DataInv'
  BY <1>1, <1>13 DEF Track!Vanish, Track!clientVars
<1>14. ASSUME NEW d \in WindowCallers, Track!Take(d) PROVE DataInv'
  BY <1>1, <1>14 DEF Track!Take, Track!clientVars
<1>15. ASSUME NEW d \in WindowCallers, Track!Start(d) PROVE DataInv'
  <2>1. UNCHANGED <<refs, told>>
    BY <1>15 DEF Track!Start
  <2>2. Moves(d) /\ ~Checked(d)' /\ ~Unchecked(d)'
    BY <1>15, StartMoves DEF Checked, ReadTwice, Unchecked, ReadOnce, Looked, FailedTo, Begun
  <2> QED BY <1>3, <2>1, <2>2
<1>16. ASSUME NEW d \in WindowCallers, Track!Get(d) PROVE DataInv'
  <2>1. UNCHANGED <<refs, told>>
    BY <1>16 DEF Track!Get
  <2>2. Moves(d) /\ ~Checked(d)' /\ ~Unchecked(d)'
    BY <1>16, GetMoves DEF Checked, ReadTwice, Unchecked, ReadOnce, Looked, FailedTo, Begun
  <2> QED BY <1>3, <2>1, <2>2
<1>17. ASSUME NEW d \in WindowCallers, Track!NoTracker(d) PROVE DataInv'
  <2>1. Moves(d) /\ ~Checked(d)' /\ ~Unchecked(d)' /\ UNCHANGED <<refs, told>>
    BY <1>17, NoTrackerMoves
   
    DEF Track!NoTracker, Track!clientVars, Checked, ReadTwice, Unchecked, ReadOnce, Looked,
        Over, FailedTo, Alike, Staged, Begun, Track!Recording
  <2> QED BY <1>3, <2>1
<1>18. ASSUME NEW d \in WindowCallers, Track!ReadOwner(d) PROVE DataInv'
  <2>1. Moves(d) /\ UNCHANGED <<refs, told>> /\ call[d].step = "owner"
    BY <1>18, ReadOwnerMoves DEF Track!ReadOwner
  <2>2. QuietCheck(d) /\ QuietRead(d)
    BY <1>18, ReadOwnerMoves
   
    DEF QuietCheck, QuietRead, SameData, Checked, ReadTwice, Unchecked, ReadOnce, Looked,
        FailedTo, Alike, Track!Identity
  <2> QED BY <1>2, <2>1, <2>2
<1>19. ASSUME NEW d \in WindowCallers, Track!FirstReading(d) PROVE DataInv'
  <2>1. Moves(d) /\ ~Checked(d)' /\ ~Unchecked(d)' /\ UNCHANGED <<refs, told>>
    BY <1>19, FirstReadingMoves
   
    DEF Track!FirstReading, Track!clientVars, Checked, ReadTwice, Unchecked, ReadOnce,
        Looked, Over, FailedTo, Alike, Staged, Begun, Track!Recording
  <2> QED BY <1>3, <2>1
<1>20. ASSUME NEW d \in WindowCallers, Track!Data(d) PROVE DataInv'
  <2>1. Moves(d) /\ UNCHANGED <<refs, told>>
    BY <1>20, DataMoves DEF Track!Data
  <2>2. CASE call'[d].step = "failed"
    <3>1. ~Checked(d)' /\ ~Unchecked(d)'
      BY <2>2 DEF Checked, ReadTwice, Unchecked, ReadOnce, Looked
    <3> QED BY <1>3, <2>1, <3>1
  <2>3. CASE call'[d].step # "failed"
    <3>1. /\ call'[d].pass = 2 /\ call'[d].step = "first" /\ call'[d].id = call[d].id
          /\ call'[d].shown = window[call[d].hwnd].life /\ window[call[d].hwnd].phase # "none"
      BY <1>20, <2>3, DataMoves DEF FailedTo, Staged
    <3> QED BY <1>0, <1>20, <3>1, DataReads
  <2> QED BY <2>2, <2>3
<1>21. ASSUME NEW d \in WindowCallers, Track!SecondReading(d) PROVE DataInv'
  <2>1. Moves(d) /\ ~Checked(d)' /\ ~Unchecked(d)'
    BY <1>21, SecondReadingMoves
   
    DEF Checked, ReadTwice, Unchecked, ReadOnce, Looked, Over, FailedTo, Alike, Staged,
        Begun, Recorded, Track!Recording
  <2>2. QuietChecks /\ QuietReads
    BY <2>1
    DEF Moves, QuietChecks, QuietReads, QuietCheck, QuietRead, SameData, Checked, ReadTwice,
        Unchecked, ReadOnce
  <2>3. CASE UNCHANGED <<refs, told>>
    BY <1>3, <2>1, <2>3
  <2> DEFINE r == call[d]
  <2>4. ASSUME NEW ref \in Nat, r.id = Track!Identity(r), r.id \in Identities,
               \/ \E k \in 1..Len(refs) : refs[k].id = r.id /\ refs[k].ref = ref
               \/ ref = fresh + 1,
               Retained(ref, r.id),
               told' = told \/ told' = told \cup {<<ref, r.shown>>},
               r.step = "same", r.stage \in Track!Recording, r.pass = 2
        PROVE  DataInv'
    <3>1. Verified(r.id, r.shown) /\ r.shown \in Nat
      BY <2>4, DataOld DEF Verified, Checked, ReadTwice, Looked
    <3>2. ASSUME NEW s \in told, s[1] = ref PROVE Verified(r.id, s[2]) /\ s[2] \in Nat
      <4>1. s[1] \in Nat /\ s[2] \in Nat /\ s = <<s[1], s[2]>> /\ s[1] <= fresh /\ fresh \in Nat
        BY DEF CallTypes, RefsInv
      <4> QED BY <2>4, <3>2, <4>1 DEF Verified
    <3>3. \A s \in told' : s \in told \/ (s[1] = ref /\ s[2] = r.shown)
      BY <2>4
    <3>4. \A s \in told' : s[1] = ref => s[2] = r.shown
      BY <2>4, <3>1, <3>2, <3>3 DEF DataInv
    <3>5. \A s, t \in told' : s[1] = t[1] => s[2] = t[2]
      BY <3>3, <3>4 DEF DataInv
    <3>6. QuietRefs
      <4> SUFFICES ASSUME NEW i \in 1..Len(refs'), NEW l \in Nat, <<refs'[i].ref, l>> \in told'
                   PROVE  Verified(refs'[i].id, l)
        BY DEF QuietRefs
      <4>1. CASE refs'[i] = [ref |-> ref, id |-> r.id]
        BY <3>1, <3>4, <4>1
      <4>2. ASSUME NEW j \in 1..Len(refs), refs'[i] = refs[j], refs'[i].ref # ref
            PROVE  Verified(refs'[i].id, l)
        <5>1. <<refs[j].ref, l>> \in told
          BY <3>3, <4>2
        <5> QED BY <4>2, <5>1 DEF Verified
      <4> QED BY <2>4, <4>1, <4>2 DEF Retained
    <3> QED BY <1>0, <2>2, <3>5, <3>6, DataKeeps
  <2> QED BY <2>3, <2>4, <1>21, SecondReadingMoves
<1>22. ASSUME NEW d \in WindowCallers, Track!Recheck(d) PROVE DataInv'
  <2>1. Moves(d) /\ ~Checked(d)' /\ ~Unchecked(d)' /\ UNCHANGED <<refs, told>>
    BY <1>22, RecheckMoves
   
    DEF Track!Recheck, Track!clientVars, Checked, ReadTwice, Unchecked, ReadOnce, Looked,
        Over, FailedTo, Alike, Staged, Begun, Track!Recording
  <2> QED BY <1>3, <2>1
<1>23. ASSUME NEW d \in WindowCallers, Track!Act(d) PROVE DataInv'
  <2>1. Moves(d) /\ ~Checked(d)' /\ ~Unchecked(d)' /\ UNCHANGED <<refs, told>>
    BY <1>23, ActMoves
   
    DEF Track!Act, Track!clientVars, Checked, ReadTwice, Unchecked, ReadOnce, Looked, Over,
        FailedTo, Alike, Staged, Begun, Track!Recording
  <2> QED BY <1>3, <2>1
<1>24. ASSUME NEW d \in WindowCallers, Track!LookGone(d) PROVE DataInv'
  <2>1. Moves(d) /\ ~Checked(d)' /\ ~Unchecked(d)' /\ UNCHANGED <<refs, told>>
    BY <1>24, LookGoneMoves
   
    DEF Track!LookGone, Track!clientVars, Checked, ReadTwice, Unchecked, ReadOnce, Looked,
        Over, FailedTo, Alike, Staged, Begun, Track!Recording
  <2> QED BY <1>3, <2>1
<1>25. ASSUME NEW d \in WindowCallers, Track!ReadGone(d) PROVE DataInv'
  <2>1. Moves(d) /\ ~Checked(d)' /\ ~Unchecked(d)' /\ UNCHANGED <<refs, told>>
    BY <1>25, ReadGoneMoves
   
    DEF Track!ReadGone, Track!clientVars, Checked, ReadTwice, Unchecked, ReadOnce, Looked,
        Over, FailedTo, Alike, Staged, Begun, Track!Recording
  <2> QED BY <1>3, <2>1
<1>26. ASSUME NEW d \in WindowCallers, Track!Fails(d) PROVE DataInv'
  <2>1. Moves(d) /\ ~Checked(d)' /\ ~Unchecked(d)' /\ UNCHANGED <<refs, told>>
    BY <1>26, FailsMoves
   
    DEF Track!Fails, Track!clientVars, Checked, ReadTwice, Unchecked, ReadOnce, Looked,
        Over, FailedTo, Alike, Staged, Begun, Track!Recording
  <2> QED BY <1>3, <2>1
<1>27. ASSUME NEW d \in WindowCallers, Track!GiveUp(d) PROVE DataInv'
  <2>1. Moves(d) /\ ~Checked(d)' /\ ~Unchecked(d)' /\ UNCHANGED <<refs, told>>
    BY <1>27, GiveUpMoves
   
    DEF Track!GiveUp, Track!clientVars, Checked, ReadTwice, Unchecked, ReadOnce, Looked,
        Over, FailedTo, Alike, Staged, Begun, Track!Recording
  <2> QED BY <1>3, <2>1
<1> QED BY <1>4, <1>5, <1>6, <1>7, <1>8, <1>9, <1>10, <1>11, <1>12, <1>13, <1>14, <1>15,
           <1>16, <1>17, <1>18, <1>19, <1>20, <1>21, <1>22, <1>23, <1>24, <1>25, <1>26,
           <1>27, WindowCases

----------------------------------------------------------------------------
(* The window an action was asked for.                                                  *)

\* Nothing told is taken back, and a reference that is kept keeps its identity.
RefsKeep ==
    /\ told \subseteq told'
    /\ \A i \in 1..Len(refs') :
        \/ refs'[i].ref = fresh + 1
        \/ \E j \in 1..Len(refs) : refs'[i].ref = refs[j].ref /\ refs'[i].id = refs[j].id

LEMMA RefsKept ==
  ASSUME WindowTypes, CallTypes, StepsInv, RefsInv, TrackerInv, WindowSteps
  PROVE  RefsKeep
<1>1. ASSUME UNCHANGED <<refs, told>> PROVE RefsKeep
  BY <1>1 DEF RefsKeep
<1>2. CASE UNCHANGED Track!vars
  BY <1>1, <1>2 DEF Track!vars, Track!clientVars
<1>3. CASE Track!Miss
  BY <1>1, <1>3 DEF Track!Miss, Track!clientVars
<1>4. CASE Track!Pump
  BY <1>1, <1>4 DEF Track!Pump, Track!clientVars
<1>5. CASE Track!Look
  BY <1>1, <1>5 DEF Track!Look, Track!clientVars
<1>6. CASE Track!Answer
  BY <1>1, <1>6, AnswerTracker
<1>7. CASE Track!FenceFails
  BY <1>1, <1>7 DEF Track!FenceFails, Track!clientVars
<1>8. CASE Track!Expire
  <2>1. refs' = Tail(refs) /\ refs # <<>> /\ UNCHANGED told
    BY <1>8 DEF Track!Expire
  <2>2. \A i \in 1..Len(refs') : i + 1 \in 1..Len(refs) /\ refs'[i] = refs[i + 1]
    BY <2>1, TailIn DEF CallTypes
  <2> QED BY <2>1, <2>2 DEF RefsKeep
<1>9. ASSUME NEW h \in Hwnds, Track!Open(h) PROVE RefsKeep
  BY <1>1, <1>9 DEF Track!Open, Track!clientVars
<1>10. ASSUME NEW h \in Hwnds, Track!Destroy(h) PROVE RefsKeep
  BY <1>1, <1>10 DEF Track!Destroy, Track!clientVars
<1>11. ASSUME NEW h \in Hwnds, Track!Vanish(h) PROVE RefsKeep
  BY <1>1, <1>11 DEF Track!Vanish, Track!clientVars
<1>12. ASSUME NEW d \in WindowCallers, Track!Take(d) PROVE RefsKeep
  BY <1>1, <1>12 DEF Track!Take, Track!clientVars
<1>13. ASSUME NEW d \in WindowCallers, Track!Start(d) PROVE RefsKeep
  <2>1. UNCHANGED <<refs, told>>
    BY <1>13 DEF Track!Start
  <2> QED BY <1>1, <2>1
<1>14. ASSUME NEW d \in WindowCallers, Track!Get(d) PROVE RefsKeep
  BY <1>1, <1>14 DEF Track!Get, Track!clientVars
<1>15. ASSUME NEW d \in WindowCallers, Track!NoTracker(d) PROVE RefsKeep
  BY <1>1, <1>15 DEF Track!NoTracker, Track!clientVars
<1>16. ASSUME NEW d \in WindowCallers, Track!ReadOwner(d) PROVE RefsKeep
  BY <1>1, <1>16 DEF Track!ReadOwner, Track!clientVars
<1>17. ASSUME NEW d \in WindowCallers, Track!FirstReading(d) PROVE RefsKeep
  BY <1>1, <1>17 DEF Track!FirstReading, Track!clientVars
<1>18. ASSUME NEW d \in WindowCallers, Track!Data(d) PROVE RefsKeep
  BY <1>1, <1>18 DEF Track!Data, Track!clientVars
<1>19. ASSUME NEW d \in WindowCallers, Track!SecondReading(d) PROVE RefsKeep
  <2>1. CASE UNCHANGED <<refs, told>>
    BY <1>1, <2>1
  <2> DEFINE r == call[d]
  <2>2. ASSUME NEW ref \in Nat,
               \/ \E k \in 1..Len(refs) : refs[k].id = r.id /\ refs[k].ref = ref
               \/ ref = fresh + 1,
               Retained(ref, r.id),
               told' = told \/ told' = told \cup {<<ref, r.shown>>}
        PROVE  RefsKeep
    <3>1. told \subseteq told'
      BY <2>2
    <3>2. ASSUME NEW i \in 1..Len(refs')
          PROVE  \/ refs'[i].ref = fresh + 1
                 \/ \E j \in 1..Len(refs) : refs'[i].ref = refs[j].ref /\ refs'[i].id = refs[j].id
      <4>1. CASE refs'[i] = [ref |-> ref, id |-> r.id]
        BY <2>2, <4>1
      <4>2. CASE \E j \in 1..Len(refs) : refs'[i] = refs[j]
        BY <4>2
      <4> QED BY <2>2, <4>1, <4>2 DEF Retained
    <3> QED BY <3>1, <3>2 DEF RefsKeep
  <2> QED BY <2>1, <2>2, <1>19, SecondReadingMoves
<1>20. ASSUME NEW d \in WindowCallers, Track!Recheck(d) PROVE RefsKeep
  BY <1>1, <1>20 DEF Track!Recheck, Track!clientVars
<1>21. ASSUME NEW d \in WindowCallers, Track!Act(d) PROVE RefsKeep
  BY <1>1, <1>21 DEF Track!Act, Track!clientVars
<1>22. ASSUME NEW d \in WindowCallers, Track!LookGone(d) PROVE RefsKeep
  BY <1>1, <1>22 DEF Track!LookGone, Track!clientVars
<1>23. ASSUME NEW d \in WindowCallers, Track!ReadGone(d) PROVE RefsKeep
  BY <1>1, <1>23 DEF Track!ReadGone, Track!clientVars
<1>24. ASSUME NEW d \in WindowCallers, Track!Fails(d) PROVE RefsKeep
  BY <1>1, <1>24 DEF Track!Fails, Track!clientVars
<1>25. ASSUME NEW d \in WindowCallers, Track!GiveUp(d) PROVE RefsKeep
  BY <1>1, <1>25 DEF Track!GiveUp, Track!clientVars
<1> QED BY <1>2, <1>3, <1>4, <1>5, <1>6, <1>7, <1>8, <1>9, <1>10, <1>11, <1>12, <1>13,
           <1>14, <1>15, <1>16, <1>17, <1>18, <1>19, <1>20, <1>21, <1>22, <1>23, <1>24,
           <1>25, WindowCases

\* What was found holds while the call does not move, whoever does.
LEMMA ActionStays ==
  ASSUME WindowTypes, CallTypes, LivesInv, TrackerInv, RefsInv, WorldStep, Grows, RefsKeep,
         tracker' \in TrackerRecord, lives' \in Nat,
         NEW d \in WindowCallers, NEW r \in CallRecord, Steps(r, tracker, fresh),
         ActionFine(r, d)
  PROVE  ActionFine(r, d)'
<1>0. /\ lives \in Nat /\ fresh \in Nat
      /\ \A l \in 1..lives : NotOpen(l) => NotOpen(l)'
      /\ lives <= lives' /\ lives' \in Nat
  BY NotOpenStays DEF WindowTypes, CallTypes, Grows
<1>1. ASSUME ReadOnce(r) PROVE PrecededBy(r.id, r.shown, d)'
  <2>1. r.id \in Identities
    BY <1>1 DEF Steps, ReadOnce, Reads, CallRecord
  <2> QED BY <1>1, <2>1, PrecededStays DEF ActionFine
<1>2. ASSUME ReadTwice(r) PROVE Firm(r.id, r.shown)'
  <2>1. r.id \in Identities /\ Old(r.id)
    BY <1>2 DEF Steps, ReadTwice, Reads, Old, CallRecord
  <2> QED BY <1>2, <2>1, FirmStays DEF ActionFine
<1>3. ASSUME Asked(r) PROVE AskedFine(r)'
  <2>1. AskedFine(r) /\ r.expected \in Identities /\ Old(r.expected)
    BY <1>3 DEF ActionFine, AskedFine, CallRecord
  <2>2. Firm(r.expected, r.life)'
    BY <2>1, FirmStays DEF AskedFine
  <2>3. Old(r.expected)'
    <3>1. /\ tracker.epoch \in Nat /\ tracker.generation \in Nat
          /\ r.expected.epoch \in Nat /\ r.expected.generation \in Nat
      BY <2>1 DEF WindowTypes, TrackerRecord, Identities
    <3>2. tracker'.epoch \in Nat /\ tracker'.generation \in Nat
      BY DEF TrackerRecord
    <3> QED BY <2>1, <3>1, <3>2 DEF Old, OldFor, Grows, Newer
  <2>4. ASSUME NEW i \in 1..Len(refs'), refs'[i].ref = r.ref PROVE refs'[i].id = r.expected
    <3>1. r.ref # fresh + 1
      BY <1>0 DEF Steps, CallRecord
    <3> QED BY <2>1, <2>4, <3>1 DEF RefsKeep, AskedFine
  <2> QED BY <2>1, <2>2, <2>3, <2>4 DEF RefsKeep, AskedFine
<1>4. ASSUME r.stage = "gone", r.step \in Looked, r.first.epoch = r.expected.epoch,
             Track!Identity(r) # r.expected
      PROVE  NotOpen(r.life)'
  <2>1. NotOpen(r.life) /\ r.life \in 1..lives
    BY <1>4 DEF ActionFine, Asked, AskedFine, Firm, Life
  <2> QED BY <1>0, <2>1
<1>5. ASSUME r.verdict = "closed" PROVE r.life \in 1..lives' /\ NotOpen(r.life)'
  BY <1>0, <1>5 DEF ActionFine
<1>6. ASSUME r.verdict = "minimized" PROVE r.shown = r.life
  BY <1>6 DEF ActionFine
<1> QED BY <1>1, <1>2, <1>3, <1>4, <1>5, <1>6 DEF ActionFine

LEMMA ActionFails ==
  ASSUME NEW d, NEW r, NEW q, ActionFine(r, d)', FailedTo(r, q)
  PROVE  ActionFine(q, d)'
BY DEF ActionFine, ReadOnce, ReadTwice, Asked, AskedFine, FailedTo, Alike, Looked

LEMMA ActionOver ==
  ASSUME NEW d, NEW q, NEW l, Over(q, "none", l)
  PROVE  ActionFine(q, d)'
BY DEF ActionFine, ReadOnce, ReadTwice, Asked, Over, Track!Recording

LEMMA ActionCloses ==
  ASSUME NEW d, NEW q, NEW l, Over(q, "closed", l), l \in 1..lives', NotOpen(l)'
  PROVE  ActionFine(q, d)'
BY DEF ActionFine, ReadOnce, ReadTwice, Asked, Over, Track!Recording

\* Another step with the same window asked for, and with no data read.
LEMMA ActionStaged ==
  ASSUME NEW d, NEW r, NEW q, ActionFine(r, d)', Staged(r, q, q.stage, q.step),
         q.step \in {"data", "get", "look", "act"}, r.verdict = "none", Asked(q) => Asked(r)
  PROVE  ActionFine(q, d)'
BY DEF ActionFine, ReadOnce, ReadTwice, Asked, AskedFine, Staged, Looked

\* A handle that is not valid is not that of an open window, and the life was its.
LEMMA GoneNotOpen ==
  ASSUME WindowTypes, LivesInv, NEW r \in CallRecord, r.stage = "gone", NEW d,
         ActionFine(r, d), r.hwnd \in Hwnds, ~Track!IsWindow(r.hwnd)
  PROVE  r.life \in 1..lives /\ NotOpen(r.life)
<1>1. /\ r.life \in 1..lives /\ lives \in Nat
      /\ \A g \in Hwnds : window[g].life = r.life => g = r.hwnd
  BY DEF ActionFine, Asked, AskedFine, Firm, Life, WindowTypes
<1>2. window[r.hwnd].life = 0
  BY DEF Track!IsWindow, LivesInv
<1> QED BY <1>1, <1>2 DEF NotOpen

LEMMA ActionStep ==
  ASSUME WindowTypes, CallTypes, LivesInv, StepsInv, RefsInv, TrackerInv, DataInv, ActionInv,
         WindowSteps
  PROVE  ActionInv'
<1>0. /\ WorldStep /\ Grows /\ RefsKeep /\ WindowTypes' /\ CallTypes' /\ TrackerInv' /\ DataInv'
      /\ tracker' \in TrackerRecord /\ lives' \in Nat
  BY WorldSteps, StepGrows, RefsKept, WindowTypesStep, CallTypesStep, TrackerStep, DataStep
  DEF WindowTypes
<1>1. ASSUME NEW e \in WindowCallers
      PROVE  \E r \in CallRecord : /\ r = call[e] /\ Steps(r, tracker, fresh)
                                   /\ ActionFine(r, e) /\ ActionFine(r, e)'
  <2>1. call[e] \in CallRecord
    BY DEF CallTypes
  <2>2. PICK r \in CallRecord : r = call[e]
    BY <2>1
  <2>3. Steps(r, tracker, fresh) /\ ActionFine(r, e)
    BY <2>2 DEF StepsInv, ActionInv
  <2>4. ActionFine(r, e)'
    BY <1>0, <2>3, ActionStays
  <2> QED BY <2>2, <2>3, <2>4
<1>2. ASSUME NEW e \in WindowCallers, call'[e] = call[e] PROVE ActionFine(call[e], e)'
  BY <1>1, <1>2
<1>3. ASSUME call' = call PROVE ActionInv'
  BY <1>2, <1>3 DEF ActionInv
<1>4. ASSUME NEW d \in WindowCallers, Moves(d), NEW q, q = call'[d], ActionFine(q, d)'
      PROVE  ActionInv'
  <2>1. ASSUME NEW e \in WindowCallers PROVE ActionFine(call[e], e)'
    BY <1>2, <1>4, <2>1 DEF Moves
  <2> QED BY <2>1 DEF ActionInv
<1>5. CASE UNCHANGED Track!vars
  BY <1>3, <1>5 DEF Track!vars, Track!clientVars
<1>6. CASE Track!Miss
  BY <1>3, <1>6 DEF Track!Miss, Track!clientVars
<1>7. CASE Track!Pump
  BY <1>3, <1>7 DEF Track!Pump, Track!clientVars
<1>8. CASE Track!Look
  BY <1>3, <1>8 DEF Track!Look, Track!clientVars
<1>9. CASE Track!Answer
  <2>0. Answers
    BY <1>9, AnswerTracker DEF Answers, SameWindows, Track!Idle
  <2>1. CASE UNCHANGED call
    BY <1>3, <2>1
  <2>2. ASSUME NEW d \in WindowCallers, serving.for = d, Moves(d), call[d].hwnd = serving.hwnd,
               \/ FailedTo(call[d], call'[d])
               \/ /\ call[d].step = "first" /\ tracker'.known[serving.hwnd] # None
                  /\ tracker'.known[serving.hwnd].alive
                  /\ Staged(call[d], call'[d], call[d].stage, "owner")
                  /\ call'[d].first = tracker'.known[serving.hwnd]
                  /\ call'[d].pass = call[d].pass /\ call'[d].id = call[d].id
                  /\ call'[d].shown = call[d].shown
               \/ /\ call[d].step = "second" /\ Alike(call[d], call'[d]) /\ call'[d].step = "same"
        PROVE  ActionInv'
    <3>1. PICK r \in CallRecord : /\ r = call[d] /\ Steps(r, tracker, fresh)
                                  /\ ActionFine(r, d) /\ ActionFine(r, d)'
      BY <1>1
    <3>2. PICK q : q = call'[d]
      OBVIOUS
    <3>3. CASE FailedTo(r, q)
      <4>1. ActionFine(q, d)'
        BY <3>1, <3>3, ActionFails
      <4> QED BY <1>4, <2>2, <3>2, <4>1
    <3>4. CASE r.step = "second" /\ Alike(r, q) /\ q.step = "same"
      <4>1. ActionFine(q, d)'
        BY <3>1, <3>4
        DEF ActionFine, ReadOnce, ReadTwice, Asked, AskedFine, Alike, Looked, Track!Identity
      <4> QED BY <1>4, <2>2, <3>2, <4>1
    <3>5. CASE /\ r.step = "first" /\ Staged(r, q, r.stage, "owner")
               /\ tracker'.known[r.hwnd] # None /\ tracker'.known[r.hwnd].alive
               /\ q.first = tracker'.known[r.hwnd]
               /\ q.pass = r.pass /\ q.id = r.id /\ q.shown = r.shown
      <4>0. r.verdict = "none" /\ r.hwnd \in Hwnds
        BY <3>1, <3>5 DEF Steps, CallRecord, Reads
      <4>1. ASSUME ReadTwice(q) PROVE Firm(q.id, q.shown)'
        <5>1. ReadOnce(r) /\ q.id.hwnd = r.hwnd /\ Track!Identity(q) = q.id
          BY <3>5, <4>1 DEF ReadTwice, ReadOnce, Staged, Track!Identity
        <5>2. PrecededBy(r.id, r.shown, d) /\ PrecededBy(r.id, r.shown, d)'
          BY <3>1, <5>1 DEF ActionFine
        <5>3. Life(q.shown, q.id.hwnd)'
          BY <3>5, <5>2 DEF PrecededBy
        <5>4. KnownAs(tracker', q.id)
          BY <3>5, <5>1 DEF KnownAs, Track!Identity
        <5>5. ASSUME NEW i \in 1..Len(hook'), hook'[i].event # "fence", hook'[i].hwnd = q.id.hwnd
              PROVE  NotOpen(q.shown)'
          <6>1. hook' = hook /\ serving.step = "answer"
            BY <2>0 DEF Answers
          <6>2. NotOpen(r.shown)
            BY <2>2, <3>5, <5>2, <5>5, <6>1 DEF PrecededBy
          <6>3. r.shown \in 1..lives
            BY <5>2 DEF PrecededBy, Life
          <6> QED BY <1>0, <3>5, <6>2, <6>3, NotOpenStays
        <5>6. serving'.step = "idle"
          BY <2>0 DEF Answers
        <5> QED BY <3>5, <5>1, <5>3, <5>4, <5>5, <5>6 DEF Firm, Current
      <4>2. ASSUME Asked(q) PROVE AskedFine(q)'
        BY <3>1, <3>5, <4>2 DEF ActionFine, Asked, AskedFine, Staged
      <4>3. ASSUME q.stage = "gone", q.first.epoch = q.expected.epoch,
                   Track!Identity(q) # q.expected
            PROVE  NotOpen(q.life)'
        <5>1. AskedFine(r)' /\ q.expected = r.expected /\ q.life = r.life /\ q.hwnd = r.hwnd
          BY <3>1, <3>5, <4>3 DEF ActionFine, Asked, Staged
        <5>2. Firm(r.expected, r.life)' /\ r.expected \in Identities /\ r.expected.hwnd = r.hwnd
          BY <5>1 DEF AskedFine, CallRecord
        <5>3. tracker'.epoch = r.expected.epoch
          BY <1>0, <3>5, <4>0, <4>3, <5>1 DEF TrackerInv
        <5>4. ~KnownAs(tracker', r.expected)
          BY <3>5, <4>3, <5>1, <5>2 DEF KnownAs, Track!Identity, Identities
        <5> QED BY <5>1, <5>2, <5>3, <5>4 DEF Firm, Current
      <4>4. ActionFine(q, d)'
        BY <3>5, <4>0, <4>1, <4>2, <4>3 DEF ActionFine, ReadOnce, Staged
      <4> QED BY <1>4, <2>2, <3>2, <4>4
    <3> QED BY <2>2, <3>1, <3>2, <3>3, <3>4, <3>5
  <2> QED BY <2>1, <2>2, <1>9, AnswerMoves
<1>10. CASE Track!FenceFails
  BY <1>3, <1>10 DEF Track!FenceFails, Track!clientVars
<1>11. CASE Track!Expire
  BY <1>3, <1>11 DEF Track!Expire, Track!clientVars
<1>12. ASSUME NEW h \in Hwnds, Track!Open(h) PROVE ActionInv'
  BY <1>3, <1>12 DEF Track!Open, Track!clientVars
<1>13. ASSUME NEW h \in Hwnds, Track!Destroy(h) PROVE ActionInv'
  BY <1>3, <1>13 DEF Track!Destroy, Track!clientVars
<1>14. ASSUME NEW h \in Hwnds, Track!Vanish(h) PROVE ActionInv'
  BY <1>3, <1>14 DEF Track!Vanish, Track!clientVars
<1>15. ASSUME NEW d \in WindowCallers, Track!Take(d) PROVE ActionInv'
  BY <1>3, <1>15 DEF Track!Take, Track!clientVars
<1>16. ASSUME NEW d \in WindowCallers, Track!Start(d) PROVE ActionInv'
  <2>1. PICK r \in CallRecord : /\ r = call[d] /\ Steps(r, tracker, fresh)
                                /\ ActionFine(r, d) /\ ActionFine(r, d)'
    BY <1>1
  <2>2. PICK q : q = call'[d]
    OBVIOUS
  <2>3. /\ Moves(d) /\ q.verdict = "none"
        /\ \/ q.stage = "list" /\ q.step = "first" /\ q.pass = 1
           \/ q.stage \in {"resolve", "select"} /\ q.step = "get"
    BY <1>16, <2>2, StartMoves
  <2>9. ActionFine(q, d)'
    BY <2>3 DEF ActionFine, ReadOnce, ReadTwice, Asked, Looked
  <2> QED BY <1>4, <2>2, <2>3, <2>9
<1>17. ASSUME NEW d \in WindowCallers, Track!Get(d) PROVE ActionInv'
  <2>1. PICK r \in CallRecord : /\ r = call[d] /\ Steps(r, tracker, fresh)
                                /\ ActionFine(r, d) /\ ActionFine(r, d)'
    BY <1>1
  <2>2. PICK q : q = call'[d]
    OBVIOUS
  <2>3. /\ Moves(d) /\ r.step = "get"
        /\ \/ FailedTo(r, q)
           \/ \E i \in 1..Len(refs) :
                /\ refs[i].ref = r.ref /\ Begun(r, q, r.stage) /\ q.life = r.life
                /\ q.hwnd = refs[i].id.hwnd /\ q.expected = refs[i].id
    BY <1>17, <2>1, <2>2, GetMoves
  <2>4. ASSUME NEW i \in 1..Len(refs), refs[i].ref = r.ref, Begun(r, q, r.stage),
               q.life = r.life, q.hwnd = refs[i].id.hwnd, q.expected = refs[i].id
        PROVE  ActionFine(q, d)'
    <3>1. r.verdict = "none" /\ r.stage \in {"resolve", "select", "before", "poll", "show"}
      BY <2>1, <2>3 DEF Steps, CallRecord
    <3>2. ASSUME Asked(q) PROVE AskedFine(q)'
      <4>1. Asked(r) /\ AskedFine(r) /\ AskedFine(r)'
        BY <2>1, <2>4, <3>2 DEF ActionFine, Begun, Asked
      <4>2. refs[i].id = r.expected
        BY <2>4, <4>1 DEF AskedFine
      <4> QED BY <2>4, <4>1, <4>2 DEF AskedFine, Begun
    <3> QED BY <2>4, <3>1, <3>2 DEF ActionFine, ReadOnce, ReadTwice, Begun, Looked
  <2>9. ActionFine(q, d)'
    BY <2>1, <2>3, <2>4, ActionFails
  <2> QED BY <1>4, <2>2, <2>3, <2>9
<1>18. ASSUME NEW d \in WindowCallers, Track!NoTracker(d) PROVE ActionInv'
  <2>1. PICK r \in CallRecord : /\ r = call[d] /\ Steps(r, tracker, fresh)
                                /\ ActionFine(r, d) /\ ActionFine(r, d)'
    BY <1>1
  <2>2. PICK q : q = call'[d]
    OBVIOUS
  <2>3. Moves(d) /\ FailedTo(r, q)
    BY <1>18, <2>1, <2>2, NoTrackerMoves
  <2>9. ActionFine(q, d)'
    BY <2>1, <2>3, ActionFails
  <2> QED BY <1>4, <2>2, <2>3, <2>9
<1>19. ASSUME NEW d \in WindowCallers, Track!ReadOwner(d) PROVE ActionInv'
  <2>1. PICK r \in CallRecord : /\ r = call[d] /\ Steps(r, tracker, fresh)
                                /\ ActionFine(r, d) /\ ActionFine(r, d)'
    BY <1>1
  <2>2. PICK q : q = call'[d]
    OBVIOUS
  <2>3. Moves(d) /\ r.step = "owner" /\ (FailedTo(r, q) \/ (Alike(r, q) /\ q.step = "second"))
    BY <1>19, <2>1, <2>2, ReadOwnerMoves
  <2>4. ASSUME Alike(r, q) /\ q.step = "second"
        PROVE  ActionFine(q, d)'
    BY <2>1, <2>3, <2>4
    DEF ActionFine, ReadOnce, ReadTwice, Asked, AskedFine, Alike, Looked, Track!Identity
  <2>9. ActionFine(q, d)'
    BY <2>1, <2>3, <2>4, ActionFails
  <2> QED BY <1>4, <2>2, <2>3, <2>9
<1>20. ASSUME NEW d \in WindowCallers, Track!FirstReading(d) PROVE ActionInv'
  <2>1. PICK r \in CallRecord : /\ r = call[d] /\ Steps(r, tracker, fresh)
                                /\ ActionFine(r, d) /\ ActionFine(r, d)'
    BY <1>1
  <2>2. PICK q : q = call'[d]
    OBVIOUS
  <2>3. /\ Moves(d) /\ r.step = "same"
        /\ FailedTo(r, q) \/ Staged(r, q, r.stage, "data")
    BY <1>20, <2>1, <2>2, FirstReadingMoves
  <2>4. ASSUME Staged(r, q, r.stage, "data")
        PROVE  ActionFine(q, d)'
    <3>1. Staged(r, q, q.stage, q.step) /\ q.step = "data" /\ q.stage = r.stage
      BY <2>4 DEF Staged
    <3>2. r.verdict = "none"
      BY <2>1, <2>3 DEF Steps, CallRecord
    <3> QED BY <2>1, <3>1, <3>2, ActionStaged DEF Asked
  <2>9. ActionFine(q, d)'
    BY <2>1, <2>3, <2>4, ActionFails
  <2> QED BY <1>4, <2>2, <2>3, <2>9
<1>21. ASSUME NEW d \in WindowCallers, Track!Data(d) PROVE ActionInv'
  <2>1. PICK r \in CallRecord : /\ r = call[d] /\ Steps(r, tracker, fresh)
                                /\ ActionFine(r, d) /\ ActionFine(r, d)'
    BY <1>1
  <2>2. PICK q : q = call'[d]
    OBVIOUS
  <2>3. /\ Moves(d) /\ r.step = "data" /\ r.stage \in Track!Recording
        /\ \/ FailedTo(r, q)
           \/ /\ window[r.hwnd].phase # "none" /\ q.shown = window[r.hwnd].life
              /\ Staged(r, q, r.stage, "first") /\ q.pass = 2 /\ q.id = r.id
    BY <1>21, <2>1, <2>2, DataMoves
  <2>4. ASSUME /\ window[r.hwnd].phase # "none" /\ q.shown = window[r.hwnd].life
               /\ Staged(r, q, r.stage, "first") /\ q.pass = 2 /\ q.id = r.id
        PROVE  ActionFine(q, d)'
    <3>1. /\ r.hwnd \in Hwnds /\ r.id.hwnd = r.hwnd /\ r.verdict = "none"
          /\ serving.for # d
      BY <2>1, <2>3 DEF Steps, TrackerInv, CallRecord
    <3>2. UNCHANGED <<window, lives, serving>>
      BY <1>21 DEF Track!Data, Track!osVars, Track!trackerVars
    <3>3. /\ q.shown \in 1..lives /\ \A g \in Hwnds : window[g].life = q.shown => g = r.hwnd
      BY <2>4, <3>1 DEF LivesInv, WindowTypes
    <3>4. PrecededBy(q.id, q.shown, d)'
      BY <2>4, <3>1, <3>2, <3>3 DEF PrecededBy, Life
    <3>5. Asked(q) => AskedFine(q)'
      BY <2>1, <2>4 DEF ActionFine, Asked, AskedFine, Staged
    <3> QED BY <2>3, <2>4, <3>1, <3>4, <3>5 DEF ActionFine, ReadTwice, Staged, Looked
  <2>9. ActionFine(q, d)'
    BY <2>1, <2>3, <2>4, ActionFails
  <2> QED BY <1>4, <2>2, <2>3, <2>9
<1>22. ASSUME NEW d \in WindowCallers, Track!SecondReading(d) PROVE ActionInv'
  <2>1. PICK r \in CallRecord : /\ r = call[d] /\ Steps(r, tracker, fresh)
                                /\ ActionFine(r, d) /\ ActionFine(r, d)'
    BY <1>1
  <2>2. PICK q : q = call'[d]
    OBVIOUS
  <2>3. /\ Moves(d) /\ r.step = "same" /\ r.stage \in Track!Recording /\ r.pass = 2
        /\ \/ FailedTo(r, q)
           \/ \E ref \in Nat :
                /\ r.id = Track!Identity(r) /\ r.id \in Identities
                /\ Retained(ref, r.id)
                /\ r.expected = None \/ ref = r.ref
                /\ Recorded(r, q) /\ told' = told \cup {<<ref, r.shown>>}
    BY <1>22, <2>1, <2>2, SecondReadingMoves
  <2>4. ASSUME NEW ref \in Nat, r.id = Track!Identity(r), r.id \in Identities,
               Retained(ref, r.id), r.expected = None \/ ref = r.ref,
               Recorded(r, q), told' = told \cup {<<ref, r.shown>>}
        PROVE  ActionFine(q, d)'
    <3>1. /\ r.verdict = "none" /\ ReadTwice(r) /\ r.id # None /\ r.id.hwnd = r.hwnd
          /\ OldFor(tracker, r.id)
      BY <2>1, <2>3, <2>4 DEF Steps, CallRecord, ReadTwice, Reads, Looked
    <3>2. CASE r.stage \in {"list", "resolve"}
      <4>1. Over(q, "none", 0)
        BY <2>4, <3>2 DEF Recorded
      <4> QED BY <4>1, ActionOver
    <3>3. CASE r.stage = "select"
      <4>1. Staged(r, q, "before", "get")
        BY <2>4, <3>3 DEF Recorded
      <4>2. Staged(r, q, q.stage, q.step) /\ q.step = "get" /\ ~Asked(q)
        BY <4>1 DEF Staged, Asked
      <4> QED BY <2>1, <3>1, <4>2, ActionStaged
    <3>4. CASE r.stage = "before"
      <4>1. Begun(r, q, "recheck") /\ q.hwnd = r.hwnd /\ q.expected = r.id /\ q.life = r.shown
        BY <2>4, <3>4 DEF Recorded
      <4>2. ref = r.ref
        BY <2>1, <2>3, <2>4, <3>4 DEF Steps, Reads, Looked
      <4>3. Firm(r.id, r.shown)'
        BY <2>1, <3>1 DEF ActionFine
      <4>4. Old(r.id)'
        <5>1. call[d] \in CallRecord /\ r = call[d]
          BY <2>1
        <5>2. Steps(r, tracker', fresh')
          BY <1>0, <2>1, StepsGrow DEF WindowTypes, CallTypes
        <5> QED BY <2>3, <5>2 DEF Steps, Reads, Looked, Old
      <4>5. \A i \in 1..Len(refs') : refs'[i].ref = ref => refs'[i].id = r.id
        BY <2>4 DEF Retained
      <4>6. AskedFine(q)'
        BY <2>4, <3>1, <4>1, <4>2, <4>3, <4>4, <4>5 DEF AskedFine, Begun
      <4> QED BY <3>1, <4>1, <4>6 DEF ActionFine, ReadOnce, ReadTwice, Begun, Track!Recording
    <3>5. CASE r.stage = "poll"
      <4>1. \/ Over(q, "minimized", r.life) /\ q.shown = r.shown
            \/ Staged(r, q, "poll", "get")
        BY <2>4, <3>5 DEF Recorded
      <4>2. CASE Over(q, "minimized", r.life) /\ q.shown = r.shown
        <5>1. AskedFine(r)'
          BY <2>1, <3>5 DEF ActionFine, Asked
        <5>2. <<r.ref, r.life>> \in told' /\ r.expected # None
          BY <5>1 DEF AskedFine
        <5>3. <<r.ref, r.shown>> \in told'
          BY <2>4, <5>2
        <5>4. r.shown = r.life
          BY <1>0, <5>2, <5>3 DEF DataInv
        <5> QED BY <4>2, <5>4 DEF ActionFine, ReadOnce, ReadTwice, Asked, Over, Track!Recording
      <4>3. CASE Staged(r, q, "poll", "get")
        <5>1. Staged(r, q, q.stage, q.step) /\ q.step = "get" /\ Asked(r)
          BY <3>5, <4>3 DEF Staged, Asked
        <5> QED BY <2>1, <3>1, <5>1, ActionStaged
      <4> QED BY <4>1, <4>2, <4>3
    <3>6. CASE r.stage = "show"
      <4>1. Staged(r, q, "gone", "look")
        BY <2>4, <3>6 DEF Recorded
      <4>2. Staged(r, q, q.stage, q.step) /\ q.step = "look" /\ Asked(r)
        BY <3>6, <4>1 DEF Staged, Asked
      <4> QED BY <2>1, <3>1, <4>2, ActionStaged
    <3> QED BY <2>3, <3>2, <3>3, <3>4, <3>5, <3>6 DEF Track!Recording
  <2>9. ActionFine(q, d)'
    BY <2>1, <2>3, <2>4, ActionFails
  <2> QED BY <1>4, <2>2, <2>3, <2>9
<1>23. ASSUME NEW d \in WindowCallers, Track!Recheck(d) PROVE ActionInv'
  <2>1. PICK r \in CallRecord : /\ r = call[d] /\ Steps(r, tracker, fresh)
                                /\ ActionFine(r, d) /\ ActionFine(r, d)'
    BY <1>1
  <2>2. PICK q : q = call'[d]
    OBVIOUS
  <2>3. Moves(d) /\ r.stage = "recheck" /\ (FailedTo(r, q) \/ (Alike(r, q) /\ q.step = "act"))
    BY <1>23, <2>1, <2>2, RecheckMoves
  <2>4. ASSUME Alike(r, q) /\ q.step = "act"
        PROVE  ActionFine(q, d)'
    BY <2>1, <2>3, <2>4 DEF ActionFine, ReadOnce, ReadTwice, Asked, AskedFine, Alike, Looked
  <2>9. ActionFine(q, d)'
    BY <2>1, <2>3, <2>4, ActionFails
  <2> QED BY <1>4, <2>2, <2>3, <2>9
<1>24. ASSUME NEW d \in WindowCallers, Track!Act(d) PROVE ActionInv'
  <2>1. PICK r \in CallRecord : /\ r = call[d] /\ Steps(r, tracker, fresh)
                                /\ ActionFine(r, d) /\ ActionFine(r, d)'
    BY <1>1
  <2>2. PICK q : q = call'[d]
    OBVIOUS
  <2>3. /\ Moves(d) /\ r.step = "act"
        /\ Over(q, "none", 0) \/ Staged(r, q, "gone", "look") \/ Staged(r, q, "poll", "get")
    BY <1>24, <2>1, <2>2, ActMoves
  <2>4. ASSUME Staged(r, q, "gone", "look") \/ Staged(r, q, "poll", "get")
        PROVE  ActionFine(q, d)'
    <3>1. Staged(r, q, q.stage, q.step) /\ q.step \in {"look", "get"}
      BY <2>4 DEF Staged
    <3>2. r.verdict = "none" /\ Asked(r)
      BY <2>1, <2>3 DEF Steps, CallRecord, Asked
    <3> QED BY <2>1, <3>1, <3>2, ActionStaged
  <2>9. ActionFine(q, d)'
    BY <2>3, <2>4, ActionOver
  <2> QED BY <1>4, <2>2, <2>3, <2>9
<1>25. ASSUME NEW d \in WindowCallers, Track!LookGone(d) PROVE ActionInv'
  <2>1. PICK r \in CallRecord : /\ r = call[d] /\ Steps(r, tracker, fresh)
                                /\ ActionFine(r, d) /\ ActionFine(r, d)'
    BY <1>1
  <2>2. PICK q : q = call'[d]
    OBVIOUS
  <2>3. /\ Moves(d) /\ r.step = "look" /\ r.stage = "gone"
        /\ \/ /\ Begun(r, q, "gone") /\ q.hwnd = r.hwnd /\ q.expected = r.expected
              /\ q.life = r.life
           \/ Over(q, "closed", r.life) /\ ~Track!IsWindow(r.hwnd)
    BY <1>25, <2>1, <2>2, LookGoneMoves
  <2>4. ASSUME r.stage = "gone" /\ Over(q, "closed", r.life) /\ ~Track!IsWindow(r.hwnd)
        PROVE  ActionFine(q, d)'
    <3>1. r.life \in 1..lives /\ NotOpen(r.life)
      BY <2>1, <2>4, GoneNotOpen DEF Steps
    <3>2. r.life \in 1..lives' /\ NotOpen(r.life)'
      BY <1>0, <3>1, NotOpenStays DEF Grows, WindowTypes
    <3> QED BY <2>4, <3>2, ActionCloses
  <2>5. ASSUME Begun(r, q, "gone") /\ q.hwnd = r.hwnd /\ q.expected = r.expected /\ q.life = r.life
        PROVE  ActionFine(q, d)'
    <3>1. r.verdict = "none" /\ AskedFine(r)'
      BY <2>1, <2>3 DEF Steps, CallRecord, ActionFine, Asked
    <3> QED BY <2>5, <3>1
        DEF ActionFine, ReadOnce, ReadTwice, AskedFine, Begun, Looked, Track!Recording
  <2>9. ActionFine(q, d)'
    BY <2>3, <2>4, <2>5
  <2> QED BY <1>4, <2>2, <2>3, <2>9
<1>26. ASSUME NEW d \in WindowCallers, Track!ReadGone(d) PROVE ActionInv'
  <2>1. PICK r \in CallRecord : /\ r = call[d] /\ Steps(r, tracker, fresh)
                                /\ ActionFine(r, d) /\ ActionFine(r, d)'
    BY <1>1
  <2>2. PICK q : q = call'[d]
    OBVIOUS
  <2>3. /\ Moves(d) /\ r.step = "same" /\ r.stage = "gone"
        /\ \/ FailedTo(r, q)
           \/ /\ Over(q, "closed", r.life)
              /\ Track!Identity(r).epoch = r.expected.epoch /\ Track!Identity(r) # r.expected
           \/ Staged(r, q, "show", "get")
    BY <1>26, <2>1, <2>2, ReadGoneMoves
  <2>4. ASSUME /\ Over(q, "closed", r.life)
               /\ Track!Identity(r).epoch = r.expected.epoch /\ Track!Identity(r) # r.expected
        PROVE  ActionFine(q, d)'
    <3>1. r.life \in 1..lives' /\ NotOpen(r.life)'
      BY <2>1, <2>3, <2>4
      DEF ActionFine, Asked, AskedFine, Firm, Life, Looked, Track!Identity
    <3> QED BY <2>4, <3>1, ActionCloses
  <2>5. ASSUME Staged(r, q, "show", "get")
        PROVE  ActionFine(q, d)'
    <3>1. Staged(r, q, q.stage, q.step) /\ q.step = "get" /\ Asked(r) /\ r.verdict = "none"
      BY <2>1, <2>3, <2>5 DEF Staged, Asked, Steps, CallRecord
    <3> QED BY <2>1, <3>1, ActionStaged
  <2>9. ActionFine(q, d)'
    BY <2>1, <2>3, <2>4, <2>5, ActionFails
  <2> QED BY <1>4, <2>2, <2>3, <2>9
<1>27. ASSUME NEW d \in WindowCallers, Track!Fails(d) PROVE ActionInv'
  <2>1. PICK r \in CallRecord : /\ r = call[d] /\ Steps(r, tracker, fresh)
                                /\ ActionFine(r, d) /\ ActionFine(r, d)'
    BY <1>1
  <2>2. PICK q : q = call'[d]
    OBVIOUS
  <2>3. /\ Moves(d) /\ r.step = "failed"
        /\ \/ r.stage = "gone" /\ ~Track!IsWindow(r.hwnd) /\ Over(q, "closed", r.life)
           \/ r.stage \in {"gone", "show"} /\ Staged(r, q, "gone", "look")
           \/ Over(q, "none", 0)
    BY <1>27, <2>1, <2>2, FailsMoves
  <2>4. ASSUME r.stage = "gone" /\ ~Track!IsWindow(r.hwnd) /\ Over(q, "closed", r.life)
        PROVE  ActionFine(q, d)'
    <3>1. r.life \in 1..lives /\ NotOpen(r.life)
      BY <2>1, <2>4, GoneNotOpen DEF Steps
    <3>2. r.life \in 1..lives' /\ NotOpen(r.life)'
      BY <1>0, <3>1, NotOpenStays DEF Grows, WindowTypes
    <3> QED BY <2>4, <3>2, ActionCloses
  <2>5. ASSUME r.stage \in {"gone", "show"} /\ Staged(r, q, "gone", "look")
        PROVE  ActionFine(q, d)'
    <3>1. Staged(r, q, q.stage, q.step) /\ q.step = "look" /\ Asked(r) /\ r.verdict = "none"
      BY <2>1, <2>3, <2>5 DEF Staged, Asked, Steps, CallRecord
    <3> QED BY <2>1, <3>1, ActionStaged
  <2>9. ActionFine(q, d)'
    BY <2>3, <2>4, <2>5, ActionOver
  <2> QED BY <1>4, <2>2, <2>3, <2>9
<1>28. ASSUME NEW d \in WindowCallers, Track!GiveUp(d) PROVE ActionInv'
  <2>1. PICK r \in CallRecord : /\ r = call[d] /\ Steps(r, tracker, fresh)
                                /\ ActionFine(r, d) /\ ActionFine(r, d)'
    BY <1>1
  <2>2. PICK q : q = call'[d]
    OBVIOUS
  <2>3. Moves(d) /\ Over(q, "none", 0)
    BY <1>28, <2>2, GiveUpMoves
  <2>9. ActionFine(q, d)'
    BY <2>3, ActionOver
  <2> QED BY <1>4, <2>2, <2>3, <2>9
<1> QED BY <1>5, <1>6, <1>7, <1>8, <1>9, <1>10, <1>11, <1>12, <1>13, <1>14, <1>15, <1>16,
           <1>17, <1>18, <1>19, <1>20, <1>21, <1>22, <1>23, <1>24, <1>25, <1>26, <1>27,
           <1>28, WindowCases

----------------------------------------------------------------------------
(* The invariant.                                                                       *)

LEMMA WindowsStep ==
  ASSUME WindowsInv, WindowSteps
  PROVE  WindowsInv'
<1>1. /\ WindowTypes /\ CallTypes /\ LivesInv /\ TrackerInv
      /\ StepsInv /\ RefsInv /\ DataInv /\ ActionInv
  BY DEF WindowsInv
<1>2. WindowTypes' /\ CallTypes' /\ LivesInv' /\ TrackerInv'
  BY <1>1, WindowTypesStep, CallTypesStep, LivesStep, TrackerStep
<1>3. StepsInv' /\ RefsInv'
  BY <1>1, StepsStep, RefsStep
<1>4. DataInv' /\ ActionInv'
  BY <1>1, DataStep, ActionStep
<1> QED BY <1>2, <1>3, <1>4 DEF WindowsInv

LEMMA WindowsInit ==
  ASSUME Track!Init
  PROVE  WindowsInv
<1>1. /\ window = [h \in Hwnds |-> Track!Free] /\ lives = 0
      /\ hook = <<>> /\ serving = Track!Idle
      /\ tracker = [epoch |-> 1, generation |-> 0, known |-> [h \in Hwnds |-> None],
                    gap |-> FALSE, up |-> TRUE]
      /\ call = [d \in WindowCallers |-> Track!Ended("none", 0)]
      /\ refs = <<>> /\ fresh = 0 /\ told = {}
  BY DEF Track!Init
<1>2. WindowTypes
  <2>1. Track!Free \in [life : Nat, phase : {"none", "open", "dying"}, small : BOOLEAN]
    BY DEF Track!Free
  <2>2. hook \in Seq(Events)
    BY <1>1, EmptySeq
  <2>3. tracker \in TrackerRecord
    <3> DEFINE k == [h \in Hwnds |-> None]
    <3>1. k \in Table
      BY DEF Table
    <3> HIDE DEF k
    <3>2. tracker = [epoch |-> 1, generation |-> 0, known |-> k, gap |-> FALSE, up |-> TRUE]
      BY <1>1 DEF k
    <3> QED BY <3>1, <3>2 DEF TrackerRecord
  <2> QED BY <1>1, <2>1, <2>2, <2>3 DEF WindowTypes, Track!Idle
<1>3. Len(hook) = 0 /\ Len(refs) = 0
  BY <1>1, EmptySeq
<1>4. /\ \A d \in WindowCallers : call[d] = Track!Ended("none", 0)
      /\ Over(Track!Ended("none", 0), "none", 0)
      /\ Track!Ended("none", 0) \in CallRecord
  BY <1>1, RecordsIn, KindsOfStep
<1>5. CallTypes
  <2>1. refs \in Seq(Entry)
    BY <1>1, EmptySeq
  <2> QED BY <1>1, <1>4, <2>1 DEF CallTypes
<1>6. LivesInv
  BY <1>1 DEF LivesInv, Track!Free
<1>7. TrackerInv
  BY <1>1, <1>3, NoneIsNone DEF TrackerInv, Track!Idle
<1>8. \A d \in WindowCallers : Over(call[d], "none", 0)
  BY <1>4
<1>9. StepsInv
  BY <1>1, <1>8 DEF StepsInv, Steps, Over, Reads, Looked, Track!Recording
<1>10. RefsInv
  BY <1>1, <1>3 DEF RefsInv, Unique
<1>11. \A d \in WindowCallers : ~Unchecked(d) /\ ~Checked(d)
  BY <1>8 DEF Unchecked, Checked, ReadOnce, ReadTwice, Over, Track!Recording
<1>12. DataInv
  BY <1>1, <1>3, <1>11 DEF DataInv, Verified
<1>13. ActionInv
  BY <1>8 DEF ActionInv, ActionFine, ReadOnce, ReadTwice, Asked, Over, Track!Recording
<1> QED BY <1>2, <1>5, <1>6, <1>7, <1>9, <1>10, <1>12, <1>13 DEF WindowsInv

\* The invariant holds in every behavior, whichever part it is of.
LEMMA WindowsKept == AllSpec => []WindowsInv
<1>1. AllInit => WindowsInv
  BY WindowsInit DEF AllInit
<1>2. WindowsInv /\ [AllNext]_all => WindowsInv'
  <2> SUFFICES ASSUME WindowsInv, [AllNext]_all PROVE WindowsInv'
    OBVIOUS
  <2>1. WindowSteps
    BY DEF WindowSteps, AllNext, all, tracking, Track!vars
  <2> QED BY <2>1, WindowsStep
<1> QED BY <1>1, <1>2, PTL DEF AllSpec

\* A reference is given out, over and over, with the data of one window, whatever became of
\* its HWND, whatever the tracker has missed and however late events reach it; a close that
\* is reported as observed has ended the window it was asked for, and a minimized window
\* that is reported is that window: for any number of windows, HWNDs and callers, and any
\* bounds of the tracker's table and of the references.
THEOREM WindowsStayTrue == AllSpec => []WindowsAreTrue
<1>1. WindowsInv => WindowsAreTrue
  BY DEF WindowsInv, DataInv, ActionInv, ActionFine, NotOpen, WindowsAreTrue,
         Track!WindowsAreTrue
<1> QED BY <1>1, WindowsKept, PTL

=============================================================================
