--------------------------- MODULE WorkflowProofs ---------------------------
(***************************************************************************)
(* Theorems of Workflow, for every set of workflows and connections, every *)
(* plan of steps, every limit and any number of restarts.  The inductive   *)
(* invariant relates where a task is, what its record says, and what the   *)
(* checkpoint file says: the file is always an earlier version of the      *)
(* record, and of the snapshot that is being written over it.              *)
(***************************************************************************)
EXTENDS Workflow, TLAPS

----------------------------------------------------------------------------
(* The inductive invariant.                                                *)

\* Where the task of a workflow is says what its record, its token and its scope are.
TaskOf(w) ==
    /\ phase[w] \in Tasking =>
          record[w] # NoRecord /\ record[w].outcome = "running" /\ token[w] # "none"
    /\ token[w] # "none" => phase[w] \in Tasking
    /\ record[w] # NoRecord /\ record[w].outcome = "running" => phase[w] \in Tasking
    /\ phase[w] \in {"new", "checked", "rejected", "refused"} => record[w] = NoRecord
    /\ w \in forgotten => phase[w] \in {"done", "lost"}
    /\ phase[w] \in InStep \cup {"result"} => at[w] \in StepsOf(w)
    /\ phase[w] \in {"flushing", "ready", "dispatched"} => IsAction(w)
    /\ phase[w] = "waiting" => ~IsAction(w)
    /\ phase[w] = "result" => res[w].outcome \in Ends /\ HonestStep(w, at[w], res[w])
    /\ phase[w] \in {"closing", "closed", "finish"} => res[w].outcome \in Ends
    /\ phase[w] \in {"closed", "finish", "finishFailed"} =>
          scope[w] # "open" /\ (scope[w] = "failed" => res[w].outcome = "failed")

\* Before the step its task is at, the steps of a record are over; after it, not begun.
StepOf(w) ==
    /\ \A k \in StepsOf(w) : record[w] # NoRecord =>
          /\ phase[w] = "head" /\ k >= at[w] => record[w].steps[k].outcome = "absent"
          /\ phase[w] \in InStep \cup {"result"} /\ k > at[w] =>
                record[w].steps[k].outcome = "absent"
          /\ phase[w] \in InStep \cup {"result"} /\ k = at[w] =>
                record[w].steps[k].outcome = "running"
          /\ record[w].steps[k].outcome = "running" =>
                phase[w] \in InStep \cup {"result"} /\ k = at[w]
    /\ \A k \in StepsOf(w) : <<w, k>> \in dispatched => Plan[w][k].does = "action"

\* a is b or an earlier version of it: its steps had not come further.
Earlier(w, a, b) ==
    a # NoRecord =>
        /\ b # NoRecord
        /\ \A k \in StepsOf(w) :
              \/ a.steps[k].outcome = "absent"
              \/ a.steps[k] = b.steps[k]
              \/ a.steps[k].outcome = "running" /\ b.steps[k].outcome # "absent"

Marked(w, r, k) == r # NoRecord /\ r.steps[k].outcome # "absent"

\* What the file, the snapshot on its way and the record say, unless a client has forgotten
\* the workflow: a step whose flush was asked for is marked wherever that flush has come.
FileOf(w) ==
    w \notin forgotten =>
        /\ Earlier(w, disk[w], record[w])
        /\ writing # NoSave =>
              Earlier(w, disk[w], writing.snap[w]) /\ Earlier(w, writing.snap[w], record[w])
        /\ \A k \in StepsOf(w) : <<w, k>> \in queue => Marked(w, record[w], k)
        /\ \A k \in StepsOf(w) :
              writing # NoSave /\ writing.by = <<w, k>> => Marked(w, writing.snap[w], k)
        /\ phase[w] = "ready" => Marked(w, disk[w], at[w])
        /\ \A k \in StepsOf(w) : <<w, k>> \in dispatched => Marked(w, disk[w], k)

\* A record that may be told: of each action only what is known, and nothing runs at the end.
Honest(w, r) ==
    r # NoRecord =>
        /\ \A k \in StepsOf(w) : HonestStep(w, k, r.steps[k])
        /\ r.outcome # "running" => \A k \in StepsOf(w) : r.steps[k].outcome # "running"

\* The final flush, and every flush after it, finds records that no task changes any more.
LastInv ==
    /\ down \in {"up", "draining"} => ~drained
    /\ down # "up" => \A w \in Flows : phase[w] \notin {"checked", "rejected"}
    /\ drained => \A w \in Flows : token[w] = "none"
    /\ Shutdown \in queue => down = "flushing"
    /\ writing # NoSave /\ writing.by = Shutdown => down = "flushing" /\ Shutdown \notin queue
    /\ drained /\ writing # NoSave /\ (writing.by = Shutdown \/ down = "saved") =>
          writing.snap = Snapshot
    /\ down = "saved" /\ drained => disk = Snapshot

TasksInv == \A w \in Flows : TaskOf(w)
StepsInv == \A w \in Flows : StepOf(w)
FileInv == \A w \in Persistent : FileOf(w)
HonestInv ==
    /\ \A w \in Flows : Honest(w, record[w])
    /\ \A w \in Persistent :
          Honest(w, disk[w]) /\ (writing # NoSave => Honest(w, writing.snap[w]))

\* The record of a workflow whose connection was swept stays only for its task.
SweptInv ==
    \A w \in Flows : record[w] # NoRecord /\ w \notin Persistent /\ Owner[w] \in swept =>
                         w \in retired /\ phase[w] \in Tasking

Inv == TypeOK /\ TasksInv /\ StepsInv /\ SweptInv /\ FileInv /\ HonestInv
       /\ ScopeEndsWithWorkflow /\ LastInv

----------------------------------------------------------------------------
(* Operators of the model.                                                 *)

\* Every workflow has a first step.
LEMMA Steps ==
    ASSUME NEW w \in Flows
    PROVE  /\ Len(Plan[w]) \in Nat \ {0}
           /\ 1 \in StepsOf(w)
           /\ \A k \in StepsOf(w) : k \in Nat /\ k # 0
           /\ \A k \in Nat : k \in StepsOf(w) <=> 1 <= k /\ k <= Len(Plan[w])
<1>1. Plan[w] \in Seq([does: {"action", "wait"}, goOn: BOOLEAN]) /\ Plan[w] # <<>>
  BY WorkflowAssumption
<1>2. Len(Plan[w]) \in Nat \ {0}
  BY <1>1
<1> QED
  BY <1>2 DEF StepsOf

LEMMA SaverForms ==
    ASSUME NEW s \in Savers
    PROVE  \/ s = Worker \/ s = Shutdown
           \/ \E w \in Persistent : \E k \in 0..Len(Plan[w]) : s = <<w, k>>
<1>1. CASE s \in UNION {{w} \X (0..Len(Plan[w])) : w \in Persistent}
  <2>1. PICK w \in Persistent : s \in {w} \X (0..Len(Plan[w]))
    BY <1>1
  <2>2. s = <<s[1], s[2]>> /\ s[1] = w /\ s[2] \in 0..Len(Plan[w])
    BY <2>1
  <2> QED
    BY <2>1, <2>2
<1>2. CASE s \in {Worker, Shutdown}
  BY <1>2
<1> QED
  BY <1>1, <1>2 DEF Savers

LEMMA SaverSteps ==
    ASSUME NEW w \in Persistent, NEW k \in 0..Len(Plan[w])
    PROVE  /\ <<w, k>> \in Savers
           /\ <<w, k>> # Worker /\ <<w, k>> # Shutdown
<1>1. w \in Flows
  BY WorkflowAssumption
<1>2. w # "worker" /\ w # "shutdown"
  BY <1>1, WorkflowAssumption
<1>3. <<w, k>> \in {w} \X (0..Len(Plan[w]))
  OBVIOUS
<1>4. <<w, k>> \in UNION {{v} \X (0..Len(Plan[v])) : v \in Persistent}
  BY <1>3
<1> QED
  BY <1>2, <1>4 DEF Savers, Worker, Shutdown

LEMMA SaverFacts ==
    /\ Worker \in Savers /\ Shutdown \in Savers /\ Worker # Shutdown
    /\ Worker[2] = 0 /\ Shutdown[2] = 0
<1>1. Worker \in Savers /\ Shutdown \in Savers
  BY Zenon DEF Savers
<1> QED
  BY <1>1 DEF Worker, Shutdown

LEMMA NewRecordTyped == \A w \in Flows : NewRecord(w) \in RecordOf(w)
BY DEF NewRecord, RecordOf, NoStep, StepResult, Outcomes

LEMMA ActionOrNot == \A w \in Flows : IsAction(w) \in BOOLEAN
BY DEF IsAction

\* put_step changes one step of one record.
LEMMA PutFacts ==
    ASSUME TypeOK, NEW w \in Flows, at[w] \in StepsOf(w), NEW result \in StepResult,
           record[w] # NoRecord, record' = Put(w, result)
    PROVE  /\ DOMAIN record' = Flows
           /\ \A v \in Flows \ {w} : record'[v] = record[v]
           /\ record'[w] \in RecordOf(w) /\ record'[w] # NoRecord
           /\ record'[w].outcome = record[w].outcome
           /\ record'[w].steps[at[w]] = result
           /\ \A k \in StepsOf(w) \ {at[w]} : record'[w].steps[k] = record[w].steps[k]
<1>1. record[w] \in RecordOf(w) /\ DOMAIN record = Flows
  BY DEF TypeOK
<1>2. record' = [record EXCEPT ![w] = [record[w] EXCEPT !.steps = [record[w].steps EXCEPT ![at[w]] = result]]]
  BY DEF Put
<1>3. record'[w] = [record[w] EXCEPT !.steps = [record[w].steps EXCEPT ![at[w]] = result]]
  BY <1>1, <1>2
<1>4. record'[w] \in RecordOf(w)
  BY <1>1, <1>3 DEF RecordOf
<1> QED
  BY <1>1, <1>2, <1>3, <1>4, NoRecordAssumption DEF RecordOf

\* A record as the next host restores it.
LEMMA RestoredFacts ==
    ASSUME NEW w \in Flows, NEW r \in RecordOf(w) \cup {NoRecord}
    PROVE  /\ Restored(r) \in RecordOf(w) \cup {NoRecord}
           /\ Restored(r) = NoRecord <=> r = NoRecord
           /\ r # NoRecord =>
                 /\ Restored(r).outcome # "running"
                 /\ \A k \in StepsOf(w) :
                       Restored(r).steps[k] = IF r.outcome = "running"
                                              THEN RestoredStep(r.steps[k]) ELSE r.steps[k]
<1>1. CASE r # NoRecord /\ r.outcome = "running"
  <2>1. r \in RecordOf(w) /\ DOMAIN r.steps = StepsOf(w)
    BY <1>1 DEF RecordOf
  <2>2. \A k \in StepsOf(w) : RestoredStep(r.steps[k]) \in StepResult
    BY <2>1 DEF RecordOf, StepResult, RestoredStep, Outcomes, Ends
  <2>3. Restored(r) \in RecordOf(w)
    BY <1>1, <2>1, <2>2 DEF Restored, RecordOf, Outcomes, Ends
  <2> QED
    BY <1>1, <2>1, <2>3, NoRecordAssumption DEF Restored
<1>2. CASE ~(r # NoRecord /\ r.outcome = "running")
  BY <1>2 DEF Restored
<1> QED
  BY <1>1, <1>2

----------------------------------------------------------------------------
(* Types.                                                                  *)

LEMMA TypeInit == Init => TypeOK
<1> SUFFICES ASSUME Init PROVE TypeOK
  OBVIOUS
<1>1. \A w \in Flows : at[w] \in 1..Len(Plan[w]) + 1
  BY Steps DEF Init
<1>2. IsSnapshot(disk)
  BY DEF Init, IsSnapshot
<1> QED
  BY <1>1, <1>2 DEF Init, TypeOK, Phases, StepResult, NoStep, Outcomes

LEMMA SnapshotTyped == TypeOK => IsSnapshot(Snapshot)
BY WorkflowAssumption DEF TypeOK, IsSnapshot, Snapshot

LEMMA RestoredSnapshot ==
    ASSUME TypeOK
    PROVE  IsSnapshot([w \in Persistent |-> Restored(disk[w])])
<1>1. \A w \in Persistent : w \in Flows /\ disk[w] \in RecordOf(w) \cup {NoRecord}
  BY WorkflowAssumption DEF TypeOK, IsSnapshot
<1>2. \A w \in Persistent : Restored(disk[w]) \in RecordOf(w) \cup {NoRecord}
  BY <1>1, RestoredFacts
<1> HIDE DEF Restored
<1> QED
  BY <1>2 DEF IsSnapshot

\* The steps of a task.
LEMMA TypeTask ==
    ASSUME TypeOK, TasksInv, NEW w \in Flows,
           \/ StartCheck(w) \/ StartAdmit(w) \/ StartReject(w) \/ LoopStep(w) \/ Begin(w)
           \/ Dispatch(w) \/ Interrupt(w) \/ Answer(w) \/ WaitEnds(w)
    PROVE  TypeOK'
<1> USE DEF TypeOK, taskVars, storeVars, connVars, saveVars, hostVars, history, Phases, Tasking,
        InStep
<1>1. CASE StartCheck(w)
  BY <1>1 DEF StartCheck
<1>2. CASE StartAdmit(w)
  <2>1. NewRecord(w) \in RecordOf(w)
    BY NewRecordTyped
  <2>2. w \in Persistent => <<w, 0>> \in Savers
    <3> SUFFICES ASSUME w \in Persistent PROVE <<w, 0>> \in Savers
      OBVIOUS
    <3>1. 0 \in 0..Len(Plan[w])
      BY Steps
    <3> QED BY <3>1, SaverSteps
  <2>3. CASE Admits(w)
    <3>1. DOMAIN record' = Flows /\ \A v \in Flows : record'[v] \in RecordOf(v) \cup {NoRecord}
      BY <1>2, <2>1, <2>3 DEF StartAdmit
    <3>2. queue' \subseteq Savers
      <4>1. queue' = IF w \in Persistent THEN queue \cup {<<w, 0>>} ELSE queue
        BY <1>2, <2>3 DEF StartAdmit
      <4>2. queue \subseteq Savers
        OBVIOUS
      <4> QED
        BY ONLY <2>2, <4>1, <4>2
    <3> QED
      BY <1>2, <2>3, <3>1, <3>2 DEF StartAdmit
  <2>4. CASE ~Admits(w)
    BY <1>2, <2>4 DEF StartAdmit
  <2> QED
    BY <2>3, <2>4
<1>3. CASE StartReject(w)
  BY ZenonT(60), <1>3 DEF StartReject, CloseScope
<1>4. CASE LoopHead(w)
  <2>1. Begun \in StepResult
    BY DEF Begun, StepResult, Outcomes
  <2>2. at[w] > Len(Plan[w]) \/ at[w] \in StepsOf(w)
    BY Steps
  <2>3. record[w] # NoRecord
    BY <1>4 DEF LoopHead, TasksInv, TaskOf
  <2>4. CASE Return(w, IF had[w] THEN "failed" ELSE "satisfied") /\ UNCHANGED <<record, changed>>
    BY <1>4, <2>4, Steps DEF LoopHead, Return, StepResult, Outcomes, Ends
  <2>5. CASE Return(w, "canceled") /\ UNCHANGED <<record, changed>>
    BY <1>4, <2>5, Steps DEF LoopHead, Return, StepResult, Outcomes, Ends
  <2>6. CASE Return(w, "timed_out") /\ UNCHANGED <<record, changed>>
    BY <1>4, <2>6, Steps DEF LoopHead, Return, StepResult, Outcomes, Ends
  <2>7. CASE /\ at[w] \in StepsOf(w)
             /\ record' = Put(w, Begun) /\ changed' = TRUE
             /\ phase' = [phase EXCEPT ![w] = "step"]
             /\ UNCHANGED <<at, res, had>>
    <3>1. DOMAIN record' = Flows /\ \A v \in Flows : record'[v] \in RecordOf(v) \cup {NoRecord}
      BY <2>1, <2>3, <2>7, PutFacts
    <3> QED
      BY <1>4, <2>7, <3>1 DEF LoopHead
  <2> QED
    BY <1>4, <2>2, <2>4, <2>5, <2>6, <2>7 DEF LoopHead
<1>5. CASE PutResult(w)
  <2>1. at[w] \in StepsOf(w) /\ record[w] # NoRecord /\ res[w].outcome \in Ends
    BY <1>5 DEF PutResult, TasksInv, TaskOf
  <2>2. PICK r \in {res[w], [outcome |-> "failed", maybe |-> IsAction(w)]} :
          /\ record' = Put(w, r) /\ changed' = TRUE
          /\ \/ /\ at' = [at EXCEPT ![w] = @ + 1]
                /\ had' = [had EXCEPT ![w] = @ \/ r.outcome # "satisfied"]
                /\ phase' = [phase EXCEPT ![w] = "head"]
                /\ res' = [res EXCEPT ![w] = NoStep]
             \/ Return(w, r.outcome)
    BY <1>5 DEF PutResult
  <2>3. r \in StepResult
    <3>1. res[w] \in StepResult
      OBVIOUS
    <3>2. [outcome |-> "failed", maybe |-> IsAction(w)] \in StepResult
      BY ONLY ActionOrNot, w \in Flows DEF StepResult, Outcomes, Ends
    <3> QED
      BY <2>2, <3>1, <3>2
  <2>4. DOMAIN record' = Flows /\ \A v \in Flows : record'[v] \in RecordOf(v) \cup {NoRecord}
    BY <2>1, <2>2, <2>3, PutFacts
  <2>5. at[w] + 1 \in Nat /\ at[w] + 1 \in 1..Len(Plan[w]) + 1 /\ 1 \in 1..Len(Plan[w]) + 1
    BY <2>1, Steps
  <2>6. phase' \in [Flows -> Phases] /\ res' \in [Flows -> StepResult]
    <3>1. phase' \in [Flows -> Phases]
      BY <2>2 DEF Return
    <3>2. PICK x \in {NoStep, [outcome |-> r.outcome, maybe |-> FALSE]} : res' = [res EXCEPT ![w] = x]
      BY <2>2 DEF Return
    <3>3. r.outcome \in Outcomes \cup {"absent"}
      BY <2>3 DEF StepResult
    <3>4. x \in StepResult
      <4>1. NoStep \in StepResult
        BY ONLY DEF StepResult, NoStep, Outcomes
      <4>2. [outcome |-> r.outcome, maybe |-> FALSE] \in StepResult
        BY ONLY <3>3 DEF StepResult
      <4> QED
        BY <3>2, <4>1, <4>2
    <3> QED
      BY <3>1, <3>2, <3>4
  <2>7. at' \in [Flows -> Nat] /\ \A v \in Flows : at'[v] \in 1..Len(Plan[v]) + 1
    <3>1. PICK n \in Nat : n \in 1..Len(Plan[w]) + 1 /\ at' = [at EXCEPT ![w] = n]
      BY <2>2, <2>5 DEF Return
    <3> QED
      BY <3>1
  <2>9. had' \in [Flows -> BOOLEAN]
    <3> DEFINE b == had[w] \/ r.outcome # "satisfied"
    <3>1. b \in BOOLEAN
      OBVIOUS
    <3>2. had' = [had EXCEPT ![w] = b] \/ had' = [had EXCEPT ![w] = FALSE]
      BY <2>2 DEF Return
    <3> HIDE DEF b
    <3> QED
      BY <3>1, <3>2
  <2>8. changed' \in BOOLEAN
    BY <2>2
  <2> QED
    BY <1>5, <2>4, <2>6, <2>7, <2>8, <2>9 DEF PutResult
<1>6. CASE Close(w)
  <2>1. scope' \in [Flows -> {"none", "open", "closed", "failed"}]
    BY ZenonT(60), <1>6 DEF Close, CloseScope
  <2>2. PICK outcome \in {"failed", res[w].outcome} : res' = [res EXCEPT ![w].outcome = outcome]
    BY <1>6 DEF Close
  <2>3. res' \in [Flows -> StepResult]
    BY ZenonT(60), <2>2 DEF StepResult, Outcomes, Ends
  <2> QED
    BY <1>6, <2>1, <2>3 DEF Close
<1>7. CASE FinishLook(w)
  BY <1>7 DEF FinishLook
<1>8. CASE Finish(w)
  <2> DEFINE outcome == IF phase[w] = "finishFailed" THEN "failed" ELSE res[w].outcome
             ended == IF record[w] # NoRecord /\ record[w].outcome = "running"
                      THEN [record EXCEPT ![w].outcome = outcome] ELSE record
  <2>1. outcome \in Outcomes
    BY <1>8 DEF Finish, TasksInv, TaskOf, Outcomes, Ends
  <2>2. DOMAIN ended = Flows /\ \A v \in Flows : ended[v] \in RecordOf(v) \cup {NoRecord}
    BY <2>1 DEF RecordOf
  <2>3. record' = IF w \in retired THEN [ended EXCEPT ![w] = NoRecord] ELSE ended
    BY <1>8 DEF Finish
  <2>4. DOMAIN record' = Flows /\ \A v \in Flows : record'[v] \in RecordOf(v) \cup {NoRecord}
    BY <2>2, <2>3
  <2> HIDE DEF outcome, ended
  <2> QED
    BY <1>8, <2>4 DEF Finish, NoStep, StepResult, Outcomes
<1>9. CASE Begin(w)
  <2>1. w \in Persistent => <<w, at[w]>> \in Savers
    <3>1. at[w] \in 0..Len(Plan[w])
      BY <1>9, Steps DEF Begin, TasksInv, TaskOf, StepsOf
    <3> QED
      BY <3>1, SaverSteps
  <2>2. res' \in [Flows -> StepResult]
    BY <1>9, ActionOrNot DEF Begin, Yields, StepResult, Outcomes, Ends
  <2>3. phase' \in [Flows -> Phases]
    BY <1>9 DEF Begin, Yields
  <2>4. queue' \subseteq Savers
    BY <1>9, <2>1 DEF Begin
  <2> QED
    BY <1>9, <2>2, <2>3, <2>4 DEF Begin
<1>10. CASE Dispatch(w)
  <2>1. [outcome |-> "failed", maybe |-> TRUE] \in StepResult
    BY ONLY DEF StepResult, Outcomes, Ends
  <2>2. res' \in [Flows -> StepResult]
    BY <1>10, <2>1 DEF Dispatch, Yields
  <2>3. phase' \in [Flows -> Phases]
    BY <1>10 DEF Dispatch, Yields
  <2> QED
    BY <1>10, <2>2, <2>3 DEF Dispatch
<1>11. CASE Interrupt(w)
  BY <1>11 DEF Interrupt, Yields, StepResult, Outcomes, Ends, IsAction
<1>12. CASE Answer(w)
  BY <1>12 DEF Answer, Yields, StepResult, Outcomes, Ends
<1>13. CASE WaitEnds(w)
  BY <1>13 DEF WaitEnds, Yields, StepResult, Outcomes, Ends
<1> QED
  BY <1>1, <1>2, <1>3, <1>4, <1>5, <1>6, <1>7, <1>8, <1>9, <1>10, <1>11, <1>12, <1>13 DEF LoopStep

\* The steps of clients, connections, the checkpoint and the host.
LEMMA TypeRest ==
    ASSUME TypeOK,
           \/ \E w \in Flows : \E forget \in BOOLEAN : Cancel(w, forget)
           \/ \E c \in Conns : CloseConnection(c) \/ Sweep(c)
           \/ WorkerWakes
           \/ \E s \in Savers : SaveBegins(s) \/ RecordFailure(s) \/ MarkRunning(s)
           \/ \E ok \in BOOLEAN : SaveEnds(ok)
           \/ ShutdownBegin \/ ShutdownDrained \/ ShutdownFlush \/ HostRestart
    PROVE  TypeOK'
<1> USE DEF TypeOK, taskVars, storeVars, connVars, saveVars, hostVars, history, Phases, Tasking,
        InStep
<1>1. CASE \E w \in Flows : \E forget \in BOOLEAN : Cancel(w, forget)
  <2>1. PICK w \in Flows, forget \in BOOLEAN : Cancel(w, forget)
    BY <1>1
  <2>2. changed' \in BOOLEAN
    <3> DEFINE b == changed \/ ~forget \/ record[w].outcome # "running"
    <3>1. b \in BOOLEAN
      OBVIOUS
    <3>2. changed' = b
      BY <2>1 DEF Cancel
    <3> QED
      BY <3>1, <3>2
  <2>3. token' \in [Flows -> {"none", "live", "canceled"}]
    BY <2>1 DEF Cancel, CancelTokens
  <2>4. DOMAIN record' = Flows /\ \A v \in Flows : record'[v] \in RecordOf(v) \cup {NoRecord}
    BY <2>1 DEF Cancel
  <2> QED
    BY <2>1, <2>2, <2>3, <2>4 DEF Cancel
<1>2. CASE \E c \in Conns : CloseConnection(c)
  BY <1>2 DEF CloseConnection
<1>3. CASE \E c \in Conns : Sweep(c)
  BY <1>3 DEF Sweep, CancelTokens, Stored
<1>4. CASE WorkerWakes
  BY <1>4, SaverFacts DEF WorkerWakes
<1>5. CASE \E s \in Savers : SaveBegins(s)
  <2>1. PICK s \in Savers : SaveBegins(s)
    BY <1>5
  <2>2. writing' = [by |-> s, snap |-> Snapshot]
    BY <2>1 DEF SaveBegins
  <2>3. IsSnapshot(writing'.snap) /\ writing'.by \in Savers
    BY <2>2, SnapshotTyped
  <2>4. IsSnapshot(writing.snap)' /\ IsSnapshot(disk)'
    BY <2>1, <2>3 DEF SaveBegins, IsSnapshot
  <2> QED
    BY <2>1, <2>3, <2>4 DEF SaveBegins
<1>6. CASE \E s \in Savers : RecordFailure(s)
  BY <1>6 DEF RecordFailure
<1>7. CASE \E s \in Savers : MarkRunning(s)
  BY <1>7 DEF MarkRunning, CancelTokens
<1>8. CASE \E ok \in BOOLEAN : SaveEnds(ok)
  <2>1. PICK ok \in BOOLEAN : SaveEnds(ok)
    BY <1>8
  <2>2. writing.by \in Savers /\ IsSnapshot(writing.snap)
    BY <2>1 DEF SaveEnds
  <2>3. IsSnapshot(disk)'
    BY <2>1, <2>2 DEF SaveEnds, IsSnapshot
  <2>4. phase' \in [Flows -> Phases]
    <3>1. \/ phase' = phase
          \/ phase' = [phase EXCEPT ![writing.by[1]] = "ready"]
          \/ phase' = [phase EXCEPT ![writing.by[1]] = "result"]
      BY ONLY <2>1 DEF SaveEnds, Yields
    <3> QED
      BY <3>1
  <2>5. [outcome |-> "failed", maybe |-> TRUE] \in StepResult
    BY DEF StepResult, Outcomes, Ends
  <2>6. res' \in [Flows -> StepResult]
    BY <2>1, <2>5 DEF SaveEnds, Yields
  <2>7. told' \subseteq Savers /\ worker' \in BOOLEAN
    BY <2>1, <2>2 DEF SaveEnds
  <2>8. down' \in {"up", "draining", "stopping", "flushing", "saved", "unsaved"}
    BY <2>1 DEF SaveEnds
  <2>9. writing' = NoSave
    BY <2>1 DEF SaveEnds
  <2> QED
    BY <2>1, <2>3, <2>4, <2>6, <2>7, <2>8, <2>9 DEF SaveEnds
<1>9. CASE ShutdownBegin
  BY <1>9 DEF ShutdownBegin, CancelTokens
<1>10. CASE ShutdownDrained
  BY <1>10 DEF ShutdownDrained
<1>11. CASE ShutdownFlush
  BY <1>11, SaverFacts DEF ShutdownFlush
<1>12. CASE HostRestart
  <2>1. IsSnapshot(disk')
    BY <1>12, RestoredSnapshot DEF HostRestart
  <2>2. IsSnapshot(disk)'
    BY <2>1 DEF IsSnapshot
  <2>3. \A w \in Flows : record'[w] = IF w \in Persistent THEN disk'[w] ELSE NoRecord
    BY <1>12 DEF HostRestart
  <2>4. DOMAIN record' = Flows /\ \A v \in Flows : record'[v] \in RecordOf(v) \cup {NoRecord}
    BY <1>12, <2>1, <2>3 DEF HostRestart, IsSnapshot
  <2>5. at' \in [Flows -> Nat] /\ \A v \in Flows : at'[v] \in 1..Len(Plan[v]) + 1
    BY <1>12, Steps DEF HostRestart
  <2>6. res' \in [Flows -> StepResult]
    BY <1>12 DEF HostRestart, StepResult, NoStep, Outcomes
  <2>7. phase' \in [Flows -> Phases]
    BY <1>12 DEF HostRestart
  <2>8. had' \in [Flows -> BOOLEAN] /\ lives' \in Nat
    BY <1>12 DEF HostRestart
  <2> QED
    BY <1>12, <2>2, <2>4, <2>5, <2>6, <2>7, <2>8 DEF HostRestart
<1> QED
  BY <1>1, <1>2, <1>3, <1>4, <1>5, <1>6, <1>7, <1>8, <1>9, <1>10, <1>11, <1>12

----------------------------------------------------------------------------
(* Where the task is.                                                      *)

LEMMA TaskFrame ==
    ASSUME NEW v \in Flows, TaskOf(v),
           phase'[v] = phase[v], at'[v] = at[v], res'[v] = res[v], scope'[v] = scope[v],
           record'[v] = record[v], token'[v] = token[v],
           v \in forgotten' <=> v \in forgotten,
           \A k : <<v, k>> \in dispatched' <=> <<v, k>> \in dispatched,
           \A k : <<v, k>> \in answered' <=> <<v, k>> \in answered
    PROVE  TaskOf(v)'
BY DEF TaskOf, HonestStep, IsAction, StepsOf

\* A step that ends without its tool's answer says that the tool may have been called.
LEMMA HonestEnd ==
    ASSUME NEW w \in Flows, at[w] \in StepsOf(w), NEW outcome \in Ends \ {"satisfied"},
           \A k \in StepsOf(w) : <<w, k>> \in dispatched => Plan[w][k].does = "action"
    PROVE  HonestStep(w, at[w], [outcome |-> outcome, maybe |-> IsAction(w)])
<1>1. CASE IsAction(w)
  <2>1. [outcome |-> outcome, maybe |-> IsAction(w)].maybe
    BY <1>1
  <2> QED
    BY <2>1 DEF HonestStep
<1>2. CASE ~IsAction(w)
  BY <1>2 DEF HonestStep, IsAction
<1> QED
  BY <1>1, <1>2

LEMMA TasksOfTask ==
    ASSUME TypeOK, TasksInv, StepsInv, NEW w \in Flows,
           \/ StartCheck(w) \/ StartAdmit(w) \/ StartReject(w) \/ LoopStep(w) \/ Begin(w)
           \/ Dispatch(w) \/ Interrupt(w) \/ Answer(w) \/ WaitEnds(w)
    PROVE  TasksInv'
<1> SUFFICES ASSUME NEW v \in Flows
             PROVE  TaskOf(v)'
  BY DEF TasksInv
<1> USE DEF taskVars, storeVars, connVars, saveVars, hostVars, history
<1>t. TaskOf(v) /\ TaskOf(w)
  BY DEF TasksInv
<1>d. \A k \in StepsOf(w) : <<w, k>> \in dispatched => Plan[w][k].does = "action"
  BY DEF StepsInv, StepOf
<1>r. record[w] \in RecordOf(w) \cup {NoRecord} /\ DOMAIN record = Flows
  BY DEF TypeOK
<1>o. CASE v # w
  <2>1. phase'[v] = phase[v] /\ at'[v] = at[v] /\ res'[v] = res[v] /\ scope'[v] = scope[v]
    BY <1>o DEF StartCheck, StartAdmit, StartReject, CloseScope, LoopStep, LoopHead, Return,
         PutResult, Close, FinishLook, Finish, Begin, Yields, Dispatch, Interrupt, Answer,
         WaitEnds, TypeOK
  <2>2. token'[v] = token[v] /\ forgotten' = forgotten
    BY <1>o DEF StartCheck, StartAdmit, StartReject, CloseScope, LoopStep, LoopHead, Return,
         PutResult, Close, FinishLook, Finish, Begin, Yields, Dispatch, Interrupt, Answer,
         WaitEnds, TypeOK
  <2>3. \A k : <<v, k>> \in dispatched' <=> <<v, k>> \in dispatched
    <3>1. dispatched' = dispatched \/ dispatched' = dispatched \cup {<<w, at[w]>>}
      BY DEF StartCheck, StartAdmit, StartReject, LoopStep, LoopHead, PutResult, Close,
           FinishLook, Finish, Begin, Dispatch, Interrupt, Answer, WaitEnds
    <3> QED
      BY ONLY <1>o, <3>1
  <2>4. \A k : <<v, k>> \in answered' <=> <<v, k>> \in answered
    <3>1. answered' = answered \/ answered' = answered \cup {<<w, at[w]>>}
      BY DEF StartCheck, StartAdmit, StartReject, LoopStep, LoopHead, PutResult, Close,
           FinishLook, Finish, Begin, Dispatch, Interrupt, Answer, WaitEnds
    <3> QED
      BY ONLY <1>o, <3>1
  <2>5. record'[v] = record[v]
    BY <1>o, <1>r DEF StartCheck, StartAdmit, StartReject, LoopStep, LoopHead, Put, Return,
         PutResult, Close, FinishLook, Finish, Begin, Dispatch, Interrupt, Answer, WaitEnds
  <2> QED
    BY <1>t, <2>1, <2>2, <2>3, <2>4, <2>5, TaskFrame
<1>s. CASE v = w
  <2>1. CASE StartCheck(w)
    BY <1>s, <1>t, <2>1 DEF StartCheck, TaskOf, TypeOK, Tasking, InStep, IsAction
  <2>2. CASE StartAdmit(w)
    <3>1. CASE Admits(w)
      <4>1. NewRecord(w) # NoRecord /\ NewRecord(w).outcome = "running"
        BY NewRecordTyped, NoRecordAssumption DEF NewRecord
      <4>2. record'[w] = NewRecord(w) /\ token'[w] = "live" /\ phase'[w] = "head"
        BY <1>r, <2>2, <3>1 DEF StartAdmit, TypeOK
      <4>3. w \notin forgotten'
        BY <1>t, <2>2, <3>1 DEF StartAdmit, TaskOf
      <4> QED
        BY <1>s, <4>1, <4>2, <4>3 DEF TaskOf, Tasking, InStep
    <3>2. CASE ~Admits(w)
      BY <1>s, <1>t, <2>2, <3>2 DEF StartAdmit, TaskOf, TypeOK, Tasking, InStep
    <3> QED
      BY <3>1, <3>2
  <2>3. CASE StartReject(w)
    BY <1>s, <1>t, <2>3 DEF StartReject, CloseScope, TaskOf, TypeOK, Tasking, InStep, IsAction
  <2>4. CASE LoopHead(w)
    <3>1. at[w] > Len(Plan[w]) \/ at[w] \in StepsOf(w)
      BY Steps DEF TypeOK
    <3>2. CASE /\ at[w] \in StepsOf(w)
               /\ record' = Put(w, Begun) /\ phase' = [phase EXCEPT ![w] = "step"]
               /\ UNCHANGED <<at, res, had>>
      <4>1. Begun \in StepResult
        BY DEF Begun, StepResult, Outcomes
      <4>2. record'[w] # NoRecord /\ record'[w].outcome = record[w].outcome
        BY <1>t, <2>4, <3>2, <4>1, PutFacts DEF LoopHead, TaskOf, Tasking
      <4> QED
        BY <1>s, <1>t, <2>4, <3>2, <4>2 DEF LoopHead, TaskOf, TypeOK, Tasking, InStep, StepsOf
    <3>3. CASE \E outcome \in Ends : Return(w, outcome) /\ UNCHANGED record
      BY <1>s, <1>t, <2>4, <3>3 DEF LoopHead, Return, TaskOf, TypeOK, Tasking, InStep
    <3> QED
      BY <2>4, <3>1, <3>2, <3>3 DEF LoopHead, Ends
  <2>5. CASE PutResult(w)
    <3>1. PICK r \in {res[w], [outcome |-> "failed", maybe |-> IsAction(w)]} :
            /\ record' = Put(w, r)
            /\ \/ /\ at' = [at EXCEPT ![w] = @ + 1]
                  /\ phase' = [phase EXCEPT ![w] = "head"]
               \/ Return(w, r.outcome)
      BY <2>5 DEF PutResult
    <3>2. at[w] \in StepsOf(w) /\ record[w] # NoRecord /\ res[w].outcome \in Ends
      BY <1>t, <2>5 DEF PutResult, TaskOf, Tasking
    <3>3. r \in StepResult /\ r.outcome \in Ends
      <4>1. res[w] \in StepResult
        BY DEF TypeOK
      <4>2. [outcome |-> "failed", maybe |-> IsAction(w)] \in StepResult
        BY ONLY ActionOrNot, w \in Flows DEF StepResult, Outcomes, Ends
      <4> QED
        BY <3>1, <3>2, <4>1, <4>2 DEF Ends
    <3>4. record'[w] # NoRecord /\ record'[w].outcome = record[w].outcome
      BY <3>1, <3>2, <3>3, PutFacts
    <3>5. phase'[w] \in {"head", "closing"} /\ (phase'[w] = "closing" => res'[w].outcome \in Ends)
      BY <3>1, <3>3 DEF Return, TypeOK
    <3>6. UNCHANGED <<token, forgotten>>
      BY <2>5 DEF PutResult
    <3> QED
      BY <1>s, <1>t, <2>5, <3>4, <3>5, <3>6 DEF PutResult, TaskOf, Tasking, InStep
  <2>6. CASE Close(w)
    BY <1>s, <1>t, <2>6 DEF Close, CloseScope, TaskOf, TypeOK, Tasking, InStep, IsAction, Ends
  <2>7. CASE FinishLook(w)
    BY <1>s, <1>t, <2>7 DEF FinishLook, TaskOf, TypeOK, Tasking, InStep, IsAction
  <2>8. CASE Finish(w)
    BY <1>s, <1>t, <2>8 DEF Finish, TaskOf, TypeOK, Tasking, InStep, IsAction, Ends
  <2>9. CASE Begin(w)
    <3>1. at[w] \in StepsOf(w)
      BY <1>t, <2>9 DEF Begin, TaskOf, InStep
    <3>2. HonestStep(w, at[w], [outcome |-> "failed", maybe |-> IsAction(w)])
      BY <1>d, <3>1, HonestEnd DEF Ends
    <3>3. CASE Yields(w, "failed", IsAction(w)) /\ UNCHANGED queue
      <4>1. phase'[w] = "result" /\ res'[w] = [outcome |-> "failed", maybe |-> IsAction(w)]
        BY <3>3 DEF Yields, TypeOK
      <4>2. UNCHANGED <<at, record, token, forgotten, dispatched, answered>>
        BY <2>9 DEF Begin
      <4>3. HonestStep(w, at[w], res[w])'
        BY <3>2, <4>1, <4>2 DEF HonestStep
      <4> QED
        BY <1>s, <1>t, <2>9, <3>1, <4>1, <4>2, <4>3 DEF Begin, TaskOf, Tasking, InStep, Ends, StepsOf
    <3>4. CASE ~(Yields(w, "failed", IsAction(w)) /\ UNCHANGED queue)
      BY <1>s, <1>t, <2>9, <3>4 DEF Begin, TaskOf, TypeOK, Tasking, InStep, IsAction, StepsOf
    <3> QED
      BY <3>3, <3>4
  <2>10. CASE Dispatch(w)
    BY <1>s, <1>t, <1>d, <2>10 DEF Dispatch, Yields, TaskOf, TypeOK, Tasking, InStep, IsAction, HonestStep, Ends
  <2>11. CASE Interrupt(w)
    <3>1. PICK outcome \in {"canceled", "timed_out"} : Yields(w, outcome, IsAction(w))
      BY <2>11 DEF Interrupt
    <3>2. at[w] \in StepsOf(w)
      BY <1>t, <2>11 DEF Interrupt, TaskOf
    <3>3. HonestStep(w, at[w], [outcome |-> outcome, maybe |-> IsAction(w)])
      BY <1>d, <3>2, HonestEnd DEF Ends
    <3>4. phase'[w] = "result" /\ res'[w] = [outcome |-> outcome, maybe |-> IsAction(w)]
      BY <3>1 DEF Yields, TypeOK
    <3>5. UNCHANGED <<at, record, token, forgotten, dispatched, answered>>
      BY <2>11 DEF Interrupt
    <3>6. HonestStep(w, at[w], res[w])'
      BY <3>3, <3>4, <3>5 DEF HonestStep
    <3> QED
      BY <1>s, <1>t, <2>11, <3>2, <3>4, <3>5, <3>6 DEF Interrupt, TaskOf, Tasking, InStep, Ends, StepsOf
  <2>12. CASE Answer(w)
    BY <1>s, <1>t, <1>d, <2>12 DEF Answer, Yields, TaskOf, TypeOK, Tasking, InStep, IsAction, HonestStep, Ends
  <2>13. CASE WaitEnds(w)
    BY <1>s, <1>t, <1>d, <2>13 DEF WaitEnds, Yields, TaskOf, TypeOK, Tasking, InStep, IsAction, HonestStep, Ends
  <2> QED
    BY <2>1, <2>2, <2>3, <2>4, <2>5, <2>6, <2>7, <2>8, <2>9, <2>10, <2>11, <2>12, <2>13 DEF LoopStep
<1> QED
  BY <1>o, <1>s

LEMMA TasksOfRest ==
    ASSUME TypeOK, TasksInv, FileInv, SweptInv,
           \/ \E w \in Flows : \E forget \in BOOLEAN : Cancel(w, forget)
           \/ \E c \in Conns : CloseConnection(c) \/ Sweep(c)
           \/ WorkerWakes
           \/ \E s \in Savers : SaveBegins(s) \/ RecordFailure(s) \/ MarkRunning(s)
           \/ \E ok \in BOOLEAN : SaveEnds(ok)
           \/ ShutdownBegin \/ ShutdownDrained \/ ShutdownFlush \/ HostRestart
    PROVE  TasksInv'
<1> SUFFICES ASSUME NEW v \in Flows
             PROVE  TaskOf(v)'
  BY DEF TasksInv
<1> USE DEF taskVars, storeVars, connVars, saveVars, hostVars, history
<1>t. TaskOf(v)
  BY DEF TasksInv
<1>c. CASE /\ UNCHANGED <<phase, at, res, scope, dispatched, answered>>
           /\ token'[v] = "none" <=> token[v] = "none"
           /\ \/ record'[v] = record[v] /\ (v \in forgotten' <=> v \in forgotten)
              \/ /\ record'[v] = NoRecord /\ phase[v] \notin Tasking
                 /\ v \in forgotten' => (v \in forgotten \/ phase[v] \in {"done", "lost"})
  BY <1>t, <1>c DEF TaskOf, HonestStep, IsAction, StepsOf, Tasking
<1>1. CASE \E w \in Flows : \E forget \in BOOLEAN : Cancel(w, forget)
  <2>1. PICK w \in Flows, forget \in BOOLEAN : Cancel(w, forget)
    BY <1>1
  <2>2. UNCHANGED <<phase, at, res, scope, dispatched, answered>>
    BY <2>1 DEF Cancel
  <2>3. token'[v] = "none" <=> token[v] = "none"
    BY <2>1 DEF Cancel, CancelTokens
  <2>4. CASE record' = record /\ forgotten' = forgotten
    BY <1>c, <2>2, <2>3, <2>4
  <2>5. CASE /\ record[w] # NoRecord /\ record[w].outcome # "running"
             /\ record' = [record EXCEPT ![w] = NoRecord] /\ forgotten' = forgotten \cup {w}
    <3>1. TaskOf(w) /\ phase[w] \in Phases
      BY DEF TasksInv, TypeOK
    <3>2. phase[w] \in {"done", "lost"} /\ phase[w] \notin Tasking
      BY <2>5, <3>1 DEF TaskOf, Phases, Tasking, InStep
    <3>3. DOMAIN record = Flows
      BY DEF TypeOK
    <3> QED
      BY <1>c, <2>2, <2>3, <2>5, <3>2, <3>3
  <2> QED
    BY <2>1, <2>4, <2>5 DEF Cancel
<1>2. CASE \E c \in Conns : CloseConnection(c)
  BY <1>2, <1>c DEF CloseConnection
<1>3. CASE \E c \in Conns : Sweep(c)
  <2>1. PICK c \in Conns : Sweep(c)
    BY <1>3
  <2>2. UNCHANGED <<phase, at, res, scope, dispatched, answered, forgotten>>
    BY <2>1 DEF Sweep
  <2>3. token'[v] = "none" <=> token[v] = "none"
    BY <2>1 DEF Sweep, CancelTokens
  <2>4. record'[v] = record[v] \/ (record'[v] = NoRecord /\ token[v] = "none")
    <3> DEFINE mine == {w \in Stored \ Persistent : Owner[w] = c}
               live == {w \in mine : token[w] # "none"}
    <3>1. record' = [w \in Flows |-> IF w \in mine \ live THEN NoRecord ELSE record[w]]
      BY <2>1 DEF Sweep
    <3>2. v \in mine \ live => token[v] = "none"
      OBVIOUS
    <3> HIDE DEF mine, live
    <3> QED
      BY <3>1, <3>2
  <2>5. phase[v] \in Tasking => token[v] # "none"
    BY <1>t DEF TaskOf
  <2> QED
    BY <1>c, <2>2, <2>3, <2>4, <2>5
<1>4. CASE WorkerWakes
  BY <1>4, <1>c DEF WorkerWakes
<1>5. CASE \E s \in Savers : SaveBegins(s)
  BY <1>5, <1>c DEF SaveBegins
<1>6. CASE \E s \in Savers : RecordFailure(s)
  BY <1>6, <1>c DEF RecordFailure
<1>7. CASE \E s \in Savers : MarkRunning(s)
  <2>1. UNCHANGED <<phase, at, res, scope, dispatched, answered, forgotten, record>>
    BY <1>7 DEF MarkRunning
  <2>2. token'[v] = "none" <=> token[v] = "none"
    BY <1>7 DEF MarkRunning, CancelTokens
  <2> QED
    BY <1>c, <2>1, <2>2
<1>8. CASE \E ok \in BOOLEAN : SaveEnds(ok)
  <2>1. PICK ok \in BOOLEAN : SaveEnds(ok)
    BY <1>8
  <2>2. UNCHANGED <<at, scope, dispatched, answered, forgotten, record, token>>
    BY <2>1 DEF SaveEnds
  <2>3. CASE UNCHANGED <<phase, res>>
    BY <1>c, <2>2, <2>3
  <2>4. CASE writing.by[1] # v
    <3>1. phase'[v] = phase[v] /\ res'[v] = res[v]
      BY <2>1, <2>4 DEF SaveEnds, Yields, TypeOK
    <3> QED
      BY <1>t, <2>2, <3>1, TaskFrame
  <2>5. CASE writing.by[1] = v /\ phase[v] = "flushing"
    <3>1. \/ phase'[v] = "ready" /\ res'[v] = res[v]
          \/ phase'[v] = "result" /\ res'[v] = [outcome |-> "failed", maybe |-> TRUE]
          \/ phase'[v] = phase[v] /\ res'[v] = res[v]
      BY ZenonT(60), <2>1, <2>5 DEF SaveEnds, Yields, TypeOK
    <3>2. HonestStep(v, at[v], [outcome |-> "failed", maybe |-> TRUE])
      BY DEF HonestStep
    <3>3. CASE phase'[v] = "ready" /\ res'[v] = res[v]
      BY <1>t, <2>2, <2>5, <3>3 DEF TaskOf, Tasking, InStep, IsAction, StepsOf
    <3>4. CASE phase'[v] = "result" /\ res'[v] = [outcome |-> "failed", maybe |-> TRUE]
      <4>1. HonestStep(v, at[v], res[v])' /\ res'[v].outcome \in Ends
        BY <2>2, <3>2, <3>4 DEF HonestStep, Ends
      <4> QED
        BY <1>t, <2>2, <2>5, <3>4, <4>1 DEF TaskOf, Tasking, InStep, StepsOf
    <3>5. CASE phase'[v] = phase[v] /\ res'[v] = res[v]
      BY <1>t, <2>2, <3>5, TaskFrame
    <3> QED
      BY <3>1, <3>3, <3>4, <3>5
  <2> QED
    BY <2>1, <2>3, <2>4, <2>5 DEF SaveEnds
<1>9. CASE ShutdownBegin
  <2>1. UNCHANGED <<phase, at, res, scope, dispatched, answered, forgotten, record>>
    BY <1>9 DEF ShutdownBegin
  <2>2. token'[v] = "none" <=> token[v] = "none"
    BY <1>9 DEF ShutdownBegin, CancelTokens
  <2> QED
    BY <1>c, <2>1, <2>2
<1>10. CASE ShutdownDrained
  BY <1>10, <1>c DEF ShutdownDrained
<1>11. CASE ShutdownFlush
  BY <1>11, <1>c DEF ShutdownFlush
<1>12. CASE HostRestart
  <2>1. phase'[v] = IF phase[v] = "new" THEN "new" ELSE "lost"
    BY <1>12 DEF HostRestart
  <2>2. token'[v] = "none" /\ forgotten' = forgotten
    BY <1>12 DEF HostRestart
  <2>3. record'[v] # NoRecord => /\ v \in Persistent /\ disk[v] # NoRecord
                                 /\ record'[v].outcome # "running"
    <3>1. record'[v] = IF v \in Persistent THEN Restored(disk[v]) ELSE NoRecord
      BY <1>12 DEF HostRestart
    <3>2. v \in Persistent => disk[v] \in RecordOf(v) \cup {NoRecord}
      BY DEF TypeOK, IsSnapshot
    <3> QED
      BY <3>1, <3>2, RestoredFacts
  <2>4. phase[v] = "new" => record'[v] = NoRecord
    <3>1. phase[v] = "new" => record[v] = NoRecord /\ v \notin forgotten
      BY <1>t DEF TaskOf
    <3> QED
      BY <2>3, <3>1 DEF FileInv, FileOf, Earlier
  <2> QED
    BY <1>t, <2>1, <2>2, <2>3, <2>4 DEF TaskOf, Tasking, InStep
<1> QED
  BY <1>1, <1>2, <1>3, <1>4, <1>5, <1>6, <1>7, <1>8, <1>9, <1>10, <1>11, <1>12

----------------------------------------------------------------------------
(* What the steps of a record are.                                         *)

LEMMA StepFrame ==
    ASSUME NEW v \in Flows, StepOf(v),
           record'[v] = record[v] \/ record'[v] = NoRecord,
           \/ phase'[v] = phase[v] /\ at'[v] = at[v]
           \/ phase[v] \in InStep /\ phase'[v] \in InStep \cup {"result"} /\ at'[v] = at[v]
           \/ phase[v] \notin InStep \cup {"head", "result"}
              /\ phase'[v] \notin InStep \cup {"head", "result"},
           \A k : <<v, k>> \in dispatched' <=> <<v, k>> \in dispatched
    PROVE  StepOf(v)'
BY DEF StepOf, StepsOf, InStep

\* Only a step that is known to be an action is dispatched, and the task's own steps change
\* no other's.
LEMMA StepsOfTask ==
    ASSUME TypeOK, TasksInv, StepsInv, NEW w \in Flows,
           \/ StartCheck(w) \/ StartAdmit(w) \/ StartReject(w) \/ LoopStep(w) \/ Begin(w)
           \/ Dispatch(w) \/ Interrupt(w) \/ Answer(w) \/ WaitEnds(w)
    PROVE  StepsInv'
<1> SUFFICES ASSUME NEW v \in Flows
             PROVE  StepOf(v)'
  BY DEF StepsInv
<1> USE DEF taskVars, storeVars, connVars, saveVars, hostVars, history
<1>t. TaskOf(w) /\ StepOf(w) /\ StepOf(v)
  BY DEF TasksInv, StepsInv
<1>r. record[w] \in RecordOf(w) \cup {NoRecord} /\ DOMAIN record = Flows
  BY DEF TypeOK
<1>o. CASE v # w
  <2>1. phase'[v] = phase[v] /\ at'[v] = at[v]
    BY <1>o DEF StartCheck, StartAdmit, StartReject, LoopStep, LoopHead, Return, PutResult,
         Close, FinishLook, Finish, Begin, Yields, Dispatch, Interrupt, Answer, WaitEnds, TypeOK
  <2>2. \A k : <<v, k>> \in dispatched' <=> <<v, k>> \in dispatched
    <3>1. dispatched' = dispatched \/ dispatched' = dispatched \cup {<<w, at[w]>>}
      BY DEF StartCheck, StartAdmit, StartReject, LoopStep, LoopHead, PutResult, Close,
           FinishLook, Finish, Begin, Dispatch, Interrupt, Answer, WaitEnds
    <3> QED
      BY ONLY <1>o, <3>1
  <2>3. record'[v] = record[v]
    BY <1>o, <1>r DEF StartCheck, StartAdmit, StartReject, LoopStep, LoopHead, Put, Return,
         PutResult, Close, FinishLook, Finish, Begin, Dispatch, Interrupt, Answer, WaitEnds
  <2> QED
    BY <1>t, <2>1, <2>2, <2>3, StepFrame
<1>s. CASE v = w
  <2>1. CASE StartCheck(w)
    <3>1. phase[w] = "new" /\ phase'[w] \in {"rejected", "checked", "refused"}
      BY <2>1 DEF StartCheck, TypeOK
    <3> QED
      BY <1>s, <1>t, <2>1, <3>1, StepFrame DEF StartCheck, InStep
  <2>2. CASE StartAdmit(w)
    <3>1. CASE Admits(w)
      <4>1. record'[w] = NewRecord(w) /\ phase'[w] = "head" /\ UNCHANGED <<at, dispatched>>
        BY <1>r, <2>2, <3>1 DEF StartAdmit, TypeOK
      <4>2. \A k \in StepsOf(w) : NewRecord(w).steps[k].outcome = "absent"
        BY DEF NewRecord, NoStep
      <4> QED
        BY <1>s, <1>t, <4>1, <4>2 DEF StepOf, InStep, StepsOf
    <3>2. CASE ~Admits(w)
      <4>1. phase[w] = "checked" /\ phase'[w] = "rejected"
        BY <2>2, <3>2 DEF StartAdmit, TypeOK
      <4> QED
        BY <1>s, <1>t, <2>2, <3>2, <4>1, StepFrame DEF StartAdmit, InStep
    <3> QED
      BY <3>1, <3>2
  <2>3. CASE StartReject(w)
    <3>1. phase[w] = "rejected" /\ phase'[w] = "refused"
      BY <2>3 DEF StartReject, TypeOK
    <3> QED
      BY <1>s, <1>t, <2>3, <3>1, StepFrame DEF StartReject, InStep
  <2>4. CASE LoopHead(w)
    <3>1. at[w] > Len(Plan[w]) \/ at[w] \in StepsOf(w)
      BY Steps DEF TypeOK
    <3>2. CASE /\ at[w] \in StepsOf(w)
               /\ record' = Put(w, Begun) /\ phase' = [phase EXCEPT ![w] = "step"]
               /\ UNCHANGED <<at, res, had>>
      <4>1. Begun \in StepResult
        BY DEF Begun, StepResult, Outcomes
      <4>2. record[w] # NoRecord
        BY <1>t, <2>4 DEF LoopHead, TaskOf, Tasking
      <4>3. /\ record'[w].steps[at[w]].outcome = "running"
            /\ \A k \in StepsOf(w) \ {at[w]} : record'[w].steps[k] = record[w].steps[k]
        BY <3>2, <4>1, <4>2, PutFacts DEF Begun
      <4>4. phase'[w] = "step" /\ phase[w] = "head" /\ UNCHANGED <<at, dispatched>>
        BY <2>4, <3>2 DEF LoopHead, TypeOK
      <4>5. \A k \in StepsOf(w) : k > at[w] => k >= at[w] /\ k # at[w]
        BY Steps, <3>2
      <4>6. ASSUME NEW k \in StepsOf(w), record'[w] # NoRecord
            PROVE  /\ k > at[w] => record'[w].steps[k].outcome = "absent"
                   /\ record'[w].steps[k].outcome = "running" => k = at[w]
        BY <1>t, <3>2, <4>2, <4>3, <4>4, <4>5 DEF StepOf, InStep
      <4> QED
        BY <1>s, <1>t, <4>3, <4>4, <4>6 DEF StepOf, InStep, StepsOf
    <3>3. CASE \E outcome \in Ends : Return(w, outcome) /\ UNCHANGED record
      <4>1. phase'[w] = "closing" /\ phase[w] = "head" /\ UNCHANGED <<record, dispatched>>
        BY <2>4, <3>3 DEF LoopHead, Return, TypeOK
      <4> QED
        BY <1>s, <1>t, <4>1 DEF StepOf, InStep, StepsOf
    <3> QED
      BY <2>4, <3>1, <3>2, <3>3 DEF LoopHead, Ends
  <2>5. CASE PutResult(w)
    <3>1. PICK r \in {res[w], [outcome |-> "failed", maybe |-> IsAction(w)]} :
            /\ record' = Put(w, r)
            /\ \/ /\ at' = [at EXCEPT ![w] = @ + 1]
                  /\ phase' = [phase EXCEPT ![w] = "head"]
               \/ Return(w, r.outcome)
      BY <2>5 DEF PutResult
    <3>2. at[w] \in StepsOf(w) /\ record[w] # NoRecord /\ res[w].outcome \in Ends
      BY <1>t, <2>5 DEF PutResult, TaskOf, Tasking
    <3>3. r \in StepResult /\ r.outcome \in Ends
      <4>1. res[w] \in StepResult
        BY DEF TypeOK
      <4>2. [outcome |-> "failed", maybe |-> IsAction(w)] \in StepResult
        BY ONLY ActionOrNot, w \in Flows DEF StepResult, Outcomes, Ends
      <4> QED
        BY <3>1, <3>2, <4>1, <4>2 DEF Ends
    <3>4. /\ record'[w].steps[at[w]] = r
          /\ \A k \in StepsOf(w) \ {at[w]} : record'[w].steps[k] = record[w].steps[k]
      BY <3>1, <3>2, <3>3, PutFacts
    <3>5. phase[w] = "result" /\ UNCHANGED dispatched
      BY <2>5 DEF PutResult
    <3>6. \A k \in StepsOf(w) : record'[w].steps[k].outcome # "running"
      <4>1. r.outcome # "running"
        BY <3>3 DEF Ends
      <4>2. \A k \in StepsOf(w) \ {at[w]} : record[w].steps[k].outcome # "running"
        BY <1>t, <3>2 DEF StepOf
      <4> QED
        BY <3>4, <4>1, <4>2
    <3>7. CASE at' = [at EXCEPT ![w] = @ + 1] /\ phase' = [phase EXCEPT ![w] = "head"]
      <4>1. at'[w] = at[w] + 1 /\ phase'[w] = "head"
        BY <3>7 DEF TypeOK
      <4>2. \A k \in StepsOf(w) : k >= at[w] + 1 => k # at[w] /\ k > at[w]
        BY Steps, <3>2
      <4>3. \A k \in StepsOf(w) : k >= at[w] + 1 => record'[w].steps[k].outcome = "absent"
        BY <1>t, <3>2, <3>4, <3>5, <4>2 DEF StepOf
      <4> QED
        BY <1>s, <1>t, <3>5, <3>6, <4>1, <4>3 DEF StepOf, InStep, StepsOf
    <3>8. CASE Return(w, r.outcome)
      <4>1. phase'[w] = "closing"
        BY <3>8 DEF Return, TypeOK
      <4> QED
        BY <1>s, <1>t, <3>5, <3>6, <4>1 DEF StepOf, InStep, StepsOf
    <3> QED
      BY <3>1, <3>7, <3>8
  <2>6. CASE Close(w)
    <3>1. phase[w] = "closing" /\ phase'[w] = "closed"
      BY <2>6 DEF Close, TypeOK
    <3> QED
      BY <1>s, <1>t, <2>6, <3>1, StepFrame DEF Close, InStep
  <2>7. CASE FinishLook(w)
    <3>1. phase[w] = "closed" /\ phase'[w] \in {"finish", "finishFailed"}
      BY <2>7 DEF FinishLook, TypeOK
    <3> QED
      BY <1>s, <1>t, <2>7, <3>1, StepFrame DEF FinishLook, InStep
  <2>8. CASE Finish(w)
    <3>1. phase[w] \in {"finish", "finishFailed"} /\ phase'[w] = "done" /\ UNCHANGED dispatched
      BY <2>8 DEF Finish, TypeOK
    <3>2. record'[w] = NoRecord \/ record'[w].steps = record[w].steps
      BY <1>r, <2>8 DEF Finish, RecordOf
    <3>3. record[w] # NoRecord
      BY <1>t, <3>1 DEF TaskOf, Tasking
    <3> QED
      BY <1>s, <1>t, <3>1, <3>2, <3>3 DEF StepOf, InStep, StepsOf
  <2>9. CASE Begin(w)
    <3>1. phase[w] = "step" /\ phase'[w] \in {"flushing", "ready", "waiting", "result"}
      BY <2>9 DEF Begin, Yields, TypeOK
    <3> QED
      BY <1>s, <1>t, <2>9, <3>1, StepFrame DEF Begin, InStep
  <2>10. CASE Dispatch(w)
    <3>1. phase[w] = "ready" /\ phase'[w] \in {"dispatched", "result"} /\ UNCHANGED <<at, record>>
      BY <2>10 DEF Dispatch, Yields, TypeOK
    <3>2. dispatched' = dispatched \/ dispatched' = dispatched \cup {<<w, at[w]>>}
      BY <2>10 DEF Dispatch
    <3>3. IsAction(w)
      BY <1>t, <3>1 DEF TaskOf
    <3>4. \A k \in StepsOf(w) : <<w, k>> \in dispatched' => Plan[w][k].does = "action"
      BY <1>t, <3>2, <3>3 DEF StepOf, IsAction
    <3> QED
      BY <1>s, <1>t, <3>1, <3>4 DEF StepOf, InStep, StepsOf
  <2>11. CASE Interrupt(w)
    <3>1. phase[w] \in InStep /\ phase'[w] = "result"
      BY <2>11 DEF Interrupt, Yields, TypeOK
    <3> QED
      BY <1>s, <1>t, <2>11, <3>1, StepFrame DEF Interrupt
  <2>12. CASE Answer(w)
    <3>1. phase[w] = "dispatched" /\ phase'[w] = "result"
      BY <2>12 DEF Answer, Yields, TypeOK
    <3> QED
      BY <1>s, <1>t, <2>12, <3>1, StepFrame DEF Answer, InStep
  <2>13. CASE WaitEnds(w)
    <3>1. phase[w] = "waiting" /\ phase'[w] = "result"
      BY <2>13 DEF WaitEnds, Yields, TypeOK
    <3> QED
      BY <1>s, <1>t, <2>13, <3>1, StepFrame DEF WaitEnds, InStep
  <2> QED
    BY <2>1, <2>2, <2>3, <2>4, <2>5, <2>6, <2>7, <2>8, <2>9, <2>10, <2>11, <2>12, <2>13 DEF LoopStep
<1> QED
  BY <1>o, <1>s

LEMMA StepsOfRest ==
    ASSUME TypeOK, TasksInv, StepsInv, HonestInv,
           \/ \E w \in Flows : \E forget \in BOOLEAN : Cancel(w, forget)
           \/ \E c \in Conns : CloseConnection(c) \/ Sweep(c)
           \/ WorkerWakes
           \/ \E s \in Savers : SaveBegins(s) \/ RecordFailure(s) \/ MarkRunning(s)
           \/ \E ok \in BOOLEAN : SaveEnds(ok)
           \/ ShutdownBegin \/ ShutdownDrained \/ ShutdownFlush \/ HostRestart
    PROVE  StepsInv'
<1> SUFFICES ASSUME NEW v \in Flows
             PROVE  StepOf(v)'
  BY DEF StepsInv
<1> USE DEF taskVars, storeVars, connVars, saveVars, hostVars, history
<1>t. TaskOf(v) /\ StepOf(v)
  BY DEF TasksInv, StepsInv
<1>d. dispatched' = dispatched
  BY DEF Cancel, CloseConnection, Sweep, WorkerWakes, SaveBegins, RecordFailure, MarkRunning,
       SaveEnds, ShutdownBegin, ShutdownDrained, ShutdownFlush, HostRestart
<1>1. CASE \E w \in Flows : \E forget \in BOOLEAN : Cancel(w, forget)
  <2>1. phase' = phase /\ at' = at
    BY <1>1 DEF Cancel
  <2>2. record'[v] = record[v] \/ record'[v] = NoRecord
    BY <1>1 DEF Cancel, TypeOK
  <2> QED
    BY <1>d, <1>t, <2>1, <2>2, StepFrame
<1>2. CASE \E c \in Conns : CloseConnection(c)
  BY <1>2, <1>d, <1>t, StepFrame DEF CloseConnection
<1>3. CASE \E c \in Conns : Sweep(c)
  <2>1. phase' = phase /\ at' = at
    BY <1>3 DEF Sweep
  <2>2. record'[v] = record[v] \/ record'[v] = NoRecord
    BY <1>3 DEF Sweep
  <2> QED
    BY <1>d, <1>t, <2>1, <2>2, StepFrame
<1>4. CASE \/ WorkerWakes \/ ShutdownBegin \/ ShutdownDrained \/ ShutdownFlush
           \/ \E s \in Savers : SaveBegins(s) \/ RecordFailure(s) \/ MarkRunning(s)
  <2>1. phase' = phase /\ at' = at /\ record' = record
    BY <1>4 DEF WorkerWakes, SaveBegins, RecordFailure, MarkRunning, ShutdownBegin,
         ShutdownDrained, ShutdownFlush
  <2> QED
    BY <1>d, <1>t, <2>1, StepFrame
<1>5. CASE \E ok \in BOOLEAN : SaveEnds(ok)
  <2>1. at' = at /\ record' = record
    BY <1>5 DEF SaveEnds
  <2>2. \/ phase'[v] = phase[v]
        \/ phase[v] = "flushing" /\ phase'[v] \in {"ready", "result"}
    BY <1>5 DEF SaveEnds, Yields, TypeOK
  <2> QED
    BY <1>d, <1>t, <2>1, <2>2, StepFrame DEF InStep
<1>6. CASE HostRestart
  <2>1. phase'[v] \in {"new", "lost"}
    BY <1>6 DEF HostRestart
  <2>2. ASSUME NEW k \in StepsOf(v), record'[v] # NoRecord
        PROVE  record'[v].steps[k].outcome # "running"
    <3>1. v \in Persistent /\ record'[v] = Restored(disk[v])
      BY <1>6, <2>2 DEF HostRestart
    <3>2. disk[v] \in RecordOf(v) \cup {NoRecord} /\ Honest(v, disk[v])
      BY <3>1 DEF TypeOK, IsSnapshot, HonestInv
    <3>3. /\ disk[v] # NoRecord
          /\ Restored(disk[v]).steps[k] = IF disk[v].outcome = "running"
                                          THEN RestoredStep(disk[v].steps[k])
                                          ELSE disk[v].steps[k]
      BY <2>2, <3>1, <3>2, RestoredFacts
    <3> QED
      BY <3>1, <3>2, <3>3 DEF Honest, RestoredStep
  <2> QED
    BY <1>d, <1>t, <2>1, <2>2 DEF StepOf, InStep, StepsOf
<1> QED
  BY <1>1, <1>2, <1>3, <1>4, <1>5, <1>6

----------------------------------------------------------------------------
(* Connections that were swept, and the scopes of persistent workflows.    *)

\* The task's steps in between: the record stays, and runs, as long as the task does.
LEMMA TaskKeepsRecord ==
    ASSUME TypeOK, TasksInv, NEW w \in Flows,
           LoopHead(w) \/ PutResult(w) \/ Close(w) \/ FinishLook(w) \/ Begin(w)
              \/ Dispatch(w) \/ Interrupt(w) \/ Answer(w) \/ WaitEnds(w)
    PROVE  /\ phase[w] \in Tasking /\ phase'[w] \in Tasking
           /\ record[w] # NoRecord /\ record[w].outcome = "running"
           /\ record'[w] # NoRecord /\ record'[w].outcome = "running"
           /\ UNCHANGED <<retired, connVars, token>>
<1> USE DEF storeVars, taskVars, saveVars, hostVars, history
<1>t. TaskOf(w)
  BY DEF TasksInv
<1>1. phase[w] \in Tasking
  BY DEF LoopHead, PutResult, Close, FinishLook, Begin, Dispatch, Interrupt, Answer, WaitEnds,
     Tasking, InStep
<1>2. phase'[w] \in Tasking
  BY DEF LoopHead, Return, PutResult, Close, FinishLook, Begin, Yields, Dispatch, Interrupt,
     Answer, WaitEnds, Tasking, InStep, TypeOK
<1>3. record[w] # NoRecord /\ record[w].outcome = "running"
  BY <1>1, <1>t DEF TaskOf
<1>4. UNCHANGED <<retired, connVars, token>>
  BY DEF LoopHead, PutResult, Close, FinishLook, Begin, Dispatch, Interrupt, Answer, WaitEnds
<1>5. record'[w] # NoRecord /\ record'[w].outcome = "running"
  <2>1. CASE record' = record
    BY <1>3, <2>1
  <2>2. CASE LoopHead(w) /\ record' # record
    <3>1. at[w] \in StepsOf(w) /\ record' = Put(w, Begun)
      BY <2>2, Steps DEF LoopHead, TypeOK
    <3>2. Begun \in StepResult
      BY DEF Begun, StepResult, Outcomes
    <3> QED
      BY <1>3, <3>1, <3>2, PutFacts
  <2>3. CASE PutResult(w)
    <3>1. PICK r \in {res[w], [outcome |-> "failed", maybe |-> IsAction(w)]} :
            record' = Put(w, r)
      BY <2>3 DEF PutResult
    <3>2. [outcome |-> "failed", maybe |-> IsAction(w)] \in StepResult
      BY ONLY ActionOrNot, w \in Flows DEF StepResult, Outcomes, Ends
    <3>3. at[w] \in StepsOf(w) /\ res[w] \in StepResult
      BY <1>t, <2>3 DEF PutResult, TaskOf, TypeOK
    <3> QED
      BY <1>3, <3>1, <3>2, <3>3, PutFacts
  <2> QED
    BY <2>1, <2>2, <2>3 DEF Close, FinishLook, Begin, Dispatch, Interrupt, Answer, WaitEnds
<1> QED
  BY <1>1, <1>2, <1>3, <1>4, <1>5

\* The task's steps change no other workflow.
LEMMA OthersKept ==
    ASSUME TypeOK, NEW w \in Flows, NEW v \in Flows, v # w,
           \/ StartCheck(w) \/ StartAdmit(w) \/ StartReject(w) \/ LoopStep(w) \/ Begin(w)
           \/ Dispatch(w) \/ Interrupt(w) \/ Answer(w) \/ WaitEnds(w)
    PROVE  /\ phase'[v] = phase[v] /\ at'[v] = at[v] /\ scope'[v] = scope[v]
           /\ record'[v] = record[v] /\ (v \in retired' <=> v \in retired)
           /\ token'[v] = token[v]
<1> USE DEF storeVars, taskVars, saveVars, hostVars, history
<1>1. phase'[v] = phase[v] /\ at'[v] = at[v] /\ scope'[v] = scope[v] /\ token'[v] = token[v]
  BY DEF StartCheck, StartAdmit, StartReject, CloseScope, LoopStep, LoopHead, Return, PutResult,
     Close, FinishLook, Finish, Begin, Yields, Dispatch, Interrupt, Answer, WaitEnds, TypeOK
<1>2. v \in retired' <=> v \in retired
  BY DEF StartCheck, StartAdmit, StartReject, LoopStep, LoopHead, PutResult,
     Close, FinishLook, Finish, Begin, Dispatch, Interrupt, Answer, WaitEnds
<1>3. record'[v] = record[v]
  <2>1. DOMAIN record = Flows
    BY DEF TypeOK
  <2>2. record[w] \in RecordOf(w) \cup {NoRecord}
    BY DEF TypeOK
  <2> QED
    BY <2>1, <2>2 DEF StartCheck, StartAdmit, StartReject, LoopStep, LoopHead, Put, Return,
       PutResult, Close, FinishLook, Finish, Begin, Dispatch, Interrupt, Answer, WaitEnds
<1> QED
  BY <1>1, <1>2, <1>3

LEMMA SweptOfTask ==
    ASSUME TypeOK, TasksInv, SweptInv, NEW w \in Flows,
           \/ StartCheck(w) \/ StartAdmit(w) \/ StartReject(w) \/ LoopStep(w) \/ Begin(w)
           \/ Dispatch(w) \/ Interrupt(w) \/ Answer(w) \/ WaitEnds(w)
    PROVE  SweptInv'
<1> SUFFICES ASSUME NEW v \in Flows, record'[v] # NoRecord, v \notin Persistent,
                    Owner[v] \in swept'
             PROVE  v \in retired' /\ phase'[v] \in Tasking
  BY DEF SweptInv, Tasking, InStep
<1> USE DEF storeVars, taskVars, connVars, saveVars, hostVars, history
<1>0. swept' = swept
  BY DEF StartCheck, StartAdmit, StartReject, LoopStep, LoopHead, PutResult, Close, FinishLook,
     Finish, Begin, Dispatch, Interrupt, Answer, WaitEnds
<1>1. CASE v # w
  BY <1>0, <1>1, OthersKept DEF SweptInv
<1>t. TaskOf(w)
  BY DEF TasksInv
<1>2. CASE v = w /\ (StartCheck(w) \/ StartReject(w))
  BY <1>t, <1>2 DEF StartCheck, StartReject, TaskOf
<1>3. CASE v = w /\ StartAdmit(w)
  BY <1>t, <1>0, <1>3 DEF StartAdmit, Admits, ConnCanceled, TaskOf, TypeOK
<1>4. CASE v = w /\ Finish(w)
  <2>1. record[w] # NoRecord /\ w \notin retired
    BY <1>t, <1>4 DEF Finish, TaskOf, Tasking, TypeOK
  <2> QED
    BY <1>0, <1>4, <2>1 DEF SweptInv
<1>5. CASE v = w /\ (LoopHead(w) \/ PutResult(w) \/ Close(w) \/ FinishLook(w) \/ Begin(w)
                       \/ Dispatch(w) \/ Interrupt(w) \/ Answer(w) \/ WaitEnds(w))
  BY <1>0, <1>5, TaskKeepsRecord DEF SweptInv
<1> QED
  BY <1>1, <1>2, <1>3, <1>4, <1>5 DEF LoopStep

LEMMA SweptOfRest ==
    ASSUME TypeOK, TasksInv, SweptInv,
           \/ \E w \in Flows : \E forget \in BOOLEAN : Cancel(w, forget)
           \/ \E c \in Conns : CloseConnection(c) \/ Sweep(c)
           \/ WorkerWakes
           \/ \E s \in Savers : SaveBegins(s) \/ RecordFailure(s) \/ MarkRunning(s)
           \/ \E ok \in BOOLEAN : SaveEnds(ok)
           \/ ShutdownBegin \/ ShutdownDrained \/ ShutdownFlush \/ HostRestart
    PROVE  SweptInv'
<1> SUFFICES ASSUME NEW v \in Flows, record'[v] # NoRecord, v \notin Persistent,
                    Owner[v] \in swept'
             PROVE  v \in retired' /\ phase'[v] \in Tasking
  BY DEF SweptInv, Tasking, InStep
<1> USE DEF storeVars, taskVars, connVars, saveVars, hostVars, history
<1>t. TaskOf(v)
  BY DEF TasksInv
<1>1. CASE \E w \in Flows : \E forget \in BOOLEAN : Cancel(w, forget)
  <2>1. record[v] # NoRecord /\ UNCHANGED <<phase, retired, swept>>
    BY <1>1 DEF Cancel, TypeOK
  <2> QED
    BY <2>1 DEF SweptInv
<1>2. CASE \E c \in Conns : CloseConnection(c)
  BY <1>2 DEF CloseConnection, SweptInv
<1>3. CASE \E c \in Conns : Sweep(c)
  <2>1. PICK c \in Conns : Sweep(c)
    BY <1>3
  <2> DEFINE mine == {w \in Stored \ Persistent : Owner[w] = c}
             live == {w \in mine : token[w] # "none"}
  <2>2. /\ record' = [w \in Flows |-> IF w \in mine \ live THEN NoRecord ELSE record[w]]
        /\ retired' = retired \cup live /\ swept' = swept \cup {c} /\ phase' = phase
    BY <2>1 DEF Sweep
  <2>3. v \notin mine \ live /\ record[v] # NoRecord
    BY <2>2
  <2>4. CASE Owner[v] = c
    <3>1. v \in live
      BY <2>3, <2>4 DEF Stored
    <3> QED
      BY <1>t, <2>2, <3>1 DEF TaskOf
  <2>5. CASE Owner[v] # c
    <3>1. v \in retired /\ phase[v] \in Tasking
      BY <2>2, <2>3, <2>5 DEF SweptInv
    <3> QED
      BY <2>2, <3>1
  <2> QED
    BY <2>4, <2>5
<1>4. CASE \/ WorkerWakes \/ ShutdownBegin \/ ShutdownDrained \/ ShutdownFlush
           \/ \E s \in Savers : SaveBegins(s) \/ RecordFailure(s) \/ MarkRunning(s)
  <2>1. UNCHANGED <<phase, record, retired, swept>>
    BY <1>4 DEF WorkerWakes, SaveBegins, RecordFailure, MarkRunning, ShutdownBegin,
         ShutdownDrained, ShutdownFlush
  <2> QED
    BY <2>1 DEF SweptInv
<1>5. CASE \E ok \in BOOLEAN : SaveEnds(ok)
  <2>1. UNCHANGED <<record, retired, swept>>
    BY <1>5 DEF SaveEnds
  <2>2. v \in retired /\ phase[v] \in Tasking
    BY <2>1 DEF SweptInv
  <2>3. phase'[v] = phase[v] \/ phase'[v] \in {"ready", "result"}
    BY <1>5 DEF SaveEnds, Yields, TypeOK
  <2> QED
    BY <2>1, <2>2, <2>3 DEF Tasking, InStep
<1>6. CASE HostRestart
  BY <1>6 DEF HostRestart
<1> QED
  BY <1>1, <1>2, <1>3, <1>4, <1>5, <1>6

LEMMA ScopesOfTask ==
    ASSUME TypeOK, TasksInv, ScopeEndsWithWorkflow, NEW w \in Flows,
           \/ StartCheck(w) \/ StartAdmit(w) \/ StartReject(w) \/ LoopStep(w) \/ Begin(w)
           \/ Dispatch(w) \/ Interrupt(w) \/ Answer(w) \/ WaitEnds(w)
    PROVE  ScopeEndsWithWorkflow'
<1> SUFFICES ASSUME NEW v \in Flows, record'[v] # NoRecord, record'[v].outcome # "running"
             PROVE  scope'[v] # "open" /\ (scope'[v] = "failed" => record'[v].outcome = "failed")
  BY DEF ScopeEndsWithWorkflow
<1> USE DEF storeVars, taskVars, connVars, saveVars, hostVars, history
<1>1. CASE v # w
  BY <1>1, OthersKept DEF ScopeEndsWithWorkflow
<1>t. TaskOf(w)
  BY DEF TasksInv
<1>2. CASE v = w /\ (StartCheck(w) \/ StartReject(w))
  BY <1>t, <1>2 DEF StartCheck, StartReject, TaskOf
<1>3. CASE v = w /\ StartAdmit(w)
  BY <1>t, <1>3 DEF StartAdmit, NewRecord, TaskOf, TypeOK
<1>4. CASE v = w /\ Finish(w)
  <2>1. record[w] # NoRecord /\ record[w] \in RecordOf(w) /\ record[w].outcome = "running"
    BY <1>t, <1>4 DEF Finish, TaskOf, Tasking, TypeOK
  <2>2. record'[w].outcome = IF phase[w] = "finishFailed" THEN "failed" ELSE res[w].outcome
    BY <1>4, <2>1 DEF Finish, TypeOK, RecordOf
  <2> QED
    BY <1>t, <1>4, <2>2 DEF Finish, TaskOf
<1>5. CASE v = w /\ (LoopHead(w) \/ PutResult(w) \/ Close(w) \/ FinishLook(w) \/ Begin(w)
                       \/ Dispatch(w) \/ Interrupt(w) \/ Answer(w) \/ WaitEnds(w))
  BY <1>5, TaskKeepsRecord
<1> QED
  BY <1>1, <1>2, <1>3, <1>4, <1>5 DEF LoopStep

LEMMA ScopesOfRest ==
    ASSUME TypeOK, ScopeEndsWithWorkflow,
           \/ \E w \in Flows : \E forget \in BOOLEAN : Cancel(w, forget)
           \/ \E c \in Conns : CloseConnection(c) \/ Sweep(c)
           \/ WorkerWakes
           \/ \E s \in Savers : SaveBegins(s) \/ RecordFailure(s) \/ MarkRunning(s)
           \/ \E ok \in BOOLEAN : SaveEnds(ok)
           \/ ShutdownBegin \/ ShutdownDrained \/ ShutdownFlush \/ HostRestart
    PROVE  ScopeEndsWithWorkflow'
<1> SUFFICES ASSUME NEW v \in Flows, record'[v] # NoRecord, record'[v].outcome # "running"
             PROVE  scope'[v] # "open" /\ (scope'[v] = "failed" => record'[v].outcome = "failed")
  BY DEF ScopeEndsWithWorkflow
<1> USE DEF storeVars, taskVars, connVars, saveVars, hostVars, history
<1>1. CASE HostRestart
  BY <1>1 DEF HostRestart
<1>2. CASE ~HostRestart
  <2>1. scope' = scope
    BY <1>2 DEF Cancel, CloseConnection, Sweep, WorkerWakes, SaveBegins, RecordFailure,
         MarkRunning, SaveEnds, ShutdownBegin, ShutdownDrained, ShutdownFlush
  <2>2. record'[v] = record[v]
    BY <1>2 DEF Cancel, CloseConnection, Sweep, WorkerWakes, SaveBegins, RecordFailure,
         MarkRunning, SaveEnds, ShutdownBegin, ShutdownDrained, ShutdownFlush, TypeOK
  <2> QED
    BY <2>1, <2>2 DEF ScopeEndsWithWorkflow
<1> QED
  BY <1>1, <1>2

----------------------------------------------------------------------------
(* What a record tells of an action.                                       *)

\* Answers only make a record more honest, and so does a dispatch of a step that is running.
LEMMA HonestGrows ==
    ASSUME NEW w \in Flows, NEW r, Honest(w, r),
           \A k \in StepsOf(w) : <<w, k>> \in answered => <<w, k>> \in answered',
           \A k \in StepsOf(w) : <<w, k>> \in dispatched' =>
               <<w, k>> \in dispatched \/ (r # NoRecord => r.steps[k].outcome \in {"running", "absent"})
    PROVE  r # NoRecord =>
              /\ \A k \in StepsOf(w) :
                    /\ <<w, k>> \in dispatched' \ answered' =>
                          r.steps[k].outcome \in {"running", "absent"} \/ r.steps[k].maybe
                    /\ r.steps[k].outcome = "satisfied" /\ Plan[w][k].does = "action" =>
                          <<w, k>> \in answered'
              /\ r.outcome # "running" => \A k \in StepsOf(w) : r.steps[k].outcome # "running"
BY DEF Honest, HonestStep

\* Only Dispatch calls a tool, and the record says then that the step is running.
LEMMA DispatchedGrows ==
    ASSUME TypeOK, TasksInv, StepsInv, NEW w \in Flows, NEW v \in Flows,
           \/ StartCheck(w) \/ StartAdmit(w) \/ StartReject(w) \/ LoopStep(w) \/ Begin(w)
           \/ Dispatch(w) \/ Interrupt(w) \/ Answer(w) \/ WaitEnds(w)
    PROVE  /\ \A k \in StepsOf(v) : <<v, k>> \in answered => <<v, k>> \in answered'
           /\ \A k \in StepsOf(v) : <<v, k>> \in dispatched' =>
                 \/ <<v, k>> \in dispatched
                 \/ /\ Dispatch(w) /\ v = w /\ k = at[w] /\ phase[w] = "ready"
                    /\ record' = record
                    /\ record[w] # NoRecord /\ record[w].steps[k].outcome = "running"
           /\ UNCHANGED <<disk, writing, forgotten>>
<1> USE DEF taskVars, storeVars, connVars, saveVars, hostVars, history
<1>t. TaskOf(w) /\ StepOf(w)
  BY DEF TasksInv, StepsInv
<1>1. answered' = answered \/ answered' = answered \cup {<<w, at[w]>>}
  BY DEF StartCheck, StartAdmit, StartReject, LoopStep, LoopHead, PutResult, Close, FinishLook,
     Finish, Begin, Dispatch, Interrupt, Answer, WaitEnds
<1>2. \/ dispatched' = dispatched
      \/ /\ Dispatch(w) /\ phase[w] = "ready" /\ record' = record
         /\ dispatched' = dispatched \cup {<<w, at[w]>>}
  BY DEF StartCheck, StartAdmit, StartReject, LoopStep, LoopHead, PutResult, Close, FinishLook,
     Finish, Begin, Dispatch, Interrupt, Answer, WaitEnds
<1>3. phase[w] = "ready" => /\ at[w] \in StepsOf(w) /\ record[w] # NoRecord
                            /\ record[w].steps[at[w]].outcome = "running"
  BY <1>t DEF TaskOf, StepOf, Tasking, InStep
<1>4. UNCHANGED <<disk, writing, forgotten>>
  BY DEF StartCheck, StartAdmit, StartReject, LoopStep, LoopHead, PutResult, Close, FinishLook,
     Finish, Begin, Dispatch, Interrupt, Answer, WaitEnds
<1> QED
  BY <1>1, <1>2, <1>3, <1>4

LEMMA HonestOfTask ==
    ASSUME TypeOK, TasksInv, StepsInv, FileInv, HonestInv, NEW w \in Flows,
           \/ StartCheck(w) \/ StartAdmit(w) \/ StartReject(w) \/ LoopStep(w) \/ Begin(w)
           \/ Dispatch(w) \/ Interrupt(w) \/ Answer(w) \/ WaitEnds(w)
    PROVE  HonestInv'
<1> USE DEF taskVars, storeVars, connVars, saveVars, hostVars, history
<1>p. Persistent \subseteq Flows
  BY WorkflowAssumption
<1>t. TaskOf(w) /\ StepOf(w) /\ Honest(w, record[w])
  BY DEF TasksInv, StepsInv, HonestInv
<1>r. record[w] \in RecordOf(w) \cup {NoRecord} /\ DOMAIN record = Flows
  BY DEF TypeOK
<1>d. \A k \in StepsOf(w) : <<w, k>> \in dispatched => Plan[w][k].does = "action"
  BY <1>t DEF StepOf
<1>k. ASSUME NEW v \in Flows, record'[v] = record[v]
      PROVE  Honest(v, record[v])'
  <2>1. Honest(v, record[v])
    BY DEF HonestInv
  <2> QED
    BY <1>k, <2>1, HonestGrows, DispatchedGrows DEF Honest, HonestStep
<1>1. ASSUME NEW v \in Flows
      PROVE  Honest(v, record[v])'
  <2>1. CASE v # w
    BY <1>k, <2>1, OthersKept
  <2>2. CASE v = w /\ StartAdmit(w) /\ Admits(w)
    <3>1. record'[w] = NewRecord(w)
      BY <1>r, <2>2 DEF StartAdmit
    <3>2. NewRecord(w).outcome = "running"
          /\ \A k \in StepsOf(w) : NewRecord(w).steps[k].outcome = "absent"
      BY DEF NewRecord, NoStep
    <3> QED
      BY <2>2, <3>1, <3>2 DEF Honest, HonestStep, StepsOf
  <2>3. CASE v = w /\ LoopHead(w) /\ record' # record
    <3>1. at[w] \in StepsOf(w) /\ record' = Put(w, Begun)
      BY <2>3, Steps DEF LoopHead, TypeOK
    <3>2. Begun \in StepResult
      BY DEF Begun, StepResult, Outcomes
    <3>3. record[w] # NoRecord /\ record[w].outcome = "running" /\ dispatched' = dispatched
          /\ answered' = answered
      BY <1>t, <2>3 DEF LoopHead, TaskOf, Tasking
    <3>4. /\ record'[w].outcome = "running" /\ record'[w].steps[at[w]] = Begun
          /\ \A k \in StepsOf(w) \ {at[w]} : record'[w].steps[k] = record[w].steps[k]
      BY <3>1, <3>2, <3>3, PutFacts
    <3> QED
      BY <1>t, <2>3, <3>3, <3>4 DEF Honest, HonestStep, StepsOf, Begun
  <2>4. CASE v = w /\ PutResult(w)
    <3>1. PICK r \in {res[w], [outcome |-> "failed", maybe |-> IsAction(w)]} :
            record' = Put(w, r)
      BY <2>4 DEF PutResult
    <3>2. at[w] \in StepsOf(w) /\ record[w] # NoRecord /\ record[w].outcome = "running"
          /\ HonestStep(w, at[w], res[w])
      BY <1>t, <2>4 DEF PutResult, TaskOf, Tasking
    <3>3. r \in StepResult
      <4>1. [outcome |-> "failed", maybe |-> IsAction(w)] \in StepResult
        BY ONLY ActionOrNot, w \in Flows DEF StepResult, Outcomes, Ends
      <4> QED
        BY <3>1, <4>1 DEF TypeOK
    <3>4. HonestStep(w, at[w], r)
      <4>1. HonestStep(w, at[w], [outcome |-> "failed", maybe |-> IsAction(w)])
        BY <1>d, <3>2, HonestEnd DEF Ends
      <4> QED
        BY <3>1, <3>2, <4>1
    <3>5. /\ record'[w].outcome = "running" /\ record'[w].steps[at[w]] = r
          /\ \A k \in StepsOf(w) \ {at[w]} : record'[w].steps[k] = record[w].steps[k]
      BY <3>1, <3>2, <3>3, PutFacts
    <3>6. dispatched' = dispatched /\ answered' = answered
      BY <2>4 DEF PutResult
    <3> QED
      BY <1>t, <2>4, <3>2, <3>4, <3>5, <3>6 DEF Honest, HonestStep, StepsOf
  <2>5. CASE v = w /\ Finish(w)
    <3>1. record[w] # NoRecord /\ record[w] \in RecordOf(w) /\ record[w].outcome = "running"
      BY <1>t, <2>5 DEF Finish, TaskOf, Tasking, TypeOK
    <3>2. record'[w] = NoRecord \/ record'[w].steps = record[w].steps
      BY <2>5, <3>1 DEF Finish, TypeOK, RecordOf
    <3>3. \A k \in StepsOf(w) : record[w].steps[k].outcome # "running"
      BY <1>t, <2>5, <3>1 DEF Finish, StepOf, InStep
    <3>4. dispatched' = dispatched /\ answered' = answered
      BY <2>5 DEF Finish
    <3> QED
      BY <1>t, <2>5, <3>1, <3>2, <3>3, <3>4 DEF Honest, HonestStep, StepsOf
  <2>6. CASE record'[v] = record[v]
    BY <1>k, <2>6
  <2> QED
    BY <2>1, <2>2, <2>3, <2>4, <2>5, <2>6 DEF StartCheck, StartAdmit, StartReject, LoopStep,
       Close, FinishLook, Begin, Dispatch, Interrupt, Answer, WaitEnds
<1>2. ASSUME NEW v \in Persistent, NEW r, Honest(v, r),
             v \notin forgotten => Earlier(v, r, record[v])
      PROVE  r # NoRecord =>
              /\ \A k \in StepsOf(v) :
                    /\ <<v, k>> \in dispatched' \ answered' =>
                          r.steps[k].outcome \in {"running", "absent"} \/ r.steps[k].maybe
                    /\ r.steps[k].outcome = "satisfied" /\ Plan[v][k].does = "action" =>
                          <<v, k>> \in answered'
              /\ r.outcome # "running" => \A k \in StepsOf(v) : r.steps[k].outcome # "running"
  <2>1. v \in Flows
    BY <1>p
  <2>2. phase[w] = "ready" => w \notin forgotten
    BY <1>t DEF TaskOf
  <2>3. \A k \in StepsOf(v) : <<v, k>> \in dispatched' =>
            <<v, k>> \in dispatched \/ (r # NoRecord => r.steps[k].outcome \in {"running", "absent"})
    <3>1. SUFFICES ASSUME NEW k \in StepsOf(v), <<v, k>> \in dispatched',
                          <<v, k>> \notin dispatched, r # NoRecord
                   PROVE  r.steps[k].outcome \in {"running", "absent"}
      OBVIOUS
    <3>2. v = w /\ phase[w] = "ready" /\ record[v].steps[k].outcome = "running"
      BY <2>1, <3>1, DispatchedGrows
    <3> QED
      BY <1>2, <2>2, <3>1, <3>2 DEF Earlier
  <2> QED
    BY <1>2, <2>1, <2>3, HonestGrows, DispatchedGrows
<1>3. ASSUME NEW v \in Persistent
      PROVE  Honest(v, disk[v])' /\ (writing' # NoSave => Honest(v, writing.snap[v])')
  <2>1. UNCHANGED <<disk, writing, forgotten>>
    BY DispatchedGrows
  <2>2. Honest(v, disk[v]) /\ (v \notin forgotten => Earlier(v, disk[v], record[v]))
    BY DEF HonestInv, FileInv, FileOf
  <2>3. writing # NoSave =>
            Honest(v, writing.snap[v]) /\ (v \notin forgotten => Earlier(v, writing.snap[v], record[v]))
    BY DEF HonestInv, FileInv, FileOf
  <2>4. Honest(v, disk[v])'
    BY <1>2, <2>1, <2>2 DEF Honest, HonestStep
  <2>5. writing' # NoSave => Honest(v, writing.snap[v])'
    BY <1>2, <2>1, <2>3 DEF Honest, HonestStep
  <2> QED
    BY <2>4, <2>5
<1> QED
  BY <1>1, <1>3 DEF HonestInv

LEMMA HonestOfRest ==
    ASSUME TypeOK, HonestInv,
           \/ \E w \in Flows : \E forget \in BOOLEAN : Cancel(w, forget)
           \/ \E c \in Conns : CloseConnection(c) \/ Sweep(c)
           \/ WorkerWakes
           \/ \E s \in Savers : SaveBegins(s) \/ RecordFailure(s) \/ MarkRunning(s)
           \/ \E ok \in BOOLEAN : SaveEnds(ok)
           \/ ShutdownBegin \/ ShutdownDrained \/ ShutdownFlush \/ HostRestart
    PROVE  HonestInv'
<1> USE DEF taskVars, storeVars, connVars, saveVars, hostVars, history
<1>p. Persistent \subseteq Flows
  BY WorkflowAssumption
<1>0. dispatched' = dispatched /\ answered' = answered
  BY DEF Cancel, CloseConnection, Sweep, WorkerWakes, SaveBegins, RecordFailure, MarkRunning,
       SaveEnds, ShutdownBegin, ShutdownDrained, ShutdownFlush, HostRestart
<1>r. ASSUME NEW v \in Persistent
      PROVE  Honest(v, Restored(disk[v]))
  <2>1. disk[v] \in RecordOf(v) \cup {NoRecord} /\ Honest(v, disk[v])
    BY DEF TypeOK, IsSnapshot, HonestInv
  <2>2. v \in Flows
    BY <1>p
  <2>3. CASE disk[v] # NoRecord
    <3>1. \A k \in StepsOf(v) : Restored(disk[v]).steps[k] =
              IF disk[v].outcome = "running" THEN RestoredStep(disk[v].steps[k])
                                             ELSE disk[v].steps[k]
      BY <2>1, <2>2, <2>3, RestoredFacts
    <3>2. ASSUME NEW k \in StepsOf(v)
          PROVE  /\ HonestStep(v, k, disk[v].steps[k])
                 /\ HonestStep(v, k, RestoredStep(disk[v].steps[k]))
                 /\ RestoredStep(disk[v].steps[k]).outcome # "running"
      BY <2>1, <2>3 DEF Honest, HonestStep, RestoredStep
    <3> QED
      BY <2>1, <2>3, <3>1, <3>2 DEF Honest
  <2>4. CASE disk[v] = NoRecord
    BY <2>1, <2>2, <2>4, RestoredFacts DEF Honest
  <2> QED
    BY <2>3, <2>4
<1>1. ASSUME NEW v \in Flows
      PROVE  Honest(v, record[v])'
  <2>1. Honest(v, record[v])
    BY DEF HonestInv
  <2>2. CASE HostRestart
    <3>1. record'[v] = IF v \in Persistent THEN Restored(disk[v]) ELSE NoRecord
      BY <2>2 DEF HostRestart
    <3> QED
      BY <1>0, <1>r, <3>1 DEF Honest, HonestStep
  <2>3. CASE ~HostRestart
    <3>1. record'[v] = record[v] \/ record'[v] = NoRecord
      BY <2>3 DEF Cancel, CloseConnection, Sweep, WorkerWakes, SaveBegins, RecordFailure,
           MarkRunning, SaveEnds, ShutdownBegin, ShutdownDrained, ShutdownFlush, TypeOK
    <3> QED
      BY <1>0, <2>1, <3>1 DEF Honest, HonestStep
  <2> QED
    BY <2>2, <2>3
<1>2. ASSUME NEW v \in Persistent
      PROVE  Honest(v, disk[v])' /\ (writing' # NoSave => Honest(v, writing.snap[v])')
  <2>1. /\ Honest(v, record[v]) /\ Honest(v, disk[v])
        /\ writing # NoSave => Honest(v, writing.snap[v])
    BY <1>p DEF HonestInv
  <2>2. CASE HostRestart
    <3>1. disk'[v] = Restored(disk[v]) /\ writing' = NoSave
      BY <2>2 DEF HostRestart
    <3> QED
      BY <1>0, <1>r, <3>1 DEF Honest, HonestStep
  <2>3. CASE ~HostRestart
    <3>1. disk' = disk \/ (writing # NoSave /\ disk' = writing.snap)
      BY <2>3 DEF Cancel, CloseConnection, Sweep, WorkerWakes, SaveBegins, RecordFailure,
           MarkRunning, SaveEnds, ShutdownBegin, ShutdownDrained, ShutdownFlush
    <3>2. writing' = NoSave \/ writing' = writing \/ \E s : writing' = [by |-> s, snap |-> Snapshot]
      BY <2>3 DEF Cancel, CloseConnection, Sweep, WorkerWakes, SaveBegins, RecordFailure,
           MarkRunning, SaveEnds, ShutdownBegin, ShutdownDrained, ShutdownFlush
    <3>3. Snapshot[v] = record[v]
      BY DEF Snapshot
    <3> QED
      BY <1>0, <2>1, <3>1, <3>2, <3>3 DEF Honest, HonestStep
  <2> QED
    BY <2>2, <2>3
<1> QED
  BY <1>1, <1>2 DEF HonestInv

----------------------------------------------------------------------------
(* The checkpoint file.                                                    *)

\* A later version of the record is still later than what was saved.
LEMMA EarlierKept ==
    ASSUME NEW w \in Flows, NEW a, NEW b, NEW c, Earlier(w, a, b),
           b # NoRecord => /\ c # NoRecord
                           /\ \A k \in StepsOf(w) :
                                 \/ c.steps[k] = b.steps[k]
                                 \/ b.steps[k].outcome = "absent"
                                 \/ b.steps[k].outcome = "running" /\ c.steps[k].outcome # "absent"
    PROVE  Earlier(w, a, c)
BY DEF Earlier

\* How a task's step changes its own record.
LEMMA RecordProgress ==
    ASSUME TypeOK, TasksInv, StepsInv, NEW w \in Flows, record[w] # NoRecord, w \notin retired,
           \/ StartCheck(w) \/ StartAdmit(w) \/ StartReject(w) \/ LoopStep(w) \/ Begin(w)
           \/ Dispatch(w) \/ Interrupt(w) \/ Answer(w) \/ WaitEnds(w)
    PROVE  /\ record'[w] # NoRecord
           /\ \A k \in StepsOf(w) :
                 \/ record'[w].steps[k] = record[w].steps[k]
                 \/ record[w].steps[k].outcome = "absent"
                 \/ record[w].steps[k].outcome = "running" /\ record'[w].steps[k].outcome # "absent"
<1> USE DEF taskVars, storeVars, connVars, saveVars, hostVars, history
<1>t. TaskOf(w) /\ StepOf(w)
  BY DEF TasksInv, StepsInv
<1>r. record[w] \in RecordOf(w) /\ DOMAIN record = Flows
  BY DEF TypeOK
<1>1. CASE StartAdmit(w)
  BY <1>t, <1>1 DEF StartAdmit, TaskOf
<1>2. CASE LoopHead(w) /\ record' # record
  <2>1. at[w] \in StepsOf(w) /\ record' = Put(w, Begun) /\ phase[w] = "head"
    BY <1>2, Steps DEF LoopHead, TypeOK
  <2>2. Begun \in StepResult
    BY DEF Begun, StepResult, Outcomes
  <2>3. record[w].steps[at[w]].outcome = "absent"
    BY <1>t, <2>1, Steps DEF StepOf
  <2> QED
    BY <2>1, <2>2, <2>3, PutFacts
<1>3. CASE PutResult(w)
  <2>1. PICK r \in {res[w], [outcome |-> "failed", maybe |-> IsAction(w)]} : record' = Put(w, r)
    BY <1>3 DEF PutResult
  <2>2. at[w] \in StepsOf(w) /\ res[w].outcome \in Ends /\ phase[w] = "result"
    BY <1>t, <1>3 DEF PutResult, TaskOf
  <2>3. r \in StepResult /\ r.outcome # "absent"
    <3>1. [outcome |-> "failed", maybe |-> IsAction(w)] \in StepResult
      BY ONLY ActionOrNot, w \in Flows DEF StepResult, Outcomes, Ends
    <3> QED
      BY <2>1, <2>2, <3>1 DEF TypeOK, Ends
  <2>4. record[w].steps[at[w]].outcome = "running"
    BY <1>t, <2>2 DEF StepOf
  <2> QED
    BY <2>1, <2>2, <2>3, <2>4, PutFacts
<1>4. CASE Finish(w)
  <2>1. record'[w] # NoRecord /\ record'[w].steps = record[w].steps
    <3>1. record[w].outcome = "running"
      BY <1>t, <1>4 DEF Finish, TaskOf, Tasking
    <3> DEFINE o == IF phase[w] = "finishFailed" THEN "failed" ELSE res[w].outcome
    <3>2. record' = [record EXCEPT ![w].outcome = o]
      BY <1>4, <3>1 DEF Finish
    <3>3. o \in Outcomes
      BY <1>t, <1>4 DEF Finish, TaskOf, Outcomes, Ends
    <3> HIDE DEF o
    <3>4. record'[w] = [record[w] EXCEPT !.outcome = o]
      BY <1>r, <3>2
    <3>5. record'[w] \in RecordOf(w) /\ record'[w].steps = record[w].steps
      BY <1>r, <3>3, <3>4 DEF RecordOf
    <3> QED
      BY <3>5, NoRecordAssumption
  <2> QED
    BY <2>1
<1>5. CASE record' = record
  BY <1>5
<1> QED
  BY <1>1, <1>2, <1>3, <1>4, <1>5 DEF StartCheck, StartReject, LoopStep, Close, FinishLook, Begin,
     Dispatch, Interrupt, Answer, WaitEnds

LEMMA FileOfTask ==
    ASSUME TypeOK, TasksInv, StepsInv, FileInv, NEW w \in Flows,
           \/ StartCheck(w) \/ StartAdmit(w) \/ StartReject(w) \/ LoopStep(w) \/ Begin(w)
           \/ Dispatch(w) \/ Interrupt(w) \/ Answer(w) \/ WaitEnds(w)
    PROVE  FileInv'
<1> SUFFICES ASSUME NEW v \in Persistent
             PROVE  FileOf(v)'
  BY DEF FileInv
<1> USE DEF taskVars, storeVars, connVars, saveVars, hostVars, history
<1>p. v \in Flows
  BY WorkflowAssumption
<1>f. FileOf(v)
  BY DEF FileInv
<1>u. UNCHANGED <<disk, writing, forgotten>>
  BY DispatchedGrows
<1>q. ASSUME NEW k \in StepsOf(v), <<v, k>> \in queue', <<v, k>> \notin queue
      PROVE  Begin(w) /\ v = w /\ k = at[w] /\ record' = record /\ phase[w] = "step"
  <2>1. \/ queue' = queue
        \/ queue' = queue \cup {<<w, 0>>}
        \/ /\ Begin(w) /\ record' = record /\ phase[w] = "step"
           /\ queue' = queue \cup {<<w, at[w]>>}
    BY DEF StartCheck, StartAdmit, StartReject, LoopStep, LoopHead, PutResult, Close, FinishLook,
       Finish, Begin, Dispatch, Interrupt, Answer, WaitEnds
  <2>2. k # 0
    BY <1>p, Steps
  <2> QED
    BY <1>q, <2>1, <2>2
<1>o. CASE v # w
  <2>1. phase'[v] = phase[v] /\ at'[v] = at[v] /\ record'[v] = record[v]
    BY <1>p, <1>o, OthersKept
  <2>2. \A k \in StepsOf(v) : <<v, k>> \in queue' => <<v, k>> \in queue
    BY <1>q, <1>o
  <2>3. \A k \in StepsOf(v) : <<v, k>> \in dispatched' => <<v, k>> \in dispatched
    BY <1>p, <1>o, DispatchedGrows
  <2> QED
    BY <1>f, <1>u, <2>1, <2>2, <2>3 DEF FileOf, Earlier, Marked, StepsOf
<1>s. CASE v = w /\ v \notin forgotten
  <2>t. TaskOf(w) /\ StepOf(w) /\ w \notin retired
    BY <1>s DEF TasksInv, StepsInv, TypeOK
  <2>1. record[w] # NoRecord =>
            /\ record'[w] # NoRecord
            /\ \A k \in StepsOf(w) :
                 \/ record'[w].steps[k] = record[w].steps[k]
                 \/ record[w].steps[k].outcome = "absent"
                 \/ record[w].steps[k].outcome = "running" /\ record'[w].steps[k].outcome # "absent"
    BY <2>t, RecordProgress
  <2>2. \A a : Earlier(w, a, record[w]) => Earlier(w, a, record'[w])
    BY <2>1, EarlierKept
  <2>3. \A k \in StepsOf(w) : Marked(w, record[w], k) => Marked(w, record'[w], k)
    BY <2>1 DEF Marked
  <2>4. ASSUME NEW k \in StepsOf(w), <<w, k>> \in queue'
        PROVE  Marked(w, record'[w], k)
    <3>1. CASE <<w, k>> \in queue
      BY <1>f, <1>s, <2>3, <3>1 DEF FileOf
    <3>2. CASE <<w, k>> \notin queue
      <4>1. k = at[w] /\ record' = record /\ phase[w] = "step"
        BY <1>q, <1>s, <2>4, <3>2
      <4> QED
        BY <2>t, <4>1 DEF TaskOf, StepOf, Tasking, InStep, Marked
    <3> QED
      BY <3>1, <3>2
  <2>5. phase'[w] # "ready"
    BY <1>s DEF StartCheck, StartAdmit, StartReject, LoopStep, LoopHead, Return, PutResult, Close,
       FinishLook, Finish, Begin, Yields, Dispatch, Interrupt, Answer, WaitEnds, TypeOK
  <2>6. \A k \in StepsOf(w) : <<w, k>> \in dispatched' => Marked(w, disk[w], k)
    <3>1. phase[w] = "ready" => Marked(w, disk[w], at[w])
      BY <1>f, <1>s DEF FileOf
    <3> QED
      BY <1>f, <1>s, <3>1, DispatchedGrows DEF FileOf
  <2>7. /\ Earlier(w, disk[w], record'[w])
        /\ writing # NoSave =>
              Earlier(w, disk[w], writing.snap[w]) /\ Earlier(w, writing.snap[w], record'[w])
    BY <1>f, <1>s, <2>2 DEF FileOf
  <2>8. \A k \in StepsOf(w) : writing # NoSave /\ writing.by = <<w, k>> => Marked(w, writing.snap[w], k)
    BY <1>f, <1>s DEF FileOf
  <2> QED
    BY <1>s, <1>u, <2>4, <2>5, <2>6, <2>7, <2>8 DEF FileOf, Earlier, Marked, StepsOf
<1>g. CASE v \in forgotten
  BY <1>g, <1>u DEF FileOf
<1> QED
  BY <1>o, <1>s, <1>g

LEMMA FileFrame ==
    ASSUME NEW v \in Persistent, FileOf(v), record'[v] = record[v] \/ v \in forgotten',
           UNCHANGED <<disk, writing, phase, at, dispatched>>,
           v \in forgotten => v \in forgotten',
           \A k \in StepsOf(v) : <<v, k>> \in queue' => <<v, k>> \in queue
    PROVE  FileOf(v)'
BY DEF FileOf, Earlier, Marked, StepsOf

\* What was marked stays marked in every later version.
LEMMA MarkedLater ==
    ASSUME NEW w \in Flows, NEW a, NEW b, Earlier(w, a, b), NEW k \in StepsOf(w), Marked(w, a, k)
    PROVE  Marked(w, b, k)
BY DEF Earlier, Marked

LEMMA FileOfRest ==
    ASSUME TypeOK, TasksInv, FileInv,
           \/ \E w \in Flows : \E forget \in BOOLEAN : Cancel(w, forget)
           \/ \E c \in Conns : CloseConnection(c) \/ Sweep(c)
           \/ WorkerWakes
           \/ \E s \in Savers : SaveBegins(s) \/ RecordFailure(s) \/ MarkRunning(s)
           \/ \E ok \in BOOLEAN : SaveEnds(ok)
           \/ ShutdownBegin \/ ShutdownDrained \/ ShutdownFlush \/ HostRestart
    PROVE  FileInv'
<1> SUFFICES ASSUME NEW v \in Persistent
             PROVE  FileOf(v)'
  BY DEF FileInv
<1> USE DEF taskVars, storeVars, connVars, saveVars, hostVars, history
<1>p. v \in Flows
  BY WorkflowAssumption
<1>f. FileOf(v) /\ TaskOf(v)
  BY <1>p DEF FileInv, TasksInv
<1>k. \A k \in StepsOf(v) : k \in 0..Len(Plan[v]) /\ <<v, k>> # Worker /\ <<v, k>> # Shutdown
  BY <1>p, Steps, SaverSteps
<1>1. CASE \E w \in Flows : \E forget \in BOOLEAN : Cancel(w, forget)
  <2>1. record'[v] = record[v] \/ v \in forgotten'
    BY <1>1, <1>p DEF Cancel, TypeOK
  <2>2. UNCHANGED <<disk, writing, phase, at, dispatched, queue>>
    BY <1>1 DEF Cancel
  <2>3. v \in forgotten => v \in forgotten'
    BY <1>1 DEF Cancel
  <2> QED
    BY <1>f, <2>1, <2>2, <2>3, FileFrame
<1>2. CASE \E c \in Conns : CloseConnection(c) \/ Sweep(c)
  <2>1. record'[v] = record[v]
    BY <1>2, <1>p DEF CloseConnection, Sweep
  <2>2. UNCHANGED <<disk, writing, phase, at, dispatched, queue, forgotten>>
    BY <1>2 DEF CloseConnection, Sweep
  <2> QED
    BY <1>f, <2>1, <2>2, FileFrame
<1>3. CASE \/ WorkerWakes \/ ShutdownBegin \/ ShutdownDrained \/ ShutdownFlush
           \/ \E s \in Savers : RecordFailure(s) \/ MarkRunning(s)
  <2>1. UNCHANGED <<record, disk, writing, phase, at, dispatched, forgotten>>
    BY <1>3 DEF WorkerWakes, ShutdownBegin, ShutdownDrained, ShutdownFlush, RecordFailure,
         MarkRunning
  <2>2. queue' \subseteq queue \cup {Worker, Shutdown}
    BY <1>3 DEF WorkerWakes, ShutdownBegin, ShutdownDrained, ShutdownFlush, RecordFailure,
         MarkRunning
  <2>3. \A k \in StepsOf(v) : <<v, k>> \in queue' => <<v, k>> \in queue
    BY <1>k, <2>2
  <2> QED
    BY <1>f, <2>1, <2>3, FileFrame
<1>4. CASE \E s \in Savers : SaveBegins(s)
  <2>1. PICK s \in Savers : SaveBegins(s)
    BY <1>4
  <2>2. /\ writing = NoSave /\ writing' = [by |-> s, snap |-> Snapshot] /\ s \in queue
        /\ queue' = queue \ {s} /\ UNCHANGED <<record, disk, phase, at, dispatched, forgotten>>
    BY <2>1 DEF SaveBegins
  <2>3. writing'.snap[v] = record[v] /\ writing'.by = s
    BY <2>2 DEF Snapshot
  <2>4. Earlier(v, record[v], record[v])
    BY DEF Earlier
  <2>5. CASE v \notin forgotten
    <3>1. Earlier(v, disk[v], record[v]) /\ (phase[v] = "ready" => Marked(v, disk[v], at[v]))
      BY <1>f, <2>5 DEF FileOf
    <3>2. \A k \in StepsOf(v) : <<v, k>> \in queue => Marked(v, record[v], k)
      BY <1>f, <2>5 DEF FileOf
    <3>3. \A k \in StepsOf(v) : <<v, k>> \in dispatched => Marked(v, disk[v], k)
      BY <1>f, <2>5 DEF FileOf
    <3> QED
      BY <2>2, <2>3, <2>4, <3>1, <3>2, <3>3 DEF FileOf, Earlier, Marked, StepsOf
  <2>6. CASE v \in forgotten
    BY <2>2, <2>6 DEF FileOf
  <2> QED
    BY <2>5, <2>6
<1>5. CASE \E ok \in BOOLEAN : SaveEnds(ok)
  <2>1. PICK ok \in BOOLEAN : SaveEnds(ok)
    BY <1>5
  <2>2. /\ writing # NoSave /\ writing' = NoSave /\ disk' = IF ok THEN writing.snap ELSE disk
        /\ UNCHANGED <<record, at, dispatched, forgotten, queue>>
    BY <2>1 DEF SaveEnds
  <2>3. writing.by \in Savers
    BY <2>2 DEF TypeOK
  <2>4. CASE v \notin forgotten
    <3>1. /\ Earlier(v, disk[v], writing.snap[v]) /\ Earlier(v, writing.snap[v], record[v])
          /\ Earlier(v, disk[v], record[v])
          /\ \A k \in StepsOf(v) : <<v, k>> \in queue => Marked(v, record[v], k)
      BY <1>f, <2>2, <2>4 DEF FileOf
    <3>2. \A k \in StepsOf(v) : Marked(v, disk[v], k) => Marked(v, disk'[v], k)
      BY <1>p, <2>2, <3>1, MarkedLater
    <3>3. Earlier(v, disk'[v], record[v])
      BY <2>2, <3>1
    <3>4. \A k \in StepsOf(v) : <<v, k>> \in dispatched => Marked(v, disk'[v], k)
      BY <1>f, <2>4, <3>2 DEF FileOf
    <3>5. phase'[v] = "ready" => Marked(v, disk'[v], at[v])
      <4>1. CASE phase[v] = "ready"
        <5>1. Marked(v, disk[v], at[v]) /\ at[v] \in StepsOf(v)
          BY <1>f, <2>4, <4>1 DEF FileOf, TaskOf, InStep
        <5> QED
          BY <3>2, <5>1
      <4>2. CASE phase[v] # "ready" /\ phase'[v] = "ready"
        <5>1. /\ ok /\ writing.by[1] = v /\ writing.by[2] = at[v] /\ phase[v] = "flushing"
              /\ writing.by[2] > 0
          <6> DEFINE u == writing.by[1]
          <6>1. phase' # phase
            BY <4>2
          <6>2. /\ writing.by[2] > 0 /\ phase[u] = "flushing" /\ at[u] = writing.by[2]
                /\ phase' = IF ok THEN [phase EXCEPT ![u] = "ready"]
                                 ELSE [phase EXCEPT ![u] = "result"]
            BY <2>1, <6>1 DEF SaveEnds, Yields
          <6> HIDE DEF u
          <6>3. u = v /\ ok
            BY <4>2, <6>2
          <6> QED
            BY <6>2, <6>3 DEF u
        <5>2. writing.by = <<v, at[v]>>
          <6>1. writing.by # Worker /\ writing.by # Shutdown
            BY <5>1, SaverFacts
          <6>2. PICK w \in Persistent : \E k \in 0..Len(Plan[w]) : writing.by = <<w, k>>
            BY <2>3, <6>1, SaverForms
          <6> QED
            BY <5>1, <6>2
        <5>3. at[v] \in StepsOf(v)
          BY <1>f, <5>1 DEF TaskOf, InStep
        <5>4. Marked(v, writing.snap[v], at[v])
          BY <1>f, <2>2, <2>4, <5>2, <5>3 DEF FileOf
        <5> QED
          BY <2>2, <5>1, <5>4
      <4> QED
        BY <4>1, <4>2
    <3> QED
      BY <2>2, <3>1, <3>3, <3>4, <3>5 DEF FileOf, Earlier, Marked, StepsOf
  <2>5. CASE v \in forgotten
    BY <2>2, <2>5 DEF FileOf
  <2> QED
    BY <2>4, <2>5
<1>6. CASE HostRestart
  <2>1. /\ disk'[v] = Restored(disk[v]) /\ record'[v] = disk'[v] /\ writing' = NoSave /\ queue' = {}
        /\ UNCHANGED <<dispatched, forgotten>> /\ phase'[v] # "ready"
    BY <1>6, <1>p DEF HostRestart
  <2>2. disk[v] \in RecordOf(v) \cup {NoRecord}
    BY DEF TypeOK, IsSnapshot
  <2>3. \A k \in StepsOf(v) : Marked(v, disk[v], k) => Marked(v, disk'[v], k)
    BY <1>p, <2>1, <2>2, RestoredFacts DEF Marked, RestoredStep
  <2>4. v \notin forgotten => \A k \in StepsOf(v) : <<v, k>> \in dispatched => Marked(v, disk'[v], k)
    BY <1>f, <2>3 DEF FileOf
  <2> QED
    BY <2>1, <2>4 DEF FileOf, Earlier, Marked, StepsOf
<1> QED
  BY <1>1, <1>2, <1>3, <1>4, <1>5, <1>6

----------------------------------------------------------------------------
(* Shutdown.                                                               *)

LEMMA SnapshotKept ==
    ASSUME \A w \in Persistent : record'[w] = record[w]
    PROVE  Snapshot' = Snapshot
BY DEF Snapshot

\* A host that has seen its tasks end has no task that could still step.
LEMMA LastOfTask ==
    ASSUME TypeOK, TasksInv, LastInv, NEW w \in Flows,
           \/ StartCheck(w) \/ StartAdmit(w) \/ StartReject(w) \/ LoopStep(w) \/ Begin(w)
           \/ Dispatch(w) \/ Interrupt(w) \/ Answer(w) \/ WaitEnds(w)
    PROVE  LastInv'
<1> USE DEF taskVars, storeVars, connVars, saveVars, hostVars, history
<1>t. TaskOf(w)
  BY DEF TasksInv
<1>1. ~drained
  <2>1. CASE StartCheck(w)
    BY <2>1 DEF StartCheck, LastInv
  <2>2. CASE phase[w] \in {"checked", "rejected"}
    BY <2>2 DEF LastInv
  <2>3. CASE phase[w] \in Tasking
    BY <1>t, <2>3 DEF TaskOf, LastInv
  <2> QED
    BY <2>1, <2>2, <2>3, TaskKeepsRecord DEF StartAdmit, StartReject, LoopStep, Finish, Tasking
<1>2. UNCHANGED <<down, drained, writing>>
  BY DEF StartCheck, StartAdmit, StartReject, LoopStep, LoopHead, PutResult, Close, FinishLook,
     Finish, Begin, Dispatch, Interrupt, Answer, WaitEnds
<1>3. Shutdown \in queue' <=> Shutdown \in queue
  <2>1. \/ queue' = queue
        \/ /\ StartAdmit(w) /\ w \in Persistent
           /\ queue' = queue \cup {<<w, 0>>}
        \/ /\ Begin(w) /\ w \in Persistent
           /\ queue' = queue \cup {<<w, at[w]>>}
    BY DEF StartCheck, StartAdmit, StartReject, LoopStep, LoopHead, PutResult, Close, FinishLook,
       Finish, Begin, Dispatch, Interrupt, Answer, WaitEnds
  <2>2. w \in Persistent => <<w, 0>> # Shutdown
    BY Steps, SaverSteps
  <2>3. Begin(w) /\ w \in Persistent => <<w, at[w]>> # Shutdown
    <3>1. Begin(w) => at[w] \in 0..Len(Plan[w])
      BY <1>t, Steps DEF Begin, TaskOf, InStep, StepsOf
    <3> QED
      BY <3>1, SaverSteps
  <2> QED
    BY <2>1, <2>2, <2>3
<1>4. down # "up" => \A v \in Flows : phase'[v] \notin {"checked", "rejected"}
  <2> SUFFICES ASSUME down # "up", NEW v \in Flows
               PROVE  phase'[v] \notin {"checked", "rejected"}
    OBVIOUS
  <2>1. phase[w] \notin {"checked", "rejected"} /\ phase[v] \notin {"checked", "rejected"}
    BY DEF LastInv
  <2>2. phase'[w] \in Tasking \cup {"refused", "done"}
    BY <2>1, TaskKeepsRecord DEF StartCheck, StartAdmit, StartReject, LoopStep, Finish, TypeOK
  <2> QED
    BY <2>1, <2>2, OthersKept DEF Tasking, InStep
<1> QED
  BY <1>1, <1>2, <1>3, <1>4 DEF LastInv

LEMMA LastOfRest ==
    ASSUME TypeOK, TasksInv, LastInv,
           \/ \E w \in Flows : \E forget \in BOOLEAN : Cancel(w, forget)
           \/ \E c \in Conns : CloseConnection(c) \/ Sweep(c)
           \/ WorkerWakes
           \/ \E s \in Savers : SaveBegins(s) \/ RecordFailure(s) \/ MarkRunning(s)
           \/ \E ok \in BOOLEAN : SaveEnds(ok)
           \/ ShutdownBegin \/ ShutdownDrained \/ ShutdownFlush \/ HostRestart
    PROVE  LastInv'
<1> USE DEF taskVars, storeVars, connVars, saveVars, hostVars, history
<1>p. Persistent \subseteq Flows
  BY WorkflowAssumption
<1>1. CASE \E w \in Flows : \E forget \in BOOLEAN : Cancel(w, forget)
  <2>1. down = "up" /\ UNCHANGED <<phase, saveVars, hostVars>>
    BY <1>1 DEF Cancel
  <2> QED
    BY <2>1 DEF LastInv
<1>2. CASE \E c \in Conns : CloseConnection(c)
  <2>1. UNCHANGED <<phase, token, record, saveVars, hostVars>>
    BY <1>2 DEF CloseConnection
  <2> QED
    BY <2>1 DEF LastInv, Snapshot
<1>3. CASE \E c \in Conns : Sweep(c)
  <2>1. UNCHANGED <<phase, saveVars, hostVars>>
    BY <1>3 DEF Sweep
  <2>2. \A w \in Flows : token[w] = "none" => token'[w] = "none"
    BY <1>3 DEF Sweep, CancelTokens
  <2>3. Snapshot' = Snapshot
    BY <1>p, <1>3, SnapshotKept DEF Sweep
  <2> QED
    BY <2>1, <2>2, <2>3 DEF LastInv
<1>4. CASE WorkerWakes
  <2>1. UNCHANGED <<phase, token, record, writing, disk, hostVars>>
    BY <1>4 DEF WorkerWakes
  <2>2. Shutdown \in queue' <=> Shutdown \in queue
    BY <1>4, SaverFacts DEF WorkerWakes
  <2> QED
    BY <2>1, <2>2 DEF LastInv, Snapshot
<1>5. CASE \E s \in Savers : SaveBegins(s)
  <2>1. PICK s \in Savers : SaveBegins(s)
    BY <1>5
  <2>2. /\ writing' = [by |-> s, snap |-> Snapshot] /\ s \in queue /\ queue' = queue \ {s}
        /\ UNCHANGED <<phase, token, record, disk, hostVars>>
    BY <2>1 DEF SaveBegins
  <2>3. Snapshot' = Snapshot
    BY <2>2, SnapshotKept
  <2>4. writing'.by = s /\ writing'.snap = Snapshot'
    BY <2>2, <2>3
  <2> QED
    BY <2>2, <2>3, <2>4 DEF LastInv
<1>6. CASE \E s \in Savers : RecordFailure(s)
  <2>1. UNCHANGED <<phase, token, record, writing, disk, queue, hostVars>>
    BY <1>6 DEF RecordFailure
  <2> QED
    BY <2>1 DEF LastInv, Snapshot
<1>7. CASE \E s \in Savers : MarkRunning(s)
  <2>1. UNCHANGED <<phase, record, writing, disk, queue, hostVars>>
    BY <1>7 DEF MarkRunning
  <2>2. \A w \in Flows : token[w] = "none" => token'[w] = "none"
    BY <1>7 DEF MarkRunning, CancelTokens
  <2> QED
    BY <2>1, <2>2 DEF LastInv, Snapshot
<1>8. CASE \E ok \in BOOLEAN : SaveEnds(ok)
  <2>1. PICK ok \in BOOLEAN : SaveEnds(ok)
    BY <1>8
  <2>2. /\ writing # NoSave /\ writing' = NoSave /\ disk' = IF ok THEN writing.snap ELSE disk
        /\ down' = IF writing.by # Shutdown THEN down ELSE IF ok THEN "saved" ELSE "unsaved"
        /\ UNCHANGED <<token, record, queue, drained>>
    BY <2>1 DEF SaveEnds
  <2>3. Snapshot' = Snapshot
    BY <2>2, SnapshotKept
  <2>4. down # "up" => \A v \in Flows : phase'[v] \notin {"checked", "rejected"}
    BY <2>1 DEF LastInv, SaveEnds, Yields, TypeOK
  <2>5. CASE writing.by = Shutdown
    BY <2>2, <2>3, <2>4, <2>5 DEF LastInv
  <2>6. CASE writing.by # Shutdown
    BY <2>2, <2>3, <2>4, <2>6 DEF LastInv
  <2> QED
    BY <2>5, <2>6
<1>9. CASE ShutdownBegin
  <2>1. /\ down = "up" /\ down' = "draining" /\ UNCHANGED <<phase, saveVars, drained>>
        /\ \A v \in Flows : phase[v] \notin {"checked", "rejected"}
    BY <1>9 DEF ShutdownBegin
  <2> QED
    BY <2>1 DEF LastInv
<1>10. CASE ShutdownDrained
  <2>1. /\ down = "draining" /\ down' = "stopping" /\ drained' = (Active = {})
        /\ UNCHANGED <<phase, token, record, saveVars>>
    BY <1>10 DEF ShutdownDrained
  <2>2. drained' => \A w \in Flows : token'[w] = "none"
    BY <2>1 DEF Active
  <2> QED
    BY <2>1, <2>2 DEF LastInv
<1>11. CASE ShutdownFlush
  <2>1. /\ down = "stopping" /\ down' = "flushing" /\ queue' = queue \cup {Shutdown}
        /\ UNCHANGED <<phase, token, record, writing, disk, drained>>
    BY <1>11 DEF ShutdownFlush
  <2> QED
    BY <2>1 DEF LastInv, Snapshot
<1>12. CASE HostRestart
  BY <1>12 DEF HostRestart, LastInv
<1> QED
  BY <1>1, <1>2, <1>3, <1>4, <1>5, <1>6, <1>7, <1>8, <1>9, <1>10, <1>11, <1>12

----------------------------------------------------------------------------
(* The invariant, and what follows from it.                                *)

LEMMA InvInit == Init => Inv
<1> SUFFICES ASSUME Init PROVE Inv
  OBVIOUS
<1>1. TypeOK
  BY TypeInit
<1>2. TasksInv
  BY DEF Init, TasksInv, TaskOf, Tasking, InStep
<1>3. StepsInv
  BY DEF Init, StepsInv, StepOf
<1>4. SweptInv /\ ScopeEndsWithWorkflow
  BY DEF Init, SweptInv, ScopeEndsWithWorkflow
<1>5. FileInv /\ HonestInv
  BY WorkflowAssumption DEF Init, FileInv, FileOf, HonestInv, Honest, Earlier
<1>6. LastInv
  BY DEF Init, LastInv
<1> QED
  BY <1>1, <1>2, <1>3, <1>4, <1>5, <1>6 DEF Inv

LEMMA InvStutter == Inv /\ UNCHANGED vars => Inv'
<1> SUFFICES ASSUME Inv, UNCHANGED vars PROVE Inv'
  OBVIOUS
<1> USE DEF vars, taskVars, storeVars, connVars, saveVars, hostVars, history, Inv
<1>1. TypeOK'
  BY DEF TypeOK, IsSnapshot
<1>2. TasksInv'
  BY DEF TasksInv, TaskOf, HonestStep, IsAction, StepsOf
<1>3. StepsInv'
  BY DEF StepsInv, StepOf, StepsOf
<1>4. SweptInv' /\ ScopeEndsWithWorkflow'
  BY DEF SweptInv, ScopeEndsWithWorkflow
<1>5. FileInv'
  <2> SUFFICES ASSUME NEW w \in Persistent PROVE FileOf(w)'
    BY DEF FileInv
  <2>1. FileOf(w)
    BY DEF FileInv
  <2> QED BY <2>1 DEF FileOf, Earlier, Marked, StepsOf
<1>6. HonestInv'
  BY DEF HonestInv, Honest, HonestStep, StepsOf
<1>7. LastInv'
  BY DEF LastInv, Snapshot
<1> QED
  BY <1>1, <1>2, <1>3, <1>4, <1>5, <1>6, <1>7

LEMMA InvStep == Inv /\ [Next]_vars => Inv'
<1> SUFFICES ASSUME Inv, Next PROVE Inv'
  BY InvStutter
<1> USE DEF Inv
<1>1. CASE \E w \in Flows :
             \/ StartCheck(w) \/ StartAdmit(w) \/ StartReject(w) \/ LoopStep(w) \/ Begin(w)
             \/ Dispatch(w) \/ Interrupt(w) \/ Answer(w) \/ WaitEnds(w)
  <2>1. PICK w \in Flows :
             \/ StartCheck(w) \/ StartAdmit(w) \/ StartReject(w) \/ LoopStep(w) \/ Begin(w)
             \/ Dispatch(w) \/ Interrupt(w) \/ Answer(w) \/ WaitEnds(w)
    BY <1>1
  <2> QED
    BY <2>1, TypeTask, TasksOfTask, StepsOfTask, SweptOfTask, FileOfTask, HonestOfTask,
       ScopesOfTask, LastOfTask
<1>2. CASE \/ \E w \in Flows : \E forget \in BOOLEAN : Cancel(w, forget)
           \/ \E c \in Conns : CloseConnection(c) \/ Sweep(c)
           \/ WorkerWakes
           \/ \E s \in Savers : SaveBegins(s) \/ RecordFailure(s) \/ MarkRunning(s)
           \/ \E ok \in BOOLEAN : SaveEnds(ok)
           \/ ShutdownBegin \/ ShutdownDrained \/ ShutdownFlush \/ HostRestart
  BY <1>2, TypeRest, TasksOfRest, StepsOfRest, SweptOfRest, FileOfRest, HonestOfRest,
     ScopesOfRest, LastOfRest
<1> QED
  BY <1>1, <1>2 DEF Next

LEMMA InvAlways == Spec => []Inv
BY InvInit, InvStep, PTL DEF Spec

\* Every variable of the store, the tasks and the checkpoint has its type.
THEOREM WorkflowTyped == Spec => []TypeOK
<1>1. Inv => TypeOK
  BY DEF Inv
<1> QED
  BY <1>1, InvAlways, PTL

\* A tool of a persistent workflow is called only when the checkpoint file already says that
\* its step was begun, whatever flush comes late, fails or is dropped, and across restarts.
THEOREM DispatchIsAlwaysRecorded == Spec => []DispatchIsRecorded
<1>1. Inv => DispatchIsRecorded
  BY DEF Inv, FileInv, FileOf, Marked, DispatchIsRecorded
<1> QED
  BY <1>1, InvAlways, PTL

\* No record, in memory or as a host restores it from the file, claims to know what a tool
\* that did not answer has done, or that an unanswered action ended well.
THEOREM ReportsAreHonest == Spec => []HonestReport
<1>1. Inv => HonestReport
  BY DEF Inv, HonestInv, Honest, HonestReport
<1> QED
  BY <1>1, InvAlways, PTL

\* A workflow's record is final only once its connection scope is closed.
THEOREM ScopesEndFirst == Spec => []ScopeEndsWithWorkflow
<1>1. Inv => ScopeEndsWithWorkflow
  BY DEF Inv
<1> QED
  BY <1>1, InvAlways, PTL

\* Running tasks have their records and tokens, and a swept connection leaves none behind.
THEOREM RecordsAlwaysFollowTasks == Spec => []RecordsFollowTasks
<1>1. Inv => RecordsFollowTasks
  BY DEF Inv, TasksInv, TaskOf, SweptInv, RecordsFollowTasks
<1> QED
  BY <1>1, InvAlways, PTL

\* A drained shutdown leaves in the file what the host knew, and nothing running.
THEOREM ShutdownIsClean == Spec => []CleanShutdown
<1>1. Inv => CleanShutdown
  <2> SUFFICES ASSUME Inv, down = "saved", drained
               PROVE  /\ disk = [w \in Persistent |-> record[w]]
                      /\ \A w \in Persistent : disk[w] # NoRecord => disk[w].outcome # "running"
    BY DEF CleanShutdown
  <2>1. disk = Snapshot /\ \A w \in Flows : token[w] = "none"
    BY DEF Inv, LastInv
  <2>2. \A w \in Persistent : w \in Flows /\ TaskOf(w) /\ disk[w] = record[w]
    BY <2>1, WorkflowAssumption DEF Inv, TasksInv, Snapshot
  <2> QED
    BY <2>1, <2>2 DEF TaskOf, Snapshot
<1> QED
  BY <1>1, InvAlways, PTL

=============================================================================
