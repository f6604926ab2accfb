---------------------------- MODULE CallsProofs -----------------------------
(***************************************************************************)
(* Theorems of NativeRuntime and of TerminalInput, for every set of calls  *)
(* and writes, every size and every limit.  In the runtime the inductive   *)
(* invariant says who holds which permit: a closure that is queued or at   *)
(* work holds its own, whatever became of its caller.  In the input it     *)
(* says where a request is: with its caller, in the channel once, or in    *)
(* the hands of the writer, and only there are its bytes counted.          *)
(***************************************************************************)
EXTENDS MCCalls, Sequences, FiniteSetTheorems, TLAPS

----------------------------------------------------------------------------
(* The inductive invariant.                                                *)

\* A closure that ended left a result: its caller never takes an empty one.
ResultInv == \A o \in Calls : task[o] = "ended" => result[o] # "none"

\* There is no closure before its call has both permits.
CallerInv ==
    \A o \in Calls :
        caller[o] \in {"idle", "wants_desktop", "wants_capacity"} => task[o] = "none"

Owns(o) == task[o] = "queued" \/ Executing(o)

\* The one desktop permit is with a call that waits for capacity or with its closure.
DesktopInv ==
    /\ \A o, p \in desktop : o = p
    /\ \A o \in Interactive :
          Owns(o) \/ caller[o] = "wants_capacity" => o \in desktop

\* The capacity permits are exactly the closures'.
CapacityInv ==
    /\ \A o \in Calls : o \in capacity <=> Owns(o)
    /\ Cardinality(capacity) <= Capacity

\* Past its check, a sleeper holds the lock that cancel needs, or waits to be notified.
WakeInv == \A o \in Calls : task[o] \in {"dozing", "asleep"} => ~cancelled[o]

Inv == TypeOK /\ ResultInv /\ CallerInv /\ DesktopInv /\ CapacityInv /\ WakeInv

----------------------------------------------------------------------------
(* Each part is preserved.                                                 *)

\* The permits are finitely many, so that they can be counted.
LEMMA CapacityIsFinite ==
    ASSUME capacity \subseteq Calls
    PROVE  IsFiniteSet(capacity) /\ Cardinality(capacity) \in Nat
BY RuntimeAssumption, FS_Subset, FS_CardinalityType DEF RuntimeAssumption

\* The initial state.
LEMMA InitInv == Init => Inv
<1> SUFFICES ASSUME Init PROVE Inv
  OBVIOUS
<1>1. TypeOK /\ ResultInv /\ CallerInv /\ WakeInv
  BY DEF Init, TypeOK, CallerStates, TaskStates, ResultInv, CallerInv, WakeInv
<1>2. DesktopInv
  BY RuntimeAssumption DEF Init, DesktopInv, Owns, Executing, RuntimeAssumption
<1>3. CapacityInv
  BY FS_EmptySet, RuntimeAssumption DEF Init, CapacityInv, Owns, Executing,
    RuntimeAssumption
<1> QED BY <1>1, <1>2, <1>3 DEF Inv

\* Every step keeps the types and the results.
LEMMA TypeStep ==
    ASSUME TypeOK, ResultInv, [Next]_vars
    PROVE  TypeOK' /\ ResultInv'
<1>1. CASE UNCHANGED vars
  BY <1>1 DEF vars, TypeOK, ResultInv
<1>2. ASSUME NEW o \in Calls, CallerStep(o)
      PROVE  TypeOK' /\ ResultInv'
  <2>1. CASE Call(o) \/ AcquireDesktop(o) \/ AcquireCapacity(o) \/ GiveUpWaiting(o)
    BY <2>1 DEF TypeOK, CallerStates, TaskStates, ResultInv, Call, AcquireDesktop,
      AcquireCapacity, GiveUpWaiting
  <2>2. CASE Return(o)
    <3>1. result[o] \in CallerStates
      BY <2>2 DEF TypeOK, ResultInv, Return, CallerStates
    <3> QED BY <2>2, <3>1 DEF TypeOK, ResultInv, Return
  <2>3. CASE DropOnDeadline(o) \/ DropByClient(o) \/ CancelContext(o) \/ AbortTask(o)
    BY <2>3 DEF TypeOK, CallerStates, TaskStates, ResultInv, DropOnDeadline, DropByClient,
      CancelContext, AbortTask
  <2> QED BY <1>2, <2>1, <2>2, <2>3 DEF CallerStep
<1>3. ASSUME NEW o \in Calls, TaskStep(o)
      PROVE  TypeOK' /\ ResultInv'
  BY <1>3 DEF TypeOK, TaskStates, ResultInv, TaskStep, TaskStarts, WorkBegins, WorkEnds,
    SleepLock, SleepCheck, SleepWait, SleepTimeout, Ends
<1>4. ASSUME NEW o \in Calls, Expire(o)
      PROVE  TypeOK' /\ ResultInv'
  BY <1>4 DEF TypeOK, ResultInv, Expire
<1> QED BY <1>1, <1>2, <1>3, <1>4 DEF Next

\* Only AcquireCapacity makes a closure, and it ends the caller's wait for permits.
LEMMA CallerStepInv ==
    ASSUME TypeOK, CallerInv, [Next]_vars
    PROVE  CallerInv'
<1>1. CASE UNCHANGED vars
  BY <1>1 DEF vars, CallerInv
<1>2. ASSUME NEW o \in Calls, CallerStep(o)
      PROVE  CallerInv'
  <2>1. CASE Return(o)
    BY <2>1 DEF TypeOK, CallerInv, Return
  <2> QED
    BY <1>2, <2>1 DEF TypeOK, CallerInv, CallerStep, Call, AcquireDesktop, AcquireCapacity,
      GiveUpWaiting, DropOnDeadline, DropByClient, CancelContext, AbortTask
<1>3. ASSUME NEW o \in Calls, TaskStep(o)
      PROVE  CallerInv'
  BY <1>3 DEF TypeOK, CallerInv, TaskStep, TaskStarts, WorkBegins, WorkEnds, SleepLock,
    SleepCheck, SleepWait, SleepTimeout, Ends
<1>4. ASSUME NEW o \in Calls, Expire(o)
      PROVE  CallerInv'
  BY <1>4 DEF CallerInv, Expire
<1> QED BY <1>1, <1>2, <1>3, <1>4 DEF Next

\* The desktop permit changes hands only when it is free.
LEMMA DesktopStepInv ==
    ASSUME TypeOK, CallerInv, DesktopInv, [Next]_vars
    PROVE  DesktopInv'
<1> USE RuntimeAssumption DEF RuntimeAssumption
<1>1. CASE UNCHANGED vars
  BY <1>1 DEF vars, DesktopInv, Owns, Executing
<1>2. ASSUME NEW o \in Calls, CallerStep(o)
      PROVE  DesktopInv'
  <2>1. CASE Call(o) \/ AcquireDesktop(o) \/ AcquireCapacity(o) \/ GiveUpWaiting(o)
    BY <2>1 DEF TypeOK, CallerInv, DesktopInv, Owns, Executing, Call, AcquireDesktop,
      AcquireCapacity, GiveUpWaiting
  <2>2. CASE Return(o)
    BY <2>2 DEF TypeOK, DesktopInv, Owns, Executing, Return
  <2>3. CASE DropOnDeadline(o) \/ DropByClient(o) \/ CancelContext(o)
    BY <2>3 DEF TypeOK, DesktopInv, Owns, Executing, DropOnDeadline, DropByClient,
      CancelContext
  <2>4. CASE AbortTask(o)
    BY <2>4 DEF TypeOK, DesktopInv, Owns, Executing, AbortTask
  <2> QED BY <1>2, <2>1, <2>2, <2>3, <2>4 DEF CallerStep
<1>3. ASSUME NEW o \in Calls, TaskStep(o)
      PROVE  DesktopInv'
  BY <1>3 DEF TypeOK, CallerInv, DesktopInv, Owns, Executing, TaskStep, TaskStarts,
    WorkBegins, WorkEnds, SleepLock, SleepCheck, SleepWait, SleepTimeout, Ends
<1>4. ASSUME NEW o \in Calls, Expire(o)
      PROVE  DesktopInv'
  BY <1>4 DEF DesktopInv, Owns, Executing, Expire
<1> QED BY <1>1, <1>2, <1>3, <1>4 DEF Next

\* A capacity permit is taken with the closure and dropped with it.
LEMMA CapacityStepInv ==
    ASSUME TypeOK, CallerInv, CapacityInv, [Next]_vars
    PROVE  CapacityInv'
<1> DEFINE Exact == \A o \in Calls : o \in capacity <=> Owns(o)
           Few == Cardinality(capacity) <= Capacity
<1>a. IsFiniteSet(capacity) /\ Cardinality(capacity) \in Nat /\ Capacity \in Nat
  BY CapacityIsFinite, RuntimeAssumption DEF TypeOK, RuntimeAssumption
<1>b. ASSUME NEW o \in Calls, capacity' \in {capacity, capacity \ {o}}
      PROVE  Few'
  <2>1. Cardinality(capacity) <= Capacity
    BY DEF CapacityInv
  <2>2. Cardinality(capacity \ {o}) <= Capacity
    <3>1. Cardinality(capacity \ {o}) \in {Cardinality(capacity), Cardinality(capacity) - 1}
      BY <1>a, FS_RemoveElement
    <3> QED BY <1>a, <2>1, <3>1
  <2>3. Cardinality(capacity') <= Capacity
    BY <1>b, <2>1, <2>2
  <2> QED BY <2>3
<1>1. CASE UNCHANGED vars
  BY <1>1 DEF vars, CapacityInv, Owns, Executing
<1>2. ASSUME NEW o \in Calls, CallerStep(o)
      PROVE  CapacityInv'
  <2>1. CASE AcquireCapacity(o)
    <3>1. Exact'
      BY <2>1 DEF TypeOK, CapacityInv, AcquireCapacity, Owns, Executing
    <3>2. Few'
      <4>1. capacity' = capacity \cup {o} /\ Cardinality(capacity) < Capacity
        BY <2>1 DEF AcquireCapacity
      <4>2. Cardinality(capacity \cup {o}) <= Capacity
        BY <1>a, <4>1, FS_AddElement
      <4> QED BY <4>1, <4>2
    <3> QED BY <3>1, <3>2 DEF CapacityInv
  <2>2. CASE AbortTask(o)
    <3>1. Exact'
      BY <2>2 DEF TypeOK, CapacityInv, AbortTask, Owns, Executing
    <3>2. Few'
      BY <2>2, <1>b DEF AbortTask
    <3> QED BY <3>1, <3>2 DEF CapacityInv
  <2>3. CASE Call(o) \/ AcquireDesktop(o) \/ GiveUpWaiting(o) \/ Return(o)
             \/ DropOnDeadline(o) \/ DropByClient(o) \/ CancelContext(o)
    BY <2>3 DEF TypeOK, CapacityInv, Owns, Executing, Call, AcquireDesktop, GiveUpWaiting,
      Return, DropOnDeadline, DropByClient, CancelContext
  <2> QED BY <1>2, <2>1, <2>2, <2>3 DEF CallerStep
<1>3. ASSUME NEW o \in Calls, TaskStep(o)
      PROVE  CapacityInv'
  <2>1. Exact'
    BY <1>3 DEF TypeOK, CapacityInv, Owns, Executing, TaskStep, TaskStarts, WorkBegins,
      WorkEnds, SleepLock, SleepCheck, SleepWait, SleepTimeout, Ends
  <2>2. capacity' \in {capacity, capacity \ {o}}
    BY <1>3 DEF TaskStep, TaskStarts, WorkBegins, WorkEnds, SleepLock, SleepCheck,
      SleepWait, SleepTimeout, Ends
  <2>3. Few'
    BY <2>2, <1>b
  <2> QED BY <2>1, <2>3 DEF CapacityInv
<1>4. ASSUME NEW o \in Calls, Expire(o)
      PROVE  CapacityInv'
  BY <1>4 DEF CapacityInv, Owns, Executing, Expire
<1> QED BY <1>1, <1>2, <1>3, <1>4 DEF Next

\* cancel waits for the sleeping lock, and wakes the sleeper it finds.
LEMMA WakeStepInv ==
    ASSUME TypeOK, WakeInv, [Next]_vars
    PROVE  WakeInv'
<1>1. CASE UNCHANGED vars
  BY <1>1 DEF vars, WakeInv
<1>2. ASSUME NEW o \in Calls, CallerStep(o)
      PROVE  WakeInv'
  BY <1>2 DEF TypeOK, WakeInv, CallerStep, Call, AcquireDesktop, AcquireCapacity,
    GiveUpWaiting, Return, DropOnDeadline, DropByClient, CancelContext, AbortTask
<1>3. ASSUME NEW o \in Calls, TaskStep(o)
      PROVE  WakeInv'
  BY <1>3 DEF TypeOK, WakeInv, TaskStep, TaskStarts, WorkBegins, WorkEnds, SleepLock,
    SleepCheck, SleepWait, SleepTimeout, Ends, Interrupted
<1>4. ASSUME NEW o \in Calls, Expire(o)
      PROVE  WakeInv'
  BY <1>4 DEF WakeInv, Expire
<1> QED BY <1>1, <1>2, <1>3, <1>4 DEF Next

\* The invariant holds in every reachable state.
LEMMA Invariant == Spec => []Inv
<1>1. Inv /\ [Next]_vars => Inv'
  BY TypeStep, CallerStepInv, DesktopStepInv, CapacityStepInv, WakeStepInv DEF Inv
<1> QED BY InitInv, <1>1, PTL DEF Spec

----------------------------------------------------------------------------
(* What the permits promise.                                               *)

\* Two interactive closures never work at the same time: the desktop permit stays with the
\* closure when its caller gives up (Running::drop).
THEOREM DesktopIsExclusive == Spec => []DesktopExclusive
<1>1. Inv => DesktopExclusive
  BY DEF Inv, DesktopInv, DesktopExclusive, Owns
<1> QED BY Invariant, <1>1, PTL

\* The closures at work, abandoned ones included, never exceed the configured concurrency.
THEOREM CapacityIsBounded == Spec => []CapacityBound
<1>1. ASSUME Inv
      PROVE  CapacityBound
  <2> DEFINE W == {o \in Calls : Executing(o)}
  <2>1. W \subseteq capacity
    BY <1>1 DEF Inv, CapacityInv, Owns
  <2>2. IsFiniteSet(capacity) /\ Cardinality(capacity) \in Nat
    BY <1>1, CapacityIsFinite DEF Inv, TypeOK
  <2>3. Cardinality(W) \in Nat /\ Cardinality(W) <= Cardinality(capacity)
    BY <2>1, <2>2, FS_Subset, FS_CardinalityType
  <2>4. Cardinality(capacity) <= Capacity /\ Capacity \in Nat
    BY <1>1, RuntimeAssumption DEF Inv, CapacityInv, RuntimeAssumption
  <2>5. Cardinality(W) <= Capacity
    BY <2>2, <2>3, <2>4
  <2> QED BY <2>5 DEF CapacityBound
<1> QED BY Invariant, <1>1, PTL

\* An interactive call holds capacity only while it is the one that has the desktop.
THEOREM WaitersAreCheap == Spec => []WaitersHoldNoCapacity
<1>1. ASSUME Inv
      PROVE  WaitersHoldNoCapacity
  <2> SUFFICES ASSUME NEW o \in Interactive, o \in capacity
               PROVE  desktop = {o}
    BY DEF WaitersHoldNoCapacity
  <2>1. o \in desktop
    BY <1>1, RuntimeAssumption DEF Inv, CapacityInv, DesktopInv, RuntimeAssumption
  <2> QED BY <1>1, <2>1 DEF Inv, DesktopInv
<1> QED BY Invariant, <1>1, PTL

\* The three promises of the permits together.
THEOREM PermitsHold == Spec => []PermitsAreSound
BY DesktopIsExclusive, CapacityIsBounded, WaitersAreCheap, PTL DEF PermitsAreSound

\* The lock that cancel takes closes the window between a sleeper's check and its wait.
THEOREM WakeupsAreKept == Spec => []NoLostWakeup
<1>1. Inv => NoLostWakeup
  BY DEF Inv, WakeInv, NoLostWakeup
<1> QED BY Invariant, <1>1, PTL

\* Type correctness, for every value of the constants.
THEOREM RuntimeTyped == Spec => []TypeOK
<1>1. Inv => TypeOK
  BY DEF Inv
<1> QED BY Invariant, <1>1, PTL

----------------------------------------------------------------------------
(* The input of a terminal: counting bytes.                                *)

BytesOf(S) == UNION {Input!Bytes(w) : w \in S}
CountedNow == {w \in Writes : Input!Counted(w)}

LEMMA SizesAre ==
    /\ Size \in [Writes -> Nat \ {0}] /\ QueueMax \in Nat /\ MaxPending \in Nat
    /\ NoWrite \notin Writes
BY TypistAssumption DEF Input!InputAssumption

LEMMA SameCount ==
    /\ \A S : Input!Cardinality(S) = Cardinality(S)
    /\ \A S : Input!IsFiniteSet(S) = IsFiniteSet(S)
BY DEF Input!Cardinality, Cardinality, Input!IsFiniteSet, IsFiniteSet

LEMMA WritesAreFinite == IsFiniteSet(Writes)
BY TypistAssumption, SameCount DEF Input!InputAssumption

\* The bytes of one request are as many as its size.
LEMMA BytesOfOne ==
    ASSUME NEW w \in Writes
    PROVE  IsFiniteSet(Input!Bytes(w)) /\ Cardinality(Input!Bytes(w)) = Size[w]
<1>1. IsFiniteSet({w}) /\ Cardinality({w}) = 1
  BY FS_Singleton
<1>2. Size[w] \in Nat
  BY SizesAre
<1>3. IsFiniteSet(1..Size[w]) /\ Cardinality(1..Size[w]) = Size[w]
  BY <1>2, FS_Interval
<1>4. /\ IsFiniteSet({w} \X (1..Size[w]))
      /\ Cardinality({w} \X (1..Size[w])) = Cardinality({w}) * Cardinality(1..Size[w])
  BY <1>1, <1>3, FS_Product
<1>5. Cardinality({w} \X (1..Size[w])) = Size[w]
  BY <1>1, <1>2, <1>3, <1>4
<1> QED BY <1>4, <1>5 DEF Input!Bytes

\* The bytes of several requests can be counted.
LEMMA BytesAreFinite ==
    ASSUME NEW S \in SUBSET Writes
    PROVE  IsFiniteSet(BytesOf(S)) /\ Cardinality(BytesOf(S)) \in Nat
<1> DEFINE T == {Input!Bytes(w) : w \in S}
           f == [w \in S |-> Input!Bytes(w)]
<1>1. IsFiniteSet(S)
  BY WritesAreFinite, FS_Subset
<1>2. f \in Surjection(S, T)
  BY DEF Surjection
<1>3. IsFiniteSet(T)
  <2> HIDE DEF f, T
  <2> QED BY <1>1, <1>2, FS_Surjection
<1>4. \A U \in T : IsFiniteSet(U)
  BY BytesOfOne
<1>5. IsFiniteSet(UNION T)
  <2> HIDE DEF T
  <2> QED BY <1>3, <1>4, FS_UNION
<1> QED BY <1>5, FS_CardinalityType DEF BytesOf

\* One more request.
LEMMA BytesOfOneMore ==
    ASSUME NEW S \in SUBSET Writes, NEW w \in Writes \ S
    PROVE  Cardinality(BytesOf(S \cup {w})) = Cardinality(BytesOf(S)) + Size[w]
<1>1. BytesOf(S \cup {w}) = BytesOf(S) \cup Input!Bytes(w)
  BY DEF BytesOf
<1>2. BytesOf(S) \cap Input!Bytes(w) = {}
  BY DEF BytesOf, Input!Bytes
<1>3. IsFiniteSet(BytesOf(S)) /\ Cardinality(BytesOf(S)) \in Nat
  BY BytesAreFinite
<1>4. IsFiniteSet(Input!Bytes(w)) /\ Cardinality(Input!Bytes(w)) = Size[w] /\ Size[w] \in Nat
  BY BytesOfOne, SizesAre
<1>5. Cardinality(BytesOf(S) \cup Input!Bytes(w)) =
        Cardinality(BytesOf(S)) + Cardinality(Input!Bytes(w))
          - Cardinality(BytesOf(S) \cap Input!Bytes(w))
  BY <1>3, <1>4, FS_Union
<1>6. Cardinality(BytesOf(S) \cap Input!Bytes(w)) = 0
  <2>1. Cardinality({}) = 0
    BY FS_EmptySet
  <2> QED BY <1>2, <2>1
<1> DEFINE x == Cardinality(BytesOf(S))
           y == Size[w]
<1>7. x \in Nat /\ y \in Nat
  BY <1>3, <1>4
<1>8. Cardinality(BytesOf(S \cup {w})) = x + y - 0
  BY <1>1, <1>4, <1>5, <1>6
<1>9. x + y - 0 = x + y
  <2> HIDE DEF x, y
  <2> QED BY <1>7
<1> QED BY <1>8, <1>9

----------------------------------------------------------------------------
(* The inductive invariant.                                                *)

Queued(w) == \E i \in 1..Len(queue) : queue[i] = w

\* Where a request is: in the channel once, or in the hands of the writer.
Once == \A i, j \in 1..Len(queue) : queue[i] = queue[j] => i = j

Fresh(w) == delivered[w] = 0 /\ written[w] = 0 /\ current # w

PlaceInv ==
    /\ Once
    /\ \A w \in Writes : Queued(w) => Fresh(w)
    /\ \A w \in Writes : typist[w] \in {"idle", "counted"} =>
          Fresh(w) /\ ~Queued(w) /\ report[w].outcome = "none"

\* The request the threads see is the writer's own.
ActiveInv ==
    /\ current = NoWrite <=> writer \in {"receiving", "stopped"}
    /\ active = IF writer \in {"deciding", "submitting", "in_write", "finished"}
                  THEN current ELSE NoWrite

\* What was confirmed was delivered, and until a write fails nothing else was.
WriteInv ==
    /\ \A w \in Writes : written[w] <= delivered[w] /\ delivered[w] <= Size[w]
    /\ current # NoWrite /\ ~failed.uncertain => written[current] = delivered[current]
    /\ writer \in {"deciding", "submitting", "in_write"} =>
          failed = Input!NoFailure
    /\ writer \in {"submitting", "in_write"} => written[current] < Size[current]
    /\ current # NoWrite /\ failed.uncertain => written[current] < Size[current]

\* What was answered is final; what was said by a caller that gave up is uncertain.
AnswerInv ==
    \A w \in Writes :
        /\ report[w].outcome = "gave_up" => report[w].uncertain
        /\ report[w].outcome \in {"failed", "written", "canceled"} =>
              ~Queued(w) /\ current # w

TypistInv ==
    /\ Input!TypeOK /\ PlaceInv /\ ActiveInv /\ WriteInv /\ AnswerInv
    /\ Input!BudgetIsExact /\ Input!OnlyOwnWriteIsAborted /\ Input!ReportIsTrue


LEMMA InitTypist == Input!Init => TypistInv
<1> SUFFICES ASSUME Input!Init PROVE TypistInv
  OBVIOUS
<1>1. Input!TypeOK
  <2>1. report \in [Writes -> [outcome : {"none", "gave_up", "failed", "written", "canceled"},
                              bytes : Nat, uncertain : BOOLEAN]]
    BY DEF Input!Init, Input!NoReport
  <2>2. queue \in Seq(Writes)
    BY DEF Input!Init
  <2> QED BY <2>1, <2>2, SizesAre DEF Input!Init, Input!TypeOK, Input!NoFailure
<1>2. \A w \in Writes : ~Queued(w) /\ current # w
  BY SizesAre DEF Input!Init, Queued
<1>3. PlaceInv
  BY <1>2 DEF PlaceInv, Once, Fresh, Input!Init, Input!NoReport
<1>4. ActiveInv /\ AnswerInv /\ Input!OnlyOwnWriteIsAborted /\ Input!ReportIsTrue
  BY DEF Input!Init, ActiveInv, AnswerInv, Input!OnlyOwnWriteIsAborted, Input!ReportIsTrue,
    Input!NoReport
<1>5. WriteInv
  BY SizesAre DEF Input!Init, WriteInv, Input!NoFailure
<1>6. Input!BudgetIsExact
  <2>1. {w \in Writes : Input!Counted(w)} = {}
    BY <1>2 DEF Input!Init, Input!Counted
  <2>2. UNION {Input!Bytes(w) : w \in {w \in Writes : Input!Counted(w)}} = {}
    BY <2>1
  <2>3. Cardinality({}) = 0
    BY FS_EmptySet
  <2>4. Input!Cardinality(UNION {Input!Bytes(w) : w \in {w \in Writes : Input!Counted(w)}}) = 0
    BY <2>2, <2>3, SameCount
  <2> QED BY <2>4, SizesAre DEF Input!BudgetIsExact, Input!Init
<1> QED BY <1>1, <1>3, <1>4, <1>5, <1>6 DEF TypistInv

TypistSteps == [Input!Next]_(Input!vars)

\* What WriteFile does to the counters.
Wrote(n, m) ==
    /\ current \in Writes /\ n \in Nat /\ m \in Nat /\ n <= m
    /\ written[current] + m <= Size[current]
    /\ written' = [written EXCEPT ![current] = @ + n]
    /\ delivered' = [delivered EXCEPT ![current] = @ + m]
    /\ UNCHANGED <<typist, report, queue, pending, active, current>>
    /\ writer = "in_write" /\ ~failed.uncertain

LEMMA WroteIs ==
    ASSUME TypistInv
    PROVE  /\ Input!WriteSucceeds => \E n \in Nat : Wrote(n, n)
           /\ Input!WriteFails \/ Input!WriteAborted => \E m \in Nat : Wrote(0, m)
<1>0. /\ Input!TypeOK /\ ActiveInv /\ WriteInv
  BY DEF TypistInv
<1>1. ASSUME writer = "in_write"
      PROVE  /\ current \in Writes /\ written[current] \in Nat /\ Size[current] \in Nat
             /\ written[current] < Size[current] /\ ~failed.uncertain
  BY <1>0, <1>1, SizesAre DEF Input!TypeOK, ActiveInv, WriteInv, Input!NoFailure
<1>2. ASSUME Input!WriteSucceeds
      PROVE  \E n \in Nat : Wrote(n, n)
  <2>1. PICK count \in 1..(Size[current] - written[current]) :
           /\ written' = [written EXCEPT ![current] = @ + count]
           /\ delivered' = [delivered EXCEPT ![current] = @ + count]
    BY <1>2 DEF Input!WriteSucceeds
  <2>2. count \in Nat /\ written[current] + count <= Size[current]
    BY <1>1, <1>2 DEF Input!WriteSucceeds
  <2>3. /\ writer = "in_write"
        /\ UNCHANGED <<typist, report, queue, pending, active, current>>
    BY <1>2 DEF Input!WriteSucceeds, Input!callers
  <2>4. Wrote(count, count)
    BY <1>1, <2>1, <2>2, <2>3 DEF Wrote
  <2> QED BY <2>2, <2>4
<1>3. ASSUME Input!WriteFails \/ Input!WriteAborted
      PROVE  \E m \in Nat : Wrote(0, m)
  <2>0. writer = "in_write"
    BY <1>3 DEF Input!WriteFails, Input!WriteAborted
  <2>1. PICK count \in 0..(Size[current] - written[current]) :
           delivered' = [delivered EXCEPT ![current] = @ + count]
    BY <1>3 DEF Input!WriteFails, Input!WriteAborted, Input!Undelivered
  <2>2. count \in Nat /\ written[current] + count <= Size[current]
    BY <1>1, <2>0
  <2>3. written' = [written EXCEPT ![current] = @ + 0]
    BY <1>0, <1>1, <1>3, <2>0 DEF Input!WriteFails, Input!WriteAborted, Input!TypeOK
  <2>4. UNCHANGED <<typist, report, queue, pending, active, current>>
    BY <1>3 DEF Input!WriteFails, Input!WriteAborted, Input!callers
  <2>5. Wrote(0, count)
    BY <1>1, <2>0, <2>1, <2>2, <2>3, <2>4 DEF Wrote
  <2> QED BY <2>2, <2>5
<1> QED BY <1>2, <1>3

\* The channel.
LEMMA AppendIs ==
    ASSUME queue \in Seq(Writes), Once, NEW w \in Writes, ~Queued(w), queue' = Append(queue, w)
    PROVE  Once' /\ \A u \in Writes : Queued(u)' <=> Queued(u) \/ u = w
<1>1. /\ Len(queue') = Len(queue) + 1 /\ Len(queue) \in Nat
      /\ \A i \in 1..Len(queue) : queue'[i] = queue[i]
      /\ queue'[Len(queue) + 1] = w
  OBVIOUS
<1>2. Once'
  BY <1>1 DEF Once, Queued
<1>3. ASSUME NEW u \in Writes
      PROVE  Queued(u)' <=> Queued(u) \/ u = w
  BY <1>1 DEF Queued
<1> QED BY <1>2, <1>3

LEMMA TailIs ==
    ASSUME queue \in Seq(Writes), Once, queue # <<>>, queue' = Tail(queue)
    PROVE  /\ Once' /\ Head(queue) \in Writes /\ Queued(Head(queue))
           /\ \A u \in Writes : Queued(u)' <=> Queued(u) /\ u # Head(queue)
<1>1. /\ Len(queue) \in Nat /\ Len(queue) > 0 /\ Len(queue') = Len(queue) - 1
      /\ \A i \in 1..Len(queue') : queue'[i] = queue[i + 1]
      /\ Head(queue) = queue[1] /\ Head(queue) \in Writes
  OBVIOUS
<1>2. Once'
  BY <1>1 DEF Once
<1>3. ASSUME NEW u \in Writes, Queued(u)'
      PROVE  Queued(u) /\ u # Head(queue)
  <2>1. PICK i \in 1..Len(queue') : queue'[i] = u
    BY <1>3 DEF Queued
  <2>2. i + 1 \in 1..Len(queue) /\ queue[i + 1] = u /\ 1 \in 1..Len(queue) /\ i + 1 # 1
    BY <1>1, <2>1
  <2> QED BY <1>1, <2>2 DEF Queued, Once
<1>4. ASSUME NEW u \in Writes, Queued(u), u # Head(queue)
      PROVE  Queued(u)'
  <2>1. PICK i \in 1..Len(queue) : queue[i] = u
    BY <1>4 DEF Queued
  <2>2. i - 1 \in 1..Len(queue') /\ queue'[i - 1] = u
    BY <1>1, <1>4, <2>1
  <2> QED BY <2>2 DEF Queued
<1>5. Queued(Head(queue))
  BY <1>1 DEF Queued
<1> QED BY <1>1, <1>2, <1>3, <1>4, <1>5

LEMMA SameQueue ==
    ASSUME queue' = queue
    PROVE  Once' = Once /\ \A u : Queued(u)' = Queued(u)
BY DEF Once, Queued

\* The bytes of a counted request are part of what is pending.
LEMMA GivenBack ==
    ASSUME TypistInv, NEW w \in Writes, Input!Counted(w)
    PROVE  /\ pending - Size[w] \in Nat
           /\ pending - Size[w] = Cardinality(BytesOf(CountedNow \ {w}))
<1> DEFINE S == CountedNow \ {w}
<1>1. S \in SUBSET Writes /\ w \in Writes \ S /\ CountedNow = S \cup {w}
  BY DEF CountedNow
<1>2. Cardinality(BytesOf(S)) \in Nat /\ Size[w] \in Nat
  BY <1>1, BytesAreFinite, SizesAre
<1>3. Cardinality(BytesOf(CountedNow)) = Cardinality(BytesOf(S)) + Size[w]
  BY <1>1, BytesOfOneMore
<1>4. pending = Cardinality(BytesOf(CountedNow))
  BY SameCount DEF TypistInv, Input!BudgetIsExact, BytesOf, CountedNow
<1> QED
  <2> DEFINE x == Cardinality(BytesOf(S))
             y == Size[w]
  <2>1. x \in Nat /\ y \in Nat /\ pending = x + y
    BY <1>2, <1>3, <1>4
  <2>2. pending - y = x
    <3> HIDE DEF x, y
    <3> QED BY <2>1
  <2> QED BY <2>1, <2>2

\* What the writer tells a caller that still waits.
AnswerEffect ==
    /\ current \in Writes /\ ~Queued(current) /\ current' = NoWrite /\ queue' = queue
    /\ report' \in [Writes -> [outcome : {"none", "gave_up", "failed", "written", "canceled"},
                               bytes : Nat, uncertain : BOOLEAN]]
    /\ typist' \in [Writes -> {"idle", "counted", "waiting", "answered", "leaving", "done"}]
    /\ \A u \in Writes : u # current => report'[u] = report[u]
    /\ UNCHANGED <<written, delivered>>
    /\ Input!Outcome \in {"failed", "written", "canceled"}
    /\ \/ report'[current] = report[current]
       \/ /\ report'[current].outcome = Input!Outcome
          /\ report'[current].bytes = written[current]
          /\ report'[current].uncertain = failed.uncertain

LEMMA AnswerIs ==
    ASSUME Input!TypeOK, PlaceInv, ActiveInv, Input!Answer
    PROVE  AnswerEffect
<1> USE SizesAre DEF Input!TypeOK
<1>1. /\ current \in Writes /\ ~Queued(current) /\ current' = NoWrite /\ queue' = queue
      /\ UNCHANGED <<written, delivered>>
  BY DEF Input!Answer, Input!requests, ActiveInv, PlaceInv, Fresh
<1>2. Input!Outcome \in {"failed", "written", "canceled"}
  BY DEF Input!Outcome
<1>3. written[current] \in Nat /\ failed.uncertain \in BOOLEAN
  BY <1>1
<1> DEFINE told == [outcome |-> Input!Outcome, bytes |-> written[current],
                    uncertain |-> failed.uncertain]
<1>4. told \in [outcome : {"none", "gave_up", "failed", "written", "canceled"},
                bytes : Nat, uncertain : BOOLEAN]
  BY <1>2, <1>3
<1>5. /\ told.outcome = Input!Outcome /\ told.bytes = written[current]
      /\ told.uncertain = failed.uncertain
  OBVIOUS
<1>6. \/ UNCHANGED <<typist, report>>
      \/ /\ report' = [report EXCEPT ![current] = told]
         /\ typist' = [typist EXCEPT ![current] = "answered"]
  BY DEF Input!Answer, Input!callers
<1> HIDE DEF told
<1>7. CASE UNCHANGED <<typist, report>>
  BY <1>1, <1>2, <1>7 DEF AnswerEffect
<1>8. CASE /\ report' = [report EXCEPT ![current] = told]
           /\ typist' = [typist EXCEPT ![current] = "answered"]
  <2>1. report'[current] = told /\ \A u \in Writes : u # current => report'[u] = report[u]
    BY <1>1, <1>8
  <2>2. report' \in [Writes -> [outcome : {"none", "gave_up", "failed", "written", "canceled"},
                                bytes : Nat, uncertain : BOOLEAN]]
    BY <1>4, <1>8
  <2>3. typist' \in [Writes -> {"idle", "counted", "waiting", "answered", "leaving", "done"}]
    BY <1>8
  <2> QED BY <1>1, <1>2, <1>5, <2>1, <2>2, <2>3 DEF AnswerEffect
<1> QED BY <1>6, <1>7, <1>8

LEMMA TrueCount ==
    ASSUME Input!TypeOK, WriteInv, current \in Writes
    PROVE  /\ written[current] \in Nat /\ delivered[current] \in Nat
           /\ written[current] <= delivered[current] /\ delivered[current] <= Size[current]
           /\ ~failed.uncertain => written[current] = delivered[current]
           /\ Size[current] \in Nat
BY SizesAre DEF Input!TypeOK, WriteInv

\* The counted requests.
LEMMA CountedIs ==
    /\ \A w : Input!Counted(w) <=>
          typist[w] = "counted" \/ Queued(w) \/ (current = w /\ writer # "answering")
    /\ \A w : Input!Counted(w)' <=>
          typist'[w] = "counted" \/ Queued(w)' \/ (current' = w /\ writer' # "answering")
BY DEF Input!Counted, Queued

LEMMA BudgetIs ==
    /\ Input!BudgetIsExact <=> pending = Cardinality(BytesOf(CountedNow)) /\ pending <= MaxPending
    /\ Input!BudgetIsExact' <=>
          pending' = Cardinality(BytesOf(CountedNow')) /\ pending' <= MaxPending
BY SameCount DEF Input!BudgetIsExact, BytesOf, CountedNow

LEMMA SameBudget ==
    ASSUME TypistInv, CountedNow' = CountedNow, pending' = pending
    PROVE  Input!BudgetIsExact'
BY BudgetIs DEF TypistInv

LEMMA MoreBudget ==
    ASSUME TypistInv, NEW w \in Writes, w \notin CountedNow, CountedNow' = CountedNow \cup {w},
           pending' = pending + Size[w], pending' <= MaxPending
    PROVE  Input!BudgetIsExact'
<1>1. CountedNow \in SUBSET Writes /\ w \in Writes \ CountedNow
  BY DEF CountedNow
<1>2. Cardinality(BytesOf(CountedNow \cup {w})) = Cardinality(BytesOf(CountedNow)) + Size[w]
  BY <1>1, BytesOfOneMore
<1> QED BY <1>2, BudgetIs DEF TypistInv

LEMMA LessBudget ==
    ASSUME TypistInv, NEW w \in CountedNow, CountedNow' = CountedNow \ {w},
           pending' = pending - Size[w]
    PROVE  Input!BudgetIsExact'
<1>1. w \in Writes /\ Input!Counted(w)
  BY DEF CountedNow
<1>2. /\ pending - Size[w] \in Nat
      /\ pending - Size[w] = Cardinality(BytesOf(CountedNow \ {w}))
  BY <1>1, GivenBack
<1>3. pending \in Nat /\ pending <= MaxPending /\ Size[w] \in Nat /\ MaxPending \in Nat
  BY <1>1, SizesAre DEF TypistInv, Input!TypeOK, Input!BudgetIsExact
<1>4. pending' <= MaxPending
  BY <1>3
<1> QED BY <1>2, <1>4, BudgetIs

\* Types.
LEMMA TypistTypeStep ==
    ASSUME TypistInv, TypistSteps
    PROVE  Input!TypeOK'
<1> USE SizesAre DEF Input!TypeOK, Input!requests, Input!threads, Input!callers
<1>0. Input!TypeOK /\ PlaceInv /\ ActiveInv /\ WriteInv /\ AnswerInv
  BY DEF TypistInv
<1>1. CASE UNCHANGED Input!vars
  BY <1>0, <1>1 DEF Input!vars
<1>2. ASSUME NEW w \in Writes, Input!Call(w)
      PROVE  Input!TypeOK'
  <2>1. CASE Input!Count(w)
    BY <1>0, <2>1 DEF Input!Count
  <2>2. CASE Input!Refuse(w)
    BY <1>0, <2>2 DEF Input!Refuse
  <2>3. CASE Input!Enqueue(w)
    BY <1>0, <2>3 DEF Input!Enqueue
  <2>4. CASE Input!TakeResult(w)
    BY <1>0, <2>4 DEF Input!TakeResult
  <2>5. CASE Input!GiveUp(w)
    BY <1>0, <2>5 DEF Input!GiveUp
  <2>6. CASE Input!Abandon(w)
    BY <1>0, <2>6 DEF Input!Abandon, Input!NoReport
  <2>7. CASE Input!CancelWrite(w)
    BY <1>0, <2>7 DEF Input!CancelWrite, Input!CancelIo, Input!Notify
  <2>8. CASE Input!QueueFull(w)
    <3>1. Input!Counted(w)
      BY <2>8 DEF Input!QueueFull, Input!Counted
    <3> QED BY ZenonT(60), <1>0, <2>8, <3>1, GivenBack DEF Input!QueueFull
  <2> QED BY <1>2, <2>1, <2>2, <2>3, <2>4, <2>5, <2>6, <2>7, <2>8 DEF Input!Call
<1>3. CASE Input!DropWriter
  BY <1>0, <1>3 DEF Input!DropWriter, Input!CancelIo, Input!Notify, Input!Settled
<1>4. CASE Input!WriterStep
  <2>1. CASE Input!Receive
    <3>1. Head(queue) \in Writes /\ Tail(queue) \in Seq(Writes)
      <4>1. queue \in Seq(Writes) /\ queue # <<>>
        BY <1>0, <2>1 DEF Input!Receive
      <4> QED BY ONLY <4>1
    <3>2. canceller' \in {"awake", "asleep", "ended"}
      BY <1>0, <2>1 DEF Input!Receive, Input!Notify
    <3>3. failed' \in [error : BOOLEAN, uncertain : BOOLEAN]
      BY <2>1 DEF Input!Receive, Input!NoFailure
    <3>4. /\ queue' \in Seq(Writes) /\ active' \in Writes /\ current' \in Writes
          /\ writer' = "deciding"
      BY <2>1, <3>1 DEF Input!Receive
    <3> QED BY <1>0, <2>1, <3>2, <3>3, <3>4 DEF Input!Receive
  <2>2. CASE Input!Decide
    BY <1>0, <2>2 DEF Input!Decide
  <2>3. CASE Input!Submit
    BY <1>0, <2>3 DEF Input!Submit
  <2>4. CASE Input!WriteAcceptsNothing
    BY <1>0, <2>4 DEF Input!WriteAcceptsNothing
  <2>5. CASE Input!Release
    BY <1>0, <2>5 DEF Input!Release, Input!Notify
  <2>6. CASE Input!Stop
    BY <1>0, <2>6 DEF Input!Stop, Input!Notify
  <2>7. CASE Input!WriteSucceeds
    <3>1. PICK n \in Nat, m \in Nat : Wrote(n, m)
      BY <2>7, WroteIs
    <3>2. written' \in [Writes -> Nat] /\ delivered' \in [Writes -> Nat]
      BY <1>0, <3>1 DEF Wrote
    <3>3. /\ failed' \in [error : BOOLEAN, uncertain : BOOLEAN] /\ aborting' \in BOOLEAN
          /\ writer' \in {"deciding", "finished"}
          /\ UNCHANGED <<Input!callers, queue, pending, given_up, active, current, canceller, dropped>>
      BY <1>0, <2>7 DEF Input!WriteSucceeds, Input!WriteFails, Input!WriteAborted
    <3> QED BY <1>0, <3>2, <3>3
  <2>8. CASE Input!WriteFails
    <3>1. PICK n \in Nat, m \in Nat : Wrote(n, m)
      BY <2>8, WroteIs
    <3>2. written' \in [Writes -> Nat] /\ delivered' \in [Writes -> Nat]
      BY <1>0, <3>1 DEF Wrote
    <3>3. /\ failed' \in [error : BOOLEAN, uncertain : BOOLEAN] /\ aborting' \in BOOLEAN
          /\ writer' \in {"deciding", "finished"}
          /\ UNCHANGED <<Input!callers, queue, pending, given_up, active, current, canceller, dropped>>
      BY <1>0, <2>8 DEF Input!WriteSucceeds, Input!WriteFails, Input!WriteAborted
    <3> QED BY <1>0, <3>2, <3>3
  <2>9. CASE Input!WriteAborted
    <3>1. PICK n \in Nat, m \in Nat : Wrote(n, m)
      BY <2>9, WroteIs
    <3>2. written' \in [Writes -> Nat] /\ delivered' \in [Writes -> Nat]
      BY <1>0, <3>1 DEF Wrote
    <3>3. /\ failed' \in [error : BOOLEAN, uncertain : BOOLEAN] /\ aborting' \in BOOLEAN
          /\ writer' \in {"deciding", "finished"}
          /\ UNCHANGED <<Input!callers, queue, pending, given_up, active, current, canceller, dropped>>
      BY <1>0, <2>9 DEF Input!WriteSucceeds, Input!WriteFails, Input!WriteAborted
    <3> QED BY <1>0, <3>2, <3>3
  <2>10. CASE Input!GiveBack
    <3>1. current \in Writes /\ Input!Counted(current)
      BY <1>0, <2>10 DEF Input!GiveBack, Input!Counted, ActiveInv
    <3> QED BY <1>0, <2>10, <3>1, GivenBack DEF Input!GiveBack
  <2>11. CASE Input!Answer
    <3>1. AnswerEffect
      BY <2>11, AnswerIs DEF TypistInv
    <3> QED BY <1>0, <2>11, <3>1 DEF Input!Answer, AnswerEffect
  <2> QED BY <1>4, <2>1, <2>2, <2>3, <2>4, <2>5, <2>6, <2>7, <2>8, <2>9, <2>10, <2>11 DEF Input!WriterStep
<1>5. CASE Input!CancellerLooks
  BY <1>0, <1>5 DEF Input!CancellerLooks, Input!CancelIo
<1> QED BY <1>1, <1>2, <1>3, <1>4, <1>5 DEF TypistSteps, Input!Next

\* The threads.
LEMMA ActiveStep ==
    ASSUME TypistInv, TypistSteps
    PROVE  ActiveInv'
<1> USE SizesAre DEF Input!TypeOK, Input!requests, Input!threads, Input!callers, ActiveInv
<1>0. Input!TypeOK /\ PlaceInv /\ ActiveInv /\ WriteInv /\ AnswerInv
  BY DEF TypistInv
<1>1. CASE UNCHANGED Input!vars
  BY <1>0, <1>1 DEF Input!vars
<1>2. ASSUME NEW w \in Writes, Input!Call(w)
      PROVE  ActiveInv'
  <2>1. CASE Input!Count(w)
    BY <1>0, <2>1 DEF Input!Count
  <2>2. CASE Input!Refuse(w)
    BY <1>0, <2>2 DEF Input!Refuse
  <2>3. CASE Input!Enqueue(w)
    BY <1>0, <2>3 DEF Input!Enqueue
  <2>4. CASE Input!QueueFull(w)
    BY <1>0, <2>4 DEF Input!QueueFull
  <2>5. CASE Input!TakeResult(w)
    BY <1>0, <2>5 DEF Input!TakeResult
  <2>6. CASE Input!GiveUp(w)
    BY <1>0, <2>6 DEF Input!GiveUp
  <2>7. CASE Input!Abandon(w)
    BY <1>0, <2>7 DEF Input!Abandon, Input!NoReport
  <2>8. CASE Input!CancelWrite(w)
    BY <1>0, <2>8 DEF Input!CancelWrite, Input!CancelIo, Input!Notify
  <2> QED BY <1>2, <2>1, <2>2, <2>3, <2>4, <2>5, <2>6, <2>7, <2>8 DEF Input!Call
<1>3. CASE Input!DropWriter
  BY <1>0, <1>3 DEF Input!DropWriter, Input!CancelIo, Input!Notify, Input!Settled
<1>4. CASE Input!WriterStep
  <2>1. CASE Input!Receive
    BY <1>0, <2>1 DEF Input!Receive, Input!NoFailure, Input!Notify
  <2>2. CASE Input!Decide
    BY <1>0, <2>2 DEF Input!Decide
  <2>3. CASE Input!Submit
    BY <1>0, <2>3 DEF Input!Submit
  <2>4. CASE Input!WriteSucceeds
    BY <1>0, <2>4 DEF Input!WriteSucceeds
  <2>5. CASE Input!WriteAcceptsNothing
    BY <1>0, <2>5 DEF Input!WriteAcceptsNothing
  <2>6. CASE Input!WriteFails
    BY <1>0, <2>6 DEF Input!WriteFails, Input!Undelivered
  <2>7. CASE Input!WriteAborted
    BY <1>0, <2>7 DEF Input!WriteAborted, Input!Undelivered
  <2>8. CASE Input!Release
    BY <1>0, <2>8 DEF Input!Release, Input!Notify
  <2>9. CASE Input!GiveBack
    BY <1>0, <2>9 DEF Input!GiveBack
  <2>10. CASE Input!Answer
    BY <1>0, <2>10 DEF Input!Answer, Input!Outcome
  <2>11. CASE Input!Stop
    BY <1>0, <2>11 DEF Input!Stop, Input!Notify
  <2> QED BY <1>4, <2>1, <2>2, <2>3, <2>4, <2>5, <2>6, <2>7, <2>8, <2>9, <2>10, <2>11 DEF Input!WriterStep
<1>5. CASE Input!CancellerLooks
  BY <1>0, <1>5 DEF Input!CancellerLooks, Input!CancelIo
<1> QED BY <1>1, <1>2, <1>3, <1>4, <1>5 DEF TypistSteps, Input!Next

\* What was confirmed was delivered.
LEMMA WriteStep ==
    ASSUME TypistInv, TypistSteps
    PROVE  WriteInv'
<1> USE SizesAre DEF Input!TypeOK, Input!requests, Input!threads, Input!callers, WriteInv,
  ActiveInv, PlaceInv, Fresh
<1>0. Input!TypeOK /\ PlaceInv /\ ActiveInv /\ WriteInv /\ AnswerInv
  BY DEF TypistInv
<1>1. CASE UNCHANGED Input!vars
  BY <1>0, <1>1 DEF Input!vars
<1>2. ASSUME NEW w \in Writes, Input!Call(w)
      PROVE  WriteInv'
  <2>1. CASE Input!Count(w)
    BY <1>0, <2>1 DEF Input!Count
  <2>2. CASE Input!Refuse(w)
    BY <1>0, <2>2 DEF Input!Refuse
  <2>3. CASE Input!Enqueue(w)
    BY <1>0, <2>3 DEF Input!Enqueue
  <2>4. CASE Input!QueueFull(w)
    BY <1>0, <2>4 DEF Input!QueueFull
  <2>5. CASE Input!TakeResult(w)
    BY <1>0, <2>5 DEF Input!TakeResult
  <2>6. CASE Input!GiveUp(w)
    BY <1>0, <2>6 DEF Input!GiveUp
  <2>7. CASE Input!Abandon(w)
    BY <1>0, <2>7 DEF Input!Abandon, Input!NoReport
  <2>8. CASE Input!CancelWrite(w)
    BY <1>0, <2>8 DEF Input!CancelWrite, Input!CancelIo, Input!Notify
  <2> QED BY <1>2, <2>1, <2>2, <2>3, <2>4, <2>5, <2>6, <2>7, <2>8 DEF Input!Call
<1>3. CASE Input!DropWriter
  BY <1>0, <1>3 DEF Input!DropWriter, Input!CancelIo, Input!Notify, Input!Settled
<1>4. CASE Input!WriterStep
  <2>1. CASE Input!Decide
    BY <1>0, <2>1 DEF Input!Decide
  <2>2. CASE Input!Submit
    BY <1>0, <2>2 DEF Input!Submit
  <2>3. CASE Input!Release
    BY <1>0, <2>3 DEF Input!Release, Input!Notify
  <2>4. CASE Input!GiveBack
    BY <1>0, <2>4 DEF Input!GiveBack
  <2>5. CASE Input!Answer
    BY <1>0, <2>5 DEF Input!Answer, Input!Outcome
  <2>6. CASE Input!Stop
    BY <1>0, <2>6 DEF Input!Stop, Input!Notify
  <2>7. CASE Input!Receive
    <3>1. /\ Once' /\ Head(queue) \in Writes /\ Queued(Head(queue))
          /\ \A u \in Writes : Queued(u)' <=> Queued(u) /\ u # Head(queue)
      BY <1>0, <2>7, TailIs DEF Input!Receive
    <3> QED BY <1>0, <2>7, <3>1 DEF Input!Receive, Input!NoFailure
  <2>8. CASE Input!WriteSucceeds
    <3>1. PICK n \in Nat : Wrote(n, n)
      BY <2>8, WroteIs
    <3> QED BY <1>0, <2>8, <3>1 DEF Wrote, Input!WriteSucceeds
  <2>9. CASE Input!WriteAcceptsNothing
    <3>1. ~failed.uncertain /\ failed'.uncertain = FALSE
      BY <1>0, <2>9 DEF Input!WriteAcceptsNothing, Input!NoFailure
    <3>2. UNCHANGED <<written, delivered, current>> /\ writer' = "finished"
      BY <2>9 DEF Input!WriteAcceptsNothing
    <3> QED BY <1>0, <3>1, <3>2
  <2>10. CASE Input!WriteFails
    <3>1. PICK n \in Nat : Wrote(0, n)
      BY <2>10, WroteIs
    <3> QED BY <1>0, <2>10, <3>1 DEF Wrote, Input!WriteFails, Input!WriteAborted
  <2>11. CASE Input!WriteAborted
    <3>1. PICK n \in Nat : Wrote(0, n)
      BY <2>11, WroteIs
    <3> QED BY <1>0, <2>11, <3>1 DEF Wrote, Input!WriteFails, Input!WriteAborted
  <2> QED BY <1>4, <2>1, <2>2, <2>3, <2>4, <2>5, <2>6, <2>7, <2>8, <2>9, <2>10, <2>11 DEF Input!WriterStep
<1>5. CASE Input!CancellerLooks
  BY <1>0, <1>5 DEF Input!CancellerLooks, Input!CancelIo
<1> QED BY <1>1, <1>2, <1>3, <1>4, <1>5 DEF TypistSteps, Input!Next

\* A request is in one place.
LEMMA PlaceStep ==
    ASSUME TypistInv, TypistSteps
    PROVE  PlaceInv'
<1> USE SizesAre, SameQueue DEF Input!TypeOK, Input!requests, Input!threads, Input!callers,
  PlaceInv, ActiveInv, Fresh
<1>0. Input!TypeOK /\ PlaceInv /\ ActiveInv /\ WriteInv /\ AnswerInv
  BY DEF TypistInv
<1>1. CASE UNCHANGED Input!vars
  BY <1>0, <1>1 DEF Input!vars
<1>2. ASSUME NEW w \in Writes, Input!Call(w)
      PROVE  PlaceInv'
  <2>1. CASE Input!Count(w)
    BY <1>0, <2>1 DEF Input!Count
  <2>2. CASE Input!Refuse(w)
    BY <1>0, <2>2 DEF Input!Refuse
  <2>3. CASE Input!QueueFull(w)
    BY <1>0, <2>3 DEF Input!QueueFull
  <2>4. CASE Input!TakeResult(w)
    BY <1>0, <2>4 DEF Input!TakeResult
  <2>5. CASE Input!GiveUp(w)
    BY <1>0, <2>5 DEF Input!GiveUp
  <2>6. CASE Input!Abandon(w)
    BY <1>0, <2>6 DEF Input!Abandon, Input!NoReport
  <2>7. CASE Input!CancelWrite(w)
    BY <1>0, <2>7 DEF Input!CancelWrite, Input!CancelIo, Input!Notify
  <2>8. CASE Input!Enqueue(w)
    <3>1. ~Queued(w) /\ queue' = Append(queue, w)
      BY <1>0, <2>8 DEF Input!Enqueue
    <3>2. Once' /\ \A u \in Writes : Queued(u)' <=> Queued(u) \/ u = w
      BY <1>0, <3>1, AppendIs
    <3> QED BY <1>0, <2>8, <3>2 DEF Input!Enqueue
  <2> QED BY <1>2, <2>1, <2>2, <2>3, <2>4, <2>5, <2>6, <2>7, <2>8 DEF Input!Call
<1>3. CASE Input!DropWriter
  BY <1>0, <1>3 DEF Input!DropWriter, Input!CancelIo, Input!Notify, Input!Settled
<1>4. CASE Input!WriterStep
  <2>1. CASE Input!Decide
    BY <1>0, <2>1 DEF Input!Decide
  <2>2. CASE Input!Submit
    BY <1>0, <2>2 DEF Input!Submit
  <2>3. CASE Input!WriteSucceeds
    BY <1>0, <2>3 DEF Input!WriteSucceeds
  <2>4. CASE Input!WriteAcceptsNothing
    BY <1>0, <2>4 DEF Input!WriteAcceptsNothing
  <2>5. CASE Input!WriteFails
    BY <1>0, <2>5 DEF Input!WriteFails, Input!Undelivered
  <2>6. CASE Input!WriteAborted
    BY <1>0, <2>6 DEF Input!WriteAborted, Input!Undelivered
  <2>7. CASE Input!Release
    BY <1>0, <2>7 DEF Input!Release, Input!Notify
  <2>8. CASE Input!GiveBack
    BY <1>0, <2>8 DEF Input!GiveBack
  <2>9. CASE Input!Answer
    BY <1>0, <2>9 DEF Input!Answer, Input!Outcome
  <2>10. CASE Input!Stop
    BY <1>0, <2>10 DEF Input!Stop, Input!Notify
  <2>11. CASE Input!Receive
    <3>1. /\ Once' /\ Head(queue) \in Writes /\ Queued(Head(queue))
          /\ \A u \in Writes : Queued(u)' <=> Queued(u) /\ u # Head(queue)
      BY <1>0, <2>11, TailIs DEF Input!Receive
    <3> QED BY <1>0, <2>11, <3>1 DEF Input!Receive, Input!NoFailure
  <2> QED BY <1>4, <2>1, <2>2, <2>3, <2>4, <2>5, <2>6, <2>7, <2>8, <2>9, <2>10, <2>11 DEF Input!WriterStep
<1>5. CASE Input!CancellerLooks
  BY <1>0, <1>5 DEF Input!CancellerLooks, Input!CancelIo
<1> QED BY <1>1, <1>2, <1>3, <1>4, <1>5 DEF TypistSteps, Input!Next

\* An answered request is done.
LEMMA AnswerStep ==
    ASSUME TypistInv, TypistSteps
    PROVE  AnswerInv'
<1> USE SizesAre, SameQueue DEF Input!TypeOK, Input!requests, Input!threads, Input!callers,
  AnswerInv, PlaceInv, ActiveInv, Fresh
<1>0. Input!TypeOK /\ PlaceInv /\ ActiveInv /\ WriteInv /\ AnswerInv
  BY DEF TypistInv
<1>1. CASE UNCHANGED Input!vars
  BY <1>0, <1>1 DEF Input!vars
<1>2. ASSUME NEW w \in Writes, Input!Call(w)
      PROVE  AnswerInv'
  <2>1. CASE Input!Count(w)
    BY <1>0, <2>1 DEF Input!Count
  <2>2. CASE Input!Refuse(w)
    BY <1>0, <2>2 DEF Input!Refuse
  <2>3. CASE Input!QueueFull(w)
    BY <1>0, <2>3 DEF Input!QueueFull
  <2>4. CASE Input!TakeResult(w)
    BY <1>0, <2>4 DEF Input!TakeResult
  <2>5. CASE Input!GiveUp(w)
    BY <1>0, <2>5 DEF Input!GiveUp
  <2>6. CASE Input!Abandon(w)
    BY <1>0, <2>6 DEF Input!Abandon, Input!NoReport
  <2>7. CASE Input!CancelWrite(w)
    BY <1>0, <2>7 DEF Input!CancelWrite, Input!CancelIo, Input!Notify
  <2>8. CASE Input!Enqueue(w)
    <3>1. ~Queued(w) /\ queue' = Append(queue, w)
      BY <1>0, <2>8 DEF Input!Enqueue
    <3>2. Once' /\ \A u \in Writes : Queued(u)' <=> Queued(u) \/ u = w
      BY <1>0, <3>1, AppendIs
    <3> QED BY <1>0, <2>8, <3>2 DEF Input!Enqueue
  <2> QED BY <1>2, <2>1, <2>2, <2>3, <2>4, <2>5, <2>6, <2>7, <2>8 DEF Input!Call
<1>3. CASE Input!DropWriter
  BY <1>0, <1>3 DEF Input!DropWriter, Input!CancelIo, Input!Notify, Input!Settled
<1>4. CASE Input!WriterStep
  <2>1. CASE Input!Decide
    BY <1>0, <2>1 DEF Input!Decide
  <2>2. CASE Input!Submit
    BY <1>0, <2>2 DEF Input!Submit
  <2>3. CASE Input!WriteSucceeds
    BY <1>0, <2>3 DEF Input!WriteSucceeds
  <2>4. CASE Input!WriteAcceptsNothing
    BY <1>0, <2>4 DEF Input!WriteAcceptsNothing
  <2>5. CASE Input!WriteFails
    BY <1>0, <2>5 DEF Input!WriteFails, Input!Undelivered
  <2>6. CASE Input!WriteAborted
    BY <1>0, <2>6 DEF Input!WriteAborted, Input!Undelivered
  <2>7. CASE Input!Release
    BY <1>0, <2>7 DEF Input!Release, Input!Notify
  <2>8. CASE Input!GiveBack
    BY <1>0, <2>8 DEF Input!GiveBack
  <2>9. CASE Input!Stop
    BY <1>0, <2>9 DEF Input!Stop, Input!Notify
  <2>10. CASE Input!Receive
    <3>1. /\ Once' /\ Head(queue) \in Writes /\ Queued(Head(queue))
          /\ \A u \in Writes : Queued(u)' <=> Queued(u) /\ u # Head(queue)
      BY <1>0, <2>10, TailIs DEF Input!Receive
    <3> QED BY <1>0, <2>10, <3>1 DEF Input!Receive, Input!NoFailure
  <2>11. CASE Input!Answer
    <3>1. AnswerEffect
      BY <2>11, AnswerIs DEF TypistInv
    <3>2. ASSUME NEW u \in Writes, u # current
          PROVE  report'[u] = report[u] /\ Queued(u)' = Queued(u) /\ current' # u
      BY <1>0, <3>1, <3>2, SameQueue DEF AnswerEffect
    <3>3. ASSUME NEW u \in Writes, u = current
          PROVE  ~Queued(u)' /\ current' # u
      BY <1>0, <3>1, <3>3, SameQueue DEF AnswerEffect
    <3>4. ASSUME NEW u \in Writes
          PROVE  /\ report'[u].outcome = "gave_up" => report'[u].uncertain
                 /\ report'[u].outcome \in {"failed", "written", "canceled"} =>
                       ~Queued(u)' /\ current' # u
      <4>1. CASE u # current
        BY <1>0, <3>2, <4>1
      <4>2. CASE u = current /\ report'[u] = report[u]
        BY <1>0, <3>3, <4>2
      <4>3. CASE u = current /\ report'[u].outcome = Input!Outcome
        BY <3>1, <3>3, <4>3 DEF AnswerEffect
      <4> QED BY <3>1, <4>1, <4>2, <4>3 DEF AnswerEffect
    <3> QED BY <3>4
  <2> QED BY <1>4, <2>1, <2>2, <2>3, <2>4, <2>5, <2>6, <2>7, <2>8, <2>9, <2>10, <2>11 DEF Input!WriterStep
<1>5. CASE Input!CancellerLooks
  BY <1>0, <1>5 DEF Input!CancellerLooks, Input!CancelIo
<1> QED BY <1>1, <1>2, <1>3, <1>4, <1>5 DEF TypistSteps, Input!Next

\* Only the write of a canceled request is aborted.
LEMMA AbortStep ==
    ASSUME TypistInv, TypistSteps
    PROVE  Input!OnlyOwnWriteIsAborted'
<1> USE SizesAre DEF Input!TypeOK, Input!requests, Input!threads, Input!callers,
  Input!OnlyOwnWriteIsAborted, ActiveInv
<1>0. Input!TypeOK /\ PlaceInv /\ ActiveInv /\ WriteInv /\ AnswerInv /\ Input!OnlyOwnWriteIsAborted
  BY DEF TypistInv
<1>1. CASE UNCHANGED Input!vars
  BY <1>0, <1>1 DEF Input!vars
<1>2. ASSUME NEW w \in Writes, Input!Call(w)
      PROVE  Input!OnlyOwnWriteIsAborted'
  <2>1. CASE Input!Count(w)
    BY <1>0, <2>1 DEF Input!Count
  <2>2. CASE Input!Refuse(w)
    BY <1>0, <2>2 DEF Input!Refuse
  <2>3. CASE Input!Enqueue(w)
    BY <1>0, <2>3 DEF Input!Enqueue
  <2>4. CASE Input!QueueFull(w)
    BY <1>0, <2>4 DEF Input!QueueFull
  <2>5. CASE Input!TakeResult(w)
    BY <1>0, <2>5 DEF Input!TakeResult
  <2>6. CASE Input!GiveUp(w)
    BY <1>0, <2>6 DEF Input!GiveUp
  <2>7. CASE Input!Abandon(w)
    BY <1>0, <2>7 DEF Input!Abandon, Input!NoReport
  <2>8. CASE Input!CancelWrite(w)
    BY <1>0, <2>8 DEF Input!CancelWrite, Input!CancelIo, Input!Notify
  <2> QED BY <1>2, <2>1, <2>2, <2>3, <2>4, <2>5, <2>6, <2>7, <2>8 DEF Input!Call
<1>3. CASE Input!DropWriter
  BY <1>0, <1>3 DEF Input!DropWriter, Input!CancelIo, Input!Notify, Input!Settled
<1>4. CASE Input!WriterStep
  <2>1. CASE Input!Receive
    BY <1>0, <2>1 DEF Input!Receive, Input!NoFailure, Input!Notify
  <2>2. CASE Input!Decide
    BY <1>0, <2>2 DEF Input!Decide
  <2>3. CASE Input!Submit
    BY <1>0, <2>3 DEF Input!Submit
  <2>4. CASE Input!WriteSucceeds
    BY <1>0, <2>4 DEF Input!WriteSucceeds
  <2>5. CASE Input!WriteAcceptsNothing
    BY <1>0, <2>5 DEF Input!WriteAcceptsNothing
  <2>6. CASE Input!WriteFails
    BY <1>0, <2>6 DEF Input!WriteFails, Input!Undelivered
  <2>7. CASE Input!WriteAborted
    BY <1>0, <2>7 DEF Input!WriteAborted, Input!Undelivered
  <2>8. CASE Input!Release
    BY <1>0, <2>8 DEF Input!Release, Input!Notify
  <2>9. CASE Input!GiveBack
    BY <1>0, <2>9 DEF Input!GiveBack
  <2>10. CASE Input!Answer
    BY <1>0, <2>10 DEF Input!Answer, Input!Outcome
  <2>11. CASE Input!Stop
    BY <1>0, <2>11 DEF Input!Stop, Input!Notify
  <2> QED BY <1>4, <2>1, <2>2, <2>3, <2>4, <2>5, <2>6, <2>7, <2>8, <2>9, <2>10, <2>11 DEF Input!WriterStep
<1>5. CASE Input!CancellerLooks
  BY <1>0, <1>5 DEF Input!CancellerLooks, Input!CancelIo
<1> QED BY <1>1, <1>2, <1>3, <1>4, <1>5 DEF TypistSteps, Input!Next

\* Reports stay true.
LEMMA ReportStep ==
    ASSUME TypistInv, TypistSteps
    PROVE  Input!ReportIsTrue'
<1> USE SizesAre DEF Input!TypeOK, Input!requests, Input!threads, Input!callers,
  Input!ReportIsTrue, AnswerInv, PlaceInv, Fresh, ActiveInv
<1>0. Input!TypeOK /\ PlaceInv /\ ActiveInv /\ WriteInv /\ AnswerInv /\ Input!ReportIsTrue
  BY DEF TypistInv
<1>1. CASE UNCHANGED Input!vars
  BY <1>0, <1>1 DEF Input!vars
<1>2. ASSUME NEW w \in Writes, Input!Call(w)
      PROVE  Input!ReportIsTrue'
  <2>1. CASE Input!Count(w)
    BY <1>0, <2>1 DEF Input!Count
  <2>2. CASE Input!Refuse(w)
    BY <1>0, <2>2 DEF Input!Refuse
  <2>3. CASE Input!Enqueue(w)
    BY <1>0, <2>3 DEF Input!Enqueue
  <2>4. CASE Input!QueueFull(w)
    BY <1>0, <2>4 DEF Input!QueueFull
  <2>5. CASE Input!TakeResult(w)
    BY <1>0, <2>5 DEF Input!TakeResult
  <2>6. CASE Input!Abandon(w)
    BY <1>0, <2>6 DEF Input!Abandon, Input!NoReport
  <2>7. CASE Input!CancelWrite(w)
    BY <1>0, <2>7 DEF Input!CancelWrite, Input!CancelIo, Input!Notify
  <2>8. CASE Input!GiveUp(w)
    <3>1. /\ written[w] \in Nat /\ delivered[w] \in Nat /\ written[w] <= delivered[w]
      BY <1>0 DEF WriteInv
    <3> QED BY <1>0, <2>8, <3>1 DEF Input!GiveUp
  <2> QED BY <1>2, <2>1, <2>2, <2>3, <2>4, <2>5, <2>6, <2>7, <2>8 DEF Input!Call
<1>3. CASE Input!DropWriter
  BY <1>0, <1>3 DEF Input!DropWriter, Input!CancelIo, Input!Notify, Input!Settled
<1>4. CASE Input!WriterStep
  <2>1. CASE Input!Receive
    BY <1>0, <2>1 DEF Input!Receive, Input!NoFailure, Input!Notify
  <2>2. CASE Input!Decide
    BY <1>0, <2>2 DEF Input!Decide
  <2>3. CASE Input!Submit
    BY <1>0, <2>3 DEF Input!Submit
  <2>4. CASE Input!WriteSucceeds
    BY <1>0, <2>4 DEF Input!WriteSucceeds
  <2>5. CASE Input!WriteAcceptsNothing
    BY <1>0, <2>5 DEF Input!WriteAcceptsNothing
  <2>6. CASE Input!WriteFails
    BY <1>0, <2>6 DEF Input!WriteFails, Input!Undelivered
  <2>7. CASE Input!WriteAborted
    BY <1>0, <2>7 DEF Input!WriteAborted, Input!Undelivered
  <2>8. CASE Input!Release
    BY <1>0, <2>8 DEF Input!Release, Input!Notify
  <2>9. CASE Input!GiveBack
    BY <1>0, <2>9 DEF Input!GiveBack
  <2>10. CASE Input!Stop
    BY <1>0, <2>10 DEF Input!Stop, Input!Notify
  <2>11. CASE Input!Answer
    <3>1. AnswerEffect
      BY <2>11, AnswerIs DEF TypistInv
    <3>2. ASSUME NEW u \in Writes, u # current
          PROVE  report'[u] = report[u] /\ delivered'[u] = delivered[u]
      BY <3>1, <3>2 DEF AnswerEffect
    <3>3. /\ current \in Writes /\ written[current] \in Nat /\ delivered[current] \in Nat
          /\ written[current] <= delivered[current] /\ delivered[current] <= Size[current]
          /\ ~failed.uncertain => written[current] = delivered[current]
          /\ Size[current] \in Nat
      BY <1>0, <3>1, TrueCount DEF AnswerEffect
    <3>4. /\ Input!Outcome = "written" => written[current] = Size[current]
      BY DEF Input!Outcome
    <3>5. /\ report'[current].outcome # "none" =>
            /\ report'[current].bytes <= delivered[current]
            /\ ~report'[current].uncertain => report'[current].bytes = delivered[current]
            /\ report'[current].outcome = "written" => delivered[current] = Size[current]
      <4>1. CASE report'[current] = report[current]
        BY <1>0, <3>3, <4>1
      <4>2. CASE /\ report'[current].outcome = Input!Outcome
                 /\ report'[current].bytes = written[current]
                 /\ report'[current].uncertain = failed.uncertain
        BY <3>3, <3>4, <4>2
      <4> QED BY <3>1, <4>1, <4>2 DEF AnswerEffect
    <3> QED BY ZenonT(60), <1>0, <3>1, <3>2, <3>3, <3>5 DEF AnswerEffect
  <2> QED BY <1>4, <2>1, <2>2, <2>3, <2>4, <2>5, <2>6, <2>7, <2>8, <2>9, <2>10, <2>11 DEF Input!WriterStep
<1>5. CASE Input!CancellerLooks
  BY <1>0, <1>5 DEF Input!CancellerLooks, Input!CancelIo
<1> QED BY <1>1, <1>2, <1>3, <1>4, <1>5 DEF TypistSteps, Input!Next

\* The budget.
LEMMA BudgetStep ==
    ASSUME TypistInv, TypistSteps
    PROVE  Input!BudgetIsExact'
<1> USE SizesAre, SameQueue, CountedIs DEF Input!TypeOK, Input!requests, Input!threads,
  Input!callers, CountedNow, PlaceInv, ActiveInv, Fresh
<1>0. Input!TypeOK /\ PlaceInv /\ ActiveInv /\ WriteInv /\ AnswerInv
  BY DEF TypistInv
<1>1. CASE UNCHANGED Input!vars
  <2>1. CountedNow' = CountedNow /\ pending' = pending
    BY <1>0, <1>1 DEF Input!vars
  <2> QED BY <2>1, SameBudget
<1>2. ASSUME NEW w \in Writes, Input!Call(w)
      PROVE  Input!BudgetIsExact'
  <2>1. CASE Input!Count(w)
    <3>1. CountedNow' = CountedNow \cup {w} /\ w \notin CountedNow
      BY <1>0, <2>1 DEF Input!Count
    <3>2. pending' = pending + Size[w] /\ pending' <= MaxPending
      BY <2>1 DEF Input!Count
    <3> QED BY <3>1, <3>2, MoreBudget
  <2>2. CASE Input!Refuse(w)
    <3>1. CountedNow' = CountedNow /\ pending' = pending
      BY <1>0, <2>2 DEF Input!Refuse
    <3> QED BY <3>1, SameBudget
  <2>3. CASE Input!Enqueue(w)
    <3>1. ~Queued(w) /\ queue' = Append(queue, w)
      BY <1>0, <2>3 DEF Input!Enqueue
    <3>2. \A u \in Writes : Queued(u)' <=> Queued(u) \/ u = w
      BY <1>0, <3>1, AppendIs
    <3>3. CountedNow' = CountedNow /\ pending' = pending
      BY <1>0, <2>3, <3>2 DEF Input!Enqueue
    <3> QED BY <3>3, SameBudget
  <2>4. CASE Input!QueueFull(w)
    <3>1. CountedNow' = CountedNow \ {w} /\ w \in CountedNow
      BY <1>0, <2>4 DEF Input!QueueFull
    <3>2. pending' = pending - Size[w]
      BY <2>4 DEF Input!QueueFull
    <3> QED BY <3>1, <3>2, LessBudget
  <2>5. CASE Input!TakeResult(w)
    <3>1. CountedNow' = CountedNow /\ pending' = pending
      BY <1>0, <2>5 DEF Input!TakeResult
    <3> QED BY <3>1, SameBudget
  <2>6. CASE Input!GiveUp(w)
    <3>1. CountedNow' = CountedNow /\ pending' = pending
      BY <1>0, <2>6 DEF Input!GiveUp
    <3> QED BY <3>1, SameBudget
  <2>7. CASE Input!Abandon(w)
    <3>1. CountedNow' = CountedNow /\ pending' = pending
      BY <1>0, <2>7 DEF Input!Abandon, Input!NoReport
    <3> QED BY <3>1, SameBudget
  <2>8. CASE Input!CancelWrite(w)
    <3>1. CountedNow' = CountedNow /\ pending' = pending
      BY <1>0, <2>8 DEF Input!CancelWrite, Input!CancelIo, Input!Notify
    <3> QED BY <3>1, SameBudget
  <2> QED BY <1>2, <2>1, <2>2, <2>3, <2>4, <2>5, <2>6, <2>7, <2>8 DEF Input!Call
<1>3. CASE Input!DropWriter
  <2>1. CountedNow' = CountedNow /\ pending' = pending
  BY <1>0, <1>3 DEF Input!DropWriter, Input!CancelIo, Input!Notify, Input!Settled
<2> QED BY <2>1, SameBudget
<1>4. CASE Input!WriterStep
  <2>1. CASE Input!Receive
    <3>1. /\ Head(queue) \in Writes /\ Queued(Head(queue))
          /\ \A u \in Writes : Queued(u)' <=> Queued(u) /\ u # Head(queue)
      BY <1>0, <2>1, TailIs DEF Input!Receive
    <3>2. CountedNow' = CountedNow /\ pending' = pending
      BY <1>0, <2>1, <3>1 DEF Input!Receive
    <3> QED BY <3>2, SameBudget
  <2>2. CASE Input!Decide
    <3>1. CountedNow' = CountedNow /\ pending' = pending
      BY <1>0, <2>2 DEF Input!Decide
    <3> QED BY <3>1, SameBudget
  <2>3. CASE Input!Submit
    <3>1. CountedNow' = CountedNow /\ pending' = pending
      BY <1>0, <2>3 DEF Input!Submit
    <3> QED BY <3>1, SameBudget
  <2>4. CASE Input!WriteSucceeds
    <3>1. CountedNow' = CountedNow /\ pending' = pending
      BY <1>0, <2>4 DEF Input!WriteSucceeds
    <3> QED BY <3>1, SameBudget
  <2>5. CASE Input!WriteAcceptsNothing
    <3>1. CountedNow' = CountedNow /\ pending' = pending
      BY <1>0, <2>5 DEF Input!WriteAcceptsNothing
    <3> QED BY <3>1, SameBudget
  <2>6. CASE Input!WriteFails
    <3>1. CountedNow' = CountedNow /\ pending' = pending
      BY <1>0, <2>6 DEF Input!WriteFails, Input!Undelivered
    <3> QED BY <3>1, SameBudget
  <2>7. CASE Input!WriteAborted
    <3>1. CountedNow' = CountedNow /\ pending' = pending
      BY <1>0, <2>7 DEF Input!WriteAborted, Input!Undelivered
    <3> QED BY <3>1, SameBudget
  <2>8. CASE Input!Release
    <3>1. CountedNow' = CountedNow /\ pending' = pending
      BY <1>0, <2>8 DEF Input!Release, Input!Notify
    <3> QED BY <3>1, SameBudget
  <2>9. CASE Input!GiveBack
    <3>1. CountedNow' = CountedNow \ {current} /\ current \in CountedNow
      BY <1>0, <2>9 DEF Input!GiveBack
    <3>2. pending' = pending - Size[current]
      BY <2>9 DEF Input!GiveBack
    <3> QED BY <3>1, <3>2, LessBudget
  <2>10. CASE Input!Answer
    <3>1. CountedNow' = CountedNow /\ pending' = pending
      BY <1>0, <2>10 DEF Input!Answer, Input!Outcome
    <3> QED BY <3>1, SameBudget
  <2>11. CASE Input!Stop
    <3>1. CountedNow' = CountedNow /\ pending' = pending
      BY <1>0, <2>11 DEF Input!Stop, Input!Notify
    <3> QED BY <3>1, SameBudget
  <2> QED BY <1>4, <2>1, <2>2, <2>3, <2>4, <2>5, <2>6, <2>7, <2>8, <2>9, <2>10, <2>11 DEF Input!WriterStep
<1>5. CASE Input!CancellerLooks
  <2>1. CountedNow' = CountedNow /\ pending' = pending
    BY <1>0, <1>5 DEF Input!CancellerLooks, Input!CancelIo
  <2> QED BY <2>1, SameBudget
<1> QED BY <1>1, <1>2, <1>3, <1>4, <1>5 DEF TypistSteps, Input!Next

\* The input keeps its invariant.
LEMMA TypistInvariant == Input!Spec => []TypistInv
<1>1. TypistInv /\ TypistSteps => TypistInv'
  BY TypistTypeStep, ActiveStep, WriteStep, PlaceStep, AnswerStep, AbortStep, ReportStep,
    BudgetStep DEF TypistInv
<1> QED BY <1>1, InitTypist, PTL DEF Input!Spec, TypistSteps

\* The budget of a terminal's input is exactly what is reserved, queued or being
\* written, a WriteFile is only aborted for the caller of its own request, and
\* what a caller was told of its bytes stays true, however callers give up while
\* the writer hangs in WriteFile.
THEOREM InputStaysTrue == Input!Spec => []InputIsTrue
<1>1. TypistInv => InputIsTrue
  BY DEF TypistInv, InputIsTrue, Input!QueueIsSound
<1> QED BY <1>1, TypistInvariant, PTL
=============================================================================
