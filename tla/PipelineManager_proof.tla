------------------------ MODULE PipelineManager_proof ------------------------
(***************************************************************************)
(* Theorems about PipelineManager, for any tasks, clients, workers and     *)
(* bounds.                                                                 *)
(***************************************************************************)
EXTENDS PipelineManager, FiniteSetTheorems, TLAPS

\* Every action keeps the variables in their types.
THEOREM TypeCorrect == Spec => []TypeOK
<1> USE PipelineAssumption DEF TypeOK, Status, Stored, Phase
<1>1. Init => TypeOK
  <2> SUFFICES ASSUME Init PROVE TypeOK
    OBVIOUS
  <2>1. /\ row \in [Tasks -> Status] /\ olderTries \in [Tasks -> SUBSET Tasks]
        /\ workerPc \in [Workers -> {"idle", "run", "judge", "write", "exit"}]
        /\ workerTask \in [Workers -> Tasks \cup {NoTask}]
        /\ workerStatus \in [Workers -> Stored]
    BY DEF Init
  <2>2. /\ reqOp \in [Clients -> {"none", "retry", "delete", "cancel"}]
        /\ reqTask \in [Clients -> Tasks \cup {NoTask}]
        /\ reqSeen \in [Clients -> Status]
    BY DEF Init
  <2>3. QED BY <2>1, <2>2 DEF Init
<1>2. TypeOK /\ [Next]_vars => TypeOK'
  <2> SUFFICES ASSUME TypeOK, [Next]_vars PROVE TypeOK'
    OBVIOUS
  <2> USE DEF store, memory, counters, ghosts, round, workers, request
  <2>1. CASE RoundBegin
    <3>1. Cardinality(runningTasks) \in Nat
      BY FS_CardinalityType, FS_Subset
    <3>2. QED BY <2>1, <3>1 DEF RoundBegin, FreeSlots
  <2>2. CASE RoundFetch
    BY <2>2 DEF RoundFetch, RoundOver
  <2>3. CASE RoundMark
    <3>1. Written(current, "running") \in [Tasks -> Status]
      BY <2>3 DEF RoundMark, Written
    <3>2. Started(current) \in [Tasks -> SUBSET Tasks]
      BY <2>3 DEF RoundMark, Started
    <3>3. QED BY <2>3, <3>1, <3>2 DEF RoundMark
  <2>4. CASE RoundSpawn
    BY <2>4 DEF RoundSpawn, IdleWorkers
  <2>5. CASE RoundEnd
    BY <2>5 DEF RoundEnd, RoundOver
  <2>6. ASSUME NEW t \in Tasks, RoundAdmit(t) PROVE TypeOK'
    BY <2>6 DEF RoundAdmit
  <2>7. ASSUME NEW w \in Workers, Progress(w) PROVE TypeOK'
    BY <2>7 DEF Progress, Written
  <2>8. ASSUME NEW w \in Workers, Execute(w) \/ Panics(w) PROVE TypeOK'
    BY <2>8 DEF Execute, Panics
  <2>9. ASSUME NEW w \in Workers, Persist(w) PROVE TypeOK'
    BY <2>9 DEF Persist, Written
  <2>10. ASSUME NEW w \in Workers, Unregister(w) PROVE TypeOK'
    BY <2>10 DEF Unregister
  <2>11. ASSUME NEW t \in Tasks, EnqueueTask(t) PROVE TypeOK'
    BY <2>11 DEF EnqueueTask
  <2>12. CASE ConfirmHistory
    BY <2>12 DEF ConfirmHistory
  <2>13. ASSUME NEW p \in BOOLEAN, SetHistoryPaused(p) PROVE TypeOK'
    BY <2>13 DEF SetHistoryPaused, HeldByPause
  <2>14. ASSUME NEW c \in Clients, NEW t \in Tasks, RetryRead(c, t) PROVE TypeOK'
    BY <2>14 DEF RetryRead, Ask
  <2>15. ASSUME NEW c \in Clients, NEW t \in Tasks, DeleteCheck(c, t) PROVE TypeOK'
    BY <2>15 DEF DeleteCheck, Ask
  <2>16. ASSUME NEW c \in Clients, NEW t \in Tasks, CancelRead(c, t) PROVE TypeOK'
    BY <2>16 DEF CancelRead, Ask
  <2>17. CASE ClearCompletedTasks
    BY <2>17 DEF ClearCompletedTasks, Deleted
  <2>18. ASSUME NEW c \in Clients, RetryWrite(c) PROVE TypeOK'
    BY <2>18 DEF RetryWrite, Answer, Written
  <2>19. ASSUME NEW c \in Clients, DeleteWrite(c) PROVE TypeOK'
    BY <2>19 DEF DeleteWrite, Answer, Deleted
  <2>20. ASSUME NEW c \in Clients, CancelAct(c) PROVE TypeOK'
    BY <2>20 DEF CancelAct, Answer, Written
  <2>21. CASE CloseCancel \/ CloseBarrier \/ CloseStore
    BY <2>21 DEF CloseCancel, CloseBarrier, CloseStore
  <2>22. CASE Crash
    BY <2>22 DEF Crash
  <2>23. CASE Restart
    BY <2>23 DEF Restart, ResetRunning
  <2>24. CASE CoolDown
    BY <2>24 DEF CoolDown
  <2>25. CASE UNCHANGED vars
    BY <2>25 DEF vars
  <2>26. ASSUME NEW w \in Workers, Judge(w) PROVE TypeOK'
    BY <2>26 DEF Judge, Verdict
  <2>27. QED
    BY <2>1, <2>2, <2>3, <2>4, <2>5, <2>6, <2>7, <2>8, <2>9, <2>10, <2>11,
       <2>12, <2>13, <2>14, <2>15, <2>16, <2>17, <2>18, <2>19, <2>20, <2>21,
       <2>22, <2>23, <2>24, <2>25, <2>26
    DEF Next, SchedulerStep, WorkerFinishes, RequestBegins, RequestReturns
<1>3. QED
  BY <1>1, <1>2, PTL DEF Spec

-----------------------------------------------------------------------------
(* The inductive invariant, one part at a time *)

\* scheduleMu is held by exactly the round or the cancellation in progress.
LEMMA LockStep == TypeOK /\ LockOwned /\ [Next]_vars => LockOwned'
<1> SUFFICES ASSUME TypeOK, LockOwned, [Next]_vars PROVE LockOwned'
  OBVIOUS
<1> USE PipelineAssumption DEF LockOwned, TypeOK, round, request
<1>1. CASE RoundBegin \/ RoundFetch \/ RoundMark \/ RoundSpawn \/ RoundEnd
  BY <1>1 DEF RoundBegin, RoundFetch, RoundMark, RoundSpawn, RoundEnd, RoundOver
<1>2. ASSUME NEW t \in Tasks, RoundAdmit(t) PROVE LockOwned'
  BY <1>2 DEF RoundAdmit
<1>3. ASSUME NEW c \in Clients, NEW t \in Tasks, RetryRead(c, t) \/ DeleteCheck(c, t)
      PROVE  LockOwned'
  BY <1>3 DEF RetryRead, DeleteCheck, Ask
<1>4. ASSUME NEW c \in Clients, NEW t \in Tasks, CancelRead(c, t) PROVE LockOwned'
  BY <1>4 DEF CancelRead, Ask
<1>5. ASSUME NEW c \in Clients, RetryWrite(c) \/ DeleteWrite(c) PROVE LockOwned'
  BY <1>5 DEF RetryWrite, DeleteWrite, Answer
<1>6. ASSUME NEW c \in Clients, CancelAct(c) PROVE LockOwned'
  BY <1>6 DEF CancelAct, Answer
<1>7. CASE Crash
  BY <1>7 DEF Crash
<1>8. CASE UNCHANGED <<scheduleMu, roundPc, reqOp>>
  BY <1>8
<1>9. ASSUME NEW w \in Workers, Progress(w) \/ WorkerFinishes(w) \/ Panics(w)
      PROVE  UNCHANGED <<scheduleMu, roundPc, reqOp>>
  BY <1>9 DEF Progress, WorkerFinishes, Execute, Judge, Persist, Unregister, Panics
<1>10. ASSUME \/ \E t \in Tasks : EnqueueTask(t)
              \/ ConfirmHistory \/ ClearCompletedTasks
              \/ \E paused \in BOOLEAN : SetHistoryPaused(paused)
       PROVE  UNCHANGED <<scheduleMu, roundPc, reqOp>>
  BY <1>10 DEF EnqueueTask, ConfirmHistory, ClearCompletedTasks, SetHistoryPaused
<1>11. ASSUME CloseCancel \/ CloseBarrier \/ CloseStore \/ Restart \/ CoolDown
       PROVE  UNCHANGED <<scheduleMu, roundPc, reqOp>>
  BY <1>11 DEF CloseCancel, CloseBarrier, CloseStore, Restart, CoolDown
<1>12. CASE UNCHANGED vars
  BY <1>12 DEF vars
<1>13. QED
  BY <1>1, <1>2, <1>3, <1>4, <1>5, <1>6, <1>7, <1>8, <1>9, <1>10, <1>11, <1>12
  DEF Next, SchedulerStep, RequestBegins, RequestReturns

\* The steps that touch neither the round, the registered tasks nor a worker.
LEMMA QuietSteps ==
  ASSUME TypeOK,
         \/ \E w \in Workers : Progress(w)
         \/ RequestBegins
         \/ \E c \in Clients : RequestReturns(c)
         \/ CloseCancel \/ CloseBarrier \/ CloseStore \/ Restart \/ CoolDown
         \/ UNCHANGED vars
  PROVE  UNCHANGED <<round, runningTasks, workers>>
<1> USE DEF memory, round, workers
<1>1. CASE \E w \in Workers : Progress(w)
  BY <1>1 DEF Progress
<1>2. CASE \E c \in Clients : RequestReturns(c)
  BY <1>2 DEF RequestReturns, RetryWrite, DeleteWrite, CancelAct
<1>3. CASE RequestBegins
  BY <1>3 DEF RequestBegins, EnqueueTask, ConfirmHistory, ClearCompletedTasks,
              SetHistoryPaused, RetryRead, DeleteCheck, CancelRead
<1>4. CASE CloseCancel \/ CloseBarrier \/ CloseStore \/ Restart \/ CoolDown
  BY <1>4 DEF CloseCancel, CloseBarrier, CloseStore, Restart, CoolDown
<1>5. CASE UNCHANGED vars
  BY <1>5 DEF vars
<1>6. QED
  BY <1>1, <1>2, <1>3, <1>4, <1>5

\* A round never registers more tasks than it counted free slots.
LEMMA SlotsStep == TypeOK /\ SlotsCounted /\ LockOwned /\ [Next]_vars => SlotsCounted'
<1> SUFFICES ASSUME TypeOK, SlotsCounted, LockOwned, [Next]_vars PROVE SlotsCounted'
  OBVIOUS
<1> USE PipelineAssumption DEF TypeOK
<1>1. /\ IsFiniteSet(runningTasks) /\ Cardinality(runningTasks) \in Nat
      /\ IsFiniteSet(batch) /\ Cardinality(batch) \in Nat
      /\ \A S \in SUBSET Tasks : Cardinality(S) \in Nat
  BY FS_Subset, FS_CardinalityType
<1>2. ASSUME NEW t
      PROVE  /\ Cardinality(runningTasks \ {t}) \in Nat
             /\ Cardinality(runningTasks \ {t}) <= Cardinality(runningTasks)
  <2>1. runningTasks \ {t} \in SUBSET runningTasks
    OBVIOUS
  <2>2. QED BY <1>1, <2>1, FS_Subset, FS_CardinalityType
<1>4. CASE RoundBegin
  BY <1>1, <1>4 DEF RoundBegin, FreeSlots, SlotsCounted, memory
<1>5. CASE RoundFetch
  <2>1. CASE RoundOver
    BY <1>1, <1>5, <2>1 DEF RoundFetch, RoundOver, SlotsCounted, memory
  <2>2. ASSUME NEW pend \in SUBSET Tasks, NEW paus \in SUBSET Tasks,
               PendingSelection(slots, pend, paus), batch' = pend \cup paus,
               roundPc' = "start"
        PROVE  SlotsCounted'
    <3>1. Cardinality(batch') <= slots /\ Cardinality(batch') \in Nat
      BY <2>2, <1>1 DEF PendingSelection
    <3>2. QED BY <1>1, <1>5, <2>2, <3>1 DEF RoundFetch, SlotsCounted, memory
  <2>3. QED BY <1>5, <2>1, <2>2 DEF RoundFetch
<1>6. ASSUME NEW t \in Tasks, RoundAdmit(t) PROVE SlotsCounted'
  <2>1. t \in batch /\ Cardinality(batch') = Cardinality(batch) - 1
    BY <1>1, <1>6, FS_RemoveElement DEF RoundAdmit, NextInBatch
  <2>2. Cardinality(runningTasks') <= Cardinality(runningTasks) + 1
        /\ Cardinality(runningTasks') \in Nat
    <3>1. /\ IsFiniteSet(runningTasks \cup {t})
          /\ Cardinality(runningTasks \cup {t}) <= Cardinality(runningTasks) + 1
      <4>1. /\ IsFiniteSet(runningTasks \cup {t})
            /\ Cardinality(runningTasks \cup {t}) =
                 IF t \in runningTasks THEN Cardinality(runningTasks)
                                       ELSE Cardinality(runningTasks) + 1
        BY <1>1, FS_AddElement, Zenon
      <4>2. QED BY <1>1, <4>1
    <3>2. Cardinality(runningTasks \cup {t}) \in Nat
      BY <3>1, FS_CardinalityType
    <3>3. runningTasks' \in {runningTasks, runningTasks \cup {t}}
      BY <1>6 DEF RoundAdmit
    <3>4. CASE runningTasks' = runningTasks
      BY <1>1, <3>4
    <3>5. CASE runningTasks' = runningTasks \cup {t}
      <4>1. Cardinality(runningTasks') = Cardinality(runningTasks \cup {t})
        BY <3>5
      <4>2. QED BY <3>1, <3>2, <4>1
    <3>6. QED BY <3>3, <3>4, <3>5
  <2>3. /\ UNCHANGED slots /\ roundPc = "start"
        /\ \/ roundPc' = "mark"
           \/ UNCHANGED <<roundPc, runningTasks>>
    BY <1>6 DEF RoundAdmit
  <2>4. Cardinality(runningTasks) + Cardinality(batch) <= MaxConcurrent
    BY <2>3 DEF SlotsCounted
  <2>5. Cardinality(runningTasks') + Cardinality(batch') <= MaxConcurrent
    BY <1>1, <2>1, <2>2, <2>4
  <2>6. QED BY <2>3, <2>5 DEF SlotsCounted
<1>7. CASE RoundMark
  <2>1. CASE UNCHANGED runningTasks
    BY <1>1, <1>7, <2>1 DEF RoundMark, SlotsCounted
  <2>2. CASE runningTasks' = runningTasks \ {current} /\ roundPc' = "start"
    <3>1. /\ Cardinality(runningTasks') \in Nat
          /\ Cardinality(runningTasks') <= Cardinality(runningTasks)
      BY <1>2, <2>2
    <3>2. roundPc = "mark" /\ batch' = batch
      BY <1>7 DEF RoundMark
    <3>3. QED BY <1>1, <2>2, <3>1, <3>2 DEF SlotsCounted
  <2>3. QED BY <1>7, <2>1, <2>2 DEF RoundMark
<1>8. CASE RoundSpawn
  BY <1>1, <1>8 DEF RoundSpawn, SlotsCounted, memory
<1>9. CASE RoundEnd
  BY <1>1, <1>9 DEF RoundEnd, RoundOver, SlotsCounted, memory
<1>10. ASSUME NEW w \in Workers, Execute(w) \/ Judge(w) \/ Persist(w) \/ Panics(w)
       PROVE  SlotsCounted'
  BY <1>10 DEF Execute, Judge, Persist, Panics, SlotsCounted, memory, round
<1>11. ASSUME NEW w \in Workers, Unregister(w) PROVE SlotsCounted'
  <2>1. runningTasks' = runningTasks \ {workerTask[w]} /\ UNCHANGED <<roundPc, slots, batch>>
    BY <1>11 DEF Unregister, round
  <2>2. /\ Cardinality(runningTasks') \in Nat
        /\ Cardinality(runningTasks') <= Cardinality(runningTasks)
    BY <1>2, <2>1
  <2>3. QED BY <1>1, <2>1, <2>2 DEF SlotsCounted
<1>12. CASE Crash
  BY <1>12, FS_EmptySet DEF Crash, SlotsCounted
<1>13. CASE UNCHANGED <<round, runningTasks, workers>>
  BY <1>13 DEF SlotsCounted, round
<1>14. QED
  BY <1>4, <1>5, <1>6, <1>7, <1>8, <1>9, <1>10, <1>11, <1>12, <1>13, QuietSteps
  DEF Next, SchedulerStep, WorkerFinishes

\* A busy worker's task is registered, and registered for that worker only.
LEMMA WorkersStep ==
  TypeOK /\ WorkersRegistered /\ [Next]_vars => WorkersRegistered'
<1> SUFFICES ASSUME TypeOK, WorkersRegistered, [Next]_vars PROVE WorkersRegistered'
  OBVIOUS
<1> USE PipelineAssumption DEF TypeOK, WorkersRegistered, OneExecutor, Busy
<1>1. CASE RoundBegin \/ RoundFetch \/ RoundEnd
  BY <1>1 DEF RoundBegin, RoundFetch, RoundEnd, RoundOver, memory, workers
<1>2. ASSUME NEW t \in Tasks, RoundAdmit(t) PROVE WorkersRegistered'
  BY <1>2 DEF RoundAdmit, Unregistered, workers
<1>3. CASE RoundMark
  BY <1>3 DEF RoundMark, workers
<1>4. CASE RoundSpawn
  <2>1. PICK w \in Workers :
          /\ workerPc[w] = "idle"
          /\ workerPc' = [workerPc EXCEPT ![w] = "run"]
          /\ workerTask' = [workerTask EXCEPT ![w] = current]
    BY <1>4 DEF RoundSpawn, IdleWorkers
  <2>2. roundPc = "spawn" /\ roundPc' = "start" /\ UNCHANGED runningTasks
    BY <1>4 DEF RoundSpawn, memory
  <2>3. \A v \in Workers :
          /\ v # w => (workerPc'[v] = workerPc[v] /\ workerTask'[v] = workerTask[v])
          /\ v = w => workerTask'[v] = current
    BY <2>1
  <2>4. QED BY <2>1, <2>2, <2>3
<1>5. ASSUME NEW w \in Workers, Execute(w) \/ Judge(w) \/ Persist(w) \/ Panics(w)
      PROVE  WorkersRegistered'
  BY <1>5 DEF Execute, Judge, Persist, Panics, memory, round
<1>6. ASSUME NEW w \in Workers, Unregister(w) PROVE WorkersRegistered'
  BY <1>6 DEF Unregister, round
<1>7. CASE Crash
  BY <1>7 DEF Crash
<1>8. CASE UNCHANGED <<round, runningTasks, workers>>
  BY <1>8 DEF round, workers
<1>9. QED
  BY <1>1, <1>2, <1>3, <1>4, <1>5, <1>6, <1>7, <1>8, QuietSteps
  DEF Next, SchedulerStep, WorkerFinishes

\* Once Close has passed the barrier no round begins again in this process.
LEMMA BarrierStep ==
  TypeOK /\ LockOwned /\ BarrierPassed /\ [Next]_vars => BarrierPassed'
<1> SUFFICES ASSUME TypeOK, LockOwned, BarrierPassed, [Next]_vars PROVE BarrierPassed'
  OBVIOUS
<1> USE PipelineAssumption DEF TypeOK, BarrierPassed, Busy
<1>1. CASE SchedulerStep
  BY <1>1 DEF SchedulerStep, RoundBegin, RoundFetch, RoundMark, RoundSpawn, RoundEnd,
              RoundAdmit
<1>2. ASSUME NEW w \in Workers, WorkerFinishes(w) \/ Panics(w)
      PROVE  BarrierPassed'
  BY <1>2 DEF WorkerFinishes, Execute, Judge, Persist, Unregister, Panics, round
<1>3. CASE CloseCancel \/ CloseStore \/ Restart
  BY <1>3 DEF CloseCancel, CloseStore, Restart, round, workers
<1>4. CASE CloseBarrier
  BY <1>4 DEF CloseBarrier, LockOwned, round, workers
<1>5. CASE Crash
  BY <1>5 DEF Crash
<1>6. ASSUME UNCHANGED <<phase, round, workers>> PROVE BarrierPassed'
  BY <1>6 DEF round, workers
<1>7. ASSUME \/ \E w \in Workers : Progress(w)
             \/ \E c \in Clients : RequestReturns(c)
             \/ RequestBegins \/ CoolDown \/ UNCHANGED vars
      PROVE  UNCHANGED phase
  BY <1>7 DEF Progress, RequestReturns, RetryWrite, DeleteWrite, CancelAct, RequestBegins,
              EnqueueTask, ConfirmHistory, ClearCompletedTasks, SetHistoryPaused,
              RetryRead, DeleteCheck, CancelRead, CoolDown, vars
<1>8. QED
  BY <1>1, <1>2, <1>3, <1>4, <1>5, <1>6, <1>7, QuietSteps DEF Next, WorkerFinishes

LEMMA IInvCorrect == Spec => []IInv
<1>1. Init => IInv
  BY FS_EmptySet, PipelineAssumption
  DEF Init, IInv, LockOwned, SlotsCounted, WorkersRegistered, OneExecutor, BarrierPassed, Busy
<1>2. TypeOK /\ IInv /\ [Next]_vars => IInv'
  BY LockStep, SlotsStep, WorkersStep, BarrierStep DEF IInv
<1>3. QED
  BY <1>1, <1>2, TypeCorrect, PTL DEF Spec

-----------------------------------------------------------------------------
(* What the rows say while rounds, executions and requests are under way *)

Waits(t)    == t \in overtaken \/ row[t] \in {"pending", "paused", "deleted"}
Underway(t) == t \in overtaken \/ row[t] \in {"running", "deleted"}

\* A task of the snapshot waits, one that executes is running, and one that has
\* been executed is not, unless its result was lost.
RowsFollow ==
  /\ roundPc = "idle" => batch = {}
  /\ \A t \in batch : Waits(t)
  /\ roundPc = "mark" => /\ current \notin batch /\ Waits(current)
                         /\ row[current] # "running" \/ current \in unsaved
  /\ roundPc = "spawn" => Underway(current)
  /\ \A w \in Workers :
       /\ workerPc[w] \in {"run", "judge", "write"} => Underway(workerTask[w])
       /\ workerPc[w] \in {"judge", "write"} => workerStatus[w] \notin {"pending", "running"}
       /\ workerPc[w] = "exit" => row[workerTask[w]] # "running" \/ workerTask[w] \in unsaved
  /\ \A c \in Clients :
       /\ reqOp[c] = "retry" => reqSeen[c] \in {"failed", "cancelled"}
       /\ reqOp[c] = "cancel" /\ reqSeen[c] \in Cancellable => Waits(reqTask[c])

\* Nothing runs in a process that has died.
DownIsIdle ==
  phase = "down" => Busy = {} /\ roundPc = "idle" /\ \A c \in Clients : reqOp[c] = "none"

\* A registered task is executed, or about to be.
RegisteredExecutes ==
  \A t \in runningTasks : \/ \E w \in Busy : workerTask[w] = t
                          \/ roundPc \in {"mark", "spawn"} /\ t = current

\* The tasks of a preview do not exist before it is confirmed, nor without their
\* mark after that.
HistoryConfirmed ==
  /\ \A t \in hist : Exists(t)
  /\ ~confirmed =>
       /\ hist = {}
       /\ \A t \in HistoryTasks : row[t] = "none" /\ t \notin batch \cup runningTasks
       /\ \A c \in Clients : reqOp[c] # "none" => reqTask[c] \notin HistoryTasks

\* A history task is started beside overtaken ones at most.
HistoryAlone ==
  /\ HistoryOneAtATime
  /\ roundPc \in {"mark", "spawn"} /\ current \in hist =>
       \A w \in ExecutingHistory : workerTask[w] \in overtaken

\* The steps that write no row, and the variables the rows must agree with.
LEMMA RowsAlone ==
  ASSUME RowsFollow, RunningRowOwned,
         UNCHANGED <<row, runningTasks, workerPc, workerTask, workerStatus, unsaved, overtaken>>,
         UNCHANGED <<reqOp, reqTask, reqSeen>>,
         \/ UNCHANGED round
         \/ roundPc' = "fetch" /\ batch' = batch
         \/ roundPc' \in {"idle", "start"} /\ batch' = {},
         phase # "down" \/ phase' = "down"
  PROVE  RowsFollow' /\ RunningRowOwned'
BY DEF RowsFollow, RunningRowOwned, Waits, Underway, round

\* A row may be written "pending", "cancelled" or "deleted" where it neither
\* executes nor will, unless a stale request is recorded as such.
LEMMA RequestRows ==
  ASSUME TypeOK, IInv, RowsFollow, RunningRowOwned, HistoryConfirmed,
         RequestBegins \/ \E c \in Clients : RequestReturns(c)
  PROVE  RowsFollow' /\ RunningRowOwned'
<1> USE DEF memory, round, workers, request, ghosts, counters, store
<1>1. ASSUME NEW t \in Tasks, EnqueueTask(t)
      PROVE  RowsFollow' /\ RunningRowOwned'
  <2>1. /\ row[t] = "none" /\ row' = [row EXCEPT ![t] = "pending"]
        /\ UNCHANGED <<phase, memory, round, workers, request, ghosts>>
    BY <1>1 DEF EnqueueTask
  <2>2. \A u \in Tasks : u # t => row'[u] = row[u]
    BY <2>1 DEF TypeOK
  <2>3. row'[t] = "pending"
    BY <2>1 DEF TypeOK
  <2>4. \A u \in Tasks : (Waits(u) => Waits(u)') /\ (Underway(u) => Underway(u)')
                         /\ (row'[u] = "running" => row[u] = "running")
    BY <2>1, <2>2, <2>3 DEF Waits, Underway
  <2>5. QED BY <2>1, <2>4 DEF RowsFollow, RunningRowOwned, TypeOK
<1>2. CASE ConfirmHistory
  <2>1. /\ \A t \in HistoryTasks : row[t] = "none"
        /\ row' = [t \in Tasks |-> IF t \in HistoryTasks THEN "pending" ELSE row[t]]
        /\ UNCHANGED <<phase, memory, round, workers, request, ghosts>>
    BY <1>2 DEF ConfirmHistory, HistoryConfirmed
  <2>2. \A u \in Tasks : (Waits(u) => Waits(u)') /\ (Underway(u) => Underway(u)')
                         /\ (row'[u] = "running" => row[u] = "running")
    BY <2>1 DEF Waits, Underway
  <2>3. QED BY <2>1, <2>2 DEF RowsFollow, RunningRowOwned, TypeOK
<1>3. ASSUME NEW p \in BOOLEAN, SetHistoryPaused(p)
      PROVE  RowsFollow' /\ RunningRowOwned'
  BY <1>3 DEF SetHistoryPaused, RowsFollow, RunningRowOwned, Waits, Underway
<1>4. ASSUME NEW c \in Clients, NEW t \in Tasks,
             RetryRead(c, t) \/ DeleteCheck(c, t) \/ CancelRead(c, t)
      PROVE  RowsFollow' /\ RunningRowOwned'
  <2>1. /\ UNCHANGED <<row, phase, memory, round, workers, ghosts>>
        /\ \A d \in Clients : d # c => /\ reqOp'[d] = reqOp[d] /\ reqSeen'[d] = reqSeen[d]
                                       /\ reqTask'[d] = reqTask[d]
        /\ reqTask'[c] = t /\ reqSeen'[c] = row[t]
        /\ reqOp'[c] = "retry" => row[t] \in {"failed", "cancelled"}
    BY <1>4 DEF RetryRead, DeleteCheck, CancelRead, Ask, TypeOK
  <2>2. row[t] \in Cancellable => Waits(t)
    BY DEF Waits, Cancellable
  <2>3. QED BY <2>1, <2>2 DEF RowsFollow, RunningRowOwned, Waits, Underway
<1>5. CASE ClearCompletedTasks
  <2>1. /\ row' = [t \in Tasks |-> IF row[t] = "completed" THEN "deleted" ELSE row[t]]
        /\ UNCHANGED <<phase, memory, round, workers, request, ghosts>>
    BY <1>5 DEF ClearCompletedTasks, Deleted
  <2>2. \A u \in Tasks : (Waits(u) => Waits(u)') /\ (Underway(u) => Underway(u)')
                         /\ (row'[u] = "running" => row[u] = "running")
    BY <2>1 DEF Waits, Underway
  <2>3. QED BY <2>1, <2>2 DEF RowsFollow, RunningRowOwned, TypeOK
<1>6. ASSUME NEW c \in Clients, RetryWrite(c) \/ DeleteWrite(c) \/ CancelAct(c)
      PROVE  RowsFollow' /\ RunningRowOwned'
  <2>1. /\ UNCHANGED <<phase, runningTasks, round, workers, unsaved>>
        /\ overtaken \subseteq overtaken'
        /\ reqTask[c] \in Tasks
        /\ \A d \in Clients : \/ d # c /\ reqOp'[d] = reqOp[d] /\ reqSeen'[d] = reqSeen[d]
                                      /\ reqTask'[d] = reqTask[d]
                              \/ d = c /\ reqOp'[d] = "none"
    BY <1>6 DEF RetryWrite, DeleteWrite, CancelAct, Answer, TypeOK
  <2> DEFINE t == reqTask[c]
  <2>2. /\ \A u \in Tasks : u # t => row'[u] = row[u]
        /\ row'[t] \in {row[t], "pending", "deleted", "cancelled"}
    BY <1>6, <2>1 DEF RetryWrite, DeleteWrite, CancelAct, Written, Deleted, TypeOK
  <2>3. \A u \in Tasks : row'[u] = "running" => row[u] = "running"
    BY <2>2
  <2>4. CASE RetryWrite(c)
    <3>1. reqSeen[c] \in {"failed", "cancelled"}
      BY <2>4 DEF RetryWrite, RowsFollow
    <3>2. \/ row'[t] = row[t]
          \/ /\ row'[t] = "pending" /\ row[t] \in Stored
             /\ row[t] # reqSeen[c] => t \in overtaken'
      BY <2>1, <2>4 DEF RetryWrite, Written, Exists, TypeOK
    <3>3. \A u \in Tasks : (Waits(u) => Waits(u)') /\ (Underway(u) => Underway(u)')
      BY <2>1, <2>2, <3>1, <3>2 DEF Waits, Underway, Stored
    <3>4. QED BY <2>1, <2>3, <3>3 DEF RowsFollow, RunningRowOwned, TypeOK
  <2>5. CASE DeleteWrite(c)
    <3>1. row'[t] \in {row[t], "deleted"}
      BY <2>1, <2>5 DEF DeleteWrite, Deleted, TypeOK
    <3>2. \A u \in Tasks : (Waits(u) => Waits(u)') /\ (Underway(u) => Underway(u)')
      BY <2>1, <2>2, <3>1 DEF Waits, Underway
    <3>3. QED BY <2>1, <2>3, <3>2 DEF RowsFollow, RunningRowOwned, TypeOK
  <2>6. CASE CancelAct(c)
    <3>1. roundPc = "idle" /\ batch = {} /\ \A d \in Clients \ {c} : reqOp[d] # "cancel"
      <4>1. scheduleMu = c
        BY <2>6 DEF CancelAct, IInv, LockOwned
      <4>2. QED BY <4>1, PipelineAssumption DEF IInv, LockOwned, RowsFollow, TypeOK
    <3>2. row'[t] = row[t] \/ t \notin runningTasks
      BY <2>6, <2>1 DEF CancelAct, TypeOK
    <3>3. \A w \in Workers : workerPc[w] # "idle" => row'[workerTask[w]] = row[workerTask[w]]
      BY <2>2, <3>2 DEF IInv, WorkersRegistered, Busy, TypeOK
    <3>4. UNCHANGED overtaken
      BY <2>6 DEF CancelAct
    <3>5. QED BY <2>1, <2>3, <3>1, <3>3, <3>4 DEF RowsFollow, RunningRowOwned, Underway, TypeOK
  <2>7. QED BY <1>6, <2>4, <2>5, <2>6
<1>7. QED BY <1>1, <1>2, <1>3, <1>4, <1>5, <1>6 DEF RequestBegins, RequestReturns

LEMMA RoundRows ==
  ASSUME TypeOK, IInv, RowsFollow, RunningRowOwned, SchedulerStep
  PROVE  RowsFollow' /\ RunningRowOwned'
<1> USE DEF memory, round, workers, request, ghosts, counters, store
<1>1. CASE RoundBegin
  BY <1>1, RowsAlone DEF RoundBegin
<1>2. CASE RoundFetch
  <2>1. CASE RoundOver
    BY <1>2, <2>1, RowsAlone DEF RoundFetch, RoundOver
  <2>2. ASSUME NEW pend \in SUBSET Tasks, NEW paus \in SUBSET Tasks,
               PendingSelection(slots, pend, paus), batch' = pend \cup paus, roundPc' = "start",
               phase = "up"
        PROVE  RowsFollow' /\ RunningRowOwned'
    <3>1. /\ UNCHANGED <<row, phase, memory, workers, request, ghosts>>
      BY <1>2 DEF RoundFetch
    <3>2. \A t \in batch' : Waits(t)'
      BY <2>2, <3>1 DEF PendingSelection, Eligible, Waits
    <3>3. QED BY <2>2, <3>1, <3>2 DEF RowsFollow, RunningRowOwned, Waits, Underway
  <2>3. QED BY <1>2, <2>1, <2>2 DEF RoundFetch
<1>3. ASSUME NEW t \in Tasks, RoundAdmit(t)
      PROVE  RowsFollow' /\ RunningRowOwned'
  <2>1. /\ t \in batch /\ batch' = batch \ {t} /\ roundPc = "start"
        /\ UNCHANGED <<row, phase, workers, request, ghosts>>
        /\ \/ /\ t \notin runningTasks /\ phase = "up" /\ runningTasks' = runningTasks \cup {t}
              /\ roundPc' = "mark" /\ current' = t
           \/ UNCHANGED <<runningTasks, roundPc, current>>
    BY <1>3 DEF RoundAdmit, NextInBatch, Unregistered
  <2>2. QED BY <2>1 DEF RowsFollow, RunningRowOwned, Waits, Underway
<1>4. CASE RoundMark
  <2>1. current \in Tasks /\ roundPc = "mark" /\ Waits(current) /\ current \notin batch
        /\ (row[current] # "running" \/ current \in unsaved)
    BY <1>4 DEF RoundMark, RowsFollow, TypeOK
  <2>2. /\ \A w \in Workers : workerPc[w] # "idle" => workerTask[w] # current
        /\ current \in runningTasks /\ \A c \in Clients : reqOp[c] # "cancel"
    BY <2>1, PipelineAssumption DEF IInv, WorkersRegistered, Busy, LockOwned
  <2>3. UNCHANGED <<phase, batch, workers, request, ghosts>>
    BY <1>4 DEF RoundMark
  <2>4. CASE /\ row' = Written(current, "running") /\ roundPc' = "spawn"
             /\ UNCHANGED <<runningTasks, current>>
    <3>1. row'[current] = "running" \/ (row'[current] = row[current] /\ row[current] \notin Stored)
      BY <2>1, <2>4 DEF Written, Exists, TypeOK
    <3>2. \A u \in Tasks : u # current => row'[u] = row[u]
      BY <2>4 DEF Written, TypeOK
    <3>3. Underway(current)'
      BY <2>1, <2>3, <2>4, <3>1 DEF Waits, Underway, Stored
    <3>4. QED
      BY <2>1, <2>2, <2>3, <2>4, <3>2, <3>3
      DEF RowsFollow, RunningRowOwned, Waits, Underway, TypeOK
  <2>5. CASE row' = row /\ roundPc' = "start" /\ runningTasks' = runningTasks \ {current}
    BY <2>1, <2>2, <2>3, <2>5 DEF RowsFollow, RunningRowOwned, Waits, Underway
  <2>6. QED BY <1>4, <2>4, <2>5 DEF RoundMark
<1>5. CASE RoundSpawn
  <2>1. PICK w \in Workers :
          /\ workerPc[w] = "idle"
          /\ workerPc' = [workerPc EXCEPT ![w] = "run"]
          /\ workerTask' = [workerTask EXCEPT ![w] = current]
          /\ workerStatus' = [workerStatus EXCEPT ![w] = "running"]
    BY <1>5 DEF RoundSpawn, IdleWorkers
  <2>2. /\ roundPc = "spawn" /\ roundPc' = "start"
        /\ UNCHANGED <<row, phase, memory, batch, request, ghosts>>
    BY <1>5 DEF RoundSpawn
  <2>3. \A v \in Workers :
          \/ v # w /\ workerPc'[v] = workerPc[v] /\ workerTask'[v] = workerTask[v]
                   /\ workerStatus'[v] = workerStatus[v]
          \/ v = w /\ workerTask'[v] = current /\ workerPc'[v] = "run"
    BY <2>1 DEF TypeOK
  <2>4. QED BY <2>2, <2>3 DEF RowsFollow, RunningRowOwned, Waits, Underway
<1>6. CASE RoundEnd
  BY <1>6, RowsAlone DEF RoundEnd, RoundOver
<1>7. QED BY <1>1, <1>2, <1>3, <1>4, <1>5, <1>6 DEF SchedulerStep

LEMMA WorkerRows ==
  ASSUME TypeOK, IInv, RowsFollow, RunningRowOwned,
         NEW w \in Workers, Progress(w) \/ WorkerFinishes(w) \/ Panics(w)
  PROVE  RowsFollow' /\ RunningRowOwned'
<1> USE DEF memory, round, workers, request, ghosts, counters, store
<1> DEFINE t == workerTask[w]
<1>1. /\ workerPc[w] # "idle" /\ t \in Tasks /\ t \in runningTasks
      /\ \A v \in Workers \ {w} : workerPc[v] # "idle" => workerTask[v] # t
      /\ roundPc \in {"mark", "spawn"} => current # t
  BY DEF Progress, WorkerFinishes, Execute, Judge, Persist, Unregister, Panics, IInv,
         WorkersRegistered, OneExecutor, Busy, TypeOK
<1>2. CASE Progress(w)
  <2>1. /\ t \in overtaken /\ row'[t] = "running" /\ \A u \in Tasks : u # t => row'[u] = row[u]
        /\ UNCHANGED <<phase, runningTasks, round, workers, request, ghosts>> /\ workerPc[w] = "run"
    BY <1>1, <1>2 DEF Progress, Written, Exists, RowsFollow, Underway, Stored, TypeOK
  <2>2. QED BY <1>1, <2>1 DEF RowsFollow, RunningRowOwned, Waits, Underway, TypeOK
<1>3. CASE Execute(w) \/ Judge(w)
  <2>1. /\ UNCHANGED <<row, phase, runningTasks, round, workerTask, request, ghosts>>
        /\ workerPc[w] \in {"run", "judge"}
        /\ \E pc \in {"judge", "write"} : workerPc' = [workerPc EXCEPT ![w] = pc]
        /\ \E s \in Stored \ {"pending", "running"} : workerStatus' = [workerStatus EXCEPT ![w] = s]
    BY <1>3 DEF Execute, Judge, Verdict, RowsFollow, Stored, TypeOK
  <2>2. QED BY <2>1 DEF RowsFollow, RunningRowOwned, Waits, Underway, TypeOK
<1>4. CASE Persist(w)
  <2>1. /\ UNCHANGED <<phase, runningTasks, round, workerTask, workerStatus, request, overtaken>>
        /\ workerPc[w] = "write" /\ workerPc' = [workerPc EXCEPT ![w] = "exit"]
        /\ workerStatus[w] # "running" /\ Underway(t)
        /\ \/ row' = Written(t, workerStatus[w]) /\ unsaved' = unsaved
           \/ row' = row /\ unsaved' = unsaved \cup {t}
    BY <1>4 DEF Persist, RowsFollow
  <2>2. \A u \in Tasks : u # t => row'[u] = row[u]
    BY <1>1, <2>1 DEF Written, TypeOK
  <2>3. \/ t \in overtaken
        \/ row[t] = "deleted" /\ row'[t] = "deleted"
        \/ row[t] = "running"
    BY <1>1, <2>1 DEF Underway, Written, Exists, Stored
  <2>4. row'[t] # "running" \/ t \in unsaved'
    BY <1>1, <2>1 DEF Written, Exists, Stored, TypeOK
  <2>5. \A u \in Tasks : Waits(u) => Waits(u)'
    BY <2>1, <2>2, <2>3 DEF Waits
  <2>6. unsaved \subseteq unsaved'
    BY <2>1
  <2>7. QED BY <1>1, <2>1, <2>2, <2>4, <2>5, <2>6 DEF RowsFollow, RunningRowOwned, Underway, TypeOK
<1>5. CASE Unregister(w)
  <2>1. /\ UNCHANGED <<row, phase, round, request, ghosts>>
        /\ workerPc[w] = "exit" /\ workerPc' = [workerPc EXCEPT ![w] = "idle"]
        /\ runningTasks' = runningTasks \ {t}
        /\ \A v \in Workers : v # w => /\ workerTask'[v] = workerTask[v]
                                       /\ workerStatus'[v] = workerStatus[v]
    BY <1>5 DEF Unregister, TypeOK
  <2>2. QED BY <2>1 DEF RowsFollow, RunningRowOwned, Waits, Underway, TypeOK
<1>6. CASE Panics(w)
  <2>1. /\ UNCHANGED <<row, phase, runningTasks, round, workerTask, workerStatus, request>>
        /\ UNCHANGED overtaken
        /\ workerPc[w] = "run" /\ workerPc' = [workerPc EXCEPT ![w] = "exit"]
        /\ unsaved' = unsaved \cup {t}
    BY <1>6 DEF Panics
  <2>2. QED BY <1>1, <2>1 DEF RowsFollow, RunningRowOwned, Waits, Underway, TypeOK
<1>7. QED BY <1>2, <1>3, <1>4, <1>5, <1>6 DEF WorkerFinishes

LEMMA LifeRows ==
  ASSUME TypeOK, RowsFollow, RunningRowOwned, DownIsIdle,
         CloseCancel \/ CloseBarrier \/ CloseStore \/ Crash \/ Restart \/ CoolDown \/ UNCHANGED vars
  PROVE  RowsFollow' /\ RunningRowOwned'
<1> USE DEF memory, round, workers, request, ghosts, counters, store
<1>1. CASE CloseCancel \/ CloseBarrier \/ CloseStore \/ CoolDown \/ UNCHANGED vars
  BY <1>1, RowsAlone DEF CloseCancel, CloseBarrier, CloseStore, CoolDown, vars
<1>2. CASE Crash
  BY <1>2 DEF Crash, RowsFollow, RunningRowOwned
<1>3. CASE Restart
  BY <1>3 DEF Restart, ResetRunning, RowsFollow, RunningRowOwned, DownIsIdle, Busy
<1>4. QED BY <1>1, <1>2, <1>3

\* A process that has died does nothing until it is restarted.
LEMMA DownStep ==
  ASSUME TypeOK, DownIsIdle, [Next]_vars
  PROVE  DownIsIdle'
<1> USE DEF store, memory, round, workers, request, ghosts, counters
<1>1. CASE Crash
  BY <1>1 DEF Crash, DownIsIdle, Busy
<1>2. CASE UNCHANGED <<phase, workerPc, roundPc, reqOp>>
  BY <1>2 DEF DownIsIdle, Busy
<1>3. CASE phase' # "down"
  BY <1>3 DEF DownIsIdle
<1>4. CASE SchedulerStep
  BY <1>3, <1>4 DEF DownIsIdle, SchedulerStep, RoundBegin, RoundFetch, RoundMark, RoundSpawn,
                    RoundEnd, RoundAdmit
<1>5. ASSUME NEW w \in Workers, Progress(w) \/ WorkerFinishes(w) \/ Panics(w)
      PROVE  DownIsIdle'
  <2>1. phase' = phase /\ w \in Busy
    BY <1>5 DEF Progress, WorkerFinishes, Execute, Judge, Persist, Unregister, Panics, Busy
  <2>2. QED BY <1>3, <2>1 DEF DownIsIdle
<1>6. CASE RequestBegins
  BY <1>2, <1>3, <1>6 DEF RequestBegins, EnqueueTask, ConfirmHistory, ClearCompletedTasks,
     SetHistoryPaused, RetryRead, DeleteCheck, CancelRead, Ask
<1>7. ASSUME NEW c \in Clients, RequestReturns(c)
      PROVE  DownIsIdle'
  <2>1. phase' = phase /\ reqOp[c] # "none"
    BY <1>7 DEF RequestReturns, RetryWrite, DeleteWrite, CancelAct
  <2>2. QED BY <1>3, <2>1 DEF DownIsIdle
<1>8. CASE CloseCancel \/ CloseBarrier \/ CloseStore \/ Restart \/ CoolDown \/ UNCHANGED vars
  BY <1>2, <1>3, <1>8 DEF CloseCancel, CloseBarrier, CloseStore, Restart, CoolDown, vars
<1>9. QED
  BY <1>1, <1>4, <1>5, <1>6, <1>7, <1>8 DEF Next

\* The round registers what it is about to start, and the execution alone
\* unregisters it, with its mark.
LEMMA OwnerStep ==
  ASSUME TypeOK, IInv, RegisteredExecutes, PauseMarkOwned, [Next]_vars
  PROVE  RegisteredExecutes' /\ PauseMarkOwned'
<1> USE DEF memory, round, workers
<1>1. CASE UNCHANGED <<runningTasks, historyPausedTasks, roundPc, current, workerPc, workerTask>>
  BY <1>1 DEF RegisteredExecutes, PauseMarkOwned, Busy
<1>2. ASSUME \/ RoundBegin \/ RoundFetch \/ RoundEnd
             \/ CloseCancel \/ CloseBarrier \/ CloseStore \/ Restart \/ CoolDown
             \/ UNCHANGED vars
             \/ \E w \in Workers : Progress(w)
             \/ \E c \in Clients : RequestReturns(c)
             \/ RequestBegins /\ ~ \E p \in BOOLEAN : SetHistoryPaused(p)
      PROVE  /\ UNCHANGED <<runningTasks, historyPausedTasks, workerPc, workerTask>>
             /\ roundPc \in {"mark", "spawn"} => UNCHANGED <<roundPc, current>>
  <2>1. CASE RoundBegin \/ RoundFetch \/ RoundEnd
    BY <2>1, PipelineAssumption DEF RoundBegin, RoundFetch, RoundEnd, IInv, LockOwned
  <2>2. CASE CloseCancel \/ CloseBarrier \/ CloseStore \/ Restart \/ CoolDown \/ UNCHANGED vars
    BY <2>2 DEF CloseCancel, CloseBarrier, CloseStore, Restart, CoolDown, vars
  <2>3. CASE \E w \in Workers : Progress(w)
    BY <2>3 DEF Progress
  <2>4. CASE \E c \in Clients : RequestReturns(c)
    BY <2>4 DEF RequestReturns, RetryWrite, DeleteWrite, CancelAct
  <2>5. CASE RequestBegins /\ ~ \E p \in BOOLEAN : SetHistoryPaused(p)
    BY <2>5 DEF RequestBegins, EnqueueTask, ConfirmHistory, ClearCompletedTasks, RetryRead,
                DeleteCheck, CancelRead
  <2>6. QED BY <1>2, <2>1, <2>2, <2>3, <2>4, <2>5
<1>3. CASE /\ UNCHANGED <<runningTasks, historyPausedTasks, workerPc, workerTask>>
           /\ roundPc \in {"mark", "spawn"} => UNCHANGED <<roundPc, current>>
  BY <1>3 DEF RegisteredExecutes, PauseMarkOwned, Busy
<1>4. ASSUME NEW p \in BOOLEAN, SetHistoryPaused(p)
      PROVE  RegisteredExecutes' /\ PauseMarkOwned'
  <2>1. /\ scheduleMu = Free /\ UNCHANGED <<runningTasks, round, workers>>
        /\ historyPausedTasks' \subseteq historyPausedTasks \cup runningTasks
    BY <1>4 DEF SetHistoryPaused, HeldByPause
  <2>2. roundPc = "idle"
    BY <2>1, PipelineAssumption DEF IInv, LockOwned
  <2>3. runningTasks \subseteq {workerTask[w] : w \in Busy}
    BY <2>2 DEF RegisteredExecutes
  <2>4. QED BY <2>1, <2>3 DEF RegisteredExecutes, PauseMarkOwned, Busy
<1>5. ASSUME NEW t \in Tasks, RoundAdmit(t)
      PROVE  RegisteredExecutes' /\ PauseMarkOwned'
  <2>1. /\ roundPc = "start" /\ UNCHANGED <<historyPausedTasks, workers>>
        /\ \/ runningTasks' = runningTasks \cup {t} /\ roundPc' = "mark" /\ current' = t
           \/ UNCHANGED <<runningTasks, roundPc, current>>
    BY <1>5 DEF RoundAdmit
  <2>2. QED BY <2>1 DEF RegisteredExecutes, PauseMarkOwned, Busy
<1>6. CASE RoundMark
  <2>1. /\ roundPc = "mark" /\ UNCHANGED <<historyPausedTasks, workers>>
        /\ \/ runningTasks' = runningTasks /\ roundPc' = "spawn" /\ current' = current
           \/ runningTasks' = runningTasks \ {current}
    BY <1>6 DEF RoundMark
  <2>2. QED BY <2>1 DEF RegisteredExecutes, PauseMarkOwned, Busy
<1>7. CASE RoundSpawn
  <2>1. PICK w \in Workers :
          /\ workerPc[w] = "idle"
          /\ workerPc' = [workerPc EXCEPT ![w] = "run"]
          /\ workerTask' = [workerTask EXCEPT ![w] = current]
    BY <1>7 DEF RoundSpawn, IdleWorkers
  <2>2. UNCHANGED <<runningTasks, historyPausedTasks>>
    BY <1>7 DEF RoundSpawn
  <2>3. /\ \A v \in Busy : v \in Busy' /\ workerTask'[v] = workerTask[v]
        /\ w \in Busy' /\ workerTask'[w] = current
    BY <2>1 DEF Busy, TypeOK
  <2>4. QED BY <2>2, <2>3 DEF RegisteredExecutes, PauseMarkOwned
<1>8. ASSUME NEW w \in Workers, Execute(w) \/ Judge(w) \/ Persist(w) \/ Panics(w)
      PROVE  RegisteredExecutes' /\ PauseMarkOwned'
  <2>1. /\ UNCHANGED <<memory, round, workerTask>>
        /\ Busy' = Busy
    BY <1>8 DEF Execute, Judge, Persist, Panics, Busy, TypeOK
  <2>2. QED BY <2>1 DEF RegisteredExecutes, PauseMarkOwned
<1>9. ASSUME NEW w \in Workers, Unregister(w)
      PROVE  RegisteredExecutes' /\ PauseMarkOwned'
  <2>1. /\ runningTasks' = runningTasks \ {workerTask[w]}
        /\ historyPausedTasks' = historyPausedTasks \ {workerTask[w]}
        /\ UNCHANGED round
        /\ \A v \in Busy : v # w => v \in Busy' /\ workerTask'[v] = workerTask[v]
    BY <1>9 DEF Unregister, Busy, TypeOK
  <2>2. QED BY <2>1 DEF RegisteredExecutes, PauseMarkOwned
<1>10. CASE Crash
  BY <1>10 DEF Crash, RegisteredExecutes, PauseMarkOwned
<1>11. QED
  BY <1>2, <1>3, <1>4, <1>5, <1>6, <1>7, <1>8, <1>9, <1>10
  DEF Next, SchedulerStep, WorkerFinishes, RequestBegins

\* A row that is not there is written by an enqueue or by the confirmation only.
LEMMA MarksStep ==
  ASSUME TypeOK, IInv, HistoryConfirmed, [Next]_vars
  PROVE  HistoryConfirmed'
<1> USE DEF store, memory, round, workers, request
<1> DEFINE RowsKept == \A t \in Tasks : /\ Exists(t) => Exists(t)'
                                        /\ row[t] = "none" => row'[t] = "none"
<1>1. \A t \in Tasks, s \in Stored : row' = Written(t, s) => RowsKept
  BY DEF Written, Exists, Stored, TypeOK
<1> HIDE DEF RowsKept
<1>2. ASSUME RowsKept, UNCHANGED <<hist, confirmed>>,
             batch' \subseteq batch \cup {t \in Tasks : Exists(t)},
             runningTasks' \subseteq runningTasks \cup batch,
             \A c \in Clients : \/ reqOp'[c] = "none"
                                \/ reqOp[c] # "none" /\ reqTask'[c] = reqTask[c]
                                \/ Exists(reqTask'[c]) /\ reqTask'[c] \in Tasks
      PROVE  HistoryConfirmed'
  <2>1. \A t \in hist' : Exists(t)'
    BY <1>2 DEF HistoryConfirmed, RowsKept, TypeOK
  <2>2. ASSUME ~confirmed
        PROVE  \A t \in HistoryTasks : row[t] = "none" /\ ~Exists(t) /\ row'[t] = "none"
    BY <1>2, <2>2, PipelineAssumption DEF HistoryConfirmed, RowsKept, Exists, Stored
  <2>3. QED BY <1>2, <2>1, <2>2 DEF HistoryConfirmed
<1>3. CASE SchedulerStep
  <2>1. CASE RoundBegin \/ RoundEnd \/ RoundSpawn
    BY <1>2, <2>1 DEF RoundBegin, RoundEnd, RoundOver, RoundSpawn, RowsKept, Exists
  <2>2. CASE RoundFetch
    <3>1. batch' \subseteq {t \in Tasks : Exists(t)}
      BY <2>2 DEF RoundFetch, RoundOver, PendingSelection, Eligible, Exists, Stored
    <3>2. UNCHANGED <<row, hist, confirmed, runningTasks, request>>
      BY <2>2 DEF RoundFetch
    <3>3. QED BY <1>2, <3>1, <3>2 DEF RowsKept, Exists
  <2>3. ASSUME NEW t \in Tasks, RoundAdmit(t)
        PROVE  HistoryConfirmed'
    <3>1. /\ UNCHANGED <<row, hist, confirmed, request>> /\ batch' \subseteq batch
          /\ runningTasks' \subseteq runningTasks \cup batch
      BY <2>3 DEF RoundAdmit, NextInBatch
    <3>2. QED BY <1>2, <3>1 DEF RowsKept, Exists
  <2>4. CASE RoundMark
    <3>1. /\ UNCHANGED <<hist, confirmed, request, batch>>
          /\ runningTasks' \subseteq runningTasks /\ current \in Tasks
          /\ row' = row \/ row' = Written(current, "running")
      BY <2>4 DEF RoundMark, TypeOK
    <3>2. RowsKept
      BY <1>1, <3>1 DEF RowsKept, Exists, Stored
    <3>3. QED BY <1>2, <3>1, <3>2
  <2>5. QED BY <1>3, <2>1, <2>2, <2>3, <2>4 DEF SchedulerStep
<1>4. ASSUME NEW w \in Workers, Progress(w) \/ WorkerFinishes(w) \/ Panics(w)
      PROVE  HistoryConfirmed'
  <2>1. /\ UNCHANGED <<hist, confirmed, request, batch>> /\ runningTasks' \subseteq runningTasks
        /\ \/ row' = row
           \/ workerTask[w] \in Tasks /\ \E s \in Stored : row' = Written(workerTask[w], s)
    <3>1. workerPc[w] # "idle" => workerTask[w] \in Tasks
      BY DEF TypeOK
    <3>2. workerStatus[w] \in Stored /\ "running" \in Stored
      BY DEF TypeOK, Stored
    <3>3. QED
      BY <1>4, <3>1, <3>2 DEF Progress, WorkerFinishes, Execute, Judge, Persist, Unregister, Panics
  <2>2. RowsKept
    BY <1>1, <2>1 DEF RowsKept, Exists
  <2>3. QED BY <1>2, <2>1, <2>2
<1>5. CASE RequestBegins
  <2>1. ASSUME NEW t \in Tasks, EnqueueTask(t)
        PROVE  HistoryConfirmed'
    <3>1. /\ t \notin HistoryTasks /\ row' = [row EXCEPT ![t] = "pending"]
          /\ UNCHANGED <<hist, confirmed, request, batch, runningTasks>>
      BY <2>1 DEF EnqueueTask
    <3>2. \A u \in Tasks : (u # t => row'[u] = row[u]) /\ (u = t => row'[u] = "pending")
      BY <3>1 DEF TypeOK
    <3>3. QED BY <3>1, <3>2, PipelineAssumption DEF HistoryConfirmed, Exists, Stored, TypeOK
  <2>2. CASE ConfirmHistory
    BY <2>2, PipelineAssumption DEF ConfirmHistory, HistoryConfirmed, Exists, Stored
  <2>3. ASSUME NEW p \in BOOLEAN, SetHistoryPaused(p)
        PROVE  HistoryConfirmed'
    BY <1>2, <2>3 DEF SetHistoryPaused, RowsKept, Exists
  <2>4. ASSUME NEW c \in Clients, NEW t \in Tasks,
               RetryRead(c, t) \/ DeleteCheck(c, t) \/ CancelRead(c, t)
        PROVE  HistoryConfirmed'
    <3>1. Exists(t) /\ UNCHANGED <<row, hist, confirmed, batch, runningTasks>>
      BY <2>4 DEF RetryRead, DeleteCheck, CancelRead, Exists, Stored
    <3>2. \A d \in Clients : \/ d = c /\ reqTask'[d] = t
                             \/ d # c /\ reqTask'[d] = reqTask[d] /\ reqOp'[d] = reqOp[d]
      BY <2>4 DEF RetryRead, DeleteCheck, CancelRead, Ask, TypeOK
    <3>3. QED BY <1>2, <3>1, <3>2 DEF RowsKept, Exists
  <2>5. CASE ClearCompletedTasks
    <3>1. /\ row' = [t \in Tasks |-> IF row[t] = "completed" THEN "deleted" ELSE row[t]]
          /\ hist' = hist \ {t \in Tasks : row[t] = "completed"}
          /\ UNCHANGED <<confirmed, request, batch, runningTasks>>
      BY <2>5 DEF ClearCompletedTasks, Deleted
    <3>2. QED BY <3>1, PipelineAssumption DEF HistoryConfirmed, Exists, Stored, TypeOK
  <2>6. QED BY <1>5, <2>1, <2>2, <2>3, <2>4, <2>5 DEF RequestBegins
<1>6. ASSUME NEW c \in Clients, RequestReturns(c)
      PROVE  HistoryConfirmed'
  <2>1. /\ UNCHANGED <<confirmed, batch, runningTasks>>
        /\ reqTask[c] \in Tasks /\ reqOp[c] # "none"
        /\ \A d \in Clients : \/ reqOp'[d] = "none"
                              \/ reqOp[d] # "none" /\ reqTask'[d] = reqTask[d]
    BY <1>6 DEF RequestReturns, RetryWrite, DeleteWrite, CancelAct, Answer, TypeOK
  <2>2. CASE RetryWrite(c) \/ CancelAct(c)
    <3>1. hist' = hist /\ (row' = row \/ \E s \in Stored : row' = Written(reqTask[c], s))
      BY <2>2 DEF RetryWrite, CancelAct, Stored
    <3>2. RowsKept
      BY <1>1, <2>1, <3>1 DEF RowsKept, Exists
    <3>3. QED BY <1>2, <2>1, <3>1, <3>2
  <2>3. CASE DeleteWrite(c)
    <3>1. CASE row' = row /\ hist' = hist
      BY <1>2, <2>1, <3>1 DEF RowsKept, Exists
    <3>2. CASE row' = Deleted({reqTask[c]}) /\ hist' = hist \ {reqTask[c]}
      <4>1. \A t \in Tasks : row'[t] = IF t = reqTask[c] THEN "deleted" ELSE row[t]
        BY <3>2 DEF Deleted
      <4>2. \A t \in hist' : t \in Tasks /\ t # reqTask[c] /\ t \in hist
        BY <3>2 DEF TypeOK
      <4>3. \A t \in hist' : row'[t] \in Stored
        BY <4>1, <4>2 DEF HistoryConfirmed, Exists
      <4>4. ASSUME ~confirmed
            PROVE  \A t \in HistoryTasks : row'[t] = "none"
        BY <2>1, <4>1, <4>4, PipelineAssumption DEF HistoryConfirmed
      <4>5. QED BY <2>1, <3>2, <4>3, <4>4 DEF HistoryConfirmed, Exists
    <3>3. Deleted({}) = row
      BY DEF Deleted, TypeOK
    <3>4. QED BY <2>3, <3>1, <3>2, <3>3 DEF DeleteWrite
  <2>4. QED BY <1>6, <2>2, <2>3 DEF RequestReturns
<1>7. CASE CloseCancel \/ CloseBarrier \/ CloseStore \/ CoolDown \/ UNCHANGED vars
  BY <1>2, <1>7 DEF CloseCancel, CloseBarrier, CloseStore, CoolDown, vars, RowsKept, Exists
<1>8. CASE Crash
  BY <1>8 DEF Crash, HistoryConfirmed, Exists
<1>9. CASE Restart
  <2>1. \A t \in Tasks : (Exists(t) => Exists(t)') /\ (row[t] = "none" => row'[t] = "none")
    BY <1>9 DEF Restart, ResetRunning, Exists, Stored, TypeOK
  <2>2. QED BY <1>9, <2>1, PipelineAssumption DEF Restart, HistoryConfirmed, TypeOK
<1>10. QED
  BY <1>3, <1>4, <1>5, <1>6, <1>7, <1>8, <1>9 DEF Next

\* The steps that start no history task: what executes was executing before.
LEMMA HistoryKept ==
  ASSUME HistoryAlone,
         \A w \in ExecutingHistory' : w \in ExecutingHistory /\ workerTask'[w] = workerTask[w],
         overtaken \subseteq overtaken',
         roundPc' \in {"mark", "spawn"} /\ current' \in hist' =>
           roundPc \in {"mark", "spawn"} /\ current \in hist
  PROVE  HistoryAlone'
BY DEF HistoryAlone, HistoryOneAtATime

\* A round admits a history task only while no history row says "running", and
\* a row that executes says so unless its task was overtaken.
LEMMA HistoryStep ==
  ASSUME TypeOK, IInv, DownIsIdle, RowsFollow, HistoryConfirmed, HistoryAlone, [Next]_vars
  PROVE  HistoryAlone'
<1> USE DEF store, memory, round, workers, request, ghosts, counters
<1>1. CASE SchedulerStep
  <2>1. CASE RoundBegin \/ RoundFetch \/ RoundEnd \/ RoundMark
    <3>1. /\ UNCHANGED <<hist, workers, overtaken>>
          /\ roundPc' \in {"mark", "spawn"} => roundPc = "mark" /\ current' = current
      BY <2>1 DEF RoundBegin, RoundFetch, RoundEnd, RoundOver, RoundMark
    <3>2. QED BY <3>1, HistoryKept DEF ExecutingHistory
  <2>2. ASSUME NEW t \in Tasks, RoundAdmit(t)
        PROVE  HistoryAlone'
    <3>1. /\ UNCHANGED <<row, hist, workers, overtaken>> /\ roundPc = "start"
          /\ \/ roundPc' = roundPc
             \/ current' = t /\ (t \in hist => NoHistoryRunning)
      BY <2>2 DEF RoundAdmit, HistoryAllowed
    <3>2. ASSUME NoHistoryRunning, NEW w \in ExecutingHistory
          PROVE  workerTask[w] \in overtaken
      <4>1. w \in Workers /\ workerPc[w] = "run" /\ workerTask[w] \in hist
        BY DEF ExecutingHistory
      <4>2. Exists(workerTask[w]) /\ row[workerTask[w]] # "running"
        BY <3>2, <4>1 DEF NoHistoryRunning, HistoryConfirmed
      <4>3. Underway(workerTask[w])
        BY <4>1 DEF RowsFollow
      <4>4. QED BY <4>2, <4>3 DEF Underway, Exists, Stored
    <3>3. QED BY <3>1, <3>2 DEF HistoryAlone, HistoryOneAtATime, ExecutingHistory
  <2>3. CASE RoundSpawn
    <3>1. PICK w \in Workers :
            /\ workerPc[w] = "idle"
            /\ workerPc' = [workerPc EXCEPT ![w] = "run"]
            /\ workerTask' = [workerTask EXCEPT ![w] = current]
      BY <2>3 DEF RoundSpawn, IdleWorkers
    <3>2. roundPc = "spawn" /\ roundPc' = "start" /\ UNCHANGED <<hist, overtaken>>
      BY <2>3 DEF RoundSpawn
    <3>3. \A v \in ExecutingHistory' :
            \/ v = w /\ workerTask'[v] = current /\ current \in hist
            \/ v \in ExecutingHistory /\ workerTask'[v] = workerTask[v]
      BY <3>1, <3>2 DEF ExecutingHistory, TypeOK
    <3>4. current \in hist => \A v \in ExecutingHistory : workerTask[v] \in overtaken
      BY <3>2 DEF HistoryAlone
    <3>5. HistoryOneAtATime'
      BY <3>2, <3>3, <3>4 DEF HistoryAlone, HistoryOneAtATime
    <3>6. QED BY <3>2, <3>5 DEF HistoryAlone
  <2>4. QED BY <1>1, <2>1, <2>2, <2>3 DEF SchedulerStep
<1>2. ASSUME NEW w \in Workers, Progress(w) \/ WorkerFinishes(w) \/ Panics(w)
      PROVE  HistoryAlone'
  <2>1. /\ UNCHANGED <<hist, round, overtaken>>
        /\ \A v \in Workers : workerPc'[v] = "run" =>
             workerPc[v] = "run" /\ workerTask'[v] = workerTask[v]
    BY <1>2 DEF Progress, WorkerFinishes, Execute, Judge, Persist, Unregister, Panics, TypeOK
  <2>2. QED BY <2>1, HistoryKept DEF ExecutingHistory
<1>3. CASE RequestBegins
  <2>1. CASE ConfirmHistory
    <3>1. hist' = HistoryTasks /\ UNCHANGED <<round, workers, overtaken>> /\ ~confirmed
      BY <2>1 DEF ConfirmHistory, HistoryConfirmed
    <3>2. runningTasks \cap HistoryTasks = {}
      BY <3>1 DEF HistoryConfirmed
    <3>3. ExecutingHistory' = {}
      BY <3>1, <3>2 DEF ExecutingHistory, IInv, WorkersRegistered, Busy
    <3>4. roundPc' \in {"mark", "spawn"} => current' \notin hist'
      BY <3>1, <3>2 DEF IInv, WorkersRegistered
    <3>5. QED BY <3>3, <3>4 DEF HistoryAlone, HistoryOneAtATime
  <2>2. CASE ~ConfirmHistory
    <3>1. UNCHANGED <<round, workers, overtaken>> /\ hist' \subseteq hist
      BY <1>3, <2>2 DEF RequestBegins, EnqueueTask, SetHistoryPaused, RetryRead, DeleteCheck,
                        CancelRead, ClearCompletedTasks
    <3>2. QED BY <3>1, HistoryKept DEF ExecutingHistory
  <2>3. QED BY <2>1, <2>2
<1>4. ASSUME NEW c \in Clients, RequestReturns(c)
      PROVE  HistoryAlone'
  <2>1. UNCHANGED <<round, workers>> /\ hist' \subseteq hist /\ overtaken \subseteq overtaken'
    BY <1>4 DEF RequestReturns, RetryWrite, DeleteWrite, CancelAct
  <2>2. QED BY <2>1, HistoryKept DEF ExecutingHistory
<1>5. CASE CloseCancel \/ CloseBarrier \/ CloseStore \/ CoolDown \/ UNCHANGED vars
  <2>1. UNCHANGED <<hist, round, workers, overtaken>>
    BY <1>5 DEF CloseCancel, CloseBarrier, CloseStore, CoolDown, vars
  <2>2. QED BY <2>1, HistoryKept DEF ExecutingHistory
<1>6. CASE Crash
  BY <1>6 DEF Crash, HistoryAlone, HistoryOneAtATime, ExecutingHistory
<1>7. CASE Restart
  BY <1>7 DEF Restart, DownIsIdle, Busy, HistoryAlone, HistoryOneAtATime, ExecutingHistory
<1>8. QED
  BY <1>1, <1>2, <1>3, <1>4, <1>5, <1>6, <1>7 DEF Next

\* What the rows, the requests and the history marks agree on, in every state.
QueueInv ==
  /\ DownIsIdle /\ RowsFollow /\ RunningRowOwned
  /\ RegisteredExecutes /\ PauseMarkOwned
  /\ HistoryConfirmed /\ HistoryAlone

LEMMA QueueInvCorrect == Spec => []QueueInv
<1>1. Init => QueueInv
  BY PipelineAssumption
  DEF Init, QueueInv, DownIsIdle, RowsFollow, RunningRowOwned, RegisteredExecutes, PauseMarkOwned,
      HistoryConfirmed, HistoryAlone, HistoryOneAtATime, ExecutingHistory, Busy, Exists
<1>2. TypeOK /\ IInv /\ QueueInv /\ [Next]_vars => QueueInv'
  <2> SUFFICES ASSUME TypeOK, IInv, QueueInv, [Next]_vars PROVE QueueInv'
    OBVIOUS
  <2> USE DEF QueueInv
  <2>1. RowsFollow' /\ RunningRowOwned'
    BY RequestRows, RoundRows, WorkerRows, LifeRows DEF Next
  <2>2. QED BY <2>1, DownStep, OwnerStep, MarksStep, HistoryStep
<1>3. QED
  BY <1>1, <1>2, TypeCorrect, IInvCorrect, PTL DEF Spec

\* A row of a task that has ended is written by requests only.
LEMMA EndedStep ==
  ASSUME TypeOK, IInv, QueueInv, [Next]_vars,
         NEW t \in Tasks, row[t] \in {"completed", "failed", "cancelled"}
  PROVE  \/ row'[t] \in {row[t], "deleted"}
         \/ row'[t] = "pending" /\ row[t] # "completed"
         \/ t \in overtaken'
<1> USE DEF QueueInv, store, memory, round, workers, request, ghosts, counters
<1> DEFINE Goal == \/ row'[t] \in {row[t], "deleted"}
                   \/ row'[t] = "pending" /\ row[t] # "completed"
                   \/ t \in overtaken'
<1>1. CASE row' = row
  BY <1>1
<1>2. ASSUME NEW u \in Tasks, NEW s \in Stored, row' = Written(u, s), overtaken' = overtaken,
             Waits(u) \/ Underway(u)
      PROVE  Goal
  BY <1>2 DEF Written, Waits, Underway, TypeOK
<1> HIDE DEF Goal
<1>3. CASE SchedulerStep
  <2>1. CASE RoundMark
    <3>1. row' = row \/ row' = Written(current, "running")
      BY <2>1 DEF RoundMark
    <3>2. current \in Tasks /\ Waits(current) /\ overtaken' = overtaken
      BY <2>1 DEF RoundMark, RowsFollow, TypeOK
    <3>3. "running" \in Stored
      BY DEF Stored
    <3>4. QED BY <1>1, <1>2, <3>1, <3>2, <3>3 DEF Goal
  <2>2. CASE ~RoundMark
    BY <1>1, <1>3, <2>2 DEF Goal, SchedulerStep, RoundBegin, RoundFetch, RoundAdmit,
                                  RoundSpawn, RoundEnd
  <2>3. QED BY <2>1, <2>2 DEF Goal
<1>4. ASSUME NEW w \in Workers, Progress(w) \/ WorkerFinishes(w) \/ Panics(w)
      PROVE  Goal
  <2>1. CASE row' = row
    BY <1>1, <2>1 DEF Goal
  <2>2. CASE row' # row
    <3>1. /\ workerPc[w] \in {"run", "judge", "write"} /\ overtaken' = overtaken
          /\ \/ row' = Written(workerTask[w], "running")
             \/ row' = Written(workerTask[w], workerStatus[w])
      BY <1>4, <2>2 DEF Progress, WorkerFinishes, Execute, Judge, Persist, Unregister, Panics
    <3>2. workerTask[w] \in Tasks /\ Underway(workerTask[w])
      BY <3>1 DEF RowsFollow, TypeOK
    <3>3. "running" \in Stored /\ workerStatus[w] \in Stored
      BY DEF Stored, TypeOK
    <3>4. QED BY <1>2, <3>1, <3>2, <3>3 DEF Goal
  <2>3. QED BY <2>1, <2>2
<1>5. CASE RequestBegins
  <2>1. ASSUME NEW u \in Tasks, EnqueueTask(u)
        PROVE  Goal
    BY <2>1 DEF EnqueueTask, Goal, TypeOK
  <2>2. CASE ConfirmHistory
    BY <2>2 DEF ConfirmHistory, HistoryConfirmed, Goal
  <2>3. CASE ClearCompletedTasks
    BY <2>3 DEF ClearCompletedTasks, Deleted, Goal
  <2>4. CASE row' = row
    BY <1>1, <2>4 DEF Goal
  <2>5. CASE \/ \E p \in BOOLEAN : SetHistoryPaused(p)
             \/ \E c \in Clients, u \in Tasks :
                  RetryRead(c, u) \/ DeleteCheck(c, u) \/ CancelRead(c, u)
    BY <2>4, <2>5 DEF SetHistoryPaused, RetryRead, DeleteCheck, CancelRead
  <2>6. QED
    BY <1>5, <2>1, <2>2, <2>3, <2>5 DEF RequestBegins, Goal
<1>6. ASSUME NEW c \in Clients, RequestReturns(c)
      PROVE  Goal
  <2>1. reqTask[c] \in Tasks
    BY <1>6 DEF RequestReturns, RetryWrite, DeleteWrite, CancelAct, TypeOK
  <2>2. CASE RetryWrite(c)
    <3>1. reqSeen[c] \in {"failed", "cancelled"}
      BY <2>2 DEF RetryWrite, RowsFollow
    <3>2. CASE phase = "up" /\ reqTask[c] = t
      <4>1. row'[t] = "pending"
        BY <2>1, <2>2, <3>2 DEF RetryWrite, Written, Exists, Stored, TypeOK
      <4>2. row[t] = reqSeen[c] \/ t \in overtaken'
        BY <2>2, <3>2 DEF RetryWrite
      <4>3. QED BY <3>1, <4>1, <4>2 DEF Goal
    <3>3. CASE ~(phase = "up" /\ reqTask[c] = t)
      <4>1. row'[t] = row[t]
        BY <2>1, <2>2, <3>3 DEF RetryWrite, Written, TypeOK
      <4>2. QED BY <4>1 DEF Goal
    <3>4. QED BY <3>2, <3>3
  <2>3. CASE DeleteWrite(c)
    BY <2>3 DEF DeleteWrite, Deleted, Goal
  <2>4. CASE CancelAct(c)
    <3>1. CASE row' = row
      BY <1>1, <3>1 DEF Goal
    <3>2. CASE row' # row
      <4>1. /\ reqOp[c] = "cancel" /\ reqSeen[c] \in Cancellable
            /\ row' = Written(reqTask[c], "cancelled") /\ overtaken' = overtaken
        BY <2>4, <3>2 DEF CancelAct
      <4>2. Waits(reqTask[c]) /\ "cancelled" \in Stored
        BY <4>1 DEF RowsFollow, Stored
      <4>3. QED BY <1>2, <2>1, <4>1, <4>2
    <3>3. QED BY <3>1, <3>2
  <2>5. QED BY <1>6, <2>2, <2>3, <2>4 DEF RequestReturns
<1>7. CASE Restart
  BY <1>7 DEF Restart, ResetRunning, Goal
<1>8. CASE CloseCancel \/ CloseBarrier \/ CloseStore \/ Crash \/ CoolDown \/ UNCHANGED vars
  BY <1>1, <1>8 DEF CloseCancel, CloseBarrier, CloseStore, Crash, CoolDown, vars, Goal
<1>9. QED
  BY <1>3, <1>4, <1>5, <1>6, <1>7, <1>8 DEF Next, Goal

-----------------------------------------------------------------------------
(* The refinement: from the write of its start to the write of its outcome *)

Stage == IF phase = "draining" THEN "closing" ELSE phase

\* What executes is registered, in a process that lives and a store that is open.
LEMMA ExecutingOwned ==
  ASSUME TypeOK, IInv, QueueInv
  PROVE  /\ Executing \subseteq runningTasks
         /\ \A t \in Executing : Underway(t)
         /\ Executing # {} => phase \in {"up", "closing", "draining"}
         /\ phase \in {"draining", "down"} => roundPc = "idle"
<1>1. Executing \subseteq runningTasks
  BY DEF Executing, IInv, WorkersRegistered, Busy
<1>2. \A t \in Executing : Underway(t)
  BY DEF Executing, QueueInv, RowsFollow
<1>3. phase \in {"draining", "closed", "down"} => roundPc = "idle"
  BY DEF IInv, BarrierPassed, QueueInv, DownIsIdle
<1>4. phase \in {"closed", "down"} => \A w \in Workers : workerPc[w] = "idle"
  BY DEF IInv, BarrierPassed, QueueInv, DownIsIdle, Busy
<1>5. Executing # {} => phase \in {"up", "closing", "draining"}
  BY <1>3, <1>4 DEF Executing, TypeOK, Phase
<1>6. QED BY <1>1, <1>2, <1>3, <1>5

\* Another execution can start: those under way hold other places of the snapshot.
LEMMA PlaceFree ==
  ASSUME TypeOK, IInv, QueueInv, roundPc = "mark"
  PROVE  /\ current \in Tasks /\ current \notin Executing
         /\ Cardinality(Executing) < MaxConcurrent
<1> USE PipelineAssumption
<1>1. current \in Tasks /\ current \in runningTasks /\ current \notin Executing
  BY DEF TypeOK, IInv, WorkersRegistered, Busy, Executing
<1>2. Executing \subseteq runningTasks \ {current}
  BY <1>1, ExecutingOwned
<1>3. IsFiniteSet(runningTasks) /\ IsFiniteSet(runningTasks \ {current}) /\ IsFiniteSet(batch)
  BY FS_Subset DEF TypeOK
<1>4. Cardinality(Executing) <= Cardinality(runningTasks \ {current})
  BY <1>2, <1>3, FS_Subset
<1>5. Cardinality(runningTasks \ {current}) = Cardinality(runningTasks) - 1
  BY <1>1, <1>3, FS_RemoveElement
<1>6. Cardinality(runningTasks) + Cardinality(batch) <= MaxConcurrent
  BY DEF IInv, SlotsCounted
<1>7. /\ Cardinality(runningTasks) \in Nat /\ Cardinality(batch) \in Nat
      /\ IsFiniteSet(Executing) /\ Cardinality(Executing) \in Nat
  BY <1>2, <1>3, FS_Subset, FS_CardinalityType
<1>8. QED BY <1>1, <1>4, <1>5, <1>6, <1>7

\* A write to the table is the same write of the life cycle.
LEMMA SameWrite ==
  /\ \A t, s : row \in [Tasks -> Status] /\ t \in Tasks => Written(t, s) = Lifecycle!Put(t, s)
  /\ \A S : Deleted(S) = Lifecycle!All(S, "deleted")
  /\ ResetRunning = Lifecycle!All({t \in Tasks : row[t] = "running"}, "pending")
BY DEF Written, Exists, Stored, Status, Lifecycle!Put, Deleted, Lifecycle!All, ResetRunning

\* Both modules count with the operator of FiniteSets.
LEMMA SameCount == \A S : Lifecycle!Cardinality(S) = Cardinality(S)
BY DEF Cardinality, Lifecycle!Cardinality

\* The steps that show: the goroutine of the round writes that a task starts.
LEMMA RoundLifecycle ==
  ASSUME TypeOK, IInv, QueueInv, SchedulerStep
  PROVE  [Lifecycle!Next]_(Lifecycle!vars)
<1>1. CASE RoundMark
  <2>1. UNCHANGED <<workerPc, workerTask, overtaken, phase>>
    BY <1>1 DEF RoundMark, workers, ghosts
  <2>2. CASE roundPc' = "spawn"
    <3>1. /\ phase = "up" /\ roundPc = "mark" /\ row' = Written(current, "running")
          /\ current' = current
      BY <1>1, <2>2 DEF RoundMark
    <3>2. current \in Tasks /\ current \notin Executing /\ Cardinality(Executing) < MaxConcurrent
      BY <3>1, PlaceFree
    <3>3. Executing' = Executing \cup {current}
      BY <2>1, <2>2, <3>1 DEF Executing
    <3>4. row[current] \in {"pending", "paused", "deleted"} \/ current \in overtaken
      BY <3>1 DEF QueueInv, RowsFollow, Waits
    <3>5. row' = Lifecycle!Put(current, "running")
      BY <3>1, <3>2, SameWrite DEF TypeOK
    <3>6. Lifecycle!Start(current)
      BY <2>1, <3>1, <3>2, <3>3, <3>4, <3>5, SameCount DEF Lifecycle!Start, Lifecycle!Waiting
    <3>7. QED BY <3>2, <3>6 DEF Lifecycle!Next
  <2>3. CASE roundPc' # "spawn"
    <3>1. roundPc # "spawn" /\ row' = row
      BY <1>1, <2>3 DEF RoundMark
    <3>2. Executing' = Executing
      BY <2>1, <2>3, <3>1 DEF Executing
    <3>3. QED BY <2>1, <3>1, <3>2 DEF Lifecycle!vars
  <2>4. QED BY <2>2, <2>3
<1>2. CASE RoundSpawn
  <2>1. PICK w \in IdleWorkers :
          /\ workerPc' = [workerPc EXCEPT ![w] = "run"]
          /\ workerTask' = [workerTask EXCEPT ![w] = current]
    BY <1>2 DEF RoundSpawn
  <2>2. roundPc = "spawn" /\ roundPc' = "start" /\ UNCHANGED <<row, overtaken, phase>>
    BY <1>2 DEF RoundSpawn, store, ghosts
  <2>3. Executing' = Executing
    BY <2>1, <2>2 DEF IdleWorkers, Executing, TypeOK
  <2>4. QED BY <2>2, <2>3 DEF Lifecycle!vars
<1>3. CASE RoundBegin \/ RoundFetch \/ RoundEnd \/ \E t \in Tasks : RoundAdmit(t)
  <2>1. /\ roundPc # "spawn" /\ roundPc' # "spawn"
        /\ UNCHANGED <<row, overtaken, phase, workerPc, workerTask>>
    <3>1. CASE RoundBegin \/ RoundFetch \/ RoundEnd
      BY <3>1, PipelineAssumption DEF RoundBegin, RoundFetch, RoundEnd, RoundOver, store,
                                      workers, ghosts, IInv, LockOwned
    <3>2. ASSUME NEW t \in Tasks, RoundAdmit(t)
          PROVE  /\ roundPc # "spawn" /\ roundPc' # "spawn"
                 /\ UNCHANGED <<row, overtaken, phase, workerPc, workerTask>>
      BY <3>2 DEF RoundAdmit, workers, ghosts
    <3>3. QED BY <1>3, <3>1, <3>2
  <2>2. Executing' = Executing
    BY <2>1 DEF Executing
  <2>3. QED BY <2>1, <2>2 DEF Lifecycle!vars
<1>4. QED BY <1>1, <1>2, <1>3 DEF SchedulerStep

\* A task leaves the execution with the write of its outcome, or its failure.
LEMMA WorkerLifecycle ==
  ASSUME TypeOK, IInv, QueueInv, NEW w \in Workers, Progress(w) \/ WorkerFinishes(w) \/ Panics(w)
  PROVE  [Lifecycle!Next]_(Lifecycle!vars)
<1> DEFINE t == workerTask[w]
<1>1. /\ workerPc[w] # "idle" /\ t \in Tasks
      /\ \A v \in Workers \ {w} : workerPc[v] # "idle" => workerTask[v] # t
      /\ roundPc = "spawn" => current # t
  BY DEF Progress, WorkerFinishes, Execute, Judge, Persist, Unregister, Panics, IInv,
         WorkersRegistered, OneExecutor, Busy, TypeOK
<1>2. CASE Progress(w)
  <2>1. /\ row' = Written(t, "running") /\ Exists(t) /\ row[t] # "running"
        /\ workerPc[w] = "run"
        /\ UNCHANGED <<overtaken, phase, workerPc, workerTask, roundPc, current>>
    BY <1>2 DEF Progress, workers, round, ghosts
  <2>2. t \in Executing /\ Executing' = Executing
    BY <2>1 DEF Executing
  <2>3. t \in overtaken
    BY <2>1 DEF QueueInv, RowsFollow, Underway, Exists, Stored
  <2>4. Lifecycle!Report(t)
    BY <1>1, <2>1, <2>2, <2>3, SameWrite DEF Lifecycle!Report, TypeOK
  <2>5. QED BY <1>1, <2>4 DEF Lifecycle!Next
<1>3. CASE Persist(w) \/ Panics(w)
  <2>1. /\ workerPc[w] \in {"run", "write"} /\ workerPc' = [workerPc EXCEPT ![w] = "exit"]
        /\ \/ row' = row
           \/ workerPc[w] = "write" /\ row' = Written(t, workerStatus[w])
        /\ UNCHANGED <<overtaken, phase, workerTask, roundPc, current>>
    BY <1>3 DEF Persist, Panics, round, store
  <2>2. t \in Executing /\ Executing' = Executing \ {t}
    BY <1>1, <2>1 DEF Executing, TypeOK
  <2>3. workerPc[w] = "write" => workerStatus[w] \in {"completed", "failed", "cancelled", "paused"}
    BY <2>1 DEF QueueInv, RowsFollow, TypeOK, Stored
  <2>4. Stage \in {"up", "closing"}
    BY <2>2, ExecutingOwned DEF Stage
  <2>5. Lifecycle!End(t)
    BY <1>1, <2>1, <2>2, <2>3, <2>4, SameWrite DEF Lifecycle!End, Lifecycle!Ended, TypeOK, Stage
  <2>6. QED BY <1>1, <2>5 DEF Lifecycle!Next
<1>4. CASE Execute(w) \/ Judge(w) \/ Unregister(w)
  <2>1. /\ UNCHANGED <<row, overtaken, phase, roundPc, current>>
        /\ \/ /\ workerPc[w] \in {"run", "judge"} /\ workerTask' = workerTask
              /\ \E pc \in {"judge", "write"} : workerPc' = [workerPc EXCEPT ![w] = pc]
           \/ /\ workerPc[w] = "exit" /\ workerPc' = [workerPc EXCEPT ![w] = "idle"]
              /\ workerTask' = [workerTask EXCEPT ![w] = NoTask]
    BY <1>4 DEF Execute, Judge, Unregister, store, round, ghosts
  <2>2. Executing' = Executing
    BY <2>1 DEF Executing, TypeOK
  <2>3. QED BY <2>1, <2>2 DEF Lifecycle!vars
<1>5. QED BY <1>2, <1>3, <1>4 DEF WorkerFinishes

\* Requests write rows of tasks that do not execute, or overtake them.
LEMMA RequestLifecycle ==
  ASSUME TypeOK, IInv, QueueInv,
         RequestBegins \/ \E c \in Clients : RequestReturns(c)
  PROVE  [Lifecycle!Next]_(Lifecycle!vars)
<1> USE SameWrite
<1>1. UNCHANGED <<round, workers, phase>>
  BY DEF RequestBegins, EnqueueTask, ConfirmHistory, SetHistoryPaused, RetryRead, DeleteCheck,
         CancelRead, ClearCompletedTasks, RequestReturns, RetryWrite, DeleteWrite, CancelAct
<1>2. Executing' = Executing /\ Stage' = Stage
  BY <1>1 DEF Executing, Stage, round, workers
<1>3. row \in [Tasks -> Status]
  BY DEF TypeOK
<1>4. ASSUME NEW t \in Tasks, EnqueueTask(t) PROVE Lifecycle!Create({t})
  BY <1>1, <1>2, <1>3, <1>4 DEF EnqueueTask, Lifecycle!Create, Lifecycle!All, Stage, ghosts
<1>5. CASE ConfirmHistory
  <2>1. \A t \in HistoryTasks : row[t] = "none"
    BY <1>5 DEF ConfirmHistory, QueueInv, HistoryConfirmed
  <2>2. Lifecycle!Create(HistoryTasks)
    BY <1>1, <1>2, <1>5, <2>1
    DEF ConfirmHistory, StoreOpen, Lifecycle!Create, Lifecycle!All, Stage, ghosts
  <2>3. QED BY <2>2, PipelineAssumption DEF Lifecycle!Next
<1>6. CASE \/ \E paused \in BOOLEAN : SetHistoryPaused(paused)
           \/ \E c \in Clients, t \in Tasks :
                RetryRead(c, t) \/ DeleteCheck(c, t) \/ CancelRead(c, t)
  <2>1. UNCHANGED <<row, overtaken>>
    BY <1>6 DEF SetHistoryPaused, RetryRead, DeleteCheck, CancelRead, store, ghosts
  <2>2. QED BY <1>1, <1>2, <2>1 DEF Lifecycle!vars
<1>7. CASE ClearCompletedTasks
  <2> DEFINE done == {t \in Tasks : row[t] = "completed"}
  <2>1. phase = "up" /\ row' = Deleted(done) /\ overtaken' = overtaken
    BY <1>7 DEF ClearCompletedTasks, ghosts
  <2>2. done \cap Executing \subseteq overtaken
    BY ExecutingOwned DEF Underway
  <2>3. Lifecycle!Delete(done)
    BY <1>1, <1>2, <2>1, <2>2 DEF Lifecycle!Delete, Stage
  <2>4. QED BY <2>3 DEF Lifecycle!Next
<1>8. ASSUME NEW c \in Clients, RequestReturns(c)
      PROVE  [Lifecycle!Next]_(Lifecycle!vars)
  <2> DEFINE t == reqTask[c]
  <2>1. t \in Tasks
    BY <1>8 DEF RequestReturns, RetryWrite, DeleteWrite, CancelAct, TypeOK
  <2>2. CASE row' = row /\ overtaken' = overtaken
    BY <1>1, <1>2, <2>2 DEF Lifecycle!vars
  <2>3. CASE RetryWrite(c) /\ phase = "up"
    <3>1. row' = Written(t, "pending") /\ reqSeen[c] \in {"failed", "cancelled"}
      BY <2>3 DEF RetryWrite, QueueInv, RowsFollow
    <3>2. CASE row[t] = reqSeen[c] /\ t \notin overtaken
      <4>1. t \notin Executing /\ overtaken' = overtaken
        BY <2>3, <3>1, <3>2, ExecutingOwned DEF RetryWrite, Underway
      <4>2. Lifecycle!Retry(t)
        BY <1>1, <1>2, <1>3, <2>1, <2>3, <3>1, <3>2, <4>1 DEF Lifecycle!Retry, Stage
      <4>3. QED BY <2>1, <4>2 DEF Lifecycle!Next
    <3>3. CASE row[t] # reqSeen[c] \/ t \in overtaken
      <4>1. overtaken' = overtaken \cup {t}
        BY <2>3, <3>3 DEF RetryWrite
      <4>2. Lifecycle!Overtake(t)
        BY <1>1, <1>2, <1>3, <2>1, <2>3, <3>1, <4>1 DEF Lifecycle!Overtake, Stage
      <4>3. QED BY <2>1, <4>2 DEF Lifecycle!Next
    <3>4. QED BY <3>2, <3>3
  <2>4. CASE DeleteWrite(c) /\ phase = "up"
    <3>1. row' = Deleted({t}) /\ overtaken' = overtaken \cup ({t} \cap runningTasks)
      BY <2>4 DEF DeleteWrite
    <3>2. CASE t \in runningTasks
      <4>1. Lifecycle!Overtake(t)
        BY <1>1, <1>2, <2>4, <3>1, <3>2 DEF Lifecycle!Overtake, Stage
      <4>2. QED BY <2>1, <4>1 DEF Lifecycle!Next
    <3>3. CASE t \notin runningTasks
      <4>1. overtaken' = overtaken /\ {t} \cap Executing = {}
        BY <3>1, <3>3, ExecutingOwned
      <4>2. Lifecycle!Delete({t})
        BY <1>1, <1>2, <2>4, <3>1, <4>1 DEF Lifecycle!Delete, Stage
      <4>3. QED BY <2>1, <4>2 DEF Lifecycle!Next
    <3>4. QED BY <3>2, <3>3
  <2>5. CASE CancelAct(c) /\ row' # row
    <3>1. /\ t \notin runningTasks /\ reqSeen[c] \in Cancellable /\ phase = "up"
          /\ row' = Written(t, "cancelled") /\ reqOp[c] = "cancel" /\ overtaken' = overtaken
      BY <2>5 DEF CancelAct
    <3>2. t \notin Executing
      BY <3>1, ExecutingOwned
    <3>3. row[t] \in {"pending", "paused", "deleted"} \/ t \in overtaken
      BY <3>1 DEF QueueInv, RowsFollow, Waits
    <3>4. row[t] # "deleted"
      BY <2>1, <2>5, <3>1 DEF Written, Exists, Stored
    <3>5. Lifecycle!Cancel(t)
      BY <1>1, <1>2, <1>3, <2>1, <3>1, <3>2, <3>3, <3>4
      DEF Lifecycle!Cancel, Lifecycle!Waiting, Stage
    <3>6. QED BY <2>1, <3>5 DEF Lifecycle!Next
  <2>6. CASE RetryWrite(c) /\ phase # "up"
    BY <2>2, <2>6 DEF RetryWrite
  <2>7. CASE DeleteWrite(c) /\ phase # "up"
    <3>1. row' = Deleted({}) /\ overtaken' = overtaken
      BY <2>7 DEF DeleteWrite
    <3>2. row' = row
      BY <1>3, <3>1 DEF Deleted
    <3>3. QED BY <2>2, <3>1, <3>2
  <2>8. CASE CancelAct(c) /\ row' = row
    BY <2>2, <2>8 DEF CancelAct
  <2>9. QED BY <1>8, <2>3, <2>4, <2>5, <2>6, <2>7, <2>8 DEF RequestReturns
<1>9. QED BY <1>4, <1>5, <1>6, <1>7, <1>8 DEF RequestBegins, Lifecycle!Next

\* Close waits for what executes; a crash ends it; a restart resets its rows.
LEMMA LifeLifecycle ==
  ASSUME TypeOK, IInv, QueueInv,
         CloseCancel \/ CloseBarrier \/ CloseStore \/ Crash \/ Restart \/ CoolDown \/ UNCHANGED vars
  PROVE  [Lifecycle!Next]_(Lifecycle!vars)
<1>1. CASE CloseCancel \/ CloseBarrier \/ CloseStore \/ CoolDown \/ UNCHANGED vars
  <2>1. UNCHANGED <<row, overtaken, workerPc, workerTask, roundPc, current>>
    BY <1>1 DEF CloseCancel, CloseBarrier, CloseStore, CoolDown, vars, store, round, workers, ghosts
  <2>2. Executing' = Executing
    BY <2>1 DEF Executing
  <2>3. CASE CloseCancel
    <3>1. Lifecycle!Close
      BY <2>1, <2>2, <2>3 DEF CloseCancel, Lifecycle!Close
    <3>2. QED BY <3>1 DEF Lifecycle!Next
  <2>4. CASE CloseStore
    <3>1. Executing = {}
      BY <2>4, ExecutingOwned DEF CloseStore, Executing
    <3>2. Lifecycle!Closed
      BY <2>1, <2>2, <2>4, <3>1 DEF CloseStore, Lifecycle!Closed
    <3>3. QED BY <3>2 DEF Lifecycle!Next
  <2>5. CASE CloseBarrier
    BY <2>1, <2>2, <2>5 DEF CloseBarrier, Lifecycle!vars
  <2>6. CASE CoolDown \/ UNCHANGED vars
    BY <2>1, <2>2, <2>6 DEF CoolDown, vars, Lifecycle!vars
  <2>7. QED BY <1>1, <2>3, <2>4, <2>5, <2>6
<1>2. CASE Crash
  <2>1. Executing' = {}
    BY <1>2 DEF Crash, Executing
  <2>2. Lifecycle!Die
    BY <1>2, <2>1 DEF Crash, Lifecycle!Die, store, ghosts
  <2>3. QED BY <2>2 DEF Lifecycle!Next
<1>3. CASE Restart
  <2>1. UNCHANGED <<workerPc, workerTask, roundPc, current>>
    BY <1>3 DEF Restart, workers, round
  <2>2. Executing' = Executing
    BY <2>1 DEF Executing
  <2>3. Lifecycle!Restart
    BY <1>3, <2>2, SameWrite DEF Restart, Lifecycle!Restart
  <2>4. QED BY <2>3 DEF Lifecycle!Next
<1>4. QED BY <1>1, <1>2, <1>3

-----------------------------------------------------------------------------
(* The results *)

\* No two goroutines ever execute the same task.
THEOREM OneExecutorCorrect == Spec => []OneExecutor
<1>1. IInv => OneExecutor
  BY DEF IInv, WorkersRegistered
<1>2. QED BY <1>1, IInvCorrect, PTL

\* Never more than MaxConcurrent goroutines are in executeTask: each occupies a
\* registered task of its own, and the round counts registered tasks.
THEOREM SlotBoundCorrect == Spec => []SlotBound
<1>1. TypeOK /\ IInv => SlotBound
  <2> SUFFICES ASSUME TypeOK, IInv PROVE SlotBound
    OBVIOUS
  <2> DEFINE taskOf == [w \in Busy |-> workerTask[w]]
  <2>1. taskOf \in Injection(Busy, runningTasks)
    BY DEF IInv, WorkersRegistered, OneExecutor, Injection, IsInjective
  <2>2. IsFiniteSet(runningTasks)
    BY PipelineAssumption, FS_Subset DEF TypeOK
  <2>3. Cardinality(Busy) <= Cardinality(runningTasks)
    BY <2>1, <2>2, FS_Injection
  <2>4. Cardinality(runningTasks) <= MaxConcurrent
    <3>1. Cardinality(runningTasks) \in Nat
      BY <2>2, FS_CardinalityType
    <3>2. Cardinality(batch) \in Nat
      BY PipelineAssumption, FS_Subset, FS_CardinalityType DEF TypeOK
    <3>3. QED
      BY <3>1, <3>2, PipelineAssumption DEF IInv, SlotsCounted, TypeOK
  <2>5. Cardinality(Busy) \in Nat
    BY <2>1, <2>2, FS_Injection, FS_CardinalityType
  <2>6. Cardinality(runningTasks) \in Nat
    BY <2>2, FS_CardinalityType
  <2>7. QED
    BY <2>3, <2>4, <2>5, <2>6, PipelineAssumption DEF SlotBound
<1>2. QED BY <1>1, IInvCorrect, TypeCorrect, PTL

\* The store is closed only when no round and no task can still use it.
THEOREM CloseQuiescesCorrect == Spec => []CloseQuiesces
<1>1. IInv => CloseQuiesces
  BY DEF IInv, BarrierPassed, CloseQuiesces
<1>2. QED BY <1>1, IInvCorrect, PTL

\* No row is left "running" without a registered task, whatever crashes, requests
\* with stale checks, pauses and shutdowns come in between, unless executeTask wrote
\* no outcome for it: its final write failed or a stage panicked (executeTask, Start).
THEOREM RunningRowOwnedCorrect == Spec => []RunningRowOwned
<1>1. QueueInv => RunningRowOwned
  BY DEF QueueInv
<1>2. QED BY <1>1, QueueInvCorrect, PTL

\* A pause mark is only ever set for a task that executes, and goes with it
\* (SetHistoryPaused holds scheduleMu, so it meets no half-started task).
THEOREM PauseMarkOwnedCorrect == Spec => []PauseMarkOwned
<1>1. QueueInv => PauseMarkOwned
  BY DEF QueueInv
<1>2. QED BY <1>1, QueueInvCorrect, PTL

\* History tasks execute one at a time (startHistoryTask's query for a running
\* one), unless a stale request wrote over the row of one that executes.
THEOREM HistoryOneAtATimeCorrect == Spec => []HistoryOneAtATime
<1>1. QueueInv => HistoryOneAtATime
  BY DEF QueueInv, HistoryAlone
<1>2. QED BY <1>1, QueueInvCorrect, PTL

\* No late write of a round, an execution or a cancellation revives a task that
\* has ended: only deletions, retries and overtaken checks change its row.
THEOREM EndedStaysEndedCorrect == Spec => EndedStaysEnded
<1> DEFINE Kept == \A t \in Tasks : row[t] \in {"completed", "failed", "cancelled"} =>
                     \/ row'[t] \in {row[t], "deleted"}
                     \/ row'[t] = "pending" /\ row[t] # "completed"
                     \/ t \in overtaken'
<1>1. TypeOK /\ IInv /\ QueueInv /\ [Next]_vars => [Kept]_vars
  BY EndedStep
<1>2. QED
  BY <1>1, TypeCorrect, IInvCorrect, QueueInvCorrect, PTL DEF Spec, EndedStaysEnded

\* The queue implements the life cycle its clients see: rounds, locks, failing
\* writes, shutdown and crashes add no other change of a row, no second execution
\* and none beyond MaxConcurrent.
THEOREM KeepsLifecycleCorrect == Spec => KeepsLifecycle
<1>1. Init => Lifecycle!Init
  BY DEF Init, Lifecycle!Init, Executing
<1>2. TypeOK /\ IInv /\ QueueInv /\ [Next]_vars => [Lifecycle!Next]_(Lifecycle!vars)
  BY RoundLifecycle, WorkerLifecycle, RequestLifecycle, LifeLifecycle DEF Next
<1>3. QED
  BY <1>1, <1>2, TypeCorrect, IInvCorrect, QueueInvCorrect, PTL
  DEF Spec, KeepsLifecycle, Lifecycle!Spec
==============================================================================
