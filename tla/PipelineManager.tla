--------------------------- MODULE PipelineManager ---------------------------
(***************************************************************************)
(* The persistent post-recording task queue: pipeline.Manager, its SQLite  *)
(* task table and the history-governance tables that throttle it.          *)
(*                                                                         *)
(* Processes: the scheduling rounds (serialised by scheduleMu), one        *)
(* goroutine per executing task, the HTTP clients, and the life cycle of   *)
(* the program (Start, Close, crash, restart).  Rows, history marks, the   *)
(* preview and the rate-limit clock survive a crash; everything else does  *)
(* not.                                                                    *)
(***************************************************************************)
EXTENDS Naturals, FiniteSets

CONSTANTS
  Tasks,          \* task ids (AUTOINCREMENT: a deleted id is never reused)
  HistoryTasks,   \* the ids one confirmed history preview creates
  Workers,        \* goroutines that may run executeTask
  Clients,        \* concurrent HTTP requests
  Ops,            \* the requests clients issue in this instance
  MaxConcurrent,  \* config.MaxConcurrent
  MaxRequests,    \* bound on client requests
  MaxFaults,      \* bound on failed store writes and panicking stages
  MaxRestarts,    \* bound on program restarts
  NoTask, Free, Scheduler

ASSUME PipelineAssumption ==
  /\ IsFiniteSet(Tasks) /\ IsFiniteSet(Workers)
  /\ HistoryTasks \subseteq Tasks
  /\ NoTask \notin Tasks
  /\ Free # Scheduler /\ {Free, Scheduler} \cap Clients = {}
  /\ MaxConcurrent \in Nat \ {0}
  /\ MaxRequests \in Nat /\ MaxFaults \in Nat /\ MaxRestarts \in Nat

VARIABLES
  \* persistent
  row,                \* pipeline_tasks.status; "none" before, "deleted" after
  hist,               \* task ids with a row in history_tasks
  confirmed,          \* the preview's state is 'confirmed'
  previewPaused,      \* history_previews.paused
  cooling,            \* last_started is less than 60 s ago
  olderTries,         \* olderTries[t]: tasks whose started_at precedes t's
  \* in memory
  phase,              \* life cycle of the program and its store
  runningTasks,       \* m.runningTasks
  historyPausedTasks, \* m.historyPausedTasks
  cancelledCtx,       \* running tasks whose own context was cancelled
  scheduleMu,         \* holder of m.scheduleMu
  roundPc,            \* what the scheduling round in progress does next
  slots, batch,       \* its free slots and the tasks left of its snapshot
  fresh,              \* those the snapshot read as pending
  current,            \* the task it is starting
  workerPc,           \* per executeTask goroutine: its position, ...
  workerTask,         \* ... its task ...
  workerStatus,       \* ... and the status in its copy of the task
  reqOp,              \* per client: the request it is in the middle of, ...
  reqTask, reqSeen,   \* ... its task and the status it read
  \* bounds and history
  requests, faults, restarts,
  unsaved,            \* tasks whose outcome was not written: the final write
                      \* failed, or a stage panicked
  userCancelled,      \* tasks whose last CancelTask returned nil
  overtaken           \* tasks retried or deleted on the strength of a stale check

store == <<row, hist, confirmed, previewPaused, cooling, olderTries>>
memory == <<runningTasks, historyPausedTasks, cancelledCtx>>
counters == <<requests, faults, restarts>>
ghosts == <<unsaved, userCancelled, overtaken>>
round == <<roundPc, slots, batch, fresh, current>>
workers == <<workerPc, workerTask, workerStatus>>
request == <<reqOp, reqTask, reqSeen>>
vars == <<store, phase, memory, scheduleMu, round, workers, request,
          counters, ghosts>>

Stored == {"pending", "running", "paused", "completed", "failed", "cancelled"}
Status == Stored \cup {"none", "deleted"}
Phase == {"up", "closing", "draining", "closed", "down"}

TypeOK ==
  /\ row \in [Tasks -> Status]
  /\ hist \subseteq Tasks
  /\ confirmed \in BOOLEAN /\ previewPaused \in BOOLEAN /\ cooling \in BOOLEAN
  /\ olderTries \in [Tasks -> SUBSET Tasks]
  /\ phase \in Phase
  /\ runningTasks \subseteq Tasks
  /\ historyPausedTasks \subseteq Tasks
  /\ cancelledCtx \subseteq Tasks
  /\ scheduleMu \in {Free, Scheduler} \cup Clients
  /\ roundPc \in {"idle", "fetch", "start", "mark", "spawn"}
  /\ slots \in Nat /\ batch \subseteq Tasks /\ fresh \subseteq Tasks
  /\ current \in Tasks \cup {NoTask}
  /\ workerPc \in [Workers -> {"idle", "run", "judge", "write", "exit"}]
  /\ workerTask \in [Workers -> Tasks \cup {NoTask}]
  /\ workerStatus \in [Workers -> Stored]
  /\ reqOp \in [Clients -> {"none", "retry", "delete", "cancel"}]
  /\ reqTask \in [Clients -> Tasks \cup {NoTask}]
  /\ reqSeen \in [Clients -> Status]
  /\ requests \in Nat /\ faults \in Nat /\ restarts \in Nat
  /\ unsaved \subseteq Tasks /\ userCancelled \subseteq Tasks /\ overtaken \subseteq Tasks
  /\ roundPc \in {"mark", "spawn"} => current \in Tasks
  /\ \A w \in Workers : workerPc[w] # "idle" => workerTask[w] \in Tasks
  /\ \A c \in Clients : reqOp[c] # "none" => reqTask[c] \in Tasks

Init ==
  /\ row = [t \in Tasks |-> "none"]
  /\ hist = {}
  /\ confirmed = FALSE /\ previewPaused = FALSE /\ cooling = FALSE
  /\ olderTries = [t \in Tasks |-> {}]
  /\ phase = "up"
  /\ runningTasks = {} /\ historyPausedTasks = {} /\ cancelledCtx = {}
  /\ scheduleMu = Free
  /\ roundPc = "idle" /\ slots = 0 /\ batch = {} /\ fresh = {} /\ current = NoTask
  /\ workerPc = [w \in Workers |-> "idle"]
  /\ workerTask = [w \in Workers |-> NoTask]
  /\ workerStatus = [w \in Workers |-> "running"]
  /\ reqOp = [c \in Clients |-> "none"]
  /\ reqTask = [c \in Clients |-> NoTask]
  /\ reqSeen = [c \in Clients |-> "none"]
  /\ requests = 0 /\ faults = 0 /\ restarts = 0
  /\ unsaved = {} /\ userCancelled = {} /\ overtaken = {}

-----------------------------------------------------------------------------
(* The store *)

Exists(t) == row[t] \in Stored

\* UPDATE ... WHERE id = t: a missing row is not an error and not created.
Written(t, status) == IF Exists(t) THEN [row EXCEPT ![t] = status] ELSE row

StoreOpen == phase \in {"up", "closing", "draining"}

NoHistoryUnfinished == \A t \in hist : row[t] \notin {"running", "pending"}     \* mutant
NoHistoryRunning == \A t \in hist : row[t] # "running"

\* Mutant: the rate-limit clock alone keeps history tasks apart.
HistoryAllowedByClock == confirmed /\ ~previewPaused /\ ~cooling

\* The condition both GetPendingTasks and startHistoryTask put on a history task.
HistoryAllowed == confirmed /\ ~previewPaused /\ ~cooling /\ NoHistoryRunning

\* Mutant: the query does not know the status "paused".
EligiblePending(status) ==
  {t \in Tasks : row[t] = status /\ status = "pending" /\ (t \in hist => HistoryAllowed)}
Eligible(status) == {t \in Tasks : row[t] = status /\ (t \in hist => HistoryAllowed)}

\* ORDER BY started_at: a paused task is not taken before one tried earlier.
Rotation(paus) == \A t \in paus : olderTries[t] \cap Eligible("paused") \subseteq paus

\* GetPendingTasks(limit): pending rows before paused ones, and paused ones in
\* the order they were last started.
PendingSelection(limit, pend, paus) ==
  /\ pend \subseteq Eligible("pending")
  /\ paus \subseteq Eligible("paused")
  /\ Cardinality(pend \cup paus) <= limit
  /\ paus # {} => pend = Eligible("pending")
  /\ pend \cup paus # Eligible("pending") \cup Eligible("paused")
       => Cardinality(pend \cup paus) = limit
  /\ Rotation(paus)

\* started_at := now
Started(t) == [u \in Tasks |-> IF u = t THEN Tasks \ {t} ELSE olderTries[u] \ {t}]

\* ResetRunningTasks
NoReset == row               \* mutant: Start forgets the reset
ResetRunning == [t \in Tasks |-> IF row[t] = "running" THEN "pending" ELSE row[t]]

Deleted(S) == [t \in Tasks |-> IF t \in S THEN "deleted" ELSE row[t]]

-----------------------------------------------------------------------------
(* Scheduling rounds: scheduleNextTasks and startTask *)

\* Mutant: the slots are counted by the rows of the database.
FreeSlotsOfRows ==
  MaxConcurrent - Cardinality({t \in Tasks : row[t] = "running"})
FreeSlots == MaxConcurrent - Cardinality(runningTasks)

\* Rounds come from the ticker and from the goroutines EnqueueTask and
\* RetryTask spawn.  A round that finds no free slot changes nothing.
RoundBegin ==
  /\ scheduleMu = Free /\ phase = "up"
  /\ FreeSlots > 0
  /\ scheduleMu' = Scheduler
  /\ roundPc' = "fetch"
  /\ slots' = FreeSlots
  /\ UNCHANGED <<store, phase, memory, batch, fresh, current, workers, request,
                 counters, ghosts>>

\* Mutant: a round returns without unlocking scheduleMu.
RoundOverLocked ==
  /\ roundPc' = "idle" /\ scheduleMu' = Scheduler
  /\ slots' = 0 /\ batch' = {} /\ fresh' = {} /\ current' = NoTask
RoundOver ==
  /\ roundPc' = "idle" /\ scheduleMu' = Free
  /\ slots' = 0 /\ batch' = {} /\ fresh' = {} /\ current' = NoTask

RoundFetch ==
  /\ roundPc = "fetch"
  /\ \/ /\ phase = "up"
        /\ \E pend, paus \in SUBSET Tasks :
             /\ PendingSelection(slots, pend, paus)
             /\ batch' = pend \cup paus /\ fresh' = pend
        /\ roundPc' = "start"
        /\ UNCHANGED <<scheduleMu, slots, current>>
     \/ phase # "up" /\ RoundOver         \* m.ctx cancelled: the query fails
  /\ UNCHANGED <<store, phase, memory, workers, request, counters, ghosts>>

\* The next task of the snapshot, in its order.
NextInBatch(t) ==
  /\ t \in batch
  /\ \/ t \in fresh
     \/ batch \cap (fresh \cup olderTries[t]) = {}

\* Mutant: the row stands for the registration.
UnregisteredByRow(t) == row[t] # "running"
Unregistered(t) == t \notin runningTasks

\* startHistoryTask spends the 60 s token of a history task; then startTask
\* registers the task unless it is still registered.
RoundAdmit(t) ==
  /\ roundPc = "start" /\ NextInBatch(t)
  /\ batch' = batch \ {t}
  /\ LET allowed == phase = "up" /\ (t \in hist => HistoryAllowed) IN
     /\ cooling' = (cooling \/ (allowed /\ t \in hist))
     /\ \/ /\ allowed /\ Unregistered(t)
           /\ runningTasks' = runningTasks \cup {t}
           /\ cancelledCtx' = cancelledCtx \ {t}
           /\ roundPc' = "mark" /\ current' = t
        \/ /\ ~(allowed /\ Unregistered(t))
           /\ UNCHANGED <<runningTasks, cancelledCtx, roundPc, current>>
  /\ UNCHANGED <<row, hist, confirmed, previewPaused, olderTries, phase, slots, fresh,
                 historyPausedTasks, scheduleMu, workers, request, counters, ghosts>>

\* MarkStarted is persisted before anything runs; when that fails the task is
\* unregistered again.
RoundMark ==
  /\ roundPc = "mark"
  /\ \/ /\ phase = "up"
        /\ row' = Written(current, "running")
        /\ olderTries' = IF Exists(current) THEN Started(current) ELSE olderTries
        /\ roundPc' = "spawn"
        /\ UNCHANGED <<runningTasks, faults, current>>
     \/ /\ phase # "up" \/ faults < MaxFaults
        /\ faults' = IF phase = "up" THEN faults + 1 ELSE faults
        /\ runningTasks' = runningTasks \ {current}
        /\ roundPc' = "start" /\ current' = NoTask
        /\ UNCHANGED <<row, olderTries>>
  /\ UNCHANGED <<hist, confirmed, previewPaused, cooling, phase, historyPausedTasks,
                 cancelledCtx, scheduleMu, slots, batch, fresh, workers, request,
                 requests, restarts, ghosts>>

IdleWorkers == {w \in Workers : workerPc[w] = "idle"}

\* wg.Add and the goroutine that runs executeTask; goroutines are
\* interchangeable, so which idle one stands for the new one does not matter.
RoundSpawn ==
  /\ roundPc = "spawn" /\ IdleWorkers # {}
  /\ LET w == CHOOSE w \in IdleWorkers : TRUE IN
     /\ workerPc' = [workerPc EXCEPT ![w] = "run"]
     /\ workerTask' = [workerTask EXCEPT ![w] = current]
     /\ workerStatus' = [workerStatus EXCEPT ![w] = "running"]
  /\ roundPc' = "start" /\ current' = NoTask
  /\ UNCHANGED <<store, phase, memory, scheduleMu, slots, batch, fresh, request,
                 counters, ghosts>>

RoundEnd ==
  /\ roundPc = "start" /\ batch = {}
  /\ RoundOver
  /\ UNCHANGED <<store, phase, memory, workers, request, counters, ghosts>>

-----------------------------------------------------------------------------
(* executeTask *)

CtxDone(t) == phase # "up" \/ t \in cancelledCtx

\* onProgress writes the in-memory task, whose status is "running".
Progress(w) ==
  /\ workerPc[w] = "run" /\ ~CtxDone(workerTask[w])
  /\ Exists(workerTask[w]) /\ row[workerTask[w]] # "running"
  /\ row' = Written(workerTask[w], "running")
  /\ UNCHANGED <<hist, confirmed, previewPaused, cooling, olderTries, phase, memory,
                 scheduleMu, round, workers, request, counters, ghosts>>

\* The stages have returned; they may succeed even after a cancellation.  An error
\* is a pause when the program closes or the task is marked as paused.
Execute(w) ==
  /\ workerPc[w] = "run"
  /\ \/ /\ workerPc' = [workerPc EXCEPT ![w] = "write"]
        /\ workerStatus' = [workerStatus EXCEPT ![w] = "completed"]
     \/ /\ phase # "up" \/ workerTask[w] \in historyPausedTasks
        /\ workerPc' = [workerPc EXCEPT ![w] = "write"]
        /\ workerStatus' = [workerStatus EXCEPT ![w] = "paused"]
     \/ /\ phase = "up" /\ workerTask[w] \notin historyPausedTasks
        /\ workerPc' = [workerPc EXCEPT ![w] = "judge"]
        /\ \E status \in {"failed", "paused"} :    \* "paused": a preparation waits
             workerStatus' = [workerStatus EXCEPT ![w] = status]
  /\ UNCHANGED <<store, phase, memory, scheduleMu, round, workerTask, request, counters,
                 ghosts>>

VerdictDeleted(w) ==         \* mutant: a cancelled task is treated like a deleted one
  IF CtxDone(workerTask[w]) THEN "deleted" ELSE workerStatus[w]
Verdict(w) == IF CtxDone(workerTask[w]) THEN "cancelled" ELSE workerStatus[w]

\* The task's own context is read after the mark and the manager's context: a pause
\* or a Close that arrives in between makes the outcome "cancelled".
Judge(w) ==
  /\ workerPc[w] = "judge"
  /\ workerPc' = [workerPc EXCEPT ![w] = "write"]
  /\ workerStatus' = [workerStatus EXCEPT ![w] = Verdict(w)]
  /\ UNCHANGED <<store, phase, memory, scheduleMu, round, workerTask, request, counters,
                 ghosts>>

\* A stage panics: bilisentry.Go swallows it, no outcome is written, and of
\* executeTask only the deferred clean-up is left.
Panics(w) ==
  /\ workerPc[w] = "run" /\ faults < MaxFaults
  /\ faults' = faults + 1 /\ unsaved' = unsaved \cup {workerTask[w]}
  /\ workerPc' = [workerPc EXCEPT ![w] = "exit"]
  /\ UNCHANGED <<store, phase, memory, scheduleMu, round, workerTask, workerStatus, request,
                 requests, restarts, userCancelled, overtaken>>

\* The final UpdateTask runs without the manager's cancellation; an error is
\* only logged.
Persist(w) ==
  /\ workerPc[w] = "write"
  /\ \/ /\ row' = Written(workerTask[w], workerStatus[w])
        /\ UNCHANGED <<faults, unsaved>>
     \/ /\ faults < MaxFaults
        /\ faults' = faults + 1 /\ unsaved' = unsaved \cup {workerTask[w]}
        /\ UNCHANGED row
  /\ workerPc' = [workerPc EXCEPT ![w] = "exit"]
  /\ UNCHANGED <<hist, confirmed, previewPaused, cooling, olderTries, phase, memory,
                 scheduleMu, round, workerTask, workerStatus, request, requests, restarts,
                 userCancelled, overtaken>>

\* The deferred clean-up, then wg.Done.
Unregister(w) ==
  /\ workerPc[w] = "exit"
  /\ runningTasks' = runningTasks \ {workerTask[w]}
  /\ historyPausedTasks' = historyPausedTasks \ {workerTask[w]}
  /\ cancelledCtx' = cancelledCtx \ {workerTask[w]}
  /\ workerPc' = [workerPc EXCEPT ![w] = "idle"]
  /\ workerTask' = [workerTask EXCEPT ![w] = NoTask]
  /\ workerStatus' = [workerStatus EXCEPT ![w] = "running"]
  /\ UNCHANGED <<store, phase, scheduleMu, round, request, counters, ghosts>>

-----------------------------------------------------------------------------
(* Requests *)

EnqueueTask(t) ==
  /\ phase = "up" /\ t \notin HistoryTasks /\ row[t] = "none"
  /\ row' = [row EXCEPT ![t] = "pending"]
  /\ UNCHANGED <<hist, confirmed, previewPaused, cooling, olderTries, phase, memory,
                 scheduleMu, round, workers, request, counters, ghosts>>

\* One transaction creates every task of the preview; a repeated confirmation
\* returns the tasks of the first.
ConfirmHistory ==
  /\ StoreOpen /\ scheduleMu = Free
  /\ HistoryTasks # {} /\ ~confirmed
  /\ confirmed' = TRUE
  /\ hist' = hist \cup HistoryTasks
  /\ row' = [t \in Tasks |-> IF t \in HistoryTasks THEN "pending" ELSE row[t]]
  /\ UNCHANGED <<previewPaused, cooling, olderTries, phase, memory, scheduleMu, round,
                 workers, request, counters, ghosts>>

HeldByPauseAll == HistoryTasks    \* mutant: marks the waiting tasks too
HeldByPause == runningTasks \cap HistoryTasks

SetHistoryPaused(paused) ==
  /\ "pause" \in Ops /\ requests < MaxRequests
  /\ StoreOpen /\ scheduleMu = Free /\ confirmed
  /\ previewPaused' = paused
  /\ LET held == IF paused THEN HeldByPause ELSE {} IN
     /\ historyPausedTasks' = historyPausedTasks \cup held
     /\ cancelledCtx' = cancelledCtx \cup held
  /\ requests' = requests + 1
  /\ UNCHANGED <<row, hist, confirmed, cooling, olderTries, phase, runningTasks,
                 scheduleMu, round, workers, request, faults, restarts, ghosts>>

\* A client begins, and ends, a request that takes two steps.
Ask(c, op, t) ==
  /\ op \in Ops /\ requests < MaxRequests
  /\ phase = "up" /\ reqOp[c] = "none"
  /\ reqOp' = [reqOp EXCEPT ![c] = op]
  /\ reqTask' = [reqTask EXCEPT ![c] = t]
  /\ reqSeen' = [reqSeen EXCEPT ![c] = row[t]]
  /\ requests' = requests + 1

Answer(c) ==
  /\ reqOp' = [reqOp EXCEPT ![c] = "none"]
  /\ reqTask' = [reqTask EXCEPT ![c] = NoTask]
  /\ reqSeen' = [reqSeen EXCEPT ![c] = "none"]

\* RetryTask does not take scheduleMu: it checks one read of the row ...
RetryRead(c, t) ==
  /\ row[t] \in {"failed", "cancelled"}
  /\ Ask(c, "retry", t)
  /\ UNCHANGED <<store, phase, memory, scheduleMu, round, workers, faults, restarts,
                 ghosts>>

\* ... and writes what it computed from that read.
RetryWrite(c) ==
  /\ reqOp[c] = "retry"
  /\ row' = IF phase = "up" THEN Written(reqTask[c], "pending") ELSE row
  /\ userCancelled' = IF phase = "up" THEN userCancelled \ {reqTask[c]} ELSE userCancelled
  /\ overtaken' = IF phase = "up" /\ row[reqTask[c]] # reqSeen[c]
                  THEN overtaken \cup {reqTask[c]} ELSE overtaken
  /\ Answer(c)
  /\ UNCHANGED <<hist, confirmed, previewPaused, cooling, olderTries, phase, memory,
                 scheduleMu, round, workers, counters, unsaved>>

\* DeleteTask looks at runningTasks under mu ...
DeleteCheck(c, t) ==
  /\ Exists(t) /\ t \notin runningTasks
  /\ Ask(c, "delete", t)
  /\ UNCHANGED <<store, phase, memory, scheduleMu, round, workers, faults, restarts,
                 ghosts>>

\* ... and deletes the row after releasing it.
DeleteWrite(c) ==
  /\ reqOp[c] = "delete"
  /\ LET gone == IF phase = "up" THEN {reqTask[c]} ELSE {} IN
     /\ row' = Deleted(gone)
     /\ hist' = hist \ gone
     /\ overtaken' = overtaken \cup (gone \cap runningTasks)
  /\ Answer(c)
  /\ UNCHANGED <<confirmed, previewPaused, cooling, olderTries, phase, memory,
                 scheduleMu, round, workers, counters, unsaved, userCancelled>>

CancelRead(c, t) ==
  /\ Exists(t) /\ scheduleMu = Free
  /\ Ask(c, "cancel", t)
  /\ scheduleMu' = c
  /\ UNCHANGED <<store, phase, memory, round, workers, faults, restarts, ghosts>>

CancellableAny == Stored     \* mutant: CancelTask does not look at the status
Cancellable == {"pending", "paused"}

\* A registered task has its context cancelled, whatever its goroutine still
\* does with it; a waiting one is written "cancelled".
CancelAct(c) ==
  /\ reqOp[c] = "cancel"
  /\ LET t == reqTask[c]
         waiting == t \notin runningTasks /\ reqSeen[c] \in Cancellable
                    /\ phase = "up" IN
     /\ cancelledCtx' = IF t \in runningTasks THEN cancelledCtx \cup {t} ELSE cancelledCtx
     /\ row' = IF waiting THEN Written(t, "cancelled") ELSE row
     /\ userCancelled' = IF waiting \/ t \in runningTasks
                         THEN userCancelled \cup {t} ELSE userCancelled
  /\ Answer(c)
  /\ scheduleMu' = Free
  /\ UNCHANGED <<hist, confirmed, previewPaused, cooling, olderTries, phase,
                 runningTasks, historyPausedTasks, round, workers, counters, unsaved,
                 overtaken>>

ClearCompletedTasks ==
  /\ "clear" \in Ops /\ requests < MaxRequests /\ phase = "up"
  /\ LET done == {t \in Tasks : row[t] = "completed"} IN
     /\ done # {}
     /\ row' = Deleted(done)
     /\ hist' = hist \ done
  /\ requests' = requests + 1
  /\ UNCHANGED <<confirmed, previewPaused, cooling, olderTries, phase, memory,
                 scheduleMu, round, workers, request, faults, restarts, ghosts>>

-----------------------------------------------------------------------------
(* Life cycle *)

\* Close: cancel, pass the scheduleMu barrier, wait for wg, close the store.
CloseCancel ==
  /\ phase = "up" /\ phase' = "closing"
  /\ UNCHANGED <<store, memory, scheduleMu, round, workers, request, counters, ghosts>>

CloseWithoutBarrier ==       \* mutant: Close does not pass through scheduleMu
  /\ phase = "closing"
  /\ phase' = "draining"
  /\ UNCHANGED <<store, memory, scheduleMu, round, workers, request, counters, ghosts>>
CloseBarrier ==
  /\ phase = "closing" /\ scheduleMu = Free
  /\ phase' = "draining"
  /\ UNCHANGED <<store, memory, scheduleMu, round, workers, request, counters, ghosts>>

CloseStore ==
  /\ phase = "draining" /\ \A w \in Workers : workerPc[w] = "idle"
  /\ phase' = "closed"
  /\ UNCHANGED <<store, memory, scheduleMu, round, workers, request, counters, ghosts>>

\* The process dies, at any point or after Close: memory is lost.
Crash ==
  /\ phase # "down" /\ restarts < MaxRestarts
  /\ phase' = "down"
  /\ runningTasks' = {} /\ historyPausedTasks' = {} /\ cancelledCtx' = {}
  /\ scheduleMu' = Free
  /\ roundPc' = "idle" /\ slots' = 0 /\ batch' = {} /\ fresh' = {} /\ current' = NoTask
  /\ workerPc' = [w \in Workers |-> "idle"]
  /\ workerTask' = [w \in Workers |-> NoTask]
  /\ workerStatus' = [w \in Workers |-> "running"]
  /\ reqOp' = [c \in Clients |-> "none"]
  /\ reqTask' = [c \in Clients |-> NoTask]
  /\ reqSeen' = [c \in Clients |-> "none"]
  /\ restarts' = restarts + 1
  /\ UNCHANGED <<store, requests, faults, ghosts>>

\* NewSQLiteStore drops orphaned history marks; Start resets running rows.
Restart ==
  /\ phase = "down" /\ phase' = "up"
  /\ row' = ResetRunning
  /\ hist' = {t \in hist : Exists(t)}
  /\ unsaved' = {} /\ overtaken' = {}
  /\ UNCHANGED <<confirmed, previewPaused, cooling, olderTries, memory, scheduleMu,
                 round, workers, request, counters, userCancelled>>

\* 60 seconds have passed since the last history task was admitted.
CoolDown ==
  /\ cooling /\ cooling' = FALSE
  /\ UNCHANGED <<row, hist, confirmed, previewPaused, olderTries, phase, memory,
                 scheduleMu, round, workers, request, counters, ghosts>>

-----------------------------------------------------------------------------
SchedulerStep ==
  \/ RoundBegin \/ RoundFetch \/ RoundMark \/ RoundSpawn \/ RoundEnd
  \/ \E t \in Tasks : RoundAdmit(t)

WorkerFinishes(w) == Execute(w) \/ Judge(w) \/ Persist(w) \/ Unregister(w)

RequestReturns(c) == RetryWrite(c) \/ DeleteWrite(c) \/ CancelAct(c)

RequestBegins ==
  \/ \E t \in Tasks : EnqueueTask(t)
  \/ ConfirmHistory
  \/ \E paused \in BOOLEAN : SetHistoryPaused(paused)
  \/ \E c \in Clients, t \in Tasks :
       RetryRead(c, t) \/ DeleteCheck(c, t) \/ CancelRead(c, t)
  \/ ClearCompletedTasks

Next ==
  \/ SchedulerStep
  \/ \E w \in Workers : Progress(w) \/ WorkerFinishes(w) \/ Panics(w)
  \/ RequestBegins
  \/ \E c \in Clients : RequestReturns(c)
  \/ CloseCancel \/ CloseBarrier \/ CloseStore
  \/ Crash \/ Restart \/ CoolDown

Spec == Init /\ [][Next]_vars

\* The ticker keeps calling scheduleNextTasks, every stage returns, a request
\* that has begun is carried through, and time passes.  Requests, crashes and
\* shutdowns are nobody's obligation.
Fairness ==
  /\ WF_vars(SchedulerStep)
  /\ \A w \in Workers : WF_vars(WorkerFinishes(w))
  /\ \A c \in Clients : WF_vars(RequestReturns(c))
  /\ WF_vars(CloseBarrier) /\ WF_vars(CloseStore) /\ WF_vars(CoolDown)

FairSpec == Spec /\ Fairness

-----------------------------------------------------------------------------
(* Safety *)

Busy == {w \in Workers : workerPc[w] # "idle"}

\* However rounds, finishing tasks and requests interleave, at most
\* MaxConcurrent goroutines are in executeTask (scheduleNextTasks counts the
\* slots once and starts a whole snapshot).
SlotBound == Cardinality(Busy) <= MaxConcurrent

\* Two goroutines never execute the same task, although its row may say
\* "pending" or "paused" while the previous execution is still returning.
OneExecutor == \A v, w \in Busy : workerTask[v] = workerTask[w] => v = w

\* The store is never closed under a scheduling round or an executing task
\* (Close's barrier on scheduleMu makes wg.Wait see every wg.Add).
CloseQuiesces == phase = "closed" => Busy = {} /\ roundPc = "idle"

\* A row that says "running" belongs to a registered task: nothing is left
\* "running" without an owner, unless its final write failed or a stage of it
\* panicked (the two ways executeTask ends without writing an outcome).
RunningRowOwned ==
  phase # "down" => \A t \in Tasks \ unsaved : row[t] = "running" => t \in runningTasks

\* historyPausedTasks never outlives the execution it was set for, so a later
\* failure of the same task is not mistaken for a pause.
PauseMarkOwned == historyPausedTasks \subseteq {workerTask[w] : w \in Busy}

ExecutingHistory == {w \in Workers : workerPc[w] = "run" /\ workerTask[w] \in hist}

\* At most one task that is marked as history executes at a time, across restarts,
\* pauses and retries, unless a request with a stale check wrote over the row of
\* one.  (A task deleted between RoundFetch and RoundMark has lost its mark: it is
\* executed, and startHistoryTask does not hold it back.)
HistoryOneAtATime ==
  \A v, w \in ExecutingHistory : v = w \/ {workerTask[v], workerTask[w]} \cap overtaken # {}

\* What has ended stays ended: a completed, failed or cancelled row changes
\* only by being deleted, by a retry when it did not complete, or after a retry
\* whose check another one had made stale.
EndedStaysEnded ==
  [][\A t \in Tasks : row[t] \in {"completed", "failed", "cancelled"} =>
        \/ row'[t] \in {row[t], "deleted"}
        \/ row'[t] = "pending" /\ row[t] # "completed"
        \/ t \in overtaken']_vars

(***************************************************************************)
(* The queue as its clients see it.  A task is executing from the write of *)
(* its start to the write of its outcome; while it is only registered, or  *)
(* is being unregistered, nothing of it shows.                             *)
(***************************************************************************)
Executing == {workerTask[w] : w \in {v \in Workers : workerPc[v] \in {"run", "judge", "write"}}}
             \cup {t \in {current} : roundPc = "spawn"}

Lifecycle == INSTANCE TaskLifecycle WITH
  status <- row, executing <- Executing,
  phase <- IF phase = "draining" THEN "closing" ELSE phase

\* However rounds, executions, requests, failing writes, shutdowns and crashes
\* interleave, every task goes through the life cycle its clients are promised.
KeepsLifecycle == Lifecycle!Spec

\* Why SlotBound, OneExecutor and CloseQuiesces hold: the parts of their
\* inductive invariant.
LockOwned ==
  /\ scheduleMu = Scheduler <=> roundPc # "idle"
  /\ \A c \in Clients : scheduleMu = c <=> reqOp[c] = "cancel"

SlotsCounted ==
  /\ roundPc = "idle" => Cardinality(runningTasks) <= MaxConcurrent
  /\ roundPc = "fetch" => Cardinality(runningTasks) + slots <= MaxConcurrent
  /\ roundPc \in {"start", "mark", "spawn"} =>
       Cardinality(runningTasks) + Cardinality(batch) <= MaxConcurrent

WorkersRegistered ==
  /\ \A w \in Busy : workerTask[w] \in runningTasks
  /\ OneExecutor
  /\ roundPc \in {"mark", "spawn"} =>
       current \in runningTasks /\ \A w \in Busy : workerTask[w] # current

BarrierPassed ==
  /\ phase \in {"draining", "closed"} => roundPc = "idle"
  /\ phase = "closed" => Busy = {}

IInv == LockOwned /\ SlotsCounted /\ WorkersRegistered /\ BarrierPassed

(* Liveness *)

\* Every ordinary task that waits, newly enqueued or paused for lack of
\* resources, is tried again while the program runs: paused tasks rotate.
WaitingTried ==
  \A t \in Tasks \ HistoryTasks : \A s \in {"pending", "paused"} :
     row[t] = s ~> row[t] # s \/ phase # "up"

\* A confirmed history task is admitted once its preview is not paused, unless a
\* result that was not written, for a failed write or a panic, blocks the history
\* queue.
HistoryTried ==
  \A t \in HistoryTasks :
     row[t] = "pending" ~>
       row[t] # "pending" \/ previewPaused \/ phase # "up" \/ unsaved # {}

\* Close returns: neither the barrier nor the wait for tasks deadlocks.
CloseReturns == phase = "closing" ~> phase \in {"closed", "down"}

-----------------------------------------------------------------------------
(* What the documents and comments claim *)

\* An explicit cancellation stops the automatic resumption of a task (T3
\* report, line 8): a cancelled task is not started again without a retry.
CancelledNotResumed ==
  [][\A t \in userCancelled : row'[t] = "running" => row[t] = "running"]_vars
=============================================================================
