------------------------------ MODULE HLSJobs ------------------------------
(***************************************************************************)
(* The on-demand HLS cache: the job manager (servers/hls_job_manager.go),  *)
(* its read leases, the cache janitor (servers/hls_cache_janitor.go), the  *)
(* playlist and segment handlers that use them, and the budget             *)
(* (pkg/mediawork) that conversions share with the pipeline's stages.      *)
(*                                                                         *)
(* A job is a member of Jobs; a job refused at the door is visible to the  *)
(* one request that asked for it and takes no member.  A step of the       *)
(* manager is what happens under one hold of m.mutex.  Time is what has    *)
(* elapsed since: `old' per finished job, `recent' per key.                *)
(***************************************************************************)
EXTENDS Naturals, Sequences, FiniteSets

CONSTANTS
  Keys,           \* cache keys: one directory each
  MaxJobs,        \* conversions of one process run (bound of the model)
  Requests,       \* HTTP requests served at the same time
  Tasks,          \* pipeline stages that share the budget, again and again
  ConcurrentLimits, QueueLimits,
                  \* the values HLSCache.MaxConcurrent and MaxQueued are set to
  MaxRecords,     \* 1024: how many jobs may be registered
  Reclaims,       \* the janitor has an age or a size limit to enforce
  Grace,          \* HLSCache.ReadGraceSeconds is not zero
  Faults,         \* file operations may fail, and a conversion may panic
  None

ASSUME HLSAssumption ==
  /\ ConcurrentLimits \subseteq Nat \ {0} /\ QueueLimits \subseteq Nat \ {0}
  /\ MaxRecords \in Nat
  /\ Reclaims \in BOOLEAN /\ Grace \in BOOLEAN /\ Faults \in BOOLEAN
  /\ MaxJobs \in Nat /\ None \notin Nat /\ Tasks \cap Nat = {}
  /\ IsFiniteSet(Tasks) /\ IsFiniteSet(Requests) /\ None \notin Requests

Jobs == 1..MaxJobs

\* The configuration may be changed at any time, and a request or a stage works
\* with the one it has read: each brings limits of its own.
Config == [concurrent : ConcurrentLimits, queued : QueueLimits]

VARIABLES
  current,  \* m.jobs: the job registered for each key
  queue,    \* m.queue
  running,  \* m.running
  closed,   \* m.closed
  maxConcurrent, maxQueued,  \* those of m, taken from the last caller
  raised,   \* (history) maxConcurrent was raised for waiting jobs, and
            \* dispatchLocked was not called since
  job,      \* what each hlsJob holds
  phase,    \* where the worker of each job, and each task, stands
  active,   \* Budget.active
  parked,   \* those that wait on the channel Budget.changed now names
  limit,    \* what each caller passes to Budget.Acquire, until it returns
  dir,      \* the cache directory of each key
  readers,  \* m.readers
  recent,   \* m.lastRead lies within the read grace
  request,  \* where each request stands
  seen      \* directories unchanged since the janitor scanned them

limits   == <<maxConcurrent, maxQueued, raised>>
manager  == <<current, queue, running, closed, limits>>
workers  == <<job, phase>>
budget   == <<active, parked, limit>>
leases   == <<readers, recent>>
vars == <<manager, workers, budget, dir, leases, request, seen>>

Failures == {"failed", "partial"}
Statuses == {"queued", "starting", "playable", "completed"} \cup Failures

(***************************************************************************)
(* phase: "unused" -- no such job yet; "queued"; "acquire" and "parked" in  *)
(* Budget.Acquire; "prepare" and "encode" hold the budget; "failing" is    *)
(* executeConversion returned an error, "marked" its .failed is written,   *)
(* "converted" it returned nil, "leaving" the job is finished and the      *)
(* deferred function is still to run; "gone".                              *)
(***************************************************************************)
Holding   == {"prepare", "encode"}
Executing == {"acquire", "parked", "prepare", "encode", "failing", "marked",
              "converted"}
Working   == Executing \cup {"leaving"}
Phases    == Working \cup {"unused", "queued", "gone"}

NewJob(k) == [key |-> k, status |-> "queued", done |-> FALSE,
              cancelled |-> FALSE, playable |-> FALSE, old |-> FALSE]
NewDir(j) == [by |-> j, stage |-> 0, whole |-> FALSE, marked |-> FALSE,
              faulted |-> FALSE]
NoDir     == NewDir(None)
Idle      == [pc |-> "idle", key |-> None, job |-> None]

(***************************************************************************)
(* A directory: which job made it, how far its playlist reads (0 not at    *)
(* all, 1 its first segment, 2 to its ENDLIST with every segment), whether *)
(* it is the whole product of a conversion that succeeded, its .failed     *)
(* marker, and (history) whether an operation on it ended in an error.     *)
(***************************************************************************)
Absent(k)     == dir[k].by = None
CompleteByPlaylist(k) == ~Absent(k) /\ dir[k].stage = 2   \* mutant: ignores .failed
CompleteCache(k) == ~Absent(k) /\ ~dir[k].marked /\ dir[k].stage = 2

\* Every write in a directory changes its modification time.
Touched(k) == seen \ {k}

IsActive(j) == job[j].status \in {"queued", "starting", "playable"}
Failed(j)   == job[j].status \in Failures /\ job[j].done
Unread(k)   == readers[k] = 0 /\ ~recent[k]
Registered(table) == {k \in Keys : table[k] # None}

Finished(rec, status) ==
  IF rec.done THEN rec
  ELSE [rec EXCEPT !.status = status, !.done = TRUE, !.cancelled = TRUE,
                   !.playable = @ \/ status = "completed"]

------------------------------------------------------------------------------
Init ==
  /\ current = [k \in Keys |-> None]
  /\ queue = <<>> /\ running = 0 /\ closed = FALSE
  /\ maxConcurrent = 3 /\ maxQueued = 0 /\ raised = FALSE
  /\ job = [j \in Jobs |-> NewJob(None)]
  /\ phase = [w \in Jobs \cup Tasks |-> "unused"]
  /\ active = 0 /\ parked = {}
  /\ limit = [w \in Jobs \cup Tasks |-> 0]
  /\ dir = [k \in Keys |-> NoDir]
  /\ readers = [k \in Keys |-> 0]
  /\ recent = [k \in Keys |-> FALSE]
  /\ request = [r \in Requests |-> Idle]
  /\ seen = {}

------------------------------------------------------------------------------
(***************************************************************************)
(* EnsureJob.                                                              *)
(***************************************************************************)

\* newHLSJob takes the first job that nothing refers to (any more).
Free(j) ==
  /\ phase[j] \in {"unused", "gone"}
  /\ \A k \in Keys : current[k] # j
  /\ \A r \in Requests : request[r].job # j
IsNext(j) == Free(j) /\ \A i \in 1..(j - 1) : ~Free(i)

\* How many jobs dispatchLocked takes from a queue of n when m of at most max run.
\* It meets no cancelled job: only Close cancels a queued one, and empties the queue.
Room(n, m, max) == IF closed \/ m >= max THEN 0
                   ELSE IF n < max - m THEN n ELSE max - m

\* Dispatch on the queue q, with jobs as recorded in jb and phases in ph.
Dispatch(q, m, max, jb, ph) ==
  LET taken == {q[i] : i \in 1..Room(Len(q), m, max)}
  IN  /\ queue' = SubSeq(q, Room(Len(q), m, max) + 1, Len(q))
      /\ running' = m + Room(Len(q), m, max)
      /\ job' = [j \in Jobs |-> IF j \in taken
                                THEN [jb[j] EXCEPT !.status = "starting"]
                                ELSE jb[j]]
      /\ phase' = [w \in Jobs \cup Tasks |->
                     IF w \in taken THEN "acquire" ELSE ph[w]]
      /\ raised' = FALSE

\* Whatever it is asked for, EnsureJob takes the limits of its caller first ...
Adopt(c) == maxConcurrent' = c.concurrent /\ maxQueued' = c.queued

\* ... and only the queueing of a job looks whether they let others start.
NotDispatched(c) ==
  /\ raised' = (queue # <<>> /\ (raised \/ c.concurrent > maxConcurrent))
  /\ UNCHANGED <<queue, running>>

\* getHLSPlaylist goes on to wait for the job; the playback resolver (None)
\* answers at once with its status, and keeps no request open.
Callers == Requests \cup {None}
Waits(r, k, j) ==
  request' = IF r = None THEN request
             ELSE [request EXCEPT ![r] = [pc |-> "wait", key |-> k, job |-> j]]

QueueFull(c) == Len(queue) >= c.queued

\* The caller alone gets a job, already failed; `table' is what is registered.
Refuse(c, table) ==
  /\ current' = table /\ NotDispatched(c)
  /\ UNCHANGED <<workers, limit, request>>

\* enqueueLocked for k when the queue has room.  The job keeps the configuration.
Accept(r, k, c, table) ==
  \E j \in Jobs :
    /\ ~QueueFull(c) /\ IsNext(j)
    /\ current' = [table EXCEPT ![k] = j]
    /\ Dispatch(Append(queue, j), running, c.concurrent,
                [job EXCEPT ![j] = NewJob(k)],
                [phase EXCEPT ![j] = "queued"])
    /\ limit' = [limit EXCEPT ![j] = c.concurrent]
    /\ Waits(r, k, j)

Asks(r) == ~closed /\ (r # None => request[r].pc = "idle")

\* A closed manager gives the caller a failed job, and takes its limits even so.
EnsureClosed(c) ==
  /\ closed /\ Adopt(c)
  /\ UNCHANGED <<current, queue, running, closed, raised, workers, budget, dir, leases,
                 request, seen>>

RetryBesideReaders(k) == Failed(current[k]) /\ job[current[k]].old   \* mutant
RetryUnfinished(k) == job[current[k]].status # "completed" /\ Unread(k)  \* mutant
MayRetry(k) == Failed(current[k]) /\ job[current[k]].old /\ Unread(k)

\* A failed job is `old' five seconds after its end, and forgotten after an hour:
\* which of the old ones that is so of is left open.
Forgettable == {k \in Registered(current) : MayRetry(k)}

EnsureExisting(r, k, c) ==
  /\ Asks(r) /\ current[k] # None
  /\ ~MayRetry(k)
  /\ Adopt(c) /\ NotDispatched(c)
  /\ Waits(r, k, current[k])
  /\ UNCHANGED <<current, closed, workers, budget, dir, leases, seen>>

EnsureRetry(r, k, c) ==
  LET table == [current EXCEPT ![k] = None]
  IN  /\ Asks(r) /\ current[k] # None
      /\ MayRetry(k)
      /\ Adopt(c)
      /\ (QueueFull(c) /\ Refuse(c, table)) \/ Accept(r, k, c, table)
      /\ UNCHANGED <<closed, active, parked, dir, leases, seen>>

EnsureNew(r, k, c) ==
  \E gone \in SUBSET Forgettable :
  LET table == [x \in Keys |-> IF x \in gone THEN None ELSE current[x]]
      full  == Cardinality(Registered(table)) >= MaxRecords
  IN  /\ Asks(r) /\ current[k] = None
      /\ Adopt(c)
      /\ \/ /\ full \/ (QueueFull(c) /\ ~CompleteCache(k))
            /\ Refuse(c, table)
         \/ /\ ~full /\ CompleteCache(k)
            /\ \E j \in Jobs :
                 /\ IsNext(j)
                 /\ current' = [table EXCEPT ![k] = j]
                 /\ job' = [job EXCEPT ![j] = Finished(NewJob(k), "completed")]
                 /\ phase' = [phase EXCEPT ![j] = "gone"]
                 /\ Waits(r, k, j)
            /\ NotDispatched(c) /\ UNCHANGED limit
         \/ ~full /\ ~CompleteCache(k) /\ Accept(r, k, c, table)
      /\ UNCHANGED <<closed, active, parked, dir, leases, seen>>

------------------------------------------------------------------------------
(***************************************************************************)
(* Requests: WaitPlayable, acquireRead, the read, the release.             *)
(***************************************************************************)
Answers(r) == request' = [request EXCEPT ![r] = Idle]

\* The job is playable or done: the snapshot decides.
WaitPlayable(r) ==
  LET j == request[r].job
  IN  /\ request[r].pc = "wait"
      /\ job[j].playable \/ job[j].done
      /\ IF job[j].status \in Failures
         THEN Answers(r)
         ELSE request' = [request EXCEPT ![r].pc = "lease"]
      /\ UNCHANGED <<manager, workers, budget, dir, leases, seen>>

\* Twelve seconds have passed, or the client has left.
WaitEnds(r) ==
  /\ request[r].pc = "wait"
  /\ Answers(r)
  /\ UNCHANGED <<manager, workers, budget, dir, leases, seen>>

Readable(k) == ~closed /\ current[k] # None /\ job[current[k]].status \notin {"queued", "starting"}

LeaseByTime(k) ==     \* mutant: readers are not counted
  /\ recent' = [recent EXCEPT ![k] = Grace] /\ UNCHANGED readers

Lease(k) ==
  /\ readers' = [readers EXCEPT ![k] = @ + 1]
  /\ recent' = [recent EXCEPT ![k] = Grace]

AcquireRead(r) ==
  LET k == request[r].key
  IN  /\ request[r].pc = "lease"
      /\ \/ /\ Readable(k) /\ current[k] = request[r].job
            /\ Lease(k)
            /\ request' = [request EXCEPT ![r].pc = "read"]
         \/ /\ ~(Readable(k) /\ current[k] = request[r].job)
            /\ Answers(r)
            /\ UNCHANGED leases
      /\ UNCHANGED <<manager, workers, budget, dir, seen>>

\* getHLSSegment leases whatever is registered, and asks for the job later.
AcquireSegment(r, k) ==
  /\ request[r].pc = "idle" /\ Readable(k)
  /\ Lease(k)
  /\ request' = [request EXCEPT ![r] = [pc |-> "fetch", key |-> k, job |-> current[k]]]
  /\ UNCHANGED <<manager, workers, budget, dir, seen>>

GetJob(r) ==
  /\ request[r].pc = "fetch"
  /\ request' = [request EXCEPT ![r].pc = "read", ![r].job = current[request[r].key]]
  /\ UNCHANGED <<manager, workers, budget, dir, leases, seen>>

\* The read ends, well (the directory is touched) or not.
Release(r) ==
  LET k == request[r].key
  IN  /\ request[r].pc = "read"
      /\ seen' \in {seen} \cup {Touched(x) : x \in {k} \ {y \in Keys : Absent(y)}}
      /\ readers' = [readers EXCEPT ![k] = @ - 1]
      /\ recent' = [recent EXCEPT ![k] = Grace]
      /\ Answers(r)
      /\ UNCHANGED <<manager, workers, budget, dir>>

------------------------------------------------------------------------------
(***************************************************************************)
(* mediawork.Budget, for conversions and for the pipeline's stages.        *)
(***************************************************************************)
Cancelled(w) == w \in Jobs /\ job[w].cancelled

Goes(w, p) == phase' = [phase EXCEPT ![w] = p]

FreeQuietly == active' = active - 1 /\ UNCHANGED <<parked, limit>>   \* mutant: wakes nobody

\* Closing the channel wakes everyone that waits on it.
FreeSlot == active' = active - 1 /\ parked' = {} /\ UNCHANGED limit

\* Acquire returns to its caller, which has no more use for the limit.
Returns(w, p) == Goes(w, p) /\ limit' = [limit EXCEPT ![w] = 0]

Acquire(w) ==
  /\ phase[w] = "acquire"
  /\ \/ /\ Cancelled(w)
        /\ Returns(w, "failing") /\ UNCHANGED <<active, parked>>
     \/ /\ ~Cancelled(w) /\ active < limit[w]
        /\ active' = active + 1
        /\ Returns(w, "prepare") /\ UNCHANGED parked
     \/ /\ ~Cancelled(w) /\ active >= limit[w]
        /\ parked' = parked \cup {w}
        /\ Goes(w, "parked") /\ UNCHANGED <<active, limit>>
  /\ UNCHANGED <<manager, job, dir, leases, request, seen>>

Awake(w) ==
  /\ phase[w] = "parked"
  /\ \/ w \notin parked /\ Goes(w, "acquire") /\ UNCHANGED <<parked, limit>>
     \/ Cancelled(w) /\ Returns(w, "failing") /\ parked' = parked \ {w}
  /\ UNCHANGED <<manager, job, active, dir, leases, request, seen>>

TaskStarts(t) ==
  /\ phase[t] = "unused" /\ Goes(t, "acquire")
  /\ \E c \in Config : limit' = [limit EXCEPT ![t] = c.concurrent]
  /\ UNCHANGED <<manager, job, active, parked, dir, leases, request, seen>>

\* The context of the stage's task ends while it waits.
TaskCancelled(t) ==
  /\ phase[t] \in {"acquire", "parked"} /\ Returns(t, "unused")
  /\ parked' = parked \ {t}
  /\ UNCHANGED <<manager, job, active, dir, leases, request, seen>>

TaskEnds(t) ==
  /\ phase[t] = "prepare" /\ Goes(t, "unused") /\ FreeSlot
  /\ UNCHANGED <<manager, job, dir, leases, request, seen>>

------------------------------------------------------------------------------
(***************************************************************************)
(* run and executeConversion.                                              *)
(***************************************************************************)

\* A RemoveAll that stops half way: some files are gone.
Torn(k) == [by : {dir[k].by}, stage : 0..dir[k].stage, whole : {FALSE},
            marked : {FALSE, dir[k].marked}, faulted : {TRUE}]

\* RemoveAll and MkdirAll.  A cancelled job touches nothing; when one of the two
\* fails the directory is as it was, torn, or gone.
Prepare(j) ==
  LET k == job[j].key
  IN  /\ phase[j] = "prepare"
      /\ \/ /\ ~job[j].cancelled
            /\ dir' = [dir EXCEPT ![k] = NewDir(j)]
            /\ seen' = Touched(k)
            /\ Goes(j, "encode") /\ UNCHANGED budget
         \/ /\ job[j].cancelled \/ Faults
            /\ Goes(j, "failing") /\ FreeSlot /\ UNCHANGED <<dir, seen>>
         \/ /\ ~job[j].cancelled /\ Faults
            /\ \E d \in {NoDir} \cup (IF Absent(k) THEN {} ELSE Torn(k)) :
                 dir' = [dir EXCEPT ![k] = d]
            /\ seen' = Touched(k)
            /\ Goes(j, "failing") /\ FreeSlot
      /\ UNCHANGED <<manager, job, leases, request>>

FirstSegment(j) ==
  LET k == job[j].key
  IN  /\ phase[j] = "encode" /\ dir[k].stage = 0
      /\ dir' = [dir EXCEPT ![k].stage = 1]
      /\ seen' = Touched(k)
      /\ UNCHANGED <<manager, workers, budget, leases, request>>

\* The ticker finds the playlist readable: playable().
Playable(j) ==
  /\ phase[j] = "encode" /\ dir[job[j].key].stage > 0 /\ ~job[j].playable
  /\ job' = [job EXCEPT ![j].status = "playable", ![j].playable = TRUE]
  /\ UNCHANGED <<manager, phase, budget, dir, leases, request, seen>>

\* ffmpeg exits with success and its playlist is complete.
EncodeSucceeds(j) ==
  LET k == job[j].key
  IN  /\ phase[j] = "encode"
      /\ dir' = [dir EXCEPT ![k] = [@ EXCEPT !.stage = 2, !.whole = TRUE]]
      /\ seen' = Touched(k)
      /\ FreeSlot /\ Goes(j, "converted")
      /\ UNCHANGED <<manager, job, leases, request>>

\* Cancelled, out of space, no first segment, no progress, or ffmpeg fails:
\* its trailer may still have closed the playlist of a truncated recording.
EncodeFails(j) ==
  LET k == job[j].key
  IN  /\ phase[j] = "encode"
      /\ \E s \in dir[k].stage..2 : dir' = [dir EXCEPT ![k].stage = s]
      /\ seen' = Touched(k)
      /\ FreeSlot /\ Goes(j, "failing")
      /\ UNCHANGED <<manager, job, leases, request>>

\* Writing .failed, whose error nobody reads.
Mark(j) ==
  LET k == job[j].key
  IN  /\ phase[j] = "failing"
      /\ \/ /\ ~Absent(k)
            /\ dir' = [dir EXCEPT ![k].marked = TRUE]
            /\ seen' = Touched(k)
         \/ /\ Absent(k) \/ Faults
            /\ dir' = [dir EXCEPT ![k].faulted = ~Absent(k)]
            /\ UNCHANGED seen
      /\ Goes(j, "marked")
      /\ UNCHANGED <<manager, job, budget, leases, request>>

Finish(j, status) ==
  /\ job' = [job EXCEPT ![j] = Finished(@, status)]
  /\ Goes(j, "leaving")

\* The playlist is read before the marker is written; nothing moves it since.
FinishFailed(j) ==
  /\ phase[j] = "marked"
  /\ Finish(j, IF dir[job[j].key].stage > 0 THEN "partial" ELSE "failed")
  /\ UNCHANGED <<manager, budget, dir, leases, request, seen>>

FinishConverted(j) ==
  /\ phase[j] = "converted"
  /\ Finish(j, IF dir[job[j].key].stage = 2 THEN "completed" ELSE "failed")
  /\ UNCHANGED <<manager, budget, dir, leases, request, seen>>

\* A panic while converting: recovered, the budget released, no marker.
Panic(j) ==
  /\ Faults /\ phase[j] \in Holding
  /\ Finish(j, "failed") /\ FreeSlot
  /\ UNCHANGED <<manager, dir, leases, request, seen>>

LeaveQuietly(j) ==    \* mutant: the freed slot is not given to the queue
  /\ phase[j] = "leaving"
  /\ running' = running - 1 /\ Goes(j, "gone")
  /\ UNCHANGED <<current, queue, job, closed, limits, budget, dir, leases, request, seen>>

\* The deferred function of run.
Leave(j) ==
  /\ phase[j] = "leaving"
  /\ Dispatch(queue, running - 1, maxConcurrent, job, [phase EXCEPT ![j] = "gone"])
  /\ UNCHANGED <<current, closed, maxConcurrent, maxQueued, budget, dir, leases, request,
                 seen>>

------------------------------------------------------------------------------
CloseKeepingQueue ==    \* mutant: queued jobs are cancelled and left in the queue
  /\ ~closed /\ closed' = TRUE
  /\ job' = [j \in Jobs |-> IF \E k \in Keys : current[k] = j
                             THEN [job[j] EXCEPT !.cancelled = TRUE] ELSE job[j]]
  /\ UNCHANGED <<current, queue, running, limits, phase, budget, dir, leases, request, seen>>

Close ==
  LET queued == {queue[i] : i \in 1..Len(queue)}
      named  == {current[k] : k \in Registered(current)}
  IN  /\ ~closed
      /\ closed' = TRUE /\ queue' = <<>>
      /\ job' = [j \in Jobs |->
                   IF j \in queued THEN Finished(job[j], "failed")
                   ELSE IF j \in named THEN [job[j] EXCEPT !.cancelled = TRUE]
                   ELSE job[j]]
      /\ phase' = [w \in Jobs \cup Tasks |-> IF w \in queued THEN "gone" ELSE phase[w]]
      /\ UNCHANGED <<current, running, limits, budget, dir, leases, request, seen>>

(***************************************************************************)
(* The janitor: a scan without the lock, then one decision per directory.  *)
(* Age and total size choose which directories it wants to remove; one     *)
(* whose modification time has changed since is passed over.               *)
(***************************************************************************)
Scan ==
  /\ Reclaims
  /\ seen' = {k \in Keys : ~Absent(k)}
  /\ UNCHANGED <<manager, workers, budget, dir, leases, request>>

RemovableInactive(k) ==    \* mutant: the janitor does not look at the readers
  /\ current[k] # None => ~IsActive(current[k])
  /\ k \in seen /\ ~Absent(k)

Removable(k) ==
  /\ Unread(k)
  /\ current[k] # None => ~IsActive(current[k])
  /\ k \in seen /\ ~Absent(k)

Remove(k) ==
  /\ Removable(k)
  /\ dir' = [dir EXCEPT ![k] = NoDir]
  /\ current' = [current EXCEPT ![k] = None]
  /\ seen' = seen \ {k}
  /\ UNCHANGED <<queue, running, closed, limits, workers, budget, leases, request>>

\* RemoveAll stops half way: some files are gone, the record stays.
RemoveFails(k) ==
  /\ Faults /\ Removable(k)
  /\ \E d \in Torn(k) : dir' = [dir EXCEPT ![k] = d]
  /\ seen' = seen \ {k}
  /\ UNCHANGED <<manager, workers, budget, leases, request>>

------------------------------------------------------------------------------
(***************************************************************************)
(* Time passes, where something can still tell.                            *)
(***************************************************************************)
GracePasses(k) ==
  /\ recent[k] /\ readers[k] = 0
  /\ recent' = [recent EXCEPT ![k] = FALSE]
  /\ UNCHANGED <<manager, workers, budget, dir, readers, request, seen>>

\* Five seconds after its end a job may be replaced.
Ages(j) ==
  /\ Failed(j) /\ ~job[j].old /\ current[job[j].key] = j
  /\ job' = [job EXCEPT ![j].old = TRUE]
  /\ UNCHANGED <<manager, phase, budget, dir, leases, request, seen>>

EncodeEnds(j) == EncodeSucceeds(j) \/ EncodeFails(j)

WorkerStep(j) ==
  \/ Acquire(j) \/ Awake(j) \/ Prepare(j) \/ EncodeEnds(j)
  \/ Mark(j) \/ FinishFailed(j) \/ FinishConverted(j) \/ Leave(j)

EnsureJob(r, k) ==
  \E c \in Config : EnsureExisting(r, k, c) \/ EnsureRetry(r, k, c) \/ EnsureNew(r, k, c)

RequestStep(r) ==
  \/ \E k \in Keys : AcquireSegment(r, k)
  \/ WaitPlayable(r) \/ WaitEnds(r) \/ AcquireRead(r) \/ GetJob(r) \/ Release(r)

Next ==
  \/ \E r \in Callers, k \in Keys : EnsureJob(r, k)
  \/ \E c \in Config : EnsureClosed(c)
  \/ \E r \in Requests : RequestStep(r)
  \/ \E j \in Jobs : WorkerStep(j) \/ FirstSegment(j) \/ Playable(j) \/ Panic(j) \/ Ages(j)
  \/ \E t \in Tasks : \/ Acquire(t) \/ Awake(t)
                      \/ TaskStarts(t) \/ TaskCancelled(t) \/ TaskEnds(t)
  \/ \E k \in Keys : Remove(k) \/ RemoveFails(k) \/ GracePasses(k)
  \/ Close \/ Scan

(***************************************************************************)
(* Fairness: a goroutine that can go on does; a conversion ends (ffmpeg    *)
(* exits, or the first-segment and progress timers fire); a stage that     *)
(* holds the budget ends.  Nothing is assumed of requests, the janitor,    *)
(* the clock or Close, and nothing makes a stage ask for the budget, or    *)
(* stop asking: Budget serves whoever comes first after a release.         *)
(***************************************************************************)
Fairness ==
  /\ \A j \in Jobs : WF_vars(WorkerStep(j))
  /\ \A t \in Tasks : WF_vars(Acquire(t) \/ Awake(t) \/ TaskEnds(t))

Spec == Init /\ [][Next]_vars /\ Fairness

------------------------------------------------------------------------------
TypeOK ==
  /\ current \in [Keys -> Jobs \cup {None}]
  /\ queue \in Seq(Jobs)
  /\ running \in Nat /\ active \in Nat
  /\ closed \in BOOLEAN /\ raised \in BOOLEAN
  /\ maxConcurrent \in Nat \ {0} /\ maxQueued \in Nat
  /\ limit \in [Jobs \cup Tasks -> Nat]
  /\ job \in [Jobs -> [key : Keys \cup {None}, status : Statuses, done : BOOLEAN,
                       cancelled : BOOLEAN, playable : BOOLEAN, old : BOOLEAN]]
  /\ phase \in [Jobs \cup Tasks -> Phases]
  /\ parked \in SUBSET (Jobs \cup Tasks)
  /\ dir \in [Keys -> [by : Jobs \cup {None}, stage : 0..2, whole : BOOLEAN,
                       marked : BOOLEAN, faulted : BOOLEAN]]
  /\ readers \in [Keys -> Nat]
  /\ recent \in [Keys -> BOOLEAN]
  /\ request \in [Requests -> [pc : {"idle", "wait", "lease", "fetch", "read"},
                               key : Keys \cup {None}, job : Jobs \cup {None}]]
  /\ seen \in SUBSET Keys

Leased(r) == request[r].pc \in {"fetch", "read"}

\* While a request holds a lease the job it was given for stays the one
\* registered for the key: neither EnsureJob's retry and expiry, nor the
\* janitor, replaces it between acquireRead and the later GetJob.
LeaseKeepsJob ==
  \A r \in Requests : Leased(r) => current[request[r].key] = request[r].job

\* A job that waits or converts is the one registered for its key, so two
\* conversions never share a directory and Close reaches every one of them.
WorkingIsRegistered ==
  \A j \in Jobs : phase[j] \in Executing \cup {"queued"} => current[job[j].key] = j

\* Neither the manager's slots nor the budget are ever leaked or counted twice.
\* While the manager is open a job never waits without another that runs and will
\* dispatch it, nor beside a free slot, unless EnsureJob raised the limit for a
\* caller that queued nothing (it does not dispatch then).
SlotsCounted ==
  /\ running = Cardinality({j \in Jobs : phase[j] \in Working})
  /\ active = Cardinality({w \in Jobs \cup Tasks : phase[w] \in Holding})
  /\ ~closed /\ queue # <<>> => /\ running > 0
                                /\ running >= maxConcurrent \/ raised

\* Limits that are lowered stop nothing that runs; what is admitted after that is
\* admitted within them, and the budget within the limit of the one that takes it.
AdmittedWithinLimits ==
  /\ running' > running => running' <= maxConcurrent'
  /\ Len(queue') > Len(queue) => Len(queue') <= maxQueued'
  /\ active' > active => \E w \in Jobs \cup Tasks : /\ phase[w] \notin Holding
                                                    /\ phase'[w] \in Holding
                                                    /\ active' <= limit[w]

\* Slots, the queue and the budget are accounted for through every change of the
\* limits, which EnsureJob and Acquire take from whatever configuration their caller
\* has read.  (At the start nothing is in use.)
SlotsAccounted == [][SlotsCounted' /\ AdmittedWithinLimits]_vars

\* A cache that a registered job calls completed is the whole product of a
\* conversion that succeeded: a truncated one that ffmpeg closed with ENDLIST
\* is never taken for it, unless a file operation on its directory failed.
CompletedIsWhole ==
  \A k \in Keys :
    current[k] # None =>
      (job[current[k]].status = "completed" => dir[k].whole \/ dir[k].faulted)

\* Nobody that waits for the budget sleeps while its own limit leaves it a slot.
NoLostWakeup ==
  \A w \in parked : phase[w] = "parked" => active >= limit[w]

\* A directory that a request reads under a lease is neither removed nor
\* built again by another conversion until the lease is released.
LeaseKeepsDirectory ==
  [][\A r \in Requests :
       Leased(r) /\ Leased(r)' => dir'[request[r].key].by = dir[request[r].key].by]_vars

Taken == \E w \in Jobs \cup Tasks : phase[w] = "acquire" /\ phase'[w] = "prepare"

\* Every job that was accepted ends, through changes of the limits, cancellations and
\* Close, unless stages and other jobs take the shared budget again and again for ever:
\* it is not given in order of arrival, and a job can starve there.  (A job takes it
\* once, so those that take it for ever are others.)
AcceptedJobEnds ==
  \/ [](\A j \in Jobs : phase[j] \in {"queued", "acquire"} => <>job[j].done)
  \/ []<><<Taken>>_vars

\* Close returns: every worker leaves once the manager is closed.
CloseReturns == closed ~> (\A j \in Jobs : phase[j] \in {"unused", "gone"})
==============================================================================
