---------------------------- MODULE HLSJobs_proof ----------------------------
(***************************************************************************)
(* Theorems about HLSJobs, for any keys, jobs, requests, stages and bounds.*)
(***************************************************************************)
EXTENDS HLSJobs, Integers, FiniteSetTheorems, SequenceTheorems, TLAPS

-----------------------------------------------------------------------------
(* The inductive invariant. *)

JobRecords == [key : Keys \cup {None}, status : Statuses, done : BOOLEAN,
               cancelled : BOOLEAN, playable : BOOLEAN, old : BOOLEAN]
Directory  == [by : Jobs \cup {None}, stage : 0..2, whole : BOOLEAN,
               marked : BOOLEAN, faulted : BOOLEAN]
Places     == [pc : {"idle", "wait", "lease", "fetch", "read"},
               key : Keys \cup {None}, job : Jobs \cup {None}]

\* TypeOK but for the counters, which may only be known to be integers: that they
\* are not negative follows from what they count.
Types ==
  /\ current \in [Keys -> Jobs \cup {None}]
  /\ queue \in Seq(Jobs)
  /\ running \in Int /\ active \in Int
  /\ closed \in BOOLEAN
  /\ job \in [Jobs -> JobRecords]
  /\ phase \in [Jobs \cup Tasks -> Phases]
  /\ parked \in SUBSET (Jobs \cup Tasks)
  /\ dir \in [Keys -> Directory]
  /\ readers \in [Keys -> Int]
  /\ recent \in [Keys -> BOOLEAN]
  /\ request \in [Requests -> Places]
  /\ seen \in SUBSET Keys

\* The limits that callers hand over.
Limits ==
  /\ maxConcurrent \in Nat \ {0} /\ maxQueued \in Nat /\ raised \in BOOLEAN
  /\ limit \in [Jobs \cup Tasks -> Nat]

\* The queue q holds different jobs that have not been started.
Waiting(q, ph) ==
  \A i \in 1..Len(q) : /\ ph[q[i]] = "queued"
                       /\ \A n \in 1..Len(q) : q[i] = q[n] => i = n

\* A job that waits or converts is registered and not finished.
Open(rec)     == ~rec.done /\ rec.status \in {"queued", "starting", "playable"}
Unplayed      == {"queued", "acquire", "parked", "prepare"}
AtWork(table, jb, ph) ==
  \A j \in Jobs :
    /\ ph[j] \in Executing \cup {"queued"} =>
         /\ jb[j].key \in Keys /\ table[jb[j].key] = j /\ Open(jb[j])
    /\ ph[j] \in Unplayed => jb[j].status \in {"queued", "starting"}

\* A lease is on a registered job that has become playable, and is counted.
Leases ==
  \A r \in Requests :
    /\ request[r].pc \in {"wait", "lease"} =>
         request[r].key \in Keys /\ request[r].job \in Jobs
    /\ Leased(r) =>
         /\ request[r].key \in Keys /\ request[r].job \in Jobs
         /\ current[request[r].key] = request[r].job
         /\ job[request[r].job].status \notin {"queued", "starting"}
Readers(k) == {r \in Requests : Leased(r) /\ request[r].key = k}
Counted    == \A k \in Keys : readers[k] = Cardinality(Readers(k))

IInv == /\ Types /\ Waiting(queue, phase) /\ AtWork(current, job, phase)
        /\ Leases /\ Counted

\* A playlist that ends is that of a whole product, or its conversion is about to
\* mark it, or an operation on the directory failed.
Directories ==
  /\ \A j \in Jobs :
       /\ phase[j] = "encode" => dir[job[j].key].by = j /\ dir[job[j].key].stage < 2
       /\ phase[j] = "converted" => dir[job[j].key].by = j /\ dir[job[j].key].whole
  /\ \A k \in Keys :
       /\ (CompleteCache(k) /\ ~dir[k].whole /\ ~dir[k].faulted) =>
            \E j \in Jobs : phase[j] = "failing" /\ job[j].key = k
       /\ (current[k] # None /\ job[current[k]].status = "completed") =>
             (dir[k].whole \/ dir[k].faulted)
       /\ current[k] # None => job[current[k]].key = k

-----------------------------------------------------------------------------
(* The queue. *)

LEMMA ConfigType ==
  ASSUME NEW c \in Config
  PROVE  c.concurrent \in Nat \ {0} /\ c.queued \in Nat \ {0}
BY HLSAssumption DEF Config

\* What is taken from the queue fits under the limit, and leaves no room behind.
LEMMA RoomType ==
  ASSUME NEW n \in Nat, NEW m \in Int, NEW max \in Int
  PROVE  /\ Room(n, m, max) \in 0..n
         /\ Room(n, m, max) > 0 => m + Room(n, m, max) <= max
         /\ ~closed /\ Room(n, m, max) < n => m + Room(n, m, max) >= max
BY DEF Room

\* What dispatchLocked does to the queue, and to each job.
LEMMA DispatchQueue ==
  ASSUME NEW q \in Seq(Jobs), NEW m \in Int, NEW max \in Int, NEW jb, NEW ph,
         Dispatch(q, m, max, jb, ph)
  PROVE  LET n == Room(Len(q), m, max)
         IN  /\ n \in 0..Len(q)
             /\ queue' \in Seq(Jobs) /\ Len(queue') = Len(q) - n
             /\ \A i \in 1..Len(queue') : queue'[i] = q[i + n]
             /\ running' = m + n
<1> DEFINE n == Room(Len(q), m, max)
<1>1. Len(q) \in Nat
  OBVIOUS
<1>2. n \in 0..Len(q)
  BY <1>1, RoomType
<1>3. queue' = SubSeq(q, n + 1, Len(q)) /\ running' = m + n
  BY DEF Dispatch
<1>4. QED
  <2> HIDE DEF n
  <2>1. \A i \in (n + 1)..Len(q) : q[i] \in Jobs
    BY <1>1, <1>2
  <2>2. QED BY <1>1, <1>2, <1>3, <2>1, SubSeqProperties DEF n

\* Job j is as jb and ph have it, or was taken from the queue.
AsOrTaken(j, jb, ph) ==
  \/ job'[j] = jb[j] /\ phase'[j] = ph[j]
  \/ /\ job'[j].key = jb[j].key /\ job'[j].status = "starting"
     /\ ~jb[j].done => ~job'[j].done
     /\ ph[j] = "queued" /\ phase'[j] = "acquire"

LEMMA DispatchJobs ==
  ASSUME NEW q \in Seq(Jobs), NEW m \in Int, NEW max \in Int,
         NEW jb \in [Jobs -> JobRecords], NEW ph \in [Jobs \cup Tasks -> Phases],
         Waiting(q, ph), Dispatch(q, m, max, jb, ph)
  PROVE  /\ Waiting(queue', phase')
         /\ job' \in [Jobs -> JobRecords]
         /\ phase' \in [Jobs \cup Tasks -> Phases]
         /\ \A w \in Jobs \cup Tasks :
              \/ phase'[w] = ph[w]
              \/ w \in Jobs /\ ph[w] = "queued" /\ phase'[w] = "acquire"
         /\ \A j \in Jobs : AsOrTaken(j, jb, ph)
<1> DEFINE n == Room(Len(q), m, max)
           taken == {q[i] : i \in 1..n}
<1>0. Len(q) \in Nat
  OBVIOUS
<1>1. /\ n \in 0..Len(q) /\ queue' \in Seq(Jobs) /\ Len(queue') = Len(q) - n
      /\ \A i \in 1..Len(queue') : queue'[i] = q[i + n]
  BY DispatchQueue
<1>2. /\ job' = [j \in Jobs |-> IF j \in taken THEN [jb[j] EXCEPT !.status = "starting"]
                                               ELSE jb[j]]
      /\ phase' = [w \in Jobs \cup Tasks |-> IF w \in taken THEN "acquire" ELSE ph[w]]
  BY DEF Dispatch
<1>3. \A w \in taken : w \in Jobs /\ ph[w] = "queued"
  BY <1>0, <1>1 DEF Waiting
<1>4. \A i \in 1..Len(queue') : queue'[i] \notin taken
  <2> SUFFICES ASSUME NEW i \in 1..Len(queue'), NEW k \in 1..n, q[i + n] = q[k]
               PROVE  FALSE
    BY <1>1
  <2>1. i + n \in 1..Len(q) /\ k \in 1..Len(q) /\ i + n # k
    BY <1>0, <1>1
  <2>2. QED BY <2>1 DEF Waiting
<1>5. Waiting(queue', phase')
  <2> HIDE DEF taken
  <2>1. \A i \in 1..Len(queue') : queue'[i] \in Jobs /\ i + n \in 1..Len(q)
    BY <1>0, <1>1
  <2>2. \A i \in 1..Len(queue') : phase'[queue'[i]] = "queued"
    BY <1>1, <1>2, <1>4, <2>1 DEF Waiting
  <2>3. \A i, k \in 1..Len(queue') : queue'[i] = queue'[k] => i = k
    <3> SUFFICES ASSUME NEW i \in 1..Len(queue'), NEW k \in 1..Len(queue'),
                        queue'[i] = queue'[k]
                 PROVE  i = k
      OBVIOUS
    <3>1. q[i + n] = q[k + n] /\ i + n \in 1..Len(q) /\ k + n \in 1..Len(q)
      BY <1>1, <2>1
    <3>2. i + n = k + n
      BY <3>1 DEF Waiting
    <3>3. QED BY <1>0, <1>1, <3>2
  <2>4. QED BY <2>2, <2>3 DEF Waiting
<1>6. QED
  <2> HIDE DEF taken
  <2>1. job' \in [Jobs -> JobRecords]
    BY <1>2 DEF JobRecords, Statuses
  <2>2. phase' \in [Jobs \cup Tasks -> Phases]
    BY <1>2 DEF Phases, Working, Executing
  <2>3. \A j \in Jobs : AsOrTaken(j, jb, ph)
    BY <1>2, <1>3 DEF AsOrTaken, JobRecords
  <2>4. QED BY <1>2, <1>3, <1>5, <2>1, <2>2, <2>3

\* A job that joins the end of the queue.
LEMMA Joined ==
  ASSUME NEW q \in Seq(Jobs), NEW j \in Jobs, NEW ph \in [Jobs \cup Tasks -> Phases],
         Waiting(q, ph), ph[j] # "queued"
  PROVE  /\ Append(q, j) \in Seq(Jobs)
         /\ Waiting(Append(q, j), [ph EXCEPT ![j] = "queued"])
<1> DEFINE qq == Append(q, j)
<1>1. /\ qq \in Seq(Jobs) /\ Len(q) \in Nat /\ Len(qq) = Len(q) + 1
      /\ \A i \in 1..Len(q) : qq[i] = q[i] /\ q[i] \in Jobs
      /\ qq[Len(q) + 1] = j
  BY AppendProperties
<1>2. \A i \in 1..Len(qq) : i \in 1..Len(q) \/ i = Len(q) + 1
  BY <1>1
<1>3. \A i \in 1..Len(q) : q[i] # j
  BY DEF Waiting
<1> HIDE DEF qq
<1>4. QED BY <1>1, <1>2, <1>3 DEF Waiting, qq
-----------------------------------------------------------------------------
(* Every action keeps the invariant. *)

LEMMA Initially == Init => IInv
<1> SUFFICES ASSUME Init PROVE IInv
  OBVIOUS
<1>1. Types
  <2>1. /\ job \in [Jobs -> JobRecords] /\ request \in [Requests -> Places]
        /\ dir \in [Keys -> Directory]
    BY DEF Init, NewJob, NewDir, NoDir, Idle, JobRecords, Directory, Places, Statuses
  <2>2. phase \in [Jobs \cup Tasks -> Phases]
    BY DEF Init, Phases
  <2>3. queue \in Seq(Jobs) /\ running \in Int /\ active \in Int
    BY DEF Init
  <2>4. /\ current \in [Keys -> Jobs \cup {None}] /\ readers \in [Keys -> Int]
        /\ parked \in SUBSET (Jobs \cup Tasks) /\ seen \in SUBSET Keys
    BY DEF Init
  <2>5. recent \in [Keys -> BOOLEAN] /\ closed \in BOOLEAN
    BY DEF Init
  <2>6. QED BY <2>1, <2>2, <2>3, <2>4, <2>5 DEF Types
<1>2. Waiting(queue, phase) /\ AtWork(current, job, phase) /\ Leases
  BY DEF Init, Waiting, AtWork, Executing, Unplayed, Leases, Leased, Idle
<1>3. \A k \in Keys : Readers(k) = {} /\ readers[k] = 0
  BY DEF Init, Readers, Leased, Idle
<1>4. QED BY <1>1, <1>2, <1>3, FS_EmptySet DEF IInv, Counted

\* Who has no lease at its key leaves it alone.
LEMMA NobodyReads ==
  ASSUME IInv, NEW k \in Keys, Unread(k)
  PROVE  \A r \in Requests : Leased(r) => request[r].key # k
<1>1. IsFiniteSet(Requests) /\ Readers(k) \subseteq Requests
  BY HLSAssumption DEF Readers
<1>2. IsFiniteSet(Readers(k)) /\ Cardinality(Readers(k)) = 0
  BY <1>1, FS_Subset DEF IInv, Counted, Unread
<1>3. Readers(k) = {}
  BY <1>2, FS_EmptySet
<1>4. QED BY <1>3 DEF Readers

LEMMA SameReaders ==
  ASSUME Counted, UNCHANGED readers,
         \A r \in Requests : /\ Leased(r)' = Leased(r)
                             /\ Leased(r) => request'[r].key = request[r].key
  PROVE  Counted'
<1>1. \A k \in Keys : Readers(k)' = Readers(k)
  BY DEF Readers
<1>2. QED BY <1>1 DEF Counted

\* A worker or a stage goes on to phase p.
LEMMA WorkerMoves ==
  ASSUME IInv, NEW w \in Jobs \cup Tasks, NEW p \in Phases \ {"queued"},
         phase[w] # "queued", phase' = [phase EXCEPT ![w] = p],
         \A j \in Jobs \ {w} : job'[j] = job[j],
         w \in Jobs => /\ job'[w].key = job[w].key
                       /\ p \in Executing => phase[w] \in Executing /\ Open(job'[w])
                       /\ p \in Unplayed => /\ phase[w] \in Unplayed
                                            /\ job'[w].status = job[w].status
                       /\ \/ job'[w].status = job[w].status
                          \/ job'[w].status \notin {"queued", "starting"},
         UNCHANGED <<current, queue, readers, request>>
  PROVE  /\ Waiting(queue, phase)' /\ AtWork(current, job, phase)'
         /\ Leases' /\ Counted'
<1>1. Types /\ Waiting(queue, phase) /\ AtWork(current, job, phase) /\ Leases /\ Counted
  BY DEF IInv
<1>2. \A i \in 1..Len(queue) : queue[i] \in Jobs /\ queue[i] # w
  BY <1>1 DEF Types, Waiting
<1>3. Waiting(queue, phase)'
  BY <1>1, <1>2 DEF Types, Waiting
<1>4. \A x \in Jobs : phase'[x] = IF x = w THEN p ELSE phase[x]
  BY <1>1 DEF Types
<1>5. AtWork(current, job, phase)'
  BY <1>1, <1>4 DEF AtWork
<1>6. Leases'
  BY <1>1 DEF Leases, Leased
<1>7. Counted'
  BY <1>1, SameReaders DEF Leased
<1>8. QED BY <1>3, <1>5, <1>6, <1>7

-----------------------------------------------------------------------------
(* EnsureJob. *)

\* What a call leaves of the table: at most failed jobs that nobody reads are gone.
Pruned(table) ==
  /\ table \in [Keys -> Jobs \cup {None}]
  /\ \A x \in Keys : \/ table[x] = current[x]
                     \/ /\ table[x] = None /\ current[x] \in Jobs
                        /\ Failed(current[x]) /\ Unread(x)

LEMMA PrunedKeeps ==
  ASSUME IInv, NEW table, Pruned(table)
  PROVE  /\ AtWork(table, job, phase)
         /\ \A r \in Requests : Leased(r) => table[request[r].key] = request[r].job
<1>1. AtWork(table, job, phase)
  BY DEF IInv, Types, AtWork, Pruned, Failed, Open
<1>2. ASSUME NEW r \in Requests, Leased(r)
      PROVE  table[request[r].key] = request[r].job
  <2>1. request[r].key \in Keys /\ current[request[r].key] = request[r].job
    BY <1>2 DEF IInv, Leases
  <2>2. ~Unread(request[r].key)
    BY <1>2, <2>1, NobodyReads
  <2>3. QED BY <2>1, <2>2 DEF Pruned
<1>3. QED BY <1>1, <1>2

\* Only a request that is idle, or one that answers, changes its place.
LEMMA WaitsKeeps ==
  ASSUME IInv, NEW r \in Callers, NEW k \in Keys, NEW j \in Jobs, Asks(r), Waits(r, k, j)
  PROVE  /\ request' \in [Requests -> Places]
         /\ \A s \in Requests :
              /\ Leased(s)' = Leased(s)
              /\ Leased(s) => request'[s] = request[s]
              /\ request'[s].pc \in {"wait", "lease"} =>
                   request'[s].key \in Keys /\ request'[s].job \in Jobs
<1>1. CASE r = None
  BY <1>1 DEF Waits, IInv, Types, Leases, Leased
<1>2. CASE r \in Requests
  BY <1>2, HLSAssumption DEF Waits, IInv, Types, Leases, Leased, Places, Asks
<1>3. QED BY <1>1, <1>2 DEF Callers

LEMMA Refused ==
  ASSUME IInv, NEW c \in Config, NEW table, Pruned(table), Refuse(c, table),
         UNCHANGED <<closed, active, parked, dir, leases, seen>>
  PROVE  IInv'
<1>1. Types'
  BY DEF IInv, Types, Pruned, Refuse, NotDispatched, workers, leases
<1>2. Waiting(queue, phase)' /\ AtWork(current, job, phase)'
  BY PrunedKeeps DEF IInv, Refuse, NotDispatched, workers, Waiting
<1>3. Leases' /\ Counted'
  BY PrunedKeeps, SameReaders DEF IInv, Refuse, workers, leases, Leases, Leased
<1>4. QED BY <1>1, <1>2, <1>3 DEF IInv

LEMMA Accepted ==
  ASSUME IInv, NEW r \in Callers, NEW k \in Keys, NEW c \in Config, NEW table,
         Pruned(table), table[k] = None, Asks(r), Accept(r, k, c, table),
         UNCHANGED <<closed, active, parked, dir, leases, seen>>
  PROVE  IInv'
<1>1. PICK j \in Jobs :
        /\ IsNext(j) /\ current' = [table EXCEPT ![k] = j]
        /\ Dispatch(Append(queue, j), running, c.concurrent, [job EXCEPT ![j] = NewJob(k)],
                    [phase EXCEPT ![j] = "queued"])
        /\ Waits(r, k, j)
  BY DEF Accept
<1> DEFINE q  == Append(queue, j)
           jb == [job EXCEPT ![j] = NewJob(k)]
           ph == [phase EXCEPT ![j] = "queued"]
<1>2. /\ phase[j] \in {"unused", "gone"} /\ \A x \in Keys : current[x] # j
      /\ \A s \in Requests : request[s].job # j
  BY <1>1 DEF IsNext, Free
<1>3. /\ q \in Seq(Jobs) /\ Waiting(q, ph)
      /\ jb \in [Jobs -> JobRecords] /\ ph \in [Jobs \cup Tasks -> Phases]
  <2>1. q \in Seq(Jobs) /\ Waiting(q, ph)
    BY <1>2, Joined DEF IInv, Types
  <2>2. jb \in [Jobs -> JobRecords]
    <3>1. NewJob(k) \in JobRecords
      BY DEF NewJob, JobRecords, Statuses
    <3>2. QED BY <3>1 DEF IInv, Types
  <2>3. ph \in [Jobs \cup Tasks -> Phases]
    BY DEF IInv, Types, Phases
  <2>4. QED BY <2>1, <2>2, <2>3
<1>4. AtWork(current', jb, ph)
  <2>1. AtWork(table, job, phase)
    BY PrunedKeeps
  <2>2. \A x \in Keys : table[x] # j
    BY <1>2, HLSAssumption DEF Pruned, Jobs
  <2>3. \A i \in Jobs : i # j => jb[i] = job[i] /\ ph[i] = phase[i]
    BY DEF IInv, Types
  <2>4. jb[j] = NewJob(k) /\ ph[j] = "queued"
    BY DEF IInv, Types
  <2>5. \A x \in Keys : current'[x] = IF x = k THEN j ELSE table[x]
    BY <1>1 DEF Pruned
  <2>6. None \notin Jobs
    BY HLSAssumption DEF Jobs
  <2> HIDE DEF jb, ph
  <2>7. QED BY <2>1, <2>2, <2>3, <2>4, <2>5, <2>6 DEF AtWork, NewJob, Open, Executing, Unplayed
<1>5. /\ queue' \in Seq(Jobs) /\ running' \in Int
      /\ Waiting(queue', phase') /\ job' \in [Jobs -> JobRecords]
      /\ phase' \in [Jobs \cup Tasks -> Phases]
      /\ \A i \in Jobs : AsOrTaken(i, jb, ph)
  <2> HIDE DEF q, jb, ph
  <2>1. PICK max \in Int : Dispatch(q, running, max, jb, ph) /\ running \in Int
    BY <1>1, ConfigType DEF q, jb, ph, IInv, Types
  <2>2. queue' \in Seq(Jobs) /\ running' \in Int
    <3>1. Room(Len(q), running, max) \in 0..Len(q) /\ Len(q) \in Nat
      BY <1>3, <2>1, DispatchQueue
    <3>2. QED BY <1>3, <2>1, <3>1, DispatchQueue
  <2>3. Waiting(queue', phase') /\ job' \in [Jobs -> JobRecords]
        /\ phase' \in [Jobs \cup Tasks -> Phases]
    BY <1>3, <2>1, DispatchJobs
  <2>4. \A i \in Jobs : AsOrTaken(i, jb, ph)
    BY <1>3, <2>1, DispatchJobs
  <2>5. QED BY <2>2, <2>3, <2>4
<1> HIDE DEF q, jb, ph
<1>6. AtWork(current', job', phase')
  BY <1>3, <1>4, <1>5 DEF AsOrTaken, AtWork, Executing, Unplayed, Open, JobRecords
<1>7. Types'
  BY <1>1, <1>5, WaitsKeeps DEF IInv, Types, Pruned, leases
<1>8. Leases'
  <2>1. ASSUME NEW s \in Requests, Leased(s)'
        PROVE  /\ request'[s].key \in Keys /\ request'[s].job \in Jobs
               /\ current'[request'[s].key] = request'[s].job
               /\ job'[request'[s].job].status \notin {"queued", "starting"}
    <3>1. Leased(s) /\ request'[s] = request[s]
      BY <1>1, <2>1, WaitsKeeps
    <3> DEFINE i == request[s].job
               x == request[s].key
    <3>2. /\ x \in Keys /\ i \in Jobs /\ table[x] = i /\ i # j /\ x # k
          /\ job[i].status \notin {"queued", "starting"}
      BY <1>2, <3>1, PrunedKeeps, HLSAssumption DEF IInv, Leases, Jobs
    <3>3. current'[x] = i /\ jb[i] = job[i] /\ ph[i] = phase[i]
      BY <1>1, <3>2 DEF Pruned, jb, ph, IInv, Types
    <3>4. job'[i] = jb[i]
      BY <1>4, <1>5, <3>2, <3>3 DEF AsOrTaken, AtWork, Unplayed
    <3>5. QED BY <3>1, <3>2, <3>3, <3>4
  <2>2. QED BY <1>1, <2>1, WaitsKeeps DEF Leases
<1>9. Counted'
  BY <1>1, WaitsKeeps, SameReaders DEF IInv, leases
<1>10. QED BY <1>5, <1>6, <1>7, <1>8, <1>9 DEF IInv

LEMMA FinishedJob ==
  ASSUME NEW rec \in JobRecords, NEW status \in Statuses
  PROVE  /\ Finished(rec, status) \in JobRecords
         /\ Finished(rec, status).key = rec.key
         /\ Finished(rec, status).status \in {rec.status, status}
BY DEF Finished, JobRecords

LEMMA EnsureKept ==
  ASSUME IInv, NEW r \in Callers, NEW k \in Keys, EnsureJob(r, k)
  PROVE  IInv'
<1>0. PICK c \in Config : \/ EnsureExisting(r, k, c) \/ EnsureRetry(r, k, c)
                          \/ EnsureNew(r, k, c)
  BY DEF EnsureJob
<1>1. CASE EnsureExisting(r, k, c)
  <2>1. current[k] \in Jobs /\ Asks(r) /\ Waits(r, k, current[k])
    BY <1>1 DEF EnsureExisting, IInv, Types
  <2>2. UNCHANGED <<current, queue, running, closed, job, phase, active, parked, dir,
                    readers, recent, seen>>
    BY <1>1 DEF EnsureExisting, NotDispatched, workers, budget, leases
  <2>3. Types'
    BY <2>1, <2>2, WaitsKeeps DEF IInv, Types
  <2>4. Waiting(queue, phase)' /\ AtWork(current, job, phase)'
    BY <2>2 DEF IInv, Waiting
  <2>5. Leases'
    BY <2>1, <2>2, WaitsKeeps DEF IInv, Leases
  <2>6. Counted'
    BY <2>1, <2>2, WaitsKeeps, SameReaders DEF IInv
  <2>7. QED BY <2>3, <2>4, <2>5, <2>6 DEF IInv
<1>2. CASE EnsureRetry(r, k, c)
  <2> DEFINE table == [current EXCEPT ![k] = None]
  <2>1. Pruned(table) /\ table[k] = None
    BY <1>2 DEF EnsureRetry, MayRetry, Pruned, IInv, Types
  <2>2. /\ Asks(r) /\ UNCHANGED <<closed, active, parked, dir, leases, seen>>
        /\ Refuse(c, table) \/ Accept(r, k, c, table)
    BY <1>2 DEF EnsureRetry
  <2> HIDE DEF table
  <2>3. QED BY <2>1, <2>2, Refused, Accepted
<1>3. CASE EnsureNew(r, k, c)
  <2>0. PICK gone \in SUBSET Forgettable :
          LET tbl == [x \in Keys |-> IF x \in gone THEN None ELSE current[x]]
          IN  \/ Refuse(c, tbl) \/ Accept(r, k, c, tbl)
              \/ /\ \E j \in Jobs :
                      /\ IsNext(j)
                      /\ current' = [tbl EXCEPT ![k] = j]
                      /\ job' = [job EXCEPT ![j] = Finished(NewJob(k), "completed")]
                      /\ phase' = [phase EXCEPT ![j] = "gone"]
                      /\ Waits(r, k, j)
                 /\ NotDispatched(c)
    BY <1>3 DEF EnsureNew
  <2> DEFINE table == [x \in Keys |-> IF x \in gone THEN None ELSE current[x]]
  <2>1. Pruned(table) /\ table[k] = None /\ current[k] = None
    BY <1>3 DEF EnsureNew, Forgettable, Registered, MayRetry, Pruned, IInv, Types
  <2>2. Asks(r) /\ UNCHANGED <<closed, active, parked, dir, leases, seen>>
    BY <1>3 DEF EnsureNew
  <2>3. \/ Refuse(c, table) \/ Accept(r, k, c, table)
        \/ /\ \E j \in Jobs :
                /\ IsNext(j)
                /\ current' = [table EXCEPT ![k] = j]
                /\ job' = [job EXCEPT ![j] = Finished(NewJob(k), "completed")]
                /\ phase' = [phase EXCEPT ![j] = "gone"]
                /\ Waits(r, k, j)
           /\ UNCHANGED <<queue, running>>
    BY <2>0 DEF NotDispatched
  <2> HIDE DEF table
  <2>4. ASSUME NEW j \in Jobs, IsNext(j), current' = [table EXCEPT ![k] = j],
               job' = [job EXCEPT ![j] = Finished(NewJob(k), "completed")],
               phase' = [phase EXCEPT ![j] = "gone"], Waits(r, k, j),
               UNCHANGED <<queue, running>>
        PROVE  IInv'
    <3>1. /\ phase[j] \in {"unused", "gone"} /\ \A x \in Keys : current[x] # j
          /\ \A s \in Requests : request[s].job # j
      BY <2>4 DEF IsNext, Free
    <3>2. Finished(NewJob(k), "completed") \in JobRecords
      <4>1. NewJob(k) \in JobRecords
        BY DEF NewJob, JobRecords, Statuses
      <4>2. QED BY <4>1, FinishedJob DEF Statuses
    <3>3. Types'
      <4>1. job' \in [Jobs -> JobRecords] /\ phase' \in [Jobs \cup Tasks -> Phases]
        BY <2>4, <3>2 DEF IInv, Types, Phases
      <4>2. current' \in [Keys -> Jobs \cup {None}]
        BY <2>1, <2>4 DEF Pruned
      <4>3. QED
        BY <2>2, <2>4, <4>1, <4>2, WaitsKeeps DEF IInv, Types, leases
    <3>4. Waiting(queue, phase)'
      <4>1. \A i \in 1..Len(queue) : queue[i] \in Jobs /\ queue[i] # j
        BY <3>1 DEF IInv, Types, Waiting
      <4>2. QED BY <2>4, <4>1 DEF IInv, Types, Waiting
    <3>5. AtWork(current, job, phase)'
      <4>1. AtWork(table, job, phase)
        BY <2>1, PrunedKeeps
      <4>2. \A i \in Jobs : IF i = j THEN phase'[i] = "gone"
                                     ELSE phase'[i] = phase[i] /\ job'[i] = job[i]
        BY <2>4 DEF IInv, Types
      <4>3. \A x \in Keys : x # k => current'[x] = table[x]
        BY <2>1, <2>4 DEF Pruned
      <4>4. \A i \in Jobs : table[k] # i
        BY <2>1, HLSAssumption DEF Jobs
      <4>5. QED BY <4>1, <4>2, <4>3, <4>4 DEF AtWork, Executing, Unplayed
    <3>6. Leases'
      <4>1. ASSUME NEW s \in Requests, Leased(s)'
            PROVE  /\ request'[s].key \in Keys /\ request'[s].job \in Jobs
                   /\ current'[request'[s].key] = request'[s].job
                   /\ job'[request'[s].job].status \notin {"queued", "starting"}
        <5>1. Leased(s) /\ request'[s] = request[s]
          BY <2>2, <2>4, <4>1, WaitsKeeps
        <5>2. /\ request[s].key \in Keys /\ request[s].job \in Jobs /\ request[s].job # j
              /\ table[request[s].key] = request[s].job /\ request[s].key # k
              /\ job[request[s].job].status \notin {"queued", "starting"}
          BY <2>1, <3>1, <5>1, PrunedKeeps, HLSAssumption DEF IInv, Leases, Jobs
        <5>3. QED BY <2>1, <2>4, <5>1, <5>2 DEF Pruned, IInv, Types
      <4>2. QED BY <2>2, <2>4, <4>1, WaitsKeeps DEF Leases
    <3>7. Counted'
      BY <2>2, <2>4, WaitsKeeps, SameReaders DEF IInv, leases
    <3>8. QED BY <3>3, <3>4, <3>5, <3>6, <3>7 DEF IInv
  <2>5. QED BY <2>1, <2>2, <2>3, <2>4, Refused, Accepted
<1>4. QED BY <1>0, <1>1, <1>2, <1>3

LEMMA EnsureClosedKept ==
  ASSUME IInv, NEW c \in Config, EnsureClosed(c)
  PROVE  IInv'
<1>1. UNCHANGED <<current, queue, running, closed, job, phase, active, parked, dir,
                  readers, recent, request, seen>>
  BY DEF EnsureClosed, workers, budget, leases
<1>2. Counted'
  BY <1>1, SameReaders DEF IInv, Leased
<1>3. QED BY <1>1, <1>2 DEF IInv, Types, Waiting, Leases, Leased

-----------------------------------------------------------------------------
(* Requests. *)

\* A lease that is taken, and one that is given back.
LEMMA OneMoreReader ==
  ASSUME IInv, NEW r \in Requests, NEW k \in Keys, ~Leased(r), Leased(r)', request'[r].key = k,
         \A s \in Requests \ {r} : request'[s] = request[s],
         readers' = [readers EXCEPT ![k] = @ + 1]
  PROVE  Counted'
<1>1. Readers(k)' = Readers(k) \cup {r} /\ r \notin Readers(k)
  BY DEF Readers, Leased
<1>2. \A x \in Keys \ {k} : Readers(x)' = Readers(x)
  BY DEF Readers, Leased
<1>3. IsFiniteSet(Readers(k))
  BY HLSAssumption, FS_Subset DEF Readers
<1>4. Cardinality(Readers(k)') = Cardinality(Readers(k)) + 1
  BY <1>1, <1>3, FS_AddElement
<1>5. QED BY <1>2, <1>4 DEF Counted, IInv, Types

LEMMA OneReaderLess ==
  ASSUME IInv, NEW r \in Requests, NEW k \in Keys, Leased(r), ~Leased(r)', request[r].key = k,
         \A s \in Requests \ {r} : request'[s] = request[s],
         readers' = [readers EXCEPT ![k] = @ - 1]
  PROVE  Counted'
<1>1. Readers(k)' = Readers(k) \ {r} /\ r \in Readers(k)
  BY DEF Readers, Leased
<1>2. \A x \in Keys \ {k} : Readers(x)' = Readers(x)
  BY DEF Readers, Leased
<1>3. IsFiniteSet(Readers(k))
  BY HLSAssumption, FS_Subset DEF Readers
<1>4. Cardinality(Readers(k)') = Cardinality(Readers(k)) - 1
  BY <1>1, <1>3, FS_RemoveElement
<1>5. QED BY <1>2, <1>4 DEF Counted, IInv, Types

LEMMA RequestKept ==
  ASSUME IInv, NEW r \in Requests, RequestStep(r)
  PROVE  IInv'
<1> USE DEF manager, workers, budget, leases
<1>0. \A s \in Requests : request[s] \in Places
  BY DEF IInv, Types
<1>1. CASE WaitPlayable(r) \/ WaitEnds(r)
  <2>1. /\ request[r].pc = "wait"
        /\ request' = [request EXCEPT ![r] = Idle] \/ request' = [request EXCEPT ![r].pc = "lease"]
        /\ UNCHANGED <<current, queue, running, closed, job, phase, active, parked, dir,
                       readers, recent, seen>>
    BY <1>1 DEF WaitPlayable, WaitEnds, Answers
  <2>2. /\ request' \in [Requests -> Places]
        /\ \A s \in Requests : \/ request'[s] = request[s]
                               \/ request[s].pc = "wait" /\ request'[s] = Idle
                               \/ /\ request[s].pc = "wait" /\ request'[s].pc = "lease"
                                  /\ request'[s].key = request[s].key
                                  /\ request'[s].job = request[s].job
    <3>1. CASE request' = [request EXCEPT ![r] = Idle]
      <4>1. Idle \in Places
        BY DEF Idle, Places
      <4>2. QED BY <2>1, <3>1, <4>1 DEF IInv, Types
    <3>2. CASE request' = [request EXCEPT ![r].pc = "lease"]
      <4>1. [request[r] EXCEPT !.pc = "lease"] \in Places
        BY <1>0 DEF Places
      <4>2. QED BY <1>0, <2>1, <3>2, <4>1 DEF IInv, Types, Places
    <3>3. QED BY <2>1, <3>1, <3>2
  <2>3. Types'
    BY <2>1, <2>2 DEF IInv, Types
  <2>4. Waiting(queue, phase)' /\ AtWork(current, job, phase)'
    BY <2>1 DEF IInv, Waiting
  <2>5. \A s \in Requests : Leased(s)' = Leased(s) /\ (Leased(s) => request'[s] = request[s])
    BY <2>2 DEF Leased, Idle
  <2>6. Leases'
    BY <2>1, <2>2, <2>5 DEF IInv, Leases, Idle
  <2>7. Counted'
    BY <2>1, <2>5, SameReaders DEF IInv
  <2>8. QED BY <2>3, <2>4, <2>6, <2>7 DEF IInv
<1>2. CASE AcquireRead(r)
  <2> DEFINE k == request[r].key
  <2>1. /\ request[r].pc = "lease" /\ k \in Keys /\ request[r].job \in Jobs
        /\ UNCHANGED <<current, queue, running, closed, job, phase, active, parked, dir, seen>>
    BY <1>2 DEF AcquireRead, IInv, Leases
  <2>2. Waiting(queue, phase)' /\ AtWork(current, job, phase)'
    BY <2>1 DEF IInv, Waiting
  <2>3. CASE /\ Readable(k) /\ current[k] = request[r].job
             /\ Lease(k)
             /\ request' = [request EXCEPT ![r].pc = "read"]
    <3>1. /\ readers' = [readers EXCEPT ![k] = @ + 1] /\ recent' = [recent EXCEPT ![k] = Grace]
          /\ job[request[r].job].status \notin {"queued", "starting"}
      BY <2>3 DEF Lease, Readable
    <3>2. /\ request'[r].pc = "read" /\ request'[r].key = k /\ request'[r].job = request[r].job
          /\ \A s \in Requests \ {r} : request'[s] = request[s]
          /\ request' \in [Requests -> Places]
      <4>1. [request[r] EXCEPT !.pc = "read"] \in Places
        BY <1>0 DEF Places
      <4>2. QED BY <1>0, <2>3, <4>1 DEF IInv, Types, Places
    <3>3. Types'
      BY <2>1, <3>1, <3>2, HLSAssumption DEF IInv, Types
    <3>4. Leases'
      BY <2>1, <2>3, <3>1, <3>2 DEF IInv, Leases, Leased
    <3>5. Counted'
      BY <2>1, <3>1, <3>2, OneMoreReader DEF Leased
    <3>6. QED BY <2>2, <3>3, <3>4, <3>5 DEF IInv
  <2>4. CASE Answers(r) /\ UNCHANGED leases
    <3>1. /\ request'[r] = Idle /\ \A s \in Requests \ {r} : request'[s] = request[s]
          /\ request' \in [Requests -> Places]
      BY <2>4 DEF Answers, IInv, Types, Idle, Places
    <3>2. Types'
      BY <2>1, <2>4, <3>1 DEF IInv, Types
    <3>3. Leases'
      BY <2>1, <3>1 DEF IInv, Leases, Leased, Idle
    <3>4. Counted'
      BY <2>1, <2>4, <3>1, SameReaders DEF IInv, Leased, Idle
    <3>5. QED BY <2>2, <3>2, <3>3, <3>4 DEF IInv
  <2>5. QED BY <1>2, <2>3, <2>4 DEF AcquireRead
<1>3. ASSUME NEW k \in Keys, AcquireSegment(r, k) PROVE IInv'
  <2>1. /\ request[r].pc = "idle" /\ current[k] \in Jobs
        /\ job[current[k]].status \notin {"queued", "starting"}
        /\ readers' = [readers EXCEPT ![k] = @ + 1] /\ recent' = [recent EXCEPT ![k] = Grace]
        /\ UNCHANGED <<current, queue, running, closed, job, phase, active, parked, dir, seen>>
    BY <1>3 DEF AcquireSegment, Readable, Lease, IInv, Types
  <2>2. /\ request'[r].pc = "fetch" /\ request'[r].key = k /\ request'[r].job = current[k]
        /\ \A s \in Requests \ {r} : request'[s] = request[s]
        /\ request' \in [Requests -> Places]
    <3>1. [pc |-> "fetch", key |-> k, job |-> current[k]] \in Places
      BY <2>1 DEF Places
    <3>2. QED BY <1>3, <3>1 DEF AcquireSegment, IInv, Types
  <2>3. Waiting(queue, phase)' /\ AtWork(current, job, phase)'
    BY <2>1 DEF IInv, Waiting
  <2>4. Types'
    BY <2>1, <2>2, HLSAssumption DEF IInv, Types
  <2>5. Leases'
    BY <2>1, <2>2 DEF IInv, Leases, Leased
  <2>6. Counted'
    BY <2>1, <2>2, OneMoreReader DEF Leased
  <2>7. QED BY <2>3, <2>4, <2>5, <2>6 DEF IInv
<1>4. CASE GetJob(r)
  <2> DEFINE k == request[r].key
  <2>1. /\ request[r].pc = "fetch" /\ k \in Keys /\ current[k] \in Jobs
        /\ current[k] = request[r].job
        /\ UNCHANGED <<current, queue, running, closed, job, phase, active, parked, dir,
                       readers, recent, seen>>
    BY <1>4 DEF GetJob, IInv, Leases, Leased
  <2>2. /\ request'[r].pc = "read" /\ request'[r].key = k /\ request'[r].job = request[r].job
        /\ \A s \in Requests \ {r} : request'[s] = request[s]
        /\ request' \in [Requests -> Places]
    <3>1. [[request[r] EXCEPT !.pc = "read"] EXCEPT !.job = current[k]] \in Places
      BY <1>0, <2>1 DEF Places
    <3>2. QED BY <1>0, <1>4, <2>1, <3>1 DEF GetJob, IInv, Types, Places
  <2>3. Waiting(queue, phase)' /\ AtWork(current, job, phase)'
    BY <2>1 DEF IInv, Waiting
  <2>4. Types'
    BY <2>1, <2>2 DEF IInv, Types
  <2>5. Leases'
    BY <2>1, <2>2 DEF IInv, Leases, Leased
  <2>6. Counted'
    BY <2>1, <2>2, SameReaders DEF IInv, Leased
  <2>7. QED BY <2>3, <2>4, <2>5, <2>6 DEF IInv
<1>5. CASE Release(r)
  <2> DEFINE k == request[r].key
  <2>1. /\ request[r].pc = "read" /\ k \in Keys
        /\ readers' = [readers EXCEPT ![k] = @ - 1] /\ recent' = [recent EXCEPT ![k] = Grace]
        /\ seen' \in SUBSET Keys
        /\ UNCHANGED <<current, queue, running, closed, job, phase, active, parked, dir>>
    BY <1>5 DEF Release, Touched, IInv, Types, Leases, Leased
  <2>2. /\ request'[r] = Idle /\ \A s \in Requests \ {r} : request'[s] = request[s]
        /\ request' \in [Requests -> Places]
    BY <1>5 DEF Release, Answers, IInv, Types, Idle, Places
  <2>3. Waiting(queue, phase)' /\ AtWork(current, job, phase)'
    BY <2>1 DEF IInv, Waiting
  <2>4. Types'
    BY <2>1, <2>2, HLSAssumption DEF IInv, Types
  <2>5. Leases'
    BY <2>1, <2>2 DEF IInv, Leases, Leased, Idle
  <2>6. Counted'
    <3>1. Leased(r) /\ ~Leased(r)'
      BY <2>1, <2>2 DEF Leased, Idle
    <3>2. QED BY <2>1, <2>2, <3>1, OneReaderLess
  <2>7. QED BY <2>3, <2>4, <2>5, <2>6 DEF IInv
<1>6. QED BY <1>1, <1>2, <1>3, <1>4, <1>5 DEF RequestStep
-----------------------------------------------------------------------------
(* Conversions and stages. *)

LEMMA WorkerKept ==
  ASSUME IInv, NEW w \in Jobs \cup Tasks, Acquire(w) \/ Awake(w)
  PROVE  IInv'
<1> USE DEF manager, budget, leases
<1>1. PICK p \in {"prepare", "parked", "acquire", "failing"} :
        phase' = [phase EXCEPT ![w] = p] /\ (p = "failing" => Cancelled(w))
  BY DEF Acquire, Awake, Returns, Goes
<1>2. /\ phase[w] \in {"acquire", "parked"} /\ active' \in Int
      /\ parked' \in SUBSET (Jobs \cup Tasks)
      /\ UNCHANGED <<current, queue, running, closed, job, dir, readers, recent, request, seen>>
  BY DEF Acquire, Awake, Returns, Goes, IInv, Types
<1>3. Types'
  BY <1>1, <1>2 DEF IInv, Types, Phases, Working, Executing
<1>4. w \in Jobs => Open(job[w])
  BY <1>2 DEF IInv, AtWork, Executing
<1>5. /\ Waiting(queue, phase)' /\ AtWork(current, job, phase)' /\ Leases' /\ Counted'
  <2>1. p \in Phases \ {"queued"} /\ phase[w] # "queued"
    BY <1>2 DEF Phases, Working, Executing
  <2>2. QED
    BY <1>1, <1>2, <1>4, <2>1, WorkerMoves DEF Executing, Unplayed
<1>6. QED BY <1>3, <1>5 DEF IInv

LEMMA TaskKept ==
  ASSUME IInv, NEW t \in Tasks, TaskStarts(t) \/ TaskCancelled(t) \/ TaskEnds(t)
  PROVE  IInv'
<1> USE DEF manager, budget, leases
<1>1. PICK p \in {"acquire", "unused"} : phase' = [phase EXCEPT ![t] = p]
  BY DEF TaskStarts, TaskCancelled, TaskEnds, Returns, Goes
<1>2. /\ phase[t] \in {"unused", "acquire", "parked", "prepare"} /\ active' \in Int
      /\ parked' \in SUBSET (Jobs \cup Tasks)
      /\ UNCHANGED <<current, queue, running, closed, job, dir, readers, recent, request, seen>>
  BY DEF TaskStarts, TaskCancelled, TaskEnds, Returns, Goes, FreeSlot, IInv, Types
<1>3. Types'
  BY <1>1, <1>2 DEF IInv, Types, Phases, Working, Executing
<1>4. t \notin Jobs
  BY HLSAssumption DEF Jobs
<1>5. /\ Waiting(queue, phase)' /\ AtWork(current, job, phase)' /\ Leases' /\ Counted'
  <2>1. p \in Phases \ {"queued"} /\ phase[t] # "queued"
    BY <1>2 DEF Phases, Working, Executing
  <2>2. QED
    BY <1>1, <1>2, <1>4, <2>1, WorkerMoves
<1>6. QED BY <1>3, <1>5 DEF IInv

LEMMA DirectoryTypes ==
  ASSUME NEW d \in Directory, NEW n \in 0..2, NEW j \in Jobs \cup {None},
         NEW m \in BOOLEAN
  PROVE  /\ NewDir(j) \in Directory
         /\ [d EXCEPT !.stage = n] \in Directory
         /\ [d EXCEPT !.stage = n, !.whole = TRUE] \in Directory
         /\ [d EXCEPT !.marked = TRUE] \in Directory
         /\ [d EXCEPT !.faulted = m] \in Directory
         /\ [d EXCEPT !.stage = n, !.whole = FALSE, !.marked = m, !.faulted = TRUE] \in Directory
<1>1. NewDir(j) \in Directory
  BY DEF Directory, NewDir
<1>2. [d EXCEPT !.stage = n] \in Directory
  BY DEF Directory
<1>3. [d EXCEPT !.stage = n, !.whole = TRUE] \in Directory
  BY DEF Directory
<1>4. [d EXCEPT !.marked = TRUE] \in Directory
  BY DEF Directory
<1>5. [d EXCEPT !.faulted = m] \in Directory
  BY DEF Directory
<1>6. [d EXCEPT !.stage = n, !.whole = FALSE, !.marked = m, !.faulted = TRUE] \in Directory
  BY DEF Directory
<1>7. QED BY <1>1, <1>2, <1>3, <1>4, <1>5, <1>6

\* What is left of a directory when removing it fails.
LEMMA TornDirectory ==
  ASSUME IInv, NEW k \in Keys, NEW d \in Torn(k)
  PROVE  d \in Directory /\ d.faulted
<1>1. dir[k] \in Directory
  BY DEF IInv, Types
<1>2. /\ dir[k].by \in Jobs \cup {None} /\ 0..dir[k].stage \subseteq 0..2
      /\ {FALSE, dir[k].marked} \subseteq BOOLEAN
  BY <1>1 DEF Directory
<1>3. QED BY <1>2 DEF Torn, Directory

\* What a step of a conversion does to the directories leaves them in their type.
LEMMA Built ==
  ASSUME IInv, NEW j \in Jobs,
         \/ Prepare(j) \/ FirstSegment(j) \/ EncodeEnds(j) \/ Mark(j)
  PROVE  dir' \in [Keys -> Directory] /\ seen' \in SUBSET Keys
<1> DEFINE k == job[j].key
<1>1. dir \in [Keys -> Directory] /\ seen \in SUBSET Keys /\ j \in Jobs \cup {None}
  BY DEF IInv, Types
<1>2. seen' \in SUBSET Keys
  BY <1>1 DEF Prepare, FirstSegment, EncodeEnds, EncodeSucceeds, EncodeFails, Mark, Touched
<1>3. CASE Prepare(j)
  <2>1. \/ dir' = [dir EXCEPT ![k] = NewDir(j)] \/ dir' = dir
        \/ \E d \in {NoDir} \cup Torn(k) : dir' = [dir EXCEPT ![k] = d]
    BY <1>3 DEF Prepare
  <2>2. NewDir(j) \in Directory /\ NoDir \in Directory
    BY <1>1 DEF NewDir, NoDir, Directory
  <2>3. k \in Keys
    BY <1>3 DEF Prepare, IInv, AtWork, Executing
  <2>4. \A d \in Torn(k) : d \in Directory
    BY <2>3, TornDirectory
  <2>5. QED BY <1>1, <1>2, <2>1, <2>2, <2>4
<1>4. CASE FirstSegment(j)
  <2>1. dir' = [dir EXCEPT ![k].stage = 1] /\ 1 \in 0..2
    BY <1>4 DEF FirstSegment
  <2>2. \A d \in Directory : [d EXCEPT !.stage = 1] \in Directory
    BY <2>1, DirectoryTypes
  <2>3. QED BY <1>1, <1>2, <2>1, <2>2
<1>5. CASE EncodeSucceeds(j)
  <2>1. dir' = [dir EXCEPT ![k] = [@ EXCEPT !.stage = 2, !.whole = TRUE]] /\ 2 \in 0..2
    BY <1>5 DEF EncodeSucceeds
  <2>2. \A d \in Directory : [d EXCEPT !.stage = 2, !.whole = TRUE] \in Directory
    BY <2>1, DirectoryTypes
  <2>3. QED BY <1>1, <1>2, <2>1, <2>2
<1>6. CASE EncodeFails(j)
  <2>1. k \in Keys => \A s \in dir[k].stage..2 : s \in 0..2
    BY <1>1 DEF Directory
  <2>2. \A s \in 0..2, d \in Directory : [d EXCEPT !.stage = s] \in Directory
    BY DirectoryTypes
  <2>3. CASE k \in Keys
    BY <1>1, <1>2, <1>6, <2>1, <2>2, <2>3 DEF EncodeFails
  <2>4. CASE k \notin Keys
    BY <1>1, <1>2, <1>6, <2>4 DEF EncodeFails
  <2>5. QED BY <2>3, <2>4
<1>7. CASE Mark(j)
  <2>1. \E m \in BOOLEAN : \/ dir' = [dir EXCEPT ![k].marked = TRUE]
                           \/ dir' = [dir EXCEPT ![k].faulted = m]
    BY <1>7 DEF Mark, Absent
  <2>2. \A m \in BOOLEAN, d \in Directory : /\ [d EXCEPT !.marked = TRUE] \in Directory
                                            /\ [d EXCEPT !.faulted = m] \in Directory
    <3>1. 0 \in 0..2
      OBVIOUS
    <3>2. QED BY <1>1, <3>1, DirectoryTypes
  <2>3. QED BY <1>1, <1>2, <2>1, <2>2
<1>8. QED BY <1>3, <1>4, <1>5, <1>6, <1>7 DEF EncodeEnds

LEMMA ConversionKept ==
  ASSUME IInv, NEW j \in Jobs,
         \/ Prepare(j) \/ FirstSegment(j) \/ EncodeEnds(j) \/ Mark(j)
  PROVE  IInv'
<1>1. PICK p \in {"encode", "failing", "converted", "marked"} : phase' = [phase EXCEPT ![j] = p]
  <2>1. phase[j] = "encode" /\ phase' = phase => phase' = [phase EXCEPT ![j] = "encode"]
    BY DEF IInv, Types
  <2>2. QED
    BY <2>1 DEF Prepare, FirstSegment, EncodeEnds, EncodeSucceeds, EncodeFails, Mark, Goes, workers
<1>2. /\ phase[j] \in {"prepare", "encode", "failing"} /\ active' \in Int
      /\ parked' \in SUBSET (Jobs \cup Tasks)
      /\ UNCHANGED <<current, queue, running, closed, job, readers, recent, request>>
  BY DEF Prepare, FirstSegment, EncodeEnds, EncodeSucceeds, EncodeFails, Mark, Goes,
         FreeSlot, manager, workers, budget, leases, IInv, Types
<1>3. Types'
  BY <1>1, <1>2, Built DEF IInv, Types, Phases, Working, Executing
<1>4. Open(job[j])
  BY <1>2 DEF IInv, AtWork, Executing
<1>5. Waiting(queue, phase)' /\ AtWork(current, job, phase)' /\ Leases' /\ Counted'
  <2>1. p \in Phases \ {"queued"} /\ phase[j] # "queued"
    BY <1>2 DEF Phases, Working, Executing
  <2>2. QED
    BY <1>1, <1>2, <1>4, <2>1, WorkerMoves DEF Executing, Unplayed
<1>6. QED BY <1>3, <1>5 DEF IInv

LEMMA PlayableKept ==
  ASSUME IInv, NEW j \in Jobs, Playable(j)
  PROVE  IInv'
<1>1. /\ phase[j] = "encode" /\ phase' = [phase EXCEPT ![j] = "encode"]
      /\ UNCHANGED <<current, queue, running, closed, active, parked, dir, readers, recent,
                     request, seen>>
  BY DEF Playable, manager, budget, leases, IInv, Types
<1>2. Open(job[j]) /\ job[j] \in JobRecords
  BY <1>1 DEF IInv, Types, AtWork, Executing
<1>3. /\ job' \in [Jobs -> JobRecords] /\ \A i \in Jobs \ {j} : job'[i] = job[i]
      /\ job'[j].key = job[j].key /\ job'[j].status = "playable" /\ Open(job'[j])
  <2> DEFINE rec == [job[j] EXCEPT !.status = "playable", !.playable = TRUE]
  <2>1. rec \in JobRecords /\ rec.key = job[j].key /\ rec.status = "playable"
    BY <1>2 DEF JobRecords, Statuses
  <2>2. ~rec.done
    BY <1>2 DEF Open, JobRecords
  <2>3. job' = [job EXCEPT ![j] = rec]
    BY DEF Playable
  <2> HIDE DEF rec
  <2>4. QED BY <2>1, <2>2, <2>3 DEF IInv, Types, Open
<1>4. Types'
  BY <1>1, <1>3 DEF IInv, Types
<1>5. Waiting(queue, phase)' /\ AtWork(current, job, phase)' /\ Leases' /\ Counted'
  BY <1>1, <1>3, WorkerMoves DEF Executing, Unplayed, Phases, Working
<1>6. QED BY <1>4, <1>5 DEF IInv

LEMMA FinishKept ==
  ASSUME IInv, NEW j \in Jobs, FinishFailed(j) \/ FinishConverted(j) \/ Panic(j)
  PROVE  IInv'
<1>1. PICK status \in {"partial", "failed", "completed"} :
        /\ job' = [job EXCEPT ![j] = Finished(@, status)]
        /\ phase' = [phase EXCEPT ![j] = "leaving"]
  BY DEF FinishFailed, FinishConverted, Panic, Finish, Goes
<1>2. /\ phase[j] \in Executing /\ active' \in Int /\ parked' \in SUBSET (Jobs \cup Tasks)
      /\ UNCHANGED <<current, queue, running, closed, dir, readers, recent, request, seen>>
  BY DEF FinishFailed, FinishConverted, Panic, Finish, FreeSlot, Holding, Executing,
         manager, budget, leases, IInv, Types
<1>3. job[j] \in JobRecords /\ status \in Statuses
  BY DEF IInv, Types, Statuses, Failures
<1>4. /\ job' \in [Jobs -> JobRecords] /\ \A i \in Jobs \ {j} : job'[i] = job[i]
      /\ job'[j].key = job[j].key /\ job'[j].status \in {job[j].status, status}
  BY <1>1, <1>3, FinishedJob DEF IInv, Types
<1>5. Types'
  BY <1>1, <1>2, <1>4 DEF IInv, Types, Phases, Working
<1>6. Waiting(queue, phase)' /\ AtWork(current, job, phase)' /\ Leases' /\ Counted'
  <2>1. "leaving" \in Phases \ {"queued"} /\ "leaving" \notin Executing /\ "leaving" \notin Unplayed
        /\ phase[j] # "queued"
    BY <1>2 DEF Phases, Working, Executing, Unplayed
  <2>2. QED BY <1>1, <1>2, <1>4, <2>1, WorkerMoves
<1>7. QED BY <1>5, <1>6 DEF IInv

LEMMA AgesKept ==
  ASSUME IInv, NEW j \in Jobs, Ages(j)
  PROVE  IInv'
<1>1. /\ job' = [job EXCEPT ![j].old = TRUE] /\ job[j].done
      /\ phase' = [phase EXCEPT ![j] = phase[j]]
      /\ UNCHANGED <<current, queue, running, closed, phase, active, parked, dir, readers,
                     recent, request, seen>>
  BY DEF Ages, Failed, manager, budget, leases, IInv, Types
<1>2. phase[j] \notin Executing \cup {"queued"}
  BY <1>1 DEF IInv, AtWork, Open
<1>3. job[j] \in JobRecords /\ phase[j] \in Phases
  BY DEF IInv, Types
<1>4. /\ job' \in [Jobs -> JobRecords] /\ \A i \in Jobs \ {j} : job'[i] = job[i]
      /\ job'[j].key = job[j].key /\ job'[j].status = job[j].status
  <2>1. [job[j] EXCEPT !.old = TRUE] \in JobRecords
    BY <1>3 DEF JobRecords
  <2>2. QED BY <1>1, <1>3, <2>1 DEF IInv, Types, JobRecords
<1>5. Types'
  BY <1>1, <1>4 DEF IInv, Types
<1>6. Waiting(queue, phase)' /\ AtWork(current, job, phase)' /\ Leases' /\ Counted'
  <2>1. phase[j] \in Phases \ {"queued"} /\ (phase[j] \in Unplayed => FALSE)
    BY <1>2, <1>3 DEF Executing, Unplayed
  <2>2. QED BY <1>1, <1>2, <1>4, <2>1, WorkerMoves
<1>7. QED BY <1>5, <1>6 DEF IInv

LEMMA LeaveKept ==
  ASSUME IInv, Limits, NEW j \in Jobs, Leave(j)
  PROVE  IInv'
<1> DEFINE ph == [phase EXCEPT ![j] = "gone"]
<1>1. /\ phase[j] = "leaving" /\ Dispatch(queue, running - 1, maxConcurrent, job, ph)
      /\ UNCHANGED <<current, closed, active, parked, dir, readers, recent, request, seen>>
  BY DEF Leave, budget, leases
<1>2. /\ ph \in [Jobs \cup Tasks -> Phases] /\ ph[j] = "gone"
      /\ \A i \in Jobs : i # j => ph[i] = phase[i]
  BY DEF IInv, Types, Phases
<1>3. Waiting(queue, ph) /\ AtWork(current, job, ph)
  <2> HIDE DEF ph
  <2>1. \A i \in 1..Len(queue) : queue[i] \in Jobs /\ queue[i] # j
    BY <1>1 DEF IInv, Types, Waiting
  <2>2. QED BY <1>2, <2>1 DEF IInv, Waiting, AtWork, Executing, Unplayed
<1> HIDE DEF ph
<1>4. /\ queue \in Seq(Jobs) /\ running \in Int /\ job \in [Jobs -> JobRecords]
      /\ maxConcurrent \in Nat \ {0}
  BY DEF IInv, Types, Limits
<1>5. PICK m \in Int, max \in Int : m = running - 1 /\ max = maxConcurrent
  BY <1>4
<1>6. Dispatch(queue, m, max, job, ph)
  BY <1>1, <1>5
<1>7. /\ Waiting(queue', phase') /\ job' \in [Jobs -> JobRecords]
      /\ phase' \in [Jobs \cup Tasks -> Phases] /\ \A i \in Jobs : AsOrTaken(i, job, ph)
  <2>1. ph \in [Jobs \cup Tasks -> Phases]
    BY <1>2
  <2>2. /\ Waiting(queue', phase') /\ job' \in [Jobs -> JobRecords]
        /\ phase' \in [Jobs \cup Tasks -> Phases]
    BY <1>3, <1>4, <1>6, <2>1, DispatchJobs
  <2>3. \A i \in Jobs : AsOrTaken(i, job, ph)
    BY <1>3, <1>4, <1>6, <2>1, DispatchJobs
  <2>4. QED BY <2>2, <2>3
<1>8. queue' \in Seq(Jobs) /\ running' \in Int
  <2>1. Room(Len(queue), m, max) \in 0..Len(queue) /\ Len(queue) \in Nat
    BY <1>4, <1>6, DispatchQueue
  <2>2. QED BY <1>4, <1>6, <2>1, DispatchQueue
<1>9. Types'
  BY <1>1, <1>7, <1>8 DEF IInv, Types
<1>10. AtWork(current, job, phase)'
  BY <1>1, <1>3, <1>7 DEF AsOrTaken, AtWork, Executing, Unplayed, Open
<1>11. Leases'
  BY <1>1, <1>3, <1>7 DEF IInv, AsOrTaken, AtWork, Unplayed, Leases, Leased
<1>12. Counted'
  BY <1>1, SameReaders DEF IInv, Leased
<1>13. QED BY <1>7, <1>9, <1>10, <1>11, <1>12 DEF IInv

-----------------------------------------------------------------------------
(* Close, the janitor and time. *)

LEMMA CloseKept ==
  ASSUME IInv, Close
  PROVE  IInv'
<1> DEFINE queued == {queue[i] : i \in 1..Len(queue)}
<1>1. /\ closed' = TRUE /\ queue' = <<>>
      /\ phase' = [w \in Jobs \cup Tasks |-> IF w \in queued THEN "gone" ELSE phase[w]]
      /\ UNCHANGED <<current, running, active, parked, dir, readers, recent, request, seen>>
  BY DEF Close, budget, leases
<1>2. \A w \in queued : w \in Jobs /\ phase[w] = "queued"
  BY DEF IInv, Types, Waiting
<1>3. \A j \in Jobs : \/ j \in queued /\ job'[j] = Finished(job[j], "failed")
                      \/ j \notin queued /\ job'[j] = [job[j] EXCEPT !.cancelled = TRUE]
                      \/ j \notin queued /\ job'[j] = job[j]
  BY DEF Close
<1> HIDE DEF queued
<1>4. \A j \in Jobs : job[j] \in JobRecords
  BY DEF IInv, Types
<1>5. job' \in [Jobs -> JobRecords]
  <2>1. \A j \in Jobs : Finished(job[j], "failed") \in JobRecords
    BY <1>4, FinishedJob DEF Statuses, Failures
  <2>2. \A j \in Jobs : [job[j] EXCEPT !.cancelled = TRUE] \in JobRecords
    BY <1>4 DEF JobRecords
  <2>3. job' = [j \in Jobs |-> job'[j]]
    BY DEF Close
  <2>4. QED BY <1>3, <1>4, <2>1, <2>2, <2>3
<1>6. \A j \in Jobs : j \notin queued =>
        /\ job'[j].key = job[j].key /\ job'[j].status = job[j].status
        /\ ~job[j].done => ~job'[j].done
  BY <1>3, <1>4 DEF JobRecords
<1>7. Types'
  BY <1>1, <1>5 DEF IInv, Types, Phases
<1>8. Waiting(queue, phase)'
  BY <1>1 DEF Waiting
<1>9. AtWork(current, job, phase)'
  BY <1>1, <1>6 DEF IInv, AtWork, Executing, Unplayed, Open
<1>10. Leases'
  <2>1. \A j \in queued : job[j].status \in {"queued", "starting"}
    BY <1>2 DEF IInv, AtWork, Unplayed
  <2>2. QED BY <1>1, <1>6, <2>1 DEF IInv, Leases, Leased
<1>11. Counted'
  BY <1>1, SameReaders DEF IInv, Leased
<1>12. QED BY <1>7, <1>8, <1>9, <1>10, <1>11 DEF IInv

LEMMA JanitorKept ==
  ASSUME IInv, NEW k \in Keys, Remove(k) \/ RemoveFails(k)
  PROVE  IInv'
<1>1. /\ Unread(k) /\ (current[k] # None => ~IsActive(current[k]))
      /\ current' = [current EXCEPT ![k] = None] \/ current' = current
      /\ UNCHANGED <<queue, running, closed, job, phase, active, parked, readers, recent,
                     request>>
      /\ seen' \in SUBSET Keys
  BY DEF Remove, RemoveFails, Removable, manager, workers, budget, leases, IInv, Types
<1>2. dir' \in [Keys -> Directory]
  <2>1. CASE Remove(k)
    <3>1. NoDir \in Directory
      BY DEF NoDir, NewDir, Directory
    <3>2. QED BY <2>1, <3>1 DEF Remove, IInv, Types
  <2>2. CASE RemoveFails(k)
    <3>1. PICK d \in Torn(k) : dir' = [dir EXCEPT ![k] = d]
      BY <2>2 DEF RemoveFails
    <3>2. d \in Directory
      BY TornDirectory
    <3>3. QED BY <3>1, <3>2 DEF IInv, Types
  <2>3. QED BY <2>1, <2>2
<1>3. Types'
  BY <1>1, <1>2 DEF IInv, Types
<1>4. AtWork(current, job, phase)'
  BY <1>1, HLSAssumption DEF IInv, Types, AtWork, Open, IsActive, Jobs
<1>5. Waiting(queue, phase)'
  BY <1>1 DEF IInv, Waiting
<1>6. Leases'
  <2>1. \A r \in Requests : Leased(r) => request[r].key # k
    BY <1>1, NobodyReads
  <2>2. QED BY <1>1, <2>1 DEF IInv, Types, Leases, Leased
<1>7. Counted'
  BY <1>1, SameReaders DEF IInv, Leased
<1>8. QED BY <1>3, <1>4, <1>5, <1>6, <1>7 DEF IInv

LEMMA TimeKept ==
  ASSUME IInv, \/ Scan \/ UNCHANGED vars
               \/ \E k \in Keys : GracePasses(k)
  PROVE  IInv'
<1>1. /\ UNCHANGED <<current, queue, running, closed, job, phase, active, parked, dir, readers,
                     request>>
      /\ seen' \in SUBSET Keys /\ recent' \in [Keys -> BOOLEAN]
  BY DEF Scan, GracePasses, vars, manager, workers, budget, leases, IInv, Types
<1>2. Types' /\ Waiting(queue, phase)' /\ AtWork(current, job, phase)' /\ Leases'
  BY <1>1 DEF IInv, Types, Waiting, Leases, Leased
<1>3. Counted'
  BY <1>1, SameReaders DEF IInv, Leased
<1>4. QED BY <1>2, <1>3 DEF IInv

LEMMA Kept == IInv /\ Limits /\ [Next]_vars => IInv'
BY EnsureKept, EnsureClosedKept, RequestKept, WorkerKept, ConversionKept, PlayableKept, FinishKept,
   AgesKept,
   LeaveKept, TaskKept, JanitorKept, CloseKept, TimeKept
DEF Next, WorkerStep

\* The limits come from configurations, and from nothing else.
LEMMA LimitsKept == Limits /\ [Next]_vars => Limits'
<1> SUFFICES ASSUME Limits, [Next]_vars
             PROVE  Limits'
  OBVIOUS
<1>1. ASSUME UNCHANGED <<limits, limit>>
      PROVE  Limits'
  BY <1>1 DEF Limits, limits
<1>2. ASSUME UNCHANGED limits, NEW w \in Jobs \cup Tasks, NEW n \in Nat,
             limit' = [limit EXCEPT ![w] = n]
      PROVE  Limits'
  BY <1>2 DEF Limits, limits
<1>3. ASSUME NEW c \in Config,
             \/ \E r \in Callers, k \in Keys : \/ EnsureExisting(r, k, c)
                                              \/ EnsureRetry(r, k, c) \/ EnsureNew(r, k, c)
             \/ EnsureClosed(c)
      PROVE  Limits'
  <2>1. c.concurrent \in Nat \ {0} /\ c.queued \in Nat \ {0}
    BY ConfigType
  <2>2. maxConcurrent' = c.concurrent /\ maxQueued' = c.queued
    BY <1>3 DEF EnsureExisting, EnsureRetry, EnsureNew, EnsureClosed, Adopt
  <2>3. raised' \in BOOLEAN
    <3>1. NotDispatched(c) => raised' \in BOOLEAN
      BY DEF NotDispatched
    <3>2. \A r, k, table : Accept(r, k, c, table) => raised' = FALSE
      BY DEF Accept, Dispatch
    <3>3. QED
      BY <1>3, <3>1, <3>2
      DEF EnsureExisting, EnsureRetry, EnsureNew, EnsureClosed, Refuse, Limits
  <2>4. limit' \in [Jobs \cup Tasks -> Nat]
    <3>1. \A r, k, table : Accept(r, k, c, table) => limit' \in [Jobs \cup Tasks -> Nat]
      BY <2>1 DEF Accept, Limits
    <3>2. QED
      BY <1>3, <3>1
      DEF EnsureExisting, EnsureRetry, EnsureNew, EnsureClosed, Refuse, Limits, budget
  <2>5. QED BY <2>1, <2>2, <2>3, <2>4 DEF Limits
<1>4. CASE \E w \in Jobs \cup Tasks : Acquire(w) \/ Awake(w)
  BY <1>1, <1>2, <1>4 DEF Acquire, Awake, Returns, manager
<1>5. CASE \E t \in Tasks : TaskStarts(t) \/ TaskCancelled(t) \/ TaskEnds(t)
  <2>1. PICK t \in Tasks : TaskStarts(t) \/ TaskCancelled(t) \/ TaskEnds(t)
    BY <1>5
  <2>2. CASE TaskStarts(t)
    BY <1>2, <2>2, ConfigType DEF TaskStarts, manager
  <2>3. CASE TaskCancelled(t) \/ TaskEnds(t)
    BY <1>1, <1>2, <2>3 DEF TaskCancelled, TaskEnds, Returns, FreeSlot, manager
  <2>4. QED BY <2>1, <2>2, <2>3
<1>6. CASE \E j \in Jobs : Leave(j)
  BY <1>6 DEF Leave, Dispatch, Limits, budget
<1>7. CASE \E j \in Jobs : \/ Prepare(j) \/ EncodeEnds(j) \/ Mark(j) \/ FinishFailed(j)
                           \/ FinishConverted(j) \/ FirstSegment(j) \/ Playable(j)
                           \/ Panic(j) \/ Ages(j)
  BY <1>1, <1>7 DEF Prepare, EncodeEnds, EncodeSucceeds, EncodeFails, Mark, FinishFailed,
     FinishConverted, FirstSegment, Playable, Panic, Ages, FreeSlot, manager, budget
<1>8. CASE \/ \E r \in Requests : RequestStep(r)
           \/ \E k \in Keys : Remove(k) \/ RemoveFails(k) \/ GracePasses(k)
           \/ Close \/ Scan \/ UNCHANGED vars
  BY <1>1, <1>8 DEF RequestStep, AcquireSegment, WaitPlayable, WaitEnds, AcquireRead, GetJob,
     Release, Remove, RemoveFails, GracePasses, Close, Scan, vars, manager, budget
<1>9. QED BY <1>3, <1>4, <1>5, <1>6, <1>7, <1>8 DEF Next, WorkerStep, EnsureJob

LEMMA Invariant == Spec => [](IInv /\ Limits)
<1>1. Init => Limits
  <2> SUFFICES ASSUME Init
               PROVE  Limits
    OBVIOUS
  <2>1. limit \in [Jobs \cup Tasks -> Nat]
    BY DEF Init
  <2>2. maxConcurrent \in Nat \ {0} /\ maxQueued \in Nat
    BY DEF Init
  <2>3. raised \in BOOLEAN
    BY DEF Init
  <2>4. QED BY <2>1, <2>2, <2>3 DEF Limits
<1>2. QED BY <1>1, Initially, Kept, LimitsKept, PTL DEF Spec
-----------------------------------------------------------------------------
(* The theorems. *)

\* While a request holds a lease nothing replaces the job it was given for.
THEOREM LeaseKeepsJobCorrect == Spec => []LeaseKeepsJob
<1>1. IInv => LeaseKeepsJob
  BY DEF IInv, Leases, LeaseKeepsJob
<1>2. QED BY <1>1, Invariant, PTL

\* A job that waits or converts is registered: Close reaches it, and no other
\* conversion shares its directory.
THEOREM WorkingIsRegisteredCorrect == Spec => []WorkingIsRegistered
<1>1. IInv => WorkingIsRegistered
  BY DEF IInv, AtWork, WorkingIsRegistered
<1>2. QED BY <1>1, Invariant, PTL

\* A directory read under a lease is neither removed nor built again: its job is
\* past starting, so no worker prepares the directory, and its reader is counted,
\* so the janitor passes it over.
THEOREM LeaseKeepsDirectoryCorrect == Spec => LeaseKeepsDirectory
<1> DEFINE Keeps == \A r \in Requests : Leased(r) /\ Leased(r)' =>
                      dir'[request[r].key].by = dir[request[r].key].by
<1>1. IInv /\ [Next]_vars => Keeps
  <2> SUFFICES ASSUME IInv, [Next]_vars, NEW r \in Requests, Leased(r)
               PROVE  dir'[request[r].key].by = dir[request[r].key].by
    OBVIOUS
  <2> DEFINE x == request[r].key
  <2>1. /\ x \in Keys /\ current[x] \in Jobs
        /\ job[current[x]].status \notin {"queued", "starting"}
    BY DEF IInv, Leases
  <2>2. dir \in [Keys -> Directory]
    BY DEF IInv, Types
  <2>3. CASE \E k \in Keys : Remove(k) \/ RemoveFails(k)
    <3>1. PICK k \in Keys : Remove(k) \/ RemoveFails(k)
      BY <2>3
    <3>2. Unread(k) /\ x # k
      BY <3>1, NobodyReads DEF Remove, RemoveFails, Removable
    <3>3. dir'[x] = dir[x]
      BY <2>1, <2>2, <3>1, <3>2 DEF Remove, RemoveFails
    <3>4. QED BY <3>3
  <2>4. CASE \E j \in Jobs : Prepare(j)
    <3>1. PICK j \in Jobs : Prepare(j)
      BY <2>4
    <3>2. job[j].key # x
      BY <2>1, <3>1 DEF Prepare, IInv, AtWork, Executing, Unplayed
    <3>3. dir' = dir \/ \E d : dir' = [dir EXCEPT ![job[j].key] = d]
      BY <3>1 DEF Prepare
    <3>4. dir'[x] = dir[x]
      BY <2>1, <2>2, <3>2, <3>3
    <3>5. QED BY <3>4
  <2>5. CASE \E j \in Jobs : FirstSegment(j) \/ EncodeEnds(j) \/ Mark(j)
    <3>1. PICK j \in Jobs : FirstSegment(j) \/ EncodeEnds(j) \/ Mark(j)
      BY <2>5
    <3> DEFINE k == job[j].key
    <3>2. dir'[x].by = dir[x].by
      <4>1. CASE FirstSegment(j)
        BY <2>1, <2>2, <4>1 DEF FirstSegment, Directory
      <4>2. CASE EncodeSucceeds(j)
        BY <2>1, <2>2, <4>2 DEF EncodeSucceeds, Directory
      <4>3. CASE EncodeFails(j)
        BY <2>1, <2>2, <4>3 DEF EncodeFails, Directory
      <4>4. CASE Mark(j)
        BY <2>1, <2>2, <4>4 DEF Mark, Directory
      <4>5. QED BY <3>1, <4>1, <4>2, <4>3, <4>4 DEF EncodeEnds
    <3>3. QED BY <3>2
  <2>6. CASE dir' = dir
    BY <2>6
  <2>7. dir' = dir \/ (\E k \in Keys : Remove(k) \/ RemoveFails(k))
        \/ (\E j \in Jobs : Prepare(j))
        \/ (\E j \in Jobs : FirstSegment(j) \/ EncodeEnds(j) \/ Mark(j))
    <3>1. ASSUME NEW q \in Callers, NEW k \in Keys, EnsureJob(q, k)
          PROVE  dir' = dir
      <4>1. PICK c \in Config : \/ EnsureExisting(q, k, c) \/ EnsureRetry(q, k, c)
                                \/ EnsureNew(q, k, c)
        BY <3>1 DEF EnsureJob
      <4>2. QED BY <4>1 DEF EnsureExisting, EnsureRetry, EnsureNew
    <3>2. QED
      BY <3>1 DEF Next, vars, WorkerStep, EnsureClosed, RequestStep, AcquireSegment,
         WaitPlayable, WaitEnds, AcquireRead, GetJob, Release, Acquire, Awake, TaskStarts,
         TaskCancelled, TaskEnds, Playable, Panic, Ages, FinishFailed, FinishConverted, Leave,
         GracePasses, Close, Scan
  <2>8. QED BY <2>3, <2>4, <2>5, <2>6, <2>7
<1>2. QED BY <1>1, Invariant, PTL DEF Spec, LeaseKeepsDirectory

\* Nobody sleeps through a free slot: whoever frees one wakes all, and one that
\* found none free under its own limit joins the waiters in the same step.
THEOREM NoLostWakeupCorrect == Spec => []NoLostWakeup
<1>1. Init => NoLostWakeup
  BY DEF Init, NoLostWakeup
<1>2. IInv /\ Limits /\ NoLostWakeup /\ [Next]_vars => NoLostWakeup'
  <2> SUFFICES ASSUME IInv, Limits, NoLostWakeup, [Next]_vars
               PROVE  NoLostWakeup'
    OBVIOUS
  <2>1. /\ active \in Int /\ phase \in [Jobs \cup Tasks -> Phases]
        /\ parked \subseteq Jobs \cup Tasks /\ limit \in [Jobs \cup Tasks -> Nat]
    BY DEF IInv, Types, Limits
  <2> DEFINE Quiet == /\ active' = active \/ active' = active + 1
                      /\ parked' \subseteq parked
                      /\ \A w \in parked' : phase'[w] = "parked" =>
                           phase[w] = "parked" /\ limit'[w] = limit[w]
  <2>2. CASE parked' = {}
    BY <2>2 DEF NoLostWakeup
  <2>3. CASE Quiet
    <3> SUFFICES ASSUME NEW w \in parked', phase'[w] = "parked"
                 PROVE  active' >= limit'[w]
      BY DEF NoLostWakeup
    <3>1. active >= limit[w] /\ limit'[w] = limit[w] /\ limit[w] \in Nat
      BY <2>1, <2>3 DEF NoLostWakeup
    <3>2. QED BY <2>1, <2>3, <3>1
  <2>4. ASSUME NEW w \in Jobs \cup Tasks, Awake(w)
        PROVE  Quiet
    BY <2>1, <2>4 DEF Awake, Returns, Goes
  <2>5. ASSUME NEW w \in Jobs \cup Tasks, Acquire(w)
        PROVE  Quiet \/ NoLostWakeup'
    <3>1. CASE active >= limit[w] /\ parked' = parked \cup {w} /\ UNCHANGED <<active, limit>>
      BY <2>1, <2>5, <3>1 DEF Acquire, Returns, Goes, NoLostWakeup
    <3>2. CASE /\ \E p \in {"prepare", "failing"} : Returns(w, p)
               /\ active' \in {active, active + 1} /\ UNCHANGED parked
      BY <2>1, <3>2 DEF Returns, Goes
    <3>3. QED BY <2>5, <3>1, <3>2 DEF Acquire
  <2>6. ASSUME NEW j \in Jobs, \/ Prepare(j) \/ EncodeEnds(j) \/ Mark(j)
                               \/ FinishFailed(j) \/ FinishConverted(j) \/ Panic(j)
        PROVE  Quiet \/ parked' = {}
    BY <2>1, <2>6 DEF Prepare, EncodeEnds, EncodeSucceeds, EncodeFails, Mark, FinishFailed,
       FinishConverted, Panic, Finish, FreeSlot, Goes, budget
  <2>7. ASSUME NEW j \in Jobs, Leave(j)
        PROVE  Quiet
    BY <2>1, <2>7 DEF Leave, Dispatch, budget
  <2>8. ASSUME NEW j \in Jobs, FirstSegment(j) \/ Playable(j) \/ Ages(j)
        PROVE  Quiet
    BY <2>8 DEF FirstSegment, Playable, Ages, workers, budget
  <2>9. ASSUME NEW t \in Tasks, TaskStarts(t) \/ TaskCancelled(t) \/ TaskEnds(t)
        PROVE  Quiet \/ parked' = {}
    BY <2>1, <2>9 DEF TaskStarts, TaskCancelled, TaskEnds, FreeSlot, Returns, Goes
  <2>10. ASSUME NEW r \in Callers, NEW k \in Keys, EnsureJob(r, k)
         PROVE  Quiet
    <3>1. PICK c \in Config : \/ EnsureExisting(r, k, c) \/ EnsureRetry(r, k, c)
                              \/ EnsureNew(r, k, c)
      BY <2>10 DEF EnsureJob
    <3>2. ASSUME NEW table, Accept(r, k, c, table), UNCHANGED <<active, parked>>
          PROVE  Quiet
      <4>1. PICK j \in Jobs :
              /\ IsNext(j) /\ limit' = [limit EXCEPT ![j] = c.concurrent]
              /\ Dispatch(Append(queue, j), running, c.concurrent,
                          [job EXCEPT ![j] = NewJob(k)], [phase EXCEPT ![j] = "queued"])
        BY <3>2 DEF Accept
      <4>2. phase[j] # "parked"
        BY <4>1 DEF IsNext, Free
      <4>3. \A w \in Jobs \cup Tasks : phase'[w] = "parked" => w # j /\ phase[w] = "parked"
        BY <2>1, <4>1, <4>2 DEF Dispatch
      <4>4. QED BY <2>1, <3>2, <4>1, <4>3
    <3>3. CASE EnsureExisting(r, k, c)
      BY <3>3 DEF EnsureExisting, workers, budget
    <3>4. CASE EnsureRetry(r, k, c)
      BY <3>2, <3>4 DEF EnsureRetry, Refuse, workers
    <3>5. CASE EnsureNew(r, k, c)
      BY <2>1, <3>2, <3>5 DEF EnsureNew, Refuse, workers
    <3>6. QED BY <3>1, <3>3, <3>4, <3>5
  <2>11. ASSUME NEW r \in Requests, RequestStep(r)
         PROVE  Quiet
    BY <2>11 DEF RequestStep, AcquireSegment, WaitPlayable, WaitEnds, AcquireRead, GetJob, Release,
       workers, budget
  <2>12. ASSUME NEW k \in Keys, Remove(k) \/ RemoveFails(k) \/ GracePasses(k)
         PROVE  Quiet
    BY <2>12 DEF Remove, RemoveFails, GracePasses, workers, budget
  <2>13. ASSUME Close \/ Scan \/ UNCHANGED vars \/ \E c \in Config : EnsureClosed(c)
         PROVE  Quiet
    BY <2>1, <2>13 DEF Close, Scan, EnsureClosed, vars, workers, budget
  <2>14. QED
    BY <2>2, <2>3, <2>4, <2>5, <2>6, <2>7, <2>8, <2>9, <2>10, <2>11, <2>12, <2>13
    DEF Next, WorkerStep
<1>3. QED BY <1>1, <1>2, Invariant, PTL DEF Spec
-----------------------------------------------------------------------------
(* What a complete playlist says. *)

\* A step that leaves the directories alone.
LEMMA DirectoriesAlone ==
  ASSUME Types, Directories, UNCHANGED dir,
         \A j \in Jobs :
           /\ phase'[j] \in {"encode", "converted"} => phase'[j] = phase[j]
           /\ phase[j] = "failing" => phase'[j] = "failing"
           /\ phase[j] \in {"encode", "converted", "failing"} => job'[j].key = job[j].key,
         \A k \in Keys :
           (current'[k] # None /\ job'[current'[k]].status = "completed") =>
             \/ current'[k] = current[k] /\ job[current[k]].status = "completed"
             \/ dir[k].whole \/ dir[k].faulted,
         \A k \in Keys :
           current'[k] # None =>
             \/ current'[k] = current[k] /\ job'[current[k]].key = job[current[k]].key
             \/ job'[current'[k]].key = k
  PROVE  Directories'
<1>1. \A j \in Jobs :
        /\ phase'[j] = "encode" => dir'[job'[j].key].by = j /\ dir'[job'[j].key].stage < 2
        /\ phase'[j] = "converted" => dir'[job'[j].key].by = j /\ dir'[job'[j].key].whole
  BY DEF Directories
<1>2. \A k \in Keys : CompleteCache(k)' = CompleteCache(k)
  BY DEF CompleteCache, Absent
<1>3. ASSUME NEW k \in Keys, CompleteCache(k)', ~dir'[k].whole, ~dir'[k].faulted
      PROVE  \E j \in Jobs : phase'[j] = "failing" /\ job'[j].key = k
  <2>1. PICK j \in Jobs : phase[j] = "failing" /\ job[j].key = k
    BY <1>2, <1>3 DEF Directories
  <2>2. phase'[j] = "failing" /\ job'[j].key = k
    BY <2>1
  <2>3. QED BY <2>2
<1>4. \A k \in Keys : (current'[k] # None /\ job'[current'[k]].status = "completed") =>
                        (dir'[k].whole \/ dir'[k].faulted)
  BY DEF Directories
<1>5. \A k \in Keys : current'[k] # None => job'[current'[k]].key = k
  BY DEF Directories
<1>6. QED BY <1>1, <1>3, <1>4, <1>5 DEF Directories

\* A step of the worker that owns the directory makes d of it.
LEMMA DirectoryWorked ==
  ASSUME IInv, Directories, NEW j \in Jobs, NEW d \in Directory, NEW p,
         phase[j] \in Executing,
         phase' = [phase EXCEPT ![j] = p], dir' = [dir EXCEPT ![job[j].key] = d],
         UNCHANGED <<current, job>>,
         p = "encode" => d.by = j /\ d.stage < 2,
         p = "converted" => d.by = j /\ d.whole,
         p = "failing" \/ d.by = None \/ d.stage # 2 \/ d.marked \/ d.whole \/ d.faulted
  PROVE  Directories'
<1> DEFINE x == job[j].key
<1>1. x \in Keys /\ current[x] = j /\ Open(job[j])
  BY DEF IInv, AtWork
<1>2. /\ dir'[x] = d /\ \A k \in Keys \ {x} : dir'[k] = dir[k]
      /\ phase'[j] = p /\ \A i \in Jobs \ {j} : phase'[i] = phase[i]
  BY <1>1 DEF IInv, Types
<1>3. \A i \in Jobs \ {j} : phase[i] \in Executing => job[i].key \in Keys \ {x}
  BY <1>1 DEF IInv, AtWork
<1>4. \A i \in Jobs :
        /\ phase'[i] = "encode" => dir'[job'[i].key].by = i /\ dir'[job'[i].key].stage < 2
        /\ phase'[i] = "converted" => dir'[job'[i].key].by = i /\ dir'[job'[i].key].whole
  <2>1. ASSUME NEW i \in Jobs \ {j}, phase'[i] \in {"encode", "converted"}
        PROVE  dir'[job'[i].key] = dir[job[i].key] /\ phase[i] = phase'[i]
    BY <1>2, <1>3, <2>1 DEF Executing
  <2>2. QED BY <1>2, <2>1 DEF Directories
<1>5. ASSUME NEW k \in Keys, CompleteCache(k)', ~dir'[k].whole, ~dir'[k].faulted
      PROVE  \E i \in Jobs : phase'[i] = "failing" /\ job'[i].key = k
  <2>1. CASE k = x
    <3>1. p = "failing"
      BY <1>2, <1>5, <2>1 DEF CompleteCache, Absent
    <3>2. phase'[j] = "failing" /\ job'[j].key = k
      BY <1>2, <2>1, <3>1
    <3>3. QED BY <3>2
  <2>2. CASE k # x
    <3>1. CompleteCache(k) /\ ~dir[k].whole /\ ~dir[k].faulted
      BY <1>2, <1>5, <2>2 DEF CompleteCache, Absent
    <3>2. PICK i \in Jobs : phase[i] = "failing" /\ job[i].key = k
      BY <3>1 DEF Directories
    <3>3. i # j /\ phase'[i] = "failing" /\ job'[i].key = k
      BY <1>2, <2>2, <3>2
    <3>4. QED BY <3>3
  <2>3. QED BY <2>1, <2>2
<1>6. \A k \in Keys : (current'[k] # None /\ job'[current'[k]].status = "completed") =>
                        (dir'[k].whole \/ dir'[k].faulted)
  BY <1>1, <1>2 DEF Directories, Open
<1>7. \A k \in Keys : current'[k] # None => job'[current'[k]].key = k
  BY DEF Directories
<1>8. QED BY <1>4, <1>5, <1>6, <1>7 DEF Directories

LEMMA FreshDirectory ==
  ASSUME NEW j \in Jobs
  PROVE  NewDir(j) \in Directory /\ NewDir(j).by = j /\ NewDir(j).stage = 0
<1>1. NewDir(j) \in Directory
  BY DEF Directory, NewDir
<1>2. NewDir(j).by = j /\ NewDir(j).stage = 0
  BY DEF NewDir
<1>3. QED BY <1>1, <1>2

LEMMA WorkDirectories ==
  ASSUME IInv, Directories, NEW j \in Jobs,
         \/ Prepare(j) \/ FirstSegment(j) \/ EncodeEnds(j) \/ Mark(j)
  PROVE  Directories'
<1> DEFINE x == job[j].key
<1>1. Types
  BY DEF IInv
<1>2. /\ phase[j] \in {"prepare", "encode", "failing"} /\ phase[j] \in Executing
      /\ UNCHANGED <<current, job>>
  BY DEF Prepare, FirstSegment, EncodeEnds, EncodeSucceeds, EncodeFails, Mark, manager, workers,
         Executing
<1>3. x \in Keys /\ dir[x] \in Directory
  BY <1>1, <1>2 DEF IInv, AtWork, Types
<1>4. /\ dir[x].stage \in 0..2
      /\ phase[j] = "encode" => dir[x].by = j /\ dir[x].stage < 2
      /\ None \notin Jobs
  BY <1>3, HLSAssumption DEF Directories, Directory, Jobs
<1>5. CASE Prepare(j) /\ dir' = [dir EXCEPT ![x] = NewDir(j)] /\ Goes(j, "encode")
  <2>1. PICK d \in Directory : d = NewDir(j) /\ d.by = j /\ d.stage < 2 /\ d.stage # 2
    BY FreshDirectory
  <2>2. phase' = [phase EXCEPT ![j] = "encode"] /\ dir' = [dir EXCEPT ![x] = d]
    BY <1>5, <2>1 DEF Goes
  <2>3. QED BY <1>2, <2>1, <2>2, DirectoryWorked
<1>6. CASE Prepare(j) /\ Goes(j, "failing")
  <2>1. PICK d \in Directory : dir' = [dir EXCEPT ![x] = d]
    <3>1. \/ dir' = dir \/ dir' = [dir EXCEPT ![x] = NewDir(j)]
          \/ \E d \in {NoDir} \cup Torn(x) : dir' = [dir EXCEPT ![x] = d]
      BY <1>6 DEF Prepare
    <3>2. dir' = dir => dir' = [dir EXCEPT ![x] = dir[x]]
      BY <1>1, <1>3 DEF Types
    <3>3. NewDir(j) \in Directory /\ NoDir \in Directory
      BY DEF NewDir, NoDir, Directory
    <3>4. \A d \in Torn(x) : d \in Directory
      BY <1>3, TornDirectory
    <3>5. QED BY <1>3, <3>1, <3>2, <3>3, <3>4
  <2>2. phase' = [phase EXCEPT ![j] = "failing"]
    BY <1>6 DEF Goes
  <2>3. QED BY <1>2, <2>1, <2>2, DirectoryWorked
<1>7. CASE FirstSegment(j)
  <2> DEFINE d == [dir[x] EXCEPT !.stage = 1]
  <2>1. d \in Directory /\ d.by = dir[x].by /\ d.stage < 2 /\ d.stage # 2
    BY <1>3 DEF Directory
  <2>2. phase[j] = "encode" /\ phase' = [phase EXCEPT ![j] = "encode"]
        /\ dir' = [dir EXCEPT ![x] = d]
    BY <1>1, <1>3, <1>7 DEF FirstSegment, workers, Types
  <2> HIDE DEF d
  <2>3. QED BY <1>2, <1>4, <2>1, <2>2, DirectoryWorked
<1>8. CASE EncodeSucceeds(j)
  <2> DEFINE d == [dir[x] EXCEPT !.stage = 2, !.whole = TRUE]
  <2>0. d \in Directory
    <3>1. 2 \in 0..2
      OBVIOUS
    <3>2. QED BY <1>3, <3>1, DirectoryTypes
  <2>1. d \in Directory /\ d.by = dir[x].by /\ d.whole
    <3>1. d.by = dir[x].by
      BY <1>3 DEF Directory
    <3>2. d.whole
      BY <1>3 DEF Directory
    <3>3. QED BY <2>0, <3>1, <3>2
  <2>2. phase[j] = "encode" /\ phase' = [phase EXCEPT ![j] = "converted"]
        /\ dir' = [dir EXCEPT ![x] = d]
    BY <1>1, <1>3, <1>8 DEF EncodeSucceeds, Goes, Types
  <2> HIDE DEF d
  <2>3. QED BY <1>2, <1>4, <2>1, <2>2, DirectoryWorked
<1>9. CASE EncodeFails(j)
  <2>1. PICK s \in dir[x].stage..2 : dir' = [dir EXCEPT ![x].stage = s]
    BY <1>9 DEF EncodeFails
  <2> DEFINE d == [dir[x] EXCEPT !.stage = s]
  <2>2. d \in Directory
    <3>1. s \in 0..2
      BY <1>4, <2>1
    <3>2. QED BY <1>3, <3>1, DirectoryTypes
  <2>3. phase' = [phase EXCEPT ![j] = "failing"] /\ dir' = [dir EXCEPT ![x] = d]
    BY <1>1, <1>3, <1>9, <2>1 DEF EncodeFails, Goes, Types
  <2> HIDE DEF d
  <2>4. QED BY <1>2, <2>2, <2>3, DirectoryWorked
<1>10. CASE Mark(j)
  <2>0. phase' = [phase EXCEPT ![j] = "marked"] /\ phase[j] = "failing"
    BY <1>10 DEF Mark, Goes
  <2>1. CASE dir' = [dir EXCEPT ![x].marked = TRUE]
    <3> DEFINE d == [dir[x] EXCEPT !.marked = TRUE]
    <3>1. d \in Directory /\ d.marked
      BY <1>3 DEF Directory
    <3>2. dir' = [dir EXCEPT ![x] = d]
      BY <2>1
    <3> HIDE DEF d
    <3>3. QED BY <1>2, <2>0, <3>1, <3>2, DirectoryWorked
  <2>2. CASE dir' = [dir EXCEPT ![x].faulted = ~Absent(x)]
    <3> DEFINE b == ~Absent(x)
               d == [dir[x] EXCEPT !.faulted = b]
    <3>1. b \in BOOLEAN /\ (d.by # None => b)
      BY <1>3 DEF Absent, Directory
    <3>2. d \in Directory /\ d.faulted = b
      BY <1>3, <3>1, DirectoryTypes DEF Directory
    <3>3. dir' = [dir EXCEPT ![x] = d]
      BY <2>2
    <3> HIDE DEF b, d
    <3>4. d.by # None => d.faulted
      BY <3>1, <3>2
    <3>5. QED BY <1>2, <2>0, <3>2, <3>3, <3>4, DirectoryWorked
  <2>3. QED BY <1>10, <2>1, <2>2 DEF Mark
<1>11. QED BY <1>5, <1>6, <1>7, <1>8, <1>9, <1>10 DEF EncodeEnds, Prepare

\* The janitor removes nothing a worker is at.
LEMMA JanitorDirectories ==
  ASSUME IInv, Directories, NEW k \in Keys, Remove(k) \/ RemoveFails(k)
  PROVE  Directories'
<1>1. /\ current[k] # None => ~IsActive(current[k])
      /\ UNCHANGED <<job, phase>>
      /\ dir'[k].by # None => dir'[k].faulted
      /\ (dir'[k].faulted /\ current'[k] = current[k]) \/ current'[k] = None
      /\ \A x \in Keys \ {k} : dir'[x] = dir[x] /\ current'[x] = current[x]
  <2>1. current \in [Keys -> Jobs \cup {None}] /\ dir \in [Keys -> Directory]
    BY DEF IInv, Types
  <2>2. CASE Remove(k)
    BY <2>1, <2>2 DEF Remove, Removable, workers, NoDir, NewDir
  <2>3. CASE RemoveFails(k)
    <3>1. PICK d \in Torn(k) : dir' = [dir EXCEPT ![k] = d]
      BY <2>3 DEF RemoveFails
    <3>2. dir'[k].faulted /\ \A x \in Keys \ {k} : dir'[x] = dir[x]
      BY <2>1, <3>1, TornDirectory
    <3>3. QED BY <2>3, <3>2 DEF RemoveFails, Removable, manager, workers
  <2>4. QED BY <2>2, <2>3
<1>2. \A j \in Jobs : phase[j] \in Executing => job[j].key \in Keys \ {k}
  BY <1>1, HLSAssumption DEF IInv, AtWork, Open, IsActive, Jobs
<1>3. \A j \in Jobs :
        /\ phase'[j] = "encode" => dir'[job'[j].key].by = j /\ dir'[job'[j].key].stage < 2
        /\ phase'[j] = "converted" => dir'[job'[j].key].by = j /\ dir'[job'[j].key].whole
  BY <1>1, <1>2 DEF Directories, Executing
<1>4. ASSUME NEW x \in Keys, CompleteCache(x)', ~dir'[x].whole, ~dir'[x].faulted
      PROVE  \E i \in Jobs : phase'[i] = "failing" /\ job'[i].key = x
  <2>1. x # k
    BY <1>1, <1>4 DEF CompleteCache, Absent
  <2>2. CompleteCache(x) /\ ~dir[x].whole /\ ~dir[x].faulted
    BY <1>1, <1>4, <2>1 DEF CompleteCache, Absent
  <2>3. QED BY <1>1, <2>2 DEF Directories
<1>5. \A x \in Keys : (current'[x] # None /\ job'[current'[x]].status = "completed") =>
                        (dir'[x].whole \/ dir'[x].faulted)
  BY <1>1 DEF Directories
<1>6. \A x \in Keys : current'[x] # None => job'[current'[x]].key = x
  BY <1>1 DEF Directories
<1>7. QED BY <1>3, <1>4, <1>5, <1>6 DEF Directories

\* What EnsureJob does to the jobs when it accepts a new one.
LEMMA AcceptEffect ==
  ASSUME Types, Waiting(queue, phase), NEW r \in Callers, NEW k \in Keys, NEW c \in Config,
         NEW table, Accept(r, k, c, table)
  PROVE  \E j \in Jobs :
           /\ phase[j] \in {"unused", "gone"} /\ \A x \in Keys : current[x] # j
           /\ current' = [table EXCEPT ![k] = j]
           /\ job'[j].key = k /\ job'[j].status \in {"queued", "starting"}
           /\ phase'[j] \in {"queued", "acquire"}
           /\ \A i \in Jobs \ {j} :
                \/ job'[i] = job[i] /\ phase'[i] = phase[i]
                \/ /\ job'[i].key = job[i].key /\ job'[i].status = "starting"
                   /\ phase[i] = "queued" /\ phase'[i] = "acquire"
<1>1. PICK j \in Jobs :
        /\ IsNext(j) /\ current' = [table EXCEPT ![k] = j]
        /\ Dispatch(Append(queue, j), running, c.concurrent, [job EXCEPT ![j] = NewJob(k)],
                    [phase EXCEPT ![j] = "queued"])
  BY DEF Accept
<1> DEFINE q  == Append(queue, j)
           jb == [job EXCEPT ![j] = NewJob(k)]
           ph == [phase EXCEPT ![j] = "queued"]
<1>2. phase[j] \in {"unused", "gone"} /\ \A x \in Keys : current[x] # j
  BY <1>1 DEF IsNext, Free
<1>3. q \in Seq(Jobs) /\ Waiting(q, ph)
  BY <1>2, Joined DEF Types
<1>4. NewJob(k) \in JobRecords /\ NewJob(k).status = "queued" /\ NewJob(k).key = k
  BY DEF NewJob, JobRecords, Statuses
<1>5. /\ jb \in [Jobs -> JobRecords] /\ ph \in [Jobs \cup Tasks -> Phases]
      /\ jb[j].key = k /\ jb[j].status = "queued" /\ ph[j] = "queued"
      /\ \A i \in Jobs \ {j} : jb[i] = job[i] /\ ph[i] = phase[i]
  BY <1>4 DEF Types, Phases
<1>6. \A i \in Jobs : AsOrTaken(i, jb, ph)
  <2> HIDE DEF q, jb, ph
  <2>1. PICK max \in Int : Dispatch(q, running, max, jb, ph) /\ running \in Int
    BY <1>1, ConfigType DEF q, jb, ph, Types
  <2>2. QED BY <1>3, <1>5, <2>1, DispatchJobs
<1> HIDE DEF q, jb, ph
<1>7. /\ job'[j].key = k /\ job'[j].status \in {"queued", "starting"}
      /\ phase'[j] \in {"queued", "acquire"}
  BY <1>5, <1>6 DEF AsOrTaken
<1>8. \A i \in Jobs \ {j} :
        \/ job'[i] = job[i] /\ phase'[i] = phase[i]
        \/ /\ job'[i].key = job[i].key /\ job'[i].status = "starting"
           /\ phase[i] = "queued" /\ phase'[i] = "acquire"
  BY <1>5, <1>6 DEF AsOrTaken
<1>9. QED BY <1>1, <1>2, <1>7, <1>8

LEMMA EnsureDirectories ==
  ASSUME IInv, Directories, NEW r \in Callers, NEW k \in Keys, EnsureJob(r, k)
  PROVE  Directories'
<1>0. PICK c \in Config : \/ EnsureExisting(r, k, c) \/ EnsureRetry(r, k, c)
                          \/ EnsureNew(r, k, c)
  BY DEF EnsureJob
<1>1. Types /\ Waiting(queue, phase) /\ dir' = dir /\ None \notin Jobs
  <2>1. dir' = dir
    BY <1>0 DEF EnsureExisting, EnsureRetry, EnsureNew
  <2>2. QED BY <2>1, HLSAssumption DEF IInv, Jobs
<1>2. ASSUME NEW table \in [Keys -> Jobs \cup {None}],
             \A x \in Keys : table[x] \in {current[x], None}, Accept(r, k, c, table)
      PROVE  Directories'
  <2>1. PICK j \in Jobs :
           /\ phase[j] \in {"unused", "gone"} /\ \A x \in Keys : current[x] # j
           /\ current' = [table EXCEPT ![k] = j]
           /\ job'[j].key = k /\ job'[j].status \in {"queued", "starting"}
           /\ phase'[j] \in {"queued", "acquire"}
           /\ \A i \in Jobs \ {j} :
                \/ job'[i] = job[i] /\ phase'[i] = phase[i]
                \/ /\ job'[i].key = job[i].key /\ job'[i].status = "starting"
                   /\ phase[i] = "queued" /\ phase'[i] = "acquire"
    BY <1>1, <1>2, AcceptEffect
  <2>2. \A i \in Jobs :
          /\ phase'[i] \in {"encode", "converted"} => phase'[i] = phase[i]
          /\ phase[i] = "failing" => phase'[i] = "failing"
          /\ phase[i] \in {"encode", "converted", "failing"} => job'[i].key = job[i].key
    BY <2>1
  <2>3. ASSUME NEW x \in Keys, current'[x] # None, job'[current'[x]].status = "completed"
        PROVE  current'[x] = current[x] /\ job[current[x]].status = "completed"
    <3>1. x # k
      BY <1>2, <2>1, <2>3
    <3>2. current'[x] = current[x] /\ current[x] \in Jobs \ {j}
      BY <1>1, <1>2, <2>1, <2>3, <3>1 DEF Types
    <3>3. QED BY <2>1, <2>3, <3>2
  <2>4. ASSUME NEW x \in Keys, current'[x] # None
        PROVE  \/ current'[x] = current[x] /\ job'[current[x]].key = job[current[x]].key
               \/ job'[current'[x]].key = x
    BY <1>1, <1>2, <2>1, <2>4 DEF Types
  <2>5. QED BY <1>1, <2>2, <2>3, <2>4, DirectoriesAlone
<1>3. ASSUME NEW table \in [Keys -> Jobs \cup {None}],
             \A x \in Keys : table[x] \in {current[x], None}, Refuse(c, table)
      PROVE  Directories'
  BY <1>1, <1>3, DirectoriesAlone DEF Refuse, workers
<1>4. CASE EnsureExisting(r, k, c)
  BY <1>1, <1>4, DirectoriesAlone DEF EnsureExisting, workers
<1>5. CASE EnsureRetry(r, k, c)
  <2> DEFINE table == [current EXCEPT ![k] = None]
  <2>1. table \in [Keys -> Jobs \cup {None}] /\ \A x \in Keys : table[x] \in {current[x], None}
    BY <1>1 DEF Types
  <2>2. Refuse(c, table) \/ Accept(r, k, c, table)
    BY <1>5 DEF EnsureRetry
  <2> HIDE DEF table
  <2>3. QED BY <1>2, <1>3, <2>1, <2>2
<1>6. CASE EnsureNew(r, k, c)
  <2>0. PICK gone \in SUBSET Forgettable :
          LET tbl == [x \in Keys |-> IF x \in gone THEN None ELSE current[x]]
          IN  \/ Refuse(c, tbl) \/ Accept(r, k, c, tbl)
              \/ /\ CompleteCache(k)
                 /\ \E j \in Jobs : /\ IsNext(j) /\ current' = [tbl EXCEPT ![k] = j]
                                    /\ job' = [job EXCEPT
                                                 ![j] = Finished(NewJob(k), "completed")]
                                    /\ phase' = [phase EXCEPT ![j] = "gone"]
    BY <1>6 DEF EnsureNew
  <2> DEFINE table == [x \in Keys |-> IF x \in gone THEN None ELSE current[x]]
  <2>1. table \in [Keys -> Jobs \cup {None}] /\ \A x \in Keys : table[x] \in {current[x], None}
    BY <1>1 DEF Types
  <2>2. \/ Refuse(c, table) \/ Accept(r, k, c, table)
        \/ /\ CompleteCache(k)
           /\ \E j \in Jobs : /\ IsNext(j) /\ current' = [table EXCEPT ![k] = j]
                              /\ job' = [job EXCEPT ![j] = Finished(NewJob(k), "completed")]
                              /\ phase' = [phase EXCEPT ![j] = "gone"]
    BY <2>0
  <2> HIDE DEF table
  <2>3. CASE /\ CompleteCache(k)
             /\ \E j \in Jobs : /\ IsNext(j) /\ current' = [table EXCEPT ![k] = j]
                                /\ job' = [job EXCEPT ![j] = Finished(NewJob(k), "completed")]
                                /\ phase' = [phase EXCEPT ![j] = "gone"]
    <3>1. PICK j \in Jobs : /\ IsNext(j) /\ current' = [table EXCEPT ![k] = j]
                            /\ job' = [job EXCEPT ![j] = Finished(NewJob(k), "completed")]
                            /\ phase' = [phase EXCEPT ![j] = "gone"]
      BY <2>3
    <3>2. phase[j] \in {"unused", "gone"} /\ \A x \in Keys : current[x] # j
      BY <3>1 DEF IsNext, Free
    <3>3. dir[k].whole \/ dir[k].faulted
      <4>1. current[k] = None
        BY <1>6 DEF EnsureNew
      <4>2. \A i \in Jobs : phase[i] = "failing" => current[job[i].key] = i
        BY DEF IInv, AtWork, Executing
      <4>3. QED BY <1>1, <2>3, <4>1, <4>2 DEF Directories
    <3>4. \A i \in Jobs \ {j} : job'[i] = job[i] /\ phase'[i] = phase[i]
      BY <1>1, <3>1 DEF Types
    <3>5. phase'[j] = "gone"
      BY <1>1, <3>1 DEF Types
    <3>6. ASSUME NEW x \in Keys, current'[x] # None, job'[current'[x]].status = "completed"
          PROVE  \/ current'[x] = current[x] /\ job[current[x]].status = "completed"
                 \/ dir[x].whole \/ dir[x].faulted
      <4>1. CASE x = k
        BY <3>3, <4>1
      <4>2. CASE x # k
        <5>1. current'[x] = current[x] /\ current[x] \in Jobs \ {j}
          BY <1>1, <2>1, <3>1, <3>2, <3>6, <4>2 DEF Types
        <5>2. QED BY <3>4, <3>6, <5>1
      <4>3. QED BY <4>1, <4>2
    <3>7. job'[j].key = k
      <4>1. Finished(NewJob(k), "completed").key = k
        BY DEF Finished, NewJob
      <4>2. QED BY <1>1, <3>1, <4>1 DEF Types
    <3>8. ASSUME NEW x \in Keys, current'[x] # None
          PROVE  \/ current'[x] = current[x] /\ job'[current[x]].key = job[current[x]].key
                 \/ job'[current'[x]].key = x
      BY <1>1, <2>1, <3>1, <3>2, <3>4, <3>7, <3>8 DEF Types
    <3>9. QED BY <1>1, <3>2, <3>4, <3>5, <3>6, <3>8, DirectoriesAlone
  <2>4. QED BY <1>2, <1>3, <2>1, <2>2, <2>3
<1>7. QED BY <1>0, <1>4, <1>5, <1>6

LEMMA FinishDirectories ==
  ASSUME IInv, Directories, NEW j \in Jobs,
         FinishFailed(j) \/ FinishConverted(j) \/ Panic(j)
  PROVE  Directories'
<1>1. /\ Types /\ UNCHANGED <<dir, current>> /\ phase' = [phase EXCEPT ![j] = "leaving"]
      /\ phase[j] \in {"marked", "converted", "prepare", "encode"}
      /\ \A i \in Jobs \ {j} : job'[i] = job[i]
  BY DEF FinishFailed, FinishConverted, Panic, Finish, Goes, Holding, manager, IInv, Types
<1>2. PICK status \in {"partial", "failed", "completed"} :
        /\ job'[j] = Finished(job[j], status)
        /\ status = "completed" => phase[j] = "converted"
  BY <1>1 DEF FinishFailed, FinishConverted, Panic, Finish, Types
<1>3. job[j] \in JobRecords /\ status \in Statuses
  BY <1>1 DEF Types, Statuses, Failures
<1>4. job'[j].key = job[j].key /\ job'[j].status \in {job[j].status, status}
  BY <1>2, <1>3, FinishedJob
<1>5. current[job[j].key] = j /\ job[j].status # "completed"
  BY <1>1 DEF IInv, AtWork, Executing, Open
<1>6. ASSUME NEW x \in Keys, current'[x] # None, job'[current'[x]].status = "completed"
      PROVE  \/ current'[x] = current[x] /\ job[current[x]].status = "completed"
             \/ dir[x].whole \/ dir[x].faulted
  <2>1. CASE current[x] # j
    BY <1>1, <1>6, <2>1 DEF Types
  <2>2. CASE current[x] = j
    <3>1. phase[j] = "converted"
      BY <1>1, <1>2, <1>4, <1>5, <1>6, <2>2
    <3>2. x = job[j].key
      BY <1>1, <1>6, <2>2 DEF Directories
    <3>3. QED BY <3>1, <3>2 DEF Directories
  <2>3. QED BY <2>1, <2>2
<1>7. \A i \in Jobs :
        /\ phase'[i] \in {"encode", "converted"} => phase'[i] = phase[i]
        /\ phase[i] = "failing" => phase'[i] = "failing"
        /\ phase[i] \in {"encode", "converted", "failing"} => job'[i].key = job[i].key
  BY <1>1, <1>4 DEF Types
<1>8. \A x \in Keys : current'[x] # None =>
        current'[x] = current[x] /\ job'[current[x]].key = job[current[x]].key
  BY <1>1, <1>4 DEF Types
<1>9. QED BY <1>1, <1>6, <1>7, <1>8, DirectoriesAlone
LEMMA OtherDirectories ==
  ASSUME IInv, Directories,
         \/ \E r \in Requests : RequestStep(r)
         \/ \E w \in Jobs \cup Tasks : Acquire(w) \/ Awake(w)
         \/ \E t \in Tasks : TaskStarts(t) \/ TaskCancelled(t) \/ TaskEnds(t)
         \/ \E k \in Keys : GracePasses(k)
         \/ \E c \in Config : EnsureClosed(c)
         \/ Scan \/ UNCHANGED vars
  PROVE  Directories'
<1>1. Types
  BY DEF IInv
<1>2. /\ UNCHANGED <<dir, current, job>>
      /\ \A i \in Jobs : /\ phase'[i] \in {"encode", "converted"} => phase'[i] = phase[i]
                         /\ phase[i] = "failing" => phase'[i] = "failing"
  <2>1. CASE UNCHANGED <<dir, manager, workers>>
    BY <2>1 DEF manager, workers
  <2>2. CASE \E w \in Jobs \cup Tasks : Acquire(w) \/ Awake(w)
    BY <1>1, <2>2 DEF Acquire, Awake, Returns, Goes, manager, Types
  <2>3. CASE \E t \in Tasks : TaskStarts(t) \/ TaskCancelled(t) \/ TaskEnds(t)
    BY <1>1, <2>3, HLSAssumption
    DEF TaskStarts, TaskCancelled, TaskEnds, Returns, Goes, manager, Types, Jobs
  <2>4. CASE \E r \in Requests : RequestStep(r)
    BY <2>1, <2>4 DEF RequestStep, AcquireSegment, WaitPlayable, WaitEnds, AcquireRead, GetJob,
       Release
  <2>5. CASE \E c \in Config : EnsureClosed(c)
    BY <2>5 DEF EnsureClosed, workers
  <2>6. QED BY <2>1, <2>2, <2>3, <2>4, <2>5 DEF GracePasses, Scan, vars, manager, workers
<1>3. QED BY <1>1, <1>2, DirectoriesAlone

LEMMA JobDirectories ==
  ASSUME IInv, Limits, Directories, NEW j \in Jobs, Playable(j) \/ Ages(j) \/ Leave(j)
  PROVE  Directories'
<1>1. Types /\ UNCHANGED <<dir, current>>
  BY DEF IInv, Playable, Ages, Leave, manager
<1>2. CASE Leave(j)
  <2> DEFINE ph == [phase EXCEPT ![j] = "gone"]
  <2>1. phase[j] = "leaving" /\ Dispatch(queue, running - 1, maxConcurrent, job, ph)
    BY <1>2 DEF Leave
  <2>2. ph[j] = "gone" /\ \A i \in Jobs \ {j} : ph[i] = phase[i]
    BY <1>1 DEF Types
  <2>3. \A i \in Jobs :
          \/ job'[i] = job[i] /\ phase'[i] = ph[i]
          \/ /\ job'[i].key = job[i].key /\ job'[i].status = "starting" /\ phase'[i] = "acquire"
             /\ i \in {queue[n] : n \in 1..Room(Len(queue), running - 1, maxConcurrent)}
    <3> DEFINE taken == {queue[n] : n \in 1..Room(Len(queue), running - 1, maxConcurrent)}
    <3>1. /\ job' = [i \in Jobs |-> IF i \in taken THEN [job[i] EXCEPT !.status = "starting"]
                                                  ELSE job[i]]
          /\ phase' = [w \in Jobs \cup Tasks |-> IF w \in taken THEN "acquire" ELSE ph[w]]
      BY <2>1 DEF Dispatch
    <3>2. \A i \in Jobs : job[i] \in JobRecords
      BY <1>1 DEF Types
    <3> HIDE DEF taken, ph
    <3>3. \A i \in Jobs : i \in taken => job'[i].key = job[i].key /\ job'[i].status = "starting"
      BY <3>1, <3>2 DEF JobRecords
    <3>4. QED BY <3>1, <3>3 DEF taken
  <2>4. \A i \in Jobs : i \in {queue[n] : n \in 1..Room(Len(queue), running - 1, maxConcurrent)} =>
                          phase[i] = "queued"
    <3>1. Len(queue) \in Nat /\ running - 1 \in Int /\ maxConcurrent \in Nat \ {0}
      BY <1>1 DEF Types, Limits
    <3>2. Room(Len(queue), running - 1, maxConcurrent) \in 0..Len(queue)
      BY <3>1, RoomType
    <3>3. QED BY <3>1, <3>2 DEF IInv, Waiting
  <2> HIDE DEF ph
  <2>5. \A i \in Jobs :
          /\ phase'[i] \in {"encode", "converted"} => phase'[i] = phase[i]
          /\ phase[i] = "failing" => phase'[i] = "failing"
          /\ job'[i].key = job[i].key
          /\ job'[i].status = "completed" => job[i].status = "completed"
    BY <2>1, <2>2, <2>3, <2>4
  <2>6. QED BY <1>1, <2>5, DirectoriesAlone DEF Types
<1>3. CASE Playable(j) \/ Ages(j)
  <2>1. /\ phase' = phase /\ \A i \in Jobs \ {j} : job'[i] = job[i]
        /\ job'[j].key = job[j].key
        /\ job'[j].status = "completed" => job[j].status = "completed"
    BY <1>1, <1>3 DEF Playable, Ages, Types, JobRecords
  <2>2. QED BY <1>1, <2>1, DirectoriesAlone DEF Types
<1>4. QED BY <1>2, <1>3

LEMMA CloseDirectories ==
  ASSUME IInv, Directories, Close
  PROVE  Directories'
<1> DEFINE queued == {queue[i] : i \in 1..Len(queue)}
<1>1. /\ Types /\ UNCHANGED <<dir, current>>
      /\ phase' = [w \in Jobs \cup Tasks |-> IF w \in queued THEN "gone" ELSE phase[w]]
  BY DEF Close, IInv
<1>2. \A w \in queued : w \in Jobs /\ phase[w] = "queued"
  BY DEF IInv, Types, Waiting
<1>3. \A i \in Jobs : \/ job'[i] = Finished(job[i], "failed")
                      \/ job'[i] = [job[i] EXCEPT !.cancelled = TRUE]
                      \/ job'[i] = job[i]
  BY DEF Close
<1> HIDE DEF queued
<1>4. \A i \in Jobs : /\ job'[i].key = job[i].key
                      /\ job'[i].status = "completed" => job[i].status = "completed"
  <2>1. ASSUME NEW i \in Jobs
        PROVE  /\ job'[i].key = job[i].key
               /\ job'[i].status = "completed" => job[i].status = "completed"
    <3>1. job[i] \in JobRecords /\ "failed" \in Statuses
      BY <1>1 DEF Types, Statuses, Failures
    <3>2. CASE job'[i] = Finished(job[i], "failed")
      BY <3>1, <3>2, FinishedJob
    <3>3. CASE job'[i] = [job[i] EXCEPT !.cancelled = TRUE]
      BY <3>1, <3>3 DEF JobRecords
    <3>4. QED BY <1>3, <3>2, <3>3
  <2>2. QED BY <2>1
<1>5. \A i \in Jobs : /\ phase'[i] \in {"encode", "converted"} => phase'[i] = phase[i]
                      /\ phase[i] = "failing" => phase'[i] = "failing"
  BY <1>1, <1>2
<1>6. QED BY <1>1, <1>4, <1>5, DirectoriesAlone DEF Types

\* What a registered job calls completed is the whole product of a conversion that
\* succeeded: a playlist that ends is whole, marked as failed, or about to be marked
\* by a worker that is registered, so that nobody asks for the job meanwhile.
THEOREM CompletedIsWholeCorrect == Spec => []CompletedIsWhole
<1>1. Init => Directories
  BY DEF Init, Directories, CompleteCache, Absent, NoDir, NewDir
<1>2. IInv /\ Limits /\ Directories /\ [Next]_vars => Directories'
  BY WorkDirectories, JanitorDirectories, EnsureDirectories, FinishDirectories, OtherDirectories,
     JobDirectories, CloseDirectories
  DEF Next, WorkerStep
<1>3. Directories => CompletedIsWhole
  BY DEF Directories, CompletedIsWhole
<1>4. QED BY <1>1, <1>2, <1>3, Invariant, PTL DEF Spec
-----------------------------------------------------------------------------
(* The slots. *)

InRun(ph)    == {j \in Jobs : ph[j] \in Working}
HasBudget(ph) == {w \in Jobs \cup Tasks : ph[w] \in Holding}

LEMMA FiniteWorkers == /\ IsFiniteSet(Jobs) /\ IsFiniteSet(Jobs \cup Tasks)
                       /\ \A ph : IsFiniteSet(InRun(ph)) /\ IsFiniteSet(HasBudget(ph))
<1>1. IsFiniteSet(Jobs)
  BY HLSAssumption, FS_Interval DEF Jobs
<1>2. IsFiniteSet(Jobs \cup Tasks)
  BY <1>1, HLSAssumption, FS_Union
<1>3. ASSUME NEW ph
      PROVE  IsFiniteSet(InRun(ph)) /\ IsFiniteSet(HasBudget(ph))
  <2>1. InRun(ph) \in SUBSET Jobs /\ HasBudget(ph) \in SUBSET (Jobs \cup Tasks)
    BY DEF InRun, HasBudget
  <2>2. QED BY <1>1, <1>2, <2>1, FS_Subset
<1>4. QED BY <1>1, <1>2, <1>3

\* The first n of a queue of different jobs are n jobs.
LEMMA TakenCounted ==
  ASSUME NEW q \in Seq(Jobs), NEW n \in 0..Len(q),
         \A i, m \in 1..Len(q) : q[i] = q[m] => i = m
  PROVE  /\ IsFiniteSet({q[i] : i \in 1..n})
         /\ Cardinality({q[i] : i \in 1..n}) = n
<1> DEFINE S == 1..n
           T == {q[i] : i \in 1..n}
           f == [i \in S |-> q[i]]
<1>1. n \in Nat /\ n <= Len(q) /\ Len(q) \in Nat
  OBVIOUS
<1>2. IsFiniteSet(S) /\ Cardinality(S) = n
  BY <1>1, FS_Interval
<1>3. f \in [S -> T] /\ \A x, y \in S : f[x] = f[y] => x = y
  BY <1>1
<1>4. \A t \in T : \E s \in S : f[s] = t
  OBVIOUS
<1> HIDE DEF f, S, T
<1>5. f \in Bijection(S, T)
  BY <1>3, <1>4 DEF Bijection, Injection, Surjection, IsInjective
<1>6. QED BY <1>2, <1>5, FS_Bijection DEF ExistsBijection, S, T

\* dispatchLocked counts the jobs it starts, leaves no room unused, and starts none
\* beyond the limit.
LEMMA DispatchCounts ==
  ASSUME NEW q \in Seq(Jobs), NEW m \in Int, NEW max \in Int, NEW jb,
         NEW ph \in [Jobs \cup Tasks -> Phases],
         Waiting(q, ph), Dispatch(q, m, max, jb, ph), m = Cardinality(InRun(ph))
  PROVE  /\ running' = Cardinality(InRun(phase'))
         /\ HasBudget(phase') = HasBudget(ph)
         /\ running' > m => running' <= max
         /\ Len(queue') <= Len(q)
         /\ ~closed /\ queue' # <<>> => running' >= max
<1> DEFINE n == Room(Len(q), m, max)
           taken == {q[i] : i \in 1..n}
<1>1. /\ n \in 0..Len(q) /\ Len(q) \in Nat /\ (n > 0 => m + n <= max)
      /\ ~closed /\ n < Len(q) => m + n >= max
      /\ Len(queue') = Len(q) - n /\ running' = m + n /\ queue' \in Seq(Jobs)
  <2>1. Len(q) \in Nat
    OBVIOUS
  <2>2. n \in 0..Len(q) /\ (n > 0 => m + n <= max) /\ (~closed /\ n < Len(q) => m + n >= max)
    BY <2>1, RoomType
  <2>3. Len(queue') = Len(q) - n /\ running' = m + n /\ queue' \in Seq(Jobs)
    BY DispatchQueue
  <2>4. QED BY <2>1, <2>2, <2>3
<1>2. phase' = [w \in Jobs \cup Tasks |-> IF w \in taken THEN "acquire" ELSE ph[w]]
  BY DEF Dispatch
<1>3. \A w \in taken : w \in Jobs /\ ph[w] = "queued"
  BY <1>1 DEF Waiting
<1>4. IsFiniteSet(taken) /\ Cardinality(taken) = n
  BY <1>1, TakenCounted DEF Waiting
<1> HIDE DEF n, taken
<1>5. /\ InRun(phase') = InRun(ph) \cup taken /\ InRun(ph) \cap taken = {}
      /\ HasBudget(phase') = HasBudget(ph)
  BY <1>2, <1>3 DEF InRun, HasBudget, Working, Executing, Holding
<1>6. Cardinality(InRun(phase')) = m + n
  <2>1. IsFiniteSet(InRun(ph)) /\ Cardinality({}) = 0
    BY FiniteWorkers, FS_EmptySet
  <2>2. Cardinality(InRun(ph) \cup taken)
          = Cardinality(InRun(ph)) + Cardinality(taken) - Cardinality(InRun(ph) \cap taken)
    BY <1>4, <2>1, FS_Union
  <2>3. Cardinality(InRun(ph) \cup taken) = Cardinality(InRun(ph)) + Cardinality(taken)
    <3>1. Cardinality(InRun(ph)) \in Nat /\ Cardinality(taken) \in Nat
      BY <1>4, <2>1, FS_CardinalityType
    <3>2. Cardinality(InRun(ph) \cap taken) = 0
      BY <1>5, <2>1
    <3>3. QED BY <2>2, <3>1, <3>2
  <2>4. QED BY <1>4, <1>5, <2>3
<1>7. ASSUME ~closed, queue' # <<>>
      PROVE  running' >= max
  <2>1. Len(queue') # 0
    BY <1>1, <1>7
  <2>2. n < Len(q)
    BY <1>1, <2>1
  <2>3. QED BY <1>1, <1>7, <2>2
<1>8. (running' > m => running' <= max) /\ Len(queue') <= Len(q)
  BY <1>1
<1>9. QED BY <1>1, <1>5, <1>6, <1>7, <1>8

\* A worker or stage moves to p, and takes or gives back its share of the budget.
LEMMA OneMoves ==
  ASSUME IInv, SlotsCounted, NEW w \in Jobs \cup Tasks, NEW p \in Phases,
         phase' = [phase EXCEPT ![w] = p], UNCHANGED <<queue, running, closed, limits>>,
         w \in Jobs => (phase[w] \in Working <=> p \in Working),
         \/ phase[w] \in Holding /\ p \in Holding /\ active' = active
         \/ phase[w] \in Holding /\ p \notin Holding /\ active' = active - 1
         \/ phase[w] \notin Holding /\ p \in Holding /\ active' = active + 1
         \/ phase[w] \notin Holding /\ p \notin Holding /\ active' = active
  PROVE  SlotsCounted'
<1>1. Types /\ active \in Int
  BY DEF IInv, Types
<1>2. running = Cardinality(InRun(phase)) /\ active = Cardinality(HasBudget(phase))
  BY DEF SlotsCounted, InRun, HasBudget
<1>3. InRun(phase') = InRun(phase)
  BY <1>1, HLSAssumption DEF InRun, Types, Jobs
<1>4. active' = Cardinality(HasBudget(phase'))
  <2>1. IsFiniteSet(HasBudget(phase))
    BY FiniteWorkers
  <2>2. /\ (phase[w] \in Holding <=> p \in Holding) => HasBudget(phase') = HasBudget(phase)
        /\ p \in Holding => HasBudget(phase') = HasBudget(phase) \cup {w}
        /\ p \notin Holding => HasBudget(phase') = HasBudget(phase) \ {w}
        /\ w \in HasBudget(phase) <=> phase[w] \in Holding
    BY <1>1 DEF HasBudget, Types
  <2>3. /\ Cardinality(HasBudget(phase) \cup {w})
             = IF w \in HasBudget(phase) THEN Cardinality(HasBudget(phase))
               ELSE Cardinality(HasBudget(phase)) + 1
        /\ Cardinality(HasBudget(phase) \ {w})
             = IF w \in HasBudget(phase) THEN Cardinality(HasBudget(phase)) - 1
               ELSE Cardinality(HasBudget(phase))
    BY <2>1, FS_AddElement, FS_RemoveElement
  <2>4. QED BY <1>2, <2>2, <2>3
<1>5. QED BY <1>2, <1>3, <1>4 DEF SlotsCounted, InRun, HasBudget, limits

\* Nothing that is counted changes, but a limit may.
LEMMA NoneMoves ==
  ASSUME SlotsCounted, UNCHANGED <<queue, running, closed, active>>,
         InRun(phase') = InRun(phase), HasBudget(phase') = HasBudget(phase),
         \/ closed \/ UNCHANGED limits
         \/ Types /\ Limits /\ \E c \in Config : Adopt(c) /\ NotDispatched(c)
  PROVE  SlotsCounted'
<1>1. /\ running' = Cardinality(InRun(phase')) /\ active' = Cardinality(HasBudget(phase'))
      /\ ~closed /\ queue # <<>> => running > 0 /\ (running >= maxConcurrent \/ raised)
  BY DEF SlotsCounted, InRun, HasBudget
<1>2. ASSUME ~closed, queue # <<>>
      PROVE  running' > 0 /\ (running' >= maxConcurrent' \/ raised')
  <2>1. CASE UNCHANGED limits
    BY <1>1, <1>2, <2>1 DEF limits
  <2>2. CASE Types /\ Limits /\ \E c \in Config : Adopt(c) /\ NotDispatched(c)
    <3>1. PICK c \in Config : Adopt(c) /\ NotDispatched(c)
      BY <2>2
    <3>2. c.concurrent \in Nat /\ maxConcurrent \in Nat /\ running \in Int
      BY <2>2, ConfigType DEF Limits, Types
    <3>3. maxConcurrent' = c.concurrent /\ (raised' <=> (raised \/ c.concurrent > maxConcurrent))
      BY <1>2, <3>1 DEF Adopt, NotDispatched
    <3>4. QED BY <1>1, <1>2, <3>2, <3>3
  <2>3. QED BY <1>2, <2>1, <2>2
<1>3. QED BY <1>1, <1>2 DEF SlotsCounted, InRun, HasBudget

LEMMA WorkerSlots ==
  ASSUME IInv, SlotsCounted, NEW w \in Jobs \cup Tasks,
         \/ Acquire(w) \/ Awake(w)
         \/ w \in Tasks /\ (TaskStarts(w) \/ TaskCancelled(w) \/ TaskEnds(w))
         \/ w \in Jobs /\ (\/ Prepare(w) \/ EncodeEnds(w) \/ Mark(w)
                           \/ FinishFailed(w) \/ FinishConverted(w) \/ Panic(w))
  PROVE  SlotsCounted'
<1> USE DEF Phases, Working, Executing, Holding
<1>1. UNCHANGED <<queue, running, closed, limits>>
  BY DEF Acquire, Awake, TaskStarts, TaskCancelled, TaskEnds, Prepare, EncodeEnds,
         EncodeSucceeds, EncodeFails, Mark, FinishFailed, FinishConverted, Panic, manager
<1>2. Tasks \cap Jobs = {}
  BY HLSAssumption DEF Jobs
<1>3. CASE Acquire(w) \/ Awake(w)
  BY <1>1, <1>3, OneMoves DEF Acquire, Awake, Returns, Goes
<1>4. CASE w \in Tasks /\ (TaskStarts(w) \/ TaskCancelled(w) \/ TaskEnds(w))
  BY <1>1, <1>2, <1>4, OneMoves DEF TaskStarts, TaskCancelled, TaskEnds, Returns, Goes, FreeSlot
<1>5. CASE w \in Jobs /\ Prepare(w)
  BY <1>1, <1>5, OneMoves DEF Prepare, Goes, FreeSlot, budget
<1>6. CASE w \in Jobs /\ EncodeEnds(w)
  BY <1>1, <1>6, OneMoves DEF EncodeEnds, EncodeSucceeds, EncodeFails, Goes, FreeSlot, budget
<1>7. CASE w \in Jobs /\ (Mark(w) \/ FinishFailed(w) \/ FinishConverted(w))
  BY <1>1, <1>7, OneMoves DEF Mark, FinishFailed, FinishConverted, Finish, Goes, budget
<1>8. CASE w \in Jobs /\ Panic(w)
  BY <1>1, <1>8, OneMoves DEF Panic, Finish, Goes, FreeSlot, budget
<1>9. QED BY <1>3, <1>4, <1>5, <1>6, <1>7, <1>8

\* The end of a job, which gives its slot to those that wait.
LEMMA LeaveSlots ==
  ASSUME IInv, Limits, SlotsCounted, NEW j \in Jobs, Leave(j)
  PROVE  SlotsCounted' /\ AdmittedWithinLimits
<1> DEFINE ph == [phase EXCEPT ![j] = "gone"]
<1>1. /\ phase[j] = "leaving" /\ Dispatch(queue, running - 1, maxConcurrent, job, ph)
      /\ UNCHANGED <<closed, active, maxConcurrent, maxQueued>> /\ Types
      /\ maxConcurrent \in Nat \ {0}
  BY DEF Leave, budget, IInv, Limits
<1>2. /\ ph \in [Jobs \cup Tasks -> Phases]
      /\ InRun(ph) = InRun(phase) \ {j} /\ j \in InRun(phase)
      /\ HasBudget(ph) = HasBudget(phase)
  BY <1>1 DEF Types, Phases, InRun, HasBudget, Working, Executing, Holding
<1>3. Waiting(queue, ph)
  <2>1. \A i \in 1..Len(queue) : queue[i] \in Jobs /\ queue[i] # j
    BY <1>1 DEF IInv, Types, Waiting
  <2>2. QED BY <1>1, <2>1 DEF IInv, Waiting, Types
<1> HIDE DEF ph
<1>4. running = Cardinality(InRun(phase)) /\ active = Cardinality(HasBudget(phase))
  BY DEF SlotsCounted, InRun, HasBudget
<1>5. PICK m \in Int : /\ m = running - 1 /\ m = Cardinality(InRun(ph))
                       /\ Len(queue) \in Nat /\ queue \in Seq(Jobs)
  <2>1. Cardinality(InRun(ph)) = running - 1
    <3>1. IsFiniteSet(InRun(phase))
      BY FiniteWorkers
    <3>2. QED BY <1>2, <1>4, <3>1, FS_RemoveElement
  <2>2. running \in Int /\ running - 1 \in Int
    BY <1>1 DEF Types
  <2>3. QED BY <1>1, <2>1, <2>2 DEF Types
<1>6. /\ running' = Cardinality(InRun(phase')) /\ HasBudget(phase') = HasBudget(ph)
      /\ running' > m => running' <= maxConcurrent
      /\ Len(queue') <= Len(queue)
      /\ ~closed /\ queue' # <<>> => running' >= maxConcurrent
  <2>1. PICK max \in Int : max = maxConcurrent /\ Dispatch(queue, m, max, job, ph)
    BY <1>1, <1>5
  <2>2. QED BY <1>2, <1>3, <1>5, <2>1, DispatchCounts
<1>7. running' \in Int /\ Len(queue') \in Nat /\ running \in Int
  <2>1. Dispatch(queue, m, maxConcurrent, job, ph)
    BY <1>1, <1>5
  <2>2. PICK max \in Int : max = maxConcurrent
    BY <1>1
  <2>3. Room(Len(queue), m, max) \in 0..Len(queue) /\ Len(queue) \in Nat
    BY <1>5, RoomType
  <2>4. running' = m + Room(Len(queue), m, max) /\ queue' \in Seq(Jobs)
    BY <1>5, <2>1, <2>2, DispatchQueue
  <2>5. QED BY <1>1, <1>5, <2>3, <2>4 DEF Types
<1>8. SlotsCounted'
  <2>1. active' = Cardinality(HasBudget(phase'))
    BY <1>1, <1>2, <1>4, <1>6
  <2>2. closed' = closed /\ maxConcurrent' = maxConcurrent
    BY <1>1
  <2>3. ~closed' /\ queue' # <<>> => running' > 0 /\ running' >= maxConcurrent'
    BY <1>1, <1>6, <1>7, <2>2
  <2>4. QED BY <1>6, <2>1, <2>3 DEF SlotsCounted, InRun, HasBudget
<1>9. AdmittedWithinLimits
  <2>1. active \in Int /\ ~(active' > active)
    BY <1>1 DEF Types
  <2>2. ~(Len(queue') > Len(queue))
    BY <1>5, <1>6, <1>7
  <2>3. running' > running => running' <= maxConcurrent'
    BY <1>1, <1>5, <1>6, <1>7
  <2>4. QED BY <2>1, <2>2, <2>3 DEF AdmittedWithinLimits
<1>10. QED BY <1>8, <1>9

\* A job that is queued finds room in the queue, and starts if a slot is free.
LEMMA AcceptSlots ==
  ASSUME IInv, SlotsCounted, NEW r \in Callers, NEW k \in Keys, NEW c \in Config, NEW table,
         Accept(r, k, c, table), Adopt(c), UNCHANGED <<closed, active>>
  PROVE  SlotsCounted' /\ AdmittedWithinLimits
<1>1. PICK j \in Jobs :
        /\ IsNext(j) /\ ~QueueFull(c)
        /\ Dispatch(Append(queue, j), running, c.concurrent, [job EXCEPT ![j] = NewJob(k)],
                    [phase EXCEPT ![j] = "queued"])
  BY DEF Accept
<1> DEFINE q  == Append(queue, j)
           jb == [job EXCEPT ![j] = NewJob(k)]
           ph == [phase EXCEPT ![j] = "queued"]
<1>2. /\ Types /\ phase[j] \in {"unused", "gone"}
      /\ c.concurrent \in Nat \ {0} /\ c.queued \in Nat
      /\ maxConcurrent' = c.concurrent /\ maxQueued' = c.queued
  BY <1>1, ConfigType DEF IsNext, Free, IInv, Adopt
<1>3. /\ q \in Seq(Jobs) /\ Waiting(q, ph) /\ Len(queue) \in Nat /\ Len(q) = Len(queue) + 1
      /\ Len(queue) < c.queued
  <2>1. q \in Seq(Jobs) /\ Waiting(q, ph)
    BY <1>2, Joined DEF IInv, Types
  <2>2. Len(queue) \in Nat /\ Len(q) = Len(queue) + 1
    BY <1>2, AppendProperties DEF Types
  <2>3. Len(queue) < c.queued
    BY <1>1, <1>2, <2>2 DEF QueueFull
  <2>4. QED BY <2>1, <2>2, <2>3
<1>4. /\ ph \in [Jobs \cup Tasks -> Phases]
      /\ InRun(ph) = InRun(phase) /\ HasBudget(ph) = HasBudget(phase)
  BY <1>2 DEF Types, Phases, InRun, HasBudget, Working, Executing, Holding
<1> HIDE DEF q, jb, ph
<1>5. Dispatch(q, running, c.concurrent, jb, ph)
  BY <1>1 DEF q, jb, ph
<1>6. /\ running \in Int /\ running = Cardinality(InRun(phase))
      /\ active \in Int /\ active = Cardinality(HasBudget(phase))
  BY <1>2 DEF SlotsCounted, InRun, HasBudget, Types
<1>7. /\ running' = Cardinality(InRun(phase')) /\ HasBudget(phase') = HasBudget(ph)
      /\ running' > running => running' <= c.concurrent
      /\ Len(queue') <= Len(q)
      /\ ~closed /\ queue' # <<>> => running' >= c.concurrent
  <2>1. running = Cardinality(InRun(ph))
    BY <1>4, <1>6
  <2>2. PICK m \in Int, max \in Int :
          m = running /\ max = c.concurrent /\ Dispatch(q, m, max, jb, ph)
    BY <1>2, <1>5, <1>6
  <2>3. m = Cardinality(InRun(ph)) /\ ph \in [Jobs \cup Tasks -> Phases]
    BY <1>4, <2>1, <2>2
  <2>4. QED BY <1>3, <2>2, <2>3, DispatchCounts
<1>8. running' \in Int /\ Len(queue') \in Nat
  <2>1. PICK max \in Int, n \in Nat : max = c.concurrent /\ n = Len(q)
    BY <1>2, <1>3
  <2>2. Room(n, running, max) \in 0..n
    BY <1>6, RoomType
  <2>3. running' = running + Room(Len(q), running, max) /\ queue' \in Seq(Jobs)
    BY <1>3, <1>5, <1>6, <2>1, DispatchQueue
  <2>4. QED BY <1>6, <2>1, <2>2, <2>3
<1>9. SlotsCounted'
  <2>1. active' = Cardinality(HasBudget(phase'))
    BY <1>4, <1>6, <1>7
  <2>2. ~closed' /\ queue' # <<>> => running' > 0 /\ running' >= maxConcurrent'
    BY <1>2, <1>7, <1>8
  <2>3. QED BY <1>7, <2>1, <2>2 DEF SlotsCounted, InRun, HasBudget
<1>10. AdmittedWithinLimits
  <2>1. ~(active' > active)
    BY <1>6
  <2>2. Len(queue') > Len(queue) => Len(queue') <= maxQueued'
    BY <1>2, <1>3, <1>7, <1>8
  <2>3. running' > running => running' <= maxConcurrent'
    BY <1>2, <1>7
  <2>4. QED BY <2>1, <2>2, <2>3 DEF AdmittedWithinLimits
<1>11. QED BY <1>9, <1>10

LEMMA NothingAdmitted ==
  ASSUME IInv, UNCHANGED <<queue, running, active>>
  PROVE  AdmittedWithinLimits
<1>1. active \in Int /\ running \in Int /\ Len(queue) \in Nat
  BY DEF IInv, Types
<1>2. QED BY <1>1 DEF AdmittedWithinLimits

LEMMA EnsureSlots ==
  ASSUME IInv, Limits, SlotsCounted, NEW r \in Callers, NEW k \in Keys, EnsureJob(r, k)
  PROVE  SlotsCounted' /\ AdmittedWithinLimits
<1>1. PICK c \in Config : \/ EnsureExisting(r, k, c) \/ EnsureRetry(r, k, c)
                          \/ EnsureNew(r, k, c)
  BY DEF EnsureJob
<1>2. Adopt(c) /\ UNCHANGED <<closed, active>> /\ Types
  BY <1>1 DEF EnsureExisting, EnsureRetry, EnsureNew, budget, IInv
<1>3. ASSUME NotDispatched(c), UNCHANGED phase
      PROVE  SlotsCounted' /\ AdmittedWithinLimits
  <2>1. UNCHANGED <<queue, running>>
    BY <1>3 DEF NotDispatched
  <2>2. QED BY <1>2, <1>3, <2>1, NoneMoves, NothingAdmitted
<1>4. CASE EnsureExisting(r, k, c)
  BY <1>3, <1>4 DEF EnsureExisting, workers
<1>5. CASE EnsureRetry(r, k, c)
  BY <1>2, <1>3, <1>5, AcceptSlots DEF EnsureRetry, Refuse, workers
<1>6. CASE EnsureNew(r, k, c)
  <2>1. CASE NotDispatched(c) /\ UNCHANGED workers
    BY <1>3, <2>1 DEF workers
  <2>2. CASE \E table : Accept(r, k, c, table)
    BY <1>2, <2>2, AcceptSlots
  <2>3. CASE \E j \in Jobs : /\ IsNext(j) /\ phase' = [phase EXCEPT ![j] = "gone"]
                             /\ NotDispatched(c)
    <3>1. PICK j \in Jobs : /\ IsNext(j) /\ phase' = [phase EXCEPT ![j] = "gone"]
                            /\ NotDispatched(c)
      BY <2>3
    <3>2. phase[j] \in {"unused", "gone"} /\ phase \in [Jobs \cup Tasks -> Phases]
      BY <1>2, <3>1 DEF IsNext, Free, Types
    <3>3. InRun(phase') = InRun(phase) /\ HasBudget(phase') = HasBudget(phase)
      BY <3>1, <3>2 DEF InRun, HasBudget, Working, Executing, Holding
    <3>4. UNCHANGED <<queue, running>>
      BY <3>1 DEF NotDispatched
    <3>5. QED BY <1>2, <3>1, <3>3, <3>4, NoneMoves, NothingAdmitted
  <2>4. QED BY <1>6, <2>1, <2>2, <2>3 DEF EnsureNew, Refuse
<1>7. QED BY <1>1, <1>4, <1>5, <1>6

LEMMA ClosedSlots ==
  ASSUME IInv, SlotsCounted, NEW c \in Config, EnsureClosed(c)
  PROVE  SlotsCounted' /\ AdmittedWithinLimits
<1>1. closed /\ UNCHANGED <<queue, running, closed, phase, active>>
  BY DEF EnsureClosed, workers, budget
<1>2. QED BY <1>1, NoneMoves, NothingAdmitted

LEMMA CloseSlots ==
  ASSUME IInv, SlotsCounted, Close
  PROVE  SlotsCounted' /\ AdmittedWithinLimits
<1> DEFINE queued == {queue[i] : i \in 1..Len(queue)}
<1>1. closed' = TRUE /\ queue' = <<>> /\ UNCHANGED <<running, active>>
  BY DEF Close, budget
<1>2. phase' = [w \in Jobs \cup Tasks |-> IF w \in queued THEN "gone" ELSE phase[w]]
  BY DEF Close
<1>3. \A w \in queued : phase[w] = "queued"
  BY DEF IInv, Types, Waiting
<1> HIDE DEF queued
<1>4. InRun(phase') = InRun(phase) /\ HasBudget(phase') = HasBudget(phase)
  BY <1>2, <1>3 DEF InRun, HasBudget, Working, Executing, Holding
<1>5. SlotsCounted'
  BY <1>1, <1>4 DEF SlotsCounted, InRun, HasBudget
<1>6. active \in Int /\ running \in Int /\ Len(queue) \in Nat /\ Len(queue') = 0
  BY <1>1 DEF IInv, Types
<1>7. QED BY <1>1, <1>5, <1>6 DEF AdmittedWithinLimits

LEMMA OtherSlots ==
  ASSUME IInv, SlotsCounted,
         \/ \E r \in Requests : RequestStep(r)
         \/ \E j \in Jobs : FirstSegment(j) \/ Playable(j) \/ Ages(j)
         \/ \E k \in Keys : Remove(k) \/ RemoveFails(k) \/ GracePasses(k)
         \/ Scan \/ UNCHANGED vars
  PROVE  SlotsCounted' /\ AdmittedWithinLimits
<1>1. UNCHANGED <<queue, running, closed, limits, phase, active>>
  BY DEF RequestStep, AcquireSegment, WaitPlayable, WaitEnds, AcquireRead, GetJob, Release,
     FirstSegment, Playable, Ages, Remove, RemoveFails, GracePasses, Scan, vars, manager,
     workers, budget
<1>2. QED BY <1>1, NoneMoves, NothingAdmitted

\* Whoever takes the budget finds a slot free under the limit it brings.
LEMMA BudgetAdmits ==
  ASSUME IInv, Limits, NEW w \in Jobs \cup Tasks,
         \/ Acquire(w) \/ Awake(w)
         \/ w \in Tasks /\ (TaskStarts(w) \/ TaskCancelled(w) \/ TaskEnds(w))
         \/ w \in Jobs /\ (\/ Prepare(w) \/ EncodeEnds(w) \/ Mark(w)
                           \/ FinishFailed(w) \/ FinishConverted(w) \/ Panic(w))
  PROVE  AdmittedWithinLimits
<1>1. UNCHANGED <<queue, running>>
  BY DEF Acquire, Awake, TaskStarts, TaskCancelled, TaskEnds, Prepare, EncodeEnds,
         EncodeSucceeds, EncodeFails, Mark, FinishFailed, FinishConverted, Panic, manager
<1>2. /\ active \in Int /\ running \in Int /\ Len(queue) \in Nat
      /\ phase \in [Jobs \cup Tasks -> Phases] /\ limit[w] \in Nat
  BY DEF IInv, Types, Limits
<1>3. active' > active => /\ phase[w] \notin Holding /\ phase'[w] \in Holding
                          /\ active' <= limit[w]
  <2>1. CASE Acquire(w)
    BY <1>2, <2>1 DEF Acquire, Returns, Goes, Holding
  <2>2. CASE ~Acquire(w)
    <3>1. active' = active \/ active' = active - 1
      BY <2>2 DEF Awake, TaskStarts, TaskCancelled, TaskEnds, Prepare, EncodeEnds,
         EncodeSucceeds, EncodeFails, Mark, FinishFailed, FinishConverted, Panic, FreeSlot,
         Finish, budget
    <3>2. QED BY <1>2, <3>1
  <2>3. QED BY <2>1, <2>2
<1>4. QED BY <1>1, <1>2, <1>3 DEF AdmittedWithinLimits

LEMMA SlotsStep ==
  IInv /\ Limits /\ SlotsCounted /\ [Next]_vars => SlotsCounted' /\ AdmittedWithinLimits
BY WorkerSlots, BudgetAdmits, LeaveSlots, EnsureSlots, ClosedSlots, CloseSlots,
   OtherSlots
DEF Next, WorkerStep

LEMMA Slots == Spec => []SlotsCounted
<1>1. Init => SlotsCounted
  <2>1. ASSUME Init
        PROVE  InRun(phase) = {} /\ HasBudget(phase) = {}
    BY <2>1 DEF Init, InRun, HasBudget, Working, Executing, Holding
  <2>2. ASSUME Init
        PROVE  SlotsCounted
    <3>1. running = Cardinality(InRun(phase)) /\ active = Cardinality(HasBudget(phase))
      BY <2>1, <2>2, FS_EmptySet DEF Init
    <3>2. queue = <<>>
      BY <2>2 DEF Init
    <3>3. QED BY <3>1, <3>2 DEF SlotsCounted, InRun, HasBudget
  <2>3. QED BY <2>2
<1>2. QED BY <1>1, SlotsStep, Invariant, PTL DEF Spec

\* However EnsureJob and Acquire change the limits: the slots of the manager and the
\* budget are neither leaked nor counted twice, what is admitted is within the limits
\* it is admitted under, and while the manager is open a job waits only beside others
\* that run, and beside a free slot only after a raise that dispatched nobody.
THEOREM SlotsAccountedCorrect == Spec => SlotsAccounted
<1>1. IInv /\ Limits /\ SlotsCounted /\ [Next]_vars => [SlotsCounted' /\ AdmittedWithinLimits]_vars
  BY SlotsStep
<1>2. QED BY <1>1, Slots, Invariant, PTL DEF Spec, SlotsAccounted

\* Types; no counter goes below zero, for each is the size of a set.
THEOREM TypeCorrect == Spec => []TypeOK
<1>1. IInv /\ Limits /\ SlotsCounted => TypeOK
  <2> SUFFICES ASSUME IInv, Limits, SlotsCounted
               PROVE  TypeOK
    OBVIOUS
  <2>1. Types
    BY DEF IInv
  <2>2. running \in Nat /\ active \in Nat
    BY FiniteWorkers, FS_CardinalityType DEF SlotsCounted, InRun, HasBudget
  <2>3. readers \in [Keys -> Nat]
    <3>1. \A k \in Keys : IsFiniteSet(Readers(k))
      BY HLSAssumption, FS_Subset DEF Readers
    <3>2. \A k \in Keys : readers[k] \in Nat
      BY <3>1, FS_CardinalityType DEF IInv, Counted
    <3>3. QED BY <2>1, <3>2 DEF Types
  <2>4. QED BY <2>1, <2>2, <2>3 DEF TypeOK, Types, Limits, JobRecords, Directory, Places
<1>2. QED BY <1>1, Invariant, Slots, PTL
==============================================================================
