# Formal model of bililive-go

bililive-go watches live-streaming rooms, records those that are live, and
post-processes and serves the recordings. This directory holds TLA+ modules that
model the parts of the program where processes, requests, timers and crashes
interleave, TLC configurations that check them on small instances, and proofs of
the most important results for instances of every size.

All paths below are relative to `src/src/` unless they start with `src/`.

## Inventory

| Component | State it keeps | Operations | Hard behaviour |
|---|---|---|---|
| Pipeline manager (`pipeline/manager.go`) | `runningTasks`, `historyPausedTasks`, `scheduleMu`, one goroutine per task | `Start`, `Close`, polling rounds, enqueue, cancel, retry, delete, clear | rounds, finishing tasks and requests interleave; two locks; shutdown; crash |
| Task store (`pipeline/store.go`, `types.go`) | `pipeline_tasks` in SQLite | the statements the manager issues | survives a crash in any status |
| History governance (`pipeline/history_governance.go`) | previews, `history_tasks`, the 60-second clock | preview, confirm, pause, admission of a task | at most one history task, without starving or being starved |
| Executor and stages (`pipeline/executor.go`, `pipeline/stages`) | files, the `preparations` table | stages in sequence and in parallel | partial failure, cancellation, re-execution after a crash |
| Listeners (`listeners/`) | per room: a listener, its last status | add, remove, replace, poll | a poll that returns after removal; contexts |
| Event dispatcher (`pkg/events`) | handlers | dispatch | every event is handled in a goroutine of its own: no order |
| Recorder manager and recorders (`recorders/`) | per room: a recorder, its parser and goroutine | add, restart, remove; start, close, retry | restarts work outside the lock; timers; close against start |
| Parsers (`pkg/parser`) | one download process | start, stop | stop before start |
| HLS jobs and cache janitor (`servers/hls_*.go`, `pkg/mediawork`) | jobs, queue, read leases, cache directories, work budget | ensure, wait, read, retry, clean, close | a directory re-created or read while it is being removed; full queue |
| Playback assets (`pkg/playbackasset`) | files, journals, manifests | publish, recover, delete a source | a crash between any two file operations |
| Recording catalog (`pkg/recordingcatalog`) | recordings, versions, preparation proofs | scan, prepare, delete | proofs bound to a version that changes |
| Live state (`livestate/`) | rooms, sessions, heartbeats | start, end, heartbeat, recover | sessions left open by a crash |
| Poll scheduler, rate limits (`live/lives.go`, `pkg/ratelimit`) | waiters, scheduler goroutine, next allowed time per platform | wait for a poll, force a refresh, close | closing against starting; fairness between rooms |
| Self update (`pkg/update`, `pkg/launcher`, `pkg/ipc`) | selected version, download, launcher state | check, download, apply, roll back | crash between steps, health check timeout |
| HTTP server, SSE, sessions (`servers/`) | sessions, SSE clients | requests | a request's context ends with the request |
| Configuration, metadata, migration, reconciliation, platform clients, probes, proxies, web UI | files and data | parsing, SQL, I/O | little concurrency of their own |

How they interact: a listener polls its room through the poll scheduler and
*dispatches events*; the recorder manager handles the events and *calls*
recorders; a recorder runs a parser and, when a file is finished, *enqueues* a
pipeline task; the pipeline runs stages that publish playback assets; the HTTP
server *calls* all of them from request goroutines and serves the assets and the
HLS caches. They share the SQLite databases and the file system. `PROJECT.json`
lists every component with its status, and under `hazards` what is hard to test,
each at its line.

What makes each component correct:

- pipeline: bounded concurrency, one execution per task, no row left without an
  owner, final statuses stay final, every waiting task is tried, shutdown
  terminates and leaves nothing using the store;
- history governance: one history task at a time, a pause reaches what it names
  and nothing later;
- recording: at most one download per room, the registered recorder is at work,
  every running recorder can be reached and stopped, a listener polls until it
  is closed, long streams are split;
- HLS: a lease protects a directory from removal and re-creation, each key has
  one current job, slots and budget are accounted for while limits change, every accepted job ends;
- playback assets: after recovery a target is complete and proved or absent, and a
  source is deleted only when a validated target exists;
- live state: at most one open session per room, none open after recovery;
- catalog: a deletion destroys only the versions it checked; rows, counts and proofs agree
  with the disk after a quiet scan;
- polling: requests to a platform are as far apart as its limit, and everyone who waits for
  a poll is answered;
- update: some version always starts.

## Modules

| Module | What it is |
|---|---|
| `PipelineManager` | manager, store and history governance of the post-recording pipeline |
| `TaskLifecycle` | what the pipeline promises of its tasks, in a dozen actions without locks, rounds and registration |
| `RoomRecording` | listener, events, recorder manager, recorder and parser of one room |
| `HLSJobs` | on-demand HLS caches: job manager, leases, janitor, work budget |
| `AtomicPublication` | what the publication of a playback product promises, in four actions |
| `PlaybackPublication` | the file operations that implement it, with crashes and the loss of power |
| `RecordingCatalog` | scan, deletion, recorders and the stage `prepare_playback` over one folder |
| `RoomPolling` | waiters, scheduler and platform limit of the rooms of one platform |
| `MC*` with the `.cfg` files | their instances for TLC |
| `*_proof` | theorems about them; `PlaybackRecovery_proof` and `CatalogServing_proof` continue `PlaybackPublication_proof` and `RecordingCatalog_proof` |

The modules meet where the components do: a recorder that finishes a file enqueues the task
`PipelineManager` executes; its stages are the workers of `PlaybackPublication`, the
preparations of `RecordingCatalog` and the `Tasks` of `HLSJobs`; the deletion of
`RecordingCatalog` and the workers of `PlaybackPublication` act on the same folder; the polls
of `RoomRecording` are those `RoomPolling` spaces out. They are separate modules, because each
of these interfaces is one call or one file, while the states behind it multiply.

The operators that end in the name of a bug and carry the comment *mutant* are
not part of the specifications: each is a plausible error in the operator below
it, and `PROJECT.json` says which property it breaks.

### PipelineManager and TaskLifecycle

`row[t]` is the `status` column (`none` before the row exists, `deleted` after);
`hist`, `confirmed`, `previewPaused` and `cooling` are the history tables with
one preview; `olderTries` is the order of the `started_at` column, which
`GetPendingTasks` sorts by. These survive `Crash`. `runningTasks`,
`historyPausedTasks`, `scheduleMu` are the fields of those names;
`cancelledCtx` holds the running tasks whose own context was cancelled, and
`phase` is the life cycle: `m.ctx` is cancelled from `closing` on, the store is
closed in `closed`, and nothing exists in `down`.

| Code | Actions |
|---|---|
| `scheduleNextTasks`, called by the ticker, `EnqueueTask` and `RetryTask` | `RoundBegin` (lock, count the slots), `RoundFetch` (snapshot), `RoundAdmit` per task, `RoundEnd` |
| `startTask` | end of `RoundAdmit` (register under `mu`), `RoundMark` (persist "running"), `RoundSpawn` |
| `executeTask` | `Progress`, `Execute` (the stages return; mark and `m.ctx` are read), `Judge` (the task's own context is read), `Panics`, `Persist` (final write), `Unregister` (deferred clean-up) |
| `RetryTask`, `DeleteTask`, `CancelTask` | a read step and a write step each: the first two hold no lock between them, the last holds `scheduleMu` |
| `EnqueueTask`, `ClearCompletedTasks`, `ConfirmHistory`, `SetHistoryPaused` | one action each: one statement, one transaction or one critical section |
| `Close` | `CloseCancel`, `CloseBarrier`, `CloseStore` |
| process death, `NewSQLiteStore` + `Start` | `Crash`, `Restart` |

A step ends where another goroutine can observe or change something: at a lock,
a statement or a channel. A round that finds no free slot, and a retry or delete
refused by its check, change nothing and are not actions. An order the code
computes (`ORDER BY`, the order of the snapshot) is kept only as far as it
decides who is tried first: pending before paused, paused ones by `olderTries`,
pending ones in any order, which admits more behaviours than the code.
The 60 seconds between two history tasks are the two values of `cooling`.

A stage that panics (`Panics`) is swallowed by `bilisentry.Go`: neither an outcome nor
the final write follows, only the deferred clean-up, so the row stays `running`
without an owner until the next start. A pause or a `Close` that comes between the
two reads of `Execute` and `Judge` (`manager.go:264-270`) ends the task as
`cancelled` and not as `paused`; no property depends on it.

Three ghost variables record history for the properties: `unsaved` (a final
write failed, or a stage panicked), `userCancelled` and `overtaken` (a request wrote over a row that
had changed since its check).

`KeepsLifecycle` is the refinement of `TaskLifecycle`: `status` is `row`, `executing` is
`Executing` (the tasks of goroutines in `run`, `judge` and `write`, and the one a round has marked and is
about to spawn), and the two steps of Close
before the store is closed are one phase, `closing`. What a client cannot see is hidden: rounds,
snapshots, locks, registration, history confirmations, the steps of requests. In particular a
task starts in one step of `TaskLifecycle`, which is `RoundMark`, and the abstract guards (fewer than `MaxConcurrent` others, status waiting, no
deletion of a task that executes) have to hold at that moment although the code checked them
several steps earlier. `overtaken` stands in both: a client whose request races another is promised
less about the row.

### RoomRecording

Rooms share no state: the maps of both managers are keyed by room. One room
therefore shows every behaviour. `listener` and `saver` are its entries in these
maps. Per listener object there is its state, the position of its `run`
goroutine and the status it compares with; per recorder object its state, the
position of its goroutine (`swapped` and `closing` while `RestartRecorder` still
works on it; then `retry`, `setup`, `parse`, `recording`; `over` when it has
returned, `panicked` when a panic ended it), its parser and the
recorder it replaces. `inflight` counts the dispatched events of each type that
have not been handled; handlers take them in any order. `onRequest` holds the
objects whose context is the context of an HTTP request; it may end at any time.

| Code | Actions |
|---|---|
| `AddListener`, `RemoveListener`, `run`, `processInfo` | `AddListener`, `RemoveListener`, `Poll`, `Process` with `Diff` |
| `DispatchEvent` | `Dispatched` when sent, `Handled` when a handler runs |
| `AddRecorder` | `AddRecorder` (one critical section) |
| `RestartRecorder` from an event, a request or `cronRestart` | `RestartSwap` under the lock, then `RestartClose`, `RestartStart` outside it |
| `RemoveRecorder` | `RemoveRecorder`, `RemoveFinish`; the lock is held between them (`removing`) |
| `cronRestart` | `CronCheck`, `CronRestart` |
| `run`, `tryRecord` | `Prepare`, `SetParser`, `Launch`, `StreamEnds`/`ParserReturns`, `RunStops`, `RunPanics` |
| `Stop` of the ffmpeg parser | `ParserStopped` |

An attempt without stream address or parser changes nothing and is repeated, so
it is not an action. `RunPanics` is a panic in `tryRecord`, which
`bilisentry.GoWithContext` swallows: nobody is told that the goroutine is gone. A
panic inside a parser that is recording, or of a listener's goroutine, is not
modelled. `RegisteredAlive` is about the goroutine and not only about the
recorder's own `state`: what `GetRecorder` and the status broadcast show as
running is at work or about to be started, except after such a panic and, for
the stream-switch request (`servers/handler.go:614`), after the end of the
request's context (`recorders/recorder.go:664`). `disowned` is a ghost: recorders that were replaced or
removed before the restart that registered them had started them.
The model leaves out `replaceListener`, which the program uses when a room
finishes initializing; such a listener gets the context of the program, like the
one `AddListener` creates at start-up. It also leaves out the shutdown of the
whole program.

### HLSJobs

A step of the manager is what happens under one hold of `m.mutex`. `current` is `m.jobs`;
`queue`, `running`, `closed`, `readers` are the fields of those names; `recent[k]` says that
`m.lastRead` lies within the read grace. `phase` is the position of each job's goroutine and of
each pipeline stage that shares the budget (`active`, and `parked` for those that wait on the
channel `changed` now names). `dir[k]` is the cache directory: who made it, how far its playlist
reads, its `.failed` marker.

| Code | Actions |
|---|---|
| `EnsureJob`, `enqueueLocked`, `dispatchLocked` | `EnsureExisting`, `EnsureRetry`, `EnsureNew`, `EnsureClosed`, with `Adopt`, `Accept` or `Refuse`, `Dispatch` or `NotDispatched` |
| `WaitPlayable`, `acquireRead`, release, `getHLSPlaylist`, `getHLSSegment` | `WaitPlayable`, `WaitEnds`, `AcquireRead`, `AcquireSegment`, `GetJob`, `Release` |
| `run`, `executeConversion` | `Prepare`, `FirstSegment`, `Playable`, `EncodeSucceeds`, `EncodeFails`, `Mark`, `FinishFailed`, `FinishConverted`, `Panic`, `Leave` |
| `Budget.Acquire` and its release | `Acquire`, `Awake`, `TaskStarts`, `TaskCancelled`, `TaskEnds` |
| `Close`, the janitor | `Close`, `Scan`, `Remove`, `RemoveFails` |
| time | `GracePasses`, `Ages` |

The playback resolver asks for a job without waiting for it: it is the caller `None`. A job that
nothing refers to any more is used again, so `MaxJobs` bounds what exists at a time and not how
often a cache is converted. Times are kept as what they decide: a failed job is fresh, may be
retried (5 seconds), or may be forgotten (an hour; which of the old ones are is left open).

The limits belong to the configuration, which may be changed at any time: every `EnsureJob`
brings values from `ConcurrentLimits` and `QueueLimits` and leaves them in the manager (`Adopt`,
lines 77-88), also when it finds its job, is refused, or the manager is closed; a job and a stage
keep theirs until `Budget.Acquire` has returned (`limit`). Only the queueing of a job and the end
of one dispatch, so a raise by anyone else leaves jobs waiting beside a free slot: `raised`
records it, and `SlotsAccounted` excepts it. A lowering stops nothing that runs: the property is
that counters are exact and that whoever is admitted is admitted within the limits of the moment.

A stage uses the budget as often as it likes, or is cancelled while it waits for it. The budget
goes to whoever comes first after a release (`budget.go:28-53`), so a job may starve beside others
that take it for ever; `AcceptedJobEnds` says that nothing else keeps a job from ending.

### PlaybackPublication and AtomicPublication

A file is its inode, so a hard link is the same number under two names, and intent, manifest and
deletion intent, which name source, version and target, are the inode they are about. `fs` is
the directory as programs see it, `disk` as it was last synced; `PowerLoss` keeps each entry
either way. Two sources share one target (`clip.flv` and `clip.ts` give `clip.mp4`).

| Code | Actions |
|---|---|
| `convert_mp4.go`, `Execute` | `Start`, `CheckTarget`, `Convert`, `Emit` |
| `RecoverPublication` | `ReadIntent`, `Validate` |
| `publishValidated`, `finishPublication`, `saveManifest` | `LinkIntent`, `SyncIntent`, `LinkTarget`, `CheckSave`, `LinkManifest`, `Reconsider`, `RollBackTarget`, `RollBackIntent`, `SyncManifest`, `RemoveIntent`, `SyncFinished` |
| `DeleteSourceValidated`, `finishSourceDeletion`, `RecoverSourceDeletion` | `Start` (second disjunct), `Emit`, `SyncDeletion`, `Recheck`, `RemoveSource`, `SyncDeleted`, `RemoveDeletion`, `SyncOver` |
| another program | `SourceChanges` |

`FaultsWhenShared` separates what the protocol keeps from what it does not. With
`FALSE`, a sync or save fails, and a source is rewritten, only while at most one worker is
active, and nobody starts during a rollback; crashes and the loss of power are unrestricted. Then
`NeverLoseBoth`, `StaysRecoverable` and `PublishesAtomically` hold: present sources and standing product behave as `AtomicPublication`
(publish, undo, delete the source, restore it). With `TRUE` the rollback of one
worker removes what another has just committed (finding 4).

`StaysRecoverable` names four exceptions, which are what the code does: the process dies
before the intent was synced; a sync failed, and its error path took the temporary file away
while the intent it could not remove came back; the intent of a manifest that was not synced was
removed; a rollback was cut in the middle. The third takes two crashes: the first run dies after its
manifest is linked and before it is synced, the next one's save fails, finds the manifest
(`Reconsider`) and removes the intent before it syncs the directory
(`pkg/playbackasset/publish.go:133`). In each the intent
without its file is an error for every later run until somebody removes it.

### RecordingCatalog

A file is its identity (inode and birth time) and the time of its last write; the source version,
a hash in the code, is that pair. Rows of `recordings`, `recording_aliases`, `media_assets`,
`prepared_verifications` and `playback_preparations` are functions; `stats` is what
`room_statistics` counted. `scan`, `del` and `prep` are the three procedures in progress, and the
first two hold `s.mu`.

| Code | Actions |
|---|---|
| `Store.Reconcile`, `apply`, `refreshPreparedVerifications` | `LoopScan`/`PrepareScan`, `ScanFile`, `ScanRefused`, `Apply` |
| `DeleteRecording`, `removePinnedFile` | `DeleteRequest`, `DeletePlan`, `DeleteCheck`, `DeleteCapture`, `DeleteJudge`, `DeleteRecord`, `DeleteUnrecorded`, `DeleteFinish` |
| `BeginRecording` and its end, the file of the parser | `BeginRecording`, `RecordOpen`, `RecordWrite`, `EndRecording` |
| stage `prepare_playback` with `PreparationEntry`, `RegisterPreparedMain`, `RecordPreparedVerification`, `VerifyPreparedAsset`, `InvalidatePreparedAsset` | `PrepareBegin` to `PrepareFail` |
| `renameFile` with `renamePlaybackFile`, `deletePlaybackFile`, process death | `RenameCheck` and `Rename`, `Remove`, `Crash` |

`DeleteUnrecorded` is a transaction that fails after its file has gone; the statement that then sets
the status `pending` (delete.go:107) is assumed to succeed: were it to fail too, the counts shown
would be those of before the deletion until the next scan.

A rename of the file manager is two steps: it looks whether the new name is taken
(`servers/handler.go:2674`), and `os.Rename` then replaces whatever has come to that name since
(`servers/playback_asset_operations.go:64`), a product just published or a file a deletion gave
back included. `KeptSomewhere` therefore speaks of deletions: what a rename replaced is taken off
`kept` like a file removed by name. Neither rename nor removal asks whether the file is being
recorded; the recorder goes on writing to the file it has open (`writing`), wherever it is by then.
`RecordingUntouched` is about the recorded name. The rename of a finished part by the recorder
itself (`recorders/recorder.go:542`) is not modelled. One rename is in progress at a time.

A scan is refused because a listed name is gone, or, within `MaxFaults`, because a file changed
while it was looked at, the context ended or the transaction failed; writing the status
`unavailable` is assumed to succeed.

The publication inside the stage is one step here; its protocol is the module above. Derived
assets (`RegisterDerived`, `RegisterHLS`, `refreshDerived`, `FindHLS`), aliases of removed roots
and the paging of rows are left out.

### RoomPolling

Goroutines in `GetInfoWithInterval` (`asking`, `waiters`) are answered by the scheduler of their
room, which waits for the room's interval and then, like every direct caller of `GetInfo`, for the
limiter of the platform. Time is ticks since an event, saturated at the longest interval that is
compared; nothing that takes no time is left when a tick passes (`Pressing`), so timers
fire on time, while a request to the platform may take any number of ticks.

| Code | Actions |
|---|---|
| `GetInfoWithInterval`, `removeWaiter` | `Ask`, `Leave` |
| `runScheduler` | `Plan`, `Fire`, `Stop` |
| `GetInfo`, `WaitForPlatformWithContext`, `notifyWaiters` | `Call`, `Pass`, `Hold`, `Cancelled`, `Succeed`, `Fail`, `Stamp` |
| `ForceAccess` | `Call` with `forced` |
| `syncPlatformRateLimits`, `SetPlatformLimit` | `KeepLimit`, `DropLimit` |
| contexts | `EndRoom` |

## Runs

| Run | Instance | States | Shows |
|---|---|---|---|
| `pipeline_queue` | 2 history tasks, 2 slots, 3 goroutines, 2 clients with retry, delete, cancel, pause, clear; 2 requests, 1 failed write or panic, 1 restart; symmetry | 1,948,876 | `TypeOK`, `CloseQuiesces`, `RunningRowOwned`, `OneExecutor`, `PauseMarkOwned`, `HistoryOneAtATime`, `KeepsLifecycle` |
| `pipeline_progress` | 1 ordinary and 1 history task, 1 slot, pause and cancel, 1 failed write or panic, 1 restart; fair | 193,920 | `SlotBound`, `WaitingTried`, `HistoryTried`, `CloseReturns` |
| `pipeline_cancel_resumed` | 1 task, 1 cancellation | | violates `CancelledNotResumed` |
| `room_recording` | 2 listener and 3 recorder objects, 2 titles, 1 change, 1 request, renames, timers and panics; fair | 57,739 | `TypeOK`, `RegisteredAlive`, `RunningOwned`, `OneDownloadUnlessOvertaken`, `CloseReaches`, `ClosedEnds` |
| `recording_polls` | 2 requests, no change of the room | | violates `PollsUntilClosed` |
| `recording_one_download` | as `room_recording` without timers | | violates `OneDownload` |
| `hls_leases` | 1 cache, 2 jobs, a request, the resolver, a stage, the janitor, failing file operations, limits of 1; fair | 425,153 | `TypeOK`, `LeaseKeepsJob`, `LeaseKeepsDirectory`, `CloseReturns` |
| `hls_scheduling` | 2 caches, 2 jobs, slots and budget changed between 1 and 2, a queue of 1, a stage that shares the budget again and again; fair | 655,780 | `CompletedIsWhole`, `WorkingIsRegistered`, `SlotsAccounted`, `NoLostWakeup`, `AcceptedJobEnds` |
| `publication` | 2 sources of one target, 2 workers, 2 conversions, 1 crash or loss of power, faults while alone; symmetry | 1,618,999 | `TypeOK`, `NeverLoseBoth`, `StaysRecoverable`, `PublishesAtomically` |
| `publication_rollback` | 1 source, 2 workers, 1 conversion, faults at any time | | violates `CommittedNotRolledBack` |
| `recording_catalog` | 3 names, 3 files or writes; any four of a rename or removal, a deletion, 2 preparations and a crash or refused scan | 2,244,945 | `TypeOK`, `KeptSomewhere`, `RecordingUntouched`, `StatsTrusted`, `IdentityKeepsRecording`, `ScanKeepsServed`, `QuietScanCatchesUp` |
| `room_polling` | 2 rooms with a watcher each, 1 caller, limits 1 and 2, 2 calls, updates or contexts that end; fair | 130,802 | `TypeOK`, `LimitKept`, `AskingEnds` |

Why the bounds are enough.

- *Pipeline.* The conflicts are between two tasks (for a slot, for the history rule) or two
  writers of one row: two tasks and two overlapping requests produce each of them. History
  tasks pass every check an ordinary one does and one more, so `pipeline_queue` has only them. One
  goroutine more than there are slots lets a round over-admit if it could. One failed write or
  panic and one restart suffice for a row to lose its owner and for a mark to survive; a second restart
  begins in a state the first one already produced.
- *Recording.* Three recorder objects allow a restart to be overtaken by another while the
  recorder both replaced is still downloading; finished objects are reused. The events that are in
  flight are handled in every order.
- *HLS.* A lease can be endangered by a retry and the janitor, which one key and two jobs meet in
  every order, since jobs are used again, and by the expiry of another key's record in `EnsureNew`
  and the full table (`MaxRecords`), which need a second key and are covered by
  `LeaseKeepsJobCorrect` only. Slots, queue and budget
  of one and two keys make every limit reached, and two values of the concurrency show a raise
  and a lowering in each order beside running and waiting jobs.
- *Publication.* Two workers and two sources are one more of each than the protocol serialises; a
  second crash starts from a state like the first's, except that the third exception of
  `StaysRecoverable` needs it; with two crashes TLC has gone through 3,699,721 states once.
  `NeverLoseBoth`, `StaysRecoverable` and `PublishesAtomically` are proved for any number.
- *Catalog.* Three names allow a swap seen by a scan in either order, and a file that comes to a
  name between the check of it and its capture; three writes give a recording, its product and a
  change of one of them. The one rename is a
  check and a replacement later, with everything else in between. `MaxEvents` leaves out only behaviours
  in which all five events happen. What more of them can do is
  left to the theorems, which know no bound.
- *Polling.* Two rooms and a caller compete for one limiter, three sleepers at most; `Limits` of
  one and two ticks make an update shorten or lengthen a wait in progress. `Interval` 2 and
  `Jitter` 1 give each branch of the scheduler's wait.

The bounds on counters are all in the guards of environment actions (requests, faults, restarts,
changes, deletions, renames and removals); no action of the program is cut off, except that recordings and
conversions end when `MaxWrites` or `MaxFiles` is used up.

`CHECK_DEADLOCK FALSE` is set in every configuration: the program may have exited, or be idle
after the last allowed request.

### Fairness

`PipelineManager!Fairness`: the ticker calls `scheduleNextTasks` for ever, so a
round that can go on does; a stage is an external process with a deadline or a
finite input, so `executeTask` returns; a request in progress is finished by its
goroutine; locks are released within one bounded call, so Close's barrier passes;
time passes (`CoolDown`). Nothing obliges a user to send a request, a stage to
report progress, or the process to crash or exit. Weak fairness is enough, because no
competitor can disable one of these steps for ever.

`RoomRecording!Fairness`: a recorder's goroutine and a removal in progress go on when they can
(`ClosedEnds` needs no more). No room has to change, no user has to act and no stream has to end.

`HLSJobs!Fairness`: a goroutine that can go on does; a conversion ends, since ffmpeg exits or the
first-segment and progress timers fire; a stage that holds the budget ends. Nothing is assumed of
requests, the janitor, the clock or `Close`, and nothing makes a stage ask for the budget or stop
asking. The budget is not fair between its users: `AcceptedJobEnds` excepts runs in which others
take it beside a waiting job again and again for ever.

`RoomPolling!Fairness`: time passes, schedulers and goroutines go on, requests come back. Only
`Pass` is strongly fair: of the goroutines woken when the limit allows an access, none loses every
time. The code has no queue at the limiter, so this is an assumption about the Go scheduler; with
weak fairness alone a goroutine may starve behind others that always pass first.

`PlaybackPublication` and `RecordingCatalog` state no fairness: what must eventually
happen there is a matter of when a user or a task comes again. `QuietScanCatchesUp` says of every
completed scan what a liveness property would say of the next one.

### Findings

Four statements of comments and documents are not what the code does. Each is a run
that TLC refutes, and `PROJECT.json` quotes the statement and the lines.

1. A cancellation in the window between the final write and the clean-up of an
   execution is acknowledged and lost (`pipeline/manager.go:389`).
2. A listener started through the HTTP interface takes the request's context and
   stops polling when the request is answered (`servers/handler.go:431`).
3. A restart overtaken by another restart or by a removal leaves two downloads of
   one room (`recorders/manager.go:205-210`). `OneDownloadUnlessOvertaken`, which is also proved,
   says that nothing else does.
4. A rollback that has found no commit removes the target after another worker has committed it
   and deleted its source (`pkg/playbackasset/publish.go:131-142`).

Others were met while reading, and are not runs; `hazards` has their lines.

- Two overlapping retries of a history task let two history tasks run at once
  (`pipeline/manager.go:427`: the write is unconditional and holds no lock): `overtaken` in
  `HistoryOneAtATime`. A history task deleted between `RoundFetch` and `RoundMark` loses its mark
  and runs ungated.
- The timer for the maximal duration is not re-armed, so a stream is split only once
  (`recorders/manager.go:181`).
- `forceRefresh` (`servers/handler.go:462-468`) is meant to ignore the platform's limit; it
  marks an access as just made, so the request that follows waits the whole limit.
- Every update of the configuration removes the limit of each platform that
  has no entry in it (`configs/config.go:1109-1128`), also the default given at start-up
  (1096-1097), while an entry of zero seconds keeps the old limit: `ago = None` in `LimitKept`.
- A room added over HTTP has a poll scheduler with the context of that request
  (`servers/handler.go:685`): `over` in `AskingEnds`.
- Once another file was catalogued under a source's name, `pkg/recordingcatalog/store.go:208`
  gives the recording a version made of that file's identity, and its product can no longer be
  played: `ManifestHolds` in `ScanKeepsServed`.
- The rows of one file may belong to two recordings: a product scanned under a foreign name while its
  manifest did not hold gets a recording of its own there, and keeps the row of its source's
  recording under its old name. Of such rows the last in the order of paths decides
  (`pkg/recordingcatalog/store.go:125`), so that a scan may move a file that is being served to
  the other recording, and withdraw it: `Undivided`. Two files of one recording overwrite its version
  in the same order: `OnlyFile`. Both take more renames than the run allows; they were found by
  proving `ScanKeepsServed`.
- A crash between the capture and the removal of a file leaves it in a `.bilive-delete-*`
  directory that no scan looks into: `quarantine` in `KeptSomewhere`.
- `putRawConfig` (`servers/handler.go:1388`) and the restore of a backup replace the configuration
  outside the mutex that serialises every other update.

## Proofs

Every theorem holds for any finite sets of the constants and any bounds, under the `ASSUME` of
its module. Each invariant was checked by TLC on the instances above before it was proved.

### PipelineManager_proof

`TypeCorrect` and all seven safety properties. `IInv` serves `OneExecutor`, `SlotBound` and
`CloseQuiesces`, none of which is inductive:

- `LockOwned`: `scheduleMu` is held by exactly the round or the cancellation in
  progress;
- `SlotsCounted`: what a round has registered and may still register fits into the slots it
  counted: tasks unregistered meanwhile only make room, and nobody else registers;
- `WorkersRegistered`: the task of a busy goroutine is registered, for that goroutine
  only, and the task a round has registered has no goroutine yet. It is what makes a round's
  check of `runningTasks`, and not of the row, the right one;
- `BarrierPassed`: behind Close's barrier no round is in progress, so
  `wg.Wait` sees every `wg.Add`.

`SlotBound` then follows from the injection of busy goroutines into registered
tasks, and the others directly. `QueueInv` relates the rows to them:

- `DownIsIdle`: a process that is down has no goroutine, lock or mark;
- `RowsFollow`: the row of a task a round is about to mark still waits, and the row of one
  that executes is what its execution wrote, unless a stale request overtook it;
- `RunningRowOwned`, `RegisteredExecutes`, `PauseMarkOwned`. The clean-up of an execution unregisters
  in the same step whether its last write succeeded, failed or was never reached, for a panic; the
  latter two put the task into `unsaved`;
- `HistoryConfirmed`, `HistoryAlone`: an executing history task has its mark, and a round
  that has admitted one knows of no other.

Each has one lemma with one case per group of actions. `EndedStaysEnded` is an action property
that follows from both invariants (`EndedStep`).

`KeepsLifecycleCorrect` is the refinement of `TaskLifecycle`. `RoundLifecycle`, `WorkerLifecycle`,
`RequestLifecycle` and `LifeLifecycle` name the abstract action of every action of the queue, or
say that it is invisible. Both invariants are needed: `SlotsCounted` and `WorkersRegistered` for the
abstract guard of a start, `RowsFollow` for the row it starts from, `LockOwned` for a cancellation,
`BarrierPassed` for the end of Close.

### RoomRecording_proof

`TypeCorrect` and the four safety properties of `room_recording`. The inductive invariant
consists of

- `RecorderPositions`: an object that a restart still works on has not been started, one
  that attempts to record has been, and one that downloads has a parser;
- `ReplacedUnregistered`: the recorder a restart is going to close is never the registered
  one, so closing it outside the lock does not hurt what is registered;
- `RestartOwned`: a recorder in restart is registered, or was overtaken (`disowned`);
- `RegisteredAlive` and `RunningOwned` themselves. The first has two exceptions, a panic and an ended
  request, and `RequestKept` says of the second that it is settled when a recorder is registered;
  it needs listeners and recorders to be different objects (`RoomAssumption`);
- `CloseStops`: in a stopped recorder that nobody is closing any more, an installed parser
  has been told to stop.

`StepsAreOwn` reduces the next-state relation to the steps that touch a recorder object;
each part then has one lemma with one case per such step. `OneDownloadCorrect` combines
them: whatever downloads is registered, or is replaced by the registered recorder, which
has then not been started.

### HLSJobs_proof

`TypeCorrect` and the six safety properties. `IInv` consists of

- `Types`: counters are integers; that none goes below zero follows from what they count;
- `Waiting`: the queue holds different jobs that have not been started;
- `AtWork`: a job that waits or converts is registered for its key and not finished;
- `Leases` and `Counted`: a lease is on a registered job that has become playable, and
  `readers[k]` is the number of leases on `k`, so a retry, an expiry or the janitor, which all ask
  for zero readers, never meets one.

`DispatchQueue` and `DispatchJobs` say once what `dispatchLocked` does to queue and jobs. `Limits`
goes along with `IInv`: what callers hand over is a positive concurrency, a length of the queue and a
limit of the budget, and no more is known of them.

`SlotsAccountedCorrect` has two halves. `SlotsCounted` is an invariant of its own: the counters are
cardinalities, by the cardinality theorems, and a waiting job stands beside a free slot only after a
raise that dispatched nobody (`raised`, which `NoneMoves` follows through every call of `EnsureJob`).
`AdmittedWithinLimits` is about steps: `WorkerSlots` and `LeaveSlots`, `AcceptSlots` and
`BudgetAdmits` show for each step that counts up that it asked the limit in force, or, for the budget,
the limit of the one that takes it.

`Directories` is the invariant for `CompletedIsWhole`: a playlist that ends is that of a whole product,
or its conversion is about to write the marker.

### RoomPolling_proof

`TypeCorrect` and `LimitKeptCorrect`. The invariant `OneLimiter` says that, while the platform has
kept its limiter, every goroutine that waits has looked up the one in force, and that the last
access is as long ago as the limiter remembers.

### PlaybackPublication_proof

`TypeCorrect`, `NeverLoseBothCorrect` and the refinement `PublishesAtomicallyCorrect`; the last two
assume `~FaultsWhenShared`, without which both are false (finding 4). `StepKinds` reduces the
operations of a worker to thirteen kinds of steps, by what they show of the directory: most are
`Quiet`, the others link, commit, roll back or delete. `IInv` consists of

- `FilesKnown`: a worker that has a product in hand made it of the source and version it started
  with, and a manifest names the product of a source;
- `DiskBehind`: what the disk lacks is a manifest or a removal, never the reverse;
- `GoneSettled`: `NeverLoseBoth`, of the directory and of the disk, which is what makes it survive a
  loss of power;
- `DeletionProved`: whoever is about to delete a source stands on its product, and on the disk's
  copy once it has looked again;
- `RollbackJustified`: a rollback has nobody beside it, or a reason that lasts: another manifest,
  or a source that changed. It is what separates a rollback from a deletion of the same
  product, together with `VersionShared`: two workers at one version of a source, of which nobody
  rewrites it meanwhile.

For the refinement, `ExecuteAtomic` and `PowerLossAtomic` name the abstract step of each kind: a
link or a commit publishes or stutters, a rollback undoes, a loss of power may undo, publish again or
restore a source, and everything else stutters.

### PlaybackRecovery_proof

`StaysRecoverableCorrect`, also under `~FaultsWhenShared`. `ActsCorrect` reduces the operations of a
worker to fourteen kinds of steps, this time by what they do to intent, temporary files and
what is synced (`Begins` to `Finishes`). `RInv` adds to `IInv`

- `OwnPlaces`, `ProductsNamed`, `OwnedOnce`: who has made a product, until when its temporary file
  is his, and that before its intent is linked nobody else has met it;
- `VersionsGrow`: a source is rewritten or deleted, and only its deletion is ever behind on disk;
- `TempKept`: until a product is linked, its temporary file is there;
- `TargetStands`, `CommitStands`: a product that was linked or committed stands for whoever has it
  in hand, unless another one took its place, or its intent is about to put it back;
- `PassedFinds`: nobody passes the recovery while an intent finds nothing. It is what keeps an
  intent without its file from being handled by a worker that would take the target away;
- `RollbackAlone`: a rollback that has somebody beside it takes no committed product of the same
  origin away;
- `DeletedFinds`: a source that a loss of power may bring back finds its product again;
- `SyncedFirst`: the temporary file is on disk before the intent that names it, and the target or
  its intent before the manifest.

Each part has its lemma over the kinds (`OwnPlacesStep` to `SyncedFirstStep`),
and `SourceChangesKeeps` and `DiesKeeps` cover the environment. The property itself is about steps:
`ActsRecoverable` and `PowerLossRecoverable`. The exception of an unsynced manifest is owed to this
proof: `SyncedFirst` is not kept without it, and TLC then found the behaviour with a second crash.

### RecordingCatalog_proof

`TypeCorrect` and every property but `ScanKeepsServed`, which has the next module. `Good`, the invariant the others rest on,
consists of `TypeOK` and

- `Numbered`: a row that is present belongs to a recording, a stage past its entry has one, and a
  manifest is seen with its target. Without it `Apply` could join a product to no recording;
- `Identified`: a file has an identity, also in the hands of a deletion, which holds one exactly
  while it judges it.

The lemmas `NewRows` to `JoinedRows` say what a scan makes of the tables: identities without a row
are numbered one after the other without gaps (`RanksUsed`, from an injection between finite sets
of one size), so that `recordings` stays a sequence, and each name that was seen gets the recording
of its identity. Then

- `KeptSomewhere` and `RecordingUntouched` are inductive together with `Good`. The first is about
  deletions: `RenameType` gives what a rename replaces, which leaves `kept`, and `WriteStep` that what
  a recorder writes follows the file to wherever it has been renamed, with its identity;
- `StatsTrusted` follows from `Counts`: counts and rows agree until the first name of a deletion is
  gone, which is when its end will set the status `pending`;
- `IdentityKeepsRecording` is `SeenRows` and `JoinedRows` applied to the one step that moves rows;
- `QuietScanCatchesUp` follows from `SeenIsDisk`: `s.mu` keeps scans and deletions apart, and what
  an undisturbed scan has seen is on disk.

### CatalogServing_proof

`ScanKeepsServedCorrect`. A manifest knows files by their time only, and a row knows a recording by
the identity of a file; what holds them together is the invariant `Serving`:

- `OneTime`: among all files on disk, in rows, in a scan, in proofs, in the stage and in the hands of
  a deletion (`Known`), no two were last written at one time, and none later than the clock. A recorder
  that writes to a file that was renamed meanwhile changes it there;
- `Manifested`: the source of a manifest has a row, and a product was proved under its manifest: if
  the manifest beside it is still the one of the proven file, it names the proven source;
- `Proved`: a source that is its own product is never proved by another file;
- `Placed`: rows that are present are of files, and only sources are recorded;
- `SeenManifest`: a scan on a disk that stood still has seen the manifest exactly if it holds.

`ProductKept` and `SourceKept` then follow the transaction of a scan through its two loops, for a
product under its manifest and for a source that is its own product. Each conjunct of
`SourceKnown` is used there, and each was missing from the property before: TLC had not met
the histories that need it (see the list of findings).

### Only model-checked

- Liveness (`WaitingTried`, `HistoryTried`, `CloseReturns`, `ClosedEnds`, `AcceptedJobEnds`,
  `AskingEnds`), because fairness and `ENABLED` are beyond the prover.

Every safety property of a run that passes is a theorem. No module uses a recursive operator, and no theorem needs induction over data.

## Plan

Done: the core (`PipelineManager`, `RoomRecording`), the playback products
(`PlaybackPublication`, its abstract specification and the refinement), the HLS caches, the
catalog, the polling, and the proofs above. Left, in order of importance:

1. `LiveSessions` (`livestate`): sessions and heartbeats under events without an order; what reading
   it showed is below.
2. `ConfigStore`: `Update`, `UpdateCAS`, `UpdateWithRetry` against the two writers that
   bypass `updateMu`.
3. Pure operators against reference definitions: merging of parallel stages' files
   (`deduplicateFiles`), choice of stream (`selectPreferredStream`).

## Not modelled

`PROJECT.json` gives every component's status. Left out altogether:

- *Live state* (`livestate/`). Each event is handled by a goroutine of its own. The stop of a
  restart may be handled after the start that follows it, so `is_recording` is false while the
  room is recorded; opening the video library resets it for a recorder whose file is
  empty; recovery then skips the room, and its session stays open. A crash between
  `SetRecordingStatus` and the first heartbeat ends a session before its start. Nothing in the
  documents promises more, so a model would have no property to show beyond these.
- *Self update.* `programUpdateDisabled` is set in this build (`servers/update_handler.go:43`).
- *Configuration and start-up, metadata, migration, reconciliation.* Almost all data; the
  concurrent writers of the configuration are a hazard without a property. The backup of a
  migration is reached by no caller in this build.
- *Other parsers* share the interface of the ffmpeg parser; their work is byte formats, except that
  the file they hold open is in `RecordingCatalog`.
- *Persistent HLS* is published like an MP4 product, with a directory for a file.
- *Platform clients, probes, proxies, the web interface*: protocols and formats of third
  parties, or clients of the HTTP interface.

Of the parts that are modelled partly, the shutdown of both room managers, `replaceListener`,
sessions, server-sent events, the building of history previews, the merging of stage results and
the choice of streams and file names are missing. `WrappedLive.Close` is called by nobody. A slow
direct `GetInfo` may deliver an older state than one already shown: results of polls are not
values in `RoomPolling`. Of the data races of the code the models contain the one
that has an effect on control, on the start time of a recorder (`recorders/recorder.go:439`), as a
timer that may expire at any moment.
