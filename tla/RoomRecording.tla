---------------------------- MODULE RoomRecording ----------------------------
(***************************************************************************)
(* How one room comes to be recorded: its listener polls the platform and  *)
(* dispatches events, the recorder manager turns events into recorders,    *)
(* and each recorder runs one download process after another.              *)
(*                                                                         *)
(* Events are handled by a new goroutine each, so they may overtake each   *)
(* other.  A restart (room name changed, maximal duration reached, stream  *)
(* switched by a user) swaps the registered recorder under the manager's   *)
(* lock and does the rest outside it.  Rooms do not interact: the maps of  *)
(* both managers are keyed by room, so one room shows every behaviour.     *)
(***************************************************************************)
EXTENDS Naturals, FiniteSets

CONSTANTS
  Listeners,        \* listener objects; closed ones are reused
  Recorders,        \* recorder objects; finished ones are reused
  Titles, Offline,  \* what a poll may see: a title while live, or Offline
  SplitOnRename,    \* VideoSplitStrategies.OnRoomNameChanged
  MaxDurationSet,   \* VideoSplitStrategies.MaxDuration # 0
  MaxChanges,       \* bound on changes of the room and on expiries of MaxDuration
  MaxRequests,      \* bound on user requests
  None

ASSUME RoomAssumption ==
  /\ IsFiniteSet(Listeners) /\ IsFiniteSet(Recorders)
  /\ None \notin Listeners \cup Recorders /\ Listeners \cap Recorders = {}
  /\ Offline \notin Titles
  /\ SplitOnRename \in BOOLEAN /\ MaxDurationSet \in BOOLEAN
  /\ MaxChanges \in Nat /\ MaxRequests \in Nat

VARIABLES
  view,        \* the room as the platform shows it
  listener,    \* the registered listener
  lstate,      \* per listener: its state, ...
  lpc,         \* ... the position of its run goroutine, ...
  known,       \* ... the status it compares with ...
  fetched,     \* ... and the one it has just fetched
  inflight,    \* per event type: dispatched events not yet handled
  saver,       \* the registered recorder
  removing,    \* the recorder RemoveRecorder is closing under the lock
  rstate,      \* per recorder: its state, ...
  rpc,         \* ... the position of its goroutine (or of its restart), ...
  parser,      \* ... its parser, ...
  replaces,    \* ... the recorder whose place it takes
  onRequest,   \* listeners and recorders whose context is an HTTP request's
  aged,        \* the registered recorder's StartTime is MaxDuration ago
  cronArmed,   \* cronRestart timers
  cronDue,     \* cronRestart calls that have decided to restart
  changes, requests,
  disowned     \* recorders replaced or removed before they were started

room == <<view, changes>>
listening == <<listener, lstate, lpc, known, fetched>>
recorder == <<rstate, rpc, parser, replaces, aged>>
crons == <<cronArmed, cronDue>>
vars == <<room, listening, inflight, saver, removing, recorder, onRequest, crons,
          requests, disowned>>

Views == Titles \cup {Offline}
Events == {"LiveStart", "LiveEnd", "RoomNameChanged", "ListenStop"}

TypeOK ==
  /\ view \in Views
  /\ listener \in Listeners \cup {None}
  /\ lstate \in [Listeners -> {"begin", "running", "stopped"}]
  /\ lpc \in [Listeners -> {"none", "poll", "process", "over"}]
  /\ known \in [Listeners -> Views] /\ fetched \in [Listeners -> Views]
  /\ inflight \in [Events -> Nat]
  /\ saver \in Recorders \cup {None} /\ removing \in Recorders \cup {None}
  /\ rstate \in [Recorders -> {"begin", "running", "stopped"}]
  /\ rpc \in [Recorders -> {"none", "swapped", "closing", "retry", "setup", "parse",
                            "recording", "over", "panicked"}]
  /\ parser \in [Recorders -> {"none", "ready", "stopped"}]
  /\ replaces \in [Recorders -> Recorders \cup {None}]
  /\ onRequest \subseteq Listeners \cup Recorders
  /\ aged \in BOOLEAN /\ disowned \subseteq Recorders
  /\ cronArmed \in Nat /\ cronDue \in Nat
  /\ changes \in Nat /\ requests \in Nat
  /\ removing # None => saver = removing
  /\ \A r \in Recorders : rpc[r] \in {"swapped", "closing"} => replaces[r] # None

Init ==
  /\ view \in Views
  /\ listener = None
  /\ lstate = [l \in Listeners |-> "begin"]
  /\ lpc = [l \in Listeners |-> "none"]
  /\ known = [l \in Listeners |-> Offline] /\ fetched = known
  /\ inflight = [e \in Events |-> 0]
  /\ saver = None /\ removing = None
  /\ rstate = [r \in Recorders |-> "begin"]
  /\ rpc = [r \in Recorders |-> "none"]
  /\ parser = [r \in Recorders |-> "none"]
  /\ replaces = [r \in Recorders |-> None]
  /\ onRequest = {} /\ aged = FALSE /\ disowned = {}
  /\ cronArmed = 0 /\ cronDue = 0 /\ changes = 0 /\ requests = 0

-----------------------------------------------------------------------------
(* Events *)

Dispatched(E) == [e \in Events |-> inflight[e] + (IF e \in E THEN 1 ELSE 0)]

Handled(e) == inflight[e] > 0 /\ inflight' = [inflight EXCEPT ![e] = @ - 1]

\* status.Diff, and the event processInfo dispatches for it
Diff(old, new) ==
  CASE old = Offline /\ new # Offline -> {"LiveStart"}
    [] old # Offline /\ new = Offline -> {"LiveEnd"}
    [] old # Offline /\ new # Offline /\ old # new /\ SplitOnRename -> {"RoomNameChanged"}
    [] OTHER -> {}

-----------------------------------------------------------------------------
(* Listeners *)

RoomChanges ==
  /\ changes < MaxChanges /\ changes' = changes + 1
  /\ view' \in Views \ {view}
  /\ UNCHANGED <<listening, inflight, saver, removing, recorder, onRequest, crons,
                 requests, disowned>>

IdleListeners == {l \in Listeners : lpc[l] = "none" \/ (lpc[l] = "over" /\ l # listener)}

\* AddListener, and Listener.Start with its first refresh, which may fail.  The
\* program adds its configured room once, with its own context; every other
\* call comes from an HTTP handler, with the context of the request.
AddListener ==
  /\ listener = None /\ IdleListeners # {}
  /\ LET l == CHOOSE l \in IdleListeners : TRUE
         startup == requests = 0 /\ lpc = [k \in Listeners |-> "none"] IN
     /\ startup \/ requests < MaxRequests
     /\ requests' = IF startup THEN 0 ELSE requests + 1
     /\ onRequest' = IF startup THEN onRequest \ {l} ELSE onRequest \cup {l}
     /\ listener' = l
     /\ lstate' = [lstate EXCEPT ![l] = "running"]
     /\ lpc' = [lpc EXCEPT ![l] = "poll"]
     /\ \E new \in {view, Offline} :          \* Offline: also a failed refresh
          /\ known' = [known EXCEPT ![l] = new]
          /\ inflight' = Dispatched(Diff(Offline, new))
  /\ UNCHANGED <<room, fetched, saver, removing, recorder, crons, disowned>>

RemoveListener ==
  /\ listener # None
  /\ requests < MaxRequests /\ requests' = requests + 1
  /\ listener' = None
  /\ lstate' = [lstate EXCEPT ![listener] = "stopped"]
  /\ inflight' = Dispatched({"ListenStop"})
  /\ UNCHANGED <<room, lpc, known, fetched, saver, removing, recorder, onRequest, crons,
                 disowned>>

\* One turn of run: it stops when the listener is closed or when its context is
\* done, else it waits for the next result.  A failed request is repeated.
Poll(l) ==
  /\ lpc[l] = "poll"
  /\ \/ /\ lstate[l] = "stopped" \/ l \in onRequest
        /\ lpc' = [lpc EXCEPT ![l] = "over"]
        /\ UNCHANGED fetched
     \/ /\ lstate[l] = "running"
        /\ fetched' = [fetched EXCEPT ![l] = view]
        /\ lpc' = [lpc EXCEPT ![l] = "process"]
  /\ UNCHANGED <<room, listener, lstate, known, inflight, saver, removing, recorder,
                 onRequest, crons, requests, disowned>>

\* processInfo; the listener may have been closed since the result arrived.
Process(l) ==
  /\ lpc[l] = "process"
  /\ inflight' = Dispatched(Diff(known[l], fetched[l]))
  /\ known' = [known EXCEPT ![l] = fetched[l]]
  /\ fetched' = [fetched EXCEPT ![l] = Offline]
  /\ lpc' = [lpc EXCEPT ![l] = "poll"]
  /\ UNCHANGED <<room, listener, lstate, saver, removing, recorder, onRequest,
                 crons, requests, disowned>>

-----------------------------------------------------------------------------
(* The recorder manager *)

\* Everybody but RemoveRecorder holds the manager's lock within one step only.
UnlockedAlways == TRUE     \* mutant: RemoveRecorder does not hold the lock
Unlocked == removing = None

\* Recorder objects that nothing refers to any more.
Fresh ==
  {r \in Recorders : /\ rpc[r] \in {"none", "over", "panicked"} /\ r # saver
                     /\ \A s \in Recorders : replaces[s] # r}

\* Close: only a running recorder is stopped; the parser is stopped next.
Closed(r) == IF rstate[r] = "running" THEN [rstate EXCEPT ![r] = "stopped"] ELSE rstate

\* mutant: Stop before the process has been started has no effect
ParserStoppedIfStarted(r) ==
  IF parser[r] = "ready" /\ rpc[r] = "recording"
    THEN [parser EXCEPT ![r] = "stopped"] ELSE parser
ParserStopped(r) == IF parser[r] = "ready" THEN [parser EXCEPT ![r] = "stopped"] ELSE parser

\* The object r becomes the registered recorder and is started.
Added(r) ==
  /\ saver' = r
  /\ rstate' = [rstate EXCEPT ![r] = "running"]
  /\ rpc' = [rpc EXCEPT ![r] = "retry"]
  /\ parser' = [parser EXCEPT ![r] = "none"]
  /\ onRequest' = onRequest \ {r}
  /\ aged' = FALSE /\ disowned' = disowned \ {r}

\* LiveStart: AddRecorder creates, registers and starts under the lock.
AddRecorder ==
  /\ Handled("LiveStart") /\ Unlocked
  /\ \/ /\ saver # None                        \* ErrRecorderExist
        /\ UNCHANGED <<saver, recorder, onRequest, cronArmed, disowned>>
     \/ /\ saver = None /\ Fresh # {}
        /\ Added(CHOOSE r \in Fresh : TRUE)
        /\ cronArmed' = IF MaxDurationSet THEN cronArmed + 1 ELSE cronArmed
        /\ UNCHANGED replaces
  /\ UNCHANGED <<room, listening, removing, cronDue, requests>>

\* The object r becomes the registered recorder and is not started yet.
Swapped(r) ==
  /\ saver' = r
  /\ rstate' = [rstate EXCEPT ![r] = "begin"]
  /\ rpc' = [rpc EXCEPT ![r] = "swapped"]
  /\ parser' = [parser EXCEPT ![r] = "none"]
  /\ replaces' = [replaces EXCEPT ![r] = saver]
  /\ aged' = FALSE
  /\ disowned' = (disowned \ {r}) \cup (IF rstate[saver] = "begin" THEN {saver} ELSE {})

\* RestartRecorder, the part under the lock: the new recorder takes the place
\* of the old one.
RestartSwap ==
  /\ Unlocked /\ saver # None /\ Fresh # {}
  /\ Swapped(CHOOSE r \in Fresh : TRUE)
  /\ UNCHANGED <<room, listening, removing>>

\* RoomNameChanged is ignored when there is no recorder.
RestartOnRename ==
  /\ Handled("RoomNameChanged")
  /\ \/ RestartSwap /\ onRequest' = onRequest \ {saver'}
     \/ /\ Unlocked /\ saver = None
        /\ UNCHANGED <<room, listening, saver, removing, recorder, onRequest, disowned>>
  /\ UNCHANGED <<crons, requests>>

\* switchStream: the new recorder is started with the context of the request.
RestartOnRequest ==
  /\ requests < MaxRequests /\ requests' = requests + 1
  /\ RestartSwap /\ onRequest' = onRequest \cup {saver'}
  /\ UNCHANGED <<inflight, crons>>

\* cronRestart ends without a recorder, waits on while it is young, and decides
\* to restart when it has recorded for MaxDuration.
CronCheck ==
  /\ cronArmed > 0 /\ Unlocked
  /\ saver = None \/ aged
  /\ cronArmed' = cronArmed - 1
  /\ cronDue' = IF saver = None THEN cronDue ELSE cronDue + 1
  /\ UNCHANGED <<room, listening, inflight, saver, removing, recorder, onRequest,
                 requests, disowned>>

\* ... whichever recorder is registered by then; it does not re-arm itself.
CronRestart ==
  /\ cronDue > 0 /\ cronDue' = cronDue - 1
  /\ \/ RestartSwap /\ onRequest' = onRequest \ {saver'}
     \/ /\ Unlocked /\ saver = None
        /\ UNCHANGED <<room, listening, saver, removing, recorder, onRequest, disowned>>
  /\ UNCHANGED <<inflight, cronArmed, requests>>

\* The rest of RestartRecorder, outside the lock: close the old recorder ...
RestartCloseRegistered(r) ==     \* mutant: looks the recorder up again
  /\ rpc[r] = "swapped" /\ saver # None
  /\ rstate' = Closed(saver)
  /\ rpc' = [rpc EXCEPT ![r] = "closing"]
  /\ UNCHANGED <<room, listening, inflight, saver, removing, parser, replaces, aged,
                 onRequest, crons, requests, disowned>>

RestartClose(r) ==
  /\ rpc[r] = "swapped"
  /\ rstate' = Closed(replaces[r])
  /\ rpc' = [rpc EXCEPT ![r] = "closing"]
  /\ UNCHANGED <<room, listening, inflight, saver, removing, parser, replaces, aged,
                 onRequest, crons, requests, disowned>>

\* ... stop its parser, and start the new one.
RestartStart(r) ==
  /\ rpc[r] = "closing"
  /\ parser' = IF rstate[replaces[r]] = "stopped" THEN ParserStopped(replaces[r]) ELSE parser
  /\ rstate' = [rstate EXCEPT ![r] = "running"]
  /\ rpc' = [rpc EXCEPT ![r] = "retry"]
  /\ replaces' = [replaces EXCEPT ![r] = None]
  /\ UNCHANGED <<room, listening, inflight, saver, removing, aged, onRequest, crons,
                 requests, disowned>>

\* LiveEnd and ListenStop: RemoveRecorder closes the recorder under the lock ...
RemoveRecorder ==
  /\ Unlocked
  /\ \E e \in {"LiveEnd", "ListenStop"} : Handled(e)
  /\ \/ saver = None /\ UNCHANGED <<removing, rstate, disowned>>
     \/ /\ saver # None
        /\ removing' = saver
        /\ rstate' = Closed(saver)
        /\ disowned' = disowned \cup (IF rstate[saver] = "begin" THEN {saver} ELSE {})
  /\ UNCHANGED <<room, listening, saver, rpc, parser, replaces, aged, onRequest, crons,
                 requests>>

\* ... stops its parser and forgets it.
AfterRemovalKept == saver     \* mutant: the map entry is not deleted
AfterRemoval == None

RemoveFinish ==
  /\ removing # None
  /\ parser' = IF rstate[removing] = "stopped" THEN ParserStopped(removing) ELSE parser
  /\ saver' = AfterRemoval /\ removing' = None /\ aged' = FALSE
  /\ UNCHANGED <<room, listening, inflight, rstate, rpc, replaces, onRequest, crons,
                 requests, disowned>>

-----------------------------------------------------------------------------
(* A recorder's goroutine: run and tryRecord *)

Goes(r, from, to) == rpc[r] = from /\ rpc' = [rpc EXCEPT ![r] = to]

OnlyRecorder == UNCHANGED <<room, listening, inflight, saver, removing, rstate, replaces,
                            onRequest, crons, requests, disowned>>

\* Between two attempts, and while it waits after a short one, run looks at the
\* stop channel; after a short one it also looks at its context.
RunStops(r) ==
  /\ rstate[r] = "stopped" \/ r \in onRequest
  /\ Goes(r, "retry", "over")
  /\ parser' = [parser EXCEPT ![r] = "none"] /\ UNCHANGED aged
  /\ OnlyRecorder

\* A panic in tryRecord, before the download or after it: bilisentry.Go swallows
\* it, and nobody learns that the goroutine is gone.
RunPanics(r) ==
  /\ Goes(r, "retry", "panicked") \/ Goes(r, "setup", "panicked")
  /\ UNCHANGED <<parser, aged>> /\ OnlyRecorder

\* tryRecord has a stream address and a parser; an attempt without is repeated.
Prepare(r) ==
  /\ rstate[r] = "running" /\ Goes(r, "retry", "setup")
  /\ UNCHANGED <<parser, aged>> /\ OnlyRecorder

\* setAndCloseParser: under parserLock a stopped recorder refuses the parser.
SetParserUnchecked(r) ==     \* mutant: installs it whatever the state
  /\ Goes(r, "setup", "parse")
  /\ parser' = [parser EXCEPT ![r] = "ready"]
  /\ aged' = (aged /\ r # saver)
  /\ OnlyRecorder

SetParser(r) ==
  /\ \/ rstate[r] = "stopped" /\ Goes(r, "setup", "retry") /\ UNCHANGED <<parser, aged>>
     \/ /\ rstate[r] # "stopped" /\ Goes(r, "setup", "parse")
        /\ parser' = [parser EXCEPT ![r] = "ready"]
        /\ aged' = (aged /\ r # saver)      \* startTime is set again
  /\ OnlyRecorder

\* ParseLiveStream: a parser that was stopped before it started refuses.
Launch(r) ==
  /\ \/ parser[r] = "stopped" /\ Goes(r, "parse", "retry")
     \/ parser[r] = "ready" /\ Goes(r, "parse", "recording")
  /\ UNCHANGED <<parser, aged>> /\ OnlyRecorder

\* A stopped parser returns; a stream may also end by itself.
StreamEnds(r) ==
  /\ Goes(r, "recording", "retry")
  /\ UNCHANGED <<parser, aged>> /\ OnlyRecorder

ParserReturns(r) == parser[r] = "stopped" /\ StreamEnds(r)

\* MaxDuration has passed since the registered recorder's startTime.
Ages ==
  /\ MaxDurationSet /\ saver # None /\ ~aged /\ aged' = TRUE
  /\ changes < MaxChanges /\ changes' = changes + 1
  /\ UNCHANGED <<view, listening, inflight, saver, removing, rstate, rpc, parser, replaces,
                 onRequest, crons, requests, disowned>>

-----------------------------------------------------------------------------
EventStep == AddRecorder \/ RestartOnRename \/ RemoveRecorder \/ RemoveFinish

RestartStep(r) == RestartClose(r) \/ RestartStart(r)

RunStep(r) == RunStops(r) \/ Prepare(r) \/ SetParser(r) \/ Launch(r) \/ ParserReturns(r)

\* One goroutine at a time works on a recorder: its restart, then its run.
RecorderStep(r) == RestartStep(r) \/ RunStep(r)

ListenerStep(l) == Poll(l) \/ Process(l)

Next ==
  \/ RoomChanges
  \/ AddListener \/ RemoveListener \/ RestartOnRequest
  \/ \E l \in Listeners : ListenerStep(l)
  \/ EventStep \/ Ages \/ CronCheck \/ CronRestart
  \/ \E r \in Recorders : RecorderStep(r) \/ StreamEnds(r) \/ RunPanics(r)

Spec == Init /\ [][Next]_vars

\* What is locked is unlocked again, and the goroutine that works on a recorder
\* goes on.  Nobody has to change the room, to send requests, to poll, to deliver
\* an event, or to end a stream.
Fairness ==
  /\ WF_vars(RemoveFinish)
  /\ \A r \in Recorders : WF_vars(RecorderStep(r))

FairSpec == Spec /\ Fairness

-----------------------------------------------------------------------------
(* Safety *)

InRestart(r) == rpc[r] \in {"swapped", "closing"}

\* The registered recorder is never a stopped one, and its goroutine is at work:
\* it records or tries to, or the restart that registered it has still to start
\* it.  GetRecorder and the status broadcast show a dead recorder as the room's
\* in two cases only, and then call it running: its goroutine panicked, or it was
\* started by a request whose context has ended (recorder.go:664).
AtWork(r) == rpc[r] \in {"retry", "setup", "parse", "recording"}

RegisteredAlive ==
  saver # None /\ removing = None =>
    \/ rstate[saver] = "begin" /\ InRestart(saver)
    \/ /\ rstate[saver] = "running"
       /\ \/ AtWork(saver) \/ rpc[saver] = "panicked"
          \/ rpc[saver] = "over" /\ saver \in onRequest

\* A running recorder is registered, or is about to be closed by the restart
\* that replaced it, unless it was itself replaced or removed before its start:
\* RestartRecorder leaks a recorder only when it is overtaken outside the lock.
RunningOwned ==
  \A r \in Recorders : rstate[r] = "running" =>
    \/ r = saver \/ r \in disowned
    \/ \E s \in Recorders : rpc[s] = "swapped" /\ replaces[s] = r

Downloading == {r \in Recorders : rpc[r] = "recording" /\ parser[r] # "stopped"}

\* Unless that happened, one room never has two downloads that nobody has told
\* to stop, whatever events, timers and requests interleave.
OneDownloadUnlessOvertaken == disowned = {} => Cardinality(Downloading) <= 1

\* Once Close has returned, no download of that recorder goes on unstopped,
\* however Close meets the installation of a new parser.
CloseReaches ==
  \A r \in Recorders :
    rstate[r] = "stopped" /\ removing # r
      /\ (\A s \in Recorders : replaces[s] # r)
      => r \notin Downloading

\* A recorder that was closed ends its goroutine: no wait, no parser that is
\* being created and no download that ignores Stop keeps it alive.
ClosedEnds ==
  \A r \in Recorders : rstate[r] = "stopped" ~> rpc[r] \in {"over", "panicked"}

\* Why these hold: the parts of their inductive invariant.
RecorderPositions ==
  \A r \in Recorders :
    /\ InRestart(r) <=> replaces[r] # None
    /\ InRestart(r) => rstate[r] = "begin"
    /\ rpc[r] \in {"retry", "setup", "parse", "recording"} => rstate[r] # "begin"
    /\ rpc[r] \in {"parse", "recording"} => parser[r] # "none"

ReplacedUnregistered == \A r \in Recorders : replaces[r] # None => replaces[r] # saver

RestartOwned ==
  /\ \A r \in Recorders : InRestart(r) => r = saver \/ r \in disowned
  /\ removing # None => rstate[removing] = "stopped" \/ removing \in disowned

CloseStops ==
  \A r \in Recorders :
    /\ rstate[r] = "stopped" /\ removing # r
    /\ \A s \in Recorders : replaces[s] # r
    /\ rpc[r] \in {"parse", "recording"}
    => parser[r] = "stopped"

IInv == RecorderPositions /\ ReplacedUnregistered /\ RestartOwned /\ RegisteredAlive
        /\ RunningOwned /\ CloseStops

-----------------------------------------------------------------------------
(* What the documents and comments claim *)

\* A poll that fails by cancellation means that the listener is being closed
\* (listener.go:110): the run goroutine of a registered listener does not end.
PollsUntilClosed == \A l \in Listeners : lpc[l] = "over" => lstate[l] = "stopped"

\* Two ffmpeg processes no longer record one room (deployment report, line 11).
OneDownload == Cardinality(Downloading) <= 1
=============================================================================
