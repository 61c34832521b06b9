------------------------- MODULE RoomRecording_proof -------------------------
(***************************************************************************)
(* Theorems about RoomRecording, for any number of listeners and recorders *)
(* and any bounds on the environment.                                      *)
(***************************************************************************)
EXTENDS RoomRecording, FiniteSetTheorems, TLAPS

\* Dispatching and handling events keep the counts in flight natural numbers.
LEMMA EventCounts ==
  ASSUME inflight \in [Events -> Nat]
  PROVE  /\ \A E : Dispatched(E) \in [Events -> Nat]
         /\ \A e \in Events : Handled(e) => inflight' \in [Events -> Nat]
<1>1. \A E : Dispatched(E) \in [Events -> Nat]
  BY DEF Dispatched
<1>2. \A e \in Events : Handled(e) => inflight' \in [Events -> Nat]
  BY DEF Handled
<1>3. QED BY <1>1, <1>2

\* AddRecorder takes a fresh recorder when none is registered.
LEMMA AddStep ==
  ASSUME AddRecorder, saver = None
  PROVE  \E r \in Fresh : Added(r)
BY DEF AddRecorder

\* RestartSwap takes a fresh recorder.
LEMMA SwapStep ==
  ASSUME RestartSwap
  PROVE  \E r \in Fresh : Swapped(r)
BY DEF RestartSwap

\* What a recorder's goroutine does.
Runs(r) == RunStep(r) \/ StreamEnds(r) \/ RunPanics(r)

\* Every action keeps the variables in their types.
THEOREM TypeCorrect == Spec => []TypeOK
<1> USE RoomAssumption DEF TypeOK, Views
<1>1. Init => TypeOK
  <2> SUFFICES ASSUME Init PROVE TypeOK
    OBVIOUS
  <2>1. /\ lstate \in [Listeners -> {"begin", "running", "stopped"}]
        /\ lpc \in [Listeners -> {"none", "poll", "process", "over"}]
        /\ known \in [Listeners -> Views] /\ fetched \in [Listeners -> Views]
        /\ inflight \in [Events -> Nat]
    BY DEF Init
  <2>2. /\ rstate \in [Recorders -> {"begin", "running", "stopped"}]
        /\ rpc \in [Recorders -> {"none", "swapped", "closing", "retry", "setup", "parse",
                                  "recording", "over", "panicked"}]
        /\ parser \in [Recorders -> {"none", "ready", "stopped"}]
        /\ replaces \in [Recorders -> Recorders \cup {None}]
        /\ \A r \in Recorders : rpc[r] = "none"
    BY DEF Init
  <2>3. QED BY <2>1, <2>2 DEF Init
<1>2. TypeOK /\ [Next]_vars => TypeOK'
  <2> SUFFICES ASSUME TypeOK, [Next]_vars PROVE TypeOK'
    OBVIOUS
  <2> USE EventCounts DEF room, listening, recorder, crons
  <2>1. CASE RoomChanges
    BY <2>1 DEF RoomChanges
  <2>2. CASE AddListener
    BY <2>2 DEF AddListener, IdleListeners
  <2>3. CASE RemoveListener
    BY <2>3 DEF RemoveListener
  <2>4. ASSUME NEW l \in Listeners, Poll(l) PROVE TypeOK'
    BY <2>4 DEF Poll
  <2>5. ASSUME NEW l \in Listeners, Process(l) PROVE TypeOK'
    BY <2>5 DEF Process
  <2>6. CASE AddRecorder
    <3>1. Handled("LiveStart") /\ "LiveStart" \in Events
      BY <2>6 DEF AddRecorder, Events
    <3>2. inflight' \in [Events -> Nat]
      BY <3>1
    <3>3. CASE saver # None
      BY <2>6, <3>2, <3>3 DEF AddRecorder
    <3>4. CASE saver = None
      <4>1. PICK r \in Fresh : Added(r)
        BY <2>6, <3>4, AddStep
      <4>2. /\ cronArmed' \in Nat /\ UNCHANGED <<room, listening, removing, cronDue, requests>>
            /\ UNCHANGED replaces
        BY <2>6, <3>4 DEF AddRecorder
      <4>3. QED BY <3>2, <3>4, <4>1, <4>2 DEF Added, Fresh
    <3>5. QED BY <3>3, <3>4
  <2>7. ASSUME RestartSwap, onRequest' \subseteq Listeners \cup Recorders,
               inflight' \in [Events -> Nat], cronArmed' \in Nat, cronDue' \in Nat,
               requests' \in Nat
        PROVE  TypeOK'
    <3>1. PICK r \in Fresh : Swapped(r)
      BY <2>7, SwapStep
    <3>2. UNCHANGED <<room, listening, removing>> /\ removing = None /\ saver \in Recorders
      BY <2>7 DEF RestartSwap, Unlocked
    <3>3. QED BY <2>7, <3>1, <3>2 DEF Swapped, Fresh
  <2>8. CASE RestartOnRename
    <3>1. inflight' \in [Events -> Nat] /\ cronArmed' \in Nat /\ cronDue' \in Nat
          /\ requests' \in Nat
      BY <2>8 DEF RestartOnRename, Events
    <3>2. CASE RestartSwap /\ onRequest' = onRequest \ {saver'}
      BY <2>7, <3>1, <3>2
    <3>3. QED BY <2>8, <3>1, <3>2 DEF RestartOnRename
  <2>9. CASE RestartOnRequest
    <3>1. RestartSwap
      BY <2>9 DEF RestartOnRequest
    <3>2. PICK r \in Fresh : Swapped(r)
      BY <3>1, SwapStep
    <3>3. saver' \in Recorders
      BY <3>2 DEF Swapped, Fresh
    <3>4. QED BY <2>7, <2>9, <3>1, <3>3 DEF RestartOnRequest
  <2>10. CASE CronCheck
    BY <2>10 DEF CronCheck
  <2>11. CASE CronRestart
    <3>1. inflight' \in [Events -> Nat] /\ cronArmed' \in Nat /\ cronDue' \in Nat
          /\ requests' \in Nat
      BY <2>11 DEF CronRestart
    <3>2. CASE RestartSwap /\ onRequest' = onRequest \ {saver'}
      BY <2>7, <3>1, <3>2
    <3>3. QED BY <2>11, <3>1, <3>2 DEF CronRestart
  <2>12. ASSUME NEW r \in Recorders, RestartClose(r) PROVE TypeOK'
    BY <2>12 DEF RestartClose, Closed
  <2>13. ASSUME NEW r \in Recorders, RestartStart(r) PROVE TypeOK'
    BY <2>13 DEF RestartStart, ParserStopped
  <2>14. CASE RemoveRecorder
    <3>1. inflight' \in [Events -> Nat]
      BY <2>14 DEF RemoveRecorder, Events
    <3>2. QED BY <2>14, <3>1 DEF RemoveRecorder, Closed, Unlocked
  <2>15. CASE RemoveFinish
    BY <2>15 DEF RemoveFinish, ParserStopped, AfterRemoval
  <2>16. ASSUME NEW r \in Recorders, Runs(r) PROVE TypeOK'
    <3> USE DEF Goes, OnlyRecorder
    <3>1. CASE RunStops(r)
      BY <3>1 DEF RunStops
    <3>2. CASE Prepare(r) \/ Launch(r) \/ StreamEnds(r) \/ RunPanics(r)
      BY <3>2 DEF Prepare, Launch, StreamEnds, RunPanics
    <3>3. CASE SetParser(r)
      <4>1. aged' \in BOOLEAN
        BY <3>3 DEF SetParser
      <4>2. QED BY <3>3, <4>1 DEF SetParser
    <3>4. QED BY <2>16, <3>1, <3>2, <3>3 DEF Runs, RunStep, ParserReturns
  <2>17. CASE Ages
    BY <2>17 DEF Ages
  <2>18. CASE UNCHANGED vars
    BY <2>18 DEF vars
  <2>19. QED
    BY <2>1, <2>2, <2>3, <2>4, <2>5, <2>6, <2>8, <2>9, <2>10, <2>11, <2>12, <2>13, <2>14,
       <2>15, <2>16, <2>17, <2>18
    DEF Next, ListenerStep, EventStep, RecorderStep, RestartStep, Runs
<1>3. QED
  BY <1>1, <1>2, PTL DEF Spec
-----------------------------------------------------------------------------
(* The inductive invariant, one part at a time *)

own == <<saver, removing, rstate, rpc, parser, replaces, disowned>>

\* A step does one of these things to the recorders, or nothing.
OwnStep ==
  \/ saver = None /\ (\E r \in Fresh : Added(r)) /\ UNCHANGED <<removing, replaces>>
  \/ removing = None /\ saver # None /\ (\E r \in Fresh : Swapped(r)) /\ UNCHANGED removing
  \/ \E r \in Recorders : RestartClose(r) \/ RestartStart(r)
  \/ RemoveRecorder \/ RemoveFinish
  \/ \E r \in Recorders : Runs(r)
  \/ UNCHANGED own

LEMMA StepsAreOwn == ASSUME TypeOK, [Next]_vars PROVE OwnStep
<1> USE DEF own, OwnStep, room, listening, recorder, crons
<1>1. CASE RoomChanges \/ AddListener \/ RemoveListener \/ Ages \/ CronCheck
  BY <1>1 DEF RoomChanges, AddListener, RemoveListener, Ages, CronCheck
<1>2. CASE \E l \in Listeners : ListenerStep(l)
  BY <1>2 DEF ListenerStep, Poll, Process
<1>3. CASE AddRecorder
  <2>1. CASE saver = None
    BY <1>3, <2>1, AddStep DEF AddRecorder
  <2>2. CASE saver # None
    BY <1>3, <2>2 DEF AddRecorder
  <2>3. QED BY <2>1, <2>2
<1>4. CASE RestartSwap
  BY <1>4, SwapStep DEF RestartSwap, Unlocked
<1>5. CASE RestartOnRename \/ RestartOnRequest \/ CronRestart
  BY <1>4, <1>5 DEF RestartOnRename, RestartOnRequest, CronRestart
<1>6. CASE RemoveRecorder \/ RemoveFinish
  BY <1>6
<1>7. CASE \E r \in Recorders : RecorderStep(r) \/ StreamEnds(r) \/ RunPanics(r)
  BY <1>7 DEF RecorderStep, RestartStep, Runs
<1>8. CASE UNCHANGED vars
  BY <1>8 DEF vars
<1>9. QED
  BY <1>1, <1>2, <1>3, <1>5, <1>6, <1>7, <1>8 DEF Next, EventStep
\* A recorder's own goroutine moves its position and sets or clears its parser.
LEMMA RunSteps ==
  ASSUME TypeOK, NEW r \in Recorders, Runs(r)
  PROVE  /\ UNCHANGED <<saver, removing, rstate, replaces, disowned, onRequest>>
         /\ \A s \in Recorders \ {r} : rpc'[s] = rpc[s] /\ parser'[s] = parser[s]
         /\ rpc[r] \in {"retry", "setup", "parse", "recording"}
         /\ rpc'[r] = "over" => rstate[r] = "stopped" \/ r \in onRequest
         /\ \/ rpc'[r] \in {"retry", "setup", "over", "panicked"}
            \/ rpc'[r] = "parse" /\ parser'[r] = "ready" /\ rstate[r] # "stopped"
            \/ rpc[r] = "parse" /\ rpc'[r] = "recording" /\ parser'[r] = parser[r]
<1> USE DEF TypeOK, Goes, OnlyRecorder
<1>1. CASE RunStops(r)
  BY <1>1 DEF RunStops
<1>2. CASE Prepare(r) \/ Launch(r) \/ StreamEnds(r) \/ RunPanics(r)
  BY <1>2 DEF Prepare, Launch, StreamEnds, RunPanics
<1>3. CASE SetParser(r)
  BY <1>3 DEF SetParser
<1>4. QED BY <1>1, <1>2, <1>3 DEF Runs, RunStep, ParserReturns

\* Position, state and parser of a recorder object agree.
LEMMA PositionsStep ==
  ASSUME TypeOK, RecorderPositions, [Next]_vars PROVE RecorderPositions'
<1> USE RoomAssumption DEF TypeOK, RecorderPositions, InRestart
<1>1. CASE saver = None /\ (\E r \in Fresh : Added(r)) /\ UNCHANGED <<removing, replaces>>
  BY <1>1 DEF Added, Fresh
<1>2. CASE removing = None /\ saver # None /\ (\E r \in Fresh : Swapped(r)) /\ UNCHANGED removing
  BY <1>2 DEF Swapped, Fresh
<1>3. ASSUME NEW r \in Recorders, RestartClose(r) PROVE RecorderPositions'
  BY <1>3 DEF RestartClose, Closed
<1>4. ASSUME NEW r \in Recorders, RestartStart(r) PROVE RecorderPositions'
  BY <1>4 DEF RestartStart, ParserStopped
<1>5. CASE RemoveRecorder
  BY <1>5 DEF RemoveRecorder, Closed
<1>6. CASE RemoveFinish
  BY <1>6 DEF RemoveFinish, ParserStopped
<1>7. ASSUME NEW r \in Recorders, Runs(r) PROVE RecorderPositions'
  BY <1>7, RunSteps
<1>8. CASE UNCHANGED own
  BY <1>8 DEF own
<1>9. QED
  BY <1>1, <1>2, <1>3, <1>4, <1>5, <1>6, <1>7, <1>8, StepsAreOwn DEF OwnStep

\* The recorder that a restart replaces is not the registered one.
LEMMA ReplacedStep ==
  ASSUME TypeOK, RecorderPositions, ReplacedUnregistered, [Next]_vars
  PROVE  ReplacedUnregistered'
<1> USE RoomAssumption DEF TypeOK, ReplacedUnregistered
<1>1. CASE saver = None /\ (\E r \in Fresh : Added(r)) /\ UNCHANGED <<removing, replaces>>
  BY <1>1 DEF Added, Fresh
<1>2. CASE removing = None /\ saver # None /\ (\E r \in Fresh : Swapped(r)) /\ UNCHANGED removing
  BY <1>2 DEF Swapped, Fresh
<1>3. ASSUME NEW r \in Recorders, RestartClose(r) \/ RestartStart(r)
      PROVE  ReplacedUnregistered'
  BY <1>3 DEF RestartClose, RestartStart
<1>4. CASE RemoveRecorder \/ RemoveFinish
  BY <1>4 DEF RemoveRecorder, RemoveFinish, AfterRemoval
<1>5. ASSUME NEW r \in Recorders, Runs(r) PROVE ReplacedUnregistered'
  BY <1>5, RunSteps
<1>6. CASE UNCHANGED own
  BY <1>6 DEF own
<1>7. QED
  BY <1>1, <1>2, <1>3, <1>4, <1>5, <1>6, StepsAreOwn DEF OwnStep

\* A recorder in restart is registered or has been overtaken.
LEMMA RestartOwnedStep ==
  ASSUME TypeOK, RecorderPositions, ReplacedUnregistered, RestartOwned, [Next]_vars
  PROVE  RestartOwned'
<1> USE RoomAssumption DEF TypeOK, RestartOwned, InRestart
<1>1. CASE saver = None /\ (\E r \in Fresh : Added(r)) /\ UNCHANGED <<removing, replaces>>
  BY <1>1 DEF Added, Fresh
<1>2. CASE removing = None /\ saver # None /\ (\E r \in Fresh : Swapped(r)) /\ UNCHANGED removing
  BY <1>2 DEF Swapped, Fresh, RecorderPositions
<1>3. ASSUME NEW r \in Recorders, RestartClose(r) PROVE RestartOwned'
  BY <1>3 DEF RestartClose, Closed
<1>4. ASSUME NEW r \in Recorders, RestartStart(r) PROVE RestartOwned'
  BY <1>4 DEF RestartStart, RecorderPositions
<1>5. CASE RemoveRecorder
  BY <1>5 DEF RemoveRecorder, Closed, RecorderPositions, Unlocked
<1>6. CASE RemoveFinish
  BY <1>6 DEF RemoveFinish, AfterRemoval, RecorderPositions
<1>7. ASSUME NEW r \in Recorders, Runs(r) PROVE RestartOwned'
  BY <1>7, RunSteps
<1>8. CASE UNCHANGED own
  BY <1>8 DEF own
<1>9. QED
  BY <1>1, <1>2, <1>3, <1>4, <1>5, <1>6, <1>7, <1>8, StepsAreOwn DEF OwnStep

\* Whether the registered recorder depends on a request is settled when it is
\* registered.
LEMMA RequestKept ==
  ASSUME TypeOK, [Next]_vars, saver \in onRequest, saver' = saver, saver # None,
         rpc[saver] = "over", rpc'[saver] # "swapped"
  PROVE  saver \in onRequest'
<1> USE RoomAssumption DEF TypeOK, room, listening, recorder, crons
<1>1. CASE RoomChanges \/ RemoveListener \/ Ages \/ CronCheck \/ AddRecorder
  BY <1>1 DEF RoomChanges, RemoveListener, Ages, CronCheck, AddRecorder
<1>2. CASE AddListener
  BY <1>2 DEF AddListener, IdleListeners
<1>3. CASE \E l \in Listeners : ListenerStep(l)
  BY <1>3 DEF ListenerStep, Poll, Process
<1>4. CASE RestartOnRename \/ RestartOnRequest \/ CronRestart
  <2>1. CASE RestartSwap
    BY <2>1, SwapStep DEF Swapped, Fresh
  <2>2. QED BY <1>4, <2>1 DEF RestartOnRename, RestartOnRequest, CronRestart
<1>5. CASE RemoveRecorder \/ RemoveFinish
  BY <1>5 DEF RemoveRecorder, RemoveFinish
<1>6. CASE \E r \in Recorders : RestartStep(r)
  BY <1>6 DEF RestartStep, RestartClose, RestartStart
<1>7. CASE \E r \in Recorders : Runs(r)
  BY <1>7 DEF Runs, RunStep, ParserReturns, RunStops, Prepare, SetParser, Launch, StreamEnds,
              RunPanics, OnlyRecorder
<1>8. CASE UNCHANGED vars
  BY <1>8 DEF vars
<1>9. QED
  BY <1>1, <1>2, <1>3, <1>4, <1>5, <1>6, <1>7, <1>8 DEF Next, EventStep, RecorderStep, Runs

\* The registered recorder stays alive.
LEMMA AliveStep ==
  ASSUME TypeOK, RecorderPositions, ReplacedUnregistered, RegisteredAlive, [Next]_vars
  PROVE  RegisteredAlive'
<1> USE RoomAssumption DEF TypeOK, RegisteredAlive, InRestart, AtWork
<1>1. CASE saver = None /\ (\E r \in Fresh : Added(r)) /\ UNCHANGED <<removing, replaces>>
  BY <1>1 DEF Added, Fresh
<1>2. CASE removing = None /\ saver # None /\ (\E r \in Fresh : Swapped(r)) /\ UNCHANGED removing
  BY <1>2 DEF Swapped, Fresh
<1>3. ASSUME NEW r \in Recorders, RestartClose(r) PROVE RegisteredAlive'
  <2>1. /\ UNCHANGED <<saver, removing, parser, replaces, onRequest>>
        /\ rpc[r] = "swapped" /\ rpc' = [rpc EXCEPT ![r] = "closing"]
        /\ \A q \in Recorders : q # replaces[r] => rstate'[q] = rstate[q]
    BY <1>3 DEF RestartClose, Closed
  <2>2. saver # None => saver # replaces[r]
    BY DEF ReplacedUnregistered
  <2>3. CASE saver = r
    <3>1. rstate[r] = "begin" \/ removing # None
      BY <2>1, <2>3
    <3>2. QED BY <2>1, <2>2, <2>3, <3>1
  <2>4. CASE saver # r
    <3>1. saver # None => rpc'[saver] = rpc[saver] /\ rstate'[saver] = rstate[saver]
      BY <2>1, <2>2, <2>4
    <3>2. QED BY <2>1, <2>4, <3>1
  <2>5. QED BY <2>3, <2>4
<1>4. ASSUME NEW r \in Recorders, RestartStart(r) PROVE RegisteredAlive'
  BY <1>4, RequestKept DEF RestartStart
<1>5. CASE RemoveRecorder
  BY <1>5 DEF RemoveRecorder, Closed
<1>6. CASE RemoveFinish
  BY <1>6 DEF RemoveFinish, AfterRemoval
<1>7. ASSUME NEW r \in Recorders, Runs(r) PROVE RegisteredAlive'
  <2>1. CASE saver = r
    BY <1>7, <2>1, RunSteps DEF RecorderPositions
  <2>2. CASE saver # r
    BY <1>7, <2>2, RunSteps
  <2>3. QED BY <2>1, <2>2
<1>8. CASE UNCHANGED own
  BY <1>8, RequestKept DEF own
<1>9. QED
  BY <1>1, <1>2, <1>3, <1>4, <1>5, <1>6, <1>7, <1>8, StepsAreOwn DEF OwnStep

\* A running recorder keeps an owner.
LEMMA OwnedStep ==
  ASSUME TypeOK, RecorderPositions, RestartOwned, RunningOwned, [Next]_vars
  PROVE  RunningOwned'
<1> USE RoomAssumption DEF TypeOK, RunningOwned
<1>1. CASE saver = None /\ (\E r \in Fresh : Added(r)) /\ UNCHANGED <<removing, replaces>>
  BY <1>1 DEF Added, Fresh
<1>2. CASE removing = None /\ saver # None /\ (\E r \in Fresh : Swapped(r)) /\ UNCHANGED removing
  BY <1>2 DEF Swapped, Fresh
<1>3. ASSUME NEW r \in Recorders, RestartClose(r) PROVE RunningOwned'
  BY <1>3 DEF RestartClose, Closed
<1>4. ASSUME NEW r \in Recorders, RestartStart(r) PROVE RunningOwned'
  BY <1>4 DEF RestartStart, RestartOwned, InRestart
<1>5. CASE RemoveRecorder
  BY <1>5 DEF RemoveRecorder, Closed
<1>6. CASE RemoveFinish
  BY <1>6 DEF RemoveFinish, AfterRemoval, RestartOwned
<1>7. ASSUME NEW r \in Recorders, Runs(r) PROVE RunningOwned'
  BY <1>7, RunSteps
<1>8. CASE UNCHANGED own
  BY <1>8 DEF own
<1>9. QED
  BY <1>1, <1>2, <1>3, <1>4, <1>5, <1>6, <1>7, <1>8, StepsAreOwn DEF OwnStep

\* A stopped recorder has no parser that has not been told to stop.
LEMMA CloseStopsStep ==
  ASSUME TypeOK, RecorderPositions, ReplacedUnregistered, CloseStops, [Next]_vars
  PROVE  CloseStops'
<1> USE RoomAssumption DEF TypeOK, CloseStops
<1>1. CASE saver = None /\ (\E r \in Fresh : Added(r)) /\ UNCHANGED <<removing, replaces>>
  BY <1>1 DEF Added, Fresh
<1>2. CASE removing = None /\ saver # None /\ (\E r \in Fresh : Swapped(r)) /\ UNCHANGED removing
  BY <1>2 DEF Swapped, Fresh, RecorderPositions, InRestart
<1>3. ASSUME NEW r \in Recorders, RestartClose(r) PROVE CloseStops'
  BY <1>3 DEF RestartClose, Closed
<1>4. ASSUME NEW r \in Recorders, RestartStart(r) PROVE CloseStops'
  BY <1>4 DEF RestartStart, ParserStopped, RecorderPositions, InRestart
<1>5. CASE RemoveRecorder
  BY <1>5 DEF RemoveRecorder, Closed
<1>6. CASE RemoveFinish
  BY <1>6 DEF RemoveFinish, ParserStopped, RecorderPositions, ReplacedUnregistered
<1>7. ASSUME NEW r \in Recorders, Runs(r) PROVE CloseStops'
  BY <1>7, RunSteps
<1>8. CASE UNCHANGED own
  BY <1>8 DEF own
<1>9. QED
  BY <1>1, <1>2, <1>3, <1>4, <1>5, <1>6, <1>7, <1>8, StepsAreOwn DEF OwnStep

LEMMA IInvCorrect == Spec => []IInv
<1>1. Init => IInv
  BY RoomAssumption
  DEF Init, IInv, RecorderPositions, ReplacedUnregistered, RestartOwned, RegisteredAlive,
      RunningOwned, CloseStops, InRestart, AtWork
<1>2. TypeOK /\ IInv /\ [Next]_vars => IInv'
  BY PositionsStep, ReplacedStep, RestartOwnedStep, AliveStep, OwnedStep, CloseStopsStep
  DEF IInv
<1>3. QED
  BY <1>1, <1>2, TypeCorrect, PTL DEF Spec

-----------------------------------------------------------------------------
(* The results *)

\* The registered recorder is never a stopped one, and its goroutine has ended only by
\* a panic or with the request that started it.
THEOREM RegisteredAliveCorrect == Spec => []RegisteredAlive
<1>1. IInv => RegisteredAlive
  BY DEF IInv
<1>2. QED BY <1>1, IInvCorrect, PTL

\* A restart leaks a running recorder only when it is overtaken outside the lock.
THEOREM RunningOwnedCorrect == Spec => []RunningOwned
<1>1. IInv => RunningOwned
  BY DEF IInv
<1>2. QED BY <1>1, IInvCorrect, PTL

\* Close reaches the download, however it meets the installation of a parser.
THEOREM CloseReachesCorrect == Spec => []CloseReaches
<1>1. TypeOK /\ IInv => CloseReaches
  BY DEF IInv, CloseStops, CloseReaches, Downloading
<1>2. QED BY <1>1, IInvCorrect, TypeCorrect, PTL

\* While no restart has been overtaken a room has at most one download: whatever
\* downloads is registered, or is being replaced by the registered recorder,
\* which then has not been started.
THEOREM OneDownloadCorrect == Spec => []OneDownloadUnlessOvertaken
<1>1. TypeOK /\ IInv => OneDownloadUnlessOvertaken
  <2> SUFFICES ASSUME TypeOK, IInv, disowned = {} PROVE Cardinality(Downloading) <= 1
    BY DEF OneDownloadUnlessOvertaken
  <2> USE RoomAssumption DEF TypeOK
  <2>1. ASSUME NEW r \in Downloading
        PROVE  \/ r = saver
               \/ saver # None /\ InRestart(saver) /\ replaces[saver] = r
    <3>1. r \in Recorders /\ rpc[r] = "recording" /\ parser[r] # "stopped"
      BY DEF Downloading
    <3>2. r = saver \/ \E s \in Recorders : replaces[s] = r
      BY <3>1 DEF IInv, RecorderPositions, RunningOwned, CloseStops
    <3>3. \A s \in Recorders : replaces[s] = r => s = saver /\ InRestart(s)
      BY <3>1 DEF IInv, RecorderPositions, RestartOwned
    <3>4. QED BY <3>2, <3>3
  <2>2. PICK d : Downloading \subseteq {d}
    <3>1. CASE saver # None /\ InRestart(saver)
      <4>1. saver \notin Downloading
        BY <3>1 DEF InRestart, Downloading
      <4>2. Downloading \subseteq {replaces[saver]}
        BY <2>1, <4>1
      <4>3. QED BY <4>2
    <3>2. CASE ~(saver # None /\ InRestart(saver))
      <4>1. Downloading \subseteq {saver}
        BY <2>1, <3>2
      <4>2. QED BY <4>1
    <3>3. QED BY <3>1, <3>2
  <2>3. IsFiniteSet({d}) /\ Cardinality({d}) = 1
    BY FS_Singleton
  <2>4. Cardinality(Downloading) <= Cardinality({d})
    BY <2>2, <2>3, FS_Subset
  <2>5. QED BY <2>3, <2>4
<1>2. QED BY <1>1, IInvCorrect, TypeCorrect, PTL
=============================================================================
