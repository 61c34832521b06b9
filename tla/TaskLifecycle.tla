---------------------------- MODULE TaskLifecycle ----------------------------
(***************************************************************************)
(* What pipeline.Manager promises of its tasks, as its clients and the     *)
(* table pipeline_tasks show them: a task waits, is executed by one        *)
(* goroutine while fewer than MaxConcurrent others are, and ends with a    *)
(* status that only a request changes.  Locks, rounds, snapshots, the      *)
(* registration of tasks and the steps of Close are not visible here.      *)
(*                                                                         *)
(* RetryTask and DeleteTask check a task and write it in two steps: of a   *)
(* task overtaken in between, only the execution is promised, not the row. *)
(***************************************************************************)
EXTENDS Naturals, FiniteSets

CONSTANTS Tasks, MaxConcurrent

VARIABLES
  status,     \* of each task: "none" before it is created, "deleted" after
  executing,  \* the tasks whose stages run, or whose outcome is to be written
  overtaken,
  phase       \* "up", "closing", "closed" or "down"

vars == <<status, executing, overtaken, phase>>

Waiting == {"pending", "paused"}
Ended   == {"completed", "failed", "cancelled"}

Init ==
  /\ status = [t \in Tasks |-> "none"]
  /\ executing = {} /\ overtaken = {} /\ phase = "up"

\* A task that is not in the table is not brought back by a write.
Put(t, s) ==
  IF status[t] \in {"none", "deleted"} THEN status ELSE [status EXCEPT ![t] = s]
All(S, s) == [t \in Tasks |-> IF t \in S THEN s ELSE status[t]]

Create(S) ==
  /\ phase \in {"up", "closing"} /\ \A t \in S : status[t] = "none"
  /\ status' = All(S, "pending")
  /\ UNCHANGED <<executing, overtaken, phase>>

\* A task deleted after it was selected is executed all the same.
Start(t) ==
  /\ phase = "up"
  /\ t \notin executing /\ Cardinality(executing) < MaxConcurrent
  /\ status[t] \in Waiting \cup {"deleted"} \/ t \in overtaken
  /\ status' = Put(t, "running") /\ executing' = executing \cup {t}
  /\ UNCHANGED <<overtaken, phase>>

\* The outcome is written, or its write fails or a stage panics, and the task stays
\* "running".
End(t) ==
  /\ phase \in {"up", "closing"} /\ t \in executing
  /\ executing' = executing \ {t}
  /\ status' \in {status} \cup {Put(t, s) : s \in Ended \cup {"paused"}}
  /\ UNCHANGED <<overtaken, phase>>

\* The progress of an overtaken task brings its row back to "running".
Report(t) ==
  /\ t \in executing \cap overtaken
  /\ status' = Put(t, "running") /\ UNCHANGED <<executing, overtaken, phase>>

Retry(t) ==
  /\ phase = "up" /\ status[t] \in {"failed", "cancelled"} /\ t \notin executing
  /\ status' = Put(t, "pending") /\ UNCHANGED <<executing, overtaken, phase>>

Cancel(t) ==
  /\ phase = "up" /\ t \notin executing
  /\ status[t] \in Waiting \/ t \in overtaken
  /\ status' = Put(t, "cancelled") /\ UNCHANGED <<executing, overtaken, phase>>

Delete(S) ==
  /\ phase = "up" /\ S \cap executing \subseteq overtaken
  /\ status' = All(S, "deleted") /\ UNCHANGED <<executing, overtaken, phase>>

Overtake(t) ==
  /\ phase = "up" /\ overtaken' = overtaken \cup {t}
  /\ status' \in {Put(t, "pending"), All({t}, "deleted")}
  /\ UNCHANGED <<executing, phase>>

Close ==
  /\ phase = "up" /\ phase' = "closing"
  /\ UNCHANGED <<status, executing, overtaken>>

Closed ==
  /\ phase = "closing" /\ executing = {} /\ phase' = "closed"
  /\ UNCHANGED <<status, executing, overtaken>>

Die ==
  /\ phase # "down" /\ phase' = "down" /\ executing' = {}
  /\ UNCHANGED <<status, overtaken>>

Restart ==
  /\ phase = "down" /\ phase' = "up"
  /\ status' = All({t \in Tasks : status[t] = "running"}, "pending")
  /\ overtaken' = {} /\ UNCHANGED executing

Next ==
  \/ \E t \in Tasks : \/ Start(t) \/ End(t) \/ Report(t)
                      \/ Retry(t) \/ Cancel(t) \/ Overtake(t)
  \/ \E S \in SUBSET Tasks : Create(S) \/ Delete(S)
  \/ Close \/ Closed \/ Die \/ Restart

Spec == Init /\ [][Next]_vars
==============================================================================
