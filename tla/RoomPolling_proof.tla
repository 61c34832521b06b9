-------------------------- MODULE RoomPolling_proof --------------------------
(***************************************************************************)
(* Theorems about RoomPolling, for any rooms, watchers, callers, intervals *)
(* and limits.                                                             *)
(***************************************************************************)
EXTENDS RoomPolling, FiniteSetTheorems, TLAPS

USE DEF vars, watch, sched, get, limit, Event, Enter, Returned, Accessed

\* There is a limiter to begin with.
LEMMA FirstLimiter == 1 \in Limiters /\ None \notin Limiters
<1>1. IsFiniteSet(Actors)
  BY PollingAssumption, FS_Union DEF Actors
<1>2. QED BY <1>1, FS_CardinalityType, PollingAssumption DEF Limiters

LEMMA LimitTypes == /\ Interval \in Nat \ {0} /\ Longest \in Nat
                    /\ \A n \in Limits : n \in 1..Longest
BY PollingAssumption

\* Who enters GetInfo stands at the limiter in force, or at none.
LEMMA EnterTypes ==
  ASSUME TypeOK, NEW a \in Actors, Enter(a)
  PROVE  /\ getting' \in [Actors -> {"idle", "limit", "sleep", "request", "stamp"}]
         /\ held' \in [Actors -> Limiters \cup {None}]
         /\ \A x \in Actors : getting'[x] \in {"limit", "sleep"} => held'[x] # None
<1>1. getting' \in [Actors -> {"idle", "limit", "sleep", "request", "stamp"}]
  BY DEF TypeOK
<1>2. held' \in [Actors -> Limiters \cup {None}]
  BY DEF TypeOK
<1>3. QED BY <1>1, <1>2 DEF TypeOK

\* Types, and nobody is on the list of waiters who does not wait.
THEOREM TypeCorrect == Spec => []TypeOK
<1> USE PollingAssumption, LimitTypes DEF TypeOK
<1>1. Init => TypeOK
  BY FirstLimiter DEF Init
<1>2. TypeOK /\ [Next]_vars => TypeOK'
  <2> SUFFICES ASSUME TypeOK, [Next]_vars PROVE TypeOK'
    OBVIOUS
  <2>1. ASSUME NEW w \in Watchers, Ask(w) PROVE TypeOK'
    BY <2>1 DEF Ask
  <2>2. ASSUME NEW r \in Rooms, Plan(r) PROVE TypeOK'
    BY <2>2 DEF Plan
  <2>3. ASSUME NEW r \in Rooms, Fire(r) PROVE TypeOK'
    <3>1. r \in Actors
      BY DEF Actors
    <3>2. scheduler' \in [Rooms -> {"unborn", "check", "timer", "get", "gone"}]
      BY <2>3 DEF Fire
    <3>3. /\ getting' \in [Actors -> {"idle", "limit", "sleep", "request", "stamp"}]
          /\ held' \in [Actors -> Limiters \cup {None}]
          /\ \A x \in Actors : getting'[x] \in {"limit", "sleep"} => held'[x] # None
      <4>1. CASE Wanted(r)
        <5>1. Enter(r)
          BY <2>3, <4>1 DEF Fire
        <5> HIDE DEF Enter
        <5>2. QED BY <3>1, <5>1, EnterTypes
      <4>2. CASE ~Wanted(r)
        BY <2>3, <4>2 DEF Fire
      <4>3. QED BY <4>1, <4>2
    <3>4. UNCHANGED <<watch, over, planned, since, sleep, limit, ago, events>>
      BY <2>3 DEF Fire
    <3>5. QED BY <3>2, <3>3, <3>4
  <2>4. ASSUME NEW r \in Rooms, Stop(r) PROVE TypeOK'
    BY <2>4 DEF Stop
  <2>5. ASSUME NEW a \in Actors, Pass(a) PROVE TypeOK'
    <3>1. held[a] \in Limiters
      BY <2>5 DEF Pass, Looks
    <3>2. QED BY <2>5, <3>1 DEF Pass
  <2>6. ASSUME NEW a \in Actors, Hold(a) PROVE TypeOK'
    <3>1. held[a] \in Limiters
      BY <2>6 DEF Hold, Looks
    <3>2. /\ limiter[held[a]].min \in 1..Longest
          /\ limiter[held[a]].since \in 0..Longest
      BY <3>1
    <3>3. limiter[held[a]].min - limiter[held[a]].since \in 0..Longest
      BY <2>6, <3>2 DEF Hold, Allowed
    <3>4. QED BY <2>6, <3>1, <3>3 DEF Hold, Looks
  <2>7. ASSUME NEW a \in Actors, Cancelled(a) PROVE TypeOK'
    BY <2>7 DEF Cancelled
  <2>8. ASSUME NEW a \in Actors, Stamp(a) PROVE TypeOK'
    <3>1. since' \in [Rooms -> 0..Interval]
      <4>1. since' = [since EXCEPT ![RoomAsked(a)] = 0] /\ 0 \in 0..Interval
        BY <2>8 DEF Stamp
      <4>2. QED BY <4>1
    <3>2. QED BY <2>8, <3>1 DEF Stamp
  <2>9. ASSUME NEW a \in Actors, Succeed(a) PROVE TypeOK'
    BY <2>9 DEF Succeed, Notify, Served
  <2>10. ASSUME NEW a \in Actors, Fail(a) PROVE TypeOK'
    BY <2>10 DEF Fail, Notify, Served
  <2>11. CASE Tick
    <3>1. /\ \A r \in Rooms : Down(planned[r]) \in Nat
          /\ \A r \in Rooms : Upto(since[r], Interval) \in 0..Interval
          /\ \A a \in Actors : Down(sleep[a]) \in 0..Longest
          /\ \A l \in Limiters : Upto(limiter[l].since, Longest) \in 0..Longest
          /\ ago # None => Upto(ago, Longest) \in 0..Longest
      BY DEF Upto, Down
    <3>2. QED BY <2>11, <3>1 DEF Tick
  <2>12. ASSUME NEW w \in Watchers, Leave(w) PROVE TypeOK'
    BY <2>12 DEF Leave, WaitersWithout
  <2>13. ASSUME NEW r \in Rooms, EndRoom(r) PROVE TypeOK'
    BY <2>13 DEF EndRoom
  <2>14. ASSUME NEW c \in Callers, NEW forced \in BOOLEAN, Call(c, forced) PROVE TypeOK'
    <3>1. c \in Actors
      BY DEF Actors
    <3>2. QED BY <2>14, <3>1 DEF Call
  <2>15. ASSUME NEW n \in Limits, KeepLimit(n) PROVE TypeOK'
    BY <2>15 DEF KeepLimit, SetLimit, MakeLimiter
  <2>16. CASE DropLimit
    BY <2>16 DEF DropLimit
  <2>17. CASE UNCHANGED vars
    BY <2>17
  <2>18. QED
    BY <2>1, <2>2, <2>3, <2>4, <2>5, <2>6, <2>7, <2>8, <2>9, <2>10, <2>11, <2>12,
       <2>13, <2>14, <2>15, <2>16, <2>17
    DEF Next, SchedulerStep, GetStep, Environment
<1>3. QED BY <1>1, <1>2, PTL DEF Spec

-----------------------------------------------------------------------------
(* The limiter in force knows the last access. *)

\* Who sleeps at a limiter sleeps at the one in force, as long as the platform
\* keeps it, and that one's clock is the time since the last access.
OneLimiter ==
  ago # None => /\ entry # None /\ limiter[entry].since = ago
                /\ \A a \in Actors : held[a] \in {entry, None}

LEMMA OneLimiterKept == TypeOK /\ OneLimiter /\ [Next]_vars => OneLimiter'
<1> SUFFICES ASSUME TypeOK, OneLimiter, [Next]_vars PROVE OneLimiter'
  OBVIOUS
<1> USE PollingAssumption, LimitTypes DEF TypeOK, OneLimiter
<1>1. ASSUME NEW w \in Watchers, Ask(w) PROVE OneLimiter'
  BY <1>1 DEF Ask
<1>2. ASSUME NEW r \in Rooms, Plan(r) \/ Stop(r) \/ EndRoom(r) PROVE OneLimiter'
  BY <1>2 DEF Plan, Stop, EndRoom
<1>3. ASSUME NEW r \in Rooms, Fire(r) PROVE OneLimiter'
  BY <1>3 DEF Fire
<1>4. ASSUME NEW a \in Actors, Pass(a) PROVE OneLimiter'
  <2>1. held[a] \in Limiters
    BY <1>4 DEF Pass, Looks
  <2>2. CASE ago = None
    BY <1>4, <2>2 DEF Pass
  <2>3. CASE ago # None
    <3>1. held[a] = entry
      BY <2>1, <2>3, FirstLimiter
    <3>2. limiter'[entry].since = 0 /\ entry' = entry /\ ago' = 0
      BY <1>4, <2>1, <2>3, <3>1 DEF Pass
    <3>3. \A b \in Actors : held'[b] \in {entry, None}
      BY <1>4, <2>3 DEF Pass
    <3>4. QED BY <2>1, <3>1, <3>2, <3>3, FirstLimiter
  <2>4. QED BY <2>2, <2>3
<1>5. ASSUME NEW a \in Actors, Hold(a) PROVE OneLimiter'
  BY <1>5 DEF Hold, Looks
<1>6. ASSUME NEW a \in Actors, Cancelled(a) PROVE OneLimiter'
  BY <1>6 DEF Cancelled
<1>7. ASSUME NEW a \in Actors, Stamp(a) \/ Succeed(a) \/ Fail(a) PROVE OneLimiter'
  BY <1>7 DEF Stamp, Succeed, Fail
<1>8. CASE Tick
  BY <1>8 DEF Tick
<1>9. ASSUME NEW w \in Watchers, Leave(w) PROVE OneLimiter'
  BY <1>9 DEF Leave
<1>10. ASSUME NEW c \in Callers, NEW forced \in BOOLEAN, Call(c, forced)
       PROVE  OneLimiter'
  <2>1. c \in Actors
    BY DEF Actors
  <2>2. QED BY <1>10, <2>1 DEF Call
<1>11. ASSUME NEW n \in Limits, KeepLimit(n) PROVE OneLimiter'
  BY <1>11 DEF KeepLimit, SetLimit, MakeLimiter
<1>12. CASE DropLimit
  BY <1>12 DEF DropLimit
<1>13. CASE UNCHANGED vars
  BY <1>13
<1>14. QED
  BY <1>1, <1>2, <1>3, <1>4, <1>5, <1>6, <1>7, <1>8, <1>9, <1>10, <1>11, <1>12, <1>13
  DEF Next, SchedulerStep, GetStep, Environment

\* A request is sent only by an actor that the limiter in force allowed, or when
\* there is none.
LEMMA RequestAllowed ==
  ASSUME TypeOK, OneLimiter, [Next]_vars, ago # None, NEW a \in Actors, Requests(a)
  PROVE  ago >= limiter[entry].min
<1> USE PollingAssumption, LimitTypes DEF TypeOK, OneLimiter, Requests
<1>1. ASSUME NEW b \in Actors, Pass(b) PROVE ago >= limiter[entry].min
  BY <1>1 DEF Pass, Looks, Allowed
<1>2. ASSUME NEW r \in Rooms, Fire(r) PROVE FALSE
  BY <1>2 DEF Fire
<1>3. ASSUME NEW c \in Callers, NEW forced \in BOOLEAN, Call(c, forced) PROVE FALSE
  BY <1>3 DEF Call, Actors
<1>4. ASSUME NEW b \in Actors, Hold(b) \/ Cancelled(b) \/ Stamp(b) \/ Succeed(b) \/ Fail(b)
      PROVE  FALSE
  BY <1>4 DEF Hold, Cancelled, Stamp, Succeed, Fail
<1>5. ASSUME UNCHANGED getting PROVE FALSE
  BY <1>5
<1>6. QED
  BY <1>1, <1>2, <1>3, <1>4, <1>5
  DEF Next, SchedulerStep, GetStep, Environment, Ask, Plan, Stop, Tick, Leave, EndRoom,
      KeepLimit, DropLimit

\* While the platform keeps its limiter, its requests are as far apart as the limit.
THEOREM LimitKeptCorrect == Spec => LimitKept
<1>1. Init => OneLimiter
  BY PollingAssumption, LimitTypes, FirstLimiter DEF Init, OneLimiter
<1>2. TypeOK /\ OneLimiter /\ [Next]_vars
        => [ago # None /\ ago' # None => \A a \in Actors : Requests(a) => ago >= limiter[entry].min]_vars
  BY RequestAllowed
<1>3. QED BY <1>1, <1>2, OneLimiterKept, TypeCorrect, PTL DEF Spec, LimitKept
==============================================================================
