----------------------------- MODULE RoomPolling -----------------------------
(***************************************************************************)
(* How rooms of one platform are polled (live/lives.go, pkg/ratelimit).    *)
(* Goroutines that want a room's state wait in GetInfoWithInterval; the    *)
(* scheduler of the room asks the platform for all of them, after the      *)
(* interval of the room and the limit of the platform.  HTTP handlers and  *)
(* a starting listener call GetInfo themselves.  The limit may be changed, *)
(* removed and set again by every update of the configuration.             *)
(*                                                                         *)
(* Time passes in ticks.  A timer fires on time and what is computed takes *)
(* no tick; a request to the platform takes any number of them.  Durations *)
(* are kept as ticks since an event, up to the longest that is compared.   *)
(***************************************************************************)
EXTENDS Naturals, FiniteSets

CONSTANTS
  Rooms,
  Watchers,        \* goroutines that poll with GetInfoWithInterval
  Callers,         \* goroutines that call GetInfo
  RoomOf,          \* the room of each watcher and caller
  Interval,        \* of every room
  Jitter,          \* longest delay of a request that is overdue, the shortest is a tick
  Limits,          \* minimum intervals the platform may be given
  Longest,         \* of them
  None,            \* no limiter
  MaxEvents        \* calls from outside, updates of the configuration, contexts that end

ASSUME PollingAssumption ==
  /\ RoomOf \in [Watchers \cup Callers -> Rooms]
  /\ Rooms \cap Callers = {} /\ IsFiniteSet(Rooms) /\ IsFiniteSet(Callers)
  /\ {Interval, Jitter} \subseteq Nat \ {0}
  /\ Limits \subseteq Nat \ {0} /\ Longest \in Limits
  /\ \A n \in Limits : n <= Longest
  /\ None \notin Nat
  /\ MaxEvents \in Nat

Actors   == Rooms \cup Callers              \* a room stands for its scheduler
Limiters == 1..Cardinality(Actors) + 1      \* PlatformLimiter objects, reused

VARIABLES
  asking,     \* watchers inside GetInfoWithInterval
  waiters,    \* w.waiters of all rooms
  over,       \* rooms whose schedulerCtx has ended
  scheduler,  \* runScheduler of each room
  planned,    \* the timer of the scheduler
  since,      \* ticks since lastRequestAt of each room
  getting,    \* GetInfo of each actor
  held,       \* the limiter an actor has looked up
  sleep,      \* its timer
  limiter,    \* the limiter objects: minInterval and ticks since lastAccess
  entry,      \* prl.limiters[platform]
  events,     \* so far
  ago         \* history: ticks since an access was last allowed or forced, or None
              \* once the platform has been without a limiter

watch == <<asking, waiters>>
sched == <<over, scheduler, planned, since>>
get   == <<getting, held, sleep>>
limit == <<limiter, entry>>
vars  == <<watch, sched, get, limit, ago, events>>

Upto(n, max) == IF n < max THEN n + 1 ELSE max
Down(n)      == IF n > 0 THEN n - 1 ELSE 0

Init ==
  /\ asking = {} /\ waiters = {}
  /\ over = {} /\ scheduler = [r \in Rooms |-> "unborn"]
  /\ planned = [r \in Rooms |-> 0] /\ since = [r \in Rooms |-> Interval]
  /\ getting = [a \in Actors |-> "idle"]
  /\ held = [a \in Actors |-> None] /\ sleep = [a \in Actors |-> 0]
  /\ entry = 1
  /\ \E n \in Limits : limiter = [l \in Limiters |-> [min |-> n, since |-> Longest]]
  /\ ago = Longest
  /\ events = 0

Event == events < MaxEvents /\ events' = events + 1

-----------------------------------------------------------------------------
(* GetInfoWithInterval *)

\* startScheduler, once, and the waiter is registered.
Ask(w) ==
  /\ w \notin asking
  /\ asking' = asking \cup {w} /\ waiters' = waiters \cup {w}
  /\ scheduler' = [scheduler EXCEPT ![RoomOf[w]] = IF @ = "unborn" THEN "check" ELSE @]
  /\ UNCHANGED <<over, planned, since, get, limit, ago, events>>

\* Its context ends: removeWaiter.
WaitersLeft(w) == waiters             \* mutant: the waiter stays in the list
WaitersWithout(w) == waiters \ {w}
Leave(w) ==
  /\ w \in asking /\ Event
  /\ asking' = asking \ {w} /\ waiters' = WaitersWithout(w)
  /\ UNCHANGED <<sched, get, limit, ago>>

-----------------------------------------------------------------------------
(* runScheduler *)

Wanted(r) == \E w \in waiters : RoomOf[w] = r

\* Every 100 milliseconds it looks for waiters.
Plan(r) ==
  /\ scheduler[r] = "check" /\ Wanted(r)
  /\ scheduler' = [scheduler EXCEPT ![r] = "timer"]
  /\ \E n \in IF since[r] < Interval THEN {Interval - since[r]} ELSE 1..Jitter :
       planned' = [planned EXCEPT ![r] = n]
  /\ UNCHANGED <<watch, over, since, get, limit, ago, events>>

\* WaitForPlatformWithContext looks the limiter up once.
Enter(a) ==
  /\ getting' = [getting EXCEPT ![a] = IF entry = None THEN "request" ELSE "limit"]
  /\ held' = [held EXCEPT ![a] = entry]

\* The waiters may have gone while it slept; a timer that fires as the context ends
\* may win.
Fire(r) ==
  /\ scheduler[r] = "timer" /\ planned[r] = 0
  /\ IF Wanted(r) THEN scheduler' = [scheduler EXCEPT ![r] = "get"] /\ Enter(r)
                  ELSE /\ scheduler' = [scheduler EXCEPT ![r] = "check"]
                       /\ UNCHANGED <<getting, held>>
  /\ UNCHANGED <<watch, over, planned, since, sleep, limit, ago, events>>

Stop(r) ==
  /\ scheduler[r] \in {"check", "timer"} /\ r \in over
  /\ scheduler' = [scheduler EXCEPT ![r] = "gone"]
  /\ planned' = [planned EXCEPT ![r] = 0]
  /\ UNCHANGED <<watch, over, since, get, limit, ago, events>>

\* The program ends, or the request that added the room does.
EndRoom(r) ==
  /\ r \notin over /\ Event
  /\ over' = over \cup {r}
  /\ UNCHANGED <<watch, scheduler, planned, since, get, limit, ago>>

-----------------------------------------------------------------------------
(* GetInfo *)

RoomAsked(a) == IF a \in Rooms THEN a ELSE RoomOf[a]

Returned(a) ==
  /\ getting' = [getting EXCEPT ![a] = "idle"]
  /\ scheduler' = IF a \in Rooms THEN [scheduler EXCEPT ![a] = "check"] ELSE scheduler

Accessed == ago' = IF ago = None THEN None ELSE 0

\* A listener that starts, or a handler; forceRefresh pretends an access first.
Call(c, forced) ==
  /\ getting[c] = "idle" /\ Event /\ Enter(c)
  /\ IF forced /\ entry # None
     THEN /\ limiter' = [limiter EXCEPT ![entry].since = 0]
          /\ Accessed
     ELSE UNCHANGED <<limiter, ago>>
  /\ UNCHANGED <<watch, sched, sleep, entry>>

\* The first look at lastAccess, or the one after the timer.
Looks(a) == /\ getting[a] = "limit" \/ (getting[a] = "sleep" /\ sleep[a] = 0)
            /\ RoomAsked(a) \notin over

AllowedOnceWoken(a) ==                \* mutant: the access is not checked again
  limiter[held[a]].since >= limiter[held[a]].min \/ getting[a] = "sleep"
Allowed(a) == limiter[held[a]].since >= limiter[held[a]].min

Pass(a) ==
  /\ Looks(a) /\ Allowed(a)
  /\ getting' = [getting EXCEPT ![a] = "request"]
  /\ held' = [held EXCEPT ![a] = None]
  /\ limiter' = [limiter EXCEPT ![held[a]].since = 0]
  /\ Accessed
  /\ UNCHANGED <<watch, sched, sleep, entry, events>>

Hold(a) ==
  /\ Looks(a) /\ ~Allowed(a)
  /\ getting' = [getting EXCEPT ![a] = "sleep"]
  /\ sleep' = [sleep EXCEPT ![a] = limiter[held[a]].min - limiter[held[a]].since]
  /\ UNCHANGED <<watch, sched, held, limit, ago, events>>

\* schedulerCtx has ended: GetInfo returns, nobody is told.
Cancelled(a) ==
  /\ getting[a] \in {"limit", "sleep"} /\ RoomAsked(a) \in over
  /\ sleep' = [sleep EXCEPT ![a] = 0] /\ held' = [held EXCEPT ![a] = None]
  /\ Returned(a)
  /\ UNCHANGED <<watch, over, planned, since, limit, ago, events>>

\* notifyWaiters, whether the request succeeded or not.
ServedOnSuccess(a, succeeded) ==      \* mutant: waiters hear of successes only
  {w \in waiters : RoomOf[w] = RoomAsked(a) /\ succeeded}
Served(a, succeeded) == {w \in waiters : RoomOf[w] = RoomAsked(a)}

Notify(a, succeeded) ==
  /\ asking' = asking \ Served(a, succeeded)
  /\ waiters' = waiters \ Served(a, succeeded)

Succeed(a) ==
  /\ getting[a] = "request"
  /\ getting' = [getting EXCEPT ![a] = "stamp"]
  /\ Notify(a, TRUE)
  /\ UNCHANGED <<sched, held, sleep, limit, ago, events>>

Fail(a) ==
  /\ getting[a] = "request"
  /\ Notify(a, FALSE) /\ Returned(a)
  /\ UNCHANGED <<over, planned, since, held, sleep, limit, ago, events>>

\* lastRequestAt is written after the waiters were told, and on success only.
Stamp(a) ==
  /\ getting[a] = "stamp"
  /\ since' = [since EXCEPT ![RoomAsked(a)] = 0]
  /\ Returned(a)
  /\ UNCHANGED <<watch, over, planned, held, sleep, limit, ago, events>>

-----------------------------------------------------------------------------
(* syncPlatformRateLimits, on every update of the configuration *)

Unused(l) == l # entry /\ \A a \in Actors : held[a] # l

MakeLimiter(n) ==
  \E l \in Limiters :
    /\ Unused(l) /\ \A i \in 1..(l - 1) : ~Unused(i)
    /\ entry' = l
    /\ limiter' = [limiter EXCEPT ![l] = [min |-> n, since |-> Longest]]

\* SetPlatformLimit: an existing limiter keeps its lastAccess.
SetAnew(n)  == MakeLimiter(n)         \* mutant: the limiter is made again
SetLimit(n) == IF entry = None THEN MakeLimiter(n)
               ELSE /\ limiter' = [limiter EXCEPT ![entry].min = n]
                    /\ UNCHANGED entry

KeepLimit(n) ==
  /\ Event /\ SetLimit(n)
  /\ UNCHANGED <<watch, sched, get, ago>>

\* The platform has no entry in the configuration.
DropLimit ==
  /\ Event /\ entry # None
  /\ entry' = None /\ ago' = None
  /\ UNCHANGED <<watch, sched, get, limiter>>

-----------------------------------------------------------------------------
SchedulerStep(r) == Plan(r) \/ Fire(r) \/ Stop(r)
GetStep(a) == Pass(a) \/ Hold(a) \/ Cancelled(a) \/ Stamp(a)

\* Something that takes no time is still to be done.
Pressing ==
  \/ \E r \in Rooms : \/ scheduler[r] = "check" /\ (Wanted(r) \/ r \in over)
                      \/ scheduler[r] = "timer" /\ (planned[r] = 0 \/ r \in over)
  \/ \E a \in Actors : \/ getting[a] \in {"limit", "stamp"}
                       \/ getting[a] = "sleep" /\ (sleep[a] = 0 \/ RoomAsked(a) \in over)

Tick ==
  /\ ~Pressing
  /\ planned' = [r \in Rooms |-> Down(planned[r])]
  /\ since' = [r \in Rooms |-> Upto(since[r], Interval)]
  /\ sleep' = [a \in Actors |-> Down(sleep[a])]
  /\ limiter' = [l \in Limiters |-> [limiter[l] EXCEPT !.since = Upto(@, Longest)]]
  /\ ago' = IF ago = None THEN None ELSE Upto(ago, Longest)
  /\ UNCHANGED <<watch, over, scheduler, getting, held, entry, events>>

Environment ==
  \/ \E w \in Watchers : Leave(w)
  \/ \E r \in Rooms : EndRoom(r)
  \/ \E c \in Callers, forced \in BOOLEAN : Call(c, forced)
  \/ \E n \in Limits : KeepLimit(n)
  \/ DropLimit

Next ==
  \/ \E w \in Watchers : Ask(w)
  \/ \E r \in Rooms : SchedulerStep(r)
  \/ \E a \in Actors : GetStep(a) \/ Succeed(a) \/ Fail(a)
  \/ Tick \/ Environment

\* Goroutines run, timers fire, and a request to the platform comes back.  Of the
\* goroutines woken when the limit allows an access, none loses every time.
Fairness ==
  /\ WF_vars(Tick)
  /\ \A r \in Rooms : WF_vars(SchedulerStep(r))
  /\ \A a \in Actors : WF_vars(GetStep(a) \/ Succeed(a) \/ Fail(a)) /\ SF_vars(Pass(a))

Spec == Init /\ [][Next]_vars /\ Fairness

-----------------------------------------------------------------------------
\* Types; a goroutine that has left is not kept in the list of waiters, and one that
\* waits at the limiter has one.
TypeOK ==
  /\ asking \subseteq Watchers /\ waiters \subseteq asking /\ over \subseteq Rooms
  /\ scheduler \in [Rooms -> {"unborn", "check", "timer", "get", "gone"}]
  /\ planned \in [Rooms -> Nat] /\ since \in [Rooms -> 0..Interval]
  /\ getting \in [Actors -> {"idle", "limit", "sleep", "request", "stamp"}]
  /\ held \in [Actors -> Limiters \cup {None}]
  /\ \A a \in Actors : getting[a] \in {"limit", "sleep"} => held[a] # None
  /\ sleep \in [Actors -> 0..Longest]
  /\ limiter \in [Limiters -> [min : Limits, since : 0..Longest]]
  /\ entry \in Limiters \cup {None} /\ ago \in 0..Longest \cup {None} /\ events \in 0..MaxEvents

\* While the platform keeps its limiter, the requests of all its rooms and callers
\* are as far apart as the limit in force: goroutines that sleep on one limiter do
\* not pass together, and a configuration update does not let anybody through
\* early (ratelimit.go:33-115).
Requests(a) == getting[a] # "request" /\ getting'[a] = "request"
LimitKept ==
  [][ago # None /\ ago' # None => \A a \in Actors : Requests(a) => ago >= limiter[entry].min]_vars

\* Whoever waits in GetInfoWithInterval is answered or leaves, however schedulers,
\* direct calls, failures and changes of the limit meet, as long as the room's
\* scheduler is not stopped (lives.go:371-403, 456-518).
AskingEnds ==
  \A w \in Watchers : w \in asking ~> w \notin asking \/ RoomOf[w] \in over
==============================================================================
