----------------------------- MODULE TimerQueue -----------------------------
(***************************************************************************)
(* TimerQueue with the two daily tasks HttpServer::setUpdateTask gives it: *)
(* the spider at two o'clock, the database update at three.                *)
(*                                                                         *)
(* Real time passes in ticks, TicksPerSecond of them in a second.          *)
(* Timestamp::now adds tv_usec / 1000, milliseconds, to a value in         *)
(* microseconds: the fraction of a second is divided by Shrink before it   *)
(* is added.  Timestamps are in units of 1 / (TicksPerSecond * Shrink)     *)
(* seconds.  A day is scaled down to Day seconds.                          *)
(***************************************************************************)
EXTENDS Integers, FiniteSets, FiniteSetsExt

CONSTANTS
  TicksPerSecond,
  Shrink,           \* stands for the division of tv_usec by 1000
  Day,              \* seconds in a day
  TwoOClock,        \* second of the day at which the spider is due
  ThreeOClock,      \* second of the day at which the update is due
  MaxSetup,         \* bound: ticks setUpdateTask takes
  MaxBusy,          \* bound: ticks the callbacks of one expiration take
  MaxClock          \* bound: ticks observed

ASSUME TimerAssumption ==
  /\ {TicksPerSecond, Shrink, Day, MaxClock} \subseteq Nat \ {0}
  /\ {TwoOClock, ThreeOClock} \subseteq 0..(Day - 1) /\ TwoOClock < ThreeOClock
  /\ {MaxSetup, MaxBusy} \subseteq Nat

VARIABLES
  clock,            \* real time, in ticks
  setup,            \* where setUpdateTask is
  curtime,          \* second read at the start of setUpdateTask
  timers,           \* timers_: <<expiration, task>>
  timerfd,          \* tick at which timerfd_ expires, Disarmed if it does not
  loop,             \* the loop thread: waiting, or inside handleRead
  now,              \* the local variable of handleRead
  activeTimers,     \* activeTimers_ whose callback did not run yet
  ran,              \* activeTimers_ whose callback ran
  spent,            \* ticks spent in setUpdateTask, or in these callbacks
  last,             \* history: tick of every task's last run, at first the start
  runs              \* history: how often every task ran

vars == <<clock, setup, curtime, timers, timerfd, loop, now, activeTimers, ran, spent,
          last, runs>>

Tasks == {"spider", "database"}
Disarmed == -1
UnitsPerSecond == TicksPerSecond * Shrink

(* Timestamp::now at tick c.                                               *)
Now(c) == ((c \div TicksPerSecond) * UnitsPerSecond) + (c % TicksPerSecond)

(* The same instant in the units of a timestamp.                           *)
RealTime(c) == c * Shrink

Expirations(T) == {timer[1] : timer \in T}

(* Fault: whole seconds only, tv_nsec is left 0.                           *)
ExpiryTick_WholeSeconds(when) ==
  LET left == when - Now(clock) IN
  IF left <= 0 THEN Disarmed ELSE clock + (left \div UnitsPerSecond) * TicksPerSecond

(* resetTimerfd: a time that has come is replaced by 0, and an it_value of *)
(* 0 disarms a timerfd.                                                    *)
ExpiryTick(when) ==
  LET left == when - Now(clock) IN
  IF left <= 0 THEN Disarmed ELSE clock + (left + Shrink - 1) \div Shrink

Readable == timerfd # Disarmed /\ timerfd <= clock

-----------------------------------------------------------------------------
(* setUpdateTask, before loop() is entered.                                *)

ReadTime ==
  /\ setup = "readTime"
  /\ setup' = "spider"
  /\ curtime' = clock \div TicksPerSecond
  /\ UNCHANGED <<clock, timers, timerfd, loop, now, activeTimers, ran, spent, last, runs>>

(* Fault: every task is moved to the next day by its own hour.             *)
FirstDay_PerTask(task) ==
  LET hour == IF task = "spider" THEN TwoOClock ELSE ThreeOClock IN
  curtime \div Day + (IF curtime % Day >= hour THEN 1 ELSE 0)

(* After two o'clock both tasks are due tomorrow.                          *)
FirstDay(task) ==
  curtime \div Day + (IF curtime % Day >= TwoOClock THEN 1 ELSE 0)

FirstTime(task) ==
  (FirstDay(task) * Day + (IF task = "spider" THEN TwoOClock ELSE ThreeOClock))
    * UnitsPerSecond

(* runAt on the loop's own thread: insertTimer, and resetTimerfd if the    *)
(* new timer is the earliest.                                              *)
AddTimer(task) ==
  LET when == FirstTime(task)
      updateTimerfd == \A w \in Expirations(timers) : when < w
  IN
  /\ setup = task
  /\ setup' = IF task = "spider" THEN "database" ELSE "done"
  /\ timers' = timers \cup {<<when, task>>}
  /\ timerfd' = IF updateTimerfd THEN ExpiryTick(when) ELSE timerfd
  /\ spent' = IF task = "spider" THEN spent ELSE 0
  /\ UNCHANGED <<clock, curtime, loop, now, activeTimers, ran, last, runs>>

-----------------------------------------------------------------------------
(* TimerQueue::handleRead.                                                 *)

Expired(n) == {timer \in timers : timer[1] <= n}

HandleRead ==
  /\ setup = "done"
  /\ loop = "wait"
  /\ Readable
  /\ loop' = "callbacks"
  /\ now' = Now(clock)
  /\ activeTimers' = Expired(Now(clock))
  /\ timers' = timers \ Expired(Now(clock))
  /\ UNCHANGED <<clock, setup, curtime, timerfd, ran, spent, last, runs>>

(* The callbacks run in the order of expiration.                           *)
RunCallBack ==
  /\ loop = "callbacks"
  /\ \E timer \in activeTimers :
       /\ timer[1] = Min(Expirations(activeTimers))
       /\ activeTimers' = activeTimers \ {timer}
       /\ ran' = ran \cup {timer}
       /\ last' = [last EXCEPT ![timer[2]] = clock]
       /\ runs' = [runs EXCEPT ![timer[2]] = @ + 1]
  /\ UNCHANGED <<clock, setup, curtime, timers, timerfd, loop, now, spent>>

(* Timer::resetTimer, counted from now as read before the callbacks.       *)
Repeated(timer) == <<now + Day * UnitsPerSecond, timer[2]>>

(* Fault: a repeating timer is not put back.                               *)
Reinserted_Dropped(T) == timers \cup {Repeated(timer) : timer \in {t \in T : t[2] = "spider"}}

Reinserted(T) == timers \cup {Repeated(timer) : timer \in T}

(* Both tasks repeat.  timerfd_settime also clears expirations that were   *)
(* not read.                                                               *)
Rearm ==
  /\ loop = "callbacks"
  /\ activeTimers = {}
  /\ loop' = "wait"
  /\ timers' = Reinserted(ran)
  /\ timerfd' = IF timers' = {} THEN Disarmed ELSE ExpiryTick(Min(Expirations(timers')))
  /\ ran' = {}
  /\ spent' = 0
  /\ UNCHANGED <<clock, setup, curtime, now, activeTimers, last, runs>>

-----------------------------------------------------------------------------
(* Time passes while setUpdateTask or a callback runs, within the bounds,  *)
(* and while the loop waits; a waiting loop handles a readable timerfd     *)
(* within the tick.                                                        *)
Tick ==
  /\ clock < MaxClock
  /\ clock' = clock + 1
  /\ \/ setup # "done" /\ spent < MaxSetup /\ spent' = spent + 1
     \/ loop = "callbacks" /\ spent < MaxBusy /\ spent' = spent + 1
     \/ setup = "done" /\ loop = "wait" /\ ~Readable /\ spent' = spent
  /\ UNCHANGED <<setup, curtime, timers, timerfd, loop, now, activeTimers, ran, last, runs>>

(* The server is started at any time of the first day.                     *)
Init ==
  /\ clock \in 0..(Day * TicksPerSecond - 1)
  /\ setup = "readTime"
  /\ curtime = 0
  /\ timers = {}
  /\ timerfd = Disarmed
  /\ loop = "wait"
  /\ now = 0
  /\ activeTimers = {}
  /\ ran = {}
  /\ spent = 0
  /\ last = [task \in Tasks |-> clock]
  /\ runs = [task \in Tasks |-> 0]

Next ==
  \/ ReadTime
  \/ \E task \in Tasks : AddTimer(task)
  \/ HandleRead
  \/ RunCallBack
  \/ Rearm
  \/ Tick

Spec == Init /\ [][Next]_vars

-----------------------------------------------------------------------------
(* The type invariant.                                                     *)
TypeOK ==
  /\ clock \in Nat
  /\ setup \in {"readTime", "spider", "database", "done"}
  /\ curtime \in Nat
  /\ \A T \in {timers, activeTimers, ran} : T \subseteq Nat \X Tasks
  /\ timerfd \in Nat \cup {Disarmed}
  /\ loop \in {"wait", "callbacks"}
  /\ now \in 0..RealTime(clock)
  /\ spent \in 0..(MaxSetup + MaxBusy)
  /\ last \in [Tasks -> Nat]
  /\ runs \in [Tasks -> Nat]

(* After setUpdateTask every task has exactly one timer: it waits in       *)
(* timers_, or it is among the expired timers of this handleRead.          *)
OneTimerPerTask ==
  setup = "done" =>
    \A task \in Tasks :
      Cardinality({timer \in timers \cup activeTimers \cup ran : timer[2] = task}) = 1

(* Between two handlers the timerfd is set for the earliest timer: it      *)
(* expires not before that timer is due by now()'s reckoning at the        *)
(* moment of arming, and within a second of it, although now() lags by up  *)
(* to a second; it is disarmed only when that timer is due already.        *)
ArmedForEarliest ==
  setup = "done" /\ loop = "wait" =>
    LET earliest == Min(Expirations(timers)) IN
    IF timerfd = Disarmed THEN earliest <= Now(clock)
    ELSE /\ RealTime(timerfd) >= earliest
         /\ RealTime(timerfd) < earliest + UnitsPerSecond + Shrink

(* No callback is run before its timer is due by the real clock.           *)
NeverEarly ==
  \A timer \in activeTimers : timer[1] <= RealTime(clock)

(* Every run of the update follows a run of the spider, day after day.     *)
SpiderFirst == runs["spider"] - runs["database"] \in {0, 1}

(* Both tasks run every day.  Two seconds allow for the lag of now() and   *)
(* for callbacks that run before; the first run is due within two days,    *)
(* since a start after two o'clock waits for the next day.                 *)
RunsDaily ==
  \A task \in Tasks :
    clock - last[task] <= ((IF runs[task] = 0 THEN 2 * Day ELSE Day) + 2) * TicksPerSecond

=============================================================================
