-------------------------- MODULE DailyTasksProofs --------------------------
(***************************************************************************)
(* Proofs about DailyTasks, for any threads: the callbacks keep the        *)
(* promises of TimerQueue, no child that died is forgotten, there is one   *)
(* spider at most, and pid_ names it.                                      *)
(***************************************************************************)
EXTENDS DailyTasks, TimerQueueProofs

ZombieInv ==
  /\ handler \in [Threads -> {"none", "wait", "forget"}]
  /\ NoZombieStays

-----------------------------------------------------------------------------
LEMMA ZombieInit == DailyInit => ZombieInv
BY DEF DailyInit, ZombieInv, NoZombieStays

(* A thread leaves the loop of waitpid only when no child is left to wait  *)
(* for, and a death that comes later is signalled again.                   *)
LEMMA ZombieStep == ZombieInv /\ [DailyNext]_dailyVars => ZombieInv'
<1> SUFFICES ASSUME ZombieInv, [DailyNext]_dailyVars PROVE ZombieInv'
  OBVIOUS
<1> USE DEF ZombieInv, NoZombieStays
<1>1. CASE TimerStep
  BY <1>1 DEF TimerStep, childVars, signalVars
<1>2. CASE Fork \/ StorePid
  BY <1>2 DEF Fork, StorePid, childVars, signalVars
<1>3. CASE TestPid \/ Kill \/ Update
  BY <1>3 DEF TestPid, Kill, Update, childVars, signalVars
<1>4. ASSUME NEW c \in Alive, Exec(c) PROVE ZombieInv'
  BY <1>4 DEF Exec, signalVars
<1>5. ASSUME NEW c \in Alive, Die(c) PROVE ZombieInv'
  BY <1>5 DEF Die
<1>6. ASSUME NEW c \in Alive, CopyUpdates(c) PROVE ZombieInv'
  BY <1>6 DEF CopyUpdates, signalVars
<1>7. ASSUME NEW t \in Threads, HandlerStep(t) PROVE ZombieInv'
  <2>1. CASE Deliver(t)
    BY <2>1 DEF Deliver, childVars
  <2>2. CASE WaitPid(t)
    <3>1. CASE zombies = {}
      BY <2>2, <3>1 DEF WaitPid, Waited
    <3>2. CASE zombies # {}
      BY <1>7, <2>2, <3>2 DEF HandlerStep, WaitPid, Waited
    <3> QED
      BY <3>1, <3>2
  <2>3. CASE ForgetPid(t)
    <3>1. /\ handler' = [handler EXCEPT ![t] = "none"] /\ handler[t] = "forget"
          /\ UNCHANGED <<zombies, sigchld, server>>
      BY <2>3 DEF ForgetPid, childVars
    <3>2. \A u \in Threads : handler[u] = "wait" => handler'[u] = "wait"
      BY <3>1
    <3> QED
      BY <3>1, <3>2
  <2> QED
    BY <1>7, <2>1, <2>2, <2>3 DEF HandlerStep
<1>8. CASE UNCHANGED dailyVars
  BY <1>8 DEF dailyVars, childVars, signalVars
<1> QED
  BY <1>1, <1>2, <1>3, <1>4, <1>5, <1>6, <1>7, <1>8 DEF DailyNext

-----------------------------------------------------------------------------
(* A child that died is waited for: SIGCHLD is pending or a handler is in  *)
(* its loop, whatever threads run the handler, and however many children   *)
(* one signal stands for.                                                  *)
THEOREM NoZombieStaysHolds == DailySpec => []NoZombieStays
<1>1. ZombieInv => NoZombieStays
  BY DEF ZombieInv
<1> QED
  BY <1>1, ZombieInit, ZombieStep, PTL DEF DailySpec

(* To TimerQueue, a callback with its processes and signals is one step or *)
(* none: DailyTasks implements it.                                         *)
THEOREM DailyImplementsTimers == DailySpec => Spec
<1>1. DailyInit => Init
  BY DEF DailyInit
<1>2. [DailyNext]_dailyVars => [Next]_vars
  <2> SUFFICES ASSUME [DailyNext]_dailyVars PROVE Next \/ UNCHANGED vars
    OBVIOUS
  <2>1. CASE TimerStep
    BY <2>1 DEF TimerStep, Next
  <2>2. CASE Fork \/ TestPid \/ Kill
    BY <2>2 DEF Fork, TestPid, Kill
  <2>3. CASE StorePid \/ Update
    BY <2>3 DEF StorePid, Update, Next
  <2>4. ASSUME NEW c \in Alive, Exec(c) \/ Die(c) \/ CopyUpdates(c) PROVE UNCHANGED vars
    BY <2>4 DEF Exec, Die, CopyUpdates
  <2>5. ASSUME NEW t \in Threads, HandlerStep(t) PROVE UNCHANGED vars
    BY <2>5 DEF HandlerStep, Deliver, WaitPid, ForgetPid
  <2>6. CASE UNCHANGED dailyVars
    BY <2>6 DEF dailyVars
  <2> QED
    BY <2>1, <2>2, <2>3, <2>4, <2>5, <2>6 DEF DailyNext
<1> QED
  BY <1>1, <1>2, PTL DEF DailySpec, Spec

(* Every task keeps exactly one timer, too, whatever its children do.      *)
THEOREM DailyOneTimerPerTask == DailySpec => []OneTimerPerTask
BY DailyImplementsTimers, OneTimerPerTaskHolds, PTL

-----------------------------------------------------------------------------
(* A child is signalled in the callback of the database, and before the    *)
(* next tick it is dead and forgotten: the callback of the spider finds no *)
(* child and no handler.  A handler only runs while no child is alive.     *)
Idle == Alive = {} /\ Quiet

Dying ==
  /\ Alive \subseteq told /\ setup = "done"
  /\ ~CallBackDue("spider")
  /\ loop = "wait" => ~Readable

OneChild(name) == Alive = {} \/ (Alive = {name} /\ Quiet)

CallInv ==
  /\ call = "store" =>
       /\ CallBackDue("spider") /\ OneChild(value)
       /\ value # NoPid => value \in Alive \/ diedEarly
  /\ call # "store" =>
       /\ OneChild(pid)
       /\ pid # NoPid => pid \in Alive \/ diedEarly \/ ~Quiet
  /\ call \in {"kill", "update"} => CallBackDue("database")
  /\ call = "kill" => Alive = {} \/ value = pid
  /\ call = "update" => Alive \subseteq told
  /\ call = "none" /\ IsNext("spider") => Idle \/ Dying

ChildInv ==
  /\ handler \in [Threads -> {"none", "wait", "forget"}]
  /\ Alive \subseteq Nat /\ \E c : Alive \subseteq {c}
  /\ server => call \in {"none", "store", "kill", "update"} /\ CallInv

LEMMA ChildInit == DailyInit => ChildInv
BY DEF DailyInit, ChildInv, CallInv, Alive, Idle, OneChild, Quiet, NoPid

LEMMA DueIsNext ==
  ASSUME IInv, OrderInv, NEW task \in Tasks, CallBackDue(task)
  PROVE  IsNext(task) /\ setup = "done" /\ loop = "callbacks" /\ activeTimers # {}
BY ActiveIsNext DEF CallBackDue

LEMMA NextIsOne == IInv => ~(IsNext("spider") /\ IsNext("database"))
BY DEF IInv, TypeOK, IsNext, Tasks

(* Steps of the timers: only a tick happens while a callback runs, and no  *)
(* tick while a child that was signalled is alive.                         *)
LEMMA TimerStepChild ==
  ASSUME IInv, OrderInv, ChildInv, TimerStep
  PROVE  ChildInv'
<1>1. /\ server /\ server' = server /\ CallInv
      /\ UNCHANGED <<pid, call, value, fresh, spiders, copies, told, sigchld, handler, diedEarly>>
  BY DEF TimerStep, MainRuns, childVars, signalVars, ChildInv
<1>2. Alive' = Alive /\ Quiet' = Quiet /\ OneChild(pid)' = OneChild(pid)
      /\ OneChild(value)' = OneChild(value)
  BY <1>1 DEF Alive, Quiet, OneChild
<1>3. IsNext("spider")' = IsNext("spider")
  BY DEF TimerStep, ReadTime, AddTimer, HandleRead, Rearm, Tick, IsNext
<1>4. ASSUME NEW task \in Tasks, CallBackDue(task) PROVE CallBackDue(task)'
  <2>1. loop = "callbacks" /\ activeTimers # {} /\ setup = "done"
    BY <1>4, DueIsNext
  <2>2. UNCHANGED <<loop, activeTimers>>
    BY <2>1 DEF TimerStep, ReadTime, AddTimer, HandleRead, Rearm, Tick, Tasks
  <2> QED
    BY <1>4, <2>2 DEF CallBackDue
<1>5. ASSUME Dying PROVE (Idle \/ Dying)'
  <2>1. CASE Tick /\ Quiet /\ told = {}
    BY <1>2, <1>5, <2>1 DEF Idle, Dying
  <2>2. CASE Rearm
    <3>1. setup' = setup /\ loop' = "wait" /\ ~Readable'
      BY <2>2, RearmedAhead DEF Rearm
    <3> QED
      BY <1>1, <1>2, <1>5, <3>1 DEF Dying, CallBackDue
  <2>3. CASE ReadTime \/ HandleRead \/ \E task \in Tasks : AddTimer(task)
    BY <1>5, <2>3 DEF ReadTime, HandleRead, AddTimer, Dying, Tasks
  <2> QED
    BY <2>1, <2>2, <2>3 DEF TimerStep
<1>6. Idle => Idle'
  BY <1>2 DEF Idle
<1>7. CallInv'
  BY <1>1, <1>2, <1>3, <1>4, <1>5, <1>6 DEF CallInv, Tasks
<1> QED
  BY <1>1, <1>2, <1>7 DEF ChildInv

(* The steps of the two callbacks.                                         *)
LEMMA SpiderStepChild ==
  ASSUME IInv, OrderInv, ChildInv, Fork \/ StorePid
  PROVE  ChildInv'
<1>1. server /\ server' = server /\ handler' = handler /\ sigchld' = sigchld /\ CallInv
  BY DEF Fork, StorePid, MainRuns, ChildInv, signalVars
<1>2. Quiet' = Quiet
  BY <1>1 DEF Quiet
<1>3. CASE Fork
  <2>1. /\ call = "none" /\ call' = "store" /\ CallBackDue("spider")
        /\ UNCHANGED <<vars, spiders, copies>>
    BY <1>3 DEF Fork
  <2>2. Idle
    <3>1. IsNext("spider")
      BY <2>1, DueIsNext DEF Tasks
    <3> QED
      BY <1>1, <2>1, <3>1 DEF CallInv, Dying
  <2>3. PICK child \in Nat :
          \/ value' = child /\ fresh' = fresh \cup {child}
          \/ value' = NoPid /\ fresh' = fresh
    BY <1>3 DEF Fork, IInv, TypeOK, Tasks
  <2>4. \/ value' = child /\ Alive' = {child}
        \/ value' = NoPid /\ Alive' = {}
    BY <2>1, <2>2, <2>3 DEF Idle, Alive
  <2>5. CallBackDue("spider")'
    BY <2>1 DEF vars, CallBackDue
  <2>6. CallInv'
    BY <1>2, <2>1, <2>2, <2>4, <2>5 DEF CallInv, OneChild, Idle
  <2> QED
    BY <1>1, <2>1, <2>4, <2>6 DEF ChildInv
<1>4. CASE StorePid
  <2>1. /\ call = "store" /\ call' = "none" /\ pid' = value /\ RunCallBack
        /\ UNCHANGED <<fresh, spiders, copies, told, diedEarly>>
    BY <1>4 DEF StorePid, childVars
  <2>2. Alive' = Alive
    BY <2>1 DEF Alive
  <2>3. ~IsNext("spider")'
    <3>1. IsNext("spider")
      BY <1>1, <2>1, DueIsNext DEF CallInv, Tasks
    <3> QED
      BY <2>1, <3>1, RunPassesTurn DEF Tasks
  <2>4. CallInv'
    BY <1>1, <1>2, <2>1, <2>2, <2>3 DEF CallInv, OneChild
  <2> QED
    BY <1>1, <2>1, <2>2, <2>4 DEF ChildInv
<1> QED
  BY <1>3, <1>4

LEMMA UpdateStepChild ==
  ASSUME IInv, OrderInv, ChildInv, TestPid \/ Kill \/ Update
  PROVE  ChildInv'
<1>1. /\ server /\ server' = server /\ CallInv
      /\ UNCHANGED <<pid, handler, sigchld, fresh, spiders, copies, diedEarly>>
  BY DEF TestPid, Kill, Update, MainRuns, ChildInv, signalVars, childVars
<1>2. Quiet' = Quiet /\ Alive' = Alive /\ OneChild(pid)' = OneChild(pid) /\ NoPid \notin Alive
  BY <1>1 DEF Quiet, Alive, OneChild, ChildInv, NoPid
<1>3. CASE TestPid
  <2>1. /\ call = "none" /\ CallBackDue("database") /\ value' = pid /\ UNCHANGED <<vars, told>>
        /\ call' = IF pid # NoPid THEN "kill" ELSE "update"
    BY <1>3 DEF TestPid, childVars, KnowsSpider
  <2>2. CallBackDue("database")'
    BY <2>1 DEF vars, CallBackDue
  <2>3. CallInv'
    BY <1>1, <1>2, <2>1, <2>2 DEF CallInv, OneChild
  <2> QED
    BY <1>1, <1>2, <2>1, <2>3 DEF ChildInv
<1>4. CASE Kill
  <2>1. /\ call = "kill" /\ call' = "update" /\ UNCHANGED <<vars, value>>
        /\ \E p \in {value, pid} : told' = told \cup Targets(p)
    BY <1>4 DEF Kill
  <2>2. CallBackDue("database")'
    BY <1>1, <2>1 DEF vars, CallBackDue, CallInv
  <2>3. Alive \subseteq told'
    <3>1. Alive = {} \/ (Alive = {pid} /\ value = pid)
      BY <1>1, <2>1 DEF CallInv, OneChild
    <3> QED
      BY <2>1, <3>1 DEF Targets
  <2>4. CallInv'
    BY <1>1, <1>2, <2>1, <2>2, <2>3 DEF CallInv
  <2> QED
    BY <1>1, <1>2, <2>1, <2>4 DEF ChildInv
<1>5. CASE Update
  <2>1. /\ call = "update" /\ call' = "none" /\ RunCallBack /\ told' = told
    BY <1>5 DEF Update, childVars
  <2>2. /\ loop' = "callbacks" /\ setup' = "done" /\ activeTimers' = {}
    <3>1. IsNext("database") /\ setup = "done" /\ loop = "callbacks"
      BY <1>1, <2>1, DueIsNext DEF CallInv, Tasks
    <3> QED
      BY <2>1, <3>1, RunPassesTurn DEF RunCallBack, Tasks
  <2>3. Dying'
    BY <1>1, <1>2, <2>1, <2>2 DEF CallInv, Dying, CallBackDue
  <2>4. CallInv'
    BY <1>1, <1>2, <2>1, <2>3 DEF CallInv
  <2> QED
    BY <1>1, <1>2, <2>1, <2>4 DEF ChildInv
<1> QED
  BY <1>3, <1>4, <1>5

(* The steps of a child: a death leaves none alive.                        *)
LEMMA ChildStepChild ==
  ASSUME IInv, ChildInv, NEW c \in Alive, Exec(c) \/ Die(c) \/ CopyUpdates(c)
  PROVE  ChildInv'
<1>1. UNCHANGED vars /\ UNCHANGED <<pid, call, value, handler>>
  BY DEF Exec, Die, CopyUpdates, signalVars
<1>2. /\ \A task \in Tasks : CallBackDue(task)' = CallBackDue(task) /\ IsNext(task)' = IsNext(task)
      /\ Readable' = Readable
  BY <1>1 DEF vars, CallBackDue, IsNext, Readable
<1>3. CASE Exec(c)
  <2>1. UNCHANGED <<told, sigchld, server, diedEarly>> /\ Alive' = Alive
    BY <1>3 DEF Exec, signalVars, Alive
  <2>2. Quiet' = Quiet
    BY <1>1, <2>1 DEF Quiet
  <2>3. CallInv => CallInv'
    BY <1>1, <1>2, <2>1, <2>2 DEF CallInv, OneChild, Idle, Dying, vars, Tasks
  <2> QED
    BY <1>1, <2>1, <2>3 DEF ChildInv
<1>4. CASE Die(c)
  <2>1. /\ sigchld' = TRUE /\ server' = server /\ diedEarly' = (diedEarly \/ call = "store")
        /\ Alive' = {}
    BY <1>4 DEF Die, Alive, ChildInv
  <2>2. ~Quiet'
    BY <2>1 DEF Quiet
  <2>3. CallInv => CallInv'
    BY <1>1, <1>2, <2>1, <2>2 DEF CallInv, OneChild, Idle, Dying, vars, Tasks
  <2> QED
    BY <1>1, <2>1, <2>3 DEF ChildInv
<1>5. CASE CopyUpdates(c)
  <2>1. server' = FALSE /\ Alive' = Alive
    BY <1>5 DEF CopyUpdates, Alive
  <2> QED
    BY <1>1, <2>1 DEF ChildInv
<1> QED
  BY <1>3, <1>4, <1>5

LEMMA HandlerStepChild ==
  ASSUME IInv, ChildInv, NEW t \in Threads, HandlerStep(t)
  PROVE  ChildInv'
<1>1. /\ server /\ server' = server /\ CallInv
      /\ UNCHANGED vars /\ UNCHANGED <<call, value, fresh, spiders, copies, told, diedEarly>>
  BY DEF HandlerStep, Deliver, WaitPid, ForgetPid, childVars, ChildInv
<1>2. /\ \A task \in Tasks : CallBackDue(task)' = CallBackDue(task) /\ IsNext(task)' = IsNext(task)
      /\ Readable' = Readable /\ Alive' = Alive
  BY <1>1 DEF vars, CallBackDue, IsNext, Readable, Alive
<1>3. ~Quiet
  BY DEF HandlerStep, Deliver, WaitPid, ForgetPid, Quiet
<1>4. Alive = {}
  BY <1>1, <1>3 DEF CallInv, OneChild
<1>5. handler' \in [Threads -> {"none", "wait", "forget"}]
  BY DEF HandlerStep, Deliver, WaitPid, ForgetPid, ChildInv
<1>6. pid' = NoPid \/ (pid' = pid /\ ~Quiet')
  <2>1. CASE Deliver(t) \/ WaitPid(t)
    <3>1. pid' = pid /\ handler'[t] # "none"
      BY <2>1 DEF Deliver, WaitPid, ChildInv
    <3> QED
      BY <3>1 DEF Quiet
  <2>2. CASE ForgetPid(t)
    BY <2>2 DEF ForgetPid, Forgotten
  <2> QED
    BY <2>1, <2>2 DEF HandlerStep
<1>7. CallInv'
  BY <1>1, <1>2, <1>3, <1>4, <1>6 DEF CallInv, OneChild, Idle, Dying, vars, Tasks
<1> QED
  BY <1>1, <1>2, <1>5, <1>7 DEF ChildInv

LEMMA ChildStep ==
  IInv /\ (SetupWithinTheHour => OrderInv) /\ (SetupWithinTheHour => ChildInv)
    /\ [DailyNext]_dailyVars => (SetupWithinTheHour => ChildInv)'
<1> SUFFICES ASSUME IInv, SetupWithinTheHour, OrderInv, ChildInv, [DailyNext]_dailyVars
             PROVE  ChildInv'
  BY DEF SetupWithinTheHour
<1>1. CASE DailyNext
  BY <1>1, TimerStepChild, SpiderStepChild, UpdateStepChild, ChildStepChild, HandlerStepChild
     DEF DailyNext
<1>2. CASE UNCHANGED dailyVars
  <2>1. /\ Alive' = Alive /\ Quiet' = Quiet /\ Readable' = Readable
        /\ \A task \in Tasks : CallBackDue(task)' = CallBackDue(task) /\ IsNext(task)' = IsNext(task)
    BY <1>2 DEF dailyVars, childVars, signalVars, vars, Alive, Quiet, Readable, CallBackDue, IsNext
  <2> QED
    BY <1>2, <2>1 DEF dailyVars, childVars, signalVars, vars, ChildInv, CallInv, OneChild, Idle,
       Dying, Tasks
<1> QED
  BY <1>1, <1>2

THEOREM ChildrenInOrder == DailySpec => [](SetupWithinTheHour => ChildInv)
<1>1. Spec => []IInv
  BY InitInv, NextInv, PTL DEF Spec
<1>2. DailyInit => (SetupWithinTheHour => ChildInv)
  BY ChildInit
<1> QED
  BY <1>1, <1>2, ChildStep, DailyImplementsTimers, InOrder, PTL DEF DailySpec

(* Two children are never alive at once, however long the callbacks take   *)
(* and whichever threads run the handler.                                  *)
THEOREM OneSpiderHolds == DailySpec => [](SetupWithinTheHour => OneSpider)
<1>1. ChildInv => OneSpider
  <2> SUFFICES ASSUME ChildInv PROVE Cardinality(Alive) <= 1
    BY DEF OneSpider
  <2>1. PICK c : Alive \subseteq {c}
    BY DEF ChildInv
  <2>2. Alive = {} \/ Alive = {c}
    BY <2>1
  <2>3. Cardinality({c}) = 1
    BY FS_Singleton
  <2>4. Cardinality({}) = 0
    BY FS_EmptySet
  <2> QED
    BY <2>2, <2>3, <2>4
<1> QED
  BY <1>1, ChildrenInOrder, PTL

(* pid_ names the child that is alive whenever no handler is due, and one  *)
(* that is gone only if it died before its pid was stored.                 *)
THEOREM PidIsTheSpiderHolds == DailySpec => [](SetupWithinTheHour => PidIsTheSpider)
<1>1. ChildInv => PidIsTheSpider
  BY DEF ChildInv, CallInv, OneChild, PidIsTheSpider
<1> QED
  BY <1>1, ChildrenInOrder, PTL

(* What TimerQueue promises of the order and of the timerfd.               *)
THEOREM DailySpiderFirst == DailySpec => [](SetupWithinTheHour => SpiderFirst)
BY DailyImplementsTimers, SpiderFirstHolds, PTL

THEOREM DailyArmedForEarliest == DailySpec => []ArmedForEarliest
BY DailyImplementsTimers, ArmedForEarliestHolds, PTL

=============================================================================
