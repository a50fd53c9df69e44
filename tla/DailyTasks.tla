----------------------------- MODULE DailyTasks -----------------------------
(***************************************************************************)
(* What the callbacks of the two daily timers do with processes:           *)
(* HttpServer::runSpider forks the spider and stores its pid in pid_,      *)
(* updateDataBase signals pid_, and handler, which runs for SIGCHLD on any *)
(* thread that does not run it yet, waits for dead children and forgets    *)
(* pid_.  Everything but the timers happens within a tick.                 *)
(***************************************************************************)
EXTENDS TimerQueue

CONSTANT Others      \* the threads besides the main one

Main == "main"
Threads == {Main} \cup Others
NoPid == -1

VARIABLES
  pid,          \* pid_
  call,         \* where the callback of the main thread is
  value,        \* what fork returned, or the pid_ that was tested
  fresh,        \* children between fork and execl
  spiders,      \* children that run spider.py
  copies,       \* children in which execl failed: they go on as the server
  told,         \* children to which SIGQUIT was sent
  zombies,      \* children that died and were not waited for
  sigchld,      \* SIGCHLD is pending
  handler,      \* where every thread is in HttpServer::handler
  server,       \* the server runs
  diedEarly     \* history: the last child died before its pid was stored

childVars == <<fresh, spiders, copies, told, zombies>>
signalVars == <<sigchld, handler>>
dailyVars == <<vars, pid, call, value, childVars, signalVars, server, diedEarly>>

Alive == fresh \cup spiders \cup copies

DailyInit ==
  /\ Init
  /\ pid = NoPid /\ call = "none" /\ value = NoPid
  /\ fresh = {} /\ spiders = {} /\ copies = {} /\ told = {} /\ zombies = {}
  /\ sigchld = FALSE
  /\ handler = [t \in Threads |-> "none"]
  /\ server = TRUE
  /\ diedEarly = FALSE

(* The next callback of handleRead.                                        *)
CallBackDue(task) ==
  /\ loop = "callbacks"
  /\ \E timer \in activeTimers :
       timer[1] = Min(Expirations(activeTimers)) /\ timer[2] = task

(* A signal handler suspends the code of its thread.                       *)
MainRuns == server /\ handler[Main] = "none"

-----------------------------------------------------------------------------
(* HttpServer::runSpider.  Pids are counted; fork may fail.                *)

Fork ==
  /\ MainRuns
  /\ call = "none" /\ CallBackDue("spider")
  /\ call' = "store"
  /\ LET child == runs["spider"] + 1 IN
       \/ value' = child /\ fresh' = fresh \cup {child}
       \/ value' = NoPid /\ fresh' = fresh
  /\ diedEarly' = FALSE
  /\ UNCHANGED <<vars, pid, spiders, copies, told, zombies, signalVars, server>>

StorePid ==
  /\ MainRuns
  /\ call = "store"
  /\ call' = "none"
  /\ pid' = value
  /\ RunCallBack
  /\ UNCHANGED <<value, childVars, signalVars, server, diedEarly>>

-----------------------------------------------------------------------------
(* HttpServer::updateDataBase.                                             *)

(* Fault: pid_ == -1.                                                      *)
KnowsSpider_Negated == pid = NoPid

KnowsSpider == pid # NoPid

TestPid ==
  /\ MainRuns
  /\ call = "none" /\ CallBackDue("database")
  /\ call' = IF KnowsSpider THEN "kill" ELSE "update"
  /\ value' = pid
  /\ UNCHANGED <<vars, pid, childVars, signalVars, server, diedEarly>>

(* A pid of -1 stands for every process but the caller.                    *)
Targets(p) == IF p = NoPid THEN Alive ELSE Alive \cap {p}

(* The argument is pid_, read again, or what the test read: pid_ is        *)
(* neither atomic nor locked.                                              *)
Kill ==
  /\ MainRuns
  /\ call = "kill"
  /\ call' = "update"
  /\ \E p \in {value, pid} : told' = told \cup Targets(p)
  /\ UNCHANGED <<vars, pid, value, fresh, spiders, copies, zombies, signalVars, server, diedEarly>>

(* dataBase_->updateDataBase, see QuestionStore, and the return.           *)
Update ==
  /\ MainRuns
  /\ call = "update"
  /\ call' = "none"
  /\ RunCallBack
  /\ UNCHANGED <<pid, value, childVars, signalVars, server, diedEarly>>

-----------------------------------------------------------------------------
(* The children.                                                           *)

Exec(c) ==
  /\ c \in fresh
  /\ fresh' = fresh \ {c}
  /\ \/ spiders' = spiders \cup {c} /\ copies' = copies
     \/ copies' = copies \cup {c} /\ spiders' = spiders
  /\ UNCHANGED <<vars, pid, call, value, told, zombies, signalVars, server, diedEarly>>

(* A child ends, by itself or because of SIGQUIT.                          *)
Die(c) ==
  /\ c \in Alive
  /\ fresh' = fresh \ {c} /\ spiders' = spiders \ {c} /\ copies' = copies \ {c}
  /\ told' = told \ {c}
  /\ zombies' = zombies \cup {c}
  /\ sigchld' = TRUE
  /\ diedEarly' = (diedEarly \/ call = "store")
  /\ UNCHANGED <<vars, pid, call, value, handler, server>>

(* updateDataBase in a copy, which wakes up at three o'clock too: its pid_ *)
(* is 0, which stands for its process group, the server and itself.        *)
CopyUpdates(c) ==
  /\ c \in copies
  /\ \E timer \in timers \cup activeTimers :
       timer[2] = "database" /\ timer[1] <= Now(clock)
  /\ told' = Alive
  /\ server' = FALSE
  /\ UNCHANGED <<vars, pid, call, value, fresh, spiders, copies, zombies, signalVars, diedEarly>>

-----------------------------------------------------------------------------
(* HttpServer::handler.  SIGCHLD is blocked in a thread that runs it.      *)

Deliver(t) ==
  /\ sigchld /\ handler[t] = "none"
  /\ sigchld' = FALSE
  /\ handler' = [handler EXCEPT ![t] = "wait"]
  /\ UNCHANGED <<vars, pid, call, value, childVars, server, diedEarly>>

(* Fault: waitpid(pid_, ...).                                              *)
Waited_OfPid == zombies \cap {pid}

(* waitpid(-1, ...).                                                       *)
Waited == zombies

WaitPid(t) ==
  /\ handler[t] = "wait"
  /\ IF Waited = {}
       THEN handler' = [handler EXCEPT ![t] = "forget"] /\ zombies' = zombies
       ELSE handler' = handler /\ \E c \in Waited : zombies' = zombies \ {c}
  /\ UNCHANGED <<vars, pid, call, value, fresh, spiders, copies, told, sigchld, server, diedEarly>>

(* Fault: pid_ is kept.                                                    *)
Forgotten_Kept == pid

Forgotten == NoPid

ForgetPid(t) ==
  /\ handler[t] = "forget"
  /\ handler' = [handler EXCEPT ![t] = "none"]
  /\ pid' = Forgotten
  /\ UNCHANGED <<vars, call, value, childVars, sigchld, server, diedEarly>>

Quiet == ~sigchld /\ \A t \in Threads : handler[t] = "none"

-----------------------------------------------------------------------------
(* The timers, whose callbacks are above.                                  *)
TimerStep ==
  /\ MainRuns
  /\ \/ ReadTime
     \/ \E task \in Tasks : AddTimer(task)
     \/ HandleRead
     \/ Rearm
     \/ Quiet /\ told = {} /\ Tick
  /\ UNCHANGED <<pid, call, value, childVars, signalVars, server, diedEarly>>

HandlerStep(t) == server /\ (Deliver(t) \/ WaitPid(t) \/ ForgetPid(t))

DailyNext ==
  \/ TimerStep
  \/ Fork \/ StorePid
  \/ TestPid \/ Kill \/ Update
  \/ \E c \in Alive : Exec(c) \/ Die(c) \/ CopyUpdates(c)
  \/ \E t \in Threads : HandlerStep(t)

DailySpec == DailyInit /\ [][DailyNext]_dailyVars

-----------------------------------------------------------------------------
(* There are never two children at once: the spider of a day is gone       *)
(* before the next one starts to write the same file, and so is the copy   *)
(* of a server whose execl failed.                                         *)
OneSpider == Cardinality(Alive) <= 1

(* A child that died is waited for: SIGCHLD is pending, or a handler is    *)
(* still in its loop, although signals of several children may become one  *)
(* and a child may die before its pid is stored.                           *)
NoZombieStays ==
  server /\ zombies # {} => sigchld \/ \E t \in Threads : handler[t] = "wait"

(* While no handler is due or running, pid_ names the child that is alive, *)
(* whichever thread cleared it last; it names one that is gone only if     *)
(* that child died before runSpider had stored its pid.                    *)
PidIsTheSpider ==
  server /\ Quiet /\ call # "store" =>
    /\ \A c \in Alive : pid = c
    /\ pid # NoPid => pid \in Alive \/ diedEarly

=============================================================================
