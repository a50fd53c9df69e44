------------------------------ MODULE EventLoop ------------------------------
(***************************************************************************)
(* One event loop (EventLoop.cpp) with the epoll poller and the eventfd it *)
(* owns.  The thread Loop runs EventLoop::loop; the other Threads call     *)
(* runInLoop, which for them is queueInLoop, and quit.  Every access to    *)
(* state shared between threads is one step.                               *)
(*                                                                         *)
(* Other descriptors and signals are stimuli of the environment: they may  *)
(* end epoll_wait, but nothing says that they ever do.                     *)
(***************************************************************************)
EXTENDS Naturals, Sequences, FiniteSets

CONSTANTS
  Threads,          \* the threads that call into the loop from outside
  Loop,             \* the thread that runs loop()
  NoThread,         \* the owner of an unlocked mutex
  MaxCalls,         \* bound: calls one thread makes
  MaxStimuli,       \* bound: descriptors turning readable and signals
  GarbageOut        \* may EPOLLOUT be set in the uninitialised events_ ?

ASSUME ThreadsAssumption ==
  /\ Loop \notin Threads
  /\ NoThread \notin Threads \cup {Loop}

ASSUME BoundsAssumption ==
  /\ MaxCalls \in Nat
  /\ MaxStimuli \in Nat
  /\ GarbageOut \subseteq BOOLEAN

VARIABLES
  loopPc,           \* where the loop thread is in loop()
  threadPc,         \* where every other thread is
  calls,            \* calls begun by every thread
  mutex,            \* owner of mutex_
  pending,          \* pendingFunctors_
  next,             \* the range-for of doPendingFunctors: next index to run
  polling,          \* polling_
  quit,             \* quit_
  eventfd,          \* counter of wakeupFd_
  outEnabled,       \* EPOLLOUT is in the wakeup channel's events_
  wakeupOpen,       \* the wakeup channel is registered and wakeupFd_ open
  ioReady,          \* another descriptor of the loop is readable
  active,           \* callbacks activeChannels_ stands for
  stimuli,          \* stimuli so far
  accepted,         \* history: functors in the order queueInLoop took them
  executed,         \* history: functors in the order they were run
  signalled         \* history: functors whose caller saw polling_ TRUE

callVars == <<calls, stimuli>>
queueVars == <<pending, next, accepted, executed>>
pollVars == <<outEnabled, wakeupOpen, ioReady, active>>
vars == <<loopPc, threadPc, callVars, mutex, queueVars, polling, quit,
          eventfd, pollVars, signalled>>

Functors == Threads \X (1..MaxCalls)

(* The functor of the call that thread t is in.                            *)
Current(t) == <<t, calls[t]>>

LoopGoto(from, to) ==
  /\ loopPc = from
  /\ loopPc' = to
  /\ UNCHANGED <<threadPc, callVars>>

ThreadGoto(t, from, to) ==
  /\ threadPc[t] = from
  /\ threadPc' = [threadPc EXCEPT ![t] = to]
  /\ UNCHANGED <<loopPc, stimuli>>

Range1(s) == {s[i] : i \in 1..Len(s)}

-----------------------------------------------------------------------------
(* The calls of other threads.                                             *)

(* runInLoop on a thread other than the loop's: the functor is to be       *)
(* queued.                                                                 *)
RunInLoop(t) ==
  /\ calls[t] < MaxCalls
  /\ ThreadGoto(t, "idle", "lock")
  /\ calls' = [calls EXCEPT ![t] = @ + 1]
  /\ UNCHANGED <<mutex, queueVars, polling, quit, eventfd, pollVars, signalled>>

LockQueue(t) ==
  /\ mutex = NoThread
  /\ ThreadGoto(t, "lock", "append")
  /\ mutex' = t
  /\ UNCHANGED <<calls, queueVars, polling, quit, eventfd, pollVars, signalled>>

AppendFunctor(t) ==
  /\ ThreadGoto(t, "append", "testPolling")
  /\ pending' = Append(pending, Current(t))
  /\ accepted' = Append(accepted, Current(t))
  /\ UNCHANGED <<calls, mutex, next, executed, polling, quit, eventfd, pollVars,
                 signalled>>

(* Fault: the test of the flag is negated.                                 *)
TestPolling_Negated(t) ==
  /\ ThreadGoto(t, "testPolling", IF polling THEN "unlock" ELSE "wakeup")
  /\ signalled' = IF polling THEN signalled \cup {Current(t)} ELSE signalled
  /\ UNCHANGED <<calls, mutex, queueVars, polling, quit, eventfd, pollVars>>

(* if(polling_) wakeup();                                                  *)
TestPolling(t) ==
  /\ ThreadGoto(t, "testPolling", IF polling THEN "wakeup" ELSE "unlock")
  /\ signalled' = IF polling THEN signalled \cup {Current(t)} ELSE signalled
  /\ UNCHANGED <<calls, mutex, queueVars, polling, quit, eventfd, pollVars>>

(* ::write(wakeupFd_, 1): without effect once the descriptor is closed.    *)
WriteEventfd == eventfd' = IF wakeupOpen THEN eventfd + 1 ELSE eventfd

Wakeup(t) ==
  /\ ThreadGoto(t, "wakeup", "unlock")
  /\ WriteEventfd
  /\ UNCHANGED <<calls, mutex, queueVars, polling, quit, pollVars, signalled>>

UnlockQueue(t) ==
  /\ ThreadGoto(t, "unlock", "idle")
  /\ mutex' = NoThread
  /\ UNCHANGED <<calls, queueVars, polling, quit, eventfd, pollVars, signalled>>

QueueInLoop(t) ==
  LockQueue(t) \/ AppendFunctor(t) \/ TestPolling(t) \/ Wakeup(t) \/ UnlockQueue(t)

Quit(t) ==
  /\ calls[t] < MaxCalls
  /\ ThreadGoto(t, "idle", "quitWakeup")
  /\ calls' = [calls EXCEPT ![t] = @ + 1]
  /\ quit' = TRUE
  /\ UNCHANGED <<mutex, queueVars, polling, eventfd, pollVars, signalled>>

(* Fault: quit wakes the loop only while it polls, as queueInLoop does.    *)
QuitWakeup_IfPolling(t) ==
  /\ ThreadGoto(t, "quitWakeup", "idle")
  /\ IF polling THEN WriteEventfd ELSE UNCHANGED eventfd
  /\ UNCHANGED <<calls, mutex, queueVars, polling, quit, pollVars, signalled>>

QuitWakeup(t) ==
  /\ ThreadGoto(t, "quitWakeup", "idle")
  /\ WriteEventfd
  /\ UNCHANGED <<calls, mutex, queueVars, polling, quit, pollVars, signalled>>

-----------------------------------------------------------------------------
(* The loop thread.                                                        *)

(* while(!quit_) { activeChannels_.clear();                                *)
CheckQuit ==
  /\ LoopGoto("check", IF quit THEN "exited" ELSE "setPolling")
  /\ active' = {}
  /\ UNCHANGED <<mutex, queueVars, polling, quit, eventfd, outEnabled, wakeupOpen,
                 ioReady, signalled>>

SetPolling ==
  /\ LoopGoto("setPolling", "poll")
  /\ polling' = TRUE
  /\ UNCHANGED <<mutex, queueVars, quit, eventfd, pollVars, signalled>>

(* The callback handleEventWithGuard chooses from the events epoll reports *)
(* for the wakeup channel: EPOLLOUT without EPOLLIN is taken for a close.  *)
WakeupCallBack ==
  IF ~wakeupOpen THEN {}
  ELSE IF eventfd > 0 THEN {"handleRead"}
  ELSE IF outEnabled THEN {"handleClose"} ELSE {}

ReadyCallBacks == WakeupCallBack \cup (IF ioReady THEN {"handleIo"} ELSE {})

(* epoll_wait with timeout -1 returns when a registered event is there.    *)
Poll ==
  /\ ReadyCallBacks # {}
  /\ LoopGoto("poll", "clearPolling")
  /\ active' = ReadyCallBacks
  /\ UNCHANGED <<mutex, queueVars, polling, quit, eventfd, outEnabled, wakeupOpen,
                 ioReady, signalled>>

(* A signal interrupts an epoll_wait that has nothing to report: n < 0,     *)
(* activeChannels_ stays empty.                                            *)
PollInterrupted ==
  /\ ReadyCallBacks = {}
  /\ stimuli < MaxStimuli
  /\ loopPc = "poll"
  /\ loopPc' = "clearPolling"
  /\ stimuli' = stimuli + 1
  /\ UNCHANGED <<threadPc, calls, mutex, queueVars, polling, quit, eventfd,
                 pollVars, signalled>>

ClearPolling ==
  /\ LoopGoto("clearPolling", "dispatch")
  /\ polling' = FALSE
  /\ UNCHANGED <<mutex, queueVars, quit, eventfd, pollVars, signalled>>

(* Reading an eventfd returns its counter and resets it.                   *)
HandleRead ==
  /\ "handleRead" \in active
  /\ LoopGoto("dispatch", "dispatch")
  /\ active' = active \ {"handleRead"}
  /\ eventfd' = 0
  /\ UNCHANGED <<mutex, queueVars, polling, quit, outEnabled, wakeupOpen, ioReady,
                 signalled>>

HandleClose ==
  /\ "handleClose" \in active
  /\ LoopGoto("dispatch", "dispatch")
  /\ active' = active \ {"handleClose"}
  /\ wakeupOpen' = FALSE
  /\ outEnabled' = FALSE
  /\ UNCHANGED <<mutex, queueVars, polling, quit, eventfd, ioReady, signalled>>

(* The callback of another channel of this loop consumes its event.        *)
HandleIo ==
  /\ "handleIo" \in active
  /\ LoopGoto("dispatch", "dispatch")
  /\ active' = active \ {"handleIo"}
  /\ ioReady' = FALSE
  /\ UNCHANGED <<mutex, queueVars, polling, quit, eventfd, outEnabled, wakeupOpen,
                 signalled>>

(* Fault: the walk starts one before the first functor.                    *)
LockPending_FromZero ==
  /\ active = {}
  /\ mutex = NoThread
  /\ LoopGoto("dispatch", "run")
  /\ mutex' = Loop
  /\ next' = 0
  /\ UNCHANGED <<pending, accepted, executed, polling, quit, eventfd, pollVars,
                 signalled>>

(* doPendingFunctors: MutexLockGuard guard(mutex_->mutex());               *)
LockPending ==
  /\ active = {}
  /\ mutex = NoThread
  /\ LoopGoto("dispatch", "run")
  /\ mutex' = Loop
  /\ next' = 1
  /\ UNCHANGED <<pending, accepted, executed, polling, quit, eventfd, pollVars,
                 signalled>>

RunFunctor ==
  /\ next <= Len(pending)
  /\ LoopGoto("run", "run")
  /\ executed' = Append(executed, pending[next])
  /\ next' = next + 1
  /\ UNCHANGED <<mutex, pending, accepted, polling, quit, eventfd, pollVars,
                 signalled>>

(* Fault: pendingFunctors_.clear() is forgotten.                           *)
ClearPending_Kept ==
  /\ next > Len(pending)
  /\ LoopGoto("run", "unlock")
  /\ next' = 1
  /\ UNCHANGED <<mutex, pending, accepted, executed, polling, quit, eventfd,
                 pollVars, signalled>>

ClearPending ==
  /\ next > Len(pending)
  /\ LoopGoto("run", "unlock")
  /\ pending' = << >>
  /\ next' = 1
  /\ UNCHANGED <<mutex, accepted, executed, polling, quit, eventfd, pollVars,
                 signalled>>

UnlockPending ==
  /\ LoopGoto("unlock", "check")
  /\ mutex' = NoThread
  /\ UNCHANGED <<queueVars, polling, quit, eventfd, pollVars, signalled>>

LoopStep ==
  \/ CheckQuit \/ SetPolling \/ Poll \/ ClearPolling
  \/ HandleRead \/ HandleClose \/ HandleIo
  \/ LockPending \/ RunFunctor \/ ClearPending \/ UnlockPending

-----------------------------------------------------------------------------
(* Another descriptor registered with the loop turns readable.             *)
Stimulus ==
  /\ stimuli < MaxStimuli
  /\ ~ioReady
  /\ ioReady' = TRUE
  /\ stimuli' = stimuli + 1
  /\ UNCHANGED <<loopPc, threadPc, calls, mutex, queueVars, polling, quit, eventfd,
                 outEnabled, wakeupOpen, active, signalled>>

Init ==
  /\ loopPc = "check"
  /\ threadPc = [t \in Threads |-> "idle"]
  /\ calls = [t \in Threads |-> 0]
  /\ mutex = NoThread
  /\ pending = << >>
  /\ next = 1
  /\ polling = FALSE
  /\ quit = FALSE
  /\ eventfd = 0
  /\ outEnabled \in GarbageOut
  /\ wakeupOpen = TRUE
  /\ ioReady = FALSE
  /\ active = {}
  /\ stimuli = 0
  /\ accepted = << >>
  /\ executed = << >>
  /\ signalled = {}

Next ==
  \/ LoopStep
  \/ PollInterrupted
  \/ Stimulus
  \/ \E t \in Threads : RunInLoop(t) \/ QueueInLoop(t) \/ Quit(t) \/ QuitWakeup(t)

Spec == Init /\ [][Next]_vars

(* The scheduler runs every thread that can take a step; a call that was   *)
(* begun is finished.  Nobody has to call, no stimulus has to come.        *)
Fairness ==
  /\ WF_vars(LoopStep)
  /\ \A t \in Threads : WF_vars(QueueInLoop(t)) /\ WF_vars(QuitWakeup(t))

FairSpec == Spec /\ Fairness

-----------------------------------------------------------------------------
(* The type invariant.                                                     *)
TypeOK ==
  /\ loopPc \in {"check", "setPolling", "poll", "clearPolling", "dispatch", "run",
                 "unlock", "exited"}
  /\ threadPc \in [Threads -> {"idle", "lock", "append", "testPolling", "wakeup",
                               "unlock", "quitWakeup"}]
  /\ calls \in [Threads -> 0..MaxCalls]
  /\ \A t \in Threads : threadPc[t] # "idle" => calls[t] > 0
  /\ mutex \in Threads \cup {Loop, NoThread}
  /\ pending \in Seq(Functors)
  /\ next \in Nat \ {0}
  /\ polling \in BOOLEAN
  /\ quit \in BOOLEAN
  /\ eventfd \in Nat
  /\ outEnabled \in BOOLEAN
  /\ wakeupOpen \in BOOLEAN
  /\ ioReady \in BOOLEAN
  /\ active \subseteq {"handleRead", "handleClose", "handleIo"}
  /\ stimuli \in 0..MaxStimuli
  /\ accepted \in Seq(Functors)
  /\ executed \in Seq(Functors)
  /\ signalled \subseteq Functors

(* The loop sleeps in epoll_wait and nothing will end the wait.            *)
Asleep == loopPc = "poll" /\ ReadyCallBacks = {}

(* A functor whose caller saw polling_ set is never left behind by a       *)
(* sleeping loop: if it is still pending, its caller is about to write to  *)
(* the eventfd.  This is what the test of polling_ in queueInLoop relies   *)
(* on; the wakeup channel has to be open.                                  *)
NoMissedWakeup ==
  Asleep /\ wakeupOpen =>
    \A f \in Range1(pending) \cap signalled : threadPc[f[1]] = "wakeup"

(* queueInLoop's append and its test of polling_ and the whole walk of     *)
(* doPendingFunctors exclude each other: no thread touches                 *)
(* pendingFunctors_ while another one is inside, the loop included.        *)
InCriticalSection(t) == threadPc[t] \in {"append", "testPolling", "wakeup", "unlock"}
LoopInCriticalSection == loopPc \in {"run", "unlock"}

MutualExclusion ==
  /\ \A t, u \in Threads : InCriticalSection(t) /\ InCriticalSection(u) => t = u
  /\ LoopInCriticalSection => \A t \in Threads : ~InCriticalSection(t)

(* A loop that left loop() has run every functor whose caller saw it       *)
(* polling, however quit() and queueInLoop interleaved.                    *)
ExitedRanSignalled ==
  loopPc = "exited" => signalled \subseteq Range1(executed)

(* The loop implements the queue of functors: what it runs is a prefix of  *)
(* what queueInLoop accepted, each functor once and in order, although the *)
(* vector is cleared only after the walk.                                  *)
Queue == INSTANCE FunctorQueue
ImplementsFunctorQueue == Queue!Spec

(* A functor whose caller saw polling_ set is run, whatever the other      *)
(* threads do, even if quit() is called meanwhile, unless the wakeup       *)
(* channel was closed by an accidental EPOLLOUT.                           *)
SignalledIsRun ==
  \A f \in Functors : f \in signalled ~> f \in Range1(executed) \/ ~wakeupOpen

(* quit() ends the loop, wherever the loop is when quit_ is set.           *)
QuitEndsLoop == quit ~> loopPc = "exited" \/ ~wakeupOpen

=============================================================================
