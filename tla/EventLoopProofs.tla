--------------------------- MODULE EventLoopProofs ---------------------------
(***************************************************************************)
(* Proofs about EventLoop, for any set of threads and any bounds.  The     *)
(* inductive invariant is the conjunction of five named parts.             *)
(***************************************************************************)
EXTENDS EventLoop, TLAPS

(* Who is inside a critical section owns mutex_.                           *)
LockInv ==
  /\ \A t \in Threads : InCriticalSection(t) <=> mutex = t
  /\ LoopInCriticalSection <=> mutex = Loop

(* polling_ is set exactly around epoll_wait.                              *)
PollingInv == polling <=> loopPc \in {"poll", "clearPolling"}

(* Functors the loop cleared from pendingFunctors_ so far.                 *)
Base == Len(executed) - (next - 1)

(* What was accepted is what was cleared followed by what is pending, and  *)
(* what was run is a prefix of it.                                         *)
OrderInv ==
  /\ loopPc # "run" => next = 1
  /\ loopPc = "unlock" => pending = << >>
  /\ next <= Len(pending) + 1
  /\ next <= Len(executed) + 1
  /\ Len(accepted) = Base + Len(pending)
  /\ \A i \in 1..Len(executed) : executed[i] = accepted[i]
  /\ \A j \in 1..Len(pending) : pending[j] = accepted[Base + j]

(* A thread's calls are numbered in order, so the functor of a call that   *)
(* did not test polling_ yet is not among the signalled ones.              *)
CallInv ==
  /\ \A f \in signalled : f[2] <= calls[f[1]]
  /\ \A f \in signalled :
       threadPc[f[1]] \in {"lock", "append", "testPolling"} => f[2] < calls[f[1]]
  /\ \A t \in Threads : threadPc[t] = "testPolling" => Current(t) \in Range1(pending)

(* A signalled functor was run or is pending, and while it is pending the  *)
(* loop is on its way to doPendingFunctors or is about to be woken.        *)
SignalInv ==
  /\ signalled \subseteq Range1(pending) \cup Range1(executed)
  /\ \A f \in Range1(pending) \cap signalled :
       /\ loopPc \notin {"check", "setPolling", "exited"}
       /\ loopPc = "poll" /\ wakeupOpen => eventfd > 0 \/ threadPc[f[1]] = "wakeup"

IInv == TypeOK /\ LockInv /\ PollingInv /\ OrderInv /\ CallInv /\ SignalInv

USE ThreadsAssumption, BoundsAssumption DEF ThreadsAssumption, BoundsAssumption

-----------------------------------------------------------------------------
(* Type correctness.  Every action keeps every variable in its range.      *)
LEMMA TypeInit == Init => TypeOK
<1> SUFFICES ASSUME Init PROVE TypeOK
  OBVIOUS
<1>1. outEnabled \in BOOLEAN
  BY DEF Init
<1>2. << >> \in Seq(Functors)
  OBVIOUS
<1>3. threadPc \in [Threads -> {"idle"}] /\ calls \in [Threads -> {0}]
  BY DEF Init
<1>4. polling \in BOOLEAN /\ quit \in BOOLEAN /\ wakeupOpen \in BOOLEAN /\ ioReady \in BOOLEAN
  BY DEF Init
<1>5. mutex \in Threads \cup {Loop, NoThread} /\ stimuli \in 0..MaxStimuli
  BY DEF Init
<1>6. active \subseteq {"handleRead", "handleClose", "handleIo"} /\ signalled \subseteq Functors
  BY DEF Init
<1>7. loopPc \in {"check"} /\ next \in Nat \ {0} /\ eventfd \in Nat
  BY DEF Init
<1>8. pending \in Seq(Functors) /\ accepted \in Seq(Functors) /\ executed \in Seq(Functors)
  BY <1>2 DEF Init
<1> QED BY <1>1, <1>3, <1>4, <1>5, <1>6, <1>7, <1>8 DEF TypeOK

(* A thread inside a call has a functor of its own.                        *)
LEMMA CurrentIsFunctor ==
  ASSUME TypeOK, NEW t \in Threads, threadPc[t] # "idle"
  PROVE  Current(t) \in Functors
<1>1. calls[t] \in 1..MaxCalls
  BY DEF TypeOK
<1> QED BY <1>1 DEF Current, Functors

LEMMA TypeCalls ==
  ASSUME TypeOK, NEW t \in Threads,
         RunInLoop(t) \/ QueueInLoop(t) \/ Quit(t) \/ QuitWakeup(t)
  PROVE  TypeOK'
<1>1. CASE RunInLoop(t)
  BY <1>1 DEF TypeOK, RunInLoop, ThreadGoto, queueVars, pollVars
<1>2. CASE LockQueue(t)
  BY <1>2 DEF TypeOK, LockQueue, ThreadGoto, queueVars, pollVars
<1>3. CASE AppendFunctor(t)
  <2>1. Current(t) \in Functors
    BY <1>3, CurrentIsFunctor DEF AppendFunctor, ThreadGoto
  <2> QED BY <1>3, <2>1 DEF TypeOK, AppendFunctor, ThreadGoto, pollVars
<1>4. CASE TestPolling(t)
  <2>1. Current(t) \in Functors
    BY <1>4, CurrentIsFunctor DEF TestPolling, ThreadGoto
  <2> QED BY <1>4, <2>1 DEF TypeOK, TestPolling, ThreadGoto, queueVars, pollVars
<1>5. CASE Wakeup(t)
  BY <1>5 DEF TypeOK, Wakeup, WriteEventfd, ThreadGoto, queueVars, pollVars
<1>6. CASE UnlockQueue(t)
  BY <1>6 DEF TypeOK, UnlockQueue, ThreadGoto, queueVars, pollVars
<1>7. CASE Quit(t)
  BY <1>7 DEF TypeOK, Quit, ThreadGoto, queueVars, pollVars
<1>8. CASE QuitWakeup(t)
  BY <1>8 DEF TypeOK, QuitWakeup, WriteEventfd, ThreadGoto, queueVars, pollVars
<1> QED BY <1>1, <1>2, <1>3, <1>4, <1>5, <1>6, <1>7, <1>8 DEF QueueInLoop

LEMMA TypeLoop ==
  ASSUME TypeOK, LoopStep \/ PollInterrupted \/ Stimulus
  PROVE  TypeOK'
<1> USE DEF TypeOK, LoopGoto, callVars, queueVars, pollVars
<1>1. CASE CheckQuit
  BY <1>1 DEF CheckQuit
<1>2. CASE SetPolling
  BY <1>2 DEF SetPolling
<1>3. CASE Poll
  BY <1>3 DEF Poll, ReadyCallBacks, WakeupCallBack
<1>4. CASE ClearPolling
  BY <1>4 DEF ClearPolling
<1>5. CASE HandleRead
  BY <1>5 DEF HandleRead
<1>6. CASE HandleClose
  BY <1>6 DEF HandleClose
<1>7. CASE HandleIo
  BY <1>7 DEF HandleIo
<1>8. CASE LockPending
  BY <1>8 DEF LockPending
<1>9. CASE RunFunctor
  <2>1. next \in 1..Len(pending) /\ pending[next] \in Functors
    BY <1>9 DEF RunFunctor
  <2> QED BY <1>9, <2>1 DEF RunFunctor
<1>10. CASE ClearPending
  BY <1>10 DEF ClearPending
<1>11. CASE UnlockPending
  BY <1>11 DEF UnlockPending
<1>12. CASE PollInterrupted
  BY <1>12 DEF PollInterrupted
<1>13. CASE Stimulus
  BY <1>13 DEF Stimulus
<1> QED BY <1>1, <1>2, <1>3, <1>4, <1>5, <1>6, <1>7, <1>8, <1>9, <1>10, <1>11, <1>12, <1>13 DEF LoopStep

LEMMA TypeStep == TypeOK /\ [Next]_vars => TypeOK'
<1> SUFFICES ASSUME TypeOK, [Next]_vars PROVE TypeOK'
  OBVIOUS
<1>1. CASE UNCHANGED vars
  BY <1>1 DEF TypeOK, vars, callVars, queueVars, pollVars
<1>2. CASE Next
  BY <1>2, TypeCalls, TypeLoop DEF Next
<1> QED BY <1>1, <1>2

(* Every variable of the model keeps its type.                             *)
THEOREM TypeCorrect == Spec => []TypeOK
BY TypeInit, TypeStep, PTL DEF Spec

-----------------------------------------------------------------------------
(* The mutex and the polling flag.                                         *)
LEMMA LockInit == Init => LockInv /\ PollingInv
BY DEF Init, LockInv, PollingInv, InCriticalSection, LoopInCriticalSection

LEMMA LockStep ==
  TypeOK /\ LockInv /\ PollingInv /\ [Next]_vars => LockInv' /\ PollingInv'
<1> SUFFICES ASSUME TypeOK, LockInv, PollingInv, [Next]_vars
             PROVE  LockInv' /\ PollingInv'
  OBVIOUS
<1> USE DEF TypeOK, LockInv, PollingInv, InCriticalSection, LoopInCriticalSection,
            LoopGoto, ThreadGoto
<1>1. CASE UNCHANGED vars
  BY <1>1 DEF vars
<1>2. CASE CheckQuit
  BY <1>2 DEF CheckQuit
<1>3. CASE SetPolling
  BY <1>3 DEF SetPolling
<1>4. CASE Poll
  BY <1>4 DEF Poll
<1>5. CASE ClearPolling
  BY <1>5 DEF ClearPolling
<1>6. CASE HandleRead
  BY <1>6 DEF HandleRead
<1>7. CASE HandleClose
  BY <1>7 DEF HandleClose
<1>8. CASE HandleIo
  BY <1>8 DEF HandleIo
<1>9. CASE LockPending
  BY <1>9 DEF LockPending
<1>10. CASE RunFunctor
  BY <1>10 DEF RunFunctor
<1>11. CASE ClearPending
  BY <1>11 DEF ClearPending
<1>12. CASE UnlockPending
  BY <1>12 DEF UnlockPending
<1>13. CASE PollInterrupted
  BY <1>13 DEF PollInterrupted
<1>14. CASE Stimulus
  BY <1>14 DEF Stimulus
<1>15. ASSUME NEW t \in Threads, RunInLoop(t) PROVE LockInv' /\ PollingInv'
  BY <1>15 DEF RunInLoop
<1>16. ASSUME NEW t \in Threads, LockQueue(t) PROVE LockInv' /\ PollingInv'
  BY <1>16 DEF LockQueue
<1>17. ASSUME NEW t \in Threads, AppendFunctor(t) PROVE LockInv' /\ PollingInv'
  BY <1>17 DEF AppendFunctor
<1>18. ASSUME NEW t \in Threads, TestPolling(t) PROVE LockInv' /\ PollingInv'
  BY <1>18 DEF TestPolling
<1>19. ASSUME NEW t \in Threads, Wakeup(t) PROVE LockInv' /\ PollingInv'
  BY <1>19 DEF Wakeup
<1>20. ASSUME NEW t \in Threads, UnlockQueue(t) PROVE LockInv' /\ PollingInv'
  BY <1>20 DEF UnlockQueue
<1>21. ASSUME NEW t \in Threads, Quit(t) PROVE LockInv' /\ PollingInv'
  BY <1>21 DEF Quit
<1>22. ASSUME NEW t \in Threads, QuitWakeup(t) PROVE LockInv' /\ PollingInv'
  BY <1>22 DEF QuitWakeup
<1> QED
  BY <1>1, <1>2, <1>3, <1>4, <1>5, <1>6, <1>7, <1>8, <1>9, <1>10, <1>11, <1>12, <1>13, <1>14, <1>15, <1>16, <1>17, <1>18, <1>19, <1>20, <1>21, <1>22
  DEF Next, LoopStep, QueueInLoop

-----------------------------------------------------------------------------
(* The order of functors.  Only four actions touch a queue; the others are *)
(* covered by QueueUntouched.                                              *)
LEMMA OrderInit == Init => OrderInv
BY DEF Init, OrderInv, Base

QueueUntouched ==
  /\ UNCHANGED queueVars
  /\ loopPc = "run" <=> loopPc' = "run"
  /\ loopPc' = "unlock" => loopPc = "unlock"

LEMMA OrderUntouched ==
  ASSUME OrderInv, QueueUntouched
  PROVE  OrderInv'
BY DEF OrderInv, QueueUntouched, queueVars, Base

LEMMA OtherActions ==
  ASSUME TypeOK, [Next]_vars
  PROVE  \/ QueueUntouched
         \/ LockPending \/ RunFunctor \/ ClearPending
         \/ \E t \in Threads : AppendFunctor(t)
<1> USE DEF QueueUntouched, queueVars, LoopGoto, ThreadGoto
<1>1. CASE UNCHANGED vars
  BY <1>1 DEF vars
<1>2. ASSUME CheckQuit PROVE QueueUntouched
  BY <1>2 DEF CheckQuit
<1>3. ASSUME SetPolling PROVE QueueUntouched
  BY <1>3 DEF SetPolling
<1>4. ASSUME Poll PROVE QueueUntouched
  BY <1>4 DEF Poll
<1>5. ASSUME ClearPolling PROVE QueueUntouched
  BY <1>5 DEF ClearPolling
<1>6. ASSUME HandleRead PROVE QueueUntouched
  BY <1>6 DEF HandleRead
<1>7. ASSUME HandleClose PROVE QueueUntouched
  BY <1>7 DEF HandleClose
<1>8. ASSUME HandleIo PROVE QueueUntouched
  BY <1>8 DEF HandleIo
<1>9. ASSUME UnlockPending PROVE QueueUntouched
  BY <1>9 DEF UnlockPending
<1>10. ASSUME PollInterrupted PROVE QueueUntouched
  BY <1>10 DEF PollInterrupted
<1>11. ASSUME Stimulus PROVE QueueUntouched
  BY <1>11 DEF Stimulus
<1>12. ASSUME NEW t \in Threads, RunInLoop(t) PROVE QueueUntouched
  BY <1>12 DEF RunInLoop
<1>13. ASSUME NEW t \in Threads, LockQueue(t) PROVE QueueUntouched
  BY <1>13 DEF LockQueue
<1>14. ASSUME NEW t \in Threads, TestPolling(t) PROVE QueueUntouched
  BY <1>14 DEF TestPolling
<1>15. ASSUME NEW t \in Threads, Wakeup(t) PROVE QueueUntouched
  BY <1>15 DEF Wakeup
<1>16. ASSUME NEW t \in Threads, UnlockQueue(t) PROVE QueueUntouched
  BY <1>16 DEF UnlockQueue
<1>17. ASSUME NEW t \in Threads, Quit(t) PROVE QueueUntouched
  BY <1>17 DEF Quit
<1>18. ASSUME NEW t \in Threads, QuitWakeup(t) PROVE QueueUntouched
  BY <1>18 DEF QuitWakeup
<1> QED
  BY <1>1, <1>2, <1>3, <1>4, <1>5, <1>6, <1>7, <1>8, <1>9, <1>10, <1>11, <1>12, <1>13, <1>14, <1>15, <1>16, <1>17, <1>18
  DEF Next, LoopStep, QueueInLoop

LEMMA AppendFacts ==
  ASSUME NEW S, NEW s \in Seq(S), NEW e \in S
  PROVE  /\ Len(Append(s, e)) = Len(s) + 1
         /\ \A i \in 1..Len(s) : Append(s, e)[i] = s[i]
         /\ Append(s, e)[Len(s) + 1] = e
OBVIOUS

LEMMA OrderStep ==
  TypeOK /\ LockInv /\ OrderInv /\ [Next]_vars => OrderInv'
<1> SUFFICES ASSUME TypeOK, LockInv, OrderInv, [Next]_vars PROVE OrderInv'
  OBVIOUS
<1> USE DEF TypeOK, OrderInv, Base, LoopGoto, ThreadGoto
<1>1. CASE QueueUntouched
  BY <1>1, OrderUntouched
<1>2. CASE LockPending
  BY <1>2 DEF LockPending
<1>3. CASE RunFunctor
  BY <1>3, SMTT(30) DEF RunFunctor
<1>4. CASE ClearPending
  BY <1>4 DEF ClearPending
<1>5. ASSUME NEW t \in Threads, AppendFunctor(t) PROVE OrderInv'
  <2> DEFINE f == Current(t)
  <2>1. f \in Functors
    BY <1>5, CurrentIsFunctor DEF AppendFunctor
  <2> HIDE DEF f
  <2>2. /\ pending' = Append(pending, f)
        /\ accepted' = Append(accepted, f)
        /\ UNCHANGED <<loopPc, next, executed>>
    BY <1>5 DEF AppendFunctor, f
  <2>3. /\ Len(pending') = Len(pending) + 1
        /\ \A j \in 1..Len(pending) : pending'[j] = pending[j]
        /\ pending'[Len(pending) + 1] = f
    BY ONLY TypeOK, <2>1, <2>2, AppendFacts DEF TypeOK
  <2>4. /\ Len(accepted') = Len(accepted) + 1
        /\ \A i \in 1..Len(accepted) : accepted'[i] = accepted[i]
        /\ accepted'[Len(accepted) + 1] = f
    BY ONLY TypeOK, <2>1, <2>2, AppendFacts DEF TypeOK
  <2>5. /\ Len(pending) \in Nat /\ Len(accepted) \in Nat /\ Len(executed) \in Nat
        /\ Base \in Nat /\ Base' = Base
        /\ Len(accepted) = Base + Len(pending)
        /\ Len(executed) <= Len(accepted)
        /\ next \in Nat /\ next <= Len(pending) + 1 /\ next <= Len(executed) + 1
        /\ \A j \in 1..Len(pending) : pending[j] = accepted[Base + j]
        /\ \A i \in 1..Len(executed) : executed[i] = accepted[i]
    BY <2>2
  <2> HIDE DEF Base
  <2>6. ASSUME NEW j \in 1..Len(pending')
        PROVE  pending'[j] = accepted'[Base + j]
    <3>1. CASE j <= Len(pending)
      <4>1. j \in 1..Len(pending) /\ Base + j \in 1..Len(accepted)
        BY ONLY <3>1, <2>5, <2>6
      <4> QED BY ONLY <4>1, <2>3, <2>4, <2>5
    <3>2. CASE j = Len(pending) + 1
      BY ONLY <3>2, <2>3, <2>4, <2>5, SMTT(30)
    <3> QED BY ONLY <3>1, <3>2, <2>3, <2>5, <2>6
  <2>7. \A i \in 1..Len(executed') : executed'[i] = accepted'[i]
    BY ONLY <2>2, <2>4, <2>5
  <2>8. (loopPc' # "run" => next' = 1) /\ loopPc' # "unlock"
    BY <2>2, <1>5 DEF AppendFunctor, LockInv, InCriticalSection, LoopInCriticalSection
  <2>9. /\ next' <= Len(pending') + 1
        /\ next' <= Len(executed') + 1
        /\ Len(accepted') = Base' + Len(pending')
    BY ONLY <2>2, <2>3, <2>4, <2>5
  <2> QED BY ONLY <2>5, <2>6, <2>7, <2>8, <2>9 DEF OrderInv
<1> QED BY <1>1, <1>2, <1>3, <1>4, <1>5, OtherActions

-----------------------------------------------------------------------------
(* Functors whose caller saw the loop polling.                             *)
LEMMA RangeAppend ==
  ASSUME NEW S, NEW s \in Seq(S), NEW e \in S
  PROVE  Range1(Append(s, e)) = Range1(s) \cup {e}
<1>1. /\ Len(Append(s, e)) = Len(s) + 1
      /\ \A i \in 1..Len(s) : Append(s, e)[i] = s[i]
      /\ Append(s, e)[Len(s) + 1] = e
  BY AppendFacts
<1>2. Len(s) \in Nat /\ 1..(Len(s) + 1) = 1..Len(s) \cup {Len(s) + 1}
  OBVIOUS
<1> QED BY ONLY <1>1, <1>2 DEF Range1

LEMMA RangeEmpty == Range1(<< >>) = {}
BY DEF Range1

LEMMA RangeType ==
  ASSUME NEW S, NEW s \in Seq(S)
  PROVE  Range1(s) \subseteq S
BY DEF Range1

(* When the walk of doPendingFunctors is over, all that is pending ran.    *)
LEMMA WalkRanPending ==
  ASSUME TypeOK, OrderInv, next > Len(pending)
  PROVE  Range1(pending) \subseteq Range1(executed)
<1>1. ASSUME NEW j \in 1..Len(pending) PROVE pending[j] \in Range1(executed)
  <2>1. Base + j \in 1..Len(executed)
    BY <1>1 DEF TypeOK, OrderInv, Base
  <2>2. pending[j] = executed[Base + j]
    BY <1>1, <2>1 DEF OrderInv
  <2> QED BY <2>1, <2>2 DEF Range1
<1> QED BY <1>1 DEF Range1

LEMMA CallInit == Init => CallInv /\ SignalInv
BY DEF Init, CallInv, SignalInv, Current, Range1

(* A thread is named by the first component of its functors.               *)
LEMMA SignalledType ==
  ASSUME TypeOK, NEW f \in signalled
  PROVE  f[1] \in Threads /\ f[2] \in Nat /\ f = <<f[1], f[2]>>
BY DEF TypeOK, Functors

LEMMA CallStep ==
  ASSUME TypeOK, LockInv, CallInv, [Next]_vars
  PROVE  CallInv'
<1> DEFINE Untouched == UNCHANGED <<threadPc, calls, pending, signalled>>
<1>1. ASSUME Untouched PROVE CallInv'
  BY <1>1 DEF CallInv, Current
<1>2. ASSUME UNCHANGED vars PROVE Untouched
  BY <1>2 DEF vars, callVars, queueVars
<1>3. ASSUME LoopStep, ~ClearPending PROVE Untouched
  BY <1>3 DEF LoopStep, LoopGoto, callVars, queueVars, CheckQuit, SetPolling, Poll, ClearPolling, HandleRead, HandleClose, HandleIo, LockPending, RunFunctor, UnlockPending
<1>4. ASSUME PollInterrupted \/ Stimulus PROVE Untouched
  BY <1>4 DEF PollInterrupted, Stimulus, queueVars
<1>5. ASSUME ClearPending PROVE CallInv'
  <2>1. UNCHANGED <<threadPc, calls, signalled>>
    BY <1>5 DEF ClearPending, LoopGoto, callVars
  <2>2. \A t \in Threads : threadPc[t] # "testPolling"
    BY <1>5 DEF ClearPending, LoopGoto, LockInv, LoopInCriticalSection, InCriticalSection
  <2> QED BY <2>1, <2>2 DEF CallInv
<1>6. ASSUME NEW t \in Threads,
             RunInLoop(t) \/ LockQueue(t) \/ Wakeup(t) \/ UnlockQueue(t)
               \/ Quit(t) \/ QuitWakeup(t)
      PROVE  CallInv'
  <2>1. /\ UNCHANGED <<pending, signalled>>
        /\ \A u \in Threads \ {t} : threadPc'[u] = threadPc[u] /\ calls'[u] = calls[u]
        /\ threadPc'[t] # "testPolling" /\ calls[t] \in Nat
        /\ \/ calls'[t] = calls[t] + 1
           \/ /\ calls'[t] = calls[t]
              /\ threadPc'[t] \in {"lock", "append"} => threadPc[t] \in {"lock", "append"}
    BY <1>6 DEF TypeOK, RunInLoop, LockQueue, Wakeup, UnlockQueue, Quit, QuitWakeup,
                ThreadGoto, queueVars
  <2>2. \A f \in signalled : f[1] \in Threads /\ f[2] \in Nat
    BY SignalledType
  <2>3. ASSUME NEW f \in signalled'
        PROVE  /\ f[2] <= calls'[f[1]]
               /\ threadPc'[f[1]] \in {"lock", "append", "testPolling"} => f[2] < calls'[f[1]]
    <3>1. CASE f[1] # t
      BY <3>1, <2>1, <2>2, <2>3 DEF CallInv
    <3>2. CASE f[1] = t
      <4>1. f \in signalled /\ f[2] \in Nat /\ f[2] <= calls[t]
            /\ (threadPc[t] \in {"lock", "append"} => f[2] < calls[t])
        BY <3>2, <2>1, <2>2, <2>3 DEF CallInv
      <4> QED BY ONLY <4>1, <3>2, <2>1
    <3> QED BY <3>1, <3>2
  <2>4. ASSUME NEW u \in Threads, threadPc'[u] = "testPolling"
        PROVE  Current(u)' \in Range1(pending')
    BY <2>4, <2>1 DEF CallInv, Current
  <2> QED BY <2>3, <2>4 DEF CallInv
<1>7. ASSUME NEW t \in Threads, AppendFunctor(t) PROVE CallInv'
  <2>1. UNCHANGED <<calls, signalled>> /\ threadPc[t] = "append"
        /\ threadPc' = [threadPc EXCEPT ![t] = "testPolling"]
        /\ pending' = Append(pending, Current(t))
    BY <1>7 DEF AppendFunctor, ThreadGoto
  <2>2. Current(t) \in Functors
    BY <2>1, CurrentIsFunctor
  <2>3. Range1(pending') = Range1(pending) \cup {Current(t)}
    BY <2>1, <2>2, RangeAppend DEF TypeOK
  <2>4. ASSUME NEW f \in signalled'
        PROVE  /\ f[2] <= calls'[f[1]]
               /\ threadPc'[f[1]] \in {"lock", "append", "testPolling"} => f[2] < calls'[f[1]]
    BY <2>1, <2>4, SignalledType DEF CallInv, TypeOK
  <2>5. ASSUME NEW u \in Threads, threadPc'[u] = "testPolling"
        PROVE  Current(u)' \in Range1(pending')
    BY <2>1, <2>3, <2>5 DEF CallInv, Current, TypeOK
  <2> QED BY <2>4, <2>5 DEF CallInv
<1>8. ASSUME NEW t \in Threads, TestPolling(t) PROVE CallInv'
  <2>1. /\ UNCHANGED <<calls, pending>> /\ threadPc[t] = "testPolling"
        /\ threadPc'[t] \in {"wakeup", "unlock"}
        /\ \A u \in Threads \ {t} : threadPc'[u] = threadPc[u]
        /\ signalled' \subseteq signalled \cup {Current(t)}
    BY <1>8 DEF TestPolling, ThreadGoto, queueVars, TypeOK
  <2>2. ASSUME NEW f \in signalled'
        PROVE  /\ f[2] <= calls'[f[1]]
               /\ threadPc'[f[1]] \in {"lock", "append", "testPolling"} => f[2] < calls'[f[1]]
    <3>1. CASE f = Current(t)
      BY <3>1, <2>1 DEF Current, TypeOK
    <3>2. CASE f \in signalled
      BY <3>2, <2>1, SignalledType DEF CallInv
    <3> QED BY <3>1, <3>2, <2>1, <2>2
  <2>3. ASSUME NEW u \in Threads, threadPc'[u] = "testPolling"
        PROVE  Current(u)' \in Range1(pending')
    BY <2>1, <2>3 DEF CallInv, Current
  <2> QED BY <2>2, <2>3 DEF CallInv
<1> QED
  BY <1>1, <1>2, <1>3, <1>4, <1>5, <1>6, <1>7, <1>8 DEF Next, QueueInLoop

(* The steps that change neither the queues nor who is signalled, and that *)
(* neither start a poll with the eventfd consumed nor use up a wakeup.     *)
SignalUntouched ==
  /\ UNCHANGED <<pending, executed, signalled>>
  /\ \A t \in Threads : threadPc[t] = "wakeup" => threadPc'[t] = "wakeup"
  /\ loopPc' \in {"check", "setPolling", "exited"} =>
       loopPc \in {"check", "setPolling", "exited"}
  /\ loopPc' = "poll" /\ loopPc # "setPolling" =>
       loopPc = "poll" /\ wakeupOpen' = wakeupOpen /\ (eventfd > 0 => eventfd' > 0)

LEMMA SignalStep ==
  ASSUME IInv, [Next]_vars
  PROVE  SignalInv'
<1> USE DEF IInv
<1>1. ASSUME SignalUntouched PROVE SignalInv'
  <2>1. \A f \in signalled : f[1] \in Threads
    BY SignalledType
  <2> QED BY <1>1, <2>1 DEF SignalInv, SignalUntouched
<1>2. ASSUME UNCHANGED vars PROVE SignalUntouched
  BY <1>2 DEF vars, queueVars, pollVars, SignalUntouched
<1>3. ASSUME CheckQuit \/ SetPolling \/ Poll \/ ClearPolling \/ HandleRead \/ HandleClose
               \/ HandleIo \/ LockPending \/ PollInterrupted \/ Stimulus
      PROVE  SignalUntouched
  BY <1>3 DEF SignalUntouched, TypeOK, LoopGoto, callVars, queueVars, pollVars, CheckQuit,
              SetPolling, Poll, ClearPolling, HandleRead, HandleClose, HandleIo,
              LockPending, PollInterrupted, Stimulus
<1>4. ASSUME RunFunctor PROVE SignalInv'
  <2>1. /\ UNCHANGED <<pending, signalled>>
        /\ loopPc = "run" /\ loopPc' = "run"
        /\ executed' = Append(executed, pending[next])
        /\ next \in 1..Len(pending)
    BY <1>4 DEF RunFunctor, LoopGoto, TypeOK
  <2>2. pending[next] \in Functors
    BY <2>1 DEF TypeOK
  <2>3. Range1(executed') = Range1(executed) \cup {pending[next]}
    BY <2>1, <2>2, RangeAppend DEF TypeOK
  <2> QED BY <2>1, <2>3 DEF SignalInv
<1>5. ASSUME ClearPending PROVE SignalInv'
  <2>1. UNCHANGED <<signalled, executed>> /\ pending' = << >> /\ next > Len(pending)
    BY <1>5 DEF ClearPending
  <2>2. Range1(pending') = {}
    BY <2>1, RangeEmpty
  <2> QED BY <2>1, <2>2, WalkRanPending DEF SignalInv
<1>6. ASSUME UnlockPending PROVE SignalInv'
  <2>1. UNCHANGED <<signalled, executed, pending>> /\ loopPc = "unlock"
    BY <1>6 DEF UnlockPending, LoopGoto, queueVars
  <2>2. Range1(pending) = {}
    BY <2>1, RangeEmpty DEF OrderInv
  <2> QED BY <2>1, <2>2 DEF SignalInv
<1>7. ASSUME NEW t \in Threads,
             RunInLoop(t) \/ LockQueue(t) \/ UnlockQueue(t) \/ Quit(t) \/ QuitWakeup(t)
      PROVE  SignalUntouched
  BY <1>7 DEF SignalUntouched, TypeOK, ThreadGoto, queueVars, pollVars, RunInLoop,
              LockQueue, UnlockQueue, Quit, QuitWakeup, WriteEventfd
<1>8. ASSUME NEW t \in Threads, AppendFunctor(t) PROVE SignalInv'
  <2>1. /\ UNCHANGED <<loopPc, signalled, executed, wakeupOpen, eventfd>>
        /\ threadPc[t] = "append"
        /\ \A u \in Threads \ {t} : threadPc'[u] = threadPc[u]
        /\ pending' = Append(pending, Current(t))
    BY <1>8 DEF AppendFunctor, ThreadGoto, TypeOK, pollVars
  <2>2. Current(t) \in Functors
    BY <2>1, CurrentIsFunctor
  <2>3. Range1(pending') = Range1(pending) \cup {Current(t)}
    BY <2>1, <2>2, RangeAppend DEF TypeOK
  <2>4. Current(t) \notin signalled
    BY <2>1, SignalledType DEF Current, CallInv
  <2>5. \A f \in signalled : f[1] \in Threads
    BY SignalledType
  <2> QED BY <2>1, <2>3, <2>4, <2>5 DEF SignalInv
<1>9. ASSUME NEW t \in Threads, TestPolling(t) PROVE SignalInv'
  <2>1. /\ UNCHANGED <<loopPc, pending, executed, wakeupOpen, eventfd>>
        /\ threadPc[t] = "testPolling"
        /\ \A u \in Threads \ {t} : threadPc'[u] = threadPc[u]
        /\ \/ polling /\ signalled' = signalled \cup {Current(t)} /\ threadPc'[t] = "wakeup"
           \/ ~polling /\ signalled' = signalled
    BY <1>9 DEF TestPolling, ThreadGoto, TypeOK, queueVars, pollVars
  <2>2. Current(t) \in Range1(pending) /\ Current(t)[1] = t
    BY <2>1 DEF CallInv, Current
  <2>3. \A f \in signalled : f[1] \in Threads
    BY SignalledType
  <2> QED BY <2>1, <2>2, <2>3 DEF SignalInv, PollingInv
<1>10. ASSUME NEW t \in Threads, Wakeup(t) PROVE SignalInv'
  <2>1. /\ UNCHANGED <<loopPc, pending, executed, signalled, wakeupOpen>>
        /\ wakeupOpen => eventfd' > 0
    BY <1>10 DEF Wakeup, WriteEventfd, ThreadGoto, TypeOK, queueVars, pollVars
  <2> QED BY <2>1 DEF SignalInv
<1> QED
  BY <1>1, <1>2, <1>3, <1>4, <1>5, <1>6, <1>7, <1>8, <1>9, <1>10
  DEF Next, LoopStep, QueueInLoop

-----------------------------------------------------------------------------
(* The inductive invariant and what follows from it.                       *)
THEOREM Inductive == Spec => []IInv
<1>1. Init => IInv
  BY TypeInit, LockInit, OrderInit, CallInit DEF IInv
<1>2. IInv /\ [Next]_vars => IInv'
  BY TypeStep, LockStep, OrderStep, CallStep, SignalStep DEF IInv
<1> QED BY <1>1, <1>2, PTL DEF Spec

(* No functor whose caller saw the loop polling is left with a sleeping    *)
(* loop: queueInLoop's test of polling_ is enough for those callers.       *)
THEOREM NoMissedWakeupHolds == Spec => []NoMissedWakeup
<1>1. IInv => NoMissedWakeup
  <2> SUFFICES ASSUME IInv, Asleep, wakeupOpen,
                      NEW f \in Range1(pending) \cap signalled
               PROVE  threadPc[f[1]] = "wakeup"
    BY DEF NoMissedWakeup
  <2>1. loopPc = "poll" /\ ~(eventfd > 0)
    BY DEF Asleep, ReadyCallBacks, WakeupCallBack
  <2> QED BY <2>1 DEF IInv, SignalInv
<1> QED BY <1>1, Inductive, PTL

(* queueInLoop and doPendingFunctors never overlap.                        *)
THEOREM MutualExclusionHolds == Spec => []MutualExclusion
<1>1. IInv => MutualExclusion
  BY DEF IInv, LockInv, MutualExclusion
<1> QED BY <1>1, Inductive, PTL

(* A loop that has been left ran every functor whose caller saw it polling.*)
THEOREM ExitedRanSignalledHolds == Spec => []ExitedRanSignalled
<1>1. IInv => ExitedRanSignalled
  BY DEF IInv, SignalInv, ExitedRanSignalled
<1> QED BY <1>1, Inductive, PTL

-----------------------------------------------------------------------------
(* The loop implements the queue of functors: the history variables are    *)
(* the refinement mapping, AppendFunctor is Accept, RunFunctor is Execute  *)
(* and every other step stutters.                                          *)
THEOREM Refinement == Spec => ImplementsFunctorQueue
<1>1. Init => Queue!Init
  BY DEF Init, Queue!Init
<1>2. ASSUME IInv, [Next]_vars PROVE [Queue!Next]_(Queue!queueVars)
  <2> USE DEF Queue!queueVars
  <2>1. CASE QueueUntouched
    BY <2>1 DEF QueueUntouched, queueVars
  <2>2. CASE LockPending \/ ClearPending
    BY <2>2 DEF LockPending, ClearPending
  <2>3. CASE RunFunctor
    <3>1. /\ executed' = Append(executed, pending[next]) /\ UNCHANGED accepted
          /\ next \in 1..Len(pending)
      BY <1>2, <2>3 DEF RunFunctor, IInv, TypeOK
    <3>2. /\ Len(executed) < Len(accepted)
          /\ pending[next] = accepted[Base + next] /\ Base + next = Len(executed) + 1
      BY <1>2, <3>1 DEF IInv, TypeOK, OrderInv, Base
    <3> QED BY <3>1, <3>2 DEF Queue!Next, Queue!Execute
  <2>4. ASSUME NEW t \in Threads, AppendFunctor(t) PROVE Queue!Next
    <3>1. Current(t) \in Functors
      BY <1>2, <2>4, CurrentIsFunctor DEF IInv, AppendFunctor, ThreadGoto
    <3> QED BY <2>4, <3>1 DEF AppendFunctor, Queue!Next, Queue!Accept
  <2> QED BY <1>2, <2>1, <2>2, <2>3, <2>4, OtherActions DEF IInv
<1> QED
  BY <1>1, <1>2, Inductive, PTL DEF Spec, ImplementsFunctorQueue, Queue!Spec

=============================================================================
