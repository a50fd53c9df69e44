--------------------------- MODULE EventLoopThread ---------------------------
(***************************************************************************)
(* EventLoopThreadPool::start: for every thread of the pool the main       *)
(* thread creates an EventLoopThread and waits in startLoop until that     *)
(* thread has made its EventLoop.                                          *)
(***************************************************************************)
EXTENDS Naturals, Sequences

CONSTANT NumThreads    \* kNumEventLoopThreads, a number

Main == 0
Threads == 1..NumThreads
Null == 0              \* nullptr; the loop of thread t is t
NoOwner == NumThreads + 1

VARIABLES
  pc,          \* of the main thread and of every thread of the pool
  loop,        \* loop_ of every EventLoopThread
  built,       \* threads whose EventLoop is constructed
  mutex,       \* owner of every EventLoopThread's mutex_
  waiting,     \* EventLoopThreads whose cond_ the main thread waits on
  eventLoops   \* eventLoops_ of the pool

vars == <<pc, loop, built, mutex, waiting, eventLoops>>

(* The EventLoopThread that start's loop is at.                            *)
Current == Len(eventLoops) + 1

Goto(p, from, to) ==
  /\ pc[p] = from
  /\ pc' = [pc EXCEPT ![p] = to]

Lock(t, p) == mutex[t] = NoOwner /\ mutex' = [mutex EXCEPT ![t] = p]
Unlock(t) == mutex' = [mutex EXCEPT ![t] = NoOwner]

Init ==
  /\ pc = [p \in Threads \cup {Main} |-> IF p = Main THEN "create" ELSE "none"]
  /\ loop = [t \in Threads |-> Null]
  /\ built = {}
  /\ mutex = [t \in Threads |-> NoOwner]
  /\ waiting = {}
  /\ eventLoops = <<>>

-----------------------------------------------------------------------------
(* The main thread: EventLoopThreadPool::start and startLoop.              *)

ThreadStart ==
  /\ pc[Main] = "create" /\ Current \in Threads
  /\ pc' = [pc EXCEPT ![Main] = "lock", ![Current] = "construct"]
  /\ UNCHANGED <<loop, built, mutex, waiting, eventLoops>>

StartLock ==
  /\ Goto(Main, "lock", "test")
  /\ Lock(Current, Main)
  /\ UNCHANGED <<loop, built, waiting, eventLoops>>

TestLoop ==
  /\ Goto(Main, "test", IF loop[Current] = Null THEN "sleep" ELSE "return")
  /\ UNCHANGED <<loop, built, mutex, waiting, eventLoops>>

(* pthread_cond_wait releases the mutex and waits in one step.             *)
Wait ==
  /\ Goto(Main, "sleep", "wait")
  /\ Unlock(Current)
  /\ waiting' = waiting \cup {Current}
  /\ UNCHANGED <<loop, built, eventLoops>>

(* It may return although nobody signalled.                                *)
SpuriousWakeup ==
  /\ pc[Main] = "wait" /\ Current \in waiting
  /\ waiting' = waiting \ {Current}
  /\ UNCHANGED <<pc, loop, built, mutex, eventLoops>>

(* Fault: if(!loop_).                                                     *)
AfterWait_If == "return"

(* Where the main thread goes on after the wait: while(!loop_).            *)
AfterWait == "test"

WaitReturns ==
  /\ Goto(Main, "wait", AfterWait) /\ Current \notin waiting
  /\ Lock(Current, Main)
  /\ UNCHANGED <<loop, built, waiting, eventLoops>>

(* start's push_back; the next thread is created after it.                 *)
StartReturns ==
  /\ Goto(Main, "return", "create")
  /\ Unlock(Current)
  /\ eventLoops' = Append(eventLoops, loop[Current])
  /\ UNCHANGED <<loop, built, waiting>>

-----------------------------------------------------------------------------
(* A thread of the pool: threadFunc.                                       *)

Construct(t) ==
  /\ Goto(t, "construct", "lock")
  /\ built' = built \cup {t}
  /\ UNCHANGED <<loop, mutex, waiting, eventLoops>>

(* Fault: loop_ is set and signalled without the mutex.                   *)
ThreadLock_NoLock(t) ==
  /\ Goto(t, "lock", "set")
  /\ UNCHANGED <<loop, built, mutex, waiting, eventLoops>>

ThreadLock(t) ==
  /\ Goto(t, "lock", "set")
  /\ Lock(t, t)
  /\ UNCHANGED <<loop, built, waiting, eventLoops>>

SetLoop(t) ==
  /\ Goto(t, "set", "unlock")
  /\ IF loop[t] = Null
       THEN loop' = [loop EXCEPT ![t] = t] /\ waiting' = waiting \ {t}
       ELSE UNCHANGED <<loop, waiting>>
  /\ UNCHANGED <<built, mutex, eventLoops>>

(* The guard's scope ends; then loop_->loop(), which nobody ever quits.    *)
ThreadUnlock(t) ==
  /\ Goto(t, "unlock", "loop")
  /\ Unlock(t)
  /\ UNCHANGED <<loop, built, waiting, eventLoops>>

-----------------------------------------------------------------------------
MainStep ==
  ThreadStart \/ StartLock \/ TestLoop \/ Wait \/ WaitReturns \/ StartReturns

ThreadStep(t) == Construct(t) \/ ThreadLock(t) \/ SetLoop(t) \/ ThreadUnlock(t)

Next == MainStep \/ SpuriousWakeup \/ \E t \in Threads : ThreadStep(t)

=============================================================================
