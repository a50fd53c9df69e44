--------------------------- MODULE TcpServerStart ---------------------------
(***************************************************************************)
(* A TcpServer from its start on: TcpServer::start makes the pool, one     *)
(* EventLoopThread after the other, then the acceptor listens, and main    *)
(* enters its loop.  The loops of the pool run as soon as they are made.   *)
(***************************************************************************)
EXTENDS TcpServer

VARIABLES
  threadPc,         \* control state of main in start, and of the new threads
  loop,             \* loop_ of every EventLoopThread
  built,            \* threads whose EventLoop is constructed
  mutex,            \* owner of every EventLoopThread's mutex_
  waiting,          \* EventLoopThreads whose cond_ main waits on
  eventLoops,       \* eventLoops_ of the pool
  listening         \* acceptor_->start() was called

startVars == <<threadPc, loop, built, mutex, waiting, eventLoops>>
allVars == <<vars, startVars, listening>>

Start == INSTANCE EventLoopThread WITH NumThreads <- Len(Pool), pc <- threadPc

StartInit == Init /\ Start!Init /\ listening = FALSE

(* A step of start or of a new thread before it calls loop().              *)
StartStep(step) == step /\ UNCHANGED <<vars, listening>>

AcceptorStart ==
  /\ threadPc[Start!Main] = "create" /\ Len(eventLoops) = Len(Pool)
  /\ ~listening
  /\ listening' = TRUE
  /\ UNCHANGED <<vars, startVars>>

(* The threads that are inside EventLoop::loop.                            *)
Looping(l) ==
  IF l = MainLoop THEN listening ELSE \E t \in 1..Len(Pool) : Pool[t] = l /\ threadPc[t] = "loop"

RunningStep(l) == Looping(l) /\ LoopStep(l) /\ UNCHANGED <<startVars, listening>>

StartNext ==
  \/ StartStep(Start!Next)
  \/ AcceptorStart
  \/ \E l \in Loops : RunningStep(l)
  \/ /\ \/ \E l \in Loops : Looping(l) /\ PollInterrupted(l)
        \/ \E k \in Clients : (listening /\ Connect(k)) \/ SendRequest(k) \/ ClosePeer(k)
     /\ UNCHANGED <<startVars, listening>>

StartSpec == StartInit /\ [][StartNext]_allVars

(* As in TcpServer and EventLoopThread.                                    *)
FairStartSpec ==
  /\ StartSpec
  /\ WF_allVars(StartStep(Start!MainStep)) /\ WF_allVars(AcceptorStart)
  /\ \A t \in 1..Len(Pool) : SF_allVars(StartStep(Start!ThreadStep(t)))
  /\ \A l \in Loops : SF_allVars(RunningStep(l))

-----------------------------------------------------------------------------
(* Every loop the pool got from startLoop is one that exists, the loop of  *)
(* the thread that was started for it, even when a wait returned with no   *)
(* signal; and a connection is only given to a loop whose thread runs it   *)
(* or is about to.                                                         *)
OwnLoops ==
  /\ \A i \in 1..Len(eventLoops) : eventLoops[i] = i /\ i \in built
  /\ \A c \in 1..created : \E i \in 1..Len(eventLoops) : conn[c].loop = Pool[eventLoops[i]]

(* The start returns, every thread reaches loop(), and the server listens, *)
(* whether a thread signals before the main thread waits or after.         *)
PoolStarts == <>[](listening /\ \A l \in Loops : Looping(l))

=============================================================================
