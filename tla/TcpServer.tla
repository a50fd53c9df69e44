------------------------------ MODULE TcpServer ------------------------------
(***************************************************************************)
(* TcpServer, its Acceptor and EventLoopThreadPool, and the TcpConnection  *)
(* objects they share between the main loop and the io loops.              *)
(*                                                                         *)
(* Every loop is a coarser EventLoop: queueInLoop is one step, blocked     *)
(* while the target is inside doPendingFunctors, and polling_ and the      *)
(* owner of mutex_ are read off the loop's control state, as the proofs of *)
(* EventLoopProofs allow.                                                  *)
(***************************************************************************)
EXTENDS Naturals, Sequences, FiniteSets

CONSTANTS
  MainLoop,         \* the loop of the acceptor
  Pool,             \* eventLoops_ of the pool, in order
  Clients,          \* endpoints that connect
  MaxConns,         \* bound: connections accepted in all
  GarbageOut        \* may EPOLLOUT be set in the uninitialised events_ ?

IoLoops == {Pool[i] : i \in 1..Len(Pool)}
Loops == IoLoops \cup {MainLoop}
Conns == 1..MaxConns
Fds == 1..MaxConns

(* TcpServer::start starts the pool with kNumEventLoopThreads threads.     *)
ASSUME TcpServerAssumption ==
  /\ Len(Pool) \in Nat \ {0}
  /\ MainLoop \notin IoLoops
  /\ MaxConns \in Nat \ {0}
  /\ GarbageOut \subseteq BOOLEAN /\ GarbageOut # {}

VARIABLES
  pc,               \* control state of every loop's thread
  pending,          \* pendingFunctors_ of every loop: <<function, connection>>
  walk,             \* next index of the walk in doPendingFunctors
  eventfd,          \* the loop's eventfd is readable
  active,           \* callbacks activeChannels_ stands for: <<callback, connection>>
  next,             \* EventLoopThreadPool::next_, counted from 1
  created,          \* connections created so far
  conn,             \* fd, client and loop of every connection object
  alive,            \* connection objects that exist
  openFds,          \* descriptors the process has open for connections
  registered,       \* connections whose channel is registered with epoll
  outEnabled,       \* connections with EPOLLOUT in their channel's events_
  connections,      \* connections_: what every name maps to, 0 if nothing
  backlog,          \* clients waiting in the listen queue
  peer,             \* the connection every client has open, or 0
  sock,             \* what the kernel holds for every connection's socket
  requests,         \* history: connections a request was sent on
  served,           \* history: connections whose request was answered
  closes            \* history: how often closeCallBack_ ran for a connection

queueVars == <<pending, eventfd>>
objectVars == <<next, created, conn>>
channelVars == <<registered, outEnabled>>
lifeVars == <<alive, openFds, connections>>
peerVars == <<backlog, peer, requests>>
vars == <<pc, walk, active, queueVars, objectVars, channelVars, lifeVars, peerVars,
          sock, served, closes>>

Name(c) == <<conn[c].fd, conn[c].client>>
Names == Fds \X Clients

(* polling_ and mutex_ of a loop, see EventLoopProofs.                     *)
Polling(l) == pc[l] = "poll"
MutexFree(l) == pc[l] # "run"

Goto(l, from, to) ==
  /\ pc[l] = from
  /\ pc' = [pc EXCEPT ![l] = to]

-----------------------------------------------------------------------------
(* Handing over functors, and the end of connection objects.               *)

QueueInLoop(l, functor) ==
  /\ MutexFree(l)
  /\ pending' = [pending EXCEPT ![l] = Append(@, functor)]
  /\ eventfd' = [eventfd EXCEPT ![l] = @ \/ Polling(l)]

(* Connections something refers to: connections_, or a functor that was    *)
(* not cleared yet, since std::bind keeps the TcpConnectionPtr.            *)
Referenced(map, queues) ==
  {map[n] : n \in Names} \cup
  UNION {{queues[l][i][2] : i \in 1..Len(queues[l])} : l \in Loops}

(* The last reference gone, ~TcpConnection runs and ~Socket closes the fd. *)
Release ==
  /\ alive' = alive \cap Referenced(connections', pending')
  /\ openFds' = openFds \ {conn[c].fd : c \in alive \ alive'}

(* Fault: connections_.erase is forgotten.                                 *)
RemoveConnectionInLoop_NoErase(c) ==
  /\ UNCHANGED connections
  /\ QueueInLoop(conn[c].loop, <<"connectDestroy", c>>)

(* TcpServer::removeConnectionInLoop, on the main loop.                    *)
RemoveConnectionInLoop(c) ==
  /\ connections' = [connections EXCEPT ![Name(c)] = 0]
  /\ QueueInLoop(conn[c].loop, <<"connectDestroy", c>>)

-----------------------------------------------------------------------------
(* The loops.                                                              *)

SetPolling(l) ==
  /\ Goto(l, "setPolling", "poll")
  /\ UNCHANGED <<walk, active, queueVars, objectVars, channelVars, lifeVars, peerVars,
                 sock, served, closes>>

(* Fault: a peer that finished sending counts as gone.                     *)
CallBackOf_FinFirst(c) ==
  IF sock[c].fin THEN "close"
  ELSE IF sock[c].data THEN "read"
  ELSE IF c \in outEnabled THEN "close" ELSE "none"

(* The callback of handleEventWithGuard for what epoll reports, "none" if  *)
(* it reports nothing: a hang-up, or an event without EPOLLIN, is a close. *)
CallBackOf(c) ==
  IF sock[c].fin /\ sock[c].wrShut THEN "close"
  ELSE IF sock[c].data \/ sock[c].fin THEN "read"
  ELSE IF c \in outEnabled THEN "close" ELSE "none"

Ready(l) ==
  {<<CallBackOf(c), c>> : c \in {d \in registered : conn[d].loop = l /\ CallBackOf(d) # "none"}}
  \cup (IF eventfd[l] THEN {<<"wakeup", 0>>} ELSE {})
  \cup (IF l = MainLoop /\ backlog # << >> THEN {<<"accept", 0>>} ELSE {})

(* polling_ is cleared as soon as epoll_wait returned; a wakeup written in *)
(* between would only be a spurious one.                                   *)
Poll(l) ==
  /\ Ready(l) # {}
  /\ Goto(l, "poll", "dispatch")
  /\ active' = [active EXCEPT ![l] = Ready(l)]
  /\ UNCHANGED <<walk, queueVars, objectVars, channelVars, lifeVars, peerVars, sock,
                 served, closes>>

(* A signal, or an event of a channel that is not modelled here, ends an   *)
(* epoll_wait that has nothing to report.                                  *)
PollInterrupted(l) ==
  /\ Ready(l) = {}
  /\ Goto(l, "poll", "dispatch")
  /\ UNCHANGED <<walk, active, queueVars, objectVars, channelVars, lifeVars, peerVars,
                 sock, served, closes>>

(* One callback of the batch in activeChannels_.                           *)
Dispatch(l, event) ==
  /\ pc[l] = "dispatch"
  /\ event \in active[l]
  /\ active' = [active EXCEPT ![l] = @ \ {event}]
  /\ UNCHANGED <<pc, walk>>

HandleWakeup(l) ==
  /\ Dispatch(l, <<"wakeup", 0>>)
  /\ eventfd' = [eventfd EXCEPT ![l] = FALSE]
  /\ UNCHANGED <<pending, objectVars, channelVars, lifeVars, peerVars, sock, served,
                 closes>>

(* accept(2) returns the lowest descriptor that is not open.               *)
LowestFd == CHOOSE fd \in Fds \ openFds : \A g \in Fds \ openFds : fd <= g

(* EventLoopThreadPool::nextLoop moves on round robin.                     *)
NextLoop == IF next + 1 > Len(Pool) THEN 1 ELSE next + 1

(* Acceptor::handleRead with a descriptor left: the first client of the    *)
(* listen queue is connected.                                              *)
AcceptPeer(c, k) ==
  /\ Fds \ openFds # {}
  /\ backlog' = Tail(backlog)
  /\ peer' = [peer EXCEPT ![k] = c]

(* It calls TcpServer::newConnection: one connection for one event, given  *)
(* to the next loop of the pool.                                           *)
HandleAccept ==
  LET c == created + 1
      io == Pool[next]
      k == Head(backlog)
  IN
  /\ Dispatch(MainLoop, <<"accept", 0>>)
  /\ AcceptPeer(c, k)
  /\ created' = c
  /\ next' = NextLoop
  /\ conn' = [conn EXCEPT ![c] = [fd |-> LowestFd, client |-> k, loop |-> io]]
  /\ alive' = alive \cup {c}
  /\ openFds' = openFds \cup {LowestFd}
  /\ connections' = [connections EXCEPT ![<<LowestFd, k>>] = c]
  /\ \E out \in GarbageOut : outEnabled' = IF out THEN outEnabled \cup {c} ELSE outEnabled
  /\ QueueInLoop(io, <<"connectEstablish", c>>)
  /\ UNCHANGED <<registered, sock, requests, served, closes>>

(* accept(2) fails for another reason than a lack of descriptors, and the  *)
(* client is gone from the listen queue or waits on.  newConnection is     *)
(* called all the same, with -1: the next loop is taken and woken up.      *)
(* Neither the object nor its functor is kept: no client's connection has  *)
(* a name with -1, and its connectEstablish only fails in epoll_ctl.       *)
AcceptFails ==
  LET io == Pool[next] IN
  /\ Dispatch(MainLoop, <<"accept", 0>>)
  /\ backlog' \in {backlog, Tail(backlog)}
  /\ next' = NextLoop
  /\ MutexFree(io)
  /\ eventfd' = [eventfd EXCEPT ![io] = @ \/ Polling(io)]
  /\ UNCHANGED <<pending, created, conn, channelVars, lifeVars, peer, requests, sock,
                 served, closes>>

(* Fault: the channel stays registered.                                    *)
HandleClose_KeepsChannel(c) ==
  /\ closes' = [closes EXCEPT ![c] = @ + 1]
  /\ QueueInLoop(MainLoop, <<"removeConnectionInLoop", c>>)
  /\ UNCHANGED <<channelVars, objectVars, lifeVars, peerVars, sock, served>>

(* Fault: the descriptor is closed along with the channel.                 *)
HandleClose_ClosesFd(c) ==
  /\ registered' = registered \ {c}
  /\ outEnabled' = outEnabled \ {c}
  /\ openFds' = openFds \ {conn[c].fd}
  /\ closes' = [closes EXCEPT ![c] = @ + 1]
  /\ QueueInLoop(MainLoop, <<"removeConnectionInLoop", c>>)
  /\ UNCHANGED <<objectVars, alive, connections, peerVars, sock, served>>

(* TcpConnection::handleClose on the connection's loop: the channel leaves *)
(* epoll, then TcpServer::removeConnection hands over to the main loop.    *)
HandleClose(c) ==
  /\ registered' = registered \ {c}
  /\ outEnabled' = outEnabled \ {c}
  /\ closes' = [closes EXCEPT ![c] = @ + 1]
  /\ QueueInLoop(MainLoop, <<"removeConnectionInLoop", c>>)
  /\ UNCHANGED <<objectVars, lifeVars, peerVars, sock, served>>

(* TcpConnection::handleRead with data: messageCallBack_ answers, and      *)
(* shuts the write side unless the connection is kept alive.               *)
HandleMessage(c) ==
  /\ \E shut \in BOOLEAN :
       sock' = [sock EXCEPT ![c].data = FALSE, ![c].wrShut = @ \/ shut]
  /\ served' = served \cup {c}
  /\ UNCHANGED <<queueVars, objectVars, channelVars, lifeVars, peerVars, closes>>

(* Channel::handleEvent for a connection.                                  *)
HandleEvent(l, c) ==
  \/ Dispatch(l, <<"read", c>>) /\ sock[c].data /\ HandleMessage(c)
  \/ Dispatch(l, <<"read", c>>) /\ ~sock[c].data /\ HandleClose(c)
  \/ Dispatch(l, <<"close", c>>) /\ HandleClose(c)

LockPending(l) ==
  /\ active[l] = {}
  /\ Goto(l, "dispatch", "run")
  /\ walk' = [walk EXCEPT ![l] = 1]
  /\ UNCHANGED <<active, queueVars, objectVars, channelVars, lifeVars, peerVars, sock,
                 served, closes>>

(* Fault: a connection whose peer left meanwhile is given up on the spot.  *)
ConnectEstablish_GivesUp(c) ==
  /\ IF sock[c].fin
     THEN QueueInLoop(MainLoop, <<"removeConnectionInLoop", c>>) /\ UNCHANGED registered
     ELSE registered' = registered \cup {c} /\ UNCHANGED queueVars
  /\ UNCHANGED <<connections, alive, openFds>>

(* TcpConnection::connectEstablish: tie and enableReading.                 *)
ConnectEstablish(c) ==
  /\ registered' = registered \cup {c}
  /\ UNCHANGED <<queueVars, connections, alive, openFds>>

RunFunctor(l) ==
  /\ pc[l] = "run"
  /\ walk[l] <= Len(pending[l])
  /\ walk' = [walk EXCEPT ![l] = @ + 1]
  /\ LET f == pending[l][walk[l]][1]
         c == pending[l][walk[l]][2]
     IN
     \/ f = "connectEstablish" /\ ConnectEstablish(c)
     \/ f = "removeConnectionInLoop" /\ RemoveConnectionInLoop(c)
          /\ UNCHANGED <<registered, alive, openFds>>
     \/ f = "connectDestroy" /\ UNCHANGED <<queueVars, registered, lifeVars>>
  /\ UNCHANGED <<pc, active, objectVars, outEnabled, peerVars, sock, served, closes>>

(* pendingFunctors_.clear() drops the references the functors held.        *)
ClearPending(l) ==
  /\ walk[l] > Len(pending[l])
  /\ Goto(l, "run", "setPolling")
  /\ pending' = [pending EXCEPT ![l] = << >>]
  /\ UNCHANGED connections
  /\ Release
  /\ UNCHANGED <<walk, active, eventfd, objectVars, channelVars, peerVars, sock, served,
                 closes>>

LoopStep(l) ==
  \/ SetPolling(l) \/ Poll(l) \/ HandleWakeup(l)
  \/ l = MainLoop /\ (HandleAccept \/ AcceptFails)
  \/ \E c \in Conns : HandleEvent(l, c)
  \/ LockPending(l) \/ RunFunctor(l) \/ ClearPending(l)

-----------------------------------------------------------------------------
(* The clients.                                                            *)

Connect(k) ==
  /\ peer[k] = 0
  /\ \A i \in 1..Len(backlog) : backlog[i] # k
  /\ created + Len(backlog) < MaxConns
  /\ backlog' = Append(backlog, k)
  /\ UNCHANGED <<pc, walk, active, queueVars, objectVars, channelVars, lifeVars, peer,
                 sock, requests, served, closes>>

(* One request on every connection.                                        *)
SendRequest(k) ==
  /\ peer[k] # 0
  /\ peer[k] \notin requests
  /\ requests' = requests \cup {peer[k]}
  /\ sock' = [sock EXCEPT ![peer[k]].data = TRUE]
  /\ UNCHANGED <<pc, walk, active, queueVars, objectVars, channelVars, lifeVars, backlog,
                 peer, served, closes>>

ClosePeer(k) ==
  /\ peer[k] # 0
  /\ sock' = [sock EXCEPT ![peer[k]].fin = TRUE]
  /\ peer' = [peer EXCEPT ![k] = 0]
  /\ UNCHANGED <<pc, walk, active, queueVars, objectVars, channelVars, lifeVars, backlog,
                 requests, served, closes>>

Init ==
  /\ pc = [l \in Loops |-> "setPolling"]
  /\ pending = [l \in Loops |-> << >>]
  /\ walk = [l \in Loops |-> 1]
  /\ eventfd = [l \in Loops |-> FALSE]
  /\ active = [l \in Loops |-> {}]
  /\ next = 1
  /\ created = 0
  /\ conn = [c \in Conns |-> [fd |-> 0, client |-> 0, loop |-> MainLoop]]
  /\ alive = {}
  /\ openFds = {}
  /\ registered = {}
  /\ outEnabled = {}
  /\ connections = [n \in Names |-> 0]
  /\ backlog = << >>
  /\ peer = [k \in Clients |-> 0]
  /\ sock = [c \in Conns |-> [data |-> FALSE, fin |-> FALSE, wrShut |-> FALSE]]
  /\ requests = {}
  /\ served = {}
  /\ closes = [c \in Conns |-> 0]

Next ==
  \/ \E l \in Loops : LoopStep(l) \/ PollInterrupted(l)
  \/ \E k \in Clients : Connect(k) \/ SendRequest(k) \/ ClosePeer(k)

Spec == Init /\ [][Next]_vars

(* Every loop thread is scheduled, and a mutex that is released again and  *)
(* again is acquired eventually.  No client has to do anything, and no     *)
(* epoll_wait has to be interrupted.                                       *)
FairSpec == Spec /\ \A l \in Loops : SF_vars(LoopStep(l))

-----------------------------------------------------------------------------
Functors == {"connectEstablish", "removeConnectionInLoop", "connectDestroy"}
CallBacks == {"wakeup", "accept", "read", "close"}

(* The type invariant.                                                     *)
TypeOK ==
  /\ pc \in [Loops -> {"setPolling", "poll", "dispatch", "run"}]
  /\ pending \in [Loops -> Seq(Functors \X Conns)]
  /\ walk \in [Loops -> Nat \ {0}]
  /\ eventfd \in [Loops -> BOOLEAN]
  /\ active \in [Loops -> SUBSET (CallBacks \X (0..MaxConns))]
  /\ next \in 1..Len(Pool)
  /\ created \in 0..MaxConns
  /\ DOMAIN conn = Conns
  /\ \A c \in 1..created : conn[c] \in [fd : Fds, client : Clients, loop : IoLoops]
  /\ alive \subseteq 1..created
  /\ openFds \subseteq Fds
  /\ registered \subseteq 1..created
  /\ outEnabled \subseteq 1..created
  /\ connections \in [Names -> 0..created]
  /\ backlog \in Seq(Clients)
  /\ peer \in [Clients -> 0..created]
  /\ sock \in [Conns -> [data : BOOLEAN, fin : BOOLEAN, wrShut : BOOLEAN]]
  /\ requests \subseteq 1..created
  /\ served \subseteq 1..created
  /\ closes \in [Conns -> Nat]

(* epoll and activeChannels_ hold raw Channel pointers: each belongs to a  *)
(* connection that still exists, and is handled by the connection's loop.  *)
NoDanglingChannel ==
  /\ registered \subseteq alive
  /\ \A l \in Loops : \A event \in active[l] :
       event[2] # 0 => event[2] \in alive /\ conn[event[2]].loop = l

(* A connection that was not closed is found in connections_ under its     *)
(* name, although the name is built from a descriptor that gets reused.    *)
NameIsUnique ==
  \A c \in alive : closes[c] = 0 => connections[Name(c)] = c

(* A functor finds the object it was bound to in the state it expects:     *)
(* nothing is established after it was closed, removed before it was       *)
(* closed, or destroyed while it is still in connections_.                 *)
FunctorsInOrder ==
  \A l \in Loops : \A i \in walk[l]..Len(pending[l]) :
    LET c == pending[l][i][2] IN
    CASE pending[l][i][1] = "connectEstablish" -> c \notin registered /\ closes[c] = 0
      [] pending[l][i][1] = "removeConnectionInLoop" -> connections[Name(c)] = c /\ closes[c] = 1
      [] pending[l][i][1] = "connectDestroy" -> connections[Name(c)] # c

(* Every connection object lives the life of ConnectionLifecycle.          *)
Phase(c) ==
  CASE c > created -> "none"
    [] c <= created /\ c \notin alive -> "gone"
    [] c \in alive /\ closes[c] > 0 -> "closed"
    [] c \in registered /\ closes[c] = 0 -> "established"
    [] OTHER -> "created"

Lifecycle == INSTANCE ConnectionLifecycle WITH
  phase <- [c \in Conns |-> Phase(c)],
  owns <- [c \in Conns |-> IF c \in alive THEN {conn[c].fd} ELSE {}]
ImplementsLifecycle == Lifecycle!Spec

(* A walk of doPendingFunctors ends, although it holds its loop's mutex_   *)
(* and takes other loops' on the way.                                      *)
WalkEnds == \A l \in Loops : pc[l] = "run" ~> pc[l] # "run"

(* A request is answered.                                                  *)
RequestIsServed == \A c \in Conns : c \in requests ~> c \in served

(* As long as every loop keeps coming out of epoll_wait, for whatever      *)
(* reason, a request is answered, and a connection the peer closed is      *)
(* released with its descriptor.                                           *)
LoopsKeepPolling == \A l \in Loops : []<>(pc[l] = "dispatch")

ServedWhilePolling == LoopsKeepPolling => RequestIsServed

ReleasedWhilePolling ==
  LoopsKeepPolling => \A c \in Conns : sock[c].fin ~> c \notin alive

=============================================================================
