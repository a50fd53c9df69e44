---------------------------- MODULE TcpServerProofs ----------------------------
(***************************************************************************)
(* Proofs about TcpServer, for any pool, clients and number of             *)
(* connections: no channel outlives its connection, a connection that is   *)
(* not closed is found under its name, a functor finds its connection in   *)
(* the state it expects, and the pool has the loops of its own threads.    *)
(***************************************************************************)
EXTENDS TcpServerStart, SequenceTheorems, WellFoundedInduction, TLAPS

(* The functors of a loop that did not run yet.                            *)
First(l) == IF pc[l] = "run" THEN walk[l] ELSE 1
Todo(l) == {i \in 1..Len(pending[l]) : i >= First(l)}

FunctorOK(l, f, c) ==
  /\ c \in 1..created
  /\ f = "connectEstablish" => l = conn[c].loop /\ closes[c] = 0
  /\ f = "removeConnectionInLoop" => l = MainLoop /\ connections[Name(c)] = c /\ closes[c] = 1
  /\ f = "connectDestroy" => l = conn[c].loop /\ connections[Name(c)] # c /\ closes[c] = 1

(* A connection is bound to one functor at most, and to none while it is   *)
(* registered.                                                             *)
QueueInv ==
  \A l \in Loops : \A i \in Todo(l) :
    /\ FunctorOK(l, pending[l][i][1], pending[l][i][2])
    /\ pending[l][i][2] \notin registered
    /\ \A m \in Loops : \A j \in Todo(m) :
         pending[m][j][2] = pending[l][i][2] => m = l /\ j = i

(* What connections_ refers to is alive, and owns its descriptor alone.    *)
ConnInv ==
  /\ \A c \in Conns : c > created => closes[c] = 0
  /\ \A c \in registered : closes[c] = 0
  /\ \A c \in 1..created : closes[c] = 0 => connections[Name(c)] = c
  /\ \A n \in Names : connections[n] # 0 =>
       connections[n] \in alive /\ Name(connections[n]) = n
  /\ \A c \in alive : conn[c].fd \in openFds
  /\ \A c, d \in alive : conn[c].fd = conn[d].fd => c = d

(* A connection has one event at most in the batch of its own loop.        *)
EventInv ==
  /\ \A l \in Loops : \A event \in active[l] :
       /\ event[2] # 0 =>
            /\ event[2] \in registered /\ conn[event[2]].loop = l
            /\ \A other \in active[l] : other[2] = event[2] => other = event
       /\ event = <<"accept", 0>> => l = MainLoop /\ backlog # << >>
  /\ created + Len(backlog) <= MaxConns

IInv == TypeOK /\ QueueInv /\ ConnInv /\ EventInv

USE TcpServerAssumption DEF TcpServerAssumption

-----------------------------------------------------------------------------
(* What queueInLoop appends.                                               *)
LEMMA QueueInLoopStep ==
  ASSUME TypeOK, NEW l \in Loops, NEW f \in Functors, NEW c \in Conns,
         QueueInLoop(l, <<f, c>>)
  PROVE  /\ pending' \in [Loops -> Seq(Functors \X Conns)]
         /\ eventfd' \in [Loops -> BOOLEAN]
         /\ pc[l] # "run"
         /\ \A m \in Loops : \A i \in 1..Len(pending'[m]) :
              \/ i \in 1..Len(pending[m]) /\ pending'[m][i] = pending[m][i]
              \/ m = l /\ i = Len(pending[l]) + 1 /\ pending'[m][i] = <<f, c>>
<1>1. /\ pending \in [Loops -> Seq(Functors \X Conns)] /\ eventfd \in [Loops -> BOOLEAN]
      /\ pending' = [pending EXCEPT ![l] = Append(@, <<f, c>>)]
      /\ eventfd' = [eventfd EXCEPT ![l] = @ \/ Polling(l)]
  BY DEF QueueInLoop, TypeOK
<1>2. pending[l] \in Seq(Functors \X Conns) /\ <<f, c>> \in Functors \X Conns
  BY <1>1
<1>3. /\ pending'[l] = Append(pending[l], <<f, c>>)
      /\ \A m \in Loops : m # l => pending'[m] = pending[m]
  BY <1>1
<1>4. /\ Append(pending[l], <<f, c>>) \in Seq(Functors \X Conns)
      /\ Len(pending[l]) \in Nat
      /\ Len(pending'[l]) = Len(pending[l]) + 1
      /\ \A i \in 1..Len(pending[l]) : pending'[l][i] = pending[l][i]
      /\ pending'[l][Len(pending[l]) + 1] = <<f, c>>
  BY <1>2, <1>3, AppendProperties, LenProperties
<1>5. pending' \in [Loops -> Seq(Functors \X Conns)]
  BY <1>1, <1>4
<1>6. eventfd' \in [Loops -> BOOLEAN]
  BY <1>1 DEF Polling
<1>7. pc[l] # "run"
  BY DEF QueueInLoop, MutexFree
<1>8. ASSUME NEW m \in Loops, NEW i \in 1..Len(pending'[m])
      PROVE  \/ i \in 1..Len(pending[m]) /\ pending'[m][i] = pending[m][i]
             \/ m = l /\ i = Len(pending[l]) + 1 /\ pending'[m][i] = <<f, c>>
  <2>1. CASE m # l
    BY <1>3, <1>8, <2>1
  <2>2. CASE m = l
    BY <1>4, <1>8, <2>2
  <2> QED
    BY <2>1, <2>2
<1> QED
  BY <1>5, <1>6, <1>7, <1>8

(* The lowest descriptor that is not open.                                 *)
LEMMA LowestFdType ==
  ASSUME TypeOK, Fds \ openFds # {}
  PROVE  LowestFd \in Fds /\ LowestFd \notin openFds
<1> DEFINE S == Fds \ openFds
           Less == OpToRel(<, Nat)
<1>1. S \subseteq Nat
  BY DEF Fds
<1>2. \E fd \in S : \A g \in S : fd <= g
  <2>1. \A m, n \in Nat : <<m, n>> \notin Less => n <= m
    BY DEF OpToRel
  <2>2. IsWellFoundedOn(Less, Nat)
    BY NatLessThanWellFounded
  <2> HIDE DEF Less
  <2>3. PICK fd \in S : \A g \in S : <<g, fd>> \notin Less
    BY <1>1, <2>2, WFMin
  <2> QED
    BY <1>1, <2>1, <2>3
<1>3. LowestFd \in S
  BY <1>2 DEF LowestFd
<1> QED
  BY <1>3

LEMMA NameType ==
  ASSUME TypeOK, NEW c \in 1..created
  PROVE  /\ c \in Conns /\ Name(c) \in Names
         /\ conn[c].loop \in IoLoops /\ conn[c].loop \in Loops /\ conn[c].loop # MainLoop
<1>1. conn[c] \in [fd : Fds, client : Clients, loop : IoLoops]
  BY DEF TypeOK
<1>2. c \in Conns
  BY DEF TypeOK, Conns
<1>3. MainLoop \notin IoLoops
  BY DEF IoLoops
<1> QED
  BY <1>1, <1>2, <1>3 DEF Name, Names, Loops

LEMMA InitInv == Init => IInv
<1> SUFFICES ASSUME Init PROVE IInv
  OBVIOUS
<1>1. TypeOK
  <2>1. << >> \in Seq(Functors \X Conns) /\ << >> \in Seq(Clients)
    BY EmptySeq
  <2> QED
    BY <2>1 DEF Init, TypeOK
<1>2. QueueInv
  <2>1. \A l \in Loops : Len(pending[l]) = 0
    BY EmptySeq DEF Init
  <2> QED
    BY <2>1 DEF QueueInv, Todo
<1>3. ConnInv
  BY DEF Init, ConnInv
<1>4. EventInv
  BY EmptySeq DEF Init, EventInv
<1> QED
  BY <1>1, <1>2, <1>3, <1>4 DEF IInv

-----------------------------------------------------------------------------
(* How the functors to run change: some are run or cleared, ...            *)
Shrunk ==
  \A m \in Loops : \A i \in Todo(m)' : i \in Todo(m) /\ pending'[m][i] = pending[m][i]

(* ... and one may be handed over.                                         *)
Grown(l, f, c) ==
  \A m \in Loops : \A i \in Todo(m)' :
    \/ i \in Todo(m) /\ pending'[m][i] = pending[m][i]
    \/ m = l /\ i = Len(pending[l]) + 1 /\ pending'[m][i] = <<f, c>>

(* Other connections' functors still find what they expect.                *)
Others(c) ==
  \A m \in Loops, g \in Functors, d \in 1..created :
    d # c /\ FunctorOK(m, g, d) /\ d \notin registered =>
      FunctorOK(m, g, d)' /\ d \notin registered'

LEMMA TodoType ==
  ASSUME TypeOK, NEW m \in Loops, NEW i \in Todo(m)
  PROVE  /\ pending[m][i] \in Functors \X Conns
         /\ pending[m][i][1] \in Functors /\ pending[m][i][2] \in Conns
<1>1. pending[m] \in Seq(Functors \X Conns) /\ i \in 1..Len(pending[m])
  BY DEF TypeOK, Todo
<1>2. pending[m][i] \in Functors \X Conns
  BY <1>1, ElementOfSeq
<1> QED
  BY <1>2

LEMMA QueueShrunk ==
  ASSUME TypeOK, QueueInv, Shrunk, NEW c, Others(c),
         \A m \in Loops : \A i \in Todo(m)' : pending[m][i][2] # c
  PROVE  QueueInv'
<1> SUFFICES ASSUME NEW l \in Loops, NEW i \in Todo(l)'
             PROVE  /\ FunctorOK(l, pending[l][i][1], pending[l][i][2])'
                    /\ pending'[l][i][2] \notin registered'
                    /\ \A m \in Loops : \A j \in Todo(m)' :
                         pending'[m][j][2] = pending'[l][i][2] => m = l /\ j = i
  BY DEF QueueInv
<1>1. i \in Todo(l) /\ pending'[l][i] = pending[l][i]
  BY DEF Shrunk
<1>2. PICK g \in Functors, d \in 1..created :
        pending[l][i] = <<g, d>> /\ FunctorOK(l, g, d) /\ d \notin registered
  <2>1. /\ FunctorOK(l, pending[l][i][1], pending[l][i][2]) /\ pending[l][i][2] \notin registered
        /\ pending[l][i] \in Functors \X Conns
    BY <1>1, TodoType DEF QueueInv
  <2>2. pending[l][i][2] \in 1..created
    BY <2>1 DEF FunctorOK
  <2> QED
    BY <2>1, <2>2
<1>3. FunctorOK(l, g, d)' /\ d \notin registered'
  <2>1. d # c
    BY <1>1, <1>2
  <2> QED
    BY <1>2, <2>1 DEF Others
<1>4. \A m \in Loops : \A j \in Todo(m)' :
        pending'[m][j][2] = pending'[l][i][2] => m = l /\ j = i
  BY <1>1 DEF QueueInv, Shrunk
<1>5. pending'[l][i] = <<g, d>>
  BY <1>1, <1>2
<1> QED
  BY <1>3, <1>4, <1>5 DEF FunctorOK

LEMMA QueueGrown ==
  ASSUME TypeOK, QueueInv, NEW l \in Loops, NEW f \in Functors, NEW c \in Conns,
         Grown(l, f, c), Others(c), FunctorOK(l, f, c)', c \notin registered',
         \A m \in Loops : \A i \in Todo(m) :
           pending[m][i][2] = c => i \notin Todo(m)'
  PROVE  QueueInv'
<1> DEFINE New(m, i) == m = l /\ i = Len(pending[l]) + 1 /\ pending'[m][i] = <<f, c>>
           Old(m, i) == i \in Todo(m) /\ pending'[m][i] = pending[m][i] /\ pending[m][i][2] # c
<1>1. \A m \in Loops : \A i \in Todo(m)' : New(m, i) \/ Old(m, i)
  BY DEF Grown
<1> SUFFICES ASSUME NEW m \in Loops, NEW i \in Todo(m)'
             PROVE  /\ FunctorOK(m, pending[m][i][1], pending[m][i][2])'
                    /\ pending'[m][i][2] \notin registered'
                    /\ \A n \in Loops : \A j \in Todo(n)' :
                         pending'[n][j][2] = pending'[m][i][2] => n = m /\ j = i
  BY DEF QueueInv
<1>2. CASE New(m, i)
  <2>1. pending'[m][i] = <<f, c>> /\ m = l
    BY <1>2
  <2>2. ASSUME NEW n \in Loops, NEW j \in Todo(n)', pending'[n][j][2] = pending'[m][i][2]
        PROVE  n = m /\ j = i
    <3>1. pending'[n][j][2] = c
      BY <2>1, <2>2
    <3>2. New(n, j)
      BY <1>1, <3>1
    <3> QED
      BY <1>2, <3>2
  <2> QED
    BY <2>1, <2>2 DEF FunctorOK
<1>3. CASE Old(m, i)
  <2>1. PICK g \in Functors, d \in 1..created :
          pending[m][i] = <<g, d>> /\ FunctorOK(m, g, d) /\ d \notin registered
    <3>1. /\ FunctorOK(m, pending[m][i][1], pending[m][i][2]) /\ pending[m][i][2] \notin registered
          /\ pending[m][i] \in Functors \X Conns
      BY <1>3, TodoType DEF QueueInv
    <3>2. pending[m][i][2] \in 1..created
      BY <3>1 DEF FunctorOK
    <3> QED
      BY <3>1, <3>2
  <2>2. d # c /\ pending'[m][i] = <<g, d>>
    BY <1>3, <2>1
  <2>3. FunctorOK(m, g, d)' /\ d \notin registered'
    BY <2>1, <2>2 DEF Others
  <2>4. ASSUME NEW n \in Loops, NEW j \in Todo(n)', pending'[n][j][2] = pending'[m][i][2]
        PROVE  n = m /\ j = i
    <3>1. Old(n, j)
      BY <1>1, <2>2, <2>4
    <3> QED
      BY <1>3, <2>4, <3>1 DEF QueueInv
  <2> QED
    BY <2>2, <2>3, <2>4 DEF FunctorOK
<1> QED
  BY <1>1, <1>2, <1>3

-----------------------------------------------------------------------------
(* No loop begins its walk anew: First does not become less.               *)
LEMMA ShrunkByAction ==
  ASSUME TypeOK, NEW l \in Loops,
         \/ SetPolling(l) \/ Poll(l) \/ PollInterrupted(l) \/ HandleWakeup(l)
         \/ LockPending(l) \/ ClearPending(l)
         \/ UNCHANGED <<pc, walk, pending>>
  PROVE  Shrunk
<1> SUFFICES ASSUME NEW m \in Loops, NEW i \in Todo(m)'
             PROVE  i \in Todo(m) /\ pending'[m][i] = pending[m][i]
  BY DEF Shrunk
<1>1. /\ pc \in [Loops -> {"setPolling", "poll", "dispatch", "run"}]
      /\ walk \in [Loops -> Nat \ {0}] /\ \A n \in Loops : Len(pending[n]) \in Nat
  <2>1. \A n \in Loops : pending[n] \in Seq(Functors \X Conns)
    BY DEF TypeOK
  <2> QED
    BY <2>1, LenProperties DEF TypeOK
<1>2. CASE SetPolling(l) \/ Poll(l) \/ PollInterrupted(l)
  BY <1>1, <1>2 DEF SetPolling, Poll, PollInterrupted, Goto, queueVars, Todo, First
<1>3. CASE HandleWakeup(l) \/ UNCHANGED <<pc, walk, pending>>
  BY <1>3 DEF HandleWakeup, Dispatch, Todo, First
<1>4. CASE LockPending(l)
  BY <1>1, <1>4 DEF LockPending, Goto, queueVars, Todo, First
<1>5. CASE ClearPending(l)
  <2>1. /\ pc' = [pc EXCEPT ![l] = "setPolling"] /\ walk' = walk
        /\ pending' = [pending EXCEPT ![l] = << >>]
    BY <1>5 DEF ClearPending, Goto
  <2>2. CASE m = l
    <3>1. Len(pending'[m]) = 0
      BY <2>1, <2>2, EmptySeq DEF TypeOK
    <3> QED
      BY <3>1 DEF Todo
  <2>3. CASE m # l
    BY <1>1, <2>1, <2>3 DEF Todo, First, TypeOK
  <2> QED
    BY <2>2, <2>3
<1> QED
  BY <1>2, <1>3, <1>4, <1>5

(* queueInLoop while a loop is dispatching, or while it walks.             *)
LEMMA GrownByAction ==
  ASSUME TypeOK, NEW l \in Loops, NEW f \in Functors, NEW c \in Conns,
         QueueInLoop(l, <<f, c>>), pc' = pc,
         \A m \in Loops : walk'[m] \in {walk[m], walk[m] + 1}
  PROVE  Grown(l, f, c)
<1> SUFFICES ASSUME NEW m \in Loops, NEW i \in Todo(m)'
             PROVE  \/ i \in Todo(m) /\ pending'[m][i] = pending[m][i]
                    \/ m = l /\ i = Len(pending[l]) + 1 /\ pending'[m][i] = <<f, c>>
  BY DEF Grown
<1>1. i \in 1..Len(pending'[m]) /\ i >= First(m)'
  BY DEF Todo
<1>2. First(m)' >= First(m) /\ First(m) \in Nat /\ First(m)' \in Nat
  <2>1. /\ walk[m] \in Nat \ {0} /\ walk'[m] \in {walk[m], walk[m] + 1}
        /\ pc'[m] = pc[m]
    BY DEF TypeOK
  <2> QED
    BY <2>1 DEF First
<1>3. i \in 1..Len(pending[m]) => i \in Todo(m)
  BY <1>1, <1>2 DEF Todo
<1> QED
  BY <1>1, <1>3, QueueInLoopStep

-----------------------------------------------------------------------------
(* The steps that leave every connection and every functor as they were,   *)
(* but for functors that were run or cleared.                              *)
LEMMA KeptConnections ==
  ASSUME IInv, Shrunk,
         UNCHANGED <<created, conn, registered, connections, closes>>,
         UNCHANGED <<alive, openFds>> \/ Release
  PROVE  QueueInv' /\ ConnInv'
<1>1. QueueInv'
  <2>1. Others(0)
    BY DEF Others, FunctorOK, Name
  <2>2. \A m \in Loops : \A i \in Todo(m)' : pending[m][i][2] # 0
    BY TodoType DEF Shrunk, IInv, Conns
  <2> QED
    BY <2>1, <2>2, QueueShrunk DEF IInv
<1>2. CASE UNCHANGED <<alive, openFds>>
  BY <1>1, <1>2 DEF ConnInv, IInv, Name
<1>3. CASE Release
  <2>1. /\ alive' = alive \cap Referenced(connections, pending')
        /\ openFds' = openFds \ {conn[c].fd : c \in alive \ alive'}
        /\ created' = created /\ conn' = conn /\ registered' = registered
        /\ connections' = connections /\ closes' = closes
    BY <1>3 DEF Release
  <2>2. \A n \in Names : connections[n] # 0 => connections[n] \in alive'
    BY <2>1 DEF Referenced, ConnInv, IInv
  <2>3. \A c \in alive' : conn[c].fd \in openFds'
    BY <2>1 DEF ConnInv, IInv
  <2>4. \A c, d \in alive' : conn[c].fd = conn[d].fd => c = d
    BY <2>1 DEF ConnInv, IInv
  <2> QED
    BY <1>1, <2>1, <2>2, <2>3, <2>4 DEF ConnInv, IInv, Name, Names
<1> QED
  BY <1>2, <1>3

LEMMA ReadyType ==
  ASSUME IInv, NEW l \in Loops, NEW event \in Ready(l)
  PROVE  /\ event \in CallBacks \X (0..MaxConns)
         /\ event[2] # 0 =>
              /\ event = <<CallBackOf(event[2]), event[2]>>
              /\ event[2] \in registered /\ conn[event[2]].loop = l
         /\ event = <<"accept", 0>> => l = MainLoop /\ backlog # << >>
<1>1. registered \subseteq Conns
  BY DEF IInv, TypeOK, Conns
<1>2. CASE \E c \in registered :
             conn[c].loop = l /\ CallBackOf(c) # "none" /\ event = <<CallBackOf(c), c>>
  <2>1. PICK c \in registered :
          conn[c].loop = l /\ CallBackOf(c) # "none" /\ event = <<CallBackOf(c), c>>
    BY <1>2
  <2>2. CallBackOf(c) \in {"close", "read"}
    BY <2>1 DEF CallBackOf
  <2>3. c \in 0..MaxConns /\ c # 0
    BY <1>1 DEF Conns
  <2> QED
    BY <2>1, <2>2, <2>3 DEF CallBacks
<1>3. CASE event = <<"wakeup", 0>>
  BY <1>3 DEF CallBacks
<1>4. CASE event = <<"accept", 0>> /\ l = MainLoop /\ backlog # << >>
  BY <1>4 DEF CallBacks
<1> QED
  BY <1>2, <1>3, <1>4 DEF Ready

(* A loop polls, wakes up, or begins and ends its walk.                    *)
LEMMA LoopKeepsInv ==
  ASSUME IInv, NEW l \in Loops,
         \/ SetPolling(l) \/ Poll(l) \/ PollInterrupted(l) \/ HandleWakeup(l)
         \/ LockPending(l) \/ ClearPending(l)
  PROVE  IInv'
<1>1. /\ UNCHANGED <<objectVars, registered, connections, closes>>
      /\ UNCHANGED <<alive, openFds>> \/ Release
      /\ UNCHANGED <<channelVars, peerVars, sock, served>>
  BY DEF SetPolling, Poll, PollInterrupted, HandleWakeup, LockPending, ClearPending, Dispatch,
         lifeVars, channelVars, objectVars
<1>2. QueueInv' /\ ConnInv'
  BY <1>1, ShrunkByAction, KeptConnections DEF IInv, objectVars
<1>3. \/ active' = active
      \/ active' = [active EXCEPT ![l] = Ready(l)]
      \/ \E event : active' = [active EXCEPT ![l] = @ \ {event}]
  BY DEF SetPolling, Poll, PollInterrupted, HandleWakeup, LockPending, ClearPending, Dispatch
<1>4. active \in [Loops -> SUBSET (CallBacks \X (0..MaxConns))]
  BY DEF IInv, TypeOK
<1>6. TypeOK'
  <2>1. active' \in [Loops -> SUBSET (CallBacks \X (0..MaxConns))]
    BY <1>3, <1>4, ReadyType
  <2>2. /\ pc' \in [Loops -> {"setPolling", "poll", "dispatch", "run"}]
        /\ walk' \in [Loops -> Nat \ {0}] /\ eventfd' \in [Loops -> BOOLEAN]
    <3>1. /\ \/ pc' = pc
             \/ \E to \in {"setPolling", "poll", "dispatch", "run"} : pc' = [pc EXCEPT ![l] = to]
          /\ walk' = walk \/ walk' = [walk EXCEPT ![l] = 1]
          /\ eventfd' = eventfd \/ eventfd' = [eventfd EXCEPT ![l] = FALSE]
      BY DEF SetPolling, Poll, PollInterrupted, HandleWakeup, LockPending, ClearPending,
             Dispatch, Goto, queueVars
    <3>2. /\ pc \in [Loops -> {"setPolling", "poll", "dispatch", "run"}]
          /\ walk \in [Loops -> Nat \ {0}] /\ eventfd \in [Loops -> BOOLEAN]
      BY DEF IInv, TypeOK
    <3>3. pc' \in [Loops -> {"setPolling", "poll", "dispatch", "run"}]
      BY <3>1, <3>2
    <3>4. walk' \in [Loops -> Nat \ {0}]
      <4>1. 1 \in Nat \ {0}
        OBVIOUS
      <4> QED
        BY <3>1, <3>2, <4>1
    <3>5. eventfd' \in [Loops -> BOOLEAN]
      BY <3>1, <3>2
    <3> QED
      BY <3>3, <3>4, <3>5
  <2>3. pending' \in [Loops -> Seq(Functors \X Conns)]
    <3>1. pending' = pending \/ pending' = [pending EXCEPT ![l] = << >>]
      BY DEF SetPolling, Poll, PollInterrupted, HandleWakeup, LockPending, ClearPending,
             queueVars
    <3>2. /\ pending \in [Loops -> Seq(Functors \X Conns)]
          /\ << >> \in Seq(Functors \X Conns)
      BY EmptySeq DEF IInv, TypeOK
    <3> QED
      BY <3>1, <3>2
  <2>4. alive' \subseteq 1..created /\ openFds' \subseteq Fds
    BY <1>1 DEF IInv, TypeOK, Release
  <2> QED
    BY <1>1, <2>1, <2>2, <2>3, <2>4 DEF IInv, TypeOK, objectVars, channelVars, peerVars
<1>7. EventInv'
  <2>1. ASSUME NEW m \in Loops, NEW event \in active'[m]
        PROVE  /\ event[2] # 0 =>
                    /\ event[2] \in registered /\ conn[event[2]].loop = m
                    /\ \A other \in active'[m] : other[2] = event[2] => other = event
               /\ event = <<"accept", 0>> => m = MainLoop /\ backlog # << >>
    <3>1. CASE active'[m] \subseteq active[m]
      BY <3>1 DEF IInv, EventInv
    <3>2. CASE m = l /\ active'[m] = Ready(l)
      BY <3>2, ReadyType
    <3> QED
      BY <1>3, <1>4, <3>1, <3>2
  <2> QED
    BY <1>1, <2>1 DEF IInv, EventInv, objectVars, channelVars, peerVars
<1> QED
  BY <1>2, <1>6, <1>7 DEF IInv

(* What a client does.                                                     *)
LEMMA ClientKeepsInv ==
  ASSUME IInv, NEW k \in Clients, Connect(k) \/ SendRequest(k) \/ ClosePeer(k)
  PROVE  IInv'
<1>1. UNCHANGED <<pc, walk, active, queueVars, objectVars, channelVars, lifeVars, served, closes>>
  BY DEF Connect, SendRequest, ClosePeer
<1>2. QueueInv' /\ ConnInv'
  <2>1. PICK l \in Loops : TRUE
    BY DEF Loops
  <2>2. Shrunk
    BY <1>1, <2>1, ShrunkByAction DEF IInv, queueVars
  <2> QED
    BY <1>1, <2>2, KeptConnections DEF lifeVars, channelVars, objectVars
<1>3. /\ backlog' \in Seq(Clients) /\ created + Len(backlog') <= MaxConns
      /\ backlog # << >> => backlog' # << >>
  <2>1. CASE Connect(k)
    <3>1. /\ Append(backlog, k) \in Seq(Clients) /\ Append(backlog, k) # << >>
          /\ Len(Append(backlog, k)) = Len(backlog) + 1
      <4>1. backlog \in Seq(Clients)
        BY DEF IInv, TypeOK
      <4> QED
        BY <4>1, AppendProperties
    <3>2. /\ created + Len(backlog) < MaxConns /\ backlog' = Append(backlog, k)
          /\ Len(backlog) \in Nat /\ created \in Nat
      BY <2>1, LenProperties DEF Connect, IInv, TypeOK
    <3> QED
      BY <3>1, <3>2
  <2>2. CASE SendRequest(k) \/ ClosePeer(k)
    BY <2>2 DEF SendRequest, ClosePeer, IInv, TypeOK, EventInv
  <2> QED
    BY <2>1, <2>2
<1>4. /\ peer' \in [Clients -> 0..created] /\ requests' \subseteq 1..created
      /\ sock' \in [Conns -> [data : BOOLEAN, fin : BOOLEAN, wrShut : BOOLEAN]]
  <2>1. /\ peer \in [Clients -> 0..created] /\ requests \subseteq 1..created
        /\ sock \in [Conns -> [data : BOOLEAN, fin : BOOLEAN, wrShut : BOOLEAN]]
        /\ created \in Nat
    BY DEF IInv, TypeOK
  <2>2. CASE Connect(k)
    BY <2>1, <2>2 DEF Connect
  <2>3. CASE SendRequest(k)
    <3>1. peer[k] \in 1..created
      BY <2>1, <2>3 DEF SendRequest
    <3> QED
      BY <2>1, <2>3, <3>1 DEF SendRequest
  <2>4. CASE ClosePeer(k)
    <3>1. /\ sock' = [sock EXCEPT ![peer[k]].fin = TRUE] /\ peer' = [peer EXCEPT ![k] = 0]
          /\ requests' = requests
      BY <2>4 DEF ClosePeer
    <3>2. peer' \in [Clients -> 0..created]
      BY <2>1, <3>1
    <3>3. sock' \in [Conns -> [data : BOOLEAN, fin : BOOLEAN, wrShut : BOOLEAN]]
      BY <2>1, <3>1
    <3> QED
      BY <2>1, <3>1, <3>2, <3>3
  <2> QED
    BY <2>2, <2>3, <2>4
<1>5. TypeOK'
  BY <1>1, <1>3, <1>4
     DEF IInv, TypeOK, queueVars, objectVars, channelVars, lifeVars
<1>6. EventInv'
  BY <1>1, <1>3 DEF IInv, EventInv, objectVars, channelVars
<1> QED
  BY <1>2, <1>5, <1>6 DEF IInv

-----------------------------------------------------------------------------
(* What the functor a walk has reached is bound to.                        *)
LEMMA ReachedFunctor ==
  ASSUME IInv, NEW l \in Loops, pc[l] = "run", walk[l] <= Len(pending[l])
  PROVE  LET f == pending[l][walk[l]][1]
             c == pending[l][walk[l]][2]
         IN /\ walk[l] \in Todo(l)
            /\ f \in Functors /\ c \in 1..created /\ c \in Conns
            /\ FunctorOK(l, f, c) /\ c \notin registered
            /\ \A m \in Loops : \A j \in Todo(m) :
                 pending[m][j][2] = c => m = l /\ j = walk[l]
<1>1. walk[l] \in Todo(l)
  <2>1. walk[l] \in Nat \ {0} /\ Len(pending[l]) \in Nat
    <3>1. pending[l] \in Seq(Functors \X Conns) /\ walk[l] \in Nat \ {0}
      BY DEF IInv, TypeOK
    <3> QED
      BY <3>1, LenProperties
  <2> QED
    BY <2>1 DEF Todo, First
<1>2. /\ FunctorOK(l, pending[l][walk[l]][1], pending[l][walk[l]][2])
      /\ pending[l][walk[l]][2] \notin registered
      /\ \A m \in Loops : \A j \in Todo(m) :
           pending[m][j][2] = pending[l][walk[l]][2] => m = l /\ j = walk[l]
  BY <1>1 DEF IInv, QueueInv
<1>3. pending[l][walk[l]][1] \in Functors /\ pending[l][walk[l]][2] \in Conns
  BY <1>1, TodoType DEF IInv
<1> QED
  BY <1>1, <1>2, <1>3 DEF FunctorOK

(* The walk moves past the functor it has run.                             *)
LEMMA WalkOn ==
  ASSUME IInv, NEW l \in Loops, pc[l] = "run", pc' = pc, walk' = [walk EXCEPT ![l] = @ + 1]
  PROVE  /\ walk' \in [Loops -> Nat \ {0}]
         /\ \A m \in Loops : walk'[m] \in {walk[m], walk[m] + 1}
         /\ walk[l] \notin Todo(l)'
         /\ UNCHANGED pending => Shrunk
<1>1. walk \in [Loops -> Nat \ {0}] /\ \A m \in Loops : Len(pending[m]) \in Nat
  <2>1. \A m \in Loops : pending[m] \in Seq(Functors \X Conns)
    BY DEF IInv, TypeOK
  <2> QED
    BY <2>1, LenProperties DEF IInv, TypeOK
<1>2. /\ walk'[l] = walk[l] + 1 /\ \A m \in Loops : m # l => walk'[m] = walk[m]
      /\ walk' \in [Loops -> Nat \ {0}]
  BY <1>1
<1>3. walk[l] \notin Todo(l)'
  BY <1>1, <1>2 DEF Todo, First
<1>4. ASSUME UNCHANGED pending PROVE Shrunk
  BY <1>1, <1>2, <1>4 DEF Shrunk, Todo, First
<1> QED
  BY <1>1, <1>2, <1>3, <1>4

LEMMA EstablishKeepsInv ==
  ASSUME IInv, NEW l \in Loops, RunFunctor(l),
         pending[l][walk[l]][1] = "connectEstablish"
  PROVE  IInv'
<1> DEFINE c == pending[l][walk[l]][2]
<1>1. /\ pc[l] = "run" /\ pc' = pc /\ walk' = [walk EXCEPT ![l] = @ + 1]
      /\ registered' = registered \cup {c}
      /\ UNCHANGED <<queueVars, lifeVars, active, objectVars, outEnabled, peerVars, sock,
                     served, closes>>
      /\ walk[l] <= Len(pending[l])
  BY DEF RunFunctor, ConnectEstablish, lifeVars, queueVars
<1>2. /\ c \in 1..created /\ c \in Conns /\ closes[c] = 0
      /\ \A m \in Loops : \A j \in Todo(m) : pending[m][j][2] = c => m = l /\ j = walk[l]
  BY <1>1, ReachedFunctor DEF FunctorOK
<1>3. Shrunk /\ walk[l] \notin Todo(l)' /\ walk' \in [Loops -> Nat \ {0}]
  BY <1>1, WalkOn DEF queueVars
<1> HIDE DEF c
<1>4. TypeOK'
  BY <1>1, <1>2, <1>3 DEF IInv, TypeOK, queueVars, lifeVars, objectVars, peerVars
<1>5. QueueInv'
  <2>1. Others(c)
    BY <1>1 DEF Others, FunctorOK, queueVars, lifeVars, objectVars, Name
  <2>2. \A m \in Loops : \A i \in Todo(m)' : pending[m][i][2] # c
    BY <1>2, <1>3 DEF Shrunk
  <2> QED
    BY <1>3, <2>1, <2>2, QueueShrunk DEF IInv
<1>6. ConnInv'
  BY <1>1, <1>2 DEF IInv, ConnInv, lifeVars, objectVars, Name
<1>7. EventInv'
  BY <1>1 DEF IInv, EventInv, objectVars, peerVars
<1> QED
  BY <1>4, <1>5, <1>6, <1>7 DEF IInv

LEMMA DestroyKeepsInv ==
  ASSUME IInv, NEW l \in Loops, RunFunctor(l),
         pending[l][walk[l]][1] = "connectDestroy"
  PROVE  IInv'
<1>1. /\ pc[l] = "run" /\ pc' = pc /\ walk' = [walk EXCEPT ![l] = @ + 1]
      /\ UNCHANGED <<queueVars, lifeVars, active, objectVars, registered, outEnabled, peerVars,
                     sock, served, closes>>
  BY DEF RunFunctor
<1>2. Shrunk /\ walk' \in [Loops -> Nat \ {0}]
  BY <1>1, WalkOn DEF queueVars
<1>3. TypeOK'
  BY <1>1, <1>2 DEF IInv, TypeOK, queueVars, lifeVars, objectVars, peerVars
<1>4. QueueInv' /\ ConnInv'
  BY <1>1, <1>2, KeptConnections DEF lifeVars, objectVars
<1>5. EventInv'
  BY <1>1 DEF IInv, EventInv, objectVars, peerVars
<1> QED
  BY <1>3, <1>4, <1>5 DEF IInv

(* The name that is erased is that of a connection that was closed, and no *)
(* other connection has it.                                                *)
LEMMA RemoveKeepsInv ==
  ASSUME IInv, NEW l \in Loops, RunFunctor(l),
         pending[l][walk[l]][1] = "removeConnectionInLoop"
  PROVE  IInv'
<1>a. pc[l] = "run" /\ walk[l] <= Len(pending[l])
  BY DEF RunFunctor
<1>b. PICK c, io, f :
        c = pending[l][walk[l]][2] /\ io = conn[c].loop /\ f = "connectDestroy"
  OBVIOUS
<1>1. /\ pc[l] = "run" /\ pc' = pc /\ walk' = [walk EXCEPT ![l] = @ + 1]
      /\ connections' = [connections EXCEPT ![Name(c)] = 0]
      /\ QueueInLoop(io, <<f, c>>)
      /\ UNCHANGED <<registered, alive, openFds, active, objectVars, outEnabled, peerVars, sock,
                     served, closes>>
  BY <1>b DEF RunFunctor, RemoveConnectionInLoop
<1>2. /\ c \in 1..created /\ c \in Conns /\ c \notin registered
      /\ connections[Name(c)] = c /\ closes[c] = 1
      /\ \A m \in Loops : \A j \in Todo(m) : pending[m][j][2] = c => m = l /\ j = walk[l]
  <2>1. /\ c \in 1..created /\ c \in Conns /\ c \notin registered
        /\ FunctorOK(l, "removeConnectionInLoop", c)
        /\ \A m \in Loops : \A j \in Todo(m) :
             pending[m][j][2] = c => m = l /\ j = walk[l]
    BY <1>a, <1>b, ReachedFunctor
  <2> QED
    BY <2>1 DEF FunctorOK
<1>3. Name(c) \in Names /\ io \in Loops
  BY <1>b, <1>2, NameType DEF IInv
<1>4. /\ walk[l] \notin Todo(l)' /\ walk' \in [Loops -> Nat \ {0}]
      /\ \A m \in Loops : walk'[m] \in {walk[m], walk[m] + 1}
  BY <1>1, WalkOn
<1>5. /\ pending' \in [Loops -> Seq(Functors \X Conns)] /\ eventfd' \in [Loops -> BOOLEAN]
      /\ Grown(io, f, c)
  BY <1>b, <1>1, <1>2, <1>3, <1>4, QueueInLoopStep, GrownByAction DEF IInv, Functors
<1>6. /\ connections' \in [Names -> 0..created] /\ connections'[Name(c)] = 0
      /\ \A n \in Names : n # Name(c) => connections'[n] = connections[n]
  BY <1>1, <1>3 DEF IInv, TypeOK
<1>7. created' = created /\ conn' = conn /\ next' = next
  BY <1>1 DEF objectVars
<1>8. TypeOK'
  BY <1>1, <1>4, <1>5, <1>6, <1>7 DEF IInv, TypeOK, peerVars
<1>9. QueueInv'
  <2>1. Others(c)
    <3> SUFFICES ASSUME NEW m \in Loops, NEW g \in Functors, NEW d \in 1..created,
                        d # c, FunctorOK(m, g, d), d \notin registered
                 PROVE  FunctorOK(m, g, d)' /\ d \notin registered'
      BY DEF Others
    <3>1. Name(d)' = Name(d) /\ Name(d) \in Names /\ closes'[d] = closes[d] /\ d # 0
      BY <1>1, <1>7, NameType DEF IInv, Name
    <3>2. connections[Name(d)] = d => connections'[Name(d)] = d
      BY <1>2, <1>6, <3>1
    <3>3. connections[Name(d)] # d => connections'[Name(d)] # d
      BY <1>6, <3>1
    <3> QED
      BY <1>1, <1>7, <3>1, <3>2, <3>3 DEF FunctorOK
  <2>2. FunctorOK(io, f, c)' /\ c \notin registered'
    <3>1. UNCHANGED <<closes, registered>>
      BY <1>1
    <3>2. closes'[c] = 1 /\ c \notin registered' /\ c \in 1..created'
      BY <1>2, <1>7, <3>1
    <3>3. io = conn'[c].loop /\ f = "connectDestroy"
      BY <1>b, <1>7
    <3>4. Name(c)' = Name(c)
      BY <1>7 DEF Name
    <3>5. connections'[Name(c)'] # c
      BY <1>2, <1>6, <3>4
    <3> QED
      BY <3>2, <3>3, <3>5 DEF FunctorOK
  <2>3. \A m \in Loops : \A i \in Todo(m) : pending[m][i][2] = c => i \notin Todo(m)'
    BY <1>2, <1>4
  <2>4. f \in Functors
    BY <1>b DEF Functors
  <2> QED
    BY <1>2, <1>3, <1>5, <2>1, <2>2, <2>3, <2>4, QueueGrown DEF IInv
<1>10. ConnInv'
  <2>1. \A d \in 1..created : closes[d] = 0 => connections'[Name(d)] = d
    <3> SUFFICES ASSUME NEW d \in 1..created, closes[d] = 0 PROVE connections'[Name(d)] = d
      OBVIOUS
    <3>1. connections[Name(d)] = d /\ d # c /\ Name(d) \in Names
      BY <1>2, NameType DEF IInv, ConnInv
    <3> QED
      BY <1>2, <1>6, <3>1
  <2>2. \A n \in Names : connections'[n] # 0 => connections'[n] = connections[n]
    BY <1>6
  <2> QED
    <3>1. /\ registered' = registered /\ alive' = alive /\ openFds' = openFds
          /\ closes' = closes /\ created' = created
          /\ \A d : Name(d)' = Name(d)
      BY <1>1, <1>7 DEF Name
    <3>2. \A n \in Names : connections'[n] # 0 =>
            connections'[n] \in alive /\ Name(connections'[n]) = n
      BY <2>2 DEF IInv, ConnInv
    <3> QED
      BY <1>7, <2>1, <3>1, <3>2 DEF IInv, ConnInv
<1>11. EventInv'
  BY <1>1, <1>7 DEF IInv, EventInv, peerVars
<1> QED
  BY <1>8, <1>9, <1>10, <1>11 DEF IInv

LEMMA FunctorKeepsInv == ASSUME IInv, NEW l \in Loops, RunFunctor(l) PROVE IInv'
  BY EstablishKeepsInv, DestroyKeepsInv, RemoveKeepsInv DEF RunFunctor

-----------------------------------------------------------------------------
(* A new connection: what connections_ held for its name is gone, since    *)
(* its descriptor was not open.                                            *)
LEMMA AcceptKeepsInv == ASSUME IInv, HandleAccept PROVE IInv'
<1>a. PICK c, io, k, fd, f :
        /\ c = created + 1 /\ io = Pool[next] /\ k = Head(backlog) /\ fd = LowestFd
        /\ f = "connectEstablish"
  OBVIOUS
<1>1. /\ pc[MainLoop] = "dispatch" /\ <<"accept", 0>> \in active[MainLoop]
      /\ active' = [active EXCEPT ![MainLoop] = @ \ {<<"accept", 0>>}]
      /\ pc' = pc /\ walk' = walk
      /\ Fds \ openFds # {} /\ backlog' = Tail(backlog) /\ peer' = [peer EXCEPT ![k] = c]
      /\ created' = c /\ next' = NextLoop
      /\ conn' = [conn EXCEPT ![c] = [fd |-> fd, client |-> k, loop |-> io]]
      /\ alive' = alive \cup {c} /\ openFds' = openFds \cup {fd}
      /\ connections' = [connections EXCEPT ![<<fd, k>>] = c]
      /\ outEnabled' = outEnabled \/ outEnabled' = outEnabled \cup {c}
      /\ QueueInLoop(io, <<f, c>>)
      /\ UNCHANGED <<registered, sock, requests, served, closes>>
  BY <1>a DEF HandleAccept, Dispatch, AcceptPeer
<1>2. /\ MainLoop \in Loops /\ backlog # << >> /\ backlog \in Seq(Clients)
      /\ created + Len(backlog) <= MaxConns /\ created \in Nat
  BY <1>1 DEF IInv, TypeOK, EventInv, Loops
<1>3. /\ k \in Clients /\ Tail(backlog) \in Seq(Clients)
      /\ Len(Tail(backlog)) = Len(backlog) - 1 /\ Len(backlog) \in Nat \ {0}
  <2>1. Head(backlog) \in Clients /\ Tail(backlog) \in Seq(Clients)
        /\ Len(Tail(backlog)) = Len(backlog) - 1
    BY <1>2, HeadTailProperties
  <2>2. Len(backlog) \in Nat /\ Len(backlog) # 0
    BY <1>2, LenProperties, EmptySeq
  <2> QED
    BY <1>a, <2>1, <2>2
<1>4. /\ c \in 1..c /\ c \in Conns /\ c \in 0..MaxConns /\ c # 0 /\ c \notin 1..created
      /\ c > created /\ 1..created \subseteq 1..c /\ 0..created \subseteq 0..c
      /\ \A d \in 1..c : d # c => d \in 1..created
  BY <1>a, <1>2, <1>3 DEF Conns
<1>5. fd \in Fds /\ fd \notin openFds
  BY <1>a, <1>1, LowestFdType DEF IInv
<1>6. /\ next \in 1..Len(Pool) /\ io \in IoLoops /\ io \in Loops
      /\ NextLoop \in 1..Len(Pool)
  BY <1>a DEF IInv, TypeOK, IoLoops, Loops, NextLoop
<1>7. <<fd, k>> \in Names /\ connections \in [Names -> 0..created] /\ DOMAIN conn = Conns
  BY <1>3, <1>5 DEF IInv, TypeOK, Names
<1>8. /\ connections'[<<fd, k>>] = c
      /\ \A n \in Names : n # <<fd, k>> => connections'[n] = connections[n]
      /\ connections' \in [Names -> 0..c]
  BY <1>1, <1>4, <1>7
<1>9. /\ conn'[c] = [fd |-> fd, client |-> k, loop |-> io]
      /\ \A d : d # c => conn'[d] = conn[d]
      /\ DOMAIN conn' = Conns
  BY <1>1, <1>4, <1>7
<1>10. Name(c)' = <<fd, k>> /\ \A d : d # c => Name(d)' = Name(d)
  BY <1>1, <1>9 DEF Name
(* Names in use are those of other descriptors.                            *)
<1>11. \A d \in 1..created : connections[Name(d)] = d =>
         /\ Name(d) \in Names /\ Name(d) # <<fd, k>> /\ d # c /\ d \in alive
         /\ connections'[Name(d)] = d
  <2> SUFFICES ASSUME NEW d \in 1..created, connections[Name(d)] = d
               PROVE  /\ Name(d) \in Names /\ Name(d) # <<fd, k>> /\ d # c /\ d \in alive
                      /\ connections'[Name(d)] = d
    OBVIOUS
  <2>1. Name(d) \in Names /\ d # 0
    BY NameType DEF IInv
  <2>2. d \in alive /\ conn[d].fd \in openFds
    BY <2>1 DEF IInv, ConnInv
  <2>3. Name(d) # <<fd, k>>
    BY <1>5, <2>2 DEF Name
  <2> QED
    BY <1>4, <1>8, <2>1, <2>2, <2>3
<1>12. /\ pending' \in [Loops -> Seq(Functors \X Conns)] /\ eventfd' \in [Loops -> BOOLEAN]
       /\ Grown(io, f, c)
  <2>1. f \in Functors
    BY <1>a DEF Functors
  <2> QED
    BY <1>1, <1>4, <1>6, <2>1, QueueInLoopStep, GrownByAction DEF IInv
<1>13. TypeOK'
  <2>1. active' \in [Loops -> SUBSET (CallBacks \X (0..MaxConns))]
    BY <1>1, <1>2 DEF IInv, TypeOK
  <2>2. \A d \in 1..c : conn'[d] \in [fd : Fds, client : Clients, loop : IoLoops]
    <3>1. \A d \in 1..created : conn[d] \in [fd : Fds, client : Clients, loop : IoLoops]
      BY DEF IInv, TypeOK
    <3> QED
      BY <1>3, <1>4, <1>5, <1>6, <1>9, <3>1
  <2>3. peer' \in [Clients -> 0..c]
    <3>1. peer \in [Clients -> 0..created] /\ c \in 0..c
      BY <1>4 DEF IInv, TypeOK
    <3> QED
      BY <1>1, <1>4, <3>1
  <2>4. /\ alive' \subseteq 1..c /\ registered' \subseteq 1..c /\ outEnabled' \subseteq 1..c
        /\ requests' \subseteq 1..c /\ served' \subseteq 1..c /\ openFds' \subseteq Fds
    BY <1>1, <1>4, <1>5 DEF IInv, TypeOK
  <2>5. /\ pc' \in [Loops -> {"setPolling", "poll", "dispatch", "run"}]
        /\ walk' \in [Loops -> Nat \ {0}] /\ closes' \in [Conns -> Nat]
        /\ sock' \in [Conns -> [data : BOOLEAN, fin : BOOLEAN, wrShut : BOOLEAN]]
        /\ next' \in 1..Len(Pool) /\ created' = c /\ backlog' \in Seq(Clients)
    BY <1>1, <1>3, <1>6 DEF IInv, TypeOK
  <2> QED
    BY <1>4, <1>8, <1>9, <1>12, <2>1, <2>2, <2>3, <2>4, <2>5 DEF TypeOK
<1>14. QueueInv'
  <2>1. Others(c)
    <3> SUFFICES ASSUME NEW m \in Loops, NEW g \in Functors, NEW d \in 1..created,
                        d # c, FunctorOK(m, g, d), d \notin registered
                 PROVE  FunctorOK(m, g, d)' /\ d \notin registered'
      BY DEF Others
    <3>1. /\ Name(d)' = Name(d) /\ Name(d) \in Names /\ closes'[d] = closes[d]
          /\ conn'[d] = conn[d] /\ d \in 1..created'
      BY <1>1, <1>4, <1>9, <1>10, NameType DEF IInv
    <3>2. connections[Name(d)] = d => connections'[Name(d)] = d
      BY <1>11
    <3>3. connections[Name(d)] # d => connections'[Name(d)] # d
      BY <1>8, <3>1
    <3> QED
      BY <1>1, <3>1, <3>2, <3>3 DEF FunctorOK
  <2>2. FunctorOK(io, f, c)' /\ c \notin registered'
    <3>1. c \in 1..created' /\ io = conn'[c].loop /\ closes'[c] = 0 /\ c \notin registered'
      BY <1>1, <1>4, <1>9 DEF IInv, ConnInv, TypeOK
    <3> QED
      BY <1>a, <3>1 DEF FunctorOK
  <2>3. \A m \in Loops : \A i \in Todo(m) : pending[m][i][2] = c => i \notin Todo(m)'
    BY <1>4 DEF IInv, QueueInv, FunctorOK
  <2>4. f \in Functors
    BY <1>a DEF Functors
  <2> QED
    BY <1>4, <1>6, <1>12, <2>1, <2>2, <2>3, <2>4, QueueGrown DEF IInv
<1>15. ConnInv'
  <2>1. /\ \A d \in Conns : d > created' => closes'[d] = 0
        /\ \A d \in registered' : closes'[d] = 0
    <3>1. \A d \in Conns : d > c => d > created
      BY <1>a, <1>2 DEF Conns
    <3> QED
      BY <1>1, <3>1 DEF IInv, ConnInv
  <2>2. ASSUME NEW d \in 1..c, closes'[d] = 0 PROVE connections[Name(d)]' = d
    <3>1. CASE d = c
      BY <1>8, <1>10, <3>1
    <3>2. CASE d # c
      <4>1. d \in 1..created /\ connections[Name(d)] = d
        BY <1>1, <1>4, <2>2, <3>2 DEF IInv, ConnInv
      <4> QED
        BY <1>10, <1>11, <3>2, <4>1
    <3> QED
      BY <3>1, <3>2
  <2>3. ASSUME NEW n \in Names, connections'[n] # 0
        PROVE  connections'[n] \in alive' /\ Name(connections[n])' = n
    <3>1. CASE n = <<fd, k>>
      <4>1. connections'[n] = c /\ c \in alive'
        BY <1>1, <1>8, <3>1
      <4>2. Name(connections[n])' = Name(c)'
        BY <4>1 DEF Name
      <4> QED
        BY <1>10, <3>1, <4>1, <4>2
    <3>2. CASE n # <<fd, k>>
      <4>1. PICK d : d = connections[n]
        OBVIOUS
      <4>2. connections'[n] = d /\ d \in alive /\ Name(d) = n
        BY <1>8, <2>3, <3>2, <4>1 DEF IInv, ConnInv
      <4>3. d # c
        BY <1>4, <4>2 DEF IInv, TypeOK
      <4>4. Name(connections[n])' = Name(d)'
        BY <4>2 DEF Name
      <4> QED
        BY <1>1, <1>10, <4>2, <4>3, <4>4
    <3> QED
      BY <3>1, <3>2
  <2>4. \A d \in alive : d # c /\ conn'[d] = conn[d] /\ conn[d].fd \in openFds
    BY <1>4, <1>9 DEF IInv, ConnInv, TypeOK
  <2>5. conn'[c].fd = fd
    BY <1>9
  <2>6. \A d \in alive' : conn'[d].fd \in openFds'
    BY <1>1, <2>4, <2>5
  <2>7. \A d, e \in alive' : conn'[d].fd = conn'[e].fd => d = e
    BY <1>1, <1>5, <2>4, <2>5 DEF IInv, ConnInv
  <2> QED
    BY <1>1, <2>1, <2>2, <2>3, <2>6, <2>7 DEF ConnInv
<1>16. EventInv'
  <2>1. created' + Len(backlog') <= MaxConns
    BY <1>a, <1>1, <1>2, <1>3
  <2>2. ASSUME NEW l \in Loops, NEW event \in active'[l]
        PROVE  /\ event \in active[l] /\ active'[l] \subseteq active[l]
               /\ event # <<"accept", 0>>
    BY <1>1, <2>2 DEF IInv, EventInv, TypeOK
  <2>3. \A d \in registered : conn'[d] = conn[d]
    BY <1>4, <1>9 DEF IInv, TypeOK
  <2> QED
    BY <1>1, <2>1, <2>2, <2>3 DEF IInv, EventInv
<1> QED
  BY <1>13, <1>14, <1>15, <1>16 DEF IInv

(* A failing accept creates nothing, and no more clients wait than before. *)
LEMMA FailedAcceptKeepsInv == ASSUME IInv, AcceptFails PROVE IInv'
<1>1. /\ <<"accept", 0>> \in active[MainLoop]
      /\ active' = [active EXCEPT ![MainLoop] = @ \ {<<"accept", 0>>}]
      /\ pc' = pc /\ walk' = walk /\ pending' = pending
      /\ backlog' \in {backlog, Tail(backlog)} /\ next' = NextLoop
      /\ eventfd' = [eventfd EXCEPT ![Pool[next]] = @ \/ Polling(Pool[next])]
      /\ UNCHANGED <<created, conn, channelVars, lifeVars, peer, requests, sock, served, closes>>
  BY DEF AcceptFails, Dispatch
<1>2. /\ backlog \in Seq(Clients) /\ backlog # << >> /\ created + Len(backlog) <= MaxConns
      /\ created \in Nat /\ MainLoop \in Loops
  BY <1>1 DEF IInv, EventInv, TypeOK, Loops
<1>3. backlog' \in Seq(Clients) /\ created + Len(backlog') <= MaxConns
  <2>1. Tail(backlog) \in Seq(Clients) /\ Len(Tail(backlog)) = Len(backlog) - 1
    BY <1>2, HeadTailProperties
  <2>2. Len(backlog) \in Nat /\ MaxConns \in Nat
    BY <1>2, LenProperties
  <2>3. CASE backlog' = backlog
    BY <1>2, <2>3
  <2>4. CASE backlog' = Tail(backlog)
    BY <1>2, <2>1, <2>2, <2>4
  <2> QED
    BY <1>1, <2>3, <2>4
<1>4. next' \in 1..Len(Pool)
  BY <1>1 DEF NextLoop, IInv, TypeOK
<1>5. \A m \in Loops : active'[m] \subseteq active[m]
  BY <1>1 DEF IInv, TypeOK
<1>6. TypeOK'
  <2>1. active' \in [Loops -> SUBSET (CallBacks \X (0..MaxConns))]
    BY <1>1, <1>5 DEF IInv, TypeOK
  <2>2. eventfd' \in [Loops -> BOOLEAN]
    BY <1>1 DEF IInv, TypeOK, Polling
  <2> QED
    BY <1>1, <1>3, <1>4, <2>1, <2>2 DEF IInv, TypeOK, channelVars, lifeVars
<1>7. QueueInv' /\ ConnInv'
  <2>1. Shrunk
    BY <1>1, <1>2, ShrunkByAction DEF IInv
  <2> QED
    BY <1>1, <2>1, KeptConnections DEF lifeVars, channelVars
<1>8. EventInv'
  <2>1. ASSUME NEW l \in Loops, NEW event \in active'[l]
        PROVE  event \in active[l] /\ event # <<"accept", 0>>
    BY <1>1, <2>1 DEF IInv, EventInv, TypeOK
  <2> QED
    BY <1>1, <1>3, <1>5, <2>1 DEF IInv, EventInv, channelVars
<1> QED
  BY <1>6, <1>7, <1>8 DEF IInv

-----------------------------------------------------------------------------
(* A connection is closed by its own loop, while connections_ has it.      *)
LEMMA CloseKeepsInv ==
  ASSUME IInv, NEW l \in Loops, NEW c \in Conns, NEW callBack \in CallBacks,
         Dispatch(l, <<callBack, c>>), HandleClose(c)
  PROVE  IInv'
<1>a. PICK f : f = "removeConnectionInLoop"
  OBVIOUS
<1>1. /\ <<callBack, c>> \in active[l]
      /\ active' = [active EXCEPT ![l] = @ \ {<<callBack, c>>}]
      /\ pc' = pc /\ walk' = walk
      /\ registered' = registered \ {c} /\ outEnabled' = outEnabled \ {c}
      /\ closes' = [closes EXCEPT ![c] = @ + 1]
      /\ QueueInLoop(MainLoop, <<f, c>>)
      /\ next' = next /\ created' = created /\ conn' = conn
      /\ UNCHANGED <<lifeVars, peerVars, sock, served>>
  BY <1>a DEF HandleClose, Dispatch, objectVars
<1>2. /\ c \in registered /\ conn[c].loop = l /\ c # 0 /\ f \in Functors /\ MainLoop \in Loops
      /\ \A other \in active[l] : other[2] = c => other = <<callBack, c>>
  <2>1. c # 0
    BY DEF Conns
  <2> QED
    BY <1>a, <1>1, <2>1 DEF IInv, EventInv, Functors, Loops
<1>3. /\ c \in 1..created /\ closes[c] = 0 /\ connections[Name(c)] = c
      /\ closes \in [Conns -> Nat] /\ active \in [Loops -> SUBSET (CallBacks \X (0..MaxConns))]
  BY <1>2 DEF IInv, TypeOK, ConnInv
<1>4. /\ closes'[c] = 1 /\ closes' \in [Conns -> Nat]
      /\ \A d \in Conns : d # c => closes'[d] = closes[d]
  BY <1>1, <1>3
<1>5. /\ pending' \in [Loops -> Seq(Functors \X Conns)] /\ eventfd' \in [Loops -> BOOLEAN]
      /\ Grown(MainLoop, f, c)
  BY <1>1, <1>2, QueueInLoopStep, GrownByAction DEF IInv
<1>6. \A d : Name(d)' = Name(d)
  BY <1>1 DEF Name
<1>7. \A d \in 1..created : d \in Conns
  BY NameType DEF IInv
<1>8. TypeOK'
  <2>1. active' \in [Loops -> SUBSET (CallBacks \X (0..MaxConns))]
    BY <1>1, <1>3
  <2> QED
    BY <1>1, <1>4, <1>5, <2>1 DEF IInv, TypeOK, lifeVars, peerVars
<1>9. QueueInv'
  <2>1. Others(c)
    BY <1>1, <1>4, <1>6, <1>7 DEF Others, FunctorOK, lifeVars
  <2>2. FunctorOK(MainLoop, f, c)' /\ c \notin registered'
    <3>1. connections'[Name(c)'] = c /\ c \in 1..created'
      BY <1>1, <1>3, <1>6 DEF lifeVars
    <3> QED
      BY <1>a, <1>1, <1>4, <3>1 DEF FunctorOK
  <2>3. \A m \in Loops : \A i \in Todo(m) : pending[m][i][2] = c => i \notin Todo(m)'
    BY <1>2 DEF IInv, QueueInv
  <2> QED
    BY <1>2, <1>5, <2>1, <2>2, <2>3, QueueGrown DEF IInv
<1>10. ConnInv'
  <2>1. \A d \in Conns : closes'[d] = 0 => closes[d] = 0
    BY <1>4
  <2>2. \A d \in Conns : d > created => closes'[d] = 0
    <3>1. \A d \in Conns : d > created => d # c
      BY <1>3 DEF IInv, TypeOK, Conns
    <3> QED
      BY <1>4, <3>1 DEF IInv, ConnInv
  <2>3. \A d \in registered' : closes'[d] = 0
    BY <1>1, <1>4, <1>7 DEF IInv, ConnInv, TypeOK
  <2> QED
    BY <1>1, <1>6, <1>7, <2>1, <2>2, <2>3 DEF IInv, ConnInv, lifeVars
<1>11. EventInv'
  <2>1. ASSUME NEW m \in Loops, NEW event \in active'[m], event[2] = c PROVE FALSE
    <3>1. m = l
      BY <1>1, <1>2, <1>3, <2>1 DEF IInv, EventInv
    <3>2. event \in active[l] /\ event # <<callBack, c>>
      BY <1>1, <1>3, <2>1, <3>1
    <3> QED
      BY <1>2, <2>1, <3>2
  <2>2. \A m \in Loops : active'[m] \subseteq active[m]
    BY <1>1, <1>3
  <2> QED
    BY <1>1, <2>1, <2>2 DEF IInv, EventInv, peerVars
<1> QED
  BY <1>8, <1>9, <1>10, <1>11 DEF IInv

LEMMA MessageKeepsInv ==
  ASSUME IInv, NEW l \in Loops, NEW c \in Conns, Dispatch(l, <<"read", c>>), HandleMessage(c)
  PROVE  IInv'
<1>1. /\ <<"read", c>> \in active[l]
      /\ active' = [active EXCEPT ![l] = @ \ {<<"read", c>>}]
      /\ pc' = pc /\ walk' = walk /\ served' = served \cup {c}
      /\ UNCHANGED <<queueVars, objectVars, channelVars, lifeVars, peerVars, closes>>
  BY DEF HandleMessage, Dispatch
<1>2. \E shut \in BOOLEAN : sock' = [sock EXCEPT ![c].data = FALSE, ![c].wrShut = @ \/ shut]
  BY DEF HandleMessage
<1>3. sock' \in [Conns -> [data : BOOLEAN, fin : BOOLEAN, wrShut : BOOLEAN]]
  <2>1. sock \in [Conns -> [data : BOOLEAN, fin : BOOLEAN, wrShut : BOOLEAN]]
    BY DEF IInv, TypeOK
  <2>2. sock[c] \in [data : BOOLEAN, fin : BOOLEAN, wrShut : BOOLEAN]
    BY <2>1
  <2>3. PICK shut \in BOOLEAN : sock' = [sock EXCEPT ![c].data = FALSE, ![c].wrShut = @ \/ shut]
    BY <1>2
  <2>4. PICK s : s = [sock[c] EXCEPT !.data = FALSE, !.wrShut = @ \/ shut]
    OBVIOUS
  <2>5. s \in [data : BOOLEAN, fin : BOOLEAN, wrShut : BOOLEAN]
    BY <2>2, <2>4
  <2>6. sock' = [sock EXCEPT ![c] = s]
    BY <2>1, <2>3, <2>4
  <2> QED
    BY <2>1, <2>5, <2>6
<1>4. c \in 1..created
  <2>1. c # 0
    BY DEF Conns
  <2>2. c \in registered
    BY <1>1, <2>1 DEF IInv, EventInv
  <2> QED
    BY <2>2 DEF IInv, TypeOK
<1>5. active \in [Loops -> SUBSET (CallBacks \X (0..MaxConns))]
  BY DEF IInv, TypeOK
<1>6. TypeOK'
  <2>1. active' \in [Loops -> SUBSET (CallBacks \X (0..MaxConns))]
    BY <1>1, <1>5
  <2> QED
    BY <1>1, <1>3, <1>4, <2>1
       DEF IInv, TypeOK, queueVars, objectVars, channelVars, lifeVars, peerVars
<1>7. QueueInv' /\ ConnInv'
  <2>1. Shrunk
    BY <1>1, ShrunkByAction DEF IInv, queueVars
  <2> QED
    BY <1>1, <2>1, KeptConnections DEF lifeVars, channelVars, objectVars
<1>8. EventInv'
  <2>1. \A m \in Loops : active'[m] \subseteq active[m]
    BY <1>1, <1>5
  <2> QED
    BY <1>1, <2>1 DEF IInv, EventInv, objectVars, channelVars, peerVars
<1> QED
  BY <1>6, <1>7, <1>8 DEF IInv

LEMMA NextInv == IInv /\ [Next]_vars => IInv'
<1> SUFFICES ASSUME IInv, [Next]_vars PROVE IInv'
  OBVIOUS
<1>1. ASSUME NEW l \in Loops, LoopStep(l) \/ PollInterrupted(l) PROVE IInv'
  <2>1. CASE \/ SetPolling(l) \/ Poll(l) \/ PollInterrupted(l) \/ HandleWakeup(l)
             \/ LockPending(l) \/ ClearPending(l)
    BY <2>1, LoopKeepsInv
  <2>2. CASE HandleAccept \/ AcceptFails
    BY <2>2, AcceptKeepsInv, FailedAcceptKeepsInv
  <2>3. ASSUME NEW c \in Conns, HandleEvent(l, c) PROVE IInv'
    <3>1. "read" \in CallBacks /\ "close" \in CallBacks
      BY DEF CallBacks
    <3> QED
      BY <2>3, <3>1, CloseKeepsInv, MessageKeepsInv DEF HandleEvent
  <2>4. CASE RunFunctor(l)
    BY <2>4, FunctorKeepsInv
  <2> QED
    BY <1>1, <2>1, <2>2, <2>3, <2>4 DEF LoopStep
<1>2. ASSUME NEW k \in Clients, Connect(k) \/ SendRequest(k) \/ ClosePeer(k) PROVE IInv'
  BY <1>2, ClientKeepsInv
<1>3. ASSUME UNCHANGED vars PROVE IInv'
  <2>1. /\ UNCHANGED <<pc, walk, active, pending, eventfd, next, created, conn>>
        /\ UNCHANGED <<registered, outEnabled, alive, openFds, connections, backlog>>
        /\ UNCHANGED <<peer, requests, sock, served, closes>>
    BY <1>3 DEF vars, queueVars, objectVars, channelVars, lifeVars, peerVars
  <2>2. TypeOK'
    BY <2>1 DEF IInv, TypeOK
  <2>3. QueueInv'
    <3>1. \A l \in Loops : Todo(l)' = Todo(l)
      BY <2>1 DEF Todo, First
    <3>2. \A l, f, c : FunctorOK(l, f, c) => FunctorOK(l, f, c)'
      BY <2>1 DEF FunctorOK, Name
    <3> QED
      BY <2>1, <3>1, <3>2 DEF IInv, QueueInv
  <2>4. ConnInv' /\ EventInv'
    BY <2>1, ZenonT(40) DEF IInv, ConnInv, EventInv, Name
  <2> QED
    BY <2>2, <2>3, <2>4 DEF IInv
<1> QED
  BY <1>1, <1>2, <1>3 DEF Next

THEOREM Inductive == Spec => []IInv
  BY InitInv, NextInv, PTL DEF Spec

-----------------------------------------------------------------------------
(* Every variable keeps its type: created connections only are alive,      *)
(* registered, referred to, or served.                                     *)
THEOREM TypeCorrect == Spec => []TypeOK
<1>1. IInv => TypeOK
  BY DEF IInv
<1> QED
  BY <1>1, Inductive, PTL

(* A channel that epoll or a batch of events points to belongs to a        *)
(* connection that is alive, and is handled by the connection's own loop.  *)
THEOREM NoDanglingChannelHolds == Spec => []NoDanglingChannel
<1>1. IInv => NoDanglingChannel
  <2> SUFFICES ASSUME IInv PROVE NoDanglingChannel
    OBVIOUS
  <2>1. ASSUME NEW c \in registered PROVE c \in alive
    <3>1. c \in 1..created /\ closes[c] = 0
      BY DEF IInv, TypeOK, ConnInv
    <3>2. c \in Conns /\ Name(c) \in Names
      BY <3>1, NameType DEF IInv
    <3>3. connections[Name(c)] = c /\ c # 0
      BY <3>1, <3>2 DEF IInv, ConnInv, Conns
    <3> QED
      BY <3>2, <3>3 DEF IInv, ConnInv
  <2> QED
    BY <2>1 DEF NoDanglingChannel, IInv, EventInv
<1> QED
  BY <1>1, Inductive, PTL

(* A connection that was not closed is found under its name, although the  *)
(* name is made of a descriptor that gets reused.                          *)
THEOREM NameIsUniqueHolds == Spec => []NameIsUnique
<1>1. IInv => NameIsUnique
  BY DEF IInv, TypeOK, ConnInv, NameIsUnique
<1> QED
  BY <1>1, Inductive, PTL

(* A functor finds its connection in the state it expects: registered      *)
(* before it is closed, in connections_ until it is removed.               *)
THEOREM FunctorsInOrderHolds == Spec => []FunctorsInOrder
<1>1. IInv => FunctorsInOrder
  <2> SUFFICES ASSUME IInv, NEW l \in Loops, NEW i \in walk[l]..Len(pending[l])
               PROVE  LET c == pending[l][i][2] IN
                      CASE pending[l][i][1] = "connectEstablish" ->
                             c \notin registered /\ closes[c] = 0
                        [] pending[l][i][1] = "removeConnectionInLoop" ->
                             connections[Name(c)] = c /\ closes[c] = 1
                        [] pending[l][i][1] = "connectDestroy" -> connections[Name(c)] # c
    BY DEF FunctorsInOrder
  <2>1. i \in Todo(l)
    <3>1. walk[l] \in Nat \ {0} /\ pending[l] \in Seq(Functors \X Conns)
      BY DEF IInv, TypeOK
    <3>2. Len(pending[l]) \in Nat
      BY <3>1, LenProperties
    <3> QED
      BY <3>1, <3>2 DEF Todo, First
  <2>2. /\ FunctorOK(l, pending[l][i][1], pending[l][i][2])
        /\ pending[l][i][2] \notin registered
        /\ pending[l][i][1] \in Functors
    BY <2>1, TodoType DEF IInv, QueueInv
  <2>3. CASE pending[l][i][1] = "connectEstablish"
    BY <2>2, <2>3 DEF FunctorOK
  <2>4. CASE pending[l][i][1] = "removeConnectionInLoop"
    BY <2>2, <2>4 DEF FunctorOK
  <2>5. CASE pending[l][i][1] = "connectDestroy"
    BY <2>2, <2>5 DEF FunctorOK
  <2> QED
    BY <2>2, <2>3, <2>4, <2>5 DEF Functors
<1> QED
  BY <1>1, Inductive, PTL

-----------------------------------------------------------------------------
(* A step that leaves phases and descriptors alone is a stuttering one.    *)
LEMMA SamePhases ==
  ASSUME IInv, UNCHANGED <<created, conn, alive, registered, closes>>
  PROVE  UNCHANGED Lifecycle!lifeVars
<1>1. \A c \in Conns : Phase(c)' = Phase(c)
  BY DEF Phase
<1>2. [c \in Conns |-> Phase(c)]' = [c \in Conns |-> Phase(c)]
  BY <1>1
<1>3. [c \in Conns |-> IF c \in alive THEN {conn[c].fd} ELSE {}]'
        = [c \in Conns |-> IF c \in alive THEN {conn[c].fd} ELSE {}]
  OBVIOUS
<1> QED
  BY <1>2, <1>3 DEF Lifecycle!lifeVars

(* One connection moves on, and owns what it owned.                        *)
LEMMA MovedPhase ==
  ASSUME IInv, NEW c \in Conns, NEW from, NEW to,
         UNCHANGED <<created, conn, alive>>, Phase(c) = from, Phase(c)' = to,
         \A d \in Conns : d # c => Phase(d)' = Phase(d)
  PROVE  Lifecycle!Move(c, from, to) /\ UNCHANGED [d \in Conns |->
           IF d \in alive THEN {conn[d].fd} ELSE {}]
<1>1. [d \in Conns |-> Phase(d)]' = [[d \in Conns |-> Phase(d)] EXCEPT ![c] = to]
  OBVIOUS
<1> QED
  BY <1>1 DEF Lifecycle!Move

LEMMA LifecycleInit == Init => Lifecycle!Init
<1> SUFFICES ASSUME Init PROVE Lifecycle!Init
  OBVIOUS
<1>1. created = 0 /\ alive = {} /\ registered = {}
  BY DEF Init
<1>2. \A c \in Conns : c > created /\ ~(c <= created)
  BY <1>1 DEF Conns
<1>3. \A c \in Conns : Phase(c) = "none"
  BY <1>1, <1>2 DEF Phase
<1> QED
  BY <1>1, <1>3 DEF Lifecycle!Init

(* A connection is created on a descriptor that no living one owns.        *)
LEMMA AcceptCreates == ASSUME IInv, HandleAccept PROVE Lifecycle!Next
<1>1. PICK c, fd :
        /\ c = created + 1 /\ fd = LowestFd
        /\ created' = c /\ alive' = alive \cup {c} /\ UNCHANGED <<registered, closes>>
        /\ conn'[c].fd = fd /\ \A d \in Conns : d # c => conn'[d] = conn[d]
        /\ c \in Conns /\ fd \in Fds /\ fd \notin openFds
  <2>1. PICK c, fd, k, io :
          /\ c = created + 1 /\ fd = LowestFd /\ Fds \ openFds # {}
          /\ created' = c /\ alive' = alive \cup {c} /\ UNCHANGED <<registered, closes>>
          /\ conn' = [conn EXCEPT ![c] = [fd |-> fd, client |-> k, loop |-> io]]
          /\ backlog # << >>
    BY DEF HandleAccept, AcceptPeer, Dispatch, IInv, EventInv, TypeOK, Loops
  <2>2. created \in Nat /\ created + Len(backlog) <= MaxConns /\ backlog \in Seq(Clients)
    BY DEF IInv, TypeOK, EventInv
  <2>3. Len(backlog) \in Nat \ {0}
    BY <2>1, <2>2, LenProperties, EmptySeq
  <2>4. c \in Conns
    BY <2>1, <2>2, <2>3 DEF Conns
  <2>5. DOMAIN conn = Conns
    BY DEF IInv, TypeOK
  <2>6. fd \in Fds /\ fd \notin openFds
    BY <2>1, LowestFdType DEF IInv
  <2> QED
    BY <2>1, <2>4, <2>5, <2>6
<1>2. /\ c \notin alive /\ c \notin registered /\ c > created /\ created \in Nat
      /\ closes[c] = 0 /\ alive \subseteq 1..created /\ registered \subseteq 1..created
  BY <1>1 DEF IInv, TypeOK, ConnInv
<1>3. Phase(c) = "none" /\ Phase(c)' = "created"
  <2>1. Phase(c) = "none"
    <3>1. c > created /\ ~(c <= created)
      BY <1>1, <1>2
    <3> QED
      BY <1>2, <3>1 DEF Phase
  <2>2. ~(c > created') /\ c \in alive' /\ c \notin registered' /\ ~(closes'[c] > 0)
    BY <1>1, <1>2
  <2> QED
    BY <2>1, <2>2 DEF Phase
<1>4. ASSUME NEW d \in Conns, d # c PROVE Phase(d)' = Phase(d)
  <2>1. (d > created') <=> (d > created)
    BY <1>1, <1>2, <1>4 DEF Conns
  <2>2. /\ (d <= created') <=> (d <= created)
        /\ (d \in alive') <=> (d \in alive)
    BY <1>1, <1>2, <1>4 DEF Conns
  <2> QED
    BY <1>1, <2>1, <2>2 DEF Phase
<1>5. Lifecycle!Move(c, "none", "created")
  <2>1. [d \in Conns |-> Phase(d)]' = [[d \in Conns |-> Phase(d)] EXCEPT ![c] = "created"]
    BY <1>1, <1>3, <1>4
  <2> QED
    BY <1>1, <1>3, <2>1 DEF Lifecycle!Move
<1>6. [d \in Conns |-> IF d \in alive THEN {conn[d].fd} ELSE {}]'
        = [[d \in Conns |-> IF d \in alive THEN {conn[d].fd} ELSE {}] EXCEPT ![c] = {fd}]
  BY <1>1
<1>7. \A d \in Conns : fd \notin (IF d \in alive THEN {conn[d].fd} ELSE {})
  BY <1>1 DEF IInv, ConnInv
<1>8. Lifecycle!Create(c)
  BY <1>1, <1>5, <1>6, <1>7 DEF Lifecycle!Create
<1> QED
  BY <1>1, <1>8 DEF Lifecycle!Next

LEMMA FunctorEstablishes ==
  ASSUME IInv, NEW l \in Loops, RunFunctor(l)
  PROVE  [Lifecycle!Next]_Lifecycle!lifeVars
<1>1. PICK f, c : f = pending[l][walk[l]][1] /\ c = pending[l][walk[l]][2]
  OBVIOUS
<1>2. /\ f \in Functors /\ c \in 1..created /\ c \in Conns
      /\ FunctorOK(l, f, c) /\ c \notin registered
  <2>1. pc[l] = "run" /\ walk[l] <= Len(pending[l])
    BY DEF RunFunctor
  <2> QED
    BY <1>1, <2>1, ReachedFunctor
<1>3. UNCHANGED <<created, conn, alive, closes>>
  BY <1>1 DEF RunFunctor, ConnectEstablish, lifeVars, objectVars
<1>4. CASE f = "connectEstablish"
  <2>1. registered' = registered \cup {c} /\ closes[c] = 0
    BY <1>1, <1>2, <1>4 DEF RunFunctor, ConnectEstablish, FunctorOK
  <2>2. c \in alive
    <3>1. connections[Name(c)] = c /\ Name(c) \in Names /\ c # 0
      BY <1>2, <2>1, NameType DEF IInv, ConnInv, Conns
    <3> QED
      BY <3>1 DEF IInv, ConnInv
  <2>3. created \in Nat /\ ~(c > created) /\ c \in alive' /\ closes'[c] = 0 /\ created' = created
    BY <1>2, <1>3, <2>1, <2>2 DEF IInv, TypeOK
  <2>4. Phase(c) = "created"
    BY <1>2, <2>1, <2>2, <2>3 DEF Phase
  <2>5. Phase(c)' = "established"
    BY <2>1, <2>3 DEF Phase
  <2>6. \A d \in Conns : d # c => Phase(d)' = Phase(d)
    BY <1>3, <2>1 DEF Phase
  <2>7. Lifecycle!Establish(c)
    BY <1>2, <1>3, <2>4, <2>5, <2>6, MovedPhase DEF Lifecycle!Establish
  <2> QED
    BY <1>2, <2>7 DEF Lifecycle!Next
<1>5. CASE f # "connectEstablish"
  <2>1. registered' = registered
    BY <1>1, <1>5 DEF RunFunctor
  <2> QED
    BY <1>3, <2>1, SamePhases
<1> QED
  BY <1>4, <1>5

LEMMA CloseCloses ==
  ASSUME IInv, NEW l \in Loops, NEW c \in Conns, NEW callBack \in CallBacks,
         Dispatch(l, <<callBack, c>>), HandleClose(c)
  PROVE  Lifecycle!Next
<1>1. c \in registered
  <2>1. <<callBack, c>> \in active[l] /\ c # 0
    BY DEF Dispatch, Conns
  <2> QED
    BY <2>1 DEF IInv, EventInv
<1>2. /\ c \in 1..created /\ closes[c] = 0 /\ closes \in [Conns -> Nat] /\ created \in Nat
  BY <1>1 DEF IInv, ConnInv, TypeOK
<1>3. c \in alive
  <2>1. connections[Name(c)] = c /\ Name(c) \in Names /\ c # 0
    BY <1>2, NameType DEF IInv, ConnInv, Conns
  <2> QED
    BY <2>1 DEF IInv, ConnInv
<1>4. /\ registered' = registered \ {c} /\ closes' = [closes EXCEPT ![c] = @ + 1]
      /\ UNCHANGED <<created, conn, alive>>
  BY DEF HandleClose, objectVars, lifeVars
<1>5. closes'[c] = 1 /\ \A d \in Conns : d # c => closes'[d] = closes[d]
  BY <1>2, <1>4
<1>6. ~(c > created) /\ created' = created /\ c \in alive'
  BY <1>2, <1>3, <1>4
<1>7. Phase(c) = "established"
  BY <1>1, <1>2, <1>3, <1>6 DEF Phase
<1>8. Phase(c)' = "closed"
  BY <1>5, <1>6 DEF Phase
<1>9. \A d \in Conns : d # c => Phase(d)' = Phase(d)
  BY <1>4, <1>5 DEF Phase
<1>10. Lifecycle!Close(c)
  BY <1>4, <1>7, <1>8, <1>9, MovedPhase DEF Lifecycle!Close
<1> QED
  BY <1>10 DEF Lifecycle!Next

(* What a walk releases is no longer found in connections_, so it was      *)
(* closed before.                                                          *)
LEMMA ClearReleases ==
  ASSUME IInv, NEW l \in Loops, ClearPending(l)
  PROVE  [Lifecycle!Next]_Lifecycle!lifeVars
<1>1. /\ alive' = alive \cap Referenced(connections, pending')
      /\ UNCHANGED <<created, conn, registered, closes>>
  BY DEF ClearPending, Release, objectVars, channelVars
<1>2. PICK C : C = alive \ alive'
  OBVIOUS
<1>3. /\ alive \subseteq 1..created /\ created \in Nat /\ closes \in [Conns -> Nat]
      /\ C \subseteq 1..created /\ 1..created \subseteq Conns
  <2>1. /\ alive \subseteq 1..created /\ created \in 0..MaxConns
        /\ closes \in [Conns -> Nat]
    BY DEF IInv, TypeOK
  <2>2. 1..created \subseteq Conns
    BY <2>1 DEF Conns
  <2>3. created \in Nat
    BY <2>1
  <2>4. C \subseteq alive
    BY <1>2
  <2> QED
    BY <2>1, <2>2, <2>3, <2>4
<1>4. ASSUME NEW c \in C PROVE closes[c] > 0 /\ c \in alive /\ c \in 1..created /\ c \in Conns
  <2>1. c \in alive /\ c \in 1..created /\ c \in Conns /\ closes[c] \in Nat
    BY <1>2, <1>3
  <2>2. closes[c] # 0
    <3> SUFFICES ASSUME closes[c] = 0 PROVE FALSE
      OBVIOUS
    <3>1. connections[Name(c)] = c /\ Name(c) \in Names
      BY <2>1, NameType DEF IInv, ConnInv
    <3>2. c \in Referenced(connections, pending')
      BY <3>1 DEF Referenced
    <3> QED
      BY <1>1, <1>2, <2>1, <3>2
  <2> QED
    BY <2>1, <2>2
<1>5. \A c \in C : Phase(c) = "closed" /\ Phase(c)' = "gone"
  <2> SUFFICES ASSUME NEW c \in C PROVE Phase(c) = "closed" /\ Phase(c)' = "gone"
    OBVIOUS
  <2>1. ~(c > created) /\ c <= created /\ c \notin alive' /\ created' = created
    BY <1>1, <1>2, <1>3, <1>4
  <2>2. Phase(c) = "closed"
    BY <1>4, <2>1 DEF Phase
  <2>3. Phase(c)' = "gone"
    <3>1. ~(c > created') /\ c <= created' /\ c \notin alive' /\ ~(closes'[c] = 0)
      BY <1>1, <1>3, <1>4, <2>1
    <3> QED
      BY <3>1 DEF Phase
  <2> QED
    BY <2>2, <2>3
<1>6. \A c \in Conns : c \notin C => (c \in alive' <=> c \in alive) /\ Phase(c)' = Phase(c)
  BY <1>1, <1>2 DEF Phase
<1>7. CASE C = {}
  <2>1. alive' = alive
    BY <1>1, <1>2, <1>7
  <2> QED
    BY <1>1, <2>1, SamePhases
<1>8. CASE C # {}
  <2>1. C \in (SUBSET Conns) \ {{}}
    BY <1>3, <1>8
  <2>2. [c \in Conns |-> Phase(c)]'
          = [c \in Conns |-> IF c \in C THEN "gone" ELSE [d \in Conns |-> Phase(d)][c]]
    BY <1>5, <1>6
  <2>3. [c \in Conns |-> IF c \in alive THEN {conn[c].fd} ELSE {}]'
          = [c \in Conns |-> IF c \in C THEN {} ELSE
               [d \in Conns |-> IF d \in alive THEN {conn[d].fd} ELSE {}][c]]
    BY <1>1, <1>2, <1>6
  <2>4. \A c \in C : [d \in Conns |-> Phase(d)][c] = "closed"
    BY <1>3, <1>5
  <2>5. Lifecycle!Release(C)
    BY <2>2, <2>3, <2>4 DEF Lifecycle!Release
  <2> QED
    BY <2>1, <2>5 DEF Lifecycle!Next
<1> QED
  BY <1>7, <1>8

LEMMA LifecycleStep == IInv /\ [Next]_vars => [Lifecycle!Next]_Lifecycle!lifeVars
<1> SUFFICES ASSUME IInv, [Next]_vars PROVE [Lifecycle!Next]_Lifecycle!lifeVars
  OBVIOUS
<1>1. ASSUME NEW l \in Loops, LoopStep(l) \/ PollInterrupted(l)
      PROVE  [Lifecycle!Next]_Lifecycle!lifeVars
  <2>1. CASE \/ SetPolling(l) \/ Poll(l) \/ PollInterrupted(l) \/ HandleWakeup(l)
             \/ LockPending(l) \/ AcceptFails
    <3>1. UNCHANGED <<created, conn, alive, registered, closes>>
      BY <2>1 DEF SetPolling, Poll, PollInterrupted, HandleWakeup, LockPending, AcceptFails,
                  objectVars, lifeVars, channelVars
    <3> QED
      BY <3>1, SamePhases
  <2>2. CASE HandleAccept
    BY <2>2, AcceptCreates
  <2>3. ASSUME NEW c \in Conns, HandleEvent(l, c)
        PROVE  [Lifecycle!Next]_Lifecycle!lifeVars
    <3>1. "read" \in CallBacks /\ "close" \in CallBacks
      BY DEF CallBacks
    <3>2. CASE Dispatch(l, <<"read", c>>) /\ HandleMessage(c)
      <4>1. UNCHANGED <<created, conn, alive, registered, closes>>
        BY <3>2 DEF HandleMessage, objectVars, lifeVars, channelVars
      <4> QED
        BY <4>1, SamePhases
    <3> QED
      BY <2>3, <3>1, <3>2, CloseCloses DEF HandleEvent
  <2>4. CASE RunFunctor(l)
    BY <2>4, FunctorEstablishes
  <2>5. CASE ClearPending(l)
    BY <2>5, ClearReleases
  <2> QED
    BY <1>1, <2>1, <2>2, <2>3, <2>4, <2>5 DEF LoopStep
<1>2. ASSUME NEW k \in Clients, Connect(k) \/ SendRequest(k) \/ ClosePeer(k)
      PROVE  [Lifecycle!Next]_Lifecycle!lifeVars
  <2>1. UNCHANGED <<created, conn, alive, registered, closes>>
    BY <1>2 DEF Connect, SendRequest, ClosePeer, objectVars, lifeVars, channelVars
  <2> QED
    BY <2>1, SamePhases
<1>3. ASSUME UNCHANGED vars PROVE [Lifecycle!Next]_Lifecycle!lifeVars
  <2>1. UNCHANGED <<created, conn, alive, registered, closes>>
    BY <1>3 DEF vars, objectVars, lifeVars, channelVars
  <2> QED
    BY <2>1, SamePhases
<1> QED
  BY <1>1, <1>2, <1>3 DEF Next

(* The server implements the life of a connection: created on a free       *)
(* descriptor, established once, closed once, released after that.         *)
THEOREM ImplementsLifecycleHolds == Spec => ImplementsLifecycle
  BY Inductive, LifecycleInit, LifecycleStep, PTL DEF Spec, ImplementsLifecycle, Lifecycle!Spec

(* From its start on, whatever the threads of the pool do meanwhile, the   *)
(* server is the one of Spec, so all of the above holds of it.             *)
THEOREM StartImplementsServer == StartSpec => Spec
<1>1. StartInit => Init
  BY DEF StartInit
<1>2. [StartNext]_allVars => [Next]_vars
  BY DEF StartNext, StartStep, AcceptorStart, RunningStep, allVars, Next
<1> QED
  BY <1>1, <1>2, PTL DEF StartSpec, Spec

-----------------------------------------------------------------------------
(* The start of the pool.  A thread that took its mutex has built its      *)
(* loop; startLoop returns the loop of its own thread, once that is set;   *)
(* and before the pool is complete nothing is accepted.                    *)
StartLabels == {"create", "lock", "test", "sleep", "wait", "return", "none", "construct",
                "set", "unlock", "loop"}

ThreadInv ==
  /\ threadPc \in [Start!Threads \cup {Start!Main} -> StartLabels]
  /\ loop \in [Start!Threads -> Nat]
  /\ \A t \in Start!Threads :
       /\ threadPc[t] \in {"lock", "set", "unlock", "loop"} => t \in built
       /\ loop[t] # Start!Null => loop[t] = t /\ t \in built

PoolInv ==
  /\ eventLoops \in Seq(Nat) /\ Len(eventLoops) <= Len(Pool)
  /\ \A i \in 1..Len(eventLoops) : eventLoops[i] = i /\ i \in built
  /\ threadPc[Start!Main] # "create" => Start!Current \in Start!Threads
  /\ threadPc[Start!Main] = "return" => loop[Start!Current] # Start!Null

ListenInv ==
  /\ listening => Len(eventLoops) = Len(Pool) /\ threadPc[Start!Main] = "create"
  /\ ~listening => created = 0

StartInv == ThreadInv /\ PoolInv /\ ListenInv

LEMMA StartInitInv == StartInit => StartInv
<1> SUFFICES ASSUME StartInit PROVE StartInv
  OBVIOUS
<1>1. Start!Init /\ listening = FALSE /\ created = 0
  BY DEF StartInit, Init
<1>2. ThreadInv
  BY <1>1 DEF Start!Init, ThreadInv, Start!Threads, Start!Main, Start!Null, StartLabels
<1>3. PoolInv
  <2>1. eventLoops \in Seq(Nat) /\ Len(eventLoops) = 0
    BY <1>1, EmptySeq DEF Start!Init
  <2> QED
    BY <1>1, <2>1 DEF Start!Init, PoolInv, Start!Threads, Start!Main
<1> QED
  BY <1>1, <1>2, <1>3 DEF StartInv, ListenInv

(* The steps of the main thread in EventLoopThreadPool::start.             *)
LEMMA MainStepInv ==
  ASSUME StartInv, Start!MainStep, UNCHANGED <<listening, created>>
  PROVE  StartInv'
<1> DEFINE C == Start!Current
<1>1. /\ C = Len(eventLoops) + 1 /\ Len(eventLoops) \in Nat /\ eventLoops \in Seq(Nat)
      /\ threadPc \in [Start!Threads \cup {0} -> StartLabels] /\ 0 \notin Start!Threads
  <2>1. eventLoops \in Seq(Nat)
    BY DEF StartInv, PoolInv
  <2> QED
    BY <2>1, LenProperties DEF StartInv, ThreadInv, Start!Current, Start!Main, Start!Threads
<1>2. CASE Start!ThreadStart
  <2>1. /\ threadPc[0] = "create" /\ C \in Start!Threads
        /\ threadPc' = [threadPc EXCEPT ![0] = "lock", ![C] = "construct"]
        /\ UNCHANGED <<loop, built, eventLoops>>
    BY <1>2 DEF Start!ThreadStart, Start!Main
  <2>2. ~listening
    <3>1. C # Len(Pool) + 1
      BY <2>1 DEF Start!Threads
    <3> QED
      BY <1>1, <3>1 DEF StartInv, ListenInv
  <2>3. ThreadInv'
    BY <1>1, <2>1 DEF StartInv, ThreadInv, Start!Main, StartLabels
  <2>4. PoolInv'
    <3>1. threadPc'[0] = "lock"
      BY <1>1, <2>1
    <3> QED
      BY <2>1, <3>1 DEF StartInv, PoolInv, Start!Main, Start!Current
  <2> QED
    BY <2>2, <2>3, <2>4 DEF StartInv, ListenInv
<1>3. CASE \/ Start!StartLock \/ Start!TestLoop \/ Start!Wait \/ Start!WaitReturns
  <2>1. PICK to \in {"test", "sleep", "return", "wait"} :
          /\ threadPc[0] # "create" /\ threadPc' = [threadPc EXCEPT ![0] = to]
          /\ UNCHANGED <<loop, built, eventLoops>>
          /\ to = "return" => loop[C] # Start!Null
    BY <1>3 DEF Start!StartLock, Start!TestLoop, Start!Wait, Start!WaitReturns, Start!Goto,
       Start!Main, Start!AfterWait
  <2>2. threadPc'[0] = to /\ \A t \in Start!Threads : threadPc'[t] = threadPc[t]
    BY <1>1, <2>1
  <2>3. ThreadInv'
    BY <1>1, <2>1, <2>2 DEF StartInv, ThreadInv, Start!Main, StartLabels
  <2>4. PoolInv'
    BY <2>1, <2>2 DEF StartInv, PoolInv, Start!Main, Start!Current
  <2> QED
    BY <2>1, <2>3, <2>4 DEF StartInv, ListenInv, Start!Main
<1>4. CASE Start!StartReturns
  <2>1. /\ threadPc[0] = "return" /\ threadPc' = [threadPc EXCEPT ![0] = "create"]
        /\ eventLoops' = Append(eventLoops, loop[C]) /\ UNCHANGED <<loop, built>>
    BY <1>4 DEF Start!StartReturns, Start!Goto, Start!Main
  <2>2. C \in Start!Threads /\ loop[C] = C /\ C \in built /\ C \in Nat /\ C <= Len(Pool)
    <3>1. C \in Start!Threads /\ loop[C] # Start!Null
      BY <2>1 DEF StartInv, PoolInv, Start!Main
    <3> QED
      BY <1>1, <3>1 DEF StartInv, ThreadInv, Start!Threads
  <2>3. /\ eventLoops' \in Seq(Nat) /\ Len(eventLoops') = C
        /\ \A i \in 1..Len(eventLoops) : eventLoops'[i] = eventLoops[i]
        /\ eventLoops'[C] = C
    BY <1>1, <2>1, <2>2, AppendProperties
  <2>4. threadPc'[0] = "create" /\ \A t \in Start!Threads : threadPc'[t] = threadPc[t]
    BY <1>1, <2>1
  <2>5. ThreadInv'
    BY <1>1, <2>1, <2>4 DEF StartInv, ThreadInv, Start!Main, StartLabels
  <2>6. PoolInv'
    <3>1. \A i \in 1..C : i = C \/ i \in 1..Len(eventLoops)
      BY <1>1
    <3> HIDE DEF C
    <3>2. \A i \in 1..C : eventLoops'[i] = i /\ i \in built'
      BY <2>1, <2>2, <2>3, <3>1 DEF StartInv, PoolInv
    <3> QED
      BY <2>2, <2>3, <2>4, <3>2 DEF PoolInv, Start!Main
  <2>7. ~listening
    BY <2>1 DEF StartInv, ListenInv, Start!Main
  <2> QED
    BY <2>5, <2>6, <2>7 DEF StartInv, ListenInv
<1> QED
  BY <1>2, <1>3, <1>4 DEF Start!MainStep

(* The steps of a new thread in threadFunc.                                *)
LEMMA ThreadStepInv ==
  ASSUME StartInv, NEW t \in Start!Threads, Start!ThreadStep(t), UNCHANGED <<listening, created>>
  PROVE  StartInv'
<1>1. PICK to \in {"lock", "set", "unlock", "loop"} :
        /\ threadPc' = [threadPc EXCEPT ![t] = to] /\ built' = built \cup {t}
        /\ eventLoops' = eventLoops
        /\ loop' \in {loop, [loop EXCEPT ![t] = t]}
  BY DEF StartInv, ThreadInv, Start!ThreadStep, Start!Construct, Start!ThreadLock, Start!SetLoop,
     Start!ThreadUnlock, Start!Goto
<1>2. /\ threadPc \in [Start!Threads \cup {0} -> StartLabels] /\ 0 \notin Start!Threads
      /\ t # 0 /\ t \in Nat /\ loop \in [Start!Threads -> Nat]
  BY DEF StartInv, ThreadInv, Start!Threads, Start!Main
<1>3. /\ threadPc'[0] = threadPc[0] /\ threadPc'[t] = to
      /\ \A u \in Start!Threads : u # t => threadPc'[u] = threadPc[u]
      /\ \A u \in Start!Threads : loop'[u] = loop[u] \/ (u = t /\ loop'[u] = t)
  BY <1>1, <1>2
<1>4. ThreadInv'
  <2>1. threadPc' \in [Start!Threads \cup {0} -> StartLabels] /\ loop' \in [Start!Threads -> Nat]
    BY <1>1, <1>2 DEF StartLabels
  <2> QED
    BY <1>1, <1>2, <1>3, <2>1 DEF StartInv, ThreadInv, Start!Main
<1>5. PoolInv'
  <2>1. Start!Current' = Start!Current
    BY <1>1 DEF Start!Current
  <2>2. threadPc[0] = "return" => loop'[Start!Current] # Start!Null
    BY <1>2, <1>3 DEF StartInv, PoolInv, Start!Main, Start!Null
  <2> QED
    BY <1>1, <1>3, <2>1, <2>2 DEF StartInv, PoolInv, Start!Main
<1> QED
  BY <1>1, <1>3, <1>4, <1>5 DEF StartInv, ListenInv, Start!Main

(* Only the main loop accepts, and only once it runs.                      *)
LEMMA CreatedOnlyByMain ==
  ASSUME NEW l \in Loops, LoopStep(l), created' # created
  PROVE  l = MainLoop
BY DEF LoopStep, SetPolling, Poll, HandleWakeup, HandleEvent, HandleMessage, HandleClose,
   LockPending, RunFunctor, ClearPending, objectVars

LEMMA StartStepInv == StartInv /\ [StartNext]_allVars => StartInv'
<1> SUFFICES ASSUME StartInv, [StartNext]_allVars PROVE StartInv'
  OBVIOUS
<1>1. CASE StartStep(Start!Next)
  <2>1. UNCHANGED <<listening, created>>
    BY <1>1 DEF StartStep, vars, objectVars
  <2>2. CASE Start!SpuriousWakeup
    <3>1. UNCHANGED <<threadPc, loop, built, eventLoops>>
      BY <2>2 DEF Start!SpuriousWakeup
    <3> QED
      BY <2>1, <3>1 DEF StartInv, ThreadInv, PoolInv, ListenInv, Start!Current
  <2> QED
    BY <1>1, <2>1, <2>2, MainStepInv, ThreadStepInv DEF StartStep, Start!Next
<1>2. CASE AcceptorStart
  BY <1>2 DEF AcceptorStart, startVars, vars, objectVars, StartInv, ThreadInv, PoolInv, ListenInv,
     Start!Current
<1>3. CASE UNCHANGED <<startVars, listening>> /\ (created' = created \/ listening)
  BY <1>3 DEF startVars, StartInv, ThreadInv, PoolInv, ListenInv, Start!Current
<1>4. ASSUME NEW l \in Loops, RunningStep(l)
      PROVE  UNCHANGED <<startVars, listening>> /\ (created' = created \/ listening)
  BY <1>4, CreatedOnlyByMain DEF RunningStep, Looping
<1>5. ASSUME NEW l \in Loops, PollInterrupted(l) PROVE created' = created
  BY <1>5 DEF PollInterrupted, objectVars
<1>6. ASSUME NEW k \in Clients, Connect(k) \/ SendRequest(k) \/ ClosePeer(k)
      PROVE  created' = created
  BY <1>6 DEF Connect, SendRequest, ClosePeer, objectVars
<1>7. CASE UNCHANGED allVars
  BY <1>3, <1>7 DEF allVars, vars, objectVars
<1> QED
  BY <1>1, <1>2, <1>3, <1>4, <1>5, <1>6, <1>7 DEF StartNext

(* Every loop the pool was given is the one of the thread started for it,  *)
(* and a connection's loop is one of those.                                *)
THEOREM OwnLoopsHolds == StartSpec => []OwnLoops
<1>1. StartSpec => []StartInv
  BY StartInitInv, StartStepInv, PTL DEF StartSpec
<1>2. IInv /\ StartInv => OwnLoops
  <2> SUFFICES ASSUME IInv, StartInv PROVE OwnLoops
    OBVIOUS
  <2>1. ASSUME NEW c \in 1..created
        PROVE  \E i \in 1..Len(eventLoops) : conn[c].loop = Pool[eventLoops[i]]
    <3>1. Len(eventLoops) = Len(Pool)
      BY DEF IInv, TypeOK, StartInv, ListenInv
    <3>2. PICK i \in 1..Len(Pool) : conn[c].loop = Pool[i]
      BY NameType DEF IInv, IoLoops
    <3> QED
      BY <3>1, <3>2 DEF StartInv, PoolInv
  <2> QED
    BY <2>1 DEF OwnLoops, StartInv, PoolInv
<1> QED
  BY <1>1, <1>2, Inductive, StartImplementsServer, PTL

=============================================================================
