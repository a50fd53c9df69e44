---------------------------- MODULE TcpConnection ----------------------------
(***************************************************************************)
(* The data path of one established TcpConnection: its io loop, the socket *)
(* in the kernel and the peer.                                             *)
(*                                                                         *)
(* A response is a sequence of units <<response, index>>, a unit being as  *)
(* many bytes as one likes.  Requests are a stream of numbered units,      *)
(* RequestSize of them each, and the peer may send any part of it at once. *)
(* handleWrite has no action: handleEventWithGuard takes an event without  *)
(* EPOLLIN for a close before it tests EPOLLOUT, so nothing calls it.      *)
(***************************************************************************)
EXTENDS Integers, Sequences, FiniteSets, SequencesExt

CONSTANTS
  Capacity,        \* units the kernel's send buffer holds
  Sizes,           \* sizes of responses
  RequestSize,     \* units of a request
  InitSize,        \* units a new Buffer holds, kBufferInitSize
  ExBuf,           \* units exbuf of Buffer::readFd holds
  MaxRequests,     \* bound: requests the peer sends
  GarbageOut       \* may EPOLLOUT be set in the uninitialised events_ ?

ASSUME TcpConnectionAssumption ==
  /\ Capacity \in Nat \ {0}
  /\ Sizes \subseteq Nat \ {0}
  /\ {RequestSize, InitSize, ExBuf} \subseteq Nat \ {0}
  /\ MaxRequests \in Nat
  /\ GarbageOut \subseteq BOOLEAN

VARIABLES
  sent,            \* units of requests the peer has sent
  peer,            \* "open", "half" (shut down for writing) or "gone"
  received,        \* units the peer has received
  inbox,           \* units in the socket's receive buffer
  sndbuf,          \* units in the socket's send buffer
  sock,            \* "open", "shut" for writing, or "closed" by the server
  reset,           \* an RST has arrived from the peer
  channel,         \* "read", "readwrite": events_; "none" after disableAll
  revents,         \* events of the channel epoll_wait returned, {} if none
  inputBuffer,     \* inputBuffer_
  outputBuffer,    \* units in outputBuffer_
  messages,        \* history: what every messageCallBack_ took for a request
  sizes,           \* history: the size of every response sent
  stray            \* history: EPOLLOUT was set in events_ from the start

peerVars == <<sent, peer, received>>
bufferVars == <<inputBuffer, outputBuffer, messages, sizes, stray>>
vars == <<peerVars, inbox, sndbuf, sock, reset, channel, revents, bufferVars>>
loopVars == <<channel, revents, bufferVars>>

Unused == 0

(* connectEstablish has run: enableReading added EPOLLIN to events_, which *)
(* no constructor sets, so that EPOLLOUT may be among the events too.      *)
Init ==
  /\ sent = 0 /\ inbox = <<>>
  /\ peer = "open" /\ sock = "open" /\ reset = FALSE
  /\ received = <<>> /\ sndbuf = <<>> /\ outputBuffer = <<>>
  /\ stray \in GarbageOut
  /\ channel = IF stray THEN "readwrite" ELSE "read"
  /\ revents = {}
  /\ inputBuffer = [bytes |-> [i \in 1..InitSize |-> Unused],
                     readerIndex |-> 0, writerIndex |-> 0]
  /\ messages = <<>> /\ sizes = <<>>

-----------------------------------------------------------------------------
(* The peer and the network.                                               *)

(* The next n units of the stream arrive in one segment.                   *)
Request(n) ==
  /\ peer = "open" /\ sock # "closed" /\ sent + n <= MaxRequests * RequestSize
  /\ sent' = sent + n
  /\ inbox' = inbox \o [i \in 1..n |-> sent + i]
  /\ UNCHANGED <<peer, received, sndbuf, sock, reset, loopVars>>

(* shutdown(SHUT_WR) or close(); whoever closed reads no more.             *)
PeerLeaves(how) ==
  /\ peer = "open" \/ (peer = "half" /\ how = "gone")
  /\ peer' = how
  /\ UNCHANGED <<sent, received, inbox, sndbuf, sock, reset, loopVars>>

PeerReads ==
  /\ peer # "gone" /\ sndbuf # <<>>
  /\ received' = Append(received, Head(sndbuf))
  /\ sndbuf' = Tail(sndbuf)
  /\ UNCHANGED <<sent, peer, inbox, sock, reset, loopVars>>

(* Data for a closed peer is answered with an RST.                         *)
Reset ==
  /\ peer = "gone" /\ sndbuf # <<>>
  /\ reset' = TRUE
  /\ sndbuf' = <<>>
  /\ UNCHANGED <<peerVars, inbox, sock, loopVars>>

-----------------------------------------------------------------------------
(* The io loop.                                                            *)

Fin == peer # "open"

(* What epoll reports.  A send buffer with space need not be reported as   *)
(* writable: the kernel waits until a third of it is free.                 *)
Events ==
  {e \in {"in", "hup"} :
     \/ e = "in" /\ (inbox # <<>> \/ Fin)
     \/ e = "hup" /\ (reset \/ (Fin /\ sock = "shut"))}

MayWrite ==
  channel = "readwrite" /\ (Len(sndbuf) < Capacity \/ sock = "shut" \/ reset)

Poll ==
  /\ revents = {} /\ channel # "none"
  /\ revents' \in {Events, IF MayWrite THEN Events \cup {"out"} ELSE Events} \ {{}}
  /\ UNCHANGED <<peerVars, inbox, sndbuf, sock, reset, channel, bufferVars>>

Units(r, size) == [i \in 1..size |-> <<r, i>>]

(* ::send: the units the send buffer has room for, or -1.                  *)
Sent(size) ==
  IF sock = "shut" \/ reset \/ Len(sndbuf) = Capacity THEN -1
  ELSE IF size < Capacity - Len(sndbuf) THEN size ELSE Capacity - Len(sndbuf)

(* Fault: the rest of earlier responses is sent after the new message.     *)
Accepted_RestAfter(msg, ret) == SubSeq(msg, 1, ret) \o outputBuffer

Accepted(msg, ret) == SubSeq(msg, 1, ret)

(* Fault: the whole message is kept whatever was sent.                     *)
Remainer_Zero(ret) == 0

(* Where the rest of the message begins.                                   *)
Remainer(ret) == IF ret > 0 THEN ret ELSE 0

(* Fault: EPOLLOUT is asked for although nothing is left.                  *)
Partly_Always(msg, ret) == TRUE

Partly(msg, ret) == ret < Len(msg)

Send(msg) ==
  LET ret == Sent(Len(msg)) IN
  /\ sndbuf' = sndbuf \o Accepted(msg, ret)
  /\ IF Partly(msg, ret)
       THEN /\ outputBuffer' = outputBuffer \o SubSeq(msg, Remainer(ret) + 1, Len(msg))
            /\ channel' = "readwrite"
       ELSE UNCHANGED <<outputBuffer, channel>>

(* Fault: EPOLLIN is looked at before EPOLLHUP.                            *)
TakenForClose_InFirst == "in" \notin revents

TakenForClose == "hup" \in revents \/ "in" \notin revents

HandleEvent(close) ==
  /\ revents # {} /\ TakenForClose = close
  /\ revents' = {}

(* Fault: what is in exbuf is appended where the free space began.         *)
ReadFd_AppendsEarly(buf, units) ==
  LET writable == Len(buf.bytes) - buf.writerIndex
      rest == Len(units) - (IF Len(units) <= writable THEN 0 ELSE writable)
  IN  [buf EXCEPT
         !.bytes = SubSeq(@, 1, buf.writerIndex) \o SubSeq(units, Len(units) - rest + 1, Len(units))
                     \o SubSeq(@, buf.writerIndex + rest + 1, Len(@)),
         !.writerIndex = @ + rest]

(* readFd and append: what does not fit behind writerIndex makes the       *)
(* buffer grow; what is there stays beyond what was written.               *)
ReadFd(buf, units) ==
  [buf EXCEPT
     !.bytes = SubSeq(@, 1, buf.writerIndex) \o units
                 \o SubSeq(@, buf.writerIndex + Len(units) + 1, Len(@)),
     !.writerIndex = @ + Len(units)]

Writable == Len(inputBuffer.bytes) - inputBuffer.writerIndex

(* readv fills the buffer and exbuf; the rest stays in the socket.         *)
Readable ==
  IF Len(inbox) < Writable + ExBuf THEN Len(inbox) ELSE Writable + ExBuf

(* handleRead with n > 0: messageCallBack_ retrieves all that was read for *)
(* one request, which sets the indexes back, sends one response and,       *)
(* unless the connection is kept alive, shuts it down.                     *)
HandleRead ==
  LET buf == ReadFd(inputBuffer, SubSeq(inbox, 1, Readable)) IN
  /\ HandleEvent(FALSE) /\ inbox # <<>>
  /\ inbox' = SubSeq(inbox, Readable + 1, Len(inbox))
  /\ messages' = Append(messages, SubSeq(buf.bytes, buf.readerIndex + 1, buf.writerIndex))
  /\ inputBuffer' = [buf EXCEPT !.readerIndex = 0, !.writerIndex = 0]
  /\ \E size \in Sizes, keepAlive \in BOOLEAN :
       /\ Send(Units(Len(sizes) + 1, size))
       /\ sizes' = Append(sizes, size)
       /\ sock' = IF keepAlive THEN sock ELSE "shut"
  /\ UNCHANGED <<peerVars, reset, stray>>

(* readv returns -1 after an RST, and readFd adds that to writerIndex.     *)
ReadError ==
  /\ HandleEvent(FALSE) /\ inbox = <<>> /\ reset
  /\ inputBuffer' = [inputBuffer EXCEPT !.writerIndex = @ - 1]
  /\ UNCHANGED <<peerVars, inbox, sndbuf, sock, reset, channel, outputBuffer, messages, sizes,
                 stray>>

(* handleClose, on an event or from handleRead when readv returns 0.       *)
HandleClose ==
  /\ \/ HandleEvent(TRUE)
     \/ HandleEvent(FALSE) /\ inbox = <<>> /\ ~reset
  /\ channel' = "none"
  /\ UNCHANGED <<peerVars, inbox, sndbuf, sock, reset, bufferVars>>

(* closeCallBack_ has led to the release of the connection: its socket is  *)
(* closed, and unread requests make the kernel send an RST, which may      *)
(* overtake what the send buffer holds.                                    *)
Release ==
  /\ channel = "none" /\ sock # "closed"
  /\ sock' = "closed"
  /\ outputBuffer' = <<>>
  /\ sndbuf' \in IF inbox # <<>> THEN {sndbuf, <<>>} ELSE {sndbuf}
  /\ UNCHANGED <<peerVars, inbox, reset, channel, revents, inputBuffer, messages, sizes, stray>>

-----------------------------------------------------------------------------
Next ==
  \/ \E n \in 1..RequestSize : Request(n)
  \/ PeerReads \/ Reset
  \/ \E how \in {"half", "gone"} : PeerLeaves(how)
  \/ Poll \/ HandleRead \/ ReadError \/ HandleClose \/ Release

Spec == Init /\ [][Next]_vars

-----------------------------------------------------------------------------
ResponseUnits == Nat \X Nat

(* The type invariant.                                                     *)
TypeOK ==
  /\ sent \in 0..(MaxRequests * RequestSize)
  /\ inbox \in Seq(Nat)
  /\ peer \in {"open", "half", "gone"}
  /\ sock \in {"open", "shut", "closed"}
  /\ reset \in BOOLEAN
  /\ channel \in {"read", "readwrite", "none"}
  /\ revents \subseteq {"in", "out", "hup"}
  /\ {received, sndbuf, outputBuffer} \subseteq Seq(ResponseUnits)
  /\ inputBuffer \in [bytes : Seq(Nat), readerIndex : {0}, writerIndex : {-1, 0}]
  /\ messages \in Seq(Seq(Nat))
  /\ sizes \in Seq(Sizes) /\ Len(sizes) = Len(messages)
  /\ stray \in BOOLEAN
  /\ Len(sndbuf) <= Capacity

OnWire == received \o sndbuf

(* The peer gets the responses in the order they were sent, and of each    *)
(* the units from the first on without a gap or a repetition.              *)
ReceivedInOrder ==
  \A k \in 2..Len(OnWire) :
    \/ OnWire[k][1] = OnWire[k - 1][1] /\ OnWire[k][2] = OnWire[k - 1][2] + 1
    \/ OnWire[k][1] > OnWire[k - 1][1] /\ OnWire[k][2] = 1

(* Until the connection is released every unit of every response is at one *)
(* place: with the peer, in the kernel, or in outputBuffer_, in the order  *)
(* it was sent; nothing is dropped although send may take a part or fail.  *)
NothingLostWhileOpen ==
  sock # "closed" /\ ~reset =>
    LET all == OnWire \o outputBuffer IN
    /\ \A i \in 1..Len(all) : all[i][1] \in 1..Len(sizes) /\ all[i][2] \in 1..sizes[all[i][1]]
    /\ \A r \in 1..Len(sizes) : \A k \in 1..sizes[r] : \E i \in 1..Len(all) : all[i] = <<r, k>>
    /\ \A i, j \in 1..Len(all) : i < j /\ all[i][1] = all[j][1] => all[i][2] < all[j][2]

(* The server closes a connection only after its peer did, with a rest in  *)
(* outputBuffer_, or because events_ began as a value with EPOLLOUT: if it *)
(* did not, a peer that keeps up with its responses keeps its connection.  *)
ClosedForAReason ==
  channel = "none" /\ sock # "closed" => Fin \/ outputBuffer # <<>> \/ stray

(* The last unit of the stream that is in one of the first i messages.     *)
Taken(i) == IF i = 0 THEN 0 ELSE Last(messages[i])

Follows(units, last) == \A k \in 1..Len(units) : units[k] = last + k

(* What the server takes for requests, and what the socket still holds, is *)
(* the stream of the peer: each message goes on where the last one ended,  *)
(* and the socket up to what was sent.  No byte is lost, repeated or       *)
(* stale, in however many segments it came and however often the buffer    *)
(* had to grow.                                                            *)
MessagesAreTheStream ==
  /\ \A i \in 1..Len(messages) : messages[i] # << >> /\ Follows(messages[i], Taken(i - 1))
  /\ Follows(inbox, Taken(Len(messages))) /\ sent = Taken(Len(messages)) + Len(inbox)

(* The -1 of a failed read stays in writerIndex, but it is added only      *)
(* once, and nothing is read or retrieved through it any more.             *)
FailedReadIsTheLast ==
  /\ inputBuffer.writerIndex \in {-1, 0}
  /\ inputBuffer.writerIndex = -1 => reset /\ inbox = <<>>

(* server_test reads until recv returns 0: a peer that sent one request    *)
(* and left nothing unread in the socket has then the whole response.      *)
WholeResponseArrives ==
  sent = RequestSize /\ Len(messages) = 1 /\ peer = "open" /\ sndbuf = <<>> /\ sock # "open" /\ sizes # <<>>
    => Len(received) = sizes[1]

=============================================================================
