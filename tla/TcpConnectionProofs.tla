-------------------------- MODULE TcpConnectionProofs --------------------------
(***************************************************************************)
(* Proofs about TcpConnection, for buffers, segments and responses of any  *)
(* size: a failed read is the last one, the server does not close without  *)
(* a reason, and what the peer receives is in order.                       *)
(***************************************************************************)
EXTENDS TcpConnection, SequenceTheorems, TLAPS

(* An RST comes from a peer that is gone, and epoll reports it with        *)
(* EPOLLHUP, which handleEventWithGuard takes for a close.                 *)
ReadInv ==
  /\ reset => peer = "gone"
  /\ inputBuffer.writerIndex = -1 =>
       reset /\ inbox = <<>> /\ (revents # {} => "hup" \in revents)

(* Every event has its cause, which lasts until it is handled.             *)
CloseInv ==
  /\ "hup" \in revents => Fin
  /\ "in" \in revents => inbox # <<>> \/ Fin
  /\ "out" \in revents => channel = "readwrite"
  /\ channel = "readwrite" => outputBuffer # <<>> \/ stray
  /\ channel = "none" => revents = {}
  /\ ClosedForAReason

(* The units on the way to the peer are in order, and of responses already *)
(* made.                                                                   *)
Ordered(w) ==
  \A k \in 2..Len(w) :
    \/ w[k][1] = w[k - 1][1] /\ w[k][2] = w[k - 1][2] + 1
    \/ w[k][1] > w[k - 1][1] /\ w[k][2] = 1

UpTo(w, r) == \A k \in 1..Len(w) : w[k][1] <= r

OrderInv == Ordered(OnWire) /\ UpTo(OnWire, Len(sizes))

(* Every unit of the responses ss is in all, once and in order.            *)
Kept(all, ss) ==
  /\ \A i \in 1..Len(all) : all[i][1] \in 1..Len(ss) /\ all[i][2] \in 1..ss[all[i][1]]
  /\ \A r \in 1..Len(ss) : \A k \in 1..ss[r] : \E i \in 1..Len(all) : all[i] = <<r, k>>
  /\ \A i, j \in 1..Len(all) : i < j /\ all[i][1] = all[j][1] => all[i][2] < all[j][2]

(* Nothing is lost; a connection that was released sends nothing more.     *)
LossInv ==
  /\ sock = "closed" => channel = "none"
  /\ sock # "closed" /\ ~reset => Kept(OnWire \o outputBuffer, sizes)

IInv == TypeOK /\ ReadInv /\ CloseInv /\ OrderInv /\ LossInv /\ MessagesAreTheStream

(* Units that join the wire join its end.                                  *)
LEMMA JoinTheEnd ==
  ASSUME NEW u \in Seq(ResponseUnits), NEW v \in Seq(ResponseUnits), NEW w \in Seq(ResponseUnits)
  PROVE  (u \o v) \o w = u \o (v \o w)
BY SMTT(30)

USE TcpConnectionAssumption DEF TcpConnectionAssumption

-----------------------------------------------------------------------------
LEMMA UnitsType ==
  ASSUME NEW r \in Nat, NEW size \in Nat
  PROVE  /\ Units(r, size) \in Seq(ResponseUnits)
         /\ Len(Units(r, size)) = size
         /\ \A i \in 1..size : Units(r, size)[i] = <<r, i>>
BY DEF Units, ResponseUnits

(* A part of a sequence is a sequence.                                     *)
LEMMA PartType ==
  ASSUME NEW S, NEW s \in Seq(S), NEW m \in Nat \ {0}, NEW n \in Int, n <= Len(s)
  PROVE  /\ SubSeq(s, m, n) \in Seq(S)
         /\ Len(SubSeq(s, m, n)) = IF m <= n THEN n - m + 1 ELSE 0
         /\ \A i \in 1..(n - m + 1) : SubSeq(s, m, n)[i] = s[m + i - 1]
<1>1. \A i \in m..n : s[i] \in S
  BY ElementOfSeq, LenProperties
<1> QED
  BY <1>1, SubSeqProperties

(* What ::send takes of a response fits into the kernel's send buffer.     *)
LEMMA SentType ==
  ASSUME TypeOK, NEW size \in Sizes
  PROVE  /\ Sent(size) \in -1..size
         /\ Sent(size) # -1 => Sent(size) <= Capacity - Len(sndbuf)
<1>1. Len(sndbuf) \in Nat /\ Len(sndbuf) <= Capacity
  BY LenProperties DEF TypeOK
<1>2. size \in Nat \ {0}
  OBVIOUS
<1> QED
  BY <1>1, <1>2 DEF Sent

(* send appends a prefix of the response to what the socket holds, and     *)
(* asks for EPOLLOUT only with a rest in outputBuffer_.                    *)
LEMMA SendStep ==
  ASSUME TypeOK, NEW size \in Sizes, NEW r \in Nat, Send(Units(r, size))
  PROVE  /\ \E n \in 0..size :
              /\ sndbuf' = sndbuf \o SubSeq(Units(r, size), 1, n)
              /\ outputBuffer' = outputBuffer \o SubSeq(Units(r, size), n + 1, size)
              /\ Len(sndbuf) + n <= Capacity
         /\ outputBuffer' \in Seq(ResponseUnits)
         /\ \/ channel' = channel /\ outputBuffer' = outputBuffer
            \/ channel' = "readwrite" /\ outputBuffer' # <<>>
<1> DEFINE msg == Units(r, size)
           ret == Sent(size)
           n == Remainer(ret)
<1>1. size \in Nat \ {0} /\ msg \in Seq(ResponseUnits) /\ Len(msg) = size
  BY UnitsType
<1> HIDE DEF msg
<1>2. ret \in -1..size /\ (ret # -1 => ret <= Capacity - Len(sndbuf))
  BY SentType
<1>3. Len(sndbuf) \in Nat /\ Len(sndbuf) <= Capacity
  BY LenProperties DEF TypeOK
<1>4. n \in 0..size /\ Len(sndbuf) + n <= Capacity
  BY <1>1, <1>2, <1>3 DEF Remainer
<1>5. SubSeq(msg, 1, ret) = SubSeq(msg, 1, n)
  <2>1. CASE ret > 0
    BY <2>1 DEF Remainer
  <2>2. CASE ~(ret > 0)
    <3>1. SubSeq(msg, 1, ret) = << >> /\ SubSeq(msg, 1, 0) = << >>
      BY <1>1, <1>2, <2>2, SubSeqEmpty
    <3> QED
      BY <2>2, <3>1 DEF Remainer
  <2> QED
    BY <2>1, <2>2
<1>6. sndbuf' = sndbuf \o SubSeq(msg, 1, n)
  BY <1>1, <1>5 DEF Send, Accepted, msg
<1>7. CASE ret < size
  <2> DEFINE rest == SubSeq(msg, n + 1, size)
  <2>1. n < size
    BY <1>1, <1>2, <1>7 DEF Remainer
  <2>2. rest \in Seq(ResponseUnits) /\ Len(rest) = size - n
    BY <1>1, <1>4, <2>1, PartType
  <2>3. outputBuffer' = outputBuffer \o rest /\ channel' = "readwrite"
    BY <1>1, <1>7 DEF Send, Partly, msg
  <2> HIDE DEF rest
  <2>4. outputBuffer \in Seq(ResponseUnits)
    BY DEF TypeOK
  <2>5. outputBuffer' \in Seq(ResponseUnits)
    BY <2>2, <2>3, <2>4, ConcatProperties
  <2>6. Len(outputBuffer') = Len(outputBuffer) + (size - n) /\ Len(outputBuffer) \in Nat
    BY <2>2, <2>3, <2>4, ConcatProperties, LenProperties
  <2>7. Len(outputBuffer') # 0
    BY <1>1, <1>4, <2>1, <2>6
  <2>8. outputBuffer' # << >>
    BY <2>7, EmptySeq
  <2> QED
    BY <1>1, <1>4, <1>6, <2>3, <2>5, <2>8 DEF msg, rest
<1>8. CASE ~(ret < size)
  <2>1. channel' = channel /\ outputBuffer' = outputBuffer /\ outputBuffer \in Seq(ResponseUnits)
    BY <1>1, <1>8 DEF Send, Partly, msg, TypeOK
  <2>2. n = size
    BY <1>1, <1>2, <1>8 DEF Remainer
  <2>3. SubSeq(msg, n + 1, size) = << >>
    BY <1>1, <2>2, SubSeqEmpty
  <2>4. outputBuffer' = outputBuffer \o SubSeq(msg, n + 1, size)
    BY <2>1, <2>3, ConcatEmptySeq
  <2> QED
    BY <1>4, <1>6, <2>1, <2>4 DEF msg
<1> QED
  BY <1>7, <1>8

(* handleRead with n > 0: what it reads, takes for a request and sends.    *)
LEMMA ReadStep ==
  ASSUME TypeOK, ReadInv, HandleRead
  PROVE  /\ inbox' \in Seq(Nat)
         /\ messages' \in Seq(Seq(Nat)) /\ Len(messages') = Len(messages) + 1
         /\ inputBuffer' \in [bytes : Seq(Nat), readerIndex : {0}, writerIndex : {0}]
         /\ sock' \in {sock, "shut"}
         /\ \E size \in Sizes :
              Send(Units(Len(sizes) + 1, size)) /\ sizes' = Append(sizes, size)
         /\ \E n \in 1..Len(inbox) : /\ messages' = Append(messages, SubSeq(inbox, 1, n))
                                     /\ inbox' = SubSeq(inbox, n + 1, Len(inbox))
<1> DEFINE n == Readable
           units == SubSeq(inbox, 1, n)
           buf == ReadFd(inputBuffer, units)
<1>1. /\ inbox \in Seq(Nat) /\ Len(inbox) \in Nat
      /\ inputBuffer \in [bytes : Seq(Nat), readerIndex : {0}, writerIndex : {0}]
      /\ Len(inputBuffer.bytes) \in Nat
  <2>1. inputBuffer.writerIndex # -1
    BY DEF HandleRead, ReadInv
  <2>2. inputBuffer \in [bytes : Seq(Nat), readerIndex : {0}, writerIndex : {0}]
    BY <2>1 DEF TypeOK
  <2> QED
    BY <2>2, LenProperties DEF TypeOK
<1>2. n \in 0..Len(inbox) /\ n \in 1..Len(inbox)
  <2>1. Len(inbox) # 0
    BY <1>1, EmptySeq DEF HandleRead
  <2> QED
    BY <1>1, <2>1 DEF Readable, Writable
<1>3. units \in Seq(Nat) /\ Len(units) = n
  BY <1>1, <1>2, PartType
<1>4. SubSeq(inbox, n + 1, Len(inbox)) \in Seq(Nat)
  BY <1>1, <1>2, PartType
<1>5. inbox' \in Seq(Nat) /\ inbox' = SubSeq(inbox, n + 1, Len(inbox))
  BY <1>4 DEF HandleRead
<1> HIDE DEF units, n
<1> DEFINE stale == SubSeq(inputBuffer.bytes, n + 1, Len(inputBuffer.bytes))
           kept == SubSeq(inputBuffer.bytes, 1, 0)
<1>6. stale \in Seq(Nat) /\ kept \in Seq(Nat) /\ Len(kept) = 0
  <2>1. /\ inputBuffer.bytes \in Seq(Nat) /\ Len(inputBuffer.bytes) \in Nat
        /\ n + 1 \in Nat \ {0} /\ 0 <= Len(inputBuffer.bytes)
    BY <1>1, <1>2, LenProperties
  <2>2. stale \in Seq(Nat)
    BY <2>1, PartType
  <2>3. kept \in Seq(Nat) /\ Len(kept) = 0
    BY <2>1, PartType
  <2> QED
    BY <2>2, <2>3
<1> HIDE DEF stale, kept
<1> DEFINE bytes == kept \o units \o stale
<1>7. kept \o units \in Seq(Nat) /\ Len(kept \o units) = n
  BY <1>2, <1>3, <1>6, ConcatProperties
<1>8. bytes \in Seq(Nat) /\ n <= Len(bytes)
  <2>1. Len(bytes) = n + Len(stale) /\ Len(stale) \in Nat /\ bytes \in Seq(Nat)
    BY <1>6, <1>7, ConcatProperties, LenProperties
  <2> QED
    BY <1>2, <2>1
<1> HIDE DEF bytes
<1>9. /\ buf \in [bytes : Seq(Nat), readerIndex : {0}, writerIndex : Nat]
      /\ buf.bytes = bytes /\ buf.readerIndex = 0 /\ buf.writerIndex = n
  <2>1. inputBuffer.writerIndex = 0 /\ 0 + Len(units) = n
    BY <1>1, <1>2, <1>3
  <2>2. buf = [inputBuffer EXCEPT !.bytes = bytes, !.writerIndex = n]
    BY <1>2, <1>3, <2>1 DEF ReadFd, bytes, kept, stale
  <2> HIDE DEF buf
  <2>3. inputBuffer \in [bytes : Seq(Nat), readerIndex : {0}, writerIndex : {0}] /\ n \in Nat
    BY <1>1, <1>2
  <2>4. buf \in [bytes : Seq(Nat), readerIndex : {0}, writerIndex : Nat]
    BY <1>8, <2>2, <2>3
  <2>5. buf.bytes = bytes
    BY <2>2, <2>3
  <2>6. buf.writerIndex = n
    BY <2>2, <2>3
  <2> QED
    BY <2>4, <2>5, <2>6
<1>10. SubSeq(bytes, 1, n) = units
  <2>1. /\ SubSeq(bytes, 1, n) \in Seq(Nat) /\ Len(SubSeq(bytes, 1, n)) = n
        /\ \A i \in 1..n : SubSeq(bytes, 1, n)[i] = bytes[i]
    <3>1. n \in Int /\ n - 1 + 1 = n /\ \A i \in 1..n : 1 + i - 1 = i
      BY <1>2
    <3> QED
      BY <1>2, <1>8, <3>1, PartType
  <2>2. \A i \in 1..n : bytes[i] = units[i]
    <3> TAKE i \in 1..n
    <3>1. bytes[i] = (kept \o units)[i]
      <4>1. i \in 1..Len(kept \o units) /\ i \in 1..(Len(kept \o units) + Len(stale))
        BY <1>2, <1>6, <1>7, LenProperties
      <4> QED
        BY <1>6, <1>7, <4>1, ConcatProperties DEF bytes
    <3>2. (kept \o units)[i] = units[i]
      <4>1. i \in 1..(Len(kept) + Len(units)) /\ ~(i <= Len(kept)) /\ i - Len(kept) = i
        BY <1>2, <1>3, <1>6
      <4> QED
        BY <1>3, <1>6, <4>1, ConcatProperties
    <3> QED
      BY <3>1, <3>2
  <2> QED
    BY <1>3, <2>1, <2>2, SeqEqual
<1>11. SubSeq(buf.bytes, buf.readerIndex + 1, buf.writerIndex) = units
  <2>1. SubSeq(bytes, 0 + 1, n) = units
    BY <1>10
  <2> HIDE DEF buf
  <2> QED
    BY <1>9, <2>1
<1>12. messages' = Append(messages, SubSeq(buf.bytes, buf.readerIndex + 1, buf.writerIndex))
  BY DEF HandleRead, units, n
<1>13. inputBuffer' = [buf EXCEPT !.readerIndex = 0, !.writerIndex = 0]
  BY DEF HandleRead, units, n
<1>14. messages' = Append(messages, units)
  BY <1>11, <1>12
<1>15. messages' \in Seq(Seq(Nat)) /\ Len(messages') = Len(messages) + 1
  <2>1. messages \in Seq(Seq(Nat))
    BY DEF TypeOK
  <2> QED
    BY <1>3, <1>14, <2>1, AppendProperties
<1>16. inputBuffer' \in [bytes : Seq(Nat), readerIndex : {0}, writerIndex : {0}]
  <2> HIDE DEF buf
  <2> QED
    BY <1>9, <1>13
<1>17. /\ sock' \in {sock, "shut"}
       /\ \E size \in Sizes :
            Send(Units(Len(sizes) + 1, size)) /\ sizes' = Append(sizes, size)
  BY DEF HandleRead
<1> QED
  BY <1>2, <1>5, <1>15, <1>16, <1>17, <1>14 DEF units

LEMMA InitInv == Init => IInv
<1> SUFFICES ASSUME Init PROVE IInv
  OBVIOUS
<1>1. TypeOK
  <2>1. [i \in 1..InitSize |-> Unused] \in Seq(Nat)
    BY DEF Unused
  <2>2. /\ << >> \in Seq(Nat) /\ << >> \in Seq(ResponseUnits) /\ << >> \in Seq(Seq(Nat))
        /\ << >> \in Seq(Sizes) /\ Len(<< >>) = 0
    BY EmptySeq
  <2>3. inputBuffer \in [bytes : Seq(Nat), readerIndex : {0}, writerIndex : {-1, 0}]
    BY <2>1 DEF Init
  <2>4. sent \in 0..(MaxRequests * RequestSize) /\ Len(sndbuf) <= Capacity
    BY <2>2 DEF Init
  <2>5. inbox \in Seq(Nat) /\ messages \in Seq(Seq(Nat)) /\ sizes \in Seq(Sizes)
    BY <2>2 DEF Init
  <2>6. {received, sndbuf, outputBuffer} \subseteq Seq(ResponseUnits)
    BY <2>2 DEF Init
  <2> QED
    BY <2>3, <2>4, <2>5, <2>6 DEF Init, TypeOK
<1>2. ReadInv
  BY DEF Init, ReadInv
<1>3. CloseInv
  BY DEF Init, CloseInv, ClosedForAReason
<1>4. OnWire = << >>
  BY DEF Init, OnWire
<1>5. OrderInv
  BY <1>4, EmptySeq DEF OrderInv, Ordered, UpTo
<1>6. LossInv
  <2>1. OnWire \o outputBuffer = << >> /\ sizes = << >> /\ Len(<< >>) = 0
    BY <1>4, EmptySeq DEF Init
  <2> QED
    BY <2>1 DEF Init, LossInv, Kept
<1>7. MessagesAreTheStream
  BY EmptySeq DEF Init, MessagesAreTheStream, Follows, Taken
<1> QED
  BY <1>1, <1>2, <1>3, <1>5, <1>6, <1>7 DEF IInv

-----------------------------------------------------------------------------
LEMMA TypeStep ==
  ASSUME TypeOK, ReadInv, Next
  PROVE  TypeOK'
<1>1. ASSUME NEW n \in 1..RequestSize, Request(n) PROVE TypeOK'
  <2> DEFINE segment == [i \in 1..n |-> sent + i]
  <2>1. segment \in Seq(Nat) /\ inbox \in Seq(Nat) /\ sent \in Nat
    BY DEF TypeOK
  <2>2. inbox' = inbox \o segment
    BY <1>1 DEF Request
  <2> HIDE DEF segment
  <2>3. inbox' \in Seq(Nat)
    BY <2>1, <2>2, ConcatProperties
  <2>4. sent' \in 0..(MaxRequests * RequestSize)
    BY <1>1, <2>1 DEF Request
  <2> QED
    BY <1>1, <2>3, <2>4 DEF Request, TypeOK, loopVars, bufferVars
<1>2. CASE PeerReads
  <2>1. sndbuf \in Seq(ResponseUnits) /\ received \in Seq(ResponseUnits) /\ sndbuf # << >>
    BY <1>2 DEF PeerReads, TypeOK
  <2>2. /\ Tail(sndbuf) \in Seq(ResponseUnits) /\ Head(sndbuf) \in ResponseUnits
        /\ Len(Tail(sndbuf)) = Len(sndbuf) - 1 /\ Len(sndbuf) \in Nat
    BY <2>1, HeadTailProperties, LenProperties
  <2>3. received' \in Seq(ResponseUnits)
    BY <1>2, <2>1, <2>2, AppendProperties DEF PeerReads
  <2>4. sndbuf' = Tail(sndbuf) /\ Len(sndbuf') <= Capacity
    BY <1>2, <2>2 DEF PeerReads, TypeOK
  <2> QED
    BY <1>2, <2>2, <2>3, <2>4 DEF PeerReads, TypeOK, loopVars, bufferVars
<1>3. CASE Reset
  <2>1. sndbuf' = << >> /\ << >> \in Seq(ResponseUnits) /\ Len(sndbuf') = 0
    BY <1>3, EmptySeq DEF Reset
  <2> QED
    BY <1>3, <2>1 DEF Reset, TypeOK, peerVars, loopVars, bufferVars
<1>4. ASSUME NEW how \in {"half", "gone"}, PeerLeaves(how) PROVE TypeOK'
  BY <1>4 DEF PeerLeaves, TypeOK, loopVars, bufferVars
<1>5. CASE Poll
  BY <1>5 DEF Poll, Events, TypeOK, peerVars, bufferVars
<1>6. CASE HandleRead
  <2> DEFINE r == Len(sizes) + 1
  <2>1. PICK size \in Sizes : Send(Units(r, size)) /\ sizes' = Append(sizes, size)
    BY <1>6, ReadStep
  <2>2. sizes \in Seq(Sizes) /\ Len(sizes) \in Nat /\ size \in Nat /\ r \in Nat
    BY LenProperties DEF TypeOK
  <2> HIDE DEF r
  <2>3. PICK n \in 0..size : /\ sndbuf' = sndbuf \o SubSeq(Units(r, size), 1, n)
                             /\ Len(sndbuf) + n <= Capacity
    BY <2>1, <2>2, SendStep
  <2>4. outputBuffer' \in Seq(ResponseUnits) /\ channel' \in {channel, "readwrite"}
    BY <2>1, <2>2, SendStep
  <2> DEFINE part == SubSeq(Units(r, size), 1, n)
  <2>5. part \in Seq(ResponseUnits) /\ Len(part) = n
    <3>1. Units(r, size) \in Seq(ResponseUnits) /\ Len(Units(r, size)) = size
      BY <2>2, UnitsType
    <3>2. n \in Int /\ n <= size /\ (IF 1 <= n THEN n - 1 + 1 ELSE 0) = n
      BY <2>2
    <3> QED
      BY <3>1, <3>2, PartType
  <2> HIDE DEF part
  <2>6. sndbuf' \in Seq(ResponseUnits) /\ Len(sndbuf') <= Capacity
    <3>1. sndbuf \in Seq(ResponseUnits) /\ sndbuf' = sndbuf \o part
      BY <2>3 DEF TypeOK, part
    <3>2. sndbuf' \in Seq(ResponseUnits) /\ Len(sndbuf') = Len(sndbuf) + n
      BY <2>5, <3>1, ConcatProperties
    <3> QED
      BY <2>3, <3>2
  <2>7. sizes' \in Seq(Sizes) /\ Len(sizes') = Len(sizes) + 1
    BY <2>1, <2>2, AppendProperties
  <2>8. revents' = {} /\ UNCHANGED <<peerVars, reset, stray>>
    BY <1>6 DEF HandleRead, HandleEvent
  <2> QED
    BY <1>6, <2>4, <2>6, <2>7, <2>8, ReadStep DEF TypeOK, peerVars
<1>7. CASE ReadError
  <2>1. inputBuffer.writerIndex # -1
    BY <1>7 DEF ReadError, ReadInv, HandleEvent, TakenForClose
  <2>2. inputBuffer.writerIndex - 1 = -1
    BY <2>1 DEF TypeOK
  <2>3. inputBuffer' \in [bytes : Seq(Nat), readerIndex : {0}, writerIndex : {-1, 0}]
    BY <1>7, <2>2 DEF ReadError, TypeOK
  <2> QED
    BY <1>7, <2>3 DEF ReadError, HandleEvent, TypeOK, peerVars
<1>8. CASE HandleClose
  BY <1>8 DEF HandleClose, HandleEvent, TypeOK, peerVars, bufferVars
<1>9. CASE Release
  <2>1. outputBuffer' = << >> /\ sndbuf' \in {sndbuf, << >>}
    BY <1>9 DEF Release
  <2>2. << >> \in Seq(ResponseUnits) /\ Len(<< >>) = 0
    BY EmptySeq
  <2>3. outputBuffer' \in Seq(ResponseUnits) /\ sndbuf' \in Seq(ResponseUnits)
    BY <2>1, <2>2 DEF TypeOK
  <2>4. Len(sndbuf') <= Capacity
    BY <2>1, <2>2 DEF TypeOK
  <2> QED
    BY <1>9, <2>3, <2>4 DEF Release, TypeOK, peerVars
<1> QED
  BY <1>1, <1>2, <1>3, <1>4, <1>5, <1>6, <1>7, <1>8, <1>9 DEF Next

-----------------------------------------------------------------------------
(* Only one read fails: handleEvent reports the RST as a close from then   *)
(* on, and a peer that is gone sends nothing more.                         *)
LEMMA ReadInvStep ==
  ASSUME TypeOK, ReadInv, Next
  PROVE  ReadInv'
<1> USE DEF ReadInv
<1>1. ASSUME NEW n \in 1..RequestSize, Request(n) PROVE ReadInv'
  <2>1. peer = "open" /\ UNCHANGED <<peer, reset, inputBuffer, revents>>
    BY <1>1 DEF Request, loopVars, bufferVars
  <2> QED
    BY <2>1
<1>2. CASE PeerReads
  BY <1>2 DEF PeerReads, loopVars, bufferVars
<1>3. CASE Reset
  BY <1>3 DEF Reset, peerVars, loopVars, bufferVars, TypeOK
<1>4. ASSUME NEW how \in {"half", "gone"}, PeerLeaves(how) PROVE ReadInv'
  BY <1>4 DEF PeerLeaves, loopVars, bufferVars, TypeOK
<1>5. CASE Poll
  <2>1. UNCHANGED <<peer, reset, inputBuffer, inbox>>
    BY <1>5 DEF Poll, peerVars, bufferVars
  <2>2. reset => "hup" \in revents'
    BY <1>5 DEF Poll, Events
  <2> QED
    BY <2>1, <2>2
<1>6. CASE HandleRead
  <2>1. inputBuffer'.writerIndex = 0 /\ UNCHANGED <<peer, reset>>
    BY <1>6, ReadStep DEF HandleRead, peerVars
  <2> QED
    BY <2>1
<1>7. CASE ReadError
  BY <1>7 DEF ReadError, HandleEvent, peerVars
<1>8. CASE HandleClose
  BY <1>8 DEF HandleClose, HandleEvent, peerVars, bufferVars
<1>9. CASE Release
  BY <1>9 DEF Release, peerVars
<1> QED
  BY <1>1, <1>2, <1>3, <1>4, <1>5, <1>6, <1>7, <1>8, <1>9 DEF Next

-----------------------------------------------------------------------------
LEMMA CloseInvStep ==
  ASSUME TypeOK, ReadInv, CloseInv, Next
  PROVE  CloseInv'
<1> USE DEF CloseInv, ClosedForAReason, Fin
<1>1. ASSUME NEW n \in 1..RequestSize, Request(n) PROVE CloseInv'
  <2> DEFINE segment == [i \in 1..n |-> sent + i]
  <2>1. UNCHANGED <<peer, sock, channel, revents, outputBuffer, stray>>
    BY <1>1 DEF Request, loopVars, bufferVars
  <2>2. inbox \in Seq(Nat) /\ segment \in Seq(Nat) /\ Len(segment) = n
    BY DEF TypeOK
  <2>3. inbox' = inbox \o segment
    BY <1>1 DEF Request
  <2> HIDE DEF segment
  <2>4. inbox' # << >>
    BY <2>2, <2>3, ConcatEqualIffEmpty, EmptySeq
  <2> QED
    BY <2>1, <2>4
<1>2. CASE PeerReads
  BY <1>2 DEF PeerReads, loopVars, bufferVars
<1>3. CASE Reset
  BY <1>3 DEF Reset, peerVars, loopVars, bufferVars
<1>4. ASSUME NEW how \in {"half", "gone"}, PeerLeaves(how) PROVE CloseInv'
  BY <1>4 DEF PeerLeaves, loopVars, bufferVars
<1>5. CASE Poll
  <2>1. UNCHANGED <<peer, inbox, sock, channel, outputBuffer, stray>> /\ channel # "none"
    BY <1>5 DEF Poll, peerVars, bufferVars
  <2>2. /\ "in" \in revents' => inbox # <<>> \/ Fin
        /\ "hup" \in revents' => reset \/ Fin
        /\ "out" \in revents' => channel = "readwrite"
    BY <1>5 DEF Poll, Events, MayWrite
  <2> QED
    BY <2>1, <2>2 DEF ReadInv
<1>6. CASE HandleRead
  <2>1. PICK size \in Sizes : Send(Units(Len(sizes) + 1, size))
    BY <1>6, ReadStep
  <2>2. Len(sizes) + 1 \in Nat
    BY LenProperties DEF TypeOK
  <2>3. \/ channel' = channel /\ outputBuffer' = outputBuffer
        \/ channel' = "readwrite" /\ outputBuffer' # <<>>
    BY <2>1, <2>2, SendStep
  <2>4. revents' = {} /\ channel # "none" /\ stray' = stray
    BY <1>6 DEF HandleRead, HandleEvent
  <2> QED
    BY <2>3, <2>4
<1>7. CASE ReadError
  BY <1>7 DEF ReadError, HandleEvent, peerVars
<1>8. CASE HandleClose
  <2>1. /\ channel' = "none" /\ revents' = {} /\ revents # {} /\ revents \subseteq {"in", "out", "hup"}
        /\ UNCHANGED <<peer, sock, outputBuffer, stray>>
    BY <1>8 DEF HandleClose, HandleEvent, peerVars, bufferVars, TypeOK
  <2>2. CASE TakenForClose
    BY <2>1, <2>2 DEF TakenForClose
  <2>3. CASE ~TakenForClose
    BY <1>8, <2>1, <2>3 DEF HandleClose, HandleEvent, TakenForClose
  <2> QED
    BY <2>2, <2>3
<1>9. CASE Release
  BY <1>9 DEF Release, peerVars
<1> QED
  BY <1>1, <1>2, <1>3, <1>4, <1>5, <1>6, <1>7, <1>8, <1>9 DEF Next

-----------------------------------------------------------------------------
(* A prefix of what is in order is in order, ...                           *)
LEMMA OrderedPrefix ==
  ASSUME NEW w \in Seq(ResponseUnits), NEW part \in Seq(ResponseUnits), NEW r \in Nat,
         Ordered(w \o part), UpTo(w \o part, r)
  PROVE  Ordered(w) /\ UpTo(w, r)
<1> DEFINE all == w \o part
<1>1. Len(w) \in Nat /\ Len(part) \in Nat
  BY LenProperties
<1>2. Len(all) = Len(w) + Len(part) /\ \A k \in 1..Len(w) : all[k] = w[k]
  BY <1>1, ConcatProperties
<1> HIDE DEF all
<1>3. Ordered(all) /\ UpTo(all, r)
  BY DEF all
<1> QED
  BY <1>1, <1>2, <1>3 DEF Ordered, UpTo

(* ... and it stays in order with the first units of a new response.       *)
LEMMA OrderedNext ==
  ASSUME NEW w \in Seq(ResponseUnits), NEW part \in Seq(ResponseUnits), NEW r \in Nat,
         Ordered(w), UpTo(w, r), \A i \in 1..Len(part) : part[i] = <<r + 1, i>>
  PROVE  Ordered(w \o part) /\ UpTo(w \o part, r + 1)
<1> DEFINE all == w \o part
           L == Len(w)
<1>1. L \in Nat /\ Len(part) \in Nat
  BY LenProperties
<1>2. /\ Len(all) = L + Len(part)
      /\ \A k \in 1..(L + Len(part)) : all[k] = IF k <= L THEN w[k] ELSE part[k - L]
  BY ConcatProperties
<1> HIDE DEF all, L
<1>3. ASSUME NEW k \in 1..Len(all), k <= L
      PROVE  all[k] = w[k] /\ w[k] \in ResponseUnits /\ w[k][1] \in Nat /\ w[k][1] <= r
  <2>1. k \in 1..Len(w) /\ all[k] = w[k]
    BY <1>1, <1>2, <1>3 DEF L
  <2>2. w[k] \in ResponseUnits
    BY <2>1, ElementOfSeq
  <2> QED
    BY <2>1, <2>2 DEF UpTo, ResponseUnits
<1>4. ASSUME NEW k \in 1..Len(all), ~(k <= L)
      PROVE  all[k] = <<r + 1, k - L>>
  <2>1. k - L \in 1..Len(part) /\ all[k] = part[k - L]
    BY <1>1, <1>2, <1>4
  <2> QED
    BY <2>1
<1>5. UpTo(all, r + 1)
  <2> SUFFICES ASSUME NEW k \in 1..Len(all) PROVE all[k][1] <= r + 1
    BY DEF UpTo
  <2>1. CASE k <= L
    <3>1. all[k][1] \in Nat /\ all[k][1] <= r
      BY <1>3, <2>1
    <3> QED
      BY <3>1
  <2>2. CASE ~(k <= L)
    <3>1. all[k][1] = r + 1
      BY <1>4, <2>2
    <3> QED
      BY <3>1
  <2> QED
    BY <2>1, <2>2
<1>6. Ordered(all)
  <2> SUFFICES ASSUME NEW k \in 2..Len(all)
               PROVE  \/ all[k][1] = all[k - 1][1] /\ all[k][2] = all[k - 1][2] + 1
                      \/ all[k][1] > all[k - 1][1] /\ all[k][2] = 1
    BY DEF Ordered
  <2>1. k \in 1..Len(all) /\ k - 1 \in 1..Len(all) /\ k \in Nat
    BY <1>1, <1>2
  <2>2. CASE k <= L
    <3>2. k \in 1..L /\ k - 1 \in 1..L /\ k \in 2..L
      BY <1>1, <2>1, <2>2
    <3>1. all[k] = w[k] /\ all[k - 1] = w[k - 1] /\ k \in 2..Len(w)
      BY <1>3, <3>2 DEF L
    <3> QED
      BY <3>1 DEF Ordered
  <2>3. CASE k = L + 1
    <3>1. all[k] = <<r + 1, 1>> /\ all[k - 1][1] \in Nat /\ all[k - 1][1] <= r
      <4>1. ~(k <= L) /\ k - 1 <= L /\ k - L = 1
        BY <1>1, <2>3
      <4> QED
        BY <1>3, <1>4, <2>1, <4>1
    <3> QED
      BY <3>1
  <2>4. CASE k > L + 1
    <3>1. ~(k <= L) /\ ~(k - 1 <= L) /\ k - L = (k - 1 - L) + 1
      BY <1>1, <2>1, <2>4
    <3>2. all[k] = <<r + 1, k - L>> /\ all[k - 1] = <<r + 1, k - 1 - L>>
      BY <1>4, <2>1, <3>1
    <3> QED
      BY <3>1, <3>2
  <2> QED
    BY <1>1, <2>1, <2>2, <2>3, <2>4
<1> QED
  BY <1>5, <1>6 DEF all

(* What the peer reads, it takes from the front of the socket's buffer.    *)
LEMMA WireSame ==
  ASSUME TypeOK, PeerReads
  PROVE  OnWire' = OnWire
<1>1. received \in Seq(ResponseUnits) /\ sndbuf \in Seq(ResponseUnits) /\ sndbuf # << >>
  BY DEF PeerReads, TypeOK
<1>2. Head(sndbuf) \in ResponseUnits /\ Tail(sndbuf) \in Seq(ResponseUnits)
  BY <1>1, HeadTailProperties
<1>3. sndbuf = <<Head(sndbuf)>> \o Tail(sndbuf)
  BY <1>1
<1>4. Append(received, Head(sndbuf)) = received \o <<Head(sndbuf)>>
  BY <1>1, <1>2, AppendIsConcat
<1>5. <<Head(sndbuf)>> \in Seq(ResponseUnits)
  BY <1>2
<1>6. (received \o <<Head(sndbuf)>>) \o Tail(sndbuf) = received \o (<<Head(sndbuf)>> \o Tail(sndbuf))
  BY <1>1, <1>2, <1>5, JoinTheEnd, ZenonT(40)
<1> QED
  BY <1>3, <1>4, <1>6 DEF PeerReads, OnWire

LEMMA OrderInvStep ==
  ASSUME TypeOK, ReadInv, OrderInv, Next
  PROVE  OrderInv'
<1> USE DEF OrderInv
<1>1. ASSUME UNCHANGED <<OnWire, sizes>> PROVE OrderInv'
  BY <1>1
<1>0. ASSUME UNCHANGED <<received, sizes>>, sndbuf' = << >> PROVE OrderInv'
  <2>1. received \in Seq(ResponseUnits) /\ sndbuf \in Seq(ResponseUnits) /\ Len(sizes) \in Nat
    BY LenProperties DEF TypeOK
  <2>2. OnWire' = received
    BY <1>0, <2>1, ConcatEmptySeq DEF OnWire
  <2>3. Ordered(received) /\ UpTo(received, Len(sizes))
    BY <2>1, OrderedPrefix DEF OnWire
  <2> QED
    BY <1>0, <2>2, <2>3
<1>2. ASSUME NEW n \in 1..RequestSize, Request(n) PROVE OrderInv'
  BY <1>1, <1>2 DEF Request, OnWire, loopVars, bufferVars
<1>3. CASE PeerReads
  <2>1. OnWire' = OnWire
    BY <1>3, WireSame
  <2> QED
    BY <1>1, <1>3, <2>1 DEF PeerReads, loopVars, bufferVars
<1>4. CASE Reset
  BY <1>0, <1>4 DEF Reset, peerVars, loopVars, bufferVars
<1>5. ASSUME NEW how \in {"half", "gone"}, PeerLeaves(how) PROVE OrderInv'
  BY <1>1, <1>5 DEF PeerLeaves, OnWire, loopVars, bufferVars
<1>6. CASE Poll
  BY <1>1, <1>6 DEF Poll, OnWire, peerVars, bufferVars
<1>7. CASE HandleRead
  <2> DEFINE r == Len(sizes)
  <2>1. PICK size \in Sizes : Send(Units(r + 1, size)) /\ sizes' = Append(sizes, size)
    BY <1>7, ReadStep
  <2>2. sizes \in Seq(Sizes) /\ size \in Nat /\ r \in Nat /\ r + 1 \in Nat
    BY LenProperties DEF TypeOK
  <2>3. Len(sizes') = r + 1
    BY <2>1, <2>2, AppendProperties
  <2> HIDE DEF r
  <2>4. PICK n \in 0..size : sndbuf' = sndbuf \o SubSeq(Units(r + 1, size), 1, n)
    BY <2>1, <2>2, SendStep, ZenonT(40)
  <2> DEFINE part == SubSeq(Units(r + 1, size), 1, n)
  <2>5. /\ part \in Seq(ResponseUnits) /\ Len(part) = n
        /\ \A i \in 1..n : part[i] = <<r + 1, i>>
    <3> DEFINE msg == Units(r + 1, size)
    <3>1. /\ msg \in Seq(ResponseUnits) /\ Len(msg) = size
          /\ \A i \in 1..size : msg[i] = <<r + 1, i>>
      BY <2>2, UnitsType
    <3> HIDE DEF msg
    <3>2. n \in Int /\ n <= size /\ (IF 1 <= n THEN n - 1 + 1 ELSE 0) = n /\ n - 1 + 1 = n
      BY <2>2
    <3>3. /\ SubSeq(msg, 1, n) \in Seq(ResponseUnits)
          /\ Len(SubSeq(msg, 1, n)) = n
          /\ \A i \in 1..n : SubSeq(msg, 1, n)[i] = msg[1 + i - 1]
      BY <3>1, <3>2, PartType
    <3>4. \A i \in 1..n : SubSeq(msg, 1, n)[i] = <<r + 1, i>>
      <4> TAKE i \in 1..n
      <4>1. i \in 1..size /\ 1 + i - 1 = i
        BY <2>2
      <4> QED
        BY <3>1, <3>3, <4>1
    <3> QED
      BY <3>3, <3>4 DEF msg
  <2>6. received \in Seq(ResponseUnits) /\ sndbuf \in Seq(ResponseUnits)
    BY DEF TypeOK
  <2>7. received' = received /\ sndbuf' = sndbuf \o part
    BY <1>7, <2>4 DEF HandleRead, peerVars
  <2> HIDE DEF part
  <2>8. OnWire' = OnWire \o part
    <3>1. (received \o sndbuf) \o part = received \o (sndbuf \o part)
      BY <2>5, <2>6, JoinTheEnd, ZenonT(40)
    <3>2. OnWire' = received' \o sndbuf' /\ OnWire = received \o sndbuf
      BY DEF OnWire
    <3> QED
      BY <2>7, <3>1, <3>2
  <2>9. OnWire \in Seq(ResponseUnits)
    BY <2>6, ConcatProperties DEF OnWire
  <2> QED
    BY <2>2, <2>3, <2>5, <2>8, <2>9, OrderedNext DEF r
<1>8. CASE ReadError
  BY <1>1, <1>8 DEF ReadError, OnWire, peerVars
<1>9. CASE HandleClose
  BY <1>1, <1>9 DEF HandleClose, OnWire, peerVars, bufferVars
<1>10. CASE Release
  <2>1. UNCHANGED <<received, sizes>> /\ (sndbuf' = sndbuf \/ sndbuf' = << >>)
    BY <1>10 DEF Release, peerVars
  <2> QED
    BY <1>0, <1>1, <2>1 DEF OnWire
<1> QED
  BY <1>2, <1>3, <1>4, <1>5, <1>6, <1>7, <1>8, <1>9, <1>10 DEF Next

-----------------------------------------------------------------------------
(* A new response, of which p goes on the wire w behind what is there and  *)
(* q into the buffer behind the rests o, is kept with the others.          *)
LEMMA KeptNext ==
  ASSUME NEW w \in Seq(ResponseUnits), NEW o \in Seq(ResponseUnits),
         NEW p \in Seq(ResponseUnits), NEW q \in Seq(ResponseUnits),
         NEW ss \in Seq(Sizes), NEW size \in Sizes, NEW n \in 0..size,
         Len(p) = n, Len(q) = size - n,
         \A i \in 1..n : p[i] = <<Len(ss) + 1, i>>,
         \A i \in 1..(size - n) : q[i] = <<Len(ss) + 1, n + i>>,
         Kept(w \o o, ss)
  PROVE  Kept((w \o p) \o (o \o q), Append(ss, size))
<1> DEFINE old == w \o o
           all == (w \o p) \o (o \o q)
           W == Len(w)
           O == Len(o)
           r == Len(ss)
           new == Append(ss, size)
<1>1. W \in Nat /\ O \in Nat /\ r \in Nat /\ size \in Nat \ {0} /\ n \in Nat /\ n <= size
  BY LenProperties
<1>2. /\ old \in Seq(ResponseUnits) /\ Len(old) = W + O
      /\ \A i \in 1..(W + O) : old[i] = IF i <= W THEN w[i] ELSE o[i - W]
  BY ConcatProperties
<1>3. /\ w \o p \in Seq(ResponseUnits) /\ Len(w \o p) = W + n
      /\ \A i \in 1..(W + n) : (w \o p)[i] = IF i <= W THEN w[i] ELSE p[i - W]
  <2>1. /\ w \o p \in Seq(ResponseUnits) /\ Len(w \o p) = W + Len(p)
        /\ \A i \in 1..(W + Len(p)) : (w \o p)[i] = IF i <= W THEN w[i] ELSE p[i - W]
    BY ConcatProperties, ZenonT(40)
  <2> QED
    BY <2>1, Zenon
<1>4. /\ o \o q \in Seq(ResponseUnits) /\ Len(o \o q) = O + (size - n)
      /\ \A i \in 1..(O + (size - n)) : (o \o q)[i] = IF i <= O THEN o[i] ELSE q[i - O]
  <2>1. /\ o \o q \in Seq(ResponseUnits) /\ Len(o \o q) = O + Len(q)
        /\ \A i \in 1..(O + Len(q)) : (o \o q)[i] = IF i <= O THEN o[i] ELSE q[i - O]
    BY ConcatProperties, ZenonT(40)
  <2> QED
    BY <2>1, Zenon
<1>5. /\ Len(all) = (W + n) + (O + (size - n))
      /\ \A i \in 1..((W + n) + (O + (size - n))) :
           all[i] = IF i <= W + n THEN (w \o p)[i] ELSE (o \o q)[i - (W + n)]
  <2> DEFINE x == w \o p
             y == o \o q
  <2>1. x \in Seq(ResponseUnits) /\ y \in Seq(ResponseUnits)
    BY <1>3, <1>4
  <2> HIDE DEF x, y
  <2>2. /\ Len(x \o y) = Len(x) + Len(y)
        /\ \A i \in 1..(Len(x) + Len(y)) :
             (x \o y)[i] = IF i <= Len(x) THEN x[i] ELSE y[i - Len(x)]
    BY <2>1, ConcatProperties
  <2>3. Len(x) = W + n /\ Len(y) = O + (size - n)
    BY <1>3, <1>4 DEF x, y
  <2>4. /\ Len(x \o y) = (W + n) + (O + (size - n))
        /\ \A i \in 1..((W + n) + (O + (size - n))) :
             (x \o y)[i] = IF i <= W + n THEN x[i] ELSE y[i - (W + n)]
    BY <2>2, <2>3, Zenon
  <2> QED
    BY <2>4, Zenon DEF x, y
<1>6. Len(all) = W + O + size
  BY <1>1, <1>5
<1>7. Len(new) = r + 1 /\ new[r + 1] = size /\ \A k \in 1..r : new[k] = ss[k]
  BY AppendProperties
<1> DEFINE Old(i) == i <= W \/ (W + n < i /\ i <= W + n + O)
           src(i) == IF i <= W THEN i ELSE i - n
           pos(i) == IF i <= W + n THEN i - W ELSE i - W - O
<1> HIDE DEF old, all, W, O, r, new
<1>8. ASSUME NEW i \in 1..(W + O + size), Old(i)
      PROVE  src(i) \in 1..(W + O) /\ all[i] = old[src(i)]
  <2>1. CASE i <= W
    <3>1. i \in 1..((W + n) + (O + (size - n))) /\ i <= W + n /\ i \in 1..(W + n) /\ i \in 1..(W + O)
      BY <1>1, <2>1
    <3> QED
      BY <1>2, <1>3, <1>5, <2>1, <3>1
  <2>2. CASE ~(i <= W)
    <3>1. /\ i \in 1..((W + n) + (O + (size - n))) /\ ~(i <= W + n)
          /\ i - (W + n) \in 1..(O + (size - n)) /\ i - (W + n) <= O
          /\ i - n \in 1..(W + O) /\ ~(i - n <= W) /\ i - n - W = i - (W + n)
      BY <1>1, <1>8, <2>2
    <3>2. all[i] = o[i - (W + n)]
      BY <1>4, <1>5, <3>1
    <3>3. old[i - n] = o[i - (W + n)]
      BY <1>2, <3>1
    <3> QED
      BY <2>2, <3>1, <3>2, <3>3
  <2> QED
    BY <2>1, <2>2
<1>9. ASSUME NEW i \in 1..(W + O + size), ~Old(i)
      PROVE  pos(i) \in 1..size /\ all[i] = <<r + 1, pos(i)>>
  <2>1. CASE i <= W + n
    <3>1. /\ i \in 1..((W + n) + (O + (size - n))) /\ i \in 1..(W + n) /\ ~(i <= W)
          /\ i - W \in 1..n /\ i - W \in 1..size
      BY <1>1, <1>9, <2>1
    <3>2. all[i] = p[i - W]
      BY <1>3, <1>5, <2>1, <3>1
    <3> QED
      BY <2>1, <3>1, <3>2 DEF r
  <2>2. CASE ~(i <= W + n)
    <3>1. /\ i \in 1..((W + n) + (O + (size - n)))
          /\ i - (W + n) \in 1..(O + (size - n)) /\ ~(i - (W + n) <= O)
          /\ i - (W + n) - O \in 1..(size - n)
          /\ n + (i - (W + n) - O) = i - W - O /\ i - W - O \in 1..size
      BY <1>1, <1>9, <2>2
    <3>2. all[i] = q[i - (W + n) - O]
      BY <1>4, <1>5, <2>2, <3>1
    <3> QED
      BY <2>2, <3>1, <3>2 DEF r
  <2> QED
    BY <2>1, <2>2
<1>10. ASSUME NEW i \in 1..(W + O + size), NEW j \in 1..(W + O + size), i < j
       PROVE  /\ Old(i) /\ Old(j) => src(i) < src(j)
              /\ ~Old(i) /\ ~Old(j) => pos(i) < pos(j)
  <2>1. i \in Nat /\ j \in Nat
    BY <1>1
  <2> QED
    BY <1>1, <1>10, <2>1
<1>11. Kept(old, ss)
  BY DEF old
<1>12. ASSUME NEW k \in 1..(W + O)
       PROVE  \E i \in 1..(W + O + size) : Old(i) /\ src(i) = k
  <2>1. CASE k <= W
    <3>1. k \in 1..(W + O + size) /\ Old(k) /\ src(k) = k
      BY <1>1, <2>1
    <3> QED
      BY <3>1
  <2>2. CASE ~(k <= W)
    <3>1. k + n \in 1..(W + O + size) /\ Old(k + n) /\ src(k + n) = k
      BY <1>1, <2>2
    <3> QED
      BY <3>1
  <2> QED
    BY <2>1, <2>2
<1>13. ASSUME NEW k \in 1..size
       PROVE  \E i \in 1..(W + O + size) : ~Old(i) /\ pos(i) = k
  <2>1. CASE k <= n
    <3>1. W + k \in 1..(W + O + size) /\ ~Old(W + k) /\ pos(W + k) = k
      BY <1>1, <2>1
    <3> QED
      BY <3>1
  <2>2. CASE ~(k <= n)
    <3>1. W + O + k \in 1..(W + O + size) /\ ~Old(W + O + k) /\ pos(W + O + k) = k
      BY <1>1, <2>2
    <3> QED
      BY <3>1
  <2> QED
    BY <2>1, <2>2
<1> HIDE DEF Old, src, pos
<1>14. ASSUME NEW k \in 1..(W + O)
       PROVE  old[k][1] \in 1..r /\ old[k][2] \in 1..ss[old[k][1]]
  BY <1>2, <1>11 DEF Kept, r
<1>15. ASSUME NEW i \in 1..Len(all)
       PROVE  all[i][1] \in 1..Len(new) /\ all[i][2] \in 1..new[all[i][1]]
  <2>1. CASE Old(i)
    <3>1. src(i) \in 1..(W + O) /\ all[i] = old[src(i)]
      BY <1>6, <1>8, <2>1
    <3>2. all[i][1] \in 1..r /\ all[i][2] \in 1..ss[all[i][1]]
      BY <1>14, <3>1
    <3>3. all[i][1] \in 1..(r + 1) /\ new[all[i][1]] = ss[all[i][1]]
      <4>1. \A x \in 1..r : x \in 1..(r + 1) /\ new[x] = ss[x]
        BY <1>1, <1>7
      <4> QED
        BY <3>2, <4>1
    <3> QED
      BY <1>7, <3>2, <3>3
  <2>2. CASE ~Old(i)
    <3>1. pos(i) \in 1..size /\ all[i] = <<r + 1, pos(i)>>
      BY <1>6, <1>9, <2>2
    <3>2. all[i][1] = r + 1 /\ all[i][2] = pos(i) /\ r + 1 \in 1..(r + 1)
      BY <1>1, <3>1
    <3> QED
      BY <1>7, <3>1, <3>2
  <2> QED
    BY <2>1, <2>2
<1>16. ASSUME NEW s \in 1..Len(new), NEW k \in 1..new[s]
       PROVE  \E i \in 1..Len(all) : all[i] = <<s, k>>
  <2>1. CASE s = r + 1
    <3>1. k \in 1..size
      BY <1>7, <2>1
    <3>2. PICK i \in 1..(W + O + size) : ~Old(i) /\ pos(i) = k
      BY <1>13, <3>1
    <3> QED
      BY <1>6, <1>9, <2>1, <3>2
  <2>2. CASE s # r + 1
    <3>1. s \in 1..r /\ new[s] = ss[s]
      BY <1>1, <1>7, <2>2
    <3>2. s \in 1..Len(ss) /\ k \in 1..ss[s]
      BY <3>1 DEF r
    <3>3. PICK m \in 1..(W + O) : old[m] = <<s, k>>
      <4>1. \E m \in 1..Len(old) : old[m] = <<s, k>>
        BY <1>11, <3>2, Zenon DEF Kept
      <4> QED
        BY <1>2, <4>1
    <3>4. PICK i \in 1..(W + O + size) : Old(i) /\ src(i) = m
      BY <1>12
    <3> QED
      BY <1>6, <1>8, <3>3, <3>4
  <2> QED
    BY <2>1, <2>2
<1>17. ASSUME NEW i \in 1..Len(all), NEW j \in 1..Len(all), i < j, all[i][1] = all[j][1]
       PROVE  all[i][2] < all[j][2]
  <2>1. CASE Old(i) /\ Old(j)
    <3>1. /\ src(i) \in 1..(W + O) /\ all[i] = old[src(i)]
          /\ src(j) \in 1..(W + O) /\ all[j] = old[src(j)] /\ src(i) < src(j)
      BY <1>6, <1>8, <1>10, <1>17, <2>1
    <3>2. src(i) \in 1..Len(old) /\ src(j) \in 1..Len(old) /\ old[src(i)][1] = old[src(j)][1]
      BY <1>2, <1>17, <3>1
    <3>3. old[src(i)][2] < old[src(j)][2]
      BY <1>11, <3>1, <3>2 DEF Kept
    <3> QED
      BY <3>1, <3>3
  <2>2. CASE ~Old(i) /\ ~Old(j)
    <3>1. all[i] = <<r + 1, pos(i)>> /\ all[j] = <<r + 1, pos(j)>> /\ pos(i) < pos(j)
      BY <1>6, <1>9, <1>10, <1>17, <2>2
    <3> QED
      BY <3>1
  <2>3. CASE Old(i) /\ ~Old(j)
    <3>1. src(i) \in 1..(W + O) /\ all[i] = old[src(i)] /\ all[j] = <<r + 1, pos(j)>>
      BY <1>6, <1>8, <1>9, <2>3
    <3>2. all[i][1] \in 1..r /\ all[j][1] = r + 1
      BY <1>14, <3>1, SMTT(30)
    <3> QED
      BY <1>1, <1>17, <3>2
  <2>4. CASE ~Old(i) /\ Old(j)
    <3>1. src(j) \in 1..(W + O) /\ all[j] = old[src(j)] /\ all[i] = <<r + 1, pos(i)>>
      BY <1>6, <1>8, <1>9, <2>4
    <3>2. all[j][1] \in 1..r /\ all[i][1] = r + 1
      BY <1>14, <3>1, SMTT(30)
    <3> QED
      BY <1>1, <1>17, <3>2
  <2> QED
    BY <2>1, <2>2, <2>3, <2>4
<1>18. Kept(all, new)
  BY <1>15, <1>16, <1>17 DEF Kept
<1> QED
  BY <1>18 DEF all, new

LEMMA LossInvStep ==
  ASSUME TypeOK, ReadInv, CloseInv, LossInv, Next
  PROVE  LossInv'
<1> USE DEF LossInv
<1>1. ASSUME sock' = sock, channel' = channel, UNCHANGED <<OnWire, outputBuffer, sizes, reset>>
      PROVE  LossInv'
  BY <1>1
<1>2. ASSUME NEW n \in 1..RequestSize, Request(n) PROVE LossInv'
  BY <1>1, <1>2 DEF Request, OnWire, loopVars, bufferVars
<1>3. CASE PeerReads
  <2>1. OnWire' = OnWire
    BY <1>3, WireSame
  <2> QED
    BY <1>1, <1>3, <2>1 DEF PeerReads, loopVars, bufferVars
<1>4. CASE Reset
  BY <1>4 DEF Reset, loopVars
<1>5. ASSUME NEW how \in {"half", "gone"}, PeerLeaves(how) PROVE LossInv'
  BY <1>1, <1>5 DEF PeerLeaves, OnWire, loopVars, bufferVars
<1>6. CASE Poll
  BY <1>1, <1>6 DEF Poll, OnWire, peerVars, bufferVars
<1>7. CASE HandleRead
  <2> DEFINE r == Len(sizes)
  <2>1. PICK size \in Sizes : Send(Units(r + 1, size)) /\ sizes' = Append(sizes, size)
    BY <1>7, ReadStep
  <2>2. sizes \in Seq(Sizes) /\ size \in Nat /\ r \in Nat /\ r + 1 \in Nat
    BY LenProperties DEF TypeOK
  <2> DEFINE msg == Units(r + 1, size)
  <2>3. /\ msg \in Seq(ResponseUnits) /\ Len(msg) = size
        /\ \A i \in 1..size : msg[i] = <<r + 1, i>>
    BY <2>2, UnitsType
  <2>4. PICK n \in 0..size : /\ sndbuf' = sndbuf \o SubSeq(msg, 1, n)
                             /\ outputBuffer' = outputBuffer \o SubSeq(msg, n + 1, size)
    BY <2>1, <2>2, SendStep
  <2> DEFINE part == SubSeq(msg, 1, n)
             rest == SubSeq(msg, n + 1, size)
  <2> HIDE DEF msg
  <2>5. /\ part \in Seq(ResponseUnits) /\ Len(part) = n
        /\ \A i \in 1..n : part[i] = <<r + 1, i>>
    <3>1. n \in Int /\ n <= size /\ (IF 1 <= n THEN n - 1 + 1 ELSE 0) = n /\ n - 1 + 1 = n
      BY <2>2
    <3>2. part \in Seq(ResponseUnits) /\ Len(part) = n /\ \A i \in 1..n : part[i] = msg[1 + i - 1]
      BY <2>3, <3>1, PartType
    <3>3. \A i \in 1..n : 1 + i - 1 = i /\ i \in 1..size
      BY <2>2
    <3> HIDE DEF part
    <3> QED
      BY <2>3, <3>2, <3>3
  <2>6. /\ rest \in Seq(ResponseUnits) /\ Len(rest) = size - n
        /\ \A i \in 1..(size - n) : rest[i] = <<r + 1, n + i>>
    <3>1. n + 1 \in Nat \ {0} /\ size \in Int /\ size <= size
          /\ (IF n + 1 <= size THEN size - (n + 1) + 1 ELSE 0) = size - n
          /\ size - (n + 1) + 1 = size - n
      BY <2>2
    <3>2. /\ rest \in Seq(ResponseUnits) /\ Len(rest) = size - n
          /\ \A i \in 1..(size - n) : rest[i] = msg[n + 1 + i - 1]
      BY <2>3, <3>1, PartType
    <3>3. \A i \in 1..(size - n) : n + 1 + i - 1 = n + i /\ n + i \in 1..size
      BY <2>2
    <3> HIDE DEF rest
    <3> QED
      BY <2>3, <3>2, <3>3
  <2>7. /\ received \in Seq(ResponseUnits) /\ sndbuf \in Seq(ResponseUnits)
        /\ outputBuffer \in Seq(ResponseUnits)
    BY DEF TypeOK
  <2> HIDE DEF part, rest, r
  <2>8. OnWire' = OnWire \o part
    <3>1. (received \o sndbuf) \o part = received \o (sndbuf \o part)
      <4>1. part \in Seq(ResponseUnits)
        BY <2>5
      <4>2. received \in Seq(ResponseUnits) /\ sndbuf \in Seq(ResponseUnits)
        BY <2>7
      <4> QED
        BY <4>1, <4>2, JoinTheEnd, ZenonT(40)
    <3>2. OnWire' = received' \o sndbuf' /\ OnWire = received \o sndbuf
      BY DEF OnWire
    <3>3. received' = received /\ sndbuf' = sndbuf \o part
      BY <1>7, <2>4 DEF HandleRead, peerVars, part
    <3> QED
      BY <3>1, <3>2, <3>3
  <2>9. OnWire \in Seq(ResponseUnits)
    BY <2>7, ConcatProperties DEF OnWire
  <2>10. channel # "none" /\ sock # "closed" /\ reset' = reset
    BY <1>7 DEF HandleRead, HandleEvent, CloseInv
  <2>11. sock' # "closed"
    BY <1>7, <2>10 DEF HandleRead
  <2>12. ASSUME ~reset PROVE Kept(OnWire' \o outputBuffer', sizes')
    <3>1. Kept(OnWire \o outputBuffer, sizes)
      BY <2>10, <2>12
    <3>2. Kept((OnWire \o part) \o (outputBuffer \o rest), Append(sizes, size))
      BY <2>2, <2>5, <2>6, <2>7, <2>9, <3>1, KeptNext DEF r
    <3>3. outputBuffer' = outputBuffer \o rest
      BY <2>4 DEF rest
    <3> QED
      BY <2>1, <2>8, <3>2, <3>3
  <2> QED
    BY <2>10, <2>11, <2>12
<1>8. CASE ReadError
  BY <1>1, <1>8 DEF ReadError, OnWire, peerVars
<1>9. CASE HandleClose
  BY <1>9 DEF HandleClose, OnWire, peerVars, bufferVars
<1>10. CASE Release
  BY <1>10 DEF Release
<1> QED
  BY <1>2, <1>3, <1>4, <1>5, <1>6, <1>7, <1>8, <1>9, <1>10 DEF Next

-----------------------------------------------------------------------------
(* What is read becomes a message, which goes on where the last one ended, *)
(* and the socket keeps what comes after it.                               *)
LEMMA StreamStep ==
  ASSUME TypeOK, ReadInv, MessagesAreTheStream, Next
  PROVE  MessagesAreTheStream'
<1> USE DEF MessagesAreTheStream
<1>1. ASSUME UNCHANGED <<sent, inbox, messages>> PROVE MessagesAreTheStream'
  BY <1>1 DEF Taken
<1>2. /\ messages \in Seq(Seq(Nat)) /\ Len(messages) \in Nat
      /\ inbox \in Seq(Nat) /\ Len(inbox) \in Nat /\ sent \in Nat
  BY LenProperties DEF TypeOK
<1> DEFINE L == Len(messages)
           T == Taken(L)
<1>3. T \in Nat
  <2>1. CASE L = 0
    BY <2>1 DEF Taken
  <2>2. CASE L # 0
    <3>1. L \in 1..L /\ messages[L] \in Seq(Nat) /\ messages[L] # << >>
      BY <1>2, <2>2, ElementOfSeq
    <3>2. Len(messages[L]) \in 1..Len(messages[L])
      BY <3>1, EmptySeq, LenProperties
    <3>3. messages[L][Len(messages[L])] \in Nat
      BY <3>1, <3>2, ElementOfSeq
    <3> QED
      BY <2>2, <3>3 DEF Taken, Last
  <2> QED
    BY <2>1, <2>2
<1>4. ASSUME NEW n \in 1..RequestSize, Request(n) PROVE MessagesAreTheStream'
  <2> DEFINE segment == [i \in 1..n |-> sent + i]
  <2>1. segment \in Seq(Nat) /\ Len(segment) = n /\ \A i \in 1..n : segment[i] = sent + i
    BY <1>2
  <2>2. inbox' = inbox \o segment /\ sent' = sent + n /\ messages' = messages
    BY <1>4 DEF Request, loopVars, bufferVars
  <2> HIDE DEF segment
  <2>3. /\ Len(inbox') = Len(inbox) + n
        /\ \A k \in 1..(Len(inbox) + n) :
             inbox'[k] = IF k <= Len(inbox) THEN inbox[k] ELSE segment[k - Len(inbox)]
    <3>1. /\ Len(inbox \o segment) = Len(inbox) + Len(segment)
          /\ \A k \in 1..(Len(inbox) + Len(segment)) :
               (inbox \o segment)[k] = IF k <= Len(inbox) THEN inbox[k] ELSE segment[k - Len(inbox)]
      BY <1>2, <2>1, ConcatProperties, ZenonT(40)
    <3> QED
      BY <2>1, <2>2, <3>1, Zenon
  <2>4. Taken(Len(messages))' = T /\ sent = T + Len(inbox) /\ Follows(inbox, T)
    BY <2>2 DEF Taken
  <2> HIDE DEF T
  <2>5. Follows(inbox', T)
    <3>1. ASSUME NEW k \in 1..(Len(inbox) + n) PROVE inbox'[k] = T + k
      <4>1. CASE k <= Len(inbox)
        <5>1. k \in 1..Len(inbox) /\ inbox'[k] = inbox[k]
          BY <1>2, <2>3, <4>1
        <5> QED
          BY <2>4, <5>1 DEF Follows
      <4>2. CASE ~(k <= Len(inbox))
        <5>1. k - Len(inbox) \in 1..n /\ inbox'[k] = segment[k - Len(inbox)]
          BY <1>2, <2>3, <4>2
        <5>2. inbox'[k] = sent + (k - Len(inbox))
          BY <2>1, <5>1
        <5> QED
          BY <1>2, <1>3, <2>4, <5>2
      <4> QED
        BY <4>1, <4>2
    <3> QED
      BY <2>3, <3>1 DEF Follows
  <2>6. sent' = T + Len(inbox')
    BY <1>2, <1>3, <2>2, <2>3, <2>4
  <2>7. \A i \in 1..Len(messages') :
          messages'[i] # << >> /\ Follows(messages'[i], Taken(i - 1)')
    BY <2>2 DEF Taken
  <2> QED
    BY <2>4, <2>5, <2>6, <2>7
<1>5. CASE HandleRead
  <2>1. PICK n \in 1..Len(inbox) : /\ messages' = Append(messages, SubSeq(inbox, 1, n))
                                   /\ inbox' = SubSeq(inbox, n + 1, Len(inbox))
    BY <1>5, ReadStep
  <2> DEFINE units == SubSeq(inbox, 1, n)
  <2>2. units \in Seq(Nat) /\ Len(units) = n /\ \A k \in 1..n : units[k] = inbox[k]
    <3>1. n \in Int /\ n <= Len(inbox) /\ (IF 1 <= n THEN n - 1 + 1 ELSE 0) = n /\ n - 1 + 1 = n
          /\ \A k \in 1..n : 1 + k - 1 = k
      BY <1>2
    <3>2. units \in Seq(Nat) /\ Len(units) = n /\ \A k \in 1..n : units[k] = inbox[1 + k - 1]
      BY <1>2, <3>1, PartType
    <3> HIDE DEF units
    <3> QED
      BY <3>1, <3>2
  <2>3. /\ Len(inbox') = Len(inbox) - n
        /\ \A k \in 1..(Len(inbox) - n) : inbox'[k] = inbox[n + k]
    <3> DEFINE N == Len(inbox)
               rest == SubSeq(inbox, n + 1, N)
    <3>1. N \in Nat /\ n \in 1..N /\ inbox \in Seq(Nat) /\ N = Len(inbox) /\ inbox' = rest
      BY <1>2, <2>1
    <3> HIDE DEF N
    <3>5. n + 1 \in Nat \ {0} /\ N \in Int /\ N <= Len(inbox)
      BY <3>1
    <3>6. /\ (IF n + 1 <= N THEN N - (n + 1) + 1 ELSE 0) = N - n
          /\ N - (n + 1) + 1 = N - n
      BY <3>1
    <3>7. \A k \in 1..(N - n) : n + 1 + k - 1 = n + k
      BY <3>1
    <3>2. /\ n + 1 \in Nat \ {0} /\ N \in Int /\ N <= Len(inbox)
          /\ (IF n + 1 <= N THEN N - (n + 1) + 1 ELSE 0) = N - n
          /\ N - (n + 1) + 1 = N - n
          /\ \A k \in 1..(N - n) : n + 1 + k - 1 = n + k
      BY <3>5, <3>6, <3>7
    <3>3. Len(rest) = N - n /\ \A k \in 1..(N - n) : rest[k] = inbox[n + 1 + k - 1]
      BY <3>1, <3>2, PartType
    <3> HIDE DEF rest
    <3>4. Len(rest) = N - n /\ \A k \in 1..(N - n) : rest[k] = inbox[n + k]
      BY <3>2, <3>3
    <3> QED
      BY <3>1, <3>4
  <2> HIDE DEF units
  <2>4. /\ Len(messages') = L + 1 /\ messages'[L + 1] = units
        /\ \A i \in 1..L : messages'[i] = messages[i]
    BY <1>2, <2>1, <2>2, AppendProperties, SMTT(30) DEF units
  <2>5. \A i \in 0..L : Taken(i)' = Taken(i)
    BY <1>2, <2>4 DEF Taken
  <2>6. Follows(inbox, T) /\ sent = T + Len(inbox) /\ sent' = sent
    BY <1>5 DEF HandleRead, peerVars
  <2>7. units # << >> /\ Follows(units, T)
    <3>1. Len(units) # 0
      BY <2>2
    <3>2. \A k \in 1..n : k \in 1..Len(inbox)
      BY <1>2
    <3> QED
      BY <2>2, <2>6, <3>1, <3>2, EmptySeq DEF Follows
  <2>8. Last(units) = T + n
    BY <1>2, <2>2, <2>7 DEF Last, Follows
  <2>9. Taken(Len(messages))' = T + n
    <3>1. Len(messages') # 0 /\ Last(messages'[Len(messages')]) = T + n
      BY <1>2, <2>4, <2>8
    <3> QED
      BY <3>1 DEF Taken
  <2>10. ASSUME NEW i \in 1..(L + 1)
         PROVE  messages'[i] # << >> /\ Follows(messages'[i], Taken(i - 1)')
    <3>1. CASE i = L + 1
      <4>1. Taken(i - 1)' = T
        <5>1. i - 1 = L /\ L \in 0..L
          BY <1>2, <3>1
        <5> QED
          BY <2>5, <5>1
      <4> QED
        BY <2>4, <2>7, <3>1, <4>1
    <3>2. CASE i # L + 1
      <4>1. i \in 1..L /\ i - 1 \in 0..L
        BY <1>2, <3>2
      <4> QED
        BY <2>4, <2>5, <4>1
    <3> QED
      BY <3>1, <3>2
  <2>11. Follows(inbox', T + n) /\ sent' = (T + n) + Len(inbox')
    <3>1. ASSUME NEW k \in 1..(Len(inbox) - n) PROVE inbox'[k] = (T + n) + k
      <4>1. n + k \in 1..Len(inbox) /\ n \in Nat /\ k \in Nat
        BY <1>2
      <4>2. inbox'[k] = T + (n + k)
        BY <2>3, <2>6, <4>1 DEF Follows
      <4> QED
        BY <1>3, <4>1, <4>2
    <3>2. sent = T + Len(inbox)
      BY <2>6
    <3> HIDE DEF T
    <3> QED
      BY <1>2, <1>3, <2>3, <2>6, <3>1, <3>2 DEF Follows
  <2> HIDE DEF L, T
  <2> QED
    BY <2>4, <2>9, <2>10, <2>11
<1>6. CASE PeerReads \/ Reset
  BY <1>1, <1>6 DEF PeerReads, Reset, peerVars, loopVars, bufferVars
<1>7. ASSUME NEW how \in {"half", "gone"}, PeerLeaves(how) PROVE MessagesAreTheStream'
  BY <1>1, <1>7 DEF PeerLeaves, loopVars, bufferVars
<1>8. CASE Poll \/ ReadError \/ HandleClose \/ Release
  BY <1>1, <1>8 DEF Poll, ReadError, HandleClose, Release, peerVars, bufferVars
<1> QED
  BY <1>4, <1>5, <1>6, <1>7, <1>8 DEF Next

LEMMA NextInv == IInv /\ [Next]_vars => IInv'
<1> SUFFICES ASSUME IInv, [Next]_vars PROVE IInv'
  OBVIOUS
<1>1. CASE Next
  BY <1>1, TypeStep, ReadInvStep, CloseInvStep, OrderInvStep, LossInvStep, StreamStep DEF IInv
<1>2. CASE UNCHANGED vars
  <2> USE <1>2 DEF vars, peerVars, bufferVars
  <2>1. TypeOK'
    BY DEF IInv, TypeOK
  <2>2. ReadInv' /\ CloseInv'
    BY DEF IInv, ReadInv, CloseInv, ClosedForAReason, Fin
  <2>3. OrderInv'
    BY DEF IInv, OrderInv, OnWire
  <2>4. LossInv' /\ MessagesAreTheStream'
    BY DEF IInv, LossInv, OnWire, MessagesAreTheStream, Taken
  <2> QED
    BY <2>1, <2>2, <2>3, <2>4 DEF IInv
<1> QED
  BY <1>1, <1>2

-----------------------------------------------------------------------------
(* The buffers hold what they may hold, and the kernel's send buffer is    *)
(* never asked to take more than it has room for.                          *)
THEOREM TypeCorrect == Spec => []TypeOK
<1>1. IInv => TypeOK
  BY DEF IInv
<1> QED
  BY <1>1, InitInv, NextInv, PTL DEF Spec

(* The -1 of a failed read is added to writerIndex only once, and nothing  *)
(* is read through it any more.                                            *)
THEOREM FailedReadIsTheLastHolds == Spec => []FailedReadIsTheLast
<1>1. IInv => FailedReadIsTheLast
  BY DEF IInv, TypeOK, ReadInv, FailedReadIsTheLast
<1> QED
  BY <1>1, InitInv, NextInv, PTL DEF Spec

(* The server closes a connection only after its peer did, with a rest in  *)
(* outputBuffer_, or because the uninitialised events_ asked for EPOLLOUT  *)
(* from the start: no other event without EPOLLIN comes about.             *)
THEOREM ClosedForAReasonHolds == Spec => []ClosedForAReason
<1>1. IInv => ClosedForAReason
  BY DEF IInv, CloseInv
<1> QED
  BY <1>1, InitInv, NextInv, PTL DEF Spec

(* The peer gets the responses in order, and the units of each from the    *)
(* first on without a gap or a repetition.                                 *)
THEOREM ReceivedInOrderHolds == Spec => []ReceivedInOrder
<1>1. IInv => ReceivedInOrder
  BY DEF IInv, OrderInv, Ordered, ReceivedInOrder
<1> QED
  BY <1>1, InitInv, NextInv, PTL DEF Spec

(* Until the connection is released, or reset by its peer, every unit of   *)
(* every response is with the peer, in the kernel or in outputBuffer_,     *)
(* once and in order: whatever ::send takes of a response, TcpConnection   *)
(* keeps the rest.                                                         *)
THEOREM NothingLostWhileOpenHolds == Spec => []NothingLostWhileOpen
<1>1. IInv => NothingLostWhileOpen
  BY DEF IInv, LossInv, Kept, NothingLostWhileOpen
<1> QED
  BY <1>1, InitInv, NextInv, PTL DEF Spec

(* The messages handleRead passes on, with what is still in the socket,    *)
(* are the stream the peer sent, for any segments and sizes of buffers.    *)
THEOREM MessagesAreTheStreamHolds == Spec => []MessagesAreTheStream
<1>1. IInv => MessagesAreTheStream
  BY DEF IInv
<1> QED
  BY <1>1, InitInv, NextInv, PTL DEF Spec

=============================================================================
