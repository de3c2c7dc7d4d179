------------------------- MODULE TcpConnectionProofs -------------------------
(***************************************************************************)
(* What TcpConnection promises, for any threads, messages and size of the  *)
(* socket's buffer, with assertions compiled in or not: the handler asks   *)
(* to write exactly when there is output, messages come while the          *)
(* connection is up and all of them before an orderly end, and the bytes   *)
(* handed over for sending are an OutputStream.                            *)
(***************************************************************************)
EXTENDS TcpConnection, SequenceTheorems, TLAPS

(* A thread inside send() was counted; only Shutdowners are inside shutdown(). *)
ThreadsInside ==
  \A u \in Threads :
    /\ threadPc[u] = "send" => sends[u] >= 1
    /\ threadPc[u] \in {"setState", "shutdown"} => u \in Shutdowners

Queued(op) == \E i \in DOMAIN functors : functors[i].op = op

(* connectionEstablished is the first functor, and runs once. *)
EstablishedOnce ==
  IF ups = 0
  THEN /\ functors = <<Functor("established")>>
       /\ pc = "idle" /\ m_events = {} /\ m_state = "kConnecting"
       /\ downs = 0 /\ removals = 0
       /\ \A u \in Threads : threadPc[u] = "out"
  ELSE ups = 1 /\ m_state # "kConnecting" /\ ~Queued("established")

(* connectionDestroyed comes behind handleClose. *)
DestroyedAfterClose ==
  removals > 0 \/ Queued("connectionDestroyed") \/ pc = "down" => downs > 0

(* The handler asks for input from connectionEstablished to handleClose. *)
ReadInterest == ups = 1 => (downs = 0 <=> "read" \in m_events)

(* What the flags of the current event say. *)
EventFlags ==
  /\ pc \notin {"event", "message", "down"} => revents = {}
  /\ "IN" \in revents \/ pc = "message" => ups = 1 /\ downs = 0
  /\ "HUP" \in revents => peer # "open" /\ (downs > 0 \/ "IN" \in revents \/ rcvbuf = 0)
  /\ "HUP" \in revents => pc = "event"

ConnInv ==
  /\ TypeOK
  /\ ThreadsInside
  /\ EstablishedOnce
  /\ DestroyedAfterClose
  /\ ReadInterest
  /\ EventFlags
  /\ WriteInterest
  /\ NothingLost

Items == [op : {"established", "send", "shutdown", "writeComplete", "connectionDestroyed"},
          data : Seq(Bytes)]

-----------------------------------------------------------------------------
(* What a write takes is a first part of the data; the rest follows it. *)
LEMMA SplitData ==
  ASSUME NEW S, NEW data \in Seq(S), NEW n \in 0 .. Len(data)
  PROVE  /\ SubSeq(data, 1, n) \in Seq(S) /\ SubSeq(data, n + 1, Len(data)) \in Seq(S)
         /\ Len(SubSeq(data, 1, n)) = n /\ Len(SubSeq(data, n + 1, Len(data))) = Len(data) - n
         /\ SubSeq(data, 1, n) \o SubSeq(data, n + 1, Len(data)) = data
<1>1. Len(data) \in Nat /\ \A i \in 1 .. Len(data) : data[i] \in S
  BY LenProperties, ElementOfSeq
<1>2. SubSeq(data, 1, n) \in Seq(S) /\ Len(SubSeq(data, 1, n)) = n
  <2>1. \A i \in 1 .. n : data[i] \in S
    BY <1>1
  <2>2. /\ SubSeq(data, 1, n) \in Seq(S)
        /\ Len(SubSeq(data, 1, n)) = IF 1 <= n THEN n - 1 + 1 ELSE 0
    BY <1>1, <2>1, SubSeqProperties
  <2> QED
    BY <1>1, <2>2
<1>3. /\ SubSeq(data, n + 1, Len(data)) \in Seq(S)
      /\ Len(SubSeq(data, n + 1, Len(data))) = Len(data) - n
  <2>1. n + 1 \in Int /\ Len(data) \in Int /\ \A i \in n + 1 .. Len(data) : data[i] \in S
    BY <1>1
  <2>2. /\ SubSeq(data, n + 1, Len(data)) \in Seq(S)
        /\ Len(SubSeq(data, n + 1, Len(data)))
             = IF n + 1 <= Len(data) THEN Len(data) - (n + 1) + 1 ELSE 0
    BY <2>1, SubSeqProperties
  <2> QED
    BY <1>1, <2>2
<1>4. SubSeq(data, 1, n) \o SubSeq(data, n + 1, Len(data)) = data
  <2>1. 1 \in 1 .. Len(data) + 1 /\ n \in 1 - 1 .. Len(data) /\ Len(data) \in n .. Len(data)
    BY <1>1
  <2>2. SubSeq(data, 1, n) \o SubSeq(data, n + 1, Len(data)) = SubSeq(data, 1, Len(data))
    BY <2>1, ConcatAdjacentSubSeq
  <2> QED
    BY <2>2, SubSeqFull
<1> QED
  BY <1>2, <1>3, <1>4

(* write() takes no more than there is, no more than there is room for, and nothing
   behind the end of the stream. *)
LEMMA TakenBounds ==
  ASSUME TypeOK, NEW data \in Seq(Bytes)
  PROVE  /\ BytesTaken(data) \in 0 .. Len(data)
         /\ sndbuf + BytesTaken(data) \in 0 .. SndBuf
         /\ shutWr \/ WriteErrs \/ WriteKills => BytesTaken(data) = 0
<1>1. Len(data) \in Nat /\ sndbuf \in Nat /\ SndBuf \in Nat /\ sndbuf <= SndBuf
  BY TcpConnectionAssumption DEF TypeOK
<1> QED
  BY <1>1 DEF BytesTaken, WriteErrs, WriteKills

LEMMA QueuedAppend ==
  ASSUME NEW queue \in Seq(Items), NEW item \in Items, NEW op
  PROVE  /\ Append(queue, item) \in Seq(Items)
         /\ \A i \in DOMAIN Append(queue, item) :
              Append(queue, item)[i].op = op => item.op = op \/ \E j \in DOMAIN queue : queue[j].op = op
<1>1. /\ Append(queue, item) \in Seq(Items)
      /\ DOMAIN Append(queue, item) = 1 .. Len(queue) + 1 /\ DOMAIN queue = 1 .. Len(queue)
      /\ \A i \in 1 .. Len(queue) : Append(queue, item)[i] = queue[i]
      /\ Append(queue, item)[Len(queue) + 1] = item
      /\ Len(queue) \in Nat
  BY AppendProperties, LenProperties
<1> QED
  BY <1>1

LEMMA QueuedTail ==
  ASSUME NEW queue \in Seq(Items), queue # <<>>, NEW op
  PROVE  /\ Tail(queue) \in Seq(Items) /\ Head(queue) \in Items
         /\ \A i \in DOMAIN Tail(queue) :
              Tail(queue)[i].op = op => \E j \in DOMAIN queue : queue[j].op = op
<1>1. /\ Head(queue) \in Items /\ Tail(queue) \in Seq(Items) /\ Len(Tail(queue)) = Len(queue) - 1
      /\ \A i \in 1 .. Len(Tail(queue)) : Tail(queue)[i] = queue[i + 1]
      /\ DOMAIN queue = 1 .. Len(queue) /\ DOMAIN Tail(queue) = 1 .. Len(Tail(queue))
      /\ Len(queue) \in Nat
  BY HeadTailProperties, LenProperties
<1> QED
  BY <1>1

LEMMA ItemTypes ==
  /\ \A op \in {"established", "shutdown", "writeComplete", "connectionDestroyed"} :
       Functor(op) \in Items /\ Functor(op).op = op
  /\ \A data \in Seq(Bytes) : SendFunctor(data) \in Items /\ SendFunctor(data).op = "send"
<1>1. <<>> \in Seq(Bytes)
  BY EmptySeq
<1> QED
  BY <1>1 DEF Functor, SendFunctor, Items

(* Concatenation, for the one set of elements needed here. *)
LEMMA BytesConcat ==
  ASSUME NEW s \in Seq(Bytes), NEW t \in Seq(Bytes)
  PROVE  s \o t \in Seq(Bytes) /\ (t # <<>> => s \o t # <<>>)
BY ConcatProperties, ConcatEqualIffEmpty

LEMMA BytesAssociative ==
  ASSUME NEW s \in Seq(Bytes), NEW t \in Seq(Bytes), NEW u \in Seq(Bytes)
  PROVE  (s \o t) \o u = s \o (t \o u)
BY ConcatAssociative

(* sendInLoop, called on a queue without its own functor. *)
LEMMA SendStep ==
  ASSUME TypeOK, Running, NothingLost, NEW data \in Seq(Bytes), NEW queue \in Seq(Items),
         SendInLoop(data, queue)
  PROVE  /\ outputBuffer' \in Seq(Bytes) /\ taken' \in Seq(Bytes) /\ written' \in Seq(Bytes)
         /\ functors' \in Seq(Items)
         /\ functors' = queue \/ functors' = Append(queue, Functor("writeComplete"))
         /\ m_events' = m_events \/ m_events' = m_events \cup {"write"}
         /\ sndbuf' \in 0 .. SndBuf
         /\ process' \in {"running"} \cup Deaths
         /\ peer' = peer \/ (peer = "reset" /\ peer' = "gone")
         /\ process' = "running" => written' \o outputBuffer' = taken'
         /\ process' = "running" =>
              (UNCHANGED <<m_events, outputBuffer>> \/ (isWriting' /\ outputBuffer' # <<>>))
         /\ taken' = taken \o data
         /\ \/ written' = written
            \/ /\ ~shutWr /\ written = taken
               /\ \E n \in 0 .. Len(data) : written' = written \o SubSeq(data, 1, n)
<1> DEFINE n == IF WritesDirectly THEN BytesTaken(data) ELSE 0
           first == SubSeq(data, 1, n)
           rest == SubSeq(data, n + 1, Len(data))
<1>1. /\ n \in 0 .. Len(data) /\ Len(data) \in Nat /\ sndbuf + n \in 0 .. SndBuf
      /\ WritesDirectly /\ (shutWr \/ WriteErrs \/ WriteKills) => n = 0
      /\ ~WritesDirectly => n = 0
  BY TakenBounds, TcpConnectionAssumption, LenProperties DEF TypeOK
<1>2. /\ first \in Seq(Bytes) /\ rest \in Seq(Bytes) /\ Len(rest) = Len(data) - n
      /\ Len(first) = n /\ first \o rest = data
  BY <1>1, SplitData, ZenonT(30)
<1>3. written \o outputBuffer = taken /\ written \in Seq(Bytes) /\ taken \in Seq(Bytes)
      /\ outputBuffer \in Seq(Bytes)
  BY DEF NothingLost, TypeOK
<1>4. taken' = taken \o data
  BY DEF SendInLoop
<1>5. functors' = queue \/ functors' = Append(queue, Functor("writeComplete"))
  BY DEF SendInLoop
<1>6. process' \in {"running"} \cup Deaths
  BY DEF SendInLoop, Deaths
<1>7. /\ written' = IF WritesDirectly THEN written \o first ELSE written
      /\ sndbuf' = sndbuf + n
      /\ peer' = peer \/ (peer = "reset" /\ peer' = "gone")
  <2>1. CASE WritesDirectly
    BY <2>1 DEF SendInLoop, SocketAfterWrite, WriteErrs
  <2>2. CASE ~WritesDirectly
    BY <2>2 DEF SendInLoop, TypeOK
  <2> QED
    BY <2>1, <2>2
<1>8. IF process' = "running" /\ Len(data) - n > 0
      THEN outputBuffer' = outputBuffer \o rest /\ m_events' = m_events \cup {"write"}
      ELSE UNCHANGED <<outputBuffer, m_events>>
  BY DEF SendInLoop, LeftToBuffer
<1> HIDE DEF n, first, rest
<1>9. WritesDirectly => outputBuffer = <<>> /\ written = taken
  BY <1>3, ConcatEmptySeq DEF WritesDirectly
<1>10. /\ taken' \in Seq(Bytes) /\ written' \in Seq(Bytes) /\ outputBuffer' \in Seq(Bytes)
       /\ functors' \in Seq(Items)
  <2>1. functors' \in Seq(Items)
    BY <1>5, ItemTypes, AppendProperties
  <2> QED
    <3>1. first \in Seq(Bytes) /\ rest \in Seq(Bytes)
      BY <1>2
    <3>2. /\ taken \o data \in Seq(Bytes) /\ written \o first \in Seq(Bytes)
          /\ outputBuffer \o rest \in Seq(Bytes)
      BY <1>3, <3>1, BytesConcat, Zenon
    <3> QED
      BY <1>3, <1>4, <1>7, <1>8, <2>1, <3>2
<1>11. ~WritesDirectly => rest = data /\ n = 0
  <2>1. ASSUME ~WritesDirectly  PROVE rest = data /\ n = 0
    BY <1>1, <2>1, SubSeqFull DEF rest
  <2> QED
    BY <2>1
<1>12. Len(data) - n > 0 <=> rest # <<>>
  BY <1>1, <1>2, EmptySeq
<1>13. process' = "running" => written' \o outputBuffer' = taken'
  <2>1. ASSUME process' = "running"  PROVE outputBuffer' = outputBuffer \o rest
    <3>1. CASE rest = <<>>
      BY <1>1, <1>2, <1>3, <1>8, <1>12, <2>1, <3>1, ConcatEmptySeq
    <3>2. CASE rest # <<>>
      BY <1>8, <1>12, <2>1, <3>2
    <3> QED
      BY <3>1, <3>2
  <2>2. CASE WritesDirectly
    <3>1. (taken \o first) \o rest = taken \o data
      <4>1. (taken \o first) \o rest = taken \o (first \o rest)
        <5>1. first \in Seq(Bytes) /\ rest \in Seq(Bytes) /\ taken \in Seq(Bytes)
          BY <1>2, <1>3
        <5> QED
          BY <5>1, BytesAssociative, Zenon
      <4> QED
        BY <1>2, <4>1
    <3>2. outputBuffer \o rest = rest
      BY <1>2, <1>9, <2>2, ConcatEmptySeq
    <3> QED
      BY <1>4, <1>7, <1>9, <2>1, <2>2, <3>1, <3>2
  <2>3. CASE ~WritesDirectly
    <3>1. (written \o outputBuffer) \o data = written \o (outputBuffer \o data)
      BY <1>3, BytesAssociative, ZenonT(30)
    <3> QED
      BY <1>3, <1>4, <1>7, <1>11, <2>1, <2>3, <3>1
  <2> QED
    BY <2>2, <2>3
<1>14. process' = "running" =>
         (UNCHANGED <<m_events, outputBuffer>> \/ (isWriting' /\ outputBuffer' # <<>>))
  <2>1. ASSUME process' = "running", Len(data) - n > 0
        PROVE  isWriting' /\ outputBuffer' # <<>>
    <3>1. outputBuffer' = outputBuffer \o rest /\ m_events' = m_events \cup {"write"}
      BY <1>8, <2>1
    <3>2. rest # <<>>
      BY <1>12, <2>1
    <3> QED
      <4>1. rest \in Seq(Bytes) /\ outputBuffer \in Seq(Bytes)
        BY <1>2, <1>3
      <4>2. outputBuffer \o rest # <<>>
        BY <3>2, <4>1, BytesConcat, Zenon
      <4> QED
        BY <3>1, <4>2 DEF isWriting
  <2>2. ASSUME process' = "running", ~(Len(data) - n > 0)
        PROVE  UNCHANGED <<m_events, outputBuffer>>
    BY <1>8, <2>2
  <2> QED
    BY <2>1, <2>2
<1>15. \/ written' = written
       \/ /\ ~shutWr /\ written = taken
          /\ \E k \in 0 .. Len(data) : written' = written \o SubSeq(data, 1, k)
  <2>1. CASE WritesDirectly /\ ~shutWr
    BY <1>1, <1>7, <1>9, <2>1 DEF first
  <2>2. CASE WritesDirectly /\ shutWr
    <3>1. n = 0
      BY <1>1, <2>2
    <3>2. first = <<>>
      BY <1>2, <3>1, EmptySeq
    <3> QED
      BY <1>3, <1>7, <2>2, <3>2, ConcatEmptySeq
  <2> QED
    BY <1>7, <2>1, <2>2
<1>16. sndbuf' \in 0 .. SndBuf /\ (m_events' = m_events \/ m_events' = m_events \cup {"write"})
  BY <1>1, <1>7, <1>8
<1> QED
  BY <1>4, <1>5, <1>6, <1>7, <1>10, <1>13, <1>14, <1>15, <1>16

(* handleWrite. *)
LEMMA WriteStep ==
  ASSUME TypeOK, Running, NothingLost, outputBuffer # <<>> \/ downs > 0, HandleWrite
  PROVE  /\ outputBuffer' \in Seq(Bytes) /\ written' \in Seq(Bytes) /\ functors' \in Seq(Items)
         /\ functors' = functors \/ functors' = Append(functors, Functor("writeComplete"))
         /\ m_events' \subseteq m_events /\ ("read" \in m_events => "read" \in m_events')
         /\ sndbuf' \in 0 .. SndBuf
         /\ process' \in {"running"} \cup Deaths
         /\ peer' = peer \/ (peer = "reset" /\ peer' = "gone")
         /\ written' \o outputBuffer' = taken
         /\ downs = 0 => \/ m_events' = m_events /\ outputBuffer' # <<>>
                         \/ ~isWriting' /\ outputBuffer' = <<>>
         /\ shutWr' \in BOOLEAN /\ (shutWr => shutWr' /\ written' = written)
         /\ shutWr' = shutWr \/ (shutWr' /\ outputBuffer' = <<>>)
         /\ \E part \in Seq(Bytes) : written' = written \o part
<1> DEFINE n == BytesTaken(outputBuffer)
           first == SubSeq(outputBuffer, 1, n)
           rest == SubSeq(outputBuffer, n + 1, Len(outputBuffer))
<1>1. /\ outputBuffer \in Seq(Bytes) /\ written \in Seq(Bytes) /\ written \o outputBuffer = taken
      /\ functors \in Seq(Items) /\ shutWr \in BOOLEAN
  BY DEF TypeOK, NothingLost, Items
<1>2. /\ n \in 0 .. Len(outputBuffer) /\ Len(outputBuffer) \in Nat
      /\ sndbuf + n \in 0 .. SndBuf /\ (shutWr => n = 0)
  BY <1>1, TakenBounds, LenProperties
<1>3. /\ first \in Seq(Bytes) /\ rest \in Seq(Bytes) /\ Len(first) = n
      /\ first \o rest = outputBuffer
  BY <1>1, <1>2, SplitData
<1>4. /\ written' = written \o first /\ sndbuf' = sndbuf + n /\ outputBuffer' = rest
      /\ peer' = peer \/ (peer = "reset" /\ peer' = "gone")
  BY DEF HandleWrite, SocketAfterWrite, WriteErrs
<1>5. IF n > 0 /\ rest = <<>>
      THEN /\ m_events' = m_events \ {"write"}
           /\ functors' = Append(functors, Functor("writeComplete"))
           /\ shutWr' = shutWr \/ shutWr' = TRUE
      ELSE UNCHANGED <<m_events, functors, shutWr>>
  BY DEF HandleWrite, OutputDone, EventsWithoutWriting, ShutdownInLoop
<1>6. process' \in {"running"} \cup Deaths
  BY DEF HandleWrite, TypeOK, Deaths
<1> HIDE DEF n, first, rest
<1>7. written' \in Seq(Bytes) /\ outputBuffer' \in Seq(Bytes) /\ functors' \in Seq(Items)
  <2>1. functors' \in Seq(Items)
    <3>1. functors' = functors \/ functors' = Append(functors, Functor("writeComplete"))
      BY <1>5
    <3>2. Append(functors, Functor("writeComplete")) \in Seq(Items)
      BY <1>1, ItemTypes, AppendProperties
    <3> QED
      BY <1>1, <3>1, <3>2
  <2> QED
    <3>1. written \o first \in Seq(Bytes)
      BY <1>1, <1>3, BytesConcat, Zenon
    <3> QED
      BY <1>3, <1>4, <2>1, <3>1
<1>8. written' \o outputBuffer' = taken
  <2>1. (written \o first) \o rest = written \o (first \o rest)
    BY <1>1, <1>3, BytesAssociative, Zenon
  <2> QED
    BY <1>1, <1>3, <1>4, <2>1
<1>9. n = 0 => first = <<>> /\ written' = written /\ rest = outputBuffer
  <2>1. ASSUME n = 0  PROVE first = <<>> /\ written' = written /\ rest = outputBuffer
    <3>1. first = <<>>
      BY <1>3, <2>1, EmptySeq
    <3>2. written \o first = written /\ first \o rest = rest
      BY <1>1, <1>3, <3>1, ConcatEmptySeq
    <3> QED
      BY <1>3, <1>4, <3>1, <3>2
  <2> QED
    BY <2>1
<1>10. downs = 0 => \/ m_events' = m_events /\ outputBuffer' # <<>>
                    \/ ~isWriting' /\ outputBuffer' = <<>>
  <2>1. CASE n > 0 /\ rest = <<>>
    BY <1>4, <1>5, <2>1 DEF isWriting
  <2>2. CASE ~(n > 0 /\ rest = <<>>)
    <3>1. downs = 0 => outputBuffer # <<>>
      BY DEF TypeOK
    <3>2. n = 0 \/ rest # <<>>
      BY <1>2, <2>2
    <3> QED
      BY <1>4, <1>5, <1>9, <2>2, <3>1, <3>2
  <2> QED
    BY <2>1, <2>2
<1>11. /\ shutWr' \in BOOLEAN /\ (shutWr => shutWr' /\ written' = written)
       /\ shutWr' = shutWr \/ (shutWr' /\ outputBuffer' = <<>>)
  BY <1>1, <1>2, <1>4, <1>5, <1>9
<1>12. /\ m_events' \subseteq m_events /\ ("read" \in m_events => "read" \in m_events')
       /\ functors' = functors \/ functors' = Append(functors, Functor("writeComplete"))
  BY <1>5
<1>13. \E part \in Seq(Bytes) : written' = written \o part
  BY <1>3, <1>4
<1>14. sndbuf' \in 0 .. SndBuf
  BY <1>2, <1>4
<1> QED
  BY <1>4, <1>6, <1>7, <1>8, <1>10, <1>11, <1>12, <1>13, <1>14

-----------------------------------------------------------------------------
(* How a step changes the queue, as far as the invariant looks at it. *)
LEMMA QueueKept ==
  ASSUME functors' = functors
  PROVE  /\ Queued("established")' <=> Queued("established")
         /\ Queued("connectionDestroyed")' <=> Queued("connectionDestroyed")
BY DEF Queued

LEMMA QueueAppended ==
  ASSUME functors \in Seq(Items), NEW item \in Items, functors' = Append(functors, item)
  PROVE  /\ functors' \in Seq(Items)
         /\ Queued("established")' => Queued("established") \/ item.op = "established"
         /\ Queued("connectionDestroyed")'
              => Queued("connectionDestroyed") \/ item.op = "connectionDestroyed"
BY QueuedAppend DEF Queued

LEMMA QueueShortened ==
  ASSUME functors \in Seq(Items), functors # <<>>, functors' = Tail(functors)
  PROVE  /\ functors' \in Seq(Items)
         /\ Queued("established")' => Queued("established")
         /\ Queued("connectionDestroyed")' => Queued("connectionDestroyed")
BY QueuedTail DEF Queued

(* Before connectionEstablished runs, only the peer does anything. *)
LEMMA EstablishedFirst ==
  ASSUME ConnInv, Next, ~ConnectionEstablished, ~PeerActs
  PROVE  ups = 1 /\ m_state # "kConnecting" /\ ~Queued("established")
<1> SUFFICES ASSUME ups = 0  PROVE FALSE
  BY DEF ConnInv, EstablishedOnce
<1>1. /\ functors = <<Functor("established")>> /\ pc = "idle" /\ m_events = {}
      /\ m_state = "kConnecting" /\ removals = 0 /\ \A u \in Threads : threadPc[u] = "out"
  BY DEF ConnInv, EstablishedOnce
<1>2. Head(functors).op = "established"
  BY <1>1 DEF Functor
<1>3. ~RunFunctor /\ ~Poll /\ ~HandleEvent /\ ~CallbackReturns /\ ~RemoveConnectionInLoop
  BY <1>1, <1>2 DEF RunFunctor, RunSend, RunShutdown, RunWriteComplete, ConnectionDestroyed,
     NextFunctor, Poll, HandleEvent, HangupEvent, ErrorEvent, ReadData, ReadEnd, ReadError,
     WriteEvent, EventDone, NextFlag, CallbackReturns, Callbacks, RemoveConnectionInLoop
<1>4. ~UserHere
  BY <1>1 DEF UserHere, SendHere, ShutdownHere
<1>5. /\ \A u \in Threads : ~BeginSend(u) /\ ~CallInProgress(u)
      /\ \A u \in Shutdowners : ~BeginShutdown(u)
  BY <1>1 DEF BeginSend, BeginShutdown, CallInProgress, QueueSend, SetDisconnecting,
     QueueShutdown
<1> QED
  BY <1>3, <1>4, <1>5 DEF Next

(* The steps that call sendInLoop, on the queue they found or on what follows the
   functor they run. *)
LEMMA SendKeepsInv ==
  ASSUME ConnInv, Running, ups = 1, NEW data \in Seq(Bytes), NEW queue \in Seq(Items),
         queue = functors \/ (functors # <<>> /\ queue = Tail(functors)),
         SendInLoop(data, queue), sends' \in [Senders -> 0 .. MaxSends],
         \A u \in Threads : sends'[u] >= sends[u],
         UNCHANGED <<m_state, pc, revents, removals, threadPc, rcvbuf, shutWr, inputs, ups, downs>>
  PROVE  ConnInv'
<1> USE DEF ConnInv
<1>1. /\ outputBuffer' \in Seq(Bytes) /\ taken' \in Seq(Bytes) /\ written' \in Seq(Bytes)
      /\ functors' \in Seq(Items)
      /\ functors' = queue \/ functors' = Append(queue, Functor("writeComplete"))
      /\ m_events' = m_events \/ m_events' = m_events \cup {"write"}
      /\ sndbuf' \in 0 .. SndBuf
      /\ process' \in {"running"} \cup Deaths
      /\ peer' = peer \/ (peer = "reset" /\ peer' = "gone")
      /\ process' = "running" => written' \o outputBuffer' = taken'
      /\ process' = "running" =>
           (UNCHANGED <<m_events, outputBuffer>> \/ (isWriting' /\ outputBuffer' # <<>>))
  BY SendStep
<1>2. /\ Queued("established")' => Queued("established")
      /\ Queued("connectionDestroyed")' => Queued("connectionDestroyed")
  <2> SUFFICES ASSUME NEW op \in {"established", "connectionDestroyed"},
                      NEW i \in DOMAIN functors', functors'[i].op = op
               PROVE  \E j \in DOMAIN functors : functors[j].op = op
    BY DEF Queued
  <2>1. \E j \in DOMAIN queue : queue[j].op = op
    <3>1. Functor("writeComplete") \in Items /\ Functor("writeComplete").op = "writeComplete"
      BY ItemTypes
    <3>2. \A k \in DOMAIN Append(queue, Functor("writeComplete")) :
            Append(queue, Functor("writeComplete"))[k].op = op
              => \E j \in DOMAIN queue : queue[j].op = op
      BY <3>1, QueuedAppend
    <3> QED
      BY <1>1, <3>2
  <2>2. CASE queue = functors
    BY <2>1, <2>2
  <2>3. CASE functors # <<>> /\ queue = Tail(functors)
    <3>1. functors \in Seq(Items)
      BY DEF TypeOK, Items
    <3>2. \A k \in DOMAIN Tail(functors) :
            Tail(functors)[k].op = op => \E j \in DOMAIN functors : functors[j].op = op
      BY <2>3, <3>1, QueuedTail
    <3> QED
      BY <2>1, <2>3, <3>2
  <2> QED
    BY <2>2, <2>3
<1>3. TypeOK'
  BY <1>1 DEF TypeOK, Items, PeerStates
<1>4. ThreadsInside'
  <2> SUFFICES ASSUME NEW u \in Threads
               PROVE  /\ threadPc[u] = "send" => sends'[u] >= 1
                      /\ threadPc[u] \in {"setState", "shutdown"} => u \in Shutdowners
    BY DEF ThreadsInside
  <2>1. sends[u] \in Nat /\ sends'[u] \in Nat /\ sends'[u] >= sends[u]
    BY TcpConnectionAssumption DEF TypeOK, Senders
  <2> QED
    BY <2>1 DEF ThreadsInside
<1>5. EstablishedOnce'
  BY <1>2 DEF EstablishedOnce
<1>6. DestroyedAfterClose'
  BY <1>2 DEF DestroyedAfterClose
<1>7. ReadInterest'
  BY <1>1 DEF ReadInterest
<1>8. EventFlags'
  BY <1>1 DEF EventFlags
<1>9. WriteInterest'
  BY <1>1 DEF WriteInterest, isWriting, Running
<1>10. NothingLost'
  BY <1>1 DEF NothingLost, Running
<1> QED
  BY <1>3, <1>4, <1>5, <1>6, <1>7, <1>8, <1>9, <1>10

-----------------------------------------------------------------------------
(* The invariant holds at the start, and every step keeps it. *)
LEMMA InitConnInv == Init => ConnInv
<1> SUFFICES ASSUME Init  PROVE ConnInv
  OBVIOUS
<1>1. /\ Functor("established") \in Items /\ Functor("established").op = "established"
      /\ <<>> \in Seq(Bytes)
  BY ItemTypes, EmptySeq
<1>2. TypeOK
  <2>1. functors \in Seq(Items)
    BY <1>1 DEF Init
  <2>2. /\ sends \in [Senders -> 0 .. MaxSends] /\ sndbuf \in 0 .. SndBuf
        /\ inputs \in 0 .. MaxInput
    BY TcpConnectionAssumption DEF Init
  <2>3. outputBuffer \in Seq(Bytes) /\ taken \in Seq(Bytes) /\ written \in Seq(Bytes)
    BY <1>1 DEF Init
  <2>4. threadPc \in [Threads -> {"out", "send", "setState", "shutdown"}]
    BY DEF Init
  <2> QED
    BY <2>1, <2>2, <2>3, <2>4 DEF Init, TypeOK, Items, States, LoopPc, PeerStates
<1>3. ThreadsInside /\ EstablishedOnce /\ ReadInterest /\ EventFlags /\ WriteInterest
  BY DEF Init, ThreadsInside, EstablishedOnce, ReadInterest, EventFlags, WriteInterest, isWriting
<1>4. DestroyedAfterClose
  <2>1. \A i \in DOMAIN functors : functors[i] = Functor("established")
    BY DEF Init
  <2> QED
    BY <1>1, <2>1 DEF Init, DestroyedAfterClose, Queued
<1>5. NothingLost
  BY <1>1, ConcatEmptySeq DEF Init, NothingLost
<1> QED
  BY <1>2, <1>3, <1>4, <1>5 DEF ConnInv

(* The parts of the invariant other than the types. *)
Parts == /\ ThreadsInside /\ EstablishedOnce /\ DestroyedAfterClose /\ ReadInterest
         /\ EventFlags /\ WriteInterest /\ NothingLost

(* handleClose, up to its callback or to its assertion. *)
LEMMA CloseEffect ==
  ASSUME TypeOK, Running, HandleClose
  PROVE  /\ m_state' \in States /\ (m_state # "kConnecting" => m_state' # "kConnecting")
         /\ m_events' \subseteq {"read", "write"} /\ pc' \in {pc, "down"} /\ downs' \in Nat
         /\ \/ /\ process' = "closeAssert" /\ UNCHANGED <<m_state, m_events, pc, downs>>
            \/ /\ process' = "running" /\ m_state' = "kDisconnected" /\ m_events' = {}
               /\ pc' = "down" /\ downs' = downs + 1 /\ downs' > 0
<1>1. CASE CloseAsserts
  BY <1>1 DEF HandleClose, TypeOK
<1>2. CASE ~CloseAsserts
  BY <1>2 DEF HandleClose, TypeOK, States, Running
<1> QED
  BY <1>1, <1>2

(* Functors other than sendInLoop and connectionEstablished. *)
LEMMA FunctorsKeepInv ==
  ASSUME ConnInv, Running, ups = 1, m_state # "kConnecting", ~Queued("established"),
         RunShutdown \/ RunWriteComplete \/ ConnectionDestroyed
  PROVE  ConnInv'
<1> USE DEF ConnInv, connVars, loopVars, socketVars, countVars, history
<1>1. ASSUME RunShutdown  PROVE ConnInv'
  <2>1. /\ functors' \in Seq(Items)
        /\ Queued("established")' => Queued("established")
        /\ Queued("connectionDestroyed")' => Queued("connectionDestroyed")
    BY <1>1, QueueShortened DEF RunShutdown, NextFunctor, TypeOK, Items
  <2>2. TypeOK'
    BY <1>1, <2>1 DEF RunShutdown, TypeOK, Items, States, LoopPc, PeerStates, Callbacks,
       ShutdownInLoop
  <2>3. Parts'
    BY <1>1, <2>1 DEF RunShutdown, Parts, ThreadsInside, EstablishedOnce,
       DestroyedAfterClose, ReadInterest, EventFlags,
       WriteInterest, NothingLost, isWriting, Running
  <2> QED
    BY <2>2, <2>3 DEF ConnInv, Parts
<1>2. ASSUME RunWriteComplete  PROVE ConnInv'
  <2>1. /\ functors' \in Seq(Items)
        /\ Queued("established")' => Queued("established")
        /\ Queued("connectionDestroyed")' => Queued("connectionDestroyed")
    BY <1>2, QueueShortened DEF RunWriteComplete, NextFunctor, TypeOK, Items
  <2>2. TypeOK'
    BY <1>2, <2>1 DEF RunWriteComplete, TypeOK, Items, States, LoopPc, PeerStates, Callbacks
  <2>3. Parts'
    BY <1>2, <2>1 DEF RunWriteComplete, Parts, ThreadsInside, EstablishedOnce,
       DestroyedAfterClose, ReadInterest, EventFlags,
       WriteInterest, NothingLost, isWriting, Running, NextFunctor
  <2> QED
    BY <2>2, <2>3 DEF ConnInv, Parts
<1>3. ASSUME ConnectionDestroyed  PROVE ConnInv'
  <2>1. /\ functors' \in Seq(Items)
        /\ Queued("established")' => Queued("established")
        /\ Queued("connectionDestroyed")' => Queued("connectionDestroyed")
    BY <1>3, QueueShortened DEF ConnectionDestroyed, NextFunctor, TypeOK, Items
  <2>2. TypeOK'
    BY <1>3, <2>1 DEF ConnectionDestroyed, TypeOK, Items, States, LoopPc, PeerStates, Callbacks
  <2>3. downs' > 0
    BY <1>3 DEF ConnectionDestroyed, TypeOK
  <2>4. Parts'
    BY <1>3, <2>1, <2>3 DEF ConnectionDestroyed, Parts, ThreadsInside, EstablishedOnce,
       DestroyedAfterClose, ReadInterest, EventFlags,
       WriteInterest, NothingLost, isWriting, Running,
       NextFunctor
  <2> QED
    BY <2>2, <2>4 DEF ConnInv, Parts
<1> QED
  BY <1>1, <1>2, <1>3

(* The events of the handler, handleWrite aside. *)
LEMMA EventsKeepInv ==
  ASSUME ConnInv, Running, ups = 1, m_state # "kConnecting", ~Queued("established"),
         \/ HangupEvent \/ ErrorEvent \/ ReadData \/ ReadEnd \/ ReadError \/ EventDone
         \/ Poll \/ CallbackReturns
  PROVE  ConnInv'
<1> USE DEF ConnInv, connVars, loopVars, socketVars, countVars, history
<1>1. ASSUME HangupEvent  PROVE ConnInv'
  <2>1. /\ Queued("established")' <=> Queued("established")
        /\ Queued("connectionDestroyed")' <=> Queued("connectionDestroyed")
        /\ functors' = functors
    BY <1>1, QueueKept DEF HangupEvent
  <2>2. \/ HandleClose /\ "IN" \notin revents
        \/ UNCHANGED <<m_state, m_events, pc, downs, process>>
    BY <1>1 DEF HangupEvent, HangupCloses
  <2>3. TypeOK'
    BY <1>1, <2>1, <2>2, CloseEffect DEF HangupEvent, TypeOK, Items, States, LoopPc,
       PeerStates, Callbacks, NextFlag, Deaths
  <2>4. Parts'
    BY <1>1, <2>1, <2>2, CloseEffect DEF HangupEvent, Parts, ThreadsInside, EstablishedOnce,
       DestroyedAfterClose, ReadInterest, EventFlags,
       WriteInterest, NothingLost, isWriting, Running, NextFlag, HangupCloses
  <2> QED
    BY <2>3, <2>4 DEF ConnInv, Parts
<1>2. ASSUME ErrorEvent  PROVE ConnInv'
  <2>1. /\ Queued("established")' <=> Queued("established")
        /\ Queued("connectionDestroyed")' <=> Queued("connectionDestroyed")
        /\ functors' = functors
    BY <1>2, QueueKept DEF ErrorEvent
  <2>2. TypeOK'
    BY <1>2, <2>1 DEF ErrorEvent, TypeOK, Items, States, LoopPc, PeerStates, Callbacks, NextFlag
  <2>3. Parts'
    BY <1>2, <2>1 DEF ErrorEvent, Parts, ThreadsInside, EstablishedOnce,
       DestroyedAfterClose, ReadInterest, EventFlags,
       WriteInterest, NothingLost, isWriting, Running, NextFlag, SocketError
  <2> QED
    BY <2>2, <2>3 DEF ConnInv, Parts
<1>3. ASSUME ReadData  PROVE ConnInv'
  <2>1. /\ Queued("established")' <=> Queued("established")
        /\ Queued("connectionDestroyed")' <=> Queued("connectionDestroyed")
        /\ functors' = functors
    BY <1>3, QueueKept DEF ReadData
  <2>2. TypeOK'
    BY <1>3, <2>1 DEF ReadData, TypeOK, Items, States, LoopPc, PeerStates, Callbacks, NextFlag
  <2>3. Parts'
    BY <1>3, <2>1 DEF ReadData, Parts, ThreadsInside, EstablishedOnce, DestroyedAfterClose,
       ReadInterest, EventFlags,
       WriteInterest, NothingLost, isWriting, Running, NextFlag
  <2> QED
    BY <2>2, <2>3 DEF ConnInv, Parts
<1>4. ASSUME ReadEnd  PROVE ConnInv'
  <2>1. /\ Queued("established")' <=> Queued("established")
        /\ Queued("connectionDestroyed")' <=> Queued("connectionDestroyed")
        /\ functors' = functors
    BY <1>4, QueueKept DEF ReadEnd
  <2>2. TypeOK'
    BY <1>4, <2>1, CloseEffect DEF ReadEnd, TypeOK, Items, States, LoopPc, PeerStates,
       Callbacks, NextFlag, Deaths
  <2>3. Parts'
    BY <1>4, <2>1, CloseEffect DEF ReadEnd, Parts, ThreadsInside, EstablishedOnce,
       DestroyedAfterClose, ReadInterest, EventFlags,
       WriteInterest, NothingLost, isWriting, Running, NextFlag
  <2> QED
    BY <2>2, <2>3 DEF ConnInv, Parts
<1>5. ASSUME ReadError  PROVE ConnInv'
  <2>1. /\ Queued("established")' <=> Queued("established")
        /\ Queued("connectionDestroyed")' <=> Queued("connectionDestroyed")
        /\ functors' = functors
    BY <1>5, QueueKept DEF ReadError
  <2>2. TypeOK'
    BY <1>5, <2>1 DEF ReadError, TypeOK, Items, States, LoopPc, PeerStates, Callbacks, NextFlag
  <2>3. Parts'
    BY <1>5, <2>1 DEF ReadError, Parts, ThreadsInside, EstablishedOnce, DestroyedAfterClose,
       ReadInterest, EventFlags,
       WriteInterest, NothingLost, isWriting, Running, NextFlag
  <2> QED
    BY <2>2, <2>3 DEF ConnInv, Parts
<1>6. ASSUME EventDone  PROVE ConnInv'
  <2>1. /\ Queued("established")' <=> Queued("established")
        /\ Queued("connectionDestroyed")' <=> Queued("connectionDestroyed")
        /\ functors' = functors
    BY <1>6, QueueKept DEF EventDone
  <2>2. TypeOK'
    BY <1>6, <2>1 DEF EventDone, TypeOK, Items, States, LoopPc, PeerStates, Callbacks
  <2>3. Parts'
    BY <1>6, <2>1 DEF EventDone, Parts, ThreadsInside, EstablishedOnce, DestroyedAfterClose,
       ReadInterest, EventFlags,
       WriteInterest, NothingLost, isWriting, Running
  <2> QED
    BY <2>2, <2>3 DEF ConnInv, Parts
<1>7. ASSUME Poll  PROVE ConnInv'
  <2>1. /\ Queued("established")' <=> Queued("established")
        /\ Queued("connectionDestroyed")' <=> Queued("connectionDestroyed")
        /\ functors' = functors
    BY <1>7, QueueKept DEF Poll
  <2>2. TypeOK'
    BY <1>7, <2>1 DEF Poll, TypeOK, Items, States, LoopPc, PeerStates, Callbacks, Ready
  <2>3. Parts'
    BY <1>7, <2>1 DEF Poll, Parts, ThreadsInside, EstablishedOnce, DestroyedAfterClose,
       ReadInterest, EventFlags,
       WriteInterest, NothingLost, isWriting, Running, Ready, SocketError, TypeOK, PeerStates
  <2> QED
    BY <2>2, <2>3 DEF ConnInv, Parts
<1>8. ASSUME CallbackReturns  PROVE ConnInv'
  <2>1. /\ Queued("established")' <=> Queued("established")
        /\ Queued("connectionDestroyed")' <=> Queued("connectionDestroyed")
        /\ functors' = functors
    BY <1>8, QueueKept DEF CallbackReturns
  <2>2. TypeOK'
    BY <1>8, <2>1 DEF CallbackReturns, TypeOK, Items, States, LoopPc, PeerStates, Callbacks,
       AfterDown
  <2>3. Parts'
    BY <1>8, <2>1 DEF CallbackReturns, Parts, ThreadsInside, EstablishedOnce,
       DestroyedAfterClose, ReadInterest, EventFlags,
       WriteInterest, NothingLost, isWriting, Running, AfterDown, TypeOK, Callbacks
  <2> QED
    BY <2>2, <2>3 DEF ConnInv, Parts
<1> QED
  BY <1>1, <1>2, <1>3, <1>4, <1>5, <1>6, <1>7, <1>8

(* connectionEstablished runs once, on its own in the queue. *)
LEMMA EstablishedKeepsInv ==
  ASSUME ConnInv, Running, ConnectionEstablished
  PROVE  ConnInv'
<1> USE DEF ConnInv, connVars, loopVars, socketVars, countVars, history
<1>1. functors \in Seq(Items) /\ Functor("established").op = "established"
  BY ItemTypes DEF TypeOK, Items
<1>2. ups = 0 /\ functors = <<Functor("established")>>
  <2>1. CASE ups = 0
    BY <2>1 DEF EstablishedOnce
  <2>2. CASE ups # 0
    <3>1. 1 \in DOMAIN functors /\ functors[1].op = "established"
      BY <1>1, HeadTailProperties, LenProperties, EmptySeq DEF ConnectionEstablished, NextFunctor
    <3> QED
      BY <2>2, <3>1 DEF EstablishedOnce, Queued
  <2> QED
    BY <2>1, <2>2
<1>3. functors' = <<>> /\ functors' \in Seq(Items)
  BY <1>1, <1>2, EmptySeq DEF ConnectionEstablished
<1>4. ~Queued("established")' /\ ~Queued("connectionDestroyed")'
  BY <1>3 DEF Queued
<1>5. TypeOK'
  BY <1>3 DEF ConnectionEstablished, TypeOK, Items, States, LoopPc, PeerStates, Callbacks
<1>6. ThreadsInside' /\ EstablishedOnce' /\ DestroyedAfterClose'
  BY <1>2, <1>4 DEF ConnectionEstablished, ThreadsInside, EstablishedOnce, DestroyedAfterClose
<1>7. ReadInterest' /\ EventFlags' /\ WriteInterest' /\ NothingLost'
  BY <1>2 DEF ConnectionEstablished, EstablishedOnce, ReadInterest, EventFlags, WriteInterest,
     NothingLost, isWriting, Running, NextFunctor
<1> QED
  BY <1>5, <1>6, <1>7

(* A message is a sequence of bytes. *)
LEMMA MessageBytes ==
  ASSUME NEW s \in Senders, NEW k \in 1 .. MaxSends, NEW len \in Nat
  PROVE  [j \in 1 .. len |-> <<s, k, j>>] \in Seq(Bytes)
<1>1. \A j \in 1 .. len : <<s, k, j>> \in Bytes
  BY DEF Bytes
<1> QED
  BY <1>1, IsASeq

LEMMA SendsKeepInv ==
  ASSUME ConnInv, Running, ups = 1, RunSend \/ SendHere
  PROVE  ConnInv'
<1> USE DEF ConnInv, connVars, loopVars, socketVars, countVars, history
<1>0. sends \in [Senders -> 0 .. MaxSends] /\ functors \in Seq(Items)
  BY DEF TypeOK, Items
<1>1. CASE RunSend
  <2>1. /\ Tail(functors) \in Seq(Items) /\ Head(functors) \in Items /\ functors # <<>>
    BY <1>0, <1>1, QueuedTail DEF RunSend, NextFunctor
  <2>2. Head(functors).data \in Seq(Bytes)
    BY <2>1 DEF Items
  <2>3. sends' = sends /\ \A u \in Threads : sends[u] >= sends[u]
    BY <1>0, <1>1, TcpConnectionAssumption DEF RunSend, Senders
  <2>4. /\ SendInLoop(Head(functors).data, Tail(functors))
        /\ UNCHANGED <<m_state, pc, revents, removals, threadPc, rcvbuf, shutWr, inputs, ups,
                       downs>>
    BY <1>1 DEF RunSend
  <2> QED
    BY <1>0, <2>1, <2>2, <2>3, <2>4, SendKeepsInv
<1>2. CASE SendHere
  <2>1. LoopThread \in Senders /\ Threads \subseteq Senders /\ MaxSends \in Nat /\ Sizes \subseteq Nat
    BY TcpConnectionAssumption DEF Senders
  <2>2. sends[LoopThread] + 1 \in 1 .. MaxSends
    BY <1>0, <1>2, <2>1 DEF SendHere, CountSend
  <2>3. /\ sends' \in [Senders -> 0 .. MaxSends]
        /\ \A u \in Threads : sends'[u] >= sends[u]
    BY <1>0, <1>2, <2>1, <2>2 DEF SendHere, CountSend
  <2>4. PICK len \in Sizes : SendInLoop(NewMessage(LoopThread, len), functors)
    BY <1>2 DEF SendHere
  <2>5. NewMessage(LoopThread, len) \in Seq(Bytes)
    BY <2>1, <2>2, MessageBytes DEF NewMessage
  <2>6. UNCHANGED <<m_state, pc, revents, removals, threadPc, rcvbuf, shutWr, inputs, ups, downs>>
    BY <1>2 DEF SendHere
  <2> QED
    BY <1>0, <2>3, <2>4, <2>5, <2>6, SendKeepsInv
<1> QED
  BY <1>1, <1>2

(* handleWrite is called while there is output, or the connection is closed. *)
LEMMA WritingMeansOutput ==
  ASSUME ConnInv, Running, isWriting
  PROVE  outputBuffer # <<>> \/ downs > 0
BY DEF ConnInv, WriteInterest, TypeOK

LEMMA WriteKeepsInv ==
  ASSUME ConnInv, Running, ups = 1, m_state # "kConnecting", ~Queued("established"), WriteEvent
  PROVE  ConnInv'
<1> USE DEF ConnInv, connVars, loopVars, socketVars, countVars, history
<1>1. CASE isWriting
  <2>1. HandleWrite
    BY <1>1 DEF WriteEvent
  <2>2. /\ outputBuffer' \in Seq(Bytes) /\ written' \in Seq(Bytes) /\ functors' \in Seq(Items)
        /\ functors' = functors \/ functors' = Append(functors, Functor("writeComplete"))
        /\ m_events' \subseteq m_events /\ ("read" \in m_events => "read" \in m_events')
        /\ sndbuf' \in 0 .. SndBuf
        /\ process' \in {"running"} \cup Deaths
        /\ peer' = peer \/ (peer = "reset" /\ peer' = "gone")
        /\ written' \o outputBuffer' = taken
        /\ downs = 0 => \/ m_events' = m_events /\ outputBuffer' # <<>>
                        \/ ~isWriting' /\ outputBuffer' = <<>>
        /\ shutWr' \in BOOLEAN
    BY <1>1, <2>1, WriteStep, WritingMeansOutput
  <2>3. /\ Queued("established")' => Queued("established")
        /\ Queued("connectionDestroyed")' => Queued("connectionDestroyed")
    <3>1. CASE functors' = functors
      BY <3>1, QueueKept
    <3>2. CASE functors' = Append(functors, Functor("writeComplete"))
      BY <3>2, QueueAppended, ItemTypes DEF TypeOK, Items
    <3> QED
      BY <2>2, <3>1, <3>2
  <2>4. TypeOK'
    BY <2>2 DEF WriteEvent, NextFlag, TypeOK, Items, PeerStates
  <2>5. ThreadsInside' /\ EstablishedOnce' /\ DestroyedAfterClose'
    BY <2>3 DEF WriteEvent, NextFlag, ThreadsInside, EstablishedOnce, DestroyedAfterClose
  <2>6. ReadInterest' /\ EventFlags' /\ NothingLost'
    BY <2>2 DEF WriteEvent, NextFlag, ReadInterest, EventFlags, NothingLost, Running
  <2>7. WriteInterest'
    BY <1>1, <2>2 DEF WriteEvent, WriteInterest, isWriting, Running
  <2> QED
    BY <2>4, <2>5, <2>6, <2>7
<1>2. CASE ~isWriting
  <2>1. UNCHANGED <<m_events, outputBuffer, functors, sndbuf, shutWr, peer, process, written>>
    BY <1>2 DEF WriteEvent
  <2>2. /\ Queued("established")' <=> Queued("established")
        /\ Queued("connectionDestroyed")' <=> Queued("connectionDestroyed")
    BY <2>1, QueueKept
  <2>3. TypeOK'
    BY <2>1 DEF WriteEvent, NextFlag, TypeOK
  <2>4. Parts'
    BY <2>1, <2>2 DEF WriteEvent, NextFlag, Parts, ThreadsInside, EstablishedOnce,
       DestroyedAfterClose, ReadInterest, EventFlags,
       WriteInterest, NothingLost, isWriting, Running
  <2> QED
    BY <2>3, <2>4 DEF Parts
<1> QED
  BY <1>1, <1>2

(* The base loop, shutdown() on this one, and the other threads. *)
LEMMA CallersKeepInv ==
  ASSUME ConnInv, Running, ups = 1, m_state # "kConnecting", ~Queued("established"),
         \/ ShutdownHere \/ RemoveConnectionInLoop
         \/ \E u \in Threads : BeginSend(u) \/ CallInProgress(u)
         \/ \E u \in Shutdowners : BeginShutdown(u)
  PROVE  ConnInv'
<1> USE DEF ConnInv, connVars, loopVars, socketVars, countVars, history
<1>0. /\ Threads \subseteq Senders /\ Shutdowners \subseteq Threads /\ MaxSends \in Nat
      /\ Sizes \subseteq Nat
      /\ threadPc \in [Threads -> {"out", "send", "setState", "shutdown"}]
      /\ sends \in [Senders -> 0 .. MaxSends]
  BY TcpConnectionAssumption DEF Senders, TypeOK
<1>1. ASSUME ShutdownHere  PROVE ConnInv'
  <2>1. /\ Queued("established")' <=> Queued("established")
        /\ Queued("connectionDestroyed")' <=> Queued("connectionDestroyed")
        /\ functors' = functors
    BY <1>1, QueueKept DEF ShutdownHere
  <2>2. TypeOK'
    BY <1>1, <2>1 DEF ShutdownHere, TypeOK, Items, States, LoopPc, PeerStates, Callbacks,
       ShutdownInLoop
  <2>3. Parts'
    BY <1>1, <2>1 DEF ShutdownHere, Parts, ThreadsInside, EstablishedOnce,
       DestroyedAfterClose, ReadInterest, EventFlags,
       WriteInterest, NothingLost, isWriting, Running
  <2> QED
    BY <2>2, <2>3 DEF ConnInv, Parts
<1>2. ASSUME RemoveConnectionInLoop  PROVE ConnInv'
  <2>1. functors' \in Seq(Items) /\ (Queued("established")' => Queued("established"))
    BY <1>2, QueueAppended, ItemTypes DEF RemoveConnectionInLoop, TypeOK, Items
  <2>2. TypeOK'
    BY <1>2, <2>1 DEF RemoveConnectionInLoop, TypeOK, Items, States, LoopPc, PeerStates, Callbacks
  <2>3. Parts'
    BY <1>2, <2>1 DEF RemoveConnectionInLoop, Parts, ThreadsInside, EstablishedOnce,
       DestroyedAfterClose, ReadInterest, EventFlags,
       WriteInterest, NothingLost, isWriting, Running, TypeOK
  <2> QED
    BY <2>2, <2>3 DEF ConnInv, Parts
<1>3. ASSUME NEW u \in Threads, BeginSend(u)  PROVE ConnInv'
  <2>1. /\ Queued("established")' <=> Queued("established")
        /\ Queued("connectionDestroyed")' <=> Queued("connectionDestroyed")
        /\ functors' = functors
    BY <1>3, QueueKept DEF BeginSend
  <2>3. TypeOK'
    BY <1>0, <1>3, <2>1 DEF BeginSend, TypeOK, Items, States, CountSend
  <2>4. ThreadsInside'
    BY <1>0, <1>3 DEF BeginSend, ThreadsInside, CountSend
  <2>5. EstablishedOnce' /\ DestroyedAfterClose'
    BY <1>3, <2>1 DEF BeginSend, EstablishedOnce, DestroyedAfterClose
  <2>6. ReadInterest' /\ EventFlags' /\ WriteInterest' /\ NothingLost'
    BY <1>3 DEF BeginSend, ReadInterest, EventFlags, WriteInterest, NothingLost, isWriting,
       Running
  <2> QED
    BY <2>3, <2>4, <2>5, <2>6
<1>4. ASSUME NEW u \in Threads, QueueSend(u)  PROVE ConnInv'
  <2>1. /\ functors' \in Seq(Items)
        /\ Queued("established")' => Queued("established")
        /\ Queued("connectionDestroyed")' => Queued("connectionDestroyed")
    <3>1. PICK len \in Sizes :
            functors' = Append(functors, SendFunctor([j \in 1 .. len |-> <<u, sends[u], j>>]))
      BY <1>4 DEF QueueSend
    <3>2. sends[u] \in 1 .. MaxSends /\ u \in Senders /\ len \in Nat
      BY <1>0, <1>4 DEF QueueSend, ThreadsInside
    <3> DEFINE message == [j \in 1 .. len |-> <<u, sends[u], j>>]
    <3>3. message \in Seq(Bytes)
      BY <3>2, MessageBytes
    <3> HIDE DEF message
    <3>4. SendFunctor(message) \in Items /\ SendFunctor(message).op = "send"
      BY <3>3, ItemTypes
    <3>5. functors' = Append(functors, SendFunctor(message)) /\ functors \in Seq(Items)
      BY <3>1 DEF message, TypeOK, Items
    <3> QED
      BY <3>4, <3>5, QueueAppended
  <2>3. TypeOK'
    BY <1>0, <1>4, <2>1 DEF QueueSend, TypeOK, Items, States
  <2>4. ThreadsInside'
    BY <1>0, <1>4 DEF QueueSend, ThreadsInside
  <2>5. EstablishedOnce' /\ DestroyedAfterClose'
    BY <1>4, <2>1 DEF QueueSend, EstablishedOnce, DestroyedAfterClose
  <2>6. ReadInterest' /\ EventFlags' /\ WriteInterest' /\ NothingLost'
    BY <1>4 DEF QueueSend, ReadInterest, EventFlags, WriteInterest, NothingLost, isWriting,
       Running
  <2> QED
    BY <2>3, <2>4, <2>5, <2>6
<1>5. ASSUME NEW u \in Threads, SetDisconnecting(u)  PROVE ConnInv'
  <2>1. /\ Queued("established")' <=> Queued("established")
        /\ Queued("connectionDestroyed")' <=> Queued("connectionDestroyed")
        /\ functors' = functors
    BY <1>5, QueueKept DEF SetDisconnecting
  <2>3. TypeOK'
    BY <1>0, <1>5, <2>1 DEF SetDisconnecting, TypeOK, Items, States
  <2>4. ThreadsInside'
    BY <1>0, <1>5 DEF SetDisconnecting, ThreadsInside
  <2>5. EstablishedOnce' /\ DestroyedAfterClose'
    BY <1>5, <2>1 DEF SetDisconnecting, EstablishedOnce, DestroyedAfterClose
  <2>6. ReadInterest' /\ EventFlags' /\ WriteInterest' /\ NothingLost'
    BY <1>5 DEF SetDisconnecting, ReadInterest, EventFlags, WriteInterest, NothingLost,
       isWriting, Running
  <2> QED
    BY <2>3, <2>4, <2>5, <2>6
<1>6. ASSUME NEW u \in Threads, QueueShutdown(u)  PROVE ConnInv'
  <2>1. /\ functors' \in Seq(Items)
        /\ Queued("established")' => Queued("established")
        /\ Queued("connectionDestroyed")' => Queued("connectionDestroyed")
    BY <1>6, QueueAppended, ItemTypes DEF QueueShutdown, TypeOK, Items
  <2>3. TypeOK'
    BY <1>0, <1>6, <2>1 DEF QueueShutdown, TypeOK, Items, States
  <2>4. ThreadsInside'
    BY <1>0, <1>6 DEF QueueShutdown, ThreadsInside
  <2>5. EstablishedOnce' /\ DestroyedAfterClose'
    BY <1>6, <2>1 DEF QueueShutdown, EstablishedOnce, DestroyedAfterClose
  <2>6. ReadInterest' /\ EventFlags' /\ WriteInterest' /\ NothingLost'
    BY <1>6 DEF QueueShutdown, ReadInterest, EventFlags, WriteInterest, NothingLost,
       isWriting, Running
  <2> QED
    BY <2>3, <2>4, <2>5, <2>6
<1>7. ASSUME NEW u \in Shutdowners, BeginShutdown(u)  PROVE ConnInv'
  <2>1. /\ Queued("established")' <=> Queued("established")
        /\ Queued("connectionDestroyed")' <=> Queued("connectionDestroyed")
        /\ functors' = functors
    BY <1>7, QueueKept DEF BeginShutdown
  <2>3. TypeOK'
    BY <1>0, <1>7, <2>1 DEF BeginShutdown, TypeOK, Items, States
  <2>4. ThreadsInside'
    BY <1>0, <1>7 DEF BeginShutdown, ThreadsInside
  <2>5. EstablishedOnce' /\ DestroyedAfterClose'
    BY <1>7, <2>1 DEF BeginShutdown, EstablishedOnce, DestroyedAfterClose
  <2>6. ReadInterest' /\ EventFlags' /\ WriteInterest' /\ NothingLost'
    BY <1>7 DEF BeginShutdown, ReadInterest, EventFlags, WriteInterest, NothingLost,
       isWriting, Running
  <2> QED
    BY <2>3, <2>4, <2>5, <2>6
<1> QED
  BY <1>1, <1>2, <1>3, <1>4, <1>5, <1>6, <1>7 DEF CallInProgress

LEMMA PeerKeepsInv ==
  ASSUME ConnInv, Running, PeerActs
  PROVE  ConnInv'
<1> USE DEF ConnInv, connVars, loopVars, socketVars, countVars, history
<1>1. /\ Queued("established")' <=> Queued("established")
      /\ Queued("connectionDestroyed")' <=> Queued("connectionDestroyed")
      /\ UNCHANGED <<connVars, loopVars, threadPc, shutWr, process, sends, history>>
  BY QueueKept DEF PeerActs, PeerReads, PeerSends, PeerCloses, PeerResets
<1>2. TypeOK'
  BY <1>1, TcpConnectionAssumption, SMTT(30)
     DEF PeerActs, PeerReads, PeerSends, PeerCloses, PeerResets, TypeOK, PeerStates
<1>3. /\ ThreadsInside' /\ EstablishedOnce' /\ DestroyedAfterClose' /\ ReadInterest'
      /\ WriteInterest' /\ NothingLost'
  BY <1>1 DEF ThreadsInside, EstablishedOnce, DestroyedAfterClose, ReadInterest, WriteInterest,
     NothingLost, isWriting, Running
<1>4. EventFlags'
  BY <1>1 DEF PeerActs, PeerReads, PeerSends, PeerCloses, PeerResets, EventFlags
<1> QED
  BY <1>2, <1>3, <1>4

LEMMA StepConnInv == ConnInv /\ [Next]_vars => ConnInv'
<1> SUFFICES ASSUME ConnInv, [Next]_vars  PROVE ConnInv'
  OBVIOUS
<1>1. ASSUME Next, ~ConnectionEstablished, ~PeerActs  PROVE ConnInv'
  <2>1. Running /\ ups = 1 /\ m_state # "kConnecting" /\ ~Queued("established")
    BY <1>1, EstablishedFirst DEF Next
  <2>2. CASE RunFunctor
    BY <1>1, <2>1, <2>2, FunctorsKeepInv, SendsKeepInv DEF RunFunctor
  <2>3. CASE Poll \/ HandleEvent \/ CallbackReturns
    BY <2>1, <2>3, EventsKeepInv, WriteKeepsInv DEF HandleEvent
  <2>4. CASE UserHere
    BY <2>1, <2>4, SendsKeepInv, CallersKeepInv DEF UserHere
  <2>5. CASE \/ RemoveConnectionInLoop
             \/ \E u \in Threads : BeginSend(u) \/ CallInProgress(u)
             \/ \E u \in Shutdowners : BeginShutdown(u)
    BY <2>1, <2>5, CallersKeepInv
  <2> QED
    BY <1>1, <2>2, <2>3, <2>4, <2>5 DEF Next
<1>2. ASSUME Next, ConnectionEstablished  PROVE ConnInv'
  BY <1>2, EstablishedKeepsInv DEF Next
<1>3. ASSUME Next, PeerActs  PROVE ConnInv'
  BY <1>3, PeerKeepsInv DEF Next
<1>4. ASSUME UNCHANGED vars  PROVE ConnInv'
  <2>1. /\ Queued("established")' <=> Queued("established")
        /\ Queued("connectionDestroyed")' <=> Queued("connectionDestroyed")
    BY <1>4, QueueKept DEF vars, loopVars
  <2>2. TypeOK'
    BY <1>4 DEF ConnInv, vars, connVars, loopVars, socketVars, countVars, history, TypeOK
  <2>3. Parts'
    BY <1>4, <2>1 DEF ConnInv, vars, connVars, loopVars, socketVars, countVars, history,
       Parts, ThreadsInside, EstablishedOnce, DestroyedAfterClose, ReadInterest, EventFlags,
       WriteInterest, NothingLost, isWriting, Running
  <2> QED
    BY <2>2, <2>3 DEF ConnInv, Parts
<1> QED
  BY <1>1, <1>2, <1>3, <1>4

LEMMA ConnInvAlways == Spec => []ConnInv
BY InitConnInv, StepConnInv, PTL DEF Spec

-----------------------------------------------------------------------------
(* Only shutdown() on another thread takes m_state out of kDisconnected. *)
LEMMA StateSteps ==
  ASSUME ConnInv, Next, m_state = "kDisconnected", m_state' # "kDisconnected"
  PROVE  \E u \in Shutdowners : threadPc[u] = "setState"
<1> USE DEF connVars, loopVars, socketVars, countVars, history
<1>1. ASSUME ~ConnectionEstablished, ~\E u \in Threads : SetDisconnecting(u)  PROVE FALSE
  <2>1. ~RunFunctor
    BY <1>1 DEF RunFunctor, RunSend, RunShutdown, RunWriteComplete, ConnectionDestroyed
  <2>2. ~HandleEvent
    BY DEF HandleEvent, HangupEvent, ErrorEvent, ReadData, ReadEnd, ReadError, WriteEvent,
       EventDone, HandleClose
  <2>3. ~Poll /\ ~CallbackReturns /\ ~RemoveConnectionInLoop /\ ~PeerActs
    BY DEF Poll, CallbackReturns, RemoveConnectionInLoop, PeerActs, PeerReads, PeerSends,
       PeerCloses, PeerResets
  <2>4. ~UserHere
    BY DEF UserHere, SendHere, ShutdownHere
  <2>5. /\ ~\E u \in Threads : BeginSend(u) \/ CallInProgress(u)
        /\ ~\E u \in Shutdowners : BeginShutdown(u)
    BY <1>1 DEF BeginSend, CallInProgress, QueueSend, QueueShutdown, BeginShutdown
  <2> QED
    BY <2>1, <2>2, <2>3, <2>4, <2>5 DEF Next
<1>2. ~ConnectionEstablished
  <2>1. ASSUME ConnectionEstablished  PROVE FALSE
    <3>1. ups # 0 /\ ~Queued("established")
      BY DEF ConnInv, EstablishedOnce
    <3>2. functors \in Seq(Items) /\ functors # <<>> /\ Head(functors).op = "established"
      BY <2>1 DEF ConnectionEstablished, NextFunctor, ConnInv, TypeOK, Items
    <3>3. 1 \in DOMAIN functors /\ functors[1].op = "established"
      BY <3>2, HeadTailProperties, LenProperties, EmptySeq
    <3> QED
      BY <3>1, <3>3 DEF Queued
  <2> QED
    BY <2>1
<1>3. PICK u \in Threads : SetDisconnecting(u)
  BY <1>1, <1>2
<1> QED
  BY <1>3 DEF SetDisconnecting, ConnInv, ThreadsInside

(* Only an event that reads the end of the input, or a hang-up without input left, takes
   an open connection down. *)
LEMMA DownSteps ==
  ASSUME ConnInv, Next, downs = 0, downs' # 0
  PROVE  rcvbuf = 0 \/ peer = "open"
<1> USE DEF connVars, loopVars, socketVars, countVars, history
<1>1. CASE HangupEvent
  <2>1. "HUP" \in revents /\ "IN" \notin revents
    BY <1>1 DEF HangupEvent, NextFlag, HangupCloses
  <2> QED
    BY <2>1 DEF ConnInv, EventFlags
<1>2. CASE ReadEnd
  BY <1>2 DEF ReadEnd
<1>3. ~ConnectionDestroyed
  <2>1. ASSUME ConnectionDestroyed  PROVE Queued("connectionDestroyed")
    <3>1. /\ functors \in Seq(Items) /\ functors # <<>>
          /\ Head(functors).op = "connectionDestroyed"
      BY <2>1 DEF ConnectionDestroyed, NextFunctor, ConnInv, TypeOK, Items
    <3>2. 1 \in DOMAIN functors /\ functors[1].op = "connectionDestroyed"
      BY <3>1, HeadTailProperties, LenProperties, EmptySeq
    <3> QED
      BY <3>2 DEF Queued
  <2> QED
    BY <2>1 DEF ConnInv, DestroyedAfterClose
<1>4. ASSUME ~HangupEvent, ~ReadEnd  PROVE FALSE
  <2>1. ~RunFunctor
    BY <1>3 DEF RunFunctor, ConnectionEstablished, RunSend, RunShutdown, RunWriteComplete
  <2>2. ~HandleEvent
    BY <1>4 DEF HandleEvent, ErrorEvent, ReadData, ReadError, WriteEvent, EventDone
  <2>3. ~Poll /\ ~CallbackReturns /\ ~RemoveConnectionInLoop /\ ~PeerActs
    BY DEF Poll, CallbackReturns, RemoveConnectionInLoop, PeerActs, PeerReads, PeerSends,
       PeerCloses, PeerResets
  <2>4. ~UserHere
    BY DEF UserHere, SendHere, ShutdownHere
  <2>5. /\ ~\E u \in Threads : BeginSend(u) \/ CallInProgress(u)
        /\ ~\E u \in Shutdowners : BeginShutdown(u)
    BY DEF BeginSend, CallInProgress, QueueSend, SetDisconnecting, QueueShutdown, BeginShutdown
  <2> QED
    BY <2>1, <2>2, <2>3, <2>4, <2>5 DEF Next
<1> QED
  BY <1>1, <1>2, <1>4

-----------------------------------------------------------------------------
(* Every variable keeps its type, and what write() takes always fits the socket's
   buffer. *)
THEOREM TypeCorrect == Spec => []TypeOK
<1>1. ConnInv => TypeOK
  BY DEF ConnInv
<1> QED
  BY <1>1, ConnInvAlways, PTL

(* Until the connection goes down the handler asks for EPOLLOUT exactly when output
   waits, after any interleaving of sends, writes and shutdowns
   (src/TcpConnection.cpp:97-137, 204-241). *)
THEOREM WriteInterestAlways == Spec => []WriteInterest
<1>1. ConnInv => WriteInterest
  BY DEF ConnInv
<1> QED
  BY <1>1, ConnInvAlways, PTL

(* Every byte that sendInLoop accepted has gone out or waits in the buffer, in the order
   of acceptance, whatever part of it the socket took, also after a failed write and
   behind the close (src/TcpConnection.cpp:97-137, 204-214). *)
THEOREM NothingLostAlways == Spec => []NothingLost
<1>1. ConnInv => NothingLost
  BY DEF ConnInv
<1> QED
  BY <1>1, ConnInvAlways, PTL

(* The message callback never comes before the connection callback nor after its down
   call, whatever flags an event carries (src/Handler.cpp:57-93). *)
THEOREM MessagesWhileUpAlways == Spec => []MessagesWhileUp
<1>1. ConnInv => MessagesWhileUp
  BY DEF ConnInv, EventFlags, MessagesWhileUp
<1> QED
  BY <1>1, ConnInvAlways, PTL

(* A connection its peer has closed in order goes down with no input unread
   (src/Handler.cpp:57-71, src/TcpConnection.cpp:178-201). *)
THEOREM InputBeforeDownAlways == Spec => InputBeforeDown
<1>1. ConnInv /\ [Next]_vars
        => [downs = 0 /\ downs' = 1 /\ peer = "fin" => rcvbuf = 0]_vars
  <2> SUFFICES ASSUME ConnInv, Next, downs = 0, downs' = 1, peer = "fin"  PROVE rcvbuf = 0
    BY DEF vars
  <2> QED
    BY DownSteps
<1> QED
  BY <1>1, ConnInvAlways, PTL DEF Spec, InputBeforeDown

(* No late functor and no call on the loop's thread revives a connection that is down:
   only the unsynchronised shutdown() of another thread can
   (src/TcpConnection.cpp:139-146). *)
THEOREM DisconnectedForGoodAlways == Spec => DisconnectedForGood
<1>1. ConnInv /\ [Next]_vars
        => [m_state = "kDisconnected" /\ m_state' # "kDisconnected"
              => \E u \in Shutdowners : threadPc[u] = "setState"]_vars
  <2> SUFFICES ASSUME ConnInv, Next, m_state = "kDisconnected", m_state' # "kDisconnected"
               PROVE  \E u \in Shutdowners : threadPc[u] = "setState"
    BY DEF vars
  <2> QED
    BY StateSteps
<1> QED
  BY <1>1, ConnInvAlways, PTL DEF Spec, DisconnectedForGood

-----------------------------------------------------------------------------
(* A sequence is a prefix of what it is continued to. *)
LEMMA PrefixOfConcat ==
  ASSUME NEW s \in Seq(Bytes), NEW t \in Seq(Bytes)
  PROVE  Output!IsPrefix(s, s \o t)
<1>1. /\ s \o t \in Seq(Bytes) /\ Len(s \o t) = Len(s) + Len(t) /\ Len(s) \in Nat /\ Len(t) \in Nat
      /\ \A i \in 1 .. Len(s) : (s \o t)[i] = s[i]
  BY ConcatProperties, LenProperties
<1>2. /\ SubSeq(s, 1, Len(s)) \in Seq(Bytes) /\ SubSeq(s \o t, 1, Len(s)) \in Seq(Bytes)
      /\ Len(SubSeq(s, 1, Len(s))) = Len(s) /\ Len(SubSeq(s \o t, 1, Len(s))) = Len(s)
  BY <1>1, SplitData
<1>3. ASSUME NEW i \in 1 .. Len(s)  PROVE SubSeq(s \o t, 1, Len(s))[i] = s[i]
  <2>1. \A j \in 1 .. Len(s) : (s \o t)[j] \in Bytes
    BY <1>1, ElementOfSeq
  <2>2. SubSeq(s \o t, 1, Len(s))[i] = (s \o t)[1 + i - 1]
    BY <1>1, <2>1, SubSeqProperties
  <2> QED
    BY <1>1, <2>2
<1>4. SubSeq(s \o t, 1, Len(s)) = s
  BY <1>1, <1>2, <1>3, SeqEqual
<1> QED
  BY <1>1, <1>4, SubSeqFull DEF Output!IsPrefix

(* sendInLoop is the stream's Accept. *)
LEMMA SendAccepts ==
  ASSUME TypeOK, Running, NothingLost, NEW data \in Seq(Bytes), NEW queue \in Seq(Items),
         SendInLoop(data, queue), UNCHANGED <<shutWr, downs>>
  PROVE  Output!Accept
<1>1. /\ written \in Seq(Bytes) /\ outputBuffer \in Seq(Bytes) /\ taken \in Seq(Bytes)
      /\ written \o outputBuffer = taken
  BY DEF TypeOK, NothingLost
<1>2. /\ taken' = taken \o data /\ taken' \in Seq(Bytes)
      /\ \/ written' = written
         \/ /\ ~shutWr /\ written = taken
            /\ \E n \in 0 .. Len(data) : written' = written \o SubSeq(data, 1, n)
  BY SendStep
<1>3. Output!IsPrefix(taken, taken')
  BY <1>1, <1>2, PrefixOfConcat
<1>4. Output!IsPrefix(written, written') /\ Output!IsPrefix(written', taken')
  <2>1. CASE written' = written
    <3>1. written \o <<>> = written /\ <<>> \in Seq(Bytes)
      BY <1>1, ConcatEmptySeq, EmptySeq
    <3>2. outputBuffer \o data \in Seq(Bytes)
      BY <1>1, BytesConcat
    <3>3. taken' = written \o (outputBuffer \o data)
      <4>1. (written \o outputBuffer) \o data = written \o (outputBuffer \o data)
        <5>1. written \in Seq(Bytes) /\ outputBuffer \in Seq(Bytes)
          BY <1>1
        <5> QED
          BY <5>1, BytesAssociative, Zenon
      <4> QED
        BY <1>1, <1>2, <4>1
    <3>4. Output!IsPrefix(written, written \o <<>>)
      BY <1>1, <3>1, PrefixOfConcat
    <3>5. Output!IsPrefix(written, written \o (outputBuffer \o data))
      BY <1>1, <3>2, PrefixOfConcat
    <3> QED
      BY <2>1, <3>1, <3>3, <3>4, <3>5
  <2>2. ASSUME written = taken, NEW n \in 0 .. Len(data), written' = written \o SubSeq(data, 1, n)
        PROVE  Output!IsPrefix(written, written') /\ Output!IsPrefix(written', taken')
    <3>1. PICK first \in Seq(Bytes), rest \in Seq(Bytes) :
            first = SubSeq(data, 1, n) /\ first \o rest = data
      <4>1. /\ SubSeq(data, 1, n) \in Seq(Bytes) /\ SubSeq(data, n + 1, Len(data)) \in Seq(Bytes)
            /\ SubSeq(data, 1, n) \o SubSeq(data, n + 1, Len(data)) = data
        BY SplitData
      <4> QED
        BY <4>1, Zenon
    <3>2. taken' = (written \o first) \o rest
      <4>1. (written \o first) \o rest = written \o (first \o rest)
        <5>1. written \in Seq(Bytes) /\ first \in Seq(Bytes) /\ rest \in Seq(Bytes)
          BY <1>1, <3>1
        <5> QED
          BY <5>1, BytesAssociative, ZenonT(30)
      <4> QED
        BY <1>2, <2>2, <3>1, <4>1
    <3>3. written \o first \in Seq(Bytes)
      BY <1>1, <3>1, BytesConcat
    <3>4. Output!IsPrefix(written, written \o first)
      BY <1>1, <3>1, PrefixOfConcat
    <3>5. Output!IsPrefix(written \o first, (written \o first) \o rest)
      BY <3>1, <3>3, PrefixOfConcat
    <3> QED
      BY <2>2, <3>1, <3>2, <3>4, <3>5
  <2> QED
    BY <1>2, <2>1, <2>2
<1>5. shutWr => written' = written
  BY <1>2
<1> QED
  BY <1>2, <1>3, <1>4, <1>5 DEF Output!Accept

(* handleWrite is the stream's Deliver, Finish if a shutdown waited, or a stutter. *)
LEMMA WriteDelivers ==
  ASSUME ConnInv, Running, isWriting, HandleWrite, UNCHANGED <<taken, downs>>
  PROVE  [Output!Next]_(Output!streamVars)
<1>1. /\ outputBuffer' \in Seq(Bytes) /\ written' \in Seq(Bytes)
      /\ written' \o outputBuffer' = taken
      /\ shutWr' \in BOOLEAN /\ (shutWr => shutWr' /\ written' = written)
      /\ shutWr' = shutWr \/ (shutWr' /\ outputBuffer' = <<>>)
      /\ \E part \in Seq(Bytes) : written' = written \o part
  BY WriteStep, WritingMeansOutput DEF ConnInv
<1>2. written \in Seq(Bytes) /\ shutWr \in BOOLEAN
  BY DEF ConnInv, TypeOK
<1>3. CASE shutWr
  BY <1>1, <1>2, <1>3 DEF Output!streamVars
<1>4. CASE ~shutWr /\ ~shutWr'
  <2>1. Output!IsPrefix(written, written')
    BY <1>1, <1>2, PrefixOfConcat
  <2>2. Output!IsPrefix(written', written' \o outputBuffer')
    BY <1>1, PrefixOfConcat
  <2> QED
    BY <1>1, <1>2, <1>4, <2>1, <2>2 DEF Output!Next, Output!Deliver
<1>5. CASE ~shutWr /\ shutWr'
  <2>1. outputBuffer' = <<>>
    BY <1>1, <1>5
  <2>2. written' = taken
    BY <1>1, <2>1, ConcatEmptySeq
  <2> QED
    BY <1>1, <1>5, <2>2 DEF Output!Next, Output!Finish
<1> QED
  BY <1>2, <1>3, <1>4, <1>5

(* shutdownInLoop is the stream's Finish, or waits for handleWrite. *)
LEMMA ShutdownFinishes ==
  ASSUME ConnInv, Running, ShutdownInLoop(isWriting), UNCHANGED <<taken, written, downs>>
  PROVE  [Output!Next]_(Output!streamVars)
<1>1. shutWr \in BOOLEAN /\ written \in Seq(Bytes) /\ downs \in Nat
  BY DEF ConnInv, TypeOK
<1>2. CASE shutWr \/ isWriting
  BY <1>1, <1>2 DEF ShutdownInLoop, Output!streamVars
<1>3. CASE ~shutWr /\ ~isWriting
  <2>1. downs = 0 => written = taken
    <3>1. downs = 0 => outputBuffer = <<>>
      BY <1>3 DEF ConnInv, WriteInterest
    <3>2. written \o outputBuffer = taken
      BY DEF ConnInv, NothingLost
    <3> QED
      BY <1>1, <3>1, <3>2, ConcatEmptySeq
  <2>2. shutWr' = TRUE
    BY <1>3 DEF ShutdownInLoop
  <2> QED
    BY <1>1, <1>3, <2>1, <2>2 DEF Output!Next, Output!Finish
<1> QED
  BY <1>2, <1>3

(* A step that only counts a connection callback is the stream's Close, or a stutter. *)
LEMMA DownCloses ==
  ASSUME TypeOK, UNCHANGED <<taken, written, shutWr>>, downs' = downs \/ downs' = downs + 1
  PROVE  [Output!Next]_(Output!streamVars)
<1>1. downs \in Nat
  BY DEF TypeOK
<1>2. CASE downs > 0 <=> downs' > 0
  <2>1. (downs > 0)' = (downs > 0)
    BY <1>2
  <2> QED
    BY <2>1 DEF Output!streamVars
<1>3. CASE ~(downs > 0) /\ downs' > 0
  BY <1>3 DEF Output!Next, Output!Close
<1> QED
  BY <1>1, <1>2, <1>3

LEMMA OutputStep == ConnInv /\ [Next]_vars => [Output!Next]_(Output!streamVars)
<1> SUFFICES ASSUME ConnInv, [Next]_vars  PROVE [Output!Next]_(Output!streamVars)
  OBVIOUS
<1> USE DEF connVars, loopVars, socketVars, countVars, history
<1>1. TypeOK /\ NothingLost /\ functors \in Seq(Items)
  BY DEF ConnInv, TypeOK, Items
<1>2. ASSUME Running, RunSend  PROVE Output!Next
  <2>1. Head(functors) \in Items /\ Tail(functors) \in Seq(Items)
    BY <1>1, <1>2, QueuedTail DEF RunSend, NextFunctor
  <2>2. Head(functors).data \in Seq(Bytes)
    BY <2>1 DEF Items
  <2> QED
    BY <1>1, <1>2, <2>1, <2>2, SendAccepts DEF RunSend, Output!Next
<1>3. ASSUME Running, SendHere  PROVE Output!Next
  <2>1. LoopThread \in Senders /\ MaxSends \in Nat /\ Sizes \subseteq Nat
    BY TcpConnectionAssumption DEF Senders
  <2>2. sends[LoopThread] + 1 \in 1 .. MaxSends
    BY <1>1, <1>3, <2>1 DEF SendHere, CountSend, TypeOK
  <2>3. PICK len \in Sizes : SendInLoop(NewMessage(LoopThread, len), functors)
    BY <1>3 DEF SendHere
  <2>4. NewMessage(LoopThread, len) \in Seq(Bytes)
    BY <2>1, <2>2, MessageBytes DEF NewMessage
  <2> QED
    BY <1>1, <1>3, <2>3, <2>4, SendAccepts DEF SendHere, Output!Next
<1>4. ASSUME Running, WriteEvent  PROVE [Output!Next]_(Output!streamVars)
  <2>1. CASE isWriting
    BY <1>4, <2>1, WriteDelivers DEF WriteEvent
  <2>2. CASE ~isWriting
    BY <1>4, <2>2 DEF WriteEvent, Output!streamVars
  <2> QED
    BY <2>1, <2>2
<1>5. ASSUME Running, RunShutdown \/ ShutdownHere  PROVE [Output!Next]_(Output!streamVars)
  BY <1>5, ShutdownFinishes DEF RunShutdown, ShutdownHere
<1>6. ASSUME ConnectionDestroyed \/ HangupEvent \/ ReadEnd
      PROVE  [Output!Next]_(Output!streamVars)
  BY <1>1, <1>6, DownCloses DEF ConnectionDestroyed, HangupEvent, ReadEnd, HandleClose
<1>7. ASSUME \/ ConnectionEstablished \/ RunWriteComplete
             \/ Poll \/ ErrorEvent \/ ReadData \/ ReadError \/ EventDone
             \/ CallbackReturns \/ RemoveConnectionInLoop \/ PeerActs
             \/ \E u \in Threads : BeginSend(u) \/ CallInProgress(u)
             \/ \E u \in Shutdowners : BeginShutdown(u)
             \/ UNCHANGED vars
      PROVE  UNCHANGED Output!streamVars
  <2>1. UNCHANGED <<taken, written, shutWr, downs>>
    BY <1>7 DEF ConnectionEstablished, RunWriteComplete, Poll, ErrorEvent, ReadData, ReadError,
       EventDone, CallbackReturns, RemoveConnectionInLoop, PeerActs, PeerReads, PeerSends,
       PeerCloses, PeerResets, BeginSend, CallInProgress, QueueSend, SetDisconnecting,
       QueueShutdown, BeginShutdown, vars
  <2> QED
    BY <2>1 DEF Output!streamVars
<1>8. CASE Next
  BY <1>2, <1>3, <1>4, <1>5, <1>6, <1>7, <1>8 DEF Next, RunFunctor, HandleEvent, UserHere
<1> QED
  BY <1>7, <1>8

(* What a connection does with the bytes it is given is an OutputStream: in order, none
   twice, none skipped, and, while it is up, its end only behind the last byte accepted
   (src/TcpConnection.cpp:97-155, 204-241). *)
THEOREM OutputStreamImplemented == Spec => ImplementsOutputStream
<1>1. Init => Output!Init
  BY DEF Init, Output!Init
<1> QED
  BY <1>1, OutputStep, ConnInvAlways, PTL DEF Spec, ImplementsOutputStream, Output!Spec
=============================================================================
