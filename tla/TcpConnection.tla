---------------------------- MODULE TcpConnection ----------------------------
(***************************************************************************)
(* One TcpConnection (src/TcpConnection.cpp) and its Handler               *)
(* (src/Handler.cpp) on the loop that owns it, from connectionEstablished  *)
(* to connectionDestroyed, with the user's callbacks, other threads that   *)
(* send or shut down, the socket and the peer.                             *)
(*                                                                         *)
(* The loop.  Its functors are one first-in first-out queue (TaskQueue,    *)
(* which EventLoop implements); between functors and events it is "idle".  *)
(* The poller reports the handler as long as m_events is not empty.        *)
(*                                                                         *)
(* Lifetime.  Functors bind the bare `this': the model, like the code,     *)
(* needs somebody to hold a TcpConnectionPtr until the last of them ran.   *)
(*                                                                         *)
(* User code.  The user sets every callback; in each of them, and in any   *)
(* other callback of the loop, it may send and shut down.                  *)
(***************************************************************************)
EXTENDS Integers, Sequences, FiniteSets

CONSTANTS
  Threads,             \* the threads other than the loop's that call send()
  Shutdowners,         \* those of them that call shutdown(), "not thread safe"
  LoopThread,          \* the loop's own thread, as a sender
  Sizes,               \* lengths of a message
  MaxSends,            \* bound: messages per sender
  SndBuf,              \* what the socket holds before write() says EAGAIN
  MaxInput,            \* bound: chunks the peer sends
  NDEBUG               \* is assert() compiled away?  The Makefile leaves it in

ASSUME TcpConnectionAssumption ==
  /\ Shutdowners \subseteq Threads
  /\ LoopThread \notin Threads
  /\ Sizes \subseteq Nat
  /\ MaxSends \in Nat /\ MaxInput \in Nat
  /\ SndBuf \in Nat \ {0}
  /\ NDEBUG \in BOOLEAN

VARIABLES
  m_state,
  m_events,            \* the handler's interest
  outputBuffer,
  functors,            \* the loop's queue
  pc,                  \* where the loop's thread is, see LoopPc
  revents,             \* the flags of the current event not yet looked at
  removals,            \* removeConnection calls the base loop has not run yet
  threadPc,            \* other threads: "out", or inside send() or shutdown()
  sndbuf,              \* bytes in the socket's send buffer
  rcvbuf,              \* chunks in its receive buffer
  shutWr,              \* shutdown(SHUT_WR) was called
  peer,                \* see PeerStates
  process,             \* "running", or how it died
  sends,               \* per sender: messages handed to send()
  inputs,              \* chunks the peer has sent
  taken,               \* history: bytes handed to sendInLoop
  written,             \* history: bytes the socket took
  ups, downs           \* history: connection callbacks, up and down

connVars   == <<m_state, m_events, outputBuffer>>
loopVars   == <<functors, pc, revents, removals>>
socketVars == <<sndbuf, rcvbuf, shutWr, peer>>
countVars  == <<sends, inputs>>
history    == <<taken, written, ups, downs>>
vars == <<connVars, loopVars, threadPc, socketVars, process, countVars, history>>

Senders == Threads \cup {LoopThread}
Bytes   == Senders \X (1 .. MaxSends) \X Nat

States == {"kDisconnected", "kConnecting", "kConnected", "kDisconnecting"}

(* "event": inside m_handleEvent.  The rest are user callbacks: connection up,
   message, write complete, connection down in handleClose, and connection down
   in connectionDestroyed. *)
Callbacks == {"up", "message", "writeComplete", "down", "destroyed"}
LoopPc    == {"idle", "event"} \cup Callbacks

(* "fin": it closed its sending side.  "reset" and "broken": it reset the connection,
   in the latter case after "fin", and SO_ERROR is ECONNRESET or EPIPE.  "gone": that
   error was fetched. *)
PeerStates == {"open", "fin", "reset", "broken", "gone"}

(* What ends the process: SIGPIPE, which nobody ignores, or a failed assertion. *)
Deaths == {"sigpipe", "sendAssert", "closeAssert"}

Running   == process = "running"
isWriting == "write" \in m_events

(* A functor that is not sendInLoop carries no data. *)
Functor(op) == [op |-> op, data |-> <<>>]
SendFunctor(data) == [op |-> "send", data |-> data]

(* newConnection has queued connectionEstablished. *)
Init ==
  /\ m_state = "kConnecting"
  /\ m_events = {}
  /\ outputBuffer = <<>>
  /\ functors = <<Functor("established")>>
  /\ pc = "idle"
  /\ revents = {}
  /\ removals = 0
  /\ threadPc = [u \in Threads |-> "out"]
  /\ sndbuf = 0 /\ rcvbuf = 0 /\ shutWr = FALSE /\ peer = "open"
  /\ process = "running"
  /\ sends = [s \in Senders |-> 0]
  /\ inputs = 0
  /\ taken = <<>> /\ written = <<>>
  /\ ups = 0 /\ downs = 0

-----------------------------------------------------------------------------
(* Operators whose comment starts with "Mutant" are never used by Spec: each is a
   plausible bug in the definition that follows it, kept to show that the
   property it names would notice. *)

SocketError == peer \in {"reset", "broken"}

(* write() on the socket.  A pending SO_ERROR is returned first, EPIPE raises SIGPIPE,
   and EPIPE it is if the sending side is shut or the connection gone; else the
   socket takes what it has room for, and says EAGAIN if it has none. *)
WriteErrs == peer = "reset"
WriteKills == ~WriteErrs /\ (shutWr \/ peer \in {"broken", "gone"})

BytesTaken(data) ==
  IF WriteErrs \/ WriteKills THEN 0
  ELSE IF Len(data) <= SndBuf - sndbuf THEN Len(data) ELSE SndBuf - sndbuf

SocketAfterWrite(data) ==
  /\ written' = written \o SubSeq(data, 1, BytesTaken(data))
  /\ sndbuf' = sndbuf + BytesTaken(data)
  /\ peer' = IF WriteErrs THEN "gone" ELSE peer

(* Mutant for ImplementsOutputStream: overtake the output that waits. *)
AlwaysWritesDirectly == TRUE

(* Mutant for NothingLost: append(data, len), the part that went out included. *)
BuffersAll(data, nwrote) == data

(* What sendInLoop buffers of data of which the socket took nwrote bytes. *)
LeftToBuffer(data, nwrote) == SubSeq(data, nwrote + 1, Len(data))

(* sendInLoop(data), with the loop's queue being `queue'. *)
WritesDirectly == ~isWriting /\ outputBuffer = <<>>
SendInLoop(data, queue) ==
  LET nwrote    == IF WritesDirectly THEN BytesTaken(data) ELSE 0
      remaining == Len(data) - nwrote
      outcome   == CASE WritesDirectly /\ WriteKills -> "sigpipe"
                     [] ~(WritesDirectly /\ WriteKills) /\ ~NDEBUG /\ ~(remaining < Len(data))
                          -> "sendAssert"
                     [] OTHER -> "running"
  IN  /\ taken' = taken \o data
      /\ IF WritesDirectly
         THEN SocketAfterWrite(data)
         ELSE UNCHANGED <<written, sndbuf, peer>>
      /\ functors' = IF WritesDirectly /\ ~WriteErrs /\ ~WriteKills /\ remaining = 0
                     THEN Append(queue, Functor("writeComplete")) ELSE queue
      /\ process' = outcome
      /\ IF outcome = "running" /\ remaining > 0
         THEN /\ outputBuffer' = outputBuffer \o LeftToBuffer(data, nwrote)
              /\ m_events' = m_events \cup {"write"}
         ELSE UNCHANGED <<outputBuffer, m_events>>

(* shutdownInLoop(), given whether the handler is writing by then. *)
ShutdownInLoop(writing) == shutWr' = (shutWr \/ ~writing)

(* handleClose(), up to the connection callback. *)
CloseAsserts == ~NDEBUG /\ m_state \notin {"kConnected", "kDisconnecting"}
HandleClose ==
  IF CloseAsserts
  THEN process' = "closeAssert" /\ UNCHANGED <<m_state, m_events, pc, downs>>
  ELSE /\ m_state' = "kDisconnected"
       /\ m_events' = {}
       /\ pc' = "down"
       /\ downs' = downs + 1
       /\ UNCHANGED process

-----------------------------------------------------------------------------
(* Functors. *)

NextFunctor(op) == pc = "idle" /\ functors # <<>> /\ Head(functors).op = op

(* connectionEstablished(), up to the connection callback. *)
ConnectionEstablished ==
  /\ NextFunctor("established")
  /\ functors' = Tail(functors)
  /\ m_state' = "kConnected"
  /\ m_events' = m_events \cup {"read"}
  /\ pc' = "up"
  /\ ups' = ups + 1
  /\ UNCHANGED <<outputBuffer, revents, removals, threadPc, socketVars, process, countVars,
                 taken, written, downs>>

RunSend ==
  /\ NextFunctor("send")
  /\ SendInLoop(Head(functors).data, Tail(functors))
  /\ UNCHANGED <<m_state, pc, revents, removals, threadPc, rcvbuf, shutWr, countVars, ups, downs>>

RunShutdown ==
  /\ NextFunctor("shutdown")
  /\ functors' = Tail(functors)
  /\ ShutdownInLoop(isWriting)
  /\ UNCHANGED <<connVars, pc, revents, removals, threadPc, sndbuf, rcvbuf, peer, process,
                 countVars, history>>

RunWriteComplete ==
  /\ NextFunctor("writeComplete")
  /\ functors' = Tail(functors)
  /\ pc' = "writeComplete"
  /\ UNCHANGED <<connVars, revents, removals, threadPc, socketVars, process, countVars, history>>

(* connectionDestroyed().  The semicolon behind its `if' makes the block
   unconditional: the state is set and the callback called once more. *)
ConnectionDestroyed ==
  /\ NextFunctor("connectionDestroyed")
  /\ functors' = Tail(functors)
  /\ m_state' = "kDisconnected"
  /\ m_events' = {}
  /\ pc' = "destroyed"
  /\ downs' = downs + 1
  /\ UNCHANGED <<outputBuffer, revents, removals, threadPc, socketVars, process, countVars,
                 taken, written, ups>>

-----------------------------------------------------------------------------
(* Events. *)

(* What epoll_wait reports: HUP and ERR always, IN and OUT when asked for. *)
Ready ==
  {f \in {"HUP", "ERR", "IN", "OUT"} :
     \/ f = "HUP" /\ (peer \notin {"open", "fin"} \/ (peer = "fin" /\ shutWr))
     \/ f = "ERR" /\ SocketError
     \/ f = "IN"  /\ "read" \in m_events /\ (rcvbuf > 0 \/ peer # "open")
     \/ f = "OUT" /\ isWriting
                  /\ (sndbuf < SndBuf \/ shutWr \/ peer \notin {"open", "fin"})}

Poll ==
  /\ pc = "idle"
  /\ m_events # {}
  /\ Ready # {}
  /\ revents' = Ready
  /\ pc' = "event"
  /\ UNCHANGED <<connVars, functors, removals, threadPc, socketVars, process, countVars, history>>

(* m_handleEvent looks at the flags in this order. *)
NextFlag(f) ==
  /\ pc = "event"
  /\ f \in revents
  /\ \A g \in revents : <<g, f>> \notin {<<"HUP", "ERR">>, <<"HUP", "IN">>, <<"HUP", "OUT">>,
                                         <<"ERR", "IN">>, <<"ERR", "OUT">>, <<"IN", "OUT">>}
  /\ revents' = revents \ {f}

(* Mutant for InputBeforeDown and MessagesWhileUp: a hang-up closes at once. *)
HangupAlwaysCloses == TRUE

(* A hang-up closes at once only if there is nothing to read. *)
HangupCloses == "IN" \notin revents
HangupEvent ==
  /\ NextFlag("HUP")
  /\ IF HangupCloses THEN HandleClose ELSE UNCHANGED <<m_state, m_events, pc, downs, process>>
  /\ UNCHANGED <<outputBuffer, functors, removals, threadPc, socketVars, countVars, taken,
                 written, ups>>

(* handleError() fetches SO_ERROR and prints it. *)
ErrorEvent ==
  /\ NextFlag("ERR")
  /\ peer' = IF SocketError THEN "gone" ELSE peer
  /\ UNCHANGED <<connVars, functors, pc, removals, threadPc, sndbuf, rcvbuf, shutWr, process,
                 countVars, history>>

(* handleRead(): data, the end of the stream, which a later reset does not hide, or an
   error. *)
ReadData ==
  /\ NextFlag("IN")
  /\ rcvbuf > 0
  /\ rcvbuf' = 0
  /\ pc' = "message"
  /\ UNCHANGED <<connVars, functors, removals, threadPc, sndbuf, shutWr, peer, process,
                 countVars, history>>

ReadEnd ==
  /\ NextFlag("IN")
  /\ rcvbuf = 0
  /\ peer \in {"fin", "broken", "gone"}
  /\ HandleClose
  /\ UNCHANGED <<outputBuffer, functors, removals, threadPc, socketVars, countVars, taken,
                 written, ups>>

ReadError ==
  /\ NextFlag("IN")
  /\ rcvbuf = 0
  /\ peer = "reset"
  /\ peer' = "gone"
  /\ UNCHANGED <<connVars, functors, pc, removals, threadPc, sndbuf, rcvbuf, shutWr, process,
                 countVars, history>>

(* Mutant for OutputDrains: stop after the first write. *)
DoneAfterOneWrite(n, rest) == n > 0

OutputDone(n, rest) == n > 0 /\ rest = <<>>

(* Mutant for WriteInterest: no disableWriting. *)
KeepsWriting == m_events

EventsWithoutWriting == m_events \ {"write"}

(* Mutant for ShutdownSendsFin: handleWrite forgets the shutdown that waits. *)
ForgetsShutdown == FALSE

ShutdownWaits == m_state = "kDisconnecting"

(* handleWrite(). *)
HandleWrite ==
  LET n    == BytesTaken(outputBuffer)
      rest == SubSeq(outputBuffer, n + 1, Len(outputBuffer))
  IN  /\ SocketAfterWrite(outputBuffer)
      /\ process' = IF WriteKills THEN "sigpipe" ELSE process
      /\ outputBuffer' = rest
      /\ IF OutputDone(n, rest)
         THEN /\ m_events' = EventsWithoutWriting
              /\ functors' = Append(functors, Functor("writeComplete"))
              /\ IF ShutdownWaits THEN ShutdownInLoop(FALSE) ELSE UNCHANGED shutWr
         ELSE UNCHANGED <<m_events, functors, shutWr>>

WriteEvent ==
  /\ NextFlag("OUT")
  /\ IF isWriting
     THEN HandleWrite
     ELSE UNCHANGED <<m_events, outputBuffer, functors, sndbuf, shutWr, peer, process, written>>
  /\ UNCHANGED <<m_state, pc, removals, threadPc, rcvbuf, countVars, taken, ups, downs>>

EventDone ==
  /\ pc = "event"
  /\ revents = {}
  /\ pc' = "idle"
  /\ UNCHANGED <<connVars, functors, revents, removals, threadPc, socketVars, process,
                 countVars, history>>

-----------------------------------------------------------------------------
(* Mutant for PeerLeavesConnectionDestroyed: no m_closeCB. *)
AfterDownNothing == UNCHANGED removals

(* A user callback returns.  After the one in handleClose comes m_closeCB, that is
   TcpServer::removeConnection; after the one in connectionDestroyed the handler,
   without interest by then, leaves the poller. *)
AfterDown == removals' = removals + 1
CallbackReturns ==
  /\ pc \in Callbacks
  /\ pc' = IF pc \in {"message", "down"} THEN "event" ELSE "idle"
  /\ IF pc = "down" THEN AfterDown ELSE UNCHANGED removals
  /\ UNCHANGED <<connVars, functors, revents, threadPc, socketVars, process, countVars, history>>

(* The base loop runs removeConnectionInLoop: it queues connectionDestroyed. *)
RemoveConnectionInLoop ==
  /\ removals > 0
  /\ removals' = removals - 1
  /\ functors' = Append(functors, Functor("connectionDestroyed"))
  /\ UNCHANGED <<connVars, pc, revents, threadPc, socketVars, process, countVars, history>>

-----------------------------------------------------------------------------
(* The user.  A call made while m_state is not kConnected does nothing.  The user
   has the connection from the first connection callback on. *)

(* The next message of sender s, every byte with a name of its own. *)
NewMessage(s, len) == [j \in 1 .. len |-> <<s, sends[s] + 1, j>>]
CountSend(s) == sends[s] < MaxSends /\ sends' = [sends EXCEPT ![s] = @ + 1]

(* send() on the loop's thread. *)
SendHere ==
  /\ pc \in Callbacks \cup {"idle"}
  /\ m_state = "kConnected"
  /\ CountSend(LoopThread)
  /\ \E len \in Sizes : SendInLoop(NewMessage(LoopThread, len), functors)
  /\ UNCHANGED <<m_state, pc, revents, removals, threadPc, rcvbuf, shutWr, inputs, ups, downs>>

(* shutdown() on the loop's thread. *)
ShutdownHere ==
  /\ pc \in Callbacks \cup {"idle"}
  /\ m_state = "kConnected"
  /\ m_state' = "kDisconnecting"
  /\ ShutdownInLoop(isWriting)
  /\ UNCHANGED <<m_events, outputBuffer, loopVars, threadPc, sndbuf, rcvbuf, peer, process,
                 countVars, history>>

(* send() on another thread: it reads m_state ... *)
BeginSend(u) ==
  /\ threadPc[u] = "out"
  /\ m_state = "kConnected"
  /\ CountSend(u)
  /\ threadPc' = [threadPc EXCEPT ![u] = "send"]
  /\ UNCHANGED <<connVars, loopVars, socketVars, process, inputs, history>>

(* ... and queues the functor. *)
QueueSend(u) ==
  /\ threadPc[u] = "send"
  /\ threadPc' = [threadPc EXCEPT ![u] = "out"]
  /\ \E len \in Sizes :
       functors' = Append(functors, SendFunctor([j \in 1 .. len |-> <<u, sends[u], j>>]))
  /\ UNCHANGED <<connVars, pc, revents, removals, socketVars, process, countVars, history>>

(* shutdown() on another thread: it reads m_state, sets it, and queues. *)
BeginShutdown(u) ==
  /\ threadPc[u] = "out"
  /\ m_state = "kConnected"
  /\ threadPc' = [threadPc EXCEPT ![u] = "setState"]
  /\ UNCHANGED <<connVars, loopVars, socketVars, process, countVars, history>>

SetDisconnecting(u) ==
  /\ threadPc[u] = "setState"
  /\ m_state' = "kDisconnecting"
  /\ threadPc' = [threadPc EXCEPT ![u] = "shutdown"]
  /\ UNCHANGED <<m_events, outputBuffer, loopVars, socketVars, process, countVars, history>>

QueueShutdown(u) ==
  /\ threadPc[u] = "shutdown"
  /\ threadPc' = [threadPc EXCEPT ![u] = "out"]
  /\ functors' = Append(functors, Functor("shutdown"))
  /\ UNCHANGED <<connVars, pc, revents, removals, socketVars, process, countVars, history>>

-----------------------------------------------------------------------------
(* The peer reads, sends, closes its sending side, or resets the connection. *)
PeerReads ==
  /\ sndbuf > 0
  /\ peer \in {"open", "fin"}
  /\ sndbuf' = sndbuf - 1
  /\ UNCHANGED <<connVars, loopVars, threadPc, rcvbuf, shutWr, peer, process, countVars, history>>

PeerSends ==
  /\ peer = "open"
  /\ inputs < MaxInput
  /\ inputs' = inputs + 1
  /\ rcvbuf' = rcvbuf + 1
  /\ UNCHANGED <<connVars, loopVars, threadPc, sndbuf, shutWr, peer, process, sends, history>>

PeerCloses ==
  /\ peer = "open"
  /\ peer' = "fin"
  /\ UNCHANGED <<connVars, loopVars, threadPc, sndbuf, rcvbuf, shutWr, process, countVars, history>>

PeerResets ==
  /\ peer \in {"open", "fin"}
  /\ peer' = IF peer = "open" THEN "reset" ELSE "broken"
  /\ sndbuf' = 0
  /\ UNCHANGED <<connVars, loopVars, threadPc, rcvbuf, shutWr, process, countVars, history>>

-----------------------------------------------------------------------------
RunFunctor ==
  \/ ConnectionEstablished \/ RunSend \/ RunShutdown \/ RunWriteComplete \/ ConnectionDestroyed

HandleEvent ==
  \/ HangupEvent \/ ErrorEvent \/ ReadData \/ ReadEnd \/ ReadError \/ WriteEvent \/ EventDone

UserHere == SendHere \/ ShutdownHere

CallInProgress(u) == QueueSend(u) \/ SetDisconnecting(u) \/ QueueShutdown(u)

PeerActs == PeerReads \/ PeerSends \/ PeerCloses \/ PeerResets

Next ==
  /\ Running
  /\ \/ RunFunctor \/ Poll \/ HandleEvent \/ CallbackReturns \/ RemoveConnectionInLoop
     \/ UserHere \/ PeerActs
     \/ \E u \in Threads : BeginSend(u) \/ CallInProgress(u)
     \/ \E u \in Shutdowners : BeginShutdown(u)

Spec == Init /\ [][Next]_vars

(* The loop polls once and runs its functors once per iteration, for ever (hence the
   strong fairness: the two disable each other for a while), callbacks return, the
   base loop runs its functors, a thread inside a call finishes it, and the peer reads
   what it is sent. *)
Fairness ==
  /\ SF_vars(Running /\ RunFunctor)
  /\ SF_vars(Running /\ Poll)
  /\ WF_vars(Running /\ HandleEvent)
  /\ WF_vars(Running /\ CallbackReturns)
  /\ WF_vars(Running /\ RemoveConnectionInLoop)
  /\ \A u \in Threads : WF_vars(Running /\ CallInProgress(u))
  /\ WF_vars(Running /\ PeerReads)

FairSpec == Spec /\ Fairness
-----------------------------------------------------------------------------
(* Types, and the bounds of the socket's buffer. *)
TypeOK ==
  /\ m_state \in States
  /\ m_events \subseteq {"read", "write"}
  /\ outputBuffer \in Seq(Bytes)
  /\ functors \in Seq([op : {"established", "send", "shutdown", "writeComplete",
                             "connectionDestroyed"}, data : Seq(Bytes)])
  /\ pc \in LoopPc
  /\ revents \subseteq {"HUP", "ERR", "IN", "OUT"}
  /\ removals \in Nat
  /\ threadPc \in [Threads -> {"out", "send", "setState", "shutdown"}]
  /\ sndbuf \in 0 .. SndBuf
  /\ rcvbuf \in Nat
  /\ shutWr \in BOOLEAN
  /\ peer \in PeerStates
  /\ process \in {"running"} \cup Deaths
  /\ sends \in [Senders -> 0 .. MaxSends]
  /\ inputs \in 0 .. MaxInput
  /\ taken \in Seq(Bytes)
  /\ written \in Seq(Bytes)
  /\ ups \in Nat /\ downs \in Nat

(* The bytes sent are an OutputStream: what sendInLoop was given goes out in that
   order, be it written at once, buffered, or both (src/TcpConnection.cpp:97-137),
   and before handleClose the sending side is shut only when all of it is out
   (src/TcpConnection.cpp:148-155, 221-224), whoever calls shutdown(). *)
Output == INSTANCE OutputStream
            WITH accepted <- taken, wire <- written, fin <- shutWr, closed <- downs > 0
ImplementsOutputStream == Output!Spec

(* While the process runs, what the socket took and what waits in the output buffer
   make up, without a gap or a repetition, what sendInLoop was given, also after
   partial and failed writes and behind the close, where senders on other threads
   still reach it (src/TcpConnection.cpp:97-137, 204-214). *)
NothingLost == Running => written \o outputBuffer = taken

(* Until the connection is closed the handler asks for EPOLLOUT exactly when there is
   output to write: neither is output forgotten nor does the loop spin. *)
WriteInterest ==
  Running /\ downs = 0 => (isWriting <=> outputBuffer # <<>>)

(* An orderly close by the peer is reported only after all it sent before
   (src/Handler.cpp:57-71 and the order of read()'s results). *)
InputBeforeDown == [][downs = 0 /\ downs' = 1 /\ peer = "fin" => rcvbuf = 0]_vars

(* The message callback is called between the connection callback's up and its
   first down only. *)
MessagesWhileUp == pc = "message" => ups = 1 /\ downs = 0

(* m_state leaves kDisconnected only in a shutdown() on another thread, which is
   documented not to be safe (src/TcpConnection.h:35): no late functor and no
   shutdown on the loop's thread revives the connection. *)
DisconnectedForGood ==
  [][m_state = "kDisconnected" /\ m_state' # "kDisconnected"
       => \E u \in Shutdowners : threadPc[u] = "setState"]_vars

(* Buffered output is written as long as the peer reads, or the connection goes down. *)
OutputDrains ==
  (downs = 0 /\ outputBuffer # <<>>) ~> (outputBuffer = <<>> \/ downs > 0 \/ ~Running)

(* shutdown() ends in the end of the stream, at once or behind the buffered output. *)
ShutdownSendsFin ==
  (downs = 0 /\ m_state = "kDisconnecting") ~> (shutWr \/ downs > 0 \/ ~Running)

(* However the peer leaves, the connection is taken down and out of the poller. *)
PeerLeavesConnectionDestroyed ==
  (downs = 0 /\ peer # "open") ~> (pc = "destroyed" \/ ~Running)

(* The assertion assert(remaining < len) of sendInLoop (src/TcpConnection.cpp:123). *)
SomethingWritten == process # "sendAssert"

(* The assertion of handleClose (src/TcpConnection.cpp:245): it is entered in state
   kConnected or kDisconnecting. *)
ClosedWhileUp == process # "closeAssert"
=============================================================================
