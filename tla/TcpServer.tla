------------------------------ MODULE TcpServer ------------------------------
(***************************************************************************)
(* TcpServer (src/TcpServer.cpp) with its Acceptor (src/Acceptor.cpp): how *)
(* connections come and go, who keeps a TcpConnection alive, what the      *)
(* pollers see of it, and how the server itself is taken down, as at the   *)
(* end of test_TcpServer (src/main.cpp).  The base loop accepts; one io    *)
(* loop owns the connections.  It may be the same loop: then what is       *)
(* queued here is called at once, which is one of the orders of the steps  *)
(* below.  The registrations are EPollPoller's, whose actions are used     *)
(* here: descriptors are unique, so one map stands for both pollers'.  The *)
(* end is that of a server whose io loop runs in a thread of the pool.     *)
(*                                                                         *)
(* A connection is the address of its Handler.  Its life is counted in     *)
(* TcpConnectionPtrs: those in functors that wait or run, the guard of     *)
(* handleEvent, and the user's.  The step that drops the last one destroys *)
(* the connection, which closes its descriptor and leaves the poller       *)
(* alone.  The functors of send() hold no TcpConnectionPtr.                *)
(***************************************************************************)
EXTENDS EPollPoller, Sequences, FiniteSets, Functions

CONSTANTS
  AcceptHandler,       \* the address of m_acceptHandler
  ListenFd,            \* the descriptor of m_acceptSocket
  IdleFd,              \* the descriptor behind m_idleFd
  UserKeeps,           \* does the user keep a TcpConnectionPtr while a connection lives,
  UserWaits,           \* and until the loop has sent what other threads gave to send()?
  MessagesFit,         \* does a socket take every message at once, or none whole because
                       \* its peer does not read?
  MaxAccepts,          \* bound: connections the peers open
  MaxSends             \* bound: messages the user sends, over all connections

ASSUME TcpServerAssumption ==
  /\ AcceptHandler \in Handlers
  /\ ListenFd \in Fds /\ IdleFd \in Fds /\ ListenFd # IdleFd
  /\ UserKeeps \in BOOLEAN /\ UserWaits \in BOOLEAN /\ MessagesFit \in BOOLEAN
  /\ MaxAccepts \in Nat /\ MaxSends \in Nat

VARIABLES
  server,              \* how far it is taken down, see ServerPhases
  m_started,
  m_blistenning,       \* of the acceptor
  m_state,             \* per connection
  userHolds,           \* connections the user has a TcpConnectionPtr to
  sending,             \* connections that another thread is inside send() of
  m_connections,
  ioQueue,             \* the io loop's functors
  ioPc,                \* what the io loop is inside of
  ioBatch,             \* connections in functors that ran, until the batch is dropped
  baseQueue,           \* the base loop's removeConnectionInLoop functors
  baseBatch,           \* connections in those that ran
  backlog,             \* connections that wait to be accepted
  gone,                \* connections whose peer has closed its side
  opened,              \* history: connections the peers have opened
  sent                 \* history: messages the user has sent

startVars  == <<server, m_started, m_blistenning>>
serverVars == <<m_state, userHolds, sending, m_connections>>
ioVars     == <<ioQueue, ioPc, ioBatch>>
baseVars   == <<baseQueue, baseBatch>>
envVars    == <<backlog, gone, opened, sent>>
vars == <<pollerVars, startVars, serverVars, ioVars, baseVars, envVars>>

Conns == Handlers \ {AcceptHandler}

(* "ended": loop() of the base loop has returned.  The rest is ~TcpServer: its body, and
   then its members from the last declared to the first (src/TcpServer.h:38-49).
   m_connections and the callbacks go at once.  m_threadPool is next: its "joining",
   while the io loop may go on calling, and the io thread's "releasing" of its functors.
   Only then comes m_acceptor: the "disabling" and "removing" of its handler and the
   "closing" of its descriptors.  "gone": the server's memory is free. *)
ServerPhases == {"running", "ended", "joining", "releasing", "disabling", "removing",
                 "closing", "gone"}

(* Operators whose comment starts with "Mutant" are never used by Spec: each is a
   plausible bug in the definition that follows it, kept to show that the
   property it names would notice. *)

IoRunning == server \in {"running", "ended", "joining"}

Functor(op, c) == [op |-> op, conn |-> c]
Holding == {"established", "destroyed", "writeComplete", "remove"}
Idle == [in |-> "nothing", conn |-> NoHandler]
In(callback, c) == [in |-> callback, conn |-> c]

(* Does a functor in the queue hold a TcpConnectionPtr to c, or use its address? *)
Holds(queue, c)   == \E functor \in Range(queue) : functor.conn = c /\ functor.op \in Holding
HasSend(queue, c) == Functor("send", c) \in Range(queue)

(* Who holds a TcpConnectionPtr to c. *)
Holders(c) ==
  {x \in {"user", "map", "ioQueue", "ioPc", "ioBatch", "baseQueue", "baseBatch"} :
     \/ x = "user" /\ c \in userHolds
     \/ x = "map" /\ c \in m_connections
     \/ x = "ioQueue" /\ Holds(ioQueue, c)
     \/ x = "ioPc" /\ ioPc.conn = c
     \/ x = "ioBatch" /\ c \in ioBatch
     \/ x = "baseQueue" /\ Holds(baseQueue, c)
     \/ x = "baseBatch" /\ c \in baseBatch}

(* ~TcpConnection: ~Handler, then ~Socket. *)
DestroyConnection(c) ==
  /\ handlers' = [handlers EXCEPT ![c] = Nothing]
  /\ openFds' = openFds \ {handlers[c].m_fd}
  /\ epoll' = [f \in Fds |-> IF f = handlers[c].m_fd THEN Absent ELSE epoll[f]]
  /\ UNCHANGED <<m_handlermap, aborted>>

(* Mutant for UsedConnectionsLive: functors bind the bare pointer. *)
DropBare(c, holder) ==
  IF Holders(c) \subseteq {holder, "ioQueue"} THEN DestroyConnection(c) ELSE UNCHANGED pollerVars

(* `holder' drops its TcpConnectionPtr to c: the last one destroys c. *)
Drop(c, holder) ==
  IF Holders(c) \subseteq {holder} THEN DestroyConnection(c) ELSE UNCHANGED pollerVars

(* The constructors: the acceptor's handler exists, but is not registered. *)
Init ==
  /\ handlers = [h \in Handlers |->
                   IF h = AcceptHandler THEN [Nothing EXCEPT !.m_fd = ListenFd] ELSE Nothing]
  /\ m_handlermap = [f \in Fds |-> NoHandler]
  /\ epoll = [f \in Fds |-> Absent]
  /\ openFds = {ListenFd, IdleFd}
  /\ aborted = FALSE
  /\ server = "running" /\ m_started = FALSE /\ m_blistenning = FALSE
  /\ m_state = [c \in Conns |-> "kDisconnected"]
  /\ userHolds = {} /\ sending = {} /\ m_connections = {}
  /\ ioQueue = <<>> /\ ioPc = Idle /\ ioBatch = {}
  /\ baseQueue = <<>> /\ baseBatch = {}
  /\ backlog = 0 /\ gone = {} /\ opened = 0 /\ sent = 0

-----------------------------------------------------------------------------
(* The base loop. *)

(* start(), on any thread, runs or queues Acceptor::listen ...  Once: another call before
   the queued listen has run would queue it twice, and a second listen() asks epoll for
   what it asked before. *)
Start ==
  /\ server = "running"
  /\ ~m_started
  /\ m_started' = TRUE
  /\ UNCHANGED <<pollerVars, server, m_blistenning, serverVars, ioVars, baseVars, envVars>>

(* ... on the base loop: from now on peers may connect. *)
Listen ==
  /\ server = "running"
  /\ m_started
  /\ ~m_blistenning
  /\ m_blistenning' = TRUE
  /\ EnableReading(AcceptHandler)
  /\ UNCHANGED <<server, m_started, serverVars, ioVars, baseVars, envVars>>

(* The listening socket is reported as long as a connection waits. *)
AcceptEvent ==
  /\ server = "running"
  /\ backlog > 0
  /\ "read" \in epoll[ListenFd].events

(* newConnection() does not enter the connection in m_connections. *)
ConnectionsAfterAccept(c) == m_connections

(* Acceptor::handleRead() and newConnection(). *)
NewConnection(c, f) ==
  /\ AcceptEvent
  /\ backlog' = backlog - 1
  /\ ConstructHandler(c, f)
  /\ m_state' = [m_state EXCEPT ![c] = "kConnecting"]
  /\ m_connections' = ConnectionsAfterAccept(c)
  /\ ioQueue' = Append(ioQueue, Functor("established", c))
  /\ gone' = gone \ {c}
  /\ UNCHANGED <<startVars, userHolds, sending, ioPc, ioBatch, baseVars, opened, sent>>

(* Mutant for BacklogDrains: no idle descriptor to give up. *)
AcceptFails == backlog

AfterEmfile == backlog - 1

(* accept() fails with EMFILE: m_idleFd is closed, the connection accepted in its
   place and closed, m_idleFd opened again. *)
RefuseConnection ==
  /\ AcceptEvent
  /\ openFds = Fds
  /\ backlog' = AfterEmfile
  /\ UNCHANGED <<startVars, pollerVars, serverVars, ioVars, baseVars, gone, opened, sent>>

(* Mutant for ClosedConnectionFreed: connectionDestroyed is never queued. *)
NoDestroyedFunctor(c) == ioQueue

WithDestroyedFunctor(c) == Append(ioQueue, Functor("destroyed", c))

(* removeConnectionInLoop(). *)
RemoveConnectionInLoop ==
  /\ server = "running"
  /\ baseQueue # <<>>
  /\ LET c == Head(baseQueue).conn
     IN  /\ m_connections' = m_connections \ {c}
         /\ ioQueue' = WithDestroyedFunctor(c)
         /\ baseBatch' = baseBatch \cup {c}
  /\ baseQueue' = Tail(baseQueue)
  /\ UNCHANGED <<pollerVars, startVars, m_state, userHolds, sending, ioPc, ioBatch, envVars>>

(* m_doPendingFunctors of the base loop returns, and drops the functors it ran. *)
BaseBatchEnds(c) ==
  /\ c \in baseBatch
  /\ baseBatch' = baseBatch \ {c}
  /\ Drop(c, "baseBatch")
  /\ UNCHANGED <<startVars, serverVars, ioVars, baseQueue, envVars>>

-----------------------------------------------------------------------------
(* The io loop. *)

NextFunctor(op) == IoRunning /\ ioPc = Idle /\ ioQueue # <<>> /\ Head(ioQueue).op = op

(* connectionEstablished(), up to the callback. *)
ConnectionEstablished ==
  /\ NextFunctor("established")
  /\ LET c == Head(ioQueue).conn
     IN  /\ m_state' = [m_state EXCEPT ![c] = "kConnected"]
         /\ EnableReading(c)
         /\ ioPc' = In("up", c)
         /\ userHolds' = IF UserKeeps THEN userHolds \cup {c} ELSE userHolds
  /\ ioQueue' = Tail(ioQueue)
  /\ UNCHANGED <<startVars, sending, m_connections, ioBatch, baseVars, envVars>>

(* connectionDestroyed(), up to the callback ... *)
ConnectionDestroyed ==
  /\ NextFunctor("destroyed")
  /\ LET c == Head(ioQueue).conn
     IN  /\ m_state' = [m_state EXCEPT ![c] = "kDisconnected"]
         /\ DisableAll(c)
         /\ ioPc' = In("destroyed", c)
  /\ ioQueue' = Tail(ioQueue)
  /\ UNCHANGED <<startVars, userHolds, sending, m_connections, ioBatch, baseVars, envVars>>

(* Mutant for NoDanglingMapEntry: connectionDestroyed without it. *)
RemovesNothing(c) == UNCHANGED pollerVars

RemovesHandler(c) == RemoveHandler(c)

(* ... and from there. *)
DestroyedReturns ==
  /\ IoRunning
  /\ ioPc.in = "destroyed"
  /\ RemovesHandler(ioPc.conn)
  /\ ioPc' = Idle
  /\ ioBatch' = ioBatch \cup {ioPc.conn}
  /\ UNCHANGED <<startVars, serverVars, ioQueue, baseVars, envVars>>

(* The write-complete callback, with the connection in its functor. *)
WriteComplete ==
  /\ NextFunctor("writeComplete")
  /\ ioPc' = In("writeComplete", Head(ioQueue).conn)
  /\ ioQueue' = Tail(ioQueue)
  /\ UNCHANGED <<startVars, pollerVars, serverVars, ioBatch, baseVars, envVars>>

(* sendInLoop(), the queue being `queue': a message that the socket takes queues the
   write-complete functor, any other waits in the output buffer, behind write
   interest. *)
SendInLoop(c, queue) ==
  IF MessagesFit
  THEN ioQueue' = Append(queue, Functor("writeComplete", c)) /\ UNCHANGED pollerVars
  ELSE /\ ioQueue' = queue
       /\ IF "write" \in handlers[c].m_events THEN UNCHANGED pollerVars ELSE EnableWriting(c)

(* The functor of a send() on another thread; if the connection is gone, what follows
   is undefined, and the model ends there. *)
RunSend ==
  /\ NextFunctor("send")
  /\ Live(Head(ioQueue).conn)
  /\ SendInLoop(Head(ioQueue).conn, Tail(ioQueue))
  /\ UNCHANGED <<startVars, serverVars, ioPc, ioBatch, baseVars, envVars>>

(* A functor's callback returns; the functor stays until its batch is dropped. *)
FunctorReturns ==
  /\ IoRunning
  /\ ioPc.in \in {"up", "writeComplete"}
  /\ ioBatch' = ioBatch \cup {ioPc.conn}
  /\ ioPc' = Idle
  /\ UNCHANGED <<startVars, pollerVars, serverVars, ioQueue, baseVars, envVars>>

IoBatchEnds(c) ==
  /\ IoRunning
  /\ ioPc = Idle
  /\ c \in ioBatch
  /\ ioBatch' = ioBatch \ {c}
  /\ Drop(c, "ioBatch")
  /\ UNCHANGED <<startVars, serverVars, ioQueue, ioPc, baseVars, envVars>>

(* Mutant for ImplementsConnectionLife: handleClose leaves the handler's interest. *)
KeepsInterest(c) == UNCHANGED pollerVars

(* m_handler->disableAll() in handleClose. *)
LosesInterest(c) == DisableAll(c)

(* The peer has left: handleEvent takes its guard, handleRead reads 0, and
   handleClose begins. *)
CloseEvent(f) ==
  /\ IoRunning
  /\ ioPc = Idle /\ ioBatch = {}
  /\ LET c == epoll[f].ptr
     IN  /\ c \in gone
         /\ "read" \in epoll[f].events
         /\ m_state' = [m_state EXCEPT ![c] = "kDisconnected"]
         /\ LosesInterest(c)
         /\ ioPc' = In("down", c)
  /\ UNCHANGED <<startVars, userHolds, sending, m_connections, ioQueue, ioBatch, baseVars,
                 envVars>>

(* The callback returns; m_closeCB hands the connection to the base loop; the guard
   is dropped last. *)
CloseReturns ==
  /\ IoRunning
  /\ ioPc.in = "down"
  /\ baseQueue' = Append(baseQueue, Functor("remove", ioPc.conn))
  /\ ioPc' = Idle
  /\ UNCHANGED <<startVars, pollerVars, serverVars, ioQueue, ioBatch, baseBatch, envVars>>

-----------------------------------------------------------------------------
(* The user. *)

CountSend == sent < MaxSends /\ sent' = sent + 1

(* send() in a callback. *)
UserSends ==
  /\ ioPc # Idle
  /\ m_state[ioPc.conn] = "kConnected"
  /\ CountSend
  /\ SendInLoop(ioPc.conn, ioQueue)
  /\ UNCHANGED <<startVars, serverVars, ioPc, ioBatch, baseVars, backlog, gone, opened>>

(* send() on another thread, which keeps the user's pointer meanwhile: it reads
   m_state ... *)
BeginSend(c) ==
  /\ server \in {"running", "ended"}
  /\ c \in userHolds \ sending
  /\ m_state[c] = "kConnected"
  /\ CountSend
  /\ sending' = sending \cup {c}
  /\ UNCHANGED <<startVars, pollerVars, m_state, userHolds, m_connections, ioVars, baseVars,
                 backlog, gone, opened>>

(* ... and queues the functor, which binds the bare `this'. *)
QueueSend(c) ==
  /\ c \in sending
  /\ sending' = sending \ {c}
  /\ ioQueue' = Append(ioQueue, Functor("send", c))
  /\ UNCHANGED <<startVars, pollerVars, m_state, userHolds, m_connections, ioPc, ioBatch,
                 baseVars, envVars>>

(* The user drops its TcpConnectionPtr once it was told that the connection is down,
   or when it has destroyed the server. *)
UserDrops(c) ==
  /\ c \in userHolds \ sending
  /\ m_state[c] = "kDisconnected" \/ server = "gone"
  /\ UserWaits => ~HasSend(ioQueue, c)
  /\ userHolds' = userHolds \ {c}
  /\ Drop(c, "user")
  /\ UNCHANGED <<startVars, m_state, sending, m_connections, ioVars, baseVars, envVars>>

(* Peers connect, and close their side. *)
PeerConnects ==
  /\ m_blistenning
  /\ ListenFd \in openFds
  /\ opened < MaxAccepts
  /\ opened' = opened + 1
  /\ backlog' = backlog + 1
  /\ UNCHANGED <<startVars, pollerVars, serverVars, ioVars, baseVars, gone, sent>>

PeerLeaves(c) ==
  /\ Live(c) /\ c \notin gone
  /\ gone' = gone \cup {c}
  /\ UNCHANGED <<startVars, pollerVars, serverVars, ioVars, baseVars, backlog, opened, sent>>

-----------------------------------------------------------------------------
(* The end.  The user lets loop() of the base loop return, joins its other threads,
   and destroys the server and then the base loop. *)
BaseLoopEnds ==
  /\ server = "running"
  /\ baseBatch = {}
  /\ server' = "ended"
  /\ UNCHANGED <<pollerVars, m_started, m_blistenning, serverVars, ioVars, baseVars, envVars>>

(* The body of ~TcpServer queues connectionDestroyed for what is in m_connections, in
   its order.  Then m_connections and the callbacks are destroyed, although the io loop
   may still be in a callback or have functors to call: the connections have copies of
   the callbacks, and removeConnection, which m_closeCB calls, reads m_ploop only, which
   goes last and without effect.  Then ~EventLoopThreadPool quits the io loop. *)
DestroyServer ==
  /\ server = "ended"
  /\ sending = {}
  /\ server' = "joining"
  /\ \E order \in [1 .. Cardinality(m_connections) -> m_connections] :
       /\ \A c \in m_connections : \E i \in DOMAIN order : order[i] = c
       /\ ioQueue' = ioQueue \o [i \in DOMAIN order |-> Functor("destroyed", order[i])]
  /\ m_connections' = {}
  /\ UNCHANGED <<pollerVars, m_started, m_blistenning, m_state, userHolds, sending, ioPc,
                 ioBatch, baseVars, envVars>>

(* Mutant for TeardownCompletes: ~EventLoopThread joins without quit(). *)
NobodyQuits == FALSE

(* The io loop sees m_bquit at the end of an iteration.  (The model has none: it may
   stop with more functors left than EventLoop can.) *)
IoLoopEnds ==
  /\ server = "joining"
  /\ ioPc = Idle /\ ioBatch = {}
  /\ server' = "releasing"
  /\ UNCHANGED <<pollerVars, m_started, m_blistenning, serverVars, ioVars, baseVars, envVars>>

(* Mutant for TeardownClosesDescriptors: functors left in a loop are never released. *)
LeaksFirst(queue, holder) == UNCHANGED pollerVars

(* The first functor that a loop left uncalled is destroyed with the loop. *)
ReleaseFirst(queue, holder) ==
  IF Head(queue).op \notin Holding \/ Holds(Tail(queue), Head(queue).conn)
  THEN UNCHANGED pollerVars
  ELSE Drop(Head(queue).conn, holder)

ReleaseIoFunctor ==
  /\ server = "releasing"
  /\ ioQueue # <<>>
  /\ ReleaseFirst(ioQueue, "ioQueue")
  /\ ioQueue' = Tail(ioQueue)
  /\ UNCHANGED <<startVars, serverVars, ioPc, ioBatch, baseVars, envVars>>

IoThreadJoined ==
  /\ server = "releasing"
  /\ ioQueue = <<>>
  /\ server' = "disabling"
  /\ UNCHANGED <<pollerVars, m_started, m_blistenning, serverVars, ioVars, baseVars, envVars>>

(* Mutant for NoAbort: ~Acceptor without disableAll(). *)
DisablesNothing == UNCHANGED pollerVars

(* ~Acceptor, whether it listened or not: disableAll(), ... *)
DisablesAcceptHandler == DisableAll(AcceptHandler)
AcceptorDisables ==
  /\ server = "disabling"
  /\ DisablesAcceptHandler
  /\ server' = "removing"
  /\ UNCHANGED <<m_started, m_blistenning, serverVars, ioVars, baseVars, envVars>>

(* ... removeHandler(), ... *)
AcceptorRemoves ==
  /\ server = "removing"
  /\ RemoveHandler(AcceptHandler)
  /\ server' = "closing"
  /\ UNCHANGED <<m_started, m_blistenning, serverVars, ioVars, baseVars, envVars>>

(* ... and both descriptors are closed.  Peers that were not accepted are refused. *)
AcceptorCloses ==
  /\ server = "closing"
  /\ server' = "gone"
  /\ handlers' = [handlers EXCEPT ![AcceptHandler] = Nothing]
  /\ openFds' = openFds \ {ListenFd, IdleFd}
  /\ epoll' = [epoll EXCEPT ![ListenFd] = Absent]
  /\ backlog' = 0
  /\ UNCHANGED <<m_handlermap, aborted, m_started, m_blistenning, serverVars, ioVars, baseVars,
                 gone, opened, sent>>

(* ~EventLoop of the base loop. *)
ReleaseBaseFunctor ==
  /\ server = "gone"
  /\ baseQueue # <<>>
  /\ ReleaseFirst(baseQueue, "baseQueue")
  /\ baseQueue' = Tail(baseQueue)
  /\ UNCHANGED <<startVars, serverVars, ioVars, baseBatch, envVars>>

-----------------------------------------------------------------------------
Accept == RefuseConnection \/ \E c \in Conns, f \in Fds : NewConnection(c, f)

IoStep ==
  \/ ConnectionEstablished \/ ConnectionDestroyed \/ DestroyedReturns \/ WriteComplete
  \/ RunSend \/ FunctorReturns \/ CloseReturns
  \/ \E c \in Conns : IoBatchEnds(c)
  \/ \E f \in Fds : CloseEvent(f)

BaseStep == RemoveConnectionInLoop \/ \E c \in Conns : BaseBatchEnds(c)

Teardown ==
  \/ DestroyServer \/ IoLoopEnds \/ ReleaseIoFunctor \/ IoThreadJoined
  \/ AcceptorDisables \/ AcceptorRemoves \/ AcceptorCloses \/ ReleaseBaseFunctor

ServerNext ==
  /\ ~aborted
  /\ \/ Start \/ Listen \/ Accept \/ IoStep \/ BaseStep \/ UserSends \/ PeerConnects
     \/ BaseLoopEnds \/ Teardown
     \/ \E c \in Conns : BeginSend(c) \/ QueueSend(c) \/ UserDrops(c) \/ PeerLeaves(c)

(* Both loops run, the user drops its pointers and finishes its calls of send(), and
   once the base loop has returned the destructors run. *)
ServerSpec ==
  /\ Init /\ [][ServerNext]_vars
  /\ WF_vars(~aborted /\ Accept) /\ WF_vars(~aborted /\ IoStep) /\ WF_vars(~aborted /\ BaseStep)
  /\ WF_vars(~aborted /\ Teardown)
  /\ \A c \in Conns : WF_vars(~aborted /\ UserDrops(c)) /\ WF_vars(~aborted /\ QueueSend(c))
-----------------------------------------------------------------------------
(* Types; EPollPoller!TypeOK has the poller's. *)
ServerTypeOK ==
  /\ TypeOK
  /\ server \in ServerPhases
  /\ m_started \in BOOLEAN /\ m_blistenning \in BOOLEAN
  /\ m_state \in [Conns -> {"kConnecting", "kConnected", "kDisconnected"}]
  /\ userHolds \subseteq Conns /\ sending \subseteq userHolds /\ m_connections \subseteq Conns
  /\ ioQueue \in Seq([op : {"established", "destroyed", "writeComplete", "send"}, conn : Conns])
  /\ ioPc \in {Idle} \cup [in : {"up", "down", "destroyed", "writeComplete"}, conn : Conns]
  /\ baseQueue \in Seq([op : {"remove"}, conn : Conns])
  /\ ioBatch \subseteq Conns /\ baseBatch \subseteq Conns /\ gone \subseteq Conns
  /\ backlog \in 0 .. MaxAccepts /\ opened \in 0 .. MaxAccepts /\ sent \in 0 .. MaxSends

(* While the io loop runs, its poller's map leads to live handlers of that descriptor
   only: if the user keeps its connections, whoever drops the last pointer drops it
   after removeHandler. *)
NoDanglingMapEntry ==
  IoRunning =>
    \A f \in Fds : m_handlermap[f] # NoHandler => handlers[m_handlermap[f]].m_fd = f

(* A connection that is used by a functor, an event or a callback exists, and so does
   one whose bare address waits in a functor, if the user waits. *)
UsedConnectionsLive ==
  \A c \in Conns : Holders(c) # {} \/ HasSend(ioQueue, c) => Live(c)

(* A connection whose peer has left is destroyed and its descriptor closed, so that
   the server does not run out of them. *)
ClosedConnectionFreed == \A c \in Conns : (Live(c) /\ c \in gone) ~> (~Live(c))

(* Every connection that waits is accepted or refused, descriptors or not: the
   level-triggered listening socket does not spin (src/Acceptor.cpp:54-62). *)
BacklogDrains == (backlog > 0) ~> (backlog = 0)

(* Once the base loop has returned, wherever the io loop is, whatever functors are left
   and whoever is inside send(), the destructors get to their end, and as the user lets
   go of its connections every descriptor is closed. *)
TeardownCompletes == server = "ended" ~> openFds = {}

(* Wherever the loops stop, and whatever they leave in their queues, when they and the
   server are gone the descriptors still open are those of connections the user has
   not let go. *)
TeardownClosesDescriptors ==
  server = "gone" /\ baseQueue = <<>> => openFds = {handlers[c].m_fd : c \in userHolds}

(* The assertions of updateHandler and removeHandler (src/EPollPoller.cpp:60-75,
   93-96): a new handler's descriptor is not in the map, and ~Acceptor removes a
   handler without interest, whether it listened or not. *)
NoAbort == ~aborted

(* The loop is inside a connection callback of c. *)
Telling(c) == ioPc.conn = c /\ ioPc.in # "writeComplete"

(* How far the connection at address c has come: the poller has a handler from
   connectionEstablished to the end of connectionDestroyed. *)
Between(c) ==
  CASE m_state[c] = "kConnecting" -> "accepted"
    [] m_state[c] = "kConnected" -> "connected"
    [] m_state[c] = "kDisconnected" ->
         IF handlers[c].m_state = kNew THEN "removed" ELSE "disconnected"

Stage(c) == IF ~Live(c) THEN "none" ELSE IF Telling(c) THEN ioPc.in ELSE Between(c)

(* A connection is a ConnectionLife: each callback comes once and in its turn, as the
   assertions of connectionEstablished and handleClose want it (src/TcpConnection.cpp:164,
   245; line 174 makes a third one of connectionDestroyed), and the connection is
   destroyed only when it is out of the poller, whatever functors of it and of earlier
   connections at its address are under way. *)
Life == INSTANCE ConnectionLife WITH stage <- [c \in Conns |-> Stage(c)], over <- ~IoRunning

ImplementsConnectionLife == Life!Spec
=============================================================================
