--------------------------- MODULE TcpServerProofs ---------------------------
(***************************************************************************)
(* What TcpServer promises, for any addresses and descriptors.  LifeInv    *)
(* asks nothing of the user or of the sockets: connections live exactly as *)
(* long as somebody has a TcpConnectionPtr, the kernel knows live handlers *)
(* only, and the descriptors are accounted for to the end.  ServerInv is   *)
(* for a careful user: then the poller's own invariant (EPollPollerProofs) *)
(* holds as long as the io loop runs, because the last TcpConnectionPtr is *)
(* dropped behind removeHandler, and no assertion fails.                   *)
(***************************************************************************)
EXTENDS TcpServer, EPollPollerProofs, FiniteSetTheorems

(* The user keeps its TcpConnectionPtrs until it is told that they are down, and no
   message is left in an output buffer. *)
CarefulUser == UserKeeps /\ MessagesFit

(* Somebody has a TcpConnectionPtr to c. *)
Held(c) ==
  \/ c \in userHolds \/ c \in ioBatch \/ c \in baseBatch
  \/ Holds(ioQueue, c) \/ Holds(baseQueue, c)
  \/ ioPc.conn = c

(* Exactly the connections that somebody holds exist. *)
LiveIffHeld == \A c \in Conns : Live(c) <=> Held(c)

(* The descriptors that are open are the acceptor's and those of the connections. *)
Descriptors ==
  /\ \A c \in Conns : handlers[c].m_fd \notin {ListenFd, IdleFd}
  /\ \A f \in Fds : f \in openFds <=>
       \/ server # "gone" /\ f \in {ListenFd, IdleFd}
       \/ \E c \in Conns : handlers[c].m_fd = f

(* The acceptor's handler is in the map, or was never registered. *)
AcceptorRegistered ==
  IF server = "gone"
  THEN ~Live(AcceptHandler)
  ELSE LET h == handlers[AcceptHandler]
       IN  /\ h.m_fd = ListenFd
           /\ m_handlermap[ListenFd] = IF h.m_state = kNew THEN NoHandler ELSE AcceptHandler
           /\ server = "removing" => h.m_state # kNew /\ h.m_events = {}

(* What is over in which phase, and that no connection is ever in m_connections. *)
Phases ==
  /\ m_connections = {}
  /\ server # "running" => baseBatch = {}
  /\ server \notin {"running", "ended"} => sending = {}
  /\ ~IoRunning => ioPc = Idle /\ ioBatch = {}
  /\ server \in {"disabling", "removing", "closing", "gone"} => ioQueue = <<>>

(* The user holds a connection until the loop has sent what it was given. *)
SendersWait == \A c \in Conns : HasSend(ioQueue, c) => c \in userHolds

(* Between handleClose and the end of connectionDestroyed. *)
Leaving(c) ==
  \/ ioPc \in {In("down", c), In("destroyed", c)}
  \/ Functor("remove", c) \in Range(baseQueue)
  \/ Functor("destroyed", c) \in Range(ioQueue)

(* A registered connection is up, and then the user has it, or on its way out. *)
Registered ==
  \A c \in Conns : handlers[c].m_state # kNew =>
    Leaving(c) \/ (m_state[c] = "kConnected" /\ c \in userHolds)

(* connectionDestroyed is about to remove a handler that has no interest left. *)
Removable ==
  ioPc.in = "destroyed" =>
    handlers[ioPc.conn].m_state # kNew /\ handlers[ioPc.conn].m_events = {}

(* The functors that carry a connection from one stage to the next. *)
Starting(c)   == Functor("established", c) \in Range(ioQueue)
Inside(c)     == ioPc \in {In("down", c), In("destroyed", c)}
Removing(c)   == Functor("remove", c) \in Range(baseQueue)
Destroying(c) == Functor("destroyed", c) \in Range(ioQueue)

OneWayOut(c) ==
  ~(Inside(c) /\ Removing(c)) /\ ~(Inside(c) /\ Destroying(c)) /\ ~(Removing(c) /\ Destroying(c))

(* Which of them a connection has is what its state and its handler's say. *)
Ordered(c) ==
  /\ Live(c) => (m_state[c] = "kConnecting" <=> Starting(c))
  /\ Starting(c) => handlers[c].m_state = kNew
  /\ Live(c) /\ m_state[c] = "kConnected" => handlers[c].m_state # kNew
  /\ Leaving(c) => /\ m_state[c] = "kDisconnected"
                   /\ handlers[c].m_state # kNew /\ handlers[c].m_events = {}
  /\ OneWayOut(c)

(* A queue has each functor of these at most once. *)
Once(queue, ops) ==
  \A i, j \in DOMAIN queue : queue[i] = queue[j] /\ queue[i].op \in ops => i = j

InOrder ==
  /\ Once(ioQueue, {"established", "destroyed"}) /\ Once(baseQueue, {"remove"})
  /\ \A c \in Conns : Ordered(c)

(* The callback that says a connection is up runs while it is. *)
UpWhenTold == ioPc.in = "up" => m_state[ioPc.conn] = "kConnected"

(* What the kernel hands back is a handler that exists, of that descriptor. *)
KernelLive ==
  \A f \in Fds : epoll[f] # Absent =>
    epoll[f].ptr \in Handlers /\ handlers[epoll[f].ptr].m_fd = f

(* The part that holds whoever uses the server how. *)
LifeInv ==
  /\ ServerTypeOK
  /\ backlog <= opened
  /\ Ownership
  /\ LiveIffHeld
  /\ Descriptors
  /\ AcceptorRegistered
  /\ KernelLive
  /\ Phases

ServerInv ==
  /\ LifeInv
  /\ NoAbort
  /\ IoRunning => IInv /\ Registered /\ Removable

-----------------------------------------------------------------------------
(* Sequences as sets of functors. *)

LEMMA RangeAppend ==
  ASSUME NEW S, NEW q \in Seq(S), NEW e \in S
  PROVE  Range(Append(q, e)) = Range(q) \cup {e}
<1>1. /\ DOMAIN Append(q, e) = DOMAIN q \cup {Len(q) + 1}
      /\ \A i \in DOMAIN q : Append(q, e)[i] = q[i]
      /\ Append(q, e)[Len(q) + 1] = e
  OBVIOUS
<1> QED
  BY <1>1 DEF Range

LEMMA RangeTail ==
  ASSUME NEW S, NEW q \in Seq(S), q # <<>>
  PROVE  Range(q) = Range(Tail(q)) \cup {Head(q)}
<1>1. /\ \A i \in DOMAIN Tail(q) : i + 1 \in DOMAIN q /\ Tail(q)[i] = q[i + 1]
      /\ \A i \in DOMAIN q : i = 1 \/ (i - 1 \in DOMAIN Tail(q) /\ q[i] = Tail(q)[i - 1])
      /\ 1 \in DOMAIN q /\ Head(q) = q[1]
  OBVIOUS
<1>2. Range(Tail(q)) \cup {Head(q)} \subseteq Range(q)
  BY <1>1 DEF Range
<1>3. ASSUME NEW e \in Range(q)  PROVE e \in Range(Tail(q)) \cup {Head(q)}
  <2>1. PICK i \in DOMAIN q : e = q[i]
    BY DEF Range
  <2> QED
    BY <1>1, <2>1 DEF Range
<1> QED
  BY <1>2, <1>3

Functors == [op : {"established", "destroyed", "writeComplete", "send"}, conn : Conns]
Removals == [op : {"remove"}, conn : Conns]

(* What a queue holds behind an Append, and in front of a Tail. *)
LEMMA HoldsAppend ==
  ASSUME NEW S, NEW q \in Seq(S), NEW op, NEW d, Functor(op, d) \in S, NEW c
  PROVE  /\ Holds(Append(q, Functor(op, d)), c) <=> Holds(q, c) \/ (d = c /\ op \in Holding)
         /\ \A name, e : Functor(name, e) \in Range(Append(q, Functor(op, d)))
               <=> Functor(name, e) \in Range(q) \/ (name = op /\ e = d)
<1>1. Range(Append(q, Functor(op, d))) = Range(q) \cup {Functor(op, d)}
  BY RangeAppend
<1>2. Functor(op, d).conn = d /\ Functor(op, d).op = op
  BY DEF Functor
<1>3. \A name, e : Functor(name, e) = Functor(op, d) <=> name = op /\ e = d
  BY DEF Functor
<1> QED
  BY <1>1, <1>2, <1>3 DEF Holds

LEMMA HoldsTail ==
  ASSUME NEW S, NEW q \in Seq(S), q # <<>>, NEW c
  PROVE  /\ Holds(q, c) <=> Holds(Tail(q), c) \/ (Head(q).conn = c /\ Head(q).op \in Holding)
         /\ \A functor : functor \in Range(q) <=> functor \in Range(Tail(q)) \/ functor = Head(q)
         /\ Tail(q) \in Seq(S) /\ Head(q) \in S
<1>1. Range(q) = Range(Tail(q)) \cup {Head(q)}
  BY RangeTail
<1> QED
  BY <1>1 DEF Holds

LEMMA HoldsEmpty == \A c, functor : ~Holds(<<>>, c) /\ functor \notin Range(<<>>)
BY DEF Holds, Range

(* Who else must hold c for `holder' not to be the last. *)
LEMMA LastHolder ==
  ASSUME Phases, NEW c \in Conns
  PROVE  /\ Holders(c) \subseteq {"user"} <=>
              ~(c \in ioBatch \/ c \in baseBatch \/ Holds(ioQueue, c) \/ Holds(baseQueue, c)
                  \/ ioPc.conn = c)
         /\ Holders(c) \subseteq {"ioBatch"} <=>
              ~(c \in userHolds \/ c \in baseBatch \/ Holds(ioQueue, c) \/ Holds(baseQueue, c)
                  \/ ioPc.conn = c)
         /\ Holders(c) \subseteq {"baseBatch"} <=>
              ~(c \in userHolds \/ c \in ioBatch \/ Holds(ioQueue, c) \/ Holds(baseQueue, c)
                  \/ ioPc.conn = c)
         /\ Holders(c) \subseteq {"ioQueue"} <=>
              ~(c \in userHolds \/ c \in ioBatch \/ c \in baseBatch \/ Holds(baseQueue, c)
                  \/ ioPc.conn = c)
         /\ Holders(c) \subseteq {"baseQueue"} <=>
              ~(c \in userHolds \/ c \in ioBatch \/ c \in baseBatch \/ Holds(ioQueue, c)
                  \/ ioPc.conn = c)
<1>1. /\ "user" \in Holders(c) <=> c \in userHolds
      /\ "ioBatch" \in Holders(c) <=> c \in ioBatch
      /\ "baseBatch" \in Holders(c) <=> c \in baseBatch
      /\ "ioQueue" \in Holders(c) <=> Holds(ioQueue, c)
      /\ "baseQueue" \in Holders(c) <=> Holds(baseQueue, c)
      /\ "ioPc" \in Holders(c) <=> ioPc.conn = c
  BY DEF Holders
<1>2. Holders(c) \subseteq {"user", "ioBatch", "baseBatch", "ioQueue", "baseQueue", "ioPc"}
  BY DEF Phases, Holders
<1> QED
  BY <1>1, <1>2

-----------------------------------------------------------------------------
(* The poller's operations, from a state in which only the types and Ownership are
   known: the io loop may have ended. *)

LEMMA UpdateStep ==
  ASSUME TypeOK, Ownership, NEW h \in Handlers, Live(h), UpdateAsserts(h),
         NEW events \in SUBSET Flags, Update(h, events)
  PROVE  /\ TypeOK' /\ Ownership' /\ UNCHANGED <<openFds, aborted>>
         /\ m_handlermap' = [m_handlermap EXCEPT ![handlers[h].m_fd] = h]
         /\ handlers'[h].m_events = events /\ handlers'[h].m_state # kNew
         /\ \A g \in Handlers : handlers'[g].m_fd = handlers[g].m_fd
         /\ \A g \in Handlers : g # h => handlers'[g] = handlers[g]
         /\ \A k \in Fds : \/ epoll'[k] \in {epoll[k], Absent}
                           \/ k = handlers[h].m_fd /\ epoll'[k].ptr = h
<1> DEFINE s == StateAfterUpdate(h, events)
           f == handlers[h].m_fd
<1>1. s \in {kAdded, kDeleted}
  BY DEF StateAfterUpdate
<1>2. f \in Fds
  BY DEF TypeOK, Live
<1>3. epoll' \in [Fds -> [ptr : Handlers \cup {NoHandler}, events : SUBSET Flags]]
  <2> DEFINE Entries == [ptr : Handlers \cup {NoHandler}, events : SUBSET Flags]
  <2>1. Absent \in Entries /\ [ptr |-> h, events |-> events] \in Entries /\ epoll \in [Fds -> Entries]
    BY DEF Absent, TypeOK
  <2>2. epoll' = EpollAfter(Operation(h, events), f, h, events)
    BY DEF Update
  <2> HIDE DEF Entries, f
  <2>3. epoll' \in [Fds -> Entries]
    BY <2>1, <2>2 DEF EpollAfter
  <2> QED
    BY <2>3 DEF Entries
<1>4. /\ handlers' = [handlers EXCEPT ![h].m_events = events, ![h].m_state = s]
      /\ m_handlermap' = [m_handlermap EXCEPT ![f] = h]
      /\ UNCHANGED <<openFds, aborted>>
  BY DEF Update
<1> HIDE DEF s
<1>5. TypeOK'
  <2>1. handlers' \in [Handlers -> [m_fd : Fds \cup {NoFd}, m_events : SUBSET Flags,
                                   m_state : {kNew, kAdded, kDeleted}]]
    BY <1>1, <1>4, ZenonT(30) DEF TypeOK
  <2>2. m_handlermap' \in [Fds -> Handlers \cup {NoHandler}]
    BY <1>2, <1>4 DEF TypeOK
  <2> QED
    BY <1>3, <1>4, <2>1, <2>2 DEF TypeOK
<1>6. /\ handlers'[h] = [m_fd |-> f, m_events |-> events, m_state |-> s]
      /\ \A g \in Handlers : handlers'[g].m_fd = handlers[g].m_fd
      /\ \A g \in Handlers : g # h => handlers'[g] = handlers[g]
  BY <1>4, ZenonT(30) DEF TypeOK
<1>7. Ownership'
  <2>1. \A g \in Handlers : handlers'[g].m_fd = NoFd => handlers'[g] = Nothing
    <3>1. handlers'[h].m_fd # NoFd
      BY <1>6 DEF Live
    <3> QED
      BY <1>6, <3>1 DEF Ownership
  <2>2. \A g \in Handlers : handlers'[g].m_fd # NoFd => handlers'[g].m_fd \in openFds'
    <3>1. openFds' = openFds
      BY <1>4
    <3> QED
      BY <1>6, <3>1 DEF Ownership
  <2>3. \A g, k \in Handlers :
          handlers'[g].m_fd # NoFd /\ handlers'[g].m_fd = handlers'[k].m_fd => g = k
    BY <1>6 DEF Ownership
  <2> QED
    BY <2>1, <2>2, <2>3, Zenon DEF Ownership, Nothing, kNew
<1>8. handlers'[h].m_events = events /\ handlers'[h].m_state = s
  BY <1>6
<1>9. s # kNew
  BY <1>1 DEF kNew, kAdded, kDeleted
<1>10. ASSUME NEW k \in Fds
       PROVE  epoll'[k] \in {epoll[k], Absent} \/ (k = f /\ epoll'[k].ptr = h)
  <2>1. epoll' = EpollAfter(Operation(h, events), f, h, events) /\ DOMAIN epoll = Fds
    BY DEF Update, TypeOK
  <2> QED
    BY <2>1, <1>2 DEF EpollAfter
<1>11. \A k \in Fds : \/ epoll'[k] \in {epoll[k], Absent}
                      \/ k = handlers[h].m_fd /\ epoll'[k].ptr = h
  BY <1>10
<1>12. handlers'[h].m_state # kNew
  BY <1>8, <1>9
<1> QED
  BY <1>4, <1>5, <1>6, <1>7, <1>8, <1>11, <1>12, Zenon

LEMMA RemoveStep ==
  ASSUME TypeOK, Ownership, NEW h \in Handlers, Live(h), RemoveAsserts(h), RemoveHandler(h)
  PROVE  /\ TypeOK' /\ Ownership' /\ UNCHANGED <<openFds, aborted>>
         /\ m_handlermap' = [m_handlermap EXCEPT ![handlers[h].m_fd] = NoHandler]
         /\ handlers'[h].m_state = kNew
         /\ \A g \in Handlers : handlers'[g].m_fd = handlers[g].m_fd
         /\ \A g \in Handlers : g # h => handlers'[g] = handlers[g]
         /\ \A k \in Fds : epoll'[k] \in {epoll[k], Absent}
<1> DEFINE f == handlers[h].m_fd
<1>1. f \in Fds
  BY DEF TypeOK, Live
<1>2. epoll' \in [Fds -> [ptr : Handlers \cup {NoHandler}, events : SUBSET Flags]]
  BY <1>1 DEF RemoveHandler, EpollAfterRemove, EpollAfter, TypeOK, Absent
<1>3. /\ handlers' = [handlers EXCEPT ![h].m_state = kNew]
      /\ m_handlermap' = [m_handlermap EXCEPT ![f] = NoHandler]
      /\ UNCHANGED <<openFds, aborted>>
  BY DEF RemoveHandler, MapAfterRemove
<1>4. TypeOK'
  BY <1>1, <1>2, <1>3, ZenonT(30) DEF TypeOK
<1>5. /\ handlers'[h].m_state = kNew
      /\ \A g \in Handlers : handlers'[g].m_fd = handlers[g].m_fd
      /\ \A g \in Handlers : g # h => handlers'[g] = handlers[g]
  BY <1>3 DEF TypeOK
<1>6. Ownership'
  <2>1. \A g \in Handlers : handlers'[g].m_fd = NoFd => handlers'[g] = Nothing
    BY <1>5 DEF Ownership, Live
  <2>2. \A g \in Handlers : handlers'[g].m_fd # NoFd => handlers'[g].m_fd \in openFds'
    BY <1>3, <1>5 DEF Ownership
  <2>3. \A g, k \in Handlers :
          handlers'[g].m_fd # NoFd /\ handlers'[g].m_fd = handlers'[k].m_fd => g = k
    BY <1>5 DEF Ownership
  <2> QED
    BY <2>1, <2>2, <2>3, Zenon DEF Ownership, Nothing, kNew
<1>7. \A k \in Fds : epoll'[k] \in {epoll[k], Absent}
  BY <1>1 DEF RemoveHandler, EpollAfterRemove, EpollAfter, TypeOK
<1> QED
  BY <1>3, <1>4, <1>5, <1>6, <1>7

LEMMA ConstructStep ==
  ASSUME TypeOK, Ownership, NEW h \in Handlers, NEW f \in Fds, ConstructHandler(h, f)
  PROVE  /\ TypeOK' /\ Ownership' /\ UNCHANGED <<m_handlermap, epoll, aborted>>
         /\ ~Live(h) /\ f \notin openFds /\ openFds' = openFds \cup {f}
         /\ handlers'[h].m_fd = f /\ handlers'[h].m_state = kNew
         /\ \A g \in Handlers : g # h => handlers'[g] = handlers[g]
<1>1. /\ ~Live(h) /\ f \notin openFds /\ openFds' = openFds \cup {f}
      /\ UNCHANGED <<m_handlermap, epoll, aborted>>
  BY DEF ConstructHandler
<1>2. /\ handlers'[h] = [m_fd |-> f, m_events |-> {}, m_state |-> kNew]
      /\ \A g \in Handlers : g # h => handlers'[g] = handlers[g]
  BY DEF ConstructHandler, TypeOK, Nothing
<1>3. TypeOK'
  BY <1>1 DEF ConstructHandler, TypeOK, Nothing
<1>4. Ownership'
  <2>1. f # NoFd /\ \A g \in Handlers : handlers[g].m_fd # f
    BY <1>1, EPollPollerAssumption DEF Ownership
  <2>2. \A g \in Handlers : handlers'[g].m_fd = NoFd => handlers'[g] = Nothing
    BY <1>2, <2>1 DEF Ownership
  <2>3. \A g \in Handlers : handlers'[g].m_fd # NoFd => handlers'[g].m_fd \in openFds'
    BY <1>1, <1>2 DEF Ownership
  <2>4. \A g, k \in Handlers :
          handlers'[g].m_fd # NoFd /\ handlers'[g].m_fd = handlers'[k].m_fd => g = k
    BY <1>2, <2>1 DEF Ownership
  <2> QED
    BY <2>2, <2>3, <2>4, Zenon DEF Ownership, Nothing, kNew
<1> QED
  BY <1>1, <1>2, <1>3, <1>4

LEMMA DestroyStep ==
  ASSUME TypeOK, Ownership, NEW h \in Handlers, Live(h), DestroyConnection(h)
  PROVE  /\ TypeOK' /\ Ownership' /\ UNCHANGED <<m_handlermap, aborted>>
         /\ openFds' = openFds \ {handlers[h].m_fd}
         /\ epoll' = [epoll EXCEPT ![handlers[h].m_fd] = Absent]
         /\ handlers' = [handlers EXCEPT ![h] = Nothing]
<1>1. /\ handlers' = [handlers EXCEPT ![h] = Nothing]
      /\ openFds' = openFds \ {handlers[h].m_fd}
      /\ epoll' = [epoll EXCEPT ![handlers[h].m_fd] = Absent]
      /\ UNCHANGED <<m_handlermap, aborted>>
  BY DEF DestroyConnection, TypeOK
<1>2. TypeOK'
  BY <1>1 DEF TypeOK, Absent, Nothing
<1>3. handlers'[h] = Nothing /\ \A g \in Handlers : g # h => handlers'[g] = handlers[g]
  BY <1>1 DEF TypeOK
<1>4. Ownership'
  <2>1. Nothing.m_fd = NoFd
    BY DEF Nothing
  <2>2. \A g \in Handlers : handlers'[g].m_fd = NoFd => handlers'[g] = Nothing
    BY <1>3 DEF Ownership
  <2>3. \A g \in Handlers : handlers'[g].m_fd # NoFd => handlers'[g].m_fd \in openFds'
    BY <1>1, <1>3, <2>1 DEF Ownership
  <2>4. \A g, k \in Handlers :
          handlers'[g].m_fd # NoFd /\ handlers'[g].m_fd = handlers'[k].m_fd => g = k
    BY <1>3, <2>1 DEF Ownership
  <2> QED
    BY <2>2, <2>3, <2>4, Zenon DEF Ownership, Nothing, kNew
<1> QED
  BY <1>1, <1>2, <1>4

-----------------------------------------------------------------------------
(* What those operations leave of the descriptors, of the acceptor's registration and
   of what the kernel knows; an assertion that fails leaves everything. *)
Fixtures == TypeOK /\ Ownership /\ Descriptors /\ AcceptorRegistered /\ KernelLive

LEMMA KernelFixture ==
  ASSUME KernelLive, NEW h \in Handlers,
         \A g \in Handlers : handlers'[g].m_fd = handlers[g].m_fd,
         \A k \in Fds : \/ epoll'[k] \in {epoll[k], Absent}
                        \/ k = handlers[h].m_fd /\ epoll'[k].ptr = h
  PROVE  KernelLive'
BY DEF KernelLive

LEMMA QuietFixtures ==
  ASSUME Fixtures, UNCHANGED <<handlers, m_handlermap, epoll, openFds>>, aborted' \in BOOLEAN,
         server' = server \/ (server \notin {"closing", "gone"}
                               /\ server' \in {"ended", "joining", "releasing", "disabling"})
  PROVE  Fixtures'
<1>1. TypeOK' /\ Ownership' /\ KernelLive'
  BY DEF Fixtures, TypeOK, Ownership, KernelLive
<1>2. Descriptors'
  BY DEF Fixtures, Descriptors
<1>3. AcceptorRegistered'
  BY DEF Fixtures, AcceptorRegistered, Live
<1> QED
  BY <1>1, <1>2, <1>3 DEF Fixtures

LEMMA UpdateFixtures ==
  ASSUME Fixtures, NEW c \in Conns, Live(c), NEW events \in SUBSET Flags,
         Update(c, events), server' = server
  PROVE  /\ Fixtures'
         /\ \A g \in Handlers : handlers'[g].m_fd = handlers[g].m_fd
<1> USE TcpServerAssumption
<1>1. c \in Handlers /\ c # AcceptHandler
  BY DEF Conns
<1>2. CASE UpdateAsserts(c)
  <2>1. /\ TypeOK' /\ Ownership' /\ UNCHANGED <<openFds, aborted>>
        /\ m_handlermap' = [m_handlermap EXCEPT ![handlers[c].m_fd] = c]
        /\ \A g \in Handlers : handlers'[g].m_fd = handlers[g].m_fd
        /\ \A g \in Handlers : g # c => handlers'[g] = handlers[g]
        /\ \A k \in Fds : \/ epoll'[k] \in {epoll[k], Absent}
                          \/ k = handlers[c].m_fd /\ epoll'[k].ptr = c
    BY <1>1, <1>2, UpdateStep DEF Fixtures
  <2>2. Descriptors'
    BY <2>1 DEF Fixtures, Descriptors, Conns
  <2>3. handlers[c].m_fd # ListenFd
    BY DEF Fixtures, Descriptors
  <2>4. m_handlermap'[ListenFd] = m_handlermap[ListenFd]
    BY <2>1, <2>3 DEF Fixtures, TypeOK
  <2>5. AcceptorRegistered'
    BY <1>1, <2>1, <2>4 DEF Fixtures, AcceptorRegistered, Live
  <2>6. KernelLive'
    BY <1>1, <2>1, KernelFixture DEF Fixtures
  <2> QED
    BY <2>1, <2>2, <2>5, <2>6 DEF Fixtures
<1>3. CASE ~UpdateAsserts(c)
  <2>1. aborted' = TRUE /\ UNCHANGED <<handlers, m_handlermap, epoll, openFds>>
    BY <1>3 DEF Update
  <2> QED
    BY <2>1, QuietFixtures
<1> QED
  BY <1>2, <1>3

LEMMA RemoveFixtures ==
  ASSUME Fixtures, NEW c \in Conns, Live(c), RemoveHandler(c), server' = server
  PROVE  /\ Fixtures'
         /\ \A g \in Handlers : handlers'[g].m_fd = handlers[g].m_fd
<1> USE TcpServerAssumption
<1>1. c \in Handlers /\ c # AcceptHandler
  BY DEF Conns
<1>2. CASE RemoveAsserts(c)
  <2>1. /\ TypeOK' /\ Ownership' /\ UNCHANGED <<openFds, aborted>>
        /\ m_handlermap' = [m_handlermap EXCEPT ![handlers[c].m_fd] = NoHandler]
        /\ \A g \in Handlers : handlers'[g].m_fd = handlers[g].m_fd
        /\ \A g \in Handlers : g # c => handlers'[g] = handlers[g]
        /\ \A k \in Fds : epoll'[k] \in {epoll[k], Absent}
    BY <1>1, <1>2, RemoveStep DEF Fixtures
  <2>2. Descriptors'
    BY <2>1 DEF Fixtures, Descriptors, Conns
  <2>3. handlers[c].m_fd # ListenFd
    BY DEF Fixtures, Descriptors
  <2>4. m_handlermap'[ListenFd] = m_handlermap[ListenFd]
    BY <2>1, <2>3 DEF Fixtures, TypeOK
  <2>5. AcceptorRegistered'
    BY <1>1, <2>1, <2>4 DEF Fixtures, AcceptorRegistered, Live
  <2>6. KernelLive'
    BY <1>1, <2>1, KernelFixture DEF Fixtures
  <2> QED
    BY <2>1, <2>2, <2>5, <2>6 DEF Fixtures
<1>3. CASE ~RemoveAsserts(c)
  <2>1. aborted' = TRUE /\ UNCHANGED <<handlers, m_handlermap, epoll, openFds>>
    BY <1>3 DEF RemoveHandler
  <2> QED
    BY <2>1, QuietFixtures
<1> QED
  BY <1>2, <1>3

LEMMA ConstructFixtures ==
  ASSUME Fixtures, NEW c \in Conns, NEW f \in Fds, ConstructHandler(c, f),
         server = "running", server' = server
  PROVE  Fixtures'
<1> USE TcpServerAssumption
<1>1. c \in Handlers /\ c # AcceptHandler
  BY DEF Conns
<1>2. /\ TypeOK' /\ Ownership' /\ UNCHANGED <<m_handlermap, epoll, aborted>>
      /\ ~Live(c) /\ f \notin openFds /\ openFds' = openFds \cup {f}
      /\ handlers'[c].m_fd = f
      /\ \A g \in Handlers : g # c => handlers'[g] = handlers[g]
  BY <1>1, ConstructStep DEF Fixtures
<1>3. ListenFd \in openFds /\ IdleFd \in openFds
  BY DEF Fixtures, Descriptors
<1>4. \A d \in Conns : handlers'[d].m_fd \notin {ListenFd, IdleFd}
  BY <1>2, <1>3 DEF Fixtures, Descriptors, Conns
<1>5. ASSUME NEW k \in Fds
      PROVE  k \in openFds' <=> k \in {ListenFd, IdleFd} \/ \E d \in Conns : handlers'[d].m_fd = k
  <2>1. k \in openFds <=> k \in {ListenFd, IdleFd} \/ \E d \in Conns : handlers[d].m_fd = k
    BY DEF Fixtures, Descriptors
  <2>2. handlers[c].m_fd # k
    BY <1>2, EPollPollerAssumption DEF Live
  <2>3. (\E d \in Conns : handlers'[d].m_fd = k)
          <=> k = f \/ \E d \in Conns : handlers[d].m_fd = k
    BY <1>1, <1>2, <2>2 DEF Conns
  <2> QED
    BY <1>2, <2>1, <2>3
<1>6. AcceptorRegistered'
  BY <1>1, <1>2 DEF Fixtures, AcceptorRegistered, Live
<1>7. KernelLive'
  <2>1. \A k \in Fds : epoll[k] # Absent => epoll[k].ptr \in Handlers /\ epoll[k].ptr # c
    BY <1>2, EPollPollerAssumption DEF Fixtures, KernelLive, Live
  <2> QED
    BY <1>2, <2>1 DEF Fixtures, KernelLive
<1> QED
  BY <1>2, <1>4, <1>5, <1>6, <1>7 DEF Fixtures, Descriptors

(* ... and of a connection that is destroyed, or not. *)
LEMMA DropFixtures ==
  ASSUME Fixtures, NEW c \in Conns, Live(c), NEW holder, Drop(c, holder), server' = server
  PROVE  /\ Fixtures'
         /\ Holders(c) \subseteq {holder} => ~Live(c)' /\ DestroyConnection(c)
         /\ ~(Holders(c) \subseteq {holder}) => UNCHANGED pollerVars
         /\ \A g \in Handlers : g # c => handlers'[g] = handlers[g]
<1> USE TcpServerAssumption
<1>1. c \in Handlers /\ c # AcceptHandler
  BY DEF Conns
<1>2. CASE Holders(c) \subseteq {holder}
  <2>1. DestroyConnection(c)
    BY <1>2 DEF Drop
  <2>2. /\ TypeOK' /\ Ownership' /\ UNCHANGED <<m_handlermap, aborted>>
        /\ openFds' = openFds \ {handlers[c].m_fd}
        /\ epoll' = [epoll EXCEPT ![handlers[c].m_fd] = Absent]
        /\ handlers' = [handlers EXCEPT ![c] = Nothing]
    BY <1>1, <2>1, DestroyStep DEF Fixtures
  <2>3. /\ handlers'[c].m_fd = NoFd
        /\ \A g \in Handlers : g # c => handlers'[g] = handlers[g]
    BY <1>1, <2>2 DEF Fixtures, TypeOK, Nothing
  <2>4. \A d \in Conns : handlers'[d].m_fd \notin {ListenFd, IdleFd}
    BY <2>3, EPollPollerAssumption DEF Fixtures, Descriptors, Conns
  <2>5. ASSUME NEW k \in Fds
        PROVE  k \in openFds' <=> \/ server # "gone" /\ k \in {ListenFd, IdleFd}
                                 \/ \E d \in Conns : handlers'[d].m_fd = k
    <3>1. k \in openFds <=> \/ server # "gone" /\ k \in {ListenFd, IdleFd}
                           \/ \E d \in Conns : handlers[d].m_fd = k
      BY DEF Fixtures, Descriptors
    <3>2. \A d \in Conns : d # c => handlers[d].m_fd # handlers[c].m_fd
      BY DEF Fixtures, Ownership, Live, Conns
    <3>3. (\E d \in Conns : handlers'[d].m_fd = k)
            <=> k # handlers[c].m_fd /\ \E d \in Conns : handlers[d].m_fd = k
      BY <2>3, <3>2, EPollPollerAssumption DEF Conns
    <3>4. handlers[c].m_fd \notin {ListenFd, IdleFd}
      BY DEF Fixtures, Descriptors
    <3> QED
      BY <2>2, <3>1, <3>3, <3>4
  <2>6. AcceptorRegistered'
    BY <1>1, <2>2, <2>3 DEF Fixtures, AcceptorRegistered, Live
  <2>7. KernelLive'
    <3>1. \A k \in Fds : epoll'[k] # Absent => epoll'[k] = epoll[k] /\ k # handlers[c].m_fd
      BY <2>2 DEF Fixtures, TypeOK
    <3>2. \A k \in Fds : epoll'[k] # Absent => epoll[k].ptr \in Handlers /\ epoll[k].ptr # c
      BY <3>1 DEF Fixtures, KernelLive
    <3> QED
      BY <2>3, <3>1, <3>2 DEF Fixtures, KernelLive
  <2> QED
    BY <1>2, <2>1, <2>2, <2>3, <2>4, <2>5, <2>6, <2>7 DEF Fixtures, Descriptors, Live
<1>3. CASE ~(Holders(c) \subseteq {holder})
  <2>1. UNCHANGED pollerVars
    BY <1>3 DEF Drop
  <2> QED
    BY <1>3, <2>1, QuietFixtures DEF pollerVars, Fixtures, TypeOK
<1> QED
  BY <1>2, <1>3

(* The acceptor's own handler. *)
LEMMA UpdateAcceptor ==
  ASSUME Fixtures, server # "gone", NEW events \in SUBSET Flags, Update(AcceptHandler, events),
         server' \in {server, "removing"} \ {"gone"}, server' = "removing" => events = {}
  PROVE  Fixtures' /\ aborted' = aborted
<1> USE TcpServerAssumption
<1> DEFINE h == AcceptHandler
<1>1. /\ h \in Handlers /\ handlers[h].m_fd = ListenFd /\ Live(h)
      /\ m_handlermap[ListenFd] = IF handlers[h].m_state = kNew THEN NoHandler ELSE h
  BY EPollPollerAssumption DEF Fixtures, AcceptorRegistered, Live
<1>2. UpdateAsserts(h)
  BY <1>1 DEF UpdateAsserts
<1>3. /\ TypeOK' /\ Ownership' /\ UNCHANGED <<openFds, aborted>>
      /\ m_handlermap' = [m_handlermap EXCEPT ![handlers[h].m_fd] = h]
      /\ handlers'[h].m_events = events /\ handlers'[h].m_state # kNew
      /\ \A g \in Handlers : handlers'[g].m_fd = handlers[g].m_fd
      /\ \A k \in Fds : \/ epoll'[k] \in {epoll[k], Absent}
                        \/ k = handlers[h].m_fd /\ epoll'[k].ptr = h
  BY <1>1, <1>2, UpdateStep DEF Fixtures
<1>4. Descriptors'
  BY <1>3 DEF Fixtures, Descriptors, Conns
<1>5. m_handlermap'[ListenFd] = h
  BY <1>1, <1>3 DEF Fixtures, TypeOK
<1>6. AcceptorRegistered'
  BY <1>1, <1>3, <1>5 DEF AcceptorRegistered
<1>7. KernelLive'
  BY <1>1, <1>3, KernelFixture DEF Fixtures
<1> QED
  BY <1>3, <1>4, <1>6, <1>7 DEF Fixtures

LEMMA RemoveAcceptor ==
  ASSUME Fixtures, AcceptorRemoves
  PROVE  Fixtures' /\ aborted' = aborted
<1> USE TcpServerAssumption
<1> DEFINE h == AcceptHandler
<1>1. /\ h \in Handlers /\ handlers[h].m_fd = ListenFd /\ Live(h)
      /\ handlers[h].m_state # kNew /\ handlers[h].m_events = {} /\ m_handlermap[ListenFd] = h
      /\ server = "removing" /\ server' = "closing"
  BY EPollPollerAssumption DEF Fixtures, AcceptorRegistered, Live, AcceptorRemoves
<1>2. RemoveAsserts(h)
  BY <1>1 DEF RemoveAsserts, Fixtures, TypeOK
<1>3. /\ TypeOK' /\ Ownership' /\ UNCHANGED <<openFds, aborted>>
      /\ m_handlermap' = [m_handlermap EXCEPT ![handlers[h].m_fd] = NoHandler]
      /\ handlers'[h].m_state = kNew
      /\ \A g \in Handlers : handlers'[g].m_fd = handlers[g].m_fd
      /\ \A k \in Fds : epoll'[k] \in {epoll[k], Absent}
  BY <1>1, <1>2, RemoveStep DEF Fixtures, AcceptorRemoves
<1>4. Descriptors'
  BY <1>1, <1>3 DEF Fixtures, Descriptors, Conns
<1>5. m_handlermap'[ListenFd] = NoHandler
  BY <1>1, <1>3 DEF Fixtures, TypeOK
<1>6. AcceptorRegistered'
  BY <1>1, <1>3, <1>5 DEF AcceptorRegistered
<1>7. KernelLive'
  BY <1>1, <1>3, KernelFixture DEF Fixtures
<1> QED
  BY <1>3, <1>4, <1>6, <1>7 DEF Fixtures

LEMMA CloseAcceptor ==
  ASSUME Fixtures, AcceptorCloses
  PROVE  Fixtures'
<1> USE TcpServerAssumption
<1> DEFINE h == AcceptHandler
<1>1. /\ server = "closing" /\ server' = "gone"
      /\ handlers' = [handlers EXCEPT ![h] = Nothing]
      /\ openFds' = openFds \ {ListenFd, IdleFd}
      /\ epoll' = [epoll EXCEPT ![ListenFd] = Absent]
      /\ UNCHANGED <<m_handlermap, aborted>>
  BY DEF AcceptorCloses
<1>2. /\ handlers'[h] = Nothing /\ Nothing.m_fd = NoFd
      /\ \A g \in Handlers : g # h => handlers'[g] = handlers[g]
  BY <1>1 DEF Fixtures, TypeOK, Nothing
<1>3. TypeOK'
  BY <1>1 DEF Fixtures, TypeOK, Nothing, Absent
<1>4. \A g \in Handlers : g # h => handlers[g].m_fd \notin {ListenFd, IdleFd}
  BY DEF Fixtures, Descriptors, Conns
<1>5. Ownership'
  <2>1. \A g \in Handlers : handlers'[g].m_fd = NoFd => handlers'[g] = Nothing
    BY <1>2 DEF Fixtures, Ownership
  <2>2. \A g \in Handlers : handlers'[g].m_fd # NoFd => handlers'[g].m_fd \in openFds'
    BY <1>1, <1>2, <1>4 DEF Fixtures, Ownership
  <2>3. \A g, k \in Handlers :
          handlers'[g].m_fd # NoFd /\ handlers'[g].m_fd = handlers'[k].m_fd => g = k
    BY <1>2 DEF Fixtures, Ownership
  <2> QED
    BY <2>1, <2>2, <2>3, Zenon DEF Ownership, Nothing, kNew
<1>6. Descriptors'
  <2>1. \A c \in Conns : handlers'[c] = handlers[c]
    BY <1>2 DEF Conns
  <2>2. \A c \in Conns : handlers[c].m_fd \notin {ListenFd, IdleFd}
    BY DEF Fixtures, Descriptors
  <2>3. \A f \in Fds : f \in openFds <=>
          f \in {ListenFd, IdleFd} \/ \E c \in Conns : handlers[c].m_fd = f
    BY <1>1 DEF Fixtures, Descriptors
  <2> QED
    BY <1>1, <2>1, <2>2, <2>3 DEF Descriptors
<1>7. AcceptorRegistered'
  BY <1>1, <1>2 DEF AcceptorRegistered, Live
<1>8. KernelLive'
  <2>1. handlers[h].m_fd = ListenFd /\ epoll'[ListenFd] = Absent
    BY <1>1 DEF Fixtures, AcceptorRegistered, TypeOK
  <2>2. \A k \in Fds : epoll'[k] # Absent => epoll'[k] = epoll[k] /\ k # ListenFd
    BY <1>1, <2>1 DEF Fixtures, TypeOK
  <2>3. \A k \in Fds : epoll'[k] # Absent => epoll[k].ptr \in Handlers /\ epoll[k].ptr # h
    BY <2>1, <2>2 DEF Fixtures, KernelLive
  <2> QED
    BY <1>2, <2>2, <2>3 DEF Fixtures, KernelLive
<1> QED
  BY <1>1, <1>3, <1>5, <1>6, <1>7, <1>8 DEF Fixtures

-----------------------------------------------------------------------------
(* Whose connections the steps use. *)

LEMMA InvFixtures == LifeInv => Fixtures
BY DEF LifeInv, ServerTypeOK, Fixtures

LEMMA ConnsAreHandlers ==
  /\ \A c \in Conns : c \in Handlers /\ c # AcceptHandler /\ c # NoHandler
  /\ AcceptHandler \in Handlers
BY TcpServerAssumption, EPollPollerAssumption DEF Conns

(* The next functor's connection exists. *)
LEMMA NextFunctorLive ==
  ASSUME LifeInv, NEW op, NextFunctor(op)
  PROVE  LET c == Head(ioQueue).conn
         IN  /\ c \in Conns /\ Head(ioQueue) = Functor(op, c) /\ Head(ioQueue).op = op
             /\ op \in Holding => Live(c)
             /\ IoRunning /\ ioPc = Idle /\ ioQueue # <<>> /\ ioQueue \in Seq(Functors)
<1>1. ioQueue \in Seq(Functors) /\ ioQueue # <<>> /\ Head(ioQueue).op = op
  BY DEF NextFunctor, LifeInv, ServerTypeOK, Functors
<1>3. Head(ioQueue) \in Functors
  BY <1>1
<1>4. op \in Holding => Holds(ioQueue, Head(ioQueue).conn)
  BY <1>1, HoldsTail
<1>5. op \in Holding => Live(Head(ioQueue).conn)
  BY <1>3, <1>4 DEF Functors, LifeInv, LiveIffHeld, Held
<1> QED
  BY <1>1, <1>3, <1>5 DEF NextFunctor, Functors, Functor

LEMMA InsideLive ==
  ASSUME LifeInv, ioPc # Idle
  PROVE  /\ ioPc.conn \in Conns /\ Live(ioPc.conn) /\ ioPc = In(ioPc.in, ioPc.conn)
         /\ ioPc.in \in {"up", "down", "destroyed", "writeComplete"} /\ IoRunning
<1>1. ioPc.conn \in Conns /\ ioPc.in \in {"up", "down", "destroyed", "writeComplete"}
      /\ ioPc = In(ioPc.in, ioPc.conn)
  BY DEF LifeInv, ServerTypeOK, In
<1>2. Live(ioPc.conn)
  BY <1>1 DEF LifeInv, LiveIffHeld, Held
<1>3. IoRunning
  BY DEF LifeInv, Phases
<1> QED
  BY <1>1, <1>2, <1>3

(* The io loop hears only of connections that exist. *)
LEMMA EventLive ==
  ASSUME LifeInv, NEW f \in Fds, CloseEvent(f)
  PROVE  epoll[f].ptr \in Conns /\ Live(epoll[f].ptr) /\ IoRunning /\ ioPc = Idle
<1>1. epoll[f].ptr \in Conns /\ IoRunning /\ ioPc = Idle /\ "read" \in epoll[f].events
  BY DEF CloseEvent, LifeInv, ServerTypeOK
<1>2. epoll[f] # Absent
  BY <1>1 DEF Absent
<1>3. handlers[epoll[f].ptr].m_fd = f
  BY <1>1, <1>2 DEF LifeInv, KernelLive
<1> QED
  BY <1>1, <1>3, EPollPollerAssumption DEF Live

(* sendInLoop touches the queue and, if the message has to wait, the poller. *)
LEMMA SendOutcome ==
  ASSUME NEW c, NEW queue, SendInLoop(c, queue)
  PROVE  /\ \/ ioQueue' = queue
            \/ ioQueue' = Append(queue, Functor("writeComplete", c))
         /\ UNCHANGED pollerVars \/ Update(c, handlers[c].m_events \cup {"write"})
         /\ MessagesFit => /\ ioQueue' = Append(queue, Functor("writeComplete", c))
                           /\ UNCHANGED pollerVars
BY DEF SendInLoop, EnableWriting

(* A connection that may be updated while the io loop runs. *)
LEMMA MayUpdate ==
  ASSUME ServerInv, IoRunning, NEW h \in Handlers, Live(h)
  PROVE  UpdateAsserts(h)
BY UpdateAllowed DEF ServerInv

(* connectionDestroyed goes on with a handler that removeHandler accepts. *)
LEMMA MayRemove ==
  ASSUME ServerInv, ioPc.in = "destroyed"
  PROVE  /\ RemoveAsserts(ioPc.conn) /\ handlers[ioPc.conn].m_state # kNew
         /\ handlers[ioPc.conn].m_events = {}
<1>1. ioPc # Idle
  BY DEF Idle
<1>2. ioPc.conn \in Handlers /\ IoRunning
  BY <1>1, InsideLive, ConnsAreHandlers DEF ServerInv
<1> QED
  BY <1>2 DEF ServerInv, IInv, TypeOK, Mapped, Removable, RemoveAsserts
-----------------------------------------------------------------------------
(* What each step keeps, one part of the invariant at a time. *)

LEMMA FixturesKept ==
  ASSUME LifeInv, ServerNext
  PROVE  Fixtures'
<1> USE InvFixtures, ConnsAreHandlers
<1>1. Fixtures /\ aborted \in BOOLEAN
  BY DEF Fixtures, TypeOK
<1>2. CASE \/ Start \/ RefuseConnection \/ PeerConnects \/ BaseLoopEnds \/ DestroyServer
           \/ IoLoopEnds \/ IoThreadJoined \/ RemoveConnectionInLoop \/ WriteComplete
           \/ FunctorReturns \/ CloseReturns
  BY <1>1, <1>2, QuietFixtures
     DEF Start, RefuseConnection, PeerConnects, BaseLoopEnds, DestroyServer, IoLoopEnds,
         IoThreadJoined, RemoveConnectionInLoop, WriteComplete, FunctorReturns, CloseReturns,
         startVars, pollerVars
<1>3. CASE RunSend \/ UserSends
  <2>1. PICK c \in Conns : Live(c) /\ server' = server /\ \E queue : SendInLoop(c, queue)
    <3>1. CASE RunSend
      BY <3>1, NextFunctorLive DEF RunSend, startVars
    <3>2. CASE UserSends
      BY <3>2, InsideLive DEF UserSends, startVars
    <3> QED
      BY <1>3, <3>1, <3>2
  <2>2. handlers[c].m_events \cup {"write"} \in SUBSET Flags
    BY <1>1, <2>1 DEF Fixtures, TypeOK, Flags
  <2>3. UNCHANGED pollerVars \/ Update(c, handlers[c].m_events \cup {"write"})
    BY <2>1, SendOutcome
  <2>4. CASE UNCHANGED pollerVars
    BY <1>1, <2>1, <2>4, QuietFixtures DEF pollerVars
  <2> QED
    BY <1>1, <2>1, <2>2, <2>3, <2>4, UpdateFixtures
<1>4. ASSUME NEW c \in Conns, BeginSend(c) \/ QueueSend(c) \/ PeerLeaves(c)
      PROVE  Fixtures'
  BY <1>1, <1>4, QuietFixtures DEF BeginSend, QueueSend, PeerLeaves, startVars, pollerVars
<1>5. CASE Listen
  <2>1. handlers[AcceptHandler].m_events \cup {"read"} \in SUBSET Flags
    BY DEF Fixtures, TypeOK, Flags
  <2> QED
    BY <1>1, <1>5, <2>1, UpdateAcceptor DEF Listen, EnableReading
<1>6. CASE AcceptorDisables
  BY <1>1, <1>6, UpdateAcceptor DEF AcceptorDisables, DisablesAcceptHandler, DisableAll
<1>7. CASE AcceptorRemoves \/ AcceptorCloses
  BY <1>1, <1>7, RemoveAcceptor, CloseAcceptor
<1>8. CASE ConnectionEstablished
  <2> DEFINE c == Head(ioQueue).conn
  <2>1. c \in Conns /\ Live(c) /\ IoRunning
    BY <1>8, NextFunctorLive DEF ConnectionEstablished, Holding
  <2>3. Update(c, handlers[c].m_events \cup {"read"}) /\ server' = server
    BY <1>8 DEF ConnectionEstablished, EnableReading, startVars
  <2>4. handlers[c].m_events \cup {"read"} \in SUBSET Flags
    BY <2>1 DEF Fixtures, TypeOK, Flags
  <2> HIDE DEF c
  <2> QED
    BY <1>1, <2>1, <2>3, <2>4, UpdateFixtures
<1>9. CASE ConnectionDestroyed
  <2> DEFINE c == Head(ioQueue).conn
  <2>1. c \in Conns /\ Live(c) /\ IoRunning
    BY <1>9, NextFunctorLive DEF ConnectionDestroyed, Holding
  <2>3. Update(c, {}) /\ server' = server
    BY <1>9 DEF ConnectionDestroyed, DisableAll, startVars
  <2> HIDE DEF c
  <2> QED
    BY <1>1, <2>1, <2>3, UpdateFixtures
<1>10. CASE DestroyedReturns
  <2>1. ioPc # Idle /\ ioPc.in = "destroyed" /\ RemoveHandler(ioPc.conn) /\ server' = server
    BY <1>10 DEF DestroyedReturns, RemovesHandler, Idle, startVars
  <2> QED
    BY <1>1, <2>1, InsideLive, RemoveFixtures
<1>11. ASSUME NEW f \in Fds, CloseEvent(f)  PROVE Fixtures'
  <2> DEFINE c == epoll[f].ptr
  <2>1. c \in Conns /\ Live(c) /\ IoRunning
    BY <1>11, EventLive
  <2>3. Update(c, {}) /\ server' = server
    BY <1>11 DEF CloseEvent, LosesInterest, DisableAll, startVars
  <2> HIDE DEF c
  <2> QED
    BY <1>1, <2>1, <2>3, UpdateFixtures
<1>12. ASSUME NEW c \in Conns, NEW f \in Fds, NewConnection(c, f)  PROVE Fixtures'
  BY <1>1, <1>12, ConstructFixtures DEF NewConnection, AcceptEvent, startVars
<1>13. ASSUME NEW c \in Conns, BaseBatchEnds(c) \/ IoBatchEnds(c) \/ UserDrops(c)
       PROVE  Fixtures'
  <2>1. Live(c)
    BY <1>13 DEF BaseBatchEnds, IoBatchEnds, UserDrops, LifeInv, LiveIffHeld, Held
  <2> QED
    BY <1>1, <1>13, <2>1, DropFixtures DEF BaseBatchEnds, IoBatchEnds, UserDrops, startVars
<1>14. CASE ReleaseIoFunctor \/ ReleaseBaseFunctor
  <2>1. PICK queue, holder :
          /\ queue \in Seq(Functors) \/ queue \in Seq(Removals)
          /\ queue # <<>>
          /\ queue = ioQueue \/ queue = baseQueue
          /\ ReleaseFirst(queue, holder)
          /\ server' = server
    BY <1>14 DEF ReleaseIoFunctor, ReleaseBaseFunctor, LifeInv, ServerTypeOK, Functors,
                 Removals, startVars
  <2>2. Head(queue).conn \in Conns
    <3>1. Head(queue) \in Functors \/ Head(queue) \in Removals
      BY <2>1
    <3> QED
      BY <3>1 DEF Functors, Removals
  <2>3. CASE UNCHANGED pollerVars
    BY <1>1, <2>1, <2>3, QuietFixtures DEF pollerVars
  <2>4. CASE ~UNCHANGED pollerVars
    <3>1. Head(queue).op \in Holding /\ Drop(Head(queue).conn, holder)
      BY <2>1, <2>4 DEF ReleaseFirst
    <3>2. Holds(queue, Head(queue).conn)
      BY <2>1, <3>1, HoldsTail
    <3>3. Live(Head(queue).conn)
      BY <2>1, <2>2, <3>2 DEF LifeInv, LiveIffHeld, Held
    <3> QED
      BY <1>1, <2>1, <2>2, <3>1, <3>3, DropFixtures
  <2> QED
    BY <2>3, <2>4
<1> QED
  BY <1>2, <1>3, <1>4, <1>5, <1>6, <1>7, <1>8, <1>9, <1>10, <1>11, <1>12, <1>13, <1>14
     DEF ServerNext, Accept, IoStep, BaseStep, Teardown

LEMMA PhasesKept ==
  ASSUME Phases, server \in ServerPhases, ServerNext
  PROVE  Phases'
<1>1. Phases /\ server \in ServerPhases /\ m_connections = {}
  BY DEF Phases
<1>2. CASE Start \/ Listen \/ Accept \/ PeerConnects
  BY <1>1, <1>2
     DEF Phases, IoRunning, Start, Listen, Accept, RefuseConnection, NewConnection,
         AcceptEvent, ConnectionsAfterAccept, PeerConnects, startVars, serverVars, ioVars,
         baseVars
<1>3. CASE BaseLoopEnds \/ DestroyServer \/ IoLoopEnds \/ IoThreadJoined
  BY <1>1, <1>3
     DEF Phases, IoRunning, BaseLoopEnds, DestroyServer, IoLoopEnds, IoThreadJoined,
         serverVars, ioVars, baseVars
<1>4. CASE \/ ReleaseIoFunctor \/ AcceptorDisables \/ AcceptorRemoves \/ AcceptorCloses
           \/ ReleaseBaseFunctor
  BY <1>1, <1>4
     DEF Phases, IoRunning, ReleaseIoFunctor, AcceptorDisables, AcceptorRemoves,
         AcceptorCloses, ReleaseBaseFunctor, startVars, serverVars, ioVars, baseVars
<1>5. CASE ConnectionEstablished \/ ConnectionDestroyed \/ DestroyedReturns \/ WriteComplete
  BY <1>1, <1>5
     DEF Phases, IoRunning, ConnectionEstablished, ConnectionDestroyed, DestroyedReturns,
         WriteComplete, NextFunctor, startVars, serverVars, baseVars
<1>6. CASE RunSend \/ FunctorReturns \/ CloseReturns \/ UserSends
  BY <1>1, <1>6
     DEF Phases, IoRunning, RunSend, FunctorReturns, CloseReturns, UserSends, NextFunctor,
         startVars, serverVars, ioVars, baseVars
<1>7. ASSUME NEW c \in Conns, \/ IoBatchEnds(c) \/ BaseBatchEnds(c) \/ BeginSend(c)
                              \/ QueueSend(c) \/ UserDrops(c) \/ PeerLeaves(c)
      PROVE  Phases'
  BY <1>1, <1>7
     DEF Phases, IoRunning, IoBatchEnds, BaseBatchEnds, BeginSend, QueueSend, UserDrops,
         PeerLeaves, startVars, serverVars, ioVars, baseVars
<1>8. ASSUME NEW f \in Fds, CloseEvent(f)  PROVE Phases'
  BY <1>1, <1>8 DEF Phases, IoRunning, CloseEvent, startVars, baseVars
<1>9. CASE RemoveConnectionInLoop
  BY <1>1, <1>9 DEF Phases, IoRunning, RemoveConnectionInLoop, startVars
<1> QED
  BY <1>2, <1>3, <1>4, <1>5, <1>6, <1>7, <1>8, <1>9
     DEF ServerNext, IoStep, BaseStep, Teardown

(* ~TcpServer finds no connection to queue connectionDestroyed for. *)
LEMMA NothingLeftBehind ==
  ASSUME LifeInv, DestroyServer
  PROVE  ioQueue' = ioQueue
<1>1. Cardinality(m_connections) = 0
  BY FS_EmptySet DEF LifeInv, Phases
<1>2. PICK order \in [1 .. Cardinality(m_connections) -> m_connections] :
        ioQueue' = ioQueue \o [i \in DOMAIN order |-> Functor("destroyed", order[i])]
  BY DEF DestroyServer
<1>3. DOMAIN order = {}
  BY <1>1, <1>2
<1>4. [i \in DOMAIN order |-> Functor("destroyed", order[i])] = <<>>
  BY <1>3
<1>5. ioQueue \o <<>> = ioQueue
  <2>1. ioQueue \in Seq(Functors)
    BY DEF LifeInv, ServerTypeOK, Functors
  <2> QED
    BY <2>1
<1>6. ioQueue' = ioQueue \o <<>>
  BY <1>2, <1>4, Zenon
<1> QED
  BY <1>5, <1>6

(* The types of the server's own state. *)
LEMMA TypesKept ==
  ASSUME LifeInv, ServerNext, Fixtures'
  PROVE  ServerTypeOK' /\ (backlog <= opened)'
<1> USE TcpServerAssumption
<1> DEFINE Goal == ServerTypeOK /\ backlog <= opened
           Rest == /\ m_started \in BOOLEAN /\ m_blistenning \in BOOLEAN
                   /\ m_state \in [Conns -> {"kConnecting", "kConnected", "kDisconnected"}]
                   /\ userHolds \subseteq Conns /\ sending \subseteq userHolds
                   /\ m_connections \subseteq Conns
                   /\ ioBatch \subseteq Conns /\ baseBatch \subseteq Conns /\ gone \subseteq Conns
           Pcs == ioPc \in {Idle} \cup [in : {"up", "down", "destroyed", "writeComplete"}, conn : Conns]
           Queues == ioQueue \in Seq(Functors) /\ baseQueue \in Seq(Removals)
           Numbers == /\ backlog \in 0 .. MaxAccepts /\ opened \in 0 .. MaxAccepts
                      /\ sent \in 0 .. MaxSends /\ backlog <= opened
<1>1. /\ server \in ServerPhases /\ Rest /\ Pcs /\ Queues /\ Numbers
      /\ m_connections = {}
  BY DEF LifeInv, ServerTypeOK, Functors, Removals, Phases
<1>2. SUFFICES server' \in ServerPhases /\ Rest' /\ Pcs' /\ Queues' /\ Numbers'
  BY DEF ServerTypeOK, Fixtures, Functors, Removals
<1>3. CASE Start \/ Listen \/ PeerConnects \/ RefuseConnection
  <2>1. Numbers'
    BY <1>1, <1>3
       DEF Start, Listen, RefuseConnection, AcceptEvent, AfterEmfile, PeerConnects, envVars
  <2>2. server' \in ServerPhases /\ Rest' /\ Pcs' /\ Queues'
    BY <1>1, <1>3
       DEF Start, Listen, RefuseConnection, PeerConnects, startVars, serverVars, ioVars,
           baseVars, envVars
  <2> QED
    BY <2>1, <2>2
<1>4. ASSUME NEW c \in Conns, NEW f \in Fds, NewConnection(c, f)
      PROVE  server' \in ServerPhases /\ Rest' /\ Pcs' /\ Queues' /\ Numbers'
  <2>1. Functor("established", c) \in Functors
    BY DEF Functor, Functors
  <2> QED
    BY <1>1, <1>4, <2>1
       DEF NewConnection, AcceptEvent, ConnectionsAfterAccept, startVars, baseVars
<1>5. CASE \/ BaseLoopEnds \/ IoLoopEnds \/ IoThreadJoined \/ AcceptorDisables
           \/ AcceptorRemoves \/ AcceptorCloses
  BY <1>1, <1>5
     DEF BaseLoopEnds, IoLoopEnds, IoThreadJoined, AcceptorDisables, AcceptorRemoves,
         AcceptorCloses, ServerPhases, serverVars, ioVars, baseVars, envVars
<1>6. CASE DestroyServer
  <2>1. ioQueue' = ioQueue
    BY <1>6, NothingLeftBehind
  <2> QED
    BY <1>1, <1>6, <2>1 DEF DestroyServer, ServerPhases, baseVars, envVars
<1>7. CASE ReleaseIoFunctor \/ ReleaseBaseFunctor
  <2>1. ioQueue' \in Seq(Functors) /\ baseQueue' \in Seq(Removals)
    <3>1. CASE ReleaseIoFunctor
      BY <1>1, <3>1 DEF ReleaseIoFunctor, baseVars
    <3>2. CASE ReleaseBaseFunctor
      BY <1>1, <3>2 DEF ReleaseBaseFunctor, ioVars
    <3> QED
      BY <1>7, <3>1, <3>2
  <2> QED
    BY <1>1, <1>7, <2>1
       DEF ReleaseIoFunctor, ReleaseBaseFunctor, startVars, serverVars, ioVars, baseVars, envVars
<1>8. CASE RemoveConnectionInLoop
  <2>1. Head(baseQueue) \in Removals
    BY <1>1, <1>8 DEF RemoveConnectionInLoop
  <2>2. Head(baseQueue).conn \in Conns /\ Functor("destroyed", Head(baseQueue).conn) \in Functors
    BY <2>1 DEF Removals, Functor, Functors
  <2> QED
    BY <1>1, <1>8, <2>2 DEF RemoveConnectionInLoop, WithDestroyedFunctor, startVars, envVars
<1>9. ASSUME NEW op, NextFunctor(op)
      PROVE  /\ Head(ioQueue).conn \in Conns
             /\ ioQueue # <<>> /\ Tail(ioQueue) \in Seq(Functors)
             /\ Functor("writeComplete", Head(ioQueue).conn) \in Functors
  BY <1>1, <1>9, NextFunctorLive DEF Functor, Functors
<1>10. CASE ConnectionEstablished \/ ConnectionDestroyed \/ WriteComplete
  <2>1. Head(ioQueue).conn \in Conns /\ Tail(ioQueue) \in Seq(Functors)
    BY <1>9, <1>10 DEF ConnectionEstablished, ConnectionDestroyed, WriteComplete
  <2>2. Queues'
    BY <1>1, <1>10, <2>1 DEF ConnectionEstablished, ConnectionDestroyed, WriteComplete, baseVars
  <2>3. Rest'
    BY <1>1, <1>10, <2>1
       DEF ConnectionEstablished, ConnectionDestroyed, WriteComplete, startVars, serverVars,
           baseVars, envVars
  <2>4. Pcs'
    BY <1>1, <1>10, <2>1 DEF ConnectionEstablished, ConnectionDestroyed, WriteComplete, In
  <2> HIDE DEF Queues, Rest, Pcs
  <2> QED
    BY <1>1, <1>10, <2>2, <2>3, <2>4
       DEF ConnectionEstablished, ConnectionDestroyed, WriteComplete, startVars, envVars
<1>11. CASE RunSend
  <2>1. /\ Tail(ioQueue) \in Seq(Functors)
        /\ Functor("writeComplete", Head(ioQueue).conn) \in Functors
    BY <1>9, <1>11 DEF RunSend
  <2>2. ioQueue' \in Seq(Functors)
    <3>1. \/ ioQueue' = Tail(ioQueue)
          \/ ioQueue' = Append(Tail(ioQueue), Functor("writeComplete", Head(ioQueue).conn))
      BY <1>11, SendOutcome DEF RunSend
    <3> QED
      BY <2>1, <3>1
  <2> QED
    BY <1>1, <1>11, <2>2 DEF RunSend, startVars, serverVars, baseVars, envVars
<1>12. CASE DestroyedReturns \/ FunctorReturns \/ CloseReturns
  <2>1. ioPc # Idle
    BY <1>12 DEF DestroyedReturns, FunctorReturns, CloseReturns, Idle
  <2>2. ioPc.conn \in Conns /\ Functor("remove", ioPc.conn) \in Removals
    BY <2>1, InsideLive DEF Functor, Removals
  <2>3. Queues'
    BY <1>1, <1>12, <2>2 DEF DestroyedReturns, FunctorReturns, CloseReturns, baseVars
  <2> HIDE DEF Queues
  <2> QED
    BY <1>1, <1>12, <2>2, <2>3
       DEF DestroyedReturns, FunctorReturns, CloseReturns, startVars, serverVars, baseVars,
           envVars
<1>13. CASE UserSends
  <2>1. Functor("writeComplete", ioPc.conn) \in Functors
    BY <1>13, InsideLive DEF UserSends, Functor, Functors
  <2>2. ioQueue' \in Seq(Functors)
    <3>1. ioQueue' \in {ioQueue, Append(ioQueue, Functor("writeComplete", ioPc.conn))}
      BY <1>13 DEF UserSends, SendInLoop
    <3>2. ioQueue \in Seq(Functors)
      BY <1>1
    <3>3. Append(ioQueue, Functor("writeComplete", ioPc.conn)) \in Seq(Functors)
      BY <2>1, <3>2
    <3> QED
      BY <3>1, <3>2, <3>3
  <2> QED
    BY <1>1, <1>13, <2>2 DEF UserSends, CountSend, startVars, serverVars, baseVars
<1>14. ASSUME NEW c \in Conns, IoBatchEnds(c) \/ BaseBatchEnds(c) \/ UserDrops(c) \/ PeerLeaves(c)
       PROVE  server' \in ServerPhases /\ Rest' /\ Pcs' /\ Queues' /\ Numbers'
  BY <1>1, <1>14
     DEF IoBatchEnds, BaseBatchEnds, UserDrops, PeerLeaves, startVars, serverVars, ioVars,
         baseVars, envVars
<1>15. ASSUME NEW c \in Conns, BeginSend(c) \/ QueueSend(c)
       PROVE  server' \in ServerPhases /\ Rest' /\ Pcs' /\ Queues' /\ Numbers'
  <2>1. Functor("send", c) \in Functors
    BY DEF Functor, Functors
  <2>2. Queues'
    BY <1>1, <1>15, <2>1, SMTT(30) DEF BeginSend, QueueSend, ioVars, baseVars
  <2>3. Numbers'
    BY <1>1, <1>15 DEF BeginSend, QueueSend, CountSend, envVars
  <2> HIDE DEF Queues, Numbers
  <2> QED
    BY <1>1, <1>15, <2>2, <2>3
       DEF BeginSend, QueueSend, CountSend, startVars, ioVars, baseVars, envVars
<1>16. ASSUME NEW f \in Fds, CloseEvent(f)
       PROVE  server' \in ServerPhases /\ Rest' /\ Pcs' /\ Queues' /\ Numbers'
  BY <1>1, <1>16, EventLive DEF CloseEvent, In, startVars, baseVars, envVars
<1> QED
  BY <1>3, <1>4, <1>5, <1>6, <1>7, <1>8, <1>10, <1>11, <1>12, <1>13, <1>14, <1>15, <1>16
     DEF ServerNext, Accept, IoStep, BaseStep, Teardown

(* The steps that neither create nor destroy a connection. *)
LEMMA LivenessKept ==
  ASSUME LifeInv, ServerNext,
         \A c \in Conns : /\ \A f \in Fds : ~NewConnection(c, f)
                          /\ ~IoBatchEnds(c) /\ ~BaseBatchEnds(c) /\ ~UserDrops(c),
         ~ReleaseIoFunctor, ~ReleaseBaseFunctor
  PROVE  \A c \in Conns : Live(c)' <=> Live(c)
<1> USE ConnsAreHandlers
<1>1. TypeOK
  BY DEF LifeInv, ServerTypeOK
<1>2. CASE \/ Start \/ RefuseConnection \/ PeerConnects \/ BaseLoopEnds \/ DestroyServer
           \/ IoLoopEnds \/ IoThreadJoined \/ RemoveConnectionInLoop \/ WriteComplete
           \/ FunctorReturns \/ CloseReturns
           \/ \E c \in Conns : BeginSend(c) \/ QueueSend(c) \/ PeerLeaves(c)
  <2>1. UNCHANGED handlers
    BY <1>2
       DEF Start, RefuseConnection, PeerConnects, BaseLoopEnds, DestroyServer, IoLoopEnds,
           IoThreadJoined, RemoveConnectionInLoop, WriteComplete, FunctorReturns, CloseReturns,
           BeginSend, QueueSend, PeerLeaves, pollerVars
  <2> QED
    BY <2>1 DEF Live
<1>3. ASSUME NEW h, (\E events : Update(h, events)) \/ RemoveHandler(h)
      PROVE  \A c \in Conns : Live(c)' <=> Live(c)
  <2>1. \A c \in Conns : handlers'[c].m_fd = handlers[c].m_fd
    <3>1. ASSUME NEW events, Update(h, events)
          PROVE  \A c \in Handlers : handlers'[c].m_fd = handlers[c].m_fd
      <4> DEFINE state == StateAfterUpdate(h, events)
      <4>1. \/ handlers' = handlers
            \/ handlers' = [handlers EXCEPT ![h].m_events = events, ![h].m_state = state]
        BY <3>1 DEF Update
      <4> HIDE DEF state
      <4>2. DOMAIN handlers = Handlers
        BY <1>1 DEF TypeOK
      <4>3. ASSUME NEW c \in Handlers  PROVE handlers'[c].m_fd = handlers[c].m_fd
        <5>1. CASE c # h
          BY <4>1, <4>2, <5>1
        <5>2. CASE c = h
          BY <1>1, <4>1, <5>2, ZenonT(30) DEF TypeOK
        <5> QED
          BY <5>1, <5>2
      <4> QED
        BY <4>3
    <3>2. ASSUME RemoveHandler(h)
          PROVE  \A c \in Handlers : handlers'[c].m_fd = handlers[c].m_fd
      BY <1>1, <3>2 DEF RemoveHandler, TypeOK
    <3> QED
      BY <1>3, <3>1, <3>2
  <2> QED
    BY <2>1 DEF Live
<1>4. CASE \/ Listen \/ AcceptorDisables \/ AcceptorRemoves \/ ConnectionEstablished
           \/ ConnectionDestroyed \/ DestroyedReturns
  BY <1>3, <1>4
     DEF Listen, AcceptorDisables, AcceptorRemoves, ConnectionEstablished, ConnectionDestroyed,
         DestroyedReturns, DisablesAcceptHandler, RemovesHandler, EnableReading, DisableAll
<1>5. CASE AcceptorCloses
  <2>1. \A c \in Conns : handlers'[c].m_fd = handlers[c].m_fd
    BY <1>1, <1>5 DEF AcceptorCloses, TypeOK
  <2> QED
    BY <2>1 DEF Live
<1>6. ASSUME NEW f \in Fds, CloseEvent(f)
      PROVE  \A c \in Conns : Live(c)' <=> Live(c)
  BY <1>3, <1>6 DEF CloseEvent, LosesInterest, DisableAll
<1>7. CASE RunSend \/ UserSends
  <2>1. PICK c, queue : SendInLoop(c, queue)
    BY <1>7 DEF RunSend, UserSends
  <2>2. UNCHANGED pollerVars \/ Update(c, handlers[c].m_events \cup {"write"})
    BY <2>1, SendOutcome
  <2> QED
    BY <1>3, <2>2 DEF pollerVars, Live
<1> QED
  BY <1>2, <1>4, <1>5, <1>6, <1>7
     DEF ServerNext, Accept, IoStep, BaseStep, Teardown

(* Who holds a connection, after each of these steps. *)
LEMMA HeldKept ==
  ASSUME LifeInv, ServerNext,
         \A c \in Conns : /\ \A f \in Fds : ~NewConnection(c, f)
                          /\ ~IoBatchEnds(c) /\ ~BaseBatchEnds(c) /\ ~UserDrops(c),
         ~ReleaseIoFunctor, ~ReleaseBaseFunctor
  PROVE  \A c \in Conns : Held(c)' <=> Held(c)
<1> USE ConnsAreHandlers
<1>1. ioQueue \in Seq(Functors) /\ baseQueue \in Seq(Removals)
  BY DEF LifeInv, ServerTypeOK, Functors, Removals
<1>2. CASE \/ Start \/ Listen \/ RefuseConnection \/ PeerConnects \/ BaseLoopEnds \/ DestroyServer
           \/ IoLoopEnds \/ IoThreadJoined \/ AcceptorDisables \/ AcceptorRemoves
           \/ AcceptorCloses \/ \E c \in Conns : BeginSend(c) \/ PeerLeaves(c)
  <2>1. UNCHANGED <<userHolds, ioQueue, ioPc, ioBatch, baseQueue, baseBatch>>
    BY <1>2, NothingLeftBehind
       DEF Start, Listen, RefuseConnection, PeerConnects, BaseLoopEnds, DestroyServer,
           IoLoopEnds, IoThreadJoined, AcceptorDisables, AcceptorRemoves, AcceptorCloses,
           BeginSend, PeerLeaves, serverVars, ioVars, baseVars
  <2> QED
    BY <2>1 DEF Held, Holds
<1>3. CASE RemoveConnectionInLoop
  <2> DEFINE d == Head(baseQueue).conn
  <2>1. Head(baseQueue) \in Removals /\ baseQueue # <<>>
    BY <1>1, <1>3 DEF RemoveConnectionInLoop
  <2>2. d \in Conns /\ Head(baseQueue).op = "remove" /\ Functor("destroyed", d) \in Functors
    BY <2>1 DEF Removals, Functor, Functors
  <2>3. /\ ioQueue' = Append(ioQueue, Functor("destroyed", d)) /\ baseQueue' = Tail(baseQueue)
        /\ baseBatch' = baseBatch \cup {d} /\ UNCHANGED <<userHolds, ioPc, ioBatch>>
    BY <1>3 DEF RemoveConnectionInLoop, WithDestroyedFunctor
  <2> HIDE DEF d
  <2>4. \A c : Holds(ioQueue', c) <=> Holds(ioQueue, c) \/ c = d
    BY <1>1, <2>2, <2>3, HoldsAppend DEF Holding
  <2>5. \A c : Holds(baseQueue, c) <=> Holds(baseQueue', c) \/ c = d
    BY <1>1, <2>1, <2>2, <2>3, HoldsTail DEF Holding, d
  <2> QED
    BY <2>3, <2>4, <2>5 DEF Held
<1>4. CASE ConnectionEstablished \/ ConnectionDestroyed \/ WriteComplete
  <2> DEFINE d == Head(ioQueue).conn
  <2>1. d \in Conns /\ ioPc = Idle /\ ioQueue # <<>> /\ Head(ioQueue).op \in Holding
    BY <1>4, NextFunctorLive DEF ConnectionEstablished, ConnectionDestroyed, WriteComplete, Holding
  <2>2. /\ ioQueue' = Tail(ioQueue) /\ ioPc'.conn = d /\ UNCHANGED <<ioBatch, baseQueue, baseBatch>>
        /\ userHolds' = userHolds \/ userHolds' = userHolds \cup {d}
    BY <1>4 DEF ConnectionEstablished, ConnectionDestroyed, WriteComplete, In, baseVars, serverVars
  <2> HIDE DEF d
  <2>3. \A c : Holds(ioQueue, c) <=> Holds(ioQueue', c) \/ c = d
    BY <1>1, <2>1, <2>2, HoldsTail DEF d
  <2>4. \A c \in Conns : ioPc.conn # c
    BY <2>1 DEF Idle
  <2> QED
    BY <2>2, <2>3, <2>4 DEF Held
<1>5. CASE DestroyedReturns \/ FunctorReturns
  <2>1. /\ UNCHANGED <<userHolds, ioQueue, baseQueue, baseBatch>> /\ ioPc' = Idle
        /\ ioBatch' = ioBatch \cup {ioPc.conn}
    BY <1>5 DEF DestroyedReturns, FunctorReturns, serverVars, baseVars
  <2> QED
    BY <2>1 DEF Held, Idle, Holds
<1>6. CASE RunSend
  <2> DEFINE d == Head(ioQueue).conn
             rest == Tail(ioQueue)
  <2>1. d \in Conns /\ ioQueue # <<>> /\ Head(ioQueue) = Functor("send", d) /\ Live(d)
    BY <1>6, NextFunctorLive DEF RunSend
  <2>2. /\ ioQueue' = rest \/ ioQueue' = Append(rest, Functor("writeComplete", d))
        /\ UNCHANGED <<userHolds, ioPc, ioBatch, baseQueue, baseBatch>>
    BY <1>6, SendOutcome DEF RunSend, serverVars, baseVars
  <2>3. rest \in Seq(Functors) /\ \A c : Holds(ioQueue, c) <=> Holds(rest, c)
    BY <1>1, <2>1, HoldsTail DEF Holding, Functor
  <2>4. Functor("writeComplete", d) \in Functors
    BY <2>1 DEF Functor, Functors
  <2>5. Held(d)
    BY <2>1 DEF LifeInv, LiveIffHeld
  <2> HIDE DEF d, rest
  <2>6. CASE ioQueue' = rest
    BY <2>2, <2>3, <2>6 DEF Held
  <2>7. CASE ioQueue' = Append(rest, Functor("writeComplete", d))
    <3>1. \A c : Holds(ioQueue', c) <=> Holds(rest, c) \/ c = d
      BY <2>3, <2>4, <2>7, HoldsAppend DEF Holding
    <3> QED
      BY <2>2, <2>3, <2>5, <3>1 DEF Held
  <2> QED
    BY <2>2, <2>6, <2>7
<1>7. CASE UserSends
  <2>1. ioPc.conn \in Conns /\ Functor("writeComplete", ioPc.conn) \in Functors
    BY <1>7, InsideLive DEF UserSends, Functor, Functors
  <2>2. /\ ioQueue' = ioQueue \/ ioQueue' = Append(ioQueue, Functor("writeComplete", ioPc.conn))
        /\ UNCHANGED <<userHolds, ioPc, ioBatch, baseQueue, baseBatch>>
    BY <1>7, SendOutcome DEF UserSends, serverVars, baseVars
  <2>3. CASE ioQueue' = ioQueue
    BY <2>2, <2>3 DEF Held
  <2>4. CASE ioQueue' = Append(ioQueue, Functor("writeComplete", ioPc.conn))
    <3>1. \A c : Holds(ioQueue', c) <=> Holds(ioQueue, c) \/ c = ioPc.conn
      BY <1>1, <2>1, <2>4, HoldsAppend DEF Holding
    <3> QED
      BY <2>2, <3>1 DEF Held
  <2> QED
    BY <2>2, <2>3, <2>4
<1>8. CASE CloseReturns
  <2>1. ioPc.conn \in Conns /\ Functor("remove", ioPc.conn) \in Removals
    BY <1>8, InsideLive DEF CloseReturns, Functor, Removals, Idle
  <2>2. /\ baseQueue' = Append(baseQueue, Functor("remove", ioPc.conn)) /\ ioPc' = Idle
        /\ UNCHANGED <<userHolds, ioQueue, ioBatch, baseBatch>>
    BY <1>8 DEF CloseReturns, serverVars
  <2>3. \A c : Holds(baseQueue', c) <=> Holds(baseQueue, c) \/ c = ioPc.conn
    BY <1>1, <2>1, <2>2, HoldsAppend DEF Holding
  <2> QED
    BY <2>2, <2>3 DEF Held, Idle
<1>9. ASSUME NEW d \in Conns, QueueSend(d)
      PROVE  \A c \in Conns : Held(c)' <=> Held(c)
  <2>1. /\ ioQueue' = Append(ioQueue, Functor("send", d))
        /\ UNCHANGED <<userHolds, ioPc, ioBatch, baseQueue, baseBatch>>
    BY <1>9 DEF QueueSend, baseVars
  <2>2. Functor("send", d) \in Functors
    BY DEF Functor, Functors
  <2>3. \A c : Holds(ioQueue', c) <=> Holds(ioQueue, c)
    BY <1>1, <2>1, <2>2, HoldsAppend DEF Holding
  <2> QED
    BY <2>1, <2>3 DEF Held
<1>10. ASSUME NEW f \in Fds, CloseEvent(f)
       PROVE  \A c \in Conns : Held(c)' <=> Held(c)
  <2>1. epoll[f].ptr \in Conns /\ Live(epoll[f].ptr) /\ ioPc = Idle
    BY <1>10, EventLive
  <2>2. Held(epoll[f].ptr)
    BY <2>1 DEF LifeInv, LiveIffHeld
  <2>3. /\ ioPc'.conn = epoll[f].ptr
        /\ UNCHANGED <<userHolds, ioQueue, ioBatch, baseQueue, baseBatch>>
    BY <1>10 DEF CloseEvent, In, baseVars
  <2> QED
    BY <2>1, <2>2, <2>3 DEF Held, Idle
<1> QED
  BY <1>2, <1>3, <1>4, <1>5, <1>6, <1>7, <1>8, <1>9, <1>10
     DEF ServerNext, Accept, IoStep, BaseStep, Teardown

(* A functor that a loop drops uncalled. *)
LEMMA ReleasedLive ==
  ASSUME NEW S, NEW queue \in Seq(S), queue # <<>>, NEW holder, Head(queue).conn \in Conns,
         \A d \in Conns : Holds(queue, d) => Live(d), ReleaseFirst(queue, holder)
  PROVE  LET c == Head(queue).conn
         IN  \/ UNCHANGED pollerVars /\ \A d : Holds(queue, d) <=> Holds(Tail(queue), d)
             \/ /\ Live(c) /\ Drop(c, holder) /\ ~Holds(Tail(queue), c)
                /\ \A d : Holds(queue, d) <=> Holds(Tail(queue), d) \/ d = c
<1> DEFINE c == Head(queue).conn
<1>1. \A d : Holds(queue, d) <=> Holds(Tail(queue), d) \/ (c = d /\ Head(queue).op \in Holding)
  BY HoldsTail
<1>2. CASE Head(queue).op \notin Holding \/ Holds(Tail(queue), c)
  BY <1>1, <1>2 DEF ReleaseFirst
<1>3. CASE Head(queue).op \in Holding /\ ~Holds(Tail(queue), c)
  <2>1. Drop(c, holder) /\ Holds(queue, c)
    BY <1>1, <1>3 DEF ReleaseFirst
  <2>2. Live(c)
    BY <2>1
  <2> QED
    BY <1>1, <1>3, <2>1, <2>2
<1> QED
  BY <1>2, <1>3

(* The last TcpConnectionPtr takes the connection with it, and only the last. *)
LEMMA LiveKept ==
  ASSUME LifeInv, ServerNext
  PROVE  LiveIffHeld'
<1> USE ConnsAreHandlers
<1>1. /\ ioQueue \in Seq(Functors) /\ baseQueue \in Seq(Removals)
      /\ Fixtures /\ Phases /\ LiveIffHeld
  BY InvFixtures DEF LifeInv, ServerTypeOK, Functors, Removals
<1>2. ASSUME NEW c \in Conns, NEW holder, Live(c), Drop(c, holder), server' = server,
             \A d \in Conns : d # c => (Held(d)' <=> Held(d)),
             Held(c)' <=> ~(Holders(c) \subseteq {holder})
      PROVE  LiveIffHeld'
  <2>1. /\ \A d \in Conns : d # c => (Live(d)' <=> Live(d))
        /\ Live(c)' <=> ~(Holders(c) \subseteq {holder})
    BY <1>1, <1>2, DropFixtures DEF Live, pollerVars
  <2> QED
    BY <1>1, <1>2, <2>1 DEF LiveIffHeld
<1>3. ASSUME NEW c \in Conns, UserDrops(c)  PROVE LiveIffHeld'
  <2>1. /\ c \in userHolds /\ Drop(c, "user") /\ userHolds' = userHolds \ {c} /\ server' = server
        /\ UNCHANGED <<ioQueue, ioPc, ioBatch, baseQueue, baseBatch>>
    BY <1>3 DEF UserDrops, startVars, ioVars, baseVars
  <2>2. Live(c)
    BY <1>1, <2>1 DEF LiveIffHeld, Held
  <2>3. /\ \A d \in Conns : d # c => (Held(d)' <=> Held(d))
        /\ Held(c)' <=> ~(Holders(c) \subseteq {"user"})
    BY <1>1, <2>1, LastHolder DEF Held
  <2> QED
    BY <1>2, <2>1, <2>2, <2>3
<1>4. ASSUME NEW c \in Conns, IoBatchEnds(c)  PROVE LiveIffHeld'
  <2>1. /\ c \in ioBatch /\ Drop(c, "ioBatch") /\ ioBatch' = ioBatch \ {c} /\ server' = server
        /\ UNCHANGED <<ioQueue, ioPc, userHolds, baseQueue, baseBatch>>
    BY <1>4 DEF IoBatchEnds, startVars, serverVars, baseVars
  <2>2. Live(c)
    BY <1>1, <2>1 DEF LiveIffHeld, Held
  <2>3. /\ \A d \in Conns : d # c => (Held(d)' <=> Held(d))
        /\ Held(c)' <=> ~(Holders(c) \subseteq {"ioBatch"})
    BY <1>1, <2>1, LastHolder DEF Held
  <2> QED
    BY <1>2, <2>1, <2>2, <2>3
<1>5. ASSUME NEW c \in Conns, BaseBatchEnds(c)  PROVE LiveIffHeld'
  <2>1. /\ c \in baseBatch /\ Drop(c, "baseBatch") /\ baseBatch' = baseBatch \ {c}
        /\ server' = server
        /\ UNCHANGED <<ioQueue, ioPc, userHolds, baseQueue, ioBatch>>
    BY <1>5 DEF BaseBatchEnds, startVars, serverVars, ioVars
  <2>2. Live(c)
    BY <1>1, <2>1 DEF LiveIffHeld, Held
  <2>3. /\ \A d \in Conns : d # c => (Held(d)' <=> Held(d))
        /\ Held(c)' <=> ~(Holders(c) \subseteq {"baseBatch"})
    BY <1>1, <2>1, LastHolder DEF Held
  <2> QED
    BY <1>2, <2>1, <2>2, <2>3
<1>6. CASE ReleaseIoFunctor
  <2>0. PICK c : c = Head(ioQueue).conn
    OBVIOUS
  <2>1. /\ ioQueue # <<>> /\ ReleaseFirst(ioQueue, "ioQueue") /\ ioQueue' = Tail(ioQueue)
        /\ server' = server /\ UNCHANGED <<ioPc, ioBatch, userHolds, baseQueue, baseBatch>>
    BY <1>6 DEF ReleaseIoFunctor, startVars, serverVars, baseVars
  <2>2. Head(ioQueue) \in Functors
    BY <1>1, <2>1
  <2>3. c \in Conns
    BY <2>0, <2>2 DEF Functors
  <2>4. \/ UNCHANGED pollerVars /\ \A d : Holds(ioQueue, d) <=> Holds(ioQueue', d)
        \/ /\ Live(c) /\ Drop(c, "ioQueue") /\ ~Holds(ioQueue', c)
           /\ \A d : Holds(ioQueue, d) <=> Holds(ioQueue', d) \/ d = c
    <3>1. /\ Head(ioQueue).conn \in Conns /\ ioQueue \in Seq(Functors) /\ ioQueue # <<>>
          /\ ReleaseFirst(ioQueue, "ioQueue")
      BY <1>1, <2>0, <2>1, <2>3
    <3>2. \A d \in Conns : Holds(ioQueue, d) => Live(d)
      BY <1>1 DEF LiveIffHeld, Held
    <3>3. LET d == Head(ioQueue).conn
          IN  \/ UNCHANGED pollerVars /\ \A e : Holds(ioQueue, e) <=> Holds(Tail(ioQueue), e)
              \/ /\ Live(d) /\ Drop(d, "ioQueue") /\ ~Holds(Tail(ioQueue), d)
                 /\ \A e : Holds(ioQueue, e) <=> Holds(Tail(ioQueue), e) \/ e = d
      BY <3>1, <3>2, ReleasedLive
    <3> QED
      BY <2>0, <2>1, <3>3
  <2>5. CASE UNCHANGED pollerVars /\ \A d : Holds(ioQueue, d) <=> Holds(ioQueue', d)
    <3>1. \A d \in Conns : (Held(d)' <=> Held(d)) /\ (Live(d)' <=> Live(d))
      BY <2>1, <2>5 DEF Held, Live, pollerVars
    <3> QED
      BY <1>1, <3>1 DEF LiveIffHeld
  <2>6. CASE /\ Live(c) /\ Drop(c, "ioQueue") /\ ~Holds(ioQueue', c)
             /\ \A d : Holds(ioQueue, d) <=> Holds(ioQueue', d) \/ d = c
    <3>1. /\ \A d \in Conns : d # c => (Held(d)' <=> Held(d))
          /\ Held(c)' <=> ~(Holders(c) \subseteq {"ioQueue"})
      BY <1>1, <2>1, <2>3, <2>6, LastHolder DEF Held
    <3> QED
      BY <1>2, <2>1, <2>3, <2>6, <3>1
  <2> QED
    BY <2>4, <2>5, <2>6
<1>7. CASE ReleaseBaseFunctor
  <2>0. PICK c : c = Head(baseQueue).conn
    OBVIOUS
  <2>1. /\ baseQueue # <<>> /\ ReleaseFirst(baseQueue, "baseQueue") /\ baseQueue' = Tail(baseQueue)
        /\ server' = server /\ UNCHANGED <<ioPc, ioBatch, userHolds, ioQueue, baseBatch>>
    BY <1>7 DEF ReleaseBaseFunctor, startVars, serverVars, ioVars
  <2>2. Head(baseQueue) \in Removals
    BY <1>1, <2>1
  <2>3. c \in Conns
    BY <2>0, <2>2 DEF Removals
  <2>4. \/ UNCHANGED pollerVars /\ \A d : Holds(baseQueue, d) <=> Holds(baseQueue', d)
        \/ /\ Live(c) /\ Drop(c, "baseQueue") /\ ~Holds(baseQueue', c)
           /\ \A d : Holds(baseQueue, d) <=> Holds(baseQueue', d) \/ d = c
    <3>1. /\ Head(baseQueue).conn \in Conns /\ baseQueue \in Seq(Removals) /\ baseQueue # <<>>
          /\ ReleaseFirst(baseQueue, "baseQueue")
      BY <1>1, <2>0, <2>1, <2>3
    <3>2. \A d \in Conns : Holds(baseQueue, d) => Live(d)
      BY <1>1 DEF LiveIffHeld, Held
    <3>3. LET d == Head(baseQueue).conn
          IN  \/ UNCHANGED pollerVars /\ \A e : Holds(baseQueue, e) <=> Holds(Tail(baseQueue), e)
              \/ /\ Live(d) /\ Drop(d, "baseQueue") /\ ~Holds(Tail(baseQueue), d)
                 /\ \A e : Holds(baseQueue, e) <=> Holds(Tail(baseQueue), e) \/ e = d
      BY <3>1, <3>2, ReleasedLive
    <3> QED
      BY <2>0, <2>1, <3>3
  <2>5. CASE UNCHANGED pollerVars /\ \A d : Holds(baseQueue, d) <=> Holds(baseQueue', d)
    <3>1. \A d \in Conns : (Held(d)' <=> Held(d)) /\ (Live(d)' <=> Live(d))
      BY <2>1, <2>5 DEF Held, Live, pollerVars
    <3> QED
      BY <1>1, <3>1 DEF LiveIffHeld
  <2>6. CASE /\ Live(c) /\ Drop(c, "baseQueue") /\ ~Holds(baseQueue', c)
             /\ \A d : Holds(baseQueue, d) <=> Holds(baseQueue', d) \/ d = c
    <3>1. /\ \A d \in Conns : d # c => (Held(d)' <=> Held(d))
          /\ Held(c)' <=> ~(Holders(c) \subseteq {"baseQueue"})
      BY <1>1, <2>1, <2>3, <2>6, LastHolder DEF Held
    <3> QED
      BY <1>2, <2>1, <2>3, <2>6, <3>1
  <2> QED
    BY <2>4, <2>5, <2>6
<1>8. ASSUME NEW c \in Conns, NEW f \in Fds, NewConnection(c, f)  PROVE LiveIffHeld'
  <2>1. /\ ConstructHandler(c, f) /\ ioQueue' = Append(ioQueue, Functor("established", c))
        /\ UNCHANGED <<userHolds, ioPc, ioBatch, baseQueue, baseBatch>>
    BY <1>8 DEF NewConnection, baseVars
  <2>2. handlers'[c].m_fd = f /\ \A g \in Handlers : g # c => handlers'[g] = handlers[g]
    BY <1>1, <2>1, ConstructStep DEF Fixtures
  <2>3. Live(c)' /\ \A d \in Conns : d # c => (Live(d)' <=> Live(d))
    BY <2>2, EPollPollerAssumption DEF Live
  <2>4. Functor("established", c) \in Functors
    BY DEF Functor, Functors
  <2>5. \A d : Holds(ioQueue', d) <=> Holds(ioQueue, d) \/ d = c
    BY <1>1, <2>1, <2>4, HoldsAppend DEF Holding
  <2>6. Held(c)' /\ \A d \in Conns : d # c => (Held(d)' <=> Held(d))
    BY <2>1, <2>5 DEF Held
  <2> QED
    BY <1>1, <2>3, <2>6 DEF LiveIffHeld
<1>9. CASE /\ \A c \in Conns : /\ \A f \in Fds : ~NewConnection(c, f)
                               /\ ~IoBatchEnds(c) /\ ~BaseBatchEnds(c) /\ ~UserDrops(c)
           /\ ~ReleaseIoFunctor /\ ~ReleaseBaseFunctor
  BY <1>1, <1>9, LivenessKept, HeldKept DEF LiveIffHeld
<1> QED
  BY <1>3, <1>4, <1>5, <1>6, <1>7, <1>8, <1>9

(* The io loop does not start again. *)
LEMMA IoRunningBefore ==
  ASSUME ServerNext, IoRunning'
  PROVE  IoRunning
<1>1. CASE \/ BaseLoopEnds \/ DestroyServer \/ IoLoopEnds \/ IoThreadJoined
           \/ AcceptorDisables \/ AcceptorRemoves \/ AcceptorCloses
  BY <1>1
     DEF BaseLoopEnds, DestroyServer, IoLoopEnds, IoThreadJoined, AcceptorDisables,
         AcceptorRemoves, AcceptorCloses, IoRunning
<1>2. CASE server' = server
  BY <1>2 DEF IoRunning
<1>3. CASE Start \/ Listen \/ Accept \/ UserSends \/ PeerConnects
  <2>1. server' = server
    BY <1>3
       DEF Start, Listen, Accept, RefuseConnection, NewConnection, UserSends, PeerConnects,
           startVars
  <2> QED
    BY <1>2, <2>1
<1>4. CASE IoStep
  <2>1. server' = server
    BY <1>4
       DEF IoStep, ConnectionEstablished, ConnectionDestroyed, DestroyedReturns, WriteComplete,
           RunSend, FunctorReturns, CloseReturns, IoBatchEnds, CloseEvent, startVars
  <2> QED
    BY <1>2, <2>1
<1>5. CASE \/ BaseStep \/ ReleaseIoFunctor \/ ReleaseBaseFunctor
           \/ \E c \in Conns : BeginSend(c) \/ QueueSend(c) \/ UserDrops(c) \/ PeerLeaves(c)
  <2>1. server' = server
    BY <1>5
       DEF BaseStep, RemoveConnectionInLoop, BaseBatchEnds, ReleaseIoFunctor,
           ReleaseBaseFunctor, BeginSend, QueueSend, UserDrops, PeerLeaves, startVars
  <2> QED
    BY <1>2, <2>1
<1> QED
  BY <1>1, <1>3, <1>4, <1>5 DEF ServerNext, Teardown

(* A connection destroyed while the io loop runs is in the poller no more. *)
LEMMA DroppedIsNew ==
  ASSUME ServerInv, IoRunning, NEW c \in Conns, NEW holder \in {"user", "ioBatch", "baseBatch"},
         Holders(c) \subseteq {holder}, holder = "user" => m_state[c] = "kDisconnected"
  PROVE  handlers[c].m_state = kNew
<1>1. ioQueue \in Seq(Functors) /\ baseQueue \in Seq(Removals) /\ Phases /\ Registered
  BY DEF ServerInv, LifeInv, ServerTypeOK, Functors, Removals
<1>2. ~Holds(ioQueue, c) /\ ~Holds(baseQueue, c) /\ ioPc.conn # c
  BY <1>1, LastHolder
<1>3. ~Leaving(c)
  <2>1. ioPc # In("down", c) /\ ioPc # In("destroyed", c)
    BY <1>2 DEF In
  <2>2. Functor("remove", c) \notin Range(baseQueue) /\ Functor("destroyed", c) \notin Range(ioQueue)
    BY <1>2 DEF Holds, Functor, Holding
  <2> QED
    BY <2>1, <2>2 DEF Leaving
<1>4. holder # "user" => c \notin userHolds
  BY <1>1, LastHolder
<1> QED
  BY <1>1, <1>3, <1>4 DEF Registered

(* ~TcpConnection of a handler that the poller does not know. *)
LEMMA DestroyConnectionKeeps ==
  ASSUME IInv, NEW h \in Handlers, Live(h), handlers[h].m_state = kNew, DestroyConnection(h)
  PROVE  IInv'
<1>1. /\ TypeOK' /\ Ownership' /\ UNCHANGED <<m_handlermap, aborted>>
      /\ epoll' = [epoll EXCEPT ![handlers[h].m_fd] = Absent]
      /\ handlers' = [handlers EXCEPT ![h] = Nothing]
  BY DestroyStep DEF IInv
<1>2. epoll[handlers[h].m_fd] = Absent
  BY NotWatched DEF Live, kNew, kAdded
<1>3. epoll' = epoll
  BY <1>1, <1>2 DEF IInv, TypeOK
<1>4. /\ handlers'[h] = Nothing /\ Nothing.m_state = kNew /\ Nothing.m_events = {}
      /\ \A g \in Handlers : g # h => handlers'[g] = handlers[g]
  BY <1>1 DEF IInv, TypeOK, Nothing
<1>5. Mapped'
  <2>1. \A g \in Handlers :
          handlers'[g].m_state # kNew => m_handlermap'[handlers'[g].m_fd] = g
    BY <1>1, <1>4 DEF IInv, Mapped
  <2>2. \A k \in Fds : m_handlermap[k] # NoHandler =>
          m_handlermap[k] \in Handlers /\ m_handlermap[k] # h
    BY DEF IInv, TypeOK, Mapped
  <2>3. \A k \in Fds : m_handlermap'[k] # NoHandler =>
          handlers'[m_handlermap'[k]].m_fd = k /\ handlers'[m_handlermap'[k]].m_state # kNew
    BY <1>1, <1>4, <2>2 DEF IInv, Mapped
  <2> QED
    BY <2>1, <2>3 DEF Mapped, kNew
<1>6. Watched'
  <2>1. \A g \in Handlers : handlers'[g].m_state = kAdded =>
          epoll'[handlers'[g].m_fd] = [ptr |-> g, events |-> handlers'[g].m_events]
    BY <1>3, <1>4 DEF IInv, Watched, kNew, kAdded
  <2>2. \A g \in Handlers : handlers'[g].m_state # kAdded => handlers'[g].m_events = {}
    BY <1>4 DEF IInv, Watched
  <2>3. \A k \in Fds : epoll[k] # Absent => epoll[k].ptr \in Handlers /\ epoll[k].ptr # h
    BY DEF IInv, Watched, kNew, kAdded
  <2>4. \A k \in Fds : epoll'[k] # Absent =>
          /\ epoll'[k].ptr \in Handlers
          /\ handlers'[epoll'[k].ptr].m_fd = k
          /\ handlers'[epoll'[k].ptr].m_state = kAdded
    BY <1>3, <1>4, <2>3 DEF IInv, Watched
  <2> QED
    BY <2>1, <2>2, <2>4 DEF Watched, kAdded, Absent
<1> QED
  BY <1>1, <1>5, <1>6 DEF IInv, AssertionsHold

(* The poller's own invariant, as long as the io loop runs. *)
LEMMA PollerKept ==
  ASSUME CarefulUser, ServerInv, ServerNext, IoRunning'
  PROVE  IInv'
<1> USE ConnsAreHandlers
<1>1. IoRunning /\ IInv /\ TypeOK /\ Fixtures /\ LifeInv
  BY IoRunningBefore, InvFixtures DEF ServerInv, IInv
<1> USE <1>1
<1>2. CASE \/ Start \/ RefuseConnection \/ PeerConnects \/ BaseLoopEnds \/ DestroyServer
           \/ RemoveConnectionInLoop \/ WriteComplete
           \/ FunctorReturns \/ CloseReturns \/ RunSend \/ UserSends
           \/ \E c \in Conns : BeginSend(c) \/ QueueSend(c) \/ PeerLeaves(c)
  <2>1. UNCHANGED pollerVars
    BY <1>2
       DEF Start, RefuseConnection, PeerConnects, BaseLoopEnds, DestroyServer,
           RemoveConnectionInLoop, WriteComplete, FunctorReturns, CloseReturns,
           RunSend, UserSends, SendInLoop, CarefulUser, BeginSend, QueueSend, PeerLeaves
  <2> QED
    BY <1>1, <2>1
       DEF pollerVars, IInv, TypeOK, AssertionsHold, Ownership, Mapped, Watched
<1>3. CASE Listen
  <2>1. Live(AcceptHandler) /\ handlers[AcceptHandler].m_events \cup {"read"} \in SUBSET Flags
    BY <1>1, <1>3, TcpServerAssumption, EPollPollerAssumption
       DEF Listen, Fixtures, AcceptorRegistered, Live, TypeOK, Flags
  <2> QED
    BY <1>1, <1>3, <2>1, UpdateKeeps DEF Listen, EnableReading
<1>4. CASE ConnectionEstablished \/ ConnectionDestroyed
  <2> DEFINE c == Head(ioQueue).conn
  <2>1. c \in Conns /\ Live(c)
    BY <1>4, NextFunctorLive DEF ConnectionEstablished, ConnectionDestroyed, Holding
  <2>2. Update(c, {}) \/ Update(c, handlers[c].m_events \cup {"read"})
    BY <1>4 DEF ConnectionEstablished, ConnectionDestroyed, EnableReading, DisableAll
  <2>3. handlers[c].m_events \cup {"read"} \in SUBSET Flags
    BY <1>1, <2>1 DEF TypeOK, Flags
  <2> HIDE DEF c
  <2> QED
    BY <1>1, <2>1, <2>2, <2>3, UpdateKeeps
<1>5. CASE DestroyedReturns
  <2>1. ioPc # Idle /\ ioPc.in = "destroyed" /\ RemoveHandler(ioPc.conn)
    BY <1>5 DEF DestroyedReturns, RemovesHandler, Idle
  <2> QED
    BY <1>1, <2>1, InsideLive, MayRemove, RemoveKeeps
<1>6. ASSUME NEW f \in Fds, CloseEvent(f)  PROVE IInv'
  <2>1. Update(epoll[f].ptr, {}) /\ epoll[f].ptr \in Handlers /\ Live(epoll[f].ptr)
    BY <1>6, EventLive DEF CloseEvent, LosesInterest, DisableAll
  <2> QED
    BY <1>1, <2>1, UpdateKeeps
<1>7. ASSUME NEW c \in Conns, NEW f \in Fds, NewConnection(c, f)  PROVE IInv'
  BY <1>1, <1>7, ConstructKeeps DEF NewConnection
<1>8. ASSUME NEW c \in Conns, BaseBatchEnds(c) \/ IoBatchEnds(c) \/ UserDrops(c)
      PROVE  IInv'
  <2>1. PICK holder \in {"user", "ioBatch", "baseBatch"} :
          Drop(c, holder) /\ (holder = "user" => m_state[c] = "kDisconnected")
    BY <1>1, <1>8 DEF BaseBatchEnds, IoBatchEnds, UserDrops, IoRunning
  <2>2. Live(c)
    BY <1>8 DEF BaseBatchEnds, IoBatchEnds, UserDrops, LifeInv, LiveIffHeld, Held
  <2>3. CASE Holders(c) \subseteq {holder}
    BY <1>1, <2>1, <2>2, <2>3, DroppedIsNew, DestroyConnectionKeeps DEF Drop
  <2>4. CASE UNCHANGED pollerVars
    BY <1>1, <2>4 DEF pollerVars, IInv, TypeOK, AssertionsHold, Ownership, Mapped, Watched
  <2> QED
    BY <2>1, <2>3, <2>4 DEF Drop
<1>9. ~(\/ IoLoopEnds \/ IoThreadJoined \/ ReleaseIoFunctor \/ ReleaseBaseFunctor
        \/ AcceptorDisables \/ AcceptorRemoves \/ AcceptorCloses)
  BY <1>1
     DEF IoLoopEnds, IoThreadJoined, ReleaseIoFunctor, ReleaseBaseFunctor, AcceptorDisables,
         AcceptorRemoves, AcceptorCloses, IoRunning
<1> QED
  BY <1>2, <1>3, <1>4, <1>5, <1>6, <1>7, <1>8, <1>9
     DEF ServerNext, Accept, IoStep, BaseStep, Teardown

(* Nor does an assertion fail once it has ended. *)
LEMMA NoAbortKept ==
  ASSUME CarefulUser, ServerInv, ServerNext
  PROVE  NoAbort'
<1>1. NoAbort /\ LifeInv
  BY DEF ServerInv
<1>2. CASE IoRunning'
  BY <1>2, PollerKept DEF IInv, AssertionsHold, NoAbort
<1>3. CASE ~IoRunning'
  <2>1. CASE \/ Start \/ Listen \/ UserSends \/ IoStep
    <3>1. IoRunning /\ server' = server
      BY <1>1, <2>1, InsideLive
         DEF Start, Listen, UserSends, IoStep, ConnectionEstablished, ConnectionDestroyed,
             DestroyedReturns, WriteComplete, RunSend, FunctorReturns, CloseReturns,
             IoBatchEnds, CloseEvent, NextFunctor, startVars, IoRunning
    <3> QED
      BY <1>3, <3>1 DEF IoRunning
  <2>2. CASE \/ PeerConnects \/ BaseLoopEnds \/ RemoveConnectionInLoop \/ DestroyServer
             \/ IoLoopEnds \/ IoThreadJoined \/ AcceptorCloses \/ Accept
             \/ \E c \in Conns : BeginSend(c) \/ QueueSend(c) \/ PeerLeaves(c)
    BY <1>1, <2>2
       DEF PeerConnects, BaseLoopEnds, RemoveConnectionInLoop, DestroyServer, IoLoopEnds,
           IoThreadJoined, AcceptorCloses, Accept, RefuseConnection, NewConnection,
           ConstructHandler, BeginSend, QueueSend, PeerLeaves, pollerVars, NoAbort
  <2>3. ASSUME NEW c, NEW holder, Drop(c, holder)  PROVE NoAbort'
    BY <1>1, <2>3 DEF Drop, DestroyConnection, pollerVars, NoAbort
  <2>4. CASE \/ ReleaseIoFunctor \/ ReleaseBaseFunctor
             \/ \E c \in Conns : BaseBatchEnds(c) \/ UserDrops(c)
    BY <1>1, <2>3, <2>4
       DEF ReleaseIoFunctor, ReleaseBaseFunctor, ReleaseFirst, BaseBatchEnds, UserDrops,
           pollerVars, NoAbort
  <2>5. CASE AcceptorDisables
    BY <1>1, <2>5, InvFixtures, UpdateAcceptor
       DEF AcceptorDisables, DisablesAcceptHandler, DisableAll, NoAbort
  <2>6. CASE AcceptorRemoves
    BY <1>1, <2>6, InvFixtures, RemoveAcceptor DEF NoAbort
  <2> QED
    BY <2>1, <2>2, <2>4, <2>5, <2>6 DEF ServerNext, BaseStep, Teardown
<1> QED
  BY <1>2, <1>3

(* The user waits for its own functors. *)
LEMMA SendersKept ==
  ASSUME UserWaits, LifeInv, SendersWait, ServerNext
  PROVE  SendersWait'
<1> USE ConnsAreHandlers
<1>1. /\ ioQueue \in Seq(Functors) /\ SendersWait /\ sending \subseteq userHolds
      /\ \A op, c : Functor(op, c).op = op /\ Functor(op, c).conn = c
  BY DEF LifeInv, ServerTypeOK, Functors, Functor
<1>2. CASE UNCHANGED ioQueue /\ userHolds \subseteq userHolds'
  BY <1>1, <1>2 DEF SendersWait, HasSend
<1>3. CASE ioQueue # <<>> /\ ioQueue' = Tail(ioQueue) /\ userHolds \subseteq userHolds'
  BY <1>1, <1>3, HoldsTail DEF SendersWait, HasSend
<1>4. ASSUME NEW queue, queue = ioQueue \/ (ioQueue # <<>> /\ queue = Tail(ioQueue)),
             NEW op, NEW d, Functor(op, d) \in Functors, op # "send" \/ d \in userHolds,
             ioQueue' = Append(queue, Functor(op, d)), userHolds \subseteq userHolds'
      PROVE  SendersWait'
  <2>1. queue \in Seq(Functors) /\ \A c : HasSend(queue, c) => HasSend(ioQueue, c)
    BY <1>1, <1>4, HoldsTail DEF HasSend
  <2>2. \A c : HasSend(ioQueue', c) => HasSend(queue, c) \/ (op = "send" /\ c = d)
    BY <1>4, <2>1, HoldsAppend DEF HasSend
  <2>3. \A c \in Conns : HasSend(ioQueue', c) => c \in userHolds'
    BY <1>1, <1>4, <2>1, <2>2 DEF SendersWait
  <2> QED
    BY <2>3 DEF SendersWait
<1>5. CASE \/ Start \/ Listen \/ RefuseConnection \/ PeerConnects \/ BaseLoopEnds \/ DestroyServer
           \/ IoLoopEnds \/ IoThreadJoined \/ AcceptorDisables \/ AcceptorRemoves
           \/ AcceptorCloses \/ DestroyedReturns \/ FunctorReturns \/ CloseReturns
           \/ ReleaseBaseFunctor
           \/ \E c \in Conns : BeginSend(c) \/ PeerLeaves(c) \/ IoBatchEnds(c) \/ BaseBatchEnds(c)
           \/ \E f \in Fds : CloseEvent(f)
  <2>1. UNCHANGED <<ioQueue, userHolds>>
    BY <1>5, NothingLeftBehind
       DEF Start, Listen, RefuseConnection, PeerConnects, BaseLoopEnds, DestroyServer,
           IoLoopEnds, IoThreadJoined, AcceptorDisables, AcceptorRemoves, AcceptorCloses,
           DestroyedReturns, FunctorReturns, CloseReturns, ReleaseBaseFunctor, BeginSend,
           PeerLeaves, IoBatchEnds, BaseBatchEnds, CloseEvent, serverVars, ioVars
  <2> QED
    BY <1>2, <2>1
<1>6. CASE ConnectionEstablished \/ ConnectionDestroyed \/ WriteComplete \/ ReleaseIoFunctor
  <2>1. ioQueue # <<>> /\ ioQueue' = Tail(ioQueue) /\ userHolds \subseteq userHolds'
    BY <1>6
       DEF ConnectionEstablished, ConnectionDestroyed, WriteComplete, ReleaseIoFunctor,
           NextFunctor, serverVars
  <2> QED
    BY <1>3, <2>1
<1>7. ASSUME NEW c \in Conns, NEW f \in Fds, NewConnection(c, f)  PROVE SendersWait'
  <2>1. Functor("established", c) \in Functors
    BY DEF Functor, Functors
  <2> QED
    BY <1>4, <1>7, <2>1 DEF NewConnection
<1>8. CASE RemoveConnectionInLoop
  <2>1. Functor("destroyed", Head(baseQueue).conn) \in Functors
    <3>1. Head(baseQueue) \in Removals
      <4>1. baseQueue \in Seq(Removals) /\ baseQueue # <<>>
        BY <1>8 DEF RemoveConnectionInLoop, LifeInv, ServerTypeOK, Removals
      <4> QED
        BY <4>1
    <3> QED
      BY <3>1 DEF Removals, Functor, Functors
  <2> QED
    BY <1>4, <1>8, <2>1 DEF RemoveConnectionInLoop, WithDestroyedFunctor
<1>9. CASE RunSend
  <2>1. Functor("writeComplete", Head(ioQueue).conn) \in Functors /\ ioQueue # <<>>
    BY <1>9, NextFunctorLive DEF RunSend, Functor, Functors
  <2>2. /\ \/ ioQueue' = Tail(ioQueue)
           \/ ioQueue' = Append(Tail(ioQueue), Functor("writeComplete", Head(ioQueue).conn))
        /\ UNCHANGED userHolds
    BY <1>9, SendOutcome DEF RunSend, serverVars
  <2> QED
    BY <1>3, <1>4, <2>1, <2>2
<1>10. CASE UserSends
  <2>1. Functor("writeComplete", ioPc.conn) \in Functors
    BY <1>10, InsideLive DEF UserSends, Functor, Functors
  <2>2. /\ ioQueue' = ioQueue \/ ioQueue' = Append(ioQueue, Functor("writeComplete", ioPc.conn))
        /\ UNCHANGED userHolds
    BY <1>10, SendOutcome DEF UserSends, serverVars
  <2> QED
    BY <1>2, <1>4, <2>1, <2>2
<1>11. ASSUME NEW c \in Conns, QueueSend(c)  PROVE SendersWait'
  <2>1. Functor("send", c) \in Functors /\ c \in userHolds
    BY <1>1, <1>11 DEF QueueSend, Functor, Functors
  <2> QED
    BY <1>4, <1>11, <2>1 DEF QueueSend
<1>12. ASSUME NEW c \in Conns, UserDrops(c)  PROVE SendersWait'
  BY <1>1, <1>12 DEF UserDrops, SendersWait, HasSend, ioVars
<1> QED
  BY <1>5, <1>6, <1>7, <1>8, <1>9, <1>10, <1>11, <1>12
     DEF ServerNext, Accept, IoStep, BaseStep, Teardown

(* A registered connection stays up, or stays on its way out. *)
LEMMA RegisteredKept ==
  ASSUME CarefulUser, ServerInv, ServerNext, IoRunning'
  PROVE  Registered' /\ Removable'
<1> USE ConnsAreHandlers
<1>1. /\ IoRunning /\ LifeInv /\ Fixtures /\ TypeOK /\ Ownership /\ Registered /\ Removable
      /\ ioQueue \in Seq(Functors) /\ baseQueue \in Seq(Removals)
      /\ m_state \in [Conns -> {"kConnecting", "kConnected", "kDisconnected"}]
  BY IoRunningBefore, InvFixtures
     DEF ServerInv, LifeInv, ServerTypeOK, Fixtures, Functors, Removals
<1> USE <1>1
(* Steps that leave the connections' handlers and their way out. *)
<1>2. ASSUME \A c \in Conns : handlers'[c] = handlers[c] \/ handlers'[c].m_state = kNew,
             \A c \in Conns : handlers'[c].m_state # kNew /\ Leaving(c) => Leaving(c)',
             \A c \in Conns : handlers'[c].m_state # kNew /\ ~Leaving(c) =>
                             m_state'[c] = m_state[c] /\ (c \in userHolds => c \in userHolds')
      PROVE  Registered'
  BY <1>1, <1>2 DEF Registered
<1>3. ASSUME \A c \in Conns : handlers'[c] = handlers[c] \/ ioPc.conn # c,
             ioPc'.in = "destroyed" => ioPc' = ioPc
      PROVE  Removable'
  <2>1. ASSUME ioPc'.in = "destroyed"
        PROVE  handlers'[ioPc'.conn].m_state # kNew /\ handlers'[ioPc'.conn].m_events = {}
    <3>1. ioPc' = ioPc /\ ioPc # Idle /\ ioPc.in = "destroyed"
      BY <1>3, <2>1 DEF Idle
    <3>2. handlers'[ioPc.conn] = handlers[ioPc.conn]
      BY <1>3, <3>1, InsideLive
    <3> QED
      BY <1>1, <3>1, <3>2 DEF Removable
  <2> QED
    BY <2>1 DEF Removable
<1>4. CASE \/ Start \/ RefuseConnection \/ PeerConnects \/ BaseLoopEnds \/ DestroyServer
           \/ \E c \in Conns : BeginSend(c) \/ PeerLeaves(c)
  <2>1. UNCHANGED <<handlers, m_state, userHolds, ioQueue, ioPc, baseQueue>>
    BY <1>4, NothingLeftBehind
       DEF Start, RefuseConnection, PeerConnects, BaseLoopEnds, DestroyServer, BeginSend,
           PeerLeaves, pollerVars, serverVars, ioVars, baseVars
  <2>2. \A c \in Conns : Leaving(c) => Leaving(c)'
    BY <2>1 DEF Leaving
  <2> QED
    BY <1>2, <1>3, <2>1, <2>2
<1>5. CASE Listen
  <2>1. /\ Live(AcceptHandler) /\ UpdateAsserts(AcceptHandler)
        /\ handlers[AcceptHandler].m_events \cup {"read"} \in SUBSET Flags
    <3>1. Live(AcceptHandler) /\ handlers[AcceptHandler].m_events \cup {"read"} \in SUBSET Flags
      BY <1>1, <1>5, TcpServerAssumption, EPollPollerAssumption
         DEF Listen, Fixtures, AcceptorRegistered, Live, TypeOK, Flags
    <3> QED
      BY <1>1, <3>1, MayUpdate
  <2>2. \A c \in Conns : handlers'[c] = handlers[c]
    BY <1>1, <1>5, <2>1, UpdateStep DEF Listen, EnableReading
  <2>3. UNCHANGED <<m_state, userHolds, ioQueue, ioPc, baseQueue>>
    BY <1>5 DEF Listen, serverVars, ioVars, baseVars
  <2>4. \A c \in Conns : Leaving(c) => Leaving(c)'
    BY <2>3 DEF Leaving
  <2> QED
    BY <1>2, <1>3, <2>2, <2>3, <2>4
<1>6. ASSUME NEW d \in Conns, NEW f \in Fds, NewConnection(d, f)
      PROVE  Registered' /\ Removable'
  <2>1. /\ ~Live(d) /\ handlers'[d].m_state = kNew
        /\ \A c \in Conns : c # d => handlers'[c] = handlers[c]
    BY <1>1, <1>6, ConstructStep DEF NewConnection
  <2>2. /\ ioQueue' = Append(ioQueue, Functor("established", d))
        /\ m_state' = [m_state EXCEPT ![d] = "kConnecting"]
        /\ UNCHANGED <<userHolds, ioPc, baseQueue>>
    BY <1>6 DEF NewConnection, baseVars
  <2>3. Functor("established", d) \in Functors
    BY DEF Functor, Functors
  <2>4. \A c \in Conns : Leaving(c) => Leaving(c)'
    BY <1>1, <2>2, <2>3, HoldsAppend DEF Leaving
  <2>5. ioPc.conn # d
    BY <2>1 DEF LifeInv, LiveIffHeld, Held
  <2> QED
    BY <1>1, <1>2, <1>3, <2>1, <2>2, <2>4, <2>5
<1>7. CASE RemoveConnectionInLoop
  <2>1. PICK d : d = Head(baseQueue).conn
    OBVIOUS
  <2>2. baseQueue # <<>> /\ Head(baseQueue) \in Removals
    <3>1. baseQueue # <<>>
      BY <1>7 DEF RemoveConnectionInLoop
    <3> QED
      BY <1>1, <3>1
  <2>3. d \in Conns /\ Functor("destroyed", d) \in Functors /\ Head(baseQueue) = Functor("remove", d)
    BY <2>1, <2>2 DEF Removals, Functor, Functors
  <2>4. /\ ioQueue' = Append(ioQueue, Functor("destroyed", d)) /\ baseQueue' = Tail(baseQueue)
        /\ UNCHANGED <<handlers, m_state, userHolds, ioPc>>
    BY <1>7, <2>1 DEF RemoveConnectionInLoop, WithDestroyedFunctor, pollerVars
  <2>5. \A c : Functor("remove", c) \in Range(baseQueue)
              => Functor("remove", c) \in Range(baseQueue') \/ c = d
    <3>1. \A c : Functor("remove", c) = Functor("remove", d) => c = d
      BY DEF Functor
    <3> QED
      BY <1>1, <2>2, <2>3, <2>4, <3>1, HoldsTail
  <2>6. \A c : Functor("destroyed", c) \in Range(ioQueue) \/ c = d
              => Functor("destroyed", c) \in Range(ioQueue')
    BY <1>1, <2>3, <2>4, HoldsAppend
  <2>7. \A c \in Conns : Leaving(c) => Leaving(c)'
    BY <2>4, <2>5, <2>6 DEF Leaving
  <2> QED
    BY <1>2, <1>3, <2>4, <2>7
(* What the next functor leaves in the queue. *)
<1>8. ASSUME NEW op, NextFunctor(op), op # "destroyed"
      PROVE  /\ ioPc = Idle /\ ioQueue # <<>> /\ Tail(ioQueue) \in Seq(Functors)
             /\ Head(ioQueue).conn \in Conns
             /\ \A c : Functor("destroyed", c) \in Range(ioQueue)
                     => Functor("destroyed", c) \in Range(Tail(ioQueue))
  <2>1. /\ ioPc = Idle /\ ioQueue # <<>> /\ Head(ioQueue).op = op /\ Head(ioQueue).conn \in Conns
    BY <1>8, NextFunctorLive
  <2>2. \A c : Functor("destroyed", c).op = "destroyed"
    BY DEF Functor
  <2> QED
    BY <1>1, <1>8, <2>1, <2>2, HoldsTail
<1>9. CASE ConnectionEstablished
  <2>1. PICK d : d = Head(ioQueue).conn
    OBVIOUS
  <2>2. d \in Conns /\ Live(d) /\ ioPc = Idle
    BY <1>9, <2>1, NextFunctorLive DEF ConnectionEstablished, Holding
  <2>3. UpdateAsserts(d) /\ handlers[d].m_events \cup {"read"} \in SUBSET Flags
    BY <1>1, <2>2, MayUpdate DEF TypeOK, Flags
  <2>4. /\ Update(d, handlers[d].m_events \cup {"read"}) /\ ioQueue' = Tail(ioQueue)
        /\ ioPc' = In("up", d) /\ m_state' = [m_state EXCEPT ![d] = "kConnected"]
        /\ userHolds' = userHolds \cup {d} /\ UNCHANGED baseQueue
    BY <1>9, <2>1 DEF ConnectionEstablished, EnableReading, CarefulUser, baseVars
  <2>5. \A c \in Conns : c # d => handlers'[c] = handlers[c]
    BY <1>1, <2>2, <2>3, <2>4, UpdateStep
  <2>6. \A c \in Conns : Leaving(c) => Leaving(c)'
    <3>1. \A c : Functor("destroyed", c) \in Range(ioQueue)
                => Functor("destroyed", c) \in Range(ioQueue')
      BY <1>8, <1>9, <2>4 DEF ConnectionEstablished
    <3> QED
      BY <2>2, <2>4, <3>1 DEF Leaving, Idle, In
  <2>7. m_state'[d] = "kConnected" /\ d \in userHolds'
    BY <1>1, <2>2, <2>4
  <2>8. \A c \in Conns : c # d => m_state'[c] = m_state[c]
    BY <1>1, <2>4
  <2>9. Registered'
    BY <1>1, <2>4, <2>5, <2>6, <2>7, <2>8 DEF Registered
  <2>10. Removable'
    BY <2>4 DEF Removable, In
  <2> QED
    BY <2>9, <2>10
<1>10. CASE ConnectionDestroyed
  <2>1. PICK d : d = Head(ioQueue).conn
    OBVIOUS
  <2>2. d \in Conns /\ Live(d) /\ ioPc = Idle /\ ioQueue # <<>> /\ Head(ioQueue) = Functor("destroyed", d)
    BY <1>10, <2>1, NextFunctorLive DEF ConnectionDestroyed, Holding
  <2>3. UpdateAsserts(d)
    BY <1>1, <2>2, MayUpdate
  <2>4. /\ Update(d, {}) /\ ioQueue' = Tail(ioQueue)
        /\ ioPc' = In("destroyed", d) /\ m_state' = [m_state EXCEPT ![d] = "kDisconnected"]
        /\ UNCHANGED <<userHolds, baseQueue>>
    BY <1>10, <2>1 DEF ConnectionDestroyed, DisableAll, baseVars
  <2>5. /\ \A c \in Conns : c # d => handlers'[c] = handlers[c]
        /\ handlers'[d].m_events = {} /\ handlers'[d].m_state # kNew
    BY <1>1, <2>2, <2>3, <2>4, UpdateStep
  <2>6. \A c \in Conns : c # d /\ Leaving(c) => Leaving(c)'
    <3>1. \A c : c # d /\ Functor("destroyed", c) \in Range(ioQueue)
                => Functor("destroyed", c) \in Range(ioQueue')
      <4>1. \A c : Functor("destroyed", c) = Functor("destroyed", d) => c = d
        BY DEF Functor
      <4> QED
        BY <1>1, <2>2, <2>4, <4>1, HoldsTail
    <3> QED
      BY <2>2, <2>4, <3>1 DEF Leaving, Idle, In
  <2>7. Leaving(d)'
    BY <2>4 DEF Leaving
  <2>8. Registered'
    BY <1>1, <2>4, <2>5, <2>6, <2>7 DEF Registered
  <2>9. Removable'
    BY <2>4, <2>5 DEF Removable, In
  <2> QED
    BY <2>8, <2>9
<1>11. CASE DestroyedReturns
  <2>1. /\ ioPc # Idle /\ ioPc.in = "destroyed" /\ RemoveHandler(ioPc.conn) /\ ioPc' = Idle
        /\ UNCHANGED <<m_state, userHolds, ioQueue, baseQueue>>
    BY <1>11 DEF DestroyedReturns, RemovesHandler, Idle, serverVars, baseVars
  <2>2. PICK d \in Conns : d = ioPc.conn /\ Live(d)
    BY <2>1, InsideLive
  <2>3. RemoveHandler(d) /\ RemoveAsserts(d)
    BY <2>1, <2>2, MayRemove
  <2>4. /\ handlers'[d].m_state = kNew
        /\ \A c \in Conns : c # d => handlers'[c] = handlers[c]
    BY <1>1, <2>2, <2>3, RemoveStep
  <2>5. \A c \in Conns : c # d /\ Leaving(c) => Leaving(c)'
    BY <2>1, <2>2 DEF Leaving, In
  <2>6. Registered'
    BY <1>2, <2>1, <2>4, <2>5
  <2>7. Removable'
    BY <2>1 DEF Removable, Idle
  <2> QED
    BY <2>6, <2>7
<1>12. CASE WriteComplete \/ RunSend
  <2>1. /\ ioPc = Idle /\ Tail(ioQueue) \in Seq(Functors) /\ Head(ioQueue).conn \in Conns
        /\ \A c : Functor("destroyed", c) \in Range(ioQueue)
                => Functor("destroyed", c) \in Range(Tail(ioQueue))
    BY <1>8, <1>12 DEF WriteComplete, RunSend
  <2>2. /\ \/ ioQueue' = Tail(ioQueue)
           \/ ioQueue' = Append(Tail(ioQueue), Functor("writeComplete", Head(ioQueue).conn))
        /\ ioPc'.in # "destroyed"
        /\ UNCHANGED <<handlers, m_state, userHolds, baseQueue>>
    BY <1>12, <2>1
       DEF WriteComplete, RunSend, SendInLoop, CarefulUser, serverVars, baseVars, pollerVars, In,
           Idle
  <2>3. \A c : Functor("destroyed", c) \in Range(ioQueue)
              => Functor("destroyed", c) \in Range(ioQueue')
    <3>1. Functor("writeComplete", Head(ioQueue).conn) \in Functors
      BY <2>1 DEF Functor, Functors
    <3>2. CASE ioQueue' = Tail(ioQueue)
      BY <2>1, <3>2
    <3>3. CASE ioQueue' = Append(Tail(ioQueue), Functor("writeComplete", Head(ioQueue).conn))
      <4> DEFINE rest == Tail(ioQueue)
                 functor == Functor("writeComplete", Head(ioQueue).conn)
      <4>1. rest \in Seq(Functors) /\ functor \in Functors /\ ioQueue' = Append(rest, functor)
        BY <2>1, <3>1, <3>3
      <4> HIDE DEF rest, functor
      <4>2. Range(rest) \subseteq Range(ioQueue')
        BY <4>1, RangeAppend
      <4> QED
        BY <2>1, <4>2 DEF rest
    <3> QED
      BY <2>2, <3>2, <3>3
  <2>4. \A c \in Conns : Leaving(c) => Leaving(c)'
    BY <2>1, <2>2, <2>3 DEF Leaving, Idle, In
  <2>5. Registered'
    BY <1>2, <2>2, <2>4
  <2>6. Removable'
    BY <2>2 DEF Removable
  <2> QED
    BY <2>5, <2>6
<1>13. CASE FunctorReturns
  <2>1. /\ ioPc.in \in {"up", "writeComplete"} /\ ioPc' = Idle
        /\ UNCHANGED <<handlers, m_state, userHolds, ioQueue, baseQueue>>
    BY <1>13 DEF FunctorReturns, serverVars, baseVars, pollerVars
  <2>2. \A c \in Conns : Leaving(c) => Leaving(c)'
    BY <2>1 DEF Leaving, In
  <2>3. Registered'
    BY <1>2, <2>1, <2>2
  <2>4. Removable'
    BY <2>1 DEF Removable, Idle
  <2> QED
    BY <2>3, <2>4
<1>14. CASE CloseReturns
  <2>1. PICK d : d = ioPc.conn
    OBVIOUS
  <2>2. /\ d \in Conns /\ ioPc = In("down", d) /\ ioPc' = Idle
        /\ baseQueue' = Append(baseQueue, Functor("remove", d))
        /\ UNCHANGED <<handlers, m_state, userHolds, ioQueue>>
    BY <1>14, <2>1, InsideLive DEF CloseReturns, serverVars, pollerVars, Idle
  <2>3. Functor("remove", d) \in Removals
    BY <2>2 DEF Functor, Removals
  <2>4. \A c : Functor("remove", c) \in Range(baseQueue) \/ c = d
              => Functor("remove", c) \in Range(baseQueue')
    BY <1>1, <2>2, <2>3, HoldsAppend
  <2>5. \A c \in Conns : Leaving(c) => Leaving(c)'
    BY <2>2, <2>4 DEF Leaving, In
  <2>6. Registered'
    BY <1>2, <2>2, <2>5
  <2>7. Removable'
    BY <2>2 DEF Removable, Idle
  <2> QED
    BY <2>6, <2>7
<1>15. ASSUME NEW f \in Fds, CloseEvent(f)  PROVE Registered' /\ Removable'
  <2>1. PICK d : d = epoll[f].ptr
    OBVIOUS
  <2>2. d \in Conns /\ Live(d) /\ ioPc = Idle
    BY <1>15, <2>1, EventLive
  <2>3. UpdateAsserts(d)
    BY <1>1, <2>2, MayUpdate
  <2>4. /\ Update(d, {}) /\ ioPc' = In("down", d)
        /\ m_state' = [m_state EXCEPT ![d] = "kDisconnected"]
        /\ UNCHANGED <<userHolds, ioQueue, baseQueue>>
    BY <1>15, <2>1 DEF CloseEvent, LosesInterest, DisableAll, baseVars
  <2>5. \A c \in Conns : c # d => handlers'[c] = handlers[c]
    BY <1>1, <2>2, <2>3, <2>4, UpdateStep
  <2>6. \A c \in Conns : Leaving(c) \/ c = d => Leaving(c)'
    BY <2>2, <2>4 DEF Leaving, Idle, In
  <2>7. Registered'
    BY <1>1, <2>4, <2>5, <2>6 DEF Registered
  <2>8. Removable'
    BY <2>4 DEF Removable, In
  <2> QED
    BY <2>7, <2>8
<1>16. CASE UserSends
  <2>1. /\ ioQueue' = Append(ioQueue, Functor("writeComplete", ioPc.conn))
        /\ UNCHANGED <<handlers, m_state, userHolds, ioPc, baseQueue>>
    BY <1>16 DEF UserSends, SendInLoop, CarefulUser, serverVars, baseVars, pollerVars
  <2>2. Functor("writeComplete", ioPc.conn) \in Functors
    BY <1>16, InsideLive DEF UserSends, Functor, Functors
  <2>3. \A c \in Conns : Leaving(c) => Leaving(c)'
    BY <1>1, <2>1, <2>2, HoldsAppend DEF Leaving
  <2> QED
    BY <1>2, <1>3, <2>1, <2>3
<1>17. ASSUME NEW d \in Conns, QueueSend(d)  PROVE Registered' /\ Removable'
  <2>1. /\ ioQueue' = Append(ioQueue, Functor("send", d))
        /\ UNCHANGED <<handlers, m_state, userHolds, ioPc, baseQueue>>
    BY <1>17 DEF QueueSend, baseVars, pollerVars
  <2>2. Functor("send", d) \in Functors
    BY DEF Functor, Functors
  <2>3. \A c \in Conns : Leaving(c) => Leaving(c)'
    BY <1>1, <2>1, <2>2, HoldsAppend DEF Leaving
  <2> QED
    BY <1>2, <1>3, <2>1, <2>3
<1>18. ASSUME NEW d \in Conns, BaseBatchEnds(d) \/ IoBatchEnds(d) \/ UserDrops(d)
       PROVE  Registered' /\ Removable'
  <2>1. PICK holder \in {"user", "ioBatch", "baseBatch"} :
          Drop(d, holder) /\ (holder = "user" => m_state[d] = "kDisconnected")
    BY <1>1, <1>18 DEF BaseBatchEnds, IoBatchEnds, UserDrops, IoRunning
  <2>2. Live(d) /\ server' = server
    BY <1>18 DEF BaseBatchEnds, IoBatchEnds, UserDrops, LifeInv, LiveIffHeld, Held, startVars
  <2>3. /\ UNCHANGED <<m_state, ioPc, ioQueue, baseQueue>>
        /\ \A c \in Conns : c # d \/ m_state[d] # "kDisconnected" => (c \in userHolds => c \in userHolds')
    BY <1>1, <1>18
       DEF BaseBatchEnds, IoBatchEnds, UserDrops, serverVars, ioVars, baseVars, IoRunning
  <2>4. \A c \in Conns : Leaving(c) => Leaving(c)'
    BY <2>3 DEF Leaving
  <2>5. \A c \in Conns : c # d => handlers'[c] = handlers[c]
    BY <1>1, <2>1, <2>2, DropFixtures
  <2>6. handlers'[d] = handlers[d] \/ (handlers'[d].m_state = kNew /\ ioPc.conn # d)
    <3>1. CASE Holders(d) \subseteq {holder}
      <4>1. handlers'[d] = Nothing
        BY <1>1, <2>1, <3>1 DEF Drop, DestroyConnection, TypeOK
      <4>2. ioPc.conn # d
        BY <3>1, LastHolder DEF LifeInv
      <4> QED
        BY <4>1, <4>2 DEF Nothing
    <3> QED
      BY <2>1, <3>1 DEF Drop, pollerVars
  <2>7. Registered'
    BY <1>1, <2>3, <2>4, <2>5, <2>6 DEF Registered
  <2>8. Removable'
    BY <1>3, <2>3, <2>5, <2>6
  <2> QED
    BY <2>7, <2>8
<1>19. ~(\/ IoLoopEnds \/ IoThreadJoined \/ ReleaseIoFunctor \/ ReleaseBaseFunctor
         \/ AcceptorDisables \/ AcceptorRemoves \/ AcceptorCloses)
  BY <1>1
     DEF IoLoopEnds, IoThreadJoined, ReleaseIoFunctor, ReleaseBaseFunctor, AcceptorDisables,
         AcceptorRemoves, AcceptorCloses, IoRunning
<1> QED
  BY <1>4, <1>5, <1>6, <1>7, <1>9, <1>10, <1>11, <1>12, <1>13, <1>14, <1>15, <1>16, <1>17,
     <1>18, <1>19
     DEF ServerNext, Accept, IoStep, BaseStep, Teardown

-----------------------------------------------------------------------------
LEMMA InitServerInv == Init => ServerInv /\ SendersWait
<1> SUFFICES ASSUME Init  PROVE ServerInv /\ SendersWait
  OBVIOUS
<1> USE TcpServerAssumption, EPollPollerAssumption
<1>1. /\ Nothing.m_fd = NoFd /\ Nothing.m_state = kNew /\ Nothing.m_events = {}
      /\ [Nothing EXCEPT !.m_fd = ListenFd] = [m_fd |-> ListenFd, m_events |-> {}, m_state |-> kNew]
      /\ Nothing \in [m_fd : Fds \cup {NoFd}, m_events : SUBSET Flags,
                      m_state : {kNew, kAdded, kDeleted}]
  BY DEF Nothing
<1>2. /\ \A h \in Handlers : h # AcceptHandler => handlers[h] = Nothing
      /\ handlers[AcceptHandler] = [m_fd |-> ListenFd, m_events |-> {}, m_state |-> kNew]
      /\ openFds = {ListenFd, IdleFd}
      /\ \A f \in Fds : m_handlermap[f] = NoHandler /\ epoll[f] = Absent
  BY <1>1 DEF Init
<1>3. TypeOK
  BY <1>1 DEF Init, TypeOK, Absent
<1>4. Ownership
  <2>1. \A h \in Handlers : handlers[h].m_fd = NoFd => handlers[h] = Nothing
    BY <1>2
  <2>2. \A h \in Handlers : handlers[h].m_fd # NoFd => handlers[h].m_fd \in openFds
    BY <1>1, <1>2
  <2>3. \A g, h \in Handlers :
          handlers[g].m_fd # NoFd /\ handlers[g].m_fd = handlers[h].m_fd => g = h
    BY <1>1, <1>2
  <2> QED
    BY <2>1, <2>2, <2>3, Zenon DEF Ownership
<1>5. IInv
  <2>1. \A h \in Handlers : handlers[h].m_state = kNew /\ handlers[h].m_events = {}
    BY <1>1, <1>2, ZenonT(30)
  <2>2. Mapped
    BY <1>2, <2>1 DEF Mapped
  <2>3. Watched
    BY <1>2, <2>1 DEF Watched, kNew, kAdded
  <2>4. AssertionsHold
    BY DEF Init, AssertionsHold
  <2> QED
    BY <1>3, <1>4, <2>2, <2>3, <2>4 DEF IInv
<1>6. \A c \in Conns : handlers[c] = Nothing
  BY <1>2 DEF Conns
<1>7. ServerTypeOK /\ backlog <= opened
  <2>1. /\ server \in ServerPhases /\ m_started \in BOOLEAN /\ m_blistenning \in BOOLEAN
        /\ m_state \in [Conns -> {"kConnecting", "kConnected", "kDisconnected"}]
    BY DEF Init, ServerPhases
  <2>2. /\ userHolds \subseteq Conns /\ sending \subseteq userHolds /\ m_connections \subseteq Conns
        /\ ioBatch \subseteq Conns /\ baseBatch \subseteq Conns /\ gone \subseteq Conns
    BY DEF Init
  <2>3. ioQueue = <<>> /\ baseQueue = <<>> /\ ioPc = Idle
    BY DEF Init
  <2>4. /\ backlog \in 0 .. MaxAccepts /\ opened \in 0 .. MaxAccepts /\ sent \in 0 .. MaxSends
        /\ backlog <= opened
    BY DEF Init
  <2> QED
    BY <1>3, <2>1, <2>2, <2>3, <2>4 DEF ServerTypeOK
<1>8. Phases
  BY DEF Init, Phases, IoRunning
<1>9. \A c \in Conns : ~Held(c) /\ ~HasSend(ioQueue, c)
  BY HoldsEmpty, ConnsAreHandlers DEF Init, Held, HasSend, Idle
<1>10. LiveIffHeld /\ SendersWait
  BY <1>1, <1>6, <1>9 DEF LiveIffHeld, SendersWait, Live
<1>11. Descriptors
  <2>1. \A c \in Conns : handlers[c].m_fd = NoFd
    BY <1>6 DEF Nothing
  <2>2. server = "running" /\ ListenFd # NoFd /\ IdleFd # NoFd /\ NoFd \notin Fds
    BY <1>1 DEF Init
  <2> QED
    BY <1>2, <2>1, <2>2 DEF Descriptors
<1>12. AcceptorRegistered
  BY <1>2 DEF Init, AcceptorRegistered
<1>13. Registered /\ Removable
  BY <1>1, <1>6 DEF Init, Registered, Removable, Idle
<1>14. KernelLive
  BY <1>2 DEF KernelLive
<1> QED
  BY <1>4, <1>5, <1>7, <1>8, <1>10, <1>11, <1>12, <1>13, <1>14
     DEF ServerInv, LifeInv, IInv, AssertionsHold, NoAbort

(* Whoever uses the server how ... *)
LEMMA NextLifeInv ==
  ASSUME LifeInv, [ServerNext]_vars
  PROVE  LifeInv'
<1>1. CASE ServerNext
  <2>1. Fixtures'
    BY <1>1, FixturesKept
  <2>2. ServerTypeOK' /\ (backlog <= opened)'
    BY <1>1, <2>1, TypesKept
  <2>3. Phases' /\ LiveIffHeld'
    BY <1>1, PhasesKept, LiveKept DEF LifeInv, ServerTypeOK
  <2> QED
    BY <2>1, <2>2, <2>3 DEF LifeInv, Fixtures
<1>2. CASE UNCHANGED vars
  <2>1. ServerTypeOK' /\ (backlog <= opened)' /\ Ownership' /\ KernelLive'
    BY <1>2
       DEF LifeInv, ServerTypeOK, TypeOK, Ownership, KernelLive, vars, pollerVars, startVars,
           serverVars, ioVars, baseVars, envVars
  <2>2. LiveIffHeld' /\ Descriptors' /\ AcceptorRegistered' /\ Phases'
    BY <1>2
       DEF LifeInv, LiveIffHeld, Live, Held, Descriptors, AcceptorRegistered, Phases, IoRunning,
           vars, pollerVars, startVars, serverVars, ioVars, baseVars, envVars
  <2> QED
    BY <2>1, <2>2 DEF LifeInv
<1> QED
  BY <1>1, <1>2

LEMMA LifeInvHolds == ServerSpec => []LifeInv
<1>1. Init => LifeInv
  BY InitServerInv DEF ServerInv
<1>2. LifeInv /\ [ServerNext]_vars => LifeInv'
  BY NextLifeInv
<1> QED
  BY <1>1, <1>2, PTL DEF ServerSpec

(* ... the user that waits for its own functors ... *)
LEMMA SendersWaitHolds ==
  ASSUME UserWaits
  PROVE  ServerSpec => []SendersWait
<1>1. LifeInv /\ SendersWait /\ [ServerNext]_vars => SendersWait'
  <2>1. ASSUME SendersWait, UNCHANGED vars  PROVE SendersWait'
    BY <2>1 DEF SendersWait, vars, serverVars, ioVars
  <2> QED
    BY <2>1, SendersKept
<1>2. Init => SendersWait
  BY InitServerInv
<1> QED
  BY <1>1, <1>2, LifeInvHolds, PTL DEF ServerSpec

(* ... and the careful one. *)
LEMMA NextServerInv ==
  ASSUME CarefulUser, ServerInv, [ServerNext]_vars
  PROVE  ServerInv'
<1>1. LifeInv'
  BY NextLifeInv DEF ServerInv
<1>2. CASE ServerNext
  BY <1>1, <1>2, NoAbortKept, PollerKept, RegisteredKept DEF ServerInv
<1>3. CASE UNCHANGED vars
  <2>1. NoAbort'
    BY <1>3 DEF ServerInv, NoAbort, vars, pollerVars
  <2>2. (IoRunning => IInv /\ Registered /\ Removable)'
    BY <1>3
       DEF ServerInv, IoRunning, IInv, TypeOK, AssertionsHold, Ownership, Mapped, Watched,
           Registered, Leaving, Removable, vars, pollerVars, startVars, serverVars, ioVars,
           baseVars, envVars
  <2> QED
    BY <1>1, <2>1, <2>2 DEF ServerInv
<1> QED
  BY <1>2, <1>3

LEMMA ServerInvHolds ==
  ASSUME CarefulUser
  PROVE  ServerSpec => []ServerInv
<1>1. ServerInv /\ [ServerNext]_vars => ServerInv'
  BY NextServerInv
<1>2. Init => ServerInv
  BY InitServerInv
<1> QED
  BY <1>1, <1>2, PTL DEF ServerSpec

-----------------------------------------------------------------------------
(* Types of the whole state: the numbers stay within their bounds, and a functor names
   an address that a connection can have. *)
THEOREM ServerTypeCorrect == ServerSpec => []ServerTypeOK
<1>1. LifeInv => ServerTypeOK
  BY DEF LifeInv
<1> QED
  BY <1>1, LifeInvHolds, PTL

(* Whatever the user does with its own pointers, and whether messages fit or not: the
   connections that exist are those that a functor that waits or runs, an event or the
   user has a TcpConnectionPtr to.  None is destroyed under one, and none is left
   without one. *)
THEOREM LiveIffHeldAlways == ServerSpec => []LiveIffHeld
<1>1. LifeInv => LiveIffHeld
  BY DEF LifeInv
<1> QED
  BY <1>1, LifeInvHolds, PTL

(* Nor does the kernel hand back a handler that is gone, or of another descriptor:
   even one that is destroyed unremoved takes its descriptor with it. *)
THEOREM KernelLiveAlways == ServerSpec => []KernelLive
<1>1. LifeInv => KernelLive
  BY DEF LifeInv
<1> QED
  BY <1>1, LifeInvHolds, PTL

(* A functor, an event or a callback that uses a connection finds it alive, whoever
   drops its TcpConnectionPtr when; with the functors of send(), which hold none, if
   the user waits for them. *)
THEOREM UsedConnectionsLiveAlways ==
  ASSUME UserWaits
  PROVE  ServerSpec => []UsedConnectionsLive
<1>1. ASSUME LifeInv, SendersWait, NEW c \in Conns, Holders(c) # {} \/ HasSend(ioQueue, c)
      PROVE  Live(c)
  <2>1. c \notin m_connections
    BY <1>1 DEF LifeInv, Phases
  <2>2. Held(c)
    BY <1>1, <2>1 DEF SendersWait, Holders, Held
  <2> QED
    BY <1>1, <2>2 DEF LifeInv, LiveIffHeld
<1>2. LifeInv /\ SendersWait => UsedConnectionsLive
  BY <1>1 DEF UsedConnectionsLive
<1> QED
  BY <1>2, LifeInvHolds, SendersWaitHolds, PTL

(* However connections are accepted and removed, and addresses and descriptors used
   again, no assertion of updateHandler or removeHandler fails, in ~Acceptor neither. *)
THEOREM NoAbortAlways ==
  ASSUME CarefulUser
  PROVE  ServerSpec => []NoAbort
<1>1. ServerInv => NoAbort
  BY DEF ServerInv
<1> QED
  BY <1>1, ServerInvHolds, PTL

(* While the io loop runs, its poller's map leads to live handlers only: the last
   TcpConnectionPtr goes behind removeHandler. *)
THEOREM NoDanglingMapEntryAlways ==
  ASSUME CarefulUser
  PROVE  ServerSpec => []NoDanglingMapEntry
<1>1. ServerInv => NoDanglingMapEntry
  BY DEF ServerInv, IInv, Mapped, NoDanglingMapEntry
<1> QED
  BY <1>1, ServerInvHolds, PTL

(* When the server and its loops are gone, so is every descriptor but those of the
   connections that the user kept. *)
THEOREM TeardownClosesDescriptorsAlways == ServerSpec => []TeardownClosesDescriptors
<1>1. ASSUME LifeInv, server = "gone", baseQueue = <<>>
      PROVE  openFds = {handlers[c].m_fd : c \in userHolds}
  <2>1. /\ baseBatch = {} /\ ioBatch = {} /\ ioPc = Idle /\ ioQueue = <<>>
        /\ userHolds \subseteq Conns /\ openFds \subseteq Fds /\ TypeOK
    BY <1>1 DEF LifeInv, ServerTypeOK, TypeOK, Phases, IoRunning
  <2>2. \A c \in Conns : Live(c) <=> c \in userHolds
    BY <1>1, <2>1, HoldsEmpty, ConnsAreHandlers DEF LifeInv, LiveIffHeld, Held, Idle
  <2>3. \A f \in Fds : f \in openFds <=> \E c \in Conns : handlers[c].m_fd = f
    BY <1>1 DEF LifeInv, Descriptors
  <2>4. \A c \in Conns : Live(c) <=> handlers[c].m_fd \in Fds
    BY <2>1, ConnsAreHandlers, EPollPollerAssumption DEF TypeOK, Live
  <2> QED
    BY <2>1, <2>2, <2>3, <2>4
<1>2. LifeInv => TeardownClosesDescriptors
  BY <1>1 DEF TeardownClosesDescriptors
<1> QED
  BY <1>2, LifeInvHolds, PTL

-----------------------------------------------------------------------------
(* A connection is a ConnectionLife.  First the queues ... *)

LEMMA OnceAppend ==
  ASSUME NEW S, NEW q \in Seq(S), NEW e \in S, NEW ops, Once(q, ops),
         e.op \notin ops \/ e \notin Range(q)
  PROVE  Once(Append(q, e), ops)
<1>1. /\ DOMAIN Append(q, e) = DOMAIN q \cup {Len(q) + 1}
      /\ \A i \in DOMAIN q : Append(q, e)[i] = q[i]
      /\ Append(q, e)[Len(q) + 1] = e
  OBVIOUS
<1>2. \A i \in DOMAIN q : q[i] = e => e.op \notin ops
  BY DEF Range
<1> QED
  BY <1>1, <1>2 DEF Once

LEMMA OnceTail ==
  ASSUME NEW S, NEW q \in Seq(S), q # <<>>, NEW ops, Once(q, ops)
  PROVE  /\ Once(Tail(q), ops)
         /\ Head(q).op \in ops => Head(q) \notin Range(Tail(q))
<1>1. /\ \A i \in DOMAIN Tail(q) : i + 1 \in DOMAIN q /\ Tail(q)[i] = q[i + 1] /\ i \in Nat /\ i # 0
      /\ 1 \in DOMAIN q /\ Head(q) = q[1]
  OBVIOUS
<1>2. Once(Tail(q), ops)
  <2>1. ASSUME NEW i \in DOMAIN Tail(q), NEW j \in DOMAIN Tail(q),
               Tail(q)[i] = Tail(q)[j], Tail(q)[i].op \in ops
        PROVE  i = j
    <3>1. i + 1 = j + 1
      BY <1>1, <2>1 DEF Once
    <3> QED
      BY <1>1, <3>1
  <2> QED
    BY <2>1 DEF Once
<1>3. ASSUME Head(q).op \in ops, NEW i \in DOMAIN Tail(q), Tail(q)[i] = Head(q)
      PROVE  FALSE
  <2>1. i + 1 = 1
    BY <1>1, <1>3 DEF Once
  <2> QED
    BY <1>1, <2>1
<1> QED
  BY <1>2, <1>3 DEF Range

LEMMA FunctorFields ==
  /\ \A op, c : Functor(op, c).op = op /\ Functor(op, c).conn = c
  /\ \A op, name, c, d : Functor(op, c) = Functor(name, d) <=> op = name /\ c = d
BY DEF Functor

LEMMA UnderWayHeld ==
  ASSUME NEW c \in Conns, Starting(c) \/ Leaving(c)
  PROVE  Held(c)
<1>1. CASE Functor("established", c) \in Range(ioQueue) \/ Functor("destroyed", c) \in Range(ioQueue)
  BY <1>1, FunctorFields DEF Held, Holds, Holding
<1>2. CASE Functor("remove", c) \in Range(baseQueue)
  BY <1>2, FunctorFields DEF Held, Holds, Holding
<1>3. CASE ioPc \in {In("down", c), In("destroyed", c)}
  BY <1>3 DEF Held, In
<1> QED
  BY <1>1, <1>2, <1>3 DEF Starting, Leaving

(* ... then what the steps that matter do to the connection they are about, and that
   they leave the others. *)

LEMMA AcceptedEffect ==
  ASSUME LifeInv, NEW d \in Conns, NEW f \in Fds, NewConnection(d, f)
  PROVE  /\ ~Live(d) /\ Live(d)' /\ handlers'[d].m_state = kNew
         /\ \A c \in Conns : c # d => handlers'[c] = handlers[c]
         /\ m_state' = [m_state EXCEPT ![d] = "kConnecting"]
         /\ ioQueue' = Append(ioQueue, Functor("established", d))
         /\ UNCHANGED <<ioPc, baseQueue, server>>
<1>1. Fixtures /\ d \in Handlers
  BY InvFixtures, ConnsAreHandlers
<1>2. /\ ~Live(d) /\ handlers'[d].m_fd = f /\ handlers'[d].m_state = kNew
      /\ \A g \in Handlers : g # d => handlers'[g] = handlers[g]
  BY <1>1, ConstructStep DEF NewConnection, Fixtures
<1> QED
  BY <1>2, ConnsAreHandlers, EPollPollerAssumption
     DEF NewConnection, Live, baseVars, startVars

LEMMA EstablishedEffect ==
  ASSUME ServerInv, ConnectionEstablished
  PROVE  \E d \in Conns :
           /\ Live(d) /\ Live(d)' /\ handlers'[d].m_state # kNew
           /\ \A c \in Conns : c # d => handlers'[c] = handlers[c]
           /\ m_state' = [m_state EXCEPT ![d] = "kConnected"]
           /\ ioPc = Idle /\ ioPc' = In("up", d)
           /\ ioQueue # <<>> /\ Head(ioQueue) = Functor("established", d)
           /\ ioQueue' = Tail(ioQueue)
           /\ UNCHANGED <<baseQueue, server>>
<1> USE ConnsAreHandlers
<1>1. LifeInv /\ Fixtures
  BY InvFixtures DEF ServerInv
<1>2. PICK d : d = Head(ioQueue).conn
  OBVIOUS
<1>3. /\ d \in Conns /\ Live(d) /\ ioPc = Idle /\ IoRunning /\ ioQueue # <<>>
      /\ Head(ioQueue) = Functor("established", d)
  BY <1>1, <1>2, NextFunctorLive DEF ConnectionEstablished, Holding
<1>4. /\ Update(d, handlers[d].m_events \cup {"read"}) /\ ioQueue' = Tail(ioQueue)
      /\ ioPc' = In("up", d) /\ m_state' = [m_state EXCEPT ![d] = "kConnected"]
      /\ UNCHANGED <<baseQueue, server>>
  BY <1>2 DEF ConnectionEstablished, EnableReading, baseVars, startVars
<1>5. UpdateAsserts(d) /\ handlers[d].m_events \cup {"read"} \in SUBSET Flags
  BY <1>1, <1>3, MayUpdate DEF Fixtures, TypeOK, Flags
<1>6. /\ \A g \in Handlers : g # d => handlers'[g] = handlers[g]
      /\ handlers'[d].m_fd = handlers[d].m_fd /\ handlers'[d].m_state # kNew
  BY <1>1, <1>3, <1>4, <1>5, UpdateStep DEF Fixtures
<1> QED
  BY <1>3, <1>4, <1>6 DEF Live

LEMMA ClosedEffect ==
  ASSUME ServerInv, NEW f \in Fds, CloseEvent(f)
  PROVE  \E d \in Conns :
           /\ Live(d) /\ Live(d)' /\ handlers[d].m_state # kNew /\ handlers[d].m_events # {}
           /\ handlers'[d].m_state # kNew /\ handlers'[d].m_events = {}
           /\ \A c \in Conns : c # d => handlers'[c] = handlers[c]
           /\ m_state' = [m_state EXCEPT ![d] = "kDisconnected"]
           /\ ioPc = Idle /\ ioPc' = In("down", d)
           /\ UNCHANGED <<ioQueue, baseQueue, server>>
<1> USE ConnsAreHandlers
<1>1. LifeInv /\ Fixtures
  BY InvFixtures DEF ServerInv
<1>2. PICK d : d = epoll[f].ptr
  OBVIOUS
<1>3. d \in Conns /\ Live(d) /\ IoRunning /\ ioPc = Idle
  BY <1>1, <1>2, EventLive
<1>4. /\ Update(d, {}) /\ ioPc' = In("down", d) /\ "read" \in epoll[f].events
      /\ m_state' = [m_state EXCEPT ![d] = "kDisconnected"]
      /\ UNCHANGED <<ioQueue, baseQueue, server>>
  BY <1>2 DEF CloseEvent, LosesInterest, DisableAll, baseVars, startVars
<1>5. handlers[d].m_state = kAdded /\ "read" \in handlers[d].m_events
  <2>1. epoll[f] # Absent
    BY <1>4 DEF Absent
  <2>2. handlers[d].m_fd = f /\ handlers[d].m_state = kAdded
    BY <1>2, <1>3, <2>1 DEF ServerInv, IInv, Watched
  <2>3. epoll[f] = [ptr |-> d, events |-> handlers[d].m_events]
    BY <1>3, <2>2 DEF ServerInv, IInv, Watched
  <2> QED
    BY <1>4, <2>2, <2>3
<1>6. UpdateAsserts(d)
  BY <1>3, MayUpdate
<1>7. /\ \A g \in Handlers : g # d => handlers'[g] = handlers[g]
      /\ handlers'[d].m_fd = handlers[d].m_fd /\ handlers'[d].m_state # kNew
      /\ handlers'[d].m_events = {}
  BY <1>1, <1>3, <1>4, <1>6, UpdateStep DEF Fixtures
<1>8. handlers[d].m_state # kNew
  BY <1>5 DEF kNew, kAdded
<1> QED
  BY <1>3, <1>4, <1>5, <1>7, <1>8 DEF Live

LEMMA DestroyedEffect ==
  ASSUME ServerInv, ConnectionDestroyed
  PROVE  \E d \in Conns :
           /\ Live(d) /\ Live(d)'
           /\ handlers'[d].m_state # kNew /\ handlers'[d].m_events = {}
           /\ \A c \in Conns : c # d => handlers'[c] = handlers[c]
           /\ m_state' = [m_state EXCEPT ![d] = "kDisconnected"]
           /\ ioPc = Idle /\ ioPc' = In("destroyed", d)
           /\ ioQueue # <<>> /\ Head(ioQueue) = Functor("destroyed", d)
           /\ ioQueue' = Tail(ioQueue)
           /\ UNCHANGED <<baseQueue, server>>
<1> USE ConnsAreHandlers
<1>1. LifeInv /\ Fixtures
  BY InvFixtures DEF ServerInv
<1>2. PICK d : d = Head(ioQueue).conn
  OBVIOUS
<1>3. /\ d \in Conns /\ Live(d) /\ ioPc = Idle /\ IoRunning /\ ioQueue # <<>>
      /\ Head(ioQueue) = Functor("destroyed", d)
  BY <1>1, <1>2, NextFunctorLive DEF ConnectionDestroyed, Holding
<1>4. /\ Update(d, {}) /\ ioQueue' = Tail(ioQueue)
      /\ ioPc' = In("destroyed", d) /\ m_state' = [m_state EXCEPT ![d] = "kDisconnected"]
      /\ UNCHANGED <<baseQueue, server>>
  BY <1>2 DEF ConnectionDestroyed, DisableAll, baseVars, startVars
<1>5. UpdateAsserts(d)
  BY <1>3, MayUpdate
<1>6. /\ \A g \in Handlers : g # d => handlers'[g] = handlers[g]
      /\ handlers'[d].m_fd = handlers[d].m_fd /\ handlers'[d].m_state # kNew
      /\ handlers'[d].m_events = {}
  BY <1>1, <1>3, <1>4, <1>5, UpdateStep DEF Fixtures
<1> QED
  BY <1>3, <1>4, <1>6 DEF Live

LEMMA RemovedEffect ==
  ASSUME ServerInv, DestroyedReturns
  PROVE  \E d \in Conns :
           /\ Live(d) /\ Live(d)' /\ handlers[d].m_state # kNew /\ handlers'[d].m_state = kNew
           /\ \A c \in Conns : c # d => handlers'[c] = handlers[c]
           /\ ioPc = In("destroyed", d) /\ ioPc' = Idle
           /\ UNCHANGED <<m_state, ioQueue, baseQueue, server>>
<1> USE ConnsAreHandlers
<1>1. LifeInv /\ Fixtures
  BY InvFixtures DEF ServerInv
<1>2. /\ ioPc # Idle /\ ioPc.in = "destroyed" /\ RemoveHandler(ioPc.conn) /\ ioPc' = Idle
      /\ UNCHANGED <<m_state, ioQueue, baseQueue, server>>
  BY DEF DestroyedReturns, RemovesHandler, Idle, serverVars, baseVars, startVars
<1>3. PICK d \in Conns : d = ioPc.conn /\ Live(d) /\ ioPc = In("destroyed", d)
  BY <1>1, <1>2, InsideLive
<1>4. RemoveHandler(d) /\ RemoveAsserts(d) /\ handlers[d].m_state # kNew
  BY <1>2, <1>3, MayRemove
<1>5. /\ handlers'[d].m_state = kNew /\ handlers'[d].m_fd = handlers[d].m_fd
      /\ \A g \in Handlers : g # d => handlers'[g] = handlers[g]
  BY <1>1, <1>3, <1>4, RemoveStep DEF Fixtures
<1> QED
  BY <1>2, <1>3, <1>4, <1>5 DEF Live

(* A TcpConnectionPtr dropped while the io loop runs. *)
LEMMA DroppedEffect ==
  ASSUME ServerInv, IoRunning, NEW d \in Conns,
         BaseBatchEnds(d) \/ IoBatchEnds(d) \/ UserDrops(d)
  PROVE  /\ UNCHANGED <<m_state, ioQueue, ioPc, baseQueue, server>>
         /\ \A c \in Conns : c # d => handlers'[c] = handlers[c]
         /\ \/ handlers'[d] = handlers[d]
            \/ /\ Live(d) /\ ~Live(d)' /\ handlers[d].m_state = kNew
               /\ ~Starting(d) /\ ~Leaving(d)
<1> USE ConnsAreHandlers
<1>1. LifeInv /\ Fixtures /\ Phases
  BY InvFixtures DEF ServerInv, LifeInv
<1>2. PICK holder \in {"user", "ioBatch", "baseBatch"} :
        Drop(d, holder) /\ (holder = "user" => m_state[d] = "kDisconnected")
  BY DEF BaseBatchEnds, IoBatchEnds, UserDrops, IoRunning
<1>3. /\ Live(d)
      /\ UNCHANGED <<m_state, ioQueue, ioPc, baseQueue, server>>
  BY <1>1
     DEF BaseBatchEnds, IoBatchEnds, UserDrops, LifeInv, LiveIffHeld, Held, serverVars, ioVars,
         baseVars, startVars
<1>4. /\ \A c \in Conns : c # d => handlers'[c] = handlers[c]
      /\ Holders(d) \subseteq {holder} => ~Live(d)'
      /\ ~(Holders(d) \subseteq {holder}) => UNCHANGED pollerVars
  BY <1>1, <1>2, <1>3, DropFixtures
<1>5. CASE Holders(d) \subseteq {holder}
  <2>1. handlers[d].m_state = kNew
    BY <1>2, <1>5, DroppedIsNew
  <2>2. ~Holds(ioQueue, d) /\ ~Holds(baseQueue, d) /\ ioPc.conn # d
    BY <1>1, <1>5, LastHolder
  <2>3. ~Starting(d) /\ ~Leaving(d)
    BY <2>2, FunctorFields DEF Starting, Leaving, Holds, Holding, In
  <2> QED
    BY <1>3, <1>4, <1>5, <2>1, <2>3
<1>6. CASE ~(Holders(d) \subseteq {holder})
  BY <1>3, <1>4, <1>6 DEF pollerVars
<1> QED
  BY <1>5, <1>6

(* The steps that are about no connection's stage. *)
LEMMA QuietEffect ==
  ASSUME CarefulUser, ServerInv, ServerNext, IoRunning',
         ~ConnectionEstablished, ~ConnectionDestroyed, ~DestroyedReturns,
         ~RemoveConnectionInLoop, ~CloseReturns,
         \A f \in Fds : ~CloseEvent(f),
         \A c \in Conns : /\ \A f \in Fds : ~NewConnection(c, f)
                          /\ ~IoBatchEnds(c) /\ ~BaseBatchEnds(c) /\ ~UserDrops(c)
  PROVE  /\ \A c \in Conns : handlers'[c] = handlers[c] /\ (Inside(c)' <=> Inside(c))
         /\ UNCHANGED <<m_state, baseQueue>>
         /\ FunctorReturns \/ ioPc' = ioPc \/ \A c \in Conns : ~Telling(c) /\ ~Telling(c)'
         /\ \/ UNCHANGED ioQueue
            \/ \E d \in Conns, op \in {"writeComplete", "send"} :
                 ioQueue' = Append(ioQueue, Functor(op, d))
            \/ /\ ioQueue # <<>> /\ Head(ioQueue).op \in {"writeComplete", "send"}
               /\ \/ ioQueue' = Tail(ioQueue)
                  \/ \E d \in Conns :
                       ioQueue' = Append(Tail(ioQueue), Functor("writeComplete", d))
<1> USE ConnsAreHandlers
<1>1. LifeInv /\ Fixtures /\ IoRunning
  BY InvFixtures, IoRunningBefore DEF ServerInv
<1>2. CASE \/ Start \/ RefuseConnection \/ PeerConnects \/ BaseLoopEnds \/ DestroyServer
           \/ \E c \in Conns : BeginSend(c) \/ PeerLeaves(c)
  <2>1. UNCHANGED <<handlers, m_state, ioQueue, ioPc, baseQueue>>
    BY <1>1, <1>2, NothingLeftBehind
       DEF Start, RefuseConnection, PeerConnects, BaseLoopEnds, DestroyServer, BeginSend,
           PeerLeaves, pollerVars, serverVars, ioVars, baseVars
  <2> QED
    BY <2>1 DEF Inside
<1>3. CASE Listen
  <2>1. Live(AcceptHandler) /\ handlers[AcceptHandler].m_events \cup {"read"} \in SUBSET Flags
    BY <1>1, <1>3, TcpServerAssumption, EPollPollerAssumption
       DEF Listen, Fixtures, AcceptorRegistered, Live, TypeOK, Flags
  <2>2. UpdateAsserts(AcceptHandler)
    BY <1>1, <2>1, MayUpdate
  <2>3. \A c \in Conns : handlers'[c] = handlers[c]
    BY <1>1, <1>3, <2>1, <2>2, UpdateStep DEF Listen, EnableReading, Fixtures
  <2>4. UNCHANGED <<m_state, ioQueue, ioPc, baseQueue>>
    BY <1>3 DEF Listen, serverVars, ioVars, baseVars
  <2> QED
    BY <2>3, <2>4 DEF Inside
<1>4. CASE WriteComplete
  BY <1>1, <1>4, NextFunctorLive
     DEF WriteComplete, NextFunctor, Inside, Telling, In, Idle, pollerVars, serverVars, baseVars
<1>5. CASE RunSend
  BY <1>1, <1>5, NextFunctorLive, SendOutcome
     DEF RunSend, NextFunctor, Inside, CarefulUser, pollerVars, serverVars, baseVars
<1>6. CASE UserSends
  BY <1>1, <1>6, InsideLive, SendOutcome
     DEF UserSends, Inside, CarefulUser, pollerVars, serverVars, baseVars
<1>7. CASE FunctorReturns
  BY <1>7 DEF FunctorReturns, Inside, In, Idle, pollerVars, serverVars, baseVars
<1>8. ASSUME NEW c \in Conns, QueueSend(c)
      PROVE  /\ UNCHANGED <<handlers, m_state, baseQueue, ioPc>>
             /\ ioQueue' = Append(ioQueue, Functor("send", c))
  BY <1>8 DEF QueueSend, pollerVars, baseVars
<1>9. ~(\/ IoLoopEnds \/ IoThreadJoined \/ ReleaseIoFunctor \/ ReleaseBaseFunctor
        \/ AcceptorDisables \/ AcceptorRemoves \/ AcceptorCloses)
  BY <1>1
     DEF IoLoopEnds, IoThreadJoined, ReleaseIoFunctor, ReleaseBaseFunctor, AcceptorDisables,
         AcceptorRemoves, AcceptorCloses, IoRunning
<1>10. CASE \E c \in Conns : QueueSend(c)
  BY <1>8, <1>10 DEF Inside
<1> QED
  BY <1>2, <1>3, <1>4, <1>5, <1>6, <1>7, <1>9, <1>10
     DEF ServerNext, Accept, IoStep, BaseStep, Teardown

(* What the queues and the loop's position say of a connection. *)
LEMMA WaysOut ==
  ASSUME NEW c
  PROVE  /\ Leaving(c) <=> Inside(c) \/ Removing(c) \/ Destroying(c)
         /\ Leaving(c)' <=> Inside(c)' \/ Removing(c)' \/ Destroying(c)'
BY DEF Leaving, Inside, Removing, Destroying

(* A functor behind the others, and the first one taken away. *)
LEMMA QueuedOnce ==
  ASSUME NEW S, NEW q \in Seq(S), NEW op, NEW d, Functor(op, d) \in S, NEW ops, Once(q, ops),
         op \notin ops \/ Functor(op, d) \notin Range(q)
  PROVE  /\ Once(Append(q, Functor(op, d)), ops)
         /\ \A name, c : Functor(name, c) \in Range(Append(q, Functor(op, d)))
               <=> Functor(name, c) \in Range(q) \/ (name = op /\ c = d)
<1>1. Functor(op, d).op = op
  BY FunctorFields
<1>2. Once(Append(q, Functor(op, d)), ops)
  BY <1>1, OnceAppend
<1> QED
  BY <1>2, HoldsAppend

LEMMA TakenOnce ==
  ASSUME NEW S, NEW q \in Seq(S), q # <<>>, NEW ops, Once(q, ops), Head(q).op \in ops
  PROVE  /\ Once(Tail(q), ops)
         /\ Head(q) \in Range(q) /\ Head(q) \notin Range(Tail(q))
         /\ \A functor : functor \in Range(q) <=> functor \in Range(Tail(q)) \/ functor = Head(q)
<1>1. Once(Tail(q), ops) /\ Head(q) \notin Range(Tail(q))
  BY OnceTail
<1> QED
  BY <1>1, HoldsTail

LEMMA OrderedKept ==
  ASSUME NEW c \in Conns, Ordered(c), handlers'[c] = handlers[c], m_state'[c] = m_state[c],
         Starting(c)' <=> Starting(c), Leaving(c)' <=> Leaving(c), OneWayOut(c)'
  PROVE  Ordered(c)'
BY DEF Ordered, Live

(* One functor at a time carries a connection on, and its states fit, as long as the
   loop that runs them does. *)
LEMMA InOrderKept ==
  ASSUME CarefulUser, ServerInv, InOrder, ServerNext, IoRunning'
  PROVE  InOrder'
<1> USE ConnsAreHandlers
<1>1. /\ IoRunning /\ LifeInv /\ m_state \in [Conns -> {"kConnecting", "kConnected", "kDisconnected"}]
      /\ ioQueue \in Seq(Functors) /\ baseQueue \in Seq(Removals)
      /\ \A c \in Conns : Ordered(c)
      /\ Once(ioQueue, {"established", "destroyed"}) /\ Once(baseQueue, {"remove"})
  BY IoRunningBefore DEF ServerInv, LifeInv, ServerTypeOK, Functors, Removals, InOrder
<1>2. \A c \in Conns : /\ \A op \in {"established", "destroyed", "writeComplete", "send"} :
                            Functor(op, c) \in Functors
                      /\ Functor("remove", c) \in Removals
  BY DEF Functor, Functors, Removals
<1>3. ASSUME NEW d \in Conns, NEW f \in Fds, NewConnection(d, f)  PROVE InOrder'
  <2>1. /\ ~Live(d) /\ handlers'[d].m_state = kNew
        /\ \A c \in Conns : c # d => handlers'[c] = handlers[c]
        /\ m_state' = [m_state EXCEPT ![d] = "kConnecting"]
        /\ ioQueue' = Append(ioQueue, Functor("established", d))
        /\ UNCHANGED <<ioPc, baseQueue>>
    BY <1>1, <1>3, AcceptedEffect
  <2>2. ~Starting(d) /\ ~Leaving(d)
    BY <1>1, <2>1, UnderWayHeld DEF LifeInv, LiveIffHeld
  <2>3. \A name, c : Functor(name, c) \in Range(ioQueue')
                      <=> Functor(name, c) \in Range(ioQueue) \/ (name = "established" /\ c = d)
    BY <1>1, <1>2, <2>1, HoldsAppend
  <2>4. Once(ioQueue', {"established", "destroyed"})
    BY <1>1, <1>2, <2>1, <2>2, QueuedOnce DEF Starting
  <2>5. \A c \in Conns : /\ Inside(c)' <=> Inside(c)
                         /\ Removing(c)' <=> Removing(c)
                         /\ Destroying(c)' <=> Destroying(c)
                         /\ Starting(c)' <=> Starting(c) \/ c = d
    BY <2>1, <2>3 DEF Inside, Removing, Destroying, Starting
  <2>6. \A c \in Conns : (Leaving(c)' <=> Leaving(c)) /\ OneWayOut(c)'
    BY <1>1, <2>5, WaysOut DEF Ordered, OneWayOut
  <2>7. \A c \in Conns : c # d => Ordered(c)'
    BY <1>1, <2>1, <2>5, <2>6, OrderedKept
  <2>8. Ordered(d)'
    BY <1>1, <2>1, <2>2, <2>5, <2>6 DEF Ordered
  <2> QED
    BY <1>1, <2>1, <2>4, <2>7, <2>8 DEF InOrder
<1>4. CASE ConnectionEstablished
  <2>1. PICK d \in Conns :
          /\ handlers'[d].m_state # kNew
          /\ \A c \in Conns : c # d => handlers'[c] = handlers[c]
          /\ m_state' = [m_state EXCEPT ![d] = "kConnected"]
          /\ ioPc = Idle /\ ioPc' = In("up", d)
          /\ ioQueue # <<>> /\ Head(ioQueue) = Functor("established", d)
          /\ ioQueue' = Tail(ioQueue) /\ UNCHANGED baseQueue
    BY <1>4, EstablishedEffect
  <2>2. /\ \A functor : functor \in Range(ioQueue)
                         <=> functor \in Range(ioQueue') \/ functor = Functor("established", d)
        /\ Functor("established", d) \notin Range(ioQueue')
        /\ Once(ioQueue', {"established", "destroyed"})
    <3>1. Head(ioQueue).op = "established"
      BY <2>1, FunctorFields
    <3>2. /\ Once(Tail(ioQueue), {"established", "destroyed"})
          /\ Head(ioQueue) \notin Range(Tail(ioQueue))
          /\ \A functor : functor \in Range(ioQueue)
                             <=> functor \in Range(Tail(ioQueue)) \/ functor = Head(ioQueue)
      BY <1>1, <2>1, <3>1, TakenOnce
    <3> QED
      BY <2>1, <3>2
  <2>3. \A c \in Conns : /\ ~Inside(c) /\ ~Inside(c)'
                         /\ Removing(c)' <=> Removing(c)
                         /\ Destroying(c)' <=> Destroying(c)
                         /\ Starting(c)' <=> Starting(c) /\ c # d
    BY <2>1, <2>2, FunctorFields DEF Inside, Removing, Destroying, Starting, Idle, In
  <2>4. \A c \in Conns : (Leaving(c)' <=> Leaving(c)) /\ OneWayOut(c)'
    BY <1>1, <2>3, WaysOut DEF Ordered, OneWayOut
  <2>5. ~Leaving(d)
    BY <1>1, <2>2 DEF Ordered, Starting
  <2>6. \A c \in Conns : c # d => Ordered(c)'
    BY <1>1, <2>1, <2>3, <2>4, OrderedKept
  <2>7. Ordered(d)'
    BY <1>1, <2>1, <2>3, <2>4, <2>5 DEF Ordered
  <2> QED
    BY <1>1, <2>1, <2>2, <2>6, <2>7 DEF InOrder
<1>5. ASSUME NEW f \in Fds, CloseEvent(f)  PROVE InOrder'
  <2>1. PICK d \in Conns :
          /\ handlers[d].m_state # kNew /\ handlers[d].m_events # {}
          /\ handlers'[d].m_state # kNew /\ handlers'[d].m_events = {}
          /\ \A c \in Conns : c # d => handlers'[c] = handlers[c]
          /\ m_state' = [m_state EXCEPT ![d] = "kDisconnected"]
          /\ ioPc = Idle /\ ioPc' = In("down", d)
          /\ UNCHANGED <<ioQueue, baseQueue>>
    BY <1>5, ClosedEffect
  <2>2. ~Leaving(d) /\ ~Starting(d)
    BY <1>1, <2>1 DEF Ordered
  <2>3. \A c \in Conns : /\ ~Inside(c) /\ (Inside(c)' <=> c = d)
                         /\ Removing(c)' <=> Removing(c)
                         /\ Destroying(c)' <=> Destroying(c)
                         /\ Starting(c)' <=> Starting(c)
    BY <2>1 DEF Inside, Removing, Destroying, Starting, Idle, In
  <2>4. \A c \in Conns : (Leaving(c)' <=> Leaving(c) \/ c = d) /\ OneWayOut(c)'
    BY <1>1, <2>2, <2>3, WaysOut DEF Ordered, OneWayOut
  <2>5. \A c \in Conns : c # d => Ordered(c)'
    BY <1>1, <2>1, <2>3, <2>4, OrderedKept
  <2>6. Ordered(d)'
    BY <1>1, <2>1, <2>2, <2>3, <2>4 DEF Ordered
  <2> QED
    BY <1>1, <2>1, <2>5, <2>6 DEF InOrder
<1>6. CASE CloseReturns
  <2>1. PICK d : d = ioPc.conn
    OBVIOUS
  <2>2. /\ d \in Conns /\ ioPc = In("down", d) /\ ioPc' = Idle
        /\ baseQueue' = Append(baseQueue, Functor("remove", d))
        /\ UNCHANGED <<handlers, m_state, ioQueue>>
    BY <1>1, <1>6, <2>1, InsideLive DEF CloseReturns, serverVars, pollerVars, Idle
  <2>3. Inside(d) /\ ~Removing(d)
    BY <1>1, <2>2 DEF Inside, Ordered, OneWayOut
  <2>4. \A c : Functor("remove", c) \in Range(baseQueue')
                <=> Functor("remove", c) \in Range(baseQueue) \/ c = d
    BY <1>1, <1>2, <2>2, HoldsAppend
  <2>5. Once(baseQueue', {"remove"})
    BY <1>1, <1>2, <2>2, <2>3, QueuedOnce DEF Removing
  <2>6. \A c \in Conns : /\ ~Inside(c)' /\ (Inside(c) <=> c = d)
                         /\ Removing(c)' <=> Removing(c) \/ c = d
                         /\ Destroying(c)' <=> Destroying(c)
                         /\ Starting(c)' <=> Starting(c)
    BY <2>2, <2>4 DEF Inside, Removing, Destroying, Starting, Idle, In
  <2>7. \A c \in Conns : (Leaving(c)' <=> Leaving(c)) /\ OneWayOut(c)'
    BY <1>1, <2>6, WaysOut DEF Ordered, OneWayOut
  <2>8. \A c \in Conns : Ordered(c)'
    BY <1>1, <2>2, <2>6, <2>7, OrderedKept
  <2> QED
    BY <1>1, <2>2, <2>5, <2>8 DEF InOrder
<1>7. CASE RemoveConnectionInLoop
  <2>1. PICK d : d = Head(baseQueue).conn
    OBVIOUS
  <2>2. /\ baseQueue # <<>> /\ baseQueue' = Tail(baseQueue)
        /\ ioQueue' = Append(ioQueue, Functor("destroyed", d))
        /\ UNCHANGED <<handlers, m_state, ioPc>>
    BY <1>7, <2>1 DEF RemoveConnectionInLoop, WithDestroyedFunctor, pollerVars
  <2>3. d \in Conns /\ Head(baseQueue) = Functor("remove", d)
    <3>1. Head(baseQueue) \in Removals
      BY <1>1, <2>2
    <3> QED
      BY <2>1, <3>1 DEF Removals, Functor
  <2>4. /\ \A functor : functor \in Range(baseQueue)
                         <=> functor \in Range(baseQueue') \/ functor = Functor("remove", d)
        /\ Functor("remove", d) \notin Range(baseQueue')
        /\ Once(baseQueue', {"remove"})
    <3>1. Head(baseQueue).op = "remove"
      BY <2>2, <2>3, FunctorFields
    <3>2. /\ Once(Tail(baseQueue), {"remove"})
          /\ Head(baseQueue) \notin Range(Tail(baseQueue))
          /\ \A functor : functor \in Range(baseQueue)
                             <=> functor \in Range(Tail(baseQueue)) \/ functor = Head(baseQueue)
      BY <1>1, <2>2, <2>3, <3>1, TakenOnce
    <3> QED
      BY <2>2, <2>3, <3>2
  <2>5. Removing(d) /\ ~Destroying(d)
    BY <1>1, <2>3, <2>4 DEF Removing, Ordered, OneWayOut
  <2>6. \A name, c : Functor(name, c) \in Range(ioQueue')
                      <=> Functor(name, c) \in Range(ioQueue) \/ (name = "destroyed" /\ c = d)
    BY <1>1, <1>2, <2>2, <2>3, HoldsAppend
  <2>7. Once(ioQueue', {"established", "destroyed"})
    BY <1>1, <1>2, <2>2, <2>3, <2>5, QueuedOnce DEF Destroying
  <2>8. \A c \in Conns : /\ Inside(c)' <=> Inside(c)
                         /\ Removing(c)' <=> Removing(c) /\ c # d
                         /\ Destroying(c)' <=> Destroying(c) \/ c = d
                         /\ Starting(c)' <=> Starting(c)
    BY <2>2, <2>4, <2>6, FunctorFields DEF Inside, Removing, Destroying, Starting
  <2>9. \A c \in Conns : (Leaving(c)' <=> Leaving(c)) /\ OneWayOut(c)'
    BY <1>1, <2>5, <2>8, WaysOut DEF Ordered, OneWayOut
  <2>10. \A c \in Conns : Ordered(c)'
    BY <1>1, <2>2, <2>8, <2>9, OrderedKept
  <2> QED
    BY <2>4, <2>7, <2>10 DEF InOrder
<1>8. CASE ConnectionDestroyed
  <2>1. PICK d \in Conns :
          /\ handlers'[d].m_state # kNew /\ handlers'[d].m_events = {}
          /\ \A c \in Conns : c # d => handlers'[c] = handlers[c]
          /\ m_state' = [m_state EXCEPT ![d] = "kDisconnected"]
          /\ ioPc = Idle /\ ioPc' = In("destroyed", d)
          /\ ioQueue # <<>> /\ Head(ioQueue) = Functor("destroyed", d)
          /\ ioQueue' = Tail(ioQueue) /\ UNCHANGED baseQueue
    BY <1>8, DestroyedEffect
  <2>2. /\ \A functor : functor \in Range(ioQueue)
                         <=> functor \in Range(ioQueue') \/ functor = Functor("destroyed", d)
        /\ Functor("destroyed", d) \notin Range(ioQueue')
        /\ Once(ioQueue', {"established", "destroyed"})
    <3>1. Head(ioQueue).op = "destroyed"
      BY <2>1, FunctorFields
    <3>2. /\ Once(Tail(ioQueue), {"established", "destroyed"})
          /\ Head(ioQueue) \notin Range(Tail(ioQueue))
          /\ \A functor : functor \in Range(ioQueue)
                             <=> functor \in Range(Tail(ioQueue)) \/ functor = Head(ioQueue)
      BY <1>1, <2>1, <3>1, TakenOnce
    <3> QED
      BY <2>1, <3>2
  <2>3. Destroying(d) /\ ~Removing(d) /\ ~Starting(d)
    <3>1. Destroying(d) /\ Leaving(d)
      BY <2>2 DEF Destroying, Leaving
    <3> QED
      BY <1>1, <3>1 DEF Ordered, OneWayOut
  <2>4. \A c \in Conns : /\ ~Inside(c) /\ (Inside(c)' <=> c = d)
                         /\ Removing(c)' <=> Removing(c)
                         /\ Destroying(c)' <=> Destroying(c) /\ c # d
                         /\ Starting(c)' <=> Starting(c)
    BY <2>1, <2>2, FunctorFields DEF Inside, Removing, Destroying, Starting, Idle, In
  <2>5. \A c \in Conns : (Leaving(c)' <=> Leaving(c)) /\ OneWayOut(c)'
    BY <1>1, <2>3, <2>4, WaysOut DEF Ordered, OneWayOut
  <2>6. \A c \in Conns : c # d => Ordered(c)'
    BY <1>1, <2>1, <2>4, <2>5, OrderedKept
  <2>7. Ordered(d)'
    BY <1>1, <2>1, <2>3, <2>4, <2>5 DEF Ordered
  <2> QED
    BY <1>1, <2>1, <2>2, <2>6, <2>7 DEF InOrder
<1>9. CASE DestroyedReturns
  <2>1. PICK d \in Conns :
          /\ handlers[d].m_state # kNew /\ handlers'[d].m_state = kNew
          /\ \A c \in Conns : c # d => handlers'[c] = handlers[c]
          /\ ioPc = In("destroyed", d) /\ ioPc' = Idle
          /\ UNCHANGED <<m_state, ioQueue, baseQueue>>
    BY <1>9, RemovedEffect
  <2>2. /\ Inside(d) /\ Leaving(d) /\ ~Removing(d) /\ ~Destroying(d) /\ ~Starting(d)
        /\ m_state[d] = "kDisconnected"
    <3>1. Inside(d) /\ Leaving(d)
      BY <2>1 DEF Inside, Leaving
    <3> QED
      BY <1>1, <2>1, <3>1 DEF Ordered, OneWayOut
  <2>3. \A c \in Conns : /\ ~Inside(c)' /\ (Inside(c) <=> c = d)
                         /\ Removing(c)' <=> Removing(c)
                         /\ Destroying(c)' <=> Destroying(c)
                         /\ Starting(c)' <=> Starting(c)
    BY <2>1 DEF Inside, Removing, Destroying, Starting, Idle, In
  <2>4. \A c \in Conns : (Leaving(c)' <=> Leaving(c) /\ c # d) /\ OneWayOut(c)'
    BY <1>1, <2>2, <2>3, WaysOut DEF Ordered, OneWayOut
  <2>5. \A c \in Conns : c # d => Ordered(c)'
    BY <1>1, <2>1, <2>3, <2>4, OrderedKept
  <2>6. Ordered(d)'
    BY <1>1, <2>1, <2>2, <2>3, <2>4 DEF Ordered
  <2> QED
    BY <1>1, <2>1, <2>5, <2>6 DEF InOrder
<1>10. ASSUME NEW d \in Conns, BaseBatchEnds(d) \/ IoBatchEnds(d) \/ UserDrops(d)
       PROVE  InOrder'
  <2>1. /\ UNCHANGED <<m_state, ioQueue, ioPc, baseQueue>>
        /\ \A c \in Conns : c # d => handlers'[c] = handlers[c]
        /\ \/ handlers'[d] = handlers[d]
           \/ ~Live(d)' /\ ~Starting(d) /\ ~Leaving(d)
    BY <1>1, <1>10, DroppedEffect
  <2>2. \A c \in Conns : /\ Starting(c)' <=> Starting(c)
                         /\ Leaving(c)' <=> Leaving(c)
                         /\ OneWayOut(c)' <=> OneWayOut(c)
    BY <2>1 DEF Starting, Leaving, OneWayOut, Inside, Removing, Destroying
  <2>3. \A c \in Conns : handlers'[c] = handlers[c] => Ordered(c)'
    BY <1>1, <2>1, <2>2, OrderedKept DEF Ordered
  <2>4. ~Live(d)' /\ ~Starting(d) /\ ~Leaving(d) => Ordered(d)'
    BY <1>1, <2>2 DEF Ordered
  <2> QED
    BY <1>1, <2>1, <2>3, <2>4 DEF InOrder
<1>11. CASE /\ ~ConnectionEstablished /\ ~ConnectionDestroyed /\ ~DestroyedReturns
            /\ ~RemoveConnectionInLoop /\ ~CloseReturns
            /\ \A f \in Fds : ~CloseEvent(f)
            /\ \A c \in Conns : /\ \A f \in Fds : ~NewConnection(c, f)
                                /\ ~IoBatchEnds(c) /\ ~BaseBatchEnds(c) /\ ~UserDrops(c)
  <2> DEFINE Quiet == {"writeComplete", "send"}
             Orders == {"established", "destroyed"}
             Same(q, r) == /\ Once(r, Orders)
                           /\ \A c \in Conns, op \in Orders :
                                Functor(op, c) \in Range(r) <=> Functor(op, c) \in Range(q)
  <2>1. /\ \A c \in Conns : handlers'[c] = handlers[c] /\ (Inside(c)' <=> Inside(c))
        /\ UNCHANGED <<m_state, baseQueue>>
        /\ \/ UNCHANGED ioQueue
           \/ \E d \in Conns, op \in Quiet : ioQueue' = Append(ioQueue, Functor(op, d))
           \/ /\ ioQueue # <<>> /\ Head(ioQueue).op \in Quiet
              /\ \/ ioQueue' = Tail(ioQueue)
                 \/ \E d \in Conns : ioQueue' = Append(Tail(ioQueue), Functor("writeComplete", d))
    BY <1>11, QuietEffect
  <2>2. ASSUME NEW q \in Seq(Functors), Once(q, Orders), NEW d \in Conns, NEW op \in Quiet
        PROVE  Same(q, Append(q, Functor(op, d)))
    <3>1. Functor(op, d) \in Functors
      BY <1>2
    <3> QED
      BY <2>2, <3>1, QueuedOnce
  <2>3. ioQueue # <<>> /\ Head(ioQueue).op \in Quiet
          => Same(ioQueue, Tail(ioQueue)) /\ Tail(ioQueue) \in Seq(Functors)
    BY <1>1, HoldsTail, OnceTail, FunctorFields
  <2>4. Same(ioQueue, ioQueue')
    <3>1. CASE UNCHANGED ioQueue
      BY <1>1, <3>1
    <3>2. CASE \E d \in Conns, op \in Quiet : ioQueue' = Append(ioQueue, Functor(op, d))
      BY <1>1, <2>2, <3>2
    <3>3. CASE ioQueue # <<>> /\ Head(ioQueue).op \in Quiet /\ ioQueue' = Tail(ioQueue)
      BY <2>3, <3>3
    <3>4. ASSUME ioQueue # <<>>, Head(ioQueue).op \in Quiet, NEW d \in Conns,
                 ioQueue' = Append(Tail(ioQueue), Functor("writeComplete", d))
          PROVE  Same(ioQueue, ioQueue')
      <4>1. PICK rest : rest = Tail(ioQueue)
        OBVIOUS
      <4>2. Same(ioQueue, rest) /\ rest \in Seq(Functors)
        BY <2>3, <3>4, <4>1
      <4>3. Same(rest, ioQueue')
        BY <2>2, <3>4, <4>1, <4>2
      <4> QED
        BY <4>2, <4>3
    <3> QED
      BY <2>1, <3>1, <3>2, <3>3, <3>4
  <2>5. \A c \in Conns : /\ Starting(c)' <=> Starting(c)
                         /\ Removing(c)' <=> Removing(c)
                         /\ Destroying(c)' <=> Destroying(c)
    BY <2>1, <2>4 DEF Starting, Removing, Destroying
  <2>6. \A c \in Conns : (Leaving(c)' <=> Leaving(c)) /\ OneWayOut(c)'
    BY <1>1, <2>1, <2>5, WaysOut DEF Ordered, OneWayOut
  <2>7. \A c \in Conns : Ordered(c)'
    BY <1>1, <2>1, <2>5, <2>6, OrderedKept
  <2> QED
    BY <1>1, <2>1, <2>4, <2>7 DEF InOrder
<1> QED
  BY <1>3, <1>4, <1>5, <1>6, <1>7, <1>8, <1>9, <1>10, <1>11

(* ... then what a step means for the stages.  The stage of a connection is its
   handler's and its own state. *)
LEMMA StageKept ==
  ASSUME NEW c \in Conns, handlers'[c] = handlers[c], m_state'[c] = m_state[c],
         ioPc' = ioPc \/ (~Telling(c) /\ ~Telling(c)')
  PROVE  Stage(c)' = Stage(c)
<1>1. (Live(c)' <=> Live(c)) /\ Between(c)' = Between(c)
  BY DEF Live, Between
<1>2. CASE ioPc' = ioPc
  <2>1. Telling(c)' <=> Telling(c)
    BY <1>2 DEF Telling
  <2> QED
    BY <1>1, <1>2, <2>1 DEF Stage
<1>3. CASE ~Telling(c) /\ ~Telling(c)'
  BY <1>1, <1>3 DEF Stage
<1> QED
  BY <1>2, <1>3

(* The loop calls one connection back at a time. *)
LEMMA TellsOne ==
  /\ ioPc = Idle => \A c \in Conns : ~Telling(c)
  /\ \A callback, d : ioPc = In(callback, d) /\ callback # "writeComplete"
       => \A c : Telling(c) <=> c = d
BY ConnsAreHandlers DEF Telling, Idle, In

LEMMA TellsOnePrimed ==
  /\ ioPc' = Idle => \A c \in Conns : ~Telling(c)'
  /\ \A callback, d : ioPc' = In(callback, d) /\ callback # "writeComplete"
       => \A c : Telling(c)' <=> c = d
BY ConnsAreHandlers DEF Telling, Idle, In

LEMMA LifeStutters ==
  ASSUME \A c \in Conns : Stage(c)' = Stage(c), IoRunning' = IoRunning
  PROVE  UNCHANGED Life!lifeVars
BY DEF Life!lifeVars

LEMMA StageMoves ==
  ASSUME NEW c \in Conns, NEW from, NEW to, Stage(c) = from, Stage(c)' = to,
         \A d \in Conns : d # c => Stage(d)' = Stage(d), IoRunning' = IoRunning
  PROVE  Life!Move(c, from, to)
BY DEF Life!Move

(* A step of one connection, the others untouched. *)
LEMMA OthersStay ==
  ASSUME m_state \in [Conns -> {"kConnecting", "kConnected", "kDisconnected"}],
         NEW c \in Conns, NEW state,
         m_state' = [m_state EXCEPT ![c] = state] \/ m_state' = m_state,
         \A d \in Conns : d # c => /\ handlers'[d] = handlers[d]
                                   /\ ioPc' = ioPc \/ (~Telling(d) /\ ~Telling(d)')
  PROVE  \A d \in Conns : d # c => Stage(d)' = Stage(d)
BY StageKept

(* No connection is dropped for the last time while it is called back. *)
LEMMA DroppedUntold ==
  ASSUME ServerInv, NEW d \in Conns, Live(d), ~Live(d)',
         BaseBatchEnds(d) \/ IoBatchEnds(d) \/ UserDrops(d)
  PROVE  ~Telling(d)
<1>1. Fixtures /\ Phases
  BY InvFixtures DEF ServerInv, LifeInv
<1>2. PICK holder \in {"user", "ioBatch", "baseBatch"} : Drop(d, holder) /\ server' = server
  BY DEF BaseBatchEnds, IoBatchEnds, UserDrops, startVars
<1>3. Holders(d) \subseteq {holder}
  <2>1. CASE ~(Holders(d) \subseteq {holder})
    BY <1>1, <1>2, <2>1, DropFixtures DEF pollerVars, Live
  <2> QED
    BY <2>1
<1>4. ioPc.conn # d
  BY <1>1, <1>2, <1>3, LastHolder
<1> QED
  BY <1>4 DEF Telling

(* A connection whose callback says that it is up stays so until it returns. *)
LEMMA UpWhenToldKept ==
  ASSUME CarefulUser, ServerInv, UpWhenTold, ServerNext, IoRunning'
  PROVE  UpWhenTold'
<1>1. /\ LifeInv /\ IoRunning
      /\ m_state \in [Conns -> {"kConnecting", "kConnected", "kDisconnected"}]
  BY IoRunningBefore DEF ServerInv, LifeInv, ServerTypeOK
<1>2. ASSUME ioPc' = ioPc, \A c \in Conns : c = ioPc.conn => m_state'[c] = m_state[c]
      PROVE  UpWhenTold'
  BY <1>1, <1>2, InsideLive DEF UpWhenTold, Idle
<1>3. ASSUME ioPc'.in # "up"  PROVE UpWhenTold'
  BY <1>3 DEF UpWhenTold
<1>4. ASSUME NEW d \in Conns, NEW f \in Fds, NewConnection(d, f)  PROVE UpWhenTold'
  <2>1. ~Live(d) /\ ioPc' = ioPc /\ m_state' = [m_state EXCEPT ![d] = "kConnecting"]
    BY <1>1, <1>4, AcceptedEffect
  <2>2. ioPc.conn # d
    BY <1>1, <2>1, InsideLive, ConnsAreHandlers DEF Idle
  <2> QED
    BY <1>1, <1>2, <2>1, <2>2
<1>5. CASE ConnectionEstablished
  <2>1. PICK d \in Conns : m_state' = [m_state EXCEPT ![d] = "kConnected"] /\ ioPc' = In("up", d)
    BY <1>5, EstablishedEffect
  <2> QED
    BY <1>1, <2>1 DEF UpWhenTold, In
<1>6. CASE \/ ConnectionDestroyed \/ DestroyedReturns \/ CloseReturns \/ FunctorReturns
           \/ WriteComplete \/ \E f \in Fds : CloseEvent(f)
  BY <1>3, <1>6
     DEF ConnectionDestroyed, DestroyedReturns, CloseReturns, FunctorReturns, WriteComplete,
         CloseEvent, In, Idle
<1>7. CASE /\ ~ConnectionEstablished /\ ~ConnectionDestroyed /\ ~DestroyedReturns
           /\ ~RemoveConnectionInLoop /\ ~CloseReturns
           /\ ~FunctorReturns /\ ~WriteComplete
           /\ \A f \in Fds : ~CloseEvent(f)
           /\ \A c \in Conns : /\ \A f \in Fds : ~NewConnection(c, f)
                               /\ ~IoBatchEnds(c) /\ ~BaseBatchEnds(c) /\ ~UserDrops(c)
  <2>1. UNCHANGED m_state
    BY <1>7, QuietEffect
  <2>2. ioPc' = ioPc
    BY <1>7 DEF ServerNext, Accept, IoStep, BaseStep, Teardown, Start, Listen, RefuseConnection,
        RunSend, UserSends, SendInLoop, PeerConnects, BaseLoopEnds, DestroyServer, IoLoopEnds,
        ReleaseIoFunctor, IoThreadJoined, AcceptorDisables, AcceptorRemoves, AcceptorCloses,
        ReleaseBaseFunctor, BeginSend, QueueSend, PeerLeaves, ioVars
  <2> QED
    BY <1>2, <2>1, <2>2
<1>8. CASE \/ RemoveConnectionInLoop
           \/ \E c \in Conns : BaseBatchEnds(c) \/ IoBatchEnds(c) \/ UserDrops(c)
  <2>1. UNCHANGED <<m_state, ioPc>>
    BY <1>8
       DEF RemoveConnectionInLoop, BaseBatchEnds, IoBatchEnds, UserDrops, serverVars, ioVars
  <2> QED
    BY <1>2, <2>1
<1> QED
  BY <1>4, <1>5, <1>6, <1>7, <1>8

LEMMA InOrderHolds ==
  ASSUME CarefulUser
  PROVE  ServerSpec => [](IoRunning => InOrder /\ UpWhenTold)
<1>1. ASSUME Init  PROVE InOrder /\ UpWhenTold
  <2>1. ioQueue = <<>> /\ baseQueue = <<>> /\ ioPc = Idle
    BY <1>1 DEF Init
  <2>2. Once(ioQueue, {"established", "destroyed"}) /\ Once(baseQueue, {"remove"})
    BY <2>1 DEF Once
  <2>3. \A c \in Conns : handlers[c] = Nothing
    BY <1>1, ConnsAreHandlers DEF Init
  <2>4. \A c \in Conns : ~Live(c)
    BY <2>3 DEF Live, Nothing
  <2>5. \A c : ~Starting(c) /\ ~Inside(c) /\ ~Removing(c) /\ ~Destroying(c)
    BY <2>1, HoldsEmpty DEF Starting, Inside, Removing, Destroying, Idle, In
  <2> QED
    BY <2>1, <2>2, <2>4, <2>5, WaysOut DEF InOrder, UpWhenTold, Ordered, OneWayOut, Idle
<1>2. ASSUME InOrder, UpWhenTold, UNCHANGED vars  PROVE InOrder' /\ UpWhenTold'
  BY <1>2
     DEF InOrder, UpWhenTold, Ordered, Live, Starting, Leaving, OneWayOut, Inside, Removing, Destroying, Once,
         vars, pollerVars, serverVars, ioVars, baseVars
<1>3. ASSUME ServerInv, IoRunning => InOrder /\ UpWhenTold, [ServerNext]_vars  PROVE IoRunning' => InOrder' /\ UpWhenTold'
  <2>1. CASE ServerNext
    BY <1>3, <2>1, IoRunningBefore, InOrderKept, UpWhenToldKept
  <2>2. CASE UNCHANGED vars
    <3>1. IoRunning' <=> IoRunning
      BY <2>2 DEF IoRunning, vars, startVars
    <3> QED
      BY <1>2, <1>3, <2>2, <3>1
  <2> QED
    BY <1>3, <2>1, <2>2
<1> DEFINE Inv == IoRunning => InOrder /\ UpWhenTold
<1>4. ServerInv /\ Inv /\ [ServerNext]_vars => Inv'
  BY <1>3
<1>5. Init => Inv
  BY <1>1
<1>6. ServerSpec => []Inv
  <2> HIDE DEF Inv
  <2> QED
    BY <1>4, <1>5, ServerInvHolds, PTL DEF ServerSpec
<1> QED
  BY <1>6

(* While the loop runs, a callback that begins or returns moves its connection to the
   next stage, and the last TcpConnectionPtr goes when it is out of the poller. *)
LEMMA RunningStep ==
  ASSUME CarefulUser, ServerInv, InOrder, UpWhenTold, ServerNext, IoRunning, IoRunning'
  PROVE  [Life!Next]_Life!lifeVars
<1> USE ConnsAreHandlers
<1>1. /\ m_state \in [Conns -> {"kConnecting", "kConnected", "kDisconnected"}]
      /\ \A c \in Conns : Ordered(c)
      /\ IoRunning' = IoRunning /\ LifeInv
  BY DEF ServerInv, LifeInv, ServerTypeOK, InOrder, IoRunning
<1>2. ASSUME NEW c \in Conns, Life!Proceed(c)  PROVE Life!Next
  BY <1>2 DEF Life!Next
<1>3. ASSUME NEW d \in Conns, NEW f \in Fds, NewConnection(d, f)  PROVE Life!Next
  <2>1. /\ ~Live(d) /\ Live(d)' /\ m_state' = [m_state EXCEPT ![d] = "kConnecting"]
        /\ \A c \in Conns : c # d => handlers'[c] = handlers[c]
        /\ ioPc' = ioPc
    BY <1>1, <1>3, AcceptedEffect
  <2>2. ~Telling(d)'
    <3>1. ~Telling(d)
      BY <1>1, <2>1, TellsOne, InsideLive DEF Telling
    <3> QED
      BY <2>1, <3>1 DEF Telling
  <2>3. Stage(d) = "none" /\ Stage(d)' = "accepted"
    BY <1>1, <2>1, <2>2 DEF Stage, Between
  <2>4. Life!Move(d, "none", "accepted")
    BY <1>1, <2>1, <2>3, OthersStay, StageMoves
  <2> QED
    BY <1>2, <2>4 DEF Life!Proceed
<1>4. CASE ConnectionEstablished
  <2>1. PICK d \in Conns :
          /\ Live(d) /\ Live(d)' /\ m_state' = [m_state EXCEPT ![d] = "kConnected"]
          /\ \A c \in Conns : c # d => handlers'[c] = handlers[c]
          /\ ioPc = Idle /\ ioPc' = In("up", d)
          /\ ioQueue # <<>> /\ Head(ioQueue) = Functor("established", d)
    BY <1>4, EstablishedEffect
  <2>2. m_state[d] = "kConnecting"
    <3>1. ioQueue \in Seq(Functors)
      BY DEF ServerInv, LifeInv, ServerTypeOK, Functors
    <3>2. Starting(d)
      BY <2>1, <3>1, HoldsTail DEF Starting
    <3> QED
      BY <1>1, <2>1, <3>2 DEF Ordered
  <2>3. \A c \in Conns : ~Telling(c) /\ (Telling(c)' <=> c = d)
    BY <2>1, TellsOne, TellsOnePrimed
  <2>4. Stage(d) = "accepted" /\ Stage(d)' = "up"
    BY <1>1, <2>1, <2>2, <2>3 DEF Stage, Between, In
  <2>5. Life!Move(d, "accepted", "up")
    BY <1>1, <2>1, <2>3, <2>4, OthersStay, StageMoves
  <2> QED
    BY <1>2, <2>5 DEF Life!Proceed
<1>5. ASSUME NEW f \in Fds, CloseEvent(f)  PROVE Life!Next
  <2>1. PICK d \in Conns :
          /\ Live(d) /\ Live(d)' /\ m_state' = [m_state EXCEPT ![d] = "kDisconnected"]
          /\ handlers[d].m_state # kNew /\ handlers[d].m_events # {}
          /\ handlers'[d].m_state # kNew
          /\ \A c \in Conns : c # d => handlers'[c] = handlers[c]
          /\ ioPc = Idle /\ ioPc' = In("down", d)
    BY <1>5, ClosedEffect
  <2>2. m_state[d] = "kConnected"
    BY <1>1, <2>1 DEF ServerInv, Registered, Ordered
  <2>3. \A c \in Conns : ~Telling(c) /\ (Telling(c)' <=> c = d)
    BY <2>1, TellsOne, TellsOnePrimed
  <2>4. Stage(d) = "connected" /\ Stage(d)' = "down"
    BY <1>1, <2>1, <2>2, <2>3 DEF Stage, Between, In
  <2>5. Life!Move(d, "connected", "down")
    BY <1>1, <2>1, <2>3, <2>4, OthersStay, StageMoves
  <2> QED
    BY <1>2, <2>5 DEF Life!Proceed
<1>6. CASE ConnectionDestroyed
  <2>1. PICK d \in Conns :
          /\ Live(d) /\ Live(d)' /\ m_state' = [m_state EXCEPT ![d] = "kDisconnected"]
          /\ handlers'[d].m_state # kNew
          /\ \A c \in Conns : c # d => handlers'[c] = handlers[c]
          /\ ioPc = Idle /\ ioPc' = In("destroyed", d)
          /\ ioQueue # <<>> /\ Head(ioQueue) = Functor("destroyed", d)
    BY <1>6, DestroyedEffect
  <2>2. m_state[d] = "kDisconnected" /\ handlers[d].m_state # kNew
    <3>1. ioQueue \in Seq(Functors)
      BY DEF ServerInv, LifeInv, ServerTypeOK, Functors
    <3>2. Leaving(d)
      BY <2>1, <3>1, HoldsTail DEF Leaving
    <3> QED
      BY <1>1, <3>2 DEF Ordered
  <2>3. \A c \in Conns : ~Telling(c) /\ (Telling(c)' <=> c = d)
    BY <2>1, TellsOne, TellsOnePrimed
  <2>4. Stage(d) = "disconnected" /\ Stage(d)' = "destroyed"
    BY <1>1, <2>1, <2>2, <2>3 DEF Stage, Between, In
  <2>5. Life!Move(d, "disconnected", "destroyed")
    BY <1>1, <2>1, <2>3, <2>4, OthersStay, StageMoves
  <2> QED
    BY <1>2, <2>5 DEF Life!Proceed
<1>7. CASE DestroyedReturns
  <2>1. PICK d \in Conns :
          /\ Live(d) /\ Live(d)' /\ m_state' = m_state
          /\ handlers[d].m_state # kNew /\ handlers'[d].m_state = kNew
          /\ \A c \in Conns : c # d => handlers'[c] = handlers[c]
          /\ ioPc = In("destroyed", d) /\ ioPc' = Idle
    BY <1>7, RemovedEffect
  <2>2. m_state[d] = "kDisconnected"
    BY <1>1, <2>1 DEF Ordered, Leaving
  <2>3. \A c \in Conns : ~Telling(c)' /\ (Telling(c) <=> c = d)
    BY <2>1, TellsOne, TellsOnePrimed
  <2>4. Stage(d) = "destroyed" /\ Stage(d)' = "removed"
    BY <1>1, <2>1, <2>2, <2>3 DEF Stage, Between, In
  <2>5. Life!Move(d, "destroyed", "removed")
    BY <1>1, <2>1, <2>3, <2>4, OthersStay, StageMoves
  <2> QED
    BY <1>2, <2>5 DEF Life!Proceed
<1>8. ASSUME NEW d \in Conns, BaseBatchEnds(d) \/ IoBatchEnds(d) \/ UserDrops(d)
      PROVE  [Life!Next]_Life!lifeVars
  <2>1. /\ m_state' = m_state /\ ioPc' = ioPc
        /\ \A c \in Conns : c # d => handlers'[c] = handlers[c]
        /\ \/ handlers'[d] = handlers[d]
           \/ /\ Live(d) /\ ~Live(d)' /\ handlers[d].m_state = kNew
              /\ ~Starting(d) /\ ~Leaving(d)
    BY <1>8, DroppedEffect
  <2>2. CASE handlers'[d] = handlers[d]
    <3>1. \A c \in Conns : Stage(c)' = Stage(c)
      BY <1>1, <2>1, <2>2, StageKept
    <3> QED
      BY <1>1, <3>1, LifeStutters
  <2>3. CASE Live(d) /\ ~Live(d)' /\ handlers[d].m_state = kNew /\ ~Starting(d) /\ ~Leaving(d)
    <3>1. m_state[d] = "kDisconnected"
      BY <1>1, <2>3 DEF Ordered
    <3>2. ~Telling(d)
      BY <1>1, <1>8, <2>3, DroppedUntold
    <3>3. Stage(d) = "removed" /\ Stage(d)' = "none"
      BY <2>3, <3>1, <3>2 DEF Stage, Between
    <3>4. Life!Move(d, "removed", "none")
      BY <1>1, <2>1, <3>3, OthersStay, StageMoves
    <3> QED
      BY <3>4 DEF Life!Next, Life!Destroy
  <2> QED
    BY <2>1, <2>2, <2>3
<1>9. CASE CloseReturns
  <2>1. PICK d \in Conns :
          /\ Live(d) /\ ioPc = In("down", d) /\ ioPc' = Idle
          /\ UNCHANGED <<handlers, m_state>>
    BY <1>1, <1>9, InsideLive DEF CloseReturns, pollerVars, serverVars, Idle
  <2>2. m_state[d] = "kDisconnected" /\ handlers[d].m_state # kNew
    BY <1>1, <2>1 DEF Ordered, Leaving
  <2>3. \A c \in Conns : ~Telling(c)' /\ (Telling(c) <=> c = d)
    BY <2>1, TellsOne, TellsOnePrimed
  <2>4. Stage(d) = "down" /\ Stage(d)' = "disconnected"
    BY <1>1, <2>1, <2>2, <2>3 DEF Stage, Between, In, Live
  <2>5. Life!Move(d, "down", "disconnected")
    BY <1>1, <2>1, <2>3, <2>4, OthersStay, StageMoves
  <2> QED
    BY <1>2, <2>5 DEF Life!Proceed
<1>10. CASE RemoveConnectionInLoop
  <2>1. UNCHANGED <<handlers, m_state, ioPc>>
    BY <1>10 DEF RemoveConnectionInLoop, pollerVars, serverVars
  <2>2. \A c \in Conns : Stage(c)' = Stage(c)
    BY <2>1, StageKept
  <2> QED
    BY <1>1, <2>2, LifeStutters
<1>11. CASE FunctorReturns
  <2>1. PICK d \in Conns :
          /\ Live(d) /\ ioPc = In(ioPc.in, d) /\ ioPc.in \in {"up", "writeComplete"}
          /\ ioPc' = Idle /\ UNCHANGED <<handlers, m_state>>
    BY <1>1, <1>11, InsideLive DEF FunctorReturns, pollerVars, serverVars, Idle
  <2>2. CASE ioPc.in = "up"
    <3>1. m_state[d] = "kConnected"
      BY <2>1, <2>2 DEF UpWhenTold, In
    <3>2. \A c \in Conns : ~Telling(c)' /\ (Telling(c) <=> c = d)
      BY <2>1, <2>2, TellsOne, TellsOnePrimed
    <3>3. Stage(d) = "up" /\ Stage(d)' = "connected"
      BY <1>1, <2>1, <2>2, <3>1, <3>2 DEF Stage, Between, Live
    <3>4. Life!Move(d, "up", "connected")
      BY <1>1, <2>1, <3>2, <3>3, OthersStay, StageMoves
    <3> QED
      BY <1>2, <3>4 DEF Life!Proceed
  <2>3. CASE ioPc.in = "writeComplete"
    <3>1. \A c \in Conns : ~Telling(c)' /\ ~Telling(c)
      BY <2>1, <2>3, TellsOnePrimed DEF Telling
    <3>2. \A c \in Conns : Stage(c)' = Stage(c)
      BY <2>1, <3>1, StageKept
    <3> QED
      BY <1>1, <3>2, LifeStutters
  <2> QED
    BY <2>1, <2>2, <2>3
<1>12. CASE /\ ~ConnectionEstablished /\ ~ConnectionDestroyed /\ ~DestroyedReturns
            /\ ~RemoveConnectionInLoop /\ ~CloseReturns /\ ~FunctorReturns
            /\ \A f \in Fds : ~CloseEvent(f)
            /\ \A c \in Conns : /\ \A f \in Fds : ~NewConnection(c, f)
                                /\ ~IoBatchEnds(c) /\ ~BaseBatchEnds(c) /\ ~UserDrops(c)
  <2>1. /\ m_state' = m_state /\ \A c \in Conns : handlers'[c] = handlers[c]
        /\ ioPc' = ioPc \/ \A c \in Conns : ~Telling(c) /\ ~Telling(c)'
    BY <1>12, QuietEffect
  <2>2. \A c \in Conns : Stage(c)' = Stage(c)
    BY <2>1, StageKept
  <2> QED
    BY <1>1, <2>2, LifeStutters
<1> QED
  BY <1>3, <1>4, <1>5, <1>6, <1>7, <1>8, <1>9, <1>10, <1>11, <1>12

(* It stops by IoLoopEnds only. *)
LEMMA IoLoopStops ==
  ASSUME ServerNext, IoRunning, ~IoRunning'
  PROVE  IoLoopEnds
<1>1. server' # server
  BY DEF IoRunning
<1>2. CASE \/ BaseLoopEnds \/ DestroyServer \/ IoThreadJoined
           \/ AcceptorDisables \/ AcceptorRemoves \/ AcceptorCloses
  BY <1>2
     DEF BaseLoopEnds, DestroyServer, IoThreadJoined, AcceptorDisables, AcceptorRemoves,
         AcceptorCloses, IoRunning
<1>3. ~(Start \/ Listen \/ Accept \/ UserSends \/ PeerConnects)
  BY <1>1
     DEF Start, Listen, Accept, RefuseConnection, NewConnection, UserSends, PeerConnects, startVars
<1>4. ~IoStep
  BY <1>1
     DEF IoStep, ConnectionEstablished, ConnectionDestroyed, DestroyedReturns, WriteComplete,
         RunSend, FunctorReturns, CloseReturns, IoBatchEnds, CloseEvent, startVars
<1>5. ~BaseStep /\ ~ReleaseIoFunctor /\ ~ReleaseBaseFunctor
  BY <1>1
     DEF BaseStep, RemoveConnectionInLoop, BaseBatchEnds, ReleaseIoFunctor, ReleaseBaseFunctor,
         startVars
<1>6. ~(\E c \in Conns : BeginSend(c) \/ QueueSend(c) \/ UserDrops(c) \/ PeerLeaves(c))
  BY <1>1 DEF BeginSend, QueueSend, UserDrops, PeerLeaves, startVars
<1> QED
  BY <1>2, <1>3, <1>4, <1>5, <1>6 DEF ServerNext, Teardown

(* ~Acceptor touches its own handler only. *)
LEMMA AcceptorAlone ==
  ASSUME Fixtures, AcceptorDisables \/ AcceptorRemoves \/ AcceptorCloses
  PROVE  UNCHANGED <<m_state, ioPc>> /\ \A c \in Conns : handlers'[c] = handlers[c]
<1> USE TcpServerAssumption, ConnsAreHandlers
<1> DEFINE h == AcceptHandler
<1>1. UNCHANGED <<m_state, ioPc>> /\ server # "gone" /\ h \notin Conns
  BY DEF AcceptorDisables, AcceptorRemoves, AcceptorCloses, serverVars, ioVars, Conns
<1>2. Live(h) /\ handlers[h].m_fd = ListenFd
  BY <1>1, EPollPollerAssumption DEF Fixtures, AcceptorRegistered, Live
<1>3. CASE AcceptorDisables
  <2>1. UpdateAsserts(h)
    BY <1>1, <1>2 DEF UpdateAsserts, Fixtures, AcceptorRegistered
  <2> QED
    BY <1>1, <1>2, <1>3, <2>1, UpdateStep
       DEF AcceptorDisables, DisablesAcceptHandler, DisableAll, Fixtures
<1>4. CASE AcceptorRemoves
  <2>1. RemoveAsserts(h) /\ handlers[h].m_state # kNew
    BY <1>1, <1>2, <1>4
       DEF AcceptorRemoves, Fixtures, AcceptorRegistered, RemoveAsserts, TypeOK
  <2> QED
    BY <1>1, <1>2, <1>4, <2>1, RemoveStep DEF AcceptorRemoves, Fixtures
<1>5. CASE AcceptorCloses
  BY <1>1, <1>5 DEF AcceptorCloses, Fixtures, TypeOK
<1> QED
  BY <1>3, <1>4, <1>5

(* The step that ends the io loop is the one that makes it stop running. *)
LEMMA EndingStep ==
  ASSUME ServerNext, IoRunning, ~IoRunning'
  PROVE  [Life!Next]_Life!lifeVars
<1>1. IoLoopEnds
  BY IoLoopStops
<1>2. UNCHANGED <<handlers, m_state, ioPc>>
  BY <1>1 DEF IoLoopEnds, pollerVars, serverVars, ioVars
<1>3. \A c \in Conns : Stage(c)' = Stage(c)
  BY <1>2, StageKept
<1>4. Life!End
  BY <1>3 DEF Life!End
<1> QED
  BY <1>4 DEF Life!Next

(* Afterwards the functors that are left, and the user, drop what they hold. *)
LEMMA TeardownStep ==
  ASSUME ServerInv, ServerNext, ~IoRunning
  PROVE  [Life!Next]_Life!lifeVars
<1> USE ConnsAreHandlers
<1>1. /\ Fixtures /\ Phases /\ ServerTypeOK /\ LiveIffHeld
      /\ ioQueue \in Seq(Functors) /\ baseQueue \in Seq(Removals)
  BY InvFixtures DEF ServerInv, LifeInv, ServerTypeOK, Functors, Removals
<1>2. ~IoRunning' /\ IoRunning' = IoRunning
  BY IoRunningBefore DEF IoRunning
<1>3. ASSUME UNCHANGED <<m_state, ioPc>>, \A c \in Conns : handlers'[c] = handlers[c]
      PROVE  [Life!Next]_Life!lifeVars
  BY <1>2, <1>3, StageKept, LifeStutters
<1>4. ASSUME NEW d \in Conns, NEW holder, Live(d), Drop(d, holder), server' = server,
             UNCHANGED <<m_state, ioPc>>
      PROVE  [Life!Next]_Life!lifeVars
  <2>1. /\ \A c \in Conns : c # d => handlers'[c] = handlers[c]
        /\ ~Live(d)' \/ UNCHANGED pollerVars
    BY <1>1, <1>4, DropFixtures
  <2>2. CASE ~Live(d)'
    <3>1. Stage(d)' = "none" /\ Stage(d) \in Life!Stages
      <4>1. ioPc = Idle
        BY <1>1 DEF Phases
      <4> QED
        BY <1>1, <1>4, <2>2, <4>1, TellsOne DEF Stage, Between, Life!Stages, ServerTypeOK
    <3>2. Life!Move(d, Stage(d), "none")
      <4>1. \A c \in Conns : c # d => Stage(c)' = Stage(c)
        BY <1>4, <2>1, StageKept
      <4> QED
        BY <1>2, <3>1, <4>1, StageMoves
    <3>3. Life!Destroy(d)
      BY <1>2, <3>1, <3>2 DEF Life!Destroy
    <3> QED
      BY <3>3 DEF Life!Next
  <2>3. CASE UNCHANGED pollerVars
    BY <1>3, <1>4, <2>3 DEF pollerVars
  <2> QED
    BY <2>1, <2>2, <2>3
<1>5. ASSUME NEW d \in Conns, UserDrops(d)  PROVE [Life!Next]_Life!lifeVars
  <2>1. Live(d) /\ Drop(d, "user") /\ UNCHANGED <<server, m_state, ioPc>>
    BY <1>1, <1>5 DEF UserDrops, LiveIffHeld, Held, startVars, ioVars
  <2> QED
    BY <1>4, <2>1
<1>6. ASSUME NEW S, NEW queue \in Seq(S), queue # <<>>, NEW holder, Head(queue).conn \in Conns,
             \A d \in Conns : Holds(queue, d) => Live(d), ReleaseFirst(queue, holder),
             UNCHANGED <<server, m_state, ioPc>>
      PROVE  [Life!Next]_Life!lifeVars
  <2>1. \/ UNCHANGED pollerVars
        \/ Live(Head(queue).conn) /\ Drop(Head(queue).conn, holder)
    BY <1>6, ReleasedLive
  <2> QED
    BY <1>3, <1>4, <1>6, <2>1 DEF pollerVars
<1>7. CASE ReleaseIoFunctor
  <2>1. Head(ioQueue).conn \in Conns
    <3>1. ioQueue # <<>>
      BY <1>7 DEF ReleaseIoFunctor
    <3>2. Head(ioQueue) \in Functors
      BY <1>1, <3>1, HoldsTail
    <3> QED
      BY <3>2 DEF Functors
  <2>2. \A d \in Conns : Holds(ioQueue, d) => Live(d)
    BY <1>1 DEF LiveIffHeld, Held
  <2> QED
    BY <1>1, <1>6, <1>7, <2>1, <2>2 DEF ReleaseIoFunctor, startVars, serverVars
<1>8. CASE ReleaseBaseFunctor
  <2>1. Head(baseQueue).conn \in Conns
    <3>1. baseQueue # <<>>
      BY <1>8 DEF ReleaseBaseFunctor
    <3>2. Head(baseQueue) \in Removals
      BY <1>1, <3>1, HoldsTail
    <3> QED
      BY <3>2 DEF Removals
  <2>2. \A d \in Conns : Holds(baseQueue, d) => Live(d)
    BY <1>1 DEF LiveIffHeld, Held
  <2> QED
    BY <1>1, <1>6, <1>8, <2>1, <2>2 DEF ReleaseBaseFunctor, startVars, serverVars, ioVars
<1>9. CASE \/ IoThreadJoined \/ PeerConnects \/ \E c \in Conns : QueueSend(c) \/ PeerLeaves(c)
  <2>1. UNCHANGED <<handlers, m_state, ioPc>>
    BY <1>9
       DEF IoThreadJoined, PeerConnects, QueueSend, PeerLeaves, pollerVars, serverVars, ioVars
  <2> QED
    BY <1>3, <2>1
<1>10. CASE AcceptorDisables \/ AcceptorRemoves \/ AcceptorCloses
  <2>1. UNCHANGED <<m_state, ioPc>> /\ \A c \in Conns : handlers'[c] = handlers[c]
    BY <1>1, <1>10, AcceptorAlone
  <2> QED
    BY <1>3, <2>1
<1>11. /\ server \notin {"running", "ended", "joining"} /\ ioPc = Idle
       /\ ioBatch = {} /\ baseBatch = {}
  BY <1>1 DEF Phases, IoRunning
<1>12. ~(\/ Start \/ Listen \/ Accept \/ BaseLoopEnds \/ DestroyServer \/ IoLoopEnds
         \/ UserSends \/ BaseStep \/ IoStep)
  BY <1>11
     DEF Start, Listen, Accept, RefuseConnection, NewConnection, AcceptEvent, BaseLoopEnds,
         DestroyServer, IoLoopEnds, UserSends, BaseStep, RemoveConnectionInLoop, BaseBatchEnds,
         IoStep, ConnectionEstablished, ConnectionDestroyed, DestroyedReturns, WriteComplete,
         RunSend, FunctorReturns, CloseReturns, IoBatchEnds, CloseEvent, NextFunctor, IoRunning
<1>13. ~(\E c \in Conns : BeginSend(c))
  BY <1>11 DEF BeginSend
<1> QED
  BY <1>5, <1>7, <1>8, <1>9, <1>10, <1>12, <1>13 DEF ServerNext, Teardown

(* Every connection of every address runs through the stages in their order, each
   callback once, whatever the queues hold of it and of earlier connections there: none
   is told to be down that was not up, or up twice, and while the loop runs none is
   destroyed in the poller.  This is what the assertions on m_state
   (src/TcpConnection.cpp:164, 245) and the ownership of TcpConnectionPtrs are for. *)
THEOREM ConnectionLifeImplemented ==
  ASSUME CarefulUser
  PROVE  ServerSpec => ImplementsConnectionLife
<1>1. Init => Life!Init
  <2>1. ASSUME Init, NEW c \in Conns  PROVE Stage(c) = "none"
    BY <2>1, ConnsAreHandlers DEF Init, Stage, Live, Nothing
  <2>2. Init => IoRunning
    BY DEF Init, IoRunning
  <2> QED
    BY <2>1, <2>2 DEF Life!Init
<1>2. ASSUME ServerInv, IoRunning => InOrder /\ UpWhenTold, [ServerNext]_vars
      PROVE  [Life!Next]_Life!lifeVars
  <2>1. CASE ServerNext
    BY <1>2, <2>1, RunningStep, EndingStep, TeardownStep
  <2>2. CASE UNCHANGED vars
    <3>1. /\ UNCHANGED <<handlers, m_state, ioPc>>
          /\ IoRunning' = IoRunning
      BY <2>2 DEF IoRunning, vars, pollerVars, startVars, serverVars, ioVars
    <3>2. \A c \in Conns : Stage(c)' = Stage(c)
      BY <3>1, StageKept
    <3> QED
      BY <3>1, <3>2, LifeStutters
  <2> QED
    BY <1>2, <2>1, <2>2
<1> DEFINE Inv == IoRunning => InOrder /\ UpWhenTold
<1>3. ServerInv /\ Inv /\ [ServerNext]_vars => [Life!Next]_Life!lifeVars
  BY <1>2
<1>4. ServerSpec => []Inv
  BY InOrderHolds
<1> HIDE DEF Inv
<1> QED
  BY <1>1, <1>3, <1>4, ServerInvHolds, PTL DEF ServerSpec, ImplementsConnectionLife, Life!Spec

=============================================================================
