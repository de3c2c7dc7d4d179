-------------------------- MODULE EPollPollerProofs --------------------------
(***************************************************************************)
(* What EPollPoller promises, for any number of handlers and descriptors:  *)
(* its assertions hold, the kernel never has a pointer to a handler that   *)
(* is gone, and it watches for exactly what the handlers ask for.          *)
(***************************************************************************)
EXTENDS EPollPoller, TLAPS

(* A live handler has an open descriptor of its own; without an object, an address
   has the fields of no handler. *)
Ownership ==
  /\ \A h \in Handlers : handlers[h].m_fd = NoFd => handlers[h] = Nothing
  /\ \A h \in Handlers : handlers[h].m_fd # NoFd => handlers[h].m_fd \in openFds
  /\ \A g, h \in Handlers :
       handlers[g].m_fd # NoFd /\ handlers[g].m_fd = handlers[h].m_fd => g = h

(* The map has exactly the handlers that are not kNew ... *)
Mapped ==
  /\ \A h \in Handlers : handlers[h].m_state # kNew => m_handlermap[handlers[h].m_fd] = h
  /\ \A f \in Fds : m_handlermap[f] # NoHandler =>
       handlers[m_handlermap[f]].m_fd = f /\ handlers[m_handlermap[f]].m_state # kNew

(* ... and the interest list exactly those that are kAdded, with their events. *)
Watched ==
  /\ \A h \in Handlers : handlers[h].m_state = kAdded =>
       epoll[handlers[h].m_fd] = [ptr |-> h, events |-> handlers[h].m_events]
  /\ \A h \in Handlers : handlers[h].m_state # kAdded => handlers[h].m_events = {}
  /\ \A f \in Fds : epoll[f] # Absent =>
       /\ epoll[f].ptr \in Handlers
       /\ handlers[epoll[f].ptr].m_fd = f
       /\ handlers[epoll[f].ptr].m_state = kAdded

IInv == TypeOK /\ AssertionsHold /\ Ownership /\ Mapped /\ Watched

(* A new handler, or one that went, has no entry in the interest list. *)
LEMMA NotWatched ==
  ASSUME IInv, NEW h \in Handlers, handlers[h].m_fd # NoFd, handlers[h].m_state # kAdded
  PROVE  epoll[handlers[h].m_fd] = Absent
BY EPollPollerAssumption DEF IInv, TypeOK, Ownership, Watched

(* The assertions of updateHandler hold. *)
LEMMA UpdateAllowed ==
  ASSUME IInv, NEW h \in Handlers, Live(h)
  PROVE  UpdateAsserts(h)
BY EPollPollerAssumption
   DEF IInv, TypeOK, Ownership, Mapped, Live, UpdateAsserts, kNew, kAdded, kDeleted

(* updateHandler leaves the kernel with what the handler asks for. *)
LEMMA KernelFollows ==
  ASSUME IInv, NEW h \in Handlers, Live(h), NEW events \in SUBSET Flags
  PROVE  /\ StateAfterUpdate(h, events) = kAdded =>
              EpollAfter(Operation(h, events), handlers[h].m_fd, h, events)
                = [epoll EXCEPT ![handlers[h].m_fd] = [ptr |-> h, events |-> events]]
         /\ StateAfterUpdate(h, events) # kAdded =>
              /\ StateAfterUpdate(h, events) = kDeleted
              /\ events = {}
              /\ EpollAfter(Operation(h, events), handlers[h].m_fd, h, events)
                   = [epoll EXCEPT ![handlers[h].m_fd] = Absent]
<1> DEFINE f == handlers[h].m_fd
<1>1. f \in openFds
  BY DEF IInv, Ownership, Live
<1>2. ASSUME handlers[h].m_state = kAdded  PROVE epoll[f] # Absent
  <2>1. epoll[f] = [ptr |-> h, events |-> handlers[h].m_events]
    BY <1>2 DEF IInv, Watched
  <2>2. epoll[f].ptr = h
    BY <2>1
  <2> QED
    BY <2>2, EPollPollerAssumption DEF Absent
<1>3. handlers[h].m_state # kAdded => epoll[f] = Absent
  BY NotWatched DEF Live
<1>4. CASE handlers[h].m_state = kAdded /\ events = {}
  BY <1>1, <1>2, <1>4 DEF StateAfterUpdate, Operation, EpollAfter, kAdded, kDeleted
<1>5. CASE handlers[h].m_state = kAdded /\ events # {}
  BY <1>1, <1>2, <1>5 DEF StateAfterUpdate, Operation, EpollAfter, kAdded, kDeleted
<1>6. CASE handlers[h].m_state # kAdded
  BY <1>1, <1>3, <1>6 DEF StateAfterUpdate, Operation, EpollAfter, kAdded, kDeleted
<1> QED
  BY <1>4, <1>5, <1>6

(* Every call that sets m_events and updates keeps the invariant. *)
LEMMA UpdateKeeps ==
  ASSUME IInv, NEW h \in Handlers, Live(h), NEW events \in SUBSET Flags, Update(h, events)
  PROVE  IInv'
<1> DEFINE f == handlers[h].m_fd
           s == StateAfterUpdate(h, events)
           entry == IF s = kAdded THEN [ptr |-> h, events |-> events] ELSE Absent
<1>1. f \in Fds
  BY DEF IInv, TypeOK, Live
<1>2. /\ m_handlermap' = [m_handlermap EXCEPT ![f] = h]
      /\ epoll' = [epoll EXCEPT ![f] = entry]
      /\ UNCHANGED <<openFds, aborted>>
  BY UpdateAllowed, KernelFollows DEF Update
<1>3. handlers' = [handlers EXCEPT ![h].m_events = events, ![h].m_state = s]
  BY UpdateAllowed DEF Update
<1>4. s \in {kAdded, kDeleted} /\ (s # kAdded => events = {})
  BY KernelFollows
<1> HIDE DEF s
<1>5. TypeOK'
  BY <1>1, <1>2, <1>3, <1>4, ZenonT(30) DEF IInv, TypeOK, Absent
<1>6. AssertionsHold'
  BY <1>2 DEF IInv, AssertionsHold
<1>7. /\ handlers'[h] = [m_fd |-> f, m_events |-> events, m_state |-> s]
      /\ \A g \in Handlers : g # h => handlers'[g] = handlers[g]
      /\ \A g \in Handlers : handlers'[g].m_fd = handlers[g].m_fd
  BY <1>3, ZenonT(30) DEF IInv, TypeOK
<1>8. Ownership'
  <2>1. \A g \in Handlers : handlers'[g].m_fd = NoFd => handlers'[g] = Nothing
    BY <1>7 DEF IInv, Ownership, Live
  <2>2. \A g \in Handlers : handlers'[g].m_fd # NoFd => handlers'[g].m_fd \in openFds'
    BY <1>2, <1>7 DEF IInv, Ownership
  <2>3. \A g, k \in Handlers :
          handlers'[g].m_fd # NoFd /\ handlers'[g].m_fd = handlers'[k].m_fd => g = k
    BY <1>7 DEF IInv, Ownership
  <2> QED
    BY <2>1, <2>2, <2>3, Zenon DEF Ownership, Nothing, kNew
<1>9. \A g \in Handlers : g # h => handlers[g].m_fd # f
  BY DEF IInv, Ownership, Live
<1>10. \A g \in Handlers : handlers[g].m_state # kNew => handlers[g].m_fd \in Fds
  BY DEF IInv, TypeOK, Ownership, Nothing
<1>11. Mapped'
  BY <1>1, <1>2, <1>4, <1>7, <1>9, <1>10, EPollPollerAssumption, SMTT(30)
     DEF IInv, TypeOK, Mapped, kNew, kAdded, kDeleted
<1>12. Watched'
  <2>1. \A g \in Handlers : handlers'[g].m_state = kAdded =>
          epoll'[handlers'[g].m_fd] = [ptr |-> g, events |-> handlers'[g].m_events]
    BY <1>1, <1>2, <1>7, <1>9, <1>10 DEF IInv, TypeOK, Watched, kNew, kAdded
  <2>2. \A g \in Handlers : handlers'[g].m_state # kAdded => handlers'[g].m_events = {}
    BY <1>4, <1>7 DEF IInv, Watched
  <2>3. \A k \in Fds : epoll'[k] # Absent =>
          /\ epoll'[k].ptr \in Handlers
          /\ handlers'[epoll'[k].ptr].m_fd = k
          /\ handlers'[epoll'[k].ptr].m_state = kAdded
    BY <1>1, <1>2, <1>7, <1>9 DEF IInv, TypeOK, Watched
  <2> QED
    BY <2>1, <2>2, <2>3 DEF Watched
<1> QED
  BY <1>5, <1>6, <1>8, <1>11, <1>12 DEF IInv

(* removeHandler: its assertions hold where an owner calls it, and the handler is
   out of the map and of the interest list. *)
LEMMA RemoveKeeps ==
  ASSUME IInv, NEW h \in Handlers, Live(h),
         handlers[h].m_state # kNew, handlers[h].m_events = {}, RemoveHandler(h)
  PROVE  IInv'
<1> DEFINE f == handlers[h].m_fd
<1>1. f \in Fds /\ f \in openFds
  BY DEF IInv, TypeOK, Ownership, Live
<1>2. RemoveAsserts(h)
  BY DEF IInv, TypeOK, Mapped, RemoveAsserts
<1>3. /\ m_handlermap' = [m_handlermap EXCEPT ![f] = NoHandler]
      /\ UNCHANGED <<openFds, aborted>>
  BY <1>2 DEF RemoveHandler, MapAfterRemove
<1>4. handlers' = [handlers EXCEPT ![h].m_state = kNew]
  BY <1>2 DEF RemoveHandler
<1>5. epoll' = [epoll EXCEPT ![f] = Absent]
  <2>1. CASE handlers[h].m_state = kAdded
    <3>1. epoll[f] = [ptr |-> h, events |-> handlers[h].m_events]
      BY <2>1 DEF IInv, Watched
    <3>2. epoll[f].ptr = h
      BY <3>1
    <3>3. epoll[f] # Absent
      BY <3>2, EPollPollerAssumption DEF Absent
    <3> QED
      BY <1>1, <1>2, <2>1, <3>3 DEF RemoveHandler, EpollAfterRemove, EpollAfter
  <2>2. CASE handlers[h].m_state # kAdded
    <3>1. epoll[f] = Absent
      BY <2>2, NotWatched DEF Live
    <3>2. epoll' = epoll
      BY <1>2, <2>2 DEF RemoveHandler, EpollAfterRemove
    <3> QED
      BY <1>1, <3>1, <3>2 DEF IInv, TypeOK
  <2> QED
    BY <2>1, <2>2
<1>6. /\ handlers'[h] = [m_fd |-> f, m_events |-> {}, m_state |-> kNew]
      /\ \A g \in Handlers : g # h => handlers'[g] = handlers[g]
      /\ \A g \in Handlers : handlers'[g].m_fd = handlers[g].m_fd
  BY <1>4 DEF IInv, TypeOK
<1>7. \A g \in Handlers : g # h => handlers[g].m_fd # f
  BY DEF IInv, Ownership, Live
<1>8. \A g \in Handlers : handlers[g].m_state # kNew => handlers[g].m_fd \in Fds
  BY DEF IInv, TypeOK, Ownership, Nothing
<1>9. TypeOK'
  BY <1>1, <1>3, <1>4, <1>5 DEF IInv, TypeOK, Absent
<1>10. AssertionsHold'
  BY <1>3 DEF IInv, AssertionsHold
<1>11. Ownership'
  <2>1. \A g \in Handlers : handlers'[g].m_fd = NoFd => handlers'[g] = Nothing
    BY <1>6 DEF IInv, Ownership, Live
  <2>2. \A g \in Handlers : handlers'[g].m_fd # NoFd => handlers'[g].m_fd \in openFds'
    BY <1>3, <1>6 DEF IInv, Ownership
  <2>3. \A g, k \in Handlers :
          handlers'[g].m_fd # NoFd /\ handlers'[g].m_fd = handlers'[k].m_fd => g = k
    BY <1>6 DEF IInv, Ownership
  <2> QED
    BY <2>1, <2>2, <2>3, Zenon DEF Ownership, Nothing, kNew
<1>12. Mapped'
  <2>1. \A g \in Handlers :
          handlers'[g].m_state # kNew => m_handlermap'[handlers'[g].m_fd] = g
    BY <1>1, <1>3, <1>6, <1>7, <1>8 DEF IInv, TypeOK, Mapped
  <2>2. \A k \in Fds : m_handlermap'[k] # NoHandler =>
          handlers'[m_handlermap'[k]].m_fd = k /\ handlers'[m_handlermap'[k]].m_state # kNew
    BY <1>1, <1>3, <1>6 DEF IInv, TypeOK, Mapped
  <2> QED
    BY <2>1, <2>2 DEF Mapped, kNew
<1>13. Watched'
  <2>1. \A g \in Handlers : handlers'[g].m_state = kAdded =>
          epoll'[handlers'[g].m_fd] = [ptr |-> g, events |-> handlers'[g].m_events]
    BY <1>1, <1>5, <1>6, <1>7, <1>8 DEF IInv, TypeOK, Watched, kNew, kAdded
  <2>2. \A g \in Handlers : handlers'[g].m_state # kAdded => handlers'[g].m_events = {}
    BY <1>6 DEF IInv, Watched
  <2>3. \A k \in Fds : epoll'[k] # Absent =>
          /\ epoll'[k].ptr \in Handlers
          /\ handlers'[epoll'[k].ptr].m_fd = k
          /\ handlers'[epoll'[k].ptr].m_state = kAdded
    BY <1>1, <1>5, <1>6 DEF IInv, TypeOK, Watched
  <2> QED
    BY <2>1, <2>2, <2>3 DEF Watched, kAdded, Absent
<1> QED
  BY <1>9, <1>10, <1>11, <1>12, <1>13 DEF IInv

(* A handler may take over the address or the descriptor of one that went. *)
LEMMA ConstructKeeps ==
  ASSUME IInv, NEW h \in Handlers, NEW f \in Fds, ConstructHandler(h, f)
  PROVE  IInv'
<1>1. /\ ~Live(h) /\ f \notin openFds
      /\ openFds' = openFds \cup {f}
      /\ UNCHANGED <<m_handlermap, epoll, aborted>>
  BY DEF ConstructHandler
<1>2. /\ handlers'[h] = [m_fd |-> f, m_events |-> {}, m_state |-> kNew]
      /\ \A g \in Handlers : g # h => handlers'[g] = handlers[g]
  BY DEF ConstructHandler, IInv, TypeOK, Nothing
<1>3. handlers[h] = Nothing
  BY <1>1 DEF Live, IInv, Ownership
<1>4. handlers[h].m_state = kNew /\ handlers[h].m_fd = NoFd
  BY <1>3 DEF Nothing
<1>5. \A g \in Handlers : handlers[g].m_fd # f
  BY <1>1, EPollPollerAssumption DEF IInv, Ownership
<1>6. TypeOK'
  BY <1>1 DEF ConstructHandler, IInv, TypeOK, Nothing
<1>7. AssertionsHold'
  BY <1>1 DEF IInv, AssertionsHold
<1>8. Ownership'
  <2>1. f # NoFd
    BY EPollPollerAssumption
  <2>2. \A g \in Handlers : handlers'[g].m_fd = NoFd => handlers'[g] = Nothing
    BY <1>2, <2>1 DEF IInv, Ownership
  <2>3. \A g \in Handlers : handlers'[g].m_fd # NoFd => handlers'[g].m_fd \in openFds'
    BY <1>1, <1>2 DEF IInv, Ownership
  <2>4. \A g, k \in Handlers :
          handlers'[g].m_fd # NoFd /\ handlers'[g].m_fd = handlers'[k].m_fd => g = k
    BY <1>2, <1>5 DEF IInv, Ownership
  <2> QED
    BY <2>2, <2>3, <2>4, Zenon DEF Ownership, Nothing, kNew
<1>9. Mapped'
  <2>1. \A g \in Handlers :
          handlers'[g].m_state # kNew => m_handlermap'[handlers'[g].m_fd] = g
    BY <1>1, <1>2 DEF IInv, Mapped
  <2>2. \A k \in Fds : m_handlermap[k] # NoHandler =>
          m_handlermap[k] \in Handlers /\ m_handlermap[k] # h
    BY <1>4 DEF IInv, TypeOK, Mapped
  <2>3. \A k \in Fds : m_handlermap'[k] # NoHandler =>
          handlers'[m_handlermap'[k]].m_fd = k /\ handlers'[m_handlermap'[k]].m_state # kNew
    BY <1>1, <1>2, <2>2 DEF IInv, Mapped
  <2> QED
    BY <2>1, <2>3 DEF Mapped, kNew
<1>10. Watched'
  <2>1. \A g \in Handlers : handlers'[g].m_state = kAdded =>
          epoll'[handlers'[g].m_fd] = [ptr |-> g, events |-> handlers'[g].m_events]
    BY <1>1, <1>2 DEF IInv, Watched, kNew, kAdded
  <2>2. \A g \in Handlers : handlers'[g].m_state # kAdded => handlers'[g].m_events = {}
    BY <1>2 DEF IInv, Watched
  <2>3. \A k \in Fds : epoll[k] # Absent => epoll[k].ptr \in Handlers /\ epoll[k].ptr # h
    BY <1>4 DEF IInv, Watched, kNew, kAdded
  <2>4. \A k \in Fds : epoll'[k] # Absent =>
          /\ epoll'[k].ptr \in Handlers
          /\ handlers'[epoll'[k].ptr].m_fd = k
          /\ handlers'[epoll'[k].ptr].m_state = kAdded
    BY <1>1, <1>2, <2>3 DEF IInv, Watched
  <2> QED
    BY <2>1, <2>2, <2>4 DEF Watched, kAdded, Absent
<1> QED
  BY <1>6, <1>7, <1>8, <1>9, <1>10 DEF IInv

(* A handler goes that nobody can reach any more. *)
LEMMA DestroyKeeps ==
  ASSUME IInv, NEW h \in Handlers, handlers[h].m_state = kNew, DestroyHandler(h)
  PROVE  IInv'
<1>1. UNCHANGED <<m_handlermap, epoll, openFds, aborted>>
  BY DEF DestroyHandler
<1>2. /\ handlers'[h] = Nothing
      /\ \A g \in Handlers : g # h => handlers'[g] = handlers[g]
  BY DEF DestroyHandler, IInv, TypeOK
<1>3. TypeOK'
  BY <1>1 DEF DestroyHandler, IInv, TypeOK, Nothing
<1>4. AssertionsHold'
  BY <1>1 DEF IInv, AssertionsHold
<1>5. handlers'[h].m_fd = NoFd /\ handlers'[h].m_state = kNew /\ handlers'[h].m_events = {}
  BY <1>2 DEF Nothing
<1>6. Ownership'
  <2>1. \A g \in Handlers : handlers'[g].m_fd = NoFd => handlers'[g] = Nothing
    BY <1>2 DEF IInv, Ownership
  <2>2. \A g \in Handlers : handlers'[g].m_fd # NoFd => handlers'[g].m_fd \in openFds'
    BY <1>1, <1>2, <1>5 DEF IInv, Ownership
  <2>3. \A g, k \in Handlers :
          handlers'[g].m_fd # NoFd /\ handlers'[g].m_fd = handlers'[k].m_fd => g = k
    BY <1>2, <1>5 DEF IInv, Ownership
  <2> QED
    BY <2>1, <2>2, <2>3, Zenon DEF Ownership, Nothing, kNew
<1>7. Mapped'
  <2>1. \A g \in Handlers :
          handlers'[g].m_state # kNew => m_handlermap'[handlers'[g].m_fd] = g
    BY <1>1, <1>2, <1>5 DEF IInv, Mapped
  <2>2. \A k \in Fds : m_handlermap[k] # NoHandler =>
          m_handlermap[k] \in Handlers /\ m_handlermap[k] # h
    BY DEF IInv, TypeOK, Mapped
  <2>3. \A k \in Fds : m_handlermap'[k] # NoHandler =>
          handlers'[m_handlermap'[k]].m_fd = k /\ handlers'[m_handlermap'[k]].m_state # kNew
    BY <1>1, <1>2, <2>2 DEF IInv, Mapped
  <2> QED
    BY <2>1, <2>3 DEF Mapped, kNew
<1>8. Watched'
  <2>1. \A g \in Handlers : handlers'[g].m_state = kAdded =>
          epoll'[handlers'[g].m_fd] = [ptr |-> g, events |-> handlers'[g].m_events]
    BY <1>1, <1>2, <1>5 DEF IInv, Watched, kNew, kAdded
  <2>2. \A g \in Handlers : handlers'[g].m_state # kAdded => handlers'[g].m_events = {}
    BY <1>2, <1>5 DEF IInv, Watched
  <2>3. \A k \in Fds : epoll[k] # Absent => epoll[k].ptr \in Handlers /\ epoll[k].ptr # h
    BY DEF IInv, Watched, kNew, kAdded
  <2>4. \A k \in Fds : epoll'[k] # Absent =>
          /\ epoll'[k].ptr \in Handlers
          /\ handlers'[epoll'[k].ptr].m_fd = k
          /\ handlers'[epoll'[k].ptr].m_state = kAdded
    BY <1>1, <1>2, <2>3 DEF IInv, Watched
  <2> QED
    BY <2>1, <2>2, <2>4 DEF Watched, kAdded, Absent
<1> QED
  BY <1>3, <1>4, <1>6, <1>7, <1>8 DEF IInv

(* Only a descriptor without a handler is closed, and so nothing that is watched. *)
LEMMA CloseKeeps ==
  ASSUME IInv, NEW f \in Fds, CloseDescriptor(f)
  PROVE  IInv'
<1>1. /\ \A h \in Handlers : handlers[h].m_fd # f
      /\ openFds' = openFds \ {f}
      /\ epoll' = [epoll EXCEPT ![f] = Absent]
      /\ UNCHANGED <<handlers, m_handlermap, aborted>>
  BY DEF CloseDescriptor
<1>2. epoll[f] = Absent
  BY <1>1 DEF IInv, Watched
<1>3. epoll' = epoll
  BY <1>1, <1>2 DEF IInv, TypeOK
<1>4. TypeOK' /\ AssertionsHold'
  BY <1>1, <1>3 DEF IInv, TypeOK, AssertionsHold
<1>5. Ownership'
  BY <1>1 DEF IInv, Ownership, Nothing, kNew
<1>6. Mapped' /\ Watched'
  BY <1>1, <1>3 DEF IInv, Mapped, Watched, kNew, kAdded, Absent
<1> QED
  BY <1>4, <1>5, <1>6 DEF IInv

LEMMA InitIInv == PollerInit => IInv
<1> SUFFICES ASSUME PollerInit  PROVE IInv
  OBVIOUS
<1>1. \A h \in Handlers :
        handlers[h] = Nothing /\ handlers[h].m_fd = NoFd /\ handlers[h].m_state = kNew
        /\ handlers[h].m_events = {}
  BY DEF PollerInit, Nothing
<1>2. \A f \in Fds : m_handlermap[f] = NoHandler /\ epoll[f] = Absent
  BY DEF PollerInit
<1>3. TypeOK /\ AssertionsHold
  BY DEF PollerInit, TypeOK, AssertionsHold, Nothing, Absent, kNew
<1>4. Ownership
  BY <1>1 DEF Ownership
<1>5. Mapped
  BY <1>1, <1>2 DEF Mapped
<1>6. Watched
  BY <1>1, <1>2 DEF Watched, kNew, kAdded
<1> QED
  BY <1>3, <1>4, <1>5, <1>6 DEF IInv

LEMMA NextIInv == IInv /\ [Next]_pollerVars => IInv'
<1> SUFFICES ASSUME IInv, [Next]_pollerVars  PROVE IInv'
  OBVIOUS
<1>1. ASSUME NEW h \in Handlers, UseHandler(h)  PROVE IInv'
  <2>1. Live(h) /\ handlers[h].m_events \in SUBSET Flags
    BY <1>1 DEF UseHandler, IInv, TypeOK
  <2>2. ASSUME NEW events \in SUBSET Flags, Update(h, events)  PROVE IInv'
    BY <2>1, <2>2, UpdateKeeps
  <2>3. CASE EnableReading(h) \/ EnableWriting(h) \/ DisableWriting(h) \/ DisableAll(h)
    BY <2>1, <2>2, <2>3
       DEF EnableReading, EnableWriting, DisableWriting, DisableAll, Flags
  <2>4. CASE handlers[h].m_state # kNew /\ handlers[h].m_events = {} /\ RemoveHandler(h)
    BY <2>1, <2>4, RemoveKeeps
  <2>5. CASE handlers[h].m_state = kNew /\ handlers[h].m_events = {} /\ DestroyHandler(h)
    BY <2>5, DestroyKeeps
  <2> QED
    BY <1>1, <2>3, <2>4, <2>5 DEF UseHandler
<1>2. ASSUME NEW h \in Handlers, NEW f \in Fds, ConstructHandler(h, f)  PROVE IInv'
  BY <1>2, ConstructKeeps
<1>3. ASSUME NEW f \in Fds, CloseDescriptor(f)  PROVE IInv'
  BY <1>3, CloseKeeps
<1>4. CASE UNCHANGED pollerVars
  BY <1>4
     DEF pollerVars, IInv, TypeOK, AssertionsHold, Ownership, Mapped, Watched, Nothing, Absent,
         kNew, kAdded, kDeleted
<1> QED
  BY <1>1, <1>2, <1>3, <1>4 DEF Next

LEMMA InvariantHolds == Spec => []IInv
BY InitIInv, NextIInv, PTL DEF Spec

(* Types of the handlers, the map and the interest list. *)
THEOREM TypeCorrect == Spec => []TypeOK
<1>1. IInv => TypeOK
  BY DEF IInv
<1> QED
  BY <1>1, InvariantHolds, PTL

(* However handlers come and go, and whatever addresses and descriptors they use
   again, no assertion of updateHandler or removeHandler fails. *)
THEOREM AssertionsHoldAlways == Spec => []AssertionsHold
<1>1. IInv => AssertionsHold
  BY DEF IInv
<1> QED
  BY <1>1, InvariantHolds, PTL

(* fillActiveHandlers writes to live handlers that are in the map. *)
THEOREM NoDanglingPointerAlways == Spec => []NoDanglingPointer
<1>1. IInv => NoDanglingPointer
  BY DEF IInv, Mapped, Watched, NoDanglingPointer, kNew, kAdded
<1> QED
  BY <1>1, InvariantHolds, PTL

(* epoll watches for exactly the events that the handlers ask for. *)
THEOREM InterestKeptAlways == Spec => []InterestKept
<1>1. ASSUME IInv, NEW h \in Handlers, handlers[h].m_events # {}
      PROVE  epoll[handlers[h].m_fd].ptr = h
  <2>1. epoll[handlers[h].m_fd] = [ptr |-> h, events |-> handlers[h].m_events]
    BY <1>1 DEF IInv, Watched
  <2> QED
    BY <2>1
<1>2. ASSUME IInv, NEW h \in Handlers, Live(h), epoll[handlers[h].m_fd].ptr = h
      PROVE  epoll[handlers[h].m_fd].events = handlers[h].m_events
  <2>1. handlers[h].m_fd \in Fds /\ epoll[handlers[h].m_fd] # Absent
    BY <1>2, EPollPollerAssumption DEF IInv, TypeOK, Live, Absent
  <2>2. handlers[h].m_state = kAdded
    BY <1>2, <2>1 DEF IInv, Watched
  <2>3. epoll[handlers[h].m_fd] = [ptr |-> h, events |-> handlers[h].m_events]
    BY <1>2, <2>2 DEF IInv, Watched
  <2> QED
    BY <2>3
<1>3. IInv => InterestKept
  BY <1>1, <1>2 DEF InterestKept
<1> QED
  BY <1>3, InvariantHolds, PTL
=============================================================================
