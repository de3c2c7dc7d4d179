----------------------------- MODULE EPollPoller -----------------------------
(***************************************************************************)
(* The registration of handlers: EPollPoller (src/EPollPoller.cpp), the    *)
(* calls of Handler that lead to it (src/Handler.h, src/Handler.cpp) and   *)
(* the kernel's interest list.  All of it runs on the loop's thread, one   *)
(* call at a time.  What epoll_wait makes of the interest list is          *)
(* EventLoop!PollEvent.                                                    *)
(*                                                                         *)
(* The owners of handlers (Acceptor, TcpConnection) remove a handler       *)
(* before they destroy it and destroy it before they close its descriptor; *)
(* the actions at the end of this module follow them.                      *)
(***************************************************************************)
EXTENDS Integers

CONSTANTS
  Handlers,            \* addresses of Handler objects; one may be used again
  Fds,                 \* descriptor numbers; one may be used again
  NoHandler, NoFd

ASSUME EPollPollerAssumption ==
  /\ NoHandler \notin Handlers
  /\ NoFd \notin Fds

VARIABLES
  handlers,            \* per address: m_fd (NoFd: no object there), m_events, m_state
  m_handlermap,        \* per descriptor: the handler, or NoHandler if it is not in the map
  epoll,               \* the interest list: per descriptor its data.ptr and events
  openFds,
  aborted              \* an assertion failed

pollerVars == <<handlers, m_handlermap, epoll, openFds, aborted>>

kNew == -1
kAdded == 1
kDeleted == 2

Flags == {"read", "write"}
Absent == [ptr |-> NoHandler, events |-> {}]

(* Operators whose comment starts with "Mutant" are never used by Spec: each is a
   plausible bug in the definition that follows it, kept to show that the
   property it names would notice. *)

(* No handler; with its m_fd, a handler just constructed. *)
Nothing == [m_fd |-> NoFd, m_events |-> {}, m_state |-> kNew]

Live(h) == handlers[h].m_fd # NoFd

PollerInit ==
  /\ handlers = [h \in Handlers |-> Nothing]
  /\ m_handlermap = [f \in Fds |-> NoHandler]
  /\ epoll = [f \in Fds |-> Absent]
  /\ openFds = {}
  /\ aborted = FALSE

-----------------------------------------------------------------------------
(* epoll_ctl.  Adding what is there and changing or deleting what is not fails, as
   does any call on a closed descriptor; update() prints that and goes on. *)
EpollAfter(operation, f, h, events) ==
  IF f \in openFds /\ (operation = "ADD" <=> epoll[f] = Absent)
  THEN [epoll EXCEPT ![f] = IF operation = "DEL" THEN Absent ELSE [ptr |-> h, events |-> events]]
  ELSE epoll

(* Mutant for InterestKept: a handler whose last interest goes stays kAdded. *)
StaysAdded(h, events) == kAdded

(* m_state after updateHandler. *)
StateAfterUpdate(h, events) ==
  IF handlers[h].m_state = kAdded /\ events = {} THEN kDeleted ELSE kAdded

Operation(h, events) ==
  IF handlers[h].m_state # kAdded THEN "ADD" ELSE IF events = {} THEN "DEL" ELSE "MOD"

(* The assertions of updateHandler: a new handler finds its descriptor free in the
   map, an old one finds itself. *)
UpdateAsserts(h) ==
  m_handlermap[handlers[h].m_fd] = IF handlers[h].m_state = kNew THEN NoHandler ELSE h

(* A call that sets m_events and then updateHandler. *)
Update(h, events) ==
  IF UpdateAsserts(h)
  THEN /\ m_handlermap' = [m_handlermap EXCEPT ![handlers[h].m_fd] = h]
       /\ handlers' = [handlers EXCEPT ![h].m_events = events,
                                       ![h].m_state = StateAfterUpdate(h, events)]
       /\ epoll' = EpollAfter(Operation(h, events), handlers[h].m_fd, h, events)
       /\ UNCHANGED <<openFds, aborted>>
  ELSE aborted' = TRUE /\ UNCHANGED <<handlers, m_handlermap, epoll, openFds>>

EnableReading(h)  == Update(h, handlers[h].m_events \cup {"read"})
EnableWriting(h)  == Update(h, handlers[h].m_events \cup {"write"})
DisableWriting(h) == Update(h, handlers[h].m_events \ {"write"})
DisableAll(h)     == Update(h, {})

(* The assertions of Handler::removeHandler and EPollPoller::removeHandler. *)
RemoveAsserts(h) ==
  /\ handlers[h].m_events = {}
  /\ m_handlermap[handlers[h].m_fd] = h
  /\ handlers[h].m_state \in {kAdded, kDeleted}

(* Mutant for AssertionsHold: the handler is not erased from the map. *)
MapNotErased(h) == m_handlermap

MapAfterRemove(h) == [m_handlermap EXCEPT ![handlers[h].m_fd] = NoHandler]

(* Mutant for NoDanglingPointer: no EPOLL_CTL_DEL. *)
EpollUntouched(h) == epoll

EpollAfterRemove(h) ==
  IF handlers[h].m_state = kAdded THEN EpollAfter("DEL", handlers[h].m_fd, h, {}) ELSE epoll

RemoveHandler(h) ==
  IF RemoveAsserts(h)
  THEN /\ m_handlermap' = MapAfterRemove(h)
       /\ epoll' = EpollAfterRemove(h)
       /\ handlers' = [handlers EXCEPT ![h].m_state = kNew]
       /\ UNCHANGED <<openFds, aborted>>
  ELSE aborted' = TRUE /\ UNCHANGED <<handlers, m_handlermap, epoll, openFds>>

-----------------------------------------------------------------------------
(* A descriptor is opened and a handler constructed for it. *)
ConstructHandler(h, f) ==
  /\ ~Live(h)
  /\ f \notin openFds
  /\ openFds' = openFds \cup {f}
  /\ handlers' = [handlers EXCEPT ![h] = [Nothing EXCEPT !.m_fd = f]]
  /\ UNCHANGED <<m_handlermap, epoll, aborted>>

(* ~Handler tells neither the poller nor the kernel ... *)
DestroyHandler(h) ==
  /\ Live(h)
  /\ handlers' = [handlers EXCEPT ![h] = Nothing]
  /\ UNCHANGED <<m_handlermap, epoll, openFds, aborted>>

(* ... then its owner closes the descriptor, which the kernel drops from the interest
   list. *)
CloseDescriptor(f) ==
  /\ f \in openFds
  /\ \A h \in Handlers : handlers[h].m_fd # f
  /\ openFds' = openFds \ {f}
  /\ epoll' = [epoll EXCEPT ![f] = Absent]
  /\ UNCHANGED <<handlers, m_handlermap, aborted>>

(* What an owner may do with its handler. *)
UseHandler(h) ==
  /\ Live(h)
  /\ \/ EnableReading(h) \/ EnableWriting(h) \/ DisableWriting(h) \/ DisableAll(h)
     \/ handlers[h].m_state # kNew /\ handlers[h].m_events = {} /\ RemoveHandler(h)
     \/ handlers[h].m_state = kNew /\ handlers[h].m_events = {} /\ DestroyHandler(h)

Next ==
  /\ ~aborted
  /\ \/ \E h \in Handlers : UseHandler(h) \/ \E f \in Fds : ConstructHandler(h, f)
     \/ \E f \in Fds : CloseDescriptor(f)

Spec == PollerInit /\ [][Next]_pollerVars
-----------------------------------------------------------------------------
TypeOK ==
  /\ handlers \in [Handlers -> [m_fd : Fds \cup {NoFd}, m_events : SUBSET Flags,
                                m_state : {kNew, kAdded, kDeleted}]]
  /\ m_handlermap \in [Fds -> Handlers \cup {NoHandler}]
  /\ epoll \in [Fds -> [ptr : Handlers \cup {NoHandler}, events : SUBSET Flags]]
  /\ openFds \subseteq Fds
  /\ aborted \in BOOLEAN

(* No assertion of updateHandler or removeHandler fails (src/EPollPoller.cpp:60-75,
   93-96), however often descriptors and addresses are used again. *)
AssertionsHold == ~aborted

(* What the kernel hands back is a live handler, so that fillActiveHandlers may
   write to it (src/EPollPoller.cpp:111-117), and is in the map, so that the kernel
   never hands back more of them than the map has (the assertion in line 108). *)
NoDanglingPointer ==
  \A f \in Fds : epoll[f] # Absent =>
    /\ epoll[f].ptr \in Handlers
    /\ handlers[epoll[f].ptr].m_fd = f
    /\ m_handlermap[f] = epoll[f].ptr

(* Whatever sequence of calls led here, the kernel watches for exactly the events
   the handler asks for, and a handler that asks for something is watched. *)
InterestKept ==
  \A h \in Handlers :
    /\ handlers[h].m_events # {} => epoll[handlers[h].m_fd].ptr = h
    /\ Live(h) /\ epoll[handlers[h].m_fd].ptr = h
         => epoll[handlers[h].m_fd].events = handlers[h].m_events
=============================================================================
