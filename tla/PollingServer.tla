---------------------------- MODULE PollingServer ----------------------------
(***************************************************************************)
(* PollingServer (src/pollingserver.cpp) on top of Polling                 *)
(* (src/Polling.cpp, src/Polling.h): the single-threaded server that came  *)
(* before the event loop.  A client sends a key and is answered with the   *)
(* number of requests for a key so far, one answer per request; a          *)
(* connection's interest in epoll, level-triggered, is EPOLLIN until a     *)
(* request is read and EPOLLOUT until it is answered.  The key of the last *)
(* request, m_key, is one for all connections.                             *)
(*                                                                         *)
(* A client connects once, and stands for its descriptor.  What one read() *)
(* returns is one key: how the network cuts the bytes is not modelled.     *)
(***************************************************************************)
EXTENDS Integers, Sequences, FiniteSets

CONSTANTS
  Clients,
  Listener,            \* the listening socket, among the descriptors of a batch
  Keys, NoKey,
  MaxFds,              \* descriptors left for connections
  Window,              \* answers a socket holds until its client reads them
  MaxRequests          \* bound: requests per client

ASSUME PollingServerAssumption ==
  /\ Listener \notin Clients
  /\ NoKey \notin Keys
  /\ MaxFds \in Nat /\ Window \in Nat \ {0} /\ MaxRequests \in [Clients -> Nat]

VARIABLES
  process,             \* "running", "ended" (Run() returned), "sigpipe"
  batch,               \* what the last Wait() reported and LtModel has not looked at yet
  sock,                \* per connection, see SocketStates
  m_key, m_serviceKey,
  peer,                \* per client, see PeerStates
  rcvbuf,              \* per connection: requests to be read
  unread,              \* per connection: answers the client has not read
  asked,               \* per client: requests sent
  answered,            \* history, per client: answers written,
  answer,              \* ... the last of them,
  seen                 \* ... and everybody's last answers when its last request was read

serverVars == <<batch, sock, m_key, m_serviceKey>>
socketVars == <<peer, rcvbuf, unread, asked>>
history    == <<answered, answer, seen>>
vars == <<process, serverVars, socketVars, history>>

(* "none": not accepted.  "in", "out": in epoll with that interest.  "leaked": out of
   epoll, but open. *)
SocketStates == {"none", "in", "out", "leaked", "closed"}

(* "waiting" to be accepted.  "fin": it closed its side.  "reset", "broken": it reset the
   connection, in the latter case after "fin". *)
PeerStates == {"away", "waiting", "open", "fin", "reset", "broken"}

Running == process = "running"
Watched(c) == sock[c] \in {"in", "out"}

Init ==
  /\ process = "running"
  /\ batch = {}
  /\ sock = [c \in Clients |-> "none"]
  /\ m_key = NoKey /\ m_serviceKey = [k \in Keys |-> 0]
  /\ peer = [c \in Clients |-> "away"]
  /\ rcvbuf = [c \in Clients |-> <<>>]
  /\ unread = [c \in Clients |-> 0]
  /\ asked = [c \in Clients |-> 0]
  /\ answered = [c \in Clients |-> 0] /\ answer = [c \in Clients |-> 0]
  /\ seen = [c \in Clients |-> {}]

-----------------------------------------------------------------------------
(* Operators whose comment starts with "Mutant" are never used by Spec: each is a
   plausible bug in the definition that follows it, kept to show that the
   property it names would notice. *)

(* What epoll_wait reports. *)
Readable(c) == sock[c] = "in" /\ (rcvbuf[c] # <<>> \/ peer[c] # "open")
Writable(c) == sock[c] = "out" /\ (unread[c] < Window \/ peer[c] \in {"reset", "broken"})
Pending     == \E c \in Clients : peer[c] = "waiting"

Ready ==
  {c \in Clients : Readable(c) \/ Writable(c)} \cup (IF Pending THEN {Listener} ELSE {})

(* Wait(). *)
Wait ==
  /\ batch = {}
  /\ Ready # {}
  /\ batch' = Ready
  /\ UNCHANGED <<process, sock, m_key, m_serviceKey, socketVars, history>>

(* A signal interrupts epoll_wait: Run() prints "epoll failure" and returns. *)
WaitFails ==
  /\ batch = {}
  /\ process' = "ended"
  /\ UNCHANGED <<serverVars, socketVars, history>>

(* LtModel looks at the events in the order they were reported in, which is any. *)
NextEvent(f) == f \in batch /\ batch' = batch \ {f}

(* m_handleListenFd(): accept() takes one connection, ... *)
OpenFds == {c \in Clients : Watched(c) \/ sock[c] = "leaked"}
Accept(c) ==
  /\ NextEvent(Listener)
  /\ peer[c] = "waiting"
  /\ Cardinality(OpenFds) < MaxFds
  /\ sock' = [sock EXCEPT ![c] = "in"]
  /\ peer' = [peer EXCEPT ![c] = "open"]
  /\ UNCHANGED <<process, m_key, m_serviceKey, rcvbuf, unread, asked, history>>

(* ... or fails with EMFILE: AddFd(-1) fails too, and the connection waits on. *)
AcceptFails ==
  /\ NextEvent(Listener)
  /\ Cardinality(OpenFds) >= MaxFds
  /\ UNCHANGED <<process, sock, m_key, m_serviceKey, socketVars, history>>

(* Mutant for FreshAnswers: every request for a key is its first. *)
AlwaysFirst(key) == 1

CountAfter(key) == m_serviceKey[key] + 1

(* Mutant for RequestAnswered: no ModFd(EPOLLOUT). *)
StaysReading == "in"

AfterRequest == "out"

(* Mutant for LeakOnlyAfterEnd: LtModel removes the descriptor whatever was read. *)
AlwaysRemoves(result, state) == "leaked"

(* LtModel removes the descriptor when m_handleReadfd returned 0, and closes nothing. *)
AfterRead(result, state) == IF result = 0 THEN "leaked" ELSE state

(* m_handleReadfd(): a request, ... *)
ReadRequest(c) ==
  /\ NextEvent(c)
  /\ sock[c] = "in"
  /\ rcvbuf[c] # <<>>
  /\ LET key == Head(rcvbuf[c])
     IN  m_key' = key /\ m_serviceKey' = [m_serviceKey EXCEPT ![key] = CountAfter(key)]
  /\ rcvbuf' = [rcvbuf EXCEPT ![c] = Tail(@)]
  /\ sock' = [sock EXCEPT ![c] = AfterRead(1, AfterRequest)]
  /\ seen' = [seen EXCEPT ![c] = {answer[d] : d \in Clients}]
  /\ UNCHANGED <<process, peer, unread, asked, answered, answer>>

(* ... the end of the stream, which a later reset does not hide, ... *)
ReadEnd(c) ==
  /\ NextEvent(c)
  /\ sock[c] = "in"
  /\ rcvbuf[c] = <<>>
  /\ peer[c] \in {"fin", "broken"}
  /\ sock' = [sock EXCEPT ![c] = AfterRead(0, "in")]
  /\ UNCHANGED <<process, m_key, m_serviceKey, socketVars, history>>

(* ... or an error: RemoveFd and close. *)
ReadError(c) ==
  /\ NextEvent(c)
  /\ sock[c] = "in"
  /\ rcvbuf[c] = <<>>
  /\ peer[c] = "reset"
  /\ sock' = [sock EXCEPT ![c] = AfterRead(-2, "closed")]
  /\ UNCHANGED <<process, m_key, m_serviceKey, socketVars, history>>

(* Mutant for OneAnswerPerRequest: no ModFd(EPOLLIN). *)
StaysWriting == "out"

AfterAnswer == "in"

(* m_handleSendFd(): the count of the last key, ... *)
WriteAnswer(c) ==
  /\ NextEvent(c)
  /\ sock[c] = "out"
  /\ peer[c] \in {"open", "fin"}
  /\ sock' = [sock EXCEPT ![c] = AfterAnswer]
  /\ unread' = [unread EXCEPT ![c] = @ + 1]
  /\ answered' = [answered EXCEPT ![c] = @ + 1]
  /\ answer' = [answer EXCEPT ![c] = m_serviceKey[m_key]]
  /\ UNCHANGED <<process, m_key, m_serviceKey, peer, rcvbuf, asked, seen>>

(* ... an error: RemoveFd and close, ... *)
WriteError(c) ==
  /\ NextEvent(c)
  /\ sock[c] = "out"
  /\ peer[c] = "reset"
  /\ sock' = [sock EXCEPT ![c] = "closed"]
  /\ UNCHANGED <<process, m_key, m_serviceKey, socketVars, history>>

(* ... or EPIPE, which raises SIGPIPE, and nobody ignores it. *)
WriteKills(c) ==
  /\ NextEvent(c)
  /\ sock[c] = "out"
  /\ peer[c] = "broken"
  /\ process' = "sigpipe"
  /\ UNCHANGED <<sock, m_key, m_serviceKey, socketVars, history>>

-----------------------------------------------------------------------------
(* The clients. *)
Connects(c) ==
  /\ peer[c] = "away"
  /\ peer' = [peer EXCEPT ![c] = "waiting"]
  /\ UNCHANGED <<process, serverVars, rcvbuf, unread, asked, history>>

Asks(c) ==
  /\ peer[c] = "open"
  /\ asked[c] < MaxRequests[c]
  /\ asked' = [asked EXCEPT ![c] = @ + 1]
  /\ \E key \in Keys : rcvbuf' = [rcvbuf EXCEPT ![c] = Append(@, key)]
  /\ UNCHANGED <<process, serverVars, peer, unread, history>>

Reads(c) ==
  /\ unread[c] > 0
  /\ unread' = [unread EXCEPT ![c] = @ - 1]
  /\ UNCHANGED <<process, serverVars, peer, rcvbuf, asked, history>>

Leaves(c) ==
  /\ peer[c] \in {"open", "fin"}
  /\ \E how \in {"fin", "reset", "broken"} :
       /\ peer[c] = "open" => how \in {"fin", "reset"}
       /\ peer[c] = "fin" => how = "broken"
       /\ peer' = [peer EXCEPT ![c] = how]
  /\ UNCHANGED <<process, serverVars, rcvbuf, unread, asked, history>>

-----------------------------------------------------------------------------
LtModel ==
  \/ AcceptFails
  \/ \E c \in Clients :
       \/ Accept(c) \/ ReadRequest(c) \/ ReadEnd(c) \/ ReadError(c)
       \/ WriteAnswer(c) \/ WriteError(c) \/ WriteKills(c)

Next ==
  /\ Running
  /\ \/ Wait \/ WaitFails \/ LtModel
     \/ \E c \in Clients : Connects(c) \/ Asks(c) \/ Reads(c) \/ Leaves(c)

(* Run() goes on, and the clients read their answers. *)
Spec ==
  /\ Init /\ [][Next]_vars
  /\ WF_vars(Running /\ (Wait \/ LtModel))
  /\ \A c \in Clients : WF_vars(Running /\ Reads(c))
-----------------------------------------------------------------------------
(* Types, and that write() always finds room: the EAGAIN branch of m_handleSendFd is
   never taken. *)
TypeOK ==
  /\ process \in {"running", "ended", "sigpipe"}
  /\ batch \subseteq Clients \cup {Listener}
  /\ sock \in [Clients -> SocketStates]
  /\ m_key \in Keys \cup {NoKey}
  /\ m_serviceKey \in [Keys -> Nat]
  /\ peer \in [Clients -> PeerStates]
  /\ rcvbuf \in [Clients -> Seq(Keys)]
  /\ unread \in [Clients -> 0 .. Window]
  /\ asked \in [Clients -> Nat] /\ \A c \in Clients : asked[c] <= MaxRequests[c]
  /\ answered \in [Clients -> Nat] /\ answer \in [Clients -> Nat]
  /\ seen \in [Clients -> SUBSET Nat]

(* Requests and answers alternate: of what a client asked, all but what waits in its
   socket was answered once, and one more is owed exactly while the server waits for
   EPOLLOUT (src/pollingserver.cpp:162, 215). *)
OneAnswerPerRequest ==
  \A c \in Clients : Watched(c) =>
    asked[c] = answered[c] + Len(rcvbuf[c]) + (IF sock[c] = "out" THEN 1 ELSE 0)

(* As long as everybody asks for the same key, an answer is greater than all that were
   written before its request was read, to whomever (src/pollingserver.cpp:152-161,
   200).  Two requests of one batch may get the same answer, and with two keys m_key
   is the wrong one for all but the last. *)
OneKey == \A j, k \in Keys : m_serviceKey[j] > 0 /\ m_serviceKey[k] > 0 => j = k
FreshAnswers ==
  [][\A c \in Clients :
       answered'[c] # answered[c] /\ OneKey => \A v \in seen[c] : answer'[c] > v]_vars

(* A connection goes out of epoll without being closed only after its client closed,
   and everything it asked before was answered (src/pollingserver.cpp:257-260). *)
LeakOnlyAfterEnd ==
  \A c \in Clients : sock[c] = "leaked" =>
    peer[c] \in {"fin", "broken"} /\ asked[c] = answered[c]

(* An accepted client gets all its answers unless it resets the connection, whatever
   the others do, and however long accept() fails. *)
RequestAnswered ==
  \A c \in Clients :
    (Watched(c) /\ asked[c] > answered[c])
      ~> (asked[c] = answered[c] \/ peer[c] \in {"reset", "broken"} \/ ~Running)
=============================================================================
