------------------------- MODULE PollingServerProofs -------------------------
(***************************************************************************)
(* What PollingServer promises for any number of clients, keys and         *)
(* descriptors: an answer per request, no write without room, no leak but  *)
(* behind the end of a stream, and fresh answers as long as there is one   *)
(* key.                                                                    *)
(***************************************************************************)
EXTENDS PollingServer, TLAPS

(* A client's side of the connection and the server's, over its life. *)
Lives ==
  \A c \in Clients :
    /\ sock[c] = "none" => /\ peer[c] \in {"away", "waiting"}
                           /\ asked[c] = 0 /\ answered[c] = 0 /\ rcvbuf[c] = <<>>
    /\ peer[c] \in {"away", "waiting"} => sock[c] = "none"
    /\ peer[c] = "open" => Watched(c)

(* What epoll_wait reported still holds when LtModel comes to it: the server itself is
   the only one to fill a socket. *)
RoomKept ==
  \A c \in batch \cap Clients :
    sock[c] = "out" /\ peer[c] \in {"open", "fin"} => unread[c] < Window

(* As long as requests had key k only: no answer exceeds its count, and whoever waits
   for an answer saw none that reaches it. *)
OnlyKey(k) == \A j \in Keys : j # k => m_serviceKey[j] = 0
Counted ==
  /\ \A c \in Clients : sock[c] = "out" => m_key \in Keys
  /\ m_key \in Keys => m_serviceKey[m_key] > 0
  /\ \A k \in Keys : OnlyKey(k) =>
       /\ \A c \in Clients : answer[c] <= m_serviceKey[k]
       /\ \A c \in Clients : sock[c] = "out" => \A v \in seen[c] : v < m_serviceKey[k]

IInv == TypeOK /\ Lives /\ OneAnswerPerRequest /\ LeakOnlyAfterEnd /\ RoomKept /\ Counted

LEMMA InitIInv == Init => IInv
<1> SUFFICES ASSUME Init  PROVE IInv
  OBVIOUS
<1>1. TypeOK
  BY PollingServerAssumption DEF Init, TypeOK, SocketStates, PeerStates
<1>2. Lives /\ OneAnswerPerRequest /\ LeakOnlyAfterEnd
  BY DEF Init, Lives, OneAnswerPerRequest, LeakOnlyAfterEnd, Watched
<1>3. RoomKept /\ Counted
  BY PollingServerAssumption DEF Init, RoomKept, Counted
<1> QED
  BY <1>1, <1>2, <1>3 DEF IInv

-----------------------------------------------------------------------------
(* The types, step by step. *)
LEMMA TypeKept ==
  ASSUME IInv, [Next]_vars
  PROVE  TypeOK'
<1> USE PollingServerAssumption DEF IInv, TypeOK
<1>1. CASE Wait
  BY <1>1 DEF Wait, socketVars, history, Ready
<1>2. CASE WaitFails
  BY <1>2 DEF WaitFails, serverVars, socketVars, history
<1>3. CASE AcceptFails
  BY <1>3 DEF AcceptFails, NextEvent, socketVars, history
<1>4. ASSUME NEW c \in Clients, Accept(c)  PROVE TypeOK'
  BY <1>4 DEF Accept, NextEvent, history, SocketStates, PeerStates
<1>5. ASSUME NEW c \in Clients, ReadRequest(c)  PROVE TypeOK'
  BY <1>5, SMTT(30)
     DEF ReadRequest, NextEvent, SocketStates, AfterRead, AfterRequest, CountAfter
<1>6. ASSUME NEW c \in Clients, ReadEnd(c)  PROVE TypeOK'
  BY <1>6 DEF ReadEnd, NextEvent, SocketStates, AfterRead, socketVars, history
<1>7. ASSUME NEW c \in Clients, ReadError(c)  PROVE TypeOK'
  BY <1>7 DEF ReadError, NextEvent, SocketStates, AfterRead, socketVars, history
<1>8. ASSUME NEW c \in Clients, WriteAnswer(c)  PROVE TypeOK'
  <2>1. unread[c] < Window /\ m_key \in Keys
    BY <1>8 DEF WriteAnswer, NextEvent, RoomKept, Counted
  <2>2. unread' \in [Clients -> 0 .. Window]
    BY <1>8, <2>1 DEF WriteAnswer
  <2>3. answered' \in [Clients -> Nat] /\ answer' \in [Clients -> Nat]
    BY <1>8, <2>1 DEF WriteAnswer
  <2> QED
    BY <1>8, <2>2, <2>3 DEF WriteAnswer, NextEvent, SocketStates, AfterAnswer
<1>9. ASSUME NEW c \in Clients, WriteError(c)  PROVE TypeOK'
  BY <1>9 DEF WriteError, NextEvent, SocketStates, socketVars, history
<1>10. ASSUME NEW c \in Clients, WriteKills(c)  PROVE TypeOK'
  BY <1>10 DEF WriteKills, NextEvent, socketVars, history
<1>11. ASSUME NEW c \in Clients, Connects(c)  PROVE TypeOK'
  BY <1>11 DEF Connects, serverVars, history, PeerStates
<1>12. ASSUME NEW c \in Clients, Asks(c)  PROVE TypeOK'
  <2>1. asked' \in [Clients -> Nat] /\ \A d \in Clients : asked'[d] <= MaxRequests[d]
    BY <1>12 DEF Asks
  <2>2. rcvbuf' \in [Clients -> Seq(Keys)]
    BY <1>12 DEF Asks
  <2> QED
    BY <1>12, <2>1, <2>2 DEF Asks, serverVars, history
<1>13. ASSUME NEW c \in Clients, Reads(c)  PROVE TypeOK'
  BY <1>13, SMTT(30) DEF Reads, serverVars, history
<1>14. ASSUME NEW c \in Clients, Leaves(c)  PROVE TypeOK'
  BY <1>14 DEF Leaves, serverVars, history, PeerStates
<1>15. CASE UNCHANGED vars
  BY <1>15 DEF vars, serverVars, socketVars, history
<1> QED
  BY <1>1, <1>2, <1>3, <1>4, <1>5, <1>6, <1>7, <1>8, <1>9, <1>10, <1>11, <1>12, <1>13, <1>14,
     <1>15 DEF Next, LtModel

(* How the two sides of each connection and the answers owed go on together. *)
LEMMA LivesKept ==
  ASSUME IInv, [Next]_vars
  PROVE  Lives' /\ OneAnswerPerRequest' /\ LeakOnlyAfterEnd'
<1> USE PollingServerAssumption
        DEF IInv, TypeOK, Lives, OneAnswerPerRequest, LeakOnlyAfterEnd, Watched
<1>1. CASE Wait
  BY <1>1 DEF Wait, socketVars, history
<1>2. CASE WaitFails
  BY <1>2 DEF WaitFails, serverVars, socketVars, history
<1>3. CASE AcceptFails
  BY <1>3 DEF AcceptFails, socketVars, history
<1>4. ASSUME NEW c \in Clients, Accept(c)
      PROVE  Lives' /\ OneAnswerPerRequest' /\ LeakOnlyAfterEnd'
  BY <1>4 DEF Accept, history
<1>5. ASSUME NEW c \in Clients, ReadRequest(c)
      PROVE  Lives' /\ OneAnswerPerRequest' /\ LeakOnlyAfterEnd'
  <2>1. Len(rcvbuf[c]) = Len(Tail(rcvbuf[c])) + 1
    BY <1>5 DEF ReadRequest
  <2>2. rcvbuf' = [rcvbuf EXCEPT ![c] = Tail(@)] /\ sock' = [sock EXCEPT ![c] = "out"]
        /\ sock[c] = "in" /\ UNCHANGED <<peer, asked, answered>>
    BY <1>5 DEF ReadRequest, AfterRead, AfterRequest
  <2>3. Lives' /\ LeakOnlyAfterEnd'
    BY <2>2
  <2>4. OneAnswerPerRequest'
    <3>1. \A d \in Clients : Len(rcvbuf'[d]) = IF d = c THEN Len(rcvbuf[c]) - 1 ELSE Len(rcvbuf[d])
      BY <2>1, <2>2
    <3>2. \A d \in Clients : sock'[d] = IF d = c THEN "out" ELSE sock[d]
      BY <2>2
    <3> SUFFICES ASSUME NEW d \in Clients, Watched(d)'
                 PROVE  asked'[d] = answered'[d] + Len(rcvbuf'[d])
                                      + (IF sock'[d] = "out" THEN 1 ELSE 0)
      OBVIOUS
    <3>4. asked[d] \in Nat /\ answered[d] \in Nat /\ Len(rcvbuf[d]) \in Nat
      OBVIOUS
    <3>5. CASE d = c
      <4>1. asked[c] = answered[c] + Len(rcvbuf[c])
        BY <2>2
      <4>2. /\ asked'[c] = asked[c] /\ answered'[c] = answered[c] /\ sock'[c] = "out"
            /\ Len(rcvbuf'[c]) = Len(rcvbuf[c]) - 1
        BY <2>2, <3>1, <3>2
      <4> QED
        BY <3>4, <3>5, <4>1, <4>2
    <3>6. CASE d # c
      BY <2>2, <3>2, <3>1, <3>4, <3>6
    <3> QED
      BY <3>5, <3>6
  <2> QED
    BY <2>3, <2>4
<1>6. ASSUME NEW c \in Clients, ReadEnd(c)
      PROVE  Lives' /\ OneAnswerPerRequest' /\ LeakOnlyAfterEnd'
  BY <1>6 DEF ReadEnd, AfterRead, socketVars, history
<1>7. ASSUME NEW c \in Clients, ReadError(c)
      PROVE  Lives' /\ OneAnswerPerRequest' /\ LeakOnlyAfterEnd'
  BY <1>7 DEF ReadError, AfterRead, socketVars, history
<1>8. ASSUME NEW c \in Clients, WriteAnswer(c)
      PROVE  Lives' /\ OneAnswerPerRequest' /\ LeakOnlyAfterEnd'
  <2>1. /\ sock[c] = "out" /\ sock' = [sock EXCEPT ![c] = "in"]
        /\ answered' = [answered EXCEPT ![c] = @ + 1]
        /\ UNCHANGED <<peer, rcvbuf, asked>>
    BY <1>8 DEF WriteAnswer, AfterAnswer
  <2>2. Lives' /\ LeakOnlyAfterEnd'
    BY <2>1
  <2>3. OneAnswerPerRequest'
    <3>1. \A d \in Clients : /\ answered'[d] = IF d = c THEN answered[c] + 1 ELSE answered[d]
                             /\ sock'[d] = IF d = c THEN "in" ELSE sock[d]
      BY <2>1
    <3> SUFFICES ASSUME NEW d \in Clients, Watched(d)'
                 PROVE  asked'[d] = answered'[d] + Len(rcvbuf'[d])
                                      + (IF sock'[d] = "out" THEN 1 ELSE 0)
      OBVIOUS
    <3>4. asked[d] \in Nat /\ answered[d] \in Nat /\ Len(rcvbuf[d]) \in Nat
      OBVIOUS
    <3>5. CASE d = c
      BY <2>1, <3>1, <3>4, <3>5
    <3>6. CASE d # c
      BY <2>1, <3>1, <3>4, <3>6
    <3> QED
      BY <3>5, <3>6
  <2> QED
    BY <2>2, <2>3
<1>9. ASSUME NEW c \in Clients, WriteError(c)
      PROVE  Lives' /\ OneAnswerPerRequest' /\ LeakOnlyAfterEnd'
  BY <1>9 DEF WriteError, socketVars, history
<1>10. ASSUME NEW c \in Clients, WriteKills(c)
       PROVE  Lives' /\ OneAnswerPerRequest' /\ LeakOnlyAfterEnd'
  BY <1>10 DEF WriteKills, socketVars, history
<1>11. ASSUME NEW c \in Clients, Connects(c)
       PROVE  Lives' /\ OneAnswerPerRequest' /\ LeakOnlyAfterEnd'
  BY <1>11 DEF Connects, serverVars, history
<1>12. ASSUME NEW c \in Clients, Asks(c)
       PROVE  Lives' /\ OneAnswerPerRequest' /\ LeakOnlyAfterEnd'
  <2>1. PICK key \in Keys : rcvbuf' = [rcvbuf EXCEPT ![c] = Append(@, key)]
    BY <1>12 DEF Asks
  <2>2. Len(Append(rcvbuf[c], key)) = Len(rcvbuf[c]) + 1
    OBVIOUS
  <2>3. /\ peer[c] = "open" /\ asked' = [asked EXCEPT ![c] = @ + 1]
        /\ UNCHANGED <<sock, peer, answered>>
    BY <1>12 DEF Asks, serverVars, history
  <2>4. Lives' /\ LeakOnlyAfterEnd'
    BY <2>1, <2>3
  <2>5. OneAnswerPerRequest'
    <3>1. \A d \in Clients : /\ asked'[d] = IF d = c THEN asked[c] + 1 ELSE asked[d]
                             /\ Len(rcvbuf'[d]) = IF d = c THEN Len(rcvbuf[c]) + 1
                                                  ELSE Len(rcvbuf[d])
      BY <2>1, <2>2, <2>3
    <3> SUFFICES ASSUME NEW d \in Clients, Watched(d)'
                 PROVE  asked'[d] = answered'[d] + Len(rcvbuf'[d])
                                      + (IF sock'[d] = "out" THEN 1 ELSE 0)
      OBVIOUS
    <3>4. asked[d] \in Nat /\ answered[d] \in Nat /\ Len(rcvbuf[d]) \in Nat
      OBVIOUS
    <3>5. CASE d = c
      <4>1. asked[c] = answered[c] + Len(rcvbuf[c]) + (IF sock[c] = "out" THEN 1 ELSE 0)
        BY <2>3
      <4>2. /\ asked'[c] = asked[c] + 1 /\ answered'[c] = answered[c] /\ sock'[c] = sock[c]
            /\ Len(rcvbuf'[c]) = Len(rcvbuf[c]) + 1
        BY <2>3, <3>1
      <4> QED
        BY <3>4, <3>5, <4>1, <4>2, SMTT(30)
    <3>6. CASE d # c
      <4>1. /\ asked'[d] = asked[d] /\ answered'[d] = answered[d] /\ sock'[d] = sock[d]
            /\ Len(rcvbuf'[d]) = Len(rcvbuf[d])
        BY <2>3, <3>1, <3>6
      <4>2. Watched(d)
        BY <4>1
      <4>3. asked[d] = answered[d] + Len(rcvbuf[d]) + (IF sock[d] = "out" THEN 1 ELSE 0)
        BY <4>2
      <4> QED
        BY <4>1, <4>3
    <3> QED
      BY <3>5, <3>6
  <2> QED
    BY <2>4, <2>5
<1>13. ASSUME NEW c \in Clients, Reads(c)
       PROVE  Lives' /\ OneAnswerPerRequest' /\ LeakOnlyAfterEnd'
  BY <1>13 DEF Reads, serverVars, history
<1>14. ASSUME NEW c \in Clients, Leaves(c)
       PROVE  Lives' /\ OneAnswerPerRequest' /\ LeakOnlyAfterEnd'
  BY <1>14 DEF Leaves, serverVars, history
<1>15. CASE UNCHANGED vars
  BY <1>15 DEF vars, serverVars, socketVars, history
<1> QED
  BY <1>1, <1>2, <1>3, <1>4, <1>5, <1>6, <1>7, <1>8, <1>9, <1>10, <1>11, <1>12, <1>13, <1>14,
     <1>15 DEF Next, LtModel

(* A descriptor that waits in a batch is not written to, and the batch is over before
   the next one is reported. *)
LEMMA RoomStaysKept ==
  ASSUME IInv, [Next]_vars
  PROVE  RoomKept'
<1> USE PollingServerAssumption DEF IInv, TypeOK, RoomKept
<1>1. CASE Wait
  BY <1>1 DEF Wait, Ready, Readable, Writable, socketVars
<1>2. CASE WaitFails
  BY <1>2 DEF WaitFails, serverVars, socketVars
<1>3. CASE AcceptFails
  BY <1>3 DEF AcceptFails, NextEvent, socketVars
<1>4. ASSUME NEW c \in Clients, Accept(c) \/ ReadRequest(c) \/ ReadEnd(c) \/ ReadError(c)
                                \/ WriteAnswer(c) \/ WriteError(c) \/ WriteKills(c)
      PROVE  RoomKept'
  BY <1>4 DEF Accept, ReadRequest, ReadEnd, ReadError, WriteAnswer, WriteError, WriteKills,
              NextEvent, AfterRead, AfterRequest, AfterAnswer, Lives, socketVars
<1>5. ASSUME NEW c \in Clients, Connects(c) \/ Asks(c) \/ Reads(c) \/ Leaves(c)
      PROVE  RoomKept'
  <2>1. batch' = batch /\ sock' = sock
    BY <1>5 DEF Connects, Asks, Reads, Leaves, serverVars
  <2>2. \A d \in Clients : unread'[d] <= unread[d] /\ unread'[d] \in Int
    BY <1>5 DEF Connects, Asks, Reads, Leaves
  <2>3. \A d \in Clients : peer'[d] \in {"open", "fin"} => peer[d] \in {"open", "fin"}
    BY <1>5 DEF Connects, Asks, Reads, Leaves
  <2> QED
    <3> SUFFICES ASSUME NEW d \in batch \cap Clients,
                        sock[d] = "out", peer'[d] \in {"open", "fin"}
                 PROVE  unread'[d] < Window
      BY <2>1
    <3>1. unread[d] < Window /\ unread[d] \in Int
      BY <2>3
    <3> QED
      BY <2>2, <3>1, SMTT(30)
<1>6. CASE UNCHANGED vars
  BY <1>6 DEF vars, serverVars, socketVars
<1> QED
  BY <1>1, <1>2, <1>3, <1>4, <1>5, <1>6 DEF Next, LtModel

(* The counts only grow, and a request makes its key's greater than any answer so far. *)
LEMMA CountedKept ==
  ASSUME IInv, [Next]_vars
  PROVE  Counted'
<1> USE PollingServerAssumption DEF IInv, TypeOK, Counted
<1>1. ASSUME NEW c \in Clients, ReadRequest(c)  PROVE Counted'
  <2> DEFINE key == Head(rcvbuf[c])
  <2>1. key \in Keys
    BY <1>1 DEF ReadRequest
  <2>2. /\ m_key' = key
        /\ m_serviceKey' = [m_serviceKey EXCEPT ![key] = m_serviceKey[key] + 1]
        /\ sock' = [sock EXCEPT ![c] = "out"]
        /\ seen' = [seen EXCEPT ![c] = {answer[d] : d \in Clients}]
        /\ answer' = answer
    BY <1>1 DEF ReadRequest, CountAfter, AfterRead, AfterRequest
  <2> HIDE DEF key
  <2>3. m_serviceKey'[key] = m_serviceKey[key] + 1 /\ m_serviceKey'[key] > 0
    BY <2>1, <2>2
  <2>4. ASSUME NEW k \in Keys, OnlyKey(k)'
        PROVE  k = key /\ OnlyKey(k)
    BY <2>1, <2>2, <2>3, <2>4 DEF OnlyKey
  <2>5. ASSUME NEW k \in Keys, OnlyKey(k)'
        PROVE  /\ \A d \in Clients : answer'[d] <= m_serviceKey'[k]
               /\ \A d \in Clients : sock'[d] = "out" => \A v \in seen'[d] : v < m_serviceKey'[k]
    <3>1. k = key /\ OnlyKey(key)
      BY <2>4, <2>5
    <3>2. \A d \in Clients : answer[d] <= m_serviceKey[key]
      BY <2>1, <3>1
    <3>3. \A d \in Clients : answer[d] \in Nat /\ m_serviceKey[key] \in Nat
      BY <2>1
    <3>4. \A d \in Clients : answer[d] < m_serviceKey'[key]
      BY <2>3, <3>2, <3>3, SMTT(30)
    <3>5. \A v \in seen'[c] : v < m_serviceKey'[key]
      BY <2>2, <3>4
    <3>6. \A d \in Clients : d # c /\ sock'[d] = "out" => \A v \in seen'[d] : v < m_serviceKey'[key]
      <4>1. \A d \in Clients : sock[d] = "out" => \A v \in seen[d] : v < m_serviceKey[key]
        BY <2>1, <3>1
      <4>2. \A d \in Clients : \A v \in seen[d] : v \in Nat
        OBVIOUS
      <4> QED
        BY <2>1, <2>2, <2>3, <4>1, <4>2, SMTT(30)
    <3>7. \A d \in Clients : answer'[d] <= m_serviceKey'[key]
      BY <2>1, <2>2, <2>3, <3>3, <3>4, SMTT(30)
    <3> QED
      BY <3>1, <3>5, <3>6, <3>7
  <2> QED
    BY <2>1, <2>2, <2>3, <2>5
<1>2. ASSUME NEW c \in Clients, WriteAnswer(c)  PROVE Counted'
  <2>1. /\ m_key \in Keys /\ m_serviceKey[m_key] > 0
        /\ sock' = [sock EXCEPT ![c] = "in"]
        /\ answer' = [answer EXCEPT ![c] = m_serviceKey[m_key]]
        /\ UNCHANGED <<m_key, m_serviceKey, seen>>
    BY <1>2 DEF WriteAnswer, AfterAnswer
  <2>2. \A k \in Keys : OnlyKey(k)' => OnlyKey(k) /\ m_key = k
    BY <2>1 DEF OnlyKey
  <2> QED
    BY <2>1, <2>2, SMTT(30)
<1>3. ASSUME UNCHANGED <<m_key, m_serviceKey, answer, seen>>,
             \A d \in Clients : sock'[d] = "out" => sock[d] = "out"
      PROVE  Counted'
  BY <1>3 DEF OnlyKey
<1>4. CASE Wait \/ WaitFails \/ AcceptFails
  BY <1>3, <1>4 DEF Wait, WaitFails, AcceptFails, serverVars, socketVars, history
<1>5. ASSUME NEW c \in Clients,
             Accept(c) \/ ReadEnd(c) \/ ReadError(c) \/ WriteError(c) \/ WriteKills(c)
      PROVE  Counted'
  BY <1>3, <1>5 DEF Accept, ReadEnd, ReadError, WriteError, WriteKills, AfterRead, socketVars,
                    history
<1>6. ASSUME NEW c \in Clients, Connects(c) \/ Asks(c) \/ Reads(c) \/ Leaves(c)
      PROVE  Counted'
  BY <1>3, <1>6 DEF Connects, Asks, Reads, Leaves, serverVars, history
<1>7. CASE UNCHANGED vars
  BY <1>3, <1>7 DEF vars, serverVars, history
<1> QED
  BY <1>1, <1>2, <1>4, <1>5, <1>6, <1>7 DEF Next, LtModel

LEMMA Inductive == Spec => []IInv
<1>1. IInv /\ [Next]_vars => IInv'
  BY TypeKept, LivesKept, RoomStaysKept, CountedKept DEF IInv
<1> QED
  BY <1>1, InitIInv, PTL DEF Spec

-----------------------------------------------------------------------------
(* The variables keep their types, and m_handleSendFd never meets a full socket, for
   any clients, keys and window (src/pollingserver.cpp:220-224). *)
THEOREM TypeCorrect == Spec => []TypeOK
<1>1. IInv => TypeOK
  BY DEF IInv
<1> QED
  BY <1>1, Inductive, PTL

(* Requests and answers alternate on every connection, whatever the others do
   (src/pollingserver.cpp:162, 215). *)
THEOREM OneAnswerPerRequestAlways == Spec => []OneAnswerPerRequest
<1>1. IInv => OneAnswerPerRequest
  BY DEF IInv
<1> QED
  BY <1>1, Inductive, PTL

(* A descriptor leaks only behind the end of a stream whose requests were all answered
   (src/pollingserver.cpp:257-260). *)
THEOREM LeakOnlyAfterEndAlways == Spec => []LeakOnlyAfterEnd
<1>1. IInv => LeakOnlyAfterEnd
  BY DEF IInv
<1> QED
  BY <1>1, Inductive, PTL

(* While there is one key, an answer exceeds all that were written before its request
   was read, though m_key is everybody's (src/pollingserver.cpp:152-161, 200). *)
THEOREM FreshAnswersAlways == Spec => FreshAnswers
<1> DEFINE Fresh == \A c \in Clients :
                     answered'[c] # answered[c] /\ OneKey => \A v \in seen[c] : answer'[c] > v
<1>1. ASSUME IInv, [Next]_vars  PROVE [Fresh]_vars
  <2> SUFFICES ASSUME NEW c \in Clients, answered'[c] # answered[c], OneKey,
                      NEW v \in seen[c]
               PROVE  answer'[c] > v
    OBVIOUS
  <2>1. WriteAnswer(c)
    <3>1. ASSUME NEW d \in Clients, WriteAnswer(d)  PROVE d = c
      BY <3>1 DEF WriteAnswer, IInv, TypeOK
    <3> QED
      BY <1>1, <3>1 DEF Next, LtModel, vars, Wait, WaitFails, AcceptFails, Accept, ReadRequest, ReadEnd,
           ReadError, WriteError, WriteKills, Connects, Asks, Reads, Leaves, history
  <2>2. /\ sock[c] = "out" /\ answer'[c] = m_serviceKey[m_key]
        /\ m_key \in Keys /\ m_serviceKey[m_key] > 0
    BY <1>1, <2>1 DEF WriteAnswer, IInv, TypeOK, Counted
  <2>3. OnlyKey(m_key)
    BY <1>1, <2>2 DEF OneKey, OnlyKey, IInv, TypeOK
  <2>4. v < m_serviceKey[m_key]
    BY <1>1, <2>2, <2>3 DEF IInv, Counted
  <2>5. v \in Nat /\ m_serviceKey[m_key] \in Nat
    BY <1>1, <2>2 DEF IInv, TypeOK
  <2> QED
    BY <2>2, <2>4, <2>5
<1> QED
  BY <1>1, Inductive, PTL DEF Spec, FreshAnswers
=============================================================================
