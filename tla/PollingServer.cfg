\* One descriptor fewer than clients.
SPECIFICATION Spec
CONSTANTS
  c1 = c1
  c2 = c2
  c3 = c3
  Clients <- ThreeClients
  Listener = listenfd
  Keys = {k1, k2}
  NoKey = NoKey
  MaxFds = 2
  Window = 1
  MaxRequests <- Requests
INVARIANTS OneAnswerPerRequest LeakOnlyAfterEnd
PROPERTIES FreshAnswers RequestAnswered
\* The model stops when the process has ended and when every client has left.
CHECK_DEADLOCK FALSE
