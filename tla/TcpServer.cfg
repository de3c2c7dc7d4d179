\* One connection more than descriptors.
SPECIFICATION ServerSpec
CONSTANTS
  Handlers = {acceptor, c1, c2}
  Fds = {fd1, fd2, listen, idle}
  NoHandler = NULL
  NoFd = NoFd
  AcceptHandler = acceptor
  ListenFd = listen
  IdleFd = idle
  UserKeeps = TRUE
  UserWaits = TRUE
  MessagesFit = TRUE
  MaxAccepts = 3
  MaxSends = 1
INVARIANTS
  NoDanglingMapEntry UsedConnectionsLive NoAbort
  TeardownClosesDescriptors
PROPERTIES ImplementsConnectionLife ClosedConnectionFreed BacklogDrains TeardownCompletes
\* Every connection has come and gone, or the server is destroyed.
CHECK_DEADLOCK FALSE
