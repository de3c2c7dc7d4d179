\* The peer does not read, so that output is buffered.
SPECIFICATION ServerSpec
CONSTANTS
  Handlers = {acceptor, c1, c2}
  Fds = {fd1, fd2, listen, idle}
  NoHandler = NULL
  NoFd = NoFd
  AcceptHandler = acceptor
  ListenFd = listen
  IdleFd = idle
  UserKeeps = TRUE
  UserWaits = TRUE
  MessagesFit = FALSE
  MaxAccepts = 3
  MaxSends = 1
INVARIANTS NoAbort
\* Every connection has come and gone, or the server is destroyed.
CHECK_DEADLOCK FALSE
