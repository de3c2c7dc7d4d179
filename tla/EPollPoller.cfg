SPECIFICATION Spec
CONSTANTS
  Handlers = {h1, h2, h3}
  Fds = {fd1, fd2, fd3}
  NoHandler = NULL
  NoFd = NoFd
INVARIANTS AssertionsHold NoDanglingPointer InterestKept
