\* The build of the Makefile: assertions are compiled in.
SPECIFICATION Spec
CONSTANTS
  Threads = {u1}
  Shutdowners = {}
  LoopThread = loop
  Sizes = {2}
  MaxSends = 1
  SndBuf = 1
  MaxInput = 0
  NDEBUG = FALSE
INVARIANTS ClosedWhileUp
\* The model stops when the process has died and when every bound is reached.
CHECK_DEADLOCK FALSE
