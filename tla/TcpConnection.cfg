\* A two-byte message fills the socket's buffer to the brim, a three-byte one overfills
\* it, and the second of two finds it full.
SPECIFICATION FairSpec
CONSTANTS
  Threads = {u1}
  Shutdowners = {u1}
  LoopThread = loop
  Sizes = {2, 3}
  MaxSends = 1
  SndBuf = 2
  MaxInput = 1
  NDEBUG = TRUE
INVARIANTS NothingLost WriteInterest MessagesWhileUp
PROPERTIES
  InputBeforeDown ImplementsOutputStream
  OutputDrains ShutdownSendsFin PeerLeavesConnectionDestroyed
\* The model stops when the process has died and when every bound is reached.
CHECK_DEADLOCK FALSE
