\* One EventLoopThread, as in test_EventLoopThread (src/main.cpp).
SPECIFICATION Spec
CONSTANTS
  N = 1
  MaxCalls = 0
INVARIANTS LoopExistsWhenUsed
CHECK_DEADLOCK FALSE
