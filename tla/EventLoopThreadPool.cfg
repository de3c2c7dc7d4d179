SPECIFICATION Spec
CONSTANTS
  N = 2
  MaxCalls = 2
INVARIANTS NoLostWakeup NoLostQuit
PROPERTIES ImplementsLoopPool StartReturns JoinReturns
\* The model stops when the pool is destroyed, when a join never returns, and when
\* a loop that is gone was used.
CHECK_DEADLOCK FALSE
