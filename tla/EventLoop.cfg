SPECIFICATION Spec
CONSTANTS
  Tasks = {t1, t2}
  Threads = {u1}
  Handlers = {h1, h2}
  Wakeup = Wakeup
  EventfdMax = 1
  kInitEventListSize = 1
INVARIANTS
  NoStalledFunctor
  NoStalledQuit
  NoStaleDispatch
PROPERTIES
  ImplementsTaskQueue
  QuitStopsLoop
  QueuedFunctorRuns
  ReadyHandlerServed
  UnannouncedFunctorRuns
