--------------------------- MODULE EventLoopProofs ---------------------------
(***************************************************************************)
(* What holds of EventLoop for any sets of tasks, threads and handlers.    *)
(***************************************************************************)
EXTENDS EventLoop, SequenceTheorems, TLAPS

(* Between two polls, once the active handlers have been dispatched, every
   functor in the queue has a wakeup that is done or about to be done. *)
AnnouncedBeforePoll ==
  pc \in {"idle", "check", "poll", "functors", "functor"} =>
    \A i \in DOMAIN m_pendingFuntors : m_pendingFuntors[i] \notin unannounced => Woken

(* The flags say where the loop's thread is, and what only one phase of the
   loop uses is empty in the others. *)
PhasesDistinct ==
  /\ m_callingPendingFunctors <=> pc \in {"functors", "functor"}
  /\ m_beventHandling <=> pc \in {"dispatch", "handler"}
  /\ undispatched # {} => pc \in {"dispatch", "handler"}
  /\ tmpFunctors # <<>> => pc \in {"functors", "functor"}
  /\ pc = "handler" => m_currentActiveHandler \notin undispatched

IInv == TypeOK /\ PhasesDistinct /\ AnnouncedBeforePoll /\ NoStalledQuit /\ NoStaleDispatch

-----------------------------------------------------------------------------
(* wakeup() leaves the eventfd readable, within its range, even at the maximum. *)
LEMMA WakeupLeavesReadable ==
  ASSUME eventfd \in 0 .. EventfdMax
  PROVE  EventfdAfterWrite \in 1 .. EventfdMax
BY EventLoopAssumption DEF EventfdAfterWrite

LEMMA TypeCorrectStep == IInv /\ [Next]_vars => TypeOK'
<1> SUFFICES ASSUME IInv, [Next]_vars PROVE TypeOK'
  OBVIOUS
<1> USE DEF IInv, TypeOK, LoopPc, loopVars, pollVars, queueVars, handlerVars, history
<1>1. CASE Loop
  BY <1>1 DEF Loop
<1>2. CASE PollNothing
  BY <1>2 DEF PollNothing
<1>3. CASE CheckQuit
  BY <1>3 DEF CheckQuit, PhasesDistinct
<1>4. CASE PollEvent
  <2>1. PICK active \in SUBSET Reportable :
          /\ m_activeHandlers' = active
          /\ undispatched' = active
          /\ listSize' \in {2 * listSize, listSize}
    BY <1>4 DEF PollEvent, ListSizeAfter
  <2>2. active \subseteq Handlers \cup {Wakeup}
    BY <2>1 DEF Reportable
  <2> QED
    BY <1>4, <2>1, <2>2 DEF PollEvent
<1>5. CASE DispatchHandler
  BY <1>5 DEF DispatchHandler
<1>6. CASE DispatchWakeup
  BY <1>6, EventLoopAssumption DEF DispatchWakeup
<1>7. CASE HandlerReturns
  BY <1>7 DEF HandlerReturns
<1>8. CASE EventsHandled
  BY <1>8 DEF EventsHandled
<1>9. CASE SwapPending
  BY <1>9 DEF SwapPending
<1>10. CASE CallFunctor
  BY <1>10 DEF CallFunctor
<1>11. CASE FunctorReturns
  BY <1>11 DEF FunctorReturns
<1>12. CASE FunctorsDone
  BY <1>12 DEF FunctorsDone
<1>13. CASE QuitHere
  BY <1>13 DEF QuitHere
<1>14. ASSUME NEW t \in Tasks, QueueInLoopHere(t) PROVE TypeOK'
  BY <1>14, WakeupLeavesReadable DEF QueueInLoopHere
<1>15. ASSUME NEW t \in Tasks, RunInLoopHere(t) PROVE TypeOK'
  BY <1>15 DEF RunInLoopHere
<1>16. ASSUME NEW h \in Handlers, UpdateHandler(h) PROVE TypeOK'
  BY <1>16 DEF UpdateHandler
<1>17. ASSUME NEW h \in Handlers, RemoveHandler(h) PROVE TypeOK'
  BY <1>17 DEF RemoveHandler
<1>18. ASSUME NEW u \in Threads, Quit(u) PROVE TypeOK'
  BY <1>18 DEF Quit
<1>19. ASSUME NEW u \in Threads, WakeupBy(u) PROVE TypeOK'
  BY <1>19, WakeupLeavesReadable DEF WakeupBy
<1>20. ASSUME NEW u \in Threads, NEW t \in Tasks, QueueInLoop(u, t) PROVE TypeOK'
  BY <1>20 DEF QueueInLoop
<1>21. ASSUME NEW h \in Handlers, BecomeReady(h) PROVE TypeOK'
  BY <1>21 DEF BecomeReady
<1>22. CASE UNCHANGED vars
  BY <1>22 DEF vars
<1> QED
  BY <1>1, <1>2, <1>3, <1>4, <1>5, <1>6, <1>7, <1>8, <1>9, <1>10, <1>11, <1>12, <1>13,
     <1>14, <1>15, <1>16, <1>17, <1>18, <1>19, <1>20, <1>21, <1>22
  DEF Next, LoopStep, UserCode, OtherThread

(* The flags follow the phases of the loop. *)
LEMMA PhasesDistinctStep == IInv /\ [Next]_vars => PhasesDistinct'
<1> SUFFICES ASSUME IInv, [Next]_vars PROVE PhasesDistinct'
  OBVIOUS
<1> USE DEF IInv, PhasesDistinct, loopVars, pollVars, queueVars, handlerVars, history
<1>1. CASE Loop
  BY <1>1 DEF Loop, m_blooping
<1>2. CASE PollNothing
  BY <1>2 DEF PollNothing
<1>3. CASE CheckQuit
  BY <1>3 DEF CheckQuit
<1>4. CASE PollEvent
  BY <1>4 DEF PollEvent
<1>5. CASE DispatchHandler
  BY <1>5 DEF DispatchHandler, TypeOK
<1>6. CASE DispatchWakeup
  BY <1>6 DEF DispatchWakeup
<1>7. CASE HandlerReturns
  BY <1>7 DEF HandlerReturns
<1>8. CASE EventsHandled
  BY <1>8 DEF EventsHandled
<1>9. CASE SwapPending
  BY <1>9 DEF SwapPending
<1>10. CASE CallFunctor
  BY <1>10 DEF CallFunctor
<1>11. CASE FunctorReturns
  BY <1>11 DEF FunctorReturns
<1>12. CASE FunctorsDone
  BY <1>12 DEF FunctorsDone
<1>13. CASE QuitHere
  BY <1>13 DEF QuitHere
<1>14. ASSUME NEW t \in Tasks, QueueInLoopHere(t) PROVE PhasesDistinct'
  BY <1>14 DEF QueueInLoopHere
<1>15. ASSUME NEW t \in Tasks, RunInLoopHere(t) PROVE PhasesDistinct'
  BY <1>15 DEF RunInLoopHere
<1>16. ASSUME NEW h \in Handlers, UpdateHandler(h) PROVE PhasesDistinct'
  BY <1>16 DEF UpdateHandler
<1>17. ASSUME NEW h \in Handlers, RemoveHandler(h) PROVE PhasesDistinct'
  BY <1>17 DEF RemoveHandler
<1>18. ASSUME NEW u \in Threads, Quit(u) PROVE PhasesDistinct'
  BY <1>18 DEF Quit
<1>19. ASSUME NEW u \in Threads, WakeupBy(u) PROVE PhasesDistinct'
  BY <1>19 DEF WakeupBy
<1>20. ASSUME NEW u \in Threads, NEW t \in Tasks, QueueInLoop(u, t) PROVE PhasesDistinct'
  BY <1>20 DEF QueueInLoop
<1>21. ASSUME NEW h \in Handlers, BecomeReady(h) PROVE PhasesDistinct'
  BY <1>21 DEF BecomeReady
<1>22. CASE UNCHANGED vars
  BY <1>22 DEF vars
<1> QED
  BY <1>1, <1>2, <1>3, <1>4, <1>5, <1>6, <1>7, <1>8, <1>9, <1>10, <1>11, <1>12, <1>13,
     <1>14, <1>15, <1>16, <1>17, <1>18, <1>19, <1>20, <1>21, <1>22
  DEF Next, LoopStep, UserCode, OtherThread

(* The assertion in removeHandler keeps what is left to dispatch registered. *)
LEMMA NoStaleDispatchStep == IInv /\ [Next]_vars => NoStaleDispatch'
<1> SUFFICES ASSUME IInv, [Next]_vars PROVE NoStaleDispatch'
  OBVIOUS
<1> USE DEF IInv, NoStaleDispatch, loopVars, pollVars, queueVars, handlerVars, history
<1>1. CASE Loop
  BY <1>1 DEF Loop
<1>2. CASE PollNothing
  BY <1>2 DEF PollNothing
<1>3. CASE CheckQuit
  BY <1>3 DEF CheckQuit
<1>4. CASE PollEvent
  BY <1>4 DEF PollEvent, Reportable
<1>5. CASE DispatchHandler
  BY <1>5 DEF DispatchHandler
<1>6. CASE DispatchWakeup
  BY <1>6 DEF DispatchWakeup
<1>7. CASE HandlerReturns
  BY <1>7 DEF HandlerReturns
<1>8. CASE EventsHandled
  BY <1>8 DEF EventsHandled
<1>9. CASE SwapPending
  BY <1>9 DEF SwapPending
<1>10. CASE CallFunctor
  BY <1>10 DEF CallFunctor
<1>11. CASE FunctorReturns
  BY <1>11 DEF FunctorReturns
<1>12. CASE FunctorsDone
  BY <1>12 DEF FunctorsDone
<1>13. CASE QuitHere
  BY <1>13 DEF QuitHere
<1>14. ASSUME NEW t \in Tasks, QueueInLoopHere(t) PROVE NoStaleDispatch'
  BY <1>14 DEF QueueInLoopHere
<1>15. ASSUME NEW t \in Tasks, RunInLoopHere(t) PROVE NoStaleDispatch'
  BY <1>15 DEF RunInLoopHere
<1>16. ASSUME NEW h \in Handlers, UpdateHandler(h) PROVE NoStaleDispatch'
  BY <1>16 DEF UpdateHandler
<1>17. ASSUME NEW h \in Handlers, RemoveHandler(h) PROVE NoStaleDispatch'
  BY <1>17 DEF RemoveHandler, MayRemove, InUserCode, PhasesDistinct, TypeOK
<1>18. ASSUME NEW u \in Threads, Quit(u) PROVE NoStaleDispatch'
  BY <1>18 DEF Quit
<1>19. ASSUME NEW u \in Threads, WakeupBy(u) PROVE NoStaleDispatch'
  BY <1>19 DEF WakeupBy
<1>20. ASSUME NEW u \in Threads, NEW t \in Tasks, QueueInLoop(u, t) PROVE NoStaleDispatch'
  BY <1>20 DEF QueueInLoop
<1>21. ASSUME NEW h \in Handlers, BecomeReady(h) PROVE NoStaleDispatch'
  BY <1>21 DEF BecomeReady
<1>22. CASE UNCHANGED vars
  BY <1>22 DEF vars
<1> QED
  BY <1>1, <1>2, <1>3, <1>4, <1>5, <1>6, <1>7, <1>8, <1>9, <1>10, <1>11, <1>12, <1>13,
     <1>14, <1>15, <1>16, <1>17, <1>18, <1>19, <1>20, <1>21, <1>22
  DEF Next, LoopStep, UserCode, OtherThread

(* No step but the end of the dispatch may take a wakeup away. *)
LEMMA AnnouncedStep == IInv /\ [Next]_vars => AnnouncedBeforePoll'
<1> SUFFICES ASSUME IInv, [Next]_vars PROVE AnnouncedBeforePoll'
  OBVIOUS
<1> USE DEF IInv, AnnouncedBeforePoll, Woken, loopVars, pollVars, queueVars, handlerVars, history
<1>1. CASE Loop
  BY <1>1 DEF Loop, m_blooping
<1>2. CASE PollNothing
  BY <1>2 DEF PollNothing
<1>3. CASE CheckQuit
  BY <1>3 DEF CheckQuit
<1>4. CASE PollEvent
  BY <1>4 DEF PollEvent
<1>5. CASE DispatchHandler
  BY <1>5 DEF DispatchHandler
<1>6. CASE DispatchWakeup
  BY <1>6 DEF DispatchWakeup
<1>7. CASE HandlerReturns
  BY <1>7 DEF HandlerReturns
<1>8. CASE EventsHandled
  BY <1>8 DEF EventsHandled
<1>9. CASE SwapPending
  BY <1>9 DEF SwapPending
<1>10. CASE CallFunctor
  BY <1>10 DEF CallFunctor
<1>11. CASE FunctorReturns
  BY <1>11 DEF FunctorReturns
<1>12. CASE FunctorsDone
  BY <1>12 DEF FunctorsDone
<1>13. CASE QuitHere
  BY <1>13 DEF QuitHere
<1>14. ASSUME NEW t \in Tasks, QueueInLoopHere(t) PROVE AnnouncedBeforePoll'
  <2> USE <1>14 DEF QueueInLoopHere, InUserCode, WakesItself
  <2>1. CASE pc = "idle"
    <3>1. eventfd' = eventfd /\ unannounced' = unannounced \cup {t}
      BY <2>1 DEF PhasesDistinct, m_blooping
    <3>2. SUFFICES ASSUME NEW i \in DOMAIN m_pendingFuntors',
                          m_pendingFuntors'[i] \notin unannounced'
                   PROVE  Woken'
      BY Zenon DEF AnnouncedBeforePoll
    <3>3. i \in DOMAIN m_pendingFuntors /\ m_pendingFuntors'[i] = m_pendingFuntors[i]
      BY <3>1, <3>2 DEF TypeOK
    <3> QED
      BY <2>1, <3>1, <3>2, <3>3
  <2>2. CASE pc = "functor"
    <3>1. eventfd' = EventfdAfterWrite
      BY <2>2 DEF PhasesDistinct
    <3> QED
      BY <3>1, WakeupLeavesReadable DEF TypeOK
  <2>3. CASE pc = "handler"
    BY <2>3
  <2> QED
    BY <2>1, <2>2, <2>3
<1>15. ASSUME NEW t \in Tasks, RunInLoopHere(t) PROVE AnnouncedBeforePoll'
  BY <1>15 DEF RunInLoopHere
<1>16. ASSUME NEW h \in Handlers, UpdateHandler(h) PROVE AnnouncedBeforePoll'
  BY <1>16 DEF UpdateHandler
<1>17. ASSUME NEW h \in Handlers, RemoveHandler(h) PROVE AnnouncedBeforePoll'
  BY <1>17 DEF RemoveHandler
<1>18. ASSUME NEW u \in Threads, Quit(u) PROVE AnnouncedBeforePoll'
  BY <1>18 DEF Quit
<1>19. ASSUME NEW u \in Threads, WakeupBy(u) PROVE AnnouncedBeforePoll'
  <2>1. eventfd' = EventfdAfterWrite /\ EventfdAfterWrite > 0
    BY <1>19, WakeupLeavesReadable DEF WakeupBy, TypeOK
  <2> QED
    BY <2>1
<1>20. ASSUME NEW u \in Threads, NEW t \in Tasks, QueueInLoop(u, t) PROVE AnnouncedBeforePoll'
  <2>1. threadPc'[u] = "wakeup"
    BY <1>20 DEF QueueInLoop, TypeOK
  <2> QED
    BY <2>1
<1>21. ASSUME NEW h \in Handlers, BecomeReady(h) PROVE AnnouncedBeforePoll'
  BY <1>21 DEF BecomeReady
<1>22. CASE UNCHANGED vars
  BY <1>22 DEF vars
<1> QED
  BY <1>1, <1>2, <1>3, <1>4, <1>5, <1>6, <1>7, <1>8, <1>9, <1>10, <1>11, <1>12, <1>13,
     <1>14, <1>15, <1>16, <1>17, <1>18, <1>19, <1>20, <1>21, <1>22
  DEF Next, LoopStep, UserCode, OtherThread

(* Only the test of m_bquit leads to the poll, and nothing reads the eventfd there. *)
LEMMA NoStalledQuitStep == IInv /\ [Next]_vars => NoStalledQuit'
<1> SUFFICES ASSUME IInv, [Next]_vars PROVE NoStalledQuit'
  OBVIOUS
<1> USE DEF IInv, NoStalledQuit, Woken, loopVars, pollVars, queueVars, handlerVars, history
<1>1. CASE Loop
  BY <1>1 DEF Loop
<1>2. CASE PollNothing
  BY <1>2 DEF PollNothing
<1>3. CASE CheckQuit
  BY <1>3 DEF CheckQuit
<1>4. CASE PollEvent
  BY <1>4 DEF PollEvent
<1>5. CASE DispatchHandler
  BY <1>5 DEF DispatchHandler
<1>6. CASE DispatchWakeup
  BY <1>6 DEF DispatchWakeup
<1>7. CASE HandlerReturns
  BY <1>7 DEF HandlerReturns
<1>8. CASE EventsHandled
  BY <1>8 DEF EventsHandled
<1>9. CASE SwapPending
  BY <1>9 DEF SwapPending
<1>10. CASE CallFunctor
  BY <1>10 DEF CallFunctor
<1>11. CASE FunctorReturns
  BY <1>11 DEF FunctorReturns
<1>12. CASE FunctorsDone
  BY <1>12 DEF FunctorsDone
<1>13. CASE QuitHere
  BY <1>13 DEF QuitHere, InUserCode
<1>14. ASSUME NEW t \in Tasks, QueueInLoopHere(t) PROVE NoStalledQuit'
  BY <1>14 DEF QueueInLoopHere, InUserCode
<1>15. ASSUME NEW t \in Tasks, RunInLoopHere(t) PROVE NoStalledQuit'
  BY <1>15 DEF RunInLoopHere
<1>16. ASSUME NEW h \in Handlers, UpdateHandler(h) PROVE NoStalledQuit'
  BY <1>16 DEF UpdateHandler
<1>17. ASSUME NEW h \in Handlers, RemoveHandler(h) PROVE NoStalledQuit'
  BY <1>17 DEF RemoveHandler
<1>18. ASSUME NEW u \in Threads, Quit(u) PROVE NoStalledQuit'
  <2>1. threadPc'[u] = "wakeup"
    BY <1>18 DEF Quit, TypeOK
  <2> QED
    BY <2>1
<1>19. ASSUME NEW u \in Threads, WakeupBy(u) PROVE NoStalledQuit'
  <2>1. eventfd' = EventfdAfterWrite /\ EventfdAfterWrite > 0
    BY <1>19, WakeupLeavesReadable DEF WakeupBy, TypeOK
  <2> QED
    BY <2>1
<1>20. ASSUME NEW u \in Threads, NEW t \in Tasks, QueueInLoop(u, t) PROVE NoStalledQuit'
  <2>1. threadPc'[u] = "wakeup"
    BY <1>20 DEF QueueInLoop, TypeOK
  <2> QED
    BY <2>1
<1>21. ASSUME NEW h \in Handlers, BecomeReady(h) PROVE NoStalledQuit'
  BY <1>21 DEF BecomeReady
<1>22. CASE UNCHANGED vars
  BY <1>22 DEF vars
<1> QED
  BY <1>1, <1>2, <1>3, <1>4, <1>5, <1>6, <1>7, <1>8, <1>9, <1>10, <1>11, <1>12, <1>13,
     <1>14, <1>15, <1>16, <1>17, <1>18, <1>19, <1>20, <1>21, <1>22
  DEF Next, LoopStep, UserCode, OtherThread

LEMMA InitHolds == Init => IInv
<1> SUFFICES ASSUME Init PROVE IInv
  OBVIOUS
<1>1. TypeOK
  <2>1. <<>> \in Seq(Tasks)
    OBVIOUS
  <2>2. threadPc \in [Threads -> {"out", "wakeup"}]
    BY DEF Init
  <2>3. eventfd \in 0 .. EventfdMax /\ listSize \in Nat \ {0}
    BY EventLoopAssumption DEF Init
  <2> QED
    BY <2>1, <2>2, <2>3 DEF Init, TypeOK, LoopPc
<1>2. PhasesDistinct
  BY DEF Init, PhasesDistinct
<1>3. AnnouncedBeforePoll
  BY DEF Init, AnnouncedBeforePoll
<1>4. NoStalledQuit
  BY DEF Init, NoStalledQuit
<1>5. NoStaleDispatch
  BY DEF Init, NoStaleDispatch
<1> QED
  BY <1>1, <1>2, <1>3, <1>4, <1>5 DEF IInv

(* IInv is inductive: it holds of every state the loop reaches. *)
THEOREM InductiveInvariant == Spec => []IInv
<1>1. IInv /\ [Next]_vars => IInv'
  BY TypeCorrectStep, PhasesDistinctStep, AnnouncedStep, NoStalledQuitStep,
     NoStaleDispatchStep
  DEF IInv
<1> QED
  BY <1>1, InitHolds, PTL DEF Spec

(* Types: in particular the eventfd never passes its maximum, and what is still
   to be dispatched came from the last poll. *)
THEOREM TypeCorrect == Spec => []TypeOK
<1>1. IInv => TypeOK
  BY DEF IInv
<1> QED
  BY <1>1, InductiveInvariant, PTL

(* The loop never polls over a functor that nobody has announced, whatever the
   number of threads and of functors: the test in queueInLoop that spares a
   wakeup (src/EventLoop.cpp:112) spares no needed one. *)
THEOREM NoStalledFunctorAlways == Spec => []NoStalledFunctor
<1>1. IInv => NoStalledFunctor
  BY DEF IInv, AnnouncedBeforePoll, NoStalledFunctor
<1> QED
  BY <1>1, InductiveInvariant, PTL

(* Nor over a quit() that is not followed by a wakeup, however many threads ask
   the loop to stop and whatever they queue meanwhile. *)
THEOREM NoStalledQuitAlways == Spec => []NoStalledQuit
<1>1. IInv => NoStalledQuit
  BY DEF IInv
<1> QED
  BY <1>1, InductiveInvariant, PTL

(* The for loop in loop() never calls a handler that has been removed since the
   poll (src/EventLoop.cpp:71), for any number of handlers. *)
THEOREM NoStaleDispatchAlways == Spec => []NoStaleDispatch
<1>1. IInv => NoStaleDispatch
  BY DEF IInv
<1> QED
  BY <1>1, InductiveInvariant, PTL
-----------------------------------------------------------------------------
(* The refinement: tmpFunctors \o m_pendingFuntors is the queue of TaskQueue. *)
QueueFacts == INSTANCE TaskQueueProofs WITH todo <- tmpFunctors \o m_pendingFuntors

LEMMA QueueInit == Init => Queue!Init
BY DEF Init, Queue!Init

LEMMA QueueStep == IInv /\ [Next]_vars => [Queue!Next]_(Queue!vars)
<1> SUFFICES ASSUME IInv, [Next]_vars PROVE [Queue!Next]_(Queue!vars)
  OBVIOUS
<1> USE DEF IInv, TypeOK, loopVars, pollVars, queueVars, handlerVars, history
<1> DEFINE SameQueue == /\ submitted' = submitted /\ ran' = ran
                        /\ tmpFunctors' \o m_pendingFuntors' = tmpFunctors \o m_pendingFuntors
<1>0. ASSUME SameQueue PROVE UNCHANGED Queue!vars
  BY <1>0 DEF Queue!vars
<1>1. CASE Loop \/ PollNothing \/ CheckQuit \/ PollEvent \/ DispatchHandler
  <2>1. SameQueue
    BY <1>1 DEF Loop, PollNothing, CheckQuit, PollEvent, DispatchHandler
  <2> QED
    BY <2>1, <1>0
<1>2. CASE DispatchWakeup \/ HandlerReturns \/ EventsHandled \/ FunctorReturns \/ FunctorsDone
  <2>1. SameQueue
    BY <1>2 DEF DispatchWakeup, HandlerReturns, EventsHandled, FunctorReturns, FunctorsDone
  <2> QED
    BY <2>1, <1>0
<1>3. CASE SwapPending
  <2>1. tmpFunctors = <<>>
    BY <1>3 DEF SwapPending, PhasesDistinct
  <2>2. tmpFunctors' \o m_pendingFuntors' = m_pendingFuntors \o <<>>
    BY <1>3 DEF SwapPending
  <2>3. SameQueue
    BY <1>3, <2>1, <2>2, ConcatEmptySeq DEF SwapPending
  <2> QED
    BY <2>3, <1>0
<1>4. CASE CallFunctor
  <2>1. tmpFunctors # <<>> /\ tmpFunctors \in Seq(Tasks) /\ m_pendingFuntors \in Seq(Tasks)
    BY <1>4 DEF CallFunctor
  <2>2. /\ tmpFunctors \o m_pendingFuntors # <<>>
        /\ Head(tmpFunctors \o m_pendingFuntors) = Head(tmpFunctors)
        /\ Tail(tmpFunctors \o m_pendingFuntors) = Tail(tmpFunctors) \o m_pendingFuntors
    BY <2>1, QueueFacts!HeadTailOfConcat
  <2>3. Queue!RunHead
    BY <1>4, <2>2 DEF CallFunctor, Queue!RunHead
  <2> QED
    BY <2>3 DEF Queue!Next
<1>5. ASSUME NEW t \in Tasks, QueueInLoopHere(t) \/ \E u \in Threads : QueueInLoop(u, t)
      PROVE  Queue!Next
  <2>1. /\ t \in Tasks \ submitted /\ submitted' = submitted \cup {t} /\ ran' = ran
        /\ tmpFunctors' = tmpFunctors /\ m_pendingFuntors' = Append(m_pendingFuntors, t)
    BY <1>5 DEF QueueInLoopHere, QueueInLoop
  <2>2. tmpFunctors' \o m_pendingFuntors' = Append(tmpFunctors \o m_pendingFuntors, t)
    BY <2>1, QueueFacts!AppendToConcat
  <2>3. Queue!Submit(t)
    BY <2>1, <2>2 DEF Queue!Submit
  <2> QED
    BY <2>3 DEF Queue!Next
<1>6. ASSUME NEW t \in Tasks, RunInLoopHere(t) PROVE Queue!Next
  <2>1. Queue!RunNow(t)
    BY <1>6 DEF RunInLoopHere, Queue!RunNow
  <2> QED
    BY <2>1 DEF Queue!Next
<1>7. CASE QuitHere \/ (\E h \in Handlers : UpdateHandler(h) \/ RemoveHandler(h) \/ BecomeReady(h))
  <2>1. SameQueue
    BY <1>7 DEF QuitHere, UpdateHandler, RemoveHandler, BecomeReady
  <2> QED
    BY <2>1, <1>0
<1>8. CASE \E u \in Threads : Quit(u) \/ WakeupBy(u)
  <2>1. SameQueue
    BY <1>8 DEF Quit, WakeupBy
  <2> QED
    BY <2>1, <1>0
<1>9. CASE UNCHANGED vars
  <2>1. SameQueue
    BY <1>9 DEF vars
  <2> QED
    BY <2>1, <1>0
<1> QED
  BY <1>1, <1>2, <1>3, <1>4, <1>5, <1>6, <1>7, <1>8, <1>9
  DEF Next, LoopStep, UserCode, OtherThread

(* Whatever the interleaving of threads, the two-stage queue of the loop
   (m_pendingFuntors, and the batch swapped out of it) is one first-in first-out
   queue, which runInLoop on the loop's thread alone may overtake. *)
THEOREM Refinement == Spec => ImplementsTaskQueue
<1>1. Init => Queue!Init
  BY QueueInit
<1>2. IInv /\ [Next]_vars => [Queue!Next]_(Queue!vars)
  BY QueueStep
<1> QED
  BY <1>1, <1>2, InductiveInvariant, PTL DEF Spec, ImplementsTaskQueue, Queue!Spec

(* No functor handed to a loop is lost, and none is called twice. *)
THEOREM EachFunctorOnceAlways == Spec => []EachFunctorOnce
<1>1. Queue!Spec => []Queue!EachOnce
  <2>1. /\ QueueFacts!Init <=> Queue!Init
        /\ [QueueFacts!Next]_(QueueFacts!vars) <=> [Queue!Next]_(Queue!vars)
        /\ QueueFacts!EachOnce <=> Queue!EachOnce
    BY DEF QueueFacts!Init, Queue!Init, QueueFacts!Next, Queue!Next, QueueFacts!vars, Queue!vars,
           QueueFacts!RunHead, Queue!RunHead, QueueFacts!RunNow, Queue!RunNow,
           QueueFacts!Submit, Queue!Submit, QueueFacts!EachOnce, Queue!EachOnce
  <2> QED
    BY <2>1, QueueFacts!EachTaskOnce, PTL DEF QueueFacts!Spec, Queue!Spec
<1> QED
  BY <1>1, Refinement, PTL DEF ImplementsTaskQueue, EachFunctorOnce
=============================================================================
