------------------------------ MODULE EventLoop ------------------------------
(***************************************************************************)
(* One EventLoop (src/EventLoop.h, src/EventLoop.cpp): the thread that     *)
(* created it, which runs loop() and every callback, and other threads     *)
(* that hand it functors or ask it to quit.                                *)
(*                                                                         *)
(* Grain of atomicity.  m_pendingFuntors is touched under m_mutex only, so *)
(* the push in queueInLoop and the swap in m_doPendingFunctors are one     *)
(* step each.  Another thread's push (or store to m_bquit) and its write   *)
(* to the eventfd are two steps: the loop runs between them.  When the     *)
(* loop's own thread does both nobody can read the eventfd in between, so  *)
(* they are one step.  m_bquit is a plain bool read across threads; built  *)
(* as the Makefile builds it (-g, no optimisation) each access is one load *)
(* or store.                                                               *)
(***************************************************************************)
EXTENDS Naturals, Sequences, FiniteSets

CONSTANTS
  Tasks,               \* functors: one element per call of runInLoop/queueInLoop
  Threads,             \* the threads other than the loop's own
  Handlers,            \* the handlers other than m_wakeupHandler
  Wakeup,              \* m_wakeupHandler
  EventfdMax,          \* the eventfd counter's largest value (2^64 - 2 in the kernel)
  kInitEventListSize   \* first size of the poller's event list (16 in the code)

ASSUME EventLoopAssumption ==
  /\ Wakeup \notin Handlers
  /\ EventfdMax \in Nat \ {0}
  /\ kInitEventListSize \in Nat \ {0}

None == "none"         \* m_currentActiveHandler = NULL

VARIABLES
  pc,                  \* where the loop's thread is, see LoopPc
  m_bquit,
  m_beventHandling,
  m_callingPendingFunctors,
  m_activeHandlers,    \* what the last poll returned
  undispatched,        \* the part of m_activeHandlers the for loop has not reached
  m_currentActiveHandler,
  m_pendingFuntors,    \* (sic) the queue other threads push to
  tmpFunctors,         \* the rest of the batch m_doPendingFunctors swapped out
  eventfd,             \* the counter behind m_wakeupFd
  listSize,            \* m_eventlist.size() of the poller
  registered,          \* handlers in the poller
  ready,               \* handlers whose descriptor is ready, level-triggered
  threadPc,            \* other threads: "out" of the loop's code, or about to "wakeup"
  submitted,           \* history: tasks handed over
  ran,                 \* history: tasks called, in order
  unannounced          \* history: tasks the loop's thread queued outside loop()

loopVars    == <<pc, m_bquit, m_beventHandling, m_callingPendingFunctors>>
pollVars    == <<m_activeHandlers, undispatched, m_currentActiveHandler, listSize>>
queueVars   == <<m_pendingFuntors, tmpFunctors>>
handlerVars == <<registered, ready>>
history     == <<submitted, ran, unannounced>>
vars == <<loopVars, pollVars, queueVars, handlerVars, eventfd, threadPc, history>>

(* "idle": not inside loop().  "check": at while(!m_bquit).  "poll": in
   epoll_wait.  "dispatch": between two handlers.  "handler": inside a handler's
   callback.  "swap": entering m_doPendingFunctors.  "functors": between two
   functors.  "functor": inside one. *)
LoopPc == {"idle", "check", "poll", "dispatch", "handler", "swap", "functors", "functor"}

m_blooping == pc # "idle"

Init ==
  /\ pc = "idle"
  /\ m_bquit = FALSE
  /\ m_beventHandling = FALSE
  /\ m_callingPendingFunctors = FALSE
  /\ m_activeHandlers = {}
  /\ undispatched = {}
  /\ m_currentActiveHandler = None
  /\ m_pendingFuntors = <<>>
  /\ tmpFunctors = <<>>
  /\ eventfd = 0
  /\ listSize = kInitEventListSize
  /\ registered = {}
  /\ ready = {}
  /\ threadPc = [u \in Threads |-> "out"]
  /\ submitted = {}
  /\ ran = <<>>
  /\ unannounced = {}

-----------------------------------------------------------------------------
(* Operators whose comment starts with "Mutant" are never used by Spec: each is a
   plausible bug in the definition that follows it, kept to show that the
   property it names would notice. *)

(* wakeup(): add one to the eventfd.  At the maximum the non-blocking write
   fails with EAGAIN, which is printed and otherwise ignored. *)
EventfdAfterWrite == IF eventfd < EventfdMax THEN eventfd + 1 ELSE eventfd

(* loop(): the entry.  A quit() that came earlier is forgotten here. *)
Loop ==
  /\ ~m_blooping
  /\ pc' = "check"
  /\ m_bquit' = FALSE
  /\ UNCHANGED <<m_beventHandling, m_callingPendingFunctors, pollVars, queueVars,
                 handlerVars, eventfd, threadPc, history>>

(* The test of the while loop. *)
CheckQuit ==
  /\ pc = "check"
  /\ IF m_bquit
     THEN pc' = "idle" /\ UNCHANGED m_activeHandlers
     ELSE pc' = "poll" /\ m_activeHandlers' = {}
  /\ UNCHANGED <<m_bquit, m_beventHandling, m_callingPendingFunctors, undispatched,
                 m_currentActiveHandler, listSize, queueVars, handlerVars, eventfd,
                 threadPc, history>>

(* What epoll_wait has to report. *)
Reportable ==
  (registered \cap ready) \cup (IF eventfd > 0 THEN {Wakeup} ELSE {})

(* Mutant for ReadyHandlerServed: the list never grows. *)
SameListSize(active) == listSize

(* A list that came back full is doubled. *)
ListSizeAfter(active) ==
  IF Cardinality(active) = listSize THEN 2 * listSize ELSE listSize

(* epoll_wait returns as many of the ready descriptors as fit into the list. *)
PollEvent ==
  /\ pc = "poll"
  /\ Reportable # {}
  /\ \E active \in SUBSET Reportable :
       /\ active = Reportable \/ Cardinality(active) = listSize
       /\ Cardinality(active) <= listSize
       /\ m_activeHandlers' = active
       /\ undispatched' = active
       /\ listSize' = ListSizeAfter(active)
  /\ pc' = "dispatch"
  /\ m_beventHandling' = TRUE
  /\ UNCHANGED <<m_bquit, m_callingPendingFunctors, m_currentActiveHandler, queueVars,
                 handlerVars, eventfd, threadPc, history>>

(* Mutant for UnannouncedFunctorRuns: a poll without events goes straight back to
   the test of m_bquit. *)
TimeoutSkipsFunctors ==
  /\ pc = "poll"
  /\ Reportable = {}
  /\ pc' = "check"
  /\ undispatched' = {}
  /\ UNCHANGED <<m_bquit, m_beventHandling, m_callingPendingFunctors, m_activeHandlers, listSize,
                 m_currentActiveHandler, queueVars, handlerVars, eventfd, threadPc, history>>

(* epoll_wait returns with nothing: kPollTimeMs went by, or a signal came. *)
PollNothing ==
  /\ pc = "poll"
  /\ Reportable = {}
  /\ pc' = "dispatch"
  /\ m_beventHandling' = TRUE
  /\ undispatched' = {}
  /\ UNCHANGED <<m_bquit, m_callingPendingFunctors, m_activeHandlers, listSize,
                 m_currentActiveHandler, queueVars, handlerVars, eventfd, threadPc, history>>

(* The for loop reaches a user's handler: its callback begins. *)
DispatchHandler ==
  /\ pc = "dispatch"
  /\ \E h \in undispatched \ {Wakeup} :
       /\ m_currentActiveHandler' = h
       /\ undispatched' = undispatched \ {h}
  /\ pc' = "handler"
  /\ UNCHANGED <<m_bquit, m_beventHandling, m_callingPendingFunctors, m_activeHandlers,
                 listSize, queueVars, handlerVars, eventfd, threadPc, history>>

(* The for loop reaches m_wakeupHandler: m_handleRead reads the eventfd, which
   sets it to zero. *)
DispatchWakeup ==
  /\ pc = "dispatch"
  /\ Wakeup \in undispatched
  /\ m_currentActiveHandler' = Wakeup
  /\ undispatched' = undispatched \ {Wakeup}
  /\ eventfd' = 0
  /\ UNCHANGED <<loopVars, m_activeHandlers, listSize, queueVars, handlerVars, threadPc,
                 history>>

(* A handler's callback returns; it may have consumed what made it ready. *)
HandlerReturns ==
  /\ pc = "handler"
  /\ pc' = "dispatch"
  /\ ready' \in {ready, ready \ {m_currentActiveHandler}}
  /\ UNCHANGED <<m_bquit, m_beventHandling, m_callingPendingFunctors, pollVars, queueVars,
                 registered, eventfd, threadPc, history>>

(* The end of the for loop. *)
EventsHandled ==
  /\ pc = "dispatch"
  /\ undispatched = {}
  /\ pc' = "swap"
  /\ m_beventHandling' = FALSE
  /\ m_currentActiveHandler' = None
  /\ UNCHANGED <<m_bquit, m_callingPendingFunctors, m_activeHandlers, undispatched, listSize,
                 queueVars, handlerVars, eventfd, threadPc, history>>

(* Mutant for ImplementsTaskQueue: the queue is copied and not cleared. *)
SwapCopies ==
  /\ pc = "swap"
  /\ pc' = "functors"
  /\ m_callingPendingFunctors' = TRUE
  /\ tmpFunctors' = m_pendingFuntors
  /\ UNCHANGED <<m_bquit, m_beventHandling, pollVars, m_pendingFuntors, handlerVars, eventfd,
                 threadPc, history>>

(* m_doPendingFunctors, up to the end of the critical section. *)
SwapPending ==
  /\ pc = "swap"
  /\ pc' = "functors"
  /\ m_callingPendingFunctors' = TRUE
  /\ tmpFunctors' = m_pendingFuntors
  /\ m_pendingFuntors' = <<>>
  /\ UNCHANGED <<m_bquit, m_beventHandling, pollVars, handlerVars, eventfd, threadPc, history>>

(* tmpFunctors[i]() begins ... *)
CallFunctor ==
  /\ pc = "functors"
  /\ tmpFunctors # <<>>
  /\ pc' = "functor"
  /\ ran' = Append(ran, Head(tmpFunctors))
  /\ tmpFunctors' = Tail(tmpFunctors)
  /\ UNCHANGED <<m_bquit, m_beventHandling, m_callingPendingFunctors, pollVars,
                 m_pendingFuntors, handlerVars, eventfd, threadPc, submitted, unannounced>>

(* ... and returns. *)
FunctorReturns ==
  /\ pc = "functor"
  /\ pc' = "functors"
  /\ UNCHANGED <<m_bquit, m_beventHandling, m_callingPendingFunctors, pollVars, queueVars,
                 handlerVars, eventfd, threadPc, history>>

(* Mutant for QueuedFunctorRuns: the eventfd is read after the functors instead
   of before them, and swallows the wakeup of one that came meanwhile. *)
ReadsWakeupLate ==
  /\ pc = "functors"
  /\ tmpFunctors = <<>>
  /\ pc' = "check"
  /\ m_callingPendingFunctors' = FALSE
  /\ eventfd' = 0
  /\ UNCHANGED <<m_bquit, m_beventHandling, pollVars, queueVars, handlerVars, threadPc, history>>

(* m_doPendingFunctors returns. *)
FunctorsDone ==
  /\ pc = "functors"
  /\ tmpFunctors = <<>>
  /\ pc' = "check"
  /\ m_callingPendingFunctors' = FALSE
  /\ UNCHANGED <<m_bquit, m_beventHandling, pollVars, queueVars, handlerVars, eventfd,
                 threadPc, history>>

-----------------------------------------------------------------------------
(* What the loop's own thread may call: in a callback, or outside loop(). *)
InUserCode == pc \in {"idle", "handler", "functor"}

(* Mutant for NoStalledFunctor: the loop's own thread never wakes the loop. *)
NeverWakesItself == FALSE

(* queueInLoop on the loop's thread: no wakeup unless functors are being called. *)
WakesItself == m_callingPendingFunctors

QueueInLoopHere(t) ==
  /\ InUserCode
  /\ t \in Tasks \ submitted
  /\ submitted' = submitted \cup {t}
  /\ m_pendingFuntors' = Append(m_pendingFuntors, t)
  /\ eventfd' = IF WakesItself THEN EventfdAfterWrite ELSE eventfd
  /\ unannounced' = IF m_blooping THEN unannounced ELSE unannounced \cup {t}
  /\ UNCHANGED <<loopVars, pollVars, tmpFunctors, handlerVars, threadPc, ran>>

(* runInLoop on the loop's thread: cb() at once.  What cb itself does is the
   further steps of the callback it is called in. *)
RunInLoopHere(t) ==
  /\ InUserCode
  /\ t \in Tasks \ submitted
  /\ submitted' = submitted \cup {t}
  /\ ran' = Append(ran, t)
  /\ UNCHANGED <<loopVars, pollVars, queueVars, handlerVars, eventfd, threadPc, unannounced>>

(* quit() on the loop's thread. *)
QuitHere ==
  /\ InUserCode
  /\ m_bquit' = TRUE
  /\ UNCHANGED <<pc, m_beventHandling, m_callingPendingFunctors, pollVars, queueVars,
                 handlerVars, eventfd, threadPc, history>>

(* updateHandler(h): h is in the poller from now on. *)
UpdateHandler(h) ==
  /\ InUserCode
  /\ h \notin registered
  /\ registered' = registered \cup {h}
  /\ UNCHANGED <<loopVars, pollVars, queueVars, ready, eventfd, threadPc, history>>

(* Mutant for NoStaleDispatch: no assertion. *)
MayAlwaysRemove(h) == TRUE

(* The assertion of removeHandler: while events are dispatched h is the current
   handler or not among the active ones. *)
MayRemove(h) == m_beventHandling => (m_currentActiveHandler = h \/ h \notin m_activeHandlers)

(* removeHandler(h).  A call that fails the assertion aborts the process, which
   takes no step after that. *)
RemoveHandler(h) ==
  /\ InUserCode
  /\ h \in registered
  /\ MayRemove(h)
  /\ registered' = registered \ {h}
  /\ UNCHANGED <<loopVars, pollVars, queueVars, ready, eventfd, threadPc, history>>

-----------------------------------------------------------------------------
(* runInLoop or queueInLoop on another thread, up to the end of the critical
   section: runInLoop sees a foreign thread and calls queueInLoop. *)
QueueInLoop(u, t) ==
  /\ threadPc[u] = "out"
  /\ t \in Tasks \ submitted
  /\ submitted' = submitted \cup {t}
  /\ m_pendingFuntors' = Append(m_pendingFuntors, t)
  /\ threadPc' = [threadPc EXCEPT ![u] = "wakeup"]
  /\ UNCHANGED <<loopVars, pollVars, tmpFunctors, handlerVars, eventfd, ran, unannounced>>

(* Mutant for NoStalledQuit and QuitStopsLoop: quit() without the wakeup. *)
QuitSilently(u) ==
  /\ threadPc[u] = "out"
  /\ m_bquit' = TRUE
  /\ UNCHANGED <<pc, m_beventHandling, m_callingPendingFunctors, pollVars, queueVars,
                 handlerVars, eventfd, threadPc, history>>

(* quit() on another thread, up to the store. *)
Quit(u) ==
  /\ threadPc[u] = "out"
  /\ m_bquit' = TRUE
  /\ threadPc' = [threadPc EXCEPT ![u] = "wakeup"]
  /\ UNCHANGED <<pc, m_beventHandling, m_callingPendingFunctors, pollVars, queueVars,
                 handlerVars, eventfd, history>>

(* The wakeup() that ends either call. *)
WakeupBy(u) ==
  /\ threadPc[u] = "wakeup"
  /\ eventfd' = EventfdAfterWrite
  /\ threadPc' = [threadPc EXCEPT ![u] = "out"]
  /\ UNCHANGED <<loopVars, pollVars, queueVars, handlerVars, history>>

(* The outside world makes a descriptor ready. *)
BecomeReady(h) ==
  /\ h \notin ready
  /\ ready' = ready \cup {h}
  /\ UNCHANGED <<loopVars, pollVars, queueVars, registered, eventfd, threadPc, history>>

-----------------------------------------------------------------------------
(* The steps the loop's thread takes without being asked, the timeout apart. *)
LoopStep ==
  \/ CheckQuit \/ PollEvent \/ DispatchHandler \/ DispatchWakeup \/ HandlerReturns
  \/ EventsHandled \/ SwapPending \/ CallFunctor \/ FunctorReturns \/ FunctorsDone

UserCode ==
  \/ QuitHere
  \/ \E t \in Tasks : QueueInLoopHere(t) \/ RunInLoopHere(t)
  \/ \E h \in Handlers : UpdateHandler(h) \/ RemoveHandler(h)

OtherThread(u) == Quit(u) \/ WakeupBy(u) \/ \E t \in Tasks : QueueInLoop(u, t)

Next ==
  \/ Loop \/ PollNothing \/ LoopStep \/ UserCode
  \/ \E u \in Threads : OtherThread(u)
  \/ \E h \in Handlers : BecomeReady(h)

(* The loop's thread keeps running and callbacks return; a thread inside quit()
   or queueInLoop finishes the call.  No fairness on the timeout: what follows
   does not lean on the ten seconds of kPollTimeMs, where it does not say so. *)
Fairness == WF_vars(LoopStep) /\ \A u \in Threads : WF_vars(WakeupBy(u))

Spec == Init /\ [][Next]_vars /\ Fairness

-----------------------------------------------------------------------------
TypeOK ==
  /\ pc \in LoopPc
  /\ m_bquit \in BOOLEAN
  /\ m_beventHandling \in BOOLEAN
  /\ m_callingPendingFunctors \in BOOLEAN
  /\ m_activeHandlers \subseteq Handlers \cup {Wakeup}
  /\ undispatched \subseteq m_activeHandlers
  /\ m_currentActiveHandler \in Handlers \cup {Wakeup, None}
  /\ m_pendingFuntors \in Seq(Tasks)
  /\ tmpFunctors \in Seq(Tasks)
  /\ eventfd \in 0 .. EventfdMax
  /\ listSize \in Nat \ {0}
  /\ registered \subseteq Handlers
  /\ ready \subseteq Handlers
  /\ threadPc \in [Threads -> {"out", "wakeup"}]
  /\ submitted \subseteq Tasks
  /\ ran \in Seq(Tasks)
  /\ unannounced \subseteq Tasks

(* Somebody has woken, or is about to wake, the loop. *)
Woken == eventfd > 0 \/ \E u \in Threads : threadPc[u] = "wakeup"

(* The loop never sits in epoll_wait with a functor in its queue that nobody has
   announced: the wakeup of queueInLoop is skipped only when the loop is certain
   to reach m_doPendingFunctors before it polls again.  Functors that the loop's
   own thread queued before it entered loop() are the one exception: nothing
   wakes the loop for those. *)
NoStalledFunctor ==
  pc = "poll" =>
    \A i \in DOMAIN m_pendingFuntors : m_pendingFuntors[i] \notin unannounced => Woken

(* Nor does it sit there over a quit() whose caller has not woken it and is not
   about to (src/EventLoop.cpp:84-90): the store comes before the wakeup, and the
   loop reads its eventfd only between a poll and the next test of m_bquit. *)
NoStalledQuit == pc = "poll" /\ m_bquit => Woken

(* No callback is made on a handler that has left the poller since the poll that
   reported it (src/EventLoop.cpp:71): what remains of m_activeHandlers is still
   registered. *)
NoStaleDispatch == undispatched \ {Wakeup} \subseteq registered

(* The loop implements the queue of TaskQueue: what is left of the swapped batch,
   then what has been pushed since. *)
Queue == INSTANCE TaskQueue WITH todo <- tmpFunctors \o m_pendingFuntors

ImplementsTaskQueue == Queue!Spec

(* Hence no functor is lost or called twice, be it pushed while the batch is
   swapped out, left over when the loop quits, or overtaken by runInLoop. *)
EachFunctorOnce == Queue!EachOnce

(* A quit() that reaches a running loop ends it, whichever thread calls it and
   wherever the loop is, without waiting for the poll to time out. *)
QuitStopsLoop == (m_blooping /\ m_bquit) ~> ~m_blooping

(* A functor queued while the loop runs is called, unless the loop is told to
   quit, again without the help of the timeout. *)
Waiting(t) == \E i \in DOMAIN m_pendingFuntors : m_pendingFuntors[i] = t
Called(t) == \E i \in DOMAIN ran : ran[i] = t
QueuedFunctorRuns ==
  \A t \in Tasks :
    (m_blooping /\ Waiting(t) /\ t \notin unannounced)
      ~> (~m_blooping \/ Called(t))

(* A functor that the loop's own thread queued before it entered loop() was not
   announced to anybody (src/EventLoop.cpp:112).  If polls time out (the
   hypothesis: the only property here that leans on kPollTimeMs) it is called all
   the same, unless the loop is told to quit, for a poll without events is
   followed by m_doPendingFunctors like any other (src/EventLoop.cpp:78). *)
UnannouncedFunctorRuns ==
  WF_vars(PollNothing) =>
    \A t \in Tasks :
      (m_blooping /\ Waiting(t)) ~> (~m_blooping \/ Called(t))

(* A ready handler is dispatched (or removed, or the loop ends) however many
   others are ready at the same time: a poll list that is too short grows. *)
ReadyHandlerServed ==
  \A h \in Handlers :
    (m_blooping /\ h \in registered \cap ready)
      ~> (~m_blooping \/ h \notin registered \cap ready \/ m_currentActiveHandler = h)
=============================================================================
