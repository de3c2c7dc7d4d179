------------------------- MODULE EventLoopThreadPool -------------------------
(***************************************************************************)
(* EventLoopThreadPool (src/EventLoopThreadPool.cpp) and the               *)
(* EventLoopThreads it owns (src/EventLoopThread.cpp), on top of Thread,   *)
(* MutexLock and Condition.  One thread, the owner, starts the pool, hands *)
(* out loops, may quit some of them and destroys the pool; every           *)
(* EventLoopThread's own thread runs threadFunc.  With N = 1 the pool is   *)
(* the single EventLoopThread of test_EventLoopThread (src/main.cpp).      *)
(*                                                                         *)
(* Of each EventLoop only what the handshake touches is here: m_bquit, the *)
(* eventfd (zero or not) and whether the object exists, which is the       *)
(* life of the local variable in threadFunc.                               *)
(***************************************************************************)
EXTENDS Integers

CONSTANTS
  N,                   \* m_threadsNum
  MaxCalls             \* bound: calls of getNextLoop

ASSUME PoolAssumption == N \in Nat /\ MaxCalls \in Nat

VARIABLES
  pc,                  \* where the owner is, see OwnerPc
  current,             \* the thread the owner is starting, quitting or joining
  m_next,
  assigned,            \* history: how often each loop was handed out
  mutex,               \* per EventLoopThread: who holds m_mutex
  m_ploop,             \* per EventLoopThread: has it been set?
  notified,            \* per EventLoopThread: a waiter was notified
  threadPc,            \* per thread, see ThreadPc
  m_bquit,
  eventfd,             \* per loop: the eventfd is not zero
  forgotten,           \* history, per loop: loop() reset an m_bquit that was set
  dangling             \* the owner used a loop that no longer exists

ownerVars  == <<pc, current>>
poolVars   == <<m_next, assigned>>
startVars  == <<mutex, m_ploop, notified>>
threadVars == <<threadPc, m_bquit, eventfd, forgotten>>
vars == <<ownerVars, poolVars, startVars, threadVars, dangling>>

K == 1 .. N

(* start(): "create" a thread, "lock" its mutex, "test" m_ploop, "sleep": it was NULL,
   "wait" for a notification and "relock".
   "serving": the pool is started.  "wakeup": in the second half of a quit() by the
   user.  The destructors: "quit", "quitWakeup" and "join". *)
OwnerPc == {"new", "create", "lock", "test", "sleep", "wait", "relock", "serving", "wakeup",
            "quit", "quitWakeup", "join", "done"}

(* "init": pthread_create has returned.  "lock", "publish": in threadFunc.  "enter"
   loop(); "check" m_bquit; "poll".  "exited": the loop object is gone. *)
ThreadPc == {"none", "init", "lock", "publish", "enter", "check", "poll", "exited"}

LoopExists(k) == threadPc[k] \notin {"none", "init", "exited"}

Init ==
  /\ pc = "new" /\ current = 0
  /\ m_next = 0 /\ assigned = [k \in K |-> 0]
  /\ mutex = [k \in K |-> "free"]
  /\ m_ploop = [k \in K |-> FALSE]
  /\ notified = [k \in K |-> FALSE]
  /\ threadPc = [k \in K |-> "none"]
  /\ m_bquit = [k \in K |-> FALSE]
  /\ eventfd = [k \in K |-> FALSE]
  /\ forgotten = [k \in K |-> FALSE]
  /\ dangling = FALSE

-----------------------------------------------------------------------------
(* Operators whose comment starts with "Mutant" are never used by Spec: each is a
   plausible bug in the definition that follows it, kept to show that the
   property it names would notice. *)

(* The owner starts the pool. *)

(* start(), up to the first thread; without any the callback gets the base loop. *)
Start ==
  /\ pc = "new"
  /\ IF N = 0 THEN pc' = "serving" /\ UNCHANGED current ELSE pc' = "create" /\ current' = 1
  /\ UNCHANGED <<poolVars, startVars, threadVars, dangling>>

(* startLoop() up to m_thread.start(). *)
CreateThread ==
  /\ pc = "create"
  /\ pc' = "lock"
  /\ threadPc' = [threadPc EXCEPT ![current] = "init"]
  /\ UNCHANGED <<current, poolVars, startVars, m_bquit, eventfd, forgotten, dangling>>

LockMutex ==
  /\ pc \in {"lock", "relock"}
  /\ mutex[current] = "free"
  /\ mutex' = [mutex EXCEPT ![current] = "owner"]
  /\ pc' = "test"
  /\ UNCHANGED <<current, poolVars, m_ploop, notified, threadVars, dangling>>

(* while(m_ploop == NULL) ... *)
FindsNoLoop ==
  /\ pc = "test"
  /\ ~m_ploop[current]
  /\ pc' = "sleep"
  /\ UNCHANGED <<current, poolVars, startVars, threadVars, dangling>>

(* ... m_cond.wait(): the owner becomes a waiter and releases the mutex at once. *)
WaitForLoop ==
  /\ pc = "sleep"
  /\ pc' = "wait"
  /\ mutex' = [mutex EXCEPT ![current] = "free"]
  /\ notified' = [notified EXCEPT ![current] = FALSE]
  /\ UNCHANGED <<current, poolVars, m_ploop, threadVars, dangling>>

(* startLoop() returns and start() goes on with the next thread. *)
LoopStarted ==
  /\ pc = "test"
  /\ m_ploop[current]
  /\ mutex' = [mutex EXCEPT ![current] = "free"]
  /\ IF current < N
     THEN pc' = "create" /\ current' = current + 1
     ELSE pc' = "serving" /\ UNCHANGED current
  /\ UNCHANGED <<poolVars, m_ploop, notified, threadVars, dangling>>

Notified ==
  /\ pc = "wait"
  /\ notified[current]
  /\ pc' = "relock"
  /\ UNCHANGED <<current, poolVars, startVars, threadVars, dangling>>

(* Mutant for ImplementsLoopPool: an `if' in the place of the `while'. *)
SpuriousWakeupReturns ==
  /\ pc = "wait"
  /\ IF current < N
     THEN pc' = "create" /\ current' = current + 1
     ELSE pc' = "serving" /\ UNCHANGED current
  /\ UNCHANGED <<poolVars, startVars, threadVars, dangling>>

(* pthread_cond_wait may return without a notification. *)
SpuriousWakeup ==
  /\ pc = "wait"
  /\ pc' = "relock"
  /\ UNCHANGED <<current, poolVars, startVars, threadVars, dangling>>

-----------------------------------------------------------------------------
(* The threads: threadFunc and loop(). *)

(* The EventLoop is constructed and the user's m_callback called. *)
ThreadBegins(k) ==
  /\ threadPc[k] = "init"
  /\ threadPc' = [threadPc EXCEPT ![k] = "lock"]
  /\ UNCHANGED <<ownerVars, poolVars, startVars, m_bquit, eventfd, forgotten, dangling>>

(* Mutant for NoLostWakeup: threadFunc without the MutexLockGuard. *)
LocksNothing(k) == UNCHANGED mutex

(* MutexLockGuard lock(m_mutex). *)
TakesMutex(k) == mutex[k] = "free" /\ mutex' = [mutex EXCEPT ![k] = "thread"]

ThreadLocks(k) ==
  /\ threadPc[k] = "lock"
  /\ TakesMutex(k)
  /\ threadPc' = [threadPc EXCEPT ![k] = "publish"]
  /\ UNCHANGED <<ownerVars, poolVars, m_ploop, notified, m_bquit, eventfd, forgotten, dangling>>

(* Mutant for StartReturns: no notify. *)
NotifiesNobody(k) == notified

(* notify() wakes the owner if it waits, and is lost if it does not. *)
AfterNotify(k) == [notified EXCEPT ![k] = pc = "wait" /\ current = k]

(* m_ploop = &loop, notify() and the end of the critical section. *)
ThreadPublishes(k) ==
  /\ threadPc[k] = "publish"
  /\ m_ploop' = [m_ploop EXCEPT ![k] = TRUE]
  /\ notified' = AfterNotify(k)
  /\ mutex' = [mutex EXCEPT ![k] = "free"]
  /\ threadPc' = [threadPc EXCEPT ![k] = "enter"]
  /\ UNCHANGED <<ownerVars, poolVars, m_bquit, eventfd, forgotten, dangling>>

(* loop() resets m_bquit before it looks at it. *)
ThreadEntersLoop(k) ==
  /\ threadPc[k] = "enter"
  /\ threadPc' = [threadPc EXCEPT ![k] = "check"]
  /\ m_bquit' = [m_bquit EXCEPT ![k] = FALSE]
  /\ forgotten' = [forgotten EXCEPT ![k] = m_bquit[k]]
  /\ UNCHANGED <<ownerVars, poolVars, startVars, eventfd, dangling>>

(* while(!m_bquit); when loop() returns, threadFunc does, and the loop is gone. *)
ThreadChecks(k) ==
  /\ threadPc[k] = "check"
  /\ threadPc' = [threadPc EXCEPT ![k] = IF m_bquit[k] THEN "exited" ELSE "poll"]
  /\ UNCHANGED <<ownerVars, poolVars, startVars, m_bquit, eventfd, forgotten, dangling>>

(* The poll returns on the eventfd, which is read ... *)
ThreadWakes(k) ==
  /\ threadPc[k] = "poll"
  /\ eventfd[k]
  /\ eventfd' = [eventfd EXCEPT ![k] = FALSE]
  /\ threadPc' = [threadPc EXCEPT ![k] = "check"]
  /\ UNCHANGED <<ownerVars, poolVars, startVars, m_bquit, forgotten, dangling>>

(* ... or for another reason, such as the timeout; a callback may quit the loop. *)
ThreadPolls(k) ==
  /\ threadPc[k] = "poll"
  /\ \E quits \in BOOLEAN : m_bquit' = [m_bquit EXCEPT ![k] = m_bquit[k] \/ quits]
  /\ threadPc' = [threadPc EXCEPT ![k] = "check"]
  /\ UNCHANGED <<ownerVars, poolVars, startVars, eventfd, forgotten, dangling>>

-----------------------------------------------------------------------------
(* The owner uses the pool. *)

(* Mutant for ImplementsLoopPool: it starts over before the last loop. *)
NextIndexTooEarly == IF m_next + 2 >= N THEN 0 ELSE m_next + 1

NextIndex == IF m_next + 1 >= N THEN 0 ELSE m_next + 1

(* getNextLoop(); without threads it returns the base loop. *)
GetNextLoop ==
  /\ pc = "serving"
  /\ N > 0
  /\ \A k \in K : assigned[k] < MaxCalls
  /\ assigned' = IF m_next + 1 \in K THEN [assigned EXCEPT ![m_next + 1] = @ + 1] ELSE assigned
  /\ m_next' = NextIndex
  /\ UNCHANGED <<ownerVars, startVars, threadVars, dangling>>

(* The first half of loop->quit() on thread k: m_bquit.  A loop that no longer exists
   must not be used: what follows is undefined, and the model ends there. *)
StoreQuit(k) ==
  IF LoopExists(k)
  THEN m_bquit' = [m_bquit EXCEPT ![k] = TRUE] /\ UNCHANGED dangling
  ELSE dangling' = TRUE /\ UNCHANGED m_bquit

(* Mutant for NoLostQuit and JoinReturns: quit() does not wake the loop. *)
NoWakeup(k) == UNCHANGED <<eventfd, dangling>>

(* The second half: wakeup(). *)
WriteEventfd(k) ==
  IF LoopExists(k)
  THEN eventfd' = [eventfd EXCEPT ![k] = TRUE] /\ UNCHANGED dangling
  ELSE dangling' = TRUE /\ UNCHANGED eventfd

(* The user quits a loop that still runs. *)
UserQuits(k) ==
  /\ pc = "serving"
  /\ LoopExists(k)
  /\ StoreQuit(k)
  /\ pc' = "wakeup" /\ current' = k
  /\ UNCHANGED <<poolVars, startVars, threadPc, eventfd, forgotten>>

UserWakesLoop ==
  /\ pc = "wakeup"
  /\ WriteEventfd(current)
  /\ pc' = "serving"
  /\ UNCHANGED <<current, poolVars, startVars, threadPc, m_bquit, forgotten>>

(* The destructor of the pool destroys its EventLoopThreads in their order. *)
Destroy ==
  /\ pc = "serving"
  /\ IF N = 0 THEN pc' = "done" /\ UNCHANGED current ELSE pc' = "quit" /\ current' = 1
  /\ UNCHANGED <<poolVars, startVars, threadVars, dangling>>

(* ~EventLoopThread: m_ploop->quit() and m_thread.join(). *)
DestructorQuits ==
  /\ pc = "quit"
  /\ StoreQuit(current)
  /\ pc' = "quitWakeup"
  /\ UNCHANGED <<current, poolVars, startVars, threadPc, eventfd, forgotten>>

DestructorWakesLoop ==
  /\ pc = "quitWakeup"
  /\ WriteEventfd(current)
  /\ pc' = "join"
  /\ UNCHANGED <<current, poolVars, startVars, threadPc, m_bquit, forgotten>>

Join ==
  /\ pc = "join"
  /\ threadPc[current] = "exited"
  /\ IF current < N
     THEN pc' = "quit" /\ current' = current + 1
     ELSE pc' = "done" /\ UNCHANGED current
  /\ UNCHANGED <<poolVars, startVars, threadVars, dangling>>

-----------------------------------------------------------------------------
OwnerStep ==
  \/ CreateThread \/ LockMutex \/ FindsNoLoop \/ WaitForLoop \/ LoopStarted \/ Notified
  \/ UserWakesLoop \/ DestructorQuits \/ DestructorWakesLoop \/ Join

(* What a thread does without being asked and without the timeout. *)
ThreadStep(k) ==
  \/ ThreadBegins(k) \/ ThreadLocks(k) \/ ThreadPublishes(k) \/ ThreadEntersLoop(k)
  \/ ThreadChecks(k) \/ ThreadWakes(k)

Next ==
  /\ ~dangling
  /\ \/ Start \/ OwnerStep \/ SpuriousWakeup \/ GetNextLoop \/ Destroy
     \/ \E k \in K : ThreadStep(k) \/ ThreadPolls(k) \/ UserQuits(k)

(* The owner goes on with a call it has begun, the threads run, and the mutex is
   fair enough to let both in. *)
Fairness ==
  /\ WF_vars(~dangling /\ OwnerStep)
  /\ SF_vars(~dangling /\ LockMutex)
  /\ \A k \in K : WF_vars(~dangling /\ ThreadStep(k)) /\ SF_vars(~dangling /\ ThreadLocks(k))

Spec == Init /\ [][Next]_vars /\ Fairness
-----------------------------------------------------------------------------
TypeOK ==
  /\ pc \in OwnerPc
  /\ current \in 0 .. N
  /\ m_next \in 0 .. IF N = 0 THEN 0 ELSE N - 1
  /\ assigned \in [K -> Nat]
  /\ mutex \in [K -> {"free", "owner", "thread"}]
  /\ m_ploop \in [K -> BOOLEAN] /\ notified \in [K -> BOOLEAN]
  /\ threadPc \in [K -> ThreadPc]
  /\ m_bquit \in [K -> BOOLEAN] /\ eventfd \in [K -> BOOLEAN]
  /\ forgotten \in [K -> BOOLEAN]
  /\ dangling \in BOOLEAN

(* start() returns with every loop constructed and published, spurious wakeups and
   all (src/EventLoopThread.cpp:24-41). *)
LoopsStarted ==
  pc = "serving" =>
    \A k \in K : m_ploop[k] /\ threadPc[k] \in {"enter", "check", "poll", "exited"}

(* getNextLoop spreads its calls: no loop is ahead of another by more than one
   (src/EventLoopThreadPool.cpp:36-51). *)
RoundRobin == \A j, k \in K : assigned[j] <= assigned[k] + 1

(* The owner does not wait for a notification that was sent before: nothing comes
   between its look at m_ploop and its wait (src/EventLoopThread.cpp:30-38). *)
NoLostWakeup == pc = "wait" /\ m_ploop[current] => notified[current]

(* Whoever joins a thread has woken it, or is about to find it gone: a quit() that comes
   between the test of m_bquit and the poll is not lost, unless it came before loop()
   and was forgotten there (src/EventLoop.cpp:65). *)
NoLostQuit ==
  pc = "join" /\ ~dangling /\ threadPc[current] = "poll" =>
    IF m_bquit[current] THEN eventfd[current] ELSE forgotten[current]

(* start() does not wait for a notification that was sent before it waits. *)
StartReturns == (pc = "create") ~> (pc = "serving")

(* The destructor gets past the join of a thread, unless every quit() came before
   the thread's loop() and was forgotten there (src/EventLoop.cpp:65), or used a
   loop that was gone. *)
JoinReturns ==
  \A k \in K :
    (pc = "join" /\ current = k)
      ~> (~(pc = "join" /\ current = k) \/ (forgotten[k] /\ ~m_bquit[k]) \/ dangling)

(* quit() and the destructor never use a loop that no longer exists. *)
LoopExistsWhenUsed == ~dangling

(* How far the pool is, and its loops: one begins when threadFunc publishes it. *)
Phase ==
  CASE pc \in {"new", "create", "lock", "test", "sleep", "wait", "relock"} -> "starting"
    [] pc \in {"serving", "wakeup"} -> "serving"
    [] pc \in {"quit", "quitWakeup", "join"} -> "closing"
    [] pc = "done" -> "closed"

LoopState(k) ==
  IF ~m_ploop[k] THEN "none" ELSE IF threadPc[k] = "exited" THEN "over" ELSE "running"

(* A pool is a LoopPool: start() returns when all loops are published, spurious wakeups
   and all (src/EventLoopThread.cpp:24-41), the next loop is never one that is ahead of
   another (src/EventLoopThreadPool.cpp:36-51), and when the destructor is through, every
   thread has left its loop. *)
Pool == INSTANCE LoopPool WITH phase <- Phase, loops <- [k \in K |-> LoopState(k)],
                               uses <- assigned

ImplementsLoopPool == Pool!Spec
=============================================================================
