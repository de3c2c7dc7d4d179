---------------------- MODULE EventLoopThreadPoolProofs ----------------------
(***************************************************************************)
(* What EventLoopThreadPool promises for any number of threads: it is a    *)
(* LoopPool, so start() returns with all their loops running or about to,  *)
(* getNextLoop is fair to them and the destructor returns when all are     *)
(* over; and what it waits for has come or is to come: no notification and *)
(* no quit() is lost.                                                      *)
(***************************************************************************)
EXTENDS EventLoopThreadPool, TLAPS

USE PoolAssumption DEF K

(* Where the owner starts thread `current', which exists already except in "create". *)
Starting == {"lock", "test", "sleep", "wait", "relock"}

(* The first thread that does not exist yet, and the first whose loop start() need not
   have seen. *)
FirstMissing ==
  IF pc = "new" THEN 1
  ELSE IF pc = "create" THEN current
  ELSE IF pc \in Starting THEN current + 1
  ELSE N + 1

FirstUnseen ==
  IF pc = "new" THEN 1
  ELSE IF pc \in Starting \cup {"create"} THEN current
  ELSE N + 1

Published == {"enter", "check", "poll", "exited"}

(* The handshake, seen from both sides. *)
Handshake ==
  /\ pc \notin {"new", "serving", "done"} => current \in K
  /\ \A k \in K : k >= FirstMissing => threadPc[k] = "none"
  /\ \A k \in K : k < FirstUnseen => m_ploop[k]
  /\ \A k \in K : m_ploop[k] <=> threadPc[k] \in Published

(* m_mutex is held where the code says so. *)
Exclusion ==
  \A k \in K : /\ mutex[k] = "owner" <=> pc \in {"test", "sleep"} /\ current = k
               /\ mutex[k] = "thread" <=> threadPc[k] = "publish"

(* What the owner has seen of the loop it waits for. *)
Waiting == (pc = "sleep" => ~m_ploop[current]) /\ NoLostWakeup

(* The quit() of the destructor, from its first half on. *)
Quitting ==
  /\ \A k \in K : forgotten[k] => threadPc[k] \in {"check", "poll", "exited"}
  /\ pc \in {"quitWakeup", "join"} /\ ~dangling /\ threadPc[current] # "exited" =>
       m_bquit[current] \/ forgotten[current]
  /\ NoLostQuit

(* The threads that are joined. *)
Joined ==
  \A k \in K : pc = "done" \/ (pc \in {"quit", "quitWakeup", "join"} /\ k < current) =>
    threadPc[k] = "exited"

(* The loops below m_next are one call ahead of the others. *)
Rounds ==
  \E rounds \in Nat : \A k \in K :
    assigned[k] = IF k <= m_next THEN rounds + 1 ELSE rounds

IInv == TypeOK /\ Handshake /\ Rounds /\ Exclusion /\ Waiting /\ Quitting /\ Joined

LEMMA InitIInv == Init => IInv
<1> SUFFICES ASSUME Init  PROVE IInv
  OBVIOUS
<1>1. TypeOK
  <2>1. m_next \in 0 .. IF N = 0 THEN 0 ELSE N - 1
    BY DEF Init
  <2>2. pc \in OwnerPc /\ current \in 0 .. N
    BY DEF Init, OwnerPc
  <2>3. mutex \in [K -> {"free", "owner", "thread"}] /\ threadPc \in [K -> ThreadPc]
    BY DEF Init, ThreadPc
  <2>4. assigned \in [K -> Nat]
    BY DEF Init
  <2>5. /\ m_ploop \in [K -> BOOLEAN] /\ notified \in [K -> BOOLEAN]
        /\ m_bquit \in [K -> BOOLEAN] /\ eventfd \in [K -> BOOLEAN]
        /\ forgotten \in [K -> BOOLEAN] /\ dangling \in BOOLEAN
    BY Zenon DEF Init
  <2> QED
    BY <2>1, <2>2, <2>3, <2>4, <2>5 DEF TypeOK
<1>2. Handshake
  BY DEF Init, Handshake, FirstMissing, FirstUnseen, Published
<1>3. Rounds
  <2>1. 0 \in Nat /\ \A k \in K : assigned[k] = IF k <= m_next THEN 0 + 1 ELSE 0
    BY DEF Init
  <2> QED
    BY <2>1 DEF Rounds
<1>4. Exclusion /\ Joined
  BY DEF Init, Exclusion, Joined
<1>5. Waiting
  BY DEF Init, Waiting, NoLostWakeup
<1>6. Quitting
  <2>1. \A k \in K : forgotten[k] = FALSE
    BY DEF Init
  <2>2. pc = "new"
    BY DEF Init
  <2> QED
    BY <2>1, <2>2 DEF Quitting, NoLostQuit
<1> QED
  BY <1>1, <1>2, <1>3, <1>4, <1>5, <1>6 DEF IInv

(* What only getNextLoop changes. *)
LEMMA RoundsKept ==
  ASSUME Rounds, UNCHANGED poolVars
  PROVE  Rounds'
BY DEF Rounds, poolVars

(* getNextLoop hands out loop m_next and moves on, which may end a round. *)
LEMMA GetNextLoopRounds ==
  ASSUME IInv, GetNextLoop
  PROVE  Rounds'
<1> PICK rounds \in Nat : \A k \in K : assigned[k] = IF k <= m_next THEN rounds + 1 ELSE rounds
  BY DEF IInv, Rounds
<1>1. /\ N > 0 /\ m_next \in 0 .. N - 1
      /\ m_next' = IF m_next + 1 >= N THEN 0 ELSE m_next + 1
      /\ assigned' = [assigned EXCEPT ![m_next + 1] = @ + 1]
      /\ assigned \in [K -> Nat]
  <2>1. N > 0 /\ m_next \in 0 .. N - 1 /\ assigned \in [K -> Nat]
    BY DEF IInv, TypeOK, GetNextLoop
  <2> QED
    BY <2>1 DEF GetNextLoop, NextIndex
<1>2. CASE m_next + 1 >= N
  <2>1. rounds + 1 \in Nat /\ \A k \in K :
          assigned'[k] = IF k <= m_next' THEN (rounds + 1) + 1 ELSE rounds + 1
    BY <1>1, <1>2
  <2> QED
    BY <2>1 DEF Rounds
<1>3. CASE m_next + 1 < N
  <2>1. \A k \in K : assigned'[k] = IF k <= m_next' THEN rounds + 1 ELSE rounds
    BY <1>1, <1>3
  <2> QED
    BY <2>1 DEF Rounds
<1> QED
  BY <1>1, <1>2, <1>3

(* The owner's steps keep types, handshake and rounds, ... *)
LEMMA OwnerKeeps ==
  ASSUME IInv, Start \/ OwnerStep \/ SpuriousWakeup \/ GetNextLoop \/ Destroy
  PROVE  TypeOK' /\ Handshake' /\ Rounds'
<1> USE DEF OwnerPc, Starting, Published
<1>1. TypeOK'
  <2> USE DEF IInv, TypeOK, Handshake, ownerVars, poolVars, startVars, threadVars
  <2>1. CASE Start
    BY <2>1 DEF Start
  <2>2. CASE CreateThread
    BY <2>2 DEF CreateThread, ThreadPc
  <2>3. CASE LockMutex
    BY <2>3 DEF LockMutex
  <2>4. CASE FindsNoLoop \/ WaitForLoop
    BY <2>4 DEF FindsNoLoop, WaitForLoop
  <2>5. CASE LoopStarted
    BY <2>5 DEF LoopStarted
  <2>6. CASE Notified \/ SpuriousWakeup
    BY <2>6 DEF Notified, SpuriousWakeup
  <2>7. CASE UserWakesLoop \/ DestructorWakesLoop
    BY <2>7 DEF UserWakesLoop, DestructorWakesLoop, WriteEventfd
  <2>8. CASE DestructorQuits
    BY <2>8 DEF DestructorQuits, StoreQuit
  <2>9. CASE Join
    BY <2>9 DEF Join
  <2>10. CASE GetNextLoop
    BY <2>10 DEF GetNextLoop, NextIndex
  <2>11. CASE Destroy
    BY <2>11 DEF Destroy
  <2> QED
    BY <2>1, <2>2, <2>3, <2>4, <2>5, <2>6, <2>7, <2>8, <2>9, <2>10, <2>11 DEF OwnerStep
<1>2. Handshake'
  <2> USE DEF IInv, TypeOK, Handshake, FirstMissing, FirstUnseen,
              ownerVars, poolVars, startVars, threadVars
  <2>1. CASE Start
    BY <2>1 DEF Start
  <2>2. CASE CreateThread
    BY <2>2 DEF CreateThread
  <2>3. CASE LockMutex
    BY <2>3 DEF LockMutex
  <2>4. CASE FindsNoLoop \/ WaitForLoop
    BY <2>4 DEF FindsNoLoop, WaitForLoop
  <2>5. CASE LoopStarted
    BY <2>5 DEF LoopStarted
  <2>6. CASE Notified \/ SpuriousWakeup
    BY <2>6 DEF Notified, SpuriousWakeup
  <2>7. CASE UserWakesLoop \/ DestructorWakesLoop
    BY <2>7 DEF UserWakesLoop, DestructorWakesLoop
  <2>8. CASE DestructorQuits
    BY <2>8 DEF DestructorQuits
  <2>9. CASE Join
    BY <2>9 DEF Join
  <2>10. CASE GetNextLoop
    BY <2>10 DEF GetNextLoop
  <2>11. CASE Destroy
    BY <2>11 DEF Destroy
  <2> QED
    BY <2>1, <2>2, <2>3, <2>4, <2>5, <2>6, <2>7, <2>8, <2>9, <2>10, <2>11 DEF OwnerStep
<1>3. Rounds'
  <2>1. CASE GetNextLoop
    BY <2>1, GetNextLoopRounds
  <2>2. CASE Start \/ OwnerStep \/ SpuriousWakeup \/ Destroy
    <3>1. UNCHANGED poolVars
      BY <2>2
         DEF poolVars, OwnerStep, Start, SpuriousWakeup, Destroy, CreateThread, LockMutex,
             FindsNoLoop, WaitForLoop, LoopStarted, Notified, UserWakesLoop, DestructorQuits,
             DestructorWakesLoop, Join
    <3> QED
      BY <3>1, RoundsKept DEF IInv
  <2> QED
    BY <2>1, <2>2
<1> QED
  BY <1>1, <1>2, <1>3

(* ... and so do the steps of a thread, and a quit() by the user. *)
LEMMA ThreadKeeps ==
  ASSUME IInv, NEW k \in K, ThreadStep(k) \/ ThreadPolls(k) \/ UserQuits(k)
  PROVE  TypeOK' /\ Handshake' /\ Rounds'
<1> USE DEF OwnerPc, ThreadPc, Starting, Published
<1>1. TypeOK'
  <2> USE DEF IInv, TypeOK, ownerVars, poolVars, startVars, threadVars
  <2>1. CASE ThreadBegins(k)
    BY <2>1 DEF ThreadBegins
  <2>2. CASE ThreadLocks(k)
    BY <2>2 DEF ThreadLocks, TakesMutex
  <2>3. CASE ThreadPublishes(k)
    BY <2>3 DEF ThreadPublishes, AfterNotify
  <2>4. CASE ThreadEntersLoop(k)
    BY <2>4 DEF ThreadEntersLoop
  <2>5. CASE ThreadChecks(k)
    BY <2>5 DEF ThreadChecks
  <2>6. CASE ThreadWakes(k)
    BY <2>6 DEF ThreadWakes
  <2>7. CASE ThreadPolls(k)
    BY <2>7 DEF ThreadPolls
  <2>8. CASE UserQuits(k)
    <3>1. m_bquit' \in [K -> BOOLEAN] /\ dangling' \in BOOLEAN
      BY <2>8 DEF UserQuits, StoreQuit
    <3>2. pc' \in OwnerPc /\ current' \in 0 .. N
      BY <2>8 DEF UserQuits
    <3> QED
      BY <2>8, <3>1, <3>2 DEF UserQuits
  <2> QED
    BY <2>1, <2>2, <2>3, <2>4, <2>5, <2>6, <2>7, <2>8 DEF ThreadStep
<1>2. Handshake'
  <2> USE DEF IInv, TypeOK, Handshake, FirstMissing, FirstUnseen,
              ownerVars, poolVars, startVars, threadVars
  <2>1. CASE ThreadBegins(k)
    BY <2>1 DEF ThreadBegins
  <2>2. CASE ThreadLocks(k)
    BY <2>2 DEF ThreadLocks, TakesMutex
  <2>3. CASE ThreadPublishes(k)
    BY <2>3 DEF ThreadPublishes
  <2>4. CASE ThreadEntersLoop(k)
    BY <2>4 DEF ThreadEntersLoop
  <2>5. CASE ThreadChecks(k)
    BY <2>5 DEF ThreadChecks
  <2>6. CASE ThreadWakes(k)
    BY <2>6 DEF ThreadWakes
  <2>7. CASE ThreadPolls(k)
    BY <2>7 DEF ThreadPolls
  <2>8. CASE UserQuits(k)
    BY <2>8 DEF UserQuits
  <2> QED
    BY <2>1, <2>2, <2>3, <2>4, <2>5, <2>6, <2>7, <2>8 DEF ThreadStep
<1>3. UNCHANGED poolVars
  BY DEF poolVars, ThreadStep, ThreadBegins, ThreadLocks, ThreadPublishes, ThreadEntersLoop,
         ThreadChecks, ThreadWakes, ThreadPolls, UserQuits
<1> QED
  BY <1>1, <1>2, <1>3, RoundsKept DEF IInv

(* Each side takes and releases the mutex itself. *)
LEMMA ExclusionKept ==
  ASSUME IInv, Next
  PROVE  Exclusion'
<1> USE DEF OwnerPc, ThreadPc, Starting, ownerVars, poolVars, startVars, threadVars
<1>1. TypeOK /\ Handshake /\ Exclusion
  BY DEF IInv
<1> USE <1>1 DEF TypeOK, Handshake, Exclusion
<1>2. CASE Start \/ SpuriousWakeup \/ GetNextLoop \/ Destroy
  BY <1>2 DEF Start, SpuriousWakeup, GetNextLoop, Destroy
<1>3. CASE CreateThread
  BY <1>3 DEF CreateThread, FirstMissing
<1>4. CASE LockMutex
  BY <1>4 DEF LockMutex
<1>5. CASE FindsNoLoop \/ WaitForLoop \/ Notified
  BY <1>5 DEF FindsNoLoop, WaitForLoop, Notified
<1>6. CASE LoopStarted
  BY <1>6 DEF LoopStarted
<1>7. CASE UserWakesLoop \/ DestructorQuits \/ DestructorWakesLoop \/ Join
  BY <1>7 DEF UserWakesLoop, DestructorQuits, DestructorWakesLoop, Join
<1>8. ASSUME NEW k \in K, ThreadBegins(k) \/ ThreadEntersLoop(k) \/ ThreadChecks(k)
                          \/ ThreadWakes(k) \/ ThreadPolls(k)
      PROVE  Exclusion'
  BY <1>8 DEF ThreadBegins, ThreadEntersLoop, ThreadChecks, ThreadWakes, ThreadPolls
<1>9. ASSUME NEW k \in K, ThreadLocks(k)  PROVE Exclusion'
  <2>1. /\ threadPc[k] = "lock" /\ threadPc' = [threadPc EXCEPT ![k] = "publish"]
        /\ mutex[k] = "free" /\ mutex' = [mutex EXCEPT ![k] = "thread"]
        /\ UNCHANGED <<pc, current>>
    BY <1>9 DEF ThreadLocks, TakesMutex
  <2> QED
    BY <2>1
<1>10. ASSUME NEW k \in K, ThreadPublishes(k)  PROVE Exclusion'
  BY <1>10 DEF ThreadPublishes
<1>11. ASSUME NEW k \in K, UserQuits(k)  PROVE Exclusion'
  BY <1>11 DEF UserQuits
<1> QED
  BY <1>2, <1>3, <1>4, <1>5, <1>6, <1>7, <1>8, <1>9, <1>10, <1>11
     DEF Next, OwnerStep, ThreadStep

(* No loop is published while the owner goes to sleep, because it has the mutex. *)
LEMMA WaitingKept ==
  ASSUME IInv, Next
  PROVE  Waiting'
<1> USE DEF OwnerPc, ThreadPc, Starting, ownerVars, poolVars, startVars, threadVars, NoLostWakeup
<1>1. TypeOK /\ Handshake /\ Exclusion /\ Waiting
  BY DEF IInv
<1> USE <1>1 DEF TypeOK, Handshake, Waiting
<1>2. CASE pc' \notin {"sleep", "wait"}
  BY <1>2
<1>3. CASE FindsNoLoop
  BY <1>3 DEF FindsNoLoop
<1>4. CASE WaitForLoop
  BY <1>4 DEF WaitForLoop
<1>5. ASSUME NEW k \in K, ThreadPublishes(k)  PROVE Waiting'
  <2>1. ~(pc = "sleep" /\ current = k)
    BY <1>5 DEF ThreadPublishes, Exclusion
  <2>2. /\ UNCHANGED <<pc, current>>
        /\ m_ploop' = [m_ploop EXCEPT ![k] = TRUE]
        /\ notified' = [notified EXCEPT ![k] = (pc = "wait" /\ current = k)]
    BY <1>5 DEF ThreadPublishes, AfterNotify
  <2>3. pc = "sleep" => ~m_ploop'[current]
    BY <2>1, <2>2
  <2>4. ASSUME pc = "wait", m_ploop'[current]  PROVE notified'[current]
    BY <2>2, <2>4, Zenon
  <2> QED
    BY <2>2, <2>3, <2>4
<1>6. CASE UNCHANGED <<pc, current, m_ploop, notified>>
  BY <1>6
<1>7. ASSUME NEW k \in K, ThreadBegins(k) \/ ThreadLocks(k) \/ ThreadEntersLoop(k) \/ ThreadChecks(k)
                          \/ ThreadWakes(k) \/ ThreadPolls(k)
      PROVE  UNCHANGED <<pc, current, m_ploop, notified>>
  BY <1>7
     DEF ThreadBegins, ThreadLocks, ThreadEntersLoop, ThreadChecks, ThreadWakes, ThreadPolls
<1>8. ASSUME \/ Start \/ CreateThread \/ LockMutex \/ LoopStarted \/ Notified \/ SpuriousWakeup
             \/ GetNextLoop \/ UserWakesLoop \/ Destroy \/ DestructorQuits \/ DestructorWakesLoop
             \/ Join \/ \E k \in K : UserQuits(k)
      PROVE  pc' \notin {"sleep", "wait"}
  BY <1>8
     DEF Start, CreateThread, LockMutex, LoopStarted, Notified, SpuriousWakeup, GetNextLoop,
         UserWakesLoop, Destroy, DestructorQuits, DestructorWakesLoop, Join, UserQuits
<1> QED
  BY <1>2, <1>3, <1>4, <1>5, <1>6, <1>7, <1>8 DEF Next, OwnerStep, ThreadStep

(* Once the destructor has stored m_bquit, only loop() resets it, and then only once. *)
LEMMA QuittingKept ==
  ASSUME IInv, Next
  PROVE  Quitting'
<1> USE DEF OwnerPc, ThreadPc, Starting, ownerVars, poolVars, startVars, threadVars, NoLostQuit
<1>1. TypeOK /\ Handshake /\ Quitting
  BY DEF IInv
<1> USE <1>1 DEF TypeOK, Handshake, Quitting
<1>2. CASE CreateThread
  BY <1>2 DEF CreateThread, FirstMissing
<1>3. CASE \/ Start \/ LockMutex \/ FindsNoLoop \/ WaitForLoop \/ LoopStarted \/ Notified
           \/ SpuriousWakeup \/ GetNextLoop \/ Destroy \/ Join
  BY <1>3
     DEF Start, LockMutex, FindsNoLoop, WaitForLoop, LoopStarted, Notified, SpuriousWakeup,
         GetNextLoop, Destroy, Join
<1>4. CASE UserWakesLoop
  BY <1>4 DEF UserWakesLoop
<1>5. CASE DestructorQuits
  BY <1>5 DEF DestructorQuits, StoreQuit
<1>6. CASE DestructorWakesLoop
  BY <1>6 DEF DestructorWakesLoop, WriteEventfd, LoopExists
<1>7. ASSUME NEW k \in K, ThreadBegins(k) \/ ThreadLocks(k) \/ ThreadPublishes(k)
      PROVE  Quitting'
  <2>1. /\ threadPc[k] \in {"init", "lock", "publish"}
        /\ \E next \in {"lock", "publish", "enter"} : threadPc' = [threadPc EXCEPT ![k] = next]
        /\ UNCHANGED <<pc, current, m_bquit, eventfd, forgotten, dangling>>
    BY <1>7 DEF ThreadBegins, ThreadLocks, ThreadPublishes
  <2> QED
    BY <2>1
<1>8. ASSUME NEW k \in K, ThreadEntersLoop(k)  PROVE Quitting'
  BY <1>8 DEF ThreadEntersLoop
<1>9. ASSUME NEW k \in K, ThreadChecks(k)  PROVE Quitting'
  BY <1>9 DEF ThreadChecks
<1>10. ASSUME NEW k \in K, ThreadWakes(k)  PROVE Quitting'
  BY <1>10 DEF ThreadWakes
<1>11. ASSUME NEW k \in K, ThreadPolls(k)  PROVE Quitting'
  BY <1>11 DEF ThreadPolls
<1>12. ASSUME NEW k \in K, UserQuits(k)  PROVE Quitting'
  BY <1>12 DEF UserQuits
<1> QED
  BY <1>2, <1>3, <1>4, <1>5, <1>6, <1>7, <1>8, <1>9, <1>10, <1>11, <1>12
     DEF Next, OwnerStep, ThreadStep

(* The destructor goes on only when a thread is over, and a thread does not come back. *)
LEMMA JoinedKept ==
  ASSUME IInv, Next
  PROVE  Joined'
<1> USE DEF OwnerPc, ThreadPc, Starting, ownerVars, poolVars, startVars, threadVars
<1>1. TypeOK /\ Handshake /\ Joined
  BY DEF IInv
<1> USE <1>1 DEF TypeOK, Handshake, Joined
<1>2. CASE CreateThread
  BY <1>2 DEF CreateThread
<1>3. CASE \/ Start \/ LockMutex \/ FindsNoLoop \/ WaitForLoop \/ LoopStarted \/ Notified
           \/ SpuriousWakeup \/ GetNextLoop \/ UserWakesLoop \/ Destroy \/ DestructorQuits
           \/ DestructorWakesLoop
  BY <1>3
     DEF Start, LockMutex, FindsNoLoop, WaitForLoop, LoopStarted, Notified, SpuriousWakeup,
         GetNextLoop, UserWakesLoop, Destroy, DestructorQuits, DestructorWakesLoop
<1>4. CASE Join
  BY <1>4 DEF Join
<1>5. ASSUME NEW k \in K, ThreadStep(k) \/ ThreadPolls(k)  PROVE Joined'
  BY <1>5
     DEF ThreadStep, ThreadBegins, ThreadLocks, ThreadPublishes, ThreadEntersLoop, ThreadChecks,
         ThreadWakes, ThreadPolls
<1>6. ASSUME NEW k \in K, UserQuits(k)  PROVE Joined'
  BY <1>6 DEF UserQuits
<1> QED
  BY <1>2, <1>3, <1>4, <1>5, <1>6 DEF Next, OwnerStep

LEMMA NextIInv == IInv /\ [Next]_vars => IInv'
<1> SUFFICES ASSUME IInv, [Next]_vars  PROVE IInv'
  OBVIOUS
<1>1. CASE UNCHANGED vars
  BY <1>1 DEF vars, ownerVars, poolVars, startVars, threadVars, IInv, TypeOK, Handshake, Rounds,
              FirstMissing, FirstUnseen, Exclusion, Waiting, Quitting, Joined, NoLostWakeup,
              NoLostQuit
<1>2. CASE Next
  <2>1. TypeOK' /\ Handshake' /\ Rounds'
    <3>1. CASE Start \/ OwnerStep \/ SpuriousWakeup \/ GetNextLoop \/ Destroy
      BY <3>1, OwnerKeeps
    <3>2. ASSUME NEW k \in K, ThreadStep(k) \/ ThreadPolls(k) \/ UserQuits(k)
          PROVE  TypeOK' /\ Handshake' /\ Rounds'
      BY <3>2, ThreadKeeps
    <3> QED
      BY <1>2, <3>1, <3>2 DEF Next
  <2> QED
    BY <1>2, <2>1, ExclusionKept, WaitingKept, QuittingKept, JoinedKept DEF IInv
<1> QED
  BY <1>1, <1>2

LEMMA InvariantHolds == Spec => []IInv
BY InitIInv, NextIInv, PTL DEF Spec

(* Types of the pool's variables; m_next stays an index of m_loops. *)
THEOREM TypeCorrect == Spec => []TypeOK
<1>1. IInv => TypeOK
  BY DEF IInv
<1> QED
  BY <1>1, InvariantHolds, PTL

(* start() returns with every loop constructed and published. *)
THEOREM LoopsStartedAlways == Spec => []LoopsStarted
<1>1. IInv => LoopsStarted
  BY DEF IInv, Handshake, FirstUnseen, Starting, Published, LoopsStarted
<1> QED
  BY <1>1, InvariantHolds, PTL

(* getNextLoop is never more than one call ahead with one loop than with another. *)
THEOREM RoundRobinAlways == Spec => []RoundRobin
<1>1. ASSUME IInv  PROVE RoundRobin
  <2> PICK rounds \in Nat :
        \A k \in K : assigned[k] = IF k <= m_next THEN rounds + 1 ELSE rounds
    BY <1>1 DEF IInv, Rounds
  <2>1. \A k \in K : assigned[k] \in {rounds, rounds + 1}
    OBVIOUS
  <2> QED
    BY <2>1 DEF RoundRobin
<1> QED
  BY <1>1, InvariantHolds, PTL

(* Nothing comes between the owner's look at m_ploop and its wait. *)
THEOREM NoLostWakeupAlways == Spec => []NoLostWakeup
<1>1. IInv => NoLostWakeup
  BY DEF IInv, Waiting
<1> QED
  BY <1>1, InvariantHolds, PTL

(* The destructor's quit() reaches a loop that has begun, wherever it comes: a thread
   that polls while it is joined finds the eventfd readable, unless loop() forgot the
   quit. *)
THEOREM NoLostQuitAlways == Spec => []NoLostQuit
<1>1. IInv => NoLostQuit
  BY DEF IInv, Quitting
<1> QED
  BY <1>1, InvariantHolds, PTL

-----------------------------------------------------------------------------
(* The pool is a LoopPool. *)

LEMMA PoolStutters ==
  ASSUME Phase' = Phase, \A k \in K : LoopState(k)' = LoopState(k), UNCHANGED assigned
  PROVE  UNCHANGED Pool!poolVars
BY DEF Pool!poolVars

LEMMA PoolMoves ==
  ASSUME NEW k \in K, Phase' = Phase, UNCHANGED assigned,
         \A j \in K : j # k => LoopState(j)' = LoopState(j)
  PROVE  /\ Phase = "starting" /\ LoopState(k) = "none" /\ LoopState(k)' = "running"
              => Pool!Begin(k)
         /\ LoopState(k) = "running" /\ LoopState(k)' = "over" => Pool!End(k)
BY DEF Pool!Begin, Pool!End

(* What the owner does to the pool's phase. *)
LEMMA OwnerPhases ==
  ASSUME IInv, Start \/ OwnerStep \/ SpuriousWakeup \/ GetNextLoop \/ Destroy
  PROVE  [Pool!Next]_Pool!poolVars
<1> USE DEF OwnerPc, ThreadPc, Starting
<1>1. TypeOK /\ Handshake /\ Rounds /\ Joined
  BY DEF IInv
<1>2. ASSUME UNCHANGED <<m_ploop, threadPc>>  PROVE \A k \in K : LoopState(k)' = LoopState(k)
  BY <1>2 DEF LoopState
<1>3. CASE CreateThread
  <2>1. /\ pc = "create" /\ pc' = "lock" /\ UNCHANGED <<m_ploop, assigned>>
        /\ threadPc' = [threadPc EXCEPT ![current] = "init"]
        /\ current \in K /\ threadPc[current] = "none"
    BY <1>1, <1>3 DEF CreateThread, Handshake, FirstMissing, poolVars, startVars
  <2>2. \A k \in K : LoopState(k)' = LoopState(k)
    BY <1>1, <2>1 DEF LoopState, TypeOK
  <2>3. Phase' = Phase
    BY <2>1 DEF Phase
  <2> QED
    BY <2>1, <2>2, <2>3, PoolStutters
<1>4. CASE GetNextLoop
  <2>1. /\ pc = "serving" /\ m_next + 1 \in K
        /\ assigned' = [assigned EXCEPT ![m_next + 1] = @ + 1]
        /\ UNCHANGED <<pc, m_ploop, threadPc>>
    <3>1. m_next + 1 \in K
      BY <1>1, <1>4 DEF GetNextLoop, TypeOK
    <3>2. /\ pc = "serving" /\ UNCHANGED <<pc, m_ploop, threadPc>>
          /\ assigned' = IF m_next + 1 \in K THEN [assigned EXCEPT ![m_next + 1] = @ + 1]
                                             ELSE assigned
      BY <1>4 DEF GetNextLoop, ownerVars, startVars, threadVars
    <3> QED
      BY <3>1, <3>2
  <2>2. \A j \in K : assigned[m_next + 1] <= assigned[j]
    <3>1. PICK rounds \in Nat :
            \A k \in K : assigned[k] = IF k <= m_next THEN rounds + 1 ELSE rounds
      BY <1>1 DEF Rounds
    <3> QED
      BY <1>1, <2>1, <3>1 DEF TypeOK
  <2>3. Phase = "serving" /\ Phase' = Phase
    BY <2>1 DEF Phase
  <2>4. [k \in K |-> LoopState(k)]' = [k \in K |-> LoopState(k)]
    BY <1>2, <2>1
  <2>5. Pool!Use(m_next + 1)
    BY <2>1, <2>2, <2>3, <2>4 DEF Pool!Use, Pool!Loops
  <2> QED
    BY <2>1, <2>5 DEF Pool!Next, Pool!Loops
<1>5. ASSUME UNCHANGED <<m_ploop, threadPc, assigned>>, Phase' = Phase
      PROVE  [Pool!Next]_Pool!poolVars
  BY <1>2, <1>5, PoolStutters
<1>6. CASE \/ LockMutex \/ FindsNoLoop \/ WaitForLoop \/ Notified \/ SpuriousWakeup
           \/ UserWakesLoop \/ DestructorQuits \/ DestructorWakesLoop
  <2>1. /\ UNCHANGED <<m_ploop, threadPc, assigned>>
        /\ \/ {pc, pc'} \subseteq {"new", "create", "lock", "test", "sleep", "wait", "relock"}
           \/ {pc, pc'} \subseteq {"serving", "wakeup"}
           \/ {pc, pc'} \subseteq {"quit", "quitWakeup", "join"}
    BY <1>6
       DEF LockMutex, FindsNoLoop, WaitForLoop, Notified, SpuriousWakeup, UserWakesLoop,
           DestructorQuits, DestructorWakesLoop, poolVars, startVars, threadVars
  <2>2. Phase' = Phase
    BY <2>1 DEF Phase
  <2> QED
    BY <1>5, <2>1, <2>2
<1>7. CASE Start \/ LoopStarted \/ Destroy \/ Join
  <2>1. UNCHANGED <<m_ploop, threadPc, assigned>>
    BY <1>7 DEF Start, LoopStarted, Destroy, Join, poolVars, startVars, threadVars
  <2>2. /\ [k \in K |-> LoopState(k)]' = [k \in K |-> LoopState(k)]
        /\ \A k \in K : [j \in K |-> LoopState(j)][k] = LoopState(k)
    BY <1>2, <2>1
  <2>3. CASE Start
    <3>1. pc = "new" /\ pc' = IF N = 0 THEN "serving" ELSE "create"
      BY <2>3 DEF Start
    <3>2. CASE N = 0
      <4>1. Phase = "starting" /\ Phase' = "serving" /\ K = {}
        BY <3>1, <3>2 DEF Phase
      <4>2. Pool!Serve
        BY <2>1, <2>2, <4>1 DEF Pool!Serve, Pool!Loops
      <4> QED
        BY <4>2 DEF Pool!Next
    <3>3. CASE N # 0
      <4>1. Phase' = Phase
        BY <3>1, <3>3 DEF Phase
      <4> QED
        BY <1>5, <2>1, <4>1
    <3> QED
      BY <3>2, <3>3
  <2>4. CASE LoopStarted
    <3>1. /\ pc = "test" /\ m_ploop[current] /\ current \in K
          /\ pc' = IF current < N THEN "create" ELSE "serving"
      BY <1>1, <2>4 DEF LoopStarted, Handshake
    <3>2. CASE current < N
      <4>1. Phase' = Phase
        BY <3>1, <3>2 DEF Phase
      <4> QED
        BY <1>5, <2>1, <4>1
    <3>3. CASE ~(current < N)
      <4>1. Phase = "starting" /\ Phase' = "serving"
        BY <3>1, <3>3 DEF Phase
      <4>2. \A k \in K : m_ploop[k]
        BY <1>1, <3>1, <3>3 DEF Handshake, FirstUnseen
      <4>3. \A k \in K : LoopState(k) # "none"
        BY <4>2 DEF LoopState
      <4>4. Pool!Serve
        BY <2>1, <2>2, <4>1, <4>3 DEF Pool!Serve, Pool!Loops
      <4> QED
        BY <4>4 DEF Pool!Next
    <3> QED
      BY <3>2, <3>3
  <2>5. CASE Destroy
    <3>1. Phase = "serving" /\ Phase' = IF N = 0 THEN "closed" ELSE "closing"
      BY <2>5 DEF Destroy, Phase
    <3>2. Pool!Close
      BY <2>1, <2>2, <3>1 DEF Pool!Close
    <3> QED
      BY <3>2 DEF Pool!Next
  <2>6. CASE Join
    <3>1. /\ pc = "join" /\ threadPc[current] = "exited" /\ current \in K
          /\ pc' = IF current < N THEN "quit" ELSE "done"
      BY <1>1, <2>6 DEF Join, Handshake
    <3>2. CASE current < N
      <4>1. Phase' = Phase
        BY <3>1, <3>2 DEF Phase
      <4> QED
        BY <1>5, <2>1, <4>1
    <3>3. CASE ~(current < N)
      <4>1. Phase = "closing" /\ Phase' = "closed"
        BY <3>1, <3>3 DEF Phase
      <4>2. \A k \in K : threadPc[k] = "exited" /\ m_ploop[k]
        BY <1>1, <3>1, <3>3 DEF Joined, Handshake, Published
      <4>3. \A k \in K : LoopState(k) = "over"
        BY <4>2 DEF LoopState
      <4>4. Pool!Closed
        BY <2>1, <2>2, <4>1, <4>3 DEF Pool!Closed, Pool!Loops
      <4> QED
        BY <4>4 DEF Pool!Next
    <3> QED
      BY <3>2, <3>3
  <2> QED
    BY <1>7, <2>3, <2>4, <2>5, <2>6
<1> QED
  BY <1>3, <1>4, <1>6, <1>7 DEF OwnerStep

(* What a thread does to its loop. *)
LEMMA ThreadLoops ==
  ASSUME IInv, NEW k \in K, ThreadStep(k) \/ ThreadPolls(k) \/ UserQuits(k)
  PROVE  [Pool!Next]_Pool!poolVars
<1> USE DEF OwnerPc, ThreadPc, Published
<1>1. TypeOK /\ Handshake
  BY DEF IInv
<1>2. Phase' = Phase /\ UNCHANGED assigned
  <2>1. UNCHANGED assigned /\ (pc' = pc \/ (pc = "serving" /\ pc' = "wakeup"))
    BY DEF ThreadStep, ThreadBegins, ThreadLocks, ThreadPublishes, ThreadEntersLoop, ThreadChecks,
           ThreadWakes, ThreadPolls, UserQuits, ownerVars, poolVars
  <2> QED
    BY <2>1 DEF Phase
<1>3. CASE \/ ThreadBegins(k) \/ ThreadLocks(k) \/ ThreadEntersLoop(k) \/ ThreadWakes(k)
           \/ ThreadPolls(k) \/ UserQuits(k) \/ (ThreadChecks(k) /\ ~m_bquit[k])
  <2>1. /\ UNCHANGED m_ploop /\ \A j \in K : j # k => threadPc'[j] = threadPc[j]
        /\ threadPc[k] = "exited" <=> threadPc'[k] = "exited"
    BY <1>1, <1>3
       DEF TypeOK, ThreadBegins, ThreadLocks, ThreadEntersLoop, ThreadWakes, ThreadPolls, UserQuits,
           ThreadChecks, startVars
  <2>2. \A j \in K : LoopState(j)' = LoopState(j)
    BY <2>1 DEF LoopState
  <2> QED
    BY <1>2, <2>2, PoolStutters
<1>4. CASE ThreadPublishes(k)
  <2>1. /\ threadPc[k] = "publish" /\ threadPc' = [threadPc EXCEPT ![k] = "enter"]
        /\ ~m_ploop[k] /\ m_ploop' = [m_ploop EXCEPT ![k] = TRUE]
    BY <1>1, <1>4 DEF ThreadPublishes, Handshake
  <2>2. LoopState(k) = "none" /\ LoopState(k)' = "running"
    BY <1>1, <2>1 DEF LoopState, TypeOK
  <2>3. \A j \in K : j # k => LoopState(j)' = LoopState(j)
    BY <1>1, <2>1 DEF LoopState, TypeOK
  <2>4. Phase = "starting"
    BY <1>1, <2>1 DEF Handshake, FirstUnseen, Starting, Phase, TypeOK
  <2>5. Pool!Begin(k)
    BY <1>2, <2>2, <2>3, <2>4, PoolMoves
  <2> QED
    BY <2>5 DEF Pool!Next, Pool!Loops
<1>5. CASE ThreadChecks(k) /\ m_bquit[k]
  <2>1. /\ threadPc[k] = "check" /\ threadPc' = [threadPc EXCEPT ![k] = "exited"]
        /\ m_ploop[k] /\ UNCHANGED m_ploop
    BY <1>1, <1>5 DEF ThreadChecks, Handshake, startVars
  <2>2. LoopState(k) = "running" /\ LoopState(k)' = "over"
    BY <1>1, <2>1 DEF LoopState, TypeOK
  <2>3. \A j \in K : j # k => LoopState(j)' = LoopState(j)
    BY <1>1, <2>1 DEF LoopState, TypeOK
  <2>4. Pool!End(k)
    BY <1>2, <2>2, <2>3, PoolMoves
  <2> QED
    BY <2>4 DEF Pool!Next, Pool!Loops
<1> QED
  BY <1>3, <1>4, <1>5 DEF ThreadStep

(* For any number of threads: the pool serves from when all loops are published, hands
   out one that was handed out least, and is closed when every thread has left its
   loop, whatever spurious wakeups, quits and timeouts come between. *)
THEOREM LoopPoolImplemented == Spec => ImplementsLoopPool
<1>1. Init => Pool!Init
  BY DEF Init, Pool!Init, Pool!Loops, Phase, LoopState
<1>2. IInv /\ [Next]_vars => [Pool!Next]_Pool!poolVars
  <2> SUFFICES ASSUME IInv, [Next]_vars  PROVE [Pool!Next]_Pool!poolVars
    OBVIOUS
  <2>1. CASE UNCHANGED vars
    BY <2>1, PoolStutters
       DEF vars, ownerVars, poolVars, startVars, threadVars, Phase, LoopState
  <2>2. CASE Next
    BY <2>2, OwnerPhases, ThreadLoops DEF Next
  <2> QED
    BY <2>1, <2>2
<1> QED
  BY <1>1, <1>2, InvariantHolds, PTL DEF Spec, ImplementsLoopPool, Pool!Spec
=============================================================================
