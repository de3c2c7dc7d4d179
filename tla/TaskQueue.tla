------------------------------ MODULE TaskQueue ------------------------------
(***************************************************************************)
(* What an EventLoop promises to those who hand it functors, with nothing  *)
(* of how it keeps the promise: a queue of tasks and the order they ran    *)
(* in.  A task is one call of runInLoop or queueInLoop.  EventLoop.tla     *)
(* implements this module.                                                 *)
(***************************************************************************)
EXTENDS Sequences

CONSTANT Tasks        \* the functors ever handed to the loop

VARIABLES submitted,  \* the tasks handed over so far
          todo,       \* those waiting, oldest first
          ran         \* those whose call has begun, in that order

vars == <<submitted, todo, ran>>

Init == submitted = {} /\ todo = <<>> /\ ran = <<>>

(* queueInLoop: the task waits behind those already waiting. *)
Submit(t) ==
  /\ t \in Tasks \ submitted
  /\ submitted' = submitted \cup {t}
  /\ todo' = Append(todo, t)
  /\ UNCHANGED ran

(* runInLoop on the loop's own thread: the task runs at once and overtakes
   whatever waits. *)
RunNow(t) ==
  /\ t \in Tasks \ submitted
  /\ submitted' = submitted \cup {t}
  /\ ran' = Append(ran, t)
  /\ UNCHANGED todo

(* The oldest waiting task runs. *)
RunHead ==
  /\ todo # <<>>
  /\ ran' = Append(ran, Head(todo))
  /\ todo' = Tail(todo)
  /\ UNCHANGED submitted

Next == RunHead \/ \E t \in Tasks : Submit(t) \/ RunNow(t)

Spec == Init /\ [][Next]_vars

-----------------------------------------------------------------------------
TypeOK ==
  /\ submitted \subseteq Tasks
  /\ todo \in Seq(Tasks)
  /\ ran \in Seq(Tasks)

(* Every task handed over is either waiting or has run, and is so at one place
   only: no functor is lost and none runs twice. *)
EachOnce ==
  LET all == ran \o todo
  IN  /\ submitted = {all[i] : i \in DOMAIN all}
      /\ \A i, j \in DOMAIN all : all[i] = all[j] => i = j
=============================================================================
