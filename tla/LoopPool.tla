------------------------------- MODULE LoopPool -------------------------------
(* What a pool of N loops is to its owner: it serves from when all of them run, hands
   out one that was handed out least, and is closed only when all of them are over.  A
   loop may end earlier, by itself. *)
EXTENDS Integers

CONSTANT N

VARIABLES
  phase,               \* "starting", "serving", "closing" or "closed"
  loops,               \* per loop: "none", "running" or "over"
  uses                 \* per loop: how often it was handed out

poolVars == <<phase, loops, uses>>

Loops == 1 .. N

Init ==
  /\ phase = "starting"
  /\ loops = [k \in Loops |-> "none"]
  /\ uses = [k \in Loops |-> 0]

Begin(k) ==
  /\ phase = "starting"
  /\ loops[k] = "none"
  /\ loops' = [loops EXCEPT ![k] = "running"]
  /\ UNCHANGED <<phase, uses>>

End(k) ==
  /\ loops[k] = "running"
  /\ loops' = [loops EXCEPT ![k] = "over"]
  /\ UNCHANGED <<phase, uses>>

Serve ==
  /\ phase = "starting"
  /\ \A k \in Loops : loops[k] # "none"
  /\ phase' = "serving"
  /\ UNCHANGED <<loops, uses>>

Use(k) ==
  /\ phase = "serving"
  /\ \A j \in Loops : uses[k] <= uses[j]
  /\ uses' = [uses EXCEPT ![k] = @ + 1]
  /\ UNCHANGED <<phase, loops>>

(* A pool without loops has nothing to close. *)
Close ==
  /\ phase = "serving"
  /\ phase' = IF N = 0 THEN "closed" ELSE "closing"
  /\ UNCHANGED <<loops, uses>>

Closed ==
  /\ phase = "closing"
  /\ \A k \in Loops : loops[k] = "over"
  /\ phase' = "closed"
  /\ UNCHANGED <<loops, uses>>

Next == Serve \/ Close \/ Closed \/ \E k \in Loops : Begin(k) \/ End(k) \/ Use(k)

Spec == Init /\ [][Next]_poolVars
=============================================================================
