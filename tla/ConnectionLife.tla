---------------------------- MODULE ConnectionLife ----------------------------
(* What the life of a connection is to its user: it is accepted, called back once when
   it is up, once when it is down and once more when it is about to go; then it is out
   of the poller, and destroyed before its address serves the next one.  When the loop
   that owns the connections is over, they are destroyed as they are, and none comes
   any more. *)
CONSTANT Conns

VARIABLES
  stage,               \* per address: how far its connection has come
  over                 \* the loop has ended

lifeVars == <<stage, over>>

(* "up", "down" and "destroyed" are the callbacks while they run. *)
Stages == {"none", "accepted", "up", "connected", "down", "disconnected", "destroyed", "removed"}

Init ==
  /\ stage = [c \in Conns |-> "none"]
  /\ over = FALSE

Move(c, from, to) ==
  /\ stage[c] = from
  /\ stage' = [stage EXCEPT ![c] = to]
  /\ UNCHANGED over

Proceed(c) ==
  \/ Move(c, "none", "accepted")
  \/ Move(c, "accepted", "up")
  \/ Move(c, "up", "connected")
  \/ Move(c, "connected", "down")
  \/ Move(c, "down", "disconnected")
  \/ Move(c, "disconnected", "destroyed")
  \/ Move(c, "destroyed", "removed")

Destroy(c) ==
  \/ Move(c, "removed", "none")
  \/ over /\ \E s \in Stages : Move(c, s, "none")

End ==
  /\ over' = TRUE
  /\ UNCHANGED stage

Next == End \/ \E c \in Conns : (~over /\ Proceed(c)) \/ Destroy(c)

Spec == Init /\ [][Next]_lifeVars
=============================================================================
