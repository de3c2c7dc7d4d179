---------------------------- MODULE MCEventLoop ----------------------------
(* EventLoop on small sets, with the symmetries that the safety runs may use. *)
EXTENDS EventLoop, TLC

Symmetry == Permutations(Tasks) \cup Permutations(Threads) \cup Permutations(Handlers)
=============================================================================
