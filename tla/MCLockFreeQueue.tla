-------------------------- MODULE MCLockFreeQueue --------------------------
(* Two producers and two consumers on a small ring. *)
EXTENDS LockFreeQueue, TLC

MCSymmetry == Permutations(Producers) \cup Permutations(Consumers) \cup Permutations(Values)
============================================================================
