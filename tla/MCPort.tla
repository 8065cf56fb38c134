------------------------------- MODULE MCPort -------------------------------
(* Small instances of Port: senders a and b. *)
EXTENDS Port, TLC

Symmetry == Permutations(Senders)
============================================================================
