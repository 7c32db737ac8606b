----------------------------- MODULE MCMSQueue -----------------------------
(* MSQueue on small instances, for TLC. *)
EXTENDS MSQueue, TLC

(* For the safety run. *)
Symmetry ==
  Permutations(Enqueuer) \cup Permutations(Dequeuer) \cup Permutations(Node)
    \cup Permutations(Value)
=============================================================================
