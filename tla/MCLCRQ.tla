------------------------------- MODULE MCLCRQ -------------------------------
(* LCRQ on small instances, for TLC. *)
EXTENDS LCRQ, TLC

(* For the safety run. *)
Symmetry == Permutations(Enqueuer) \cup Permutations(Dequeuer) \cup Permutations(Value)
=============================================================================
