---------------------------- MODULE MCFutexQueue ----------------------------
(* FutexQueue on a small instance, for TLC. *)
EXTENDS FutexQueue, TLC

(* Sound: the runs check safety only. *)
Symmetry == Permutations(Thread) \cup Permutations(Node) \cup Permutations(Value)
=============================================================================
