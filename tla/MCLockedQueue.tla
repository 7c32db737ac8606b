--------------------------- MODULE MCLockedQueue ---------------------------
(* LockedQueue on a small instance, for TLC. *)
EXTENDS LockedQueue, TLC

(* Threads, cells and values are interchangeable: sound for the safety
   properties of the run, none of which is a liveness property. *)
Symmetry == Permutations(Thread) \cup Permutations(Node) \cup Permutations(Value)
=============================================================================
