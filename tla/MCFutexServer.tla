---------------------------- MODULE MCFutexServer ----------------------------
(* FutexServer on a small instance, for TLC. *)
EXTENDS FutexServer

CONSTANT c1

ThreadSet == Worker \cup {Main}
ValueSet == Conn \cup {POISON}
OneConn == {c1}
=============================================================================
