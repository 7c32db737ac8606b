--------------------------- MODULE MCLockedServer ---------------------------
(* LockedServer on small instances, for TLC. *)
EXTENDS LockedServer

CONSTANT c1

ThreadSet == Worker \cup {Main}
ValueSet == Conn \cup {POISON}
NoConn == {}
OneConn == {c1}
=============================================================================
