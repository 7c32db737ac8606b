--------------------------- MODULE MCCountedServer ---------------------------
(* CountedServer on small instances, for TLC. *)
EXTENDS CountedServer

CONSTANT c1

NoConn == {}
OneConn == {c1}
=============================================================================
