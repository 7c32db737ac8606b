------------------------------ MODULE FifoQueue ------------------------------
(***************************************************************************)
(* What every message queue of the servers promises to the acceptor and to *)
(* the workers: a socket that is put comes out of exactly one get, in the  *)
(* order of the puts.  The locked list (http-server.c), the Michael-Scott  *)
(* list (ms-queue-http-server.c) and the ring list (lcrq.c) are compared   *)
(* with this specification.                                                *)
(*                                                                         *)
(* A put takes effect in one step.  A get takes effect in one step too,    *)
(* and the value it took stays in taken[t] until the call returns it.      *)
(***************************************************************************)
EXTENDS Sequences

CONSTANTS
  Thread,   \* the callers
  Value,    \* what can be put: client sockets and the poison value
  None      \* "this thread holds no value", not itself a value

VARIABLES
  queue,    \* the values put and not yet taken, oldest first
  taken     \* per thread, the value its current get took

vars == <<queue, taken>>

TypeOK ==
  /\ queue \in Seq(Value)
  /\ taken \in [Thread -> Value \cup {None}]

Init ==
  /\ queue = <<>>
  /\ taken = [t \in Thread |-> None]

Put(v) ==
  /\ queue' = Append(queue, v)
  /\ UNCHANGED taken

Get(t) ==
  /\ taken[t] = None
  /\ queue # <<>>
  /\ taken' = [taken EXCEPT ![t] = Head(queue)]
  /\ queue' = Tail(queue)

Return(t) ==
  /\ taken[t] # None
  /\ taken' = [taken EXCEPT ![t] = None]
  /\ UNCHANGED queue

(* Destroying the queue throws away what is still in it. *)
Discard ==
  /\ queue # <<>>
  /\ queue' = Tail(queue)
  /\ UNCHANGED taken

Next ==
  \/ \E v \in Value : Put(v)
  \/ \E t \in Thread : Get(t) \/ Return(t)
  \/ Discard

Spec == Init /\ [][Next]_vars
=============================================================================
