---------------------------- MODULE OverlapQueue ----------------------------
(***************************************************************************)
(* A first-in first-out queue whose puts take time.  Two puts are ordered  *)
(* only if one returned before the other was called; a get takes a value   *)
(* before which no completed put is left.  A value may be taken before its *)
(* put returns.                                                            *)
(*                                                                         *)
(* FifoQueue says when a put takes effect, in the ring queue that is       *)
(* decided later, by the order in which cells are filled and drained.      *)
(* OverlapQueue leaves it open and promises the callers the same: each     *)
(* value comes out of one get, and callers see the order of the puts.      *)
(***************************************************************************)
EXTENDS FiniteSets

CONSTANTS
  Thread,   \* the threads that get
  Value,    \* the values, each put once
  None      \* "this thread holds no value"

VARIABLES
  put,      \* the values whose put was called
  adding,   \* those of them whose put has not returned, still to be taken
  added,    \* those whose put has returned, still to be taken
  before,   \* pairs of values: the first put returned before the second began
  taken     \* per thread, the value its current get took

vars == <<put, adding, added, before, taken>>

Init ==
  /\ put = {} /\ adding = {} /\ added = {}
  /\ before = {}
  /\ taken = [t \in Thread |-> None]

PutBegins(v) ==
  /\ v \notin put
  /\ put' = put \cup {v}
  /\ adding' = adding \cup {v}
  /\ before' = before \cup (added \X {v})
  /\ UNCHANGED <<added, taken>>

PutReturns(v) ==
  /\ v \in adding
  /\ adding' = adding \ {v}
  /\ added' = added \cup {v}
  /\ UNCHANGED <<put, before, taken>>

Get(t) ==
  /\ taken[t] = None
  /\ \E v \in adding \cup added :
       /\ \A u \in added : <<u, v>> \notin before
       /\ taken' = [taken EXCEPT ![t] = v]
       /\ adding' = adding \ {v}
       /\ added' = added \ {v}
  /\ UNCHANGED <<put, before>>

GetReturns(t) ==
  /\ taken[t] # None
  /\ taken' = [taken EXCEPT ![t] = None]
  /\ UNCHANGED <<put, adding, added, before>>

Next ==
  \/ \E v \in Value : PutBegins(v) \/ PutReturns(v)
  \/ \E t \in Thread : Get(t) \/ GetReturns(t)

Spec == Init /\ [][Next]_vars
=============================================================================
