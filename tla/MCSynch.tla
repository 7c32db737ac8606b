------------------------------ MODULE MCSynch ------------------------------
(* SynchPrograms on small instances, for TLC. *)
EXTENDS SynchPrograms

Everyone == [t \in Thread |-> IF t = 0 THEN 2 ELSE 1]
Twice    == [t \in Thread |-> 2]
Short == [name \in Programs |->
  CASE name = "sim" -> [t \in Thread |-> IF t = 0 THEN 4 ELSE IF t = 1 THEN 2 ELSE 0]
    [] name = "simstack" -> [t \in Thread |-> IF t = 0 THEN 3 ELSE IF t = 1 THEN 2 ELSE 0]
    [] name = "simqueue" -> [t \in Thread |-> IF t = 0 THEN 8 ELSE IF t = 1 THEN 2 ELSE 0]
    [] name \in {"locksstack", "lfstack", "ccqueue", "locksqueue"} -> Twice
    [] OTHER -> Everyone]

\* In simqueue two threads enqueue and dequeue; or one enqueues four times, so
\* that it uses a record of its pool again, beside a thread that dequeues.
Racing == [t \in Thread |-> IF t = 0 THEN 3 ELSE IF t = 1 THEN 2 ELSE 0]
Reuse  == [t \in Thread |-> IF t = 0 THEN 8 ELSE IF t = 1 THEN 1 ELSE 0]
RacingAndReuse == {Racing, Reuse}

\* Values are alike, so it is enough that thread 0 puts the first one.
OneAndBoth == [t \in Enqueuer |-> IF t = 0 THEN {1} ELSE Value]
=============================================================================
