---------------------------- MODULE AtomicObject ----------------------------
(***************************************************************************)
(* What the README of synch1.0.1 says every program of the library         *)
(* simulates: an atomic object. A thread asks for an operation, the        *)
(* operation takes effect once, on the object alone, and the thread gets   *)
(* its result. Algorithms that combine apply a batch of operations in one  *)
(* step, one after the other.                                              *)
(***************************************************************************)
EXTENDS Integers, Sequences, FiniteSets
CONSTANT Thread
VARIABLES obj,  \* Count(n), or the sequence a stack or a queue holds
          call  \* per thread: [st, op, arg, ret], st is idle, asked or done

\* Results and arguments are tagged tuples, so that any two can be compared.
Ok       == <<"ok">>
Empty    == <<"empty">>
Count(n) == <<"count", n>>
Idle  == [st |-> "idle", op |-> "none", arg |-> Ok, ret |-> Ok]

\* The serial object: <<next state, result>> of operation op with argument v.
\* The product fetchAndMultiply computes is abstracted to the number of
\* operations so far: every application changes the object, no two alike.
Serial(o, op, v) ==
  CASE op = "fam"                    -> <<Count(o[2] + 1), Count(o[2] + 1)>>
    [] op = "push"                   -> <<<<v>> \o o, Ok>>
    [] op = "enq"                    -> <<Append(o, v), Ok>>
    [] op \in {"pop", "deq"} /\ o = <<>>  -> <<o, Empty>>
    [] op \in {"pop", "deq"} /\ o # <<>>  -> <<Tail(o), Head(o)>>

\* The object and the calls after the operations of the threads in s.
After(s) ==
  LET upTo[i \in 0 .. Len(s)] ==
        IF i = 0 THEN [obj |-> obj, call |-> call]
        ELSE LET before == upTo[i - 1]
                 r == Serial(before.obj, call[s[i]].op, call[s[i]].arg)
             IN  [obj  |-> r[1],
                  call |-> [before.call EXCEPT ![s[i]].st = "done", ![s[i]].ret = r[2]]]
  IN upTo[Len(s)]

\* The orders in which a set of threads can be served.
Orders(S) == {s \in UNION {[1 .. n -> S] : n \in 1 .. Cardinality(S)} :
                \A i, j \in DOMAIN s : s[i] = s[j] => i = j}

AtomicInit == /\ obj \in {Count(0), <<>>}
              /\ call = [t \in Thread |-> Idle]

Ask(t) == /\ call[t].st = "idle"
          /\ call'[t].st = "asked"
          /\ call' = [call EXCEPT ![t] = call'[t]]
          /\ UNCHANGED obj

Apply(s) == /\ \A i \in DOMAIN s : call[s[i]].st = "asked"
            /\ obj' = After(s).obj
            /\ call' = After(s).call

Answer(t) == /\ call[t].st = "done"
             /\ call' = [call EXCEPT ![t] = Idle]
             /\ UNCHANGED obj

AtomicNext == \/ \E t \in Thread : Ask(t) \/ Answer(t)
              \/ \E s \in Orders({t \in Thread : call[t].st = "asked"}) : Apply(s)

AtomicSpec == AtomicInit /\ [][AtomicNext]_<<obj, call>>
=============================================================================
