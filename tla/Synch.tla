------------------------------- MODULE Synch -------------------------------
(***************************************************************************)
(* What the programs of synch1.0.1 share: N_THREADS threads with pids, each *)
(* calling an operation of one shared object a number of times (RUNS), and *)
(* the serial code of that object. The module of an algorithm adds what    *)
(* happens between the call and the return.                                *)
(***************************************************************************)
EXTENDS Integers, Sequences, FiniteSets
CONSTANTS N_THREADS

ASSUME SynchAssumption == N_THREADS \in Nat \ {0}

VARIABLES prog, \* which program runs: the name of its source file
          pc,   \* per thread: the next step, "idle" outside a call
          loc,  \* per thread: its local variables and thread state
          mem,  \* the nodes or records of the algorithm
          root, \* its other shared variables
          obj,  \* the object
          call, \* per thread: the pending operation, as in AtomicObject
          got,  \* per thread: what its last call returned
          runs  \* per thread: calls left

Thread == 0 .. N_THREADS - 1
Null   == -1
shared == <<mem, root>>
calls  == <<obj, call, got, runs>>
vars   == <<prog, pc, loc, mem, root, obj, call, got, runs>>

Object == INSTANCE AtomicObject

\* The stack programs push and pop in turn, the others repeat one operation.
Stacks == {"ccstack", "dsmstack", "hstack", "locksstack", "simstack", "lfstack"}
Queues == {"ccqueue", "locksqueue", "simqueue"}
OpOf(left) == CASE prog \in Stacks -> IF left % 2 = 0 THEN "push" ELSE "pop"
                [] prog \in Queues -> IF left % 2 = 0 THEN "enq" ELSE "deq"
                [] OTHER           -> "fam"

SynchInit(p, n) ==
  /\ prog = p
  /\ pc   = [t \in Thread |-> "idle"]
  /\ obj  = IF p \in Stacks \cup Queues THEN <<>> ELSE Object!Count(0)
  /\ call = [t \in Thread |-> Object!Idle]
  /\ got  = [t \in Thread |-> Object!Ok]
  /\ runs = n

Go(t, from, to) == pc[t] = from /\ pc' = [pc EXCEPT ![t] = to]

\* One round of the loop in Execute: the thread asks for its next operation.
\* An argument names the thread and the round, so no two are alike.
Call(t, to) ==
  /\ Go(t, "idle", to)
  /\ runs[t] > 0
  /\ runs' = [runs EXCEPT ![t] = @ - 1]
  /\ call' = [call EXCEPT ![t] = [Object!Idle EXCEPT !.st = "asked", !.op = OpOf(runs[t]),
                                                     !.arg = <<"arg", t, runs[t]>>]]
  /\ UNCHANGED <<obj, got>>

\* sfunc(v, x): the serial code of op with argument v, for the request of
\* thread x. It changes the object, and call remembers the result that is due.
Perform(op, x, v) ==
  /\ obj'  = Object!Serial(obj, op, v)[1]
  /\ call' = [call EXCEPT ![x].st = "done", ![x].ret = Object!Serial(obj, op, v)[2]]
  /\ UNCHANGED <<got, runs>>

\* What the code computes: what is due, unless the argument is not the one x
\* asked with. pop of locksstack.c reads the value of the node after the top
\* one; after the last one comes the guard.
Outcome(op, x, v) ==
  IF v # call[x].arg THEN <<"stale", v>>
  ELSE IF prog = "locksstack" /\ op = "pop" /\ obj # <<>>
         THEN IF Len(obj) > 1 THEN obj[2] ELSE <<"guard">>
  ELSE Object!Serial(obj, op, v)[2]

\* The call of thread t returns v.
Return(t, from, v) ==
  /\ Go(t, from, "idle")
  /\ got'  = [got EXCEPT ![t] = v]
  /\ call' = [call EXCEPT ![t] = Object!Idle]
  /\ UNCHANGED <<obj, runs>>
=============================================================================
