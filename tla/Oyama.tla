------------------------------- MODULE Oyama -------------------------------
(***************************************************************************)
(* oyama.h under oyamauobject.c: a thread announces its request on a list, *)
(* then takes the lock and serves the list until it finds it empty; a      *)
(* thread that finds the lock taken waits for its request to be completed. *)
(***************************************************************************)
EXTENDS Synch

OyamaInit(n) == /\ SynchInit("oyamauobject", n)
                /\ loc  = [t \in Thread |-> [p |-> Null, next |-> Null]]
                /\ mem  = [t \in Thread |-> [next |-> Null, arg_ret |-> <<"garbage">>, pid |-> t,
                                             completed |-> FALSE]]
                /\ root = [lock |-> "UNLOCKED", tail |-> Null]

Announce(t) ==
  /\ Call(t, "insert")
  /\ mem' = [mem EXCEPT ![t] = [@ EXCEPT !.arg_ret = call'[t].arg, !.completed = FALSE, !.next = root.tail]]
  /\ UNCHANGED <<loc, root>>

Insert(t) ==
  /\ root.tail = mem[t].next
  /\ Go(t, "insert", "try")
  /\ root' = [root EXCEPT !.tail = t]
  /\ UNCHANGED <<loc, mem, calls>>
InsertAgain(t) ==
  /\ pc[t] = "insert"
  /\ root.tail # mem[t].next
  /\ mem' = [mem EXCEPT ![t].next = root.tail]
  /\ UNCHANGED <<pc, loc, root, calls>>

\* Take the lock or, if it is taken, wait.
TryLock(t) ==
  /\ Go(t, "try", IF root.lock = "UNLOCKED" THEN "sweep" ELSE "wait")
  /\ root' = [root EXCEPT !.lock = "LOCKED"]
  /\ UNCHANGED <<loc, mem, calls>>

\* Take the whole list; an empty one ends the round.
Sweep(t) ==
  /\ Go(t, "sweep", IF root.tail = Null THEN "unlock" ELSE "help")
  /\ loc'  = [loc EXCEPT ![t].p = root.tail]
  /\ root' = [root EXCEPT !.tail = Null]
  /\ UNCHANGED <<mem, calls>>

Help(t) ==
  LET p == loc[t].p
  IN  /\ Go(t, "help", "complete")
      /\ loc' = [loc EXCEPT ![t].next = mem[p].next]
      /\ Perform(call[t].op, mem[p].pid, mem[p].arg_ret)
      /\ mem' = [mem EXCEPT ![p].arg_ret = Outcome(call[t].op, mem[p].pid, @)]
      /\ UNCHANGED root

\* From here on the node is its owner's again.
Complete(t) ==
  /\ Go(t, "complete", IF loc[t].next = Null THEN "sweep" ELSE "help")
  /\ mem' = [mem EXCEPT ![loc[t].p].completed = TRUE]
  /\ loc' = [loc EXCEPT ![t] = [p |-> loc[t].next, next |-> Null]]
  /\ UNCHANGED <<root, calls>>

Unlock(t) ==
  /\ Go(t, "unlock", "return")
  /\ root' = [root EXCEPT !.lock = "UNLOCKED"]
  /\ UNCHANGED <<loc, mem, calls>>

\* The wait looks at completed only: the test of the lock is commented out.
Wait(t) ==
  /\ Go(t, "wait", "return")
  /\ mem[t].completed
  /\ UNCHANGED <<loc, mem, root, calls>>

ReturnResult(t) == Return(t, "return", mem[t].arg_ret) /\ UNCHANGED <<loc, mem, root>>

OyamaStep(t) == \/ Announce(t) \/ Insert(t) \/ InsertAgain(t) \/ TryLock(t) \/ Sweep(t) \/ Help(t)
                \/ Complete(t) \/ Unlock(t) \/ Wait(t) \/ ReturnResult(t)
=============================================================================
