---------------------------- MODULE TwoLockQueue ---------------------------
(***************************************************************************)
(* ccqueue.c, dsmqueue.c, hqueue.c and locksqueue.c: a linked list with a  *)
(* guard at its front; enqueues exclude each other, dequeues exclude each  *)
(* other, but an enqueue and a dequeue run together. The two locks are     *)
(* what CCSynch, DSMSynch, HSynch and CLHLock are shown to provide: here   *)
(* each is one variable. A node is named by its value.                     *)
(***************************************************************************)
EXTENDS Synch

Guard == <<"guard">>
None  == <<>>
ListNode(n) == {Guard} \cup UNION {{<<"arg", t, k>> : k \in 1 .. n[t]} : t \in Thread}

TwoLockInit(p, n) ==
  /\ SynchInit(p, n)
  /\ loc  = [t \in Thread |-> Object!Ok]
  /\ mem  = [a \in ListNode(n) |-> None]    \* the next field of a node
  /\ root = [first |-> Guard, last |-> Guard, enq |-> Null, deq |-> Null]

QueueCall(t) == Call(t, "lock") /\ UNCHANGED <<loc, mem, root>>

\* call[t].op names the lock: enqueue_lock or dequeue_lock.
QueueLock(t) ==
  /\ Go(t, "lock", IF call[t].op = "enq" THEN "append" ELSE "take")
  /\ root[call[t].op] = Null
  /\ root' = [root EXCEPT ![call[t].op] = t]
  /\ UNCHANGED <<loc, mem, calls>>

\* last->next = node: a dequeue sees it before last = node.
QueueLink(t) ==
  /\ Go(t, "append", "swing")
  /\ mem' = [mem EXCEPT ![root.last] = call[t].arg]
  /\ Perform("enq", t, call[t].arg)
  /\ UNCHANGED <<loc, root>>
QueueSwing(t) ==
  /\ Go(t, "swing", "unlock")
  /\ root' = [root EXCEPT !.last = call[t].arg]
  /\ loc'  = [loc EXCEPT ![t] = Object!Ok]
  /\ UNCHANGED <<mem, calls>>

\* ccqueue.c and its copies return the value of the node they leave behind,
\* locksqueue.c that of the node they move to.
QueueTake(t) ==
  LET next == mem[root.first]
  IN  /\ Go(t, "take", "unlock")
      /\ Perform("deq", t, call[t].arg)
      /\ root' = [root EXCEPT !.first = IF next = None THEN @ ELSE next]
      /\ loc'  = [loc EXCEPT ![t] = IF next = None THEN Object!Empty
                                      ELSE IF prog = "ccqueue" THEN root.first ELSE next]
      /\ UNCHANGED mem

QueueUnlock(t) ==
  /\ Go(t, "unlock", "return")
  /\ root' = [root EXCEPT ![call[t].op] = Null]
  /\ UNCHANGED <<loc, mem, calls>>

QueueReturn(t) == Return(t, "return", loc[t]) /\ UNCHANGED <<loc, mem, root>>

TwoLockStep(t) == \/ QueueCall(t) \/ QueueLock(t) \/ QueueLink(t) \/ QueueSwing(t)
                  \/ QueueTake(t) \/ QueueUnlock(t) \/ QueueReturn(t)
=============================================================================
