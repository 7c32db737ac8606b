------------------------------ MODULE CLHLock ------------------------------
(***************************************************************************)
(* clh.h: the queue lock of locksuobject.c and locksstack.c, and the       *)
(* central lock of hsynch.h. A thread swaps its node into Tail and spins   *)
(* on the node it got; to unlock it clears its own node and keeps the      *)
(* other one. The lock is the part root.clh of the shared variables.       *)
(***************************************************************************)
EXTENDS Synch

ClhInit == [Tail   |-> N_THREADS,
            MyNode |-> [t \in Thread |-> t],
            MyPred |-> [t \in Thread |-> Null],
            locked |-> [a \in 0 .. N_THREADS |-> FALSE]]

\* mutant: the node is swapped in with its flag clear
ClhUnflagged(t) == [root.clh EXCEPT !.MyPred[t] = root.clh.Tail, !.Tail = root.clh.MyNode[t]]

\* The lock after thread t has swapped in its node.
ClhQueued(t) == [root.clh EXCEPT !.locked[root.clh.MyNode[t]] = TRUE,
                                 !.MyPred[t] = root.clh.Tail, !.Tail = root.clh.MyNode[t]]
ClhFree(t)   == ~root.clh.locked[root.clh.MyPred[t]]
ClhUnlocked(t) == [root.clh EXCEPT !.locked[root.clh.MyNode[t]] = FALSE,
                                   !.MyNode[t] = root.clh.MyPred[t]]

ClhLock(t, from, to) ==
  /\ Go(t, from, to)
  /\ root' = [root EXCEPT !.clh = ClhQueued(t)]
  /\ UNCHANGED <<loc, mem, calls>>

ClhSpin(t, from, to) ==
  /\ Go(t, from, to)
  /\ ClhFree(t)
  /\ UNCHANGED <<loc, mem, root, calls>>

ClhUnlock(t, from, to) ==
  /\ Go(t, from, to)
  /\ root' = [root EXCEPT !.clh = ClhUnlocked(t)]
  /\ UNCHANGED <<loc, mem, calls>>

-----------------------------------------------------------------------------
\* locksuobject.c and locksstack.c: the serial code between lock and unlock.
\* loc[t] holds the result until the call returns.
LocksInit(p, n) == /\ SynchInit(p, n)
                   /\ loc  = [t \in Thread |-> Object!Ok]
                   /\ mem  = Null
                   /\ root = [clh |-> ClhInit]

LocksCall(t) == Call(t, "lock") /\ UNCHANGED <<loc, mem, root>>

Critical(t) == /\ Go(t, "critical", "unlock")
               /\ Perform(call[t].op, t, call[t].arg)
               /\ loc' = [loc EXCEPT ![t] = Outcome(call[t].op, t, call[t].arg)]
               /\ UNCHANGED <<mem, root>>

LocksReturn(t) == Return(t, "return", loc[t]) /\ UNCHANGED <<loc, mem, root>>

LocksStep(t) == \/ LocksCall(t) \/ ClhLock(t, "lock", "wait") \/ ClhSpin(t, "wait", "critical")
                \/ Critical(t) \/ ClhUnlock(t, "unlock", "return") \/ LocksReturn(t)
=============================================================================
