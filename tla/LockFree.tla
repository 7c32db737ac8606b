------------------------------ MODULE LockFree -----------------------------
(***************************************************************************)
(* lfobject.c and lfstack.c: read the object, compute its next state, swap *)
(* it in unless it has changed, else back off and try again. The nodes of  *)
(* lfstack.c are never reused and never change once they are linked, and   *)
(* its values are all different, so that two tops are equal exactly when   *)
(* the stacks under them are: top stands for the whole stack.              *)
(***************************************************************************)
EXTENDS Synch

LockFreeInit(p, n) == /\ SynchInit(p, n)
                      /\ loc  = [t \in Thread |-> [old |-> obj, ret |-> Object!Ok]]
                      /\ mem  = Null
                      /\ root = Null

LfCall(t) == Call(t, "read") /\ UNCHANGED <<loc, mem, root>>

LfRead(t) ==
  /\ ~(call[t].op = "pop" /\ obj = <<>>)
  /\ Go(t, "read", "swap")
  /\ loc' = [loc EXCEPT ![t].old = obj]
  /\ UNCHANGED <<mem, root, calls>>

\* pop finds null: nothing to swap in.
LfPopEmpty(t) ==
  /\ call[t].op = "pop"
  /\ obj = <<>>
  /\ Go(t, "read", "return")
  /\ Perform("pop", t, call[t].arg)
  /\ loc' = [loc EXCEPT ![t].ret = Object!Empty]
  /\ UNCHANGED <<mem, root>>

\* mutant: a store instead of the compare-and-swap
LfStore(t) ==
  LET r == Object!Serial(loc[t].old, call[t].op, call[t].arg)
  IN  /\ Go(t, "swap", "return")
      /\ obj'  = r[1]
      /\ call' = [call EXCEPT ![t].st = "done", ![t].ret = r[2]]
      /\ loc'  = [loc EXCEPT ![t].ret = r[2]]
      /\ UNCHANGED <<mem, root, got, runs>>

\* The compare-and-swap. The result comes from the state that was read.
LfSwap(t) ==
  /\ obj = loc[t].old
  /\ Go(t, "swap", "return")
  /\ Perform(call[t].op, t, call[t].arg)
  /\ loc' = [loc EXCEPT ![t].ret = Object!Serial(loc[t].old, call[t].op, call[t].arg)[2]]
  /\ UNCHANGED <<mem, root>>
LfSwapFails(t) ==
  /\ obj # loc[t].old
  /\ Go(t, "swap", "read")
  /\ UNCHANGED <<loc, mem, root, calls>>

LfReturn(t) == Return(t, "return", loc[t].ret) /\ UNCHANGED <<loc, mem, root>>

LockFreeStep(t) == LfCall(t) \/ LfRead(t) \/ LfPopEmpty(t) \/ LfSwap(t) \/ LfSwapFails(t) \/ LfReturn(t)
=============================================================================
