------------------------------ MODULE CCStack ------------------------------
(***************************************************************************)
(* ccstack.h: CC-Synch with the stack built in. It differs from ccsynch.h  *)
(* in three places: the node is linked before the request is written, the  *)
(* combiner tells a push from a pop by the request, and it reads the next  *)
(* node only after it unlocked this one (two nodes in turn make up for it).*)
(***************************************************************************)
EXTENDS CCSynch

CCStackInit(n) == /\ CCNodes("ccstack", n, [t \in Thread |-> <<2 * t, 2 * t + 1>>], 1)
                  /\ root = [Tail |-> Tails(1)]

\* PUSH is 1, and so is every value pushed, hence every value a pop leaves in
\* arg_ret; a push leaves arg_ret alone, so the node returns PUSH.
ReadsAsPop(request) == request \in {<<"pop">>, Object!Empty, <<"garbage">>}
StackOp(t) == IF ReadsAsPop(mem[loc[t].p].arg_ret) THEN "pop" ELSE "push"
StackHelp(t) ==
  LET p == loc[t].p  x == mem[p].owner
  IN  /\ Go(t, "combine", "release")
      /\ CanHelp(t)
      /\ Perform(StackOp(t), x, call[x].arg)
      /\ mem' = [mem EXCEPT ![p].arg_ret = IF StackOp(t) = "push" THEN @
                                           ELSE Outcome("pop", x, call[x].arg),
                            ![p].completed = TRUE]
      /\ loc' = [loc EXCEPT ![t].counter = @ + 1]
      /\ UNCHANGED root

Unlock(t)  == /\ Go(t, "release", "advance")
              /\ mem' = [mem EXCEPT ![loc[t].p].locked = FALSE]
              /\ UNCHANGED <<loc, root, calls>>
Advance(t) == /\ Go(t, "advance", "combine")
              /\ loc' = [loc EXCEPT ![t].p = mem[@].next]
              /\ UNCHANGED <<mem, root, calls>>

CCStackStep(t) == \/ Announce(t)
                  \/ LinkNode(t, "link1", "link2") \/ WriteRequest(t, "link2", "spin", <<call[t].op>>)
                  \/ Spin(t, "combine") \/ StackHelp(t) \/ Unlock(t) \/ Advance(t)
                  \/ HandOver(t, "return") \/ ReturnResult(t)
=============================================================================
