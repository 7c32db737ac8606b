------------------------------ MODULE DSMSynch -----------------------------
(***************************************************************************)
(* dsmsynch.h under dsmuobject.c and dsmstack.c: a thread swaps one of its *)
(* two nodes, with its request in it, into Tail and spins on it, unless    *)
(* Tail was null. The combiner serves its own request first and stops at   *)
(* the node before the last, whose owner goes on.                          *)
(***************************************************************************)
EXTENDS Synch
CONSTANT HelpBound \* DSMSIM_HELP_BOUND

DSMInit(p, n) ==
  /\ SynchInit(p, n)
  /\ loc  = [t \in Thread |-> [toggle |-> 0, p |-> Null, counter |-> 0]]
  /\ mem  = [a \in 0 .. 2 * N_THREADS - 1 |->
               [next |-> Null, arg |-> <<"garbage">>, ret |-> <<"garbage">>, locked |-> FALSE,
                completed |-> FALSE, pid |-> Null]]
  /\ root = [Tail |-> Null]

Mine(t) == 2 * t + loc[t].toggle
pred(t) == loc[t].p

\* My other node; counter and p are set for the case that nobody is before me.
Announce(t) ==
  LET mine == 2 * t + (1 - loc[t].toggle)
  IN  /\ Call(t, IF root.Tail = Null THEN "help" ELSE "link")
      /\ mem'  = [mem EXCEPT ![mine] = [@ EXCEPT !.locked = TRUE, !.completed = FALSE, !.pid = t,
                                                 !.next = Null, !.arg = call'[t].arg]]
      /\ root' = [root EXCEPT !.Tail = mine]
      /\ loc'  = [loc EXCEPT ![t] = [toggle |-> 1 - loc[t].toggle, counter |-> 0,
                                     p |-> IF root.Tail = Null THEN mine ELSE root.Tail]]

Link(t) ==
  /\ Go(t, "link", "spin")
  /\ mem' = [mem EXCEPT ![pred(t)].next = Mine(t)]
  /\ UNCHANGED <<loc, root, calls>>

Spin(t) ==
  /\ Go(t, "spin", IF mem[Mine(t)].completed THEN "return" ELSE "help")
  /\ ~mem[Mine(t)].locked
  /\ loc' = [loc EXCEPT ![t].p = Mine(t), ![t].counter = 0]
  /\ UNCHANGED <<mem, root, calls>>

\* The combiner runs its own sfunc, also for the request of another thread.
Help(t) ==
  LET p == loc[t].p
  IN  /\ Go(t, "help", "release")
      /\ Perform(call[t].op, mem[p].pid, mem[p].arg)
      /\ mem' = [mem EXCEPT ![p].ret = Outcome(call[t].op, mem[p].pid, mem[p].arg), ![p].completed = TRUE]
      /\ loc' = [loc EXCEPT ![t].counter = @ + 1]
      /\ UNCHANGED root

Release(t) ==
  /\ Go(t, "release", "advance")
  /\ mem' = [mem EXCEPT ![loc[t].p].locked = FALSE]
  /\ UNCHANGED <<loc, root, calls>>

\* Serve the next node unless it is the last one, or enough were served.
Advance(t) ==
  LET next == mem[loc[t].p].next
      stop == next = Null \/ mem[next].next = Null \/ loc[t].counter >= HelpBound
  IN  /\ Go(t, "advance", IF stop THEN "close" ELSE "help")
      /\ loc' = IF stop THEN loc ELSE [loc EXCEPT ![t].p = next]
      /\ UNCHANGED <<mem, root, calls>>

\* Nobody behind me: empty the tail, or wait for the thread that just came.
Close(t) ==
  /\ Go(t, "close", "return")
  /\ mem[loc[t].p].next = Null
  /\ root.Tail = loc[t].p
  /\ root' = [root EXCEPT !.Tail = Null]
  /\ UNCHANGED <<loc, mem, calls>>

KeepLocked(t) == /\ Go(t, "close", "return") \* mutant: the next owner is not woken
                 /\ mem[loc[t].p].next # Null
                 /\ UNCHANGED <<loc, mem, root, calls>>
HandOver(t) ==
  /\ Go(t, "close", "return")
  /\ mem[loc[t].p].next # Null
  /\ mem' = [mem EXCEPT ![mem[loc[t].p].next].locked = FALSE]
  /\ UNCHANGED <<loc, root, calls>>

ReturnResult(t) == /\ Return(t, "return", mem[Mine(t)].ret)
                   /\ loc' = [loc EXCEPT ![t].p = Null, ![t].counter = 0]
                   /\ UNCHANGED <<mem, root>>

DSMStep(t) == \/ Announce(t) \/ Link(t) \/ Spin(t) \/ Help(t) \/ Release(t) \/ Advance(t)
              \/ Close(t) \/ HandOver(t) \/ ReturnResult(t)
=============================================================================
