------------------------------ MODULE CCSynch ------------------------------
(***************************************************************************)
(* ccsynch.h under ccuobject.c: a thread swaps an empty node into Tail,    *)
(* writes its request into the node it got and spins on it. The thread at  *)
(* the front serves the requests behind it, at most HelpBound of them,     *)
(* then passes the role on. ccstack.h and hsynch.h are copies with         *)
(* changes: CCStack and HSynch take over the steps that are the same.      *)
(***************************************************************************)
EXTENDS Synch
CONSTANTS HelpBound,    \* CCSIM_HELP_BOUND, COUNTER_BOUND: 3 * N_THREADS
          CounterStart  \* what the uninitialised counter may hold

\* Nodes 2t and 2t + 1 belong to thread t at first, the last ones to the tails.
TailNode(c) == 2 * N_THREADS + c
NewNode == [next |-> Null, arg_ret |-> <<"garbage">>, locked |-> FALSE, completed |-> FALSE,
            owner |-> Null] \* owner, for Outcome: whose request the node holds

\* A thread outside a call, with the nodes it will use next.
NoLocals(own, c) == [spare |-> own, cluster |-> c, mine |-> Null, cur |-> Null, p |-> Null,
                     next |-> Null, counter |-> 0]

\* own: the nodes thread t will use next, in that order. There is one tail per
\* cluster, and one cluster but in hsynch.h.
Tails(clusters) == [c \in 0 .. clusters - 1 |-> TailNode(c)]
CCNodes(p, n, own, clusters) ==
  /\ SynchInit(p, n)
  /\ loc  = [t \in Thread |-> NoLocals(own[t], t % clusters)]
  /\ mem  = [a \in 0 .. TailNode(clusters - 1) |-> NewNode]

CCInit(n) == CCNodes("ccuobject", n, [t \in Thread |-> <<2 * t>>], 1) /\ root = [Tail |-> Tails(1)]

Announce(t) ==
  LET mine == Head(loc[t].spare)
      cur  == root.Tail[loc[t].cluster]
  IN  /\ Call(t, "link1")
      /\ mem'  = [mem EXCEPT ![mine] = [@ EXCEPT !.next = Null, !.locked = TRUE, !.completed = FALSE],
                             ![cur].owner = t]
      /\ root' = [root EXCEPT !.Tail[loc[t].cluster] = mine]
      /\ loc'  = [loc EXCEPT ![t] = [@ EXCEPT !.cur = cur, !.mine = mine,
                                              !.spare = Append(Tail(loc[t].spare), cur)]]

WriteRequest(t, from, to, request) ==
  /\ Go(t, from, to)
  /\ mem' = [mem EXCEPT ![loc[t].cur].arg_ret = request]
  /\ UNCHANGED <<loc, root, calls>>

LinkNode(t, from, to) ==
  /\ Go(t, from, to)
  /\ mem' = [mem EXCEPT ![loc[t].cur].next = loc[t].mine]
  /\ UNCHANGED <<loc, root, calls>>

\* Spin until the node is unlocked; then it was served or it is my turn.
Spin(t, turn) ==
  /\ Go(t, "spin", IF mem[loc[t].cur].completed THEN "return" ELSE turn)
  /\ ~mem[loc[t].cur].locked
  /\ IF mem[loc[t].cur].completed THEN UNCHANGED loc
     ELSE \E k \in CounterStart : loc' = [loc EXCEPT ![t].p = loc[t].cur, ![t].counter = k]
  /\ UNCHANGED <<mem, root, calls>>

\* The combiner runs its own sfunc for whatever request the node holds.
CanHelp(t) == mem[loc[t].p].next # Null /\ loc[t].counter < HelpBound
Help(t) ==
  LET p == loc[t].p
  IN  /\ Go(t, "combine", "release")
      /\ CanHelp(t)
      /\ Perform(call[t].op, mem[p].owner, mem[p].arg_ret)
      /\ mem' = [mem EXCEPT ![p].arg_ret = Outcome(call[t].op, mem[p].owner, @), ![p].completed = TRUE]
      /\ loc' = [loc EXCEPT ![t].counter = @ + 1, ![t].next = mem[p].next]
      /\ UNCHANGED root

\* Once the node is unlocked it is its owner's again.
Release(t) ==
  /\ Go(t, "release", "combine")
  /\ mem' = [mem EXCEPT ![loc[t].p].locked = FALSE]
  /\ loc' = [loc EXCEPT ![t].p = loc[t].next]
  /\ UNCHANGED <<root, calls>>

HandOver(t, to) ==
  /\ Go(t, "combine", to)
  /\ ~CanHelp(t)
  /\ mem' = [mem EXCEPT ![loc[t].p].locked = FALSE]
  /\ UNCHANGED <<loc, root, calls>>

ReturnResult(t) == /\ Return(t, "return", mem[loc[t].cur].arg_ret)
                   /\ loc' = [loc EXCEPT ![t] = NoLocals(@.spare, @.cluster)]
                   /\ UNCHANGED <<mem, root>>

CCStep(t) == \/ Announce(t)
             \/ WriteRequest(t, "link1", "link2", call[t].arg) \/ LinkNode(t, "link2", "spin")
             \/ Spin(t, "combine") \/ Help(t) \/ Release(t) \/ HandOver(t, "return")
             \/ ReturnResult(t)
=============================================================================
