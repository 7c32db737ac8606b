------------------------------- MODULE MSQueue -------------------------------
(***************************************************************************)
(* The lock-free list of ms-queue-http-server.c: Michael and Scott's queue *)
(* with a dummy node, head and tail pointers, and one step per access to   *)
(* shared memory.                                                          *)
(*                                                                         *)
(* Every thread takes its nodes from chunks of its own and never gives     *)
(* them back, so that a node is used once: there is no ABA problem, and a  *)
(* node that left the list can still be read.                              *)
(*                                                                         *)
(* head and tail are pointers to volatile nodes, and are not themselves    *)
(* volatile.  The Makefile compiles without optimisation and reads them    *)
(* again wherever the code does; with OPT=-O2 a compiler may take the      *)
(* second read of head or tail in the same iteration for the first one.    *)
(* MergedReads says whether it may.                                        *)
(***************************************************************************)
EXTENDS Naturals, Sequences

CONSTANTS
  Enqueuer, Dequeuer,   \* the threads that call enqueue, and dequeue
  Node,                 \* the nodes of the threads' chunks
  Dummy,                \* the node made by SHARED_OBJECT_INIT
  Value,                \* the objects put
  NULL,                 \* null, also "no value"
  MergedReads           \* the compiler may merge the two reads of one iteration

Thread == Enqueuer \cup Dequeuer

ASSUME NodeAssumption ==
  /\ Dummy \notin Node
  /\ NULL \notin Node \cup {Dummy} \cup Value
  /\ MergedReads \in BOOLEAN

VARIABLES
  head, tail,   \* the two shared pointers
  next, val,    \* the fields next and value of every node
  used,         \* the nodes that were taken from the chunks
  pc,           \* per thread, the place in enqueue or dequeue
  p,            \* per thread, the node enqueue adds
  first, last, nxt, value,   \* the local variables of the same names (nxt: next)
  order,        \* history: the nodes in the order in which they were linked
  wasEmpty      \* history: per thread, the queue has been empty since its
                \* dequeue began

locals == <<p, first, last, nxt, value>>
vars == <<head, tail, next, val, used, pc, locals, order, wasEmpty>>

AnyNode == Node \cup {Dummy}

EnqueueLabel == {"enq_tail", "enq_next", "enq_check", "enq_link", "enq_help", "enq_swing"}
DequeueLabel == {"deq_head", "deq_tail", "deq_next", "deq_check", "deq_help",
                 "deq_value", "deq_swing", "deq_empty"}

MSTypeOK ==
  /\ head \in AnyNode /\ tail \in AnyNode
  /\ next \in [AnyNode -> Node \cup {NULL}]
  /\ val \in [AnyNode -> Value \cup {NULL}]
  /\ used \in SUBSET Node
  /\ pc \in [Thread -> EnqueueLabel \cup DequeueLabel \cup {"idle", "got"}]
  /\ p \in [Thread -> Node \cup {NULL}]
  /\ first \in [Thread -> AnyNode \cup {NULL}]
  /\ last \in [Thread -> AnyNode \cup {NULL}]
  /\ nxt \in [Thread -> Node \cup {NULL}]
  /\ value \in [Thread -> Value \cup {NULL}]
  /\ order \in Seq(AnyNode)
  /\ wasEmpty \in [Thread -> BOOLEAN]

Init ==                                                      \* SHARED_OBJECT_INIT
  /\ head = Dummy /\ tail = Dummy
  /\ next = [n \in AnyNode |-> NULL]
  /\ val = [n \in AnyNode |-> NULL]
  /\ used = {}
  /\ pc = [t \in Thread |-> "idle"]
  /\ p = [t \in Thread |-> NULL]
  /\ first = [t \in Thread |-> NULL]
  /\ last = [t \in Thread |-> NULL]
  /\ nxt = [t \in Thread |-> NULL]
  /\ value = [t \in Thread |-> NULL]
  /\ order = <<Dummy>>
  /\ wasEmpty = [t \in Thread |-> FALSE]

Goto(t, label) == pc' = [pc EXCEPT ![t] = label]

(* the local variables are gone when the function returns *)
Forget(t) ==
  /\ p' = [p EXCEPT ![t] = NULL]
  /\ first' = [first EXCEPT ![t] = NULL]
  /\ last' = [last EXCEPT ![t] = NULL]
  /\ nxt' = [nxt EXCEPT ![t] = NULL]

(* CASPTR(&tail, old, new), and whether or not it succeeds *)
CasTail(old, new) == tail' = IF tail = old THEN new ELSE tail

-----------------------------------------------------------------------------
(* enqueue *)

EnqueueCall(t, v) ==
  /\ pc[t] = "idle"
  /\ \E n \in Node \ used :
       /\ used' = used \cup {n}
       /\ p' = [p EXCEPT ![t] = n]
       /\ val' = [val EXCEPT ![n] = v]
       /\ next' = [next EXCEPT ![n] = NULL]
  /\ Goto(t, "enq_tail")
  /\ UNCHANGED <<head, tail, first, last, nxt, value, order>>

EnqueueTail(t) ==
  /\ pc[t] = "enq_tail"
  /\ last' = [last EXCEPT ![t] = tail]
  /\ Goto(t, "enq_next")
  /\ UNCHANGED <<head, tail, next, val, used, p, first, nxt, value, order>>

EnqueueNext(t) ==
  /\ pc[t] = "enq_next"
  /\ nxt' = [nxt EXCEPT ![t] = next[last[t]]]
  /\ Goto(t, "enq_check")
  /\ UNCHANGED <<head, tail, next, val, used, p, first, last, value, order>>

EnqueueCheck(t) ==
  /\ pc[t] = "enq_check"
  /\ \/ /\ last[t] = tail \/ MergedReads
        /\ Goto(t, IF nxt[t] = NULL THEN "enq_link" ELSE "enq_help")
     \/ /\ last[t] # tail
        /\ Goto(t, "enq_tail")
  /\ UNCHANGED <<head, tail, next, val, used, locals, order>>

(* mutant: a plain store, not a compare-and-swap *)
StoreLink(t) ==
  /\ pc[t] = "enq_link"
  /\ next' = [next EXCEPT ![last[t]] = p[t]]
  /\ order' = Append(order, p[t])
  /\ Goto(t, "enq_swing")
  /\ UNCHANGED <<head, tail, val, used, locals>>

(* CASPTR(&last->next, next, p) *)
EnqueueLink(t) ==
  /\ pc[t] = "enq_link"
  /\ IF next[last[t]] = nxt[t]
       THEN /\ next' = [next EXCEPT ![last[t]] = p[t]]
            /\ order' = Append(order, p[t])
            /\ Goto(t, "enq_swing")
       ELSE Goto(t, "enq_tail") /\ UNCHANGED <<next, order>>
  /\ UNCHANGED <<head, tail, val, used, locals>>

EnqueueHelp(t) ==
  /\ pc[t] = "enq_help"
  /\ CasTail(last[t], nxt[t])
  /\ Goto(t, "enq_tail")
  /\ UNCHANGED <<head, next, val, used, locals, order>>

EnqueueSwing(t) ==
  /\ pc[t] = "enq_swing"
  /\ CasTail(last[t], p[t])
  /\ Forget(t)
  /\ Goto(t, "idle")
  /\ UNCHANGED <<head, next, val, used, value, order>>

-----------------------------------------------------------------------------
(* dequeue *)

DequeueCall(t) ==
  /\ pc[t] = "idle"
  /\ Goto(t, "deq_head")
  /\ UNCHANGED <<head, tail, next, val, used, locals, order>>

DequeueHead(t) ==
  /\ pc[t] = "deq_head"
  /\ first' = [first EXCEPT ![t] = head]
  /\ Goto(t, "deq_tail")
  /\ UNCHANGED <<head, tail, next, val, used, p, last, nxt, value, order>>

DequeueTail(t) ==
  /\ pc[t] = "deq_tail"
  /\ last' = [last EXCEPT ![t] = tail]
  /\ Goto(t, "deq_next")
  /\ UNCHANGED <<head, tail, next, val, used, p, first, nxt, value, order>>

DequeueNext(t) ==
  /\ pc[t] = "deq_next"
  /\ nxt' = [nxt EXCEPT ![t] = next[first[t]]]
  /\ Goto(t, "deq_check")
  /\ UNCHANGED <<head, tail, next, val, used, p, first, last, value, order>>

(* mutants: first == last alone is taken for an empty queue, for a tail that
   is behind, for a queue with a value *)
MetIsEmpty(t) == "deq_empty"
MetIsBehind(t) == "deq_help"
MetIsFull(t) == "deq_value"

(* first == last: the queue is empty, or tail is behind *)
WhereMet(t) == IF nxt[t] = NULL THEN "deq_empty" ELSE "deq_help"

DequeueCheck(t) ==
  /\ pc[t] = "deq_check"
  /\ \/ /\ first[t] = head \/ MergedReads
        /\ Goto(t, IF first[t] = last[t] THEN WhereMet(t) ELSE "deq_value")
     \/ /\ first[t] # head
        /\ Goto(t, "deq_head")
  /\ UNCHANGED <<head, tail, next, val, used, locals, order>>

(* mutant: dequeue does not help, it waits for tail to be swung *)
NoHelp(t) ==
  /\ pc[t] = "deq_help"
  /\ Goto(t, "deq_head")
  /\ UNCHANGED <<head, tail, next, val, used, locals, order>>

DequeueHelp(t) ==
  /\ pc[t] = "deq_help"
  /\ CasTail(last[t], nxt[t])
  /\ Goto(t, "deq_head")
  /\ UNCHANGED <<head, next, val, used, locals, order>>

(* mutant: the value of the dummy node, which was returned before *)
OldValue(t) ==
  /\ pc[t] = "deq_value"
  /\ value' = [value EXCEPT ![t] = val[first[t]]]
  /\ Goto(t, "deq_swing")
  /\ UNCHANGED <<head, tail, next, val, used, p, first, last, nxt, order>>

DequeueValue(t) ==
  /\ pc[t] = "deq_value"
  /\ value' = [value EXCEPT ![t] = val[nxt[t]]]
  /\ Goto(t, "deq_swing")
  /\ UNCHANGED <<head, tail, next, val, used, p, first, last, nxt, order>>

(* CASPTR(&head, first, next) *)
DequeueSwing(t) ==
  /\ pc[t] = "deq_swing"
  /\ IF head = first[t]
       THEN /\ head' = nxt[t]
            /\ Forget(t)
            /\ Goto(t, "got")
            /\ UNCHANGED value
       ELSE /\ Goto(t, "deq_head")
            /\ value' = [value EXCEPT ![t] = NULL]
            /\ UNCHANGED <<head, p, first, last, nxt>>
  /\ UNCHANGED <<tail, next, val, used, order>>

(* return value, or return -1 *)
DequeueReturn(t) ==
  /\ pc[t] \in {"got", "deq_empty"}
  /\ value' = [value EXCEPT ![t] = NULL]
  /\ Forget(t)
  /\ Goto(t, "idle")
  /\ UNCHANGED <<head, tail, next, val, used, order>>

-----------------------------------------------------------------------------
Enqueuing(t) ==
  \/ EnqueueTail(t) \/ EnqueueNext(t) \/ EnqueueCheck(t) \/ EnqueueLink(t)
  \/ EnqueueHelp(t) \/ EnqueueSwing(t)

Dequeuing(t) ==
  \/ DequeueHead(t) \/ DequeueTail(t) \/ DequeueNext(t) \/ DequeueCheck(t)
  \/ DequeueHelp(t) \/ DequeueValue(t) \/ DequeueSwing(t) \/ DequeueReturn(t)

(* no value is between head and the end of the list *)
IsEmpty == next[head] = NULL

Remember ==
  wasEmpty' = [t \in Thread |-> pc'[t] \in DequeueLabel /\ (wasEmpty[t] \/ IsEmpty')]

Next ==
  /\ \/ \E t \in Enqueuer : (\E v \in Value : EnqueueCall(t, v)) \/ Enqueuing(t)
     \/ \E t \in Dequeuer : DequeueCall(t) \/ Dequeuing(t)
  /\ Remember

Spec == Init /\ [][Next]_vars

-----------------------------------------------------------------------------
(* Properties *)

(* Where a node is in the list; 0 for a node that is not linked. *)
Position(n) ==
  IF \E i \in 1..Len(order) : order[i] = n
    THEN CHOOSE i \in 1..Len(order) : order[i] = n ELSE 0

(* The nodes ever linked form one list that is never cut: each one's next is
   the node linked after it.  head and tail point into it, tail is never
   behind head, and is at most one node short of the end, however enqueues and
   the helping compare-and-swaps of both functions overlap. *)
OneList ==
  /\ \A i \in 1..Len(order) :
       next[order[i]] = IF i = Len(order) THEN NULL ELSE order[i + 1]
  /\ 1 <= Position(head) /\ Position(head) <= Position(tail)
  /\ Len(order) <= Position(tail) + 1

(* dequeue reads next->value only of a node that is on the list, although
   first, last and next were read at three different times. *)
NoNullRead == \A t \in Dequeuer : pc[t] = "deq_value" => nxt[t] # NULL

(* dequeue returns -1 only if the queue was empty at some moment of the call:
   queue_get goes back to sleep on the strength of that. *)
EmptyIsHonest == \A t \in Dequeuer : pc[t] = "deq_empty" => wasEmpty[t]

Contents == SubSeq(order, Position(head) + 1, Len(order))

Fifo == INSTANCE FifoQueue WITH
  None <- NULL,
  queue <- [i \in 1..Len(Contents) |-> val[Contents[i]]],
  taken <- [t \in Thread |-> IF pc[t] = "got" THEN value[t] ELSE NULL]

(* The list implements the abstract FIFO queue: an enqueue takes effect when
   it links its node, a dequeue when it swings head, and the value read before
   the swing is the one the swing removes. *)
FifoRefinement == Fifo!Spec
=============================================================================
