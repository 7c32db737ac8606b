------------------------------ MODULE SimQueue -----------------------------
(***************************************************************************)
(* simqueue.c: a linked list with one object of PSim for enqueues and one  *)
(* for dequeues. The record of the enqueues names a batch of nodes, link_b *)
(* to ptr, that is to be linked behind link_a: by the winner, by the next  *)
(* enqueuer or by a dequeuer that runs into the end of the list. The       *)
(* record of the dequeues names the last node taken.                       *)
(***************************************************************************)
EXTENDS PSim, SequencesExt, TLC

\* A node is named by its thread and its place in that thread's pool.
Guard   == <<-2, 0>>
Nothing == <<-1, 0>>

\* What a try keeps: what it keeps in PSim; how many nodes rollback would take
\* back; the threads that took a node, those that found none, and those of them
\* for which the queue was empty when connectQueue read enq_sp (history); lsp of
\* connectQueue, and whether it was copied while it was the record its owner was
\* to write next (history).
NoTry   == [j |-> 0, old |-> NoPointer, toggles |-> {}]
NoBatch == [back |-> 0, took |-> <<>>, none |-> {}, bare |-> {}, lsp |-> Nothing, late |-> FALSE]

SimQueueInit(n) ==
  /\ SimSides("simqueue", n, {"enq", "deq"})
  /\ loc = [t \in Thread |-> [bit |-> [d \in {"enq", "deq"} |-> FALSE], index |-> [d \in {"enq", "deq"} |-> 0],
                             nodes |-> 0] @@ NoBatch @@ NoTry]
  /\ mem = [enq  |-> [i \in Index |-> [applied |-> {}, link_a |-> Guard, link_b |-> Nothing, ptr |-> Guard]],
            deq  |-> [i \in Index |-> [applied |-> {}, ptr |-> Guard, ret |-> [t \in Thread |-> <<"zero">>]]],
            next |-> Guard :> Nothing,
            val  |-> Guard :> <<"guard">>]

Mine(t) == mem[Side(t)][MyRecord(t)]

SimQueueCall(t) ==
  /\ Call(t, "toggle")
  /\ root' = IF call'[t].op = "deq" THEN root
             ELSE [root EXCEPT !.announce[t] = [op |-> "enq", arg |-> call'[t].arg]]
  /\ loc'  = [loc EXCEPT ![t].bit[call'[t].op] = ~@]
  /\ UNCHANGED mem

\* CASPTR(&r.link_a->next, null, r.link_b)
Connected(next, r) == [next EXCEPT ![r.link_a] = IF @ = Nothing THEN r.link_b ELSE @]
ConnectNothing(t, from, to, r) == Go(t, from, to) /\ UNCHANGED <<loc, mem, root, calls>> \* mutant
Connect(t, from, to, r) == /\ Go(t, from, to)
                           /\ mem' = [mem EXCEPT !.next = Connected(@, r)]
                           /\ UNCHANGED <<loc, root, calls>>

\* Another try, with the nodes of this one back in the pool, all but the first.
SimQueueFails(t, from, served) ==
  /\ Pointer(t) # loc[t].old
  /\ Go(t, from, IF loc[t].j = 1 THEN served ELSE "read")
  /\ loc' = [loc EXCEPT ![t] = [j |-> @.j + 1, nodes |-> @.nodes - @.back] @@ NoBatch @@ @]
  /\ UNCHANGED <<mem, root, calls>>

SimQueueReturn(t, from, v) == /\ Return(t, from, v)
                              /\ loc' = [loc EXCEPT ![t] = NoBatch @@ NoTry @@ @]
                              /\ UNCHANGED <<mem, root>>

-----------------------------------------------------------------------------
\* enqueue: first the batch of the last winner, then one of my own: my value
\* and those announced by the others whose bits differ.
Helped(t) == FirstBits(ReverseBit(Diffs(t), t))
KeepLinkA(t) == \* mutant: link_a stays that of the batch before
  LET s == <<t>> \o Helped(t)
      node(i) == <<t, loc[t].nodes + i - 1>>
      batch == {node(i) : i \in DOMAIN s}
  IN  /\ Go(t, "build", "install")
      /\ mem' = [mem EXCEPT
           !.next = [a \in batch |-> IF a = node(Len(s)) THEN Nothing ELSE <<t, a[2] + 1>>] @@ @,
           !.val  = [a \in batch |-> IF a = node(1) THEN call[t].arg
                                     ELSE root.announce[s[a[2] - loc[t].nodes + 1]].arg] @@ @]
      /\ loc' = [loc EXCEPT ![t].nodes = @ + Len(s), ![t].back = Len(s) - 1]
      /\ UNCHANGED <<root, calls>>
BuildBatch(t) ==
  LET s == <<t>> \o Helped(t)
      node(i) == <<t, loc[t].nodes + i - 1>>
      batch == {node(i) : i \in DOMAIN s}
  IN  /\ Go(t, "build", "install")
      /\ mem' = [mem EXCEPT
           !.enq[MyRecord(t)].link_a = mem.enq[MyRecord(t)].ptr,
           !.next = [a \in batch |-> IF a = node(Len(s)) THEN Nothing ELSE <<t, a[2] + 1>>] @@ @,
           !.val  = [a \in batch |-> IF a = node(1) THEN call[t].arg
                                     ELSE root.announce[s[a[2] - loc[t].nodes + 1]].arg] @@ @]
      /\ loc' = [loc EXCEPT ![t].nodes = @ + Len(s), ![t].back = Len(s) - 1]
      /\ UNCHANGED <<root, calls>>
SealBatch(t) ==
  /\ Go(t, "install", "swap")
  /\ mem' = [mem EXCEPT !.enq[MyRecord(t)] = [@ EXCEPT !.link_b = <<t, loc[t].nodes - loc[t].back - 1>>,
                                                       !.ptr = <<t, loc[t].nodes - 1>>,
                                                       !.applied = loc[t].toggles]]
  /\ UNCHANGED <<loc, root, calls>>

\* The winner's batch is in the queue, whoever links it.
SwapBatch(t) ==
  LET now == Xor(mem.enq[root.sp.enq.index].applied, Mine(t).applied)
      s   == <<t>> \o FirstBits(now \ {t})
  IN  /\ call[t].op = "enq"
      /\ SimInstall(t, "swap", "link")
      /\ obj' = Object!After(s).obj /\ call' = Object!After(s).call
      /\ UNCHANGED <<mem, got, runs>>

EnqueueStep(t) ==
  /\ call[t].op = "enq"
  /\ \/ SimCheck(t, "void") \/ SimRecheck(t, "connect", "void")
     \/ Connect(t, "connect", "build", Mine(t)) \/ BuildBatch(t) \/ SealBatch(t)
     \/ SwapBatch(t) \/ SimQueueFails(t, "swap", "void")
     \/ Connect(t, "link", "void", OldRecord(t)) \/ SimQueueReturn(t, "void", Object!Ok)

-----------------------------------------------------------------------------
\* dequeue: one node for each bit that differs.
Left(t)  == {x \in Diffs(t) : x \notin loc[t].none /\ \A i \in DOMAIN loc[t].took : loc[t].took[i] # x}
First(t) == Head(FirstBits(Left(t)))

\* The result goes to cell i of ret, where i counts words of the toggle
\* vector; only after a connectQueue does it go to the thread it is for.
TakeNode(t, from, cell) ==
  LET next == mem.next[Mine(t).ptr]
  IN  /\ Go(t, from, "take")
      /\ next # Nothing
      /\ mem' = [mem EXCEPT !.deq[MyRecord(t)] = [@ EXCEPT !.ret[cell] = mem.val[next], !.ptr = next]]
      /\ loc' = [loc EXCEPT ![t].took = Append(@, First(t))]
      /\ UNCHANGED <<root, calls>>
Take(t) == Left(t) # {} /\ TakeNode(t, "take", 0)
EndOfList(t) == /\ Left(t) # {}
                /\ mem.next[Mine(t).ptr] = Nothing
                /\ Go(t, "take", "tail")
                /\ UNCHANGED <<loc, mem, root, calls>>

\* connectQueue, then look again.
ReadTail(t) ==
  /\ Go(t, "tail", "memcpy")
  /\ loc' = [loc EXCEPT ![t].lsp = root.sp.enq,
                        ![t].bare = IF Len(obj) = Len(loc[t].took) THEN @ \cup {First(t)} ELSE @]
  /\ UNCHANGED <<mem, root, calls>>
CopyTail(t) ==
  /\ Go(t, "memcpy", "connect")
  /\ loc' = [loc EXCEPT ![t].lsp = mem.enq[@.index],
                        ![t].late = \E u \in Thread :
                                      loc[t].lsp.index = u * LOCAL_POOL_SIZE + loc[u].index.enq]
  /\ UNCHANGED <<mem, root, calls>>
FoundNone(t) ==
  /\ Go(t, "again", "take")
  /\ mem.next[Mine(t).ptr] = Nothing
  /\ mem' = [mem EXCEPT !.deq[MyRecord(t)].ret[First(t)] = Object!Empty]
  /\ loc' = [loc EXCEPT ![t].none = @ \cup {First(t)}]
  /\ UNCHANGED <<root, calls>>

SealTaken(t) == /\ Left(t) = {}
           /\ Go(t, "take", "swap")
           /\ mem' = [mem EXCEPT !.deq[MyRecord(t)].applied = loc[t].toggles]
           /\ UNCHANGED <<loc, root, calls>>

\* What is due: to the threads that took a node the front of the queue, in turn.
\* A list that is not whole may have more nodes than the queue has values.
SwapTaken(t) ==
  LET took == loc[t].took
      due(x) == IF \E i \in DOMAIN took \cap DOMAIN obj : took[i] = x
                  THEN obj[CHOOSE i \in DOMAIN took : took[i] = x] ELSE Object!Empty
  IN  /\ call[t].op = "deq"
      /\ SimInstall(t, "swap", "fetch")
      /\ obj'  = SubSeq(obj, Len(took) + 1, Len(obj))
      /\ call' = [x \in Thread |-> IF x \in loc[t].none \cup {took[i] : i \in DOMAIN took}
                                   THEN [call[x] EXCEPT !.st = "done", !.ret = due(x)] ELSE call[x]]
      /\ UNCHANGED <<mem, got, runs>>

\* A dequeue that finds itself served returns without a value.
DequeueStep(t) ==
  /\ call[t].op = "deq"
  /\ \/ SimCheck(t, "garbage") \/ SimRecheck(t, "take", "result") \/ Take(t) \/ EndOfList(t) \/ ReadTail(t)
     \/ CopyTail(t) \/ Connect(t, "connect", "again", loc[t].lsp)
     \/ TakeNode(t, "again", First(t)) \/ FoundNone(t) \/ SealTaken(t)
     \/ SwapTaken(t) \/ SimQueueFails(t, "swap", "result")
     \/ SimResult(t) \/ SimQueueReturn(t, "fetch", OldRecord(t).ret[t])
     \/ SimQueueReturn(t, "garbage", <<"garbage">>)

SimQueueStep(t) == \/ SimQueueCall(t) \/ SimToggle(t) \/ SimRead(t) \/ SimCopy(t) \/ SimSnapshot(t)
                   \/ EnqueueStep(t) \/ DequeueStep(t)

-----------------------------------------------------------------------------
\* The values along next from node a, at most k of them.
ValuesFrom(next, a, k) ==
  LET at[i \in 0 .. k] == IF i = 0 THEN a ELSE IF at[i - 1] = Nothing THEN Nothing ELSE next[at[i - 1]]
  IN  [i \in 1 .. Cardinality({j \in 1 .. k : at[j] # Nothing}) |-> mem.val[at[i]]]

QueueIsChain ==
  LET e == mem.enq[root.sp.enq.index]
  IN  ValuesFrom(Connected(mem.next, e), mem.deq[root.sp.deq.index].ptr, Cardinality(DOMAIN mem.next)) = obj

\* connectQueue links a record that its owner was to write next when it copied
\* it: the owner has used all the others of its pool since enq_sp was read.
LinksLate(t) == call[t].op = "deq" /\ pc[t] = "connect" /\ pc'[t] = "again" /\ loc[t].late
=============================================================================
