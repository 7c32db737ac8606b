--------------------------- MODULE MSQueueProofs ---------------------------
(***************************************************************************)
(* Proofs about MSQueue for any number of threads and nodes, with and      *)
(* without merged reads. What a thread remembers of the list may be old,   *)
(* but the list only grows at its end, and head and tail only move along   *)
(* it: each thread's knowledge stays true while the others run.            *)
(***************************************************************************)
EXTENDS MSQueue, TLAPS, SequenceTheorems

(* The place of n in a sequence, 0 if it has none. *)
Pos(s, n) == IF \E i \in 1..Len(s) : s[i] = n
               THEN CHOOSE i \in 1..Len(s) : s[i] = n ELSE 0

(* The list, the nodes beside it, and the two pointers into it. *)
ListOK ==
  /\ Len(order) >= 1 /\ order[1] = Dummy
  /\ \A i, j \in 1..Len(order) : order[i] = order[j] => i = j
  /\ \A i \in 1..Len(order) : next[order[i]] = IF i = Len(order) THEN NULL ELSE order[i + 1]
  /\ \A i \in 2..Len(order) : order[i] \in used
  /\ \A n \in used : val[n] \in Value
  /\ \A n \in AnyNode : Pos(order, n) = 0 => next[n] = NULL
EndsOK ==
  /\ 1 <= Pos(order, head) /\ Pos(order, head) <= Pos(order, tail)
  /\ Len(order) <= Pos(order, tail) + 1

(* A node that is not yet linked belongs to the thread that took it. *)
Pending(t) == pc[t] \in {"enq_tail", "enq_next", "enq_check", "enq_link", "enq_help"}
PrivateOK ==
  /\ \A t \in Thread : Pending(t) => p[t] \in used /\ Pos(order, p[t]) = 0
  /\ \A t, u \in Thread : t # u /\ Pending(t) /\ Pending(u) => p[t] # p[u]

(* What a thread in enqueue knows. *)
EnqueueOK(t) ==
  /\ pc[t] \in {"enq_next", "enq_check", "enq_link", "enq_help", "enq_swing"} =>
       1 <= Pos(order, last[t]) /\ Pos(order, last[t]) <= Pos(order, tail)
  /\ pc[t] = "enq_check" /\ nxt[t] # NULL => nxt[t] = next[last[t]]
  /\ pc[t] = "enq_link" => nxt[t] = NULL
  /\ pc[t] = "enq_help" => nxt[t] # NULL /\ nxt[t] = next[last[t]]
  /\ pc[t] = "enq_swing" => p[t] # NULL /\ p[t] = next[last[t]]

(* What a thread in dequeue knows: first is not ahead of head, and last, read
   after it, is not behind first. *)
DequeueOK(t) ==
  /\ pc[t] \in {"deq_tail", "deq_next", "deq_check", "deq_help", "deq_value", "deq_swing"} =>
       1 <= Pos(order, first[t]) /\ Pos(order, first[t]) <= Pos(order, head)
  /\ pc[t] \in {"deq_next", "deq_check", "deq_help", "deq_value", "deq_swing"} =>
       Pos(order, first[t]) <= Pos(order, last[t]) /\ Pos(order, last[t]) <= Pos(order, tail)
  /\ pc[t] = "deq_check" /\ nxt[t] = NULL => first[t] = last[t] /\ wasEmpty[t]
  /\ pc[t] = "deq_check" /\ nxt[t] # NULL => nxt[t] = next[first[t]]
  /\ pc[t] = "deq_help" => nxt[t] # NULL /\ nxt[t] = next[first[t]] /\ first[t] = last[t]
  /\ pc[t] \in {"deq_value", "deq_swing"} =>
       nxt[t] # NULL /\ nxt[t] = next[first[t]] /\ Pos(order, first[t]) < Pos(order, last[t])
  /\ pc[t] = "deq_swing" => value[t] = val[nxt[t]]
  /\ pc[t] = "deq_empty" => wasEmpty[t]
  /\ pc[t] = "got" => value[t] \in Value

MSInv ==
  /\ MSTypeOK /\ ListOK /\ EndsOK /\ PrivateOK
  /\ \A t \in Thread : EnqueueOK(t) /\ DequeueOK(t)

-----------------------------------------------------------------------------
(* Places in a sequence *)

(* What Pos returns. *)
LEMMA PosProperties ==
  ASSUME NEW S, NEW s \in Seq(S), NEW n
  PROVE  /\ Pos(s, n) \in 0..Len(s)
         /\ Pos(s, n) # 0 => n \in S /\ s[Pos(s, n)] = n
         /\ \A i \in 1..Len(s) : s[i] = n => Pos(s, n) # 0
<1>1. Len(s) \in Nat
  OBVIOUS
<1>2. CASE \E i \in 1..Len(s) : s[i] = n
  <2>1. PICK i \in 1..Len(s) : s[i] = n
    BY <1>2
  <2>2. Pos(s, n) \in 1..Len(s) /\ s[Pos(s, n)] = n
    BY <1>2 DEF Pos
  <2> QED
    BY <1>1, <2>2
<1>3. CASE ~(\E i \in 1..Len(s) : s[i] = n)
  BY <1>1, <1>3 DEF Pos
<1> QED
  BY <1>2, <1>3

(* In a sequence without repetitions the place of its i-th element is i. *)
LEMMA PosOfElement ==
  ASSUME NEW S, NEW s \in Seq(S), \A i, j \in 1..Len(s) : s[i] = s[j] => i = j,
         NEW i \in 1..Len(s)
  PROVE  Pos(s, s[i]) = i
<1>1. Pos(s, s[i]) # 0 /\ Pos(s, s[i]) \in 0..Len(s)
  BY PosProperties
<1>2. s[Pos(s, s[i])] = s[i]
  BY <1>1, PosProperties
<1> QED
  BY <1>1, <1>2

(* Appending a new element gives it a place and leaves the others theirs. *)
LEMMA PosAppend ==
  ASSUME NEW S, NEW s \in Seq(S), \A i, j \in 1..Len(s) : s[i] = s[j] => i = j,
         NEW x \in S, Pos(s, x) = 0
  PROVE  /\ Append(s, x) \in Seq(S) /\ Len(Append(s, x)) = Len(s) + 1
         /\ \A i \in 1..Len(s) : Append(s, x)[i] = s[i]
         /\ Append(s, x)[Len(s) + 1] = x
         /\ \A i, j \in 1..Len(s) + 1 : Append(s, x)[i] = Append(s, x)[j] => i = j
         /\ Pos(Append(s, x), x) = Len(s) + 1
         /\ \A n : n # x => Pos(Append(s, x), n) = Pos(s, n)
<1> DEFINE a == Append(s, x)
<1>1. /\ a \in Seq(S) /\ Len(a) = Len(s) + 1 /\ Len(s) \in Nat
      /\ \A i \in 1..Len(s) : a[i] = s[i]
      /\ a[Len(s) + 1] = x
  OBVIOUS
<1>2. \A i \in 1..Len(s) : s[i] # x
  BY PosProperties
<1> HIDE DEF a
<1>3. \A i, j \in 1..Len(a) : a[i] = a[j] => i = j
  BY <1>1, <1>2
<1>4. Pos(a, x) = Len(s) + 1
  <2>1. Pos(a, a[Len(s) + 1]) = Len(s) + 1
    BY <1>1, <1>3, PosOfElement
  <2> QED
    BY <1>1, <2>1
<1>5. ASSUME NEW n, n # x PROVE Pos(a, n) = Pos(s, n)
  <2>1. CASE Pos(s, n) # 0
    <3>1. Pos(s, n) \in 1..Len(s) /\ s[Pos(s, n)] = n
      BY <1>1, <2>1, PosProperties
    <3>2. Pos(s, n) \in 1..Len(a) /\ a[Pos(s, n)] = n
      BY <1>1, <3>1
    <3>3. Pos(a, a[Pos(s, n)]) = Pos(s, n)
      BY <1>1, <1>3, <3>2, PosOfElement
    <3> QED
      BY <3>2, <3>3
  <2>2. CASE Pos(s, n) = 0
    <3>1. \A i \in 1..Len(s) : s[i] # n
      BY <2>2, PosProperties
    <3>2. \A i \in 1..Len(a) : a[i] # n
      BY <1>1, <1>5, <3>1
    <3> QED
      BY <2>2, <3>2 DEF Pos
  <2> QED
    BY <2>1, <2>2
<1> QED
  BY <1>1, <1>3, <1>4, <1>5 DEF a

-----------------------------------------------------------------------------
(* The list *)

(* What is known of every node and its place. *)
LEMMA Places ==
  ASSUME MSTypeOK, ListOK, NEW n
  PROVE  /\ Pos(order, n) \in Nat /\ Pos(order, n) <= Len(order) /\ Len(order) \in Nat
         /\ Pos(order, n) # 0 => n \in AnyNode /\ order[Pos(order, n)] = n
         /\ Pos(order, n) # 0 /\ next[n] = NULL => Pos(order, n) = Len(order)
         /\ Pos(order, n) # 0 /\ next[n] # NULL =>
              /\ Pos(order, n) < Len(order) /\ Pos(order, next[n]) = Pos(order, n) + 1
              /\ next[n] \in used
         /\ n \in AnyNode /\ next[n] # NULL => Pos(order, n) # 0
<1> USE NodeAssumption
<1>1. order \in Seq(AnyNode) /\ Len(order) \in Nat
  BY DEF MSTypeOK
<1>2. /\ Pos(order, n) \in 0..Len(order)
      /\ Pos(order, n) # 0 => n \in AnyNode /\ order[Pos(order, n)] = n
  BY <1>1, PosProperties
<1>3. ASSUME Pos(order, n) # 0, Pos(order, n) < Len(order)
      PROVE  /\ next[n] = order[Pos(order, n) + 1] /\ next[n] # NULL /\ next[n] \in used
             /\ Pos(order, next[n]) = Pos(order, n) + 1
  <2> DEFINE i == Pos(order, n)
  <2>1. i \in 1..Len(order) /\ i + 1 \in 2..Len(order) /\ i + 1 \in 1..Len(order) /\ order[i] = n
    BY <1>1, <1>2, <1>3
  <2> HIDE DEF i
  <2>2. next[n] = order[i + 1]
    BY <1>1, <1>3, <2>1 DEF ListOK, i
  <2>3. order[i + 1] \in used
    BY <2>1 DEF ListOK
  <2>4. Pos(order, order[i + 1]) = i + 1
    BY <1>1, <2>1, PosOfElement DEF ListOK
  <2>5. order[i + 1] # NULL
    BY <2>3 DEF MSTypeOK
  <2> QED
    BY <2>2, <2>3, <2>4, <2>5 DEF i
<1>4. ASSUME Pos(order, n) = Len(order), Pos(order, n) # 0 PROVE next[n] = NULL
  <2>1. Len(order) \in 1..Len(order) /\ order[Len(order)] = n
    BY <1>1, <1>2, <1>4
  <2> QED
    BY <2>1 DEF ListOK
<1>5. n \in AnyNode /\ next[n] # NULL => Pos(order, n) # 0
  BY DEF ListOK
<1> QED
  BY <1>1, <1>2, <1>3, <1>4, <1>5

(* Places are numbers. *)
LEMMA PlaceIsNat == MSTypeOK /\ ListOK => \A n : Pos(order, n) \in Nat
  BY Places

(* NULL is no place in the list. *)
LEMMA LinkedNode ==
  ASSUME MSTypeOK, ListOK, NEW n, Pos(order, n) # 0
  PROVE  n \in AnyNode /\ n # NULL
  BY Places, NodeAssumption DEF AnyNode

(* How the shared state moves on. *)
Advance ==
  /\ \A n \in AnyNode : Pos(order, n) # 0 => Pos(order, n)' = Pos(order, n)
  /\ Pos(order, head) <= Pos(order, head)' /\ Pos(order, tail) <= Pos(order, tail)'
  /\ \A n \in AnyNode : next[n] # NULL => next'[n] = next[n]
  /\ used \subseteq used' /\ \A n \in used : val'[n] = val[n]
  /\ MSTypeOK' /\ ListOK' /\ EndsOK'

(* What a thread knows stays true. *)
LEMMA KnowledgeStays ==
  ASSUME MSInv, Advance, Remember, NEW u \in Thread,
         pc'[u] = pc[u], p'[u] = p[u], first'[u] = first[u], last'[u] = last[u],
         nxt'[u] = nxt[u], value'[u] = value[u]
  PROVE  EnqueueOK(u)' /\ DequeueOK(u)'
<1>1. \A n : Pos(order, n) \in Nat
  BY PlaceIsNat DEF MSInv
<1>2. (MSTypeOK /\ ListOK => \A n : Pos(order, n) \in Nat)'
  BY PlaceIsNat, PTL
<1>3. \A n : Pos(order', n) \in Nat
  BY <1>2 DEF Advance
<1>4. \A n : Pos(order, n) # 0 => n \in AnyNode /\ Pos(order', n) = Pos(order, n)
  BY LinkedNode DEF MSInv, Advance
<1>5. EnqueueOK(u)'
  BY <1>1, <1>3, <1>4 DEF MSInv, EnqueueOK, Advance
<1>6. DequeueOK(u)'
  <2>1. nxt[u] # NULL /\ nxt[u] = next[first[u]] /\ Pos(order, first[u]) # 0 =>
          /\ next'[first[u]] = next[first[u]]
          /\ val'[nxt[u]] = val[nxt[u]]
    BY <1>4, Places DEF MSInv, Advance
  <2>2. pc[u] \in DequeueLabel /\ wasEmpty[u] => wasEmpty'[u]
    BY DEF Remember
  <2> QED
    BY <1>1, <1>3, <1>4, <2>1, <2>2 DEF MSInv, DequeueOK, Advance, DequeueLabel
<1> QED
  BY <1>5, <1>6
-----------------------------------------------------------------------------
(* The types *)

(* What the shared variables may become. *)
LEMMA StepTypes ==
  ASSUME MSInv, Next
  PROVE  MSTypeOK'
<1> USE NodeAssumption DEF MSInv, MSTypeOK, AnyNode
<1>1. wasEmpty' \in [Thread -> BOOLEAN]
  <2>1. \A t \in Thread : (pc'[t] \in DequeueLabel /\ (wasEmpty[t] \/ IsEmpty')) \in BOOLEAN
    OBVIOUS
  <2> QED
    BY <2>1 DEF Next, Remember
<1>2. ASSUME NEW t \in Thread, NEW l, Goto(t, l),
             l \in EnqueueLabel \cup DequeueLabel \cup {"idle", "got"}
      PROVE  pc' \in [Thread -> EnqueueLabel \cup DequeueLabel \cup {"idle", "got"}]
  BY <1>2 DEF Goto
<1>3. ASSUME NEW t \in Thread, Forget(t)
      PROVE  /\ p' \in [Thread -> Node \cup {NULL}]
             /\ first' \in [Thread -> AnyNode \cup {NULL}]
             /\ last' \in [Thread -> AnyNode \cup {NULL}]
             /\ nxt' \in [Thread -> Node \cup {NULL}]
  BY <1>3 DEF Forget
<1> USE DEF EnqueueLabel, DequeueLabel
<1>4. ASSUME NEW t \in Thread, NEW v \in Value, EnqueueCall(t, v) PROVE MSTypeOK'
  BY <1>1, <1>2, <1>4 DEF EnqueueCall
<1>5. ASSUME NEW t \in Thread, EnqueueTail(t) \/ EnqueueCheck(t) PROVE MSTypeOK'
  BY <1>1, <1>2, <1>5 DEF EnqueueTail, EnqueueCheck, locals
<1>6. ASSUME NEW t \in Thread, EnqueueNext(t) PROVE MSTypeOK'
  <2>1. last[t] \in AnyNode
    BY <1>6, LinkedNode, PlaceIsNat DEF EnqueueNext, EnqueueOK
  <2> QED
    BY <1>1, <1>2, <1>6, <2>1 DEF EnqueueNext
<1>7. ASSUME NEW t \in Thread, EnqueueLink(t) PROVE MSTypeOK'
  <2>1. p[t] \in Node
    BY <1>7 DEF EnqueueLink, PrivateOK, Pending
  <2>2. next' \in [AnyNode -> Node \cup {NULL}]
    BY <1>7, <2>1 DEF EnqueueLink
  <2>3. Append(order, p[t]) \in Seq(AnyNode)
    BY <2>1
  <2>4. order' \in Seq(AnyNode)
    BY <1>7, <2>3 DEF EnqueueLink
  <2> QED
    BY <1>1, <1>2, <1>7, <2>2, <2>4 DEF EnqueueLink, locals
<1>8. ASSUME NEW t \in Thread, EnqueueHelp(t) \/ DequeueHelp(t) PROVE MSTypeOK'
  <2>1. nxt[t] \in Node
    BY <1>8 DEF EnqueueHelp, DequeueHelp, EnqueueOK, DequeueOK
  <2> QED
    BY <1>1, <1>2, <1>8, <2>1 DEF EnqueueHelp, DequeueHelp, CasTail, locals
<1>9. ASSUME NEW t \in Thread, EnqueueSwing(t) PROVE MSTypeOK'
  <2>1. p[t] \in Node
    BY <1>9 DEF EnqueueSwing, EnqueueOK
  <2> QED
    BY <1>1, <1>2, <1>3, <1>9, <2>1 DEF EnqueueSwing, CasTail
<1>10. ASSUME NEW t \in Thread, DequeueCall(t) \/ DequeueHead(t) \/ DequeueTail(t) \/ DequeueCheck(t)
       PROVE  MSTypeOK'
  BY <1>1, <1>2, <1>10 DEF DequeueCall, DequeueHead, DequeueTail, DequeueCheck, WhereMet, locals
<1>11. ASSUME NEW t \in Thread, DequeueNext(t) PROVE MSTypeOK'
  <2>1. first[t] \in AnyNode
    BY <1>11, LinkedNode, PlaceIsNat DEF DequeueNext, DequeueOK
  <2> QED
    BY <1>1, <1>2, <1>11, <2>1 DEF DequeueNext
<1>12. ASSUME NEW t \in Thread, DequeueValue(t) PROVE MSTypeOK'
  <2>1. nxt[t] \in Node
    BY <1>12 DEF DequeueValue, DequeueOK
  <2> QED
    BY <1>1, <1>2, <1>12, <2>1 DEF DequeueValue
<1>13. ASSUME NEW t \in Thread, DequeueSwing(t) PROVE MSTypeOK'
  <2>1. nxt[t] \in Node
    BY <1>13 DEF DequeueSwing, DequeueOK
  <2> QED
    BY <1>1, <1>2, <1>3, <1>13, <2>1 DEF DequeueSwing
<1>14. ASSUME NEW t \in Thread, DequeueReturn(t) PROVE MSTypeOK'
  BY <1>1, <1>2, <1>3, <1>14 DEF DequeueReturn
<1> QED
  BY <1>4, <1>5, <1>6, <1>7, <1>8, <1>9, <1>10, <1>11, <1>12, <1>13, <1>14
     DEF Next, Enqueuing, Dequeuing, Thread

-----------------------------------------------------------------------------
(* The steps *)

(* Thread t moves, and the others keep what they know. *)
LEMMA OneMoves ==
  ASSUME MSInv, Advance, Remember, NEW t \in Thread,
         \A u \in Thread \ {t} :
           /\ pc'[u] = pc[u] /\ p'[u] = p[u] /\ first'[u] = first[u] /\ last'[u] = last[u]
           /\ nxt'[u] = nxt[u] /\ value'[u] = value[u],
         PrivateOK', EnqueueOK(t)', DequeueOK(t)'
  PROVE  MSInv'
<1>1. ASSUME NEW u \in Thread \ {t} PROVE EnqueueOK(u)' /\ DequeueOK(u)'
  BY <1>1, KnowledgeStays
<1>2. \A u \in Thread : EnqueueOK(u)' /\ DequeueOK(u)'
  BY <1>1
<1> QED
  BY <1>2 DEF Advance, MSInv

(* A step that leaves the shared state alone. *)
LEMMA LocalKeeps ==
  ASSUME MSInv, MSTypeOK', Remember, UNCHANGED <<head, tail, next, val, used, order>>, NEW t \in Thread,
         \A u \in Thread \ {t} :
           /\ pc'[u] = pc[u] /\ p'[u] = p[u] /\ first'[u] = first[u] /\ last'[u] = last[u]
           /\ nxt'[u] = nxt[u] /\ value'[u] = value[u],
         Pending(t)' => Pending(t) /\ p'[t] = p[t],
         EnqueueOK(t)', DequeueOK(t)'
  PROVE  MSInv'
<1>1. ListOK' /\ EndsOK'
  BY DEF MSInv, ListOK, EndsOK
<1>2. Advance
  BY <1>1, PlaceIsNat DEF Advance, MSInv, MSTypeOK
<1>3. PrivateOK'
  <2>1. \A u \in Thread : Pending(u)' => Pending(u) /\ p'[u] = p[u]
    BY DEF Pending
  <2> QED
    BY <2>1 DEF MSInv, PrivateOK
<1> QED
  BY <1>2, <1>3, OneMoves

(* A step of enqueue that only reads. *)
LEMMA EnqueueReads ==
  ASSUME MSInv, MSTypeOK', Remember, NEW t \in Thread,
         EnqueueTail(t) \/ EnqueueNext(t) \/ EnqueueCheck(t)
  PROVE  MSInv'
<1> USE DEF MSInv, MSTypeOK
<1>1. CASE EnqueueTail(t)
  <2>1. EnqueueOK(t)' /\ DequeueOK(t)'
    BY <1>1, PlaceIsNat DEF EnqueueTail, Goto, EnqueueOK, DequeueOK, EndsOK
  <2> QED
    BY <1>1, <2>1, LocalKeeps DEF EnqueueTail, Goto, Pending
<1>2. CASE EnqueueNext(t)
  <2>1. EnqueueOK(t)' /\ DequeueOK(t)'
    BY <1>2 DEF EnqueueNext, Goto, EnqueueOK, DequeueOK
  <2> QED
    BY <1>2, <2>1, LocalKeeps DEF EnqueueNext, Goto, Pending
<1>3. CASE EnqueueCheck(t)
  <2>1. EnqueueOK(t)' /\ DequeueOK(t)'
    BY <1>3 DEF EnqueueCheck, Goto, EnqueueOK, DequeueOK, locals
  <2> QED
    BY <1>3, <2>1, LocalKeeps DEF EnqueueCheck, Goto, Pending, locals
<1> QED
  BY <1>1, <1>2, <1>3

(* A step of dequeue that only reads. The next of first is NULL only if first
   is the last node; then head and tail are there too, and the queue is empty. *)
LEMMA DequeueReads ==
  ASSUME MSInv, MSTypeOK', Remember, NEW t \in Thread,
         \/ DequeueCall(t) \/ DequeueHead(t) \/ DequeueTail(t) \/ DequeueNext(t)
         \/ DequeueCheck(t) \/ DequeueValue(t) \/ DequeueReturn(t)
  PROVE  MSInv'
<1> USE DEF MSInv, MSTypeOK
<1>1. CASE DequeueCall(t)
  <2>1. EnqueueOK(t)' /\ DequeueOK(t)'
    BY <1>1 DEF DequeueCall, Goto, EnqueueOK, DequeueOK
  <2> QED
    BY <1>1, <2>1, LocalKeeps DEF DequeueCall, Goto, Pending, locals
<1>2. CASE DequeueHead(t)
  <2>1. EnqueueOK(t)' /\ DequeueOK(t)'
    BY <1>2, PlaceIsNat DEF DequeueHead, Goto, EnqueueOK, DequeueOK, EndsOK
  <2> QED
    BY <1>2, <2>1, LocalKeeps DEF DequeueHead, Goto, Pending
<1>3. CASE DequeueTail(t)
  <2>1. Pos(order, first[t]) <= Pos(order, tail)
    BY <1>3, PlaceIsNat DEF DequeueTail, DequeueOK, EndsOK
  <2>2. EnqueueOK(t)' /\ DequeueOK(t)'
    BY <1>3, <2>1, PlaceIsNat DEF DequeueTail, Goto, EnqueueOK, DequeueOK
  <2> QED
    BY <1>3, <2>2, LocalKeeps DEF DequeueTail, Goto, Pending
<1>4. CASE DequeueNext(t)
  <2>1. ASSUME next[first[t]] = NULL PROVE first[t] = last[t] /\ wasEmpty'[t]
    <3>1. Pos(order, first[t]) # 0 /\ Pos(order, first[t]) <= Pos(order, head)
          /\ Pos(order, first[t]) <= Pos(order, last[t]) 
      BY <1>4, PlaceIsNat DEF DequeueNext, DequeueOK
    <3>2. Pos(order, first[t]) = Len(order)
      BY <2>1, <3>1, Places
    <3>3. /\ Pos(order, head) <= Len(order) /\ Pos(order, last[t]) <= Len(order)
          /\ Pos(order, head) \in Nat /\ Pos(order, last[t]) \in Nat
      BY Places
    <3>4. Pos(order, head) = Pos(order, first[t]) /\ Pos(order, last[t]) = Pos(order, first[t])
      BY <3>1, <3>2, <3>3
    <3>5. head = first[t] /\ last[t] = first[t]
      BY <3>1, <3>4, Places
    <3>6. IsEmpty'
      BY <1>4, <2>1, <3>5 DEF DequeueNext, IsEmpty
    <3> QED
      BY <1>4, <3>5, <3>6 DEF Remember, DequeueNext, Goto, DequeueLabel
  <2>2. EnqueueOK(t)' /\ DequeueOK(t)'
    BY <1>4, <2>1 DEF DequeueNext, Goto, EnqueueOK, DequeueOK
  <2> QED
    BY <1>4, <2>2, LocalKeeps DEF DequeueNext, Goto, Pending
<1>5. CASE DequeueCheck(t)
  <2>1. pc'[t] \in DequeueLabel /\ (wasEmpty[t] => wasEmpty'[t])
    BY <1>5 DEF DequeueCheck, Goto, WhereMet, DequeueLabel, Remember
  <2>2. ASSUME first[t] # last[t] PROVE Pos(order, first[t]) < Pos(order, last[t])
    <3>1. /\ Pos(order, first[t]) # 0 /\ Pos(order, first[t]) <= Pos(order, last[t])
          /\ Pos(order, first[t]) \in Nat /\ Pos(order, last[t]) \in Nat
      BY <1>5, PlaceIsNat DEF DequeueCheck, DequeueOK
    <3>2. Pos(order, last[t]) # Pos(order, first[t])
      BY <2>2, <3>1, Places
    <3> QED
      BY <3>1, <3>2
  <2>3. EnqueueOK(t)' /\ DequeueOK(t)'
    BY <1>5, <2>1, <2>2 DEF DequeueCheck, Goto, WhereMet, EnqueueOK, DequeueOK, locals
  <2> QED
    BY <1>5, <2>3, LocalKeeps DEF DequeueCheck, WhereMet, Goto, Pending, locals
<1>6. CASE DequeueValue(t)
  <2>1. EnqueueOK(t)' /\ DequeueOK(t)'
    BY <1>6 DEF DequeueValue, Goto, EnqueueOK, DequeueOK
  <2> QED
    BY <1>6, <2>1, LocalKeeps DEF DequeueValue, Goto, Pending
<1>7. CASE DequeueReturn(t)
  <2>1. EnqueueOK(t)' /\ DequeueOK(t)'
    BY <1>7 DEF DequeueReturn, Goto, EnqueueOK, DequeueOK
  <2> QED
    BY <1>7, <2>1, LocalKeeps DEF DequeueReturn, Forget, Goto, Pending
<1> QED
  BY <1>1, <1>2, <1>3, <1>4, <1>5, <1>6, <1>7

(* enqueue takes a node that nobody has, and that is not on the list. *)
LEMMA EnqueueCallKeeps ==
  ASSUME MSInv, MSTypeOK', Remember, NEW t \in Thread, NEW v \in Value, EnqueueCall(t, v)
  PROVE  MSInv'
<1> USE NodeAssumption DEF MSInv, MSTypeOK
<1>1. PICK n \in Node \ used :
        /\ used' = used \cup {n}
        /\ p' = [p EXCEPT ![t] = n]
        /\ val' = [val EXCEPT ![n] = v]
        /\ next' = [next EXCEPT ![n] = NULL]
  BY DEF EnqueueCall
<1>2. Pos(order, n) = 0
  <2> SUFFICES ASSUME Pos(order, n) # 0 PROVE FALSE
    OBVIOUS
  <2>1. Pos(order, n) \in 1..Len(order) /\ order[Pos(order, n)] = n
    BY Places
  <2> QED
    BY <1>1, <2>1 DEF ListOK
<1>3. next' = next
  BY <1>1, <1>2 DEF ListOK, AnyNode
<1>4. ListOK'
  BY <1>1, <1>3 DEF ListOK, EnqueueCall, AnyNode
<1>5. EndsOK'
  BY DEF EndsOK, EnqueueCall
<1>6. Advance
  BY <1>1, <1>3, <1>4, <1>5, PlaceIsNat DEF Advance, EnqueueCall, AnyNode
<1>7. PrivateOK'
  <2>1. /\ pc'[t] = "enq_tail" /\ p'[t] = n
        /\ \A u \in Thread \ {t} : pc'[u] = pc[u] /\ p'[u] = p[u]
    BY <1>1 DEF EnqueueCall, Goto
  <2>2. \A u \in Thread : Pending(u) => p[u] # n
    BY <1>1 DEF PrivateOK
  <2> QED
    BY <1>1, <1>2, <2>1, <2>2 DEF PrivateOK, Pending, EnqueueCall
<1>8. EnqueueOK(t)' /\ DequeueOK(t)'
  BY DEF EnqueueCall, Goto, EnqueueOK, DequeueOK
<1> QED
  BY <1>6, <1>7, <1>8, OneMoves DEF EnqueueCall, Goto

(* enqueue links its node behind the last one. The next of last is still NULL,
   so last is that node, and tail, which is not behind last, is there too. *)
LEMMA LinkAppends ==
  ASSUME MSInv, MSTypeOK', NEW t \in Thread, EnqueueLink(t), next[last[t]] = nxt[t]
  PROVE  /\ Advance /\ PrivateOK' /\ EnqueueOK(t)'
         /\ order' = Append(order, p[t]) /\ p[t] \in used /\ Pos(order, p[t]) = 0
<1> USE NodeAssumption DEF MSInv, MSTypeOK
<1> DEFINE l == last[t]
           x == p[t]
           N == Len(order)
<1>1. /\ pc[t] = "enq_link" /\ next[l] = NULL
      /\ next' = [next EXCEPT ![l] = x]
      /\ order' = Append(order, x)
      /\ pc' = [pc EXCEPT ![t] = "enq_swing"]
      /\ UNCHANGED <<head, tail, val, used, p, first, last, nxt, value>>
  BY DEF EnqueueLink, EnqueueOK, Goto, locals
<1>2. x \in used /\ Pos(order, x) = 0 /\ x \in Node /\ x # NULL
  BY <1>1 DEF PrivateOK, Pending, AnyNode
<1>3. /\ Pos(order, l) # 0 /\ Pos(order, l) <= Pos(order, tail)
      /\ Pos(order, l) \in Nat /\ Pos(order, tail) \in Nat /\ N \in Nat
  BY <1>1, PlaceIsNat DEF EnqueueOK
<1>4. Pos(order, l) = N /\ l \in AnyNode /\ order[N] = l /\ l # x
  BY <1>1, <1>2, <1>3, Places
<1>5. Pos(order, tail) = N
  BY <1>3, <1>4, Places
<1>6. next[x] = NULL
  BY <1>2 DEF ListOK, AnyNode
<1>7. /\ Len(order') = N + 1
      /\ \A i \in 1..N : order'[i] = order[i]
      /\ order'[N + 1] = x
      /\ \A i, j \in 1..N + 1 : order'[i] = order'[j] => i = j
      /\ Pos(order', x) = N + 1
      /\ \A n : n # x => Pos(order', n) = Pos(order, n)
  <2>1. order \in Seq(AnyNode) /\ x \in AnyNode /\ \A i, j \in 1..Len(order) : order[i] = order[j] => i = j
    BY <1>2 DEF ListOK, AnyNode
  <2> QED
    BY <1>1, <1>2, <2>1, PosAppend
<1> HIDE DEF l, x, N
<1>8. ListOK'
  <2>1. N >= 1 /\ Len(order') >= 1 /\ order'[1] = Dummy
    BY <1>3, <1>7 DEF ListOK, N
  <2>2. ASSUME NEW i \in 1..N + 1
        PROVE  next'[order'[i]] = IF i = N + 1 THEN NULL ELSE order'[i + 1]
    <3>1. CASE i = N + 1
      BY <1>1, <1>2, <1>4, <1>6, <1>7, <3>1 DEF AnyNode
    <3>2. CASE i = N
      BY <1>1, <1>3, <1>4, <1>7, <2>1, <3>2
    <3>3. CASE i < N
      <4>1. i \in 1..N /\ i + 1 \in 1..N /\ N \in 1..N
        BY <1>3, <2>1, <3>3
      <4>2. next[order[i]] = order[i + 1] /\ order[i] # order[N] /\ order[i] \in AnyNode
        BY <1>3, <3>3, <4>1 DEF ListOK, N
      <4> QED
        BY <1>1, <1>3, <1>4, <1>7, <3>3, <4>1, <4>2
    <3> QED
      BY <1>3, <3>1, <3>2, <3>3
  <2>3. ASSUME NEW i \in 2..N + 1 PROVE order'[i] \in used'
    <3>1. CASE i = N + 1
      BY <1>1, <1>2, <1>7, <3>1
    <3>2. CASE i # N + 1
      <4>1. i \in 2..N /\ i \in 1..N
        BY <1>3, <3>2
      <4> QED
        BY <1>1, <1>7, <4>1 DEF ListOK, N
    <3> QED
      BY <3>1, <3>2
  <2>4. ASSUME NEW n \in AnyNode, Pos(order', n) = 0 PROVE next'[n] = NULL
    <3>1. n # x /\ Pos(order, n) = 0
      BY <1>3, <1>7, <2>4
    <3>2. n # l
      BY <1>3, <3>1
    <3> QED
      BY <1>1, <2>4, <3>1, <3>2 DEF ListOK
  <2>5. \A n \in used' : val'[n] \in Value
    BY <1>1 DEF ListOK
  <2> QED
    BY <1>7, <2>1, <2>2, <2>3, <2>4, <2>5 DEF ListOK
<1>9. head # x /\ tail # x /\ Pos(order, head) \in Nat
  BY <1>2, PlaceIsNat DEF EndsOK
<1>10. EndsOK'
  BY <1>1, <1>3, <1>5, <1>7, <1>9 DEF EndsOK
<1>11. Advance
  <2>1. \A n \in AnyNode : Pos(order, n) # 0 => Pos(order', n) = Pos(order, n)
    BY <1>2, <1>7
  <2>2. Pos(order, head) <= Pos(order', head') /\ Pos(order, tail) <= Pos(order', tail')
    BY <1>1, <1>3, <1>7, <1>9
  <2>3. \A n \in AnyNode : next[n] # NULL => next'[n] = next[n]
    BY <1>1
  <2> QED
    BY <1>1, <1>8, <1>10, <2>1, <2>2, <2>3 DEF Advance
<1>12. PrivateOK'
  <2>1. \A u \in Thread : Pending(u)' => u # t /\ Pending(u)
    BY <1>1 DEF Pending
  <2>2. \A u \in Thread : Pending(u) /\ u # t => p[u] # x
    BY <1>1 DEF PrivateOK, Pending, x
  <2> QED
    BY <1>1, <1>7, <2>1, <2>2 DEF PrivateOK
<1>13. EnqueueOK(t)'
  <2>1. pc'[t] = "enq_swing" /\ last'[t] = l /\ p'[t] = x /\ next'[l] = x
    BY <1>1, <1>4 DEF l, x
  <2> QED
    BY <1>1, <1>2, <1>3, <1>4, <1>7, <1>9, <2>1 DEF EnqueueOK, EndsOK, ListOK, N
<1> QED
  BY <1>1, <1>2, <1>11, <1>12, <1>13 DEF x

(* enqueue links its node, or finds that another one did. *)
LEMMA EnqueueLinkKeeps ==
  ASSUME MSInv, MSTypeOK', Remember, NEW t \in Thread, EnqueueLink(t)
  PROVE  MSInv'
<1> USE DEF MSInv, MSTypeOK
<1>1. CASE next[last[t]] = nxt[t]
  <2>1. DequeueOK(t)'
    BY <1>1 DEF EnqueueLink, Goto, DequeueOK
  <2> QED
    BY <1>1, <2>1, LinkAppends, OneMoves DEF EnqueueLink, Goto, locals
<1>2. CASE next[last[t]] # nxt[t]
  <2>1. EnqueueOK(t)' /\ DequeueOK(t)'
    BY <1>2 DEF EnqueueLink, Goto, EnqueueOK, DequeueOK
  <2> QED
    BY <1>2, <2>1, LocalKeeps DEF EnqueueLink, Goto, Pending, locals
<1> QED
  BY <1>1, <1>2

(* Whoever swings tail swings it to the next node. *)
LEMMA TailMoves ==
  ASSUME MSInv, MSTypeOK', NEW l, NEW x, Pos(order, l) # 0, x = next[l], x # NULL,
         CasTail(l, x), UNCHANGED <<head, next, val, used, order>>
  PROVE  Advance
<1> USE DEF MSInv
<1>1. Pos(order, x) = Pos(order, l) + 1
  BY Places
<1>2. Pos(order, tail') >= Pos(order, tail)
  BY <1>1, PlaceIsNat DEF CasTail
<1>3. ListOK' /\ EndsOK'
  <2>1. ListOK'
    BY DEF ListOK
  <2> QED
    BY <1>2, <2>1, PlaceIsNat DEF EndsOK, ListOK, MSTypeOK
<1> QED
  BY <1>2, <1>3, PlaceIsNat DEF Advance, MSTypeOK

(* The steps that try to swing tail. *)
LEMMA SwingTailKeeps ==
  ASSUME MSInv, MSTypeOK', Remember, NEW t \in Thread, EnqueueHelp(t) \/ DequeueHelp(t) \/ EnqueueSwing(t)
  PROVE  MSInv'
<1> USE DEF MSInv, MSTypeOK
<1>1. Advance
  <2>1. CASE EnqueueHelp(t)
    <3>1. Pos(order, last[t]) # 0 /\ nxt[t] = next[last[t]] /\ nxt[t] # NULL
      BY <2>1 DEF EnqueueHelp, EnqueueOK
    <3> QED
      BY <2>1, <3>1, TailMoves DEF EnqueueHelp
  <2>2. CASE DequeueHelp(t)
    <3>1. Pos(order, last[t]) # 0 /\ nxt[t] = next[last[t]] /\ nxt[t] # NULL
      BY <2>2 DEF DequeueHelp, DequeueOK
    <3> QED
      BY <2>2, <3>1, TailMoves DEF DequeueHelp
  <2>3. CASE EnqueueSwing(t)
    <3>1. Pos(order, last[t]) # 0 /\ p[t] = next[last[t]] /\ p[t] # NULL
      BY <2>3 DEF EnqueueSwing, EnqueueOK
    <3> QED
      BY <2>3, <3>1, TailMoves DEF EnqueueSwing
  <2> QED
    BY <2>1, <2>2, <2>3
<1>2. PrivateOK'
  <2>1. /\ \A u \in Thread : Pending(u)' => Pending(u) /\ p'[u] = p[u]
        /\ UNCHANGED <<order, used>>
    BY DEF EnqueueHelp, DequeueHelp, EnqueueSwing, Forget, Goto, Pending, locals
  <2> QED
    BY <2>1 DEF PrivateOK
<1>3. EnqueueOK(t)' /\ DequeueOK(t)'
  BY DEF EnqueueHelp, DequeueHelp, EnqueueSwing, Goto, EnqueueOK, DequeueOK
<1> QED
  BY <1>1, <1>2, <1>3, OneMoves DEF EnqueueHelp, DequeueHelp, EnqueueSwing, Forget, Goto, locals

(* dequeue swings head to the next node, which is not ahead of tail; or finds
   that another one did. *)
LEMMA DequeueSwingKeeps ==
  ASSUME MSInv, MSTypeOK', Remember, NEW t \in Thread, DequeueSwing(t)
  PROVE  MSInv'
<1> USE DEF MSInv, MSTypeOK
<1>1. CASE head = first[t]
  <2>1. /\ Pos(order, head) # 0 /\ nxt[t] = next[head] /\ nxt[t] # NULL
        /\ Pos(order, head) < Pos(order, last[t]) /\ Pos(order, last[t]) <= Pos(order, tail)
        /\ value[t] = val[nxt[t]]
    BY <1>1 DEF DequeueSwing, DequeueOK
  <2>2. Pos(order, nxt[t]) = Pos(order, head) + 1 /\ nxt[t] \in used
    BY <2>1, Places
  <2>3. head' = nxt[t] /\ UNCHANGED <<tail, next, val, used, order, value>>
    BY <1>1 DEF DequeueSwing
  <2>4. ListOK'
    BY <2>3 DEF ListOK
  <2>5. EndsOK'
    BY <2>1, <2>2, <2>3, PlaceIsNat DEF EndsOK
  <2>6. Advance
    BY <2>2, <2>3, <2>4, <2>5, PlaceIsNat DEF Advance
  <2>7. PrivateOK'
    <3>1. \A u \in Thread : Pending(u)' => Pending(u) /\ p'[u] = p[u]
      BY <1>1 DEF DequeueSwing, Forget, Goto, Pending
    <3> QED
      BY <2>3, <3>1 DEF PrivateOK
  <2>8. value'[t] \in Value
    BY <2>1, <2>2, <2>3 DEF ListOK
  <2>9. EnqueueOK(t)' /\ DequeueOK(t)'
    BY <1>1, <2>8 DEF DequeueSwing, Goto, EnqueueOK, DequeueOK
  <2> QED
    BY <1>1, <2>6, <2>7, <2>9, OneMoves DEF DequeueSwing, Forget, Goto
<1>2. CASE head # first[t]
  <2>1. EnqueueOK(t)' /\ DequeueOK(t)'
    BY <1>2 DEF DequeueSwing, Goto, EnqueueOK, DequeueOK
  <2> QED
    BY <1>2, <2>1, LocalKeeps DEF DequeueSwing, Goto, Pending
<1> QED
  BY <1>1, <1>2

-----------------------------------------------------------------------------
(* The invariant *)

(* SHARED_OBJECT_INIT makes a list of the dummy node alone. *)
LEMMA InitMSInv == Init => MSInv
<1> SUFFICES ASSUME Init PROVE MSInv
  OBVIOUS
<1> USE NodeAssumption DEF Init
<1>1. /\ order \in Seq(AnyNode) /\ Len(order) = 1 /\ order[1] = Dummy
  BY DEF AnyNode
<1>2. MSTypeOK
  BY <1>1 DEF MSTypeOK, AnyNode
<1>3. \A i, j \in 1..Len(order) : order[i] = order[j] => i = j
  BY <1>1
<1>4. Pos(order, Dummy) = 1
  <2>1. 1 \in 1..Len(order)
    BY <1>1
  <2>2. Pos(order, order[1]) = 1
    BY <1>1, <1>3, <2>1, PosOfElement
  <2> QED
    BY <1>1, <2>2
<1>5. ListOK
  BY <1>1 DEF ListOK, AnyNode
<1>6. EndsOK
  BY <1>1, <1>4 DEF EndsOK
<1>7. PrivateOK
  BY DEF PrivateOK, Pending
<1>8. \A t \in Thread : EnqueueOK(t) /\ DequeueOK(t)
  BY DEF EnqueueOK, DequeueOK
<1> QED
  BY <1>2, <1>5, <1>6, <1>7, <1>8 DEF MSInv

(* Every step keeps the invariant. *)
LEMMA StepMSInv == MSInv /\ [Next]_vars => MSInv'
<1> SUFFICES ASSUME MSInv, [Next]_vars PROVE MSInv'
  OBVIOUS
<1>1. CASE Next
  <2>1. MSTypeOK' /\ Remember
    BY <1>1, StepTypes DEF Next
  <2>2. ASSUME NEW t \in Enqueuer, (\E v \in Value : EnqueueCall(t, v)) \/ Enqueuing(t) PROVE MSInv'
    BY <2>1, <2>2, EnqueueCallKeeps, EnqueueReads, EnqueueLinkKeeps, SwingTailKeeps
       DEF Enqueuing, Thread
  <2>3. ASSUME NEW t \in Dequeuer, DequeueCall(t) \/ Dequeuing(t) PROVE MSInv'
    BY <2>1, <2>3, DequeueReads, DequeueSwingKeeps, SwingTailKeeps DEF Dequeuing, Thread
  <2> QED
    BY <1>1, <2>2, <2>3 DEF Next
<1>2. CASE UNCHANGED vars
  <2>1. MSTypeOK' /\ ListOK' /\ EndsOK' /\ PrivateOK'
    BY <1>2 DEF MSInv, MSTypeOK, ListOK, EndsOK, PrivateOK, Pending, vars, locals
  <2>2. \A t \in Thread : EnqueueOK(t)' /\ DequeueOK(t)'
    BY <1>2 DEF MSInv, EnqueueOK, DequeueOK, vars, locals
  <2> QED
    BY <2>1, <2>2 DEF MSInv
<1> QED
  BY <1>1, <1>2

(* The invariant holds throughout. *)
LEMMA MSInvariant == Spec => []MSInv
  BY InitMSInv, StepMSInv, PTL DEF Spec

(* The types of the Michael-Scott list. *)
THEOREM MSTypeCorrect == Spec => []MSTypeOK
<1>1. MSInv => MSTypeOK
  BY DEF MSInv
<1> QED
  BY <1>1, MSInvariant, PTL

(* The nodes form one list that only grows at its end, with head and tail in
   it, however enqueues and helpers overlap. *)
THEOREM OneListCorrect == Spec => []OneList
<1>1. MSInv => OneList
  BY DEF MSInv, ListOK, EndsOK, OneList, Position, Pos
<1> QED
  BY <1>1, MSInvariant, PTL

(* dequeue follows no null pointer to a value. *)
THEOREM NoNullReadCorrect == Spec => []NoNullRead
<1>1. MSInv => NoNullRead
  BY DEF MSInv, DequeueOK, NoNullRead, Thread
<1> QED
  BY <1>1, MSInvariant, PTL

(* dequeue returns -1 only if the queue was empty during the call. *)
THEOREM EmptyIsHonestCorrect == Spec => []EmptyIsHonest
<1>1. MSInv => EmptyIsHonest
  BY DEF MSInv, DequeueOK, EmptyIsHonest, Thread
<1> QED
  BY <1>1, MSInvariant, PTL

-----------------------------------------------------------------------------
(* The list implements FifoQueue *)

(* The abstract queue: the values behind head. *)
AbsQueue == [i \in 1..Len(Contents) |-> val[Contents[i]]]
AbsTaken == [t \in Thread |-> IF pc[t] = "got" THEN value[t] ELSE NULL]
Behind(n) == Len(order) - Pos(order, n)

(* Its elements, by their places in the list. *)
AbsQueueOK ==
  /\ Behind(head) \in Nat
  /\ AbsQueue \in Seq(Value) /\ Len(AbsQueue) = Behind(head)
  /\ \A i \in 1..Behind(head) : AbsQueue[i] = val[order[Pos(order, head) + i]]

(* Such is the abstract queue of every list. *)
LEMMA AbsQueueIs == MSInv => AbsQueueOK
<1> SUFFICES ASSUME MSInv PROVE AbsQueueOK
  OBVIOUS
<1> DEFINE h == Pos(order, head)
           N == Len(order)
<1>1. h \in Nat /\ N \in Nat /\ 1 <= h /\ h <= N /\ order \in Seq(AnyNode)
  BY Places DEF MSInv, EndsOK, MSTypeOK
<1>2. Position(head) = h
  BY DEF Position, Pos
<1> HIDE DEF h, N
<1>3. Contents = SubSeq(order, h + 1, N)
  BY <1>2 DEF Contents, N
<1>4. /\ Contents \in Seq(AnyNode) /\ Len(Contents) = N - h
      /\ \A i \in 1..N - h : Contents[i] = order[h + i]
  BY <1>1, <1>3 DEF N
<1>5. ASSUME NEW i \in 1..N - h PROVE val[order[h + i]] \in Value
  <2>1. h + i \in 2..N
    BY <1>1
  <2> QED
    BY <2>1 DEF MSInv, ListOK, N
<1>6. AbsQueue = [i \in 1..N - h |-> val[order[h + i]]]
  BY <1>1, <1>4 DEF AbsQueue
<1>7. AbsQueue \in Seq(Value) /\ Len(AbsQueue) = N - h
  BY <1>1, <1>5, <1>6
<1>8. Behind(head) = N - h /\ N - h \in Nat
  BY <1>1 DEF Behind, h, N
<1> QED
  BY <1>6, <1>7, <1>8 DEF AbsQueueOK, h

(* Steps that leave the list, head and the returned values alone. *)
LEMMA Stutters ==
  ASSUME AbsQueue' = AbsQueue, AbsTaken' = AbsTaken
  PROVE  [Fifo!Next]_(Fifo!vars)
  BY DEF Fifo!vars, AbsQueue, AbsTaken

(* Without a new value in the list and a new head the queue stays. *)
LEMMA SameQueue ==
  ASSUME MSInv, MSInv', UNCHANGED <<order, head>>, \A n \in used : val'[n] = val[n]
  PROVE  AbsQueue' = AbsQueue
<1>1. AbsQueueOK
  BY AbsQueueIs
<1>2. (MSInv => AbsQueueOK)'
  BY AbsQueueIs, PTL
<1>3. /\ AbsQueue' \in Seq(Value) /\ Len(AbsQueue') = Behind(head)
      /\ \A i \in 1..Behind(head) : AbsQueue'[i] = val'[order[Pos(order, head) + i]]
  BY <1>2 DEF AbsQueueOK, Behind
<1>4. ASSUME NEW i \in 1..Behind(head) PROVE order[Pos(order, head) + i] \in used
  <2>1. Pos(order, head) + i \in 2..Len(order)
    BY PlaceIsNat DEF Behind, MSInv, EndsOK, MSTypeOK
  <2> QED
    BY <2>1 DEF MSInv, ListOK
<1>5. \A i \in 1..Len(AbsQueue) : AbsQueue'[i] = AbsQueue[i]
  BY <1>1, <1>3, <1>4 DEF AbsQueueOK
<1> HIDE DEF AbsQueue
<1> QED
  BY <1>1, <1>3, <1>5, SeqEqual DEF AbsQueueOK

(* Only a swing of head and a return change what is in hand. *)
LEMMA SameTaken ==
  ASSUME MSInv, NEW t \in Thread, NEW l, Goto(t, l), pc[t] # "got", l # "got",
         \A u \in Thread \ {t} : value'[u] = value[u]
  PROVE  AbsTaken' = AbsTaken
<1>1. ASSUME NEW u \in Thread
      PROVE  (IF pc'[u] = "got" THEN value'[u] ELSE NULL) = (IF pc[u] = "got" THEN value[u] ELSE NULL)
  BY DEF MSInv, MSTypeOK, Goto
<1> QED
  BY <1>1 DEF AbsTaken

(* The link of its node is the put of an enqueue. *)
LEMMA LinkPuts ==
  ASSUME MSInv, MSInv', NEW t \in Thread, EnqueueLink(t), next[last[t]] = nxt[t]
  PROVE  Fifo!Put(val[p[t]]) /\ val[p[t]] \in Value
<1> DEFINE v == val[p[t]]
           h == Pos(order, head)
           N == Len(order)
<1>1. /\ order' = Append(order, p[t]) /\ p[t] \in used /\ Advance
      /\ UNCHANGED <<head, val, value>>
  BY LinkAppends DEF MSInv, EnqueueLink, locals
<1>2. v \in Value
  BY <1>1 DEF MSInv, ListOK
<1>3. order \in Seq(AnyNode) /\ p[t] \in AnyNode /\ N \in Nat /\ h \in 1..N
  BY <1>1, Places DEF MSInv, MSTypeOK, EndsOK, AnyNode
<1>4. Pos(order', head) = h
  BY <1>1, <1>3, LinkedNode DEF MSInv, Advance
<1>5. /\ Len(order') = N + 1 /\ order'[N + 1] = p[t]
      /\ \A i \in 1..N : order'[i] = order[i]
  BY <1>1, <1>3
<1>6. AbsQueue \in Seq(Value) /\ Len(AbsQueue) = N - h
      /\ \A i \in 1..N - h : AbsQueue[i] = val[order[h + i]]
  BY AbsQueueIs DEF AbsQueueOK, Behind
<1>7. (MSInv => AbsQueueOK)'
  BY AbsQueueIs, PTL
<1> HIDE DEF v, h, N
<1>8. AbsQueue' \in Seq(Value) /\ Len(AbsQueue') = N + 1 - h
      /\ \A i \in 1..N + 1 - h : AbsQueue'[i] = val[order'[h + i]]
  <2>1. head' = head
    BY <1>1
  <2>2. Pos(order', head') = h
    BY <1>4, <2>1
  <2>3. Behind(head)' = N + 1 - h
    BY <1>3, <1>5, <2>2 DEF Behind
  <2> QED
    BY <1>1, <1>7, <2>2, <2>3 DEF AbsQueueOK
<1> HIDE DEF AbsQueue
<1>9. AbsQueue' = Append(AbsQueue, v)
  <2>1. Append(AbsQueue, v) \in Seq(Value) /\ Len(Append(AbsQueue, v)) = N + 1 - h
    BY <1>2, <1>3, <1>6
  <2>2. ASSUME NEW i \in 1..N + 1 - h PROVE AbsQueue'[i] = Append(AbsQueue, v)[i]
    <3>1. CASE i = N + 1 - h
      <4>1. h + i = N + 1
        BY <1>3, <3>1
      <4> QED
        BY <1>2, <1>3, <1>5, <1>6, <1>8, <3>1, <4>1 DEF v
    <3>2. CASE i # N + 1 - h
      <4>1. i \in 1..N - h /\ h + i \in 1..N
        BY <1>3, <3>2
      <4>2. AbsQueue'[i] = val[order[h + i]]
        BY <1>5, <1>8, <4>1
      <4>3. Append(AbsQueue, v)[i] = AbsQueue[i]
        BY <1>2, <1>6, <4>1
      <4> QED
        BY <1>6, <4>1, <4>2, <4>3
    <3> QED
      BY <3>1, <3>2
  <2> QED
    BY <1>8, <2>1, <2>2, SeqEqual
<1>10. AbsTaken' = AbsTaken
  BY <1>1, SameTaken DEF EnqueueLink
<1> QED
  BY <1>2, <1>9, <1>10 DEF Fifo!Put, AbsQueue, AbsTaken, v

(* The swing of head is the get of a dequeue, and the value it read before is
   the one at the head of the queue. *)
LEMMA SwingGets ==
  ASSUME MSInv, MSInv', NEW t \in Thread, DequeueSwing(t), head = first[t]
  PROVE  Fifo!Get(t)
<1> DEFINE h == Pos(order, head)
           N == Len(order)
<1>1. /\ h # 0 /\ nxt[t] = next[head] /\ nxt[t] # NULL /\ value[t] = val[nxt[t]]
      /\ pc[t] = "deq_swing" /\ head' = nxt[t] /\ UNCHANGED <<order, val, value>>
      /\ pc' = [pc EXCEPT ![t] = "got"]
  BY PlaceIsNat DEF MSInv, DequeueOK, DequeueSwing, Goto
<1>2. h \in Nat /\ N \in Nat /\ h < N /\ Pos(order, nxt[t]) = h + 1 /\ order[h + 1] = nxt[t]
  <2>1. h \in Nat /\ N \in Nat /\ h < N /\ Pos(order, nxt[t]) = h + 1
    BY <1>1, Places DEF MSInv
  <2> QED
    BY <2>1, Places DEF MSInv
<1>3. AbsQueue \in Seq(Value) /\ Len(AbsQueue) = N - h
      /\ \A i \in 1..N - h : AbsQueue[i] = val[order[h + i]]
  BY AbsQueueIs DEF AbsQueueOK, Behind
<1>4. (MSInv => AbsQueueOK)'
  BY AbsQueueIs, PTL
<1> HIDE DEF h, N
<1>5. AbsQueue' \in Seq(Value) /\ Len(AbsQueue') = N - (h + 1)
      /\ \A i \in 1..N - (h + 1) : AbsQueue'[i] = val[order[(h + 1) + i]]
  BY <1>1, <1>2, <1>4 DEF AbsQueueOK, Behind, N
<1> HIDE DEF AbsQueue
<1>6. AbsQueue # <<>> /\ Head(AbsQueue) = value[t]
  BY <1>1, <1>2, <1>3
<1>7. AbsQueue' = Tail(AbsQueue)
  <2>1. Tail(AbsQueue) \in Seq(Value) /\ Len(Tail(AbsQueue)) = N - (h + 1)
    BY <1>2, <1>3, <1>6
  <2>2. ASSUME NEW i \in 1..N - (h + 1) PROVE AbsQueue'[i] = Tail(AbsQueue)[i]
    <3>1. i + 1 \in 1..N - h /\ h + (i + 1) = (h + 1) + i
      BY <1>2
    <3>2. Tail(AbsQueue)[i] = AbsQueue[i + 1]
      BY <1>2, <1>3, <1>6
    <3> QED
      BY <1>3, <1>5, <3>1, <3>2
  <2> QED
    BY <1>5, <2>1, <2>2, SeqEqual
<1>8. AbsTaken[t] = NULL /\ AbsTaken' = [AbsTaken EXCEPT ![t] = value[t]]
  <2>1. \A u \in Thread : pc'[u] = IF u = t THEN "got" ELSE pc[u]
    BY <1>1 DEF MSInv, MSTypeOK
  <2> QED
    BY <1>1, <2>1 DEF AbsTaken
<1> QED
  BY <1>6, <1>7, <1>8 DEF Fifo!Get, AbsQueue, AbsTaken

(* The return of the value is the return of the abstract get. *)
LEMMA ReturnReturns ==
  ASSUME MSInv, NEW t \in Thread, DequeueReturn(t), pc[t] = "got", AbsQueue' = AbsQueue
  PROVE  Fifo!Return(t)
<1> USE NodeAssumption DEF MSInv, MSTypeOK
<1>1. AbsTaken[t] # NULL
  BY DEF AbsTaken, DequeueOK
<1>2. \A u \in Thread : pc'[u] = IF u = t THEN "idle" ELSE pc[u]
  BY DEF DequeueReturn, Goto
<1>3. \A u \in Thread \ {t} : value'[u] = value[u]
  BY DEF DequeueReturn
<1>4. AbsTaken' = [AbsTaken EXCEPT ![t] = NULL]
  BY <1>2, <1>3 DEF AbsTaken
<1> QED
  BY <1>1, <1>4 DEF Fifo!Return, AbsQueue, AbsTaken

(* Every step of the list is a step, or a stutter, of the abstract queue. *)
LEMMA StepRefines == MSInv /\ MSInv' /\ [Next]_vars => [Fifo!Next]_(Fifo!vars)
<1> SUFFICES ASSUME MSInv, MSInv', [Next]_vars PROVE [Fifo!Next]_(Fifo!vars)
  OBVIOUS
<1>1. ASSUME NEW t \in Thread, NEW l, Goto(t, l), pc[t] # "got", l # "got",
             UNCHANGED <<order, head>>, \A n \in used : val'[n] = val[n],
             \A u \in Thread \ {t} : value'[u] = value[u]
      PROVE  [Fifo!Next]_(Fifo!vars)
  BY <1>1, SameQueue, SameTaken, Stutters
<1>2. ASSUME NEW t \in Thread, NEW v \in Value, EnqueueCall(t, v) PROVE [Fifo!Next]_(Fifo!vars)
  <2>1. \A n \in used : val'[n] = val[n]
    BY <1>2 DEF EnqueueCall, MSInv, MSTypeOK, AnyNode
  <2> QED
    BY <1>1, <1>2, <2>1 DEF EnqueueCall
<1>3. ASSUME NEW t \in Thread, EnqueueTail(t) \/ EnqueueNext(t) \/ EnqueueHelp(t) \/ EnqueueSwing(t)
      PROVE  [Fifo!Next]_(Fifo!vars)
  BY <1>1, <1>3 DEF EnqueueTail, EnqueueNext, EnqueueHelp, EnqueueSwing, locals
<1>4. ASSUME NEW t \in Thread, EnqueueCheck(t) PROVE [Fifo!Next]_(Fifo!vars)
  <2>1. \E l \in {"enq_link", "enq_help", "enq_tail"} : Goto(t, l)
    BY <1>4 DEF EnqueueCheck
  <2> QED
    BY <1>1, <1>4, <2>1 DEF EnqueueCheck, locals
<1>5. ASSUME NEW t \in Thread, EnqueueLink(t) PROVE [Fifo!Next]_(Fifo!vars)
  <2>1. CASE next[last[t]] = nxt[t]
    <3>1. Fifo!Put(val[p[t]]) /\ val[p[t]] \in Value
      BY <1>5, <2>1, LinkPuts
    <3>2. \E v \in Value : Fifo!Put(v)
      BY <3>1 DEF Fifo!Put
    <3> QED
      BY <3>2 DEF Fifo!Next
  <2>2. CASE next[last[t]] # nxt[t]
    BY <1>1, <1>5, <2>2 DEF EnqueueLink, locals
  <2> QED
    BY <2>1, <2>2
<1>6. ASSUME NEW t \in Thread,
             DequeueCall(t) \/ DequeueHead(t) \/ DequeueTail(t) \/ DequeueNext(t) \/ DequeueHelp(t)
             \/ DequeueValue(t)
      PROVE  [Fifo!Next]_(Fifo!vars)
  <2>1. \A u \in Thread \ {t} : value'[u] = value[u]
    BY <1>6 DEF DequeueCall, DequeueHead, DequeueTail, DequeueNext, DequeueHelp, DequeueValue, locals,
                MSInv, MSTypeOK
  <2> QED
    BY <1>1, <1>6, <2>1
       DEF DequeueCall, DequeueHead, DequeueTail, DequeueNext, DequeueHelp, DequeueValue, locals
<1>7. ASSUME NEW t \in Thread, DequeueCheck(t) PROVE [Fifo!Next]_(Fifo!vars)
  <2>1. \E l \in DequeueLabel : l # "got" /\ Goto(t, l)
    BY <1>7 DEF DequeueCheck, WhereMet, DequeueLabel
  <2> QED
    BY <1>1, <1>7, <2>1 DEF DequeueCheck, locals
<1>8. ASSUME NEW t \in Thread, DequeueSwing(t) PROVE [Fifo!Next]_(Fifo!vars)
  <2>1. CASE head = first[t]
    BY <1>8, <2>1, SwingGets DEF Fifo!Next
  <2>2. CASE head # first[t]
    <3>1. \A u \in Thread \ {t} : value'[u] = value[u]
      BY <1>8, <2>2 DEF DequeueSwing, MSInv, MSTypeOK
    <3> QED
      BY <1>1, <1>8, <2>2, <3>1 DEF DequeueSwing
  <2> QED
    BY <2>1, <2>2
<1>9. ASSUME NEW t \in Thread, DequeueReturn(t) PROVE [Fifo!Next]_(Fifo!vars)
  <2>1. AbsQueue' = AbsQueue
    BY <1>9, SameQueue DEF DequeueReturn
  <2>2. CASE pc[t] = "got"
    BY <1>9, <2>1, <2>2, ReturnReturns DEF Fifo!Next
  <2>3. CASE pc[t] # "got"
    <3>1. \A u \in Thread \ {t} : value'[u] = value[u]
      BY <1>9 DEF DequeueReturn, MSInv, MSTypeOK
    <3> QED
      BY <1>1, <1>9, <2>3, <3>1 DEF DequeueReturn
  <2> QED
    BY <2>2, <2>3
<1>10. CASE UNCHANGED vars
  <2>1. AbsQueue' = AbsQueue /\ AbsTaken' = AbsTaken
    BY <1>10, SameQueue DEF vars, locals, AbsTaken
  <2> QED
    BY <2>1, Stutters
<1> QED
  BY <1>2, <1>3, <1>4, <1>5, <1>6, <1>7, <1>8, <1>9, <1>10 DEF Next, Enqueuing, Dequeuing, Thread

(* The Michael-Scott list implements the abstract FIFO queue, for any number
   of threads, whether or not the compiler merges reads. *)
THEOREM MSFifoCorrect == Spec => FifoRefinement
<1>1. Init => Fifo!Init
  <2> SUFFICES ASSUME Init PROVE Fifo!Init
    OBVIOUS
  <2>1. MSInv /\ Len(order) = 1
    BY InitMSInv DEF Init
  <2>2. AbsQueue \in Seq(Value) /\ Len(AbsQueue) = 0
    BY <2>1, AbsQueueIs, PlaceIsNat DEF AbsQueueOK, Behind, MSInv, EndsOK, Init
  <2>3. AbsQueue = <<>> /\ AbsTaken = [t \in Thread |-> NULL]
    BY <2>2 DEF AbsTaken, Init
  <2> QED
    BY <2>3 DEF Fifo!Init, AbsQueue, AbsTaken
<1>2. MSInv /\ [Next]_vars => [Fifo!Next]_(Fifo!vars)
  BY StepMSInv, StepRefines
<1>3. Spec => Fifo!Init /\ [][Fifo!Next]_(Fifo!vars)
  BY <1>1, <1>2, MSInvariant, PTL DEF Spec
<1> QED
  BY <1>3 DEF FifoRefinement, Fifo!Spec
=============================================================================
